------------------------ MODULE ConversationCliProofs ------------------------
(***************************************************************************)
(* Proofs about ConversationCli, for any number of processes, messages,    *)
(* delegations and key ids, and for every choice of --after.               *)
(***************************************************************************)
EXTENDS ConversationCli, SequenceTheorems, FunctionTheorems, FiniteSetTheorems,
        TLAPS

-----------------------------------------------------------------------------
(* The inductive invariant. *)

\* A copy of the state that a command can go on from, when m delegations have
\* been made and the messages in done have been passed.
Sound(s, m, done) ==
    /\ s.mode \in s.profile
    /\ Len(s.keyIds) \in 1..MaxKeyIds
    /\ \A i, j \in DOMAIN s.keyIds : s.keyIds[i] = s.keyIds[j] => i = j
    /\ \A i \in DOMAIN s.keyIds : s.keyIds[i] <= m
    /\ \E i \in DOMAIN s.keyIds : s.keyIds[i] = s.delegation
    /\ s.acknowledged <= s.observed
    /\ 1..s.observed \subseteq done

\* What a job knows at each of its awaits.
Works(j, m, done) ==
    /\ j.pc \notin {"idle", "open", "replace", "page"} => Sound(j.mem, m, done)
    /\ j.pc \in {"open", "replace"} => j.mem = NoState
    /\ j.pc = "renewed" => j.delegation \in 1..m /\ Sound(j.mem, j.delegation - 1, done)
    /\ j.pc \in {"messages", "page"} => 1..j.from \subseteq done
    /\ j.pc \in {"watch", "emitted"} => 1..j.upto \subseteq done
    /\ j.pc \in {"acknowledge", "acknowledged"} =>
          j.upto \in j.mem.acknowledged..j.mem.observed

FileIsSound == file = NoState \/ Sound(file, made, passed)
JobsWork == \A p \in Procs : Works(job[p], made, passed)
RoomInLog == log + queued <= MaxLog

CliInv ==
    /\ TypeOK
    /\ RoomInLog
    /\ FileIsSound
    /\ JobsWork
    /\ AcknowledgedWasPassed

-----------------------------------------------------------------------------
(* The list of key ids. *)

\* A list without repetitions has as many members as it is long.
LEMMA DistinctIsCounted ==
    ASSUME NEW S, NEW ids \in Seq(S),
           \A i, j \in DOMAIN ids : ids[i] = ids[j] => i = j
    PROVE  Cardinality(ToSet(ids)) = Len(ids)
<1>1. Len(ids) \in Nat /\ DOMAIN ids = 1..Len(ids)
  OBVIOUS
<1>2. ToSet(ids) = {ids[i] : i \in 1..Len(ids)}
  BY <1>1 DEF ToSet
<1> DEFINE T == ToSet(ids)
           f == [i \in 1..Len(ids) |-> ids[i]]
<1>3. f \in [1..Len(ids) -> T]
  BY <1>2
<1>4. \A a, b \in 1..Len(ids) : f[a] = f[b] => a = b
  BY <1>1
<1>5. \A t \in T : \E i \in 1..Len(ids) : f[i] = t
  BY <1>2
<1> HIDE DEF T, f
<1>6. f \in Bijection(1..Len(ids), T)
  BY <1>3, <1>4, <1>5, Fun_IsBij
<1>7. ExistsBijection(1..Len(ids), T)
  BY <1>6, Fun_ExistsBij
<1>8. Cardinality(T) = Len(ids)
  BY <1>1, <1>7, FS_CountingElements
<1> QED
  BY <1>8 DEF T

\* validate_state accepts a sound copy.
LEMMA SoundIsValid ==
    ASSUME NEW s \in State, NEW m, NEW done, Sound(s, m, done)
    PROVE  ValidState(s)
<1>1. s.keyIds \in Seq(1..MaxDelegations)
  BY DEF State
<1>2. Cardinality(ToSet(s.keyIds)) = Len(s.keyIds)
  BY <1>1, DistinctIsCounted DEF Sound
<1>3. s.delegation \in ToSet(s.keyIds)
  BY DEF Sound, ToSet
<1> QED
  BY <1>2, <1>3 DEF Sound, ValidState

\* A sound copy stays sound when delegations are made and messages passed.
LEMMA SoundMonotone ==
    ASSUME NEW s \in State, NEW m \in Nat, NEW n \in Nat, m <= n,
           NEW done, NEW more, done \subseteq more, Sound(s, m, done)
    PROVE  Sound(s, n, more)
<1> DEFINE ids == s.keyIds
<1>1. ids \in Seq(1..MaxDelegations)
  BY DEF State
<1> HIDE DEF ids
<1>2. \A i \in DOMAIN ids : ids[i] \in Nat
  BY <1>1, CliAssumption
<1>3. \A i \in DOMAIN ids : ids[i] <= m
  BY DEF Sound, ids
<1>4. \A i \in DOMAIN ids : ids[i] <= n
  BY <1>2, <1>3
<1> QED
  BY <1>4 DEF Sound, ids

\* retain_decryption_key_id with an id that is new: the list stays within its
\* limit and without repetitions, ends with the new id, and loses an old one
\* only when it is full.
LEMMA RetainProperties ==
    ASSUME NEW N \in Nat, NEW ids \in Seq(1..N), NEW d \in 1..N,
           Len(ids) \in 1..MaxKeyIds,
           \A i, j \in DOMAIN ids : ids[i] = ids[j] => i = j,
           \A i \in DOMAIN ids : ids[i] < d
    PROVE  /\ RetainKeyId(ids, d) \in Seq(1..N)
           /\ Len(RetainKeyId(ids, d)) \in 1..MaxKeyIds
           /\ \A i, j \in DOMAIN RetainKeyId(ids, d) :
                 RetainKeyId(ids, d)[i] = RetainKeyId(ids, d)[j] => i = j
           /\ \A i \in DOMAIN RetainKeyId(ids, d) : RetainKeyId(ids, d)[i] <= d
           /\ \E i \in DOMAIN RetainKeyId(ids, d) : RetainKeyId(ids, d)[i] = d
           /\ \/ \A i \in DOMAIN ids :
                    \E k \in DOMAIN RetainKeyId(ids, d) : RetainKeyId(ids, d)[k] = ids[i]
              \/ Len(RetainKeyId(ids, d)) = MaxKeyIds
<1> DEFINE all == Append(ids, d)
           n == Len(ids) + 1
           from == Larger(1, n - MaxKeyIds + 1)
           kept == SubSeq(all, from, n)
<1>0. MaxKeyIds \in Nat \ {0} /\ N \in Nat
  BY CliAssumption
<1>1. Without(ids, d) = ids
  <2>1. d \notin ToSet(ids)
    <3>1. \A i \in DOMAIN ids : ids[i] \in Nat /\ ids[i] < d
      BY <1>0
    <3>2. \A i \in DOMAIN ids : ids[i] # d
      BY <3>1
    <3> QED
      BY <3>2 DEF ToSet
  <2> QED
    BY <2>1, Zenon DEF Without
<1>2. /\ all \in Seq(1..N) /\ Len(all) = n
      /\ \A i \in 1..Len(ids) : all[i] = ids[i]
      /\ all[n] = d
  BY AppendProperties
<1>3. n \in Nat /\ n - 1 = Len(ids) /\ n <= MaxKeyIds + 1 /\ n >= 2
  BY <1>0
<1>4. /\ from \in Nat /\ 1 <= from /\ from <= n
      /\ n - from + 1 <= MaxKeyIds
      /\ from = 1 \/ n - from + 1 = MaxKeyIds
  BY <1>0, <1>3 DEF Larger
<1>5. RetainKeyId(ids, d) = kept
  BY <1>1, <1>2, Zenon DEF RetainKeyId
<1>6. DOMAIN ids = 1..Len(ids) /\ DOMAIN all = 1..n
  BY <1>2
<1> HIDE DEF all, n, from
<1>7. \A i \in from..n : all[i] \in 1..N
  <2>1. \A i \in from..n : i \in DOMAIN all
    BY <1>3, <1>4, <1>6
  <2> QED
    BY <1>0, <1>2, <2>1
<1>8. /\ kept \in Seq(1..N) /\ Len(kept) = n - from + 1
      /\ \A i \in 1..(n - from + 1) : kept[i] = all[from + i - 1]
  BY <1>3, <1>4, <1>7, SubSeqProperties
<1> HIDE DEF kept
<1>9. DOMAIN kept = 1..(n - from + 1)
  BY <1>8
<1>10. \A i \in DOMAIN kept : from + i - 1 \in 1..n /\ kept[i] = all[from + i - 1]
  <2> SUFFICES ASSUME NEW i \in DOMAIN kept
               PROVE  from + i - 1 \in 1..n /\ kept[i] = all[from + i - 1]
    OBVIOUS
  <2>1. i \in 1..(n - from + 1)
    BY <1>9
  <2>2. from + i - 1 \in 1..n
    BY <1>3, <1>4, <2>1
  <2> QED
    BY <1>8, <2>1, <2>2
<1>11. ASSUME NEW i \in 1..n
       PROVE  \/ all[i] = d /\ i = n
              \/ /\ i \in 1..Len(ids) /\ all[i] = ids[i]
                 /\ ids[i] \in Nat /\ ids[i] < d
  <2>1. CASE i = n
    BY <1>2, <2>1
  <2>2. CASE i # n
    <3>1. i \in 1..Len(ids)
      BY <1>3, <2>2
    <3> QED
      BY <1>0, <1>2, <1>6, <3>1
  <2> QED
    BY <2>1, <2>2
<1>12. \A i, j \in 1..n : all[i] = all[j] => i = j
  <2> SUFFICES ASSUME NEW i \in 1..n, NEW j \in 1..n, all[i] = all[j]
               PROVE  i = j
    OBVIOUS
  <2>1. CASE all[i] = d
    <3>1. ASSUME NEW k \in 1..n, all[k] = d
          PROVE  k = n
      <4>1. \/ all[k] = d /\ k = n
            \/ all[k] = ids[k] /\ ids[k] \in Nat /\ ids[k] < d
        BY <1>11
      <4> QED
        BY <1>0, <3>1, <4>1
    <3> QED
      BY <2>1, <3>1
  <2>2. CASE all[i] # d
    <3>1. /\ i \in DOMAIN ids /\ all[i] = ids[i]
          /\ j \in DOMAIN ids /\ all[j] = ids[j]
      BY <1>6, <1>11, <2>2
    <3> QED
      BY <3>1
  <2> QED
    BY <2>1, <2>2
<1>13. \A i, j \in DOMAIN kept : kept[i] = kept[j] => i = j
  <2> SUFFICES ASSUME NEW i \in DOMAIN kept, NEW j \in DOMAIN kept, kept[i] = kept[j]
               PROVE  i = j
    OBVIOUS
  <2>1. from + i - 1 = from + j - 1
    BY <1>10, <1>12
  <2> QED
    BY <1>3, <1>4, <1>9, <2>1
<1>14. \A i \in DOMAIN kept : kept[i] <= d
  BY <1>0, <1>10, <1>11
<1>15. \E i \in DOMAIN kept : kept[i] = d
  <2>1. n - from + 1 \in DOMAIN kept /\ from + (n - from + 1) - 1 = n
    BY <1>3, <1>4, <1>9
  <2> QED
    BY <1>2, <1>10, <2>1
<1>16. ASSUME from = 1
       PROVE  \A i \in DOMAIN ids : \E k \in DOMAIN kept : kept[k] = ids[i]
  <2> SUFFICES ASSUME NEW i \in DOMAIN ids
               PROVE  i \in DOMAIN kept /\ kept[i] = ids[i]
    OBVIOUS
  <2>1. i \in DOMAIN kept /\ from + i - 1 = i
    BY <1>3, <1>6, <1>9, <1>16
  <2> QED
    BY <1>2, <1>6, <1>10, <2>1
<1>17. Len(kept) \in 1..MaxKeyIds /\ (from # 1 => Len(kept) = MaxKeyIds)
  BY <1>3, <1>4, <1>8, <1>0
<1> QED
  BY <1>5, <1>8, <1>13, <1>14, <1>15, <1>16, <1>17

-----------------------------------------------------------------------------
(* What a step of one process leaves in place. *)

\* What a job knows stays true when delegations are made and messages passed.
LEMMA WorksMonotone ==
    ASSUME NEW j \in Job, NEW m \in Nat, NEW n \in Nat, m <= n,
           NEW done, NEW more, done \subseteq more, Works(j, m, done)
    PROVE  Works(j, n, more)
<1>1. j.mem \in State /\ j.delegation \in Nat
  BY CliAssumption DEF Job
<1>2. ASSUME j.pc = "renewed"
      PROVE  j.delegation \in 1..n /\ Sound(j.mem, j.delegation - 1, more)
  <2>1. j.delegation \in 1..m /\ Sound(j.mem, j.delegation - 1, done)
    BY <1>2 DEF Works
  <2>2. j.delegation \in 1..n /\ j.delegation - 1 \in Nat
        /\ j.delegation - 1 <= j.delegation - 1
    BY <1>1, <2>1
  <2> QED
    BY <1>1, <2>1, <2>2, SoundMonotone
<1>3. j.pc \notin {"idle", "open", "replace", "page"} => Sound(j.mem, n, more)
  BY <1>1, SoundMonotone DEF Works
<1> QED
  BY <1>2, <1>3 DEF Works

\* When a process takes a step, what the other jobs know stays true.
LEMMA OthersWork ==
    ASSUME CliInv, NEW p \in Procs, NEW j, job' = [job EXCEPT ![p] = j],
           Works(j, made', passed'), made' \in Nat, made <= made',
           passed \subseteq passed'
    PROVE  JobsWork'
<1>0. made \in Nat /\ job \in [Procs -> Job]
  BY CliAssumption DEF CliInv, TypeOK
<1> SUFFICES ASSUME NEW q \in Procs
             PROVE  Works(job'[q], made', passed')
  BY DEF JobsWork
<1>1. CASE q = p
  BY <1>0, <1>1
<1>2. CASE q # p
  <2>1. job'[q] = job[q]
    BY <1>0, <1>2
  <2>2. job[q] \in Job
    BY <1>0
  <2>3. Works(job[q], made, passed)
    BY DEF CliInv, JobsWork
  <2>4. Works(job[q], made', passed')
    BY <1>0, <2>2, <2>3, WorksMonotone
  <2> QED
    BY <2>1, <2>4
<1> QED
  BY <1>1, <1>2

\* A file that nobody writes stays sound.
LEMMA FileStaysSound ==
    ASSUME CliInv, file' = file, made' \in Nat, made <= made',
           passed \subseteq passed'
    PROVE  FileIsSound'
<1>0. made \in Nat /\ file \in State
  BY CliAssumption DEF CliInv, TypeOK
<1>1. CASE file = NoState
  BY <1>1 DEF FileIsSound
<1>2. CASE Sound(file, made, passed)
  <2>1. Sound(file, made', passed')
    BY <1>0, <1>2, SoundMonotone
  <2> QED
    BY <2>1 DEF FileIsSound
<1> QED
  BY <1>1, <1>2 DEF CliInv, FileIsSound

\* The ghost of what was shown, and what the provider offers.
LEMMA OtherTypesStep ==
    ASSUME CliInv, [Next]_vars
    PROVE  shown' \subseteq 1..MaxLog /\ offered' \in Offers
<1> USE DEF serviceVars, historyVars
<1>0. /\ shown \subseteq 1..MaxLog /\ offered \in Offers
      /\ log \in 0..MaxLog /\ queued \in 0..MaxLog /\ MaxLog \in Nat
      /\ job \in [Procs -> Job]
  BY CliAssumption DEF CliInv, TypeOK
<1>1. CASE Publish
  BY <1>0, <1>1 DEF Publish
<1>2. CASE PeerPosts \/ SessionExpires \/ UNCHANGED vars
  BY <1>0, <1>2 DEF PeerPosts, SessionExpires, vars
<1>3. ASSUME NEW p \in Procs, SendAccepted(p) \/ FlushAccepted(p)
      PROVE  shown' \subseteq 1..MaxLog /\ offered' \in Offers
  <2>1. shown' = shown \cup {log + 1} /\ offered' = offered
    BY <1>3 DEF SendAccepted, FlushAccepted
  <2>2. log + 1 \in 1..MaxLog
    BY <1>0, <1>3 DEF SendAccepted, FlushAccepted, CliInv, RoomInLog
  <2> QED
    BY <1>0, <2>1, <2>2
<1>4. ASSUME NEW p \in Procs, MessagesEmit(p)
      PROVE  shown' \subseteq 1..MaxLog /\ offered' \in Offers
  <2>1. job[p].from \in 0..MaxLog /\ job[p].upto \in 0..MaxLog
    BY <1>0 DEF Job
  <2>2. (job[p].from + 1)..job[p].upto \subseteq 1..MaxLog
    BY <1>0, <2>1
  <2>3. shown' = shown \cup (job[p].from + 1)..job[p].upto /\ offered' = offered
    BY <1>4 DEF MessagesEmit
  <2> QED
    BY <1>0, <2>2, <2>3
<1>5. ASSUME NEW p \in Procs, WatchEmit(p)
      PROVE  shown' \subseteq 1..MaxLog /\ offered' \in Offers
  <2>1. job[p].upto \in 0..MaxLog
    BY <1>0 DEF Job
  <2> QED
    BY <1>0, <1>5, <2>1 DEF WatchEmit
<1>6. ASSUME NEW p \in Procs,
             \/ OpenBegin(p) \/ OpenWrite(p) \/ RenewBegin(p) \/ RenewAtService(p)
             \/ RenewWrite(p) \/ RenewRefused(p) \/ RevokeBegin(p)
             \/ RevokeAtService(p) \/ RevokeWrite(p) \/ Fail(p)
      PROVE  UNCHANGED <<shown, offered>>
  BY <1>6 DEF OpenBegin, OpenWrite, RenewBegin, RenewAtService, RenewWrite,
     RenewRefused, RevokeBegin, RevokeAtService, RevokeWrite, Fail, ReadState, Begin
<1>7. ASSUME NEW p \in Procs,
             \/ SendBegin(p) \/ SendQueued(p) \/ SendWrite(p) \/ FlushBegin(p)
             \/ MessagesBegin(p) \/ MessagesPage(p) \/ WatchBegin(p)
             \/ WatchWrite(p) \/ AcknowledgeBegin(p) \/ AcknowledgeAtService(p)
             \/ AcknowledgeWrite(p)
      PROVE  UNCHANGED <<shown, offered>>
  BY <1>7 DEF SendBegin, SendQueued, SendWrite, FlushBegin, MessagesBegin,
     MessagesPage, WatchBegin, WatchWrite, AcknowledgeBegin, AcknowledgeAtService,
     AcknowledgeWrite, ReadState, Begin
<1> QED
  BY <1>0, <1>1, <1>2, <1>3, <1>4, <1>5, <1>6, <1>7 DEF Next

\* It is enough to look at the file, the job of the process, and the histories.
LEMMA StepKeeps ==
    ASSUME CliInv, NEW p \in Procs, NEW j \in Job,
           shown' \subseteq 1..MaxLog, offered' \in Offers,
           job' = [job EXCEPT ![p] = j], Works(j, made', passed'),
           made' \in 0..MaxDelegations, made <= made',
           live' \subseteq 1..MaxDelegations,
           log' \in 0..MaxLog, queued' \in 0..MaxLog, log' + queued' <= MaxLog,
           \/ file' = file
           \/ file' \in State /\ Sound(file', made', passed'),
           passed \subseteq passed', passed' \subseteq 1..MaxLog,
           acked' \in 0..MaxLog, 1..acked' \subseteq passed'
    PROVE  CliInv'
<1>1. job' \in [Procs -> Job] /\ file' \in State
  BY DEF CliInv, TypeOK
<1>2. TypeOK'
  BY <1>1, Zenon DEF TypeOK
<1>3. RoomInLog'
  BY DEF RoomInLog
<1>4. made' \in Nat
  BY CliAssumption
<1>5. FileIsSound'
  <2>1. CASE file' = file
    BY <1>4, <2>1, FileStaysSound
  <2>2. CASE Sound(file', made', passed')
    BY <2>2 DEF FileIsSound
  <2> QED
    BY <2>1, <2>2
<1>6. JobsWork'
  BY <1>4, OthersWork
<1> QED
  BY <1>2, <1>3, <1>5, <1>6 DEF CliInv, AcknowledgedWasPassed

\* The state of the service and of the histories that the steps start from.
LEMMA Before ==
    ASSUME CliInv
    PROVE  /\ MaxLog \in Nat /\ MaxDelegations \in Nat
           /\ made \in Nat /\ made <= MaxDelegations /\ made \in 0..MaxDelegations
           /\ live \subseteq 1..MaxDelegations
           /\ log \in Nat /\ queued \in Nat /\ log + queued <= MaxLog
           /\ log \in 0..MaxLog /\ queued \in 0..MaxLog
           /\ passed \subseteq 1..MaxLog
           /\ acked \in 0..MaxLog /\ 1..acked \subseteq passed
           /\ file \in State /\ job \in [Procs -> Job]
BY CliAssumption DEF CliInv, TypeOK, RoomInLog, AcknowledgedWasPassed

\* A step that leaves the service alone.
LEMMA HistoryStepKeeps ==
    ASSUME CliInv, NEW p \in Procs, NEW j \in Job,
           shown' \subseteq 1..MaxLog, offered' \in Offers,
           job' = [job EXCEPT ![p] = j], Works(j, made, passed'),
           UNCHANGED <<log, queued, live, made>>,
           \/ file' = file
           \/ file' \in State /\ Sound(file', made, passed'),
           passed \subseteq passed', passed' \subseteq 1..MaxLog,
           acked' \in 0..MaxLog, 1..acked' \subseteq passed'
    PROVE  CliInv'
<1>1. made' = made /\ live' = live /\ log' = log /\ queued' = queued
  OBVIOUS
<1>2. /\ made \in 0..MaxDelegations /\ made <= made
      /\ live \subseteq 1..MaxDelegations
      /\ log \in 0..MaxLog /\ queued \in 0..MaxLog /\ log + queued <= MaxLog
  BY Before
<1> QED
  BY <1>1, <1>2, StepKeeps, Zenon

\* A step that leaves the service, the file and the histories alone.
LEMMA LocalStepKeeps ==
    ASSUME CliInv, NEW p \in Procs, NEW j \in Job,
           shown' \subseteq 1..MaxLog, offered' \in Offers,
           job' = [job EXCEPT ![p] = j], Works(j, made, passed),
           UNCHANGED <<file, log, queued, live, made, passed, acked>>
    PROVE  CliInv'
<1>1. /\ passed \subseteq 1..MaxLog
      /\ acked \in 0..MaxLog /\ 1..acked \subseteq passed
  BY Before
<1>2. passed' = passed /\ file' = file /\ acked' = acked
  OBVIOUS
<1> QED
  BY <1>1, <1>2, HistoryStepKeeps

\* The job that a process has when it is done.
LEMMA IdleWorks ==
    /\ NoState \in State
    /\ Idle \in Job
    /\ \A m, done : Works(Idle, m, done)
<1>1. NoState \in State
  <2>1. <<>> \in Seq(1..MaxDelegations)
    BY EmptySeq
  <2> QED
    BY <2>1, CliAssumption DEF NoState, State
<1>2. Idle \in Job
  BY <1>1, CliAssumption DEF Idle, Job
<1> QED
  BY <1>1, <1>2 DEF Idle, Works

\* A job that has a copy of the state has a sound one.
LEMMA JobProperties ==
    ASSUME CliInv, NEW p \in Procs
    PROVE  /\ job[p] \in Job /\ job[p].mem \in State
           /\ job[p].from \in 0..MaxLog /\ job[p].upto \in 0..MaxLog
           /\ Works(job[p], made, passed)
<1>1. job[p] \in Job
  BY Before
<1> QED
  BY <1>1 DEF CliInv, JobsWork, Job

\* What a command has read is sound.
LEMMA BeginProperties ==
    ASSUME CliInv, NEW p \in Procs, NEW command,
           NEW pc \in {"renew", "revoke", "send", "flush", "messages", "watch",
                       "acknowledge"},
           NEW from \in 0..MaxLog, NEW upto \in 0..MaxLog,
           Begin(p, command, pc, from, upto)
    PROVE  /\ job' = [job EXCEPT ![p] = Started(pc, from, upto)]
           /\ Started(pc, from, upto) \in Job
           /\ Started(pc, from, upto).pc = pc /\ Started(pc, from, upto).mem = file
           /\ Started(pc, from, upto).from = from
           /\ Started(pc, from, upto).upto = upto
           /\ Sound(file, made, passed)
           /\ UNCHANGED <<file, log, queued, live, made, acked>>
<1>1. /\ job' = [job EXCEPT ![p] = Started(pc, from, upto)]
      /\ UNCHANGED <<file, log, queued, live, made, acked>>
      /\ file # NoState
  BY DEF Begin, serviceVars
<1>2. /\ Started(pc, from, upto) \in Job
      /\ Started(pc, from, upto).pc = pc /\ Started(pc, from, upto).mem = file
      /\ Started(pc, from, upto).from = from /\ Started(pc, from, upto).upto = upto
  BY Before DEF Job, Started
<1> QED
  BY <1>1, <1>2 DEF CliInv, FileIsSound

\* The commands that read the file and start at no sequence of their own.
LEMMA ReadStateKeeps ==
    ASSUME CliInv, NEW p \in Procs, NEW command,
           NEW pc \in {"renew", "revoke", "send", "flush"},
           shown' \subseteq 1..MaxLog, offered' \in Offers,
           ReadState(p, command, pc, 0, 0)
    PROVE  CliInv'
<1> DEFINE j == Started(pc, 0, 0)
<1>1. Begin(p, command, pc, 0, 0) /\ passed' = passed /\ 0 \in 0..MaxLog
  BY Before DEF ReadState
<1>2. /\ job' = [job EXCEPT ![p] = j] /\ j \in Job /\ Sound(file, made, passed)
      /\ UNCHANGED <<file, log, queued, live, made, acked>>
  BY <1>1, BeginProperties
<1>3. j.pc = pc /\ j.mem = file
  BY DEF Started
<1> HIDE DEF j
<1>4. Works(j, made, passed)
  BY <1>2, <1>3 DEF Works
<1> QED
  BY <1>1, <1>2, <1>4, LocalStepKeeps

\* Where a read begins has been passed.
LEMMA ReadBehindKeeps ==
    ASSUME CliInv, NEW p \in Procs, NEW after \in Afters, StartsBehind(after),
           NEW command, NEW pc \in {"messages", "watch"},
           NEW from \in {0, after}, NEW upto \in {0, after},
           shown' \subseteq 1..MaxLog, offered' \in Offers,
           Begin(p, command, pc, from, upto)
    PROVE  CliInv'
<1> DEFINE j == Started(pc, from, upto)
<1>1. after \in 0..MaxLog /\ 0 \in 0..MaxLog
  BY CliAssumption, Before DEF Afters, State
<1>2. from \in 0..MaxLog /\ upto \in 0..MaxLog
  BY <1>1
<1>3. /\ job' = [job EXCEPT ![p] = j] /\ j \in Job /\ Sound(file, made, passed)
      /\ UNCHANGED <<file, log, queued, live, made, acked>>
  BY <1>2, BeginProperties
<1>4. j.pc = pc /\ j.mem = file /\ j.from = from /\ j.upto = upto
  BY DEF Started
<1> HIDE DEF j
<1>5. passed \subseteq passed' /\ 1..after \subseteq passed' /\ passed' \subseteq 1..MaxLog
  <2>1. CASE after \in ExplicitAfters
    <3>1. passed' = passed \cup 1..after
      BY <2>1 DEF StartsBehind
    <3>2. 1..after \subseteq 1..MaxLog
      BY <1>1, CliAssumption
    <3> QED
      BY <3>1, <3>2, Before
  <2>2. CASE after \notin ExplicitAfters
    <3>1. passed' = passed /\ after = file.observed
      BY <2>2 DEF StartsBehind, Afters
    <3> QED
      BY <1>3, <3>1, Before DEF Sound
  <2> QED
    BY <2>1, <2>2
<1>6. Sound(file, made, passed')
  <2>1. file \in State /\ made \in Nat /\ made <= made
    BY Before
  <2> QED
    BY <1>3, <1>5, <2>1, SoundMonotone, Zenon
<1>7. 1..from \subseteq passed' /\ 1..upto \subseteq passed'
  BY <1>5
<1>8. Works(j, made, passed')
  BY <1>4, <1>6, <1>7 DEF Works
<1>9. acked' \in 0..MaxLog /\ 1..acked' \subseteq passed'
  BY <1>3, <1>5, Before
<1> QED
  BY <1>3, <1>5, <1>8, <1>9, HistoryStepKeeps

-----------------------------------------------------------------------------
(* What the commands write. *)

\* A cursor moves up to a sequence before which everything was passed.
LEMMA ObservedIsSound ==
    ASSUME NEW s \in State, NEW m, NEW done, Sound(s, m, done),
           NEW n \in 0..MaxLog, 1..n \subseteq done
    PROVE  /\ Observed(s, n) \in State
           /\ Sound(Observed(s, n), m, done)
           /\ Observed(s, n).keyIds = s.keyIds
           /\ Observed(s, n).observed >= s.observed
           /\ Observed(s, n).acknowledged = s.acknowledged
<1>0. /\ MaxLog \in Nat /\ s.observed \in Nat /\ s.acknowledged \in Nat
      /\ s.acknowledged <= s.observed /\ s.observed \in 0..MaxLog
  BY CliAssumption DEF State, Sound
<1> DEFINE to == Larger(s.observed, n)
<1>1. to \in {s.observed, n} /\ to \in 0..MaxLog /\ s.observed <= to
  BY <1>0 DEF Larger
<1> HIDE DEF to
<1>2. Observed(s, n) = [s EXCEPT !.observed = to]
  BY DEF Observed, to
<1>3. /\ Observed(s, n) \in State
      /\ Observed(s, n).keyIds = s.keyIds
      /\ Observed(s, n).delegation = s.delegation
      /\ Observed(s, n).mode = s.mode /\ Observed(s, n).profile = s.profile
      /\ Observed(s, n).observed = to
      /\ Observed(s, n).acknowledged = s.acknowledged
  BY <1>1, <1>2 DEF State
<1>4. 1..to \subseteq done /\ s.acknowledged <= to
  BY <1>0, <1>1 DEF Sound
<1> QED
  BY <1>0, <1>1, <1>3, <1>4 DEF Sound

\* A renewal adds a delegation that is newer than what the copy has.
LEMMA RenewedIsSound ==
    ASSUME NEW s \in State, NEW d \in 1..MaxDelegations, NEW done,
           NEW profile \in SUBSET Modes, s.mode \in profile,
           Sound(s, d - 1, done)
    PROVE  /\ Renewed(s, d, profile) \in State
           /\ Sound(Renewed(s, d, profile), d, done)
           /\ Renewed(s, d, profile).observed = s.observed
           /\ Renewed(s, d, profile).acknowledged = s.acknowledged
           /\ \/ ToSet(s.keyIds) \subseteq ToSet(Renewed(s, d, profile).keyIds)
              \/ Len(Renewed(s, d, profile).keyIds) = MaxKeyIds
<1> DEFINE ids == s.keyIds
           kept == RetainKeyId(ids, d)
           r == Renewed(s, d, profile)
<1>0. MaxDelegations \in Nat /\ d \in Nat /\ d \in 0..MaxDelegations
  BY CliAssumption
<1>1. ids \in Seq(1..MaxDelegations)
  BY DEF State
<1>2. /\ Len(ids) \in 1..MaxKeyIds
      /\ \A i, j \in DOMAIN ids : ids[i] = ids[j] => i = j
      /\ \A i \in DOMAIN ids : ids[i] <= d - 1
      /\ 1..s.observed \subseteq done /\ s.acknowledged <= s.observed
  BY DEF Sound
<1>3. \A i \in DOMAIN ids : ids[i] < d
  <2> HIDE DEF ids
  <2>1. \A i \in DOMAIN ids : ids[i] \in Nat
    BY <1>0, <1>1
  <2> QED
    BY <1>0, <1>2, <2>1
<1> HIDE DEF ids
<1>4. /\ kept \in Seq(1..MaxDelegations) /\ Len(kept) \in 1..MaxKeyIds
      /\ \A i, j \in DOMAIN kept : kept[i] = kept[j] => i = j
      /\ \A i \in DOMAIN kept : kept[i] <= d
      /\ \E i \in DOMAIN kept : kept[i] = d
      /\ \/ \A i \in DOMAIN ids : \E k \in DOMAIN kept : kept[k] = ids[i]
         \/ Len(kept) = MaxKeyIds
  BY <1>0, <1>1, <1>2, <1>3, RetainProperties
<1>5. r = [s EXCEPT !.delegation = d, !.token = d, !.keyIds = kept,
                    !.profile = profile]
  BY DEF Renewed, ids
<1> HIDE DEF kept, r
<1>6. /\ r \in State /\ r.keyIds = kept /\ r.delegation = d
      /\ r.observed = s.observed /\ r.acknowledged = s.acknowledged
      /\ r.mode = s.mode /\ r.profile = profile
  BY <1>0, <1>4, <1>5 DEF State
<1>7. Sound(r, d, done)
  BY <1>2, <1>4, <1>6 DEF Sound
<1>8. \/ ToSet(ids) \subseteq ToSet(kept)
      \/ Len(kept) = MaxKeyIds
  BY <1>4 DEF ToSet
<1> QED
  BY <1>6, <1>7, <1>8 DEF r, ids

\* What renew writes, when write_state accepts it.
LEMMA RenewalIsSound ==
    ASSUME CliInv, NEW p \in Procs, job[p].pc = "renewed",
           job[p].mem.mode \in job[p].profile
    PROVE  /\ Renewal(job[p]) \in State
           /\ Sound(Renewal(job[p]), made, passed)
           /\ Renewal(job[p]).observed = job[p].mem.observed
           /\ Renewal(job[p]).acknowledged = job[p].mem.acknowledged
           /\ \/ ToSet(job[p].mem.keyIds) \subseteq ToSet(Renewal(job[p]).keyIds)
              \/ Len(Renewal(job[p]).keyIds) = MaxKeyIds
<1> DEFINE s == job[p].mem
           d == job[p].delegation
           r == Renewed(s, d, job[p].profile)
<1>1. /\ s \in State /\ job[p].profile \in SUBSET Modes
      /\ d \in 1..made /\ Sound(s, d - 1, passed)
  BY JobProperties DEF Works, Job
<1>2. /\ made \in Nat /\ d \in 1..MaxDelegations /\ d \in Nat /\ d <= made
  BY <1>1, Before
<1> HIDE DEF s, d
<1>3. /\ r \in State /\ Sound(r, d, passed)
      /\ r.observed = s.observed /\ r.acknowledged = s.acknowledged
      /\ \/ ToSet(s.keyIds) \subseteq ToSet(r.keyIds)
         \/ Len(r.keyIds) = MaxKeyIds
  BY <1>1, <1>2, RenewedIsSound DEF s
<1> HIDE DEF r
<1>4. Sound(r, made, passed)
  BY <1>2, <1>3, SoundMonotone
<1> QED
  BY <1>3, <1>4 DEF r, s, d, Renewal

\* A renewal that is valid has a privacy mode that its profile advertises.
LEMMA ValidRenewal ==
    ASSUME CliInv, NEW p \in Procs, ValidState(Renewal(job[p]))
    PROVE  job[p].mem.mode \in job[p].profile
<1> DEFINE s == job[p].mem
           kept == RetainKeyId(s.keyIds, job[p].delegation)
           r == [s EXCEPT !.delegation = job[p].delegation,
                          !.token = job[p].delegation, !.keyIds = kept,
                          !.profile = job[p].profile]
<1>1. s \in State
  BY JobProperties
<1>2. r.mode \in r.profile
  BY DEF Renewal, Renewed, ValidState
<1> HIDE DEF s, kept
<1>3. r.mode = s.mode /\ r.profile = job[p].profile
  BY <1>1 DEF State
<1> QED
  BY <1>2, <1>3 DEF s

\* Without its token a copy is as sound as before.
LEMMA RevokedIsSound ==
    ASSUME NEW s \in State, NEW m, NEW done, Sound(s, m, done)
    PROVE  /\ [s EXCEPT !.token = 0] \in State
           /\ Sound([s EXCEPT !.token = 0], m, done)
<1> DEFINE r == [s EXCEPT !.token = 0]
<1>0. 0 \in 0..MaxDelegations
  BY CliAssumption
<1>1. /\ r \in State /\ r.keyIds = s.keyIds /\ r.delegation = s.delegation
      /\ r.mode = s.mode /\ r.profile = s.profile
      /\ r.observed = s.observed /\ r.acknowledged = s.acknowledged
  BY <1>0 DEF State
<1> HIDE DEF r
<1>2. Sound(r, m, done)
  BY <1>1 DEF Sound
<1> QED
  BY <1>1, <1>2 DEF r

\* An acknowledgement between the two cursors.
LEMMA AcknowledgedIsSound ==
    ASSUME NEW s \in State, NEW m, NEW done, Sound(s, m, done),
           NEW n \in 0..MaxLog, n <= s.observed
    PROVE  /\ [s EXCEPT !.acknowledged = n] \in State
           /\ Sound([s EXCEPT !.acknowledged = n], m, done)
<1> DEFINE r == [s EXCEPT !.acknowledged = n]
<1>1. /\ r \in State /\ r.keyIds = s.keyIds /\ r.delegation = s.delegation
      /\ r.mode = s.mode /\ r.profile = s.profile
      /\ r.observed = s.observed /\ r.acknowledged = n
  BY CliAssumption DEF State
<1> HIDE DEF r
<1>2. Sound(r, m, done)
  BY <1>1 DEF Sound
<1> QED
  BY <1>1, <1>2 DEF r

-----------------------------------------------------------------------------
(* The steps. *)

\* No command and no step of the service breaks the invariant.
LEMMA CliInvStep ==
    ASSUME CliInv, [Next]_vars
    PROVE  CliInv'
<1> USE DEF serviceVars, historyVars
<1>0. shown' \subseteq 1..MaxLog /\ offered' \in Offers
  BY OtherTypesStep
<1>1. CASE PeerPosts
  <2>1. /\ log' = log + 1 /\ log + queued < MaxLog
        /\ UNCHANGED <<file, job, queued, live, made, passed, acked>>
    BY <1>1 DEF PeerPosts
  <2>2. log + 1 \in 0..MaxLog /\ log + 1 + queued <= MaxLog
    BY <2>1, Before
  <2> QED
    BY <1>0, <2>1, <2>2 DEF CliInv, TypeOK, RoomInLog, FileIsSound, JobsWork,
       AcknowledgedWasPassed
<1>2. CASE SessionExpires
  <2>1. /\ live' \subseteq live
        /\ UNCHANGED <<file, job, log, queued, made, passed, acked>>
    BY <1>2 DEF SessionExpires
  <2>2. live' \subseteq 1..MaxDelegations
    BY <2>1, Before
  <2> QED
    BY <1>0, <2>1, <2>2 DEF CliInv, TypeOK, RoomInLog, FileIsSound, JobsWork,
       AcknowledgedWasPassed
<1>3. CASE UNCHANGED vars \/ Publish
  BY <1>0, <1>3 DEF Publish, vars, CliInv, TypeOK, RoomInLog, FileIsSound, JobsWork,
     AcknowledgedWasPassed
<1>4. ASSUME NEW p \in Procs, Fail(p) \/ RenewRefused(p)
      PROVE  CliInv'
  BY <1>4, IdleWorks, <1>0, LocalStepKeeps DEF Fail, RenewRefused, Finish
<1>5. ASSUME NEW p \in Procs, OpenBegin(p)
      PROVE  CliInv'
  <2>1. PICK force \in BOOLEAN :
          job' = [job EXCEPT ![p] =
                    [Idle EXCEPT !.pc = IF force THEN "replace" ELSE "open"]]
    BY <1>5 DEF OpenBegin
  <2> DEFINE j == [Idle EXCEPT !.pc = IF force THEN "replace" ELSE "open"]
  <2>2. j \in Job /\ j.pc \in {"open", "replace"} /\ j.mem = NoState
    BY IdleWorks DEF Job, Idle
  <2> HIDE DEF j
  <2>3. Works(j, made, passed)
    BY <2>2 DEF Works
  <2>4. UNCHANGED <<file, log, queued, live, made, passed, acked>>
    BY <1>5 DEF OpenBegin
  <2> QED
    BY <2>1, <2>2, <2>3, <2>4, <1>0, LocalStepKeeps DEF j
<1>6. ASSUME NEW p \in Procs, RenewBegin(p) \/ RevokeBegin(p) \/ SendBegin(p)
                                \/ FlushBegin(p)
      PROVE  CliInv'
  BY <1>6, <1>0, ReadStateKeeps DEF RenewBegin, RevokeBegin, SendBegin, FlushBegin
<1>7. ASSUME NEW p \in Procs, MessagesBegin(p)
      PROVE  CliInv'
  BY <1>7, <1>0, ReadBehindKeeps DEF MessagesBegin
<1>8. ASSUME NEW p \in Procs, WatchBegin(p)
      PROVE  CliInv'
  BY <1>8, <1>0, ReadBehindKeeps DEF WatchBegin
<1>9. ASSUME NEW p \in Procs, AcknowledgeBegin(p)
      PROVE  CliInv'
  <2>1. PICK through \in 0..MaxLog :
          /\ MayAcknowledge(file, through)
          /\ ReadState(p, "acknowledge", "acknowledge", 0, through)
    BY <1>9 DEF AcknowledgeBegin
  <2> DEFINE j == Started("acknowledge", 0, through)
  <2>2. Begin(p, "acknowledge", "acknowledge", 0, through) /\ passed' = passed
        /\ 0 \in 0..MaxLog
    BY <2>1, Before DEF ReadState
  <2>3. /\ job' = [job EXCEPT ![p] = j] /\ j \in Job /\ Sound(file, made, passed)
        /\ UNCHANGED <<file, log, queued, live, made, acked>>
    BY <2>2, BeginProperties
  <2>4. j.pc = "acknowledge" /\ j.mem = file /\ j.upto = through
    BY DEF Started
  <2> HIDE DEF j
  <2>5. Works(j, made, passed)
    BY <2>1, <2>3, <2>4 DEF Works, MayAcknowledge
  <2> QED
    BY <2>2, <2>3, <2>5, <1>0, LocalStepKeeps
<1>10. ASSUME NEW p \in Procs, OpenWrite(p)
       PROVE  CliInv'
  <2>0. PICK mode \in offered :
          file' = [NoState EXCEPT !.key = made', !.delegation = made',
                                  !.token = made', !.keyIds = <<made'>>,
                                  !.mode = mode, !.profile = offered]
    BY <1>10 DEF OpenWrite, WriteState
  <2> DEFINE d == made + 1
             s == [NoState EXCEPT !.key = d, !.delegation = d, !.token = d,
                                  !.keyIds = <<d>>, !.mode = mode,
                                  !.profile = offered]
  <2>1. /\ made < MaxDelegations /\ made' = d /\ live' = live \cup {d} /\ file' = s
        /\ job' = [job EXCEPT ![p] = Idle]
        /\ UNCHANGED <<log, queued, passed, acked>>
    BY <1>10, <2>0 DEF OpenWrite, Finish
  <2>2. d \in 1..MaxDelegations /\ d \in 0..MaxDelegations /\ made <= d /\ d <= d
    BY <2>1, Before
  <2> HIDE DEF d
  <2>3. /\ <<d>> \in Seq(1..MaxDelegations) /\ Len(<<d>>) = 1
        /\ DOMAIN <<d>> = {1} /\ <<d>>[1] = d
    BY <2>2
  <2>4. /\ s \in State /\ s.keyIds = <<d>> /\ s.delegation = d
        /\ s.observed = 0 /\ s.acknowledged = 0
        /\ s.mode = mode /\ s.profile = offered
    <3> DEFINE ids == <<d>>
               none == NoState
    <3>1. none \in State /\ none.observed = 0 /\ none.acknowledged = 0
      BY IdleWorks DEF NoState
    <3>2. s = [none EXCEPT !.key = d, !.delegation = d, !.token = d, !.keyIds = ids,
                           !.mode = mode, !.profile = offered]
      OBVIOUS
    <3>5. offered \in SUBSET Modes /\ mode \in Modes
      BY <2>0, CliAssumption DEF CliInv, TypeOK
    <3>3. ids \in Seq(1..MaxDelegations)
      BY <2>3
    <3> HIDE DEF ids, none, s
    <3>4. /\ s \in State /\ s.keyIds = ids /\ s.delegation = d
          /\ s.observed = 0 /\ s.acknowledged = 0
          /\ s.mode = mode /\ s.profile = offered
      BY <2>2, <3>1, <3>2, <3>3, <3>5 DEF State
    <3> QED
      BY <3>4 DEF ids
  <2> HIDE DEF s
  <2>5. Sound(s, d, passed)
    <3>1. 1 \in 1..MaxKeyIds /\ 1..0 = {}
      BY CliAssumption
    <3> QED
      BY <2>0, <2>2, <2>3, <2>4, <3>1 DEF Sound
  <2>6. live \cup {d} \subseteq 1..MaxDelegations
    BY <2>2, Before
  <2>7. /\ Idle \in Job /\ Works(Idle, d, passed)
    BY IdleWorks
  <2>8. /\ log \in 0..MaxLog /\ queued \in 0..MaxLog /\ log + queued <= MaxLog
        /\ passed \subseteq 1..MaxLog /\ acked \in 0..MaxLog /\ 1..acked \subseteq passed
    BY Before
  <2>9. /\ passed' = passed /\ acked' = acked /\ log' = log /\ queued' = queued
    BY <2>1
  <2> QED
    BY <2>1, <2>2, <2>4, <2>5, <2>6, <2>7, <2>8, <2>9, <1>0, StepKeeps
<1>11. ASSUME NEW p \in Procs, RenewWrite(p)
       PROVE  CliInv'
  <2>1. /\ job[p].pc = "renewed" /\ file' = Renewal(job[p])
        /\ ValidState(Renewal(job[p]))
        /\ job' = [job EXCEPT ![p] = Idle]
        /\ UNCHANGED <<log, queued, live, made>> /\ passed' = passed /\ acked' = acked
    BY <1>11 DEF RenewWrite, WriteState, Finish
  <2>2. file' \in State /\ Sound(file', made, passed)
    BY <2>1, ValidRenewal, RenewalIsSound
  <2>3. /\ passed \subseteq 1..MaxLog /\ acked \in 0..MaxLog /\ 1..acked \subseteq passed
    BY Before
  <2> QED
    BY <1>0, <2>1, <2>2, <2>3, IdleWorks, HistoryStepKeeps
<1>24. ASSUME NEW p \in Procs, RenewAtService(p)
       PROVE  CliInv'
  <2> DEFINE d == made + 1
             j == [job[p] EXCEPT !.pc = "renewed", !.delegation = d,
                                 !.profile = offered]
  <2>1. /\ job[p].pc = "renew" /\ made < MaxDelegations
        /\ made' = d /\ live' = live \cup {d}
        /\ job' = [job EXCEPT ![p] = j]
        /\ UNCHANGED <<file, log, queued, passed, acked>>
    BY <1>24 DEF RenewAtService
  <2>2. /\ d \in 1..MaxDelegations /\ d \in 0..MaxDelegations /\ made <= d
        /\ d \in 1..d /\ d - 1 = made /\ made \in Nat /\ d \in Nat
    BY <2>1, Before
  <2> HIDE DEF d
  <2>3. job[p].mem \in State /\ Sound(job[p].mem, made, passed) /\ job[p] \in Job
    BY <2>1, JobProperties DEF Works
  <2>4. offered \in SUBSET Modes
    BY CliAssumption DEF CliInv, TypeOK
  <2>5. /\ j \in Job /\ j.pc = "renewed" /\ j.mem = job[p].mem /\ j.delegation = d
    BY <2>2, <2>3, <2>4 DEF Job
  <2>6. Sound(job[p].mem, d, passed)
    BY <2>2, <2>3, SoundMonotone
  <2> HIDE DEF j
  <2>7. Works(j, d, passed)
    BY <2>2, <2>3, <2>5, <2>6 DEF Works
  <2>8. live \cup {d} \subseteq 1..MaxDelegations
    BY <2>2, Before
  <2>9. /\ log \in 0..MaxLog /\ queued \in 0..MaxLog /\ log + queued <= MaxLog
        /\ passed \subseteq 1..MaxLog /\ acked \in 0..MaxLog /\ 1..acked \subseteq passed
    BY Before
  <2>10. /\ passed' = passed /\ acked' = acked /\ log' = log /\ queued' = queued
         /\ file' = file
    BY <2>1
  <2> QED
    BY <1>0, <2>1, <2>2, <2>5, <2>7, <2>8, <2>9, <2>10, StepKeeps
<1>12. ASSUME NEW p \in Procs, RevokeAtService(p)
       PROVE  CliInv'
  <2> DEFINE j == [job[p] EXCEPT !.pc = "revoked"]
  <2>1. /\ job[p].pc = "revoke" /\ live' \subseteq live
        /\ job' = [job EXCEPT ![p] = j]
        /\ UNCHANGED <<file, log, queued, made, passed, acked>>
    BY <1>12 DEF RevokeAtService
  <2>2. Sound(job[p].mem, made, passed) /\ job[p] \in Job
    BY <2>1, JobProperties DEF Works
  <2>3. j \in Job /\ j.pc = "revoked" /\ j.mem = job[p].mem
    BY <2>2 DEF Job
  <2> HIDE DEF j
  <2>4. Works(j, made, passed)
    BY <2>2, <2>3 DEF Works
  <2>5. /\ made \in 0..MaxDelegations /\ made <= made
        /\ log \in 0..MaxLog /\ queued \in 0..MaxLog /\ log + queued <= MaxLog
        /\ passed \subseteq 1..MaxLog /\ acked \in 0..MaxLog /\ 1..acked \subseteq passed
        /\ live' \subseteq 1..MaxDelegations
    BY <2>1, Before
  <2>6. /\ passed' = passed /\ acked' = acked /\ log' = log /\ queued' = queued
        /\ made' = made /\ file' = file
    BY <2>1
  <2> QED
    BY <2>1, <2>3, <2>4, <2>5, <2>6, <1>0, StepKeeps
<1>13. ASSUME NEW p \in Procs, RevokeWrite(p)
       PROVE  CliInv'
  <2> DEFINE s == [job[p].mem EXCEPT !.token = 0]
  <2>1. /\ job[p].pc = "revoked" /\ file' = s /\ job' = [job EXCEPT ![p] = Idle]
        /\ UNCHANGED <<log, queued, live, made>> /\ passed' = passed /\ acked' = acked
    BY <1>13 DEF RevokeWrite, WriteState, Finish
  <2>2. s \in State /\ Sound(s, made, passed)
    BY <2>1, JobProperties, RevokedIsSound DEF Works
  <2> HIDE DEF s
  <2>3. /\ passed \subseteq 1..MaxLog /\ acked \in 0..MaxLog /\ 1..acked \subseteq passed
    BY Before
  <2> QED
    BY <2>1, <2>2, <2>3, IdleWorks, <1>0, HistoryStepKeeps
<1>14. ASSUME NEW p \in Procs, SendQueued(p)
       PROVE  CliInv'
  <2>1. /\ log + queued < MaxLog /\ queued' = queued + 1
        /\ job' = [job EXCEPT ![p] = Idle]
        /\ UNCHANGED <<file, log, live, made, passed, acked>>
    BY <1>14 DEF SendQueued, Finish
  <2>2. queued + 1 \in 0..MaxLog /\ log + (queued + 1) <= MaxLog
    BY <2>1, Before
  <2>3. /\ made \in 0..MaxDelegations /\ made <= made /\ log \in 0..MaxLog
        /\ live \subseteq 1..MaxDelegations
        /\ passed \subseteq 1..MaxLog /\ acked \in 0..MaxLog /\ 1..acked \subseteq passed
    BY Before
  <2>4. /\ passed' = passed /\ acked' = acked /\ log' = log /\ live' = live
        /\ made' = made /\ file' = file
    BY <2>1
  <2> QED
    BY <2>1, <2>2, <2>3, <2>4, IdleWorks, <1>0, StepKeeps
<1>15. ASSUME NEW p \in Procs, SendAccepted(p)
       PROVE  CliInv'
  <2> DEFINE n == log + 1
             j == [job[p] EXCEPT !.pc = "sent", !.upto = n]
  <2>1. /\ job[p].pc = "send" /\ log + queued < MaxLog /\ log' = n
        /\ passed' = passed \cup {n} /\ job' = [job EXCEPT ![p] = j]
        /\ UNCHANGED <<file, queued, live, made, acked>>
    BY <1>15 DEF SendAccepted
  <2>2. /\ n \in 0..MaxLog /\ n \in 1..MaxLog /\ n + queued <= MaxLog
    BY <2>1, Before
  <2> HIDE DEF n
  <2>3. Sound(job[p].mem, made, passed) /\ job[p] \in Job
    BY <2>1, JobProperties DEF Works
  <2>4. j \in Job /\ j.pc = "sent" /\ j.mem = job[p].mem
    BY <2>2, <2>3 DEF Job
  <2> HIDE DEF j
  <2>5. Works(j, made, passed)
    BY <2>3, <2>4 DEF Works
  <2>6. Works(j, made, passed \cup {n})
    <3>1. made \in Nat /\ made <= made
      BY Before
    <3> QED
      BY <2>4, <2>5, <3>1, WorksMonotone
  <2>7. /\ made \in 0..MaxDelegations /\ made <= made /\ queued \in 0..MaxLog
        /\ live \subseteq 1..MaxDelegations
        /\ passed \cup {n} \subseteq 1..MaxLog /\ passed \subseteq passed \cup {n}
        /\ acked \in 0..MaxLog /\ 1..acked \subseteq passed \cup {n}
    BY <2>2, Before
  <2>8. /\ acked' = acked /\ live' = live /\ queued' = queued
        /\ made' = made /\ file' = file
    BY <2>1
  <2> QED
    BY <2>1, <2>2, <2>4, <2>6, <2>7, <2>8, <1>0, StepKeeps
<1>16. ASSUME NEW p \in Procs, SendWrite(p)
       PROVE  CliInv'
  <2> DEFINE n == job[p].upto
             s == Observed(job[p].mem, n)
             more == passed \cup 1..n
  <2>1. /\ job[p].pc = "sent" /\ file' = s /\ passed' = more
        /\ job' = [job EXCEPT ![p] = Idle]
        /\ UNCHANGED <<log, queued, live, made>> /\ acked' = acked
    BY <1>16 DEF SendWrite, WriteState, Finish
  <2>2. /\ n \in 0..MaxLog /\ job[p].mem \in State /\ Sound(job[p].mem, made, passed)
    BY <2>1, JobProperties DEF Works
  <2>3. /\ passed \subseteq more /\ more \subseteq 1..MaxLog /\ 1..n \subseteq more
        /\ acked \in 0..MaxLog /\ 1..acked \subseteq more
    BY <2>2, Before
  <2>4. Sound(job[p].mem, made, more)
    <3>1. made \in Nat /\ made <= made
      BY Before
    <3> QED
      BY <2>2, <2>3, <3>1, SoundMonotone
  <2>5. s \in State /\ Sound(s, made, more)
    BY <2>2, <2>3, <2>4, ObservedIsSound
  <2> HIDE DEF s, more
  <2> QED
    BY <2>1, <2>3, <2>5, IdleWorks, <1>0, HistoryStepKeeps
<1>17. ASSUME NEW p \in Procs, FlushAccepted(p)
       PROVE  CliInv'
  <2> DEFINE n == log + 1
  <2>1. /\ queued > 0 /\ queued' = queued - 1 /\ log' = n
        /\ passed' = passed \cup {n}
        /\ UNCHANGED <<file, job, live, made, acked>>
    BY <1>17 DEF FlushAccepted
  <2>2. /\ n \in 0..MaxLog /\ n \in 1..MaxLog /\ n + (queued - 1) <= MaxLog
        /\ queued - 1 \in 0..MaxLog
    BY <2>1, Before
  <2> HIDE DEF n
  <2>3. job' = [job EXCEPT ![p] = job[p]] /\ job[p] \in Job
    BY <2>1, Before
  <2>4. Works(job[p], made, passed)
    BY JobProperties
  <2>5. Works(job[p], made, passed \cup {n})
    <3>1. made \in Nat /\ made <= made
      BY Before
    <3> QED
      BY <2>3, <2>4, <3>1, WorksMonotone
  <2>6. /\ made \in 0..MaxDelegations /\ made <= made
        /\ live \subseteq 1..MaxDelegations
        /\ passed \cup {n} \subseteq 1..MaxLog /\ passed \subseteq passed \cup {n}
        /\ acked \in 0..MaxLog /\ 1..acked \subseteq passed \cup {n}
    BY <2>2, Before
  <2>7. acked' = acked /\ live' = live /\ made' = made /\ file' = file
    BY <2>1
  <2> QED
    BY <2>1, <2>2, <2>3, <2>5, <2>6, <2>7, <1>0, StepKeeps
<1>18. ASSUME NEW p \in Procs, MessagesEmit(p)
       PROVE  CliInv'
  <2> DEFINE more == passed \cup (job[p].from + 1)..job[p].upto
  <2>1. /\ passed' = more /\ job' = [job EXCEPT ![p] = Idle]
        /\ UNCHANGED <<log, queued, live, made>> /\ acked' = acked /\ file' = file
    BY <1>18 DEF MessagesEmit, Finish
  <2>2. /\ passed \subseteq more /\ more \subseteq 1..MaxLog
        /\ acked \in 0..MaxLog /\ 1..acked \subseteq more
    BY JobProperties, Before
  <2> HIDE DEF more
  <2> QED
    BY <2>1, <2>2, IdleWorks, <1>0, HistoryStepKeeps
<1>19. ASSUME NEW p \in Procs, WatchEmit(p)
       PROVE  CliInv'
  <2> DEFINE n == job[p].upto + 1
             j == [job[p] EXCEPT !.pc = "emitted", !.upto = n]
             more == passed \cup {n}
  <2>1. /\ job[p].pc = "watch" /\ job[p].upto < log /\ passed' = more
        /\ job' = [job EXCEPT ![p] = j]
        /\ UNCHANGED <<log, queued, live, made>> /\ acked' = acked /\ file' = file
    BY <1>19 DEF WatchEmit
  <2>2. /\ Sound(job[p].mem, made, passed) /\ job[p] \in Job /\ job[p].mem \in State
        /\ 1..job[p].upto \subseteq passed
    BY <2>1, JobProperties DEF Works
  <2>3. /\ n \in 0..MaxLog /\ n \in 1..MaxLog /\ 1..n = 1..job[p].upto \cup {n}
    BY <2>1, JobProperties, Before
  <2> HIDE DEF n
  <2>4. j \in Job /\ j.pc = "emitted" /\ j.mem = job[p].mem /\ j.upto = n
    BY <2>2, <2>3 DEF Job
  <2>5. 1..n \subseteq more /\ passed \subseteq more
    BY <2>2, <2>3
  <2>6. Sound(job[p].mem, made, more)
    <3>1. made \in Nat /\ made <= made
      BY Before
    <3> QED
      BY <2>2, <2>5, <3>1, SoundMonotone
  <2>7. more \subseteq 1..MaxLog /\ acked \in 0..MaxLog /\ 1..acked \subseteq more
    BY <2>3, Before
  <2> HIDE DEF j, more
  <2>8. Works(j, made, more)
    BY <2>4, <2>5, <2>6 DEF Works
  <2> QED
    BY <2>1, <2>4, <2>5, <2>7, <2>8, <1>0, HistoryStepKeeps
<1>20. ASSUME NEW p \in Procs, MessagesPage(p)
       PROVE  CliInv'
  <2> DEFINE a == job[p].from
             n == PageUpto(a)
             s == Observed(job[p].mem, n)
             j == [job[p] EXCEPT !.pc = "page", !.upto = n, !.mem = NoState]
  <2>1. /\ job[p].pc = "messages" /\ job' = [job EXCEPT ![p] = j]
        /\ UNCHANGED <<log, queued, live, made>> /\ acked' = acked
        /\ \/ file' = file /\ passed' = passed
           \/ file' = s /\ passed' = passed \cup (a + 1)..n
    BY <1>20 DEF MessagesPage, WriteState
  <2>2. /\ Sound(job[p].mem, made, passed) /\ job[p] \in Job /\ job[p].mem \in State
        /\ a \in 0..MaxLog /\ 1..a \subseteq passed
    BY <2>1, JobProperties DEF Works
  <2>3. /\ n \in 0..MaxLog /\ a <= n /\ a \in Nat /\ n \in Nat
    BY <2>2, Before, CliAssumption DEF PageUpto, Larger, Smaller
  <2> HIDE DEF n
  <2>4. j \in Job /\ j.pc = "page" /\ j.from = a
    BY <2>2, <2>3, IdleWorks DEF Job
  <2> HIDE DEF j
  <2>5. /\ passed \subseteq passed' /\ passed' \subseteq 1..MaxLog
        /\ file' = s => passed' = passed \cup (a + 1)..n \/ file' = file
    <3>1. passed \subseteq 1..MaxLog /\ (a + 1)..n \subseteq 1..MaxLog
      BY <2>3, Before
    <3> QED
      BY <2>1, <3>1
  <2>6. Works(j, made, passed')
    BY <2>2, <2>4, <2>5 DEF Works
  <2>7. acked \in 0..MaxLog /\ 1..acked \subseteq passed'
    BY <2>5, Before
  <2>8. \/ file' = file
        \/ file' \in State /\ Sound(file', made, passed')
    <3>1. ASSUME file' = s, passed' = passed \cup (a + 1)..n
          PROVE  file' \in State /\ Sound(file', made, passed')
      <4>1. 1..n \subseteq passed'
        <5>1. 1..n \subseteq 1..a \cup (a + 1)..n
          BY <2>3
        <5> QED
          BY <2>2, <3>1, <5>1
      <4>2. Sound(job[p].mem, made, passed')
        <5>1. made \in Nat /\ made <= made
          BY Before
        <5> QED
          BY <2>2, <2>5, <5>1, SoundMonotone
      <4> QED
        BY <2>2, <2>3, <3>1, <4>1, <4>2, ObservedIsSound
    <3> QED
      BY <2>1, <3>1
  <2> HIDE DEF s
  <2> QED
    BY <2>1, <2>4, <2>5, <2>6, <2>7, <2>8, <1>0, HistoryStepKeeps
<1>21. ASSUME NEW p \in Procs, WatchWrite(p)
       PROVE  CliInv'
  <2> DEFINE n == job[p].upto
             s == Observed(job[p].mem, n)
             j == [job[p] EXCEPT !.pc = "watch", !.mem = s]
  <2>1. /\ job[p].pc = "emitted" /\ file' = s /\ job' = [job EXCEPT ![p] = j]
        /\ UNCHANGED <<log, queued, live, made>> /\ acked' = acked /\ passed' = passed
    BY <1>21 DEF WatchWrite, WriteState
  <2>2. /\ Sound(job[p].mem, made, passed) /\ job[p] \in Job /\ job[p].mem \in State
        /\ n \in 0..MaxLog /\ 1..n \subseteq passed
    BY <2>1, JobProperties DEF Works
  <2>3. s \in State /\ Sound(s, made, passed)
    BY <2>2, ObservedIsSound
  <2> HIDE DEF s
  <2>4. j \in Job /\ j.pc = "watch" /\ j.mem = s /\ j.upto = n
    BY <2>2, <2>3 DEF Job
  <2> HIDE DEF j
  <2>5. Works(j, made, passed)
    BY <2>2, <2>3, <2>4 DEF Works
  <2>6. passed \subseteq 1..MaxLog /\ acked \in 0..MaxLog /\ 1..acked \subseteq passed
    BY Before
  <2> QED
    BY <2>1, <2>3, <2>4, <2>5, <2>6, <1>0, HistoryStepKeeps
<1>22. ASSUME NEW p \in Procs, AcknowledgeAtService(p)
       PROVE  CliInv'
  <2> DEFINE n == job[p].upto
             j == [job[p] EXCEPT !.pc = "acknowledged"]
  <2>1. /\ job[p].pc = "acknowledge" /\ acked' = Larger(acked, n)
        /\ job' = [job EXCEPT ![p] = j]
        /\ UNCHANGED <<log, queued, live, made>> /\ file' = file /\ passed' = passed
    BY <1>22 DEF AcknowledgeAtService
  <2>2. /\ Sound(job[p].mem, made, passed) /\ job[p] \in Job /\ job[p].mem \in State
        /\ n \in 0..MaxLog
        /\ n \in job[p].mem.acknowledged..job[p].mem.observed
    BY <2>1, JobProperties DEF Works
  <2>3. 1..n \subseteq passed
    <3>1. job[p].mem.observed \in Nat /\ job[p].mem.acknowledged \in Nat
      BY <2>2, CliAssumption DEF State
    <3>2. 1..n \subseteq 1..job[p].mem.observed
      BY <2>2, <3>1
    <3> QED
      BY <2>2, <3>2 DEF Sound
  <2>4. j \in Job /\ j.pc = "acknowledged" /\ j.mem = job[p].mem /\ j.upto = n
    BY <2>2 DEF Job
  <2> HIDE DEF j
  <2>5. Works(j, made, passed)
    BY <2>2, <2>4 DEF Works
  <2>6. passed \subseteq 1..MaxLog /\ acked \in 0..MaxLog /\ 1..acked \subseteq passed
    BY Before
  <2>7. acked' \in 0..MaxLog /\ 1..acked' \subseteq passed
    BY <2>1, <2>2, <2>3, <2>6 DEF Larger
  <2> QED
    BY <2>1, <2>4, <2>5, <2>6, <2>7, <1>0, HistoryStepKeeps
<1>23. ASSUME NEW p \in Procs, AcknowledgeWrite(p)
       PROVE  CliInv'
  <2> DEFINE s == [job[p].mem EXCEPT !.acknowledged = job[p].upto]
  <2>1. /\ job[p].pc = "acknowledged" /\ file' = s /\ job' = [job EXCEPT ![p] = Idle]
        /\ UNCHANGED <<log, queued, live, made>> /\ passed' = passed /\ acked' = acked
    BY <1>23 DEF AcknowledgeWrite, WriteState, Finish
  <2>2. /\ Sound(job[p].mem, made, passed) /\ job[p].mem \in State
        /\ job[p].upto \in 0..MaxLog
        /\ job[p].upto \in job[p].mem.acknowledged..job[p].mem.observed
    BY <2>1, JobProperties DEF Works
  <2>3. job[p].upto <= job[p].mem.observed
    <3>1. job[p].mem.observed \in Nat /\ job[p].mem.acknowledged \in Nat
      BY <2>2, CliAssumption DEF State
    <3> QED
      BY <2>2, <3>1
  <2>4. s \in State /\ Sound(s, made, passed)
    BY <2>2, <2>3, AcknowledgedIsSound
  <2> HIDE DEF s
  <2>5. passed \subseteq 1..MaxLog /\ acked \in 0..MaxLog /\ 1..acked \subseteq passed
    BY Before
  <2> QED
    BY <2>1, <2>4, <2>5, IdleWorks, <1>0, HistoryStepKeeps
<1> QED
  BY <1>1, <1>2, <1>3, <1>4, <1>5, <1>6, <1>7, <1>8, <1>9, <1>10,
     <1>11, <1>12, <1>13, <1>14, <1>15, <1>16, <1>17, <1>18, <1>19,
     <1>20, <1>21, <1>22, <1>23, <1>24 DEF Next

\* Before the first command there is no file and nothing was passed.
LEMMA CliInvInit ==
    ASSUME Init
    PROVE  CliInv
<1>1. TypeOK
  <2>1. job \in [Procs -> Job]
    BY IdleWorks DEF Init
  <2>2. 0 \in 0..MaxLog /\ 0 \in 0..MaxDelegations
    BY CliAssumption
  <2> QED
    BY <2>1, <2>2, IdleWorks DEF Init, TypeOK
<1>2. JobsWork
  BY IdleWorks DEF Init, JobsWork
<1>3. RoomInLog /\ AcknowledgedWasPassed
  BY CliAssumption DEF Init, RoomInLog, AcknowledgedWasPassed
<1> QED
  BY <1>1, <1>2, <1>3 DEF Init, CliInv, FileIsSound

\* Whatever the commands of several terminals overwrite of each other's state,
\* the file and every copy of it are sound at every await.
THEOREM CliInvHolds == Spec => []CliInv
BY CliInvInit, CliInvStep, PTL DEF Spec

\* The state file and the copies of it have the fields the code gives them.
THEOREM CliTypeCorrect == Spec => []TypeOK
<1>1. CliInv => TypeOK
  BY DEF CliInv
<1> QED
  BY <1>1, CliInvHolds, PTL

\* What is acknowledged to the service was printed or sent, or a cursor that a
\* user moved passed it.
THEOREM AcknowledgedMessagesWerePassed == Spec => []AcknowledgedWasPassed
<1>1. CliInv => AcknowledgedWasPassed
  BY DEF CliInv
<1> QED
  BY <1>1, CliInvHolds, PTL

-----------------------------------------------------------------------------
(* What may be written. *)

\* validate_state looks at neither cursor but for their order.
LEMMA ObservedIsValid ==
    ASSUME NEW s \in State, ValidState(s), NEW n \in 0..MaxLog
    PROVE  /\ ValidState(Observed(s, n))
           /\ Observed(s, n).keyIds = s.keyIds
           /\ Observed(s, n).observed >= s.observed
           /\ Observed(s, n).acknowledged = s.acknowledged
<1> DEFINE to == Larger(s.observed, n)
           r == Observed(s, n)
<1>1. /\ s.observed \in Nat /\ s.acknowledged \in Nat /\ to \in Nat /\ to >= s.observed
  BY CliAssumption DEF State, Larger
<1> HIDE DEF to
<1>2. r = [s EXCEPT !.observed = to]
  BY DEF Observed, to
<1> HIDE DEF r
<1>3. /\ r.keyIds = s.keyIds /\ r.delegation = s.delegation
      /\ r.mode = s.mode /\ r.profile = s.profile
      /\ r.observed = to /\ r.acknowledged = s.acknowledged
  BY <1>2 DEF State
<1>4. ValidState(r)
  BY <1>1, <1>3 DEF ValidState
<1> QED
  BY <1>1, <1>3, <1>4 DEF r

\* A command whose requests went through can store the result, but for a renewal
\* whose profile no longer advertises the privacy mode of the conversation.
THEOREM WritesAreAccepted == Spec => []NoWriteIsRefused
<1>1. ASSUME CliInv
      PROVE  NoWriteIsRefused
  <2> SUFFICES ASSUME NEW p \in Procs,
                      job[p].pc \notin {"idle", "open", "replace", "page"},
                      ~(job[p].pc = "renewed" /\ job[p].mem.mode \notin job[p].profile)
               PROVE  ValidState(Pending(p))
    BY DEF NoWriteIsRefused
  <2> DEFINE j == job[p]
  <2>1. /\ j.mem \in State /\ j.upto \in 0..MaxLog /\ Sound(j.mem, made, passed)
        /\ j.pc = "acknowledged" => j.upto \in j.mem.acknowledged..j.mem.observed
    BY <1>1, JobProperties DEF Works
  <2>2. ValidState(j.mem)
    BY <2>1, SoundIsValid
  <2> HIDE DEF j
  <2>3. CASE j.pc = "renewed"
    <3>1. Pending(p) = Renewal(j)
      BY <2>3, Zenon DEF Pending, j
    <3> QED
      BY <1>1, <2>3, <3>1, RenewalIsSound, SoundIsValid DEF j
  <2>4. CASE j.pc = "revoked"
    <3>1. Pending(p) = [j.mem EXCEPT !.token = 0]
      BY <2>4, Zenon DEF Pending, j
    <3> QED
      BY <2>1, <3>1, RevokedIsSound, SoundIsValid
  <2>5. CASE j.pc \in {"sent", "emitted"}
    <3>1. Pending(p) = Observed(j.mem, j.upto)
      <4>1. j.pc # "renewed" /\ j.pc # "revoked"
        BY <2>5
      <4> QED
        BY <2>5, <4>1, Zenon DEF Pending, j
    <3> QED
      BY <2>1, <2>2, <3>1, ObservedIsValid
  <2>6. CASE j.pc = "acknowledged"
    <3>1. Pending(p) = [j.mem EXCEPT !.acknowledged = j.upto]
      BY <2>6, Zenon DEF Pending, j
    <3>2. j.upto <= j.mem.observed
      <4>1. j.mem.observed \in Nat /\ j.mem.acknowledged \in Nat
        BY <2>1, CliAssumption DEF State
      <4> QED
        BY <2>1, <2>6, <4>1
    <3> QED
      BY <2>1, <3>1, <3>2, AcknowledgedIsSound, SoundIsValid
  <2>7. CASE j.pc \notin {"renewed", "revoked", "sent", "emitted", "acknowledged"}
    <3>1. Pending(p) = j.mem
      BY <2>7, Zenon DEF Pending, j
    <3> QED
      BY <2>2, <3>1
  <2> QED
    BY <2>3, <2>4, <2>5, <2>6, <2>7
<1> QED
  BY <1>1, CliInvHolds, PTL

-----------------------------------------------------------------------------
(* What a write keeps. *)

\* Both cursors stay or advance, and ids are lost only from a full list.
Keeps(old, new) ==
    /\ new.observed >= old.observed
    /\ new.acknowledged >= old.acknowledged
    /\ \/ ToSet(old.keyIds) \subseteq ToSet(new.keyIds)
       \/ Len(new.keyIds) = MaxKeyIds

\* A command with a current copy writes a state that keeps what the file has,
\* unless it changes the keys.
LEMMA FreshWriteKeeps ==
    ASSUME CliInv, [Next]_vars, NEW p \in Procs, job[p] # job'[p],
           job[p].mem = file, file'.key = file.key
    PROVE  Keeps(file, file')
<1>1. /\ file \in State /\ file.observed \in Nat /\ file.acknowledged \in Nat
      /\ job \in [Procs -> Job]
  BY Before, CliAssumption DEF State
<1>2. CASE file' = file
  BY <1>1, <1>2 DEF Keeps
<1>3. ASSUME NEW q \in Procs, NEW j, job' = [job EXCEPT ![q] = j]
      PROVE  q = p
  BY <1>1, <1>3
<1>4. ASSUME OpenWrite(p)
      PROVE  Keeps(file, file')
  <2>1. file = NoState
    <3>1. job[p].pc \in {"open", "replace"}
      BY <1>4 DEF OpenWrite
    <3> QED
      BY <3>1, JobProperties DEF Works
  <2>2. file'.key = made + 1 /\ file.key = 0
    BY <1>4, <2>1 DEF OpenWrite, WriteState, NoState
  <2>3. made \in Nat
    BY Before
  <2>4. made + 1 # 0
    BY <2>3
  <2> QED
    BY <2>2, <2>4, Zenon
<1>5. ASSUME RenewWrite(p)
      PROVE  Keeps(file, file')
  <2>1. /\ job[p].pc = "renewed" /\ ValidState(Renewal(job[p]))
        /\ file' = Renewal(job[p])
    BY <1>5 DEF RenewWrite, WriteState
  <2>2. /\ file'.observed = file.observed /\ file'.acknowledged = file.acknowledged
        /\ \/ ToSet(file.keyIds) \subseteq ToSet(file'.keyIds)
           \/ Len(file'.keyIds) = MaxKeyIds
    BY <2>1, ValidRenewal, RenewalIsSound
  <2> QED
    BY <1>1, <2>2 DEF Keeps
<1>6. ASSUME RevokeWrite(p)
      PROVE  Keeps(file, file')
  <2>1. file' = [file EXCEPT !.token = 0]
    BY <1>6 DEF RevokeWrite, WriteState
  <2>2. /\ file'.observed = file.observed /\ file'.acknowledged = file.acknowledged
        /\ file'.keyIds = file.keyIds
    BY <1>1, <2>1 DEF State
  <2> QED
    BY <1>1, <2>2 DEF Keeps
<1>7. ASSUME NEW n \in 0..MaxLog, file' = Observed(file, n),
             job[p].pc \in {"sent", "messages", "emitted"}
      PROVE  Keeps(file, file')
  <2>1. Sound(file, made, passed)
    BY <1>7, JobProperties DEF Works
  <2>2. /\ file'.observed >= file.observed /\ file'.acknowledged = file.acknowledged
        /\ file'.keyIds = file.keyIds
    BY <1>1, <1>7, <2>1, SoundIsValid, ObservedIsValid
  <2> QED
    BY <1>1, <2>2 DEF Keeps
<1>8. ASSUME SendWrite(p) \/ WatchWrite(p)
      PROVE  Keeps(file, file')
  <2>1. /\ file' = Observed(file, job[p].upto)
        /\ job[p].pc \in {"sent", "messages", "emitted"}
    BY <1>8 DEF SendWrite, WatchWrite, WriteState
  <2> QED
    BY <1>7, <2>1, JobProperties
<1>9. ASSUME MessagesPage(p)
      PROVE  Keeps(file, file')
  <2> DEFINE n == PageUpto(job[p].from)
  <2>1. /\ file' = file \/ file' = Observed(file, n)
        /\ job[p].pc = "messages"
    BY <1>9 DEF MessagesPage, WriteState
  <2>2. n \in 0..MaxLog
    BY JobProperties, Before, CliAssumption DEF PageUpto, Larger, Smaller
  <2> HIDE DEF n
  <2> QED
    BY <1>2, <1>7, <2>1, <2>2
<1>10. ASSUME AcknowledgeWrite(p)
       PROVE  Keeps(file, file')
  <2>1. /\ file' = [file EXCEPT !.acknowledged = job[p].upto]
        /\ job[p].pc = "acknowledged"
    BY <1>10 DEF AcknowledgeWrite, WriteState
  <2>2. /\ file'.observed = file.observed /\ file'.acknowledged = job[p].upto
        /\ file'.keyIds = file.keyIds
    BY <1>1, <2>1 DEF State
  <2>3. job[p].upto \in file.acknowledged..file.observed
    BY <2>1, JobProperties DEF Works
  <2> QED
    BY <1>1, <2>2, <2>3 DEF Keeps
<1>11. ASSUME NEW q \in Procs,
              \/ OpenWrite(q) \/ RenewWrite(q) \/ RevokeWrite(q) \/ SendWrite(q)
              \/ MessagesPage(q) \/ WatchWrite(q) \/ AcknowledgeWrite(q)
       PROVE  Keeps(file, file')
  <2>1. \E j : job' = [job EXCEPT ![q] = j]
    <3>1. ASSUME Finish(q)
          PROVE  \E j : job' = [job EXCEPT ![q] = j]
      BY <3>1 DEF Finish
    <3>2. ASSUME MessagesPage(q)
          PROVE  \E j : job' = [job EXCEPT ![q] = j]
      BY <3>2 DEF MessagesPage
    <3>3. ASSUME WatchWrite(q)
          PROVE  \E j : job' = [job EXCEPT ![q] = j]
      BY <3>3 DEF WatchWrite
    <3> QED
      BY <1>11, <3>1, <3>2, <3>3 DEF OpenWrite, RenewWrite, RevokeWrite, SendWrite,
         AcknowledgeWrite
  <2>2. q = p
    BY <1>3, <2>1
  <2> QED
    BY <1>4, <1>5, <1>6, <1>8, <1>9, <1>10, <1>11, <2>2
<1>12. ASSUME NEW q \in Procs,
              \/ Fail(q) \/ OpenBegin(q) \/ RenewBegin(q) \/ RenewAtService(q)
              \/ RenewRefused(q) \/ RevokeBegin(q) \/ RevokeAtService(q) \/ SendBegin(q) \/ SendAccepted(q)
              \/ SendQueued(q) \/ FlushBegin(q) \/ FlushAccepted(q)
              \/ MessagesBegin(q) \/ MessagesEmit(q) \/ WatchBegin(q)
              \/ WatchEmit(q) \/ AcknowledgeBegin(q) \/ AcknowledgeAtService(q)
       PROVE  file' = file
  BY <1>12 DEF Fail, OpenBegin, RenewBegin, RenewAtService, RenewRefused, RevokeBegin, RevokeAtService, SendBegin,
     SendAccepted, SendQueued, FlushBegin, FlushAccepted, MessagesBegin,
     MessagesEmit, WatchBegin, WatchEmit, AcknowledgeBegin, AcknowledgeAtService,
     ReadState, Begin
<1>13. ASSUME PeerPosts \/ SessionExpires \/ Publish \/ UNCHANGED vars
       PROVE  file' = file
  BY <1>13 DEF PeerPosts, SessionExpires, Publish, vars
<1> QED
  BY <1>2, <1>11, <1>12, <1>13 DEF Next

\* Nothing locks the state file, yet a command whose copy is current takes
\* nothing back: no cursor, and no key id from a list that is not full.
THEOREM CurrentCopiesTakeNothingBack == Spec => FreshWritesKeep
<1>1. ASSUME CliInv, [Next]_vars
      PROVE  \A p \in Procs :
               job[p] # job'[p] /\ job[p].mem = file /\ file'.key = file.key =>
                   /\ file'.observed >= file.observed
                   /\ file'.acknowledged >= file.acknowledged
                   /\ \/ ToSet(file.keyIds) \subseteq ToSet(file'.keyIds)
                      \/ Len(file'.keyIds) = MaxKeyIds
  BY <1>1, FreshWriteKeeps, Zenon DEF Keeps
<1> QED
  BY <1>1, CliInvHolds, PTL DEF Spec, FreshWritesKeep

=============================================================================
