---------------------- MODULE ConversationSessionProofs ----------------------
(***************************************************************************)
(* Proofs about ConversationSession, for any set of profiles, services,    *)
(* hosts and certificates that satisfies the assumptions.                  *)
(***************************************************************************)
EXTENDS ConversationSession, SequenceTheorems, FiniteSetTheorems, TLAPS,
        WellFoundedInduction

-----------------------------------------------------------------------------
(* The inductive invariant. *)

Phases == {"idle", "probe", "connected", "informed", "challenged"}

ClientType ==
    [pc : Phases, policy : Policies, use : BOOLEAN,
     profile : DOMAIN Profile \cup {0}, at : Nat, errors : Seq(Silent)]

StateType ==
    [service : Services \cup {Nobody}, token : Nat, expires : Nat,
     ids : Seq(1..MaxSessions)]

SessionTypeOK ==
    /\ now \in Nat /\ changes \in Nat
    /\ chain \in DOMAIN Profile
    /\ live \in [Services -> DOMAIN Profile]
    /\ cert \in [Services -> DOMAIN Validity]
    /\ holder \in [Hosts -> Services \cup {Nobody}]
    /\ client \in ClientType
    /\ state \in StateType

\* A service has a certificate of its own.
OwnCertificates == \A s \in Services : cert[s] \in Certs[s]

\* A client at work is at an interface of its profile.
AtInterface ==
    client.pc # "idle" =>
        /\ client.profile \in DOMAIN Profile
        /\ client.at \in DOMAIN Interfaces(client.profile)

\* A session that is used was issued by the service of the profile.
UsedAtIssuer == client.use => state.service = ServiceOf(client.profile)

Passed ==
    {i \in 1..client.at - 1 :
        Supports(client.policy, Interfaces(client.profile)[i])}

\* The interfaces before the current one, while the client is being built too.
PassedInSilence ==
    /\ client.pc = "idle" => client.errors = <<>>
    /\ client.pc # "idle" =>
          /\ Supports(client.policy, Interface)
          /\ Cardinality(Passed) = Len(client.errors)
          /\ client.policy = "Auto" \/ Passed = {}

\* The messages at the service are the ones Submit seals.
Recipients(id) == <<Peer, [id |-> id, public |-> Secret]>>
Sealed(id) ==
    EncryptE2E(1, 1, Plaintext(Content), Recipients(id), Ephemeral, ContentKey)

MailIsSealed ==
    \A m \in mail :
        /\ m.conversation = 1 /\ m.epoch = 1
        /\ \E id \in 1..MaxSessions :
              m.payload = Sealed(id) /\ RecipientsFit(Recipients(id))

SessionInv ==
    /\ SessionTypeOK
    /\ OwnCertificates
    /\ AtInterface
    /\ UsedAtIssuer
    /\ PassedInSilence
    /\ MailIsSealed
    /\ StaysWithService
    /\ TokenStaysWithIssuer
    /\ ReadsWhatWasSent

-----------------------------------------------------------------------------
(* The choice of an interface. *)

\* A set of natural numbers that is not empty has a least element.
LEMMA LeastElement ==
    ASSUME NEW S \in SUBSET Nat, NEW s \in S
    PROVE  \E i \in S : \A j \in S : i <= j
<1> DEFINE R == OpToRel(<, Nat)
<1>1. IsWellFoundedOn(R, Nat)
  BY NatLessThanWellFounded
<1>2. \A i, j \in Nat : i < j => <<i, j>> \in R
  BY DEF OpToRel
<1> HIDE DEF R
<1>3. PICK i \in S : \A j \in S : ~(<<j, i>> \in R)
  BY <1>1, WFMin
<1>4. ASSUME NEW j \in S
      PROVE  i <= j
  <2>1. ~(j < i)
    BY <1>2, <1>3
  <2> QED
    BY <2>1
<1> QED
  BY <1>4

\* The interfaces of a profile are numbered from 1.
LEMMA InterfaceIndices ==
    ASSUME NEW p \in DOMAIN Profile
    PROVE  /\ Len(Interfaces(p)) \in Nat
           /\ DOMAIN Interfaces(p) = 1..Len(Interfaces(p))
           /\ \A i \in DOMAIN Interfaces(p) :
                 /\ Interfaces(p)[i].type \in {"https", "tls"}
                 /\ Interfaces(p)[i].host \in Hosts
<1> DEFINE Pins == Seq([cert : DOMAIN Validity, from : Nat, to : Nat])
           Shape == [type : {"https", "tls"}, host : Hosts, pins : Pins]
           at == Interfaces(p)
<1>1. at \in Seq(Shape)
  BY WorldAssumption
<1> HIDE DEF Pins
<1>2. \A x \in Shape : x.type \in {"https", "tls"} /\ x.host \in Hosts
  OBVIOUS
<1> HIDE DEF Shape, at
<1>3. /\ Len(at) \in Nat /\ DOMAIN at = 1..Len(at)
      /\ \A i \in DOMAIN at : at[i] \in Shape
  BY <1>1
<1> QED
  BY <1>2, <1>3 DEF at

\* from_profile goes to the next interface that the policy supports, and
\* leaves out none in between.
LEMMA NextInterfaceProperties ==
    ASSUME NEW p \in DOMAIN Profile, NEW policy, NEW at \in Nat,
           NextInterface(p, policy, at) # 0
    PROVE  /\ NextInterface(p, policy, at) \in DOMAIN Interfaces(p)
           /\ NextInterface(p, policy, at) > at
           /\ Supports(policy, Interfaces(p)[NextInterface(p, policy, at)])
           /\ \A j \in DOMAIN Interfaces(p) :
                 at < j /\ j < NextInterface(p, policy, at)
                    => ~Supports(policy, Interfaces(p)[j])
<1> DEFINE usable == {i \in DOMAIN Interfaces(p) :
                         i > at /\ Supports(policy, Interfaces(p)[i])}
           next == CHOOSE i \in usable : \A j \in usable : i <= j
<1>1. NextInterface(p, policy, at) = IF usable = {} THEN 0 ELSE next
  BY DEF NextInterface
<1>2. usable # {} /\ NextInterface(p, policy, at) = next
  BY <1>1
<1>3. usable \in SUBSET Nat
  BY InterfaceIndices
<1>4. \E i \in usable : \A j \in usable : i <= j
  <2>1. PICK s : s \in usable
    BY <1>2
  <2> HIDE DEF usable
  <2> QED
    BY <1>3, <2>1, LeastElement
<1>5. next \in usable /\ \A j \in usable : next <= j
  <2> HIDE DEF usable
  <2> QED
    BY <1>4
<1> HIDE DEF next
<1>6. next \in Nat
  BY <1>3, <1>5
<1>7. ASSUME NEW j \in DOMAIN Interfaces(p), at < j, j < next
      PROVE  ~Supports(policy, Interfaces(p)[j])
  <2>1. j \in Nat
    BY InterfaceIndices
  <2>2. j \notin usable
    BY <1>5, <1>6, <1>7, <2>1
  <2> QED
    BY <1>7, <2>1, <2>2
<1> QED
  BY <1>2, <1>5, <1>7

-----------------------------------------------------------------------------
(* The types. *)

\* A client that was given up has the type of a client.
LEMMA NoClientType ==
    ASSUME NEW policy \in Policies
    PROVE  NoClient(policy) \in ClientType
<1>1. <<>> \in Seq(Silent)
  BY EmptySeq
<1> QED
  BY <1>1 DEF NoClient, ClientType, Phases

\* The fields of a client.
LEMMA ClientFields ==
    ASSUME client \in ClientType
    PROVE  /\ client.pc \in Phases /\ client.policy \in Policies
           /\ client.use \in BOOLEAN
           /\ client.profile \in DOMAIN Profile \cup {0}
           /\ client.at \in Nat /\ client.errors \in Seq(Silent)
BY DEF ClientType

\* Every step of provider, service, network and participant keeps the types.
LEMMA SessionTypeStep ==
    ASSUME SessionTypeOK, AtInterface, [Next]_vars
    PROVE  SessionTypeOK'
<1> USE SessionAssumption DEF SessionTypeOK, worldVars
<1>0. client.policy \in Policies /\ client.profile \in DOMAIN Profile \cup {0}
  BY ClientFields
<1>1. ASSUME NEW p \in DOMAIN Profile, Publish(p)
      PROVE  SessionTypeOK'
  BY <1>1 DEF Publish, Change
<1>2. CASE Serve
  BY <1>2 DEF Serve
<1>3. ASSUME NEW s \in Services, NEW c \in Certs[s], SwitchCertificate(s, c)
      PROVE  SessionTypeOK'
  BY <1>3 DEF SwitchCertificate, Change
<1>4. ASSUME NEW h \in Hosts, NEW who \in Services \cup {Nobody}, Move(h, who)
      PROVE  SessionTypeOK'
  BY <1>4 DEF Move, Change
<1>5. CASE Tick
  BY <1>5 DEF Tick
<1>6. ASSUME NEW use \in BOOLEAN, Begin(use)
      PROVE  SessionTypeOK'
  <2>1. NextInterface(chain, client.policy, 0) \in Nat
    BY <1>6, NextInterfaceProperties, InterfaceIndices DEF Begin
  <2>2. client' = [client EXCEPT !.pc = "probe", !.use = use, !.profile = chain,
                            !.at = NextInterface(chain, client.policy, 0)]
    BY <1>6 DEF Begin
  <2>3. client' \in ClientType
    BY <2>1, <2>2 DEF ClientType, Phases
  <2> QED
    BY <1>6, <2>3 DEF Begin
<1>7. CASE ProbeMatches
  <2>1. client' \in ClientType
    BY <1>7 DEF ProbeMatches, ClientType, Phases
  <2> QED
    BY <1>7, <2>1 DEF ProbeMatches
<1>8. CASE ProbeDiffers
  BY <1>0, <1>8, NoClientType DEF ProbeDiffers, GiveUp
<1>9. ASSUME NEW error \in Errors, ProbeFails(error)
      PROVE  SessionTypeOK'
  <2> DEFINE next == NextInterface(client.profile, client.policy, client.at)
  <2>1. CASE MayAdvance(client.policy, error) /\ next # 0
    <3>1. client' = [client EXCEPT !.at = next, !.errors = Append(@, error)]
      BY <1>9, <2>1 DEF ProbeFails
    <3>2. error \in Silent
      BY <2>1 DEF MayAdvance, IsReachabilityError
    <3>3. Append(client.errors, error) \in Seq(Silent)
      BY <3>2, ClientFields, AppendProperties
    <3>4. next \in Nat
      <4>1. client.profile \in DOMAIN Profile /\ client.at \in Nat
        BY <1>9, ClientFields DEF ProbeFails, AtInterface
      <4> QED
        BY <2>1, <4>1, NextInterfaceProperties, InterfaceIndices
    <3>5. client' \in ClientType
      <4> HIDE DEF next
      <4> QED
        BY <3>1, <3>3, <3>4 DEF ClientType
    <3> QED
      BY <1>9, <3>5 DEF ProbeFails
  <2>2. CASE ~(MayAdvance(client.policy, error) /\ next # 0)
    <3>1. GiveUp
      BY <1>9, <2>2 DEF ProbeFails
    <3> QED
      BY <1>0, <1>9, <3>1, NoClientType DEF ProbeFails, GiveUp
  <2> QED
    BY <2>1, <2>2
<1>10. CASE DelegationInfo
  <2>1. client' \in ClientType
    BY <1>10 DEF DelegationInfo, ClientType, Phases
  <2> QED
    BY <1>10, <2>1 DEF DelegationInfo
<1>11. CASE IssueChallenge
  <2>1. client' \in ClientType
    BY <1>11 DEF IssueChallenge, ClientType, Phases
  <2> QED
    BY <1>11, <2>1 DEF IssueChallenge
<1>12. CASE CreateSession
  <2>1. client' \in ClientType
    BY <1>12 DEF CreateSession, ClientType, Phases
  <2>2. state' \in StateType
    <3>1. state' = [service |-> ServiceOf(client.profile),
                    token |-> Len(state.ids) + 1, expires |-> now + 1,
                    ids |-> Append(state.ids, Len(state.ids) + 1)]
      BY <1>12 DEF CreateSession, CreateDelegation
    <3>2. state.ids \in Seq(1..MaxSessions) /\ Len(state.ids) < MaxSessions
      BY <1>12 DEF StateType, CreateSession
    <3>3. Len(state.ids) + 1 \in 1..MaxSessions
      BY <3>2
    <3>4. Append(state.ids, Len(state.ids) + 1) \in Seq(1..MaxSessions)
      BY <3>2, <3>3, AppendProperties
    <3>5. ServiceOf(client.profile) \in Services
      BY <1>12 DEF CreateSession, AtInterface, ServiceOf
    <3> QED
      BY <3>1, <3>3, <3>4, <3>5 DEF StateType
  <2> QED
    BY <1>12, <2>1, <2>2 DEF CreateSession
<1>13. ASSUME NEW r \in RecipientLists, Submit(r)
       PROVE  SessionTypeOK'
  BY <1>13 DEF Submit
<1>14. CASE Request
  BY <1>14 DEF Request
<1>15. CASE RevokeDelegation
  <2>1. state' \in StateType
    BY <1>15 DEF RevokeDelegation, StateType
  <2> QED
    BY <1>0, <1>15, <2>1, NoClientType DEF RevokeDelegation, GiveUp
<1>16. CASE Close
  BY <1>0, <1>16, NoClientType DEF Close, GiveUp
<1>17. ASSUME NEW c, NEW epoch, NEW id, Read(c, epoch, id)
       PROVE  SessionTypeOK'
  BY <1>17 DEF Read
<1>18. CASE UNCHANGED vars
  BY <1>18 DEF vars
<1> QED
  BY <1>1, <1>2, <1>3, <1>4, <1>5, <1>6, <1>7, <1>8, <1>9, <1>10, <1>11, <1>12,
     <1>13, <1>14, <1>15, <1>16, <1>17, <1>18 DEF Next

-----------------------------------------------------------------------------
(* The client. *)

\* A step that leaves the client at its interface.
KeepsPlace ==
    /\ client.pc # "idle" /\ client'.pc # "idle"
    /\ client'.policy = client.policy /\ client'.profile = client.profile
    /\ client'.at = client.at /\ client'.errors = client.errors

\* What a step does to the client.
LEMMA ClientSteps ==
    ASSUME SessionTypeOK, [Next]_vars
    PROVE  \/ UNCHANGED <<client, state>>
           \/ client' = NoClient(client.policy)
           \/ \E use \in BOOLEAN : Begin(use)
           \/ \E error \in Errors : ProbeFails(error)
           \/ /\ KeepsPlace
              /\ \/ client'.use = client.use /\ UNCHANGED state
                 \/ CreateSession
<1> USE DEF worldVars
<1>0. client \in ClientType
  BY DEF SessionTypeOK
<1>1. CASE \/ \E p \in DOMAIN Profile : Publish(p)
           \/ \E s \in Services : \E c \in Certs[s] : SwitchCertificate(s, c)
           \/ \E h \in Hosts, who \in Services \cup {Nobody} : Move(h, who)
  BY <1>1 DEF Publish, SwitchCertificate, Move, Change
<1>2. CASE Serve \/ Tick \/ Request \/ UNCHANGED vars
  BY <1>2 DEF Serve, Tick, Request, vars
<1>3. CASE \/ \E r \in RecipientLists : Submit(r)
           \/ \E c \in Conversations, epoch \in Epochs, id \in 1..MaxSessions :
                 Read(c, epoch, id)
  BY <1>3 DEF Submit, Read
<1>4. CASE ProbeMatches \/ DelegationInfo \/ IssueChallenge
  BY <1>0, <1>4 DEF ProbeMatches, DelegationInfo, IssueChallenge, KeepsPlace, ClientType
<1>5. CASE CreateSession
  BY <1>0, <1>5 DEF CreateSession, KeepsPlace, ClientType
<1>6. CASE ProbeDiffers \/ RevokeDelegation \/ Close
  BY <1>6 DEF ProbeDiffers, RevokeDelegation, Close, GiveUp
<1> QED
  BY <1>1, <1>2, <1>3, <1>4, <1>5, <1>6 DEF Next

\* What Begin does: the first interface that the policy supports.
LEMMA BeginProperties ==
    ASSUME SessionTypeOK, NEW use \in BOOLEAN, Begin(use)
    PROVE  /\ client.pc = "idle" /\ client'.pc = "probe"
           /\ client'.use = use /\ client'.policy = client.policy
           /\ client'.errors = client.errors /\ client'.profile = chain
           /\ client'.at \in DOMAIN Interfaces(chain)
           /\ client'.at = NextInterface(chain, client.policy, 0)
           /\ client'.at # 0
<1>1. /\ client' = [client EXCEPT !.pc = "probe", !.use = use, !.profile = chain,
                            !.at = NextInterface(chain, client.policy, 0)]
      /\ NextInterface(chain, client.policy, 0) # 0
      /\ client.pc = "idle" /\ chain \in DOMAIN Profile
  BY DEF Begin, SessionTypeOK
<1>2. NextInterface(chain, client.policy, 0) \in DOMAIN Interfaces(chain)
  BY <1>1, NextInterfaceProperties
<1> QED
  BY <1>1, <1>2 DEF SessionTypeOK, ClientType

\* What ProbeFails does when it does not give up.
LEMMA AdvanceProperties ==
    ASSUME SessionTypeOK, AtInterface, NEW error \in Errors, ProbeFails(error),
           client' # NoClient(client.policy)
    PROVE  /\ client.pc = "probe" /\ client'.pc = "probe"
           /\ client'.policy = client.policy /\ client'.profile = client.profile
           /\ client'.use = client.use /\ UNCHANGED state
           /\ client.policy = "Auto"
           /\ client'.errors = Append(client.errors, error)
           /\ client'.at = NextInterface(client.profile, client.policy, client.at)
           /\ client'.at # 0
           /\ client'.at \in DOMAIN Interfaces(client.profile)
<1> DEFINE next == NextInterface(client.profile, client.policy, client.at)
<1>1. /\ client' = [client EXCEPT !.at = next, !.errors = Append(@, error)]
      /\ next # 0 /\ client.pc = "probe" /\ UNCHANGED state
      /\ client.policy = "Auto"
  BY DEF ProbeFails, GiveUp, MayAdvance
<1>2. client.profile \in DOMAIN Profile /\ client.at \in Nat
  BY <1>1, ClientFields DEF AtInterface, SessionTypeOK
<1>3. next \in DOMAIN Interfaces(client.profile)
  BY <1>1, <1>2, NextInterfaceProperties
<1> HIDE DEF next
<1>4. client'.at = next
  BY <1>1 DEF SessionTypeOK, ClientType
<1> QED
  BY <1>1, <1>3, <1>4 DEF SessionTypeOK, ClientType, next

\* The policy is chosen once.
LEMMA PolicyStays ==
    ASSUME SessionTypeOK, AtInterface, [Next]_vars
    PROVE  client'.policy = client.policy
<1>1. CASE client' = NoClient(client.policy)
  BY <1>1 DEF NoClient
<1>2. ASSUME NEW use \in BOOLEAN, Begin(use)
      PROVE  client'.policy = client.policy
  BY <1>2, BeginProperties
<1>3. ASSUME NEW error \in Errors, ProbeFails(error),
             client' # NoClient(client.policy)
      PROVE  client'.policy = client.policy
  BY <1>3, AdvanceProperties
<1> QED
  BY <1>1, <1>2, <1>3, ClientSteps DEF KeepsPlace

\* A client at work stays at an interface of its profile.
LEMMA AtInterfaceStep ==
    ASSUME SessionTypeOK, AtInterface, [Next]_vars
    PROVE  AtInterface'
<1>1. CASE UNCHANGED <<client, state>>
  BY <1>1 DEF AtInterface
<1>2. CASE client' = NoClient(client.policy)
  BY <1>2 DEF NoClient, AtInterface
<1>3. ASSUME NEW use \in BOOLEAN, Begin(use)
      PROVE  AtInterface'
  BY <1>3, BeginProperties DEF AtInterface, SessionTypeOK
<1>4. ASSUME NEW error \in Errors, ProbeFails(error),
             client' # NoClient(client.policy)
      PROVE  AtInterface'
  BY <1>4, AdvanceProperties DEF AtInterface
<1>5. CASE KeepsPlace
  BY <1>5 DEF KeepsPlace, AtInterface
<1> QED
  BY <1>1, <1>2, <1>3, <1>4, <1>5, ClientSteps

\* A session is used only with the service that issued it.
LEMMA UsedAtIssuerStep ==
    ASSUME SessionTypeOK, AtInterface, UsedAtIssuer, [Next]_vars
    PROVE  UsedAtIssuer'
<1>1. CASE UNCHANGED <<client, state>>
  BY <1>1 DEF UsedAtIssuer
<1>2. CASE client' = NoClient(client.policy)
  BY <1>2 DEF NoClient, UsedAtIssuer
<1>3. ASSUME NEW use \in BOOLEAN, Begin(use)
      PROVE  UsedAtIssuer'
  <2>1. UNCHANGED state /\ (use => ServiceOf(chain) = state.service)
    BY <1>3 DEF Begin, IsIssuer
  <2> QED
    BY <1>3, <2>1, BeginProperties DEF UsedAtIssuer
<1>4. ASSUME NEW error \in Errors, ProbeFails(error),
             client' # NoClient(client.policy)
      PROVE  UsedAtIssuer'
  BY <1>4, AdvanceProperties DEF UsedAtIssuer
<1>5. CASE KeepsPlace /\ client'.use = client.use /\ UNCHANGED state
  BY <1>5 DEF KeepsPlace, UsedAtIssuer
<1>6. CASE KeepsPlace /\ CreateSession
  <2>1. state'.service = ServiceOf(client.profile)
    BY <1>6 DEF CreateSession, CreateDelegation
  <2> QED
    BY <1>6, <2>1 DEF KeepsPlace, UsedAtIssuer
<1> QED
  BY <1>1, <1>2, <1>3, <1>4, <1>5, <1>6, ClientSteps

\* Interfaces are passed over in silence only, and under Auto only.
LEMMA PassedInSilenceStep ==
    ASSUME SessionTypeOK, AtInterface, PassedInSilence, [Next]_vars
    PROVE  PassedInSilence'
<1>0. SessionTypeOK' /\ AtInterface'
  BY SessionTypeStep, AtInterfaceStep
<1>1. CASE UNCHANGED <<client, state>>
  BY <1>1 DEF PassedInSilence, Passed, Interface
<1>2. CASE client' = NoClient(client.policy)
  BY <1>2 DEF NoClient, PassedInSilence
<1>3. ASSUME NEW use \in BOOLEAN, Begin(use)
      PROVE  PassedInSilence'
  <2>1. /\ client.pc = "idle" /\ client'.pc = "probe"
        /\ client'.policy = client.policy
        /\ client'.errors = client.errors /\ client'.profile = chain
        /\ client'.at = NextInterface(chain, client.policy, 0)
        /\ client'.at # 0 /\ chain \in DOMAIN Profile
    BY <1>3, BeginProperties DEF SessionTypeOK
  <2>2. /\ client'.at \in DOMAIN Interfaces(chain)
        /\ Supports(client.policy, Interfaces(chain)[client'.at])
        /\ \A j \in DOMAIN Interfaces(chain) :
              0 < j /\ j < client'.at => ~Supports(client.policy, Interfaces(chain)[j])
    BY <2>1, NextInterfaceProperties
  <2>3. \A j \in 1..client'.at - 1 :
            j \in DOMAIN Interfaces(chain) /\ 0 < j /\ j < client'.at
    BY <2>1, <2>2, InterfaceIndices
  <2>4. Passed' = {}
    BY <2>1, <2>2, <2>3 DEF Passed
  <2>5. client'.errors = <<>> /\ Len(client'.errors) = 0
    BY <2>1 DEF PassedInSilence
  <2>6. Cardinality(Passed') = Len(client'.errors)
    BY <2>4, <2>5, FS_EmptySet
  <2>7. Supports(client'.policy, Interface')
    BY <2>1, <2>2 DEF Interface
  <2> QED
    BY <2>1, <2>4, <2>6, <2>7 DEF PassedInSilence
<1>4. ASSUME NEW error \in Errors, ProbeFails(error),
             client' # NoClient(client.policy)
      PROVE  PassedInSilence'
  <2>1. /\ client.pc = "probe" /\ client'.pc = "probe"
        /\ client'.policy = client.policy /\ client'.profile = client.profile
        /\ client.policy = "Auto"
        /\ client'.errors = Append(client.errors, error)
        /\ client'.at = NextInterface(client.profile, client.policy, client.at)
        /\ client'.at # 0
    BY <1>4, AdvanceProperties
  <2> DEFINE at == Interfaces(client.profile)
  <2>2. /\ client.profile \in DOMAIN Profile /\ client.at \in DOMAIN at
        /\ client.at \in Nat /\ Len(at) \in Nat /\ DOMAIN at = 1..Len(at)
    BY <2>1, ClientFields, InterfaceIndices DEF AtInterface, SessionTypeOK
  <2>3. /\ client'.at \in DOMAIN at /\ client'.at > client.at
        /\ Supports(client.policy, at[client'.at])
        /\ \A j \in DOMAIN at : client.at < j /\ j < client'.at
              => ~Supports(client.policy, at[j])
    BY <2>1, <2>2, NextInterfaceProperties
  <2>4. /\ Supports(client.policy, at[client.at])
        /\ Cardinality(Passed) = Len(client.errors)
    BY <2>1 DEF PassedInSilence, Interface
  <2> HIDE DEF at
  <2>5. Passed = {i \in 1..client.at - 1 : Supports(client.policy, at[i])}
    BY DEF Passed, at
  <2>6. Passed' = {i \in 1..client'.at - 1 : Supports(client.policy, at[i])}
    BY <2>1 DEF Passed, at
  <2>7. Passed' = Passed \cup {client.at}
    <3>1. ASSUME NEW i \in 1..client'.at - 1, Supports(client.policy, at[i])
          PROVE  i \in Passed \cup {client.at}
      BY <2>2, <2>3, <2>5, <3>1
    <3>2. \A i \in Passed \cup {client.at} : i \in Passed'
      BY <2>2, <2>3, <2>4, <2>5, <2>6
    <3> QED
      BY <2>6, <3>1, <3>2
  <2>8. IsFiniteSet(Passed) /\ client.at \notin Passed
    <3>1. IsFiniteSet(1..client.at - 1)
      BY <2>2, FS_Interval
    <3>2. Passed \in SUBSET (1..client.at - 1)
      BY <2>5
    <3> QED
      BY <2>2, <3>1, <3>2, FS_Subset
  <2>9. Cardinality(Passed') = Cardinality(Passed) + 1
    BY <2>7, <2>8, FS_AddElement
  <2>10. Len(client'.errors) = Len(client.errors) + 1
    BY <2>1, ClientFields, AppendProperties DEF SessionTypeOK
  <2>11. Supports(client'.policy, Interface')
    BY <2>1, <2>3 DEF Interface, at
  <2> QED
    BY <2>1, <2>4, <2>9, <2>10, <2>11 DEF PassedInSilence
<1>5. CASE KeepsPlace
  BY <1>5 DEF KeepsPlace, PassedInSilence, Passed, Interface
<1> QED
  BY <1>1, <1>2, <1>3, <1>4, <1>5, ClientSteps

-----------------------------------------------------------------------------
(* Who answers. *)

\* A service goes on having a certificate of its own.
LEMMA OwnCertificatesStep ==
    ASSUME SessionTypeOK, OwnCertificates, [Next]_vars
    PROVE  OwnCertificates'
<1>1. CASE UNCHANGED cert
  BY <1>1 DEF OwnCertificates
<1>2. ASSUME NEW s \in Services, NEW c \in Certs[s], SwitchCertificate(s, c)
      PROVE  OwnCertificates'
  BY <1>2 DEF SwitchCertificate, OwnCertificates, SessionTypeOK
<1>3. \/ UNCHANGED cert
      \/ \E s \in Services : \E c \in Certs[s] : SwitchCertificate(s, c)
  BY DEF Next, vars, worldVars, Publish, Serve, Move, Tick, Begin, ProbeMatches,
     ProbeDiffers, ProbeFails, DelegationInfo, IssueChallenge, CreateSession,
     Submit, Request, RevokeDelegation, Close, Read
<1> QED
  BY <1>1, <1>2, <1>3

\* Who is behind an interface that lets a handshake through has a certificate
\* the profile pins, so it is the service of the profile.
LEMMA PinnedIsService ==
    ASSUME SessionTypeOK, OwnCertificates, AtInterface, client.pc # "idle",
           Interface.type = "tls", Handshake(Interface)
    PROVE  holder[Interface.host] = ServiceOf(client.profile)
<1>1. /\ client.profile \in DOMAIN Profile
      /\ client.at \in DOMAIN Interfaces(client.profile)
  BY DEF AtInterface
<1>2. holder[Interface.host] \in Services
  BY <1>1, InterfaceIndices DEF Handshake, Interface, SessionTypeOK
<1>3. PICK k \in DOMAIN Interface.pins :
        Interface.pins[k].cert = cert[holder[Interface.host]]
  BY DEF Handshake, VerifyServerCert
<1>4. Interface.pins[k].cert \in Certs[holder[Interface.host]]
  BY <1>2, <1>3 DEF OwnCertificates
<1> QED
  BY <1>1, <1>2, <1>3, <1>4, WorldAssumption DEF Interface, ServiceOf

-----------------------------------------------------------------------------
(* Requests. *)

\* What a step leaves as the last request or reading.
LEMMA LastSteps ==
    ASSUME [Next]_vars
    PROVE  \/ UNCHANGED <<last, mail>>
           \/ last' = Nothing
           \/ IsBuilt /\ \E token \in BOOLEAN : Sends(token) /\ (token => client.use)
           \/ \E c \in Conversations, epoch \in Epochs, id \in 1..MaxSessions :
                 Read(c, epoch, id)
<1>1. CASE \/ \E p \in DOMAIN Profile : Publish(p)
           \/ \E s \in Services : \E c \in Certs[s] : SwitchCertificate(s, c)
           \/ \E h \in Hosts, who \in Services \cup {Nobody} : Move(h, who)
           \/ Serve \/ Tick \/ UNCHANGED vars
  BY <1>1 DEF Publish, SwitchCertificate, Move, Change, Serve, Tick, vars
<1>2. CASE \/ \E use \in BOOLEAN : Begin(use)
           \/ \E error \in Errors : ProbeFails(error)
           \/ ProbeMatches \/ ProbeDiffers \/ Close
  BY <1>2 DEF Begin, ProbeFails, ProbeMatches, ProbeDiffers, Close
<1>3. CASE DelegationInfo \/ IssueChallenge \/ CreateSession
  <2>1. IsBuilt /\ Sends(FALSE)
    BY <1>3 DEF DelegationInfo, IssueChallenge, CreateSession, IsBuilt
  <2> QED
    BY <2>1
<1>4. CASE Request \/ RevokeDelegation \/ \E r \in RecipientLists : Submit(r)
  <2>1. IsBuilt /\ Sends(TRUE) /\ client.use
    BY <1>4 DEF Request, RevokeDelegation, Submit, IsBuilt
  <2> QED
    BY <2>1
<1> QED
  BY <1>1, <1>2, <1>3, <1>4 DEF Next

\* A request over a direct interface reaches the service of the profile, and a
\* token is that service's.
LEMMA RequestStep ==
    ASSUME SessionInv, [Next]_vars
    PROVE  StaysWithService' /\ TokenStaysWithIssuer'
<1>0. client'.policy = client.policy
  BY PolicyStays DEF SessionInv
<1>1. CASE UNCHANGED <<last, mail>>
  BY <1>0, <1>1 DEF SessionInv, StaysWithService, TokenStaysWithIssuer
<1>2. CASE last' = Nothing
  BY <1>2 DEF Nothing, StaysWithService, TokenStaysWithIssuer
<1>3. ASSUME NEW token \in BOOLEAN, IsBuilt, Sends(token), token => client.use
      PROVE  StaysWithService' /\ TokenStaysWithIssuer'
  <2>1. /\ last'.server = holder[Interface.host]
        /\ last'.meant = ServiceOf(client.profile)
        /\ last'.type = Interface.type
        /\ last'.issuer = IF token THEN state.service ELSE ServiceOf(client.profile)
    BY <1>3 DEF Sends
  <2>2. Handshake(Interface) /\ client.pc # "idle"
    BY <1>3 DEF Sends, IsBuilt
  <2>3. client.policy = "ZinchaTlsOnly" => Interface.type = "tls"
    BY <2>2 DEF SessionInv, PassedInSilence, Supports
  <2>4. Interface.type = "tls" => last'.server = last'.meant
    BY <2>1, <2>2, PinnedIsService DEF SessionInv
  <2>5. last'.issuer = ServiceOf(client.profile)
    BY <1>3, <2>1 DEF SessionInv, UsedAtIssuer
  <2> QED
    BY <1>0, <2>1, <2>3, <2>4, <2>5 DEF StaysWithService, TokenStaysWithIssuer
<1>4. ASSUME NEW c, NEW epoch, NEW id, Read(c, epoch, id)
      PROVE  StaysWithService' /\ TokenStaysWithIssuer'
  <2>1. last'.kind = "reading"
    BY <1>4 DEF Read
  <2> QED
    BY <2>1 DEF StaysWithService, TokenStaysWithIssuer
<1> QED
  BY <1>1, <1>2, <1>3, <1>4, LastSteps

-----------------------------------------------------------------------------
(* Messages. *)

\* What Submit leaves at the service is sealed for the participant.
LEMMA MailStep ==
    ASSUME SessionTypeOK, MailIsSealed, [Next]_vars
    PROVE  MailIsSealed'
<1>1. CASE UNCHANGED mail
  BY <1>1 DEF MailIsSealed
<1>2. ASSUME NEW r \in RecipientLists, Submit(r)
      PROVE  MailIsSealed'
  <2>1. PICK i \in DOMAIN state.ids : r = Recipients(state.ids[i])
    BY DEF RecipientLists, Recipients
  <2>2. state.ids[i] \in 1..MaxSessions
    <3>1. state.ids \in Seq(1..MaxSessions)
      BY DEF SessionTypeOK, StateType
    <3> QED
      BY <2>1, <3>1, SessionAssumption
  <2>3. RecipientsFit(Recipients(state.ids[i]))
    BY <1>2, <2>1 DEF Submit, EncryptE2EFits
  <2>4. mail' = {SignMessage("operational", state.token, 1, "participant",
                             Sealed(state.ids[i]), 1)}
    BY <1>2, <2>1 DEF Submit, Sealed
  <2>5. \A m \in mail' :
          m.conversation = 1 /\ m.epoch = 1 /\ m.payload = Sealed(state.ids[i])
    BY <2>4 DEF SignMessage
  <2> QED
    BY <2>2, <2>3, <2>5 DEF MailIsSealed
<1>3. UNCHANGED mail \/ \E r \in RecipientLists : Submit(r)
  BY DEF Next, vars, Publish, SwitchCertificate, Change, Move, Serve, Tick, Begin,
     ProbeMatches, ProbeDiffers, ProbeFails, DelegationInfo, IssueChallenge,
     CreateSession, Request, RevokeDelegation, Close, Read
<1> QED
  BY <1>1, <1>2, <1>3

\* The parts of the sealed message.
LEMMA SealedProperties ==
    ASSUME NEW id
    PROVE  /\ Sealed(id).encoding = "ciphertext" /\ Sealed(id).epoch = 1
           /\ Sealed(id).ephemeral = Ephemeral
           /\ Sealed(id).box
                = Seal(ContentKey, ContentAad(1, 1), Plaintext(Content))
           /\ DOMAIN Sealed(id).recipients = {1, 2}
           /\ Len(Sealed(id).recipients) = 2
           /\ Sealed(id).recipients[1].id = Peer.id
           /\ Sealed(id).recipients[2].id = id
           /\ Sealed(id).recipients[2].box
                = Seal(WrapKey(Shared(Ephemeral, Secret), 1, 1, id),
                       WrapAad(1, 1, id), ContentKey)
<1>1. DOMAIN Recipients(id) = {1, 2}
  BY DEF Recipients
<1>2. Recipients(id)[1] = Peer /\ Recipients(id)[2] = [id |-> id, public |-> Secret]
  BY DEF Recipients
<1> QED
  BY <1>1, <1>2 DEF Sealed, EncryptE2E

\* decrypt_e2e opens the sealed message under the participant's id, in the
\* conversation and the epoch it was sealed for, and nowhere else.
LEMMA DecryptSealed ==
    ASSUME NEW own \in 1..MaxSessions, RecipientsFit(Recipients(own)),
           NEW c, NEW epoch, NEW id \in 1..MaxSessions
    PROVE  (DecryptE2E(c, epoch, Sealed(own), id, Secret).content = Content)
             <=> (c = 1 /\ epoch = 1 /\ id = own)
<1> DEFINE p == Sealed(own)
           fits ==
               /\ p.encoding = "ciphertext"
               /\ p.epoch = epoch
               /\ RecipientsFit(p.recipients)
               /\ \E i \in DOMAIN p.recipients : p.recipients[i].id = id
               /\ p.ephemeral # 0
               /\ Opens(WrappedFor(p, id),
                        WrapKey(Shared(p.ephemeral, Secret), c, epoch, id),
                        WrapAad(c, epoch, id))
               /\ Opens(p.box, WrappedFor(p, id).content, ContentAad(c, epoch))
               /\ ValidatePlaintextPayload(p.box.content)
<1>0. Peer.id # id /\ Peer.id # own
  BY WorldAssumption
<1>1. DecryptE2E(c, epoch, p, id, Secret) = IF fits THEN p.box.content ELSE NoPlaintext
  BY DEF DecryptE2E
<1>2. /\ p.encoding = "ciphertext" /\ p.epoch = 1 /\ p.ephemeral = 2
      /\ p.box = Seal(ContentKey, ContentAad(1, 1), Plaintext(Content))
      /\ DOMAIN p.recipients = {1, 2} /\ Len(p.recipients) = 2
      /\ p.recipients[1].id = Peer.id /\ p.recipients[2].id = own
      /\ p.recipients[2].box = Seal(WrapKey(Shared(Ephemeral, Secret), 1, 1, own),
                                    WrapAad(1, 1, own), ContentKey)
  BY SealedProperties DEF Ephemeral
<1>3. /\ p.box.content.content = 4 /\ p.box.content.encoding = "plaintext"
      /\ p.box.key = ContentKey /\ p.box.aad = ContentAad(1, 1)
  BY <1>2 DEF Seal, Plaintext, Content
<1>4. NoPlaintext.content = 0
  BY DEF NoPlaintext, Plaintext, None
<1> HIDE DEF p
<1>5. ASSUME fits
      PROVE  c = 1 /\ epoch = 1 /\ id = own
  <2>1. epoch = 1 /\ id = own
    BY <1>0, <1>2, <1>5
  <2>2. ContentAad(1, 1) = ContentAad(c, epoch)
    BY <1>3, <1>5 DEF Opens
  <2>3. c = 1
    BY <2>2 DEF ContentAad, Aad
  <2> QED
    BY <2>1, <2>3
<1>6. ASSUME c = 1, epoch = 1, id = own
      PROVE  fits
  <2>1. RecipientsFit(p.recipients)
    <3>1. /\ Len(Recipients(own)) = 2 /\ DOMAIN Recipients(own) = {1, 2}
          /\ Recipients(own)[1].id = Peer.id /\ Recipients(own)[2].id = own
      BY DEF Recipients
    <3> QED
      BY <1>2, <3>1 DEF RecipientsFit
  <2>2. WrappedFor(p, id) = p.recipients[2].box
    <3>1. \A i \in DOMAIN p.recipients : p.recipients[i].id = id <=> i = 2
      BY <1>0, <1>2, <1>6
    <3>2. 2 \in DOMAIN p.recipients
      BY <1>2
    <3>3. (CHOOSE i \in DOMAIN p.recipients : p.recipients[i].id = id) = 2
      BY <3>1, <3>2
    <3> QED
      BY <3>3 DEF WrappedFor
  <2>3. /\ Opens(WrappedFor(p, id),
                 WrapKey(Shared(p.ephemeral, Secret), c, epoch, id),
                 WrapAad(c, epoch, id))
        /\ WrappedFor(p, id).content = ContentKey
    BY <1>2, <1>6, <2>2 DEF Seal, Opens, Ephemeral
  <2>4. Opens(p.box, WrappedFor(p, id).content, ContentAad(c, epoch))
    BY <1>3, <1>6, <2>3 DEF Opens
  <2>5. ValidatePlaintextPayload(p.box.content)
    BY <1>3 DEF ValidatePlaintextPayload, None
  <2> QED
    BY <1>2, <1>6, <2>1, <2>3, <2>4, <2>5
<1> HIDE DEF fits
<1>7. DecryptE2E(c, epoch, p, id, Secret).content = 4 <=> fits
  BY <1>1, <1>3, <1>4
<1> QED
  BY <1>5, <1>6, <1>7 DEF Content, p

\* A reading gives the content exactly where it belongs.
LEMMA ReadStep ==
    ASSUME SessionInv, [Next]_vars
    PROVE  ReadsWhatWasSent'
<1>1. CASE UNCHANGED <<last, mail>>
  BY <1>1 DEF SessionInv, ReadsWhatWasSent
<1>2. CASE last' = Nothing
  BY <1>2 DEF Nothing, ReadsWhatWasSent
<1>3. ASSUME NEW token \in BOOLEAN, Sends(token)
      PROVE  ReadsWhatWasSent'
  BY <1>3 DEF Sends, ReadsWhatWasSent
<1>4. ASSUME NEW c \in Conversations, NEW epoch \in Epochs,
             NEW id \in 1..MaxSessions, Read(c, epoch, id)
      PROVE  ReadsWhatWasSent'
  <2>1. PICK m \in mail :
          last' = [kind |-> "reading", conversation |-> c, epoch |-> epoch, id |-> id,
                   content |-> DecryptE2E(c, epoch, m.payload, id, Secret).content]
    BY <1>4 DEF Read
  <2>2. PICK own \in 1..MaxSessions :
          m.payload = Sealed(own) /\ RecipientsFit(Recipients(own))
    BY <2>1 DEF SessionInv, MailIsSealed
  <2>3. m.conversation = 1 /\ m.epoch = 1
    BY <2>1 DEF SessionInv, MailIsSealed
  <2>4. (\E i \in DOMAIN m.payload.recipients : m.payload.recipients[i].id = id)
          <=> id = own
    BY <2>2, SealedProperties, WorldAssumption
  <2>5. (last'.content = Content) <=> (c = 1 /\ epoch = 1 /\ id = own)
    BY <2>1, <2>2, DecryptSealed
  <2>6. last'.conversation = c /\ last'.epoch = epoch /\ last'.id = id
    BY <2>1
  <2>7. mail' = mail
    BY <1>4 DEF Read
  <2> QED
    BY <2>1, <2>3, <2>4, <2>5, <2>6, <2>7 DEF ReadsWhatWasSent
<1> QED
  BY <1>1, <1>2, <1>3, <1>4, LastSteps

-----------------------------------------------------------------------------
(* The theorems. *)

\* The invariant holds at first.
LEMMA SessionInvInit == Init => SessionInv
<1> SUFFICES ASSUME Init PROVE SessionInv
  OBVIOUS
<1>1. chain \in DOMAIN Profile
  BY SessionAssumption DEF Init
<1>2. ASSUME NEW s \in Services
      PROVE  live[s] \in DOMAIN Profile
  <2>1. CASE s = ServiceOf(chain)
    BY <1>1, <2>1 DEF Init
  <2>2. CASE s # ServiceOf(chain)
    <3>1. live[s] = CHOOSE p \in DOMAIN Profile : ServiceOf(p) = s
      BY <2>2 DEF Init
    <3>2. \E p \in DOMAIN Profile : ServiceOf(p) = s
      BY WorldAssumption DEF ServiceOf
    <3> QED
      BY <3>1, <3>2
  <2> QED
    BY <2>1, <2>2
<1>3. live \in [Services -> DOMAIN Profile]
  BY <1>2 DEF Init
<1>4. OwnCertificates
  BY DEF Init, OwnCertificates
<1>5. PICK policy \in Policies : client = NoClient(policy)
  BY DEF Init
<1>6. state \in StateType
  <2>1. <<>> \in Seq(1..MaxSessions)
    BY EmptySeq
  <2> QED
    BY <2>1 DEF Init, NoState, StateType
<1>7. SessionTypeOK
  BY <1>1, <1>3, <1>5, <1>6, NoClientType DEF Init, SessionTypeOK
<1>8. /\ client.pc = "idle" /\ ~client.use /\ client.errors = <<>>
  BY <1>5 DEF NoClient
<1>9. AtInterface /\ UsedAtIssuer /\ PassedInSilence
  BY <1>8 DEF AtInterface, UsedAtIssuer, PassedInSilence
<1>10. MailIsSealed
  BY DEF Init, MailIsSealed
<1>11. StaysWithService /\ TokenStaysWithIssuer /\ ReadsWhatWasSent
  BY DEF Init, Nothing, StaysWithService, TokenStaysWithIssuer, ReadsWhatWasSent
<1> QED
  BY <1>4, <1>7, <1>9, <1>10, <1>11 DEF SessionInv

\* SessionInv is an invariant of the specification.
THEOREM SessionInvHolds == Spec => []SessionInv
<1>1. SessionInv /\ [Next]_vars => SessionInv'
  <2> SUFFICES ASSUME SessionInv, [Next]_vars PROVE SessionInv'
    OBVIOUS
  <2>1. /\ SessionTypeOK /\ OwnCertificates /\ AtInterface /\ UsedAtIssuer
        /\ PassedInSilence /\ MailIsSealed
    BY DEF SessionInv
  <2>2. SessionTypeOK' /\ OwnCertificates' /\ AtInterface' /\ UsedAtIssuer'
    BY <2>1, SessionTypeStep, OwnCertificatesStep, AtInterfaceStep, UsedAtIssuerStep
  <2>3. PassedInSilence' /\ MailIsSealed'
    BY <2>1, PassedInSilenceStep, MailStep
  <2> QED
    BY <2>2, <2>3, RequestStep, ReadStep DEF SessionInv
<1> QED
  BY <1>1, SessionInvInit, PTL DEF Spec

\* Whatever providers, services and hosts do between two requests, credentials
\* and workflow data that go over a direct interface, or under ZinchaTlsOnly,
\* reach only the service of the profile the client was built from, although
\* everybody else may answer as that service would.
THEOREM RequestsStayWithService == Spec => []StaysWithService
<1>1. SessionInv => StaysWithService
  BY DEF SessionInv
<1> QED
  BY <1>1, SessionInvHolds, PTL

\* A bearer token is only ever sent with a profile of the service that issued it.
THEOREM TokensStayWithIssuer == Spec => []TokenStaysWithIssuer
<1>1. SessionInv => TokenStaysWithIssuer
  BY DEF SessionInv
<1> QED
  BY <1>1, SessionInvHolds, PTL

\* For every list of interfaces, from_profile ends at the first one the policy
\* supports, or under Auto behind supported ones that all stayed silent.
THEOREM SelectionPassesOnlySilence == Spec => []OnlySilencePassesOver
<1>1. SessionInv => OnlySilencePassesOver
  <2> SUFFICES ASSUME SessionInv, IsBuilt
               PROVE  /\ Supports(client.policy, Interface)
                      /\ Cardinality(Passed) = Len(client.errors)
                      /\ ToSet(client.errors) \subseteq Silent
                      /\ client.policy = "Auto" \/ Passed = {}
    BY DEF OnlySilencePassesOver, Passed
  <2>1. client.pc # "idle" /\ client.errors \in Seq(Silent)
    BY ClientFields DEF IsBuilt, SessionInv, SessionTypeOK
  <2>2. ToSet(client.errors) \subseteq Silent
    <3> DEFINE errors == client.errors
    <3>1. errors \in Seq(Silent)
      BY <2>1
    <3> HIDE DEF errors
    <3>2. \A i \in DOMAIN errors : errors[i] \in Silent
      BY <3>1
    <3> QED
      BY <3>2 DEF ToSet, errors
  <2> QED
    BY <2>1, <2>2 DEF SessionInv, PassedInSilence
<1> QED
  BY <1>1, SessionInvHolds, PTL

\* decrypt_e2e gives a message to the ids it was sealed for, in its own
\* conversation and epoch, and to nobody else.
THEOREM MessagesReadWhereSent == Spec => []ReadsWhatWasSent
<1>1. SessionInv => ReadsWhatWasSent
  BY DEF SessionInv
<1> QED
  BY <1>1, SessionInvHolds, PTL

=============================================================================
