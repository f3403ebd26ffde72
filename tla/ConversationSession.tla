------------------------ MODULE ConversationSession ------------------------
(***************************************************************************)
(* A participant of a conversation and the service behind it.  A provider  *)
(* publishes a profile on the chain, and may rotate the certificate of the *)
(* service or move to another service at any time; the hosts it names may  *)
(* be silent or come to belong to another service.  The participant builds *)
(* a client from the profile it reads, trying the interfaces in order, and *)
(* only then opens a session, sends and reads.  Every request is a step,   *)
(* and everything else may happen between two of them.                     *)
(*                                                                         *)
(* The network and the services are external.  A direct interface is       *)
(* answered by whoever holds the address, with the certificate it has.     *)
(* Whoever holds the name of an HTTPS interface has a Web-PKI certificate  *)
(* for it.  A service tells the truth about itself; anybody else answers   *)
(* as it likes, with the public profile of the service if it wants to.     *)
(***************************************************************************)
EXTENDS ConversationProfile, ConversationMessage

CONSTANTS
    Services,       \* conversation services
    Hosts,          \* addresses and names that profiles advertise
    FirstProfiles,  \* the one that is published and served at first
    Certs,          \* the certificates each service has
    Conversations,  \* conversations; 1 is the participant's
    Epochs,         \* key epochs; 1 is the current one
    Peer,           \* a recipient besides the participant
    MaxChanges,     \* how often providers, services and hosts change
    MaxTime,        \* how far time passes
    MaxSessions     \* how many sessions are opened

ASSUME SessionAssumption ==
    /\ \A p \in DOMAIN Profile : Profile[p].service \in Services
    /\ FirstProfiles \subseteq DOMAIN Profile
    /\ Peer \in [id : Nat, public : Nat]
    /\ Certs \in [Services -> SUBSET DOMAIN Validity]
    /\ {MaxChanges, MaxTime, MaxSessions} \subseteq Nat
    /\ 1 \in Conversations /\ 1 \in Epochs

\* Every service has a profile, profiles name hosts of the network, nobody else
\* has a certificate that a service pins, and ids are drawn so that two
\* participants never have the same one.
ASSUME WorldAssumption ==
    /\ \A s \in Services : \E p \in DOMAIN Profile : Profile[p].service = s
    /\ \A p \in DOMAIN Profile :
          Interfaces(p) \in
              Seq([type : {"https", "tls"}, host : Hosts,
                   pins : Seq([cert : DOMAIN Validity, from : Nat, to : Nat])])
    /\ \A p \in DOMAIN Profile : \A i \in DOMAIN Interfaces(p) :
          \A k \in DOMAIN Interfaces(p)[i].pins :
              \A s \in Services \ {Profile[p].service} :
                  Interfaces(p)[i].pins[k].cert \notin Certs[s]
    /\ Peer.id \notin 1..MaxSessions

VARIABLES
    now,       \* the time
    chain,     \* the profile in the agent metadata
    live,      \* the profile each service answers with for itself
    cert,      \* the certificate each service has
    holder,    \* who is behind each host
    changes,   \* how often the world has changed
    client,    \* the ConversationClient being built or used
    state,     \* what the participant keeps between two clients
    mail,      \* messages at the service
    last       \* the last request of a client, or the last message it read

worldVars == <<now, chain, live, cert, holder, changes>>
vars == <<now, chain, live, cert, holder, changes, client, state, mail, last>>

Nobody == "nobody"
NoClient(policy) ==
    [pc |-> "idle", policy |-> policy, use |-> FALSE,
     profile |-> 0, at |-> 0, errors |-> <<>>]
NoState == [service |-> Nobody, token |-> 0, expires |-> 0, ids |-> <<>>]
Nothing == [kind |-> "nothing"]

\* The key pair for encryption stays the same from one session to the next;
\* an envelope has a key pair and a content key of its own.
Secret == 1
Ephemeral == 2
ContentKey == 3
Content == 4

ServiceOf(p) == Profile[p].service

Init ==
    /\ now = 1
    /\ chain \in FirstProfiles
    /\ live = [s \in Services |->
                IF s = ServiceOf(chain) THEN chain
                ELSE CHOOSE p \in DOMAIN Profile : ServiceOf(p) = s]
    /\ cert \in {c \in [Services -> DOMAIN Validity] :
                    \A s \in Services : c[s] \in Certs[s]}
    /\ holder \in [Hosts -> Services \cup {Nobody}]
    /\ changes = 0
    /\ \E policy \in Policies : client = NoClient(policy)
    /\ state = NoState
    /\ mail = {} /\ last = Nothing

-----------------------------------------------------------------------------
(* The provider, the services and the network. *)

Change ==
    /\ changes < MaxChanges
    /\ changes' = changes + 1
    /\ UNCHANGED <<now, client, state, mail, last>>

Publish(p) ==
    /\ Change
    /\ chain # p
    /\ chain' = p
    /\ UNCHANGED <<live, cert, holder>>

\* The service answers with the profile that is published for it.
Serve ==
    /\ live[ServiceOf(chain)] # chain
    /\ live' = [live EXCEPT ![ServiceOf(chain)] = chain]
    /\ UNCHANGED <<now, chain, cert, holder, changes, client, state, mail,
                   last>>

SwitchCertificate(s, c) ==
    /\ Change
    /\ c \in Certs[s] \ {cert[s]}
    /\ cert' = [cert EXCEPT ![s] = c]
    /\ UNCHANGED <<chain, live, holder>>

Move(h, who) ==
    /\ Change
    /\ holder[h] # who
    /\ holder' = [holder EXCEPT ![h] = who]
    /\ UNCHANGED <<chain, live, cert>>

Tick ==
    /\ now < MaxTime
    /\ now' = now + 1
    /\ UNCHANGED <<chain, live, cert, holder, changes, client, state, mail,
                   last>>

\* Whether a server that answers at an interface is let through the handshake.
Handshake(interface) ==
    /\ holder[interface.host] # Nobody
    /\ interface.type = "tls" =>
          VerifyServerCert(interface.pins, cert[holder[interface.host]], now)

\* The errors a request at an interface can meet.  A server that is there can
\* still time out, break off, or answer with an error.
Failures(interface) ==
    IF holder[interface.host] = Nobody THEN Silent
    ELSE IF Handshake(interface) THEN Errors \ {"tls", "dns", "refused"}
    ELSE {"tls", "timeout"}

Interface == Interfaces(client.profile)[client.at]
IsBuilt == client.pc \in {"connected", "informed", "challenged"}

\* Behind the interface is the service that the profile names.
IsService == holder[Interface.host] = ServiceOf(client.profile)

\* What the server behind the interface may answer with.
Answers(own, any) == IF IsService THEN {own} ELSE any

-----------------------------------------------------------------------------
(* from_profile *)

\* Mutant of IsIssuer: the service of the stored session is not compared.
IsIssuerUnchecked(p) == TRUE

\* authenticated_client compares the service with that of the delegation.
IsIssuer(p) == ServiceOf(p) = state.service

\* The profile is read from the chain.  A stored session is used until it
\* expires, and only with the service that its delegation names.
Begin(use) ==
    /\ client.pc = "idle"
    /\ chain \in ValidProfiles
    /\ use => state.token # 0 /\ now < state.expires /\ IsIssuer(chain)
    /\ NextInterface(chain, client.policy, 0) # 0
    /\ client' = [client EXCEPT !.pc = "probe", !.use = use,
                                !.profile = chain,
                                !.at = NextInterface(chain, client.policy, 0)]
    /\ last' = Nothing
    /\ UNCHANGED <<worldVars, state, mail>>

\* The client is given up, by an error or at the end of a command.
GiveUp == client' = NoClient(client.policy)

\* The profiles that GET /v1/profile may be answered with.
LiveProfiles ==
    Answers(live[ServiceOf(client.profile)], DOMAIN Profile)

\* It is answered with the profile that is expected.
ProbeMatches ==
    /\ client.pc = "probe"
    /\ Handshake(Interface)
    /\ \E p \in LiveProfiles :
          VerifyConversationServiceProfile(client.profile, p)
    /\ client' = [client EXCEPT !.pc = "connected"]
    /\ last' = Nothing
    /\ UNCHANGED <<worldVars, state, mail>>

ProbeDiffers ==
    /\ client.pc = "probe"
    /\ Handshake(Interface)
    /\ \E p \in LiveProfiles :
          ~VerifyConversationServiceProfile(client.profile, p)
    /\ GiveUp
    /\ last' = Nothing
    /\ UNCHANGED <<worldVars, state, mail>>

MayAdvance(policy, error) == policy = "Auto" /\ IsReachabilityError(error)

\* An error: the next interface, if that is allowed and there is one.
ProbeFails(error) ==
    /\ client.pc = "probe"
    /\ error \in Failures(Interface)
    /\ LET next == NextInterface(client.profile, client.policy, client.at)
       IN  IF MayAdvance(client.policy, error) /\ next # 0
           THEN client' = [client EXCEPT !.at = next,
                                         !.errors = Append(@, error)]
           ELSE GiveUp
    /\ last' = Nothing
    /\ UNCHANGED <<worldVars, state, mail>>

-----------------------------------------------------------------------------
(* Requests of a client that is built. *)

\* json and empty: the request reaches the server behind the interface, with
\* the bearer token of a session or without one.
Sends(token) ==
    /\ Handshake(Interface)
    /\ last' = [kind |-> "request", type |-> Interface.type,
                server |-> holder[Interface.host],
                meant |-> ServiceOf(client.profile),
                issuer |-> IF token THEN state.service
                           ELSE ServiceOf(client.profile)]

\* delegation_info, which has to name the service of the profile; another
\* answer ends the command (Close).
DelegationInfo ==
    /\ client.pc = "connected" /\ ~client.use
    /\ Sends(FALSE)
    /\ \E named \in Answers(ServiceOf(client.profile), Services) :
          named = ServiceOf(client.profile)
    /\ client' = [client EXCEPT !.pc = "informed"]
    /\ UNCHANGED <<worldVars, state, mail>>

IssueChallenge ==
    /\ client.pc = "informed"
    /\ Sends(FALSE)
    /\ client' = [client EXCEPT !.pc = "challenged"]
    /\ UNCHANGED <<worldVars, state, mail>>

\* A delegation for this service and the signed challenge give a session,
\* which lasts as long as the delegation.
CreateSession ==
    /\ client.pc = "challenged"
    /\ Len(state.ids) < MaxSessions
    /\ DelegationFits(now, now + 1, <<"read", "write">>, Secret)
    /\ LET d == CreateDelegation("participant", Len(state.ids) + 1,
                                 ServiceOf(client.profile), "operational",
                                 Secret, now, now + 1)
       IN  state' = [service |-> d.body.service, token |-> d.body.id,
                     expires |-> d.body.to,
                     ids |-> Append(state.ids, d.body.id)]
    /\ Sends(FALSE)
    /\ client' = [client EXCEPT !.pc = "connected", !.use = TRUE]
    /\ UNCHANGED <<worldVars, mail>>

\* The participant's own key under one of its ids, after that of a peer.
RecipientLists ==
    {<<Peer, [id |-> state.ids[i], public |-> Secret]>> :
        i \in DOMAIN state.ids}

\* submit: the message is encrypted, signed and stored by the service.
Submit(recipients) ==
    /\ client.pc = "connected" /\ client.use
    /\ mail = {}
    /\ Sends(TRUE)
    /\ EncryptE2EFits(Plaintext(Content), recipients)
    /\ LET p == EncryptE2E(1, 1, Plaintext(Content), recipients,
                           Ephemeral, ContentKey)
       IN  /\ ValidateMessagePayload(p, 1)
           /\ mail' = {SignMessage("operational", state.token, 1,
                                   "participant", p, 1)}
    /\ UNCHANGED <<worldVars, client, state>>

\* The other requests: resolve, conversation, messages, acknowledge, events.
Request ==
    /\ client.pc = "connected" /\ client.use
    /\ Sends(TRUE)
    /\ UNCHANGED <<worldVars, client, state, mail>>

RevokeDelegation ==
    /\ client.pc = "connected" /\ client.use
    /\ Sends(TRUE)
    /\ state' = [state EXCEPT !.token = 0]
    /\ GiveUp
    /\ UNCHANGED <<worldVars, mail>>

\* A request fails, or the command is over.
Close ==
    /\ IsBuilt
    /\ GiveUp
    /\ last' = Nothing
    /\ UNCHANGED <<worldVars, state, mail>>

\* A message is decrypted with an id the participant has held, as a message
\* of the conversation and epoch that its record names; the record can name
\* another one than the message was sent in.
Read(conversation, epoch, id) ==
    /\ client.pc = "idle"
    /\ id \in ToSet(state.ids)
    /\ \E m \in mail :
          last' = [kind |-> "reading", conversation |-> conversation,
                   epoch |-> epoch, id |-> id,
                   content |-> DecryptE2E(conversation, epoch, m.payload,
                                          id, Secret).content]
    /\ UNCHANGED <<worldVars, client, state, mail>>

-----------------------------------------------------------------------------

Next ==
    \/ \E p \in DOMAIN Profile : Publish(p)
    \/ Serve
    \/ \E s \in Services : \E c \in Certs[s] : SwitchCertificate(s, c)
    \/ \E h \in Hosts, who \in Services \cup {Nobody} : Move(h, who)
    \/ Tick
    \/ \E use \in BOOLEAN : Begin(use)
    \/ ProbeMatches \/ ProbeDiffers
    \/ \E error \in Errors : ProbeFails(error)
    \/ DelegationInfo \/ IssueChallenge \/ CreateSession
    \/ \E r \in RecipientLists : Submit(r)
    \/ Request \/ RevokeDelegation \/ Close
    \/ \E c \in Conversations, epoch \in Epochs, id \in 1..MaxSessions :
          Read(c, epoch, id)

Spec == Init /\ [][Next]_vars

\* The participant tries again after every error, a service comes to serve what
\* is published, and what is asked of a service is not lost for ever.
Fairness ==
    /\ WF_vars(Serve)
    /\ WF_vars(Begin(FALSE))
    /\ SF_vars(ProbeMatches /\ IsService)
    /\ WF_vars(ProbeDiffers \/ (\E error \in Errors : ProbeFails(error)) \/ Close)

FairSpec == Spec /\ Fairness

-----------------------------------------------------------------------------
(* Properties. *)

\* Credentials and workflow data stay with the service that the profile names
\* wherever certificates are pinned: over a direct interface, and under
\* ZinchaTlsOnly at all times, nobody else ever gets a request, whoever comes
\* to hold the address and whatever certificates are rotated after the client
\* was built.  Nothing of the kind can be said of HTTPS: there the comparison
\* with the live profile shows that a profile is served, not who serves it, and
\* a request goes to whoever holds the name.
StaysWithService ==
    /\ last.kind = "request"
    /\ last.type = "tls" \/ client.policy = "ZinchaTlsOnly"
    => last.server = last.meant

\* A bearer token goes with a profile of the service that issued it: a stored
\* session is not sent to the service that a provider has moved to.
TokenStaysWithIssuer ==
    last.kind = "request" => last.issuer = last.meant

\* A client works with the first interface its policy allows, or, under Auto
\* only, with one before which all the others stayed silent: a server that
\* answered, with a wrong certificate, an error or another profile, ends the
\* selection.
OnlySilencePassesOver ==
    IsBuilt =>
        LET passed == {i \in 1..client.at - 1 :
                          Supports(client.policy,
                                   Interfaces(client.profile)[i])}
        IN  /\ Supports(client.policy, Interface)
            /\ Cardinality(passed) = Len(client.errors)
            /\ ToSet(client.errors) \subseteq Silent
            /\ client.policy = "Auto" \/ passed = {}

\* decrypt_e2e gives the content of a message exactly to the ids it was
\* encrypted for, in the conversation and the epoch it was sent in: renewals
\* take nothing away, and a record that names something else gives nothing.
ReadsWhatWasSent ==
    last.kind = "reading" =>
        \E m \in mail :
            (last.content = Content) <=>
                /\ last.conversation = m.conversation
                /\ last.epoch = m.epoch
                /\ \E i \in DOMAIN m.payload.recipients :
                      m.payload.recipients[i].id = last.id

\* Everything is in place: the service serves the published profile, and the
\* first host that is not silent is its own, with a certificate that is pinned.
Settled ==
    /\ client.policy = "Auto"
    /\ VerifyConversationServiceProfile(chain, live[ServiceOf(chain)])
    /\ \E i \in DOMAIN Interfaces(chain) :
          /\ holder[Interfaces(chain)[i].host] = ServiceOf(chain)
          /\ Handshake(Interfaces(chain)[i])
          /\ \A j \in 1..i - 1 : holder[Interfaces(chain)[j].host] = Nobody

\* Once that is so for good, the participant gets through to the service again
\* and again.
EventuallyConnected ==
    <>[]Settled => []<>(client.pc = "connected" /\ IsService)
=============================================================================
