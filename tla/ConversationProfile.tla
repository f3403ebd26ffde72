------------------------ MODULE ConversationProfile ------------------------
(***************************************************************************)
(* What a client checks before it trusts a conversation service: the       *)
(* profile in the agent metadata on the chain, the certificate pins of its *)
(* direct interfaces, the profile the live service answers with, and which *)
(* errors of a request let it try the next interface.  The module has no   *)
(* variables.                                                              *)
(*                                                                         *)
(* A certificate is a number; Validity is the period it was issued for.    *)
(* A profile is a number too: two profiles are the same when their numbers *)
(* are, and Profile tells what a profile says.                             *)
(* Limits on the length and the spelling of names are left out.            *)
(***************************************************************************)
EXTENDS Integers, Sequences, FiniteSets, SequencesExt

CONSTANTS
    Validity,       \* the validity of every certificate
    Profile,        \* the contents of every profile
    Skew,           \* CLOCK_SKEW_MS
    MaxInterfaces,  \* 4 in the code
    MaxPins         \* 2 in the code: the active and the next certificate

ASSUME ProfileAssumption ==
    /\ \A c \in DOMAIN Validity : Validity[c] \in [from : Nat, to : Nat]
    /\ \A p, q \in DOMAIN Profile : Profile[p] = Profile[q] => p = q
    /\ {Skew, MaxInterfaces, MaxPins} \subseteq Nat

Policies == {"Auto", "HttpsOnly", "ZinchaTlsOnly"}

\* TlsCertificatePin of a certificate, with the validity that is advertised.
Pin(c, validity) == [cert |-> c, from |-> validity.from, to |-> validity.to]

\* ConversationInterface.
Https(host) == [type |-> "https", host |-> host, pins |-> <<>>]
ZinchaTlsV1(host, pins) == [type |-> "tls", host |-> host, pins |-> pins]

PinsFit(pins) ==
    /\ Len(pins) \in 1..MaxPins
    /\ \A i \in DOMAIN pins : pins[i].from < pins[i].to
    /\ \A i, j \in DOMAIN pins : pins[i].cert = pins[j].cert => i = j

Interfaces(p) == Profile[p].interfaces

\* Every reader and every writer of a profile validates it.
ValidateConversationProfile(p) ==
    LET at == Interfaces(p)
    IN  /\ Len(at) \in 1..MaxInterfaces
        /\ \A i \in DOMAIN at : at[i].type = "tls" => PinsFit(at[i].pins)
        /\ \A i, j \in DOMAIN at :
              at[i].type = at[j].type /\ at[i].host = at[j].host => i = j

ValidProfiles == {p \in DOMAIN Profile : ValidateConversationProfile(p)}

VerifyConversationServiceProfile(advertised, live) ==
    /\ {advertised, live} \subseteq ValidProfiles
    /\ advertised = live

\* Mutant of VerifyServerCert: any certificate in its period will do.
VerifyServerCertAny(pins, c, now) ==
    \E i \in DOMAIN pins : now \in pins[i].from..pins[i].to

\* PinnedCertificateVerifier: the leaf is pinned, the pin is in its period
\* up to the clock skew, and the period is that of the certificate.
VerifyServerCert(pins, c, now) ==
    \E i \in DOMAIN pins :
        /\ pins[i].cert = c
        /\ now + Skew >= pins[i].from
        /\ now - Skew <= pins[i].to
        /\ pins[i].from = Validity[c].from
        /\ pins[i].to = Validity[c].to

Supports(policy, interface) ==
    \/ interface.type = "https" /\ policy # "ZinchaTlsOnly"
    \/ interface.type = "tls" /\ policy # "HttpsOnly"

\* How a request fails: before anybody answers, in the handshake, or with an
\* answer that is cut off, not a success, too large or not to be decoded.
Silent == {"dns", "refused", "timeout"}
Errors == Silent \cup {"tls", "reset", "status", "oversized", "undecodable"}

\* Mutant of IsReachabilityError: tls_failure is not looked at.
IsReachabilityErrorOrTls(error) == error \in Silent \cup {"tls"}

\* Mutant of IsReachabilityError: the source chain is not searched for the
\* errors of DNS and of the connection.
IsReachabilityErrorTimeout(error) == error = "timeout"

IsReachabilityError(error) == error \in Silent

\* from_profile tries the interfaces in order: the first one behind at that
\* the policy allows, or 0.
NextInterface(p, policy, at) ==
    LET usable == {i \in DOMAIN Interfaces(p) :
                      i > at /\ Supports(policy, Interfaces(p)[i])}
    IN  IF usable = {} THEN 0
        ELSE CHOOSE i \in usable : \A j \in usable : i <= j
=============================================================================
