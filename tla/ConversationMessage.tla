------------------------ MODULE ConversationMessage ------------------------
(***************************************************************************)
(* Delegations, signed messages and the end-to-end envelope.  Cryptography *)
(* is symbolic: a box opens with the key and the associated data it was    *)
(* sealed with, a signature is the record it covers, and two parties share *)
(* the secret that is the set of their key pairs.  The module has no       *)
(* variables.                                                              *)
(*                                                                         *)
(* A key pair is a number; 0 stands for a public key that contributes      *)
(* nothing.  A content stands for the parts of a plaintext.                *)
(***************************************************************************)
EXTENDS Integers, Sequences, FiniteSets, SequencesExt

CONSTANTS
    MaxLifetime,    \* of a delegation, 31 days in the code
    MaxRecipients   \* of an envelope, 256 in the code

ASSUME MessageAssumption == {MaxLifetime, MaxRecipients} \subseteq Nat

None == 0

Capabilities == {"read", "write"}

DelegationFits(from, to, capabilities, encryptionKey) ==
    /\ from < to /\ to - from <= MaxLifetime
    /\ capabilities # <<>>
    /\ ToSet(capabilities) \subseteq Capabilities
    /\ Cardinality(ToSet(capabilities)) = Len(capabilities)
    /\ encryptionKey # 0

\* create_delegation: the account signs every field.
CreateDelegation(account, id, service, operational, encryption, from, to) ==
    LET d == [id |-> id, participant |-> account, service |-> service,
              signing |-> operational, encryption |-> encryption,
              from |-> from, to |-> to]
    IN  [body |-> d, signature |-> [by |-> account, over |-> d]]

Plaintext(content) == [encoding |-> "plaintext", content |-> content]
NoPlaintext == Plaintext(None)

ValidatePlaintextPayload(p) == p.encoding = "plaintext" /\ p.content # None

ValidateMessagePayload(p, epoch) ==
    \/ p.encoding = "plaintext" /\ epoch = None /\ ValidatePlaintextPayload(p)
    \/ p.encoding = "ciphertext" /\ epoch # None

\* sign_message: the signature covers where the message belongs, its key
\* epoch, the delegation that signs and the digest of the payload.
SignMessage(operational, delegation, conversation, sender, payload, epoch) ==
    [conversation |-> conversation, epoch |-> epoch, payload |-> payload,
     keyId |-> delegation,
     signature |-> [by |-> operational,
                    over |-> <<conversation, sender, epoch, delegation,
                               payload>>]]

-----------------------------------------------------------------------------
(* The envelope. *)

Seal(key, aad, content) == [key |-> key, aad |-> aad, content |-> content]
Opens(box, key, aad) == box.key = key /\ box.aad = aad

Shared(a, b) == {a, b}

\* What a box is bound to; the key that wraps is derived from it as well.
Aad(domain, conversation, epoch, id) == <<domain, conversation, epoch, id>>
ContentAad(conversation, epoch) == Aad("content", conversation, epoch, None)
WrapAad(conversation, epoch, id) == Aad("wrap", conversation, epoch, id)

WrapKey(shared, conversation, epoch, id) ==
    <<shared, conversation, WrapAad(conversation, epoch, id)>>

RecipientsFit(recipients) ==
    /\ Len(recipients) \in 1..MaxRecipients
    /\ \A i \in DOMAIN recipients : recipients[i].id # None
    /\ \A i, j \in DOMAIN recipients :
          recipients[i].id = recipients[j].id => i = j

EncryptE2EFits(plaintext, recipients) ==
    /\ ValidatePlaintextPayload(plaintext)
    /\ RecipientsFit(recipients)
    /\ \A i \in DOMAIN recipients : recipients[i].public # 0

\* The content under a fresh key, and that key wrapped for every recipient.
EncryptE2E(conversation, epoch, plaintext, recipients, ephemeral, contentKey) ==
    [encoding |-> "ciphertext", epoch |-> epoch, ephemeral |-> ephemeral,
     box |-> Seal(contentKey, ContentAad(conversation, epoch), plaintext),
     recipients |->
        [i \in DOMAIN recipients |->
            LET r == recipients[i]
            IN  [id |-> r.id,
                 box |-> Seal(WrapKey(Shared(ephemeral, r.public),
                                      conversation, epoch, r.id),
                              WrapAad(conversation, epoch, r.id),
                              contentKey)]]]

\* Mutant of WrappedFor: the key of the first recipient is taken.
WrappedForFirst(payload, id) == payload.recipients[1].box

\* The key that is wrapped for a recipient of the envelope.
WrappedFor(payload, id) ==
    payload.recipients[CHOOSE i \in DOMAIN payload.recipients :
                            payload.recipients[i].id = id].box

\* The plaintext, or NoPlaintext for an error.
DecryptE2E(conversation, epoch, payload, id, secret) ==
    IF /\ payload.encoding = "ciphertext"
       /\ payload.epoch = epoch
       /\ RecipientsFit(payload.recipients)
       /\ \E i \in DOMAIN payload.recipients : payload.recipients[i].id = id
       /\ payload.ephemeral # 0
       /\ Opens(WrappedFor(payload, id),
                WrapKey(Shared(payload.ephemeral, secret),
                        conversation, epoch, id),
                WrapAad(conversation, epoch, id))
       /\ Opens(payload.box, WrappedFor(payload, id).content,
                ContentAad(conversation, epoch))
       /\ ValidatePlaintextPayload(payload.box.content)
    THEN payload.box.content
    ELSE NoPlaintext
=============================================================================
