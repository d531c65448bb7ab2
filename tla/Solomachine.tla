---------------------------- MODULE Solomachine -----------------------------
(***************************************************************************)
(* The solo machine client (light-clients/06-solomachine) of a chain.  The *)
(* other side is one machine, and what it signs is what it is held to.     *)
(* Each proof and each header the client accepts uses up a sequence        *)
(* number.  A key stands for a public key and a diversifier.               *)
(*                                                                         *)
(* What is signed names a path.  A proof is signed over the text of the    *)
(* path, "/ibc/...", a header over "solomachine:header", and evidence of   *)
(* misbehaviour must be over the protobuf encoding of a path.  None of the *)
(* three decodes as another.                                               *)
(***************************************************************************)
EXTENDS Integers, Sequences, FiniteSets

CONSTANTS
  Keys,           \* the machine's keys
  Paths,          \* paths proofs are about
  Values,         \* values stored under them
  MaxSequence,    \* bound on sequence numbers
  MaxTime,        \* bound on timestamps
  MaxSigned       \* bound on the messages the machine signs

ASSUME SolomachineAssumption ==
  {MaxSequence, MaxTime} \subseteq Nat \ {0} /\ MaxSigned \in Nat

Absent == "absent"

SignBytes(forms, paths, data) ==
  [key : Keys, sequence : 1..MaxSequence, timestamp : 1..MaxTime,
   form : forms, path : paths, data : data]

Messages ==
  SignBytes({"text", "encoded"}, Paths, Values \union {Absent})
    \union SignBytes({"header"}, {"solomachine:header"}, Keys)

VARIABLES
  client,         \* the client state, its consensus state included
  signed,         \* the messages the machine has signed
  accepted        \* the messages the client has accepted, in order

vars == <<client, signed, accepted>>

Init ==
  /\ client \in [sequence : {1}, key : Keys, timestamp : {1}, frozen : {FALSE}]
  /\ signed = {}
  /\ accepted = <<>>

\* The machine signs whatever it likes.
Sign(message) ==
  /\ signed' = signed \union {message}
  /\ UNCHANGED <<client, accepted>>

-----------------------------------------------------------------------------

Active == ~client.frozen

VerifySignature(message) == message \in signed /\ message.key = client.key

\* A signature of the current key at the current sequence, not older than the last.
VerifyLatest(message) ==
  /\ Active
  /\ message.sequence = client.sequence
  /\ client.timestamp <= message.timestamp
  /\ VerifySignature(message)

Consume(message, key) ==
  /\ client' = [client EXCEPT !.sequence = @ + 1, !.key = key, !.timestamp = message.timestamp]
  /\ accepted' = Append(accepted, message)
  /\ UNCHANGED signed

\* The height asked for is ignored: proofs are at the latest sequence.
VerifyMembership(message, path, value) ==
  /\ VerifyLatest(message)
  /\ message.form = "text" /\ message.path = path /\ message.data = value
  /\ Consume(message, client.key)

VerifyNonMembership(message, path) ==
  /\ VerifyLatest(message)
  /\ message.form = "text" /\ message.path = path /\ message.data = Absent
  /\ Consume(message, client.key)

\* verifyHeader and UpdateState.
UpdateClient(message) ==
  /\ VerifyLatest(message)
  /\ message.form = "header"
  /\ Consume(message, message.data)

\* Mutant of DifferentMessages: the signatures differ.
DifferentMessagesSigned(one, two) == one # two

\* ValidateBasic of the evidence.
DifferentMessages(one, two) ==
  ~(one.path = two.path /\ one.form = two.form /\ one.data = two.data)

\* verifySignatureAndData, at the evidence's sequence and with any timestamp.
VerifySignatureAndData(message, sequence) ==
  /\ message.form = "encoded" /\ message.data # Absent
  /\ message.sequence = sequence
  /\ VerifySignature(message)

VerifyMisbehaviour(one, two) ==
  /\ DifferentMessages(one, two)
  /\ VerifySignatureAndData(one, one.sequence)
  /\ VerifySignatureAndData(two, one.sequence)

SubmitMisbehaviour(one, two) ==
  /\ Active
  /\ VerifyMisbehaviour(one, two)
  /\ client' = [client EXCEPT !.frozen = TRUE]
  /\ UNCHANGED <<signed, accepted>>

\* Mutant of ClientUpdateProposal: the substitute's sequence may be lower.
ClientUpdateProposalAny(substitute) ==
  /\ client.frozen
  /\ substitute.key # client.key
  /\ client' = substitute
  /\ UNCHANGED <<signed, accepted>>

\* Governance replaces a frozen client's state by that of an active substitute.
ClientUpdateProposal(substitute) ==
  /\ client.frozen
  /\ client.sequence < substitute.sequence
  /\ substitute.key # client.key
  /\ client' = substitute
  /\ UNCHANGED <<signed, accepted>>

-----------------------------------------------------------------------------

ProofStep(message) ==
  /\ client.sequence < MaxSequence
  /\ \/ \E path \in Paths, value \in Values : VerifyMembership(message, path, value)
     \/ \E path \in Paths : VerifyNonMembership(message, path)
     \/ UpdateClient(message)

Next ==
  \/ Cardinality(signed) < MaxSigned /\ \E message \in Messages : Sign(message)
  \/ \E message \in signed : ProofStep(message)
  \/ \E one, two \in signed : SubmitMisbehaviour(one, two)
  \/ \E substitute \in [sequence : 1..MaxSequence, key : Keys, timestamp : 1..MaxTime,
                        frozen : {FALSE}] : ClientUpdateProposal(substitute)

Spec == Init /\ [][Next]_vars

-----------------------------------------------------------------------------
(* Properties. *)

TypeOK ==
  /\ client \in [sequence : 1..MaxSequence, key : Keys, timestamp : 1..MaxTime,
                 frozen : BOOLEAN]
  /\ signed \subseteq Messages
  /\ accepted \in Seq(signed)
  /\ Len(accepted) < client.sequence

\* A signature is used at most once, through changes of keys, and through a
\* governance proposal that brings an earlier key back.
NoReplay == \A i, j \in DOMAIN accepted : i # j => accepted[i] # accepted[j]

\* "Two different messages at a given sequence": a client gets frozen only when
\* its current key signed two different messages at one sequence.  A message that
\* was signed again with a later timestamp is no evidence.
FrozenByDoubleSignature ==
  client.frozen => \E one, two \in signed :
    /\ one.key = client.key /\ two.key = client.key
    /\ one.sequence = two.sequence
    /\ <<one.path, one.form, one.data>> # <<two.path, two.form, two.data>>
=============================================================================
