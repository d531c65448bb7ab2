------------------------- MODULE SolomachineProofs -------------------------
(***************************************************************************)
(* The solo machine client, for any keys, paths and values: no signature   *)
(* is used twice, and only a double signature freezes the client.          *)
(***************************************************************************)
EXTENDS Solomachine, TLAPS

\* The type of the client state.
ClientStates ==
  [sequence : 1..MaxSequence, key : Keys, timestamp : 1..MaxTime, frozen : BOOLEAN]

\* Facts about what is signed.  A header, the only message that brings a new key,
\* carries one.
LEMMA MessageTypes ==
  ASSUME NEW message \in Messages
  PROVE  /\ message.sequence \in 1..MaxSequence /\ message.timestamp \in 1..MaxTime
         /\ message.form = "header" => message.data \in Keys
BY DEF Messages, SignBytes

\* The three ways to use up a sequence number in one: the message is signed for the
\* current sequence, and the sequence goes up by one.
LEMMA ProofStepEffect ==
  ASSUME TypeOK, NEW message \in signed, ProofStep(message)
  PROVE  /\ message.sequence = client.sequence /\ client.sequence < MaxSequence
         /\ ~client.frozen
         /\ \E key \in Keys : Consume(message, key)
<1>1. /\ VerifyLatest(message) /\ client.sequence < MaxSequence
      /\ \/ Consume(message, client.key)
         \/ message.form = "header" /\ Consume(message, message.data)
  BY DEF ProofStep, VerifyMembership, VerifyNonMembership, UpdateClient
<1>2. client.key \in Keys /\ (message.form = "header" => message.data \in Keys)
  BY MessageTypes DEF TypeOK
<1> QED
  BY <1>1, <1>2 DEF VerifyLatest, Active

\* What Consume does to the client and to what it accepted.
LEMMA ConsumeEffect ==
  ASSUME TypeOK, NEW message \in signed, NEW key \in Keys, Consume(message, key),
         client.sequence < MaxSequence
  PROVE  /\ client' \in ClientStates
         /\ client'.sequence = client.sequence + 1 /\ client'.frozen = client.frozen
         /\ accepted' \in Seq(signed) /\ Len(accepted') = Len(accepted) + 1
         /\ \A i \in 1..Len(accepted) : accepted'[i] = accepted[i]
         /\ accepted'[Len(accepted) + 1] = message
         /\ UNCHANGED signed
<1>1. client \in ClientStates /\ accepted \in Seq(signed) /\ message \in Messages
  BY DEF TypeOK, ClientStates
<1>2. message.timestamp \in 1..MaxTime /\ client.sequence + 1 \in 1..MaxSequence
  BY <1>1, MessageTypes, SolomachineAssumption DEF ClientStates
<1>3. /\ client' = [client EXCEPT !.sequence = client.sequence + 1, !.key = key,
                                  !.timestamp = message.timestamp]
      /\ accepted' = Append(accepted, message) /\ UNCHANGED signed
  BY DEF Consume
<1>4. /\ client' \in ClientStates
      /\ client'.sequence = client.sequence + 1 /\ client'.frozen = client.frozen
  BY <1>1, <1>2, <1>3 DEF ClientStates
<1> QED
  BY <1>1, <1>3, <1>4

\* The first sequence number and timestamp are within the bounds.
LEMMA InitTypeOK == Init => TypeOK
<1> SUFFICES ASSUME Init PROVE TypeOK
  OBVIOUS
<1>1. 1 \in 1..MaxSequence /\ 1 \in 1..MaxTime
  BY SolomachineAssumption
<1>2. client \in ClientStates /\ client.sequence = 1
  BY <1>1 DEF Init, ClientStates
<1>3. signed = {} /\ accepted = <<>>
  BY DEF Init
<1>4. Len(accepted) < client.sequence
  BY <1>2, <1>3
<1>5. accepted \in Seq(signed)
  BY <1>3
<1> QED
  BY <1>2, <1>3, <1>4, <1>5 DEF TypeOK, ClientStates

LEMMA NextTypeOK == TypeOK /\ [Next]_vars => TypeOK'
<1> SUFFICES ASSUME TypeOK, [Next]_vars PROVE TypeOK'
  OBVIOUS
<1> USE DEF ClientStates
<1>1. ASSUME NEW message \in Messages, Sign(message) PROVE TypeOK'
  <2>1. accepted \in Seq(signed \union {message})
    BY DEF TypeOK
  <2> QED
    BY <1>1, <2>1 DEF TypeOK, Sign
<1>2. ASSUME NEW message \in signed, ProofStep(message) PROVE TypeOK'
  <2>1. PICK key \in Keys : Consume(message, key) /\ client.sequence < MaxSequence
    BY <1>2, ProofStepEffect
  <2>2. Len(accepted) \in Nat /\ client.sequence \in Nat /\ Len(accepted) < client.sequence
    BY SolomachineAssumption DEF TypeOK
  <2> QED
    BY <2>1, <2>2, ConsumeEffect DEF TypeOK
<1>3. ASSUME NEW one, NEW two, SubmitMisbehaviour(one, two) PROVE TypeOK'
  BY <1>3 DEF SubmitMisbehaviour, TypeOK
<1>4. ASSUME NEW substitute \in [sequence : 1..MaxSequence, key : Keys,
                                 timestamp : 1..MaxTime, frozen : {FALSE}],
             ClientUpdateProposal(substitute)
      PROVE  TypeOK'
  <2>1. /\ client' = substitute /\ client.sequence < substitute.sequence
        /\ UNCHANGED <<signed, accepted>>
    BY <1>4 DEF ClientUpdateProposal
  <2>2. substitute \in ClientStates /\ substitute.sequence \in Nat
    <3>1. 1..MaxSequence \subseteq Nat
      BY SolomachineAssumption
    <3> QED
      BY <3>1
  <2>3. Len(accepted) \in Nat /\ client.sequence \in Nat /\ Len(accepted) < client.sequence
    BY SolomachineAssumption DEF TypeOK
  <2>4. Len(accepted) < substitute.sequence
    BY <2>1, <2>2, <2>3
  <2> QED
    BY <2>1, <2>2, <2>4 DEF TypeOK
<1>5. CASE UNCHANGED vars
  BY <1>5 DEF TypeOK, vars
<1> QED
  BY <1>1, <1>2, <1>3, <1>4, <1>5 DEF Next

\* The client and what it accepted keep their types; it never accepts more than it has
\* counted.
THEOREM SolomachineTypeCorrect == Spec => []TypeOK
BY InitTypeOK, NextTypeOK, PTL DEF Spec

-----------------------------------------------------------------------------
(* Replay. *)

\* The strengthening of NoReplay: what was accepted was signed for ever higher
\* sequence numbers, all below the one the client expects next.
SequencesUsed ==
  /\ \A i \in 1..Len(accepted) : accepted[i].sequence < client.sequence
  /\ \A i, j \in 1..Len(accepted) : i < j => accepted[i].sequence < accepted[j].sequence

LEMMA NextSequencesUsed == TypeOK /\ SequencesUsed /\ [Next]_vars => SequencesUsed'
<1> SUFFICES ASSUME TypeOK, SequencesUsed, [Next]_vars PROVE SequencesUsed'
  OBVIOUS
<1>1. /\ Len(accepted) \in Nat /\ client.sequence \in Nat
      /\ \A i \in 1..Len(accepted) : accepted[i].sequence \in Nat
  <2>1. \A message \in signed : message.sequence \in Nat
    BY MessageTypes, SolomachineAssumption DEF TypeOK
  <2> QED
    BY <2>1, SolomachineAssumption DEF TypeOK
<1>2. ASSUME NEW message \in signed, ProofStep(message) PROVE SequencesUsed'
  <2>1. PICK key \in Keys : /\ Consume(message, key) /\ client.sequence < MaxSequence
                            /\ message.sequence = client.sequence
    BY <1>2, ProofStepEffect
  <2>2. /\ client'.sequence = client.sequence + 1 /\ Len(accepted') = Len(accepted) + 1
        /\ \A i \in 1..Len(accepted) : accepted'[i] = accepted[i]
        /\ accepted'[Len(accepted) + 1] = message
    BY <2>1, ConsumeEffect
  <2>3. \A i \in 1..Len(accepted') : i \in 1..Len(accepted) \/ i = Len(accepted) + 1
    BY <1>1, <2>2
  <2>4. ASSUME NEW i \in 1..Len(accepted') PROVE accepted'[i].sequence < client'.sequence
    BY <1>1, <2>1, <2>2, <2>3 DEF SequencesUsed
  <2>5. ASSUME NEW i \in 1..Len(accepted'), NEW j \in 1..Len(accepted'), i < j
        PROVE  accepted'[i].sequence < accepted'[j].sequence
    <3>1. i \in 1..Len(accepted)
      BY <1>1, <2>2, <2>5
    <3> QED
      BY <1>1, <2>1, <2>2, <2>3, <2>5, <3>1 DEF SequencesUsed
  <2> QED
    BY <2>4, <2>5 DEF SequencesUsed
<1>3. ASSUME UNCHANGED accepted, client'.sequence \in Nat, client.sequence <= client'.sequence
      PROVE  SequencesUsed'
  BY <1>1, <1>3 DEF SequencesUsed
<1>4. ASSUME UNCHANGED accepted, client'.sequence = client.sequence PROVE SequencesUsed'
  BY <1>4 DEF SequencesUsed
<1>5. ASSUME NEW substitute \in [sequence : 1..MaxSequence, key : Keys,
                                 timestamp : 1..MaxTime, frozen : {FALSE}],
             ClientUpdateProposal(substitute)
      PROVE  SequencesUsed'
  <2>1. substitute.sequence \in Nat
    BY SolomachineAssumption
  <2> QED
    BY <1>1, <1>3, <1>5, <2>1 DEF ClientUpdateProposal
<1>6. ASSUME NEW one, NEW two, SubmitMisbehaviour(one, two) PROVE SequencesUsed'
  <2>1. client'.sequence = client.sequence /\ UNCHANGED accepted
    BY <1>6 DEF SubmitMisbehaviour, TypeOK
  <2> QED
    BY <1>4, <2>1
<1> QED
  BY <1>2, <1>4, <1>5, <1>6 DEF Next, Sign, vars

\* No signature is accepted twice, through changes of keys and through recoveries that
\* bring an earlier key back: a recovered client goes on at a higher sequence.
THEOREM NeverReplayed == Spec => []NoReplay
<1>1. Init => SequencesUsed
  BY DEF Init, SequencesUsed
<1>2. TypeOK /\ SequencesUsed => NoReplay
  <2> SUFFICES ASSUME TypeOK, SequencesUsed, NEW i \in DOMAIN accepted,
                      NEW j \in DOMAIN accepted, i # j
               PROVE  accepted[i] # accepted[j]
    BY DEF NoReplay
  <2>1. i \in 1..Len(accepted) /\ j \in 1..Len(accepted)
    BY DEF TypeOK
  <2>2. accepted[i].sequence \in Nat /\ accepted[j].sequence \in Nat
    BY <2>1, MessageTypes, SolomachineAssumption DEF TypeOK
  <2> QED
    BY <2>1, <2>2 DEF SequencesUsed
<1> QED
  BY <1>1, <1>2, InitTypeOK, NextTypeOK, NextSequencesUsed, PTL DEF Spec

-----------------------------------------------------------------------------
(* Freezing. *)

LEMMA NextFrozen ==
  TypeOK /\ FrozenByDoubleSignature /\ [Next]_vars => FrozenByDoubleSignature'
<1> SUFFICES ASSUME TypeOK, FrozenByDoubleSignature, [Next]_vars, client'.frozen
             PROVE  FrozenByDoubleSignature'
  BY DEF FrozenByDoubleSignature
<1>1. ASSUME UNCHANGED client, signed \subseteq signed' PROVE FrozenByDoubleSignature'
  BY <1>1 DEF FrozenByDoubleSignature
<1>2. ASSUME NEW message \in signed, ProofStep(message) PROVE FALSE
  BY <1>2, ProofStepEffect, ConsumeEffect
<1>3. ASSUME NEW one \in signed, NEW two \in signed, SubmitMisbehaviour(one, two)
      PROVE  FrozenByDoubleSignature'
  <2>1. /\ one.key = client.key /\ two.key = client.key /\ one.sequence = two.sequence
        /\ DifferentMessages(one, two) /\ UNCHANGED signed
    BY <1>3 DEF SubmitMisbehaviour, VerifyMisbehaviour, VerifySignatureAndData, VerifySignature
  <2>2. client'.key = client.key
    BY <1>3 DEF SubmitMisbehaviour, TypeOK
  <2> QED
    BY <2>1, <2>2 DEF FrozenByDoubleSignature, DifferentMessages
<1>4. ASSUME NEW substitute \in [sequence : 1..MaxSequence, key : Keys,
                                 timestamp : 1..MaxTime, frozen : {FALSE}],
             ClientUpdateProposal(substitute)
      PROVE  FALSE
  BY <1>4 DEF ClientUpdateProposal
<1> QED
  BY <1>1, <1>2, <1>3, <1>4 DEF Next, Sign, vars

\* The client is frozen only when its current key signed two different messages for one
\* sequence; a message signed again with another timestamp does not do it, and what an
\* earlier key signed neither.
THEOREM OnlyDoubleSignatureFreezes == Spec => []FrozenByDoubleSignature
<1>1. Init => FrozenByDoubleSignature
  BY DEF Init, FrozenByDoubleSignature
<1> QED
  BY <1>1, InitTypeOK, NextTypeOK, NextFrozen, PTL DEF Spec
=============================================================================
