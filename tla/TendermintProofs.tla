------------------------- MODULE TendermintProofs ---------------------------
(***************************************************************************)
(* What light clients promise, whatever headers are signed: their stores   *)
(* are consistent and nothing in them is replaced, proofs at one height    *)
(* agree, a frozen client stays frozen until it is recovered, times stay   *)
(* in order, and the client of an honest chain is never frozen.            *)
(***************************************************************************)
EXTENDS TendermintClient, WellFoundedInduction, TLAPS

\* Zenon checks most of the leaves; those that calculate cite SMT.
USE ZenonT(40)

-----------------------------------------------------------------------------
(* The stores: their types and consistency, what is kept and where it comes from. *)

\* What Write does to every height of every client (setConsensusState,
\* setConsensusMetadata and the deletions of pruning).
LEMMA WriteEffect ==
  ASSUME TypeOK, NEW c \in Clients,
         NEW deleted \in SUBSET Heights, NEW installed \in SUBSET Heights,
         NEW state, NEW meta, Write(c, deleted, installed, state, meta)
  PROVE  /\ \A d \in Clients : d # c =>
              /\ consensusState'[d] = consensusState[d]
              /\ processed'[d] = processed[d]
              /\ iterationKeys'[d] = iterationKeys[d]
         /\ iterationKeys'[c] = (iterationKeys[c] \ deleted) \cup installed
         /\ \A h \in Heights :
              /\ consensusState'[c][h] =
                   IF h \in installed THEN state
                   ELSE IF h \in deleted THEN None ELSE consensusState[c][h]
              /\ processed'[c][h] =
                   IF h \in installed THEN meta
                   ELSE IF h \in deleted THEN None ELSE processed[c][h]
BY DEF TypeOK, Write

\* A write of a consensus state with its metadata keeps the types of the store.
LEMMA WriteType ==
  ASSUME TypeOK, NEW c \in Clients,
         NEW deleted \in SUBSET Heights, NEW installed \in SUBSET Heights,
         NEW state \in ConsensusStates, NEW meta \in Metadata,
         Write(c, deleted, installed, state, meta)
  PROVE  /\ consensusState' \in [Clients -> [Heights -> ConsensusStates \cup {None}]]
         /\ processed' \in [Clients -> [Heights -> Metadata \cup {None}]]
         /\ iterationKeys' \in [Clients -> SUBSET Heights]
BY DEF TypeOK, Write
\* What is stored when a header arrives is of the right types.
LEMMA HeaderTypes ==
  ASSUME NEW header \in SignedHeaders
  PROVE  /\ header.height \in Heights /\ header.time \in Nat
         /\ ConsensusStateOf(header) \in ConsensusStates
BY ClientConstants DEF Headers, ConsensusStateOf, ConsensusStates

\* The same of the client state and the consensus state of an upgrade plan.
LEMMA PlanTypes ==
  ASSUME NEW plan \in Upgrades
  PROVE  /\ plan.latest \in Heights /\ plan.unbonding \in Nat
         /\ UpgradedConsensusState(plan) \in ConsensusStates
BY ClientConstants DEF UpgradePlans, ConsensusStates, UpgradedConsensusState

\* A client state with a higher latest height, or frozen, is a client state.
LEMMA ClientStateChange ==
  ASSUME NEW cs \in ClientStates, NEW h \in Heights
  PROVE  /\ [cs EXCEPT !.latest = IF h > @ THEN h ELSE @] \in ClientStates
         /\ [cs EXCEPT !.frozen = TRUE] \in ClientStates
BY DEF ClientStates

\* The initial state has its types.
LEMMA InitTypeOK == Init => TypeOK
BY SMTT(30) DEF Init, TypeOK

\* CreateClient keeps the types.
LEMMA CreateClientType ==
  ASSUME TypeOK, NEW c \in Clients, NEW header \in SignedHeaders,
         NEW t \in TrustingPeriods[c], NEW u \in UnbondingPeriods, CreateClient(c, header, t, u)
  PROVE  TypeOK'
<1> DEFINE cs == [chain |-> Revision[header.height], latest |-> header.height,
                  frozen |-> FALSE, trusting |-> t, unbonding |-> u]
<1>1. cs \in ClientStates
  BY HeaderTypes, ClientConstants DEF ClientStates
<1>2. SelfMetadata \in Metadata
  BY DEF TypeOK, SelfMetadata, Metadata
<1>3. Write(c, {}, {header.height}, ConsensusStateOf(header), SelfMetadata)
  BY DEF CreateClient
<1>4. clientState' = [clientState EXCEPT ![c] = cs]
  BY DEF CreateClient
<1> HIDE DEF cs
<1>5. clientState' \in [Clients -> ClientStates \cup {None}]
  BY <1>1, <1>4 DEF TypeOK
<1> QED
  BY <1>2, <1>3, <1>5, HeaderTypes, WriteType DEF TypeOK, CreateClient

\* UpdateClient keeps the types, whether it stores the header or freezes the client.
LEMMA UpdateClientType ==
  ASSUME TypeOK, NEW c \in Clients, NEW header \in SignedHeaders, UpdateClient(c, header)
  PROVE  TypeOK'
<1>1. clientState[c] \in ClientStates
  BY DEF UpdateClient, Active, Created, TypeOK
<1>2. CASE Freeze(c)
  <2>1. clientState' = [clientState EXCEPT ![c] = [clientState[c] EXCEPT !.frozen = TRUE]]
    BY <1>2 DEF Freeze, TypeOK
  <2> QED
    BY <1>1, <1>2, <2>1, ClientStateChange, HeaderTypes DEF TypeOK, UpdateClient, Freeze
<1>3. CASE UpdateState(c, header)
  <2> DEFINE pruned == PruneHeights(c)
             found == consensusState[c][header.height] # None /\ header.height \notin pruned
             installed == IF found THEN {} ELSE {header.height}
             cs == [clientState[c] EXCEPT !.latest =
                      IF ~found /\ header.height > @ THEN header.height ELSE @]
  <2>1. /\ clientState' = [clientState EXCEPT ![c] = cs]
        /\ Write(c, pruned, installed, ConsensusStateOf(header), SelfMetadata)
    BY <1>3 DEF UpdateState
  <2>2. pruned \in SUBSET Heights /\ installed \in SUBSET Heights
    BY HeaderTypes DEF PruneHeights, TypeOK
  <2>3. cs \in ClientStates
    BY <1>1, HeaderTypes DEF ClientStates
  <2>4. SelfMetadata \in Metadata
    BY DEF TypeOK, SelfMetadata, Metadata
  <2> HIDE DEF cs, pruned, installed
  <2>5. clientState' \in [Clients -> ClientStates \cup {None}]
    BY <2>1, <2>3 DEF TypeOK
  <2> QED
    BY <2>1, <2>2, <2>4, <2>5, HeaderTypes, WriteType DEF TypeOK, UpdateClient
<1> QED
  BY <1>2, <1>3 DEF UpdateClient

\* Misbehaviour keeps the types.
LEMMA MisbehaviourType ==
  ASSUME TypeOK, NEW c \in Clients, NEW header1 \in SignedHeaders,
         NEW header2 \in SignedHeaders, SubmitMisbehaviour(c, header1, header2)
  PROVE  TypeOK'
<1>1. clientState[c] \in ClientStates
  BY DEF SubmitMisbehaviour, Active, Created, TypeOK
<1>2. clientState' = [clientState EXCEPT ![c] = [clientState[c] EXCEPT !.frozen = TRUE]]
  BY DEF SubmitMisbehaviour, Freeze, TypeOK
<1> QED
  BY <1>1, <1>2, ClientStateChange, HeaderTypes DEF TypeOK, SubmitMisbehaviour, Freeze

\* UpgradeClient keeps the types.
LEMMA UpgradeClientType ==
  ASSUME TypeOK, NEW c \in Clients, NEW plan \in Upgrades, UpgradeClient(c, plan)
  PROVE  TypeOK'
<1> DEFINE cs == [chain |-> Revision[plan.latest], latest |-> plan.latest, frozen |-> FALSE,
                  trusting |-> clientState[c].trusting, unbonding |-> plan.unbonding]
           state == UpgradedConsensusState(plan)
<1>1. clientState[c] \in ClientStates
  BY DEF UpgradeClient, Active, Created, TypeOK
<1>2. cs \in ClientStates
  BY <1>1, PlanTypes, ClientConstants DEF ClientStates
<1>3. SelfMetadata \in Metadata /\ state \in ConsensusStates
  BY PlanTypes DEF TypeOK, SelfMetadata, Metadata
<1>4. /\ clientState' = [clientState EXCEPT ![c] = cs]
      /\ Write(c, {}, {plan.latest}, state, SelfMetadata)
  BY DEF UpgradeClient
<1> HIDE DEF cs, state
<1>5. clientState' \in [Clients -> ClientStates \cup {None}]
  BY <1>2, <1>4 DEF TypeOK
<1>6. /\ consensusState' \in [Clients -> [Heights -> ConsensusStates \cup {None}]]
      /\ processed' \in [Clients -> [Heights -> Metadata \cup {None}]]
      /\ iterationKeys' \in [Clients -> SUBSET Heights]
  BY <1>3, <1>4, PlanTypes, WriteType
<1>7. UNCHANGED <<now, height, proofs>>
  BY DEF UpgradeClient
<1> QED
  BY <1>5, <1>6, <1>7 DEF TypeOK

\* The latest consensus state of an active client is there.
LEMMA ActiveStored ==
  ASSUME TypeOK, NEW c \in Clients, Created(c), Status(c) = "Active"
  PROVE  /\ clientState[c] \in ClientStates
         /\ clientState[c].latest \in Heights
         /\ consensusState[c][clientState[c].latest] \in ConsensusStates
BY DEF TypeOK, Created, Status, ClientStates

\* A recovery keeps the types.
LEMMA ClientUpdateProposalType ==
  ASSUME TypeOK, NEW c \in Clients, NEW d \in Clients, ClientUpdateProposal(c, d)
  PROVE  TypeOK'
<1> DEFINE sub == clientState[d]
           cs == [chain |-> sub.chain, latest |-> sub.latest, frozen |-> FALSE,
                  trusting |-> sub.trusting, unbonding |-> clientState[c].unbonding]
<1>1. /\ sub \in ClientStates /\ clientState[c] \in ClientStates
      /\ sub.latest \in Heights
      /\ consensusState[d][sub.latest] \in ConsensusStates
  BY ActiveStored DEF ClientUpdateProposal, MaySubstitute, Created, TypeOK
<1>2. cs \in ClientStates
  BY <1>1 DEF ClientStates
<1>3. processed[d][sub.latest] \in Metadata
  BY <1>1, SMTT(30) DEF ClientUpdateProposal, TypeOK
<1>4. /\ clientState' = [clientState EXCEPT ![c] = cs]
      /\ Write(c, {}, {sub.latest}, consensusState[d][sub.latest], processed[d][sub.latest])
  BY DEF ClientUpdateProposal
<1> HIDE DEF cs, sub
<1>5. clientState' \in [Clients -> ClientStates \cup {None}]
  BY <1>2, <1>4 DEF TypeOK
<1> QED
  BY <1>1, <1>3, <1>4, <1>5, WriteType DEF TypeOK, ClientUpdateProposal

\* The migration keeps the types.
LEMMA PruneExpiredType ==
  ASSUME TypeOK, PruneExpiredConsensusStates
  PROVE  TypeOK'
<1> DEFINE expired == [c \in Clients |-> IF Created(c) THEN ExpiredHeights(c) ELSE {}]
<1>1. /\ consensusState' = [c \in Clients |-> [h \in Heights |->
           IF h \in expired[c] THEN None ELSE consensusState[c][h]]]
      /\ processed' = [c \in Clients |-> [h \in Heights |->
           IF h \in expired[c] THEN None ELSE processed[c][h]]]
      /\ iterationKeys' = [c \in Clients |-> iterationKeys[c] \ expired[c]]
      /\ UNCHANGED <<now, height, clientState, proofs>>
  BY DEF PruneExpiredConsensusStates
<1> HIDE DEF expired
<1> QED
  BY <1>1 DEF TypeOK

\* Accepting a proof keeps the types; nothing is proved of the sentinel root.
LEMMA VerifyMembershipType ==
  ASSUME TypeOK, NEW c \in Clients, NEW h \in Heights, NEW delay,
         VerifyMembership(c, h, delay)
  PROVE  TypeOK'
<1>1. consensusState[c][h] \in ConsensusStates
  BY SMTT(30) DEF VerifyMembership, TypeOK
<1>2. consensusState[c][h].root \in Roots
  BY <1>1 DEF VerifyMembership, ConsensusStates
<1> QED
  BY <1>2, SMTT(30) DEF VerifyMembership, TypeOK

\* Every step of the specification keeps the types.
LEMMA NextTypeOK == TypeOK /\ [Next]_vars => TypeOK'
<1> SUFFICES ASSUME TypeOK, [Next]_vars PROVE TypeOK'
  OBVIOUS
<1>1. CASE NextBlock
  BY <1>1, ClientConstants, SMTT(30) DEF NextBlock, TypeOK
<1>2. CASE PruneExpiredConsensusStates
  BY <1>2, PruneExpiredType
<1>3. ASSUME NEW c \in Clients, ClientStep(c) PROVE TypeOK'
  BY <1>3, CreateClientType, UpdateClientType, MisbehaviourType, UpgradeClientType,
     ClientUpdateProposalType, VerifyMembershipType DEF ClientStep
<1>4. CASE UNCHANGED vars
  BY <1>4 DEF vars, TypeOK
<1> QED
  BY <1>1, <1>2, <1>3, <1>4 DEF Next

\* The light clients keep their types for any headers, periods and bounds; in
\* particular no proof is ever accepted against the root of an upgrade.
THEOREM ClientTypeCorrect == Spec => []TypeOK
BY InitTypeOK, NextTypeOK, PTL DEF Spec

-----------------------------------------------------------------------------
(* The store of a client is consistent. *)

\* Heights are numbers.
LEMMA HeightsAreNumbers == \A h \in Heights : h \in Nat
BY ClientConstants

\* A step that leaves the client states and the stores alone keeps them consistent.
LEMMA QuietClientStep ==
  ASSUME StoreConsistent,
         UNCHANGED <<clientState, consensusState, processed, iterationKeys>>
  PROVE  StoreConsistent'
BY DEF StoreConsistent, Stored, Created

\* A write keeps the store of a client consistent if the new latest height is neither
\* below the old one nor below a height that is stored.
LEMMA WriteConsistent ==
  ASSUME TypeOK, StoreConsistent, NEW c \in Clients,
         NEW deleted \in SUBSET Heights, NEW installed \in SUBSET Heights,
         NEW state \in ConsensusStates, NEW meta \in Metadata,
         Write(c, deleted, installed, state, meta),
         NEW cs \in ClientStates, clientState' = [clientState EXCEPT ![c] = cs],
         Revision[cs.latest] = cs.chain,
         \A h \in installed : h <= cs.latest,
         Created(c) => clientState[c].latest <= cs.latest
  PROVE  StoreConsistent'
<1>1. ASSUME NEW d \in Clients, d # c
      PROVE  /\ iterationKeys[d]' = Stored(d)'
             /\ \A h \in Heights : processed[d][h]' # None <=> h \in Stored(d)'
             /\ Stored(d)' # {} => Created(d)'
             /\ Created(d)' => /\ Revision[clientState[d].latest]' = clientState[d].chain'
                               /\ \A h \in Stored(d)' : h <= clientState[d].latest'
  <2>1. /\ consensusState'[d] = consensusState[d]
        /\ processed'[d] = processed[d]
        /\ iterationKeys'[d] = iterationKeys[d]
    BY <1>1, WriteEffect, SMTT(30)
  <2>2. clientState'[d] = clientState[d]
    BY <1>1 DEF TypeOK
  <2> QED
    BY <2>1, <2>2, SMTT(30) DEF StoreConsistent, Stored, Created
<1>2. clientState'[c] = cs /\ cs # None /\ state # None /\ meta # None
  BY ClientConstants DEF TypeOK
<1>3. Stored(c)' = (Stored(c) \ deleted) \cup installed
  BY <1>2, WriteEffect, SMTT(30) DEF Stored
<1>4. iterationKeys[c]' = Stored(c)'
  BY <1>3, WriteEffect DEF StoreConsistent
<1>5. \A h \in Heights : processed[c][h]' # None <=> h \in Stored(c)'
  <2> SUFFICES ASSUME NEW h \in Heights
               PROVE  processed'[c][h] # None <=> h \in Stored(c)'
    OBVIOUS
  <2>1. processed'[c][h] = IF h \in installed THEN meta
                           ELSE IF h \in deleted THEN None ELSE processed[c][h]
    BY WriteEffect, SMTT(30)
  <2>2. processed[c][h] # None <=> h \in Stored(c)
    BY DEF StoreConsistent
  <2> QED
    BY <1>2, <1>3, <2>1, <2>2
<1>6. \A h \in Stored(c)' : h <= cs.latest
  <2> SUFFICES ASSUME NEW h \in Stored(c), h \notin installed PROVE h <= cs.latest
    BY <1>3
  <2>1. Created(c) /\ h <= clientState[c].latest
    BY DEF StoreConsistent
  <2>2. h \in Nat /\ clientState[c].latest \in Nat /\ cs.latest \in Nat
    BY <2>1, ClientConstants DEF Stored, Created, TypeOK, ClientStates
  <2> QED
    BY <2>1, <2>2, SMTT(30)
<1>7. Created(c)'
  BY <1>2 DEF Created
<1> QED
  BY <1>1, <1>2, <1>4, <1>5, <1>6, <1>7 DEF StoreConsistent

\* CreateClient stores at the latest height of a client that had nothing stored.
LEMMA CreateClientConsistent ==
  ASSUME TypeOK, StoreConsistent, NEW c \in Clients, NEW header \in SignedHeaders,
         NEW t \in TrustingPeriods[c], NEW u \in UnbondingPeriods, CreateClient(c, header, t, u)
  PROVE  StoreConsistent'
<1> DEFINE cs == [chain |-> Revision[header.height], latest |-> header.height,
                  frozen |-> FALSE, trusting |-> t, unbonding |-> u]
<1>1. cs \in ClientStates /\ cs.latest = header.height /\ cs.chain = Revision[header.height]
  BY HeaderTypes, ClientConstants DEF ClientStates
<1>2. SelfMetadata \in Metadata
  BY DEF TypeOK, SelfMetadata, Metadata
<1>3. /\ Write(c, {}, {header.height}, ConsensusStateOf(header), SelfMetadata)
      /\ clientState' = [clientState EXCEPT ![c] = cs]
      /\ ~Created(c)
  BY DEF CreateClient
<1> HIDE DEF cs
<1>4. \A h \in {header.height} : h <= cs.latest
  <2>1. header.height \in Nat
    BY HeaderTypes, HeightsAreNumbers
  <2> QED
    BY <1>1, <2>1, SMTT(30)
<1>5. {header.height} \in SUBSET Heights /\ {} \in SUBSET Heights
  BY HeaderTypes
<1> QED
  BY <1>1, <1>2, <1>3, <1>4, <1>5, HeaderTypes, WriteConsistent

\* A header that is verified is above a stored height, so that the oldest height,
\* which may be pruned, is not the one it is stored at.
LEMMA VerifiedAboveOldest ==
  ASSUME TypeOK, StoreConsistent, NEW c \in Clients, NEW header \in SignedHeaders,
         verifyHeader(c, header)
  PROVE  header.height \notin PruneHeights(c) /\ Revision[header.height] = clientState[c].chain
<1>1. PICK g \in Heights :
        /\ consensusState[c][g] # None /\ g < header.height
        /\ Revision[header.height] = clientState[c].chain
  BY DEF verifyHeader, LightVerify
<1>2. g \in iterationKeys[c]
  BY <1>1 DEF StoreConsistent, Stored
<1>3. ASSUME header.height \in PruneHeights(c) PROVE FALSE
  <2>1. header.height <= g
    BY <1>2, <1>3 DEF PruneHeights
  <2>2. header.height \in Nat /\ g \in Nat
    BY HeaderTypes, HeightsAreNumbers
  <2> QED
    BY <1>1, <2>1, <2>2, SMTT(30)
<1> QED
  BY <1>1, <1>3

\* Freezing a client changes no height.
LEMMA FreezeConsistent ==
  ASSUME TypeOK, StoreConsistent, NEW c \in Clients, Created(c), Freeze(c)
  PROVE  StoreConsistent'
<1> DEFINE cs == [clientState[c] EXCEPT !.frozen = TRUE]
<1>1. /\ clientState' = [clientState EXCEPT ![c] = cs]
      /\ UNCHANGED <<consensusState, processed, iterationKeys>>
  BY DEF Freeze
<1>2. clientState[c] \in ClientStates
  BY DEF Created, TypeOK
<1>3. cs \in ClientStates /\ cs.latest = clientState[c].latest /\ cs.chain = clientState[c].chain
  BY <1>2 DEF ClientStates
<1>4. cs # None
  BY <1>3, ClientConstants
<1> HIDE DEF cs
<1>5. \A d \in Clients : clientState'[d] = IF d = c THEN cs ELSE clientState[d]
  BY <1>1 DEF TypeOK
<1>6. \A d \in Clients :
        /\ Created(d)' <=> Created(d)
        /\ Created(d) => clientState'[d].latest = clientState[d].latest
                         /\ clientState'[d].chain = clientState[d].chain
  BY <1>3, <1>4, <1>5 DEF Created
<1>7. \A d \in Clients : Stored(d)' = Stored(d)
  BY <1>1 DEF Stored
<1> QED
  BY <1>1, <1>6, <1>7 DEF StoreConsistent

\* UpdateState raises the latest height to the one it stores.
LEMMA UpdateClientConsistent ==
  ASSUME TypeOK, StoreConsistent, NEW c \in Clients, NEW header \in SignedHeaders,
         UpdateClient(c, header)
  PROVE  StoreConsistent'
<1>1. /\ clientState[c] \in ClientStates /\ Created(c)
      /\ Revision[clientState[c].latest] = clientState[c].chain
  BY DEF UpdateClient, Active, Created, TypeOK, StoreConsistent
<1>2. CASE Freeze(c)
  BY <1>1, <1>2, FreezeConsistent
<1>3. CASE UpdateState(c, header)
  <2> DEFINE pruned == PruneHeights(c)
             found == consensusState[c][header.height] # None /\ header.height \notin pruned
             installed == IF found THEN {} ELSE {header.height}
             cs == [clientState[c] EXCEPT !.latest =
                      IF ~found /\ header.height > @ THEN header.height ELSE @]
  <2>1. /\ clientState' = [clientState EXCEPT ![c] = cs]
        /\ Write(c, pruned, installed, ConsensusStateOf(header), SelfMetadata)
    BY <1>3 DEF UpdateState
  <2>2. pruned \in SUBSET Heights /\ installed \in SUBSET Heights
    BY HeaderTypes DEF PruneHeights, TypeOK
  <2>3. /\ cs \in ClientStates
        /\ cs.chain = clientState[c].chain
        /\ cs.latest = IF ~found /\ header.height > clientState[c].latest
                       THEN header.height ELSE clientState[c].latest
    BY <1>1, HeaderTypes DEF ClientStates
  <2>4. SelfMetadata \in Metadata
    BY DEF TypeOK, SelfMetadata, Metadata
  <2>5. Revision[header.height] = clientState[c].chain
    BY VerifiedAboveOldest DEF UpdateClient
  <2>6. header.height \in Nat /\ clientState[c].latest \in Nat
    BY <1>1, HeaderTypes, ClientConstants DEF ClientStates
  <2>7. Revision[cs.latest] = cs.chain
    BY <1>1, <2>3, <2>5
  <2>8. (\A h \in installed : h <= cs.latest) /\ clientState[c].latest <= cs.latest
    BY <2>3, <2>6, SMTT(30)
  <2> HIDE DEF cs, pruned, installed
  <2> QED
    BY <2>1, <2>2, <2>3, <2>4, <2>7, <2>8, HeaderTypes, WriteConsistent
<1> QED
  BY <1>2, <1>3 DEF UpdateClient
\* Misbehaviour changes no height.
LEMMA MisbehaviourConsistent ==
  ASSUME TypeOK, StoreConsistent, NEW c \in Clients, NEW header1 \in SignedHeaders,
         NEW header2 \in SignedHeaders, SubmitMisbehaviour(c, header1, header2)
  PROVE  StoreConsistent'
BY FreezeConsistent DEF SubmitMisbehaviour, Active

\* UpgradeClient stores at the new latest height, above the old one.
LEMMA UpgradeClientConsistent ==
  ASSUME TypeOK, StoreConsistent, NEW c \in Clients, NEW plan \in Upgrades,
         UpgradeClient(c, plan)
  PROVE  StoreConsistent'
<1> DEFINE cs == [chain |-> Revision[plan.latest], latest |-> plan.latest, frozen |-> FALSE,
                  trusting |-> clientState[c].trusting, unbonding |-> plan.unbonding]
           state == UpgradedConsensusState(plan)
<1>1. clientState[c] \in ClientStates
  BY DEF UpgradeClient, Active, Created, TypeOK
<1>2. cs \in ClientStates /\ cs.latest = plan.latest /\ cs.chain = Revision[plan.latest]
  BY <1>1, PlanTypes, ClientConstants DEF ClientStates
<1>3. SelfMetadata \in Metadata /\ state \in ConsensusStates
  BY PlanTypes DEF TypeOK, SelfMetadata, Metadata
<1>4. /\ clientState' = [clientState EXCEPT ![c] = cs]
      /\ Write(c, {}, {plan.latest}, state, SelfMetadata)
      /\ plan.latest > clientState[c].latest
  BY DEF UpgradeClient
<1> HIDE DEF cs, state
<1>5. plan.latest \in Nat /\ clientState[c].latest \in Nat
  BY <1>1, PlanTypes, HeightsAreNumbers DEF ClientStates
<1>6. (\A h \in {plan.latest} : h <= cs.latest) /\ clientState[c].latest <= cs.latest
  BY <1>2, <1>4, <1>5, SMTT(30)
<1>7. {plan.latest} \in SUBSET Heights /\ {} \in SUBSET Heights
  BY PlanTypes
<1> QED
  BY <1>2, <1>3, <1>4, <1>6, <1>7, WriteConsistent

\* A recovery stores at the latest height of the substitute, above that of the subject.
LEMMA ClientUpdateProposalConsistent ==
  ASSUME TypeOK, StoreConsistent, NEW c \in Clients, NEW d \in Clients,
         ClientUpdateProposal(c, d)
  PROVE  StoreConsistent'
<1> DEFINE sub == clientState[d]
           cs == [chain |-> sub.chain, latest |-> sub.latest, frozen |-> FALSE,
                  trusting |-> sub.trusting, unbonding |-> clientState[c].unbonding]
<1>1. /\ sub \in ClientStates /\ clientState[c] \in ClientStates
      /\ sub.latest \in Heights
      /\ consensusState[d][sub.latest] \in ConsensusStates
      /\ Revision[sub.latest] = sub.chain
  BY ActiveStored DEF ClientUpdateProposal, MaySubstitute, Created, TypeOK, StoreConsistent
<1>2. cs \in ClientStates /\ cs.latest = sub.latest /\ cs.chain = sub.chain
  BY <1>1 DEF ClientStates
<1>3. processed[d][sub.latest] \in Metadata
  BY <1>1, SMTT(30) DEF ClientUpdateProposal, TypeOK
<1>4. /\ clientState' = [clientState EXCEPT ![c] = cs]
      /\ Write(c, {}, {sub.latest}, consensusState[d][sub.latest], processed[d][sub.latest])
      /\ clientState[c].latest < sub.latest
  BY DEF ClientUpdateProposal, MaySubstitute
<1>5. sub.latest \in Nat /\ clientState[c].latest \in Nat
  BY <1>1, HeightsAreNumbers DEF ClientStates
<1> HIDE DEF cs, sub
<1>6. (\A h \in {sub.latest} : h <= cs.latest) /\ clientState[c].latest <= cs.latest
  BY <1>2, <1>4, <1>5, SMTT(30)
<1>7. {sub.latest} \in SUBSET Heights /\ {} \in SUBSET Heights
  BY <1>1
<1> QED
  BY <1>1, <1>2, <1>3, <1>4, <1>6, <1>7, WriteConsistent

\* The migration deletes all the keys of a height, or none.
LEMMA PruneExpiredConsistent ==
  ASSUME TypeOK, StoreConsistent, PruneExpiredConsensusStates
  PROVE  StoreConsistent'
<1> DEFINE expired == [c \in Clients |-> IF Created(c) THEN ExpiredHeights(c) ELSE {}]
<1>1. /\ consensusState' = [c \in Clients |-> [h \in Heights |->
           IF h \in expired[c] THEN None ELSE consensusState[c][h]]]
      /\ processed' = [c \in Clients |-> [h \in Heights |->
           IF h \in expired[c] THEN None ELSE processed[c][h]]]
      /\ iterationKeys' = [c \in Clients |-> iterationKeys[c] \ expired[c]]
      /\ UNCHANGED clientState
  BY DEF PruneExpiredConsensusStates
<1> HIDE DEF expired
<1>2. \A c \in Clients : Stored(c)' = Stored(c) \ expired[c]
  BY <1>1 DEF Stored
<1>3. \A c \in Clients, h \in Heights : processed'[c][h] # None <=> h \in Stored(c)'
  BY <1>1, <1>2 DEF StoreConsistent
<1> QED
  BY <1>1, <1>2, <1>3 DEF StoreConsistent, Created

\* Every step keeps the stores consistent.
LEMMA NextStoreConsistent == TypeOK /\ StoreConsistent /\ [Next]_vars => StoreConsistent'
<1> SUFFICES ASSUME TypeOK, StoreConsistent, [Next]_vars PROVE StoreConsistent'
  OBVIOUS
<1>1. CASE NextBlock
  BY <1>1, QuietClientStep DEF NextBlock
<1>2. CASE PruneExpiredConsensusStates
  BY <1>2, PruneExpiredConsistent
<1>3. ASSUME NEW c \in Clients, ClientStep(c) PROVE StoreConsistent'
  <2>1. ASSUME NEW h \in Heights, NEW delay \in DelayPeriods, VerifyMembership(c, h, delay)
        PROVE  StoreConsistent'
    BY <2>1, QuietClientStep DEF VerifyMembership
  <2> QED
    BY <1>3, <2>1, CreateClientConsistent, UpdateClientConsistent, MisbehaviourConsistent,
       UpgradeClientConsistent, ClientUpdateProposalConsistent DEF ClientStep
<1>4. CASE UNCHANGED vars
  BY <1>4, QuietClientStep DEF vars
<1> QED
  BY <1>1, <1>2, <1>3, <1>4 DEF Next

\* The keys of every client's store belong together, whatever headers, upgrades,
\* recoveries and migrations it has seen: pruning never panics.
THEOREM StoreAlwaysConsistent == Spec => []StoreConsistent
<1>1. Init => StoreConsistent
  BY SMTT(30) DEF Init, StoreConsistent, Stored, Created
<1> QED
  BY <1>1, InitTypeOK, NextTypeOK, NextStoreConsistent, PTL DEF Spec
\* A write over heights that are not stored keeps what is.
LEMMA WriteKeepsStored ==
  ASSUME TypeOK, NEW c \in Clients,
         NEW deleted \in SUBSET Heights, NEW installed \in SUBSET Heights,
         NEW state, NEW meta, Write(c, deleted, installed, state, meta),
         \A h \in installed : consensusState[c][h] = None
  PROVE  KeepsStored
<1> SUFFICES ASSUME NEW d \in Clients, NEW h \in Heights,
                    consensusState[d][h] # None, consensusState'[d][h] # None
             PROVE  /\ consensusState'[d][h] = consensusState[d][h]
                    /\ processed'[d][h] = processed[d][h]
  BY DEF KeepsStored
<1>1. CASE d # c
  BY <1>1, WriteEffect, SMTT(30)
<1>2. CASE d = c
  BY <1>2, WriteEffect, SMTT(30)
<1> QED
  BY <1>1, <1>2

\* Nothing is stored above the latest height.
LEMMA NothingAbove ==
  ASSUME TypeOK, StoreConsistent, NEW c \in Clients, Created(c),
         NEW h \in Heights, h > clientState[c].latest
  PROVE  consensusState[c][h] = None
<1>1. h \in Nat /\ clientState[c].latest \in Nat
  BY HeightsAreNumbers DEF Created, TypeOK, ClientStates
<1> QED
  BY <1>1, SMTT(30) DEF StoreConsistent, Stored

\* No step replaces what is stored.
LEMMA NextKeepsStored == TypeOK /\ StoreConsistent /\ [Next]_vars => [KeepsStored]_vars
<1> SUFFICES ASSUME TypeOK, StoreConsistent, Next PROVE KeepsStored
  OBVIOUS
<1>1. ASSUME UNCHANGED <<consensusState, processed>> PROVE KeepsStored
  BY <1>1 DEF KeepsStored
<1>2. CASE PruneExpiredConsensusStates
  <2> DEFINE expired == [c \in Clients |-> IF Created(c) THEN ExpiredHeights(c) ELSE {}]
  <2>1. /\ consensusState' = [c \in Clients |-> [h \in Heights |->
             IF h \in expired[c] THEN None ELSE consensusState[c][h]]]
        /\ processed' = [c \in Clients |-> [h \in Heights |->
             IF h \in expired[c] THEN None ELSE processed[c][h]]]
    BY <1>2 DEF PruneExpiredConsensusStates
  <2> HIDE DEF expired
  <2> QED
    BY <2>1 DEF KeepsStored
<1>3. ASSUME NEW c \in Clients, ClientStep(c) PROVE KeepsStored
  <2>1. ASSUME NEW header \in SignedHeaders, NEW t, NEW u, CreateClient(c, header, t, u)
        PROVE  KeepsStored
    <3>1. ~Created(c) /\ Write(c, {}, {header.height}, ConsensusStateOf(header), SelfMetadata)
      BY <2>1 DEF CreateClient
    <3>2. \A h \in {header.height} : consensusState[c][h] = None
      BY <3>1, HeaderTypes DEF StoreConsistent, Stored
    <3>3. {header.height} \in SUBSET Heights /\ {} \in SUBSET Heights
      BY HeaderTypes
    <3> QED
      BY <3>1, <3>2, <3>3, WriteKeepsStored
  <2>2. ASSUME NEW header \in SignedHeaders, UpdateClient(c, header) PROVE KeepsStored
    <3>1. CASE Freeze(c)
      BY <1>1, <3>1 DEF Freeze
    <3>2. CASE UpdateState(c, header)
      <4> DEFINE pruned == PruneHeights(c)
                 found == /\ consensusState[c][header.height] # None
                          /\ header.height \notin pruned
                 installed == IF found THEN {} ELSE {header.height}
      <4>1. Write(c, pruned, installed, ConsensusStateOf(header), SelfMetadata)
        BY <3>2 DEF UpdateState
      <4>2. pruned \in SUBSET Heights /\ installed \in SUBSET Heights
        BY HeaderTypes DEF PruneHeights, TypeOK
      <4>3. \A h \in installed : consensusState[c][h] = None
        BY <2>2, VerifiedAboveOldest DEF UpdateClient
      <4> HIDE DEF pruned, installed
      <4> QED
        BY <4>1, <4>2, <4>3, WriteKeepsStored
    <3> QED
      BY <2>2, <3>1, <3>2 DEF UpdateClient
  <2>3. ASSUME NEW plan \in Upgrades, UpgradeClient(c, plan) PROVE KeepsStored
    <3>1. /\ Created(c) /\ plan.latest > clientState[c].latest
          /\ Write(c, {}, {plan.latest}, UpgradedConsensusState(plan), SelfMetadata)
      BY <2>3 DEF UpgradeClient, Active
    <3>2. \A h \in {plan.latest} : consensusState[c][h] = None
      BY <3>1, PlanTypes, NothingAbove
    <3>3. {plan.latest} \in SUBSET Heights /\ {} \in SUBSET Heights
      BY PlanTypes
    <3> QED
      BY <3>1, <3>2, <3>3, WriteKeepsStored
  <2>4. ASSUME NEW d \in Clients, ClientUpdateProposal(c, d) PROVE KeepsStored
    <3> DEFINE latest == clientState[d].latest
    <3>1. /\ Created(c) /\ clientState[c].latest < latest
          /\ Created(d) /\ Status(d) = "Active"
          /\ Write(c, {}, {latest}, consensusState[d][latest], processed[d][latest])
      BY <2>4 DEF ClientUpdateProposal, MaySubstitute
    <3>2. latest \in Heights
      BY <3>1, ActiveStored
    <3>3. latest > clientState[c].latest
      BY <3>1, <3>2, HeightsAreNumbers DEF Created, TypeOK, ClientStates
    <3> HIDE DEF latest
    <3>4. \A h \in {latest} : consensusState[c][h] = None
      BY <3>1, <3>2, <3>3, NothingAbove
    <3>5. {latest} \in SUBSET Heights /\ {} \in SUBSET Heights
      BY <3>2
    <3> QED
      BY <3>1, <3>4, <3>5, WriteKeepsStored
  <2> QED
    BY <1>1, <1>3, <2>1, <2>2, <2>3, <2>4
    DEF ClientStep, SubmitMisbehaviour, Freeze, VerifyMembership
<1> QED
  BY <1>1, <1>2, <1>3 DEF Next, NextBlock

\* A stored consensus state is never replaced and its processed time and height are
\* never renewed, for any headers, upgrades, recoveries and migrations.
THEOREM StoredNeverReplaced == Spec => StoredIsFixed
<1>1. Init => StoreConsistent
  BY SMTT(30) DEF Init, StoreConsistent, Stored, Created
<1> QED
  BY <1>1, InitTypeOK, NextTypeOK, NextStoreConsistent, NextKeepsStored, PTL
  DEF Spec, StoredIsFixed

-----------------------------------------------------------------------------
(* Where stored consensus states come from. *)

\* What is stored comes from the chain.
StoredFromChain == \A c \in Clients : \A h \in Stored(c) : Originates(h, consensusState[c][h])

\* A write of what comes from the chain.
LEMMA WriteFromChain ==
  ASSUME TypeOK, StoredFromChain, NEW c \in Clients,
         NEW deleted \in SUBSET Heights, NEW installed \in SUBSET Heights,
         NEW state, NEW meta, Write(c, deleted, installed, state, meta),
         \A h \in installed : Originates(h, state)
  PROVE  StoredFromChain'
<1> SUFFICES ASSUME NEW d \in Clients, NEW h \in Heights, consensusState'[d][h] # None
             PROVE  Originates(h, consensusState'[d][h])
  BY DEF StoredFromChain, Stored, Originates
<1>1. CASE d # c
  BY <1>1, WriteEffect, SMTT(30) DEF StoredFromChain, Stored
<1>2. CASE d = c /\ h \in installed
  <2>1. consensusState'[d][h] = state
    BY <1>2, WriteEffect, SMTT(30)
  <2> QED
    BY <1>2, <2>1
<1>3. CASE d = c /\ h \notin installed
  <2>1. consensusState'[d][h] = consensusState[d][h]
    BY <1>3, WriteEffect, SMTT(30)
  <2> QED
    BY <2>1 DEF StoredFromChain, Stored
<1> QED
  BY <1>1, <1>2, <1>3

\* Every step stores only what comes from the chain; a recovery passes on what another
\* client holds.
LEMMA NextFromChain == TypeOK /\ StoredFromChain /\ [Next]_vars => StoredFromChain'
<1> SUFFICES ASSUME TypeOK, StoredFromChain, [Next]_vars PROVE StoredFromChain'
  OBVIOUS
<1>1. ASSUME UNCHANGED consensusState PROVE StoredFromChain'
  BY <1>1 DEF StoredFromChain, Stored, Originates
<1>2. CASE PruneExpiredConsensusStates
  <2> DEFINE expired == [c \in Clients |-> IF Created(c) THEN ExpiredHeights(c) ELSE {}]
  <2>1. consensusState' = [c \in Clients |-> [h \in Heights |->
          IF h \in expired[c] THEN None ELSE consensusState[c][h]]]
    BY <1>2 DEF PruneExpiredConsensusStates
  <2> HIDE DEF expired
  <2>2. \A c \in Clients, h \in Heights :
          consensusState'[c][h] # None => consensusState'[c][h] = consensusState[c][h]
    BY <2>1
  <2> QED
    BY <2>2, SMTT(30) DEF StoredFromChain, Stored, Originates
<1>3. ASSUME NEW c \in Clients, ClientStep(c) PROVE StoredFromChain'
  <2>1. ASSUME NEW header \in SignedHeaders, NEW t, NEW u, CreateClient(c, header, t, u)
        PROVE  StoredFromChain'
    <3>1. Write(c, {}, {header.height}, ConsensusStateOf(header), SelfMetadata)
      BY <2>1 DEF CreateClient
    <3>2. \A h \in {header.height} : Originates(h, ConsensusStateOf(header))
      BY DEF Originates
    <3>3. {header.height} \in SUBSET Heights /\ {} \in SUBSET Heights
      BY HeaderTypes
    <3> QED
      BY <3>1, <3>2, <3>3, WriteFromChain
  <2>2. ASSUME NEW header \in SignedHeaders, UpdateClient(c, header) PROVE StoredFromChain'
    <3>1. CASE Freeze(c)
      BY <1>1, <3>1 DEF Freeze
    <3>2. CASE UpdateState(c, header)
      <4> DEFINE pruned == PruneHeights(c)
                 found == /\ consensusState[c][header.height] # None
                          /\ header.height \notin pruned
                 installed == IF found THEN {} ELSE {header.height}
      <4>1. Write(c, pruned, installed, ConsensusStateOf(header), SelfMetadata)
        BY <3>2 DEF UpdateState
      <4>2. pruned \in SUBSET Heights /\ installed \in SUBSET Heights
        BY HeaderTypes DEF PruneHeights, TypeOK
      <4>3. \A h \in installed : Originates(h, ConsensusStateOf(header))
        BY DEF Originates
      <4> HIDE DEF pruned, installed
      <4> QED
        BY <4>1, <4>2, <4>3, WriteFromChain
    <3> QED
      BY <2>2, <3>1, <3>2 DEF UpdateClient
  <2>3. ASSUME NEW plan \in Upgrades, UpgradeClient(c, plan) PROVE StoredFromChain'
    <3>1. Write(c, {}, {plan.latest}, UpgradedConsensusState(plan), SelfMetadata)
      BY <2>3 DEF UpgradeClient
    <3>2. \A h \in {plan.latest} : Originates(h, UpgradedConsensusState(plan))
      BY DEF Originates
    <3>3. {plan.latest} \in SUBSET Heights /\ {} \in SUBSET Heights
      BY PlanTypes
    <3> QED
      BY <3>1, <3>2, <3>3, WriteFromChain
  <2>4. ASSUME NEW d \in Clients, ClientUpdateProposal(c, d) PROVE StoredFromChain'
    <3> DEFINE latest == clientState[d].latest
    <3>1. /\ Created(d) /\ Status(d) = "Active"
          /\ Write(c, {}, {latest}, consensusState[d][latest], processed[d][latest])
      BY <2>4 DEF ClientUpdateProposal, MaySubstitute
    <3>2. latest \in Heights /\ consensusState[d][latest] # None
      BY <3>1, ActiveStored, ClientConstants
    <3> HIDE DEF latest
    <3>3. \A h \in {latest} : Originates(h, consensusState[d][latest])
      BY <3>2 DEF StoredFromChain, Stored
    <3>4. {latest} \in SUBSET Heights /\ {} \in SUBSET Heights
      BY <3>2
    <3> QED
      BY <3>1, <3>3, <3>4, WriteFromChain
  <2> QED
    BY <1>1, <1>3, <2>1, <2>2, <2>3, <2>4
    DEF ClientStep, SubmitMisbehaviour, Freeze, VerifyMembership
<1> QED
  BY <1>1, <1>2, <1>3 DEF Next, NextBlock, vars

-----------------------------------------------------------------------------
(* The proofs a client accepted. *)

\* A write that deletes only the lowest height and installs only above what is stored
\* somewhere, or above the latest height, keeps the proofs of the past backed.
LEMMA WriteBacked ==
  ASSUME TypeOK, StoreConsistent, NEW p \in proofs, ProofBacked(p), NEW c \in Clients,
         NEW deleted \in SUBSET Heights, NEW installed \in SUBSET Heights,
         NEW state, NEW meta, Write(c, deleted, installed, state, meta), state # None,
         NEW cs \in ClientStates, clientState' = [clientState EXCEPT ![c] = cs],
         Created(c) => clientState[c].latest <= cs.latest,
         \A h \in deleted : \A g \in Stored(c) : h <= g,
         \A h \in installed : consensusState[c][h] = None,
         Created(c) => \A h \in installed :
           h > clientState[c].latest \/ \E g \in Stored(c) : g < h
  PROVE  ProofBacked(p)'
<1>1. p.client \in Clients /\ p.height \in Heights /\ p.height \in Nat
  BY HeightsAreNumbers DEF TypeOK
<1>2. CASE p.client # c
  <2>1. \A d \in Clients : d # c => consensusState'[d] = consensusState[d]
    BY WriteEffect, SMTT(30)
  <2>2. \A d \in Clients : d # c => clientState'[d] = clientState[d]
    BY DEF TypeOK
  <2> QED
    BY <1>1, <1>2, <2>1, <2>2 DEF ProofBacked, Created, Stored
<1>3. CASE p.client = c
  <2> DEFINE k == p.height
  <2>1. /\ Created(c) /\ k <= clientState[c].latest
        /\ clientState[c].latest \in Nat /\ cs.latest \in Nat
    BY <1>3, HeightsAreNumbers DEF ProofBacked, Created, TypeOK, ClientStates
  <2>2. clientState'[c] = cs /\ cs # None
    BY ClientConstants DEF TypeOK
  <2>3. Created(c)' /\ k <= clientState'[c].latest
    BY <1>1, <2>1, <2>2, SMTT(30) DEF Created
  <2>4. Stored(c)' = (Stored(c) \ deleted) \cup installed
    <3>1. \A h \in Heights : consensusState'[c][h] =
            IF h \in installed THEN state
            ELSE IF h \in deleted THEN None ELSE consensusState[c][h]
      BY WriteEffect, SMTT(30)
    <3> QED
      BY <3>1 DEF Stored
  <2>5. Stored(c) \subseteq Nat /\ installed \subseteq Nat
    BY HeightsAreNumbers DEF Stored
  <2>6. CASE k \in Stored(c) /\ consensusState[c][k].root = p.root /\ k \notin deleted
    <3>1. k \notin installed
      BY <2>6 DEF Stored
    <3>2. k \in Stored(c)' /\ consensusState'[c][k] = consensusState[c][k]
      BY <1>1, <2>4, <2>6, <3>1, WriteEffect, SMTT(30)
    <3> QED
      BY <1>3, <2>3, <2>6, <3>2 DEF ProofBacked
  <2>7. CASE \/ k \in Stored(c) /\ k \in deleted
             \/ \A h \in Stored(c) : k < h
    <3>1. \A h \in Stored(c) \ deleted : k < h
      BY <1>1, <2>5, <2>7, SMTT(30)
    <3>2. \A h \in Stored(c) : k <= h
      BY <1>1, <2>5, <2>7, SMTT(30)
    <3>3. \A h \in installed : k < h
      BY <1>1, <2>1, <2>5, <3>2, SMTT(30)
    <3>4. \A h \in Stored(c)' : k < h
      BY <2>4, <3>1, <3>3
    <3> QED
      BY <1>3, <2>3, <3>4 DEF ProofBacked
  <2> QED
    BY <1>3, <2>6, <2>7 DEF ProofBacked
<1> QED
  BY <1>2, <1>3

\* Every proof a client ever accepted is backed.
ProofsBacked == \A p \in proofs : ProofBacked(p)

\* Freezing a client and storing nothing leave the proofs of the past as they were.
LEMMA QuietBacked ==
  ASSUME ProofsBacked, UNCHANGED <<consensusState, proofs>>,
         \A p \in proofs : Created(p.client) =>
           Created(p.client)' /\ clientState'[p.client].latest = clientState[p.client].latest
  PROVE  ProofsBacked'
BY DEF ProofsBacked, ProofBacked, Stored

LEMMA FreezeBacked ==
  ASSUME TypeOK, ProofsBacked, NEW c \in Clients, Created(c), Freeze(c), UNCHANGED proofs
  PROVE  ProofsBacked'
<1> DEFINE cs == [clientState[c] EXCEPT !.frozen = TRUE]
<1>1. cs \in ClientStates /\ cs.latest = clientState[c].latest
  BY DEF Created, TypeOK, ClientStates
<1>2. /\ clientState' = [clientState EXCEPT ![c] = cs] /\ UNCHANGED consensusState
  BY DEF Freeze
<1>3. cs # None
  BY <1>1, ClientConstants
<1> HIDE DEF cs
<1>4. \A d \in Clients : clientState'[d] = IF d = c THEN cs ELSE clientState[d]
  BY <1>2 DEF TypeOK
<1>5. \A p \in proofs : p.client \in Clients
  BY DEF TypeOK
<1>6. \A p \in proofs : Created(p.client) =>
        Created(p.client)' /\ clientState'[p.client].latest = clientState[p.client].latest
  BY <1>1, <1>3, <1>4, <1>5 DEF Created
<1> QED
  BY <1>2, <1>6, QuietBacked

\* UpdateState deletes the lowest height at most, and what it stores was verified from
\* a height that is stored.
LEMMA UpdateClientBacked ==
  ASSUME TypeOK, StoreConsistent, ProofsBacked, NEW c \in Clients,
         NEW header \in SignedHeaders, UpdateClient(c, header)
  PROVE  ProofsBacked'
<1>1. clientState[c] \in ClientStates /\ Created(c) /\ UNCHANGED proofs
  BY DEF UpdateClient, Active, Created, TypeOK
<1>2. CASE Freeze(c)
  BY <1>1, <1>2, FreezeBacked
<1>3. CASE UpdateState(c, header)
  <2> DEFINE pruned == PruneHeights(c)
             found == consensusState[c][header.height] # None /\ header.height \notin pruned
             installed == IF found THEN {} ELSE {header.height}
             cs == [clientState[c] EXCEPT !.latest =
                      IF ~found /\ header.height > @ THEN header.height ELSE @]
  <2>1. /\ clientState' = [clientState EXCEPT ![c] = cs]
        /\ Write(c, pruned, installed, ConsensusStateOf(header), SelfMetadata)
    BY <1>3 DEF UpdateState
  <2>2. pruned \in SUBSET Heights /\ installed \in SUBSET Heights
    BY HeaderTypes DEF PruneHeights, TypeOK
  <2>3. header.height \in Nat /\ clientState[c].latest \in Nat
    BY <1>1, HeaderTypes, HeightsAreNumbers DEF ClientStates
  <2>4. cs \in ClientStates /\ clientState[c].latest <= cs.latest
    BY <1>1, <2>3, HeaderTypes, SMTT(30) DEF ClientStates
  <2>5. ConsensusStateOf(header) # None
    BY HeaderTypes, ClientConstants
  <2>6. \A h \in pruned : \A g \in Stored(c) : h <= g
    BY DEF PruneHeights, StoreConsistent
  <2>7. \A h \in installed : consensusState[c][h] = None
    BY VerifiedAboveOldest DEF UpdateClient
  <2>8. \A h \in installed : \E g \in Stored(c) : g < h
    BY DEF UpdateClient, verifyHeader, Stored
  <2> HIDE DEF cs, pruned, installed
  <2>9. \A p \in proofs : ProofBacked(p)'
    BY <2>1, <2>2, <2>4, <2>5, <2>6, <2>7, <2>8, WriteBacked DEF ProofsBacked
  <2> QED
    BY <1>1, <2>9 DEF ProofsBacked
<1> QED
  BY <1>2, <1>3 DEF UpdateClient

\* An upgrade and a recovery store above the latest height, and so does the creation of
\* a client that has no proofs.
LEMMA InstallBacked ==
  ASSUME TypeOK, StoreConsistent, ProofsBacked, UNCHANGED proofs, NEW c \in Clients,
         NEW h \in Heights, NEW state \in ConsensusStates, NEW meta,
         Write(c, {}, {h}, state, meta),
         NEW cs \in ClientStates, cs.latest = h, clientState' = [clientState EXCEPT ![c] = cs],
         Created(c) => h > clientState[c].latest
  PROVE  ProofsBacked'
<1>1. {h} \in SUBSET Heights /\ {} \in SUBSET Heights /\ state # None
  BY ClientConstants
<1>2. consensusState[c][h] = None
  BY NothingAbove DEF StoreConsistent, Stored
<1>3. Created(c) => clientState[c].latest <= cs.latest
  BY HeightsAreNumbers, SMTT(30) DEF Created, TypeOK, ClientStates
<1>4. \A p \in proofs : ProofBacked(p)'
  BY <1>1, <1>2, <1>3, WriteBacked DEF ProofsBacked
<1> QED
  BY <1>4 DEF ProofsBacked

\* Every step keeps all proofs backed, unless a migration prunes in the middle.
LEMMA NextBacked ==
  TypeOK /\ StoreConsistent /\ ~Migrating /\ ProofsBacked /\ [Next]_vars => ProofsBacked'
<1> SUFFICES ASSUME TypeOK, StoreConsistent, ~Migrating, ProofsBacked, [Next]_vars
             PROVE  ProofsBacked'
  OBVIOUS
<1>1. ASSUME UNCHANGED <<clientState, consensusState, proofs>> PROVE ProofsBacked'
  BY <1>1, QuietBacked DEF Created
<1>2. ASSUME NEW c \in Clients, ClientStep(c) PROVE ProofsBacked'
  <2>1. ASSUME NEW header \in SignedHeaders, NEW t \in TrustingPeriods[c],
               NEW u \in UnbondingPeriods, CreateClient(c, header, t, u)
        PROVE  ProofsBacked'
    <3> DEFINE cs == [chain |-> Revision[header.height], latest |-> header.height,
                      frozen |-> FALSE, trusting |-> t, unbonding |-> u]
    <3>1. cs \in ClientStates /\ cs.latest = header.height
      BY HeaderTypes, ClientConstants DEF ClientStates
    <3>2. /\ Write(c, {}, {header.height}, ConsensusStateOf(header), SelfMetadata)
          /\ clientState' = [clientState EXCEPT ![c] = cs]
          /\ ~Created(c) /\ UNCHANGED proofs
      BY <2>1 DEF CreateClient
    <3> HIDE DEF cs
    <3> QED
      BY <3>1, <3>2, HeaderTypes, InstallBacked
  <2>2. ASSUME NEW plan \in Upgrades, UpgradeClient(c, plan) PROVE ProofsBacked'
    <3> DEFINE cs == [chain |-> Revision[plan.latest], latest |-> plan.latest,
                      frozen |-> FALSE, trusting |-> clientState[c].trusting,
                      unbonding |-> plan.unbonding]
    <3>1. clientState[c] \in ClientStates
      BY <2>2 DEF UpgradeClient, Active, Created, TypeOK
    <3>2. cs \in ClientStates /\ cs.latest = plan.latest
      BY <3>1, PlanTypes, ClientConstants DEF ClientStates
    <3>3. /\ Write(c, {}, {plan.latest}, UpgradedConsensusState(plan), SelfMetadata)
          /\ clientState' = [clientState EXCEPT ![c] = cs]
          /\ plan.latest > clientState[c].latest /\ UNCHANGED proofs
      BY <2>2 DEF UpgradeClient
    <3> HIDE DEF cs
    <3> QED
      BY <3>2, <3>3, PlanTypes, InstallBacked
  <2>3. ASSUME NEW d \in Clients, ClientUpdateProposal(c, d) PROVE ProofsBacked'
    <3> DEFINE sub == clientState[d]
               cs == [chain |-> sub.chain, latest |-> sub.latest, frozen |-> FALSE,
                      trusting |-> sub.trusting, unbonding |-> clientState[c].unbonding]
    <3>1. /\ sub \in ClientStates /\ clientState[c] \in ClientStates
          /\ sub.latest \in Heights
          /\ consensusState[d][sub.latest] \in ConsensusStates
      BY <2>3, ActiveStored DEF ClientUpdateProposal, MaySubstitute, Created, TypeOK
    <3>2. cs \in ClientStates /\ cs.latest = sub.latest
      BY <3>1 DEF ClientStates
    <3>3. /\ Write(c, {}, {sub.latest}, consensusState[d][sub.latest],
                   processed[d][sub.latest])
          /\ clientState' = [clientState EXCEPT ![c] = cs]
          /\ clientState[c].latest < sub.latest /\ UNCHANGED proofs
      BY <2>3 DEF ClientUpdateProposal, MaySubstitute
    <3>4. sub.latest > clientState[c].latest
      BY <3>1, <3>3, HeightsAreNumbers DEF ClientStates
    <3> HIDE DEF cs, sub
    <3> QED
      BY <3>1, <3>2, <3>3, <3>4, InstallBacked
  <2>4. ASSUME NEW h1 \in SignedHeaders, NEW h2 \in SignedHeaders,
               SubmitMisbehaviour(c, h1, h2)
        PROVE  ProofsBacked'
    BY <2>4, FreezeBacked DEF SubmitMisbehaviour, Active
  <2>5. ASSUME NEW h \in Heights, NEW delay, VerifyMembership(c, h, delay)
        PROVE  ProofsBacked'
    <3> DEFINE new == [client |-> c, height |-> h, root |-> consensusState[c][h].root]
    <3>1. /\ Created(c) /\ ~(clientState[c].latest < h) /\ consensusState[c][h] # None
          /\ proofs' = proofs \cup {new}
          /\ UNCHANGED <<clientState, consensusState>>
      BY <2>5 DEF VerifyMembership, Active
    <3>2. h <= clientState[c].latest
      BY <3>1, HeightsAreNumbers, SMTT(30) DEF Created, TypeOK, ClientStates
    <3>3. /\ new.client = c /\ new.height = h /\ new.root = consensusState[c][h].root
      OBVIOUS
    <3> HIDE DEF new
    <3>4. ProofBacked(new)
      BY <3>1, <3>2, <3>3 DEF ProofBacked, Stored
    <3> QED
      BY <3>1, <3>4 DEF ProofsBacked, ProofBacked, Created, Stored
  <2> QED
    BY <1>2, <2>1, <2>2, <2>3, <2>4, <2>5, UpdateClientBacked DEF ClientStep
<1> QED
  BY <1>1, <1>2 DEF Next, NextBlock, PruneExpiredConsensusStates, vars

\* The inductive invariant of the light clients holds for any headers, forks, upgrades,
\* recoveries and migrations.
THEOREM ClientInvariance == Spec => []ClientInv
<1> DEFINE Inv == /\ TypeOK /\ StoreConsistent /\ StoredFromChain
                  /\ ~Migrating => ProofsBacked
<1>1. ClientInv <=> Inv
  BY DEF ClientInv, StoredFromChain, ProofsBacked
<1>2. Init => Inv
  BY InitTypeOK, SMTT(30) DEF Init, StoreConsistent, Stored, Created, StoredFromChain, ProofsBacked
<1>3. Inv /\ [Next]_vars => Inv'
  BY NextTypeOK, NextStoreConsistent, NextFromChain, NextBacked
<1> HIDE DEF Inv
<1> QED
  BY <1>1, <1>2, <1>3, PTL DEF Spec

\* A client never accepts proofs against two roots for one height, whatever headers are
\* forged and however updates, pruning, upgrades and recoveries follow each other: once
\* the consensus state of a height has been pruned nothing is stored there again.
THEOREM ProofsAlwaysAgree == Spec => []ProofsAgree
<1>1. Init => ProofsAgree
  BY DEF Init, ProofsAgree
<1>2. ClientInv /\ ProofsAgree /\ [Next]_vars => ProofsAgree'
  <2> SUFFICES ASSUME ClientInv, ProofsAgree, [Next]_vars, ~Migrating PROVE ProofsAgree'
    BY DEF ProofsAgree
  <2>1. ASSUME UNCHANGED proofs PROVE ProofsAgree'
    BY <2>1 DEF ProofsAgree
  <2>2. ASSUME NEW c \in Clients, NEW h \in Heights, NEW delay, VerifyMembership(c, h, delay)
        PROVE  ProofsAgree'
    <3> DEFINE new == [client |-> c, height |-> h, root |-> consensusState[c][h].root]
    <3>1. h \in Stored(c) /\ proofs' = proofs \cup {new}
      BY <2>2 DEF VerifyMembership, Stored
    <3>2. new.client = c /\ new.height = h /\ new.root = consensusState[c][h].root
      OBVIOUS
    <3> HIDE DEF new
    <3>3. ASSUME NEW p \in proofs, p.client = c, p.height = h PROVE p.root = new.root
      <4>1. ProofBacked(p)
        BY DEF ClientInv
      <4>2. ~(h < h)
        BY HeightsAreNumbers, SMTT(30)
      <4> QED
        BY <3>1, <3>2, <3>3, <4>1, <4>2 DEF ProofBacked
    <3> QED
      BY <3>1, <3>2, <3>3 DEF ProofsAgree
  <2> QED
    BY <2>1, <2>2 DEF Next, ClientStep, NextBlock, PruneExpiredConsensusStates, CreateClient,
      UpdateClient, SubmitMisbehaviour, UpgradeClient, ClientUpdateProposal, vars
<1> QED
  BY <1>1, <1>2, ClientInvariance, PTL DEF Spec

\* A change of one client that does not take it back keeps what FrozenUntilRecovered
\* asks of all of them.
LEMMA OneRecovers ==
  ASSUME TypeOK, NEW c \in Clients, NEW cs \in ClientStates,
         clientState' = [clientState EXCEPT ![c] = cs],
         Created(c) => /\ cs.latest >= clientState[c].latest
                       /\ clientState[c].frozen =>
                            /\ cs.latest > clientState[c].latest
                            /\ \E substitute \in Clients :
                                 /\ Active(substitute)
                                 /\ cs.latest = clientState[substitute].latest,
         NEW d \in Clients, Created(d)
  PROVE  Recovers(d)
<1>1. clientState[d] \in ClientStates
  BY DEF TypeOK, Created
<1>2. clientState[d].latest >= clientState[d].latest
  BY <1>1, HeightsAreNumbers, SMTT(30) DEF ClientStates
<1>3. CASE d = c
  <2>1. clientState'[d] = cs
    BY <1>3 DEF TypeOK
  <2> QED
    BY <1>3, <2>1 DEF Recovers
<1>4. CASE d # c
  <2>1. clientState'[d] = clientState[d]
    BY <1>4 DEF TypeOK
  <2> QED
    BY <1>2, <2>1 DEF Recovers
<1> QED
  BY <1>3, <1>4

\* An active client is not frozen, and has a client state.
LEMMA ActiveNotFrozen ==
  ASSUME TypeOK, NEW c \in Clients, Active(c)
  PROVE  /\ clientState[c] \in ClientStates
         /\ ~clientState[c].frozen
         /\ clientState[c].latest \in Nat
<1>1. clientState[c] \in ClientStates
  BY DEF Active, Created, TypeOK
<1>2. ~clientState[c].frozen
  BY DEF Active, Status
<1> QED
  BY <1>1, <1>2, HeightsAreNumbers DEF ClientStates

\* Freezing a client leaves everything else in its client state.
LEMMA FrozenState ==
  ASSUME TypeOK, NEW c \in Clients, Active(c), Freeze(c)
  PROVE  \E cs \in ClientStates :
           /\ clientState' = [clientState EXCEPT ![c] = cs]
           /\ cs.latest = clientState[c].latest
<1> DEFINE cs == [clientState[c] EXCEPT !.frozen = TRUE]
<1>1. clientState[c] \in ClientStates
  BY ActiveNotFrozen
<1>2. cs \in ClientStates /\ cs.latest = clientState[c].latest
  BY <1>1 DEF ClientStates
<1>3. clientState' = [clientState EXCEPT ![c] = cs]
  BY DEF Freeze
<1> QED
  BY <1>2, <1>3

\* An update never lowers the latest height.
LEMMA UpdatedState ==
  ASSUME TypeOK, NEW c \in Clients, Active(c), NEW header \in SignedHeaders,
         UpdateState(c, header)
  PROVE  \E cs \in ClientStates :
           /\ clientState' = [clientState EXCEPT ![c] = cs]
           /\ cs.latest >= clientState[c].latest
<1> DEFINE found == consensusState[c][header.height] # None
                      /\ header.height \notin PruneHeights(c)
           higher == ~found /\ header.height > clientState[c].latest
           cs == [clientState[c] EXCEPT !.latest = IF higher THEN header.height ELSE @]
<1>1. clientState[c] \in ClientStates /\ clientState[c].latest \in Nat
  BY ActiveNotFrozen
<1>2. header.height \in Heights /\ header.height \in Nat
  BY HeaderTypes, HeightsAreNumbers
<1>3. clientState' = [clientState EXCEPT ![c] = cs]
  BY DEF UpdateState
<1>4. cs \in ClientStates /\ cs.latest = IF higher THEN header.height ELSE clientState[c].latest
  BY <1>1, <1>2 DEF ClientStates
<1> HIDE DEF cs
<1>5. cs.latest >= clientState[c].latest
  BY <1>1, <1>2, <1>4, SMTT(30)
<1> QED
  BY <1>3, <1>4, <1>5

LEMMA NextRecovers ==
  TypeOK /\ [Next]_vars => [\A c \in Clients : Created(c) => Recovers(c)]_vars
<1> SUFFICES ASSUME TypeOK, Next, NEW e \in Clients, Created(e) PROVE Recovers(e)
  OBVIOUS
<1>1. ASSUME UNCHANGED clientState PROVE Recovers(e)
  <2>1. clientState[e] \in ClientStates
    BY DEF TypeOK, Created
  <2>2. clientState[e].latest >= clientState[e].latest
    BY <2>1, HeightsAreNumbers, SMTT(30) DEF ClientStates
  <2> QED
    BY <1>1, <2>2 DEF Recovers
<1>2. ASSUME NEW c \in Clients, NEW cs \in ClientStates, Active(c),
             clientState' = [clientState EXCEPT ![c] = cs],
             cs.latest >= clientState[c].latest
      PROVE  Recovers(e)
  BY <1>2, ActiveNotFrozen, OneRecovers
<1>3. ASSUME NEW c \in Clients, Active(c), Freeze(c) PROVE Recovers(e)
  <2>1. PICK cs \in ClientStates : /\ clientState' = [clientState EXCEPT ![c] = cs]
                                   /\ cs.latest = clientState[c].latest
    BY <1>3, FrozenState
  <2>2. cs.latest >= clientState[c].latest
    BY <1>3, <2>1, ActiveNotFrozen, SMTT(30)
  <2> QED
    BY <1>2, <1>3, <2>1, <2>2
<1>4. ASSUME NEW c \in Clients, ClientStep(c) PROVE Recovers(e)
  <2>1. ASSUME NEW header \in SignedHeaders, NEW t \in TrustingPeriods[c],
               NEW u \in UnbondingPeriods, CreateClient(c, header, t, u)
        PROVE  Recovers(e)
    <3> DEFINE cs == [chain |-> Revision[header.height], latest |-> header.height,
                      frozen |-> FALSE, trusting |-> t, unbonding |-> u]
    <3>1. cs \in ClientStates
      BY HeaderTypes, ClientConstants DEF ClientStates
    <3>2. clientState' = [clientState EXCEPT ![c] = cs] /\ ~Created(c)
      BY <2>1 DEF CreateClient
    <3> HIDE DEF cs
    <3> QED
      BY <3>1, <3>2, OneRecovers
  <2>2. ASSUME NEW header \in SignedHeaders, UpdateClient(c, header) PROVE Recovers(e)
    <3>1. Active(c) /\ (Freeze(c) \/ UpdateState(c, header))
      BY <2>2 DEF UpdateClient
    <3> QED
      BY <1>2, <1>3, <3>1, UpdatedState
  <2>3. ASSUME NEW h1 \in SignedHeaders, NEW h2 \in SignedHeaders,
               SubmitMisbehaviour(c, h1, h2)
        PROVE  Recovers(e)
    BY <1>3, <2>3 DEF SubmitMisbehaviour
  <2>4. ASSUME NEW plan \in Upgrades, UpgradeClient(c, plan) PROVE Recovers(e)
    <3> DEFINE cs == [chain |-> Revision[plan.latest], latest |-> plan.latest,
                      frozen |-> FALSE, trusting |-> clientState[c].trusting,
                      unbonding |-> plan.unbonding]
    <3>1. /\ Active(c) /\ plan.latest > clientState[c].latest
          /\ clientState' = [clientState EXCEPT ![c] = cs]
      BY <2>4 DEF UpgradeClient
    <3>2. clientState[c] \in ClientStates /\ clientState[c].latest \in Nat
      BY <3>1, ActiveNotFrozen
    <3>3. cs \in ClientStates /\ cs.latest = plan.latest
      BY <3>2, PlanTypes, ClientConstants DEF ClientStates
    <3> HIDE DEF cs
    <3>4. cs.latest >= clientState[c].latest
      BY <3>1, <3>2, <3>3, PlanTypes, HeightsAreNumbers, SMTT(30)
    <3> QED
      BY <1>2, <3>1, <3>3, <3>4
  <2>5. ASSUME NEW d \in Clients, ClientUpdateProposal(c, d) PROVE Recovers(e)
    <3> DEFINE sub == clientState[d]
               cs == [chain |-> sub.chain, latest |-> sub.latest, frozen |-> FALSE,
                      trusting |-> sub.trusting, unbonding |-> clientState[c].unbonding]
    <3>1. /\ clientState[c].latest < sub.latest /\ Active(d) /\ Created(c)
          /\ clientState' = [clientState EXCEPT ![c] = cs]
      BY <2>5 DEF ClientUpdateProposal, MaySubstitute, Active
    <3>2. sub \in ClientStates /\ sub.latest \in Nat /\ clientState[c] \in ClientStates
      BY <3>1, ActiveNotFrozen DEF Created, TypeOK
    <3>3. cs \in ClientStates /\ cs.latest = sub.latest
      BY <3>2 DEF ClientStates
    <3>4. clientState[c].latest \in Nat
      BY <3>2, HeightsAreNumbers DEF ClientStates
    <3> HIDE DEF cs
    <3>5. cs.latest > clientState[c].latest /\ cs.latest >= clientState[c].latest
      BY <3>1, <3>2, <3>3, <3>4, SMTT(30)
    <3> QED
      BY <3>1, <3>3, <3>5, OneRecovers
  <2>6. ASSUME NEW h \in Heights, NEW delay, VerifyMembership(c, h, delay) PROVE Recovers(e)
    BY <1>1, <2>6 DEF VerifyMembership
  <2> QED
    BY <1>4, <2>1, <2>2, <2>3, <2>4, <2>5, <2>6 DEF ClientStep
<1> QED
  BY <1>1, <1>4 DEF Next, NextBlock, PruneExpiredConsensusStates

\* A frozen client stays as it is until governance gives it the state of one that is
\* active and further on, and no update, upgrade or recovery takes a client back.
THEOREM FrozenStaysFrozen == Spec => FrozenUntilRecovered
  BY NextRecovers, ClientTypeCorrect, PTL DEF Spec, FrozenUntilRecovered

-----------------------------------------------------------------------------
(* The order of times.  The neighbours of a height are a smallest and a greatest  *)
(* element, which exist because < is well-founded on the natural numbers.         *)

LEMMA Smallest ==
  ASSUME NEW T \in SUBSET Nat, T # {}
  PROVE  \E m \in T : \A k \in T : m <= k
<1>1. IsWellFoundedOn(OpToRel(<, Nat), Nat)
  BY NatLessThanWellFounded
<1> DEFINE R == OpToRel(<, Nat)
<1>2. \A x, y \in Nat : <<y, x>> \in R <=> y < x
  BY DEF OpToRel
<1> HIDE DEF R
<1>3. PICK m \in T : \A k \in T : <<k, m>> \notin R
  BY <1>1, WFMin DEF R
<1>4. ASSUME NEW k \in T PROVE m <= k
  <2>1. ~(k < m)
    BY <1>2, <1>3
  <2> QED
    BY <2>1, SMTT(30)
<1> QED
  BY <1>4

LEMMA Greatest ==
  ASSUME NEW T \in SUBSET Nat, T # {}, NEW b \in Nat, \A k \in T : k < b
  PROVE  \E m \in T : \A k \in T : k <= m
<1> DEFINE D == {b - k : k \in T}
<1>1. D \in SUBSET Nat /\ D # {}
  <2>1. \A k \in T : b - k \in Nat
    BY SMTT(30)
  <2>2. PICK k \in T : TRUE
    OBVIOUS
  <2>3. b - k \in D
    BY <2>2
  <2> QED
    BY <2>1, <2>3
<1>2. PICK d \in D : \A e \in D : d <= e
  BY <1>1, Smallest
<1>3. PICK m \in T : d = b - m
  OBVIOUS
<1>4. ASSUME NEW k \in T PROVE k <= m
  <2>1. b - k \in D
    OBVIOUS
  <2>2. b - m <= b - k
    BY <1>2, <1>3, <2>1
  <2> QED
    BY <2>2, SMTT(30)
<1> QED
  BY <1>4

\* The time of what is stored is a number.
LEMMA StoredTime ==
  ASSUME TypeOK, NEW c \in Clients, NEW h \in Stored(c)
  PROVE  h \in Heights /\ h \in Nat /\ consensusState[c][h].time \in Nat
<1>1. h \in Heights /\ consensusState[c][h] \in ConsensusStates
  BY DEF Stored, TypeOK
<1> QED
  BY <1>1, ClientConstants DEF ConsensusStates

\* GetPreviousConsensusState finds the stored neighbour below a height, and
\* GetNextConsensusState the one above it.
LEMMA Neighbours ==
  ASSUME TypeOK, StoreConsistent, NEW c \in Clients, NEW h \in Heights, NEW g \in Stored(c)
  PROVE  /\ g < h => \E f \in Stored(c) :
              /\ g <= f /\ f < h
              /\ consensusState[c][f] \in GetPreviousConsensusState(c, h)
         /\ g > h => \E f \in Stored(c) :
              /\ f <= g /\ f > h
              /\ consensusState[c][f] \in GetNextConsensusState(c, h)
<1>1. Stored(c) \subseteq Nat /\ h \in Nat
  BY HeightsAreNumbers DEF Stored
<1>2. iterationKeys[c] = Stored(c) /\ \A f \in Stored(c) : consensusState[c][f] # None
  BY DEF StoreConsistent, Stored
<1>3. ASSUME g < h
      PROVE  \E f \in Stored(c) : /\ g <= f /\ f < h
                                  /\ consensusState[c][f] \in GetPreviousConsensusState(c, h)
  <2> DEFINE below == {f \in iterationKeys[c] : f < h}
  <2>1. below \in SUBSET Nat /\ g \in below /\ \A f \in below : f < h
    BY <1>1, <1>2, <1>3
  <2>2. PICK f \in below : \A k \in below : k <= f
    <3> HIDE DEF below
    <3> QED
      BY <1>1, <2>1, Greatest
  <2>3. f \in Stored(c) /\ f < h /\ g <= f
    BY <1>2, <2>1, <2>2
  <2>4. consensusState[c][f] \in GetPreviousConsensusState(c, h)
    BY <1>2, <2>2, <2>3 DEF GetPreviousConsensusState
  <2> QED
    BY <2>3, <2>4
<1>4. ASSUME g > h
      PROVE  \E f \in Stored(c) : /\ f <= g /\ f > h
                                  /\ consensusState[c][f] \in GetNextConsensusState(c, h)
  <2> DEFINE above == {f \in iterationKeys[c] : f > h}
  <2>1. above \in SUBSET Nat /\ g \in above
    BY <1>1, <1>2, <1>4
  <2>2. PICK f \in above : \A k \in above : f <= k
    <3> HIDE DEF above
    <3> QED
      BY <2>1, Smallest
  <2>3. f \in Stored(c) /\ f > h /\ f <= g
    BY <1>2, <2>1, <2>2
  <2>4. consensusState[c][f] \in GetNextConsensusState(c, h)
    BY <1>2, <2>2, <2>3 DEF GetNextConsensusState
  <2> QED
    BY <2>3, <2>4
<1> QED
  BY <1>3, <1>4

\* A height between two of one revision is of that revision.
LEMMA RevisionBetween ==
  ASSUME NEW f \in Heights, NEW g \in Heights, NEW h \in Heights,
         f <= g, g <= h, Revision[f] = Revision[h]
  PROVE  Revision[f] = Revision[g] /\ Revision[g] = Revision[h]
<1>1. Revision[f] <= Revision[g] /\ Revision[g] <= Revision[h]
  BY ClientConstants
<1>2. Revision[f] \in Nat /\ Revision[g] \in Nat /\ Revision[h] \in Nat
  BY ClientConstants
<1> QED
  BY <1>1, <1>2, SMTT(30)

\* A header that CheckForMisbehaviour lets pass fits into the order of all that is
\* stored, although only its neighbours were looked at.
LEMMA HeaderFits ==
  ASSUME TypeOK, StoreConsistent, NEW c \in Clients, NEW header \in SignedHeaders,
         InOrder(c), consensusState[c][header.height] = None,
         ~HeaderMisbehaviour(c, header), NEW g \in Stored(c),
         Revision[g] = Revision[header.height]
  PROVE  /\ g < header.height => consensusState[c][g].time < header.time
         /\ header.height < g => header.time < consensusState[c][g].time
<1> DEFINE h == header.height
<1>1. h \in Heights /\ h \in Nat /\ header.time \in Nat
  BY HeaderTypes, HeightsAreNumbers
<1>2. g \in Heights /\ g \in Nat /\ consensusState[c][g].time \in Nat
  BY StoredTime
<1>3. /\ \A s \in GetPreviousConsensusState(c, h) : s.time < header.time
      /\ \A s \in GetNextConsensusState(c, h) : s.time > header.time
  BY DEF HeaderMisbehaviour
<1>4. ASSUME g < h PROVE consensusState[c][g].time < header.time
  <2>1. PICK f \in Stored(c) : /\ g <= f /\ f < h
                               /\ consensusState[c][f] \in GetPreviousConsensusState(c, h)
    BY <1>1, <1>4, Neighbours
  <2>2. f \in Heights /\ f \in Nat /\ consensusState[c][f].time \in Nat
    BY StoredTime
  <2>3. consensusState[c][f].time < header.time
    BY <1>3, <2>1
  <2>4. Revision[g] = Revision[f]
    BY <1>1, <1>2, <2>1, <2>2, RevisionBetween, SMTT(30)
  <2>5. g = f \/ consensusState[c][g].time < consensusState[c][f].time
    BY <1>2, <2>1, <2>2, <2>4, SMTT(30) DEF InOrder
  <2> QED
    BY <1>1, <1>2, <2>2, <2>3, <2>5, SMTT(30)
<1>5. ASSUME h < g PROVE header.time < consensusState[c][g].time
  <2>1. PICK f \in Stored(c) : /\ f <= g /\ f > h
                               /\ consensusState[c][f] \in GetNextConsensusState(c, h)
    BY <1>1, <1>2, <1>5, Neighbours
  <2>2. f \in Heights /\ f \in Nat /\ consensusState[c][f].time \in Nat
    BY StoredTime
  <2>3. consensusState[c][f].time > header.time
    BY <1>3, <2>1
  <2>4. Revision[f] = Revision[g]
    BY <1>1, <1>2, <2>1, <2>2, RevisionBetween, SMTT(30)
  <2>5. g = f \/ consensusState[c][f].time < consensusState[c][g].time
    BY <1>2, <2>1, <2>2, <2>4, SMTT(30) DEF InOrder
  <2> QED
    BY <1>1, <1>2, <2>2, <2>3, <2>5, SMTT(30)
<1> QED
  BY <1>4, <1>5

\* What is not replaced stays in order.
LEMMA KeptInOrder ==
  ASSUME NEW c \in Clients, InOrder(c),
         \A h \in Heights : consensusState'[c][h] # None =>
           consensusState'[c][h] = consensusState[c][h]
  PROVE  InOrder(c)'
BY DEF InOrder, Stored

\* A write of at most one consensus state that fits into the order.
LEMMA WriteInOrder ==
  ASSUME TypeOK, NEW c \in Clients, InOrder(c), NEW d \in Clients,
         NEW deleted \in SUBSET Heights, NEW installed \in SUBSET Heights,
         NEW state, NEW meta, Write(d, deleted, installed, state, meta),
         \A g, h \in installed : g = h,
         c = d => \A h \in installed : \A g \in Stored(c) : Revision[g] = Revision[h] =>
           /\ g < h => consensusState[c][g].time < state.time
           /\ h < g => state.time < consensusState[c][g].time
  PROVE  InOrder(c)'
<1>1. CASE c # d
  <2>1. consensusState'[c] = consensusState[c]
    BY <1>1, WriteEffect, SMTT(30)
  <2> QED
    BY <2>1, KeptInOrder
<1>2. CASE c = d
  <2>1. \A h \in Heights : consensusState'[c][h] =
          IF h \in installed THEN state
          ELSE IF h \in deleted THEN None ELSE consensusState[c][h]
    BY <1>2, WriteEffect, SMTT(30)
  <2>2. \A h \in Stored(c)' : \/ h \in installed /\ consensusState'[c][h] = state
                              \/ h \in Stored(c) /\ consensusState'[c][h] = consensusState[c][h]
    BY <2>1 DEF Stored
  <2> SUFFICES ASSUME NEW g \in Stored(c)', NEW h \in Stored(c)', g < h,
                      Revision[g] = Revision[h]
               PROVE  consensusState'[c][g].time < consensusState'[c][h].time
    BY DEF InOrder
  <2>3. g # h
    BY HeightsAreNumbers, SMTT(30) DEF Stored
  <2>4. CASE g \in installed /\ consensusState'[c][g] = state
    <3>1. h \in Stored(c) /\ consensusState'[c][h] = consensusState[c][h]
      BY <2>2, <2>3, <2>4
    <3> QED
      BY <1>2, <2>4, <3>1
  <2>5. CASE g \in Stored(c) /\ consensusState'[c][g] = consensusState[c][g]
    BY <1>2, <2>2, <2>5 DEF InOrder
  <2> QED
    BY <2>2, <2>4, <2>5
<1> QED
  BY <1>1, <1>2

\* An upgrade to a new revision is above all that is stored.
LEMMA UpgradeFits ==
  ASSUME TypeOK, StoreConsistent, NewRevisions, NEW c \in Clients, NEW plan \in Upgrades,
         UpgradeClient(c, plan), NEW g \in Stored(c)
  PROVE  Revision[g] # Revision[plan.latest]
<1>1. plan.last = clientState[c].latest /\ Revision[plan.last] < Revision[plan.latest]
  BY DEF UpgradeClient, NewRevisions
<1>2. Created(c) /\ g \in Heights /\ g <= clientState[c].latest
  BY DEF StoreConsistent, Stored
<1>3. clientState[c].latest \in Heights /\ plan.latest \in Heights
  BY <1>2, PlanTypes DEF Created, TypeOK, ClientStates
<1>4. Revision[g] <= Revision[plan.last]
  BY <1>1, <1>2, <1>3, ClientConstants
<1>5. Revision[g] \in Nat /\ Revision[plan.last] \in Nat /\ Revision[plan.latest] \in Nat
  BY <1>1, <1>2, <1>3, ClientConstants
<1> QED
  BY <1>1, <1>4, <1>5, SMTT(30)

LEMMA NextInOrder ==
  TypeOK /\ StoreConsistent /\ [Next]_vars =>
    [NewRevisions => \A c \in Clients : Active(c) /\ InOrder(c) => InOrder(c)']_vars
<1> SUFFICES ASSUME TypeOK, StoreConsistent, Next, NewRevisions,
                    NEW c \in Clients, Active(c), InOrder(c)
             PROVE  InOrder(c)'
  OBVIOUS
<1>1. ASSUME UNCHANGED consensusState PROVE InOrder(c)'
  BY <1>1, KeptInOrder
<1>2. CASE PruneExpiredConsensusStates
  <2> DEFINE expired == [d \in Clients |-> IF Created(d) THEN ExpiredHeights(d) ELSE {}]
  <2>1. consensusState' = [d \in Clients |-> [h \in Heights |->
          IF h \in expired[d] THEN None ELSE consensusState[d][h]]]
    BY <1>2 DEF PruneExpiredConsensusStates
  <2> HIDE DEF expired
  <2>2. \A h \in Heights :
          consensusState'[c][h] # None => consensusState'[c][h] = consensusState[c][h]
    BY <2>1
  <2> QED
    BY <2>2, KeptInOrder
<1>3. ASSUME NEW d \in Clients, ClientStep(d) PROVE InOrder(c)'
  <2>1. ASSUME NEW h \in Heights, NEW state, NEW meta, Write(d, {}, {h}, state, meta),
               c = d => \A g \in Stored(c) : Revision[g] # Revision[h]
        PROVE  InOrder(c)'
    <3>1. {h} \in SUBSET Heights /\ {} \in SUBSET Heights /\ \A f, g \in {h} : f = g
      OBVIOUS
    <3> QED
      BY <2>1, <3>1, WriteInOrder
  <2>2. ASSUME NEW header \in SignedHeaders, NEW t, NEW u, CreateClient(d, header, t, u)
        PROVE  InOrder(c)'
    <3>1. ~Created(d) /\ Write(d, {}, {header.height}, ConsensusStateOf(header), SelfMetadata)
      BY <2>2 DEF CreateClient
    <3>2. c # d
      BY <3>1 DEF Active
    <3> QED
      BY <2>1, <3>1, <3>2, HeaderTypes
  <2>3. ASSUME NEW header \in SignedHeaders, UpdateClient(d, header) PROVE InOrder(c)'
    <3>1. CASE HeaderMisbehaviour(d, header)
      BY <1>1, <2>3, <3>1 DEF UpdateClient, Freeze
    <3>2. CASE ~HeaderMisbehaviour(d, header)
      <4> DEFINE pruned == PruneHeights(d)
                 found == /\ consensusState[d][header.height] # None
                          /\ header.height \notin pruned
                 installed == IF found THEN {} ELSE {header.height}
                 state == ConsensusStateOf(header)
      <4>1. Write(d, pruned, installed, state, SelfMetadata)
        BY <2>3, <3>2 DEF UpdateClient, UpdateState
      <4>2. pruned \in SUBSET Heights /\ installed \in SUBSET Heights
        BY HeaderTypes DEF PruneHeights, TypeOK
      <4>3. \A h \in installed : h = header.height /\ consensusState[d][header.height] = None
        BY <2>3, VerifiedAboveOldest DEF UpdateClient
      <4>4. state.time = header.time
        BY DEF ConsensusStateOf
      <4> HIDE DEF pruned, installed, state
      <4>5. c = d => \A h \in installed : \A g \in Stored(c) : Revision[g] = Revision[h] =>
              /\ g < h => consensusState[c][g].time < state.time
              /\ h < g => state.time < consensusState[c][g].time
        BY <3>2, <4>3, <4>4, HeaderFits
      <4> QED
        BY <4>1, <4>2, <4>3, <4>5, WriteInOrder
    <3> QED
      BY <3>1, <3>2
  <2>4. ASSUME NEW plan \in Upgrades, UpgradeClient(d, plan) PROVE InOrder(c)'
    <3>1. Write(d, {}, {plan.latest}, UpgradedConsensusState(plan), SelfMetadata)
      BY <2>4 DEF UpgradeClient
    <3>2. \A g \in Stored(d) : Revision[g] # Revision[plan.latest]
      BY <2>4, UpgradeFits
    <3> QED
      BY <2>1, <3>1, <3>2, PlanTypes
  <2>5. ASSUME NEW e \in Clients, ClientUpdateProposal(d, e) PROVE InOrder(c)'
    <3> DEFINE latest == clientState[e].latest
    <3>1. /\ Created(d) /\ Status(d) # "Active" /\ Created(e) /\ Status(e) = "Active"
          /\ Write(d, {}, {latest}, consensusState[e][latest], processed[e][latest])
      BY <2>5 DEF ClientUpdateProposal, MaySubstitute
    <3>2. latest \in Heights /\ c # d
      BY <3>1, ActiveStored DEF Active
    <3> HIDE DEF latest
    <3> QED
      BY <2>1, <3>1, <3>2
  <2> QED
    BY <1>1, <1>3, <2>2, <2>3, <2>4, <2>5
    DEF ClientStep, SubmitMisbehaviour, Freeze, VerifyMembership
<1> QED
  BY <1>1, <1>2, <1>3 DEF Next, NextBlock

\* CheckForMisbehaviour compares a header with its neighbours only, and that keeps the
\* times of all consensus states of a revision in order, whatever the headers are and in
\* whatever order they come.
THEOREM TimesAlwaysInOrder == Spec => TimesStayInOrder
  BY NextInOrder, ClientTypeCorrect, StoreAlwaysConsistent, PTL DEF Spec, TimesStayInOrder

-----------------------------------------------------------------------------
(* An honest chain. *)

\* What an honest chain lets a client store at a height, given a header of the chain:
\* heights of its revision come from the upgrade to the revision on.
LEMMA HonestOrder ==
  ASSUME Honest, NEW g \in Heights, NEW state, Originates(g, state),
         NEW header \in SignedHeaders
  PROVE  /\ g < header.height => state.time < header.time
         /\ g > header.height /\ Revision[g] = Revision[header.height] =>
              state.time > header.time
         /\ g = header.height => \/ state = ConsensusStateOf(header)
                                 \/ \E plan \in Upgrades : plan.latest = header.height
<1>1. header.height \in Nat /\ g \in Nat /\ header.time \in Nat
  BY HeaderTypes, HeightsAreNumbers
<1>2. ASSUME NEW other \in SignedHeaders, other.height = g, state = ConsensusStateOf(other)
      PROVE  /\ g < header.height => state.time < header.time
             /\ g > header.height => state.time > header.time
             /\ g = header.height => state = ConsensusStateOf(header)
  <2>1. state.time = other.time /\ other.time \in Nat
    BY <1>2, HeaderTypes DEF ConsensusStateOf
  <2> QED
    BY <1>1, <1>2, <2>1 DEF Honest
<1>3. ASSUME NEW plan \in Upgrades, plan.latest = g, state = UpgradedConsensusState(plan)
      PROVE  /\ g < header.height => state.time < header.time
             /\ ~(g > header.height /\ Revision[g] = Revision[header.height])
  <2>1. state.time = plan.time /\ plan.time \in Nat
    BY <1>3, ClientConstants DEF UpgradedConsensusState, UpgradePlans
  <2> QED
    BY <1>1, <1>3, <2>1, SMTT(30) DEF Honest
<1> QED
  BY <1>2, <1>3 DEF Originates

\* A header of an honest chain that is verified is not the first of its revision, where
\* an upgrade leads.
LEMMA VerifiedAboveUpgrade ==
  ASSUME Honest, StoredFromChain, NEW c \in Clients,
         NEW header \in SignedHeaders, verifyHeader(c, header), NEW plan \in Upgrades
  PROVE  plan.latest # header.height
<1> SUFFICES ASSUME plan.latest = header.height PROVE FALSE
  OBVIOUS
<1>1. PICK g \in Heights : /\ g \in Stored(c) /\ g < header.height
                           /\ Revision[header.height] = Revision[g]
  BY DEF verifyHeader, Stored
<1>2. header.height \in Nat /\ g \in Nat
  BY HeaderTypes, HeightsAreNumbers
<1>3. Originates(g, consensusState[c][g])
  BY <1>1 DEF StoredFromChain
<1>4. ASSUME NEW other \in SignedHeaders, other.height = g PROVE FALSE
  BY <1>1, <1>2, <1>4, SMTT(30) DEF Honest
<1>5. ASSUME NEW other \in Upgrades, other.latest = g PROVE FALSE
  BY <1>1, <1>2, <1>5, SMTT(30) DEF Honest
<1> QED
  BY <1>3, <1>4, <1>5 DEF Originates

\* No header of an honest chain is taken for misbehaviour when a client is updated.
LEMMA NoHeaderMisbehaviour ==
  ASSUME TypeOK, StoreConsistent, StoredFromChain, Honest, NEW c \in Clients, Created(c),
         NEW header \in SignedHeaders, verifyHeader(c, header)
  PROVE  ~HeaderMisbehaviour(c, header)
<1> DEFINE h == header.height
<1>1. h \in Heights /\ h \in Nat
  BY HeaderTypes, HeightsAreNumbers
<1>2. \A f \in Stored(c) : f \in Heights /\ Originates(f, consensusState[c][f])
  BY DEF StoredFromChain, Stored
<1>3. ASSUME consensusState[c][h] # None
      PROVE  consensusState[c][h] = ConsensusStateOf(header)
  <2>1. h \in Stored(c)
    BY <1>1, <1>3 DEF Stored
  <2> QED
    BY <1>2, <2>1, HonestOrder, VerifiedAboveUpgrade
<1>4. ASSUME NEW s \in GetPreviousConsensusState(c, h) PROVE s.time < header.time
  <2>1. PICK f \in Stored(c) : f < h /\ s = consensusState[c][f]
    BY DEF GetPreviousConsensusState, StoreConsistent
  <2> QED
    BY <1>2, <2>1, HonestOrder
<1>5. ASSUME NEW s \in GetNextConsensusState(c, h) PROVE s.time > header.time
  <2>1. PICK f \in Stored(c) : f > h /\ s = consensusState[c][f]
    BY DEF GetNextConsensusState, StoreConsistent
  <2>2. f \in Heights /\ f \in Nat
    BY <1>2, HeightsAreNumbers
  <2>3. /\ f <= clientState[c].latest
        /\ Revision[clientState[c].latest] = clientState[c].chain
    BY DEF StoreConsistent
  <2>4. Revision[h] = clientState[c].chain
    BY VerifiedAboveOldest
  <2>5. clientState[c].latest \in Heights
    BY DEF Created, TypeOK, ClientStates
  <2>6. h <= f
    BY <1>1, <2>1, <2>2, SMTT(30)
  <2>7. Revision[f] = Revision[h]
    <3> DEFINE l == clientState[c].latest
    <3>1. l \in Heights /\ f <= l /\ Revision[h] = Revision[l]
      BY <2>3, <2>4, <2>5
    <3> HIDE DEF h, l
    <3> QED
      BY <1>1, <2>2, <2>6, <3>1, RevisionBetween
  <2> QED
    BY <1>2, <2>1, <2>2, <2>7, HonestOrder
<1> QED
  BY <1>3, <1>4, <1>5 DEF HeaderMisbehaviour

\* No two headers of an honest chain are misbehaviour.
LEMMA NoMisbehaviour ==
  ASSUME Honest, NEW header1 \in SignedHeaders, NEW header2 \in SignedHeaders,
         ValidateBasic(header1, header2)
  PROVE  ~CheckForMisbehaviour(header1, header2)
<1>1. /\ header1.height \in Nat /\ header2.height \in Nat
      /\ header1.time \in Nat /\ header2.time \in Nat
  BY HeaderTypes, HeightsAreNumbers
<1> QED
  BY <1>1, SMTT(30) DEF Honest, ValidateBasic, CheckForMisbehaviour

NoneFrozen == \A c \in Clients : Created(c) => ~clientState[c].frozen

LEMMA NextNoneFrozen ==
  TypeOK /\ StoreConsistent /\ StoredFromChain /\ Honest /\ NoneFrozen /\ [Next]_vars
    => NoneFrozen'
<1> SUFFICES ASSUME TypeOK, StoreConsistent, StoredFromChain, Honest, NoneFrozen, [Next]_vars
             PROVE  NoneFrozen'
  OBVIOUS
<1>1. ASSUME UNCHANGED clientState PROVE NoneFrozen'
  BY <1>1 DEF NoneFrozen, Created
<1>2. ASSUME NEW c \in Clients, NEW cs, clientState' = [clientState EXCEPT ![c] = cs],
             ~cs.frozen
      PROVE  NoneFrozen'
  <2>1. \A d \in Clients : clientState'[d] = IF d = c THEN cs ELSE clientState[d]
    BY <1>2 DEF TypeOK
  <2> QED
    BY <1>2, <2>1 DEF NoneFrozen, Created
<1>3. ASSUME NEW c \in Clients, ClientStep(c) PROVE NoneFrozen'
  <2>1. ASSUME NEW header \in SignedHeaders, UpdateClient(c, header) PROVE NoneFrozen'
    <3>1. Active(c) /\ UpdateState(c, header)
      BY <2>1, NoHeaderMisbehaviour DEF UpdateClient, Active
    <3> DEFINE found == consensusState[c][header.height] # None
                          /\ header.height \notin PruneHeights(c)
               higher == ~found /\ header.height > clientState[c].latest
               cs == [clientState[c] EXCEPT !.latest = IF higher THEN header.height ELSE @]
    <3>2. clientState' = [clientState EXCEPT ![c] = cs]
      BY <3>1 DEF UpdateState
    <3>3. ~cs.frozen
      BY <3>1, ActiveNotFrozen DEF ClientStates
    <3> HIDE DEF cs
    <3> QED
      BY <1>2, <3>2, <3>3
  <2>2. ASSUME NEW h1 \in SignedHeaders, NEW h2 \in SignedHeaders,
               SubmitMisbehaviour(c, h1, h2)
        PROVE  NoneFrozen'
    BY <2>2, NoMisbehaviour DEF SubmitMisbehaviour
  <2>3. ASSUME NEW chain, NEW latest, NEW trusting, NEW unbonding,
               clientState' = [clientState EXCEPT ![c] =
                 [chain |-> chain, latest |-> latest, frozen |-> FALSE,
                  trusting |-> trusting, unbonding |-> unbonding]]
        PROVE  NoneFrozen'
    <3> DEFINE cs == [chain |-> chain, latest |-> latest, frozen |-> FALSE,
                      trusting |-> trusting, unbonding |-> unbonding]
    <3>1. ~cs.frozen
      OBVIOUS
    <3>2. clientState' = [clientState EXCEPT ![c] = cs]
      BY <2>3
    <3> HIDE DEF cs
    <3> QED
      BY <1>2, <3>1, <3>2
  <2>4. ASSUME NEW header, NEW t, NEW u, CreateClient(c, header, t, u) PROVE NoneFrozen'
    BY <2>3, <2>4 DEF CreateClient
  <2>5. ASSUME NEW plan, UpgradeClient(c, plan) PROVE NoneFrozen'
    BY <2>3, <2>5 DEF UpgradeClient
  <2>6. ASSUME NEW d, ClientUpdateProposal(c, d) PROVE NoneFrozen'
    BY <2>3, <2>6 DEF ClientUpdateProposal
  <2> QED
    BY <1>1, <1>3, <2>1, <2>2, <2>4, <2>5, <2>6 DEF ClientStep, VerifyMembership
<1> QED
  BY <1>1, <1>3 DEF Next, NextBlock, PruneExpiredConsensusStates, vars

\* The client of a chain that signs one header per height, with times that increase, is
\* never frozen: no order of its headers, with gaps filled in later, pruned neighbours,
\* upgrades and recoveries, looks like misbehaviour to CheckForMisbehaviour.
THEOREM HonestChainsNeverFrozen == Spec => []HonestNeverFrozen
<1> DEFINE Inv == TypeOK /\ StoreConsistent /\ StoredFromChain /\ (Honest => NoneFrozen)
<1>1. Init => Inv
  BY InitTypeOK, SMTT(30)
  DEF Init, StoreConsistent, Stored, Created, StoredFromChain, NoneFrozen
<1>2. Inv /\ [Next]_vars => Inv'
  BY NextTypeOK, NextStoreConsistent, NextFromChain, NextNoneFrozen
<1>3. Inv => HonestNeverFrozen
  BY DEF HonestNeverFrozen, NoneFrozen
<1> HIDE DEF Inv
<1> QED
  BY <1>1, <1>2, <1>3, PTL DEF Spec
=============================================================================
