-------------------------- MODULE TendermintClient --------------------------
(***************************************************************************)
(* The Tendermint light clients one chain keeps of another: creation,      *)
(* updates with headers in any order, misbehaviour, pruning, expiry, delay *)
(* periods, upgrades to a new revision and recovery by governance.  Every  *)
(* handler is a transaction, so it is one action; a message that fails is  *)
(* a stuttering step.                                                      *)
(*                                                                         *)
(* The other chain is the set of headers its validators have signed, which *)
(* may hold more than one for a height.  Anyone may submit any of them at  *)
(* any time.  A height stands for a pair of a revision number and a height *)
(* within the revision, which the code orders lexicographically; h + 1 is  *)
(* the height after h if it is of the same revision.                       *)
(***************************************************************************)
EXTENDS Integers, FiniteSetsExt

CONSTANTS
  Clients,           \* the identifiers of the clients
  Heights,           \* heights of the other chain
  Revision,          \* Revision[h]: the revision number of height h
  Times,             \* the times that may stand in a header
  Roots,             \* app hashes; a proof is checked against one of them
  SentinelRoot,      \* the root of a consensus state installed by an upgrade
  ValidatorSets,
  TrustLevel,        \* pairs of validator sets that overlap enough to skip heights
  SignedHeaders,     \* the headers signed by their validators
  Upgrades,          \* the upgrades the other chain committed to
  TrustingPeriods,   \* TrustingPeriods[c]: what the creator of a client may choose
  UnbondingPeriods,
  MaxClockDrift,
  DelayPeriods,      \* pairs of a delay in time and one in blocks
  MaxTime,           \* bound on the time of the chain
  MaxBlockInterval,  \* bound on the time between two blocks
  MaxProofs,         \* bound on the different proofs recorded
  Migrating,         \* whether a store migration may prune all that has expired
  None               \* an absent key

\* A header, and the consensus state it gives rise to.
Headers ==
  [height : Heights, time : Times, root : Roots,
   validators : ValidatorSets, nextValidators : ValidatorSets]

ConsensusStates ==
  [time : Times, root : Roots \cup {SentinelRoot}, nextValidators : ValidatorSets]

\* "chain" is the revision number in the chain identifier; "unbonding" stands for
\* all the parameters a substitute client must share.
ClientStates ==
  [chain : Nat, latest : Heights, frozen : BOOLEAN, trusting : Nat, unbonding : Nat]

Metadata == [time : Nat, height : Nat]

\* A client state and a consensus state for height "latest" of a new revision,
\* committed under the root of the last header of the old one, of height "last".
UpgradePlans ==
  [last : Heights, root : Roots, latest : Heights, unbonding : Nat,
   time : Times, nextValidators : ValidatorSets]

ASSUME ClientConstants ==
  /\ Heights \subseteq Nat
  /\ Revision \in [Heights -> Nat]
  /\ \A g, h \in Heights : g <= h => Revision[g] <= Revision[h]
  /\ Times \subseteq Nat
  /\ SignedHeaders \subseteq Headers
  /\ Upgrades \subseteq UpgradePlans
  /\ TrustingPeriods \in [Clients -> SUBSET Nat]
  /\ UnbondingPeriods \subseteq Nat
  /\ MaxClockDrift \in Nat
  /\ DelayPeriods \subseteq Nat \X Nat
  /\ MaxTime \in Nat
  /\ MaxBlockInterval \in Nat
  /\ MaxProofs \in Nat
  /\ Migrating \in BOOLEAN
  /\ None \notin ConsensusStates /\ None \notin ClientStates /\ None \notin Metadata

VARIABLES
  now,             \* block time
  height,          \* block height
  clientState,     \* clientState[c], None before c is created
  consensusState,  \* consensusState[c][h]
  processed,       \* processed[c][h]: time and height of the block that stored it
  iterationKeys,   \* iterationKeys[c]: the heights found when iterating
  proofs           \* what proofs were accepted: client, height and root

vars == <<now, height, clientState, consensusState, processed, iterationKeys, proofs>>

Init ==
  /\ now = 1
  /\ height = 1
  /\ clientState = [c \in Clients |-> None]
  /\ consensusState = [c \in Clients |-> [h \in Heights |-> None]]
  /\ processed = [c \in Clients |-> [h \in Heights |-> None]]
  /\ iterationKeys = [c \in Clients |-> {}]
  /\ proofs = {}

Created(c) == clientState[c] # None

-----------------------------------------------------------------------------
(* Reading the store. *)

ConsensusStateOf(header) ==
  [time |-> header.time, root |-> header.root, nextValidators |-> header.nextValidators]

IsExpired(trusting, time) == ~(time + trusting > now)

Status(c) ==
  LET cs == clientState[c]
      latest == consensusState[c][cs.latest]
  IN
  IF cs.frozen THEN "Frozen"
  ELSE IF latest = None \/ IsExpired(cs.trusting, latest.time) THEN "Expired"
  ELSE "Active"

Active(c) == Created(c) /\ Status(c) = "Active"

\* Mutant of GetPreviousConsensusState: the iterator starts from the end.
GetPreviousConsensusStateLast(c, h) ==
  LET others == iterationKeys[c] \ {h}
  IN {consensusState[c][g] : g \in {g \in others : \A f \in others : f <= g}} \ {None}

\* The stored consensus states next to h, as sets of at most one.
GetPreviousConsensusState(c, h) ==
  LET below == {g \in iterationKeys[c] : g < h}
  IN {consensusState[c][g] : g \in {g \in below : \A f \in below : f <= g}} \ {None}

GetNextConsensusState(c, h) ==
  LET above == {g \in iterationKeys[c] : g > h}
  IN {consensusState[c][g] : g \in {g \in above : \A f \in above : g <= f}} \ {None}

-----------------------------------------------------------------------------
(* Writing the store. *)

\* Mutant of Write: the iteration keys of deleted heights stay.
WriteKeepsKeys(c, deleted, installed, state, meta) ==
  /\ consensusState' = [consensusState EXCEPT ![c] = [h \in Heights |->
       IF h \in installed THEN state ELSE IF h \in deleted THEN None ELSE @[h]]]
  /\ processed' = [processed EXCEPT ![c] = [h \in Heights |->
       IF h \in installed THEN meta ELSE IF h \in deleted THEN None ELSE @[h]]]
  /\ iterationKeys' = [iterationKeys EXCEPT ![c] = @ \cup installed]

\* The consensus states at the heights "deleted" go, "state" is stored at those in
\* "installed", with the metadata and the iteration keys.
Write(c, deleted, installed, state, meta) ==
  /\ consensusState' = [consensusState EXCEPT ![c] = [h \in Heights |->
       IF h \in installed THEN state ELSE IF h \in deleted THEN None ELSE @[h]]]
  /\ processed' = [processed EXCEPT ![c] = [h \in Heights |->
       IF h \in installed THEN meta ELSE IF h \in deleted THEN None ELSE @[h]]]
  /\ iterationKeys' = [iterationKeys EXCEPT ![c] = (@ \ deleted) \cup installed]

\* Block time and height, recorded with every consensus state a message brings.
SelfMetadata == [time |-> now, height |-> height]

NextBlock ==
  \E interval \in 1..MaxBlockInterval :
    /\ now + interval <= MaxTime
    /\ now' = now + interval
    /\ height' = height + 1
    /\ UNCHANGED <<clientState, consensusState, processed, iterationKeys, proofs>>

\* What a client state must satisfy, of the parameters that are modelled.
Validate(trusting, unbonding) == 0 < trusting /\ trusting < unbonding

\* MsgCreateClient.  The creator chooses the periods and the consensus state; here it
\* takes it from a header.
CreateClient(c, header, trusting, unbonding) ==
  /\ ~Created(c)
  /\ Validate(trusting, unbonding)
  /\ ~IsExpired(trusting, header.time)
  /\ clientState' = [clientState EXCEPT ![c] =
       [chain |-> Revision[header.height], latest |-> header.height, frozen |-> FALSE,
        trusting |-> trusting, unbonding |-> unbonding]]
  /\ Write(c, {}, {header.height}, ConsensusStateOf(header), SelfMetadata)
  /\ UNCHANGED <<now, height, proofs>>

-----------------------------------------------------------------------------
(* Updates. *)

\* Enough of the validators the trusted consensus state announced have signed the
\* header (VerifyCommitLightTrusting of CometBFT).
TrustedBy(trusted, header) == <<trusted.nextValidators, header.validators>> \in TrustLevel

\* Verification of a signed header from a trusted one, by package light of CometBFT.
LightVerify(cs, trustedHeight, trusted, header) ==
  /\ Revision[header.height] = cs.chain
  /\ ~IsExpired(cs.trusting, trusted.time)
  /\ header.time > trusted.time
  /\ header.time < now + MaxClockDrift
  /\ IF header.height = trustedHeight + 1
     THEN header.validators = trusted.nextValidators
     ELSE TrustedBy(trusted, header)

\* The header is verified from the consensus state of the height that comes with it,
\* as do the trusted validators, which have to be those that state announced.
verifyHeader(c, header) ==
  \E trustedHeight \in Heights : LET trusted == consensusState[c][trustedHeight] IN
    /\ trusted # None
    /\ Revision[header.height] = Revision[trustedHeight]
    /\ trustedHeight < header.height
    /\ LightVerify(clientState[c], trustedHeight, trusted, header)

\* Mutant of HeaderMisbehaviour: the next consensus state is not looked at.
HeaderMisbehaviourPrevious(c, header) ==
  LET stored == consensusState[c][header.height] IN
  IF stored # None
  THEN stored # ConsensusStateOf(header)
  ELSE \E previous \in GetPreviousConsensusState(c, header.height) :
         ~(previous.time < header.time)

\* Another header is stored for the height, or time does not increase between the
\* stored neighbours.
HeaderMisbehaviour(c, header) ==
  LET stored == consensusState[c][header.height] IN
  IF stored # None
  THEN stored # ConsensusStateOf(header)
  ELSE \/ \E previous \in GetPreviousConsensusState(c, header.height) :
            ~(previous.time < header.time)
       \/ \E next \in GetNextConsensusState(c, header.height) :
            ~(next.time > header.time)

\* The oldest height, if its consensus state has expired.
PruneHeights(c) ==
  {h \in iterationKeys[c] :
     /\ \A g \in iterationKeys[c] : h <= g
     /\ consensusState[c][h] # None => IsExpired(clientState[c].trusting, consensusState[c][h].time)}

\* pruneOldestConsensusState panics when an iteration key leads nowhere.
PrunePanics(c) == \E h \in PruneHeights(c) : consensusState[c][h] = None

\* Mutant of UpdateState: a header that is already there is stored again.
UpdateStateAgain(c, header) ==
  /\ ~PrunePanics(c)
  /\ clientState' = [clientState EXCEPT ![c] =
       [@ EXCEPT !.latest = IF header.height > @ THEN header.height ELSE @]]
  /\ Write(c, PruneHeights(c), {header.height}, ConsensusStateOf(header), SelfMetadata)

\* The oldest consensus state is pruned; a header that is already there is not stored
\* again.
UpdateState(c, header) ==
  LET pruned == PruneHeights(c)
      found == consensusState[c][header.height] # None /\ header.height \notin pruned
      cs == clientState[c]
  IN
  /\ ~PrunePanics(c)
  /\ clientState' = [clientState EXCEPT ![c] =
       [cs EXCEPT !.latest = IF ~found /\ header.height > @ THEN header.height ELSE @]]
  /\ Write(c, pruned, IF found THEN {} ELSE {header.height},
           ConsensusStateOf(header), SelfMetadata)

Freeze(c) ==
  /\ clientState' = [clientState EXCEPT ![c] = [@ EXCEPT !.frozen = TRUE]]
  /\ UNCHANGED <<consensusState, processed, iterationKeys>>

\* MsgUpdateClient with a header.
UpdateClient(c, header) ==
  /\ Active(c)
  /\ verifyHeader(c, header)
  /\ IF HeaderMisbehaviour(c, header) THEN Freeze(c) ELSE UpdateState(c, header)
  /\ UNCHANGED <<now, height, proofs>>

\* A header of a misbehaviour would have convinced the client, were it not for its
\* time and revision, which are not looked at.
checkMisbehaviourHeader(c, header) ==
  \E trustedHeight \in Heights : LET trusted == consensusState[c][trustedHeight] IN
    /\ trustedHeight < header.height
    /\ trusted # None
    /\ ~(now - trusted.time >= clientState[c].trusting)
    /\ TrustedBy(trusted, header)

\* Two headers of one chain identifier, the higher one first.
ValidateBasic(header1, header2) ==
  /\ Revision[header1.height] = Revision[header2.height]
  /\ header1.height >= header2.height

\* Two headers of one height, or a higher one that is not later in time.
CheckForMisbehaviour(header1, header2) ==
  IF header1.height = header2.height
  THEN header1 # header2
  ELSE ~(header1.time > header2.time)

\* MsgSubmitMisbehaviour, or MsgUpdateClient with a misbehaviour.
SubmitMisbehaviour(c, header1, header2) ==
  /\ Active(c)
  /\ ValidateBasic(header1, header2)
  /\ checkMisbehaviourHeader(c, header1)
  /\ checkMisbehaviourHeader(c, header2)
  /\ CheckForMisbehaviour(header1, header2)
  /\ Freeze(c)
  /\ UNCHANGED <<now, height, proofs>>

-----------------------------------------------------------------------------
(* Upgrades, recovery, migration. *)

\* The consensus state an upgrade installs, to verify the first headers from.
UpgradedConsensusState(plan) ==
  [time |-> plan.time, root |-> SentinelRoot, nextValidators |-> plan.nextValidators]

\* Mutant of UpgradeClient: the client goes on with the old chain identifier.
UpgradeClientKeepsChain(c, plan) ==
  LET cs == clientState[c] IN
  /\ Active(c)
  /\ plan.latest > cs.latest
  /\ plan.last = cs.latest
  /\ plan.root = consensusState[c][cs.latest].root
  /\ Validate(cs.trusting, plan.unbonding)
  /\ clientState' = [clientState EXCEPT ![c] =
       [@ EXCEPT !.latest = plan.latest, !.unbonding = plan.unbonding]]
  /\ Write(c, {}, {plan.latest}, UpgradedConsensusState(plan), SelfMetadata)
  /\ UNCHANGED <<now, height, proofs>>

\* MsgUpgradeClient.  The plan is proved against the latest consensus state, under a
\* path that names the latest height.
UpgradeClient(c, plan) ==
  LET cs == clientState[c] IN
  /\ Active(c)
  /\ plan.latest > cs.latest
  /\ plan.last = cs.latest
  /\ plan.root = consensusState[c][cs.latest].root
  /\ Validate(cs.trusting, plan.unbonding)
  /\ clientState' = [clientState EXCEPT ![c] =
       [chain |-> Revision[plan.latest], latest |-> plan.latest, frozen |-> FALSE,
        trusting |-> cs.trusting, unbonding |-> plan.unbonding]]
  /\ Write(c, {}, {plan.latest}, UpgradedConsensusState(plan), SelfMetadata)
  /\ UNCHANGED <<now, height, proofs>>

\* Subject and substitute share the parameters that recovery does not change.
IsMatchingClientState(subject, substitute) == subject.unbonding = substitute.unbonding

\* Mutants of MaySubstitute: a substitute of the same height will do; one that is not
\* active will do.
MaySubstituteEqual(subject, substitute) ==
  LET cs == clientState[subject]
      sub == clientState[substitute]
  IN
  /\ Created(subject) /\ Status(subject) # "Active"
  /\ Created(substitute)
  /\ cs.latest <= sub.latest
  /\ Status(substitute) = "Active"
  /\ IsMatchingClientState(cs, sub)

MaySubstituteInactive(subject, substitute) ==
  LET cs == clientState[subject]
      sub == clientState[substitute]
  IN
  /\ Created(subject) /\ Status(subject) # "Active"
  /\ Created(substitute)
  /\ cs.latest < sub.latest
  /\ IsMatchingClientState(cs, sub)

\* What the client keeper and the light client ask of a substitute.
MaySubstitute(subject, substitute) ==
  LET cs == clientState[subject]
      sub == clientState[substitute]
  IN
  /\ Created(subject) /\ Status(subject) # "Active"
  /\ Created(substitute)
  /\ cs.latest < sub.latest
  /\ Status(substitute) = "Active"
  /\ IsMatchingClientState(cs, sub)

\* A client update proposal passes: the subject takes over the latest consensus state
\* of the substitute, with its metadata, and is no longer frozen.
ClientUpdateProposal(subject, substitute) ==
  LET cs == clientState[subject]
      sub == clientState[substitute]
  IN
  /\ MaySubstitute(subject, substitute)
  /\ clientState' = [clientState EXCEPT ![subject] =
       [chain |-> sub.chain, latest |-> sub.latest, frozen |-> FALSE,
        trusting |-> sub.trusting, unbonding |-> cs.unbonding]]
  /\ processed[substitute][sub.latest] # None
  /\ Write(subject, {}, {sub.latest}, consensusState[substitute][sub.latest],
           processed[substitute][sub.latest])
  /\ UNCHANGED <<now, height, proofs>>

\* The heights whose consensus states have expired; the iteration stops at a key
\* that leads nowhere.
ExpiredHeights(c) ==
  {h \in iterationKeys[c] :
     /\ \A g \in iterationKeys[c] : g <= h => consensusState[c][g] # None
     /\ IsExpired(clientState[c].trusting, consensusState[c][h].time)}

\* A store migration prunes every expired consensus state, the latest one included.
PruneExpiredConsensusStates ==
  LET expired == [c \in Clients |-> IF Created(c) THEN ExpiredHeights(c) ELSE {}] IN
  /\ Migrating
  /\ \E c \in Clients : expired[c] # {}
  /\ consensusState' = [c \in Clients |-> [h \in Heights |->
       IF h \in expired[c] THEN None ELSE consensusState[c][h]]]
  /\ processed' = [c \in Clients |-> [h \in Heights |->
       IF h \in expired[c] THEN None ELSE processed[c][h]]]
  /\ iterationKeys' = [c \in Clients |-> iterationKeys[c] \ expired[c]]
  /\ UNCHANGED <<now, height, clientState, proofs>>

-----------------------------------------------------------------------------
(* Proofs. *)

verifyDelayPeriodPassed(c, h, delay) ==
  /\ delay[1] # 0 => processed[c][h] # None /\ ~(now < processed[c][h].time + delay[1])
  /\ delay[2] # 0 => processed[c][h] # None /\ ~(height < processed[c][h].height + delay[2])

\* A proof at height h is accepted, by VerifyMembership or VerifyNonMembership, over
\* a connection with the given delays.  Nothing can be proved of the sentinel root.
VerifyMembership(c, h, delay) ==
  /\ Active(c)
  /\ ~(clientState[c].latest < h)
  /\ verifyDelayPeriodPassed(c, h, delay)
  /\ consensusState[c][h] # None
  /\ consensusState[c][h].root # SentinelRoot
  /\ Cardinality(proofs) < MaxProofs
  /\ proofs' = proofs \cup {[client |-> c, height |-> h, root |-> consensusState[c][h].root]}
  /\ UNCHANGED <<now, height, clientState, consensusState, processed, iterationKeys>>

-----------------------------------------------------------------------------

ClientStep(c) ==
  \/ \E header \in SignedHeaders, t \in TrustingPeriods[c], u \in UnbondingPeriods :
       CreateClient(c, header, t, u)
  \/ \E header \in SignedHeaders : UpdateClient(c, header)
  \/ \E header1, header2 \in SignedHeaders : SubmitMisbehaviour(c, header1, header2)
  \/ \E plan \in Upgrades : UpgradeClient(c, plan)
  \/ \E substitute \in Clients : ClientUpdateProposal(c, substitute)
  \/ \E h \in Heights, delay \in DelayPeriods : VerifyMembership(c, h, delay)

Next == NextBlock \/ PruneExpiredConsensusStates \/ \E c \in Clients : ClientStep(c)

Spec == Init /\ [][Next]_vars

-----------------------------------------------------------------------------
(* Properties. *)

\* Types of the client stores.  No proof is ever accepted against the sentinel root
\* of a consensus state that an upgrade installed.
TypeOK ==
  /\ now \in Nat /\ height \in Nat
  /\ clientState \in [Clients -> ClientStates \cup {None}]
  /\ consensusState \in [Clients -> [Heights -> ConsensusStates \cup {None}]]
  /\ processed \in [Clients -> [Heights -> Metadata \cup {None}]]
  /\ iterationKeys \in [Clients -> SUBSET Heights]
  /\ proofs \subseteq [client : Clients, height : Heights, root : Roots]

Stored(c) == {h \in Heights : consensusState[c][h] # None}

\* The consensus states, their metadata and the iteration keys of a client are of the
\* same heights, none above the latest one, whose revision is the chain identifier's:
\* pruneOldestConsensusState never panics ("this error should never occur") and no
\* consensus state is out of reach of pruning.
StoreConsistent ==
  \A c \in Clients :
    /\ iterationKeys[c] = Stored(c)
    /\ \A h \in Heights : processed[c][h] # None <=> h \in Stored(c)
    /\ Stored(c) # {} => Created(c)
    /\ Created(c) => /\ Revision[clientState[c].latest] = clientState[c].chain
                     /\ \A h \in Stored(c) : h <= clientState[c].latest

\* The consensus state is of a signed header or of an upgrade to height h.
Originates(h, state) ==
  \/ \E header \in SignedHeaders : header.height = h /\ state = ConsensusStateOf(header)
  \/ \E plan \in Upgrades : plan.latest = h /\ state = UpgradedConsensusState(plan)

\* The root a proof was checked against is still there, or was pruned and all that is
\* stored is above it, where no header of its height can be verified from.
ProofBacked(p) ==
  /\ Created(p.client) /\ p.height <= clientState[p.client].latest
  /\ \/ /\ p.height \in Stored(p.client)
        /\ consensusState[p.client][p.height].root = p.root
     \/ \A h \in Stored(p.client) : p.height < h

\* The inductive invariant of the light clients.
ClientInv ==
  /\ TypeOK
  /\ StoreConsistent
  /\ \A c \in Clients : \A h \in Stored(c) : Originates(h, consensusState[c][h])
  /\ ~Migrating => \A p \in proofs : ProofBacked(p)

\* What a step leaves of the consensus states that are stored before and after it.
KeepsStored ==
  \A c \in Clients, h \in Heights :
    consensusState[c][h] # None /\ consensusState'[c][h] # None =>
      /\ consensusState'[c][h] = consensusState[c][h]
      /\ processed'[c][h] = processed[c][h]

\* A stored consensus state is never replaced, by a duplicate update, an upgrade or a
\* recovery, and the processed time and height from which delay periods count are not
\* renewed: all that can happen to it is to be pruned.
StoredIsFixed == [][KeepsStored]_vars

\* What a step may do to a client: a frozen one stays as it is or takes over from one
\* that is active and further on, and none goes back.
Recovers(c) ==
  /\ clientState'[c].latest >= clientState[c].latest
  /\ clientState[c].frozen /\ clientState'[c] # clientState[c] =>
       /\ clientState'[c].latest > clientState[c].latest
       /\ \E substitute \in Clients :
            /\ Active(substitute)
            /\ clientState'[c].latest = clientState[substitute].latest

\* A client that is frozen stays as it is until a proposal gives it the consensus
\* state of a client that is active and further on; no client ever goes back.
FrozenUntilRecovered == [][\A c \in Clients : Created(c) => Recovers(c)]_vars

\* However headers, forks, upgrades, pruning and recoveries follow each other, all the
\* proofs a client ever accepted at a height were checked against the same root.  A
\* migration that prunes in the middle of the heights is the exception.
ProofsAgree ==
  ~Migrating => \A p, q \in proofs :
    p.client = q.client /\ p.height = q.height => p.root = q.root

InOrder(c) ==
  \A g, h \in Stored(c) :
    g < h /\ Revision[g] = Revision[h] => consensusState[c][g].time < consensusState[c][h].time

\* Every upgrade leads to a new revision.
NewRevisions == \A plan \in Upgrades : Revision[plan.last] < Revision[plan.latest]

\* The consensus states of one revision stay in the order of their times, even when the
\* headers come in another order and are forged: CheckForMisbehaviour looks at the
\* neighbours only.  The exceptions are a recovery, of a client that is not active, and
\* an upgrade that stays in its revision, whose time UpgradeClient takes as it comes.
TimesStayInOrder ==
  [][NewRevisions => \A c \in Clients : Active(c) /\ InOrder(c) => InOrder(c)']_vars

\* The other chain signs one header per height, time increases from one to the next,
\* and an upgrade leads to the beginning of a revision, with a time before it.
Honest ==
  /\ \A h1, h2 \in SignedHeaders :
       /\ h1.height = h2.height => h1 = h2
       /\ h1.height < h2.height => h1.time < h2.time
  /\ \A p \in Upgrades :
       /\ Revision[p.last] < Revision[p.latest]
       /\ \A q \in Upgrades : Revision[p.latest] = Revision[q.latest] => p.latest = q.latest
       /\ \A header \in SignedHeaders :
            /\ Revision[header.height] = Revision[p.latest] => header.height >= p.latest
            /\ header.height >= p.latest => header.time > p.time

\* Nobody can freeze the client of an honest chain: no order of headers, with skipped
\* heights filled in later, pruned neighbours, upgrades and recoveries in between, is
\* taken for misbehaviour.
HonestNeverFrozen ==
  Honest => \A c \in Clients : Created(c) => ~clientState[c].frozen

-----------------------------------------------------------------------------
(* Liveness. *)

\* Blocks keep coming, and some relayer keeps submitting what a client lacks, headers
\* or upgrades.
Fairness ==
  /\ WF_vars(NextBlock)
  /\ \A c \in Clients :
       WF_vars(\/ \E header \in SignedHeaders : UpdateClient(c, header)
               \/ \E plan \in Upgrades : UpgradeClient(c, plan))

FairSpec == Spec /\ Fairness

\* A client that is kept up to date reaches the last height, through changes of the
\* validators, an upgrade and into the next revision, unless it expires on the way.
\* One that is active is never stuck, at the very end of its trusting period either:
\* Status and the verification of headers agree on when that is.
CatchesUp ==
  \A c \in Clients : Created(c) ~>
    /\ Created(c)
    /\ \/ clientState[c].latest = Max({h.height : h \in SignedHeaders})
       \/ Status(c) = "Expired"
=============================================================================
