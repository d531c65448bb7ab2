# Verification of ibc-go

TLA+ specifications of the IBC protocol as this repository implements it, the
TLC configurations that model-check them, and TLAPS proofs about them.

## The system

Two chains that cannot read each other's state exchange packets. Each chain
commits to its state in the header of every block; the other chain keeps a
light client that stores some of these headers, and checks proofs about the
first chain's state against them. Relayers, who are trusted with nothing, carry
headers, proofs and packets. Every message a relayer submits is a transaction:
its handler either completes or leaves no trace.

What makes it hard: messages are duplicated, late, reordered or never relayed;
a packet races its own timeout on two chains with different clocks; a channel
closes under packets in flight; a light client expires, is pruned or is
recovered while proofs are on their way; several handshakes for the same ends
are under way at once; applications fail after the protocol has taken its step,
or acknowledge much later; memory that is not part of the store survives a
failed transaction and not a restart.

| part of the system | module | what it specifies |
|---|---|---|
| 04-channel packets, message server | `Packet` | the packet life cycle of one channel between two chains |
| | `PacketLifecycle` | what a channel promises about one direction, without chains or proofs |
| | `PacketInvariant` | the inductive invariants of `Packet` |
| 07-tendermint, 02-client | `TendermintClient` | the light clients one chain keeps of another |
| 06-solomachine | `Solomachine` | a client whose counterparty is one key and a sequence |
| 03-connection | `ConnectionHandshake`, `Versions` | the opening handshake, version negotiation |
| 04-channel handshake | `ChannelHandshake` | opening and closing, with the applications' callbacks |
| both handshakes | `Agreement` | what a handshake promises |
| 23-commitment | `MerkleProof` | chained membership and non-membership proofs |
| apps/transfer | `Transfer` | escrow, vouchers, refunds between several chains |
| apps/29-fee | `Fee` | escrowed fees, their distribution and refund |
| apps/27-interchain-accounts | `InterchainAccounts` | controllers, hosts and their channels |
| capability, 05-port | `Capability` | capabilities in the store, in memory and in a Go map |
| core/ante | `RedundantRelay` | the decorator that refuses redundant relays |

The modules compose in layers. `Packet` implements `PacketLifecycle`, and
`Transfer` and `Fee` stand on the packet layer that `PacketLifecycle` describes;
both handshakes implement `Agreement`, and `ChannelHandshake` takes from
`ConnectionHandshake` that the ends of a connection name each other. `Packet` has
its own, coarser client, a set of heights and whether it is active: that it agrees
with `TendermintClient` is by comparison, not by a checked refinement.

The modules named `MC...` give the constants values for TLC. `PacketProofs`,
`PacketFates`, `TendermintProofs`, `SolomachineProofs`, `ConnectionProofs`,
`ChannelProofs`, `AccountsProofs` and `CapabilityProofs` hold the proofs; those about
`MerkleProof` are at the head of `ChannelProofs`.

## How the models correspond to the code

An action is a message handler: the keeper's method with what the message server
does around it, the application's callback included. A message that the code
answers with an error or `ErrNoOpMsg` changes nothing and is a stuttering step. A
relayer is free in what to submit, when, how often, and with the proof of which
height.

`Packet`. Its state is, per chain,

* `blocks`: the time of each block and the store its header commits to. Header
  `h` commits to the store left by block `h - 1`: the lag of one block on which
  the timeout rule depends;
* `store`: the keys under one channel end (state, next sequences, commitments,
  receipts, acknowledgements). A commitment stands for the packet it hashes;
* `client`: the heights whose headers the light client holds, and whether it is
  active (neither expired nor frozen);
* `app`: what the application sent, was asked to receive, wrote, and was told.

The initial state is the one just after the `ChanOpenAck` of chain `A`, with `B`
still in `TRYOPEN`, so that `ChanOpenConfirm` races with the first packets. Left
out: the data of packets, identifiers (there is one channel), revision numbers,
capabilities, connections (open at both ends) and delay periods, which only make
fewer proofs acceptable. A proof verifies exactly what the committed store holds.

`TendermintClient`. Its state is, per client, the keys of its store: `clientState`,
`consensusState` and `processed` (processed time and height) by height, and
`iterationKeys`, kept apart because the code writes and deletes them apart;
`proofs` records which proofs were accepted. The other chain is the constant set
`SignedHeaders`, which may hold two headers for a height or times out of order. A
relayer chooses the trusted height of a header: `verifyHeader` asks for some that is
accepted. `light.Verify` of CometBFT is modelled from its use, signatures as the
relation `TrustLevel` between validator sets. A height stands for a revision number
and a height in it. Left out: chain identifiers but for their revision number, the
allow list of client types, proof specifications, upgrade paths, and the scheduling
of an upgrade on the upgrading chain (`Upgrades` is what it committed to).

`Solomachine`. The client state with its key and sequence, what the key's owner
signed, and what was accepted. Signatures are ideal: one that verifies was made.

`ConnectionHandshake` and `ChannelHandshake`. Per chain the ends and the headers; a
connection's client may follow another chain than the one it is named for, and then
whatever it is shown may be provable. `ChannelHandshake` opens its connections by an
action of its own, so that a channel may be proposed on one that is not open yet, with
an ordering that the version the other chain picks for the connection then lacks.

`Transfer`. Balances, escrow, vouchers by trace, the recorded total of escrow and
the packets of each channel end, on any graph of channels. Memo and authorisations
are left out. `Fee` has the module account, the fees on record, payees, the lock and
the life of the packets, on several channels that are all fee enabled. Identifiers of
channels are strings there, because closing goes through all fees whose keys begin with
the channel's; `refundedKept` records what closings refunded and kept on record. `InterchainAccounts` has the
ends of each port's channels, the active channel either chain stores and the
accounts; a message is abstracted to its signer and whether it succeeds.

`Capability`. The persistent store, the memory store, the Go map and the running
transaction, with restarts. `OneName` states how the modules of this repository use
it, a capability by one name per module. `lost` records the capabilities whose last
owner released them in a transaction that failed since the node started: the stores go
back with the transaction, the Go map does not.

`RedundantRelay`. The mempool, the check state and the committed state; the four
packet messages differ only in the handler they call and are one. `MerkleProof`
takes a root for the content of its tree, from which nothing can be calculated when it is
empty; the ICS 23 library is external and the escaping of keys is left out.

## The runs

| run | instance | what it shows |
|---|---|---|
| packet_unordered | two packets from A, timeouts by height, B acknowledges at once or later, either end closes, A's client fails and recovers | received and timed out exclude each other; callbacks once; one acknowledgement both ends agree on; closed is final; the abstract life cycle; every packet is resolved |
| packet_ordered | two packets on an ordered channel, timeouts by height and time, blocks of uneven length, B may close | the inductive invariant `FateInv`; order; what a timeout stops; the abstract life cycle; both ends get closed |
| tendermint_forks | two clients, height 3 signed twice, once no later than height 2; an upgrade, delay periods, two recorded proofs | the inductive invariant `ClientInv`; proofs at one height agree; nothing stored is replaced; only recovery revives a frozen client; times stay in order |
| tendermint_honest | two clients of an honest chain of two revisions, one that may expire and one whose trusting period outlasts the run, upgrade, migration | no client of it is ever frozen; one that is kept up to date follows the chain to its end, through the upgrade |
| connection | one initiative of A, two answers of B, a client of A that follows another chain, two releases, two delay periods, B's client may fail | open ends agree, on a version both support; clients follow each other; the abstract agreement; half-open handshakes finish |
| channel | one initiative of A on a connection not open yet, two answers over two connections, one of which loses an ordering when it opens, two versions, A may close, B's client may fail | open ends agree; the abstract agreement; a closed end gets its partner closed |
| transfer | a token of A on a triangle of three chains, amounts 1 and 2, B switches transfers off | vouchers are backed by escrow; nothing is created or lost; every transfer settles |
| fee | `channel-1`, which may close, and `channel-10`, a packet with up to two fees on each, two payers one of whom may become unpayable, two relayers, late acknowledgements | the account holds what the records say, but for what a closing refunded and kept on record; what leads to the lock; the relayer named delivered; fees are paid out |
| accounts | one owner with two channels in turn and two transactions, another with one; the host may be disabled | one open channel and one account per owner, order, routing; control is regained after a timeout |
| capability | two modules, two names, three capabilities, failed transactions, restarts, genesis | memory follows the store; nothing but what is `lost` is missing from the map; only transactions change owners |
| solomachine | two keys, three sequences, three signatures | no signature is accepted twice; only a double signature freezes |
| redundant_relay | two packets, nine kinds of transactions, three in the mempool | no relayer pays for packets that had all been relayed; what failed can be submitted again |

Bounds. Every constant named `Max...` (and `Funds`, `Supply`) appears in guards only
or is the size of a set that inputs are taken from. The smallest chain on which a
timeout at height 3 is not yet, just, and provably reached has three blocks, and two
packets are the fewest that can overtake each other. The light clients have five
heights in two revisions: three are the fewest with a skipped one between two stored
neighbours, and the second revision needs one for the upgrade and one after it. Two
clients are what a recovery needs, and two proofs what `ProofsAgree` compares.
Trusting periods are shorter than `MaxTime`, so that clients expire and prune, but for
that of one client of the honest chain, which has to catch up with all of it. Two
answers to one initiative are what a handshake may be confused by. A triangle is the
smallest graph on which a voucher comes home by another way than it left. The three
parts of a fee differ, so that none can stand for another. `channel-1` and `channel-10` are
the first identifiers one of which begins with the other.

Deadlock is looked for in `capability` and `redundant_relay`. The other systems stop
when the bounds are reached or everything is settled.

Fairness. Blocks are produced, and some relayer submits client updates,
acknowledgements, timeouts, closings and answers to handshakes that would succeed:
this is what the protocol assumes of its relayers, one of which must be alive. No
fairness is assumed of `RecvPacket` (a packet that is never relayed times out), of
sending, of creation, misbehaviour, recovery or migration of clients, of opening a
channel or closing it by an application, or of late acknowledgements. For a light client
it is that one of the headers or upgrades it would accept is submitted, whichever.
Fairness of `Transfer`, `Fee` and `InterchainAccounts` is that some relaying of a packet,
or for the last a new registration by the owner, happens while it can. An end that
closes in the last block of the bounded chain cannot be proved closed;
`ClosedAtHorizon` exempts exactly that. Liveness is promised only while the clients
are alive (`ClientLost`), and in `Fee` while the module is not locked.

Limits that the properties state:

* `ProofsAgree` is without the pruning migration. With it and a client recovered with
  an earlier time above a later one, pruning all that has expired may empty a height
  between stored ones, which another header then fills.
* `TimesStayInOrder` is of active clients: a recovery may bring a consensus state
  earlier than those stored. An upgrade within a revision is exempt as well, because
  its time is the upgrading chain's choice.
* `EveryPacketResolved` exempts a packet that was received while the sender's end is
  closed: `AcknowledgePacket` wants the end open.
* `ClosureSpreads` is of ends that name each other. An end in TRYOPEN whose partner
  closed while still in INIT has nothing to prove `ChanCloseConfirm` with and can only
  be closed by its own application.
* `CatchesUp` exempts clients that expire before anybody updates them.
* `FeesPaidOut` is checked on unordered channels (see below), and exempts a packet that
  was received while its application has not acknowledged it.
* `EscrowBacksFees` is exact while every payer can be refunded; after that it bounds what
  the account lacks by what closings refunded of packets whose fees stay on record.
* `CapabilityInv` exempts the capabilities in `lost` from having an object in the Go map.
* `NoFeesWasted` is of transactions that `AnteHandle` looks through: it stops at the
  first message of another kind.

## The proofs

The proofs are for every value of the constants: any number of packets, heights,
clients, headers, forks, keys and bounds. They rest on the assumptions the modules
name and on nothing else: `ChainsAssumption` and `ConstantsAssumption` of `Packet` (two
chains; bounds and timeouts are natural numbers; an ordering), `ClientConstants` of
`TendermintClient` (heights and times are natural numbers, revisions do not decrease
with the height, headers and upgrades have their types), `SolomachineAssumption`
(bounds are natural numbers, and sequences and times begin at 1), `HandshakeAssumption`
of `ConnectionHandshake` (two chains; bounds are natural numbers and there is a first
block; a chain's versions have different identifiers, as in `GetCompatibleVersions`,
"a descending ordered set"), `ChannelAssumption` (the same bounds; connections carry
orderings, of those they were proposed with), `InterchainAccountsAssumption` (bounds are natural numbers; an account is
registered with or without an underlying application) and `CapabilityAssumption` (there
is a module "ibc"; names are numbered from 1; bounds are natural numbers). The two
theorems about capabilities also have the hypothesis `OneName`, which is how the run sets
this constant.

| theorem | states |
|---|---|
| `PacketTypeCorrect`, `PacketInvariance` | `Spec => []TypeOK`, `Spec => []PacketInv` |
| `TimedOutNeverReceived` | `Spec => []NeverReceivedAndTimedOut` |
| `FateInvariance` | `Spec => []FateInv` |
| `ReceivedExactlyOnce`, `SenderToldOnce`, `AcknowledgementsAlwaysAgree` | `ExactlyOnce`, `ToldOnce`, `AcknowledgementsAgree` |
| `DeliveredInOrder`, `TimeoutAlwaysBlocks` | `OrderedDelivery`, `TimeoutBlocksOrderedChannel` |
| `ClosedAlwaysFinal` | the action property `ClosedIsFinal` |
| `RefinesLifecycle` | `Spec => LifecycleFromA`: `Packet` implements `PacketLifecycle` |
| `ClientTypeCorrect`, `StoreAlwaysConsistent`, `ClientInvariance` | `TypeOK`, `StoreConsistent` and `ClientInv` of the light clients |
| `StoredNeverReplaced`, `FrozenStaysFrozen`, `TimesAlwaysInOrder` | the action properties `StoredIsFixed`, `FrozenUntilRecovered`, `TimesStayInOrder` |
| `ProofsAlwaysAgree`, `HonestChainsNeverFrozen` | `ProofsAgree`, `HonestNeverFrozen` |
| `SolomachineTypeCorrect`, `NeverReplayed`, `OnlyDoubleSignatureFreezes` | `TypeOK`, `NoReplay`, `FrozenByDoubleSignature` |
| `ConnectionInvariance`, `ConnectedClientsFollow` | `ConnectionInv`, `ClientsFollowEachOther` |
| `ChannelInvariance` | `ChannelInv` |
| `ConnectionsAgree`, `ChannelsAgree` | `Spec => HandshakeAgrees`: each handshake implements `Agreement` |
| `AccountsInvariance` | `AccountsInv` |
| `CapabilityInvariance` | `CapabilityInv` |
| `OwnersByTransactions` | the action property `OnlyTransactionsChangeOwners` |
| `MembershipSound`, `NonMembershipSound`, `HonestProofsVerify` | what chained proofs show of a tree, and that the honest ones are accepted: of a value that is not empty, and of the absence of a key from a store that is not empty |

*Packets.* `NeverReceivedAndTimedOut` is not inductive: nothing in it says why a packet
that has timed out cannot be received afterwards, nor why a proof about an old header
says anything of the present. `PacketInv` adds: a timed-out packet is past its
timeout on the destination, or the destination is closed (`TimeoutFinal`); a packet
received but missing in header `h` had not reached its timeout at `h`
(`LateReceipt`); what a header shows of receipts stays so, and a header that shows
the end closed shows its last receipts (`RootsAgree`); and the bookkeeping that ties
sequence numbers to packets. `LateReceipt` is kept by `RecvPacket` because block
times and heights grow (`TimesIncrease`), by `SendPacket` because a new sequence
number has been received by nobody (`OnlySentReceived`), and by `NextBlock` because
the new header shows everything.

*What the applications see.* `FateInv` adds to `PacketInv` the histories. The sender's
commitments are what it sent without what it was told of, so that a second
acknowledgement or timeout finds no commitment (`ToldAsWritten`); an acknowledgement
the sender was told of is still in the other end's store and is the only one of its
sequence, because a header's acknowledgements are never taken back
(`AcknowledgedOnce`); on an ordered channel `nextSequenceRecv` and, until the end
closes, `nextSequenceAck` count the callbacks (`ReceivedOnce`, `ToldInOrder`).

*Refinement.* The state of `PacketLifecycle` is computed from the histories of `Packet`.
`RefinesLifecycle` shows for each handler that it is a step of the life cycle or leaves
it alone; the steps of the other direction, of the clients and of the channel leave
it alone. `FateInv` gives the guards: that a packet to be delivered has not timed out,
and the other way round.

*Light clients.* `StoreConsistent` says that the three kinds of key of a height are
written and deleted together, that the latest height stays in the revision of the
chain identifier, and that nothing is stored above it. An upgrade and a recovery write
without looking whether something is stored; they replace nothing because their height
is above the latest one. An update looks only after pruning; it does not prune a state
and store it anew, because a header is verified from a lower height that is stored.

`ClientInv` adds that all that is stored comes from the other chain, and that the
root of every accepted proof is still stored or lies below everything that is
(`ProofBacked`). `ProofsAgree` does not follow from `ClientInv` alone, since two proofs
at a pruned height could differ; the two are inductive together, because a height
below all that are stored can never be filled again. `TimesStayInOrder` and
`HonestNeverFrozen` need that the neighbours `CheckForMisbehaviour` compares a header
with are the nearest ones; that they exist is proved by well-founded induction on
the natural numbers.

*Solo machine.* `NoReplay` needs that the sequences of accepted messages increase and
are below the client's (`SequencesUsed`): a recovery takes the substitute's sequence
only when it is higher.

*Handshakes.* That open ends agree (`OpenEndsAgree`) is not inductive: an end opens on
the proof of a header that may be old, and nothing says that what it shows still
holds. `HeadersLast` does: an end that any header shows past INIT differs from what it
is now in its state at most. It is kept because the handlers that follow change an
end past INIT in nothing else, and it makes a proof of any height speak of the
present. An end in INIT is different: it may become anything that `ConnOpenAck` or
`ChanOpenAck` makes of it, so `ConnOpenTry` and `ChanOpenTry` learn only what was
offered. For connections every end, now and in headers, is `Sound`: an end past INIT
has one version that both chains support, and its clients follow each other; an
end in INIT offers versions its chain supports. That `PickVersion` finds a version both
chains support uses that identifiers are unique and that a set of positions has a
least one. For channels `Carried` says that the connection of an end that knows its
counterparty supports its ordering, which an end in INIT gets from the end that answers
it, and `ToldAgree` says that what an application was told of an end
still holds but for its closing. The refinement of `Agreement` shows that the one step
that opens an end adds one joint, and that the end it is joined to, if it is joined
already, is joined back on the same terms.

*Interchain accounts.* `OneOpenChannel`, `OneAccountPerOwner`, `OnlyOwnersExecute` and
`ExecutedInOrderOnChannel` need three more facts: the two ends of a channel are on one
port and an end past its first state knows its partner (`EndsMatch`), a channel's
packets carry the owner's transactions in the order of submission and the received
ones come first (`PacketsInOrder`), and what was executed came in a packet that its
channel has received (`ExecutedWereReceived`). The next packet the host accepts is
therefore later than everything the channel has executed; that its number, one more
than the count of received packets, is the first that is missing is proved from the
cardinality of intervals and a least element.

*Capabilities.* That memory follows the store (`Consistent`) is not inductive: a failed
transaction brings back an earlier memory and store, but not the Go map, and a restart
brings back the store alone. `TxConsistent` says that what the running transaction would
go back to is consistent with the map as it is by then. `NewCapability` keeps this
because its index had no owner in the saved store either (`WellNamed`: no owners from
the next index on), and `ReleaseCapability` unless it takes away the last owner: what it
deletes from the map is in `tx.dropped`, and in `lost` once the transaction has failed. No two indices share an object (`ObjectsDiffer`), so
that what is written for one object cannot be read for another; `OneName` keeps a claim
from overwriting the lookup of another name. After a restart the objects are allocated
anew; that they differ is proved from the cardinalities of the sets of live indices up
to each of them, and that the lookups are those of the store from `WellNamed`. That
`ExportGenesis` writes everything follows from `WellNamed` as well.

Only model-checked: all liveness properties, which need reasoning about fairness and
`ENABLED` that the proof system does not have; and the invariants of `Transfer`, `Fee` and
`RedundantRelay`, which sum over sets or run through the messages of a transaction with
folds, about which nothing can be proved here without induction over data.

## Where the code and its documents differ

Met while modelling; TLC shows each on a variation of the model.

* 07-tendermint `upgrade.go:117`: "We do not set processed time for this consensus
  state"; line 125 sets it, with the processed height and the iteration key. The code
  is the better of the two: the state could not be pruned without its iteration key.
* 29-fee `keeper/escrow.go:197`: "if the escrow account does not have sufficient funds
  then there must exist a severe bug". When one of several fees of a packet cannot be
  refunded on closing, the others are paid and the record of all is kept
  (`escrow.go:222`); they are paid again when the packet times out, the account runs
  short and the module locks. `OnlyBlockedPayersLock` says that this is the only way, and
  `EscrowBacksFees` by how much.
* 29-fee `keeper/escrow.go:181`: "RefundFeesOnChannelClosure will refund all fees associated
  with the given port and channel identifiers." The prefix it iterates over
  (`types/keys.go:159`) does not end in a separator, so that closing `channel-1` also refunds
  the fees of `channel-10` and deletes their records. The account still holds what the
  records say, and the packets of `channel-10` go on without fees.
* `docs/requirements/ics29-v1-requirements.md:141`: "Packet fees are refunded on channel
  closure." A timeout closes an ordered channel without the application's callback
  (04-channel `keeper/timeout.go:157`), so fees of packets that were received and can no
  longer be acknowledged stay in escrow. `PayPacketFee` (29-fee `keeper/msg_server.go:80`)
  also escrows a fee for the next packet of a closed channel.
* `docs/architecture/adr-004-ics29-lock-fee-module.md:21`: "All IBC callbacks will skip
  performing fee logic, similar to fee disabled channels." `OnChanCloseInit` and
  `OnChanCloseConfirm` fail while the module is locked (29-fee `ibc_middleware.go:180`,
  `:201`), which undoes the closing.
* `docs/requirements/ics27-requirements.md:86`: transactions are executed "in exactly the
  same order in which they are submitted". With two handshakes under way the host goes
  on receiving from the first channel after the second has become active
  (27-interchain-accounts `host/keeper/handshake.go:120`). The order on one channel holds
  (`ExecutedInOrderOnChannel`).
* 27-interchain-accounts `controller/keeper/relay.go:56` and `handshake.go:131`,
  `host/keeper/handshake.go:125`: the comments say that the active channel is removed; it
  stays stored when it is closed. `host/keeper/handshake.go:118` speaks of "disallowing
  overwriting the current active channel"; line 120 sets it whatever it was.
* capability `keeper/keeper.go:392`: `GetCapability` panics with "capability found in memstore
  is missing from map". `ReleaseCapability` deletes from the Go map at once (line 357), and a
  failed transaction does not bring the entry back, so that after the last owner's release
  in a transaction that fails the panic is reached, on a node that has not restarted since
  and not on one that has. The comment at line 382 covers creation only. `CapabilityInv`
  says that this is the only way. No module of this repository releases a capability.
* 06-solomachine `update.go:17`: duplicate signatures "on two different messages at a
  given sequence" are misbehaviour. `misbehaviour_handle.go:43` wants the signed path to
  decode as a protobuf path, while proofs are signed over its text, so two conflicting
  proofs are refused as evidence.

## Not modelled

* The generated protobuf code, about 72% of the lines of `src/`: encodings. So the
  share of all lines that the modules account for is small, and that of the
  hand-written protocol code several times as large.
* 09-localhost: it verifies by reading the chain's own current store, and has no
  state but a height. 24-host: formats of keys.
* Genesis but for capabilities, migrations but for pruning, simulation, the command
  line, queries, events, and the testing framework.
* Fee version negotiation, client allow lists, scheduling a chain's own upgrade,
  messages that change parameters in core.
