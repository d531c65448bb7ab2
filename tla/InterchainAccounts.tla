------------------------- MODULE InterchainAccounts -------------------------
(***************************************************************************)
(* Interchain accounts (apps/27-interchain-accounts).  Owners on a         *)
(* controller chain each control an account on a host chain by sending it  *)
(* transactions over an ordered channel.  The channel closes when a packet *)
(* times out and a new one is opened on the same port; each chain stores   *)
(* which channel of a port is the active one.                              *)
(*                                                                         *)
(* The two chains have one connection, so that a port stands for a port    *)
(* and a connection.  Core proofs may be of an earlier state of the other  *)
(* chain: a handshake message is accepted when the other end has been in   *)
(* the state it proves, even if it has moved on.                           *)
(***************************************************************************)
EXTENDS Integers, Sequences, FiniteSets

CONSTANTS
  Ports,          \* controller ports, one per owner
  Routings,       \* Routings[port]: how its owner registers an account
  MayDisable,     \* which of the two modules governance may disable
  MaxChannels,    \* MaxChannels[port]: bound on the controller's channels
  MaxTries,       \* bound on the host's channels for one of the controller's
  MaxTxs          \* MaxTxs[port]: bound on the transactions of an owner

ASSUME InterchainAccountsAssumption ==
  /\ MaxTries \in Nat
  /\ \A port \in Ports :
       /\ {MaxChannels[port], MaxTxs[port]} \subseteq Nat
       /\ Routings[port] \subseteq {"enabled", "disabled"}

None == 0

VARIABLES
  channels,       \* the controller's channels
  hostChannels,   \* the host's channels
  active,         \* active[port] on the controller
  hostActive,     \* hostActive[port] on the host
  address,        \* address[port] as stored on the controller
  hostAddress,    \* hostAddress[port] on the host
  accounts,       \* how many interchain accounts the host has created
  middleware,     \* middleware[port]: whether callbacks go to an underlying application
  sent,           \* sent[port]: how many transactions the owner has submitted
  executed,       \* executed[a]: what account a has executed, in order
  params          \* whether the controller and the host module are enabled

controllerVars == <<active, address, middleware>>
hostVars == <<hostActive, hostAddress, accounts>>
vars == <<channels, hostChannels, controllerVars, hostVars, sent, executed, params>>

Packet == [tx : Nat, signer : Nat, routed : {"enabled", "disabled", "unset"},
           status : {"sent", "received", "acknowledged", "timedout"}]

Channel ==
  [port : Ports, state : {"INIT", "OPEN", "CLOSED"}, peer : Nat, packets : Seq(Packet)]

HostChannel == [port : Ports, state : {"TRYOPEN", "OPEN", "CLOSED"}, peer : Nat, address : Nat]

Init ==
  /\ channels = <<>>
  /\ hostChannels = <<>>
  /\ active = [port \in Ports |-> None]
  /\ hostActive = [port \in Ports |-> None]
  /\ address = [port \in Ports |-> None]
  /\ hostAddress = [port \in Ports |-> None]
  /\ accounts = 0
  /\ middleware = [port \in Ports |-> "unset"]
  /\ sent = [port \in Ports |-> 0]
  /\ executed = <<>>
  /\ params = [controllerEnabled |-> TRUE, hostEnabled |-> TRUE]

-----------------------------------------------------------------------------
(* The controller. *)

HasOpenActiveChannel(port) == active[port] # None /\ channels[active[port]].state = "OPEN"

IsActiveChannelClosed(port) == active[port] # None /\ channels[active[port]].state = "CLOSED"

\* MsgChannelOpenInit, by which a relayer too may open a channel on a bound port,
\* with the callback OnChanOpenInit.
OnChanOpenInit(port) ==
  /\ params.controllerEnabled
  /\ ~HasOpenActiveChannel(port)
  /\ channels' = Append(channels,
       [port |-> port, state |-> "INIT", peer |-> None, packets |-> <<>>])
  /\ UNCHANGED <<hostChannels, active, address, hostVars, sent, executed, params>>

ChannelOpenInit(port) ==
  /\ middleware[port] # "unset"
  /\ OnChanOpenInit(port)
  /\ UNCHANGED middleware

\* RegisterInterchainAccount of the keeper routes callbacks to an underlying
\* application, MsgRegisterInterchainAccount does not.  Neither takes over from the
\* other while a channel is open or a handshake under way.
RegisterInterchainAccount(port, routing) ==
  /\ middleware[port] \in {"unset", routing} \/ IsActiveChannelClosed(port)
  /\ middleware' = [middleware EXCEPT ![port] = routing]
  /\ OnChanOpenInit(port)

\* The host end has been in TRYOPEN, with the account's address in its version.
OnChanOpenAck(ch, h) ==
  /\ params.controllerEnabled
  /\ channels[ch].state = "INIT"
  /\ hostChannels[h].peer = ch
  /\ ~HasOpenActiveChannel(channels[ch].port)
  /\ channels' = [channels EXCEPT ![ch] = [@ EXCEPT !.state = "OPEN", !.peer = h]]
  /\ active' = [active EXCEPT ![channels[ch].port] = ch]
  /\ address' = [address EXCEPT ![channels[ch].port] = hostChannels[h].address]
  /\ UNCHANGED <<hostChannels, middleware, hostVars, sent, executed, params>>

\* SendTx: a transaction to be signed by the account called signer.
SendTx(port, signer) ==
  /\ HasOpenActiveChannel(port)
  /\ sent' = [sent EXCEPT ![port] = @ + 1]
  /\ channels' = [channels EXCEPT ![active[port]].packets = Append(@,
       [tx |-> sent[port] + 1, signer |-> signer, routed |-> middleware[port],
        status |-> "sent"])]
  /\ UNCHANGED <<hostChannels, controllerVars, hostVars, executed, params>>

SetStatus(ch, seq, status) == [channels EXCEPT ![ch].packets[seq].status = status]

OnAcknowledgementPacket(ch, seq) ==
  /\ params.controllerEnabled
  /\ channels[ch].state = "OPEN"
  /\ channels[ch].packets[seq].status = "received"
  /\ \A i \in 1..seq - 1 : channels[ch].packets[i].status = "acknowledged"
  /\ channels' = SetStatus(ch, seq, "acknowledged")
  /\ UNCHANGED <<hostChannels, controllerVars, hostVars, sent, executed, params>>

\* The packet has not been received and never will be: its time is over, or the
\* host end is closed.  The channel closes, being ordered; it stays the active one.
OnTimeoutPacket(ch, seq) ==
  /\ params.controllerEnabled
  /\ \/ channels[ch].state = "OPEN"
     \/ channels[ch].peer # None /\ hostChannels[channels[ch].peer].state = "CLOSED"
  /\ channels[ch].packets[seq].status = "sent"
  /\ channels' = [SetStatus(ch, seq, "timedout") EXCEPT ![ch].state = "CLOSED"]
  /\ UNCHANGED <<hostChannels, controllerVars, hostVars, sent, executed, params>>

-----------------------------------------------------------------------------
(* The host. *)

HasOpenHostActiveChannel(port) ==
  hostActive[port] # None /\ hostChannels[hostActive[port]].state = "OPEN"

\* The controller end has been in INIT.  The account is created for the first
\* channel of the port and found again for later ones.
OnChanOpenTry(ch) ==
  LET port == channels[ch].port
      new == hostAddress[port] = None
      account == IF new THEN accounts + 1 ELSE hostAddress[port]
  IN
  /\ params.hostEnabled
  /\ ~HasOpenHostActiveChannel(port)
  /\ hostChannels' = Append(hostChannels,
       [port |-> port, state |-> "TRYOPEN", peer |-> ch, address |-> account])
  /\ hostAddress' = [hostAddress EXCEPT ![port] = account]
  /\ accounts' = IF new THEN account ELSE accounts
  /\ executed' = IF new THEN Append(executed, <<>>) ELSE executed
  /\ UNCHANGED <<channels, controllerVars, hostActive, sent, params>>

\* The controller end has been OPEN.
OnChanOpenConfirm(h) ==
  /\ params.hostEnabled
  /\ hostChannels[h].state = "TRYOPEN"
  /\ channels[hostChannels[h].peer].peer = h
  /\ hostChannels' = [hostChannels EXCEPT ![h].state = "OPEN"]
  /\ hostActive' = [hostActive EXCEPT ![hostChannels[h].port] = h]
  /\ UNCHANGED <<channels, controllerVars, hostAddress, accounts, sent, executed, params>>

\* Mutant of OnChanCloseConfirm: the host does not let go of its channel.
OnChanCloseConfirmNever(h) == FALSE /\ UNCHANGED vars

\* Only the controller's end closes by itself.
OnChanCloseConfirm(h) ==
  /\ hostChannels[h].state \in {"TRYOPEN", "OPEN"}
  /\ channels[hostChannels[h].peer].peer = h
  /\ channels[hostChannels[h].peer].state = "CLOSED"
  /\ hostChannels' = [hostChannels EXCEPT ![h].state = "CLOSED"]
  /\ UNCHANGED <<channels, controllerVars, hostVars, sent, executed, params>>

Received(packet) == packet.status \in {"received", "acknowledged"}

AuthenticateTx(port, signer) == hostAddress[port] # None /\ hostAddress[port] = signer

\* Mutant of OnRecvPacket: the sequence number is not compared with the next one.
OnRecvPacketAnyOrder(h, succeeds) ==
  LET ch == hostChannels[h].peer
      port == hostChannels[h].port
  IN
  /\ hostChannels[h].state = "OPEN"
  /\ succeeds /\ params.hostEnabled
  /\ \E seq \in DOMAIN channels[ch].packets :
       /\ channels[ch].packets[seq].status = "sent"
       /\ AuthenticateTx(port, channels[ch].packets[seq].signer)
       /\ channels' = SetStatus(ch, seq, "received")
       /\ executed' = [executed EXCEPT ![channels[ch].packets[seq].signer] = Append(@,
            [port |-> port, channel |-> h, tx |-> channels[ch].packets[seq].tx])]
  /\ UNCHANGED <<hostChannels, controllerVars, hostVars, sent, params>>

\* Packets of a channel are received in order.  The messages of the transaction
\* are executed together or not at all, and a failure is acknowledged too.
OnRecvPacket(h, succeeds) ==
  LET ch == hostChannels[h].peer
      port == hostChannels[h].port
      seq == 1 + Cardinality({i \in DOMAIN channels[ch].packets :
                   Received(channels[ch].packets[i])})
      packet == channels[ch].packets[seq]
  IN
  /\ hostChannels[h].state = "OPEN"
  /\ seq \in DOMAIN channels[ch].packets
  /\ packet.status = "sent"
  /\ succeeds => params.hostEnabled /\ AuthenticateTx(port, packet.signer)
  /\ channels' = SetStatus(ch, seq, "received")
  /\ executed' = IF succeeds
                 THEN [executed EXCEPT ![packet.signer] = Append(@,
                         [port |-> port, channel |-> h, tx |-> packet.tx])]
                 ELSE executed
  /\ UNCHANGED <<hostChannels, controllerVars, hostVars, sent, params>>

UpdateParams(controllerEnabled, hostEnabled) ==
  /\ ~controllerEnabled => "controller" \in MayDisable
  /\ ~hostEnabled => "host" \in MayDisable
  /\ params # [controllerEnabled |-> controllerEnabled, hostEnabled |-> hostEnabled]
  /\ params' = [controllerEnabled |-> controllerEnabled, hostEnabled |-> hostEnabled]
  /\ UNCHANGED <<channels, hostChannels, controllerVars, hostVars, sent, executed>>

-----------------------------------------------------------------------------

MayOpen(port) ==
  Cardinality({ch \in DOMAIN channels : channels[ch].port = port}) < MaxChannels[port]

Tries(ch) == Cardinality({h \in DOMAIN hostChannels : hostChannels[h].peer = ch})

RegisterStep(port) ==
  /\ MayOpen(port)
  /\ \/ \E routing \in Routings[port] : RegisterInterchainAccount(port, routing)
     \/ ChannelOpenInit(port)

TryStep == \E ch \in DOMAIN channels : Tries(ch) < MaxTries /\ OnChanOpenTry(ch)

AckStep == \E ch \in DOMAIN channels, h \in DOMAIN hostChannels : OnChanOpenAck(ch, h)

ConfirmStep == \E h \in DOMAIN hostChannels : OnChanOpenConfirm(h)

CloseStep == \E h \in DOMAIN hostChannels : OnChanCloseConfirm(h)

SendStep(port) ==
  sent[port] < MaxTxs[port] /\ \E signer \in 1..accounts : SendTx(port, signer)

\* A packet times out only while there is room for the channel that replaces its own.
PacketStep ==
  \/ \E h \in DOMAIN hostChannels, succeeds \in BOOLEAN : OnRecvPacket(h, succeeds)
  \/ \E ch \in DOMAIN channels : \E seq \in DOMAIN channels[ch].packets :
       \/ OnAcknowledgementPacket(ch, seq)
       \/ /\ \/ MayOpen(channels[ch].port)
             \/ \E d \in DOMAIN channels :
                  channels[d].state = "INIT" /\ channels[d].port = channels[ch].port
          /\ OnTimeoutPacket(ch, seq)

Next ==
  \/ \E port \in Ports : RegisterStep(port) \/ SendStep(port)
  \/ TryStep \/ AckStep \/ ConfirmStep \/ CloseStep \/ PacketStep
  \/ \E c, h \in BOOLEAN : UpdateParams(c, h)

Spec == Init /\ [][Next]_vars

\* Owners, or relayers for them, open a new channel when theirs is closed, and
\* handshakes and closures are relayed.
FairSpec ==
  /\ Spec
  /\ WF_vars(\/ \E port \in Ports : MayOpen(port) /\ ChannelOpenInit(port)
             \/ TryStep \/ AckStep \/ ConfirmStep \/ CloseStep)

-----------------------------------------------------------------------------
(* Properties. *)

TypeOK ==
  /\ channels \in Seq(Channel)
  /\ hostChannels \in Seq(HostChannel)
  /\ active \in [Ports -> 0..Len(channels)]
  /\ hostActive \in [Ports -> 0..Len(hostChannels)]
  /\ address \in [Ports -> 0..accounts]
  /\ hostAddress \in [Ports -> 0..accounts]
  /\ middleware \in [Ports -> {"unset", "enabled", "disabled"}]
  /\ sent \in [Ports -> Nat]
  /\ accounts \in Nat /\ Len(executed) = accounts
  /\ executed \in Seq(Seq([port : Ports, channel : Nat, tx : Nat]))
  /\ params \in [controllerEnabled : BOOLEAN, hostEnabled : BOOLEAN]

\* The two ends of a channel are on one port, and an end that has left INIT or TRYOPEN
\* knows the other; a port's active channel was opened on that port.
EndsMatch ==
  /\ \A ch \in DOMAIN channels :
       LET channel == channels[ch] IN
       /\ middleware[channel.port] # "unset"
       /\ channel.state = "INIT" => channel.peer = None /\ channel.packets = <<>>
       /\ channel.state # "INIT" =>
            channel.peer \in DOMAIN hostChannels /\ hostChannels[channel.peer].peer = ch
  /\ \A h \in DOMAIN hostChannels :
       LET hostChannel == hostChannels[h] IN
       /\ hostChannel.peer \in DOMAIN channels
       /\ channels[hostChannel.peer].port = hostChannel.port
       /\ hostChannel.state # "TRYOPEN" => channels[hostChannel.peer].peer = h
  /\ \A port \in Ports :
       active[port] # None =>
         channels[active[port]].port = port /\ channels[active[port]].state # "INIT"

\* "New channels can not be opened for this account until the currently set Active
\* Channel is set to CLOSED": of the channels of a port at most one is open on the
\* controller, and it is the active one, with several handshakes under way.
OneOpenChannel ==
  \A ch \in DOMAIN channels :
    channels[ch].state = "OPEN" => active[channels[ch].port] = ch

\* Requirements 5.02 and 5.05: an owner has one account, the same through all
\* channels that are opened and closed, and both chains know it by that address.
OneAccountPerOwner ==
  /\ \A port \in Ports : address[port] # None => address[port] = hostAddress[port]
  /\ \A p, q \in Ports : p # q /\ hostAddress[p] # None => hostAddress[p] # hostAddress[q]
  /\ \A h \in DOMAIN hostChannels :
       /\ hostChannels[h].address # None
       /\ hostChannels[h].address = hostAddress[hostChannels[h].port]

\* Requirements 5.01 and 5.03: an account executes only what its owner submitted.
OnlyOwnersExecute ==
  \A a \in DOMAIN executed : \A i \in DOMAIN executed[a] :
    /\ hostAddress[executed[a][i].port] = a
    /\ executed[a][i].tx \in 1..sent[executed[a][i].port]

\* The packets of a channel carry transactions in the order the owner submitted them,
\* and those that have been received are the first ones.
PacketsInOrder ==
  \A ch \in DOMAIN channels : LET packets == channels[ch].packets IN
    \A j \in DOMAIN packets :
      /\ packets[j].tx \in 1..sent[channels[ch].port]
      /\ \A i \in 1..j - 1 :
           packets[i].tx < packets[j].tx /\ (Received(packets[j]) => Received(packets[i]))

CameIn(packets, tx) == \E seq \in DOMAIN packets : Received(packets[seq]) /\ packets[seq].tx = tx

\* What an account has executed came in packets that the channel has received.
ExecutedWereReceived ==
  \A a \in DOMAIN executed : \A i \in DOMAIN executed[a] :
    LET h == executed[a][i].channel IN
    h \in DOMAIN hostChannels /\ CameIn(channels[hostChannels[h].peer].packets, executed[a][i].tx)

\* An ordered channel executes an owner's transactions in the order they were
\* submitted, each at most once, also when the controller has closed its end and
\* the host still receives what was sent before.
ExecutedInOrderOnChannel ==
  \A a \in DOMAIN executed : \A i, j \in DOMAIN executed[a] :
    i < j /\ executed[a][i].channel = executed[a][j].channel =>
      executed[a][i].tx < executed[a][j].tx

\* A packet's acknowledgement goes where its sender expects it: the routing of
\* callbacks does not change between sending and acknowledging.
AcknowledgementsRoutedAsSent ==
  \A ch \in DOMAIN channels : channels[ch].state = "OPEN" =>
    \A seq \in DOMAIN channels[ch].packets :
      channels[ch].packets[seq].status \in {"sent", "received"} =>
        channels[ch].packets[seq].routed = middleware[channels[ch].port]

\* The types, the one channel, the one account, and who executes what, in which
\* order, hold in every state of the two chains, and with what they rest on they are
\* inductive.
AccountsInv ==
  /\ TypeOK
  /\ EndsMatch
  /\ OneOpenChannel
  /\ OneAccountPerOwner
  /\ PacketsInOrder
  /\ OnlyOwnersExecute
  /\ ExecutedWereReceived
  /\ ExecutedInOrderOnChannel
  /\ AcknowledgementsRoutedAsSent

\* Requirement 3.02: "Under no circumstances shall the owner account [...]
\* irretrievably lose control": after a timeout has closed the active channel, a
\* new one gets opened, unless governance disables one of the two modules.
ControlRegained ==
  \A port \in Ports :
    IsActiveChannelClosed(port) ~>
      HasOpenActiveChannel(port) \/ ~params.controllerEnabled \/ ~params.hostEnabled
=============================================================================
