--------------------------- MODULE AccountsProofs ---------------------------
(***************************************************************************)
(* Interchain accounts, for any owners, channels, transactions and         *)
(* interleavings of handshakes: AccountsInv is inductive.                  *)
(***************************************************************************)
EXTENDS InterchainAccounts, FiniteSetTheorems, WellFoundedInduction, TLAPS

\* Zenon checks most of the leaves; those that calculate cite SMT.
USE ZenonT(40)

Entry == [port : Ports, channel : Nat, tx : Nat]

\* What TypeOK says of channels, accounts and what is in them.
LEMMA Types ==
  ASSUME TypeOK
  PROVE  /\ channels \in Seq(Channel) /\ Len(channels) \in Nat
         /\ DOMAIN channels = 1..Len(channels)
         /\ hostChannels \in Seq(HostChannel) /\ Len(hostChannels) \in Nat
         /\ DOMAIN hostChannels = 1..Len(hostChannels)
         /\ \A ch \in DOMAIN channels :
              /\ channels[ch] \in Channel /\ channels[ch].port \in Ports
              /\ channels[ch].packets \in Seq(Packet)
              /\ \A seq \in DOMAIN channels[ch].packets : channels[ch].packets[seq] \in Packet
         /\ \A h \in DOMAIN hostChannels :
              hostChannels[h] \in HostChannel /\ hostChannels[h].port \in Ports
         /\ accounts \in Nat /\ DOMAIN executed = 1..accounts /\ executed \in Seq(Seq(Entry))
         /\ \A a \in DOMAIN executed : executed[a] \in Seq(Entry)
         /\ sent \in [Ports -> Nat]
<1>1. channels \in Seq(Channel) /\ hostChannels \in Seq(HostChannel)
  BY DEF TypeOK
<1>2. \A ch \in DOMAIN channels : channels[ch] \in Channel
  BY <1>1, SMTT(30)
<1>3. \A h \in DOMAIN hostChannels : hostChannels[h] \in HostChannel
  BY <1>1, SMTT(30)
<1>4. \A ch \in DOMAIN channels : channels[ch].port \in Ports /\ channels[ch].packets \in Seq(Packet)
  BY <1>2 DEF Channel
<1>5. \A h \in DOMAIN hostChannels : hostChannels[h].port \in Ports
  BY <1>3 DEF HostChannel
<1>6. accounts \in Nat /\ Len(executed) = accounts /\ executed \in Seq(Seq(Entry)) /\ sent \in [Ports -> Nat]
  BY DEF TypeOK, Entry
<1>7. DOMAIN executed = 1..accounts /\ \A a \in DOMAIN executed : executed[a] \in Seq(Entry)
  BY <1>6, SMTT(30)
<1>8. \A ch \in DOMAIN channels : \A seq \in DOMAIN channels[ch].packets :
        channels[ch].packets[seq] \in Packet
  BY <1>4, SMTT(30)
<1> QED
  BY <1>1, <1>2, <1>3, <1>4, <1>5, <1>6, <1>7, <1>8, SMTT(30)

LEMMA InitInv == Init => AccountsInv
<1> SUFFICES ASSUME Init PROVE AccountsInv
  OBVIOUS
<1>1. /\ channels = <<>> /\ hostChannels = <<>> /\ executed = <<>> /\ accounts = 0
      /\ Len(channels) = 0 /\ Len(hostChannels) = 0 /\ Len(executed) = 0
      /\ DOMAIN channels = {} /\ DOMAIN hostChannels = {} /\ DOMAIN executed = {}
  BY SMTT(30) DEF Init
<1>2. \A port \in Ports : active[port] = None /\ address[port] = None /\ hostAddress[port] = None
  BY DEF Init
<1>3. TypeOK
  BY <1>1, SMTT(30) DEF Init, TypeOK, None
<1> QED
  BY <1>1, <1>2, <1>3 DEF AccountsInv, EndsMatch, OneOpenChannel, OneAccountPerOwner, PacketsInOrder,
     OnlyOwnersExecute, ExecutedWereReceived, ExecutedInOrderOnChannel, AcknowledgementsRoutedAsSent

\* A step that only the parameters or the host's active channel can tell from a stutter.
LEMMA UnchangedInv ==
  ASSUME AccountsInv, TypeOK',
         UNCHANGED <<channels, hostChannels, active, address, hostAddress, accounts, middleware,
                     sent, executed>>
  PROVE  AccountsInv'
<1>1. EndsMatch' /\ OneOpenChannel' /\ OneAccountPerOwner'
  BY DEF AccountsInv, EndsMatch, OneOpenChannel, OneAccountPerOwner
<1>2. PacketsInOrder' /\ OnlyOwnersExecute' /\ ExecutedWereReceived'
  BY DEF AccountsInv, PacketsInOrder, OnlyOwnersExecute, ExecutedWereReceived
<1>3. ExecutedInOrderOnChannel' /\ AcknowledgementsRoutedAsSent'
  BY SMTT(30) DEF AccountsInv, ExecutedInOrderOnChannel, AcknowledgementsRoutedAsSent
<1> QED
  BY <1>1, <1>2, <1>3 DEF AccountsInv

\* What came in stays so while channels and packets stay what they are, or packets are
\* received and acknowledged.
LEMMA StaysBacked ==
  ASSUME AccountsInv, NEW a \in DOMAIN executed, NEW i \in DOMAIN executed[a],
         \A h \in DOMAIN hostChannels :
           h \in DOMAIN hostChannels' /\ hostChannels'[h].peer = hostChannels[h].peer,
         \A ch \in DOMAIN channels : \A seq \in DOMAIN channels[ch].packets :
           /\ seq \in DOMAIN channels'[ch].packets
           /\ channels'[ch].packets[seq].tx = channels[ch].packets[seq].tx
           /\ Received(channels[ch].packets[seq]) => Received(channels'[ch].packets[seq])
  PROVE  LET h == executed[a][i].channel IN
         /\ h \in DOMAIN hostChannels'
         /\ CameIn(channels'[hostChannels'[h].peer].packets, executed[a][i].tx)
<1> DEFINE h == executed[a][i].channel
           ch == hostChannels[h].peer
<1>1. h \in DOMAIN hostChannels /\ CameIn(channels[ch].packets, executed[a][i].tx)
  BY DEF AccountsInv, ExecutedWereReceived
<1>2. ch \in DOMAIN channels
  BY <1>1 DEF AccountsInv, EndsMatch
<1>3. PICK seq \in DOMAIN channels[ch].packets :
        Received(channels[ch].packets[seq]) /\ channels[ch].packets[seq].tx = executed[a][i].tx
  BY <1>1 DEF CameIn
<1>4. h \in DOMAIN hostChannels' /\ hostChannels'[h].peer = ch
  BY <1>1
<1>5. /\ seq \in DOMAIN channels'[ch].packets
      /\ Received(channels'[ch].packets[seq]) /\ channels'[ch].packets[seq].tx = executed[a][i].tx
  BY <1>2, <1>3
<1> HIDE DEF h, ch
<1>6. CameIn(channels'[ch].packets, executed[a][i].tx)
  BY <1>5 DEF CameIn
<1> QED
  BY <1>4, <1>6 DEF h

LEMMA AllStayBacked ==
  ASSUME AccountsInv, UNCHANGED executed,
         \A h \in DOMAIN hostChannels :
           h \in DOMAIN hostChannels' /\ hostChannels'[h].peer = hostChannels[h].peer,
         \A ch \in DOMAIN channels : \A seq \in DOMAIN channels[ch].packets :
           /\ seq \in DOMAIN channels'[ch].packets
           /\ channels'[ch].packets[seq].tx = channels[ch].packets[seq].tx
           /\ Received(channels[ch].packets[seq]) => Received(channels'[ch].packets[seq])
  PROVE  ExecutedWereReceived'
<1>1. \A a \in DOMAIN executed : \A i \in DOMAIN executed[a] :
        LET h == executed[a][i].channel IN
        /\ h \in DOMAIN hostChannels'
        /\ CameIn(channels'[hostChannels'[h].peer].packets, executed[a][i].tx)
  BY StaysBacked
<1> QED
  BY <1>1 DEF ExecutedWereReceived

-----------------------------------------------------------------------------
(* The controller. *)

\* An open channel of a port is its open active channel.
LEMMA NoOpenChannel ==
  ASSUME AccountsInv, NEW port \in Ports, ~HasOpenActiveChannel(port),
         NEW ch \in DOMAIN channels, channels[ch].port = port
  PROVE  channels[ch].state # "OPEN"
<1>1. ch # None
  BY Types, SMTT(30) DEF AccountsInv, None
<1> QED
  BY <1>1 DEF AccountsInv, OneOpenChannel, HasOpenActiveChannel

\* A new channel in INIT, with which the routing of callbacks may change.
LEMMA OpenInitInv ==
  ASSUME AccountsInv, NEW port \in Ports, OnChanOpenInit(port),
         NEW routing \in {"enabled", "disabled"},
         middleware' = [middleware EXCEPT ![port] = routing]
  PROVE  AccountsInv'
<1> DEFINE n == Len(channels) + 1
           new == [port |-> port, state |-> "INIT", peer |-> None, packets |-> <<>>]
<1>1. TypeOK
  BY DEF AccountsInv
<1>2. /\ channels' = Append(channels, new) /\ ~HasOpenActiveChannel(port)
      /\ UNCHANGED <<hostChannels, active, address, hostActive, hostAddress, accounts, sent,
                     executed, params>>
  BY DEF OnChanOpenInit, hostVars
<1>3. new \in Channel /\ new.state = "INIT" /\ new.peer = None /\ new.packets = <<>> /\ new.port = port
  <2>1. <<>> \in Seq(Packet)
    BY SMTT(30)
  <2> QED BY <2>1 DEF Channel, None
<1> HIDE DEF new
<1>4. /\ channels' \in Seq(Channel) /\ Len(channels') = n /\ n \notin DOMAIN channels
      /\ DOMAIN channels' = DOMAIN channels \cup {n} /\ channels'[n] = new
      /\ \A ch \in DOMAIN channels : channels'[ch] = channels[ch]
      /\ Len(channels) \in Nat /\ n = Len(channels) + 1
  BY <1>1, <1>2, <1>3, Types, SMTT(30)
<1> HIDE DEF n
<1>5. /\ middleware \in [Ports -> {"unset", "enabled", "disabled"}]
      /\ middleware' \in [Ports -> {"unset", "enabled", "disabled"}]
      /\ middleware'[port] # "unset"
      /\ \A p \in Ports : p # port => middleware'[p] = middleware[p]
  <2>1. middleware \in [Ports -> {"unset", "enabled", "disabled"}]
    BY <1>1 DEF TypeOK
  <2> QED BY <2>1
<1>6. TypeOK'
  <2>1. active \in [Ports -> 0..Len(channels')]
    <3>1. active \in [Ports -> 0..Len(channels)]
      BY <1>1 DEF TypeOK
    <3> QED BY <1>4, <3>1, SMTT(30)
  <2> QED BY <1>1, <1>2, <1>4, <1>5, <2>1 DEF TypeOK
<1>7. EndsMatch'
  <2>1. ASSUME NEW ch \in DOMAIN channels'
        PROVE  /\ middleware'[channels'[ch].port] # "unset"
               /\ channels'[ch].state = "INIT" => channels'[ch].peer = None /\ channels'[ch].packets = <<>>
               /\ channels'[ch].state # "INIT" =>
                    /\ channels'[ch].peer \in DOMAIN hostChannels
                    /\ hostChannels[channels'[ch].peer].peer = ch
    <3>1. CASE ch = n
      BY <1>3, <1>4, <1>5, <3>1
    <3>2. CASE ch \in DOMAIN channels
      <4>1. channels[ch].port \in Ports
        BY <1>1, <3>2, Types
      <4> QED BY <1>4, <1>5, <3>2, <4>1, SMTT(30) DEF AccountsInv, EndsMatch
    <3> QED BY <1>4, <3>1, <3>2
  <2>2. \A h \in DOMAIN hostChannels :
          /\ hostChannels[h].peer \in DOMAIN channels'
          /\ channels'[hostChannels[h].peer].port = hostChannels[h].port
          /\ hostChannels[h].state # "TRYOPEN" => channels'[hostChannels[h].peer].peer = h
    BY <1>4 DEF AccountsInv, EndsMatch
  <2>3. ASSUME NEW p \in Ports, active[p] # None
        PROVE  channels'[active[p]].port = p /\ channels'[active[p]].state # "INIT"
    <3>1. active[p] \in DOMAIN channels
      BY <1>1, <2>3, Types, SMTT(30) DEF TypeOK, None
    <3> QED BY <1>4, <2>3, <3>1 DEF AccountsInv, EndsMatch
  <2> QED BY <1>2, <2>1, <2>2, <2>3 DEF EndsMatch
<1>8. OneOpenChannel' /\ PacketsInOrder'
  <2>1. OneOpenChannel'
    BY <1>2, <1>3, <1>4 DEF AccountsInv, OneOpenChannel
  <2>2. DOMAIN new.packets = {}
    BY <1>3, SMTT(30)
  <2>3. PacketsInOrder'
    BY <1>2, <1>4, <2>2, SMTT(30) DEF AccountsInv, PacketsInOrder
  <2> QED BY <2>1, <2>3
<1>9. OneAccountPerOwner' /\ OnlyOwnersExecute' /\ ExecutedInOrderOnChannel'
  BY <1>2, SMTT(30) DEF AccountsInv, OneAccountPerOwner, OnlyOwnersExecute, ExecutedInOrderOnChannel
<1>10. ExecutedWereReceived'
  <2>1. \A h \in DOMAIN hostChannels :
          h \in DOMAIN hostChannels' /\ hostChannels'[h].peer = hostChannels[h].peer
    BY <1>2
  <2>2. \A ch \in DOMAIN channels : \A seq \in DOMAIN channels[ch].packets :
          /\ seq \in DOMAIN channels'[ch].packets
          /\ channels'[ch].packets[seq].tx = channels[ch].packets[seq].tx
          /\ Received(channels[ch].packets[seq]) => Received(channels'[ch].packets[seq])
    BY <1>4
  <2> QED BY <1>2, <2>1, <2>2, AllStayBacked
<1>11. AcknowledgementsRoutedAsSent'
  <2> SUFFICES ASSUME NEW ch \in DOMAIN channels', channels'[ch].state = "OPEN",
                      NEW seq \in DOMAIN channels'[ch].packets,
                      channels'[ch].packets[seq].status \in {"sent", "received"}
               PROVE  channels'[ch].packets[seq].routed = middleware'[channels'[ch].port]
    BY DEF AcknowledgementsRoutedAsSent
  <2>1. ch \in DOMAIN channels /\ channels'[ch] = channels[ch]
    BY <1>3, <1>4
  <2>2. channels[ch].port # port /\ channels[ch].port \in Ports
    BY <1>1, <1>2, <2>1, Types, NoOpenChannel
  <2> QED BY <1>5, <2>1, <2>2, SMTT(30) DEF AccountsInv, AcknowledgementsRoutedAsSent
<1> QED
  BY <1>6, <1>7, <1>8, <1>9, <1>10, <1>11 DEF AccountsInv

LEMMA RegisterStepInv ==
  ASSUME AccountsInv, NEW port \in Ports, RegisterStep(port)
  PROVE  AccountsInv'
<1>1. CASE ChannelOpenInit(port)
  <2>1. middleware \in [Ports -> {"unset", "enabled", "disabled"}] /\ middleware[port] # "unset"
        /\ UNCHANGED middleware /\ OnChanOpenInit(port)
    BY <1>1 DEF ChannelOpenInit, AccountsInv, TypeOK
  <2>2. middleware' = [middleware EXCEPT ![port] = middleware[port]]
        /\ middleware[port] \in {"enabled", "disabled"}
    BY <2>1
  <2> QED BY <2>1, <2>2, OpenInitInv
<1>2. ASSUME NEW routing \in Routings[port], RegisterInterchainAccount(port, routing)
      PROVE  AccountsInv'
  <2>1. routing \in {"enabled", "disabled"}
    BY InterchainAccountsAssumption
  <2> QED BY <1>2, <2>1, OpenInitInv DEF RegisterInterchainAccount
<1> QED
  BY <1>1, <1>2 DEF RegisterStep

\* The channel that opens was in INIT, and no other channel of its port is open.
LEMMA AckStepInv ==
  ASSUME AccountsInv, NEW ch \in DOMAIN channels, NEW h \in DOMAIN hostChannels,
         OnChanOpenAck(ch, h)
  PROVE  AccountsInv'
<1> DEFINE port == channels[ch].port
           new == [channels[ch] EXCEPT !.state = "OPEN", !.peer = h]
<1>1. TypeOK /\ EndsMatch /\ OneOpenChannel /\ OneAccountPerOwner
  BY DEF AccountsInv
<1>2. /\ channels[ch].state = "INIT" /\ hostChannels[h].peer = ch /\ ~HasOpenActiveChannel(port)
      /\ channels' = [channels EXCEPT ![ch] = new]
      /\ active' = [active EXCEPT ![port] = ch]
      /\ address' = [address EXCEPT ![port] = hostChannels[h].address]
      /\ UNCHANGED <<hostChannels, middleware, hostActive, hostAddress, accounts, sent, executed,
                     params>>
  BY DEF OnChanOpenAck, hostVars
<1>3. /\ new \in Channel /\ new.state = "OPEN" /\ new.peer = h /\ new.port = port
      /\ new.packets = channels[ch].packets
  <2>1. channels[ch] \in Channel /\ h \in Nat
    BY <1>1, Types, SMTT(30)
  <2> QED BY <2>1 DEF Channel
<1> HIDE DEF new
<1>4. port \in Ports /\ channels[ch].peer = None /\ DOMAIN channels[ch].packets = {}
  <2>1. channels[ch].packets = <<>>
    BY <1>1, <1>2 DEF EndsMatch
  <2> QED BY <1>1, <1>2, <2>1, Types, SMTT(30) DEF EndsMatch
<1> HIDE DEF port
<1>5. /\ channels' \in Seq(Channel) /\ Len(channels') = Len(channels)
      /\ DOMAIN channels' = DOMAIN channels /\ channels'[ch] = new
      /\ \A k \in DOMAIN channels : k # ch => channels'[k] = channels[k]
  BY <1>1, <1>2, <1>3, Types, SMTT(30)
<1>6. \A k \in DOMAIN channels :
        channels'[k].port = channels[k].port /\ channels'[k].packets = channels[k].packets
  BY <1>3, <1>5 DEF port
<1>7. /\ active \in [Ports -> 0..Len(channels)] /\ address \in [Ports -> 0..accounts]
      /\ hostAddress \in [Ports -> 0..accounts]
  BY <1>1 DEF TypeOK
<1>8. /\ hostChannels[h].port = port /\ hostChannels[h].address = hostAddress[port]
      /\ hostAddress[port] # None
  BY <1>1, <1>2, SMTT(30) DEF EndsMatch, OneAccountPerOwner, port
<1>9. /\ active' \in [Ports -> 0..Len(channels)] /\ active'[port] = ch
      /\ \A p \in Ports : p # port => active'[p] = active[p]
      /\ address' \in [Ports -> 0..accounts] /\ address'[port] = hostAddress[port]
      /\ \A p \in Ports : p # port => address'[p] = address[p]
  <2>1. ch \in 0..Len(channels) /\ hostAddress[port] \in 0..accounts
    BY <1>1, <1>4, <1>7, Types, SMTT(30)
  <2> QED BY <1>2, <1>4, <1>7, <1>8, <2>1
<1>10. TypeOK'
  BY <1>1, <1>2, <1>5, <1>9 DEF TypeOK
<1>11. EndsMatch'
  <2>1. ASSUME NEW k \in DOMAIN channels'
        PROVE  /\ middleware[channels'[k].port] # "unset"
               /\ channels'[k].state = "INIT" => channels'[k].peer = None /\ channels'[k].packets = <<>>
               /\ channels'[k].state # "INIT" =>
                    /\ channels'[k].peer \in DOMAIN hostChannels
                    /\ hostChannels[channels'[k].peer].peer = k
    <3>1. CASE k = ch
      BY <1>1, <1>2, <1>3, <1>5, <1>6, <3>1, SMTT(30) DEF EndsMatch
    <3>2. CASE k # ch
      BY <1>1, <1>5, <3>2, SMTT(30) DEF EndsMatch
    <3> QED BY <3>1, <3>2
  <2>2. ASSUME NEW g \in DOMAIN hostChannels
        PROVE  /\ hostChannels[g].peer \in DOMAIN channels'
               /\ channels'[hostChannels[g].peer].port = hostChannels[g].port
               /\ hostChannels[g].state # "TRYOPEN" => channels'[hostChannels[g].peer].peer = g
    <3>1. /\ hostChannels[g].peer \in DOMAIN channels
          /\ channels[hostChannels[g].peer].port = hostChannels[g].port
          /\ hostChannels[g].state # "TRYOPEN" => channels[hostChannels[g].peer].peer = g
      BY <1>1 DEF EndsMatch
    <3>2. g # None
      BY <1>1, Types, SMTT(30) DEF None
    <3> QED BY <1>4, <1>5, <1>6, <3>1, <3>2
  <2>3. ASSUME NEW p \in Ports, active'[p] # None
        PROVE  channels'[active'[p]].port = p /\ channels'[active'[p]].state # "INIT"
    <3>1. CASE p = port
      BY <1>3, <1>5, <1>9, <3>1
    <3>2. CASE p # port
      <4>1. active[p] \in DOMAIN channels
        BY <1>1, <1>7, <1>9, <2>3, <3>2, Types, SMTT(30) DEF None
      <4>2. channels[active[p]].port = p /\ channels[active[p]].state # "INIT"
        BY <1>1, <1>9, <2>3, <3>2 DEF EndsMatch
      <4> QED BY <1>2, <1>5, <1>9, <3>2, <4>1, <4>2
    <3> QED BY <3>1, <3>2
  <2> QED BY <1>2, <2>1, <2>2, <2>3 DEF EndsMatch
<1>12. OneOpenChannel'
  <2> SUFFICES ASSUME NEW k \in DOMAIN channels', channels'[k].state = "OPEN"
               PROVE  active'[channels'[k].port] = k
    BY DEF OneOpenChannel
  <2>1. CASE k = ch
    BY <1>3, <1>5, <1>9, <2>1
  <2>2. CASE k # ch
    <3>1. channels'[k] = channels[k] /\ k \in DOMAIN channels /\ channels[k].port \in Ports
      BY <1>1, <1>5, <2>2, Types
    <3>2. channels[k].port # port
      BY <1>2, <1>4, <3>1, NoOpenChannel DEF port
    <3> QED BY <1>1, <1>9, <3>1, <3>2 DEF OneOpenChannel
  <2> QED BY <2>1, <2>2
<1>13. OneAccountPerOwner'
  BY <1>1, <1>2, <1>9, SMTT(30) DEF OneAccountPerOwner
<1>14. PacketsInOrder'
  BY <1>2, <1>5, <1>6, SMTT(30) DEF AccountsInv, PacketsInOrder
<1>15. OnlyOwnersExecute' /\ ExecutedInOrderOnChannel'
  BY <1>2, SMTT(30) DEF AccountsInv, OnlyOwnersExecute, ExecutedInOrderOnChannel
<1>16. ExecutedWereReceived'
  BY <1>2, <1>5, <1>6, AllStayBacked
<1>17. AcknowledgementsRoutedAsSent'
  <2>1. DOMAIN channels'[ch].packets = {}
    BY <1>4, <1>6
  <2> QED BY <1>2, <1>5, <2>1, SMTT(30) DEF AccountsInv, AcknowledgementsRoutedAsSent
<1> QED
  BY <1>10, <1>11, <1>12, <1>13, <1>14, <1>15, <1>16, <1>17 DEF AccountsInv

\* Sending, receiving, acknowledging and timing out change the packets of one channel
\* that has been open, and may close it.
LEMMA PacketsInv ==
  ASSUME AccountsInv, NEW ch \in DOMAIN channels, channels[ch].state # "INIT",
         NEW new \in Channel, new.port = channels[ch].port, new.peer = channels[ch].peer,
         new.state \in {channels[ch].state, "CLOSED"},
         channels' = [channels EXCEPT ![ch] = new],
         UNCHANGED <<hostChannels, controllerVars, hostVars>>
  PROVE  /\ channels' \in Seq(Channel) /\ Len(channels') = Len(channels)
         /\ DOMAIN channels' = DOMAIN channels /\ channels'[ch] = new
         /\ \A k \in DOMAIN channels : k # ch => channels'[k] = channels[k]
         /\ EndsMatch' /\ OneOpenChannel' /\ OneAccountPerOwner'
<1>1. TypeOK /\ EndsMatch /\ OneOpenChannel /\ OneAccountPerOwner
  BY DEF AccountsInv
<1>2. UNCHANGED <<hostChannels, active, address, middleware, hostActive, hostAddress, accounts>>
  BY DEF controllerVars, hostVars
<1>3. /\ channels' \in Seq(Channel) /\ Len(channels') = Len(channels)
      /\ DOMAIN channels' = DOMAIN channels /\ channels'[ch] = new
      /\ \A k \in DOMAIN channels : k # ch => channels'[k] = channels[k]
  BY <1>1, Types, SMTT(30)
<1>4. \A k \in DOMAIN channels :
        /\ channels'[k].port = channels[k].port /\ channels'[k].peer = channels[k].peer
        /\ channels'[k].state = "OPEN" => channels[k].state = "OPEN"
        /\ channels'[k].state = "INIT" <=> channels[k].state = "INIT"
        /\ channels[k].state = "INIT" => channels'[k].packets = channels[k].packets
  BY <1>3
<1>5. EndsMatch'
  <2>1. \A k \in DOMAIN channels :
          /\ middleware[channels'[k].port] # "unset"
          /\ channels'[k].state = "INIT" => channels'[k].peer = None /\ channels'[k].packets = <<>>
          /\ channels'[k].state # "INIT" =>
               /\ channels'[k].peer \in DOMAIN hostChannels
               /\ hostChannels[channels'[k].peer].peer = k
    BY <1>1, <1>4, SMTT(30) DEF EndsMatch
  <2>2. \A h \in DOMAIN hostChannels :
          /\ hostChannels[h].peer \in DOMAIN channels
          /\ channels'[hostChannels[h].peer].port = hostChannels[h].port
          /\ hostChannels[h].state # "TRYOPEN" => channels'[hostChannels[h].peer].peer = h
    BY <1>1, <1>4, SMTT(30) DEF EndsMatch
  <2>3. ASSUME NEW p \in Ports, active[p] # None
        PROVE  channels'[active[p]].port = p /\ channels'[active[p]].state # "INIT"
    <3>1. active[p] \in DOMAIN channels
      BY <1>1, <2>3, Types, SMTT(30) DEF TypeOK, None
    <3> QED BY <1>1, <1>4, <2>3, <3>1, SMTT(30) DEF EndsMatch
  <2> QED BY <1>2, <1>3, <2>1, <2>2, <2>3, SMTT(30) DEF EndsMatch
<1>6. OneOpenChannel'
  BY <1>1, <1>2, <1>3, <1>4 DEF OneOpenChannel
<1>7. OneAccountPerOwner'
  BY <1>1, <1>2 DEF OneAccountPerOwner
<1> QED
  BY <1>3, <1>5, <1>6, <1>7

\* The packet goes to the end of the port's open channel, with the highest number so far.
LEMMA SendTxInv ==
  ASSUME AccountsInv, NEW port \in Ports, NEW signer \in 1..accounts, SendTx(port, signer)
  PROVE  AccountsInv'
<1> DEFINE ch == active[port]
           old == channels[ch].packets
           packet == [tx |-> sent[port] + 1, signer |-> signer, routed |-> middleware[port],
                      status |-> "sent"]
           new == [channels[ch] EXCEPT !.packets = Append(old, packet)]
<1>1. TypeOK /\ EndsMatch /\ PacketsInOrder /\ OnlyOwnersExecute
  BY DEF AccountsInv
<1>2. ch \in DOMAIN channels /\ channels[ch].state = "OPEN" /\ channels[ch].port = port
  BY <1>1, Types, SMTT(30) DEF SendTx, HasOpenActiveChannel, TypeOK, EndsMatch, None
<1>3. /\ channels' = [channels EXCEPT ![ch] = new]
      /\ sent' = [sent EXCEPT ![port] = sent[port] + 1]
      /\ UNCHANGED <<hostChannels, controllerVars, hostVars, executed, params>>
  BY DEF SendTx
<1>4. UNCHANGED <<active, address, middleware, hostActive, hostAddress, accounts>>
  BY <1>3 DEF controllerVars, hostVars
<1>5. channels[ch] \in Channel /\ old \in Seq(Packet) /\ Len(old) \in Nat /\ DOMAIN old = 1..Len(old)
  BY <1>1, <1>2, Types, SMTT(30)
<1>6. /\ packet \in Packet /\ packet.tx = sent[port] + 1 /\ packet.routed = middleware[port]
      /\ ~Received(packet)
  <2>1. sent[port] \in Nat /\ middleware[port] \in {"enabled", "disabled", "unset"} /\ signer \in Nat
    BY <1>1, SMTT(30) DEF TypeOK
  <2> QED BY <2>1, SMTT(30) DEF Packet, Received
<1> HIDE DEF packet
<1>7. /\ new \in Channel /\ new.port = port /\ new.peer = channels[ch].peer /\ new.state = "OPEN"
      /\ new.packets = Append(old, packet)
  <2>1. Append(old, packet) \in Seq(Packet)
    BY <1>5, <1>6, SMTT(30)
  <2> HIDE DEF old
  <2> QED BY <1>2, <1>5, <2>1 DEF Channel
<1> HIDE DEF new, ch
<1>8. /\ channels' \in Seq(Channel) /\ Len(channels') = Len(channels)
      /\ DOMAIN channels' = DOMAIN channels /\ channels'[ch] = new
      /\ \A k \in DOMAIN channels : k # ch => channels'[k] = channels[k]
      /\ EndsMatch' /\ OneOpenChannel' /\ OneAccountPerOwner'
  BY <1>2, <1>3, <1>7, PacketsInv
<1>9. /\ sent' \in [Ports -> Nat] /\ sent'[port] = sent[port] + 1 /\ sent[port] \in Nat
      /\ \A p \in Ports : sent[p] \in Nat /\ sent[p] <= sent'[p]
  <2>1. sent \in [Ports -> Nat]
    BY <1>1 DEF TypeOK
  <2> QED BY <1>3, <2>1, SMTT(30)
<1>10. TypeOK'
  BY <1>1, <1>3, <1>4, <1>8, <1>9 DEF TypeOK
<1>11. /\ DOMAIN new.packets = 1..Len(old) + 1 /\ new.packets[Len(old) + 1] = packet
       /\ \A i \in DOMAIN old : i \in DOMAIN new.packets /\ new.packets[i] = old[i]
  <2> HIDE DEF old
  <2> QED BY <1>5, <1>6, <1>7, SMTT(30)
<1> HIDE DEF old
<1>12. \A j \in DOMAIN old :
         /\ old[j].tx \in 1..sent[port]
         /\ \A i \in 1..j - 1 : old[i].tx < old[j].tx /\ (Received(old[j]) => Received(old[i]))
  BY <1>1, <1>2 DEF PacketsInOrder, old
<1>13. PacketsInOrder'
  <2> SUFFICES ASSUME NEW k \in DOMAIN channels', NEW j \in DOMAIN channels'[k].packets
               PROVE  /\ channels'[k].packets[j].tx \in 1..sent'[channels'[k].port]
                      /\ \A i \in 1..j - 1 :
                           /\ channels'[k].packets[i].tx < channels'[k].packets[j].tx
                           /\ Received(channels'[k].packets[j]) => Received(channels'[k].packets[i])
    BY DEF PacketsInOrder
  <2>1. CASE k # ch
    <3>1. /\ channels'[k] = channels[k] /\ k \in DOMAIN channels /\ channels[k].port \in Ports
      BY <1>1, <1>8, <2>1, Types
    <3>2. /\ channels[k].packets[j].tx \in 1..sent[channels[k].port]
          /\ \A i \in 1..j - 1 :
               /\ channels[k].packets[i].tx < channels[k].packets[j].tx
               /\ Received(channels[k].packets[j]) => Received(channels[k].packets[i])
      BY <1>1, <3>1 DEF PacketsInOrder
    <3>3. channels[k].packets[j].tx \in 1..sent'[channels[k].port]
      BY <1>9, <3>1, <3>2, SMTT(30)
    <3> QED BY <3>1, <3>2, <3>3
  <2>2. CASE k = ch /\ j \in DOMAIN old
    <3>1. /\ channels'[k].packets[j] = old[j] /\ channels'[k].port = port
      BY <1>7, <1>8, <1>11, <2>2
    <3>2. \A i \in 1..j - 1 : i \in DOMAIN old
      BY <1>5, <2>2, SMTT(30)
    <3>3. \A i \in 1..j - 1 : channels'[k].packets[i] = old[i]
      BY <1>8, <1>11, <2>2, <3>2
    <3> QED BY <1>9, <1>12, <2>2, <3>1, <3>3, SMTT(30)
  <2>3. CASE k = ch /\ j \notin DOMAIN old
    <3>1. j = Len(old) + 1 /\ channels'[k].packets[j] = packet /\ channels'[k].port = port
      BY <1>5, <1>7, <1>8, <1>11, <2>3, SMTT(30)
    <3>2. \A i \in 1..j - 1 : channels'[k].packets[i] = old[i] /\ old[i].tx \in 1..sent[port]
      BY <1>5, <1>7, <1>8, <1>11, <1>12, <2>3, <3>1, SMTT(30)
    <3> QED BY <1>6, <1>9, <3>1, <3>2, SMTT(30)
  <2> QED BY <2>1, <2>2, <2>3
<1>14. OnlyOwnersExecute'
  <2> SUFFICES ASSUME NEW a \in DOMAIN executed, NEW i \in DOMAIN executed[a]
               PROVE  /\ hostAddress[executed[a][i].port] = a
                      /\ executed[a][i].tx \in 1..sent'[executed[a][i].port]
    BY <1>3, <1>4 DEF OnlyOwnersExecute
  <2>1. executed[a][i] \in Entry
    BY <1>1, Types, SMTT(30)
  <2>2. executed[a][i].port \in Ports
    BY <2>1 DEF Entry
  <2>3. hostAddress[executed[a][i].port] = a /\ executed[a][i].tx \in 1..sent[executed[a][i].port]
    BY <1>1 DEF OnlyOwnersExecute
  <2> QED BY <1>9, <2>2, <2>3, SMTT(30)
<1>15. ExecutedWereReceived'
  <2>1. \A k \in DOMAIN channels : \A seq \in DOMAIN channels[k].packets :
          seq \in DOMAIN channels'[k].packets /\ channels'[k].packets[seq] = channels[k].packets[seq]
    BY <1>8, <1>11 DEF old
  <2> QED BY <1>3, <2>1, AllStayBacked
<1>16. ExecutedInOrderOnChannel'
  BY <1>3, SMTT(30) DEF AccountsInv, ExecutedInOrderOnChannel
<1>17. AcknowledgementsRoutedAsSent'
  <2> SUFFICES ASSUME NEW k \in DOMAIN channels', channels'[k].state = "OPEN",
                      NEW seq \in DOMAIN channels'[k].packets,
                      channels'[k].packets[seq].status \in {"sent", "received"}
               PROVE  channels'[k].packets[seq].routed = middleware[channels'[k].port]
    BY <1>4 DEF AcknowledgementsRoutedAsSent
  <2>1. CASE k # ch
    BY <1>8, <2>1, SMTT(30) DEF AccountsInv, AcknowledgementsRoutedAsSent
  <2>2. CASE k = ch /\ seq \in DOMAIN old
    BY <1>2, <1>7, <1>8, <1>11, <2>2, SMTT(30) DEF AccountsInv, AcknowledgementsRoutedAsSent, old
  <2>3. CASE k = ch /\ seq \notin DOMAIN old
    <3>1. channels'[k].packets[seq] = packet
      BY <1>5, <1>7, <1>8, <1>11, <2>3, SMTT(30)
    <3> QED BY <1>6, <1>7, <1>8, <2>3, <3>1
  <2> QED BY <2>1, <2>2, <2>3
<1> QED
  BY <1>8, <1>10, <1>13, <1>14, <1>15, <1>16, <1>17 DEF AccountsInv

WithStatus(channel, seq, status, state) ==
  [channel EXCEPT !.packets[seq].status = status, !.state = state]

\* A packet's status changes, and nothing else in its channel but the channel's state.
LEMMA StatusSet ==
  ASSUME TypeOK, NEW ch \in DOMAIN channels, NEW seq \in DOMAIN channels[ch].packets,
         NEW status \in {"received", "acknowledged", "timedout"},
         NEW state \in {channels[ch].state, "CLOSED"}
  PROVE  LET old == channels[ch]
             new == WithStatus(old, seq, status, state)
         IN
         /\ new \in Channel /\ new.port = old.port /\ new.peer = old.peer /\ new.state = state
         /\ DOMAIN new.packets = DOMAIN old.packets
         /\ new.packets[seq].status = status
         /\ \A i \in DOMAIN old.packets :
              /\ new.packets[i].tx = old.packets[i].tx
              /\ new.packets[i].routed = old.packets[i].routed
              /\ i # seq => new.packets[i] = old.packets[i]
<1> DEFINE old == channels[ch]
           packet == [old.packets[seq] EXCEPT !.status = status]
           packets == [old.packets EXCEPT ![seq] = packet]
           new == [old EXCEPT !.packets = packets, !.state = state]
<1>1. old \in Channel /\ old.packets \in Seq(Packet) /\ old.packets[seq] \in Packet
  BY Types
<1>2. /\ packet \in Packet /\ packet.tx = old.packets[seq].tx /\ packet.status = status
      /\ packet.routed = old.packets[seq].routed
  BY <1>1 DEF Packet
<1> HIDE DEF packet
<1>3. /\ packets \in Seq(Packet) /\ DOMAIN packets = DOMAIN old.packets /\ packets[seq] = packet
      /\ \A i \in DOMAIN old.packets : i # seq => packets[i] = old.packets[i]
  BY <1>1, <1>2, SMTT(30)
<1> HIDE DEF packets
<1>4. /\ new \in Channel /\ new.port = old.port /\ new.peer = old.peer /\ new.state = state
      /\ new.packets = packets
  <2>1. state \in {"INIT", "OPEN", "CLOSED"}
    BY <1>1 DEF Channel
  <2> QED BY <1>1, <1>3, <2>1 DEF Channel
<1>5. new = WithStatus(old, seq, status, state)
  BY <1>1 DEF packets, packet, Channel, WithStatus
<1> HIDE DEF new
<1> QED
  BY <1>2, <1>3, <1>4, <1>5

\* A packet is acknowledged that was received, or times out that was not.
LEMMA SettledInv ==
  ASSUME AccountsInv, NEW ch \in DOMAIN channels, NEW seq \in DOMAIN channels[ch].packets,
         NEW status \in {"acknowledged", "timedout"}, NEW state \in {channels[ch].state, "CLOSED"},
         Received(channels[ch].packets[seq]) <=> status = "acknowledged",
         channels' = [channels EXCEPT ![ch] = WithStatus(@, seq, status, state)],
         UNCHANGED <<hostChannels, controllerVars, hostVars, sent, executed, params>>
  PROVE  AccountsInv'
<1> DEFINE old == channels[ch]
           new == WithStatus(old, seq, status, state)
<1>1. TypeOK /\ EndsMatch /\ PacketsInOrder
  BY DEF AccountsInv
<1>2. UNCHANGED <<active, address, middleware, hostActive, hostAddress, accounts>>
  BY DEF controllerVars, hostVars
<1>3. /\ new \in Channel /\ new.port = old.port /\ new.peer = old.peer /\ new.state = state
      /\ DOMAIN new.packets = DOMAIN old.packets
      /\ new.packets[seq].status = status
      /\ \A i \in DOMAIN old.packets :
           /\ new.packets[i].tx = old.packets[i].tx
           /\ new.packets[i].routed = old.packets[i].routed
           /\ i # seq => new.packets[i] = old.packets[i]
  <2>1. status \in {"received", "acknowledged", "timedout"}
    OBVIOUS
  <2> QED BY <1>1, <2>1, StatusSet, SMTT(30)
<1>4. channels' = [channels EXCEPT ![ch] = new]
  OBVIOUS
<1> HIDE DEF new
<1>5. old.state # "INIT"
  <2>1. old.packets # <<>>
    BY SMTT(30)
  <2> QED BY <1>1, <2>1 DEF EndsMatch
<1>6. /\ channels' \in Seq(Channel) /\ Len(channels') = Len(channels)
      /\ DOMAIN channels' = DOMAIN channels /\ channels'[ch] = new
      /\ \A k \in DOMAIN channels : k # ch => channels'[k] = channels[k]
      /\ EndsMatch' /\ OneOpenChannel' /\ OneAccountPerOwner'
  BY <1>3, <1>4, <1>5, PacketsInv, ZenonT(60)
<1>7. TypeOK'
  BY <1>1, <1>2, <1>6 DEF TypeOK
<1>8. \A k \in DOMAIN channels :
        /\ channels'[k].port = channels[k].port
        /\ DOMAIN channels'[k].packets = DOMAIN channels[k].packets
        /\ \A i \in DOMAIN channels[k].packets :
             /\ channels'[k].packets[i].tx = channels[k].packets[i].tx
             /\ Received(channels'[k].packets[i]) <=> Received(channels[k].packets[i])
  <2>1. Received(new.packets[seq]) <=> status = "acknowledged"
    BY <1>3 DEF Received
  <2>2. \A i \in DOMAIN old.packets : Received(new.packets[i]) <=> Received(old.packets[i])
    BY <1>3, <2>1
  <2>3. ASSUME NEW k \in DOMAIN channels, k # ch
        PROVE  channels'[k] = channels[k]
    BY <1>6, <2>3
  <2> QED BY <1>3, <1>6, <2>2, <2>3, SMTT(30)
<1>9. PacketsInOrder'
  <2> SUFFICES ASSUME NEW k \in DOMAIN channels, NEW j \in DOMAIN channels[k].packets
               PROVE  /\ channels'[k].packets[j].tx \in 1..sent[channels'[k].port]
                      /\ \A i \in 1..j - 1 :
                           /\ channels'[k].packets[i].tx < channels'[k].packets[j].tx
                           /\ Received(channels'[k].packets[j]) => Received(channels'[k].packets[i])
    BY <1>6, <1>8, SMTT(30) DEF PacketsInOrder
  <2>1. /\ channels[k].packets[j].tx \in 1..sent[channels[k].port]
        /\ \A i \in 1..j - 1 :
             /\ channels[k].packets[i].tx < channels[k].packets[j].tx
             /\ Received(channels[k].packets[j]) => Received(channels[k].packets[i])
    BY <1>1 DEF PacketsInOrder
  <2>2. \A i \in 1..j - 1 : i \in DOMAIN channels[k].packets
    <3>1. channels[k].packets \in Seq(Packet)
      BY <1>1, Types
    <3> QED BY <3>1, SMTT(30)
  <2> QED BY <1>8, <2>1, <2>2, SMTT(30)
<1>10. OnlyOwnersExecute' /\ ExecutedInOrderOnChannel'
  BY <1>2, SMTT(30) DEF AccountsInv, OnlyOwnersExecute, ExecutedInOrderOnChannel
<1>11. ExecutedWereReceived'
  BY <1>8, AllStayBacked, SMTT(30)
<1>12. AcknowledgementsRoutedAsSent'
  <2> SUFFICES ASSUME NEW k \in DOMAIN channels, channels'[k].state = "OPEN",
                      NEW i \in DOMAIN channels'[k].packets,
                      channels'[k].packets[i].status \in {"sent", "received"}
               PROVE  channels'[k].packets[i].routed = middleware[channels'[k].port]
    BY <1>2, <1>6, SMTT(30) DEF AcknowledgementsRoutedAsSent
  <2>1. /\ channels[k].state = "OPEN" /\ i \in DOMAIN channels[k].packets
        /\ channels'[k].packets[i] = channels[k].packets[i]
    BY <1>3, <1>6, SMTT(30)
  <2> QED BY <1>8, <2>1, SMTT(30) DEF AccountsInv, AcknowledgementsRoutedAsSent
<1> QED
  BY <1>6, <1>7, <1>9, <1>10, <1>11, <1>12 DEF AccountsInv

LEMMA AcknowledgeInv ==
  ASSUME AccountsInv, NEW ch \in DOMAIN channels, NEW seq \in DOMAIN channels[ch].packets,
         OnAcknowledgementPacket(ch, seq)
  PROVE  AccountsInv'
<1>1. channels[ch] \in Channel
  BY Types DEF AccountsInv
<1>2. [channels[ch] EXCEPT !.packets[seq].status = "acknowledged"] =
        WithStatus(channels[ch], seq, "acknowledged", channels[ch].state)
  BY <1>1 DEF Channel, WithStatus
<1>3. channels' = [channels EXCEPT ![ch] = WithStatus(@, seq, "acknowledged", channels[ch].state)]
  BY <1>2 DEF OnAcknowledgementPacket, SetStatus
<1>4. Received(channels[ch].packets[seq])
  BY DEF OnAcknowledgementPacket, Received
<1>5. UNCHANGED <<hostChannels, controllerVars, hostVars, sent, executed, params>>
  BY DEF OnAcknowledgementPacket
<1> QED
  BY <1>3, <1>4, <1>5, SettledInv

LEMMA TimeoutInv ==
  ASSUME AccountsInv, NEW ch \in DOMAIN channels, NEW seq \in DOMAIN channels[ch].packets,
         OnTimeoutPacket(ch, seq)
  PROVE  AccountsInv'
<1>1. channels' = [channels EXCEPT ![ch] = WithStatus(@, seq, "timedout", "CLOSED")]
  BY DEF OnTimeoutPacket, SetStatus, WithStatus
<1>2. ~Received(channels[ch].packets[seq])
  BY DEF OnTimeoutPacket, Received
<1>3. UNCHANGED <<hostChannels, controllerVars, hostVars, sent, executed, params>>
  BY DEF OnTimeoutPacket
<1> QED
  BY <1>1, <1>2, <1>3, SettledInv

-----------------------------------------------------------------------------
(* The host. *)

\* A host end that the controller's end knows opens or closes.
LEMMA HostStateInv ==
  ASSUME AccountsInv, NEW h \in DOMAIN hostChannels, NEW state \in {"OPEN", "CLOSED"},
         channels[hostChannels[h].peer].peer = h,
         hostChannels' = [hostChannels EXCEPT ![h].state = state],
         hostActive' \in [Ports -> 0..Len(hostChannels)],
         UNCHANGED <<channels, controllerVars, hostAddress, accounts, sent, executed, params>>
  PROVE  AccountsInv'
<1> DEFINE new == [hostChannels[h] EXCEPT !.state = state]
<1>1. TypeOK /\ EndsMatch /\ OneAccountPerOwner
  BY DEF AccountsInv
<1>2. UNCHANGED <<active, address, middleware>>
  BY DEF controllerVars
<1>3. /\ new \in HostChannel /\ new.state = state /\ new.port = hostChannels[h].port
      /\ new.peer = hostChannels[h].peer /\ new.address = hostChannels[h].address
  <2>1. hostChannels[h] \in HostChannel
    BY <1>1, Types
  <2> QED BY <2>1 DEF HostChannel
<1>4. hostChannels' = [hostChannels EXCEPT ![h] = new]
  OBVIOUS
<1> HIDE DEF new
<1>5. /\ hostChannels' \in Seq(HostChannel) /\ Len(hostChannels') = Len(hostChannels)
      /\ DOMAIN hostChannels' = DOMAIN hostChannels /\ hostChannels'[h] = new
      /\ \A g \in DOMAIN hostChannels : g # h => hostChannels'[g] = hostChannels[g]
  <2>1. hostChannels \in Seq(HostChannel)
    BY <1>1, Types
  <2> QED BY <1>3, <1>4, <2>1, SMTT(30)
<1>6. \A g \in DOMAIN hostChannels :
        /\ hostChannels'[g].port = hostChannels[g].port
        /\ hostChannels'[g].peer = hostChannels[g].peer
        /\ hostChannels'[g].address = hostChannels[g].address
  BY <1>3, <1>5
<1>7. TypeOK'
  BY <1>1, <1>2, <1>5 DEF TypeOK
<1>8. EndsMatch'
  <2>1. \A k \in DOMAIN channels : channels[k].state # "INIT" =>
          channels[k].peer \in DOMAIN hostChannels /\ hostChannels'[channels[k].peer].peer = k
    BY <1>1, <1>6 DEF EndsMatch
  <2>2. \A g \in DOMAIN hostChannels :
          hostChannels'[g].state # "TRYOPEN" => channels[hostChannels[g].peer].peer = g
    BY <1>1, <1>5 DEF EndsMatch
  <2> QED BY <1>1, <1>2, <1>5, <1>6, <2>1, <2>2, SMTT(30) DEF EndsMatch
<1>9. OneOpenChannel' /\ PacketsInOrder' /\ AcknowledgementsRoutedAsSent'
  BY <1>2 DEF AccountsInv, OneOpenChannel, PacketsInOrder, AcknowledgementsRoutedAsSent
<1>10. OneAccountPerOwner'
  BY <1>1, <1>2, <1>5, <1>6, SMTT(30) DEF OneAccountPerOwner
<1>11. OnlyOwnersExecute' /\ ExecutedInOrderOnChannel'
  BY SMTT(30) DEF AccountsInv, OnlyOwnersExecute, ExecutedInOrderOnChannel
<1>12. ExecutedWereReceived'
  BY <1>5, <1>6, AllStayBacked
<1> QED
  BY <1>7, <1>8, <1>9, <1>10, <1>11, <1>12 DEF AccountsInv

LEMMA ConfirmInv ==
  ASSUME AccountsInv, NEW h \in DOMAIN hostChannels, OnChanOpenConfirm(h)
  PROVE  AccountsInv'
<1>1. TypeOK /\ hostActive \in [Ports -> 0..Len(hostChannels)]
  BY DEF AccountsInv, TypeOK
<1>2. h \in 0..Len(hostChannels) /\ hostChannels[h].port \in Ports
  BY <1>1, Types, SMTT(30)
<1>3. hostActive' \in [Ports -> 0..Len(hostChannels)]
  BY <1>1, <1>2 DEF OnChanOpenConfirm
<1> QED
  BY <1>3, HostStateInv DEF OnChanOpenConfirm

LEMMA CloseInv ==
  ASSUME AccountsInv, NEW h \in DOMAIN hostChannels, OnChanCloseConfirm(h)
  PROVE  AccountsInv'
<1>1. hostActive' \in [Ports -> 0..Len(hostChannels)] /\ UNCHANGED <<hostAddress, accounts>>
  BY DEF AccountsInv, TypeOK, OnChanCloseConfirm, hostVars
<1> QED
  BY <1>1, HostStateInv DEF OnChanCloseConfirm

\* An account that is created has the next number, which no port has yet.
LEMMA TryInv ==
  ASSUME AccountsInv, NEW ch \in DOMAIN channels, OnChanOpenTry(ch)
  PROVE  AccountsInv'
<1> DEFINE port == channels[ch].port
           account == IF hostAddress[port] = None THEN accounts + 1 ELSE hostAddress[port]
           new == [port |-> port, state |-> "TRYOPEN", peer |-> ch, address |-> account]
<1>1. TypeOK /\ EndsMatch /\ OneAccountPerOwner /\ OnlyOwnersExecute
  BY DEF AccountsInv
<1>2. /\ hostChannels' = Append(hostChannels, new)
      /\ hostAddress' = [hostAddress EXCEPT ![port] = account]
      /\ accounts' = IF hostAddress[port] = None THEN account ELSE accounts
      /\ executed' = IF hostAddress[port] = None THEN Append(executed, <<>>) ELSE executed
      /\ UNCHANGED <<channels, active, address, middleware, hostActive, sent, params>>
  BY DEF OnChanOpenTry, controllerVars
<1>3. /\ port \in Ports /\ accounts \in Nat /\ hostAddress \in [Ports -> 0..accounts]
      /\ address \in [Ports -> 0..accounts] /\ ch \in Nat
  BY <1>1, Types, SMTT(30) DEF TypeOK
<1>4. /\ account \in 1..accounts' /\ accounts' \in Nat /\ accounts <= accounts'
      /\ hostAddress[port] # None => account = hostAddress[port]
      /\ hostAddress[port] = None => account = accounts + 1
  BY <1>2, <1>3, SMTT(30) DEF None
<1>5. /\ hostAddress' \in [Ports -> 0..accounts'] /\ hostAddress'[port] = account
      /\ \A p \in Ports : hostAddress[p] # None => hostAddress'[p] = hostAddress[p]
      /\ \A p \in Ports : p # port => hostAddress'[p] = hostAddress[p]
  <2>1. account \in 0..accounts' /\ \A p \in Ports : hostAddress[p] \in 0..accounts'
    BY <1>3, <1>4, SMTT(30)
  <2> HIDE DEF account
  <2> QED BY <1>2, <1>3, <1>4, <2>1
<1> HIDE DEF account
<1>6. /\ new \in HostChannel /\ new.port = port /\ new.state = "TRYOPEN" /\ new.peer = ch
      /\ new.address = account
  BY <1>3, <1>4, SMTT(30) DEF HostChannel
<1> HIDE DEF new, port
<1>7. /\ hostChannels' \in Seq(HostChannel) /\ Len(hostChannels') = Len(hostChannels) + 1
      /\ DOMAIN hostChannels' = DOMAIN hostChannels \cup {Len(hostChannels) + 1}
      /\ hostChannels'[Len(hostChannels) + 1] = new
      /\ \A g \in DOMAIN hostChannels : hostChannels'[g] = hostChannels[g]
  <2>1. hostChannels \in Seq(HostChannel)
    BY <1>1, Types
  <2> QED BY <1>2, <1>6, <2>1, SMTT(30)
<1>8. /\ executed' \in Seq(Seq(Entry)) /\ Len(executed') = accounts'
      /\ \A a \in DOMAIN executed' : DOMAIN executed'[a] # {} =>
           a \in DOMAIN executed /\ executed'[a] = executed[a]
  <2>1. executed \in Seq(Seq(Entry)) /\ Len(executed) = accounts
    BY <1>1, Types DEF TypeOK
  <2>2. CASE hostAddress[port] = None
    <3>1. executed' = Append(executed, <<>>) /\ accounts' = accounts + 1
      BY <1>2, <1>4, <2>2
    <3>2. <<>> \in Seq(Entry) /\ DOMAIN <<>> = {}
      BY SMTT(30)
    <3> QED BY <2>1, <3>1, <3>2, SMTT(30)
  <2>3. CASE hostAddress[port] # None
    BY <1>2, <2>1, <2>3
  <2> QED BY <2>2, <2>3
<1>9. TypeOK'
  <2>1. hostActive \in [Ports -> 0..Len(hostChannels')]
    <3>1. hostActive \in [Ports -> 0..Len(hostChannels)] /\ Len(hostChannels) \in Nat
      BY <1>1, Types DEF TypeOK
    <3> QED BY <1>7, <3>1, SMTT(30)
  <2>2. address \in [Ports -> 0..accounts']
    BY <1>3, <1>4, SMTT(30)
  <2> QED BY <1>1, <1>2, <1>4, <1>5, <1>7, <1>8, <2>1, <2>2 DEF TypeOK, Entry
<1>10. EndsMatch'
  <2>1. \A g \in DOMAIN hostChannels' :
          /\ hostChannels'[g].peer \in DOMAIN channels
          /\ channels[hostChannels'[g].peer].port = hostChannels'[g].port
          /\ hostChannels'[g].state # "TRYOPEN" => channels[hostChannels'[g].peer].peer = g
    BY <1>1, <1>6, <1>7, SMTT(30) DEF EndsMatch, port
  <2>2. \A k \in DOMAIN channels : channels[k].state # "INIT" =>
          channels[k].peer \in DOMAIN hostChannels' /\ hostChannels'[channels[k].peer].peer = k
    BY <1>1, <1>7 DEF EndsMatch
  <2> QED BY <1>1, <1>2, <2>1, <2>2 DEF EndsMatch
<1>11. OneOpenChannel' /\ PacketsInOrder' /\ AcknowledgementsRoutedAsSent'
  BY <1>2 DEF AccountsInv, OneOpenChannel, PacketsInOrder, AcknowledgementsRoutedAsSent
<1>12. OneAccountPerOwner'
  <2>1. \A p \in Ports : address[p] # None => address[p] = hostAddress'[p]
    BY <1>1, <1>5 DEF OneAccountPerOwner
  <2>2. ASSUME NEW p \in Ports, NEW q \in Ports, p # q, hostAddress'[p] # None
        PROVE  hostAddress'[p] # hostAddress'[q]
    <3>1. hostAddress[p] # None /\ hostAddress[q] # None => hostAddress[p] # hostAddress[q]
      BY <1>1, <2>2 DEF OneAccountPerOwner
    <3>2. hostAddress[p] \in 0..accounts /\ hostAddress[q] \in 0..accounts
      BY <1>3
    <3>3. CASE p = port
      BY <1>3, <1>4, <1>5, <2>2, <3>1, <3>2, <3>3, SMTT(30) DEF None
    <3>4. CASE q = port
      BY <1>3, <1>4, <1>5, <2>2, <3>1, <3>2, <3>4, SMTT(30) DEF None
    <3>5. CASE p # port /\ q # port
      BY <1>1, <1>5, <2>2, <3>5, SMTT(30) DEF OneAccountPerOwner
    <3> QED BY <3>3, <3>4, <3>5
  <2>3. ASSUME NEW g \in DOMAIN hostChannels'
        PROVE  /\ hostChannels'[g].address # None
               /\ hostChannels'[g].address = hostAddress'[hostChannels'[g].port]
    <3>1. CASE g \in DOMAIN hostChannels
      <4>1. hostChannels'[g] = hostChannels[g] /\ hostChannels[g].port \in Ports
        BY <1>1, <1>7, <3>1, Types
      <4> QED BY <1>1, <1>5, <3>1, <4>1, SMTT(30) DEF OneAccountPerOwner
    <3>2. CASE g \notin DOMAIN hostChannels
      BY <1>4, <1>5, <1>6, <1>7, <2>3, <3>2, SMTT(30) DEF None
    <3> QED BY <3>1, <3>2
  <2> QED BY <1>2, <2>1, <2>2, <2>3 DEF OneAccountPerOwner
<1>13. OnlyOwnersExecute'
  <2> SUFFICES ASSUME NEW a \in DOMAIN executed', NEW i \in DOMAIN executed'[a]
               PROVE  /\ hostAddress'[executed'[a][i].port] = a
                      /\ executed'[a][i].tx \in 1..sent[executed'[a][i].port]
    BY <1>2, SMTT(30) DEF OnlyOwnersExecute
  <2>1. a \in DOMAIN executed /\ executed'[a] = executed[a] /\ executed[a][i] \in Entry /\ a # None
    BY <1>1, <1>8, Types, SMTT(30) DEF None
  <2>2. executed[a][i].port \in Ports
    BY <2>1 DEF Entry
  <2>3. /\ hostAddress[executed[a][i].port] = a
        /\ executed[a][i].tx \in 1..sent[executed[a][i].port]
    BY <1>1, <2>1 DEF OnlyOwnersExecute
  <2> QED BY <1>5, <2>1, <2>2, <2>3
<1>14. ExecutedInOrderOnChannel'
  BY <1>8 DEF AccountsInv, ExecutedInOrderOnChannel
<1>15. ExecutedWereReceived'
  <2>1. \A g \in DOMAIN hostChannels :
          g \in DOMAIN hostChannels' /\ hostChannels'[g].peer = hostChannels[g].peer
    BY <1>7
  <2>2. \A k \in DOMAIN channels : \A seq \in DOMAIN channels[k].packets :
          /\ seq \in DOMAIN channels'[k].packets
          /\ channels'[k].packets[seq].tx = channels[k].packets[seq].tx
          /\ Received(channels[k].packets[seq]) => Received(channels'[k].packets[seq])
    BY <1>2
  <2>3. \A a \in DOMAIN executed : \A i \in DOMAIN executed[a] :
          LET g == executed[a][i].channel IN
          /\ g \in DOMAIN hostChannels'
          /\ CameIn(channels'[hostChannels'[g].peer].packets, executed[a][i].tx)
    BY <2>1, <2>2, StaysBacked
  <2> QED BY <1>8, <2>3 DEF ExecutedWereReceived
<1> QED
  BY <1>9, <1>10, <1>11, <1>12, <1>13, <1>14, <1>15 DEF AccountsInv

\* When those that have been received are the first ones, the next sequence number is
\* the first that has not.
LEMMA NextSequence ==
  ASSUME NEW packets \in Seq(Packet),
         \A j \in DOMAIN packets : \A i \in 1..j - 1 : Received(packets[j]) => Received(packets[i])
  PROVE  LET received == {i \in DOMAIN packets : Received(packets[i])}
             seq == 1 + Cardinality(received)
         IN  seq \in Nat /\ received = 1..seq - 1
<1> DEFINE n == Len(packets)
           received == {i \in DOMAIN packets : Received(packets[i])}
           T == {i \in 1..n + 1 : i \notin received}
           R == OpToRel(<, Nat)
<1>1. n \in Nat /\ DOMAIN packets = 1..n /\ received \subseteq 1..n
  BY SMTT(30)
<1> HIDE DEF n
<1>2. \A j \in received : \A i \in 1..j - 1 : i \in received
  BY <1>1, SMTT(30)
<1> HIDE DEF received
<1>3. T \subseteq Nat /\ T # {}
  <2>1. n + 1 \in T
    BY <1>1, SMTT(30)
  <2> QED BY <1>1, <2>1, SMTT(30)
<1> HIDE DEF T
<1>4. IsWellFoundedOn(R, Nat) /\ \A x, y \in Nat : <<y, x>> \in R <=> y < x
  BY NatLessThanWellFounded DEF OpToRel
<1> HIDE DEF R
<1>5. PICK m \in T : \A k \in T : <<k, m>> \notin R
  BY <1>3, <1>4, WFMin
<1>6. \A k \in T : ~(k < m)
  BY <1>3, <1>4, <1>5
<1>7. m \in 1..n + 1 /\ m \notin received
  BY <1>5 DEF T
<1>8. received = 1..m - 1
  <2>1. ASSUME NEW i \in 1..m - 1 PROVE i \in received
    BY <1>1, <1>6, <1>7, SMTT(30) DEF T
  <2>2. ASSUME NEW i \in received PROVE i \in 1..m - 1
    BY <1>1, <1>2, <1>7, SMTT(30)
  <2> QED BY <2>1, <2>2
<1>9. Cardinality(1..m - 1) = m - 1
  <2>1. Cardinality(1..m - 1) = IF 1 > m - 1 THEN 0 ELSE (m - 1) - 1 + 1
    BY <1>1, <1>7, FS_Interval, SMTT(30)
  <2> QED BY <1>1, <1>7, <2>1, SMTT(30)
<1>10. 1 + Cardinality(received) = m /\ m \in Nat
  BY <1>1, <1>7, <1>8, <1>9, SMTT(30)
<1> QED
  BY <1>8, <1>10 DEF received

\* What a packet carries is executed after everything its channel has brought before.
LEMMA RecvInv ==
  ASSUME AccountsInv, NEW h \in DOMAIN hostChannels, NEW succeeds \in BOOLEAN,
         OnRecvPacket(h, succeeds)
  PROVE  AccountsInv'
<1> DEFINE ch == hostChannels[h].peer
           port == hostChannels[h].port
           old == channels[ch]
           received == {i \in DOMAIN old.packets : Received(old.packets[i])}
           seq == 1 + Cardinality(received)
           packet == old.packets[seq]
           new == WithStatus(old, seq, "received", old.state)
           entry == [port |-> port, channel |-> h, tx |-> packet.tx]
<1>1. TypeOK /\ EndsMatch /\ OneAccountPerOwner /\ PacketsInOrder /\ OnlyOwnersExecute
  BY DEF AccountsInv
<1>2. /\ hostChannels[h].state = "OPEN"
      /\ seq \in DOMAIN old.packets /\ packet.status = "sent"
      /\ succeeds => hostAddress[port] # None /\ packet.signer = hostAddress[port]
      /\ channels' = SetStatus(ch, seq, "received")
      /\ executed' = IF succeeds
                     THEN [executed EXCEPT ![packet.signer] = Append(@, entry)] ELSE executed
      /\ UNCHANGED <<hostChannels, controllerVars, hostVars, sent, params>>
  BY DEF OnRecvPacket, AuthenticateTx
<1>3. UNCHANGED <<hostChannels, active, address, middleware, hostActive, hostAddress, accounts,
                  sent, params>>
  BY <1>2 DEF controllerVars, hostVars
<1>4. ch \in DOMAIN channels /\ old.port = port /\ port \in Ports
  BY <1>1, Types DEF EndsMatch
<1>5. old \in Channel /\ old.packets \in Seq(Packet) /\ packet \in Packet
  BY <1>1, <1>2, <1>4, Types
<1>6. seq \in Nat /\ received = 1..seq - 1
  <2>1. \A j \in DOMAIN old.packets : \A i \in 1..j - 1 :
          Received(old.packets[j]) => Received(old.packets[i])
    BY <1>1, <1>4 DEF PacketsInOrder
  <2> QED BY <1>5, <2>1, NextSequence
<1> HIDE DEF seq
<1>7. channels' = [channels EXCEPT ![ch] = new]
  <2>1. new = [old EXCEPT !.packets[seq].status = "received"]
    BY <1>5 DEF Channel, WithStatus
  <2> QED BY <1>2, <2>1 DEF SetStatus
<1>8. /\ new \in Channel /\ new.port = old.port /\ new.peer = old.peer /\ new.state = old.state
      /\ DOMAIN new.packets = DOMAIN old.packets
      /\ new.packets[seq].status = "received"
      /\ \A i \in DOMAIN old.packets :
           /\ new.packets[i].tx = old.packets[i].tx
           /\ new.packets[i].routed = old.packets[i].routed
           /\ i # seq => new.packets[i] = old.packets[i]
  BY <1>1, <1>2, <1>4, StatusSet, ZenonT(60)
<1> HIDE DEF new
<1>9. old.state # "INIT"
  <2>1. DOMAIN <<>> = {}
    BY SMTT(30)
  <2>2. old.packets # <<>>
    BY <1>2, <2>1
  <2> QED BY <1>1, <1>4, <2>2 DEF EndsMatch
<1>10. /\ channels' \in Seq(Channel) /\ Len(channels') = Len(channels)
       /\ DOMAIN channels' = DOMAIN channels /\ channels'[ch] = new
       /\ \A k \in DOMAIN channels : k # ch => channels'[k] = channels[k]
       /\ EndsMatch' /\ OneOpenChannel' /\ OneAccountPerOwner'
  <2>1. UNCHANGED <<hostChannels, controllerVars, hostVars>>
    BY <1>2
  <2> QED BY <1>4, <1>7, <1>8, <1>9, <2>1, PacketsInv
<1>11. /\ Received(new.packets[seq])
       /\ \A i \in DOMAIN old.packets : Received(new.packets[i]) <=> i \in 1..seq
  <2>1. Received(new.packets[seq])
    BY <1>8 DEF Received
  <2>2. \A i \in DOMAIN old.packets : Received(old.packets[i]) <=> i \in 1..seq - 1
    BY <1>6
  <2>3. \A i \in DOMAIN old.packets : i \in Nat
    BY <1>5, SMTT(30)
  <2> HIDE DEF old, received
  <2>4. \A i \in Nat : i \in 1..seq <=> i \in 1..seq - 1 \/ (i = seq /\ 1 <= seq)
    BY <1>6, SMTT(30)
  <2>5. 1 <= seq
    BY <1>2, <1>5, SMTT(30)
  <2> QED BY <1>8, <2>1, <2>2, <2>3, <2>4, <2>5
<1> HIDE DEF old, received
<1>12. PacketsInOrder'
  <2> SUFFICES ASSUME NEW k \in DOMAIN channels', NEW j \in DOMAIN channels'[k].packets
               PROVE  /\ channels'[k].packets[j].tx \in 1..sent[channels'[k].port]
                      /\ \A i \in 1..j - 1 :
                           /\ channels'[k].packets[i].tx < channels'[k].packets[j].tx
                           /\ Received(channels'[k].packets[j]) => Received(channels'[k].packets[i])
    BY <1>2 DEF PacketsInOrder
  <2>1. CASE k # ch
    BY <1>1, <1>10, <2>1 DEF PacketsInOrder
  <2>2. CASE k = ch
    <3>1. j \in DOMAIN old.packets
      BY <1>8, <1>10, <2>2
    <3>2. \A i \in 1..j - 1 : i \in DOMAIN old.packets
      BY <1>5, <3>1, SMTT(30)
    <3>3. /\ old.packets[j].tx \in 1..sent[port]
          /\ \A i \in 1..j - 1 : old.packets[i].tx < old.packets[j].tx
      BY <1>1, <1>4, <3>1 DEF PacketsInOrder, old
    <3>4. \A i \in 1..j - 1 : Received(new.packets[j]) => Received(new.packets[i])
      BY <1>5, <1>6, <1>11, <3>1, <3>2, SMTT(30)
    <3> QED BY <1>4, <1>8, <1>10, <2>2, <3>1, <3>2, <3>3, <3>4
  <2> QED BY <2>1, <2>2
<1>13. AcknowledgementsRoutedAsSent'
  <2> SUFFICES ASSUME NEW k \in DOMAIN channels', channels'[k].state = "OPEN",
                      NEW i \in DOMAIN channels'[k].packets,
                      channels'[k].packets[i].status \in {"sent", "received"}
               PROVE  channels'[k].packets[i].routed = middleware[channels'[k].port]
    BY <1>3 DEF AcknowledgementsRoutedAsSent
  <2>1. CASE k # ch
    BY <1>10, <2>1, SMTT(30) DEF AccountsInv, AcknowledgementsRoutedAsSent
  <2>2. CASE k = ch
    <3>1. i \in DOMAIN old.packets /\ old.packets[i].status \in {"sent", "received"}
      BY <1>2, <1>8, <1>10, <2>2
    <3>2. old.packets[i].routed = middleware[old.port]
      BY <1>4, <1>8, <1>10, <2>2, <3>1 DEF AccountsInv, AcknowledgementsRoutedAsSent, old
    <3> QED BY <1>8, <1>10, <2>2, <3>1, <3>2
  <2> QED BY <2>1, <2>2
<1>14. \A a \in DOMAIN executed : \A i \in DOMAIN executed[a] :
         LET g == executed[a][i].channel IN
         /\ g \in DOMAIN hostChannels'
         /\ CameIn(channels'[hostChannels'[g].peer].packets, executed[a][i].tx)
  <2>1. \A g \in DOMAIN hostChannels :
          g \in DOMAIN hostChannels' /\ hostChannels'[g].peer = hostChannels[g].peer
    BY <1>2
  <2>2. ASSUME NEW k \in DOMAIN channels, NEW i \in DOMAIN channels[k].packets
        PROVE  /\ i \in DOMAIN channels'[k].packets
               /\ channels'[k].packets[i].tx = channels[k].packets[i].tx
               /\ Received(channels[k].packets[i]) => Received(channels'[k].packets[i])
    <3>1. CASE k # ch
      BY <1>10, <3>1
    <3>2. CASE k = ch
      <4>1. i \in DOMAIN old.packets /\ channels[k].packets[i] = old.packets[i]
        BY <3>2 DEF old
      <4>2. Received(old.packets[i]) => Received(new.packets[i])
        BY <1>8, <1>11, <4>1
      <4> QED BY <1>8, <1>10, <3>2, <4>1, <4>2
    <3> QED BY <3>1, <3>2
  <2> QED BY <2>1, <2>2, StaysBacked
<1>15. CASE ~succeeds
  <2>1. executed' = executed
    BY <1>2, <1>15
  <2>2. TypeOK'
    BY <1>1, <1>3, <1>10, <2>1 DEF TypeOK
  <2>3. OnlyOwnersExecute' /\ ExecutedInOrderOnChannel'
    BY <1>3, <2>1, SMTT(30) DEF AccountsInv, OnlyOwnersExecute, ExecutedInOrderOnChannel
  <2>4. ExecutedWereReceived'
    BY <1>14, <2>1 DEF ExecutedWereReceived
  <2> QED BY <1>10, <1>12, <1>13, <2>2, <2>3, <2>4 DEF AccountsInv
<1>16. CASE succeeds
  <2> DEFINE account == hostAddress[port]
             n == Len(executed[account])
             log == Append(executed[account], entry)
  <2>1. account \in DOMAIN executed
    <3>1. hostAddress[port] \in 0..accounts /\ DOMAIN executed = 1..accounts /\ accounts \in Nat
      BY <1>1, <1>4, Types DEF TypeOK
    <3> QED BY <1>2, <1>16, <3>1, SMTT(30) DEF None
  <2>2. /\ executed[account] \in Seq(Entry) /\ executed \in Seq(Seq(Entry))
        /\ n \in Nat /\ DOMAIN executed[account] = 1..n
    BY <1>1, <2>1, Types, SMTT(30)
  <2>3. /\ entry \in Entry /\ entry.port = port /\ entry.channel = h /\ entry.tx = packet.tx
    <3>1. h \in Nat /\ packet.tx \in Nat
      BY <1>1, <1>5, Types, SMTT(30) DEF Packet
    <3> QED BY <1>4, <3>1 DEF Entry
  <2>4. executed' = [executed EXCEPT ![account] = log]
    BY <1>2, <1>16
  <2> HIDE DEF account, entry
  <2>5. /\ log \in Seq(Entry) /\ DOMAIN log = 1..n + 1 /\ log[n + 1] = entry
        /\ \A i \in 1..n : log[i] = executed[account][i]
    BY <2>2, <2>3, SMTT(30)
  <2> HIDE DEF log
  <2>6. /\ executed' \in Seq(Seq(Entry)) /\ Len(executed') = Len(executed)
        /\ DOMAIN executed' = DOMAIN executed /\ executed'[account] = log
        /\ \A a \in DOMAIN executed : a # account => executed'[a] = executed[a]
    BY <2>1, <2>2, <2>4, <2>5, SMTT(30)
  <2>7. \A a \in DOMAIN executed' : \A i \in DOMAIN executed'[a] :
          \/ i \in DOMAIN executed[a] /\ executed'[a][i] = executed[a][i]
          \/ a = account /\ i = n + 1 /\ executed'[a][i] = entry
    <3> HIDE DEF n
    <3>1. \A i \in 1..n + 1 : i \in 1..n \/ i = n + 1
      BY <2>2, SMTT(30)
    <3> QED BY <2>2, <2>5, <2>6, <3>1
  <2> HIDE DEF n
  <2>8. packet.tx \in 1..sent[port] /\ \A i \in 1..seq - 1 : old.packets[i].tx < packet.tx
    BY <1>1, <1>2, <1>4 DEF PacketsInOrder, old
  <2>9. TypeOK'
    BY <1>1, <1>3, <1>10, <2>6 DEF TypeOK, Entry
  <2>10. OnlyOwnersExecute'
    <3> SUFFICES ASSUME NEW a \in DOMAIN executed', NEW i \in DOMAIN executed'[a]
                 PROVE  /\ hostAddress[executed'[a][i].port] = a
                        /\ executed'[a][i].tx \in 1..sent[executed'[a][i].port]
      BY <1>3 DEF OnlyOwnersExecute
    <3>1. CASE i \in DOMAIN executed[a] /\ executed'[a][i] = executed[a][i]
      BY <1>1, <2>6, <3>1 DEF OnlyOwnersExecute
    <3>2. CASE a = account /\ executed'[a][i] = entry
      BY <2>3, <2>8, <3>2 DEF account
    <3> QED BY <2>7, <3>1, <3>2
  <2>11. ExecutedWereReceived'
    <3>1. CameIn(channels'[ch].packets, entry.tx)
      <4>1. seq \in DOMAIN new.packets /\ new.packets[seq].tx = packet.tx
        BY <1>2, <1>8
      <4> QED BY <1>10, <1>11, <2>3, <4>1 DEF CameIn
    <3>2. hostChannels' = hostChannels
      BY <1>2
    <3>3. ASSUME NEW a \in DOMAIN executed', NEW i \in DOMAIN executed'[a]
          PROVE  /\ executed'[a][i].channel \in DOMAIN hostChannels'
                 /\ CameIn(channels'[hostChannels'[executed'[a][i].channel].peer].packets,
                           executed'[a][i].tx)
      <4>1. CASE i \in DOMAIN executed[a] /\ executed'[a][i] = executed[a][i]
        BY <1>14, <2>6, <4>1
      <4>2. CASE executed'[a][i] = entry
        BY <2>3, <3>1, <3>2, <4>2
      <4> QED BY <2>7, <4>1, <4>2
    <3> QED BY <3>3 DEF ExecutedWereReceived
  <2>12. ExecutedInOrderOnChannel'
    <3>1. ASSUME NEW i \in 1..n, executed[account][i].channel = h
          PROVE  executed[account][i].tx < packet.tx
      <4>1. CameIn(old.packets, executed[account][i].tx)
        BY <2>1, <2>2, <3>1 DEF AccountsInv, ExecutedWereReceived, n, old
      <4>2. PICK k \in DOMAIN old.packets :
              Received(old.packets[k]) /\ old.packets[k].tx = executed[account][i].tx
        BY <4>1 DEF CameIn
      <4>3. k \in 1..seq - 1
        BY <1>6, <4>2 DEF received
      <4> QED BY <2>8, <4>2, <4>3
    <3> SUFFICES ASSUME NEW a \in DOMAIN executed',
                        NEW i \in DOMAIN executed'[a], NEW j \in DOMAIN executed'[a],
                        i < j, executed'[a][i].channel = executed'[a][j].channel
                 PROVE  executed'[a][i].tx < executed'[a][j].tx
      BY DEF ExecutedInOrderOnChannel
    <3>2. CASE a # account
      BY <2>6, <3>2 DEF AccountsInv, ExecutedInOrderOnChannel
    <3>3. CASE a = account /\ j \in 1..n
      <4>1. i \in 1..n
        BY <2>2, <2>5, <2>6, <3>3, SMTT(30) DEF n
      <4>2. executed'[a][i] = executed[a][i] /\ executed'[a][j] = executed[a][j]
        BY <2>5, <2>6, <3>3, <4>1
      <4> QED BY <2>1, <2>2, <3>3, <4>1, <4>2 DEF AccountsInv, ExecutedInOrderOnChannel, n
    <3>4. CASE a = account /\ j \notin 1..n
      <4>1. j = n + 1 /\ i \in 1..n
        BY <2>2, <2>5, <2>6, <3>4, SMTT(30) DEF n
      <4>2. executed'[a][i] = executed[account][i] /\ executed'[a][j] = entry
        BY <2>5, <2>6, <3>4, <4>1
      <4> QED BY <2>3, <3>1, <4>1, <4>2
    <3> QED BY <3>2, <3>3, <3>4
  <2> QED BY <1>10, <1>12, <1>13, <2>9, <2>10, <2>11, <2>12 DEF AccountsInv
<1> QED
  BY <1>15, <1>16

-----------------------------------------------------------------------------

LEMMA NextInv == AccountsInv /\ [Next]_vars => AccountsInv'
<1> SUFFICES ASSUME AccountsInv, [Next]_vars PROVE AccountsInv'
  OBVIOUS
<1>1. ASSUME NEW port \in Ports, RegisterStep(port) PROVE AccountsInv'
  BY <1>1, RegisterStepInv
<1>2. ASSUME NEW port \in Ports, SendStep(port) PROVE AccountsInv'
  BY <1>2, SendTxInv DEF SendStep
<1>3. CASE TryStep
  BY <1>3, TryInv DEF TryStep
<1>4. CASE AckStep
  BY <1>4, AckStepInv DEF AckStep
<1>5. CASE ConfirmStep
  BY <1>5, ConfirmInv DEF ConfirmStep
<1>6. CASE CloseStep
  BY <1>6, CloseInv DEF CloseStep
<1>7. CASE PacketStep
  BY <1>7, RecvInv, AcknowledgeInv, TimeoutInv DEF PacketStep
<1>8. ASSUME NEW c \in BOOLEAN, NEW h \in BOOLEAN, UpdateParams(c, h) PROVE AccountsInv'
  <2>1. UNCHANGED <<channels, hostChannels, active, address, middleware, hostActive, hostAddress,
                    accounts, sent, executed>>
    BY <1>8 DEF UpdateParams, controllerVars, hostVars
  <2>2. params' \in [controllerEnabled : BOOLEAN, hostEnabled : BOOLEAN]
    BY <1>8 DEF UpdateParams
  <2>3. TypeOK'
    BY <2>1, <2>2 DEF AccountsInv, TypeOK
  <2> QED BY <2>1, <2>3, UnchangedInv
<1>9. CASE UNCHANGED vars
  <2>1. UNCHANGED <<channels, hostChannels, active, address, middleware, hostActive, hostAddress,
                    accounts, sent, executed, params>>
    BY <1>9 DEF vars, controllerVars, hostVars
  <2>2. TypeOK'
    BY <2>1 DEF AccountsInv, TypeOK
  <2> QED BY <2>1, <2>2, UnchangedInv
<1> QED
  BY <1>1, <1>2, <1>3, <1>4, <1>5, <1>6, <1>7, <1>8, <1>9 DEF Next

\* However handshakes, closures and packets interleave, a port has at most one open
\* channel on the controller, an owner one account that both chains know, an account
\* executes what its owner submitted and nothing else, each channel's transactions in
\* order and once, and acknowledgements are routed as they were when the packet was sent.
THEOREM AccountsInvariance == Spec => []AccountsInv
  BY InitInv, NextInv, PTL DEF Spec
=============================================================================
