--------------------------- MODULE PacketProofs -----------------------------
(***************************************************************************)
(* Type correctness of Packet, for any timeouts, any ordering and any      *)
(* bounds, and that no packet is both received and timed out: the proof    *)
(* that PacketInv is inductive, one handler at a time, with the facts that *)
(* the proofs share about the helpers and what the handlers change.        *)
(***************************************************************************)
EXTENDS PacketInvariant, TLAPS

\* Zenon checks most of the leaves; those that calculate cite SMT.
USE ZenonT(40)

-----------------------------------------------------------------------------
(* Facts about the helpers. *)

\* There are two chains, and each is the other's other.
LEMMA OtherFacts ==
  ASSUME NEW c \in Chains
  PROVE  /\ Other(c) \in Chains
         /\ Other(c) # c
         /\ Other(Other(c)) = c
         /\ \A d \in Chains : d = c \/ d = Other(c)
BY ChainsAssumption, SMTT(30) DEF Chains, Other

\* What appending a header or a callback does to a log.
LEMMA AppendFacts ==
  ASSUME NEW S, NEW s \in Seq(S), NEW e \in S
  PROVE  /\ Append(s, e) \in Seq(S)
         /\ Len(Append(s, e)) = Len(s) + 1
         /\ Append(s, e)[Len(s) + 1] = e
         /\ \A i \in 1..Len(s) : Append(s, e)[i] = s[i]
BY SMTT(30)

\* Updating the entry of one chain.
LEMMA UpdateFacts ==
  ASSUME NEW S, NEW f \in [Chains -> S], NEW c \in Chains, NEW x \in S
  PROVE  /\ [f EXCEPT ![c] = x] \in [Chains -> S]
         /\ [f EXCEPT ![c] = x][c] = x
         /\ \A d \in Chains : d # c => [f EXCEPT ![c] = x][d] = f[d]
OBVIOUS

LEMMA EmptyStoreType ==
  ASSUME NEW state \in ChannelStates
  PROVE  EmptyStore(state) \in Stores
BY SMTT(30) DEF EmptyStore, Stores

LEMMA SetReceivedType ==
  ASSUME NEW s \in Stores, NEW seq \in Nat \ {0}
  PROVE  SetReceived(s, seq) \in Stores
BY SMTT(30) DEF SetReceived, Stores

LEMMA SetAcknowledgementType ==
  ASSUME NEW s \in Stores, NEW seq \in Nat \ {0}, NEW result \in Results
  PROVE  SetAcknowledgement(s, seq, result) \in Stores
BY SMTT(30) DEF SetAcknowledgement, Stores, Acknowledgements, Results

LEMMA SentType ==
  ASSUME NEW s \in Stores, NEW p \in Packets
  PROVE  SetSent(s, p) \in Stores
<1>1. s.nextSend + 1 \in Nat \ {0} /\ s.commitments \cup {p} \in SUBSET Packets
  BY SMTT(30) DEF Stores
<1> QED
  BY <1>1 DEF Stores, SetSent

LEMMA AcknowledgedType ==
  ASSUME NEW s \in Stores, NEW p \in Packets
  PROVE  SetAcknowledged(s, p) \in Stores
<1>1. s.nextAck \in Nat \ {0} /\ s.nextAck + 1 \in Nat \ {0}
      /\ s.commitments \ {p} \in SUBSET Packets
  BY SMTT(30) DEF Stores
<1> QED
  BY <1>1 DEF Stores, SetAcknowledged

LEMMA TimedOutType ==
  ASSUME NEW s \in Stores, NEW p \in Packets
  PROVE  TimeoutExecuted(s, p) \in Stores
<1>1. s.state \in ChannelStates /\ "CLOSED" \in ChannelStates
      /\ s.commitments \ {p} \in SUBSET Packets
  BY DEF Stores, ChannelStates
<1> QED
  BY <1>1 DEF Stores, TimeoutExecuted

-----------------------------------------------------------------------------
(* Type correctness. *)

LEMMA InitTypeOK == Init => TypeOK
<1> SUFFICES ASSUME Init PROVE TypeOK
  OBVIOUS
<1>1. EmptyStore("INIT") \in Stores /\ EmptyStore("TRYOPEN") \in Stores
      /\ EmptyStore("OPEN") \in Stores
  BY EmptyStoreType DEF ChannelStates
<1>2. blocks \in [Chains -> Seq(Headers)] /\ \A c \in Chains : Len(blocks[c]) = 1
  BY <1>1, SMTT(30) DEF Init, Headers
<1>3. store \in [Chains -> Stores]
  BY <1>1 DEF Init
<1>4. /\ client \in [Chains -> [active : BOOLEAN, heights : SUBSET Nat]]
      /\ \A c \in Chains : client[c].heights = {1}
  BY SMTT(30) DEF Init
<1>5. app \in [Chains -> Apps]
  BY SMTT(30) DEF Init, Apps
<1>6. \A c \in Chains : client[c].heights \subseteq 1..Len(blocks[Other(c)])
  <2> TAKE c \in Chains
  <2>1. Len(blocks[Other(c)]) = 1
    BY <1>2, OtherFacts
  <2> QED
    BY <2>1, <1>4, SMTT(30)
<1>7. \A c \in Chains : Len(blocks[c]) \in Nat \ {0}
  <2> TAKE c \in Chains
  <2>1. Len(blocks[c]) = 1
    BY <1>2
  <2> QED
    BY <2>1, SMTT(30)
<1> QED
  BY <1>2, <1>3, <1>4, <1>5, <1>6, <1>7 DEF TypeOK, Height

\* The type invariant at one chain, as the steps below use it.
LEMMA TypeFacts ==
  ASSUME TypeOK, NEW c \in Chains
  PROVE  /\ blocks[c] \in Seq(Headers)
         /\ Height(c) \in Nat \ {0}
         /\ BlockTime(c) \in Nat
         /\ \A h \in 1..Height(c) : blocks[c][h] \in Headers
         /\ store[c] \in Stores
         /\ client[c] \in [active : BOOLEAN, heights : SUBSET Nat]
         /\ client[c].heights \subseteq 1..Height(Other(c))
         /\ app[c] \in Apps
<1>1. blocks[c] \in Seq(Headers) /\ Height(c) \in Nat \ {0}
  BY DEF TypeOK
<1>2. \A h \in 1..Height(c) : blocks[c][h] \in Headers
  BY <1>1, SMTT(30) DEF Height
<1>3. BlockTime(c) \in Nat
  BY <1>1, <1>2, SMTT(30) DEF BlockTime, Headers
<1> QED
  BY <1>1, <1>2, <1>3 DEF TypeOK

LEMMA NextBlockType ==
  ASSUME TypeOK, NEW c \in Chains, NextBlock(c)
  PROVE  TypeOK'
<1>1. PICK interval \in 1..MaxBlockInterval :
        blocks' = [blocks EXCEPT ![c] =
          Append(@, [time |-> BlockTime(c) + interval, root |-> store[c]])]
  BY DEF NextBlock
<1> DEFINE header == [time |-> BlockTime(c) + interval, root |-> store[c]]
<1>2. interval \in Nat
  BY ConstantsAssumption, SMTT(30)
<1>3. header \in Headers
  BY <1>2, TypeFacts, SMTT(30) DEF Headers
<1> HIDE DEF header
<1>4. Append(blocks[c], header) \in Seq(Headers)
      /\ Len(Append(blocks[c], header)) = Height(c) + 1
  BY <1>3, TypeFacts, AppendFacts, SMTT(30) DEF Height
<1>5. blocks' = [blocks EXCEPT ![c] = Append(blocks[c], header)]
  BY <1>1 DEF header
<1>6. blocks' \in [Chains -> Seq(Headers)]
  BY <1>4, <1>5 DEF TypeOK
<1>7. \A d \in Chains : Height(d)' \in Nat \ {0} /\ Height(d) <= Height(d)'
  <2> TAKE d \in Chains
  <2>1. CASE d = c
    BY <2>1, <1>4, <1>5, TypeFacts, SMTT(30) DEF TypeOK, Height
  <2>2. CASE d # c
    BY <2>2, <1>5, TypeFacts, SMTT(30) DEF TypeOK, Height
  <2> QED
    BY <2>1, <2>2
<1>8. \A d \in Chains : client'[d].heights \subseteq 1..Height(Other(d))'
  <2> TAKE d \in Chains
  <2>1. client'[d].heights \subseteq 1..Height(Other(d))
    BY TypeFacts DEF NextBlock
  <2>2. /\ Height(Other(d)) \in Nat /\ Height(Other(d))' \in Nat
        /\ Height(Other(d)) <= Height(Other(d))'
    BY <1>7, OtherFacts, TypeFacts
  <2> QED
    BY <2>1, <2>2, SMTT(30)
<1> QED
  BY <1>6, <1>7, <1>8 DEF TypeOK, NextBlock

LEMMA ClientStepType ==
  ASSUME TypeOK, NEW c \in Chains, ClientStep(c)
  PROVE  TypeOK'
<1> DEFINE heights == client'[c].heights
<1>1. /\ client' \in [Chains -> [active : BOOLEAN, heights : SUBSET Nat]]
      /\ heights \subseteq client[c].heights \cup (1..Height(Other(c)))
      /\ \A d \in Chains : d # c => client'[d] = client[d]
      /\ UNCHANGED <<blocks, store, app>>
  <2>1. CASE LoseClient(c)
    BY <2>1, TypeFacts DEF LoseClient, TypeOK
  <2>2. CASE \E h \in 1..Height(Other(c)) : UpdateClient(c, h)
    <3>1. PICK h \in 1..Height(Other(c)), pruned \in SUBSET {Min(client[c].heights)} :
            client' = [client EXCEPT ![c].heights = (@ \ pruned) \cup {h}]
      BY <2>2 DEF UpdateClient
    <3>2. (client[c].heights \ pruned) \cup {h} \in SUBSET Nat
      BY TypeFacts, SMTT(30)
    <3>3. client' \in [Chains -> [active : BOOLEAN, heights : SUBSET Nat]]
      BY <3>1, <3>2 DEF TypeOK
    <3> QED
      BY <2>2, <3>1, <3>3 DEF UpdateClient, TypeOK
  <2>3. CASE \E h \in 1..Height(Other(c)) : ClientUpdateProposal(c, h)
    BY <2>3, TypeFacts, SMTT(30) DEF ClientUpdateProposal, TypeOK
  <2> QED
    BY <2>1, <2>2, <2>3 DEF ClientStep
<1>2. \A d \in Chains : Height(d)' = Height(d)
  BY <1>1 DEF Height
<1>3. \A d \in Chains : client'[d].heights \subseteq 1..Height(Other(d))'
  BY <1>1, <1>2, TypeFacts, OtherFacts
<1> QED
  BY <1>1, <1>2, <1>3 DEF TypeOK

LEMMA SendPacketType ==
  ASSUME TypeOK, NEW c \in Chains,
         NEW th \in TimeoutHeights, NEW ts \in TimeoutTimestamps, SendPacket(c, th, ts)
  PROVE  store' \in [Chains -> Stores] /\ app' \in [Chains -> Apps]
<1> DEFINE p == [seq |-> store[c].nextSend, timeoutHeight |-> th, timeoutTimestamp |-> ts]
<1>1. p \in Packets
  BY TypeFacts DEF Packets, Stores
<1> HIDE DEF p
<1>2. /\ store' = [store EXCEPT ![c] = SetSent(@, p)]
      /\ app' = [app EXCEPT ![c].sent = @ \cup {p}]
  BY DEF SendPacket, p
<1>3. store' \in [Chains -> Stores]
  BY <1>1, <1>2, TypeFacts, SentType DEF TypeOK
<1>4. app' \in [Chains -> Apps]
  BY <1>1, <1>2, TypeFacts DEF TypeOK, Apps
<1> QED
  BY <1>3, <1>4

LEMMA RecvPacketType ==
  ASSUME TypeOK, NEW c \in Chains, NEW p \in Packets, NEW h,
         NEW result \in Results \cup {"async"}, RecvPacket(c, p, h, result)
  PROVE  store' \in [Chains -> Stores] /\ app' \in [Chains -> Apps]
<1>1. p.seq \in Nat \ {0}
  BY DEF Packets
<1>2. SetReceived(store[c], p.seq) \in Stores
  BY <1>1, TypeFacts, SetReceivedType
<1>3. result # "async" => SetAcknowledgement(SetReceived(store[c], p.seq), p.seq, result) \in Stores
  BY <1>1, <1>2, SetAcknowledgementType
<1>4. store' \in [Chains -> Stores]
  BY <1>2, <1>3 DEF RecvPacket, TypeOK
<1>5. Append(app[c].received, p) \in Seq(Packets)
  BY TypeFacts, AppendFacts DEF Apps
<1>6. app' \in [Chains -> Apps]
  <2>1. OnRecvPacket(app[c], p, result) \in Apps
    BY <1>1, <1>5, TypeFacts DEF OnRecvPacket, Apps
  <2> QED
    BY <2>1 DEF RecvPacket, TypeOK
<1> QED
  BY <1>4, <1>6

LEMMA WriteAcknowledgementType ==
  ASSUME TypeOK, NEW c \in Chains, NEW seq \in app[c].async, NEW result \in Results,
         WriteAcknowledgement(c, seq, result)
  PROVE  store' \in [Chains -> Stores] /\ app' \in [Chains -> Apps]
<1>1. seq \in Nat \ {0}
  BY TypeFacts DEF Apps
<1>2. SetAcknowledgement(store[c], seq, result) \in Stores
  BY <1>1, TypeFacts, SetAcknowledgementType
<1>3. store' \in [Chains -> Stores]
  BY <1>2 DEF WriteAcknowledgement, TypeOK
<1>4. app' \in [Chains -> Apps]
  BY DEF WriteAcknowledgement, TypeOK
<1> QED
  BY <1>3, <1>4

LEMMA TellType ==
  ASSUME TypeOK, NEW c \in Chains, NEW p \in Packets,
         NEW outcome \in Results \cup {"timeout"}, Tell(c, p, outcome)
  PROVE  app' \in [Chains -> Apps]
<1>1. [packet |-> p, outcome |-> outcome] \in Callbacks
  BY DEF Callbacks
<1>2. Append(app[c].told, [packet |-> p, outcome |-> outcome]) \in Seq(Callbacks)
  BY <1>1, TypeFacts, AppendFacts DEF Apps
<1> QED
  BY <1>2, TypeFacts DEF Tell, TypeOK, Apps

LEMMA ResolveType ==
  ASSUME TypeOK, NEW c \in Chains, NEW p \in Packets, NEW h,
         \/ \E r \in Results : AcknowledgePacket(c, p, h, r)
         \/ TimeoutPacket(c, p, h)
         \/ TimeoutOnClose(c, p, h)
  PROVE  store' \in [Chains -> Stores] /\ app' \in [Chains -> Apps]
<1>1. ASSUME NEW r \in Results, AcknowledgePacket(c, p, h, r)
      PROVE  store' \in [Chains -> Stores] /\ app' \in [Chains -> Apps]
  <2>1. app' \in [Chains -> Apps]
    BY <1>1, TellType DEF AcknowledgePacket
  <2>2. store' \in [Chains -> Stores]
    BY <1>1, TypeFacts, AcknowledgedType DEF AcknowledgePacket, TypeOK
  <2> QED
    BY <2>1, <2>2
<1>2. ASSUME Tell(c, p, "timeout"), store' = [store EXCEPT ![c] = TimeoutExecuted(@, p)]
      PROVE  store' \in [Chains -> Stores] /\ app' \in [Chains -> Apps]
  <2>1. app' \in [Chains -> Apps]
    BY <1>2, TellType
  <2>2. store' \in [Chains -> Stores]
    BY <1>2, TypeFacts, TimedOutType DEF TypeOK
  <2> QED
    BY <2>1, <2>2
<1> QED
  BY <1>1, <1>2 DEF TimeoutPacket, TimeoutOnClose

LEMMA PacketStepType ==
  ASSUME TypeOK, NEW c \in Chains, PacketStep(c)
  PROVE  TypeOK'
<1>1. \A d \in Chains : app[d].sent \subseteq Packets
  BY TypeFacts DEF Apps
<1>2. /\ store' \in [Chains -> Stores]
      /\ app' \in [Chains -> Apps]
      /\ UNCHANGED <<blocks, client>>
  <2>1. ASSUME NEW th \in TimeoutHeights, NEW ts \in TimeoutTimestamps, SendPacket(c, th, ts)
        PROVE  <1>2!:
    BY <2>1, SendPacketType DEF SendPacket
  <2>2. ASSUME NEW p \in app[Other(c)].sent, NEW h \in client[c].heights,
               NEW r \in Results \cup {"async"}, RecvPacket(c, p, h, r)
        PROVE  <1>2!:
    BY <2>2, <1>1, OtherFacts, RecvPacketType DEF RecvPacket
  <2>3. ASSUME NEW seq \in app[c].async, NEW r \in Results, WriteAcknowledgement(c, seq, r)
        PROVE  <1>2!:
    BY <2>3, WriteAcknowledgementType DEF WriteAcknowledgement
  <2>4. ASSUME NEW p \in app[c].sent, NEW h \in client[c].heights,
               \/ \E r \in Results : AcknowledgePacket(c, p, h, r)
               \/ TimeoutPacket(c, p, h)
               \/ TimeoutOnClose(c, p, h)
        PROVE  <1>2!:
    BY <2>4, <1>1, ResolveType DEF AcknowledgePacket, TimeoutPacket, TimeoutOnClose
  <2> QED
    BY <2>1, <2>2, <2>3, <2>4 DEF PacketStep
<1> QED
  BY <1>2 DEF TypeOK, Height

LEMMA ChannelStepType ==
  ASSUME TypeOK, NEW c \in Chains, ChannelStep(c)
  PROVE  TypeOK'
<1>1. PICK state \in ChannelStates :
        /\ store' = [store EXCEPT ![c].state = state]
        /\ UNCHANGED <<blocks, client, app>>
  BY DEF ChannelStep, ChanOpenConfirm, ChanCloseInit, ChanCloseConfirm, ChannelStates
<1>2. store' \in [Chains -> Stores]
  BY <1>1, TypeFacts DEF TypeOK, Stores
<1> QED
  BY <1>1, <1>2 DEF TypeOK, Height

LEMMA NextTypeOK == TypeOK /\ [Next]_vars => TypeOK'
<1> SUFFICES ASSUME TypeOK, [Next]_vars PROVE TypeOK'
  OBVIOUS
<1>1. CASE UNCHANGED vars
  BY <1>1 DEF vars, TypeOK, Height
<1>2. CASE Next
  BY <1>2, NextBlockType, ClientStepType, PacketStepType, ChannelStepType DEF Next
<1> QED
  BY <1>1, <1>2

\* The state of both chains keeps its type: in particular no handler lets a
\* sequence number, a counter or a client height out of its range, whatever the
\* order in which messages arrive.
THEOREM PacketTypeCorrect == Spec => []TypeOK
BY InitTypeOK, NextTypeOK, PTL DEF Spec

-----------------------------------------------------------------------------
(* PacketInv: new blocks, sending, and the steps that leave packets alone. *)

\* A timeout once reached stays reached as blocks and time go on.
LEMMA TimeoutReachedMonotone ==
  ASSUME NEW p \in Packets, NEW h1 \in Nat, NEW h2 \in Nat, NEW t1 \in Nat, NEW t2 \in Nat,
         h1 <= h2, t1 <= t2, TimeoutReached(p, h1, t1)
  PROVE  TimeoutReached(p, h2, t2)
<1>1. p.timeoutHeight \in Nat /\ p.timeoutTimestamp \in Nat
  BY ConstantsAssumption DEF Packets
<1> QED
  BY <1>1, SMTT(30) DEF TimeoutReached

\* RecvPacket and TimeoutPacket draw the line at the same place.
LEMMA ReceivedBeforeTimeout ==
  ASSUME NEW p \in Packets, NEW h \in Nat, NEW t \in Nat
  PROVE  TimedOutOnReceive(p, h, t) <=> TimeoutReached(p, h, t)
<1>1. p.timeoutHeight \in Nat /\ p.timeoutTimestamp \in Nat
  BY ConstantsAssumption DEF Packets
<1> QED
  BY <1>1, SMTT(30) DEF TimeoutReached, TimedOutOnReceive

\* A callback adds one entry to one application's log.
LEMMA ToldAfterTell ==
  ASSUME TypeOK, NEW c \in Chains, NEW p \in Packets,
         NEW outcome \in Results \cup {"timeout"}, Tell(c, p, outcome)
  PROVE  \A d \in Chains : \A q, o :
           Told(d, q, o)' => Told(d, q, o) \/ (d = c /\ q = p /\ o = outcome)
<1> DEFINE e == [packet |-> p, outcome |-> outcome]
<1> SUFFICES ASSUME NEW d \in Chains, NEW q, NEW o, Told(d, q, o)'
             PROVE  Told(d, q, o) \/ (d = c /\ q = p /\ o = outcome)
  OBVIOUS
<1>1. PICK i \in DOMAIN app'[d].told : app'[d].told[i] = [packet |-> q, outcome |-> o]
  BY DEF Told
<1>2. CASE d # c
  BY <1>1, <1>2 DEF Tell, Told, TypeOK
<1>3. CASE d = c
  <2>1. app'[c].told = Append(app[c].told, e)
    BY TypeFacts DEF Tell, TypeOK, Apps
  <2>2. app[c].told \in Seq(Callbacks) /\ e \in Callbacks
    BY TypeFacts DEF Apps, Callbacks
  <2>3. CASE i = Len(app[c].told) + 1
    BY <1>1, <1>3, <2>1, <2>2, <2>3, SMTT(30)
  <2>4. CASE i # Len(app[c].told) + 1
    BY <1>1, <1>3, <2>1, <2>2, <2>4, SMTT(30) DEF Told
  <2> QED
    BY <2>3, <2>4
<1> QED
  BY <1>2, <1>3

LEMMA InitPacketInv == Init => PacketInv
<1> SUFFICES ASSUME Init PROVE PacketInv
  OBVIOUS
<1>1. TypeOK
  BY InitTypeOK
<1> SUFFICES ASSUME NEW c \in Chains
             PROVE  /\ TimesIncrease(c) /\ SequencesUnique(c) /\ OnlySentCommitted(c)
                    /\ OnlySentTold(c) /\ OnlySentReceived(c) /\ RootsAgree(c)
                    /\ LateReceipt(c) /\ TimeoutFinal(c)
  BY <1>1 DEF PacketInv
<1>2. \A d \in Chains : /\ app[d].sent = {} /\ app[d].told = <<>>
                        /\ store[d].nextSend = 1 /\ store[d].nextRecv = 1
                        /\ store[d].receipts = {} /\ store[d].commitments = {}
  BY DEF Init, EmptyStore
<1>3. /\ Height(c) = 1
      /\ blocks[c][1].time = 1
      /\ blocks[c][1].root = EmptyStore(IF c = A THEN "INIT" ELSE "TRYOPEN")
  BY DEF Init, Height
<1>4. /\ blocks[c][1].root.nextRecv = 1 /\ blocks[c][1].root.receipts = {}
      /\ blocks[c][1].root.commitments = {} /\ blocks[c][1].root.state # "CLOSED"
  BY <1>3, SMTT(30) DEF EmptyStore
<1>5. 1..Height(c) = {1}
  BY <1>3, SMTT(30)
<1>6. TimesIncrease(c)
  BY <1>3, <1>5 DEF TimesIncrease
<1>7. SequencesUnique(c) /\ OnlySentCommitted(c) /\ OnlySentTold(c) /\ TimeoutFinal(c)
  BY <1>2, <1>4, <1>5, SMTT(30) DEF SequencesUnique, OnlySentCommitted, OnlySentTold, TimeoutFinal
<1>8. OnlySentReceived(c) /\ LateReceipt(c)
  BY <1>2, OtherFacts, SMTT(30) DEF OnlySentReceived, LateReceipt
<1>9. RootsAgree(c)
  BY <1>2, <1>4, <1>5, SMTT(30) DEF RootsAgree
<1> QED
  BY <1>6, <1>7, <1>8, <1>9

\* A step that begins no block, sends nothing and receives nothing keeps the
\* invariant, provided that what it tells to have timed out has not been received
\* and can no longer be.
LEMMA QuietStep ==
  ASSUME PacketInv, TypeOK', blocks' = blocks,
         \A d \in Chains :
           /\ app'[d].sent = app[d].sent
           /\ store'[d].nextSend = store[d].nextSend
           /\ store'[d].nextRecv = store[d].nextRecv
           /\ store'[d].receipts = store[d].receipts
           /\ store'[d].commitments \subseteq store[d].commitments
           /\ store[d].state = "CLOSED" => store'[d].state = "CLOSED"
           /\ OnlySentTold(d)',
         \A d \in Chains : \A p \in app[d].sent : Told(d, p, "timeout")' =>
           \/ Told(d, p, "timeout")
           \/ /\ ~HasReceived(store[Other(d)], p.seq)
              /\ \/ TimeoutReached(p, Height(Other(d)), BlockTime(Other(d)))
                 \/ store[Other(d)].state = "CLOSED"
  PROVE  PacketInv'
<1> SUFFICES ASSUME NEW c \in Chains
             PROVE  /\ TimesIncrease(c)' /\ SequencesUnique(c)' /\ OnlySentCommitted(c)'
                    /\ OnlySentTold(c)' /\ OnlySentReceived(c)' /\ RootsAgree(c)'
                    /\ LateReceipt(c)' /\ TimeoutFinal(c)'
  BY DEF PacketInv
<1>1. Other(c) \in Chains
  BY OtherFacts
<1>2. \A d \in Chains : Height(d)' = Height(d) /\ BlockTime(d)' = BlockTime(d)
  BY DEF Height, BlockTime
<1>3. \A d \in Chains : \A seq : HasReceived(store'[d], seq) <=> HasReceived(store[d], seq)
  BY DEF HasReceived
<1>4. TimesIncrease(c)'
  BY <1>2 DEF PacketInv, TimesIncrease
<1>5. SequencesUnique(c)'
  BY DEF PacketInv, SequencesUnique
<1>6. OnlySentCommitted(c)'
  BY <1>2 DEF PacketInv, OnlySentCommitted
<1>7. OnlySentReceived(c)' /\ OnlySentTold(c)'
  BY <1>1 DEF PacketInv, OnlySentReceived
<1>8. RootsAgree(c)'
  BY <1>2 DEF PacketInv, RootsAgree
<1>9. LateReceipt(c)'
  BY <1>1, <1>2, <1>3 DEF PacketInv, LateReceipt
<1>10. TimeoutFinal(c)'
  BY <1>1, <1>2, <1>3 DEF PacketInv, TimeoutFinal
<1> QED
  BY <1>4, <1>5, <1>6, <1>7, <1>8, <1>9, <1>10

\* A new header commits to the store as it is, so no receipt is missing from it.
LEMMA NextBlockInv ==
  ASSUME PacketInv, NEW b \in Chains, NextBlock(b)
  PROVE  PacketInv'
<1>1. TypeOK /\ TypeOK'
  BY NextBlockType DEF PacketInv
<1> SUFFICES ASSUME NEW c \in Chains
             PROVE  /\ TimesIncrease(c)' /\ SequencesUnique(c)' /\ OnlySentCommitted(c)'
                    /\ OnlySentTold(c)' /\ OnlySentReceived(c)' /\ RootsAgree(c)'
                    /\ LateReceipt(c)' /\ TimeoutFinal(c)'
  BY <1>1 DEF PacketInv
<1>2. store' = store /\ app' = app /\ Other(c) \in Chains
  BY OtherFacts DEF NextBlock
<1>3. \A d \in Chains :
        /\ Height(d)' \in Nat /\ Height(d) <= Height(d)' /\ Height(d)' <= Height(d) + 1
        /\ \A h \in 1..Height(d) : blocks'[d][h] = blocks[d][h]
        /\ Height(d)' = Height(d) + 1 =>
             /\ blocks'[d][Height(d) + 1].root = store[d]
             /\ blocks'[d][Height(d) + 1].time \in Nat
             /\ blocks'[d][Height(d) + 1].time >= BlockTime(d)
  <2>1. PICK interval \in 1..MaxBlockInterval :
          blocks' = [blocks EXCEPT ![b] =
            Append(@, [time |-> BlockTime(b) + interval, root |-> store[b]])]
    BY DEF NextBlock
  <2> DEFINE header == [time |-> BlockTime(b) + interval, root |-> store[b]]
  <2>2. interval \in Nat
    BY ConstantsAssumption, SMTT(30)
  <2>3. /\ header \in Headers /\ header.root = store[b]
        /\ header.time \in Nat /\ header.time >= BlockTime(b)
    BY <1>1, <2>2, TypeFacts, SMTT(30) DEF Headers
  <2>4. blocks' = [blocks EXCEPT ![b] = Append(blocks[b], header)]
    BY <2>1
  <2> HIDE DEF header
  <2> TAKE d \in Chains
  <2>5. CASE d = b
    <3>1. blocks'[d] = Append(blocks[d], header) /\ blocks[d] \in Seq(Headers)
      BY <1>1, <2>4, <2>5, TypeFacts DEF TypeOK
    <3> QED
      BY <2>3, <2>5, <3>1, AppendFacts, SMTT(30) DEF Height
  <2>6. CASE d # b
    BY <1>1, <2>4, <2>6, TypeFacts, SMTT(30) DEF TypeOK, Height
  <2> QED
    BY <2>5, <2>6
<1>4. \A d \in Chains : Height(d) \in Nat \ {0} /\ BlockTime(d) \in Nat
      /\ \A h \in 1..Height(d) : blocks[d][h].time \in Nat
  BY <1>1, TypeFacts DEF Headers
<1>5. \A h \in 1..Height(c) : blocks[c][h].time <= BlockTime(c)
  BY <1>4, SMTT(30) DEF PacketInv, TimesIncrease, BlockTime
<1>6. \A h \in 1..Height(c)' : h \in 1..Height(c) \/ (h = Height(c) + 1 /\ h = Height(c)')
  BY <1>3, <1>4, SMTT(30)
<1>7. TimesIncrease(c)'
  <2> SUFFICES ASSUME NEW i \in 1..Height(c)', NEW j \in 1..Height(c)', i <= j
               PROVE  blocks'[c][i].time <= blocks'[c][j].time
    BY DEF TimesIncrease
  <2>1. CASE j \in 1..Height(c)
    <3>1. i \in 1..Height(c)
      BY <2>1, <1>4, SMTT(30)
    <3> QED
      BY <2>1, <3>1, <1>3 DEF PacketInv, TimesIncrease
  <2>2. CASE j = Height(c) + 1 /\ j = Height(c)'
    <3>1. CASE i = j
      BY <2>2, <3>1, <1>3, SMTT(30)
    <3>2. CASE i # j
      <4>1. i \in 1..Height(c)
        BY <2>2, <3>2, <1>4, SMTT(30)
      <4> QED
        BY <2>2, <4>1, <1>3, <1>4, <1>5, SMTT(30)
    <3> QED
      BY <3>1, <3>2
  <2> QED
    BY <2>1, <2>2, <1>6
<1>8. SequencesUnique(c)' /\ OnlySentReceived(c)' /\ OnlySentTold(c)'
  BY <1>2 DEF PacketInv, SequencesUnique, OnlySentReceived, OnlySentTold
<1>9. OnlySentCommitted(c)'
  BY <1>2, <1>3, <1>6, SMTT(30) DEF PacketInv, OnlySentCommitted
<1>10. RootsAgree(c)'
  <2>1. store[c].nextRecv \in Nat
    BY <1>1, TypeFacts DEF Stores
  <2> QED
    BY <2>1, <1>2, <1>3, <1>6, SMTT(30) DEF PacketInv, RootsAgree
<1>11. LateReceipt(c)'
  BY <1>2, <1>3, <1>6 DEF PacketInv, LateReceipt
<1>12. TimeoutFinal(c)'
  <2> SUFFICES ASSUME NEW p \in app[c].sent, Told(c, p, "timeout")
               PROVE  /\ ~HasReceived(store[Other(c)], p.seq)
                      /\ \/ TimeoutReached(p, Height(Other(c))', BlockTime(Other(c))')
                         \/ store[Other(c)].state = "CLOSED"
    BY <1>2 DEF TimeoutFinal, Told
  <2>1. p \in Packets
    BY <1>1, TypeFacts DEF Apps
  <2>2. BlockTime(Other(c)) <= BlockTime(Other(c))' /\ BlockTime(Other(c))' \in Nat
    <3>1. CASE Height(Other(c))' = Height(Other(c)) + 1
      BY <3>1, <1>2, <1>3 DEF BlockTime
    <3>2. CASE Height(Other(c))' = Height(Other(c))
      BY <3>2, <1>2, <1>3, <1>4, SMTT(30) DEF BlockTime
    <3> QED
      BY <3>1, <3>2, <1>2, <1>3, <1>4, SMTT(30)
  <2>3. /\ Height(Other(c)) \in Nat /\ Height(Other(c))' \in Nat
        /\ Height(Other(c)) <= Height(Other(c))' /\ BlockTime(Other(c)) \in Nat
    BY <1>2, <1>3, <1>4
  <2>4. TimeoutReached(p, Height(Other(c)), BlockTime(Other(c))) =>
          TimeoutReached(p, Height(Other(c))', BlockTime(Other(c))')
    BY <2>1, <2>2, <2>3, TimeoutReachedMonotone
  <2> QED
    BY <2>4 DEF PacketInv, TimeoutFinal
<1> QED
  BY <1>7, <1>8, <1>9, <1>10, <1>11, <1>12

\* A sent packet takes a fresh sequence number, which nobody has received.
LEMMA SendPacketInv ==
  ASSUME PacketInv, NEW s \in Chains, NEW th \in TimeoutHeights, NEW ts \in TimeoutTimestamps,
         SendPacket(s, th, ts)
  PROVE  PacketInv'
<1> DEFINE new == [seq |-> store[s].nextSend, timeoutHeight |-> th, timeoutTimestamp |-> ts]
<1>1. TypeOK /\ TypeOK'
  <2>1. PacketStep(s)
    BY DEF PacketStep
  <2> QED
    BY <2>1, PacketStepType DEF PacketInv
<1> SUFFICES ASSUME NEW c \in Chains
             PROVE  /\ TimesIncrease(c)' /\ SequencesUnique(c)' /\ OnlySentCommitted(c)'
                    /\ OnlySentTold(c)' /\ OnlySentReceived(c)' /\ RootsAgree(c)'
                    /\ LateReceipt(c)' /\ TimeoutFinal(c)'
  BY <1>1 DEF PacketInv
<1>2. new.seq = store[s].nextSend /\ store[s].nextSend \in Nat
  BY <1>1, TypeFacts DEF Stores
<1>3. /\ store' = [store EXCEPT ![s] = SetSent(@, new)]
      /\ app' = [app EXCEPT ![s].sent = @ \cup {new}]
      /\ blocks' = blocks
  BY DEF SendPacket
<1> HIDE DEF new
<1>4. /\ app'[s].sent = app[s].sent \cup {new}
      /\ app'[s].told = app[s].told
      /\ \A d \in Chains : d # s => app'[d] = app[d]
  BY <1>1, <1>3, TypeFacts, SMTT(30) DEF TypeOK, Apps
<1>5. /\ store'[s] = SetSent(store[s], new)
      /\ \A d \in Chains : d # s => store'[d] = store[d]
  BY <1>1, <1>3 DEF TypeOK
<1>6. /\ store'[s].nextSend = store[s].nextSend + 1
      /\ store'[s].commitments = store[s].commitments \cup {new}
      /\ store'[s].nextRecv = store[s].nextRecv
      /\ store'[s].receipts = store[s].receipts
      /\ store'[s].state = store[s].state
  BY <1>1, <1>5, TypeFacts DEF SetSent, Stores
<1>7. \A d \in Chains :
        /\ store'[d].nextRecv = store[d].nextRecv
        /\ store'[d].receipts = store[d].receipts
        /\ store'[d].state = store[d].state
        /\ app'[d].told = app[d].told
        /\ Height(d)' = Height(d) /\ BlockTime(d)' = BlockTime(d)
  BY <1>3, <1>4, <1>5, <1>6 DEF Height, BlockTime
<1>8. \A d \in Chains : \A seq : HasReceived(store'[d], seq) <=> HasReceived(store[d], seq)
  BY <1>7 DEF HasReceived
<1>9. ~HasReceived(store[Other(s)], new.seq)
  <2>1. Other(s) \in Chains /\ Other(Other(s)) = s
    BY OtherFacts
  <2>2. store[Other(s)].nextRecv \in Nat /\ store[Other(s)].receipts \subseteq Nat
    BY <1>1, <2>1, TypeFacts DEF Stores
  <2> QED
    BY <1>2, <2>1, <2>2, SMTT(30) DEF PacketInv, OnlySentReceived, HasReceived
<1>10. \A p \in app[s].sent : p.seq \in Nat /\ p.seq < store[s].nextSend
  BY <1>1, TypeFacts, SMTT(30) DEF Apps, Packets, PacketInv, SequencesUnique
<1>11. TimesIncrease(c)'
  BY <1>3, <1>7 DEF PacketInv, TimesIncrease
<1>12. SequencesUnique(c)'
  <2>1. CASE c = s
    BY <2>1, <1>2, <1>4, <1>6, <1>10, SMTT(30) DEF PacketInv, SequencesUnique
  <2>2. CASE c # s
    BY <2>2, <1>4, <1>5 DEF PacketInv, SequencesUnique
  <2> QED
    BY <2>1, <2>2
<1>13. OnlySentCommitted(c)'
  <2>1. app[c].sent \subseteq app'[c].sent
    BY <1>4
  <2>2. store'[c].commitments \subseteq app'[c].sent
    BY <1>4, <1>5, <1>6 DEF PacketInv, OnlySentCommitted
  <2> QED
    BY <2>1, <2>2, <1>3, <1>7 DEF PacketInv, OnlySentCommitted
<1>14. OnlySentReceived(c)'
  <2>1. Other(c) \in Chains /\ store[Other(c)].nextSend \in Nat
        /\ store[c].nextRecv \in Nat /\ store[c].receipts \subseteq Nat
    BY <1>1, OtherFacts, TypeFacts DEF Stores
  <2>2. store'[Other(c)].nextSend \in Nat /\ store[Other(c)].nextSend <= store'[Other(c)].nextSend
    BY <2>1, <1>5, <1>6, SMTT(30)
  <2> QED
    BY <2>1, <2>2, <1>7, SMTT(30) DEF PacketInv, OnlySentReceived
<1>15. RootsAgree(c)'
  BY <1>3, <1>7 DEF PacketInv, RootsAgree
<1>16. LateReceipt(c)'
  <2> SUFFICES ASSUME NEW h \in 1..Height(c), NEW p \in app'[Other(c)].sent,
                      HasReceived(store[c], p.seq), ~HasReceived(blocks[c][h].root, p.seq)
               PROVE  ~TimeoutReached(p, h, blocks[c][h].time)
    BY <1>3, <1>7, <1>8 DEF LateReceipt
  <2>1. p \in app[Other(c)].sent
    <3>1. CASE Other(c) = s
      <4>1. Other(s) = c
        BY <3>1, OtherFacts
      <4> QED
        BY <3>1, <4>1, <1>4, <1>9
    <3>2. CASE Other(c) # s
      BY <3>2, <1>4, OtherFacts
    <3> QED
      BY <3>1, <3>2
  <2> QED
    BY <2>1 DEF PacketInv, LateReceipt
<1>17. TimeoutFinal(c)'
  <2> SUFFICES ASSUME NEW p \in app'[c].sent, Told(c, p, "timeout")
               PROVE  /\ ~HasReceived(store[Other(c)], p.seq)
                      /\ \/ TimeoutReached(p, Height(Other(c)), BlockTime(Other(c)))
                         \/ store[Other(c)].state = "CLOSED"
    BY <1>7, <1>8, OtherFacts, SMTT(30) DEF TimeoutFinal, Told
  <2>1. p \in app[c].sent
    BY SMTT(30) DEF PacketInv, OnlySentTold, Told
  <2> QED
    BY <2>1 DEF PacketInv, TimeoutFinal
<1>18. OnlySentTold(c)'
  BY <1>4, <1>7 DEF PacketInv, OnlySentTold
<1> QED
  BY <1>11, <1>12, <1>13, <1>14, <1>15, <1>16, <1>17, <1>18

-----------------------------------------------------------------------------
(* Receiving and resolving packets. *)

\* A received packet is one the other end sent, and its timeout lies beyond every
\* header of the chain that receives it.
LEMMA RecvPacketInv ==
  ASSUME PacketInv, NEW r \in Chains, NEW new \in app[Other(r)].sent,
         NEW k \in client[r].heights, NEW result \in Results \cup {"async"},
         RecvPacket(r, new, k, result)
  PROVE  PacketInv'
<1>1. TypeOK /\ TypeOK'
  <2>1. PacketStep(r)
    BY DEF PacketStep
  <2> QED
    BY <2>1, PacketStepType DEF PacketInv
<1> SUFFICES ASSUME NEW c \in Chains
             PROVE  /\ TimesIncrease(c)' /\ SequencesUnique(c)' /\ OnlySentCommitted(c)'
                    /\ OnlySentTold(c)' /\ OnlySentReceived(c)' /\ RootsAgree(c)'
                    /\ LateReceipt(c)' /\ TimeoutFinal(c)'
  BY <1>1 DEF PacketInv
<1>2. Other(r) \in Chains /\ Other(Other(r)) = r /\ Other(c) \in Chains
      /\ Other(Other(c)) = c
  BY OtherFacts
<1>3. new \in Packets /\ new.seq \in Nat \ {0} /\ new.seq < store[Other(r)].nextSend
      /\ store[Other(r)].nextSend \in Nat
  BY <1>1, <1>2, TypeFacts DEF Apps, Packets, Stores, PacketInv, SequencesUnique
<1>4. \A d \in Chains : app'[d].sent = app[d].sent /\ app'[d].told = app[d].told
  <2>1. app' = [app EXCEPT ![r] = OnRecvPacket(@, new, result)]
    BY DEF RecvPacket
  <2>2. /\ OnRecvPacket(app[r], new, result).sent = app[r].sent
        /\ OnRecvPacket(app[r], new, result).told = app[r].told
    BY <1>1, TypeFacts DEF OnRecvPacket, Apps
  <2> QED
    BY <1>1, <2>1, <2>2 DEF TypeOK
<1>5. /\ store'[r].nextSend = store[r].nextSend
      /\ store'[r].commitments = store[r].commitments
      /\ store'[r].state = store[r].state
      /\ store'[r].nextRecv = IF Ordering = "ORDERED"
                              THEN store[r].nextRecv + 1 ELSE store[r].nextRecv
      /\ store'[r].receipts = IF Ordering = "ORDERED"
                              THEN store[r].receipts ELSE store[r].receipts \cup {new.seq}
      /\ \A d \in Chains : d # r => store'[d] = store[d]
  <2>1. SetReceived(store[r], new.seq) \in Stores
    BY <1>1, <1>3, TypeFacts, SetReceivedType
  <2> DEFINE s == SetReceived(store[r], new.seq)
             t == SetAcknowledgement(s, new.seq, result)
  <2>2. /\ s.nextSend = store[r].nextSend /\ s.commitments = store[r].commitments
        /\ s.state = store[r].state
        /\ s.nextRecv = IF Ordering = "ORDERED"
                        THEN store[r].nextRecv + 1 ELSE store[r].nextRecv
        /\ s.receipts = IF Ordering = "ORDERED"
                        THEN store[r].receipts ELSE store[r].receipts \cup {new.seq}
    BY <1>1, TypeFacts DEF SetReceived, Stores
  <2>3. /\ t.nextSend = s.nextSend /\ t.commitments = s.commitments /\ t.state = s.state
        /\ t.nextRecv = s.nextRecv /\ t.receipts = s.receipts
    BY <2>1 DEF SetAcknowledgement, Stores
  <2>4. store' = [store EXCEPT ![r] = s] \/ store' = [store EXCEPT ![r] = t]
    BY DEF RecvPacket
  <2> HIDE DEF s, t
  <2>5. /\ store'[r] = s \/ store'[r] = t
        /\ \A d \in Chains : d # r => store'[d] = store[d]
    BY <1>1, <2>4 DEF TypeOK
  <2> QED
    BY <2>2, <2>3, <2>5
<1>6. /\ store[r].state = "OPEN" /\ blocks' = blocks
      /\ ~TimeoutReached(new, Height(r), BlockTime(r))
      /\ Ordering = "ORDERED" => new.seq = store[r].nextRecv
  <2>1. Height(r) \in Nat /\ BlockTime(r) \in Nat
    BY <1>1, TypeFacts
  <2> QED
    BY <1>3, <2>1, ReceivedBeforeTimeout DEF RecvPacket, ReplayProtection
<1>7. \A d \in Chains :
        /\ store'[d].nextSend = store[d].nextSend
        /\ store'[d].commitments = store[d].commitments
        /\ store'[d].state = store[d].state
        /\ Height(d)' = Height(d) /\ BlockTime(d)' = BlockTime(d)
  BY <1>5, <1>6 DEF Height, BlockTime
<1>8. \A d \in Chains :
        /\ store[d].nextRecv \in Nat /\ store'[d].nextRecv \in Nat
        /\ store[d].nextRecv <= store'[d].nextRecv
        /\ store[d].receipts \subseteq store'[d].receipts
  <2>1. \A d \in Chains : store[d].nextRecv \in Nat
    BY <1>1, TypeFacts DEF Stores
  <2> QED
    BY <1>5, <2>1, SMTT(30)
<1>9. \A seq \in Nat : HasReceived(store'[r], seq) => HasReceived(store[r], seq) \/ seq = new.seq
  BY <1>5, <1>6, <1>8, SMTT(30) DEF HasReceived
<1>10. \A d \in Chains : \A p \in app[d].sent : p \in Packets /\ p.seq \in Nat
  BY <1>1, TypeFacts, SMTT(30) DEF Apps, Packets
<1>11. TimesIncrease(c)'
  BY <1>6, <1>7 DEF PacketInv, TimesIncrease
<1>12. SequencesUnique(c)' /\ OnlySentTold(c)'
  BY <1>4, <1>7 DEF PacketInv, SequencesUnique, OnlySentTold
<1>13. OnlySentCommitted(c)'
  BY <1>4, <1>6, <1>7 DEF PacketInv, OnlySentCommitted
<1>14. OnlySentReceived(c)'
  <2>1. CASE c = r
    <3>1. store'[r].nextRecv <= store[Other(r)].nextSend
      BY <1>3, <1>5, <1>6, <1>8, SMTT(30) DEF PacketInv, OnlySentReceived
    <3> QED
      BY <2>1, <3>1, <1>2, <1>3, <1>5, <1>7 DEF PacketInv, OnlySentReceived
  <2>2. CASE c # r
    BY <2>2, <1>2, <1>5, <1>7 DEF PacketInv, OnlySentReceived
  <2> QED
    BY <2>1, <2>2
<1>15. RootsAgree(c)'
  <2>1. CASE c = r
    <3> SUFFICES ASSUME NEW h \in 1..Height(r)
                 PROVE  LET root == blocks[r][h].root IN
                        /\ root.nextRecv <= store'[r].nextRecv
                        /\ root.receipts \subseteq store'[r].receipts
                        /\ root.state # "CLOSED"
      BY <2>1, <1>6, <1>7 DEF RootsAgree
    <3>1. blocks[r][h].root.nextRecv \in Nat
      BY <1>1, TypeFacts DEF Headers, Stores
    <3> QED
      BY <3>1, <1>6, <1>8, SMTT(30) DEF PacketInv, RootsAgree
  <2>2. CASE c # r
    BY <2>2, <1>5, <1>6, <1>7, SMTT(30) DEF PacketInv, RootsAgree
  <2> QED
    BY <2>1, <2>2
<1>16. LateReceipt(c)'
  <2> SUFFICES ASSUME NEW h \in 1..Height(c), NEW p \in app[Other(c)].sent,
                      HasReceived(store'[c], p.seq), ~HasReceived(blocks[c][h].root, p.seq)
               PROVE  ~TimeoutReached(p, h, blocks[c][h].time)
    BY <1>2, <1>4, <1>6, <1>7 DEF LateReceipt
  <2>1. CASE HasReceived(store[c], p.seq)
    BY <2>1 DEF PacketInv, LateReceipt
  <2>2. CASE ~HasReceived(store[c], p.seq)
    <3>1. c = r
      BY <2>2, <1>5
    <3>2. p = new
      <4>1. p.seq = new.seq
        BY <2>2, <3>1, <1>2, <1>9, <1>10
      <4> QED
        BY <3>1, <4>1, <1>2 DEF PacketInv, SequencesUnique
    <3>3. /\ h \in Nat /\ Height(r) \in Nat /\ h <= Height(r)
          /\ blocks[r][h].time \in Nat /\ BlockTime(r) \in Nat
          /\ blocks[r][h].time <= BlockTime(r)
      <4>1. Height(r) \in Nat \ {0} /\ h \in 1..Height(r)
        BY <3>1, <1>1, TypeFacts
      <4>2. blocks[r][h].time <= BlockTime(r)
        BY <4>1, SMTT(30) DEF PacketInv, TimesIncrease, BlockTime
      <4> QED
        BY <4>1, <4>2, <1>1, TypeFacts, SMTT(30) DEF Headers
    <3> QED
      BY <3>1, <3>2, <3>3, <1>3, <1>6, TimeoutReachedMonotone
  <2> QED
    BY <2>1, <2>2
<1>17. TimeoutFinal(c)'
  <2> SUFFICES ASSUME NEW p \in app[c].sent, Told(c, p, "timeout")
               PROVE  /\ ~HasReceived(store'[Other(c)], p.seq)
                      /\ \/ TimeoutReached(p, Height(Other(c)), BlockTime(Other(c)))
                         \/ store[Other(c)].state = "CLOSED"
    BY <1>2, <1>4, <1>7, SMTT(30) DEF TimeoutFinal, Told
  <2>1. /\ ~HasReceived(store[Other(c)], p.seq)
        /\ \/ TimeoutReached(p, Height(Other(c)), BlockTime(Other(c)))
           \/ store[Other(c)].state = "CLOSED"
    BY DEF PacketInv, TimeoutFinal
  <2>2. CASE Other(c) = r
    <3>1. p # new
      BY <2>1, <2>2, <1>6
    <3>2. p.seq # new.seq
      BY <3>1, <2>2, <1>2 DEF PacketInv, SequencesUnique
    <3> QED
      BY <2>1, <2>2, <3>2, <1>9, <1>10
  <2>3. CASE Other(c) # r
    BY <2>1, <2>3, <1>2, <1>5
  <2> QED
    BY <2>1, <2>2, <2>3
<1> QED
  BY <1>11, <1>12, <1>13, <1>14, <1>15, <1>16, <1>17

\* What a chain has been told of, after a callback, was sent.
LEMMA TellOnlySent ==
  ASSUME TypeOK, \A d \in Chains : OnlySentTold(d),
         NEW c \in Chains, NEW p \in app[c].sent,
         NEW outcome \in Results \cup {"timeout"}, Tell(c, p, outcome)
  PROVE  \A d \in Chains : app'[d].sent = app[d].sent /\ OnlySentTold(d)'
<1> DEFINE e == [packet |-> p, outcome |-> outcome]
<1>1. p \in Packets
  BY TypeFacts DEF Apps
<1>2. app[c].told \in Seq(Callbacks) /\ e \in Callbacks /\ e.packet = p
  BY <1>1, TypeFacts DEF Apps, Callbacks
<1>3. /\ app'[c].told = Append(app[c].told, e) /\ app'[c].sent = app[c].sent
      /\ \A d \in Chains : d # c => app'[d] = app[d]
  BY TypeFacts DEF Tell, TypeOK, Apps
<1> HIDE DEF e
<1> TAKE d \in Chains
<1>4. CASE d # c
  BY <1>3, <1>4 DEF OnlySentTold
<1>5. CASE d = c
  <2>1. ASSUME NEW i \in DOMAIN app'[c].told
        PROVE  app'[c].told[i].packet \in app[c].sent
    <3>1. CASE i = Len(app[c].told) + 1
      BY <1>2, <1>3, <3>1, SMTT(30)
    <3>2. CASE i # Len(app[c].told) + 1
      BY <1>2, <1>3, <3>2, SMTT(30) DEF OnlySentTold
    <3> QED
      BY <3>1, <3>2
  <2> QED
    BY <1>3, <1>5, <2>1 DEF OnlySentTold
<1> QED
  BY <1>3, <1>4, <1>5

\* The proof of a timeout shows that the packet has not been received, now no more
\* than when the header was made, and that it can no longer be.
LEMMA TimeoutIsFinal ==
  ASSUME PacketInv, NEW c \in Chains, NEW p \in app[c].sent, NEW h \in client[c].heights,
         VerifyNotReceived(c, p, h),
         \/ TimeoutReached(p, h, ConsensusState(c, h).time)
         \/ VerifyChannelState(c, h, "CLOSED")
  PROVE  /\ ~HasReceived(store[Other(c)], p.seq)
         /\ \/ TimeoutReached(p, Height(Other(c)), BlockTime(Other(c)))
            \/ store[Other(c)].state = "CLOSED"
<1> DEFINE o == Other(c)
           root == blocks[o][h].root
<1>1. TypeOK /\ o \in Chains /\ Other(o) = c
  BY OtherFacts DEF PacketInv
<1>2. h \in 1..Height(o) /\ Height(o) \in Nat \ {0}
  BY <1>1, TypeFacts
<1>3. p \in Packets /\ p.seq \in Nat \ {0} /\ root.nextRecv \in Nat
      /\ blocks[o][h].time \in Nat /\ BlockTime(o) \in Nat
  <2>1. p \in Packets /\ p.seq \in Nat \ {0}
    BY <1>1, TypeFacts DEF Apps, Packets
  <2>2. BlockTime(o) \in Nat /\ blocks[o][h] \in Headers
    BY <1>1, <1>2, TypeFacts
  <2> QED
    BY <2>1, <2>2 DEF Headers, Stores
<1>4. ~HasReceived(root, p.seq)
  BY <1>3, SMTT(30) DEF VerifyNotReceived, VerifyNextSequenceRecv, VerifyPacketReceiptAbsence,
              ConsensusState, HasReceived
<1>5. CASE TimeoutReached(p, h, ConsensusState(c, h).time)
  <2>1. ~HasReceived(store[o], p.seq)
    BY <1>1, <1>2, <1>4, <1>5 DEF PacketInv, LateReceipt, ConsensusState
  <2>2. blocks[o][h].time <= BlockTime(o)
    BY <1>1, <1>2, SMTT(30) DEF PacketInv, TimesIncrease, BlockTime
  <2>3. TimeoutReached(p, Height(o), BlockTime(o))
    BY <1>2, <1>3, <1>5, <2>2, TimeoutReachedMonotone, SMTT(30) DEF ConsensusState
  <2> QED
    BY <2>1, <2>3
<1>6. CASE VerifyChannelState(c, h, "CLOSED")
  BY <1>1, <1>2, <1>4, <1>6
     DEF PacketInv, RootsAgree, VerifyChannelState, ConsensusState, HasReceived
<1> QED
  BY <1>5, <1>6

\* Acknowledgements, acknowledged packets and timeouts neither send nor receive.
LEMMA ResolveInv ==
  ASSUME PacketInv, NEW c \in Chains, NEW p \in app[c].sent, NEW h \in client[c].heights,
         \/ \E r \in Results : AcknowledgePacket(c, p, h, r)
         \/ TimeoutPacket(c, p, h)
         \/ TimeoutOnClose(c, p, h)
  PROVE  PacketInv'
<1>1. TypeOK /\ TypeOK'
  <2>1. PacketStep(c)
    BY DEF PacketStep
  <2> QED
    BY <2>1, PacketStepType DEF PacketInv
<1>2. p \in Packets
  BY <1>1, TypeFacts DEF Apps
<1>3. PICK outcome \in Results \cup {"timeout"} :
        /\ Tell(c, p, outcome)
        /\ store' = [store EXCEPT ![c] = SetAcknowledged(@, p)]
             \/ store' = [store EXCEPT ![c] = TimeoutExecuted(@, p)]
        /\ outcome = "timeout" =>
             /\ VerifyNotReceived(c, p, h)
             /\ \/ TimeoutReached(p, h, ConsensusState(c, h).time)
                \/ VerifyChannelState(c, h, "CLOSED")
        /\ blocks' = blocks
  <2>1. "timeout" \notin Results
    BY DEF Results
  <2> QED
    BY <2>1 DEF AcknowledgePacket, TimeoutPacket, TimeoutOnClose
<1>4. \A d \in Chains :
        /\ store'[d].nextSend = store[d].nextSend
        /\ store'[d].nextRecv = store[d].nextRecv
        /\ store'[d].receipts = store[d].receipts
        /\ store'[d].commitments \subseteq store[d].commitments
        /\ store[d].state = "CLOSED" => store'[d].state = "CLOSED"
  <2> DEFINE s == SetAcknowledged(store[c], p)
             t == TimeoutExecuted(store[c], p)
  <2>1. /\ s.nextSend = store[c].nextSend /\ s.nextRecv = store[c].nextRecv
        /\ s.receipts = store[c].receipts /\ s.state = store[c].state
        /\ s.commitments \subseteq store[c].commitments
    BY <1>1, TypeFacts DEF SetAcknowledged, Stores
  <2>2. /\ t.nextSend = store[c].nextSend /\ t.nextRecv = store[c].nextRecv
        /\ t.receipts = store[c].receipts /\ t.commitments \subseteq store[c].commitments
        /\ store[c].state = "CLOSED" => t.state = "CLOSED"
    BY <1>1, TypeFacts DEF TimeoutExecuted, Stores
  <2> HIDE DEF s, t
  <2>3. /\ store'[c] = s \/ store'[c] = t
        /\ \A d \in Chains : d # c => store'[d] = store[d]
    BY <1>1, <1>3 DEF TypeOK, s, t
  <2> QED
    BY <2>1, <2>2, <2>3
<1>5. \A d \in Chains : app'[d].sent = app[d].sent /\ OnlySentTold(d)'
  BY <1>1, <1>3, TellOnlySent DEF PacketInv
<1>6. ASSUME NEW d \in Chains, NEW q \in app[d].sent, Told(d, q, "timeout")'
      PROVE  \/ Told(d, q, "timeout")
             \/ /\ ~HasReceived(store[Other(d)], q.seq)
                /\ \/ TimeoutReached(q, Height(Other(d)), BlockTime(Other(d)))
                   \/ store[Other(d)].state = "CLOSED"
  <2>1. Told(d, q, "timeout") \/ (d = c /\ q = p /\ outcome = "timeout")
    BY <1>1, <1>2, <1>3, <1>6, ToldAfterTell
  <2>2. outcome = "timeout" =>
          /\ ~HasReceived(store[Other(c)], p.seq)
          /\ \/ TimeoutReached(p, Height(Other(c)), BlockTime(Other(c)))
             \/ store[Other(c)].state = "CLOSED"
    BY <1>3, TimeoutIsFinal
  <2> QED
    BY <2>1, <2>2
<1> QED
  BY <1>1, <1>3, <1>4, <1>5, <1>6, QuietStep

LEMMA WriteAcknowledgementInv ==
  ASSUME PacketInv, NEW c \in Chains, NEW seq \in app[c].async, NEW result \in Results,
         WriteAcknowledgement(c, seq, result)
  PROVE  PacketInv'
<1>1. TypeOK /\ TypeOK'
  <2>1. PacketStep(c)
    BY DEF PacketStep
  <2> QED
    BY <2>1, PacketStepType DEF PacketInv
<1> DEFINE s == SetAcknowledgement(store[c], seq, result)
<1>2. /\ s.nextSend = store[c].nextSend /\ s.nextRecv = store[c].nextRecv
      /\ s.receipts = store[c].receipts /\ s.state = store[c].state
      /\ s.commitments = store[c].commitments
  BY <1>1, TypeFacts DEF SetAcknowledgement, Stores
<1> HIDE DEF s
<1>3. /\ store'[c] = s /\ blocks' = blocks
      /\ \A d \in Chains : d # c => store'[d] = store[d]
  BY <1>1 DEF WriteAcknowledgement, TypeOK, s
<1>4. app' = app
  BY DEF WriteAcknowledgement
<1>5. \A d \in Chains : OnlySentTold(d)'
  BY <1>4 DEF PacketInv, OnlySentTold
<1>6. \A d \in Chains : \A q : Told(d, q, "timeout")' => Told(d, q, "timeout")
  BY <1>4 DEF Told
<1> QED
  BY <1>1, <1>2, <1>3, <1>4, <1>5, <1>6, QuietStep

LEMMA ChannelStepInv ==
  ASSUME PacketInv, NEW c \in Chains, ChannelStep(c)
  PROVE  PacketInv'
<1>1. TypeOK /\ TypeOK'
  BY ChannelStepType DEF PacketInv
<1>2. PICK state \in {"OPEN", "CLOSED"} :
        /\ store' = [store EXCEPT ![c].state = state]
        /\ store[c].state = "CLOSED" => state = "CLOSED"
        /\ UNCHANGED <<blocks, client, app>>
  BY DEF ChannelStep, ChanOpenConfirm, ChanCloseInit, ChanCloseConfirm
<1>3. \A d \in Chains :
        /\ store'[d].nextSend = store[d].nextSend
        /\ store'[d].nextRecv = store[d].nextRecv
        /\ store'[d].receipts = store[d].receipts
        /\ store'[d].commitments = store[d].commitments
        /\ store[d].state = "CLOSED" => store'[d].state = "CLOSED"
  <2> TAKE d \in Chains
  <2>1. CASE d = c
    BY <1>1, <1>2, <2>1, TypeFacts DEF TypeOK, Stores
  <2>2. CASE d # c
    BY <1>1, <1>2, <2>2 DEF TypeOK
  <2> QED
    BY <2>1, <2>2
<1>4. \A d \in Chains : OnlySentTold(d)'
  BY <1>2 DEF PacketInv, OnlySentTold
<1>5. \A d \in Chains : \A q : Told(d, q, "timeout")' => Told(d, q, "timeout")
  BY <1>2 DEF Told
<1> QED
  BY <1>1, <1>2, <1>3, <1>4, <1>5, QuietStep

\* Client updates, loss and recovery leave the channel ends alone.
LEMMA ClientStepInv ==
  ASSUME PacketInv, NEW c \in Chains, ClientStep(c)
  PROVE  PacketInv'
<1>1. TypeOK /\ TypeOK'
  BY ClientStepType DEF PacketInv
<1>2. UNCHANGED <<blocks, store, app>>
  BY DEF ClientStep, LoseClient, UpdateClient, ClientUpdateProposal
<1>3. \A d \in Chains : OnlySentTold(d)'
  BY <1>2 DEF PacketInv, OnlySentTold
<1>4. \A d \in Chains : \A q : Told(d, q, "timeout")' => Told(d, q, "timeout")
  BY <1>2 DEF Told
<1> QED
  BY <1>1, <1>2, <1>3, <1>4, QuietStep

LEMMA NextPacketInv == PacketInv /\ [Next]_vars => PacketInv'
<1> SUFFICES ASSUME PacketInv, [Next]_vars PROVE PacketInv'
  OBVIOUS
<1>1. CASE UNCHANGED vars
  <2>1. TypeOK'
    BY <1>1, NextTypeOK DEF PacketInv
  <2>2. \A d \in Chains : OnlySentTold(d)'
    BY <1>1 DEF PacketInv, OnlySentTold, vars
  <2>3. \A d \in Chains : \A q : Told(d, q, "timeout")' => Told(d, q, "timeout")
    BY <1>1 DEF Told, vars
  <2> QED
    BY <1>1, <2>1, <2>2, <2>3, QuietStep DEF vars
<1>2. ASSUME NEW c \in Chains, PacketStep(c) PROVE PacketInv'
  BY <1>2, SendPacketInv, RecvPacketInv, WriteAcknowledgementInv, ResolveInv DEF PacketStep
<1> QED
  BY <1>1, <1>2, NextBlockInv, ClientStepInv, ChannelStepInv DEF Next

\* PacketInv holds in every reachable state, for any timeouts and any interleaving
\* of the two chains' handlers.
THEOREM PacketInvariance == Spec => []PacketInv
BY InitPacketInv, NextPacketInv, PTL DEF Spec

\* A packet that TimeoutPacket or TimeoutOnClose has refunded was not received and
\* never will be: RecvPacket's comparison with the height and time of the block in
\* progress and TimeoutPacket's with those of a header leave no gap between them.
THEOREM TimedOutNeverReceived == Spec => []NeverReceivedAndTimedOut
<1>1. PacketInv => NeverReceivedAndTimedOut
  BY DEF PacketInv, TimeoutFinal, NeverReceivedAndTimedOut
<1> QED
  BY <1>1, PacketInvariance, PTL

-----------------------------------------------------------------------------
(* What the handlers change, field by field. *)

LEMMA SendEffect ==
  ASSUME TypeOK, NEW c \in Chains, NEW th, NEW ts, SendPacket(c, th, ts)
  PROVE  LET new == [seq |-> store[c].nextSend, timeoutHeight |-> th, timeoutTimestamp |-> ts]
         IN
         /\ store[c].state = "OPEN" /\ blocks' = blocks
         /\ store'[c].nextSend = store[c].nextSend + 1
         /\ store'[c].commitments = store[c].commitments \cup {new}
         /\ app'[c].sent = app[c].sent \cup {new}
         /\ \A d \in Chains :
              /\ store'[d].state = store[d].state
              /\ store'[d].nextRecv = store[d].nextRecv
              /\ store'[d].nextAck = store[d].nextAck
              /\ store'[d].receipts = store[d].receipts
              /\ store'[d].acks = store[d].acks
              /\ app'[d].received = app[d].received
              /\ app'[d].executed = app[d].executed
              /\ app'[d].async = app[d].async
              /\ app'[d].told = app[d].told
              /\ d # c => store'[d] = store[d] /\ app'[d] = app[d]
<1> DEFINE new == [seq |-> store[c].nextSend, timeoutHeight |-> th, timeoutTimestamp |-> ts]
<1>1. /\ store' = [store EXCEPT ![c] = SetSent(@, new)]
      /\ app' = [app EXCEPT ![c].sent = @ \cup {new}]
      /\ store[c].state = "OPEN" /\ blocks' = blocks
  BY DEF SendPacket
<1> HIDE DEF new
<1>2. /\ app'[c] = [app[c] EXCEPT !.sent = @ \cup {new}]
      /\ store'[c] = SetSent(store[c], new)
      /\ \A d \in Chains : d # c => store'[d] = store[d] /\ app'[d] = app[d]
  BY <1>1 DEF TypeOK
<1>3. /\ app'[c].sent = app[c].sent \cup {new}
      /\ app'[c].received = app[c].received /\ app'[c].executed = app[c].executed
      /\ app'[c].async = app[c].async /\ app'[c].told = app[c].told
  BY <1>2, TypeFacts DEF Apps
<1>4. /\ store'[c].nextSend = store[c].nextSend + 1
      /\ store'[c].commitments = store[c].commitments \cup {new}
      /\ store'[c].state = store[c].state /\ store'[c].nextRecv = store[c].nextRecv
      /\ store'[c].nextAck = store[c].nextAck /\ store'[c].receipts = store[c].receipts
      /\ store'[c].acks = store[c].acks
  BY <1>2, TypeFacts DEF SetSent, Stores
<1>5. \A d \in Chains :
        /\ store'[d].state = store[d].state
        /\ store'[d].nextRecv = store[d].nextRecv
        /\ store'[d].nextAck = store[d].nextAck
        /\ store'[d].receipts = store[d].receipts
        /\ store'[d].acks = store[d].acks
        /\ app'[d].received = app[d].received
        /\ app'[d].executed = app[d].executed
        /\ app'[d].async = app[d].async
        /\ app'[d].told = app[d].told
        /\ d # c => store'[d] = store[d] /\ app'[d] = app[d]
  BY <1>2, <1>3, <1>4
<1> QED
  BY <1>1, <1>3, <1>4, <1>5 DEF new

\* What receiving packet p changes at chain c, and leaves.
Receives(c, p, result) ==
  /\ store[c].state = "OPEN" /\ blocks' = blocks
  /\ ReplayProtection(store[c], p.seq)
  /\ result = "async" => c \in AsyncApps
  /\ store'[c].nextRecv = IF Ordering = "ORDERED"
                          THEN store[c].nextRecv + 1 ELSE store[c].nextRecv
  /\ store'[c].receipts = IF Ordering = "ORDERED"
                          THEN store[c].receipts ELSE store[c].receipts \cup {p.seq}
  /\ store'[c].acks = IF result = "async" THEN store[c].acks
                      ELSE store[c].acks \cup {[seq |-> p.seq, result |-> result]}
  /\ app'[c].received = Append(app[c].received, p)
  /\ app'[c].executed = IF result = "error" THEN app[c].executed
                        ELSE app[c].executed \cup {p.seq}
  /\ app'[c].async = IF result = "async" THEN app[c].async \cup {p.seq}
                     ELSE app[c].async
  /\ \A d \in Chains :
       /\ store'[d].state = store[d].state
       /\ store'[d].nextSend = store[d].nextSend
       /\ store'[d].nextAck = store[d].nextAck
       /\ store'[d].commitments = store[d].commitments
       /\ app'[d].sent = app[d].sent
       /\ app'[d].told = app[d].told
       /\ d # c => store'[d] = store[d] /\ app'[d] = app[d]

LEMMA RecvEffect ==
  ASSUME TypeOK, NEW c \in Chains, NEW p \in Packets, NEW h, NEW result,
         RecvPacket(c, p, h, result)
  PROVE  Receives(c, p, result)
<1> DEFINE s == SetReceived(store[c], p.seq)
           t == SetAcknowledgement(s, p.seq, result)
<1>1. /\ store[c].state = "OPEN" /\ blocks' = blocks
      /\ ReplayProtection(store[c], p.seq)
      /\ result = "async" => c \in AsyncApps /\ store' = [store EXCEPT ![c] = s]
      /\ result # "async" => store' = [store EXCEPT ![c] = t]
      /\ app' = [app EXCEPT ![c] = OnRecvPacket(@, p, result)]
  BY DEF RecvPacket
<1>2. s \in Stores
  <2>1. p.seq \in Nat \ {0}
    BY DEF Packets
  <2> QED
    BY <2>1, TypeFacts, SetReceivedType
<1>3. /\ s.nextRecv = IF Ordering = "ORDERED"
                      THEN store[c].nextRecv + 1 ELSE store[c].nextRecv
      /\ s.receipts = IF Ordering = "ORDERED"
                      THEN store[c].receipts ELSE store[c].receipts \cup {p.seq}
      /\ s.acks = store[c].acks /\ s.state = store[c].state
      /\ s.nextSend = store[c].nextSend /\ s.nextAck = store[c].nextAck
      /\ s.commitments = store[c].commitments
  BY TypeFacts DEF SetReceived, Stores
<1>4. /\ t.nextRecv = s.nextRecv /\ t.receipts = s.receipts /\ t.state = s.state
      /\ t.nextSend = s.nextSend /\ t.nextAck = s.nextAck /\ t.commitments = s.commitments
      /\ t.acks = s.acks \cup {[seq |-> p.seq, result |-> result]}
  BY <1>2 DEF SetAcknowledgement, Stores
<1> HIDE DEF s, t
<1>5. /\ result = "async" => store'[c] = s
      /\ result # "async" => store'[c] = t
      /\ app'[c] = OnRecvPacket(app[c], p, result)
      /\ \A d \in Chains : d # c => store'[d] = store[d] /\ app'[d] = app[d]
  BY <1>1 DEF TypeOK
<1>6. /\ app'[c].received = Append(app[c].received, p)
      /\ app'[c].executed = IF result = "error" THEN app[c].executed
                            ELSE app[c].executed \cup {p.seq}
      /\ app'[c].async = IF result = "async" THEN app[c].async \cup {p.seq} ELSE app[c].async
      /\ app'[c].sent = app[c].sent /\ app'[c].told = app[c].told
  BY <1>5, TypeFacts DEF OnRecvPacket, Apps
<1>7. /\ store'[c].nextRecv = s.nextRecv /\ store'[c].receipts = s.receipts
      /\ store'[c].state = s.state /\ store'[c].nextSend = s.nextSend
      /\ store'[c].nextAck = s.nextAck /\ store'[c].commitments = s.commitments
      /\ store'[c].acks = IF result = "async" THEN s.acks
                          ELSE s.acks \cup {[seq |-> p.seq, result |-> result]}
  BY <1>4, <1>5
<1> QED
  BY <1>1, <1>3, <1>5, <1>6, <1>7 DEF Receives

LEMMA WriteAcknowledgementEffect ==
  ASSUME TypeOK, NEW c \in Chains, NEW seq, NEW result, WriteAcknowledgement(c, seq, result)
  PROVE  /\ seq \in app[c].async
         /\ ~HasAcknowledgement(store[c], seq)
         /\ store'[c].acks = store[c].acks \cup {[seq |-> seq, result |-> result]}
         /\ blocks' = blocks /\ app' = app
         /\ \A d \in Chains :
              /\ store'[d].state = store[d].state
              /\ store'[d].nextSend = store[d].nextSend
              /\ store'[d].nextRecv = store[d].nextRecv
              /\ store'[d].nextAck = store[d].nextAck
              /\ store'[d].receipts = store[d].receipts
              /\ store'[d].commitments = store[d].commitments
              /\ d # c => store'[d] = store[d]
<1> DEFINE s == SetAcknowledgement(store[c], seq, result)
<1>1. /\ s.acks = store[c].acks \cup {[seq |-> seq, result |-> result]}
      /\ s.nextRecv = store[c].nextRecv /\ s.receipts = store[c].receipts
      /\ s.state = store[c].state /\ s.nextSend = store[c].nextSend
      /\ s.nextAck = store[c].nextAck /\ s.commitments = store[c].commitments
  BY TypeFacts DEF SetAcknowledgement, Stores
<1> HIDE DEF s
<1>2. /\ store'[c] = s /\ \A d \in Chains : d # c => store'[d] = store[d]
  BY DEF WriteAcknowledgement, TypeOK, s
<1> QED
  BY <1>1, <1>2 DEF WriteAcknowledgement, MayWriteAcknowledgement

\* What a callback may be about.
Outcomes == Results \cup {"timeout"}

\* An acknowledgement the sender is told of is one the other end wrote.
Written(c, p, outcome) ==
  outcome \in Results => [seq |-> p.seq, result |-> outcome] \in store[Other(c)].acks

\* A callback is the last of the sender's log.
LEMMA TellEffect ==
  ASSUME TypeOK, NEW c \in Chains, NEW p \in Packets,
         NEW outcome \in Outcomes, Tell(c, p, outcome)
  PROVE  /\ app'[c].told = Append(app[c].told, [packet |-> p, outcome |-> outcome])
         /\ \A d \in Chains :
              /\ app'[d].sent = app[d].sent
              /\ app'[d].received = app[d].received
              /\ app'[d].executed = app[d].executed
              /\ app'[d].async = app[d].async
              /\ d # c => app'[d] = app[d]
<1>1. /\ app'[c] = [app[c] EXCEPT !.told = Append(@, [packet |-> p, outcome |-> outcome])]
      /\ \A d \in Chains : d # c => app'[d] = app[d]
  BY DEF Tell, TypeOK
<1>2. /\ app'[c].told = Append(app[c].told, [packet |-> p, outcome |-> outcome])
      /\ app'[c].sent = app[c].sent /\ app'[c].received = app[c].received
      /\ app'[c].executed = app[c].executed /\ app'[c].async = app[c].async
  BY <1>1, TypeFacts DEF Apps
<1> QED
  BY <1>1, <1>2

LEMMA AcknowledgeEffect ==
  ASSUME TypeOK, NEW c \in Chains, NEW p \in Packets, NEW h,
         NEW result \in Results, AcknowledgePacket(c, p, h, result)
  PROVE  /\ store[c].state = "OPEN" /\ p \in store[c].commitments /\ blocks' = blocks
         /\ Tell(c, p, result)
         /\ store'[c].commitments = store[c].commitments \ {p}
         /\ store'[c].nextAck = IF Ordering = "ORDERED"
                                THEN store[c].nextAck + 1 ELSE store[c].nextAck
         /\ \A d \in Chains :
              /\ store'[d].state = store[d].state
              /\ store'[d].nextSend = store[d].nextSend
              /\ store'[d].nextRecv = store[d].nextRecv
              /\ store'[d].receipts = store[d].receipts
              /\ store'[d].acks = store[d].acks
              /\ d # c => store'[d] = store[d]
<1> DEFINE s == SetAcknowledged(store[c], p)
<1>1. /\ s.commitments = store[c].commitments \ {p}
      /\ s.nextAck = IF Ordering = "ORDERED" THEN store[c].nextAck + 1 ELSE store[c].nextAck
      /\ s.state = store[c].state /\ s.nextSend = store[c].nextSend
      /\ s.nextRecv = store[c].nextRecv /\ s.receipts = store[c].receipts
      /\ s.acks = store[c].acks
  BY TypeFacts DEF SetAcknowledged, Stores
<1> HIDE DEF s
<1>2. /\ store'[c] = s /\ \A d \in Chains : d # c => store'[d] = store[d]
  BY DEF AcknowledgePacket, TypeOK, s
<1> QED
  BY <1>1, <1>2 DEF AcknowledgePacket

LEMMA TimeoutEffect ==
  ASSUME TypeOK, NEW c \in Chains, NEW p \in Packets, NEW h,
         TimeoutPacket(c, p, h) \/ TimeoutOnClose(c, p, h)
  PROVE  /\ p \in store[c].commitments /\ blocks' = blocks
         /\ Tell(c, p, "timeout")
         /\ store'[c].commitments = store[c].commitments \ {p}
         /\ store'[c].state = IF Ordering = "ORDERED" THEN "CLOSED" ELSE store[c].state
         /\ \A d \in Chains :
              /\ store'[d].nextSend = store[d].nextSend
              /\ store'[d].nextRecv = store[d].nextRecv
              /\ store'[d].nextAck = store[d].nextAck
              /\ store'[d].receipts = store[d].receipts
              /\ store'[d].acks = store[d].acks
              /\ d # c => store'[d] = store[d]
<1> DEFINE s == TimeoutExecuted(store[c], p)
<1>1. /\ s.commitments = store[c].commitments \ {p}
      /\ s.state = IF Ordering = "ORDERED" THEN "CLOSED" ELSE store[c].state
      /\ s.nextAck = store[c].nextAck /\ s.nextSend = store[c].nextSend
      /\ s.nextRecv = store[c].nextRecv /\ s.receipts = store[c].receipts
      /\ s.acks = store[c].acks
  BY TypeFacts DEF TimeoutExecuted, Stores
<1> HIDE DEF s
<1>2. /\ store'[c] = s /\ \A d \in Chains : d # c => store'[d] = store[d]
  BY DEF TimeoutPacket, TimeoutOnClose, TypeOK, s
<1> QED
  BY <1>1, <1>2 DEF TimeoutPacket, TimeoutOnClose

LEMMA ChannelEffect ==
  ASSUME TypeOK, NEW c \in Chains, ChannelStep(c)
  PROVE  /\ blocks' = blocks /\ app' = app
         /\ \A d \in Chains :
              /\ store[d].state = "CLOSED" => store'[d].state = "CLOSED"
              /\ store'[d].nextSend = store[d].nextSend
              /\ store'[d].nextRecv = store[d].nextRecv
              /\ store'[d].nextAck = store[d].nextAck
              /\ store'[d].receipts = store[d].receipts
              /\ store'[d].commitments = store[d].commitments
              /\ store'[d].acks = store[d].acks
<1>1. PICK state \in {"OPEN", "CLOSED"} :
        /\ store' = [store EXCEPT ![c].state = state]
        /\ store[c].state = "CLOSED" => state = "CLOSED"
        /\ UNCHANGED <<blocks, client, app>>
  BY DEF ChannelStep, ChanOpenConfirm, ChanCloseInit, ChanCloseConfirm
<1>2. /\ store'[c] = [store[c] EXCEPT !.state = state]
      /\ \A d \in Chains : d # c => store'[d] = store[d]
  BY <1>1 DEF TypeOK
<1>3. /\ store'[c].state = state
      /\ store'[c].nextSend = store[c].nextSend /\ store'[c].nextRecv = store[c].nextRecv
      /\ store'[c].nextAck = store[c].nextAck /\ store'[c].receipts = store[c].receipts
      /\ store'[c].commitments = store[c].commitments /\ store'[c].acks = store[c].acks
  BY <1>2, TypeFacts DEF Stores
<1> QED
  BY <1>1, <1>2, <1>3
=============================================================================
