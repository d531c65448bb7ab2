---------------------------- MODULE PacketFates -----------------------------
(***************************************************************************)
(* What the applications at the two ends see: each packet is received      *)
(* once, its sender is told of it once, and on an ordered channel in order.*)
(* The proof that FateInv is inductive, and what follows from it: a closed *)
(* end is final, and the packet handlers implement PacketLifecycle.        *)
(***************************************************************************)
EXTENDS PacketProofs

\* Zenon checks most of the leaves; those that calculate cite SMT.
USE ZenonT(40)

-----------------------------------------------------------------------------
(* FateInv is inductive. *)

LEMMA InitFateInv == Init => FateInv
<1> SUFFICES ASSUME Init PROVE FateInv
  OBVIOUS
<1>1. \A d \in Chains :
        /\ app[d].sent = {} /\ app[d].received = <<>> /\ app[d].told = <<>>
        /\ app[d].executed = {} /\ app[d].async = {}
        /\ store[d].nextRecv = 1 /\ store[d].nextAck = 1
        /\ store[d].commitments = {} /\ store[d].acks = {}
  BY DEF Init, EmptyStore
<1>2. \A d \in Chains : Height(d) = 1 /\ blocks[d][1].root.acks = {}
  BY DEF Init, Height, EmptyStore
<1>3. \A d \in Chains : ReceivedOnce(d) /\ ExecutedReceived(d)
  BY <1>1, SMTT(30) DEF ReceivedOnce, ExecutedReceived
<1>4. \A d \in Chains : AcknowledgedOnce(d)
  BY <1>1, <1>2, SMTT(30) DEF AcknowledgedOnce
<1>5. \A d \in Chains : ToldAsWritten(d) /\ ToldInOrder(d)
  BY <1>1, SMTT(30) DEF ToldAsWritten, ToldInOrder
<1> QED
  BY <1>3, <1>4, <1>5, InitPacketInv DEF FateInv

\* A step that neither sends, receives, acknowledges nor resolves a packet.
LEMMA QuietFates ==
  ASSUME FateInv, PacketInv', app' = app,
         \A d \in Chains :
           /\ store[d].state = "CLOSED" => store'[d].state = "CLOSED"
           /\ store'[d].nextRecv = store[d].nextRecv
           /\ store'[d].nextAck = store[d].nextAck
           /\ store'[d].receipts = store[d].receipts
           /\ store'[d].commitments = store[d].commitments
           /\ store'[d].acks = store[d].acks
           /\ \A h \in 1..Height(d)' : blocks'[d][h].root.acks \subseteq store[d].acks
  PROVE  FateInv'
<1> SUFFICES ASSUME NEW c \in Chains
             PROVE  /\ ReceivedOnce(c)' /\ ExecutedReceived(c)' /\ AcknowledgedOnce(c)'
                    /\ ToldAsWritten(c)' /\ ToldInOrder(c)'
  BY DEF FateInv
<1>1. Other(c) \in Chains
  BY OtherFacts
<1>2. \A d \in Chains : \A seq : HasReceived(store'[d], seq) <=> HasReceived(store[d], seq)
  BY DEF HasReceived
<1>3. ReceivedOnce(c)'
  BY <1>1, <1>2 DEF FateInv, ReceivedOnce
<1>4. ExecutedReceived(c)' /\ AcknowledgedOnce(c)'
  BY <1>2 DEF FateInv, ExecutedReceived, AcknowledgedOnce
<1>5. ToldAsWritten(c)' /\ ToldInOrder(c)'
  BY <1>1, SMTT(30) DEF FateInv, ToldAsWritten, ToldInOrder
<1> QED
  BY <1>3, <1>4, <1>5

\* What a header shows of acknowledgements is still in the store.
LEMMA NextBlockRoots ==
  ASSUME FateInv, NEW c \in Chains, NextBlock(c)
  PROVE  \A d \in Chains : \A h \in 1..Height(d)' :
           blocks'[d][h].root.acks \subseteq store[d].acks
<1>1. TypeOK
  BY DEF FateInv, PacketInv
<1>2. PICK header : header.root = store[c]
                    /\ blocks' = [blocks EXCEPT ![c] = Append(blocks[c], header)]
                    /\ header \in Headers
  <2>1. PICK interval \in 1..MaxBlockInterval :
          blocks' = [blocks EXCEPT ![c] =
            Append(@, [time |-> BlockTime(c) + interval, root |-> store[c]])]
    BY DEF NextBlock
  <2>2. interval \in Nat
    BY ConstantsAssumption, SMTT(30)
  <2>3. [time |-> BlockTime(c) + interval, root |-> store[c]] \in Headers
    BY <1>1, <2>2, TypeFacts, SMTT(30) DEF Headers
  <2> QED
    BY <2>1, <2>3
<1> SUFFICES ASSUME NEW d \in Chains, NEW h \in 1..Height(d)'
             PROVE  blocks'[d][h].root.acks \subseteq store[d].acks
  OBVIOUS
<1>3. CASE d = c
  <2>1. blocks'[c] = Append(blocks[c], header) /\ blocks[c] \in Seq(Headers)
    BY <1>1, <1>2, TypeFacts DEF TypeOK
  <2>2. CASE h = Height(c) + 1
    BY <1>2, <1>3, <2>1, <2>2, AppendFacts, SMTT(30) DEF Height
  <2>3. CASE h # Height(c) + 1
    <3>1. h \in 1..Height(c) /\ blocks'[c][h] = blocks[c][h]
      BY <1>2, <1>3, <2>1, <2>3, AppendFacts, SMTT(30) DEF Height
    <3> QED
      BY <1>3, <3>1 DEF FateInv, AcknowledgedOnce
  <2> QED
    BY <2>2, <2>3
<1>4. CASE d # c
  <2>1. blocks'[d] = blocks[d]
    BY <1>1, <1>2, <1>4 DEF TypeOK
  <2> QED
    BY <2>1 DEF FateInv, AcknowledgedOnce, Height
<1> QED
  BY <1>3, <1>4

LEMMA NextBlockFates ==
  ASSUME FateInv, NEW c \in Chains, NextBlock(c)
  PROVE  FateInv'
<1>1. PacketInv'
  BY NextBlockInv DEF FateInv
<1>2. store' = store /\ app' = app
  BY DEF NextBlock
<1> QED
  BY <1>1, <1>2, NextBlockRoots, QuietFates

LEMMA QuietStepFates ==
  ASSUME FateInv, NEW c \in Chains, ClientStep(c) \/ ChannelStep(c)
  PROVE  FateInv'
<1>1. TypeOK /\ PacketInv'
  BY ClientStepInv, ChannelStepInv DEF FateInv, PacketInv
<1>2. ClientStep(c) => UNCHANGED <<blocks, store, app>>
  BY DEF ClientStep, LoseClient, UpdateClient, ClientUpdateProposal
<1>3. /\ blocks' = blocks /\ app' = app
      /\ \A d \in Chains :
           /\ store[d].state = "CLOSED" => store'[d].state = "CLOSED"
           /\ store'[d].nextRecv = store[d].nextRecv
           /\ store'[d].nextAck = store[d].nextAck
           /\ store'[d].receipts = store[d].receipts
           /\ store'[d].commitments = store[d].commitments
           /\ store'[d].acks = store[d].acks
  BY <1>1, <1>2, ChannelEffect
<1>4. \A d \in Chains : \A h \in 1..Height(d)' : blocks'[d][h].root.acks \subseteq store[d].acks
  BY <1>3 DEF FateInv, AcknowledgedOnce, Height
<1> QED
  BY <1>1, <1>3, <1>4, QuietFates

LEMMA SendPacketFates ==
  ASSUME FateInv, NEW s \in Chains, NEW th \in TimeoutHeights, NEW ts \in TimeoutTimestamps,
         SendPacket(s, th, ts)
  PROVE  FateInv'
<1> DEFINE new == [seq |-> store[s].nextSend, timeoutHeight |-> th, timeoutTimestamp |-> ts]
<1>1. TypeOK /\ PacketInv /\ PacketInv'
  BY SendPacketInv DEF FateInv, PacketInv
<1> SUFFICES ASSUME NEW c \in Chains
             PROVE  /\ ReceivedOnce(c)' /\ ExecutedReceived(c)' /\ AcknowledgedOnce(c)'
                    /\ ToldAsWritten(c)' /\ ToldInOrder(c)'
  BY <1>1 DEF FateInv
<1>2. new.seq = store[s].nextSend /\ store[s].nextSend \in Nat
  BY <1>1, TypeFacts DEF Stores
<1>3. /\ blocks' = blocks
      /\ store'[s].commitments = store[s].commitments \cup {new}
      /\ app'[s].sent = app[s].sent \cup {new}
      /\ \A d \in Chains :
              /\ store'[d].state = store[d].state
              /\ store'[d].nextRecv = store[d].nextRecv
              /\ store'[d].nextAck = store[d].nextAck
              /\ store'[d].receipts = store[d].receipts
              /\ store'[d].acks = store[d].acks
              /\ app'[d].received = app[d].received
              /\ app'[d].executed = app[d].executed
              /\ app'[d].async = app[d].async
              /\ app'[d].told = app[d].told
              /\ d # s => store'[d] = store[d] /\ app'[d] = app[d]
  BY <1>1, SendEffect
<1> HIDE DEF new
<1>4. \A d \in Chains : \A seq : HasReceived(store'[d], seq) <=> HasReceived(store[d], seq)
  BY <1>3 DEF HasReceived
<1>5. Other(c) \in Chains /\ \A d \in Chains : app[d].sent \subseteq app'[d].sent
  BY <1>3, OtherFacts
<1>6. ReceivedOnce(c)'
  BY <1>3, <1>4, <1>5, SMTT(30) DEF FateInv, ReceivedOnce
<1>7. ExecutedReceived(c)' /\ AcknowledgedOnce(c)'
  BY <1>3, <1>4, SMTT(30) DEF FateInv, ExecutedReceived, AcknowledgedOnce, Height
<1>8. ToldInOrder(c)'
  BY <1>3, SMTT(30) DEF FateInv, ToldInOrder
<1>9. ToldAsWritten(c)'
  <2>1. \A i \in DOMAIN app[s].told : app[s].told[i].packet # new
    <3>1. \A p \in app[s].sent : p.seq \in Nat /\ p.seq < store[s].nextSend
      BY <1>1, TypeFacts, SMTT(30) DEF Apps, Packets, PacketInv, SequencesUnique
    <3> QED
      BY <1>1, <1>2, <3>1, SMTT(30) DEF PacketInv, OnlySentTold
  <2>2. store'[c].commitments = app'[c].sent \ {app[c].told[i].packet : i \in DOMAIN app[c].told}
    <3>1. CASE c = s
      BY <1>3, <2>1, <3>1, SMTT(30) DEF FateInv, ToldAsWritten
    <3>2. CASE c # s
      BY <1>3, <3>2 DEF FateInv, ToldAsWritten
    <3> QED
      BY <3>1, <3>2
  <2> QED
    BY <1>3, <1>5, <2>2, SMTT(30) DEF FateInv, ToldAsWritten
<1> QED
  BY <1>6, <1>7, <1>8, <1>9

\* A packet is received when it has not been, and there is then no acknowledgement of
\* it and no trace of its execution.
LEMMA RecvPacketFates ==
  ASSUME FateInv, NEW r \in Chains, NEW new \in app[Other(r)].sent,
         NEW k, NEW result, RecvPacket(r, new, k, result), PacketInv'
  PROVE  FateInv'
<1>1. TypeOK /\ PacketInv
  BY DEF FateInv, PacketInv
<1> SUFFICES ASSUME NEW c \in Chains
             PROVE  /\ ReceivedOnce(c)' /\ ExecutedReceived(c)' /\ AcknowledgedOnce(c)'
                    /\ ToldAsWritten(c)' /\ ToldInOrder(c)'
  BY <1>1 DEF FateInv
<1>2. Other(c) \in Chains /\ Other(r) \in Chains
  BY OtherFacts
<1>3. new \in Packets /\ new.seq \in Nat \ {0}
  BY <1>1, <1>2, TypeFacts DEF Apps, Packets
<1>4. Receives(r, new, result)
  BY <1>1, <1>3, RecvEffect
<1>5. /\ blocks' = blocks
      /\ ReplayProtection(store[r], new.seq)
      /\ result = "async" => r \in AsyncApps
      /\ store'[r].nextRecv = IF Ordering = "ORDERED"
                              THEN store[r].nextRecv + 1 ELSE store[r].nextRecv
      /\ store'[r].receipts = IF Ordering = "ORDERED"
                              THEN store[r].receipts ELSE store[r].receipts \cup {new.seq}
      /\ store'[r].acks = IF result = "async" THEN store[r].acks
                          ELSE store[r].acks \cup {[seq |-> new.seq, result |-> result]}
      /\ app'[r].received = Append(app[r].received, new)
      /\ app'[r].executed = IF result = "error" THEN app[r].executed
                            ELSE app[r].executed \cup {new.seq}
      /\ app'[r].async = IF result = "async" THEN app[r].async \cup {new.seq}
                         ELSE app[r].async
  BY <1>4 DEF Receives
<1>6. \A d \in Chains :
        /\ store'[d].state = store[d].state
        /\ store'[d].nextAck = store[d].nextAck
        /\ store'[d].commitments = store[d].commitments
        /\ app'[d].sent = app[d].sent
        /\ app'[d].told = app[d].told
        /\ d # r => store'[d] = store[d] /\ app'[d] = app[d]
  BY <1>4 DEF Receives
<1>7. store[r].nextRecv \in Nat
  BY <1>1, TypeFacts DEF Stores
<1>8. /\ ~HasReceived(store[r], new.seq)
      /\ \A seq \in Nat : HasReceived(store'[r], seq) <=>
                            HasReceived(store[r], seq) \/ seq = new.seq
  BY <1>3, <1>5, <1>7, SMTT(30) DEF ReplayProtection, HasReceived
<1>9. /\ app[r].executed \subseteq Nat /\ app[r].async \subseteq Nat
      /\ \A a \in store[r].acks : a.seq \in Nat
      /\ app[r].received \in Seq(Packets)
      /\ \A i \in DOMAIN app[r].received : app[r].received[i].seq \in Nat
  <2>1. app[r] \in Apps /\ store[r] \in Stores
    BY <1>1, TypeFacts
  <2>2. /\ app[r].executed \subseteq Nat /\ app[r].async \subseteq Nat
        /\ app[r].received \in Seq(Packets) /\ store[r].acks \subseteq Acknowledgements
    BY <2>1 DEF Apps, Stores
  <2>3. \A i \in DOMAIN app[r].received : app[r].received[i] \in Packets
    BY <2>2, SMTT(30)
  <2> QED
    BY <2>2, <2>3 DEF Acknowledgements, Packets
<1>10. ReceivedOnce(c)'
  <2>1. CASE c = r
    <3> DEFINE old == app[r].received
    <3>1. /\ app'[r].received = Append(old, new)
          /\ \A i \in DOMAIN Append(old, new) :
               \/ i \in DOMAIN old /\ Append(old, new)[i] = old[i]
               \/ i = Len(old) + 1 /\ Append(old, new)[i] = new
      BY <1>3, <1>5, <1>9, SMTT(30)
    <3>2. \A i \in DOMAIN old :
            /\ old[i].seq # new.seq /\ old[i] \in app'[Other(r)].sent
            /\ HasReceived(store'[r], old[i].seq)
      BY <1>2, <1>6, <1>8, <1>9 DEF FateInv, ReceivedOnce
    <3>3. new \in app'[Other(r)].sent /\ HasReceived(store'[r], new.seq)
      BY <1>2, <1>3, <1>6, <1>8
    <3>4. \A i, j \in DOMAIN old : old[i].seq = old[j].seq => i = j
      BY DEF FateInv, ReceivedOnce
    <3>5. Ordering = "ORDERED" =>
            /\ new.seq = Len(old) + 1 /\ store'[r].nextRecv = Len(old) + 2
            /\ \A i \in DOMAIN old : old[i].seq = i
      BY <1>5, <1>9, SMTT(30) DEF FateInv, ReceivedOnce, ReplayProtection
    <3>6. Len(Append(old, new)) = Len(old) + 1 /\ Len(old) \in Nat
      BY <1>3, <1>9, SMTT(30)
    <3> HIDE DEF old
    <3> DEFINE log == Append(old, new)
    <3>7. \A i, j \in DOMAIN log : log[i].seq = log[j].seq => i = j
      BY <3>1, <3>2, <3>4
    <3>8. \A i \in DOMAIN log :
            log[i] \in app'[Other(r)].sent /\ HasReceived(store'[r], log[i].seq)
      BY <3>1, <3>2, <3>3
    <3>9. Ordering = "ORDERED" =>
            store'[r].nextRecv = Len(log) + 1 /\ \A i \in DOMAIN log : log[i].seq = i
      BY <3>1, <3>5, <3>6, SMTT(30)
    <3> HIDE DEF log
    <3>10. app'[r].received = log
      BY <3>1 DEF log
    <3> QED
      BY <2>1, <3>7, <3>8, <3>9, <3>10 DEF ReceivedOnce
  <2>2. CASE c # r
    BY <1>2, <1>6, <2>2, SMTT(30) DEF FateInv, ReceivedOnce
  <2> QED
    BY <2>1, <2>2
<1>11. ExecutedReceived(c)'
  <2>1. CASE c = r
    <3>1. \A seq \in app'[r].executed : HasReceived(store'[r], seq)
      BY <1>3, <1>5, <1>8, <1>9, SMTT(30) DEF FateInv, ExecutedReceived
    <3>2. app'[r].async \subseteq app'[r].executed
      BY <1>5 DEF FateInv, ExecutedReceived
    <3>3. r \notin AsyncApps => app'[r].async = {}
      BY <1>5 DEF FateInv, ExecutedReceived
    <3> QED
      BY <2>1, <3>1, <3>2, <3>3 DEF ExecutedReceived
  <2>2. CASE c # r
    BY <1>6, <2>2 DEF FateInv, ExecutedReceived
  <2> QED
    BY <2>1, <2>2
<1>12. AcknowledgedOnce(c)'
  <2>1. CASE c = r
    <3> DEFINE ack == [seq |-> new.seq, result |-> result]
    <3>1. \A a \in store'[r].acks : a \in store[r].acks \/ (a = ack /\ result # "async")
      BY <1>5
    <3>2. \A a \in store[r].acks :
            /\ HasReceived(store[r], a.seq) /\ a.seq # new.seq
            /\ a.result = "ok" => a.seq \in app[r].executed
            /\ a.result = "error" /\ r \notin AsyncApps => a.seq \notin app[r].executed
      BY <1>8 DEF FateInv, AcknowledgedOnce
    <3>3. new.seq \notin app[r].executed
      BY <1>8 DEF FateInv, ExecutedReceived
    <3>4. ack.seq = new.seq /\ ack.result = result
      OBVIOUS
    <3>5. \A a, b \in store[r].acks : a.seq = b.seq => a = b
      BY DEF FateInv, AcknowledgedOnce
    <3> HIDE DEF ack
    <3>6. \A a, b \in store'[r].acks : a.seq = b.seq => a = b
      BY <3>1, <3>2, <3>4, <3>5
    <3>7. \A h \in 1..Height(r)' : blocks'[r][h].root.acks \subseteq store'[r].acks
      <4>1. store[r].acks \subseteq store'[r].acks
        BY <1>5
      <4> QED
        BY <1>5, <4>1 DEF FateInv, AcknowledgedOnce, Height
    <3>8. ASSUME NEW a \in store'[r].acks
          PROVE  /\ HasReceived(store'[r], a.seq)
                 /\ a.result = "ok" => a.seq \in app'[r].executed
                 /\ a.result = "error" /\ r \notin AsyncApps => a.seq \notin app'[r].executed
      <4>1. CASE a \in store[r].acks
        BY <1>5, <1>8, <1>9, <3>2, <4>1
      <4>2. CASE a = ack /\ result # "async"
        BY <1>3, <1>5, <1>8, <3>3, <3>4, <4>2
      <4> QED
        BY <3>1, <4>1, <4>2
    <3> QED
      BY <2>1, <3>6, <3>7, <3>8 DEF AcknowledgedOnce
  <2>2. CASE c # r
    BY <1>5, <1>6, <2>2 DEF FateInv, AcknowledgedOnce, Height
  <2> QED
    BY <2>1, <2>2
<1>13. ToldAsWritten(c)'
  <2>1. store[Other(c)].acks \subseteq store'[Other(c)].acks
    BY <1>2, <1>5, <1>6
  <2> QED
    BY <1>6, <2>1, SMTT(30) DEF FateInv, ToldAsWritten
<1>14. ToldInOrder(c)'
  BY <1>6, SMTT(30) DEF FateInv, ToldInOrder
<1> QED
  BY <1>10, <1>11, <1>12, <1>13, <1>14

LEMMA WriteAcknowledgementFates ==
  ASSUME FateInv, NEW w \in Chains, NEW seq, NEW result, WriteAcknowledgement(w, seq, result),
         PacketInv'
  PROVE  FateInv'
<1> DEFINE ack == [seq |-> seq, result |-> result]
<1>1. TypeOK /\ PacketInv
  BY DEF FateInv, PacketInv
<1> SUFFICES ASSUME NEW c \in Chains
             PROVE  /\ ReceivedOnce(c)' /\ ExecutedReceived(c)' /\ AcknowledgedOnce(c)'
                    /\ ToldAsWritten(c)' /\ ToldInOrder(c)'
  BY <1>1 DEF FateInv
<1>2. /\ seq \in app[w].async
      /\ ~HasAcknowledgement(store[w], seq)
      /\ store'[w].acks = store[w].acks \cup {ack}
      /\ blocks' = blocks /\ app' = app
  BY <1>1, WriteAcknowledgementEffect
<1>3. \A d \in Chains :
        /\ store'[d].state = store[d].state
        /\ store'[d].nextRecv = store[d].nextRecv
        /\ store'[d].nextAck = store[d].nextAck
        /\ store'[d].receipts = store[d].receipts
        /\ store'[d].commitments = store[d].commitments
        /\ d # w => store'[d] = store[d]
  BY <1>1, WriteAcknowledgementEffect
<1>4. ack.seq = seq /\ ack.result = result
  OBVIOUS
<1> HIDE DEF ack
<1>5. Other(c) \in Chains
      /\ \A d \in Chains : \A s : HasReceived(store'[d], s) <=> HasReceived(store[d], s)
  BY <1>3, OtherFacts DEF HasReceived
<1>6. \A d \in Chains : store[d].acks \subseteq store'[d].acks
  BY <1>2, <1>3
<1>7. ReceivedOnce(c)'
  BY <1>2, <1>3, <1>5 DEF FateInv, ReceivedOnce
<1>8. ExecutedReceived(c)'
  BY <1>2, <1>5 DEF FateInv, ExecutedReceived
<1>9. AcknowledgedOnce(c)'
  <2>1. CASE c = w
    <3>1. /\ seq \in app[w].executed /\ w \in AsyncApps
          /\ HasReceived(store[w], seq)
          /\ \A a \in store[w].acks : a.seq # seq
      BY <1>2 DEF FateInv, ExecutedReceived, HasAcknowledgement
    <3>2. \A a, b \in store'[w].acks : a.seq = b.seq => a = b
      BY <1>2, <1>4, <3>1 DEF FateInv, AcknowledgedOnce
    <3>3. \A h \in 1..Height(w)' : blocks'[w][h].root.acks \subseteq store'[w].acks
      BY <1>2, <1>6 DEF FateInv, AcknowledgedOnce, Height
    <3>4. \A a \in store'[w].acks :
            /\ HasReceived(store'[w], a.seq)
            /\ a.result = "ok" => a.seq \in app'[w].executed
            /\ a.result = "error" /\ w \notin AsyncApps => a.seq \notin app'[w].executed
      BY <1>2, <1>4, <1>5, <3>1 DEF FateInv, AcknowledgedOnce
    <3> QED
      BY <2>1, <3>2, <3>3, <3>4 DEF AcknowledgedOnce
  <2>2. CASE c # w
    BY <1>2, <1>3, <2>2 DEF FateInv, AcknowledgedOnce, Height
  <2> QED
    BY <2>1, <2>2
<1>10. ToldAsWritten(c)'
  BY <1>2, <1>3, <1>5, <1>6, SMTT(30) DEF FateInv, ToldAsWritten
<1>11. ToldInOrder(c)'
  BY <1>2, <1>3 DEF FateInv, ToldInOrder
<1> QED
  BY <1>7, <1>8, <1>9, <1>10, <1>11

\* The log after a callback: the entries before it, and one more.
LEMMA ToldAfter ==
  ASSUME TypeOK, NEW c \in Chains, NEW p \in Packets,
         NEW outcome \in Outcomes, Tell(c, p, outcome)
  PROVE  /\ Len(app'[c].told) = Len(app[c].told) + 1 /\ Len(app[c].told) \in Nat
         /\ DOMAIN app'[c].told = DOMAIN app[c].told \cup {Len(app[c].told) + 1}
         /\ \A i \in DOMAIN app[c].told :
              i # Len(app[c].told) + 1 /\ app'[c].told[i] = app[c].told[i]
         /\ app'[c].told[Len(app[c].told) + 1].packet = p
         /\ app'[c].told[Len(app[c].told) + 1].outcome = outcome
<1> DEFINE e == [packet |-> p, outcome |-> outcome]
<1>1. app'[c].told = Append(app[c].told, e)
  BY TellEffect
<1>2. app[c].told \in Seq(Callbacks) /\ e \in Callbacks
  BY TypeFacts DEF Apps, Callbacks, Outcomes
<1>3. e.packet = p /\ e.outcome = outcome
  OBVIOUS
<1> HIDE DEF e
<1> QED
  BY <1>1, <1>2, <1>3, SMTT(30)

\* A callback for a packet whose commitment goes with it is the first for that packet.
LEMMA TellFates ==
  ASSUME FateInv, NEW c \in Chains, NEW p \in Packets,
         NEW outcome \in Outcomes, Tell(c, p, outcome),
         p \in store[c].commitments,
         store'[c].commitments = store[c].commitments \ {p},
         \A d \in Chains : /\ store'[d].acks = store[d].acks
                           /\ d # c => store'[d] = store[d],
         Written(c, p, outcome)
  PROVE  \A d \in Chains : ToldAsWritten(d)'
<1> DEFINE old == app[c].told
           log == app'[c].told
           n == Len(old) + 1
<1>1. TypeOK /\ PacketInv
  BY DEF FateInv, PacketInv
<1>2. /\ DOMAIN log = DOMAIN old \cup {n}
      /\ \A i \in DOMAIN old : i # n /\ log[i] = old[i]
      /\ log[n].packet = p /\ log[n].outcome = outcome
  BY <1>1, ToldAfter, SMTT(30)
<1>3. /\ app'[c].sent = app[c].sent
      /\ \A d \in Chains : d # c => app'[d] = app[d]
  BY <1>1, TellEffect
<1>4. Other(c) \in Chains /\ Other(c) # c
  BY OtherFacts
<1>5. /\ \A i, j \in DOMAIN old : old[i].packet.seq = old[j].packet.seq => i = j
      /\ store[c].commitments = app[c].sent \ {old[i].packet : i \in DOMAIN old}
      /\ \A i \in DOMAIN old : old[i].outcome \in Results =>
           [seq |-> old[i].packet.seq, result |-> old[i].outcome] \in store[Other(c)].acks
  BY DEF FateInv, ToldAsWritten
<1>6. \A i \in DOMAIN old : old[i].packet \in app[c].sent
  BY <1>1 DEF PacketInv, OnlySentTold
<1> HIDE DEF old, log, n
<1>7. p \in app[c].sent /\ \A i \in DOMAIN old : old[i].packet # p
  BY <1>5
<1>8. \A i \in DOMAIN old : old[i].packet.seq # p.seq
  BY <1>1, <1>6, <1>7 DEF PacketInv, SequencesUnique
<1>9. \A i, j \in DOMAIN log : log[i].packet.seq = log[j].packet.seq => i = j
  BY <1>2, <1>5, <1>8
<1>10. store'[c].commitments = app'[c].sent \ {log[i].packet : i \in DOMAIN log}
  <2> DEFINE Before(q) == \E i \in DOMAIN old : q = old[i].packet
             After(q) == \E i \in DOMAIN log : q = log[i].packet
  <2>1. \A q : After(q) <=> q = p \/ Before(q)
    BY <1>2
  <2>2. \A q : q \in store[c].commitments <=> q \in app[c].sent /\ ~Before(q)
    BY <1>5
  <2>3. ASSUME \A q : q \in store'[c].commitments <=> q \in app'[c].sent /\ ~After(q)
        PROVE  <1>10!:
    BY <2>3, SMTT(30)
  <2> HIDE DEF Before, After
  <2>4. \A q : q \in store'[c].commitments <=> q \in app'[c].sent /\ ~After(q)
    BY <1>3, <2>1, <2>2
  <2> QED
    BY <2>3, <2>4
<1>11. \A i \in DOMAIN log : log[i].outcome \in Results =>
         [seq |-> log[i].packet.seq, result |-> log[i].outcome] \in store'[Other(c)].acks
  BY <1>2, <1>4, <1>5 DEF Written
<1>12. ToldAsWritten(c)'
  BY <1>9, <1>10, <1>11 DEF ToldAsWritten, log
<1>13. \A d \in Chains : d # c => ToldAsWritten(d)'
  <2> SUFFICES ASSUME NEW d \in Chains, d # c PROVE ToldAsWritten(d)'
    OBVIOUS
  <2>1. /\ store'[d] = store[d] /\ app'[d] = app[d]
        /\ store'[Other(d)].acks = store[Other(d)].acks
    BY <1>3, OtherFacts
  <2>2. ToldAsWritten(d)
    BY DEF FateInv
  <2> QED
    BY <2>1, <2>2, SMTT(30) DEF ToldAsWritten
<1> QED
  BY <1>12, <1>13

\* The parts of the invariant a callback at the sender leaves alone.
LEMMA ResolveFates ==
  ASSUME FateInv, NEW c \in Chains, NEW p \in Packets,
         NEW outcome \in Outcomes, Tell(c, p, outcome), blocks' = blocks,
         \A d \in Chains : /\ store'[d].nextRecv = store[d].nextRecv
                           /\ store'[d].receipts = store[d].receipts
                           /\ store'[d].acks = store[d].acks
  PROVE  \A d \in Chains : ReceivedOnce(d)' /\ ExecutedReceived(d)' /\ AcknowledgedOnce(d)'
<1>1. TypeOK
  BY DEF FateInv, PacketInv
<1>2. \A d \in Chains : /\ app'[d].sent = app[d].sent
                        /\ app'[d].received = app[d].received
                        /\ app'[d].executed = app[d].executed
                        /\ app'[d].async = app[d].async
  BY <1>1, TellEffect
<1> SUFFICES ASSUME NEW d \in Chains
             PROVE  ReceivedOnce(d)' /\ ExecutedReceived(d)' /\ AcknowledgedOnce(d)'
  OBVIOUS
<1>3. Other(d) \in Chains /\ \A s : HasReceived(store'[d], s) <=> HasReceived(store[d], s)
  BY OtherFacts DEF HasReceived
<1>4. ReceivedOnce(d)'
  BY <1>2, <1>3, SMTT(30) DEF FateInv, ReceivedOnce
<1>5. ExecutedReceived(d)' /\ AcknowledgedOnce(d)'
  BY <1>2, <1>3 DEF FateInv, ExecutedReceived, AcknowledgedOnce, Height
<1> QED
  BY <1>4, <1>5

\* The acknowledgement that was proved is in the other end's store, and on an ordered
\* channel it is the next one.
LEMMA AcknowledgeFates ==
  ASSUME FateInv, NEW c \in Chains, NEW p \in Packets, NEW h \in client[c].heights,
         NEW result \in Results, AcknowledgePacket(c, p, h, result), PacketInv'
  PROVE  FateInv'
<1>1. TypeOK /\ PacketInv /\ result \in Outcomes
  BY DEF FateInv, PacketInv, Outcomes
<1>2. /\ store[c].state = "OPEN" /\ p \in store[c].commitments /\ blocks' = blocks
      /\ Tell(c, p, result)
      /\ store'[c].commitments = store[c].commitments \ {p}
      /\ store'[c].nextAck = IF Ordering = "ORDERED"
                             THEN store[c].nextAck + 1 ELSE store[c].nextAck
  BY <1>1, AcknowledgeEffect
<1>3. \A d \in Chains :
        /\ store'[d].state = store[d].state
        /\ store'[d].nextRecv = store[d].nextRecv
        /\ store'[d].receipts = store[d].receipts
        /\ store'[d].acks = store[d].acks
        /\ d # c => store'[d] = store[d]
  BY <1>1, AcknowledgeEffect
<1>4. Written(c, p, result)
  <2>1. h \in 1..Height(Other(c)) /\ Other(c) \in Chains
    BY <1>1, TypeFacts, OtherFacts
  <2>2. [seq |-> p.seq, result |-> result] \in blocks[Other(c)][h].root.acks
    BY DEF AcknowledgePacket, VerifyPacketAcknowledgement, ConsensusState
  <2> QED
    BY <2>1, <2>2, SMTT(30) DEF FateInv, AcknowledgedOnce, Written
<1>5. \A d \in Chains : ToldAsWritten(d)'
  BY <1>1, <1>2, <1>3, <1>4, TellFates
<1>6. \A d \in Chains : ReceivedOnce(d)' /\ ExecutedReceived(d)' /\ AcknowledgedOnce(d)'
  BY <1>1, <1>2, <1>3, ResolveFates
<1>7. ToldInOrder(c)'
  <2> DEFINE old == app[c].told
             log == app'[c].told
             n == Len(old) + 1
  <2>1. /\ Len(log) = n /\ n \in Nat
        /\ DOMAIN log = DOMAIN old \cup {n}
        /\ \A i \in DOMAIN old : i # n /\ log[i] = old[i]
        /\ log[n].packet = p /\ log[n].outcome = result
    BY <1>1, <1>2, ToldAfter, SMTT(30)
  <2>2. Ordering = "ORDERED" =>
          /\ \A i \in DOMAIN old : old[i].packet.seq = i /\ old[i].outcome # "timeout"
          /\ store[c].nextAck = n
    BY <1>2 DEF FateInv, ToldInOrder
  <2>3. (Ordering = "ORDERED" => p.seq = store[c].nextAck) /\ result # "timeout"
    BY DEF AcknowledgePacket, Results
  <2> HIDE DEF old, log, n
  <2>4. Ordering = "ORDERED" =>
          /\ \A i \in DOMAIN log : log[i].packet.seq = i /\ log[i].outcome # "timeout"
          /\ store'[c].nextAck = Len(log) + 1
    BY <1>2, <2>1, <2>2, <2>3
  <2> QED
    BY <2>4 DEF ToldInOrder, log
<1>8. \A d \in Chains : d # c => ToldInOrder(d)'
  <2>1. \A d \in Chains : d # c => app'[d] = app[d]
    BY <1>1, <1>2, TellEffect
  <2> QED
    BY <1>3, <2>1, SMTT(30) DEF FateInv, ToldInOrder
<1> QED
  BY <1>5, <1>6, <1>7, <1>8 DEF FateInv

LEMMA TimeoutFates ==
  ASSUME FateInv, NEW c \in Chains, NEW p \in Packets, NEW h,
         TimeoutPacket(c, p, h) \/ TimeoutOnClose(c, p, h), PacketInv'
  PROVE  FateInv'
<1>1. TypeOK /\ PacketInv /\ "timeout" \in Outcomes /\ "timeout" \notin Results
  BY DEF FateInv, PacketInv, Outcomes, Results
<1>2. /\ p \in store[c].commitments /\ blocks' = blocks
      /\ Tell(c, p, "timeout")
      /\ store'[c].commitments = store[c].commitments \ {p}
      /\ Ordering = "ORDERED" => store'[c].state = "CLOSED"
  BY <1>1, TimeoutEffect
<1>3. \A d \in Chains :
        /\ store'[d].nextRecv = store[d].nextRecv
        /\ store'[d].receipts = store[d].receipts
        /\ store'[d].acks = store[d].acks
        /\ d # c => store'[d] = store[d]
  BY <1>1, TimeoutEffect
<1>4. Written(c, p, "timeout")
  BY <1>1 DEF Written
<1>5. \A d \in Chains : ToldAsWritten(d)'
  BY <1>1, <1>2, <1>3, <1>4, TellFates
<1>6. \A d \in Chains : ReceivedOnce(d)' /\ ExecutedReceived(d)' /\ AcknowledgedOnce(d)'
  BY <1>1, <1>2, <1>3, ResolveFates
<1>7. ToldInOrder(c)'
  <2> DEFINE old == app[c].told
             log == app'[c].told
             n == Len(old) + 1
  <2>1. /\ DOMAIN log = DOMAIN old \cup {n}
        /\ \A i \in DOMAIN old : log[i] = old[i]
        /\ log[n].outcome = "timeout"
    BY <1>1, <1>2, ToldAfter
  <2>2. Ordering = "ORDERED" =>
          \A i \in DOMAIN old : old[i].outcome # "timeout" => old[i].packet.seq = i
    BY DEF FateInv, ToldInOrder
  <2> HIDE DEF old, log, n
  <2>3. Ordering = "ORDERED" =>
          \A i \in DOMAIN log : log[i].outcome # "timeout" => log[i].packet.seq = i
    BY <2>1, <2>2
  <2> QED
    BY <1>2, <2>3 DEF ToldInOrder, log
<1>8. \A d \in Chains : d # c => ToldInOrder(d)'
  <2>1. \A d \in Chains : d # c => app'[d] = app[d]
    BY <1>1, <1>2, TellEffect
  <2> QED
    BY <1>3, <2>1, SMTT(30) DEF FateInv, ToldInOrder
<1> QED
  BY <1>5, <1>6, <1>7, <1>8 DEF FateInv

LEMMA PacketStepFates ==
  ASSUME FateInv, NEW c \in Chains, PacketStep(c)
  PROVE  FateInv'
<1>1. TypeOK /\ PacketInv'
  BY NextPacketInv DEF FateInv, PacketInv, Next
<1>2. /\ app[c].sent \subseteq Packets /\ app[Other(c)].sent \subseteq Packets
  BY <1>1, OtherFacts, TypeFacts DEF Apps
<1>3. ASSUME NEW p \in app[Other(c)].sent, NEW h, NEW r, RecvPacket(c, p, h, r)
      PROVE  FateInv'
  BY <1>1, <1>3, RecvPacketFates
<1>4. ASSUME NEW seq, NEW r, WriteAcknowledgement(c, seq, r)
      PROVE  FateInv'
  BY <1>1, <1>4, WriteAcknowledgementFates
<1>5. ASSUME NEW p \in app[c].sent, NEW h \in client[c].heights,
             \/ \E r \in Results : AcknowledgePacket(c, p, h, r)
             \/ TimeoutPacket(c, p, h)
             \/ TimeoutOnClose(c, p, h)
      PROVE  FateInv'
  BY <1>1, <1>2, <1>5, AcknowledgeFates, TimeoutFates
<1> QED
  BY <1>3, <1>4, <1>5, SendPacketFates DEF PacketStep

LEMMA NextFateInv == FateInv /\ [Next]_vars => FateInv'
<1> SUFFICES ASSUME FateInv, [Next]_vars PROVE FateInv'
  OBVIOUS
<1>1. CASE UNCHANGED vars
  <2>1. PacketInv'
    BY <1>1, NextPacketInv DEF FateInv
  <2>2. \A d \in Chains : \A h \in 1..Height(d)' :
          blocks'[d][h].root.acks \subseteq store[d].acks
    BY <1>1 DEF FateInv, AcknowledgedOnce, Height, vars
  <2> QED
    BY <1>1, <2>1, <2>2, QuietFates DEF vars
<1>2. CASE Next
  BY <1>2, NextBlockFates, QuietStepFates, PacketStepFates DEF Next
<1> QED
  BY <1>1, <1>2

-----------------------------------------------------------------------------
(* What follows from FateInv. *)

\* The stores and what the applications have seen tell the same story in every
\* reachable state, whatever messages are lost, repeated or late.
THEOREM FateInvariance == Spec => []FateInv
BY InitFateInv, NextFateInv, PTL DEF Spec

\* OnRecvPacket is called at most once per packet and only with what was sent, on
\* ordered and on unordered channels: ReplayProtection and the receipt or
\* nextSequenceRecv that RecvPacket writes leave no second chance.
THEOREM ReceivedExactlyOnce == Spec => []ExactlyOnce
<1>1. FateInv => ExactlyOnce
  BY DEF FateInv, ReceivedOnce, ExactlyOnce
<1> QED
  BY <1>1, FateInvariance, PTL

\* The sender's application hears of a packet at most once, by OnAcknowledgementPacket
\* or by OnTimeoutPacket, and until then the commitment is there: no funds are
\* refunded twice and none lose their proof.
THEOREM SenderToldOnce == Spec => []ToldOnce
<1>1. FateInv => ToldOnce
  BY DEF FateInv, ToldAsWritten, ToldOnce
<1> QED
  BY <1>1, FateInvariance, PTL

\* AcknowledgePacket hands the sender the one acknowledgement the other end ever
\* wrote, and it says what became of the packet there.
THEOREM AcknowledgementsAlwaysAgree == Spec => []AcknowledgementsAgree
<1>1. FateInv => AcknowledgementsAgree
  <2> SUFFICES ASSUME FateInv, NEW c \in Chains
               PROVE  /\ \A a, b \in store[Other(c)].acks : a.seq = b.seq => a = b
                      /\ \A p \in app[c].sent, r \in Results : Told(c, p, r) =>
                           /\ [seq |-> p.seq, result |-> r] \in store[Other(c)].acks
                           /\ r = "ok" => p.seq \in app[Other(c)].executed
                           /\ r = "error" /\ Other(c) \notin AsyncApps =>
                                p.seq \notin app[Other(c)].executed
    BY DEF AcknowledgementsAgree
  <2>1. AcknowledgedOnce(Other(c))
    BY OtherFacts DEF FateInv
  <2>2. ASSUME NEW p \in app[c].sent, NEW r \in Results, Told(c, p, r)
        PROVE  [seq |-> p.seq, result |-> r] \in store[Other(c)].acks
    <3>1. PICK i \in DOMAIN app[c].told : app[c].told[i] = [packet |-> p, outcome |-> r]
      BY <2>2 DEF Told
    <3>2. app[c].told[i].packet = p /\ app[c].told[i].outcome = r
      BY <3>1, SMTT(30)
    <3> QED
      BY <3>2 DEF FateInv, ToldAsWritten
  <2>3. ASSUME NEW p \in app[c].sent, NEW r \in Results, Told(c, p, r)
        PROVE  /\ r = "ok" => p.seq \in app[Other(c)].executed
               /\ r = "error" /\ Other(c) \notin AsyncApps =>
                    p.seq \notin app[Other(c)].executed
    <3> DEFINE ack == [seq |-> p.seq, result |-> r]
    <3>1. ack.seq = p.seq /\ ack.result = r /\ ack \in store[Other(c)].acks
      BY <2>2, <2>3
    <3> HIDE DEF ack
    <3> QED
      BY <2>1, <3>1 DEF AcknowledgedOnce
  <2> QED
    BY <2>1, <2>2, <2>3 DEF AcknowledgedOnce
<1> QED
  BY <1>1, FateInvariance, PTL

\* On an ordered channel the n-th packet received is packet n and the n-th one
\* acknowledged is packet n, up to the first timeout.
THEOREM DeliveredInOrder == Spec => []OrderedDelivery
<1>1. FateInv => OrderedDelivery
  BY DEF FateInv, ReceivedOnce, ToldInOrder, OrderedDelivery
<1> QED
  BY <1>1, FateInvariance, PTL

\* A timeout closes the sender's end of an ordered channel and the destination waits
\* for the packet for ever.
THEOREM TimeoutAlwaysBlocks == Spec => []TimeoutBlocksOrderedChannel
<1>1. FateInv => TimeoutBlocksOrderedChannel
  <2> SUFFICES ASSUME FateInv, Ordering = "ORDERED", NEW c \in Chains, NEW p \in app[c].sent,
                      Told(c, p, "timeout")
               PROVE  store[c].state = "CLOSED" /\ store[Other(c)].nextRecv <= p.seq
    BY DEF TimeoutBlocksOrderedChannel
  <2>1. PICK i \in DOMAIN app[c].told :
          app[c].told[i] = [packet |-> p, outcome |-> "timeout"]
    BY DEF Told
  <2>2. app[c].told[i].outcome = "timeout"
    BY <2>1, SMTT(30)
  <2>3. store[c].state = "CLOSED"
    BY <2>2 DEF FateInv, ToldInOrder
  <2>4. p.seq \in Nat /\ store[Other(c)].nextRecv \in Nat
    <3>1. TypeOK /\ Other(c) \in Chains
      BY OtherFacts DEF FateInv, PacketInv
    <3> QED
      BY <3>1, TypeFacts, SMTT(30) DEF Apps, Packets, Stores
  <2>5. ~(p.seq < store[Other(c)].nextRecv)
    BY DEF FateInv, PacketInv, TimeoutFinal, HasReceived
  <2> QED
    BY <2>3, <2>4, <2>5, SMTT(30)
<1> QED
  BY <1>1, FateInvariance, PTL

-----------------------------------------------------------------------------
(* A closed end is final. *)

\* What ClosedIsFinal asks of one step for one chain.
StaysClosed(c) ==
  store[c].state = "CLOSED" =>
    /\ store'[c] = [store[c] EXCEPT !.commitments = store'[c].commitments]
    /\ \A p \in store[c].commitments \ store'[c].commitments :
         /\ p \in app[c].sent
         /\ ~HasReceived(store[Other(c)], p.seq)

\* A step that leaves the store of a chain alone.
LEMMA UntouchedStaysClosed ==
  ASSUME TypeOK, NEW c \in Chains, store'[c] = store[c]
  PROVE  StaysClosed(c)
BY TypeFacts DEF StaysClosed, Stores

\* TimeoutOnClose changes nothing else in a closed end and takes only commitments of
\* packets that were not received.
LEMMA TimeoutStaysClosed ==
  ASSUME PacketInv, PacketInv', NEW c \in Chains, NEW p \in app[c].sent,
         NEW h \in client[c].heights,
         TimeoutPacket(c, p, h) \/ TimeoutOnClose(c, p, h)
  PROVE  StaysClosed(c)
<1> SUFFICES ASSUME store[c].state = "CLOSED" PROVE StaysClosed(c)
  BY DEF StaysClosed
<1>1. TypeOK /\ TypeOK' /\ p \in Packets
  BY TypeFacts DEF PacketInv, Apps
<1>2. /\ store'[c].commitments = store[c].commitments \ {p}
      /\ store'[c].state = "CLOSED"
      /\ store'[c].nextSend = store[c].nextSend /\ store'[c].nextRecv = store[c].nextRecv
      /\ store'[c].nextAck = store[c].nextAck /\ store'[c].receipts = store[c].receipts
      /\ store'[c].acks = store[c].acks
  BY <1>1, TimeoutEffect
<1>3. store[c] \in Stores /\ store'[c] \in Stores
  BY <1>1 DEF TypeOK
<1>4. store'[c] = [store[c] EXCEPT !.commitments = store'[c].commitments]
  BY <1>2, <1>3 DEF Stores
<1>5. ~HasReceived(store[Other(c)], p.seq)
  BY TimeoutIsFinal DEF TimeoutPacket, TimeoutOnClose
<1> QED
  BY <1>2, <1>4, <1>5 DEF StaysClosed

\* Every other handler of a packet wants the end to be open.
LEMMA PacketStepStaysClosed ==
  ASSUME PacketInv, PacketInv', NEW d \in Chains, PacketStep(d), NEW c \in Chains
  PROVE  StaysClosed(c)
<1>1. TypeOK
  BY DEF PacketInv
<1>2. CASE c # d
  BY <1>1, <1>2, UntouchedStaysClosed
  DEF PacketStep, SendPacket, RecvPacket, WriteAcknowledgement, AcknowledgePacket,
      TimeoutPacket, TimeoutOnClose, TypeOK
<1>3. CASE c = d
  <2> SUFFICES ASSUME store[c].state = "CLOSED" PROVE StaysClosed(c)
    BY DEF StaysClosed
  <2>1. PICK p \in app[c].sent, h \in client[c].heights :
          TimeoutPacket(c, p, h) \/ TimeoutOnClose(c, p, h)
    BY <1>3 DEF PacketStep, SendPacket, RecvPacket, WriteAcknowledgement,
                MayWriteAcknowledgement, AcknowledgePacket
  <2> QED
    BY <2>1, TimeoutStaysClosed
<1> QED
  BY <1>2, <1>3

LEMMA NextStaysClosed ==
  ASSUME PacketInv, PacketInv', Next, NEW c \in Chains
  PROVE  StaysClosed(c)
<1>1. TypeOK
  BY DEF PacketInv
<1>2. CASE store' = store
  BY <1>1, <1>2, UntouchedStaysClosed
<1>3. ASSUME NEW d \in Chains, ChannelStep(d) PROVE StaysClosed(c)
  <2>1. PICK state \in {"OPEN", "CLOSED"} :
          /\ store' = [store EXCEPT ![d].state = state]
          /\ store[d].state = "CLOSED" => state = "CLOSED"
    BY <1>3 DEF ChannelStep, ChanOpenConfirm, ChanCloseInit, ChanCloseConfirm
  <2>2. store[c].state = "CLOSED" => store'[c] = store[c]
    BY <1>1, <2>1 DEF TypeOK, Stores
  <2> QED
    BY <1>1, <2>2, UntouchedStaysClosed DEF StaysClosed
<1> QED
  BY <1>2, <1>3, PacketStepStaysClosed
  DEF Next, NextBlock, ClientStep, LoseClient, UpdateClient, ClientUpdateProposal

\* A closed end of a channel never opens again and takes no more part in the traffic
\* of packets, but that TimeoutOnClose drops the commitments of packets the other end
\* did not receive.
THEOREM ClosedAlwaysFinal == Spec => ClosedIsFinal
<1>1. PacketInv /\ PacketInv' /\ [Next]_vars =>
        [\A c \in Chains : store[c].state = "CLOSED" =>
           /\ store'[c] = [store[c] EXCEPT !.commitments = store'[c].commitments]
           /\ \A p \in store[c].commitments \ store'[c].commitments :
                /\ p \in app[c].sent
                /\ ~HasReceived(store[Other(c)], p.seq)]_vars
  BY NextStaysClosed DEF StaysClosed
<1> QED
  BY <1>1, PacketInvariance, PTL DEF Spec, ClosedIsFinal

-----------------------------------------------------------------------------
(* The life cycle of the packets A sends. *)

\* A has been told of packet seq, that it timed out or of an acknowledgement.
TimedOut(seq) ==
  \E i \in DOMAIN app[A].told :
    app[A].told[i].packet.seq = seq /\ app[A].told[i].outcome = "timeout"

Acknowledged(seq) ==
  \E i \in DOMAIN app[A].told :
    app[A].told[i].packet.seq = seq /\ app[A].told[i].outcome \in Results

Status(seq) ==
  IF TimedOut(seq) THEN "timedout"
  ELSE IF Acknowledged(seq) THEN "acknowledged"
  ELSE IF HasReceived(store[B], seq) THEN "delivered" ELSE "sent"

\* The chains are the two ends.
LEMMA Ends == A \in Chains /\ B \in Chains /\ Other(A) = B /\ Other(B) = A /\ A # B
BY ChainsAssumption DEF Chains, Other

\* The status of a packet as its callbacks and its receipt say: no packet has two.
LEMMA StatusValue == FateInv => \A seq : StatusOf(A, seq) = Status(seq)
<1> SUFFICES ASSUME FateInv, NEW seq PROVE StatusOf(A, seq) = Status(seq)
  OBVIOUS
<1> DEFINE told == app[A].told
           One == \E p \in app[A].sent : p.seq = seq /\ Told(A, p, "timeout")
           Two == \E p \in app[A].sent, r \in Results : p.seq = seq /\ Told(A, p, r)
<1>1. \A i \in DOMAIN told :
        /\ told[i].packet \in app[A].sent
        /\ told[i] = [packet |-> told[i].packet, outcome |-> told[i].outcome]
  <2>1. TypeOK /\ OnlySentTold(A)
    BY Ends DEF FateInv, PacketInv
  <2>2. told \in Seq(Callbacks)
    BY <2>1, Ends, TypeFacts DEF Apps
  <2>3. \A i \in DOMAIN told : told[i] \in Callbacks
    BY <2>2, SMTT(30)
  <2> QED
    BY <2>1, <2>3 DEF OnlySentTold, Callbacks
<1>2. \A p, o : Told(A, p, o) <=>
                   \E i \in DOMAIN told : told[i].packet = p /\ told[i].outcome = o
  <2>1. \A p, o : [packet |-> p, outcome |-> o].packet = p
                 /\ [packet |-> p, outcome |-> o].outcome = o
    OBVIOUS
  <2> QED
    BY <1>1, <2>1, SMTT(30) DEF Told
<1> HIDE DEF told
<1>3. /\ One <=> TimedOut(seq)
      /\ Two <=> Acknowledged(seq)
  <2>1. /\ TimedOut(seq) <=> \E i \in DOMAIN told :
             told[i].packet.seq = seq /\ told[i].outcome = "timeout"
        /\ Acknowledged(seq) <=> \E i \in DOMAIN told :
             told[i].packet.seq = seq /\ told[i].outcome \in Results
    BY DEF TimedOut, Acknowledged, told
  <2>2. \A i \in DOMAIN told :
          /\ told[i].packet \in app[A].sent
          /\ Told(A, told[i].packet, told[i].outcome)
    BY <1>1, <1>2
  <2>3. One <=> TimedOut(seq)
    BY <1>2, <2>1, <2>2, SMTT(30)
  <2>4. Two <=> Acknowledged(seq)
    BY <1>2, <2>1, <2>2, SMTT(30)
  <2> QED
    BY <2>3, <2>4
<1>4. ~(TimedOut(seq) /\ Acknowledged(seq))
  <2>1. \A i, j \in DOMAIN told : told[i].packet.seq = told[j].packet.seq => i = j
    BY Ends DEF FateInv, ToldAsWritten, told
  <2> QED
    BY <2>1 DEF TimedOut, Acknowledged, Results, told
<1>5. StatusOf(A, seq) =
        CASE One -> "timedout"
          [] Two -> "acknowledged"
          [] OTHER -> IF HasReceived(store[B], seq) THEN "delivered" ELSE "sent"
  BY Ends DEF StatusOf
<1> HIDE DEF One, Two
<1>6. CASE TimedOut(seq)
  BY <1>3, <1>4, <1>5, <1>6 DEF Status
<1>7. CASE ~TimedOut(seq) /\ Acknowledged(seq)
  BY <1>3, <1>4, <1>5, <1>7 DEF Status
<1>8. CASE ~TimedOut(seq) /\ ~Acknowledged(seq)
  BY <1>3, <1>5, <1>8 DEF Status
<1> QED
  BY <1>6, <1>7, <1>8

\* The same of the state after a step.
LEMMA StatusValueAfter == FateInv' => (\A seq : StatusOf(A, seq) = Status(seq))'
BY StatusValue, PTL

\* The statuses are a sequence, one for each packet A has sent.
LEMMA StatusesType ==
  FateInv => /\ store[A].nextSend \in Nat \ {0}
             /\ StatusesOf(A) \in [1..(store[A].nextSend - 1) -> FromA!Statuses]
             /\ \A seq \in 1..(store[A].nextSend - 1) : StatusesOf(A)[seq] = Status(seq)
<1> SUFFICES ASSUME FateInv
             PROVE  /\ store[A].nextSend \in Nat \ {0}
                    /\ StatusesOf(A) \in [1..(store[A].nextSend - 1) -> FromA!Statuses]
                    /\ \A seq \in 1..(store[A].nextSend - 1) : StatusesOf(A)[seq] = Status(seq)
  OBVIOUS
<1>1. store[A].nextSend \in Nat \ {0}
  BY Ends, TypeFacts DEF FateInv, PacketInv, Stores
<1>2. \A seq : Status(seq) \in FromA!Statuses
  BY DEF Status, FromA!Statuses
<1> QED
  BY <1>1, <1>2, StatusValue DEF StatusesOf

LEMMA StatusesTypeAfter ==
  FateInv' => (/\ store[A].nextSend \in Nat \ {0}
               /\ StatusesOf(A) \in [1..(store[A].nextSend - 1) -> FromA!Statuses]
               /\ \A seq \in 1..(store[A].nextSend - 1) : StatusesOf(A)[seq] = Status(seq))'
BY StatusesType, PTL

\* A step that changes what is known of one packet at most.
LEMMA OneStatus ==
  ASSUME FateInv, FateInv', store'[A].nextSend = store[A].nextSend,
         NEW k \in 1..(store[A].nextSend - 1),
         \A seq \in 1..(store[A].nextSend - 1) : seq # k => Status(seq)' = Status(seq)
  PROVE  StatusesOf(A)' = [StatusesOf(A) EXCEPT ![k] = Status(k)']
BY StatusesType, StatusesTypeAfter

\* A step that changes nothing of the packets A has sent.
LEMMA SameStatuses ==
  ASSUME FateInv, FateInv', store'[A].nextSend = store[A].nextSend,
         app'[A].told = app[A].told,
         \A seq : HasReceived(store'[B], seq) <=> HasReceived(store[B], seq)
  PROVE  StatusesOf(A)' = StatusesOf(A)
<1>1. \A seq : Status(seq)' = Status(seq)
  BY DEF Status, TimedOut, Acknowledged
<1> QED
  BY <1>1, StatusesType, StatusesTypeAfter, SMTT(30)

\* What a callback adds to what A knows.
LEMMA StatusesTold ==
  ASSUME FateInv, NEW p \in Packets, NEW outcome \in Outcomes, Tell(A, p, outcome), NEW seq
  PROVE  /\ TimedOut(seq)' <=> TimedOut(seq) \/ (seq = p.seq /\ outcome = "timeout")
         /\ Acknowledged(seq)' <=> Acknowledged(seq) \/ (seq = p.seq /\ outcome \in Results)
<1> DEFINE old == app[A].told
           log == app'[A].told
           n == Len(old) + 1
<1>1. /\ DOMAIN log = DOMAIN old \cup {n}
      /\ \A i \in DOMAIN old : i # n /\ log[i] = old[i]
      /\ log[n].packet = p /\ log[n].outcome = outcome
  BY Ends, ToldAfter DEF FateInv, PacketInv
<1>2. /\ TimedOut(seq) <=> \E i \in DOMAIN old :
           old[i].packet.seq = seq /\ old[i].outcome = "timeout"
      /\ Acknowledged(seq) <=> \E i \in DOMAIN old :
           old[i].packet.seq = seq /\ old[i].outcome \in Results
  BY DEF TimedOut, Acknowledged
<1>3. /\ TimedOut(seq)' <=> \E i \in DOMAIN log :
           log[i].packet.seq = seq /\ log[i].outcome = "timeout"
      /\ Acknowledged(seq)' <=> \E i \in DOMAIN log :
           log[i].packet.seq = seq /\ log[i].outcome \in Results
  BY DEF TimedOut, Acknowledged
<1> HIDE DEF old, log, n
<1> QED
  BY <1>1, <1>2, <1>3

\* Of a packet that is committed to nothing has been told.
LEMMA CommittedUntold ==
  ASSUME FateInv, NEW p \in store[A].commitments
  PROVE  /\ ~TimedOut(p.seq) /\ ~Acknowledged(p.seq)
         /\ p \in app[A].sent /\ p \in Packets
         /\ p.seq \in 1..(store[A].nextSend - 1)
<1> DEFINE told == app[A].told
<1>1. p \in app[A].sent /\ \A i \in DOMAIN told : told[i].packet # p
  BY Ends, SMTT(30) DEF FateInv, ToldAsWritten
<1>2. \A i \in DOMAIN told : told[i].packet \in app[A].sent
  BY Ends DEF FateInv, PacketInv, OnlySentTold
<1>3. \A i \in DOMAIN told : told[i].packet.seq # p.seq
  BY <1>1, <1>2, Ends DEF FateInv, PacketInv, SequencesUnique
<1>4. TypeOK
  BY DEF FateInv, PacketInv
<1>5. p \in Packets /\ p.seq \in Nat \ {0} /\ store[A].nextSend \in Nat
  BY <1>1, <1>4, Ends, TypeFacts DEF Apps, Packets, Stores
<1>6. p.seq < store[A].nextSend
  BY <1>1, Ends DEF FateInv, PacketInv, SequencesUnique
<1> QED
  BY <1>1, <1>3, <1>5, <1>6, SMTT(30) DEF TimedOut, Acknowledged

\* What A was told has timed out has not been received.
LEMMA TimedOutUnreceived == FateInv => \A seq : TimedOut(seq) => ~HasReceived(store[B], seq)
<1> SUFFICES ASSUME FateInv, NEW i \in DOMAIN app[A].told, app[A].told[i].outcome = "timeout"
             PROVE  ~HasReceived(store[B], app[A].told[i].packet.seq)
  BY DEF TimedOut
<1> DEFINE p == app[A].told[i].packet
<1>1. TypeOK /\ p \in app[A].sent
  BY Ends DEF FateInv, PacketInv, OnlySentTold
<1>2. app[A].told[i] \in Callbacks
  <2>1. app[A].told \in Seq(Callbacks)
    BY <1>1, Ends, TypeFacts DEF Apps
  <2> QED
    BY <2>1, SMTT(30)
<1>3. app[A].told[i] = [packet |-> p, outcome |-> "timeout"]
  BY <1>2 DEF Callbacks
<1>4. Told(A, p, "timeout")
  BY <1>3 DEF Told
<1> QED
  BY <1>1, <1>4, Ends DEF FateInv, PacketInv, TimeoutFinal

LEMMA TimedOutUnreceivedAfter ==
  FateInv' => (\A seq : TimedOut(seq) => ~HasReceived(store[B], seq))'
BY TimedOutUnreceived, PTL

\* SendPacket is Send: nothing is known of the new packet yet, and an end that is open
\* has seen no timeout on an ordered channel.
LEMMA SendRefines ==
  ASSUME FateInv, FateInv', NEW th, NEW ts, SendPacket(A, th, ts)
  PROVE  FromA!Send
<1> DEFINE n == store[A].nextSend
<1>1. TypeOK /\ TypeOK'
  BY DEF FateInv, PacketInv
<1>2. /\ store[A].state = "OPEN" /\ store'[A].nextSend = n + 1
      /\ app'[A].told = app[A].told /\ store'[B] = store[B]
  BY <1>1, Ends, SendEffect
<1>3. n \in Nat \ {0}
  BY StatusesType
<1>4. ~TimedOut(n) /\ ~Acknowledged(n)
  <2>1. \A i \in DOMAIN app[A].told : app[A].told[i].packet \in app[A].sent
    BY Ends DEF FateInv, PacketInv, OnlySentTold
  <2>2. \A p \in app[A].sent : p.seq < n
    BY Ends DEF FateInv, PacketInv, SequencesUnique
  <2>3. ~(n < n)
    BY <1>3, SMTT(30)
  <2> QED
    BY <2>1, <2>2, <2>3 DEF TimedOut, Acknowledged
<1>5. ~HasReceived(store[B], n)
  <2>1. store[B].nextRecv <= n /\ \A seq \in store[B].receipts : seq < n
    BY Ends DEF FateInv, PacketInv, OnlySentReceived
  <2>2. store[B].nextRecv \in Nat
    BY <1>1, Ends, TypeFacts DEF Stores
  <2> QED
    BY <1>3, <2>1, <2>2, SMTT(30) DEF HasReceived
<1>6. \A seq : Status(seq)' = Status(seq)
  BY <1>2 DEF Status, TimedOut, Acknowledged
<1>7. Status(n) = "sent"
  BY <1>4, <1>5 DEF Status
<1>8. Ordering = "ORDERED" => \A seq : Status(seq) # "timedout"
  BY <1>2, Ends DEF FateInv, ToldInOrder, TimedOut, Status
<1>9. /\ StatusesOf(A) \in [1..(n - 1) -> FromA!Statuses]
      /\ \A seq \in 1..(n - 1) : StatusesOf(A)[seq] = Status(seq)
  BY StatusesType
<1>10. /\ StatusesOf(A)' \in [1..n -> FromA!Statuses]
       /\ \A seq \in 1..n : StatusesOf(A)'[seq] = Status(seq)
  BY <1>2, <1>3, <1>6, StatusesTypeAfter, SMTT(30)
<1> HIDE DEF n
<1>11. StatusesOf(A)' = Append(StatusesOf(A), "sent")
  BY <1>3, <1>7, <1>9, <1>10, SMTT(30)
<1> QED
  BY <1>8, <1>9, <1>11 DEF FromA!Send

\* RecvPacket at B is Deliver: what is received was neither received nor timed out nor
\* acknowledged, and on an ordered channel all before it was received.
LEMMA RecvRefines ==
  ASSUME FateInv, FateInv', NEW p \in app[A].sent, NEW h, NEW result,
         RecvPacket(B, p, h, result)
  PROVE  p.seq \in DOMAIN StatusesOf(A) /\ FromA!Deliver(p.seq)
<1> DEFINE k == p.seq
           n == store[A].nextSend
<1>1. TypeOK /\ p \in Packets
  BY Ends, TypeFacts DEF FateInv, PacketInv, Apps
<1>2. Receives(B, p, result)
  BY <1>1, Ends, RecvEffect
<1>3. /\ store'[A] = store[A] /\ app'[A] = app[A]
      /\ ReplayProtection(store[B], k)
      /\ store'[B].nextRecv = IF Ordering = "ORDERED"
                              THEN store[B].nextRecv + 1 ELSE store[B].nextRecv
      /\ store'[B].receipts = IF Ordering = "ORDERED"
                              THEN store[B].receipts ELSE store[B].receipts \cup {k}
  BY <1>2, Ends DEF Receives
<1>4. /\ k \in Nat \ {0} /\ k < n /\ n \in Nat /\ store[B].nextRecv \in Nat
  BY <1>1, Ends, TypeFacts DEF Packets, Stores, FateInv, PacketInv, SequencesUnique
<1>5. /\ ~HasReceived(store[B], k) /\ HasReceived(store'[B], k)
      /\ \A seq \in Nat : seq # k => (HasReceived(store'[B], seq) <=> HasReceived(store[B], seq))
      /\ Ordering = "ORDERED" => \A seq \in Nat : seq < k => HasReceived(store[B], seq)
  BY <1>3, <1>4, SMTT(30) DEF ReplayProtection, HasReceived
<1>6. \A seq : Acknowledged(seq) => HasReceived(store[B], seq)
  <2> SUFFICES ASSUME NEW i \in DOMAIN app[A].told, app[A].told[i].outcome \in Results
               PROVE  HasReceived(store[B], app[A].told[i].packet.seq)
    BY DEF Acknowledged
  <2> DEFINE ack == [seq |-> app[A].told[i].packet.seq, result |-> app[A].told[i].outcome]
  <2>1. ack \in store[B].acks /\ ack.seq = app[A].told[i].packet.seq
    BY Ends DEF FateInv, ToldAsWritten
  <2> HIDE DEF ack
  <2> QED
    BY <2>1, Ends DEF FateInv, AcknowledgedOnce
<1>7. \A seq : TimedOut(seq) => ~HasReceived(store'[B], seq)
  BY Ends, TimedOutUnreceivedAfter, <1>3 DEF TimedOut
<1>8. \A seq : (TimedOut(seq)' <=> TimedOut(seq)) /\ (Acknowledged(seq)' <=> Acknowledged(seq))
  BY <1>3 DEF TimedOut, Acknowledged
<1>9. Status(k) = "sent" /\ Status(k)' = "delivered"
  BY <1>5, <1>6, <1>7, <1>8 DEF Status
<1>10. \A seq \in 1..(n - 1) : seq # k => Status(seq)' = Status(seq)
  BY <1>5, <1>8, SMTT(30) DEF Status
<1>11. Ordering = "ORDERED" =>
         \A seq \in Nat : seq < k => Status(seq) \in {"delivered", "acknowledged"}
  BY <1>4, <1>5, <1>7 DEF Status
<1>12. k \in 1..(n - 1)
  BY <1>4, SMTT(30)
<1> HIDE DEF k
<1>13. StatusesOf(A)' = [StatusesOf(A) EXCEPT ![k] = "delivered"]
  BY <1>3, <1>9, <1>10, <1>12, OneStatus
<1>14. Ordering = "ORDERED" => \A seq \in 1..(k - 1) :
         StatusesOf(A)[seq] \in {"delivered", "acknowledged"}
  BY <1>4, <1>11, <1>12, StatusesType, SMTT(30)
<1>15. StatusesOf(A)[k] = "sent" /\ k \in DOMAIN StatusesOf(A)
  BY <1>9, <1>12, StatusesType
<1> QED
  BY <1>13, <1>14, <1>15 DEF FromA!Deliver, FromA!Earlier, k

\* A callback to A for a packet that is committed to changes the status of that packet
\* and of no other.
LEMMA TellChangesOne ==
  ASSUME FateInv, FateInv', NEW p \in store[A].commitments, NEW outcome \in Outcomes,
         Tell(A, p, outcome), store'[A].nextSend = store[A].nextSend,
         \A seq : HasReceived(store'[B], seq) <=> HasReceived(store[B], seq)
  PROVE  /\ p.seq \in DOMAIN StatusesOf(A)
         /\ StatusesOf(A)[p.seq] = IF HasReceived(store[B], p.seq) THEN "delivered" ELSE "sent"
         /\ StatusesOf(A)' = [StatusesOf(A) EXCEPT ![p.seq] =
              IF outcome = "timeout" THEN "timedout" ELSE "acknowledged"]
<1> DEFINE k == p.seq
<1>1. /\ ~TimedOut(k) /\ ~Acknowledged(k)
      /\ p \in Packets /\ k \in 1..(store[A].nextSend - 1)
  BY CommittedUntold
<1>2. \A seq : /\ TimedOut(seq)' <=> TimedOut(seq) \/ (seq = k /\ outcome = "timeout")
               /\ Acknowledged(seq)' <=> Acknowledged(seq) \/ (seq = k /\ outcome \in Results)
  BY <1>1, StatusesTold
<1>3. outcome \in Results <=> outcome # "timeout"
  BY DEF Outcomes, Results
<1> HIDE DEF k
<1>4. Status(k)' = IF outcome = "timeout" THEN "timedout" ELSE "acknowledged"
  BY <1>1, <1>2, <1>3 DEF Status
<1>5. Status(k) = IF HasReceived(store[B], k) THEN "delivered" ELSE "sent"
  BY <1>1 DEF Status
<1>6. \A seq : seq # k => Status(seq)' = Status(seq)
  BY <1>2 DEF Status
<1>7. StatusesOf(A)' = [StatusesOf(A) EXCEPT ![k] =
        IF outcome = "timeout" THEN "timedout" ELSE "acknowledged"]
  BY <1>1, <1>4, <1>6, OneStatus
<1>8. k \in DOMAIN StatusesOf(A) /\ StatusesOf(A)[k] = Status(k)
  BY <1>1, StatusesType
<1> QED
  BY <1>5, <1>7, <1>8 DEF k

\* AcknowledgePacket at A is Acknowledge: an acknowledgement that was written is one of
\* a packet that was received, and on an ordered channel all before it are acknowledged.
LEMMA AcknowledgeRefines ==
  ASSUME FateInv, FateInv', NEW p \in app[A].sent, NEW h \in client[A].heights,
         NEW result \in Results, AcknowledgePacket(A, p, h, result)
  PROVE  p.seq \in DOMAIN StatusesOf(A) /\ FromA!Acknowledge(p.seq)
<1>1. TypeOK /\ p \in Packets /\ result \in Outcomes /\ result # "timeout"
  BY Ends, TypeFacts DEF FateInv, PacketInv, Apps, Outcomes, Results
<1>2. /\ store[A].state = "OPEN" /\ p \in store[A].commitments /\ Tell(A, p, result)
      /\ store'[A].nextSend = store[A].nextSend /\ store'[B] = store[B]
  BY <1>1, Ends, AcknowledgeEffect
<1>3. HasReceived(store[B], p.seq)
  <2> DEFINE ack == [seq |-> p.seq, result |-> result]
  <2>1. h \in 1..Height(B)
    BY <1>1, Ends, TypeFacts
  <2>2. ack \in blocks[B][h].root.acks /\ ack.seq = p.seq
    BY Ends DEF AcknowledgePacket, VerifyPacketAcknowledgement, ConsensusState
  <2> HIDE DEF ack
  <2> QED
    BY <2>1, <2>2, Ends DEF FateInv, AcknowledgedOnce
<1>4. /\ p.seq \in DOMAIN StatusesOf(A) /\ StatusesOf(A)[p.seq] = "delivered"
      /\ StatusesOf(A)' = [StatusesOf(A) EXCEPT ![p.seq] = "acknowledged"]
  BY <1>1, <1>2, <1>3, TellChangesOne
<1>5. ASSUME Ordering = "ORDERED", NEW seq \in 1..(p.seq - 1)
      PROVE  StatusesOf(A)[seq] = "acknowledged"
  <2> DEFINE told == app[A].told
  <2>1. p.seq = store[A].nextAck
    BY <1>5 DEF AcknowledgePacket
  <2>2. /\ store[A].nextAck = Len(told) + 1
        /\ \A i \in DOMAIN told : told[i].outcome # "timeout" /\ told[i].packet.seq = i
    BY <1>2, <1>5, Ends DEF FateInv, ToldInOrder
  <2>3. told \in Seq(Callbacks)
    BY <1>1, Ends, TypeFacts DEF Apps
  <2>4. seq \in DOMAIN told /\ told[seq] \in Callbacks
    BY <2>1, <2>2, <2>3, SMTT(30)
  <2>5. told[seq].outcome \in Results
    BY <2>2, <2>4 DEF Callbacks
  <2>6. Acknowledged(seq) /\ ~TimedOut(seq)
    BY <2>2, <2>4, <2>5 DEF Acknowledged, TimedOut
  <2>7. seq \in 1..(store[A].nextSend - 1)
    BY <1>2, CommittedUntold, StatusesType, SMTT(30)
  <2> QED
    BY <2>6, <2>7, StatusesType DEF Status
<1> QED
  BY <1>4, <1>5 DEF FromA!Acknowledge, FromA!Earlier

\* TimeoutPacket and TimeoutOnClose at A are TimeOut: what they prove absent has not
\* been received to this day.
LEMMA TimeoutRefines ==
  ASSUME FateInv, FateInv', NEW p \in app[A].sent, NEW h \in client[A].heights,
         TimeoutPacket(A, p, h) \/ TimeoutOnClose(A, p, h)
  PROVE  p.seq \in DOMAIN StatusesOf(A) /\ FromA!TimeOut(p.seq)
<1>1. TypeOK /\ p \in Packets /\ "timeout" \in Outcomes /\ PacketInv
  BY Ends, TypeFacts DEF FateInv, PacketInv, Apps, Outcomes
<1>2. /\ p \in store[A].commitments /\ Tell(A, p, "timeout")
      /\ store'[A].nextSend = store[A].nextSend /\ store'[B] = store[B]
  BY <1>1, Ends, TimeoutEffect
<1>3. ~HasReceived(store[B], p.seq)
  BY <1>1, Ends, TimeoutIsFinal DEF TimeoutPacket, TimeoutOnClose
<1>4. /\ p.seq \in DOMAIN StatusesOf(A) /\ StatusesOf(A)[p.seq] = "sent"
      /\ StatusesOf(A)' = [StatusesOf(A) EXCEPT ![p.seq] = "timedout"]
  BY <1>1, <1>2, <1>3, TellChangesOne
<1> QED
  BY <1>4 DEF FromA!TimeOut

\* The same handlers at the other end, for the packets B sends, change no status.
LEMMA PacketStepRefines ==
  ASSUME FateInv, FateInv', NEW c \in Chains, PacketStep(c)
  PROVE  FromA!Next \/ StatusesOf(A)' = StatusesOf(A)
<1>1. TypeOK /\ app[A].sent \subseteq Packets /\ app[B].sent \subseteq Packets
  BY Ends, TypeFacts DEF FateInv, PacketInv, Apps
<1>2. ASSUME NEW th, NEW ts, SendPacket(c, th, ts)
      PROVE  FromA!Next \/ StatusesOf(A)' = StatusesOf(A)
  <2>1. CASE c = A
    BY <1>2, <2>1, SendRefines DEF FromA!Next
  <2>2. CASE c = B
    <3>1. /\ store'[A] = store[A] /\ app'[A] = app[A]
          /\ store'[B].nextRecv = store[B].nextRecv /\ store'[B].receipts = store[B].receipts
      BY <1>1, <1>2, <2>2, Ends, SendEffect
    <3> QED
      BY <3>1, SameStatuses DEF HasReceived
  <2> QED
    BY <2>1, <2>2 DEF Chains
<1>3. ASSUME NEW p \in app[Other(c)].sent, NEW h, NEW r, RecvPacket(c, p, h, r)
      PROVE  FromA!Next \/ StatusesOf(A)' = StatusesOf(A)
  <2>1. CASE c = B
    BY <1>3, <2>1, Ends, RecvRefines DEF FromA!Next
  <2>2. CASE c = A
    <3>1. Receives(A, p, r)
      BY <1>1, <1>3, <2>2, Ends, RecvEffect
    <3>2. /\ store'[B] = store[B] /\ app'[A].told = app[A].told
          /\ store'[A].nextSend = store[A].nextSend
      BY <3>1, Ends DEF Receives
    <3> QED
      BY <3>2, SameStatuses
  <2> QED
    BY <2>1, <2>2 DEF Chains
<1>4. ASSUME NEW seq, NEW r, WriteAcknowledgement(c, seq, r)
      PROVE  FromA!Next \/ StatusesOf(A)' = StatusesOf(A)
  <2>1. /\ app' = app /\ store'[A].nextSend = store[A].nextSend
        /\ store'[B].nextRecv = store[B].nextRecv /\ store'[B].receipts = store[B].receipts
    BY <1>1, <1>4, Ends, WriteAcknowledgementEffect
  <2> QED
    BY <2>1, SameStatuses DEF HasReceived
<1>5. ASSUME NEW p \in app[c].sent, NEW h \in client[c].heights, NEW r \in Results,
             AcknowledgePacket(c, p, h, r)
      PROVE  FromA!Next \/ StatusesOf(A)' = StatusesOf(A)
  <2>1. CASE c = A
    BY <1>5, <2>1, AcknowledgeRefines DEF FromA!Next
  <2>2. CASE c = B
    <3>1. /\ Tell(B, p, r) /\ store'[A] = store[A]
          /\ store'[B].nextRecv = store[B].nextRecv /\ store'[B].receipts = store[B].receipts
      BY <1>1, <1>5, <2>2, Ends, AcknowledgeEffect
    <3>2. app'[A] = app[A]
      BY <1>1, <3>1, Ends DEF Tell, TypeOK
    <3> QED
      BY <3>1, <3>2, SameStatuses DEF HasReceived
  <2> QED
    BY <2>1, <2>2 DEF Chains
<1>6. ASSUME NEW p \in app[c].sent, NEW h \in client[c].heights,
             TimeoutPacket(c, p, h) \/ TimeoutOnClose(c, p, h)
      PROVE  FromA!Next \/ StatusesOf(A)' = StatusesOf(A)
  <2>1. CASE c = A
    BY <1>6, <2>1, TimeoutRefines DEF FromA!Next
  <2>2. CASE c = B
    <3>1. /\ Tell(B, p, "timeout") /\ store'[A] = store[A]
          /\ store'[B].nextRecv = store[B].nextRecv /\ store'[B].receipts = store[B].receipts
      BY <1>1, <1>6, <2>2, Ends, TimeoutEffect
    <3>2. app'[A] = app[A]
      BY <1>1, <3>1, Ends DEF Tell, TypeOK
    <3> QED
      BY <3>1, <3>2, SameStatuses DEF HasReceived
  <2> QED
    BY <2>1, <2>2 DEF Chains
<1> QED
  BY <1>2, <1>3, <1>4, <1>5, <1>6 DEF PacketStep

LEMMA NextRefines ==
  ASSUME FateInv, FateInv', [Next]_vars
  PROVE  [FromA!Next]_(StatusesOf(A))
<1>1. TypeOK
  BY DEF FateInv, PacketInv
<1>2. ASSUME UNCHANGED <<store, app>> PROVE StatusesOf(A)' = StatusesOf(A)
  BY <1>2, SameStatuses
<1>3. ASSUME NEW c \in Chains, ChannelStep(c) PROVE StatusesOf(A)' = StatusesOf(A)
  <2>1. /\ app' = app /\ store'[A].nextSend = store[A].nextSend
        /\ store'[B].nextRecv = store[B].nextRecv /\ store'[B].receipts = store[B].receipts
    BY <1>1, <1>3, Ends, ChannelEffect
  <2> QED
    BY <2>1, SameStatuses DEF HasReceived
<1>4. ASSUME NEW c \in Chains, NextBlock(c) \/ ClientStep(c)
      PROVE  UNCHANGED <<store, app>>
  BY <1>4 DEF NextBlock, ClientStep, LoseClient, UpdateClient, ClientUpdateProposal
<1> QED
  BY <1>2, <1>3, <1>4, PacketStepRefines DEF Next, vars

\* The two chains, their clients and their relayers implement PacketLifecycle for the
\* packets A sends, with the status of a packet read off its callbacks and its receipt.
THEOREM RefinesLifecycle == Spec => LifecycleFromA
<1>1. Init => FromA!Init
  <2> SUFFICES ASSUME Init PROVE StatusesOf(A) = <<>>
    BY DEF FromA!Init
  <2>1. store[A].nextSend = 1
    BY Ends DEF Init, EmptyStore
  <2> QED
    BY <2>1, SMTT(30) DEF StatusesOf
<1>2. FateInv /\ FateInv' /\ [Next]_vars => [FromA!Next]_(StatusesOf(A))
  BY NextRefines
<1> QED
  BY <1>1, <1>2, FateInvariance, PTL DEF Spec, LifecycleFromA, FromA!Spec
=============================================================================
