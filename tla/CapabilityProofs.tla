-------------------------- MODULE CapabilityProofs --------------------------
(***************************************************************************)
(* Capabilities, for any modules, names, transactions, failures and        *)
(* restarts: CapabilityInv is inductive, when modules use one name per     *)
(* capability; and only transactions change owners.                        *)
(***************************************************************************)
EXTENDS Capability, FiniteSetTheorems, TLAPS

\* Zenon checks most of the leaves; those that calculate cite SMT.
USE ZenonT(40)

Owner == Modules \X Names

\* What TypeOK says of the stores.
LEMMA Types ==
  ASSUME TypeOK
  PROVE  /\ MaxIndex \in Nat /\ MaxAddress \in Nat /\ allocated \in Nat /\ None \notin Names
         /\ store.index \in 1..MaxIndex + 1 /\ store.owners \in [Indices -> SUBSET Owner]
         /\ \A i \in Indices : capMap[i] \in 0..MaxAddress
<1>1. store \in Stores /\ capMap \in [Indices -> 0..MaxAddress] /\ allocated \in 0..MaxAddress
  BY DEF TypeOK
<1>2. MaxIndex \in Nat /\ MaxAddress \in Nat /\ None \notin Names
  BY CapabilityAssumption DEF None
<1>3. store.index \in 1..MaxIndex + 1 /\ store.owners \in [Indices -> SUBSET Owner]
  BY <1>1 DEF Stores, Owner
<1> QED
  BY <1>1, <1>2, <1>3, SMTT(30)

WithNames(memory, module, address, label, name, index) ==
  [memory EXCEPT !.fwd[<<module, address>>] = label, !.rev[<<module, name>>] = index]

\* What NewCapability, ClaimCapability and ReleaseCapability write to the memory store.
LEMMA NamesSet ==
  ASSUME NEW memory \in Memories, NEW module \in Modules, NEW address \in Addresses,
         NEW label \in Names \union {None}, NEW name \in Names, NEW index \in 0..MaxIndex
  PROVE  LET new == WithNames(memory, module, address, label, name, index) IN
         /\ new \in Memories /\ new.initialized = memory.initialized
         /\ \A m \in Modules, a \in Addresses :
              new.fwd[<<m, a>>] = IF m = module /\ a = address THEN label ELSE memory.fwd[<<m, a>>]
         /\ \A m \in Modules, n \in Names :
              new.rev[<<m, n>>] = IF m = module /\ n = name THEN index ELSE memory.rev[<<m, n>>]
<1> DEFINE fwd == [memory.fwd EXCEPT ![<<module, address>>] = label]
           rev == [memory.rev EXCEPT ![<<module, name>>] = index]
           new == [memory EXCEPT !.fwd = fwd, !.rev = rev]
<1>1. /\ memory.fwd \in [Modules \X Addresses -> Names \union {None}]
      /\ memory.rev \in [Modules \X Names -> 0..MaxIndex]
  BY DEF Memories
<1>2. /\ fwd \in [Modules \X Addresses -> Names \union {None}]
      /\ \A m \in Modules, a \in Addresses :
           fwd[<<m, a>>] = IF m = module /\ a = address THEN label ELSE memory.fwd[<<m, a>>]
  BY <1>1
<1>3. /\ rev \in [Modules \X Names -> 0..MaxIndex]
      /\ \A m \in Modules, n \in Names :
           rev[<<m, n>>] = IF m = module /\ n = name THEN index ELSE memory.rev[<<m, n>>]
  BY <1>1
<1>4. new = WithNames(memory, module, address, label, name, index)
  BY DEF WithNames, Memories
<1> HIDE DEF fwd, rev
<1>5. new \in Memories /\ new.initialized = memory.initialized /\ new.fwd = fwd /\ new.rev = rev
  BY <1>2, <1>3 DEF Memories
<1> HIDE DEF new
<1> QED
  BY <1>2, <1>3, <1>4, <1>5

LEMMA NamesCleared ==
  ASSUME NEW memory \in Memories, NEW module \in Modules, NEW address \in Addresses,
         NEW name \in Names
  PROVE  LET new == WithNames(memory, module, address, None, name, None) IN
         /\ new \in Memories /\ new.initialized = memory.initialized
         /\ \A m \in Modules, a \in Addresses :
              new.fwd[<<m, a>>] = IF m = module /\ a = address THEN None ELSE memory.fwd[<<m, a>>]
         /\ \A m \in Modules, n \in Names :
              new.rev[<<m, n>>] = IF m = module /\ n = name THEN None ELSE memory.rev[<<m, n>>]
<1>1. PICK label \in Names \union {None}, index \in 0..MaxIndex : label = None /\ index = None
  BY CapabilityAssumption, SMTT(30) DEF None
<1>2. LET new == WithNames(memory, module, address, label, name, index) IN
      /\ new \in Memories /\ new.initialized = memory.initialized
      /\ \A m \in Modules, a \in Addresses :
           new.fwd[<<m, a>>] = IF m = module /\ a = address THEN label ELSE memory.fwd[<<m, a>>]
      /\ \A m \in Modules, n \in Names :
           new.rev[<<m, n>>] = IF m = module /\ n = name THEN index ELSE memory.rev[<<m, n>>]
  BY NamesSet, SMTT(30)
<1> QED
  BY <1>1, <1>2

WithOwners(persistent, index, owners) == [persistent EXCEPT !.owners[index] = owners]

LEMMA OwnersSet ==
  ASSUME NEW persistent \in Stores, NEW index \in Indices, NEW owners \in SUBSET Owner
  PROVE  LET new == WithOwners(persistent, index, owners) IN
         /\ new \in Stores /\ new.index = persistent.index
         /\ new.owners[index] = owners
         /\ \A i \in Indices : i # index => new.owners[i] = persistent.owners[i]
<1> DEFINE all == [persistent.owners EXCEPT ![index] = owners]
           new == [persistent EXCEPT !.owners = all]
<1>1. /\ all \in [Indices -> SUBSET (Modules \X Names)] /\ all[index] = owners
      /\ \A i \in Indices : i # index => all[i] = persistent.owners[i]
  BY DEF Stores, Owner
<1>2. new = WithOwners(persistent, index, owners)
  BY DEF WithOwners, Stores
<1> HIDE DEF all
<1>3. new \in Stores /\ new.index = persistent.index /\ new.owners = all
  BY <1>1 DEF Stores
<1> HIDE DEF new
<1> QED
  BY <1>1, <1>2, <1>3

\* What a capability with an object authenticates to is a name by which it is owned.
LEMMA OwnedIsFound ==
  ASSUME TypeOK, NEW memory \in Memories, NEW persistent \in Stores, NEW gone,
         Consistent(memory, persistent, gone),
         NEW m \in Modules, NEW i \in Indices, persistent.owners[i] # {}, capMap[i] # None,
         memory.fwd[<<m, capMap[i]>>] # None
  PROVE  /\ memory.fwd[<<m, capMap[i]>>] \in Names
         /\ <<m, memory.fwd[<<m, capMap[i]>>]>> \in persistent.owners[i]
<1>1. capMap[i] \in Addresses
  BY Types, SMTT(30) DEF Addresses, None
<1>2. memory.fwd[<<m, capMap[i]>>] \in Names
  BY <1>1 DEF Memories
<1>3. \A n \in Names : memory.fwd[<<m, capMap[i]>>] = n <=> <<m, n>> \in persistent.owners[i]
  BY SMTT(30) DEF Consistent, MemoryFollowsStore, AuthenticateCapability
<1> QED
  BY <1>2, <1>3

\* What Consistent says, with the map and the bound of the objects as parameters.
ConsistentWith(map, top, memory, persistent, gone) ==
  /\ \A m \in Modules, n \in Names :
       memory.rev[<<m, n>>] # None =>
         map[memory.rev[<<m, n>>]] # None \/ memory.rev[<<m, n>>] \in gone
  /\ \A m \in Modules, n \in Names, i \in Indices :
       /\ memory.rev[<<m, n>>] = i <=> <<m, n>> \in persistent.owners[i]
       /\ map[i] # None /\ persistent.owners[i] # {} =>
            (memory.fwd[<<m, map[i]>>] = n <=> <<m, n>> \in persistent.owners[i])
  /\ \A m \in Modules, a \in Addresses : a > top => memory.fwd[<<m, a>>] = None

LEMMA Spelled ==
  ASSUME NEW memory, NEW persistent, NEW gone
  PROVE  Consistent(memory, persistent, gone) <=>
           ConsistentWith(capMap, allocated, memory, persistent, gone)
  BY SMTT(30) DEF Consistent, ConsistentWith, NotMissingFromMap, MemoryFollowsStore,
         NoneUnallocated, AuthenticateCapability

\* What a transaction goes back to if it fails is without these objects.
Gone == lost \union tx.dropped

LEMMA SpelledNext ==
  /\ Consistent(mem, store, lost)' <=> ConsistentWith(capMap', allocated', mem', store', lost')
  /\ Consistent(tx.mem, tx.store, lost \union tx.dropped)' <=>
       ConsistentWith(capMap', allocated', tx'.mem, tx'.store, Gone')
<1>1. Consistent(mem, store, lost)' <=> ConsistentWith(capMap', allocated', mem', store', lost')
  BY SMTT(30) DEF Consistent, ConsistentWith, NotMissingFromMap, MemoryFollowsStore,
         NoneUnallocated, AuthenticateCapability
<1>2. Consistent(tx.mem, tx.store, lost \union tx.dropped)' <=>
        ConsistentWith(capMap', allocated', tx'.mem, tx'.store, Gone')
  BY SMTT(30) DEF Consistent, ConsistentWith, NotMissingFromMap, MemoryFollowsStore,
         NoneUnallocated, AuthenticateCapability, Gone
<1> QED
  BY <1>1, <1>2

LEMMA InMemory ==
  ASSUME NEW map, NEW top, NEW memory, NEW persistent, NEW gone,
         ConsistentWith(map, top, memory, persistent, gone),
         NEW m \in Modules, NEW n \in Names
  PROVE  \A i \in Indices : memory.rev[<<m, n>>] = i <=> <<m, n>> \in persistent.owners[i]
  BY DEF ConsistentWith

\* An object for an index that nobody owns does not matter to what is consistent.
LEMMA MapGrows ==
  ASSUME NEW map \in [Indices -> 0..MaxAddress], NEW top \in Nat, NEW memory \in Memories,
         NEW persistent, NEW gone, ConsistentWith(map, top, memory, persistent, gone),
         NEW k \in Indices, persistent.owners[k] = {}, NEW a \in Addresses, top <= a
  PROVE  ConsistentWith([map EXCEPT ![k] = a], a, memory, persistent, gone)
<1> DEFINE new == [map EXCEPT ![k] = a]
<1>1. a # None /\ k # None
  BY CapabilityAssumption, SMTT(30) DEF Addresses, Indices, None
<1>2. new[k] = a /\ \A i \in Indices : i # k => new[i] = map[i]
  OBVIOUS
<1> HIDE DEF new
<1>3. ASSUME NEW m \in Modules, NEW n \in Names, memory.rev[<<m, n>>] # None
      PROVE  new[memory.rev[<<m, n>>]] # None \/ memory.rev[<<m, n>>] \in gone
  <2>1. memory.rev[<<m, n>>] # k
    BY DEF ConsistentWith
  <2>2. map[memory.rev[<<m, n>>]] # None \/ memory.rev[<<m, n>>] \in gone
    BY <1>3 DEF ConsistentWith
  <2>3. memory.rev[<<m, n>>] \in Indices
    BY <1>3, CapabilityAssumption, SMTT(30) DEF Memories, Indices, None
  <2> QED
    BY <1>2, <2>1, <2>2, <2>3
<1>4. \A b \in Addresses : b > a => b > top
  BY CapabilityAssumption, SMTT(30) DEF Addresses
<1>5. ASSUME NEW m \in Modules, NEW n \in Names, NEW i \in Indices
      PROVE  /\ memory.rev[<<m, n>>] = i <=> <<m, n>> \in persistent.owners[i]
             /\ new[i] # None /\ persistent.owners[i] # {} =>
                  (memory.fwd[<<m, new[i]>>] = n <=> <<m, n>> \in persistent.owners[i])
  <2>1. CASE i = k
    BY <2>1 DEF ConsistentWith
  <2>2. CASE i # k
    BY <1>2, <2>2, SMTT(30) DEF ConsistentWith
  <2> QED
    BY <2>1, <2>2
<1>6. \A m \in Modules, b \in Addresses : b > a => memory.fwd[<<m, b>>] = None
  BY <1>4 DEF ConsistentWith
<1>7. ConsistentWith(new, a, memory, persistent, gone)
  BY <1>3, <1>5, <1>6 DEF ConsistentWith
<1> QED
  BY <1>7 DEF new

\* What stays consistent when objects of indices known to be gone leave the map.
LEMMA MapShrinks ==
  ASSUME NEW map, NEW new, NEW top, NEW memory \in Memories, NEW persistent,
         NEW gone, NEW more, ConsistentWith(map, top, memory, persistent, gone),
         gone \subseteq more,
         \A i \in Indices : new[i] = map[i] \/ (new[i] = None /\ i \in more)
  PROVE  ConsistentWith(new, top, memory, persistent, more)
<1>1. ASSUME NEW m \in Modules, NEW n \in Names, memory.rev[<<m, n>>] # None
      PROVE  new[memory.rev[<<m, n>>]] # None \/ memory.rev[<<m, n>>] \in more
  <2>1. map[memory.rev[<<m, n>>]] # None \/ memory.rev[<<m, n>>] \in gone
    BY <1>1 DEF ConsistentWith
  <2>2. memory.rev[<<m, n>>] \in Indices
    BY <1>1, CapabilityAssumption, SMTT(30) DEF Memories, Indices, None
  <2> QED
    BY <2>1, <2>2
<1>2. ASSUME NEW m \in Modules, NEW n \in Names, NEW i \in Indices
      PROVE  /\ memory.rev[<<m, n>>] = i <=> <<m, n>> \in persistent.owners[i]
             /\ new[i] # None /\ persistent.owners[i] # {} =>
                  (memory.fwd[<<m, new[i]>>] = n <=> <<m, n>> \in persistent.owners[i])
  <2>1. CASE new[i] = None
    BY <2>1 DEF ConsistentWith
  <2>2. CASE new[i] = map[i]
    BY <2>2, SMTT(30) DEF ConsistentWith
  <2> QED
    BY <2>1, <2>2
<1> QED
  BY <1>1, <1>2 DEF ConsistentWith

\* What the invariant says while a transaction runs.
LEMMA InTx ==
  ASSUME CapabilityInv, tx.active
  PROVE  /\ TypeOK /\ ObjectsDiffer /\ WellNamed(store) /\ mem.initialized /\ TxConsistent
         /\ store \in Stores /\ mem \in Memories /\ capMap \in [Indices -> 0..MaxAddress]
         /\ tx \in [active : BOOLEAN, held : SUBSET [address : Addresses, index : Indices],
                    dropped : SUBSET Indices, store : Stores, mem : Memories]
         /\ ConsistentWith(capMap, allocated, mem, store, lost)
         /\ tx.store \in Stores /\ tx.mem \in Memories /\ lost \subseteq Indices
         /\ ConsistentWith(capMap, allocated, tx.mem, tx.store, Gone)
<1>1. TypeOK /\ ObjectsDiffer /\ WellNamed(store) /\ TxConsistent
  BY DEF CapabilityInv
<1>2. mem.initialized
  BY <1>1 DEF TxConsistent
<1>3. Consistent(mem, store, lost) /\ Consistent(tx.mem, tx.store, Gone)
  BY <1>1, <1>2 DEF CapabilityInv, TxConsistent, Gone
<1>4. /\ store \in Stores /\ mem \in Memories /\ lost \subseteq Indices /\ capMap \in [Indices -> 0..MaxAddress]
      /\ tx \in [active : BOOLEAN, held : SUBSET [address : Addresses, index : Indices],
                 dropped : SUBSET Indices, store : Stores, mem : Memories]
  BY <1>1 DEF TypeOK
<1>5. tx.store \in Stores /\ tx.mem \in Memories
  BY <1>4
<1> QED
  BY <1>1, <1>2, <1>3, <1>4, <1>5, Spelled

\* What has to be shown of a step that leaves a transaction running.
LEMMA StillInTx ==
  ASSUME TypeOK', ObjectsDiffer', WellNamed(store)', tx'.active,
         ConsistentWith(capMap', allocated', mem', store', lost'), mem'.initialized,
         tx'.store = tx.store, tx'.mem = tx.mem, TxConsistent,
         \A cap \in tx'.held : capMap'[cap.index] = cap.address /\ store'.owners[cap.index] # {},
         tx.store.index <= store'.index,
         ConsistentWith(capMap', allocated', tx.mem, tx.store, Gone')
  PROVE  CapabilityInv'
<1>1. Consistent(mem, store, lost)' /\ Consistent(tx.mem, tx.store, lost \union tx.dropped)'
  BY SpelledNext
<1>2. WellNamed(tx.store)'
  BY DEF TxConsistent, WellNamed
<1>3. tx'.mem.initialized
  BY DEF TxConsistent
<1>4. TxConsistent'
  BY <1>1, <1>2, <1>3 DEF TxConsistent
<1> QED
  BY <1>1, <1>4 DEF CapabilityInv

LEMMA GetInv ==
  ASSUME CapabilityInv, tx.active, NEW module \in Modules, NEW name \in Names,
         GetCapability(module, name)
  PROVE  CapabilityInv'
<1> DEFINE index == mem.rev[<<module, name>>]
           cap == [address |-> capMap[index], index |-> index]
<1>1. index # None /\ capMap[index] # None /\ UNCHANGED <<store, mem, capMap, allocated, lost>>
  BY DEF GetCapability
<1>2. tx' = [tx EXCEPT !.held = @ \union {cap}]
  BY DEF GetCapability, Hold
<1>3. index \in Indices
  BY <1>1, InTx, CapabilityAssumption, SMTT(30) DEF Memories, Indices, None
<1>4. capMap[index] \in Addresses
  BY <1>1, <1>3, InTx, CapabilityAssumption, SMTT(30) DEF Addresses, None
<1>5. /\ cap \in [address : Addresses, index : Indices]
      /\ cap.index = index /\ cap.address = capMap[index]
  BY <1>3, <1>4
<1> HIDE DEF cap
<1>6. /\ tx' \in [active : BOOLEAN, held : SUBSET [address : Addresses, index : Indices],
                  dropped : SUBSET Indices, store : Stores, mem : Memories]
      /\ tx'.active /\ tx'.store = tx.store /\ tx'.mem = tx.mem /\ tx'.dropped = tx.dropped
      /\ tx'.held = tx.held \union {cap}
  BY <1>2, <1>5, InTx
<1>7. <<module, name>> \in store.owners[index]
  <2>1. \A i \in Indices : index = i => <<module, name>> \in store.owners[i]
    BY InTx DEF ConsistentWith
  <2> QED
    BY <1>3, <2>1
<1>8. \A c \in tx'.held : capMap'[c.index] = c.address /\ store'.owners[c.index] # {}
  BY <1>1, <1>5, <1>6, <1>7, InTx DEF TxConsistent
<1>9. TypeOK' /\ ObjectsDiffer' /\ WellNamed(store)'
  BY <1>1, <1>6, InTx DEF TypeOK, ObjectsDiffer, WellNamed
<1>10. Gone' = Gone
  BY <1>1, <1>6 DEF Gone
<1> QED
  BY <1>1, <1>6, <1>8, <1>9, <1>10, InTx, StillInTx DEF TxConsistent

LEMMA NewInv ==
  ASSUME CapabilityInv, tx.active, Room, NEW module \in Modules, NEW name \in Names,
         NewCapability(module, name)
  PROVE  CapabilityInv'
<1> DEFINE k == store.index
           a == allocated + 1
           cap == [address |-> a, index |-> k]
           owner == <<module, name>>
<1>1. /\ k \in Indices /\ a \in Addresses /\ a # None /\ allocated \in Nat /\ allocated < a
      /\ allocated <= a /\ MaxIndex \in Nat /\ MaxAddress \in Nat
  <2>1. TypeOK
    BY InTx
  <2>2. MaxIndex \in Nat /\ MaxAddress \in Nat /\ allocated \in Nat /\ k \in 1..MaxIndex + 1
    BY <2>1, Types
  <2>3. k <= MaxIndex /\ allocated < MaxAddress
    BY DEF Room
  <2> QED
    BY <2>2, <2>3, SMTT(30) DEF Indices, Addresses, None
<1>2. store.owners[k] = {}
  <2>1. k >= store.index
    BY <1>1, SMTT(30) DEF Indices
  <2> HIDE DEF k
  <2> QED
    BY <1>1, <2>1, InTx DEF WellNamed
<1>3. owner \in Owner /\ store.owners[k] \union {owner} = {owner}
  BY <1>2 DEF Owner
<1>4. \A i \in Indices : owner \notin store.owners[i]
  <2>1. mem.rev[owner] = None
    BY DEF NewCapability
  <2>2. \A i \in Indices : i # None
    BY CapabilityAssumption, SMTT(30) DEF Indices, None
  <2> QED
    BY <2>1, <2>2, InTx, InMemory, SMTT(30)
<1>5. /\ mem' \in Memories /\ mem'.initialized = mem.initialized
      /\ \A m \in Modules, b \in Addresses :
           mem'.fwd[<<m, b>>] = IF m = module /\ b = a THEN name ELSE mem.fwd[<<m, b>>]
      /\ \A m \in Modules, n \in Names :
           mem'.rev[<<m, n>>] = IF m = module /\ n = name THEN k ELSE mem.rev[<<m, n>>]
  <2>1. mem' = WithNames(mem, module, a, name, name, k)
    BY DEF NewCapability, WithNames
  <2>2. k \in 0..MaxIndex
    BY <1>1, SMTT(30) DEF Indices
  <2> QED
    BY <1>1, <2>1, <2>2, InTx, NamesSet, SMTT(30)
<1>6. /\ store' \in Stores /\ store'.index = k + 1 /\ store'.owners[k] = {owner}
      /\ \A i \in Indices : i # k => store'.owners[i] = store.owners[i]
  <2> DEFINE owners == [store.owners EXCEPT ![k] = {owner}]
  <2>1. /\ owners \in [Indices -> SUBSET (Modules \X Names)] /\ owners[k] = {owner}
        /\ \A i \in Indices : i # k => owners[i] = store.owners[i]
    BY <1>1, <1>3, InTx DEF Stores, Owner
  <2>2. store' = [index |-> k + 1, owners |-> owners]
    BY <1>3 DEF NewCapability
  <2>3. k + 1 \in 1..MaxIndex + 1
    BY <1>1, SMTT(30) DEF Indices
  <2> HIDE DEF owners
  <2>4. store'.index = k + 1 /\ store'.owners = owners
    BY <2>2
  <2> QED
    BY <2>1, <2>2, <2>3, <2>4 DEF Stores
<1>7. allocated' = a /\ capMap' = [capMap EXCEPT ![k] = a] /\ lost' = lost
  BY DEF NewCapability
<1>8. /\ capMap' \in [Indices -> 0..MaxAddress] /\ capMap'[k] = a
      /\ \A i \in Indices : i # k => capMap'[i] = capMap[i]
  <2>1. a \in 0..MaxAddress
    BY <1>1, SMTT(30) DEF Addresses
  <2> QED
    BY <1>1, <1>7, <2>1, InTx
<1>9. /\ tx' \in [active : BOOLEAN, held : SUBSET [address : Addresses, index : Indices],
                  dropped : SUBSET Indices, store : Stores, mem : Memories]
      /\ tx'.active /\ tx'.store = tx.store /\ tx'.mem = tx.mem /\ tx'.dropped = tx.dropped
      /\ tx'.held = tx.held \union {cap}
  <2>1. tx' = [tx EXCEPT !.held = @ \union {cap}]
    BY DEF NewCapability, Hold
  <2>2. cap \in [address : Addresses, index : Indices]
    BY <1>1
  <2> HIDE DEF cap
  <2> QED
    BY <2>1, <2>2, InTx
<1>10. TypeOK'
  <2>1. a \in 0..MaxAddress
    BY <1>1, SMTT(30) DEF Addresses
  <2> QED
    BY <1>5, <1>6, <1>7, <1>8, <1>9, <2>1, InTx DEF TypeOK
<1>11. ObjectsDiffer'
  <2>1. \A i \in Indices : capMap[i] \in Nat /\ capMap[i] <= allocated
    BY <1>1, InTx, SMTT(30) DEF ObjectsDiffer
  <2>2. \A i \in Indices : capMap'[i] \in Nat /\ capMap'[i] <= a /\ (i # k => capMap'[i] # a)
    BY <1>1, <1>8, <2>1, SMTT(30)
  <2>3. ASSUME NEW i \in Indices, NEW j \in Indices, capMap'[i] = capMap'[j], capMap'[i] # None
        PROVE  i = j
    BY <1>8, <2>2, <2>3, InTx DEF ObjectsDiffer
  <2> QED
    BY <1>7, <2>2, <2>3 DEF ObjectsDiffer
<1>12. WellNamed(store)'
  <2>1. ASSUME NEW i \in Indices, i >= store'.index
        PROVE  store'.owners[i] = {}
    <3>1. i >= k /\ i # k
      BY <1>1, <1>6, <2>1, SMTT(30) DEF Indices
    <3> QED
      BY <1>6, <3>1, InTx DEF WellNamed
  <2>2. ASSUME NEW i \in Indices, NEW m \in Modules, NEW n \in Names, <<m, n>> \in store'.owners[i]
        PROVE  /\ \A other \in Names : <<m, other>> \in store'.owners[i] => other = n
               /\ \A j \in Indices : <<m, n>> \in store'.owners[j] => j = i
    <3>1. CASE i = k
      <4>1. m = module /\ n = name
        BY <1>6, <2>2, <3>1
      <4> QED
        BY <1>4, <1>6, <3>1, <4>1
    <3>2. CASE i # k
      <4>1. <<m, n>> \in store.owners[i] /\ <<m, n>> # owner
        BY <1>4, <1>6, <2>2, <3>2
      <4> QED
        BY <1>6, <3>2, <4>1, InTx DEF WellNamed
    <3> QED
      BY <3>1, <3>2
  <2> QED
    BY <2>1, <2>2 DEF WellNamed
<1>13. ConsistentWith(capMap', a, mem, store, lost)
  <2>1. ConsistentWith(capMap, allocated, mem, store, lost)
    BY InTx
  <2> HIDE DEF k, a
  <2> QED
    BY <1>1, <1>2, <1>7, <2>1, InTx, MapGrows
<1>14. ConsistentWith(capMap', allocated', mem', store', lost')
  <2>1. ASSUME NEW m \in Modules, NEW n \in Names, mem'.rev[<<m, n>>] # None
        PROVE  capMap'[mem'.rev[<<m, n>>]] # None \/ mem'.rev[<<m, n>>] \in lost'
    BY <1>1, <1>5, <1>7, <1>8, <1>13, <2>1, SMTT(30) DEF ConsistentWith
  <2>2. ASSUME NEW m \in Modules, NEW n \in Names, NEW i \in Indices
        PROVE  mem'.rev[<<m, n>>] = i <=> <<m, n>> \in store'.owners[i]
    <3>1. CASE m = module /\ n = name
      BY <1>4, <1>5, <1>6, <3>1
    <3>2. CASE ~(m = module /\ n = name)
      <4>1. mem'.rev[<<m, n>>] = mem.rev[<<m, n>>]
        BY <1>5, <3>2
      <4>2. <<m, n>> \in store'.owners[i] <=> <<m, n>> \in store.owners[i]
        BY <1>2, <1>6, <3>2, SMTT(30)
      <4> QED
        BY <4>1, <4>2, InTx, InMemory, SMTT(30)
    <3> QED
      BY <3>1, <3>2
  <2>3. ASSUME NEW m \in Modules, NEW n \in Names, NEW i \in Indices, capMap'[i] # None,
               store'.owners[i] # {}
        PROVE  mem'.fwd[<<m, capMap'[i]>>] = n <=> <<m, n>> \in store'.owners[i]
    <3>1. CASE i = k
      <4>1. mem.fwd[<<m, a>>] = None /\ n # None
        BY <1>1, InTx, Types, SMTT(30) DEF ConsistentWith
      <4>2. <<m, n>> \in store'.owners[i] <=> m = module /\ n = name
        BY <1>6, <3>1
      <4>3. mem'.fwd[<<m, a>>] = n <=> m = module /\ n = name
        BY <1>1, <1>5, <4>1
      <4> QED
        BY <1>8, <3>1, <4>2, <4>3
    <3>2. CASE i # k
      <4>1. capMap'[i] = capMap[i] /\ store'.owners[i] = store.owners[i]
        BY <1>6, <1>8, <3>2
      <4>2. capMap[i] \in Addresses /\ capMap[i] # a
        <5>1. capMap[i] <= allocated /\ capMap[i] \in 0..MaxAddress /\ capMap[i] # 0
          BY <2>3, <4>1, InTx DEF ObjectsDiffer, None
        <5> QED
          BY <1>1, <5>1, SMTT(30) DEF Addresses
      <4>3. mem'.fwd[<<m, capMap[i]>>] = mem.fwd[<<m, capMap[i]>>]
        BY <1>5, <4>2
      <4> QED
        BY <2>3, <4>1, <4>3, InTx, SMTT(30) DEF ConsistentWith
    <3> QED
      BY <3>1, <3>2
  <2>4. ASSUME NEW m \in Modules, NEW b \in Addresses, b > allocated'
        PROVE  mem'.fwd[<<m, b>>] = None
    <3>1. b > allocated /\ b # a
      BY <1>1, <1>7, <2>4, SMTT(30) DEF Addresses
    <3> QED
      BY <1>5, <3>1, InTx, SMTT(30) DEF ConsistentWith
  <2> QED
    BY <2>1, <2>2, <2>3, <2>4 DEF ConsistentWith
<1>15. tx.store.index <= k /\ tx.store.index \in Nat /\ tx.store.owners[k] = {}
  <2>1. tx.store.index <= k /\ WellNamed(tx.store)
    BY InTx DEF TxConsistent
  <2>2. tx.store.index \in Nat
    BY <1>1, InTx, SMTT(30) DEF Stores
  <2> QED
    BY <1>1, <2>1, <2>2 DEF WellNamed, Indices
<1>16. ConsistentWith(capMap', allocated', tx.mem, tx.store, Gone')
  <2> SUFFICES ConsistentWith(capMap', a, tx.mem, tx.store, Gone)
    BY <1>7, <1>9 DEF Gone
  <2>1. ConsistentWith(capMap, allocated, tx.mem, tx.store, Gone)
    BY InTx
  <2> HIDE DEF k, a
  <2> QED
    BY <1>1, <1>7, <1>15, <2>1, InTx, MapGrows
<1>17. ASSUME NEW c \in tx'.held
       PROVE  capMap'[c.index] = c.address /\ store'.owners[c.index] # {}
  <2>1. CASE c = cap
    BY <1>6, <1>8, <2>1
  <2>2. CASE c \in tx.held
    <3>1. capMap[c.index] = c.address /\ store.owners[c.index] # {} /\ c.index \in Indices
      BY <2>2, InTx DEF TxConsistent
    <3> QED
      BY <1>2, <1>6, <1>8, <3>1
  <2> QED
    BY <1>9, <2>1, <2>2
<1>18. tx.store.index <= store'.index
  BY <1>1, <1>6, <1>15, SMTT(30) DEF Indices
<1> QED
  BY <1>5, <1>9, <1>10, <1>11, <1>12, <1>14, <1>16, <1>17, <1>18, InTx, StillInTx

\* A capability that a transaction holds is owned, and its object is the one in the map.
LEMMA HeldCap ==
  ASSUME CapabilityInv, tx.active, NEW cap \in tx.held
  PROVE  /\ cap.index \in Indices /\ cap.address \in Addresses /\ cap.address # None
         /\ cap.index # None /\ capMap[cap.index] = cap.address /\ store.owners[cap.index] # {}
         /\ store.owners[cap.index] \in SUBSET Owner
         /\ \A b \in Addresses : b > allocated => b # cap.address
         /\ \A i \in Indices : i # cap.index => capMap[i] # cap.address
<1>1. cap.index \in Indices /\ cap.address \in Addresses
  BY InTx
<1>2. cap.address # None /\ cap.index # None
  BY <1>1, CapabilityAssumption, SMTT(30) DEF Addresses, Indices, None
<1>3. capMap[cap.index] = cap.address /\ store.owners[cap.index] # {}
  BY InTx DEF TxConsistent
<1>4. store.owners[cap.index] \in SUBSET Owner
  BY <1>1, InTx, Types DEF Owner
<1>5. cap.address <= allocated
  BY <1>1, <1>3, InTx DEF ObjectsDiffer
<1>6. TypeOK
  BY InTx
<1>7. \A b \in Addresses : b > allocated => b # cap.address
  BY <1>1, <1>5, <1>6, Types, SMTT(30) DEF Addresses
<1>8. \A i \in Indices : i # cap.index => capMap[i] # cap.address
  BY <1>1, <1>2, <1>3, InTx DEF ObjectsDiffer
<1> QED
  BY <1>1, <1>2, <1>3, <1>4, <1>7, <1>8

LEMMA ClaimInv ==
  ASSUME CapabilityInv, tx.active, NEW module \in Modules, NEW name \in Names, NEW cap \in tx.held,
         mem.rev[<<module, name>>] = None, mem.fwd[<<module, cap.address>>] = None,
         ClaimCapability(module, cap, name)
  PROVE  CapabilityInv'
<1> DEFINE k == cap.index
           a == cap.address
           owner == <<module, name>>
           owners == store.owners[k] \union {owner}
<1>1. /\ k \in Indices /\ a \in Addresses /\ a # None /\ k # None /\ capMap[k] = a
      /\ store.owners[k] # {} /\ owners \in SUBSET Owner
  BY HeldCap, SMTT(30) DEF Owner
<1>2. UNCHANGED <<capMap, allocated, tx, lost>> /\ Gone' = Gone
  BY DEF ClaimCapability, Gone
<1>3. /\ mem' \in Memories /\ mem'.initialized = mem.initialized
      /\ \A m \in Modules, b \in Addresses :
           mem'.fwd[<<m, b>>] = IF m = module /\ b = a THEN name ELSE mem.fwd[<<m, b>>]
      /\ \A m \in Modules, n \in Names :
           mem'.rev[<<m, n>>] = IF m = module /\ n = name THEN k ELSE mem.rev[<<m, n>>]
  <2>1. mem' = WithNames(mem, module, a, name, name, k)
    BY DEF ClaimCapability, WithNames
  <2>2. k \in 0..MaxIndex
    BY <1>1, CapabilityAssumption, SMTT(30) DEF Indices
  <2> QED
    BY <1>1, <2>1, <2>2, InTx, NamesSet, SMTT(30)
<1>4. /\ store' \in Stores /\ store'.index = store.index /\ store'.owners[k] = owners
      /\ \A i \in Indices : i # k => store'.owners[i] = store.owners[i]
  <2>1. store' = WithOwners(store, k, owners)
    BY DEF ClaimCapability, WithOwners
  <2> HIDE DEF owners, k
  <2> QED
    BY <1>1, <2>1, InTx, OwnersSet, SMTT(30)
<1>5. \A i \in Indices : owner \notin store.owners[i]
  <2>1. \A i \in Indices : i # None
    BY CapabilityAssumption, SMTT(30) DEF Indices, None
  <2> QED
    BY <2>1, InTx, InMemory, SMTT(30)
<1>6. \A n \in Names : <<module, n>> \notin store.owners[k]
  <2>1. \A n \in Names : n # None
    BY CapabilityAssumption DEF None
  <2>2. \A n \in Names : mem.fwd[<<module, capMap[k]>>] = n <=> <<module, n>> \in store.owners[k]
    BY <1>1, InTx DEF ConsistentWith
  <2> QED
    BY <1>1, <2>1, <2>2
<1>7. TypeOK' /\ ObjectsDiffer'
  BY <1>2, <1>3, <1>4, InTx DEF TypeOK, ObjectsDiffer
<1>8. WellNamed(store)'
  <2>1. ASSUME NEW i \in Indices, i >= store'.index
        PROVE  store'.owners[i] = {}
    BY <1>1, <1>4, <2>1, InTx DEF WellNamed
  <2>2. ASSUME NEW i \in Indices, NEW m \in Modules, NEW n \in Names, <<m, n>> \in store'.owners[i]
        PROVE  /\ \A other \in Names : <<m, other>> \in store'.owners[i] => other = n
               /\ \A j \in Indices : <<m, n>> \in store'.owners[j] => j = i
    <3>1. CASE i = k /\ m = module
      <4>1. \A other \in Names : <<m, other>> \in store'.owners[i] => other = name
        BY <1>4, <1>6, <3>1
      <4>2. n = name
        BY <2>2, <4>1
      <4> QED
        BY <1>4, <1>5, <3>1, <4>1, <4>2
    <3>2. CASE ~(i = k /\ m = module)
      <4>1. \A other \in Names :
              <<m, other>> \in store'.owners[i] => <<m, other>> \in store.owners[i]
        BY <1>4, <3>2, SMTT(30)
      <4>2. <<m, n>> \in store.owners[i] /\ <<m, n>> # owner
        BY <1>5, <2>2, <4>1
      <4>3. \A j \in Indices : <<m, n>> \in store'.owners[j] => <<m, n>> \in store.owners[j]
        BY <1>4, <4>2
      <4> QED
        BY <4>1, <4>2, <4>3, InTx DEF WellNamed
    <3> QED
      BY <3>1, <3>2
  <2> QED
    BY <2>1, <2>2 DEF WellNamed
<1>9. ConsistentWith(capMap', allocated', mem', store', lost')
  <2>1. ASSUME NEW m \in Modules, NEW n \in Names, mem'.rev[<<m, n>>] # None
        PROVE  capMap'[mem'.rev[<<m, n>>]] # None \/ mem'.rev[<<m, n>>] \in lost'
    BY <1>1, <1>2, <1>3, <2>1, InTx, SMTT(30) DEF ConsistentWith
  <2>2. ASSUME NEW m \in Modules, NEW n \in Names, NEW i \in Indices
        PROVE  mem'.rev[<<m, n>>] = i <=> <<m, n>> \in store'.owners[i]
    <3>1. CASE m = module /\ n = name
      BY <1>3, <1>4, <1>5, <3>1, SMTT(30)
    <3>2. CASE ~(m = module /\ n = name)
      <4>1. mem'.rev[<<m, n>>] = mem.rev[<<m, n>>]
        BY <1>3, <3>2
      <4>2. <<m, n>> \in store'.owners[i] <=> <<m, n>> \in store.owners[i]
        BY <1>4, <3>2, SMTT(30)
      <4> QED
        BY <4>1, <4>2, InTx, InMemory, SMTT(30)
    <3> QED
      BY <3>1, <3>2
  <2>3. ASSUME NEW m \in Modules, NEW n \in Names, NEW i \in Indices, capMap'[i] # None,
               store'.owners[i] # {}
        PROVE  mem'.fwd[<<m, capMap'[i]>>] = n <=> <<m, n>> \in store'.owners[i]
    <3>1. capMap[i] # None /\ store.owners[i] # {} /\ capMap[i] \in Addresses
      <4>1. capMap[i] \in 0..MaxAddress
        BY InTx
      <4> QED
        BY <1>1, <1>2, <1>4, <2>3, <4>1, CapabilityAssumption, SMTT(30) DEF Addresses, None
    <3>2. mem.fwd[<<m, capMap[i]>>] = n <=> <<m, n>> \in store.owners[i]
      BY <3>1, InTx DEF ConsistentWith
    <3>3. CASE i = k /\ m = module
      <4>1. mem'.fwd[<<m, capMap[i]>>] = name
        BY <1>1, <1>3, <3>3
      <4>2. <<m, n>> \in store'.owners[i] <=> n = name
        BY <1>4, <1>6, <3>3
      <4> QED
        BY <1>2, <4>1, <4>2
    <3>4. CASE ~(i = k /\ m = module)
      <4>1. ~(m = module /\ capMap[i] = a)
        BY <3>4, HeldCap
      <4>2. mem'.fwd[<<m, capMap[i]>>] = mem.fwd[<<m, capMap[i]>>]
        BY <1>3, <3>1, <4>1
      <4>3. <<m, n>> \in store'.owners[i] <=> <<m, n>> \in store.owners[i]
        BY <1>4, <3>4, SMTT(30)
      <4> QED
        BY <1>2, <3>2, <4>2, <4>3
    <3> QED
      BY <3>3, <3>4
  <2>4. ASSUME NEW m \in Modules, NEW b \in Addresses, b > allocated'
        PROVE  mem'.fwd[<<m, b>>] = None
    BY <1>2, <1>3, <2>4, HeldCap, InTx, SMTT(30) DEF ConsistentWith
  <2> QED
    BY <2>1, <2>2, <2>3, <2>4 DEF ConsistentWith
<1>10. ASSUME NEW c \in tx'.held
       PROVE  capMap'[c.index] = c.address /\ store'.owners[c.index] # {}
  <2>1. c.index \in Indices /\ capMap[c.index] = c.address /\ store.owners[c.index] # {}
    BY <1>2, HeldCap
  <2> QED
    BY <1>1, <1>2, <1>4, <2>1
<1>11. tx.store.index <= store'.index
  BY <1>4, InTx DEF TxConsistent
<1> QED
  BY <1>2, <1>3, <1>7, <1>8, <1>9, <1>10, <1>11, InTx, StillInTx

LEMMA ReleaseInv ==
  ASSUME CapabilityInv, tx.active, NEW module \in Modules, NEW cap \in tx.held,
         ReleaseCapability(module, cap)
  PROVE  CapabilityInv'
<1> DEFINE k == cap.index
           a == cap.address
           name == mem.fwd[<<module, a>>]
           owner == <<module, name>>
           rest == store.owners[k] \ {owner}
<1>1. /\ k \in Indices /\ a \in Addresses /\ a # None /\ k # None /\ capMap[k] = a
      /\ store.owners[k] # {} /\ rest \in SUBSET Owner
  BY HeldCap
<1>2. name \in Names /\ owner \in store.owners[k]
  <2>1. name # None
    BY DEF ReleaseCapability
  <2>2. TypeOK /\ Consistent(mem, store, lost) /\ mem \in Memories /\ store \in Stores
    BY InTx, Spelled
  <2>3. capMap[k] # None /\ mem.fwd[<<module, capMap[k]>>] # None
    BY <1>1, <2>1
  <2>4. /\ mem.fwd[<<module, capMap[k]>>] \in Names
        /\ <<module, mem.fwd[<<module, capMap[k]>>]>> \in store.owners[k]
    <3> HIDE DEF k
    <3> QED
      BY <1>1, <2>2, <2>3, OwnedIsFound
  <2> QED
    BY <1>1, <2>4
<1>3. /\ mem' \in Memories /\ mem'.initialized = mem.initialized
      /\ \A m \in Modules, b \in Addresses :
           mem'.fwd[<<m, b>>] = IF m = module /\ b = a THEN None ELSE mem.fwd[<<m, b>>]
      /\ \A m \in Modules, n \in Names :
           mem'.rev[<<m, n>>] = IF m = module /\ n = name THEN None ELSE mem.rev[<<m, n>>]
  <2>1. mem' = WithNames(mem, module, a, None, name, None)
    BY DEF ReleaseCapability, WithNames
  <2>2. mem \in Memories /\ a \in Addresses /\ name \in Names
    BY <1>1, <1>2, InTx
  <2> HIDE DEF name, a
  <2> QED
    BY <2>1, <2>2, NamesCleared, SMTT(30)
<1>4. /\ store' \in Stores /\ store'.index = store.index /\ store'.owners[k] = rest
      /\ \A i \in Indices : i # k => store'.owners[i] = store.owners[i]
  <2>1. store' = WithOwners(store, k, rest)
    BY DEF ReleaseCapability, WithOwners
  <2> HIDE DEF rest, k
  <2> QED
    BY <1>1, <2>1, InTx, OwnersSet, SMTT(30)
<1>5. /\ rest = {} => capMap' = [capMap EXCEPT ![k] = None]
      /\ rest # {} => capMap' = capMap
      /\ rest = {} => tx' = [tx EXCEPT !.dropped = @ \union {k}, !.held = @ \ {cap}]
      /\ rest # {} => tx' = tx
      /\ allocated' = allocated /\ lost' = lost
  BY DEF ReleaseCapability
<1> HIDE DEF rest, name
<1>6. /\ capMap' \in [Indices -> 0..MaxAddress]
      /\ \A i \in Indices : i # k => capMap'[i] = capMap[i]
      /\ capMap'[k] = IF rest = {} THEN None ELSE capMap[k]
  <2>1. None \in 0..MaxAddress
    BY CapabilityAssumption, SMTT(30) DEF None
  <2> QED
    BY <1>1, <1>5, <2>1, InTx
<1>7. /\ tx' \in [active : BOOLEAN, held : SUBSET [address : Addresses, index : Indices],
                  dropped : SUBSET Indices, store : Stores, mem : Memories]
      /\ tx'.active /\ tx'.store = tx.store /\ tx'.mem = tx.mem
      /\ tx'.held = IF rest = {} THEN tx.held \ {cap} ELSE tx.held
      /\ tx'.dropped = IF rest = {} THEN tx.dropped \union {k} ELSE tx.dropped
  <2>1. CASE rest = {}
    <3> DEFINE kept == tx.held \ {cap}
               gone == tx.dropped \union {k}
    <3>1. tx' = [tx EXCEPT !.dropped = gone, !.held = kept]
      BY <1>5, <2>1
    <3>2. gone \in SUBSET Indices /\ kept \in SUBSET [address : Addresses, index : Indices]
      BY <1>1, InTx
    <3> HIDE DEF kept, gone
    <3>3. /\ tx' \in [active : BOOLEAN, held : SUBSET [address : Addresses, index : Indices],
                       dropped : SUBSET Indices, store : Stores, mem : Memories]
          /\ tx'.active = tx.active /\ tx'.store = tx.store /\ tx'.mem = tx.mem
          /\ tx'.held = kept /\ tx'.dropped = gone
      BY <3>1, <3>2, InTx
    <3> QED
      BY <2>1, <3>3 DEF kept, gone
  <2>2. CASE rest # {}
    BY <1>5, <2>2, InTx
  <2> QED
    BY <2>1, <2>2
<1>8. TypeOK'
  BY <1>3, <1>4, <1>5, <1>6, <1>7, InTx DEF TypeOK
<1>9. ObjectsDiffer'
  <2>1. ASSUME NEW i \in Indices
        PROVE  capMap'[i] <= allocated' /\ (capMap'[i] = capMap[i] \/ capMap'[i] = None)
    <3>1. capMap[i] <= allocated /\ 0 <= allocated
      BY InTx, Types, SMTT(30) DEF ObjectsDiffer
    <3> QED
      BY <1>5, <1>6, <3>1 DEF None
  <2> QED
    BY <2>1, InTx DEF ObjectsDiffer
<1>10. \A i \in Indices : store'.owners[i] \subseteq store.owners[i]
  BY <1>4 DEF rest
<1>11. WellNamed(store)'
  BY <1>4, <1>10, InTx, SMTT(30) DEF WellNamed
<1>12. \A i \in Indices : owner \notin store'.owners[i]
  BY <1>1, <1>2, <1>4, InTx DEF WellNamed, rest
<1>13. ASSUME NEW i \in Indices, store'.owners[i] # {}
       PROVE  capMap'[i] = capMap[i] /\ store.owners[i] # {}
  BY <1>1, <1>4, <1>6, <1>10, <1>13
<1>14. ConsistentWith(capMap', allocated', mem', store', lost')
  <2>1. ASSUME NEW m \in Modules, NEW n \in Names, NEW i \in Indices
        PROVE  mem'.rev[<<m, n>>] = i <=> <<m, n>> \in store'.owners[i]
    <3>1. CASE m = module /\ n = name
      <4>1. i # None
        BY CapabilityAssumption, SMTT(30) DEF Indices, None
      <4> QED
        BY <1>3, <1>12, <3>1, <4>1
    <3>2. CASE ~(m = module /\ n = name)
      <4>1. mem'.rev[<<m, n>>] = mem.rev[<<m, n>>]
        BY <1>3, <3>2
      <4>2. <<m, n>> \in store'.owners[i] <=> <<m, n>> \in store.owners[i]
        BY <1>4, <3>2 DEF rest
      <4> QED
        BY <4>1, <4>2, InTx, InMemory, SMTT(30)
    <3> QED
      BY <3>1, <3>2
  <2>2. ASSUME NEW m \in Modules, NEW n \in Names, mem'.rev[<<m, n>>] # None
        PROVE  capMap'[mem'.rev[<<m, n>>]] # None \/ mem'.rev[<<m, n>>] \in lost'
    <3> DEFINE i == mem'.rev[<<m, n>>]
    <3>1. i = mem.rev[<<m, n>>]
      BY <1>3, <2>2
    <3>2. i \in Indices
      BY <1>3, <2>2, CapabilityAssumption, SMTT(30) DEF Memories, Indices, None
    <3>3. <<m, n>> \in store'.owners[i]
      BY <2>1, <3>2
    <3>4. capMap[i] # None \/ i \in lost
      BY <2>2, <3>1, InTx, SMTT(30) DEF ConsistentWith
    <3> QED
      BY <1>5, <1>13, <3>2, <3>3, <3>4
  <2>3. ASSUME NEW m \in Modules, NEW n \in Names, NEW i \in Indices, capMap'[i] # None,
               store'.owners[i] # {}
        PROVE  mem'.fwd[<<m, capMap'[i]>>] = n <=> <<m, n>> \in store'.owners[i]
    <3>1. capMap'[i] = capMap[i] /\ capMap[i] # None /\ store.owners[i] # {}
      BY <1>13, <2>3
    <3>2. capMap[i] \in Addresses
      <4>1. capMap[i] \in 0..MaxAddress
        BY InTx
      <4> QED
        BY <3>1, <4>1, CapabilityAssumption, SMTT(30) DEF Addresses, None
    <3>3. mem.fwd[<<m, capMap[i]>>] = n <=> <<m, n>> \in store.owners[i]
      BY <3>1, InTx DEF ConsistentWith
    <3>4. CASE i = k /\ m = module
      <4>1. mem'.fwd[<<m, capMap[i]>>] = None
        BY <1>1, <1>3, <3>4
      <4>2. n # None
        BY CapabilityAssumption DEF None
      <4>3. <<m, n>> \notin store'.owners[i]
        BY <1>2, <1>4, <1>10, <1>12, <3>4, InTx, SMTT(30) DEF WellNamed
      <4> QED
        BY <3>1, <4>1, <4>2, <4>3
    <3>5. CASE ~(i = k /\ m = module)
      <4>1. ~(m = module /\ capMap[i] = a)
        BY <3>5, HeldCap
      <4>2. mem'.fwd[<<m, capMap[i]>>] = mem.fwd[<<m, capMap[i]>>]
        BY <1>3, <3>2, <4>1
      <4>3. <<m, n>> \in store'.owners[i] <=> <<m, n>> \in store.owners[i]
        BY <1>4, <3>5 DEF rest
      <4> QED
        BY <3>1, <3>3, <4>2, <4>3
    <3> QED
      BY <3>4, <3>5
  <2>4. ASSUME NEW m \in Modules, NEW b \in Addresses, b > allocated'
        PROVE  mem'.fwd[<<m, b>>] = None
    BY <1>3, <1>5, <2>4, InTx, SMTT(30) DEF ConsistentWith
  <2> QED
    BY <2>1, <2>2, <2>3, <2>4 DEF ConsistentWith
<1>15. ASSUME NEW c \in tx'.held
       PROVE  capMap'[c.index] = c.address /\ store'.owners[c.index] # {}
  <2>1. c \in tx.held /\ (rest = {} => c # cap)
    BY <1>7
  <2>2. c.index \in Indices /\ capMap[c.index] = c.address /\ store.owners[c.index] # {}
    BY <2>1, HeldCap
  <2>3. CASE c.index = k
    <3>1. c.address = a
      BY <1>1, <2>2, <2>3
    <3>2. c = cap
      BY <2>1, <2>3, <3>1, InTx, SMTT(30)
    <3> QED
      BY <1>1, <1>4, <1>6, <2>1, <2>3, <3>1, <3>2
  <2>4. CASE c.index # k
    BY <1>4, <1>6, <2>2, <2>4
  <2> QED
    BY <2>3, <2>4
<1>16. tx.store.index <= store'.index
  BY <1>4, InTx DEF TxConsistent
<1>17. ConsistentWith(capMap', allocated', tx.mem, tx.store, Gone')
  <2>1. /\ ConsistentWith(capMap, allocated, tx.mem, tx.store, Gone)
        /\ Gone \subseteq Gone' /\ (rest = {} => k \in Gone')
    BY <1>5, <1>7, InTx DEF Gone
  <2>2. \A i \in Indices : capMap'[i] = capMap[i] \/ (capMap'[i] = None /\ i \in Gone')
    BY <1>6, <2>1
  <2>3. allocated' = allocated /\ tx.mem \in Memories
    BY <1>5, InTx
  <2>4. ConsistentWith(capMap', allocated, tx.mem, tx.store, Gone')
    BY <2>1, <2>2, <2>3, MapShrinks, SMTT(30)
  <2> QED
    BY <2>3, <2>4
<1> QED
  BY <1>3, <1>7, <1>8, <1>9, <1>11, <1>14, <1>15, <1>16, <1>17, InTx, StillInTx

LEMMA BeginInv ==
  ASSUME CapabilityInv, BeginTx
  PROVE  CapabilityInv'
<1>1. UNCHANGED <<store, mem, capMap, allocated, lost>> /\ mem.initialized
  BY DEF BeginTx
<1>2. TypeOK /\ ObjectsDiffer /\ WellNamed(store) /\ Consistent(mem, store, lost)
  BY <1>1 DEF CapabilityInv
<1>3. tx' = [active |-> TRUE, held |-> {}, dropped |-> {}, store |-> store, mem |-> mem]
  BY DEF BeginTx
<1>4. /\ tx' \in [active : BOOLEAN, held : SUBSET [address : Addresses, index : Indices],
                  dropped : SUBSET Indices, store : Stores, mem : Memories]
      /\ tx'.active /\ tx'.store = store /\ tx'.mem = mem /\ tx'.held = {} /\ Gone' = lost'
  BY <1>2, <1>3 DEF TypeOK, Gone
<1>5. TypeOK' /\ ObjectsDiffer' /\ WellNamed(store)'
  BY <1>1, <1>2, <1>4 DEF TypeOK, ObjectsDiffer, WellNamed
<1>6. ConsistentWith(capMap', allocated', mem', store', lost')
  BY <1>1, <1>2, Spelled
<1>7. Consistent(mem, store, lost)' /\ Consistent(tx.mem, tx.store, lost \union tx.dropped)'
  BY <1>1, <1>4, <1>6, SpelledNext
<1>8. WellNamed(tx.store)'
  BY <1>2, <1>4 DEF WellNamed
<1>9. tx'.store.index <= store'.index
  BY <1>1, <1>2, <1>4, Types, SMTT(30)
<1>10. TxConsistent'
  BY <1>1, <1>4, <1>7, <1>8, <1>9 DEF TxConsistent
<1> QED
  BY <1>1, <1>5, <1>7, <1>10 DEF CapabilityInv

LEMMA Idle ==
  ~NoTx.active
  BY DEF NoTx

LEMMA CommitInv ==
  ASSUME CapabilityInv, CommitTx
  PROVE  CapabilityInv'
<1>1. UNCHANGED <<store, mem, capMap, allocated, lost>> /\ tx.active /\ tx' = NoTx
  BY DEF CommitTx
<1>2. TypeOK' /\ ObjectsDiffer' /\ WellNamed(store)' /\ ~tx'.active
  BY <1>1, Idle, InTx DEF TypeOK, ObjectsDiffer, WellNamed
<1>3. ConsistentWith(capMap', allocated', mem', store', lost') /\ mem'.initialized
  BY <1>1, InTx
<1>4. Consistent(mem, store, lost)'
  BY <1>3, SpelledNext
<1> QED
  BY <1>2, <1>3, <1>4 DEF CapabilityInv

LEMMA AbortInv ==
  ASSUME CapabilityInv, AbortTx
  PROVE  CapabilityInv'
<1>1. /\ UNCHANGED <<capMap, allocated>> /\ store' = tx.store /\ mem' = tx.mem
      /\ tx.active /\ tx' = NoTx
      /\ lost' = lost \union {i \in tx.dropped : tx.store.owners[i] # {}}
  BY DEF AbortTx
<1>2. TypeOK' /\ ObjectsDiffer' /\ ~tx'.active
  BY <1>1, Idle, InTx DEF TypeOK, ObjectsDiffer
<1>3. WellNamed(store)' /\ mem'.initialized
  BY <1>1, InTx DEF TxConsistent, WellNamed
<1>4. ConsistentWith(capMap', allocated', mem', store', lost')
  <2>1. ConsistentWith(capMap, allocated, tx.mem, tx.store, Gone)
    BY <1>1, InTx
  <2>2. ASSUME NEW m \in Modules, NEW n \in Names, tx.mem.rev[<<m, n>>] # None
        PROVE  capMap[tx.mem.rev[<<m, n>>]] # None \/ tx.mem.rev[<<m, n>>] \in lost'
    <3> DEFINE i == tx.mem.rev[<<m, n>>]
    <3>1. i \in Indices
      BY <1>1, <2>2, InTx, CapabilityAssumption, SMTT(30) DEF Memories, Indices, None
    <3>2. capMap[i] # None \/ i \in lost \/ i \in tx.dropped
      BY <2>1, <2>2 DEF ConsistentWith, Gone
    <3>3. tx.store.owners[i] # {}
      <4>1. \A j \in Indices : tx.mem.rev[<<m, n>>] = j <=> <<m, n>> \in tx.store.owners[j]
        <5> HIDE DEF i
        <5> QED
          BY <2>1, InMemory, SMTT(30)
      <4>2. <<m, n>> \in tx.store.owners[i]
        BY <3>1, <4>1
      <4> QED
        BY <4>2
    <3> HIDE DEF i
    <3>4. capMap[i] # None \/ i \in lost'
      BY <1>1, <3>2, <3>3
    <3> QED
      BY <3>4 DEF i
  <2>3. ConsistentWith(capMap, allocated, tx.mem, tx.store, lost')
    BY <2>1, <2>2 DEF ConsistentWith
  <2> QED
    BY <1>1, <2>3
<1>5. Consistent(mem, store, lost)'
  BY <1>4, SpelledNext
<1> QED
  BY <1>2, <1>3, <1>5 DEF CapabilityInv

LEMMA EmptyMemType ==
  /\ EmptyMem \in Memories /\ EmptyMem.initialized = FALSE
  /\ [EmptyMem EXCEPT !.initialized = TRUE] \in Memories
<1> DEFINE fwd == [o \in Modules \X Addresses |-> None]
           rev == [o \in Modules \X Names |-> None]
<1>1. /\ fwd \in [Modules \X Addresses -> Names \union {None}]
      /\ rev \in [Modules \X Names -> 0..MaxIndex]
  BY CapabilityAssumption, SMTT(30) DEF None
<1>2. EmptyMem = [initialized |-> FALSE, fwd |-> fwd, rev |-> rev]
  BY DEF EmptyMem
<1> HIDE DEF fwd, rev
<1> QED
  BY <1>1, <1>2 DEF Memories

LEMMA RestartInv ==
  ASSUME CapabilityInv, Restart, allocated + Cardinality(Live(Committed.owners)) <= MaxAddress
  PROVE  CapabilityInv'
<1>1. /\ mem' = EmptyMem /\ capMap' = [i \in Indices |-> None] /\ tx' = NoTx /\ store' = Committed
      /\ allocated' = allocated /\ lost' = {}
  BY DEF Restart
<1>2. TypeOK /\ allocated \in Nat /\ MaxAddress \in Nat
  BY Types DEF CapabilityInv
<1>3. Committed \in Stores /\ WellNamed(store)'
  <2>1. CASE tx.active
    <3>1. Committed = tx.store
      BY <2>1 DEF Committed
    <3> QED
      BY <1>1, <2>1, <3>1, InTx DEF TxConsistent, WellNamed
  <2>2. CASE ~tx.active
    <3>1. Committed = store
      BY <2>2 DEF Committed
    <3> QED
      BY <1>1, <1>2, <3>1 DEF CapabilityInv, TypeOK, WellNamed
  <2> QED
    BY <2>1, <2>2
<1>4. capMap' \in [Indices -> 0..MaxAddress] /\ \A i \in Indices : capMap'[i] = None
  BY <1>1, <1>2, SMTT(30) DEF None
<1>5. TypeOK' /\ ~tx'.active
  BY <1>1, <1>2, <1>3, <1>4, EmptyMemType, Idle DEF TypeOK
<1>6. ObjectsDiffer'
  BY <1>1, <1>2, <1>4, SMTT(30) DEF ObjectsDiffer, None
<1>7. Restarted'
  BY <1>1, <1>4, <1>5 DEF Restarted, EmptyMem
<1>8. ~mem'.initialized
  BY <1>1, EmptyMemType
<1> QED
  BY <1>3, <1>5, <1>6, <1>7, <1>8 DEF CapabilityInv

LEMMA InitInv ==
  ASSUME Init
  PROVE  CapabilityInv
<1>1. /\ store = [index |-> 1, owners |-> [i \in Indices |-> {}]]
      /\ mem = [EmptyMem EXCEPT !.initialized = TRUE]
      /\ capMap = [i \in Indices |-> None] /\ allocated = 0 /\ tx = NoTx /\ lost = {}
  BY DEF Init
<1>2. store \in Stores /\ \A i \in Indices : store.owners[i] = {}
  BY <1>1, CapabilityAssumption, SMTT(30) DEF Stores
<1>3. /\ mem.initialized /\ \A m \in Modules, n \in Names : mem.rev[<<m, n>>] = None
      /\ \A m \in Modules, a \in Addresses : mem.fwd[<<m, a>>] = None
  BY <1>1 DEF EmptyMem
<1>4. capMap \in [Indices -> 0..MaxAddress] /\ \A i \in Indices : capMap[i] = None /\ i # None
  BY <1>1, CapabilityAssumption, SMTT(30) DEF None, Indices
<1>5. TypeOK /\ ~tx.active
  BY <1>1, <1>2, <1>4, EmptyMemType, Idle, CapabilityAssumption, SMTT(30) DEF TypeOK
<1>6. ObjectsDiffer /\ WellNamed(store)
  BY <1>1, <1>2, <1>4, SMTT(30) DEF ObjectsDiffer, WellNamed, None
<1>7. ConsistentWith(capMap, allocated, mem, store, lost)
  BY <1>2, <1>3, <1>4 DEF ConsistentWith
<1> QED
  BY <1>3, <1>5, <1>6, <1>7, Spelled DEF CapabilityInv

\* The objects that InitializeCapability allocates are new, and differ.
LEMMA NewAddresses ==
  ASSUME TypeOK, NEW owners \in [Indices -> SUBSET Owner],
         allocated + Cardinality(Live(owners)) <= MaxAddress
  PROVE  /\ Cardinality(Live(owners)) \in Nat
         /\ \A i \in Live(owners) :
              /\ NewAddress(owners, i) \in Addresses
              /\ NewAddress(owners, i) <= allocated + Cardinality(Live(owners))
         /\ \A i, j \in Live(owners) : NewAddress(owners, i) = NewAddress(owners, j) => i = j
<1> DEFINE live == Live(owners)
           UpTo(i) == {j \in live : j <= i}
<1>1. allocated \in Nat /\ MaxAddress \in Nat /\ MaxIndex \in Nat
  BY Types
<1>2. live \in SUBSET Indices
  BY DEF Live
<1>3. IsFiniteSet(Indices)
  BY <1>1, FS_Interval, SMTT(30) DEF Indices
<1>4. IsFiniteSet(live)
  BY <1>2, <1>3, FS_Subset
<1>5. Cardinality(live) \in Nat
  BY <1>4, FS_CardinalityType
<1>6. \A i : UpTo(i) \in SUBSET live
  OBVIOUS
<1>7. \A i \in Indices : i \in Int
  BY <1>1, SMTT(30) DEF Indices
<1> HIDE DEF live
<1>8. \A i : IsFiniteSet(UpTo(i)) /\ Cardinality(UpTo(i)) <= Cardinality(live)
  BY <1>4, <1>6, FS_Subset
<1>9. \A i : Cardinality(UpTo(i)) \in Nat
  BY <1>8, FS_CardinalityType
<1>10. \A i \in live : Cardinality(UpTo(i)) # 0
  <2>1. \A i \in live : i \in UpTo(i)
    BY <1>2, <1>7, SMTT(30)
  <2> QED
    BY <1>8, <2>1, FS_EmptySet
<1>11. ASSUME NEW i \in live, NEW j \in live, i < j
       PROVE  Cardinality(UpTo(i)) # Cardinality(UpTo(j))
  <2>1. UpTo(i) \in SUBSET UpTo(j) /\ j \in UpTo(j) /\ j \notin UpTo(i)
    BY <1>2, <1>7, <1>11, SMTT(30)
  <2> HIDE DEF UpTo
  <2>2. Cardinality(UpTo(j)) = Cardinality(UpTo(i)) => UpTo(j) = UpTo(i)
    BY <1>8, <2>1, FS_Subset
  <2> QED
    BY <2>1, <2>2
<1>12. \A i : NewAddress(owners, i) = allocated + Cardinality(UpTo(i))
  BY DEF NewAddress, live
<1> HIDE DEF UpTo
<1>13. ASSUME NEW i \in live, NEW j \in live, Cardinality(UpTo(i)) = Cardinality(UpTo(j))
       PROVE  i = j
  <2>1. i < j \/ j < i \/ i = j
    BY <1>2, <1>7, SMTT(30)
  <2> QED
    BY <1>11, <1>13, <2>1
<1>14. allocated + Cardinality(live) <= MaxAddress
  BY DEF live
<1>15. ASSUME NEW i \in live
       PROVE  /\ NewAddress(owners, i) \in Addresses
              /\ NewAddress(owners, i) <= allocated + Cardinality(live)
  <2> DEFINE c == Cardinality(UpTo(i))
             d == Cardinality(live)
  <2>1. c \in Nat /\ c # 0 /\ c <= d /\ d \in Nat /\ allocated + d <= MaxAddress
    BY <1>5, <1>8, <1>9, <1>10, <1>14
  <2>2. NewAddress(owners, i) = allocated + c
    BY <1>12
  <2> HIDE DEF c, d
  <2>3. allocated + c \in 1..MaxAddress /\ allocated + c <= allocated + d
    BY <1>1, <2>1, SMTT(30)
  <2> QED
    BY <2>2, <2>3 DEF Addresses, d
<1>16. ASSUME NEW i \in live, NEW j \in live, NewAddress(owners, i) = NewAddress(owners, j)
       PROVE  i = j
  <2>1. Cardinality(UpTo(i)) = Cardinality(UpTo(j))
    BY <1>1, <1>9, <1>12, <1>16, SMTT(30)
  <2> QED
    BY <1>13, <2>1
<1> QED
  BY <1>5, <1>15, <1>16 DEF live

LEMMA MaxOfOne ==
  ASSUME NEW n \in Nat
  PROVE  Max({n}) = n /\ Max({0, n}) = n
<1>1. Max({n}) = n
  BY SMTT(30) DEF Max
<1>2. \E x \in {0, n} : \A y \in {0, n} : x >= y
  BY SMTT(30)
<1>3. Max({0, n}) \in {0, n} /\ \A y \in {0, n} : Max({0, n}) >= y
  BY <1>2 DEF Max
<1>4. Max({0, n}) = n
  BY <1>3, SMTT(30)
<1> QED
  BY <1>1, <1>4

LEMMA InitializeInv ==
  ASSUME CapabilityInv, ~mem.initialized, InitializeCapabilities(store.owners),
         UNCHANGED <<store, tx, lost>>
  PROVE  CapabilityInv'
<1> DEFINE owners == store.owners
           At(i) == NewAddress(owners, i)
           live == Live(owners)
           fwd == [o \in Modules \X Addresses |->
                     LET names == {n \in Names : \E i \in live :
                                     At(i) = o[2] /\ <<o[1], n>> \in owners[i]}
                     IN  IF names = {} THEN None ELSE Max(names)]
           rev == [o \in Modules \X Names |-> Max({None} \union {i \in Indices : o \in owners[i]})]
<1>1. /\ TypeOK /\ ObjectsDiffer /\ WellNamed(store) /\ Restarted /\ ~tx.active
      /\ allocated \in Nat /\ MaxAddress \in Nat /\ MaxIndex \in Nat
      /\ owners \in [Indices -> SUBSET Owner]
  BY Types DEF CapabilityInv, Restarted
<1>2. /\ Cardinality(live) \in Nat
      /\ \A i \in live : At(i) \in Addresses /\ At(i) <= allocated + Cardinality(live)
      /\ \A i, j \in live : At(i) = At(j) => i = j
  BY <1>1, NewAddresses DEF Restarted
<1>3. /\ allocated' = allocated + Cardinality(live)
      /\ capMap' = [i \in Indices |-> IF owners[i] # {} THEN At(i) ELSE capMap[i]]
      /\ mem' = [initialized |-> TRUE, fwd |-> fwd, rev |-> rev]
  BY DEF InitializeCapabilities
<1>4. /\ mem'.initialized /\ mem'.fwd = fwd /\ mem'.rev = rev
  BY <1>3
<1>5. \A i \in Indices : i \in live <=> owners[i] # {}
  BY DEF Live
<1>6. live \subseteq Indices
  BY DEF Live
<1>7. \A i \in Indices : i \in Nat /\ i # None /\ i \in 0..MaxIndex
  BY <1>1, SMTT(30) DEF Indices, None
<1>8. \A n \in Names : n \in Nat /\ n # None
  BY CapabilityAssumption DEF None
<1>9. \A i \in Indices, m \in Modules, n \in Names : <<m, n>> \in owners[i] =>
        /\ i \in live
        /\ \A other \in Names : <<m, other>> \in owners[i] => other = n
        /\ \A j \in Indices : <<m, n>> \in owners[j] => j = i
  BY <1>1, <1>5 DEF WellNamed
<1>10. \A i \in Indices : capMap'[i] = IF i \in live THEN At(i) ELSE None
  BY <1>1, <1>3, <1>5 DEF Restarted
<1> HIDE DEF owners, At, live
\* The reverse lookup.
<1>11. ASSUME NEW m \in Modules, NEW n \in Names, NEW i \in Indices, <<m, n>> \in owners[i]
       PROVE  rev[<<m, n>>] = i
  <2>1. {None} \union {j \in Indices : <<m, n>> \in owners[j]} = {0, i}
    BY <1>9, <1>11, SMTT(30) DEF None
  <2>2. rev[<<m, n>>] = Max({0, i})
    BY <2>1
  <2> QED
    BY <1>7, <2>2, MaxOfOne
<1>12. ASSUME NEW m \in Modules, NEW n \in Names, \A i \in Indices : <<m, n>> \notin owners[i]
       PROVE  rev[<<m, n>>] = None
  <2>1. {None} \union {j \in Indices : <<m, n>> \in owners[j]} = {0}
    BY <1>12 DEF None
  <2>2. rev[<<m, n>>] = Max({0})
    BY <2>1
  <2> QED
    BY <2>2, MaxOfOne DEF None
\* The forward lookup.
<1>13. ASSUME NEW m \in Modules, NEW n \in Names, NEW i \in live, <<m, n>> \in owners[i]
       PROVE  fwd[<<m, At(i)>>] = n
  <2>1. {k \in Names : \E j \in live : At(j) = At(i) /\ <<m, k>> \in owners[j]} = {n}
    BY <1>2, <1>6, <1>9, <1>13, SMTT(30)
  <2>2. fwd[<<m, At(i)>>] = Max({n})
    <3>1. <<m, At(i)>> \in Modules \X Addresses
      BY <1>2
    <3> QED
      BY <2>1, <3>1
  <2> QED
    BY <1>8, <2>2, MaxOfOne
<1>14. ASSUME NEW m \in Modules, NEW a \in Addresses,
              \A i \in live, n \in Names : At(i) = a => <<m, n>> \notin owners[i]
       PROVE  fwd[<<m, a>>] = None
  <2>1. {k \in Names : \E j \in live : At(j) = a /\ <<m, k>> \in owners[j]} = {}
    BY <1>14
  <2> QED
    BY <2>1
<1>15. mem' \in Memories
  <2>1. ASSUME NEW m \in Modules, NEW a \in Addresses
        PROVE  fwd[<<m, a>>] \in Names \union {None}
    <3> HIDE DEF fwd
    <3>1. CASE \E i \in live, n \in Names : At(i) = a /\ <<m, n>> \in owners[i]
      <4>1. PICK i \in live, n \in Names : At(i) = a /\ <<m, n>> \in owners[i]
        BY <3>1
      <4>2. fwd[<<m, At(i)>>] = n
        BY <1>13, <4>1
      <4> QED
        BY <4>1, <4>2
    <3>2. CASE \A i \in live, n \in Names : At(i) = a => <<m, n>> \notin owners[i]
      BY <1>14, <3>2
    <3> QED
      BY <3>1, <3>2
  <2>2. ASSUME NEW m \in Modules, NEW n \in Names
        PROVE  rev[<<m, n>>] \in 0..MaxIndex
    <3>1. None \in 0..MaxIndex
      BY <1>1, SMTT(30) DEF None
    <3> QED
      BY <1>7, <1>11, <1>12, <3>1
  <2>3. /\ fwd = [o \in Modules \X Addresses |-> fwd[o]]
        /\ rev = [o \in Modules \X Names |-> rev[o]]
    OBVIOUS
  <2> HIDE DEF fwd, rev
  <2>4. /\ fwd \in [Modules \X Addresses -> Names \union {None}]
        /\ rev \in [Modules \X Names -> 0..MaxIndex]
    <3>1. \A o \in Modules \X Addresses : fwd[o] \in Names \union {None}
      BY <2>1, SMTT(30)
    <3>2. \A o \in Modules \X Names : rev[o] \in 0..MaxIndex
      BY <2>2, SMTT(30)
    <3> QED
      BY <2>3, <3>1, <3>2
  <2> QED
    BY <1>3, <2>4 DEF Memories
<1> HIDE DEF fwd, rev
<1>16. /\ \A i \in Indices : capMap'[i] \in 0..MaxAddress /\ capMap'[i] <= allocated'
       /\ \A i \in live : capMap'[i] # None /\ capMap'[i] = At(i)
       /\ \A i \in Indices : capMap'[i] # None => i \in live
       /\ allocated' \in 0..MaxAddress
  <2>1. \A i \in live : At(i) \in Nat /\ At(i) # 0 /\ At(i) <= MaxAddress /\ At(i) <= allocated'
    BY <1>1, <1>2, <1>3, SMTT(30) DEF Addresses
  <2>2. allocated' \in 0..MaxAddress
    BY <1>1, <1>2, <1>3, SMTT(30) DEF Restarted, owners, live
  <2> QED
    BY <1>1, <1>6, <1>10, <2>1, <2>2, SMTT(30) DEF None
<1>17. TypeOK'
  <2>1. capMap' \in [Indices -> 0..MaxAddress]
    BY <1>3, <1>16
  <2> QED
    BY <1>1, <1>15, <1>16, <2>1 DEF TypeOK
<1>18. ObjectsDiffer'
  BY <1>2, <1>16 DEF ObjectsDiffer
<1>19. WellNamed(store)'
  BY <1>1 DEF WellNamed
<1>20. ConsistentWith(capMap', allocated', mem', store', lost')
  <2>1. ASSUME NEW m \in Modules, NEW n \in Names, NEW i \in Indices
        PROVE  rev[<<m, n>>] = i <=> <<m, n>> \in owners[i]
    BY <1>7, <1>11, <1>12
  <2>2. ASSUME NEW m \in Modules, NEW n \in Names, rev[<<m, n>>] # None
        PROVE  capMap'[rev[<<m, n>>]] # None
    <3>1. PICK i \in Indices : <<m, n>> \in owners[i]
      BY <1>12, <2>2
    <3> QED
      BY <1>9, <1>11, <1>16, <3>1
  <2>3. ASSUME NEW m \in Modules, NEW n \in Names, NEW i \in Indices, owners[i] # {}
        PROVE  fwd[<<m, capMap'[i]>>] = n <=> <<m, n>> \in owners[i]
    <3>1. i \in live /\ capMap'[i] = At(i) /\ At(i) \in Addresses
      BY <1>2, <1>5, <1>16, <2>3 DEF owners, live
    <3>2. CASE <<m, n>> \in owners[i]
      BY <1>13, <3>1, <3>2
    <3>3. CASE <<m, n>> \notin owners[i] /\ \E k \in Names : <<m, k>> \in owners[i]
      BY <1>13, <3>1, <3>3
    <3>4. CASE \A k \in Names : <<m, k>> \notin owners[i]
      <4>1. fwd[<<m, At(i)>>] = None
        BY <1>2, <1>14, <3>1, <3>4
      <4> QED
        BY <1>8, <3>1, <3>4, <4>1
    <3> QED
      BY <3>2, <3>3, <3>4
  <2>4. ASSUME NEW m \in Modules, NEW a \in Addresses, a > allocated'
        PROVE  fwd[<<m, a>>] = None
    <3>1. \A i \in live : At(i) # a
      <4>1. \A i \in live : At(i) \in Nat /\ At(i) <= allocated'
        BY <1>2, <1>3, SMTT(30) DEF Addresses
      <4> QED
        BY <1>16, <2>4, <4>1, SMTT(30) DEF Addresses
    <3> QED
      BY <1>14, <3>1
  <2>5. store'.owners = owners
    BY DEF owners
  <2> QED
    BY <1>4, <2>1, <2>2, <2>3, <2>4, <2>5, SMTT(30) DEF ConsistentWith
<1>21. Consistent(mem, store, lost)' /\ ~tx'.active
  BY <1>1, <1>20, SpelledNext
<1> QED
  BY <1>4, <1>17, <1>18, <1>19, <1>21 DEF CapabilityInv

\* The exported genesis is the whole of the persistent store.
LEMMA ExportAll ==
  ASSUME TypeOK, WellNamed(store)
  PROVE  ExportGenesis = store
<1> DEFINE owners == [i \in Indices |-> IF i < store.index THEN store.owners[i] ELSE {}]
<1>1. store.owners \in [Indices -> SUBSET Owner] /\ store \in Stores
  BY Types DEF TypeOK
<1>2. \A i \in Indices : i >= store.index \/ i < store.index
  BY Types, SMTT(30) DEF Indices
<1>3. \A i \in Indices : owners[i] = store.owners[i]
  BY <1>2 DEF WellNamed
<1>4. owners = store.owners
  BY <1>1, <1>3
<1>5. ExportGenesis = [store EXCEPT !.owners = owners]
  BY DEF ExportGenesis
<1> HIDE DEF owners
<1> QED
  BY <1>1, <1>4, <1>5 DEF Stores

LEMMA KeeperInv ==
  ASSUME OneName, CapabilityInv, NEW module \in Modules, NEW name \in Names,
         KeeperStep(module, name)
  PROVE  CapabilityInv'
<1>1. tx.active
  BY DEF KeeperStep
<1>2. CASE GetCapability(module, name)
  BY <1>1, <1>2, GetInv
<1>3. CASE Room /\ NewCapability(module, name)
  BY <1>1, <1>3, NewInv
<1>4. ASSUME NEW cap \in tx.held, ClaimCapability(module, cap, name),
             mem.rev[<<module, name>>] = None, mem.fwd[<<module, cap.address>>] = None
      PROVE  CapabilityInv'
  BY <1>1, <1>4, ClaimInv
<1>5. ASSUME NEW cap \in tx.held, ReleaseCapability(module, cap)
      PROVE  CapabilityInv'
  BY <1>1, <1>5, ReleaseInv
<1> QED
  BY <1>2, <1>3, <1>4, <1>5 DEF KeeperStep, BindPort

LEMMA StepInv ==
  ASSUME OneName, CapabilityInv, [Next]_vars
  PROVE  CapabilityInv'
<1>1. ASSUME NEW module \in Modules, NEW name \in Names, KeeperStep(module, name)
      PROVE  CapabilityInv'
  BY <1>1, KeeperInv
<1>2. CASE BeginTx
  BY <1>2, BeginInv
<1>3. CASE CommitTx
  BY <1>3, CommitInv
<1>4. CASE AbortTx
  BY <1>4, AbortInv
<1>5. CASE allocated + Cardinality(Live(Committed.owners)) <= MaxAddress /\ Restart
  BY <1>5, RestartInv
<1>6. CASE InitMemStore
  BY <1>6, InitializeInv DEF InitMemStore
<1>7. CASE InitGenesis
  <2>1. ExportGenesis = store
    BY ExportAll DEF CapabilityInv
  <2> QED
    BY <1>7, <2>1, InitializeInv DEF InitGenesis
<1>8. CASE UNCHANGED vars
  <2>1. UNCHANGED <<store, mem, capMap, allocated, tx, lost>>
    BY <1>8 DEF vars
  <2>2. TypeOK' /\ ObjectsDiffer' /\ WellNamed(store)'
    BY <2>1 DEF CapabilityInv, TypeOK, ObjectsDiffer, WellNamed
  <2>3. mem.initialized => Consistent(mem, store, lost)'
    BY <2>1, Spelled, SpelledNext DEF CapabilityInv
  <2>4. ~mem.initialized => Restarted'
    BY <2>1 DEF CapabilityInv, Restarted
  <2>5. tx.active => TxConsistent'
    <3>1. TxConsistent => Consistent(tx.mem, tx.store, lost \union tx.dropped)'
      BY <2>1, Spelled, SpelledNext DEF TxConsistent, Gone
    <3>2. TxConsistent => WellNamed(tx.store)'
      BY <2>1 DEF TxConsistent, WellNamed
    <3> QED
      BY <2>1, <3>1, <3>2 DEF CapabilityInv, TxConsistent
  <2> QED
    BY <2>1, <2>2, <2>3, <2>4, <2>5 DEF CapabilityInv
<1> QED
  BY <1>1, <1>2, <1>3, <1>4, <1>5, <1>6, <1>7, <1>8 DEF Next

-----------------------------------------------------------------------------

\* Whatever transactions, failures, restarts and imports of genesis there are, a name
\* that GetCapability finds in memory leads to an object in the Go map, unless a
\* transaction released the capability from its last owner and failed since the last
\* start of the node, and the memory says of every capability what the persistent
\* store says.
THEOREM CapabilityInvariance ==
  ASSUME OneName
  PROVE  Spec => []CapabilityInv
<1>1. Init => CapabilityInv
  BY InitInv
<1>2. CapabilityInv /\ [Next]_vars => CapabilityInv'
  BY StepInv
<1> QED
  BY <1>1, <1>2, PTL DEF Spec

\* A restart, and InitGenesis from what ExportGenesis wrote, keep every owner of every
\* capability, for as many capabilities as there may be.
THEOREM OwnersByTransactions ==
  ASSUME OneName
  PROVE  Spec => OnlyTransactionsChangeOwners
<1>1. CapabilityInv /\ [Next]_vars =>
        [~tx.active /\ ~tx'.active => store'.owners = store.owners]_vars
  <2> SUFFICES ASSUME CapabilityInv, Next, ~tx.active, ~tx'.active
               PROVE  store' = store
    OBVIOUS
  <2>1. ASSUME NEW module \in Modules, NEW name \in Names, KeeperStep(module, name)
        PROVE  FALSE
    BY <2>1 DEF KeeperStep
  <2>2. CASE BeginTx
    <3>1. tx'.active
      BY <2>2 DEF BeginTx
    <3> QED
      BY <3>1
  <2>3. CASE CommitTx \/ AbortTx
    BY <2>3 DEF CommitTx, AbortTx
  <2>4. CASE Restart
    BY <2>4 DEF Restart, Committed
  <2>5. CASE InitMemStore
    BY <2>5 DEF InitMemStore
  <2>6. CASE InitGenesis
    BY <2>6, ExportAll DEF InitGenesis, CapabilityInv
  <2> QED
    BY <2>1, <2>2, <2>3, <2>4, <2>5, <2>6 DEF Next
<1> QED
  BY <1>1, CapabilityInvariance, PTL DEF Spec, OnlyTransactionsChangeOwners
=============================================================================
