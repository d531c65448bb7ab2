----------------------------- MODULE Capability -----------------------------
(***************************************************************************)
(* The capability module (modules/capability) and, on top of it, the       *)
(* binding of ports (core/05-port).  A capability is an object in memory   *)
(* known by its address.  Who owns it under which name is kept in the      *)
(* persistent store.  A memory store holds the two lookups from the        *)
(* persistent one, and a Go map leads from an index to the object.         *)
(*                                                                         *)
(* A transaction that fails takes back what it wrote to both stores and    *)
(* leaves the Go map as it is.  A restart keeps the persistent store only. *)
(***************************************************************************)
EXTENDS Integers, FiniteSets, FiniteSetsExt

CONSTANTS
  Modules,        \* names of scoped keepers, "ibc" among them
  Names,          \* capability names, numbered in their lexical order
  OneName,        \* modules use one name per capability and one capability per name
  MaxIndex,       \* bound on the capabilities ever created
  MaxAddress      \* bound on the objects ever allocated

ASSUME CapabilityAssumption ==
  "ibc" \in Modules /\ Names \subseteq Nat \ {0} /\ {MaxIndex, MaxAddress} \subseteq Nat

Indices == 1..MaxIndex
Addresses == 1..MaxAddress
None == 0

VARIABLES
  store,          \* the persistent store: the next index, and owners[index]
  mem,            \* the memory store: initialized flag, forward and reverse lookup
  capMap,         \* the Go map from an index to an address
  allocated,      \* how many objects have been allocated
  tx,             \* the transaction being executed, if any: what it may hand around,
                  \* the indices it deleted from the map, and the stores to go back to
  lost            \* history: capabilities that have owners, and whose objects a failed
                  \* transaction deleted from the map

vars == <<store, mem, capMap, allocated, tx, lost>>

EmptyMem == [initialized |-> FALSE,
             fwd |-> [o \in Modules \X Addresses |-> None],
             rev |-> [o \in Modules \X Names |-> None]]

NoTx == [active |-> FALSE, held |-> {}, dropped |-> {}, store |-> None, mem |-> None]

Init ==
  /\ store = [index |-> 1, owners |-> [i \in Indices |-> {}]]
  /\ mem = [EmptyMem EXCEPT !.initialized = TRUE]
  /\ capMap = [i \in Indices |-> None]
  /\ allocated = 0
  /\ tx = NoTx
  /\ lost = {}

-----------------------------------------------------------------------------
(* What a scoped keeper does in a transaction. *)

Hold(address, index) == [tx EXCEPT !.held = @ \union {[address |-> address, index |-> index]}]

\* A lookup of an index that the map lacks panics, and the transaction fails.
GetCapability(module, name) ==
  LET index == mem.rev[<<module, name>>] IN
  /\ index # None
  /\ capMap[index] # None
  /\ tx' = Hold(capMap[index], index)
  /\ UNCHANGED <<store, mem, capMap, allocated, lost>>

NewCapability(module, name) ==
  /\ mem.rev[<<module, name>>] = None
  /\ allocated' = allocated + 1
  /\ store' = [index |-> store.index + 1,
               owners |-> [store.owners EXCEPT ![store.index] = @ \union {<<module, name>>}]]
  /\ mem' = [mem EXCEPT !.fwd[<<module, allocated + 1>>] = name,
                         !.rev[<<module, name>>] = store.index]
  /\ capMap' = [capMap EXCEPT ![store.index] = allocated + 1]
  /\ tx' = Hold(allocated + 1, store.index)
  /\ UNCHANGED lost

IsBound(port) == mem.rev[<<"ibc", port>>] # None

BindPort(port) == ~IsBound(port) /\ NewCapability("ibc", port)

ClaimCapability(module, cap, name) ==
  /\ <<module, name>> \notin store.owners[cap.index]
  /\ store' = [store EXCEPT !.owners[cap.index] = @ \union {<<module, name>>}]
  /\ mem' = [mem EXCEPT !.fwd[<<module, cap.address>>] = name, !.rev[<<module, name>>] = cap.index]
  /\ UNCHANGED <<capMap, allocated, tx, lost>>

\* Mutant of ReleaseCapability: the object goes with its first owner.
ReleaseCapabilityFirst(module, cap) ==
  LET name == mem.fwd[<<module, cap.address>>]
      rest == store.owners[cap.index] \ {<<module, name>>}
  IN
  /\ name # None
  /\ mem' = [mem EXCEPT !.fwd[<<module, cap.address>>] = None, !.rev[<<module, name>>] = None]
  /\ store' = [store EXCEPT !.owners[cap.index] = rest]
  /\ capMap' = [capMap EXCEPT ![cap.index] = None]
  /\ tx' = [tx EXCEPT !.dropped = IF rest = {} THEN @ \union {cap.index} ELSE @,
                     !.held = @ \ {cap}]
  /\ UNCHANGED <<allocated, lost>>

\* The object goes with its last owner, and nobody hands it around any more.
ReleaseCapability(module, cap) ==
  LET name == mem.fwd[<<module, cap.address>>]
      rest == store.owners[cap.index] \ {<<module, name>>}
  IN
  /\ name # None
  /\ mem' = [mem EXCEPT !.fwd[<<module, cap.address>>] = None, !.rev[<<module, name>>] = None]
  /\ store' = [store EXCEPT !.owners[cap.index] = rest]
  /\ capMap' = IF rest = {} THEN [capMap EXCEPT ![cap.index] = None] ELSE capMap
  /\ tx' = IF rest = {}
           THEN [tx EXCEPT !.dropped = @ \union {cap.index}, !.held = @ \ {cap}] ELSE tx
  /\ UNCHANGED <<allocated, lost>>

AuthenticateCapability(memory, module, cap, name) == memory.fwd[<<module, cap.address>>] = name

-----------------------------------------------------------------------------
(* Transactions, blocks, restarts and genesis. *)

BeginTx ==
  /\ ~tx.active
  /\ mem.initialized
  /\ tx' = [active |-> TRUE, held |-> {}, dropped |-> {}, store |-> store, mem |-> mem]
  /\ UNCHANGED <<store, mem, capMap, allocated, lost>>

CommitTx ==
  /\ tx.active
  /\ tx' = NoTx
  /\ UNCHANGED <<store, mem, capMap, allocated, lost>>

\* The stores are as before, the map is not: a capability whose last owner the
\* transaction had released has its owners again, and no object.
AbortTx ==
  /\ tx.active
  /\ store' = tx.store
  /\ mem' = tx.mem
  /\ tx' = NoTx
  /\ lost' = lost \union {i \in tx.dropped : tx.store.owners[i] # {}}
  /\ UNCHANGED <<capMap, allocated>>

\* The objects InitializeCapability allocates for the given owners, in the order
\* of their indices.
Live(owners) == {i \in Indices : owners[i] # {}}

NewAddress(owners, index) == allocated + Cardinality({i \in Live(owners) : i <= index})

\* Where a module has several names for a capability, or several capabilities by a
\* name, the last one written stays.
InitializeCapabilities(owners) ==
  /\ mem' = [initialized |-> TRUE,
             fwd |-> [o \in Modules \X Addresses |->
                       LET names == {n \in Names : \E i \in Live(owners) :
                                       NewAddress(owners, i) = o[2] /\ <<o[1], n>> \in owners[i]}
                       IN  IF names = {} THEN None ELSE Max(names)],
             rev |-> [o \in Modules \X Names |->
                       Max({None} \union {i \in Indices : o \in owners[i]})]]
  /\ capMap' = [i \in Indices |->
                 IF owners[i] # {} THEN NewAddress(owners, i) ELSE capMap[i]]
  /\ allocated' = allocated + Cardinality(Live(owners))

\* The node stops and starts again; a transaction it was executing is lost.
Committed == IF tx.active THEN tx.store ELSE store

Restart ==
  /\ mem' = EmptyMem
  /\ capMap' = [i \in Indices |-> None]
  /\ tx' = NoTx
  /\ store' = Committed
  /\ lost' = {}
  /\ UNCHANGED allocated

\* BeginBlock, which precedes the transactions of a block, calls InitMemStore.
InitMemStore ==
  /\ ~mem.initialized
  /\ InitializeCapabilities(store.owners)
  /\ UNCHANGED <<store, tx, lost>>

\* Mutant of ExportGenesis: the last capability is not exported.
ExportGenesisShort ==
  [store EXCEPT !.owners = [i \in Indices |-> IF i < store.index - 1 THEN @[i] ELSE {}]]

ExportGenesis ==
  [store EXCEPT !.owners = [i \in Indices |-> IF i < store.index THEN @[i] ELSE {}]]

\* A new chain is started from the exported state.
InitGenesis ==
  /\ ~tx.active
  /\ ~mem.initialized
  /\ store' = ExportGenesis
  /\ InitializeCapabilities(ExportGenesis.owners)
  /\ UNCHANGED <<tx, lost>>

-----------------------------------------------------------------------------

Room == store.index <= MaxIndex /\ allocated < MaxAddress

KeeperStep(module, name) ==
  /\ tx.active
  /\ \/ GetCapability(module, name)
     \/ module = "ibc" /\ Room /\ BindPort(name)
     \/ module # "ibc" /\ Room /\ NewCapability(module, name)
     \/ \E cap \in tx.held :
          /\ OneName => /\ mem.rev[<<module, name>>] = None
                        /\ mem.fwd[<<module, cap.address>>] = None
          /\ ClaimCapability(module, cap, name)
     \/ \E cap \in tx.held : ReleaseCapability(module, cap)

Next ==
  \/ \E module \in Modules, name \in Names : KeeperStep(module, name)
  \/ BeginTx \/ CommitTx \/ AbortTx
  \/ allocated + Cardinality(Live(Committed.owners)) <= MaxAddress /\ Restart
  \/ InitMemStore \/ InitGenesis

Spec == Init /\ [][Next]_vars

-----------------------------------------------------------------------------
(* Properties. *)

Stores == [index : 1..MaxIndex + 1, owners : [Indices -> SUBSET (Modules \X Names)]]

Memories ==
  [initialized : BOOLEAN, fwd : [Modules \X Addresses -> Names \union {None}],
   rev : [Modules \X Names -> 0..MaxIndex]]

TypeOK ==
  /\ store \in Stores
  /\ mem \in Memories
  /\ capMap \in [Indices -> 0..MaxAddress]
  /\ allocated \in 0..MaxAddress
  /\ IF tx.active
     THEN tx \in [active : BOOLEAN, held : SUBSET [address : Addresses, index : Indices],
                  dropped : SUBSET Indices, store : Stores, mem : Memories]
     ELSE tx = NoTx
  /\ lost \subseteq Indices

\* GetCapability panics with "capability found in memstore is missing from map"
\* when the memory store leads to an index that the map lacks.  With the map keeping
\* what failed transactions did to it this happens to the capabilities that are
\* "gone" and to no other: those whose last owner a transaction released that failed
\* afterwards.  They come back with the next start of the node.
NotMissingFromMap(memory, gone) ==
  \A o \in Modules \X Names :
    memory.rev[o] # None => capMap[memory.rev[o]] # None \/ memory.rev[o] \in gone

\* The memory agrees with the persistent store, so that a node that has restarted
\* finds and authenticates the same capabilities as one that has not: a module
\* gets by a name the capability it owns by that name, and the capability it gets
\* authenticates to that name and no other.
MemoryFollowsStore(memory, persistent) ==
  \A module \in Modules, name \in Names : \A i \in Indices :
    /\ memory.rev[<<module, name>>] = i <=> <<module, name>> \in persistent.owners[i]
    /\ capMap[i] # None /\ persistent.owners[i] # {} =>
         (AuthenticateCapability(memory, module, [address |-> capMap[i], index |-> i], name)
            <=> <<module, name>> \in persistent.owners[i])

\* No object that has not been allocated has a name, or is that of two indices.
ObjectsDiffer ==
  \A i, j \in Indices :
    capMap[i] <= allocated /\ (capMap[i] = capMap[j] /\ capMap[i] # None => i = j)

NoneUnallocated(memory) ==
  \A module \in Modules, a \in Addresses : a > allocated => memory.fwd[<<module, a>>] = None

Consistent(memory, persistent, gone) ==
  /\ NotMissingFromMap(memory, gone)
  /\ MemoryFollowsStore(memory, persistent)
  /\ NoneUnallocated(memory)

\* In the persistent store a module has one name for a capability and one capability by
\* a name, and no capability beyond the next index.
WellNamed(persistent) ==
  \A i \in Indices :
    /\ i >= persistent.index => persistent.owners[i] = {}
    /\ \A module \in Modules, name \in Names : <<module, name>> \in persistent.owners[i] =>
         /\ \A other \in Names : <<module, other>> \in persistent.owners[i] => other = name
         /\ \A j \in Indices : <<module, name>> \in persistent.owners[j] => j = i

\* Between a restart and the next block the memory is empty, with room for the objects
\* to be allocated.
Restarted ==
  /\ mem = EmptyMem
  /\ ~tx.active
  /\ \A i \in Indices : capMap[i] = None
  /\ allocated + Cardinality(Live(store.owners)) <= MaxAddress

\* What a transaction holds is owned and in the map, and what it goes back to if it fails
\* is consistent with the map as it is by then, but for the objects it deleted.
TxConsistent ==
  /\ mem.initialized
  /\ \A cap \in tx.held : capMap[cap.index] = cap.address /\ store.owners[cap.index] # {}
  /\ tx.mem.initialized
  /\ tx.store.index <= store.index
  /\ WellNamed(tx.store)
  /\ Consistent(tx.mem, tx.store, lost \union tx.dropped)

\* The types and the memory are right in every state, restarts and failed transactions
\* included, and so is the map, but for the capabilities a failed transaction had
\* released from their last owners.  With what a failed transaction or a restart goes
\* back to this is inductive.
CapabilityInv ==
  /\ TypeOK
  /\ ObjectsDiffer
  /\ WellNamed(store)
  /\ IF mem.initialized THEN Consistent(mem, store, lost) ELSE Restarted
  /\ tx.active => TxConsistent

\* Owners come and go by transactions only: restarts, and the export and import of
\* genesis, keep every owner of every capability.
OnlyTransactionsChangeOwners ==
  [][~tx.active /\ ~tx'.active => store'.owners = store.owners]_vars
=============================================================================
