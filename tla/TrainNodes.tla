----------------------------- MODULE TrainNodes -----------------------------
(***************************************************************************)
(* The trains of the command station: the train database                   *)
(* (cs/commandstation/TrainDb) and the virtual nodes that are kept in step *)
(* with it (cs/commandstation/AllTrainNodes).                              *)
(*                                                                         *)
(* A train is its address and its drive mode, which together are its node  *)
(* id as well.  The modes are one that can be driven and "Unused", whose   *)
(* address type is none that a node has.  Address 0 stands for an erased   *)
(* flash (0xffff) as well: both mean that a slot is empty.                 *)
(*                                                                         *)
(* Entries of the file are read from the file whenever they are looked at: *)
(* an edit is seen at once, the nodes follow when it is applied.           *)
(***************************************************************************)
EXTENDS Integers, Sequences, SequencesExt

CONSTANTS
    Addresses,      \* the addresses in use
    ConstTrains,    \* const_lokdb: a sequence of addresses
    FileTrains      \* the slots of the file at start

Modes == {"unused", "dcc"}

Slot == [address : Addresses \cup {0}, mode : Modes]

ASSUME TrainNodesAssumption ==
    /\ Addresses \subseteq Nat \ {0}
    /\ ConstTrains \in Seq(Addresses) /\ FileTrains \in Seq(Slot)

VARIABLES
    file,       \* address and mode in each slot of the file
    entries,    \* entries_ of TrainDb: a slot of the file, or a train
    trains,     \* trains_: nodes, with the id of their entry
    dirty       \* the file was edited and not applied yet

trainNodesVars == <<file, entries, trains, dirty>>

Dcc(address) == [address |-> address, mode |-> "dcc"]
Driven(train) == train.mode # "unused"

Fixed(train) == [slot |-> 0, train |-> train]           \* const and dynamic
FileEntry(slot) == [slot |-> slot, train |-> Dcc(0)]

(* get_traction_node                                                       *)
NodeOf(e, f) == IF e.slot = 0 THEN e.train ELSE f[e.slot]

FindEntry(node, es, f) == \E i \in DOMAIN es : NodeOf(es[i], f) = node

(* create_impl, which fails for a mode that cannot be driven.              *)
CreateImpl(ts, e) == IF Driven(e.node) THEN Append(ts, e) ELSE ts

(* The second loop of update_config, for an entry's node and id.           *)
(* mutant: a train that is there keeps its id *)
IdKept(ts, e) ==
    IF \E i \in DOMAIN ts : ts[i].node = e.node THEN ts ELSE CreateImpl(ts, e)

CreateNew(ts, e) ==
    IF \E i \in DOMAIN ts : ts[i].node = e.node
    THEN [ts EXCEPT ![SelectInSeq(ts, LAMBDA t : t.node = e.node)].id = e.id]
    ELSE CreateImpl(ts, e)

CreateAll(ts, es) ==
    FoldLeft(CreateNew, ts, [i \in DOMAIN es |-> [node |-> NodeOf(es[i], file), id |-> i]])

(* load_from_file, the initial one, for one slot: an unused one is skipped.*)
LoadFirst(es, slot) ==
    IF FileTrains[slot].address = 0 \/ ~Driven(FileTrains[slot]) THEN es
    ELSE Append(es, FileEntry(slot))

(* init_const_lokdb, the constructor of AllTrainNodes, which creates a     *)
(* node for every const entry, and the initial apply_configuration.        *)
TrainNodesInit ==
    /\ file = FileTrains /\ dirty = FALSE
    /\ entries = FoldLeft(LoadFirst, [i \in DOMAIN ConstTrains |-> Fixed(Dcc(ConstTrains[i]))],
                          [s \in DOMAIN FileTrains |-> s])
    /\ trains = CreateAll([i \in DOMAIN ConstTrains |-> [node |-> Dcc(ConstTrains[i]), id |-> i]],
                          entries)

-----------------------------------------------------------------------------
(* The memory configuration space: a client writes the address or the      *)
(* protocol of a train, 0 and "Unused" included.                           *)
EditFile(slot, train) ==
    /\ file[slot] # train
    /\ file' = [file EXCEPT ![slot] = train]
    /\ dirty' = TRUE
    /\ UNCHANGED <<entries, trains>>

(* load_from_file, not the initial one, for one slot: the mode is not      *)
(* looked at.                                                              *)
LoadSlot(es, slot) ==
    IF file[slot].address = 0 THEN es
    ELSE IF FindEntry(file[slot], es, file)
    THEN [i \in DOMAIN es |->
            IF NodeOf(es[i], file) = file[slot] THEN FileEntry(slot) ELSE es[i]]
    ELSE Append(es, FileEntry(slot))

LoadFromFile(es) == FoldLeft(LoadSlot, es, [s \in DOMAIN file |-> s])

(* One turn of update_config's first loop, at position i of the trains: a  *)
(* train without an entry gives its place to the last one.                 *)
DeleteTurn(l, turn) ==
    IF l.i > Len(l.ts) THEN l
    ELSE IF FindEntry(l.ts[l.i].node, l.es, file) THEN [l EXCEPT !.i = @ + 1]
    ELSE [l EXCEPT !.ts = SubSeq([l.ts EXCEPT ![l.i] = Last(l.ts)], 1, Len(l.ts) - 1)]

DeleteOld(ts, es) == FoldLeft(DeleteTurn, [i |-> 1, ts |-> ts, es |-> es], ts).ts

UpdateConfig(es) == CreateAll(DeleteOld(trains, es), es)

ApplyConfiguration ==
    /\ dirty
    /\ entries' = LoadFromFile(entries)
    /\ trains' = UpdateConfig(entries')
    /\ dirty' = FALSE
    /\ UNCHANGED file

(* mutant: the node keeps the id that create_impl was given *)
IdNotSet(address) ==
    /\ entries' = Append(entries, Fixed(Dcc(address)))
    /\ trains' = CreateImpl(trains, [node |-> Dcc(address), id |-> 0])
    /\ UNCHANGED <<file, dirty>>

(* allocate_node; a query that allocates names a mode that can be driven.  *)
AllocateNode(address) ==
    /\ entries' = Append(entries, Fixed(Dcc(address)))
    /\ trains' = CreateImpl(trains, [node |-> Dcc(address), id |-> Len(entries) + 1])
    /\ UNCHANGED <<file, dirty>>

-----------------------------------------------------------------------------
(* The entry and the node at one index are those of one train, as          *)
(* AllTrainNodesInterface has it ("Trains are indexed 0..size()", "a train *)
(* DB entry by train index", "the openlcb train node ID for a given train  *)
(* index").  Once an edit has been applied this need not hold any more:    *)
(* the entry of a train without a node stays, and update_config moves the  *)
(* last node into the place of one that it deletes.                        *)
OneIndex ==
    ~dirty => \A i \in DOMAIN trains :
                 i \in DOMAIN entries /\ NodeOf(entries[i], file) = trains[i].node

(* The position of an entry and that of its node are the same.             *)
Aligned == ~dirty /\ Len(entries) = Len(trains) /\ OneIndex
=============================================================================
