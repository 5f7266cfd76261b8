----------------------------- MODULE TrainSearch ----------------------------
(***************************************************************************)
(* The server of the train search protocol                                 *)
(* (cs/commandstation/FindProtocolServer.hxx): throttles ask for all       *)
(* trains, or for those that match some digits, perhaps with the wish that *)
(* one be created.  One flow walks over the trains, request by request,    *)
(* and waits for every answer to be sent; meanwhile requests are queued,   *)
(* merged with the one being served, or make it moot.                      *)
(*                                                                         *)
(* Names have no digits and queries name no drive mode, so that a query    *)
(* matches addresses only; who wants a train created asks for an exact     *)
(* match, and the default drive mode is filled in for him.                 *)
(***************************************************************************)
EXTENDS TrainNodes

CONSTANTS
    Throttles,      \* the nodes that ask
    Queries,        \* find events: [kind, digits, exact, allocate]
    MaxSearches,    \* bound: requests waiting
    Writable,       \* bound: what each slot of the file may be edited to
    MaxEntries      \* bound: no edit and no creation asked for beyond them

ASSUME TrainSearchAssumption ==
    /\ Queries \subseteq [kind : {"find"}, digits : Nat, exact : BOOLEAN, allocate : BOOLEAN]
    /\ \A q \in Queries : q.allocate => q.exact /\ q.digits \in Addresses
    /\ MaxSearches \in Nat /\ MaxEntries \in Nat
    /\ Writable \in [DOMAIN FileTrains -> SUBSET Slot]

VARIABLES
    searchQueue,    \* requests waiting for the flow
    search,         \* the flow: state, message, nextTrainId_, hasMatches_,
                    \*   cancelIteration_
    pending,        \* pendingGlobalIdentify_ and pendingIsTrain_
    owed            \* history: the answers that must still be given

searchVars == <<searchQueue, search, pending, owed>>
trainSearchVars == <<trainNodesVars, searchVars>>

Global == [kind |-> "global", digits |-> 0, exact |-> FALSE, allocate |-> FALSE]
IsTrain == [Global EXCEPT !.kind = "is_train"]
NoRequest == [event |-> [Global EXCEPT !.kind = "none"], src |-> "none"]
Idle == [state |-> "idle", message |-> NoRequest, next |-> 1, matches |-> FALSE,
         cancel |-> FALSE]

SearchInit ==
    /\ TrainNodesInit
    /\ searchQueue = <<>> /\ search = Idle /\ pending = {} /\ owed = {}

(* match_query_to_node: a query that allocates has a mode filled in, which *)
(* "Unused" does not match.                                                *)
Match(event, train) ==
    /\ event.allocate => Driven(train)
    /\ \/ event.digits = train.address
       \/ /\ ~event.exact /\ event.digits # 0
          /\ \E k \in 1 .. 5 : train.address \div 10^k = event.digits

IsGlobal(event) == event.kind # "find"

-----------------------------------------------------------------------------
(* Requests arrive.                                                        *)
(* mutant: an allocation is cancelled like any other request *)
AnyFollowup(current, next) ==
    /\ current.src = next.src
    /\ \/ current.event = next.event
       \/ /\ current.event.kind = "find" /\ next.event.kind = "find"
          /\ \/ next.event.digits \div 10 = current.event.digits
             \/ current.event.digits \div 10 = next.event.digits

IsFollowup(current, next) ==
    /\ current.src = next.src
    /\ ~current.event.allocate
    /\ \/ current.event = next.event
       \/ /\ current.event.kind = "find" /\ next.event.kind = "find"
          /\ \/ next.event.digits \div 10 = current.event.digits
             \/ current.event.digits \div 10 = next.event.digits

(* history: who has to answer, as long as positions agree; a request that  *)
(* is made moot needs no answer.                                           *)
Due(event) ==
    IF IsGlobal(event) THEN {<<event, trains[i].node>> : i \in DOMAIN trains}
    ELSE IF ~Aligned THEN {}
    ELSE LET found == {a \in {trains[i].node : i \in DOMAIN trains} : Match(event, a)}
         IN  {<<event, a>> :
                a \in found \cup IF found = {} /\ event.allocate THEN {Dcc(event.digits)} ELSE {}}

Moot(request) ==
    /\ IsFollowup(search.message, request)
    /\ \A i \in DOMAIN searchQueue : searchQueue[i].event # search.message.event

Send(request) ==
    /\ searchQueue' = Append(searchQueue, request)
    /\ search' = [search EXCEPT !.cancel = @ \/ IsFollowup(search.message, request)]

Owe(request) ==
    /\ owed' = {o \in owed : Moot(request) => o[1] # search.message.event}
               \cup Due(request.event)
    /\ UNCHANGED trainNodesVars

(* handle_identify_global, not addressed to one node                       *)
HandleIdentifyGlobal(src) ==
    LET request == [event |-> Global, src |-> src] IN
    /\ \/ "global" \in pending /\ UNCHANGED <<searchQueue, search, pending>>
       \/ /\ "global" \notin pending /\ Len(searchQueue) < MaxSearches
          /\ pending' = pending \cup {"global"}
          /\ Send(request)
    /\ Owe(request)

HandleIdentifyProducer(src, event) ==
    LET request == [event |-> event, src |-> src] IN
    /\ Len(searchQueue) < MaxSearches
    /\ pending' = pending \cup (IF event = IsTrain THEN {"is_train"} ELSE {})
    /\ Send(request)
    /\ Owe(request)

-----------------------------------------------------------------------------
(* The flow.                                                               *)
SearchEntry ==
    /\ search.state = "idle" /\ searchQueue # <<>>
    /\ searchQueue' = Tail(searchQueue)
    /\ LET event == Head(searchQueue).event
       IN  IF IsGlobal(event) /\ event.kind \notin pending
           THEN UNCHANGED <<search, pending>>
           ELSE /\ pending' = pending \ {event.kind}
                /\ search' = [Idle EXCEPT !.state = "iterate", !.message = Head(searchQueue)]
    /\ UNCHANGED <<trainNodesVars, owed>>

Event == search.message.event
RestartListing == IsGlobal(Event) /\ Event.kind \in pending

(* iterate, from position n on, and try_traindb_lookup; without a match    *)
(* the flow yields.                                                        *)
(* mutant: a new request is answered from here on only *)
GoesOn(n) ==
    IF IsGlobal(Event)
    THEN search' = [search EXCEPT !.state = "respond", !.next = n]
    ELSE IF n <= Len(entries) /\ Match(Event, NodeOf(entries[n], file))
    THEN search' = [search EXCEPT !.state = "respond", !.next = n, !.matches = TRUE]
    ELSE search' = [search EXCEPT !.state = "iterate", !.next = n + 1]

LookAt(n) ==
    IF IsGlobal(Event)
    THEN search' = [search EXCEPT !.state = "respond", !.next = IF RestartListing THEN 1 ELSE n]
    ELSE IF n <= Len(entries) /\ Match(Event, NodeOf(entries[n], file))
    THEN search' = [search EXCEPT !.state = "respond", !.next = n, !.matches = TRUE]
    ELSE search' = [search EXCEPT !.state = "iterate", !.next = n + 1]

(* iteration_done.  allocate_node gives a node for every query that        *)
(* allocates, since the mode that is filled in can be driven, so that the  *)
(* branch for a node that could not be created is not taken.               *)
IterationDone ==
    IF ~search.matches /\ ~IsGlobal(Event) /\ Event.allocate
    THEN AllocateNode(Event.digits) /\ search' = [search EXCEPT !.state = "new_node"]
    ELSE search' = Idle /\ UNCHANGED trainNodesVars

(* mutant: the notification that was seen is not taken back *)
SeenAgain ==
    /\ search.state = "iterate"
    /\ IF search.next > Len(trains) \/ search.cancel
       THEN IterationDone /\ UNCHANGED pending
       ELSE LookAt(search.next) /\ UNCHANGED <<trainNodesVars, pending>>
    /\ UNCHANGED <<searchQueue, owed>>

Iterate ==
    /\ search.state = "iterate"
    /\ IF search.next > Len(trains) \/ search.cancel
       THEN IterationDone /\ UNCHANGED pending
       ELSE /\ LookAt(search.next)
            /\ pending' = IF RestartListing THEN pending \ {Event.kind} ELSE pending
            /\ UNCHANGED trainNodesVars
    /\ UNCHANGED <<searchQueue, owed>>

(* send_response and, when it has been sent, next_iterate                  *)
SendResponse ==
    /\ search.state = "respond"
    /\ search' = [search EXCEPT !.state = "iterate", !.next = @ + 1]
    /\ owed' = owed \ {<<Event, trains[i].node>> : i \in {search.next} \cap DOMAIN trains}
    /\ UNCHANGED <<trainNodesVars, searchQueue, pending>>

(* wait_for_new_node, new_node_reply, send_new_node_response               *)
NewNodeReply ==
    /\ search.state = "new_node"
    /\ search' = Idle
    /\ owed' = owed \ {<<Event, Dcc(Event.digits)>>}
    /\ UNCHANGED <<trainNodesVars, searchQueue, pending>>

-----------------------------------------------------------------------------
(* The file is edited and the edits applied, at any time.                  *)
Quiescent == search.state = "idle" /\ searchQueue = <<>>

Edit(slot, train) ==
    /\ Len(entries) < MaxEntries /\ train \in Writable[slot]
    /\ EditFile(slot, train)
    /\ owed' = {}
    /\ UNCHANGED <<searchQueue, search, pending>>

EditAddress(slot, address) == Edit(slot, [file[slot] EXCEPT !.address = address])

EditMode(slot, mode) == Edit(slot, [file[slot] EXCEPT !.mode = mode])

Apply ==
    /\ ApplyConfiguration
    /\ owed' = {}
    /\ UNCHANGED <<searchQueue, search, pending>>

AskForTrains == \E src \in Throttles :
    \/ HandleIdentifyGlobal(src)
    \/ \E event \in Queries \cup {IsTrain} :
          /\ event.allocate => Len(entries) < MaxEntries
          /\ HandleIdentifyProducer(src, event)

Flow == SearchEntry \/ Iterate \/ SendResponse \/ NewNodeReply

SearchNext ==
    \/ Flow \/ AskForTrains \/ Apply
    \/ \E slot \in DOMAIN file, address \in Addresses \cup {0} : EditAddress(slot, address)
    \/ \E slot \in DOMAIN file, mode \in Modes : EditMode(slot, mode)

SearchSpec ==
    SearchInit /\ [][SearchNext]_trainSearchVars /\ WF_trainSearchVars(Flow)

-----------------------------------------------------------------------------
SearchTypeOK ==
    /\ search.state \in {"idle", "iterate", "respond", "new_node"}
    /\ search.next \in Nat \ {0}
    /\ pending \subseteq {"global", "is_train"}
    /\ \A i \in DOMAIN trains : /\ trains[i].node \in Slot /\ Driven(trains[i].node)
                                /\ trains[i].id \in DOMAIN entries

(* When the server is idle every train that had to answer has done so:     *)
(* whatever was queued, merged, restarted or cancelled on the way.         *)
EverybodyAnswered == Quiescent => owed = {}

(* Once an edit has been applied the nodes are those of the entries that   *)
(* can be driven: no other and none is missing.                            *)
NodesFollowDb ==
    ~dirty => {trains[i].node : i \in DOMAIN trains}
                = {t \in {NodeOf(entries[i], file) : i \in DOMAIN entries} : Driven(t)}

(* And the id of a node that is there once leads to its own entry: its     *)
(* name, functions and configuration are not another train's.              *)
IdsFollowDb ==
    ~dirty => \A i \in DOMAIN trains :
                 \/ NodeOf(entries[trains[i].id], file) = trains[i].node
                 \/ \E j \in DOMAIN trains \ {i} : trains[j].node = trains[i].node

(* Nodes, their ids and the database are in step, after any edits (a slot  *)
(* cleared, one left "Unused", an address in two slots), applied at any    *)
(* point of a search, and any trains created by searches.                  *)
NodesInStep == SearchTypeOK /\ NodesFollowDb /\ IdsFollowDb

(* Once nobody asks any more, the server comes to rest.                    *)
SearchEnds == <>[][~AskForTrains]_trainSearchVars => []<>Quiescent
=============================================================================
