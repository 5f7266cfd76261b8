----------------------- MODULE ProgrammingTrackProofs -----------------------
(***************************************************************************)
(* Proofs about the programming track frontend, for CVs of any size, any   *)
(* requests, any number of tries and any pool of the track:                *)
(* service mode is left, the RailCom handler is registered while it has to *)
(* be and no longer, and what a client is told of a CV that it has read or *)
(* written in service mode is true (with a page preset that was heard, in  *)
(* paged mode).                                                            *)
(*                                                                         *)
(* The inductive invariant follows a request through the states of the     *)
(* flow.  Every state belongs to certain commands (InPlace), and what      *)
(* matters in it is whether an acknowledgement of an earlier packet can    *)
(* still show up: after the resets it cannot, so that one seen with the    *)
(* verify packet, or with the resets after it, speaks of the CV            *)
(* (Confirmed).                                                            *)
(***************************************************************************)
EXTENDS ProgrammingTrack, TLAPS

ByteWrites == {"DIRECT_WRITE_BYTE", "PAGED_WRITE_BYTE"}

ServiceCommands ==
    {"DIRECT_WRITE_BYTE", "DIRECT_WRITE_BIT", "DIRECT_READ_BYTE",
     "DIRECT_READ_BIT", "PAGED_WRITE_BYTE", "PAGED_VERIFY_BYTE"}

PomStates == {"pom_write_byte", "write_returned", "pom_read_byte", "read_returned"}

PacketType ==
    [op : {"reset", "page", "enter", "exit"}]
    \cup [op : {"write", "verify", "pagedWrite", "pagedVerify"}, value : SUBSET Bits]
    \cup [op : {"writeBit", "verifyBit"}, bit : Bits, on : BOOLEAN]

PomType ==
    [status : {"NOOP", "PENDING", "OK", "BUSY"}, busy : BOOLEAN,
     garbage : BOOLEAN, tries : 0 .. PomTries, ports : 0 .. 1]

(* The CV of decoder d is what the request asked to write, if it is the    *)
(* one that the request is about.                                          *)
Right(r, d) ==
    /\ r.cmd = "DIRECT_WRITE_BYTE" => d.cv = r.value
    /\ r.cmd = "PAGED_WRITE_BYTE" /\ d.page => d.cv = r.value
    /\ r.cmd = "DIRECT_WRITE_BIT" => (r.bit \in d.cv) = r.on

(* The commands that a state of the flow belongs to.                       *)
InPlace ==
    /\ state \in {"send_initial_resets", "enter_service_mode_done"}
         => request.cmd \in ServiceCommands
    /\ state \in {"write_pkt_sent", "write_cooldown_done", "write_verify_cooldown"}
         => request.cmd \in {"DIRECT_WRITE_BYTE", "DIRECT_WRITE_BIT"}
    /\ state = "write_verify_cooldown_done"
         => request.cmd \in ByteWrites \cup {"DIRECT_WRITE_BIT"}
    /\ state \in {"check_next_bit_one", "cooldown_next_bit_one"}
         => request.cmd = "DIRECT_READ_BYTE"
    /\ state \in {"check_final_byte", "cooldown_final_verify"}
         => request.cmd \in {"DIRECT_READ_BYTE", "PAGED_VERIFY_BYTE"}
    /\ state = "send_paged_command"
         => request.cmd \in {"PAGED_WRITE_BYTE", "PAGED_VERIFY_BYTE"}
    /\ state \in {"paged_write_done", "paged_write_cooldown_done"}
         => request.cmd = "PAGED_WRITE_BYTE"
    /\ state = "paged_hard_reset_exit" => request.cmd = "PAGED_WRITE_BYTE" /\ request.reset
    /\ state = "exit_service_mode_done" => request.cmd = "EXIT_SERVICE_MODE"
    /\ state \in PomStates => request.cmd \in {"POM_READ_BYTE", "POM_WRITE_BYTE"}

(* The resets that a packet is followed by.                                *)
Cooling ==
    state \in {"enter_service_mode_done", "write_cooldown_done", "cooldown_next_bit_one",
               "paged_write_cooldown_done", "cooldown_final_verify"}
      => packet.op = "reset"

(* The verify packet that the resets after a paged mode write lead to.     *)
PagedCheck == packet = PagedVerify(request.value) /\ request.cmd = "PAGED_WRITE_BYTE"

(* An acknowledgement that has been seen, or that may still show up, is    *)
(* one of the decoder to the value that will be reported.                  *)
Confirmed ==
    /\ state = "write_verify_cooldown" =>
         /\ ~acks.found /\ ~decoder.late
         /\ packet = IF request.cmd = "DIRECT_WRITE_BYTE" THEN Verify(request.value)
                     ELSE VerifyBit(request.bit, request.on)
    /\ state = "write_verify_cooldown_done" =>
         /\ acks.found \/ decoder.late => Right(request, decoder)
         /\ packet = Reset \/ PagedCheck
    /\ state = "check_final_byte" /\ request.cmd = "DIRECT_READ_BYTE" =>
         ~decoder.late /\ packet = Verify(read.ones)
    /\ state = "cooldown_final_verify" /\ request.cmd = "DIRECT_READ_BYTE" =>
         (decoder.late => read.ones = decoder.cv)

ExitIn(q) == \E k \in DOMAIN q : q[k].cmd = "EXIT_SERVICE_MODE"

(* Also while a POM request is in progress the end of service mode is      *)
(* arranged for.                                                           *)
EndArranged == state \notin ServiceStates /\ inServiceMode => timer \/ ExitIn(queue)

TriesLeft == state \in PomStates => pom.tries < PomTries

FlowInv == PtTypeOK /\ packet \in PacketType /\ InPlace
ServiceInv == FlowInv /\ Cooling /\ Confirmed
PomInv == pom \in PomType /\ TriesLeft /\ ListensWhileWaiting
PtIInv == ServiceInv /\ PomInv /\ EndArranged

-----------------------------------------------------------------------------
(* The request to leave stays in the queue until it is taken.              *)
LEMMA ExitAppended ==
  ASSUME NEW q \in Seq(RequestType), NEW r \in RequestType
  PROVE  /\ Append(q, r) \in Seq(RequestType)
         /\ ExitIn(q) \/ r.cmd = "EXIT_SERVICE_MODE" => ExitIn(Append(q, r))
<1>1. /\ Append(q, r) \in Seq(RequestType)
      /\ Len(q) \in Nat /\ DOMAIN q = 1 .. Len(q)
      /\ DOMAIN Append(q, r) = 1 .. (Len(q) + 1)
      /\ \A k \in 1 .. Len(q) : Append(q, r)[k] = q[k]
      /\ Append(q, r)[Len(q) + 1] = r
  OBVIOUS
<1>2. ASSUME ExitIn(q) PROVE ExitIn(Append(q, r))
  <2>1. PICK k \in 1 .. Len(q) : q[k].cmd = "EXIT_SERVICE_MODE"
    BY <1>1, <1>2 DEF ExitIn
  <2>2. k \in DOMAIN Append(q, r) /\ Append(q, r)[k].cmd = "EXIT_SERVICE_MODE"
    BY <1>1, <2>1
  <2> QED BY <2>2 DEF ExitIn
<1>3. ASSUME r.cmd = "EXIT_SERVICE_MODE" PROVE ExitIn(Append(q, r))
  <2>1. Len(q) + 1 \in DOMAIN Append(q, r)
    BY <1>1
  <2> QED BY <1>1, <1>3, <2>1 DEF ExitIn
<1> QED BY <1>1, <1>2, <1>3

LEMMA ExitBehind ==
  ASSUME NEW q \in Seq(RequestType), q # << >>
  PROVE  /\ Head(q) \in RequestType /\ Tail(q) \in Seq(RequestType)
         /\ ExitIn(q) /\ Head(q).cmd # "EXIT_SERVICE_MODE" => ExitIn(Tail(q))
<1>1. /\ Head(q) = q[1] /\ Tail(q) \in Seq(RequestType) /\ Head(q) \in RequestType
      /\ Len(q) \in Nat /\ DOMAIN q = 1 .. Len(q)
      /\ DOMAIN Tail(q) = 1 .. (Len(q) - 1)
      /\ \A k \in 1 .. (Len(q) - 1) : Tail(q)[k] = q[k + 1]
  OBVIOUS
<1>2. ASSUME ExitIn(q), Head(q).cmd # "EXIT_SERVICE_MODE" PROVE ExitIn(Tail(q))
  <2>1. PICK k \in 1 .. Len(q) : q[k].cmd = "EXIT_SERVICE_MODE"
    BY <1>1, <1>2 DEF ExitIn
  <2>2. k # 1
    BY <1>1, <1>2, <2>1
  <2>3. k - 1 \in DOMAIN Tail(q) /\ Tail(q)[k - 1] = q[k]
    BY <1>1, <2>1, <2>2
  <2> QED BY <2>1, <2>3 DEF ExitIn
<1> QED BY <1>1, <1>2

LEMMA ExitTyped == Exit \in RequestType /\ Exit.cmd = "EXIT_SERVICE_MODE"
BY ProgrammingTrackAssumption DEF Exit, RequestType, Commands, Bits

-----------------------------------------------------------------------------
(* What may come of a packet.                                              *)
LEMMA OutcomeOf ==
  ASSUME FlowInv, NEW r \in Outcomes(packet)
  PROVE  /\ r.cv \in SUBSET Bits /\ r.page \in BOOLEAN /\ r.ack \in BOOLEAN
         /\ \/ packet.op \in {"page", "write", "writeBit", "pagedWrite"}
            \/ r.cv = decoder.cv /\ r.page = decoder.page /\ r.ack = FALSE
            \/ /\ packet.op \in {"verify", "verifyBit", "pagedVerify"}
               /\ r.cv = decoder.cv /\ r.page = decoder.page
               /\ r.ack /\ AboutTheCv(packet) => Found(packet)
<1>0. /\ packet \in PacketType /\ decoder.cv \in SUBSET Bits
      /\ decoder.page \in BOOLEAN /\ decoder.late \in BOOLEAN
  BY DEF FlowInv, PtTypeOK
<1>1. CASE packet.op \in {"write", "writeBit", "pagedWrite"}
  <2>1. Written(packet) \in SUBSET Bits
    BY <1>0, <1>1 DEF PacketType, Written
  <2>2. r \in {[cv |-> decoder.cv, page |-> page, ack |-> FALSE] : page \in {decoder.page}}
              \cup {[cv |-> v, page |-> decoder.page, ack |-> TRUE] :
                       v \in {decoder.cv, Written(packet)}}
    BY <1>1 DEF Outcomes
  <2>3. \/ r = [cv |-> decoder.cv, page |-> decoder.page, ack |-> FALSE]
        \/ r = [cv |-> decoder.cv, page |-> decoder.page, ack |-> TRUE]
        \/ r = [cv |-> Written(packet), page |-> decoder.page, ack |-> TRUE]
    BY <2>2, Zenon
  <2>4. r.cv \in {decoder.cv, Written(packet)} /\ r.page = decoder.page
    BY <2>3
  <2>5. r.ack = FALSE \/ r.ack = TRUE
    BY <2>3
  <2> QED BY <1>0, <1>1, <2>1, <2>4, <2>5
<1>2. CASE packet.op \in {"verify", "verifyBit", "pagedVerify"}
  <2>1. r \in {[cv |-> decoder.cv, page |-> page, ack |-> FALSE] : page \in {decoder.page}}
              \cup {[cv |-> decoder.cv, page |-> decoder.page, ack |-> a] :
                       a \in IF AboutTheCv(packet) THEN {Found(packet)} ELSE BOOLEAN}
    BY <1>2 DEF Outcomes
  <2>2. Found(packet) \in BOOLEAN
    BY <1>0, <1>2 DEF PacketType, Found
  <2>3. \/ r = [cv |-> decoder.cv, page |-> decoder.page, ack |-> FALSE]
        \/ \E a \in IF AboutTheCv(packet) THEN {Found(packet)} ELSE BOOLEAN :
              r = [cv |-> decoder.cv, page |-> decoder.page, ack |-> a]
    BY <2>1, Zenon
  <2>4. \E a \in BOOLEAN :
           /\ r = [cv |-> decoder.cv, page |-> decoder.page, ack |-> a]
           /\ a /\ AboutTheCv(packet) => Found(packet)
    BY <2>2, <2>3
  <2>5. PICK a \in BOOLEAN :
           /\ r = [cv |-> decoder.cv, page |-> decoder.page, ack |-> a]
           /\ a /\ AboutTheCv(packet) => Found(packet)
    BY <2>4
  <2>6. r.cv = decoder.cv /\ r.page = decoder.page /\ r.ack = a
    BY <2>5
  <2> QED BY <1>0, <1>2, <2>5, <2>6
<1>3. CASE packet.op = "page"
  <2>1. r \in {[cv |-> decoder.cv, page |-> page, ack |-> FALSE] : page \in BOOLEAN}
              \cup {[cv |-> decoder.cv, page |-> TRUE, ack |-> TRUE]}
    BY <1>3 DEF Outcomes
  <2>2. \E page, ack \in BOOLEAN : r = [cv |-> decoder.cv, page |-> page, ack |-> ack]
    BY <2>1
  <2>3. r.cv = decoder.cv /\ r.page \in BOOLEAN /\ r.ack \in BOOLEAN
    BY <2>2
  <2> QED BY <1>0, <1>3, <2>3
<1>4. CASE packet.op \notin {"page", "write", "writeBit", "pagedWrite",
                             "verify", "verifyBit", "pagedVerify"}
  <2>1. r \in {[cv |-> decoder.cv, page |-> page, ack |-> FALSE] : page \in {decoder.page}}
    BY <1>4 DEF Outcomes
  <2>2. r = [cv |-> decoder.cv, page |-> decoder.page, ack |-> FALSE]
    BY <2>1
  <2>3. r.cv = decoder.cv /\ r.page = decoder.page /\ r.ack = FALSE
    BY <2>2
  <2> QED BY <1>0, <2>3
<1> QED BY <1>1, <1>2, <1>3, <1>4

(* What an acknowledgement says: while resets are sent it is a late one,   *)
(* and there is none left after them; with a verify packet it is the       *)
(* decoder's answer, unless one was late.                                  *)
LEMMA BackendSays ==
  ASSUME FlowInv, NEW s, NEW ack \in BOOLEAN, BackendReturns(s, ack)
  PROVE  /\ decoder' \in [cv : SUBSET Bits, page : BOOLEAN, late : BOOLEAN]
         /\ packet.op = "reset" =>
              /\ decoder'.cv = decoder.cv /\ decoder'.page = decoder.page
              /\ ~decoder'.late /\ (ack => decoder.late)
         /\ packet.op \in {"verify", "verifyBit", "pagedVerify"} =>
              /\ decoder'.cv = decoder.cv /\ decoder'.page = decoder.page
              /\ ack \/ decoder'.late => decoder.late \/ (AboutTheCv(packet) => Found(packet))
<1>1. PICK r \in Outcomes(packet) :
        /\ ack => r.ack \/ decoder.late
        /\ \E late \in {FALSE, r.ack} :
              decoder' = [cv |-> r.cv, page |-> r.page, late |-> late]
  BY DEF BackendReturns
<1>2. PICK late \in {FALSE, r.ack} : decoder' = [cv |-> r.cv, page |-> r.page, late |-> late]
  BY <1>1
<1>3. /\ r.cv \in SUBSET Bits /\ r.page \in BOOLEAN /\ r.ack \in BOOLEAN
      /\ \/ packet.op \in {"page", "write", "writeBit", "pagedWrite"}
         \/ r.cv = decoder.cv /\ r.page = decoder.page /\ r.ack = FALSE
         \/ /\ packet.op \in {"verify", "verifyBit", "pagedVerify"}
            /\ r.cv = decoder.cv /\ r.page = decoder.page
            /\ r.ack /\ AboutTheCv(packet) => Found(packet)
  BY OutcomeOf
<1>4. late \in BOOLEAN /\ (late => r.ack)
  BY <1>2, <1>3
<1>5. decoder'.cv = r.cv /\ decoder'.page = r.page /\ decoder'.late = late
  BY <1>2
<1>6. decoder' \in [cv : SUBSET Bits, page : BOOLEAN, late : BOOLEAN]
  BY <1>2, <1>3, <1>4
<1>7. ASSUME packet.op = "reset"
      PROVE  /\ decoder'.cv = decoder.cv /\ decoder'.page = decoder.page
             /\ ~decoder'.late /\ (ack => decoder.late)
  BY <1>1, <1>3, <1>4, <1>5, <1>7
<1>8. ASSUME packet.op \in {"verify", "verifyBit", "pagedVerify"}
      PROVE  /\ decoder'.cv = decoder.cv /\ decoder'.page = decoder.page
             /\ ack \/ decoder'.late => decoder.late \/ (AboutTheCv(packet) => Found(packet))
  BY <1>1, <1>3, <1>4, <1>5, <1>8
<1> QED BY <1>6, <1>7, <1>8

-----------------------------------------------------------------------------
AckType == [found : BOOLEAN, write : BOOLEAN]
ReadType == [bit : Bits, ones : SUBSET Bits]

LEMMA StartTyped ==
  /\ NoAcks \in AckType /\ NothingRead \in ReadType
  /\ Reset \in PacketType /\ Reset.op = "reset"
  /\ NoPom \in PomType
<1>1. NothingRead \in ReadType
  BY ProgrammingTrackAssumption DEF NothingRead, ReadType, Bits
<1>2. NoPom \in PomType
  BY ProgrammingTrackAssumption DEF NoPom, PomType
<1>3. NoAcks \in AckType
  BY DEF NoAcks, AckType
<1> QED BY <1>1, <1>2, <1>3 DEF Reset, PacketType

(* After the backend has returned the types hold if they hold of what the  *)
(* flow does next.                                                         *)
LEMMA BackendTyped ==
  ASSUME FlowInv, NEW s, NEW ack \in BOOLEAN, BackendReturns(s, ack),
         state' \in ServiceStates \cup {"idle"}, timer' \in BOOLEAN,
         acks' \in AckType, read' \in ReadType
  PROVE  PtTypeOK'
<1>1. decoder' \in [cv : SUBSET Bits, page : BOOLEAN, late : BOOLEAN]
  BY BackendSays
<1>2. UNCHANGED <<queue, request, inServiceMode, pom, air>>
  BY DEF BackendReturns, pomVars
<1> QED BY <1>1, <1>2 DEF FlowInv, PtTypeOK, AckType, ReadType

(* The request is set going in service mode.                               *)
LEMMA ServiceStarts ==
  ASSUME ActServiceMode, request' \in RequestType, request'.cmd \in ServiceCommands
  PROVE  /\ acks' \in AckType /\ read' \in ReadType /\ packet' \in PacketType
         /\ InPlace' /\ Cooling' /\ Confirmed'
         /\ \/ state' \in ServiceStates /\ timer' = timer
            \/ state' = "idle" /\ timer' = TRUE /\ resultCode' = "UNIMPLEMENTED"
<1>1. acks' \in AckType /\ read' \in ReadType
  BY StartTyped DEF ActServiceMode, ClearScratch
<1>2. request'.value \in SUBSET Bits /\ request'.bit \in Bits /\ request'.on \in BOOLEAN
  BY DEF RequestType
<1>3. CASE request'.cmd = "DIRECT_READ_BIT"
  <2>1. state' = "idle" /\ timer' = TRUE /\ resultCode' = "UNIMPLEMENTED" /\ packet' = Reset
    BY <1>3 DEF ActServiceMode, DoneAndReturn, Return
  <2>2. InPlace' /\ Cooling' /\ Confirmed'
    BY <2>1 DEF InPlace, Cooling, Confirmed, PomStates
  <2> QED BY <1>1, <2>1, <2>2, StartTyped
<1>4. CASE request'.cmd = "DIRECT_READ_BYTE"
  <2>1. state' = "check_next_bit_one" /\ timer' = timer /\ packet' = VerifyBit(0, TRUE)
    BY <1>4 DEF ActServiceMode, Invoke
  <2>2. packet' \in PacketType
    BY <2>1, ProgrammingTrackAssumption DEF PacketType, VerifyBit, Bits
  <2>3. InPlace' /\ Cooling' /\ Confirmed'
    BY <1>4, <2>1 DEF InPlace, Cooling, Confirmed, PomStates
  <2> QED BY <1>1, <2>1, <2>2, <2>3 DEF ServiceStates
<1>5. CASE request'.cmd \in {"DIRECT_WRITE_BYTE", "DIRECT_WRITE_BIT"}
  <2>1. /\ state' = "write_pkt_sent" /\ timer' = timer
        /\ \/ packet' = [op |-> "write", value |-> request'.value]
           \/ packet' = [op |-> "writeBit", bit |-> request'.bit, on |-> request'.on]
    BY <1>5 DEF ActServiceMode, Invoke
  <2>2. packet' \in PacketType
    BY <1>2, <2>1 DEF PacketType
  <2>3. InPlace' /\ Cooling' /\ Confirmed'
    BY <1>5, <2>1 DEF InPlace, Cooling, Confirmed, PomStates
  <2> QED BY <1>1, <2>1, <2>2, <2>3 DEF ServiceStates
<1>6. CASE request'.cmd \in {"PAGED_WRITE_BYTE", "PAGED_VERIFY_BYTE"}
  <2>1. state' = "send_paged_command" /\ timer' = timer /\ packet' = [op |-> "page"]
    BY <1>6 DEF ActServiceMode, Invoke
  <2>2. packet' \in PacketType
    BY <2>1 DEF PacketType
  <2>3. InPlace' /\ Cooling' /\ Confirmed'
    BY <1>6, <2>1 DEF InPlace, Cooling, Confirmed, PomStates
  <2> QED BY <1>1, <2>1, <2>2, <2>3 DEF ServiceStates
<1> QED BY <1>3, <1>4, <1>5, <1>6 DEF ServiceCommands

-----------------------------------------------------------------------------
(* What a step that ends a request with success promises about the CV.     *)
Truthful ==
    state # "idle" /\ state' = "idle" /\ resultCode' = "OK" =>
        /\ request.cmd = "DIRECT_READ_BYTE" => read'.ones = decoder'.cv
        /\ request.cmd # "PAGED_WRITE_BYTE" \/ ~request.reset => Right(request, decoder')

(* What every step of service mode does.                                   *)
Leg ==
    /\ ServiceInv' /\ Truthful
    /\ UNCHANGED <<request, inServiceMode, pom, air>>
    /\ state \in ServiceStates
    /\ \/ state' \in ServiceStates
       \/ state' = "idle" /\ (timer' = TRUE \/ ExitIn(queue'))

(* A step of service mode keeps the invariant, and reports a success only  *)
(* of what the decoder has confirmed: one lemma per kind of step.          *)
LEMMA ShortKeeps ==
  ASSUME ServiceInv, PgmShort
  PROVE  Leg
<1>1. /\ state' = "idle" /\ resultCode' = "PGM_SHORT" /\ packet' = Reset
      /\ queue' = Append(queue, Exit)
      /\ UNCHANGED <<request, timer, inServiceMode, acks, read, pom, air>>
  BY DEF PgmShort, Return, pomVars
<1>2. PICK r \in Outcomes(packet) : decoder' = [cv |-> r.cv, page |-> r.page, late |-> FALSE]
  BY DEF PgmShort
<1>3. r.cv \in SUBSET Bits /\ r.page \in BOOLEAN
  BY OutcomeOf DEF ServiceInv
<1>4. decoder' \in [cv : SUBSET Bits, page : BOOLEAN, late : BOOLEAN]
  BY <1>2, <1>3
<1>5. queue' \in Seq(RequestType) /\ ExitIn(queue')
  BY <1>1, ExitAppended, ExitTyped DEF ServiceInv, FlowInv, PtTypeOK
<1>6. PtTypeOK'
  BY <1>1, <1>4, <1>5 DEF ServiceInv, FlowInv, PtTypeOK
<1>7. InPlace' /\ Cooling' /\ Confirmed' /\ Truthful
  BY <1>1 DEF InPlace, Cooling, Confirmed, PomStates, Truthful
<1>8. state \in ServiceStates
  BY DEF PgmShort
<1> QED BY <1>1, <1>5, <1>6, <1>7, <1>8, StartTyped DEF Leg, ServiceInv, FlowInv, ServiceStates

LEMMA EnterKeeps ==
  ASSUME ServiceInv, SendInitialResets \/ EnterServiceModeDone
  PROVE  Leg
<1>0. FlowInv /\ timer \in BOOLEAN /\ acks \in AckType /\ read \in ReadType
  BY DEF ServiceInv, FlowInv, PtTypeOK, AckType, ReadType
<1>1. CASE SendInitialResets
  <2>1. /\ BackendReturns("send_initial_resets", FALSE)
        /\ state = "send_initial_resets"
        /\ state' = "enter_service_mode_done" /\ packet' = Reset
        /\ UNCHANGED <<queue, request, inServiceMode, pom, air, timer, acks, read>>
    BY <1>1 DEF SendInitialResets, BackendReturns, Invoke, pomVars
  <2>2. PtTypeOK'
    BY <1>0, <2>1, BackendTyped DEF ServiceStates
  <2>3. InPlace' /\ Cooling' /\ Confirmed' /\ Truthful
    BY <2>1, StartTyped DEF ServiceInv, FlowInv, InPlace, Cooling, Confirmed, PomStates, Truthful
  <2> QED BY <2>1, <2>2, <2>3, StartTyped DEF Leg, ServiceInv, FlowInv, ServiceStates
<1>2. CASE EnterServiceModeDone
  <2>1. /\ BackendReturns("enter_service_mode_done", FALSE)
        /\ state = "enter_service_mode_done" /\ ActServiceMode
        /\ UNCHANGED <<queue, request, inServiceMode, pom, air>>
    BY <1>2 DEF EnterServiceModeDone, BackendReturns, pomVars
  <2>2. request' \in RequestType /\ request'.cmd \in ServiceCommands
    BY <2>1 DEF ServiceInv, FlowInv, PtTypeOK, InPlace
  <2>3. /\ acks' \in AckType /\ read' \in ReadType /\ packet' \in PacketType
        /\ InPlace' /\ Cooling' /\ Confirmed'
        /\ \/ state' \in ServiceStates /\ timer' = timer
           \/ state' = "idle" /\ timer' = TRUE /\ resultCode' = "UNIMPLEMENTED"
    BY <2>1, <2>2, ServiceStarts
  <2>4. PtTypeOK'
    <3>1. timer' \in BOOLEAN /\ state' \in ServiceStates \cup {"idle"}
      BY <1>0, <2>3
    <3> QED BY <1>0, <2>1, <2>3, <3>1, BackendTyped
  <2>5. Truthful
    BY <2>3 DEF Truthful, ServiceStates
  <2> QED BY <2>1, <2>3, <2>4, <2>5 DEF Leg, ServiceInv, FlowInv, ServiceStates
<1> QED BY <1>1, <1>2

(* The acknowledgements of a write, and those of the verify after it.      *)
LEMMA AcksGathered ==
  ASSUME NEW ack \in BOOLEAN, acks \in AckType
  PROVE  /\ [acks EXCEPT !.found = @ \/ ack] \in AckType
         /\ [acks EXCEPT !.found = @ \/ ack].found = (acks.found \/ ack)
         /\ [acks EXCEPT !.found = @ \/ ack].write = acks.write
         /\ [found |-> FALSE, write |-> acks.found \/ ack] \in AckType
BY DEF AckType

LEMMA WriteKeeps ==
  ASSUME ServiceInv, NEW ack \in BOOLEAN,
         WritePktSent(ack) \/ WriteCooldownDone(ack) \/ PagedWriteDone(ack)
  PROVE  Leg
<1>0. FlowInv /\ timer \in BOOLEAN /\ acks \in AckType /\ read \in ReadType /\ request \in RequestType
  BY DEF ServiceInv, FlowInv, PtTypeOK, AckType, ReadType
<1>1. CASE WritePktSent(ack) \/ PagedWriteDone(ack)
  <2>1. /\ \E s : BackendReturns(s, ack)
        /\ \/ state = "write_pkt_sent" /\ state' = "write_cooldown_done"
           \/ state = "paged_write_done" /\ state' = "paged_write_cooldown_done"
        /\ packet' = Reset /\ acks' = [acks EXCEPT !.found = @ \/ ack]
        /\ UNCHANGED <<request, inServiceMode, pom, air, timer, read>>
    BY <1>1 DEF WritePktSent, PagedWriteDone, BackendReturns, Invoke, pomVars
  <2>2. PtTypeOK'
    <3>1. acks' \in AckType
      BY <1>0, <2>1, AcksGathered
    <3> QED BY <1>0, <2>1, <3>1, BackendTyped DEF ServiceStates
  <2>3. InPlace' /\ Cooling' /\ Confirmed' /\ Truthful
    BY <2>1, StartTyped DEF ServiceInv, FlowInv, InPlace, Cooling, Confirmed, PomStates, Truthful
  <2> QED BY <2>1, <2>2, <2>3, StartTyped DEF Leg, ServiceInv, FlowInv, ServiceStates
<1>2. CASE WriteCooldownDone(ack)
  <2>1. /\ BackendReturns("write_cooldown_done", ack)
        /\ state = "write_cooldown_done" /\ state' = "write_verify_cooldown"
        /\ packet' = IF request.cmd = "DIRECT_WRITE_BYTE" THEN Verify(request.value)
                     ELSE VerifyBit(request.bit, request.on)
        /\ acks' = [found |-> FALSE, write |-> acks.found \/ ack]
        /\ UNCHANGED <<request, inServiceMode, pom, air, timer, read>>
    BY <1>2 DEF WriteCooldownDone, BackendReturns, Invoke, pomVars
  <2>2. PtTypeOK'
    <3>1. acks' \in AckType
      BY <1>0, <2>1, AcksGathered
    <3> QED BY <1>0, <2>1, <3>1, BackendTyped DEF ServiceStates
  <2>3. packet' \in PacketType
    BY <1>0, <2>1 DEF PacketType, Verify, VerifyBit, RequestType
  <2>4. InPlace' /\ Cooling' /\ Truthful
    BY <2>1 DEF ServiceInv, FlowInv, InPlace, Cooling, PomStates, Truthful
  <2>5. Confirmed'
    <3>1. ~acks'.found
      BY <2>1
    <3>2. ~decoder'.late
      BY <1>0, <2>1, BackendSays DEF ServiceInv, Cooling
    <3> QED BY <2>1, <3>1, <3>2 DEF Confirmed
  <2> QED BY <2>1, <2>2, <2>3, <2>4, <2>5 DEF Leg, ServiceInv, FlowInv, ServiceStates
<1> QED BY <1>1, <1>2

(* What the decoder finds as it was told is what the request wrote.        *)
LEMMA FoundIsRight ==
  ASSUME NEW d, d.cv = decoder.cv, d.page = decoder.page,
         \/ packet = Verify(request.value) /\ request.cmd = "DIRECT_WRITE_BYTE"
         \/ packet = VerifyBit(request.bit, request.on) /\ request.cmd = "DIRECT_WRITE_BIT"
         \/ PagedCheck,
         AboutTheCv(packet) => Found(packet)
  PROVE  Right(request, d)
<1>1. CASE packet = Verify(request.value) /\ request.cmd = "DIRECT_WRITE_BYTE"
  <2>1. packet.op = "verify" /\ packet.value = request.value
    BY <1>1 DEF Verify
  <2> QED BY <1>1, <2>1 DEF Found, Right, AboutTheCv
<1>2. CASE packet = VerifyBit(request.bit, request.on) /\ request.cmd = "DIRECT_WRITE_BIT"
  <2>1. packet.op = "verifyBit" /\ packet.bit = request.bit /\ packet.on = request.on
    BY <1>2 DEF VerifyBit
  <2> QED BY <1>2, <2>1 DEF Found, Right, AboutTheCv
<1>3. CASE PagedCheck
  <2>1. packet.op = "pagedVerify" /\ packet.value = request.value
    BY <1>3 DEF PagedVerify, PagedCheck
  <2> QED BY <1>3, <2>1 DEF Found, Right, AboutTheCv, PagedCheck
<1> QED BY <1>1, <1>2, <1>3

LEMMA VerifyKeeps ==
  ASSUME ServiceInv, NEW ack \in BOOLEAN,
         WriteVerifyCooldown(ack) \/ WriteVerifyCooldownDone(ack)
  PROVE  Leg
<1>0. FlowInv /\ timer \in BOOLEAN /\ acks \in AckType /\ read \in ReadType /\ request \in RequestType
  BY DEF ServiceInv, FlowInv, PtTypeOK, AckType, ReadType
<1>1. CASE WriteVerifyCooldown(ack)
  <2>1. /\ BackendReturns("write_verify_cooldown", ack)
        /\ state = "write_verify_cooldown" /\ state' = "write_verify_cooldown_done"
        /\ packet' = Reset /\ acks' = [acks EXCEPT !.found = @ \/ ack]
        /\ UNCHANGED <<request, inServiceMode, pom, air, timer, read>>
    BY <1>1 DEF WriteVerifyCooldown, BackendReturns, Invoke, pomVars
  <2>2. acks' \in AckType /\ acks'.found = (acks.found \/ ack)
    BY <1>0, <2>1, AcksGathered
  <2>3. PtTypeOK'
    BY <1>0, <2>1, <2>2, BackendTyped DEF ServiceStates
  <2>4. InPlace' /\ Cooling' /\ Truthful
    BY <2>1 DEF ServiceInv, FlowInv, InPlace, Cooling, PomStates, Truthful, ByteWrites
  <2>5. Confirmed'
    <3>1. /\ ~acks.found /\ ~decoder.late
          /\ \/ packet = Verify(request.value) /\ request.cmd = "DIRECT_WRITE_BYTE"
             \/ packet = VerifyBit(request.bit, request.on) /\ request.cmd = "DIRECT_WRITE_BIT"
      BY <2>1 DEF ServiceInv, FlowInv, InPlace, Confirmed, ByteWrites
    <3>2. packet.op \in {"verify", "verifyBit"}
      BY <3>1 DEF Verify, VerifyBit
    <3>3. /\ decoder'.cv = decoder.cv /\ decoder'.page = decoder.page
          /\ ack \/ decoder'.late => decoder.late \/ (AboutTheCv(packet) => Found(packet))
      BY <1>0, <2>1, <3>2, BackendSays
    <3>4. acks'.found \/ decoder'.late => Right(request, decoder')
      BY <2>2, <3>1, <3>3, FoundIsRight
    <3> QED BY <2>1, <3>4 DEF Confirmed
  <2> QED BY <2>1, <2>3, <2>4, <2>5, StartTyped DEF Leg, ServiceInv, FlowInv, ServiceStates
<1>2. CASE WriteVerifyCooldownDone(ack)
  <2>1. /\ BackendReturns("write_verify_cooldown_done", ack)
        /\ state = "write_verify_cooldown_done" /\ state' = "idle"
        /\ packet' = Reset /\ timer' = TRUE
        /\ acks' = [acks EXCEPT !.found = @ \/ ack]
        /\ resultCode' = IF acks'.found THEN "OK"
                         ELSE IF acks.write THEN "FAILED_VERIFY" ELSE "NO_LOCO"
        /\ UNCHANGED <<request, inServiceMode, pom, air, read>>
    BY <1>2 DEF WriteVerifyCooldownDone, BackendReturns, DoneAndReturn, Return, pomVars
  <2>2. acks' \in AckType /\ acks'.found = (acks.found \/ ack)
    BY <1>0, <2>1, AcksGathered
  <2>3. PtTypeOK'
    BY <1>0, <2>1, <2>2, BackendTyped
  <2>4. InPlace' /\ Cooling' /\ Confirmed'
    BY <2>1 DEF InPlace, Cooling, Confirmed, PomStates
  <2>5. Truthful
    <3>1. /\ acks.found \/ decoder.late => Right(request, decoder)
          /\ packet = Reset \/ PagedCheck
          /\ request.cmd # "DIRECT_READ_BYTE"
      BY <2>1 DEF ServiceInv, FlowInv, InPlace, Confirmed, ByteWrites
    <3>2. /\ decoder'.cv = decoder.cv /\ decoder'.page = decoder.page
          /\ ack => decoder.late \/ Right(request, decoder)
      <4>1. CASE packet = Reset
        BY <1>0, <2>1, <4>1, BackendSays, StartTyped
      <4>2. CASE PagedCheck
        <5>1. packet.op = "pagedVerify"
          BY <4>2 DEF PagedVerify, PagedCheck
        <5>2. /\ decoder'.cv = decoder.cv /\ decoder'.page = decoder.page
              /\ ack \/ decoder'.late => decoder.late \/ (AboutTheCv(packet) => Found(packet))
          BY <1>0, <2>1, <5>1, BackendSays
        <5> QED BY <4>2, <5>2, FoundIsRight
      <4> QED BY <3>1, <4>1, <4>2
    <3>3. resultCode' = "OK" => acks.found \/ ack
      BY <2>1, <2>2
    <3>4. Right(request, decoder) => Right(request, decoder')
      BY <3>2 DEF Right
    <3> QED BY <3>1, <3>2, <3>3, <3>4 DEF Truthful
  <2> QED BY <2>1, <2>3, <2>4, <2>5, StartTyped DEF Leg, ServiceInv, FlowInv, ServiceStates
<1> QED BY <1>1, <1>2

(* The bits of a byte are read one by one.  After the resets that follow   *)
(* the last one no acknowledgement is late.                                *)
LEMMA ReadKeeps ==
  ASSUME ServiceInv, NEW ack \in BOOLEAN,
         CheckNextBitOne(ack) \/ CooldownNextBitOne(ack)
  PROVE  Leg
<1> DEFINE ones == IF ack THEN read.ones \cup {read.bit} ELSE read.ones
<1>0. /\ FlowInv /\ timer \in BOOLEAN /\ acks \in AckType
      /\ read \in ReadType /\ read.bit \in Bits /\ read.ones \in SUBSET Bits
  BY DEF ServiceInv, FlowInv, PtTypeOK, AckType, ReadType
<1>1. ones \in SUBSET Bits
  BY <1>0
<1> HIDE DEF ones
<1>2. CASE CheckNextBitOne(ack)
  <2>1. /\ BackendReturns("check_next_bit_one", ack)
        /\ state = "check_next_bit_one" /\ state' = "cooldown_next_bit_one"
        /\ packet' = Reset /\ read' = [read EXCEPT !.ones = ones]
        /\ UNCHANGED <<request, inServiceMode, pom, air, timer, acks>>
    BY <1>2 DEF CheckNextBitOne, BackendReturns, Invoke, pomVars, ones
  <2>2. PtTypeOK'
    <3>1. read' \in ReadType
      BY <1>0, <1>1, <2>1 DEF ReadType
    <3> QED BY <1>0, <2>1, <3>1, BackendTyped DEF ServiceStates
  <2>3. InPlace' /\ Cooling' /\ Confirmed' /\ Truthful
    BY <2>1, StartTyped DEF ServiceInv, FlowInv, InPlace, Cooling, Confirmed, PomStates, Truthful
  <2> QED BY <2>1, <2>2, <2>3, StartTyped DEF Leg, ServiceInv, FlowInv, ServiceStates
<1>3. CASE CooldownNextBitOne(ack)
  <2>1. /\ BackendReturns("cooldown_next_bit_one", ack)
        /\ state = "cooldown_next_bit_one"
        /\ \/ /\ state' = "check_final_byte" /\ packet' = Verify(ones)
              /\ read' = [read EXCEPT !.ones = ones]
           \/ /\ read.bit # LastBit
              /\ state' = "check_next_bit_one" /\ packet' = VerifyBit(read.bit + 1, TRUE)
              /\ read' = [bit |-> read.bit + 1, ones |-> ones]
        /\ UNCHANGED <<request, inServiceMode, pom, air, timer, acks>>
    BY <1>3 DEF CooldownNextBitOne, BackendReturns, Invoke, pomVars, ones
  <2>2. read.bit # LastBit => read.bit + 1 \in Bits
    BY <1>0, ProgrammingTrackAssumption DEF Bits
  <2>3. read' \in ReadType /\ packet' \in PacketType
    <3>1. read' \in ReadType
      <4>1. [read EXCEPT !.ones = ones] \in ReadType
        BY <1>0, <1>1 DEF ReadType
      <4>2. read.bit # LastBit => [bit |-> read.bit + 1, ones |-> ones] \in ReadType
        BY <1>1, <2>2 DEF ReadType
      <4> QED BY <2>1, <4>1, <4>2
    <3>2. Verify(ones) \in PacketType
      BY <1>1 DEF PacketType, Verify
    <3>3. read.bit # LastBit => VerifyBit(read.bit + 1, TRUE) \in PacketType
      BY <2>2 DEF PacketType, VerifyBit
    <3> QED BY <2>1, <3>1, <3>2, <3>3
  <2>4. PtTypeOK'
    BY <1>0, <2>1, <2>3, BackendTyped DEF ServiceStates
  <2>5. InPlace' /\ Cooling' /\ Truthful
    BY <2>1 DEF ServiceInv, FlowInv, InPlace, Cooling, PomStates, Truthful
  <2>6. ~decoder'.late
    BY <1>0, <2>1, BackendSays DEF ServiceInv, Cooling
  <2>7. state' = "check_final_byte" => packet' = Verify(read'.ones)
    BY <1>0, <2>1 DEF ReadType
  <2>8. Confirmed'
    BY <2>1, <2>6, <2>7 DEF Confirmed
  <2> QED BY <2>1, <2>3, <2>4, <2>5, <2>8 DEF Leg, ServiceInv, FlowInv, ServiceStates
<1> QED BY <1>2, <1>3

(* The byte that was put together is verified, at once or, when the        *)
(* acknowledgement is late, during the resets.                             *)
LEMMA FinalKeeps ==
  ASSUME ServiceInv, NEW ack \in BOOLEAN,
         CheckFinalByte(ack) \/ CooldownFinalVerify(ack)
  PROVE  Leg
<1>0. FlowInv /\ timer \in BOOLEAN /\ acks \in AckType /\ read \in ReadType
  BY DEF ServiceInv, FlowInv, PtTypeOK, AckType, ReadType
<1>1. /\ state \in {"check_final_byte", "cooldown_final_verify"} /\ BackendReturns(state, ack)
      /\ packet' = Reset
      /\ \/ state = "check_final_byte" /\ state' = "cooldown_final_verify" /\ timer' = timer
         \/ state' = "idle" /\ timer' = TRUE /\ (resultCode' = "OK" => ack)
      /\ UNCHANGED <<request, inServiceMode, pom, air, acks, read>>
  BY DEF CheckFinalByte, CooldownFinalVerify, BackendReturns, Invoke, DoneAndReturn, Return, pomVars
<1>2. PtTypeOK'
  <2>1. timer' \in BOOLEAN /\ state' \in ServiceStates \cup {"idle"}
    BY <1>0, <1>1 DEF ServiceStates
  <2> QED BY <1>0, <1>1, <2>1, BackendTyped
<1>3. InPlace' /\ Cooling'
  BY <1>1, StartTyped DEF ServiceInv, FlowInv, InPlace, Cooling, PomStates
<1>4. ASSUME request.cmd = "DIRECT_READ_BYTE"
      PROVE  ack \/ decoder'.late => read.ones = decoder'.cv
  <2>1. CASE state = "check_final_byte"
    <3>1. ~decoder.late /\ packet = Verify(read.ones)
      BY <1>4, <2>1 DEF ServiceInv, Confirmed
    <3>2. packet.op = "verify" /\ packet.value = read.ones
      BY <3>1 DEF Verify
    <3>3. /\ decoder'.cv = decoder.cv
          /\ ack \/ decoder'.late => decoder.late \/ (AboutTheCv(packet) => Found(packet))
      BY <1>0, <1>1, <3>2, BackendSays
    <3> QED BY <3>1, <3>2, <3>3 DEF Found, AboutTheCv
  <2>2. CASE state = "cooldown_final_verify"
    <3>1. (decoder.late => read.ones = decoder.cv) /\ packet.op = "reset"
      BY <1>4, <2>2 DEF ServiceInv, Confirmed, Cooling
    <3>2. decoder'.cv = decoder.cv /\ ~decoder'.late /\ (ack => decoder.late)
      BY <1>0, <1>1, <3>1, BackendSays
    <3> QED BY <3>1, <3>2
  <2> QED BY <1>1, <2>1, <2>2
<1>5. Confirmed'
  BY <1>1, <1>4 DEF Confirmed
<1>6. Truthful
  <2>1. request.cmd \in {"DIRECT_READ_BYTE", "PAGED_VERIFY_BYTE"}
    BY <1>1 DEF ServiceInv, FlowInv, InPlace
  <2> QED BY <1>1, <1>4, <2>1 DEF Truthful, Right
<1> QED BY <1>1, <1>2, <1>3, <1>5, <1>6, StartTyped DEF Leg, ServiceInv, FlowInv, ServiceStates

(* Paged mode: after the resets no acknowledgement of the write is late.   *)
LEMMA PagedKeeps ==
  ASSUME ServiceInv, NEW ack \in BOOLEAN,
         SendPagedCommand \/ PagedWriteCooldownDone(ack) \/ PagedHardResetExit(ack)
  PROVE  Leg
<1>0. FlowInv /\ timer \in BOOLEAN /\ acks \in AckType /\ read \in ReadType /\ request \in RequestType
  BY DEF ServiceInv, FlowInv, PtTypeOK, AckType, ReadType
<1>1. CASE SendPagedCommand
  <2>1. /\ BackendReturns("send_paged_command", FALSE) /\ state = "send_paged_command"
        /\ \/ /\ request.cmd = "PAGED_WRITE_BYTE" /\ state' = "paged_write_done"
              /\ packet' = [op |-> "pagedWrite", value |-> request.value]
           \/ /\ request.cmd # "PAGED_WRITE_BYTE" /\ state' = "check_final_byte"
              /\ packet' = PagedVerify(request.value)
        /\ UNCHANGED <<request, inServiceMode, pom, air, timer, acks, read>>
    BY <1>1 DEF SendPagedCommand, BackendReturns, Invoke, pomVars
  <2>2. PtTypeOK'
    BY <1>0, <2>1, BackendTyped DEF ServiceStates
  <2>3. packet' \in PacketType
    BY <1>0, <2>1 DEF PacketType, PagedVerify, RequestType
  <2>4. InPlace' /\ Cooling' /\ Confirmed' /\ Truthful
    BY <2>1 DEF ServiceInv, FlowInv, InPlace, Cooling, Confirmed, PomStates, Truthful
  <2> QED BY <2>1, <2>2, <2>3, <2>4 DEF Leg, ServiceInv, FlowInv, ServiceStates
<1>2. CASE PagedWriteCooldownDone(ack)
  <2>1. /\ BackendReturns("paged_write_cooldown_done", ack) /\ state = "paged_write_cooldown_done"
        /\ \/ request.reset /\ state' = "paged_hard_reset_exit" /\ packet' = Reset
           \/ state' = "write_verify_cooldown_done" /\ packet' = PagedVerify(request.value)
        /\ acks' = [found |-> FALSE, write |-> acks.found \/ ack]
        /\ UNCHANGED <<request, inServiceMode, pom, air, timer, read>>
    BY <1>2 DEF PagedWriteCooldownDone, BackendReturns, Invoke, pomVars
  <2>2. PtTypeOK'
    <3>1. acks' \in AckType
      BY <1>0, <2>1, AcksGathered
    <3> QED BY <1>0, <2>1, <3>1, BackendTyped DEF ServiceStates
  <2>3. packet' \in PacketType
    BY <1>0, <2>1, StartTyped DEF PacketType, PagedVerify, RequestType
  <2>4. InPlace' /\ Cooling' /\ Truthful
    BY <2>1 DEF ServiceInv, FlowInv, InPlace, Cooling, PomStates, Truthful, ByteWrites
  <2>5. Confirmed'
    <3>1. ~acks'.found /\ request.cmd = "PAGED_WRITE_BYTE"
      BY <2>1 DEF ServiceInv, FlowInv, InPlace
    <3>2. ~decoder'.late
      BY <1>0, <2>1, BackendSays DEF ServiceInv, Cooling
    <3> QED BY <2>1, <3>1, <3>2 DEF Confirmed, PagedCheck
  <2> QED BY <2>1, <2>2, <2>3, <2>4, <2>5 DEF Leg, ServiceInv, FlowInv, ServiceStates
<1>3. CASE PagedHardResetExit(ack)
  <2>1. /\ BackendReturns("paged_hard_reset_exit", ack) /\ state = "paged_hard_reset_exit"
        /\ state' = "idle" /\ packet' = Reset /\ timer' = TRUE
        /\ acks' = [acks EXCEPT !.found = @ \/ ack]
        /\ UNCHANGED <<request, inServiceMode, pom, air, read>>
    BY <1>3 DEF PagedHardResetExit, BackendReturns, DoneAndReturn, Return, pomVars
  <2>2. PtTypeOK'
    <3>1. acks' \in AckType
      BY <1>0, <2>1, AcksGathered
    <3> QED BY <1>0, <2>1, <3>1, BackendTyped
  <2>3. InPlace' /\ Cooling' /\ Confirmed'
    BY <2>1 DEF InPlace, Cooling, Confirmed, PomStates
  <2>4. Truthful
    BY <2>1 DEF ServiceInv, FlowInv, InPlace, Truthful
  <2> QED BY <2>1, <2>2, <2>3, <2>4, StartTyped DEF Leg, ServiceInv, FlowInv, ServiceStates
<1> QED BY <1>1, <1>2, <1>3

LEMMA ServiceStepKeeps ==
  ASSUME ServiceInv, ServiceStep PROVE Leg
BY ShortKeeps, EnterKeeps, WriteKeeps, VerifyKeeps, ReadKeeps, FinalKeeps, PagedKeeps
   DEF ServiceStep

-----------------------------------------------------------------------------
(* A step of a POM request, or of the hub, leaves service mode alone.      *)
LEMMA PomFrame ==
  ASSUME PtIInv, PomInv', air' \in 0 .. TrackPool,
         UNCHANGED <<queue, request, timer, inServiceMode, packet, acks, read, decoder>>,
         \/ state' = state
         \/ state \in PomStates /\ state' \in PomStates \cup {"idle"}
  PROVE  PtIInv' /\ Truthful
<1>1. PtTypeOK'
  <2>1. pom'.status \in {"NOOP", "PENDING", "OK", "BUSY"} /\ pom'.tries \in 0 .. PomTries
    BY DEF PomInv, PomType
  <2> QED BY <2>1 DEF PtIInv, ServiceInv, FlowInv, PtTypeOK, PomStates
<1>2. InPlace' /\ Cooling'
  BY DEF PtIInv, ServiceInv, FlowInv, InPlace, Cooling, PomStates
<1>3. Confirmed'
  BY DEF PtIInv, ServiceInv, Confirmed, PagedCheck, PomStates
<1>4. EndArranged'
  BY DEF PtIInv, EndArranged, PomStates, ServiceStates
<1>5. Truthful
  <2>1. state' # state => request.cmd \in {"POM_READ_BYTE", "POM_WRITE_BYTE"}
    BY DEF PtIInv, ServiceInv, FlowInv, InPlace
  <2> QED BY <2>1 DEF Truthful, Right
<1> QED BY <1>1, <1>2, <1>3, <1>4, <1>5 DEF PtIInv, ServiceInv, FlowInv

LEMMA PomFields ==
  ASSUME PtIInv
  PROVE  /\ pom \in PomType /\ pom.tries \in Nat /\ pom.ports \in {0, 1}
         /\ pom.status \in {"NOOP", "PENDING", "OK", "BUSY"}
         /\ air \in 0 .. TrackPool /\ PomTries \in Nat /\ TriesLeft /\ ListensWhileWaiting
BY ProgrammingTrackAssumption DEF PtIInv, PomInv, PomType, ServiceInv, FlowInv, PtTypeOK

(* The handler is registered as a packet is given to the track.            *)
LEMMA FillKeeps ==
  ASSUME PtIInv, FillPomPacket PROVE PtIInv' /\ Truthful
<1>0. UNCHANGED <<queue, request, timer, inServiceMode, packet, acks, read, decoder>>
  BY DEF FillPomPacket, pgmVars
<1>1. CASE ~request.address
  <2>1. state \in PomStates /\ state' = "idle" /\ UNCHANGED <<pom, air>>
    BY <1>1 DEF FillPomPacket, Return, pomVars, PomStates
  <2>2. PomInv'
    <3>1. state \notin {"write_returned", "read_returned"}
      BY DEF FillPomPacket
    <3> QED BY <2>1, <3>1, PomFields DEF PomInv, TriesLeft, ListensWhileWaiting, PomStates
  <2> QED BY <1>0, <2>1, <2>2, PomFields, PomFrame
<1>2. CASE request.address
  <2>1. /\ state \in {"pom_write_byte", "pom_read_byte"}
        /\ state' \in {"write_returned", "read_returned"}
        /\ pom' = [pom EXCEPT !.status = "PENDING", !.busy = FALSE,
                              !.garbage = FALSE, !.ports = @ + 1]
        /\ air' = air + Repeats /\ air + Repeats <= TrackPool
    BY <1>2 DEF FillPomPacket
  <2>2. pom.ports = 0
    BY <2>1, PomFields DEF ListensWhileWaiting
  <2>3. /\ pom' \in PomType
        /\ pom'.status = "PENDING" /\ pom'.ports = 1 /\ pom'.tries = pom.tries
    <3>1. pom.ports + 1 = 1
      BY <2>2
    <3>2. pom' = [pom EXCEPT !.status = "PENDING", !.busy = FALSE,
                             !.garbage = FALSE, !.ports = 1]
      BY <2>1, <3>1
    <3>3. 1 \in 0 .. 1
      OBVIOUS
    <3> QED BY <3>2, <3>3, PomFields DEF PomType
  <2>4. PomInv'
    BY <2>1, <2>3, PomFields DEF PomInv, TriesLeft, ListensWhileWaiting, PomStates
  <2>5. air' \in 0 .. TrackPool
    BY <2>1, PomFields, ProgrammingTrackAssumption
  <2> QED BY <1>0, <2>1, <2>4, <2>5, PomFrame DEF PomStates
<1> QED BY <1>1, <1>2

(* It is dropped when the wait is over, unless the answer has dropped it,  *)
(* and a try is made only while there are any left.                        *)
LEMMA ReturnedKeeps ==
  ASSUME PtIInv, WriteReturned \/ ReadReturned PROVE PtIInv' /\ Truthful
<1>0. /\ UNCHANGED <<queue, request, timer, inServiceMode, packet, acks, read, decoder, air>>
      /\ state \in {"write_returned", "read_returned"}
  BY DEF WriteReturned, ReadReturned, pgmVars
<1>1. PICK n \in {pom.tries, pom.tries + 1}, k \in {pom.ports, pom.ports - 1} :
        /\ pom' = [pom EXCEPT !.tries = n, !.ports = k]
        /\ k = IF pom.status = "PENDING" THEN pom.ports - 1 ELSE pom.ports
        /\ state' \in {"idle", "pom_write_byte", "pom_read_byte"}
        /\ state' # "idle" => n < PomTries
  <2>1. CASE WriteReturned
    <3> DEFINE n == IF pom.status = "PENDING" /\ pom.busy THEN pom.tries + 1 ELSE pom.tries
               k == IF pom.status = "PENDING" THEN pom.ports - 1 ELSE pom.ports
    <3>1. pom' = [pom EXCEPT !.tries = n, !.ports = k]
      BY <2>1, PomFields DEF WriteReturned, PomType
    <3>2. /\ state' \in {"idle", "pom_write_byte"}
          /\ state' # "idle" => n < PomTries
      BY <2>1 DEF WriteReturned, Return
    <3> QED BY <3>1, <3>2
  <2>2. CASE ReadReturned
    <3> DEFINE n == IF pom.status = "OK" THEN pom.tries ELSE pom.tries + 1
               k == IF pom.status = "PENDING" THEN pom.ports - 1 ELSE pom.ports
    <3>1. pom' = [pom EXCEPT !.tries = n, !.ports = k]
      BY <2>2, PomFields DEF ReadReturned, PomType
    <3>2. /\ state' \in {"idle", "pom_read_byte"}
          /\ state' # "idle" => n < PomTries
      BY <2>2 DEF ReadReturned, Return
    <3> QED BY <3>1, <3>2
  <2> QED BY <2>1, <2>2
<1>2. k = 0
  <2>1. pom.ports = IF pom.status = "PENDING" THEN 1 ELSE 0
    BY <1>0, PomFields DEF ListensWhileWaiting
  <2> QED BY <1>1, <2>1
<1>3. n \in 0 .. PomTries
  <2>1. pom.tries < PomTries
    BY <1>0, PomFields DEF TriesLeft, PomStates
  <2> QED BY <1>1, <2>1, PomFields
<1>4. pom' \in PomType /\ pom'.tries = n /\ pom'.ports = 0
  <2>1. pom' = [pom EXCEPT !.tries = n, !.ports = 0]
    BY <1>1, <1>2, Zenon
  <2>2. 0 \in 0 .. 1
    OBVIOUS
  <2> QED BY <1>3, <2>1, <2>2, PomFields DEF PomType
<1>5. PomInv'
  BY <1>1, <1>4 DEF PomInv, TriesLeft, ListensWhileWaiting, PomStates
<1> QED BY <1>0, <1>1, <1>5, PomFields, PomFrame DEF PomStates

(* An answer drops the handler, once.                                      *)
LEMMA FeedbackKeeps ==
  ASSUME PtIInv, (\E answer \in Answers : Transmit(answer)) \/ OtherFeedback
  PROVE  PtIInv' /\ Truthful
<1>1. /\ UNCHANGED <<queue, request, state, timer, inServiceMode, packet, acks, read, decoder>>
      /\ air' \in 0 .. TrackPool
  <2>1. UNCHANGED <<queue, request, state, timer, inServiceMode, packet, acks, read, decoder>>
    BY DEF Transmit, RailcomFeedback, OtherFeedback, pgmVars
  <2>2. air' = air \/ (air > 0 /\ air' = air - 1)
    BY DEF Transmit, OtherFeedback
  <2> QED BY <2>1, <2>2, PomFields, ProgrammingTrackAssumption
<1>2. \/ pom' = pom
      \/ /\ pom.status = "PENDING" /\ pom.ports # 0
         /\ \/ pom' = [pom EXCEPT !.busy = TRUE]
            \/ pom' = [pom EXCEPT !.garbage = TRUE]
            \/ \E code \in {"OK", "BUSY"} : pom' = [pom EXCEPT !.status = code, !.ports = @ - 1]
  <2>1. CASE OtherFeedback
    BY <2>1, PomFields DEF OtherFeedback, Record
  <2>2. CASE \E answer \in Answers : Transmit(answer)
    BY <2>2 DEF Transmit, RailcomFeedback, Record, Answers
  <2> QED BY <2>1, <2>2
<1>3. PomInv'
  <2>1. CASE pom' = pom
    BY <1>1, <2>1, PomFields DEF PomInv, TriesLeft, ListensWhileWaiting
  <2>2. CASE pom' = [pom EXCEPT !.busy = TRUE] \/ pom' = [pom EXCEPT !.garbage = TRUE]
    <3>1. /\ pom' \in PomType /\ pom'.status = pom.status
          /\ pom'.ports = pom.ports /\ pom'.tries = pom.tries
      BY <2>2, PomFields DEF PomType
    <3> QED BY <1>1, <3>1, PomFields DEF PomInv, TriesLeft, ListensWhileWaiting
  <2>3. ASSUME NEW code \in {"OK", "BUSY"}, pom.ports # 0,
               pom' = [pom EXCEPT !.status = code, !.ports = @ - 1]
        PROVE  PomInv'
    <3>1. pom.ports = 1
      BY <2>3, PomFields
    <3>2. /\ pom' \in PomType /\ pom'.status = code
          /\ pom'.ports = 0 /\ pom'.tries = pom.tries
      <4>1. pom.ports - 1 = 0 /\ 0 \in 0 .. 1
        BY <3>1
      <4>2. pom' = [pom EXCEPT !.status = code, !.ports = 0]
        BY <2>3, <4>1
      <4>3. code \in {"NOOP", "PENDING", "OK", "BUSY"}
        BY <2>3
      <4> QED BY <4>1, <4>2, <4>3, PomFields DEF PomType
    <3> QED BY <1>1, <3>2, PomFields DEF PomInv, TriesLeft, ListensWhileWaiting
  <2> QED BY <1>2, <2>1, <2>2, <2>3
<1> QED BY <1>1, <1>3, PomFrame

-----------------------------------------------------------------------------
(* Requests are put in the queue by clients and by the timer, which        *)
(* replaces itself by the request to leave.                                *)
LEMMA QueueKeeps ==
  ASSUME PtIInv, (\E r \in Requests : Ask(r)) \/ TimerExpires
  PROVE  PtIInv' /\ Truthful
<1>0. UNCHANGED <<request, state, inServiceMode, packet, acks, read, decoder, pom, air>>
  BY DEF Ask, TimerExpires, pgmVars, pomVars
<1>1. /\ queue' \in Seq(RequestType) /\ timer' \in BOOLEAN
      /\ timer \/ ExitIn(queue) => timer' \/ ExitIn(queue')
  <2>1. queue \in Seq(RequestType) /\ timer \in BOOLEAN
    BY DEF PtIInv, ServiceInv, FlowInv, PtTypeOK
  <2>2. CASE TimerExpires
    BY <2>1, <2>2, ExitAppended, ExitTyped DEF TimerExpires
  <2>3. CASE \E r \in Requests : Ask(r)
    <3>1. PICK r \in RequestType : Ask(r)
      BY <2>3, ProgrammingTrackAssumption
    <3>2. queue' = Append(queue, r) /\ timer' = timer
      BY <3>1 DEF Ask
    <3> QED BY <2>1, <3>2, ExitAppended
  <2> QED BY <2>2, <2>3
<1>2. PtTypeOK'
  BY <1>0, <1>1 DEF PtIInv, ServiceInv, FlowInv, PtTypeOK
<1>3. InPlace' /\ Cooling' /\ PomInv' /\ Truthful
  BY <1>0 DEF PtIInv, ServiceInv, FlowInv, InPlace, Cooling, PomInv, TriesLeft,
              ListensWhileWaiting, Truthful
<1>4. Confirmed'
  BY <1>0 DEF PtIInv, ServiceInv, Confirmed, PagedCheck
<1>5. EndArranged'
  BY <1>0, <1>1 DEF PtIInv, EndArranged
<1> QED BY <1>0, <1>2, <1>3, <1>4, <1>5 DEF PtIInv, ServiceInv, FlowInv

LEMMA ExitDoneKeeps ==
  ASSUME PtIInv, ExitServiceModeDone PROVE PtIInv' /\ Truthful
<1>1. /\ UNCHANGED <<queue, request, timer, inServiceMode, acks, read, decoder, pom, air>>
      /\ state = "exit_service_mode_done" /\ state' = "idle" /\ packet' = Reset
  BY DEF ExitServiceModeDone, Return, pomVars
<1>2. PtTypeOK' /\ packet' \in PacketType
  BY <1>1, StartTyped DEF PtIInv, ServiceInv, FlowInv, PtTypeOK
<1>3. InPlace' /\ Cooling' /\ Confirmed'
  BY <1>1 DEF InPlace, Cooling, Confirmed, PomStates
<1>4. PomInv'
  BY <1>1 DEF PtIInv, PomInv, TriesLeft, ListensWhileWaiting, PomStates
<1>5. EndArranged'
  BY <1>1 DEF PtIInv, EndArranged, ServiceStates
<1>6. Truthful
  BY <1>1 DEF PtIInv, ServiceInv, FlowInv, InPlace, Truthful, Right
<1> QED BY <1>2, <1>3, <1>4, <1>5, <1>6 DEF PtIInv, ServiceInv, FlowInv

(* The next request is taken from the queue.  When it is the one to leave, *)
(* service mode ends with it.                                              *)
LEMMA EntryKeeps ==
  ASSUME PtIInv, Entry PROVE PtIInv' /\ Truthful
<1>0. /\ state = "idle" /\ queue # << >> /\ request' = Head(queue) /\ queue' = Tail(queue)
      /\ pom' = NoPom /\ decoder' = [decoder EXCEPT !.page = FALSE] /\ UNCHANGED air
  BY DEF Entry
<1>1. /\ queue' \in Seq(RequestType) /\ request' \in RequestType
      /\ ExitIn(queue) /\ request'.cmd # "EXIT_SERVICE_MODE" => ExitIn(queue')
  BY <1>0, ExitBehind DEF PtIInv, ServiceInv, FlowInv, PtTypeOK
<1>2. Truthful
  BY <1>0 DEF Truthful
<1>3. /\ timer \in BOOLEAN /\ inServiceMode \in BOOLEAN /\ packet \in PacketType
      /\ inServiceMode => timer \/ ExitIn(queue)
  BY <1>0 DEF PtIInv, ServiceInv, FlowInv, PtTypeOK, EndArranged, ServiceStates
<1>4. PomInv' /\ pom'.status = "NOOP" /\ pom'.tries = 0
  BY <1>0, StartTyped, ProgrammingTrackAssumption
     DEF NoPom, PomInv, TriesLeft, ListensWhileWaiting
<1>5. SUFFICES /\ state' \in ServiceStates \cup
                   {"idle", "exit_service_mode_done", "pom_write_byte", "pom_read_byte"}
               /\ inServiceMode' \in BOOLEAN /\ timer' \in BOOLEAN
               /\ acks' \in AckType /\ read' \in ReadType /\ packet' \in PacketType
               /\ InPlace' /\ Cooling' /\ Confirmed' /\ EndArranged'
  <2>1. PtTypeOK'
    <3>1. pom'.tries \in 0 .. PomTries
      BY <1>4, ProgrammingTrackAssumption
    <3>2. decoder' \in [cv : SUBSET Bits, page : BOOLEAN, late : BOOLEAN]
      BY <1>0 DEF PtIInv, ServiceInv, FlowInv, PtTypeOK
    <3> QED BY <1>0, <1>1, <1>4, <1>5, <3>1, <3>2
            DEF PtIInv, ServiceInv, FlowInv, PtTypeOK, AckType, ReadType
  <2> QED BY <1>2, <1>4, <1>5, <2>1 DEF PtIInv, ServiceInv, FlowInv
<1>6. CASE request'.cmd \in {"POM_READ_BYTE", "POM_WRITE_BYTE"}
  <2>1. /\ state' \in {"pom_write_byte", "pom_read_byte"} /\ packet' = Reset
        /\ acks' = NoAcks /\ read' = NothingRead /\ UNCHANGED <<timer, inServiceMode>>
    BY <1>6 DEF Entry, Invoke, ClearScratch
  <2>2. InPlace' /\ Cooling' /\ Confirmed'
    BY <1>6, <2>1 DEF InPlace, Cooling, Confirmed, PomStates
  <2>3. EndArranged'
    BY <1>1, <1>3, <1>6, <2>1 DEF EndArranged
  <2> QED BY <1>3, <2>1, <2>2, <2>3, StartTyped
<1>7. CASE request'.cmd \in {"POM_WRITE_BIT", "PAGED_READ_BYTE"}
  <2>1. /\ state' = "idle" /\ acks' = NoAcks /\ read' = NothingRead
        /\ UNCHANGED <<timer, inServiceMode, packet>>
    BY <1>7 DEF Entry, Return, ClearScratch
  <2>2. InPlace' /\ Cooling' /\ Confirmed'
    BY <2>1 DEF InPlace, Cooling, Confirmed, PomStates
  <2>3. EndArranged'
    BY <1>1, <1>3, <1>7, <2>1 DEF EndArranged
  <2> QED BY <1>3, <2>1, <2>2, <2>3, StartTyped
<1>8. CASE request'.cmd = "EXIT_SERVICE_MODE"
  <2>1. ExitServiceMode
    BY <1>8 DEF Entry
  <2>2. /\ acks' = NoAcks /\ read' = NothingRead /\ timer' = FALSE /\ inServiceMode' = FALSE
        /\ \/ state' = "exit_service_mode_done" /\ packet' = [op |-> "exit"]
           \/ state' = "idle" /\ packet' = packet
    BY <2>1 DEF ExitServiceMode, Invoke, Return, ClearScratch
  <2>3. packet' \in PacketType
    BY <1>3, <2>2 DEF PacketType
  <2>4. InPlace' /\ Cooling' /\ Confirmed'
    BY <1>8, <2>2 DEF InPlace, Cooling, Confirmed, PomStates
  <2>5. EndArranged'
    BY <2>2 DEF EndArranged
  <2> QED BY <2>2, <2>3, <2>4, <2>5, StartTyped
<1>9. CASE request'.cmd \in ServiceCommands
  <2>1. EnterServiceMode
    BY <1>9 DEF Entry, ServiceCommands
  <2>2. CASE inServiceMode
    <3>1. ActServiceMode /\ inServiceMode' = inServiceMode
      BY <2>1, <2>2 DEF EnterServiceMode
    <3>2. /\ acks' \in AckType /\ read' \in ReadType /\ packet' \in PacketType
          /\ InPlace' /\ Cooling' /\ Confirmed'
          /\ \/ state' \in ServiceStates /\ timer' = timer
             \/ state' = "idle" /\ timer' = TRUE /\ resultCode' = "UNIMPLEMENTED"
      BY <1>1, <1>9, <3>1, ServiceStarts
    <3>3. EndArranged'
      BY <3>2 DEF EndArranged
    <3> QED BY <1>3, <3>1, <3>2, <3>3
  <2>3. CASE ~inServiceMode
    <3>1. /\ acks' = NoAcks /\ read' = NothingRead /\ timer' = timer /\ inServiceMode' = TRUE
          /\ state' = "send_initial_resets" /\ packet' = [op |-> "enter"]
      BY <2>1, <2>3 DEF EnterServiceMode, Invoke, ClearScratch
    <3>2. InPlace' /\ Cooling' /\ Confirmed'
      BY <1>9, <3>1 DEF InPlace, Cooling, Confirmed, PomStates
    <3>3. state' \in ServiceStates /\ packet' \in PacketType
      BY <3>1 DEF ServiceStates, PacketType
    <3>4. EndArranged'
      BY <3>3 DEF EndArranged
    <3> QED BY <1>3, <3>1, <3>2, <3>3, <3>4, StartTyped
  <2> QED BY <2>2, <2>3
<1> QED BY <1>1, <1>6, <1>7, <1>8, <1>9 DEF RequestType, Commands, ServiceCommands

-----------------------------------------------------------------------------
LEMMA InitPtIInv == PtInit => PtIInv
<1> SUFFICES ASSUME PtInit PROVE PtIInv
  OBVIOUS
<1>1. /\ queue = << >> /\ request = Exit /\ state = "idle" /\ inServiceMode = FALSE
      /\ timer = FALSE /\ packet = Reset /\ acks = NoAcks /\ read = NothingRead
      /\ decoder \in [cv : SUBSET Bits, page : {FALSE}, late : {FALSE}] /\ pom = NoPom /\ air = 0
  BY DEF PtInit, Reset
<1>2. decoder \in [cv : SUBSET Bits, page : BOOLEAN, late : BOOLEAN]
  BY <1>1
<1>3. pom \in PomType /\ pom.status = "NOOP" /\ pom.tries = 0 /\ pom.ports = 0
  BY <1>1, StartTyped DEF NoPom
<1>4. 0 \in 0 .. PomTries /\ 0 \in 0 .. TrackPool
  BY ProgrammingTrackAssumption
<1>5. PtTypeOK
  <2>1. queue \in Seq(RequestType) /\ request \in RequestType
    BY <1>1, ExitTyped
  <2>2. acks \in AckType /\ read \in ReadType
    BY <1>1, StartTyped
  <2>3. /\ pom.status \in {"NOOP", "PENDING", "OK", "BUSY"}
        /\ pom.tries \in 0 .. PomTries /\ air \in 0 .. TrackPool
    BY <1>1, <1>3, <1>4
  <2>4. inServiceMode \in BOOLEAN /\ timer \in BOOLEAN
    BY <1>1
  <2> QED BY <1>1, <1>2, <2>1, <2>2, <2>3, <2>4 DEF PtTypeOK, AckType, ReadType
<1>6. InPlace /\ Cooling /\ Confirmed
  BY <1>1 DEF InPlace, Cooling, Confirmed, PomStates
<1>7. PomInv
  BY <1>1, <1>3 DEF PomInv, TriesLeft, ListensWhileWaiting, PomStates
<1> QED
  BY <1>1, <1>5, <1>6, <1>7, StartTyped DEF PtIInv, ServiceInv, FlowInv, EndArranged

LEMMA NextPtIInv ==
  ASSUME PtIInv, [PtNext]_ptVars PROVE PtIInv' /\ Truthful
<1>1. CASE ServiceStep
  <2>1. Leg
    BY <1>1, ServiceStepKeeps DEF PtIInv
  <2>2. PomInv'
    <3>1. /\ state \in ServiceStates /\ state' \in ServiceStates \cup {"idle"}
          /\ UNCHANGED pom /\ PomInv
      BY <2>1 DEF Leg, PtIInv
    <3>2. state \notin PomStates /\ state' \notin PomStates
      BY <3>1 DEF ServiceStates, PomStates
    <3> QED BY <3>1, <3>2 DEF PomInv, TriesLeft, ListensWhileWaiting, PomStates
  <2>3. EndArranged'
    BY <2>1 DEF Leg, EndArranged
  <2> QED BY <2>1, <2>2, <2>3 DEF Leg, PtIInv
<1>2. CASE UNCHANGED ptVars
  <2>1. UNCHANGED <<request, state, packet, acks, read, decoder>>
    BY <1>2 DEF ptVars, pgmVars
  <2>2. UNCHANGED <<queue, timer, inServiceMode, pom, air>>
    BY <1>2 DEF ptVars, pgmVars, pomVars
  <2>3. PtTypeOK'
    BY <2>1, <2>2 DEF PtIInv, ServiceInv, FlowInv, PtTypeOK
  <2>4. InPlace' /\ Cooling' /\ Truthful
    BY <2>1 DEF PtIInv, ServiceInv, FlowInv, InPlace, Cooling, Truthful
  <2>5. Confirmed'
    BY <2>1 DEF PtIInv, ServiceInv, Confirmed, PagedCheck
  <2>6. PomInv' /\ EndArranged'
    BY <2>1, <2>2 DEF PtIInv, PomInv, TriesLeft, ListensWhileWaiting, EndArranged
  <2> QED BY <2>1, <2>3, <2>4, <2>5, <2>6 DEF PtIInv, ServiceInv, FlowInv
<1> QED BY <1>1, <1>2, QueueKeeps, ExitDoneKeeps, EntryKeeps, FillKeeps, ReturnedKeeps,
           FeedbackKeeps DEF PtNext, FrontendStep

(* The inductive invariant holds in every reachable state.                 *)
THEOREM FrontendInvariant == PtSpec => []PtIInv
<1>1. PtIInv /\ [PtNext]_ptVars => PtIInv'
  BY NextPtIInv
<1> QED
  BY InitPtIInv, <1>1, PTL DEF PtSpec

(* Nothing that a request switches on stays on behind it: the types hold,  *)
(* service mode is bound to end, and the hub has the handler exactly while *)
(* an answer is waited for, for all requests and whatever the decoder, the *)
(* backend, the timers and the hub do.                                     *)
THEOREM NothingLeftOn == PtSpec => []PtInv
<1>1. PtIInv => PtInv
  BY DEF PtIInv, ServiceInv, FlowInv, PomInv, PtInv, EndArranged, ExitIn,
         ServiceModeWillEnd, ServiceStates
<1> QED
  BY FrontendInvariant, <1>1, PTL

(* A request in progress is the one that returns.                          *)
LEMMA RequestStays ==
  ASSUME PtIInv, [PtNext]_ptVars, state # "idle" PROVE request' = request
<1>1. CASE ServiceStep
  BY <1>1, ServiceStepKeeps DEF PtIInv, Leg
<1>2. CASE Entry
  BY <1>2 DEF Entry
<1>3. CASE ExitServiceModeDone \/ FillPomPacket \/ WriteReturned \/ ReadReturned
  BY <1>3 DEF ExitServiceModeDone, FillPomPacket, WriteReturned, ReadReturned
<1>4. CASE (\E r \in Requests : Ask(r)) \/ TimerExpires
  BY <1>4 DEF Ask, TimerExpires
<1>5. CASE (\E answer \in Answers : Transmit(answer)) \/ OtherFeedback
  BY <1>5 DEF Transmit, RailcomFeedback, OtherFeedback
<1>6. CASE UNCHANGED ptVars
  BY <1>6 DEF ptVars
<1> QED
  BY <1>1, <1>2, <1>3, <1>4, <1>5, <1>6 DEF PtNext, FrontendStep

(* A direct mode read or write that is reported as a success is right      *)
(* about the CV of the decoder, for CVs of any size and whichever packets  *)
(* go unheard and acknowledgements get lost or come late; so is a paged    *)
(* mode write whose page preset was heard.                                 *)
THEOREM ResultsTrue == PtSpec => ResultCorrect
<1> DEFINE ReadRight ==
             Returns("DIRECT_READ_BYTE") /\ resultCode' = "OK" => read'.ones = decoder'.cv
           WriteRight ==
             /\ Returns("DIRECT_WRITE_BYTE") /\ resultCode' = "OK" => decoder'.cv = request.value
             /\ Returns("DIRECT_WRITE_BIT") /\ resultCode' = "OK"
                   => (request.bit \in decoder'.cv) = request.on
             /\ Returns("PAGED_WRITE_BYTE") /\ resultCode' = "OK" /\ ~request.reset /\ decoder'.page
                   => decoder'.cv = request.value
<1>1. ASSUME PtIInv, [PtNext]_ptVars PROVE ReadRight /\ WriteRight
  <2>1. Truthful /\ (state # "idle" => request' = request)
    BY <1>1, NextPtIInv, RequestStays
  <2>2. ReadRight
    BY <2>1 DEF Returns, Truthful
  <2>3. WriteRight
    BY <2>1 DEF Returns, Truthful, Right
  <2> QED BY <2>2, <2>3
<1>2. PtIInv /\ [PtNext]_ptVars => [ReadRight]_ptVars /\ [WriteRight]_ptVars
  BY <1>1
<1> HIDE DEF ReadRight, WriteRight
<1>3. PtSpec => [][ReadRight]_ptVars /\ [][WriteRight]_ptVars
  BY FrontendInvariant, <1>2, PTL DEF PtSpec
<1> QED
  BY <1>3 DEF ResultCorrect, ReadCorrect, WriteCorrect, ReadRight, WriteRight
=============================================================================
