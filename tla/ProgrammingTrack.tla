-------------------------- MODULE ProgrammingTrack --------------------------
(***************************************************************************)
(* The programming track frontend (cs/commandstation/                      *)
(* ProgrammingTrackFrontend.hxx).  Requests are taken from a queue one by  *)
(* one.  A service mode request has the backend send packets to the one    *)
(* decoder on the programming track and looks for the acknowledgement, a   *)
(* pulse of current that may show up while the resets after the packet are *)
(* sent.  Service mode is left by a request too, put in the queue when a   *)
(* timer expires or there was a short.  A POM request sends a packet on    *)
(* the main track and waits for the RailCom answer of the decoder.         *)
(*                                                                         *)
(* The backend and the decoder are external.  CV values are the sets of    *)
(* their bits that are 1; all requests are about one CV.  backend_ is set. *)
(***************************************************************************)
EXTENDS Integers, Sequences

CONSTANTS
    LastBit,        \* the last bit of a CV: 7
    PomTries,       \* DEFAULT_POM_READ_RETRIES, .._WRITE_RETRIES_ON_BUSY: 3
    Repeats,        \* transmissions of a POM packet, rept_count + 1: 4
    Requests,       \* the requests that clients make
    TrackPool,      \* transmissions for which the track has buffers
    MaxQueue        \* bound: requests that clients have in the queue

Bits == 0 .. LastBit

Commands ==
    {"DIRECT_WRITE_BYTE", "DIRECT_WRITE_BIT", "DIRECT_READ_BYTE",
     "DIRECT_READ_BIT", "PAGED_WRITE_BYTE", "PAGED_VERIFY_BYTE",
     "PAGED_READ_BYTE", "POM_READ_BYTE", "POM_WRITE_BYTE", "POM_WRITE_BIT",
     "EXIT_SERVICE_MODE"}

(* `reset' stands for CV 8 := 8, the hard reset; `address' says whether    *)
(* the type of address is one that POM supports.                           *)
RequestType ==
    [cmd : Commands, value : SUBSET Bits, bit : Bits, on : BOOLEAN,
     reset : BOOLEAN, address : BOOLEAN]

ASSUME ProgrammingTrackAssumption ==
    /\ LastBit \in Nat /\ PomTries \in Nat \ {0} /\ MaxQueue \in Nat
    /\ Repeats \in Nat /\ TrackPool \in Nat /\ Repeats <= TrackPool
    /\ Requests \subseteq RequestType

Exit == [cmd |-> "EXIT_SERVICE_MODE", value |-> {}, bit |-> 0, on |-> FALSE,
         reset |-> FALSE, address |-> TRUE]

VARIABLES
    queue,          \* the requests that wait
    request,        \* the one in progress, or the last one
    state,          \* the state of the flow, "idle" between requests
    resultCode,     \* of the request
    inServiceMode,  \* inServiceMode_
    timer,          \* serviceModeTimer_.isRunning_
    packet,         \* what the backend has been asked to send
    acks,           \* foundAck_ and hasWriteAck_
    read,           \* nextBitToRead_ and confirmedOnes_
    decoder,        \* the CV, whether the page register leads to it, and
                    \* whether an acknowledgement may still show up
    pom,            \* errorCode_, seenRailcomBusy_ and _Garbage_, numTry_, and
                    \* how often the handler is registered with the hub
    air             \* POM packets still to be transmitted, of this request
                    \* and of earlier ones, which have the same feedback key

pomVars == <<pom, air>>
pgmVars == <<inServiceMode, packet, acks, read, decoder>>
ptVars == <<queue, request, state, resultCode, timer, pgmVars, pomVars>>

NoPom == [status |-> "NOOP", busy |-> FALSE, garbage |-> FALSE, tries |-> 0, ports |-> 0]
NoAcks == [found |-> FALSE, write |-> FALSE]
NothingRead == [bit |-> 0, ones |-> {}]

ClearScratch == acks' = NoAcks /\ read' = NothingRead

PtInit ==
    /\ queue = << >> /\ request = Exit /\ state = "idle" /\ resultCode = "OK"
    /\ inServiceMode = FALSE /\ timer = FALSE
    /\ packet = [op |-> "reset"]
    /\ acks = NoAcks /\ read = NothingRead
    /\ decoder \in [cv : SUBSET Bits, page : {FALSE}, late : {FALSE}]
    /\ pom = NoPom
    /\ air = 0

Ask(r) ==
    /\ Len(queue) < MaxQueue
    /\ queue' = Append(queue, r)
    /\ UNCHANGED <<request, state, resultCode, timer, pgmVars, pomVars>>

(* return_with_error                                                       *)
Return(code) == state' = "idle" /\ resultCode' = code

-----------------------------------------------------------------------------
(* Service mode: what the backend does with a packet, and the decoder.     *)
Invoke(next, p) == state' = next /\ packet' = p /\ resultCode' = "PENDING"

Reset == [op |-> "reset"]
Verify(v) == [op |-> "verify", value |-> v]
PagedVerify(v) == [op |-> "pagedVerify", value |-> v]
VerifyBit(b, on) == [op |-> "verifyBit", bit |-> b, on |-> on]

(* What may come of a packet: it goes unheard; the decoder writes the CV   *)
(* and acknowledges, or acknowledges though it cannot write it; it         *)
(* acknowledges what it finds as it was told.  A paged packet is about     *)
(* another CV when the page register is not set as it should: the preset   *)
(* was unheard and an earlier request has left something else in it.       *)
AboutTheCv(p) == p.op \in {"pagedWrite", "pagedVerify"} => decoder.page

Written(p) ==
    IF p.op \in {"write", "pagedWrite"}
    THEN IF AboutTheCv(p) THEN p.value ELSE decoder.cv
    ELSE IF p.on THEN decoder.cv \cup {p.bit} ELSE decoder.cv \ {p.bit}

Found(p) ==
    IF p.op \in {"verify", "pagedVerify"} THEN decoder.cv = p.value
    ELSE (p.bit \in decoder.cv) = p.on

Outcomes(p) ==
    {[cv |-> decoder.cv, page |-> page, ack |-> FALSE] :
        page \in IF p.op = "page" THEN BOOLEAN ELSE {decoder.page}}
    \cup (CASE p.op = "page" -> {[cv |-> decoder.cv, page |-> TRUE, ack |-> TRUE]}
            [] p.op \in {"write", "writeBit", "pagedWrite"} ->
                 {[cv |-> v, page |-> decoder.page, ack |-> TRUE] :
                     v \in {decoder.cv, Written(p)}}
            [] p.op \in {"verify", "verifyBit", "pagedVerify"} ->
                 {[cv |-> decoder.cv, page |-> decoder.page, ack |-> a] :
                     a \in IF AboutTheCv(p) THEN {Found(p)} ELSE BOOLEAN}
            [] OTHER -> {})

(* The backend returns, without a short circuit, in state s.  An           *)
(* acknowledgement is seen with its packet, with the packet that follows,  *)
(* with both or with neither.                                              *)
BackendReturns(s, ack) ==
    /\ state = s
    /\ \E r \in Outcomes(packet) :
          /\ ack => r.ack \/ decoder.late
          /\ \E late \in {FALSE, r.ack} :
                decoder' = [cv |-> r.cv, page |-> r.page, late |-> late]
    /\ UNCHANGED <<queue, request, inServiceMode, pomVars>>

(* done_and_return                                                         *)
DoneAndReturn(code) == Return(code) /\ timer' = TRUE /\ packet' = Reset

ServiceStates ==
    {"send_initial_resets", "enter_service_mode_done", "write_pkt_sent",
     "write_cooldown_done", "write_verify_cooldown", "write_verify_cooldown_done",
     "check_next_bit_one", "cooldown_next_bit_one", "check_final_byte",
     "cooldown_final_verify", "send_paged_command", "paged_write_done",
     "paged_write_cooldown_done", "paged_hard_reset_exit"}

(* mutant: service mode is not left after a short *)
StayAfterShort ==
    /\ state \in ServiceStates
    /\ \E r \in Outcomes(packet) : decoder' = [cv |-> r.cv, page |-> r.page, late |-> FALSE]
    /\ Return("PGM_SHORT") /\ packet' = Reset
    /\ UNCHANGED <<queue, request, timer, inServiceMode, acks, read, pomVars>>

(* pgm_short: the backend returns with a short circuit.                    *)
PgmShort ==
    /\ state \in ServiceStates
    /\ \E r \in Outcomes(packet) : decoder' = [cv |-> r.cv, page |-> r.page, late |-> FALSE]
    /\ queue' = Append(queue, Exit)
    /\ Return("PGM_SHORT") /\ packet' = Reset
    /\ UNCHANGED <<request, timer, inServiceMode, acks, read, pomVars>>

-----------------------------------------------------------------------------
(* act_service_mode, direct_read_byte, send_page_preset; DIRECT_READ_BIT   *)
(* is the exit_unimplemented case.                                         *)
ActServiceMode ==
    LET r == request'
    IN  /\ ClearScratch
        /\ IF r.cmd = "DIRECT_READ_BIT"
           THEN DoneAndReturn("UNIMPLEMENTED")
           ELSE /\ UNCHANGED timer
                /\ CASE r.cmd = "DIRECT_READ_BYTE" ->
                          Invoke("check_next_bit_one", VerifyBit(0, TRUE))
                     [] r.cmd = "DIRECT_WRITE_BYTE" ->
                          Invoke("write_pkt_sent", [op |-> "write", value |-> r.value])
                     [] r.cmd = "DIRECT_WRITE_BIT" ->
                          Invoke("write_pkt_sent",
                                 [op |-> "writeBit", bit |-> r.bit, on |-> r.on])
                     [] OTHER -> Invoke("send_paged_command", [op |-> "page"])

EnterServiceMode ==
    IF inServiceMode
    THEN ActServiceMode /\ UNCHANGED inServiceMode
    ELSE /\ inServiceMode' = TRUE
         /\ Invoke("send_initial_resets", [op |-> "enter"])
         /\ ClearScratch /\ UNCHANGED timer

SendInitialResets ==
    /\ BackendReturns("send_initial_resets", FALSE)
    /\ Invoke("enter_service_mode_done", Reset)
    /\ UNCHANGED <<timer, acks, read>>

EnterServiceModeDone ==
    /\ BackendReturns("enter_service_mode_done", FALSE)
    /\ ActServiceMode

(* write_pkt_sent, write_cooldown_done, write_verify_cooldown: the         *)
(* acknowledgements of the write, then those of the verify are gathered.   *)
WritePktSent(ack) ==
    /\ BackendReturns("write_pkt_sent", ack)
    /\ acks' = [acks EXCEPT !.found = @ \/ ack]
    /\ Invoke("write_cooldown_done", Reset)
    /\ UNCHANGED <<timer, read>>

(* mutant: the acknowledgement of the write counts as that of the verify *)
AckKept(ack) ==
    /\ BackendReturns("write_cooldown_done", ack)
    /\ acks' = [found |-> acks.found \/ ack, write |-> acks.found \/ ack]
    /\ Invoke("write_verify_cooldown",
              IF request.cmd = "DIRECT_WRITE_BYTE" THEN Verify(request.value)
              ELSE VerifyBit(request.bit, request.on))
    /\ UNCHANGED <<timer, read>>

WriteCooldownDone(ack) ==
    /\ BackendReturns("write_cooldown_done", ack)
    /\ acks' = [found |-> FALSE, write |-> acks.found \/ ack]
    /\ Invoke("write_verify_cooldown",
              IF request.cmd = "DIRECT_WRITE_BYTE" THEN Verify(request.value)
              ELSE VerifyBit(request.bit, request.on))
    /\ UNCHANGED <<timer, read>>

WriteVerifyCooldown(ack) ==
    /\ BackendReturns("write_verify_cooldown", ack)
    /\ acks' = [acks EXCEPT !.found = @ \/ ack]
    /\ Invoke("write_verify_cooldown_done", Reset)
    /\ UNCHANGED <<timer, read>>

WriteVerifyCooldownDone(ack) ==
    /\ BackendReturns("write_verify_cooldown_done", ack)
    /\ acks' = [acks EXCEPT !.found = @ \/ ack]
    /\ DoneAndReturn(IF acks'.found THEN "OK"
                     ELSE IF acks.write THEN "FAILED_VERIFY" ELSE "NO_LOCO")
    /\ UNCHANGED read

CheckNextBitOne(ack) ==
    /\ BackendReturns("check_next_bit_one", ack)
    /\ read' = [read EXCEPT !.ones = IF ack THEN @ \cup {read.bit} ELSE @]
    /\ Invoke("cooldown_next_bit_one", Reset)
    /\ UNCHANGED <<timer, acks>>

(* mutant: one bit too many is read *)
BitTooMany(ack) ==
    LET ones == IF ack THEN read.ones \cup {read.bit} ELSE read.ones
    IN  /\ BackendReturns("cooldown_next_bit_one", ack)
        /\ IF read.bit > LastBit
           THEN /\ read' = [read EXCEPT !.ones = ones]
                /\ Invoke("check_final_byte", Verify(ones))
           ELSE /\ read' = [bit |-> read.bit + 1, ones |-> ones]
                /\ Invoke("check_next_bit_one", VerifyBit(read.bit + 1, TRUE))
        /\ UNCHANGED <<timer, acks>>

CooldownNextBitOne(ack) ==
    LET ones == IF ack THEN read.ones \cup {read.bit} ELSE read.ones
    IN  /\ BackendReturns("cooldown_next_bit_one", ack)
        /\ IF read.bit = LastBit
           THEN /\ read' = [read EXCEPT !.ones = ones]
                /\ Invoke("check_final_byte", Verify(ones))
           ELSE /\ read' = [bit |-> read.bit + 1, ones |-> ones]
                /\ Invoke("check_next_bit_one", VerifyBit(read.bit + 1, TRUE))
        /\ UNCHANGED <<timer, acks>>

CheckFinalByte(ack) ==
    /\ BackendReturns("check_final_byte", ack)
    /\ IF ack THEN DoneAndReturn("OK")
       ELSE Invoke("cooldown_final_verify", Reset) /\ UNCHANGED timer
    /\ UNCHANGED <<acks, read>>

(* mutant: what was read is returned whatever the decoder says *)
UnverifiedRead(ack) ==
    /\ BackendReturns("cooldown_final_verify", ack)
    /\ DoneAndReturn("OK")
    /\ UNCHANGED <<acks, read>>

CooldownFinalVerify(ack) ==
    /\ BackendReturns("cooldown_final_verify", ack)
    /\ DoneAndReturn(IF ack THEN "OK" ELSE "FAILED_VERIFY")
    /\ UNCHANGED <<acks, read>>

(* send_paged_command, after the page preset, whose acknowledgement ends   *)
(* it and is not looked at otherwise.                                      *)
SendPagedCommand ==
    /\ BackendReturns("send_paged_command", FALSE)
    /\ IF request.cmd = "PAGED_WRITE_BYTE"
       THEN Invoke("paged_write_done", [op |-> "pagedWrite", value |-> request.value])
       ELSE Invoke("check_final_byte", PagedVerify(request.value))
    /\ UNCHANGED <<timer, acks, read>>

PagedWriteDone(ack) ==
    /\ BackendReturns("paged_write_done", ack)
    /\ acks' = [acks EXCEPT !.found = @ \/ ack]
    /\ Invoke("paged_write_cooldown_done", Reset)
    /\ UNCHANGED <<timer, read>>

PagedWriteCooldownDone(ack) ==
    /\ BackendReturns("paged_write_cooldown_done", ack)
    /\ acks' = [found |-> FALSE, write |-> acks.found \/ ack]
    /\ IF request.reset THEN Invoke("paged_hard_reset_exit", Reset)
       ELSE Invoke("write_verify_cooldown_done", PagedVerify(request.value))
    /\ UNCHANGED <<timer, read>>

PagedHardResetExit(ack) ==
    /\ BackendReturns("paged_hard_reset_exit", ack)
    /\ acks' = [acks EXCEPT !.found = @ \/ ack]
    /\ DoneAndReturn(IF acks'.found \/ acks.write THEN "OK" ELSE "NO_LOCO")
    /\ UNCHANGED read

ServiceStep ==
    \/ PgmShort \/ SendInitialResets \/ EnterServiceModeDone \/ SendPagedCommand
    \/ \E ack \in BOOLEAN :
          \/ WritePktSent(ack) \/ WriteCooldownDone(ack)
          \/ WriteVerifyCooldown(ack) \/ WriteVerifyCooldownDone(ack)
          \/ CheckNextBitOne(ack) \/ CooldownNextBitOne(ack)
          \/ CheckFinalByte(ack) \/ CooldownFinalVerify(ack)
          \/ PagedWriteDone(ack) \/ PagedWriteCooldownDone(ack)
          \/ PagedHardResetExit(ack)

-----------------------------------------------------------------------------
(* exit_service_mode, from the timer, after a short, or from a client.     *)
ExitServiceMode ==
    /\ timer' = FALSE
    /\ inServiceMode' = FALSE
    /\ IF inServiceMode THEN Invoke("exit_service_mode_done", [op |-> "exit"])
       ELSE Return("OK") /\ UNCHANGED packet
    /\ ClearScratch

ExitServiceModeDone ==
    /\ state = "exit_service_mode_done"
    /\ Return("OK") /\ packet' = Reset
    /\ UNCHANGED <<queue, request, timer, inServiceMode, acks, read, decoder, pomVars>>

(* ServiceModeTimer::timeout                                               *)
TimerExpires ==
    /\ timer /\ timer' = FALSE
    /\ queue' = Append(queue, Exit)
    /\ UNCHANGED <<request, state, resultCode, pgmVars, pomVars>>

(* entry.  pom, acks, read and the page register keep what the last        *)
(* request left in them, which nothing reads before it is set again: they  *)
(* are cleared here.                                                       *)
Entry ==
    /\ state = "idle" /\ queue # << >>
    /\ request' = Head(queue) /\ queue' = Tail(queue)
    /\ pom' = NoPom
    /\ decoder' = [decoder EXCEPT !.page = FALSE]
    /\ UNCHANGED air
    /\ LET cmd == request'.cmd
       IN  CASE cmd \in {"POM_READ_BYTE", "POM_WRITE_BYTE"} ->
                  /\ Invoke(IF cmd = "POM_READ_BYTE" THEN "pom_read_byte"
                            ELSE "pom_write_byte", Reset)
                  /\ ClearScratch /\ UNCHANGED <<timer, inServiceMode>>
             [] cmd \in {"POM_WRITE_BIT", "PAGED_READ_BYTE"} ->
                  /\ Return("UNIMPLEMENTED")
                  /\ ClearScratch /\ UNCHANGED <<timer, inServiceMode, packet>>
             [] cmd = "EXIT_SERVICE_MODE" -> ExitServiceMode
             [] OTHER -> EnterServiceMode

-----------------------------------------------------------------------------
(* pom_write_byte, pom_read_byte and their fill_.._packet: a buffer of the *)
(* track is waited for.                                                    *)
FillPomPacket ==
    /\ state \in {"pom_write_byte", "pom_read_byte"}
    /\ air + Repeats <= TrackPool
    /\ IF ~request.address
       THEN Return("INVALID_ARGS") /\ UNCHANGED pomVars
       ELSE /\ state' = IF state = "pom_write_byte" THEN "write_returned" ELSE "read_returned"
            /\ pom' = [pom EXCEPT !.status = "PENDING", !.busy = FALSE,
                                  !.garbage = FALSE, !.ports = @ + 1]
            /\ air' = air + Repeats
            /\ UNCHANGED resultCode
    /\ UNCHANGED <<queue, request, timer, pgmVars>>

(* What is returned when no answer came.                                   *)
NoAnswer == IF pom.busy \/ pom.garbage THEN "INVALID_RESPONSE" ELSE "NO_RAILCOM"

(* mutant: the tries of a busy write are not counted *)
RetryForBusy ==
    /\ state = "write_returned"
    /\ pom' = IF pom.status = "PENDING" THEN [pom EXCEPT !.ports = @ - 1] ELSE pom
    /\ IF pom.status = "PENDING" /\ pom.busy
       THEN state' = "pom_write_byte" /\ UNCHANGED resultCode
       ELSE Return(CASE pom.status = "PENDING" -> NoAnswer
                     [] pom.status = "OK" -> "OK"
                     [] OTHER -> "TEMPORARY")
    /\ UNCHANGED <<queue, request, timer, pgmVars, air>>

(* write_returned: the timer has expired or was triggered.                 *)
WriteReturned ==
    /\ state = "write_returned"
    /\ LET again == pom.status = "PENDING" /\ pom.busy /\ pom.tries + 1 < PomTries
       IN  /\ pom' = IF pom.status = "PENDING"
                     THEN [pom EXCEPT !.ports = @ - 1,
                                      !.tries = IF pom.busy THEN @ + 1 ELSE @]
                     ELSE pom
           /\ IF again THEN state' = "pom_write_byte" /\ UNCHANGED resultCode
              ELSE Return(CASE pom.status = "PENDING" -> NoAnswer
                            [] pom.status = "OK" -> "OK"
                            [] OTHER -> "TEMPORARY")
    /\ UNCHANGED <<queue, request, timer, pgmVars, air>>

(* mutant: the handler is left with the hub when no answer came *)
PortKept ==
    /\ state = "read_returned"
    /\ IF pom.status = "OK"
       THEN Return("OK") /\ UNCHANGED pom
       ELSE /\ pom' = [pom EXCEPT !.tries = @ + 1]
            /\ IF pom.tries + 1 < PomTries
               THEN state' = "pom_read_byte" /\ UNCHANGED resultCode
               ELSE Return(NoAnswer)
    /\ UNCHANGED <<queue, request, timer, pgmVars, air>>

ReadReturned ==
    /\ state = "read_returned"
    /\ IF pom.status = "OK"
       THEN Return("OK") /\ UNCHANGED pom
       ELSE /\ pom' = [pom EXCEPT !.tries = @ + 1,
                                  !.ports = IF pom.status = "PENDING" THEN @ - 1 ELSE @]
            /\ IF pom.tries + 1 < PomTries
               THEN state' = "pom_read_byte" /\ UNCHANGED resultCode
               ELSE Return(NoAnswer)
    /\ UNCHANGED <<queue, request, timer, pgmVars, air>>

Answers == {"none", "busy", "garbage", "pom"}

(* record_railcom_status                                                   *)
Record(code) == pom' = [pom EXCEPT !.status = code, !.ports = @ - 1]

(* railcom_feedback, for a packet of this frontend: nothing that counts,   *)
(* busy, garbage, or a CV.                                                 *)
RailcomFeedback(answer) ==
    /\ IF pom.ports = 0 \/ pom.status # "PENDING" THEN UNCHANGED pom
       ELSE CASE answer = "busy" -> pom' = [pom EXCEPT !.busy = TRUE]
              [] answer = "garbage" -> pom' = [pom EXCEPT !.garbage = TRUE]
              [] answer = "pom" -> Record("OK")
              [] OTHER -> UNCHANGED pom
    /\ UNCHANGED <<queue, request, state, resultCode, timer, pgmVars>>

(* The next packet is transmitted, and answered.                           *)
Transmit(answer) == air > 0 /\ air' = air - 1 /\ RailcomFeedback(answer)

(* railcom_feedback, for another packet: "All repeats have returned busy." *)
OtherFeedback ==
    /\ pom.ports > 0 /\ pom.status = "PENDING" /\ pom.busy
    /\ Record("BUSY")
    /\ UNCHANGED <<queue, request, state, resultCode, timer, pgmVars, air>>

FrontendStep ==
    Entry \/ ServiceStep \/ ExitServiceModeDone \/ FillPomPacket
          \/ WriteReturned \/ ReadReturned

PtNext ==
    \/ \E r \in Requests : Ask(r)
    \/ FrontendStep
    \/ TimerExpires
    \/ \E answer \in Answers : Transmit(answer)
    \/ OtherFeedback

PtSpec == PtInit /\ [][PtNext]_ptVars

(* The executor runs the flow, the backend returns, timers expire, and the *)
(* track transmits what it was given.                                      *)
PtFairness ==
    /\ WF_ptVars(FrontendStep) /\ WF_ptVars(TimerExpires)
    /\ WF_ptVars(\E answer \in Answers : Transmit(answer))

PtFairSpec == PtSpec /\ PtFairness

-----------------------------------------------------------------------------
PtTypeOK ==
    /\ queue \in Seq(RequestType) /\ request \in RequestType
    /\ state \in ServiceStates \cup
          {"idle", "exit_service_mode_done", "pom_write_byte", "write_returned",
           "pom_read_byte", "read_returned"}
    /\ inServiceMode \in BOOLEAN /\ timer \in BOOLEAN
    /\ acks \in [found : BOOLEAN, write : BOOLEAN]
    /\ read \in [bit : Bits, ones : SUBSET Bits]
    /\ decoder \in [cv : SUBSET Bits, page : BOOLEAN, late : BOOLEAN]
    /\ pom.status \in {"NOOP", "PENDING", "OK", "BUSY"}
    /\ pom.tries \in 0 .. PomTries /\ air \in 0 .. TrackPool

(* The frontend does not stay in service mode, keeping all trains from     *)
(* their packets: between requests either the timer runs or the request to *)
(* leave is in the queue, after whatever errors, shorts, late timers and   *)
(* requests of clients.                                                    *)
ServiceModeWillEnd ==
    state = "idle" /\ inServiceMode =>
        timer \/ \E k \in DOMAIN queue : queue[k].cmd = "EXIT_SERVICE_MODE"

(* The RailCom handler is registered once, and exactly while a POM request *)
(* waits for an answer that has not come: the hub neither keeps a handler  *)
(* of a finished request nor is asked twice to drop one.                   *)
ListensWhileWaiting ==
    pom.ports = IF state \in {"write_returned", "read_returned"} /\ pom.status = "PENDING"
                THEN 1 ELSE 0

(* Nothing that a request has switched on stays on behind it.              *)
PtInv == PtTypeOK /\ ServiceModeWillEnd /\ ListensWhileWaiting

Returns(cmd) == state # "idle" /\ state' = "idle" /\ request'.cmd = cmd

(* A byte that a direct mode read returns with success is what the decoder *)
(* has in the CV, though packets go unheard and acknowledgements of single *)
(* bits get lost or come late.                                             *)
ReadCorrect ==
    [][Returns("DIRECT_READ_BYTE") /\ resultCode' = "OK" => read'.ones = decoder'.cv]_ptVars

(* A direct mode write that is reported as a success has reached the CV:   *)
(* the late acknowledgement of the write is not taken for that of the      *)
(* verify.  So has a paged mode write (other than the hard reset, which is *)
(* not verified) if the page register was set: send_paged_command does not *)
(* look whether the preset was acknowledged.                               *)
WriteCorrect ==
    [][/\ Returns("DIRECT_WRITE_BYTE") /\ resultCode' = "OK" => decoder'.cv = request.value
       /\ Returns("DIRECT_WRITE_BIT") /\ resultCode' = "OK"
             => (request.bit \in decoder'.cv) = request.on
       /\ Returns("PAGED_WRITE_BYTE") /\ resultCode' = "OK" /\ ~request.reset /\ decoder'.page
             => decoder'.cv = request.value]_ptVars

(* What a client is told of a CV that it reads or writes in service mode   *)
(* is true.  Not so of a paged mode verify: the late acknowledgement of    *)
(* the page preset, which no resets follow, is taken for that of the       *)
(* verify; and a POM write is reported as a success when any answer about  *)
(* a CV came, whatever it says.                                            *)
ResultCorrect == ReadCorrect /\ WriteCorrect

(* Every request returns, whatever the decoder answers, and once clients   *)
(* stop asking, service mode is left for good.                             *)
EveryRequestReturns ==
    /\ state # "idle" ~> state = "idle"
    /\ <>[][\A r \in Requests : ~Ask(r)]_ptVars => <>[](~inServiceMode /\ queue = << >>)
=============================================================================
