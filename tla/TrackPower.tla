----------------------------- MODULE TrackPower -----------------------------
(***************************************************************************)
(* Track power and global emergency stop (cs/commandstation/               *)
(* TrackPowerBit.hxx, class TrackPowerState) on top of the packet          *)
(* scheduler.                                                              *)
(*                                                                         *)
(* Two pairs of events of the bus switch track power and the emergency     *)
(* stop.  While either is engaged the source of ESTOP packets is           *)
(* registered with the scheduler, as exclusive source.  Switching power    *)
(* off also starts counting ESTOP packets and disables the outputs from    *)
(* inside the scheduler's entry(), when the last of them is filled.  The   *)
(* programming track is the other exclusive source, with a higher          *)
(* priority.  All of it runs on one executor, one handler at a time.       *)
(***************************************************************************)
EXTENDS UpdateProcessor

CONSTANTS
    Estop,                \* estopSource_
    Programming,          \* the packet source of the programming track
    EstopPriority,        \* dcc::UpdateLoopBase::ESTOP_PRIORITY
    ProgrammingPriority,  \* its priority, above EstopPriority
    NotifyCount,          \* ESTOP packets before power goes off: 20
    NotifyMax             \* largest value of the field numToNotify_: 63

ASSUME TrackPowerAssumption ==
    /\ {Estop, Programming} \subseteq Sources
    /\ Estop # Programming
    /\ {0, EstopPriority, ProgrammingPriority} \subseteq Priorities
    /\ EstopPriority >= ExclusiveMin
    /\ ProgrammingPriority > EstopPriority
    /\ NotifyCount \in Nat \ {0}
    /\ NotifyMax \in Nat
    /\ NotifyCount <= NotifyMax

VARIABLES
    isRegistered,  \* estopSource_.isRegistered_
    isEOff,        \* track power is controlled to be off
    isEStop,       \* global emergency stop is engaged
    nextDcc,       \* whether the next ESTOP packet is DCC (else Marklin)
    numToNotify,   \* ESTOP packets left before done is called
    done,          \* whether done_ holds estop_expired
    disabled,      \* per output, the reasons for which it is disabled
    burst          \* history: ESTOP packets of each kind since the last
                   \* power off event, counted up to NotifyCount

estopVars == <<isRegistered, isEOff, isEStop, nextDcc, numToNotify, done,
               disabled, burst>>

tpVars == <<upVars, estopVars>>

Outputs == {"TRACK", "LCC"}

Trains == Sources \ {Estop, Programming}

-----------------------------------------------------------------------------
\* numToNotify_ is the one field the constructor leaves uninitialized.  A
\* standalone build starts with the outputs enabled.
PowerInit ==
    /\ isRegistered = FALSE
    /\ isEOff = FALSE
    /\ isEStop = FALSE
    /\ nextDcc = TRUE
    /\ numToNotify \in 0 .. NotifyMax
    /\ done = FALSE
    /\ disabled \in [Outputs -> SUBSET {"GLOBAL_EOFF"}]
    /\ burst = [dcc |-> 0, mm |-> 0]

TpInit == Init /\ PowerInit

\* register_source, the part that does not depend on done: the source joins
\* the scheduler once.  There is a packet loop, the UpdateProcessor; a station
\* without one switches the outputs off at once.
JoinScheduler ==
    /\ isRegistered' = TRUE
    /\ IF isRegistered
       THEN UNCHANGED upVars
       ELSE AddRefreshSource(Estop, EstopPriority)

\* Mutants of StartCounting: a count that is already running goes on; the
\* callback is not stored.
KeepCounting ==
    /\ nextDcc' = TRUE
    /\ done' = TRUE
    /\ numToNotify' = IF numToNotify > 0 THEN numToNotify ELSE NotifyCount

CountWithoutDone ==
    /\ nextDcc' = TRUE
    /\ numToNotify' = NotifyCount
    /\ UNCHANGED done

\* EstopPacketSource::start(done).
StartCounting ==
    /\ nextDcc' = TRUE
    /\ numToNotify' = NotifyCount
    /\ done' = TRUE

\* Mutant of BothNormal: the emergency stop bit is not looked at.
PowerNormal == ~isEOff'

BothNormal == ~isEOff' /\ ~isEStop'

\* unregister_source, which looks at both bits after the caller cleared one.
UnregisterSource ==
    IF isRegistered /\ BothNormal
    THEN isRegistered' = FALSE /\ RemoveRefreshSource(Estop)
    ELSE UNCHANGED <<isRegistered, upVars>>

\* TrackPowerBit::set_state(true).
PowerOn ==
    /\ isEOff' = FALSE
    /\ UNCHANGED isEStop
    /\ UnregisterSource
    /\ disabled' = [o \in Outputs |-> disabled[o] \ {"GLOBAL_EOFF"}]
    /\ UNCHANGED <<nextDcc, numToNotify, done, burst>>

\* TrackPowerBit::set_state(false).
PowerOff ==
    /\ isEOff' = TRUE
    /\ JoinScheduler
    /\ StartCounting
    /\ burst' = [dcc |-> 0, mm |-> 0]
    /\ UNCHANGED <<isEStop, disabled>>

\* GlobalStopBit::set_state(true).
StopClear ==
    /\ isEStop' = FALSE
    /\ UNCHANGED isEOff
    /\ UnregisterSource
    /\ UNCHANGED <<nextDcc, numToNotify, done, disabled, burst>>

\* GlobalStopBit::set_state(false).
StopEngage ==
    /\ isEStop' = TRUE
    /\ JoinScheduler
    /\ UNCHANGED <<isEOff, nextDcc, numToNotify, done, disabled, burst>>

Counted(n) == IF n < NotifyCount THEN n + 1 ELSE n

\* Mutant of Countdown: counts below zero.
UnguardedCountdown(n) == n - 1

Countdown(n) == IF n > 0 THEN n - 1 ELSE 0

\* EstopPacketSource::get_next_packet: the packet, the countdown, and
\* estop_expired when it ends.
EstopPacket ==
    LET expires == numToNotify = 1 /\ done
    IN  /\ nextDcc' = ~nextDcc
        /\ burst' = IF nextDcc THEN [burst EXCEPT !.dcc = Counted(burst.dcc)]
                               ELSE [burst EXCEPT !.mm = Counted(burst.mm)]
        /\ numToNotify' = Countdown(numToNotify)
        /\ done' = (done /\ ~expires)
        /\ disabled' = IF expires
                       THEN [o \in Outputs |-> disabled[o] \cup {"GLOBAL_EOFF"}]
                       ELSE disabled
        /\ UNCHANGED <<isRegistered, isEOff, isEStop>>

\* The scheduler's entry() together with the get_next_packet it calls.
EntryEstop == Entry /\ FilledPacket.source = Estop /\ EstopPacket

EntryOther == Entry /\ FilledPacket.source # Estop /\ UNCHANGED estopVars

\* Trains and the programming track come and go, trains report changes, the
\* track interface takes its packets and time passes.
Others ==
    /\ \/ \E s \in Trains : AddRefreshSource(s, 0)
       \/ AddRefreshSource(Programming, ProgrammingPriority)
       \/ \E s \in Trains \cup {Programming} : RemoveRefreshSource(s)
       \/ \E s \in Trains, code \in Codes : NotifyUpdate(s, code)
       \/ TrackDone
       \/ Tick
    /\ UNCHANGED estopVars

TpNext ==
    \/ PowerOn
    \/ PowerOff
    \/ StopClear
    \/ StopEngage
    \/ EntryEstop
    \/ EntryOther
    \/ Others

TpSpec == TpInit /\ [][TpNext]_tpVars

\* Packets keep being filled and transmitted.
TpFairSpec ==
    /\ TpSpec
    /\ WF_tpVars(EntryEstop \/ EntryOther)
    /\ WF_tpVars(TrackDone /\ UNCHANGED estopVars)

-----------------------------------------------------------------------------
\* The fields of TrackPowerState and the state of the outputs.
PowerTypeOK ==
    /\ isRegistered \in BOOLEAN
    /\ isEOff \in BOOLEAN
    /\ isEStop \in BOOLEAN
    /\ nextDcc \in BOOLEAN
    /\ numToNotify \in 0 .. NotifyMax
    /\ done \in BOOLEAN
    /\ disabled \in [Outputs -> SUBSET {"GLOBAL_EOFF"}]
    /\ burst \in [dcc : 0 .. NotifyCount, mm : 0 .. NotifyCount]

TpTypeOK == TypeOK /\ PowerTypeOK

\* The ESTOP source owns a slot of the scheduler exactly while power off or
\* emergency stop is engaged, whatever order the events of the two come in.
EstopRegistered ==
    /\ isRegistered <=> (isEOff \/ isEStop)
    /\ isRegistered <=> Estop \in Registered
    /\ isRegistered => priority[Estop] = EstopPriority

\* The registration of the ESTOP source in step with the events, and the
\* count, which starts from an uninitialized value, within its field.
TpInv == TpTypeOK /\ EstopRegistered

\* "Once installed, no locomotive packets are sent out anymore, only the
\* broadcast ESTOP packets": while either bit is engaged no packet is filled
\* from a train or as idle; only the programming track may take the slot.
NoTrainPacketWhileStopped ==
    [][Filled /\ (isEOff \/ isEStop)
          => FilledPacket.source \in {Estop, Programming}]_tpVars

TurnedOff == \E o \in Outputs : "GLOBAL_EOFF" \in disabled'[o] \ disabled[o]

\* Power never goes off before the whole burst of ESTOP packets, half of them
\* DCC and half Marklin, has been filled since the last power off event (no
\* more than the PoolSize packets still on the track are cut off).
OffOnlyAfterBurst ==
    [][TurnedOff => /\ 2 * burst'.dcc >= NotifyCount
                    /\ 2 * burst'.mm >= NotifyCount - 1
                    /\ burst'.dcc + burst'.mm >= NotifyCount]_tpVars

\* A power off event is carried out: once power off events stop coming (each
\* restarts the count) and power stays commanded off with the programming
\* track away, the outputs are disabled for good.
PowerGoesOff ==
    /\ <>[][~PowerOff]_tpVars
    /\ <>[](isEOff /\ Programming \notin Registered)
    => <>[](\A o \in Outputs : "GLOBAL_EOFF" \in disabled[o])

\* "Global Emergency stop: track is powered, but all packets sent are broadcast
\* ESTOP packets": power is switched off only while it is commanded off.
OffOnlyWhenCommanded == [][TurnedOff => isEOff]_tpVars

=============================================================================
