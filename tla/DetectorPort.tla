---------------------------- MODULE DetectorPort ----------------------------
(***************************************************************************)
(* One port of the RailCom and occupancy detector (cs/custom/              *)
(* DetectorPort.hxx): a flow that turns the output of the port on, retries *)
(* after short circuits, and reports occupancy and short circuits to the   *)
(* network; between two of its steps it is told of measurements and of     *)
(* events from the network.  Two of its bits survive a restart.            *)
(*                                                                         *)
(* Handlers and flow run on one executor: a run of the flow up to its next *)
(* wait is one step.  Timers may take any time, except that a short        *)
(* circuit is measured before the wait after turning on is over.           *)
(***************************************************************************)
EXTENDS Integers

CONSTANTS
    RetryCount,     \* turnonRetryCount_: 3 by default
    TryModulus      \* turnonTryCount_ has 3 bits: 8

(* The configuration takes any byte as the number of tries; from 8 on the  *)
(* tries of a port that is shorted would never run out.                    *)
ASSUME DetectorPortAssumption ==
    RetryCount \in Nat /\ TryModulus \in Nat /\ RetryCount < TryModulus

VARIABLES
    port,       \* the bits of the port, by their names, and
                \*   state: where the flow waits; runnable: notified there;
                \*   event: the one being sent; stored: the persistent bits
    shorted,    \* whether there is a short circuit in the segment
    network,    \* the last occupancy and overcurrent event on the network
    rebooted    \* history: the port was restarted

detectorPortVars == <<port, shorted, network, rebooted>>

Quiet == [kind |-> "none", value |-> FALSE]
NetEvent(kind, value) == [kind |-> kind, value |-> value]

(* init_start, after the constructor.                                      *)
Boot(stored, sensed) ==
    [state |-> "init_wait", runnable |-> TRUE, event |-> Quiet, stored |-> stored,
     killed |-> FALSE, lost |-> TRUE, sensed |-> sensed, over |-> FALSE,
     overKnown |-> FALSE, occ |-> stored.occ, on |-> FALSE,
     enable |-> stored.enable, seenOn |-> FALSE, waiting |-> FALSE, tries |-> 0]

(* The network knows what the port had stored.                             *)
DpInit ==
    /\ port \in {Boot([enable |-> e, occ |-> FALSE], FALSE) : e \in BOOLEAN}
    /\ shorted = FALSE /\ rebooted = FALSE
    /\ network = [occ |-> FALSE, over |-> FALSE]

-----------------------------------------------------------------------------
(* The flow, as functions of the port.  wait_and_call and sleep_and_call:  *)
(* a timer makes the flow runnable, otherwise it needs a notification.     *)
Sleep(p, state) == [p EXCEPT !.state = state, !.runnable = TRUE]
Wait(p, state) == [p EXCEPT !.state = state, !.runnable = FALSE]

(* set_output_enable                                                       *)
Output(p, value) == [p EXCEPT !.on = value, !.killed = IF value THEN FALSE ELSE @]

SetNetworkOff(p) == Wait(Output(p, FALSE), "network_off")

(* produce_event                                                           *)
Produce(p, kind, value, next) ==
    [Wait(p, next) EXCEPT !.event = NetEvent(kind, value)]

ProduceOvercurrent(p, value, next) ==
    IF p.over = value /\ p.overKnown THEN Sleep(p, next)
    ELSE Produce([p EXCEPT !.over = value, !.overKnown = TRUE], "over", value, next)

ProduceOccupancy(p) ==
    Produce([p EXCEPT !.occ = p.sensed, !.stored.occ = p.sensed],
            "occ", p.sensed, "eval_normal_state")

ProduceShorted(p) == ProduceOvercurrent(p, TRUE, "short_wait_for_retry")

InitWait(p) ==
    IF p.lost THEN Sleep(p, "init_wait")
    ELSE IF ~p.enable THEN SetNetworkOff(p)
    ELSE Sleep(p, "init_try_turnon")

WaitForDcc(p) ==
    IF p.tries < RetryCount
    THEN Sleep([p EXCEPT !.tries = (@ + 1) % TryModulus], "wait_for_dcc_to_turn_on")
    ELSE IF p.killed THEN ProduceShorted(p)
    ELSE InitWait(p)

(* mutant: power is turned on whatever the network said in the meantime *)
TurnonUnchecked(p) ==
    IF p.lost THEN WaitForDcc(p)
    ELSE Sleep(Output(p, TRUE), "eval_turnon")

TryTurnon(p) ==
    IF ~p.enable THEN SetNetworkOff(p)
    ELSE IF p.lost THEN WaitForDcc(p)
    ELSE Sleep(Output(p, TRUE), "eval_turnon")

InitTryTurnon(p) == TryTurnon([p EXCEPT !.tries = 0])

WaitForDccToTurnOn(p) == IF p.lost THEN WaitForDcc(p) ELSE InitTryTurnon(p)

(* mutant: the tries are not counted *)
TriesAgain(p) ==
    IF ~p.enable THEN SetNetworkOff(p)
    ELSE IF ~p.killed THEN ProduceOvercurrent(p, FALSE, "eval_normal_state")
    ELSE IF p.tries < RetryCount /\ ~p.lost THEN TryTurnon(p)
    ELSE ProduceShorted(p)

(* mutant: tries are counted past the limit *)
OneTryMore(p) ==
    IF ~p.enable THEN SetNetworkOff(p)
    ELSE IF ~p.killed THEN ProduceOvercurrent(p, FALSE, "eval_normal_state")
    ELSE IF p.tries <= RetryCount /\ ~p.lost
         THEN TryTurnon([p EXCEPT !.tries = (@ + 1) % TryModulus])
    ELSE ProduceShorted(p)

EvalTurnon(p) ==
    IF ~p.enable THEN SetNetworkOff(p)
    ELSE IF ~p.killed THEN ProduceOvercurrent(p, FALSE, "eval_normal_state")
    ELSE IF p.tries < RetryCount /\ ~p.lost
         THEN TryTurnon([p EXCEPT !.tries = (@ + 1) % TryModulus])
    ELSE ProduceShorted(p)

NetworkOff(p) == IF p.enable THEN InitTryTurnon(p) ELSE Wait(p, "network_off")

ShortSeen(p) == Sleep([p EXCEPT !.tries = 1], "try_turnon")

(* eval_normal_state; delay_normal goes on there.                          *)
EvalNormalState(p) ==
    IF p.killed THEN ShortSeen(p)
    ELSE IF ~p.enable THEN SetNetworkOff(p)
    ELSE IF p.occ = p.sensed THEN [Wait(p, "delay_normal") EXCEPT !.waiting = TRUE]
    ELSE IF p.sensed THEN ProduceOccupancy([p EXCEPT !.seenOn = FALSE])
    ELSE Sleep([p EXCEPT !.seenOn = FALSE], "sensor_debounce_done")

SensorDebounceDone(p) ==
    IF p.killed THEN ShortSeen(p)
    ELSE IF ~p.enable THEN SetNetworkOff(p)
    ELSE IF p.seenOn THEN EvalNormalState(p)
    ELSE ProduceOccupancy(p)

StepOf(p) ==
    CASE p.state = "init_wait" -> InitWait(p)
      [] p.state = "init_try_turnon" -> InitTryTurnon(p)
      [] p.state = "try_turnon" -> TryTurnon(p)
      [] p.state = "wait_for_dcc_to_turn_on" -> WaitForDccToTurnOn(p)
      [] p.state = "eval_turnon" -> EvalTurnon(p)
      [] p.state = "network_off" -> NetworkOff(p)
      [] p.state = "short_wait_for_retry" -> Sleep(p, "try_turnon")
      [] p.state = "sensor_debounce_done" -> SensorDebounceDone(p)
      [] OTHER -> EvalNormalState([p EXCEPT !.waiting = FALSE])

RunPort ==
    /\ port.runnable
    /\ port.state = "eval_turnon" => ~(shorted /\ port.on)
    /\ port' = StepOf(port)
    /\ UNCHANGED <<shorted, network, rebooted>>

-----------------------------------------------------------------------------
(* What the port is told.                                                  *)
(* mutant: the flow is not told *)
StaysAsleep(p) == p

(* wakeup_normal_state                                                     *)
Wakeup(p) == IF p.waiting THEN [p EXCEPT !.waiting = FALSE, !.runnable = TRUE] ELSE p

(* set_overcurrent: a reading of the output, perhaps late.                 *)
SetOvercurrent ==
    /\ shorted
    /\ port' = Wakeup([Output(port, FALSE) EXCEPT !.killed = TRUE])
    /\ UNCHANGED <<shorted, network, rebooted>>

SetHaveDccSignal(have) ==
    /\ port.lost = have
    /\ port' = [port EXCEPT !.lost = ~have]
    /\ UNCHANGED <<shorted, network, rebooted>>

(* set_occupancy, when the debounced value has changed.                    *)
SetOccupancy(value) ==
    /\ port.sensed # value
    /\ port' = Wakeup([port EXCEPT !.sensed = value, !.seenOn = @ \/ value])
    /\ UNCHANGED <<shorted, network, rebooted>>

(* set_network_occupancy, set_network_overcurrent: an event on the network *)
SetNetworkOccupancy(p, value) ==
    Wakeup([p EXCEPT !.occ = value,
                     !.stored.occ = IF value = p.sensed THEN value ELSE @])

SetNetworkOvercurrent(p, value) == Wakeup([p EXCEPT !.over = value])

EventReport(p, event) ==
    /\ network' = [network EXCEPT ![event.kind] = event.value]
    /\ port' = IF event.kind = "occ" THEN SetNetworkOccupancy(p, event.value)
               ELSE SetNetworkOvercurrent(p, event.value)
    /\ UNCHANGED <<shorted, rebooted>>

(* One of another node, and the port's own, which is looped back when it   *)
(* has been sent and lets the flow go on.                                  *)
EventOfOthers ==
    \E kind \in {"occ", "over"}, value \in BOOLEAN :
        EventReport(port, NetEvent(kind, value))

EventSent ==
    /\ port.event # Quiet
    /\ EventReport([port EXCEPT !.event = Quiet, !.runnable = TRUE], port.event)

(* mutant: a port that is off is not woken up *)
OffForGood(value) ==
    /\ LET p == [port EXCEPT !.enable = value, !.stored.enable = value]
       IN  port' = Wakeup(IF value THEN p ELSE Output(p, FALSE))
    /\ UNCHANGED <<shorted, network, rebooted>>

SetNetworkEnable(value) ==
    /\ LET p == [port EXCEPT !.enable = value, !.stored.enable = value,
                             !.runnable = @ \/ (value /\ port.state = "network_off")]
       IN  port' = Wakeup(IF value THEN p ELSE Output(p, FALSE))
    /\ UNCHANGED <<shorted, network, rebooted>>

(* A short circuit comes or goes; the board restarts.                      *)
Short ==
    /\ shorted' = ~shorted
    /\ UNCHANGED <<port, network, rebooted>>

Restart ==
    /\ port' = Boot(port.stored, FALSE)
    /\ rebooted' = TRUE
    /\ UNCHANGED <<shorted, network>>

DpFlow == RunPort \/ EventSent

DpNext ==
    \/ DpFlow \/ EventOfOthers \/ SetOvercurrent \/ Short \/ Restart
    \/ \E value \in BOOLEAN :
          \/ SetHaveDccSignal(value) \/ SetOccupancy(value)
          \/ SetNetworkEnable(value)

(* A short circuit of a port that is on is measured.                       *)
Measured == port.on /\ SetOvercurrent

-----------------------------------------------------------------------------
DpTypeOK ==
    /\ port.state \in {"init_wait", "init_try_turnon", "try_turnon", "eval_turnon",
          "wait_for_dcc_to_turn_on", "network_off", "short_wait_for_retry",
          "eval_normal_state", "delay_normal", "sensor_debounce_done"}
    /\ port.tries \in 0 .. RetryCount \cup {1}

(* The output has no power after the network turned the port off or a      *)
(* short was seen, whatever the flow was in the middle of, and the port    *)
(* does not forget over a restart that it was turned off.                  *)
OutputOffWhenTold ==
    port.on => port.enable /\ port.stored.enable /\ ~port.killed

(* While the flow rests, the network has the occupancy that was sensed     *)
(* (until a restart, which may cut off the event that has been stored as   *)
(* sent): no change slips between the flow and the handlers.               *)
OccupancyTold == port.waiting /\ ~rebooted => network.occ = port.sensed

(* A short circuit that stays, while power is turned on into it again and  *)
(* again, is reported in the end: the tries run out.                       *)
ShortTold ==
    <>[](shorted /\ port.enable /\ ~port.lost) /\ []<>port.on => []<>network.over

(* A port whose flow has come to rest because it was turned off comes back *)
(* when it is turned on.  A port that is turned off and on again before    *)
(* its flow has come to network_off is not woken up: see TurnsOn.          *)
PortComesBack ==
    port.state = "network_off" /\ port.enable
        ~> port.on \/ ~port.enable \/ port.lost \/ port.killed

(* "Turns on the output." (cs/custom/DetectorPortConfig.hxx:74): a port    *)
(* that stays turned on has power, unless DCC is lost or it is shorted.    *)
TurnsOn ==
    port.enable ~> port.on \/ ~port.enable \/ port.lost \/ port.killed
=============================================================================
