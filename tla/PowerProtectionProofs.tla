------------------------ MODULE PowerProtectionProofs -----------------------
(***************************************************************************)
(* Proofs about the circuits that take power from an output: what the      *)
(* layout is told agrees with the outputs, a port is off when it was told  *)
(* to be or saw a short, and a short that was reported is latched, for     *)
(* every number of readings, retries and tries and every width of a        *)
(* counter.                                                                *)
(***************************************************************************)
EXTENDS PowerProtection, TLAPS

-----------------------------------------------------------------------------
(* The track output.  The counter of readings is not reset when the output *)
(* is disabled.  It stays within its bound because each attempt adds one   *)
(* reading to it, until the flow gives up; and then the output stays off,  *)
(* so that the next reading is normal and resets it.                       *)
ReadingsPerAttempt ==
    tests > Tests - 1 + tries => "SHORTED" \in reasons /\ flow # "retry_wait"

(* The current of an output that is off is normal, also when the result of *)
(* the conversion is handled late.                                         *)
OffReadsNormal ==
    "SHORTED" \in reasons /\ flow = "conversion_done" => adc = "normal"

ShortInv == ShortTypeOK /\ ReadingsPerAttempt /\ OffReadsNormal /\ ShortReported

(* The initial states of the short circuit detection satisfy ShortInv.     *)
LEMMA ShortInitInv == ShortInit => ShortInv
<1> SUFFICES ASSUME ShortInit PROVE ShortInv
  OBVIOUS
<1>1. /\ tests \in 0 .. (Tests + Retry - 1) /\ tries \in 0 .. (Retry - 1)
      /\ tests <= Tests - 1 + tries
  BY ShortDetectionAssumption DEF ShortInit
<1>2. ReadingsPerAttempt
  BY <1>1, ShortDetectionAssumption DEF ReadingsPerAttempt
<1>3. reasons \subseteq Reasons /\ "SHORTED" \notin reasons
  BY DEF ShortInit, Reasons
<1>4. ShortTypeOK
  BY <1>1, <1>3 DEF ShortInit, ShortTypeOK, Levels
<1> QED
  BY <1>2, <1>3, <1>4 DEF ShortInv, OffReadsNormal, ShortReported

(* Every handler of the detection flow and of the track power bit keeps    *)
(* ShortInv.                                                               *)
LEMMA ShortNextInv == ShortInv /\ [ShortNext]_shortVars => ShortInv'
<1> SUFFICES ASSUME ShortInv, [ShortNext]_shortVars PROVE ShortInv'
  OBVIOUS
<1> USE ShortDetectionAssumption
    DEF ShortInv, ShortTypeOK, ReadingsPerAttempt, OffReadsNormal, ShortReported,
        Levels, Reasons, powerVars, detectorVars
<1>1. CASE StartConversion
  BY <1>1 DEF StartConversion, Powered
<1>2. CASE SampleKill
  <2>1. "SHORTED" \in reasons' /\ reasons' \subseteq Reasons /\ flow' = "send_short_message"
    BY <1>2 DEF SampleKill, Disable, Shorted
  <2>2. tests' = tests /\ tries' = 0 /\ told' = FALSE /\ UNCHANGED <<adc, current, powerVars>>
    BY <1>2 DEF SampleKill, Sample, Disable, Shorted
  <2>3. tries' \in 0 .. (Retry - 1)
    BY <2>2
  <2> QED BY <2>1, <2>2, <2>3
<1>3. CASE SampleOver
  <2>0. Sample /\ adc = "over" /\ tests' = tests + 1 /\ "SHORTED" \notin reasons
    BY <1>3 DEF SampleOver, Sample
  <2>1. CASE tests' < Tests
    <3>1. /\ flow' = "start_timer" /\ UNCHANGED <<tries, adc, current, powerVars, told>>
          /\ "SHORTED" \notin reasons' /\ reasons' \subseteq Reasons
      BY <1>3, <2>0, <2>1 DEF SampleOver, Sample, Enabled
    <3>2. tests' \in 0 .. (Tests + Retry - 1) /\ tests' <= Tests - 1 + tries'
      BY <2>0, <2>1, <3>1
    <3>3. ReadingsPerAttempt'
      BY <3>1, <3>2
    <3> QED BY <3>1, <3>2, <3>3
  <2>2. CASE ~(tests' < Tests) /\ tries + 1 < Retry
    <3>1. /\ flow' = "retry_wait" /\ tries' = tries + 1
          /\ UNCHANGED <<adc, current, powerVars>>
          /\ "SHORTED" \in reasons' /\ reasons' \subseteq Reasons /\ told' = FALSE
      BY <1>3, <2>0, <2>2 DEF SampleOver, Sample, Disable
    <3>2. /\ tests' \in 0 .. (Tests + Retry - 1) /\ tries' \in 0 .. (Retry - 1)
          /\ tests' <= Tests - 1 + tries'
      BY <2>0, <2>2, <3>1
    <3>3. ReadingsPerAttempt'
      BY <3>1, <3>2
    <3> QED BY <3>1, <3>2, <3>3
  <2>3. CASE ~(tests' < Tests) /\ ~(tries + 1 < Retry)
    <3>1. /\ flow' = "send_short_message" /\ tries' = 0
          /\ UNCHANGED <<adc, current, powerVars>>
          /\ "SHORTED" \in reasons' /\ reasons' \subseteq Reasons /\ told' = FALSE
      BY <1>3, <2>0, <2>3 DEF SampleOver, Sample, Disable, Shorted
    <3>2. tests' \in 0 .. (Tests + Retry - 1) /\ tries' \in 0 .. (Retry - 1)
      BY <2>0, <2>3, <3>1
    <3> QED BY <3>1, <3>2
  <2> QED BY <2>1, <2>2, <2>3
<1>4. CASE SampleNormal
  BY <1>4 DEF SampleNormal, Sample, Enabled
<1>5. CASE RetryEnable
  BY <1>5 DEF RetryEnable
<1>6. CASE SendShortMessage
  BY <1>6 DEF SendShortMessage
<1>7. CASE SendShortReport2
  BY <1>7 DEF SendShortReport2
<1>8. CASE PowerOff
  BY <1>8 DEF PowerOff
<1>9. CASE BurstEnds
  BY <1>9 DEF BurstEnds
<1>10. CASE PowerOn
  BY <1>10 DEF PowerOn
<1>11. CASE CurrentChanges
  BY <1>11 DEF CurrentChanges
<1>12. CASE UNCHANGED shortVars
  BY <1>12 DEF shortVars
<1> QED
  BY <1>1, <1>2, <1>3, <1>4, <1>5, <1>6, <1>7, <1>8, <1>9, <1>10, <1>11, <1>12
  DEF ShortNext, DetectorStep

(* Only retry_enable clears SHORTED, and it runs before the event is sent. *)
LEMMA ShortNextLatched ==
    ShortInv /\ [ShortNext]_shortVars
        => (told /\ "SHORTED" \in reasons => "SHORTED" \in reasons')
<1> SUFFICES ASSUME ShortInv, [ShortNext]_shortVars, told, "SHORTED" \in reasons
             PROVE  "SHORTED" \in reasons'
  OBVIOUS
<1>1. flow # "retry_wait"
  BY DEF ShortInv, ShortReported
<1> QED
  BY <1>1 DEF ShortNext, DetectorStep, StartConversion, SampleKill, SampleOver,
     SampleNormal, Sample, Enabled, Disable, RetryEnable, SendShortMessage,
     SendShortReport2, PowerOff, BurstEnds, PowerOn, CurrentChanges, shortVars

-----------------------------------------------------------------------------
(* The accessory bus.                                                      *)
AccInv == AccTypeOK /\ ShownOnlyWhenOff

(* A counter of CounterModulus values stays one of them.                   *)
LEMMA IncrementInRange ==
    ASSUME NEW n \in 0 .. (CounterModulus - 1)
    PROVE  Increment(n) \in 0 .. (CounterModulus - 1)
  BY AccessoryPowerAssumption DEF Increment

(* The initial states of the accessory bus satisfy AccInv.                 *)
LEMMA AccInitInv == AccInit => AccInv
<1> SUFFICES ASSUME AccInit PROVE AccInv
  OBVIOUS
<1>1. /\ numShort \in 0 .. (CounterModulus - 1) /\ numUv \in 0 .. (CounterModulus - 1)
      /\ over \in 0 .. (OvercurrentTime + 1)
  BY AccessoryPowerAssumption DEF AccInit
<1> QED
  BY <1>1 DEF AccInit, AccInv, AccTypeOK, ShownOnlyWhenOff, AccAtRest, Loads

(* Every step of the measuring flow and every event keeps AccInv.          *)
LEMMA AccNextInv == AccInv /\ [AccNext]_accVars => AccInv'
<1> SUFFICES ASSUME AccInv, [AccNext]_accVars PROVE AccInv'
  OBVIOUS
<1> USE AccessoryPowerAssumption
    DEF AccInv, AccTypeOK, ShownOnlyWhenOff, AccAtRest, Loads, meterVars
<1>1. CASE AccConversion
  BY <1>1 DEF AccConversion
<1>2. CASE AccSample
  <2>1. CASE VoltageSample
    <3>1. 0 \in 0 .. (CounterModulus - 1)
      OBVIOUS
    <3>2. numUv' \in 0 .. (CounterModulus - 1)
      BY <2>1, <3>1, IncrementInRange DEF VoltageSample
    <3> QED BY <1>2, <2>1, <3>2 DEF AccSample, VoltageSample
  <2>2. CASE ShortSample
    <3>1. numShort' \in 0 .. (CounterModulus - 1)
      BY <2>2, IncrementInRange DEF ShortSample
    <3> QED BY <1>2, <2>2, <3>1 DEF AccSample, ShortSample
  <2>3. CASE OverSample
    <3>1. numShort' \in 0 .. (CounterModulus - 1)
      BY <2>3 DEF OverSample
    <3> QED BY <1>2, <2>3, <3>1 DEF AccSample, OverSample
  <2>4. CASE NormalSample
    BY <1>2, <2>4 DEF AccSample, NormalSample
  <2> QED BY <1>2, <2>1, <2>2, <2>3, <2>4 DEF AccSample
<1>3. CASE SendCause
  BY <1>3 DEF SendCause
<1>4. CASE SendOff
  BY <1>4 DEF SendOff
<1>5. CASE AccSetOff
  BY <1>5 DEF AccSetOff
<1>6. CASE AccTime
  BY <1>6 DEF AccTime
<1>7. CASE AccSetOn
  BY <1>7 DEF AccSetOn
<1>8. CASE LoadChanges
  BY <1>8 DEF LoadChanges
<1>9. CASE UNCHANGED accVars
  BY <1>9 DEF accVars
<1> QED
  BY <1>1, <1>2, <1>3, <1>4, <1>5, <1>6, <1>7, <1>8, <1>9
  DEF AccNext, AccStep, AccOffArrives

-----------------------------------------------------------------------------
(* The detector port.                                                      *)
PortStates ==
    {"init_wait", "init_try_turnon", "try_turnon", "eval_turnon",
     "wait_for_dcc_to_turn_on", "network_off", "short_wait_for_retry",
     "eval_normal_state", "delay_normal", "sensor_debounce_done"}

PortTries == 0 .. RetryCount \cup {1}

Port ==
    [state : PortStates, runnable : BOOLEAN,
     event : [kind : {"none", "occ", "over"}, value : BOOLEAN],
     stored : [enable : BOOLEAN, occ : BOOLEAN],
     killed : BOOLEAN, lost : BOOLEAN, sensed : BOOLEAN, over : BOOLEAN,
     overKnown : BOOLEAN, occ : BOOLEAN, on : BOOLEAN, enable : BOOLEAN,
     seenOn : BOOLEAN, waiting : BOOLEAN, tries : PortTries]

(* The bit that survives a restart is the one the flow looks at, and power *)
(* is on only when the network wants it and no short was seen.             *)
PowerAllowed(p) ==
    p.enable = p.stored.enable /\ (p.on => p.enable /\ ~p.killed)

(* While an event is being sent the flow sleeps in one of two states, and  *)
(* nothing but the end of the sending wakes it up.                         *)
SleepsWhileSending(p) ==
    p.event # Quiet =>
        /\ p.event.kind # "none" /\ ~p.runnable /\ ~p.waiting
        /\ p.state \in {"eval_normal_state", "short_wait_for_retry"}

(* A flow that rests has told what is sensed.                              *)
RestsWhenTold(p) ==
    p.waiting => ~p.runnable /\ p.state = "delay_normal" /\ p.occ = p.sensed

PortGood(p) ==
    p \in Port /\ PowerAllowed(p) /\ SleepsWhileSending(p) /\ RestsWhenTold(p)

(* A port in the middle of a step of its flow.                             *)
Running(p) == p \in Port /\ PowerAllowed(p) /\ p.event = Quiet /\ ~p.waiting

(* What a step makes of a port: it is good, and a new occupancy is on its  *)
(* way to the network.                                                     *)
Stepped(p, q) == PortGood(q) /\ (q.occ = p.occ \/ q.event.kind = "occ")

(* A flow that goes to sleep without an event to send is good.             *)
LEMMA SleepGood ==
    ASSUME NEW p, Running(p), NEW s \in PortStates
    PROVE  Stepped(p, Sleep(p, s)) /\ Stepped(p, Wait(p, s))
  BY DEF Running, Stepped, PortGood, Port, PowerAllowed, SleepsWhileSending,
     RestsWhenTold, Sleep, Wait, Quiet

(* Power goes off at any time, and on when it may.                         *)
LEMMA OutputGood ==
    ASSUME NEW p, Running(p), NEW value \in BOOLEAN, value => p.enable
    PROVE  Running(Output(p, value)) /\ Output(p, value).occ = p.occ
  BY DEF Running, Port, PowerAllowed, Output

(* set_network_off.                                                        *)
LEMMA SetNetworkOffGood ==
    ASSUME NEW p, Running(p)
    PROVE  Stepped(p, SetNetworkOff(p))
<1>1. Running(Output(p, FALSE)) /\ Output(p, FALSE).occ = p.occ
  BY OutputGood
<1>2. Stepped(Output(p, FALSE), SetNetworkOff(p))
  BY <1>1, SleepGood DEF SetNetworkOff, PortStates
<1> QED
  BY <1>1, <1>2 DEF Stepped

(* produce_event, which keeps the flow waiting until the event is sent.    *)
LEMMA ProduceGood ==
    ASSUME NEW p, Running(p), NEW kind \in {"occ", "over"}, NEW value \in BOOLEAN,
           NEW next \in {"eval_normal_state", "short_wait_for_retry"}
    PROVE  /\ PortGood(Produce(p, kind, value, next))
           /\ Produce(p, kind, value, next).occ = p.occ
           /\ Produce(p, kind, value, next).event.kind = kind
  BY DEF Running, PortGood, Port, PowerAllowed, SleepsWhileSending, PortStates,
     RestsWhenTold, Wait, Produce, Quiet, NetEvent

(* The report of a short circuit, or of its end.                           *)
LEMMA ProduceOvercurrentGood ==
    ASSUME NEW p, Running(p), NEW value \in BOOLEAN,
           NEW next \in {"eval_normal_state", "short_wait_for_retry"}
    PROVE  Stepped(p, ProduceOvercurrent(p, value, next))
<1>1. CASE p.over = value /\ p.overKnown
  BY <1>1, SleepGood DEF ProduceOvercurrent, PortStates
<1>2. CASE ~(p.over = value /\ p.overKnown)
  <2> DEFINE q == [p EXCEPT !.over = value, !.overKnown = TRUE]
  <2>1. Running(q) /\ q.occ = p.occ
    BY DEF Running, Port, PowerAllowed
  <2> HIDE DEF q
  <2>2. PortGood(Produce(q, "over", value, next)) /\ Produce(q, "over", value, next).occ = p.occ
    BY <2>1, ProduceGood
  <2> QED BY <1>2, <2>2 DEF q, ProduceOvercurrent, Stepped
<1> QED BY <1>1, <1>2

(* The report of the occupancy that is sensed.                             *)
LEMMA ProduceOccupancyGood ==
    ASSUME NEW p, Running(p)
    PROVE  Stepped(p, ProduceOccupancy(p))
<1> DEFINE q == [p EXCEPT !.occ = p.sensed, !.stored.occ = p.sensed]
<1>1. Running(q) /\ p.sensed \in BOOLEAN
  BY DEF Running, Port, PowerAllowed
<1> HIDE DEF q
<1>2. /\ PortGood(Produce(q, "occ", p.sensed, "eval_normal_state"))
      /\ Produce(q, "occ", p.sensed, "eval_normal_state").event.kind = "occ"
  BY <1>1, ProduceGood
<1> QED
  BY <1>2 DEF q, ProduceOccupancy, Stepped

(* init_wait.                                                              *)
LEMMA InitWaitGood ==
    ASSUME NEW p, Running(p)
    PROVE  Stepped(p, InitWait(p))
  BY SleepGood, SetNetworkOffGood DEF InitWait, PortStates

(* One more try, as long as there are some left.                           *)
LEMMA CountedGood ==
    ASSUME NEW p, Running(p), p.tries < RetryCount
    PROVE  LET q == [p EXCEPT !.tries = (@ + 1) % TryModulus]
           IN  Running(q) /\ q.occ = p.occ /\ q.enable = p.enable /\ q.lost = p.lost
<1>1. p.tries \in Nat /\ p.tries + 1 < TryModulus
  BY DetectorPortAssumption DEF Running, Port, PortTries
<1>2. (p.tries + 1) % TryModulus = p.tries + 1
  BY <1>1, DetectorPortAssumption
<1>3. p.tries + 1 \in PortTries
  BY <1>1, DetectorPortAssumption DEF PortTries
<1> QED
  BY <1>2, <1>3 DEF Running, Port, PowerAllowed

(* The wait for the track signal.                                          *)
LEMMA WaitForDccGood ==
    ASSUME NEW p, Running(p)
    PROVE  Stepped(p, WaitForDcc(p))
<1>1. CASE p.tries < RetryCount
  <2> DEFINE q == [p EXCEPT !.tries = (@ + 1) % TryModulus]
  <2>1. Running(q) /\ q.occ = p.occ
    BY <1>1, CountedGood
  <2> HIDE DEF q
  <2>2. Stepped(q, Sleep(q, "wait_for_dcc_to_turn_on"))
    BY <2>1, SleepGood DEF PortStates
  <2> QED BY <1>1, <2>1, <2>2 DEF q, WaitForDcc, Stepped
<1>2. CASE ~(p.tries < RetryCount)
  BY <1>2, InitWaitGood, ProduceOvercurrentGood DEF WaitForDcc, ProduceShorted
<1> QED BY <1>1, <1>2

(* try_turnon: power goes on only when the network still wants it.         *)
LEMMA TryTurnonGood ==
    ASSUME NEW p, Running(p)
    PROVE  Stepped(p, TryTurnon(p))
<1>1. CASE p.enable /\ ~p.lost
  <2>1. Running(Output(p, TRUE)) /\ Output(p, TRUE).occ = p.occ
    BY <1>1, OutputGood
  <2>2. Stepped(Output(p, TRUE), Sleep(Output(p, TRUE), "eval_turnon"))
    BY <2>1, SleepGood DEF PortStates
  <2> QED BY <1>1, <2>1, <2>2 DEF TryTurnon, Stepped
<1>2. CASE ~(p.enable /\ ~p.lost)
  BY <1>2, SetNetworkOffGood, WaitForDccGood DEF TryTurnon
<1> QED BY <1>1, <1>2

(* init_try_turnon, which counts from zero.                                *)
LEMMA InitTryTurnonGood ==
    ASSUME NEW p, Running(p)
    PROVE  Stepped(p, InitTryTurnon(p))
<1> DEFINE q == [p EXCEPT !.tries = 0]
<1>1. 0 \in PortTries
  BY DetectorPortAssumption DEF PortTries
<1>2. Running(q) /\ q.occ = p.occ
  BY <1>1 DEF Running, Port, PowerAllowed
<1> HIDE DEF q
<1>3. Stepped(q, TryTurnon(q))
  BY <1>2, TryTurnonGood
<1> QED
  BY <1>2, <1>3 DEF q, InitTryTurnon, Stepped

(* eval_turnon, after the output was turned on.                            *)
LEMMA EvalTurnonGood ==
    ASSUME NEW p, Running(p)
    PROVE  Stepped(p, EvalTurnon(p))
<1>1. CASE p.tries < RetryCount /\ p.enable /\ p.killed /\ ~p.lost
  <2> DEFINE q == [p EXCEPT !.tries = (@ + 1) % TryModulus]
  <2>1. Running(q) /\ q.occ = p.occ
    BY <1>1, CountedGood
  <2> HIDE DEF q
  <2>2. Stepped(q, TryTurnon(q))
    BY <2>1, TryTurnonGood
  <2> QED BY <1>1, <2>1, <2>2 DEF q, EvalTurnon, Stepped
<1>2. CASE ~(p.tries < RetryCount /\ p.enable /\ p.killed /\ ~p.lost)
  BY <1>2, SetNetworkOffGood, ProduceOvercurrentGood DEF EvalTurnon, ProduceShorted
<1> QED BY <1>1, <1>2

(* A short that was seen in the normal state.                              *)
LEMMA ShortSeenGood ==
    ASSUME NEW p, Running(p)
    PROVE  Stepped(p, ShortSeen(p))
<1> DEFINE q == [p EXCEPT !.tries = 1]
<1>1. Running(q) /\ q.occ = p.occ
  BY DEF Running, Port, PowerAllowed, PortTries
<1> HIDE DEF q
<1>2. Stepped(q, Sleep(q, "try_turnon"))
  BY <1>1, SleepGood DEF PortStates
<1> QED
  BY <1>1, <1>2 DEF q, ShortSeen, Stepped

(* eval_normal_state: the flow rests only when the occupancy is told.      *)
LEMMA EvalNormalStateGood ==
    ASSUME NEW p, Running(p)
    PROVE  Stepped(p, EvalNormalState(p))
<1> DEFINE q == [p EXCEPT !.seenOn = FALSE]
<1>1. Running(q) /\ q.occ = p.occ
  BY DEF Running, Port, PowerAllowed
<1> HIDE DEF q
<1>2. Stepped(q, ProduceOccupancy(q)) /\ Stepped(q, Sleep(q, "sensor_debounce_done"))
  BY <1>1, ProduceOccupancyGood, SleepGood DEF PortStates
<1>3. Stepped(p, ProduceOccupancy(q)) /\ Stepped(p, Sleep(q, "sensor_debounce_done"))
  BY <1>1, <1>2 DEF Stepped
<1>4. ASSUME p.occ = p.sensed
      PROVE  Stepped(p, [Wait(p, "delay_normal") EXCEPT !.waiting = TRUE])
  BY <1>4 DEF Running, Stepped, PortGood, Port, PowerAllowed, SleepsWhileSending,
     RestsWhenTold, Wait, Quiet, PortStates
<1> QED
  BY <1>3, <1>4, ShortSeenGood, SetNetworkOffGood DEF q, EvalNormalState

(* A run of the flow up to its next wait.                                  *)
LEMMA StepOfGood ==
    ASSUME NEW p, PortGood(p), p.runnable
    PROVE  Stepped(p, StepOf(p))
<1>1. Running(p)
  BY DEF PortGood, Running, SleepsWhileSending, RestsWhenTold
<1> DEFINE q == [p EXCEPT !.waiting = FALSE]
<1>2. Running(q) /\ q.occ = p.occ
  BY <1>1 DEF Running, Port, PowerAllowed
<1> HIDE DEF q
<1>3. Stepped(p, EvalNormalState(q))
  BY <1>2, EvalNormalStateGood DEF Stepped
<1>4. Stepped(p, WaitForDccToTurnOn(p))
  BY <1>1, WaitForDccGood, InitTryTurnonGood DEF WaitForDccToTurnOn
<1>5. Stepped(p, NetworkOff(p)) /\ Stepped(p, Sleep(p, "try_turnon"))
  BY <1>1, InitTryTurnonGood, SleepGood DEF NetworkOff, PortStates
<1>6. Stepped(p, SensorDebounceDone(p))
  BY <1>1, ShortSeenGood, SetNetworkOffGood, EvalNormalStateGood, ProduceOccupancyGood
  DEF SensorDebounceDone
<1> QED
  BY <1>1, <1>3, <1>4, <1>5, <1>6, InitWaitGood, InitTryTurnonGood, TryTurnonGood,
     EvalTurnonGood
  DEF q, StepOf

(* The network and the port agree on the occupancy, except while the event *)
(* is under way.                                                           *)
NetworkInStep ==
    /\ network \in [occ : BOOLEAN, over : BOOLEAN]
    /\ ~rebooted /\ port.event.kind # "occ" => network.occ = port.occ

DpInv == PortGood(port) /\ NetworkInStep

(* The initial states of a port satisfy DpInv.                             *)
LEMMA DpInitInv == DpInit => DpInv
<1> SUFFICES ASSUME DpInit PROVE DpInv
  OBVIOUS
<1>1. PICK e \in BOOLEAN : port = Boot([enable |-> e, occ |-> FALSE], FALSE)
  BY DEF DpInit
<1>2. 0 \in PortTries
  BY DetectorPortAssumption DEF PortTries
<1>3. PortGood(port)
  BY <1>1, <1>2 DEF Boot, PortGood, Port, PowerAllowed, SleepsWhileSending,
     RestsWhenTold, Quiet, PortStates
<1> QED
  BY <1>1, <1>3 DEF DpInit, DpInv, NetworkInStep, Boot, Quiet

(* wakeup_normal_state ends the rest of the flow.                          *)
LEMMA WakeupGood ==
    ASSUME NEW p, p \in Port, PowerAllowed(p), SleepsWhileSending(p),
           p.waiting => p.state = "delay_normal"
    PROVE  PortGood(Wakeup(p)) /\ Wakeup(p).event = p.event /\ Wakeup(p).occ = p.occ
           /\ ~Wakeup(p).waiting
<1>1. CASE p.waiting
  <2>1. p.event = Quiet
    BY <1>1 DEF SleepsWhileSending
  <2> QED
    BY <1>1, <2>1 DEF Port, PowerAllowed, SleepsWhileSending, PortGood, RestsWhenTold,
       Wakeup, Quiet
<1>2. CASE ~p.waiting
  BY <1>2 DEF PortGood, RestsWhenTold, Wakeup
<1> QED
  BY <1>1, <1>2

(* An event on the network, of the port itself or of another node.         *)
LEMMA EventReportGood ==
    ASSUME DpInv, NEW p, PortGood(p), p.event \in {port.event, Quiet}, p.occ = port.occ,
           NEW event \in [kind : {"occ", "over"}, value : BOOLEAN],
           p.event # port.event => event = port.event,
           EventReport(p, event)
    PROVE  DpInv'
<1>1. event.kind \in {"occ", "over"} /\ event.value \in BOOLEAN /\ rebooted' = rebooted
  BY DEF EventReport
<1>2. CASE event.kind = "occ"
  <2> DEFINE q == [p EXCEPT !.occ = event.value,
                            !.stored.occ = IF event.value = p.sensed THEN event.value ELSE @]
  <2>1. /\ q \in Port /\ PowerAllowed(q) /\ SleepsWhileSending(q)
        /\ q.waiting => q.state = "delay_normal"
        /\ q.occ = event.value
    BY <1>1 DEF PortGood, Port, PowerAllowed, SleepsWhileSending, RestsWhenTold, Quiet
  <2>2. port' = Wakeup(q)
    BY <1>2 DEF EventReport, SetNetworkOccupancy
  <2> HIDE DEF q
  <2>3. PortGood(port') /\ port'.occ = event.value
    BY <2>1, <2>2, WakeupGood
  <2>4. network' \in [occ : BOOLEAN, over : BOOLEAN] /\ network'.occ = event.value
    BY <1>1, <1>2 DEF EventReport, DpInv, NetworkInStep
  <2> QED BY <2>3, <2>4 DEF DpInv, NetworkInStep
<1>3. CASE event.kind = "over"
  <2> DEFINE q == [p EXCEPT !.over = event.value]
  <2>1. /\ q \in Port /\ PowerAllowed(q) /\ SleepsWhileSending(q)
        /\ q.waiting => q.state = "delay_normal"
        /\ q.occ = p.occ /\ q.event = p.event
    BY <1>1 DEF PortGood, Port, PowerAllowed, SleepsWhileSending, RestsWhenTold, Quiet
  <2>2. port' = Wakeup(q)
    BY <1>3 DEF EventReport, SetNetworkOvercurrent
  <2> HIDE DEF q
  <2>3. PortGood(port') /\ port'.occ = port.occ /\ port'.event = p.event
    BY <2>1, <2>2, WakeupGood
  <2>4. network' \in [occ : BOOLEAN, over : BOOLEAN] /\ network'.occ = network.occ
    BY <1>1, <1>3 DEF EventReport, DpInv, NetworkInStep
  <2>5. port'.event.kind # "occ" => port.event.kind # "occ"
    BY <1>3, <2>3
  <2> QED BY <1>1, <2>3, <2>4, <2>5 DEF DpInv, NetworkInStep
<1> QED BY <1>1, <1>2, <1>3

(* Every step of the flow of a port and everything it is told keep DpInv.  *)
LEMMA DpNextInv == DpInv /\ [DpNext]_detectorPortVars => DpInv'
<1> SUFFICES ASSUME DpInv, [DpNext]_detectorPortVars PROVE DpInv'
  OBVIOUS
<1>0. PortGood(port) /\ port \in Port /\ NetworkInStep
  BY DEF DpInv, PortGood
<1>1. CASE RunPort
  <2>1. Stepped(port, port') /\ port.event = Quiet
    BY <1>0, <1>1, StepOfGood DEF RunPort, PortGood, SleepsWhileSending
  <2> QED BY <1>0, <1>1, <2>1 DEF RunPort, Stepped, DpInv, NetworkInStep, Quiet
<1>2. CASE EventSent
  <2> DEFINE p == [port EXCEPT !.event = Quiet, !.runnable = TRUE]
  <2>1. PortGood(p) /\ p.event = Quiet /\ p.occ = port.occ
    BY <1>0, <1>2 DEF EventSent, PortGood, Port, PowerAllowed, SleepsWhileSending,
       RestsWhenTold, Quiet
  <2>2. port.event \in [kind : {"occ", "over"}, value : BOOLEAN]
    BY <1>0, <1>2 DEF EventSent, PortGood, Port, SleepsWhileSending
  <2>3. EventReport(p, port.event)
    BY <1>2 DEF EventSent
  <2> HIDE DEF p
  <2> QED BY <2>1, <2>2, <2>3, EventReportGood
<1>3. CASE EventOfOthers
  <2>1. PICK kind \in {"occ", "over"}, value \in BOOLEAN :
           EventReport(port, NetEvent(kind, value))
    BY <1>3 DEF EventOfOthers
  <2>2. NetEvent(kind, value) \in [kind : {"occ", "over"}, value : BOOLEAN]
    BY DEF NetEvent
  <2> QED BY <1>0, <2>1, <2>2, EventReportGood
<1>4. CASE SetOvercurrent
  <2> DEFINE p == [Output(port, FALSE) EXCEPT !.killed = TRUE]
  <2>1. /\ p \in Port /\ PowerAllowed(p) /\ SleepsWhileSending(p)
        /\ p.waiting => p.state = "delay_normal"
        /\ p.occ = port.occ /\ p.event = port.event
    BY <1>0 DEF Output, PortGood, Port, PowerAllowed, SleepsWhileSending,
       RestsWhenTold, Quiet
  <2>2. port' = Wakeup(p) /\ UNCHANGED <<network, rebooted>>
    BY <1>4 DEF SetOvercurrent
  <2> HIDE DEF p
  <2>3. PortGood(port') /\ port'.occ = port.occ /\ port'.event = port.event
    BY <2>1, <2>2, WakeupGood
  <2> QED BY <1>0, <2>2, <2>3 DEF DpInv, NetworkInStep
<1>5. CASE Short
  BY <1>0, <1>5 DEF Short, DpInv, NetworkInStep
<1>6. CASE Restart
  <2>1. 0 \in PortTries /\ port.stored \in [enable : BOOLEAN, occ : BOOLEAN]
    BY <1>0, DetectorPortAssumption DEF PortTries, Port
  <2>2. PortGood(port')
    BY <1>6, <2>1 DEF Restart, Boot, PortGood, Port, PowerAllowed, SleepsWhileSending,
       RestsWhenTold, Quiet, PortStates
  <2> QED BY <1>0, <1>6, <2>2 DEF Restart, DpInv, NetworkInStep
<1>7. ASSUME NEW value \in BOOLEAN, SetHaveDccSignal(value)
      PROVE  DpInv'
  <2>1. PortGood(port') /\ port'.occ = port.occ /\ port'.event = port.event
    BY <1>0, <1>7 DEF SetHaveDccSignal, PortGood, Port, PowerAllowed,
       SleepsWhileSending, RestsWhenTold, Quiet
  <2> QED BY <1>0, <1>7, <2>1 DEF SetHaveDccSignal, DpInv, NetworkInStep
<1>8. ASSUME NEW value \in BOOLEAN, SetOccupancy(value)
      PROVE  DpInv'
  <2> DEFINE p == [port EXCEPT !.sensed = value, !.seenOn = @ \/ value]
  <2>1. /\ p \in Port /\ PowerAllowed(p) /\ SleepsWhileSending(p)
        /\ p.waiting => p.state = "delay_normal"
        /\ p.occ = port.occ /\ p.event = port.event
    BY <1>0 DEF PortGood, Port, PowerAllowed, SleepsWhileSending, RestsWhenTold, Quiet
  <2>2. port' = Wakeup(p) /\ UNCHANGED <<network, rebooted>>
    BY <1>8 DEF SetOccupancy
  <2> HIDE DEF p
  <2>3. PortGood(port') /\ port'.occ = port.occ /\ port'.event = port.event
    BY <2>1, <2>2, WakeupGood
  <2> QED BY <1>0, <2>2, <2>3 DEF DpInv, NetworkInStep
<1>9. ASSUME NEW value \in BOOLEAN, SetNetworkEnable(value)
      PROVE  DpInv'
  <2> DEFINE woken == port.runnable \/ (value /\ port.state = "network_off")
             r == [port EXCEPT !.enable = value, !.stored.enable = value, !.runnable = woken]
             p == IF value THEN r ELSE Output(r, FALSE)
  <2>1. woken \in BOOLEAN /\ (port.event # Quiet => ~woken)
    BY <1>0 DEF PortGood, Port, SleepsWhileSending
  <2>2. port' = Wakeup(p) /\ UNCHANGED <<network, rebooted>>
    BY <1>9 DEF SetNetworkEnable
  <2> HIDE DEF woken
  <2>3. r \in Port /\ r.on = port.on /\ r.killed = port.killed /\ r.enable = value
        /\ r.stored.enable = value /\ r.event = port.event /\ r.runnable = woken
        /\ r.waiting = port.waiting /\ r.state = port.state /\ r.occ = port.occ
    BY <1>0, <2>1 DEF Port
  <2> HIDE DEF r
  <2>4. /\ p \in Port /\ PowerAllowed(p) /\ SleepsWhileSending(p)
        /\ p.waiting => p.state = "delay_normal"
        /\ p.occ = port.occ /\ p.event = port.event
    <3>1. CASE value
      <4>1. p = r /\ r.enable /\ r.stored.enable
        BY <2>3, <3>1
      <4>2. PowerAllowed(r)
        BY <1>0, <2>3, <4>1 DEF PortGood, PowerAllowed
      <4>3. SleepsWhileSending(r) /\ (r.waiting => r.state = "delay_normal")
        BY <1>0, <2>1, <2>3 DEF PortGood, SleepsWhileSending, RestsWhenTold
      <4> QED BY <2>3, <4>1, <4>2, <4>3
    <3>2. CASE ~value
      BY <1>0, <2>1, <2>3, <3>2 DEF Output, PortGood, Port, PowerAllowed,
         SleepsWhileSending, RestsWhenTold
    <3> QED BY <3>1, <3>2
  <2> HIDE DEF p
  <2>5. PortGood(port') /\ port'.occ = port.occ /\ port'.event = port.event
    BY <2>2, <2>4, WakeupGood
  <2> QED BY <1>0, <2>2, <2>5 DEF DpInv, NetworkInStep
<1>10. CASE UNCHANGED detectorPortVars
  BY <1>0, <1>10 DEF detectorPortVars, DpInv, NetworkInStep
<1> QED
  BY <1>1, <1>2, <1>3, <1>4, <1>5, <1>6, <1>7, <1>8, <1>9, <1>10 DEF DpNext, DpFlow

-----------------------------------------------------------------------------
(* All three side by side.                                                 *)
ProtectionInv == ShortInv /\ AccInv /\ DpInv

(* Every step is one of one of the three, and leaves the others alone.     *)
LEMMA ProtectionSteps ==
    [TrackStep \/ AccessoryStep \/ PortStep]_protectionVars
        => [ShortNext]_shortVars /\ [AccNext]_accVars /\ [DpNext]_detectorPortVars
  BY DEF TrackStep, AccessoryStep, PortStep, protectionVars

(* The inductive invariants of the track output, the accessory bus and the *)
(* detector port hold whatever order the readings, timers, events and      *)
(* restarts come in.                                                       *)
THEOREM ProtectionInvariant == ProtectionSpec => []ProtectionInv
<1>1. ProtectionInit => ProtectionInv
  BY ShortInitInv, AccInitInv, DpInitInv DEF ProtectionInit, ProtectionInv
<1>2. ProtectionInv /\ [TrackStep \/ AccessoryStep \/ PortStep]_protectionVars
        => ProtectionInv'
  BY ProtectionSteps, ShortNextInv, AccNextInv, DpNextInv DEF ProtectionInv
<1> QED
  BY <1>1, <1>2, PTL DEF ProtectionSpec

(* num_overcurrent_tests_, num_disable_tries_, num_short_, num_uv_ and     *)
(* turnonTryCount_ keep within their bounds, although not every path       *)
(* through the flows resets them.                                          *)
THEOREM CountersBounded == ProtectionSpec => []ProtectionTypeOK
<1>1. ProtectionInv => ProtectionTypeOK
  BY DEF ProtectionInv, ProtectionTypeOK, ShortInv, AccInv, DpInv, PortGood, DpTypeOK,
     Port, PortStates, PortTries
<1> QED
  BY <1>1, ProtectionInvariant, PTL

(* What the layout is told by the three flows agrees with the outputs: a   *)
(* track that is off for a short is reported, no short is shown on an      *)
(* accessory bus that is on, no change of occupancy of a port is missed.   *)
THEOREM ReportsCorrect == ProtectionSpec => []ReportsAgree
<1>1. DpInv => OccupancyTold
  BY DEF DpInv, PortGood, NetworkInStep, RestsWhenTold, SleepsWhileSending,
     OccupancyTold, Quiet
<1>2. ProtectionInv => ReportsAgree
  BY <1>1 DEF ProtectionInv, ReportsAgree, ShortInv, AccInv
<1> QED
  BY <1>2, ProtectionInvariant, PTL

(* A port that the network turned off or that saw a short circuit has no   *)
(* power, and a restart does not forget it (set_network_enable,            *)
(* set_overcurrent, try_turnon).                                           *)
THEOREM PortStaysOff == ProtectionSpec => []OutputOffWhenTold
<1>1. ProtectionInv => OutputOffWhenTold
  BY DEF ProtectionInv, DpInv, PortGood, PowerAllowed, OutputOffWhenTold
<1> QED
  BY <1>1, ProtectionInvariant, PTL

(* A short that was reported stays latched: no reading, retry, end of a    *)
(* burst or power on event clears SHORTED once the off event was sent.     *)
THEOREM ShortStaysLatched == ProtectionSpec => ShortLatched
<1>1. ProtectionInv /\ [TrackStep \/ AccessoryStep \/ PortStep]_protectionVars
        => [told /\ "SHORTED" \in reasons => "SHORTED" \in reasons']_shortVars
  BY ProtectionSteps, ShortNextLatched DEF ProtectionInv
<1> QED
  BY <1>1, ProtectionInvariant, PTL DEF ProtectionSpec, ShortLatched
=============================================================================
