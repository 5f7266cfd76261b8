--------------------------- MODULE AccessoryPower ---------------------------
(***************************************************************************)
(* Power of the accessory bus (cs/custom/TivaShortDetection.hxx,           *)
(* AccessoryOvercurrentMeasurement and TivaAccPowerOnOffBit).  A flow      *)
(* measures current and voltage in turn.  It switches power off after      *)
(* some readings above the short limit, or when the current was above the  *)
(* overcurrent limit for some time; it tells the layout which of the two   *)
(* it was and sends the off event, which the command station's own bit     *)
(* gets too.  Too low a voltage for some readings is told as a short, and  *)
(* there only the off event switches power off.  The operator may switch   *)
(* power at any moment.                                                    *)
(***************************************************************************)
EXTENDS Integers

CONSTANTS
    ShortCount,     \* SHORT_COUNT: 10
    CounterModulus, \* range of num_short_ and num_uv_: 256
    OvercurrentTime \* OVERCURRENT_TIME, in units of its clock

ASSUME AccessoryPowerAssumption ==
    /\ ShortCount \in Nat
    /\ CounterModulus \in Nat /\ CounterModulus > ShortCount + 2
    /\ OvercurrentTime \in Nat

VARIABLES
    accFlow,    \* the state of the flow
    reading,    \* the result of the last conversion
    isVoltage,  \* is_voltage_
    numShort,   \* num_short_
    numUv,      \* num_uv_
    over,       \* time since last_time_not_overcurrent_, up to the limit + 1
    accEnable,  \* ACC_ENABLE_Pin
    load,       \* what the accessories draw when they are powered
    accOff,     \* whether the off event is on its way to the bit
    shown       \* the events whose bit is shown as on around the layout

meterVars == <<accFlow, reading, isVoltage, numShort, numUv, over>>
accVars == <<meterVars, accEnable, load, accOff, shown>>

Loads == {"normal", "over", "short"}

AccInit ==
    /\ accFlow = "start_timer" /\ reading = "normal" /\ isVoltage = FALSE
    /\ numShort = 0 /\ numUv = 0 /\ over = 0
    /\ accEnable = FALSE /\ load \in Loads /\ accOff = FALSE /\ shown = {}

(* The voltage of a shorted bus is low; it may be low for other reasons.   *)
AccConversion ==
    /\ accFlow = "start_timer"
    /\ accFlow' = "conversion_done"
    /\ reading' \in IF isVoltage
                    THEN {"low"} \cup IF accEnable /\ load = "short" THEN {}
                                      ELSE {"normal"}
                    ELSE {IF accEnable THEN load ELSE "normal"}
    /\ UNCHANGED <<isVoltage, numShort, numUv, over, accEnable, load, accOff, shown>>

(* mutant: the counters are wider than their fields *)
NoWrap(n) == n + 1

Increment(n) == (n + 1) % CounterModulus

(* mutant: the sequencer is left on the voltage pin *)
VoltageAgain ==
    /\ isVoltage
    /\ numUv' = IF reading = "low" THEN Increment(IF accEnable THEN numUv ELSE 0) ELSE 0
    /\ accFlow' = IF reading = "low" /\ accEnable /\ numUv > ShortCount
                  THEN "send_shorted" ELSE "start_timer"
    /\ UNCHANGED <<isVoltage, numShort, over, accEnable>>

(* voltage_sample                                                          *)
VoltageSample ==
    /\ isVoltage /\ isVoltage' = FALSE
    /\ numUv' = IF reading = "low" THEN Increment(IF accEnable THEN numUv ELSE 0) ELSE 0
    /\ accFlow' = IF reading = "low" /\ accEnable /\ numUv > ShortCount
                  THEN "send_shorted" ELSE "start_timer"
    /\ UNCHANGED <<numShort, over, accEnable>>

ShortSample ==
    /\ ~isVoltage /\ isVoltage' = TRUE
    /\ reading = "short"
    /\ numShort' = Increment(numShort)
    /\ IF numShort > ShortCount
       THEN accEnable' = FALSE /\ accFlow' = "send_shorted"
       ELSE accFlow' = "start_timer" /\ UNCHANGED accEnable
    /\ UNCHANGED <<numUv, over>>

OverSample ==
    /\ ~isVoltage /\ isVoltage' = TRUE
    /\ reading = "over"
    /\ numShort' = 0
    /\ IF over > OvercurrentTime
       THEN accEnable' = FALSE /\ accFlow' = "send_overcurrent"
       ELSE accFlow' = "start_timer" /\ UNCHANGED accEnable
    /\ UNCHANGED <<numUv, over>>

NormalSample ==
    /\ ~isVoltage /\ isVoltage' = TRUE
    /\ reading = "normal"
    /\ numShort' = 0 /\ over' = 0
    /\ accFlow' = "start_timer"
    /\ UNCHANGED <<numUv, accEnable>>

AccSample ==
    /\ accFlow = "conversion_done"
    /\ VoltageSample \/ ShortSample \/ OverSample \/ NormalSample
    /\ UNCHANGED <<reading, load, accOff, shown>>

(* mutant: a short is shown, and the off event is not sent *)
OffForgotten ==
    /\ \/ accFlow = "send_shorted" /\ accFlow' = "start_timer" /\ shown' = shown \cup {"short"}
       \/ accFlow = "send_overcurrent" /\ accFlow' = "send_off" /\ shown' = shown \cup {"overcurrent"}
    /\ UNCHANGED <<reading, isVoltage, numShort, numUv, over, accEnable, load, accOff>>

(* send_shorted, send_overcurrent                                          *)
SendCause ==
    /\ \/ accFlow = "send_shorted" /\ shown' = shown \cup {"short"}
       \/ accFlow = "send_overcurrent" /\ shown' = shown \cup {"overcurrent"}
    /\ accFlow' = "send_off"
    /\ UNCHANGED <<reading, isVoltage, numShort, numUv, over, accEnable, load, accOff>>

SendOff ==
    /\ accFlow = "send_off"
    /\ accFlow' = "start_timer"
    /\ accOff' = TRUE
    /\ UNCHANGED <<reading, isVoltage, numShort, numUv, over, accEnable, load, shown>>

AccStep == AccConversion \/ AccSample \/ SendCause \/ SendOff

-----------------------------------------------------------------------------
(* TivaAccPowerOnOffBit::set_state.                                        *)
AccSetOn ==
    /\ accEnable' = TRUE
    /\ shown' = IF accEnable THEN shown ELSE {}
    /\ UNCHANGED <<meterVars, load, accOff>>

AccSetOff ==
    /\ accEnable' = FALSE
    /\ accOff' = FALSE
    /\ UNCHANGED <<meterVars, load, shown>>

(* The off event that the flow has sent arrives.                           *)
AccOffArrives == accOff /\ AccSetOff

AccTime ==
    /\ over <= OvercurrentTime
    /\ over' = over + 1
    /\ UNCHANGED <<accFlow, reading, isVoltage, numShort, numUv, accEnable, load, accOff, shown>>

LoadChanges ==
    /\ load' \in Loads
    /\ UNCHANGED <<meterVars, accEnable, accOff, shown>>

(* An off event of the operator that overtakes the flow's own one is left  *)
(* out: the two do the same.                                               *)
AccNext ==
    \/ AccStep \/ AccOffArrives \/ AccTime
    \/ AccSetOn
    \/ AccSetOff /\ ~accOff
    \/ LoadChanges

-----------------------------------------------------------------------------
AccTypeOK ==
    /\ accFlow \in {"start_timer", "conversion_done", "send_shorted",
                    "send_overcurrent", "send_off"}
    /\ reading \in Loads \cup {"low"} /\ isVoltage \in BOOLEAN
    /\ numShort \in 0 .. (CounterModulus - 1)
    /\ numUv \in 0 .. (CounterModulus - 1)
    /\ over \in 0 .. (OvercurrentTime + 1)
    /\ accEnable \in BOOLEAN /\ load \in Loads
    /\ accOff \in BOOLEAN /\ shown \subseteq {"short", "overcurrent"}

AccAtRest == accFlow \in {"start_timer", "conversion_done"} /\ ~accOff

(* The layout is not shown a short or an overcurrent on a bus that is on,  *)
(* in whatever order the operator's events and those of the flow come:     *)
(* what a race leaves shown goes with power that is off.                   *)
ShownOnlyWhenOff == accEnable /\ AccAtRest => shown = {}

(* A short or an overcurrent that lasts is switched off, unless the        *)
(* operator switches power on again and again.                             *)
AccSwitchedOff ==
    <>[](load # "normal") /\ <>[][~(AccSetOn /\ ~accEnable)]_accVars
        => <>[](~accEnable)
=============================================================================
