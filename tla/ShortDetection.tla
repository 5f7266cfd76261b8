--------------------------- MODULE ShortDetection ---------------------------
(***************************************************************************)
(* Short circuit detection on the track output (cs/custom/                 *)
(* TivaShortDetection.hxx, TivaShortDetectionModule).  A flow measures the *)
(* current again and again.  Too high a current for several readings in a  *)
(* row disables the output, which is tried again after a while; after a    *)
(* few of these, or at once when the current is extreme, the flow gives up *)
(* and sends the emergency off event.  That event and those of the         *)
(* operator reach the track power bit (TrackPower), which disables the     *)
(* output for a reason of its own, some time later.                        *)
(*                                                                         *)
(* The current the flow gets to see was measured before: between the       *)
(* conversion and the handling of its result other handlers run.           *)
(***************************************************************************)
EXTENDS Integers

CONSTANTS
    Tests,  \* readings above SHUTDOWN_LIMIT before the output is disabled: 5
    Retry   \* OVERCURRENT_RETRY: 3

ASSUME ShortDetectionAssumption == Tests \in Nat \ {0} /\ Retry \in Nat \ {0}

VARIABLES
    flow,       \* the state of the flow
    adc,        \* the reading of the last conversion
    tests,      \* num_overcurrent_tests_
    tries,      \* num_disable_tries_
    reasons,    \* why the output is disabled
    current,    \* the current that the track draws when it is powered
    events,     \* whether the emergency off event is on its way to the bit
    counting,   \* ESTOP packets are counted, power goes off after them
    told        \* history: the event was sent after the output was disabled

detectorVars == <<flow, adc, tests, tries>>
powerVars == <<events, counting>>
shortVars == <<detectorVars, reasons, current, powerVars, told>>

(* Up to SHUTDOWN_LIMIT, up to KILL_LIMIT, above.                          *)
Levels == {"normal", "over", "kill"}
Reasons == {"INITIALIZATION_PENDING", "GLOBAL_EOFF", "SHORTED"}

Powered == reasons = {}

(* main: the boot disables the output; a standalone build enables it.      *)
ShortInit ==
    /\ flow = "start_timer" /\ adc = "normal" /\ tests = 0 /\ tries = 0
    /\ reasons \in {{"INITIALIZATION_PENDING"},
                    {"INITIALIZATION_PENDING", "GLOBAL_EOFF"}}
    /\ current \in Levels
    /\ events = FALSE /\ counting = FALSE /\ told = FALSE

StartConversion ==
    /\ flow = "start_timer"
    /\ flow' = "conversion_done"
    /\ adc' = IF Powered THEN current ELSE "normal"
    /\ UNCHANGED <<tests, tries, reasons, current, powerVars, told>>

(* disable_output_for_reason(SHORTED).                                     *)
Disable ==
    /\ reasons' = (reasons \ {"INITIALIZATION_PENDING"}) \cup {"SHORTED"}
    /\ told' = FALSE

Enabled ==
    /\ reasons' = reasons \ {"INITIALIZATION_PENDING"}
    /\ UNCHANGED told

(* shorted                                                                 *)
Shorted == tries' = 0 /\ flow' = "send_short_message"

Sample ==
    /\ flow = "conversion_done"
    /\ UNCHANGED <<adc, current, powerVars>>

SampleKill ==
    /\ Sample /\ adc = "kill"
    /\ Disable /\ Shorted
    /\ UNCHANGED tests

(* mutant: one retry more *)
OneRetryMore ==
    /\ Sample /\ adc = "over"
    /\ tests' = tests + 1
    /\ IF tests' < Tests
       THEN Enabled /\ flow' = "start_timer" /\ UNCHANGED tries
       ELSE /\ Disable
            /\ IF tries < Retry
               THEN flow' = "retry_wait" /\ tries' = tries + 1
               ELSE Shorted

SampleOver ==
    /\ Sample /\ adc = "over"
    /\ tests' = tests + 1
    /\ IF tests' < Tests
       THEN Enabled /\ flow' = "start_timer" /\ UNCHANGED tries
       ELSE /\ Disable
            /\ IF tries + 1 < Retry
               THEN flow' = "retry_wait" /\ tries' = tries + 1
               ELSE Shorted

SampleNormal ==
    /\ Sample /\ adc = "normal"
    /\ tests' = 0
    /\ Enabled /\ flow' = "start_timer"
    /\ UNCHANGED tries

(* mutant: the retries start again from the first *)
RetryForever ==
    /\ flow = "retry_wait"
    /\ flow' = "start_timer"
    /\ tests' = 0 /\ tries' = 0
    /\ reasons' = reasons \ {"SHORTED"}
    /\ UNCHANGED <<adc, current, powerVars, told>>

RetryEnable ==
    /\ flow = "retry_wait"
    /\ flow' = "start_timer"
    /\ reasons' = reasons \ {"SHORTED"}
    /\ UNCHANGED <<adc, tests, tries, current, powerVars, told>>

(* mutant: only the report for the operator is sent *)
OffNotSent ==
    /\ flow = "send_short_message"
    /\ flow' = "send_short_report2"
    /\ UNCHANGED <<adc, tests, tries, reasons, current, powerVars, told>>

SendShortMessage ==
    /\ flow = "send_short_message"
    /\ flow' = "send_short_report2"
    /\ events' = TRUE /\ told' = TRUE
    /\ UNCHANGED <<adc, tests, tries, reasons, current, counting>>

(* Nobody in the command station listens to EVENT_CS_DETECTED_SHORT.       *)
SendShortReport2 ==
    /\ flow = "send_short_report2"
    /\ flow' = "start_timer"
    /\ UNCHANGED <<adc, tests, tries, reasons, current, powerVars, told>>

DetectorStep ==
    \/ StartConversion
    \/ SampleKill \/ SampleOver \/ SampleNormal
    \/ RetryEnable
    \/ SendShortMessage \/ SendShortReport2

-----------------------------------------------------------------------------
(* The track power bit, as far as the output sees it.  An event to switch  *)
(* power off comes from the detector or from elsewhere.                    *)
PowerOff ==
    /\ events' = FALSE
    /\ counting' = TRUE
    /\ UNCHANGED <<detectorVars, reasons, current, told>>

BurstEnds ==
    /\ counting
    /\ counting' = FALSE
    /\ reasons' = reasons \cup {"GLOBAL_EOFF"}
    /\ UNCHANGED <<detectorVars, current, events, told>>

(* mutant: power on clears every reason *)
EnableAll ==
    /\ reasons' = {}
    /\ UNCHANGED <<detectorVars, current, powerVars, told>>

PowerOn ==
    /\ reasons' = reasons \ {"GLOBAL_EOFF"}
    /\ UNCHANGED <<detectorVars, current, powerVars, told>>

(* Trains and people change what the track draws.                          *)
CurrentChanges ==
    /\ current' \in Levels
    /\ UNCHANGED <<detectorVars, reasons, powerVars, told>>

ShortNext == DetectorStep \/ PowerOff \/ BurstEnds \/ PowerOn \/ CurrentChanges

ShortSpec == ShortInit /\ [][ShortNext]_shortVars

(* Timers expire, conversions end, and the executor runs the flow.         *)
ShortFairSpec == ShortSpec /\ WF_shortVars(DetectorStep)

-----------------------------------------------------------------------------
(* num_overcurrent_tests_ is not reset when the output is disabled, yet it *)
(* stays small: an overload that lasts gets all the readings of the first  *)
(* attempt and one for each further attempt.                               *)
ShortTypeOK ==
    /\ flow \in {"start_timer", "conversion_done", "retry_wait",
                 "send_short_message", "send_short_report2"}
    /\ adc \in Levels /\ current \in Levels
    /\ tests \in 0 .. (Tests + Retry - 1)
    /\ tries \in 0 .. (Retry - 1)
    /\ reasons \subseteq Reasons
    /\ events \in BOOLEAN /\ counting \in BOOLEAN /\ told \in BOOLEAN

(* An output is never left disabled without anybody knowing: unless the    *)
(* flow is about to try again or to send it, the emergency off event was   *)
(* sent after the output was disabled, and the measurements that go on     *)
(* meanwhile do not send it again.                                         *)
ShortReported ==
    "SHORTED" \in reasons =>
        \/ told /\ flow \in {"send_short_report2", "start_timer", "conversion_done"}
        \/ ~told /\ flow \in {"retry_wait", "send_short_message"}

(* A short that was reported is latched: a late reading, a retry, the end  *)
(* of the ESTOP burst or the operator switching power on, in whatever      *)
(* order, do not put voltage on the shorted track again.                   *)
ShortLatched == [][told /\ "SHORTED" \in reasons => "SHORTED" \in reasons']_shortVars

(* A short that lasts is switched off for good, however the current moves  *)
(* between high and extreme and however often power is switched on: the    *)
(* output is not tried again and again (unless power is also switched off  *)
(* again and again, which shows the flow a normal current in between).     *)
ShortSwitchedOff ==
    <>[](current # "normal") => <>[](~Powered) \/ []<>("GLOBAL_EOFF" \in reasons)
=============================================================================
