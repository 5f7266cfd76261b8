-------------------------- MODULE PowerProtection ---------------------------
(***************************************************************************)
(* Everything that takes power from an output in time: the two measuring   *)
(* flows of the command station, which share the ADC unit, not its         *)
(* sequencers, and a port of a detector board.  They share no state: each  *)
(* is looked at beside idle others.                                        *)
(***************************************************************************)
EXTENDS ShortDetection, AccessoryPower, DetectorPort

VARIABLE output     \* the output looked at

protectionVars == <<output, shortVars, accVars, detectorPortVars>>

ProtectionInit ==
    /\ ShortInit /\ AccInit /\ DpInit
    /\ output \in {"track", "accessory", "port"}
    /\ output # "track" => current = "normal" /\ "GLOBAL_EOFF" \notin reasons
    /\ output # "accessory" => load = "normal"
    /\ output # "port" => ~port.enable

TrackStep ==
    output = "track" /\ ShortNext /\ UNCHANGED <<output, accVars, detectorPortVars>>
AccessoryStep ==
    output = "accessory" /\ AccNext /\ UNCHANGED <<output, shortVars, detectorPortVars>>
PortStep ==
    output = "port" /\ DpNext /\ UNCHANGED <<output, shortVars, accVars>>

(* The one looked at goes on: its ADC and its flow, the network, the        *)
(* timers; and a short at a port that is on is measured.                   *)
ProtectionFairness ==
    /\ WF_shortVars(output = "track" /\ DetectorStep)
    /\ WF_accVars(output = "accessory" /\ AccStep)
    /\ WF_accVars(output = "accessory" /\ AccOffArrives)
    /\ WF_accVars(output = "accessory" /\ AccTime)
    /\ WF_detectorPortVars(output = "port" /\ DpFlow)
    /\ WF_detectorPortVars(output = "port" /\ Measured)

ProtectionSpec ==
    /\ ProtectionInit /\ [][TrackStep \/ AccessoryStep \/ PortStep]_protectionVars
    /\ ProtectionFairness

-----------------------------------------------------------------------------
(* The counters of readings and tries, which not every path resets, stay   *)
(* within the numbers of tries and the widths of their fields.             *)
ProtectionTypeOK == ShortTypeOK /\ AccTypeOK /\ DpTypeOK

(* What the layout is told agrees with the outputs: a track that is off is *)
(* reported, no short is shown on an accessory bus that is on, and no      *)
(* change of a port's occupancy is missed.                                 *)
ReportsAgree == ShortReported /\ ShownOnlyWhenOff /\ OccupancyTold

(* A short or an overload that lasts is switched off for good.             *)
OverloadSwitchedOff == ShortSwitchedOff /\ AccSwitchedOff

(* A port does not hide a short that stays, and when its flow has seen     *)
(* that it was turned off it comes back when it is turned on.              *)
PortRecovers == ShortTold /\ PortComesBack
=============================================================================
