------------------------------- MODULE Station -------------------------------
(***************************************************************************)
(* The services of the stations besides packets and routes: everything     *)
(* that takes power from an output (PowerProtection), the programming      *)
(* track and the search for trains.  They share no state: each is looked   *)
(* at beside idle others.                                                  *)
(***************************************************************************)
EXTENDS PowerProtection, ProgrammingTrack, TrainSearch

VARIABLE part   \* the part looked at

stationVars == <<part, protectionVars, ptVars, trainSearchVars>>

StationInit ==
    /\ ProtectionInit /\ PtInit /\ SearchInit
    /\ part \in {"power", "programming", "trains"}
    /\ part # "power" => output = "accessory" /\ load = "normal"
    /\ part # "programming" => decoder.cv = {}

PowerStep ==
    /\ part = "power" /\ (TrackStep \/ AccessoryStep \/ PortStep)
    /\ UNCHANGED <<part, ptVars, trainSearchVars>>
ProgrammingStep ==
    part = "programming" /\ PtNext /\ UNCHANGED <<part, protectionVars, trainSearchVars>>
TrainStep ==
    part = "trains" /\ SearchNext /\ UNCHANGED <<part, protectionVars, ptVars>>

(* The executor runs the flows, timers expire, the track transmits.        *)
StationSpec ==
    /\ StationInit /\ [][PowerStep \/ ProgrammingStep \/ TrainStep]_stationVars
    /\ WF_shortVars(part = "power" /\ output = "track" /\ DetectorStep)
    /\ WF_accVars(part = "power" /\ output = "accessory" /\ AccStep)
    /\ WF_accVars(part = "power" /\ output = "accessory" /\ AccOffArrives)
    /\ WF_accVars(part = "power" /\ output = "accessory" /\ AccTime)
    /\ WF_detectorPortVars(part = "power" /\ output = "port" /\ DpFlow)
    /\ WF_detectorPortVars(part = "power" /\ output = "port" /\ Measured)
    /\ WF_ptVars(part = "programming" /\ FrontendStep)
    /\ WF_ptVars(part = "programming" /\ TimerExpires)
    /\ WF_ptVars(part = "programming" /\ \E answer \in Answers : Transmit(answer))
    /\ WF_trainSearchVars(part = "trains" /\ Flow)
=============================================================================
