---------------------------- MODULE MCTrackPower ----------------------------
(***************************************************************************)
(* Small instances of TrackPower for TLC: one train beside the two         *)
(* exclusive sources.                                                      *)
(***************************************************************************)
EXTENDS TrackPower

CONSTANTS train

=============================================================================
