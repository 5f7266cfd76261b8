--------------------------- MODULE MCRouteSetting ---------------------------
EXTENDS RouteSetting
(* A line with a long piece and, behind it, a signal that does not stop    *)
(* trains (at 4) and one for the other direction.                          *)
Line == <<"detector", "signal", "long", "signal", "rsignal", "detector">>
(* The theorems of RouteSettingProofs hold of this line.                   *)
ASSUME LineIsFit == Apart /\ Sighted
=============================================================================
