--------------------------- MODULE MCRouteRound ---------------------------
EXTENDS RouteRound
TwoSignals == <<"detector", "signal", "short", "rsignal", "detector">>
(* The order of a StandardBlock: body, detector, signals. *)
BlockOrder == <<3, 1, 5, 2, 4>>
=============================================================================
