----------------------------- MODULE RouteRound -----------------------------
(***************************************************************************)
(* RouteSetting on one board: AutomataRunner::RunAllAutomata runs the      *)
(* automata of the board one after the other, in the order in which they   *)
(* were added to it, round after round.  Everything else happens between   *)
(* two automata, and a button may set and clear reset_routes.              *)
(***************************************************************************)
EXTENDS RouteSetting, Sequences

CONSTANT Order  \* the pieces, in the order their automata were added

ASSUME RouteRoundAssumption ==
    /\ Order \in [Pieces -> Pieces]
    /\ \A i \in Pieces : \E k \in Pieces : Order[k] = i

VARIABLE turn   \* position in Order of the automaton to run next

roundVars == <<vars, turn>>

RoundInit == Init /\ turn = 1

(* ResetForAutomata(aut).Run() and on to the next automaton.               *)
RunTurn == RunPiece(Order[turn]) /\ turn' = (turn % N) + 1

(* A button of the layout switches reset_routes.                           *)
ResetButton ==
    /\ reset' = ~reset
    /\ UNCHANGED <<bits, detector, waiting>>

Outside ==
    /\ \/ \E i \in Pieces : RequestGreen(i) \/ Detect(i)
       \/ \E d \in Directions : EndRequests(d) \/ EndLearns(d) \/ EndAnswers(d)
       \/ ResetButton
    /\ UNCHANGED turn

RoundNext == RunTurn \/ Outside

RoundSpec == RoundInit /\ [][RoundNext]_roundVars

(* The automata thread keeps running rounds (RunTurn is always enabled and *)
(* alone changes turn), and so does the one of the neighbours.             *)
FairRoundSpec ==
    /\ RoundSpec
    /\ []<><<turn' # turn>>_turn
    /\ \A d \in Directions : WF_roundVars(EndAnswers(d) /\ UNCHANGED turn)

(* As long as nobody presses reset_routes, a request for a route that a    *)
(* piece has passed on is answered, and a signal asked to go green takes   *)
(* note: its request_green goes back to 0 when the route is set or refused. *)
EveryRequestAnswered ==
    []~reset =>
        /\ \A p \in PiecePorts : p \in bits.pending ~> p \notin bits.pending
        /\ \A i \in GreenAt : i \in bits.green ~> i \notin bits.green

(* The reset button works: while it is held every route is released, even  *)
(* if an answer that is on its way sets it once more.                      *)
ResetReleases ==
    \A p \in PiecePorts :
        p \in bits.set /\ reset ~> p \notin bits.set \/ ~reset
=============================================================================
