---------------------------- MODULE RouteSetting ----------------------------
(***************************************************************************)
(* Route setting on a line of track (automata/control-logic.cc).  A line   *)
(* is a sequence of pieces bound side_b to side_a (BindSequence), each     *)
(* with an automaton that runs to completion over and over.  Neighbours    *)
(* talk through the bits of their CtrlTrackInterface:                      *)
(*                                                                         *)
(*     piece i --out_try_set_route-->  piece i+1                           *)
(*             <-in_route_set_success/failure--                            *)
(*                                                                         *)
(* A request walks along the line until it meets a signal where trains of  *)
(* that direction stop, or is refused; the answer walks back and every     *)
(* piece it passes sets its route.  A route is released by the (simulated  *)
(* or detected) occupancy of its piece going away.                         *)
(*                                                                         *)
(* One action runs the whole body of one piece's automaton.  The bits the  *)
(* automata write are the fields of the record `bits'; every field is the  *)
(* set of the places where that bit is 1.                                  *)
(***************************************************************************)
EXTENDS Integers, FiniteSets, FiniteSetsExt

CONSTANTS
    N,          \* number of pieces on the line
    Kind,       \* what each piece is: one of Kinds
    NoStop,     \* the signals with route_no_stop set by the layout
    GreenAt,    \* the signals that are asked to go green (request_green)
    Changing,   \* the detectors that change; the others keep their reading
    Asking      \* the directions in which a neighbour asks for routes

Pieces == 1..N

(* "signal" is a SignalPiece with its side_a at the low end of the line,   *)
(* "rsignal" one the other way round.                                      *)
Kinds == {"short", "long", "detector", "signal", "rsignal"}

(* Every simulated piece needs a detector to look back at:                 *)
(* SimulateOccupancy dereferences LookupNextDetector() of its past side,   *)
(* so a line starts and ends with a detector.                              *)
ASSUME RouteSettingAssumption ==
    /\ N \in Nat \ {0}
    /\ Kind \in [Pieces -> Kinds]
    /\ Kind[1] = "detector" /\ Kind[N] = "detector"
    /\ NoStop \subseteq {i \in Pieces : Kind[i] \in {"signal", "rsignal"}}
    /\ GreenAt \subseteq {i \in Pieces : Kind[i] \in {"signal", "rsignal"}}
    /\ Changing \subseteq {i \in Pieces : Kind[i] = "detector"}
    /\ Asking \subseteq {"ab", "ba"}

Directions == {"ab", "ba"}
Opposite(d) == IF d = "ab" THEN "ba" ELSE "ab"
Along(i, d) == IF d = "ab" THEN i + 1 ELSE i - 1
Back(i, d) == Along(i, Opposite(d))

(* Where a line's neighbours are: a route in direction d comes from Origin *)
(* and goes to Target.                                                     *)
Origin(d) == IF d = "ab" THEN 0 ELSE N + 1
Target(d) == Origin(Opposite(d))
First(d) == Along(Origin(d), d)
Last(d) == Back(Target(d), d)

(* A port <<i, d>> names the bits of piece i for routes of direction d:    *)
(* out_try_set_route of the side it leaves by, in_route_set_success and    *)
(* in_route_set_failure of the side it enters by, route_set and            *)
(* route_pending of the direction.                                         *)
Ports == (0..(N + 1)) \X Directions
PiecePorts == Pieces \X Directions

Signals == {i \in Pieces : Kind[i] \in {"signal", "rsignal"}}
Forward(i) == IF Kind[i] = "signal" THEN "ab" ELSE "ba"

VARIABLES
    bits,       \* the bits written by the automata of the pieces
    detector,   \* the detector pieces whose detector reads occupied
    reset,      \* the reset_routes variable, 0 unless there is a button
    waiting     \* directions in which a neighbour of the line awaits an answer

vars == <<bits, detector, reset, waiting>>

(***************************************************************************)
(* Detector lookup.  0 stands for a null pointer.                          *)
(***************************************************************************)
Beyond(j, d) == {k \in Pieces : IF d = "ab" THEN k >= j ELSE k <= j}

Nearest(S, d) ==
    IF S = {} THEN 0 ELSE IF d = "ab" THEN Min(S) ELSE Max(S)

NextDetector(j, d) ==
    Nearest({k \in Beyond(j, d) : Kind[k] = "detector"}, d)

(* The first long piece starts the far region; a signal hides what is      *)
(* beyond it from a train that it faces.                                   *)
FarDetector(j, d) ==
    LET stops == {k \in Beyond(j, d) :
                    Kind[k] = "long" \/ (k \in Signals /\ Forward(k) = d)}
        stop  == Nearest(stops, d)
    IN  IF stop # 0 /\ stop \notin Signals
        THEN NextDetector(Along(stop, d), d) ELSE 0

(***************************************************************************)
(* Occupancy, the part of a body at plugin level 20.  The operators map    *)
(* the bits before a part of the body to the bits after it.                *)
(***************************************************************************)
Switch(S, x, on) == IF on THEN S \cup {x} ELSE S \ {x}

(* ReleaseRouteCallback; out_route_released is written and never read.     *)
Release(s, i, d) == [s EXCEPT !.occ = @ \ {i}, !.set = @ \ {<<i, d>>}]

TrainEnters(s, i, d) ==
    LET far == FarDetector(Along(i, d), d)
    IN  IF /\ <<i, d>> \in s.set
           /\ NextDetector(Back(i, d), Opposite(d)) \in detector
           /\ i \notin s.occ
        THEN [s EXCEPT !.occ = @ \cup {i},
                       !.seen = @ \ {i},
                       !.shadow = IF far = 0 THEN @
                                  ELSE Switch(@, i, far \in detector)]
        ELSE s

ResetOccupancy(s, i) ==
    IF reset THEN [s EXCEPT !.seen = @ \ {i}, !.shadow = @ \ {i}] ELSE s

TrainSeenFar(s, i, d) ==
    LET far == FarDetector(Along(i, d), d)
    IN  IF far \in detector /\ <<i, d>> \in s.set /\ i \notin s.shadow
        THEN [Release(s, i, d) EXCEPT !.shadow = @ \cup {i}]
        ELSE s

TrainSeenNext(s, i, d) ==
    LET next == NextDetector(Along(i, d), d)
    IN  IF \/ next = 0 \/ next = FarDetector(Along(i, d), d)
           \/ <<i, d>> \notin s.set \/ i \notin s.occ
        THEN s
        ELSE IF next \in detector THEN [s EXCEPT !.seen = @ \cup {i}]
        ELSE IF i \in s.seen THEN Release(s, i, d) ELSE s

SimulateOccupancy(s, i, d) ==
    TrainSeenNext(TrainSeenFar(ResetOccupancy(TrainEnters(s, i, d), i), i, d),
                  i, d)

SimulateAllOccupancy(s, i) ==
    LET a == IF Kind[i] = "rsignal" THEN "ba" ELSE "ab"
    IN  SimulateOccupancy(SimulateOccupancy(s, i, a), i, Opposite(a))

(* The routes of both directions go when detector k, which stands for      *)
(* piece i, has gone from occupied to free.                                *)
FollowDetector(s, i, k) ==
    IF k \in detector THEN [s EXCEPT !.occ = @ \cup {i}]
    ELSE IF i \in s.occ
         THEN [s EXCEPT !.occ = @ \ {i}, !.set = @ \ ({i} \X Directions),
                        !.signal = @ \ {i}]
         ELSE s

DetectorOccupancy(s, i) == FollowDetector(s, i, i)

SignalOccupancy(s, i) ==
    LET d    == Forward(i)
        prev == NextDetector(Back(i, d), Opposite(d))
    IN  IF prev # FarDetector(Back(i, d), Opposite(d))
        THEN FollowDetector(s, i, prev)
        ELSE SimulateAllOccupancy(s, i)

(***************************************************************************)
(* The route handshake, the part of a body at plugin level 30.             *)
(***************************************************************************)
(* mutant: the reset button keeps the routes *)
RoutesKept(s, i, d) ==
    IF reset
    THEN [s EXCEPT !.try = @ \ {<<i, d>>}, !.busy = @ \ {i},
                   !.success = @ \ {<<i, d>>}, !.failure = @ \ {<<i, d>>}]
    ELSE s

ResetRoute(s, i, d) ==
    IF reset
    THEN [s EXCEPT !.try = @ \ {<<i, d>>}, !.busy = @ \ {i},
                   !.success = @ \ {<<i, d>>}, !.failure = @ \ {<<i, d>>},
                   !.set = @ \ {<<i, d>>}]
    ELSE s

(* The answer for the piece the request came from.                         *)
Answer(s, i, d, ok) ==
    [s EXCEPT !.success = Switch(@, <<i, d>>, ok),
              !.failure = Switch(@, <<i, d>>, ~ok)]

(* The request of the piece before is taken and answered at once.          *)
AnswerNow(s, i, d, ok) ==
    [Answer(s, i, d, ok) EXCEPT !.try = @ \ {<<Back(i, d), d>>}]

(* mutant: a route of the other direction does not conflict *)
IgnoresOpposite(s, i, d) ==
    /\ i \notin s.busy
    /\ <<i, d>> \notin s.try
    /\ <<i, d>> \notin s.set
    /\ Kind[i] = "detector" => i \notin detector

CanPropagate(s, i, d) ==
    /\ i \notin s.busy
    /\ <<i, d>> \notin s.try
    /\ <<i, d>> \notin s.set
    /\ <<i, Opposite(d)>> \notin s.set
    /\ Kind[i] = "detector" => i \notin detector

(* mutant: the in-progress lock is not taken *)
PropagateUnlocked(s, i, d) ==
    [s EXCEPT !.pending = @ \cup {<<i, d>>},
              !.try = (@ \ {<<Back(i, d), d>>}) \cup {<<i, d>>},
              !.success = @ \ {<<Along(i, d), d>>},
              !.failure = @ \ {<<Along(i, d), d>>}]

Propagate(s, i, d) ==
    [s EXCEPT !.busy = @ \cup {i},
              !.pending = @ \cup {<<i, d>>},
              !.try = (@ \ {<<Back(i, d), d>>}) \cup {<<i, d>>},
              !.success = @ \ {<<Along(i, d), d>>},
              !.failure = @ \ {<<Along(i, d), d>>}]

(* mutant: a request that cannot be passed on is taken and not answered *)
RequestDropped(s, i, d) ==
    IF <<Back(i, d), d>> \notin s.try THEN s
    ELSE IF CanPropagate(s, i, d) THEN Propagate(s, i, d)
    ELSE [s EXCEPT !.try = @ \ {<<Back(i, d), d>>}]

HandleRequest(s, i, d) ==
    IF <<Back(i, d), d>> \notin s.try THEN s
    ELSE IF CanPropagate(s, i, d) THEN Propagate(s, i, d)
    ELSE AnswerNow(s, i, d, FALSE)

(* mutant: the route is set whatever the answer *)
FailureIgnored(s, i, d) ==
    LET after == <<Along(i, d), d>>
        ok    == after \notin s.failure
    IN  IF <<i, d>> \in s.pending /\ after \in s.success \cup s.failure
        THEN [Answer([s EXCEPT !.success = @ \ {after},
                               !.failure = @ \ {after}], i, d, ok)
              EXCEPT !.pending = @ \ {<<i, d>>},
                     !.busy = @ \ {i},
                     !.set = @ \cup {<<i, d>>}]
        ELSE s

(* mutant: the answer is passed on and left standing *)
AnswerKept(s, i, d) ==
    LET after == <<Along(i, d), d>>
        ok    == after \notin s.failure
    IN  IF <<i, d>> \in s.pending /\ after \in s.success \cup s.failure
        THEN [Answer(s, i, d, ok)
              EXCEPT !.pending = @ \ {<<i, d>>},
                     !.busy = @ \ {i},
                     !.set = IF ok THEN @ \cup {<<i, d>>} ELSE @]
        ELSE s

(* The answer of the piece after is passed on, failure before success.     *)
HandleFeedback(s, i, d) ==
    LET after == <<Along(i, d), d>>
        ok    == after \notin s.failure
    IN  IF <<i, d>> \in s.pending /\ after \in s.success \cup s.failure
        THEN [Answer([s EXCEPT !.success = @ \ {after},
                               !.failure = @ \ {after}], i, d, ok)
              EXCEPT !.pending = @ \ {<<i, d>>},
                     !.busy = @ \ {i},
                     !.set = IF ok THEN @ \cup {<<i, d>>} ELSE @]
        ELSE s

SimulateRoute(s, i, d) ==
    HandleFeedback(HandleRequest(ResetRoute(s, i, d), i, d), i, d)

(* A signal that stops trains ends the routes of its forward direction.    *)
AcceptAtSignal(s, i, d) ==
    IF <<Back(i, d), d>> \notin s.try THEN s
    ELSE IF i \in s.busy THEN AnswerNow(s, i, d, FALSE)
    ELSE IF i \in NoStop THEN s
    ELSE AnswerNow(s, i, d, {i} \X Directions \cap s.set = {})

(* request_green starts a route beyond the signal and takes its answer.    *)
RequestRoute(s, i, d) ==
    IF /\ i \in s.green
       /\ <<i, d>> \notin s.try
       /\ <<Along(i, d), d>> \notin s.success \cup s.failure
       /\ i \notin s.busy
    THEN [s EXCEPT !.try = @ \cup {<<i, d>>}, !.busy = @ \cup {i}]
    ELSE s

(* mutant: a signal only notices success *)
FailureNotTaken(s, i, d) ==
    LET after == <<Along(i, d), d>>
    IN  IF i \notin s.green \/ after \notin s.success THEN s
        ELSE [s EXCEPT !.busy = @ \ {i}, !.green = @ \ {i},
                !.success = @ \ {after}, !.set = @ \cup {<<i, d>>}]

TakeAnswer(s, i, d) ==
    LET after == <<Along(i, d), d>>
    IN  IF i \notin s.green \/ after \notin s.success \cup s.failure THEN s
        ELSE [s EXCEPT !.busy = @ \ {i}, !.green = @ \ {i},
                !.success = @ \ {after},
                !.failure = IF after \in s.success THEN @ ELSE @ \ {after},
                !.set = IF after \in s.success THEN @ \cup {<<i, d>>} ELSE @]

(* The conditional SimulateRoute at the end: only a signal that does not   *)
(* stop trains passes requests on.                                         *)
SimulateSignalFwdRoute(s, i, d) ==
    LET t == TakeAnswer(RequestRoute(
                 AcceptAtSignal(ResetRoute(s, i, d), i, d), i, d), i, d)
        r == ResetRoute(t, i, d)
    IN  HandleFeedback(IF i \in NoStop THEN HandleRequest(r, i, d) ELSE r, i, d)

(* Every earlier write of the signal bit is overwritten by the last ones.  *)
SignalRoute(s, i) ==
    LET d == Forward(i)
        t == SimulateSignalFwdRoute(SimulateRoute(s, i, Opposite(d)), i, d)
    IN  [t EXCEPT !.signal =
            Switch(@, i, {i} \X Directions \cap t.set # {})]

TrackRoutes(s, i) == SimulateRoute(SimulateRoute(s, i, "ab"), i, "ba")

(* The plugins of a piece in the order of their levels.  Level 23, which   *)
(* hands signal aspects down the line, is left out: it reads route_set and *)
(* writes in_next_signal_1 and _2, which nothing modelled here reads.      *)
Body(s, i) ==
    IF i \in Signals THEN SignalRoute(SignalOccupancy(s, i), i)
    ELSE IF Kind[i] = "detector" THEN TrackRoutes(DetectorOccupancy(s, i), i)
    ELSE TrackRoutes(SimulateAllOccupancy(s, i), i)

(***************************************************************************)
(* The system.                                                             *)
(***************************************************************************)
(* Every automaton has run once in StInit.                                 *)
Init ==
    /\ bits = [try |-> {}, success |-> {}, failure |-> {}, set |-> {},
               pending |-> {}, busy |-> {}, occ |-> {}, seen |-> {},
               shadow |-> {}, signal |-> {}, green |-> {}]
    /\ detector \in SUBSET {i \in Pieces : Kind[i] = "detector"}
    /\ reset = FALSE
    /\ waiting = {}

(* The automaton of piece i runs once.                                     *)
RunPiece(i) ==
    /\ bits' = Body(bits, i)
    /\ UNCHANGED <<detector, reset, waiting>>

(* A train schedule or the operator asks for a signal to go green.         *)
RequestGreen(i) ==
    /\ i \in GreenAt \ bits.green
    /\ bits' = [bits EXCEPT !.green = @ \cup {i}]
    /\ UNCHANGED <<detector, reset, waiting>>

(* The piece the line is bound to asks for a route onto the line, as       *)
(* SimulateRoute does: one request at a time, old answers cleared.         *)
EndRequests(d) ==
    /\ d \in Asking \ waiting
    /\ waiting' = waiting \cup {d}
    /\ bits' = [bits EXCEPT !.try = @ \cup {<<Origin(d), d>>},
                            !.success = @ \ {<<First(d), d>>},
                            !.failure = @ \ {<<First(d), d>>}]
    /\ UNCHANGED <<detector, reset>>

EndLearns(d) ==
    /\ d \in waiting
    /\ <<First(d), d>> \in bits.success \cup bits.failure
    /\ waiting' = waiting \ {d}
    /\ bits' = [bits EXCEPT !.success = @ \ {<<First(d), d>>},
                            !.failure = @ \ {<<First(d), d>>}]
    /\ UNCHANGED <<detector, reset>>

(* The piece the line is bound to answers a request that leaves the line.  *)
EndAnswers(d) ==
    /\ <<Last(d), d>> \in bits.try
    /\ \E ok \in BOOLEAN : bits' = AnswerNow(bits, Target(d), d, ok)
    /\ UNCHANGED <<detector, reset, waiting>>

(* A detector changes.                                                     *)
Detect(i) ==
    /\ i \in Changing
    /\ detector' = Switch(detector, i, i \notin detector)
    /\ UNCHANGED <<bits, reset, waiting>>

Next ==
    \/ \E i \in Pieces : RunPiece(i) \/ RequestGreen(i) \/ Detect(i)
    \/ \E d \in Directions : EndRequests(d) \/ EndLearns(d) \/ EndAnswers(d)

Spec == Init /\ [][Next]_vars

(***************************************************************************)
(* Properties.                                                             *)
(***************************************************************************)
(* Every bit is a bit of the piece or neighbour that has it.               *)
TypeOK ==
    /\ bits \in [try : SUBSET Ports, success : SUBSET Ports,
                 failure : SUBSET Ports, set : SUBSET PiecePorts,
                 pending : SUBSET PiecePorts, busy : SUBSET Pieces,
                 occ : SUBSET Pieces, seen : SUBSET Pieces,
                 shadow : SUBSET Pieces, signal : SUBSET Signals,
                 green : SUBSET Signals]
    /\ detector \subseteq {i \in Pieces : Kind[i] = "detector"}
    /\ reset \in BOOLEAN
    /\ waiting \subseteq Directions

(* A track or detector piece never has routes of both directions set: two  *)
(* requests that meet from opposite sides cannot both be granted.  (A      *)
(* signal may: request_green does not look at the route of a train that    *)
(* has come the other way, so that this train can turn around.)            *)
NoOpposingRoutes ==
    \A i \in Pieces \ Signals : ~ ({i} \X Directions \subseteq bits.set)

(* tmp_route_setting_in_progress keeps requests apart: a piece passes on   *)
(* one request at a time and holds the lock while it does.                 *)
OneRequestPerPiece ==
    /\ TypeOK
    /\ \A p \in bits.pending : p[1] \in bits.busy
    /\ \A i \in Pieces : ~ ({i} \X Directions \subseteq bits.pending)

(* Piece i, or the neighbour of the line, awaits the answer to a request   *)
(* it has made in direction d.                                             *)
Awaits(i, d) ==
    \/ i = Origin(d) /\ d \in waiting
    \/ <<i, d>> \in bits.pending
    \/ /\ i \in Signals \cap bits.busy
       /\ d = Forward(i)
       /\ {i} \X Directions \cap bits.pending = {}

(* A request is in one place.  While a piece awaits an answer, either its  *)
(* request has not been taken, or the next piece has passed it on, or one  *)
(* answer is there; a piece that awaits nothing has left no request and is *)
(* given no answer.  So no request or answer is lost, duplicated or taken  *)
(* for another one, whatever the order in which the automata run.          *)
RequestInOnePlace ==
    \A d \in Directions, i \in 0..(N + 1) : i # Target(d) =>
        LET next   == <<Along(i, d), d>>
            places == {pl \in {"try", "pending", "success", "failure"} :
                         IF pl = "try" THEN <<i, d>> \in bits.try
                         ELSE next \in bits[pl]}
        IN  Cardinality(places) = IF Awaits(i, d) THEN 1 ELSE 0

(* A route never ends in the middle of the line: from every piece with its *)
(* route set the routes go on to a signal that stops trains or to the end  *)
(* of the line.  (Where no detector ahead changes, so that no train has    *)
(* released the route ahead; trains may come from behind.)                 *)
RouteGoesOn ==
    \A i \in Pieces, d \in Directions :
        <<i, d>> \in bits.set /\ Beyond(i, d) \cap Changing = {} =>
            LET next == Along(i, d)
            IN  \/ next = Target(d)
                \/ next \in Signals \ NoStop /\ Forward(next) = d
                \/ <<next, d>> \in bits.set

(***************************************************************************)
(* The lines that RouteSettingProofs is about.                             *)
(***************************************************************************)
(* A signal that lets requests through makes none of its own.              *)
Apart == GreenAt \cap NoStop = {}

(* The detector that stands for the occupancy of piece j, if one does      *)
(* (DetectorOccupancy, SignalOccupancy); the other pieces simulate theirs. *)
Watch(j) ==
    IF Kind[j] = "detector" THEN j
    ELSE NextDetector(Back(j, Forward(j)), Opposite(Forward(j)))

Watches(j) ==
    \/ Kind[j] = "detector"
    \/ /\ j \in Signals
       /\ Watch(j) # FarDetector(Back(j, Forward(j)), Opposite(Forward(j)))

(* A signal that lets trains through and follows a detector follows the    *)
(* piece right before it, and a signal that follows none is not asked to   *)
(* go green.                                                               *)
Sighted ==
    \A j \in Signals :
        IF Watches(j) THEN j \in NoStop => Watch(j) = Back(j, Forward(j))
        ELSE j \notin GreenAt

(* No detector that never changes reads occupied where a simulated piece   *)
(* looks for its train in the far region.                                  *)
FarFree ==
    \A j \in Pieces, d \in Directions :
        FarDetector(Along(j, d), d) \notin detector \ Changing
=============================================================================
