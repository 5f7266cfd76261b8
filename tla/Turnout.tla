------------------------------ MODULE Turnout -------------------------------
(***************************************************************************)
(* Routes over a turnout or a double slip (control-logic.cc, TurnoutBase   *)
(* and DKW with their movable and fixed variants), together with the       *)
(* magnets that move it.                                                   *)
(*                                                                         *)
(* The piece has three or four points where neighbours are bound.  A       *)
(* neighbour asks for a route into the piece and the piece passes the      *)
(* request on to the neighbour where the points lead, with the handshake   *)
(* of SimulateRoute.  Every neighbour has a detector of its own next to    *)
(* the piece, and none that is a train length away.                        *)
(*                                                                         *)
(* One action runs the whole body of the piece's automaton.  A field of    *)
(* `bits' that is a set holds the points or routes where that bit is 1.    *)
(***************************************************************************)
EXTENDS Magnets

CONSTANTS
    Kinds,          \* the pieces looked at, among AllKinds
    TurnoutMagnet,  \* the magnet of a movable piece
    Asking          \* the points where a neighbour asks for routes

AllKinds == {"MovableTurnout", "FixedClosed", "FixedThrown", "MovableDKW",
             "FixedCross", "FixedCurved"}

ASSUME TurnoutAssumption ==
    /\ Kinds \subseteq AllKinds
    /\ TurnoutMagnet \in AllMagnets

VARIABLES
    kind,       \* what the piece is
    strict,     \* whether the points are moved by the rules of TrainSchedule
    bits,       \* the bits of the piece and of its interfaces
    waiting,    \* the points whose neighbour awaits an answer
    detector    \* the points whose neighbour's detector reads occupied

turnoutVars == <<kind, strict, bits, waiting, detector, mag>>

(***************************************************************************)
(* The routes.  `closed' and `thrown' also stand for the two positions of  *)
(* a double slip, cross and curved.                                        *)
(***************************************************************************)
Route(from, to, when) == [from |-> from, to |-> to, when |-> when]

PC == Route("points", "closed", "closed")
PT == Route("points", "thrown", "thrown")
CP == Route("closed", "points", "any")
TP == Route("thrown", "points", "any")

(* The routes of a piece in the order in which its body handles them.      *)
Directions ==
    CASE kind = "MovableTurnout" -> <<PC, PT, CP, TP>>
      [] kind = "FixedClosed" -> <<CP, TP, PC>>
      [] kind = "FixedThrown" -> <<CP, TP, PT>>
      [] OTHER -> << Route("A1", "B1", "closed"), Route("A1", "B2", "thrown"),
                     Route("A2", "B2", "closed"), Route("A2", "B1", "thrown"),
                     Route("B1", "A1", "closed"), Route("B1", "A2", "thrown"),
                     Route("B2", "A2", "closed"), Route("B2", "A1", "thrown") >>

Routes == {Directions[k] : k \in DOMAIN Directions}
Points == {r.from : r \in Routes} \cup {r.to : r \in Routes}
Movable == kind \in {"MovableTurnout", "MovableDKW"}

(* TurnoutDirectionCheck.                                                  *)
Leads(thrown, r) == r.when \in {"any", IF thrown THEN "thrown" ELSE "closed"}

(***************************************************************************)
(* The parts of the body, in the order of their levels: 9, 20, 25, 30, 35, *)
(* 110, 120.  Signal aspects (level 23) are left out.                      *)
(***************************************************************************)
(* mutant: a fixed turnout that was sliced up stays so *)
StaysSliced(s) ==
    CASE kind = "FixedClosed" -> [s EXCEPT !.thrown = @ \/ TP \in s.set]
      [] kind = "FixedThrown" -> [s EXCEPT !.thrown = @ /\ CP \notin s.set]
      [] OTHER -> s

(* A fixed turnout pretends to be thrown while a route slices it up.       *)
FixTurnoutState(s) ==
    CASE kind = "FixedClosed" -> [s EXCEPT !.thrown = TP \in s.set]
      [] kind = "FixedThrown" -> [s EXCEPT !.thrown = CP \notin s.set]
      [] kind = "FixedCross"  -> [s EXCEPT !.thrown = FALSE]
      [] kind = "FixedCurved" -> [s EXCEPT !.thrown = TRUE]
      [] OTHER -> s

SimulateOccupancy(s, r) ==
    LET enters == r \in s.set /\ r.from \in detector /\ ~s.occ
        t      == IF enters THEN [s EXCEPT !.occ = TRUE, !.seen = FALSE] ELSE s
    IN  IF r \notin t.set \/ ~t.occ THEN t
        ELSE IF r.to \in detector THEN [t EXCEPT !.seen = TRUE]
        ELSE IF t.seen THEN [t EXCEPT !.occ = FALSE, !.set = @ \ {r}]
        ELSE t

(* The detector a neighbour sees through the piece.                        *)
ProxyDetector(s, r) ==
    IF Leads(s.thrown, r) /\ (kind \in {"MovableTurnout", "FixedClosed",
                                        "FixedThrown"} => r.from = "points")
    THEN [s EXCEPT !.proxy = Put(@, r.from, r.to \in detector)] ELSE s

(* A fixed turnout has a single route from its points, yet its detectors   *)
(* are proxied for both positions.                                         *)
ProxyDetectors(s) ==
    FoldLeft(ProxyDetector, s,
             IF kind \in {"FixedClosed", "FixedThrown"} THEN <<PC, PT>>
             ELSE Directions)

Answer(s, p, yes) == [s EXCEPT !.success = Put(@, p, yes),
                               !.failure = Put(@, p, ~yes)]

(* mutant: a route in use does not conflict *)
OnlyLock(s, r) == ~s.busy /\ r.to \notin s.try

(* All routes conflict with each other, through any_route_set_.            *)
CanPropagate(s, r) ==
    /\ ~s.busy
    /\ r.to \notin s.try
    /\ r \notin s.set
    /\ ~s.any

Propagate(s, r) ==
    [s EXCEPT !.busy = TRUE, !.pending = @ \cup {r},
              !.asked = @ \ {r.from}, !.try = @ \cup {r.to},
              !.granted = @ \ {r.to}, !.refused = @ \ {r.to}]

(* mutant: the points are not looked at *)
AnyPosition(s, r) ==
    IF r.from \notin s.asked THEN s
    ELSE IF CanPropagate(s, r) THEN Propagate(s, r)
    ELSE [Answer(s, r.from, FALSE) EXCEPT !.asked = @ \ {r.from}]

HandleRequest(s, r) ==
    IF r.from \notin s.asked \/ ~Leads(s.thrown, r) THEN s
    ELSE IF CanPropagate(s, r) THEN Propagate(s, r)
    ELSE [Answer(s, r.from, FALSE) EXCEPT !.asked = @ \ {r.from}]

(* mutant: a refusal is not cleared *)
RefusalKept(s, r) ==
    IF r \notin s.pending \/ r.to \notin s.granted \cup s.refused THEN s
    ELSE LET yes == r.to \notin s.refused
         IN  [Answer(s, r.from, yes) EXCEPT
                !.pending = @ \ {r}, !.busy = FALSE,
                !.granted = @ \ {r.to},
                !.set = IF yes THEN @ \cup {r} ELSE @,
                !.any = @ \/ yes]

HandleFeedback(s, r) ==
    IF r \notin s.pending \/ r.to \notin s.granted \cup s.refused THEN s
    ELSE LET yes == r.to \notin s.refused
         IN  [Answer(s, r.from, yes) EXCEPT
                !.pending = @ \ {r}, !.busy = FALSE,
                !.granted = @ \ {r.to}, !.refused = @ \ {r.to},
                !.set = IF yes THEN @ \cup {r} ELSE @,
                !.any = @ \/ yes]

SimulateRoute(s, r) == HandleFeedback(HandleRequest(s, r), r)

PopulateAnyRouteSet(s) == [s EXCEPT !.any = s.set # {}]

(* The state follows the magnet, except that routes over the frog of a     *)
(* turnout force it and any route over a double slip holds it.             *)
CopyState(s) ==
    CASE kind = "MovableTurnout" ->
            [s EXCEPT !.thrown = IF CP \in s.set THEN FALSE
                                 ELSE IF TP \in s.set THEN TRUE
                                 ELSE TurnoutMagnet \in mag.current]
      [] kind = "MovableDKW" /\ ~s.any ->
            [s EXCEPT !.thrown = TurnoutMagnet \in mag.current]
      [] OTHER -> s

CopyLocked(s) == IF Movable THEN [s EXCEPT !.locked = s.any] ELSE s

TurnoutBody(s) ==
    LET occupied == FoldLeft(SimulateOccupancy, FixTurnoutState(s), Directions)
        routed   == FoldLeft(SimulateRoute, ProxyDetectors(occupied), Directions)
    IN  CopyLocked(CopyState(PopulateAnyRouteSet(routed)))

-----------------------------------------------------------------------------
(* The automaton has run once in StInit, before or after the magnets'.     *)
TurnoutInit ==
    /\ MagnetsInit
    /\ kind \in Kinds
    /\ strict \in IF Movable THEN BOOLEAN ELSE {FALSE}
    /\ waiting = {}
    /\ detector \in SUBSET (Points \cap Asking)
    /\ bits = [asked |-> {}, try |-> {}, success |-> {}, failure |-> {},
               granted |-> {}, refused |-> {}, set |-> {}, pending |-> {},
               busy |-> FALSE, any |-> FALSE, occ |-> FALSE, seen |-> FALSE,
               proxy |-> {}, locked |-> FALSE,
               thrown |-> kind \in {"FixedThrown", "FixedCurved"}]

RunTurnout ==
    /\ bits' = TurnoutBody(bits)
    /\ UNCHANGED <<kind, strict, waiting, detector, mag>>

(* Trains move on the neighbours.                                          *)
Detect(p) ==
    /\ detector' = Put(detector, p, p \notin detector)
    /\ UNCHANGED <<kind, strict, bits, waiting, mag>>

(* No magnet of the board is about to move.                                *)
AtRest == mag.state = StBase /\ Settled

(* A neighbour asks for a route.  A schedule does so after it has seen the *)
(* points in the position it commanded (SwitchTurnout).                    *)
NeighbourAsks(p) ==
    /\ p \notin waiting
    /\ strict => AtRest /\ bits.thrown = (TurnoutMagnet \in mag.current)
    /\ waiting' = waiting \cup {p}
    /\ bits' = [bits EXCEPT !.asked = @ \cup {p},
                            !.success = @ \ {p}, !.failure = @ \ {p}]
    /\ UNCHANGED <<kind, strict, detector, mag>>

NeighbourLearns(p) ==
    /\ p \in waiting
    /\ p \in bits.success \cup bits.failure
    /\ waiting' = waiting \ {p}
    /\ bits' = [bits EXCEPT !.success = @ \ {p}, !.failure = @ \ {p}]
    /\ UNCHANGED <<kind, strict, detector, mag>>

NeighbourAnswers(p) ==
    /\ p \in bits.try
    /\ \E yes \in BOOLEAN :
          bits' = [bits EXCEPT !.try = @ \ {p},
                               !.granted = Put(@, p, yes),
                               !.refused = Put(@, p, ~yes)]
    /\ UNCHANGED <<kind, strict, waiting, detector, mag>>

(* A command for the points.  A schedule gives one only while no route is  *)
(* set over them, and with a route lock while no other train asks.         *)
Command(m) ==
    /\ Movable
    /\ strict => ~bits.locked /\ bits.set = {} /\ waiting = {}
    /\ CommandMagnet(m)
    /\ UNCHANGED <<kind, strict, bits, waiting, detector>>

MagnetStep ==
    /\ RunMagnets \/ MagnetTick
    /\ UNCHANGED <<kind, strict, bits, waiting, detector>>

TurnoutNext ==
    \/ RunTurnout
    \/ \E p \in Asking \cap Points : Detect(p) \/ NeighbourAsks(p)
    \/ \E p \in Points : NeighbourLearns(p) \/ NeighbourAnswers(p)
    \/ \E m \in AllMagnets : Command(m)
    \/ MagnetStep

TurnoutSpec == TurnoutInit /\ [][TurnoutNext]_turnoutVars

(* The automata thread keeps running rounds, and so does the one of the    *)
(* neighbours and of the magnets, whose clock keeps ticking.  The second   *)
(* conjunct is WF_turnoutVars(RunTurnout) with its ENABLED written out.    *)
TurnoutFairSpec ==
    /\ TurnoutSpec
    /\ []<>(TurnoutBody(bits) = bits) \/ []<><<RunTurnout>>_turnoutVars
    /\ WF_turnoutVars(\E p \in Points : NeighbourAnswers(p))
    /\ []<><<RunMagnets>>_mag /\ []<><<MagnetTick>>_mag

-----------------------------------------------------------------------------
TurnoutTypeOK ==
    /\ MagnetsTypeOK
    /\ kind \in Kinds /\ strict \in BOOLEAN
    /\ waiting \subseteq Points /\ detector \subseteq Points
    /\ \A f \in {"asked", "try", "success", "failure", "granted", "refused",
                 "proxy"} : bits[f] \subseteq Points
    /\ \A f \in {"set", "pending"} : bits[f] \subseteq Routes
    /\ \A f \in {"busy", "any", "occ", "seen", "locked", "thrown"} :
          bits[f] \in BOOLEAN

(* A piece carries one route at a time, and its conflict bit any_route_set *)
(* says so: the bit is written by SimulateRoute as one more part of the    *)
(* route, and again by PopulateAnyRouteSet after routes were released.     *)
OneRoute == Cardinality(bits.set) <= 1 /\ (bits.any <=> bits.set # {})

(* The bits are bits of the routes and points that this kind of piece has, *)
(* and one route at a time is set.                                         *)
TurnoutInv == TurnoutTypeOK /\ OneRoute

OneOf(S) == Cardinality({c \in DOMAIN S : S[c]}) = 1

(* A request is in one place at a time, whatever the points do under it:   *)
(* at the piece's door, with a pending route, or in one answer; a pending  *)
(* route is with the next piece or in that one's answer, and a neighbour   *)
(* that does not wait finds no old answer.                                 *)
AskedInOnePlace ==
    /\ \A p \in Points :
          LET places == << p \in bits.asked, p \in bits.success, p \in bits.failure,
                           \E r \in bits.pending : r.from = p >>
          IN  IF p \in waiting THEN OneOf(places) ELSE TRUE \notin Range(places)
    /\ \A p \in Points :
          LET places == << p \in bits.try, p \in bits.granted, p \in bits.refused >>
          IN  IF \E r \in bits.pending : r.to = p THEN OneOf(places)
              ELSE TRUE \notin Range(places)

(* A route from the points side, or over a double slip, leads where the    *)
(* points and their magnet stand, provided the points are only moved as    *)
(* TrainSchedule moves them.                                               *)
RouteMatchesPoints ==
    strict =>
        \A r \in bits.set :
            /\ Leads(bits.thrown, r)
            /\ Leads(TurnoutMagnet \in mag.current, r)

(* A request is not left at the piece's door while no route is set over it. *)
(* (A fixed turnout leaves one there while a route slices it up.)          *)
RequestDecided ==
    \A p \in Asking : []<>(p \notin bits.asked \/ bits.set # {})

(* Commands are carried out: once nobody changes commands, the magnets     *)
(* come to rest where these want them, and a coupled magnet agrees with    *)
(* its original, even if both were given a command in the same round or    *)
(* the command was turned around in the middle of a pull.                  *)
MagnetsFollow ==
    <>[][~\E m \in AllMagnets : Command(m)]_turnoutVars => <>[]AtRest
=============================================================================
