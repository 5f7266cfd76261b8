----------------------------- MODULE Schedules ------------------------------
(***************************************************************************)
(* The automatic trains of a board (control-logic.cc, TrainSchedule), with *)
(* the magnets they command, the flip-flop that gives them permissions and *)
(* the lock they share while they set a route.                             *)
(*                                                                         *)
(* A schedule is a list of transitions between blocks.  A train that may   *)
(* leave its block along one of them gets the permission and the lock,     *)
(* switches the points, asks the block's signal for green, waits for the   *)
(* answer, gives the lock back and drives.  permaloc is the block where    *)
(* the train is or where it is heading, routingloc the block from which    *)
(* the next route will be set; they differ when a transition is eager.     *)
(*                                                                         *)
(* Setting a route, a matter of many automata (RouteSetting, Turnout), is  *)
(* one step here.  The reset button would end a setting half way and leave *)
(* a route that nobody knows of; it is pressed and released only while no  *)
(* route is set, and none is set as long as it is pressed.                 *)
(***************************************************************************)
EXTENDS Magnets, FlipFlop

CONSTANTS
    Trains,         \* the trains, in the order their automata were added
    Transitions,    \* the schedule, in the order of its definition
    NoClient,       \* stands for a transition without permission
    NoMagnet,       \* stands for a transition without points
    Start,          \* the block each train starts in
    GreenTimeout,   \* ticks in StGreenWait
    ReverseTimeout, \* ticks before and after a train is reversed
    MaxRounds,      \* bound: rounds of the automata from one tick to the next
    Operable        \* trains and blocks the operator may hold, and the button

TheTrains == {Trains[k] : k \in DOMAIN Trains}
TheTransitions == {Transitions[k] : k \in DOMAIN Transitions}
Blocks == {x.src : x \in TheTransitions} \cup {x.dst : x \in TheTransitions}
ResetRoutes == "reset_routes"

(* A transition whose points are passed from their single end is facing:   *)
(* its route leads where they stand.  One into a stub is followed by       *)
(* StopAndReverseAtStub.                                                   *)
TransitionType ==
    [src : Blocks, dst : Blocks, client : TheClients \cup {NoClient},
     magnet : AllMagnets \cup {NoMagnet}, want : BOOLEAN,
     facing : BOOLEAN, lock : BOOLEAN, eager : BOOLEAN, stub : BOOLEAN]

ASSUME SchedulesAssumption ==
    /\ Trains \in Seq(TheTrains) /\ Transitions \in Seq(TheTransitions)
    /\ NoClient \notin TheClients /\ NoMagnet \notin AllMagnets
    /\ TheTransitions \subseteq TransitionType
    /\ Start \in [TheTrains -> Blocks] /\ IsInjective(Start)
    /\ ResetRoutes \notin TheTrains \cup Blocks
    /\ Operable \subseteq TheTrains \cup Blocks \cup {ResetRoutes}
    /\ GreenTimeout \in Nat /\ ReverseTimeout \in Nat
    /\ MaxRounds \in Nat \ {0}

VARIABLES
    train,      \* state, timer and bits of every train's automaton
    lock,       \* the route lock
    green,      \* the blocks with request_green
    routes,     \* the transitions whose route is set
    pos,        \* the block each train stands in
    turned,     \* the trains that have turned round an odd number of times
    held,       \* trains with do_not_move, blocks with auto_blocked, the button
    turn,       \* the automaton that runs next
    rounds      \* rounds started since the last tick

schedVars == <<train, ff, mag, lock, green, routes, pos, turned, held, turn, rounds>>

Detector(b) == \E t \in TheTrains : pos[t] = b
RouteOut(b) == \E x \in routes : x.src = b
RouteIn(b) == \E x \in routes : x.dst = b

(* MovableTurnout::CopyLocked: the points are locked by a route over them. *)
Locked(m) == \E x \in routes : x.magnet = m

(* A transition has a direction bit when it needs a permission or is not   *)
(* the only one from its block.                                            *)
HasDirection(x) ==
    x.client # NoClient \/ \E y \in TheTransitions : y # x /\ y.src = x.src

(***************************************************************************)
(* RunTransition.  `w' holds what a train's automaton reads and writes;    *)
(* w.det is the block whose detector current_block_detector_ is mapped to. *)
(***************************************************************************)
ImportBlock(w, x) ==
    LET here == x.src \in w.perma
        v    == IF here THEN [w EXCEPT !.det = x.src] ELSE w
        u    == IF here /\ ~RouteOut(x.src)
                THEN [v EXCEPT !.rloc = @ \cup {x.src}] ELSE v
    IN  IF ~x.eager THEN [v EXCEPT !.rloc = Put(@, x.src, here)]
        ELSE IF u.state = "StWaiting" /\ ~here /\ ~RouteIn(x.src)
             THEN [u EXCEPT !.rloc = @ \ {x.src}] ELSE u

(* mutant: the train is not waited for *)
PermalocRunsAhead(w, x) ==
    IF /\ x.eager /\ w.moving
       /\ x.src \in w.perma /\ RouteOut(x.src)
       /\ HasDirection(x) => x \in w.dir
       /\ x.src \notin w.rloc
    THEN [w EXCEPT !.perma = (@ \ {x.src}) \cup {x.dst}, !.dir = @ \ {x},
                   !.det = x.dst]
    ELSE w

(* The train of an eager transition that is on its way.                    *)
MovePermaloc(w, x) ==
    IF /\ x.eager /\ w.moving
       /\ x.src \in w.perma /\ Detector(x.src) /\ RouteOut(x.src)
       /\ HasDirection(x) => x \in w.dir
       /\ x.src \notin w.rloc
    THEN [w EXCEPT !.perma = (@ \ {x.src}) \cup {x.dst}, !.dir = @ \ {x},
                   !.det = x.dst]
    ELSE w

MayLeave(w, x) ==
    /\ x.eager \/ Detector(w.det)
    /\ ~Detector(x.dst)
    /\ ~RouteOut(x.src) /\ ~RouteIn(x.dst)
    /\ held \cap {x.dst, w.name} = {}

(* The permission is asked for, or no longer, and found granted or not.    *)
AskPermit(w, x) ==
    IF x.client = NoClient THEN w
    ELSE LET tests == w.state = "StWaiting" /\ x.src \in w.rloc
             left  == x.src \in w.rloc /\ RouteOut(x.src)
         IN  IF tests \/ left
             THEN [w EXCEPT !.ff = RequestPermit(@, x.client,
                                                 ~left /\ MayLeave(w, x))]
             ELSE w

(* mutant: the lock is set without looking at it *)
TakeLock(w, x) == TRUE

CanTakeLock(w, x) == x.lock => ~w.lock

SetOut(w, x) ==
    IF /\ w.state = "StWaiting" /\ x.src \in w.rloc
       /\ MayLeave(w, x)
       /\ x.client = NoClient \/ x.client \in w.ff.request \cap w.ff.granted
       /\ CanTakeLock(w, x)
    THEN [w EXCEPT !.state = "StReadyToGo",
                   !.lock = @ \/ x.lock,
                   !.dir = IF HasDirection(x) THEN @ \cup {x} ELSE @,
                   !.ff = IF x.client = NoClient THEN @
                          ELSE TakePermit(@, x.client)]
    ELSE w

(* A direction that is left over from an outgoing route that failed.       *)
ForgetDirection(w, x) ==
    IF w.state = "StWaiting" /\ x.src \in w.rloc
    THEN [w EXCEPT !.dir = @ \ {x}] ELSE w

Leave(w, x) ==
    IF /\ w.state = "StRequestTransition"
       /\ x.src \in IF x.eager THEN w.rloc ELSE w.perma
       /\ HasDirection(x) => x \in w.dir
    THEN [w EXCEPT !.lock = @ /\ ~x.lock, !.state = "StTransitionDone",
                   !.rloc = (@ \ {x.src}) \cup {x.dst},
                   !.perma = IF x.eager THEN @ ELSE (@ \ {x.src}) \cup {x.dst},
                   !.dir = IF x.eager THEN @ ELSE @ \ {x}]
    ELSE w

TryAgain(w, x) ==
    IF /\ w.state = "StGreenFailed"
       /\ x.src \in IF x.eager THEN w.rloc ELSE w.perma
       /\ HasDirection(x) => x \in w.dir
    THEN [w EXCEPT !.lock = @ /\ ~x.lock, !.state = "StWaiting"]
    ELSE w

(* The command that a train gives to a magnet.                             *)
Command(s, m, on) == [s EXCEPT !.command = Put(@, m, on)]

(* mutant: the points are not waited for *)
SwitchAndGo(w, x) ==
    IF /\ x.magnet # NoMagnet /\ w.state = "StTurnout"
       /\ x.src \in w.rloc /\ (HasDirection(x) => x \in w.dir)
    THEN [w EXCEPT !.mag = IF Locked(x.magnet) THEN @
                           ELSE Command(@, x.magnet, x.want)]
    ELSE w

SwitchTurnout(w, x) ==
    IF /\ x.magnet # NoMagnet /\ w.state = "StTurnout"
       /\ x.src \in w.rloc /\ (HasDirection(x) => x \in w.dir)
    THEN [w EXCEPT !.mag = IF Locked(x.magnet) THEN @
                           ELSE Command(@, x.magnet, x.want),
                   !.state = IF (x.magnet \in w.mag.current) = x.want THEN @
                             ELSE "StTurnoutFailed"]
    ELSE w

(* mutant: need_reverse is not cleared *)
ReverseAgain(w, x) ==
    CASE w.state = "StWaiting" /\ Detector(x.dst) /\ w.needReverse ->
            [w EXCEPT !.state = "StBeforeReverseWait", !.timer = ReverseTimeout]
      [] w.state = "StBeforeReverseWait" /\ w.timer = 0 ->
            [w EXCEPT !.reversed = ~@, !.lastReversed = ~w.reversed,
                      !.state = "StReverseDoneWait", !.timer = ReverseTimeout]
      [] w.state = "StReverseDoneWait" /\ w.timer = 0 ->
            [w EXCEPT !.state = "StWaiting"]
      [] OTHER -> w

(* StReverseSendCommand does not outlast the run.                          *)
ReverseTrain(w, x) ==
    CASE w.state = "StWaiting" /\ Detector(x.dst) /\ w.needReverse ->
            [w EXCEPT !.needReverse = FALSE, !.state = "StBeforeReverseWait",
                      !.timer = ReverseTimeout]
      [] w.state = "StBeforeReverseWait" /\ w.timer = 0 ->
            [w EXCEPT !.reversed = ~@, !.lastReversed = ~w.reversed,
                      !.state = "StReverseDoneWait", !.timer = ReverseTimeout]
      [] w.state = "StReverseDoneWait" /\ w.timer = 0 ->
            [w EXCEPT !.state = "StWaiting"]
      [] OTHER -> w

StopAndReverseAtStub(w, x) ==
    IF x.stub /\ x.dst \in w.perma
    THEN ReverseTrain([w EXCEPT !.det = x.dst, !.needReverse = @ \/ w.moving], x)
    ELSE w

AddBlockTransition(w, x) ==
    LET asks  == AskPermit(MovePermaloc(ImportBlock(w, x), x), x)
        ready == ForgetDirection(SetOut(asks, x), x)
        left  == SwitchTurnout(TryAgain(Leave(ready, x), x), x)
    IN  StopAndReverseAtStub(left, x)

(***************************************************************************)
(* HandleBaseStates and SendTrainCommands.                                 *)
(***************************************************************************)
(* The states from StRequestGreen to StTransitionDone; `b' is the block    *)
(* that the routing_block variables are mapped to.                         *)
AskForGreen(w, b) ==
    CASE w.state = "StRequestGreen" /\ b \notin w.green ->
            [w EXCEPT !.green = @ \cup {b}, !.state = "StGreenRequested"]
      [] w.state = "StGreenRequested" /\ b \notin w.green /\ ~RouteOut(b) ->
            [w EXCEPT !.state = "StGreenFailed"]
      [] w.state = "StGreenRequested" /\ RouteOut(b) /\ w.moving ->
            [w EXCEPT !.state = "StRequestTransition"]
      [] w.state = "StGreenRequested" /\ RouteOut(b) /\ ~w.moving ->
            [w EXCEPT !.state = "StGreenWait", !.timer = GreenTimeout]
      [] w.state = "StGreenWait" /\ w.timer = 0 ->
            [w EXCEPT !.state = "StRequestTransition"]
      [] w.state = "StTransitionDone" ->
            [w EXCEPT !.state = "StWaiting", !.go = ~w.moving]
      [] OTHER -> w

StopAtDetector(w) ==
    IF w.moving /\ Detector(w.det) THEN [w EXCEPT !.stop = TRUE] ELSE w

(* Points that do not move are given up while reset_routes is pressed, in  *)
(* StFrozen if the train is held: the rules follow one another.            *)
GiveUp(w) == IF w.name \in held THEN "StFrozen" ELSE "StWaiting"

(* The states in which points are switched, and StFrozen.                  *)
NextState(w) ==
    CASE w.state = "StTurnout" -> [w EXCEPT !.state = "StRequestGreen"]
      [] w.state = "StReadyToGo" -> [w EXCEPT !.state = "StTurnout"]
      [] w.state = "StTurnoutFailed" ->
            [w EXCEPT !.state = IF ResetRoutes \in held THEN GiveUp(w) ELSE "StTurnout"]
      [] w.state = "StWaiting" /\ w.name \in held -> [w EXCEPT !.state = "StFrozen"]
      [] w.state = "StFrozen" /\ w.name \notin held -> [w EXCEPT !.state = "StWaiting"]
      [] OTHER -> w

(* Starts the train, or stops it: also to tell a waiting train its new     *)
(* direction.                                                              *)
SendTrainCommands(w) ==
    LET last == IF w.go THEN w.reversed ELSE w.lastReversed
        stop == w.stop \/ (w.state = "StWaiting" /\ w.reversed # last)
    IN  [w EXCEPT !.moving = (@ \/ w.go) /\ ~stop, !.go = FALSE, !.stop = FALSE,
                  !.lastReversed = IF stop THEN w.reversed ELSE last]

RoutingBlock(w) == CHOOSE b \in Blocks : w.rloc # {} => b \in w.rloc

RunSchedule(w) ==
    LET v == FoldLeft(AddBlockTransition, w, Transitions)
        u == AskForGreen(v, RoutingBlock(v))
    IN  SendTrainCommands(NextState(StopAtDetector(u)))

-----------------------------------------------------------------------------
SchedulesInit ==
    /\ MagnetsInit /\ FlipFlopInit
    /\ train = [t \in TheTrains |->
                  [state |-> "StWaiting", timer |-> 0, perma |-> {Start[t]},
                   rloc |-> {}, dir |-> {}, moving |-> FALSE, drove |-> FALSE,
                   needReverse |-> FALSE, reversed |-> FALSE, lastReversed |-> FALSE]]
    /\ lock = FALSE /\ green = {} /\ routes = {}
    /\ pos = Start /\ turned = {}
    /\ held = {}
    /\ turn = 1 /\ rounds = 0

World(t) ==
    [name |-> t, state |-> train[t].state, timer |-> train[t].timer,
     perma |-> train[t].perma, rloc |-> train[t].rloc, dir |-> train[t].dir,
     moving |-> train[t].moving, needReverse |-> train[t].needReverse,
     reversed |-> train[t].reversed, lastReversed |-> train[t].lastReversed,
     go |-> FALSE, stop |-> FALSE,
     det |-> CHOOSE b \in train[t].perma : TRUE,
     ff |-> ff, mag |-> mag, lock |-> lock, green |-> green]

RunTrain(t) ==
    LET w == RunSchedule(World(t))
    IN  /\ train' = [train EXCEPT ![t] =
                        [state |-> w.state, timer |-> w.timer,
                         perma |-> w.perma, rloc |-> w.rloc, dir |-> w.dir,
                         moving |-> w.moving, drove |-> train[t].moving,
                         needReverse |-> w.needReverse, reversed |-> w.reversed,
                         lastReversed |-> w.lastReversed]]
        /\ ff' = w.ff /\ mag' = w.mag /\ lock' = w.lock /\ green' = w.green

(* mutant: a timer runs on below 0 *)
CountBelowZero(n) == n - 1

CountDown(n) == IF n > 0 THEN n - 1 ELSE 0

TickAll ==
    /\ ff' = [ff EXCEPT !.timer = CountDown(@)]
    /\ mag' = [mag EXCEPT !.timer = CountDown(@)]
    /\ train' = [t \in TheTrains |-> [train[t] EXCEPT !.timer = CountDown(@)]]

(* AutomataRunner::RunAllAutomata: a round starts with a tick of all the   *)
(* timers when one is due, and runs the automata in their order.           *)
StartRound ==
    /\ turn = 1
    /\ \/ TickAll /\ rounds' = 0
       \/ rounds + 1 < MaxRounds /\ rounds' = rounds + 1 /\ UNCHANGED <<ff, mag, train>>
    /\ UNCHANGED <<lock, green>>

RunTurn ==
    /\ \/ StartRound
       \/ turn = 2 /\ RunFlipFlop /\ UNCHANGED <<train, mag, lock, green, rounds>>
       \/ turn = 3 /\ RunMagnets /\ UNCHANGED <<train, ff, lock, green, rounds>>
       \/ \E k \in DOMAIN Trains :
             turn = k + 3 /\ RunTrain(Trains[k]) /\ UNCHANGED rounds
    /\ turn' = (turn % (Len(Trains) + 3)) + 1
    /\ UNCHANGED <<routes, pos, turned, held>>

-----------------------------------------------------------------------------
(* Where the signal of block b leads, given how the points stand.          *)
Leading(b) ==
    {x \in TheTransitions :
        x.src = b /\ (x.facing => (x.magnet \in mag.current) = x.want)}

RouteFree(x) ==
    /\ ~RouteOut(x.src) /\ ~RouteIn(x.dst) /\ ~Detector(x.dst)
    /\ x.magnet # NoMagnet => ~Locked(x.magnet)

(* The signal's request is answered: its route is set, or is refused since *)
(* another one is in the way or is being set, by a train or an operator.   *)
SignalAnswers(b) ==
    /\ b \in green
    /\ green' = green \ {b}
    /\ \/ /\ ResetRoutes \notin held
          /\ \E x \in Leading(b) : RouteFree(x) /\ routes' = routes \cup {x}
       \/ /\ green # {b} \/ held # {} \/ \A x \in Leading(b) : ~RouteFree(x)
          /\ UNCHANGED routes
    /\ UNCHANGED <<train, ff, mag, lock, pos, turned, held, turn, rounds>>

(* A train runs through the route before it and frees it behind it.  That  *)
(* takes it longer than its automaton takes to run once.                   *)
TrainArrives(t) ==
    /\ train[t].moving /\ train[t].drove
    /\ train' = [train EXCEPT ![t].drove = FALSE]
    /\ \E x \in routes :
          /\ x.src = pos[t]
          /\ pos' = [pos EXCEPT ![t] = x.dst]
          /\ turned' = IF x.stub THEN Put(turned, t, t \notin turned) ELSE turned
          /\ routes' = routes \ {x}
    /\ UNCHANGED <<ff, mag, lock, green, held, turn, rounds>>

(* The operator's switches.                                                *)
Hold(x) ==
    /\ x = ResetRoutes => routes = {}
    /\ held' = Put(held, x, x \notin held)
    /\ UNCHANGED <<train, ff, mag, lock, green, routes, pos, turned, turn, rounds>>

SchedulesNext ==
    \/ RunTurn
    \/ \E b \in Blocks : SignalAnswers(b)
    \/ \E t \in TheTrains : TrainArrives(t)
    \/ \E x \in Operable : Hold(x)

SchedulesSpec == SchedulesInit /\ [][SchedulesNext]_schedVars

(* The automata thread keeps running rounds (RunTurn is always enabled and *)
(* alone changes turn), the automata that set routes do as well, and a     *)
(* train that is told to drive and has a route drives.                     *)
SchedulesFairSpec ==
    /\ SchedulesSpec
    /\ []<><<turn' # turn>>_turn
    /\ WF_schedVars(\E b \in Blocks : SignalAnswers(b))
    /\ WF_schedVars(\E t \in TheTrains : TrainArrives(t))

-----------------------------------------------------------------------------
SettingStates ==
    {"StReadyToGo", "StTurnout", "StTurnoutFailed", "StRequestGreen",
     "StGreenRequested", "StGreenWait", "StGreenFailed", "StRequestTransition"}

SchedulesTypeOK ==
    /\ MagnetsTypeOK /\ FlipFlopTypeOK
    /\ train \in [TheTrains ->
          [state : SettingStates \cup {"StWaiting", "StFrozen",
                     "StBeforeReverseWait", "StReverseDoneWait"},
           timer : 0..(GreenTimeout + ReverseTimeout),
           perma : SUBSET Blocks, rloc : SUBSET Blocks,
           dir : SUBSET TheTransitions, moving : BOOLEAN, drove : BOOLEAN,
           needReverse : BOOLEAN, reversed : BOOLEAN, lastReversed : BOOLEAN]]
    /\ lock \in BOOLEAN /\ green \subseteq Blocks
    /\ routes \subseteq TheTransitions
    /\ pos \in [TheTrains -> Blocks] /\ turned \subseteq TheTrains
    /\ held \subseteq Operable
    /\ turn \in 1..(Len(Trains) + 3) /\ rounds \in 0..(MaxRounds - 1)

(***************************************************************************)
(* What the schedules of a layout have in common; the proofs need it.      *)
(***************************************************************************)
(* The lock: an eager transition is the only one from its block and takes  *)
(* no lock, and all the transitions from a block take it or none does.     *)
WellLocked ==
    \A x, y \in TheTransitions :
        /\ x.eager => ~x.lock
        /\ x.eager /\ x.src = y.src => y = x
        /\ x.src = y.src => x.lock = y.lock

(* The points: a transition over points takes the lock, and where a block  *)
(* has more than one they part at points that both meet at the single end. *)
WellLaid ==
    \A x, y \in TheTransitions :
        /\ x.magnet # NoMagnet => x.lock /\ x.magnet \in Reals
        /\ x # y /\ x.src = y.src =>
              /\ x.facing /\ x.magnet # NoMagnet
              /\ x.magnet = y.magnet /\ x.want # y.want

(* A block that trains leave by a transition that is not eager.            *)
Own(b) == \E x \in TheTransitions : x.src = b /\ ~x.eager

(* The stubs: each is entered by one transition, which is defined, with    *)
(* StopAndReverseAtStub, before those that leave it, which are not eager.  *)
WellOrdered ==
    /\ IsInjective(Transitions)
    /\ \A x \in TheTransitions :
          x.stub => Own(x.dst) /\ \A y \in TheTransitions : y.dst = x.dst => y = x
    /\ \A i, j \in DOMAIN Transitions :
          Transitions[i].stub /\ Transitions[j].src = Transitions[i].dst => i < j

-----------------------------------------------------------------------------
(* The transition a train is setting up.                                   *)
Setting(t) ==
    {x \in TheTransitions :
        /\ train[t].state \in SettingStates
        /\ x.src \in train[t].rloc
        /\ HasDirection(x) => x \in train[t].dir}

(* The route lock is held by exactly one train while it is taken, which    *)
(* is setting up a transition that needs it, from the moment the train     *)
(* sets out until its route is set or refused.  Only the reset button      *)
(* leaves a lock that nobody holds.                                        *)
LockHasHolder ==
    LET holders == {t \in TheTrains : \E x \in Setting(t) : x.lock}
    IN  /\ Cardinality(holders) <= IF lock THEN 1 ELSE 0
        /\ lock /\ holders = {} => ResetRoutes \in Operable

(* What the automata share is used by one at a time: the permission of the *)
(* flip-flop, the route lock and the current for the coils of the magnets. *)
ExclusiveUse == SchedulesTypeOK /\ OnePermit /\ LockHasHolder /\ OneCoil

(* Where a route is set the points stand as the schedule wanted them, and  *)
(* nobody has told them to move: the magnets do not respect the lock of    *)
(* the points, so this rests on SwitchTurnout and the route lock.          *)
PointsLieRight ==
    \A x \in routes :
        x.magnet # NoMagnet =>
            /\ (x.magnet \in mag.current) = x.want
            /\ (x.magnet \in mag.command) = x.want

(* A train is where its schedule takes it to be, or is about to run there  *)
(* through a route that is set: the points did not lead it elsewhere.      *)
TrainWhereItThinks ==
    \A t \in TheTrains :
        \/ train[t].perma = {pos[t]}
        \/ \E x \in routes : x.src = pos[t] /\ train[t].perma = {x.dst}

(* A train that drives was last told the direction in which its route      *)
(* leads: it is reversed once for every visit to a stub, before it is sent *)
(* out again.                                                              *)
DrivesRightWay ==
    \A t \in TheTrains :
        train[t].moving /\ RouteOut(pos[t]) =>
            train[t].lastReversed = (t \in turned)

(* The train does what its schedule, which cannot see it, takes it to do.  *)
TrainAsScheduled == TrainWhereItThinks /\ DrivesRightWay

(* The boot is over and the trains may set out: the magnets rest, no route *)
(* is set or asked for, and every train stands where its schedule takes it *)
(* to be, knows its direction and is not about to reverse.                 *)
ReadyToStart ==
    /\ Settled /\ mag.set0 \cup mag.set1 = {} /\ mag.remote = mag.command \cap Couples
    /\ routes = {} /\ green = {} /\ IsInjective(pos)
    /\ \A t \in TheTrains :
          /\ train[t].state \in {"StWaiting", "StFrozen"}
          /\ train[t].perma = {pos[t]} /\ ~train[t].moving /\ ~train[t].needReverse
          /\ train[t].reversed = (t \in turned)
          /\ train[t].lastReversed = (t \in turned)

(* A schedule starts its train when it has set the route ("StTransitionDone *)
(* -> StWaiting (here), which starts the train"), does not stop a train    *)
(* whose next route is set ("This will make sure not to stop the train     *)
(* here"), and trains do not block each other: unless the operator goes on *)
(* interfering, every one moves on again and again.                        *)
TrafficFlows ==
    \A t \in TheTrains : <>[](held = {}) => []<><<pos'[t] # pos[t]>>_pos
=============================================================================
