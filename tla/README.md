# openmrn_cue in TLA+

A verification project for openmrn_cue, a model railroad control system built
on OpenMRN: a DCC/Marklin command station, detector boards, and a layout control
logic made of small automata. The modules are translated from the C++ code under
`src/`; `PROJECT.json` maps every definition to the lines it stands for.

## 1. The system and its parts

| part | source | state | operations |
|---|---|---|---|
| Packet scheduler | `cs/commandstation/UpdateProcessor.{hxx,cxx}` | registered packet sources with priority and time of the last packet, position of the background refresh, the exclusive source, queue of urgent updates | `add_refresh_source`, `remove_refresh_source`, `notify_update`, `entry` (fill one packet) |
| Track power, emergency stop | `cs/commandstation/TrackPowerBit.hxx` | `isEOff_`, `isEStop_`, registration and countdown of the ESTOP source, disable reasons of the outputs | four events, `get_next_packet` of the ESTOP source, `estop_expired` |
| Layout logic: line of track | `automata/control-logic.{cc,hxx}` | about a dozen bits per piece: request and answers per side, routes set and pending per direction, a lock, simulated occupancy, signal, `request_green` | the body of each piece's automaton: simulate occupancy, release, pass on requests and answers |
| Layout logic: turnouts, double slips, magnets | same files | routes over the piece, position and lock bits, proxied detectors; commands, states and coils of the magnets | the body of the piece's automaton, the magnet automaton |
| Train schedules, flip-flop | same files | state, timer, location and direction bits per train; permissions and their owner; the route lock | `TrainSchedule` (transitions, points, green, reverse, stop and go), `FlipFlopAutomata` |
| Automata runner | `cs/src/automata_runner.cpp` | the list of automata, their state and timers, imported bits | `RunAllAutomata`, `Run` (byte code interpreter) |
| Short detection | `cs/custom/TivaShortDetection.hxx` | overcurrent and retry counts of the track output; short, undervoltage and overcurrent counts of the accessory bus; the enable pin | sample, disable, retry, report; the accessory power bit |
| Detector port | `cs/custom/DetectorPort.hxx` | flags of one output, tries, two stored bits, the event being sent | turn on and retry, debounce and send occupancy, report shorts, handle events |
| Programming track | `cs/commandstation/ProgrammingTrackFrontend.hxx` | service mode flag and timer, one request, bit index and acknowledgements, RailCom answer seen, retries | read and write of CVs in service mode and on the main |
| Train nodes, database, search protocol | `cs/commandstation/AllTrainNodes.*`, `TrainDb.*`, `FindProtocolServer.hxx` | entries of the database, nodes with the id of their entry; the search under way and notifications of new ones | load, edit and apply, allocate; list, match, merge, cancel |
| Host protocol, signal bus, logic VM, mobile station, RPC server, drivers, targets | `cs/custom`, `cs/logic`, `cs/mobilestation`, `cs/server`, `cs/targets` | see `PROJECT.json` | see `PROJECT.json` |

How they interact. Trains and special sources register with the scheduler,
which the track interface drives by handing it empty packets. Power and
emergency stop events come from the bus; their handler registers the ESTOP
source with the scheduler, and the scheduler calls it back for packets until the
countdown expires and the outputs are disabled. Short detection disables the
outputs for a reason of its own and sends the same events. The programming track
is another exclusive source above the ESTOP source, and sends POM packets like a
train. A search may create a train node, which then registers as a source. All
of these run on one executor, one handler at a time. The layout logic runs
elsewhere: a thread on each board interprets the automata of the board one after
the other, for ever, and neighbouring pieces (on the same board or on another
one) share bits. Schedules ask the flip-flop for permissions, command the
magnets, ask signals for routes and send speed commands to trains.

What is hard. In the command station: indices into a vector that changes,
packets queued for sources that are gone, a countdown that runs in another
component's callback, starvation between three ways of using a packet slot,
measurements handled after the world has changed, acknowledgements that are lost
or late, a list that is edited while a search walks over it. In the layout
logic: a handshake over several automata that nobody schedules as a whole,
requests from both ends, a partial refusal, a reset button that may be pressed
at any time, points that move while a route over them is asked for, and
schedules that wait for each other's lock, permission, block and route. The list
with line numbers is `hazards` in `PROJECT.json`.

## 2. Modules

| module | about |
|---|---|
| `UpdateProcessor` | the scheduler, one action per method and per path through `entry()` |
| `PacketScheduler` | what the scheduler promises: a set of pending changes, who may get the next packet |
| `TrackPower` | EXTENDS `UpdateProcessor`: power and stop events, ESTOP source, outputs |
| `RouteSetting` | a line of pieces, their automata running in any order, the line's neighbours, detectors |
| `RouteRound` | EXTENDS `RouteSetting`: the pieces on one board, run in the order of `RunAllAutomata`, and a reset button |
| `Magnets` | the automaton that pulls the magnets of a board, coupled magnets included |
| `Turnout` | EXTENDS `Magnets`: a turnout or double slip, movable or fixed, between neighbours that ask and answer |
| `FlipFlop` | the automaton that gives one permission at a time to its clients, with stealing |
| `Schedules` | EXTENDS `Magnets`, `FlipFlop`: automatic trains on a board, run in rounds with ticks |
| `ShortDetection` | the measuring flow of the track output, with the power bit as the output sees it |
| `AccessoryPower` | the measuring flow of the accessory bus and its power bit |
| `DetectorPort` | the flow and the handlers of one port of a detector board |
| `PowerProtection` | EXTENDS the three above: they share no state and are looked at one beside idle others |
| `ProgrammingTrack` | the programming track frontend, its backend, the decoder and the RailCom answers |
| `TrainNodes` | the train database and the nodes kept in step with it |
| `TrainSearch` | EXTENDS `TrainNodes`: the search server, throttles, edits of the train file |
| `Station` | EXTENDS `PowerProtection`, `ProgrammingTrack`, `TrainSearch`: services that share no state, one at a time beside idle others |
| `FoldProofs` | lemmas about what a fold over a sequence keeps, for any step: instantiated by the proofs about loops |
| `TrackPowerProofs` (with the scheduler's), `RouteSettingProofs`, `TurnoutProofs`, `SchedulesProofs`, `PowerProtectionProofs`, `ProgrammingTrackProofs`, `TrainSearchProofs` | theorems and proofs, see section 5 |
| `MC...` | instances for TLC |

Operators called mutants stand before the definition they distort; they are used
by no specification and show that a property would notice that mistake.

### UpdateProcessor and TrackPower

The variables are the fields of the class (`refreshSources_`,
`packetSourceStates_` split into `priority` and `age`, and so on) and `track`,
the filled packets the track interface has not returned. Positions count from 0
as in the code. Time is kept as ages capped at `MinDelay + 1`: every comparison
of the code is between an age and the minimum delay. A source is added by its
constructor and removed by its destructor, which the guards say. `track` and the
clock are outside the class (`TrackDone`, `Tick`, marked external).
`NO_EXCLUSIVE` keeps its value 2047 and bounds the vector.

`TrackPower` adds the two bits, the fields of `EstopPacketSource` and the
disable reasons of the outputs. The action `EntryEstop` is `entry()` of the
scheduler with the call of `get_next_packet` inside it, and the call of
`estop_expired` inside that. `numToNotify_` is not initialized by the code, so
`PowerInit` allows every value of the field. `burst` is a history variable that
no guard reads.

### RouteSetting

The record `bits` has one field per bit of `StraightTrack` and
`CtrlTrackInterface`, the set of places where the bit is 1; a place is a piece
or a port `<<piece, direction>>`. The operators follow the code: `TrainEnters`,
`ResetOccupancy`, `TrainSeenFar` and `TrainSeenNext` are the blocks of
`SimulateOccupancy`; `ResetRoute`, `HandleRequest` and `HandleFeedback` those of
`SimulateRoute`; `AcceptAtSignal`, `RequestRoute` and `TakeAnswer` those of
`SimulateSignalFwdRoute`. Each maps the bits before a block to the bits after
it, and `Body` composes them in the order of the plugin levels. `NextDetector`
and `FarDetector` are the lookups of the piece classes. `RunPiece(i)` runs the
whole body of one piece.

Abstractions, and why they keep the questions intact:

* A body is one step. Bits written by automata of the same board cannot change
  in the middle of a body; detector events and bits of other boards can (noted
  as a hazard).
* `route_no_stop` is the constant `NoStop`, as in `StandardMiddleSignal`;
  layouts that toggle it are left out.
* Signal aspects (plugin level 23) are left out; they read `route_set` and
  nothing modelled reads them. `out_route_released` is written and never read.
  `external_occupancy_` is never set in the repository, so `CopyOccupancy` is
  dead code.
* The pieces beyond the ends of the line are its neighbours: they ask for
  routes (`EndRequests`, `EndLearns`) and answer requests (`EndAnswers`) under
  the protocol of `SimulateRoute`, at any time and with any answer. A line
  starts and ends with a detector, because `SimulateOccupancy` dereferences the
  detector behind a piece, and nothing beyond the ends is visible as far
  detector, as when the neighbour is a signal facing away.
* `Init` is the state after every automaton has run once in `StInit`.

### Turnout and Magnets

A field of `mag` is the set of magnets whose bit is 1; `mag.state` is the magnet
being pulled, so it is the lock of the coils. `MagnetBody` folds the code's rules
over the magnets in the order they were added, as the generated automaton does.
`Turnout` has one piece of one of six kinds; `Directions` lists its routes in the
order of `directions_`, and the blocks of the body have the names of those of
`RouteSetting`, which they share in the code (`SimulateRoute` with a list of
conflicting routes and a position of the points). `strict` chooses between points
that an operator moves at any time and points moved by the rules of the
schedules: `RouteMatchesPoints` holds only for the latter, because the magnet
automaton ignores the `locked` bit.

### Schedules and FlipFlop

A schedule is the sequence `Transitions`; a record `w` holds what the automaton of
one train reads and writes, and the operators map it through the rules in the
order of the generated code: `AddBlockTransition` for every transition, then
`AskForGreen`, `StopAtDetector`, `NextState` and `SendTrainCommands` for
`HandleBaseStates` and the train commands. `RunTurn` runs tick, flip-flop,
magnets and trains in turn, as `RunAllAutomata` does. `SignalAnswers` stands for
the automata of `RouteSetting` and `Turnout` between a signal and the next one:
it sets the route where the points lead, or refuses when one is in the way, or
when somebody else is setting one. `TrainArrives` is the train. `pos` and
`turned` say where the trains really are, which no automaton reads except through
detectors. `Hold` is the operator: a train's `do_not_move`, a block's
`auto_blocked`, and the button `reset_routes`, in which the schedules give up
points that do not move (`GiveUp`). The button also clears the routes of the
pieces, which is the matter of `RouteRound`; here it is pressed and released only
while no route is set.

### ShortDetection, AccessoryPower, DetectorPort

Each state of a flow that waits is a value of `flow`, `accFlow` or `port.state`,
and a run of the flow up to its next wait is one step. What the flow measures is
taken when the conversion is started and handled in a later step. In
`DetectorPort` the flow is written as functions of the port's record
(`TryTurnon`, `EvalTurnon`, ...), because the states call each other; `Restart`
keeps the two stored bits and nothing else. The counters have the widths of their
fields (`CounterModulus`, `TryModulus`).

### ProgrammingTrack

One action per state of the flow, with the acknowledgement of the backend as a
parameter. Values of a CV are sets of bits. The decoder and the backend are
external: the decoder may not hear a packet, the page preset of a paged access
included, its acknowledgement may get lost or show up during the next exchange,
any exchange may end with a short. The service mode timer puts the request to
leave into the queue that clients use.

### TrainNodes and TrainSearch

A slot of the file has an address and a protocol, which may be "Unused"; both are
written by clients one at a time, 0 included. The first load skips an unused
slot, a later one does not look at the protocol (`TrainDb.cxx:222`, `:229`), and
`CreateImpl` makes no node for it. Entries of the file are read from the file
whenever they are looked at, so an edit is seen at once and the nodes follow when
it is applied; `DeleteOld` and
`CreateAll` are the two loops of `update_config`, `DeleteTurn` and `CreateNew` one
turn of them; `LoadFirst` and `LoadSlot` are the turns of the two loops of
`load_from_file`. The constructor makes a node for every fixed train and then
runs `update_config` like any later change. In `TrainSearch` every message
the flow waits to be sent is a step, and requests of the throttles arrive between
the steps. `owed` is a history variable.

## 3. Runs

| run | instance | properties | result |
|---|---|---|---|
| `scheduler` | 3 sources, one ordinary and two exclusive priorities, queue of 2, 1 packet | `TypeOK`, `SourcesConsistent`, `ExclusiveIsHighest`, `OnlyRegisteredCalled`, `ExclusiveOwnsTrack`, `PacketsSpaced`, `ImplementsScheduler`, `NobodyStarves` | hold, 727,000 states |
| `scheduler_starvation` | 2 trains, minimum delay 3 ticks | `UpdatesTakenFirst` | violated (finding 1) |
| `track_power` | a train, the ESTOP source, the programming track; count of 4, field up to 5, 2 packets | `TpInv`, `NoTrainPacketWhileStopped`, `OffOnlyAfterBurst`, `PowerGoesOff` | hold, 817,000 states |
| `track_power_late_off` | the same, count of 2 | `OffOnlyWhenCommanded` | violated (finding 2) |
| `route_meeting` | detector, signal, long track, signal that lets requests through, opposite signal, detector; two signals and both neighbours ask; one detector changes | `NoOpposingRoutes`, `OneRequestPerPiece`, `RequestInOnePlace`, `RouteGoesOn` | hold, 840,000 states |
| `route_live` | detector, signal, short track, opposite signal, detector, in rounds of one board, with a reset button | `EveryRequestAnswered`, `ResetReleases` | hold, 100,000 states |
| `route_reset` | the same line | `NoOpposingRoutes` | violated (finding 3) |
| `turnout` | a movable turnout, a fixed one, a double slip; a magnet with coils and an inverted coupled one; requests from three sides | `TurnoutInv`, `AskedInOnePlace`, `RouteMatchesPoints`, `RequestDecided`, `MagnetsFollow` | hold, 366,000 states |
| `schedules` | two trains on a loop with an entry, two sidings behind points, one of them a stub, an exit and an eager transition back; the operator may hold a train and press the reset button | `ExclusiveUse`, `PointsLieRight`, `TrainAsScheduled` | hold, 920,000 states |
| `traffic_jam` | the same, the operator has the reset button only | `TrafficFlows` | violated (finding 4) |
| `station` | power: each of the three outputs, 5 readings and 3 retries as in the code, accessory limit 1 with counters of range 5, port with 2 tries. Programming: one request of every kind, a hard reset, a wrong address; CVs of 2 bits, 3 tries, packets sent twice, track buffer of 4. Trains: two throttles, one fixed train, a file of two slots, the second empty; a find and an allocation that follows it up; slots given another address, cleared, filled address first | `ProtectionTypeOK`, `ReportsAgree`, `OutputOffWhenTold`, `ShortLatched`, `OverloadSwitchedOff`, `PortRecovers`; `PtInv`, `ResultCorrect`, `EveryRequestReturns`; `EverybodyAnswered`, `NodesInStep`, `SearchEnds` | hold, 480,000 states |
| `port_turns_on` | the outputs alone, with the same numbers | `TurnsOn` | violated (finding 5) |

Several properties are conjunctions of named parts that ask one question, each
part stated and explained on its own in the module: `NobodyStarves` (of
`EveryoneRefreshed`, `OneTrainsUpdatesSent`), `TpInv` (`TpTypeOK`,
`EstopRegistered`), `OneRequestPerPiece` (with the `TypeOK` of `RouteSetting`),
`TurnoutInv` (`TurnoutTypeOK`, `OneRoute`), `ExclusiveUse` (`SchedulesTypeOK`,
`OnePermit`, `LockHasHolder`, `OneCoil`), `TrainAsScheduled`
(`TrainWhereItThinks`, `DrivesRightWay`), `ProtectionTypeOK` (the ranges of the
counters), `ReportsAgree` (`ShortReported`, `ShownOnlyWhenOff`, `OccupancyTold`),
`OverloadSwitchedOff` (`ShortSwitchedOff`, `AccSwitchedOff`), `PortRecovers`
(`ShortTold`, `PortComesBack`), `PtInv` (`ServiceModeWillEnd`,
`ListensWhileWaiting`), `ResultCorrect` (`ReadCorrect`, `WriteCorrect`),
`NodesInStep` (`SearchTypeOK`, `NodesFollowDb`, `IdsFollowDb`). The parts have mutants of
their own.

Why the bounds are enough. Scheduler: with three sources the exclusive one can
be before, between and behind the one removed, and two exclusive sources can
compete with a third; a queue of two holds updates of two trains; the age cap
loses nothing. Power: a count of 4 alternates both packet kinds twice, and the
field can start above the count as the uninitialized one can. Lines: five or six
pieces have every neighbourhood the code distinguishes, both ends outside, and a
request that is pending in three pieces at once; the detector that changes is at
one end, so that trains come along in one direction only (requests come from
both), and the theorem of section 5 has them everywhere. Turnouts: the two kinds of
position (commanded, pretended) and both sizes of piece; the coupled magnet is
inverted, the harder case. Schedules: two trains compete for both sidings, the
points, the lock and the permissions; with one more the blocks are full.
A block that the operator closes is one more condition for a permission to be asked
for; `Operable` leaves it to the theorems.
`MaxRounds` lets timers expire early and late relative to the runs. Protection:
the numbers of the code, except for counters whose range only matters beyond
their limit. Programming: two bits have a first and a last one, and the loop over
them a turn that goes on and one that ends; one waiting request is enough to cross
with the timer's. Search: while one request is served another one waits, a
follow-up of it or one of somebody else. `MaxEntries` bounds what is asked for,
not what happens: edits and creations are asked for while there are fewer entries,
and those under way go on. With it the slot in use is edited and cleared, the
empty one is filled in both orders of its fields, each before, during and after a
search, and trains are created next to them.

Fairness. `FairSpec` of `UpdateProcessor` and `TpFairSpec`: the executor keeps
running `entry()` for every empty packet, the track interface returns packets,
the clock runs. `FairRoundSpec`, `TurnoutFairSpec` and `SchedulesFairSpec`: the
thread of the board keeps running automata (`turn` changes again and again, the
magnets run and tick), and the neighbours answer requests, which they do because
they are such pieces themselves; a train with a route that is told to drive
drives. `StationSpec` (and `ProtectionSpec`, `PtFairSpec`, `SearchSpec` of its
parts): the executor runs the flow when it may go on, timers expire, the backend
returns, packets are transmitted, a short of a port that is on is measured.
Nothing is assumed of operators, clients, events or shorts; properties that need
them to be quiet say so in their hypotheses.

Deadlock is checked in every run.

## 4. Findings

1. Urgent updates of two trains can be postponed for ever
   (`UpdateProcessor.cxx:105`): an update that is too recent goes to the end of
   the queue and background refresh serves the other train, so that the other
   update is too recent when its turn comes. `UpdateProcessor.hxx:144` says that
   updates are always taken first.
2. Power on does not cancel the countdown (`TrackPowerBit.hxx:206`). With the
   emergency stop engaged the ESTOP source goes on counting and disables the
   outputs although power is commanded on; `TrackPowerBit.hxx:50` says that the
   track is powered during an emergency stop.
3. The reset button clears the in-progress lock but not the pending request
   (`control-logic.cc:238`). Two opposite requests then pass through one piece
   and both of its routes get set.
4. An eager transition may stop its train for ever (`control-logic.cc:1431`).
   `MovePermaloc` waits for routingloc to leave the block, which `Leave` does later
   in the same run; a train that arrives just then, moving, is not started by
   `StTransitionDone` and is stopped by the detector of its old permaloc. Its next
   route is set, so nothing sets out from its block again. `:1435` says "This will
   make sure not to stop the train here." and `:1127` "which starts the train".
   Two more ways lead to a violation of `TrafficFlows`: the reset button in
   `StTurnoutFailed` (`:1170`) leaves a route lock that nobody gives back, and a
   direction bit left over from a refused route (`:1511`, "big trouble") lets a
   train swing its points for ever.
5. A detector port that is turned off and on again before its flow has come to
   `network_off` keeps its output off (`DetectorPort.hxx:230`): the handler of off
   takes the power away, the handler of on wakes the flow only there, and the flow
   goes on as if nothing had happened. `DetectorPortConfig.hxx:74` says "Turns on
   the output." `PortComesBack`, a part of `PortRecovers`, is what is left: a port
   at rest in `network_off` comes back.

Disagreements between the code and its comments that have no run of their own:

* `AllTrainNodesInterface.hxx:68`, `:71` and `:85` take one index for the entry and
  the node of a train. The code does not keep it (`OneIndex`): the reload keeps
  entries without a node, and `update_config` moves the last node into the place of
  a deleted one (`AllTrainNodes.cxx:498`). A find then looks at the entry of one
  train and answers for another, or misses one. `EverybodyAnswered` claims the
  answers to finds only while positions agree (`Aligned`), those to listings
  always.
* `ProgrammingTrackFrontend.hxx:90` says that a paged verify "Returns OK if the
  verify succeeds, and ERROR_FAILED_VERIFY if the verification does not succeed."
  No reset packets follow the page preset, whose late acknowledgement is taken for
  that of the verify: OK without a match. `ResultCorrect` leaves paged verifies
  out, and claims of a paged write only that it is right once the page register is
  set, since the acknowledgement of the preset is not looked at (`:539`).
* `write_returned` ends with "Should not get here." (`:685`). It gets there when the
  decoder answered busy and feedback about another packet came after that (`:790`):
  the write is not tried again and the client sees `ERROR_TEMPORARY`. That the
  request returns at all is `EveryRequestReturns`; which error it returns with is
  not claimed.
* `DetectorPortConfig.hxx:95` takes any byte as the number of fast retries. The
  count of tries has 3 bits: from 8 on the tries never run out and a short is never
  reported. `DetectorPortAssumption` leaves that out.

Behaviours that contradict no statement, but that a property or an instance had to
step around:

* a green request at a signal that also lets requests through takes the answer of
  a request passing through (`control-logic.cc:599`; the instances keep `NoStop`
  and `GreenAt` apart);
* points that an operator moves under a route: `RouteMatchesPoints` is about those
  that are moved by the rules of the schedules (`strict`), which `PointsLieRight`
  shows of the schedules themselves;
* the boot: magnets are pulled wherever they stand, and a train that sets out
  before that may get points that move under it (section 5). In the instance of
  `schedules` the trains start where it does not happen;
* an occupancy stored and not yet sent is lost over a restart
  (`DetectorPort.hxx:504`); `OccupancyTold` claims nothing of a port that was
  restarted. Of the accessory bus it is claimed that no short is shown while it is
  on, not that one is shown while it is off;
* a slot cleared in the train file keeps its entry and gets a node with address 0
  (`AllTrainNodes.cxx:515`), and an edit that is applied behind the position of a
  search that then creates the train leaves it with two nodes: `NodesInStep` claims
  the set of nodes, and the id of those that are there once.

Seen in the code and outside of the models: a piece ahead of a train with a
flickering detector releases its route early (`control-logic.cc:44`), late RailCom
answers to an earlier POM request have the key of the next one
(`ProgrammingTrackFrontend.hxx:786`), and the memory spaces of train nodes keep a
pointer to a node that may be deleted (`AllTrainNodes.cxx:412`).

## 5. Proofs

`TrackPowerProofs`, its first part, about the scheduler, from
`UpdateProcessorAssumption` only (any sources, priorities with a maximum, delays,
bounds):

* `TypeCorrect`, `SourcesAreConsistent`, `ExclusiveIndexCorrect`: the three
  invariants. Their conjunction `IInv` is inductive and none of them is alone:
  that `exclusiveIndex_` stays right when a source is erased needs that the
  source is in the vector once and that the map has an entry for every source
  of the vector. `WithoutErases` and `HighestExists` describe the erase and the
  loop that looks for the new exclusive source; the latter needs that a set of
  priorities has a largest element.
* `RemovedNeverCalled`, `ExclusiveGetsTrack`, `SpacingKept`: the action
  properties. `OnlyEntryFills` shows that only `entry()` fills packets,
  `EntrySender` whose packet it fills; with `IInv` the rest is short.
* `Refinement`: `UpdateProcessor` implements `PacketScheduler`, the queue mapped
  to the set of its elements. `TryIndexCovers` shows that the background loop
  looks at every source, so an idle packet means that none is due.

Its second part, on top of that, for any trains, priorities, pool and length of
the burst:

* `EstopInStep` (`TpInv`), `StoppedTrainsGetNothing`
  (`NoTrainPacketWhileStopped`), `BurstBeforeOff` (`OffOnlyAfterBurst`). The
  inductive `TpIInv` adds to the scheduler's `IInv` that trains are registered
  with priority 0, so that the exclusive source is never a train, and
  `BurstCounted`, which ties the countdown to the packets filled of each kind.

`RouteSettingProofs`, from `RouteSettingAssumption` (a line of any length and
any pieces):

* `RouteTypeCorrect` and `RoutesExcludeEachOther`. `RouteSetting` is a line on
  which nobody presses a reset button; finding 3 shows that with the button of
  `RouteRound` the latter does not hold. `NoOpposingRoutes` is not inductive: a
  route is set when an answer arrives, long after the conflicting routes were
  tested. `IInv` adds `Locked`: a track piece with a pending request holds its
  lock, has no request of the other direction and no route. Each block of a body
  keeps it (`HandleRequestGood`, `HandleFeedbackGood`, ...), and a block leaves
  the other pieces' locks and routes alone (`SameElsewhere`), so the argument is
  local and the length of the line does not matter. Signals are excepted:
  `request_green` uses the lock without a pending request and does not look at
  the route of a train that came the other way.
* `RequestsKeptApart` (`OneRequestPerPiece`) and `RequestsNeverLost`
  (`RequestInOnePlace`), for lines on which a signal that is asked for green
  stops trains (`Apart`). A signal that is asked for green and lets requests
  through would take the answer to a request passing for its own;
  `StandardMiddleSignal` (`control-logic.hxx:590`), the class that sets
  `route_no_stop`, keeps its `request_green` to itself. The invariant `Linked`
  is per link between two pieces: it holds one request or answer while its first
  piece waits, else none. A run of a piece touches three links, and the proof is
  that each block keeps those.
* `RoutesGoOn` (`RouteGoesOn`). `GoesOn` says of routes, and of success answers
  on their way, that the piece after has its route set, or that the route ends
  there; `HandshakeOf` is what the five blocks of the handshake have in common,
  and keeps it. The hard part is occupancy, which releases routes. `Calm` ties
  the occupancy bits of a piece to the detectors: a simulated piece has a train
  only while a route is set and has seen it ahead only where the next detector
  still reads occupied; a piece that follows a detector is occupied only while
  that reads so, unless it changes. So nothing is released while the detectors
  ahead are quiet. Two conditions are needed, and TLC has a counterexample on a
  line of five pieces or fewer without either: `Sighted` (a signal that lets
  trains through and follows a detector follows the piece right before it: else
  a train far behind it releases its route; a signal that follows none is not
  asked for green) and `FarFree` (a far detector that is constantly occupied lets
  a piece release its route as soon as it is set). Neither the length of the
  line, nor trains behind, nor `Apart` matter. `MCRouteSetting` assumes `Apart`
  and `Sighted` of its line, and TLC evaluates that.

`FoldProofs`, lemmas only: the generated automata handle routes, magnets and clients one after
the other, and `TrainDb` and `AllTrainNodes` loop over lists; the models fold a
step over a sequence. `FoldKeeps`, `FoldCounts` and `FoldRelates` prove for any
step and any predicate (`Op`, `Good`, operator constants of the module) that the
fold keeps what the step keeps, the second for predicates that count the turns
and the third for those that also mention what the loop does not change. First the
function by which `FoldLeft` is defined is shown to exist, by a least
counterexample. A module that needs the result takes it with
`INSTANCE FoldProofs WITH Op <- ..., Good <- ...`.

`TurnoutProofs`, from `MagnetsAssumption` and `TurnoutAssumption` (every kind of
piece, any magnets):

* `OneRouteAtATime` (`TurnoutInv`), `RequestAtOnePlace` (`AskedInOnePlace`),
  `RoutesLeadRight` (`RouteMatchesPoints`). The inductive part about the bits,
  `GoodBits`, is kept by every step of the folds over routes and magnets, not
  only by whole runs: `Alone` (one route is pending or set, under the lock and
  `any_route_set`), `AtDoor` (a request and its answer are in one place) and
  `Steered` (with the discipline of the schedules the magnets rest while a
  neighbour waits or a route is set, and the points stand where it needs them).

`SchedulesProofs`, from the assumptions of `Magnets`, `FlipFlop` and `Schedules`
(any trains, blocks, transitions, clients, magnets, timeouts):

* `OnePermitOneCoil`, for every schedule: `OnePermit`, `OneCoil` and the types.
  `PermitGood` ties the permission that is out to the state of the flip-flop,
  `CoilGood` the coil that is on to the state of the magnet automaton.
* `UseIsExclusive` (`ExclusiveUse`), for schedules that are `WellLocked`.
  `LockHasHolder` is not inductive: that the train which sets the lock is the one
  that clears it needs to know where routing may be ahead of the train. The reset
  button may be pressed; it leaves a lock that is taken and has no holder, never
  two holders or a holder without the lock. `LockInv`
  says that routing runs ahead along eager transitions only (`Chain`, `Ahead`), so
  that in a block with a lock the transition found at the end is one that was
  chosen when the train set out. A second direction bit left over from a refused
  route (the hazard at `control-logic.cc:1511`) does no harm, because all the
  transitions from the block agree on the lock.
* `RoutesOverPoints` (`PointsLieRight`) and `TrainsWhereTheyThink`
  (`TrainWhereItThinks`), for schedules that are also `WellLaid`, from every moment
  on at which `ReadyToStart` holds: the magnets rest, no route is set or asked for,
  and the trains stand where their schedules take them to be. The hypothesis is
  about that moment only; everything after it is proved. `RestInv` is what makes
  it last: a magnet moves only for the train that works on its points under the
  lock, and rests otherwise, also when the reset button has left a lock without a
  holder (`Jam`). From it `BootOver` follows in every later state
  (`RestIsBootOver`): a train that finds its points where it wants them finds them
  at rest. `TrackInv` adds the state of the request: a train past
  `SwitchTurnout` has its points at rest where it wants them (`Points`), the
  signal of its block is asked by that train only, and what it answers is a
  transition the train has chosen (`Place`, `Phase`). The places are about the
  real position `pos`, which no automaton reads.
* `TrainsAsScheduled` (`TrainAsScheduled`), if the stubs are `WellOrdered` too.
  `TurnInv` counts a train's turns: its direction differs from `turned` exactly
  while a reversal is owed (`Owed`, `Reversal`). Whether the run in which the
  train arrives at the stub sees `is_moving` set, and so `need_reverse`, depends
  on when the detector changes; `Handled` and `Unhandled` follow this through the
  fold, transition by transition.

Each layer is carried through one rule (`HasMoved`, `HasSetOut`, `HasLeft`, ...
state what a rule does to the record it works on), one transition, the fold over
the schedule, the end of the run (`Closing`) and the steps of the system.

The conditions are definitions of `Schedules`, and TLC evaluates them for the
schedule of the run (`LoopIsWell`). They describe the passage through a station in
`bracz-layout3h-logic.cc:965`: the ways from a block part at one pair of points
(`Turnout_WWW1` from `Block_A301`), each of them under the lock; the ways into
stubs come with `StopAndReverseAtStub` before the ways out. Transitions outside of
them, such as an eager one over points (`:943`) or two permits for the same way
(`:1105`), are not covered.

Why `ReadyToStart`: the code has a race. At boot every magnet is pulled wherever
it stands ("This will force an update at boot", `control-logic.cc:972`), and a
train that wants its points where they are recorded to be at that moment goes on
while the coil is moving them away, since `SwitchTurnout` (`:1555`) compares the
recorded state only. So the theorems are about trains that set out after the first
pull. In the run's instance `ReadyToStart` is reached in the first rounds, and the
race does not happen in the behaviours in which the trains set out at once either,
so that the run checks the properties from the boot on; it does happen with a
train that starts in the stub of the same loop.

`PowerProtectionProofs`, for any limits, tries and widths that the assumptions of
the three modules allow:

* `CountersBounded` (`ProtectionTypeOK`), `ReportsCorrect` (`ReportsAgree`),
  `PortStaysOff` (`OutputOffWhenTold`), `ShortStaysLatched` (`ShortLatched`). The
  count of readings is not reset when the track output is disabled;
  `ReadingsPerAttempt` and `OffReadsNormal` say why it stays in range: every
  attempt adds one reading, and an output that is off reads normal. `PortGood`
  says which states of the port's flow may have power and in which it sends,
  `NetworkInStep` what the network has been told.

`ProgrammingTrackProofs`, from `ProgrammingTrackAssumption` (CVs of any width,
any requests, at least one POM try as in the code, where there are three):

* `NothingLeftOn` (`PtInv`) and `ResultsTrue` (`ResultCorrect`). `PtIInv` follows
  a request through the flow: `InPlace` says which commands a state belongs to,
  `Cooling` when an acknowledgement of an earlier packet can no longer show up,
  `Confirmed` what an acknowledgement that was seen says about the CV, and
  `EndArranged` that the timer or the request to leave is there. `ResultCorrect`
  is about direct mode reads and writes, and about paged writes that find the page
  register set; the page preset may go unheard and its acknowledgement may be late.
  Paged verifies and POM are not in it: the code does not give what it would say
  (section 4).

`TrainSearchProofs`, from `TrainNodesAssumption` and `TrainSearchAssumption` (any
trains, queries, throttles, queue):

* `NobodyForgotten` (`EverybodyAnswered`). `AnswerInv` says of every answer that
  is owed that its event is still to come (queued, and with its pending bit set
  if it is one of the merged ones) or being served by a walk that has not reached
  the train (`Covered`), and that a pending bit stands for a queued request
  (`PendingQueued`). A request that cancels another one asks the same, or the
  same is queued, or nobody needs the answers.
* `NodesStayInStep` (`NodesInStep`), without further conditions: trains may be
  listed twice, slots cleared or set to "Unused", and edits applied in the middle
  of a search. The invariant is `InStep` (`Follow`) on top of the types of nodes
  and entries. What the loops of `load_from_file` and `update_config` compute comes
  from `FoldProofs`: `LoadGood` for the reload, `DeleteGood` for the loop that
  deletes by moving the last node to the place it looks at, which counts turns, and
  `CreateGood` for the loop that creates nodes and sets their ids, which says that
  after k turns the entries up to k have their nodes and those nodes their ids.

Only model-checked: liveness, which is out of the prover's reach
(`NobodyStarves`, `PowerGoesOff`, `EveryRequestAnswered`, `ResetReleases`,
`RequestDecided`, `MagnetsFollow`, `OverloadSwitchedOff`,
`PortRecovers`, `EveryRequestReturns`, `SearchEnds`), and its violations
(`UpdatesTakenFirst`, `TrafficFlows`, `TurnsOn`). Every invariant of the
passing runs is stated by a theorem, some of them under the conditions given
above.

## 6. Not modelled

`PROJECT.json` lists every component with the reason. Pure I/O, formatting,
generated code, host-side code generation, layout data and hardware drivers stay
out, and with them most lines of the repository. Signal aspects, raw detectors,
the memory spaces of train nodes and of the programming track, RailCom address
debouncing, the loader of the logic engine and the mobile station's handshake
have state of their own and could become modules.

## 7. Plan

Done: scheduler with its abstract specification and proofs; track power; route
setting on a line, its rounds, and the exclusion proof; turnouts, magnets,
flip-flop and schedules; power protection; the programming track; train nodes
and the search protocol.

Proved: the scheduler and its refinement, track power, the line (routes, requests
and where routes lead), the turnout, the schedules, power protection, the programming track,
the train search and the nodes it searches.

Model next: signal aspects (they settle to the number of clear signals ahead), an
abstract specification of a line (requests granted or refused as a whole) and its
refinement by `RouteSetting`.
