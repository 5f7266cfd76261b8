---------------------------- MODULE TurnoutProofs ---------------------------
(***************************************************************************)
(* Proofs about routes over a turnout or a double slip, of every kind,     *)
(* moved by any magnet of a board with any magnets.                        *)
(*                                                                         *)
(* The body of an automaton folds a step over the routes of the piece, or  *)
(* over the magnets of the board.  Each step keeps an invariant of the     *)
(* bits it works on, and FoldProofs lifts that to the fold.  The same      *)
(* invariant holds between runs, since every other action keeps it too:    *)
(* GoodBits, which consists of                                             *)
(*   - Alone: one route is pending or set at a time, under the lock and    *)
(*     the conflict bit any_route_set;                                     *)
(*   - AtDoor: a request and its answer are in one place;                  *)
(*   - Steered: with the discipline of TrainSchedule the magnets are at    *)
(*     rest while a neighbour waits or a route is set, and the points      *)
(*     stand where the routes need them.                                   *)
(***************************************************************************)
EXTENDS Turnout, FiniteSetTheorems, TLAPS

MagnetType ==
    [state : {StBase} \cup Reals, timer : {0, 1},
     command : SUBSET AllMagnets, remote : SUBSET Couples,
     current : SUBSET AllMagnets,
     set0 : SUBSET Reals, set1 : SUBSET Reals]

BitsType ==
    [asked : SUBSET Points, try : SUBSET Points, success : SUBSET Points,
     failure : SUBSET Points, granted : SUBSET Points, refused : SUBSET Points,
     set : SUBSET Routes, pending : SUBSET Routes,
     busy : BOOLEAN, any : BOOLEAN, occ : BOOLEAN, seen : BOOLEAN,
     proxy : SUBSET Points, locked : BOOLEAN, thrown : BOOLEAN]

Thrown == TurnoutMagnet \in mag.current

Alone(s) ==
    /\ \A q, r \in s.set : q = r
    /\ \A q, r \in s.pending : q = r
    /\ s.pending # {} => s.busy /\ ~s.any
    /\ s.set # {} => s.any

ComesFrom(s, p) == \E r \in s.pending : r.from = p
GoesTo(s, p) == \E r \in s.pending : r.to = p

(* A request that point p's neighbour has made.                            *)
Door(s, p) ==
    /\ p \in waiting <=> p \in s.asked \/ p \in s.success \/ p \in s.failure \/ ComesFrom(s, p)
    /\ ~(p \in s.asked /\ p \in s.success) /\ ~(p \in s.asked /\ p \in s.failure)
    /\ ~(p \in s.asked /\ ComesFrom(s, p)) /\ ~(p \in s.success /\ p \in s.failure)
    /\ ~(p \in s.success /\ ComesFrom(s, p)) /\ ~(p \in s.failure /\ ComesFrom(s, p))

(* A request that the piece has passed to point p's neighbour.             *)
Passed(s, p) ==
    /\ GoesTo(s, p) <=> p \in s.try \/ p \in s.granted \/ p \in s.refused
    /\ ~(p \in s.try /\ p \in s.granted) /\ ~(p \in s.try /\ p \in s.refused)
    /\ ~(p \in s.granted /\ p \in s.refused)

AtDoor(s) == \A p \in Points : Door(s, p) /\ Passed(s, p)

Steered(s) ==
    strict =>
        /\ waiting # {} \/ s.set # {} => AtRest
        /\ ~s.any /\ waiting # {} => s.thrown = Thrown
        /\ \A r \in s.pending : Leads(Thrown, r)
        /\ \A r \in s.set : Leads(Thrown, r) /\ Leads(s.thrown, r)

GoodBits(s) == s \in BitsType /\ Alone(s) /\ AtDoor(s) /\ Steered(s)

Framed ==
    /\ mag \in MagnetType
    /\ kind \in Kinds /\ strict \in BOOLEAN /\ (strict => Movable)
    /\ waiting \subseteq Points /\ detector \subseteq Points

TurnoutIInv == Framed /\ GoodBits(bits) /\ (bits.any <=> bits.set # {})

-----------------------------------------------------------------------------
(* The magnets.  Their bits keep their types, and magnets at rest stay so. *)
MagnetsTyped(s) == s \in MagnetType

Still(s) ==
    s \in MagnetType /\ s.state = StBase /\ s.command = mag.command /\ s.current = mag.current

CoupleTyped == INSTANCE FoldProofs WITH Op <- Couple, Good <- MagnetsTyped
EntryTyped == INSTANCE FoldProofs WITH Op <- MagnetEntry, Good <- MagnetsTyped
CoupleStill == INSTANCE FoldProofs WITH Op <- Couple, Good <- Still
EntryStill == INSTANCE FoldProofs WITH Op <- MagnetEntry, Good <- Still

LEMMA PutTyped ==
  ASSUME NEW A, NEW S \in SUBSET A, NEW x \in A, NEW on PROVE Put(S, x, on) \in SUBSET A
BY DEF Put

LEMMA CoupleKeeps ==
  ASSUME NEW s \in MagnetType, NEW c \in Couples
  PROVE  /\ Couple(s, c) \in MagnetType
         /\ Couple(s, c).state = s.state
<1> DEFINE t == CoupleCommands(s, c)
<1>1. c \in AllMagnets /\ Original[c] \in AllMagnets
  BY MagnetsAssumption DEF AllMagnets
<1>2. t \in MagnetType /\ t.state = s.state
  <2>1. \A on : Put(s.remote, c, on) \in SUBSET Couples
    BY PutTyped DEF MagnetType
  <2>2. \A on : Put(s.command, c, on) \in SUBSET AllMagnets
    BY <1>1, PutTyped DEF MagnetType
  <2>3. \A on : SetRemote(s.command, c, on) \in SUBSET AllMagnets
    BY <1>1, PutTyped DEF MagnetType, SetRemote
  <2>4. \E R \in SUBSET Couples, C \in SUBSET AllMagnets :
           t = [s EXCEPT !.remote = R, !.command = C]
    BY <2>1, <2>2, <2>3 DEF CoupleCommands
  <2> QED BY <2>4 DEF MagnetType
<1> HIDE DEF t
<1>3. \A on : Put(t.current, c, on) \in SUBSET AllMagnets
  BY <1>1, <1>2, PutTyped DEF MagnetType
<1>4. \E C \in SUBSET AllMagnets : Couple(s, c) = [t EXCEPT !.current = C]
  BY <1>3 DEF Couple, t
<1> QED BY <1>2, <1>4 DEF MagnetType

LEMMA PutSame ==
  ASSUME NEW S, NEW x, NEW on \in BOOLEAN, on <=> x \in S PROVE Put(S, x, on) = S
BY DEF Put

LEMMA CoupleStays ==
  ASSUME AtRest, mag \in MagnetType, NEW s, Still(s), NEW c \in Couples
  PROVE  Still(Couple(s, c))
<1> DEFINE t == CoupleCommands(s, c)
           there == RemoteValue(s.command, c)
           here == c \in s.command
<1>1. /\ s \in MagnetType /\ s.state = StBase
      /\ s.command = mag.command /\ s.current = mag.command /\ mag.current = mag.command
  BY DEF Still, AtRest, Settled
<1>2. here <=> there
  BY <1>1 DEF AtRest, Settled
<1>3. there \in BOOLEAN /\ here \in BOOLEAN
  BY DEF RemoteValue
<1>4. Put(s.command, c, there) = s.command
  BY <1>2, <1>3, PutSame
<1>5. SetRemote(s.command, c, here) = s.command
  <2>1. (here # (c \in Invert)) \in BOOLEAN
    OBVIOUS
  <2>2. (here # (c \in Invert)) <=> Original[c] \in s.command
    BY <1>2 DEF RemoteValue
  <2> QED BY <2>1, <2>2, PutSame DEF SetRemote
<1>6. t.command = s.command /\ t.current = s.current
  <2>1. CASE there # (c \in s.remote)
    <3>1. t = [s EXCEPT !.remote = Put(@, c, there), !.command = Put(@, c, there)]
      BY <2>1 DEF CoupleCommands
    <3> QED BY <1>1, <1>4, <3>1 DEF MagnetType
  <2>2. CASE there = (c \in s.remote)
    <3>1. t = [s EXCEPT !.remote = Put(@, c, here), !.command = SetRemote(@, c, here)]
      BY <2>2 DEF CoupleCommands
    <3> QED BY <1>1, <1>5, <3>1 DEF MagnetType
  <2> QED BY <2>1, <2>2
<1>7. t \in [command : {s.command}, current : {s.current}, state : {t.state}, timer : {t.timer},
             remote : {t.remote}, set0 : {t.set0}, set1 : {t.set1}]
  <2>1. \E R, C : t = [s EXCEPT !.remote = R, !.command = C]
    BY DEF CoupleCommands
  <2> QED BY <1>1, <1>6, <2>1 DEF MagnetType
<1>8. Couple(s, c) = [t EXCEPT !.current = s.current]
  <2>1. Put(s.current, c, there) = s.current
    BY <1>1, <1>4
  <2>2. RemoteValue(t.current, c) = there
    BY <1>1, <1>6
  <2> QED BY <1>6, <2>1, <2>2 DEF Couple
<1> HIDE DEF t
<1>9. Couple(s, c).command = s.command /\ Couple(s, c).current = s.current
  BY <1>6, <1>7, <1>8
<1> QED BY <1>1, <1>9, CoupleKeeps DEF Still

LEMMA PullTyped ==
  ASSUME NEW s \in MagnetType, NEW m \in Reals PROVE Pull(s, m) \in MagnetType
<1>1. \E A, B \in SUBSET Reals :
        Pull(s, m) \in {s, [s EXCEPT !.state = m, !.timer = 1, !.set1 = A, !.set0 = B]}
  <2>1. s.set0 \in SUBSET Reals /\ s.set1 \in SUBSET Reals
    BY DEF MagnetType
  <2>2. s.set0 \cup {m} \in SUBSET Reals /\ s.set1 \cup {m} \in SUBSET Reals
    BY <2>1
  <2> QED BY <2>1, <2>2 DEF Pull
<1> QED BY <1>1 DEF MagnetType

LEMMA ReleaseTyped ==
  ASSUME NEW s \in MagnetType, NEW m \in Reals
  PROVE  ReleaseMagnet(s, m) \in MagnetType /\ MagnetsToZero(s, m) \in MagnetType
<1>1. s.set0 \ {m} \in SUBSET Reals /\ s.set1 \ {m} \in SUBSET Reals
  BY DEF MagnetType
<1>2. \A on : Put(s.current, m, on) \in SUBSET AllMagnets
  BY PutTyped DEF MagnetType, AllMagnets
<1>3. \E C \in SUBSET AllMagnets, A, B \in SUBSET Reals :
        ReleaseMagnet(s, m) \in {s, [s EXCEPT !.state = StBase, !.current = C,
                                              !.set0 = A, !.set1 = B]}
  BY <1>1, <1>2 DEF ReleaseMagnet
<1>4. \E A, B \in SUBSET Reals :
        MagnetsToZero(s, m) \in {s, [s EXCEPT !.set0 = A, !.set1 = B]}
  BY <1>1 DEF MagnetsToZero
<1> QED BY <1>3, <1>4 DEF MagnetType

LEMMA EntryStays ==
  ASSUME AtRest, NEW s, Still(s), NEW m \in Reals
  PROVE  Still(MagnetEntry(s, m))
<1>1. /\ s \in MagnetType /\ s.state = StBase /\ m # StBase
      /\ s.command = mag.command /\ s.current = mag.current /\ mag.current = mag.command
  BY MagnetsAssumption DEF Still, AtRest, Settled
<1>2. Pull(s, m) = s
  BY <1>1 DEF Pull
<1>3. ReleaseMagnet(s, m) = s
  BY <1>1 DEF ReleaseMagnet
<1>4. /\ MagnetsToZero(s, m).state = s.state /\ MagnetsToZero(s, m).command = s.command
      /\ MagnetsToZero(s, m).current = s.current
  BY <1>1 DEF MagnetsToZero, MagnetType
<1>5. MagnetEntry(s, m) = MagnetsToZero(s, m)
  BY <1>2, <1>3 DEF MagnetEntry
<1> QED BY <1>1, <1>4, <1>5, ReleaseTyped DEF Still

LEMMA FinalTyped ==
  ASSUME NEW s \in MagnetType
  PROVE  /\ MagnetFinal(s) \in MagnetType /\ MagnetFinal(s).state = s.state
         /\ MagnetFinal(s).command = s.command /\ MagnetFinal(s).current = s.current
BY DEF MagnetFinal, MagnetType

(* A run of the magnets' automaton.                                        *)
LEMMA MagnetsKeepType ==
  ASSUME mag \in MagnetType PROVE MagnetBody(mag) \in MagnetType
<1> DEFINE a == FoldLeft(Couple, mag, Coupled)
           b == FoldLeft(MagnetEntry, a, Real)
<1>1. \A s, c : MagnetsTyped(s) /\ c \in Couples => MagnetsTyped(Couple(s, c))
  BY CoupleKeeps DEF MagnetsTyped
<1>2. MagnetsTyped(a)
  <2>1. MagnetsTyped(mag) /\ Coupled \in Seq(Couples)
    BY MagnetsAssumption DEF MagnetsTyped
  <2> QED BY <1>1, <2>1, CoupleTyped!FoldKeeps DEF FoldLeft, MapThenFoldSet, Max,
             CoupleTyped!FoldLeft, CoupleTyped!MapThenFoldSet, CoupleTyped!Max
<1> HIDE DEF a
<1>3. \A s, m : MagnetsTyped(s) /\ m \in Reals => MagnetsTyped(MagnetEntry(s, m))
  BY PullTyped, ReleaseTyped DEF MagnetsTyped, MagnetEntry
<1>4. MagnetsTyped(b)
  <2>1. Real \in Seq(Reals)
    BY MagnetsAssumption
  <2> QED BY <1>2, <1>3, <2>1, EntryTyped!FoldKeeps DEF FoldLeft, MapThenFoldSet, Max,
             EntryTyped!FoldLeft, EntryTyped!MapThenFoldSet, EntryTyped!Max
<1> HIDE DEF b
<1>5. MagnetBody(mag) = MagnetFinal(b)
  BY DEF MagnetBody, a, b
<1> QED BY <1>4, <1>5, FinalTyped DEF MagnetsTyped

LEMMA MagnetsKeepStill ==
  ASSUME mag \in MagnetType, AtRest PROVE Still(MagnetBody(mag))
<1> DEFINE a == FoldLeft(Couple, mag, Coupled)
           b == FoldLeft(MagnetEntry, a, Real)
<1>1. \A s, c : Still(s) /\ c \in Couples => Still(Couple(s, c))
  BY CoupleStays
<1>2. Still(a)
  <2>1. Still(mag) /\ Coupled \in Seq(Couples)
    BY MagnetsAssumption DEF Still, AtRest
  <2> QED BY <1>1, <2>1, CoupleStill!FoldKeeps DEF FoldLeft, MapThenFoldSet, Max,
             CoupleStill!FoldLeft, CoupleStill!MapThenFoldSet, CoupleStill!Max
<1> HIDE DEF a
<1>3. \A s, m : Still(s) /\ m \in Reals => Still(MagnetEntry(s, m))
  BY EntryStays
<1>4. Still(b)
  <2>1. Real \in Seq(Reals)
    BY MagnetsAssumption
  <2> QED BY <1>2, <1>3, <2>1, EntryStill!FoldKeeps DEF FoldLeft, MapThenFoldSet, Max,
             EntryStill!FoldLeft, EntryStill!MapThenFoldSet, EntryStill!Max
<1> HIDE DEF b
<1>5. MagnetBody(mag) = MagnetFinal(b)
  BY DEF MagnetBody, a, b
<1> QED BY <1>4, <1>5, FinalTyped DEF Still

-----------------------------------------------------------------------------
(* The routes.                                                             *)
LEMMA RoutesTyped ==
  /\ Directions \in Seq(Routes)
  /\ \A r \in Routes : r.from \in Points /\ r.to \in Points
<1>1. \E n \in Nat : DOMAIN Directions = 1 .. n /\ Directions = [k \in 1 .. n |-> Directions[k]]
  <2>1. CASE kind = "MovableTurnout"
    <3>1. Directions = <<PC, PT, CP, TP>>
      BY <2>1 DEF Directions
    <3>2. DOMAIN Directions = 1 .. 4
      BY <3>1
    <3>3. Directions = [k \in 1 .. 4 |-> Directions[k]]
      BY <3>1
    <3> QED BY <3>2, <3>3
  <2>2. CASE kind = "FixedClosed"
    <3>1. Directions = <<CP, TP, PC>>
      BY <2>2 DEF Directions
    <3>2. DOMAIN Directions = 1 .. 3
      BY <3>1
    <3>3. Directions = [k \in 1 .. 3 |-> Directions[k]]
      BY <3>1
    <3> QED BY <3>2, <3>3
  <2>3. CASE kind = "FixedThrown"
    <3>1. Directions = <<CP, TP, PT>>
      BY <2>3 DEF Directions
    <3>2. DOMAIN Directions = 1 .. 3
      BY <3>1
    <3>3. Directions = [k \in 1 .. 3 |-> Directions[k]]
      BY <3>1
    <3> QED BY <3>2, <3>3
  <2>4. CASE kind \notin {"MovableTurnout", "FixedClosed", "FixedThrown"}
    <3>1. Directions = << Route("A1", "B1", "closed"), Route("A1", "B2", "thrown"),
                          Route("A2", "B2", "closed"), Route("A2", "B1", "thrown"),
                          Route("B1", "A1", "closed"), Route("B1", "A2", "thrown"),
                          Route("B2", "A2", "closed"), Route("B2", "A1", "thrown") >>
      BY <2>4 DEF Directions
    <3>2. DOMAIN Directions = 1 .. 8
      BY <3>1
    <3>3. Directions = [k \in 1 .. 8 |-> Directions[k]]
      BY <3>1
    <3> QED BY <3>2, <3>3
  <2> QED BY <2>1, <2>2, <2>3, <2>4
<1>2. PICK n \in Nat : DOMAIN Directions = 1 .. n /\ Directions = [k \in 1 .. n |-> Directions[k]]
  BY <1>1
<1>3. \A k \in 1 .. n : Directions[k] \in Routes
  BY <1>2 DEF Routes
<1>4. Directions \in [1 .. n -> Routes]
  BY <1>2, <1>3
<1>5. Directions \in Seq(Routes)
  BY <1>4
<1>6. \A r \in Routes : r.from \in Points /\ r.to \in Points
  BY DEF Points
<1> QED BY <1>5, <1>6

(* What is left when only the occupancy, the proxies and routes that are   *)
(* released change.                                                        *)
LEMMA LessIsGood ==
  ASSUME NEW s, GoodBits(s), NEW t \in BitsType, t.set \subseteq s.set,
         t.pending = s.pending, t.busy = s.busy, t.any = s.any, t.thrown = s.thrown,
         t.asked = s.asked, t.success = s.success, t.failure = s.failure,
         t.try = s.try, t.granted = s.granted, t.refused = s.refused
  PROVE  GoodBits(t)
<1>1. Alone(t)
  BY DEF GoodBits, Alone
<1>2. AtDoor(t)
  BY DEF GoodBits, AtDoor, Door, Passed, ComesFrom, GoesTo
<1>3. Steered(t)
  BY DEF GoodBits, Steered
<1> QED BY <1>1, <1>2, <1>3 DEF GoodBits

LEMMA OccupancyKeeps ==
  ASSUME NEW s, GoodBits(s), NEW r \in Routes PROVE GoodBits(SimulateOccupancy(s, r))
<1> DEFINE enters == r \in s.set /\ r.from \in detector /\ ~s.occ
           t == IF enters THEN [s EXCEPT !.occ = TRUE, !.seen = FALSE] ELSE s
<1>1. s \in BitsType
  BY DEF GoodBits
<1>2. GoodBits(t)
  <2>1. /\ t \in BitsType /\ t.set = s.set
        /\ t.pending = s.pending /\ t.busy = s.busy /\ t.any = s.any /\ t.thrown = s.thrown
        /\ t.asked = s.asked /\ t.success = s.success /\ t.failure = s.failure
        /\ t.try = s.try /\ t.granted = s.granted /\ t.refused = s.refused
    BY <1>1 DEF BitsType
  <2> QED BY <2>1, LessIsGood
<1>3. SimulateOccupancy(s, r) =
        IF r \notin t.set \/ ~t.occ THEN t
        ELSE IF r.to \in detector THEN [t EXCEPT !.seen = TRUE]
        ELSE IF t.seen THEN [t EXCEPT !.occ = FALSE, !.set = @ \ {r}]
        ELSE t
  BY DEF SimulateOccupancy
<1> HIDE DEF t
<1>4. t \in BitsType
  BY <1>2 DEF GoodBits
<1>5. GoodBits([t EXCEPT !.seen = TRUE])
  <2> DEFINE u == [t EXCEPT !.seen = TRUE]
  <2>1. /\ u \in BitsType /\ u.set = t.set
        /\ u.pending = t.pending /\ u.busy = t.busy /\ u.any = t.any /\ u.thrown = t.thrown
        /\ u.asked = t.asked /\ u.success = t.success /\ u.failure = t.failure
        /\ u.try = t.try /\ u.granted = t.granted /\ u.refused = t.refused
    BY <1>4 DEF BitsType
  <2> QED BY <1>2, <2>1, LessIsGood
<1>6. GoodBits([t EXCEPT !.occ = FALSE, !.set = @ \ {r}])
  <2> DEFINE u == [t EXCEPT !.occ = FALSE, !.set = @ \ {r}]
  <2>1. /\ u \in BitsType /\ u.set \subseteq t.set
        /\ u.pending = t.pending /\ u.busy = t.busy /\ u.any = t.any /\ u.thrown = t.thrown
        /\ u.asked = t.asked /\ u.success = t.success /\ u.failure = t.failure
        /\ u.try = t.try /\ u.granted = t.granted /\ u.refused = t.refused
    BY <1>4 DEF BitsType
  <2> QED BY <1>2, <2>1, LessIsGood
<1> QED BY <1>2, <1>3, <1>5, <1>6

LEMMA ProxyKeeps ==
  ASSUME NEW s, GoodBits(s), NEW r, r.from \in Points PROVE GoodBits(ProxyDetector(s, r))
<1> DEFINE P == Put(s.proxy, r.from, r.to \in detector)
           u == [s EXCEPT !.proxy = P]
<1>1. s \in BitsType
  BY DEF GoodBits
<1>2. P \in SUBSET Points
  BY <1>1, PutTyped DEF BitsType
<1> HIDE DEF P
<1>3. /\ u \in BitsType /\ u.set = s.set
      /\ u.pending = s.pending /\ u.busy = s.busy /\ u.any = s.any /\ u.thrown = s.thrown
      /\ u.asked = s.asked /\ u.success = s.success /\ u.failure = s.failure
      /\ u.try = s.try /\ u.granted = s.granted /\ u.refused = s.refused
  BY <1>1, <1>2 DEF BitsType
<1>4. GoodBits(u)
  BY <1>3, LessIsGood
<1>5. ProxyDetector(s, r) = s \/ ProxyDetector(s, r) = u
  BY DEF ProxyDetector, P
<1> QED BY <1>4, <1>5

(* A request is passed on: nothing else is pending or set, and the points  *)
(* lead where it goes.                                                     *)
LEMMA PropagateKeeps ==
  ASSUME NEW s, GoodBits(s), NEW r \in Routes, r.from \in s.asked, Leads(s.thrown, r),
         CanPropagate(s, r)
  PROVE  GoodBits(Propagate(s, r))
<1> DEFINE t == Propagate(s, r)
<1>1. s \in BitsType /\ r.from \in Points /\ r.to \in Points
  BY RoutesTyped DEF GoodBits
<1>2. /\ t.busy = TRUE /\ t.pending = s.pending \cup {r}
      /\ t.asked = s.asked \ {r.from} /\ t.try = s.try \cup {r.to}
      /\ t.granted = s.granted \ {r.to} /\ t.refused = s.refused \ {r.to}
      /\ t.success = s.success /\ t.failure = s.failure
      /\ t.set = s.set /\ t.any = s.any /\ t.thrown = s.thrown
  BY <1>1 DEF Propagate, BitsType
<1>3. t \in BitsType
  <2>1. /\ s.pending \cup {r} \in SUBSET Routes /\ s.asked \ {r.from} \in SUBSET Points
        /\ s.try \cup {r.to} \in SUBSET Points
        /\ s.granted \ {r.to} \in SUBSET Points /\ s.refused \ {r.to} \in SUBSET Points
    BY <1>1 DEF BitsType
  <2> QED BY <1>1, <2>1 DEF Propagate, BitsType
<1> HIDE DEF t
<1>4. s.pending = {} /\ ~s.any /\ s.set = {}
  BY DEF GoodBits, Alone, CanPropagate
<1>5. t.pending = {r} /\ t.set = {} /\ ~t.any
  BY <1>2, <1>4
<1>6. Alone(t)
  BY <1>2, <1>5 DEF Alone
<1>7. ASSUME NEW p \in Points PROVE Door(t, p)
  <2>1. Door(s, p) /\ ~ComesFrom(s, p)
    BY <1>4 DEF GoodBits, AtDoor, ComesFrom
  <2>2. ComesFrom(t, p) <=> p = r.from
    BY <1>5 DEF ComesFrom
  <2>3. p \in t.asked <=> p \in s.asked /\ p # r.from
    BY <1>2
  <2> QED BY <1>2, <2>1, <2>2, <2>3 DEF Door
<1>8. ASSUME NEW p \in Points PROVE Passed(t, p)
  <2>1. p \notin s.try /\ p \notin s.granted /\ p \notin s.refused
    BY <1>4 DEF GoodBits, AtDoor, Passed, GoesTo
  <2>2. GoesTo(t, p) <=> p = r.to
    BY <1>5 DEF GoesTo
  <2> QED BY <1>2, <2>1, <2>2 DEF Passed
<1>9. Steered(t)
  <2>1. SUFFICES ASSUME strict PROVE Steered(t)
    BY DEF Steered
  <2>2. r.from \in waiting
    BY <1>1 DEF GoodBits, AtDoor, Door
  <2>3. s.thrown = Thrown /\ AtRest
    BY <1>4, <2>1, <2>2 DEF GoodBits, Steered
  <2> QED BY <1>2, <1>5, <2>3 DEF Steered
<1> QED BY <1>3, <1>6, <1>7, <1>8, <1>9 DEF GoodBits, AtDoor, t

(* A request is refused.                                                   *)
LEMMA RefuseKeeps ==
  ASSUME NEW s, GoodBits(s), NEW p \in Points, p \in s.asked
  PROVE  GoodBits([Answer(s, p, FALSE) EXCEPT !.asked = @ \ {p}])
<1> DEFINE t == [Answer(s, p, FALSE) EXCEPT !.asked = @ \ {p}]
<1>1. s \in BitsType
  BY DEF GoodBits
<1>2. /\ t.asked = s.asked \ {p} /\ t.success = s.success \ {p} /\ t.failure = s.failure \cup {p}
      /\ t.busy = s.busy /\ t.pending = s.pending /\ t.try = s.try
      /\ t.granted = s.granted /\ t.refused = s.refused
      /\ t.set = s.set /\ t.any = s.any /\ t.thrown = s.thrown
  BY <1>1 DEF Answer, Put, BitsType
<1>3. t \in BitsType
  <2>1. /\ s.asked \ {p} \in SUBSET Points /\ s.success \ {p} \in SUBSET Points
        /\ s.failure \cup {p} \in SUBSET Points
    BY <1>1 DEF BitsType
  <2> QED BY <1>1, <2>1 DEF Answer, Put, BitsType
<1> HIDE DEF t
<1>4. Alone(t) /\ Steered(t)
  BY <1>2 DEF GoodBits, Alone, Steered
<1>5. ASSUME NEW q \in Points PROVE Door(t, q)
  <2>1. Door(s, q) /\ (ComesFrom(t, q) <=> ComesFrom(s, q))
    BY <1>2 DEF GoodBits, AtDoor, ComesFrom
  <2>2. CASE q = p
    BY <1>2, <2>1, <2>2 DEF Door
  <2>3. CASE q # p
    BY <1>2, <2>1, <2>3 DEF Door
  <2> QED BY <2>2, <2>3
<1>6. ASSUME NEW q \in Points PROVE Passed(t, q)
  BY <1>2 DEF GoodBits, AtDoor, Passed, GoesTo
<1> QED BY <1>3, <1>4, <1>5, <1>6 DEF GoodBits, AtDoor, t

LEMMA RequestKeeps ==
  ASSUME NEW s, GoodBits(s), NEW r \in Routes PROVE GoodBits(HandleRequest(s, r))
BY PropagateKeeps, RefuseKeeps, RoutesTyped DEF HandleRequest

(* The answer to a request that was passed on: the one route that was      *)
(* pending is set, or is not.                                              *)
LEMMA FeedbackKeeps ==
  ASSUME NEW s, GoodBits(s), NEW r \in Routes PROVE GoodBits(HandleFeedback(s, r))
<1>1. SUFFICES ASSUME r \in s.pending, r.to \in s.granted \cup s.refused
               PROVE  GoodBits(HandleFeedback(s, r))
  BY DEF HandleFeedback
<1> DEFINE yes == r.to \notin s.refused
           t == [Answer(s, r.from, yes) EXCEPT
                   !.pending = @ \ {r}, !.busy = FALSE,
                   !.granted = @ \ {r.to}, !.refused = @ \ {r.to},
                   !.set = IF yes THEN @ \cup {r} ELSE @,
                   !.any = @ \/ yes]
<1>2. HandleFeedback(s, r) = t
  BY <1>1 DEF HandleFeedback
<1>3. s \in BitsType /\ r.from \in Points /\ r.to \in Points
  BY RoutesTyped DEF GoodBits
<1>4. /\ t.busy = FALSE /\ t.pending = s.pending \ {r}
      /\ t.asked = s.asked /\ t.try = s.try /\ t.thrown = s.thrown
      /\ t.granted = s.granted \ {r.to} /\ t.refused = s.refused \ {r.to}
      /\ t.success = Put(s.success, r.from, yes) /\ t.failure = Put(s.failure, r.from, ~yes)
      /\ t.set = (IF yes THEN s.set \cup {r} ELSE s.set) /\ t.any = (s.any \/ yes)
  BY <1>3 DEF Answer, BitsType
<1>5. t \in BitsType
  <2>1. /\ s.pending \ {r} \in SUBSET Routes
        /\ (IF yes THEN s.set \cup {r} ELSE s.set) \in SUBSET Routes
        /\ s.granted \ {r.to} \in SUBSET Points /\ s.refused \ {r.to} \in SUBSET Points
    BY <1>3 DEF BitsType
  <2>2. /\ Put(s.success, r.from, yes) \in SUBSET Points
        /\ Put(s.failure, r.from, ~yes) \in SUBSET Points
    BY <1>3, PutTyped DEF BitsType
  <2>3. (s.any \/ yes) \in BOOLEAN
    OBVIOUS
  <2> DEFINE u == Answer(s, r.from, yes)
  <2>4. /\ u.pending = s.pending /\ u.granted = s.granted /\ u.refused = s.refused
        /\ u.set = s.set /\ u.any = s.any
    BY <1>3 DEF Answer, BitsType
  <2> HIDE DEF yes
  <2>5. u \in BitsType
    BY <1>3, <2>2 DEF Answer, BitsType
  <2> DEFINE v == IF yes THEN s.set \cup {r} ELSE s.set
             on == s.any \/ yes
             pending == s.pending \ {r}
             granted == s.granted \ {r.to}
             refused == s.refused \ {r.to}
             t2 == [u EXCEPT !.pending = pending, !.busy = FALSE, !.granted = granted,
                             !.refused = refused, !.set = v, !.any = on]
  <2>6. t = t2
    <3> HIDE DEF u, yes
    <3> QED BY <2>4 DEF u
  <2>7. /\ v \in SUBSET Routes /\ on \in BOOLEAN /\ pending \in SUBSET Routes
        /\ granted \in SUBSET Points /\ refused \in SUBSET Points
    BY <2>1, <2>3
  <2> HIDE DEF t, u, v, on, pending, granted, refused
  <2>8. t2 \in BitsType
    BY ONLY <2>5, <2>7 DEF BitsType
  <2> QED BY ONLY <2>6, <2>8
<1> HIDE DEF t
<1>6. /\ s.pending = {r} /\ ~s.any /\ s.set = {} /\ t.pending = {}
  BY <1>1, <1>4 DEF GoodBits, Alone
<1>7. Alone(t)
  BY <1>4, <1>6 DEF Alone
<1>8. ASSUME NEW p \in Points PROVE Door(t, p)
  <2>1. Door(s, p) /\ (ComesFrom(s, p) <=> p = r.from) /\ ~ComesFrom(t, p)
    BY <1>6 DEF GoodBits, AtDoor, ComesFrom
  <2>2. CASE p = r.from
    <3>1. /\ p \notin s.asked /\ p \in waiting
          /\ p \in t.success <=> yes
          /\ p \in t.failure <=> ~yes
      BY <1>4, <2>1, <2>2 DEF Door, Put
    <3> QED BY <1>4, <2>1, <3>1 DEF Door
  <2>3. CASE p # r.from
    <3>1. (p \in t.success <=> p \in s.success) /\ (p \in t.failure <=> p \in s.failure)
      BY <1>4, <2>3 DEF Put
    <3> QED BY <1>4, <2>1, <2>3, <3>1 DEF Door
  <2> QED BY <2>2, <2>3
<1>9. ASSUME NEW p \in Points PROVE Passed(t, p)
  <2>1. Passed(s, p) /\ (GoesTo(s, p) <=> p = r.to) /\ ~GoesTo(t, p)
    BY <1>6 DEF GoodBits, AtDoor, GoesTo
  <2> QED BY <1>1, <1>4, <2>1 DEF Passed
<1>10. Steered(t)
  <2>1. SUFFICES ASSUME strict PROVE Steered(t)
    BY DEF Steered
  <2>2. r.from \in waiting
    BY <1>1, <1>3 DEF GoodBits, AtDoor, Door, ComesFrom
  <2>3. s.thrown = Thrown /\ Leads(Thrown, r) /\ AtRest
    BY <1>1, <1>6, <2>1, <2>2 DEF GoodBits, Steered
  <2> QED BY <1>4, <1>6, <2>3 DEF Steered
<1> QED BY <1>2, <1>5, <1>7, <1>8, <1>9, <1>10 DEF GoodBits, AtDoor

-----------------------------------------------------------------------------
(* The body of the piece's automaton.                                      *)
OccupancyFold == INSTANCE FoldProofs WITH Op <- SimulateOccupancy, Good <- GoodBits
ProxyFold == INSTANCE FoldProofs WITH Op <- ProxyDetector, Good <- GoodBits
RouteFold == INSTANCE FoldProofs WITH Op <- SimulateRoute, Good <- GoodBits

LEMMA FixKeeps ==
  ASSUME Framed, NEW s, GoodBits(s) PROVE GoodBits(FixTurnoutState(s))
<1>1. s \in BitsType
  BY DEF GoodBits
<1>2. CASE Movable
  BY <1>2 DEF FixTurnoutState, Movable
<1>3. CASE ~Movable
  <2>1. ~strict
    BY <1>3 DEF Framed
  <2>2. \E on \in BOOLEAN : FixTurnoutState(s) = [s EXCEPT !.thrown = on]
    <3>1. CASE kind = "FixedClosed"
      <4> DEFINE on == TP \in s.set
      <4>1. FixTurnoutState(s) = [s EXCEPT !.thrown = on]
        BY <3>1 DEF FixTurnoutState
      <4>2. on \in BOOLEAN
        OBVIOUS
      <4> HIDE DEF on
      <4> QED BY <4>1, <4>2
    <3>2. CASE kind = "FixedThrown"
      <4> DEFINE on == CP \notin s.set
      <4>1. FixTurnoutState(s) = [s EXCEPT !.thrown = on]
        BY <3>2 DEF FixTurnoutState
      <4>2. on \in BOOLEAN
        OBVIOUS
      <4> HIDE DEF on
      <4> QED BY <4>1, <4>2
    <3>3. CASE kind = "FixedCross"
      <4>1. FixTurnoutState(s) = [s EXCEPT !.thrown = FALSE]
        BY <3>3 DEF FixTurnoutState
      <4> QED BY <4>1
    <3>4. CASE kind = "FixedCurved"
      <4>1. FixTurnoutState(s) = [s EXCEPT !.thrown = TRUE]
        BY <3>4 DEF FixTurnoutState
      <4> QED BY <4>1
    <3> QED BY <1>3, <3>1, <3>2, <3>3, <3>4, TurnoutAssumption DEF Framed, Movable, AllKinds
  <2>7. PICK on \in BOOLEAN : FixTurnoutState(s) = [s EXCEPT !.thrown = on]
    BY <2>2
  <2> DEFINE t == [s EXCEPT !.thrown = on]
  <2>3. /\ t \in BitsType /\ t.set = s.set
        /\ t.pending = s.pending /\ t.busy = s.busy /\ t.any = s.any
        /\ t.asked = s.asked /\ t.success = s.success /\ t.failure = s.failure
        /\ t.try = s.try /\ t.granted = s.granted /\ t.refused = s.refused
    BY <1>1 DEF BitsType
  <2> HIDE DEF t
  <2>4. Alone(t)
    BY <2>3 DEF GoodBits, Alone
  <2>5. AtDoor(t)
    BY <2>3 DEF GoodBits, AtDoor, Door, Passed, ComesFrom, GoesTo
  <2>6. GoodBits(t)
    BY <2>1, <2>3, <2>4, <2>5 DEF GoodBits, Steered
  <2> QED BY <2>7, <2>6 DEF t
<1> QED BY <1>2, <1>3

LEMMA ProxiesKeep ==
  ASSUME NEW s, GoodBits(s) PROVE GoodBits(ProxyDetectors(s))
<1> DEFINE E == {r \in Routes \cup {PC, PT} : r.from \in Points}
           seq == IF kind \in {"FixedClosed", "FixedThrown"} THEN <<PC, PT>> ELSE Directions
<1>1. \A t, e : GoodBits(t) /\ e \in E => GoodBits(ProxyDetector(t, e))
  BY ProxyKeeps
<1>2. seq \in Seq(E)
  <2>1. CASE kind \in {"FixedClosed", "FixedThrown"}
    <3>1. PC.from = "points" /\ PT.from = "points"
      BY DEF PC, PT, Route
    <3>2. Directions[3] \in {PC, PT} /\ 3 \in DOMAIN Directions
      BY <2>1 DEF Directions
    <3>3. "points" \in Points
      BY <3>1, <3>2, RoutesTyped DEF Routes
    <3> QED BY <2>1, <3>1, <3>3
  <2>2. CASE kind \notin {"FixedClosed", "FixedThrown"}
    <3>1. Routes \subseteq E
      BY RoutesTyped
    <3> QED BY <2>2, <3>1, RoutesTyped
  <2> QED BY <2>1, <2>2
<1>3. ProxyDetectors(s) = FoldLeft(ProxyDetector, s, seq)
  BY DEF ProxyDetectors
<1> HIDE DEF seq, E
<1>4. GoodBits(FoldLeft(ProxyDetector, s, seq))
  BY <1>1, <1>2, ProxyFold!FoldKeeps DEF FoldLeft, MapThenFoldSet, Max,
     ProxyFold!FoldLeft, ProxyFold!MapThenFoldSet, ProxyFold!Max
<1> QED BY <1>3, <1>4

LEMMA RoutedKeeps ==
  ASSUME Framed, GoodBits(bits)
  PROVE  GoodBits(FoldLeft(SimulateRoute, ProxyDetectors(
                    FoldLeft(SimulateOccupancy, FixTurnoutState(bits), Directions)), Directions))
<1> DEFINE a == FixTurnoutState(bits)
           b == FoldLeft(SimulateOccupancy, a, Directions)
           c == ProxyDetectors(b)
           d == FoldLeft(SimulateRoute, c, Directions)
<1>1. Directions \in Seq(Routes)
  BY RoutesTyped
<1>2. GoodBits(a)
  BY FixKeeps
<1>3. \A s, r : GoodBits(s) /\ r \in Routes => GoodBits(SimulateOccupancy(s, r))
  BY OccupancyKeeps
<1> HIDE DEF a
<1>4. GoodBits(b)
  BY <1>1, <1>2, <1>3, OccupancyFold!FoldKeeps DEF FoldLeft, MapThenFoldSet, Max,
     OccupancyFold!FoldLeft, OccupancyFold!MapThenFoldSet, OccupancyFold!Max
<1> HIDE DEF b
<1>5. GoodBits(c)
  BY <1>4, ProxiesKeep
<1> HIDE DEF c
<1>6. \A s, r : GoodBits(s) /\ r \in Routes => GoodBits(SimulateRoute(s, r))
  BY RequestKeeps, FeedbackKeeps DEF SimulateRoute
<1>7. GoodBits(d)
  BY <1>1, <1>5, <1>6, RouteFold!FoldKeeps DEF FoldLeft, MapThenFoldSet, Max,
     RouteFold!FoldLeft, RouteFold!MapThenFoldSet, RouteFold!Max
<1> QED BY <1>7 DEF a, b, c, d

(* The end of the body: the conflict bit and the points are brought up to  *)
(* date.                                                                   *)
LEMMA PopulateKeeps ==
  ASSUME NEW s, GoodBits(s)
  PROVE  LET t == PopulateAnyRouteSet(s)
         IN  /\ t \in BitsType /\ Alone(t) /\ AtDoor(t) /\ (t.any <=> t.set # {})
             /\ t.set = s.set /\ t.pending = s.pending /\ t.thrown = s.thrown
             /\ t.any => s.any
<1> DEFINE t == PopulateAnyRouteSet(s)
<1>1. s \in BitsType
  BY DEF GoodBits
<1>2. /\ t.any = (s.set # {}) /\ t.set = s.set
      /\ t.pending = s.pending /\ t.busy = s.busy /\ t.thrown = s.thrown
      /\ t.asked = s.asked /\ t.success = s.success /\ t.failure = s.failure
      /\ t.try = s.try /\ t.granted = s.granted /\ t.refused = s.refused
  BY <1>1 DEF PopulateAnyRouteSet, BitsType
<1>3. t \in BitsType
  BY <1>1 DEF PopulateAnyRouteSet, BitsType
<1> HIDE DEF t
<1>4. Alone(t)
  BY <1>2 DEF GoodBits, Alone
<1>5. AtDoor(t)
  BY <1>2 DEF GoodBits, AtDoor, Door, Passed, ComesFrom, GoesTo
<1>6. t.any => s.any
  BY <1>2 DEF GoodBits, Alone
<1> QED BY <1>2, <1>3, <1>4, <1>5, <1>6 DEF t

LEMMA BodyKeeps ==
  ASSUME Framed, GoodBits(bits)
  PROVE  GoodBits(TurnoutBody(bits)) /\ (TurnoutBody(bits).any <=> TurnoutBody(bits).set # {})
<1> DEFINE d == FoldLeft(SimulateRoute, ProxyDetectors(
                   FoldLeft(SimulateOccupancy, FixTurnoutState(bits), Directions)), Directions)
           e == PopulateAnyRouteSet(d)
           f == CopyState(e)
           g == CopyLocked(f)
<1>1. GoodBits(d)
  BY RoutedKeeps
<1>2. TurnoutBody(bits) = g
  BY DEF TurnoutBody
<1> HIDE DEF d
<1>3. /\ e \in BitsType /\ Alone(e) /\ AtDoor(e) /\ (e.any <=> e.set # {})
      /\ e.set = d.set /\ e.pending = d.pending /\ e.thrown = d.thrown
  BY <1>1, PopulateKeeps
<1> HIDE DEF e
<1>11. \E on \in BOOLEAN : f = [e EXCEPT !.thrown = on]
  <2>1. e.thrown \in BOOLEAN /\ e = [e EXCEPT !.thrown = e.thrown]
    BY <1>3 DEF BitsType
  <2>2. CASE kind = "MovableTurnout"
    <3> DEFINE on == IF CP \in e.set THEN FALSE ELSE IF TP \in e.set THEN TRUE
                     ELSE TurnoutMagnet \in mag.current
    <3>1. f = [e EXCEPT !.thrown = on]
      BY <2>2 DEF CopyState
    <3>2. on \in BOOLEAN
      <4>1. CASE CP \in e.set
        BY <4>1
      <4>2. CASE CP \notin e.set /\ TP \in e.set
        BY <4>2
      <4>3. CASE CP \notin e.set /\ TP \notin e.set
        <5>1. on = Thrown
          BY <4>3 DEF Thrown
        <5>2. Thrown \in BOOLEAN
          BY DEF Thrown
        <5> HIDE DEF on
        <5> QED BY <5>1, <5>2
      <4> QED BY <4>1, <4>2, <4>3
    <3> HIDE DEF on
    <3> QED BY <3>1, <3>2
  <2>3. CASE kind = "MovableDKW" /\ ~e.any
    <3>1. f = [e EXCEPT !.thrown = Thrown]
      BY <2>3 DEF CopyState, Thrown
    <3>2. Thrown \in BOOLEAN
      BY DEF Thrown
    <3> QED BY <3>1, <3>2
  <2>4. CASE kind # "MovableTurnout" /\ ~(kind = "MovableDKW" /\ ~e.any)
    <3>1. f = e
      BY <2>4 DEF CopyState
    <3> QED BY <2>1, <3>1
  <2> QED BY <2>2, <2>3, <2>4
<1>12. f \in BitsType
  BY <1>3, <1>11 DEF BitsType
<1>4. PICK on \in BOOLEAN, l \in BOOLEAN : g = [e EXCEPT !.thrown = on, !.locked = l]
  <2>1. PICK on \in BOOLEAN : f = [e EXCEPT !.thrown = on]
    BY <1>11
  <2>2. f.any \in BOOLEAN /\ f.locked \in BOOLEAN /\ f = [f EXCEPT !.locked = f.locked]
    BY <1>3, <2>1 DEF BitsType
  <2>3. \E l \in BOOLEAN : g = [f EXCEPT !.locked = l]
    BY <2>2 DEF CopyLocked
  <2> HIDE DEF f, g
  <2> QED BY <1>3, <2>1, <2>3 DEF BitsType
<1>5. /\ g \in BitsType /\ g.thrown = on /\ g.set = e.set /\ g.any = e.any
      /\ g.pending = e.pending /\ g.busy = e.busy
      /\ g.asked = e.asked /\ g.success = e.success /\ g.failure = e.failure
      /\ g.try = e.try /\ g.granted = e.granted /\ g.refused = e.refused
  BY <1>3, <1>4 DEF BitsType
<1>6. g.thrown = f.thrown
  <2> HIDE DEF f
  <2> QED BY <1>12 DEF CopyLocked, BitsType
<1>7. ASSUME Movable
      PROVE  /\ e.set = {} => g.thrown = Thrown
             /\ \/ g.thrown = Thrown
                \/ CP \in e.set \/ TP \in e.set
                \/ e.any /\ g.thrown = e.thrown
  <2>1. CASE kind = "MovableTurnout"
    <3>1. f = [e EXCEPT !.thrown = IF CP \in e.set THEN FALSE
                                   ELSE IF TP \in e.set THEN TRUE ELSE Thrown]
      BY <2>1 DEF CopyState, Thrown
    <3>2. f.thrown = IF CP \in e.set THEN FALSE ELSE IF TP \in e.set THEN TRUE ELSE Thrown
      BY <1>3, <3>1 DEF BitsType
    <3> QED BY <1>6, <3>2
  <2>2. CASE kind = "MovableDKW"
    <3>1. f = IF ~e.any THEN [e EXCEPT !.thrown = Thrown] ELSE e
      BY <2>2 DEF CopyState, Thrown
    <3>2. f.thrown = IF ~e.any THEN Thrown ELSE e.thrown
      BY <1>3, <3>1 DEF BitsType
    <3> QED BY <1>3, <1>6, <3>2
  <2> QED BY <1>7, <2>1, <2>2 DEF Movable
<1> HIDE DEF f, g
<1>8. Alone(g)
  BY <1>3, <1>5 DEF Alone
<1>9. AtDoor(g)
  BY <1>3, <1>5 DEF AtDoor, Door, Passed, ComesFrom, GoesTo
<1>10. Steered(g)
  <2>1. SUFFICES ASSUME strict PROVE Steered(g)
    BY DEF Steered
  <2>2. Movable
    BY <2>1 DEF Framed
  <2>3. /\ waiting # {} \/ d.set # {} => AtRest
        /\ \A r \in d.pending : Leads(Thrown, r)
        /\ \A r \in d.set : Leads(Thrown, r) /\ Leads(d.thrown, r)
    BY <1>1, <2>1 DEF GoodBits, Steered
  <2>4. ~g.any => g.thrown = Thrown
    BY <1>3, <1>5, <1>7, <2>2
  <2>5. ASSUME NEW r \in g.set PROVE Leads(g.thrown, r)
    <3>1. Leads(Thrown, r) /\ Leads(e.thrown, r) /\ (\A q \in e.set : q = r)
      BY <1>3, <1>5, <2>3, <2>5 DEF Alone
    <3>2. CP.when = "any" /\ TP.when = "any"
      BY DEF CP, TP, Route
    <3>3. CASE CP \in e.set \/ TP \in e.set
      BY <3>1, <3>2, <3>3 DEF Leads
    <3>4. CASE g.thrown = Thrown \/ g.thrown = e.thrown
      BY <3>1, <3>4
    <3> QED BY <1>7, <2>2, <3>3, <3>4
  <2> QED BY <1>3, <1>5, <2>3, <2>4, <2>5 DEF Steered
<1> QED BY <1>2, <1>3, <1>5, <1>8, <1>9, <1>10 DEF GoodBits

-----------------------------------------------------------------------------
(* The actions.  The kind of a piece, and with it its points and routes,   *)
(* never changes.                                                          *)
LEMMA SamePiece ==
  ASSUME kind' = kind
  PROVE  /\ Points' = Points /\ Routes' = Routes /\ Directions' = Directions
         /\ Movable' = Movable /\ BitsType' = BitsType
<1>1. Directions' = Directions
  BY DEF Directions
<1>2. Routes' = Routes
  BY <1>1 DEF Routes
<1>3. Points' = Points
  BY <1>2 DEF Points
<1>4. Movable' = Movable
  BY DEF Movable
<1>5. BitsType' = BitsType
  BY <1>2, <1>3 DEF BitsType
<1> QED BY <1>1, <1>2, <1>3, <1>4, <1>5

LEMMA RunKeeps ==
  ASSUME TurnoutIInv, RunTurnout PROVE TurnoutIInv'
<1> DEFINE b == TurnoutBody(bits)
<1>1. Framed /\ GoodBits(b) /\ (b.any <=> b.set # {})
  BY BodyKeeps DEF TurnoutIInv
<1>2. /\ bits' = b /\ kind' = kind /\ strict' = strict /\ waiting' = waiting
      /\ detector' = detector /\ mag' = mag
  BY DEF RunTurnout
<1> HIDE DEF b
<1>3. Framed'
  BY <1>1, <1>2, SamePiece DEF Framed, MagnetType
<1>4. Thrown' = Thrown /\ AtRest' = AtRest
  BY <1>2 DEF Thrown, AtRest, Settled, RemoteValue
<1>5. bits' \in BitsType' /\ Alone(bits)'
  BY <1>1, <1>2, SamePiece DEF GoodBits, Alone
<1>6. AtDoor(bits)'
  BY <1>1, <1>2, SamePiece DEF GoodBits, AtDoor, Door, Passed, ComesFrom, GoesTo
<1>7. Steered(bits)'
  BY <1>1, <1>2, <1>4 DEF GoodBits, Steered, Leads
<1> QED BY <1>1, <1>2, <1>3, <1>5, <1>6, <1>7 DEF TurnoutIInv, GoodBits

(* An action that leaves the magnets and the piece's bits alone.           *)
LEMMA SameKeeps ==
  ASSUME TurnoutIInv, UNCHANGED <<kind, strict, bits, waiting, mag>>, detector' \subseteq Points
  PROVE  TurnoutIInv'
<1>3. Framed'
  BY SamePiece DEF TurnoutIInv, Framed, MagnetType
<1>4. Thrown' = Thrown /\ AtRest' = AtRest
  BY DEF Thrown, AtRest, Settled, RemoteValue
<1>5. bits' \in BitsType' /\ Alone(bits)' /\ (bits'.any <=> bits'.set # {})
  BY SamePiece DEF TurnoutIInv, GoodBits, Alone
<1>6. AtDoor(bits)'
  BY SamePiece DEF TurnoutIInv, GoodBits, AtDoor, Door, Passed, ComesFrom, GoesTo
<1>7. Steered(bits)'
  BY <1>4 DEF TurnoutIInv, GoodBits, Steered, Leads
<1> QED BY <1>3, <1>5, <1>6, <1>7 DEF TurnoutIInv, GoodBits

LEMMA DetectKeeps ==
  ASSUME TurnoutIInv, NEW p \in Asking \cap Points, Detect(p) PROVE TurnoutIInv'
<1>1. detector' \subseteq Points
  BY DEF Detect, Put, TurnoutIInv, Framed
<1> QED BY <1>1, SameKeeps DEF Detect

LEMMA AsksKeeps ==
  ASSUME TurnoutIInv, NEW p \in Asking \cap Points, NeighbourAsks(p) PROVE TurnoutIInv'
<1>1. /\ kind' = kind /\ strict' = strict /\ detector' = detector /\ mag' = mag
      /\ waiting' = waiting \cup {p} /\ p \notin waiting
      /\ bits \in BitsType
  BY DEF NeighbourAsks, TurnoutIInv, GoodBits
<1>2. /\ bits'.asked = bits.asked \cup {p} /\ bits'.success = bits.success \ {p}
      /\ bits'.failure = bits.failure \ {p}
      /\ bits'.busy = bits.busy /\ bits'.pending = bits.pending /\ bits'.try = bits.try
      /\ bits'.granted = bits.granted /\ bits'.refused = bits.refused
      /\ bits'.set = bits.set /\ bits'.any = bits.any /\ bits'.thrown = bits.thrown
  BY <1>1 DEF NeighbourAsks, BitsType
<1>3. bits' \in BitsType'
  <2>1. /\ bits.asked \cup {p} \in SUBSET Points /\ bits.success \ {p} \in SUBSET Points
        /\ bits.failure \ {p} \in SUBSET Points
    BY <1>1 DEF BitsType
  <2>2. bits' \in BitsType
    BY <1>1, <2>1 DEF NeighbourAsks, BitsType
  <2> QED BY <1>1, <2>2, SamePiece
<1>4. Framed'
  BY <1>1, SamePiece DEF TurnoutIInv, Framed, MagnetType
<1>5. Thrown' = Thrown /\ AtRest' = AtRest
  BY <1>1 DEF Thrown, AtRest, Settled, RemoteValue
<1>6. Alone(bits)' /\ (bits'.any <=> bits'.set # {})
  BY <1>2 DEF TurnoutIInv, GoodBits, Alone
<1>7. ASSUME NEW q \in Points PROVE Door(bits, q)'
  <2>1. Door(bits, q) /\ (ComesFrom(bits, q)' <=> ComesFrom(bits, q))
    BY <1>2 DEF TurnoutIInv, GoodBits, AtDoor, ComesFrom
  <2>2. CASE q = p
    BY <1>1, <1>2, <2>1, <2>2 DEF Door
  <2>3. CASE q # p
    BY <1>1, <1>2, <2>1, <2>3 DEF Door
  <2> QED BY <2>2, <2>3
<1>8. ASSUME NEW q \in Points PROVE Passed(bits, q)'
  BY <1>2 DEF TurnoutIInv, GoodBits, AtDoor, Passed, GoesTo
<1>9. AtDoor(bits)'
  BY <1>1, <1>7, <1>8, SamePiece DEF AtDoor
<1>10. Steered(bits)'
  <2>1. SUFFICES ASSUME strict PROVE Steered(bits)'
    BY <1>1 DEF Steered
  <2>2. AtRest /\ bits.thrown = Thrown
    BY <2>1 DEF NeighbourAsks, Thrown
  <2> QED BY <1>2, <1>5, <2>1, <2>2 DEF TurnoutIInv, GoodBits, Steered, Leads
<1> QED BY <1>3, <1>4, <1>6, <1>9, <1>10 DEF TurnoutIInv, GoodBits

LEMMA LearnsKeeps ==
  ASSUME TurnoutIInv, NEW p \in Points, NeighbourLearns(p) PROVE TurnoutIInv'
<1>1. /\ kind' = kind /\ strict' = strict /\ detector' = detector /\ mag' = mag
      /\ waiting' = waiting \ {p} /\ p \in waiting /\ p \in bits.success \cup bits.failure
      /\ bits \in BitsType
  BY DEF NeighbourLearns, TurnoutIInv, GoodBits
<1>2. /\ bits'.asked = bits.asked /\ bits'.success = bits.success \ {p}
      /\ bits'.failure = bits.failure \ {p}
      /\ bits'.busy = bits.busy /\ bits'.pending = bits.pending /\ bits'.try = bits.try
      /\ bits'.granted = bits.granted /\ bits'.refused = bits.refused
      /\ bits'.set = bits.set /\ bits'.any = bits.any /\ bits'.thrown = bits.thrown
  BY <1>1 DEF NeighbourLearns, BitsType
<1>3. bits' \in BitsType'
  <2>1. bits.success \ {p} \in SUBSET Points /\ bits.failure \ {p} \in SUBSET Points
    BY <1>1 DEF BitsType
  <2>2. bits' \in BitsType
    BY <1>1, <2>1 DEF NeighbourLearns, BitsType
  <2> QED BY <1>1, <2>2, SamePiece
<1>4. Framed'
  BY <1>1, SamePiece DEF TurnoutIInv, Framed, MagnetType
<1>5. Thrown' = Thrown /\ AtRest' = AtRest
  BY <1>1 DEF Thrown, AtRest, Settled, RemoteValue
<1>6. Alone(bits)' /\ (bits'.any <=> bits'.set # {})
  BY <1>2 DEF TurnoutIInv, GoodBits, Alone
<1>7. ASSUME NEW q \in Points PROVE Door(bits, q)'
  <2>1. Door(bits, q) /\ (ComesFrom(bits, q)' <=> ComesFrom(bits, q))
    BY <1>2 DEF TurnoutIInv, GoodBits, AtDoor, ComesFrom
  <2>2. CASE q = p
    BY <1>1, <1>2, <2>1, <2>2 DEF Door
  <2>3. CASE q # p
    BY <1>1, <1>2, <2>1, <2>3 DEF Door
  <2> QED BY <2>2, <2>3
<1>8. ASSUME NEW q \in Points PROVE Passed(bits, q)'
  BY <1>2 DEF TurnoutIInv, GoodBits, AtDoor, Passed, GoesTo
<1>9. AtDoor(bits)'
  BY <1>1, <1>7, <1>8, SamePiece DEF AtDoor
<1>10. Steered(bits)'
  BY <1>1, <1>2, <1>5 DEF TurnoutIInv, GoodBits, Steered, Leads
<1> QED BY <1>3, <1>4, <1>6, <1>9, <1>10 DEF TurnoutIInv, GoodBits

LEMMA AnswersKeeps ==
  ASSUME TurnoutIInv, NEW p \in Points, NeighbourAnswers(p) PROVE TurnoutIInv'
<1>1. /\ kind' = kind /\ strict' = strict /\ detector' = detector /\ mag' = mag
      /\ waiting' = waiting /\ p \in bits.try /\ bits \in BitsType
  BY DEF NeighbourAnswers, TurnoutIInv, GoodBits
<1>2. PICK yes \in BOOLEAN : bits' = [bits EXCEPT !.try = @ \ {p}, !.granted = Put(@, p, yes),
                                                  !.refused = Put(@, p, ~yes)]
  BY DEF NeighbourAnswers
<1>3. /\ bits'.asked = bits.asked /\ bits'.success = bits.success
      /\ bits'.failure = bits.failure
      /\ bits'.busy = bits.busy /\ bits'.pending = bits.pending /\ bits'.try = bits.try \ {p}
      /\ bits'.granted = Put(bits.granted, p, yes) /\ bits'.refused = Put(bits.refused, p, ~yes)
      /\ bits'.set = bits.set /\ bits'.any = bits.any /\ bits'.thrown = bits.thrown
  BY <1>1, <1>2 DEF BitsType
<1>4. bits' \in BitsType'
  <2>1. /\ bits.try \ {p} \in SUBSET Points /\ Put(bits.granted, p, yes) \in SUBSET Points
        /\ Put(bits.refused, p, ~yes) \in SUBSET Points
    BY <1>1, PutTyped DEF BitsType
  <2>2. bits' \in BitsType
    BY <1>1, <1>2, <2>1 DEF BitsType
  <2> QED BY <1>1, <2>2, SamePiece
<1>5. Framed'
  BY <1>1, SamePiece DEF TurnoutIInv, Framed, MagnetType
<1>6. Thrown' = Thrown /\ AtRest' = AtRest
  BY <1>1 DEF Thrown, AtRest, Settled, RemoteValue
<1>7. Alone(bits)' /\ (bits'.any <=> bits'.set # {})
  BY <1>3 DEF TurnoutIInv, GoodBits, Alone
<1>8. ASSUME NEW q \in Points PROVE Door(bits, q)'
  BY <1>1, <1>3 DEF TurnoutIInv, GoodBits, AtDoor, Door, ComesFrom
<1>9. ASSUME NEW q \in Points PROVE Passed(bits, q)'
  <2>1. Passed(bits, q) /\ (GoesTo(bits, q)' <=> GoesTo(bits, q))
    BY <1>3 DEF TurnoutIInv, GoodBits, AtDoor, GoesTo
  <2>2. CASE q = p
    <3>1. /\ q \notin bits'.try
          /\ q \in bits'.granted <=> yes
          /\ q \in bits'.refused <=> ~yes
      BY <1>3, <2>2 DEF Put
    <3> QED BY <1>1, <2>1, <2>2, <3>1 DEF Passed
  <2>3. CASE q # p
    <3>1. /\ q \in bits'.try <=> q \in bits.try
          /\ q \in bits'.granted <=> q \in bits.granted
          /\ q \in bits'.refused <=> q \in bits.refused
      BY <1>3, <2>3 DEF Put
    <3> QED BY <2>1, <3>1 DEF Passed
  <2> QED BY <2>2, <2>3
<1>10. AtDoor(bits)'
  BY <1>1, <1>8, <1>9, SamePiece DEF AtDoor
<1>11. Steered(bits)'
  BY <1>1, <1>3, <1>6 DEF TurnoutIInv, GoodBits, Steered, Leads
<1> QED BY <1>4, <1>5, <1>7, <1>10, <1>11 DEF TurnoutIInv, GoodBits

(* An action that only moves the magnets keeps the invariant if it leaves  *)
(* them at rest while the discipline of TrainSchedule wants them to be.    *)
LEMMA MovesKeep ==
  ASSUME TurnoutIInv, UNCHANGED <<kind, strict, bits, waiting, detector>>, mag' \in MagnetType,
         strict /\ (waiting # {} \/ bits.set # {}) => AtRest' /\ Thrown' = Thrown
  PROVE  TurnoutIInv'
<1>1. Framed'
  BY SamePiece DEF TurnoutIInv, Framed, MagnetType
<1>2. bits' \in BitsType' /\ Alone(bits)' /\ (bits'.any <=> bits'.set # {})
  BY SamePiece DEF TurnoutIInv, GoodBits, Alone
<1>3. AtDoor(bits)'
  BY SamePiece DEF TurnoutIInv, GoodBits, AtDoor, Door, Passed, ComesFrom, GoesTo
<1>4. Steered(bits)'
  <2>1. SUFFICES ASSUME strict PROVE Steered(bits)'
    BY DEF Steered
  <2>2. CASE waiting # {} \/ bits.set # {}
    BY <2>1, <2>2 DEF TurnoutIInv, GoodBits, Steered, Leads
  <2>3. CASE waiting = {} /\ bits.set = {}
    <3>1. bits.pending = {}
      <4>1. \A r \in bits.pending : r.from \in waiting
        BY RoutesTyped DEF TurnoutIInv, GoodBits, BitsType, AtDoor, Door, ComesFrom
      <4> QED BY <2>3, <4>1
    <3> QED BY <2>3, <3>1 DEF Steered
  <2> QED BY <2>2, <2>3
<1> QED BY <1>1, <1>2, <1>3, <1>4 DEF TurnoutIInv, GoodBits

LEMMA CommandKeeps ==
  ASSUME TurnoutIInv, NEW m \in AllMagnets, Command(m) PROVE TurnoutIInv'
<1>1. mag \in MagnetType
  BY DEF TurnoutIInv, Framed
<1>2. Put(mag.command, m, m \notin mag.command) \in SUBSET AllMagnets
  BY <1>1, PutTyped DEF MagnetType
<1>3. mag' \in MagnetType
  BY <1>1, <1>2 DEF Command, CommandMagnet, MagnetType
<1>4. ~(strict /\ (waiting # {} \/ bits.set # {}))
  BY DEF Command
<1> QED BY <1>3, <1>4, MovesKeep DEF Command

LEMMA MagnetKeeps ==
  ASSUME TurnoutIInv, MagnetStep PROVE TurnoutIInv'
<1>1. mag \in MagnetType /\ UNCHANGED <<kind, strict, bits, waiting, detector>>
  BY DEF TurnoutIInv, Framed, MagnetStep
<1>2. strict /\ (waiting # {} \/ bits.set # {}) => AtRest
  BY DEF TurnoutIInv, GoodBits, Steered
<1>3. mag' \in MagnetType /\ (AtRest => /\ mag'.state = mag.state /\ mag'.command = mag.command
                                        /\ mag'.current = mag.current)
  <2>1. CASE RunMagnets
    BY <1>1, <2>1, MagnetsKeepType, MagnetsKeepStill DEF RunMagnets, Still, AtRest
  <2>2. CASE MagnetTick
    <3>1. mag.timer = 1
      BY <1>1, <2>2 DEF MagnetTick, TimerDone, MagnetType
    <3>2. mag' = [mag EXCEPT !.timer = 0]
      BY <2>2, <3>1 DEF MagnetTick
    <3> QED BY <1>1, <3>2 DEF MagnetType
  <2> QED BY <2>1, <2>2 DEF MagnetStep
<1>4. AtRest => AtRest' /\ Thrown' = Thrown
  BY <1>3 DEF AtRest, Settled, RemoteValue, Thrown
<1> QED BY <1>1, <1>2, <1>3, <1>4, MovesKeep

-----------------------------------------------------------------------------
LEMMA InitIInv ==
  ASSUME TurnoutInit PROVE TurnoutIInv
<1>1. mag \in MagnetType
  BY MagnetsAssumption DEF TurnoutInit, MagnetsInit, MagnetType, AllMagnets
<1>2. Framed
  <2>1. strict \in BOOLEAN /\ (strict => Movable)
    <3>1. CASE Movable
      BY <3>1 DEF TurnoutInit
    <3>2. CASE ~Movable
      BY <3>2 DEF TurnoutInit
    <3> QED BY <3>1, <3>2
  <2> QED BY <1>1, <2>1 DEF Framed, TurnoutInit
<1>3. /\ bits.asked = {} /\ bits.try = {} /\ bits.success = {} /\ bits.failure = {}
      /\ bits.granted = {} /\ bits.refused = {} /\ bits.set = {} /\ bits.pending = {}
      /\ bits.any = FALSE /\ waiting = {}
  BY DEF TurnoutInit
<1>4. bits \in BitsType
  <2> DEFINE on == kind \in {"FixedThrown", "FixedCurved"}
  <2>1. on \in BOOLEAN
    OBVIOUS
  <2>2. bits = [asked |-> {}, try |-> {}, success |-> {}, failure |-> {},
                granted |-> {}, refused |-> {}, set |-> {}, pending |-> {},
                busy |-> FALSE, any |-> FALSE, occ |-> FALSE, seen |-> FALSE,
                proxy |-> {}, locked |-> FALSE, thrown |-> on]
    BY DEF TurnoutInit
  <2> HIDE DEF on
  <2> QED BY <2>1, <2>2 DEF BitsType
<1>5. Alone(bits) /\ AtDoor(bits)
  BY <1>3 DEF Alone, AtDoor, Door, Passed, ComesFrom, GoesTo
<1>6. Steered(bits)
  BY <1>3 DEF Steered
<1> QED BY <1>2, <1>3, <1>4, <1>5, <1>6 DEF TurnoutIInv, GoodBits

LEMMA NextIInv ==
  ASSUME TurnoutIInv, [TurnoutNext]_turnoutVars PROVE TurnoutIInv'
<1>1. CASE RunTurnout
  BY <1>1, RunKeeps
<1>2. ASSUME NEW p \in Asking \cap Points, Detect(p) \/ NeighbourAsks(p) PROVE TurnoutIInv'
  BY <1>2, DetectKeeps, AsksKeeps
<1>3. ASSUME NEW p \in Points, NeighbourLearns(p) \/ NeighbourAnswers(p) PROVE TurnoutIInv'
  BY <1>3, LearnsKeeps, AnswersKeeps
<1>4. ASSUME NEW m \in AllMagnets, Command(m) PROVE TurnoutIInv'
  BY <1>4, CommandKeeps
<1>5. CASE MagnetStep
  BY <1>5, MagnetKeeps
<1>6. CASE UNCHANGED turnoutVars
  <2>1. detector' \subseteq Points /\ UNCHANGED <<kind, strict, bits, waiting, mag>>
    BY <1>6 DEF TurnoutIInv, Framed, turnoutVars
  <2> QED BY <2>1, SameKeeps
<1> QED BY <1>1, <1>2, <1>3, <1>4, <1>5, <1>6 DEF TurnoutNext

(* The inductive invariant of a turnout: the bits of its automaton are     *)
(* good between any two runs, whatever neighbours, trains, commands and    *)
(* magnets do.                                                             *)
THEOREM TurnoutInvariant == TurnoutSpec => []TurnoutIInv
<1>1. TurnoutInit => TurnoutIInv
  BY InitIInv
<1>2. TurnoutIInv /\ [TurnoutNext]_turnoutVars => TurnoutIInv'
  BY NextIInv
<1> QED BY <1>1, <1>2, PTL DEF TurnoutSpec

(* TurnoutBase and DKW set one route at a time over a piece of any kind,   *)
(* and any_route_set_ says whether there is one, also in between the       *)
(* releases and the grants of SimulateRoute and PopulateAnyRouteSet.       *)
THEOREM OneRouteAtATime == TurnoutSpec => []TurnoutInv
<1>1. TurnoutIInv => TurnoutInv
  <2>1. SUFFICES ASSUME TurnoutIInv PROVE TurnoutInv
    OBVIOUS
  <2>2. bits \in BitsType /\ Alone(bits) /\ (bits.any <=> bits.set # {})
    BY <2>1 DEF TurnoutIInv, GoodBits
  <2>3. TurnoutTypeOK
    <3>1. MagnetsTypeOK
      BY <2>1 DEF TurnoutIInv, Framed, MagnetsTypeOK, MagnetType
    <3>2. \A f \in {"asked", "try", "success", "failure", "granted", "refused", "proxy"} :
             bits[f] \subseteq Points
      BY <2>2 DEF BitsType
    <3>3. \A f \in {"set", "pending"} : bits[f] \subseteq Routes
      BY <2>2 DEF BitsType
    <3>4. \A f \in {"busy", "any", "occ", "seen", "locked", "thrown"} : bits[f] \in BOOLEAN
      BY <2>2 DEF BitsType
    <3> QED BY <2>1, <3>1, <3>2, <3>3, <3>4 DEF TurnoutTypeOK, TurnoutIInv, Framed
  <2>4. Cardinality(bits.set) <= 1
    <3>1. CASE bits.set = {}
      <4>1. Cardinality(bits.set) = 0
        BY <3>1, FS_EmptySet
      <4> QED BY <4>1
    <3>2. CASE bits.set # {}
      <4>1. PICK r : r \in bits.set
        BY <3>2
      <4>2. bits.set = {r}
        BY <2>2, <4>1 DEF Alone
      <4>3. Cardinality(bits.set) = 1
        BY <4>2, FS_Singleton
      <4> QED BY <4>3
    <3> QED BY <3>1, <3>2
  <2> QED BY <2>2, <2>3, <2>4 DEF TurnoutInv, OneRoute
<1> QED BY <1>1, TurnoutInvariant, PTL

LEMMA OneOfFour ==
  ASSUME NEW a \in BOOLEAN, NEW b \in BOOLEAN, NEW c \in BOOLEAN, NEW d \in BOOLEAN
  PROVE  /\ /\ a \/ b \/ c \/ d
            /\ ~(a /\ b) /\ ~(a /\ c) /\ ~(a /\ d) /\ ~(b /\ c) /\ ~(b /\ d) /\ ~(c /\ d)
            => OneOf(<<a, b, c, d>>)
         /\ ~a /\ ~b /\ ~c /\ ~d => TRUE \notin Range(<<a, b, c, d>>)
<1> DEFINE S == <<a, b, c, d>>
           T == {k \in DOMAIN S : S[k]}
<1>1. DOMAIN S = 1 .. 4 /\ S[1] = a /\ S[2] = b /\ S[3] = c /\ S[4] = d
  OBVIOUS
<1> HIDE DEF S
<1>2. ASSUME a \/ b \/ c \/ d, ~(a /\ b), ~(a /\ c), ~(a /\ d), ~(b /\ c), ~(b /\ d), ~(c /\ d)
      PROVE  OneOf(S)
  <2>0. \A k : k \in T <=> (k = 1 /\ a) \/ (k = 2 /\ b) \/ (k = 3 /\ c) \/ (k = 4 /\ d)
    BY <1>1
  <2>1. \E k : T = {k}
    <3>1. CASE a
      BY <1>2, <2>0, <3>1
    <3>2. CASE b
      BY <1>2, <2>0, <3>2
    <3>3. CASE c
      BY <1>2, <2>0, <3>3
    <3>4. CASE d
      BY <1>2, <2>0, <3>4
    <3> QED BY <1>2, <3>1, <3>2, <3>3, <3>4
  <2> QED BY <2>1, FS_Singleton DEF OneOf
<1>3. ASSUME ~a, ~b, ~c, ~d PROVE TRUE \notin Range(S)
  <2>1. \A k \in DOMAIN S : S[k] # TRUE
    <3>1. a # TRUE /\ b # TRUE /\ c # TRUE /\ d # TRUE
      BY <1>3
    <3>2. \A k \in DOMAIN S : k = 1 \/ k = 2 \/ k = 3 \/ k = 4
      BY <1>1
    <3> QED BY <1>1, <3>1, <3>2
  <2> QED BY <2>1 DEF Range
<1> QED BY <1>2, <1>3 DEF S

LEMMA OneOfThree ==
  ASSUME NEW a \in BOOLEAN, NEW b \in BOOLEAN, NEW c \in BOOLEAN
  PROVE  /\ /\ a \/ b \/ c
            /\ ~(a /\ b) /\ ~(a /\ c) /\ ~(b /\ c)
            => OneOf(<<a, b, c>>)
         /\ ~a /\ ~b /\ ~c => TRUE \notin Range(<<a, b, c>>)
<1> DEFINE S == <<a, b, c>>
           T == {k \in DOMAIN S : S[k]}
<1>1. DOMAIN S = 1 .. 3 /\ S[1] = a /\ S[2] = b /\ S[3] = c
  OBVIOUS
<1> HIDE DEF S
<1>2. ASSUME a \/ b \/ c, ~(a /\ b), ~(a /\ c), ~(b /\ c) PROVE OneOf(S)
  <2>0. \A k : k \in T <=> (k = 1 /\ a) \/ (k = 2 /\ b) \/ (k = 3 /\ c)
    BY <1>1
  <2>1. \E k : T = {k}
    <3>1. CASE a
      BY <1>2, <2>0, <3>1
    <3>2. CASE b
      BY <1>2, <2>0, <3>2
    <3>3. CASE c
      BY <1>2, <2>0, <3>3
    <3> QED BY <1>2, <3>1, <3>2, <3>3
  <2> QED BY <2>1, FS_Singleton DEF OneOf
<1>3. ASSUME ~a, ~b, ~c PROVE TRUE \notin Range(S)
  <2>1. \A k \in DOMAIN S : S[k] # TRUE
    <3>1. a # TRUE /\ b # TRUE /\ c # TRUE
      BY <1>3
    <3>2. \A k \in DOMAIN S : k = 1 \/ k = 2 \/ k = 3
      BY <1>1
    <3> QED BY <1>1, <3>1, <3>2
  <2> QED BY <2>1 DEF Range
<1> QED BY <1>2, <1>3 DEF S

(* A request to a turnout is in one place from the moment a neighbour asks *)
(* until it has learnt the answer, and so is the request it passes on,     *)
(* although the points may be moved in between and the answer comes from   *)
(* another automaton.                                                      *)
THEOREM RequestAtOnePlace == TurnoutSpec => []AskedInOnePlace
<1>1. TurnoutIInv => AskedInOnePlace
  <2>1. SUFFICES ASSUME TurnoutIInv PROVE AskedInOnePlace
    OBVIOUS
  <2>2. ASSUME NEW p \in Points
        PROVE  LET places == << p \in bits.asked, p \in bits.success, p \in bits.failure,
                                \E r \in bits.pending : r.from = p >>
               IN  IF p \in waiting THEN OneOf(places) ELSE TRUE \notin Range(places)
    <3> DEFINE a == p \in bits.asked
               b == p \in bits.success
               c == p \in bits.failure
               d == \E r \in bits.pending : r.from = p
    <3>1. /\ p \in waiting <=> a \/ b \/ c \/ d
          /\ ~(a /\ b) /\ ~(a /\ c) /\ ~(a /\ d) /\ ~(b /\ c) /\ ~(b /\ d) /\ ~(c /\ d)
      BY <2>1 DEF TurnoutIInv, GoodBits, AtDoor, Door, ComesFrom
    <3>2. a \in BOOLEAN /\ b \in BOOLEAN /\ c \in BOOLEAN /\ d \in BOOLEAN
      OBVIOUS
    <3> HIDE DEF a, b, c, d
    <3>3. IF p \in waiting THEN OneOf(<<a, b, c, d>>) ELSE TRUE \notin Range(<<a, b, c, d>>)
      BY <3>1, <3>2, OneOfFour
    <3> QED BY <3>3 DEF a, b, c, d
  <2>3. ASSUME NEW p \in Points
        PROVE  LET places == << p \in bits.try, p \in bits.granted, p \in bits.refused >>
               IN  IF \E r \in bits.pending : r.to = p THEN OneOf(places)
                   ELSE TRUE \notin Range(places)
    <3> DEFINE a == p \in bits.try
               b == p \in bits.granted
               c == p \in bits.refused
               d == \E r \in bits.pending : r.to = p
    <3>1. /\ d <=> a \/ b \/ c
          /\ ~(a /\ b) /\ ~(a /\ c) /\ ~(b /\ c)
      BY <2>1 DEF TurnoutIInv, GoodBits, AtDoor, Passed, GoesTo
    <3>2. a \in BOOLEAN /\ b \in BOOLEAN /\ c \in BOOLEAN
      OBVIOUS
    <3> HIDE DEF a, b, c, d
    <3>3. IF d THEN OneOf(<<a, b, c>>) ELSE TRUE \notin Range(<<a, b, c>>)
      BY <3>1, <3>2, OneOfThree
    <3> QED BY <3>3 DEF a, b, c, d
  <2> QED BY <2>2, <2>3 DEF AskedInOnePlace
<1> QED BY <1>1, TurnoutInvariant, PTL

(* When the points are only moved as TrainSchedule moves them, every route *)
(* that is set leads where both the piece's own state and the magnet on    *)
(* the layout stand, although the request, the command and the pull of the *)
(* magnet are steps of three automata.                                     *)
THEOREM RoutesLeadRight == TurnoutSpec => []RouteMatchesPoints
<1>1. TurnoutIInv => RouteMatchesPoints
  BY DEF TurnoutIInv, GoodBits, Steered, Thrown, RouteMatchesPoints
<1> QED BY <1>1, TurnoutInvariant, PTL
=============================================================================
