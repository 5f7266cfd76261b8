------------------------- MODULE RouteSettingProofs -------------------------
(***************************************************************************)
(* Proofs about RouteSetting, for a line of any length and any pieces.     *)
(*                                                                         *)
(* Two requests that meet from opposite sides of a piece are kept apart by *)
(* its tmp_route_setting_in_progress lock alone, whatever the neighbours   *)
(* do: a piece with a pending request holds the lock, so it takes no other *)
(* one, and has no route of either direction set, so the one it sets when  *)
(* the answer comes is alone.                                              *)
(***************************************************************************)
EXTENDS RouteSetting, FiniteSetTheorems, WellFoundedInduction, TLAPS

Track == Pieces \ Signals

Typed(s) ==
    s \in [try : SUBSET Ports, success : SUBSET Ports,
           failure : SUBSET Ports, set : SUBSET PiecePorts,
           pending : SUBSET PiecePorts, busy : SUBSET Pieces,
           occ : SUBSET Pieces, seen : SUBSET Pieces,
           shadow : SUBSET Pieces, signal : SUBSET Signals,
           green : SUBSET Signals]

(* The lock of a piece at work: one request, and no route while it lasts.  *)
Locked(s, i) ==
    /\ \A d \in Directions : <<i, d>> \in s.pending =>
         /\ i \in s.busy
         /\ <<i, Opposite(d)>> \notin s.pending
         /\ <<i, d>> \notin s.set
         /\ <<i, Opposite(d)>> \notin s.set
    /\ \A d \in Directions : <<i, d>> \in s.set => <<i, Opposite(d)>> \notin s.set

Good(s) == Typed(s) /\ \A i \in Track : Locked(s, i)

(* What happens to a piece leaves the locks and routes of the others       *)
(* alone.                                                                  *)
SameElsewhere(s, t, i) ==
    \A k \in Pieces \ {i} :
        /\ k \in t.busy <=> k \in s.busy
        /\ \A d \in Directions :
             /\ <<k, d>> \in t.pending <=> <<k, d>> \in s.pending
             /\ <<k, d>> \in t.set <=> <<k, d>> \in s.set

(* The numbers of the pieces and of the two neighbours of the line.        *)
LEMMA Places ==
    /\ Pieces \subseteq 0..(N + 1)
    /\ PiecePorts \subseteq Ports
    /\ \A d \in Directions : /\ Opposite(d) \in Directions
                             /\ Opposite(d) # d
                             /\ Opposite(Opposite(d)) = d
                             /\ Origin(d) \in 0..(N + 1)
                             /\ Target(d) \in 0..(N + 1)
<1>1. N \in Nat
  BY RouteSettingAssumption
<1>2. Pieces \subseteq 0..(N + 1)
  BY <1>1 DEF Pieces
<1>3. PiecePorts \subseteq Ports
  BY <1>2 DEF PiecePorts, Ports
<1>4. ASSUME NEW d \in Directions
      PROVE  /\ Opposite(d) \in Directions
             /\ Opposite(d) # d
             /\ Opposite(Opposite(d)) = d
             /\ Origin(d) \in 0..(N + 1)
             /\ Target(d) \in 0..(N + 1)
  BY <1>1 DEF Directions, Opposite, Origin, Target
<1>5. QED
  BY <1>2, <1>3, <1>4

(* A part of a body that keeps to its piece is good when it keeps the type *)
(* and the lock of its own piece.                                          *)
LEMMA GoodLocally ==
    ASSUME NEW s, NEW t, NEW i \in Pieces,
           Good(s), Typed(t), SameElsewhere(s, t, i),
           i \in Track => Locked(t, i)
    PROVE  Good(t)
<1> SUFFICES ASSUME NEW k \in Track PROVE Locked(t, k)
  BY DEF Good
<1>1. CASE k = i
  BY <1>1
<1>2. CASE k # i
  <2>1. k \in Pieces \ {i} /\ Locked(s, k)
    BY <1>2 DEF Track, Good
  <2>2. QED
    BY <2>1, Places DEF SameElsewhere, Locked
<1>3. QED
  BY <1>1, <1>2

(***************************************************************************)
(* Occupancy only takes routes away.                                       *)
(***************************************************************************)
LEMMA FewerRoutes ==
    ASSUME NEW s, NEW t, Good(s), Typed(t),
           t.pending = s.pending, t.busy = s.busy, t.set \subseteq s.set
    PROVE  Good(t)
BY DEF Good, Locked

LEMMA SwitchTyped ==
    ASSUME NEW U, NEW S \in SUBSET U, NEW x \in U, NEW on
    PROVE  Switch(S, x, on) \in SUBSET U
BY DEF Switch

LEMMA ReleaseGood ==
    ASSUME NEW s, Good(s), NEW i \in Pieces, NEW d \in Directions
    PROVE  Good(Release(s, i, d))
<1>1. Typed(Release(s, i, d))
  BY DEF Good, Typed, Release
<1>2. QED
  BY <1>1, FewerRoutes DEF Release, Good, Typed

LEMMA SimulateOccupancyGood ==
    ASSUME NEW s, Good(s), NEW i \in Pieces, NEW d \in Directions
    PROVE  Good(SimulateOccupancy(s, i, d))
<1>1. ASSUME NEW r, Good(r) PROVE Good(TrainEnters(r, i, d))
  <2> DEFINE far == FarDetector(Along(i, d), d)
             shadow == IF far = 0 THEN r.shadow
                       ELSE Switch(r.shadow, i, far \in detector)
             t == [r EXCEPT !.occ = @ \cup {i}, !.seen = @ \ {i},
                            !.shadow = shadow]
  <2>1. shadow \in SUBSET Pieces
    BY <1>1, SwitchTyped DEF Good, Typed
  <2>2. Typed(t)
    <3> HIDE DEF shadow
    <3> QED BY <1>1, <2>1 DEF Good, Typed
  <2>3. t.pending = r.pending /\ t.busy = r.busy /\ t.set = r.set
    <3> HIDE DEF shadow
    <3> QED BY <1>1 DEF Good, Typed
  <2>4. Good(t)
    <3> HIDE DEF t
    <3> QED BY <1>1, <2>2, <2>3, FewerRoutes
  <2>5. TrainEnters(r, i, d) = t \/ TrainEnters(r, i, d) = r
    BY <1>1 DEF TrainEnters, Good, Typed
  <2>6. QED
    BY <1>1, <2>4, <2>5
<1>2. ASSUME NEW r, Good(r) PROVE Good(ResetOccupancy(r, i))
  <2> DEFINE t == [r EXCEPT !.seen = @ \ {i}, !.shadow = @ \ {i}]
  <2>1. Typed(t)
    BY <1>2 DEF Good, Typed
  <2>2. Good(t)
    BY <1>2, <2>1, FewerRoutes DEF Good, Typed
  <2>3. QED
    BY <1>2, <2>2 DEF ResetOccupancy
<1>3. ASSUME NEW r, Good(r) PROVE Good(TrainSeenFar(r, i, d))
  <2> DEFINE q == Release(r, i, d)
             t == [q EXCEPT !.shadow = @ \cup {i}]
  <2>1. Good(q)
    BY <1>3, ReleaseGood
  <2>2. Good(t)
    <3> HIDE DEF q
    <3>1. Typed(t)
      BY <2>1 DEF Good, Typed
    <3>2. QED
      BY <2>1, <3>1, FewerRoutes DEF Good, Typed
  <2>3. QED
    BY <1>3, <2>2 DEF TrainSeenFar
<1>4. ASSUME NEW r, Good(r) PROVE Good(TrainSeenNext(r, i, d))
  <2> DEFINE t == [r EXCEPT !.seen = @ \cup {i}]
  <2>1. Typed(t)
    BY <1>4 DEF Good, Typed
  <2>2. Good(t)
    BY <1>4, <2>1, FewerRoutes DEF Good, Typed
  <2>3. QED
    BY <1>4, <2>2, ReleaseGood DEF TrainSeenNext
<1>5. QED
  BY <1>1, <1>2, <1>3, <1>4 DEF SimulateOccupancy

LEMMA SimulateAllOccupancyGood ==
    ASSUME NEW s, Good(s), NEW i \in Pieces
    PROVE  Good(SimulateAllOccupancy(s, i))
<1> DEFINE a == IF Kind[i] = "rsignal" THEN "ba" ELSE "ab"
<1>1. a \in Directions /\ Opposite(a) \in Directions
  BY DEF Directions, Opposite
<1>2. Good(SimulateOccupancy(SimulateOccupancy(s, i, a), i, Opposite(a)))
  <2> HIDE DEF a
  <2> QED BY <1>1, SimulateOccupancyGood
<1>3. QED
  BY <1>2 DEF SimulateAllOccupancy

LEMMA FollowDetectorGood ==
    ASSUME NEW s, Good(s), NEW i \in Pieces, NEW k
    PROVE  Good(FollowDetector(s, i, k))
<1> DEFINE t == [s EXCEPT !.occ = @ \cup {i}]
           u == [s EXCEPT !.occ = @ \ {i}, !.set = @ \ ({i} \X Directions),
                          !.signal = @ \ {i}]
<1>1. Typed(t) /\ Typed(u)
  BY DEF Good, Typed
<1>2. Good(t)
  BY <1>1, FewerRoutes DEF Good, Typed
<1>3. Good(u)
  BY <1>1, FewerRoutes DEF Good, Typed
<1>4. QED
  BY <1>2, <1>3 DEF FollowDetector

LEMMA SignalOccupancyGood ==
    ASSUME NEW s, Good(s), NEW i \in Pieces
    PROVE  Good(SignalOccupancy(s, i))
BY FollowDetectorGood, SimulateAllOccupancyGood DEF SignalOccupancy

(***************************************************************************)
(* The handshake, when the reset button is not pressed.                    *)
(***************************************************************************)
LEMMA AnswerGood ==
    ASSUME NEW s, Good(s), NEW i \in 0..(N + 1), NEW d \in Directions, NEW ok
    PROVE  /\ Good(Answer(s, i, d, ok))
           /\ Good(AnswerNow(s, i, d, ok))
           /\ Answer(s, i, d, ok).set = s.set
           /\ Answer(s, i, d, ok).pending = s.pending
           /\ Answer(s, i, d, ok).busy = s.busy
<1> DEFINE a == Switch(s.success, <<i, d>>, ok)
           b == Switch(s.failure, <<i, d>>, ~ok)
           t == [s EXCEPT !.success = a, !.failure = b]
           u == [t EXCEPT !.try = @ \ {<<Back(i, d), d>>}]
<1>1. <<i, d>> \in Ports
  BY DEF Ports
<1>2. a \in SUBSET Ports /\ b \in SUBSET Ports
  BY <1>1, SwitchTyped DEF Good, Typed
<1> HIDE DEF a, b
<1>3. Typed(t) /\ Typed(u)
  BY <1>2 DEF Good, Typed
<1>4. /\ t.set = s.set /\ t.pending = s.pending /\ t.busy = s.busy
      /\ u.set = s.set /\ u.pending = s.pending /\ u.busy = s.busy
  BY DEF Good, Typed
<1>5. Good(t) /\ Good(u)
  <2> HIDE DEF t, u
  <2> QED BY <1>3, <1>4, FewerRoutes
<1>6. Answer(s, i, d, ok) = t /\ AnswerNow(s, i, d, ok) = u
  BY DEF Answer, AnswerNow, a, b, Good, Typed
<1>7. QED
  BY <1>4, <1>5, <1>6

LEMMA HandleRequestGood ==
    ASSUME NEW s, Good(s), NEW i \in Pieces, NEW d \in Directions
    PROVE  Good(HandleRequest(s, i, d))
<1> DEFINE t == Propagate(s, i, d)
<1>1. <<i, d>> \in Ports /\ <<i, d>> \in PiecePorts /\ i \in 0..(N + 1)
  BY Places DEF PiecePorts
<1>2. ASSUME CanPropagate(s, i, d) PROVE Good(t)
  <2>1. Typed(t)
    BY <1>1 DEF Good, Typed, Propagate
  <2>2. /\ t.busy = s.busy \cup {i}
        /\ t.pending = s.pending \cup {<<i, d>>}
        /\ t.set = s.set
    BY DEF Good, Typed, Propagate
  <2> HIDE DEF t
  <2>3. SameElsewhere(s, t, i)
    BY <2>2 DEF SameElsewhere
  <2>4. ASSUME i \in Track PROVE Locked(t, i)
    <3>1. Locked(s, i)
      BY <2>4 DEF Good
    <3>2. \A e \in Directions : e = d \/ e = Opposite(d)
      BY DEF Directions, Opposite
    <3>3. /\ i \notin s.busy
          /\ <<i, d>> \notin s.set /\ <<i, Opposite(d)>> \notin s.set
      BY <1>2 DEF CanPropagate
    <3>4. \A e \in Directions : <<i, e>> \notin s.pending /\ <<i, e>> \notin s.set
      BY <3>1, <3>2, <3>3 DEF Locked
    <3>5. QED
      BY <2>2, <3>4, Places DEF Locked
  <2>5. QED
    BY <2>1, <2>3, <2>4, GoodLocally
<1>3. Good(AnswerNow(s, i, d, FALSE))
  BY <1>1, AnswerGood
<1>4. QED
  BY <1>2, <1>3 DEF HandleRequest

LEMMA HandleFeedbackGood ==
    ASSUME NEW s, Good(s), NEW i \in Pieces, NEW d \in Directions
    PROVE  Good(HandleFeedback(s, i, d))
<1> DEFINE after == <<Along(i, d), d>>
           ok == after \notin s.failure
           q == [s EXCEPT !.success = @ \ {after}, !.failure = @ \ {after}]
           a == Answer(q, i, d, ok)
           t == [a EXCEPT !.pending = @ \ {<<i, d>>}, !.busy = @ \ {i},
                          !.set = IF ok THEN @ \cup {<<i, d>>} ELSE @]
<1> SUFFICES ASSUME <<i, d>> \in s.pending PROVE Good(t)
  BY DEF HandleFeedback
<1>1. i \in 0..(N + 1) /\ <<i, d>> \in PiecePorts
  BY Places DEF PiecePorts
<1>2. Good(q) /\ q.set = s.set /\ q.pending = s.pending /\ q.busy = s.busy
  <2>1. Typed(q)
    BY DEF Good, Typed
  <2>2. q.set = s.set /\ q.pending = s.pending /\ q.busy = s.busy
    BY DEF Good, Typed
  <2>3. QED
    BY <2>1, <2>2, FewerRoutes
<1> HIDE DEF q, ok
<1>3. Good(a) /\ a.set = s.set /\ a.pending = s.pending /\ a.busy = s.busy
  BY <1>1, <1>2, AnswerGood
<1> HIDE DEF a
<1>4. Typed(t)
  BY <1>1, <1>3 DEF Good, Typed
<1>5. /\ t.pending = s.pending \ {<<i, d>>}
      /\ t.busy = s.busy \ {i}
      /\ t.set = IF ok THEN s.set \cup {<<i, d>>} ELSE s.set
  BY <1>3 DEF Good, Typed
<1> HIDE DEF t
<1>6. SameElsewhere(s, t, i)
  BY <1>5 DEF SameElsewhere
<1>7. ASSUME i \in Track PROVE Locked(t, i)
  <2>1. Locked(s, i)
    BY <1>7 DEF Good
  <2>2. \A e \in Directions : e = d \/ e = Opposite(d)
    BY DEF Directions, Opposite
  <2>3. \A e \in Directions : <<i, e>> \notin t.pending
    BY <1>5, <2>1, <2>2 DEF Locked
  <2>4. <<i, Opposite(d)>> \notin t.set
    BY <1>5, <2>1, Places DEF Locked
  <2>5. QED
    BY <2>2, <2>3, <2>4, Places DEF Locked
<1>8. QED
  BY <1>4, <1>6, <1>7, GoodLocally

LEMMA SimulateRouteGood ==
    ASSUME ~reset, NEW s, Good(s), NEW i \in Pieces, NEW d \in Directions
    PROVE  Good(SimulateRoute(s, i, d))
BY HandleRequestGood, HandleFeedbackGood DEF SimulateRoute, ResetRoute

LEMMA TrackRoutesGood ==
    ASSUME ~reset, NEW s, Good(s), NEW i \in Pieces
    PROVE  Good(TrackRoutes(s, i))
<1>1. "ab" \in Directions /\ "ba" \in Directions
  BY DEF Directions
<1>2. QED
  BY <1>1, SimulateRouteGood DEF TrackRoutes

(* A signal has no lock to keep to: what it does is right for the others.  *)
LEMMA SignalRouteGood ==
    ASSUME ~reset, NEW s, Good(s), NEW i \in Signals
    PROVE  Good(SignalRoute(s, i))
<1>1. i \in Pieces /\ i \notin Track /\ i \in 0..(N + 1)
  BY Places DEF Signals, Track
<1> DEFINE d == Forward(i)
<1>2. d \in Directions /\ Opposite(d) \in Directions
  BY Places DEF Forward, Directions
<1> HIDE DEF d
<1>3. <<i, d>> \in Ports /\ <<i, d>> \in PiecePorts
  BY <1>1, <1>2 DEF Ports, PiecePorts
<1>4. ASSUME NEW r, Good(r) PROVE Good(AcceptAtSignal(r, i, d))
  BY <1>1, <1>2, <1>4, AnswerGood DEF AcceptAtSignal
<1>5. ASSUME NEW r, Good(r) PROVE Good(RequestRoute(r, i, d))
  <2> DEFINE t == [r EXCEPT !.try = @ \cup {<<i, d>>}, !.busy = @ \cup {i}]
  <2>1. Typed(t)
    BY <1>1, <1>3, <1>5 DEF Good, Typed
  <2>2. SameElsewhere(r, t, i)
    BY <1>5 DEF Good, Typed, SameElsewhere
  <2>3. Good(t)
    <3> HIDE DEF t
    <3> QED BY <1>1, <1>5, <2>1, <2>2, GoodLocally
  <2>4. QED
    BY <1>5, <2>3 DEF RequestRoute
<1>6. ASSUME NEW r, Good(r) PROVE Good(TakeAnswer(r, i, d))
  <2> DEFINE after == <<Along(i, d), d>>
             f == IF after \in r.success THEN r.failure ELSE r.failure \ {after}
             g == IF after \in r.success THEN r.set \cup {<<i, d>>} ELSE r.set
             t == [r EXCEPT !.busy = @ \ {i}, !.green = @ \ {i},
                     !.success = @ \ {after}, !.failure = f, !.set = g]
  <2>1. f \in SUBSET Ports /\ g \in SUBSET PiecePorts
    BY <1>3, <1>6 DEF Good, Typed
  <2>2. \A k \in Pieces \ {i}, e \in Directions : <<k, e>> \in g <=> <<k, e>> \in r.set
    OBVIOUS
  <2>3. TakeAnswer(r, i, d) = t \/ TakeAnswer(r, i, d) = r
    BY <1>6 DEF TakeAnswer, Good, Typed
  <2> HIDE DEF f, g
  <2>4. Typed(t)
    BY <1>6, <2>1 DEF Good, Typed
  <2>5. SameElsewhere(r, t, i)
    BY <1>6, <2>2 DEF Good, Typed, SameElsewhere
  <2>6. Good(t)
    <3> HIDE DEF t
    <3> QED BY <1>1, <1>6, <2>4, <2>5, GoodLocally
  <2>7. QED
    BY <1>6, <2>3, <2>6
<1>7. ASSUME NEW r, Good(r) PROVE Good(SimulateSignalFwdRoute(r, i, d))
  <2> DEFINE t == TakeAnswer(RequestRoute(AcceptAtSignal(r, i, d), i, d), i, d)
  <2>1. Good(t)
    BY <1>4, <1>5, <1>6, <1>7
  <2>2. SimulateSignalFwdRoute(r, i, d)
          = HandleFeedback(IF i \in NoStop THEN HandleRequest(t, i, d) ELSE t, i, d)
    BY DEF SimulateSignalFwdRoute, ResetRoute
  <2> HIDE DEF t
  <2>3. QED
    BY <1>1, <1>2, <2>1, <2>2, HandleRequestGood, HandleFeedbackGood
<1>8. ASSUME NEW r, Good(r), NEW on
      PROVE  Good([r EXCEPT !.signal = Switch(@, i, on)])
  <2> DEFINE sg == Switch(r.signal, i, on)
             t == [r EXCEPT !.signal = sg]
  <2>1. sg \in SUBSET Signals
    BY <1>8, SwitchTyped DEF Good, Typed
  <2> HIDE DEF sg
  <2>2. Typed(t) /\ t.pending = r.pending /\ t.busy = r.busy /\ t.set = r.set
    BY <1>8, <2>1 DEF Good, Typed
  <2>3. Good(t)
    <3> HIDE DEF t
    <3> QED BY <1>8, <2>2, FewerRoutes
  <2>4. QED
    BY <2>3 DEF sg
<1>9. DEFINE w == SimulateSignalFwdRoute(SimulateRoute(s, i, Opposite(d)), i, d)
<1>10. Good(w)
  BY <1>1, <1>2, <1>7, SimulateRouteGood
<1>11. SignalRoute(s, i)
         = [w EXCEPT !.signal = Switch(@, i, {i} \X Directions \cap w.set # {})]
  BY DEF SignalRoute, d
<1> HIDE DEF w
<1>12. QED
  BY <1>8, <1>10, <1>11

LEMMA BodyGood ==
    ASSUME ~reset, NEW s, Good(s), NEW i \in Pieces
    PROVE  Good(Body(s, i))
BY SignalOccupancyGood, SignalRouteGood, FollowDetectorGood,
   SimulateAllOccupancyGood, TrackRoutesGood
   DEF Body, DetectorOccupancy

(***************************************************************************)
(* The theorems.                                                           *)
(***************************************************************************)
IInv ==
    /\ TypeOK
    /\ ~reset
    /\ \A i \in Track : Locked(bits, i)

LEMMA InitIInv == Init => IInv
<1> SUFFICES ASSUME Init PROVE IInv
  OBVIOUS
<1>1. bits.pending = {} /\ bits.set = {}
  BY DEF Init
<1>2. \A i \in Track : Locked(bits, i)
  BY <1>1 DEF Locked
<1>3. TypeOK
  BY DEF Init, TypeOK
<1>4. QED
  BY <1>2, <1>3 DEF IInv, Init

(* Steps that write no lock and no route.                                  *)
LEMMA HandshakeOnly ==
    ASSUME IInv, Typed(bits'), reset' = reset,
           bits'.pending = bits.pending, bits'.busy = bits.busy,
           bits'.set = bits.set,
           detector' \subseteq {i \in Pieces : Kind[i] = "detector"},
           waiting' \subseteq Directions
    PROVE  IInv'
BY DEF IInv, TypeOK, Typed, Locked

LEMMA NextIInv ==
    ASSUME IInv, [Next]_vars
    PROVE  IInv'
<1>1. Good(bits) /\ Typed(bits)
  BY DEF IInv, TypeOK, Good, Typed
<1>2. ASSUME NEW i \in Pieces, RunPiece(i) PROVE IInv'
  <2>1. Good(bits')
    BY <1>1, <1>2, BodyGood DEF RunPiece, IInv
  <2>2. QED
    BY <1>2, <2>1 DEF IInv, TypeOK, Good, Typed, RunPiece
<1>3. ASSUME NEW i \in Pieces, RequestGreen(i) PROVE IInv'
  <2>1. i \in Signals
    BY <1>3, RouteSettingAssumption DEF RequestGreen, Signals
  <2>2. Typed(bits') /\ bits'.pending = bits.pending
        /\ bits'.busy = bits.busy /\ bits'.set = bits.set
    BY <1>1, <1>3, <2>1 DEF Typed, RequestGreen
  <2>3. QED
    BY <1>3, <2>2, HandshakeOnly DEF RequestGreen, IInv, TypeOK
<1>4. ASSUME NEW i \in Pieces, Detect(i) PROVE IInv'
  <2>1. i \in {k \in Pieces : Kind[k] = "detector"}
    BY <1>4, RouteSettingAssumption DEF Detect
  <2>2. detector' \subseteq {k \in Pieces : Kind[k] = "detector"}
    BY <1>4, <2>1 DEF Detect, Switch, IInv, TypeOK
  <2>3. QED
    BY <1>1, <1>4, <2>2, HandshakeOnly DEF Detect, IInv, TypeOK
<1>5. ASSUME NEW d \in Directions, EndRequests(d) PROVE IInv'
  <2>1. <<Origin(d), d>> \in Ports
    BY Places DEF Ports
  <2>2. Typed(bits') /\ bits'.pending = bits.pending
        /\ bits'.busy = bits.busy /\ bits'.set = bits.set
    BY <1>1, <1>5, <2>1 DEF Typed, EndRequests
  <2>3. QED
    BY <1>5, <2>2, HandshakeOnly DEF EndRequests, IInv, TypeOK
<1>6. ASSUME NEW d \in Directions, EndLearns(d) PROVE IInv'
  <2>1. Typed(bits') /\ bits'.pending = bits.pending
        /\ bits'.busy = bits.busy /\ bits'.set = bits.set
    BY <1>1, <1>6 DEF Typed, EndLearns
  <2>2. QED
    BY <1>6, <2>1, HandshakeOnly DEF EndLearns, IInv, TypeOK
<1>7. ASSUME NEW d \in Directions, EndAnswers(d) PROVE IInv'
  <2>1. PICK ok \in BOOLEAN : bits' = AnswerNow(bits, Target(d), d, ok)
    BY <1>7 DEF EndAnswers
  <2>2. Good(bits')
    BY <1>1, <2>1, AnswerGood, Places
  <2>3. QED
    BY <1>7, <2>2 DEF EndAnswers, IInv, TypeOK, Good, Typed
<1>8. CASE UNCHANGED vars
  BY <1>8 DEF vars, IInv, TypeOK, Locked
<1>9. QED
  BY <1>2, <1>3, <1>4, <1>5, <1>6, <1>7, <1>8 DEF Next

(* The locks of the track pieces do their work in every reachable state of *)
(* a line without a reset button.                                          *)
THEOREM LocksWork == Spec => []IInv
<1>1. IInv /\ [Next]_vars => IInv'
  BY NextIInv
<1>2. QED
  BY InitIInv, <1>1, PTL DEF Spec

(* Every bit of a line is always a bit of one of its places.               *)
THEOREM RouteTypeCorrect == Spec => []TypeOK
<1>1. IInv => TypeOK
  BY DEF IInv
<1>2. QED
  BY LocksWork, <1>1, PTL

(* On a line of any length, of any pieces, whatever the order in which the *)
(* automata run and the detectors change, no track or detector piece has   *)
(* routes of both directions set.                                          *)
THEOREM RoutesExcludeEachOther == Spec => []NoOpposingRoutes
<1>1. IInv => NoOpposingRoutes
  <2> SUFFICES ASSUME IInv, NEW i \in Track,
                      {i} \X Directions \subseteq bits.set
               PROVE  FALSE
    BY DEF NoOpposingRoutes, Track
  <2>1. <<i, "ab">> \in bits.set /\ <<i, "ba">> \in bits.set
    BY DEF Directions
  <2>2. "ab" \in Directions /\ Opposite("ab") = "ba"
    BY DEF Directions, Opposite
  <2>3. QED
    BY <2>1, <2>2 DEF IInv, Locked
<1>2. QED
  BY LocksWork, <1>1, PTL

-----------------------------------------------------------------------------
(***************************************************************************)
(* Proofs about the requests on a line of any length and any pieces: none  *)
(* is lost, duplicated or taken for another one, whatever the order in     *)
(* which the automata run.                                                 *)
(*                                                                         *)
(* The argument goes link by link.  A link joins a piece and the next one  *)
(* in a direction; it holds the request and the answer between the two.    *)
(* One run of a piece touches three links: the one a request comes from,   *)
(* the one it goes on to, and, through the lock of the piece, the one it   *)
(* asks over in the other direction.                                       *)
(*                                                                         *)
(* A signal that lets requests through and is also asked to go green takes *)
(* the answer to a request passing through for its own.  The theorems are  *)
(* about lines without such a signal (Apart).  StandardMiddleSignal, which *)
(* sets route_no_stop, keeps its request_green to itself.                  *)
(***************************************************************************)
(* Awaits, for the bits in the middle of a run.                            *)
Asks(s, i, d) ==
    \/ i = Origin(d) /\ d \in waiting
    \/ <<i, d>> \in s.pending
    \/ /\ i \in Signals \cap s.busy
       /\ d = Forward(i)
       /\ {i} \X Directions \cap s.pending = {}

(* A link holds one request or answer while its first piece waits for it,  *)
(* else none.                                                              *)
Link(s, i, d) ==
    LET next     == <<Along(i, d), d>>
        asked    == <<i, d>> \in s.try
        passedOn == next \in s.pending
        granted  == next \in s.success
        refused  == next \in s.failure
    IN  /\ Asks(s, i, d) <=> asked \/ passedOn \/ granted \/ refused
        /\ ~(asked /\ passedOn) /\ ~(asked /\ granted) /\ ~(asked /\ refused)
        /\ ~(passedOn /\ granted) /\ ~(passedOn /\ refused) /\ ~(granted /\ refused)

(* The lock of a piece, and who may let requests through.                  *)
LockOK(s, i) ==
    \A d \in Directions : <<i, d>> \in s.pending =>
        /\ i \in s.busy /\ <<i, Opposite(d)>> \notin s.pending
        /\ i \in Signals /\ d = Forward(i) => i \in NoStop

Linked(s) ==
    /\ Typed(s) /\ s.green \subseteq GreenAt
    /\ \A i \in Pieces : LockOK(s, i)
    /\ \A d \in Directions, i \in 0..(N + 1) : i # Target(d) => Link(s, i, d)

(* The bits of the handshake that a run of piece i for direction d leaves  *)
(* alone.                                                                  *)
SameBeside(s, t, i, d) ==
    /\ \A p : p \notin {<<i, d>>, <<Back(i, d), d>>} => (p \in t.try <=> p \in s.try)
    /\ \A p : p \notin {<<i, d>>, <<Along(i, d), d>>} =>
          (p \in t.success <=> p \in s.success) /\ (p \in t.failure <=> p \in s.failure)
    /\ \A p : p # <<i, d>> => (p \in t.pending <=> p \in s.pending)
    /\ \A k : k # i => (k \in t.busy <=> k \in s.busy)

-----------------------------------------------------------------------------
(* Going along the line and back.                                          *)
LEMMA Steps ==
    ASSUME NEW d \in Directions, NEW i \in Pieces
    PROVE  /\ i \in 0..(N + 1) /\ i # Target(d) /\ i # Origin(d)
           /\ i # Origin(Opposite(d)) /\ i # Target(Opposite(d))
           /\ Along(i, d) \in 0..(N + 1) /\ Along(i, d) # i
           /\ Back(i, d) \in 0..(N + 1) /\ Back(i, d) # i
           /\ Back(i, d) # Target(d) /\ Along(i, d) # Origin(d)
           /\ Along(Back(i, d), d) = i /\ Back(i, d) # Along(i, d)
           /\ \A k \in 0..(N + 1) : /\ Along(k, d) = i => k = Back(i, d)
                                    /\ Along(k, d) = Along(i, d) => k = i
<1>1. N \in Nat /\ i \in 1..N
  BY RouteSettingAssumption DEF Pieces
<1> QED
  BY <1>1 DEF Directions, Along, Back, Opposite, Target, Origin

(* The ends of the line.                                                   *)
LEMMA Ends ==
    ASSUME NEW d \in Directions
    PROVE  /\ Origin(d) \in 0..(N + 1) /\ Origin(d) \notin Pieces
           /\ Target(d) \in 0..(N + 1) /\ Target(d) \notin Pieces
           /\ Origin(d) # Target(d) /\ Origin(Opposite(d)) = Target(d)
           /\ First(d) \in Pieces /\ Last(d) \in Pieces
           /\ First(d) = Along(Origin(d), d) /\ Along(Last(d), d) = Target(d)
           /\ Back(Target(d), d) = Last(d)
           /\ \A k \in 0..(N + 1) : /\ Along(k, d) = First(d) => k = Origin(d)
                                    /\ Along(k, d) = Target(d) => k = Last(d)
<1>1. N \in Nat /\ N >= 1
  BY RouteSettingAssumption
<1> QED
  BY <1>1 DEF Directions, Along, Back, Opposite, Target, Origin, First, Last, Pieces

(* There are two directions.                                               *)
LEMMA TwoDirections ==
    ASSUME NEW d \in Directions
    PROVE  /\ \A e \in Directions : e = d \/ e = Opposite(d)
           /\ Opposite(d) \in Directions /\ Opposite(d) # d /\ Opposite(Opposite(d)) = d
  BY DEF Directions, Opposite

(* A run of a piece keeps all links when it keeps the three it touches.    *)
LEMMA LinksBeside ==
    ASSUME NEW s, NEW t, NEW i \in Pieces, NEW d \in Directions,
           Linked(s), Typed(t), t.green \subseteq GreenAt, SameBeside(s, t, i, d),
           LockOK(t, i), Link(t, i, d), Link(t, Back(i, d), d),
           Asks(t, i, Opposite(d)) <=> Asks(s, i, Opposite(d))
    PROVE  Linked(t)
<1>1. ASSUME NEW k \in Pieces PROVE LockOK(t, k)
  <2>1. CASE k = i
    BY <2>1
  <2>2. CASE k # i
    BY <2>2 DEF Linked, LockOK, SameBeside
  <2> QED BY <2>1, <2>2
<1>2. ASSUME NEW e \in Directions, NEW k \in 0..(N + 1), k # Target(e)
      PROVE  Link(t, k, e)
  <2>0. Link(s, k, e)
    BY <1>2 DEF Linked
  <2>1. ASSUME k # i
        PROVE  Asks(t, k, e) <=> Asks(s, k, e)
    <3>1. \A f \in Directions : <<k, f>> \in t.pending <=> <<k, f>> \in s.pending
      BY <2>1 DEF SameBeside
    <3>2. {k} \X Directions \cap t.pending = {k} \X Directions \cap s.pending
      BY <3>1
    <3>3. k \in t.busy <=> k \in s.busy
      BY <2>1 DEF SameBeside
    <3> QED BY <3>1, <3>2, <3>3 DEF Asks
  <2>2. CASE e = d
    <3>1. CASE k = i
      BY <2>2, <3>1
    <3>2. CASE k = Back(i, d)
      BY <2>2, <3>2
    <3>3. CASE k # i /\ k # Back(i, d)
      <4>1. Along(k, d) # i /\ Along(k, d) # Along(i, d)
        BY <3>3, Steps
      <4>2. /\ <<k, e>> \in t.try <=> <<k, e>> \in s.try
            /\ <<Along(k, e), e>> \in t.pending <=> <<Along(k, e), e>> \in s.pending
            /\ <<Along(k, e), e>> \in t.success <=> <<Along(k, e), e>> \in s.success
            /\ <<Along(k, e), e>> \in t.failure <=> <<Along(k, e), e>> \in s.failure
        BY <2>2, <3>3, <4>1 DEF SameBeside
      <4> QED BY <2>0, <2>1, <3>3, <4>2 DEF Link
    <3> QED BY <3>1, <3>2, <3>3
  <2>3. CASE e # d
    <3>1. /\ <<k, e>> \in t.try <=> <<k, e>> \in s.try
          /\ <<Along(k, e), e>> \in t.pending <=> <<Along(k, e), e>> \in s.pending
          /\ <<Along(k, e), e>> \in t.success <=> <<Along(k, e), e>> \in s.success
          /\ <<Along(k, e), e>> \in t.failure <=> <<Along(k, e), e>> \in s.failure
      BY <2>3 DEF SameBeside
    <3>2. Asks(t, k, e) <=> Asks(s, k, e)
      BY <2>1, <2>3, TwoDirections
    <3> QED BY <2>0, <3>1, <3>2 DEF Link
  <2> QED BY <2>2, <2>3
<1> QED
  BY <1>1, <1>2 DEF Linked

-----------------------------------------------------------------------------
(* Occupancy writes no bit of the handshake.                               *)
Kept(s, t) ==
    /\ Typed(t)
    /\ t.try = s.try /\ t.success = s.success /\ t.failure = s.failure
    /\ t.pending = s.pending /\ t.busy = s.busy /\ t.green = s.green

(* What writes no bit of the handshake keeps the links.                    *)
LEMMA KeptLinked ==
    ASSUME NEW s, NEW t, Linked(s), Kept(s, t)
    PROVE  Linked(t)
<1>1. \A i \in Pieces : LockOK(t, i)
  BY DEF Linked, Kept, LockOK
<1>2. \A d \in Directions, i \in 0..(N + 1) : Asks(t, i, d) <=> Asks(s, i, d)
  BY DEF Kept, Asks
<1>3. \A d \in Directions, i \in 0..(N + 1) : i # Target(d) => Link(t, i, d)
  BY <1>2 DEF Kept, Linked, Link
<1> QED
  BY <1>1, <1>3 DEF Linked, Kept

(* SimulateOccupancy writes occupancy and releases routes.                 *)
LEMMA SimulateOccupancyKept ==
    ASSUME NEW s, Typed(s), NEW i \in Pieces, NEW d \in Directions
    PROVE  Kept(s, SimulateOccupancy(s, i, d))
<1>1. ASSUME NEW r, Typed(r) PROVE Kept(r, TrainEnters(r, i, d))
  <2> DEFINE far == FarDetector(Along(i, d), d)
             shadow == IF far = 0 THEN r.shadow
                       ELSE Switch(r.shadow, i, far \in detector)
             t == [r EXCEPT !.occ = @ \cup {i}, !.seen = @ \ {i},
                            !.shadow = shadow]
  <2>1. shadow \in SUBSET Pieces
    BY <1>1, SwitchTyped DEF Typed
  <2>2. Kept(r, t)
    <3> HIDE DEF shadow
    <3> QED BY <1>1, <2>1 DEF Kept, Typed
  <2>3. TrainEnters(r, i, d) = t \/ TrainEnters(r, i, d) = r
    BY <1>1 DEF TrainEnters, Typed
  <2> HIDE DEF t
  <2> QED BY <1>1, <2>2, <2>3 DEF Kept
<1>2. ASSUME NEW r, Typed(r) PROVE Kept(r, ResetOccupancy(r, i))
  BY <1>2 DEF ResetOccupancy, Kept, Typed
<1>3. ASSUME NEW r, Typed(r) PROVE Kept(r, Release(r, i, d))
  BY <1>3 DEF Release, Kept, Typed
<1>4. ASSUME NEW r, Typed(r) PROVE Kept(r, TrainSeenFar(r, i, d))
  <2> DEFINE q == Release(r, i, d)
             t == [q EXCEPT !.shadow = @ \cup {i}]
  <2>1. Kept(r, q)
    BY <1>3, <1>4
  <2> HIDE DEF q
  <2>2. Kept(r, t)
    BY <2>1 DEF Kept, Typed
  <2>3. TrainSeenFar(r, i, d) = t \/ TrainSeenFar(r, i, d) = r
    BY <1>4 DEF TrainSeenFar, q
  <2> HIDE DEF t
  <2> QED BY <1>4, <2>2, <2>3 DEF Kept
<1>5. ASSUME NEW r, Typed(r) PROVE Kept(r, TrainSeenNext(r, i, d))
  <2> DEFINE t == [r EXCEPT !.seen = @ \cup {i}]
  <2>1. Kept(r, t) /\ Kept(r, r) /\ Kept(r, Release(r, i, d))
    BY <1>3, <1>5 DEF Kept, Typed
  <2> HIDE DEF t
  <2> QED BY <2>1 DEF TrainSeenNext, t
<1> DEFINE a == TrainEnters(s, i, d)
           b == ResetOccupancy(a, i)
           c == TrainSeenFar(b, i, d)
<1>6. Kept(s, a) /\ Kept(a, b) /\ Kept(b, c) /\ Kept(c, TrainSeenNext(c, i, d))
  <2>1. Kept(s, a) BY <1>1
  <2> HIDE DEF a
  <2>2. Kept(a, b) BY <1>2, <2>1 DEF Kept
  <2> HIDE DEF b
  <2>3. Kept(b, c) BY <1>4, <2>2 DEF Kept
  <2> HIDE DEF c
  <2>4. Kept(c, TrainSeenNext(c, i, d)) BY <1>5, <2>3 DEF Kept
  <2> QED BY <2>1, <2>2, <2>3, <2>4
<1>7. SimulateOccupancy(s, i, d) = TrainSeenNext(c, i, d)
  BY DEF SimulateOccupancy
<1> HIDE DEF a, b, c
<1> QED
  BY <1>6, <1>7 DEF Kept

(* The occupancy part of every kind of piece keeps the links.              *)
LEMMA OccupancyLinked ==
    ASSUME NEW s, Linked(s), NEW i \in Pieces
    PROVE  /\ Linked(SimulateAllOccupancy(s, i))
           /\ \A k : Linked(FollowDetector(s, i, k))
           /\ Linked(SignalOccupancy(s, i))
<1>0. Typed(s)
  BY DEF Linked
<1>1. Linked(SimulateAllOccupancy(s, i))
  <2> DEFINE a == IF Kind[i] = "rsignal" THEN "ba" ELSE "ab"
             q == SimulateOccupancy(s, i, a)
  <2>1. a \in Directions /\ Opposite(a) \in Directions
    BY DEF Directions, Opposite
  <2>2. SimulateAllOccupancy(s, i) = SimulateOccupancy(q, i, Opposite(a))
    BY DEF SimulateAllOccupancy
  <2> HIDE DEF a
  <2>3. Kept(s, q)
    BY <1>0, <2>1, SimulateOccupancyKept
  <2> HIDE DEF q
  <2>4. Kept(q, SimulateOccupancy(q, i, Opposite(a)))
    BY <2>1, <2>3, SimulateOccupancyKept DEF Kept
  <2> QED BY <2>2, <2>3, <2>4, KeptLinked
<1>2. ASSUME NEW k PROVE Linked(FollowDetector(s, i, k))
  <2> DEFINE t == [s EXCEPT !.occ = @ \cup {i}]
             u == [s EXCEPT !.occ = @ \ {i}, !.set = @ \ ({i} \X Directions),
                            !.signal = @ \ {i}]
  <2>1. Kept(s, t) /\ Kept(s, u)
    BY <1>0 DEF Kept, Typed
  <2>2. FollowDetector(s, i, k) \in {s, t, u}
    BY DEF FollowDetector
  <2> HIDE DEF t, u
  <2> QED BY <2>1, <2>2, KeptLinked
<1>3. Linked(SignalOccupancy(s, i))
  BY <1>1, <1>2 DEF SignalOccupancy
<1> QED
  BY <1>1, <1>2, <1>3

-----------------------------------------------------------------------------
(* The handshake.                                                          *)

(* A request that is answered at once, by a piece or by the neighbour at   *)
(* the end of the line: it is gone, and one answer is there.               *)
LEMMA AnswerNowEffect ==
    ASSUME NEW s, Typed(s), NEW i \in 0..(N + 1), NEW d \in Directions, NEW ok \in BOOLEAN
    PROVE  LET t == AnswerNow(s, i, d, ok)
           IN  /\ Typed(t) /\ t.green = s.green
               /\ t.pending = s.pending /\ t.busy = s.busy
               /\ t.try = s.try \ {<<Back(i, d), d>>}
               /\ t.success = Switch(s.success, <<i, d>>, ok)
               /\ t.failure = Switch(s.failure, <<i, d>>, ~ok)
<1> DEFINE a == Switch(s.success, <<i, d>>, ok)
           b == Switch(s.failure, <<i, d>>, ~ok)
<1>1. <<i, d>> \in Ports
  BY DEF Ports
<1>2. a \in SUBSET Ports /\ b \in SUBSET Ports
  BY <1>1, SwitchTyped DEF Typed
<1>3. AnswerNow(s, i, d, ok)
        = [[s EXCEPT !.success = a, !.failure = b] EXCEPT !.try = @ \ {<<Back(i, d), d>>}]
  BY DEF AnswerNow, Answer, Typed
<1> HIDE DEF a, b
<1>4. LET t == [[s EXCEPT !.success = a, !.failure = b] EXCEPT !.try = @ \ {<<Back(i, d), d>>}]
      IN  /\ Typed(t) /\ t.green = s.green
          /\ t.pending = s.pending /\ t.busy = s.busy
          /\ t.try = s.try \ {<<Back(i, d), d>>} /\ t.success = a /\ t.failure = b
  BY <1>2 DEF Typed
<1> QED
  BY <1>3, <1>4 DEF a, b

(* An answer given at once keeps the links.                                *)
LEMMA AnswerNowLinked ==
    ASSUME NEW s, Linked(s), NEW i \in Pieces, NEW d \in Directions, NEW ok \in BOOLEAN,
           <<Back(i, d), d>> \in s.try
    PROVE  Linked(AnswerNow(s, i, d, ok))
<1> DEFINE t == AnswerNow(s, i, d, ok)
<1>1. /\ Typed(t) /\ t.green = s.green
      /\ t.pending = s.pending /\ t.busy = s.busy
      /\ t.try = s.try \ {<<Back(i, d), d>>}
      /\ t.success = Switch(s.success, <<i, d>>, ok)
      /\ t.failure = Switch(s.failure, <<i, d>>, ~ok)
  BY Steps, AnswerNowEffect DEF Linked
<1> HIDE DEF t
<1>2. Link(s, i, d) /\ Link(s, Back(i, d), d) /\ LockOK(s, i)
  BY Steps DEF Linked
<1>3. SameBeside(s, t, i, d)
  BY <1>1 DEF SameBeside, Switch
<1>4. \A k, e : Asks(t, k, e) <=> Asks(s, k, e)
  BY <1>1 DEF Asks
<1>5. LockOK(t, i)
  BY <1>1, <1>2 DEF LockOK
<1>6. Link(t, i, d)
  <2>1. <<Along(i, d), d>> # <<i, d>> /\ <<i, d>> # <<Back(i, d), d>>
    BY Steps
  <2> QED BY <1>1, <1>2, <1>4, <2>1 DEF Link, Switch
<1>7. Link(t, Back(i, d), d)
  <2>1. Along(Back(i, d), d) = i
    BY Steps
  <2>2. /\ <<i, d>> \notin s.pending /\ <<i, d>> \notin s.success
        /\ <<i, d>> \notin s.failure /\ Asks(s, Back(i, d), d)
    BY <1>2, <2>1 DEF Link
  <2>3. /\ <<Back(i, d), d>> \notin t.try /\ <<i, d>> \notin t.pending
        /\ <<i, d>> \in t.success <=> ok
        /\ <<i, d>> \in t.failure <=> ~ok
    BY <1>1, <2>2 DEF Switch
  <2> QED BY <1>4, <2>1, <2>2, <2>3 DEF Link
<1> QED
  BY <1>1, <1>3, <1>4, <1>5, <1>6, <1>7, LinksBeside DEF t, Linked

(* A piece that is not busy awaits no answer.                              *)
LEMMA IdlePiece ==
    ASSUME NEW s, Linked(s), NEW i \in Pieces, i \notin s.busy, NEW d \in Directions
    PROVE  ~Asks(s, i, d) /\ {i} \X Directions \cap s.pending = {}
<1>1. \A e \in Directions : <<i, e>> \notin s.pending
  BY DEF Linked, LockOK
<1> QED
  BY <1>1, Steps DEF Asks

(* A request is passed on: the link before has it pending, the link after  *)
(* as a new request.                                                       *)
LEMMA PropagateLinked ==
    ASSUME NEW s, Linked(s), NEW i \in Pieces, NEW d \in Directions,
           <<Back(i, d), d>> \in s.try, CanPropagate(s, i, d),
           i \in Signals /\ d = Forward(i) => i \in NoStop
    PROVE  Linked(Propagate(s, i, d))
<1> DEFINE t == Propagate(s, i, d)
           after == <<Along(i, d), d>>
<1>0. /\ <<i, d>> \in Ports /\ <<i, d>> \in PiecePorts /\ i \notin s.busy
      /\ Typed(s) /\ s.green \subseteq GreenAt
  BY Places DEF PiecePorts, CanPropagate, Linked
<1>1. /\ Typed(t) /\ t.green = s.green /\ t.busy = s.busy \cup {i}
      /\ t.pending = s.pending \cup {<<i, d>>}
      /\ t.try = (s.try \ {<<Back(i, d), d>>}) \cup {<<i, d>>}
      /\ t.success = s.success \ {after} /\ t.failure = s.failure \ {after}
  BY <1>0 DEF Typed, Propagate
<1> HIDE DEF t
<1>2. Link(s, i, d) /\ Link(s, Back(i, d), d)
  BY Steps DEF Linked
<1>3. SameBeside(s, t, i, d)
  BY <1>1 DEF SameBeside
<1>4. \A e \in Directions : <<i, e>> \notin s.pending /\ ~Asks(s, i, e)
  BY <1>0, IdlePiece
<1>5. LockOK(t, i)
  BY <1>1, <1>4, TwoDirections DEF LockOK
<1>6. ~Asks(t, i, Opposite(d)) /\ ~Asks(s, i, Opposite(d))
  BY <1>1, <1>4, Steps, TwoDirections DEF Asks
<1>7. Link(t, i, d)
  <2>1. Asks(t, i, d)
    BY <1>1 DEF Asks
  <2>2. after # <<i, d>> /\ after \notin s.pending
    BY <1>2, <1>4, Steps DEF Link
  <2> QED BY <1>1, <2>1, <2>2 DEF Link
<1>8. Link(t, Back(i, d), d)
  <2>1. Along(Back(i, d), d) = i /\ Back(i, d) # i /\ after # <<i, d>>
    BY Steps
  <2>2. /\ <<i, d>> \notin s.success /\ <<i, d>> \notin s.failure
        /\ Asks(s, Back(i, d), d)
    BY <1>2, <2>1 DEF Link
  <2>3. {Back(i, d)} \X Directions \cap t.pending = {Back(i, d)} \X Directions \cap s.pending
    BY <1>1, <2>1
  <2>4. Asks(t, Back(i, d), d)
    BY <1>1, <2>1, <2>2, <2>3 DEF Asks
  <2> QED BY <1>1, <2>1, <2>2, <2>4 DEF Link
<1> QED
  BY <1>0, <1>1, <1>3, <1>5, <1>6, <1>7, <1>8, LinksBeside DEF t

(* SimulateRoute, its first half.                                          *)
LEMMA HandleRequestLinked ==
    ASSUME NEW s, Linked(s), NEW i \in Pieces, NEW d \in Directions,
           i \in Signals /\ d = Forward(i) => i \in NoStop
    PROVE  Linked(HandleRequest(s, i, d))
  BY PropagateLinked, AnswerNowLinked DEF HandleRequest

(* SimulateRoute, its second half: the answer moves from the link after to *)
(* the link before.                                                        *)
LEMMA HandleFeedbackLinked ==
    ASSUME NEW s, Linked(s), NEW i \in Pieces, NEW d \in Directions
    PROVE  Linked(HandleFeedback(s, i, d))
<1> DEFINE after == <<Along(i, d), d>>
           ok == after \notin s.failure
           a == Switch(s.success \ {after}, <<i, d>>, ok)
           b == Switch(s.failure \ {after}, <<i, d>>, ~ok)
           q == [s EXCEPT !.success = @ \ {after}, !.failure = @ \ {after}]
           r == Answer(q, i, d, ok)
           t == [r EXCEPT !.pending = @ \ {<<i, d>>}, !.busy = @ \ {i},
                          !.set = IF ok THEN @ \cup {<<i, d>>} ELSE @]
<1> SUFFICES ASSUME <<i, d>> \in s.pending, after \in s.success \cup s.failure
             PROVE  Linked(t)
  BY DEF HandleFeedback
<1>0. /\ <<i, d>> \in Ports /\ <<i, d>> \in PiecePorts
      /\ Typed(s) /\ s.green \subseteq GreenAt
  BY Places DEF PiecePorts, Linked
<1>1. a \in SUBSET Ports /\ b \in SUBSET Ports
  BY <1>0, SwitchTyped DEF Typed
<1>2. after # <<i, d>> /\ after \notin a /\ after \notin b
  BY Steps DEF Switch
<1>3. (<<i, d>> \in a <=> ok) /\ (<<i, d>> \in b <=> ~ok)
  BY DEF Switch
<1>4. \A p : p \notin {<<i, d>>, after} =>
          (p \in a <=> p \in s.success) /\ (p \in b <=> p \in s.failure)
  BY DEF Switch
<1>5. /\ Typed(t) /\ t.green = s.green /\ t.busy = s.busy \ {i}
      /\ t.pending = s.pending \ {<<i, d>>} /\ t.try = s.try
      /\ t.success = a /\ t.failure = b
  <2>1. /\ Typed(q) /\ q.green = s.green /\ q.busy = s.busy /\ q.pending = s.pending
        /\ q.try = s.try /\ q.set = s.set
        /\ q.success = s.success \ {after} /\ q.failure = s.failure \ {after}
    BY <1>0 DEF Typed
  <2> HIDE DEF q
  <2>2. r = [q EXCEPT !.success = a, !.failure = b]
    BY <2>1 DEF Answer, Typed
  <2> HIDE DEF a, b, r
  <2>3. /\ Typed(r) /\ r.green = s.green /\ r.busy = s.busy /\ r.pending = s.pending
        /\ r.try = s.try /\ r.success = a /\ r.failure = b
    BY <1>1, <2>1, <2>2 DEF Typed
  <2> HIDE DEF ok
  <2> QED BY <1>0, <2>3 DEF Typed
<1> HIDE DEF a, b, ok
<1> HIDE DEF t
<1>6. Link(s, i, d) /\ Link(s, Back(i, d), d) /\ LockOK(s, i)
  BY Steps DEF Linked
<1>7. SameBeside(s, t, i, d)
  BY <1>4, <1>5 DEF SameBeside
<1>8. <<i, Opposite(d)>> \notin s.pending /\ <<i, Opposite(d)>> \notin t.pending
  BY <1>5, <1>6 DEF LockOK
<1>9. LockOK(t, i)
  BY <1>5, <1>8, TwoDirections DEF LockOK
<1>10. ~Asks(t, i, Opposite(d)) /\ ~Asks(s, i, Opposite(d)) /\ ~Asks(t, i, d)
  <2>1. {i} \X Directions \cap s.pending # {}
    OBVIOUS
  <2> QED BY <1>5, <1>8, <2>1, Steps, TwoDirections DEF Asks
<1>11. Link(t, i, d)
  <2>1. <<i, d>> \notin s.try /\ after \notin s.pending
    BY <1>6 DEF Link
  <2> QED BY <1>2, <1>5, <1>10, <2>1 DEF Link
<1>12. Link(t, Back(i, d), d)
  <2>1. Along(Back(i, d), d) = i /\ Back(i, d) # i
    BY Steps
  <2>2. <<Back(i, d), d>> \notin s.try /\ Asks(s, Back(i, d), d)
    BY <1>6, <2>1 DEF Link
  <2>3. {Back(i, d)} \X Directions \cap t.pending = {Back(i, d)} \X Directions \cap s.pending
    BY <1>5, <2>1
  <2>4. Asks(t, Back(i, d), d)
    BY <1>5, <2>1, <2>2, <2>3 DEF Asks
  <2> QED BY <1>3, <1>5, <2>1, <2>2, <2>4 DEF Link
<1> QED
  BY <1>0, <1>5, <1>7, <1>9, <1>10, <1>11, <1>12, LinksBeside

(* The whole of SimulateRoute, when the reset button is not pressed.       *)
LEMMA SimulateRouteLinked ==
    ASSUME ~reset, NEW s, Linked(s), NEW i \in Pieces, NEW d \in Directions,
           i \in Signals /\ d = Forward(i) => i \in NoStop
    PROVE  Linked(SimulateRoute(s, i, d))
  BY HandleRequestLinked, HandleFeedbackLinked DEF SimulateRoute, ResetRoute

(* A signal ends the routes of its forward direction or refuses them.      *)
LEMMA AcceptAtSignalLinked ==
    ASSUME NEW s, Linked(s), NEW i \in Signals, NEW d \in Directions
    PROVE  Linked(AcceptAtSignal(s, i, d))
<1>1. i \in Pieces
  BY DEF Signals
<1>2. ({i} \X Directions \cap s.set = {}) \in BOOLEAN
  OBVIOUS
<1> QED
  BY <1>1, <1>2, AnswerNowLinked DEF AcceptAtSignal

(* A signal that is asked to go green makes a request of its own.          *)
LEMMA RequestRouteLinked ==
    ASSUME NEW s, Linked(s), NEW i \in Signals
    PROVE  Linked(RequestRoute(s, i, Forward(i)))
<1> DEFINE d == Forward(i)
           t == [s EXCEPT !.try = @ \cup {<<i, d>>}, !.busy = @ \cup {i}]
<1>0. i \in Pieces /\ d \in Directions /\ Typed(s) /\ s.green \subseteq GreenAt
  BY DEF Signals, Forward, Directions, Linked
<1> SUFFICES ASSUME i \notin s.busy PROVE Linked(t)
  BY DEF RequestRoute
<1> HIDE DEF d
<1>1. <<i, d>> \in Ports
  BY <1>0, Places DEF Ports
<1>2. /\ Typed(t) /\ t.green = s.green /\ t.busy = s.busy \cup {i}
      /\ t.try = s.try \cup {<<i, d>>}
      /\ t.pending = s.pending /\ t.success = s.success /\ t.failure = s.failure
  BY <1>0, <1>1 DEF Typed
<1> HIDE DEF t
<1>3. Link(s, i, d) /\ Link(s, Back(i, d), d) /\ LockOK(s, i)
  BY <1>0, Steps DEF Linked
<1>4. SameBeside(s, t, i, d)
  BY <1>2 DEF SameBeside
<1>5. \A e \in Directions : <<i, e>> \notin s.pending /\ ~Asks(s, i, e)
  BY <1>0, IdlePiece
<1>6. LockOK(t, i)
  BY <1>2, <1>5 DEF LockOK
<1>7. ~Asks(t, i, Opposite(d)) /\ ~Asks(s, i, Opposite(d)) /\ Asks(t, i, d)
  BY <1>0, <1>2, <1>5, Steps, TwoDirections DEF Asks, d
<1>8. Link(t, i, d)
  BY <1>0, <1>2, <1>3, <1>5, <1>7 DEF Link
<1>9. Link(t, Back(i, d), d)
  <2>1. Back(i, d) # i
    BY <1>0, Steps
  <2>2. Asks(t, Back(i, d), d) <=> Asks(s, Back(i, d), d)
    BY <1>2, <2>1 DEF Asks
  <2> QED BY <1>2, <1>3, <2>1, <2>2 DEF Link
<1> QED
  BY <1>0, <1>2, <1>4, <1>6, <1>7, <1>8, <1>9, LinksBeside

(* A signal takes the answer to its own request.                           *)
LEMMA TakeAnswerLinked ==
    ASSUME Apart, NEW s, Linked(s), NEW i \in Signals
    PROVE  Linked(TakeAnswer(s, i, Forward(i)))
<1> DEFINE d == Forward(i)
           after == <<Along(i, d), d>>
           f == IF after \in s.success THEN s.failure ELSE s.failure \ {after}
           g == IF after \in s.success THEN s.set \cup {<<i, d>>} ELSE s.set
           t == [s EXCEPT !.busy = @ \ {i}, !.green = @ \ {i},
                   !.success = @ \ {after}, !.failure = f, !.set = g]
<1>0. i \in Pieces /\ d \in Directions /\ Typed(s) /\ s.green \subseteq GreenAt
  BY DEF Signals, Forward, Directions, Linked
<1> SUFFICES ASSUME i \in s.green, after \in s.success \cup s.failure PROVE Linked(t)
  BY <1>0 DEF TakeAnswer, Typed
<1>1. Link(s, i, d) /\ Link(s, Back(i, d), d) /\ LockOK(s, i)
  BY <1>0, Steps DEF Linked
<1>2. <<i, d>> \notin s.pending
  BY <1>0, <1>1 DEF LockOK, Apart
<1>3. Asks(s, i, d)
  BY <1>1 DEF Link
<1>4. \A e \in Directions : <<i, e>> \notin s.pending
  BY <1>0, <1>2, <1>3, Steps DEF Asks
<1>5. /\ after \notin s.pending /\ <<i, d>> \notin s.try
      /\ ~(after \in s.success /\ after \in s.failure)
  BY <1>1 DEF Link
<1>6. f = s.failure \ {after} /\ g \in SUBSET PiecePorts
  BY <1>0, <1>5 DEF Typed, PiecePorts
<1> HIDE DEF d, f, g
<1>7. /\ Typed(t) /\ t.green = s.green \ {i} /\ t.busy = s.busy \ {i}
      /\ t.try = s.try /\ t.pending = s.pending
      /\ t.success = s.success \ {after} /\ t.failure = s.failure \ {after}
  BY <1>0, <1>6 DEF Typed
<1> HIDE DEF t
<1>8. SameBeside(s, t, i, d)
  BY <1>7 DEF SameBeside
<1>9. LockOK(t, i)
  BY <1>4, <1>7 DEF LockOK
<1>10. ~Asks(t, i, Opposite(d)) /\ ~Asks(s, i, Opposite(d)) /\ ~Asks(t, i, d)
  BY <1>0, <1>4, <1>7, Steps, TwoDirections DEF Asks, d
<1>11. Link(t, i, d)
  BY <1>5, <1>7, <1>10 DEF Link
<1>12. Link(t, Back(i, d), d)
  <2>1. Back(i, d) # i /\ Along(Back(i, d), d) = i /\ Along(i, d) # i
    BY <1>0, Steps
  <2>2. Asks(t, Back(i, d), d) <=> Asks(s, Back(i, d), d)
    BY <1>7, <2>1 DEF Asks
  <2>3. after # <<i, d>>
    BY <2>1
  <2> QED BY <1>1, <1>7, <2>1, <2>2, <2>3 DEF Link
<1> QED
  BY <1>0, <1>7, <1>8, <1>9, <1>10, <1>11, <1>12, LinksBeside

(* Everything a signal does with routes.                                   *)
LEMMA SignalRouteLinked ==
    ASSUME Apart, ~reset, NEW s, Linked(s), NEW i \in Signals
    PROVE  Linked(SignalRoute(s, i))
<1> DEFINE d == Forward(i)
           r == SimulateRoute(s, i, Opposite(d))
           t == TakeAnswer(RequestRoute(AcceptAtSignal(r, i, d), i, d), i, d)
           u == IF i \in NoStop THEN HandleRequest(t, i, d) ELSE t
           w == HandleFeedback(u, i, d)
           on == {i} \X Directions \cap w.set # {}
<1>1. i \in Pieces /\ d \in Directions /\ Opposite(d) \in Directions /\ Opposite(d) # d
  BY TwoDirections DEF Signals, Forward, Directions
<1>2. SignalRoute(s, i) = [w EXCEPT !.signal = Switch(@, i, on)]
  BY DEF SignalRoute, SimulateSignalFwdRoute, ResetRoute
<1> HIDE DEF on
<1>3. Linked(r)
  BY <1>1, SimulateRouteLinked
<1> HIDE DEF r
<1>4. Linked(t)
  BY <1>1, <1>3, AcceptAtSignalLinked, RequestRouteLinked, TakeAnswerLinked
<1> HIDE DEF t
<1>5. Linked(u)
  BY <1>1, <1>4, HandleRequestLinked
<1> HIDE DEF u
<1>6. Linked(w)
  BY <1>1, <1>5, HandleFeedbackLinked
<1> HIDE DEF w
<1> DEFINE sg == Switch(w.signal, i, on)
<1>7. sg \in SUBSET Signals
  BY <1>6, SwitchTyped DEF Linked, Typed
<1> HIDE DEF sg
<1>8. Kept(w, [w EXCEPT !.signal = sg])
  BY <1>6, <1>7 DEF Kept, Linked, Typed
<1> QED
  BY <1>2, <1>6, <1>8, KeptLinked DEF sg

(* One run of the automaton of a piece keeps every link of the line.       *)
LEMMA BodyLinked ==
    ASSUME Apart, ~reset, NEW s, Linked(s), NEW i \in Pieces
    PROVE  Linked(Body(s, i))
<1>1. CASE i \in Signals
  BY <1>1, OccupancyLinked, SignalRouteLinked DEF Body
<1>2. ASSUME NEW r, Linked(r), i \notin Signals PROVE Linked(TrackRoutes(r, i))
  <2>1. "ab" \in Directions /\ "ba" \in Directions
    BY DEF Directions
  <2>2. Linked(SimulateRoute(r, i, "ab"))
    BY <1>2, <2>1, SimulateRouteLinked
  <2> QED BY <1>2, <2>1, <2>2, SimulateRouteLinked DEF TrackRoutes
<1>3. CASE i \notin Signals
  BY <1>2, <1>3, OccupancyLinked DEF Body, DetectorOccupancy
<1> QED
  BY <1>1, <1>3

-----------------------------------------------------------------------------
(* The steps of the line.                                                  *)
RequestInv == IInv /\ Linked(bits)

(* Nothing is asked for in the initial states.                             *)
LEMMA InitLinked == Init => Linked(bits)
<1> SUFFICES ASSUME Init PROVE Linked(bits)
  OBVIOUS
<1>1. /\ bits.try = {} /\ bits.success = {} /\ bits.failure = {} /\ bits.pending = {}
      /\ bits.busy = {} /\ bits.green = {} /\ waiting = {}
  BY DEF Init
<1>2. Typed(bits)
  BY DEF Init, Typed
<1> QED
  BY <1>1, <1>2 DEF Linked, LockOK, Link, Asks

(* The neighbour of the line asks, or takes the answer: this touches the   *)
(* first link only.                                                        *)
LEMMA FirstLink ==
    ASSUME Linked(bits), NEW d \in Directions, Typed(bits'), bits'.green = bits.green,
           bits'.pending = bits.pending, bits'.busy = bits.busy,
           \A p : p # <<Origin(d), d>> => (p \in bits'.try <=> p \in bits.try),
           \A p : p # <<First(d), d>> =>
              /\ p \in bits'.success <=> p \in bits.success
              /\ p \in bits'.failure <=> p \in bits.failure,
           \A e \in Directions : e # d => (e \in waiting' <=> e \in waiting),
           Link(bits, Origin(d), d)'
    PROVE  Linked(bits)'
<1>1. \A i \in Pieces : LockOK(bits', i)
  BY DEF Linked, LockOK
<1>2. ASSUME NEW e \in Directions, NEW k \in 0..(N + 1), k # Target(e)
      PROVE  Link(bits, k, e)'
  <2>0. Link(bits, k, e)
    BY <1>2 DEF Linked
  <2>1. CASE e = d /\ k = Origin(d)
    BY <2>1
  <2>2. CASE ~(e = d /\ k = Origin(d))
    <3>1. k = Origin(e) => e # d
      BY <2>2
    <3>2. Asks(bits, k, e)' <=> Asks(bits, k, e)
      BY <3>1 DEF Asks
    <3>3. e = d => Along(k, e) # First(d)
      BY <2>2, Ends
    <3>4. <<k, e>> # <<Origin(d), d>> /\ <<Along(k, e), e>> # <<First(d), d>>
      BY <2>2, <3>3
    <3>5. /\ <<k, e>> \in bits'.try <=> <<k, e>> \in bits.try
          /\ <<Along(k, e), e>> \in bits'.success <=> <<Along(k, e), e>> \in bits.success
          /\ <<Along(k, e), e>> \in bits'.failure <=> <<Along(k, e), e>> \in bits.failure
      BY <3>4
    <3> QED BY <2>0, <3>2, <3>5 DEF Link
  <2> QED BY <2>1, <2>2
<1> QED
  BY <1>1, <1>2 DEF Linked

(* Every step of a line keeps the links.                                   *)
LEMMA NextLinked ==
    ASSUME Apart, RequestInv, [Next]_vars
    PROVE  Linked(bits)'
<1>0. Linked(bits) /\ Typed(bits) /\ ~reset
  BY DEF RequestInv, IInv, Linked
<1>00. ASSUME NEW t, Linked(t), waiting' = waiting, bits' = t
       PROVE  Linked(bits)'
  BY <1>00 DEF Linked, Link, LockOK, Asks
<1>1. ASSUME NEW i \in Pieces, RunPiece(i) PROVE Linked(bits)'
  BY <1>0, <1>1, <1>00, BodyLinked DEF RunPiece
<1>2. ASSUME NEW i \in Pieces, RequestGreen(i) PROVE Linked(bits)'
  <2> DEFINE t == [bits EXCEPT !.green = @ \cup {i}]
  <2>1. i \in Signals /\ i \in GreenAt
    BY <1>2, RouteSettingAssumption DEF RequestGreen, Signals
  <2>2. /\ Typed(t) /\ t.green = bits.green \cup {i} /\ t.try = bits.try
        /\ t.success = bits.success /\ t.failure = bits.failure
        /\ t.pending = bits.pending /\ t.busy = bits.busy
    BY <1>0, <2>1 DEF Typed
  <2>3. bits' = t /\ waiting' = waiting
    BY <1>2 DEF RequestGreen
  <2> HIDE DEF t
  <2>4. \A k \in Pieces : LockOK(t, k)
    BY <1>0, <2>2 DEF Linked, LockOK
  <2>5. \A k, e : Asks(t, k, e) <=> Asks(bits, k, e)
    BY <2>2 DEF Asks
  <2>6. \A e \in Directions, k \in 0..(N + 1) : k # Target(e) => Link(t, k, e)
    BY <1>0, <2>2, <2>5 DEF Linked, Link
  <2>7. Linked(t)
    BY <1>0, <2>1, <2>2, <2>4, <2>6 DEF Linked
  <2> QED BY <1>00, <2>3, <2>7
<1>3. ASSUME NEW i \in Pieces, Detect(i) PROVE Linked(bits)'
  BY <1>0, <1>3, <1>00 DEF Detect
<1>4. ASSUME NEW d \in Directions, EndRequests(d) PROVE Linked(bits)'
  <2>1. <<Origin(d), d>> \in Ports /\ d \notin waiting /\ waiting' = waiting \cup {d}
    BY <1>4, Places DEF Ports, EndRequests
  <2>2. /\ Typed(bits') /\ bits'.green = bits.green
        /\ bits'.try = bits.try \cup {<<Origin(d), d>>}
        /\ bits'.success = bits.success \ {<<First(d), d>>}
        /\ bits'.failure = bits.failure \ {<<First(d), d>>}
        /\ bits'.pending = bits.pending /\ bits'.busy = bits.busy
    BY <1>0, <1>4, <2>1 DEF Typed, EndRequests
  <2>3. Link(bits, Origin(d), d) /\ First(d) = Along(Origin(d), d)
    BY <1>0, Ends DEF Linked
  <2>4. ~Asks(bits, Origin(d), d)
    BY <1>0, <2>1, Ends DEF Asks, Typed, PiecePorts, Signals
  <2>5. Asks(bits, Origin(d), d)'
    BY <2>1 DEF Asks
  <2>6. Link(bits, Origin(d), d)'
    BY <2>2, <2>3, <2>4, <2>5 DEF Link
  <2> QED BY <1>0, <2>1, <2>2, <2>6, FirstLink
<1>5. ASSUME NEW d \in Directions, EndLearns(d) PROVE Linked(bits)'
  <2>1. /\ <<First(d), d>> \in bits.success \cup bits.failure
        /\ waiting' = waiting \ {d}
    BY <1>5 DEF EndLearns
  <2>2. /\ Typed(bits') /\ bits'.green = bits.green /\ bits'.try = bits.try
        /\ bits'.success = bits.success \ {<<First(d), d>>}
        /\ bits'.failure = bits.failure \ {<<First(d), d>>}
        /\ bits'.pending = bits.pending /\ bits'.busy = bits.busy
    BY <1>0, <1>5 DEF Typed, EndLearns
  <2>3. Link(bits, Origin(d), d) /\ First(d) = Along(Origin(d), d)
    BY <1>0, Ends DEF Linked
  <2>4. ~Asks(bits, Origin(d), d)'
    BY <2>1, <2>2, Ends DEF Asks, Typed, PiecePorts, Signals
  <2>5. Link(bits, Origin(d), d)'
    BY <2>1, <2>2, <2>3, <2>4 DEF Link
  <2> QED BY <1>0, <2>1, <2>2, <2>5, FirstLink
<1>6. ASSUME NEW d \in Directions, EndAnswers(d) PROVE Linked(bits)'
  <2>1. PICK ok \in BOOLEAN : bits' = AnswerNow(bits, Target(d), d, ok)
    BY <1>6 DEF EndAnswers
  <2> DEFINE t == AnswerNow(bits, Target(d), d, ok)
  <2>2. <<Last(d), d>> \in bits.try /\ waiting' = waiting
    BY <1>6 DEF EndAnswers
  <2>3. /\ Typed(t) /\ t.green = bits.green
        /\ t.pending = bits.pending /\ t.busy = bits.busy
        /\ t.try = bits.try \ {<<Last(d), d>>}
        /\ t.success = Switch(bits.success, <<Target(d), d>>, ok)
        /\ t.failure = Switch(bits.failure, <<Target(d), d>>, ~ok)
    BY <1>0, Ends, AnswerNowEffect
  <2> HIDE DEF t
  <2>4. \A k \in Pieces : LockOK(t, k)
    BY <1>0, <2>3 DEF Linked, LockOK
  <2>5. \A k, e : Asks(t, k, e) <=> Asks(bits, k, e)
    BY <2>3 DEF Asks
  <2>6. ASSUME NEW e \in Directions, NEW k \in 0..(N + 1), k # Target(e)
        PROVE  Link(t, k, e)
    <3>0. Link(bits, k, e)
      BY <1>0, <2>6 DEF Linked
    <3>1. CASE e = d /\ k = Last(d)
      <4>1. Along(k, e) = Target(d) /\ <<Target(d), d>> \notin bits.pending
        BY <1>0, <3>1, Ends DEF Typed, PiecePorts
      <4>2. /\ <<Target(d), d>> \notin bits.success /\ <<Target(d), d>> \notin bits.failure
            /\ Asks(bits, k, e)
        BY <2>2, <3>0, <3>1, <4>1 DEF Link
      <4>3. /\ <<k, e>> \notin t.try /\ <<Target(d), d>> \notin t.pending
            /\ <<Target(d), d>> \in t.success <=> ok
            /\ <<Target(d), d>> \in t.failure <=> ~ok
        BY <2>3, <3>1, <4>1, <4>2 DEF Switch
      <4> QED BY <2>5, <3>1, <4>1, <4>2, <4>3 DEF Link
    <3>2. CASE ~(e = d /\ k = Last(d))
      <4>1. e = d => Along(k, e) # Target(d)
        BY <3>2, Ends
      <4>2. <<k, e>> # <<Last(d), d>> /\ <<Along(k, e), e>> # <<Target(d), d>>
        BY <3>2, <4>1
      <4>3. /\ <<k, e>> \in t.try <=> <<k, e>> \in bits.try
            /\ <<Along(k, e), e>> \in t.success <=> <<Along(k, e), e>> \in bits.success
            /\ <<Along(k, e), e>> \in t.failure <=> <<Along(k, e), e>> \in bits.failure
        BY <2>3, <4>2 DEF Switch
      <4> QED BY <2>3, <2>5, <3>0, <4>3 DEF Link
    <3> QED BY <3>1, <3>2
  <2>7. Linked(t)
    BY <1>0, <2>3, <2>4, <2>6 DEF Linked
  <2> QED BY <1>00, <2>1, <2>2, <2>7 DEF t
<1>7. CASE UNCHANGED vars
  BY <1>0, <1>7, <1>00 DEF vars
<1> QED
  BY <1>1, <1>2, <1>3, <1>4, <1>5, <1>6, <1>7 DEF Next

(* The links of a line hold in every reachable state.                      *)
THEOREM RequestInvariant == Apart => (Spec => []RequestInv)
<1>1. Init => RequestInv
  BY InitIInv, InitLinked DEF RequestInv
<1>2. Apart /\ RequestInv /\ [Next]_vars => RequestInv'
  BY NextIInv, NextLinked DEF RequestInv
<1>3. ASSUME Apart PROVE Spec => []RequestInv
  <2>1. RequestInv /\ [Next]_vars => RequestInv'
    BY <1>2, <1>3
  <2> QED BY <1>1, <2>1, PTL DEF Spec
<1> QED
  BY <1>3

(* tmp_route_setting_in_progress keeps requests apart on every piece,      *)
(* signals too.                                                            *)
THEOREM RequestsKeptApart == Apart => (Spec => []OneRequestPerPiece)
<1>1. RequestInv => OneRequestPerPiece
  <2> SUFFICES ASSUME RequestInv PROVE OneRequestPerPiece
    OBVIOUS
  <2>1. /\ bits.pending \subseteq Pieces \X Directions
        /\ \A i \in Pieces : LockOK(bits, i)
    BY DEF RequestInv, Linked, Typed, PiecePorts
  <2>2. ASSUME NEW p \in bits.pending PROVE p[1] \in bits.busy
    <3>1. PICK i \in Pieces, d \in Directions : p = <<i, d>>
      BY <2>1
    <3>2. i \in bits.busy
      BY <2>1, <3>1 DEF LockOK
    <3> QED BY <3>1, <3>2
  <2>3. ASSUME NEW i \in Pieces, {i} \X Directions \subseteq bits.pending PROVE FALSE
    <3>1. <<i, "ab">> \in bits.pending /\ <<i, "ba">> \in bits.pending
      BY <2>3 DEF Directions
    <3>2. "ab" \in Directions /\ Opposite("ab") = "ba"
      BY DEF Directions, Opposite
    <3> QED BY <2>1, <3>1, <3>2 DEF LockOK
  <2>4. TypeOK
    BY DEF RequestInv, IInv
  <2> QED BY <2>2, <2>3, <2>4 DEF OneRequestPerPiece
<1>2. ASSUME Apart PROVE Spec => []OneRequestPerPiece
  BY <1>1, <1>2, RequestInvariant, PTL
<1> QED
  BY <1>2

(* No request or answer on a line is lost, duplicated or taken for another *)
(* one, however long the line is and in whatever order its automata run.   *)
THEOREM RequestsNeverLost == Apart => (Spec => []RequestInOnePlace)
<1>1. RequestInv => RequestInOnePlace
  <2> SUFFICES ASSUME RequestInv, NEW d \in Directions, NEW i \in 0..(N + 1), i # Target(d)
               PROVE  LET next   == <<Along(i, d), d>>
                          places == {pl \in {"try", "pending", "success", "failure"} :
                                       IF pl = "try" THEN <<i, d>> \in bits.try
                                       ELSE next \in bits[pl]}
                      IN  Cardinality(places) = IF Awaits(i, d) THEN 1 ELSE 0
    BY DEF RequestInOnePlace
  <2> DEFINE next   == <<Along(i, d), d>>
             places == {pl \in {"try", "pending", "success", "failure"} :
                          IF pl = "try" THEN <<i, d>> \in bits.try
                          ELSE next \in bits[pl]}
  <2>1. Link(bits, i, d) /\ (Asks(bits, i, d) <=> Awaits(i, d))
    BY DEF RequestInv, Linked, Asks, Awaits
  <2>2. /\ "try" \in places <=> <<i, d>> \in bits.try
        /\ "pending" \in places <=> next \in bits.pending
        /\ "success" \in places <=> next \in bits.success
        /\ "failure" \in places <=> next \in bits.failure
        /\ places \subseteq {"try", "pending", "success", "failure"}
    OBVIOUS
  <2> HIDE DEF places
  <2>3. CASE Awaits(i, d)
    <3>1. \E pl : places = {pl}
      BY <2>1, <2>2, <2>3 DEF Link
    <3> QED BY <2>3, <3>1, FS_Singleton DEF places
  <2>4. CASE ~Awaits(i, d)
    <3>1. places = {}
      BY <2>1, <2>2, <2>4 DEF Link
    <3> QED BY <2>4, <3>1, FS_EmptySet DEF places
  <2> QED BY <2>3, <2>4
<1>2. ASSUME Apart PROVE Spec => []RequestInOnePlace
  BY <1>1, <1>2, RequestInvariant, PTL
<1> QED
  BY <1>2

-----------------------------------------------------------------------------
(***************************************************************************)
(* Proofs that a route goes on: from a piece with its route set the routes *)
(* lead on to a signal where trains stop or to the end of the line, as     *)
(* long as no train can be ahead.                                          *)
(*                                                                         *)
(* The answer that lets a piece set its route has passed the piece after,  *)
(* which has set its own before (GoesOn, for routes and for answers still  *)
(* on their way).  What is left to show is that the occupancy of the piece *)
(* after does not release a route while the detectors ahead are quiet:     *)
(* Calm says what its occupancy bits tell about them.  It holds for lines  *)
(* on which                                                                *)
(*   - a signal that lets trains through and follows a detector follows    *)
(*     the piece right before it, and a signal that follows none is not    *)
(*     asked to go green (Sighted);                                        *)
(*   - no detector that never changes reads occupied where a simulated     *)
(*     piece looks for its train in the far region (FarFree).              *)
(***************************************************************************)
(* No detector from piece i on changes.                                    *)
Quiet(i, d) == Beyond(i, d) \cap Changing = {}

StopsAt(j, d) == j \in Signals \ NoStop /\ Forward(j) = d

Continues(s, j, d) == j = Target(d) \/ StopsAt(j, d) \/ <<j, d>> \in s.set

GoesOn(s, i, d) ==
    Quiet(i, d) /\ (<<i, d>> \in s.set \/ <<Along(i, d), d>> \in s.success)
        => Continues(s, Along(i, d), d)

(* The occupancy of a simulated piece: it has a train only while a route   *)
(* is set, and has seen it ahead only where the next detector still does.  *)
Simulated(s, j) ==
    /\ Locked(s, j)
    /\ j \in s.occ => \E d \in Directions : <<j, d>> \in s.set
    /\ \A d \in Directions :
          Quiet(j, d) /\ <<j, d>> \in s.set /\ j \in s.occ /\ j \in s.seen
             => NextDetector(Along(j, d), d) \in detector

Calm(s, j) ==
    /\ j \notin GreenAt => Locked(s, j)
    /\ ~Watches(j) => Simulated(s, j)
    /\ Watches(j) /\ Watch(j) \notin Changing /\ j \in s.occ => Watch(j) \in detector

Going(s) ==
    /\ Typed(s) /\ s.green \subseteq GreenAt
    /\ \A j \in Pieces : Calm(s, j)
    /\ \A i \in Pieces, d \in Directions : GoesOn(s, i, d)

-----------------------------------------------------------------------------
(* Looking ahead.                                                          *)

(* The nearest piece of a set of pieces is one of them.                    *)
LEMMA NearestIs ==
    ASSUME NEW S \in SUBSET Pieces, NEW d
    PROVE  Nearest(S, d) \in S \cup {0}
<1> SUFFICES ASSUME S # {} PROVE Nearest(S, d) \in S
  BY DEF Nearest
<1>0. N \in Nat /\ S \subseteq 1..N
  BY RouteSettingAssumption DEF Pieces
<1>1. ASSUME NEW T \in SUBSET Nat, T # {}
      PROVE  \E m \in T : \A n \in T : m <= n
  <2>1. PICK m \in T : \A n \in T : ~ (<<n, m>> \in OpToRel(<, Nat))
    BY <1>1, WFMin, NatLessThanWellFounded
  <2>2. ASSUME NEW n \in T PROVE m <= n
    <3>1. n \in Nat /\ m \in Nat
      OBVIOUS
    <3>2. n < m => <<n, m>> \in OpToRel(<, Nat)
      BY <3>1 DEF OpToRel
    <3>3. ~(n < m)
      BY <2>1, <3>2
    <3> QED BY <3>1, <3>3
  <2> QED BY <2>2
<1>2. Min(S) \in S
  <2>1. \E m \in S : \A n \in S : m <= n
    BY <1>0, <1>1
  <2> QED BY <2>1 DEF Min
<1>3. Max(S) \in S
  <2> DEFINE T == {N - k : k \in S}
  <2>1. T \in SUBSET Nat /\ T # {}
    <3>1. \A k \in S : N - k \in Nat
      BY <1>0
    <3>2. PICK k \in S : TRUE
      OBVIOUS
    <3> QED BY <3>1, <3>2
  <2>2. PICK m \in T : \A n \in T : m <= n
    BY <1>1, <2>1
  <2>3. PICK k \in S : m = N - k
    OBVIOUS
  <2>4. \A y \in S : k >= y
    <3> SUFFICES ASSUME NEW y \in S PROVE k >= y
      OBVIOUS
    <3>1. N - k <= N - y
      BY <2>2, <2>3
    <3> QED BY <1>0, <3>1
  <2>5. \E x \in S : \A y \in S : x >= y
    BY <2>4
  <2> QED BY <2>5 DEF Max
<1> QED
  BY <1>2, <1>3 DEF Nearest

(* What a piece sees ahead is ahead.                                       *)
LEMMA Ahead ==
    ASSUME NEW d \in Directions, NEW i \in Pieces
    PROVE  /\ i \in Beyond(i, d)
           /\ Beyond(Along(i, d), d) \subseteq Beyond(i, d)
           /\ \A k \in Beyond(Along(i, d), d) : Beyond(Along(k, d), d) \subseteq Beyond(i, d)
           /\ Beyond(i, d) \subseteq Beyond(Back(i, d), d)
<1>1. N \in Nat /\ i \in 1..N
  BY RouteSettingAssumption DEF Pieces
<1> QED
  BY <1>1 DEF Directions, Along, Back, Opposite, Beyond, Pieces

LEMMA NextAhead ==
    ASSUME NEW d, NEW k
    PROVE  NextDetector(k, d) \in Beyond(k, d) \cup {0}
<1> DEFINE S == {x \in Beyond(k, d) : Kind[x] = "detector"}
<1>1. S \in SUBSET Pieces /\ S \subseteq Beyond(k, d)
  BY DEF Beyond
<1>2. NextDetector(k, d) = Nearest(S, d)
  BY DEF NextDetector
<1> HIDE DEF S
<1> QED BY <1>1, <1>2, NearestIs

LEMMA FarAhead ==
    ASSUME NEW d \in Directions, NEW i \in Pieces
    PROVE  FarDetector(Along(i, d), d) \in Beyond(i, d) \cup {0}
<1> DEFINE S == {k \in Beyond(Along(i, d), d) :
                    Kind[k] = "long" \/ (k \in Signals /\ Forward(k) = d)}
           stop == Nearest(S, d)
<1>1. S \in SUBSET Pieces /\ S \subseteq Beyond(Along(i, d), d)
  BY DEF Beyond
<1>2. FarDetector(Along(i, d), d)
        = IF stop # 0 /\ stop \notin Signals THEN NextDetector(Along(stop, d), d) ELSE 0
  BY DEF FarDetector
<1> HIDE DEF S
<1>3. stop \in S \cup {0}
  BY <1>1, NearestIs
<1> HIDE DEF stop
<1>4. CASE stop # 0 /\ stop \notin Signals
  <2>1. stop \in Beyond(Along(i, d), d)
    BY <1>1, <1>3, <1>4
  <2>2. NextDetector(Along(stop, d), d) \in Beyond(Along(stop, d), d) \cup {0}
    BY NextAhead
  <2> QED BY <1>2, <1>4, <2>1, <2>2, Ahead
<1>5. CASE ~(stop # 0 /\ stop \notin Signals)
  BY <1>2, <1>5
<1> QED BY <1>4, <1>5

(* What a piece sees ahead of it while all is quiet does not change.       *)
LEMMA QuietAhead ==
    ASSUME NEW d \in Directions, NEW i \in Pieces, Quiet(i, d)
    PROVE  /\ i \notin Changing /\ 0 \notin Changing
           /\ NextDetector(Along(i, d), d) \notin Changing
           /\ FarDetector(Along(i, d), d) \notin Changing
           /\ Along(i, d) \in Pieces => Quiet(Along(i, d), d)
<1>1. 0 \notin Changing
  BY RouteSettingAssumption DEF Pieces
<1>2. NextDetector(Along(i, d), d) \in Beyond(i, d) \cup {0}
  BY NextAhead, Ahead
<1>3. FarDetector(Along(i, d), d) \in Beyond(i, d) \cup {0}
  BY FarAhead
<1>4. i \in Beyond(i, d) /\ Beyond(Along(i, d), d) \subseteq Beyond(i, d)
  BY Ahead
<1> QED BY <1>1, <1>2, <1>3, <1>4 DEF Quiet

-----------------------------------------------------------------------------
(* Occupancy.                                                              *)

(* The occupancy part of the body of piece j: it writes bits of its own,   *)
(* takes no route while all is quiet, and never sets one.                  *)
OccupancyOf(s, t, j) ==
    /\ Kept(s, t) /\ t.set \subseteq s.set
    /\ \A k \in Pieces \ {j} :
          /\ k \in t.occ <=> k \in s.occ
          /\ k \in t.seen <=> k \in s.seen
          /\ \A d \in Directions : <<k, d>> \in t.set <=> <<k, d>> \in s.set

KeepsQuiet(s, t, j) ==
    \A d \in Directions : Quiet(j, d) /\ <<j, d>> \in s.set => <<j, d>> \in t.set

SimulationOf(s, t, j) ==
    OccupancyOf(s, t, j) /\ KeepsQuiet(s, t, j) /\ Simulated(t, j)

LEMMA SimulationSteps ==
    ASSUME NEW s, NEW t, NEW u, NEW j \in Pieces,
           SimulationOf(s, t, j), SimulationOf(t, u, j)
    PROVE  SimulationOf(s, u, j)
<1>1. OccupancyOf(s, u, j)
  BY DEF SimulationOf, OccupancyOf, Kept
<1>2. KeepsQuiet(s, u, j)
  BY DEF SimulationOf, KeepsQuiet
<1> QED BY <1>1, <1>2 DEF SimulationOf

LEMMA SimulationStays ==
    ASSUME NEW s, Typed(s), NEW j \in Pieces, Simulated(s, j)
    PROVE  SimulationOf(s, s, j)
  BY DEF SimulationOf, OccupancyOf, Kept, KeepsQuiet

(* A released route is one of a train that has been seen to leave.         *)
LEMMA ReleaseSimulated ==
    ASSUME NEW s, Typed(s), NEW j \in Pieces, NEW d \in Directions,
           Simulated(s, j), ~Quiet(j, d),
           NEW shadow \in SUBSET Pieces
    PROVE  /\ SimulationOf(s, Release(s, j, d), j)
           /\ SimulationOf(s, [Release(s, j, d) EXCEPT !.shadow = shadow], j)
<1> DEFINE t == Release(s, j, d)
           u == [t EXCEPT !.shadow = shadow]
<1>1. /\ Kept(s, t) /\ t.occ = s.occ \ {j} /\ t.seen = s.seen /\ t.set = s.set \ {<<j, d>>}
  BY DEF Release, Kept, Typed
<1> HIDE DEF t
<1>2. Kept(s, u) /\ u.occ = t.occ /\ u.seen = t.seen /\ u.set = t.set
  BY <1>1 DEF Kept, Typed
<1> HIDE DEF u
<1>3. ASSUME NEW v, Kept(s, v), v.occ = s.occ \ {j}, v.seen = s.seen,
             v.set = s.set \ {<<j, d>>}
      PROVE  SimulationOf(s, v, j)
  <2>1. OccupancyOf(s, v, j)
    BY <1>3 DEF OccupancyOf
  <2>2. KeepsQuiet(s, v, j)
    BY <1>3 DEF KeepsQuiet
  <2>3. Locked(v, j)
    BY <1>3 DEF Simulated, Locked, Kept
  <2>4. Simulated(v, j)
    BY <1>3, <2>3 DEF Simulated
  <2> QED BY <2>1, <2>2, <2>4 DEF SimulationOf
<1>4. SimulationOf(s, t, j)
  BY <1>1, <1>3
<1>5. SimulationOf(s, u, j)
  BY <1>1, <1>2, <1>3
<1> QED BY <1>4, <1>5 DEF t, u

(* A train enters a simulated piece.                                       *)
LEMMA EntersSimulated ==
    ASSUME NEW s, Typed(s), NEW j \in Pieces, NEW d \in Directions, Simulated(s, j)
    PROVE  SimulationOf(s, TrainEnters(s, j, d), j)
<1> DEFINE far == FarDetector(Along(j, d), d)
           shadow == IF far = 0 THEN s.shadow ELSE Switch(s.shadow, j, far \in detector)
           t == [s EXCEPT !.occ = @ \cup {j}, !.seen = @ \ {j}, !.shadow = shadow]
<1>1. CASE TrainEnters(s, j, d) = s
  BY <1>1, SimulationStays
<1>2. CASE TrainEnters(s, j, d) # s
  <2>1. <<j, d>> \in s.set /\ TrainEnters(s, j, d) = t
    BY <1>2 DEF TrainEnters
  <2>2. shadow \in SUBSET Pieces
    BY SwitchTyped DEF Typed
  <2> HIDE DEF shadow
  <2>3. Kept(s, t) /\ t.occ = s.occ \cup {j} /\ t.seen = s.seen \ {j} /\ t.set = s.set
    BY <2>2 DEF Kept, Typed
  <2> HIDE DEF t
  <2>4. OccupancyOf(s, t, j)
    BY <2>3 DEF OccupancyOf
  <2>5. KeepsQuiet(s, t, j)
    BY <2>3 DEF KeepsQuiet
  <2>6. Locked(t, j)
    BY <2>3 DEF Simulated, Locked, Kept
  <2>7. Simulated(t, j)
    BY <2>1, <2>3, <2>6 DEF Simulated
  <2> QED BY <2>1, <2>4, <2>5, <2>7 DEF SimulationOf
<1> QED BY <1>1, <1>2

(* A far detector that reads occupied is one that changes.                 *)
LEMMA SeenFarSimulated ==
    ASSUME FarFree, NEW s, Typed(s), NEW j \in Pieces, NEW d \in Directions, Simulated(s, j)
    PROVE  SimulationOf(s, TrainSeenFar(s, j, d), j)
<1> DEFINE far == FarDetector(Along(j, d), d)
           shadow == Release(s, j, d).shadow \cup {j}
<1>1. CASE far \in detector
  <2>1. far \in Changing
    BY <1>1 DEF FarFree
  <2>2. ~Quiet(j, d)
    BY <2>1, QuietAhead
  <2>3. shadow \in SUBSET Pieces
    BY DEF Release, Typed
  <2>4. \/ TrainSeenFar(s, j, d) = s
        \/ TrainSeenFar(s, j, d) = [Release(s, j, d) EXCEPT !.shadow = shadow]
    BY DEF TrainSeenFar
  <2> HIDE DEF shadow
  <2> QED BY <2>2, <2>3, <2>4, ReleaseSimulated, SimulationStays
<1>2. CASE far \notin detector
  BY <1>2, SimulationStays DEF TrainSeenFar
<1> QED BY <1>1, <1>2

(* The next detector, once it has read occupied for the train, goes free   *)
(* only where it changes.                                                  *)
LEMMA SeenNextSimulated ==
    ASSUME NEW s, Typed(s), NEW j \in Pieces, NEW d \in Directions, Simulated(s, j)
    PROVE  SimulationOf(s, TrainSeenNext(s, j, d), j)
<1> DEFINE next == NextDetector(Along(j, d), d)
           t == [s EXCEPT !.seen = @ \cup {j}]
<1>1. CASE <<j, d>> \in s.set /\ j \in s.occ /\ next \in detector
  <2>1. TrainSeenNext(s, j, d) = t \/ TrainSeenNext(s, j, d) = s
    BY <1>1 DEF TrainSeenNext
  <2>2. Kept(s, t) /\ t.occ = s.occ /\ t.seen = s.seen \cup {j} /\ t.set = s.set
    BY DEF Kept, Typed
  <2> HIDE DEF t
  <2>3. OccupancyOf(s, t, j)
    BY <2>2 DEF OccupancyOf
  <2>4. KeepsQuiet(s, t, j)
    BY <2>2 DEF KeepsQuiet
  <2>5. Locked(t, j) /\ Locked(s, j)
    BY <2>2 DEF Simulated, Locked, Kept
  <2>6. \A e \in Directions : <<j, e>> \in t.set => e = d
    BY <1>1, <2>2, <2>5, TwoDirections DEF Locked
  <2>7. Simulated(t, j)
    BY <1>1, <2>2, <2>5, <2>6 DEF Simulated
  <2>8. SimulationOf(s, t, j)
    BY <2>3, <2>4, <2>7 DEF SimulationOf
  <2> QED BY <2>1, <2>8, SimulationStays
<1>2. CASE <<j, d>> \in s.set /\ j \in s.occ /\ j \in s.seen /\ next \notin detector
  <2>1. ~Quiet(j, d)
    BY <1>2 DEF Simulated
  <2>2. TrainSeenNext(s, j, d) = Release(s, j, d) \/ TrainSeenNext(s, j, d) = s
    BY <1>2 DEF TrainSeenNext
  <2>3. SimulationOf(s, Release(s, j, d), j)
    BY <2>1, ReleaseSimulated DEF Typed
  <2> QED BY <2>2, <2>3, SimulationStays
<1>3. CASE \/ <<j, d>> \notin s.set \/ j \notin s.occ
           \/ j \notin s.seen /\ next \notin detector
  <2>1. TrainSeenNext(s, j, d) = s
    BY <1>3 DEF TrainSeenNext
  <2> QED BY <2>1, SimulationStays
<1> QED BY <1>1, <1>2, <1>3

LEMMA SimulatedOccupancy ==
    ASSUME FarFree, ~reset, NEW s, Typed(s), NEW j \in Pieces, Simulated(s, j)
    PROVE  SimulationOf(s, SimulateAllOccupancy(s, j), j)
<1>1. ASSUME NEW r, Typed(r), Simulated(r, j), NEW d \in Directions
      PROVE  SimulationOf(r, SimulateOccupancy(r, j, d), j)
  <2> DEFINE a == TrainEnters(r, j, d)
             b == TrainSeenFar(a, j, d)
             c == TrainSeenNext(b, j, d)
  <2>1. SimulateOccupancy(r, j, d) = c
    BY DEF SimulateOccupancy, ResetOccupancy
  <2>2. SimulationOf(r, a, j)
    BY <1>1, EntersSimulated
  <2> HIDE DEF a
  <2>3. SimulationOf(a, b, j)
    BY <2>2, SeenFarSimulated DEF SimulationOf, OccupancyOf, Kept
  <2> HIDE DEF b
  <2>4. SimulationOf(b, c, j)
    BY <2>3, SeenNextSimulated DEF SimulationOf, OccupancyOf, Kept
  <2> HIDE DEF c
  <2>5. SimulationOf(r, b, j)
    BY <2>2, <2>3, SimulationSteps
  <2> QED BY <2>1, <2>4, <2>5, SimulationSteps
<1> DEFINE a == IF Kind[j] = "rsignal" THEN "ba" ELSE "ab"
           q == SimulateOccupancy(s, j, a)
<1>2. a \in Directions /\ Opposite(a) \in Directions
  BY DEF Directions, Opposite
<1>3. SimulateAllOccupancy(s, j) = SimulateOccupancy(q, j, Opposite(a))
  BY DEF SimulateAllOccupancy
<1> HIDE DEF a
<1>4. SimulationOf(s, q, j)
  BY <1>1, <1>2
<1> HIDE DEF q
<1>5. SimulationOf(q, SimulateOccupancy(q, j, Opposite(a)), j)
  BY <1>1, <1>2, <1>4 DEF SimulationOf, OccupancyOf, Kept
<1> QED BY <1>3, <1>4, <1>5, SimulationSteps

(* A piece that follows a detector is occupied only as long as the         *)
(* detector reads occupied, unless it has changed since.                   *)
LEMMA FollowsDetector ==
    ASSUME NEW s, Typed(s), NEW j \in Pieces, NEW k
    PROVE  LET t == FollowDetector(s, j, k)
           IN  /\ OccupancyOf(s, t, j)
               /\ (k \in detector \/ j \notin s.occ) => t.set = s.set
               /\ k \notin detector => j \notin t.occ
<1> DEFINE t == [s EXCEPT !.occ = @ \cup {j}]
           u == [s EXCEPT !.occ = @ \ {j}, !.set = @ \ ({j} \X Directions),
                          !.signal = @ \ {j}]
<1>1. /\ Kept(s, t) /\ t.occ = s.occ \cup {j} /\ t.seen = s.seen /\ t.set = s.set
      /\ Kept(s, u) /\ u.occ = s.occ \ {j} /\ u.seen = s.seen
      /\ u.set = s.set \ ({j} \X Directions) /\ Kept(s, s)
  BY DEF Kept, Typed
<1>2. FollowDetector(s, j, k) = IF k \in detector THEN t ELSE IF j \in s.occ THEN u ELSE s
  BY DEF FollowDetector
<1> HIDE DEF t, u
<1>3. OccupancyOf(s, t, j) /\ OccupancyOf(s, u, j) /\ OccupancyOf(s, s, j)
  BY <1>1 DEF OccupancyOf
<1>4. CASE k \in detector
  BY <1>1, <1>2, <1>3, <1>4
<1>5. CASE k \notin detector /\ j \in s.occ
  BY <1>1, <1>2, <1>3, <1>5
<1>6. CASE k \notin detector /\ j \notin s.occ
  BY <1>1, <1>2, <1>3, <1>6
<1> QED BY <1>4, <1>5, <1>6

(* The occupancy part of a piece, by what stands for its occupancy.        *)
Occupancy(s, j) ==
    IF j \in Signals THEN SignalOccupancy(s, j)
    ELSE IF Kind[j] = "detector" THEN DetectorOccupancy(s, j)
    ELSE SimulateAllOccupancy(s, j)

LEMMA OccupancyBy ==
    ASSUME NEW s, NEW j \in Pieces
    PROVE  Occupancy(s, j) = IF Watches(j) THEN FollowDetector(s, j, Watch(j))
                             ELSE SimulateAllOccupancy(s, j)
  BY DEF Occupancy, SignalOccupancy, DetectorOccupancy, Watches, Watch, Signals

(* The detector that a piece follows does not change while all is quiet    *)
(* from the piece before on, for routes that go through.                   *)
LEMMA QuietWatch ==
    ASSUME Sighted, NEW j \in Pieces, NEW d \in Directions, Watches(j),
           Back(j, d) \in Pieces, Quiet(Back(j, d), d), ~StopsAt(j, d)
    PROVE  Watch(j) \notin Changing
<1>1. Along(Back(j, d), d) = j
  BY Steps
<1>2. Quiet(j, d) /\ Back(j, d) \notin Changing
  BY <1>1, QuietAhead
<1>3. CASE Kind[j] = "detector"
  BY <1>2, <1>3, QuietAhead DEF Watch
<1>4. CASE Kind[j] # "detector" /\ Forward(j) = d
  <2>1. j \in Signals /\ j \in NoStop
    BY <1>4 DEF Watches, StopsAt
  <2> QED BY <1>2, <1>4, <2>1 DEF Sighted
<1>5. CASE Kind[j] # "detector" /\ Forward(j) # d
  <2>1. Forward(j) \in Directions
    BY DEF Forward, Directions
  <2>2. d = Opposite(Forward(j))
    BY <1>5, <2>1, TwoDirections
  <2>3. Watch(j) = NextDetector(Along(j, d), d)
    BY <1>5, <2>2 DEF Watch, Back
  <2> QED BY <1>2, <2>3, QuietAhead
<1> QED BY <1>3, <1>4, <1>5

(* A piece that follows no detector is not asked to go green.              *)
LEMMA UnwatchedNotGreen ==
    ASSUME Sighted, NEW j \in Pieces, ~Watches(j)
    PROVE  j \notin GreenAt
  BY RouteSettingAssumption DEF Sighted, Signals

(* The occupancy part of a body lets the routes go on.                     *)
LEMMA OccupancyGoing ==
    ASSUME Sighted, FarFree, ~reset, NEW s, Going(s), NEW j \in Pieces
    PROVE  Going(Occupancy(s, j))
<1> DEFINE t == Occupancy(s, j)
<1>0. Typed(s) /\ Calm(s, j)
  BY DEF Going
<1>1. /\ OccupancyOf(s, t, j) /\ Calm(t, j)
      /\ \A d \in Directions :
            /\ Back(j, d) \in Pieces /\ Quiet(Back(j, d), d) /\ ~StopsAt(j, d)
            /\ <<j, d>> \in s.set
            => <<j, d>> \in t.set
  <2>1. CASE Watches(j)
    <3>1. t = FollowDetector(s, j, Watch(j))
      BY <2>1, OccupancyBy
    <3> HIDE DEF t
    <3>2. /\ OccupancyOf(s, t, j)
          /\ (Watch(j) \in detector \/ j \notin s.occ) => t.set = s.set
          /\ Watch(j) \notin detector => j \notin t.occ
      BY <1>0, <3>1, FollowsDetector
    <3>3. Calm(t, j)
      <4>1. j \notin GreenAt => Locked(t, j)
        BY <1>0, <3>2 DEF Calm, Locked, OccupancyOf, Kept
      <4> QED BY <2>1, <3>2, <4>1 DEF Calm
    <3>4. ASSUME NEW d \in Directions, Back(j, d) \in Pieces, Quiet(Back(j, d), d),
                 ~StopsAt(j, d), <<j, d>> \in s.set
          PROVE  <<j, d>> \in t.set
      <4>1. Watch(j) \notin Changing
        BY <2>1, <3>4, QuietWatch
      <4>2. Watch(j) \in detector \/ j \notin s.occ
        BY <1>0, <2>1, <4>1 DEF Calm
      <4> QED BY <3>2, <3>4, <4>2
    <3> QED BY <3>2, <3>3, <3>4
  <2>2. CASE ~Watches(j)
    <3>1. t = SimulateAllOccupancy(s, j) /\ Simulated(s, j)
      BY <1>0, <2>2, OccupancyBy DEF Calm
    <3> HIDE DEF t
    <3>2. SimulationOf(s, t, j)
      BY <1>0, <3>1, SimulatedOccupancy
    <3>3. Calm(t, j)
      BY <2>2, <3>2 DEF Calm, SimulationOf, Simulated
    <3>4. ASSUME NEW d \in Directions, Back(j, d) \in Pieces, Quiet(Back(j, d), d),
                 <<j, d>> \in s.set
          PROVE  <<j, d>> \in t.set
      <4>1. Quiet(j, d)
        BY <3>4, Steps, QuietAhead
      <4> QED BY <3>2, <3>4, <4>1 DEF SimulationOf, KeepsQuiet
    <3> QED BY <3>2, <3>3, <3>4 DEF SimulationOf
  <2> QED BY <2>1, <2>2
<1> HIDE DEF t
<1>2. Typed(t) /\ t.green \subseteq GreenAt
  BY <1>1 DEF OccupancyOf, Kept, Going
<1>3. ASSUME NEW k \in Pieces PROVE Calm(t, k)
  <2>1. CASE k = j
    BY <1>1, <2>1
  <2>2. CASE k # j
    <3>1. Calm(s, k)
      BY DEF Going
    <3>2. /\ k \in t.occ <=> k \in s.occ
          /\ k \in t.seen <=> k \in s.seen
          /\ \A d \in Directions : <<k, d>> \in t.set <=> <<k, d>> \in s.set
          /\ t.pending = s.pending /\ t.busy = s.busy
      BY <1>1, <2>2 DEF OccupancyOf, Kept
    <3>3. Locked(s, k) => Locked(t, k)
      BY <3>2, Places DEF Locked
    <3>4. Simulated(s, k) => Simulated(t, k)
      BY <3>2, <3>3 DEF Simulated
    <3> QED BY <3>1, <3>2, <3>3, <3>4 DEF Calm
  <2> QED BY <2>1, <2>2
<1>4. ASSUME NEW i \in Pieces, NEW d \in Directions PROVE GoesOn(t, i, d)
  <2> SUFFICES ASSUME Quiet(i, d),
                      <<i, d>> \in t.set \/ <<Along(i, d), d>> \in t.success
               PROVE  Continues(t, Along(i, d), d)
    BY DEF GoesOn
  <2>1. Continues(s, Along(i, d), d)
    <3>1. <<i, d>> \in s.set \/ <<Along(i, d), d>> \in s.success
      BY <1>1 DEF OccupancyOf, Kept
    <3>2. GoesOn(s, i, d)
      BY DEF Going
    <3> QED BY <3>1, <3>2 DEF GoesOn
  <2>2. CASE <<Along(i, d), d>> \in s.set /\ ~StopsAt(Along(i, d), d)
    <3>1. Along(i, d) \in Pieces
      BY <1>0, <2>2 DEF Typed, PiecePorts
    <3>2. CASE Along(i, d) = j
      <4>1. i = Back(j, d)
        BY <3>2, Steps
      <4> QED BY <1>1, <2>2, <3>2, <4>1 DEF Continues
    <3>3. CASE Along(i, d) # j
      BY <1>1, <2>2, <3>1, <3>3 DEF OccupancyOf, Continues
    <3> QED BY <3>2, <3>3
  <2> QED BY <2>1, <2>2 DEF Continues
<1> QED BY <1>2, <1>3, <1>4 DEF Going, t

-----------------------------------------------------------------------------
(* The handshake.                                                          *)

(* What one direction of the handshake of piece i does: a route is set on  *)
(* the answer of the piece after, and success is answered for a route that *)
(* is set or ends here.                                                    *)
HandshakeOf(s, t, i, d) ==
    /\ Typed(t) /\ t.green \subseteq s.green
    /\ t.occ = s.occ /\ t.seen = s.seen /\ s.set \subseteq t.set
    /\ \A p \in t.set \ s.set :
          /\ p = <<i, d>> /\ <<Along(i, d), d>> \in s.success
          /\ i \in GreenAt \/ <<i, d>> \in s.pending
    /\ \A p \in t.success \ s.success :
          p = <<i, d>> /\ (<<i, d>> \in t.set \/ StopsAt(i, d))
    /\ \A k \in Pieces \ {i} :
          /\ k \in t.busy <=> k \in s.busy
          /\ \A e \in Directions : <<k, e>> \in t.pending <=> <<k, e>> \in s.pending
    /\ i \notin GreenAt /\ Locked(s, i) => Locked(t, i)

LEMMA HandshakeGoing ==
    ASSUME Sighted, NEW s, Going(s), NEW t, NEW i \in Pieces, NEW d \in Directions,
           HandshakeOf(s, t, i, d)
    PROVE  Going(t)
<1>1. Typed(t) /\ t.green \subseteq GreenAt
  BY DEF HandshakeOf, Going
<1>2. ASSUME NEW k \in Pieces PROVE Calm(t, k)
  <2>0. Calm(s, k)
    BY DEF Going
  <2>1. k \notin GreenAt => Locked(t, k)
    <3>1. CASE k = i
      BY <2>0, <3>1 DEF Calm, HandshakeOf
    <3>2. CASE k # i
      <4>1. /\ k \in t.busy <=> k \in s.busy
            /\ \A e \in Directions : <<k, e>> \in t.pending <=> <<k, e>> \in s.pending
        BY <3>2 DEF HandshakeOf
      <4>2. \A e \in Directions : <<k, e>> \in t.set <=> <<k, e>> \in s.set
        BY <3>2 DEF HandshakeOf
      <4>3. Locked(s, k) => Locked(t, k)
        BY <4>1, <4>2, Places DEF Locked
      <4> QED BY <2>0, <4>3 DEF Calm
    <3> QED BY <3>1, <3>2
  <2>2. ASSUME ~Watches(k) PROVE Simulated(t, k)
    <3>1. Simulated(s, k) /\ k \notin GreenAt
      BY <2>0, <2>2, UnwatchedNotGreen DEF Calm
    <3>2. t.occ = s.occ /\ t.seen = s.seen /\ s.set \subseteq t.set
      BY DEF HandshakeOf
    <3>3. k \in t.occ => \E e \in Directions : <<k, e>> \in t.set
      BY <3>1, <3>2 DEF Simulated
    <3>4. ASSUME NEW e \in Directions, <<k, e>> \in t.set, k \in t.occ
          PROVE  <<k, e>> \in s.set
      <4> SUFFICES ASSUME <<k, e>> \notin s.set PROVE FALSE
        OBVIOUS
      <4>1. <<k, e>> = <<i, d>> /\ <<k, e>> \in s.pending
        BY <3>1, <3>4 DEF HandshakeOf
      <4>2. Locked(s, k)
        BY <3>1 DEF Simulated
      <4>3. \A f \in Directions : <<k, f>> \notin s.set
        BY <4>1, <4>2, TwoDirections DEF Locked
      <4> QED BY <3>1, <3>2, <3>4, <4>3 DEF Simulated
    <3>5. \A e \in Directions :
             Quiet(k, e) /\ <<k, e>> \in t.set /\ k \in t.occ /\ k \in t.seen
                => NextDetector(Along(k, e), e) \in detector
      BY <3>1, <3>2, <3>4 DEF Simulated
    <3> QED BY <2>1, <3>1, <3>3, <3>5 DEF Simulated
  <2> QED BY <2>0, <2>1, <2>2 DEF Calm, HandshakeOf
<1>3. ASSUME NEW k \in Pieces, NEW e \in Directions PROVE GoesOn(t, k, e)
  <2>0. GoesOn(s, k, e)
    BY DEF Going
  <2>1. Continues(s, Along(k, e), e) => Continues(t, Along(k, e), e)
    BY DEF Continues, HandshakeOf
  <2>2. ASSUME <<k, e>> \in t.set \ s.set
        PROVE  <<Along(k, e), e>> \in s.success
    BY <2>2 DEF HandshakeOf
  <2>3. ASSUME <<Along(k, e), e>> \in t.success \ s.success
        PROVE  Continues(t, Along(k, e), e)
    BY <2>3 DEF HandshakeOf, Continues
  <2> QED BY <2>0, <2>1, <2>2, <2>3 DEF GoesOn
<1> QED BY <1>1, <1>2, <1>3 DEF Going

LEMMA HandshakeStays ==
    ASSUME NEW s, Typed(s), NEW i \in Pieces, NEW d \in Directions
    PROVE  HandshakeOf(s, s, i, d)
  BY DEF HandshakeOf

(* An answer given at once: success only where the route ends.             *)
LEMMA AnswerNowHandshake ==
    ASSUME NEW s, Typed(s), NEW i \in Pieces, NEW d \in Directions, NEW ok \in BOOLEAN,
           ok => StopsAt(i, d)
    PROVE  HandshakeOf(s, AnswerNow(s, i, d, ok), i, d)
<1> DEFINE t == AnswerNow(s, i, d, ok)
           a == Switch(s.success, <<i, d>>, ok)
           b == Switch(s.failure, <<i, d>>, ~ok)
<1>1. /\ Typed(t) /\ t.green = s.green /\ t.pending = s.pending /\ t.busy = s.busy
      /\ t.success = a
  BY Places, AnswerNowEffect
<1>2. t.occ = s.occ /\ t.seen = s.seen /\ t.set = s.set
  <2>1. t = [[s EXCEPT !.success = a, !.failure = b] EXCEPT !.try = @ \ {<<Back(i, d), d>>}]
    BY DEF AnswerNow, Answer, Typed
  <2> HIDE DEF a, b, t
  <2> QED BY <2>1 DEF Typed
<1>3. \A p \in a \ s.success : p = <<i, d>> /\ ok
  BY DEF Switch
<1> HIDE DEF t, a
<1>4. Locked(s, i) => Locked(t, i)
  BY <1>1, <1>2 DEF Locked
<1>5. HandshakeOf(s, t, i, d)
  BY <1>1, <1>2, <1>3, <1>4 DEF HandshakeOf
<1> QED BY <1>5 DEF t

LEMMA HandleRequestHandshake ==
    ASSUME NEW s, Typed(s), NEW i \in Pieces, NEW d \in Directions
    PROVE  HandshakeOf(s, HandleRequest(s, i, d), i, d)
<1> DEFINE t == Propagate(s, i, d)
<1>1. ASSUME CanPropagate(s, i, d) PROVE HandshakeOf(s, t, i, d)
  <2>0. <<i, d>> \in Ports /\ <<i, d>> \in PiecePorts
    BY Places DEF PiecePorts
  <2>1. /\ Typed(t) /\ t.green = s.green /\ t.busy = s.busy \cup {i}
        /\ t.pending = s.pending \cup {<<i, d>>}
        /\ t.success = s.success \ {<<Along(i, d), d>>}
        /\ t.set = s.set /\ t.occ = s.occ /\ t.seen = s.seen
    BY <2>0 DEF Typed, Propagate
  <2> HIDE DEF t
  <2>2. ASSUME Locked(s, i) PROVE Locked(t, i)
    <3>1. /\ i \notin s.busy
          /\ <<i, d>> \notin s.set /\ <<i, Opposite(d)>> \notin s.set
      BY <1>1 DEF CanPropagate
    <3>2. \A e \in Directions : <<i, e>> \notin s.pending /\ <<i, e>> \notin s.set
      BY <2>2, <3>1, TwoDirections DEF Locked
    <3> QED BY <2>1, <3>2, Places DEF Locked
  <2>3. \A k \in Pieces \ {i} :
           /\ k \in t.busy <=> k \in s.busy
           /\ \A e \in Directions : <<k, e>> \in t.pending <=> <<k, e>> \in s.pending
    BY <2>1
  <2> QED BY <2>1, <2>2, <2>3 DEF HandshakeOf
<1>2. HandshakeOf(s, AnswerNow(s, i, d, FALSE), i, d)
  BY AnswerNowHandshake
<1> HIDE DEF t
<1> QED BY <1>1, <1>2, HandshakeStays DEF HandleRequest, t

LEMMA HandleFeedbackHandshake ==
    ASSUME NEW s, Typed(s), NEW i \in Pieces, NEW d \in Directions
    PROVE  HandshakeOf(s, HandleFeedback(s, i, d), i, d)
<1> DEFINE after == <<Along(i, d), d>>
           ok == after \notin s.failure
           a == Switch(s.success \ {after}, <<i, d>>, ok)
           b == Switch(s.failure \ {after}, <<i, d>>, ~ok)
           g == IF ok THEN s.set \cup {<<i, d>>} ELSE s.set
           q == [s EXCEPT !.success = @ \ {after}, !.failure = @ \ {after}]
           r == Answer(q, i, d, ok)
           t == [r EXCEPT !.pending = @ \ {<<i, d>>}, !.busy = @ \ {i},
                          !.set = IF ok THEN @ \cup {<<i, d>>} ELSE @]
<1>1. CASE ~(<<i, d>> \in s.pending /\ after \in s.success \cup s.failure)
  <2>1. HandleFeedback(s, i, d) = s
    BY <1>1 DEF HandleFeedback
  <2> QED BY <2>1, HandshakeStays
<1>2. CASE <<i, d>> \in s.pending /\ after \in s.success \cup s.failure
  <2>0. HandleFeedback(s, i, d) = t
    BY <1>2 DEF HandleFeedback
  <2>1. <<i, d>> \in Ports /\ <<i, d>> \in PiecePorts
    BY Places DEF PiecePorts
  <2>2. a \in SUBSET Ports /\ b \in SUBSET Ports /\ g \in SUBSET PiecePorts
    BY <2>1, SwitchTyped DEF Typed
  <2>3. /\ \A p \in a \ s.success : p = <<i, d>> /\ p \in g
        /\ \A p \in g \ s.set : p = <<i, d>> /\ after \in s.success
        /\ s.set \subseteq g
    BY <1>2 DEF Switch
  <2>4. /\ Typed(t) /\ t.green = s.green /\ t.busy = s.busy \ {i}
        /\ t.pending = s.pending \ {<<i, d>>} /\ t.success = a
        /\ t.set = g /\ t.occ = s.occ /\ t.seen = s.seen
    <3>1. /\ Typed(q) /\ q.green = s.green /\ q.busy = s.busy /\ q.pending = s.pending
          /\ q.set = s.set /\ q.occ = s.occ /\ q.seen = s.seen
          /\ q.success = s.success \ {after} /\ q.failure = s.failure \ {after}
      BY DEF Typed
    <3> HIDE DEF q
    <3>2. r = [q EXCEPT !.success = a, !.failure = b]
      BY <3>1 DEF Answer, Typed
    <3> HIDE DEF a, b, r
    <3>3. /\ Typed(r) /\ r.green = s.green /\ r.busy = s.busy /\ r.pending = s.pending
          /\ r.success = a /\ r.failure = b /\ r.set = s.set /\ r.occ = s.occ
          /\ r.seen = s.seen
      BY <2>2, <3>1, <3>2 DEF Typed
    <3>4. t = [r EXCEPT !.pending = @ \ {<<i, d>>}, !.busy = @ \ {i}, !.set = g]
      BY <3>3 DEF Typed
    <3> HIDE DEF g, t
    <3> QED BY <2>2, <3>3, <3>4 DEF Typed
  <2> HIDE DEF a, b, g, t, ok
  <2>5. ASSUME Locked(s, i) PROVE Locked(t, i)
    <3>1. \A e \in Directions : <<i, e>> \notin t.pending
      BY <1>2, <2>4, <2>5, TwoDirections DEF Locked
    <3>2. <<i, Opposite(d)>> \notin t.set
      <4>1. <<i, Opposite(d)>> \notin s.set /\ Opposite(d) # d
        BY <1>2, <2>5, TwoDirections DEF Locked
      <4> QED BY <2>3, <2>4, <4>1
    <3> QED BY <3>1, <3>2, TwoDirections DEF Locked
  <2>6. \A k \in Pieces \ {i} :
           /\ k \in t.busy <=> k \in s.busy
           /\ \A e \in Directions : <<k, e>> \in t.pending <=> <<k, e>> \in s.pending
    BY <2>4
  <2>7. HandshakeOf(s, t, i, d)
    BY <1>2, <2>3, <2>4, <2>5, <2>6 DEF HandshakeOf
  <2> QED BY <2>0, <2>7
<1> QED BY <1>1, <1>2

LEMMA AcceptAtSignalHandshake ==
    ASSUME NEW s, Typed(s), NEW i \in Signals
    PROVE  HandshakeOf(s, AcceptAtSignal(s, i, Forward(i)), i, Forward(i))
<1> DEFINE d == Forward(i)
           ok == {i} \X Directions \cap s.set = {}
<1>1. i \in Pieces /\ d \in Directions /\ ok \in BOOLEAN
  BY DEF Signals, Forward, Directions
<1>2. i \notin NoStop => StopsAt(i, d)
  BY DEF StopsAt
<1>3. \/ AcceptAtSignal(s, i, d) = s
      \/ AcceptAtSignal(s, i, d) = AnswerNow(s, i, d, FALSE)
      \/ i \notin NoStop /\ AcceptAtSignal(s, i, d) = AnswerNow(s, i, d, ok)
  BY DEF AcceptAtSignal
<1> HIDE DEF d, ok
<1>4. HandshakeOf(s, AnswerNow(s, i, d, FALSE), i, d)
  BY <1>1, AnswerNowHandshake
<1>5. i \notin NoStop => HandshakeOf(s, AnswerNow(s, i, d, ok), i, d)
  BY <1>1, <1>2, AnswerNowHandshake
<1>6. HandshakeOf(s, AcceptAtSignal(s, i, d), i, d)
  BY <1>1, <1>3, <1>4, <1>5, HandshakeStays
<1> QED BY <1>6 DEF d

LEMMA RequestRouteHandshake ==
    ASSUME NEW s, Typed(s), s.green \subseteq GreenAt, NEW i \in Signals, NEW d \in Directions
    PROVE  HandshakeOf(s, RequestRoute(s, i, d), i, d)
<1> DEFINE t == [s EXCEPT !.try = @ \cup {<<i, d>>}, !.busy = @ \cup {i}]
<1>0. i \in Pieces /\ <<i, d>> \in Ports
  BY Places DEF Signals, Ports
<1>1. /\ Typed(t) /\ t.green = s.green /\ t.busy = s.busy \cup {i}
      /\ t.pending = s.pending /\ t.success = s.success
      /\ t.set = s.set /\ t.occ = s.occ /\ t.seen = s.seen
  BY <1>0 DEF Typed
<1>2. RequestRoute(s, i, d) = s \/ (i \in s.green /\ RequestRoute(s, i, d) = t)
  BY DEF RequestRoute
<1> HIDE DEF t
<1>3. i \in s.green => HandshakeOf(s, t, i, d)
  BY <1>1 DEF HandshakeOf
<1> QED BY <1>0, <1>2, <1>3, HandshakeStays

LEMMA TakeAnswerHandshake ==
    ASSUME NEW s, Typed(s), s.green \subseteq GreenAt, NEW i \in Signals, NEW d \in Directions
    PROVE  HandshakeOf(s, TakeAnswer(s, i, d), i, d)
<1> DEFINE after == <<Along(i, d), d>>
           f == IF after \in s.success THEN s.failure ELSE s.failure \ {after}
           g == IF after \in s.success THEN s.set \cup {<<i, d>>} ELSE s.set
           t == [s EXCEPT !.busy = @ \ {i}, !.green = @ \ {i},
                   !.success = @ \ {after}, !.failure = f, !.set = g]
<1>0. i \in Pieces /\ <<i, d>> \in PiecePorts
  BY DEF Signals, PiecePorts
<1>1. TakeAnswer(s, i, d) = s \/ (i \in s.green /\ TakeAnswer(s, i, d) = t)
  BY DEF TakeAnswer, Typed
<1>2. /\ f \in SUBSET Ports /\ g \in SUBSET PiecePorts /\ s.set \subseteq g
      /\ \A p \in g \ s.set : p = <<i, d>> /\ after \in s.success
  BY <1>0 DEF Typed
<1> HIDE DEF f, g
<1>3. /\ Typed(t) /\ t.green = s.green \ {i} /\ t.busy = s.busy \ {i}
      /\ t.pending = s.pending /\ t.success = s.success \ {after}
      /\ t.set = g /\ t.occ = s.occ /\ t.seen = s.seen
  BY <1>2 DEF Typed
<1> HIDE DEF t
<1>4. i \in s.green => HandshakeOf(s, t, i, d)
  BY <1>2, <1>3 DEF HandshakeOf
<1> QED BY <1>0, <1>1, <1>4, HandshakeStays

(* Both halves of SimulateRoute, and all that a signal does with routes.   *)
LEMMA RoutesGoing ==
    ASSUME Sighted, ~reset, NEW s, Going(s), NEW i \in Pieces
    PROVE  /\ \A d \in Directions : Going(SimulateRoute(s, i, d))
           /\ i \in Signals => Going(SignalRoute(s, i))
<1>1. ASSUME NEW r, Going(r), NEW d \in Directions PROVE Going(HandleRequest(r, i, d))
  BY <1>1, HandleRequestHandshake, HandshakeGoing DEF Going
<1>2. ASSUME NEW r, Going(r), NEW d \in Directions PROVE Going(HandleFeedback(r, i, d))
  BY <1>2, HandleFeedbackHandshake, HandshakeGoing DEF Going
<1>3. ASSUME NEW d \in Directions PROVE Going(SimulateRoute(s, i, d))
  <2>1. SimulateRoute(s, i, d) = HandleFeedback(HandleRequest(s, i, d), i, d)
    BY DEF SimulateRoute, ResetRoute
  <2>2. Going(HandleRequest(s, i, d))
    BY <1>1
  <2> QED BY <1>2, <2>1, <2>2
<1>4. ASSUME i \in Signals PROVE Going(SignalRoute(s, i))
  <2> DEFINE d == Forward(i)
             r == SimulateRoute(s, i, Opposite(d))
             a == AcceptAtSignal(r, i, d)
             b == RequestRoute(a, i, d)
             t == TakeAnswer(b, i, d)
             u == IF i \in NoStop THEN HandleRequest(t, i, d) ELSE t
             w == HandleFeedback(u, i, d)
             on == {i} \X Directions \cap w.set # {}
             sg == Switch(w.signal, i, on)
             x == [w EXCEPT !.signal = sg]
  <2>1. d \in Directions /\ Opposite(d) \in Directions
    BY TwoDirections DEF Forward, Directions
  <2>2. SignalRoute(s, i) = x
    BY DEF SignalRoute, SimulateSignalFwdRoute, ResetRoute
  <2> HIDE DEF on
  <2>3. Going(r)
    BY <1>3, <2>1
  <2> HIDE DEF r
  <2>4. Going(a)
    <3>1. HandshakeOf(r, a, i, d)
      BY <1>4, <2>3, AcceptAtSignalHandshake DEF Going
    <3> HIDE DEF a, d
    <3> QED BY <2>1, <2>3, <3>1, HandshakeGoing
  <2> HIDE DEF a, d
  <2>5. Going(b)
    <3>1. HandshakeOf(a, b, i, d)
      BY <1>4, <2>1, <2>4, RequestRouteHandshake DEF Going
    <3> HIDE DEF b
    <3> QED BY <2>1, <2>4, <3>1, HandshakeGoing
  <2> HIDE DEF b
  <2>6. Going(t)
    <3>1. HandshakeOf(b, t, i, d)
      BY <1>4, <2>1, <2>5, TakeAnswerHandshake DEF Going
    <3> HIDE DEF t
    <3> QED BY <2>1, <2>5, <3>1, HandshakeGoing
  <2> HIDE DEF t
  <2>7. Going(u)
    BY <1>1, <2>1, <2>6
  <2> HIDE DEF u
  <2>8. Going(w)
    BY <1>2, <2>1, <2>7
  <2> HIDE DEF w
  <2>9. sg \in SUBSET Signals
    BY <1>4, <2>8, SwitchTyped DEF Going, Typed
  <2> HIDE DEF sg
  <2>10. /\ Typed(x) /\ x.green = w.green /\ x.busy = w.busy /\ x.pending = w.pending
         /\ x.success = w.success /\ x.set = w.set /\ x.occ = w.occ /\ x.seen = w.seen
    BY <2>8, <2>9 DEF Going, Typed
  <2> HIDE DEF x
  <2>11. Locked(w, i) => Locked(x, i)
    BY <2>10 DEF Locked
  <2>12. HandshakeOf(w, x, i, d)
    BY <2>10, <2>11 DEF HandshakeOf
  <2>13. Going(x)
    BY <2>1, <2>8, <2>12, HandshakeGoing
  <2> QED BY <2>2, <2>13
<1> QED BY <1>3, <1>4

(* One run of the automaton of a piece lets the routes go on.              *)
LEMMA BodyGoing ==
    ASSUME Sighted, FarFree, ~reset, NEW s, Going(s), NEW i \in Pieces
    PROVE  Going(Body(s, i))
<1> DEFINE t == Occupancy(s, i)
<1>1. Going(t)
  BY OccupancyGoing
<1>2. Body(s, i) = IF i \in Signals THEN SignalRoute(t, i) ELSE TrackRoutes(t, i)
  BY DEF Body, Occupancy
<1> HIDE DEF t
<1>3. "ab" \in Directions /\ "ba" \in Directions
  BY DEF Directions
<1>4. Going(SimulateRoute(t, i, "ab"))
  BY <1>1, <1>3, RoutesGoing
<1>5. Going(TrackRoutes(t, i))
  BY <1>3, <1>4, RoutesGoing DEF TrackRoutes
<1>6. i \in Signals => Going(SignalRoute(t, i))
  BY <1>1, RoutesGoing
<1> QED BY <1>2, <1>5, <1>6

-----------------------------------------------------------------------------
(* The steps of the line.                                                  *)
GoingInv == IInv /\ FarFree /\ Going(bits)

(* Nothing is set in the initial states.                                   *)
LEMMA InitGoing == Init => Going(bits)
<1> SUFFICES ASSUME Init PROVE Going(bits)
  OBVIOUS
<1>1. /\ bits.success = {} /\ bits.pending = {} /\ bits.set = {}
      /\ bits.occ = {} /\ bits.green = {}
  BY DEF Init
<1>2. Typed(bits)
  BY DEF Init, Typed
<1>3. \A j \in Pieces : Locked(bits, j)
  BY <1>1 DEF Locked
<1>4. \A j \in Pieces : Calm(bits, j)
  BY <1>1, <1>3 DEF Calm, Simulated
<1>5. \A i \in Pieces, d \in Directions : GoesOn(bits, i, d)
  BY <1>1 DEF GoesOn
<1> QED BY <1>1, <1>2, <1>4, <1>5 DEF Going

(* A change of a detector is one that nothing quiet depends on.            *)
LEMMA ChangesGoing ==
    ASSUME FarFree, NEW t, Going(t), bits' = t, NEW i,
           detector' = detector \/ (i \in Changing /\ detector' = Switch(detector, i, i \notin detector))
    PROVE  FarFree' /\ Going(bits)'
<1>1. \A k : k \notin Changing => (k \in detector' <=> k \in detector)
  BY DEF Switch
<1>2. FarFree'
  BY <1>1 DEF FarFree
<1>3. ASSUME NEW j \in Pieces PROVE Calm(bits, j)'
  <2>1. Calm(t, j)
    BY DEF Going
  <2>2. \A d \in Directions : Quiet(j, d) => NextDetector(Along(j, d), d) \notin Changing
    BY QuietAhead
  <2>3. Simulated(t, j) => Simulated(bits, j)'
    BY <1>1, <2>2 DEF Simulated, Locked
  <2>4. Locked(t, j) => Locked(bits, j)'
    BY DEF Locked
  <2> QED BY <1>1, <2>1, <2>3, <2>4 DEF Calm
<1>4. \A k \in Pieces, d \in Directions : GoesOn(bits, k, d)'
  BY DEF Going, GoesOn, Continues
<1> QED BY <1>2, <1>3, <1>4 DEF Going, Typed

(* Steps of the neighbours: they write neither routes nor occupancy, and   *)
(* answer success only at the end of the line.                             *)
LEMMA NeighboursGoing ==
    ASSUME NEW t, Typed(t), t.green \subseteq GreenAt, Going(bits),
           t.pending = bits.pending, t.busy = bits.busy, t.set = bits.set,
           t.occ = bits.occ, t.seen = bits.seen,
           \A k \in Pieces, d \in Directions :
              <<Along(k, d), d>> \in t.success =>
                 <<Along(k, d), d>> \in bits.success \/ Along(k, d) = Target(d)
    PROVE  Going(t)
<1>1. \A j \in Pieces : Locked(bits, j) => Locked(t, j)
  BY DEF Locked
<1>2. \A j \in Pieces : Calm(t, j)
  BY <1>1 DEF Going, Calm, Simulated
<1>3. \A k \in Pieces, d \in Directions : GoesOn(t, k, d)
  BY DEF Going, GoesOn, Continues
<1> QED BY <1>2, <1>3 DEF Going

(* Every step of a line lets its routes go on.                             *)
LEMMA NextGoing ==
    ASSUME Sighted, GoingInv, [Next]_vars
    PROVE  FarFree' /\ Going(bits)'
<1>0. Going(bits) /\ Typed(bits) /\ bits.green \subseteq GreenAt /\ ~reset /\ FarFree
  BY DEF GoingInv, IInv, Going
<1>1. ASSUME NEW i \in Pieces, RunPiece(i) PROVE FarFree' /\ Going(bits)'
  <2>1. bits' = Body(bits, i) /\ detector' = detector
    BY <1>1 DEF RunPiece
  <2>2. Going(Body(bits, i))
    BY <1>0, BodyGoing
  <2> QED BY <1>0, <2>1, <2>2, ChangesGoing
<1>2. ASSUME NEW i \in Pieces, RequestGreen(i) PROVE FarFree' /\ Going(bits)'
  <2> DEFINE t == [bits EXCEPT !.green = @ \cup {i}]
  <2>1. bits' = t /\ detector' = detector /\ i \in GreenAt /\ i \in Signals
    BY <1>2, RouteSettingAssumption DEF RequestGreen, Signals
  <2>2. /\ Typed(t) /\ t.green = bits.green \cup {i} /\ t.success = bits.success
        /\ t.pending = bits.pending /\ t.busy = bits.busy /\ t.set = bits.set
        /\ t.occ = bits.occ /\ t.seen = bits.seen
    BY <1>0, <2>1 DEF Typed
  <2> HIDE DEF t
  <2>3. Going(t)
    BY <1>0, <2>1, <2>2, NeighboursGoing
  <2> QED BY <1>0, <2>1, <2>3, ChangesGoing
<1>3. ASSUME NEW i \in Pieces, Detect(i) PROVE FarFree' /\ Going(bits)'
  BY <1>0, <1>3, ChangesGoing DEF Detect
<1>4. ASSUME NEW d \in Directions, EndRequests(d) \/ EndLearns(d)
      PROVE  FarFree' /\ Going(bits)'
  <2>1. <<Origin(d), d>> \in Ports
    BY Places DEF Ports
  <2>2. /\ Typed(bits') /\ bits'.green = bits.green
        /\ bits'.success = bits.success \ {<<First(d), d>>}
        /\ bits'.pending = bits.pending /\ bits'.busy = bits.busy /\ bits'.set = bits.set
        /\ bits'.occ = bits.occ /\ bits'.seen = bits.seen
    <3>1. CASE EndRequests(d)
      BY <1>0, <2>1, <3>1 DEF Typed, EndRequests
    <3>2. CASE EndLearns(d)
      BY <1>0, <3>2 DEF Typed, EndLearns
    <3> QED BY <1>4, <3>1, <3>2
  <2>3. Going(bits')
    BY <1>0, <2>2, NeighboursGoing
  <2>4. detector' = detector
    BY <1>4 DEF EndRequests, EndLearns
  <2> QED BY <1>0, <2>3, <2>4, ChangesGoing
<1>5. ASSUME NEW d \in Directions, EndAnswers(d) PROVE FarFree' /\ Going(bits)'
  <2>1. PICK ok \in BOOLEAN : bits' = AnswerNow(bits, Target(d), d, ok)
    BY <1>5 DEF EndAnswers
  <2> DEFINE t == AnswerNow(bits, Target(d), d, ok)
             a == Switch(bits.success, <<Target(d), d>>, ok)
             b == Switch(bits.failure, <<Target(d), d>>, ~ok)
  <2>2. /\ Typed(t) /\ t.green = bits.green /\ t.pending = bits.pending
        /\ t.busy = bits.busy /\ t.success = a
    BY <1>0, Places, AnswerNowEffect
  <2>3. t.occ = bits.occ /\ t.seen = bits.seen /\ t.set = bits.set
    <3>1. t = [[bits EXCEPT !.success = a, !.failure = b]
                 EXCEPT !.try = @ \ {<<Back(Target(d), d), d>>}]
      BY <1>0 DEF AnswerNow, Answer, Typed
    <3> HIDE DEF a, b, t
    <3> QED BY <1>0, <3>1 DEF Typed
  <2>4. \A p \in a : p \in bits.success \/ p = <<Target(d), d>>
    BY DEF Switch
  <2> HIDE DEF t, a
  <2>5. Going(t)
    <3>1. \A k \in Pieces, e \in Directions :
             <<Along(k, e), e>> \in t.success =>
                <<Along(k, e), e>> \in bits.success \/ Along(k, e) = Target(e)
      BY <2>2, <2>4
    <3> QED BY <1>0, <2>2, <2>3, <3>1, NeighboursGoing
  <2>6. detector' = detector /\ bits' = t
    BY <1>5, <2>1 DEF EndAnswers, t
  <2> QED BY <1>0, <2>5, <2>6, ChangesGoing
<1>6. CASE UNCHANGED vars
  BY <1>0, <1>6, ChangesGoing DEF vars
<1> QED
  BY <1>1, <1>2, <1>3, <1>4, <1>5, <1>6 DEF Next

(* Where no detector ahead changes, a route never ends in the middle of    *)
(* the line: the automata set the routes of a request from its end         *)
(* backwards, and no simulated or detected train takes a piece out of the  *)
(* way ahead, on a line of any length and in whatever order they run.      *)
THEOREM RoutesGoOn == Sighted => (Spec /\ FarFree => []RouteGoesOn)
<1>1. Init /\ FarFree => GoingInv
  BY InitIInv, InitGoing DEF GoingInv
<1>2. GoingInv => RouteGoesOn
  BY DEF GoingInv, Going, GoesOn, Continues, StopsAt, Quiet, RouteGoesOn
<1>3. ASSUME Sighted PROVE Spec /\ FarFree => []RouteGoesOn
  <2>1. GoingInv /\ [Next]_vars => GoingInv'
    BY <1>3, NextIInv, NextGoing DEF GoingInv
  <2> QED BY <1>1, <1>2, <2>1, PTL DEF Spec
<1> QED
  BY <1>3
=============================================================================
