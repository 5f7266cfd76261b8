--------------------------- MODULE SchedulesProofs ---------------------------
(***************************************************************************)
(* Proofs about the automatic trains, for any trains, transitions, clients *)
(* and magnets.                                                            *)
(*                                                                         *)
(* A run of an automaton folds its rules over clients, magnets or the      *)
(* transitions of the schedule.  What each rule does to the record it      *)
(* works on is stated once (HasMoved, HasSetOut, HasLeft, ...), and then   *)
(* five layers of facts are carried through the rules, the fold, the end   *)
(* of the run and the steps of the system: types, permission and coil      *)
(* (Typed), the lock and the way routing runs ahead (LockInv), and, once   *)
(* the trains are ready to start, that magnets only move for a train that  *)
(* works on its points (RestInv), the points and the places of the trains  *)
(* (TrackInv), and reversing (TurnInv).                                    *)
(***************************************************************************)
EXTENDS Schedules, FiniteSetTheorems, TLAPS

-----------------------------------------------------------------------------
(* The flip-flop.  The client that has the turn is the only one in next;   *)
(* a permission that is out is granted or taken, and the state tells.      *)
FlipFlopType ==
    [state : {"StFree", "StLocked", "StGranted", "StGrantWait",
              "StStolen", "StStolenWait", "StStealOnHold"},
     timer : 0..(WaitTimeout + HoldTimeout),
     next : SUBSET TheClients, request : SUBSET TheClients,
     granted : SUBSET TheClients, taken : SUBSET TheClients,
     stealRequest : BOOLEAN, stealGranted : BOOLEAN]

OneOut(s) ==
    \/ s.granted = {} /\ \E c \in TheClients : s.taken = {c}
    \/ s.taken = {} /\ \E c \in TheClients : s.granted = {c}

PermitGood(s) ==
    /\ s.state = "StFree" => s.next = {}
    /\ s.state # "StFree" => \E c \in TheClients : s.next = {c}
    /\ s.state \notin {"StGranted", "StStolen"} => s.granted = {} /\ s.taken = {}
    /\ s.state = "StGranted" => OneOut(s) /\ s.granted \cup s.taken = s.next
    /\ s.state = "StStolen" => OneOut(s)

FlipFlopGood(s) == s \in FlipFlopType /\ PermitGood(s)

ServeFold == INSTANCE FoldProofs WITH Op <- ServeClient, Good <- FlipFlopGood

(* Each rule of FlipFlopLogic keeps it.                                    *)
LEMMA TurnRules ==
  ASSUME NEW s, FlipFlopGood(s), NEW c \in TheClients
  PROVE  FlipFlopGood(TakeTurn(s, c)) /\ FlipFlopGood(PassTurn(s, c))
<1>1. s \in FlipFlopType /\ PermitGood(s)
  BY DEF FlipFlopGood
<1>2. FlipFlopGood(TakeTurn(s, c))
  <2>1. CASE s.state = "StFree"
    <3> DEFINE n == s.next \cup {c}
               t == [s EXCEPT !.state = "StLocked", !.next = n]
    <3>1. TakeTurn(s, c) = t
      BY <2>1 DEF TakeTurn
    <3>2. n = {c} /\ s.granted = {} /\ s.taken = {}
      BY <1>1, <2>1 DEF PermitGood
    <3> HIDE DEF n
    <3>3. t \in FlipFlopType
      BY <1>1, <3>2 DEF FlipFlopType
    <3>4. t.state = "StLocked" /\ t.next = {c} /\ t.granted = {} /\ t.taken = {}
      BY <1>1, <3>2 DEF FlipFlopType
    <3> QED BY <3>1, <3>3, <3>4 DEF FlipFlopGood, PermitGood
  <2>2. CASE s.state # "StFree"
    BY <2>2 DEF TakeTurn
  <2> QED BY <2>1, <2>2
<1>3. FlipFlopGood(PassTurn(s, c))
  <2>1. CASE s.state = "StGrantWait" /\ c \in s.next /\ s.timer = 0
    <3> DEFINE n == s.next \ {c}
               t == [s EXCEPT !.next = n, !.state = "StFree"]
    <3>1. PassTurn(s, c) = t
      BY <2>1 DEF PassTurn
    <3>2. n = {} /\ s.granted = {} /\ s.taken = {}
      BY <1>1, <2>1 DEF PermitGood
    <3> HIDE DEF n
    <3>3. t \in FlipFlopType
      BY <1>1, <3>2 DEF FlipFlopType
    <3>4. t.state = "StFree" /\ t.next = {} /\ t.granted = {} /\ t.taken = {}
      BY <1>1, <3>2 DEF FlipFlopType
    <3> QED BY <3>1, <3>3, <3>4 DEF FlipFlopGood, PermitGood
  <2>2. CASE ~(s.state = "StGrantWait" /\ c \in s.next /\ s.timer = 0)
    BY <2>2 DEF PassTurn
  <2> QED BY <2>1, <2>2
<1> QED BY <1>2, <1>3

LEMMA GrantRules ==
  ASSUME NEW s, FlipFlopGood(s), NEW c \in TheClients
  PROVE  FlipFlopGood(Grant(s, c)) /\ FlipFlopGood(Redacted(s, c))
<1>1. s \in FlipFlopType /\ PermitGood(s)
  BY DEF FlipFlopGood
<1>2. FlipFlopGood(Grant(s, c))
  <2>1. CASE s.state = "StLocked" /\ c \in s.next /\ c \in s.request
    <3> DEFINE g == s.granted \cup {c}
               t == [s EXCEPT !.state = "StGranted", !.granted = g]
    <3>1. Grant(s, c) = t
      BY <2>1 DEF Grant
    <3>2. g = {c} /\ s.next = {c} /\ s.taken = {}
      BY <1>1, <2>1 DEF PermitGood
    <3> HIDE DEF g
    <3>3. t \in FlipFlopType
      BY <1>1, <3>2 DEF FlipFlopType
    <3>4. t.state = "StGranted" /\ t.next = {c} /\ t.granted = {c} /\ t.taken = {}
      BY <1>1, <3>2 DEF FlipFlopType
    <3> QED BY <3>1, <3>3, <3>4 DEF FlipFlopGood, PermitGood, OneOut
  <2>2. CASE ~(s.state = "StLocked" /\ c \in s.next /\ c \in s.request)
    BY <2>2 DEF Grant
  <2> QED BY <2>1, <2>2
<1>3. FlipFlopGood(Redacted(s, c))
  <2>1. CASE s.state = "StGranted" /\ c \in s.next /\ c \in s.granted /\ c \notin s.request
    <3> DEFINE g == s.granted \ {c}
               t == [s EXCEPT !.state = "StLocked", !.granted = g]
    <3>1. Redacted(s, c) = t
      BY <2>1 DEF Redacted
    <3>2. g = {} /\ s.next = {c} /\ s.taken = {}
      BY <1>1, <2>1 DEF PermitGood, OneOut
    <3> HIDE DEF g
    <3>3. t \in FlipFlopType
      BY <1>1, <3>2 DEF FlipFlopType
    <3>4. t.state = "StLocked" /\ t.next = {c} /\ t.granted = {} /\ t.taken = {}
      BY <1>1, <3>2 DEF FlipFlopType
    <3> QED BY <3>1, <3>3, <3>4 DEF FlipFlopGood, PermitGood
  <2>2. CASE ~(s.state = "StGranted" /\ c \in s.next /\ c \in s.granted /\ c \notin s.request)
    BY <2>2 DEF Redacted
  <2> QED BY <2>1, <2>2
<1> QED BY <1>2, <1>3

LEMMA Times ==
  /\ WaitTimeout \in 0..(WaitTimeout + HoldTimeout)
  /\ HoldTimeout \in 0..(WaitTimeout + HoldTimeout)
  /\ 0 \in 0..(WaitTimeout + HoldTimeout)
BY FlipFlopAssumption

LEMMA TakenRules ==
  ASSUME NEW s, FlipFlopGood(s), NEW c \in TheClients
  PROVE  FlipFlopGood(Taken(s, c)) /\ FlipFlopGood(StolenTaken(s, c))
<1>1. s \in FlipFlopType /\ PermitGood(s)
  BY DEF FlipFlopGood
<1>2. FlipFlopGood(Taken(s, c))
  <2>1. CASE s.state = "StGranted" /\ c \in s.next /\ c \in s.taken
    <3> DEFINE k == s.taken \ {c}
               t == [s EXCEPT !.taken = k, !.state = "StGrantWait", !.timer = WaitTimeout]
    <3>1. Taken(s, c) = t
      BY <2>1 DEF Taken
    <3>2. k = {} /\ s.next = {c} /\ s.granted = {}
      BY <1>1, <2>1 DEF PermitGood, OneOut
    <3> HIDE DEF k
    <3>3. t \in FlipFlopType
      BY <1>1, <3>2, Times DEF FlipFlopType
    <3>4. t.state = "StGrantWait" /\ t.next = {c} /\ t.granted = {} /\ t.taken = {}
      BY <1>1, <3>2 DEF FlipFlopType
    <3> QED BY <3>1, <3>3, <3>4 DEF FlipFlopGood, PermitGood
  <2>2. CASE ~(s.state = "StGranted" /\ c \in s.next /\ c \in s.taken)
    BY <2>2 DEF Taken
  <2> QED BY <2>1, <2>2
<1>3. FlipFlopGood(StolenTaken(s, c))
  <2>1. CASE s.state = "StStolen" /\ c \in s.taken
    <3> DEFINE k == s.taken \ {c}
               t == [s EXCEPT !.taken = k, !.timer = WaitTimeout, !.state = "StStolenWait"]
    <3>1. StolenTaken(s, c) = t
      BY <2>1 DEF StolenTaken
    <3>2. k = {} /\ s.granted = {} /\ \E d \in TheClients : s.next = {d}
      BY <1>1, <2>1 DEF PermitGood, OneOut
    <3> HIDE DEF k
    <3>3. t \in FlipFlopType
      BY <1>1, <3>2, Times DEF FlipFlopType
    <3>4. t.state = "StStolenWait" /\ t.next = s.next /\ t.granted = {} /\ t.taken = {}
      BY <1>1, <3>2 DEF FlipFlopType
    <3> QED BY <3>1, <3>2, <3>3, <3>4 DEF FlipFlopGood, PermitGood
  <2>2. CASE ~(s.state = "StStolen" /\ c \in s.taken)
    BY <2>2 DEF StolenTaken
  <2> QED BY <2>1, <2>2
<1> QED BY <1>2, <1>3

LEMMA StealRules ==
  ASSUME NEW s, FlipFlopGood(s), NEW c \in TheClients
  PROVE  FlipFlopGood(Steal(s, c)) /\ FlipFlopGood(StolenRedacted(s, c))
<1>1. s \in FlipFlopType /\ PermitGood(s)
  BY DEF FlipFlopGood
<1>2. FlipFlopGood(Steal(s, c))
  <2>1. CASE s.state = "StLocked" /\ c \notin s.next /\ c \in s.request /\ s.stealGranted
    <3> DEFINE g == s.granted \cup {c}
               t == [s EXCEPT !.stealRequest = FALSE, !.stealGranted = FALSE,
                              !.granted = g, !.state = "StStolen"]
    <3>1. Steal(s, c) = t
      BY <2>1 DEF Steal
    <3>2. g = {c} /\ s.taken = {} /\ \E d \in TheClients : s.next = {d}
      BY <1>1, <2>1 DEF PermitGood
    <3> HIDE DEF g
    <3>3. t \in FlipFlopType
      BY <1>1, <3>2 DEF FlipFlopType
    <3>4. t.state = "StStolen" /\ t.next = s.next /\ t.granted = {c} /\ t.taken = {}
      BY <1>1, <3>2 DEF FlipFlopType
    <3> QED BY <3>1, <3>2, <3>3, <3>4 DEF FlipFlopGood, PermitGood, OneOut
  <2>2. CASE ~(s.state = "StLocked" /\ c \notin s.next /\ c \in s.request /\ s.stealGranted)
    BY <2>2 DEF Steal
  <2> QED BY <2>1, <2>2
<1>3. FlipFlopGood(StolenRedacted(s, c))
  <2>1. CASE s.state = "StStolen" /\ c \in s.granted /\ c \notin s.request
    <3> DEFINE g == s.granted \ {c}
               t == [s EXCEPT !.granted = g, !.state = "StLocked"]
    <3>1. StolenRedacted(s, c) = t
      BY <2>1 DEF StolenRedacted
    <3>2. g = {} /\ s.taken = {} /\ \E d \in TheClients : s.next = {d}
      BY <1>1, <2>1 DEF PermitGood, OneOut
    <3> HIDE DEF g
    <3>3. t \in FlipFlopType
      BY <1>1, <3>2 DEF FlipFlopType
    <3>4. t.state = "StLocked" /\ t.next = s.next /\ t.granted = {} /\ t.taken = {}
      BY <1>1, <3>2 DEF FlipFlopType
    <3> QED BY <3>1, <3>2, <3>3, <3>4 DEF FlipFlopGood, PermitGood
  <2>2. CASE ~(s.state = "StStolen" /\ c \in s.granted /\ c \notin s.request)
    BY <2>2 DEF StolenRedacted
  <2> QED BY <2>1, <2>2
<1> QED BY <1>2, <1>3

(* The states in which nothing is out and somebody has the turn.           *)
Idle == {"StLocked", "StGrantWait", "StStolenWait", "StStealOnHold"}

Moved(s, st, n, a, b) ==
    [s EXCEPT !.state = st, !.timer = n, !.stealRequest = a, !.stealGranted = b]

LEMMA IdleGood ==
  ASSUME NEW s, FlipFlopGood(s), s.state \in Idle, NEW st \in Idle,
         NEW n \in 0..(WaitTimeout + HoldTimeout), NEW a \in BOOLEAN, NEW b \in BOOLEAN
  PROVE  FlipFlopGood(Moved(s, st, n, a, b))
<1> DEFINE t == [s EXCEPT !.state = st, !.timer = n, !.stealRequest = a, !.stealGranted = b]
<1>1. s \in FlipFlopType /\ PermitGood(s)
  BY DEF FlipFlopGood
<1>2. s.granted = {} /\ s.taken = {} /\ \E d \in TheClients : s.next = {d}
  BY <1>1 DEF PermitGood, Idle
<1>3. t \in FlipFlopType
  BY <1>1 DEF FlipFlopType, Idle
<1>4. t.state = st /\ t.next = s.next /\ t.granted = {} /\ t.taken = {}
  BY <1>1, <1>2 DEF FlipFlopType
<1> QED BY <1>2, <1>3, <1>4 DEF FlipFlopGood, PermitGood, Idle, Moved

LEMMA HoldRules ==
  ASSUME NEW s, FlipFlopGood(s), NEW c \in TheClients
  PROVE  /\ FlipFlopGood(AskToSteal(s, c)) /\ FlipFlopGood(PutOnHold(s, c))
         /\ FlipFlopGood(GrantSteal(s, c)) /\ FlipFlopGood(RefuseSteal(s, c))
         /\ FlipFlopGood(TakeBack(s, c))
<1>1. /\ s \in FlipFlopType /\ s.timer \in 0..(WaitTimeout + HoldTimeout)
      /\ s.stealRequest \in BOOLEAN /\ s.stealGranted \in BOOLEAN
  BY DEF FlipFlopGood, FlipFlopType
<1>2. \A st \in Idle, n \in 0..(WaitTimeout + HoldTimeout), a \in BOOLEAN, b \in BOOLEAN :
         s.state \in Idle => FlipFlopGood(Moved(s, st, n, a, b))
  BY IdleGood
<1>3. "StLocked" \in Idle /\ "StGrantWait" \in Idle /\ "StStolenWait" \in Idle
      /\ "StStealOnHold" \in Idle
  BY DEF Idle
<1>4. FlipFlopGood(AskToSteal(s, c))
  <2>1. \/ AskToSteal(s, c) = s
        \/ /\ s.state = "StLocked"
           /\ AskToSteal(s, c) = Moved(s, "StLocked", s.timer, TRUE, s.stealGranted)
        \/ /\ s.state = "StGrantWait"
           /\ AskToSteal(s, c) = Moved(s, "StGrantWait", s.timer, FALSE, FALSE)
    BY <1>1 DEF AskToSteal, FlipFlopType, Moved
  <2> QED BY <1>1, <1>2, <1>3, <2>1
<1>5. FlipFlopGood(PutOnHold(s, c))
  <2>1. \/ PutOnHold(s, c) = s
        \/ s.state = "StLocked" /\ PutOnHold(s, c) = Moved(s, "StStealOnHold", HoldTimeout, s.stealRequest, s.stealGranted)
    BY <1>1 DEF PutOnHold, FlipFlopType, Moved
  <2> QED BY <1>1, <1>2, <1>3, <2>1, Times
<1>6. FlipFlopGood(GrantSteal(s, c))
  <2>1. \/ GrantSteal(s, c) = s
        \/ s.state = "StStealOnHold" /\ GrantSteal(s, c) = Moved(s, "StLocked", s.timer, s.stealRequest, TRUE)
    BY <1>1 DEF GrantSteal, FlipFlopType, Moved
  <2> QED BY <1>1, <1>2, <1>3, <2>1
<1>7. FlipFlopGood(RefuseSteal(s, c))
  <2>1. \/ RefuseSteal(s, c) = s
        \/ s.state = "StStealOnHold" /\ RefuseSteal(s, c) = Moved(s, "StLocked", 0, s.stealRequest, s.stealGranted)
    BY <1>1 DEF RefuseSteal, FlipFlopType, Moved
  <2> QED BY <1>1, <1>2, <1>3, <2>1, Times
<1>8. FlipFlopGood(TakeBack(s, c))
  <2>1. \/ TakeBack(s, c) = s
        \/ s.state = "StStolenWait" /\ TakeBack(s, c) = Moved(s, "StLocked", s.timer, FALSE, FALSE)
    BY <1>1 DEF TakeBack, FlipFlopType, Moved
  <2> QED BY <1>1, <1>2, <1>3, <2>1
<1> QED BY <1>4, <1>5, <1>6, <1>7, <1>8

(* A run of the flip-flop keeps it.                                        *)
LEMMA FlipFlopKeeps ==
  ASSUME NEW s, FlipFlopGood(s)
  PROVE  FlipFlopGood(FlipFlopLogic(s))
<1>1. \A t, c : FlipFlopGood(t) /\ c \in TheClients => FlipFlopGood(ServeClient(t, c))
  BY TurnRules, GrantRules, TakenRules, StealRules, HoldRules DEF ServeClient
<1>2. Clients \in Seq(TheClients)
  BY FlipFlopAssumption
<1> QED BY <1>1, <1>2, ServeFold!FoldKeeps DEF FlipFlopLogic, FoldLeft, MapThenFoldSet, Max,
           ServeFold!FoldLeft, ServeFold!MapThenFoldSet, ServeFold!Max

(* What a train does to the flip-flop keeps it.                            *)
LEMMA ClientKeeps ==
  ASSUME NEW s, FlipFlopGood(s), NEW c \in TheClients
  PROVE  /\ \A on : FlipFlopGood(RequestPermit(s, c, on))
         /\ c \in s.granted => FlipFlopGood(TakePermit(s, c))
<1>1. s \in FlipFlopType /\ PermitGood(s) /\ s.request \in SUBSET TheClients
  BY DEF FlipFlopGood, FlipFlopType
<1>2. ASSUME NEW r \in SUBSET TheClients PROVE FlipFlopGood([s EXCEPT !.request = r])
  <2> DEFINE t == [s EXCEPT !.request = r]
  <2>1. t \in FlipFlopType
    BY <1>1 DEF FlipFlopType
  <2>2. t.state = s.state /\ t.next = s.next /\ t.granted = s.granted /\ t.taken = s.taken
    BY <1>1 DEF FlipFlopType
  <2> QED BY <1>1, <2>1, <2>2 DEF FlipFlopGood, PermitGood, OneOut
<1>3. ASSUME NEW on PROVE FlipFlopGood(RequestPermit(s, c, on))
  <2> DEFINE r == IF on THEN s.request \cup {c} ELSE s.request \ {c}
  <2>1. r \in SUBSET TheClients
    BY <1>1
  <2>2. RequestPermit(s, c, on) = [s EXCEPT !.request = r]
    BY DEF RequestPermit
  <2> HIDE DEF r
  <2> QED BY <1>2, <2>1, <2>2
<1>4. ASSUME c \in s.granted PROVE FlipFlopGood(TakePermit(s, c))
  <2> DEFINE r == s.request \ {c}
             g == s.granted \ {c}
             k == s.taken \cup {c}
             t == [s EXCEPT !.request = r, !.granted = g, !.taken = k]
  <2>1. TakePermit(s, c) = t
    BY DEF TakePermit
  <2>2. /\ r \in SUBSET TheClients /\ g = {} /\ k = {c} /\ s.state \in {"StGranted", "StStolen"}
        /\ s.state = "StGranted" => s.next = {c}
        /\ \E d \in TheClients : s.next = {d}
    BY <1>1, <1>4 DEF PermitGood, OneOut
  <2> HIDE DEF r, g, k
  <2>3. t \in FlipFlopType
    BY <1>1, <2>2 DEF FlipFlopType
  <2>4. t.state = s.state /\ t.next = s.next /\ t.granted = {} /\ t.taken = {c}
    BY <1>1, <2>2 DEF FlipFlopType
  <2> QED BY <2>1, <2>2, <2>3, <2>4 DEF FlipFlopGood, PermitGood, OneOut
<1> QED BY <1>3, <1>4

(* It makes the permission exclusive.                                      *)
LEMMA PermitIsOne ==
  ASSUME FlipFlopGood(ff) PROVE FlipFlopTypeOK /\ OnePermit
<1>1. ff \in FlipFlopType /\ PermitGood(ff)
  BY DEF FlipFlopGood
<1>2. Cardinality({}) = 0 /\ \A c : Cardinality({c}) = 1
  BY FS_EmptySet, FS_Singleton
<1>3. ASSUME OneOut(ff) PROVE Cardinality(ff.granted) + Cardinality(ff.taken) = 1
  <2>1. CASE ff.granted = {} /\ \E c \in TheClients : ff.taken = {c}
    <3>1. Cardinality(ff.granted) = 0 /\ Cardinality(ff.taken) = 1
      BY <1>2, <2>1
    <3> QED BY <3>1
  <2>2. CASE ff.taken = {} /\ \E c \in TheClients : ff.granted = {c}
    <3>1. Cardinality(ff.granted) = 1 /\ Cardinality(ff.taken) = 0
      BY <1>2, <2>2
    <3> QED BY <3>1
  <2> QED BY <1>3, <2>1, <2>2 DEF OneOut
<1>4. CASE ff.state \in {"StGranted", "StStolen"}
  BY <1>1, <1>3, <1>4 DEF FlipFlopType, FlipFlopTypeOK, PermitGood, OnePermit
<1>5. CASE ff.state \notin {"StGranted", "StStolen"}
  <2>1. ff.granted = {} /\ ff.taken = {}
    BY <1>1, <1>5 DEF PermitGood
  <2>2. Cardinality(ff.granted) + Cardinality(ff.taken) <= 1
    BY <1>2, <2>1
  <2> QED BY <1>1, <1>5, <2>1, <2>2 DEF FlipFlopType, FlipFlopTypeOK, OnePermit
<1> QED BY <1>4, <1>5

-----------------------------------------------------------------------------
(* The magnets.  Only the magnet that the state of the automaton names is  *)
(* pulled, and away from where it is.                                      *)
MagnetType ==
    [state : {StBase} \cup Reals, timer : {0, 1},
     command : SUBSET AllMagnets, remote : SUBSET Couples,
     current : SUBSET AllMagnets,
     set0 : SUBSET Reals, set1 : SUBSET Reals]

CoilGood(s) ==
    /\ s \in MagnetType
    /\ s.set0 \subseteq {s.state} /\ s.set1 \subseteq {s.state}
    /\ s.set0 \subseteq s.current /\ s.set1 \cap s.current = {}

CoupleFold == INSTANCE FoldProofs WITH Op <- Couple, Good <- CoilGood
EntryFold == INSTANCE FoldProofs WITH Op <- MagnetEntry, Good <- CoilGood

LEMMA PutTyped ==
  ASSUME NEW A, NEW S \in SUBSET A, NEW x \in A, NEW on PROVE Put(S, x, on) \in SUBSET A
BY DEF Put

(* MagnetAutomataCouple changes no coil.                                   *)
LEMMA CoupleKeeps ==
  ASSUME NEW s, CoilGood(s), NEW c \in Couples
  PROVE  CoilGood(Couple(s, c))
<1> DEFINE t == CoupleCommands(s, c)
           u == Couple(s, c)
<1>1. /\ s \in MagnetType /\ c \in AllMagnets /\ Original[c] \in AllMagnets
      /\ c \notin Reals
  BY MagnetsAssumption DEF AllMagnets, CoilGood
<1>2. \E R \in SUBSET Couples, C \in SUBSET AllMagnets :
         t = [s EXCEPT !.remote = R, !.command = C]
  <2>1. \A on : Put(s.remote, c, on) \in SUBSET Couples
    BY <1>1, PutTyped DEF MagnetType
  <2>2. \A on : Put(s.command, c, on) \in SUBSET AllMagnets
    BY <1>1, PutTyped DEF MagnetType
  <2>3. \A on : SetRemote(s.command, c, on) \in SUBSET AllMagnets
    BY <1>1, PutTyped DEF MagnetType, SetRemote
  <2> QED BY <2>1, <2>2, <2>3 DEF CoupleCommands
<1>3. /\ t \in MagnetType /\ t.state = s.state /\ t.current = s.current
      /\ t.set0 = s.set0 /\ t.set1 = s.set1
  BY <1>1, <1>2 DEF MagnetType
<1> HIDE DEF t
<1>4. \E on : u = [t EXCEPT !.current = Put(t.current, c, on)]
  BY DEF Couple, t
<1>5. \A on : Put(t.current, c, on) \in SUBSET AllMagnets
  BY <1>1, <1>3, PutTyped DEF MagnetType
<1>6. PICK on : u = [t EXCEPT !.current = Put(t.current, c, on)]
  BY <1>4
<1> HIDE DEF u
<1>7. /\ u \in MagnetType /\ u.state = s.state /\ u.set0 = s.set0 /\ u.set1 = s.set1
      /\ u.current = Put(s.current, c, on)
  BY <1>3, <1>5, <1>6 DEF MagnetType
<1>8. \A m \in Reals : m \in u.current <=> m \in s.current
  BY <1>1, <1>7 DEF Put
<1>9. s.set0 \in SUBSET Reals /\ s.set1 \in SUBSET Reals
  BY <1>1 DEF MagnetType
<1>10. CoilGood(u)
  BY <1>7, <1>8, <1>9 DEF CoilGood
<1> QED BY <1>10 DEF u

LEMMA PullKeeps ==
  ASSUME NEW s, CoilGood(s), NEW m \in Reals PROVE CoilGood(Pull(s, m))
<1>1. s \in MagnetType /\ StBase \notin Reals
  BY MagnetsAssumption DEF CoilGood
<1>2. CASE s.state = StBase /\ TimerDone(s) /\ ((m \in s.command) # (m \in s.current))
  <2>1. s.set0 = {} /\ s.set1 = {}
    BY <1>1, <1>2 DEF CoilGood, MagnetType
  <2>2. CASE m \in s.command
    <3> DEFINE A == {m}
               t == [s EXCEPT !.state = m, !.timer = 1, !.set1 = A, !.set0 = {}]
    <3>1. Pull(s, m) = t /\ m \notin s.current
      BY <1>2, <2>1, <2>2 DEF Pull
    <3>2. A \in SUBSET Reals
      OBVIOUS
    <3> HIDE DEF A
    <3>3. t \in MagnetType
      BY <1>1, <3>2 DEF MagnetType
    <3>4. t.state = m /\ t.set1 = A /\ t.set0 = {} /\ t.current = s.current
      BY <1>1 DEF MagnetType
    <3> HIDE DEF t
    <3>5. CoilGood(t)
      BY <3>1, <3>3, <3>4 DEF CoilGood, A
    <3> QED BY <3>1, <3>5
  <2>3. CASE m \notin s.command
    <3> DEFINE A == {m}
               t == [s EXCEPT !.state = m, !.timer = 1, !.set1 = {}, !.set0 = A]
    <3>1. Pull(s, m) = t /\ m \in s.current
      BY <1>2, <2>1, <2>3 DEF Pull
    <3>2. A \in SUBSET Reals
      OBVIOUS
    <3> HIDE DEF A
    <3>3. t \in MagnetType
      BY <1>1, <3>2 DEF MagnetType
    <3>4. t.state = m /\ t.set0 = A /\ t.set1 = {} /\ t.current = s.current
      BY <1>1 DEF MagnetType
    <3> HIDE DEF t
    <3>5. CoilGood(t)
      BY <3>1, <3>3, <3>4 DEF CoilGood, A
    <3> QED BY <3>1, <3>5
  <2> QED BY <2>2, <2>3
<1>3. CASE ~(s.state = StBase /\ TimerDone(s) /\ ((m \in s.command) # (m \in s.current)))
  BY <1>3 DEF Pull
<1> QED BY <1>2, <1>3

LEMMA ReleaseKeeps ==
  ASSUME NEW s, CoilGood(s), NEW m \in Reals PROVE CoilGood(ReleaseMagnet(s, m))
<1>1. s \in MagnetType /\ m \in AllMagnets
  BY DEF CoilGood, AllMagnets
<1>2. CASE s.state = m /\ TimerDone(s) /\ m \in s.set0 \cup s.set1
  <2> DEFINE C == Put(s.current, m, m \in s.set1)
             t == [s EXCEPT !.state = StBase, !.current = C, !.set0 = {}, !.set1 = {}]
  <2>1. s.set0 \ {m} = {} /\ s.set1 \ {m} = {}
    BY <1>2 DEF CoilGood
  <2>2. C \in SUBSET AllMagnets
    BY <1>1, PutTyped DEF MagnetType
  <2>3. ReleaseMagnet(s, m) = t
    BY <1>2, <2>1 DEF ReleaseMagnet
  <2> HIDE DEF C
  <2>4. t \in MagnetType
    BY <1>1, <2>2 DEF MagnetType
  <2>5. t.set0 = {} /\ t.set1 = {}
    BY <1>1 DEF MagnetType
  <2> HIDE DEF t
  <2>6. CoilGood(t)
    BY <2>4, <2>5 DEF CoilGood
  <2> QED BY <2>3, <2>6
<1>3. CASE ~(s.state = m /\ TimerDone(s) /\ m \in s.set0 \cup s.set1)
  BY <1>3 DEF ReleaseMagnet
<1> QED BY <1>2, <1>3

LEMMA ZeroKeeps ==
  ASSUME NEW s, CoilGood(s), NEW m \in Reals PROVE CoilGood(MagnetsToZero(s, m))
<1>1. s \in MagnetType /\ s.set0 \in SUBSET Reals /\ s.set1 \in SUBSET Reals
  BY DEF CoilGood, MagnetType
<1> DEFINE A == s.set0 \ {m}
           B == s.set1 \ {m}
           t == [s EXCEPT !.set0 = A, !.set1 = B]
<1>2. MagnetsToZero(s, m) = s \/ MagnetsToZero(s, m) = t
  BY DEF MagnetsToZero
<1>3. A \in SUBSET Reals /\ B \in SUBSET Reals /\ A \subseteq s.set0 /\ B \subseteq s.set1
  BY <1>1
<1> HIDE DEF A, B
<1>4. t \in MagnetType
  BY <1>1, <1>3 DEF MagnetType
<1>5. t.set0 = A /\ t.set1 = B /\ t.state = s.state /\ t.current = s.current
  BY <1>1 DEF MagnetType
<1> HIDE DEF t
<1>6. CoilGood(t)
  BY <1>3, <1>4, <1>5 DEF CoilGood
<1> QED BY <1>2, <1>6

(* A run of the magnets' automaton keeps it.                               *)
LEMMA MagnetsKeep ==
  ASSUME NEW s, CoilGood(s) PROVE CoilGood(MagnetBody(s))
<1> DEFINE a == FoldLeft(Couple, s, Coupled)
           b == FoldLeft(MagnetEntry, a, Real)
<1>1. \A t, c : CoilGood(t) /\ c \in Couples => CoilGood(Couple(t, c))
  BY CoupleKeeps
<1>2. CoilGood(a)
  <2>1. Coupled \in Seq(Couples)
    BY MagnetsAssumption
  <2> QED BY <1>1, <2>1, CoupleFold!FoldKeeps DEF FoldLeft, MapThenFoldSet, Max,
             CoupleFold!FoldLeft, CoupleFold!MapThenFoldSet, CoupleFold!Max
<1> HIDE DEF a
<1>3. \A t, m : CoilGood(t) /\ m \in Reals => CoilGood(MagnetEntry(t, m))
  BY PullKeeps, ReleaseKeeps, ZeroKeeps DEF MagnetEntry
<1>4. CoilGood(b)
  <2>1. Real \in Seq(Reals)
    BY MagnetsAssumption
  <2> QED BY <1>2, <1>3, <2>1, EntryFold!FoldKeeps DEF FoldLeft, MapThenFoldSet, Max,
             EntryFold!FoldLeft, EntryFold!MapThenFoldSet, EntryFold!Max
<1> HIDE DEF b
<1>5. MagnetBody(s) = MagnetFinal(b)
  BY DEF MagnetBody, a, b
<1>6. CoilGood(MagnetFinal(b))
  <2>1. MagnetFinal(b) = b \/ MagnetFinal(b) = [b EXCEPT !.timer = 1]
    BY DEF MagnetFinal
  <2> QED BY <1>4, <2>1 DEF CoilGood, MagnetType
<1> QED BY <1>5, <1>6

(* A train that changes a command leaves the coils alone.                  *)
LEMMA CommandKeeps ==
  ASSUME NEW s, CoilGood(s), NEW m \in AllMagnets, NEW on
  PROVE  CoilGood(Command(s, m, on))
<1> DEFINE C == Put(s.command, m, on)
           t == [s EXCEPT !.command = C]
<1>1. C \in SUBSET AllMagnets
  BY PutTyped DEF CoilGood, MagnetType
<1> HIDE DEF C
<1>2. t \in MagnetType
  BY <1>1 DEF CoilGood, MagnetType
<1>3. t.state = s.state /\ t.set0 = s.set0 /\ t.set1 = s.set1 /\ t.current = s.current
  BY DEF CoilGood, MagnetType
<1>4. CoilGood(t)
  <2> HIDE DEF t
  <2> QED BY <1>2, <1>3 DEF CoilGood
<1> QED BY <1>4 DEF C, Command

(* It makes the current for the coils exclusive.                           *)
LEMMA CoilIsOne ==
  ASSUME CoilGood(mag) PROVE MagnetsTypeOK /\ OneCoil
<1>1. mag \in MagnetType
  BY DEF CoilGood
<1>2. \/ mag.set0 = {} /\ mag.set1 = {}
      \/ mag.set0 = {mag.state} /\ mag.set1 = {}
      \/ mag.set0 = {} /\ mag.set1 = {mag.state}
  BY DEF CoilGood
<1>3. Cardinality({}) = 0 /\ Cardinality({mag.state}) = 1
  BY FS_EmptySet, FS_Singleton
<1>4. Cardinality(mag.set0) \in {0, 1} /\ Cardinality(mag.set1) \in {0, 1}
      /\ (Cardinality(mag.set0) = 0 \/ Cardinality(mag.set1) = 0)
  BY <1>2, <1>3
<1>5. OneCoil
  BY <1>4 DEF OneCoil
<1> QED BY <1>1, <1>5 DEF MagnetType, MagnetsTypeOK

-----------------------------------------------------------------------------
(* What the automaton of a train reads and writes.  Each rule has a lemma  *)
(* with its effect, from which the rest is argued.                         *)
GoodFlipFlops == {s \in FlipFlopType : PermitGood(s)}
GoodMagnets == {s \in MagnetType : CoilGood(s)}
Singles == {{b} : b \in Blocks}

RunStates ==
    SettingStates \cup {"StWaiting", "StFrozen", "StBeforeReverseWait",
                        "StReverseDoneWait", "StTransitionDone"}

TrainTimes == 0..(GreenTimeout + ReverseTimeout)

WorldType ==
    [name : TheTrains, state : RunStates, timer : TrainTimes,
     perma : Singles, rloc : SUBSET Blocks, dir : SUBSET TheTransitions,
     moving : BOOLEAN, needReverse : BOOLEAN, reversed : BOOLEAN,
     lastReversed : BOOLEAN, go : BOOLEAN, stop : BOOLEAN, det : Blocks,
     ff : GoodFlipFlops, mag : GoodMagnets, lock : BOOLEAN, green : SUBSET Blocks]

Fields ==
    {"name", "state", "timer", "perma", "rloc", "dir", "moving", "needReverse",
     "reversed", "lastReversed", "go", "stop", "det", "ff", "mag", "lock", "green"}

(* v differs from w at most in the fields of F.                            *)
Keeps(w, v, F) == \A f \in Fields \ F : v[f] = w[f]

LEMMA OneBlock ==
  /\ \A P \in Singles : P \in SUBSET Blocks /\ \E b \in Blocks : P = {b}
  /\ \A b \in Blocks : {b} \in Singles
BY DEF Singles

LEMMA TransitionIs ==
  ASSUME NEW x \in TheTransitions
  PROVE  /\ x.src \in Blocks /\ x.dst \in Blocks
         /\ x.client \in TheClients \cup {NoClient}
         /\ x.magnet \in AllMagnets \cup {NoMagnet}
         /\ x.want \in BOOLEAN /\ x.facing \in BOOLEAN /\ x.lock \in BOOLEAN
         /\ x.eager \in BOOLEAN /\ x.stub \in BOOLEAN
BY SchedulesAssumption DEF TransitionType

LEMMA StatesAre ==
  /\ {"StReadyToGo", "StTurnout", "StTurnoutFailed", "StRequestGreen",
      "StGreenRequested", "StGreenWait", "StGreenFailed", "StRequestTransition",
      "StWaiting", "StFrozen", "StBeforeReverseWait", "StReverseDoneWait",
      "StTransitionDone"} \subseteq RunStates
BY DEF RunStates, SettingStates

LEMMA TimersAre == 0 \in TrainTimes /\ GreenTimeout \in TrainTimes /\ ReverseTimeout \in TrainTimes
BY SchedulesAssumption DEF TrainTimes

Imported(w, x, v) ==
    /\ Keeps(w, v, {"rloc", "det"})
    /\ v.det = IF x.src \in w.perma THEN x.src ELSE w.det
    /\ v.rloc = IF x.src \in w.perma /\ (~x.eager \/ ~RouteOut(x.src))
                THEN w.rloc \cup {x.src}
                ELSE IF /\ x.src \notin w.perma
                        /\ ~x.eager \/ (w.state = "StWaiting" /\ ~RouteIn(x.src))
                     THEN w.rloc \ {x.src} ELSE w.rloc

LEMMA ImportEffect ==
  ASSUME NEW w \in WorldType, NEW x \in TheTransitions
  PROVE  ImportBlock(w, x) \in WorldType /\ Imported(w, x, ImportBlock(w, x))
<1> DEFINE d == IF x.src \in w.perma THEN x.src ELSE w.det
           R == IF x.src \in w.perma /\ (~x.eager \/ ~RouteOut(x.src))
                THEN w.rloc \cup {x.src}
                ELSE IF /\ x.src \notin w.perma
                        /\ ~x.eager \/ (w.state = "StWaiting" /\ ~RouteIn(x.src))
                     THEN w.rloc \ {x.src} ELSE w.rloc
           v == [w EXCEPT !.det = d, !.rloc = R]
<1>1. d \in Blocks /\ R \in SUBSET Blocks
  BY TransitionIs DEF WorldType
<1>2. ImportBlock(w, x) = v
  <2>1. x.eager \in BOOLEAN
    BY TransitionIs
  <2>2. CASE x.src \in w.perma
    BY <2>1, <2>2 DEF ImportBlock, Put, WorldType
  <2>3. CASE x.src \notin w.perma
    BY <2>1, <2>3 DEF ImportBlock, Put, WorldType
  <2> QED BY <2>2, <2>3
<1>3. /\ d = IF x.src \in w.perma THEN x.src ELSE w.det
      /\ R = IF x.src \in w.perma /\ (~x.eager \/ ~RouteOut(x.src))
                THEN w.rloc \cup {x.src}
                ELSE IF /\ x.src \notin w.perma
                        /\ ~x.eager \/ (w.state = "StWaiting" /\ ~RouteIn(x.src))
                     THEN w.rloc \ {x.src} ELSE w.rloc
  OBVIOUS
<1> HIDE DEF d, R
<1>4. v \in WorldType
  BY <1>1 DEF WorldType
<1>5. Keeps(w, v, {"rloc", "det"}) /\ v.det = d /\ v.rloc = R
  BY DEF WorldType, Keeps, Fields
<1> QED BY <1>2, <1>3, <1>4, <1>5 DEF Imported

(* The guard of MovePermaloc.                                              *)
Moves(w, x) ==
    /\ x.eager /\ w.moving
    /\ x.src \in w.perma /\ Detector(x.src) /\ RouteOut(x.src)
    /\ HasDirection(x) => x \in w.dir
    /\ x.src \notin w.rloc

HasMoved(w, x, v) ==
    IF Moves(w, x)
    THEN /\ Keeps(w, v, {"perma", "dir", "det"})
         /\ v.perma = {x.dst} /\ v.dir = w.dir \ {x} /\ v.det = x.dst
    ELSE v = w

LEMMA MoveEffect ==
  ASSUME NEW w \in WorldType, NEW x \in TheTransitions
  PROVE  MovePermaloc(w, x) \in WorldType /\ HasMoved(w, x, MovePermaloc(w, x))
<1>1. CASE Moves(w, x)
  <2> DEFINE P == {x.dst}
             Q == w.dir \ {x}
             v == [w EXCEPT !.perma = P, !.dir = Q, !.det = x.dst]
  <2>1. x.src \in w.perma /\ w.perma \in Singles
    BY <1>1 DEF Moves, WorldType
  <2>2. (w.perma \ {x.src}) \cup {x.dst} = P
    BY <2>1, OneBlock
  <2>3. P \in Singles /\ Q \in SUBSET TheTransitions /\ x.dst \in Blocks
    BY TransitionIs, OneBlock DEF WorldType
  <2>4. MovePermaloc(w, x) = v
    BY <1>1, <2>2 DEF MovePermaloc, Moves
  <2> HIDE DEF P, Q
  <2>5. v \in WorldType
    BY <2>3 DEF WorldType
  <2>6. Keeps(w, v, {"perma", "dir", "det"}) /\ v.perma = P /\ v.dir = Q /\ v.det = x.dst
    BY DEF WorldType, Keeps, Fields
  <2> QED BY <1>1, <2>4, <2>5, <2>6 DEF HasMoved, P, Q
<1>2. CASE ~Moves(w, x)
  BY <1>2 DEF MovePermaloc, Moves, HasMoved
<1> QED BY <1>1, <1>2

LEMMA GoodOnes ==
  /\ \A s : FlipFlopGood(s) <=> s \in GoodFlipFlops
  /\ \A s : CoilGood(s) <=> s \in GoodMagnets
BY DEF FlipFlopGood, CoilGood, GoodFlipFlops, GoodMagnets

LEMMA AskEffect ==
  ASSUME NEW w \in WorldType, NEW x \in TheTransitions
  PROVE  AskPermit(w, x) \in WorldType /\ Keeps(w, AskPermit(w, x), {"ff"})
<1>1. \/ AskPermit(w, x) = w
      \/ /\ x.client # NoClient
         /\ \E on : AskPermit(w, x) = [w EXCEPT !.ff = RequestPermit(w.ff, x.client, on)]
  BY DEF AskPermit
<1>2. w \in WorldType /\ Keeps(w, w, {"ff"})
  BY DEF Keeps
<1>3. ASSUME x.client # NoClient, NEW on,
             AskPermit(w, x) = [w EXCEPT !.ff = RequestPermit(w.ff, x.client, on)]
      PROVE  AskPermit(w, x) \in WorldType /\ Keeps(w, AskPermit(w, x), {"ff"})
  <2> DEFINE r == RequestPermit(w.ff, x.client, on)
             v == [w EXCEPT !.ff = r]
  <2>1. x.client \in TheClients /\ w.ff \in GoodFlipFlops
    BY <1>3, TransitionIs DEF WorldType
  <2>2. r \in GoodFlipFlops
    BY <2>1, GoodOnes, ClientKeeps
  <2> HIDE DEF r
  <2>3. v \in WorldType
    BY <2>2 DEF WorldType
  <2>4. Keeps(w, v, {"ff"})
    BY DEF WorldType, Keeps, Fields
  <2> QED BY <1>3, <2>3, <2>4 DEF r
<1> QED BY <1>1, <1>2, <1>3

(* The guard of SetOut.                                                    *)
SetsOut(w, x) ==
    /\ w.state = "StWaiting" /\ x.src \in w.rloc
    /\ MayLeave(w, x)
    /\ x.client = NoClient \/ x.client \in w.ff.request \cap w.ff.granted
    /\ x.lock => ~w.lock

HasSetOut(w, x, v) ==
    IF SetsOut(w, x)
    THEN /\ Keeps(w, v, {"state", "lock", "dir", "ff"})
         /\ v.state = "StReadyToGo" /\ v.lock = (w.lock \/ x.lock)
         /\ v.dir = IF HasDirection(x) THEN w.dir \cup {x} ELSE w.dir
    ELSE v = w

LEMMA SetOutEffect ==
  ASSUME NEW w \in WorldType, NEW x \in TheTransitions
  PROVE  SetOut(w, x) \in WorldType /\ HasSetOut(w, x, SetOut(w, x))
<1>1. CASE SetsOut(w, x)
  <2> DEFINE L == w.lock \/ x.lock
             Q == IF HasDirection(x) THEN w.dir \cup {x} ELSE w.dir
             r == IF x.client = NoClient THEN w.ff ELSE TakePermit(w.ff, x.client)
             v == [w EXCEPT !.state = "StReadyToGo", !.lock = L, !.dir = Q, !.ff = r]
  <2>1. w.ff \in GoodFlipFlops /\ (x.client # NoClient => x.client \in TheClients)
    BY TransitionIs DEF WorldType
  <2>2. x.client # NoClient => x.client \in w.ff.granted
    BY <1>1 DEF SetsOut
  <2>3. r \in GoodFlipFlops
    BY <2>1, <2>2, GoodOnes, ClientKeeps
  <2>4. L \in BOOLEAN /\ Q \in SUBSET TheTransitions
    BY TransitionIs DEF WorldType
  <2>5. SetOut(w, x) = v
    BY <1>1 DEF SetOut, SetsOut, CanTakeLock
  <2>6. /\ L = (w.lock \/ x.lock)
        /\ Q = IF HasDirection(x) THEN w.dir \cup {x} ELSE w.dir
    OBVIOUS
  <2> HIDE DEF L, Q, r
  <2>7. v \in WorldType
    BY <2>3, <2>4, StatesAre DEF WorldType
  <2>8. /\ Keeps(w, v, {"state", "lock", "dir", "ff"})
        /\ v.state = "StReadyToGo" /\ v.lock = L /\ v.dir = Q
    BY DEF WorldType, Keeps, Fields
  <2> QED BY <1>1, <2>5, <2>6, <2>7, <2>8 DEF HasSetOut
<1>2. CASE ~SetsOut(w, x)
  BY <1>2 DEF SetOut, SetsOut, CanTakeLock, HasSetOut
<1> QED BY <1>1, <1>2

Forgot(w, x, v) ==
    IF w.state = "StWaiting" /\ x.src \in w.rloc
    THEN Keeps(w, v, {"dir"}) /\ v.dir = w.dir \ {x}
    ELSE v = w

LEMMA ForgetEffect ==
  ASSUME NEW w \in WorldType, NEW x \in TheTransitions
  PROVE  ForgetDirection(w, x) \in WorldType /\ Forgot(w, x, ForgetDirection(w, x))
<1> DEFINE Q == w.dir \ {x}
           v == [w EXCEPT !.dir = Q]
<1>1. Q \in SUBSET TheTransitions
  BY DEF WorldType
<1>2. ForgetDirection(w, x) = IF w.state = "StWaiting" /\ x.src \in w.rloc THEN v ELSE w
  BY DEF ForgetDirection
<1> HIDE DEF Q
<1>3. v \in WorldType
  BY <1>1 DEF WorldType
<1>4. Keeps(w, v, {"dir"}) /\ v.dir = Q
  BY DEF WorldType, Keeps, Fields
<1> QED BY <1>2, <1>3, <1>4 DEF Forgot, Q

(* The transition that a train in a state of setting up a route is at.     *)
IsAt(w, x) ==
    /\ x.src \in IF x.eager THEN w.rloc ELSE w.perma
    /\ HasDirection(x) => x \in w.dir

HasLeft(w, x, v) ==
    IF w.state = "StRequestTransition" /\ IsAt(w, x)
    THEN /\ Keeps(w, v, {"lock", "state", "rloc", "perma", "dir"})
         /\ v.lock = (w.lock /\ ~x.lock) /\ v.state = "StTransitionDone"
         /\ v.rloc = (w.rloc \ {x.src}) \cup {x.dst}
         /\ v.perma = IF x.eager THEN w.perma ELSE {x.dst}
         /\ v.dir = IF x.eager THEN w.dir ELSE w.dir \ {x}
    ELSE v = w

LEMMA LeaveEffect ==
  ASSUME NEW w \in WorldType, NEW x \in TheTransitions
  PROVE  Leave(w, x) \in WorldType /\ HasLeft(w, x, Leave(w, x))
<1>1. CASE w.state = "StRequestTransition" /\ IsAt(w, x)
  <2> DEFINE L == w.lock /\ ~x.lock
             R == (w.rloc \ {x.src}) \cup {x.dst}
             P == IF x.eager THEN w.perma ELSE {x.dst}
             Q == IF x.eager THEN w.dir ELSE w.dir \ {x}
             v == [w EXCEPT !.lock = L, !.state = "StTransitionDone", !.rloc = R,
                            !.perma = P, !.dir = Q]
  <2>1. w.perma \in Singles /\ (~x.eager => x.src \in w.perma)
    BY <1>1 DEF WorldType, IsAt
  <2>2. ~x.eager => (w.perma \ {x.src}) \cup {x.dst} = {x.dst}
    BY <2>1, OneBlock
  <2>3. /\ L \in BOOLEAN /\ R \in SUBSET Blocks /\ P \in Singles
        /\ Q \in SUBSET TheTransitions
    BY <2>1, TransitionIs, OneBlock DEF WorldType
  <2>4. Leave(w, x) = v
    BY <1>1, <2>2 DEF Leave, IsAt
  <2>5. /\ L = (w.lock /\ ~x.lock) /\ R = (w.rloc \ {x.src}) \cup {x.dst}
        /\ P = IF x.eager THEN w.perma ELSE {x.dst}
        /\ Q = IF x.eager THEN w.dir ELSE w.dir \ {x}
    OBVIOUS
  <2> HIDE DEF L, R, P, Q
  <2>6. v \in WorldType
    BY <2>3, StatesAre DEF WorldType
  <2>7. /\ Keeps(w, v, {"lock", "state", "rloc", "perma", "dir"})
        /\ v.lock = L /\ v.state = "StTransitionDone"
        /\ v.rloc = R /\ v.perma = P /\ v.dir = Q
    BY DEF WorldType, Keeps, Fields
  <2> QED BY <1>1, <2>4, <2>5, <2>6, <2>7 DEF HasLeft
<1>2. CASE ~(w.state = "StRequestTransition" /\ IsAt(w, x))
  BY <1>2 DEF Leave, IsAt, HasLeft
<1> QED BY <1>1, <1>2

TriesAgain(w, x, v) ==
    IF w.state = "StGreenFailed" /\ IsAt(w, x)
    THEN /\ Keeps(w, v, {"lock", "state"})
         /\ v.lock = (w.lock /\ ~x.lock) /\ v.state = "StWaiting"
    ELSE v = w

LEMMA TryAgainEffect ==
  ASSUME NEW w \in WorldType, NEW x \in TheTransitions
  PROVE  TryAgain(w, x) \in WorldType /\ TriesAgain(w, x, TryAgain(w, x))
<1> DEFINE L == w.lock /\ ~x.lock
           v == [w EXCEPT !.lock = L, !.state = "StWaiting"]
<1>1. L \in BOOLEAN /\ L = (w.lock /\ ~x.lock)
  BY DEF WorldType
<1>2. TryAgain(w, x) = IF w.state = "StGreenFailed" /\ IsAt(w, x) THEN v ELSE w
  BY DEF TryAgain, IsAt
<1> HIDE DEF L
<1>3. v \in WorldType
  BY <1>1, StatesAre DEF WorldType
<1>4. Keeps(w, v, {"lock", "state"}) /\ v.lock = L /\ v.state = "StWaiting"
  BY DEF WorldType, Keeps, Fields
<1> QED BY <1>1, <1>2, <1>3, <1>4 DEF TriesAgain

(* The guard of SwitchTurnout.                                             *)
Switches(w, x) ==
    /\ x.magnet # NoMagnet /\ w.state = "StTurnout"
    /\ x.src \in w.rloc /\ (HasDirection(x) => x \in w.dir)

HasSwitched(w, x, v) ==
    IF Switches(w, x)
    THEN /\ Keeps(w, v, {"mag", "state"})
         /\ v.state = IF (x.magnet \in w.mag.current) = x.want THEN "StTurnout"
                      ELSE "StTurnoutFailed"
         /\ v.mag = IF Locked(x.magnet) THEN w.mag ELSE Command(w.mag, x.magnet, x.want)
    ELSE v = w

LEMMA SwitchEffect ==
  ASSUME NEW w \in WorldType, NEW x \in TheTransitions
  PROVE  SwitchTurnout(w, x) \in WorldType /\ HasSwitched(w, x, SwitchTurnout(w, x))
<1>1. CASE Switches(w, x)
  <2> DEFINE M == IF Locked(x.magnet) THEN w.mag ELSE Command(w.mag, x.magnet, x.want)
             st == IF (x.magnet \in w.mag.current) = x.want THEN "StTurnout"
                   ELSE "StTurnoutFailed"
             v == [w EXCEPT !.mag = M, !.state = st]
  <2>1. w.mag \in GoodMagnets /\ x.magnet \in AllMagnets /\ w.state = "StTurnout"
    BY <1>1, TransitionIs DEF WorldType, Switches
  <2>2. M \in GoodMagnets
    BY <2>1, GoodOnes, CommandKeeps
  <2>3. st \in RunStates
    BY StatesAre
  <2>4. SwitchTurnout(w, x) = v
    BY <1>1, <2>1 DEF SwitchTurnout, Switches
  <2>5. /\ st = IF (x.magnet \in w.mag.current) = x.want THEN "StTurnout"
                ELSE "StTurnoutFailed"
        /\ M = IF Locked(x.magnet) THEN w.mag ELSE Command(w.mag, x.magnet, x.want)
    OBVIOUS
  <2> HIDE DEF M, st
  <2>6. v \in WorldType
    BY <2>2, <2>3 DEF WorldType
  <2>7. Keeps(w, v, {"mag", "state"}) /\ v.mag = M /\ v.state = st
    BY DEF WorldType, Keeps, Fields
  <2> HIDE DEF v
  <2> QED BY <1>1, <2>4, <2>5, <2>6, <2>7 DEF HasSwitched
<1>2. CASE ~Switches(w, x)
  BY <1>2 DEF SwitchTurnout, Switches, HasSwitched
<1> QED BY <1>1, <1>2

(* What StopAndReverseAtStub does for a train at, or on its way to, the    *)
(* stub.                                                                   *)
Backing(w, x, v) ==
    LET n == w.needReverse \/ w.moving
    IN  \/ /\ w.state = "StWaiting" /\ Detector(x.dst) /\ n
           /\ v.state = "StBeforeReverseWait" /\ ~v.needReverse
           /\ v.reversed = w.reversed /\ v.lastReversed = w.lastReversed
        \/ /\ w.state = "StBeforeReverseWait" /\ w.timer = 0
           /\ v.state = "StReverseDoneWait" /\ v.needReverse = n
           /\ v.reversed = ~w.reversed /\ v.lastReversed = ~w.reversed
        \/ /\ w.state = "StReverseDoneWait" /\ w.timer = 0
           /\ v.state = "StWaiting" /\ v.needReverse = n
           /\ v.reversed = w.reversed /\ v.lastReversed = w.lastReversed
        \/ /\ ~(w.state = "StWaiting" /\ Detector(x.dst) /\ n)
           /\ v.state = w.state /\ v.needReverse = n
           /\ v.reversed = w.reversed /\ v.lastReversed = w.lastReversed

HasReversed(w, x, v) ==
    IF x.stub /\ x.dst \in w.perma
    THEN /\ Keeps(w, v, {"det", "needReverse", "state", "timer", "reversed", "lastReversed"})
         /\ v.det = x.dst /\ Backing(w, x, v)
    ELSE v = w

(* The effect in its four cases.                                           *)
Turned(w, x, st, n, need, rev, last) ==
    [w EXCEPT !.det = x.dst, !.needReverse = need, !.state = st, !.timer = n,
              !.reversed = rev, !.lastReversed = last]

TurnedSo(w, x, st, need, rev, last, v) ==
    /\ v \in WorldType
    /\ Keeps(w, v, {"det", "needReverse", "state", "timer", "reversed", "lastReversed"})
    /\ v.det = x.dst /\ v.needReverse = need /\ v.state = st
    /\ v.reversed = rev /\ v.lastReversed = last

LEMMA TurnedIs ==
  ASSUME NEW w \in WorldType, NEW x \in TheTransitions, NEW st \in RunStates,
         NEW n \in TrainTimes, NEW need \in BOOLEAN, NEW rev \in BOOLEAN, NEW last \in BOOLEAN
  PROVE  TurnedSo(w, x, st, need, rev, last, Turned(w, x, st, n, need, rev, last))
<1> DEFINE v == Turned(w, x, st, n, need, rev, last)
<1>1. x.dst \in Blocks
  BY TransitionIs
<1>2. v \in WorldType
  BY <1>1 DEF WorldType, Turned
<1>3. Keeps(w, v, {"det", "needReverse", "state", "timer", "reversed", "lastReversed"})
  BY DEF WorldType, Keeps, Fields, Turned
<1>4. /\ v.det = x.dst /\ v.needReverse = need /\ v.state = st
      /\ v.reversed = rev /\ v.lastReversed = last
  BY DEF WorldType, Turned
<1> QED BY <1>2, <1>3, <1>4 DEF TurnedSo

(* Turning is parking and then reversing.                                  *)
Parked(w, x, need) == [w EXCEPT !.det = x.dst, !.needReverse = need]
Reversing(w, st, n, rev) ==
    [w EXCEPT !.reversed = rev, !.lastReversed = rev, !.state = st, !.timer = n]

LEMMA TurnedInTwo ==
  ASSUME NEW w \in WorldType, NEW x \in TheTransitions, NEW st \in RunStates,
         NEW n \in TrainTimes, NEW need \in BOOLEAN, NEW rev \in BOOLEAN
  PROVE  Reversing(Parked(w, x, need), st, n, rev) = Turned(w, x, st, n, need, rev, rev)
  BY DEF WorldType, Turned, Reversing, Parked

LEMMA StubEffect ==
  ASSUME NEW w \in WorldType, NEW x \in TheTransitions
  PROVE  /\ StopAndReverseAtStub(w, x) \in WorldType
         /\ HasReversed(w, x, StopAndReverseAtStub(w, x))
<1> DEFINE v == StopAndReverseAtStub(w, x)
           need == w.needReverse \/ w.moving
           u == [w EXCEPT !.det = x.dst, !.needReverse = need]
<1>1. CASE x.stub /\ x.dst \in w.perma
  <2>1. v = ReverseTrain(u, x) /\ need \in BOOLEAN
    BY <1>1 DEF StopAndReverseAtStub
  <2>2. PICK r \in BOOLEAN : r = ~w.reversed
    OBVIOUS
  <2>3. /\ u.state = w.state /\ u.timer = w.timer /\ u.needReverse = need
        /\ u.reversed = w.reversed
    BY DEF WorldType
  <2>4. \A st \in RunStates, n \in TrainTimes, nd \in BOOLEAN, rev \in BOOLEAN, last \in BOOLEAN :
           TurnedSo(w, x, st, nd, rev, last, Turned(w, x, st, n, nd, rev, last))
    BY TurnedIs
  <2>5. /\ w.timer \in TrainTimes /\ w.state \in RunStates /\ w.reversed \in BOOLEAN
        /\ w.lastReversed \in BOOLEAN /\ FALSE \in BOOLEAN
    BY DEF WorldType
  <2>6. \/ /\ w.state = "StWaiting" /\ Detector(x.dst) /\ need
           /\ TurnedSo(w, x, "StBeforeReverseWait", FALSE, w.reversed, w.lastReversed, v)
        \/ /\ w.state = "StBeforeReverseWait" /\ w.timer = 0
           /\ TurnedSo(w, x, "StReverseDoneWait", need, r, r, v)
        \/ /\ w.state = "StReverseDoneWait" /\ w.timer = 0
           /\ TurnedSo(w, x, "StWaiting", need, w.reversed, w.lastReversed, v)
        \/ /\ ~(w.state = "StWaiting" /\ Detector(x.dst) /\ need)
           /\ TurnedSo(w, x, w.state, need, w.reversed, w.lastReversed, v)
    <3>1. CASE w.state = "StWaiting" /\ Detector(x.dst) /\ need
      <4>1. ReverseTrain(u, x) = [u EXCEPT !.needReverse = FALSE, !.state = "StBeforeReverseWait",
                                            !.timer = ReverseTimeout]
        BY <2>3, <3>1 DEF ReverseTrain
      <4>2. v = Turned(w, x, "StBeforeReverseWait", ReverseTimeout, FALSE, w.reversed, w.lastReversed)
        BY <2>1, <4>1 DEF WorldType, Turned
      <4> HIDE DEF v, need, u
      <4> QED BY <2>4, <2>5, <3>1, <4>2, StatesAre, TimersAre
    <3>2. CASE w.state = "StBeforeReverseWait" /\ w.timer = 0
      <4>1. ReverseTrain(u, x) = [u EXCEPT !.reversed = ~u.reversed, !.lastReversed = ~u.reversed,
                                     !.state = "StReverseDoneWait", !.timer = ReverseTimeout]
        BY <2>3, <3>2 DEF ReverseTrain
      <4>2. ReverseTrain(u, x) = [u EXCEPT !.reversed = r, !.lastReversed = r,
                                     !.state = "StReverseDoneWait", !.timer = ReverseTimeout]
        BY <2>2, <2>3, <4>1
      <4>3. v = Turned(w, x, "StReverseDoneWait", ReverseTimeout, need, r, r)
        <5>1. u = Parked(w, x, need)
          BY DEF Parked
        <5>2. ReverseTrain(u, x) = Reversing(u, "StReverseDoneWait", ReverseTimeout, r)
          BY <4>2 DEF Reversing
        <5> HIDE DEF v, need, u
        <5>3. Reversing(Parked(w, x, need), "StReverseDoneWait", ReverseTimeout, r)
                = Turned(w, x, "StReverseDoneWait", ReverseTimeout, need, r, r)
          BY <2>1, TurnedInTwo, StatesAre, TimersAre
        <5> QED BY <2>1, <5>1, <5>2, <5>3
      <4> HIDE DEF v, need, u
      <4> QED BY <2>1, <2>4, <3>2, <4>3, StatesAre, TimersAre
    <3>3. CASE w.state = "StReverseDoneWait" /\ w.timer = 0
      <4>1. ReverseTrain(u, x) = [u EXCEPT !.state = "StWaiting"]
        BY <2>3, <3>3 DEF ReverseTrain
      <4>2. v = Turned(w, x, "StWaiting", w.timer, need, w.reversed, w.lastReversed)
        BY <2>1, <4>1 DEF WorldType, Turned
      <4> HIDE DEF v, need, u
      <4> QED BY <2>1, <2>4, <2>5, <3>3, <4>2, StatesAre
    <3>4. CASE /\ ~(w.state = "StWaiting" /\ Detector(x.dst) /\ need)
               /\ ~(w.state = "StBeforeReverseWait" /\ w.timer = 0)
               /\ ~(w.state = "StReverseDoneWait" /\ w.timer = 0)
      <4>1. ReverseTrain(u, x) = u
        BY <2>3, <3>4 DEF ReverseTrain
      <4>2. v = Turned(w, x, w.state, w.timer, need, w.reversed, w.lastReversed)
        BY <2>1, <4>1 DEF WorldType, Turned
      <4> HIDE DEF v, need, u
      <4> QED BY <2>1, <2>4, <2>5, <3>4, <4>2
    <3> QED BY <3>1, <3>2, <3>3, <3>4
  <2>7. need = (w.needReverse \/ w.moving)
    OBVIOUS
  <2>8. v \in WorldType /\ HasReversed(w, x, v)
    <3> HIDE DEF v, need, u
    <3> QED BY <1>1, <2>2, <2>6, <2>7 DEF TurnedSo, HasReversed, Backing
  <2> QED BY <2>8
<1>2. CASE ~(x.stub /\ x.dst \in w.perma)
  BY <1>2 DEF StopAndReverseAtStub, HasReversed
<1> QED BY <1>1, <1>2

(* The states of HandleBaseStates, as changes of the state.                *)
Answers(w, b, v) ==
    \/ /\ w.state = "StRequestGreen" /\ b \notin w.green
       /\ v.state = "StGreenRequested" /\ v.green = w.green \cup {b} /\ v.go = w.go
    \/ /\ w.state = "StGreenRequested" /\ b \notin w.green /\ ~RouteOut(b)
       /\ v.state = "StGreenFailed" /\ v.green = w.green /\ v.go = w.go
    \/ /\ w.state = "StGreenRequested" /\ RouteOut(b)
       /\ v.state \in {"StGreenWait", "StRequestTransition"}
       /\ v.green = w.green /\ v.go = w.go
    \/ /\ w.state = "StGreenWait"
       /\ v.state = "StRequestTransition" /\ v.green = w.green /\ v.go = w.go
    \/ /\ w.state = "StTransitionDone"
       /\ v.state = "StWaiting" /\ v.green = w.green /\ v.go = ~w.moving
    \/ /\ w.state # "StTransitionDone"
       /\ v = w

HasAsked(w, b, v) == Keeps(w, v, {"green", "state", "timer", "go"}) /\ Answers(w, b, v)

Asked(w, g, st, n, go) ==
    [w EXCEPT !.green = g, !.state = st, !.timer = n, !.go = go]

AskedSo(w, g, st, go, v) ==
    /\ v \in WorldType
    /\ Keeps(w, v, {"green", "state", "timer", "go"})
    /\ v.green = g /\ v.state = st /\ v.go = go

LEMMA AskedIs ==
  ASSUME NEW w \in WorldType, NEW g \in SUBSET Blocks, NEW st \in RunStates,
         NEW n \in TrainTimes, NEW go \in BOOLEAN
  PROVE  AskedSo(w, g, st, go, Asked(w, g, st, n, go))
<1> DEFINE v == Asked(w, g, st, n, go)
<1>1. v \in WorldType
  BY DEF WorldType, Asked
<1>2. Keeps(w, v, {"green", "state", "timer", "go"})
  BY DEF WorldType, Keeps, Fields, Asked
<1>3. v.green = g /\ v.state = st /\ v.go = go
  BY DEF WorldType, Asked
<1> QED BY <1>1, <1>2, <1>3 DEF AskedSo

LEMMA GreenEffect ==
  ASSUME NEW w \in WorldType, NEW b \in Blocks
  PROVE  AskForGreen(w, b) \in WorldType /\ HasAsked(w, b, AskForGreen(w, b))
<1> DEFINE v == AskForGreen(w, b)
           G == w.green \cup {b}
<1>1. \A g \in SUBSET Blocks, st \in RunStates, n \in TrainTimes, go \in BOOLEAN :
         AskedSo(w, g, st, go, Asked(w, g, st, n, go))
  BY AskedIs
<1>2. /\ w.timer \in TrainTimes /\ w.green \in SUBSET Blocks /\ G \in SUBSET Blocks
      /\ w.go \in BOOLEAN /\ w.moving \in BOOLEAN
  BY DEF WorldType
<1>3. PICK g \in BOOLEAN : g = ~w.moving
  OBVIOUS
<1>4. CASE w.state = "StRequestGreen" /\ b \notin w.green
  <2>1. v = [w EXCEPT !.green = G, !.state = "StGreenRequested"]
    BY <1>4 DEF AskForGreen
  <2> HIDE DEF G
  <2>2. v = Asked(w, G, "StGreenRequested", w.timer, w.go)
    BY <2>1 DEF WorldType, Asked
  <2>3. AskedSo(w, G, "StGreenRequested", w.go, v)
    BY <1>1, <1>2, <2>2, StatesAre
  <2> HIDE DEF v
  <2>4. v \in WorldType /\ HasAsked(w, b, v)
    BY <1>4, <2>3 DEF HasAsked, Answers, AskedSo, G
  <2> QED BY <2>4 DEF v
<1>5. CASE w.state = "StGreenRequested" /\ b \notin w.green /\ ~RouteOut(b)
  <2>1. v = [w EXCEPT !.state = "StGreenFailed"]
    BY <1>5 DEF AskForGreen
  <2>2. v = Asked(w, w.green, "StGreenFailed", w.timer, w.go)
    BY <2>1 DEF WorldType, Asked
  <2>3. AskedSo(w, w.green, "StGreenFailed", w.go, v)
    BY <1>1, <1>2, <2>2, StatesAre
  <2> HIDE DEF v
  <2>4. v \in WorldType /\ HasAsked(w, b, v)
    BY <1>5, <2>3 DEF HasAsked, Answers, AskedSo
  <2> QED BY <2>4 DEF v
<1>6. CASE w.state = "StGreenRequested" /\ RouteOut(b) /\ w.moving
  <2>1. v = [w EXCEPT !.state = "StRequestTransition"]
    BY <1>6 DEF AskForGreen
  <2>2. v = Asked(w, w.green, "StRequestTransition", w.timer, w.go)
    BY <2>1 DEF WorldType, Asked
  <2>3. AskedSo(w, w.green, "StRequestTransition", w.go, v)
    BY <1>1, <1>2, <2>2, StatesAre
  <2> HIDE DEF v
  <2>4. v \in WorldType /\ HasAsked(w, b, v)
    BY <1>6, <2>3 DEF HasAsked, Answers, AskedSo
  <2> QED BY <2>4 DEF v
<1>7. CASE w.state = "StGreenRequested" /\ RouteOut(b) /\ ~w.moving
  <2>1. v = [w EXCEPT !.state = "StGreenWait", !.timer = GreenTimeout]
    BY <1>7 DEF AskForGreen
  <2>2. v = Asked(w, w.green, "StGreenWait", GreenTimeout, w.go)
    BY <2>1 DEF WorldType, Asked
  <2>3. AskedSo(w, w.green, "StGreenWait", w.go, v)
    BY <1>1, <1>2, <2>2, StatesAre, TimersAre
  <2> HIDE DEF v
  <2>4. v \in WorldType /\ HasAsked(w, b, v)
    BY <1>7, <2>3 DEF HasAsked, Answers, AskedSo
  <2> QED BY <2>4 DEF v
<1>8. CASE w.state = "StGreenWait" /\ w.timer = 0
  <2>1. v = [w EXCEPT !.state = "StRequestTransition"]
    BY <1>8 DEF AskForGreen
  <2>2. v = Asked(w, w.green, "StRequestTransition", w.timer, w.go)
    BY <2>1 DEF WorldType, Asked
  <2>3. AskedSo(w, w.green, "StRequestTransition", w.go, v)
    BY <1>1, <1>2, <2>2, StatesAre
  <2> HIDE DEF v
  <2>4. v \in WorldType /\ HasAsked(w, b, v)
    BY <1>8, <2>3 DEF HasAsked, Answers, AskedSo
  <2> QED BY <2>4 DEF v
<1>9. CASE w.state = "StTransitionDone"
  <2>1. v = [w EXCEPT !.state = "StWaiting", !.go = g]
    BY <1>3, <1>9 DEF AskForGreen
  <2>2. v = Asked(w, w.green, "StWaiting", w.timer, g)
    BY <2>1 DEF WorldType, Asked
  <2>3. AskedSo(w, w.green, "StWaiting", g, v)
    BY <1>1, <1>2, <2>2, StatesAre
  <2> HIDE DEF v
  <2>4. v \in WorldType /\ HasAsked(w, b, v)
    BY <1>3, <1>9, <2>3 DEF HasAsked, Answers, AskedSo
  <2> QED BY <2>4 DEF v
<1>10. CASE /\ ~(w.state = "StRequestGreen" /\ b \notin w.green)
            /\ ~(w.state = "StGreenRequested" /\ (RouteOut(b) \/ b \notin w.green))
            /\ ~(w.state = "StGreenWait" /\ w.timer = 0)
            /\ w.state # "StTransitionDone"
  <2>1. v = w
    BY <1>10 DEF AskForGreen
  <2>2. Keeps(w, w, {"green", "state", "timer", "go"})
    BY DEF Keeps
  <2> HIDE DEF v
  <2>3. v \in WorldType /\ HasAsked(w, b, v)
    BY <1>10, <2>1, <2>2 DEF HasAsked, Answers
  <2> QED BY <2>3 DEF v
<1> QED BY <1>4, <1>5, <1>6, <1>7, <1>8, <1>9, <1>10

LEMMA StopEffect ==
  ASSUME NEW w \in WorldType
  PROVE  /\ StopAtDetector(w) \in WorldType /\ Keeps(w, StopAtDetector(w), {"stop"})
         /\ StopAtDetector(w).stop = (w.stop \/ (w.moving /\ Detector(w.det)))
<1> DEFINE v == [w EXCEPT !.stop = TRUE]
<1>1. CASE w.moving /\ Detector(w.det)
  <2>1. StopAtDetector(w) = v
    BY <1>1 DEF StopAtDetector
  <2>2. v \in WorldType /\ v.stop = TRUE
    BY DEF WorldType
  <2>3. Keeps(w, v, {"stop"})
    BY DEF WorldType, Keeps, Fields
  <2> HIDE DEF v
  <2> QED BY <1>1, <2>1, <2>2, <2>3
<1>2. CASE ~(w.moving /\ Detector(w.det))
  <2>1. StopAtDetector(w) = w
    BY <1>2 DEF StopAtDetector
  <2>2. w.stop \in BOOLEAN
    BY DEF WorldType
  <2> QED BY <1>2, <2>1, <2>2 DEF Keeps
<1> QED BY <1>1, <1>2

(* The pairs of states of NextState.                                       *)
StatePairs ==
    {<<"StTurnout", "StRequestGreen">>, <<"StReadyToGo", "StTurnout">>,
     <<"StTurnoutFailed", "StTurnout">>, <<"StWaiting", "StFrozen">>,
     <<"StFrozen", "StWaiting">>, <<"StTurnoutFailed", "StWaiting">>,
     <<"StTurnoutFailed", "StFrozen">>}

(* The train gives up on its points.                                       *)
GivesUp(w, v) == w.state = "StTurnoutFailed" /\ v.state \in {"StWaiting", "StFrozen"}

HasStepped(w, v) ==
    \/ v = w /\ w.state # "StTurnout"
    \/ /\ Keeps(w, v, {"state"}) /\ <<w.state, v.state>> \in StatePairs
       /\ GivesUp(w, v) => ResetRoutes \in held

LEMMA StateEffect ==
  ASSUME NEW w \in WorldType
  PROVE  NextState(w) \in WorldType /\ HasStepped(w, NextState(w))
<1>1. ASSUME NEW st, <<w.state, st>> \in StatePairs, NEW v, v = [w EXCEPT !.state = st],
             w.state = "StTurnoutFailed" /\ st # "StTurnout" => ResetRoutes \in held
      PROVE  v \in WorldType /\ HasStepped(w, v)
  <2>1. st \in RunStates
    BY <1>1, StatesAre DEF StatePairs
  <2>2. v \in WorldType /\ v.state = st
    BY <1>1, <2>1 DEF WorldType
  <2>3. Keeps(w, v, {"state"})
    BY <1>1 DEF WorldType, Keeps, Fields
  <2>4. GivesUp(w, v) => ResetRoutes \in held
    BY <1>1, <2>2 DEF GivesUp
  <2> QED BY <1>1, <2>2, <2>3, <2>4 DEF HasStepped
<1>2. \/ NextState(w) = w /\ w.state # "StTurnout"
      \/ \E st : /\ <<w.state, st>> \in StatePairs /\ NextState(w) = [w EXCEPT !.state = st]
                 /\ w.state = "StTurnoutFailed" /\ st # "StTurnout" => ResetRoutes \in held
  <2>1. CASE w.state = "StTurnoutFailed"
    <3> DEFINE st == IF ResetRoutes \in held THEN GiveUp(w) ELSE "StTurnout"
    <3>1. NextState(w) = [w EXCEPT !.state = st]
      BY <2>1 DEF NextState
    <3>2. <<w.state, st>> \in StatePairs /\ (st # "StTurnout" => ResetRoutes \in held)
      BY <2>1 DEF StatePairs, GiveUp
    <3> HIDE DEF st
    <3> QED BY <3>1, <3>2
  <2>2. CASE w.state # "StTurnoutFailed"
    BY <2>2 DEF NextState, StatePairs
  <2> QED BY <2>1, <2>2
<1> QED BY <1>1, <1>2 DEF HasStepped

(* Whether SendTrainCommands stops the train, and the direction that the   *)
(* train was told before that.                                             *)
Told(w) == IF w.go THEN w.reversed ELSE w.lastReversed
Stops(w) == w.stop \/ (w.state = "StWaiting" /\ w.reversed # Told(w))

HasSent(w, v) ==
    /\ Keeps(w, v, {"moving", "go", "stop", "lastReversed"})
    /\ v.moving = ((w.moving \/ w.go) /\ ~Stops(w))
    /\ v.lastReversed = IF Stops(w) THEN w.reversed ELSE Told(w)

LEMMA SendEffect ==
  ASSUME NEW w \in WorldType
  PROVE  SendTrainCommands(w) \in WorldType /\ HasSent(w, SendTrainCommands(w))
<1> DEFINE m == (w.moving \/ w.go) /\ ~Stops(w)
           l == IF Stops(w) THEN w.reversed ELSE Told(w)
           v == [w EXCEPT !.moving = m, !.go = FALSE, !.stop = FALSE, !.lastReversed = l]
<1>1. SendTrainCommands(w) = v
  BY DEF SendTrainCommands, Stops, Told
<1>2. m \in BOOLEAN /\ l \in BOOLEAN
  BY DEF WorldType, Told
<1>3. m = ((w.moving \/ w.go) /\ ~Stops(w)) /\ l = IF Stops(w) THEN w.reversed ELSE Told(w)
  OBVIOUS
<1> HIDE DEF m, l
<1>4. v \in WorldType
  BY <1>2 DEF WorldType
<1>5. Keeps(w, v, {"moving", "go", "stop", "lastReversed"}) /\ v.moving = m /\ v.lastReversed = l
  BY DEF WorldType, Keeps, Fields
<1> HIDE DEF v
<1> QED BY <1>1, <1>3, <1>4, <1>5 DEF HasSent

-----------------------------------------------------------------------------
(* A run, rule by rule: a transition of the schedule takes w to z.         *)
Through(w, x, a, b, c, d, e, f, g, h, z) ==
    /\ {a, b, c, d, e, f, g, h, z} \subseteq WorldType
    /\ Imported(w, x, a) /\ HasMoved(a, x, b) /\ Keeps(b, c, {"ff"})
    /\ HasSetOut(c, x, d) /\ Forgot(d, x, e) /\ HasLeft(e, x, f)
    /\ TriesAgain(f, x, g) /\ HasSwitched(g, x, h) /\ HasReversed(h, x, z)

LEMMA TransitionEffect ==
  ASSUME NEW w \in WorldType, NEW x \in TheTransitions
  PROVE  /\ AddBlockTransition(w, x) \in WorldType
         /\ \E a, b, c, d, e, f, g, h :
               Through(w, x, a, b, c, d, e, f, g, h, AddBlockTransition(w, x))
<1> DEFINE a == ImportBlock(w, x)
           b == MovePermaloc(a, x)
           c == AskPermit(b, x)
           d == SetOut(c, x)
           e == ForgetDirection(d, x)
           f == Leave(e, x)
           g == TryAgain(f, x)
           h == SwitchTurnout(g, x)
           z == StopAndReverseAtStub(h, x)
<1>0. AddBlockTransition(w, x) = z
  BY DEF AddBlockTransition
<1>1. a \in WorldType /\ Imported(w, x, a)
  BY ImportEffect
<1> HIDE DEF a
<1>2. b \in WorldType /\ HasMoved(a, x, b)
  BY <1>1, MoveEffect
<1> HIDE DEF b
<1>3. c \in WorldType /\ Keeps(b, c, {"ff"})
  BY <1>2, AskEffect
<1> HIDE DEF c
<1>4. d \in WorldType /\ HasSetOut(c, x, d)
  BY <1>3, SetOutEffect
<1> HIDE DEF d
<1>5. e \in WorldType /\ Forgot(d, x, e)
  BY <1>4, ForgetEffect
<1> HIDE DEF e
<1>6. f \in WorldType /\ HasLeft(e, x, f)
  BY <1>5, LeaveEffect
<1> HIDE DEF f
<1>7. g \in WorldType /\ TriesAgain(f, x, g)
  BY <1>6, TryAgainEffect
<1> HIDE DEF g
<1>8. h \in WorldType /\ HasSwitched(g, x, h)
  BY <1>7, SwitchEffect
<1> HIDE DEF h
<1>9. z \in WorldType /\ HasReversed(h, x, z)
  BY <1>8, StubEffect
<1> HIDE DEF z
<1> QED BY <1>0, <1>1, <1>2, <1>3, <1>4, <1>5, <1>6, <1>7, <1>8, <1>9 DEF Through

(* The rules work for one train.                                           *)
LEMMA SameTrain ==
  ASSUME NEW w \in WorldType, NEW x \in TheTransitions
  PROVE  AddBlockTransition(w, x).name = w.name
<1> DEFINE z == AddBlockTransition(w, x)
<1>1. PICK a, b, c, d, e, f, g, h : Through(w, x, a, b, c, d, e, f, g, h, z)
  BY TransitionEffect
<1> HIDE DEF z
<1>2. a.name = w.name
  BY <1>1 DEF Through, Imported, Keeps, Fields
<1>3. b.name = a.name
  BY <1>1 DEF Through, HasMoved, Keeps, Fields
<1>4. c.name = b.name
  BY <1>1 DEF Through, Keeps, Fields
<1>5. d.name = c.name
  BY <1>1 DEF Through, HasSetOut, Keeps, Fields
<1>6. e.name = d.name
  BY <1>1 DEF Through, Forgot, Keeps, Fields
<1>7. f.name = e.name
  BY <1>1 DEF Through, HasLeft, Keeps, Fields
<1>8. g.name = f.name
  BY <1>1 DEF Through, TriesAgain, Keeps, Fields
<1>9. h.name = g.name
  BY <1>1 DEF Through, HasSwitched, Keeps, Fields
<1>10. z.name = h.name
  BY <1>1 DEF Through, HasReversed, Keeps, Fields
<1> QED BY <1>2, <1>3, <1>4, <1>5, <1>6, <1>7, <1>8, <1>9, <1>10 DEF z

(* HandleBaseStates and SendTrainCommands take w to z.                     *)
Closing(w, a, b, c, z) ==
    /\ {a, b, c, z} \subseteq WorldType
    /\ HasAsked(w, RoutingBlock(w), a)
    /\ Keeps(a, b, {"stop"}) /\ b.stop = (a.stop \/ (a.moving /\ Detector(a.det)))
    /\ HasStepped(b, c) /\ HasSent(c, z)

LEMMA RoutingBlockIs ==
  ASSUME NEW w \in WorldType
  PROVE  /\ RoutingBlock(w) \in Blocks
         /\ w.rloc # {} => RoutingBlock(w) \in w.rloc
<1>1. w.rloc \in SUBSET Blocks /\ \E b \in Blocks : w.perma = {b}
  BY OneBlock DEF WorldType
<1>2. \E b \in Blocks : w.rloc # {} => b \in w.rloc
  BY <1>1
<1> QED BY <1>2 DEF RoutingBlock

LEMMA ClosingEffect ==
  ASSUME NEW w \in WorldType, NEW z,
         z = SendTrainCommands(NextState(StopAtDetector(AskForGreen(w, RoutingBlock(w)))))
  PROVE  \E a, b, c : Closing(w, a, b, c, z)
<1> DEFINE a == AskForGreen(w, RoutingBlock(w))
           b == StopAtDetector(a)
           c == NextState(b)
<1>1. a \in WorldType /\ HasAsked(w, RoutingBlock(w), a)
  BY GreenEffect, RoutingBlockIs
<1>0. z = SendTrainCommands(c)
  OBVIOUS
<1> HIDE DEF a
<1>2. /\ b \in WorldType /\ Keeps(a, b, {"stop"})
      /\ b.stop = (a.stop \/ (a.moving /\ Detector(a.det)))
  BY <1>1, StopEffect
<1> HIDE DEF b
<1>3. c \in WorldType /\ HasStepped(b, c)
  BY <1>2, StateEffect
<1> HIDE DEF c
<1>4. z \in WorldType /\ HasSent(c, z)
  BY <1>0, <1>3, SendEffect
<1> QED BY <1>1, <1>2, <1>3, <1>4 DEF Closing

InWorld(w) == w \in WorldType
WorldFold == INSTANCE FoldProofs WITH Op <- AddBlockTransition, Good <- InWorld

Folded(w) == FoldLeft(AddBlockTransition, w, Transitions)

(* A run of a train leaves everything that it writes typed, the flip-flop  *)
(* and the magnets good, and the train in one block.                       *)
LEMMA RunTyped ==
  ASSUME NEW w \in WorldType
  PROVE  /\ Folded(w) \in WorldType /\ RunSchedule(w) \in WorldType
         /\ \E a, b, c : Closing(Folded(w), a, b, c, RunSchedule(w))
         /\ RunSchedule(w).state # "StTransitionDone"
<1> DEFINE v == Folded(w)
           z == RunSchedule(w)
<1>1. v \in WorldType
  <2>1. \A u, x : InWorld(u) /\ x \in TheTransitions => InWorld(AddBlockTransition(u, x))
    BY TransitionEffect DEF InWorld
  <2>2. Transitions \in Seq(TheTransitions) /\ InWorld(w)
    BY SchedulesAssumption DEF InWorld
  <2>3. InWorld(v)
    BY <2>1, <2>2, WorldFold!FoldKeeps DEF Folded, FoldLeft, MapThenFoldSet, Max,
       WorldFold!FoldLeft, WorldFold!MapThenFoldSet, WorldFold!Max
  <2> QED BY <2>3 DEF InWorld
<1>2. z = SendTrainCommands(NextState(StopAtDetector(AskForGreen(v, RoutingBlock(v)))))
  BY DEF RunSchedule, Folded
<1> HIDE DEF v, z
<1>3. \E a, b, c : Closing(v, a, b, c, z)
  BY <1>1, <1>2, ClosingEffect
<1>4. ASSUME NEW a, NEW b, NEW c, Closing(v, a, b, c, z)
      PROVE  z \in WorldType /\ z.state # "StTransitionDone"
  <2>1. z \in WorldType
    BY <1>4 DEF Closing
  <2>2. a.state # "StTransitionDone"
    BY <1>4 DEF Closing, HasAsked, Answers
  <2>3. b.state = a.state
    BY <1>4 DEF Closing, Keeps, Fields
  <2>4. c.state # "StTransitionDone"
    BY <1>4, <2>2, <2>3 DEF Closing, HasStepped, StatePairs
  <2>5. z.state = c.state
    BY <1>4 DEF Closing, HasSent, Keeps, Fields
  <2> QED BY <2>1, <2>4, <2>5
<1> QED BY <1>1, <1>3, <1>4 DEF v, z

-----------------------------------------------------------------------------
(* The types, between the runs.                                            *)
TrainType ==
    [state : RunStates \ {"StTransitionDone"}, timer : TrainTimes,
     perma : Singles, rloc : SUBSET Blocks, dir : SUBSET TheTransitions,
     moving : BOOLEAN, drove : BOOLEAN, needReverse : BOOLEAN,
     reversed : BOOLEAN, lastReversed : BOOLEAN]

Typed ==
    /\ ff \in GoodFlipFlops /\ mag \in GoodMagnets
    /\ train \in [TheTrains -> TrainType]
    /\ lock \in BOOLEAN /\ green \in SUBSET Blocks
    /\ routes \in SUBSET TheTransitions
    /\ pos \in [TheTrains -> Blocks] /\ turned \in SUBSET TheTrains
    /\ held \in SUBSET Operable
    /\ turn \in 1..(Len(Trains) + 3) /\ rounds \in 0..(MaxRounds - 1)

(* What a train's automaton leaves of the train.                           *)
After(w, d) ==
    [state |-> w.state, timer |-> w.timer, perma |-> w.perma, rloc |-> w.rloc,
     dir |-> w.dir, moving |-> w.moving, drove |-> d,
     needReverse |-> w.needReverse, reversed |-> w.reversed,
     lastReversed |-> w.lastReversed]

LEMMA WorldIs ==
  ASSUME Typed, NEW t \in TheTrains
  PROVE  /\ World(t) \in WorldType
         /\ \A d : After(World(t), d) = [train[t] EXCEPT !.drove = d]
         /\ World(t).name = t /\ World(t).lock = lock /\ World(t).green = green
         /\ World(t).mag = mag /\ World(t).ff = ff
         /\ World(t).det \in train[t].perma /\ ~World(t).go /\ ~World(t).stop
         /\ World(t).state # "StTransitionDone"
<1>1. /\ train[t] \in TrainType /\ ff \in GoodFlipFlops /\ mag \in GoodMagnets
      /\ lock \in BOOLEAN /\ green \in SUBSET Blocks
  BY DEF Typed
<1>2. /\ (CHOOSE b \in train[t].perma : TRUE) \in Blocks
      /\ (CHOOSE b \in train[t].perma : TRUE) \in train[t].perma
  <2>1. train[t].perma \in Singles
    BY <1>1 DEF TrainType
  <2>2. \E b \in train[t].perma : TRUE
    BY <2>1, OneBlock
  <2> QED BY <2>1, <2>2, OneBlock
<1>3. World(t) \in WorldType
  <2> DEFINE d == CHOOSE b \in train[t].perma : TRUE
  <2>1. World(t) =
          [name |-> t, state |-> train[t].state, timer |-> train[t].timer,
           perma |-> train[t].perma, rloc |-> train[t].rloc, dir |-> train[t].dir,
           moving |-> train[t].moving, needReverse |-> train[t].needReverse,
           reversed |-> train[t].reversed, lastReversed |-> train[t].lastReversed,
           go |-> FALSE, stop |-> FALSE, det |-> d,
           ff |-> ff, mag |-> mag, lock |-> lock, green |-> green]
    BY DEF World
  <2>2. d \in Blocks
    BY <1>2
  <2> HIDE DEF d
  <2> QED BY <1>1, <2>1, <2>2 DEF WorldType, TrainType
<1>4. \A d : After(World(t), d) = [train[t] EXCEPT !.drove = d]
  BY <1>1 DEF World, TrainType, After
<1>5. /\ World(t).name = t /\ World(t).lock = lock /\ World(t).green = green
      /\ World(t).mag = mag /\ World(t).ff = ff /\ ~World(t).go /\ ~World(t).stop
      /\ World(t).det \in train[t].perma /\ World(t).state # "StTransitionDone"
  BY <1>1, <1>2 DEF World, TrainType
<1> QED BY <1>3, <1>4, <1>5

LEMMA RunTrainIs ==
  ASSUME Typed, NEW t \in TheTrains, RunTrain(t),
         NEW z, z = RunSchedule(World(t))
  PROVE  /\ z \in WorldType /\ After(z, train[t].moving) \in TrainType
         /\ train' = [train EXCEPT ![t] = After(z, train[t].moving)]
         /\ ff' = z.ff /\ mag' = z.mag /\ lock' = z.lock /\ green' = z.green
<1>1. z \in WorldType /\ z.state # "StTransitionDone"
  BY WorldIs, RunTyped
<1>2. train[t] \in TrainType /\ train[t].moving \in BOOLEAN
  BY DEF Typed, TrainType
<1>3. After(z, train[t].moving) \in TrainType
  BY <1>1, <1>2 DEF WorldType, TrainType, After
<1> QED BY <1>1, <1>3 DEF RunTrain, After

LEMMA CountDownIs ==
  /\ \A n \in TrainTimes : CountDown(n) \in TrainTimes
  /\ \A n \in 0..(WaitTimeout + HoldTimeout) : CountDown(n) \in 0..(WaitTimeout + HoldTimeout)
  /\ \A n \in {0, 1} : CountDown(n) \in {0, 1}
BY SchedulesAssumption, FlipFlopAssumption DEF CountDown, TrainTimes

LEMMA InitTyped == SchedulesInit => Typed
<1> SUFFICES ASSUME SchedulesInit PROVE Typed
  OBVIOUS
<1>1. ff \in GoodFlipFlops
  BY Times DEF SchedulesInit, FlipFlopInit, GoodFlipFlops, FlipFlopType, PermitGood
<1>2. mag \in GoodMagnets
  <2>1. /\ Default \cup Invert \in SUBSET AllMagnets /\ Invert \in SUBSET Couples
        /\ (Reals \ Default) \cup Invert \in SUBSET AllMagnets
    BY MagnetsAssumption DEF AllMagnets
  <2> DEFINE C == Default \cup Invert
             D == (Reals \ Default) \cup Invert
  <2>2. mag = [state |-> StBase, timer |-> 0, command |-> C, remote |-> Invert,
               current |-> D, set0 |-> {}, set1 |-> {}]
    BY DEF SchedulesInit, MagnetsInit
  <2>3. C \in SUBSET AllMagnets /\ D \in SUBSET AllMagnets
    BY <2>1
  <2> HIDE DEF C, D
  <2>4. mag \in MagnetType
    BY <2>1, <2>2, <2>3 DEF MagnetType
  <2>5. mag.set0 = {} /\ mag.set1 = {}
    BY <2>2
  <2> QED BY <2>4, <2>5 DEF GoodMagnets, CoilGood
<1>3. train \in [TheTrains -> TrainType]
  <2>1. ASSUME NEW t \in TheTrains
        PROVE  [state |-> "StWaiting", timer |-> 0, perma |-> {Start[t]},
                rloc |-> {}, dir |-> {}, moving |-> FALSE, drove |-> FALSE,
                needReverse |-> FALSE, reversed |-> FALSE, lastReversed |-> FALSE] \in TrainType
    <3>1. {Start[t]} \in Singles
      BY SchedulesAssumption, OneBlock
    <3> DEFINE P == {Start[t]}
    <3> HIDE DEF P
    <3>2. [state |-> "StWaiting", timer |-> 0, perma |-> P,
                rloc |-> {}, dir |-> {}, moving |-> FALSE, drove |-> FALSE,
                needReverse |-> FALSE, reversed |-> FALSE, lastReversed |-> FALSE] \in TrainType
      BY <3>1, StatesAre, TimersAre DEF TrainType, P
    <3> QED BY <3>2 DEF P
  <2> QED BY <2>1 DEF SchedulesInit
<1>4. Len(Trains) \in Nat
  BY SchedulesAssumption
<1>5. turn \in 1..(Len(Trains) + 3) /\ rounds \in 0..(MaxRounds - 1)
  BY <1>4, SchedulesAssumption DEF SchedulesInit
<1> QED BY <1>1, <1>2, <1>3, <1>5, SchedulesAssumption DEF Typed, SchedulesInit

LEMMA TickTyped ==
  ASSUME Typed, TickAll
  PROVE  ff' \in GoodFlipFlops /\ mag' \in GoodMagnets /\ train' \in [TheTrains -> TrainType]
<1>1. ff' \in GoodFlipFlops
  <2> DEFINE n == CountDown(ff.timer)
             s == [ff EXCEPT !.timer = n]
  <2>1. ff \in FlipFlopType /\ PermitGood(ff)
    BY DEF Typed, GoodFlipFlops
  <2>2. n \in 0..(WaitTimeout + HoldTimeout)
    BY <2>1, CountDownIs DEF FlipFlopType
  <2> HIDE DEF n
  <2>3. s \in FlipFlopType
    BY <2>1, <2>2 DEF FlipFlopType
  <2>4. /\ s.state = ff.state /\ s.next = ff.next /\ s.granted = ff.granted
        /\ s.taken = ff.taken
    BY <2>1 DEF FlipFlopType
  <2>5. ff' = s
    BY DEF TickAll, n
  <2> HIDE DEF s
  <2>6. PermitGood(s)
    BY <2>1, <2>4 DEF PermitGood, OneOut
  <2> QED BY <2>3, <2>5, <2>6 DEF GoodFlipFlops
<1>2. mag' \in GoodMagnets
  <2> DEFINE n == CountDown(mag.timer)
             s == [mag EXCEPT !.timer = n]
  <2>1. mag \in MagnetType /\ CoilGood(mag)
    BY DEF Typed, GoodMagnets
  <2>2. n \in {0, 1}
    BY <2>1, CountDownIs DEF MagnetType
  <2> HIDE DEF n
  <2>3. s \in MagnetType
    BY <2>1, <2>2 DEF MagnetType
  <2>4. /\ s.state = mag.state /\ s.set0 = mag.set0 /\ s.set1 = mag.set1
        /\ s.current = mag.current
    BY <2>1 DEF MagnetType
  <2>5. mag' = s
    BY DEF TickAll, n
  <2> HIDE DEF s
  <2> QED BY <2>1, <2>3, <2>4, <2>5 DEF GoodMagnets, CoilGood
<1>3. train' \in [TheTrains -> TrainType]
  <2>1. ASSUME NEW t \in TheTrains
        PROVE  [train[t] EXCEPT !.timer = CountDown(@)] \in TrainType
    <3>1. train[t] \in TrainType
      BY DEF Typed
    <3>2. CountDown(train[t].timer) \in TrainTimes
      BY <3>1, CountDownIs DEF TrainType
    <3> QED BY <3>1, <3>2 DEF TrainType
  <2> QED BY <2>1 DEF TickAll
<1> QED BY <1>1, <1>2, <1>3

(* The steps, without whose turn it is.                                    *)
others == <<routes, pos, turned, held>>

Ticks == TickAll /\ UNCHANGED <<lock, green, others>>
Idles == UNCHANGED <<train, ff, mag, lock, green, others>>
FlipFlopRuns == RunFlipFlop /\ UNCHANGED <<train, mag, lock, green, others>>
MagnetsRun == RunMagnets /\ UNCHANGED <<train, ff, lock, green, others>>
TrainRuns(t) == RunTrain(t) /\ UNCHANGED others

LEMMA StepCases ==
  ASSUME [SchedulesNext]_schedVars
  PROVE  \/ Ticks \/ Idles \/ FlipFlopRuns \/ MagnetsRun
         \/ \E t \in TheTrains : TrainRuns(t)
         \/ \E b \in Blocks : SignalAnswers(b)
         \/ \E t \in TheTrains : TrainArrives(t)
         \/ \E x \in Operable : Hold(x)
<1>1. CASE UNCHANGED schedVars
  BY <1>1 DEF schedVars, Idles, others
<1>2. CASE RunTurn
  <2>1. CASE StartRound
    BY <1>2, <2>1 DEF RunTurn, StartRound, Ticks, Idles, others
  <2>2. CASE turn = 2 /\ RunFlipFlop /\ UNCHANGED <<train, mag, lock, green, rounds>>
    BY <1>2, <2>2 DEF RunTurn, FlipFlopRuns, others
  <2>3. CASE turn = 3 /\ RunMagnets /\ UNCHANGED <<train, ff, lock, green, rounds>>
    BY <1>2, <2>3 DEF RunTurn, MagnetsRun, others
  <2>4. CASE \E k \in DOMAIN Trains :
                turn = k + 3 /\ RunTrain(Trains[k]) /\ UNCHANGED rounds
    BY <1>2, <2>4 DEF RunTurn, TrainRuns, TheTrains, others
  <2> QED BY <1>2, <2>1, <2>2, <2>3, <2>4 DEF RunTurn
<1> QED BY <1>1, <1>2 DEF SchedulesNext

LEMMA NextTyped ==
  ASSUME Typed, [SchedulesNext]_schedVars
  PROVE  Typed'
<1>1. turn' \in 1..(Len(Trains) + 3) /\ rounds' \in 0..(MaxRounds - 1)
  <2>1. Len(Trains) \in Nat /\ MaxRounds \in Nat \ {0}
    BY SchedulesAssumption
  <2>2. turn \in 1..(Len(Trains) + 3) /\ rounds \in 0..(MaxRounds - 1)
    BY DEF Typed
  <2>3. CASE RunTurn
    <3>1. turn' \in 1..(Len(Trains) + 3)
      <4>1. turn' = (turn % (Len(Trains) + 3)) + 1
        BY <2>3 DEF RunTurn
      <4> QED BY <2>1, <2>2, <4>1
    <3>2. rounds' \in {0, rounds} \/ (rounds + 1 < MaxRounds /\ rounds' = rounds + 1)
      BY <2>3 DEF RunTurn, StartRound
    <3> QED BY <2>1, <2>2, <3>1, <3>2
  <2>4. CASE ~RunTurn
    <3>1. UNCHANGED <<turn, rounds>>
      BY <2>4 DEF SchedulesNext, schedVars, SignalAnswers, TrainArrives, Hold
    <3> QED BY <2>2, <3>1
  <2> QED BY <2>3, <2>4
<1>2. CASE Ticks
  BY <1>1, <1>2, TickTyped DEF Ticks, others, Typed
<1>3. CASE Idles
  BY <1>1, <1>3 DEF Idles, others, Typed
<1>4. CASE FlipFlopRuns
  <2>1. ff' \in GoodFlipFlops
    BY <1>4, GoodOnes, FlipFlopKeeps DEF FlipFlopRuns, RunFlipFlop, Typed
  <2> QED BY <1>1, <1>4, <2>1 DEF FlipFlopRuns, others, Typed
<1>5. CASE MagnetsRun
  <2>1. mag' \in GoodMagnets
    BY <1>5, GoodOnes, MagnetsKeep DEF MagnetsRun, RunMagnets, Typed
  <2> QED BY <1>1, <1>5, <2>1 DEF MagnetsRun, others, Typed
<1>6. ASSUME NEW t \in TheTrains, TrainRuns(t) PROVE Typed'
  <2> DEFINE z == RunSchedule(World(t))
             r == After(z, train[t].moving)
  <2>1. /\ z \in WorldType /\ r \in TrainType /\ train' = [train EXCEPT ![t] = r]
        /\ ff' = z.ff /\ mag' = z.mag /\ lock' = z.lock /\ green' = z.green
    BY <1>6, RunTrainIs DEF TrainRuns
  <2> HIDE DEF z, r
  <2>2. /\ z.ff \in GoodFlipFlops /\ z.mag \in GoodMagnets /\ z.lock \in BOOLEAN
        /\ z.green \in SUBSET Blocks
    BY <2>1 DEF WorldType
  <2>3. train' \in [TheTrains -> TrainType]
    BY <2>1 DEF Typed
  <2> QED BY <1>1, <1>6, <2>1, <2>2, <2>3 DEF TrainRuns, others, Typed
<1>7. ASSUME NEW b \in Blocks, SignalAnswers(b) PROVE Typed'
  BY <1>1, <1>7 DEF SignalAnswers, Leading, Typed
<1>8. ASSUME NEW t \in TheTrains, TrainArrives(t) PROVE Typed'
  <2>1. train' \in [TheTrains -> TrainType]
    <3>1. [train[t] EXCEPT !.drove = FALSE] \in TrainType
      BY DEF Typed, TrainType
    <3>2. train' = [train EXCEPT ![t] = [train[t] EXCEPT !.drove = FALSE]]
      BY <1>8 DEF TrainArrives
    <3> QED BY <3>1, <3>2 DEF Typed
  <2>2. PICK x \in routes : /\ pos' = [pos EXCEPT ![t] = x.dst]
                            /\ turned' = IF x.stub THEN Put(turned, t, t \notin turned) ELSE turned
                            /\ routes' = routes \ {x}
    BY <1>8 DEF TrainArrives
  <2>3. x.dst \in Blocks
    BY TransitionIs DEF Typed
  <2>4. pos' \in [TheTrains -> Blocks]
    BY <2>2, <2>3 DEF Typed
  <2>5. turned' \in SUBSET TheTrains /\ routes' \in SUBSET TheTransitions
    BY <2>2, PutTyped DEF Typed
  <2> QED BY <1>1, <1>8, <2>1, <2>4, <2>5 DEF TrainArrives, Typed
<1>9. ASSUME NEW x \in Operable, Hold(x) PROVE Typed'
  <2>1. held' \in SUBSET Operable
    BY <1>9, PutTyped DEF Hold, Typed
  <2> QED BY <1>1, <1>9, <2>1 DEF Hold, Typed
<1> QED BY <1>2, <1>3, <1>4, <1>5, <1>6, <1>7, <1>8, <1>9, StepCases

LEMMA TypedGood == Typed => SchedulesTypeOK /\ OnePermit /\ OneCoil
<1> SUFFICES ASSUME Typed PROVE SchedulesTypeOK /\ OnePermit /\ OneCoil
  OBVIOUS
<1>1. FlipFlopTypeOK /\ OnePermit
  BY PermitIsOne, GoodOnes DEF Typed
<1>2. MagnetsTypeOK /\ OneCoil
  BY CoilIsOne, GoodOnes DEF Typed
<1>3. Singles \subseteq SUBSET Blocks
  BY OneBlock
<1>4. RunStates \ {"StTransitionDone"} \subseteq
         SettingStates \cup {"StWaiting", "StFrozen", "StBeforeReverseWait", "StReverseDoneWait"}
  BY DEF RunStates
<1>5. train \in [TheTrains ->
          [state : SettingStates \cup {"StWaiting", "StFrozen",
                     "StBeforeReverseWait", "StReverseDoneWait"},
           timer : 0..(GreenTimeout + ReverseTimeout),
           perma : SUBSET Blocks, rloc : SUBSET Blocks,
           dir : SUBSET TheTransitions, moving : BOOLEAN, drove : BOOLEAN,
           needReverse : BOOLEAN, reversed : BOOLEAN, lastReversed : BOOLEAN]]
  <2>1. ASSUME NEW t \in TheTrains
        PROVE  train[t] \in
          [state : SettingStates \cup {"StWaiting", "StFrozen",
                     "StBeforeReverseWait", "StReverseDoneWait"},
           timer : 0..(GreenTimeout + ReverseTimeout),
           perma : SUBSET Blocks, rloc : SUBSET Blocks,
           dir : SUBSET TheTransitions, moving : BOOLEAN, drove : BOOLEAN,
           needReverse : BOOLEAN, reversed : BOOLEAN, lastReversed : BOOLEAN]
    <3>1. train[t] \in TrainType
      BY DEF Typed
    <3> QED BY <1>3, <1>4, <3>1 DEF TrainType, TrainTimes
  <2> QED BY <2>1 DEF Typed
<1> QED BY <1>1, <1>2, <1>5 DEF Typed, SchedulesTypeOK

(* Whatever the schedule, what the automata share is not given out twice:  *)
(* one permission of the flip-flop is out at a time, stolen or not         *)
(* (FlipFlopAutomata), one coil is on at a time (MagnetAutomataEntry), and *)
(* every variable of the automata keeps its type.                          *)
THEOREM OnePermitOneCoil == SchedulesSpec => [](SchedulesTypeOK /\ OnePermit /\ OneCoil)
<1>1. Typed /\ [SchedulesNext]_schedVars => Typed'
  BY NextTyped
<1> QED BY InitTyped, <1>1, TypedGood, PTL DEF SchedulesSpec

-----------------------------------------------------------------------------
(* The route lock.  A block is lazy when no transition from it is eager.   *)
Lazy(b) == \A x \in TheTransitions : x.src = b => ~x.eager

(* The transitions along which a train that is at its block may be going,  *)
(* and whether it needs the lock: r is a train or what its automaton       *)
(* works on.                                                               *)
Sel(r, x) == x.src \in r.perma /\ (HasDirection(x) => x \in r.dir)
Locks(r) == \E x \in TheTransitions : x.lock /\ Sel(r, x)
Holds(r) == r.state \in SettingStates /\ Locks(r)
OtherHolds(t) == \E u \in TheTrains : u # t /\ Holds(train[u])

(* Routing runs ahead of the train along eager transitions only.           *)
Closed(S) == \A x \in TheTransitions : x.eager /\ x.src \in S => x.dst \in S
Chain(r) == \A S \in SUBSET Blocks : Closed(S) /\ r.perma \subseteq S => r.rloc \subseteq S

(* A route is set up from the train's own block, or along an eager         *)
(* transition.                                                             *)
Ahead(r) ==
    r.state \in SettingStates =>
        \/ \E b \in r.perma \cap r.rloc : Lazy(b)
        \/ \E z \in TheTransitions : z.eager /\ z.src \in r.rloc

(* Routing is not at the block of a transition of A that is not eager      *)
(* unless the train is.                                                    *)
Synced(A, r) == \A x \in A : ~x.eager /\ x.src \in r.rloc => x.src \in r.perma

(* A lock that nobody holds is left by the reset button only.              *)
Leak == ResetRoutes \in Operable

LockRight(w) ==
    /\ OtherHolds(w.name) \/ Holds(w) => w.lock
    /\ w.lock => OtherHolds(w.name) \/ Holds(w) \/ Leak
    /\ ~(OtherHolds(w.name) /\ Holds(w))

LockRun(A, w) ==
    /\ w \in WorldType /\ Chain(w) /\ Ahead(w) /\ LockRight(w)
    /\ w.state = "StTransitionDone" \/ Synced(A, w)

LEMMA LazyFacts ==
  ASSUME WellLocked, NEW x \in TheTransitions
  PROVE  /\ ~x.eager => Lazy(x.src)
         /\ x.eager => ~Lazy(x.src)
BY DEF WellLocked, Lazy

(* A train in a lazy block routes from there, one in another block needs   *)
(* no lock.                                                                *)
LEMMA LazyRoutesHere ==
  ASSUME NEW r, Chain(r), NEW b \in Blocks, r.perma = {b}, Lazy(b)
  PROVE  r.rloc \subseteq {b}
<1>1. Closed({b})
  BY DEF Closed, Lazy
<1>2. {b} \in SUBSET Blocks /\ r.perma \subseteq {b}
  OBVIOUS
<1> QED BY <1>1, <1>2 DEF Chain

LEMMA EagerNeedsNone ==
  ASSUME WellLocked, NEW r, NEW b, r.perma = {b}, ~Lazy(b)
  PROVE  ~Locks(r)
BY DEF WellLocked, Locks, Sel, Lazy

(* The transition a train is at tells whether it needs the lock.           *)
LEMMA AtTells ==
  ASSUME WellLocked, NEW w \in WorldType, Chain(w), NEW x \in TheTransitions,
         x.src \in IF x.eager THEN w.rloc ELSE w.perma
  PROVE  ~x.lock => ~Locks(w)
<1>1. PICK b \in Blocks : w.perma = {b}
  BY OneBlock DEF WorldType
<1>2. CASE x.eager
  <2>1. ~Lazy(b)
    <3>1. x.src \in w.rloc /\ ~Lazy(x.src)
      BY <1>2, LazyFacts
    <3> QED BY <1>1, <3>1, LazyRoutesHere
  <2> QED BY <1>1, <2>1, EagerNeedsNone
<1>3. CASE ~x.eager
  BY <1>1, <1>3 DEF WellLocked, Locks, Sel
<1> QED BY <1>2, <1>3

(* Nothing changes for the lock as long as the train goes on setting up    *)
(* its route, or goes on not doing so.                                     *)
LEMMA LockSame ==
  ASSUME NEW A, NEW w, LockRun(A, w), NEW v \in WorldType,
         Keeps(w, v, Fields \ {"name", "lock", "perma", "rloc", "dir"}),
         v.state \in SettingStates <=> w.state \in SettingStates,
         w.state = "StTransitionDone" => v.state = "StTransitionDone"
  PROVE  LockRun(A, v)
<1>1. /\ v.name = w.name /\ v.lock = w.lock /\ v.perma = w.perma
      /\ v.rloc = w.rloc /\ v.dir = w.dir
  BY DEF Keeps, Fields
<1> QED BY <1>1 DEF LockRun, Chain, Ahead, LockRight, Holds, Locks, Sel, Synced

LEMMA LockImport ==
  ASSUME WellLocked, NEW A, NEW w, LockRun(A, w), NEW x \in TheTransitions,
         NEW v \in WorldType, Imported(w, x, v), A \subseteq TheTransitions
  PROVE  LockRun(A \cup {x}, v)
<1>1. /\ v.name = w.name /\ v.lock = w.lock /\ v.perma = w.perma
      /\ v.state = w.state /\ v.dir = w.dir
  BY DEF Imported, Keeps, Fields
<1>2. /\ v.rloc \subseteq w.rloc \cup {x.src}
      /\ x.src \in v.rloc => x.src \in w.perma \/ x.src \in w.rloc
      /\ \A b : b # x.src => (b \in v.rloc <=> b \in w.rloc)
      /\ ~x.eager => (x.src \in v.rloc <=> x.src \in w.perma)
      /\ w.state # "StWaiting" /\ x.eager => w.rloc \subseteq v.rloc
  BY DEF Imported
<1>3. Chain(v)
  BY <1>1, <1>2 DEF LockRun, Chain
<1>4. Ahead(v)
  <2>1. SUFFICES ASSUME w.state \in SettingStates
                 PROVE  \/ \E b \in w.perma \cap v.rloc : Lazy(b)
                        \/ \E z \in TheTransitions : z.eager /\ z.src \in v.rloc
    BY <1>1 DEF Ahead
  <2>2. w.state # "StWaiting"
    BY <2>1 DEF SettingStates
  <2>3. CASE x.eager
    BY <1>2, <2>1, <2>2, <2>3 DEF LockRun, Ahead
  <2>4. CASE ~x.eager
    <3>1. \A z \in TheTransitions : z.eager => z.src # x.src
      BY <2>4 DEF WellLocked
    <3> QED BY <1>2, <2>1, <2>4, <3>1 DEF LockRun, Ahead
  <2> QED BY <2>3, <2>4
<1>5. LockRight(v)
  BY <1>1 DEF LockRun, LockRight, Holds, Locks, Sel
<1>6. v.state = "StTransitionDone" \/ Synced(A \cup {x}, v)
  <2>1. ASSUME Synced(A, w) PROVE Synced(A \cup {x}, v)
    BY <1>1, <1>2, <2>1 DEF Synced
  <2> QED BY <1>1, <2>1 DEF LockRun
<1> QED BY <1>3, <1>4, <1>5, <1>6 DEF LockRun

LEMMA LockMove ==
  ASSUME WellLocked, NEW A, NEW w, LockRun(A, w), NEW x \in TheTransitions,
         NEW v \in WorldType, HasMoved(w, x, v), A \subseteq TheTransitions
  PROVE  LockRun(A, v)
<1>1. CASE Moves(w, x)
  <2>1. /\ v.name = w.name /\ v.lock = w.lock /\ v.rloc = w.rloc /\ v.state = w.state
        /\ v.perma = {x.dst} /\ v.dir = w.dir \ {x}
    BY <1>1 DEF HasMoved, Keeps, Fields
  <2>2. /\ x.eager /\ x.src \in w.perma /\ x.src \notin w.rloc
        /\ x.src \in Blocks /\ x.dst \in Blocks
    BY <1>1, TransitionIs DEF Moves
  <2>3. w.perma = {x.src} /\ ~Lazy(x.src)
    BY <2>2, OneBlock, LazyFacts DEF LockRun, WorldType
  <2>4. Chain(v)
    <3>1. ASSUME NEW S \in SUBSET Blocks, Closed(S), x.dst \in S
          PROVE  w.rloc \subseteq S
      <4>1. Closed(S \cup {x.src})
        BY <2>2, <3>1 DEF Closed, WellLocked
      <4>2. w.rloc \subseteq S \cup {x.src}
        BY <2>2, <2>3, <4>1 DEF LockRun, Chain
      <4> QED BY <2>2, <4>2
    <3> QED BY <2>1, <3>1 DEF Chain
  <2>5. w.state \in SettingStates =>
           \E z \in TheTransitions : z.eager /\ z.src \in w.rloc
    BY <2>3 DEF LockRun, Ahead
  <2>6. Ahead(v)
    BY <2>1, <2>5 DEF Ahead
  <2>7. ~Holds(w)
    BY <2>3, EagerNeedsNone DEF Holds
  <2>8. ~Holds(v)
    <3>1. SUFFICES ASSUME w.state \in SettingStates PROVE ~Locks(v)
      BY <2>1 DEF Holds
    <3>2. PICK z \in TheTransitions : z.eager /\ z.src \in w.rloc
      BY <2>5, <3>1
    <3>3. ~Lazy(z.src)
      BY <3>2, LazyFacts
    <3>4. ~Lazy(x.dst)
      BY <2>1, <2>2, <2>4, <3>2, <3>3, LazyRoutesHere
    <3> QED BY <2>1, <3>4, EagerNeedsNone
  <2>9. LockRight(v)
    BY <2>1, <2>7, <2>8 DEF LockRun, LockRight
  <2>10. v.state = "StTransitionDone" \/ Synced(A, v)
    <3>1. \A y \in TheTransitions : ~y.eager => y.src # x.src
      BY <2>2 DEF WellLocked
    <3> QED BY <2>1, <2>3, <3>1 DEF LockRun, Synced
  <2> QED BY <2>4, <2>6, <2>9, <2>10 DEF LockRun
<1>2. CASE ~Moves(w, x)
  BY <1>2 DEF HasMoved
<1> QED BY <1>1, <1>2

LEMMA LockSetOut ==
  ASSUME WellLocked, NEW A, NEW w, LockRun(A, w), NEW x \in TheTransitions, x \in A,
         NEW v \in WorldType, HasSetOut(w, x, v)
  PROVE  LockRun(A, v)
<1>1. CASE SetsOut(w, x)
  <2>1. /\ v.name = w.name /\ v.rloc = w.rloc /\ v.perma = w.perma
        /\ v.state = "StReadyToGo" /\ v.lock = (w.lock \/ x.lock)
        /\ w.dir \subseteq v.dir /\ (HasDirection(x) => x \in v.dir)
    BY <1>1 DEF HasSetOut, Keeps, Fields
  <2>2. /\ w.state = "StWaiting" /\ x.src \in w.rloc /\ (x.lock => ~w.lock)
        /\ x.lock \in BOOLEAN
    BY <1>1, TransitionIs DEF SetsOut
  <2>3. Synced(A, w)
    BY <2>2 DEF LockRun
  <2>4. ~x.eager => x.src \in w.perma
    BY <2>2, <2>3 DEF Synced
  <2>5. Chain(v)
    BY <2>1 DEF LockRun, Chain
  <2>6. Ahead(v)
    BY <2>1, <2>2, <2>4, LazyFacts DEF Ahead
  <2>7. ~Holds(w)
    BY <2>2 DEF Holds, SettingStates
  <2>8. x.lock => Holds(v)
    <3>1. x.lock => ~x.eager
      BY DEF WellLocked
    <3> QED BY <2>1, <2>4, <3>1 DEF Holds, Locks, Sel, SettingStates
  <2>9. ~x.lock => ~Holds(v)
    BY <2>1, <2>2, <2>4, <2>5, AtTells DEF Holds
  <2>10. LockRight(v)
    BY <2>1, <2>2, <2>7, <2>8, <2>9 DEF LockRun, LockRight
  <2>11. Synced(A, v)
    BY <2>1, <2>3 DEF Synced
  <2> QED BY <2>5, <2>6, <2>10, <2>11 DEF LockRun
<1>2. CASE ~SetsOut(w, x)
  BY <1>2 DEF HasSetOut
<1> QED BY <1>1, <1>2

LEMMA LockForget ==
  ASSUME NEW A, NEW w, LockRun(A, w), NEW x,
         NEW v \in WorldType, Forgot(w, x, v)
  PROVE  LockRun(A, v)
<1>1. CASE w.state = "StWaiting" /\ x.src \in w.rloc
  <2>1. /\ v.name = w.name /\ v.lock = w.lock /\ v.rloc = w.rloc /\ v.perma = w.perma
        /\ v.state = w.state
    BY <1>1 DEF Forgot, Keeps, Fields
  <2>2. ~Holds(w) /\ ~Holds(v)
    BY <1>1, <2>1 DEF Holds, SettingStates
  <2> QED BY <2>1, <2>2 DEF LockRun, Chain, Ahead, LockRight, Synced
<1>2. CASE ~(w.state = "StWaiting" /\ x.src \in w.rloc)
  BY <1>2 DEF Forgot
<1> QED BY <1>1, <1>2

(* Whoever gives the lock back has it.                                     *)
LEMMA LockGivenBack ==
  ASSUME WellLocked, NEW A, NEW w, LockRun(A, w), NEW x \in TheTransitions,
         w.state \in SettingStates, IsAt(w, x)
  PROVE  /\ OtherHolds(w.name) => w.lock /\ ~x.lock
         /\ w.lock /\ ~x.lock => OtherHolds(w.name) \/ Leak
<1>1. x.lock => Holds(w)
  <2>1. x.lock => ~x.eager
    BY DEF WellLocked
  <2> QED BY <2>1 DEF IsAt, Holds, Locks, Sel
<1>2. ~x.lock => ~Holds(w)
  BY AtTells DEF LockRun, IsAt, Holds
<1> QED BY <1>1, <1>2 DEF LockRun, LockRight

LEMMA LockLeave ==
  ASSUME WellLocked, NEW A, NEW w, LockRun(A, w), NEW x \in TheTransitions,
         NEW v \in WorldType, HasLeft(w, x, v)
  PROVE  LockRun(A, v)
<1>1. CASE w.state = "StRequestTransition" /\ IsAt(w, x)
  <2>1. /\ v.name = w.name /\ v.lock = (w.lock /\ ~x.lock) /\ v.state = "StTransitionDone"
        /\ v.rloc = (w.rloc \ {x.src}) \cup {x.dst}
        /\ v.perma = IF x.eager THEN w.perma ELSE {x.dst}
    BY <1>1 DEF HasLeft, Keeps, Fields
  <2>2. v.state \notin SettingStates
    BY <2>1 DEF SettingStates
  <2>3. /\ OtherHolds(w.name) => w.lock /\ ~x.lock
        /\ w.lock /\ ~x.lock => OtherHolds(w.name) \/ Leak
    BY <1>1, LockGivenBack DEF SettingStates
  <2>4. LockRight(v)
    BY <2>1, <2>2, <2>3 DEF LockRight, Holds
  <2>5. Chain(v)
    <3>1. CASE x.eager
      <4>1. x.src \in w.rloc /\ v.perma = w.perma
        BY <1>1, <2>1, <3>1 DEF IsAt
      <4> QED BY <2>1, <3>1, <4>1 DEF LockRun, Chain, Closed
    <3>2. CASE ~x.eager
      <4>1. w.perma = {x.src} /\ x.src \in Blocks
        BY <1>1, <3>2, OneBlock, TransitionIs DEF IsAt, LockRun, WorldType
      <4>2. w.rloc \subseteq {x.src}
        BY <3>2, <4>1, LazyFacts, LazyRoutesHere DEF LockRun
      <4>3. v.rloc = {x.dst} /\ v.perma = {x.dst}
        BY <2>1, <3>2, <4>2
      <4> QED BY <4>3 DEF Chain
    <3> QED BY <3>1, <3>2
  <2> QED BY <2>1, <2>2, <2>4, <2>5 DEF LockRun, Ahead
<1>2. CASE ~(w.state = "StRequestTransition" /\ IsAt(w, x))
  BY <1>2 DEF HasLeft
<1> QED BY <1>1, <1>2

LEMMA LockTryAgain ==
  ASSUME WellLocked, NEW A, NEW w, LockRun(A, w), NEW x \in TheTransitions,
         NEW v \in WorldType, TriesAgain(w, x, v)
  PROVE  LockRun(A, v)
<1>1. CASE w.state = "StGreenFailed" /\ IsAt(w, x)
  <2>1. /\ v.name = w.name /\ v.lock = (w.lock /\ ~x.lock) /\ v.state = "StWaiting"
        /\ v.rloc = w.rloc /\ v.perma = w.perma
    BY <1>1 DEF TriesAgain, Keeps, Fields
  <2>2. v.state \notin SettingStates
    BY <2>1 DEF SettingStates
  <2>3. /\ OtherHolds(w.name) => w.lock /\ ~x.lock
        /\ w.lock /\ ~x.lock => OtherHolds(w.name) \/ Leak
    BY <1>1, LockGivenBack DEF SettingStates
  <2>4. LockRight(v)
    BY <2>1, <2>2, <2>3 DEF LockRight, Holds
  <2> QED BY <1>1, <2>1, <2>2, <2>4 DEF LockRun, Ahead, Chain, Synced
<1>2. CASE ~(w.state = "StGreenFailed" /\ IsAt(w, x))
  BY <1>2 DEF TriesAgain
<1> QED BY <1>1, <1>2

LEMMA LockRest ==
  ASSUME NEW A, NEW w, LockRun(A, w), NEW x, NEW v \in WorldType,
         \/ Keeps(w, v, {"ff"})
         \/ HasSwitched(w, x, v)
         \/ HasReversed(w, x, v)
  PROVE  LockRun(A, v)
<1>1. Keeps(w, v, Fields \ {"name", "lock", "perma", "rloc", "dir"})
  BY DEF HasSwitched, HasReversed, Keeps, Fields
<1>2. /\ v.state \in SettingStates <=> w.state \in SettingStates
      /\ w.state = "StTransitionDone" => v.state = "StTransitionDone"
  <2>1. CASE Keeps(w, v, {"ff"})
    BY <2>1 DEF Keeps, Fields
  <2>2. CASE HasSwitched(w, x, v)
    BY <2>2 DEF HasSwitched, Switches, SettingStates
  <2>3. CASE HasReversed(w, x, v)
    BY <2>3 DEF HasReversed, Backing, SettingStates
  <2> QED BY <2>1, <2>2, <2>3
<1> QED BY <1>1, <1>2, LockSame

(* A transition of the schedule keeps it, rule by rule.                    *)
LEMMA LockThrough ==
  ASSUME WellLocked, NEW A, A \subseteq TheTransitions, NEW w, LockRun(A, w),
         NEW x \in TheTransitions, NEW B, B = A \cup {x},
         NEW a, NEW b, NEW c, NEW d, NEW e, NEW f, NEW g, NEW h, NEW z,
         Through(w, x, a, b, c, d, e, f, g, h, z)
  PROVE  /\ LockRun(B, a) /\ LockRun(B, b) /\ LockRun(B, c) /\ LockRun(B, d)
         /\ LockRun(B, e) /\ LockRun(B, f) /\ LockRun(B, g) /\ LockRun(B, h)
         /\ LockRun(B, z)
<1>2. B \subseteq TheTransitions /\ x \in B
  OBVIOUS
<1>3. LockRun(B, a)
  BY LockImport DEF Through
<1>4. LockRun(B, b)
  BY <1>2, <1>3, LockMove DEF Through
<1>5. LockRun(B, c)
  BY <1>4, LockRest DEF Through
<1>6. LockRun(B, d)
  BY <1>2, <1>5, LockSetOut DEF Through
<1>7. LockRun(B, e)
  BY <1>6, LockForget DEF Through
<1>8. LockRun(B, f)
  BY <1>7, LockLeave DEF Through
<1>9. LockRun(B, g)
  BY <1>8, LockTryAgain DEF Through
<1>10. LockRun(B, h)
  BY <1>9, LockRest DEF Through
<1>11. LockRun(B, z)
  BY <1>10, LockRest DEF Through
<1> QED BY <1>3, <1>4, <1>5, <1>6, <1>7, <1>8, <1>9, <1>10, <1>11

LEMMA LockTransition ==
  ASSUME WellLocked, NEW A, A \subseteq TheTransitions, NEW w, LockRun(A, w),
         NEW x \in TheTransitions
  PROVE  LockRun(A \cup {x}, AddBlockTransition(w, x))
<1>0. w \in WorldType
  BY DEF LockRun
<1>1. PICK a, b, c, d, e, f, g, h :
         Through(w, x, a, b, c, d, e, f, g, h, AddBlockTransition(w, x))
  BY <1>0, TransitionEffect
<1> QED BY <1>1, LockThrough

(* A run keeps it, and ends with the routing of a train that sets up a     *)
(* route in step with it.                                                  *)
FirstOnes(k) == {Transitions[j] : j \in 1..k}
LockSoFar(p) == LockRun(FirstOnes(p[2]), p[3]) /\ p[3].name = p[1]
LockFold == INSTANCE FoldProofs WITH Op <- AddBlockTransition, Good <- LockSoFar

LEMMA FirstOnesAre ==
  /\ Len(Transitions) \in Nat /\ FirstOnes(0) = {}
  /\ FirstOnes(Len(Transitions)) = TheTransitions
  /\ \A k \in 0..Len(Transitions) :
        /\ FirstOnes(k) \subseteq TheTransitions
        /\ k < Len(Transitions) =>
              /\ Transitions[k + 1] \in TheTransitions
              /\ FirstOnes(k + 1) = FirstOnes(k) \cup {Transitions[k + 1]}
<1>1. Transitions \in Seq(TheTransitions)
  BY SchedulesAssumption
<1>2. Len(Transitions) \in Nat /\ DOMAIN Transitions = 1..Len(Transitions)
  BY <1>1
<1>3. FirstOnes(0) = {}
  BY DEF FirstOnes
<1>4. FirstOnes(Len(Transitions)) = TheTransitions
  BY <1>2 DEF FirstOnes, TheTransitions
<1>5. ASSUME NEW k \in 0..Len(Transitions)
      PROVE  /\ FirstOnes(k) \subseteq TheTransitions
             /\ k < Len(Transitions) =>
                   /\ Transitions[k + 1] \in TheTransitions
                   /\ FirstOnes(k + 1) = FirstOnes(k) \cup {Transitions[k + 1]}
  <2>1. \A j \in 1..k : j \in DOMAIN Transitions
    BY <1>2
  <2>2. k < Len(Transitions) => k + 1 \in DOMAIN Transitions
    BY <1>2
  <2>3. \A j : j \in 1..(k + 1) <=> (j \in 1..k \/ j = k + 1)
    OBVIOUS
  <2> QED BY <2>1, <2>2, <2>3 DEF FirstOnes, TheTransitions
<1> QED BY <1>2, <1>3, <1>4, <1>5

LEMMA LockFolded ==
  ASSUME WellLocked, NEW w, LockRun({}, w)
  PROVE  LockRun(TheTransitions, Folded(w)) /\ Folded(w).name = w.name
<1>1. Transitions \in Seq(TheTransitions)
  BY SchedulesAssumption
<1>2. LockSoFar(<<w.name, 0, w>>)
  BY FirstOnesAre DEF LockSoFar
<1>3. \A k \in 0..Len(Transitions) : \A s :
         k < Len(Transitions) /\ LockSoFar(<<w.name, k, s>>)
            => LockSoFar(<<w.name, k + 1, AddBlockTransition(s, Transitions[k + 1])>>)
  <2>1. ASSUME NEW k \in 0..Len(Transitions), NEW s, k < Len(Transitions),
               LockRun(FirstOnes(k), s)
        PROVE  /\ LockRun(FirstOnes(k + 1), AddBlockTransition(s, Transitions[k + 1]))
               /\ AddBlockTransition(s, Transitions[k + 1]).name = s.name
    <3>1. /\ FirstOnes(k) \subseteq TheTransitions /\ Transitions[k + 1] \in TheTransitions
          /\ FirstOnes(k + 1) = FirstOnes(k) \cup {Transitions[k + 1]}
      BY <2>1, FirstOnesAre
    <3>2. s \in WorldType
      BY <2>1 DEF LockRun
    <3>3. LockRun(FirstOnes(k) \cup {Transitions[k + 1]}, AddBlockTransition(s, Transitions[k + 1]))
      BY <2>1, <3>1, LockTransition
    <3> QED BY <3>1, <3>2, <3>3, SameTrain
  <2> QED BY <2>1 DEF LockSoFar
<1>4. LockSoFar(<<w.name, Len(Transitions), Folded(w)>>)
  BY <1>1, <1>2, <1>3, LockFold!FoldRelates DEF Folded, FoldLeft, MapThenFoldSet, Max,
     LockFold!FoldLeft, LockFold!MapThenFoldSet, LockFold!Max
<1> QED BY <1>4, FirstOnesAre DEF LockSoFar

(* What the lock rests on, between the runs.                               *)
RouteKept(r) ==
    /\ Chain(r) /\ Ahead(r)
    /\ r.state \in SettingStates => Synced(TheTransitions, r)

LEMMA LockAfterRun ==
  ASSUME WellLocked, held \in SUBSET Operable, NEW w, LockRun({}, w)
  PROVE  /\ RouteKept(RunSchedule(w)) /\ LockRight(RunSchedule(w))
         /\ RunSchedule(w).name = w.name
<1> DEFINE v == Folded(w)
           z == RunSchedule(w)
<1>1. LockRun(TheTransitions, v) /\ v.name = w.name
  BY LockFolded
<1>2. PICK a, b, c : Closing(v, a, b, c, z)
  BY RunTyped DEF LockRun
<1> HIDE DEF v, z
<1>4. /\ z.name = v.name /\ z.lock = v.lock /\ z.perma = v.perma
      /\ z.rloc = v.rloc /\ z.dir = v.dir
  <2>1. /\ a.name = v.name /\ a.lock = v.lock /\ a.perma = v.perma
        /\ a.rloc = v.rloc /\ a.dir = v.dir
    BY <1>2 DEF Closing, HasAsked, Keeps, Fields
  <2>2. /\ b.name = a.name /\ b.lock = a.lock /\ b.perma = a.perma
        /\ b.rloc = a.rloc /\ b.dir = a.dir
    BY <1>2 DEF Closing, Keeps, Fields
  <2>3. /\ c.name = b.name /\ c.lock = b.lock /\ c.perma = b.perma
        /\ c.rloc = b.rloc /\ c.dir = b.dir
    BY <1>2 DEF Closing, HasStepped, Keeps, Fields
  <2>4. /\ z.name = c.name /\ z.lock = c.lock /\ z.perma = c.perma
        /\ z.rloc = c.rloc /\ z.dir = c.dir
    BY <1>2 DEF Closing, HasSent, Keeps, Fields
  <2> QED BY <2>1, <2>2, <2>3, <2>4
<1>5. /\ z.state \in SettingStates => v.state \in SettingStates
      /\ v.state \in SettingStates => z.state \in SettingStates \/ Leak
  <2>1. a.state \in SettingStates <=> v.state \in SettingStates
    BY <1>2 DEF Closing, HasAsked, Answers, SettingStates
  <2>2. b.state = a.state
    BY <1>2 DEF Closing, Keeps, Fields
  <2>3. /\ c.state \in SettingStates => b.state \in SettingStates
        /\ b.state \in SettingStates => c.state \in SettingStates \/ GivesUp(b, c)
    BY <1>2 DEF Closing, HasStepped, StatePairs, SettingStates, GivesUp
  <2>4. z.state = c.state
    BY <1>2 DEF Closing, HasSent, Keeps, Fields
  <2>5. GivesUp(b, c) => Leak
    BY <1>2 DEF Closing, HasStepped, GivesUp, Leak
  <2> QED BY <2>1, <2>2, <2>3, <2>4, <2>5
<1>6. v.state \in SettingStates => v.state # "StTransitionDone"
  BY DEF SettingStates
<1>7. RouteKept(z)
  BY <1>1, <1>4, <1>5, <1>6 DEF LockRun, RouteKept, Chain, Ahead, Synced
<1>8. (Holds(z) => Holds(v)) /\ (Holds(v) => Holds(z) \/ Leak)
  BY <1>4, <1>5 DEF Holds, Locks, Sel
<1>9. LockRight(z)
  BY <1>1, <1>4, <1>8 DEF LockRun, LockRight
<1> QED BY <1>1, <1>4, <1>7, <1>9 DEF z

LockInv ==
    /\ Typed
    /\ \A t \in TheTrains : RouteKept(train[t])
    /\ \A t \in TheTrains : Holds(train[t]) => lock
    /\ lock => Leak \/ \E t \in TheTrains : Holds(train[t])
    /\ \A t, u \in TheTrains : Holds(train[t]) /\ Holds(train[u]) => t = u

(* The predicates look at the state, the places and the directions of a    *)
(* train only.                                                             *)
SameRoute(r, q) ==
    q.state = r.state /\ q.perma = r.perma /\ q.rloc = r.rloc /\ q.dir = r.dir

LEMMA SameHolds ==
  ASSUME NEW r, NEW q, SameRoute(r, q)
  PROVE  (Holds(q) <=> Holds(r)) /\ (RouteKept(q) <=> RouteKept(r))
BY DEF SameRoute, Holds, Locks, Sel, RouteKept, Chain, Ahead, Synced

LEMMA InitLock == SchedulesInit => LockInv
<1> SUFFICES ASSUME SchedulesInit PROVE LockInv
  OBVIOUS
<1>1. \A t \in TheTrains : train[t].state = "StWaiting" /\ train[t].rloc = {}
  BY DEF SchedulesInit
<1>2. \A t \in TheTrains : train[t].state \notin SettingStates
  BY <1>1 DEF SettingStates
<1>3. \A t \in TheTrains : RouteKept(train[t]) /\ ~Holds(train[t])
  BY <1>1, <1>2 DEF RouteKept, Chain, Ahead, Holds
<1> QED BY <1>3, InitTyped DEF LockInv, SchedulesInit

LEMMA LockTrainRuns ==
  ASSUME WellLocked, LockInv, NEW t \in TheTrains, RunTrain(t)
  PROVE  /\ \A u \in TheTrains : RouteKept(train'[u])
         /\ \A u \in TheTrains : Holds(train'[u]) => lock'
         /\ lock' => Leak \/ \E u \in TheTrains : Holds(train'[u])
         /\ \A u, v \in TheTrains : Holds(train'[u]) /\ Holds(train'[v]) => u = v
<1> DEFINE w == World(t)
           z == RunSchedule(w)
           q == After(z, train[t].moving)
<1>1. Typed /\ w \in WorldType /\ w.name = t /\ w.lock = lock
  BY WorldIs DEF LockInv
<1>2. SameRoute(train[t], w)
  BY DEF SameRoute, World
<1>3. LockRun({}, w)
  <2> HIDE DEF w
  <2>1. (Holds(w) <=> Holds(train[t])) /\ RouteKept(w)
    BY <1>2, SameHolds DEF LockInv
  <2>2. LockRight(w)
    BY <1>1, <2>1 DEF LockRight, OtherHolds, LockInv
  <2> QED BY <1>1, <2>1, <2>2 DEF LockRun, RouteKept, Synced
<1> HIDE DEF w
<1>4. RouteKept(z) /\ LockRight(z) /\ z.name = t
  BY <1>1, <1>3, LockAfterRun DEF Typed
<1>5. /\ train' = [train EXCEPT ![t] = q] /\ lock' = z.lock
  BY <1>1, RunTrainIs DEF w
<1>6. SameRoute(z, q)
  BY DEF SameRoute, After
<1> HIDE DEF z, q
<1>7. RouteKept(q) /\ (Holds(q) <=> Holds(z))
  BY <1>4, <1>6, SameHolds
<1>8. train'[t] = q /\ \A u \in TheTrains : u # t => train'[u] = train[u]
  BY <1>1, <1>5 DEF Typed
<1> QED BY <1>4, <1>5, <1>7, <1>8 DEF LockInv, LockRight, OtherHolds

LEMMA NextLock ==
  ASSUME WellLocked, LockInv, [SchedulesNext]_schedVars
  PROVE  LockInv'
<1>1. Typed /\ Typed'
  BY NextTyped DEF LockInv
<1>2. ASSUME lock' = lock, \A t \in TheTrains : SameRoute(train[t], train'[t])
      PROVE  LockInv'
  <2>1. \A t \in TheTrains : (Holds(train'[t]) <=> Holds(train[t])) /\ RouteKept(train'[t])
    BY <1>2, SameHolds DEF LockInv
  <2> QED BY <1>1, <1>2, <2>1 DEF LockInv
<1>3. ASSUME UNCHANGED <<train, lock>> PROVE LockInv'
  BY <1>2, <1>3 DEF SameRoute
<1>4. CASE Ticks
  <2>1. \A t \in TheTrains : SameRoute(train[t], train'[t])
    <3>1. ASSUME NEW t \in TheTrains PROVE SameRoute(train[t], train'[t])
      <4>1. train'[t] = [train[t] EXCEPT !.timer = CountDown(@)] /\ train[t] \in TrainType
        BY <1>1, <1>4 DEF Ticks, TickAll, Typed
      <4> QED BY <4>1 DEF SameRoute, TrainType
    <3> QED BY <3>1
  <2> QED BY <1>2, <1>4, <2>1 DEF Ticks
<1>5. CASE Idles
  BY <1>3, <1>5 DEF Idles
<1>6. CASE FlipFlopRuns
  BY <1>3, <1>6 DEF FlipFlopRuns
<1>7. CASE MagnetsRun
  BY <1>3, <1>7 DEF MagnetsRun
<1>8. ASSUME NEW t \in TheTrains, TrainRuns(t) PROVE LockInv'
  BY <1>1, <1>8, LockTrainRuns DEF TrainRuns, LockInv
<1>9. ASSUME NEW b \in Blocks, SignalAnswers(b) PROVE LockInv'
  BY <1>3, <1>9 DEF SignalAnswers
<1>10. ASSUME NEW t \in TheTrains, TrainArrives(t) PROVE LockInv'
  <2>1. \A u \in TheTrains : SameRoute(train[u], train'[u])
    <3>1. ASSUME NEW u \in TheTrains PROVE SameRoute(train[u], train'[u])
      <4>1. /\ train' = [train EXCEPT ![t] = [train[t] EXCEPT !.drove = FALSE]]
            /\ train[u] \in TrainType
        BY <1>1, <1>10 DEF TrainArrives, Typed
      <4>2. train'[u] = train[u] \/ train'[u] = [train[u] EXCEPT !.drove = FALSE]
        BY <1>1, <4>1 DEF Typed
      <4> QED BY <4>1, <4>2 DEF SameRoute, TrainType
    <3> QED BY <3>1
  <2> QED BY <1>2, <1>10, <2>1 DEF TrainArrives
<1>11. ASSUME NEW x \in Operable, Hold(x) PROVE LockInv'
  BY <1>3, <1>11 DEF Hold
<1> QED BY <1>4, <1>5, <1>6, <1>7, <1>8, <1>9, <1>10, <1>11, StepCases

(* A train in a lazy block that sets up a route does so from there.        *)
LEMMA SetsUpHere ==
  ASSUME NEW r, Chain(r), Ahead(r), r.state \in SettingStates,
         NEW b \in Blocks, r.perma = {b}, Lazy(b)
  PROVE  r.rloc = {b}
<1>1. r.rloc \subseteq {b}
  BY LazyRoutesHere
<1>2. \A z \in TheTransitions : z.eager => z.src # b
  BY DEF Lazy
<1> QED BY <1>1, <1>2 DEF Ahead

(* The train whose state needs the lock is the one that sets up such a     *)
(* transition.                                                             *)
LEMMA LockHeld ==
  ASSUME WellLocked, LockInv
  PROVE  ExclusiveUse
<1>1. Typed
  BY DEF LockInv
<1>2. ASSUME NEW t \in TheTrains
      PROVE  (\E x \in Setting(t) : x.lock) <=> Holds(train[t])
  <2>1. PICK b \in Blocks : train[t].perma = {b}
    BY <1>1, OneBlock DEF Typed, TrainType
  <2>2. Chain(train[t]) /\ Ahead(train[t])
    BY DEF LockInv, RouteKept
  <2>3. ASSUME NEW x \in Setting(t), x.lock PROVE Holds(train[t])
    <3>1. /\ x \in TheTransitions /\ train[t].state \in SettingStates
          /\ x.src \in train[t].rloc /\ (HasDirection(x) => x \in train[t].dir)
      BY DEF Setting
    <3>2. ~x.eager
      BY <2>3, <3>1 DEF WellLocked
    <3>3. x.src \in train[t].perma
      BY <3>1, <3>2 DEF LockInv, RouteKept, Synced
    <3> QED BY <2>3, <3>1, <3>3 DEF Holds, Locks, Sel
  <2>4. ASSUME Holds(train[t]) PROVE \E x \in Setting(t) : x.lock
    <3>1. PICK x \in TheTransitions : x.lock /\ Sel(train[t], x)
      BY <2>4 DEF Holds, Locks
    <3>2. train[t].state \in SettingStates /\ x.src = b
      BY <2>1, <2>4, <3>1 DEF Holds, Sel
    <3>3. Lazy(b)
      BY <3>1, <3>2, LazyFacts DEF WellLocked
    <3>4. train[t].rloc = {b}
      BY <2>1, <2>2, <3>2, <3>3, SetsUpHere
    <3> QED BY <3>1, <3>2, <3>4 DEF Setting, Sel
  <2> QED BY <2>3, <2>4
<1>3. {t \in TheTrains : \E x \in Setting(t) : x.lock} = {t \in TheTrains : Holds(train[t])}
  BY <1>2
<1>4. LockHasHolder
  <2> DEFINE H == {u \in TheTrains : Holds(train[u])}
  <2>0. LockHasHolder <=> /\ Cardinality(H) <= IF lock THEN 1 ELSE 0
                          /\ lock /\ H = {} => ResetRoutes \in Operable
    BY <1>3 DEF LockHasHolder
  <2>1. CASE H = {}
    <3>1. Cardinality(H) = 0
      BY <2>1, FS_EmptySet
    <3>2. lock => ResetRoutes \in Operable
      BY <2>1 DEF LockInv, Leak
    <3> QED BY <2>0, <3>1, <3>2
  <2>2. CASE H # {}
    <3>1. PICK t \in TheTrains : Holds(train[t])
      BY <2>2
    <3>2. H = {t} /\ lock
      BY <3>1 DEF LockInv
    <3>3. Cardinality(H) = 1
      BY <3>2, FS_Singleton
    <3> QED BY <2>0, <2>2, <3>2, <3>3
  <2> QED BY <2>1, <2>2
<1> QED BY <1>1, <1>4, TypedGood DEF ExclusiveUse

(* What the automata of a board share is used by one of them at a time:    *)
(* for every schedule that uses the lock uniformly, also the route lock    *)
(* (AddBlockTransitionOnPermit), which one train holds from the moment it  *)
(* sets out until its route is set or refused.                             *)
THEOREM UseIsExclusive == WellLocked => (SchedulesSpec => []ExclusiveUse)
<1> SUFFICES ASSUME WellLocked PROVE SchedulesSpec => []ExclusiveUse
  OBVIOUS
<1>1. LockInv /\ [SchedulesNext]_schedVars => LockInv'
  BY NextLock
<1>2. LockInv => ExclusiveUse
  BY LockHeld
<1> QED BY InitLock, <1>1, <1>2, PTL DEF SchedulesSpec

-----------------------------------------------------------------------------
(* The points.  A magnet rests where it is wanted: it is there, it is told *)
(* to be there and it is not being pulled.                                 *)
At(s, m, on) ==
    /\ m \notin s.set0 /\ m \notin s.set1
    /\ m \in s.current <=> on
    /\ m \in s.command <=> on

(* No command was given to a coupled magnet.                               *)
InStep(s) == \A c \in Couples : c \in s.command <=> c \in s.remote

LEMMA CoupleEffect ==
  ASSUME NEW s, CoilGood(s), InStep(s), NEW c \in Couples, NEW u, u = Couple(s, c)
  PROVE  /\ CoilGood(u) /\ InStep(u) /\ u.set0 = s.set0 /\ u.set1 = s.set1
         /\ \A d : d # c => (d \in u.current <=> d \in s.current)
         /\ \A d : d # c => (d \in u.command <=> d \in s.command)
<1> DEFINE t == CoupleCommands(s, c)
           there == RemoteValue(s.command, c)
           here == c \in s.command
<1>1. CoilGood(u)
  BY CoupleKeeps
<1>2. s \in MagnetType /\ c \notin Reals /\ Original[c] \in Reals /\ Original[c] # c
  BY MagnetsAssumption DEF CoilGood
<1>3. t.current = s.current /\ t.set0 = s.set0 /\ t.set1 = s.set1
  BY <1>2 DEF CoupleCommands, MagnetType
<1>4. /\ \A d : d # c => (d \in t.remote <=> d \in s.remote)
      /\ \A d : d # c => (d \in t.command <=> d \in s.command)
      /\ c \in t.command <=> c \in t.remote
  <2>1. CASE there # (c \in s.remote)
    <3>1. t.remote = Put(s.remote, c, there) /\ t.command = Put(s.command, c, there)
      BY <1>2, <2>1 DEF CoupleCommands, MagnetType
    <3> QED BY <3>1 DEF Put
  <2>2. CASE there = (c \in s.remote)
    <3>1. /\ t.remote = Put(s.remote, c, here)
          /\ t.command = SetRemote(s.command, c, here)
      BY <1>2, <2>2 DEF CoupleCommands, MagnetType
    <3>2. here <=> there
      BY <2>2 DEF InStep
    <3>3. Original[c] \in s.command <=> (here # (c \in Invert))
      BY <3>2 DEF RemoteValue
    <3>4. \A d : d \in t.command <=> d \in s.command
      BY <3>1, <3>3 DEF SetRemote, Put
    <3> QED BY <3>1, <3>4 DEF Put
  <2> QED BY <2>1, <2>2
<1>5. /\ u.command = t.command /\ u.remote = t.remote /\ u.set0 = t.set0 /\ u.set1 = t.set1
      /\ \A d : d # c => (d \in u.current <=> d \in t.current)
  <2>1. t \in MagnetType
    <3>1. \E R \in SUBSET Couples, C \in SUBSET AllMagnets :
             t = [s EXCEPT !.remote = R, !.command = C]
      <4>1. c \in AllMagnets /\ Original[c] \in AllMagnets
        BY <1>2 DEF AllMagnets
      <4>2. \A v : Put(s.remote, c, v) \in SUBSET Couples
        BY <1>2, PutTyped DEF MagnetType
      <4>3. \A v : Put(s.command, c, v) \in SUBSET AllMagnets
        BY <1>2, <4>1, PutTyped DEF MagnetType
      <4>4. \A v : SetRemote(s.command, c, v) \in SUBSET AllMagnets
        BY <1>2, <4>1, PutTyped DEF MagnetType, SetRemote
      <4> QED BY <4>2, <4>3, <4>4 DEF CoupleCommands
    <3> QED BY <1>2, <3>1 DEF MagnetType
  <2> DEFINE C == Put(t.current, c, RemoteValue(t.current, c))
  <2>2. u = [t EXCEPT !.current = C]
    BY DEF Couple
  <2>3. \A d : d # c => (d \in C <=> d \in t.current)
    BY DEF Put
  <2> HIDE DEF C, t
  <2> QED BY <2>1, <2>2, <2>3 DEF MagnetType
<1> HIDE DEF t
<1>6. InStep(u)
  BY <1>4, <1>5 DEF InStep
<1> QED BY <1>1, <1>3, <1>4, <1>5, <1>6

(* What a magnet with a coil does leaves the commands alone.               *)
LEMMA EntryEffect ==
  ASSUME NEW s, CoilGood(s), InStep(s), NEW n \in Reals
  PROVE  CoilGood(MagnetEntry(s, n)) /\ InStep(MagnetEntry(s, n))
<1> DEFINE t == Pull(s, n)
           u == ReleaseMagnet(t, n)
           v == MagnetsToZero(u, n)
<1>0. MagnetEntry(s, n) = v
  BY DEF MagnetEntry
<1>1. CoilGood(t) /\ CoilGood(u) /\ CoilGood(v)
  BY PullKeeps, ReleaseKeeps, ZeroKeeps
<1>2. t.command = s.command /\ t.remote = s.remote
  BY DEF Pull, CoilGood, MagnetType
<1> HIDE DEF t
<1>3. u.command = t.command /\ u.remote = t.remote
  BY <1>1 DEF ReleaseMagnet, CoilGood, MagnetType
<1> HIDE DEF u
<1>4. v.command = u.command /\ v.remote = u.remote
  BY <1>1 DEF MagnetsToZero, CoilGood, MagnetType
<1> HIDE DEF v
<1>5. InStep(v)
  BY <1>2, <1>3, <1>4 DEF InStep
<1> QED BY <1>0, <1>1, <1>5

(* A run of the magnets' automaton leaves such a magnet alone.             *)
StaysInStep(s) == CoilGood(s) /\ InStep(s)
CoupleStep == INSTANCE FoldProofs WITH Op <- Couple, Good <- StaysInStep
EntryStep == INSTANCE FoldProofs WITH Op <- MagnetEntry, Good <- StaysInStep

RestsIn(m, on, s) == CoilGood(s) /\ InStep(s) /\ At(s, m, on)
RestsSoFar(p) == RestsIn(p[1][1], p[1][2], p[3])
CoupleRest == INSTANCE FoldProofs WITH Op <- Couple, Good <- RestsSoFar
EntryRest == INSTANCE FoldProofs WITH Op <- MagnetEntry, Good <- RestsSoFar

LEMMA CoupleRests ==
  ASSUME NEW m \in Reals, NEW on, NEW s, RestsIn(m, on, s), NEW c \in Couples
  PROVE  RestsIn(m, on, Couple(s, c))
<1> DEFINE u == Couple(s, c)
<1>1. c # m
  BY MagnetsAssumption
<1>2. /\ CoilGood(u) /\ InStep(u) /\ u.set0 = s.set0 /\ u.set1 = s.set1
      /\ m \in u.current <=> m \in s.current
      /\ m \in u.command <=> m \in s.command
  BY <1>1, CoupleEffect DEF RestsIn
<1> HIDE DEF u
<1>3. At(u, m, on)
  BY <1>2 DEF At, RestsIn
<1> QED BY <1>2, <1>3 DEF RestsIn, u

LEMMA EntryRests ==
  ASSUME NEW m \in Reals, NEW on, NEW s, RestsIn(m, on, s), NEW n \in Reals
  PROVE  RestsIn(m, on, MagnetEntry(s, n))
<1> DEFINE t == Pull(s, n)
           u == ReleaseMagnet(t, n)
           v == MagnetsToZero(u, n)
<1>0. MagnetEntry(s, n) = v
  BY DEF MagnetEntry
<1>1. CoilGood(s) /\ CoilGood(t) /\ CoilGood(u) /\ CoilGood(v)
  BY PullKeeps, ReleaseKeeps, ZeroKeeps DEF RestsIn
<1>2. /\ t.command = s.command /\ t.remote = s.remote /\ t.current = s.current
      /\ m \notin t.set0 /\ m \notin t.set1
  <2>1. CASE s.state = StBase /\ TimerDone(s) /\ ((n \in s.command) # (n \in s.current))
    <3>1. n # m
      BY <2>1 DEF RestsIn, At
    <3>2. s.set0 \subseteq Reals /\ s \in MagnetType /\ m \notin s.set0 /\ m \notin s.set1
      BY <1>1 DEF CoilGood, MagnetType, RestsIn, At
    <3> QED BY <2>1, <3>1, <3>2 DEF Pull, MagnetType
  <2>2. CASE ~(s.state = StBase /\ TimerDone(s) /\ ((n \in s.command) # (n \in s.current)))
    BY <2>2 DEF Pull, RestsIn, At
  <2> QED BY <2>1, <2>2
<1> HIDE DEF t
<1>3. /\ u.command = t.command /\ u.remote = t.remote /\ (m \in u.current <=> m \in t.current)
      /\ m \notin u.set0 /\ m \notin u.set1
  <2>1. CASE t.state = n /\ TimerDone(t) /\ n \in t.set0 \cup t.set1
    <3>1. n # m
      BY <1>2, <2>1
    <3>2. t \in MagnetType
      BY <1>1 DEF CoilGood
    <3> DEFINE C == Put(t.current, n, n \in t.set1)
               D == t.set0 \ {n}
               E == t.set1 \ {n}
    <3>3. u = [t EXCEPT !.state = StBase, !.current = C, !.set0 = D, !.set1 = E]
      BY <2>1 DEF ReleaseMagnet
    <3>4. (m \in C <=> m \in t.current) /\ m \notin D /\ m \notin E
      BY <1>2, <3>1 DEF Put
    <3> HIDE DEF C, D, E, u
    <3> QED BY <3>2, <3>3, <3>4 DEF MagnetType
  <2>2. CASE ~(t.state = n /\ TimerDone(t) /\ n \in t.set0 \cup t.set1)
    BY <1>2, <2>2 DEF ReleaseMagnet
  <2> QED BY <2>1, <2>2
<1> HIDE DEF u
<1>4. /\ v.command = u.command /\ v.remote = u.remote /\ v.current = u.current
      /\ m \notin v.set0 /\ m \notin v.set1
  <2>1. u \in MagnetType
    BY <1>1 DEF CoilGood
  <2> QED BY <1>3, <2>1 DEF MagnetsToZero, MagnetType
<1> HIDE DEF v
<1>5. InStep(v) /\ At(v, m, on)
  BY <1>2, <1>3, <1>4 DEF InStep, At, RestsIn
<1> QED BY <1>0, <1>1, <1>5 DEF RestsIn

LEMMA MagnetsStayInStep ==
  ASSUME NEW s, CoilGood(s), InStep(s) PROVE InStep(MagnetBody(s))
<1> DEFINE a == FoldLeft(Couple, s, Coupled)
           b == FoldLeft(MagnetEntry, a, Real)
<1>1. \A t, c : StaysInStep(t) /\ c \in Couples => StaysInStep(Couple(t, c))
  BY CoupleEffect DEF StaysInStep
<1>2. Coupled \in Seq(Couples) /\ Real \in Seq(Reals) /\ StaysInStep(s)
  BY MagnetsAssumption DEF StaysInStep
<1>3. StaysInStep(a)
  BY <1>1, <1>2, CoupleStep!FoldKeeps DEF FoldLeft, MapThenFoldSet, Max,
     CoupleStep!FoldLeft, CoupleStep!MapThenFoldSet, CoupleStep!Max
<1> HIDE DEF a
<1>4. \A t, m : StaysInStep(t) /\ m \in Reals => StaysInStep(MagnetEntry(t, m))
  BY EntryEffect DEF StaysInStep
<1>5. StaysInStep(b)
  BY <1>2, <1>3, <1>4, EntryStep!FoldKeeps DEF FoldLeft, MapThenFoldSet, Max,
     EntryStep!FoldLeft, EntryStep!MapThenFoldSet, EntryStep!Max
<1> HIDE DEF b
<1>6. MagnetBody(s) = b \/ MagnetBody(s) = [b EXCEPT !.timer = 1]
  BY DEF MagnetBody, MagnetFinal, a, b
<1>7. b \in MagnetType /\ InStep(b)
  BY <1>5 DEF StaysInStep, CoilGood
<1>8. InStep([b EXCEPT !.timer = 1])
  BY <1>7 DEF InStep, MagnetType
<1> QED BY <1>6, <1>7, <1>8

LEMMA MagnetRests ==
  ASSUME NEW s, CoilGood(s), InStep(s), NEW m \in Reals, NEW on, At(s, m, on)
  PROVE  At(MagnetBody(s), m, on)
<1> DEFINE a == FoldLeft(Couple, s, Coupled)
           b == FoldLeft(MagnetEntry, a, Real)
           p == <<m, on>>
<1>1. Coupled \in Seq(Couples) /\ Real \in Seq(Reals)
  BY MagnetsAssumption
<1>2. \A k, t : RestsSoFar(<<p, k, t>>) <=> RestsIn(m, on, t)
  BY DEF RestsSoFar
<1> HIDE DEF p
<1>3. RestsSoFar(<<p, Len(Coupled), a>>)
  <2>1. RestsSoFar(<<p, 0, s>>)
    BY <1>2 DEF RestsIn
  <2>2. ASSUME NEW k \in 0 .. Len(Coupled), NEW t, k < Len(Coupled), RestsIn(m, on, t)
        PROVE  RestsIn(m, on, Couple(t, Coupled[k + 1]))
    <3>1. Coupled[k + 1] \in Couples
      BY <1>1, <2>2
    <3> QED BY <2>2, <3>1, CoupleRests
  <2>3. \A k \in 0 .. Len(Coupled) : \A t :
           k < Len(Coupled) /\ RestsSoFar(<<p, k, t>>)
              => RestsSoFar(<<p, k + 1, Couple(t, Coupled[k + 1])>>)
    BY <1>2, <2>2
  <2> QED BY <1>1, <2>1, <2>3, CoupleRest!FoldRelates DEF FoldLeft, MapThenFoldSet, Max,
             CoupleRest!FoldLeft, CoupleRest!MapThenFoldSet, CoupleRest!Max
<1> HIDE DEF a
<1>4. RestsSoFar(<<p, Len(Real), b>>)
  <2>1. RestsSoFar(<<p, 0, a>>)
    BY <1>2, <1>3
  <2>2. ASSUME NEW k \in 0 .. Len(Real), NEW t, k < Len(Real), RestsIn(m, on, t)
        PROVE  RestsIn(m, on, MagnetEntry(t, Real[k + 1]))
    <3>1. Real[k + 1] \in Reals
      BY <1>1, <2>2
    <3> QED BY <2>2, <3>1, EntryRests
  <2>3. \A k \in 0 .. Len(Real) : \A t :
           k < Len(Real) /\ RestsSoFar(<<p, k, t>>)
              => RestsSoFar(<<p, k + 1, MagnetEntry(t, Real[k + 1])>>)
    BY <1>2, <2>2
  <2> QED BY <1>1, <2>1, <2>3, EntryRest!FoldRelates DEF FoldLeft, MapThenFoldSet, Max,
             EntryRest!FoldLeft, EntryRest!MapThenFoldSet, EntryRest!Max
<1> HIDE DEF b
<1>5. MagnetBody(s) = b \/ MagnetBody(s) = [b EXCEPT !.timer = 1]
  BY DEF MagnetBody, MagnetFinal, a, b
<1>6. b \in MagnetType /\ At(b, m, on)
  BY <1>2, <1>4 DEF RestsIn, CoilGood
<1>7. At([b EXCEPT !.timer = 1], m, on)
  BY <1>6 DEF At, MagnetType
<1> QED BY <1>5, <1>6, <1>7

(* The states in which a train has switched its points.                    *)
Past == {"StRequestGreen", "StGreenRequested", "StGreenWait", "StRequestTransition"}

Points(s, r) ==
    r.state \in Past =>
        \A y \in TheTransitions :
            Sel(r, y) /\ y.magnet # NoMagnet => At(s, y.magnet, y.want)

RoutesLie(s) == \A x \in routes : x.magnet # NoMagnet => At(s, x.magnet, x.want)

(* A train that works on its points, since before this run, has found and  *)
(* told those of A that it needs to be where it wants them.                *)
Finds(A, w) ==
    w.state = "StTurnout" =>
        /\ train[w.name].state = "StTurnout"
        /\ Locks(w) => w.perma = train[w.name].perma /\ w.dir = train[w.name].dir
        /\ \A y \in A : Sel(w, y) /\ y.magnet # NoMagnet =>
              /\ y.magnet \in w.mag.current <=> y.want
              /\ y.magnet \in w.mag.command <=> y.want

MagRun(A, w) ==
    /\ w.mag.current = mag.current /\ w.mag.set0 = mag.set0 /\ w.mag.set1 = mag.set1
    /\ InStep(w.mag) /\ RoutesLie(w.mag)
    /\ \A u \in TheTrains : u # w.name => Points(w.mag, train[u])
    /\ Points(w.mag, w) /\ Finds(A, w)

(* It looks at the name, the state, the place, the directions and the      *)
(* magnets only, and asks nothing of most states.                          *)
LEMMA MagSame ==
  ASSUME NEW A, NEW w, MagRun(A, w), NEW v, v.name = w.name, v.mag = w.mag,
         v.state = w.state, v.perma = w.perma, v.dir = w.dir
  PROVE  MagRun(A, v)
<1>1. \A y \in TheTransitions : Sel(v, y) <=> Sel(w, y)
  BY DEF Sel
<1>2. Locks(v) <=> Locks(w)
  BY <1>1 DEF Locks
<1>3. Points(v.mag, v)
  BY <1>1 DEF Points, MagRun
<1>4. Finds(A, v)
  BY <1>2 DEF Finds, MagRun, Sel
<1> QED BY <1>3, <1>4 DEF MagRun

LEMMA MagQuiet ==
  ASSUME NEW A, NEW w, MagRun(A, w), NEW v, v.name = w.name, v.mag = w.mag,
         v.state \notin Past, v.state # "StTurnout"
  PROVE  MagRun(A, v)
BY DEF MagRun, Points, Finds

(* A train whose place moves on while it sets up a route needs no lock.    *)
LEMMA MoveFacts ==
  ASSUME WellLocked, NEW A, NEW B, NEW w, LockRun(A, w), NEW x \in TheTransitions,
         NEW v, LockRun(B, v), HasMoved(w, x, v), Moves(w, x), w.state \in SettingStates
  PROVE  ~Lazy(x.dst) /\ ~Locks(v)
<1>1. v.rloc = w.rloc /\ v.state = w.state /\ v.perma = {x.dst} /\ x.dst \in Blocks
  BY TransitionIs DEF HasMoved, Keeps, Fields
<1>2. x.eager /\ x.src \in w.perma
  BY DEF Moves
<1>3. w.perma = {x.src} /\ ~Lazy(x.src)
  BY <1>2, OneBlock, LazyFacts DEF LockRun, WorldType
<1>4. PICK y \in TheTransitions : y.eager /\ y.src \in v.rloc
  BY <1>1, <1>3 DEF LockRun, Ahead
<1>5. ~Lazy(y.src)
  BY <1>4, LazyFacts
<1>6. ~Lazy(x.dst)
  BY <1>1, <1>4, <1>5, LazyRoutesHere DEF LockRun
<1> QED BY <1>1, <1>6, EagerNeedsNone

LEMMA MagMove ==
  ASSUME WellLocked, WellLaid, NEW A, NEW B, A \subseteq TheTransitions,
         NEW w, LockRun(B, w), MagRun(A, w), NEW x \in TheTransitions,
         NEW v, LockRun(B, v), HasMoved(w, x, v)
  PROVE  MagRun(A, v)
<1>1. CASE Moves(w, x)
  <2>1. v.name = w.name /\ v.mag = w.mag /\ v.state = w.state
    BY <1>1 DEF HasMoved, Keeps, Fields
  <2>2. CASE w.state \in SettingStates
    <3>1. ~Locks(v)
      BY <1>1, <2>2, MoveFacts
    <3>2. \A y \in TheTransitions : Sel(v, y) => y.magnet = NoMagnet
      BY <3>1 DEF Locks, WellLaid
    <3>3. Points(v.mag, v)
      BY <3>2 DEF Points
    <3>4. Finds(A, v)
      BY <2>1, <3>1, <3>2 DEF Finds, MagRun
    <3> QED BY <2>1, <3>3, <3>4 DEF MagRun
  <2>3. CASE w.state \notin SettingStates
    <3>1. w.state \notin Past /\ w.state # "StTurnout"
      BY <2>3 DEF Past, SettingStates
    <3> QED BY <2>1, <3>1, MagQuiet
  <2> QED BY <2>2, <2>3
<1>2. CASE ~Moves(w, x)
  BY <1>2 DEF HasMoved
<1> QED BY <1>1, <1>2

(* The rules without points.                                               *)
LEMMA MagRest ==
  ASSUME NEW A, NEW w, MagRun(A, w), NEW x, NEW v,
         \/ Imported(w, x, v) \/ Keeps(w, v, {"ff"}) \/ HasSetOut(w, x, v)
         \/ Forgot(w, x, v) \/ HasLeft(w, x, v) \/ TriesAgain(w, x, v)
         \/ HasReversed(w, x, v)
  PROVE  MagRun(A, v)
<1>1. v.name = w.name /\ v.mag = w.mag
  BY DEF Imported, HasSetOut, Forgot, HasLeft, TriesAgain, HasReversed, Keeps, Fields
<1>2. \/ v.state = w.state /\ v.perma = w.perma /\ v.dir = w.dir
      \/ v.state \notin Past /\ v.state # "StTurnout"
  <2>1. CASE Imported(w, x, v)
    BY <2>1 DEF Imported, Keeps, Fields
  <2>2. CASE Keeps(w, v, {"ff"})
    BY <2>2 DEF Keeps, Fields
  <2>3. CASE HasSetOut(w, x, v)
    BY <2>3 DEF HasSetOut, Past
  <2>4. CASE Forgot(w, x, v)
    BY <2>4 DEF Forgot, Keeps, Fields, Past
  <2>5. CASE HasLeft(w, x, v)
    BY <2>5 DEF HasLeft, Past
  <2>6. CASE TriesAgain(w, x, v)
    BY <2>6 DEF TriesAgain, Past
  <2>7. CASE HasReversed(w, x, v)
    BY <2>7 DEF HasReversed, Backing, Keeps, Fields, Past
  <2> QED BY <2>1, <2>2, <2>3, <2>4, <2>5, <2>6, <2>7
<1> QED BY <1>1, <1>2, MagSame, MagQuiet

(* A command to one magnet leaves the others as they are.                  *)
LEMMA CommandEffect ==
  ASSUME NEW s, CoilGood(s), NEW m \in Reals, NEW on \in BOOLEAN, NEW t, t = Command(s, m, on)
  PROVE  /\ t.current = s.current /\ t.set0 = s.set0 /\ t.set1 = s.set1
         /\ InStep(s) => InStep(t)
         /\ m \in t.command <=> on
         /\ \A n : n # m => (n \in t.command <=> n \in s.command)
<1> DEFINE C == Put(s.command, m, on)
<1>1. t = [s EXCEPT !.command = C]
  BY DEF Command
<1>2. (m \in C <=> on) /\ \A n : n # m => (n \in C <=> n \in s.command)
  BY DEF Put
<1> HIDE DEF C
<1>3. /\ t.command = C /\ t.current = s.current /\ t.set0 = s.set0 /\ t.set1 = s.set1
      /\ t.remote = s.remote
  BY <1>1 DEF CoilGood, MagnetType
<1>4. m \notin Couples
  BY MagnetsAssumption
<1>5. InStep(s) => InStep(t)
  BY <1>2, <1>3, <1>4 DEF InStep
<1> QED BY <1>2, <1>3, <1>5

LEMMA CommandRests ==
  ASSUME NEW s, CoilGood(s), NEW m \in Reals, NEW on \in BOOLEAN, NEW n, n # m,
         NEW o, At(s, n, o)
  PROVE  At(Command(s, m, on), n, o)
BY CommandEffect DEF At

LEMMA MagSwitch ==
  ASSUME WellLocked, WellLaid, NEW A, NEW B, A \subseteq B, B \subseteq TheTransitions,
         NEW w, LockRun(B, w), MagRun(A, w), NEW x \in TheTransitions, x \in B,
         NEW v, HasSwitched(w, x, v)
  PROVE  MagRun(A \cup {x}, v)
<1>1. CASE Switches(w, x)
  <2> DEFINE m == x.magnet
  <2>1. /\ v.name = w.name /\ v.perma = w.perma /\ v.dir = w.dir
        /\ v.state = IF (m \in w.mag.current) = x.want THEN "StTurnout"
                     ELSE "StTurnoutFailed"
        /\ v.mag = IF Locked(m) THEN w.mag ELSE Command(w.mag, m, x.want)
    BY <1>1 DEF HasSwitched, Keeps, Fields
  <2>2. /\ m # NoMagnet /\ w.state = "StTurnout" /\ x.src \in w.rloc
        /\ (HasDirection(x) => x \in w.dir)
    BY <1>1 DEF Switches
  <2>3. x.lock /\ m \in Reals /\ x.want \in BOOLEAN /\ ~x.eager
    BY <2>2, TransitionIs DEF WellLaid, WellLocked
  <2>4. Sel(w, x)
    BY <2>2, <2>3 DEF LockRun, Synced, Sel
  <2>5. ~OtherHolds(w.name)
    <3>1. Holds(w)
      BY <2>2, <2>3, <2>4 DEF Holds, Locks, SettingStates
    <3> QED BY <3>1 DEF LockRun, LockRight
  <2>6. CoilGood(w.mag)
    BY GoodOnes DEF LockRun, WorldType
  <2>7. v.state \notin Past
    BY <2>1 DEF Past
  <2>8. Points(v.mag, v)
    BY <2>7 DEF Points
  <2>9. \A y : Sel(v, y) <=> Sel(w, y)
    BY <2>1 DEF Sel
  <2>10. Locks(v) <=> Locks(w)
    BY <2>9 DEF Locks
  <2>11. \A y \in TheTransitions : y # x /\ y \in A /\ Sel(w, y) => v.state # "StTurnout"
    <3>1. SUFFICES ASSUME NEW y \in TheTransitions, y # x, y \in A, Sel(w, y),
                          v.state = "StTurnout"
                   PROVE  FALSE
      OBVIOUS
    <3>2. y.src = x.src
      BY <2>4, <3>1, OneBlock DEF Sel, LockRun, WorldType
    <3>3. y.magnet = m /\ y.want # x.want /\ y.want \in BOOLEAN
      BY <3>1, <3>2, TransitionIs DEF WellLaid
    <3>4. m \in w.mag.current <=> y.want
      BY <2>2, <3>1, <3>3 DEF MagRun, Finds
    <3>5. (m \in w.mag.current) = x.want
      BY <2>1, <3>1
    <3> QED BY <2>3, <3>3, <3>4, <3>5
  <2>12. v.state = "StTurnout" => (m \in w.mag.current <=> x.want)
    BY <2>1
  <2>13. CASE Locked(m)
    <3>1. v.mag = w.mag
      BY <2>1, <2>13
    <3>2. PICK r \in routes : r.magnet = m
      BY <2>13 DEF Locked
    <3>3. At(w.mag, m, r.want)
      BY <2>2, <3>2 DEF MagRun, RoutesLie
    <3>4. v.state = "StTurnout" => (m \in w.mag.command <=> x.want)
      BY <2>12, <3>3 DEF At
    <3>5. Finds(A \cup {x}, v)
      <4>1. SUFFICES ASSUME v.state = "StTurnout" PROVE Finds(A \cup {x}, v)
        BY DEF Finds
      <4>2. train[v.name].state = "StTurnout"
        BY <2>1, <2>2 DEF MagRun, Finds
      <4>3. Locks(v) => v.perma = train[v.name].perma /\ v.dir = train[v.name].dir
        BY <2>1, <2>2, <2>10 DEF MagRun, Finds
      <4>4. ASSUME NEW y \in A \cup {x}, Sel(v, y)
            PROVE  (y.magnet \in v.mag.current <=> y.want) /\ (y.magnet \in v.mag.command <=> y.want)
        <5>1. y = x
          BY <2>9, <2>11, <4>1, <4>4
        <5> QED BY <2>12, <3>1, <3>4, <4>1, <5>1
      <4> QED BY <4>2, <4>3, <4>4 DEF Finds
    <3> QED BY <2>1, <2>8, <3>1, <3>5 DEF MagRun
  <2>14. CASE ~Locked(m)
    <3>1. v.mag = Command(w.mag, m, x.want)
      BY <2>1, <2>14
    <3>2. /\ v.mag.current = w.mag.current /\ v.mag.set0 = w.mag.set0
          /\ v.mag.set1 = w.mag.set1 /\ (m \in v.mag.command <=> x.want)
      BY <2>3, <2>6, <3>1, CommandEffect
    <3>3. InStep(v.mag)
      BY <2>3, <2>6, <3>1, CommandEffect DEF MagRun
    <3>4. RoutesLie(v.mag)
      <4>1. \A r \in routes : r.magnet # m
        BY <2>14 DEF Locked
      <4> QED BY <2>3, <2>6, <3>1, <4>1, CommandRests DEF MagRun, RoutesLie
    <3>5. ASSUME NEW u \in TheTrains, u # w.name PROVE Points(v.mag, train[u])
      <4>1. SUFFICES ASSUME train[u].state \in Past, NEW y \in TheTransitions,
                            Sel(train[u], y), y.magnet # NoMagnet
                     PROVE  At(v.mag, y.magnet, y.want)
        BY DEF Points
      <4>2. At(w.mag, y.magnet, y.want)
        BY <3>5, <4>1 DEF MagRun, Points
      <4>3. ~Holds(train[u])
        BY <2>5, <3>5 DEF OtherHolds
      <4>4. train[u].state \in SettingStates
        BY <4>1 DEF Past, SettingStates
      <4>5. FALSE
        BY <4>1, <4>3, <4>4 DEF Holds, Locks, WellLaid
      <4> QED BY <4>5
    <3>6. Finds(A \cup {x}, v)
      <4>1. SUFFICES ASSUME v.state = "StTurnout" PROVE Finds(A \cup {x}, v)
        BY DEF Finds
      <4>2. train[v.name].state = "StTurnout"
        BY <2>1, <2>2 DEF MagRun, Finds
      <4>3. Locks(v) => v.perma = train[v.name].perma /\ v.dir = train[v.name].dir
        BY <2>1, <2>2, <2>10 DEF MagRun, Finds
      <4>4. ASSUME NEW y \in A \cup {x}, Sel(v, y)
            PROVE  (y.magnet \in v.mag.current <=> y.want) /\ (y.magnet \in v.mag.command <=> y.want)
        <5>1. y = x
          BY <2>9, <2>11, <4>1, <4>4
        <5> QED BY <2>12, <3>2, <4>1, <5>1
      <4> QED BY <4>2, <4>3, <4>4 DEF Finds
    <3> QED BY <2>1, <2>8, <3>2, <3>3, <3>4, <3>5, <3>6 DEF MagRun
  <2> QED BY <2>13, <2>14
<1>2. CASE ~Switches(w, x)
  <2>1. v = w
    BY <1>2 DEF HasSwitched
  <2>2. ASSUME w.state = "StTurnout", Sel(w, x), x.magnet # NoMagnet PROVE FALSE
    <3>1. Locks(w) /\ x.lock /\ ~x.eager /\ x.src \in w.perma
      BY <2>2 DEF WellLaid, WellLocked, Locks, Sel
    <3>2. PICK b \in Blocks : w.perma = {b}
      BY OneBlock DEF LockRun, WorldType
    <3>3. Lazy(b) /\ x.src = b
      BY <3>1, <3>2, LazyFacts
    <3>4. w.state \in SettingStates
      BY <2>2 DEF SettingStates
    <3>5. w.rloc = {b}
      BY <3>2, <3>3, <3>4, SetsUpHere DEF LockRun
    <3> QED BY <1>2, <2>2, <3>3, <3>5 DEF Switches, Sel
  <2>3. Finds(A \cup {x}, w)
    BY <2>2 DEF MagRun, Finds
  <2> QED BY <2>1, <2>3 DEF MagRun
<1> QED BY <1>1, <1>2

(* At boot every magnet is pulled, wherever it is ("this will force an     *)
(* update at boot").  That is over, for the points a train is setting, by  *)
(* the time the train finds them all where it wants them: this follows     *)
(* from RestInv (RestIsBootOver).                                          *)
BootOver ==
    \A t \in TheTrains :
        LET X == {x \in Setting(t) : x.magnet # NoMagnet}
        IN  train[t].state = "StTurnout" /\ (\A x \in X : (x.magnet \in mag.current) = x.want)
               => \A x \in X : x.magnet \notin mag.set0 \cup mag.set1

(* When a train goes on from its points they rest where it wants them.     *)
LEMMA FoundRests ==
  ASSUME WellLocked, WellLaid, BootOver, NEW w, LockRun(TheTransitions, w),
         MagRun(TheTransitions, w), w.state = "StTurnout",
         RouteKept(train[w.name]), train[w.name].perma \in Singles,
         NEW y \in TheTransitions, Sel(w, y), y.magnet # NoMagnet
  PROVE  At(w.mag, y.magnet, y.want)
<1> DEFINE r == train[w.name]
<1>1. y.lock /\ ~y.eager
  BY DEF WellLaid, WellLocked
<1>2. r.state = "StTurnout" /\ w.perma = r.perma /\ w.dir = r.dir
  BY <1>1 DEF MagRun, Finds, Locks
<1>3. \A x : Sel(w, x) <=> Sel(r, x)
  BY <1>2 DEF Sel
<1>4. r.state \in SettingStates
  BY <1>2 DEF SettingStates
<1>5. /\ y.magnet \in w.mag.current <=> y.want
      /\ y.magnet \in w.mag.command <=> y.want
  BY DEF MagRun, Finds
<1>6. w.name \in TheTrains
  BY DEF LockRun, WorldType
<1>7. ASSUME NEW x \in Setting(w.name), x.magnet # NoMagnet
      PROVE  (x.magnet \in mag.current) = x.want
  <2>1. /\ x \in TheTransitions /\ x.src \in r.rloc /\ (HasDirection(x) => x \in r.dir)
    BY DEF Setting
  <2>2. ~x.eager /\ x.want \in BOOLEAN
    BY <1>7, <2>1, TransitionIs DEF WellLaid, WellLocked
  <2>3. Sel(w, x)
    BY <1>3, <1>4, <2>1, <2>2 DEF RouteKept, Synced, Sel
  <2>4. x.magnet \in mag.current <=> x.want
    BY <1>7, <2>1, <2>3 DEF MagRun, Finds
  <2> QED BY <2>2, <2>4
<1>8. y \in Setting(w.name)
  <2>1. PICK b \in Blocks : r.perma = {b}
    BY OneBlock
  <2>2. y.src = b /\ (HasDirection(y) => y \in r.dir)
    BY <1>3, <2>1 DEF Sel
  <2>3. r.rloc = {b}
    BY <1>1, <1>4, <2>1, <2>2, LazyFacts, SetsUpHere DEF RouteKept
  <2> QED BY <1>4, <2>2, <2>3 DEF Setting
<1>9. y.magnet \notin mag.set0 \cup mag.set1
  BY <1>2, <1>6, <1>7, <1>8 DEF BootOver
<1>10. y.magnet \notin w.mag.set0 /\ y.magnet \notin w.mag.set1
  BY <1>9 DEF MagRun
<1> QED BY <1>5, <1>10 DEF At

(* What a run leaves of the magnets.                                       *)
MagRight(z) ==
    /\ InStep(z.mag) /\ RoutesLie(z.mag) /\ Points(z.mag, z)
    /\ \A u \in TheTrains : u # z.name => Points(z.mag, train[u])

LEMMA MagClosing ==
  ASSUME WellLocked, WellLaid, BootOver, NEW w, LockRun(TheTransitions, w),
         MagRun(TheTransitions, w),
         RouteKept(train[w.name]), train[w.name].perma \in Singles,
         NEW a, NEW b, NEW c, NEW z, Closing(w, a, b, c, z)
  PROVE  MagRight(z)
<1>1. a.name = w.name /\ a.mag = w.mag /\ a.perma = w.perma /\ a.dir = w.dir
  BY DEF Closing, HasAsked, Keeps, Fields
<1>2. b.name = a.name /\ b.mag = a.mag /\ b.perma = a.perma /\ b.dir = a.dir /\ b.state = a.state
  BY DEF Closing, Keeps, Fields
<1>3. c.name = b.name /\ c.mag = b.mag /\ c.perma = b.perma /\ c.dir = b.dir
  BY DEF Closing, HasStepped, Keeps, Fields
<1>4. z.name = c.name /\ z.mag = c.mag /\ z.perma = c.perma /\ z.dir = c.dir /\ z.state = c.state
  BY DEF Closing, HasSent, Keeps, Fields
<1>5. z.name = w.name /\ z.mag = w.mag /\ z.perma = w.perma /\ z.dir = w.dir
  BY <1>1, <1>2, <1>3, <1>4
<1>6. a.state \in Past => w.state \in Past
  BY DEF Closing, HasAsked, Answers, Past
<1>7. a.state = "StTurnout" => w.state = "StTurnout"
  BY DEF Closing, HasAsked, Answers
<1>8. c.state \in Past => b.state \in Past \/ b.state = "StTurnout"
  BY DEF Closing, HasStepped, StatePairs, Past
<1>9. z.state \in Past => w.state \in Past \/ w.state = "StTurnout"
  BY <1>2, <1>4, <1>6, <1>7, <1>8
<1>10. Points(z.mag, z)
  <2>1. SUFFICES ASSUME z.state \in Past, NEW y \in TheTransitions, Sel(z, y),
                        y.magnet # NoMagnet
                 PROVE  At(w.mag, y.magnet, y.want)
    BY <1>5 DEF Points
  <2>2. Sel(w, y)
    BY <1>5, <2>1 DEF Sel
  <2>3. CASE w.state \in Past
    BY <2>1, <2>2, <2>3 DEF MagRun, Points
  <2>4. CASE w.state = "StTurnout"
    BY <2>1, <2>2, <2>4, FoundRests
  <2> QED BY <1>9, <2>1, <2>3, <2>4
<1> QED BY <1>5, <1>10 DEF MagRun, MagRight

-----------------------------------------------------------------------------
(* The trains on the track.  A route leaves a block and enters a block     *)
(* once, and no train stands where a route leads or where another stands.  *)
Phys ==
    /\ \A x, y \in routes : x.src = y.src \/ x.dst = y.dst => x = y
    /\ \A x \in routes : \A t \in TheTrains : pos[t] # x.dst
    /\ \A t, u \in TheTrains : pos[t] = pos[u] => t = u

(* The train is at, or heads for, a block that is not left eagerly.        *)
Owns(r) == \E p \in r.perma : Own(p)

Here(t, r) ==
    \/ r.perma = {pos[t]}
    \/ \E x \in routes : x.src = pos[t] /\ r.perma = {x.dst}

(* The states from the request to the signal on.                           *)
Answered == {"StGreenRequested", "StGreenWait", "StRequestTransition"}

(* How far the route of train t, in such a block, is; g is request_green.  *)
Phase(t, g, r) ==
    r.perma = {pos[t]} /\ Own(pos[t]) =>
        /\ r.state \notin Answered => ~RouteOut(pos[t])
        /\ r.state # "StGreenRequested" => pos[t] \notin g
        /\ pos[t] \in g => ~RouteOut(pos[t])
        /\ r.state \in Answered => \A x \in routes : x.src = pos[t] => Sel(r, x)
        /\ r.state \in {"StGreenWait", "StRequestTransition"} => RouteOut(pos[t])

(* A train sets up a route out of such a block only when it has arrived    *)
(* there, and has chosen one; only the train in it has asked its signal.   *)
Place(t, g, r) ==
    /\ Here(t, r)
    /\ r.state \in SettingStates /\ Owns(r) =>
          r.perma = {pos[t]} /\ \E x \in TheTransitions : Sel(r, x)
    /\ Phase(t, g, r)
    /\ Own(pos[t]) /\ pos[t] \in g => r.perma = {pos[t]}

(* The detector that a run looks at is that of the train's place, or the   *)
(* one the train is at.                                                    *)
PlaceRun(w) ==
    /\ w \in WorldType /\ w.green = green /\ w.moving = train[w.name].moving
    /\ w.det \in w.perma \/ w.det = pos[w.name]
    /\ Place(w.name, green, w)

LEMMA OwnLazy ==
  ASSUME WellLocked, NEW x \in TheTransitions
  PROVE  /\ \A b : Own(b) => Lazy(b)
         /\ x.eager => ~Own(x.src)
         /\ ~x.eager => Own(x.src)
BY DEF Own, Lazy, WellLocked

LEMMA AtPlace ==
  ASSUME Phys, NEW t \in TheTrains, NEW r, Here(t, r), NEW p, r.perma = {p}, Detector(p)
  PROVE  p = pos[t]
BY DEF Phys, Here, Detector

(* It asks nothing of states before the request but that of the states in  *)
(* which a route is set up.                                                *)
LEMMA PlaceSame ==
  ASSUME NEW t, NEW g, NEW w, Place(t, g, w), NEW v, v.perma = w.perma,
         \/ v.state = w.state /\ v.dir = w.dir
         \/ /\ w.state \notin Answered /\ v.state \notin Answered
            /\ v.state \in SettingStates => w.state \in SettingStates /\ v.dir = w.dir
  PROVE  Place(t, g, v)
<1>1. Here(t, v) /\ (Owns(v) <=> Owns(w))
  BY DEF Place, Here, Owns
<1>2. v.dir = w.dir => \A x : Sel(v, x) <=> Sel(w, x)
  BY DEF Sel
<1>3. CASE v.state = w.state /\ v.dir = w.dir
  BY <1>1, <1>2, <1>3 DEF Place, Phase
<1>4. CASE /\ w.state \notin Answered /\ v.state \notin Answered
           /\ v.state \in SettingStates => w.state \in SettingStates /\ v.dir = w.dir
  <2>1. Phase(t, g, v)
    BY <1>4 DEF Place, Phase, Answered
  <2> QED BY <1>1, <1>2, <1>4, <2>1 DEF Place
<1> QED BY <1>3, <1>4

LEMMA PlaceRest ==
  ASSUME NEW w, PlaceRun(w), NEW x, NEW v \in WorldType,
         \/ Imported(w, x, v) \/ Keeps(w, v, {"ff"}) \/ Forgot(w, x, v)
         \/ TriesAgain(w, x, v) \/ HasSwitched(w, x, v) \/ HasReversed(w, x, v)
  PROVE  PlaceRun(v)
<1>1. /\ v.name = w.name /\ v.green = w.green /\ v.moving = w.moving
      /\ v.perma = w.perma
  BY DEF Imported, Forgot, TriesAgain, HasSwitched, HasReversed, Keeps, Fields
<1>2. \/ v.state = w.state /\ v.dir = w.dir
      \/ /\ w.state \notin Answered /\ v.state \notin Answered
         /\ v.state \in SettingStates => w.state \in SettingStates /\ v.dir = w.dir
  <2>1. CASE Imported(w, x, v)
    BY <2>1 DEF Imported, Keeps, Fields
  <2>2. CASE Keeps(w, v, {"ff"})
    BY <2>2 DEF Keeps, Fields
  <2>4. CASE Forgot(w, x, v)
    BY <2>4 DEF Forgot, Keeps, Fields, Answered, SettingStates
  <2>6. CASE TriesAgain(w, x, v)
    BY <2>6 DEF TriesAgain, Answered, SettingStates
  <2>7. CASE HasSwitched(w, x, v)
    BY <2>7 DEF HasSwitched, Switches, Keeps, Fields, Answered, SettingStates
  <2>8. CASE HasReversed(w, x, v)
    BY <2>8 DEF HasReversed, Backing, Keeps, Fields, Answered, SettingStates
  <2> QED BY <2>1, <2>2, <2>4, <2>6, <2>7, <2>8
<1>3. v.det = w.det \/ v.det \in v.perma
  BY <1>1 DEF Imported, Forgot, TriesAgain, HasSwitched, HasReversed, Keeps, Fields
<1>4. Place(v.name, green, v)
  BY <1>1, <1>2, PlaceSame DEF PlaceRun
<1> QED BY <1>1, <1>3, <1>4 DEF PlaceRun

LEMMA PlaceMove ==
  ASSUME WellLocked, Phys, routes \in SUBSET TheTransitions,
         NEW A, NEW w, LockRun(A, w), PlaceRun(w), NEW x \in TheTransitions,
         NEW v, LockRun(A, v), HasMoved(w, x, v)
  PROVE  PlaceRun(v)
<1>1. CASE Moves(w, x)
  <2>0. v \in WorldType
    BY DEF LockRun
  <2>1. /\ v.name = w.name /\ v.green = w.green /\ v.moving = w.moving /\ v.state = w.state
        /\ v.perma = {x.dst} /\ v.det = x.dst
    BY <1>1 DEF HasMoved, Keeps, Fields
  <2>2. x.eager /\ x.src \in w.perma /\ Detector(x.src) /\ RouteOut(x.src)
    BY <1>1 DEF Moves
  <2>3. w.perma = {x.src} /\ w.name \in TheTrains
    BY <2>2, OneBlock DEF PlaceRun, WorldType
  <2>4. x.src = pos[w.name]
    BY <2>2, <2>3, AtPlace DEF PlaceRun, Place
  <2>5. x \in routes
    BY <2>2 DEF RouteOut, WellLocked
  <2>6. x.dst # pos[w.name]
    BY <2>3, <2>5 DEF Phys
  <2>7. ~Own(pos[w.name])
    BY <2>2, <2>4, OwnLazy
  <2>8. Here(w.name, v)
    BY <2>1, <2>4, <2>5 DEF Here
  <2>9. Phase(w.name, green, v)
    BY <2>7 DEF Phase
  <2>10. v.state \in SettingStates => ~Owns(v)
    <3>1. SUFFICES ASSUME w.state \in SettingStates PROVE ~Own(x.dst)
      BY <2>1 DEF Owns
    <3>2. ~Lazy(x.dst)
      BY <1>1, <3>1, MoveFacts
    <3> QED BY <3>2, OwnLazy
  <2>11. Place(w.name, green, v)
    BY <2>7, <2>8, <2>9, <2>10 DEF Place
  <2> QED BY <2>0, <2>1, <2>11 DEF PlaceRun
<1>2. CASE ~Moves(w, x)
  BY <1>2 DEF HasMoved
<1> QED BY <1>1, <1>2

LEMMA PlaceSetOut ==
  ASSUME WellLocked, Phys, NEW A, NEW w, LockRun(A, w), PlaceRun(w),
         NEW x \in TheTransitions, ~x.eager /\ x.src \in w.perma => w.det = x.src,
         NEW v \in WorldType, HasSetOut(w, x, v)
  PROVE  PlaceRun(v)
<1>1. CASE SetsOut(w, x)
  <2>1. /\ v.name = w.name /\ v.green = w.green /\ v.moving = w.moving
        /\ v.state = "StReadyToGo" /\ v.perma = w.perma /\ v.det = w.det
        /\ HasDirection(x) => x \in v.dir
    BY <1>1 DEF HasSetOut, Keeps, Fields
  <2>2. w.state = "StWaiting" /\ x.src \in w.rloc /\ MayLeave(w, x)
    BY <1>1 DEF SetsOut
  <2>3. PICK p \in Blocks : w.perma = {p}
    BY OneBlock DEF PlaceRun, WorldType
  <2>4. w.name \in TheTrains
    BY DEF PlaceRun, WorldType
  <2>5. ASSUME Own(p) PROVE p = pos[w.name] /\ Sel(v, x)
    <3>1. Lazy(p)
      BY <2>5, OwnLazy
    <3>2. x.src = p
      BY <2>2, <2>3, <3>1, LazyRoutesHere DEF LockRun
    <3>3. ~x.eager
      BY <3>1, <3>2, LazyFacts
    <3>4. w.det = p
      BY <2>3, <3>2, <3>3
    <3>5. Detector(p)
      BY <2>2, <3>3, <3>4 DEF MayLeave
    <3>6. p = pos[w.name]
      BY <2>3, <2>4, <3>5, AtPlace DEF PlaceRun, Place
    <3> QED BY <2>1, <2>3, <3>2, <3>6 DEF Sel
  <2>6. Owns(v) => v.perma = {pos[w.name]} /\ Sel(v, x)
    BY <2>1, <2>3, <2>5 DEF Owns
  <2>7. Here(w.name, v)
    BY <2>1 DEF PlaceRun, Place, Here
  <2>8. Phase(w.name, green, v)
    BY <2>1, <2>2 DEF PlaceRun, Place, Phase, Answered
  <2>9. Place(w.name, green, v)
    BY <2>1, <2>6, <2>7, <2>8 DEF PlaceRun, Place
  <2> QED BY <2>1, <2>9 DEF PlaceRun
<1>2. CASE ~SetsOut(w, x)
  BY <1>2 DEF HasSetOut
<1> QED BY <1>1, <1>2

(* The route that a train leaves by is the one it chose; routing that runs *)
(* ahead does so from a block that the train leaves by itself.             *)
LEMMA LeavesBy ==
  ASSUME WellLocked, WellLaid, Phys, routes \in SUBSET TheTransitions,
         NEW A, NEW B, NEW w, LockRun(A, w), MagRun(B, w), PlaceRun(w),
         NEW x \in TheTransitions, w.state = "StRequestTransition", IsAt(w, x)
  PROVE  /\ x.eager => ~Owns(w)
         /\ ~x.eager => /\ w.perma = {pos[w.name]} /\ x.src = pos[w.name] /\ Own(x.src)
                        /\ x \in routes /\ x.dst # pos[w.name]
<1>2. PICK p \in Blocks : w.perma = {p}
  BY OneBlock DEF PlaceRun, WorldType
<1>3. w.name \in TheTrains /\ w.state \in SettingStates
  BY DEF PlaceRun, WorldType, SettingStates
<1>4. CASE x.eager
  <2>1. x.src \in w.rloc /\ ~Lazy(x.src)
    BY <1>4, LazyFacts DEF IsAt
  <2>2. ~Lazy(p)
    BY <1>2, <2>1, LazyRoutesHere DEF LockRun
  <2> QED BY <1>2, <1>4, <2>2, OwnLazy DEF Owns
<1>5. CASE ~x.eager
  <2>1. p = x.src /\ Own(p)
    BY <1>2, <1>5, OwnLazy DEF IsAt
  <2>2. w.perma = {pos[w.name]} /\ p = pos[w.name]
    BY <1>2, <1>3, <2>1 DEF PlaceRun, Place, Owns
  <2>3. Phase(w.name, green, w) /\ w.state \in Answered
    BY DEF PlaceRun, Place, Answered
  <2>4. PICK y \in routes : y.src = p
    BY <2>1, <2>2, <2>3 DEF Phase, RouteOut
  <2>5. Sel(w, y) /\ Sel(w, x)
    BY <1>5, <2>1, <2>2, <2>3, <2>4 DEF Phase, IsAt, Sel
  <2>6. x = y
    <3>1. SUFFICES ASSUME x # y PROVE FALSE
      OBVIOUS
    <3>2. y \in TheTransitions
      OBVIOUS
    <3>3. x.magnet # NoMagnet /\ x.magnet = y.magnet /\ x.want # y.want
      BY <2>1, <2>4, <3>1, <3>2 DEF WellLaid
    <3>4. w.state \in Past
      BY DEF Past
    <3>5. At(w.mag, x.magnet, x.want) /\ At(w.mag, x.magnet, y.want)
      BY <2>5, <3>2, <3>3, <3>4 DEF MagRun, Points
    <3>6. x.want \in BOOLEAN /\ y.want \in BOOLEAN
      BY <3>2, TransitionIs
    <3> QED BY <3>3, <3>5, <3>6 DEF At
  <2>7. x \in routes /\ x.dst # pos[w.name]
    BY <1>3, <2>4, <2>6 DEF Phys
  <2> QED BY <1>5, <2>1, <2>2, <2>7
<1> QED BY <1>4, <1>5

LEMMA PlaceLeave ==
  ASSUME WellLocked, WellLaid, Phys, routes \in SUBSET TheTransitions,
         NEW A, NEW B, NEW w, LockRun(A, w), MagRun(B, w), PlaceRun(w),
         NEW x \in TheTransitions, NEW v \in WorldType, HasLeft(w, x, v)
  PROVE  PlaceRun(v)
<1>1. CASE w.state = "StRequestTransition" /\ IsAt(w, x)
  <2>1. /\ v.name = w.name /\ v.green = w.green /\ v.moving = w.moving
        /\ v.state = "StTransitionDone" /\ v.det = w.det
        /\ v.perma = IF x.eager THEN w.perma ELSE {x.dst}
    BY <1>1 DEF HasLeft, Keeps, Fields
  <2>2. v.state \notin SettingStates
    BY <2>1 DEF SettingStates
  <2>3. /\ x.eager => ~Owns(w)
        /\ ~x.eager => /\ w.perma = {pos[w.name]} /\ x.src = pos[w.name] /\ Own(x.src)
                       /\ x \in routes /\ x.dst # pos[w.name]
    BY <1>1, LeavesBy
  <2>4. CASE x.eager
    <3>1. v.perma = w.perma
      BY <2>1, <2>4
    <3>2. Phase(w.name, green, v)
      BY <2>3, <2>4, <3>1 DEF Phase, Owns
    <3>3. Place(w.name, green, v)
      BY <2>2, <3>1, <3>2 DEF PlaceRun, Place, Here
    <3> QED BY <2>1, <3>1, <3>3 DEF PlaceRun
  <2>5. CASE ~x.eager
    <3>1. v.perma = {x.dst}
      BY <2>1, <2>5
    <3>2. Here(w.name, v)
      BY <2>3, <2>5, <3>1 DEF Here
    <3>3. Phase(w.name, green, v)
      BY <2>3, <2>5, <3>1 DEF Phase
    <3>4. pos[w.name] \notin green
      BY <1>1, <2>3, <2>5 DEF PlaceRun, Place, Phase
    <3>5. Place(w.name, green, v)
      BY <2>2, <3>2, <3>3, <3>4 DEF Place
    <3>6. w.det = pos[w.name]
      BY <2>3, <2>5 DEF PlaceRun
    <3> QED BY <2>1, <3>5, <3>6 DEF PlaceRun
  <2> QED BY <2>4, <2>5
<1>2. CASE ~(w.state = "StRequestTransition" /\ IsAt(w, x))
  BY <1>2 DEF HasLeft
<1> QED BY <1>1, <1>2

(* A transition of the schedule, and the run, keep lock, points and place. *)
RunRight(A, w) == LockRun(A, w) /\ MagRun(A, w) /\ PlaceRun(w)

LEMMA RunThrough ==
  ASSUME WellLocked, WellLaid, Phys, routes \in SUBSET TheTransitions,
         NEW A, A \subseteq TheTransitions, NEW w, RunRight(A, w), NEW x \in TheTransitions,
         NEW a, NEW b, NEW c, NEW d, NEW e, NEW f, NEW g, NEW h, NEW z,
         Through(w, x, a, b, c, d, e, f, g, h, z)
  PROVE  /\ LockRun(A \cup {x}, c) /\ LockRun(A \cup {x}, e)
         /\ MagRun(A, e) /\ PlaceRun(a) /\ PlaceRun(c) /\ PlaceRun(e) /\ PlaceRun(h)
         /\ ~x.eager /\ x.src \in c.perma => c.det = x.src
         /\ RunRight(A \cup {x}, z)
<1> DEFINE B == A \cup {x}
<1>0. w \in WorldType /\ LockRun(A, w) /\ MagRun(A, w) /\ PlaceRun(w)
  BY DEF RunRight, LockRun
<1>1. Through(w, x, a, b, c, d, e, f, g, h, z)
  OBVIOUS
<1>2. /\ LockRun(B, a) /\ LockRun(B, b) /\ LockRun(B, c) /\ LockRun(B, d)
      /\ LockRun(B, e) /\ LockRun(B, f) /\ LockRun(B, g) /\ LockRun(B, h)
      /\ LockRun(B, z)
  BY <1>0, <1>1, LockThrough
<1>3. {a, b, c, d, e, f, g, h, z} \subseteq WorldType
  BY <1>1 DEF Through
<1>4. MagRun(A, a) /\ PlaceRun(a)
  BY <1>0, <1>1, <1>3, MagRest, PlaceRest DEF Through
<1>5. MagRun(A, b) /\ PlaceRun(b)
  <2>1. HasMoved(a, x, b)
    BY <1>1 DEF Through
  <2>2. MagRun(A, b)
    BY <1>2, <1>4, <2>1, MagMove
  <2>3. PlaceRun(b)
    BY <1>2, <1>4, <2>1, PlaceMove
  <2> QED BY <2>2, <2>3
<1>6. MagRun(A, c) /\ PlaceRun(c)
  BY <1>1, <1>3, <1>5, MagRest, PlaceRest DEF Through
<1>13. ~x.eager /\ x.src \in c.perma => c.det = x.src
  <2>1. c.det = b.det /\ c.perma = b.perma
    BY <1>1 DEF Through, Keeps, Fields
  <2>2. ~x.eager => b = a
    BY <1>1 DEF Through, HasMoved, Moves
  <2>3. a.perma = w.perma /\ (x.src \in w.perma => a.det = x.src)
    BY <1>1 DEF Through, Imported, Keeps, Fields
  <2> QED BY <2>1, <2>2, <2>3
<1>7. MagRun(A, d) /\ PlaceRun(d)
  <2>1. HasSetOut(c, x, d) /\ d \in WorldType
    BY <1>1, <1>3 DEF Through
  <2>3. PlaceRun(d)
    BY <1>2, <1>6, <1>13, <2>1, PlaceSetOut
  <2>4. MagRun(A, d)
    BY <1>6, <2>1, MagRest
  <2> QED BY <2>3, <2>4
<1>8. MagRun(A, e) /\ PlaceRun(e)
  BY <1>1, <1>3, <1>7, MagRest, PlaceRest DEF Through
<1>9. MagRun(A, f) /\ PlaceRun(f)
  <2>1. HasLeft(e, x, f) /\ f \in WorldType
    BY <1>1, <1>3 DEF Through
  <2>2. PlaceRun(f)
    BY <1>2, <1>8, <2>1, PlaceLeave
  <2>3. MagRun(A, f)
    BY <1>8, <2>1, MagRest
  <2> QED BY <2>2, <2>3
<1>10. MagRun(A, g) /\ PlaceRun(g)
  BY <1>1, <1>3, <1>9, MagRest, PlaceRest DEF Through
<1>11. MagRun(B, h) /\ PlaceRun(h)
  <2>1. HasSwitched(g, x, h) /\ h \in WorldType
    BY <1>1, <1>3 DEF Through
  <2>2. A \subseteq B /\ B \subseteq TheTransitions /\ x \in B
    OBVIOUS
  <2>3. MagRun(A \cup {x}, h)
    BY <1>2, <1>10, <2>1, <2>2, MagSwitch
  <2>4. PlaceRun(h)
    BY <1>10, <2>1, PlaceRest
  <2> QED BY <2>3, <2>4
<1> HIDE DEF B
<1>12. MagRun(B, z) /\ PlaceRun(z)
  BY <1>1, <1>3, <1>11, MagRest, PlaceRest DEF Through
<1> QED BY <1>2, <1>4, <1>6, <1>8, <1>11, <1>12, <1>13 DEF RunRight, B

LEMMA RunTransition ==
  ASSUME WellLocked, WellLaid, Phys, routes \in SUBSET TheTransitions,
         NEW A, A \subseteq TheTransitions, NEW w, RunRight(A, w), NEW x \in TheTransitions
  PROVE  RunRight(A \cup {x}, AddBlockTransition(w, x))
<1> DEFINE z == AddBlockTransition(w, x)
<1>1. PICK a, b, c, d, e, f, g, h : Through(w, x, a, b, c, d, e, f, g, h, z)
  BY TransitionEffect DEF RunRight, LockRun
<1> HIDE DEF z
<1>2. RunRight(A \cup {x}, z)
  BY <1>1, RunThrough
<1> QED BY <1>2 DEF z

RunSoFar(p) == RunRight(FirstOnes(p[2]), p[3]) /\ p[3].name = p[1]
RunFold == INSTANCE FoldProofs WITH Op <- AddBlockTransition, Good <- RunSoFar

LEMMA RunFolded ==
  ASSUME WellLocked, WellLaid, Phys, routes \in SUBSET TheTransitions,
         NEW w, RunRight({}, w)
  PROVE  RunRight(TheTransitions, Folded(w)) /\ Folded(w).name = w.name
<1>1. Transitions \in Seq(TheTransitions)
  BY SchedulesAssumption
<1>2. RunSoFar(<<w.name, 0, w>>)
  BY FirstOnesAre DEF RunSoFar
<1>3. \A k \in 0..Len(Transitions) : \A s :
         k < Len(Transitions) /\ RunSoFar(<<w.name, k, s>>)
            => RunSoFar(<<w.name, k + 1, AddBlockTransition(s, Transitions[k + 1])>>)
  <2>1. ASSUME NEW k \in 0..Len(Transitions), NEW s, k < Len(Transitions),
               RunRight(FirstOnes(k), s)
        PROVE  /\ RunRight(FirstOnes(k + 1), AddBlockTransition(s, Transitions[k + 1]))
               /\ AddBlockTransition(s, Transitions[k + 1]).name = s.name
    <3>1. /\ FirstOnes(k) \subseteq TheTransitions /\ Transitions[k + 1] \in TheTransitions
          /\ FirstOnes(k + 1) = FirstOnes(k) \cup {Transitions[k + 1]}
      BY <2>1, FirstOnesAre
    <3>2. s \in WorldType
      BY <2>1 DEF RunRight, LockRun
    <3>3. RunRight(FirstOnes(k) \cup {Transitions[k + 1]}, AddBlockTransition(s, Transitions[k + 1]))
      BY <2>1, <3>1, RunTransition
    <3> QED BY <3>1, <3>2, <3>3, SameTrain
  <2> QED BY <2>1 DEF RunSoFar
<1>4. RunSoFar(<<w.name, Len(Transitions), Folded(w)>>)
  BY <1>1, <1>2, <1>3, RunFold!FoldRelates DEF Folded, FoldLeft, MapThenFoldSet, Max,
     RunFold!FoldLeft, RunFold!MapThenFoldSet, RunFold!Max
<1> QED BY <1>4, FirstOnesAre DEF RunSoFar

(* The end of a run: the request to the signal, its answer, and the stop   *)
(* at the detector.                                                        *)
LEMMA PlaceAsks ==
  ASSUME WellLocked, NEW w, LockRun(TheTransitions, w), PlaceRun(w),
         NEW a, HasAsked(w, RoutingBlock(w), a)
  PROVE  /\ Place(w.name, a.green, a)
         /\ \A b : Own(b) /\ b # pos[w.name] => (b \in a.green <=> b \in green)
<1> DEFINE t == w.name
           k == RoutingBlock(w)
<1>1. a.name = t /\ a.perma = w.perma /\ a.dir = w.dir
  BY DEF HasAsked, Keeps, Fields
<1>2. \A x : Sel(a, x) <=> Sel(w, x)
  BY <1>1 DEF Sel
<1>3. Here(t, a) /\ (Owns(a) <=> Owns(w))
  BY <1>1 DEF PlaceRun, Place, Here, Owns
<1>4. w \in WorldType /\ w.green = green
  BY DEF PlaceRun
<1>5. PICK p \in Blocks : w.perma = {p}
  BY <1>4, OneBlock DEF WorldType
<1>6. CASE a.state = w.state /\ a.green = green
  BY <1>1, <1>6, PlaceSame DEF PlaceRun
<1>7. ASSUME w.state \in SettingStates, Own(p) PROVE p = pos[t] /\ k = p
  <2>1. p = pos[t]
    BY <1>5, <1>7 DEF PlaceRun, Place, Owns
  <2>2. w.rloc = {p}
    BY <1>5, <1>7, OwnLazy, SetsUpHere DEF LockRun, Own
  <2> QED BY <1>4, <2>1, <2>2, RoutingBlockIs
<1>8. ASSUME w.state \in SettingStates, Own(k) PROVE k = p
  <2>1. PICK x \in TheTransitions : x.src = k /\ ~x.eager
    BY <1>8 DEF Own
  <2>2. w.rloc # {}
    BY <1>8 DEF LockRun, Ahead
  <2>3. k \in w.rloc /\ w.state # "StTransitionDone"
    BY <1>4, <1>8, <2>2, RoutingBlockIs DEF SettingStates
  <2> QED BY <1>5, <2>1, <2>3 DEF LockRun, Synced
<1> HIDE DEF k
<1>9. Answers(w, k, a)
  BY DEF HasAsked, k
<1>10. CASE w.state = "StRequestGreen" /\ a.state = "StGreenRequested" /\ a.green = w.green \cup {k}
  <2>1. w.state \in SettingStates /\ a.state \in SettingStates
    BY <1>10 DEF SettingStates
  <2>2. Phase(t, a.green, a)
    <3>1. SUFFICES ASSUME a.perma = {pos[t]}, Own(pos[t]) PROVE ~RouteOut(pos[t])
      BY <1>10 DEF Phase, Answered, RouteOut
    <3> QED BY <1>1, <1>10, <3>1 DEF PlaceRun, Place, Phase, Answered
  <2>3. Own(pos[t]) /\ pos[t] \in a.green => a.perma = {pos[t]}
    <3>1. SUFFICES ASSUME Own(pos[t]), pos[t] = k PROVE a.perma = {pos[t]}
      BY <1>1, <1>4, <1>10 DEF PlaceRun, Place
    <3> QED BY <1>1, <1>5, <1>8, <2>1, <3>1
  <2>4. Place(t, a.green, a)
    BY <1>1, <1>2, <1>3, <2>1, <2>2, <2>3 DEF PlaceRun, Place
  <2>5. Own(k) => k = pos[t]
    BY <1>7, <1>8, <2>1
  <2> QED BY <1>4, <1>10, <2>4, <2>5
<1>11. ASSUME a.green = green,
              \/ w.state = "StGreenRequested" /\ k \notin green /\ ~RouteOut(k) /\ a.state = "StGreenFailed"
              \/ w.state = "StGreenRequested" /\ RouteOut(k) /\ a.state \in {"StGreenWait", "StRequestTransition"}
              \/ w.state = "StGreenWait" /\ a.state = "StRequestTransition"
       PROVE  Place(t, green, a)
  <2>1. w.state \in SettingStates /\ a.state \in SettingStates
    BY <1>11 DEF SettingStates
  <2>2. Phase(t, green, a)
    <3>1. SUFFICES ASSUME a.perma = {pos[t]}, Own(pos[t])
                   PROVE  /\ a.state \notin Answered => ~RouteOut(pos[t])
                          /\ pos[t] \notin green
                          /\ a.state \in Answered => \A x \in routes : x.src = pos[t] => Sel(a, x)
                          /\ a.state \in {"StGreenWait", "StRequestTransition"} => RouteOut(pos[t])
      BY DEF Phase
    <3>2. w.perma = {pos[t]} /\ k = pos[t]
      BY <1>1, <1>5, <1>7, <2>1, <3>1
    <3>3. Phase(t, green, w)
      BY DEF PlaceRun, Place
    <3> QED BY <1>2, <1>11, <3>1, <3>2, <3>3 DEF Phase, Answered
  <2> QED BY <1>1, <1>2, <1>3, <2>1, <2>2 DEF PlaceRun, Place
<1>12. CASE w.state = "StTransitionDone" /\ a.state = "StWaiting" /\ a.green = green
  <2>1. w.state \notin Answered /\ a.state \notin Answered /\ a.state \notin SettingStates
    BY <1>12 DEF Answered, SettingStates
  <2> QED BY <1>1, <1>12, <2>1, PlaceSame DEF PlaceRun
<1> QED BY <1>4, <1>6, <1>9, <1>10, <1>11, <1>12 DEF Answers

LEMMA PlaceClosing ==
  ASSUME WellLocked, NEW w, LockRun(TheTransitions, w), PlaceRun(w),
         NEW a, NEW b, NEW c, NEW z, Closing(w, a, b, c, z)
  PROVE  /\ Place(w.name, z.green, z)
         /\ \A k : Own(k) /\ k # pos[w.name] => (k \in z.green <=> k \in green)
         /\ w.moving /\ z.moving => z.perma # {pos[w.name]}
<1>1. /\ Place(w.name, a.green, a)
      /\ \A k : Own(k) /\ k # pos[w.name] => (k \in a.green <=> k \in green)
  BY PlaceAsks DEF Closing
<1>2. a.perma = w.perma /\ a.moving = w.moving /\ a.det = w.det
  BY DEF Closing, HasAsked, Keeps, Fields
<1>3. /\ b.perma = a.perma /\ b.moving = a.moving /\ b.state = a.state /\ b.dir = a.dir
      /\ b.green = a.green /\ b.stop = (a.stop \/ (a.moving /\ Detector(a.det)))
  BY DEF Closing, Keeps, Fields
<1>4. c.perma = b.perma /\ c.green = b.green /\ c.stop = b.stop /\ c.dir = b.dir
  BY DEF Closing, HasStepped, Keeps, Fields
<1>5. /\ z.perma = c.perma /\ z.green = c.green /\ z.state = c.state /\ z.dir = c.dir
      /\ z.moving = ((c.moving \/ c.go) /\ ~Stops(c))
  BY DEF Closing, HasSent, Keeps, Fields
<1>6. \/ c.state = b.state
      \/ /\ b.state \notin Answered /\ c.state \notin Answered
         /\ c.state \in SettingStates => b.state \in SettingStates
  BY DEF Closing, HasStepped, StatePairs, Answered, SettingStates
<1>7. Place(w.name, z.green, b)
  BY <1>1, <1>3, <1>4, <1>5, PlaceSame
<1>8. Place(w.name, z.green, z)
  BY <1>4, <1>5, <1>6, <1>7, PlaceSame
<1>9. w.moving /\ z.moving => z.perma # {pos[w.name]}
  <2>1. SUFFICES ASSUME w.moving, z.moving, w.perma = {pos[w.name]} PROVE FALSE
    BY <1>2, <1>3, <1>4, <1>5
  <2>2. ~c.stop
    BY <1>5, <2>1 DEF Stops
  <2>3. ~Detector(w.det)
    BY <1>2, <1>3, <1>4, <2>1, <2>2
  <2>4. w.det = pos[w.name] /\ w.name \in TheTrains
    BY <2>1 DEF PlaceRun, WorldType
  <2> QED BY <2>3, <2>4 DEF Detector
<1> QED BY <1>1, <1>3, <1>4, <1>5, <1>8, <1>9

-----------------------------------------------------------------------------
(* Points and places, between the runs.  A train that has been told to     *)
(* drive for a run is on its way, and a block that trains leave by their   *)
(* own choice has a route or a request only for the train in it.           *)
TrackInv ==
    /\ LockInv /\ Phys
    /\ InStep(mag) /\ RoutesLie(mag)
    /\ \A t \in TheTrains : Points(mag, train[t])
    /\ \A t \in TheTrains : Place(t, green, train[t])
    /\ \A t \in TheTrains : train[t].moving /\ train[t].drove => train[t].perma # {pos[t]}
    /\ \A x \in routes : Own(x.src) => Detector(x.src)
    /\ \A b \in green : Own(b) => Detector(b)

(* A run starts well.                                                      *)
LEMMA TrackStarts ==
  ASSUME TrackInv, NEW t \in TheTrains
  PROVE  RunRight({}, World(t))
<1> DEFINE w == World(t)
           r == train[t]
<1>1. /\ Typed /\ Phys /\ routes \in SUBSET TheTransitions
      /\ RouteKept(r) /\ r.perma \in Singles
  BY DEF TrackInv, LockInv, Typed, TrainType
<1>2. /\ w \in WorldType /\ w.name = t /\ w.mag = mag /\ w.green = green /\ w.lock = lock
      /\ w.det \in r.perma
  BY <1>1, WorldIs
<1>3. /\ w.state = r.state /\ w.perma = r.perma /\ w.rloc = r.rloc /\ w.dir = r.dir
      /\ w.moving = r.moving
  BY DEF World
<1> HIDE DEF w
<1>4. LockRun({}, w)
  <2>1. (Holds(w) <=> Holds(r)) /\ RouteKept(w)
    BY <1>1, <1>3, SameHolds DEF SameRoute
  <2>2. LockRight(w)
    BY <1>2, <2>1 DEF LockRight, OtherHolds, TrackInv, LockInv
  <2> QED BY <1>2, <2>1, <2>2 DEF LockRun, RouteKept, Synced
<1>5. MagRun({}, w)
  <2>1. Points(w.mag, w)
    <3>1. \A y : Sel(w, y) <=> Sel(r, y)
      BY <1>3 DEF Sel
    <3> QED BY <1>2, <1>3, <3>1 DEF Points, TrackInv
  <2>2. Finds({}, w)
    BY <1>2, <1>3 DEF Finds
  <2> QED BY <1>2, <2>1, <2>2 DEF MagRun, TrackInv
<1>6. PlaceRun(w)
  <2>1. Place(t, green, w)
    BY <1>3, PlaceSame DEF TrackInv
  <2> QED BY <1>2, <1>3, <2>1 DEF PlaceRun
<1> QED BY <1>4, <1>5, <1>6 DEF RunRight, w

(* What a run of a train does to the others.                               *)
LEMMA TrackAfterRun ==
  ASSUME WellLocked, WellLaid, BootOver, TrackInv, NEW t \in TheTrains,
         NEW z, z = RunSchedule(World(t))
  PROVE  /\ MagRight(z) /\ z.name = t /\ Place(t, z.green, z)
         /\ \A k : Own(k) /\ k # pos[t] => (k \in z.green <=> k \in green)
         /\ train[t].moving /\ z.moving => z.perma # {pos[t]}
<1> DEFINE w == World(t)
           v == Folded(w)
<1>1. /\ Typed /\ Phys /\ routes \in SUBSET TheTransitions
      /\ RouteKept(train[t]) /\ train[t].perma \in Singles
  BY DEF TrackInv, LockInv, Typed, TrainType
<1>2. w \in WorldType /\ w.name = t
  BY <1>1, WorldIs
<1>3. RunRight({}, w)
  BY TrackStarts
<1> HIDE DEF w
<1>7. RunRight(TheTransitions, v) /\ v.name = t
  BY <1>1, <1>2, <1>3, RunFolded
<1>8. PICK a, b, c : Closing(v, a, b, c, z)
  BY <1>2, RunTyped DEF w
<1> HIDE DEF v
<1>9. LockRun(TheTransitions, v) /\ MagRun(TheTransitions, v) /\ PlaceRun(v)
  BY <1>7 DEF RunRight
<1>10. MagRight(z)
  BY <1>1, <1>7, <1>8, <1>9, MagClosing
<1>11. /\ Place(t, z.green, z)
       /\ \A k : Own(k) /\ k # pos[t] => (k \in z.green <=> k \in green)
       /\ v.moving /\ z.moving => z.perma # {pos[t]}
  BY <1>7, <1>8, <1>9, PlaceClosing
<1>12. v.moving = train[t].moving
  BY <1>7, <1>9 DEF PlaceRun
<1>13. z.name = t
  <2>1. a.name = v.name
    BY <1>8 DEF Closing, HasAsked, Keeps, Fields
  <2>2. b.name = a.name
    BY <1>8 DEF Closing, Keeps, Fields
  <2>3. c.name = b.name
    BY <1>8 DEF Closing, HasStepped, Keeps, Fields
  <2>4. z.name = c.name
    BY <1>8 DEF Closing, HasSent, Keeps, Fields
  <2> QED BY <1>7, <2>1, <2>2, <2>3, <2>4
<1> QED BY <1>10, <1>11, <1>12, <1>13

LEMMA PlaceFrame ==
  ASSUME UNCHANGED <<routes, pos>>, NEW t, Place(t, green', train'[t])
  PROVE  Place(t, green, train[t])'
BY DEF Place, Here, Phase, Owns, RouteOut

(* Steps that change no place: magnets at rest stay so.                    *)
LEMMA TrackSame ==
  ASSUME WellLaid, TrackInv, LockInv', UNCHANGED <<routes, pos, green>>, InStep(mag'),
         \A m \in Reals : \A on \in BOOLEAN : At(mag, m, on) => At(mag', m, on),
         \A t \in TheTrains : /\ SameRoute(train[t], train'[t])
                              /\ train'[t].moving = train[t].moving
                              /\ train'[t].drove = train[t].drove
  PROVE  TrackInv'
<1>0. routes \in SUBSET TheTransitions
  BY DEF TrackInv, LockInv, Typed
<1>1. Phys'
  BY DEF TrackInv, Phys
<1>2. \A x \in TheTransitions : x.magnet # NoMagnet /\ At(mag, x.magnet, x.want)
                                => At(mag', x.magnet, x.want)
  BY TransitionIs DEF WellLaid
<1>3. RoutesLie(mag)'
  BY <1>0, <1>2 DEF TrackInv, RoutesLie
<1>4. ASSUME NEW t \in TheTrains PROVE Points(mag', train'[t])
  <2>1. train'[t].state = train[t].state /\ \A y : Sel(train'[t], y) <=> Sel(train[t], y)
    BY DEF SameRoute, Sel
  <2> QED BY <1>2, <2>1 DEF TrackInv, Points
<1>5. ASSUME NEW t \in TheTrains PROVE Place(t, green, train[t])'
  <2>1. Place(t, green', train'[t])
    BY PlaceSame DEF TrackInv, SameRoute
  <2> QED BY <2>1, PlaceFrame
<1>6. \A t \in TheTrains : train'[t].moving /\ train'[t].drove => train'[t].perma # {pos'[t]}
  BY DEF TrackInv, SameRoute
<1>7. (\A x \in routes' : Own(x.src) => Detector(x.src)') /\ (\A b \in green' : Own(b) => Detector(b)')
  BY DEF TrackInv, Detector
<1> QED BY <1>1, <1>3, <1>4, <1>5, <1>6, <1>7 DEF TrackInv

LEMMA TrackTrainRuns ==
  ASSUME WellLocked, WellLaid, BootOver, TrackInv, LockInv', NEW t \in TheTrains, TrainRuns(t)
  PROVE  TrackInv'
<1> DEFINE z == RunSchedule(World(t))
           q == After(z, train[t].moving)
<1>1. Typed
  BY DEF TrackInv, LockInv
<1>2. UNCHANGED <<routes, pos>> /\ RunTrain(t)
  BY DEF TrainRuns, others
<1>3. /\ train' = [train EXCEPT ![t] = q] /\ mag' = z.mag /\ green' = z.green
  BY <1>1, <1>2, RunTrainIs
<1>4. /\ MagRight(z) /\ z.name = t /\ Place(t, z.green, z)
      /\ \A k : Own(k) /\ k # pos[t] => (k \in z.green <=> k \in green)
      /\ train[t].moving /\ z.moving => z.perma # {pos[t]}
  BY TrackAfterRun
<1>5. SameRoute(z, q) /\ q.moving = z.moving /\ q.drove = train[t].moving
  BY DEF SameRoute, After
<1> HIDE DEF z, q
<1>6. train'[t] = q /\ \A u \in TheTrains : u # t => train'[u] = train[u]
  BY <1>1, <1>3 DEF Typed
<1>7. Phys'
  BY <1>2 DEF TrackInv, Phys
<1>8. InStep(mag)' /\ RoutesLie(mag)'
  BY <1>2, <1>3, <1>4 DEF MagRight, RoutesLie, InStep
<1>9. ASSUME NEW u \in TheTrains PROVE Points(mag', train'[u])
  <2>1. CASE u = t
    <3>1. q.state = z.state /\ \A y : Sel(q, y) <=> Sel(z, y)
      BY <1>5 DEF SameRoute, Sel
    <3>2. Points(z.mag, q)
      BY <1>4, <3>1 DEF MagRight, Points
    <3> QED BY <1>3, <1>6, <2>1, <3>2
  <2>2. CASE u # t
    BY <1>3, <1>4, <1>6, <2>2 DEF MagRight
  <2> QED BY <2>1, <2>2
<1>10. ASSUME NEW u \in TheTrains PROVE Place(u, green, train[u])'
  <2>1. CASE u = t
    <3>1. Place(t, z.green, q)
      BY <1>4, <1>5, PlaceSame DEF SameRoute
    <3> QED BY <1>2, <1>3, <1>6, <2>1, <3>1, PlaceFrame
  <2>2. CASE u # t
    <3>1. pos[u] # pos[t]
      BY <2>2 DEF TrackInv, Phys
    <3>2. Own(pos[u]) => (pos[u] \in green' <=> pos[u] \in green)
      BY <1>3, <1>4, <3>1
    <3>3. Place(u, green, train[u])
      BY DEF TrackInv
    <3>4. Place(u, green', train[u])
      BY <3>2, <3>3 DEF Place, Phase
    <3> QED BY <1>2, <1>6, <2>2, <3>4, PlaceFrame
  <2> QED BY <2>1, <2>2
<1>11. \A u \in TheTrains : train'[u].moving /\ train'[u].drove => train'[u].perma # {pos'[u]}
  BY <1>2, <1>4, <1>5, <1>6 DEF TrackInv, SameRoute
<1>12. \A x \in routes' : Own(x.src) => Detector(x.src)'
  BY <1>2 DEF TrackInv, Detector
<1>13. \A b \in green' : Own(b) => Detector(b)'
  <2>1. \A b \in green' : Own(b) => b = pos[t] \/ b \in green
    BY <1>3, <1>4
  <2> QED BY <1>2, <2>1 DEF TrackInv, Detector
<1> QED BY <1>7, <1>8, <1>9, <1>10, <1>11, <1>12, <1>13 DEF TrackInv

LEMMA TrackAnswers ==
  ASSUME WellLocked, WellLaid, TrackInv, LockInv', NEW k \in Blocks, SignalAnswers(k)
  PROVE  TrackInv'
<1>1. Typed /\ UNCHANGED <<train, mag, pos>> /\ green' = green \ {k} /\ k \in green
  BY DEF TrackInv, LockInv, SignalAnswers
<1>2. \/ routes' = routes
      \/ \E x \in Leading(k) : RouteFree(x) /\ routes' = routes \cup {x}
  BY DEF SignalAnswers
<1>3. InStep(mag)' /\ \A t \in TheTrains : Points(mag', train'[t])
  BY <1>1 DEF TrackInv
<1>4. \A t \in TheTrains : train'[t].moving /\ train'[t].drove => train'[t].perma # {pos'[t]}
  BY <1>1 DEF TrackInv
<1>5. \A b \in green' : Own(b) => Detector(b)'
  BY <1>1 DEF TrackInv, Detector
<1>6. ASSUME NEW t \in TheTrains, Own(pos[t]), pos[t] = k
      PROVE  train[t].perma = {k} /\ train[t].state = "StGreenRequested"
  BY <1>1, <1>6 DEF TrackInv, Place, Phase
<1>7. CASE routes' = routes
  <2>1. Phys' /\ RoutesLie(mag)'
    BY <1>1, <1>7 DEF TrackInv, Phys, RoutesLie
  <2>2. ASSUME NEW t \in TheTrains PROVE Place(t, green, train[t])'
    <3>1. Place(t, green, train[t])
      BY DEF TrackInv
    <3>2. Place(t, green', train'[t])
      BY <1>1, <3>1 DEF Place, Phase
    <3> QED BY <1>1, <1>7, <3>2, PlaceFrame
  <2>3. \A x \in routes' : Own(x.src) => Detector(x.src)'
    BY <1>1, <1>7 DEF TrackInv, Detector
  <2> QED BY <1>3, <1>4, <1>5, <2>1, <2>2, <2>3 DEF TrackInv
<1>8. ASSUME NEW x \in Leading(k), RouteFree(x), routes' = routes \cup {x} PROVE TrackInv'
  <2>1. /\ x \in TheTransitions /\ x.src = k
        /\ x.facing => (x.magnet \in mag.current) = x.want
    BY DEF Leading
  <2>2. /\ \A y \in routes : y.src # k /\ y.dst # x.dst
        /\ \A t \in TheTrains : pos[t] # x.dst
    BY <1>8, <2>1 DEF RouteFree, RouteOut, RouteIn, Detector
  <2>3. Phys'
    BY <1>1, <1>8, <2>1, <2>2 DEF TrackInv, Phys
  <2>4. ASSUME NEW t \in TheTrains, Own(pos[t]), pos[t] = k
        PROVE  Sel(train[t], x) /\ (x.magnet # NoMagnet => At(mag, x.magnet, x.want))
    <3>1. train[t].perma = {k} /\ train[t].state = "StGreenRequested"
      BY <1>6, <2>4
    <3>2. train[t].state \in SettingStates /\ train[t].state \in Past /\ Owns(train[t])
      BY <2>4, <3>1 DEF SettingStates, Past, Owns
    <3>3. PICK y \in TheTransitions : Sel(train[t], y)
      BY <3>2 DEF TrackInv, Place
    <3>4. y.src = k
      BY <3>1, <3>3 DEF Sel
    <3>5. y.magnet # NoMagnet => At(mag, y.magnet, y.want)
      BY <3>2, <3>3 DEF TrackInv, Points
    <3>6. x = y
      <4>1. SUFFICES ASSUME x # y PROVE FALSE
        OBVIOUS
      <4>2. x.facing /\ x.magnet # NoMagnet /\ x.magnet = y.magnet /\ x.want # y.want
        BY <2>1, <3>4, <4>1 DEF WellLaid
      <4>3. x.magnet \in mag.current <=> y.want
        BY <3>5, <4>2 DEF At
      <4>4. (x.magnet \in mag.current) = x.want
        BY <2>1, <4>2
      <4>5. x.want \in BOOLEAN /\ y.want \in BOOLEAN
        BY <2>1, TransitionIs
      <4> QED BY <4>2, <4>3, <4>4, <4>5
    <3> QED BY <3>3, <3>5, <3>6
  <2>5. Own(k) => \E t \in TheTrains : pos[t] = k
    BY <1>1 DEF TrackInv, Detector
  <2>6. RoutesLie(mag)'
    <3>1. x.magnet # NoMagnet => At(mag, x.magnet, x.want)
      <4>1. SUFFICES ASSUME x.magnet # NoMagnet PROVE At(mag, x.magnet, x.want)
        OBVIOUS
      <4>2. ~x.eager
        BY <2>1, <4>1 DEF WellLaid, WellLocked
      <4>3. Own(k)
        BY <2>1, <4>2 DEF Own
      <4> QED BY <2>4, <2>5, <4>1, <4>3
    <3> QED BY <1>1, <1>8, <3>1 DEF TrackInv, RoutesLie
  <2>7. ASSUME NEW t \in TheTrains PROVE Place(t, green, train[t])'
    <3>1. Place(t, green, train[t])
      BY DEF TrackInv
    <3>2. Here(t, train[t])'
      BY <1>1, <1>8, <3>1 DEF Place, Here
    <3>3. Phase(t, green, train[t])'
      <4>1. CASE pos[t] = k /\ Own(k)
        <5>1. train[t].state = "StGreenRequested" /\ Sel(train[t], x)
          BY <1>6, <2>4, <4>1
        <5>2. train'[t] = train[t] /\ pos'[t] = k /\ k \notin green'
          BY <1>1, <4>1
        <5>3. \A y \in routes' : y.src = k => y = x
          BY <1>8, <2>2
        <5>4. Sel(train'[t], x)
          BY <5>1, <5>2
        <5> QED BY <5>1, <5>2, <5>3, <5>4 DEF Phase, Answered
      <4>2. CASE pos[t] # k
        <5>1. \A y : y.src = pos[t] => (y \in routes' <=> y \in routes)
          BY <1>8, <2>1, <4>2
        <5>2. Phase(t, green, train[t])
          BY <3>1 DEF Place
        <5>3. pos[t] \in green' <=> pos[t] \in green
          BY <1>1, <4>2
        <5> QED BY <1>1, <5>1, <5>2, <5>3 DEF Phase, RouteOut
      <4>3. CASE ~Own(pos[t])
        BY <1>1, <4>3 DEF Phase
      <4> QED BY <4>1, <4>2, <4>3
    <3> QED BY <1>1, <3>1, <3>2, <3>3 DEF Place, Owns
  <2>8. \A y \in routes' : Own(y.src) => Detector(y.src)'
    BY <1>1, <1>8, <2>1, <2>5 DEF TrackInv, Detector
  <2> QED BY <1>3, <1>4, <1>5, <2>3, <2>6, <2>7, <2>8 DEF TrackInv
<1> QED BY <1>2, <1>7, <1>8

LEMMA TrackArrives ==
  ASSUME WellLaid, TrackInv, LockInv', NEW t \in TheTrains, TrainArrives(t)
  PROVE  TrackInv'
<1>1. Typed /\ UNCHANGED <<mag, green>> /\ train[t].moving /\ train[t].drove
  BY DEF TrackInv, LockInv, TrainArrives
<1>2. PICK x \in routes : /\ x.src = pos[t] /\ pos' = [pos EXCEPT ![t] = x.dst]
                          /\ routes' = routes \ {x}
  BY DEF TrainArrives
<1>3. /\ pos'[t] = x.dst /\ \A u \in TheTrains : u # t => pos'[u] = pos[u]
      /\ \A u \in TheTrains : pos[u] # x.dst
      /\ \A y \in routes' : y \in routes /\ y # x /\ y.src # x.src /\ y.dst # x.dst
  BY <1>1, <1>2 DEF Typed, TrackInv, Phys
<1>4. /\ ~train'[t].drove /\ SameRoute(train[t], train'[t])
      /\ \A u \in TheTrains : u # t => train'[u] = train[u]
  <2>1. /\ train' = [train EXCEPT ![t] = [train[t] EXCEPT !.drove = FALSE]]
        /\ train[t] \in TrainType /\ train \in [TheTrains -> TrainType]
    BY <1>1 DEF TrainArrives, Typed
  <2> QED BY <2>1 DEF SameRoute, TrainType
<1>5. Phys'
  BY <1>2, <1>3 DEF TrackInv, Phys
<1>6. InStep(mag)' /\ RoutesLie(mag)'
  BY <1>1, <1>2 DEF TrackInv, RoutesLie, InStep
<1>7. ASSUME NEW u \in TheTrains PROVE Points(mag', train'[u])
  <2>1. SameRoute(train[u], train'[u])
    BY <1>4 DEF SameRoute
  <2>2. train'[u].state = train[u].state /\ \A y : Sel(train'[u], y) <=> Sel(train[u], y)
    BY <2>1 DEF SameRoute, Sel
  <2> QED BY <1>1, <2>2 DEF TrackInv, Points
<1>8. train[t].perma = {x.dst}
  <2>1. train[t].perma # {pos[t]}
    BY <1>1 DEF TrackInv
  <2>2. PICK y \in routes : y.src = pos[t] /\ train[t].perma = {y.dst}
    BY <2>1 DEF TrackInv, Place, Here
  <2>3. y = x
    BY <1>2, <2>2 DEF TrackInv, Phys
  <2> QED BY <2>2, <2>3
<1>9. \A y \in routes : Own(y.src) => y.src # x.dst
  BY <1>3 DEF TrackInv, Detector
<1>10. Own(x.dst) => x.dst \notin green
  BY <1>3 DEF TrackInv, Detector
<1>11. Place(t, green, train[t])'
  <2>1. train'[t].perma = {pos'[t]} /\ train'[t].state = train[t].state
    BY <1>3, <1>4, <1>8 DEF SameRoute
  <2>2. Own(x.dst) => train[t].state \notin SettingStates
    <3>1. x.dst # pos[t]
      BY <1>3
    <3> QED BY <1>8, <3>1 DEF TrackInv, Place, Owns
  <2>3. Here(t, train[t])'
    BY <2>1 DEF Here
  <2>4. Own(x.dst) => \A y \in routes' : y.src # x.dst
    BY <1>3, <1>9
  <2>5. Phase(t, green, train[t])'
    <3>1. Own(x.dst) => train'[t].state \notin Answered
      BY <2>1, <2>2 DEF Answered, SettingStates
    <3> QED BY <1>1, <1>3, <1>10, <2>4, <3>1 DEF Phase, RouteOut, Answered
  <2>6. train'[t].state \in SettingStates => ~Owns(train'[t])
    BY <1>3, <2>1, <2>2 DEF Owns
  <2> QED BY <2>1, <2>3, <2>5, <2>6 DEF Place, Owns
<1>12. ASSUME NEW u \in TheTrains, u # t PROVE Place(u, green, train[u])'
  <2>1. Place(u, green, train[u])
    BY DEF TrackInv
  <2>2. train'[u] = train[u] /\ pos'[u] = pos[u] /\ green' = green /\ pos[u] # x.src
    BY <1>1, <1>2, <1>3, <1>4, <1>12 DEF TrackInv, Phys
  <2>3. \A y : y.src = pos[u] => (y \in routes' <=> y \in routes)
    BY <1>2, <2>2
  <2>4. Here(u, train[u])'
    BY <2>1, <2>2, <2>3 DEF Place, Here
  <2>5. Phase(u, green, train[u])'
    <3>1. Phase(u, green, train[u])
      BY <2>1 DEF Place
    <3> QED BY <2>2, <2>3, <3>1 DEF Phase, RouteOut
  <2> QED BY <2>1, <2>2, <2>4, <2>5 DEF Place, Owns
<1>13. \A u \in TheTrains : train'[u].moving /\ train'[u].drove => train'[u].perma # {pos'[u]}
  BY <1>3, <1>4 DEF TrackInv
<1>14. \A y \in routes' : Own(y.src) => Detector(y.src)'
  <2>1. SUFFICES ASSUME NEW y \in routes', Own(y.src) PROVE Detector(y.src)'
    OBVIOUS
  <2>2. PICK u \in TheTrains : pos[u] = y.src
    BY <1>3, <2>1 DEF TrackInv, Detector
  <2>3. u # t
    BY <1>2, <1>3, <2>2
  <2> QED BY <1>3, <2>2, <2>3 DEF Detector
<1>15. \A b \in green' : Own(b) => Detector(b)'
  <2>1. SUFFICES ASSUME NEW b \in green, Own(b) PROVE Detector(b)'
    BY <1>1
  <2>2. PICK u \in TheTrains : pos[u] = b
    BY <2>1 DEF TrackInv, Detector
  <2>3. u # t
    <3>1. SUFFICES ASSUME pos[t] = b PROVE FALSE
      BY <2>2
    <3>2. train[t].perma = {pos[t]}
      BY <2>1, <3>1 DEF TrackInv, Place
    <3> QED BY <1>1, <3>2 DEF TrackInv
  <2> QED BY <1>3, <2>2, <2>3 DEF Detector
<1> QED BY <1>5, <1>6, <1>7, <1>11, <1>12, <1>13, <1>14, <1>15 DEF TrackInv

LEMMA NextTrack ==
  ASSUME WellLocked, WellLaid, BootOver, TrackInv, [SchedulesNext]_schedVars
  PROVE  TrackInv'
<1>1. LockInv' /\ Typed /\ CoilGood(mag) /\ InStep(mag)
  BY NextLock, GoodOnes DEF TrackInv, LockInv, Typed
<1>2. ASSUME UNCHANGED <<train, mag, green, routes, pos>> PROVE TrackInv'
  BY <1>1, <1>2, TrackSame DEF SameRoute
<1>4. CASE Ticks
  <2>1. ASSUME NEW t \in TheTrains
        PROVE  /\ SameRoute(train[t], train'[t])
               /\ train'[t].moving = train[t].moving /\ train'[t].drove = train[t].drove
    <3>1. train'[t] = [train[t] EXCEPT !.timer = CountDown(@)] /\ train[t] \in TrainType
      BY <1>1, <1>4, <2>1 DEF Ticks, TickAll, Typed
    <3> QED BY <3>1 DEF SameRoute, TrainType
  <2>2. /\ mag'.command = mag.command /\ mag'.current = mag.current /\ mag'.remote = mag.remote
        /\ mag'.set0 = mag.set0 /\ mag'.set1 = mag.set1
    <3>1. mag' = [mag EXCEPT !.timer = CountDown(@)] /\ mag \in MagnetType
      BY <1>1, <1>4 DEF Ticks, TickAll, CoilGood
    <3> QED BY <3>1 DEF MagnetType
  <2>3. InStep(mag') /\ \A m, on : At(mag, m, on) => At(mag', m, on)
    BY <1>1, <2>2 DEF InStep, At
  <2>4. UNCHANGED <<routes, pos, green>>
    BY <1>4 DEF Ticks, others
  <2> QED BY <1>1, <2>1, <2>3, <2>4, TrackSame
<1>5. CASE Idles
  BY <1>2, <1>5 DEF Idles, others
<1>6. CASE FlipFlopRuns
  BY <1>2, <1>6 DEF FlipFlopRuns, others
<1>7. CASE MagnetsRun
  <2>1. UNCHANGED <<train, green, routes, pos>> /\ mag' = MagnetBody(mag)
    BY <1>7 DEF MagnetsRun, others, RunMagnets
  <2>2. InStep(mag')
    BY <1>1, <2>1, MagnetsStayInStep
  <2>3. \A m \in Reals : \A on \in BOOLEAN : At(mag, m, on) => At(mag', m, on)
    BY <1>1, <2>1, MagnetRests
  <2> QED BY <1>1, <2>1, <2>2, <2>3, TrackSame DEF SameRoute
<1>8. ASSUME NEW t \in TheTrains, TrainRuns(t) PROVE TrackInv'
  BY <1>1, <1>8, TrackTrainRuns
<1>9. ASSUME NEW b \in Blocks, SignalAnswers(b) PROVE TrackInv'
  BY <1>1, <1>9, TrackAnswers
<1>10. ASSUME NEW t \in TheTrains, TrainArrives(t) PROVE TrackInv'
  BY <1>1, <1>10, TrackArrives
<1>11. ASSUME NEW x \in Operable, Hold(x) PROVE TrackInv'
  BY <1>2, <1>11 DEF Hold
<1> QED BY <1>4, <1>5, <1>6, <1>7, <1>8, <1>9, <1>10, <1>11, StepCases

LEMMA TrackGood ==
  ASSUME TrackInv PROVE PointsLieRight /\ TrainWhereItThinks
<1>1. PointsLieRight
  <2>1. ASSUME NEW x \in routes, x.magnet # NoMagnet
        PROVE  (x.magnet \in mag.current) = x.want /\ (x.magnet \in mag.command) = x.want
    <3>1. At(mag, x.magnet, x.want) /\ x.want \in BOOLEAN
      BY <2>1, TransitionIs DEF TrackInv, RoutesLie, LockInv, Typed
    <3> QED BY <3>1 DEF At
  <2> QED BY <2>1 DEF PointsLieRight
<1>2. TrainWhereItThinks
  BY DEF TrackInv, Place, Here, TrainWhereItThinks
<1> QED BY <1>1, <1>2

-----------------------------------------------------------------------------
(* The end of the boot.  Once the magnets have come to rest a coil is on,  *)
(* or a command is not carried out yet, only for a train that works on its *)
(* points: S and T are the magnets that somebody wants straight, thrown.   *)
Switching == {"StTurnout", "StTurnoutFailed"}

Wants(r, on) ==
    {m \in Reals : /\ r.state \in Switching
                   /\ \E x \in TheTransitions : Sel(r, x) /\ x.magnet = m /\ x.want = on}

CalmAt(s, S, T, m) ==
    /\ m \in s.set1 => m \in T
    /\ m \in s.set0 => m \in S
    /\ (m \in s.set0 \/ m \in s.set1 \/ ~(m \in s.command <=> m \in s.current)) =>
          (m \in s.command => m \in T) /\ (m \notin s.command => m \in S)

Calm(s, S, T) == \A m \in Reals : CalmAt(s, S, T, m)

LEMMA CalmMore ==
  ASSUME NEW s, NEW S, NEW T, Calm(s, S, T), NEW U, NEW V, S \subseteq U, T \subseteq V
  PROVE  Calm(s, U, V)
BY DEF Calm, CalmAt

LEMMA CalmCouple ==
  ASSUME NEW S, NEW T, NEW s, CoilGood(s), InStep(s), Calm(s, S, T), NEW c \in Couples
  PROVE  CoilGood(Couple(s, c)) /\ InStep(Couple(s, c)) /\ Calm(Couple(s, c), S, T)
<1> DEFINE u == Couple(s, c)
<1>1. \A m \in Reals : m # c
  BY MagnetsAssumption
<1>2. /\ CoilGood(u) /\ InStep(u) /\ u.set0 = s.set0 /\ u.set1 = s.set1
      /\ \A d : d # c => (d \in u.current <=> d \in s.current)
      /\ \A d : d # c => (d \in u.command <=> d \in s.command)
  BY CoupleEffect
<1> HIDE DEF u
<1>3. Calm(u, S, T)
  BY <1>1, <1>2 DEF Calm, CalmAt
<1> QED BY <1>2, <1>3 DEF u

(* A magnet is pulled where its command wants it; when it is released it   *)
(* is there, and a command that was given meanwhile is still wanted.       *)
LEMMA CalmEntry ==
  ASSUME NEW S, NEW T, NEW s, CoilGood(s), Calm(s, S, T), NEW n \in Reals
  PROVE  Calm(MagnetEntry(s, n), S, T)
<1> DEFINE t == Pull(s, n)
           u == ReleaseMagnet(t, n)
           v == MagnetsToZero(u, n)
<1>0. MagnetEntry(s, n) = v
  BY DEF MagnetEntry
<1>1. CoilGood(t) /\ CoilGood(u) /\ CoilGood(v)
  BY PullKeeps, ReleaseKeeps, ZeroKeeps
<1>2. Calm(t, S, T)
  <2>1. CASE s.state = StBase /\ TimerDone(s) /\ ((n \in s.command) # (n \in s.current))
    <3> DEFINE C == IF n \in s.command THEN s.set1 \cup {n} ELSE s.set1
               D == IF n \in s.command THEN s.set0 ELSE s.set0 \cup {n}
    <3>1. t = [s EXCEPT !.state = n, !.timer = 1, !.set1 = C, !.set0 = D]
      BY <2>1 DEF Pull
    <3>2. \A m : m # n => (m \in C <=> m \in s.set1) /\ (m \in D <=> m \in s.set0)
      OBVIOUS
    <3>3. (n \in C => n \in s.set1 \/ n \in s.command) /\ (n \in D => n \in s.set0 \/ n \notin s.command)
      OBVIOUS
    <3> HIDE DEF C, D, t
    <3>4. t.set1 = C /\ t.set0 = D /\ t.command = s.command /\ t.current = s.current
      BY <3>1 DEF CoilGood, MagnetType
    <3>5. ASSUME NEW m \in Reals PROVE CalmAt(t, S, T, m)
      <4>1. CalmAt(s, S, T, m)
        BY DEF Calm
      <4>2. CASE m # n
        BY <3>2, <3>4, <4>1, <4>2 DEF CalmAt
      <4>3. CASE m = n
        <5>1. ~(m \in s.command <=> m \in s.current)
          BY <2>1, <4>3
        <5> QED BY <3>3, <3>4, <4>1, <4>3, <5>1 DEF CalmAt
      <4> QED BY <4>2, <4>3
    <3> QED BY <3>5 DEF Calm
  <2>2. CASE ~(s.state = StBase /\ TimerDone(s) /\ ((n \in s.command) # (n \in s.current)))
    BY <2>2 DEF Pull
  <2> QED BY <2>1, <2>2
<1> HIDE DEF t
<1>3. Calm(u, S, T)
  <2>1. CASE t.state = n /\ TimerDone(t) /\ n \in t.set0 \cup t.set1
    <3> DEFINE B == Put(t.current, n, n \in t.set1)
               C == t.set1 \ {n}
               D == t.set0 \ {n}
    <3>1. u = [t EXCEPT !.state = StBase, !.current = B, !.set0 = D, !.set1 = C]
      BY <2>1 DEF ReleaseMagnet
    <3>2. \A m : m # n => /\ m \in C <=> m \in t.set1
                          /\ m \in D <=> m \in t.set0
                          /\ m \in B <=> m \in t.current
      BY DEF Put
    <3>3. n \notin C /\ n \notin D
      OBVIOUS
    <3> HIDE DEF B, C, D, u
    <3>4. u.set1 = C /\ u.set0 = D /\ u.command = t.command /\ u.current = B
      BY <1>1, <3>1 DEF CoilGood, MagnetType
    <3>5. ASSUME NEW m \in Reals PROVE CalmAt(u, S, T, m)
      <4>1. CalmAt(t, S, T, m)
        BY <1>2 DEF Calm
      <4>2. CASE m # n
        BY <3>2, <3>4, <4>1, <4>2 DEF CalmAt
      <4>3. CASE m = n
        BY <2>1, <3>3, <3>4, <4>1, <4>3 DEF CalmAt
      <4> QED BY <4>2, <4>3
    <3> QED BY <3>5 DEF Calm
  <2>2. CASE ~(t.state = n /\ TimerDone(t) /\ n \in t.set0 \cup t.set1)
    BY <1>2, <2>2 DEF ReleaseMagnet
  <2> QED BY <2>1, <2>2
<1> HIDE DEF u
<1>4. Calm(v, S, T)
  <2>1. /\ v.command = u.command /\ v.current = u.current
        /\ v.set0 \subseteq u.set0 /\ v.set1 \subseteq u.set1
    BY <1>1 DEF MagnetsToZero, CoilGood, MagnetType
  <2> HIDE DEF v
  <2> QED BY <1>3, <2>1 DEF Calm, CalmAt
<1> QED BY <1>0, <1>4

CalmIn(S, T, s) == CoilGood(s) /\ InStep(s) /\ Calm(s, S, T)
CalmSoFar(p) == CalmIn(p[1][1], p[1][2], p[3])
CoupleCalm == INSTANCE FoldProofs WITH Op <- Couple, Good <- CalmSoFar
EntryCalm == INSTANCE FoldProofs WITH Op <- MagnetEntry, Good <- CalmSoFar

LEMMA MagnetsCalm ==
  ASSUME NEW s, CoilGood(s), InStep(s), NEW S, NEW T, Calm(s, S, T)
  PROVE  Calm(MagnetBody(s), S, T)
<1> DEFINE a == FoldLeft(Couple, s, Coupled)
           b == FoldLeft(MagnetEntry, a, Real)
           p == <<S, T>>
<1>1. Coupled \in Seq(Couples) /\ Real \in Seq(Reals)
  BY MagnetsAssumption
<1>2. \A k, t : CalmSoFar(<<p, k, t>>) <=> CalmIn(S, T, t)
  BY DEF CalmSoFar
<1> HIDE DEF p
<1>3. CalmSoFar(<<p, Len(Coupled), a>>)
  <2>1. CalmSoFar(<<p, 0, s>>)
    BY <1>2 DEF CalmIn
  <2>2. ASSUME NEW k \in 0 .. Len(Coupled), NEW t, k < Len(Coupled), CalmIn(S, T, t)
        PROVE  CalmIn(S, T, Couple(t, Coupled[k + 1]))
    <3>1. Coupled[k + 1] \in Couples
      BY <1>1, <2>2
    <3> QED BY <2>2, <3>1, CalmCouple DEF CalmIn
  <2>3. \A k \in 0 .. Len(Coupled) : \A t :
           k < Len(Coupled) /\ CalmSoFar(<<p, k, t>>)
              => CalmSoFar(<<p, k + 1, Couple(t, Coupled[k + 1])>>)
    BY <1>2, <2>2
  <2> QED BY <1>1, <2>1, <2>3, CoupleCalm!FoldRelates DEF FoldLeft, MapThenFoldSet, Max,
             CoupleCalm!FoldLeft, CoupleCalm!MapThenFoldSet, CoupleCalm!Max
<1> HIDE DEF a
<1>4. CalmSoFar(<<p, Len(Real), b>>)
  <2>1. CalmSoFar(<<p, 0, a>>)
    BY <1>2, <1>3
  <2>2. ASSUME NEW k \in 0 .. Len(Real), NEW t, k < Len(Real), CalmIn(S, T, t)
        PROVE  CalmIn(S, T, MagnetEntry(t, Real[k + 1]))
    <3>1. Real[k + 1] \in Reals
      BY <1>1, <2>2
    <3> QED BY <2>2, <3>1, CalmEntry, EntryEffect DEF CalmIn
  <2>3. \A k \in 0 .. Len(Real) : \A t :
           k < Len(Real) /\ CalmSoFar(<<p, k, t>>)
              => CalmSoFar(<<p, k + 1, MagnetEntry(t, Real[k + 1])>>)
    BY <1>2, <2>2
  <2> QED BY <1>1, <2>1, <2>3, EntryCalm!FoldRelates DEF FoldLeft, MapThenFoldSet, Max,
             EntryCalm!FoldLeft, EntryCalm!MapThenFoldSet, EntryCalm!Max
<1> HIDE DEF b
<1>5. MagnetBody(s) = b \/ MagnetBody(s) = [b EXCEPT !.timer = 1]
  BY DEF MagnetBody, MagnetFinal, a, b
<1>6. b \in MagnetType /\ Calm(b, S, T)
  BY <1>2, <1>4 DEF CalmIn, CoilGood
<1>7. Calm([b EXCEPT !.timer = 1], S, T)
  <2> DEFINE c == [b EXCEPT !.timer = 1]
  <2>1. /\ c.set0 = b.set0 /\ c.set1 = b.set1 /\ c.command = b.command
        /\ c.current = b.current
    BY <1>6 DEF MagnetType
  <2> HIDE DEF c
  <2>2. Calm(c, S, T)
    BY <1>6, <2>1 DEF Calm, CalmAt
  <2> QED BY <2>2 DEF c
<1> QED BY <1>5, <1>6, <1>7

(* Through a run of a train.  Jam: the lock was left by a train that gave  *)
(* up, and nobody will switch points any more.                             *)
Jam(w) == w.lock /\ ~Holds(w) /\ ~OtherHolds(w.name)

AnyWants(w, on) ==
    {m \in Reals : m \in Wants(w, on) \/ \E u \in TheTrains : u # w.name /\ m \in Wants(train[u], on)}

RestRun(w) == Jam(w) \/ Calm(w.mag, AnyWants(w, FALSE), AnyWants(w, TRUE))

(* Who wants points somewhere has the lock.                                *)
LEMMA WantsHolds ==
  ASSUME WellLaid, NEW r, NEW on, NEW m, m \in Wants(r, on)
  PROVE  Holds(r)
<1>1. PICK x \in TheTransitions : Sel(r, x) /\ x.magnet = m
  BY DEF Wants
<1>2. m # NoMagnet /\ r.state \in Switching
  BY SchedulesAssumption DEF Wants, AllMagnets
<1> QED BY <1>1, <1>2 DEF WellLaid, Holds, Locks, Switching, SettingStates

LEMMA RestSame ==
  ASSUME NEW w, RestRun(w), NEW v, v.name = w.name, v.mag = w.mag, Jam(w) => Jam(v),
         \A on \in BOOLEAN : Wants(w, on) \subseteq Wants(v, on)
  PROVE  RestRun(v)
<1>1. CASE Jam(w)
  BY <1>1 DEF RestRun
<1>2. CASE ~Jam(w)
  <2>1. \A on \in BOOLEAN : AnyWants(w, on) \subseteq AnyWants(v, on)
    BY DEF AnyWants
  <2>2. Calm(w.mag, AnyWants(w, FALSE), AnyWants(w, TRUE))
    BY <1>2 DEF RestRun
  <2> HIDE DEF AnyWants
  <2>3. Calm(v.mag, AnyWants(v, FALSE), AnyWants(v, TRUE))
    BY <2>1, <2>2, CalmMore
  <2> QED BY <2>3 DEF RestRun
<1> QED BY <1>1, <1>2

LEMMA RestQuiet ==
  ASSUME NEW w, RestRun(w), NEW v, v.name = w.name, v.mag = w.mag, Jam(w) => Jam(v),
         w.state \notin Switching
  PROVE  RestRun(v)
<1>1. \A on \in BOOLEAN : Wants(w, on) = {}
  BY DEF Wants
<1> QED BY <1>1, RestSame

(* The rules that leave place, directions and lock alone.                  *)
LEMMA RestKept ==
  ASSUME NEW w, RestRun(w), NEW v,
         Keeps(w, v, Fields \ {"name", "mag", "lock", "perma", "dir"}),
         v.state = w.state \/ (v.state \notin SettingStates /\ w.state \notin SettingStates)
  PROVE  RestRun(v)
<1>1. /\ v.name = w.name /\ v.mag = w.mag /\ v.lock = w.lock /\ v.perma = w.perma
      /\ v.dir = w.dir
  BY DEF Keeps, Fields
<1>2. \A x : Sel(v, x) <=> Sel(w, x)
  BY <1>1 DEF Sel
<1>3. Jam(w) => Jam(v)
  BY <1>1, <1>2 DEF Jam, Holds, Locks
<1>4. CASE v.state = w.state
  <2>1. \A on \in BOOLEAN : Wants(w, on) \subseteq Wants(v, on)
    BY <1>2, <1>4 DEF Wants
  <2> QED BY <1>1, <1>3, <2>1, RestSame
<1>5. CASE w.state \notin SettingStates
  BY <1>1, <1>3, <1>5, RestQuiet DEF Switching, SettingStates
<1> QED BY <1>4, <1>5

LEMMA RestRest ==
  ASSUME NEW w, RestRun(w), NEW x, NEW v,
         Imported(w, x, v) \/ Keeps(w, v, {"ff"}) \/ HasReversed(w, x, v)
  PROVE  RestRun(v)
<1>1. Keeps(w, v, Fields \ {"name", "mag", "lock", "perma", "dir"})
  BY DEF Imported, HasReversed, Keeps, Fields
<1>2. v.state = w.state \/ (v.state \notin SettingStates /\ w.state \notin SettingStates)
  <2>1. CASE Imported(w, x, v) \/ Keeps(w, v, {"ff"})
    BY <2>1 DEF Imported, Keeps, Fields
  <2>2. CASE HasReversed(w, x, v)
    BY <2>2 DEF HasReversed, Backing, SettingStates
  <2> QED BY <2>1, <2>2
<1> QED BY <1>1, <1>2, RestKept

LEMMA RestForget ==
  ASSUME NEW w, RestRun(w), NEW x, NEW v, Forgot(w, x, v)
  PROVE  RestRun(v)
<1>1. CASE w.state = "StWaiting" /\ x.src \in w.rloc
  <2>1. v.name = w.name /\ v.mag = w.mag /\ v.lock = w.lock /\ v.state = w.state
    BY <1>1 DEF Forgot, Keeps, Fields
  <2>2. Jam(w) => Jam(v)
    BY <1>1, <2>1 DEF Jam, Holds, SettingStates
  <2> QED BY <1>1, <2>1, <2>2, RestQuiet DEF Switching
<1>2. CASE ~(w.state = "StWaiting" /\ x.src \in w.rloc)
  BY <1>2 DEF Forgot
<1> QED BY <1>1, <1>2

LEMMA RestMove ==
  ASSUME WellLocked, WellLaid, NEW B, NEW w, LockRun(B, w), RestRun(w), NEW x \in TheTransitions,
         NEW v, LockRun(B, v), HasMoved(w, x, v)
  PROVE  RestRun(v)
<1>1. CASE Moves(w, x)
  <2>1. v.name = w.name /\ v.mag = w.mag /\ v.state = w.state /\ v.lock = w.lock
    BY <1>1 DEF HasMoved, Keeps, Fields
  <2>2. CASE w.state \in SettingStates
    <3>1. ~Locks(v)
      BY <1>1, <2>2, MoveFacts
    <3>2. ~Locks(w)
      <4>1. x.eager /\ x.src \in w.perma
        BY <1>1 DEF Moves
      <4>2. w.perma = {x.src} /\ ~Lazy(x.src)
        BY <4>1, OneBlock, LazyFacts DEF LockRun, WorldType
      <4> QED BY <4>2, EagerNeedsNone
    <3>3. \A on \in BOOLEAN : Wants(w, on) = {}
      BY <3>2, WantsHolds DEF Holds
    <3>4. Jam(w) => Jam(v)
      BY <2>1, <3>1 DEF Jam, Holds
    <3> QED BY <2>1, <3>3, <3>4, RestSame
  <2>3. CASE w.state \notin SettingStates
    <3>1. Jam(w) => Jam(v)
      BY <2>1, <2>3 DEF Jam, Holds
    <3> QED BY <2>1, <2>3, <3>1, RestQuiet DEF Switching, SettingStates
  <2> QED BY <2>2, <2>3
<1>2. CASE ~Moves(w, x)
  BY <1>2 DEF HasMoved
<1> QED BY <1>1, <1>2

LEMMA RestSetOut ==
  ASSUME WellLocked, NEW B, NEW w, LockRun(B, w), RestRun(w), NEW x \in TheTransitions, x \in B,
         NEW v, LockRun(B, v), HasSetOut(w, x, v)
  PROVE  RestRun(v)
<1>1. CASE SetsOut(w, x)
  <2>1. /\ v.name = w.name /\ v.mag = w.mag /\ v.lock = (w.lock \/ x.lock)
        /\ v.perma = w.perma /\ v.rloc = w.rloc
    BY <1>1 DEF HasSetOut, Keeps, Fields
  <2>2. w.state = "StWaiting" /\ x.src \in w.rloc /\ (x.lock => ~w.lock)
    BY <1>1 DEF SetsOut
  <2>3. ~x.eager => x.src \in v.perma
    BY <2>1, <2>2 DEF LockRun, Synced
  <2>4. ~x.lock => ~Locks(v)
    BY <2>1, <2>2, <2>3, AtTells DEF LockRun
  <2>5. Jam(w) => Jam(v)
    BY <2>1, <2>2, <2>4 DEF Jam, Holds
  <2> QED BY <2>1, <2>2, <2>5, RestQuiet DEF Switching
<1>2. CASE ~SetsOut(w, x)
  BY <1>2 DEF HasSetOut
<1> QED BY <1>1, <1>2

LEMMA RestGivesBack ==
  ASSUME WellLocked, NEW w, RestRun(w), NEW x \in TheTransitions,
         NEW v, HasLeft(w, x, v) \/ TriesAgain(w, x, v)
  PROVE  RestRun(v)
<1>1. \/ v = w
      \/ /\ w.state \in {"StRequestTransition", "StGreenFailed"} /\ IsAt(w, x)
         /\ v.name = w.name /\ v.mag = w.mag /\ v.lock = (w.lock /\ ~x.lock)
         /\ v.state \in {"StTransitionDone", "StWaiting"}
  BY DEF HasLeft, TriesAgain, Keeps, Fields
<1>2. CASE v # w
  <2>1. w.state \in SettingStates /\ w.state \notin Switching /\ v.state \notin SettingStates
    BY <1>1, <1>2 DEF SettingStates, Switching
  <2>2. x.lock => Holds(w)
    <3>1. x.lock => ~x.eager
      BY DEF WellLocked
    <3> QED BY <1>1, <1>2, <2>1, <3>1 DEF IsAt, Holds, Locks, Sel
  <2>3. Jam(w) => Jam(v)
    BY <1>1, <1>2, <2>1, <2>2 DEF Jam, Holds
  <2> QED BY <1>1, <1>2, <2>1, <2>3, RestQuiet
<1> QED BY <1>2

(* A train commands the magnets that it wants.                             *)
LEMMA RestSwitch ==
  ASSUME WellLocked, WellLaid, NEW B, NEW w, LockRun(B, w), RestRun(w),
         NEW x \in TheTransitions, x \in B, NEW v, HasSwitched(w, x, v)
  PROVE  RestRun(v)
<1>1. CASE Switches(w, x)
  <2> DEFINE m == x.magnet
  <2>1. /\ v.name = w.name /\ v.perma = w.perma /\ v.dir = w.dir /\ v.state \in Switching
        /\ v.mag = IF Locked(m) THEN w.mag ELSE Command(w.mag, m, x.want)
    BY <1>1 DEF HasSwitched, Keeps, Fields, Switching
  <2>2. /\ m # NoMagnet /\ w.state = "StTurnout" /\ x.src \in w.rloc
        /\ (HasDirection(x) => x \in w.dir)
    BY <1>1 DEF Switches
  <2>3. x.lock /\ m \in Reals /\ x.want \in BOOLEAN /\ ~x.eager
    BY <2>2, TransitionIs DEF WellLaid, WellLocked
  <2>4. Sel(w, x)
    BY <2>2, <2>3 DEF LockRun, Synced, Sel
  <2>5. ~Jam(w)
    BY <2>2, <2>3, <2>4 DEF Jam, Holds, Locks, SettingStates
  <2>6. \A on \in BOOLEAN : Wants(v, on) = Wants(w, on)
    BY <2>1, <2>2 DEF Wants, Sel, Switching
  <2>7. \A on \in BOOLEAN : AnyWants(v, on) = AnyWants(w, on)
    BY <2>1, <2>6 DEF AnyWants
  <2>8. m \in AnyWants(w, x.want)
    BY <2>2, <2>3, <2>4 DEF AnyWants, Wants, Switching
  <2> DEFINE S == AnyWants(w, FALSE)
             T == AnyWants(w, TRUE)
  <2>9. (x.want => m \in T) /\ (~x.want => m \in S)
    BY <2>3, <2>8
  <2>10. Calm(w.mag, S, T)
    BY <2>5 DEF RestRun
  <2> HIDE DEF S, T
  <2>11. Calm(v.mag, S, T)
    <3>1. CASE Locked(m)
      BY <2>1, <2>10, <3>1
    <3>2. CASE ~Locked(m)
      <4>1. CoilGood(w.mag)
        BY GoodOnes DEF LockRun, WorldType
      <4>2. /\ v.mag.current = w.mag.current /\ v.mag.set0 = w.mag.set0
            /\ v.mag.set1 = w.mag.set1 /\ (m \in v.mag.command <=> x.want)
            /\ \A n : n # m => (n \in v.mag.command <=> n \in w.mag.command)
        BY <2>1, <2>3, <3>2, <4>1, CommandEffect
      <4>3. ASSUME NEW n \in Reals PROVE CalmAt(v.mag, S, T, n)
        <5>1. CalmAt(w.mag, S, T, n)
          BY <2>10 DEF Calm
        <5>2. CASE n = m
          BY <2>9, <4>2, <5>1, <5>2 DEF CalmAt
        <5>3. CASE n # m
          BY <4>2, <5>1, <5>3 DEF CalmAt
        <5> QED BY <5>2, <5>3
      <4> QED BY <4>3 DEF Calm
    <3> QED BY <3>1, <3>2
  <2> QED BY <2>7, <2>11 DEF RestRun, S, T
<1>2. CASE ~Switches(w, x)
  BY <1>2 DEF HasSwitched
<1> QED BY <1>1, <1>2

LEMMA RestThrough ==
  ASSUME WellLocked, WellLaid, NEW A, A \subseteq TheTransitions, NEW w, LockRun(A, w), RestRun(w),
         NEW x \in TheTransitions,
         NEW a, NEW b, NEW c, NEW d, NEW e, NEW f, NEW g, NEW h, NEW z,
         Through(w, x, a, b, c, d, e, f, g, h, z)
  PROVE  RestRun(z)
<1> DEFINE B == A \cup {x}
<1>1. /\ LockRun(B, a) /\ LockRun(B, b) /\ LockRun(B, c) /\ LockRun(B, d)
      /\ LockRun(B, e) /\ LockRun(B, f) /\ LockRun(B, g) /\ LockRun(B, h)
  BY LockThrough
<1>2. x \in B
  OBVIOUS
<1> HIDE DEF B
<1>3. RestRun(a)
  BY RestRest DEF Through
<1>4. RestRun(b)
  BY <1>1, <1>3, RestMove DEF Through
<1>5. RestRun(c)
  BY <1>4, RestRest DEF Through
<1>6. RestRun(d)
  BY <1>1, <1>2, <1>5, RestSetOut DEF Through
<1>7. RestRun(e)
  BY <1>6, RestForget DEF Through
<1>8. RestRun(f)
  BY <1>7, RestGivesBack DEF Through
<1>9. RestRun(g)
  BY <1>8, RestGivesBack DEF Through
<1>10. RestRun(h)
  BY <1>1, <1>2, <1>9, RestSwitch DEF Through
<1> QED BY <1>10, RestRest DEF Through

RestSoFar(p) == LockRun(FirstOnes(p[2]), p[3]) /\ RestRun(p[3]) /\ p[3].name = p[1]
RestFold == INSTANCE FoldProofs WITH Op <- AddBlockTransition, Good <- RestSoFar

LEMMA RestFolded ==
  ASSUME WellLocked, WellLaid, NEW w, LockRun({}, w), RestRun(w)
  PROVE  RestRun(Folded(w))
<1>1. Transitions \in Seq(TheTransitions)
  BY SchedulesAssumption
<1>2. RestSoFar(<<w.name, 0, w>>)
  BY FirstOnesAre DEF RestSoFar
<1>3. \A k \in 0..Len(Transitions) : \A s :
         k < Len(Transitions) /\ RestSoFar(<<w.name, k, s>>)
            => RestSoFar(<<w.name, k + 1, AddBlockTransition(s, Transitions[k + 1])>>)
  <2>1. ASSUME NEW k \in 0..Len(Transitions), NEW s, k < Len(Transitions),
               LockRun(FirstOnes(k), s), RestRun(s)
        PROVE  /\ LockRun(FirstOnes(k + 1), AddBlockTransition(s, Transitions[k + 1]))
               /\ RestRun(AddBlockTransition(s, Transitions[k + 1]))
               /\ AddBlockTransition(s, Transitions[k + 1]).name = s.name
    <3> DEFINE x == Transitions[k + 1]
               z == AddBlockTransition(s, x)
    <3>1. /\ FirstOnes(k) \subseteq TheTransitions /\ x \in TheTransitions
          /\ FirstOnes(k + 1) = FirstOnes(k) \cup {x}
      BY <2>1, FirstOnesAre
    <3>2. s \in WorldType
      BY <2>1 DEF LockRun
    <3> HIDE DEF x
    <3>3. LockRun(FirstOnes(k) \cup {x}, z) /\ z.name = s.name
      BY <2>1, <3>1, <3>2, LockTransition, SameTrain
    <3>4. PICK a, b, c, d, e, f, g, h : Through(s, x, a, b, c, d, e, f, g, h, z)
      BY <3>1, <3>2, TransitionEffect
    <3> HIDE DEF z
    <3>5. RestRun(z)
      BY <2>1, <3>1, <3>4, RestThrough
    <3> QED BY <3>1, <3>3, <3>5 DEF x, z
  <2> QED BY <2>1 DEF RestSoFar
<1>4. RestSoFar(<<w.name, Len(Transitions), Folded(w)>>)
  BY <1>1, <1>2, <1>3, RestFold!FoldRelates DEF Folded, FoldLeft, MapThenFoldSet, Max,
     RestFold!FoldLeft, RestFold!MapThenFoldSet, RestFold!Max
<1> QED BY <1>4 DEF RestSoFar

(* A train goes on from its points when they rest where it wants them, or  *)
(* gives up and leaves the lock taken.                                     *)
LEMMA RestSteps ==
  ASSUME WellLocked, WellLaid, NEW w, CoilGood(w.mag), LockRight(w), RestRun(w),
         NEW v, HasStepped(w, v),
         w.state = "StTurnout" =>
            \A y \in TheTransitions : Sel(w, y) /\ y.magnet # NoMagnet =>
               /\ y.magnet \in w.mag.current <=> y.want
               /\ y.magnet \in w.mag.command <=> y.want
  PROVE  RestRun(v)
<1>1. SUFFICES ASSUME Keeps(w, v, {"state"}), <<w.state, v.state>> \in StatePairs
               PROVE  RestRun(v)
  BY DEF HasStepped
<1>2. /\ v.name = w.name /\ v.mag = w.mag /\ v.lock = w.lock /\ v.perma = w.perma
      /\ v.dir = w.dir
  BY <1>1 DEF Keeps, Fields
<1>3. \A x : Sel(v, x) <=> Sel(w, x)
  BY <1>2 DEF Sel
<1>4. v.state \in SettingStates => w.state \in SettingStates
  BY <1>1 DEF StatePairs, SettingStates
<1>5. Jam(w) => Jam(v)
  BY <1>2, <1>3, <1>4 DEF Jam, Holds, Locks
<1>6. CASE w.state \notin Switching
  BY <1>2, <1>5, <1>6, RestQuiet
<1>7. CASE ~Holds(w)
  <2>1. \A on \in BOOLEAN : Wants(w, on) = {}
    BY <1>7, WantsHolds
  <2> QED BY <1>2, <1>5, <2>1, RestSame
<1>8. CASE w.state = "StTurnoutFailed" /\ v.state = "StTurnout"
  <2>1. \A on \in BOOLEAN : Wants(w, on) \subseteq Wants(v, on)
    BY <1>3, <1>8 DEF Wants, Switching
  <2> QED BY <1>2, <1>5, <2>1, RestSame
<1>9. CASE w.state = "StTurnoutFailed" /\ v.state # "StTurnout" /\ Holds(w)
  <2>1. v.state \notin SettingStates
    BY <1>1, <1>9 DEF StatePairs, SettingStates
  <2>2. Jam(v)
    BY <1>2, <1>9, <2>1 DEF Jam, Holds, LockRight
  <2> QED BY <2>2 DEF RestRun
<1>10. CASE w.state = "StTurnout" /\ Holds(w)
  <2> DEFINE S == AnyWants(w, FALSE)
             T == AnyWants(w, TRUE)
  <2>1. ~Jam(w) /\ ~OtherHolds(w.name)
    BY <1>10 DEF Jam, LockRight
  <2>2. Calm(w.mag, S, T)
    BY <2>1 DEF RestRun
  <2>3. ASSUME NEW on \in BOOLEAN, NEW m \in AnyWants(w, on)
        PROVE  (m \in w.mag.current <=> on) /\ (m \in w.mag.command <=> on)
    <3>1. m \in Wants(w, on)
      BY <2>1, <2>3, WantsHolds DEF AnyWants, OtherHolds
    <3>2. PICK y \in TheTransitions : Sel(w, y) /\ y.magnet = m /\ y.want = on
      BY <3>1 DEF Wants
    <3>3. m # NoMagnet
      BY <3>1, SchedulesAssumption DEF Wants, AllMagnets
    <3> QED BY <1>10, <3>2, <3>3
  <2>4. /\ \A m \in S : m \notin w.mag.current /\ m \notin w.mag.command
        /\ \A m \in T : m \in w.mag.current /\ m \in w.mag.command
    BY <2>3
  <2>5. Calm(w.mag, {}, {})
    <3> HIDE DEF S, T
    <3>1. SUFFICES ASSUME NEW m \in Reals PROVE CalmAt(w.mag, {}, {}, m)
      BY DEF Calm
    <3>2. CalmAt(w.mag, S, T, m)
      BY <2>2 DEF Calm
    <3>3. m \notin w.mag.set1
      BY <2>4, <3>1, <3>2 DEF CalmAt, CoilGood
    <3>4. m \notin w.mag.set0
      BY <2>4, <3>1, <3>2 DEF CalmAt, CoilGood
    <3>5. m \in w.mag.command <=> m \in w.mag.current
      BY <2>4, <3>2 DEF CalmAt
    <3> QED BY <3>3, <3>4, <3>5 DEF CalmAt
  <2>6. \A U, V : Calm(w.mag, U, V)
    BY <2>5 DEF Calm, CalmAt
  <2>7. \A U, V : Calm(v.mag, U, V)
    BY <1>2, <2>6
  <2> QED BY <2>7 DEF RestRun
<1> QED BY <1>6, <1>7, <1>8, <1>9, <1>10 DEF Switching

LEMMA RestClosing ==
  ASSUME WellLocked, WellLaid, NEW w, LockRun(TheTransitions, w),
         MagRun(TheTransitions, w), RestRun(w),
         NEW a, NEW b, NEW c, NEW z, Closing(w, a, b, c, z)
  PROVE  RestRun(z)
<1>1. /\ a.name = w.name /\ a.mag = w.mag /\ a.perma = w.perma /\ a.dir = w.dir
      /\ a.lock = w.lock
  BY DEF Closing, HasAsked, Keeps, Fields
<1>2. /\ b.name = a.name /\ b.mag = a.mag /\ b.perma = a.perma /\ b.dir = a.dir
      /\ b.lock = a.lock /\ b.state = a.state
  BY DEF Closing, Keeps, Fields
<1>3. /\ a.state = w.state \/ w.state \notin Switching
      /\ a.state \in SettingStates <=> w.state \in SettingStates
      /\ a.state = "StTurnout" => w.state = "StTurnout"
  BY DEF Closing, HasAsked, Answers, Switching, SettingStates
<1>4. \A x : (Sel(a, x) <=> Sel(w, x)) /\ (Sel(b, x) <=> Sel(w, x))
  BY <1>1, <1>2 DEF Sel
<1>5. (Holds(a) <=> Holds(w)) /\ (Holds(b) <=> Holds(w))
  BY <1>2, <1>3, <1>4 DEF Holds, Locks
<1>6. RestRun(b)
  <2>1. Jam(w) => Jam(b)
    BY <1>1, <1>2, <1>5 DEF Jam
  <2>2. CASE w.state \notin Switching
    BY <1>1, <1>2, <2>1, <2>2, RestQuiet
  <2>3. CASE a.state = w.state
    <3>1. \A on \in BOOLEAN : Wants(w, on) \subseteq Wants(b, on)
      BY <1>2, <1>4, <2>3 DEF Wants
    <3> QED BY <1>1, <1>2, <2>1, <3>1, RestSame
  <2> QED BY <1>3, <2>2, <2>3
<1>7. LockRight(b)
  BY <1>1, <1>2, <1>5 DEF LockRun, LockRight
<1>8. b.state = "StTurnout" =>
         \A y \in TheTransitions : Sel(b, y) /\ y.magnet # NoMagnet =>
            /\ y.magnet \in b.mag.current <=> y.want
            /\ y.magnet \in b.mag.command <=> y.want
  BY <1>1, <1>2, <1>3, <1>4 DEF MagRun, Finds
<1>9. HasStepped(b, c) /\ CoilGood(b.mag)
  BY GoodOnes DEF Closing, WorldType
<1>10. RestRun(c)
  BY <1>6, <1>7, <1>8, <1>9, RestSteps
<1>11. Keeps(c, z, Fields \ {"name", "mag", "lock", "perma", "dir"}) /\ z.state = c.state
  BY DEF Closing, HasSent, Keeps, Fields
<1> QED BY <1>10, <1>11, RestKept

(* Between the runs.                                                       *)
AllWant(on) == {m \in Reals : \E t \in TheTrains : m \in Wants(train[t], on)}
Jammed == lock /\ \A t \in TheTrains : ~Holds(train[t])
RestInv == Jammed \/ Calm(mag, AllWant(FALSE), AllWant(TRUE))

LEMMA SameWants ==
  ASSUME NEW r, NEW q, SameRoute(r, q)
  PROVE  \A on : Wants(q, on) = Wants(r, on)
BY DEF SameRoute, Wants, Sel

LEMMA RestSameTrains ==
  ASSUME RestInv, lock' = lock, \A t \in TheTrains : SameRoute(train[t], train'[t]),
         \A S, T : Calm(mag, S, T) => Calm(mag', S, T)
  PROVE  RestInv'
<1>1. \A t \in TheTrains : (Holds(train'[t]) <=> Holds(train[t]))
  BY SameHolds
<1>2. \A t \in TheTrains : \A on : Wants(train'[t], on) = Wants(train[t], on)
  BY SameWants
<1>3. AllWant(TRUE)' = AllWant(TRUE) /\ AllWant(FALSE)' = AllWant(FALSE)
  BY <1>2 DEF AllWant
<1>4. CASE Jammed
  BY <1>1, <1>4 DEF Jammed, RestInv
<1>5. CASE ~Jammed
  <2>1. Calm(mag, AllWant(FALSE), AllWant(TRUE))
    BY <1>5 DEF RestInv
  <2>2. Calm(mag', AllWant(FALSE)', AllWant(TRUE)')
    BY <1>3, <2>1
  <2> QED BY <2>2 DEF RestInv
<1> QED BY <1>4, <1>5

LEMMA RestTrainRuns ==
  ASSUME WellLocked, WellLaid, TrackInv, RestInv, NEW t \in TheTrains, RunTrain(t)
  PROVE  RestInv'
<1> DEFINE w == World(t)
           v == Folded(w)
           z == RunSchedule(w)
           q == After(z, train[t].moving)
<1>1. /\ Typed /\ Phys /\ routes \in SUBSET TheTransitions
  BY DEF TrackInv, LockInv, Typed
<1>2. w \in WorldType /\ w.name = t /\ w.mag = mag /\ w.lock = lock
  BY <1>1, WorldIs
<1>3. SameRoute(train[t], w)
  BY DEF SameRoute, World
<1>4. RunRight({}, w)
  BY TrackStarts
<1>5. train' = [train EXCEPT ![t] = q] /\ lock' = z.lock /\ mag' = z.mag
  BY <1>1, RunTrainIs
<1>6. SameRoute(z, q)
  BY DEF SameRoute, After
<1>7. PICK a, b, c : Closing(v, a, b, c, z)
  BY <1>2, RunTyped
<1> HIDE DEF w
<1>8. RunRight(TheTransitions, v) /\ v.name = t
  BY <1>1, <1>2, <1>4, RunFolded
<1>9. RestRun(w)
  <2>1. Holds(w) <=> Holds(train[t])
    BY <1>3, SameHolds
  <2>2. Jammed => Jam(w)
    BY <1>2, <2>1 DEF Jammed, Jam, OtherHolds
  <2>3. \A on : AnyWants(w, on) = AllWant(on)
    BY <1>2, <1>3, SameWants DEF AnyWants, AllWant
  <2>4. CASE Jammed
    BY <2>2, <2>4 DEF RestRun
  <2>5. CASE ~Jammed
    <3>1. Calm(mag, AllWant(FALSE), AllWant(TRUE))
      BY <2>5 DEF RestInv
    <3>2. AnyWants(w, FALSE) = AllWant(FALSE) /\ AnyWants(w, TRUE) = AllWant(TRUE)
      BY <2>3
    <3>3. Calm(w.mag, AnyWants(w, FALSE), AnyWants(w, TRUE))
      BY <1>2, <3>1, <3>2
    <3> QED BY <3>3 DEF RestRun
  <2> QED BY <2>4, <2>5
<1>10. RestRun(v)
  BY <1>4, <1>9, RestFolded DEF RunRight
<1> HIDE DEF v, z, q
<1>11. RestRun(z)
  BY <1>7, <1>8, <1>10, RestClosing DEF RunRight
<1>12. z.name = t
  <2>1. a.name = v.name
    BY <1>7 DEF Closing, HasAsked, Keeps, Fields
  <2>2. b.name = a.name
    BY <1>7 DEF Closing, Keeps, Fields
  <2>3. c.name = b.name
    BY <1>7 DEF Closing, HasStepped, Keeps, Fields
  <2>4. z.name = c.name
    BY <1>7 DEF Closing, HasSent, Keeps, Fields
  <2> QED BY <1>8, <2>1, <2>2, <2>3, <2>4
<1>13. train'[t] = q /\ \A u \in TheTrains : u # t => train'[u] = train[u]
  BY <1>1, <1>5 DEF Typed
<1>14. (Holds(q) <=> Holds(z)) /\ \A on : Wants(q, on) = Wants(z, on)
  BY <1>6, SameHolds, SameWants
<1>15. Jam(z) => Jammed'
  BY <1>5, <1>12, <1>13, <1>14 DEF Jam, Jammed, OtherHolds
<1>16. AnyWants(z, TRUE) = AllWant(TRUE)' /\ AnyWants(z, FALSE) = AllWant(FALSE)'
  BY <1>12, <1>13, <1>14 DEF AnyWants, AllWant
<1> QED BY <1>5, <1>11, <1>15, <1>16 DEF RestInv, RestRun

LEMMA NextRest ==
  ASSUME WellLocked, WellLaid, TrackInv, RestInv, [SchedulesNext]_schedVars
  PROVE  RestInv'
<1>1. Typed /\ CoilGood(mag) /\ InStep(mag)
  BY GoodOnes DEF TrackInv, LockInv, Typed
<1>2. ASSUME UNCHANGED <<train, mag, lock>> PROVE RestInv'
  BY <1>2, RestSameTrains DEF SameRoute
<1>4. CASE Ticks
  <2>1. \A t \in TheTrains : SameRoute(train[t], train'[t])
    <3>1. ASSUME NEW t \in TheTrains PROVE SameRoute(train[t], train'[t])
      <4>1. train'[t] = [train[t] EXCEPT !.timer = CountDown(@)] /\ train[t] \in TrainType
        BY <1>1, <1>4, <3>1 DEF Ticks, TickAll, Typed
      <4> QED BY <4>1 DEF SameRoute, TrainType
    <3> QED BY <3>1
  <2>2. /\ mag'.command = mag.command /\ mag'.current = mag.current
        /\ mag'.set0 = mag.set0 /\ mag'.set1 = mag.set1
    <3>1. mag' = [mag EXCEPT !.timer = CountDown(@)] /\ mag \in MagnetType
      BY <1>1, <1>4 DEF Ticks, TickAll, CoilGood
    <3> QED BY <3>1 DEF MagnetType
  <2>3. \A S, T : Calm(mag, S, T) => Calm(mag', S, T)
    BY <2>2 DEF Calm, CalmAt
  <2> QED BY <1>4, <2>1, <2>3, RestSameTrains DEF Ticks
<1>5. CASE Idles
  BY <1>2, <1>5 DEF Idles
<1>6. CASE FlipFlopRuns
  BY <1>2, <1>6 DEF FlipFlopRuns
<1>7. CASE MagnetsRun
  <2>1. UNCHANGED <<train, lock>> /\ mag' = MagnetBody(mag)
    BY <1>7 DEF MagnetsRun, RunMagnets
  <2>2. \A S, T : Calm(mag, S, T) => Calm(mag', S, T)
    BY <1>1, <2>1, MagnetsCalm
  <2> QED BY <2>1, <2>2, RestSameTrains DEF SameRoute
<1>8. ASSUME NEW t \in TheTrains, TrainRuns(t) PROVE RestInv'
  BY <1>8, RestTrainRuns DEF TrainRuns
<1>9. ASSUME NEW b \in Blocks, SignalAnswers(b) PROVE RestInv'
  BY <1>2, <1>9 DEF SignalAnswers
<1>10. ASSUME NEW t \in TheTrains, TrainArrives(t) PROVE RestInv'
  <2>1. \A u \in TheTrains : SameRoute(train[u], train'[u])
    <3>1. ASSUME NEW u \in TheTrains PROVE SameRoute(train[u], train'[u])
      <4>1. /\ train' = [train EXCEPT ![t] = [train[t] EXCEPT !.drove = FALSE]]
            /\ train[u] \in TrainType
        BY <1>1, <1>10 DEF TrainArrives, Typed
      <4>2. train'[u] = train[u] \/ train'[u] = [train[u] EXCEPT !.drove = FALSE]
        BY <1>1, <4>1 DEF Typed
      <4> QED BY <4>1, <4>2 DEF SameRoute, TrainType
    <3> QED BY <3>1
  <2> QED BY <1>10, <2>1, RestSameTrains DEF TrainArrives
<1>11. ASSUME NEW x \in Operable, Hold(x) PROVE RestInv'
  BY <1>2, <1>11 DEF Hold
<1> QED BY <1>4, <1>5, <1>6, <1>7, <1>8, <1>9, <1>10, <1>11, StepCases

(* So the pull at boot is over for the points that a train works on.       *)
LEMMA RestIsBootOver ==
  ASSUME WellLocked, WellLaid, LockInv, RestInv
  PROVE  BootOver
<1>1. SUFFICES ASSUME NEW t \in TheTrains, train[t].state = "StTurnout",
                      \A x \in Setting(t) : x.magnet # NoMagnet =>
                         ((x.magnet \in mag.current) = x.want),
                      NEW x \in Setting(t), x.magnet # NoMagnet
               PROVE  x.magnet \notin mag.set0 \cup mag.set1
  BY DEF BootOver
<1> DEFINE r == train[t]
           m == x.magnet
<1>2. Typed /\ RouteKept(r) /\ r.state \in SettingStates /\ CoilGood(mag)
  BY <1>1, GoodOnes DEF LockInv, SettingStates, Typed
<1>3. /\ x \in TheTransitions /\ x.src \in r.rloc /\ (HasDirection(x) => x \in r.dir)
  BY DEF Setting
<1>4. x.lock /\ ~x.eager /\ m \in Reals
  BY <1>1, <1>3 DEF WellLaid, WellLocked
<1>5. Sel(r, x)
  BY <1>2, <1>3, <1>4 DEF RouteKept, Synced, Sel
<1>6. Holds(r)
  BY <1>2, <1>3, <1>4, <1>5 DEF Holds, Locks
<1>7. Calm(mag, AllWant(FALSE), AllWant(TRUE))
  BY <1>6 DEF RestInv, Jammed
<1>8. ASSUME NEW on \in BOOLEAN, m \in AllWant(on) PROVE (m \in mag.current) = on
  <2>1. PICK u \in TheTrains : m \in Wants(train[u], on)
    BY <1>8 DEF AllWant
  <2>2. u = t
    BY <1>6, <2>1, WantsHolds DEF LockInv
  <2>3. PICK y \in TheTransitions : Sel(r, y) /\ y.magnet = m /\ y.want = on
    BY <2>1, <2>2 DEF Wants
  <2>4. PICK b \in Blocks : r.perma = {b}
    BY <1>2, OneBlock DEF Typed, TrainType
  <2>5. y.src = b /\ x.src = b
    BY <1>5, <2>3, <2>4 DEF Sel
  <2>6. r.rloc = {b}
    BY <1>2, <1>3, <1>4, <2>4, <2>5, LazyFacts, SetsUpHere DEF RouteKept
  <2>7. y \in Setting(t)
    BY <1>2, <2>3, <2>5, <2>6 DEF Setting, Sel
  <2> QED BY <1>1, <2>3, <2>7
<1>9. CalmAt(mag, AllWant(FALSE), AllWant(TRUE), m)
  BY <1>4, <1>7 DEF Calm
<1>10. m \notin mag.set1
  <2>1. SUFFICES ASSUME m \in mag.set1 PROVE FALSE
    OBVIOUS
  <2>2. m \in AllWant(TRUE) /\ m \notin mag.current
    BY <1>2, <1>9, <2>1 DEF CalmAt, CoilGood
  <2> QED BY <1>8, <2>2
<1>11. m \notin mag.set0
  <2>1. SUFFICES ASSUME m \in mag.set0 PROVE FALSE
    OBVIOUS
  <2>2. m \in AllWant(FALSE) /\ m \in mag.current
    BY <1>2, <1>9, <2>1 DEF CalmAt, CoilGood
  <2> QED BY <1>8, <2>2
<1> QED BY <1>10, <1>11

(* Where the boot is over and the trains may set out.                      *)
LEMMA ReadyTrack ==
  ASSUME LockInv, ReadyToStart
  PROVE  TrackInv /\ RestInv
<1>1. /\ routes = {} /\ green = {} /\ mag.command = mag.current
      /\ mag.set0 = {} /\ mag.set1 = {} /\ mag.remote = mag.command \cap Couples
  BY DEF ReadyToStart, Settled
<1>2. \A t \in TheTrains :
         /\ train[t].state \in {"StWaiting", "StFrozen"}
         /\ train[t].perma = {pos[t]} /\ ~train[t].moving
  BY DEF ReadyToStart
<1>3. Phys
  <2>1. \A t, u \in TheTrains : pos[t] = pos[u] => t = u
    BY DEF ReadyToStart, IsInjective, LockInv, Typed
  <2> QED BY <1>1, <2>1 DEF Phys
<1>4. InStep(mag)
  BY <1>1 DEF InStep
<1>5. \A t \in TheTrains : Points(mag, train[t])
  BY <1>2 DEF Points, Past
<1>6. \A t \in TheTrains : Place(t, green, train[t])
  BY <1>1, <1>2 DEF Place, Here, Phase, Answered, SettingStates, RouteOut
<1>7. TrackInv
  BY <1>1, <1>2, <1>3, <1>4, <1>5, <1>6 DEF TrackInv, RoutesLie
<1>8. RestInv
  BY <1>1 DEF RestInv, Calm, CalmAt
<1> QED BY <1>7, <1>8

(* Under every route that is set the points lie as the schedule wants them *)
(* and nobody has told them to move: MagnetAutomataEntry knows nothing of  *)
(* routes, it is SwitchTurnout and the route lock that see to it.  This is *)
(* for every schedule over a layout of two-way points, from the moment on  *)
(* when the magnets rest after the boot and the trains have not set out.   *)
THEOREM RoutesOverPoints ==
  WellLocked /\ WellLaid => (SchedulesSpec => [](ReadyToStart => []PointsLieRight))
<1> SUFFICES ASSUME WellLocked, WellLaid
             PROVE  SchedulesSpec => [](ReadyToStart => []PointsLieRight)
  OBVIOUS
<1>1. LockInv /\ [SchedulesNext]_schedVars => LockInv'
  BY NextLock
<1>2. LockInv /\ ReadyToStart => TrackInv /\ RestInv
  BY ReadyTrack
<1>3. TrackInv /\ RestInv /\ [SchedulesNext]_schedVars => TrackInv' /\ RestInv'
  BY NextTrack, NextRest, RestIsBootOver DEF TrackInv
<1>4. TrackInv => PointsLieRight
  BY TrackGood
<1> QED BY InitLock, <1>1, <1>2, <1>3, <1>4, PTL DEF SchedulesSpec

(* permaloc tells where a train is, or where the route before it leads it: *)
(* a schedule (AddBlockTransition) that cannot see its train never loses   *)
(* it, whatever order requests, answers, detectors and stops come in.      *)
THEOREM TrainsWhereTheyThink ==
  WellLocked /\ WellLaid => (SchedulesSpec => [](ReadyToStart => []TrainWhereItThinks))
<1> SUFFICES ASSUME WellLocked, WellLaid
             PROVE  SchedulesSpec => [](ReadyToStart => []TrainWhereItThinks)
  OBVIOUS
<1>1. LockInv /\ [SchedulesNext]_schedVars => LockInv'
  BY NextLock
<1>2. LockInv /\ ReadyToStart => TrackInv /\ RestInv
  BY ReadyTrack
<1>3. TrackInv /\ RestInv /\ [SchedulesNext]_schedVars => TrackInv' /\ RestInv'
  BY NextTrack, NextRest, RestIsBootOver DEF TrackInv
<1>4. TrackInv => TrainWhereItThinks
  BY TrackGood
<1> QED BY InitLock, <1>1, <1>2, <1>3, <1>4, PTL DEF SchedulesSpec

-----------------------------------------------------------------------------
(* Trains that turn round.                                                 *)
Backs == {"StBeforeReverseWait", "StReverseDoneWait"}
AtStub(r) == \E s \in TheTransitions : s.stub /\ r.perma = {s.dst}

(* Whether the train has still to be told that it has turned round.        *)
Owed(t, r) == r.perma = {pos[t]} /\ (r.needReverse \/ r.state = "StBeforeReverseWait")

Reversal(t, r) ==
    /\ r.lastReversed <=> r.reversed
    /\ r.needReverse => r.state \in {"StWaiting", "StFrozen", "StTransitionDone"} /\ AtStub(r)
    /\ r.state \in Backs => r.perma = {pos[t]} /\ AtStub(r)
    /\ (r.reversed <=> t \in turned) <=> ~Owed(t, r)

(* A stub s after which StopAndReverseAtStub has run, or has still to run. *)
Handled(t, w, s) ==
    /\ s.dst = pos[t] => ~(w.state = "StWaiting" /\ w.needReverse)
    /\ w.moving /\ s.dst # pos[t] => w.needReverse

Unhandled(t, w, s) ==
    /\ w.moving /\ s.dst = pos[t] => w.needReverse
    /\ w.state \in Backs => ~w.moving

ReverseRun(A, w) ==
    /\ Reversal(w.name, w) /\ ~w.go
    /\ w.state = "StTransitionDone" => w.perma # {pos[w.name]} \/ ~Own(pos[w.name])
    /\ \A s \in TheTransitions : s.stub /\ w.perma = {s.dst} =>
          /\ s \in A => Handled(w.name, w, s)
          /\ s \notin A => Unhandled(w.name, w, s)

LEMMA ReverseSame ==
  ASSUME NEW A, NEW w, ReverseRun(A, w), NEW v, v.name = w.name, v.perma = w.perma,
         v.moving = w.moving, v.needReverse = w.needReverse, v.reversed = w.reversed,
         v.lastReversed = w.lastReversed, v.go = w.go,
         \/ v.state = w.state
         \/ /\ w.state \notin Backs \cup {"StWaiting", "StFrozen", "StTransitionDone"}
            /\ v.state \notin Backs \cup {"StTransitionDone"}
  PROVE  ReverseRun(A, v)
<1>1. AtStub(v) <=> AtStub(w)
  BY DEF AtStub
<1>2. CASE v.state = w.state
  BY <1>1, <1>2 DEF ReverseRun, Reversal, Owed, Handled, Unhandled
<1>3. CASE /\ w.state \notin Backs \cup {"StWaiting", "StFrozen", "StTransitionDone"}
           /\ v.state \notin Backs \cup {"StTransitionDone"}
  <2>1. ~w.needReverse
    BY <1>3 DEF ReverseRun, Reversal
  <2>2. Owed(v.name, v) <=> Owed(w.name, w)
    BY <1>3, <2>1 DEF Owed, Backs
  <2>3. Reversal(v.name, v)
    BY <1>3, <2>1, <2>2 DEF ReverseRun, Reversal
  <2> QED BY <1>3, <2>1, <2>3 DEF ReverseRun, Handled, Unhandled
<1> QED BY <1>2, <1>3

LEMMA ReverseRest ==
  ASSUME NEW A, NEW w, ReverseRun(A, w), NEW x, NEW v,
         \/ Imported(w, x, v) \/ Keeps(w, v, {"ff"}) \/ Forgot(w, x, v)
         \/ TriesAgain(w, x, v) \/ HasSwitched(w, x, v)
  PROVE  ReverseRun(A, v)
<1>1. /\ v.name = w.name /\ v.perma = w.perma /\ v.moving = w.moving
      /\ v.needReverse = w.needReverse /\ v.reversed = w.reversed
      /\ v.lastReversed = w.lastReversed /\ v.go = w.go
  BY DEF Imported, Forgot, TriesAgain, HasSwitched, Keeps, Fields
<1>2. \/ v.state = w.state
      \/ /\ w.state \notin Backs \cup {"StWaiting", "StFrozen", "StTransitionDone"}
         /\ v.state \notin Backs \cup {"StTransitionDone"}
  <2>1. CASE Imported(w, x, v)
    BY <2>1 DEF Imported, Keeps, Fields
  <2>2. CASE Keeps(w, v, {"ff"})
    BY <2>2 DEF Keeps, Fields
  <2>3. CASE Forgot(w, x, v)
    BY <2>3 DEF Forgot, Keeps, Fields
  <2>4. CASE TriesAgain(w, x, v)
    BY <2>4 DEF TriesAgain, Backs
  <2>5. CASE HasSwitched(w, x, v)
    BY <2>5 DEF HasSwitched, Switches, Backs
  <2> QED BY <2>1, <2>2, <2>3, <2>4, <2>5
<1> QED BY <1>1, <1>2, ReverseSame

(* A train that is at no stub and is not being reversed, and moves on to   *)
(* the place that x leads to.                                              *)
LEMMA ReverseGoes ==
  ASSUME WellOrdered, NEW A, NEW w, ReverseRun(A, w), NEW x \in TheTransitions, x \notin A,
         NEW v, v.name = w.name, v.needReverse = w.needReverse,
         v.reversed = w.reversed, v.lastReversed = w.lastReversed, v.go = w.go,
         ~w.needReverse, w.state \notin Backs, v.state \notin Backs,
         v.perma = {x.dst}, x.dst # pos[w.name]
  PROVE  ReverseRun(A, v)
<1>1. ~Owed(w.name, w) /\ ~Owed(w.name, v)
  BY DEF Owed, Backs
<1>2. Reversal(w.name, v)
  BY <1>1 DEF ReverseRun, Reversal
<1>3. ASSUME NEW s \in TheTransitions, s.stub, v.perma = {s.dst}
      PROVE  s \notin A /\ Unhandled(w.name, v, s)
  <2>1. s.dst = x.dst
    BY <1>3
  <2>2. s = x
    BY <1>3, <2>1 DEF WellOrdered
  <2> QED BY <2>1, <2>2 DEF Unhandled
<1> QED BY <1>2, <1>3 DEF ReverseRun

LEMMA ReverseMove ==
  ASSUME WellLocked, WellOrdered, Phys, routes \in SUBSET TheTransitions,
         NEW A, NEW w, PlaceRun(w), ReverseRun(A, w), NEW x \in TheTransitions, x \notin A,
         NEW v, HasMoved(w, x, v)
  PROVE  ReverseRun(A, v)
<1>1. CASE Moves(w, x)
  <2>1. /\ v.name = w.name /\ v.state = w.state /\ v.perma = {x.dst}
        /\ v.needReverse = w.needReverse /\ v.reversed = w.reversed
        /\ v.lastReversed = w.lastReversed /\ v.go = w.go
    BY <1>1 DEF HasMoved, Keeps, Fields
  <2>2. x.eager /\ x.src \in w.perma /\ RouteOut(x.src)
    BY <1>1 DEF Moves
  <2>3. w.perma = {x.src} /\ w.name \in TheTrains
    BY <2>2, OneBlock DEF PlaceRun, WorldType
  <2>4. ~AtStub(w)
    <3>1. ~Own(x.src)
      BY <2>2, OwnLazy
    <3> QED BY <2>3, <3>1 DEF AtStub, WellOrdered
  <2>5. ~w.needReverse /\ w.state \notin Backs
    BY <2>4 DEF ReverseRun, Reversal
  <2>6. x \in routes
    BY <2>2 DEF RouteOut, WellLocked
  <2>7. x.dst # pos[w.name]
    BY <2>3, <2>6 DEF Phys
  <2> QED BY <2>1, <2>5, <2>7, ReverseGoes
<1>2. CASE ~Moves(w, x)
  BY <1>2 DEF HasMoved
<1> QED BY <1>1, <1>2

LEMMA ReverseSetOut ==
  ASSUME WellLocked, WellOrdered, Phys, NEW A, NEW B, NEW w, LockRun(B, w), PlaceRun(w),
         ReverseRun(A, w), NEW x \in TheTransitions,
         ~x.eager /\ x.src \in w.perma => w.det = x.src,
         \A s \in TheTransitions : s.stub /\ s.dst = x.src => s \in A,
         NEW v, HasSetOut(w, x, v)
  PROVE  ReverseRun(A, v)
<1>1. CASE SetsOut(w, x)
  <2>1. /\ v.name = w.name /\ v.perma = w.perma /\ v.moving = w.moving
        /\ v.needReverse = w.needReverse /\ v.reversed = w.reversed
        /\ v.lastReversed = w.lastReversed /\ v.go = w.go /\ v.state = "StReadyToGo"
    BY <1>1 DEF HasSetOut, Keeps, Fields
  <2>2. w.state = "StWaiting" /\ x.src \in w.rloc /\ MayLeave(w, x) /\ w.name \in TheTrains
    BY <1>1 DEF SetsOut, PlaceRun, WorldType
  <2>3. ~w.needReverse
    <3>1. SUFFICES ASSUME w.needReverse PROVE FALSE
      OBVIOUS
    <3>2. PICK s \in TheTransitions : s.stub /\ w.perma = {s.dst}
      BY <3>1 DEF ReverseRun, Reversal, AtStub
    <3>3. Lazy(s.dst) /\ s.dst \in Blocks
      BY <3>2, OwnLazy, TransitionIs DEF WellOrdered
    <3>4. x.src = s.dst
      BY <2>2, <3>2, <3>3, LazyRoutesHere DEF LockRun
    <3>5. ~x.eager
      BY <3>3, <3>4, LazyFacts
    <3>6. w.det = s.dst
      BY <3>2, <3>4, <3>5
    <3>7. Detector(s.dst)
      BY <2>2, <3>5, <3>6 DEF MayLeave
    <3>8. s.dst = pos[w.name]
      BY <2>2, <3>2, <3>7, AtPlace DEF PlaceRun, Place
    <3>9. Handled(w.name, w, s)
      BY <3>2, <3>4 DEF ReverseRun
    <3> QED BY <2>2, <3>1, <3>8, <3>9 DEF Handled
  <2>4. Owed(w.name, v) <=> Owed(w.name, w)
    BY <2>1, <2>2, <2>3 DEF Owed
  <2>5. Reversal(w.name, v)
    BY <2>1, <2>3, <2>4 DEF ReverseRun, Reversal, Backs
  <2>6. v.state # "StTransitionDone" /\ v.state \notin Backs
    BY <2>1 DEF Backs
  <2> QED BY <2>1, <2>5, <2>6 DEF ReverseRun, Handled, Unhandled
<1>2. CASE ~SetsOut(w, x)
  BY <1>2 DEF HasSetOut
<1> QED BY <1>1, <1>2

LEMMA ReverseLeave ==
  ASSUME WellLocked, WellLaid, WellOrdered, Phys, routes \in SUBSET TheTransitions,
         NEW A, NEW B, NEW w, LockRun(B, w), MagRun(A, w), PlaceRun(w), ReverseRun(A, w),
         NEW x \in TheTransitions, x \notin A, NEW v, HasLeft(w, x, v)
  PROVE  ReverseRun(A, v)
<1>1. CASE w.state = "StRequestTransition" /\ IsAt(w, x)
  <2>1. /\ v.name = w.name /\ v.moving = w.moving
        /\ v.needReverse = w.needReverse /\ v.reversed = w.reversed
        /\ v.lastReversed = w.lastReversed /\ v.go = w.go /\ v.state = "StTransitionDone"
        /\ v.perma = IF x.eager THEN w.perma ELSE {x.dst}
    BY <1>1 DEF HasLeft, Keeps, Fields
  <2>2. /\ x.eager => ~Owns(w)
        /\ ~x.eager => x.dst # pos[w.name]
    BY <1>1, LeavesBy
  <2>3. ~w.needReverse
    BY <1>1 DEF ReverseRun, Reversal
  <2>4. w.state \notin Backs /\ v.state \notin Backs
    BY <1>1, <2>1 DEF Backs
  <2>5. CASE ~x.eager
    <3>1. v.perma = {x.dst} /\ x.dst # pos[w.name]
      BY <2>1, <2>2, <2>5
    <3> QED BY <2>1, <2>3, <2>4, <3>1, ReverseGoes
  <2>6. CASE x.eager
    <3>1. v.perma = w.perma
      BY <2>1, <2>6
    <3>2. ~Owed(w.name, w) /\ ~Owed(w.name, v)
      BY <2>1, <2>3, <2>4 DEF Owed, Backs
    <3>3. Reversal(w.name, v)
      BY <2>1, <2>3, <2>4, <3>2 DEF ReverseRun, Reversal
    <3>4. v.perma # {pos[w.name]} \/ ~Own(pos[w.name])
      BY <2>2, <2>6, <3>1 DEF Owns
    <3> QED BY <2>1, <2>3, <2>4, <3>1, <3>3, <3>4 DEF ReverseRun, Handled, Unhandled
  <2> QED BY <2>5, <2>6
<1>2. CASE ~(w.state = "StRequestTransition" /\ IsAt(w, x))
  BY <1>2 DEF HasLeft
<1> QED BY <1>1, <1>2

(* StopAndReverseAtStub.                                                   *)
LEMMA ReverseStub ==
  ASSUME WellOrdered, Phys, NEW A, NEW w, PlaceRun(w), ReverseRun(A, w),
         NEW x \in TheTransitions, x \notin A, NEW v \in WorldType, HasReversed(w, x, v)
  PROVE  ReverseRun(A \cup {x}, v)
<1> DEFINE t == w.name
<1>0. w \in WorldType /\ t \in TheTrains
  BY DEF PlaceRun, WorldType
<1>1. CASE x.stub /\ x.dst \in w.perma
  <2>1. /\ v.name = t /\ v.perma = w.perma /\ v.moving = w.moving /\ v.go = w.go
        /\ Backing(w, x, v)
    BY <1>1 DEF HasReversed, Keeps, Fields
  <2>2. w.perma = {x.dst}
    BY <1>0, <1>1, OneBlock DEF WorldType
  <2>3. \A s \in TheTransitions : s.stub /\ w.perma = {s.dst} => s = x
    BY <1>1, <2>2 DEF WellOrdered
  <2>4. Unhandled(t, w, x)
    BY <1>1, <2>2 DEF ReverseRun
  <2>5. AtStub(w) /\ AtStub(v) /\ Own(x.dst)
    BY <1>1, <2>1, <2>2 DEF AtStub, WellOrdered
  <2>6. Detector(x.dst) <=> x.dst = pos[t]
    BY <1>0, <2>2, AtPlace DEF PlaceRun, Place, Detector
  <2>7. x.dst = pos[t] <=> w.perma = {pos[t]}
    BY <2>2
  <2>8. /\ w.needReverse \in BOOLEAN /\ w.moving \in BOOLEAN /\ w.reversed \in BOOLEAN
        /\ w.lastReversed \in BOOLEAN /\ v.needReverse \in BOOLEAN
        /\ v.reversed \in BOOLEAN /\ v.lastReversed \in BOOLEAN
    BY <1>0 DEF WorldType
  <2>9. Reversal(t, w)
    BY DEF ReverseRun
  <2>10. w.state = "StTransitionDone" => x.dst # pos[t]
    BY <2>2, <2>5 DEF ReverseRun
  <2>11. SUFFICES /\ Reversal(t, v) /\ Handled(t, v, x)
                  /\ v.state = "StTransitionDone" => w.state = "StTransitionDone"
    BY <2>1, <2>3 DEF ReverseRun
  <2>12. CASE /\ w.state = "StWaiting" /\ Detector(x.dst) /\ (w.needReverse \/ w.moving)
              /\ v.state = "StBeforeReverseWait" /\ ~v.needReverse
              /\ v.reversed = w.reversed /\ v.lastReversed = w.lastReversed
    <3>1. Owed(t, w) /\ Owed(t, v)
      BY <2>1, <2>4, <2>6, <2>7, <2>12 DEF Owed, Unhandled
    <3>2. Reversal(t, v)
      BY <2>1, <2>5, <2>6, <2>7, <2>9, <2>12, <3>1 DEF Reversal, Backs
    <3> QED BY <2>1, <2>6, <2>12, <3>2 DEF Handled
  <2>13. CASE /\ w.state = "StBeforeReverseWait" /\ w.timer = 0
              /\ v.state = "StReverseDoneWait" /\ v.needReverse = (w.needReverse \/ w.moving)
              /\ v.reversed = ~w.reversed /\ v.lastReversed = ~w.reversed
    <3>1. w.state \in Backs /\ ~w.moving /\ ~w.needReverse
      BY <2>4, <2>9, <2>13 DEF Backs, Unhandled, Reversal
    <3>2. ~v.needReverse
      BY <2>13, <3>1
    <3>3. w.perma = {pos[t]}
      BY <2>9, <3>1 DEF Reversal
    <3>4. Owed(t, w) /\ ~Owed(t, v)
      BY <2>13, <3>2, <3>3 DEF Owed
    <3>5. (v.lastReversed <=> v.reversed) /\ (v.reversed <=> ~w.reversed)
      BY <2>8, <2>13
    <3>6. Reversal(t, v)
      BY <2>1, <2>5, <2>9, <3>2, <3>3, <3>4, <3>5 DEF Reversal
    <3> QED BY <2>1, <2>7, <2>13, <3>1, <3>3, <3>6 DEF Handled
  <2>14. CASE /\ w.state = "StReverseDoneWait" /\ w.timer = 0
              /\ v.state = "StWaiting" /\ v.needReverse = (w.needReverse \/ w.moving)
              /\ v.reversed = w.reversed /\ v.lastReversed = w.lastReversed
    <3>1. w.state \in Backs /\ ~w.moving /\ ~w.needReverse
      BY <2>4, <2>9, <2>14 DEF Backs, Unhandled, Reversal
    <3>2. ~v.needReverse
      BY <2>14, <3>1
    <3>3. ~Owed(t, w) /\ ~Owed(t, v)
      BY <2>14, <3>1, <3>2 DEF Owed
    <3>4. Reversal(t, v)
      BY <2>9, <2>14, <3>2, <3>3 DEF Reversal, Backs
    <3> QED BY <2>1, <2>14, <3>1, <3>2, <3>4 DEF Handled
  <2>15. CASE /\ ~(w.state = "StWaiting" /\ Detector(x.dst) /\ (w.needReverse \/ w.moving))
              /\ v.state = w.state /\ v.needReverse = (w.needReverse \/ w.moving)
              /\ v.reversed = w.reversed /\ v.lastReversed = w.lastReversed
    <3>1. x.dst = pos[t] => (v.needReverse <=> w.needReverse)
      BY <2>4, <2>8, <2>15 DEF Unhandled
    <3>2. Owed(t, v) <=> Owed(t, w)
      BY <2>1, <2>7, <2>15, <3>1 DEF Owed
    <3>3. v.needReverse => v.state \in {"StWaiting", "StFrozen", "StTransitionDone"}
      <4>1. CASE w.needReverse
        BY <2>9, <2>15, <4>1 DEF Reversal
      <4>2. CASE w.moving /\ ~w.needReverse
        <5>1. x.dst # pos[t]
          BY <2>4, <4>2 DEF Unhandled
        <5>2. w.state \notin Backs
          BY <2>4, <4>2 DEF Unhandled
        <5>3. w.state \notin SettingStates
          <6>1. Owns(w)
            BY <2>2, <2>5 DEF Owns
          <6> QED BY <2>2, <5>1, <6>1 DEF PlaceRun, Place
        <5>4. w.state \in RunStates
          BY <1>0 DEF WorldType
        <5> QED BY <2>15, <5>2, <5>3, <5>4 DEF Backs, RunStates
      <4> QED BY <2>15, <4>1, <4>2
    <3>4. Reversal(t, v)
      BY <2>1, <2>5, <2>9, <2>15, <3>2, <3>3 DEF Reversal
    <3>5. Handled(t, v, x)
      BY <2>1, <2>6, <2>15 DEF Handled
    <3> QED BY <2>15, <3>4, <3>5
  <2> QED BY <2>1, <2>12, <2>13, <2>14, <2>15 DEF Backing
<1>2. CASE ~(x.stub /\ x.dst \in w.perma)
  <2>1. v = w
    BY <1>2 DEF HasReversed
  <2> QED BY <1>2, <2>1 DEF ReverseRun
<1> QED BY <1>1, <1>2

(* All of a transition.                                                    *)
TurnRight(A, w) == RunRight(A, w) /\ ReverseRun(A, w)

LEMMA TurnTransition ==
  ASSUME WellLocked, WellLaid, WellOrdered, Phys, routes \in SUBSET TheTransitions,
         NEW A, A \subseteq TheTransitions, NEW w, TurnRight(A, w),
         NEW x \in TheTransitions, x \notin A,
         \A s \in TheTransitions : s.stub /\ s.dst = x.src => s \in A
  PROVE  TurnRight(A \cup {x}, AddBlockTransition(w, x))
<1> DEFINE z == AddBlockTransition(w, x)
           B == A \cup {x}
<1>0. w \in WorldType /\ RunRight(A, w) /\ ReverseRun(A, w)
  BY DEF TurnRight, RunRight, LockRun
<1>1. PICK a, b, c, d, e, f, g, h : Through(w, x, a, b, c, d, e, f, g, h, z)
  BY <1>0, TransitionEffect
<1> HIDE DEF z
<1>2. /\ LockRun(B, c) /\ LockRun(B, e)
      /\ MagRun(A, e) /\ PlaceRun(a) /\ PlaceRun(c) /\ PlaceRun(e) /\ PlaceRun(h)
      /\ ~x.eager /\ x.src \in c.perma => c.det = x.src
      /\ RunRight(B, z)
  BY <1>0, <1>1, RunThrough
<1> HIDE DEF B
<1>3. ReverseRun(A, a)
  BY <1>0, <1>1, ReverseRest DEF Through
<1>4. ReverseRun(A, b)
  <2>1. HasMoved(a, x, b)
    BY <1>1 DEF Through
  <2> QED BY <1>2, <1>3, <2>1, ReverseMove
<1>5. ReverseRun(A, c)
  BY <1>1, <1>4, ReverseRest DEF Through
<1>6. ReverseRun(A, d)
  <2>1. HasSetOut(c, x, d)
    BY <1>1 DEF Through
  <2> QED BY <1>2, <1>5, <2>1, ReverseSetOut
<1>7. ReverseRun(A, e)
  BY <1>1, <1>6, ReverseRest DEF Through
<1>8. ReverseRun(A, f)
  <2>1. HasLeft(e, x, f)
    BY <1>1 DEF Through
  <2> QED BY <1>2, <1>7, <2>1, ReverseLeave
<1>9. ReverseRun(A, g)
  BY <1>1, <1>8, ReverseRest DEF Through
<1>10. ReverseRun(A, h)
  BY <1>1, <1>9, ReverseRest DEF Through
<1>11. ReverseRun(B, z)
  <2>1. HasReversed(h, x, z) /\ z \in WorldType
    BY <1>1 DEF Through
  <2>2. ReverseRun(A \cup {x}, z)
    BY <1>2, <1>10, <2>1, ReverseStub
  <2> QED BY <2>2 DEF B
<1> QED BY <1>2, <1>11 DEF TurnRight, B, z

TurnSoFar(p) == TurnRight(FirstOnes(p[2]), p[3]) /\ p[3].name = p[1]
TurnFold == INSTANCE FoldProofs WITH Op <- AddBlockTransition, Good <- TurnSoFar

LEMMA InOrder ==
  ASSUME WellOrdered, NEW k \in 0..Len(Transitions), k < Len(Transitions)
  PROVE  /\ Transitions[k + 1] \notin FirstOnes(k)
         /\ \A s \in TheTransitions :
               s.stub /\ s.dst = Transitions[k + 1].src => s \in FirstOnes(k)
<1>1. Transitions \in Seq(TheTransitions)
  BY SchedulesAssumption
<1>2. DOMAIN Transitions = 1..Len(Transitions) /\ Len(Transitions) \in Nat
  BY <1>1
<1>3. k + 1 \in DOMAIN Transitions /\ \A j \in 1..k : j \in DOMAIN Transitions /\ j # k + 1
  BY <1>2
<1>4. \A i, j \in DOMAIN Transitions : Transitions[i] = Transitions[j] => i = j
  BY DEF WellOrdered, IsInjective
<1>5. Transitions[k + 1] \notin FirstOnes(k)
  BY <1>3, <1>4 DEF FirstOnes
<1>6. ASSUME NEW s \in TheTransitions, s.stub, s.dst = Transitions[k + 1].src
      PROVE  s \in FirstOnes(k)
  <2>1. PICK i \in DOMAIN Transitions : s = Transitions[i]
    BY DEF TheTransitions
  <2>2. i < k + 1
    BY <1>3, <1>6, <2>1 DEF WellOrdered
  <2>3. i \in 1..k
    BY <1>2, <2>2
  <2> QED BY <2>1, <2>3 DEF FirstOnes
<1> QED BY <1>5, <1>6

LEMMA TurnFolded ==
  ASSUME WellLocked, WellLaid, WellOrdered, Phys, routes \in SUBSET TheTransitions,
         NEW w, TurnRight({}, w)
  PROVE  TurnRight(TheTransitions, Folded(w)) /\ Folded(w).name = w.name
<1>1. Transitions \in Seq(TheTransitions)
  BY SchedulesAssumption
<1>2. TurnSoFar(<<w.name, 0, w>>)
  BY FirstOnesAre DEF TurnSoFar
<1>3. \A k \in 0..Len(Transitions) : \A s :
         k < Len(Transitions) /\ TurnSoFar(<<w.name, k, s>>)
            => TurnSoFar(<<w.name, k + 1, AddBlockTransition(s, Transitions[k + 1])>>)
  <2>1. ASSUME NEW k \in 0..Len(Transitions), NEW s, k < Len(Transitions),
               TurnRight(FirstOnes(k), s)
        PROVE  /\ TurnRight(FirstOnes(k + 1), AddBlockTransition(s, Transitions[k + 1]))
               /\ AddBlockTransition(s, Transitions[k + 1]).name = s.name
    <3>1. /\ FirstOnes(k) \subseteq TheTransitions /\ Transitions[k + 1] \in TheTransitions
          /\ FirstOnes(k + 1) = FirstOnes(k) \cup {Transitions[k + 1]}
      BY <2>1, FirstOnesAre
    <3>2. s \in WorldType
      BY <2>1 DEF TurnRight, RunRight, LockRun
    <3>3. TurnRight(FirstOnes(k) \cup {Transitions[k + 1]}, AddBlockTransition(s, Transitions[k + 1]))
      BY <2>1, <3>1, InOrder, TurnTransition
    <3> QED BY <3>1, <3>2, <3>3, SameTrain
  <2> QED BY <2>1 DEF TurnSoFar
<1>4. TurnSoFar(<<w.name, Len(Transitions), Folded(w)>>)
  BY <1>1, <1>2, <1>3, TurnFold!FoldRelates DEF Folded, FoldLeft, MapThenFoldSet, Max,
     TurnFold!FoldLeft, TurnFold!MapThenFoldSet, TurnFold!Max
<1> QED BY <1>4, FirstOnesAre DEF TurnSoFar

(* Between the runs.  A train that is on its way into a stub, or has just  *)
(* come to its end, knows that it will have to be reversed, and it stands  *)
(* while it is reversed; `d' tells that it was moving before its last run. *)
Turns(t, r, d) ==
    /\ Reversal(t, r)
    /\ r.moving /\ AtStub(r) /\ (d \/ r.perma = {pos[t]}) => r.needReverse
    /\ r.state \in Backs => ~r.moving

LEMMA ReverseClosing ==
  ASSUME WellLocked, WellOrdered, NEW w, LockRun(TheTransitions, w), PlaceRun(w),
         ReverseRun(TheTransitions, w), NEW a, NEW b, NEW c, NEW z, Closing(w, a, b, c, z)
  PROVE  Turns(w.name, z, w.moving)
<1> DEFINE t == w.name
<1>0. w \in WorldType /\ Reversal(t, w) /\ ~w.go
  BY DEF PlaceRun, ReverseRun
<1>1. /\ a.perma = w.perma /\ a.moving = w.moving /\ a.needReverse = w.needReverse
      /\ a.reversed = w.reversed /\ a.lastReversed = w.lastReversed
      /\ Answers(w, RoutingBlock(w), a)
  BY DEF Closing, HasAsked, Keeps, Fields
<1>2. /\ b.perma = a.perma /\ b.moving = a.moving /\ b.needReverse = a.needReverse
      /\ b.reversed = a.reversed /\ b.lastReversed = a.lastReversed
      /\ b.state = a.state /\ b.go = a.go
  BY DEF Closing, Keeps, Fields
<1>3. /\ c.perma = b.perma /\ c.moving = b.moving /\ c.needReverse = b.needReverse
      /\ c.reversed = b.reversed /\ c.lastReversed = b.lastReversed /\ c.go = b.go
      /\ c.state = b.state \/ <<b.state, c.state>> \in StatePairs
  BY DEF Closing, HasStepped, Keeps, Fields
<1>4. /\ z.perma = c.perma /\ z.needReverse = c.needReverse /\ z.reversed = c.reversed
      /\ z.state = c.state /\ HasSent(c, z)
  BY DEF Closing, HasSent, Keeps, Fields
<1>5. z.perma = w.perma /\ z.needReverse = w.needReverse /\ z.reversed = w.reversed
  BY <1>1, <1>2, <1>3, <1>4
<1>6. z.lastReversed <=> z.reversed
  <2>1. z.lastReversed = IF Stops(c) THEN c.reversed ELSE Told(c)
    BY <1>4 DEF HasSent
  <2>2. c.lastReversed <=> c.reversed
    BY <1>0, <1>1, <1>2, <1>3 DEF Reversal
  <2> QED BY <1>4, <2>1, <2>2 DEF Told
<1>7. /\ a.go => w.state = "StTransitionDone"
      /\ \/ a.state = w.state
         \/ /\ w.state \in {"StRequestGreen", "StGreenRequested", "StGreenWait"}
            /\ a.state \in SettingStates
         \/ w.state = "StTransitionDone" /\ a.state = "StWaiting"
      /\ a.state # "StTransitionDone"
  BY <1>0, <1>1 DEF Answers, SettingStates
<1>8. /\ \/ z.state = a.state
         \/ a.state \in SettingStates /\ z.state \in SettingStates \cup {"StWaiting", "StFrozen"}
         \/ {a.state, z.state} \subseteq {"StWaiting", "StFrozen"}
      /\ z.moving => c.moving \/ c.go
  BY <1>2, <1>3, <1>4 DEF StatePairs, SettingStates, HasSent
<1>9. /\ w.state \in {"StWaiting", "StFrozen", "StTransitionDone"}
             => z.state \in {"StWaiting", "StFrozen"}
      /\ z.state \in Backs => w.state = z.state
      /\ w.state \in Backs => w.state = z.state
  BY <1>7, <1>8 DEF SettingStates, Backs
<1>10. AtStub(z) <=> AtStub(w)
  BY <1>5 DEF AtStub
<1>11. Owed(t, z) <=> Owed(t, w)
  BY <1>5, <1>9 DEF Owed, Backs
<1>12. Reversal(t, z)
  BY <1>0, <1>5, <1>6, <1>9, <1>10, <1>11 DEF Reversal
<1>13. w.moving /\ z.moving => z.perma # {pos[t]}
  BY PlaceClosing
<1>14. z.moving /\ ~w.moving => w.state = "StTransitionDone"
  BY <1>1, <1>2, <1>3, <1>7, <1>8
<1>15. z.state \in Backs => ~z.moving
  <2>1. SUFFICES ASSUME z.state \in Backs, z.moving PROVE FALSE
    OBVIOUS
  <2>2. w.state \in Backs /\ w.perma = {pos[t]}
    BY <1>0, <1>9, <2>1 DEF Reversal
  <2> QED BY <1>5, <1>13, <1>14, <2>1, <2>2 DEF Backs
<1>16. ASSUME z.moving, AtStub(z), w.moving \/ z.perma = {pos[t]} PROVE z.needReverse
  <2>1. PICK s \in TheTransitions : s.stub /\ w.perma = {s.dst}
    BY <1>10, <1>16 DEF AtStub
  <2>2. Handled(t, w, s) /\ Own(s.dst)
    BY <2>1 DEF ReverseRun, WellOrdered
  <2>3. CASE w.moving
    <3>1. s.dst # pos[t]
      BY <1>5, <1>13, <1>16, <2>1, <2>3
    <3> QED BY <1>5, <2>2, <2>3, <3>1 DEF Handled
  <2>4. CASE ~w.moving
    <3>1. w.perma = {pos[t]} /\ w.state = "StTransitionDone"
      BY <1>5, <1>14, <1>16, <2>4
    <3>2. ~Own(pos[t])
      BY <3>1 DEF ReverseRun
    <3>3. s.dst = pos[t]
      BY <2>1, <3>1
    <3> QED BY <2>2, <3>2, <3>3
  <2> QED BY <2>3, <2>4
<1> QED BY <1>12, <1>15, <1>16 DEF Turns

TurnInv == TrackInv /\ \A t \in TheTrains : Turns(t, train[t], train[t].drove)

LEMMA ReadyTurn ==
  ASSUME LockInv, ReadyToStart
  PROVE  TurnInv
<1>1. ASSUME NEW t \in TheTrains PROVE Turns(t, train[t], train[t].drove)
  <2>1. /\ train[t].state \in {"StWaiting", "StFrozen"} /\ ~train[t].moving
        /\ ~train[t].needReverse /\ (train[t].reversed <=> t \in turned)
        /\ train[t].lastReversed <=> train[t].reversed
    BY DEF ReadyToStart, LockInv, Typed, TrainType
  <2> QED BY <2>1 DEF Turns, Reversal, Owed, Backs
<1> QED BY <1>1, ReadyTrack DEF TurnInv

LEMMA TurnAfterRun ==
  ASSUME WellLocked, WellLaid, WellOrdered, BootOver, TurnInv, NEW t \in TheTrains,
         NEW z, z = RunSchedule(World(t))
  PROVE  Turns(t, z, train[t].moving)
<1> DEFINE w == World(t)
           v == Folded(w)
           r == train[t]
<1>1. /\ TrackInv /\ Typed /\ Phys /\ routes \in SUBSET TheTransitions
      /\ Turns(t, r, r.drove)
  BY DEF TurnInv, TrackInv, LockInv, Typed
<1>2. w \in WorldType /\ w.name = t /\ ~w.go /\ w.state # "StTransitionDone"
  BY <1>1, WorldIs
<1>3. /\ w.state = r.state /\ w.perma = r.perma /\ w.moving = r.moving
      /\ w.needReverse = r.needReverse /\ w.reversed = r.reversed
      /\ w.lastReversed = r.lastReversed
  BY DEF World
<1>4. RunRight({}, w)
  BY <1>1, TrackStarts
<1> HIDE DEF w
<1>5. ReverseRun({}, w)
  <2>1. Reversal(t, w)
    BY <1>1, <1>3 DEF Turns, Reversal, Owed, AtStub
  <2>2. ASSUME NEW s \in TheTransitions, s.stub, w.perma = {s.dst}
        PROVE  Unhandled(t, w, s)
    <3>1. AtStub(r)
      BY <1>3, <2>2 DEF AtStub
    <3>2. s.dst = pos[t] => r.perma = {pos[t]}
      BY <1>3, <2>2
    <3> QED BY <1>1, <1>3, <3>1, <3>2 DEF Turns, Unhandled
  <2> QED BY <1>2, <2>1, <2>2 DEF ReverseRun
<1>6. TurnRight(TheTransitions, v) /\ v.name = t
  BY <1>1, <1>2, <1>4, <1>5, TurnFolded DEF TurnRight
<1>7. PICK a, b, c : Closing(v, a, b, c, z)
  BY <1>2, RunTyped DEF w
<1> HIDE DEF v
<1>8. /\ LockRun(TheTransitions, v) /\ PlaceRun(v) /\ ReverseRun(TheTransitions, v)
  BY <1>6 DEF TurnRight, RunRight
<1>9. v.moving = train[t].moving
  BY <1>6, <1>8 DEF PlaceRun
<1>10. Turns(v.name, z, v.moving)
  BY <1>7, <1>8, ReverseClosing
<1> QED BY <1>6, <1>9, <1>10

SameTurn(r, q) ==
    /\ q.state = r.state /\ q.perma = r.perma /\ q.moving = r.moving
    /\ q.needReverse = r.needReverse /\ q.reversed = r.reversed
    /\ q.lastReversed = r.lastReversed

LEMMA TurnSame ==
  ASSUME UNCHANGED pos, NEW t, (t \in turned') <=> (t \in turned),
         NEW r, NEW d, Turns(t, r, d), SameTurn(r, train'[t]),
         train'[t].drove <=> d
  PROVE  Turns(t, train[t], train[t].drove)'
BY DEF SameTurn, Turns, Reversal, Owed, AtStub

LEMMA TurnArrives ==
  ASSUME WellOrdered, TurnInv, NEW t \in TheTrains, TrainArrives(t), NEW u \in TheTrains
  PROVE  Turns(u, train[u], train[u].drove)'
<1>1. /\ Typed /\ Phys /\ train[t].moving /\ train[t].drove
      /\ Turns(t, train[t], train[t].drove) /\ Turns(u, train[u], train[u].drove)
  BY DEF TurnInv, TrackInv, LockInv, TrainArrives
<1>2. PICK x \in routes :
         /\ x.src = pos[t] /\ pos' = [pos EXCEPT ![t] = x.dst]
         /\ turned' = IF x.stub THEN Put(turned, t, t \notin turned) ELSE turned
  BY DEF TrainArrives
<1>3. /\ pos'[t] = x.dst /\ \A s \in TheTrains : s # t => pos'[s] = pos[s]
      /\ x.dst # pos[t] /\ x \in TheTransitions
  BY <1>1, <1>2 DEF Typed, Phys
<1>4. /\ ~train'[t].drove /\ SameTurn(train[t], train'[t])
      /\ \A s \in TheTrains : s # t => train'[s] = train[s]
  <2>1. /\ train' = [train EXCEPT ![t] = [train[t] EXCEPT !.drove = FALSE]]
        /\ train[t] \in TrainType /\ train \in [TheTrains -> TrainType]
    BY <1>1 DEF TrainArrives, Typed
  <2> QED BY <2>1 DEF SameTurn, TrainType
<1>5. /\ (t \in turned' <=> ((t \in turned) <=> ~x.stub))
      /\ \A s \in TheTrains : s # t => (s \in turned' <=> s \in turned)
  BY <1>2 DEF Put
<1>6. CASE u # t
  <2>1. train'[u] = train[u] /\ pos'[u] = pos[u] /\ (u \in turned' <=> u \in turned)
    BY <1>3, <1>4, <1>5, <1>6
  <2> QED BY <1>1, <2>1 DEF Turns, Reversal, Owed, AtStub
<1>7. CASE u = t
  <2>1. train[t].perma = {x.dst}
    <3>1. train[t].perma # {pos[t]}
      BY <1>1 DEF TurnInv, TrackInv
    <3>2. PICK y \in routes : y.src = pos[t] /\ train[t].perma = {y.dst}
      BY <3>1 DEF TurnInv, TrackInv, Place, Here
    <3>3. y = x
      BY <1>1, <1>2, <3>2 DEF Phys
    <3> QED BY <3>2, <3>3
  <2>2. train[t].state \notin Backs /\ train[t].perma # {pos[t]}
    BY <1>1, <1>3, <2>1 DEF Turns
  <2>3. AtStub(train[t]) <=> x.stub
    <3>1. AtStub(train[t]) <=> \E s \in TheTransitions : s.stub /\ s.dst = x.dst
      BY <2>1 DEF AtStub
    <3> QED BY <1>3, <3>1 DEF WellOrdered
  <2>4. train[t].needReverse <=> x.stub
    BY <1>1, <2>3 DEF Turns, Reversal
  <2>5. ~Owed(t, train[t]) /\ (train[t].reversed <=> t \in turned)
    BY <1>1, <2>2 DEF Owed, Turns, Reversal
  <2>6. train'[t].perma = {pos'[t]}
    BY <1>3, <1>4, <2>1 DEF SameTurn
  <2>7. Owed(t, train[t])' <=> x.stub
    BY <1>4, <2>2, <2>4, <2>6 DEF Owed, SameTurn, Backs
  <2>8. AtStub(train[t])' <=> AtStub(train[t])
    BY <1>4 DEF AtStub, SameTurn
  <2>9. Reversal(t, train[t])'
    <3>1. /\ train'[t].lastReversed <=> train'[t].reversed
          /\ train'[t].needReverse => train'[t].state \in {"StWaiting", "StFrozen", "StTransitionDone"}
          /\ train'[t].state \notin Backs
      BY <1>1, <1>4, <2>2 DEF Turns, Reversal, SameTurn
    <3>2. AtStub(train[t])' <=> x.stub
      BY <2>3, <2>8
    <3>3. train'[t].needReverse <=> x.stub
      BY <1>4, <2>4 DEF SameTurn
    <3>4. (train'[t].reversed <=> t \in turned') <=> ~x.stub
      BY <1>4, <1>5, <2>5 DEF SameTurn
    <3> QED BY <2>7, <3>1, <3>2, <3>3, <3>4 DEF Reversal
  <2> QED BY <1>1, <1>4, <1>7, <2>2, <2>3, <2>4, <2>8, <2>9 DEF Turns, SameTurn
<1> QED BY <1>6, <1>7

LEMMA NextTurn ==
  ASSUME WellLocked, WellLaid, WellOrdered, BootOver, TurnInv, [SchedulesNext]_schedVars
  PROVE  TurnInv'
<1>1. TrackInv' /\ Typed
  BY NextTrack DEF TurnInv, TrackInv, LockInv
<1>2. ASSUME UNCHANGED <<pos, turned>>,
             \A t \in TheTrains : /\ SameTurn(train[t], train'[t])
                                  /\ train'[t].drove = train[t].drove
      PROVE  TurnInv'
  <2>1. ASSUME NEW t \in TheTrains PROVE Turns(t, train[t], train[t].drove)'
    <3>1. Turns(t, train[t], train[t].drove)
      BY DEF TurnInv
    <3> QED BY <1>2, <3>1, TurnSame
  <2> QED BY <1>1, <2>1 DEF TurnInv
<1>3. ASSUME UNCHANGED <<train, pos, turned>> PROVE TurnInv'
  BY <1>2, <1>3 DEF SameTurn
<1>4. CASE Ticks
  <2>1. ASSUME NEW t \in TheTrains
        PROVE  SameTurn(train[t], train'[t]) /\ train'[t].drove = train[t].drove
    <3>1. train'[t] = [train[t] EXCEPT !.timer = CountDown(@)] /\ train[t] \in TrainType
      BY <1>1, <1>4, <2>1 DEF Ticks, TickAll, Typed
    <3> QED BY <3>1 DEF SameTurn, TrainType
  <2>2. UNCHANGED <<pos, turned>>
    BY <1>4 DEF Ticks, others
  <2> QED BY <1>2, <2>1, <2>2
<1>5. CASE Idles
  BY <1>3, <1>5 DEF Idles, others
<1>6. CASE FlipFlopRuns
  BY <1>3, <1>6 DEF FlipFlopRuns, others
<1>7. CASE MagnetsRun
  BY <1>3, <1>7 DEF MagnetsRun, others
<1>8. ASSUME NEW t \in TheTrains, TrainRuns(t) PROVE TurnInv'
  <2> DEFINE z == RunSchedule(World(t))
             q == After(z, train[t].moving)
  <2>1. UNCHANGED <<pos, turned>> /\ RunTrain(t)
    BY <1>8 DEF TrainRuns, others
  <2>2. train' = [train EXCEPT ![t] = q]
    BY <1>1, <2>1, RunTrainIs
  <2>3. Turns(t, z, train[t].moving)
    BY TurnAfterRun
  <2>4. SameTurn(z, q) /\ q.drove = train[t].moving
    BY DEF SameTurn, After
  <2> HIDE DEF z, q
  <2>5. train'[t] = q /\ \A u \in TheTrains : u # t => train'[u] = train[u]
    BY <1>1, <2>2 DEF Typed
  <2>6. ASSUME NEW u \in TheTrains PROVE Turns(u, train[u], train[u].drove)'
    <3>1. CASE u = t
      BY <2>1, <2>3, <2>4, <2>5, <3>1, TurnSame
    <3>2. CASE u # t
      <4>1. Turns(u, train[u], train[u].drove) /\ train'[u] = train[u]
        BY <2>5, <3>2 DEF TurnInv
      <4> QED BY <2>1, <4>1, TurnSame DEF SameTurn
    <3> QED BY <3>1, <3>2
  <2> QED BY <1>1, <2>6 DEF TurnInv
<1>9. ASSUME NEW b \in Blocks, SignalAnswers(b) PROVE TurnInv'
  BY <1>3, <1>9 DEF SignalAnswers
<1>10. ASSUME NEW t \in TheTrains, TrainArrives(t) PROVE TurnInv'
  BY <1>1, <1>10, TurnArrives DEF TurnInv
<1>11. ASSUME NEW x \in Operable, Hold(x) PROVE TurnInv'
  BY <1>3, <1>11 DEF Hold
<1> QED BY <1>4, <1>5, <1>6, <1>7, <1>8, <1>9, <1>10, <1>11, StepCases

LEMMA TurnGood ==
  ASSUME WellOrdered, TurnInv PROVE TrainAsScheduled
<1>1. TrainWhereItThinks
  BY TrackGood DEF TurnInv
<1>2. ASSUME NEW t \in TheTrains, train[t].moving, RouteOut(pos[t])
      PROVE  train[t].lastReversed = (t \in turned)
  <2>1. /\ Reversal(t, train[t]) /\ Place(t, green, train[t])
        /\ train[t].lastReversed \in BOOLEAN
    BY DEF TurnInv, TrackInv, Turns, LockInv, Typed, TrainType
  <2>2. ~Owed(t, train[t])
    <3>1. SUFFICES ASSUME Owed(t, train[t]) PROVE FALSE
      OBVIOUS
    <3>2. /\ train[t].perma = {pos[t]} /\ AtStub(train[t])
          /\ train[t].state \in {"StWaiting", "StFrozen", "StTransitionDone", "StBeforeReverseWait"}
      BY <2>1, <3>1 DEF Owed, Reversal, Backs
    <3>3. Own(pos[t])
      BY <3>2 DEF AtStub, WellOrdered
    <3>4. train[t].state \notin Answered
      BY <3>2 DEF Answered
    <3> QED BY <1>2, <2>1, <3>2, <3>3, <3>4 DEF Place, Phase
  <2> QED BY <2>1, <2>2 DEF Reversal
<1> QED BY <1>1, <1>2 DEF TrainAsScheduled, DrivesRightWay

(* A train does what its schedule, which cannot see it, takes it to do: it *)
(* is where permaloc has it or on its way there, and it drives in the      *)
(* direction in which its route leads.  StopAndReverseAtStub reverses it   *)
(* exactly once for every visit to a stub and before SetOut sends it out   *)
(* again, however its arrival falls between the runs of its automaton.     *)
THEOREM TrainsAsScheduled ==
  WellLocked /\ WellLaid /\ WellOrdered
    => (SchedulesSpec => [](ReadyToStart => []TrainAsScheduled))
<1> SUFFICES ASSUME WellLocked, WellLaid, WellOrdered
             PROVE  SchedulesSpec => [](ReadyToStart => []TrainAsScheduled)
  OBVIOUS
<1>1. LockInv /\ [SchedulesNext]_schedVars => LockInv'
  BY NextLock
<1>2. LockInv /\ ReadyToStart => TurnInv /\ RestInv
  BY ReadyTurn, ReadyTrack
<1>3. TurnInv /\ RestInv /\ [SchedulesNext]_schedVars => TurnInv' /\ RestInv'
  BY NextTurn, NextRest, RestIsBootOver DEF TurnInv, TrackInv
<1>4. TurnInv => TrainAsScheduled
  BY TurnGood
<1> QED BY InitLock, <1>1, <1>2, <1>3, <1>4, PTL DEF SchedulesSpec
=============================================================================
