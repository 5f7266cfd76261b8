-------------------------- MODULE TrackPowerProofs ---------------------------
(***************************************************************************)
(* Proofs about the packet scheduler, for any set of sources, priorities,  *)
(* pool size, queue bound and minimum delay, and on top of them about      *)
(* track power, for any trains and length of the burst of ESTOP packets.   *)
(*                                                                         *)
(* Part 1, UpdateProcessor.  The inductive invariant is the conjunction of *)
(* TypeOK, SourcesConsistent and ExclusiveIsHighest.  None of the three is *)
(* inductive alone: removing a source needs that the source is listed only *)
(* once, and adding one needs that exclusiveIndex already is the highest   *)
(* of the others.                                                          *)
(*                                                                         *)
(* Part 2, TrackPower.  TpInv is not inductive.  The invariant of the      *)
(* scheduler (IInv) says who is exclusive; that trains are registered with *)
(* priority 0 says that it is not a train; and BurstCounted ties the       *)
(* countdown of numToNotify_ to the packets that were filled since the     *)
(* power off event.                                                        *)
(***************************************************************************)
EXTENDS TrackPower, TLAPS, WellFoundedInduction

IInv == TypeOK /\ SourcesConsistent /\ ExclusiveIsHighest

-----------------------------------------------------------------------------
(* Facts about the operators of the model.                                 *)

\* A nonempty set of naturals has a smallest element.
LEMMA Smallest ==
    ASSUME NEW T, T \subseteq Nat, T # {}
    PROVE  \E x \in T : \A y \in T : x <= y
<1>1. \E x \in T : \A y \in T : ~ (<<y, x>> \in OpToRel(<, Nat))
  BY NatLessThanWellFounded, WFMin
<1>2. \A x, y \in Nat : y < x => <<y, x>> \in OpToRel(<, Nat)
  BY DEF OpToRel
<1>3. \A x, y \in Nat : ~(y < x) => x <= y
  OBVIOUS
<1> QED
  BY <1>1, <1>2, <1>3, Zenon

\* Priorities and ages are natural numbers.
LEMMA Naturals == Priorities \subseteq Nat /\ ExclusiveMin \in Nat /\ AgeCap \in Nat
BY UpdateProcessorAssumption DEF AgeCap

\* push_back adds one source to those in the vector.
LEMMA AppendAdds ==
    ASSUME NEW S, NEW seq \in Seq(S), NEW s \in S,
           NEW w, w = Append(seq, s)
    PROVE  {w[i] : i \in DOMAIN w} = {seq[i] : i \in DOMAIN seq} \cup {s}
<1>1. /\ DOMAIN w = 1 .. (Len(seq) + 1)
      /\ \A i \in 1 .. Len(seq) : w[i] = seq[i]
      /\ w[Len(seq) + 1] = s
      /\ DOMAIN seq = 1 .. Len(seq)
      /\ Len(seq) \in Nat
  OBVIOUS
<1>2. \A i \in DOMAIN w : w[i] \in {seq[j] : j \in DOMAIN seq} \cup {s}
  <2> SUFFICES ASSUME NEW i \in DOMAIN w
               PROVE  w[i] \in {seq[j] : j \in DOMAIN seq} \cup {s}
    OBVIOUS
  <2>1. CASE i = Len(seq) + 1
    BY <1>1, <2>1
  <2>2. CASE i # Len(seq) + 1
    <3>1. i \in 1 .. Len(seq)
      BY <1>1, <2>2
    <3> QED
      BY <1>1, <3>1
  <2> QED
    BY <2>1, <2>2
<1>3. \A j \in DOMAIN seq : j \in DOMAIN w /\ w[j] = seq[j]
  BY <1>1
<1>4. Len(seq) + 1 \in DOMAIN w
  BY <1>1
<1> QED
  BY <1>1, <1>2, <1>3, <1>4

Distinct(seq) == \A i, j \in DOMAIN seq : seq[i] = seq[j] => i = j

Elements(seq) == {seq[i] : i \in DOMAIN seq}

\* Erasing a source from the vector removes that source and nothing else.
LEMMA WithoutErases ==
    ASSUME NEW S, NEW seq \in Seq(S), Distinct(seq), NEW s \in Elements(seq)
    PROVE  /\ Without(seq, s) \in Seq(S)
           /\ Len(Without(seq, s)) = Len(seq) - 1
           /\ Distinct(Without(seq, s))
           /\ Elements(Without(seq, s)) = Elements(seq) \ {s}
<1> USE DEF Distinct, Elements
<1> DEFINE p == CHOOSE i \in DOMAIN seq : seq[i] = s
           w == [i \in 1 .. (Len(seq) - 1) |-> IF i < p THEN seq[i] ELSE seq[i + 1]]
<1>1. p \in 1 .. Len(seq) /\ seq[p] = s
  OBVIOUS
<1>2. Without(seq, s) = w
  BY DEF Without
<1> HIDE DEF p
<1>3. /\ w \in Seq(S)
      /\ Len(w) = Len(seq) - 1
  BY <1>1
<1>4. \A i, j \in DOMAIN w : w[i] = w[j] => i = j
  BY <1>1, <1>3
<1>5. \A i \in DOMAIN w : w[i] \in {seq[j] : j \in DOMAIN seq} \ {s}
  BY <1>1, <1>3
<1>6. \A i \in DOMAIN seq : seq[i] # s => \E j \in DOMAIN w : w[j] = seq[i]
  <2> SUFFICES ASSUME NEW i \in 1 .. Len(seq), seq[i] # s
               PROVE  \E j \in DOMAIN w : w[j] = seq[i]
    OBVIOUS
  <2>1. CASE i < p
    <3>1. i \in DOMAIN w /\ w[i] = seq[i]
      BY <1>1, <2>1
    <3> QED
      BY <3>1
  <2>2. CASE i > p
    <3>1. i - 1 \in DOMAIN w /\ w[i - 1] = seq[i]
      BY <1>1, <2>2
    <3> QED
      BY <3>1
  <2> QED
    BY <1>1, <2>1, <2>2
<1> HIDE DEF w
<1> QED
  BY <1>2, <1>3, <1>4, <1>5, <1>6

\* If any listed source is exclusive the loop of remove_refresh_source ends
\* with a position.
LEMMA HighestExists ==
    ASSUME NEW seq \in Seq(Sources), NEW prio,
           \A i \in DOMAIN seq : prio[seq[i]] \in Priorities,
           NEW k \in 0 .. (Len(seq) - 1), prio[At(seq, k)] >= ExclusiveMin
    PROVE  LastHighest(seq, prio) # {}
<1> DEFINE Pos == 0 .. (Len(seq) - 1)
           P(i) == prio[At(seq, i)]
<1>1. \A i \in Pos : P(i) \in Priorities
  BY DEF At
<1>0. P(k) >= ExclusiveMin /\ Len(seq) \in Nat
  OBVIOUS
<1> HIDE DEF P
<1>2. PICK max \in Nat : \A q \in Priorities : q \in Nat /\ q <= max
  BY UpdateProcessorAssumption
<1>3. \A i \in Pos : P(i) \in Nat /\ P(i) <= max
  BY <1>1, <1>2, Zenon
<1> DEFINE Bounds == {x \in Nat : \A i \in Pos : P(i) <= x}
<1>4. PICK top \in Bounds : \A y \in Bounds : top <= y
  BY <1>2, <1>3, Smallest
<1>5. \E i \in Pos : P(i) = top
  <2> SUFFICES ASSUME \A i \in Pos : P(i) # top
               PROVE  FALSE
    OBVIOUS
  <2>1. \A i \in Pos : P(i) <= top - 1
    BY <1>3, <1>4
  <2>2. top - 1 \in Bounds
    BY <1>3, <1>4, <2>1
  <2> QED
    BY <1>4, <2>2
<1> DEFINE FromEnd == {x \in Nat : \E i \in Pos : P(i) = top /\ x = Len(seq) - i}
<1>6. FromEnd # {}
  <2>1. PICK i \in Pos : P(i) = top
    BY <1>5
  <2>2. Len(seq) - i \in Nat
    BY <1>0
  <2> QED
    BY <2>1, <2>2
<1>7. PICK x \in FromEnd : \A y \in FromEnd : x <= y
  BY <1>6, Smallest
<1>8. PICK last \in Pos : P(last) = top /\ x = Len(seq) - last
  BY <1>7
<1>9. \A j \in Pos : j > last => P(j) < top
  <2> SUFFICES ASSUME NEW j \in Pos, j > last, ~(P(j) < top)
               PROVE  FALSE
    OBVIOUS
  <2>1. P(j) = top
    BY <1>3, <1>4
  <2>2. Len(seq) - j \in FromEnd
    BY <1>0, <2>1
  <2>3. x <= Len(seq) - j
    BY <1>7, <2>2
  <2> QED
    BY <1>0, <1>8, <2>3
<1>10. P(last) >= ExclusiveMin
  BY <1>0, <1>3, <1>4, <1>8, UpdateProcessorAssumption
<1>11. last \in LastHighest(seq, prio)
  BY <1>4, <1>8, <1>9, <1>10 DEF LastHighest, P
<1> QED
  BY <1>11

-----------------------------------------------------------------------------
(* The invariant is inductive.                                             *)

LEMMA InitIInv == Init => IInv
<1> SUFFICES ASSUME Init PROVE IInv
  OBVIOUS
<1>1. Registered = {}
  BY DEF Init, Registered
<1>2. TypeOK
  <2>1. refreshSources \in Seq(Sources) /\ Len(refreshSources) <= NoExclusive
    BY DEF Init, NoExclusive
  <2>2. priorityUpdates \in Seq(Update)
    BY DEF Init
  <2>3. track \in Seq(Packet) /\ Len(track) <= PoolSize
    BY UpdateProcessorAssumption DEF Init
  <2>4. priority \in [{} -> Priorities] /\ age \in [{} -> 0 .. AgeCap]
    BY DEF Init
  <2>5. uptime \in 0 .. AgeCap
    BY Naturals DEF Init
  <2>6. nextRefreshIndex \in Nat /\ exclusiveIndex \in Nat
    BY DEF Init, NoExclusive
  <2>7. hasRefreshSource \in BOOLEAN
    BY DEF Init
  <2> QED
    BY <1>1, <2>1, <2>2, <2>3, <2>4, <2>5, <2>6, <2>7, Zenon DEF TypeOK
<1> QED
  BY <1>1, <1>2 DEF Init, IInv, SourcesConsistent, ExclusiveIsHighest

\* The source exclusiveIndex points to.
LEMMA ExclusiveSource ==
    ASSUME IInv, exclusiveIndex # NoExclusive
    PROVE  LET old == At(refreshSources, exclusiveIndex)
           IN  /\ exclusiveIndex \in 0 .. (Len(refreshSources) - 1)
               /\ old \in Registered
               /\ priority[old] >= ExclusiveMin
               /\ \A x \in Registered : priority[x] <= priority[old]
<1>1. /\ refreshSources \in Seq(Sources)
      /\ exclusiveIndex \in Nat
      /\ exclusiveIndex < Len(refreshSources)
  BY DEF IInv, TypeOK, ExclusiveIsHighest
<1>2. exclusiveIndex \in 0 .. (Len(refreshSources) - 1)
  BY <1>1
<1>3. At(refreshSources, exclusiveIndex) \in Registered
  BY <1>1, <1>2 DEF At, Registered
<1> QED
  BY <1>2, <1>3 DEF IInv, ExclusiveIsHighest, Exclusive

LEMMA AddIInv ==
    ASSUME IInv, NEW s \in Sources, NEW p \in Priorities, AddRefreshSource(s, p)
    PROVE  IInv'
<1> USE DEF IInv
<1>0. p \in Nat /\ \A x \in Registered : priority[x] \in Nat
  BY Naturals DEF TypeOK
<1>1. /\ refreshSources' \in Seq(Sources)
      /\ Len(refreshSources') = Len(refreshSources) + 1
      /\ \A i \in 1 .. Len(refreshSources) : refreshSources'[i] = refreshSources[i]
      /\ refreshSources'[Len(refreshSources) + 1] = s
  BY DEF TypeOK, AddRefreshSource
<1>2. Registered' = Registered \cup {s}
  <2>1. refreshSources \in Seq(Sources)
    BY DEF TypeOK
  <2>2. refreshSources' = Append(refreshSources, s)
    BY DEF AddRefreshSource
  <2> QED
    BY ONLY <2>1, <2>2, AppendAdds DEF Registered
<1>3. TypeOK'
  <2>1. priority' \in [Registered' -> Priorities]
    BY <1>2 DEF TypeOK, AddRefreshSource
  <2>2. age' \in [Registered' -> 0 .. AgeCap]
    BY <1>2 DEF TypeOK, AddRefreshSource
  <2>3. exclusiveIndex' \in Nat
    BY DEF TypeOK, AddRefreshSource
  <2>4. Len(refreshSources') <= NoExclusive
    BY <1>1 DEF TypeOK, AddRefreshSource, NoExclusive
  <2> QED
    BY <1>1, <2>1, <2>2, <2>3, <2>4 DEF TypeOK, AddRefreshSource, AgeCap
<1>4. SourcesConsistent'
  <2>1. \A i \in 1 .. Len(refreshSources) : refreshSources[i] # s
    BY DEF TypeOK, AddRefreshSource, Registered
  <2> QED
    BY <1>1, <2>1 DEF TypeOK, SourcesConsistent, AddRefreshSource
<1>5. ExclusiveIsHighest'
  <2>1. \A x \in Registered : priority'[x] = priority[x]
    BY DEF TypeOK, AddRefreshSource
  <2>2. priority'[s] = p
    BY DEF AddRefreshSource
  <2>3. Len(refreshSources) # NoExclusive
    <3>1. Len(refreshSources) \in Nat
      BY DEF TypeOK
    <3>2. Len(refreshSources) < NoExclusive
      BY DEF AddRefreshSource
    <3>3. \A n \in Nat : n < NoExclusive => n # NoExclusive
      BY DEF NoExclusive
    <3> QED
      BY <3>1, <3>2, <3>3, Zenon
  <2>4. CASE exclusiveIndex = NoExclusive
    <3>1. \A x \in Registered : priority[x] < ExclusiveMin
      BY <1>0, <2>4, UpdateProcessorAssumption DEF ExclusiveIsHighest, Exclusive
    <3>2. CASE p >= ExclusiveMin
      <4>1. exclusiveIndex' = Len(refreshSources)
        BY <1>0, <2>4, <3>2, UpdateProcessorAssumption DEF AddRefreshSource, TakesOver
      <4>2. At(refreshSources, exclusiveIndex)' = s
        BY <1>1, <4>1 DEF At
      <4>3. \A x \in Registered' : priority'[x] <= p
        BY <1>0, <1>2, <2>1, <2>2, <3>1, <3>2, UpdateProcessorAssumption
      <4> QED
        BY <1>1, <2>2, <2>3, <3>2, <4>1, <4>2, <4>3
        DEF ExclusiveIsHighest, Exclusive, TypeOK
    <3>3. CASE ~(p >= ExclusiveMin)
      <4>1. exclusiveIndex' = NoExclusive
        BY <2>4, <3>3 DEF AddRefreshSource, TakesOver
      <4>2. \A x \in Registered' : ~(priority'[x] >= ExclusiveMin)
        BY <1>0, <1>2, <2>1, <2>2, <3>1, <3>3, UpdateProcessorAssumption
      <4> QED
        BY <4>1, <4>2 DEF ExclusiveIsHighest, Exclusive
    <3> QED
      BY <3>2, <3>3
  <2>5. CASE exclusiveIndex # NoExclusive
    <3> DEFINE old == At(refreshSources, exclusiveIndex)
    <3>1. /\ exclusiveIndex \in 0 .. (Len(refreshSources) - 1)
          /\ old \in Registered
          /\ priority[old] >= ExclusiveMin
          /\ \A x \in Registered : priority[x] <= priority[old]
      BY <2>5, ExclusiveSource
    <3> HIDE DEF old
    <3>2. CASE p > priority[old]
      <4>1. exclusiveIndex' = Len(refreshSources)
        BY <1>0, <2>5, <3>1, <3>2, UpdateProcessorAssumption
        DEF AddRefreshSource, TakesOver, old
      <4>2. At(refreshSources, exclusiveIndex)' = s
        BY <1>1, <4>1 DEF At
      <4>3. \A x \in Registered' : priority'[x] <= p
        BY <1>0, <1>2, <2>1, <2>2, <3>1, <3>2
      <4>4. p >= ExclusiveMin
        BY <1>0, <3>1, <3>2, UpdateProcessorAssumption
      <4> QED
        BY <1>1, <2>2, <2>3, <4>1, <4>2, <4>3, <4>4
        DEF ExclusiveIsHighest, Exclusive, TypeOK
    <3>3. CASE ~(p > priority[old])
      <4>1. exclusiveIndex' = exclusiveIndex
        BY <2>5, <3>3 DEF AddRefreshSource, TakesOver, old
      <4>2. At(refreshSources, exclusiveIndex)' = old
        BY <1>1, <3>1, <4>1 DEF At, old, TypeOK
      <4>3. \A x \in Registered' : priority'[x] <= priority[old]
        BY <1>0, <1>2, <2>1, <2>2, <3>1, <3>3
      <4> QED
        BY <1>1, <2>1, <2>5, <3>1, <4>1, <4>2, <4>3
        DEF ExclusiveIsHighest, Exclusive, TypeOK
    <3> QED
      BY <3>2, <3>3
  <2> QED
    BY <2>4, <2>5
<1> QED
  BY <1>3, <1>4, <1>5

LEMMA RemoveIInv ==
    ASSUME IInv, NEW s \in Sources, RemoveRefreshSource(s)
    PROVE  IInv'
<1> USE DEF IInv
<1>1. /\ refreshSources' \in Seq(Sources)
      /\ Len(refreshSources') = Len(refreshSources) - 1
      /\ \A i, j \in DOMAIN refreshSources' :
            refreshSources'[i] = refreshSources'[j] => i = j
      /\ Registered' = Registered \ {s}
  <2>1. refreshSources \in Seq(Sources)
    BY DEF TypeOK
  <2>2. Distinct(refreshSources)
    BY DEF SourcesConsistent, Distinct
  <2>3. s \in Elements(refreshSources)
    BY DEF RemoveRefreshSource, Registered, Elements
  <2>4. refreshSources' = Without(refreshSources, s)
    BY DEF RemoveRefreshSource
  <2>5. /\ refreshSources' \in Seq(Sources)
        /\ Len(refreshSources') = Len(refreshSources) - 1
        /\ Distinct(refreshSources')
        /\ Elements(refreshSources') = Elements(refreshSources) \ {s}
    BY ONLY <2>1, <2>2, <2>3, <2>4, WithoutErases, Zenon
  <2> QED
    BY ONLY <2>5 DEF Registered, Distinct, Elements
<1>2. /\ priority' \in [Registered' -> Priorities]
      /\ \A x \in Registered' : priority'[x] = priority[x]
  BY <1>1 DEF TypeOK, RemoveRefreshSource, Erased
<1>3. age' \in [Registered' -> 0 .. AgeCap]
  BY <1>1 DEF TypeOK, RemoveRefreshSource, Erased
<1>4. \A i \in DOMAIN refreshSources' : refreshSources'[i] \in Registered'
  BY DEF Registered
<1> DEFINE best == LastHighest(refreshSources', priority')
<1>5. best \subseteq 0 .. (Len(refreshSources') - 1)
  BY DEF LastHighest
<1>6. \/ best = {} /\ exclusiveIndex' = NoExclusive
      \/ exclusiveIndex' \in best
  BY DEF RemoveRefreshSource
<1>7. TypeOK'
  <2>1. exclusiveIndex' \in Nat
    BY <1>1, <1>5, <1>6 DEF NoExclusive
  <2> QED
    BY <1>1, <1>2, <1>3, <2>1
    DEF TypeOK, RemoveRefreshSource, StillAny, NoExclusive
<1>8. SourcesConsistent'
  <2>1. refreshSources # <<>>
    BY DEF RemoveRefreshSource, Registered
  <2>2. hasRefreshSource' <=> refreshSources' # <<>>
    BY <2>1 DEF SourcesConsistent, RemoveRefreshSource, StillAny, TypeOK
  <2> QED
    BY <1>1, <2>2 DEF SourcesConsistent
<1>9. ExclusiveIsHighest'
  <2>1. \A x \in Registered' :
           \E i \in 0 .. (Len(refreshSources') - 1) : At(refreshSources', i) = x
    <3> SUFFICES ASSUME NEW i \in DOMAIN refreshSources'
                 PROVE  \E k \in 0 .. (Len(refreshSources') - 1) :
                            At(refreshSources', k) = refreshSources'[i]
      BY DEF Registered
    <3>1. /\ i - 1 \in 0 .. (Len(refreshSources') - 1)
          /\ At(refreshSources', i - 1) = refreshSources'[i]
      BY <1>1 DEF At
    <3> QED
      BY <3>1
  <2>2. CASE exclusiveIndex' \in best
    <3>1. exclusiveIndex' \in 0 .. (Len(refreshSources') - 1)
      BY <1>5, <2>2
    <3>2. /\ priority'[At(refreshSources', exclusiveIndex')] >= ExclusiveMin
          /\ \A x \in Registered' :
                priority'[x] <= priority'[At(refreshSources', exclusiveIndex')]
      BY <2>1, <2>2 DEF LastHighest
    <3>3. exclusiveIndex' # NoExclusive
      BY <1>1, <1>7, <3>1 DEF TypeOK, NoExclusive
    <3> QED
      BY <1>1, <3>1, <3>2, <3>3 DEF ExclusiveIsHighest, Exclusive, At
  <2>3. CASE best = {} /\ exclusiveIndex' = NoExclusive
    <3> SUFFICES ASSUME NEW x \in Registered', priority'[x] >= ExclusiveMin
                 PROVE  FALSE
      BY <2>3 DEF ExclusiveIsHighest, Exclusive
    <3>1. PICK k \in 0 .. (Len(refreshSources') - 1) : At(refreshSources', k) = x
      BY <2>1
    <3>2. \A i \in DOMAIN refreshSources' :
              priority'[refreshSources'[i]] \in Priorities
      BY <1>2, <1>4
    <3> QED
      BY <1>1, <2>3, <3>1, <3>2, HighestExists
  <2> QED
    BY <1>6, <2>2, <2>3
<1> QED
  BY <1>7, <1>8, <1>9

-----------------------------------------------------------------------------
(* entry() and the remaining actions.                                      *)

\* The background loop looks at positions of the vector, and at all of them.
LEMMA TryIndexCovers ==
    ASSUME IInv, hasRefreshSource
    PROVE  /\ \A k \in 0 .. (Len(refreshSources) - 1) :
                 /\ TryIndex(k) \in 0 .. (Len(refreshSources) - 1)
                 /\ At(refreshSources, TryIndex(k)) \in Registered
           /\ \A s \in Registered : \E k \in 0 .. (Len(refreshSources) - 1) :
                 At(refreshSources, TryIndex(k)) = s
<1> DEFINE n == Len(refreshSources)
           start == IF nextRefreshIndex >= n THEN 0 ELSE nextRefreshIndex
<1>1. n \in Nat /\ n # 0 /\ nextRefreshIndex \in Nat /\ DOMAIN refreshSources = 1 .. n
  BY DEF IInv, TypeOK, SourcesConsistent
<1>2. start \in 0 .. (n - 1)
  BY <1>1
<1>3. \A k : TryIndex(k) = IF start + k < n THEN start + k ELSE start + k - n
  BY DEF TryIndex
<1> HIDE DEF n, start
<1>4. \A k \in 0 .. (n - 1) : TryIndex(k) \in 0 .. (n - 1)
  BY <1>1, <1>2, <1>3
<1>5. \A i \in 0 .. (n - 1) : At(refreshSources, i) \in Registered
  BY <1>1 DEF At, Registered
<1>6. \A s \in Registered : \E k \in 0 .. (n - 1) : At(refreshSources, TryIndex(k)) = s
  <2> SUFFICES ASSUME NEW s \in Registered
               PROVE  \E k \in 0 .. (n - 1) : At(refreshSources, TryIndex(k)) = s
    OBVIOUS
  <2>1. PICK i \in 1 .. n : refreshSources[i] = s
    BY <1>1 DEF Registered
  <2>2. CASE i - 1 >= start
    <3>1. /\ i - 1 - start \in 0 .. (n - 1)
          /\ TryIndex(i - 1 - start) = i - 1
      BY <1>1, <1>2, <1>3, <2>2
    <3> QED
      BY <2>1, <3>1 DEF At
  <2>3. CASE i - 1 < start
    <3>1. /\ i - 1 - start + n \in 0 .. (n - 1)
          /\ TryIndex(i - 1 - start + n) = i - 1
      BY <1>1, <1>2, <1>3, <2>3
    <3> QED
      BY <2>1, <3>1 DEF At
  <2> QED
    BY <1>1, <1>2, <2>2, <2>3
<1> QED
  BY <1>4, <1>5, <1>6 DEF n

\* The background loop either refreshes a source that is due, or finds that
\* none is and leaves the packet idle.
LEMMA BackgroundOutcome ==
    ASSUME IInv, BackgroundRefresh
    PROVE  /\ nextRefreshIndex' \in Nat
           /\ \/ SendIdle /\ \A s \in Registered : ~(age[s] > MinDelay)
              \/ \E s \in Registered : age[s] > MinDelay /\ SendFrom(s, 0)
<1> DEFINE n == Len(refreshSources)
<1>1. n \in Nat /\ nextRefreshIndex \in Nat
  BY DEF IInv, TypeOK
<1>2. CASE /\ ~hasRefreshSource
           /\ SendIdle
           /\ UNCHANGED nextRefreshIndex
  <2>1. Registered = {}
    BY <1>2 DEF IInv, SourcesConsistent, Registered
  <2> QED
    BY <1>1, <1>2, <2>1
<1>3. CASE /\ hasRefreshSource
           /\ \E k \in 0 .. (n - 1) :
                 /\ RefreshDue(k)
                 /\ \A j \in 0 .. (k - 1) : ~RefreshDue(j)
                 /\ SendFrom(At(refreshSources, TryIndex(k)), 0)
                 /\ nextRefreshIndex' = PositionAfter(TryIndex(k))
  <2>1. PICK k \in 0 .. (n - 1) :
               /\ RefreshDue(k)
               /\ SendFrom(At(refreshSources, TryIndex(k)), 0)
               /\ nextRefreshIndex' = PositionAfter(TryIndex(k))
    BY <1>3
  <2>2. /\ TryIndex(k) \in 0 .. (n - 1)
        /\ At(refreshSources, TryIndex(k)) \in Registered
    BY <1>3, TryIndexCovers
  <2>3. nextRefreshIndex' \in Nat
    BY <1>1, <2>1, <2>2 DEF PositionAfter
  <2>4. age[At(refreshSources, TryIndex(k))] > MinDelay
    BY <2>1 DEF RefreshDue
  <2> QED
    BY <2>1, <2>2, <2>3, <2>4
<1>4. CASE /\ hasRefreshSource
           /\ \A k \in 0 .. (n - 1) : ~RefreshDue(k)
           /\ SendIdle
           /\ nextRefreshIndex' = PositionAfter(TryIndex(n - 1))
  <2>1. n # 0
    BY <1>4 DEF IInv, SourcesConsistent, TypeOK
  <2>2. TryIndex(n - 1) \in 0 .. (n - 1)
    BY <1>1, <1>4, <2>1, TryIndexCovers
  <2>3. nextRefreshIndex' \in Nat
    BY <1>1, <1>4, <2>2 DEF PositionAfter
  <2>4. \A s \in Registered : ~(age[s] > MinDelay)
    BY <1>4, TryIndexCovers DEF RefreshDue
  <2> QED
    BY <1>4, <2>3, <2>4
<1> QED
  BY <1>2, <1>3, <1>4 DEF BackgroundRefresh

\* What every branch of entry() has in common.
EntryEffect(s, c) ==
    /\ Len(track) < PoolSize
    /\ track' = Append(track, [source |-> s, code |-> c])
    /\ \/ s \in Registered /\ age' = [age EXCEPT ![s] = 0]
       \/ s = Idle /\ age' = age
    /\ nextRefreshIndex' \in Nat
    /\ priorityUpdates' \in Seq(Update)
    /\ EntryUnchanged

LEMMA EntryOutcome ==
    ASSUME IInv, Entry
    PROVE  \E s \in Registered \cup {Idle}, c \in Codes \cup {0} : EntryEffect(s, c)
<1> USE DEF EntryEffect
<1>1. /\ priorityUpdates \in Seq(Update)
      /\ nextRefreshIndex \in Nat
      /\ refreshSources \in Seq(Sources)
      /\ DOMAIN priority = Registered
  BY DEF IInv, TypeOK
<1>2. ASSUME priorityUpdates # <<>>
      PROVE  /\ Head(priorityUpdates) \in Update
             /\ Tail(priorityUpdates) \in Seq(Update)
             /\ Append(Tail(priorityUpdates), Head(priorityUpdates)) \in Seq(Update)
  BY <1>1, <1>2
<1>3. ASSUME BackgroundRefresh, Len(track) < PoolSize,
             priorityUpdates' \in Seq(Update), EntryUnchanged
      PROVE  \E s \in Registered \cup {Idle}, c \in Codes \cup {0} : EntryEffect(s, c)
  <2>1. nextRefreshIndex' \in Nat
    BY <1>3, BackgroundOutcome
  <2>2. CASE SendIdle
    <3>1. EntryEffect(Idle, 0)
      BY <1>3, <2>1, <2>2 DEF SendIdle
    <3> QED
      BY <3>1
  <2>3. CASE \E s \in Registered : SendFrom(s, 0)
    <3>1. PICK s \in Registered : SendFrom(s, 0)
      BY <2>3
    <3>2. EntryEffect(s, 0)
      BY <1>3, <2>1, <3>1 DEF SendFrom
    <3> QED
      BY <3>2
  <2> QED
    BY <1>3, <2>2, <2>3, BackgroundOutcome
<1>4. CASE EntryExclusive
  <2>1. At(refreshSources, exclusiveIndex) \in Registered
    BY <1>4, ExclusiveSource DEF EntryExclusive
  <2>2. EntryEffect(At(refreshSources, exclusiveIndex), 0)
    BY <1>1, <1>4, <2>1 DEF EntryExclusive, SendFrom
  <2> QED
    BY <2>1, <2>2
<1>5. CASE EntryNoUrgent
  BY <1>1, <1>3, <1>5 DEF EntryNoUrgent
<1>6. CASE EntryUrgentRemoved
  BY <1>2, <1>3, <1>6 DEF EntryUrgentRemoved
<1>7. CASE EntryUrgentTooRecent
  BY <1>2, <1>3, <1>7 DEF EntryUrgentTooRecent, Requeue
<1>8. CASE EntryUrgentSent
  <2> DEFINE u == Head(priorityUpdates)
  <2>1. u \in Update /\ u.source \in Registered /\ u.code \in Codes
    BY <1>1, <1>2, <1>8 DEF EntryUrgentSent, Update
  <2>2. EntryEffect(u.source, u.code)
    BY <1>1, <1>2, <1>8, <2>1 DEF EntryUrgentSent, SendFrom
  <2> QED
    BY <2>1, <2>2
<1> QED
  BY <1>4, <1>5, <1>6, <1>7, <1>8 DEF Entry

LEMMA EntryIInv ==
    ASSUME IInv, Entry
    PROVE  IInv'
<1>1. PICK s \in Registered \cup {Idle}, c \in Codes \cup {0} : EntryEffect(s, c)
  BY EntryOutcome
<1>2. /\ refreshSources' = refreshSources
      /\ priority' = priority
      /\ exclusiveIndex' = exclusiveIndex
      /\ hasRefreshSource' = hasRefreshSource
      /\ uptime' = uptime
  BY <1>1 DEF EntryEffect, EntryUnchanged
<1>3. Registered' = Registered
  BY <1>2 DEF Registered
<1>4. Registered \subseteq Sources
  BY DEF IInv, TypeOK, Registered
<1>5. track' \in Seq(Packet) /\ Len(track') <= PoolSize
  <2>1. [source |-> s, code |-> c] \in Packet
    BY <1>4 DEF Packet
  <2> QED
    BY <1>1, <2>1, UpdateProcessorAssumption DEF EntryEffect, IInv, TypeOK
<1>6. age' \in [Registered -> 0 .. AgeCap]
  <2>1. age \in [Registered -> 0 .. AgeCap] /\ 0 \in 0 .. AgeCap
    BY Naturals DEF IInv, TypeOK
  <2> QED
    BY <1>1, <2>1 DEF EntryEffect
<1>7. TypeOK'
  BY <1>1, <1>2, <1>3, <1>5, <1>6 DEF EntryEffect, IInv, TypeOK
<1>8. SourcesConsistent'
  BY <1>2 DEF IInv, SourcesConsistent
<1>9. ExclusiveIsHighest'
  BY <1>2, <1>3 DEF IInv, ExclusiveIsHighest, Exclusive
<1> QED
  BY <1>7, <1>8, <1>9 DEF IInv

LEMMA OthersIInv ==
    ASSUME IInv,
           \/ \E s \in Sources, c \in Codes : NotifyUpdate(s, c)
           \/ TrackDone
           \/ Tick
           \/ UNCHANGED upVars
    PROVE  IInv'
<1>1. /\ refreshSources' = refreshSources
      /\ priority' = priority
      /\ exclusiveIndex' = exclusiveIndex
      /\ hasRefreshSource' = hasRefreshSource
      /\ nextRefreshIndex' = nextRefreshIndex
  BY DEF NotifyUpdate, TrackDone, Tick, upVars
<1>2. Registered' = Registered
  BY <1>1 DEF Registered
<1>3. priorityUpdates' \in Seq(Update)
  <2>1. ASSUME NEW s \in Sources, NEW c \in Codes, NotifyUpdate(s, c)
        PROVE  priorityUpdates' \in Seq(Update)
    <3>1. [source |-> s, code |-> c] \in Update
      BY DEF Update
    <3> QED
      BY <2>1, <3>1 DEF NotifyUpdate, IInv, TypeOK
  <2> QED
    BY <2>1 DEF TrackDone, Tick, upVars, IInv, TypeOK
<1>4. track' \in Seq(Packet) /\ Len(track') <= PoolSize
  <2>1. CASE TrackDone
    BY <2>1, UpdateProcessorAssumption DEF TrackDone, IInv, TypeOK
  <2> QED
    BY <2>1 DEF NotifyUpdate, Tick, upVars, IInv, TypeOK
<1>5. \A a \in 0 .. AgeCap : Older(a) \in 0 .. AgeCap
  BY Naturals DEF Older
<1>6. /\ uptime' \in 0 .. AgeCap
      /\ age' \in [Registered -> 0 .. AgeCap]
  <2>1. CASE Tick
    BY <1>5, <2>1 DEF Tick, IInv, TypeOK
  <2> QED
    BY <2>1 DEF NotifyUpdate, TrackDone, upVars, IInv, TypeOK
<1>7. TypeOK'
  BY <1>1, <1>2, <1>3, <1>4, <1>6 DEF IInv, TypeOK
<1>8. SourcesConsistent'
  BY <1>1 DEF IInv, SourcesConsistent
<1>9. ExclusiveIsHighest'
  BY <1>1, <1>2 DEF IInv, ExclusiveIsHighest, Exclusive
<1> QED
  BY <1>7, <1>8, <1>9 DEF IInv

\* The conjunction of the three invariants is inductive.
THEOREM IInvInvariant == Spec => []IInv
<1>1. IInv /\ [Next]_upVars => IInv'
  BY AddIInv, RemoveIInv, EntryIInv, OthersIInv DEF Next
<1> QED
  BY InitIInv, <1>1, PTL DEF Spec

\* Every field of UpdateProcessor keeps its type, and packetSourceStates_ has
\* an entry for exactly the sources of the vector.
THEOREM TypeCorrect == Spec => []TypeOK
<1>1. IInv => TypeOK
  BY DEF IInv
<1> QED
  BY <1>1, IInvInvariant, PTL

\* No source is in the vector twice and hasRefreshSource_ is accurate.
THEOREM SourcesAreConsistent == Spec => []SourcesConsistent
<1>1. IInv => SourcesConsistent
  BY DEF IInv
<1> QED
  BY <1>1, IInvInvariant, PTL

\* exclusiveIndex_ is right after any sequence of add_refresh_source and
\* remove_refresh_source, for any number of sources.
THEOREM ExclusiveIndexCorrect == Spec => []ExclusiveIsHighest
<1>1. IInv => ExclusiveIsHighest
  BY DEF IInv
<1> QED
  BY <1>1, IInvInvariant, PTL

-----------------------------------------------------------------------------
(* What entry() may put on the track.                                      *)

\* Only entry() fills packets.
LEMMA OnlyEntryFills ==
    ASSUME IInv, [Next]_upVars, Filled
    PROVE  Entry
<1>1. track \in Seq(Packet)
  BY DEF IInv, TypeOK
<1>2. track' # track
  BY <1>1 DEF Filled
<1>3. ~TrackDone
  BY <1>1 DEF Filled, TrackDone
<1> QED
  BY <1>2, <1>3 DEF Next, upVars, AddRefreshSource, RemoveRefreshSource,
     NotifyUpdate, Tick

\* Whose packet entry() fills: the exclusive source's while there is one, else
\* that of a registered source quiet for the minimum delay, else an idle one.
LEMMA EntrySender ==
    ASSUME IInv, Entry
    PROVE  \/ /\ exclusiveIndex # NoExclusive
              /\ FilledPacket.source = At(refreshSources, exclusiveIndex)
           \/ /\ exclusiveIndex = NoExclusive
              /\ \/ FilledPacket.source = Idle
                 \/ /\ FilledPacket.source \in Registered
                    /\ age[FilledPacket.source] >= MinDelay
<1>1. track \in Seq(Packet) /\ DOMAIN priority = Registered
  BY DEF IInv, TypeOK
<1>2. ASSUME NEW s, NEW c, track' = Append(track, [source |-> s, code |-> c])
      PROVE  FilledPacket.source = s
  BY <1>1, <1>2 DEF FilledPacket
<1>3. \A s \in Registered : age[s] \in Nat
  BY Naturals DEF IInv, TypeOK
<1>4. ASSUME BackgroundRefresh
      PROVE  \/ FilledPacket.source = Idle
             \/ /\ FilledPacket.source \in Registered
                /\ age[FilledPacket.source] >= MinDelay
  <2>1. CASE SendIdle
    BY <1>2, <2>1 DEF SendIdle
  <2>2. CASE \E s \in Registered : age[s] > MinDelay /\ SendFrom(s, 0)
    <3>1. PICK s \in Registered : age[s] > MinDelay /\ SendFrom(s, 0)
      BY <2>2
    <3>2. FilledPacket.source = s
      BY <1>2, <3>1 DEF SendFrom
    <3>3. age[s] >= MinDelay
      BY <1>3, <3>1, UpdateProcessorAssumption
    <3> QED
      BY <3>2, <3>3
  <2> QED
    BY <1>4, <2>1, <2>2, BackgroundOutcome
<1>5. CASE EntryExclusive
  BY <1>2, <1>5 DEF EntryExclusive, SendFrom
<1>6. CASE EntryNoUrgent \/ EntryUrgentRemoved \/ EntryUrgentTooRecent
  BY <1>4, <1>6 DEF EntryNoUrgent, EntryUrgentRemoved, EntryUrgentTooRecent
<1>7. CASE EntryUrgentSent
  <2> DEFINE s == Head(priorityUpdates).source
  <2>1. s \in Registered /\ ~TooRecent(s)
    BY <1>1, <1>7 DEF EntryUrgentSent
  <2>2. FilledPacket.source = s
    BY <1>2, <1>7 DEF EntryUrgentSent, SendFrom
  <2>3. age[s] >= MinDelay
    BY <1>3, <2>1, UpdateProcessorAssumption DEF TooRecent
  <2> QED
    BY <1>7, <2>1, <2>2, <2>3 DEF EntryUrgentSent
<1> QED
  BY <1>5, <1>6, <1>7 DEF Entry

\* entry() never calls a source that has been removed, although updates of it
\* may still be queued.
THEOREM RemovedNeverCalled == Spec => OnlyRegisteredCalled
<1>1. IInv /\ [Next]_upVars
        => [Filled => FilledPacket.source \in Registered \cup {Idle}]_upVars
  BY OnlyEntryFills, EntrySender, ExclusiveSource
<1> QED
  BY <1>1, IInvInvariant, PTL DEF Spec, OnlyRegisteredCalled

\* While an exclusive source is registered every packet is of one of the
\* highest priority.
THEOREM ExclusiveGetsTrack == Spec => ExclusiveOwnsTrack
<1> DEFINE Owned == \A s \in Registered :
                       Exclusive(s) => /\ FilledPacket.source # Idle
                                       /\ priority[FilledPacket.source] >= priority[s]
<1>1. IInv /\ [Next]_upVars => [Filled => Owned]_upVars
  <2> SUFFICES ASSUME IInv, [Next]_upVars, Filled, NEW s \in Registered, Exclusive(s)
               PROVE  /\ FilledPacket.source # Idle
                      /\ priority[FilledPacket.source] >= priority[s]
    OBVIOUS
  <2>1. exclusiveIndex # NoExclusive
    BY DEF IInv, ExclusiveIsHighest
  <2>2. FilledPacket.source = At(refreshSources, exclusiveIndex)
    BY <2>1, OnlyEntryFills, EntrySender
  <2>3. FilledPacket.source \in Registered
    BY <2>1, <2>2, ExclusiveSource
  <2>4. FilledPacket.source # Idle
    BY <2>3, UpdateProcessorAssumption DEF IInv, TypeOK, Registered
  <2>5. priority[s] <= priority[FilledPacket.source]
    BY <2>1, <2>2, ExclusiveSource
  <2>6. priority[s] \in Nat /\ priority[FilledPacket.source] \in Nat
    BY <2>3, Naturals DEF IInv, TypeOK
  <2> QED
    BY <2>4, <2>5, <2>6
<1> QED
  BY <1>1, IInvInvariant, PTL DEF Spec, ExclusiveOwnsTrack

\* No train gets two packets within the minimum refresh delay.
THEOREM SpacingKept == Spec => PacketsSpaced
<1> DEFINE Spaced == Filled /\ FilledPacket.source # Idle /\ ~Exclusive(FilledPacket.source)
                        => age[FilledPacket.source] >= MinDelay
<1>1. IInv /\ [Next]_upVars => [Spaced]_upVars
  <2> SUFFICES ASSUME IInv, [Next]_upVars, Filled, FilledPacket.source # Idle,
                      ~Exclusive(FilledPacket.source)
               PROVE  age[FilledPacket.source] >= MinDelay
    OBVIOUS
  <2>1. CASE exclusiveIndex # NoExclusive
    <3>1. FilledPacket.source = At(refreshSources, exclusiveIndex)
      BY <2>1, OnlyEntryFills, EntrySender
    <3> QED
      BY <2>1, <3>1, ExclusiveSource DEF Exclusive
  <2>2. CASE exclusiveIndex = NoExclusive
    BY <2>2, OnlyEntryFills, EntrySender
  <2> QED
    BY <2>1, <2>2
<1> QED
  BY <1>1, IInvInvariant, PTL DEF Spec, PacketsSpaced

-----------------------------------------------------------------------------
(* UpdateProcessor implements PacketScheduler.                             *)

\* Taking the head off the queue removes at most that one change from the set
\* of pending ones, and putting it back at the end restores the set.
LEMMA QueueAsSet ==
    ASSUME NEW S, NEW q \in Seq(S), q # <<>>
    PROVE  /\ Elements(Tail(q)) \in {Elements(q), Elements(q) \ {Head(q)}}
           /\ Elements(Append(Tail(q), Head(q))) = Elements(q)
           /\ Head(q) \in Elements(q)
<1> USE DEF Elements
<1>1. /\ Len(q) \in Nat \ {0}
      /\ Tail(q) \in Seq(S)
      /\ Len(Tail(q)) = Len(q) - 1
      /\ \A i \in 1 .. (Len(q) - 1) : Tail(q)[i] = q[i + 1]
      /\ Head(q) = q[1]
      /\ Head(q) \in S
  OBVIOUS
<1>2. Elements(Tail(q)) \subseteq Elements(q)
  BY <1>1
<1>3. \A i \in 2 .. Len(q) : q[i] \in Elements(Tail(q))
  <2> SUFFICES ASSUME NEW i \in 2 .. Len(q)
               PROVE  q[i] \in Elements(Tail(q))
    OBVIOUS
  <2>1. i - 1 \in DOMAIN Tail(q) /\ Tail(q)[i - 1] = q[i]
    BY <1>1
  <2> QED
    BY <2>1
<1>4. Elements(q) \subseteq Elements(Tail(q)) \cup {Head(q)}
  BY <1>1, <1>3
<1>5. Head(q) \in Elements(q)
  BY <1>1
<1>6. Elements(Append(Tail(q), Head(q))) = Elements(Tail(q)) \cup {Head(q)}
  BY <1>1, AppendAdds
<1> HIDE DEF Elements
<1> QED
  BY <1>2, <1>4, <1>5, <1>6, Zenon

LEMMA SchedulerTypes ==
    ASSUME IInv
    PROVE  /\ priority \in [Registered -> Nat]
           /\ age \in [Registered -> Nat]
           /\ Registered \subseteq Sources
<1>1. priority \in [Registered -> Nat]
  BY Naturals DEF IInv, TypeOK
<1>2. age \in [Registered -> Nat]
  <2>1. 0 .. AgeCap \subseteq Nat
    BY Naturals
  <2> QED
    BY <2>1 DEF IInv, TypeOK
<1>3. Registered \subseteq Sources
  BY DEF IInv, TypeOK, Registered
<1> QED
  BY <1>1, <1>2, <1>3

LEMMA SchedulerInit == Init => Scheduler!Init
BY DEF Init, Scheduler!Init

LEMMA SchedulerAdd ==
    ASSUME IInv, NEW s \in Sources, NEW p \in Priorities, AddRefreshSource(s, p)
    PROVE  Scheduler!Next
<1>1. Scheduler!Register(s, p)
  BY DEF IInv, TypeOK, AddRefreshSource, AgeCap, Scheduler!Register, Scheduler!Known
<1> QED
  BY <1>1 DEF Scheduler!Next

LEMMA SchedulerRemove ==
    ASSUME IInv, NEW s \in Sources, RemoveRefreshSource(s)
    PROVE  Scheduler!Next
<1>1. Scheduler!Unregister(s)
  BY DEF IInv, TypeOK, RemoveRefreshSource, Erased, Scheduler!Unregister, Scheduler!Known
<1> QED
  BY <1>1 DEF Scheduler!Next

LEMMA SchedulerNotify ==
    ASSUME IInv, NEW s \in Sources, NEW c \in Codes, NotifyUpdate(s, c)
    PROVE  Scheduler!Next
<1> DEFINE u == [source |-> s, code |-> c]
<1>1. u \in Update /\ u \in Scheduler!Change /\ u.source \in Registered
  BY DEF NotifyUpdate, Update, Scheduler!Change
<1>2. Elements(priorityUpdates') = Elements(priorityUpdates) \cup {u}
  <2>1. /\ priorityUpdates \in Seq(Update)
        /\ priorityUpdates' = Append(priorityUpdates, u)
    BY DEF NotifyUpdate, IInv, TypeOK
  <2> QED
    BY ONLY <1>1, <2>1, AppendAdds DEF Elements
<1>3. Scheduler!Report(u)
  BY <1>1, <1>2
  DEF IInv, TypeOK, NotifyUpdate, Elements, Scheduler!Report, Scheduler!Known
<1> QED
  BY <1>1, <1>3 DEF Scheduler!Next

\* When nobody is exclusive and the pending changes are kept, or one of a
\* source that is gone is dropped, the background loop is an abstract refresh
\* or an abstract idle packet.
LEMMA SchedulerBackground ==
    ASSUME IInv, BackgroundRefresh, EntryUnchanged, Len(track) < PoolSize,
           exclusiveIndex = NoExclusive, Scheduler!ForgetOrKeep
    PROVE  Scheduler!Next
<1>1. /\ priority \in [Registered -> Nat]
      /\ age \in [Registered -> Nat]
      /\ Registered \subseteq Sources
  BY SchedulerTypes
<1>2. Scheduler!NobodyExclusive
  BY <1>1, Naturals
  DEF IInv, ExclusiveIsHighest, Exclusive, Scheduler!NobodyExclusive, Scheduler!Known
<1>3. CASE SendIdle /\ \A s \in Registered : ~(age[s] > MinDelay)
  <2>1. \A s \in Registered : age[s] <= MinDelay
    BY <1>1, <1>3, UpdateProcessorAssumption
  <2>2. \A s \in Registered : s # Idle
    BY <1>1, UpdateProcessorAssumption
  <2>3. age = [x \in Registered |-> IF x = Idle THEN 0 ELSE age[x]]
    <3>1. age = [x \in Registered |-> age[x]]
      BY <1>1
    <3> QED
      BY <2>2, <3>1
  <2>4. Scheduler!Fill(Idle, 0)
    BY <1>1, <1>3, <2>3
    DEF SendIdle, EntryUnchanged, Scheduler!Fill, Scheduler!Known
  <2>5. Scheduler!FillIdle
    BY <1>1, <1>2, <2>1, <2>4 DEF Scheduler!FillIdle, Scheduler!Known
  <2> QED
    BY <2>5 DEF Scheduler!Next
<1>4. CASE \E s \in Registered : age[s] > MinDelay /\ SendFrom(s, 0)
  <2>1. PICK s \in Registered : age[s] > MinDelay /\ SendFrom(s, 0)
    BY <1>4
  <2>2. Scheduler!Fill(s, 0)
    BY <1>1, <2>1 DEF SendFrom, EntryUnchanged, Scheduler!Fill, Scheduler!Known
  <2>3. Scheduler!FillRefresh(s)
    BY <1>1, <1>2, <2>1, <2>2 DEF Scheduler!FillRefresh, Scheduler!Known
  <2> QED
    BY <1>1, <2>3 DEF Scheduler!Next
<1> QED
  BY <1>3, <1>4, BackgroundOutcome

LEMMA SchedulerEntry ==
    ASSUME IInv, Entry
    PROVE  Scheduler!Next
<1>1. /\ priorityUpdates \in Seq(Update)
      /\ refreshSources \in Seq(Sources)
      /\ priority \in [Registered -> Nat]
      /\ age \in [Registered -> Nat]
      /\ Registered \subseteq Sources
      /\ Update = Scheduler!Change
  BY SchedulerTypes DEF IInv, TypeOK, Update, Scheduler!Change
<1>2. CASE EntryExclusive
  <2> DEFINE s == At(refreshSources, exclusiveIndex)
  <2>1. /\ s \in Registered
        /\ priority[s] >= ExclusiveMin
        /\ \A x \in Registered : priority[x] <= priority[s]
    BY <1>2, ExclusiveSource DEF EntryExclusive
  <2> HIDE DEF s
  <2>2. Scheduler!HighestExclusive(s)
    BY <1>1, <2>1 DEF Scheduler!HighestExclusive, Scheduler!Known
  <2>3. Scheduler!Fill(s, 0)
    BY <1>1, <1>2, <2>1
    DEF s, EntryExclusive, SendFrom, EntryUnchanged, Scheduler!Fill, Scheduler!Known
  <2>4. Scheduler!FillExclusive(s)
    BY <1>2, <2>2, <2>3 DEF EntryExclusive, Scheduler!FillExclusive
  <2> QED
    BY <1>1, <2>1, <2>4 DEF Scheduler!Next
<1>3. CASE EntryNoUrgent
  <2>1. Scheduler!ForgetOrKeep
    BY <1>3 DEF EntryNoUrgent, Scheduler!ForgetOrKeep
  <2> QED
    BY <1>3, <2>1, SchedulerBackground DEF EntryNoUrgent
<1>4. CASE EntryUrgentRemoved
  <2> DEFINE u == Head(priorityUpdates)
  <2>1. u \in Update /\ priorityUpdates # <<>>
    BY <1>1, <1>4 DEF EntryUrgentRemoved
  <2>2. Elements(priorityUpdates') \in {Elements(priorityUpdates),
                                       Elements(priorityUpdates) \ {u}}
    BY <1>1, <1>4, <2>1, QueueAsSet DEF EntryUrgentRemoved
  <2>3. Scheduler!ForgetOrKeep
    BY <1>1, <1>4, <2>1, <2>2
    DEF EntryUrgentRemoved, Elements, Scheduler!ForgetOrKeep, Scheduler!Known
  <2> QED
    BY <1>4, <2>3, SchedulerBackground DEF EntryUrgentRemoved
<1>5. CASE EntryUrgentTooRecent
  <2>1. Elements(priorityUpdates') = Elements(priorityUpdates)
    BY <1>1, <1>5, QueueAsSet DEF EntryUrgentTooRecent, Requeue
  <2>2. Scheduler!ForgetOrKeep
    BY <2>1 DEF Elements, Scheduler!ForgetOrKeep
  <2> QED
    BY <1>5, <2>2, SchedulerBackground DEF EntryUrgentTooRecent
<1>6. CASE EntryUrgentSent
  <2>0. PICK u \in Update : u = Head(priorityUpdates)
    BY <1>1, <1>6 DEF EntryUrgentSent
  <2>1. /\ priorityUpdates # <<>>
        /\ u \in Elements(priorityUpdates)
        /\ Elements(priorityUpdates') \in {Elements(priorityUpdates),
                                          Elements(priorityUpdates) \ {u}}
    BY <1>1, <1>6, <2>0, QueueAsSet DEF EntryUrgentSent
  <2>2. u.source \in Registered
    BY <1>1, <1>6, <2>0 DEF EntryUrgentSent
  <2>3. Scheduler!NobodyExclusive
    BY <1>1, <1>6, Naturals
    DEF EntryUrgentSent, IInv, ExclusiveIsHighest, Exclusive,
        Scheduler!NobodyExclusive, Scheduler!Known
  <2>4. Scheduler!Fill(u.source, u.code)
    BY <1>1, <1>6, <2>0, <2>2
    DEF EntryUrgentSent, SendFrom, EntryUnchanged, Scheduler!Fill, Scheduler!Known
  <2>5. age[u.source] >= MinDelay
    BY <1>1, <1>6, <2>0, <2>2, UpdateProcessorAssumption DEF EntryUrgentSent, TooRecent
  <2>6. Scheduler!FillChange(u)
    BY <1>1, <2>1, <2>2, <2>3, <2>4, <2>5
    DEF Elements, Scheduler!FillChange, Scheduler!Known
  <2> QED
    BY <1>1, <2>6 DEF Scheduler!Next
<1> QED
  BY <1>2, <1>3, <1>4, <1>5, <1>6 DEF Entry

\* UpdateProcessor implements the abstract scheduler, for any constants.
THEOREM Refinement == Spec => ImplementsScheduler
<1>1. IInv /\ [Next]_upVars => [Scheduler!Next]_(Scheduler!psVars)
  <2> SUFFICES ASSUME IInv, [Next]_upVars
               PROVE  Scheduler!Next \/ UNCHANGED Scheduler!psVars
    OBVIOUS
  <2>1. CASE TrackDone
    <3>1. Scheduler!Transmitted
      BY <2>1 DEF TrackDone, Scheduler!Transmitted
    <3> QED
      BY <3>1 DEF Scheduler!Next
  <2>2. CASE Tick
    <3>1. Scheduler!TimePasses
      BY <2>2 DEF Tick, Older, AgeCap, IInv, TypeOK, Scheduler!TimePasses, Scheduler!Known
    <3> QED
      BY <3>1 DEF Scheduler!Next
  <2>3. CASE UNCHANGED upVars
    BY <2>3 DEF upVars, Scheduler!psVars
  <2> QED
    BY <2>1, <2>2, <2>3, SchedulerAdd, SchedulerRemove, SchedulerNotify, SchedulerEntry
    DEF Next
<1> QED
  BY <1>1, SchedulerInit, IInvInvariant, PTL DEF Spec, ImplementsScheduler, Scheduler!Spec

-----------------------------------------------------------------------------
(* Part 2: track power.                                                    *)

TrainsNotExclusive == \A s \in Registered \cap Trains : priority[s] = 0

(* While done_ waits to be called, the packets still to come and those     *)
(* that were filled make up the burst, and the two kinds alternate.        *)
BurstCounted ==
    done => /\ numToNotify \in 1 .. NotifyCount
            /\ burst.dcc + burst.mm = NotifyCount - numToNotify
            /\ burst.dcc = IF nextDcc THEN burst.mm ELSE burst.mm + 1

TpIInv ==
    IInv /\ PowerTypeOK /\ EstopRegistered /\ TrainsNotExclusive /\ BurstCounted

-----------------------------------------------------------------------------
(* What the scheduler's actions do to the registered sources.              *)

(* add_refresh_source adds one source, with its priority.                  *)
LEMMA AddEffect ==
    ASSUME IInv, NEW s \in Sources, NEW p, AddRefreshSource(s, p)
    PROVE  /\ s \notin Registered /\ Registered' = Registered \cup {s}
           /\ priority'[s] = p
           /\ \A x \in Registered : priority'[x] = priority[x]
<1>1. refreshSources \in Seq(Sources) /\ DOMAIN priority = Registered
  BY DEF IInv, TypeOK
<1>2. refreshSources' = Append(refreshSources, s) /\ s \notin Registered
  BY DEF AddRefreshSource
<1>3. Registered' = Registered \cup {s}
  BY ONLY <1>1, <1>2, AppendAdds DEF Registered
<1> QED
  BY <1>1, <1>2, <1>3 DEF AddRefreshSource

(* remove_refresh_source removes one source and keeps the other entries.   *)
LEMMA RemoveEffect ==
    ASSUME IInv, NEW s \in Sources, RemoveRefreshSource(s)
    PROVE  /\ s \in Registered /\ Registered' = Registered \ {s}
           /\ \A x \in Registered' : priority'[x] = priority[x]
<1>1. refreshSources \in Seq(Sources) /\ DOMAIN priority = Registered
  BY DEF IInv, TypeOK
<1>2. Distinct(refreshSources)
  BY DEF IInv, SourcesConsistent, Distinct
<1>3. s \in Elements(refreshSources) /\ refreshSources' = Without(refreshSources, s)
  BY DEF RemoveRefreshSource, Registered, Elements
<1>4. Elements(refreshSources') = Elements(refreshSources) \ {s}
  BY ONLY <1>1, <1>2, <1>3, WithoutErases, Zenon
<1>5. Registered' = Registered \ {s} /\ s \in Registered
  BY ONLY <1>3, <1>4 DEF Registered, Elements
<1>6. priority' = [x \in DOMAIN priority \ {s} |-> priority[x]]
  BY DEF RemoveRefreshSource, Erased
<1> QED
  BY <1>1, <1>5, <1>6

(* entry(), updates, the track interface and the clock leave the sources   *)
(* and their priorities alone.                                             *)
LEMMA SourcesUnchanged ==
    ASSUME IInv,
           \/ Entry
           \/ \E s \in Sources, c \in Codes : NotifyUpdate(s, c)
           \/ TrackDone
           \/ Tick
           \/ UNCHANGED upVars
    PROVE  Registered' = Registered /\ priority' = priority
<1>1. CASE Entry
  BY <1>1, EntryOutcome DEF EntryEffect, EntryUnchanged, Registered
<1> QED
  BY <1>1 DEF NotifyUpdate, TrackDone, Tick, upVars, Registered

(* What the priorities and the sources of the track power are to each      *)
(* other and to the scheduler's.                                           *)
LEMMA PowerSources ==
    /\ Estop \in Sources /\ Programming \in Sources /\ Trains \subseteq Sources
    /\ Estop \notin Trains /\ Programming \notin Trains /\ Estop # Programming
    /\ 0 \in Priorities /\ EstopPriority \in Priorities
    /\ ProgrammingPriority \in Priorities
    /\ EstopPriority \in Nat /\ EstopPriority >= ExclusiveMin
    /\ ExclusiveMin \in Nat /\ ExclusiveMin > 0
    /\ NotifyCount \in Nat /\ NotifyCount > 0 /\ NotifyMax \in Nat
    /\ NotifyCount <= NotifyMax
<1>1. /\ Estop \in Sources /\ Programming \in Sources /\ Trains \subseteq Sources
      /\ Estop \notin Trains /\ Programming \notin Trains /\ Estop # Programming
  BY TrackPowerAssumption DEF Trains
<1>2. 0 \in Priorities /\ EstopPriority \in Priorities /\ ProgrammingPriority \in Priorities
  BY TrackPowerAssumption
<1>3. Priorities \subseteq Nat /\ ExclusiveMin \in Nat /\ ExclusiveMin > 0
  BY UpdateProcessorAssumption
<1> QED
  BY <1>1, <1>2, <1>3, TrackPowerAssumption

-----------------------------------------------------------------------------
(* The initial states satisfy TpIInv.                                      *)
LEMMA TpInitIInv == TpInit => TpIInv
<1> SUFFICES ASSUME TpInit PROVE TpIInv
  OBVIOUS
<1>1. IInv
  BY InitIInv DEF TpInit
<1>2. Registered = {}
  BY DEF TpInit, Init, Registered
<1>3. PowerTypeOK
  <2>1. burst \in [dcc : 0 .. NotifyCount, mm : 0 .. NotifyCount]
    BY PowerSources DEF TpInit, PowerInit
  <2> QED BY <2>1 DEF TpInit, PowerInit, PowerTypeOK
<1>4. EstopRegistered /\ TrainsNotExclusive /\ BurstCounted
  BY <1>2 DEF TpInit, PowerInit, EstopRegistered, TrainsNotExclusive, BurstCounted
<1> QED
  BY <1>1, <1>3, <1>4 DEF TpIInv

(* register_source: the ESTOP source is registered once.                   *)
LEMMA JoinKeeps ==
    ASSUME TpIInv, JoinScheduler
    PROVE  /\ IInv' /\ TrainsNotExclusive' /\ isRegistered' = TRUE
           /\ Estop \in Registered' /\ priority'[Estop] = EstopPriority
<1>1. CASE isRegistered
  <2>1. UNCHANGED upVars /\ isRegistered' = TRUE
    BY <1>1 DEF JoinScheduler
  <2>2. IInv' /\ Registered' = Registered /\ priority' = priority
    BY <2>1, OthersIInv, SourcesUnchanged DEF TpIInv
  <2> QED BY <1>1, <2>1, <2>2 DEF TpIInv, EstopRegistered, TrainsNotExclusive
<1>2. CASE ~isRegistered
  <2>1. AddRefreshSource(Estop, EstopPriority) /\ isRegistered' = TRUE
    BY <1>2 DEF JoinScheduler
  <2>2. IInv'
    BY <2>1, PowerSources, AddIInv DEF TpIInv
  <2>3. /\ Registered' = Registered \cup {Estop} /\ priority'[Estop] = EstopPriority
        /\ \A x \in Registered : priority'[x] = priority[x]
    BY <2>1, PowerSources, AddEffect DEF TpIInv
  <2> QED BY <2>1, <2>2, <2>3, PowerSources DEF TpIInv, TrainsNotExclusive
<1> QED
  BY <1>1, <1>2

(* unregister_source: the ESTOP source leaves when both bits are normal.   *)
LEMMA UnregisterKeeps ==
    ASSUME TpIInv, UnregisterSource, isEOff' \in BOOLEAN, isEStop' \in BOOLEAN,
           isEOff' \/ isEStop' => isEOff \/ isEStop
    PROVE  IInv' /\ TrainsNotExclusive' /\ EstopRegistered' /\ isRegistered' \in BOOLEAN
<1>1. CASE isRegistered /\ BothNormal
  <2>1. RemoveRefreshSource(Estop) /\ isRegistered' = FALSE
    BY <1>1 DEF UnregisterSource
  <2>2. IInv'
    BY <2>1, PowerSources, RemoveIInv DEF TpIInv
  <2>3. /\ Registered' = Registered \ {Estop}
        /\ \A x \in Registered' : priority'[x] = priority[x]
    BY <2>1, PowerSources, RemoveEffect DEF TpIInv
  <2>4. TrainsNotExclusive'
    BY <2>3 DEF TpIInv, TrainsNotExclusive
  <2> QED BY <1>1, <2>1, <2>2, <2>3, <2>4 DEF BothNormal, EstopRegistered
<1>2. CASE ~(isRegistered /\ BothNormal)
  <2>1. UNCHANGED <<isRegistered, upVars>>
    BY <1>2 DEF UnregisterSource
  <2>2. IInv' /\ Registered' = Registered /\ priority' = priority
    BY <2>1, OthersIInv, SourcesUnchanged DEF TpIInv
  <2>3. TrainsNotExclusive'
    BY <2>2 DEF TpIInv, TrainsNotExclusive
  <2> QED
    BY <1>2, <2>1, <2>2, <2>3 DEF TpIInv, BothNormal, EstopRegistered, PowerTypeOK
<1> QED
  BY <1>1, <1>2

(* get_next_packet of the ESTOP source counts the burst.                   *)
LEMMA EstopPacketCounts ==
    ASSUME PowerTypeOK, BurstCounted, EstopPacket
    PROVE  /\ PowerTypeOK' /\ BurstCounted'
           /\ TurnedOff => /\ 2 * burst'.dcc >= NotifyCount
                           /\ 2 * burst'.mm >= NotifyCount - 1
                           /\ burst'.dcc + burst'.mm >= NotifyCount
<1> USE PowerSources
<1>1. /\ numToNotify \in 0 .. NotifyMax /\ burst.dcc \in 0 .. NotifyCount
      /\ burst.mm \in 0 .. NotifyCount /\ nextDcc \in BOOLEAN /\ done \in BOOLEAN
  BY DEF PowerTypeOK
<1>2. numToNotify' \in 0 .. NotifyMax /\ numToNotify' = IF numToNotify > 0 THEN numToNotify - 1 ELSE 0
  BY <1>1 DEF EstopPacket, Countdown
<1>3. /\ burst'.dcc = IF nextDcc THEN Counted(burst.dcc) ELSE burst.dcc
      /\ burst'.mm = IF nextDcc THEN burst.mm ELSE Counted(burst.mm)
      /\ nextDcc' = ~nextDcc
  BY DEF EstopPacket, PowerTypeOK
<1>4. \A n \in 0 .. NotifyCount : Counted(n) \in 0 .. NotifyCount
  BY DEF Counted
<1>5. burst' \in [dcc : 0 .. NotifyCount, mm : 0 .. NotifyCount]
  BY <1>4 DEF EstopPacket, PowerTypeOK
<1>6. disabled' \in [Outputs -> SUBSET {"GLOBAL_EOFF"}]
  BY DEF EstopPacket, PowerTypeOK
<1>7. PowerTypeOK'
  BY <1>2, <1>5, <1>6 DEF EstopPacket, PowerTypeOK
<1>8. ASSUME done
      PROVE  /\ numToNotify' = numToNotify - 1 /\ numToNotify \in 1 .. NotifyCount
             /\ burst'.dcc + burst'.mm = NotifyCount - numToNotify'
             /\ burst'.dcc = IF nextDcc' THEN burst'.mm ELSE burst'.mm + 1
  <2>1. /\ numToNotify \in 1 .. NotifyCount
        /\ burst.dcc + burst.mm = NotifyCount - numToNotify
        /\ burst.dcc = IF nextDcc THEN burst.mm ELSE burst.mm + 1
    BY <1>8 DEF BurstCounted
  <2> DEFINE d == burst.dcc
             m == burst.mm
             n == numToNotify
             N == NotifyCount
             dn == burst'.dcc
             mn == burst'.mm
             nn == numToNotify'
  <2>2. d \in Nat /\ m \in Nat /\ n \in Nat /\ N \in Nat /\ n > 0
    BY <1>1, <2>1
  <2>3. nn = n - 1
    BY <1>2, <2>2
  <2>4. d + m = N - n
    BY <2>1
  <2>5. d < N /\ m < N
    <3> HIDE DEF d, m, n, N
    <3> QED BY <2>2, <2>4
  <2>6. Counted(d) = d + 1 /\ Counted(m) = m + 1
    BY <2>5 DEF Counted
  <2>7. CASE nextDcc
    <3>1. dn = d + 1 /\ mn = m /\ ~nextDcc'
      BY <1>3, <2>6, <2>7
    <3>2. d = m
      BY <2>1, <2>7
    <3>3. dn = mn + 1
      BY <3>1, <3>2
    <3>4. dn + mn = N - nn
      <4> HIDE DEF d, m, n, N, dn, mn, nn
      <4> QED BY ONLY <2>2, <2>3, <2>4, <3>1
    <3> QED BY <2>1, <2>3, <3>1, <3>3, <3>4
  <2>8. CASE ~nextDcc
    <3>1. dn = d /\ mn = m + 1 /\ nextDcc'
      BY <1>3, <2>6, <2>8
    <3>2. d = m + 1
      BY <2>1, <2>8
    <3>3. dn = mn
      BY <3>1, <3>2
    <3>4. dn + mn = N - nn
      <4> HIDE DEF d, m, n, N, dn, mn, nn
      <4> QED BY ONLY <2>2, <2>3, <2>4, <3>1
    <3> QED BY <2>1, <2>3, <3>1, <3>3, <3>4
  <2> QED BY <2>7, <2>8
<1>9. BurstCounted'
  <2> SUFFICES ASSUME done'
               PROVE  /\ numToNotify' \in 1 .. NotifyCount
                      /\ burst'.dcc + burst'.mm = NotifyCount - numToNotify'
                      /\ burst'.dcc = IF nextDcc' THEN burst'.mm ELSE burst'.mm + 1
    BY DEF BurstCounted
  <2>1. done /\ numToNotify # 1
    BY DEF EstopPacket
  <2> QED BY <1>1, <1>8, <2>1
<1>10. ASSUME TurnedOff
       PROVE  /\ 2 * burst'.dcc >= NotifyCount
              /\ 2 * burst'.mm >= NotifyCount - 1
              /\ burst'.dcc + burst'.mm >= NotifyCount
  <2>1. done /\ numToNotify = 1
    BY <1>10 DEF TurnedOff, EstopPacket
  <2>2. /\ burst'.dcc + burst'.mm = NotifyCount
        /\ burst'.dcc = burst'.mm \/ burst'.dcc = burst'.mm + 1
    BY <1>8, <2>1
  <2>3. burst'.dcc \in Nat /\ burst'.mm \in Nat
    BY <1>5
  <2> QED BY <2>2, <2>3
<1> QED
  BY <1>7, <1>9, <1>10

(* The trains and the programming track come and go without touching the   *)
(* ESTOP source; nothing else the scheduler does changes who is registered.*)
LEMMA OthersKeep ==
    ASSUME TpIInv, Others \/ EntryOther
    PROVE  IInv' /\ TrainsNotExclusive' /\ EstopRegistered' /\ UNCHANGED estopVars
<1>0. UNCHANGED estopVars
  BY DEF Others, EntryOther
<1> DEFINE Keeps == /\ IInv' /\ TrainsNotExclusive'
                    /\ Estop \in Registered' <=> Estop \in Registered
                    /\ Estop \in Registered => priority'[Estop] = priority[Estop]
<1> SUFFICES Keeps
  BY <1>0 DEF TpIInv, EstopRegistered, estopVars
<1>1. ASSUME NEW s \in Trains \cup {Programming}, NEW p \in Priorities,
             AddRefreshSource(s, p), s \in Trains => p = 0
      PROVE  Keeps
  <2>1. s \in Sources /\ s # Estop /\ IInv
    BY PowerSources DEF TpIInv
  <2>2. IInv'
    BY <1>1, <2>1, PowerSources, AddIInv
  <2>3. /\ Registered' = Registered \cup {s}
        /\ \A x \in Registered : priority'[x] = priority[x]
        /\ s \in Trains => priority'[s] = 0
    BY <1>1, <2>1, PowerSources, AddEffect
  <2> QED BY <2>1, <2>2, <2>3 DEF TpIInv, TrainsNotExclusive
<1>2. ASSUME NEW s \in Trains \cup {Programming}, RemoveRefreshSource(s)
      PROVE  Keeps
  <2>1. s \in Sources /\ s # Estop /\ IInv
    BY PowerSources DEF TpIInv
  <2>2. IInv'
    BY <1>2, <2>1, RemoveIInv
  <2>3. /\ Registered' = Registered \ {s}
        /\ \A x \in Registered' : priority'[x] = priority[x]
    BY <1>2, <2>1, RemoveEffect
  <2> QED BY <2>1, <2>2, <2>3 DEF TpIInv, TrainsNotExclusive
<1>3. ASSUME \/ Entry
             \/ \E s \in Sources, c \in Codes : NotifyUpdate(s, c)
             \/ TrackDone
             \/ Tick
      PROVE  Keeps
  <2>1. IInv' /\ Registered' = Registered /\ priority' = priority
    BY <1>3, EntryIInv, OthersIInv, SourcesUnchanged DEF TpIInv
  <2> QED BY <2>1 DEF TpIInv, TrainsNotExclusive
<1>4. ASSUME NEW s \in Trains, NEW c \in Codes, NotifyUpdate(s, c)
      PROVE  \E x \in Sources, d \in Codes : NotifyUpdate(x, d)
  BY <1>4, PowerSources
<1> HIDE DEF Keeps
<1>5. CASE EntryOther
  BY <1>3, <1>5 DEF EntryOther
<1>6. CASE Others
  <2>1. ASSUME NEW s \in Trains, AddRefreshSource(s, 0) PROVE Keeps
    BY <1>1, <2>1, PowerSources
  <2>2. CASE AddRefreshSource(Programming, ProgrammingPriority)
    BY <1>1, <2>2, PowerSources
  <2> QED BY <1>2, <1>3, <1>4, <1>6, <2>1, <2>2 DEF Others
<1> QED
  BY <1>5, <1>6

(* Every event and every packet keeps TpIInv.                              *)
LEMMA TpNextIInv == TpIInv /\ [TpNext]_tpVars => TpIInv'
<1> SUFFICES ASSUME TpIInv, [TpNext]_tpVars PROVE TpIInv'
  OBVIOUS
<1>0. PowerTypeOK /\ EstopRegistered /\ BurstCounted
  BY DEF TpIInv
<1>1. CASE PowerOn
  <2>1. /\ UnregisterSource /\ isEOff' = FALSE
        /\ UNCHANGED <<isEStop, nextDcc, numToNotify, done, burst>>
    BY <1>1 DEF PowerOn
  <2>2. IInv' /\ TrainsNotExclusive' /\ EstopRegistered' /\ isRegistered' \in BOOLEAN
    BY <1>0, <2>1, UnregisterKeeps DEF PowerTypeOK
  <2>3. disabled' \in [Outputs -> SUBSET {"GLOBAL_EOFF"}]
    BY <1>0, <1>1 DEF PowerOn, PowerTypeOK
  <2>4. PowerTypeOK'
    BY <1>0, <2>1, <2>2, <2>3 DEF PowerTypeOK
  <2>5. BurstCounted'
    BY <1>0, <2>1 DEF BurstCounted
  <2> QED BY <2>2, <2>4, <2>5 DEF TpIInv
<1>2. CASE PowerOff
  <2>1. /\ JoinScheduler /\ isEOff' = TRUE /\ UNCHANGED <<isEStop, disabled>>
        /\ nextDcc' = TRUE /\ done' = TRUE /\ numToNotify' = NotifyCount
        /\ burst' = [dcc |-> 0, mm |-> 0]
    BY <1>2 DEF PowerOff, StartCounting
  <2>2. /\ IInv' /\ TrainsNotExclusive' /\ isRegistered' = TRUE
        /\ Estop \in Registered' /\ priority'[Estop] = EstopPriority
    BY <2>1, JoinKeeps
  <2>3. EstopRegistered'
    BY <2>1, <2>2 DEF EstopRegistered
  <2>4. /\ numToNotify' \in 0 .. NotifyMax /\ numToNotify' \in 1 .. NotifyCount
        /\ burst' \in [dcc : 0 .. NotifyCount, mm : 0 .. NotifyCount]
        /\ burst'.dcc + burst'.mm = NotifyCount - numToNotify'
        /\ burst'.dcc = burst'.mm
    BY <2>1, PowerSources
  <2>5. PowerTypeOK'
    BY <1>0, <2>1, <2>2, <2>4 DEF PowerTypeOK
  <2>6. BurstCounted'
    BY <2>1, <2>4 DEF BurstCounted
  <2> QED BY <2>2, <2>3, <2>5, <2>6 DEF TpIInv
<1>3. CASE StopClear
  <2>1. /\ UnregisterSource /\ isEStop' = FALSE
        /\ UNCHANGED <<isEOff, nextDcc, numToNotify, done, disabled, burst>>
    BY <1>3 DEF StopClear
  <2>2. IInv' /\ TrainsNotExclusive' /\ EstopRegistered' /\ isRegistered' \in BOOLEAN
    BY <1>0, <2>1, UnregisterKeeps DEF PowerTypeOK
  <2>3. PowerTypeOK'
    BY <1>0, <2>1, <2>2 DEF PowerTypeOK
  <2>4. BurstCounted'
    BY <1>0, <2>1 DEF BurstCounted
  <2> QED BY <2>2, <2>3, <2>4 DEF TpIInv
<1>4. CASE StopEngage
  <2>1. /\ JoinScheduler /\ isEStop' = TRUE
        /\ UNCHANGED <<isEOff, nextDcc, numToNotify, done, disabled, burst>>
    BY <1>4 DEF StopEngage
  <2>2. /\ IInv' /\ TrainsNotExclusive' /\ isRegistered' = TRUE
        /\ Estop \in Registered' /\ priority'[Estop] = EstopPriority
    BY <2>1, JoinKeeps
  <2>3. EstopRegistered'
    BY <2>1, <2>2 DEF EstopRegistered
  <2>4. PowerTypeOK'
    BY <1>0, <2>1, <2>2 DEF PowerTypeOK
  <2>5. BurstCounted'
    BY <1>0, <2>1 DEF BurstCounted
  <2> QED BY <2>2, <2>3, <2>4, <2>5 DEF TpIInv
<1>5. CASE EntryEstop
  <2>1. Entry /\ EstopPacket
    BY <1>5 DEF EntryEstop
  <2>2. IInv' /\ Registered' = Registered /\ priority' = priority
    BY <2>1, EntryIInv, SourcesUnchanged DEF TpIInv
  <2>3. EstopRegistered' /\ TrainsNotExclusive'
    BY <2>1, <2>2 DEF TpIInv, EstopRegistered, TrainsNotExclusive, EstopPacket
  <2>4. PowerTypeOK' /\ BurstCounted'
    BY <1>0, <2>1, EstopPacketCounts
  <2> QED BY <2>2, <2>3, <2>4 DEF TpIInv
<1>6. CASE Others \/ EntryOther
  <2>1. IInv' /\ TrainsNotExclusive' /\ EstopRegistered' /\ UNCHANGED estopVars
    BY <1>6, OthersKeep
  <2>2. PowerTypeOK' /\ BurstCounted'
    BY <1>0, <2>1 DEF PowerTypeOK, BurstCounted, estopVars
  <2> QED BY <2>1, <2>2 DEF TpIInv
<1>7. CASE UNCHANGED tpVars
  <2>1. UNCHANGED upVars /\ UNCHANGED estopVars
    BY <1>7 DEF tpVars
  <2>2. IInv' /\ Registered' = Registered /\ priority' = priority
    BY <2>1, OthersIInv, SourcesUnchanged DEF TpIInv
  <2>3. EstopRegistered' /\ TrainsNotExclusive'
    BY <2>1, <2>2 DEF TpIInv, EstopRegistered, TrainsNotExclusive, estopVars
  <2>4. PowerTypeOK' /\ BurstCounted'
    BY <1>0, <2>1 DEF PowerTypeOK, BurstCounted, estopVars
  <2> QED BY <2>2, <2>3, <2>4 DEF TpIInv
<1> QED
  BY <1>1, <1>2, <1>3, <1>4, <1>5, <1>6, <1>7 DEF TpNext

(* The track power state and the scheduler stay in step, whatever order    *)
(* the events, the packets and the trains come in.                         *)
THEOREM TrackPowerInvariant == TpSpec => []TpIInv
  BY TpInitIInv, TpNextIInv, PTL DEF TpSpec

(* estopSource_ is registered exactly while a bit is engaged, with its     *)
(* priority, and numToNotify_ stays within its field.                      *)
THEOREM EstopInStep == TpSpec => []TpInv
<1>1. TpIInv => TpInv
  BY DEF TpIInv, IInv, TpInv, TpTypeOK
<1> QED
  BY <1>1, TrackPowerInvariant, PTL

-----------------------------------------------------------------------------
(* Every step of the track power is one of the scheduler, or none.         *)
LEMMA SchedulerStep == [TpNext]_tpVars => [Next]_upVars
<1> SUFFICES ASSUME [TpNext]_tpVars PROVE [Next]_upVars
  OBVIOUS
<1>1. CASE PowerOn \/ StopClear
  BY <1>1, PowerSources DEF PowerOn, StopClear, UnregisterSource, Next
<1>2. CASE PowerOff \/ StopEngage
  BY <1>2, PowerSources DEF PowerOff, StopEngage, JoinScheduler, Next
<1>3. CASE EntryEstop \/ EntryOther
  BY <1>3 DEF EntryEstop, EntryOther, Next
<1>4. CASE Others
  BY <1>4, PowerSources DEF Others, Next
<1>5. CASE UNCHANGED tpVars
  BY <1>5 DEF tpVars
<1> QED
  BY <1>1, <1>2, <1>3, <1>4, <1>5 DEF TpNext

(* While power off or the emergency stop is engaged no packet is filled    *)
(* from a train or as idle.                                                *)
THEOREM StoppedTrainsGetNothing == TpSpec => NoTrainPacketWhileStopped
<1> DEFINE Stopped == Filled /\ (isEOff \/ isEStop)
                         => FilledPacket.source \in {Estop, Programming}
<1>1. TpIInv /\ [TpNext]_tpVars => [Stopped]_tpVars
  <2> SUFFICES ASSUME TpIInv, [TpNext]_tpVars, Filled, isEOff \/ isEStop
               PROVE  FilledPacket.source \in {Estop, Programming}
    OBVIOUS
  <2>1. IInv /\ Estop \in Registered /\ priority[Estop] = EstopPriority
    BY DEF TpIInv, EstopRegistered
  <2>2. Entry
    BY <2>1, SchedulerStep, OnlyEntryFills
  <2>3. exclusiveIndex # NoExclusive
    BY <2>1, PowerSources DEF IInv, ExclusiveIsHighest, Exclusive
  <2>4. FilledPacket.source = At(refreshSources, exclusiveIndex)
    BY <2>1, <2>2, <2>3, EntrySender
  <2>5. FilledPacket.source \in Registered /\ priority[FilledPacket.source] >= ExclusiveMin
    BY <2>1, <2>3, <2>4, ExclusiveSource
  <2>6. FilledPacket.source \notin Trains
    BY <2>5, PowerSources DEF TpIInv, TrainsNotExclusive
  <2>7. Registered \subseteq Sources
    BY <2>1 DEF IInv, TypeOK, Registered
  <2> QED BY <2>5, <2>6, <2>7 DEF Trains
<1> QED
  BY <1>1, TrackPowerInvariant, PTL DEF TpSpec, NoTrainPacketWhileStopped

(* The outputs are disabled only when the whole burst of ESTOP packets was *)
(* filled, half of them DCC and half Marklin, after the last power off     *)
(* event (estop_expired, called from get_next_packet).                     *)
THEOREM BurstBeforeOff == TpSpec => OffOnlyAfterBurst
<1> DEFINE Burst == TurnedOff => /\ 2 * burst'.dcc >= NotifyCount
                                 /\ 2 * burst'.mm >= NotifyCount - 1
                                 /\ burst'.dcc + burst'.mm >= NotifyCount
<1>1. TpIInv /\ [TpNext]_tpVars => [Burst]_tpVars
  <2> SUFFICES ASSUME TpIInv, [TpNext]_tpVars, TurnedOff
               PROVE  /\ 2 * burst'.dcc >= NotifyCount
                      /\ 2 * burst'.mm >= NotifyCount - 1
                      /\ burst'.dcc + burst'.mm >= NotifyCount
    OBVIOUS
  <2>1. EstopPacket
    BY DEF TurnedOff, TpNext, tpVars, estopVars, PowerOn, PowerOff, StopClear,
       StopEngage, EntryEstop, EntryOther, Others
  <2> QED BY <2>1, EstopPacketCounts DEF TpIInv
<1> QED
  BY <1>1, TrackPowerInvariant, PTL DEF TpSpec, OffOnlyAfterBurst
=============================================================================
