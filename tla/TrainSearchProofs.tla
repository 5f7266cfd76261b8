-------------------------- MODULE TrainSearchProofs --------------------------
(***************************************************************************)
(* Proofs about the train search server and the nodes it searches, for any *)
(* trains, queries, throttles, edits and number of requests waiting.       *)
(*                                                                         *)
(* EverybodyAnswered follows from Covered: an answer that is owed is owed  *)
(* to a request that is still queued (and, for the merged requests, whose  *)
(* pending bit is still set), or to the one being served, which has not    *)
(* come to that train yet.  A request that is cancelled passes its answers *)
(* on to the one that cancelled it.                                        *)
(*                                                                         *)
(* NodesInStep needs what the loops of load_from_file and update_config    *)
(* compute, which FoldProofs gets from what one turn of them does.  Follow *)
(* says what update_config ends with; allocate_node keeps it.              *)
(***************************************************************************)
EXTENDS TrainSearch, SequenceTheorems, TLAPS

(* An entry that is in the file, or has a train of its own.                *)
EntryType(f) == {e \in [slot : Nat, train : Slot] : e.slot = 0 \/ e.slot \in DOMAIN f}

IdType(n) == [node : Slot, id : 1 .. n]
TrainType(n) == [node : {t \in Slot : Driven(t)}, id : 1 .. n]

DbTyped ==
    /\ file \in Seq(Slot) /\ dirty \in BOOLEAN
    /\ entries \in Seq(EntryType(file))
    /\ trains \in Seq(TrainType(Len(entries)))

-----------------------------------------------------------------------------
(* The loops over the trains.                                              *)
LEMMA DccTyped ==
  ASSUME NEW a \in Addresses \cup {0} PROVE Dcc(a) \in Slot /\ Driven(Dcc(a))
BY DEF Dcc, Driven, Slot, Modes

LEMMA NodeTyped ==
  ASSUME NEW f \in Seq(Slot), NEW e \in EntryType(f) PROVE NodeOf(e, f) \in Slot
BY DEF EntryType, NodeOf

LEMMA SlotTyped ==
  ASSUME NEW f \in Seq(Slot), NEW s \in DOMAIN f
  PROVE  FileEntry(s) \in EntryType(f) /\ NodeOf(FileEntry(s), f) = f[s]
<1>1. s \in Nat /\ s # 0 /\ Dcc(0) \in Slot
  BY DccTyped
<1> QED BY <1>1 DEF FileEntry, EntryType, NodeOf

LEMMA FixedTyped ==
  ASSUME NEW f, NEW t \in Slot PROVE Fixed(t) \in EntryType(f) /\ NodeOf(Fixed(t), f) = t
BY DEF Fixed, EntryType, NodeOf

(* load_from_file.                                                         *)
LoadGood(es) == es \in Seq(EntryType(file)) /\ Len(es) >= Len(entries)

LoadFold == INSTANCE FoldProofs WITH Op <- LoadSlot, Good <- LoadGood

LEMMA LoadSlotKeeps ==
  ASSUME DbTyped, NEW es, LoadGood(es), NEW slot \in DOMAIN file
  PROVE  LoadGood(LoadSlot(es, slot))
<1>1. CASE file[slot].address = 0
  BY <1>1 DEF LoadSlot
<1>2. CASE file[slot].address # 0 /\ FindEntry(file[slot], es, file)
  <2> DEFINE r == [i \in DOMAIN es |->
                     IF NodeOf(es[i], file) = file[slot] THEN FileEntry(slot) ELSE es[i]]
  <2>1. LoadSlot(es, slot) = r
    BY <1>2 DEF LoadSlot
  <2>2. es \in Seq(EntryType(file)) /\ Len(es) >= Len(entries)
    BY DEF LoadGood
  <2>3. FileEntry(slot) \in EntryType(file) /\ NodeOf(FileEntry(slot), file) = file[slot]
    BY <1>2, SlotTyped DEF DbTyped
  <2>4. \A i \in 1 .. Len(es) : r[i] \in EntryType(file) /\ NodeOf(r[i], file) = NodeOf(es[i], file)
    BY <2>2, <2>3
  <2>5. DOMAIN r = 1 .. Len(es)
    BY <2>2
  <2>6. r \in Seq(EntryType(file)) /\ Len(r) = Len(es)
    <3>2. r = [i \in 1 .. Len(es) |-> r[i]]
      BY <2>5
    <3>1. r \in [1 .. Len(es) -> EntryType(file)]
      BY <2>4, <3>2
    <3> HIDE DEF r
    <3> QED BY <2>2, <3>1
  <2> HIDE DEF r
  <2> QED BY <2>1, <2>2, <2>6 DEF LoadGood
<1>3. CASE file[slot].address # 0 /\ ~FindEntry(file[slot], es, file)
  <2> DEFINE r == Append(es, FileEntry(slot))
  <2>1. LoadSlot(es, slot) = r
    BY <1>3 DEF LoadSlot
  <2>2. es \in Seq(EntryType(file)) /\ Len(es) >= Len(entries) /\ Len(es) \in Nat
    BY DEF LoadGood
  <2>3. FileEntry(slot) \in EntryType(file) /\ NodeOf(FileEntry(slot), file) = file[slot]
    BY <1>3, SlotTyped DEF DbTyped
  <2>4. /\ r \in Seq(EntryType(file)) /\ Len(r) = Len(es) + 1 /\ DOMAIN r = 1 .. (Len(es) + 1)
        /\ \A i \in 1 .. Len(es) : r[i] = es[i]
        /\ r[Len(es) + 1] = FileEntry(slot)
    BY <2>2, <2>3
  <2> HIDE DEF r
  <2> QED BY <2>1, <2>2, <2>4 DEF LoadGood
<1> QED BY <1>1, <1>2, <1>3

LEMMA LoadKeeps ==
  ASSUME DbTyped PROVE LoadGood(LoadFromFile(entries))
<1> DEFINE seq == [s \in DOMAIN file |-> s]
<1>1. LoadGood(entries)
  BY DEF DbTyped, LoadGood
<1>2. seq \in Seq(DOMAIN file)
  <2>1. file \in Seq(Slot) /\ Len(file) \in Nat /\ DOMAIN file = 1 .. Len(file)
    BY DEF DbTyped
  <2>2. seq \in [1 .. Len(file) -> DOMAIN file]
    BY <2>1
  <2> HIDE DEF seq
  <2> QED BY <2>1, <2>2
<1>3. \A es, slot : LoadGood(es) /\ slot \in DOMAIN file => LoadGood(LoadSlot(es, slot))
  BY LoadSlotKeeps
<1>4. LoadFromFile(entries) = FoldLeft(LoadSlot, entries, seq)
  BY DEF LoadFromFile
<1> HIDE DEF seq
<1>5. LoadGood(FoldLeft(LoadSlot, entries, seq))
  BY <1>1, <1>2, <1>3, LoadFold!FoldKeeps DEF FoldLeft, MapThenFoldSet, Max,
     LoadFold!FoldLeft, LoadFold!MapThenFoldSet, LoadFold!Max
<1> QED BY <1>4, <1>5

(* update_config, its first loop: in every turn it comes one train closer  *)
(* to the end.                                                             *)
Loaded == LoadFromFile(entries)

AllKnown(ts, es) == \A j \in DOMAIN ts : FindEntry(ts[j].node, es, file)

DeleteGood(x) ==
    LET k == x[1]
        l == x[2]
    IN  /\ l \in [i : Nat \ {0}, ts : Seq(TrainType(Len(Loaded))), es : {Loaded}]
        /\ l.i <= Len(l.ts) + 1
        /\ k + Len(l.ts) + 1 <= Len(trains) + l.i
        /\ \A j \in 1 .. Len(l.ts) : j < l.i => FindEntry(l.ts[j].node, Loaded, file)

DeleteFold == INSTANCE FoldProofs WITH Op <- DeleteTurn, Good <- DeleteGood

LEMMA DeleteTurnKeeps ==
  ASSUME DbTyped, NEW k \in 0 .. Len(trains), k < Len(trains), NEW l, DeleteGood(<<k, l>>), NEW t
  PROVE  DeleteGood(<<k + 1, DeleteTurn(l, t)>>)
<1> DEFINE N == Len(l.ts)
<1>1. /\ l \in [i : Nat \ {0}, ts : Seq(TrainType(Len(Loaded))), es : {Loaded}]
      /\ l.i <= N + 1
      /\ k + N + 1 <= Len(trains) + l.i
      /\ \A j \in 1 .. N : j < l.i => FindEntry(l.ts[j].node, Loaded, file)
  BY DEF DeleteGood
<1>2. /\ N \in Nat /\ l.i \in Nat /\ l.i # 0 /\ k \in Nat /\ Len(trains) \in Nat
      /\ l.ts \in Seq(TrainType(Len(Loaded))) /\ DOMAIN l.ts = 1 .. N /\ l.es = Loaded
  BY <1>1 DEF DbTyped
<1>3. CASE l.i > N
  <2>1. DeleteTurn(l, t) = l
    BY <1>2, <1>3 DEF DeleteTurn
  <2>2. (k + 1) + N + 1 <= Len(trains) + l.i
    BY <1>1, <1>2, <1>3
  <2> QED BY <1>1, <2>1, <2>2 DEF DeleteGood
<1>4. CASE l.i <= N /\ FindEntry(l.ts[l.i].node, Loaded, file)
  <2> DEFINE r == [l EXCEPT !.i = l.i + 1]
  <2>1. DeleteTurn(l, t) = r
    BY <1>2, <1>4 DEF DeleteTurn
  <2>2. /\ r \in [i : Nat \ {0}, ts : Seq(TrainType(Len(Loaded))), es : {Loaded}]
        /\ r.i = l.i + 1 /\ r.ts = l.ts
    BY <1>1, <1>2
  <2> HIDE DEF r
  <2>3. r.i <= Len(r.ts) + 1 /\ (k + 1) + Len(r.ts) + 1 <= Len(trains) + r.i
    BY <1>1, <1>2, <1>4, <2>2
  <2>4. \A j \in 1 .. Len(r.ts) : j < r.i => FindEntry(r.ts[j].node, Loaded, file)
    <3>1. SUFFICES ASSUME NEW j \in 1 .. N, j < l.i + 1 PROVE FindEntry(l.ts[j].node, Loaded, file)
      BY <2>2
    <3>2. j < l.i \/ j = l.i
      BY <1>2, <3>1
    <3> QED BY <1>1, <1>4, <3>2
  <2> QED BY <1>1, <2>1, <2>2, <2>3, <2>4 DEF DeleteGood
<1>5. CASE l.i <= N /\ ~FindEntry(l.ts[l.i].node, Loaded, file)
  <2> DEFINE u == SubSeq([l.ts EXCEPT ![l.i] = Last(l.ts)], 1, N - 1)
             r == [l EXCEPT !.ts = u]
  <2>1. DeleteTurn(l, t) = r
    BY <1>2, <1>5 DEF DeleteTurn
  <2>2. N - 1 \in Nat /\ N \in 1 .. N /\ l.i \in 1 .. N
    BY <1>2, <1>5
  <2>3. /\ u \in Seq(TrainType(Len(Loaded))) /\ Len(u) = N - 1
        /\ \A j \in 1 .. (N - 1) : u[j] = IF j = l.i THEN l.ts[N] ELSE l.ts[j]
    <3> DEFINE v == [l.ts EXCEPT ![l.i] = Last(l.ts)]
    <3>1. v \in Seq(TrainType(Len(Loaded))) /\ Len(v) = N
      BY <1>2, <2>2 DEF Last
    <3>2. \A j \in 1 .. N : v[j] = IF j = l.i THEN l.ts[N] ELSE l.ts[j]
      BY <1>2, <2>2 DEF Last
    <3>3. u = SubSeq(v, 1, N - 1)
      OBVIOUS
    <3> HIDE DEF v, u, N
    <3>4. u \in Seq(TrainType(Len(Loaded))) /\ Len(u) = N - 1 /\ \A j \in 1 .. (N - 1) : u[j] = v[j]
      BY <1>2, <2>2, <3>1, <3>3
    <3> QED BY <1>2, <3>2, <3>4
  <2> HIDE DEF u
  <2>4. /\ r \in [i : Nat \ {0}, ts : Seq(TrainType(Len(Loaded))), es : {Loaded}]
        /\ r.i = l.i /\ r.ts = u
    BY <1>1, <2>3
  <2> HIDE DEF r, N
  <2>5. r.i <= Len(r.ts) + 1 /\ (k + 1) + Len(r.ts) + 1 <= Len(trains) + r.i
    BY <1>1, <1>2, <1>5, <2>3, <2>4
  <2>6. \A j \in 1 .. Len(r.ts) : j < r.i => FindEntry(r.ts[j].node, Loaded, file)
    <3>1. SUFFICES ASSUME NEW j \in 1 .. (N - 1), j < l.i PROVE FindEntry(u[j].node, Loaded, file)
      BY <2>3, <2>4
    <3>2. j \in 1 .. N /\ u[j] = l.ts[j]
      BY <1>2, <2>3, <3>1
    <3> QED BY <1>1, <3>1, <3>2
  <2> QED BY <1>1, <2>1, <2>4, <2>5, <2>6 DEF DeleteGood
<1> QED BY <1>2, <1>3, <1>4, <1>5

LEMMA DeleteKeeps ==
  ASSUME DbTyped
  PROVE  /\ DeleteOld(trains, Loaded) \in Seq(TrainType(Len(Loaded)))
         /\ AllKnown(DeleteOld(trains, Loaded), Loaded)
<1> DEFINE base == [i |-> 1, ts |-> trains, es |-> Loaded]
           l == FoldLeft(DeleteTurn, base, trains)
<1>1. trains \in Seq(TrainType(Len(entries))) /\ Len(trains) \in Nat /\ Len(entries) \in Nat
  BY DEF DbTyped
<1>2. Len(Loaded) \in Nat /\ Len(entries) <= Len(Loaded)
  BY <1>1, LoadKeeps DEF LoadGood, Loaded
<1>3. trains \in Seq(TrainType(Len(Loaded)))
  <2>1. TrainType(Len(entries)) \subseteq TrainType(Len(Loaded))
    BY <1>1, <1>2 DEF TrainType
  <2> QED BY <1>1, <2>1
<1>4. DeleteGood(<<0, base>>)
  <2>1. \A j \in 1 .. Len(trains) : ~(j < 1)
    BY <1>1
  <2> QED BY <1>1, <1>3, <2>1 DEF DeleteGood
<1> HIDE DEF base
<1>5. \A k \in 0 .. Len(trains) : \A s :
         k < Len(trains) /\ DeleteGood(<<k, s>>) => DeleteGood(<<k + 1, DeleteTurn(s, trains[k + 1])>>)
  BY DeleteTurnKeeps
<1>6. DeleteGood(<<Len(trains), l>>)
  BY <1>1, <1>4, <1>5, DeleteFold!FoldCounts DEF FoldLeft, MapThenFoldSet, Max,
     DeleteFold!FoldLeft, DeleteFold!MapThenFoldSet, DeleteFold!Max
<1>7. DeleteOld(trains, Loaded) = l.ts
  BY DEF DeleteOld, base
<1> HIDE DEF l
<1>8. /\ l.ts \in Seq(TrainType(Len(Loaded))) /\ Len(l.ts) \in Nat /\ l.i \in Nat
      /\ Len(trains) + Len(l.ts) + 1 <= Len(trains) + l.i
      /\ \A j \in 1 .. Len(l.ts) : j < l.i => FindEntry(l.ts[j].node, Loaded, file)
  BY <1>6 DEF DeleteGood
<1>9. Len(l.ts) < l.i
  <2> DEFINE n == Len(trains)
             m == Len(l.ts)
             i == l.i
  <2>1. n \in Nat /\ m \in Nat /\ i \in Nat /\ n + m + 1 <= n + i
    BY <1>1, <1>8
  <2> HIDE DEF n, m, i
  <2>2. m < i
    BY ONLY <2>1
  <2> QED BY <2>2 DEF m, i
<1>10. \A j \in 1 .. Len(l.ts) : j < l.i
  BY <1>8, <1>9
<1>11. DOMAIN l.ts = 1 .. Len(l.ts)
  BY <1>8
<1>12. AllKnown(l.ts, Loaded)
  BY <1>8, <1>10, <1>11 DEF AllKnown
<1> QED BY <1>7, <1>8, <1>12

(* Its second loop: after k entries have been handled, those that can be   *)
(* driven have nodes, with the right id where there is one node only.  `b' *)
(* are the trains it starts from.                                          *)
Single(ts, j) == \A i \in DOMAIN ts : ts[i].node = ts[j].node => i = j

CreateGood(es, b, x) ==
    LET k  == x[1]
        ts == x[2]
    IN  /\ ts \in Seq(TrainType(Len(es)))
        /\ AllKnown(b, es) => AllKnown(ts, es)
        /\ \A m \in 1 .. Len(es) : m <= k /\ Driven(NodeOf(es[m], file)) =>
              \E j \in DOMAIN ts : ts[j].node = NodeOf(es[m], file)
        /\ \A m \in 1 .. Len(es) : m <= k =>
              \A j \in DOMAIN ts :
                 NodeOf(es[m], file) = ts[j].node /\ Single(ts, j) =>
                    NodeOf(es[ts[j].id], file) = ts[j].node

ConstNodes == [i \in DOMAIN ConstTrains |-> [node |-> Dcc(ConstTrains[i]), id |-> i]]
UpdateGood(x) == CreateGood(Loaded, DeleteOld(trains, Loaded), x)
StartGood(x) == CreateGood(entries, ConstNodes, x)

UpdateFold == INSTANCE FoldProofs WITH Op <- CreateNew, Good <- UpdateGood
StartFold == INSTANCE FoldProofs WITH Op <- CreateNew, Good <- StartGood

(* The place of the first node that is train a.                            *)
PlaceOf(ts, a) == SelectInSeq(ts, LAMBDA t : t.node = a)

(* find_node finds the node.                                               *)
LEMMA NodeFound ==
  ASSUME NEW n \in Nat, NEW ts \in Seq(TrainType(n)), NEW a,
         \E i \in DOMAIN ts : ts[i].node = a
  PROVE  PlaceOf(ts, a) \in 1 .. Len(ts) /\ ts[PlaceOf(ts, a)].node = a
<1> DEFINE I == {i \in 1 .. Len(ts) : ts[i].node = a}
<1>1. Len(ts) \in Nat /\ DOMAIN ts = 1 .. Len(ts)
  OBVIOUS
<1>2. I \subseteq Nat /\ I # {}
  BY <1>1
<1>3. PICK m \in I : \A i \in I : m <= i
  <2> HIDE DEF I
  <2> QED BY <1>2, LoadFold!Least
<1>4. Min(I) \in I
  <2> HIDE DEF I
  <2> QED BY <1>3 DEF Min
<1>5. PlaceOf(ts, a) = Min(I)
  BY <1>2 DEF PlaceOf, SelectInSeq
<1> HIDE DEF I
<1>6. PlaceOf(ts, a) \in I
  BY <1>4, <1>5
<1> QED BY <1>6 DEF I

LEMMA CreateNewKeeps ==
  ASSUME file \in Seq(Slot),
         NEW es \in Seq(EntryType(file)), NEW b, NEW k \in 0 .. Len(es), k < Len(es),
         NEW ts, CreateGood(es, b, <<k, ts>>)
  PROVE  CreateGood(es, b, <<k + 1, CreateNew(ts, [node |-> NodeOf(es[k + 1], file), id |-> k + 1])>>)
<1> DEFINE N == Len(es)
           e == [node |-> NodeOf(es[k + 1], file), id |-> k + 1]
           a == NodeOf(es[k + 1], file)
           r == CreateNew(ts, e)
<1>1. /\ N \in Nat /\ k \in Nat /\ k + 1 \in 1 .. N /\ DOMAIN es = 1 .. N
      /\ es[k + 1] \in EntryType(file) /\ a \in Slot
  BY NodeTyped
<1>2. /\ e.node = a /\ e.id = k + 1
      /\ Driven(a) => e \in TrainType(N)
  BY <1>1 DEF TrainType
<1>3. /\ ts \in Seq(TrainType(N))
      /\ AllKnown(b, es) => AllKnown(ts, es)
      /\ \A m \in 1 .. N : m <= k /\ Driven(NodeOf(es[m], file)) =>
            \E j \in DOMAIN ts : ts[j].node = NodeOf(es[m], file)
      /\ \A m \in 1 .. N : m <= k =>
            \A j \in DOMAIN ts :
               NodeOf(es[m], file) = ts[j].node /\ Single(ts, j) =>
                  NodeOf(es[ts[j].id], file) = ts[j].node
  BY DEF CreateGood
<1>4. Len(ts) \in Nat /\ DOMAIN ts = 1 .. Len(ts)
  BY <1>3
<1>5. \A m \in 1 .. N : m <= k + 1 => m <= k \/ m = k + 1
  BY <1>1
<1>6. CASE \E i \in DOMAIN ts : ts[i].node = a
  <2> DEFINE p == PlaceOf(ts, a)
  <2>1. p \in 1 .. Len(ts) /\ ts[p].node = a
    <3>1. N \in Nat
      BY <1>1
    <3> HIDE DEF N, p
    <3> QED BY <1>3, <1>6, <3>1, NodeFound DEF p
  <2>2. r = [ts EXCEPT ![p].id = k + 1]
    BY <1>2, <1>6 DEF CreateNew, PlaceOf
  <2> HIDE DEF r, p, e, N
  <2>3. ts[p] \in TrainType(N)
    BY <1>3, <1>4, <2>1
  <2>4. [ts[p] EXCEPT !.id = k + 1] \in TrainType(N) /\ [ts[p] EXCEPT !.id = k + 1].node = a
        /\ [ts[p] EXCEPT !.id = k + 1].id = k + 1
    BY <1>1, <2>1, <2>3 DEF TrainType
  <2>5. /\ r \in Seq(TrainType(N)) /\ Len(r) = Len(ts) /\ DOMAIN r = 1 .. Len(ts)
        /\ r[p] = [ts[p] EXCEPT !.id = k + 1]
        /\ \A j \in 1 .. Len(ts) : j # p => r[j] = ts[j]
    BY <1>3, <1>4, <2>1, <2>2, <2>4
  <2>6. \A j \in 1 .. Len(ts) : r[j].node = ts[j].node
    BY <2>1, <2>4, <2>5
  <2>7. AllKnown(b, es) => AllKnown(r, es)
    BY <1>3, <1>4, <2>5, <2>6 DEF AllKnown
  <2>8. ASSUME NEW m \in 1 .. N, m <= k + 1, Driven(NodeOf(es[m], file))
        PROVE  \E j \in DOMAIN r : r[j].node = NodeOf(es[m], file)
    <3>1. CASE m <= k
      BY <1>3, <1>4, <2>5, <2>6, <2>8, <3>1
    <3>2. CASE m = k + 1
      BY <2>1, <2>5, <2>6, <3>2
    <3> QED BY <1>5, <2>8, <3>1, <3>2
  <2>9. ASSUME NEW m \in 1 .. N, m <= k + 1, NEW j \in DOMAIN r,
               NodeOf(es[m], file) = r[j].node, Single(r, j)
        PROVE  NodeOf(es[r[j].id], file) = r[j].node
    <3>1. CASE j = p
      BY <2>4, <2>5, <3>1
    <3>2. CASE j # p /\ m <= k
      <4>1. j \in DOMAIN ts /\ r[j] = ts[j]
        BY <1>4, <2>5, <2>9, <3>2
      <4>2. Single(ts, j)
        BY <1>4, <2>5, <2>6, <2>9, <4>1 DEF Single
      <4> QED BY <1>3, <2>9, <3>2, <4>1, <4>2
    <3>3. CASE j # p /\ m = k + 1
      <4>1. r[p].node = r[j].node /\ p \in DOMAIN r
        BY <2>1, <2>5, <2>6, <2>9, <3>3
      <4> QED BY <2>9, <3>3, <4>1 DEF Single
    <3> QED BY <1>5, <2>9, <3>1, <3>2, <3>3
  <2>10. CreateGood(es, b, <<k + 1, r>>)
    BY <2>5, <2>7, <2>8, <2>9 DEF CreateGood, N
  <2> QED BY <2>10 DEF r, e
<1>7. CASE Driven(a) /\ ~\E i \in DOMAIN ts : ts[i].node = a
  <2>1. r = Append(ts, e)
    BY <1>2, <1>7 DEF CreateNew, CreateImpl
  <2> HIDE DEF r, e, N
  <2>2. /\ r \in Seq(TrainType(N)) /\ Len(r) = Len(ts) + 1 /\ DOMAIN r = 1 .. (Len(ts) + 1)
        /\ r[Len(ts) + 1] = e /\ \A j \in 1 .. Len(ts) : r[j] = ts[j]
    BY <1>2, <1>3, <1>4, <1>7, <2>1
  <2>3. \A j \in 1 .. (Len(ts) + 1) : j \in 1 .. Len(ts) \/ j = Len(ts) + 1
    BY <1>4
  <2>4. \A j \in 1 .. Len(ts) : ts[j].node # a /\ j \in DOMAIN r
    BY <1>4, <1>7, <2>2
  <2>6. AllKnown(b, es) => AllKnown(r, es)
    <3>1. FindEntry(a, es, file)
      BY <1>1 DEF FindEntry
    <3> QED BY <1>2, <1>3, <1>4, <2>2, <2>3, <3>1 DEF AllKnown
  <2>7. ASSUME NEW m \in 1 .. N, m <= k + 1, Driven(NodeOf(es[m], file))
        PROVE  \E j \in DOMAIN r : r[j].node = NodeOf(es[m], file)
    <3>1. CASE m <= k
      <4>1. PICK j \in 1 .. Len(ts) : ts[j].node = NodeOf(es[m], file)
        BY <1>3, <1>4, <2>7, <3>1
      <4>2. j \in DOMAIN r /\ r[j] = ts[j]
        BY <1>4, <2>2
      <4> QED BY <4>1, <4>2
    <3>2. CASE m = k + 1
      <4>1. Len(ts) + 1 \in DOMAIN r
        BY <1>4, <2>2
      <4> QED BY <1>2, <2>2, <3>2, <4>1
    <3> QED BY <1>5, <2>7, <3>1, <3>2
  <2>8. ASSUME NEW m \in 1 .. N, m <= k + 1, NEW j \in DOMAIN r,
               NodeOf(es[m], file) = r[j].node, Single(r, j)
        PROVE  NodeOf(es[r[j].id], file) = r[j].node
    <3>1. CASE j = Len(ts) + 1
      <4>1. r[j] = e
        BY <2>2, <3>1
      <4>2. r[j].node = a /\ r[j].id = k + 1
        BY <1>2, <4>1
      <4> QED BY <4>2
    <3>2. CASE j \in 1 .. Len(ts) /\ m <= k
      <4>1. r[j] = ts[j] /\ j \in DOMAIN ts
        BY <1>4, <2>2, <3>2
      <4>2. Single(ts, j)
        BY <1>4, <2>2, <2>4, <2>8, <4>1 DEF Single
      <4> QED BY <1>3, <2>8, <3>2, <4>1, <4>2
    <3>3. CASE j \in 1 .. Len(ts) /\ m = k + 1
      BY <2>2, <2>4, <2>8, <3>3
    <3> QED BY <1>5, <2>2, <2>3, <2>8, <3>1, <3>2, <3>3
  <2>9. CreateGood(es, b, <<k + 1, r>>)
    BY <2>2, <2>6, <2>7, <2>8 DEF CreateGood, N
  <2> QED BY <2>9 DEF r, e
<1>8. CASE ~Driven(a) /\ ~\E i \in DOMAIN ts : ts[i].node = a
  <2>1. r = ts
    BY <1>2, <1>8 DEF CreateNew, CreateImpl
  <2>2. \A m \in 1 .. N : m <= k + 1 /\ Driven(NodeOf(es[m], file)) =>
            \E j \in DOMAIN ts : ts[j].node = NodeOf(es[m], file)
    BY <1>3, <1>5, <1>8
  <2>3. \A m \in 1 .. N : m <= k + 1 =>
            \A j \in DOMAIN ts :
               NodeOf(es[m], file) = ts[j].node /\ Single(ts, j) =>
                  NodeOf(es[ts[j].id], file) = ts[j].node
    BY <1>3, <1>5, <1>8
  <2> HIDE DEF r, e, N
  <2>4. CreateGood(es, b, <<k + 1, ts>>)
    BY <1>3, <2>2, <2>3 DEF CreateGood, N
  <2> QED BY <2>1, <2>4 DEF r, e
<1> QED BY <1>6, <1>7, <1>8

(* What the loop ends with: the nodes are those of the entries that can be *)
(* driven, and one that is there once has the id of its own entry.         *)
Follow(ts, es) ==
    /\ AllKnown(ts, es)
    /\ \A m \in DOMAIN es : Driven(NodeOf(es[m], file)) =>
          \E j \in DOMAIN ts : ts[j].node = NodeOf(es[m], file)
    /\ \A j \in DOMAIN ts : Single(ts, j) => NodeOf(es[ts[j].id], file) = ts[j].node

LEMMA CreateDone ==
  ASSUME NEW es \in Seq(EntryType(file)), NEW b, NEW ts, CreateGood(es, b, <<Len(es), ts>>),
         AllKnown(b, es)
  PROVE  ts \in Seq(TrainType(Len(es))) /\ Follow(ts, es)
<1>1. Len(es) \in Nat /\ DOMAIN es = 1 .. Len(es) /\ \A m \in 1 .. Len(es) : m <= Len(es)
  OBVIOUS
<1>2. ts \in Seq(TrainType(Len(es))) /\ AllKnown(ts, es)
  BY DEF CreateGood
<1>3. /\ \A m \in 1 .. Len(es) : Driven(NodeOf(es[m], file)) =>
            \E j \in DOMAIN ts : ts[j].node = NodeOf(es[m], file)
      /\ \A m \in 1 .. Len(es) :
            \A j \in DOMAIN ts :
               NodeOf(es[m], file) = ts[j].node /\ Single(ts, j) =>
                  NodeOf(es[ts[j].id], file) = ts[j].node
  BY <1>1 DEF CreateGood
<1>4. ASSUME NEW j \in DOMAIN ts, Single(ts, j)
      PROVE  NodeOf(es[ts[j].id], file) = ts[j].node
  <2>1. PICK m \in 1 .. Len(es) : NodeOf(es[m], file) = ts[j].node
    BY <1>1, <1>2, <1>4 DEF AllKnown, FindEntry
  <2> QED BY <1>3, <1>4, <2>1
<1> QED BY <1>1, <1>2, <1>3, <1>4 DEF Follow

(* update_config as a whole.                                               *)
LEMMA IdsTyped ==
  ASSUME file \in Seq(Slot), NEW es \in Seq(EntryType(file))
  PROVE  [i \in DOMAIN es |-> [node |-> NodeOf(es[i], file), id |-> i]] \in Seq(IdType(Len(es)))
<1> DEFINE q == [i \in DOMAIN es |-> [node |-> NodeOf(es[i], file), id |-> i]]
<1>1. Len(es) \in Nat /\ DOMAIN es = 1 .. Len(es)
  OBVIOUS
<1>2. \A i \in 1 .. Len(es) : q[i] \in IdType(Len(es))
  BY <1>1, NodeTyped DEF IdType
<1>3. q = [i \in 1 .. Len(es) |-> q[i]]
  BY <1>1
<1>4. q \in [1 .. Len(es) -> IdType(Len(es))]
  BY <1>2, <1>3
<1> HIDE DEF q
<1>5. q \in Seq(IdType(Len(es)))
  BY <1>1, <1>4
<1> QED BY <1>5 DEF q

LEMMA UpdateKeeps ==
  ASSUME DbTyped
  PROVE  /\ UpdateConfig(Loaded) \in Seq(TrainType(Len(Loaded)))
         /\ Follow(UpdateConfig(Loaded), Loaded)
<1> DEFINE b == DeleteOld(trains, Loaded)
           q == [i \in DOMAIN Loaded |-> [node |-> NodeOf(Loaded[i], file), id |-> i]]
<1>1. /\ Loaded \in Seq(EntryType(file)) /\ Len(Loaded) \in Nat /\ DOMAIN Loaded = 1 .. Len(Loaded)
      /\ file \in Seq(Slot)
  BY LoadKeeps DEF LoadGood, Loaded, DbTyped
<1>2. b \in Seq(TrainType(Len(Loaded))) /\ AllKnown(b, Loaded)
  BY DeleteKeeps
<1>3. q \in Seq(IdType(Len(Loaded))) /\ Len(q) = Len(Loaded)
  <2>1. q \in Seq(IdType(Len(Loaded)))
    BY <1>1, IdsTyped
  <2>2. DOMAIN q = 1 .. Len(Loaded)
    BY <1>1
  <2> HIDE DEF q
  <2> QED BY <1>1, <2>1, <2>2
<1>4. \A k \in 0 .. Len(q) : k < Len(q) =>
         q[k + 1] = [node |-> NodeOf(Loaded[k + 1], file), id |-> k + 1]
  <2>1. \A k \in 0 .. Len(Loaded) : k < Len(Loaded) => k + 1 \in DOMAIN Loaded
    BY <1>1
  <2> QED BY <1>3, <2>1
<1>5. UpdateConfig(Loaded) = FoldLeft(CreateNew, b, q)
  BY DEF UpdateConfig, CreateAll
<1> HIDE DEF q, b
<1>6. UpdateGood(<<0, b>>)
  <2>1. \A m \in 1 .. Len(Loaded) : ~(m <= 0)
    BY <1>1
  <2> QED BY <1>2, <2>1 DEF UpdateGood, CreateGood, b
<1>7. \A k \in 0 .. Len(q) : \A s :
         k < Len(q) /\ UpdateGood(<<k, s>>) => UpdateGood(<<k + 1, CreateNew(s, q[k + 1])>>)
  BY <1>1, <1>3, <1>4, CreateNewKeeps DEF UpdateGood
<1>8. UpdateGood(<<Len(q), FoldLeft(CreateNew, b, q)>>)
  BY <1>3, <1>6, <1>7, UpdateFold!FoldCounts DEF FoldLeft, MapThenFoldSet, Max,
     UpdateFold!FoldLeft, UpdateFold!MapThenFoldSet, UpdateFold!Max
<1>9. CreateGood(Loaded, b, <<Len(Loaded), UpdateConfig(Loaded)>>)
  BY <1>3, <1>5, <1>8 DEF UpdateGood, b
<1> QED BY <1>1, <1>2, <1>9, CreateDone

-----------------------------------------------------------------------------
(* The trains at start.                                                    *)
ConstEntries == [i \in DOMAIN ConstTrains |-> Fixed(Dcc(ConstTrains[i]))]

FirstGood(es) ==
    /\ es \in Seq(EntryType(FileTrains)) /\ Len(es) >= Len(ConstTrains)
    /\ \A i \in 1 .. Len(ConstTrains) : es[i] = Fixed(Dcc(ConstTrains[i]))

FirstFold == INSTANCE FoldProofs WITH Op <- LoadFirst, Good <- FirstGood

LEMMA ConstEntriesGood == FirstGood(ConstEntries)
<1> DEFINE C == Len(ConstTrains)
<1>1. ConstTrains \in Seq(Addresses) /\ C \in Nat /\ DOMAIN ConstTrains = 1 .. C
  BY TrainNodesAssumption
<1>2. \A i \in 1 .. C : ConstTrains[i] \in Addresses /\ Dcc(ConstTrains[i]) \in Slot
  BY <1>1, DccTyped
<1>3. \A i \in 1 .. C : /\ ConstEntries[i] = Fixed(Dcc(ConstTrains[i]))
                        /\ ConstEntries[i] \in EntryType(FileTrains)
  BY <1>1, <1>2, FixedTyped DEF ConstEntries
<1>4. ConstEntries \in Seq(EntryType(FileTrains)) /\ Len(ConstEntries) = C
  <2>1. ConstEntries = [i \in 1 .. C |-> ConstEntries[i]]
    BY <1>1 DEF ConstEntries
  <2>2. ConstEntries \in [1 .. C -> EntryType(FileTrains)]
    BY <1>3, <2>1
  <2> QED BY <1>1, <2>2
<1> QED BY <1>1, <1>3, <1>4 DEF FirstGood

LEMMA LoadFirstKeeps ==
  ASSUME NEW es, FirstGood(es), NEW slot \in DOMAIN FileTrains
  PROVE  FirstGood(LoadFirst(es, slot))
<1> DEFINE C == Len(ConstTrains)
           r == Append(es, FileEntry(slot))
<1>1. C \in Nat /\ FileTrains \in Seq(Slot)
  BY TrainNodesAssumption
<1>2. /\ es \in Seq(EntryType(FileTrains)) /\ Len(es) >= C /\ Len(es) \in Nat
      /\ \A i \in 1 .. C : es[i] = Fixed(Dcc(ConstTrains[i]))
  BY DEF FirstGood
<1>3. LoadFirst(es, slot) = es \/ LoadFirst(es, slot) = r
  BY DEF LoadFirst
<1>4. FileEntry(slot) \in EntryType(FileTrains)
  BY <1>1, SlotTyped
<1>5. /\ r \in Seq(EntryType(FileTrains)) /\ Len(r) = Len(es) + 1
      /\ \A i \in 1 .. Len(es) : r[i] = es[i]
  BY <1>2, <1>4
<1> HIDE DEF r
<1>6. /\ Len(r) >= C
      /\ \A i \in 1 .. C : r[i] = Fixed(Dcc(ConstTrains[i]))
  <2>1. \A i \in 1 .. C : i \in 1 .. Len(es)
    BY <1>1, <1>2
  <2> QED BY <1>1, <1>2, <1>5, <2>1
<1>7. FirstGood(r)
  BY <1>5, <1>6 DEF FirstGood
<1> QED BY <1>3, <1>7

LEMMA StartKeeps ==
  ASSUME TrainNodesInit
  PROVE  DbTyped /\ ~dirty /\ Follow(trains, entries)
<1> DEFINE slots == [s \in DOMAIN FileTrains |-> s]
           C == Len(ConstTrains)
           q == [i \in DOMAIN entries |-> [node |-> NodeOf(entries[i], file), id |-> i]]
<1>1. /\ ConstTrains \in Seq(Addresses) /\ C \in Nat /\ DOMAIN ConstTrains = 1 .. C
      /\ FileTrains \in Seq(Slot) /\ Len(FileTrains) \in Nat
      /\ DOMAIN FileTrains = 1 .. Len(FileTrains)
      /\ file = FileTrains /\ dirty = FALSE
  BY TrainNodesAssumption DEF TrainNodesInit
<1>2. slots \in Seq(DOMAIN FileTrains)
  <2>1. slots \in [1 .. Len(FileTrains) -> DOMAIN FileTrains]
    BY <1>1
  <2> HIDE DEF slots
  <2> QED BY <1>1, <2>1
<1>3. entries = FoldLeft(LoadFirst, ConstEntries, slots)
  BY DEF TrainNodesInit, ConstEntries
<1> HIDE DEF slots
<1>4. \A es, slot : FirstGood(es) /\ slot \in DOMAIN FileTrains => FirstGood(LoadFirst(es, slot))
  BY LoadFirstKeeps
<1>5. FirstGood(FoldLeft(LoadFirst, ConstEntries, slots))
  BY <1>2, <1>4, ConstEntriesGood, FirstFold!FoldKeeps DEF FoldLeft, MapThenFoldSet, Max,
     FirstFold!FoldLeft, FirstFold!MapThenFoldSet, FirstFold!Max
<1>6. /\ entries \in Seq(EntryType(file)) /\ Len(entries) >= C
      /\ \A i \in 1 .. C : entries[i] = Fixed(Dcc(ConstTrains[i]))
  BY <1>1, <1>3, <1>5 DEF FirstGood
<1>7. Len(entries) \in Nat /\ DOMAIN entries = 1 .. Len(entries)
  BY <1>6
<1>8. /\ ConstNodes \in Seq(TrainType(Len(entries))) /\ DOMAIN ConstNodes = 1 .. C
      /\ \A i \in 1 .. C : ConstNodes[i].node = Dcc(ConstTrains[i])
  <2>1. \A i \in 1 .. C : /\ i \in 1 .. Len(entries) /\ ConstTrains[i] \in Addresses
                          /\ Dcc(ConstTrains[i]) \in Slot /\ Driven(Dcc(ConstTrains[i]))
    BY <1>1, <1>6, <1>7, DccTyped
  <2>2. ConstNodes = [i \in 1 .. C |-> [node |-> Dcc(ConstTrains[i]), id |-> i]]
    BY <1>1 DEF ConstNodes
  <2>3. ConstNodes \in [1 .. C -> TrainType(Len(entries))]
    BY <2>1, <2>2 DEF TrainType
  <2> QED BY <1>1, <2>2, <2>3
<1>10. AllKnown(ConstNodes, entries)
  <2>1. \A i \in 1 .. C : i \in DOMAIN entries /\ NodeOf(entries[i], file) = Dcc(ConstTrains[i])
    <3>1. SUFFICES ASSUME NEW i \in 1 .. C
                   PROVE  i \in DOMAIN entries /\ NodeOf(entries[i], file) = Dcc(ConstTrains[i])
      OBVIOUS
    <3>2. /\ ConstTrains[i] \in Addresses /\ entries[i] = Fixed(Dcc(ConstTrains[i]))
          /\ i \in 1 .. Len(entries) /\ Dcc(ConstTrains[i]) \in Slot
      BY <1>1, <1>6, <1>7, DccTyped
    <3> QED BY <1>7, <3>2, FixedTyped
  <2> QED BY <1>8, <2>1 DEF AllKnown, FindEntry
<1>11. q \in Seq(IdType(Len(entries))) /\ Len(q) = Len(entries)
  <2>1. q \in Seq(IdType(Len(entries)))
    BY <1>1, <1>6, IdsTyped
  <2>2. DOMAIN q = 1 .. Len(entries)
    BY <1>7
  <2> HIDE DEF q
  <2> QED BY <1>7, <2>1, <2>2
<1>12. \A k \in 0 .. Len(q) : k < Len(q) =>
         q[k + 1] = [node |-> NodeOf(entries[k + 1], file), id |-> k + 1]
  <2>1. \A k \in 0 .. Len(entries) : k < Len(entries) => k + 1 \in DOMAIN entries
    BY <1>7
  <2> QED BY <1>11, <2>1
<1>13. trains = FoldLeft(CreateNew, ConstNodes, q)
  BY DEF TrainNodesInit, CreateAll, ConstNodes
<1> HIDE DEF q
<1>14. StartGood(<<0, ConstNodes>>)
  <2>1. \A m \in 1 .. Len(entries) : ~(m <= 0)
    BY <1>7
  <2> QED BY <1>8, <1>10, <2>1 DEF StartGood, CreateGood
<1>15. \A k \in 0 .. Len(q) : \A s :
         k < Len(q) /\ StartGood(<<k, s>>) => StartGood(<<k + 1, CreateNew(s, q[k + 1])>>)
  BY <1>1, <1>6, <1>11, <1>12, CreateNewKeeps DEF StartGood
<1>16. StartGood(<<Len(q), FoldLeft(CreateNew, ConstNodes, q)>>)
  BY <1>11, <1>14, <1>15, StartFold!FoldCounts DEF FoldLeft, MapThenFoldSet, Max,
     StartFold!FoldLeft, StartFold!MapThenFoldSet, StartFold!Max
<1>17. CreateGood(entries, ConstNodes, <<Len(entries), trains>>)
  BY <1>11, <1>13, <1>16 DEF StartGood
<1>18. trains \in Seq(TrainType(Len(entries))) /\ Follow(trains, entries)
  BY <1>6, <1>10, <1>17, CreateDone
<1> QED BY <1>1, <1>6, <1>18 DEF DbTyped

-----------------------------------------------------------------------------
(* Nobody is forgotten.                                                    *)
Events == Queries \cup {Global, IsTrain}
Requests == [event : Events, src : Throttles]

FlowTyped ==
    /\ searchQueue \in Seq(Requests)
    /\ search \in [state : {"idle", "iterate", "respond", "new_node"},
                   message : Requests \cup {NoRequest}, next : Nat \ {0},
                   matches : BOOLEAN, cancel : BOOLEAN]
    /\ search.state # "idle" => search.message \in Requests
    /\ pending \subseteq {"global", "is_train"}
    /\ owed \subseteq Events \X Slot

(* A pending bit stands for a request in the queue.                        *)
Queued(e) == \E i \in DOMAIN searchQueue : searchQueue[i].event = e

PendingQueued ==
    /\ "global" \in pending => Queued(Global)
    /\ "is_train" \in pending => Queued(IsTrain)

(* Node `a' is one that event `e' asks for.                                *)
HasNode(a) == \E i \in DOMAIN trains : trains[i].node = a

MayAnswer(e, a) ==
    IF IsGlobal(e) THEN HasNode(a)
    ELSE Aligned /\ Match(e, a) /\ (HasNode(a) \/ (e.allocate /\ a = Dcc(e.digits)))

(* The event's turn is still to come, or it is being served and node `a'   *)
(* has not been reached.                                                   *)
Coming(e) == Queued(e) /\ (IsGlobal(e) => e.kind \in pending)

Served(e, a) ==
    /\ search.state # "idle" /\ Event = e /\ ~search.cancel
    /\ \/ /\ search.state \in {"iterate", "respond"}
          /\ \E i \in DOMAIN trains : i >= search.next /\ trains[i].node = a
       \/ e.allocate /\ a = Dcc(e.digits) /\ (search.state = "new_node" \/ ~search.matches)

Covered == \A o \in owed : MayAnswer(o[1], o[2]) /\ (Coming(o[1]) \/ Served(o[1], o[2]))

AnswerInv == DbTyped /\ FlowTyped /\ PendingQueued /\ Covered

LEMMA EventFacts ==
  /\ Global.kind = "global" /\ IsTrain.kind = "is_train" /\ NoRequest.event.kind = "none"
  /\ NoRequest.event \notin Events /\ Global \in Events /\ IsTrain \in Events
  /\ \A e \in Events :
       /\ e.kind \in {"find", "global", "is_train"} /\ e.digits \in Nat
       /\ e.exact \in BOOLEAN /\ e.allocate \in BOOLEAN
       /\ e.allocate => ~IsGlobal(e) /\ e.exact /\ e.digits \in Addresses
       /\ e.kind = "global" => e = Global
       /\ e.kind = "is_train" => e = IsTrain
       /\ e \in Queries => ~IsGlobal(e)
<1>1. /\ Global.kind = "global" /\ IsTrain.kind = "is_train" /\ NoRequest.event.kind = "none"
      /\ ~Global.allocate /\ ~IsTrain.allocate
  BY DEF Global, IsTrain, NoRequest
<1>2. /\ Global \in [kind : {"global"}, digits : Nat, exact : BOOLEAN, allocate : BOOLEAN]
      /\ IsTrain \in [kind : {"is_train"}, digits : Nat, exact : BOOLEAN, allocate : BOOLEAN]
  BY DEF Global, IsTrain
<1>3. \A q \in Queries : /\ q \in [kind : {"find"}, digits : Nat, exact : BOOLEAN, allocate : BOOLEAN]
                         /\ q.allocate => q.exact /\ q.digits \in Addresses
  BY TrainSearchAssumption
<1>4. \A e \in Events : e \in Queries \/ e = Global \/ e = IsTrain
  BY DEF Events
<1> HIDE DEF Global, IsTrain, NoRequest
<1>5. \A q \in Queries : q.kind = "find" /\ q.digits \in Nat /\ q.exact \in BOOLEAN /\ q.allocate \in BOOLEAN
  BY <1>3
<1>6. /\ Global.digits \in Nat /\ Global.exact \in BOOLEAN /\ Global.allocate \in BOOLEAN
      /\ IsTrain.digits \in Nat /\ IsTrain.exact \in BOOLEAN /\ IsTrain.allocate \in BOOLEAN
  BY <1>2
<1>7. NoRequest.event \notin Events
  BY <1>1, <1>4, <1>5
<1>8. ASSUME NEW e \in Events
      PROVE  /\ e.kind \in {"find", "global", "is_train"} /\ e.digits \in Nat
             /\ e.exact \in BOOLEAN /\ e.allocate \in BOOLEAN
             /\ e.allocate => ~IsGlobal(e) /\ e.exact /\ e.digits \in Addresses
             /\ e.kind = "global" => e = Global
             /\ e.kind = "is_train" => e = IsTrain
             /\ e \in Queries => ~IsGlobal(e)
  BY <1>1, <1>3, <1>4, <1>5, <1>6, <1>8 DEF IsGlobal
<1> QED BY <1>1, <1>7, <1>8 DEF Events

(* Only the two merged events have pending bits, each its own.             *)
LEMMA BitsApart ==
  ASSUME NEW e \in Events, NEW f \in Events, IsGlobal(e), e # f PROVE e.kind # f.kind
BY EventFacts DEF IsGlobal

LEMMA ExactMatch ==
  ASSUME NEW e \in Events, NEW t \in Slot, e.exact, e.allocate
  PROVE  Match(e, t) <=> t = Dcc(e.digits)
<1>1. Match(e, t) <=> Driven(t) /\ e.digits = t.address
  BY Zenon DEF Match
<1>2. t = [address |-> t.address, mode |-> t.mode] /\ t.mode \in {"unused", "dcc"}
  BY DEF Slot, Modes
<1> QED BY <1>1, <1>2 DEF Driven, Dcc

LEMMA AnswersSame ==
  ASSUME UNCHANGED trainNodesVars
  PROVE  /\ DbTyped <=> DbTyped'
         /\ \A e, a : MayAnswer(e, a) <=> MayAnswer(e, a)'
<1>1. file' = file /\ entries' = entries /\ trains' = trains /\ dirty' = dirty
  BY DEF trainNodesVars
<1> QED BY <1>1 DEF DbTyped, MayAnswer, HasNode, Aligned, OneIndex

(* entry()                                                                 *)
LEMMA EntryAnswers == AnswerInv /\ SearchEntry => AnswerInv'
<1> SUFFICES ASSUME AnswerInv, SearchEntry PROVE AnswerInv'
  OBVIOUS
<1> DEFINE h == Head(searchQueue)
           drop == IsGlobal(h.event) /\ h.event.kind \notin pending
<1>1. /\ search.state = "idle" /\ searchQueue # <<>> /\ searchQueue' = Tail(searchQueue)
      /\ UNCHANGED trainNodesVars /\ trains' = trains /\ owed' = owed
      /\ drop => search' = search /\ pending' = pending
      /\ ~drop => /\ pending' = pending \ {h.event.kind}
                  /\ search' = [Idle EXCEPT !.state = "iterate", !.message = h]
  BY DEF SearchEntry, trainNodesVars
<1>2. /\ DbTyped /\ PendingQueued /\ Covered /\ searchQueue \in Seq(Requests)
      /\ pending \subseteq {"global", "is_train"} /\ owed \subseteq Events \X Slot
  BY DEF AnswerInv, FlowTyped
<1>3. /\ h \in Requests /\ h.event \in Events /\ h = searchQueue[1] /\ searchQueue' \in Seq(Requests)
      /\ \A i \in DOMAIN searchQueue : i # 1 => i - 1 \in DOMAIN searchQueue' /\ searchQueue'[i - 1] = searchQueue[i]
  <2>1. Len(searchQueue) \in Nat /\ Len(searchQueue) # 0 /\ DOMAIN searchQueue = 1 .. Len(searchQueue)
    BY <1>1, <1>2
  <2>2. h = searchQueue[1] /\ h \in Requests
    BY <1>2, <2>1
  <2>3. searchQueue' \in Seq(Requests) /\ Len(searchQueue') = Len(searchQueue) - 1
    BY <1>1, <1>2, <2>1
  <2>4. \A j \in 1 .. (Len(searchQueue) - 1) : searchQueue'[j] = searchQueue[j + 1]
    BY <1>1, <1>2, <2>1
  <2>5. ASSUME NEW i \in 1 .. Len(searchQueue), i # 1
        PROVE  i - 1 \in DOMAIN searchQueue' /\ searchQueue'[i - 1] = searchQueue[i]
    <3>1. i - 1 \in 1 .. (Len(searchQueue) - 1) /\ (i - 1) + 1 = i
      BY <2>1, <2>5
    <3> QED BY <2>3, <2>4, <3>1
  <2>6. h.event \in Events
    BY <2>2 DEF Requests
  <2> QED BY <2>1, <2>2, <2>3, <2>5, <2>6
<1> HIDE DEF h
<1>4. \A e : Queued(e) /\ e # h.event => Queued(e)'
  BY <1>3 DEF Queued
<1>5. FlowTyped'
  <2>1. CASE drop
    BY <1>1, <1>2, <1>3, <2>1 DEF AnswerInv, FlowTyped
  <2>2. CASE ~drop
    <3>1. search' = [state |-> "iterate", message |-> h, next |-> 1, matches |-> FALSE, cancel |-> FALSE]
      BY <1>1, <2>2 DEF Idle
    <3> QED BY <1>1, <1>2, <1>3, <2>2, <3>1 DEF AnswerInv, FlowTyped
  <2> QED BY <2>1, <2>2
<1>6. PendingQueued'
  <2>1. "global" \in pending' => "global" \in pending /\ h.event # Global
    BY <1>1, EventFacts DEF IsGlobal
  <2>2. "is_train" \in pending' => "is_train" \in pending /\ h.event # IsTrain
    BY <1>1, EventFacts DEF IsGlobal
  <2> QED BY <1>2, <1>4, <2>1, <2>2 DEF PendingQueued
<1>7. ASSUME NEW o \in owed' PROVE MayAnswer(o[1], o[2])' /\ (Coming(o[1])' \/ Served(o[1], o[2])')
  <2>1. o \in owed /\ o[1] \in Events /\ MayAnswer(o[1], o[2]) /\ MayAnswer(o[1], o[2])'
    BY <1>1, <1>2, <1>7, AnswersSame DEF Covered
  <2>2. Coming(o[1])
    BY <1>1, <1>2, <2>1 DEF Covered, Served
  <2>3. CASE o[1] # h.event
    <3>1. Queued(o[1])'
      BY <1>4, <2>2, <2>3 DEF Coming
    <3>2. IsGlobal(o[1]) => o[1].kind \in pending'
      BY <1>1, <1>3, <2>1, <2>2, <2>3, BitsApart DEF Coming
    <3> QED BY <2>1, <3>1, <3>2 DEF Coming
  <2>4. CASE o[1] = h.event
    <3>1. ~drop
      BY <2>2, <2>4 DEF Coming
    <3>2. search' = [state |-> "iterate", message |-> h, next |-> 1, matches |-> FALSE, cancel |-> FALSE]
      BY <1>1, <3>1 DEF Idle
    <3>3. HasNode(o[2]) \/ (o[1].allocate /\ o[2] = Dcc(o[1].digits))
      BY <2>1 DEF MayAnswer
    <3>4. /\ search'.state = "iterate" /\ search'.message = h /\ search'.next = 1
          /\ ~search'.matches /\ ~search'.cancel /\ Event' = o[1]
      BY <2>4, <3>2 DEF Event
    <3>5. \A i \in DOMAIN trains : i >= 1
      BY <1>2 DEF DbTyped
    <3>6. Served(o[1], o[2])'
      BY <1>1, <3>3, <3>4, <3>5 DEF Served, HasNode
    <3> QED BY <2>1, <3>6
  <2> QED BY <2>3, <2>4
<1> QED BY <1>1, <1>2, <1>5, <1>6, <1>7, AnswersSame DEF AnswerInv, Covered

(* allocate_node                                                           *)
LEMMA AllocateKeeps ==
  ASSUME DbTyped, NEW a \in Addresses, AllocateNode(a)
  PROVE  /\ DbTyped'
         /\ file' = file /\ dirty' = dirty
         /\ Len(entries') = Len(entries) + 1 /\ Len(trains') = Len(trains) + 1
         /\ \A i \in 1 .. Len(entries) : entries'[i] = entries[i]
         /\ \A i \in 1 .. Len(trains) : trains'[i] = trains[i]
         /\ NodeOf(entries'[Len(entries) + 1], file) = Dcc(a)
         /\ trains'[Len(trains) + 1] = [node |-> Dcc(a), id |-> Len(entries) + 1]
<1>1. /\ entries' = Append(entries, Fixed(Dcc(a))) /\ file' = file /\ dirty' = dirty
      /\ trains' = Append(trains, [node |-> Dcc(a), id |-> Len(entries) + 1])
  BY DccTyped DEF AllocateNode, CreateImpl
<1>2. /\ entries \in Seq(EntryType(file)) /\ Len(entries) \in Nat
      /\ trains \in Seq(TrainType(Len(entries))) /\ Len(trains) \in Nat
      /\ file \in Seq(Slot) /\ dirty \in BOOLEAN
  BY DEF DbTyped
<1>3. Fixed(Dcc(a)) \in EntryType(file) /\ NodeOf(Fixed(Dcc(a)), file) = Dcc(a)
  BY DccTyped, FixedTyped
<1>4. /\ entries' \in Seq(EntryType(file)) /\ Len(entries') = Len(entries) + 1
      /\ \A i \in 1 .. Len(entries) : entries'[i] = entries[i]
      /\ entries'[Len(entries) + 1] = Fixed(Dcc(a))
  BY <1>1, <1>2, <1>3
<1> DEFINE n == [node |-> Dcc(a), id |-> Len(entries) + 1]
<1>5. /\ TrainType(Len(entries)) \subseteq TrainType(Len(entries) + 1)
      /\ n \in TrainType(Len(entries) + 1)
  BY <1>2, DccTyped DEF TrainType
<1> HIDE DEF n
<1>6. trains \in Seq(TrainType(Len(entries) + 1)) /\ trains' = Append(trains, n)
  BY <1>1, <1>2, <1>5 DEF n
<1>7. /\ trains' \in Seq(TrainType(Len(entries) + 1)) /\ Len(trains') = Len(trains) + 1
      /\ \A i \in 1 .. Len(trains) : trains'[i] = trains[i]
      /\ trains'[Len(trains) + 1] = n
  BY <1>2, <1>5, <1>6
<1> QED BY <1>1, <1>2, <1>3, <1>4, <1>7 DEF DbTyped, n

LEMMA AllocateAnswers ==
  ASSUME DbTyped, NEW d \in Addresses, AllocateNode(d), NEW e, NEW a, MayAnswer(e, a)
  PROVE  MayAnswer(e, a)'
<1>1. /\ file' = file /\ dirty' = dirty
      /\ Len(entries') = Len(entries) + 1 /\ Len(trains') = Len(trains) + 1
      /\ \A i \in 1 .. Len(entries) : entries'[i] = entries[i]
      /\ \A i \in 1 .. Len(trains) : trains'[i] = trains[i]
      /\ NodeOf(entries'[Len(entries) + 1], file) = Dcc(d)
      /\ trains'[Len(trains) + 1] = [node |-> Dcc(d), id |-> Len(entries) + 1]
      /\ DbTyped'
  BY AllocateKeeps
<1>2. /\ DOMAIN trains = 1 .. Len(trains) /\ DOMAIN trains' = 1 .. (Len(trains) + 1)
      /\ DOMAIN entries = 1 .. Len(entries) /\ DOMAIN entries' = 1 .. (Len(entries) + 1)
      /\ Len(trains) \in Nat /\ Len(entries) \in Nat
  BY <1>1 DEF DbTyped
<1>3. HasNode(a) => HasNode(a)'
  BY <1>1, <1>2 DEF HasNode
<1>4. Aligned => Aligned'
  <2>1. SUFFICES ASSUME Aligned, NEW i \in DOMAIN trains'
                 PROVE  i \in DOMAIN entries' /\ NodeOf(entries'[i], file) = trains'[i].node
    BY <1>1, <1>2 DEF Aligned, OneIndex
  <2>2. CASE i \in 1 .. Len(trains)
    BY <1>1, <1>2, <2>1, <2>2 DEF Aligned, OneIndex
  <2>3. CASE i = Len(trains) + 1
    BY <1>1, <1>2, <2>1, <2>3 DEF Aligned, OneIndex
  <2> QED BY <1>2, <2>2, <2>3
<1> QED BY <1>3, <1>4 DEF MayAnswer
(* iterate() and what it calls.                                            *)
LEMMA IdleTyped ==
  /\ Idle.state = "idle"
  /\ Idle \in [state : {"idle", "iterate", "respond", "new_node"},
               message : Requests \cup {NoRequest}, next : Nat \ {0},
               matches : BOOLEAN, cancel : BOOLEAN]
BY DEF Idle

LEMMA IterateAnswers == AnswerInv /\ Iterate => AnswerInv'
<1> SUFFICES ASSUME AnswerInv, Iterate PROVE AnswerInv'
  OBVIOUS
<1> DEFINE n == search.next
           over == n > Len(trains) \/ search.cancel
           create == ~search.matches /\ ~IsGlobal(Event) /\ Event.allocate
<1>1. /\ search.state = "iterate" /\ searchQueue' = searchQueue /\ owed' = owed
      /\ over => IterationDone /\ pending' = pending
      /\ ~over => /\ LookAt(n) /\ UNCHANGED trainNodesVars
                  /\ pending' = IF RestartListing THEN pending \ {Event.kind} ELSE pending
  BY DEF Iterate
<1>2. /\ DbTyped /\ PendingQueued /\ Covered /\ searchQueue \in Seq(Requests)
      /\ pending \subseteq {"global", "is_train"} /\ owed \subseteq Events \X Slot
  BY DEF AnswerInv, FlowTyped
<1>3. /\ search \in [state : {"idle", "iterate", "respond", "new_node"},
                     message : Requests \cup {NoRequest}, next : Nat \ {0},
                     matches : BOOLEAN, cancel : BOOLEAN]
      /\ search.message \in Requests /\ Event \in Events /\ n \in Nat \ {0}
  BY <1>1 DEF AnswerInv, FlowTyped, Requests, Event
<1>4. /\ trains \in Seq(TrainType(Len(entries))) /\ Len(trains) \in Nat /\ DOMAIN trains = 1 .. Len(trains)
      /\ Len(entries) \in Nat
  BY <1>2 DEF DbTyped
<1>5. \A o \in owed : /\ o[1] \in Events /\ MayAnswer(o[1], o[2])
                      /\ Coming(o[1]) \/ Served(o[1], o[2])
  BY <1>2 DEF Covered
<1>6. CASE over /\ create
  <2>1. AllocateNode(Event.digits) /\ search' = [search EXCEPT !.state = "new_node"]
    BY <1>1, <1>6 DEF IterationDone
  <2>2. Event.digits \in Addresses
    BY <1>3, <1>6, EventFacts
  <2>3. DbTyped'
    BY <1>2, <2>1, <2>2, AllocateKeeps
  <2>4. /\ search'.state = "new_node" /\ search'.message = search.message
        /\ search'.cancel = search.cancel /\ Event' = Event
        /\ search' \in [state : {"idle", "iterate", "respond", "new_node"},
                        message : Requests \cup {NoRequest}, next : Nat \ {0},
                        matches : BOOLEAN, cancel : BOOLEAN]
    BY <1>3, <2>1 DEF Event
  <2>5. FlowTyped'
    BY <1>1, <1>2, <1>3, <1>6, <2>4 DEF FlowTyped
  <2>6. PendingQueued' /\ \A e : Coming(e) => Coming(e)'
    BY <1>1, <1>2, <1>6 DEF PendingQueued, Queued, Coming
  <2>7. ASSUME NEW o \in owed, Served(o[1], o[2]) PROVE Served(o[1], o[2])'
    <3>1. Event = o[1] /\ ~search.cancel /\ n > Len(trains)
      BY <1>6, <2>7 DEF Served
    <3>2. \A i \in DOMAIN trains : ~(i >= n)
      BY <1>3, <1>4, <3>1
    <3>3. o[1].allocate /\ o[2] = Dcc(o[1].digits)
      BY <2>7, <3>2 DEF Served
    <3> QED BY <2>4, <3>1, <3>3 DEF Served
  <2>8. \A o \in owed : MayAnswer(o[1], o[2])'
    BY <1>2, <1>5, <2>1, <2>2, AllocateAnswers
  <2>9. Covered'
    BY <1>1, <1>5, <2>6, <2>7, <2>8 DEF Covered
  <2> QED BY <2>3, <2>5, <2>6, <2>9 DEF AnswerInv
<1>7. CASE over /\ ~create
  <2>1. search' = Idle /\ UNCHANGED trainNodesVars
    BY <1>1, <1>7 DEF IterationDone
  <2>2. DbTyped' /\ \A o \in owed : MayAnswer(o[1], o[2])'
    BY <1>2, <1>5, <2>1, AnswersSame
  <2>3. FlowTyped'
    BY <1>1, <1>2, <1>7, <2>1, IdleTyped DEF FlowTyped
  <2>4. PendingQueued' /\ \A e : Coming(e) => Coming(e)'
    BY <1>1, <1>2, <1>7 DEF PendingQueued, Queued, Coming
  <2>5. ASSUME NEW o \in owed, Served(o[1], o[2]) PROVE FALSE
    <3>1. Event = o[1] /\ ~search.cancel /\ n > Len(trains)
      BY <1>7, <2>5 DEF Served
    <3>2. \A i \in DOMAIN trains : ~(i >= n)
      BY <1>3, <1>4, <3>1
    <3>3. o[1].allocate /\ ~search.matches
      BY <1>1, <2>5, <3>2 DEF Served
    <3>4. ~IsGlobal(Event)
      BY <1>3, <3>1, <3>3, EventFacts
    <3> QED BY <1>7, <3>1, <3>3, <3>4
  <2>6. Covered'
    BY <1>1, <1>5, <2>2, <2>4, <2>5 DEF Covered
  <2> QED BY <2>2, <2>3, <2>4, <2>6 DEF AnswerInv
<1>8. CASE ~over /\ IsGlobal(Event)
  <2> DEFINE m == IF RestartListing THEN 1 ELSE n
  <2>1. search' = [search EXCEPT !.state = "respond", !.next = m] /\ UNCHANGED trainNodesVars
    BY <1>1, <1>8 DEF LookAt
  <2>2. /\ pending' = IF RestartListing THEN pending \ {Event.kind} ELSE pending
        /\ trains' = trains
    BY <1>1, <1>8, <2>1 DEF trainNodesVars
  <2>3. DbTyped' /\ \A o \in owed : MayAnswer(o[1], o[2])'
    BY <1>2, <1>5, <2>1, AnswersSame
  <2>4. m \in Nat \ {0} /\ m <= n
    BY <1>3
  <2> HIDE DEF m
  <2>5. /\ search'.state = "respond" /\ search'.message = search.message
        /\ search'.cancel = search.cancel /\ search'.next = m /\ Event' = Event
        /\ search' \in [state : {"idle", "iterate", "respond", "new_node"},
                        message : Requests \cup {NoRequest}, next : Nat \ {0},
                        matches : BOOLEAN, cancel : BOOLEAN]
    BY <1>3, <2>1, <2>4 DEF Event
  <2>6. FlowTyped'
    BY <1>1, <1>2, <1>3, <2>2, <2>5 DEF FlowTyped
  <2>7. PendingQueued'
    BY <1>1, <1>2, <2>2 DEF PendingQueued, Queued
  <2>8. ASSUME NEW o \in owed PROVE Coming(o[1])' \/ Served(o[1], o[2])'
    <3>1. CASE Served(o[1], o[2])
      <4>1. Event = o[1] /\ ~o[1].allocate
        BY <1>3, <1>8, <3>1, EventFacts DEF Served
      <4>2. PICK i \in DOMAIN trains : i >= n /\ trains[i].node = o[2]
        BY <3>1, <4>1 DEF Served
      <4>3. i >= m
        BY <1>3, <1>4, <2>4, <4>2
      <4> QED BY <1>8, <2>2, <2>5, <4>1, <4>2, <4>3 DEF Served
    <3>2. CASE Coming(o[1]) /\ (RestartListing /\ o[1] = Event)
      <4>1. PICK i \in DOMAIN trains : trains[i].node = o[2]
        BY <1>5, <1>8, <3>2 DEF MayAnswer, HasNode
      <4>2. i >= m
        BY <1>4, <3>2 DEF m
      <4> QED BY <1>8, <2>2, <2>5, <3>2, <4>1, <4>2 DEF Served
    <3>3. CASE Coming(o[1]) /\ ~(RestartListing /\ o[1] = Event)
      <4>1. IsGlobal(o[1]) => o[1].kind \in pending'
        BY <1>3, <1>5, <2>2, <3>3, BitsApart DEF Coming
      <4> QED BY <1>1, <3>3, <4>1 DEF Coming, Queued
    <3> QED BY <1>5, <3>1, <3>2, <3>3
  <2>9. Covered'
    BY <1>1, <2>3, <2>8 DEF Covered
  <2> QED BY <2>3, <2>6, <2>7, <2>9 DEF AnswerInv
<1>9. CASE ~over /\ ~IsGlobal(Event)
  <2> DEFINE hit == n <= Len(entries) /\ Match(Event, NodeOf(entries[n], file))
  <2>1. /\ search' = IF hit THEN [search EXCEPT !.state = "respond", !.next = n, !.matches = TRUE]
                     ELSE [search EXCEPT !.state = "iterate", !.next = n + 1]
        /\ UNCHANGED trainNodesVars /\ trains' = trains
    BY <1>1, <1>9 DEF LookAt, trainNodesVars
  <2>2. pending' = pending
    BY <1>1, <1>9 DEF RestartListing
  <2>3. DbTyped' /\ \A o \in owed : MayAnswer(o[1], o[2])'
    BY <1>2, <1>5, <2>1, AnswersSame
  <2>4. PendingQueued' /\ \A e : Coming(e) => Coming(e)'
    BY <1>1, <1>2, <2>2 DEF PendingQueued, Queued, Coming
  <2>5. /\ search'.message = search.message /\ search'.cancel = search.cancel /\ Event' = Event
        /\ search' \in [state : {"idle", "iterate", "respond", "new_node"},
                        message : Requests \cup {NoRequest}, next : Nat \ {0},
                        matches : BOOLEAN, cancel : BOOLEAN]
    <3> DEFINE m == n + 1
    <3>1. /\ m \in Nat \ {0}
          /\ \/ search' = [search EXCEPT !.state = "respond", !.next = n, !.matches = TRUE]
             \/ search' = [search EXCEPT !.state = "iterate", !.next = m]
      BY <1>3, <2>1
    <3> HIDE DEF m, n
    <3>2. CASE search' = [search EXCEPT !.state = "respond", !.next = n, !.matches = TRUE]
      BY <1>3, <3>2 DEF Event
    <3>3. CASE search' = [search EXCEPT !.state = "iterate", !.next = m]
      BY <1>3, <3>1, <3>3 DEF Event
    <3> QED BY <3>1, <3>2, <3>3
  <2>6. FlowTyped'
    BY <1>1, <1>2, <1>3, <2>2, <2>5 DEF FlowTyped
  <2>7. ASSUME NEW o \in owed, Served(o[1], o[2]) PROVE Served(o[1], o[2])'
    <3>1. /\ Event = o[1] /\ ~search.cancel /\ Aligned /\ Match(o[1], o[2])
      BY <1>5, <1>9, <2>7 DEF Served, MayAnswer
    <3>2. /\ n \in DOMAIN trains /\ n <= Len(entries) /\ trains[n].node = NodeOf(entries[n], file)
      BY <1>3, <1>4, <1>9, <3>1 DEF Aligned, OneIndex
    <3>3. \/ \E i \in DOMAIN trains : i >= n /\ trains[i].node = o[2]
          \/ o[1].allocate /\ o[2] = Dcc(o[1].digits) /\ ~search.matches
      BY <1>1, <2>7 DEF Served
    <3>4. CASE hit
      <4>1. /\ search'.state = "respond" /\ search'.next = n
        BY <1>3, <2>1, <3>4
      <4>2. o[1].allocate /\ o[2] = Dcc(o[1].digits) => trains[n].node = o[2]
        <5>0. trains[n] \in TrainType(Len(entries))
          BY <1>4, <3>2
        <5>1. trains[n].node \in Slot
          BY <5>0 DEF TrainType
        <5> QED BY <1>5, <3>1, <3>2, <3>4, <5>1, ExactMatch, EventFacts
      <4>3. \E i \in DOMAIN trains : i >= n /\ trains[i].node = o[2]
        <5>1. n >= n
          BY <1>3
        <5> QED BY <3>2, <3>3, <4>2, <5>1
      <4> HIDE DEF hit, n, over
      <4> QED BY <2>1, <2>5, <3>1, <4>1, <4>3 DEF Served
    <3>5. CASE ~hit
      <4>1. search'.state = "iterate" /\ search'.next = n + 1 /\ search'.matches = search.matches
        BY <1>3, <2>1, <3>5
      <4>2. trains[n].node # o[2]
        BY <3>1, <3>2, <3>5
      <4>3. \A i \in DOMAIN trains : i >= n /\ trains[i].node = o[2] => i >= n + 1
        <5>1. \A i \in DOMAIN trains : i >= n /\ ~(i >= n + 1) => i = n
          BY <1>3, <1>4
        <5> QED BY <4>2, <5>1
      <4>4. \/ \E i \in DOMAIN trains : i >= n + 1 /\ trains[i].node = o[2]
            \/ o[1].allocate /\ o[2] = Dcc(o[1].digits) /\ ~search.matches
        BY <3>3, <4>3
      <4> HIDE DEF hit, n, over
      <4> QED BY <2>1, <2>5, <3>1, <4>1, <4>4 DEF Served
    <3> QED BY <3>4, <3>5
  <2>8. Covered'
    BY <1>1, <1>5, <2>3, <2>4, <2>7 DEF Covered
  <2> QED BY <2>3, <2>4, <2>6, <2>8 DEF AnswerInv
<1> QED BY <1>6, <1>7, <1>8, <1>9

(* send_response                                                           *)
LEMMA SendResponseAnswers == AnswerInv /\ SendResponse => AnswerInv'
<1> SUFFICES ASSUME AnswerInv, SendResponse PROVE AnswerInv'
  OBVIOUS
<1> DEFINE n == search.next
           given == {<<Event, trains[i].node>> : i \in {n} \cap DOMAIN trains}
<1>1. /\ search.state = "respond" /\ searchQueue' = searchQueue /\ pending' = pending
      /\ search' = [search EXCEPT !.state = "iterate", !.next = n + 1]
      /\ owed' = owed \ given /\ UNCHANGED trainNodesVars /\ trains' = trains
  BY DEF SendResponse, trainNodesVars
<1>2. /\ DbTyped /\ PendingQueued /\ Covered /\ searchQueue \in Seq(Requests)
      /\ pending \subseteq {"global", "is_train"} /\ owed \subseteq Events \X Slot
  BY DEF AnswerInv, FlowTyped
<1>3. /\ search \in [state : {"idle", "iterate", "respond", "new_node"},
                     message : Requests \cup {NoRequest}, next : Nat \ {0},
                     matches : BOOLEAN, cancel : BOOLEAN]
      /\ search.message \in Requests /\ n \in Nat \ {0}
  BY <1>1 DEF AnswerInv, FlowTyped
<1>4. DOMAIN trains \subseteq Nat
  BY <1>2 DEF DbTyped
<1>5. /\ search'.message = search.message /\ search'.cancel = search.cancel /\ Event' = Event
      /\ search'.matches = search.matches /\ search'.state = "iterate" /\ search'.next = n + 1
      /\ search' \in [state : {"idle", "iterate", "respond", "new_node"},
                      message : Requests \cup {NoRequest}, next : Nat \ {0},
                      matches : BOOLEAN, cancel : BOOLEAN]
  <2> DEFINE m == n + 1
  <2>1. m \in Nat \ {0} /\ search' = [search EXCEPT !.state = "iterate", !.next = m]
    BY <1>1, <1>3
  <2>2. m = n + 1
    OBVIOUS
  <2> HIDE DEF m, n
  <2> QED BY <1>3, <2>1, <2>2 DEF Event
<1>6. FlowTyped'
  BY <1>1, <1>2, <1>3, <1>5 DEF FlowTyped
<1>7. PendingQueued' /\ \A e : Coming(e) => Coming(e)'
  BY <1>1, <1>2 DEF PendingQueued, Queued, Coming
<1>8. ASSUME NEW o \in owed' PROVE MayAnswer(o[1], o[2])' /\ (Coming(o[1])' \/ Served(o[1], o[2])')
  <2>1. /\ o \in owed /\ o \notin given /\ o = <<o[1], o[2]>> /\ MayAnswer(o[1], o[2])'
        /\ Coming(o[1]) \/ Served(o[1], o[2])
    BY <1>1, <1>2, <1>8, AnswersSame DEF Covered
  <2>2. ASSUME Served(o[1], o[2]) PROVE Served(o[1], o[2])'
    <3>1. /\ Event = o[1] /\ ~search.cancel
          /\ \/ \E i \in DOMAIN trains : i >= n /\ trains[i].node = o[2]
             \/ o[1].allocate /\ o[2] = Dcc(o[1].digits) /\ ~search.matches
      BY <1>1, <2>2 DEF Served
    <3>2. \A i \in DOMAIN trains : i = n => trains[i].node # o[2]
      BY <2>1, <3>1
    <3>3. \A i \in DOMAIN trains : i >= n /\ i # n => i >= n + 1
      BY <1>3, <1>4
    <3> HIDE DEF n
    <3>4. \/ \E i \in DOMAIN trains : i >= n + 1 /\ trains[i].node = o[2]
          \/ o[1].allocate /\ o[2] = Dcc(o[1].digits) /\ ~search.matches
      BY <3>1, <3>2, <3>3
    <3> QED BY <1>1, <1>5, <3>1, <3>4 DEF Served
  <2> QED BY <1>7, <2>1, <2>2
<1> QED BY <1>1, <1>2, <1>6, <1>7, <1>8, AnswersSame DEF AnswerInv, Covered

(* new_node_reply                                                          *)
LEMMA NewNodeReplyAnswers == AnswerInv /\ NewNodeReply => AnswerInv'
<1> SUFFICES ASSUME AnswerInv, NewNodeReply PROVE AnswerInv'
  OBVIOUS
<1>1. /\ search.state = "new_node" /\ searchQueue' = searchQueue /\ pending' = pending
      /\ search' = Idle /\ owed' = owed \ {<<Event, Dcc(Event.digits)>>} /\ UNCHANGED trainNodesVars
  BY DEF NewNodeReply
<1>2. /\ DbTyped /\ PendingQueued /\ Covered /\ searchQueue \in Seq(Requests)
      /\ pending \subseteq {"global", "is_train"} /\ owed \subseteq Events \X Slot
  BY DEF AnswerInv, FlowTyped
<1>3. FlowTyped'
  BY <1>1, <1>2 DEF FlowTyped, Idle
<1>4. PendingQueued' /\ \A e : Coming(e) => Coming(e)'
  BY <1>1, <1>2 DEF PendingQueued, Queued, Coming
<1>5. ASSUME NEW o \in owed' PROVE MayAnswer(o[1], o[2])' /\ Coming(o[1])'
  <2>1. /\ o \in owed /\ o # <<Event, Dcc(Event.digits)>> /\ o = <<o[1], o[2]>> /\ MayAnswer(o[1], o[2])'
        /\ Coming(o[1]) \/ Served(o[1], o[2])
    BY <1>1, <1>2, <1>5, AnswersSame DEF Covered
  <2>2. ~Served(o[1], o[2])
    BY <1>1, <2>1 DEF Served
  <2> QED BY <1>4, <2>1, <2>2
<1> QED BY <1>1, <1>2, <1>3, <1>4, <1>5, AnswersSame DEF AnswerInv, Covered
(* Requests arrive: what they ask for can be answered.                     *)
LEMMA DueTyped ==
  ASSUME DbTyped, NEW e \in Events
  PROVE  \A o \in Due(e) : o \in Events \X Slot /\ o[1] = e /\ MayAnswer(e, o[2])
<1> DEFINE nodes == {trains[i].node : i \in DOMAIN trains}
           found == {a \in nodes : Match(e, a)}
<1>1. \A a \in nodes : a \in Slot /\ HasNode(a)
  <2>1. \A i \in DOMAIN trains : trains[i] \in TrainType(Len(entries))
    BY DEF DbTyped
  <2>2. \A i \in DOMAIN trains : trains[i].node \in Slot
    BY <2>1 DEF TrainType
  <2> QED BY <2>2 DEF HasNode
<1>2. CASE IsGlobal(e)
  <2>1. Due(e) = {<<e, trains[i].node>> : i \in DOMAIN trains}
    BY <1>2 DEF Due
  <2> QED BY <1>1, <1>2, <2>1 DEF MayAnswer
<1>3. CASE ~IsGlobal(e) /\ ~Aligned
  BY <1>3 DEF Due
<1>4. CASE ~IsGlobal(e) /\ Aligned
  <2>1. Due(e) = {<<e, a>> : a \in found \cup (IF found = {} /\ e.allocate THEN {Dcc(e.digits)} ELSE {})}
    BY <1>4 DEF Due
  <2>2. ASSUME NEW a \in found PROVE a \in Slot /\ MayAnswer(e, a)
    BY <1>1, <1>4, <2>2 DEF MayAnswer
  <2>3. e.allocate => Dcc(e.digits) \in Slot /\ MayAnswer(e, Dcc(e.digits))
    <3>1. e.allocate => e.exact /\ Dcc(e.digits) \in Slot
      BY EventFacts, DccTyped
    <3>2. e.allocate => Match(e, Dcc(e.digits))
      BY <3>1, ExactMatch
    <3> QED BY <1>4, <3>1, <3>2 DEF MayAnswer
  <2> HIDE DEF found
  <2> QED BY <2>1, <2>2, <2>3
<1> QED BY <1>2, <1>3, <1>4

LEMMA SendTyped ==
  ASSUME FlowTyped, NEW r \in Requests, Send(r)
  PROVE  /\ searchQueue' \in Seq(Requests)
         /\ \A e : Queued(e) => Queued(e)'
         /\ Queued(r.event)'
         /\ search' \in [state : {"idle", "iterate", "respond", "new_node"},
                         message : Requests \cup {NoRequest}, next : Nat \ {0},
                         matches : BOOLEAN, cancel : BOOLEAN]
         /\ search'.state = search.state /\ search'.message = search.message /\ Event' = Event
         /\ search'.next = search.next /\ search'.matches = search.matches
         /\ search'.cancel <=> search.cancel \/ IsFollowup(search.message, r)
<1>1. searchQueue' = Append(searchQueue, r) /\ searchQueue \in Seq(Requests)
  BY DEF Send, FlowTyped
<1>2. /\ searchQueue' \in Seq(Requests) /\ Len(searchQueue') = Len(searchQueue) + 1 /\ Len(searchQueue) \in Nat
      /\ \A i \in 1 .. Len(searchQueue) : searchQueue'[i] = searchQueue[i]
      /\ searchQueue'[Len(searchQueue) + 1] = r
  BY <1>1
<1>3. DOMAIN searchQueue = 1 .. Len(searchQueue) /\ DOMAIN searchQueue' = 1 .. (Len(searchQueue) + 1)
  BY <1>1, <1>2
<1>4. \A i \in 1 .. Len(searchQueue) : i \in 1 .. (Len(searchQueue) + 1)
  BY <1>2
<1>5. Len(searchQueue) + 1 \in 1 .. (Len(searchQueue) + 1)
  BY <1>2
<1>6. (\A e : Queued(e) => Queued(e)') /\ Queued(r.event)'
  BY <1>2, <1>3, <1>4, <1>5 DEF Queued
<1> DEFINE on == search.cancel \/ IsFollowup(search.message, r)
<1>7. on \in BOOLEAN /\ search' = [search EXCEPT !.cancel = on]
  BY DEF Send
<1>8. on <=> search.cancel \/ IsFollowup(search.message, r)
  OBVIOUS
<1> HIDE DEF on
<1>9. search \in [state : {"idle", "iterate", "respond", "new_node"},
                  message : Requests \cup {NoRequest}, next : Nat \ {0},
                  matches : BOOLEAN, cancel : BOOLEAN]
  BY DEF FlowTyped
<1>10. /\ search' \in [state : {"idle", "iterate", "respond", "new_node"},
                       message : Requests \cup {NoRequest}, next : Nat \ {0},
                       matches : BOOLEAN, cancel : BOOLEAN]
       /\ search'.state = search.state /\ search'.message = search.message /\ Event' = Event
       /\ search'.next = search.next /\ search'.matches = search.matches
       /\ search'.cancel = on
  BY <1>7, <1>9 DEF Event
<1> QED BY <1>2, <1>6, <1>8, <1>10

(* A request that cancels the one being served passes on its answers: it   *)
(* asks the same, or the same is queued, or nobody needs them.             *)
LEMMA SendAnswers ==
  ASSUME AnswerInv, NEW r \in Requests, Send(r), Owe(r), pending \subseteq pending',
         pending' \subseteq pending \cup ({r.event.kind} \cap {"global", "is_train"}),
         IsGlobal(r.event) => r.event.kind \in pending'
  PROVE  AnswerInv'
<1>1. /\ DbTyped /\ FlowTyped /\ PendingQueued /\ Covered /\ searchQueue \in Seq(Requests)
      /\ pending \subseteq {"global", "is_train"} /\ owed \subseteq Events \X Slot
      /\ dirty \in BOOLEAN /\ r.event \in Events
  BY DEF AnswerInv, FlowTyped, DbTyped, Requests
<1>2. /\ owed' = {o \in owed : Moot(r) => o[1] # Event} \cup Due(r.event)
      /\ UNCHANGED trainNodesVars /\ trains' = trains
  BY DEF Owe, trainNodesVars, Event
<1>3. /\ searchQueue' \in Seq(Requests)
      /\ \A e : Queued(e) => Queued(e)'
      /\ Queued(r.event)'
      /\ search' \in [state : {"idle", "iterate", "respond", "new_node"},
                      message : Requests \cup {NoRequest}, next : Nat \ {0},
                      matches : BOOLEAN, cancel : BOOLEAN]
      /\ search'.state = search.state /\ search'.message = search.message /\ Event' = Event
      /\ search'.next = search.next /\ search'.matches = search.matches
      /\ search'.cancel <=> search.cancel \/ IsFollowup(search.message, r)
  BY <1>1, SendTyped
<1>4. \A o \in Due(r.event) : o \in Events \X Slot /\ o[1] = r.event /\ MayAnswer(o[1], o[2])'
  BY <1>1, <1>2, DueTyped, AnswersSame
<1>5. FlowTyped'
  <2>1. owed' \subseteq Events \X Slot
    BY <1>1, <1>2, <1>4
  <2>3. pending' \subseteq {"global", "is_train"}
    BY <1>1
  <2> QED BY <1>1, <1>3, <2>1, <2>3 DEF FlowTyped
<1>6. (\A e : Coming(e) => Coming(e)') /\ Coming(r.event)'
  BY <1>3 DEF Coming
<1>7. PendingQueued'
  <2>1. "global" \in pending' => Queued(Global)'
    <3>1. "global" \in pending' => "global" \in pending \/ r.event = Global
      BY <1>1, EventFacts
    <3> QED BY <1>1, <1>3, <3>1 DEF PendingQueued
  <2>2. "is_train" \in pending' => Queued(IsTrain)'
    <3>1. "is_train" \in pending' => "is_train" \in pending \/ r.event = IsTrain
      BY <1>1, EventFacts
    <3> QED BY <1>1, <1>3, <3>1 DEF PendingQueued
  <2> QED BY <2>1, <2>2 DEF PendingQueued
<1>8. ASSUME NEW o \in owed' PROVE MayAnswer(o[1], o[2])' /\ (Coming(o[1])' \/ Served(o[1], o[2])')
  <2>1. CASE o \in Due(r.event)
    BY <1>4, <1>6, <2>1
  <2>2. CASE o \in owed /\ (Moot(r) => o[1] # Event)
    <3>1. /\ o[1] \in Events /\ MayAnswer(o[1], o[2])'
          /\ Coming(o[1]) \/ Served(o[1], o[2])
      BY <1>1, <1>2, <2>2, AnswersSame DEF Covered
    <3>2. ASSUME Served(o[1], o[2]), ~IsFollowup(search.message, r) PROVE Served(o[1], o[2])'
      BY <1>2, <1>3, <3>2 DEF Served
    <3>3. ASSUME Served(o[1], o[2]), IsFollowup(search.message, r) PROVE Coming(o[1])'
      <4>1. o[1] = Event
        BY <3>3 DEF Served
      <4>2. Queued(o[1])
        BY <2>2, <3>3, <4>1 DEF Moot, Queued, Event
      <4>3. CASE IsGlobal(o[1])
        <5>1. Event = r.event
          BY <3>3, <4>1, <4>3 DEF IsFollowup, IsGlobal, Event
        <5> QED BY <1>6, <4>1, <5>1
      <4>4. CASE ~IsGlobal(o[1])
        BY <1>3, <4>2, <4>4 DEF Coming
      <4> QED BY <4>3, <4>4
    <3> QED BY <1>6, <3>1, <3>2, <3>3
  <2> QED BY <1>2, <1>8, <2>1, <2>2
<1> QED BY <1>1, <1>2, <1>5, <1>7, <1>8, AnswersSame DEF AnswerInv, Covered

(* handle_identify_global                                                  *)
LEMMA GlobalAnswers ==
  ASSUME AnswerInv, NEW src \in Throttles, HandleIdentifyGlobal(src) PROVE AnswerInv'
<1> DEFINE r == [event |-> Global, src |-> src]
<1>1. r \in Requests /\ r.event = Global
  BY EventFacts DEF Requests
<1>2. /\ Owe(r)
      /\ \/ "global" \in pending /\ searchQueue' = searchQueue /\ search' = search /\ pending' = pending
         \/ "global" \notin pending /\ pending' = pending \cup {"global"} /\ Send(r)
  BY DEF HandleIdentifyGlobal
<1> HIDE DEF r
<1>3. CASE "global" \notin pending /\ pending' = pending \cup {"global"} /\ Send(r)
  BY <1>1, <1>2, <1>3, SendAnswers, EventFacts
<1>4. CASE "global" \in pending /\ searchQueue' = searchQueue /\ search' = search /\ pending' = pending
  <2>1. /\ DbTyped /\ FlowTyped /\ PendingQueued /\ Covered /\ owed \subseteq Events \X Slot
        /\ dirty \in BOOLEAN /\ Global \in Events
    BY EventFacts DEF AnswerInv, FlowTyped, DbTyped
  <2>2. /\ owed' \subseteq owed \cup Due(Global)
        /\ UNCHANGED trainNodesVars /\ trains' = trains
    BY <1>1, <1>2 DEF Owe, trainNodesVars
  <2>3. \A o \in Due(Global) : o \in Events \X Slot /\ o[1] = Global /\ MayAnswer(o[1], o[2])'
    BY <2>1, <2>2, DueTyped, AnswersSame
  <2>4. FlowTyped'
    <3>1. owed' \subseteq Events \X Slot
      BY <2>1, <2>2, <2>3
    <3> QED BY <1>4, <2>1, <3>1 DEF FlowTyped
  <2>5. PendingQueued' /\ Coming(Global)' /\ (\A e : Coming(e) => Coming(e)')
    BY <1>4, <2>1, EventFacts DEF PendingQueued, Queued, Coming
  <2>6. \A e, a : Served(e, a) => Served(e, a)'
    BY <1>4, <2>2 DEF Served, Event
  <2>7. ASSUME NEW o \in owed' PROVE MayAnswer(o[1], o[2])' /\ (Coming(o[1])' \/ Served(o[1], o[2])')
    <3>1. CASE o \in owed
      BY <2>1, <2>2, <2>5, <2>6, <3>1, AnswersSame DEF Covered
    <3>2. CASE o \in Due(Global)
      BY <2>3, <2>5, <3>2
    <3> QED BY <2>2, <3>1, <3>2
  <2> QED BY <2>1, <2>2, <2>4, <2>5, <2>7, AnswersSame DEF AnswerInv, Covered
<1> QED BY <1>2, <1>3, <1>4

LEMMA ProducerAnswers ==
  ASSUME AnswerInv, NEW src \in Throttles, NEW event \in Queries \cup {IsTrain},
         HandleIdentifyProducer(src, event)
  PROVE  AnswerInv'
<1> DEFINE r == [event |-> event, src |-> src]
<1>1. r \in Requests /\ r.event = event /\ event \in Events
  BY DEF Requests, Events
<1>2. /\ Owe(r) /\ Send(r)
      /\ pending' = pending \cup (IF event = IsTrain THEN {"is_train"} ELSE {})
  BY DEF HandleIdentifyProducer
<1> HIDE DEF r
<1>3. /\ pending \subseteq pending'
      /\ pending' \subseteq pending \cup ({event.kind} \cap {"global", "is_train"})
      /\ IsGlobal(event) => event.kind \in pending'
  BY <1>1, <1>2, EventFacts
<1> QED BY <1>1, <1>2, <1>3, SendAnswers

-----------------------------------------------------------------------------
(* Edits.                                                                  *)
LEMMA EditKeeps ==
  ASSUME DbTyped, NEW slot \in DOMAIN file, NEW train \in Slot, EditFile(slot, train)
  PROVE  DbTyped' /\ dirty'
<1>1. /\ file' = [file EXCEPT ![slot] = train] /\ dirty' = TRUE
      /\ entries' = entries /\ trains' = trains
  BY DEF EditFile
<1>2. file' \in Seq(Slot) /\ DOMAIN file' = DOMAIN file
  BY <1>1 DEF DbTyped
<1>3. EntryType(file') = EntryType(file)
  BY <1>2 DEF EntryType
<1> QED BY <1>1, <1>2, <1>3 DEF DbTyped

LEMMA ApplyKeeps ==
  ASSUME DbTyped, ApplyConfiguration
  PROVE  DbTyped' /\ Follow(trains, entries)'
<1>1. entries' = Loaded /\ trains' = UpdateConfig(Loaded) /\ dirty' = FALSE /\ file' = file
  BY DEF ApplyConfiguration, Loaded
<1>2. LoadGood(Loaded)
  BY LoadKeeps DEF Loaded
<1>3. /\ UpdateConfig(Loaded) \in Seq(TrainType(Len(Loaded)))
      /\ Follow(UpdateConfig(Loaded), Loaded)
  BY UpdateKeeps
<1>4. DbTyped'
  BY <1>1, <1>2, <1>3 DEF DbTyped, LoadGood
<1>5. Follow(trains, entries)'
  BY <1>1, <1>3 DEF Follow, AllKnown, FindEntry, Single
<1> QED BY <1>4, <1>5

LEMMA NothingOwed ==
  ASSUME AnswerInv, DbTyped', owed' = {}, UNCHANGED <<searchQueue, search, pending>>
  PROVE  AnswerInv'
BY DEF AnswerInv, FlowTyped, PendingQueued, Queued, Covered

LEMMA AnswerInit == SearchInit => AnswerInv
<1> SUFFICES ASSUME SearchInit PROVE AnswerInv
  OBVIOUS
<1>1. /\ DbTyped /\ searchQueue = <<>> /\ search = Idle /\ pending = {} /\ owed = {}
  BY StartKeeps DEF SearchInit
<1>2. FlowTyped
  <2>1. <<>> \in Seq(Requests)
    OBVIOUS
  <2> QED BY <1>1, <2>1, IdleTyped DEF FlowTyped
<1> QED BY <1>1, <1>2 DEF AnswerInv, PendingQueued, Covered

LEMMA EditTyped ==
  ASSUME DbTyped, NEW slot \in DOMAIN file
  PROVE  /\ \A address \in Addresses \cup {0} :
              EditAddress(slot, address) => \E train \in Slot : Edit(slot, train)
         /\ \A mode \in Modes :
              EditMode(slot, mode) => \E train \in Slot : Edit(slot, train)
<1>1. file[slot] \in Slot
  BY DEF DbTyped
<1>2. /\ \A address \in Addresses \cup {0} : [file[slot] EXCEPT !.address = address] \in Slot
      /\ \A mode \in Modes : [file[slot] EXCEPT !.mode = mode] \in Slot
  BY <1>1 DEF Slot
<1> QED BY <1>2 DEF EditAddress, EditMode

LEMMA AnswerStep == AnswerInv /\ [SearchNext]_trainSearchVars => AnswerInv'
<1> SUFFICES ASSUME AnswerInv, [SearchNext]_trainSearchVars PROVE AnswerInv'
  OBVIOUS
<1>1. CASE Flow
  BY <1>1, EntryAnswers, IterateAnswers, SendResponseAnswers, NewNodeReplyAnswers DEF Flow
<1>2. CASE AskForTrains
  BY <1>2, GlobalAnswers, ProducerAnswers DEF AskForTrains
<1>3. CASE Apply
  <2>1. /\ ApplyConfiguration /\ owed' = {} /\ UNCHANGED <<searchQueue, search, pending>>
    BY <1>3 DEF Apply
  <2> QED BY <2>1, ApplyKeeps, NothingOwed DEF AnswerInv, FlowTyped
<1>4. ASSUME NEW slot \in DOMAIN file, NEW train \in Slot, Edit(slot, train) PROVE AnswerInv'
  <2>1. EditFile(slot, train) /\ owed' = {} /\ UNCHANGED <<searchQueue, search, pending>>
    BY <1>4 DEF Edit
  <2> QED BY <2>1, EditKeeps, NothingOwed DEF AnswerInv
<1>5. CASE UNCHANGED trainSearchVars
  BY <1>5 DEF trainSearchVars, trainNodesVars, searchVars, AnswerInv, DbTyped, FlowTyped,
     PendingQueued, Queued, Covered, MayAnswer, HasNode, Aligned, OneIndex, Coming, Served, Event
<1> QED BY <1>1, <1>2, <1>3, <1>4, <1>5, EditTyped DEF SearchNext, AnswerInv

(* What the search server, its queue and the database are like in every    *)
(* state that the code can reach.                                          *)
THEOREM SearchInvariant == SearchSpec => []AnswerInv
BY AnswerInit, AnswerStep, PTL DEF SearchSpec

(* Whatever handle_identify_global and handle_identify_producer queue,     *)
(* merge or cancel, and whatever iterate() restarts: when the flow of      *)
(* FindProtocolServer is idle and has no request left, every train that    *)
(* had to answer has answered.                                             *)
THEOREM NobodyForgotten == SearchSpec => []EverybodyAnswered
<1>1. AnswerInv => EverybodyAnswered
  <2> SUFFICES ASSUME AnswerInv, Quiescent, NEW o \in owed PROVE FALSE
    BY DEF EverybodyAnswered
  <2>1. searchQueue = <<>> /\ search.state = "idle"
    BY DEF Quiescent
  <2>2. DOMAIN searchQueue = {}
    BY <2>1
  <2> QED BY <2>1, <2>2 DEF AnswerInv, Covered, Coming, Queued, Served
<1> QED BY <1>1, SearchInvariant, PTL

-----------------------------------------------------------------------------
(* Nodes in step: update_config puts them there, allocate_node keeps them. *)
InStep == ~dirty => Follow(trains, entries)

LEMMA AllocateInStep ==
  ASSUME DbTyped, NEW d \in Addresses, AllocateNode(d), InStep
  PROVE  InStep'
<1> DEFINE E == Len(entries)
           T == Len(trains)
           a == Dcc(d)
<1>1. /\ DbTyped' /\ file' = file /\ dirty' = dirty
      /\ Len(entries') = E + 1 /\ Len(trains') = T + 1
      /\ \A i \in 1 .. E : entries'[i] = entries[i]
      /\ \A i \in 1 .. T : trains'[i] = trains[i]
      /\ NodeOf(entries'[E + 1], file) = a
      /\ trains'[T + 1] = [node |-> a, id |-> E + 1]
  BY AllocateKeeps
<1>2. /\ E \in Nat /\ T \in Nat /\ DOMAIN entries = 1 .. E /\ DOMAIN trains = 1 .. T
      /\ DOMAIN entries' = 1 .. (E + 1) /\ DOMAIN trains' = 1 .. (T + 1)
  BY <1>1 DEF DbTyped
<1>3. trains'[T + 1].node = a /\ trains'[T + 1].id = E + 1
  BY <1>1
<1>4. \A j \in 1 .. T : trains[j].id \in 1 .. E
  <2>1. \A j \in 1 .. T : trains[j] \in TrainType(E)
    BY <1>2 DEF DbTyped
  <2> QED BY <2>1 DEF TrainType
<1>5. /\ \A i \in 1 .. (E + 1) : i \in 1 .. E \/ i = E + 1
      /\ \A i \in 1 .. E : i \in 1 .. (E + 1)
      /\ E + 1 \in 1 .. (E + 1)
  BY <1>2
<1>6. /\ \A i \in 1 .. (T + 1) : i \in 1 .. T \/ i = T + 1
      /\ \A i \in 1 .. T : i \in 1 .. (T + 1)
      /\ T + 1 \in 1 .. (T + 1)
  BY <1>2
<1> HIDE DEF E, T, a
<1>7. SUFFICES ASSUME ~dirty, Follow(trains, entries) PROVE Follow(trains, entries)'
  BY <1>1 DEF InStep
<1>8. AllKnown(trains, entries)'
  <2>1. SUFFICES ASSUME NEW j \in 1 .. (T + 1)
                 PROVE  \E i \in 1 .. (E + 1) : NodeOf(entries'[i], file) = trains'[j].node
    BY <1>1, <1>2 DEF AllKnown, FindEntry
  <2>2. CASE j \in 1 .. T
    <3>1. PICK i \in 1 .. E : NodeOf(entries[i], file) = trains[j].node
      BY <1>2, <1>7, <2>2 DEF Follow, AllKnown, FindEntry
    <3> QED BY <1>1, <1>5, <2>2, <3>1
  <2>3. CASE j = T + 1
    BY <1>1, <1>3, <1>5, <2>3
  <2> QED BY <1>6, <2>2, <2>3
<1>9. ASSUME NEW m \in 1 .. (E + 1), Driven(NodeOf(entries'[m], file))
      PROVE  \E j \in 1 .. (T + 1) : trains'[j].node = NodeOf(entries'[m], file)
  <2>1. CASE m \in 1 .. E
    <3>1. PICK j \in 1 .. T : trains[j].node = NodeOf(entries[m], file)
      BY <1>1, <1>2, <1>7, <1>9, <2>1 DEF Follow
    <3> QED BY <1>1, <1>6, <2>1, <3>1
  <2>2. CASE m = E + 1
    BY <1>1, <1>3, <1>6, <2>2
  <2> QED BY <1>5, <2>1, <2>2
<1>10. ASSUME NEW j \in 1 .. (T + 1), Single(trains, j)'
       PROVE  NodeOf(entries'[trains'[j].id], file) = trains'[j].node
  <2>1. CASE j \in 1 .. T
    <3>1. Single(trains, j)
      BY <1>1, <1>2, <1>6, <1>10, <2>1 DEF Single
    <3>2. NodeOf(entries[trains[j].id], file) = trains[j].node
      BY <1>2, <1>7, <2>1, <3>1 DEF Follow
    <3> QED BY <1>1, <1>4, <2>1, <3>2
  <2>2. CASE j = T + 1
    BY <1>1, <1>3, <2>2
  <2> QED BY <1>6, <2>1, <2>2
<1> QED BY <1>1, <1>2, <1>8, <1>9, <1>10 DEF Follow

LEMMA SameDb ==
  ASSUME UNCHANGED trainNodesVars, InStep PROVE InStep'
<1>1. file' = file /\ entries' = entries /\ trains' = trains /\ dirty' = dirty
  BY DEF trainNodesVars
<1> QED BY <1>1 DEF InStep, Follow, AllKnown, FindEntry, Single

LEMMA InStepStep == AnswerInv /\ InStep /\ [SearchNext]_trainSearchVars => InStep'
<1> SUFFICES ASSUME AnswerInv, InStep, [SearchNext]_trainSearchVars PROVE InStep'
  OBVIOUS
<1>1. DbTyped /\ FlowTyped
  BY DEF AnswerInv
<1>2. CASE Iterate
  <2>1. CASE UNCHANGED trainNodesVars
    BY <2>1, SameDb
  <2>2. CASE AllocateNode(Event.digits) /\ Event.allocate
    <3>1. Event \in Events
      BY <1>1, <1>2 DEF Iterate, FlowTyped, Requests, Event
    <3>2. Event.digits \in Addresses
      BY <2>2, <3>1, EventFacts
    <3> QED BY <1>1, <2>2, <3>2, AllocateInStep
  <2> QED BY <1>2, <2>1, <2>2 DEF Iterate, IterationDone
<1>3. CASE SearchEntry \/ SendResponse \/ NewNodeReply
  BY <1>3, SameDb DEF SearchEntry, SendResponse, NewNodeReply
<1>4. CASE AskForTrains
  <2>1. UNCHANGED trainNodesVars
    BY <1>4 DEF AskForTrains, HandleIdentifyGlobal, HandleIdentifyProducer, Owe
  <2> QED BY <2>1, SameDb
<1>5. CASE Apply
  BY <1>1, <1>5, ApplyKeeps DEF Apply, InStep
<1>6. ASSUME NEW slot, NEW train, Edit(slot, train) PROVE InStep'
  BY <1>6 DEF Edit, EditFile, InStep
<1>7. CASE UNCHANGED trainSearchVars
  BY <1>7, SameDb DEF trainSearchVars
<1> QED BY <1>2, <1>3, <1>4, <1>5, <1>6, <1>7 DEF SearchNext, Flow, EditAddress, EditMode

(* The virtual nodes of AllTrainNodes stay in step with TrainDb: whatever  *)
(* is edited (an address cleared, a train set to "Unused", two slots made  *)
(* one train), whenever it is applied, and whatever trains searches        *)
(* create, after an update_config the nodes are those of the entries that  *)
(* can be driven, and a node that is there once has the id of its own      *)
(* entry.                                                                  *)
THEOREM NodesStayInStep == SearchSpec => []NodesInStep
<1>1. SearchInit => InStep
  BY StartKeeps DEF SearchInit, InStep
<1>2. AnswerInv /\ InStep => NodesInStep
  <2> SUFFICES ASSUME AnswerInv, InStep PROVE NodesInStep
    OBVIOUS
  <2>1. DbTyped /\ FlowTyped
    BY DEF AnswerInv
  <2>2. \A i \in DOMAIN trains : /\ trains[i].node \in Slot /\ Driven(trains[i].node)
                                 /\ trains[i].id \in DOMAIN entries
    <3>1. \A i \in DOMAIN trains : trains[i] \in TrainType(Len(entries))
      BY <2>1 DEF DbTyped
    <3>2. DOMAIN entries = 1 .. Len(entries)
      BY <2>1 DEF DbTyped
    <3> QED BY <3>1, <3>2 DEF TrainType
  <2>3. SearchTypeOK
    BY <2>1, <2>2 DEF SearchTypeOK, FlowTyped
  <2>4. ASSUME ~dirty
        PROVE  /\ \A j \in DOMAIN trains :
                     \E i \in DOMAIN entries : NodeOf(entries[i], file) = trains[j].node
               /\ \A m \in DOMAIN entries : Driven(NodeOf(entries[m], file)) =>
                     \E j \in DOMAIN trains : trains[j].node = NodeOf(entries[m], file)
               /\ \A j \in DOMAIN trains :
                     Single(trains, j) => NodeOf(entries[trains[j].id], file) = trains[j].node
    BY <2>4 DEF InStep, Follow, AllKnown, FindEntry
  <2>5. NodesFollowDb
    <3>1. SUFFICES ASSUME ~dirty
          PROVE  {trains[i].node : i \in DOMAIN trains}
                   = {t \in {NodeOf(entries[i], file) : i \in DOMAIN entries} : Driven(t)}
      BY DEF NodesFollowDb
    <3> QED BY <2>2, <2>4, <3>1
  <2>6. IdsFollowDb
    BY <2>4 DEF IdsFollowDb, Single
  <2> QED BY <2>3, <2>5, <2>6 DEF NodesInStep
<1>3. SearchSpec => []InStep
  BY <1>1, InStepStep, SearchInvariant, PTL DEF SearchSpec
<1> QED BY <1>2, <1>3, SearchInvariant, PTL
==============================================================================
