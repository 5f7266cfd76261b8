----------------------------- MODULE FoldProofs -----------------------------
(***************************************************************************)
(* What a fold keeps.  The automata of the layout handle their routes,     *)
(* magnets and clients one by one, and the models fold a step over the     *)
(* sequence of them.  This module proves once that FoldLeft keeps what its *)
(* step keeps; a module that needs it for a step of its own instantiates   *)
(* Op with the step and Good with the predicate.                           *)
(*                                                                         *)
(* The function by which FoldLeft is defined exists: by induction over the *)
(* length of the sequence, done with a least counterexample.               *)
(***************************************************************************)
EXTENDS SequencesExt, WellFoundedInduction, TLAPS

CONSTANTS
    Op(_, _),       \* the step
    Good(_)         \* what it keeps

(* A set of natural numbers that is not empty has a least element.         *)
LEMMA Least ==
  ASSUME NEW T, T \subseteq Nat, T # {}
  PROVE  \E m \in T : \A n \in T : m <= n
<1>1. PICK m \in T : \A n \in T : ~ (<<n, m>> \in OpToRel(<, Nat))
  BY WFMin, NatLessThanWellFounded
<1>2. ASSUME NEW n \in T PROVE m <= n
  <2>1. n \in Nat /\ m \in Nat
    OBVIOUS
  <2>2. n < m => <<n, m>> \in OpToRel(<, Nat)
    BY <2>1 DEF OpToRel
  <2>3. ~(n < m)
    BY <1>1, <2>2
  <2> QED BY <2>1, <2>3
<1> QED BY <1>2

(* The maximum of a set of indices is in it, and is the last index if that *)
(* is.                                                                     *)
LEMMA MaxOfLast ==
  ASSUME NEW n \in Nat, NEW s \in SUBSET (1 .. n), n \in s
  PROVE  Max(s) = n
<1>1. n \in s /\ \A y \in s : n >= y
  OBVIOUS
<1>2. \A x \in s : (\A y \in s : x >= y) => x = n
  BY <1>1
<1> QED BY <1>1, <1>2 DEF Max

LEMMA MaxInside ==
  ASSUME NEW n \in Nat, NEW s \in SUBSET (1 .. n), s # {}
  PROVE  Max(s) \in s
<1> DEFINE U == {k \in Nat : \A y \in s : k >= y}
<1>1. n \in U
  OBVIOUS
<1>2. PICK k \in U : \A j \in U : k <= j
  BY <1>1, Least
<1>3. k \in Nat /\ \A y \in s : k >= y
  OBVIOUS
<1>4. k \in s
  <2>1. SUFFICES ASSUME k \notin s PROVE FALSE
    OBVIOUS
  <2>2. PICK z \in s : TRUE
    OBVIOUS
  <2>3. \A y \in s : y \in Nat /\ y >= 1 /\ k - 1 >= y
    BY <1>3, <2>1
  <2>4. k - 1 \in Nat
    BY <1>3, <2>2, <2>3
  <2>5. k - 1 \in U
    BY <2>3, <2>4
  <2> QED BY <1>2, <1>3, <2>5
<1> QED BY <1>3, <1>4 DEF Max

(* One equation of the function that FoldLeft is defined by.               *)
Folded(g, s, base, seq) ==
    IF s = {} THEN base ELSE Op(g[s \ {Max(s)}], seq[Max(s)])

(* That function exists.                                                   *)
LEMMA FoldExists ==
  ASSUME NEW base, NEW seq, NEW N \in Nat
  PROVE  \E g : g = [s \in SUBSET (1 .. N) |-> Folded(g, s, base, seq)]
<1> DEFINE Exists(n) == \E g : g = [s \in SUBSET (1 .. n) |-> Folded(g, s, base, seq)]
           T == {n \in Nat : ~Exists(n)}
<1>1. SUFFICES ASSUME T # {} PROVE FALSE
  OBVIOUS
<1>2. PICK m \in T : \A n \in T : m <= n
  BY <1>1, Least
<1>3. m # 0
  <2> DEFINE g == [s \in SUBSET (1 .. 0) |-> base]
  <2>1. \A s \in SUBSET (1 .. 0) : s = {}
    OBVIOUS
  <2>2. g = [s \in SUBSET (1 .. 0) |-> Folded(g, s, base, seq)]
    BY <2>1 DEF Folded
  <2>3. 0 \notin T
    BY <2>2
  <2> QED BY <2>3
<1>4. m - 1 \in Nat /\ Exists(m - 1)
  <2> HIDE DEF Exists
  <2>1. m \in Nat /\ m - 1 \in Nat
    BY <1>2, <1>3
  <2>2. m - 1 \notin T
    BY <1>2, <2>1
  <2> QED BY <2>1, <2>2
<1>5. PICK g : g = [s \in SUBSET (1 .. (m - 1)) |-> Folded(g, s, base, seq)]
  BY <1>4
<1> DEFINE h == [s \in SUBSET (1 .. m) |-> IF m \in s THEN Op(g[s \ {m}], seq[m]) ELSE g[s]]
<1>6. ASSUME NEW s \in SUBSET (1 .. m) PROVE h[s] = Folded(h, s, base, seq)
  <2>1. CASE m \in s
    <3>1. Max(s) = m
      BY <2>1, MaxOfLast
    <3>2. s \ {m} \in SUBSET (1 .. m) /\ m \notin s \ {m}
      OBVIOUS
    <3>3. h[s \ {m}] = g[s \ {m}]
      BY <3>2
    <3> QED BY <2>1, <3>1, <3>3 DEF Folded
  <2>2. CASE m \notin s
    <3>1. s \in SUBSET (1 .. (m - 1))
      BY <1>4, <2>2
    <3>2. h[s] = Folded(g, s, base, seq)
      BY <1>5, <2>2, <3>1
    <3>3. s # {} => Max(s) \in s
      BY MaxInside
    <3>4. s # {} => h[s \ {Max(s)}] = g[s \ {Max(s)}]
      BY <2>2, <3>3
    <3> QED BY <3>2, <3>4 DEF Folded
  <2> QED BY <2>1, <2>2
<1>7. h = [s \in SUBSET (1 .. m) |-> Folded(h, s, base, seq)]
  BY <1>6
<1>8. m \notin T
  BY <1>7
<1> QED BY <1>2, <1>8

(* Induction up to a number, for a set of numbers.                         *)
LEMMA UpTo ==
  ASSUME NEW n \in Nat, NEW T, 0 \in T, \A k \in 0 .. n : k < n /\ k \in T => k + 1 \in T
  PROVE  n \in T
<1> DEFINE U == {k \in 0 .. n : k \notin T}
<1>1. SUFFICES ASSUME U # {} PROVE FALSE
  OBVIOUS
<1>2. PICK m \in U : \A k \in U : m <= k
  <2>1. U \subseteq Nat
    OBVIOUS
  <2> HIDE DEF U
  <2> QED BY <1>1, <2>1, Least
<1>3. m \in Nat /\ m # 0 /\ m <= n /\ m \notin T
  BY <1>2
<1>4. m - 1 \in 0 .. n /\ m - 1 < n /\ m - 1 \in T
  BY <1>2, <1>3
<1>5. (m - 1) + 1 \in T
  BY <1>4
<1> QED BY <1>3, <1>5

(* The function by which FoldLeft is defined.                              *)
Run(base, seq) == CHOOSE g : g = [s \in SUBSET (1 .. Len(seq)) |-> Folded(g, s, base, seq)]

(* It goes from one element of the sequence to the next.                   *)
LEMMA RunSteps ==
  ASSUME NEW base, NEW E, NEW seq \in Seq(E)
  PROVE  /\ Run(base, seq)[1 .. 0] = base
         /\ \A k \in 0 .. Len(seq) :
               k < Len(seq) => Run(base, seq)[1 .. (k + 1)] = Op(Run(base, seq)[1 .. k], seq[k + 1])
<1> DEFINE iter == Run(base, seq)
<1>1. Len(seq) \in Nat
  OBVIOUS
<1>2. iter = [s \in SUBSET (1 .. Len(seq)) |-> Folded(iter, s, base, seq)]
  BY FoldExists, <1>1 DEF Run
<1> HIDE DEF iter
<1>3. iter[1 .. 0] = base
  <2>1. 1 .. 0 = {}
    OBVIOUS
  <2> QED BY <1>2, <2>1 DEF Folded
<1>4. ASSUME NEW k \in 0 .. Len(seq), k < Len(seq)
      PROVE  iter[1 .. (k + 1)] = Op(iter[1 .. k], seq[k + 1])
  <2>1. /\ k \in Nat /\ k + 1 \in Nat
        /\ 1 .. (k + 1) \in SUBSET (1 .. Len(seq)) /\ k + 1 \in 1 .. (k + 1)
        /\ (1 .. (k + 1)) \ {k + 1} = 1 .. k
    BY <1>1, <1>4
  <2>2. Max(1 .. (k + 1)) = k + 1
    BY <2>1, MaxOfLast
  <2> QED BY <1>2, <2>1, <2>2 DEF Folded
<1> QED BY <1>3, <1>4 DEF iter

(* A fold keeps what its step keeps, over a sequence of any length: this   *)
(* is how the loops over directions_, magnets_ and clients_ in the         *)
(* automata's bodies are reasoned about.                                   *)
THEOREM FoldKeeps ==
  ASSUME NEW base, NEW E, NEW seq \in Seq(E), Good(base),
         \A s, e : Good(s) /\ e \in E => Good(Op(s, e))
  PROVE  Good(FoldLeft(Op, base, seq))
<1> DEFINE iter == Run(base, seq)
           T == {k \in Nat : Good(iter[1 .. k])}
<1>1. FoldLeft(Op, base, seq) = iter[1 .. Len(seq)]
  <2>1. DOMAIN seq = 1 .. Len(seq)
    OBVIOUS
  <2> QED BY <2>1 DEF FoldLeft, MapThenFoldSet, Folded, Run
<1> HIDE DEF iter
<1>2. Len(seq) \in Nat /\ 0 \in T
  BY RunSteps DEF iter
<1>3. ASSUME NEW k \in 0 .. Len(seq), k < Len(seq), k \in T PROVE k + 1 \in T
  <2>1. seq[k + 1] \in E /\ k + 1 \in Nat
    BY <1>2, <1>3
  <2>2. iter[1 .. (k + 1)] = Op(iter[1 .. k], seq[k + 1])
    BY <1>3, RunSteps DEF iter
  <2>3. Good(iter[1 .. (k + 1)])
    BY <1>3, <2>1, <2>2
  <2> QED BY <2>1, <2>3
<1>4. Len(seq) \in T
  <2> HIDE DEF T
  <2> QED BY <1>2, <1>3, UpTo
<1>5. Good(iter[1 .. Len(seq)])
  BY <1>4
<1> QED BY <1>1, <1>5

(* The same where what is kept depends on the number of elements handled   *)
(* so far, which Good gets along with the result: for loops that make      *)
(* progress, as those of update_config do.                                 *)
THEOREM FoldCounts ==
  ASSUME NEW base, NEW E, NEW seq \in Seq(E), Good(<<0, base>>),
         \A k \in 0 .. Len(seq) : \A s :
            k < Len(seq) /\ Good(<<k, s>>) => Good(<<k + 1, Op(s, seq[k + 1])>>)
  PROVE  Good(<<Len(seq), FoldLeft(Op, base, seq)>>)
<1> DEFINE iter == Run(base, seq)
           T == {k \in Nat : Good(<<k, iter[1 .. k]>>)}
<1>1. FoldLeft(Op, base, seq) = iter[1 .. Len(seq)]
  <2>1. DOMAIN seq = 1 .. Len(seq)
    OBVIOUS
  <2> QED BY <2>1 DEF FoldLeft, MapThenFoldSet, Folded, Run
<1> HIDE DEF iter
<1>2. Len(seq) \in Nat /\ 0 \in T
  BY RunSteps DEF iter
<1>3. ASSUME NEW k \in 0 .. Len(seq), k < Len(seq), k \in T PROVE k + 1 \in T
  <2>1. iter[1 .. (k + 1)] = Op(iter[1 .. k], seq[k + 1])
    BY <1>3, RunSteps DEF iter
  <2>2. Good(<<k + 1, iter[1 .. (k + 1)]>>) /\ k + 1 \in Nat
    BY <1>3, <2>1
  <2> QED BY <2>2
<1>4. Len(seq) \in T
  <2> HIDE DEF T
  <2> QED BY <1>2, <1>3, UpTo
<1>5. Good(<<Len(seq), iter[1 .. Len(seq)]>>)
  BY <1>4
<1> QED BY <1>1, <1>5

(* The same where what is kept also depends on something that the loop     *)
(* does not change, such as the train whose schedule it runs through.      *)
THEOREM FoldRelates ==
  ASSUME NEW p, NEW base, NEW E, NEW seq \in Seq(E), Good(<<p, 0, base>>),
         \A k \in 0 .. Len(seq) : \A s :
            k < Len(seq) /\ Good(<<p, k, s>>) => Good(<<p, k + 1, Op(s, seq[k + 1])>>)
  PROVE  Good(<<p, Len(seq), FoldLeft(Op, base, seq)>>)
<1> DEFINE iter == Run(base, seq)
           T == {k \in Nat : Good(<<p, k, iter[1 .. k]>>)}
<1>1. FoldLeft(Op, base, seq) = iter[1 .. Len(seq)]
  <2>1. DOMAIN seq = 1 .. Len(seq)
    OBVIOUS
  <2> QED BY <2>1 DEF FoldLeft, MapThenFoldSet, Folded, Run
<1> HIDE DEF iter
<1>2. Len(seq) \in Nat /\ 0 \in T
  BY RunSteps DEF iter
<1>3. ASSUME NEW k \in 0 .. Len(seq), k < Len(seq), k \in T PROVE k + 1 \in T
  <2>1. iter[1 .. (k + 1)] = Op(iter[1 .. k], seq[k + 1])
    BY <1>3, RunSteps DEF iter
  <2>2. Good(<<p, k + 1, iter[1 .. (k + 1)]>>) /\ k + 1 \in Nat
    BY <1>3, <2>1
  <2> QED BY <2>2
<1>4. Len(seq) \in T
  <2> HIDE DEF T
  <2> QED BY <1>2, <1>3, UpTo
<1>5. Good(<<p, Len(seq), iter[1 .. Len(seq)]>>)
  BY <1>4
<1> QED BY <1>1, <1>5
=============================================================================
