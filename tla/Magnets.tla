------------------------------ MODULE Magnets -------------------------------
(***************************************************************************)
(* The automaton that pulls the magnets of turnouts (control-logic.cc,     *)
(* MagnetCommandAutomata).  One automaton drives all the magnets of a      *)
(* board; its state says which of them is being pulled, so that one coil   *)
(* is on at a time, and its timer makes a pull last from one tick of the   *)
(* clock to the next.  A coupled magnet has no coil: it follows another    *)
(* one and its commands are forwarded to that one.                         *)
(*                                                                         *)
(* Every bit is a set of magnets, those for which it is 1 (thrown).        *)
(***************************************************************************)
EXTENDS Integers, FiniteSets, SequencesExt

CONSTANTS
    Real,       \* the magnets with coils, in the order they were added
    Coupled,    \* the coupled magnets, in the order they were added
    Original,   \* the magnet each coupled magnet follows
    Invert,     \* the coupled magnets that are the inverse of their original
    Default     \* the magnets with coils that are thrown at boot

Reals == {Real[k] : k \in DOMAIN Real}
Couples == {Coupled[k] : k \in DOMAIN Coupled}
AllMagnets == Reals \cup Couples

StBase == "StBase"

ASSUME MagnetsAssumption ==
    /\ Real \in Seq(Reals) /\ Coupled \in Seq(Couples)
    /\ IsInjective(Real) /\ IsInjective(Coupled)
    /\ Reals \cap Couples = {} /\ StBase \notin Reals
    /\ Original \in [Couples -> Reals]
    /\ Invert \subseteq Couples
    /\ Default \subseteq Reals

VARIABLE mag    \* the bits, the state and the timer of the automaton

Put(S, x, on) == IF on THEN S \cup {x} ELSE S \ {x}

-----------------------------------------------------------------------------
(* The bits of the original as the coupled magnet sees them.               *)
RemoteValue(S, c) == (Original[c] \in S) # (c \in Invert)
SetRemote(S, c, on) == Put(S, Original[c], on # (c \in Invert))

(* mutant: a command given to the coupled magnet is not passed on *)
NotPassedOn(s, c) ==
    LET there == RemoteValue(s.command, c)
    IN  IF there # (c \in s.remote)
        THEN [s EXCEPT !.remote = Put(@, c, there),
                       !.command = Put(@, c, there)]
        ELSE s

(* MagnetAutomataCouple: a command of the original that has changed is     *)
(* taken over, else a command of this magnet that has changed is passed to *)
(* the original.                                                           *)
CoupleCommands(s, c) ==
    LET there == RemoteValue(s.command, c)
        here  == c \in s.command
    IN  IF there # (c \in s.remote)
        THEN [s EXCEPT !.remote = Put(@, c, there),
                       !.command = Put(@, c, there)]
        ELSE [s EXCEPT !.remote = Put(@, c, here),
                       !.command = SetRemote(@, c, here)]

Couple(s, c) ==
    LET t == CoupleCommands(s, c)
    IN  [t EXCEPT !.current = Put(@, c, RemoteValue(t.current, c))]

TimerDone(s) == s.timer = 0

(* mutant: the lock and the timer are not looked at *)
PullAtOnce(s, m) ==
    LET thrown == m \in s.command
    IN  IF m \notin s.set0 \cup s.set1 /\ (thrown # (m \in s.current))
        THEN [s EXCEPT !.state = m, !.timer = 1,
                       !.set1 = IF thrown THEN @ \cup {m} ELSE @,
                       !.set0 = IF thrown THEN @ ELSE @ \cup {m}]
        ELSE s

(* Pulls the magnet if it can get the lock.                                *)
Pull(s, m) ==
    LET thrown == m \in s.command
    IN  IF s.state = StBase /\ TimerDone(s) /\ (thrown # (m \in s.current))
        THEN [s EXCEPT !.state = m, !.timer = 1,
                       !.set1 = IF thrown THEN @ \cup {m} ELSE @,
                       !.set0 = IF thrown THEN @ ELSE @ \cup {m}]
        ELSE s

(* mutant: the lock is kept when the magnet is released *)
LockKept(s, m) ==
    IF s.state = m /\ TimerDone(s) /\ m \in s.set0 \cup s.set1
    THEN [s EXCEPT !.current = Put(@, m, m \in s.set1),
                   !.set0 = @ \ {m}, !.set1 = @ \ {m}]
    ELSE s

(* Releases the magnet and the lock.                                       *)
ReleaseMagnet(s, m) ==
    IF s.state = m /\ TimerDone(s) /\ m \in s.set0 \cup s.set1
    THEN [s EXCEPT !.state = StBase,
                   !.current = Put(@, m, m \in s.set1),
                   !.set0 = @ \ {m}, !.set1 = @ \ {m}]
    ELSE s

(* "Safety: set magnets to zero."                                          *)
MagnetsToZero(s, m) ==
    IF s.state = StBase
    THEN [s EXCEPT !.set0 = @ \ {m}, !.set1 = @ \ {m}] ELSE s

MagnetEntry(s, m) == MagnetsToZero(ReleaseMagnet(Pull(s, m), m), m)

(* "This will make magnets only be pulled at tick times."                  *)
MagnetFinal(s) ==
    IF s.state = StBase /\ TimerDone(s) THEN [s EXCEPT !.timer = 1] ELSE s

(* The plugins in the order of their levels.                               *)
MagnetBody(s) ==
    MagnetFinal(FoldLeft(MagnetEntry, FoldLeft(Couple, s, Coupled), Real))

-----------------------------------------------------------------------------
(* The automaton has run once in StInit: the coupled magnets have taken    *)
(* over bits that were still 0, then every magnet got its default command  *)
(* and the opposite current state, "this will force an update at boot".    *)
MagnetsInit ==
    mag = [state |-> StBase, timer |-> 0,
           command |-> Default \cup Invert, remote |-> Invert,
           current |-> (Reals \ Default) \cup Invert,
           set0 |-> {}, set1 |-> {}]

RunMagnets == mag' = MagnetBody(mag)

(* mutant: the timer is counted down below 0 *)
TickBelowZero == mag' = [mag EXCEPT !.timer = @ - 1]

MagnetTick == ~TimerDone(mag) /\ mag' = [mag EXCEPT !.timer = @ - 1]

(* Somebody changes the command of a magnet.                               *)
CommandMagnet(m) ==
    mag' = [mag EXCEPT !.command = Put(@, m, m \notin @)]

-----------------------------------------------------------------------------
MagnetsTypeOK ==
    mag \in [state : {StBase} \cup Reals, timer : {0, 1},
             command : SUBSET AllMagnets, remote : SUBSET Couples,
             current : SUBSET AllMagnets,
             set0 : SUBSET Reals, set1 : SUBSET Reals]

(* One coil of the board is on at a time: the state of the automaton is    *)
(* the lock that the magnets share.                                        *)
OneCoil == Cardinality(mag.set0) + Cardinality(mag.set1) <= 1

(* The magnets of the board are where their commands want them, and the   *)
(* coupled ones in step with their originals.                              *)
Settled ==
    /\ mag.command = mag.current
    /\ \A c \in Couples : (c \in mag.command) = RemoteValue(mag.command, c)
=============================================================================
