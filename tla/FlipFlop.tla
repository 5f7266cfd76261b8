------------------------------ MODULE FlipFlop ------------------------------
(***************************************************************************)
(* FlipFlopAutomata (control-logic.cc): gives out one permission at a time *)
(* to its clients, in turn.  A client that has the turn and does not ask   *)
(* may lose it for once to one that does: the other one steals.  A client  *)
(* asks with its request bit, finds its granted bit set, and takes the     *)
(* permission by clearing both and setting taken (RequestClientInterface). *)
(***************************************************************************)
EXTENDS Integers, FiniteSets, SequencesExt

CONSTANTS
    Clients,        \* the clients, in the order they were added
    WaitTimeout,    \* kWaitTimeout, ticks between two permissions
    HoldTimeout     \* ticks a client with the turn has to refuse a steal

TheClients == {Clients[k] : k \in DOMAIN Clients}

ASSUME FlipFlopAssumption ==
    /\ Clients \in Seq(TheClients)
    /\ IsInjective(Clients) /\ Len(Clients) >= 2
    /\ WaitTimeout \in Nat /\ HoldTimeout \in Nat

VARIABLE ff     \* the state, the timer and the bits of the automaton; a
                \* field that is a set holds the clients whose bit is 1

FlipFlopInit ==
    ff = [state |-> "StFree", timer |-> 0, next |-> {},
          request |-> {}, granted |-> {}, taken |-> {},
          stealRequest |-> FALSE, stealGranted |-> FALSE]

-----------------------------------------------------------------------------
(* The rules for one client, in the order they are tried.                  *)
TakeTurn(s, c) ==
    IF s.state = "StFree"
    THEN [s EXCEPT !.state = "StLocked", !.next = @ \cup {c}] ELSE s

Grant(s, c) ==
    IF s.state = "StLocked" /\ c \in s.next /\ c \in s.request
    THEN [s EXCEPT !.state = "StGranted", !.granted = @ \cup {c}] ELSE s

Redacted(s, c) ==
    IF s.state = "StGranted" /\ c \in s.next /\ c \in s.granted /\ c \notin s.request
    THEN [s EXCEPT !.state = "StLocked", !.granted = @ \ {c}] ELSE s

Taken(s, c) ==
    IF s.state = "StGranted" /\ c \in s.next /\ c \in s.taken
    THEN [s EXCEPT !.taken = @ \ {c}, !.state = "StGrantWait",
                   !.timer = WaitTimeout]
    ELSE s

PassTurn(s, c) ==
    IF s.state = "StGrantWait" /\ c \in s.next /\ s.timer = 0
    THEN [s EXCEPT !.next = @ \ {c}, !.state = "StFree"] ELSE s

AskToSteal(s, c) ==
    LET asks == s.state = "StLocked" /\ c \notin s.next /\ c \in s.request
        t    == IF asks THEN [s EXCEPT !.stealRequest = TRUE] ELSE s
    IN  IF t.state = "StGrantWait"
        THEN [t EXCEPT !.stealRequest = FALSE, !.stealGranted = FALSE] ELSE t

(* mutant: the state stays StLocked, so the client with the turn may be    *)
(* granted as well                                                         *)
StealUnseen(s, c) ==
    IF /\ s.state = "StLocked" /\ c \notin s.next /\ c \in s.request
       /\ s.stealGranted
    THEN [s EXCEPT !.stealRequest = FALSE, !.stealGranted = FALSE,
                   !.granted = @ \cup {c}]
    ELSE s

Steal(s, c) ==
    IF /\ s.state = "StLocked" /\ c \notin s.next /\ c \in s.request
       /\ s.stealGranted
    THEN [s EXCEPT !.stealRequest = FALSE, !.stealGranted = FALSE,
                   !.granted = @ \cup {c}, !.state = "StStolen"]
    ELSE s

StolenRedacted(s, c) ==
    IF s.state = "StStolen" /\ c \in s.granted /\ c \notin s.request
    THEN [s EXCEPT !.granted = @ \ {c}, !.state = "StLocked"] ELSE s

StolenTaken(s, c) ==
    IF s.state = "StStolen" /\ c \in s.taken
    THEN [s EXCEPT !.taken = @ \ {c}, !.timer = WaitTimeout,
                   !.state = "StStolenWait"]
    ELSE s

(* The steal from the side of the client that has the turn.                *)
PutOnHold(s, c) ==
    IF s.state = "StLocked" /\ c \in s.next /\ c \notin s.request /\ s.stealRequest
    THEN [s EXCEPT !.timer = HoldTimeout, !.state = "StStealOnHold"] ELSE s

GrantSteal(s, c) ==
    IF s.state = "StStealOnHold" /\ c \in s.next /\ c \notin s.request /\ s.timer = 0
    THEN [s EXCEPT !.state = "StLocked", !.stealGranted = TRUE] ELSE s

RefuseSteal(s, c) ==
    IF s.state = "StStealOnHold" /\ c \in s.next /\ c \in s.request
    THEN [s EXCEPT !.timer = 0, !.state = "StLocked"] ELSE s

TakeBack(s, c) ==
    IF s.state = "StStolenWait" /\ c \in s.next /\ s.timer = 0
    THEN [s EXCEPT !.state = "StLocked",
                   !.stealRequest = FALSE, !.stealGranted = FALSE]
    ELSE s

ServeClient(s, c) ==
    LET turn == PassTurn(Taken(Redacted(Grant(TakeTurn(s, c), c), c), c), c)
        steal == StolenTaken(StolenRedacted(Steal(AskToSteal(turn, c), c), c), c)
    IN  TakeBack(RefuseSteal(GrantSteal(PutOnHold(steal, c), c), c), c)

FlipFlopLogic(s) == FoldLeft(ServeClient, s, Clients)

RunFlipFlop == ff' = FlipFlopLogic(ff)

(* What a client does: AddBlockTransitionOnPermit.                         *)
RequestPermit(s, c, on) ==
    [s EXCEPT !.request = IF on THEN @ \cup {c} ELSE @ \ {c}]

TakePermit(s, c) ==
    [s EXCEPT !.request = @ \ {c}, !.granted = @ \ {c}, !.taken = @ \cup {c}]

-----------------------------------------------------------------------------
FlipFlopTypeOK ==
    ff \in [state : {"StFree", "StLocked", "StGranted", "StGrantWait",
                     "StStolen", "StStolenWait", "StStealOnHold"},
            timer : 0..(WaitTimeout + HoldTimeout),
            next : SUBSET TheClients, request : SUBSET TheClients,
            granted : SUBSET TheClients, taken : SUBSET TheClients,
            stealRequest : BOOLEAN, stealGranted : BOOLEAN]

(* One permission is out at a time, stolen or not: it is granted, or taken *)
(* and not yet seen by the automaton, and the automaton knows it.          *)
OnePermit ==
    /\ Cardinality(ff.granted) + Cardinality(ff.taken) <= 1
    /\ ff.granted \cup ff.taken # {} => ff.state \in {"StGranted", "StStolen"}
    /\ ff.state = "StGranted" => ff.granted \cup ff.taken = ff.next
=============================================================================
