--------------------------- MODULE PacketScheduler ---------------------------
(***************************************************************************)
(* What the packet scheduler of the command station promises, without      *)
(* saying how: no vector, no positions, no round robin, no queue.          *)
(*                                                                         *)
(* It knows the priority of every registered source, how long ago each got *)
(* a packet, and which changes have been reported and not yet sent.  Each  *)
(* packet it fills is                                                      *)
(*   - of an exclusive source of the highest priority, if any is exclusive;*)
(*   - else a reported change of a train that has been quiet for MinDelay, *)
(*     or a refresh of a train that has been quiet for longer,             *)
(*     or idle, and then no train was due a refresh.                       *)
(* A reported change disappears only by being sent, or when its train has  *)
(* gone.  UpdateProcessor implements this specification.                   *)
(***************************************************************************)
EXTENDS Integers, Sequences

CONSTANTS Sources, Idle, Codes, Priorities, ExclusiveMin, MinDelay, PoolSize

VARIABLES
    priority,  \* the priority of every registered source
    age,       \* time since its last packet, capped at MinDelay + 1
    pending,   \* the reported changes that were not sent yet
    track      \* packets on the track

psVars == <<priority, age, pending, track>>

Known == DOMAIN priority

Change == [source : Sources, code : Codes]

HighestExclusive(s) ==
    /\ s \in Known
    /\ priority[s] >= ExclusiveMin
    /\ \A t \in Known : priority[t] <= priority[s]

NobodyExclusive == \A s \in Known : priority[s] < ExclusiveMin

-----------------------------------------------------------------------------
Init ==
    /\ priority = [s \in {} |-> 0]
    /\ age = [s \in {} |-> 0]
    /\ pending = {}
    /\ track = <<>>

Register(s, p) ==
    /\ s \notin Known
    /\ priority' = [x \in Known \cup {s} |-> IF x = s THEN p ELSE priority[x]]
    /\ \E a \in 0 .. (MinDelay + 1) :
          age' = [x \in Known \cup {s} |-> IF x = s THEN a ELSE age[x]]
    /\ UNCHANGED <<pending, track>>

Unregister(s) ==
    /\ s \in Known
    /\ priority' = [x \in Known \ {s} |-> priority[x]]
    /\ age' = [x \in Known \ {s} |-> age[x]]
    /\ UNCHANGED <<pending, track>>

Report(u) ==
    /\ u.source \in Known
    /\ pending' = pending \cup {u}
    /\ UNCHANGED <<priority, age, track>>

\* Some change may be forgotten because its source is gone.
ForgetOrKeep ==
    \/ UNCHANGED pending
    \/ \E u \in Change : u.source \notin Known /\ pending' = pending \ {u}

Fill(s, c) ==
    /\ Len(track) < PoolSize
    /\ track' = Append(track, [source |-> s, code |-> c])
    /\ age' = [x \in Known |-> IF x = s THEN 0 ELSE age[x]]
    /\ UNCHANGED priority

FillExclusive(s) ==
    /\ HighestExclusive(s)
    /\ Fill(s, 0)
    /\ UNCHANGED pending

\* The same change may have been reported again, and then stays pending.
FillChange(u) ==
    /\ NobodyExclusive
    /\ u \in pending
    /\ u.source \in Known
    /\ age[u.source] >= MinDelay
    /\ Fill(u.source, u.code)
    /\ pending' \in {pending, pending \ {u}}

FillRefresh(s) ==
    /\ NobodyExclusive
    /\ s \in Known
    /\ age[s] > MinDelay
    /\ Fill(s, 0)
    /\ ForgetOrKeep

FillIdle ==
    /\ NobodyExclusive
    /\ \A s \in Known : age[s] <= MinDelay
    /\ Fill(Idle, 0)
    /\ ForgetOrKeep

Transmitted ==
    /\ track # <<>>
    /\ track' = Tail(track)
    /\ UNCHANGED <<priority, age, pending>>

TimePasses ==
    /\ age' = [s \in Known |-> IF age[s] < MinDelay + 1 THEN age[s] + 1 ELSE age[s]]
    /\ UNCHANGED <<priority, pending, track>>

Next ==
    \/ \E s \in Sources, p \in Priorities : Register(s, p)
    \/ \E s \in Sources : Unregister(s)
    \/ \E u \in Change : Report(u)
    \/ \E s \in Sources : FillExclusive(s)
    \/ \E u \in Change : FillChange(u)
    \/ \E s \in Sources : FillRefresh(s)
    \/ FillIdle
    \/ Transmitted
    \/ TimePasses

Spec == Init /\ [][Next]_psVars

=============================================================================
