-------------------------- MODULE UpdateProcessor --------------------------
(***************************************************************************)
(* The packet scheduler of the command station: commandstation::           *)
(* UpdateProcessor (cs/commandstation/UpdateProcessor.hxx and .cxx).       *)
(*                                                                         *)
(* It is handed empty packets by the track interface and fills each one    *)
(* with the next packet of one packet source (a train, or a special        *)
(* source such as the emergency stop broadcast): the exclusive source if   *)
(* there is one, else an urgent update, else the next source of the        *)
(* round-robin background refresh, else a DCC idle packet.                 *)
(*                                                                         *)
(* Every caller runs on the executor of stack.service(), so each method is *)
(* one action.  A packet source is added by its constructor and removed by *)
(* its destructor, hence the guards of AddRefreshSource and                *)
(* RemoveRefreshSource.  Times are kept as ages: age[s] stands for         *)
(* now - lastPacketTime_ and is capped at MinDelay + 1, above which no     *)
(* comparison in the code can tell two ages apart.                         *)
(***************************************************************************)
EXTENDS Integers, Sequences

CONSTANTS
    Sources,       \* the dcc::PacketSource objects that may be registered
    Idle,          \* marks a packet filled by set_dcc_idle()
    Codes,         \* the codes of urgent updates; code 0 is a refresh
    Priorities,    \* the priorities a source may be registered with
    ExclusiveMin,  \* dcc::UpdateLoopBase::EXCLUSIVE_MIN_PRIORITY
    MinDelay,      \* config_dcc_packet_min_refresh_delay_ms, in ticks
    PoolSize,      \* packets the track interface holds at a time
    MaxQueue       \* bound on the length of priorityUpdates

ASSUME UpdateProcessorAssumption ==
    /\ Idle \notin Sources
    /\ Codes \subseteq Nat
    /\ Priorities \subseteq Nat
    /\ \E max \in Priorities \cup {0} :           \* priority_ is unsigned
          \A p \in Priorities : p <= max
    /\ ExclusiveMin \in Nat \ {0}
    /\ MinDelay \in Nat \ {0}
    /\ PoolSize \in Nat \ {0}
    /\ MaxQueue \in Nat

VARIABLES
    refreshSources,    \* vector of the registered sources
    priority,          \* packetSourceStates_[s].priority_ of every entry
    age,               \* age of packetSourceStates_[s].lastPacketTime_
    nextRefreshIndex,  \* next position of the background refresh, from 0
    exclusiveIndex,    \* position of the exclusive source, or NoExclusive
    hasRefreshSource,  \* whether any source is registered
    priorityUpdates,   \* queue of urgent updates
    track,             \* filled packets the track interface has not finished
    uptime             \* os_get_time_monotonic(), capped like an age

upVars == <<refreshSources, priority, age, nextRefreshIndex, exclusiveIndex,
            hasRefreshSource, priorityUpdates, track, uptime>>

-----------------------------------------------------------------------------
NoExclusive == 2047

\* Positions of the code count from 0, those of a sequence from 1.
At(seq, i) == seq[i + 1]

Registered == {refreshSources[i] : i \in DOMAIN refreshSources}

AgeCap == MinDelay + 1

Update == [source : Sources, code : Codes]

Packet == [source : Sources \cup {Idle}, code : Codes \cup {0}]

\* The erase-remove idiom of remove_refresh_source.  A source is registered at
\* most once, so exactly one position disappears.
Without(seq, s) ==
    LET p == CHOOSE i \in DOMAIN seq : seq[i] = s
    IN  [i \in 1 .. (Len(seq) - 1) |-> IF i < p THEN seq[i] ELSE seq[i + 1]]

\* Mutant of LastHighest: an exclusive source, without comparing priorities.
AnyExclusive(seq, prio) ==
    {i \in 0 .. (Len(seq) - 1) : prio[At(seq, i)] >= ExclusiveMin}

\* The positions at which the loop of remove_refresh_source ends: the last one
\* among those of the largest exclusive priority.
LastHighest(seq, prio) ==
    {i \in 0 .. (Len(seq) - 1) :
        /\ prio[At(seq, i)] >= ExclusiveMin
        /\ \A j \in 0 .. (Len(seq) - 1) :
              /\ prio[At(seq, j)] <= prio[At(seq, i)]
              /\ j > i => prio[At(seq, j)] < prio[At(seq, i)]}

-----------------------------------------------------------------------------
Init ==
    /\ refreshSources = <<>>
    /\ priority = [s \in {} |-> 0]
    /\ age = [s \in {} |-> 0]
    /\ nextRefreshIndex = 0
    /\ exclusiveIndex = NoExclusive
    /\ hasRefreshSource = FALSE
    /\ priorityUpdates = <<>>
    /\ track = <<>>
    /\ uptime = 0

\* Mutant of TakesOver: the newest exclusive source wins.
NewestTakesOver(p) == p >= ExclusiveMin

\* Whether a new source of priority p becomes the exclusive one.
TakesOver(p) ==
    /\ p >= ExclusiveMin
    /\ p > IF exclusiveIndex = NoExclusive
           THEN 0
           ELSE priority[At(refreshSources, exclusiveIndex)]

\* add_refresh_source(source, priority).  lastPacketTime_ = 0 makes the age of
\* the new source the uptime of the node.
AddRefreshSource(s, p) ==
    /\ s \notin Registered
    /\ Len(refreshSources) < NoExclusive
    /\ refreshSources' = Append(refreshSources, s)
    /\ hasRefreshSource' = TRUE
    /\ priority' = [x \in DOMAIN priority \cup {s} |->
                       IF x = s THEN p ELSE priority[x]]
    /\ age' = [x \in DOMAIN age \cup {s} |-> IF x = s THEN uptime ELSE age[x]]
    /\ exclusiveIndex' = IF TakesOver(p) THEN Len(refreshSources)
                                         ELSE exclusiveIndex
    /\ UNCHANGED <<nextRefreshIndex, priorityUpdates, track, uptime>>

\* Mutants of Erased and StillAny: the map entry, or the flag, is left behind.
NotErased(f, s) == f

NotReset(seq) == hasRefreshSource

\* packetSourceStates_.erase(source), for either field of the entry.
Erased(f, s) == [x \in DOMAIN f \ {s} |-> f[x]]

\* hasRefreshSource_ once seq is the vector.
StillAny(seq) == hasRefreshSource /\ seq # <<>>

RemoveRefreshSource(s) ==
    /\ s \in Registered
    /\ refreshSources' = Without(refreshSources, s)
    /\ hasRefreshSource' = StillAny(refreshSources')
    /\ priority' = Erased(priority, s)
    /\ age' = Erased(age, s)
    /\ LET best == LastHighest(refreshSources', priority')
       IN  \/ best = {} /\ exclusiveIndex' = NoExclusive
           \/ exclusiveIndex' \in best
    /\ UNCHANGED <<nextRefreshIndex, priorityUpdates, track, uptime>>

\* notify_update(source, code): a train reports that a user changed it.
NotifyUpdate(s, c) ==
    /\ s \in Registered
    /\ Len(priorityUpdates) < MaxQueue
    /\ priorityUpdates' = Append(priorityUpdates, [source |-> s, code |-> c])
    /\ UNCHANGED <<refreshSources, priority, age, nextRefreshIndex,
                   exclusiveIndex, hasRefreshSource, track, uptime>>

-----------------------------------------------------------------------------
(* entry(): fills one empty packet and passes it to the track interface.   *)

\* get_next_packet() of source s, the time stamp, and trackSend_->send().
SendFrom(s, c) ==
    /\ track' = Append(track, [source |-> s, code |-> c])
    /\ age' = [age EXCEPT ![s] = 0]

SendIdle ==
    /\ track' = Append(track, [source |-> Idle, code |-> 0])
    /\ UNCHANGED age

\* The position the k-th try of the background loop looks at, k from 0.
TryIndex(k) ==
    LET n == Len(refreshSources)
        start == IF nextRefreshIndex >= n THEN 0 ELSE nextRefreshIndex
    IN  IF start + k < n THEN start + k ELSE start + k - n

\* Mutants of RefreshDue and PositionAfter: no minimum delay; no round robin.
AlwaysDue(k) == k >= 0

SamePosition(i) == i

RefreshDue(k) == age[At(refreshSources, TryIndex(k))] > MinDelay

\* nextRefreshIndex_++
PositionAfter(i) == i + 1

\* The background loop: at most one turn over all sources, stopping at the
\* first that has been quiet for long enough.
BackgroundRefresh ==
    LET n == Len(refreshSources)
    IN  \/ /\ ~hasRefreshSource
           /\ SendIdle
           /\ UNCHANGED nextRefreshIndex
        \/ /\ hasRefreshSource
           /\ \E k \in 0 .. (n - 1) :
                 /\ RefreshDue(k)
                 /\ \A j \in 0 .. (k - 1) : ~RefreshDue(j)
                 /\ SendFrom(At(refreshSources, TryIndex(k)), 0)
                 /\ nextRefreshIndex' = PositionAfter(TryIndex(k))
        \/ /\ hasRefreshSource
           /\ \A k \in 0 .. (n - 1) : ~RefreshDue(k)
           /\ SendIdle
           /\ nextRefreshIndex' = PositionAfter(TryIndex(n - 1))

\* Mutants: an update that is too recent is dropped; the comparison of times is
\* the wrong way round; a removed source is called.
DropHead(q) == Tail(q)

LongAgo(s) == age[s] > MinDelay

EntryCallsRemoved ==
    /\ Len(track) < PoolSize
    /\ exclusiveIndex = NoExclusive
    /\ priorityUpdates # <<>>
    /\ Head(priorityUpdates).source \notin DOMAIN priority
    /\ priorityUpdates' = Tail(priorityUpdates)
    /\ track' = Append(track, Head(priorityUpdates))
    /\ UNCHANGED <<age, nextRefreshIndex, refreshSources, priority,
                   exclusiveIndex, hasRefreshSource, uptime>>

\* Puts the head of the queue back at its end.
Requeue(q) == Append(Tail(q), Head(q))

TooRecent(s) == age[s] < MinDelay

EntryUnchanged == UNCHANGED <<refreshSources, priority, exclusiveIndex,
                              hasRefreshSource, uptime>>

EntryExclusive ==
    /\ Len(track) < PoolSize
    /\ exclusiveIndex # NoExclusive
    /\ SendFrom(At(refreshSources, exclusiveIndex), 0)
    /\ UNCHANGED <<nextRefreshIndex, priorityUpdates>>
    /\ EntryUnchanged

EntryNoUrgent ==
    /\ Len(track) < PoolSize
    /\ exclusiveIndex = NoExclusive
    /\ priorityUpdates = <<>>
    /\ BackgroundRefresh
    /\ UNCHANGED priorityUpdates
    /\ EntryUnchanged

EntryUrgentRemoved ==
    /\ Len(track) < PoolSize
    /\ exclusiveIndex = NoExclusive
    /\ priorityUpdates # <<>>
    /\ Head(priorityUpdates).source \notin DOMAIN priority
    /\ priorityUpdates' = Tail(priorityUpdates)
    /\ BackgroundRefresh
    /\ EntryUnchanged

EntryUrgentTooRecent ==
    /\ Len(track) < PoolSize
    /\ exclusiveIndex = NoExclusive
    /\ priorityUpdates # <<>>
    /\ Head(priorityUpdates).source \in DOMAIN priority
    /\ TooRecent(Head(priorityUpdates).source)
    /\ priorityUpdates' = Requeue(priorityUpdates)
    /\ BackgroundRefresh
    /\ EntryUnchanged

EntryUrgentSent ==
    /\ Len(track) < PoolSize
    /\ exclusiveIndex = NoExclusive
    /\ priorityUpdates # <<>>
    /\ Head(priorityUpdates).source \in DOMAIN priority
    /\ ~TooRecent(Head(priorityUpdates).source)
    /\ priorityUpdates' = Tail(priorityUpdates)
    /\ SendFrom(Head(priorityUpdates).source, Head(priorityUpdates).code)
    /\ UNCHANGED nextRefreshIndex
    /\ EntryUnchanged

Entry ==
    \/ EntryExclusive
    \/ EntryNoUrgent
    \/ EntryUrgentRemoved
    \/ EntryUrgentTooRecent
    \/ EntryUrgentSent

\* The track interface finishes the oldest packet; its buffer comes back to
\* entry() as an empty packet.
TrackDone ==
    /\ track # <<>>
    /\ track' = Tail(track)
    /\ UNCHANGED <<refreshSources, priority, age, nextRefreshIndex,
                   exclusiveIndex, hasRefreshSource, priorityUpdates, uptime>>

Older(a) == IF a < AgeCap THEN a + 1 ELSE a

Tick ==
    /\ uptime' = Older(uptime)
    /\ age' = [s \in DOMAIN age |-> Older(age[s])]
    /\ UNCHANGED <<refreshSources, priority, nextRefreshIndex, exclusiveIndex,
                   hasRefreshSource, priorityUpdates, track>>

Next ==
    \/ \E s \in Sources, p \in Priorities : AddRefreshSource(s, p)
    \/ \E s \in Sources : RemoveRefreshSource(s)
    \/ \E s \in Sources, c \in Codes : NotifyUpdate(s, c)
    \/ Entry
    \/ TrackDone
    \/ Tick

Spec == Init /\ [][Next]_upVars

\* The executor keeps running entry() for every empty packet, the track
\* interface keeps returning packets, and the clock does not stop.
Fairness ==
    /\ WF_upVars(Entry)
    /\ WF_upVars(TrackDone)
    /\ WF_upVars(Tick)

FairSpec == Spec /\ Fairness

-----------------------------------------------------------------------------
\* The values every field of the class can take.
TypeOK ==
    /\ refreshSources \in Seq(Sources)
    /\ Len(refreshSources) <= NoExclusive
    /\ priority \in [Registered -> Priorities]
    /\ age \in [Registered -> 0 .. AgeCap]
    /\ nextRefreshIndex \in Nat
    /\ exclusiveIndex \in Nat
    /\ hasRefreshSource \in BOOLEAN
    /\ priorityUpdates \in Seq(Update)
    /\ track \in Seq(Packet)
    /\ Len(track) <= PoolSize
    /\ uptime \in 0 .. AgeCap

\* A source is in refreshSources_ at most once (so the one erase of
\* remove_refresh_source is enough and it never leaves a pointer to a deleted
\* source behind) and hasRefreshSource_ tells whether there is any.
SourcesConsistent ==
    /\ \A i, j \in DOMAIN refreshSources :
          refreshSources[i] = refreshSources[j] => i = j
    /\ hasRefreshSource <=> refreshSources # <<>>

Exclusive(s) == priority[s] >= ExclusiveMin

\* exclusiveIndex_ is maintained incrementally by add_refresh_source, while
\* remove_refresh_source shifts positions under it.  After any sequence of
\* both it is a position of the vector holding a source of the highest
\* exclusive priority, and NO_EXCLUSIVE exactly when no source is exclusive.
ExclusiveIsHighest ==
    /\ exclusiveIndex = NoExclusive => \A s \in Registered : ~Exclusive(s)
    /\ exclusiveIndex # NoExclusive =>
          /\ exclusiveIndex < Len(refreshSources)
          /\ Exclusive(At(refreshSources, exclusiveIndex))
          /\ \A s \in Registered :
                priority[s] <= priority[At(refreshSources, exclusiveIndex)]

\* What entry() has just put on the track, and whether it put anything.
Filled == Len(track') = Len(track) + 1

FilledPacket == track'[Len(track')]

\* entry() calls only sources that are registered, "Do not call it!" otherwise:
\* a queued update of a source that was removed (and is deleted) is dropped.
OnlyRegisteredCalled ==
    [][Filled => FilledPacket.source \in Registered \cup {Idle}]_upVars

\* While any exclusive source is registered every packet comes from an
\* exclusive source, of the highest priority: a train never gets through an
\* emergency stop, the emergency stop never through the programming track.
ExclusiveOwnsTrack ==
    [][Filled => \A s \in Registered :
                    Exclusive(s) => /\ FilledPacket.source # Idle
                                    /\ priority[FilledPacket.source] >= priority[s]
      ]_upVars

\* Decoders are confused by packets that follow each other too closely: no
\* train gets two packets within the minimum refresh delay, whether the
\* second is urgent or background refresh.
PacketsSpaced ==
    [][Filled /\ FilledPacket.source # Idle /\ ~Exclusive(FilledPacket.source)
          => age[FilledPacket.source] >= MinDelay]_upVars

\* The scheduler seen from outside: the changes in the queue, as a set.
Scheduler == INSTANCE PacketScheduler WITH
    pending <- {priorityUpdates[i] : i \in DOMAIN priorityUpdates}

\* The class implements the abstract scheduler: exclusive sources by priority,
\* reported changes never lost while their train exists, refresh and idle
\* packets only where the minimum delay allows.
ImplementsScheduler == Scheduler!Spec

StableSources == <>[][refreshSources' = refreshSources]_upVars

\* Background refresh starves nobody: once trains stop coming and going and
\* there is neither an exclusive source nor an urgent update, every train is
\* refreshed again and again.
EveryoneRefreshed ==
    \A s \in Sources :
        /\ StableSources
        /\ <>[](/\ s \in Registered
                /\ exclusiveIndex = NoExclusive
                /\ priorityUpdates = <<>>)
        => []<>(s \in Registered /\ age[s] = 0)

\* Updates of one train are all sent: as long as no other train has updates
\* queued, putting an update that is too recent back does not starve it.
OneTrainsUpdatesSent ==
    \A s \in Sources :
        /\ StableSources
        /\ <>[](/\ s \in Registered
                /\ exclusiveIndex = NoExclusive
                /\ \A i \in DOMAIN priorityUpdates :
                      priorityUpdates[i].source = s)
        /\ <>[][Len(priorityUpdates') <= Len(priorityUpdates)]_upVars
        => <>[](priorityUpdates = <<>>)

\* Background refresh starves no train, and the updates of one train are sent
\* although entry() keeps putting back those that are too recent.
NobodyStarves == EveryoneRefreshed /\ OneTrainsUpdatesSent

\* "Holds the list of train nodes that have reported a change. We will always
\* take a train node from this list first before starting background refresh":
\* once the trains are settled and nobody reports more changes, the list
\* empties, rather than background refresh running on past it forever.
UpdatesTakenFirst ==
    /\ StableSources
    /\ <>[](exclusiveIndex = NoExclusive)
    /\ <>[][Len(priorityUpdates') <= Len(priorityUpdates)]_upVars
    => <>[](priorityUpdates = <<>>)

=============================================================================
