------------------------------ MODULE Heartbeat ------------------------------
(***************************************************************************)
(* How the runtime tracks which applications are alive: runtime_stub_t's   *)
(* registry, its list of heartbeats ordered by recency, the iterators that *)
(* index the list by application, and the eviction timer, driven by the    *)
(* one worker thread that handles the runtime's socket and its timer.      *)
(*                                                                         *)
(* Time is discrete.  A heartbeat's timepoint is kept as its age in ticks, *)
(* and a tick may fall between any two steps of the worker.  m_apps is its *)
(* key set: what an application offers is of no concern here.              *)
(***************************************************************************)
EXTENDS Timer, Sequences

CONSTANTS
    Apps,       \* socket handles of applications
    Iterators,  \* identities of list nodes: one more than the list may hold
    Timeout,    \* std::chrono::seconds(10), in ticks
    Restarts    \* may an application register again while it is registered
                \* (its process restarted before it was evicted)?

ASSUME TimeoutAssumption == Timeout \in Nat \ {0}
ASSUME RestartsAssumption == Restarts \in BOOLEAN

\* Ages stop here: all that is asked of an age is how it compares to Timeout.
MaxAge == Timeout + 1

VARIABLES
    apps,       \* keys of m_apps
    recency,    \* m_heartbeat_by_recency, as a sequence of its nodes ...
    heartbeat,  \* ... and what a node holds
    lookup,     \* m_heartbeat_lookup
    timer,      \* m_eviction_timer
    pc,         \* the worker
    timerDue,   \* did this round of poll() also report the timerfd?
    toEvict,    \* apps_to_evict, what is left of it
    crash       \* "no", or how the process ended: "assert", "exception"

registry == <<apps, recency, heartbeat, lookup>>
vars == <<registry, timer, pc, timerDue, toEvict, crash>>

Init ==
    /\ apps = {}
    /\ recency = <<>>
    /\ heartbeat = <<>>
    /\ lookup = <<>>
    /\ timer = Make(Literal(Timeout), FALSE)
    /\ pc = "poll"
    /\ timerDue = FALSE
    /\ toEvict = <<>>
    /\ crash = "no"

Crash(how) ==
    /\ crash' = how
    /\ UNCHANGED <<registry, timer, pc, timerDue, toEvict>>

-----------------------------------------------------------------------------
(* Lists and maps.                                                         *)

Without(f, x) == [y \in DOMAIN f \ {x} |-> f[y]]

Insert(f, x, v) == [y \in DOMAIN f \cup {x} |-> IF y = x THEN v ELSE f[y]]

Erase(s, node) ==
    LET i == CHOOSE i \in DOMAIN s : s[i] = node
    IN  [k \in 1 .. Len(s) - 1 |-> IF k < i THEN s[k] ELSE s[k + 1]]

NewNode == CHOOSE node \in Iterators : node \notin DOMAIN heartbeat

NodesLeft == Iterators \ DOMAIN heartbeat

\* mutant: the node is erased but the lookup keeps its iterator
EvictKeepLookup(a) ==
    /\ recency' = Erase(recency, lookup[a])
    /\ heartbeat' = Without(heartbeat, lookup[a])
    /\ apps' = apps \ {a}
    /\ UNCHANGED lookup

\* evict_application
Evict(a) ==
    /\ recency' = Erase(recency, lookup[a])
    /\ heartbeat' = Without(heartbeat, lookup[a])
    /\ lookup' = Without(lookup, a)
    /\ apps' = apps \ {a}

\* 10 s minus the age of the least recent heartbeat: negative when that is late.
Remaining(list, nodes) == Measured(Timeout - nodes[list[1]].age)

-----------------------------------------------------------------------------
(* Messages on the runtime's socket, handled in the round's socket job.    *)

Handling == crash = "no" /\ pc = "socket"

\* emplace keeps the iterator an application already has.
Register(a) ==
    /\ Handling
    /\ \E node \in NodesLeft : node # NewNode
    /\ a \in apps => Restarts
    /\ apps' = apps \cup {a}
    /\ recency' = Append(recency, NewNode)
    /\ heartbeat' = Insert(heartbeat, NewNode, [sender |-> a, age |-> 0])
    /\ lookup' = IF a \in DOMAIN lookup THEN lookup ELSE Insert(lookup, a, NewNode)
    /\ timer' = IF IsRunning(timer) THEN timer ELSE Start(timer)
    /\ UNCHANGED <<pc, timerDue, toEvict, crash>>

Unregister(a) ==
    /\ Handling
    /\ a \in apps
    /\ timer' = IF Len(recency) = 1 THEN Reschedule(timer, Literal(Timeout)) ELSE timer
    /\ Evict(a)
    /\ UNCHANGED <<pc, timerDue, toEvict, crash>>

\* m_apps.at(sender) throws in a noexcept handler.
UnregisterUnknown(a) ==
    /\ Handling
    /\ a \notin apps
    /\ Crash("exception")

\* mutant: the renewed heartbeat keeps its place in the list
HeartbeatInPlace(a) ==
    /\ Handling
    /\ a \in DOMAIN lookup
    /\ heartbeat' = [heartbeat EXCEPT ![lookup[a]].age = 0]
    /\ UNCHANGED <<apps, recency, lookup, timer, pc, timerDue, toEvict, crash>>

\* A heartbeat of an application that is not registered is ignored.
HandleHeartbeat(a) ==
    /\ Handling
    /\ a \in DOMAIN lookup
    /\ NodesLeft # {}
    /\ recency' = Append(Erase(recency, lookup[a]), NewNode)
    /\ heartbeat' = Insert(Without(heartbeat, lookup[a]), NewNode, [sender |-> a, age |-> 0])
    /\ lookup' = [lookup EXCEPT ![a] = NewNode]
    /\ timer' = IF lookup[a] = recency[1]
                THEN Start(Reschedule(timer, Remaining(recency', heartbeat')))
                ELSE timer
    /\ UNCHANGED <<apps, pc, timerDue, toEvict, crash>>

Message(a) == Register(a) \/ Unregister(a) \/ UnregisterUnknown(a) \/ HandleHeartbeat(a)

-----------------------------------------------------------------------------
(* A round of the worker.  The socket was put on the watch list when the   *)
(* runtime was constructed and the timer later, so the socket comes first. *)

PollReturns ==
    /\ crash = "no" /\ pc = "poll"
    /\ timerDue' = (timer.watched /\ CanRead(timer))
    /\ \/ pc' = "socket"
       \/ timerDue' /\ pc' = "timer"
    /\ UNCHANGED <<registry, timer, toEvict, crash>>

SocketDrained ==
    /\ crash = "no" /\ pc = "socket"
    /\ pc' = IF timerDue THEN "timer" ELSE "poll"
    /\ UNCHANGED <<registry, timer, timerDue, toEvict, crash>>

\* The timer is dispatched if it is watched now, whatever was read by poll().
DispatchTimer ==
    /\ crash = "no" /\ pc = "timer"
    /\ timerDue' = FALSE
    /\ pc' = IF timer.watched THEN "read" ELSE "poll"
    /\ UNCHANGED <<registry, timer, toEvict, crash>>

ReadReturns ==
    /\ crash = "no" /\ pc = "read"
    /\ CanRead(timer)
    /\ timer' = Drain(timer)
    /\ pc' = "expired"
    /\ UNCHANGED <<registry, timerDue, toEvict, crash>>

Stale(node) == heartbeat[node].age >= Timeout

\* mutant: one application is evicted too many
TakeOneMore(n) ==
    /\ n \in 0 .. Len(recency)
    /\ \A k \in 1 .. n - 1 : Stale(recency[k])
    /\ n < Len(recency) => ~Stale(recency[n + 1])

\* take_while: the first n nodes, up to the first that is not stale
TakeStale(n) ==
    /\ n \in 0 .. Len(recency)
    /\ \A k \in 1 .. n : Stale(recency[k])
    /\ n < Len(recency) => ~Stale(recency[n + 1])

Expire ==
    /\ crash = "no" /\ pc = "expired"
    /\ \E n \in 1 .. Len(recency) :
           /\ TakeStale(n)
           /\ toEvict' = [k \in 1 .. n |-> heartbeat[recency[k]].sender]
    /\ pc' = "evicting"
    /\ UNCHANGED <<registry, timer, timerDue, crash>>

\* assert(apps_to_evict.size() > 0)
ExpireAsserts ==
    /\ crash = "no" /\ pc = "expired"
    /\ TakeStale(0)
    /\ Crash("assert")

EvictNext ==
    /\ crash = "no" /\ pc = "evicting" /\ toEvict # <<>>
    /\ Head(toEvict) \in apps
    /\ Evict(Head(toEvict))
    /\ toEvict' = Tail(toEvict)
    /\ UNCHANGED <<timer, pc, timerDue, crash>>

\* m_apps.at(app.sender) throws: an earlier node of the same sender was evicted.
EvictNextThrows ==
    /\ crash = "no" /\ pc = "evicting" /\ toEvict # <<>>
    /\ Head(toEvict) \notin apps
    /\ Crash("exception")

\* mutant: the timer is rescheduled for the next front but not started
RearmNoStart ==
    /\ crash = "no" /\ pc = "evicting" /\ toEvict = <<>>
    /\ timer' = IF recency # <<>> THEN Reschedule(timer, Remaining(recency, heartbeat))
                ELSE Reschedule(timer, Literal(Timeout))
    /\ pc' = "poll"
    /\ UNCHANGED <<registry, timerDue, toEvict, crash>>

Rearm ==
    /\ crash = "no" /\ pc = "evicting" /\ toEvict = <<>>
    /\ timer' = IF recency # <<>>
                THEN Start(Reschedule(timer, Remaining(recency, heartbeat)))
                ELSE Reschedule(timer, Literal(Timeout))
    /\ pc' = "poll"
    /\ UNCHANGED <<registry, timerDue, toEvict, crash>>

Tick ==
    /\ crash = "no"
    /\ heartbeat' = [node \in DOMAIN heartbeat |->
                        [heartbeat[node] EXCEPT !.age = IF @ < MaxAge THEN @ + 1 ELSE @]]
    /\ timer' = Elapse(timer)
    /\ UNCHANGED <<apps, recency, lookup, pc, timerDue, toEvict, crash>>

Crashed == crash # "no" /\ UNCHANGED vars

-----------------------------------------------------------------------------
Worker == PollReturns \/ SocketDrained \/ DispatchTimer \/ ReadReturns \/ Expire
              \/ ExpireAsserts \/ EvictNext \/ EvictNextThrows \/ Rearm

Next == (\E a \in Apps : Message(a)) \/ Worker \/ Tick \/ Crashed

Spec == Init /\ [][Next]_vars

\* Time passes and the worker runs; the socket runs empty in every round.
FairSpec == Spec /\ WF_vars(Tick) /\ WF_vars(Worker)

-----------------------------------------------------------------------------
TypeOK ==
    /\ apps \subseteq Apps
    /\ DOMAIN heartbeat \subseteq Iterators
    /\ recency \in Seq(DOMAIN heartbeat)
    /\ heartbeat \in [DOMAIN heartbeat -> [sender : Apps, age : 0 .. MaxAge]]
    /\ lookup \in [DOMAIN lookup -> DOMAIN heartbeat]
    /\ timer \in Timers
    /\ timer.state \in {"DISARMED", "ARMED"} /\ ~timer.oneshot
    /\ pc \in {"poll", "socket", "timer", "read", "expired", "evicting"}
    /\ timerDue \in BOOLEAN
    /\ toEvict \in Seq(Apps)
    /\ crash \in {"no", "assert", "exception"}

\* The iterators kept beside the list stay valid: every registered application,
\* and nothing else, has one, and it leads to a node of its own.
LookupConsistent ==
    /\ DOMAIN lookup = apps
    /\ \A a \in apps : lookup[a] \in DOMAIN heartbeat /\ heartbeat[lookup[a]].sender = a

\* "front is the least recent" (runtime_stub.hpp:134), of a list in which every
\* node occurs once: what take_while and the timer's deadline rely on.
FrontIsLeastRecent ==
    /\ \A i, j \in DOMAIN recency : recency[i] = recency[j] => i = j
    /\ \A node \in DOMAIN heartbeat : \E i \in DOMAIN recency : recency[i] = node
    /\ \A i, j \in DOMAIN recency :
           i < j => heartbeat[recency[i]].age >= heartbeat[recency[j]].age

\* "registered applications must immediately be registered for heartbeat
\* tracking" (runtime_stub.cpp:95): no record is left that no lookup leads to.
RecordsTracked ==
    \A node \in DOMAIN heartbeat :
        heartbeat[node].sender \in apps /\ lookup[heartbeat[node].sender] = node

\* runtime_stub.cpp:50, assert(apps_to_evict.size() > 0)
AssertionHolds == crash # "assert"

\* Only the registration of an application that is still registered, because
\* its process restarted, leaves a record behind that nothing leads to.
TrackLostOnlyByRestart ==
    [][ (RecordsTracked /\ ~RecordsTracked') => \E a \in apps : Register(a) ]_vars

\* The eviction timer evicts an application only if its last message that
\* counts as a sign of life is Timeout old, unless such a record names it.
EvictedOnlyIfSilent ==
    [][ (pc = "evicting" /\ RecordsTracked) =>
            \A a \in apps \ apps' : Stale(lookup[a]) ]_vars

\* What it all implements is a table of leases.  A lease is as old as the record the
\* lookup leads to, and the records it does not lead to are the forgotten ones.
LeaseAges == [a \in apps |-> heartbeat[lookup[a]].age]

Forgotten(a) ==
    {node \in DOMAIN heartbeat :
        heartbeat[node].sender = a /\ ~(a \in apps /\ lookup[a] = node)}

ForgottenAges == [a \in Apps |-> {heartbeat[node].age : node \in Forgotten(a)}]

Due == {toEvict[k] : k \in DOMAIN toEvict}

Sweeping == pc = "evicting"

Leases == INSTANCE LeaseTable WITH
    age <- LeaseAges, forgotten <- ForgottenAges, due <- Due, sweeping <- Sweeping

\* A round of the eviction timer takes the registrations whose lease was over when
\* it looked, every one of them and no other, however the list is ordered and kept.
ImplementsLeases == Leases!Spec

\* runtime_stub.cpp:58 and 186: the worker was so late that the timer was given no
\* time at all.  It says ARMED, so that nothing starts it, and is disarmed.
RescheduledTooLate == timer.state = "ARMED" /\ timer.duration.ticks <= 0

\* An application that falls silent does not stay registered for ever, unless
\* the process ends or the timer was last rescheduled too late; nothing else stops it.
SilentAppEvicted ==
    \A a \in Apps :
        (<>[][~Message(a)]_vars) =>
            \/ []<>(a \notin apps \/ crash # "no")
            \/ <>[]RescheduledTooLate
=============================================================================
