--------------------------- MODULE HeartbeatProofs ---------------------------
(***************************************************************************)
(* The runtime's registry, its heartbeat list and the iterators between    *)
(* them stay consistent, for any number of applications and any timeout,   *)
(* restarts of applications included; records are lost track of by such    *)
(* restarts only, without them only silent applications are evicted, and   *)
(* the whole implements the abstract table of leases, restarts or not.     *)
(* The timer that module relies on is proved about at the end, under every *)
(* order of its owners' calls, its callback and the kernel's clock.        *)
(***************************************************************************)
EXTENDS Heartbeat, TimerHandleState, TLAPS

-----------------------------------------------------------------------------
(* The timer operations the runtime uses keep a periodic timer a timer     *)
(* that is either DISARMED or ARMED.                                       *)

EvictionTimers == {t \in Timers : t.state \in {"DISARMED", "ARMED"} /\ ~t.oneshot}

\* timerfd_settime leaves the handle alone, and sets the kernel timer and clears its
\* expirations unless it is given a negative time, when it does nothing.
LEMMA SetTimeFields ==
    ASSUME NEW t \in Timers, NEW value \in Int, NEW interval \in Int
    PROVE  LET u == SetTime(t, value, interval) IN
           /\ u \in Timers
           /\ u.state = t.state /\ u.oneshot = t.oneshot /\ u.duration = t.duration
           /\ u.it_interval = t.it_interval /\ u.it_value = t.it_value /\ u.watched = t.watched
           /\ value >= 0 /\ interval >= 0 =>
                  u.value = value /\ u.interval = interval /\ u.expirations = 0
           /\ value < 0 \/ interval < 0 =>
                  u.value = t.value /\ u.interval = t.interval /\ u.expirations = t.expirations
<1>1. CASE value < 0 \/ interval < 0
  BY <1>1 DEF SetTime
<1>2. CASE ~(value < 0 \/ interval < 0)
  <2> DEFINE u == [t EXCEPT !.value = value, !.interval = interval, !.expirations = 0]
  <2>1. SetTime(t, value, interval) = u
    BY <1>2 DEF SetTime
  <2>2. value \in Nat /\ interval \in Nat
    BY <1>2
  <2>3. u \in Timers
    BY <2>2 DEF Timers
  <2>4. /\ u.state = t.state /\ u.oneshot = t.oneshot /\ u.duration = t.duration
        /\ u.it_interval = t.it_interval /\ u.it_value = t.it_value /\ u.watched = t.watched
        /\ u.value = value /\ u.interval = interval /\ u.expirations = 0
    BY DEF Timers
  <2> HIDE DEF u
  <2> QED
    BY <1>2, <2>1, <2>3, <2>4
<1> QED
  BY <1>1, <1>2

\* The constructor sets the kernel timer to no time at all, which has an effect on its
\* interval only, and none if that is negative.
LEMMA MakeFields ==
    ASSUME NEW d \in [ticks : Int, measured : BOOLEAN], NEW oneshot \in BOOLEAN
    PROVE  LET t == Make(d, oneshot) IN
           /\ t \in Timers /\ t.state = "DISARMED" /\ t.oneshot = oneshot /\ t.duration = d
           /\ t.it_interval = (IF oneshot THEN 0 ELSE d.ticks) /\ t.it_value = 0 /\ ~t.watched
           /\ t.value = 0 /\ t.expirations = 0
           /\ ~oneshot /\ d.ticks > 0 => t.interval > 0
<1> DEFINE i == IF oneshot THEN 0 ELSE d.ticks
           r == [state |-> "DISARMED", oneshot |-> oneshot, duration |-> d,
                 it_interval |-> i, it_value |-> 0, watched |-> FALSE,
                 value |-> 0, interval |-> 0, expirations |-> 0]
<1>1. i \in Int
  OBVIOUS
<1>2. Make(d, oneshot) = SetTime(r, 0, i)
  BY DEF Make
<1>3. ~oneshot /\ d.ticks > 0 => i > 0
  OBVIOUS
<1> HIDE DEF i
<1>4. r \in Timers
  BY <1>1 DEF Timers, States
<1>5. /\ r.state = "DISARMED" /\ r.oneshot = oneshot /\ r.duration = d
      /\ r.it_interval = i /\ r.it_value = 0 /\ ~r.watched /\ r.value = 0 /\ r.expirations = 0
  OBVIOUS
<1> HIDE DEF r
<1> DEFINE t == SetTime(r, 0, i)
<1>6. /\ t \in Timers /\ t.state = "DISARMED" /\ t.oneshot = oneshot /\ t.duration = d
      /\ t.it_interval = i /\ t.it_value = 0 /\ ~t.watched
      /\ i >= 0 => t.value = 0 /\ t.interval = i /\ t.expirations = 0
      /\ i < 0 => t.value = 0 /\ t.expirations = 0
  BY <1>1, <1>4, <1>5, 0 \in Int, SetTimeFields
<1> HIDE DEF t
<1>7. t.value = 0 /\ t.expirations = 0 /\ (~oneshot /\ d.ticks > 0 => t.interval > 0)
  BY <1>1, <1>3, <1>6
<1>8. Make(d, oneshot) = t
  BY <1>2 DEF t
<1> QED
  BY <1>6, <1>7, <1>8 DEF i

\* start() leaves a well-typed timer.
LEMMA StartType ==
    ASSUME NEW t \in EvictionTimers PROVE Start(t) \in EvictionTimers
<1>1. CASE t.state # "DISARMED"
  BY <1>1 DEF Start
<1>2. CASE t.state = "DISARMED"
  <2> DEFINE s == [t EXCEPT !.watched = TRUE, !.it_value = t.it_interval, !.state = "ARMED"]
  <2>1. s \in Timers /\ s.state = "ARMED" /\ ~s.oneshot
    BY DEF EvictionTimers, Timers, States
  <2>2. t.it_interval \in Int
    BY DEF EvictionTimers, Timers
  <2>3. Start(t) = SetTime(s, t.it_interval, t.it_interval)
    BY <1>2 DEF Start
  <2> HIDE DEF s
  <2> QED
    BY <2>1, <2>2, <2>3, SetTimeFields DEF EvictionTimers
<1> QED
  BY <1>1, <1>2

\* So does stop(), running or not.
LEMMA StopType ==
    ASSUME NEW t \in EvictionTimers PROVE Stop(t) \in Timers /\ ~Stop(t).oneshot
<1>1. CASE t.state \notin {"ARMED", "PAUSED"}
  BY <1>1 DEF Stop, EvictionTimers
<1>2. CASE t.state \in {"ARMED", "PAUSED"}
  <2> DEFINE s == [t EXCEPT !.watched = FALSE, !.it_value = 0, !.state = "STOPPED"]
  <2>1. s \in Timers
    <3>1. t \in Timers
      BY DEF EvictionTimers
    <3>2. "STOPPED" \in States /\ 0 \in Int /\ FALSE \in BOOLEAN
      BY DEF States
    <3> QED
      BY <3>1, <3>2 DEF Timers
  <2>4. ~s.oneshot
    BY DEF EvictionTimers, Timers
  <2>2. t.it_interval \in Int
    BY DEF EvictionTimers, Timers
  <2>3. Stop(t) = SetTime(s, 0, t.it_interval)
    BY <1>2 DEF Stop
  <2> HIDE DEF s
  <2> QED
    BY <2>1, <2>2, <2>3, <2>4, SetTimeFields
<1> QED
  BY <1>1, <1>2

\* reschedule() with a positive duration, likewise.
LEMMA RescheduleType ==
    ASSUME NEW t \in EvictionTimers, NEW d \in [ticks : Int, measured : BOOLEAN]
    PROVE  Reschedule(t, d) \in EvictionTimers
<1>1. CASE SameDuration(t.duration, d)
  BY <1>1 DEF Reschedule
<1>2. CASE ~SameDuration(t.duration, d)
  <2> DEFINE p == Stop(t)
             s == [p EXCEPT !.duration = d, !.it_interval = d.ticks]
             u == [s EXCEPT !.state = "DISARMED"]
  <2>1. p \in Timers /\ ~p.oneshot
    BY StopType
  <2>2. Reschedule(t, d) = SetTime(u, s.it_value, s.it_interval)
    BY <1>2 DEF Reschedule
  <2> HIDE DEF p
  <2>3. s \in Timers /\ ~s.oneshot
    BY <2>1 DEF Timers
  <2>4. s.it_value \in Int /\ s.it_interval \in Int
    BY <2>3 DEF Timers
  <2> HIDE DEF s
  <2>5. u \in Timers /\ u.state = "DISARMED" /\ ~u.oneshot
    BY <2>3 DEF Timers, States
  <2> HIDE DEF u
  <2> QED
    BY <2>2, <2>4, <2>5, SetTimeFields DEF EvictionTimers
<1> QED
  BY <1>1, <1>2

\* The kernel's clock and the read after an expiry leave a well-typed timer.
LEMMA ElapseType ==
    ASSUME NEW t \in EvictionTimers PROVE Elapse(t) \in EvictionTimers /\ Drain(t) \in EvictionTimers
<1>1. t \in Timers /\ t.value \in Nat /\ t.interval \in Nat
  BY DEF EvictionTimers, Timers
<1>2. Drain(t) \in EvictionTimers
  <2>1. Drain(t) \in Timers
    BY <1>1 DEF Drain, Timers
  <2> QED
    BY <2>1 DEF Drain, EvictionTimers, Timers
<1>3. CASE t.value = 0
  BY <1>2, <1>3 DEF Elapse
<1>4. CASE t.value > 1
  <2> DEFINE u == [t EXCEPT !.value = t.value - 1]
  <2>1. u \in Timers
    BY <1>1, <1>4 DEF Timers
  <2>2. u.state = t.state /\ u.oneshot = t.oneshot
    BY <1>1 DEF Timers
  <2>3. Elapse(t) = u
    BY <1>4 DEF Elapse
  <2> HIDE DEF u
  <2> QED
    BY <1>2, <2>1, <2>2, <2>3 DEF EvictionTimers
<1>5. CASE t.value = 1
  <2> DEFINE u == [t EXCEPT !.value = t.interval, !.expirations = 1]
  <2>1. u \in Timers
    BY <1>1 DEF Timers
  <2>2. u.state = t.state /\ u.oneshot = t.oneshot
    BY <1>1 DEF Timers
  <2>3. Elapse(t) = u
    BY <1>5 DEF Elapse
  <2> HIDE DEF u
  <2> QED
    BY <1>2, <2>1, <2>2, <2>3 DEF EvictionTimers
<1> QED
  BY <1>1, <1>3, <1>4, <1>5

\* What the constants and the computed durations are.
LEMMA DurationType ==
    /\ Literal(Timeout) \in [ticks : Int, measured : BOOLEAN]
    /\ \A list, nodes : nodes[list[1]].age \in Int => Remaining(list, nodes) \in [ticks : Int, measured : BOOLEAN]
  BY TimeoutAssumption DEF Literal, Measured, Remaining

-----------------------------------------------------------------------------
(* std::list as a sequence of distinct nodes.                              *)

Unique(s) == \A i, j \in DOMAIN s : s[i] = s[j] => i = j
Nodes(s) == {s[i] : i \in DOMAIN s}
\* what comes first in t comes first in s
InOrderOf(t, s) ==
    \A k, l \in DOMAIN t : k < l => \E i, j \in DOMAIN s : i < j /\ t[k] = s[i] /\ t[l] = s[j]

\* std::list::erase: the other nodes stay, in their order.
LEMMA EraseProperties ==
    ASSUME NEW S, NEW s \in Seq(S), Unique(s), NEW node \in Nodes(s)
    PROVE  /\ Erase(s, node) \in Seq(S)
           /\ DOMAIN Erase(s, node) = 1 .. Len(s) - 1
           /\ Unique(Erase(s, node))
           /\ Nodes(Erase(s, node)) = Nodes(s) \ {node}
           /\ InOrderOf(Erase(s, node), s)
<1> DEFINE n == Len(s)
           p == CHOOSE i \in DOMAIN s : s[i] = node
           t == Erase(s, node)
           At(k) == IF k < p THEN k ELSE k + 1
<1>1. n \in Nat /\ DOMAIN s = 1 .. n /\ \A k \in 1 .. n : s[k] \in S
  OBVIOUS
<1>2. p \in 1 .. n /\ s[p] = node
  BY <1>1 DEF Nodes
<1>3. t = [k \in 1 .. n - 1 |-> IF k < p THEN s[k] ELSE s[k + 1]]
  BY DEF Erase
<1> HIDE DEF p, n, t
<1>4. \A k \in 1 .. n - 1 : At(k) \in 1 .. n /\ At(k) # p /\ t[k] = s[At(k)]
  BY <1>1, <1>2, <1>3
<1>5. \A k, l \in 1 .. n - 1 : k < l => At(k) < At(l)
  BY <1>1, <1>2
<1>6. \A k, l \in 1 .. n - 1 : At(k) = At(l) => k = l
  BY <1>1, <1>2
<1>7. ASSUME NEW j \in 1 .. n, j # p PROVE \E k \in 1 .. n - 1 : At(k) = j
  <2>1. CASE j < p
    BY <1>1, <1>2, <2>1
  <2>2. CASE j > p
    <3>1. j - 1 \in 1 .. n - 1 /\ ~(j - 1 < p) /\ (j - 1) + 1 = j
      BY <1>1, <1>2, <2>2
    <3> QED
      BY <3>1
  <2> QED
    BY <1>1, <1>2, <1>7, <2>1, <2>2
<1> HIDE DEF At
<1>8. DOMAIN t = 1 .. n - 1 /\ n - 1 \in Nat
  BY <1>1, <1>2, <1>3
<1>9. t \in Seq(S)
  <2>1. t \in [1 .. n - 1 -> S]
    BY <1>1, <1>3, <1>4, <1>8
  <2> QED
    BY <1>8, <2>1
<1>10. Unique(t)
  BY <1>1, <1>4, <1>6, <1>8 DEF Unique
<1>11. Nodes(t) = Nodes(s) \ {node}
  <2>1. ASSUME NEW k \in 1 .. n - 1 PROVE t[k] \in Nodes(s) \ {node}
    BY <1>1, <1>2, <1>4 DEF Nodes, Unique
  <2>2. ASSUME NEW j \in 1 .. n, s[j] # node PROVE \E k \in 1 .. n - 1 : t[k] = s[j]
    <3>1. PICK k \in 1 .. n - 1 : At(k) = j
      BY <1>2, <1>7, <2>2
    <3> QED
      BY <1>4, <3>1
  <2> QED
    <3>1. Nodes(t) = {t[k] : k \in 1 .. n - 1}
      BY <1>8 DEF Nodes
    <3>2. Nodes(s) = {s[j] : j \in 1 .. n}
      BY <1>1 DEF Nodes
    <3>3. ASSUME NEW x \in Nodes(t) PROVE x \in Nodes(s) \ {node}
      BY <2>1, <3>1, <3>3
    <3>4. ASSUME NEW x \in Nodes(s) \ {node} PROVE x \in Nodes(t)
      <4>1. PICK j \in 1 .. n : x = s[j] /\ s[j] # node
        BY <3>2, <3>4
      <4> QED
        BY <2>2, <3>1, <4>1
    <3> QED
      BY <3>3, <3>4
<1>12. \A k, l \in 1 .. n - 1 : k < l => \E i, j \in DOMAIN s : i < j /\ t[k] = s[i] /\ t[l] = s[j]
  BY <1>1, <1>4, <1>5
<1>13. InOrderOf(t, s)
  BY <1>8, <1>12 DEF InOrderOf
<1> QED
  BY <1>8, <1>9, <1>10, <1>11, <1>13 DEF t, n

\* emplace at the end
LEMMA AppendProperties ==
    ASSUME NEW S, NEW s \in Seq(S), Unique(s), NEW node, node \notin Nodes(s)
    PROVE  /\ Append(s, node) \in Seq(S \cup {node})
           /\ Unique(Append(s, node))
           /\ Nodes(Append(s, node)) = Nodes(s) \cup {node}
<1> DEFINE n == Len(s)
           t == Append(s, node)
<1>1. /\ n \in Nat /\ DOMAIN s = 1 .. n /\ DOMAIN t = 1 .. n + 1
      /\ \A k \in 1 .. n : t[k] = s[k]
      /\ t[n + 1] = node
  OBVIOUS
<1>2. t \in Seq(S \cup {node})
  <2>1. s \in Seq(S \cup {node})
    OBVIOUS
  <2> QED
    BY <2>1
<1> HIDE DEF t, n
<1>3. Unique(t)
  BY <1>1 DEF Unique, Nodes
<1>4. Nodes(t) = Nodes(s) \cup {node}
  <2>1. \A k \in 1 .. n + 1 : k \in 1 .. n \/ k = n + 1
    BY <1>1
  <2>2. 1 .. n \subseteq 1 .. n + 1 /\ n + 1 \in 1 .. n + 1
    BY <1>1
  <2> QED
    BY <1>1, <2>1, <2>2 DEF Nodes
<1> QED
  BY <1>1, <1>2, <1>3, <1>4 DEF t, n
-----------------------------------------------------------------------------
(* The inductive invariant.  Neither property is inductive alone: that the *)
(* node an iterator leads to is on the list, and there once, is what makes *)
(* erasing it leave the other iterators valid.                             *)

Heartbeats == [sender : Apps, age : 0 .. MaxAge]

\* What it says of the list alone.
Sorted(list, nodes) ==
    \A i, j \in DOMAIN list : i < j => nodes[list[i]].age >= nodes[list[j]].age

ListOK(list, nodes) ==
    /\ list \in Seq(DOMAIN nodes)
    /\ nodes \in [DOMAIN nodes -> Heartbeats]
    /\ Unique(list)
    /\ DOMAIN nodes \subseteq Nodes(list)
    /\ Sorted(list, nodes)

\* Erasing a node of the list.
LEMMA EraseList ==
    ASSUME NEW list, NEW nodes, ListOK(list, nodes), NEW old \in DOMAIN nodes
    PROVE  ListOK(Erase(list, old), Without(nodes, old))
<1> DEFINE D == DOMAIN nodes
           t == Erase(list, old)
           h == Without(nodes, old)
<1>1. /\ DOMAIN h = D \ {old}
      /\ \A node \in D \ {old} : h[node] = nodes[node]
      /\ h = [node \in D \ {old} |-> nodes[node]]
  BY DEF Without
<1>2. /\ list \in Seq(D) /\ nodes \in [D -> Heartbeats] /\ Unique(list)
      /\ D \subseteq Nodes(list) /\ Sorted(list, nodes) /\ old \in Nodes(list)
  BY DEF ListOK
<1>3. t \in Seq(D) /\ Unique(t) /\ Nodes(t) = Nodes(list) \ {old} /\ InOrderOf(t, list)
  BY <1>2, EraseProperties
<1> HIDE DEF t, h, D
<1>4. \A k \in DOMAIN t : t[k] \in D \ {old}
  <2>1. \A k \in DOMAIN t : t[k] \in Nodes(list) \ {old}
    BY <1>3 DEF Nodes
  <2>2. Nodes(list) \subseteq D
    BY <1>2 DEF Nodes
  <2> QED
    BY <2>1, <2>2
<1>5. t \in Seq(D \ {old})
  BY <1>3, <1>4
<1>6. h \in [D \ {old} -> Heartbeats]
  BY <1>1, <1>2
<1>7. Sorted(t, h)
  <2> SUFFICES ASSUME NEW k \in DOMAIN t, NEW l \in DOMAIN t, k < l
               PROVE  h[t[k]].age >= h[t[l]].age
    BY DEF Sorted
  <2>1. h[t[k]] = nodes[t[k]] /\ h[t[l]] = nodes[t[l]]
    BY <1>1, <1>4
  <2>2. PICK i \in DOMAIN list, j \in DOMAIN list : i < j /\ t[k] = list[i] /\ t[l] = list[j]
    BY <1>3 DEF InOrderOf
  <2> QED
    BY <1>2, <2>1, <2>2 DEF Sorted
<1>8. DOMAIN h \subseteq Nodes(t)
  BY <1>1, <1>2, <1>3
<1>9. ListOK(t, h)
  BY <1>1, <1>3, <1>5, <1>6, <1>7, <1>8 DEF ListOK
<1> QED
  BY <1>1, <1>9 DEF t, h, D

\* Appending a node with a heartbeat received just now.
LEMMA AppendList ==
    ASSUME NEW list, NEW nodes, ListOK(list, nodes), NEW new, new \notin DOMAIN nodes,
           NEW a \in Apps
    PROVE  ListOK(Append(list, new), Insert(nodes, new, [sender |-> a, age |-> 0]))
<1> DEFINE D == DOMAIN nodes
           t == Append(list, new)
           v == [sender |-> a, age |-> 0]
           h == Insert(nodes, new, v)
<1>0. v \in Heartbeats /\ v.sender = a /\ v.age = 0
  <2>1. 0 \in 0 .. MaxAge
    BY TimeoutAssumption DEF MaxAge
  <2> QED
    BY <2>1 DEF Heartbeats
<1> HIDE DEF v
<1>1. /\ DOMAIN h = D \cup {new}
      /\ \A node \in D : h[node] = nodes[node]
      /\ h[new] = v
      /\ h = [node \in D \cup {new} |-> IF node = new THEN v ELSE nodes[node]]
  BY DEF Insert
<1>2. /\ list \in Seq(D) /\ nodes \in [D -> Heartbeats] /\ Unique(list)
      /\ D \subseteq Nodes(list) /\ Sorted(list, nodes)
  BY DEF ListOK
<1>3. new \notin Nodes(list)
  BY <1>2 DEF Nodes
<1>4. /\ t \in Seq(D \cup {new}) /\ DOMAIN t = 1 .. Len(list) + 1
      /\ \A k \in 1 .. Len(list) : t[k] = list[k]
      /\ t[Len(list) + 1] = new
      /\ Unique(t) /\ Nodes(t) = Nodes(list) \cup {new}
  <2>1. t \in Seq(D \cup {new}) /\ Unique(t) /\ Nodes(t) = Nodes(list) \cup {new}
    BY <1>2, <1>3, AppendProperties
  <2>2. /\ DOMAIN t = 1 .. Len(list) + 1
        /\ \A k \in 1 .. Len(list) : t[k] = list[k]
        /\ t[Len(list) + 1] = new
    BY <1>2
  <2> QED
    BY <2>1, <2>2
<1> HIDE DEF t, h, D
<1>5. h \in [D \cup {new} -> Heartbeats]
  BY <1>0, <1>1, <1>2
<1>6. Sorted(t, h)
  <2> SUFFICES ASSUME NEW k \in DOMAIN t, NEW l \in DOMAIN t, k < l
               PROVE  h[t[k]].age >= h[t[l]].age
    BY DEF Sorted
  <2>1. Len(list) \in Nat /\ DOMAIN list = 1 .. Len(list)
    BY <1>2
  <2>2. k \in 1 .. Len(list) /\ t[k] = list[k] /\ list[k] \in D
    BY <1>2, <1>4, <2>1
  <2>3. h[t[k]] = nodes[list[k]] /\ nodes[list[k]].age >= 0
    <3>1. \A x \in Heartbeats : x.age >= 0
      BY TimeoutAssumption DEF Heartbeats, MaxAge
    <3> QED
      BY <1>1, <1>2, <2>2, <3>1
  <2>4. CASE l = Len(list) + 1
    BY <1>0, <1>1, <1>4, <2>3, <2>4
  <2>5. CASE l \in 1 .. Len(list)
    <3>1. t[l] = list[l] /\ list[l] \in D
      BY <1>2, <1>4, <2>1, <2>5
    <3>2. h[t[l]] = nodes[list[l]]
      BY <1>1, <3>1
    <3> QED
      BY <1>2, <2>1, <2>2, <2>3, <2>5, <3>2 DEF Sorted
  <2> QED
    BY <1>4, <2>1, <2>4, <2>5
<1>7. ListOK(t, h)
  BY <1>1, <1>2, <1>4, <1>5, <1>6 DEF ListOK
<1> QED
  BY <1>0, <1>1, <1>7 DEF t, h, D, v

-----------------------------------------------------------------------------
(* What it says of the registry, and how the handlers preserve it.         *)

RInv ==
    /\ apps \subseteq Apps
    /\ DOMAIN heartbeat \subseteq Iterators
    /\ lookup \in [DOMAIN lookup -> DOMAIN heartbeat]
    /\ ListOK(recency, heartbeat)
    /\ LookupConsistent

\* evict_application of a registered application.
LEMMA EvictStep ==
    ASSUME RInv, NEW a \in apps, Evict(a)
    PROVE  RInv'
<1> DEFINE old == lookup[a]
<1>1. /\ DOMAIN lookup = apps /\ old \in DOMAIN heartbeat
      /\ \A b \in apps : lookup[b] \in DOMAIN heartbeat /\ heartbeat[lookup[b]].sender = b
  BY DEF RInv, LookupConsistent
<1>2. recency' = Erase(recency, old) /\ heartbeat' = Without(heartbeat, old)
  BY DEF Evict
<1>3. /\ ListOK(recency', heartbeat')
      /\ DOMAIN heartbeat' = DOMAIN heartbeat \ {old}
      /\ \A node \in DOMAIN heartbeat \ {old} : heartbeat'[node] = heartbeat[node]
  <2>1. ListOK(Erase(recency, old), Without(heartbeat, old))
    BY <1>1, EraseList DEF RInv
  <2> QED
    BY <1>2, <2>1 DEF Without
<1>4. /\ apps' = apps \ {a} /\ DOMAIN lookup' = apps'
      /\ \A b \in apps' : lookup'[b] = lookup[b]
      /\ lookup' = [b \in apps' |-> lookup[b]]
  BY <1>1 DEF Evict, Without
<1>5. \A b \in apps' : lookup'[b] \in DOMAIN heartbeat' /\ heartbeat'[lookup'[b]].sender = b
  BY <1>1, <1>3, <1>4
<1>6. lookup' \in [DOMAIN lookup' -> DOMAIN heartbeat']
  BY <1>4, <1>5
<1> QED
  BY <1>3, <1>4, <1>5, <1>6 DEF RInv, LookupConsistent

\* A free node is one the list does not have.
LEMMA NewNodeFree == NodesLeft # {} => NewNode \in Iterators /\ NewNode \notin DOMAIN heartbeat
  BY DEF NodesLeft, NewNode

\* Registering, for the first time or again.
LEMMA RegisterStep ==
    ASSUME RInv, NEW a \in Apps, Register(a)
    PROVE  RInv'
<1> DEFINE new == NewNode
<1>1. new \in Iterators /\ new \notin DOMAIN heartbeat
  BY NewNodeFree DEF Register
<1>2. /\ recency' = Append(recency, new)
      /\ heartbeat' = Insert(heartbeat, new, [sender |-> a, age |-> 0])
      /\ apps' = apps \cup {a}
      /\ lookup' = IF a \in DOMAIN lookup THEN lookup ELSE Insert(lookup, a, new)
  BY DEF Register
<1> HIDE DEF new
<1>3. /\ ListOK(recency', heartbeat')
      /\ DOMAIN heartbeat' = DOMAIN heartbeat \cup {new}
      /\ \A node \in DOMAIN heartbeat : heartbeat'[node] = heartbeat[node]
      /\ heartbeat'[new].sender = a
  <2>1. ListOK(Append(recency, new), Insert(heartbeat, new, [sender |-> a, age |-> 0]))
    BY <1>1, AppendList DEF RInv
  <2> QED
    <3>1. heartbeat' = [node \in DOMAIN heartbeat \cup {new} |->
                            IF node = new THEN [sender |-> a, age |-> 0] ELSE heartbeat[node]]
      BY <1>2 DEF Insert
    <3>2. ListOK(recency', heartbeat')
      BY <1>2, <2>1
    <3>3. heartbeat'[new] = [sender |-> a, age |-> 0]
      BY <3>1
    <3> QED
      BY <1>1, <3>1, <3>2, <3>3
<1>4. /\ DOMAIN lookup = apps
      /\ \A b \in apps : lookup[b] \in DOMAIN heartbeat /\ heartbeat[lookup[b]].sender = b
  BY DEF RInv, LookupConsistent
<1>5. /\ DOMAIN lookup' = apps'
      /\ \A b \in apps' : lookup'[b] = IF b \in apps THEN lookup[b] ELSE new
      /\ lookup' = [b \in apps' |-> lookup'[b]]
  <2>1. CASE a \in apps
    BY <1>2, <1>4, <2>1 DEF RInv
  <2>2. CASE a \notin apps
    <3>1. lookup' = [y \in apps \cup {a} |-> IF y = a THEN new ELSE lookup[y]]
      BY <1>2, <1>4, <2>2 DEF Insert
    <3> QED
      BY <1>2, <2>2, <3>1
  <2> QED
    BY <2>1, <2>2
<1>6. \A b \in apps' : lookup'[b] \in DOMAIN heartbeat' /\ heartbeat'[lookup'[b]].sender = b
  BY <1>2, <1>3, <1>4, <1>5
<1>7. lookup' \in [DOMAIN lookup' -> DOMAIN heartbeat']
  BY <1>5, <1>6
<1> QED
  BY <1>1, <1>2, <1>3, <1>5, <1>6, <1>7 DEF RInv, LookupConsistent

\* A heartbeat moves the application's node to the end of the list.
LEMMA HeartbeatStep ==
    ASSUME RInv, NEW a \in Apps, HandleHeartbeat(a)
    PROVE  RInv'
<1> DEFINE new == NewNode
           old == lookup[a]
           list == Erase(recency, old)
           nodes == Without(heartbeat, old)
<1>1. new \in Iterators /\ new \notin DOMAIN heartbeat
  BY NewNodeFree DEF HandleHeartbeat
<1>2. /\ recency' = Append(list, new)
      /\ heartbeat' = Insert(nodes, new, [sender |-> a, age |-> 0])
      /\ apps' = apps
      /\ lookup' = [lookup EXCEPT ![a] = new]
      /\ a \in DOMAIN lookup
  BY DEF HandleHeartbeat
<1>3. /\ DOMAIN lookup = apps /\ old \in DOMAIN heartbeat
      /\ \A b \in apps : lookup[b] \in DOMAIN heartbeat /\ heartbeat[lookup[b]].sender = b
  BY <1>2 DEF RInv, LookupConsistent
<1> HIDE DEF new
<1>4. /\ ListOK(list, nodes)
      /\ DOMAIN nodes = DOMAIN heartbeat \ {old}
      /\ \A node \in DOMAIN heartbeat \ {old} : nodes[node] = heartbeat[node]
  <2>1. ListOK(list, nodes)
    BY <1>3, EraseList DEF RInv
  <2> QED
    BY <2>1 DEF Without
<1> HIDE DEF list, nodes
<1>5. /\ ListOK(recency', heartbeat')
      /\ DOMAIN heartbeat' = DOMAIN nodes \cup {new}
      /\ \A node \in DOMAIN nodes : heartbeat'[node] = nodes[node]
      /\ heartbeat'[new].sender = a
  <2>1. ListOK(Append(list, new), Insert(nodes, new, [sender |-> a, age |-> 0]))
    BY <1>1, <1>4, AppendList
  <2> QED
    <3>1. heartbeat' = [node \in DOMAIN nodes \cup {new} |->
                            IF node = new THEN [sender |-> a, age |-> 0] ELSE nodes[node]]
      BY <1>2 DEF Insert
    <3>2. ListOK(recency', heartbeat')
      BY <1>2, <2>1
    <3>3. heartbeat'[new] = [sender |-> a, age |-> 0]
      BY <3>1
    <3> QED
      BY <1>1, <1>4, <3>1, <3>2, <3>3
<1>6. /\ DOMAIN lookup' = apps
      /\ \A b \in apps : lookup'[b] = IF b = a THEN new ELSE lookup[b]
      /\ lookup' = [b \in apps |-> IF b = a THEN new ELSE lookup[b]]
  BY <1>2, <1>3
<1>7. \A b \in apps \ {a} : lookup[b] \in DOMAIN heartbeat \ {old}
  BY <1>2, <1>3
<1>8. \A b \in apps : lookup'[b] \in DOMAIN heartbeat' /\ heartbeat'[lookup'[b]].sender = b
  BY <1>3, <1>4, <1>5, <1>6, <1>7
<1>9. lookup' \in [DOMAIN lookup' -> DOMAIN heartbeat']
  BY <1>6, <1>8
<1>10. DOMAIN heartbeat' \subseteq Iterators
  BY <1>1, <1>4, <1>5 DEF RInv
<1> QED
  BY <1>2, <1>5, <1>6, <1>8, <1>9, <1>10 DEF RInv, LookupConsistent

\* Time makes every heartbeat older and keeps their order.
LEMMA TickStep ==
    ASSUME RInv, Tick
    PROVE  RInv'
<1> DEFINE D == DOMAIN heartbeat
           Older(n) == IF n < MaxAge THEN n + 1 ELSE n
<1>1. /\ recency \in Seq(D) /\ heartbeat \in [D -> Heartbeats] /\ Sorted(recency, heartbeat)
  BY DEF RInv, ListOK
<1>2. heartbeat' = [node \in D |-> [heartbeat[node] EXCEPT !.age = Older(heartbeat[node].age)]]
  BY DEF Tick
<1>3. UNCHANGED <<apps, recency, lookup>>
  BY DEF Tick
<1>4. MaxAge \in Nat
  BY TimeoutAssumption DEF MaxAge
<1>5. ASSUME NEW node \in D
      PROVE  /\ heartbeat'[node] \in Heartbeats
             /\ heartbeat'[node].sender = heartbeat[node].sender
             /\ heartbeat'[node].age = Older(heartbeat[node].age)
  <2>1. heartbeat[node] \in Heartbeats /\ heartbeat[node].age \in 0 .. MaxAge
    BY <1>1 DEF Heartbeats
  <2>2. Older(heartbeat[node].age) \in 0 .. MaxAge
    BY <1>4, <2>1
  <2> QED
    BY <1>2, <2>1, <2>2 DEF Heartbeats
<1>6. DOMAIN heartbeat' = D /\ heartbeat' \in [D -> Heartbeats]
  BY <1>2, <1>5
<1>7. Sorted(recency, heartbeat')
  <2> SUFFICES ASSUME NEW i \in DOMAIN recency, NEW j \in DOMAIN recency, i < j
               PROVE  heartbeat'[recency[i]].age >= heartbeat'[recency[j]].age
    BY DEF Sorted
  <2>1. recency[i] \in D /\ recency[j] \in D
    BY <1>1
  <2>2. heartbeat[recency[i]].age \in 0 .. MaxAge /\ heartbeat[recency[j]].age \in 0 .. MaxAge
    BY <1>1, <2>1 DEF Heartbeats
  <2>3. heartbeat[recency[i]].age >= heartbeat[recency[j]].age
    BY <1>1 DEF Sorted
  <2> QED
    BY <1>4, <1>5, <2>1, <2>2, <2>3
<1>8. ListOK(recency', heartbeat')
  BY <1>1, <1>3, <1>6, <1>7 DEF RInv, ListOK
<1>9. LookupConsistent'
  BY <1>3, <1>5, <1>6 DEF RInv, LookupConsistent
<1> QED
  BY <1>3, <1>6, <1>8, <1>9 DEF RInv

-----------------------------------------------------------------------------
IInv == TypeOK /\ RInv

\* A runtime that starts satisfies the inductive invariant.
LEMMA InitIInv == Init => IInv
<1> SUFFICES ASSUME Init PROVE IInv
  OBVIOUS
<1>1. DOMAIN heartbeat = {} /\ DOMAIN lookup = {} /\ DOMAIN recency = {}
  BY DEF Init
<1>2. /\ recency \in Seq(DOMAIN heartbeat) /\ toEvict \in Seq(Apps)
      /\ heartbeat \in [DOMAIN heartbeat -> Heartbeats]
      /\ lookup \in [DOMAIN lookup -> DOMAIN heartbeat]
  BY <1>1 DEF Init
<1>3. ListOK(recency, heartbeat)
  BY <1>1, <1>2 DEF ListOK, Unique, Nodes, Sorted
<1>4. LookupConsistent
  BY <1>1 DEF Init, LookupConsistent
<1>5. timer \in Timers /\ timer.state = "DISARMED" /\ ~timer.oneshot
  BY DurationType, MakeFields DEF Init
<1> QED
  BY <1>1, <1>2, <1>3, <1>4, <1>5 DEF Init, IInv, TypeOK, RInv, Heartbeats

\* What the types say beside the registry and the timer.
Rest ==
    /\ pc \in {"poll", "socket", "timer", "read", "expired", "evicting"}
    /\ timerDue \in BOOLEAN
    /\ toEvict \in Seq(Apps)
    /\ crash \in {"no", "assert", "exception"}

\* The inductive invariant, in the parts the steps below disturb.
LEMMA IInvForm ==
    /\ IInv <=> RInv /\ timer \in EvictionTimers /\ Rest
    /\ IInv' <=> RInv' /\ timer' \in EvictionTimers /\ Rest'
  BY DEF IInv, TypeOK, RInv, ListOK, EvictionTimers, Rest, Heartbeats

\* The time left to the front of a nonempty list is a duration.
LEMMA RemainingType ==
    ASSUME NEW list, NEW nodes, ListOK(list, nodes), list # <<>>
    PROVE  Remaining(list, nodes) \in [ticks : Int, measured : BOOLEAN]
<1>1. 1 \in DOMAIN list /\ list[1] \in DOMAIN nodes
  BY DEF ListOK
<1>2. nodes[list[1]].age \in Int
  BY <1>1, TimeoutAssumption DEF ListOK, Heartbeats, MaxAge
<1> QED
  BY <1>2, DurationType

\* Every step preserves it: one case per handler, timer expiry and tick.
LEMMA NextIInv == IInv /\ [Next]_vars => IInv'
<1> SUFFICES ASSUME IInv, [Next]_vars PROVE IInv'
  OBVIOUS
<1>0. RInv /\ timer \in EvictionTimers /\ Rest
  BY IInvForm
<1>a. ASSUME UNCHANGED registry PROVE RInv'
  BY <1>0, <1>a DEF registry, RInv, LookupConsistent
<1>1. ASSUME NEW a \in Apps, Register(a) PROVE IInv'
  <2>1. RInv'
    BY <1>0, <1>1, RegisterStep
  <2>2. timer' \in EvictionTimers
    BY <1>0, <1>1, StartType DEF Register
  <2>3. Rest'
    BY <1>0, <1>1 DEF Register, Rest
  <2> QED
    BY <2>1, <2>2, <2>3, IInvForm
<1>2. ASSUME NEW a \in Apps, Unregister(a) PROVE IInv'
  <2>1. RInv'
    BY <1>0, <1>2, EvictStep DEF Unregister
  <2>2. timer' \in EvictionTimers
    BY <1>0, <1>2, RescheduleType, DurationType DEF Unregister
  <2>3. Rest'
    BY <1>0, <1>2 DEF Unregister, Rest
  <2> QED
    BY <2>1, <2>2, <2>3, IInvForm
<1>3. ASSUME NEW a \in Apps, HandleHeartbeat(a) PROVE IInv'
  <2>1. RInv'
    BY <1>0, <1>3, HeartbeatStep
  <2>2. timer' \in EvictionTimers
    <3>1. recency' # <<>>
      <4>1. Append(Erase(recency, lookup[a]), NewNode) # <<>>
        <5>1. lookup[a] \in DOMAIN heartbeat
          BY <1>0, <1>3 DEF RInv, HandleHeartbeat
        <5>2. Erase(recency, lookup[a]) \in Seq(DOMAIN Without(heartbeat, lookup[a]))
          BY <1>0, <5>1, EraseList DEF RInv, ListOK
        <5> QED
          BY <5>2
      <4> QED
        BY <1>3, <4>1 DEF HandleHeartbeat
    <3>2. Remaining(recency', heartbeat') \in [ticks : Int, measured : BOOLEAN]
      BY <2>1, <3>1, RemainingType DEF RInv
    <3>3. Start(Reschedule(timer, Remaining(recency', heartbeat'))) \in EvictionTimers
      BY <1>0, <3>2, RescheduleType, StartType
    <3> QED
      BY <1>0, <1>3, <3>3 DEF HandleHeartbeat
  <2>3. Rest'
    BY <1>0, <1>3 DEF HandleHeartbeat, Rest
  <2> QED
    BY <2>1, <2>2, <2>3, IInvForm
<1>4. ASSUME UNCHANGED <<registry, timer>>, Rest' PROVE IInv'
  BY <1>0, <1>a, <1>4, IInvForm DEF registry
<1>5. ASSUME NEW a \in Apps, UnregisterUnknown(a) PROVE IInv'
  BY <1>0, <1>4, <1>5 DEF UnregisterUnknown, Crash, Rest
<1>6. CASE PollReturns
  BY <1>0, <1>4, <1>6 DEF PollReturns, Rest
<1>7. CASE SocketDrained
  BY <1>0, <1>4, <1>7 DEF SocketDrained, Rest
<1>8. CASE DispatchTimer
  BY <1>0, <1>4, <1>8 DEF DispatchTimer, Rest
<1>9. CASE ReadReturns
  <2>1. timer' \in EvictionTimers
    BY <1>0, <1>9, ElapseType DEF ReadReturns
  <2> QED
    BY <1>0, <1>9, <1>a, <2>1, IInvForm DEF ReadReturns, Rest
<1>10. CASE Expire
  <2>1. PICK n \in 1 .. Len(recency) :
            toEvict' = [k \in 1 .. n |-> heartbeat[recency[k]].sender]
    BY <1>10 DEF Expire
  <2>2. \A k \in 1 .. n : heartbeat[recency[k]].sender \in Apps
    BY <1>0 DEF RInv, ListOK, Heartbeats
  <2>3. toEvict' \in [1 .. n -> Apps] /\ n \in Nat
    <3>1. Len(recency) \in Nat
      BY <1>0 DEF RInv, ListOK
    <3> QED
      BY <2>1, <2>2, <3>1
  <2>4. toEvict' \in Seq(Apps)
    BY <2>3
  <2> QED
    BY <1>0, <1>4, <1>10, <2>4 DEF Expire, Rest
<1>11. CASE ExpireAsserts
  BY <1>0, <1>4, <1>11 DEF ExpireAsserts, Crash, Rest
<1>12. CASE EvictNext
  <2>1. RInv'
    BY <1>0, <1>12, EvictStep DEF EvictNext
  <2>2. toEvict' \in Seq(Apps)
    BY <1>0, <1>12 DEF EvictNext, Rest
  <2> QED
    BY <1>0, <1>12, <2>1, <2>2, IInvForm DEF EvictNext, Rest
<1>13. CASE EvictNextThrows
  BY <1>0, <1>4, <1>13 DEF EvictNextThrows, Crash, Rest
<1>14. CASE Rearm
  <2>1. timer' \in EvictionTimers
    <3>1. CASE recency # <<>>
      <4>1. Remaining(recency, heartbeat) \in [ticks : Int, measured : BOOLEAN]
        BY <1>0, <3>1, RemainingType DEF RInv
      <4>2. Start(Reschedule(timer, Remaining(recency, heartbeat))) \in EvictionTimers
        BY <1>0, <4>1, RescheduleType, StartType
      <4> QED
        BY <1>14, <3>1, <4>2 DEF Rearm
    <3>2. CASE recency = <<>>
      BY <1>0, <1>14, <3>2, RescheduleType, DurationType DEF Rearm
    <3> QED
      BY <3>1, <3>2
  <2> QED
    BY <1>0, <1>14, <1>a, <2>1, IInvForm DEF Rearm, Rest
<1>15. CASE Tick
  <2>1. RInv'
    BY <1>0, <1>15, TickStep
  <2>2. timer' \in EvictionTimers
    BY <1>0, <1>15, ElapseType DEF Tick
  <2> QED
    BY <1>0, <1>15, <2>1, <2>2, IInvForm DEF Tick, Rest
<1>16. CASE Crashed \/ UNCHANGED vars
  BY <1>0, <1>4, <1>16 DEF Crashed, vars, Rest
<1> QED
  BY <1>1, <1>2, <1>3, <1>5, <1>6, <1>7, <1>8, <1>9, <1>10, <1>11, <1>12, <1>13, <1>14, <1>15, <1>16
     DEF Next, Message, Worker

\* So it always holds.
LEMMA AlwaysIInv == Spec => []IInv
  BY InitIInv, NextIInv, PTL DEF Spec

\* Every field keeps its type; in particular an iterator the runtime keeps
\* always leads to a live node, whatever the order of messages and expiries.
THEOREM TypeCorrect == Spec => []TypeOK
  BY AlwaysIInv, PTL DEF IInv

\* m_apps and m_heartbeat_lookup have the same keys, and an iterator leads to
\* a node of the application it is kept for.
THEOREM LookupAlwaysConsistent == Spec => []LookupConsistent
  BY AlwaysIInv, PTL DEF IInv, RInv

\* The list is ordered by recency and has every node once.
THEOREM FrontAlwaysLeastRecent == Spec => []FrontIsLeastRecent
<1>1. IInv => FrontIsLeastRecent
  BY DEF IInv, RInv, ListOK, FrontIsLeastRecent, Unique, Nodes, Sorted
<1> QED
  BY <1>1, AlwaysIInv, PTL

-----------------------------------------------------------------------------
(* Records no lookup leads to.  RecordsTracked is no invariant, because a  *)
(* restarted application registers twice; what follows says which handlers *)
(* keep it.                                                                *)

\* An eviction leaves a stray record stray and makes none.
LEMMA EvictKeepsTrack ==
    ASSUME RInv, NEW a \in apps, Evict(a)
    PROVE  /\ RecordsTracked' <=> RecordsTracked
           /\ \A b \in apps' : /\ lookup'[b] = lookup[b]
                               /\ heartbeat'[lookup[b]] = heartbeat[lookup[b]]
<1> DEFINE old == lookup[a]
           D == DOMAIN heartbeat
<1>1. /\ DOMAIN lookup = apps /\ old \in D
      /\ \A b \in apps : lookup[b] \in D /\ heartbeat[lookup[b]].sender = b
  BY DEF RInv, LookupConsistent
<1>2. /\ DOMAIN heartbeat' = D \ {old}
      /\ \A node \in D \ {old} : heartbeat'[node] = heartbeat[node]
  BY DEF Evict, Without
<1>3. /\ apps' = apps \ {a}
      /\ \A b \in apps \ {a} : lookup'[b] = lookup[b]
  BY <1>1 DEF Evict, Without
<1>4. \A b \in apps \ {a} : lookup[b] \in D \ {old}
  BY <1>1
<1> HIDE DEF old, D
<1>5. ASSUME RecordsTracked, NEW node \in D \ {old}
      PROVE  heartbeat'[node].sender \in apps' /\ lookup'[heartbeat'[node].sender] = node
  <2>1. heartbeat[node].sender \in apps /\ lookup[heartbeat[node].sender] = node
    BY <1>5 DEF RecordsTracked, D
  <2>2. heartbeat[node].sender # a
    BY <1>5, <2>1 DEF old
  <2> QED
    BY <1>2, <1>3, <1>5, <2>1, <2>2
<1>6. ASSUME RecordsTracked', NEW node \in D
      PROVE  heartbeat[node].sender \in apps /\ lookup[heartbeat[node].sender] = node
  <2>1. CASE node = old
    BY <1>1, <2>1 DEF old
  <2>2. CASE node # old
    <3>1. heartbeat'[node].sender \in apps' /\ lookup'[heartbeat'[node].sender] = node
      BY <1>2, <1>6, <2>2 DEF RecordsTracked
    <3> QED
      BY <1>2, <1>3, <1>6, <2>2, <3>1
  <2> QED
    BY <2>1, <2>2
<1>7. RecordsTracked' <=> RecordsTracked
  BY <1>2, <1>5, <1>6 DEF RecordsTracked, D
<1> QED
  BY <1>2, <1>3, <1>4, <1>7

\* An application that was not registered gets one record and its iterator.
LEMMA FirstRegisterKeepsTrack ==
    ASSUME RInv, RecordsTracked, NEW a \in Apps, a \notin apps, Register(a)
    PROVE  RecordsTracked'
<1> DEFINE new == NewNode
           D == DOMAIN heartbeat
           v == [sender |-> a, age |-> 0]
<1>1. new \notin D
  BY NewNodeFree DEF Register
<1>2. a \notin DOMAIN lookup /\ DOMAIN lookup = apps
  BY DEF RInv, LookupConsistent
<1>3. /\ heartbeat' = Insert(heartbeat, new, v)
      /\ apps' = apps \cup {a}
      /\ lookup' = Insert(lookup, a, new)
  BY <1>2 DEF Register
<1>4. v.sender = a
  OBVIOUS
<1> HIDE DEF new, v
<1>5. /\ DOMAIN heartbeat' = D \cup {new}
      /\ heartbeat'[new] = v
      /\ \A node \in D : heartbeat'[node] = heartbeat[node]
  BY <1>1, <1>3 DEF Insert
<1>6. lookup'[a] = new /\ \A b \in apps : lookup'[b] = lookup[b]
  BY <1>2, <1>3 DEF Insert
<1>7. ASSUME NEW node \in D
      PROVE  heartbeat'[node].sender \in apps' /\ lookup'[heartbeat'[node].sender] = node
  BY <1>3, <1>5, <1>6 DEF RecordsTracked
<1>8. heartbeat'[new].sender \in apps' /\ lookup'[heartbeat'[new].sender] = new
  BY <1>3, <1>4, <1>5, <1>6
<1> QED
  BY <1>5, <1>7, <1>8 DEF RecordsTracked

\* A heartbeat replaces the record and redirects the iterator.
LEMMA HeartbeatKeepsTrack ==
    ASSUME RInv, RecordsTracked, NEW a \in Apps, HandleHeartbeat(a)
    PROVE  RecordsTracked'
<1> DEFINE new == NewNode
           old == lookup[a]
           D == DOMAIN heartbeat
           v == [sender |-> a, age |-> 0]
<1>1. new \notin D
  BY NewNodeFree DEF HandleHeartbeat
<1>2. /\ a \in apps /\ DOMAIN lookup = apps /\ old \in D
  BY DEF RInv, LookupConsistent, HandleHeartbeat
<1>3. /\ heartbeat' = Insert(Without(heartbeat, old), new, v)
      /\ apps' = apps
      /\ lookup' = [lookup EXCEPT ![a] = new]
  BY DEF HandleHeartbeat
<1>4. v.sender = a
  OBVIOUS
<1> HIDE DEF new, v
<1>5. /\ DOMAIN heartbeat' = (D \ {old}) \cup {new}
      /\ heartbeat'[new] = v
      /\ \A node \in D \ {old} : heartbeat'[node] = heartbeat[node]
  BY <1>1, <1>3 DEF Insert, Without
<1>6. lookup'[a] = new /\ \A b \in apps \ {a} : lookup'[b] = lookup[b]
  BY <1>2, <1>3
<1>7. ASSUME NEW node \in D \ {old}
      PROVE  heartbeat'[node].sender \in apps' /\ lookup'[heartbeat'[node].sender] = node
  <2>1. heartbeat[node].sender \in apps /\ lookup[heartbeat[node].sender] = node
    BY DEF RecordsTracked
  <2>2. heartbeat[node].sender # a
    BY <2>1
  <2> QED
    BY <1>3, <1>5, <1>6, <2>1, <2>2
<1>8. heartbeat'[new].sender \in apps' /\ lookup'[heartbeat'[new].sender] = new
  BY <1>2, <1>3, <1>4, <1>5, <1>6
<1> QED
  BY <1>5, <1>7, <1>8 DEF RecordsTracked

\* A tick changes no sender, and what is Timeout old stays so.
LEMMA TickKeepsTrack ==
    ASSUME RInv, Tick
    PROVE  /\ RecordsTracked' <=> RecordsTracked
           /\ \A node \in DOMAIN heartbeat : Stale(node) => heartbeat'[node].age >= Timeout
<1> DEFINE D == DOMAIN heartbeat
           Older(n) == IF n < MaxAge THEN n + 1 ELSE n
<1>1. heartbeat \in [D -> Heartbeats]
  BY DEF RInv, ListOK
<1>2. /\ heartbeat' = [node \in D |-> [heartbeat[node] EXCEPT !.age = Older(heartbeat[node].age)]]
      /\ UNCHANGED <<apps, lookup>>
  BY DEF Tick
<1>3. ASSUME NEW node \in D
      PROVE  /\ heartbeat'[node].sender = heartbeat[node].sender
             /\ heartbeat'[node].age = Older(heartbeat[node].age)
             /\ heartbeat[node].age \in Nat
  <2>1. heartbeat[node] \in Heartbeats /\ MaxAge \in Nat
    BY <1>1, TimeoutAssumption DEF MaxAge
  <2> QED
    BY <1>2, <2>1 DEF Heartbeats
<1>4. ASSUME NEW node \in D, Stale(node) PROVE heartbeat'[node].age >= Timeout
  BY <1>3, <1>4, TimeoutAssumption DEF Stale, MaxAge
<1>5. DOMAIN heartbeat' = D
  BY <1>2
<1>6. RecordsTracked' <=> RecordsTracked
  <2>1. RecordsTracked' <=> \A node \in D : /\ heartbeat'[node].sender \in apps
                                            /\ lookup[heartbeat'[node].sender] = node
    BY <1>2, <1>5 DEF RecordsTracked
  <2>2. \A node \in D : heartbeat'[node].sender = heartbeat[node].sender
    BY <1>3
  <2> QED
    BY <2>1, <2>2 DEF RecordsTracked
<1> QED
  BY <1>4, <1>6

\* Whatever the order of messages, ticks and expiries, a record is left that
\* nothing leads to only when a registered application registers again.
THEOREM TrackLostByRestartOnly == Spec => TrackLostOnlyByRestart
<1> DEFINE Keeps == (RecordsTracked /\ ~RecordsTracked') => \E a \in apps : Register(a)
<1>1. IInv /\ [Next]_vars => [Keeps]_vars
  <2> SUFFICES ASSUME IInv, Next, RecordsTracked,
                      ~ \E a \in apps : Register(a)
               PROVE  RecordsTracked'
    OBVIOUS
  <2>0. RInv
    BY DEF IInv
  <2>a. ASSUME UNCHANGED registry PROVE RecordsTracked'
    BY <2>a DEF registry, RecordsTracked
  <2>1. ASSUME NEW a \in Apps, Register(a) PROVE RecordsTracked'
    <3>1. a \notin apps
      BY <2>1
    <3> QED
      BY <2>0, <2>1, <3>1, FirstRegisterKeepsTrack
  <2>2. ASSUME NEW a \in Apps, Unregister(a) PROVE RecordsTracked'
    BY <2>0, <2>2, EvictKeepsTrack DEF Unregister
  <2>3. ASSUME NEW a \in Apps, HandleHeartbeat(a) PROVE RecordsTracked'
    BY <2>0, <2>3, HeartbeatKeepsTrack
  <2>4. CASE EvictNext
    BY <2>0, <2>4, EvictKeepsTrack DEF EvictNext
  <2>5. CASE Tick
    BY <2>0, <2>5, TickKeepsTrack
  <2>6. ASSUME NEW a \in Apps, UnregisterUnknown(a) PROVE RecordsTracked'
    BY <2>a, <2>6 DEF UnregisterUnknown, Crash
  <2>7. CASE PollReturns \/ SocketDrained \/ DispatchTimer \/ ReadReturns \/ Expire
    BY <2>a, <2>7 DEF PollReturns, SocketDrained, DispatchTimer, ReadReturns, Expire
  <2>8. CASE ExpireAsserts \/ EvictNextThrows \/ Rearm \/ Crashed
    BY <2>a, <2>8 DEF ExpireAsserts, EvictNextThrows, Rearm, Crashed, Crash, vars, registry
  <2> QED
    BY <2>1, <2>2, <2>3, <2>4, <2>5, <2>6, <2>7, <2>8 DEF Next, Message, Worker
<1> QED
  BY <1>1, AlwaysIInv, PTL DEF Spec, TrackLostOnlyByRestart

-----------------------------------------------------------------------------
(* What the eviction knows of the applications it was told to evict.  The  *)
(* list was taken before the first eviction, and time passes between two:  *)
(* that each of them is still silent when its turn comes is what makes     *)
(* EvictedOnlyIfSilent inductive.                                          *)

SilentToEvict ==
    (pc = "evicting" /\ RecordsTracked) =>
        \A k \in DOMAIN toEvict : toEvict[k] \in apps => Stale(lookup[toEvict[k]])

\* Every step keeps it: no message is handled while evictions are pending.
LEMMA NextSilent == IInv /\ SilentToEvict /\ [Next]_vars => SilentToEvict'
<1> SUFFICES ASSUME IInv, SilentToEvict, [Next]_vars, pc' = "evicting", RecordsTracked',
                    NEW k \in DOMAIN toEvict', toEvict'[k] \in apps'
             PROVE  heartbeat'[lookup'[toEvict'[k]]].age >= Timeout
  BY DEF SilentToEvict, Stale
<1>0. RInv /\ toEvict \in Seq(Apps)
  BY DEF IInv, TypeOK
<1>1. CASE Expire
  <2>1. PICK n \in 1 .. Len(recency) :
            TakeStale(n) /\ toEvict' = [i \in 1 .. n |-> heartbeat[recency[i]].sender]
    BY <1>1 DEF Expire
  <2>2. UNCHANGED registry /\ RecordsTracked
    BY <1>1 DEF Expire, registry, RecordsTracked
  <2>3. k \in 1 .. n /\ recency[k] \in DOMAIN heartbeat
    BY <1>0, <2>1 DEF RInv, ListOK
  <2>4. toEvict'[k] = heartbeat[recency[k]].sender /\ lookup[toEvict'[k]] = recency[k]
    BY <2>1, <2>2, <2>3 DEF RecordsTracked
  <2>5. Stale(recency[k])
    BY <2>1, <2>3 DEF TakeStale
  <2> QED
    BY <2>2, <2>4, <2>5 DEF registry, Stale
<1>2. CASE EvictNext
  <2>1. /\ pc = "evicting" /\ toEvict # <<>> /\ toEvict' = Tail(toEvict)
        /\ Head(toEvict) \in apps /\ Evict(Head(toEvict))
    BY <1>2 DEF EvictNext
  <2>2. RecordsTracked /\ \A b \in apps' : /\ lookup'[b] = lookup[b]
                                            /\ heartbeat'[lookup[b]] = heartbeat[lookup[b]]
    BY <1>0, <2>1, EvictKeepsTrack
  <2>3. k + 1 \in DOMAIN toEvict /\ toEvict'[k] = toEvict[k + 1]
    BY <1>0, <2>1
  <2>4. toEvict'[k] \in apps
    BY <2>1 DEF Evict
  <2>5. Stale(lookup[toEvict'[k]])
    BY <2>1, <2>2, <2>3, <2>4 DEF SilentToEvict
  <2> QED
    BY <2>2, <2>5 DEF Stale
<1>3. CASE Tick
  <2>1. UNCHANGED <<apps, lookup, pc, toEvict>>
    BY <1>3 DEF Tick
  <2>2. RecordsTracked
    BY <1>0, <1>3, TickKeepsTrack
  <2>3. Stale(lookup[toEvict'[k]])
    BY <2>1, <2>2 DEF SilentToEvict
  <2>4. lookup[toEvict'[k]] \in DOMAIN heartbeat
    BY <1>0, <2>1 DEF RInv, LookupConsistent
  <2> QED
    BY <1>0, <1>3, <2>1, <2>3, <2>4, TickKeepsTrack
<1>4. CASE EvictNextThrows \/ Crashed \/ UNCHANGED vars
  <2>1. UNCHANGED <<registry, pc, toEvict>>
    BY <1>4 DEF EvictNextThrows, Crash, Crashed, vars
  <2> QED
    BY <2>1 DEF SilentToEvict, RecordsTracked, Stale, registry
<1>5. ASSUME NEW a \in Apps, Message(a) PROVE pc' # "evicting"
  BY <1>5 DEF Message, Register, Unregister, UnregisterUnknown, HandleHeartbeat, Handling, Crash
<1>6. PollReturns \/ SocketDrained \/ DispatchTimer \/ ReadReturns \/ ExpireAsserts \/ Rearm
          => pc' # "evicting"
  BY DEF PollReturns, SocketDrained, DispatchTimer, ReadReturns, ExpireAsserts, Rearm, Crash
<1> QED
  BY <1>1, <1>2, <1>3, <1>4, <1>5, <1>6 DEF Next, Worker

\* The eviction timer never evicts an application that gave a sign of life
\* within Timeout, unless a record left by a restart names it.
THEOREM OnlySilentEvicted == Spec => EvictedOnlyIfSilent
<1> DEFINE Fair == (pc = "evicting" /\ RecordsTracked) => \A a \in apps \ apps' : Stale(lookup[a])
<1>1. Init => SilentToEvict
  BY DEF Init, SilentToEvict
<1>2. Spec => []SilentToEvict
  BY <1>1, AlwaysIInv, NextSilent, PTL DEF Spec
<1>3. IInv /\ SilentToEvict /\ [Next]_vars => [Fair]_vars
  <2> SUFFICES ASSUME IInv, SilentToEvict, Next, pc = "evicting", RecordsTracked,
                      NEW a \in apps \ apps'
               PROVE  Stale(lookup[a])
    OBVIOUS
  <2>0. toEvict \in Seq(Apps)
    BY DEF IInv, TypeOK
  <2>1. CASE EvictNext
    <3>1. a = Head(toEvict) /\ toEvict # <<>>
      BY <2>1 DEF EvictNext, Evict
    <3>2. 1 \in DOMAIN toEvict /\ toEvict[1] = a
      BY <2>0, <3>1
    <3> QED
      BY <3>2 DEF SilentToEvict
  <2>2. CASE EvictNextThrows \/ Rearm \/ Tick \/ Crashed
    <3>1. apps' = apps
      BY <2>2 DEF EvictNextThrows, Rearm, Tick, Crashed, Crash, vars, registry
    <3> QED
      BY <3>1
  <2>3. ASSUME NEW b \in Apps PROVE ~Message(b)
    BY DEF Message, Register, Unregister, UnregisterUnknown, HandleHeartbeat, Handling
  <2>4. ~(PollReturns \/ SocketDrained \/ DispatchTimer \/ ReadReturns \/ Expire \/ ExpireAsserts)
    BY DEF PollReturns, SocketDrained, DispatchTimer, ReadReturns, Expire, ExpireAsserts
  <2> QED
    BY <2>1, <2>2, <2>3, <2>4 DEF Next, Worker
<1> QED
  BY <1>2, <1>3, AlwaysIInv, PTL DEF Spec, EvictedOnlyIfSilent

-----------------------------------------------------------------------------
(* The table of leases.  What each handler does to the ages of the leases  *)
(* and to the records that were lost track of.                             *)

\* Where neither the forgotten records nor their ages change, the table's do not.
LEMMA SameForgotten ==
    ASSUME \A a \in Apps : /\ Forgotten(a)' = Forgotten(a)
                           /\ \A node \in Forgotten(a) : heartbeat'[node].age = heartbeat[node].age
    PROVE  ForgottenAges' = ForgottenAges
<1>1. ASSUME NEW a \in Apps
      PROVE  {heartbeat'[node].age : node \in Forgotten(a)'} = {heartbeat[node].age : node \in Forgotten(a)}
  BY <1>1
<1> QED
  BY <1>1 DEF ForgottenAges

\* An eviction ends one lease; every other one, and every forgotten record, stays.
LEMMA EvictLease ==
    ASSUME RInv, NEW a \in apps, Evict(a)
    PROVE  /\ LeaseAges' = Leases!Held(apps \ {a})
           /\ \A b \in Apps : Forgotten(b)' = Forgotten(b)
           /\ ForgottenAges' = ForgottenAges
<1> DEFINE old == lookup[a]
           D == DOMAIN heartbeat
<1>1. /\ DOMAIN lookup = apps /\ old \in D
      /\ \A b \in apps : lookup[b] \in D /\ heartbeat[lookup[b]].sender = b
  BY DEF RInv, LookupConsistent
<1>2. /\ DOMAIN heartbeat' = D \ {old}
      /\ \A node \in D \ {old} : heartbeat'[node] = heartbeat[node]
  BY DEF Evict, Without
<1>3. /\ apps' = apps \ {a}
      /\ \A b \in apps \ {a} : lookup'[b] = lookup[b] /\ lookup[b] \in D \ {old}
  BY <1>1 DEF Evict, Without
<1>4. LeaseAges' = Leases!Held(apps \ {a})
  <2>1. \A b \in apps \ {a} : heartbeat'[lookup'[b]].age = heartbeat[lookup[b]].age
    BY <1>2, <1>3
  <2> QED
    BY <1>3, <2>1 DEF LeaseAges, Leases!Held, Leases!Registered
<1>5. heartbeat[old].sender = a
  BY <1>1
<1>6. ASSUME NEW b \in Apps PROVE Forgotten(b)' = Forgotten(b)
  <2>1. Forgotten(b)' = {node \in D \ {old} :
            heartbeat'[node].sender = b /\ ~(b \in apps \ {a} /\ lookup'[b] = node)}
    BY <1>2, <1>3 DEF Forgotten
  <2>2. ASSUME NEW node \in D \ {old}
        PROVE  heartbeat'[node].sender = b /\ ~(b \in apps \ {a} /\ lookup'[b] = node)
                    <=> node \in Forgotten(b)
    <3>1. CASE b = a
      BY <1>2, <2>2, <3>1 DEF Forgotten, D, old
    <3>2. CASE b # a
      BY <1>2, <1>3, <2>2, <3>2 DEF Forgotten, D
    <3> QED
      BY <3>1, <3>2
  <2>3. old \notin Forgotten(b) /\ Forgotten(b) \subseteq D
    BY <1>5 DEF Forgotten, old, D
  <2> HIDE DEF old, D
  <2> QED
    BY <2>1, <2>2, <2>3
<1>7. \A b \in Apps : \A node \in Forgotten(b) : heartbeat'[node].age = heartbeat[node].age
  <2>1. \A b \in Apps : Forgotten(b) \subseteq D \ {old}
    BY <1>5 DEF Forgotten
  <2> QED
    BY <1>2, <2>1
<1> QED
  BY <1>4, <1>6, <1>7, SameForgotten

\* The first registration begins a lease and forgets nothing.
LEMMA FirstRegisterLease ==
    ASSUME RInv, NEW a \in Apps, a \notin apps, Register(a)
    PROVE  /\ LeaseAges' = Leases!Held(apps \cup {a})
           /\ \A b \in Apps : Forgotten(b)' = Forgotten(b)
           /\ ForgottenAges' = ForgottenAges
<1> DEFINE new == NewNode
           D == DOMAIN heartbeat
           v == [sender |-> a, age |-> 0]
<1>1. new \notin D
  BY NewNodeFree DEF Register
<1>2. a \notin DOMAIN lookup /\ DOMAIN lookup = apps
  BY DEF RInv, LookupConsistent
<1>3. /\ heartbeat' = Insert(heartbeat, new, v)
      /\ apps' = apps \cup {a}
      /\ lookup' = Insert(lookup, a, new)
  BY <1>2 DEF Register
<1>4. v.sender = a /\ v.age = 0
  OBVIOUS
<1> HIDE DEF new, v
<1>5. /\ DOMAIN heartbeat' = D \cup {new}
      /\ heartbeat'[new] = v
      /\ \A node \in D : heartbeat'[node] = heartbeat[node]
  BY <1>1, <1>3 DEF Insert
<1>6. /\ lookup'[a] = new
      /\ \A b \in apps : lookup'[b] = lookup[b] /\ lookup[b] \in D
  BY <1>2, <1>3 DEF Insert, RInv, LookupConsistent
<1>7. LeaseAges' = Leases!Held(apps \cup {a})
  <2>1. \A b \in apps \cup {a} :
            heartbeat'[lookup'[b]].age = IF b \in apps THEN heartbeat[lookup[b]].age ELSE 0
    BY <1>4, <1>5, <1>6
  <2> QED
    BY <1>3, <2>1 DEF LeaseAges, Leases!Held, Leases!Registered
<1>8. ASSUME NEW b \in Apps PROVE Forgotten(b)' = Forgotten(b)
  <2>1. ASSUME NEW node \in D PROVE node \in Forgotten(b)' <=> node \in Forgotten(b)
    <3>1. CASE b = a
      BY <1>1, <1>3, <1>5, <1>6, <2>1, <3>1 DEF Forgotten, D
    <3>2. CASE b # a
      BY <1>3, <1>5, <1>6, <2>1, <3>2 DEF Forgotten, D
    <3> QED
      BY <3>1, <3>2
  <2>2. new \notin Forgotten(b)'
    BY <1>3, <1>4, <1>5, <1>6 DEF Forgotten
  <2>3. Forgotten(b)' \subseteq D \cup {new} /\ Forgotten(b) \subseteq D
    BY <1>5 DEF Forgotten, D
  <2> QED
    BY <2>1, <2>2, <2>3
<1>9. \A b \in Apps : \A node \in Forgotten(b) : heartbeat'[node].age = heartbeat[node].age
  BY <1>5 DEF Forgotten
<1> QED
  BY <1>7, <1>8, <1>9, SameForgotten

\* Another registration leaves the lease as old as it is, and one record more forgotten.
LEMMA RegisterAgainLease ==
    ASSUME RInv, NEW a \in apps, Register(a)
    PROVE  /\ LeaseAges' = LeaseAges
           /\ \A b \in Apps : Forgotten(b) \subseteq Forgotten(b)'
           /\ ForgottenAges' = [ForgottenAges EXCEPT ![a] = @ \cup {0}]
<1> DEFINE new == NewNode
           D == DOMAIN heartbeat
           v == [sender |-> a, age |-> 0]
<1>1. new \notin D
  BY NewNodeFree DEF Register
<1>2. DOMAIN lookup = apps /\ a \in Apps
  BY DEF RInv, LookupConsistent
<1>3. heartbeat' = Insert(heartbeat, new, v) /\ apps' = apps /\ lookup' = lookup
  BY <1>2 DEF Register
<1>4. v.sender = a /\ v.age = 0
  OBVIOUS
<1> HIDE DEF new, v
<1>5. /\ DOMAIN heartbeat' = D \cup {new}
      /\ heartbeat'[new] = v
      /\ \A node \in D : heartbeat'[node] = heartbeat[node]
  BY <1>1, <1>3 DEF Insert
<1>6. \A b \in apps : lookup[b] \in D
  BY DEF RInv, LookupConsistent
<1>7. LeaseAges' = LeaseAges
  <2>1. \A b \in apps : heartbeat'[lookup'[b]].age = heartbeat[lookup[b]].age
    BY <1>3, <1>5, <1>6
  <2> QED
    BY <1>3, <2>1 DEF LeaseAges
<1>8. ASSUME NEW b \in Apps
      PROVE  Forgotten(b)' = IF b = a THEN Forgotten(b) \cup {new} ELSE Forgotten(b)
  <2>1. ASSUME NEW node \in D PROVE node \in Forgotten(b)' <=> node \in Forgotten(b)
    BY <1>3, <1>5, <2>1 DEF Forgotten, D
  <2>2. new \in Forgotten(b)' <=> b = a
    BY <1>1, <1>3, <1>4, <1>5, <1>6 DEF Forgotten
  <2>3. Forgotten(b)' \subseteq D \cup {new} /\ Forgotten(b) \subseteq D
    BY <1>5 DEF Forgotten, D
  <2> QED
    BY <2>1, <2>2, <2>3
<1>9. ForgottenAges' = [ForgottenAges EXCEPT ![a] = @ \cup {0}]
  <2>1. ASSUME NEW b \in Apps
        PROVE  {heartbeat'[node].age : node \in Forgotten(b)'} =
                    IF b = a THEN ForgottenAges[b] \cup {0} ELSE ForgottenAges[b]
    <3>1. ForgottenAges[b] = {heartbeat[node].age : node \in Forgotten(b)}
      BY DEF ForgottenAges
    <3>2. \A node \in Forgotten(b) : heartbeat'[node].age = heartbeat[node].age
      BY <1>5 DEF Forgotten
    <3>3. heartbeat'[new].age = 0
      BY <1>4, <1>5
    <3> QED
      BY <1>8, <3>1, <3>2, <3>3
  <2> QED
    BY <1>2, <2>1 DEF ForgottenAges
<1> QED
  BY <1>7, <1>8, <1>9

\* A heartbeat renews its sender's lease, and a forgotten record stays as old as it is.
LEMMA RenewLease ==
    ASSUME RInv, NEW a \in Apps, HandleHeartbeat(a)
    PROVE  /\ LeaseAges' = [LeaseAges EXCEPT ![a] = 0]
           /\ a \in apps
           /\ \A b \in Apps : Forgotten(b)' = Forgotten(b)
           /\ ForgottenAges' = ForgottenAges
<1> DEFINE new == NewNode
           old == lookup[a]
           D == DOMAIN heartbeat
           v == [sender |-> a, age |-> 0]
<1>1. new \notin D
  BY NewNodeFree DEF HandleHeartbeat
<1>2. /\ a \in apps /\ DOMAIN lookup = apps /\ old \in D
      /\ \A b \in apps : lookup[b] \in D /\ heartbeat[lookup[b]].sender = b
  BY DEF RInv, LookupConsistent, HandleHeartbeat
<1>3. /\ heartbeat' = Insert(Without(heartbeat, old), new, v)
      /\ apps' = apps
      /\ lookup' = [lookup EXCEPT ![a] = new]
  BY DEF HandleHeartbeat
<1>4. v.sender = a /\ v.age = 0
  OBVIOUS
<1> HIDE DEF new, v
<1>5. /\ DOMAIN heartbeat' = (D \ {old}) \cup {new}
      /\ heartbeat'[new] = v
      /\ \A node \in D \ {old} : heartbeat'[node] = heartbeat[node]
  BY <1>1, <1>3 DEF Insert, Without
<1>6. /\ lookup'[a] = new
      /\ \A b \in apps \ {a} : lookup'[b] = lookup[b] /\ lookup[b] \in D \ {old}
  BY <1>2, <1>3
<1>7. LeaseAges' = [LeaseAges EXCEPT ![a] = 0]
  <2>1. \A b \in apps :
            heartbeat'[lookup'[b]].age = IF b = a THEN 0 ELSE heartbeat[lookup[b]].age
    BY <1>4, <1>5, <1>6
  <2> QED
    BY <1>3, <2>1 DEF LeaseAges
<1>8. ASSUME NEW b \in Apps PROVE Forgotten(b)' = Forgotten(b)
  <2>1. ASSUME NEW node \in D \ {old} PROVE node \in Forgotten(b)' <=> node \in Forgotten(b)
    <3>1. CASE b = a
      BY <1>1, <1>2, <1>3, <1>5, <1>6, <2>1, <3>1 DEF Forgotten, D, old
    <3>2. CASE b # a
      BY <1>3, <1>5, <1>6, <2>1, <3>2 DEF Forgotten, D
    <3> QED
      BY <3>1, <3>2
  <2>2. new \notin Forgotten(b)' /\ old \notin Forgotten(b)
    BY <1>2, <1>3, <1>4, <1>5, <1>6 DEF Forgotten, old
  <2>3. Forgotten(b)' \subseteq (D \ {old}) \cup {new} /\ Forgotten(b) \subseteq D
    BY <1>5 DEF Forgotten, D
  <2> QED
    BY <2>1, <2>2, <2>3
<1>9. \A b \in Apps : \A node \in Forgotten(b) : heartbeat'[node].age = heartbeat[node].age
  <2>1. \A b \in Apps : Forgotten(b) \subseteq D \ {old}
    BY <1>2 DEF Forgotten
  <2> QED
    BY <1>5, <2>1
<1> QED
  BY <1>2, <1>7, <1>8, <1>9, SameForgotten

\* A tick makes leases and forgotten records older alike.
LEMMA ElapseLease ==
    ASSUME RInv, Tick
    PROVE  Leases!Elapse /\ \A b \in Apps : Forgotten(b)' = Forgotten(b)
<1> DEFINE D == DOMAIN heartbeat
<1>1. /\ heartbeat' = [node \in D |-> [heartbeat[node] EXCEPT
                            !.age = IF @ < MaxAge THEN @ + 1 ELSE @]]
      /\ UNCHANGED <<apps, lookup, pc, toEvict>>
  BY DEF Tick
<1>2. ASSUME NEW node \in D
      PROVE  /\ heartbeat'[node].sender = heartbeat[node].sender
             /\ heartbeat'[node].age = Leases!Older(heartbeat[node].age)
  <2>1. heartbeat[node] \in Heartbeats /\ heartbeat[node].age \in 0 .. Timeout + 1
    BY DEF RInv, ListOK, Heartbeats, MaxAge
  <2>2. heartbeat[node].age < MaxAge <=> heartbeat[node].age <= Timeout
    BY <2>1, TimeoutAssumption DEF MaxAge
  <2> QED
    BY <1>1, <2>1, <2>2 DEF Heartbeats, Leases!Older
<1>3. DOMAIN heartbeat' = D
  BY <1>1
<1>4. \A b \in apps : lookup[b] \in D
  BY DEF RInv, LookupConsistent
<1> HIDE DEF D
<1>5. LeaseAges' = [b \in Leases!Registered |-> Leases!Older(LeaseAges[b])]
  BY <1>1, <1>2, <1>4 DEF LeaseAges, Leases!Registered
<1>6. ASSUME NEW b \in Apps PROVE Forgotten(b)' = Forgotten(b)
  BY <1>1, <1>2, <1>3 DEF Forgotten, D
<1>7. ForgottenAges' = [b \in Apps |-> {Leases!Older(ticks) : ticks \in ForgottenAges[b]}]
  <2>1. ASSUME NEW b \in Apps
        PROVE  {heartbeat'[node].age : node \in Forgotten(b)'} =
                    {Leases!Older(ticks) : ticks \in ForgottenAges[b]}
    <3>1. ForgottenAges[b] = {heartbeat[node].age : node \in Forgotten(b)}
      BY DEF ForgottenAges
    <3>2. \A node \in Forgotten(b) : heartbeat'[node].age = Leases!Older(heartbeat[node].age)
      BY <1>2 DEF Forgotten, D
    <3> QED
      BY <1>6, <3>1, <3>2
  <2> QED
    BY <2>1 DEF ForgottenAges
<1>8. UNCHANGED <<Due, Sweeping>>
  BY <1>1 DEF Due, Sweeping
<1> QED
  BY <1>5, <1>6, <1>7, <1>8 DEF Leases!Elapse

\* Steps that leave the registry alone leave the table alone.
LEMMA SameRegistry ==
    ASSUME UNCHANGED registry
    PROVE  LeaseAges' = LeaseAges /\ ForgottenAges' = ForgottenAges /\ \A b \in Apps : Forgotten(b)' = Forgotten(b)
  BY DEF registry, LeaseAges, ForgottenAges, Forgotten

-----------------------------------------------------------------------------
(* The sweep.  apps_to_evict is a list of senders, one for every stale     *)
(* node: an application that is named twice, or is no longer registered    *)
(* when its turn comes, is one that a forgotten record names.              *)

SweepInv ==
    /\ pc # "evicting" => toEvict = <<>>
    /\ \A a \in Apps : \A k, l \in DOMAIN toEvict :
           k # l /\ toEvict[k] = a /\ toEvict[l] = a => Forgotten(a) # {}
    /\ \A a \in Apps : \A k \in DOMAIN toEvict :
           toEvict[k] = a => a \in apps \/ Forgotten(a) # {}

\* take_while finds every lease that is over, because the list is ordered.
LEMMA ExpireSweep ==
    ASSUME IInv, Expire
    PROVE  Leases!BeginSweep /\ SweepInv'
<1> DEFINE D == DOMAIN heartbeat
<1>1. PICK n \in 1 .. Len(recency) :
          TakeStale(n) /\ toEvict' = [k \in 1 .. n |-> heartbeat[recency[k]].sender]
  BY DEF Expire
<1>2. /\ UNCHANGED registry /\ pc = "expired" /\ pc' = "evicting"
      /\ LeaseAges' = LeaseAges /\ ForgottenAges' = ForgottenAges
      /\ \A b \in Apps : Forgotten(b)' = Forgotten(b)
  BY SameRegistry DEF Expire, registry
<1>3. /\ recency \in Seq(D) /\ Len(recency) \in Nat /\ DOMAIN recency = 1 .. Len(recency)
      /\ heartbeat \in [D -> Heartbeats] /\ Unique(recency) /\ D \subseteq Nodes(recency)
      /\ Sorted(recency, heartbeat) /\ DOMAIN lookup = apps
      /\ \A b \in apps : lookup[b] \in D /\ heartbeat[lookup[b]].sender = b
  BY DEF IInv, RInv, ListOK, LookupConsistent
<1>4. \A k \in 1 .. Len(recency) :
          /\ recency[k] \in D /\ heartbeat[recency[k]].sender \in Apps
          /\ heartbeat[recency[k]].age \in Nat
  BY <1>3 DEF Heartbeats
<1>5. DOMAIN toEvict' = 1 .. n /\ \A k \in 1 .. n : toEvict'[k] = heartbeat[recency[k]].sender
  BY <1>1
<1>6. ASSUME NEW k \in 1 .. Len(recency) PROVE k <= n <=> Stale(recency[k])
  <2>1. CASE k <= n
    BY <1>1, <2>1 DEF TakeStale
  <2>2. CASE k > n
    <3>1. n + 1 \in 1 .. Len(recency) /\ ~Stale(recency[n + 1])
      BY <1>1, <1>3, <2>2 DEF TakeStale
    <3>2. k = n + 1 \/ n + 1 < k
      BY <1>3, <2>2
    <3>3. heartbeat[recency[n + 1]].age >= heartbeat[recency[k]].age
      BY <1>3, <1>4, <3>1, <3>2 DEF Sorted
    <3> QED
      BY <1>3, <1>4, <2>2, <3>1, <3>3, TimeoutAssumption DEF Stale
  <2> QED
    BY <1>3, <2>1, <2>2
\* An application is named exactly if one of its records is stale ...
<1>7. ASSUME NEW a \in Apps
      PROVE  (\E k \in 1 .. n : toEvict'[k] = a)
                <=> \E node \in D : heartbeat[node].sender = a /\ Stale(node)
  <2>1. ASSUME NEW k \in 1 .. n, toEvict'[k] = a
        PROVE  \E node \in D : heartbeat[node].sender = a /\ Stale(node)
    <3>1. k \in 1 .. Len(recency) /\ k <= n
      BY <1>3
    <3> QED
      BY <1>4, <1>5, <1>6, <2>1, <3>1
  <2>2. ASSUME NEW node \in D, heartbeat[node].sender = a, Stale(node)
        PROVE  \E k \in 1 .. n : toEvict'[k] = a
    <3>1. PICK k \in 1 .. Len(recency) : recency[k] = node
      BY <1>3 DEF Nodes
    <3>2. k \in 1 .. n
      BY <1>3, <1>6, <2>2, <3>1
    <3> QED
      BY <1>5, <2>2, <3>1, <3>2
  <2> QED
    BY <2>1, <2>2
\* ... be it the one its lookup leads to or a forgotten one.
<1>8. ASSUME NEW a \in Apps
      PROVE  (\E node \in D : heartbeat[node].sender = a /\ Stale(node)) <=> Leases!Over(a)
  <2>1. a \in Leases!Registered <=> a \in apps
    BY DEF Leases!Registered, LeaseAges
  <2>2. a \in apps => LeaseAges[a] = heartbeat[lookup[a]].age
    BY DEF LeaseAges
  <2>3. ForgottenAges[a] = {heartbeat[node].age : node \in Forgotten(a)}
    BY DEF ForgottenAges
  <2>4. ASSUME NEW node \in D, heartbeat[node].sender = a, Stale(node) PROVE Leases!Over(a)
    <3>1. CASE a \in apps /\ lookup[a] = node
      BY <2>1, <2>2, <2>4, <3>1 DEF Leases!Over, Stale
    <3>2. CASE ~(a \in apps /\ lookup[a] = node)
      <4>1. node \in Forgotten(a)
        BY <2>4, <3>2 DEF Forgotten
      <4>2. heartbeat[node].age \in ForgottenAges[a]
        BY <2>3, <4>1
      <4> QED
        BY <2>4, <4>2 DEF Leases!Over, Stale
    <3> QED
      BY <3>1, <3>2
  <2>5. ASSUME Leases!Over(a) PROVE \E node \in D : heartbeat[node].sender = a /\ Stale(node)
    <3>1. CASE a \in apps /\ LeaseAges[a] >= Timeout
      BY <1>3, <2>2, <3>1 DEF Stale
    <3>2. ASSUME NEW ticks \in ForgottenAges[a], ticks >= Timeout
          PROVE  \E node \in D : heartbeat[node].sender = a /\ Stale(node)
      <4>1. PICK node \in Forgotten(a) : heartbeat[node].age = ticks
        BY <2>3
      <4> QED
        BY <3>2, <4>1 DEF Forgotten, Stale
    <3> QED
      BY <2>1, <2>5, <3>1, <3>2 DEF Leases!Over
  <2> QED
    BY <2>4, <2>5
<1>9. Due' = {a \in Apps : Leases!Over(a)} /\ Due' # {}
  <2>1. Due' = {toEvict'[k] : k \in 1 .. n}
    BY <1>5 DEF Due
  <2>2. \A k \in 1 .. n : toEvict'[k] \in Apps
    BY <1>3, <1>4, <1>5
  <2>3. 1 \in 1 .. n
    BY <1>3
  <2> QED
    BY <1>7, <1>8, <2>1, <2>2, <2>3
<1>10. Leases!BeginSweep
  BY <1>2, <1>9 DEF Leases!BeginSweep, Sweeping
<1>11. ASSUME NEW a \in Apps, NEW k \in 1 .. n, NEW l \in 1 .. n, k # l,
              toEvict'[k] = a, toEvict'[l] = a
       PROVE  Forgotten(a) # {}
  <2>1. recency[k] # recency[l] /\ recency[k] \in D /\ recency[l] \in D
    BY <1>3, <1>4, <1>11 DEF Unique
  <2>2. heartbeat[recency[k]].sender = a /\ heartbeat[recency[l]].sender = a
    BY <1>5, <1>11
  <2>3. lookup[a] # recency[k] \/ lookup[a] # recency[l]
    BY <2>1
  <2> QED
    BY <2>1, <2>2, <2>3 DEF Forgotten
<1>12. ASSUME NEW a \in Apps, NEW k \in 1 .. n, toEvict'[k] = a
       PROVE  a \in apps \/ Forgotten(a) # {}
  <2>1. recency[k] \in D /\ heartbeat[recency[k]].sender = a
    BY <1>3, <1>4, <1>5, <1>12
  <2> QED
    BY <2>1 DEF Forgotten
<1>13. SweepInv'
  BY <1>2, <1>5, <1>11, <1>12 DEF SweepInv, registry
<1> QED
  BY <1>10, <1>13

\* An eviction takes the first of the list; the others are as they were.
LEMMA EvictNextSweep ==
    ASSUME IInv, SweepInv, EvictNext
    PROVE  Leases!Take(Head(toEvict)) /\ SweepInv'
<1> DEFINE a == Head(toEvict)
           rest == Tail(toEvict)
<1>1. /\ toEvict \in Seq(Apps) /\ toEvict # <<>> /\ pc = "evicting" /\ pc' = pc
      /\ toEvict' = rest /\ a \in apps /\ Evict(a) /\ RInv
  BY DEF IInv, TypeOK, EvictNext
<1>2. /\ DOMAIN toEvict = 1 .. Len(toEvict) /\ Len(toEvict) \in Nat
      /\ 1 \in DOMAIN toEvict /\ toEvict[1] = a
      /\ DOMAIN rest = 1 .. Len(toEvict) - 1
      /\ \A k \in DOMAIN rest : k + 1 \in DOMAIN toEvict /\ k + 1 # 1 /\ rest[k] = toEvict[k + 1]
  BY <1>1
<1>3. /\ LeaseAges' = Leases!Held(apps \ {a})
      /\ ForgottenAges' = ForgottenAges
      /\ \A b \in Apps : Forgotten(b)' = Forgotten(b)
  BY <1>1, EvictLease
<1>4. \A k \in DOMAIN rest : \E i \in DOMAIN toEvict : i # 1 /\ rest[k] = toEvict[i]
  BY <1>2
<1>5. \A i \in DOMAIN toEvict : i = 1 \/ \E k \in DOMAIN rest : rest[k] = toEvict[i]
  <2> SUFFICES ASSUME NEW i \in DOMAIN toEvict, i # 1
               PROVE  \E k \in DOMAIN rest : rest[k] = toEvict[i]
    OBVIOUS
  <2>1. i - 1 \in DOMAIN rest /\ (i - 1) + 1 = i
    BY <1>2
  <2> QED
    BY <1>2, <2>1
<1>6. ASSUME NEW k \in DOMAIN rest, rest[k] = a PROVE Forgotten(a) # {}
  <2>1. PICK i \in DOMAIN toEvict : i # 1 /\ toEvict[i] = a
    BY <1>4, <1>6
  <2>2. a \in Apps
    BY <1>1 DEF RInv
  <2> QED
    BY <1>2, <2>1, <2>2 DEF SweepInv
<1>7. /\ a \in Due
      /\ Due' = Due \ {a} \/ (Due' = Due /\ Forgotten(a) # {})
  <2>1. Due = {toEvict[i] : i \in DOMAIN toEvict} /\ Due' = {rest[k] : k \in DOMAIN rest}
    BY <1>1 DEF Due
  <2>2. a \in Due
    BY <1>2, <2>1
  <2> HIDE DEF a, rest
  <2>3. Due' \subseteq Due /\ Due \subseteq Due' \cup {a}
    <3>1. \A i \in DOMAIN toEvict : toEvict[i] = a \/ \E k \in DOMAIN rest : rest[k] = toEvict[i]
      BY <1>2, <1>5
    <3> QED
      BY <1>4, <2>1, <3>1
  <2>4. a \in Due' => Forgotten(a) # {}
    BY <1>6, <2>1
  <2> QED
    BY <2>2, <2>3, <2>4
<1>8. Leases!Take(a)
  <2>1. Leases!Registered = apps
    BY DEF Leases!Registered, LeaseAges
  <2>2. Forgotten(a) # {} => ForgottenAges[a] # {}
    <3>1. a \in Apps
      BY <1>1 DEF RInv
    <3> QED
      BY <3>1 DEF ForgottenAges
  <2>3. Sweeping /\ Sweeping' = Sweeping
    BY <1>1 DEF Sweeping
  <2> QED
    BY <1>1, <1>3, <1>7, <2>1, <2>2, <2>3 DEF Leases!Take
<1>9. SweepInv'
  <2>1. apps' = apps \ {a}
    BY <1>1 DEF Evict
  <2>2. ASSUME NEW b \in Apps, NEW k \in DOMAIN rest, NEW l \in DOMAIN rest, k # l,
               rest[k] = b, rest[l] = b
        PROVE  Forgotten(b) # {}
    <3>1. k + 1 # l + 1
      BY <1>2, <2>2
    <3> QED
      BY <1>2, <2>2, <3>1 DEF SweepInv
  <2>3. ASSUME NEW b \in Apps, NEW k \in DOMAIN rest, rest[k] = b
        PROVE  b \in apps \ {a} \/ Forgotten(b) # {}
    BY <1>2, <1>6, <2>3 DEF SweepInv
  <2> QED
    BY <1>1, <1>3, <2>1, <2>2, <2>3 DEF SweepInv
<1> QED
  BY <1>8, <1>9

\* Steps that leave the registry alone and evict nothing keep what is known of the list.
LEMMA SameSweep ==
    ASSUME SweepInv, toEvict' = toEvict, pc' # "evicting" => toEvict = <<>>,
           apps' = apps, \A b \in Apps : Forgotten(b) \subseteq Forgotten(b)'
    PROVE  SweepInv'
  BY DEF SweepInv

\* Every step of the runtime is a step of the table, or none.
LEMMA NextLeases ==
    ASSUME IInv, SweepInv, [Next]_vars
    PROVE  SweepInv' /\ [Leases!Next]_(Leases!lease)
<1>0. RInv /\ Leases!Registered = apps /\ apps \subseteq Apps
  BY DEF IInv, RInv, Leases!Registered, LeaseAges
<1>a. ASSUME UNCHANGED registry, toEvict' = toEvict, pc' # "evicting" => toEvict = <<>>
      PROVE  /\ SweepInv' /\ LeaseAges' = LeaseAges /\ ForgottenAges' = ForgottenAges
             /\ Due' = Due
  BY <1>a, SameRegistry, SameSweep DEF Due, registry
<1>b. ASSUME UNCHANGED registry, UNCHANGED <<pc, toEvict>>
      PROVE  SweepInv' /\ [Leases!Next]_(Leases!lease)
  BY <1>a, <1>b DEF SweepInv, Sweeping, Leases!lease
<1>c. ASSUME pc = "socket", pc' = pc, toEvict' = toEvict
      PROVE  SweepInv' /\ Due' = Due /\ ~Sweeping /\ Sweeping' = Sweeping
  BY <1>c DEF SweepInv, Due, Sweeping
<1>1. ASSUME NEW a \in Apps, Register(a) PROVE SweepInv' /\ [Leases!Next]_(Leases!lease)
  <2>1. pc = "socket" /\ pc' = pc /\ toEvict' = toEvict
    BY <1>1 DEF Register, Handling
  <2>2. CASE a \notin apps
    <3>1. Leases!Register(a)
      BY <1>0, <1>1, <1>c, <2>1, <2>2, FirstRegisterLease DEF Leases!Register
    <3> QED
      BY <1>c, <2>1, <3>1 DEF Leases!Next
  <2>3. CASE a \in apps
    <3>1. Leases!RegisterAgain(a)
      BY <1>0, <1>1, <1>c, <2>1, <2>3, RegisterAgainLease DEF Leases!RegisterAgain
    <3> QED
      BY <1>c, <2>1, <3>1 DEF Leases!Next
  <2> QED
    BY <2>2, <2>3
<1>2. ASSUME NEW a \in Apps, Unregister(a) PROVE SweepInv' /\ [Leases!Next]_(Leases!lease)
  <2>1. pc = "socket" /\ pc' = pc /\ toEvict' = toEvict /\ a \in apps /\ Evict(a)
    BY <1>2 DEF Unregister, Handling
  <2>2. Leases!Unregister(a)
    BY <1>0, <1>c, <2>1, EvictLease DEF Leases!Unregister
  <2> QED
    BY <1>c, <2>1, <2>2 DEF Leases!Next
<1>3. ASSUME NEW a \in Apps, HandleHeartbeat(a) PROVE SweepInv' /\ [Leases!Next]_(Leases!lease)
  <2>1. pc = "socket" /\ pc' = pc /\ toEvict' = toEvict
    BY <1>3 DEF HandleHeartbeat, Handling
  <2>2. Leases!Renew(a)
    BY <1>0, <1>3, <1>c, <2>1, RenewLease DEF Leases!Renew
  <2> QED
    BY <1>c, <2>1, <2>2 DEF Leases!Next
<1>4. ASSUME NEW a \in Apps, UnregisterUnknown(a) PROVE SweepInv' /\ [Leases!Next]_(Leases!lease)
  BY <1>4, <1>b DEF UnregisterUnknown, Crash
<1>5. CASE PollReturns \/ SocketDrained \/ DispatchTimer \/ ReadReturns
  <2>1. UNCHANGED registry /\ toEvict' = toEvict /\ pc # "evicting" /\ pc' # "evicting"
    BY <1>5 DEF PollReturns, SocketDrained, DispatchTimer, ReadReturns
  <2> QED
    BY <1>a, <2>1 DEF SweepInv, Sweeping, Leases!lease
<1>6. CASE Expire
  BY <1>6, ExpireSweep DEF Leases!Next
<1>7. CASE EvictNext
  <2>1. Head(toEvict) \in Apps
    BY <1>0, <1>7 DEF EvictNext
  <2> QED
    BY <1>7, <2>1, EvictNextSweep DEF Leases!Next
<1>8. CASE Rearm
  <2>1. /\ UNCHANGED registry /\ toEvict' = toEvict /\ toEvict = <<>>
        /\ pc = "evicting" /\ pc' # "evicting"
    BY <1>8 DEF Rearm
  <2>2. Due = {}
    BY <2>1 DEF Due
  <2>3. Leases!EndSweep
    BY <1>a, <2>1, <2>2 DEF Leases!EndSweep, Sweeping
  <2> QED
    BY <1>a, <2>1, <2>3 DEF Leases!Next
<1>9. CASE Tick
  <2>1. Leases!Elapse /\ \A b \in Apps : Forgotten(b)' = Forgotten(b)
    BY <1>0, <1>9, ElapseLease
  <2>2. UNCHANGED <<apps, pc, toEvict>>
    BY <1>9 DEF Tick
  <2>3. SweepInv'
    BY <2>1, <2>2, SameSweep DEF SweepInv
  <2> QED
    BY <2>1, <2>3 DEF Leases!Next
<1>10. CASE ExpireAsserts \/ EvictNextThrows \/ Crashed \/ UNCHANGED vars
  BY <1>b, <1>10 DEF ExpireAsserts, EvictNextThrows, Crashed, Crash, vars
<1> QED
  BY <1>1, <1>2, <1>3, <1>4, <1>5, <1>6, <1>7, <1>8, <1>9, <1>10 DEF Next, Message, Worker

\* A runtime that starts is an empty table.
LEMMA InitLeases == Init => SweepInv /\ Leases!Init
<1> SUFFICES ASSUME Init PROVE SweepInv /\ Leases!Init
  OBVIOUS
<1>1. apps = {} /\ DOMAIN heartbeat = {} /\ toEvict = <<>> /\ DOMAIN toEvict = {} /\ pc = "poll"
  BY DEF Init
<1>2. SweepInv
  BY <1>1 DEF SweepInv
<1>3. \A a \in Apps : Forgotten(a) = {}
  BY <1>1 DEF Forgotten
<1>4. ForgottenAges = [a \in Apps |-> {}]
  BY <1>3 DEF ForgottenAges
<1>5. LeaseAges = [a \in {} |-> 0]
  BY <1>1 DEF LeaseAges
<1>6. Due = {} /\ Sweeping = FALSE
  BY <1>1 DEF Due, Sweeping
<1> QED
  BY <1>2, <1>4, <1>5, <1>6 DEF Leases!Init

LEMMA AlwaysSweepInv == Spec => []SweepInv
  BY InitLeases, AlwaysIInv, NextLeases, PTL DEF Spec

\* The runtime implements the table of leases: whatever the order of messages,
\* ticks and expiries, the list and its iterators make an eviction round take
\* every registration whose lease is over, and no other.
THEOREM LeasesImplemented == Spec => ImplementsLeases
<1>1. IInv /\ SweepInv /\ [Next]_vars => [Leases!Next]_(Leases!lease)
  BY NextLeases
<1> QED
  BY <1>1, InitLeases, AlwaysIInv, AlwaysSweepInv, PTL DEF Spec, ImplementsLeases, Leases!Spec

\* The noexcept eviction handler meets an application that is no longer registered,
\* and ends the process, only if an earlier restart left a record without an owner.
THEOREM EvictionThrowsOnlyIfForgotten ==
    Spec => [][ (EvictNextThrows => \E a \in Apps : Forgotten(a) # {}) ]_vars
<1>1. IInv /\ SweepInv /\ EvictNextThrows => \E a \in Apps : Forgotten(a) # {}
  <2> SUFFICES ASSUME IInv, SweepInv, EvictNextThrows PROVE \E a \in Apps : Forgotten(a) # {}
    OBVIOUS
  <2>1. toEvict \in Seq(Apps) /\ toEvict # <<>> /\ Head(toEvict) \notin apps
    BY DEF IInv, TypeOK, EvictNextThrows
  <2>2. 1 \in DOMAIN toEvict /\ toEvict[1] = Head(toEvict) /\ Head(toEvict) \in Apps
    BY <2>1
  <2> QED
    BY <2>1, <2>2 DEF SweepInv
<1> QED
  BY <1>1, AlwaysIInv, AlwaysSweepInv, PTL DEF Spec

-----------------------------------------------------------------------------
(* Every operation of the handle keeps a timer Sound, so its owners may    *)
(* call them in any order; what the worker does is the rest of the proof.  *)

\* What the operations rely on besides the properties.  A periodic timer that is
\* stopped has no time left to run, which reschedule would hand to the kernel.  One
\* whose interval is negative, so that the kernel refuses every time it is given, has
\* no kernel timer that still counts down or has expired.
Quiet(t) ==
    /\ t.state # "EXPIRED"
    /\ t.state \notin {"ARMED", "PAUSED"} => t.it_value = 0
    /\ t.state # "ARMED" \/ t.it_interval < 0 => t.value = 0 /\ t.expirations = 0

\* If the duration it was given last is positive, it is reloaded when it expires, and
\* it has time left when it is paused, or resume would disarm it.
Running(t) ==
    t.duration.ticks > 0 =>
        /\ t.it_interval > 0 /\ t.interval > 0
        /\ t.state = "ARMED" => t.value > 0
        /\ t.state = "PAUSED" => t.it_value > 0

Sound(t) ==
    /\ t \in Timers
    /\ t.duration \in Given
    /\ t.watched <=> IsRunning(t)
    /\ ~t.oneshot => Quiet(t) /\ Running(t)

\* A duration given to a timer is a number of ticks, positive or not.
LEMMA GivenType == \A d \in Given : d \in [ticks : Int, measured : BOOLEAN]
  BY DurationsAssumption DEF Given

\* start() of a timer that is DISARMED, whether it was watched or not (restart()
\* calls it for one that is), arms it if it is given some time.
LEMMA ArmSound ==
    ASSUME NEW t \in Timers, t.state = "DISARMED", t.duration \in Given,
           ~t.oneshot => /\ t.it_interval < 0 => t.value = 0 /\ t.expirations = 0
                         /\ t.duration.ticks > 0 => t.it_interval > 0
    PROVE  Sound(Start(t))
<1> DEFINE u == [t EXCEPT !.watched = TRUE, !.it_value = t.it_interval, !.state = "ARMED"]
           v == SetTime(u, t.it_interval, t.it_interval)
<1>1. u \in Timers /\ u.watched /\ u.it_value = t.it_interval /\ u.state = "ARMED"
      /\ u.oneshot = t.oneshot /\ u.duration = t.duration /\ u.it_interval = t.it_interval
      /\ u.value = t.value /\ u.expirations = t.expirations
  BY DEF Timers, States
<1>2. Start(t) = v
  BY DEF Start
<1>3. t.it_interval \in Int /\ t.duration.ticks \in Int
  BY DEF Timers
<1> HIDE DEF u
<1>4. /\ v \in Timers /\ v.watched /\ v.state = "ARMED"
      /\ v.oneshot = t.oneshot /\ v.duration = t.duration /\ v.it_interval = t.it_interval
      /\ t.it_interval >= 0 => v.value = t.it_interval /\ v.interval = t.it_interval
      /\ t.it_interval < 0 => v.value = t.value /\ v.expirations = t.expirations
  BY <1>1, <1>3, SetTimeFields
<1> HIDE DEF v
<1>5. ~v.oneshot => Quiet(v)
  BY <1>3, <1>4 DEF Quiet
<1>6. ~v.oneshot => Running(v)
  BY <1>3, <1>4 DEF Running
<1> QED
  BY <1>2, <1>4, <1>5, <1>6 DEF Sound, IsRunning

\* start() of any timer: one that is ARMED or PAUSED is left alone.
LEMMA StartSound == ASSUME NEW t, Sound(t) PROVE Sound(Start(t))
<1>1. CASE t.state # "DISARMED"
  BY <1>1 DEF Start
<1>2. CASE t.state = "DISARMED"
  BY <1>2, ArmSound DEF Sound, Quiet, Running
<1> QED
  BY <1>1, <1>2

\* restart() of any timer, which disarms it first.
LEMMA RestartSound == ASSUME NEW t, Sound(t) PROVE Sound(Restart(t))
<1> DEFINE u == [t EXCEPT !.state = "DISARMED"]
<1>1. CASE t.state = "DISARMED"
  BY <1>1 DEF Restart
<1>2. CASE t.state # "DISARMED"
  <2>1. u \in Timers /\ u.state = "DISARMED" /\ u.duration = t.duration
        /\ u.oneshot = t.oneshot /\ u.it_interval = t.it_interval
        /\ u.value = t.value /\ u.expirations = t.expirations
    BY DEF Sound, Timers, States
  <2>2. Sound(Start(u))
    <3> HIDE DEF u
    <3> QED
      BY <2>1, ArmSound DEF Sound, Quiet, Running
  <2> QED
    BY <1>2, <2>2 DEF Restart
<1> QED
  BY <1>1, <1>2

\* pause() keeps the time that is left.
LEMMA PauseSound == ASSUME NEW t, Sound(t) PROVE Sound(Pause(t))
<1> DEFINE u == [t EXCEPT !.it_value = t.value, !.it_interval = t.interval, !.state = "PAUSED"]
           v == SetTime(u, 0, t.interval)
<1>1. CASE t.state # "ARMED"
  BY <1>1 DEF Pause
<1>2. CASE t.state = "ARMED"
  <2>1. t.value \in Int /\ t.interval \in Int /\ t.interval >= 0
    BY DEF Sound, Timers
  <2>2. u \in Timers /\ u.it_value = t.value /\ u.it_interval = t.interval /\ u.state = "PAUSED"
        /\ u.oneshot = t.oneshot /\ u.duration = t.duration /\ u.watched = t.watched
    BY <2>1 DEF Sound, Timers, States
  <2>3. Pause(t) = v
    BY <1>2 DEF Pause
  <2> HIDE DEF u
  <2>4. v \in Timers /\ v.it_value = t.value /\ v.it_interval = t.interval /\ v.state = "PAUSED"
        /\ v.oneshot = t.oneshot /\ v.duration = t.duration /\ v.watched = t.watched
        /\ v.value = 0 /\ v.interval = t.interval /\ v.expirations = 0
    <3> HIDE DEF v
    <3>1. /\ v \in Timers
          /\ v.state = u.state /\ v.oneshot = u.oneshot /\ v.duration = u.duration
          /\ v.it_interval = u.it_interval /\ v.it_value = u.it_value /\ v.watched = u.watched
          /\ v.value = 0 /\ v.interval = t.interval /\ v.expirations = 0
      BY <2>1, <2>2, 0 \in Int, 0 >= 0, SetTimeFields DEF v
    <3> QED
      BY <2>2, <3>1
  <2> HIDE DEF v
  <2>5. ~v.oneshot => Quiet(v)
    BY <2>4 DEF Quiet
  <2>6. ~v.oneshot => Running(v)
    BY <1>2, <2>1, <2>4 DEF Sound, Running
  <2> QED
    BY <1>2, <2>3, <2>4, <2>5, <2>6 DEF Sound, IsRunning
<1> QED
  BY <1>1, <1>2

\* resume() hands the kernel the time that was left.
LEMMA ResumeSound == ASSUME NEW t, Sound(t) PROVE Sound(Resume(t))
<1> DEFINE u == [t EXCEPT !.state = "ARMED"]
           v == SetTime(u, t.it_value, t.it_interval)
<1>1. CASE t.state # "PAUSED"
  BY <1>1 DEF Resume
<1>2. CASE t.state = "PAUSED"
  <2>1. t.it_value \in Int /\ t.it_interval \in Int
    BY DEF Sound, Timers
  <2>2. u \in Timers /\ u.it_value = t.it_value /\ u.it_interval = t.it_interval /\ u.state = "ARMED"
        /\ u.oneshot = t.oneshot /\ u.duration = t.duration /\ u.watched = t.watched
        /\ u.value = t.value /\ u.expirations = t.expirations
    BY DEF Sound, Timers, States
  <2>3. Resume(t) = v
    BY <1>2 DEF Resume
  <2> HIDE DEF u
  <2>4. v \in Timers /\ v.it_value = t.it_value /\ v.it_interval = t.it_interval /\ v.state = "ARMED"
        /\ v.oneshot = t.oneshot /\ v.duration = t.duration /\ v.watched = t.watched
        /\ (t.it_value >= 0 /\ t.it_interval >= 0 =>
                v.value = t.it_value /\ v.interval = t.it_interval)
        /\ (t.it_value < 0 \/ t.it_interval < 0 =>
                v.value = t.value /\ v.expirations = t.expirations)
    BY <2>1, <2>2, SetTimeFields
  <2> HIDE DEF v
  <2>5. t.watched
    BY <1>2 DEF Sound, IsRunning
  <2>6. ~v.oneshot => Quiet(v)
    <3>1. ~t.oneshot => t.value = 0 /\ t.expirations = 0
      BY <1>2 DEF Sound, Quiet
    <3> QED
      BY <2>4, <3>1 DEF Quiet
  <2>7. ~v.oneshot => Running(v)
    <3>1. ~t.oneshot /\ t.duration.ticks > 0 => t.it_value > 0 /\ t.it_interval > 0
      BY <1>2 DEF Sound, Running
    <3> QED
      BY <2>1, <2>4, <3>1 DEF Running
  <2> QED
    BY <2>3, <2>4, <2>5, <2>6, <2>7 DEF Sound, IsRunning
<1> QED
  BY <1>1, <1>2

\* stop() disarms the kernel timer and forgets the time that was left.
LEMMA StopSound == ASSUME NEW t, Sound(t) PROVE Sound(Stop(t)) /\ ~IsRunning(Stop(t))
<1> DEFINE u == [t EXCEPT !.watched = FALSE, !.it_value = 0, !.state = "STOPPED"]
           v == SetTime(u, 0, t.it_interval)
<1>1. CASE t.state \notin {"ARMED", "PAUSED"}
  BY <1>1 DEF Stop, IsRunning
<1>2. CASE t.state \in {"ARMED", "PAUSED"}
  <2>1. t.it_interval \in Int
    BY DEF Sound, Timers
  <2>2. u \in Timers /\ u.it_value = 0 /\ u.it_interval = t.it_interval /\ u.state = "STOPPED"
        /\ u.oneshot = t.oneshot /\ u.duration = t.duration /\ ~u.watched
        /\ u.value = t.value /\ u.interval = t.interval /\ u.expirations = t.expirations
    BY 0 \in Int, {0} \subseteq Int DEF Sound, Timers, States
  <2>3. Stop(t) = v
    BY <1>2 DEF Stop
  <2> HIDE DEF u
  <2>4. v \in Timers /\ v.it_value = 0 /\ v.it_interval = t.it_interval /\ v.state = "STOPPED"
        /\ v.oneshot = t.oneshot /\ v.duration = t.duration /\ ~v.watched
        /\ (t.it_interval >= 0 => v.value = 0 /\ v.interval = t.it_interval /\ v.expirations = 0)
        /\ (t.it_interval < 0 => v.value = t.value /\ v.expirations = t.expirations)
    BY <2>1, <2>2, SetTimeFields
  <2> HIDE DEF v
  <2>5. ~v.oneshot => Quiet(v)
    <3>1. ~t.oneshot /\ t.it_interval < 0 => t.value = 0 /\ t.expirations = 0
      BY DEF Sound, Quiet
    <3> QED
      BY <2>1, <2>4, <3>1 DEF Quiet
  <2>6. ~v.oneshot => Running(v)
    <3>1. ~t.oneshot /\ t.duration.ticks > 0 => t.it_interval > 0
      BY DEF Sound, Running
    <3> QED
      BY <2>1, <2>4, <3>1 DEF Running
  <2>7. ~IsRunning(v)
    BY <2>4 DEF IsRunning
  <2> QED
    BY <2>3, <2>4, <2>5, <2>6, <2>7 DEF Sound
<1> QED
  BY <1>1, <1>2

\* reschedule() leaves the timer DISARMED, so nothing may be left for it to run.
LEMMA RescheduleSound ==
    ASSUME NEW t, Sound(t), NEW d \in Given
    PROVE  Sound(Reschedule(t, d))
<1> DEFINE s == Stop(t)
           u == [s EXCEPT !.duration = d, !.it_interval = d.ticks]
           w == [u EXCEPT !.state = "DISARMED"]
           v == SetTime(w, u.it_value, u.it_interval)
<1>1. d \in [ticks : Int, measured : BOOLEAN]
  BY GivenType
<1>2. Sound(s) /\ ~IsRunning(s)
  BY StopSound
<1>3. CASE SameDuration(t.duration, d)
  BY <1>3 DEF Reschedule
<1>4. CASE ~SameDuration(t.duration, d)
  <2>1. Reschedule(t, d) = v
    BY <1>4 DEF Reschedule
  <2> HIDE DEF s
  <2>2. /\ w \in Timers /\ w.state = "DISARMED" /\ w.duration = d /\ w.it_interval = d.ticks
        /\ w.oneshot = s.oneshot /\ w.it_value = s.it_value /\ w.watched = s.watched
        /\ w.value = s.value /\ w.expirations = s.expirations
        /\ u.it_value = s.it_value /\ u.it_interval = d.ticks
    BY <1>1, <1>2 DEF Sound, Timers, States
  <2>3. s.it_value \in Int /\ d.ticks \in Int
    BY <1>1, <1>2 DEF Sound, Timers
  <2> HIDE DEF u, w
  <2>4. /\ v \in Timers /\ v.state = "DISARMED" /\ v.duration = d /\ v.it_interval = d.ticks
        /\ v.oneshot = s.oneshot /\ v.it_value = s.it_value /\ v.watched = s.watched
        /\ (s.it_value >= 0 /\ d.ticks >= 0 =>
                v.value = s.it_value /\ v.interval = d.ticks /\ v.expirations = 0)
        /\ (s.it_value < 0 \/ d.ticks < 0 => v.value = s.value /\ v.expirations = s.expirations)
    BY <1>1, <2>2, <2>3, SetTimeFields
  <2>5. ~s.oneshot => s.it_value = 0 /\ s.value = 0 /\ s.expirations = 0
    BY <1>2 DEF Sound, Quiet, IsRunning
  <2> HIDE DEF v
  <2>6. ~v.oneshot => Quiet(v)
    BY <2>3, <2>4, <2>5 DEF Quiet
  <2>7. ~v.oneshot => Running(v)
    BY <2>3, <2>4, <2>5 DEF Running
  <2>8. Sound(v)
    BY <1>2, <2>4, <2>6, <2>7 DEF Sound, IsRunning
  <2> QED
    BY <2>1, <2>8
<1> QED
  BY <1>3, <1>4

\* The kernel reloads a periodic timer when it expires.
LEMMA ElapseSound == ASSUME NEW t, Sound(t) PROVE Sound(Elapse(t))
<1>1. t.value \in Nat /\ t.interval \in Nat
  BY DEF Sound, Timers
<1>2. CASE t.value = 0
  BY <1>2 DEF Elapse
<1>3. ASSUME t.value > 0, NEW u \in Timers, u.state = t.state, u.oneshot = t.oneshot,
             u.duration = t.duration, u.it_interval = t.it_interval, u.it_value = t.it_value,
             u.watched = t.watched, u.interval = t.interval, t.interval > 0 => u.value > 0
      PROVE  Sound(u)
  <2>1. ~u.oneshot => Quiet(u)
    BY <1>3 DEF Sound, Quiet
  <2>2. ~u.oneshot => Running(u)
    BY <1>3 DEF Sound, Running
  <2> QED
    BY <1>3, <2>1, <2>2 DEF Sound, IsRunning
<1>4. CASE t.value > 1
  <2> DEFINE u == [t EXCEPT !.value = @ - 1]
  <2>1. Elapse(t) = u
    BY <1>1, <1>4 DEF Elapse
  <2>2. t.value - 1 \in Nat /\ t.value - 1 > 0
    BY <1>1, <1>4
  <2>3. u \in Timers /\ u.value = t.value - 1
    BY <2>2 DEF Sound, Timers
  <2>4. u.state = t.state /\ u.oneshot = t.oneshot /\ u.duration = t.duration
        /\ u.it_interval = t.it_interval /\ u.it_value = t.it_value
        /\ u.watched = t.watched /\ u.interval = t.interval
    BY DEF Sound, Timers
  <2> HIDE DEF u
  <2>5. t.value > 0 /\ u.value > 0
    BY <1>1, <1>4, <2>2, <2>3
  <2> QED
    BY <1>3, <2>1, <2>3, <2>4, <2>5
<1>5. CASE t.value = 1
  <2> DEFINE u == [t EXCEPT !.value = t.interval, !.expirations = 1]
  <2>1. Elapse(t) = u
    BY <1>5 DEF Elapse
  <2>2. u \in Timers /\ u.value = t.interval
    BY <1>1 DEF Sound, Timers
  <2>3. u.state = t.state /\ u.oneshot = t.oneshot /\ u.duration = t.duration
        /\ u.it_interval = t.it_interval /\ u.it_value = t.it_value
        /\ u.watched = t.watched /\ u.interval = t.interval
    BY DEF Sound, Timers
  <2> HIDE DEF u
  <2> QED
    BY <1>3, <1>5, <2>1, <2>2, <2>3
<1> QED
  BY <1>1, <1>2, <1>4, <1>5

\* A one-shot timer leaves the watch list when its callback begins.
LEMMA EnterCallbackSound == ASSUME NEW t, Sound(t) PROVE Sound(EnterCallback(t))
<1>1. CASE ~t.oneshot
  BY <1>1 DEF EnterCallback
<1>2. CASE t.oneshot
  <2> DEFINE u == [t EXCEPT !.watched = FALSE, !.state = "EXPIRED"]
  <2>1. u \in Timers /\ u.oneshot /\ u.duration = t.duration /\ ~u.watched /\ u.state = "EXPIRED"
    BY <1>2 DEF Sound, Timers, States
  <2> QED
    BY <1>2, <2>1 DEF EnterCallback, Sound, IsRunning
<1> QED
  BY <1>1, <1>2

\* The worker reads the expirations.
LEMMA DrainSound == ASSUME NEW t, Sound(t) PROVE Sound(Drain(t))
<1> DEFINE u == [t EXCEPT !.expirations = 0]
<1>1. u \in Timers
  BY DEF Sound, Timers
<1>2. u.state = t.state /\ u.oneshot = t.oneshot /\ u.duration = t.duration
      /\ u.it_interval = t.it_interval /\ u.it_value = t.it_value /\ u.watched = t.watched
      /\ u.value = t.value /\ u.interval = t.interval /\ u.expirations = 0
  BY DEF Sound, Timers
<1>3. Drain(t) = u
  BY DEF Drain
<1> HIDE DEF u
<1>4. ~u.oneshot => Quiet(u)
  BY <1>2 DEF Sound, Quiet
<1>5. ~u.oneshot => Running(u)
  BY <1>2 DEF Sound, Running
<1> QED
  BY <1>1, <1>2, <1>3, <1>4, <1>5 DEF Sound, IsRunning

-----------------------------------------------------------------------------
(* A timer by itself: TimerHandle, whose state is not the runtime's.       *)

Handle == INSTANCE TimerHandle

\* The handle's operations are those of Timer.
LEMMA HandleOperations ==
    \A t : /\ Handle!Operation(t) = {Start(t), Pause(t), Resume(t), Stop(t), Restart(t)}
                                        \cup {Reschedule(t, d) : d \in Given}
          /\ Handle!Stop(t) = Stop(t)
          /\ Handle!EnterCallback(t) = EnterCallback(t)
          /\ Handle!CanRead(t) = CanRead(t)
          /\ Handle!Drain(t) = Drain(t)
          /\ Handle!Elapse(t) = Elapse(t)
          /\ \A d, oneshot : Handle!Make(d, oneshot) = Make(d, oneshot)
<1> TAKE t
<1>1. \A u, v, i : Handle!SetTime(u, v, i) = SetTime(u, v, i)
  BY DEF Handle!SetTime, SetTime
<1>2. \A u : Handle!Start(u) = Start(u) /\ Handle!Stop(u) = Stop(u)
  BY <1>1 DEF Handle!Start, Start, Handle!Stop, Stop
<1>3. /\ Handle!Pause(t) = Pause(t) /\ Handle!Resume(t) = Resume(t)
      /\ Handle!Restart(t) = Restart(t)
  BY <1>1, <1>2 DEF Handle!Pause, Pause, Handle!Resume, Resume, Handle!Restart, Restart
<1>4. Handle!Given = Given
  BY DEF Handle!Given, Given
<1>5. \A d : Handle!Reschedule(t, d) = Reschedule(t, d)
  <2> TAKE d
  <2> DEFINE s == [Stop(t) EXCEPT !.duration = d, !.it_interval = d.ticks]
             u == [s EXCEPT !.state = "DISARMED"]
  <2>1. Handle!SameDuration(t.duration, d) <=> SameDuration(t.duration, d)
    BY DEF Handle!SameDuration, SameDuration
  <2>2. CASE SameDuration(t.duration, d)
    BY <2>1, <2>2 DEF Handle!Reschedule, Reschedule
  <2>3. CASE ~SameDuration(t.duration, d)
    <3>1. Reschedule(t, d) = SetTime(u, s.it_value, s.it_interval)
      BY <2>3 DEF Reschedule
    <3>2. Handle!Reschedule(t, d) = Handle!SetTime(u, s.it_value, s.it_interval)
      BY <1>2, <2>1, <2>3 DEF Handle!Reschedule
    <3> HIDE DEF s, u
    <3> QED
      BY <1>1, <3>1, <3>2
  <2> QED
    BY <2>2, <2>3
<1>6. Handle!Operation(t) = {Start(t), Pause(t), Resume(t), Stop(t), Restart(t)}
                                        \cup {Reschedule(t, d) : d \in Given}
  BY <1>2, <1>3, <1>4, <1>5 DEF Handle!Operation
<1>7. /\ Handle!EnterCallback(t) = EnterCallback(t) /\ Handle!CanRead(t) = CanRead(t)
      /\ Handle!Drain(t) = Drain(t) /\ Handle!Elapse(t) = Elapse(t)
  BY DEF Handle!EnterCallback, EnterCallback, Handle!CanRead, CanRead, Handle!Drain, Drain,
         Handle!Elapse, Elapse
<1>8. \A d, oneshot : Handle!Make(d, oneshot) = Make(d, oneshot)
  BY <1>1 DEF Handle!Make, Make
<1> QED
  BY <1>2, <1>6, <1>7, <1>8

\* The invariant: nobody owns a handle that was destroyed, and the callback holds on
\* to the one it runs for.
HandleInv ==
    /\ Sound(handle)
    /\ stage \in {"idle", "dispatched", "read", "callback"}
    /\ owned \in BOOLEAN /\ destroyed \in BOOLEAN
    /\ destroyed => ~owned /\ stage \in {"idle", "dispatched"}

\* A handle is made with the properties.
LEMMA HandleInitInv == Handle!Init => HandleInv
<1> SUFFICES ASSUME Handle!Init PROVE HandleInv
  OBVIOUS
<1>1. PICK d \in Given, oneshot \in BOOLEAN : handle = Make(d, oneshot)
  BY HandleOperations DEF Handle!Init, Handle!Given, Given
<1>2. d \in [ticks : Int, measured : BOOLEAN]
  BY GivenType
<1>3. /\ handle \in Timers /\ handle.state = "DISARMED" /\ handle.oneshot = oneshot
      /\ handle.duration = d /\ handle.it_interval = (IF oneshot THEN 0 ELSE d.ticks)
      /\ handle.it_value = 0 /\ ~handle.watched /\ handle.value = 0 /\ handle.expirations = 0
      /\ ~oneshot /\ d.ticks > 0 => handle.interval > 0
  BY <1>1, <1>2, MakeFields
<1>4. ~handle.oneshot => Quiet(handle) /\ Running(handle)
  BY <1>3 DEF Quiet, Running
<1>5. Sound(handle)
  BY <1>3, <1>4 DEF Sound, IsRunning
<1> QED
  BY <1>5 DEF Handle!Init, HandleInv

\* Every step keeps the invariant.
LEMMA HandleNextInv == HandleInv /\ [Handle!Next]_(Handle!vars) => HandleInv'
<1> SUFFICES ASSUME HandleInv, [Handle!Next]_(Handle!vars) PROVE HandleInv'
  OBVIOUS
<1> USE DEF HandleInv
<1>1. CASE Handle!Call
  <2>1. Sound(handle')
    <3>1. handle' \in Handle!Operation(handle)
      BY <1>1 DEF Handle!Call
    <3> QED
      BY <3>1, StartSound, PauseSound, ResumeSound, StopSound, RestartSound, RescheduleSound,
         HandleOperations
  <2> QED
    BY <1>1, <2>1 DEF Handle!Call
<1>2. CASE Handle!Release
  BY <1>2, StopSound, HandleOperations DEF Handle!Release
<1>3. CASE Handle!Dispatch
  BY <1>3 DEF Handle!Dispatch
<1>4. CASE Handle!CallbackOfDestroyed
  BY <1>4 DEF Handle!CallbackOfDestroyed
<1>5. CASE Handle!CallbackLocks
  BY <1>5, EnterCallbackSound, HandleOperations DEF Handle!CallbackLocks
<1>6. CASE Handle!ReadReturns
  BY <1>6, DrainSound, HandleOperations DEF Handle!ReadReturns
<1>7. CASE Handle!CallbackReturns
  BY <1>7, StopSound, HandleOperations DEF Handle!CallbackReturns
<1>8. CASE Handle!Tick
  BY <1>8, ElapseSound, HandleOperations DEF Handle!Tick
<1>9. CASE Handle!Gone \/ UNCHANGED Handle!vars
  BY <1>9 DEF Handle!Gone, Handle!vars
<1> QED
  BY <1>1, <1>2, <1>3, <1>4, <1>5, <1>6, <1>7, <1>8, <1>9 DEF Handle!Next, Handle!Worker

\* The inductive invariant holds in every reachable state.
THEOREM HandleInvariance == Handle!Spec => []HandleInv
<1> QED
  BY HandleInitInv, HandleNextInv, PTL DEF Handle!Spec

\* Every field of the handle and of its kernel timer keeps its type.
THEOREM HandleTypeCorrect == Handle!Spec => []Handle!TypeOK
<1>1. HandleInv => Handle!TypeOK
  <2>1. Handle!Timers = Timers
    BY DEF Handle!Timers, Timers, Handle!States, States
  <2>2. Handle!Given = Given
    BY DEF Handle!Given, Given
  <2> QED
    BY <2>1, <2>2 DEF HandleInv, Sound, Handle!TypeOK
<1> QED
  BY <1>1, HandleInvariance, PTL

\* A periodic timer that does not say ARMED neither counts down nor has expired, and
\* one that does counts down unless the duration it was given last is zero or
\* negative: for any durations, whatever was called and whenever its callback ran.
THEOREM KernelFollows == Handle!Spec => []KernelFollowsState
<1>1. HandleInv => KernelFollowsState
  BY DEF HandleInv, Sound, Quiet, Running, KernelFollowsState
<1> QED
  BY <1>1, HandleInvariance, PTL

\* The active object watches the descriptor exactly while the handle runs.
THEOREM Watched == Handle!Spec => []WatchedWhileRunning
<1>1. HandleInv => WatchedWhileRunning
  BY DEF HandleInv, Sound, WatchedWhileRunning, IsRunning
<1> QED
  BY <1>1, HandleInvariance, PTL

\* The callback neither starts nor goes on after the destructor ran.
THEOREM NoLateCallback == Handle!Spec => []NoCallbackAfterDestruction
<1>1. HandleInv => NoCallbackAfterDestruction
  BY DEF HandleInv, NoCallbackAfterDestruction
<1> QED
  BY <1>1, HandleInvariance, PTL
=============================================================================
