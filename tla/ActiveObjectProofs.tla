------------------------- MODULE ActiveObjectProofs -------------------------
(***************************************************************************)
(* Invariance of TypeOK, WatchlistConsistent and NoLostWakeup of           *)
(* ActiveObject, for every set of descriptors and of jobs.                 *)
(***************************************************************************)
EXTENDS ActiveObject, TLAPS

\* Removing the entry at index i of a sequence moves the later entries down
\* by one (std::erase_if on m_polled_fds, of which one entry matches).
LEMMA RemoveIndexProperties ==
    ASSUME NEW S, NEW s \in Seq(S), NEW i \in DOMAIN s
    PROVE  /\ RemoveIndex(s, i) \in Seq(S)
           /\ DOMAIN RemoveIndex(s, i) = 1 .. Len(s) - 1
           /\ \A k \in 1 .. Len(s) - 1 :
                  RemoveIndex(s, i)[k] = IF k < i THEN s[k] ELSE s[k + 1]
<1>1. Len(s) \in Nat /\ DOMAIN s = 1 .. Len(s)
  OBVIOUS
<1>2. \A k \in 1 .. Len(s) - 1 : (IF k < i THEN s[k] ELSE s[k + 1]) \in S
  BY <1>1
<1>3. Len(s) - 1 \in Nat
  BY <1>1
<1>4. RemoveIndex(s, i) \in [1 .. Len(s) - 1 -> S]
  BY <1>2 DEF RemoveIndex
<1>5. RemoveIndex(s, i) \in Seq(S)
  BY <1>3, <1>4
<1> QED
  BY <1>5, <1>4 DEF RemoveIndex

\* The types hold initially.
LEMMA InitTypeOK == Init => TypeOK
<1> SUFFICES ASSUME Init PROVE TypeOK
  OBVIOUS
<1>1. /\ m_jobs \in Seq(Jobs)
      /\ m_polled_fds \in Seq([fd : Fds, events : SUBSET Events])
      /\ \A i \in DOMAIN m_polled_fds : m_polled_fds[i].events # {}
      /\ snapshot \in Seq([fd : Fds, events : SUBSET Events])
  BY DEF Init
<1>2. m_fd_job \in [Events -> SUBSET Fds]
  BY DEF Init
<1>3. cursor \in 0 .. 2 * Len(snapshot)
  <2>1. Len(snapshot) = 0
    BY DEF Init
  <2> QED
    BY <2>1 DEF Init
<1> QED
  BY <1>1, <1>2, <1>3 DEF Init, TypeOK

Entries == [fd : Fds, events : SUBSET Events]

\* A well-typed watch list stays well typed when a watch is added.
LEMMA WatchEntryType ==
    ASSUME m_polled_fds \in Seq(Entries),
           \A i \in DOMAIN m_polled_fds : m_polled_fds[i].events # {},
           NEW fd \in Fds, NEW event \in Events, WatchEntry(fd, event)
    PROVE  /\ m_polled_fds' \in Seq(Entries)
           /\ \A i \in DOMAIN m_polled_fds' : m_polled_fds'[i].events # {}
<1>1. CASE EntriesOf(fd) = {} /\ m_polled_fds' = Append(m_polled_fds, [fd |-> fd, events |-> {event}])
  <2>1. [fd |-> fd, events |-> {event}] \in Entries
    BY DEF Entries
  <2> QED
    BY <1>1, <2>1
<1>2. ASSUME NEW i \in EntriesOf(fd),
             m_polled_fds' = [m_polled_fds EXCEPT ![i].events = @ \cup {event}]
      PROVE  /\ m_polled_fds' \in Seq(Entries)
             /\ \A k \in DOMAIN m_polled_fds' : m_polled_fds'[k].events # {}
  <2>1. i \in DOMAIN m_polled_fds /\ m_polled_fds[i] \in Entries
    BY DEF EntriesOf
  <2> DEFINE e == [m_polled_fds[i] EXCEPT !.events = @ \cup {event}]
  <2>2. e \in Entries /\ e.events # {}
    BY <2>1 DEF Entries
  <2>3. m_polled_fds' = [m_polled_fds EXCEPT ![i] = e]
    BY <1>2
  <2> HIDE DEF e
  <2> QED
    BY <2>1, <2>2, <2>3
<1> QED
  BY <1>1, <1>2 DEF WatchEntry

\* ... and when one is removed.
LEMMA UnwatchEntryType ==
    ASSUME m_polled_fds \in Seq(Entries),
           \A i \in DOMAIN m_polled_fds : m_polled_fds[i].events # {},
           NEW i \in DOMAIN m_polled_fds, NEW event \in m_polled_fds[i].events,
           UnwatchEntry(i, event)
    PROVE  /\ m_polled_fds' \in Seq(Entries)
           /\ \A k \in DOMAIN m_polled_fds' : m_polled_fds'[k].events # {}
<1>1. CASE m_polled_fds[i].events = {event}
  <2>1. m_polled_fds' = RemoveIndex(m_polled_fds, i)
    BY <1>1 DEF UnwatchEntry
  <2>2. /\ m_polled_fds' \in Seq(Entries)
        /\ DOMAIN m_polled_fds' = 1 .. Len(m_polled_fds) - 1
        /\ \A k \in 1 .. Len(m_polled_fds) - 1 :
               m_polled_fds'[k] = IF k < i THEN m_polled_fds[k] ELSE m_polled_fds[k + 1]
    BY <2>1, RemoveIndexProperties
  <2> QED
    BY <2>2
<1>2. CASE m_polled_fds[i].events # {event}
  <2> DEFINE e == [m_polled_fds[i] EXCEPT !.events = @ \ {event}]
  <2>0. m_polled_fds[i] \in Entries
    OBVIOUS
  <2>1. e \in Entries /\ e.events = m_polled_fds[i].events \ {event}
    BY <2>0 DEF Entries
  <2>2. m_polled_fds' = [m_polled_fds EXCEPT ![i] = e]
    BY <1>2 DEF UnwatchEntry
  <2>3. e.events # {}
    BY <1>2, <2>1
  <2> HIDE DEF e
  <2> QED
    BY <2>1, <2>2, <2>3
<1> QED
  BY <1>1, <1>2

\* Every step preserves the types.
LEMMA NextTypeOK == TypeOK /\ [Next]_vars => TypeOK'
<1> SUFFICES ASSUME TypeOK, [Next]_vars PROVE TypeOK'
  OBVIOUS
<1> USE DEF TypeOK
<1>0. EnterLoop => /\ pc' \in {"poll", "exited"}
                   /\ snapshot' \in Seq(Entries)
                   /\ revents' = {}
                   /\ stimuli_readable' = FALSE
                   /\ cursor' \in 0 .. 2 * Len(snapshot')
                   /\ running' = NoCallback
  <2> SUFFICES ASSUME EnterLoop
               PROVE  /\ pc' \in {"poll", "exited"}
                      /\ snapshot' \in Seq(Entries)
                      /\ cursor' \in 0 .. 2 * Len(snapshot')
    BY DEF EnterLoop
  <2>1. pc' \in {"poll", "exited"}
    BY DEF EnterLoop
  <2>2. snapshot' \in Seq(Entries)
    <3>1. snapshot' = <<>> \/ snapshot' = m_polled_fds
      BY DEF EnterLoop
    <3>2. <<>> \in Seq(Entries)
      OBVIOUS
    <3> QED
      BY <3>1, <3>2 DEF Entries
  <2>3. Len(snapshot') \in Nat /\ cursor' = 0
    BY <2>2 DEF EnterLoop
  <2> QED
    BY <2>1, <2>2, <2>3
<1>1. ASSUME NEW job \in Jobs, AddToTodoList(job) PROVE TypeOK'
  <2>1. m_jobs' \in Seq(Jobs) /\ posted' \subseteq Jobs
    BY <1>1 DEF AddToTodoList
  <2> QED
    BY <1>1, <2>1 DEF AddToTodoList, worker
<1>2. ASSUME NEW fd \in Fds, NEW event \in Events, AddFdToWatchlist(fd, event) PROVE TypeOK'
  BY <1>2, WatchEntryType DEF AddFdToWatchlist, worker, Entries
<1>3. ASSUME NEW fd \in Fds, NEW event \in Events, RemoveFdFromWatchlist(fd, event) PROVE TypeOK'
  BY <1>3, UnwatchEntryType DEF RemoveFdFromWatchlist, worker, EntriesOf, Entries
<1>4. CASE Destroy
  BY <1>4 DEF Destroy, worker
<1>5. CASE JoinReturns
  BY <1>5 DEF JoinReturns, worker, members
<1>6. CASE StartWork \/ PollFails
  BY <1>0, <1>6 DEF StartWork, PollFails, members, Entries
<1>7. CASE PollReturns
  BY <1>7 DEF PollReturns, members, ReportedBy
<1>8. CASE DispatchFd
  <2> DEFINE n == Len(snapshot)
  <2>1. PICK k \in cursor + 1 .. 2 * n : Due(k) /\ cursor' = k /\ running' = Slot(k)
    BY <1>8 DEF DispatchFd
  <2>2. n \in Nat /\ k \in 0 .. 2 * n
    BY <2>1
  <2>3. running' \in Callbacks
    BY <2>1 DEF Due, Callbacks
  <2>4. eventfd' \in BOOLEAN
    BY <1>8 DEF DispatchFd, Drained
  <2> QED
    BY <1>8, <2>1, <2>2, <2>3, <2>4 DEF DispatchFd, members
<1>9. CASE RunJob
  <2>1. Head(m_jobs) \in Jobs /\ Tail(m_jobs) \in Seq(Jobs)
    BY <1>9 DEF RunJob
  <2>2. running' \in Callbacks
    BY <1>9, <2>1 DEF RunJob, Callbacks
  <2>3. eventfd' \in BOOLEAN
    BY <1>9 DEF RunJob, Drained
  <2>4. 2 * Len(snapshot) \in 0 .. 2 * Len(snapshot)
    OBVIOUS
  <2> QED
    BY <1>9, <2>1, <2>2, <2>3, <2>4 DEF RunJob
<1>10. CASE NextRound
  <2>1. eventfd' \in BOOLEAN
    BY <1>10 DEF NextRound, Drained
  <2> QED
    BY <1>0, <1>10, <2>1 DEF NextRound, members, Entries
<1>11. ASSUME NEW r \in Fds \X Events, KernelChanges(r) PROVE TypeOK'
  BY <1>11 DEF KernelChanges, worker, members
<1>12. CASE Terminated \/ UNCHANGED vars
  BY <1>12 DEF Terminated, vars
<1> QED
  BY WatchesAssumption,
     <1>1, <1>2, <1>3, <1>4, <1>5, <1>6, <1>7, <1>8, <1>9, <1>10, <1>11, <1>12 DEF Next, WorkerStep

\* TypeOK is an invariant: every field keeps its type under every call and
\* every step of work().
THEOREM TypeCorrect == Spec => []TypeOK
  BY InitTypeOK, NextTypeOK, PTL DEF Spec
-----------------------------------------------------------------------------
(* WatchlistConsistent speaks of the vector only through these two.        *)
Asks(s, fd, event) == \E k \in DOMAIN s : s[k].fd = fd /\ event \in s[k].events
Distinct(s) == \A i, j \in DOMAIN s : s[i].fd = s[j].fd => i = j

\* Consistency in those terms, before and after a step.
LEMMA WatchlistForm ==
    /\ WatchlistConsistent <=>
           /\ Distinct(m_polled_fds)
           /\ \A fd \in Fds, event \in Events :
                  fd \in m_fd_job[event] <=> Asks(m_polled_fds, fd, event)
    /\ WatchlistConsistent' <=>
           /\ Distinct(m_polled_fds')
           /\ \A fd \in Fds, event \in Events :
                  fd \in m_fd_job'[event] <=> Asks(m_polled_fds', fd, event)
  BY DEF WatchlistConsistent, Asks, Distinct, EntriesOf

\* emplace_back of an entry for a descriptor that has none
LEMMA AppendEntry ==
    ASSUME NEW s \in Seq(Entries), NEW e \in Entries, Distinct(s),
           \A k \in DOMAIN s : s[k].fd # e.fd
    PROVE  /\ Distinct(Append(s, e))
           /\ \A d, ev : Asks(Append(s, e), d, ev) <=> Asks(s, d, ev) \/ (d = e.fd /\ ev \in e.events)
<1> DEFINE n == Len(s)
           t == Append(s, e)
<1>1. /\ n \in Nat /\ DOMAIN s = 1 .. n /\ DOMAIN t = 1 .. n + 1
      /\ \A k \in 1 .. n : t[k] = s[k]
      /\ t[n + 1] = e
  OBVIOUS
<1> HIDE DEF t, n
<1>2. Distinct(t)
  BY <1>1 DEF Distinct
<1>3. ASSUME NEW d, NEW ev
      PROVE  Asks(t, d, ev) <=> Asks(s, d, ev) \/ (d = e.fd /\ ev \in e.events)
  <2>1. \A k \in 1 .. n + 1 : k \in 1 .. n \/ k = n + 1
    BY <1>1
  <2>2. 1 .. n \subseteq 1 .. n + 1 /\ n + 1 \in 1 .. n + 1
    BY <1>1
  <2> QED
    BY <1>1, <2>1, <2>2 DEF Asks
<1> QED
  BY <1>2, <1>3 DEF t

\* it->events |= ... and it->events &= ... through the iterator find_if returned
LEMMA ReplaceEvents ==
    ASSUME NEW s \in Seq(Entries), NEW i \in DOMAIN s, NEW E \in SUBSET Events, Distinct(s)
    PROVE  LET t == [s EXCEPT ![i].events = E]
           IN  /\ Distinct(t)
               /\ \A d, ev : Asks(t, d, ev) <=> IF d = s[i].fd THEN ev \in E ELSE Asks(s, d, ev)
<1> DEFINE t == [s EXCEPT ![i].events = E]
<1>1. \A k \in DOMAIN s : s[k] \in Entries
  OBVIOUS
<1>2. /\ DOMAIN t = DOMAIN s
      /\ \A k \in DOMAIN s : t[k] = IF k = i THEN [s[i] EXCEPT !.events = E] ELSE s[k]
  OBVIOUS
<1> HIDE DEF t
<1>3. [s[i] EXCEPT !.events = E].fd = s[i].fd /\ [s[i] EXCEPT !.events = E].events = E
  BY <1>1 DEF Entries
<1>4. \A k \in DOMAIN s : t[k].fd = s[k].fd /\ t[k].events = IF k = i THEN E ELSE s[k].events
  BY <1>2, <1>3
<1>5. Distinct(t)
  BY <1>2, <1>4 DEF Distinct
<1>6. ASSUME NEW d, NEW ev
      PROVE  Asks(t, d, ev) <=> IF d = s[i].fd THEN ev \in E ELSE Asks(s, d, ev)
  BY <1>2, <1>4 DEF Asks, Distinct
<1> QED
  BY <1>5, <1>6 DEF t

\* std::erase_if of the one entry of a descriptor
LEMMA RemoveEntry ==
    ASSUME NEW s \in Seq(Entries), NEW i \in DOMAIN s, Distinct(s)
    PROVE  /\ Distinct(RemoveIndex(s, i))
           /\ \A d, ev : Asks(RemoveIndex(s, i), d, ev) <=> d # s[i].fd /\ Asks(s, d, ev)
<1> DEFINE n == Len(s)
           t == RemoveIndex(s, i)
<1>1. /\ n \in Nat /\ DOMAIN s = 1 .. n /\ i \in 1 .. n
      /\ DOMAIN t = 1 .. n - 1
      /\ \A k \in 1 .. n - 1 : t[k] = IF k < i THEN s[k] ELSE s[k + 1]
  BY RemoveIndexProperties
<1> HIDE DEF t, n
<1>2. ASSUME NEW k \in 1 .. n - 1
      PROVE  \E j \in 1 .. n : j # i /\ t[k] = s[j] /\ j = IF k < i THEN k ELSE k + 1
  BY <1>1
<1>3. ASSUME NEW j \in 1 .. n, j # i PROVE \E k \in 1 .. n - 1 : t[k] = s[j]
  <2>1. CASE j < i
    BY <1>1, <2>1
  <2>2. CASE j > i
    <3>1. j - 1 \in 1 .. n - 1 /\ ~(j - 1 < i) /\ (j - 1) + 1 = j
      BY <1>1, <2>2
    <3> QED
      BY <1>1, <3>1
  <2> QED
    BY <1>1, <1>3, <2>1, <2>2
<1>4. Distinct(t)
  <2> SUFFICES ASSUME NEW k \in 1 .. n - 1, NEW l \in 1 .. n - 1, t[k].fd = t[l].fd PROVE k = l
    BY <1>1 DEF Distinct
  <2>1. PICK j \in 1 .. n : t[k] = s[j] /\ j = IF k < i THEN k ELSE k + 1
    BY <1>2
  <2>2. PICK m \in 1 .. n : t[l] = s[m] /\ m = IF l < i THEN l ELSE l + 1
    BY <1>2
  <2>3. j = m
    BY <1>1, <2>1, <2>2 DEF Distinct
  <2> QED
    BY <1>1, <2>1, <2>2, <2>3
<1>5. ASSUME NEW d, NEW ev
      PROVE  Asks(t, d, ev) <=> d # s[i].fd /\ Asks(s, d, ev)
  <2>1. ASSUME Asks(t, d, ev) PROVE d # s[i].fd /\ Asks(s, d, ev)
    <3>1. PICK k \in 1 .. n - 1 : t[k].fd = d /\ ev \in t[k].events
      BY <1>1, <2>1 DEF Asks
    <3>2. PICK j \in 1 .. n : j # i /\ t[k] = s[j]
      BY <1>2
    <3> QED
      BY <1>1, <3>1, <3>2 DEF Asks, Distinct
  <2>2. ASSUME d # s[i].fd, Asks(s, d, ev) PROVE Asks(t, d, ev)
    <3>1. PICK j \in 1 .. n : s[j].fd = d /\ ev \in s[j].events
      BY <1>1, <2>2 DEF Asks
    <3>2. PICK k \in 1 .. n - 1 : t[k] = s[j]
      BY <1>3, <2>2, <3>1
    <3> QED
      BY <1>1, <3>1, <3>2 DEF Asks
  <2> QED
    BY <2>1, <2>2
<1> QED
  BY <1>4, <1>5 DEF t

\* Adding a watch keeps the vector and the map of its event in step.
LEMMA WatchEntryConsistent ==
    ASSUME TypeOK, WatchlistConsistent, NEW fd \in Fds, NEW event \in Events,
           WatchEntry(fd, event), m_fd_job' = [m_fd_job EXCEPT ![event] = @ \cup {fd}]
    PROVE  WatchlistConsistent'
<1>1. /\ m_polled_fds \in Seq(Entries)
      /\ m_fd_job \in [Events -> SUBSET Fds]
      /\ Distinct(m_polled_fds)
      /\ \A d \in Fds, ev \in Events : d \in m_fd_job[ev] <=> Asks(m_polled_fds, d, ev)
  BY WatchlistForm DEF TypeOK, Entries
<1>2. \A d \in Fds, ev \in Events :
          d \in m_fd_job'[ev] <=> d \in m_fd_job[ev] \/ (d = fd /\ ev = event)
  BY <1>1
<1>3. /\ Distinct(m_polled_fds')
      /\ \A d, ev : Asks(m_polled_fds', d, ev) <=> Asks(m_polled_fds, d, ev) \/ (d = fd /\ ev = event)
  <2>1. CASE EntriesOf(fd) = {} /\ m_polled_fds' = Append(m_polled_fds, [fd |-> fd, events |-> {event}])
    <3> DEFINE e == [fd |-> fd, events |-> {event}]
    <3>1. e \in Entries /\ e.fd = fd /\ e.events = {event}
      BY DEF Entries
    <3>2. \A k \in DOMAIN m_polled_fds : m_polled_fds[k].fd # fd
      BY <2>1 DEF EntriesOf
    <3> HIDE DEF e
    <3>3. m_polled_fds' = Append(m_polled_fds, e)
      BY <2>1 DEF e
    <3>4. /\ Distinct(Append(m_polled_fds, e))
          /\ \A d, ev : Asks(Append(m_polled_fds, e), d, ev)
                         <=> Asks(m_polled_fds, d, ev) \/ (d = e.fd /\ ev \in e.events)
      BY <1>1, <3>1, <3>2, AppendEntry
    <3> QED
      BY <3>1, <3>3, <3>4
  <2>2. ASSUME NEW i \in EntriesOf(fd),
               m_polled_fds' = [m_polled_fds EXCEPT ![i].events = @ \cup {event}]
        PROVE  /\ Distinct(m_polled_fds')
               /\ \A d, ev : Asks(m_polled_fds', d, ev) <=> Asks(m_polled_fds, d, ev) \/ (d = fd /\ ev = event)
    <3> DEFINE E == m_polled_fds[i].events \cup {event}
    <3>1. i \in DOMAIN m_polled_fds /\ m_polled_fds[i].fd = fd
      BY DEF EntriesOf
    <3>2. m_polled_fds[i] \in Entries
      BY <1>1, <3>1
    <3>3. E \in SUBSET Events
      BY <3>2 DEF Entries
    <3>4. m_polled_fds' = [m_polled_fds EXCEPT ![i].events = E]
      BY <2>2
    <3>5. \A ev : Asks(m_polled_fds, fd, ev) <=> ev \in m_polled_fds[i].events
      BY <1>1, <3>1 DEF Asks, Distinct
    <3>6. \A ev : ev \in E <=> Asks(m_polled_fds, fd, ev) \/ ev = event
      BY <3>5
    <3> HIDE DEF E
    <3>7. /\ Distinct(m_polled_fds')
          /\ \A d, ev : Asks(m_polled_fds', d, ev)
                         <=> IF d = m_polled_fds[i].fd THEN ev \in E ELSE Asks(m_polled_fds, d, ev)
      BY <1>1, <3>1, <3>3, <3>4, ReplaceEvents
    <3> QED
      BY <3>1, <3>6, <3>7
  <2> QED
    BY <2>1, <2>2 DEF WatchEntry
<1> QED
  BY <1>1, <1>2, <1>3, WatchlistForm

\* So does removing one.
LEMMA UnwatchEntryConsistent ==
    ASSUME TypeOK, WatchlistConsistent, NEW fd \in Fds, NEW event \in Events,
           NEW i \in EntriesOf(fd), event \in m_polled_fds[i].events,
           UnwatchEntry(i, event), m_fd_job' = [m_fd_job EXCEPT ![event] = @ \ {fd}]
    PROVE  WatchlistConsistent'
<1>1. /\ m_polled_fds \in Seq(Entries)
      /\ m_fd_job \in [Events -> SUBSET Fds]
      /\ Distinct(m_polled_fds)
      /\ \A d \in Fds, ev \in Events : d \in m_fd_job[ev] <=> Asks(m_polled_fds, d, ev)
  BY WatchlistForm DEF TypeOK, Entries
<1>2. \A d \in Fds, ev \in Events :
          d \in m_fd_job'[ev] <=> d \in m_fd_job[ev] /\ ~(d = fd /\ ev = event)
  BY <1>1
<1>3. i \in DOMAIN m_polled_fds /\ m_polled_fds[i].fd = fd /\ m_polled_fds[i] \in Entries
  BY <1>1 DEF EntriesOf
<1>4. \A ev : Asks(m_polled_fds, fd, ev) <=> ev \in m_polled_fds[i].events
  BY <1>1, <1>3 DEF Asks, Distinct
<1>5. /\ Distinct(m_polled_fds')
      /\ \A d, ev : Asks(m_polled_fds', d, ev) <=> Asks(m_polled_fds, d, ev) /\ ~(d = fd /\ ev = event)
  <2>1. CASE m_polled_fds[i].events = {event}
    <3>1. m_polled_fds' = RemoveIndex(m_polled_fds, i)
      BY <2>1 DEF UnwatchEntry
    <3>2. /\ Distinct(m_polled_fds')
          /\ \A d, ev : Asks(m_polled_fds', d, ev) <=> d # fd /\ Asks(m_polled_fds, d, ev)
      BY <1>1, <1>3, <3>1, RemoveEntry
    <3> QED
      BY <1>4, <2>1, <3>2
  <2>2. CASE m_polled_fds[i].events # {event}
    <3> DEFINE E == m_polled_fds[i].events \ {event}
    <3>1. E \in SUBSET Events
      BY <1>3 DEF Entries
    <3>2. m_polled_fds' = [m_polled_fds EXCEPT ![i].events = E]
      BY <2>2 DEF UnwatchEntry
    <3>3. \A ev : ev \in E <=> Asks(m_polled_fds, fd, ev) /\ ev # event
      BY <1>4
    <3> HIDE DEF E
    <3>4. /\ Distinct(m_polled_fds')
          /\ \A d, ev : Asks(m_polled_fds', d, ev)
                         <=> IF d = m_polled_fds[i].fd THEN ev \in E ELSE Asks(m_polled_fds, d, ev)
      BY <1>1, <1>3, <3>1, <3>2, ReplaceEvents
    <3> QED
      BY <1>3, <3>3, <3>4
  <2> QED
    BY <2>1, <2>2
<1> QED
  BY <1>1, <1>2, <1>5, WatchlistForm

\* Only the four watch-list functions touch the watch list, so their two
\* lemmas are the whole step.
LEMMA NextWatchlistConsistent == TypeOK /\ WatchlistConsistent /\ [Next]_vars => WatchlistConsistent'
<1> SUFFICES ASSUME TypeOK, WatchlistConsistent, [Next]_vars PROVE WatchlistConsistent'
  OBVIOUS
<1>1. ASSUME NEW fd \in Fds, NEW event \in Events, AddFdToWatchlist(fd, event)
      PROVE  WatchlistConsistent'
  BY <1>1, WatchEntryConsistent DEF AddFdToWatchlist
<1>2. ASSUME NEW fd \in Fds, NEW event \in Events, RemoveFdFromWatchlist(fd, event)
      PROVE  WatchlistConsistent'
  BY <1>2, UnwatchEntryConsistent DEF RemoveFdFromWatchlist
<1>3. ASSUME UNCHANGED <<m_polled_fds, m_fd_job>> PROVE WatchlistConsistent'
  BY <1>3 DEF WatchlistConsistent, EntriesOf
<1> QED
  BY <1>1, <1>2, <1>3 DEF Next, WorkerStep, AddToTodoList, Destroy, JoinReturns, StartWork,
     PollFails, PollReturns, DispatchFd, RunJob, NextRound, KernelChanges, Terminated, members, vars

\* The watch list and the two callback maps agree after every operation.
THEOREM WatchlistAlwaysConsistent == Spec => []WatchlistConsistent
<1>1. Init => WatchlistConsistent
  BY DEF Init, WatchlistConsistent, EntriesOf
<1> QED
  BY <1>1, TypeCorrect, NextWatchlistConsistent, PTL DEF Spec

-----------------------------------------------------------------------------
\* NoLostWakeup is not inductive: nothing in it says what the worker's first
\* snapshot may miss.  Before that snapshot, too, what was posted has written
\* the eventfd, which only a return from poll() drains.
WakeupInv ==
    /\ NoLostWakeup
    /\ (pc = "start" /\ ~eventfd) => m_jobs = <<>> /\ ~f_terminate

\* Every step keeps the eventfd readable while something waits for the worker.
LEMMA NextWakeupInv == TypeOK /\ WakeupInv /\ [Next]_vars => WakeupInv'
<1> SUFFICES ASSUME TypeOK, WakeupInv, [Next]_vars PROVE WakeupInv'
  OBVIOUS
<1> USE DEF WakeupInv, NoLostWakeup
\* the calls that change what the worker should see write the eventfd
<1>1. ASSUME eventfd' = TRUE PROVE WakeupInv'
  BY <1>1
\* steps that drain it leave the worker in a callback or at the top of the loop
<1>2. ASSUME pc' \notin {"poll", "start"} PROVE WakeupInv'
  BY <1>2
<1>3. ASSUME UNCHANGED <<pc, eventfd, m_jobs, f_terminate, snapshot, m_polled_fds>> PROVE WakeupInv'
  BY <1>3
<1>4. CASE StartWork
  BY <1>4 DEF StartWork, EnterLoop, members
<1>5. CASE PollFails
  BY <1>5 DEF PollFails, EnterLoop, members
<1>6. CASE NextRound
  BY <1>6 DEF NextRound, EnterLoop, members
<1>7. ASSUME NEW job \in Jobs, AddToTodoList(job) PROVE eventfd' = TRUE
  BY <1>7 DEF AddToTodoList
<1>8. ASSUME NEW fd \in Fds, NEW event \in Events,
             AddFdToWatchlist(fd, event) \/ RemoveFdFromWatchlist(fd, event)
      PROVE  eventfd' = TRUE
  BY <1>8 DEF AddFdToWatchlist, RemoveFdFromWatchlist
<1>9. CASE Destroy
  BY <1>1, <1>9 DEF Destroy
<1>10. CASE PollReturns \/ DispatchFd \/ RunJob
  BY <1>2, <1>10 DEF PollReturns, DispatchFd, RunJob
<1>11. CASE JoinReturns
  BY <1>3, <1>11 DEF JoinReturns, worker, members
<1>12. ASSUME NEW r \in Fds \X Events, KernelChanges(r) PROVE WakeupInv'
  BY <1>3, <1>12 DEF KernelChanges, worker, members
<1>13. CASE Terminated \/ UNCHANGED vars
  BY <1>3, <1>13 DEF Terminated, vars
<1> QED
  BY WatchesAssumption,
     <1>1, <1>4, <1>5, <1>6, <1>7, <1>8, <1>9, <1>10, <1>11, <1>12, <1>13 DEF Next, WorkerStep

\* No wake-up is lost: a worker asleep on an unwritten eventfd has no job, no
\* termination and no change of the watch list waiting for it.
THEOREM NeverLosesWakeup == Spec => []NoLostWakeup
<1>1. Init => WakeupInv
  BY DEF Init, WakeupInv, NoLostWakeup
<1>2. WakeupInv => NoLostWakeup
  BY DEF WakeupInv
<1> QED
  BY <1>1, <1>2, TypeCorrect, NextWakeupInv, PTL DEF Spec
=============================================================================
