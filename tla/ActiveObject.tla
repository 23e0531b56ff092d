---------------------------- MODULE ActiveObject ----------------------------
(***************************************************************************)
(* active_object_t: one worker thread, a FIFO of jobs and a watch list of  *)
(* file descriptors, all guarded by m_mutex.  The worker sleeps in poll()  *)
(* and runs callbacks with the mutex released, so every stretch of code    *)
(* between two releases of the mutex is one action here: an API call by    *)
(* any thread (the worker's own callbacks included) may fall between any   *)
(* two actions of the worker.                                              *)
(*                                                                         *)
(* The readable and the writeable half of the API are the same code with   *)
(* POLLIN and POLLOUT exchanged; one operator with the event as parameter  *)
(* stands for both.  A callback is known by what it was registered for.    *)
(***************************************************************************)
EXTENDS Integers, Sequences

CONSTANTS
    Fds,        \* descriptors a caller may watch (the eventfd is not one of them)
    Watches,    \* the pairs <<fd, event>> callers do watch
    Jobs        \* jobs a caller may post, each at most once: the bound on posting

Events == {"POLLIN", "POLLOUT"}

ASSUME WatchesAssumption == Watches \subseteq Fds \X Events

Callbacks == (Fds \X Events) \cup (Jobs \X {"JOB"})

NoCallback == <<>>

VARIABLES
    f_terminate,
    eventfd,        \* is the counter of m_external_stimuli_eventfd nonzero?
    m_jobs,
    m_polled_fds,   \* sequence of [fd, events], without the eventfd's own entry
    m_fd_job,       \* "POLLIN": keys of m_fd_readable_job, "POLLOUT": of m_fd_writeable_job
    pc,             \* where the worker has released the mutex
    snapshot,       \* polled_fds_snapshot: its fd and events fields ...
    revents,        \* ... and its revents, as pairs <<fd, event>>
    stimuli_readable,
    cursor,         \* entries of the two dispatch loops already passed
    running,        \* the callback the worker is in
    ready,          \* what the kernel would report: pairs <<fd, event>>
    posted,         \* jobs ever posted
    closed          \* the destructor has joined the worker and closed the eventfd

members == <<f_terminate, m_jobs, m_polled_fds, m_fd_job>>
vars == <<f_terminate, eventfd, m_jobs, m_polled_fds, m_fd_job, pc, snapshot, revents,
          stimuli_readable, cursor, running, ready, posted, closed>>
worker == <<pc, snapshot, revents, stimuli_readable, cursor, running>>

Init ==
    /\ f_terminate = FALSE
    /\ eventfd = FALSE
    /\ m_jobs = <<>>
    /\ m_polled_fds = <<>>
    /\ m_fd_job = [event \in Events |-> {}]
    /\ pc = "start"
    /\ snapshot = <<>>
    /\ revents = {}
    /\ stimuli_readable = FALSE
    /\ cursor = 0
    /\ running = NoCallback
    /\ ready = {}
    /\ posted = {}
    /\ closed = FALSE

-----------------------------------------------------------------------------
(* The API.  Every operation starts with "if (f_terminate) return false".  *)

\* mutant: the job is queued but the worker is not woken
AddToTodoListNoWake(job) ==
    /\ ~f_terminate
    /\ job \notin posted
    /\ posted' = posted \cup {job}
    /\ m_jobs' = Append(m_jobs, job)
    /\ UNCHANGED <<worker, eventfd, f_terminate, m_polled_fds, m_fd_job, ready, closed>>

AddToTodoList(job) ==
    /\ ~f_terminate
    /\ job \notin posted
    /\ posted' = posted \cup {job}
    /\ m_jobs' = Append(m_jobs, job)
    /\ eventfd' = TRUE
    /\ UNCHANGED <<worker, f_terminate, m_polled_fds, m_fd_job, ready, closed>>

EntriesOf(fd) == {i \in DOMAIN m_polled_fds : m_polled_fds[i].fd = fd}

\* mutant: a second event of a watched fd gets an entry of its own
WatchEntryTwice(fd, event) ==
    /\ \A i \in EntriesOf(fd) : event \notin m_polled_fds[i].events
    /\ m_polled_fds' = Append(m_polled_fds, [fd |-> fd, events |-> {event}])

WatchEntry(fd, event) ==
    \/ /\ EntriesOf(fd) = {}
       /\ m_polled_fds' = Append(m_polled_fds, [fd |-> fd, events |-> {event}])
    \/ \E i \in EntriesOf(fd) :
           /\ event \notin m_polled_fds[i].events
           /\ m_polled_fds' = [m_polled_fds EXCEPT ![i].events = @ \cup {event}]

\* mutant: the worker keeps polling its old snapshot
AddFdToWatchlistNoWake(fd, event) ==
    /\ ~f_terminate
    /\ WatchEntry(fd, event)
    /\ m_fd_job' = [m_fd_job EXCEPT ![event] = @ \cup {fd}]
    /\ UNCHANGED <<worker, eventfd, f_terminate, m_jobs, ready, posted, closed>>

AddFdToWatchlist(fd, event) ==
    /\ ~f_terminate
    /\ WatchEntry(fd, event)
    /\ m_fd_job' = [m_fd_job EXCEPT ![event] = @ \cup {fd}]
    /\ eventfd' = TRUE
    /\ UNCHANGED <<worker, f_terminate, m_jobs, ready, posted, closed>>

RemoveIndex(s, i) == [k \in 1 .. Len(s) - 1 |-> IF k < i THEN s[k] ELSE s[k + 1]]

UnwatchEntry(i, event) ==
    IF m_polled_fds[i].events = {event}
    THEN m_polled_fds' = RemoveIndex(m_polled_fds, i)
    ELSE m_polled_fds' = [m_polled_fds EXCEPT ![i].events = @ \ {event}]

RemoveFdFromWatchlist(fd, event) ==
    /\ ~f_terminate
    /\ \E i \in EntriesOf(fd) :
           /\ event \in m_polled_fds[i].events
           /\ UnwatchEntry(i, event)
    /\ m_fd_job' = [m_fd_job EXCEPT ![event] = @ \ {fd}]
    /\ eventfd' = TRUE
    /\ UNCHANGED <<worker, f_terminate, m_jobs, ready, posted, closed>>

\* mutant: the destructor sets the flag and joins without waking the worker
DestroyNoWake ==
    /\ ~f_terminate
    /\ f_terminate' = TRUE
    /\ UNCHANGED <<worker, eventfd, m_jobs, m_polled_fds, m_fd_job, ready, posted, closed>>

Destroy ==
    /\ ~f_terminate
    /\ f_terminate' = TRUE
    /\ eventfd' = TRUE
    /\ UNCHANGED <<worker, m_jobs, m_polled_fds, m_fd_job, ready, posted, closed>>

JoinReturns ==
    /\ f_terminate
    /\ pc = "exited"
    /\ ~closed
    /\ closed' = TRUE
    /\ UNCHANGED <<worker, members, eventfd, ready, posted>>

-----------------------------------------------------------------------------
(* The worker.  "poll" and "callback": asleep in poll() or in a callback,  *)
(* mutex released; "polled": poll() has returned, mutex not yet retaken.   *)

\* The top of the while loop: leave it, or take a snapshot and poll.
EnterLoop ==
    /\ running' = NoCallback
    /\ revents' = {}
    /\ stimuli_readable' = FALSE
    /\ cursor' = 0
    /\ IF f_terminate
       THEN pc' = "exited" /\ snapshot' = <<>>
       ELSE pc' = "poll" /\ snapshot' = m_polled_fds

StartWork ==
    /\ pc = "start"
    /\ EnterLoop
    /\ UNCHANGED <<members, eventfd, ready, posted, closed>>

\* poll() < 0: the lock is retaken and the loop continues.
PollFails ==
    /\ pc = "poll"
    /\ EnterLoop
    /\ UNCHANGED <<members, eventfd, ready, posted, closed>>

ReportedBy(polled) ==
    {r \in ready : \E i \in DOMAIN polled : r[1] = polled[i].fd /\ r[2] \in polled[i].events}

PollReturns ==
    /\ pc = "poll"
    /\ eventfd \/ ReportedBy(snapshot) # {}
    /\ pc' = "polled"
    /\ stimuli_readable' = eventfd
    /\ revents' = ReportedBy(snapshot)
    /\ UNCHANGED <<members, eventfd, snapshot, cursor, running, ready, posted, closed>>

\* The worker takes the mutex after poll() or after a callback.
Relocks == pc \in {"polled", "callback"}

\* Right after poll() the eventfd is read if poll() reported it.
Drained == eventfd /\ ~(pc = "polled" /\ stimuli_readable)

\* Position k of the two loops over the snapshot: first readables, then writeables.
Slot(k) ==
    IF k <= Len(snapshot)
    THEN <<snapshot[k].fd, "POLLIN">>
    ELSE <<snapshot[k - Len(snapshot)].fd, "POLLOUT">>

\* The entry was reported, and a callback is (still, or again) registered for it.
Due(k) == Slot(k) \in revents /\ Slot(k)[1] \in m_fd_job[Slot(k)[2]]

NoneDue == \A k \in cursor + 1 .. 2 * Len(snapshot) : ~Due(k)

DispatchFd ==
    /\ Relocks
    /\ \E k \in cursor + 1 .. 2 * Len(snapshot) :
           /\ Due(k)
           /\ \A j \in cursor + 1 .. k - 1 : ~Due(j)
           /\ cursor' = k
           /\ running' = Slot(k)
    /\ pc' = "callback"
    /\ eventfd' = Drained
    /\ stimuli_readable' = FALSE
    /\ UNCHANGED <<members, snapshot, revents, ready, posted, closed>>

RunJob ==
    /\ Relocks /\ NoneDue /\ m_jobs # <<>>
    /\ running' = <<Head(m_jobs), "JOB">>
    /\ m_jobs' = Tail(m_jobs)
    /\ cursor' = 2 * Len(snapshot)
    /\ pc' = "callback"
    /\ eventfd' = Drained
    /\ stimuli_readable' = FALSE
    /\ UNCHANGED <<f_terminate, m_polled_fds, m_fd_job, snapshot, revents, ready, posted, closed>>

\* mutant: a terminating worker leaves the rest of the queue
NextRoundDropsJobs ==
    /\ Relocks /\ NoneDue /\ (m_jobs = <<>> \/ f_terminate)
    /\ EnterLoop
    /\ eventfd' = Drained
    /\ UNCHANGED <<members, ready, posted, closed>>

NextRound ==
    /\ Relocks /\ NoneDue /\ m_jobs = <<>>
    /\ EnterLoop
    /\ eventfd' = Drained
    /\ UNCHANGED <<members, ready, posted, closed>>

\* The kernel: data arrives or is consumed, buffers fill or drain.
KernelChanges(r) ==
    /\ ~closed
    /\ ready' = IF r \in ready THEN ready \ {r} ELSE ready \cup {r}
    /\ UNCHANGED <<members, eventfd, worker, posted, closed>>

Terminated == closed /\ UNCHANGED vars

-----------------------------------------------------------------------------
WorkerStep == StartWork \/ PollReturns \/ DispatchFd \/ RunJob \/ NextRound

Next ==
    \/ \E job \in Jobs : AddToTodoList(job)
    \/ \E fd \in Fds, event \in Events :
           /\ <<fd, event>> \in Watches
           /\ AddFdToWatchlist(fd, event) \/ RemoveFdFromWatchlist(fd, event)
    \/ Destroy
    \/ JoinReturns
    \/ WorkerStep
    \/ PollFails
    \/ \E r \in Watches : KernelChanges(r)
    \/ Terminated

Spec == Init /\ [][Next]_vars

\* The scheduler runs the worker and the joining thread, and callbacks return.
\* Nothing is assumed of callers, of the kernel or of poll() failing.
FairSpec == Spec /\ WF_vars(WorkerStep) /\ WF_vars(JoinReturns)

-----------------------------------------------------------------------------
TypeOK ==
    /\ f_terminate \in BOOLEAN
    /\ eventfd \in BOOLEAN
    /\ m_jobs \in Seq(Jobs)
    /\ m_polled_fds \in Seq([fd : Fds, events : SUBSET Events])
    /\ \A i \in DOMAIN m_polled_fds : m_polled_fds[i].events # {}
    /\ m_fd_job \in [Events -> SUBSET Fds]
    /\ pc \in {"start", "poll", "polled", "callback", "exited"}
    /\ snapshot \in Seq([fd : Fds, events : SUBSET Events])
    /\ revents \subseteq Fds \X Events
    /\ stimuli_readable \in BOOLEAN
    /\ cursor \in 0 .. 2 * Len(snapshot)
    /\ running \in Callbacks \cup {NoCallback}
    /\ ready \subseteq Fds \X Events
    /\ posted \subseteq Jobs
    /\ closed \in BOOLEAN

\* The watch list and the two callback maps change in four functions, piece by
\* piece; they must agree after each: a descriptor has one entry, it asks poll()
\* for an event exactly when a callback for that event is registered.
WatchlistConsistent ==
    /\ \A i, j \in DOMAIN m_polled_fds : m_polled_fds[i].fd = m_polled_fds[j].fd => i = j
    /\ \A fd \in Fds, event \in Events :
           fd \in m_fd_job[event] <=> \E i \in EntriesOf(fd) : event \in m_polled_fds[i].events

\* A worker asleep in poll() has nothing it does not know of: as long as the
\* eventfd is not readable there is no job, no termination, and the watch list
\* is the one it polls.  (The eventfd is drained before the callbacks and jobs
\* run, and API calls made meanwhile write it again.)
NoLostWakeup ==
    (pc = "poll" /\ ~eventfd) =>
        m_jobs = <<>> /\ ~f_terminate /\ snapshot = m_polled_fds

Queued(job) == \E i \in DOMAIN m_jobs : m_jobs[i] = job

\* A job add_to_todo_list accepted is run, or the object is being destroyed.
JobsRun == \A job \in Jobs : Queued(job) ~> (running = <<job, "JOB">> \/ f_terminate)

\* A worker past poll() empties the queue before it looks at f_terminate again:
\* a job queued by then is run even if the destructor is already waiting.
RoundDrainsTodoList ==
    \A job \in Jobs : (Queued(job) /\ Relocks) ~> (running = <<job, "JOB">>)

\* A descriptor that stays watched and stays ready is dispatched again and
\* again, whatever else is registered, removed or posted meanwhile.
WatchedFdServed ==
    \A fd \in Fds, event \in Events :
        <>[](<<fd, event>> \in ready /\ fd \in m_fd_job[event] /\ ~f_terminate)
            => []<>(running = <<fd, event>>)

\* The destructor wakes a sleeping worker and its join() returns.
DestructorReturns == f_terminate ~> closed
=============================================================================
