--------------------------- MODULE CalculatorState ---------------------------
(***************************************************************************)
(* The state of the calculator example, client, runtime and provider, and  *)
(* what its user is promised of it.  Calculator says what they do.         *)
(***************************************************************************)
EXTENDS Integers, Sequences

CONSTANTS
    MaxSession,     \* the largest session number (65535)
    Calls,          \* what the user may ask for: [method, argument]
    MaxCalls,       \* bound on the calls
    MaxProcesses,   \* bound on the starts of the client
    MaxOutages      \* bound on lost messages, and ends of the runtime or the provider

Methods == {"add", "get", "set"}

ASSUME SessionAssumption == MaxSession \in Nat \ {0}
ASSUME CallsAssumption == Calls \subseteq [method : Methods, argument : Nat]
ASSUME BoundAssumption == MaxCalls \in Nat /\ MaxProcesses \in Nat \ {0} /\ MaxOutages \in Nat

VARIABLES
    m_session_counter,
    m_pending_requests, \* session -> the call whose promise is kept
    calling,            \* the call the user interface's thread is in, and where
    calls,              \* all calls: what, with which session, by which process
    status,             \* call -> "waiting", "resolved", "broken" or "lost"
    resolved_by,        \* call -> the call whose answer resolved it, and its value
    process,            \* number of the client's process
    alive,              \* does it run?
    arriving,           \* answers in the client's socket
    requests, answers,  \* messages in the runtime's socket
    awaited,            \* the runtime's m_pending_requests: [method, session]
    known, serving,     \* are client and provider registered with the runtime?
    asked,              \* requests in the provider's socket
    m_Precision,
    effects,            \* call -> what the provider answered
    outages,            \* what has gone wrong outside of the client
    raced               \* has m_pending_requests been used by both threads at once?

client == <<m_session_counter, m_pending_requests, calling, calls, status, resolved_by,
            process, alive>>
runtime == <<requests, answers, awaited, known, serving>>
provider == <<asked, m_Precision, effects>>
calculator == <<client, arriving, runtime, provider, outages, raced>>

-----------------------------------------------------------------------------
\* The answer that resolves a call of a process is its own or one of an earlier
\* process, which counted its sessions from 1 as well, or that of a call of the same
\* session that did not wait for it: its future was broken, or another call's answer
\* had resolved it before.
AnswersAreOwn == ~raced =>
    \A c \in DOMAIN resolved_by :
        LET by == resolved_by[c].call
        IN  \/ by = c
            \/ /\ calls[by].session = calls[c].session
               /\ \/ calls[by].process < calls[c].process
                  \/ /\ calls[by].process = calls[c].process
                     /\ \/ status[by] = "broken"
                        \/ by < c /\ by \in DOMAIN resolved_by /\ resolved_by[by].call # by

\* A future is broken, which ends the process, in one case only: the call made
\* MaxSession calls before has not been answered.
BrokenOnlyByReuse ==
    [][ \A c \in DOMAIN status :
            status[c] = "waiting" /\ status'[c] = "broken" /\ ~raced =>
                /\ c - MaxSession \in DOMAIN calls
                /\ calls[c - MaxSession].process = process
                /\ status[c - MaxSession] \in {"waiting", "broken"} ]_calculator

Own == {c \in DOMAIN resolved_by : resolved_by[c].call = c}

Atomic == INSTANCE AtomicCalculator WITH
    invoked <- [c \in DOMAIN calls |-> [method |-> calls[c].method, argument |-> calls[c].argument]],
    precision <- m_Precision,
    results <- [c \in Own |-> resolved_by[c].value]

\* Whoever ends and whatever is lost: a call takes effect once at most and, if its
\* own answer resolves it, between its invocation and its return, and returns what
\* the precision was then.
Linearizable == Atomic!Spec

IsWaiting(c) == c \in DOMAIN status /\ status[c] = "waiting"

\* A call is answered, unless a message or a registration was lost on its way: in
\* particular its answer finds the promise, which is inserted before the request
\* is sent.
CallAnswered ==
    \A c \in 1 .. MaxCalls : IsWaiting(c) ~> (outages > 0 \/ raced \/ ~IsWaiting(c))
=============================================================================
