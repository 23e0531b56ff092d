-------------------------- MODULE TimerHandleState --------------------------
(***************************************************************************)
(* The state of a timer_handle_t, of its owners and of the worker that     *)
(* runs its callback, and what is to hold of it at all times.  TimerHandle *)
(* says what they do.                                                      *)
(***************************************************************************)
EXTENDS Timer

CONSTANTS
    Durations   \* lengths in ticks the timer may be given: nothing keeps the
                \* program from giving it one that is zero or negative, and
                \* runtime_stub.cpp:58 and 186 compute such ones

ASSUME DurationsAssumption == Durations \subseteq Int

VARIABLES
    handle,     \* the timer
    stage,      \* the worker: "idle", "dispatched", "read", "callback"
    owned,      \* does an owner still hold the shared_ptr?
    destroyed   \* has the destructor run?

-----------------------------------------------------------------------------
\* What is given to the constructor and to reschedule(): a literal or a duration
\* that was computed.
Given == [ticks : Durations, measured : BOOLEAN]

\* The state of a periodic timer is what the kernel timer does (timer.hpp:114-194).
\* A handle that does not say ARMED has no kernel timer that counts down, and no
\* expiration left over that could start a callback, whatever durations it was
\* given before; one that says ARMED counts down unless the duration it was given
\* last was zero or negative.
KernelFollowsState ==
    ~handle.oneshot =>
        /\ handle.state # "ARMED" => handle.value = 0 /\ handle.expirations = 0
        /\ handle.state = "ARMED" /\ handle.duration.ticks > 0 => handle.value > 0

\* Start, stop, restart and reschedule keep the watch list in step with the
\* state although restart never removes what start adds again.
WatchedWhileRunning == handle.watched <=> IsRunning(handle)

\* timer.hpp:198: the callback does not run after the timer was destroyed, in
\* whatever order the last owner and the worker get there.
NoCallbackAfterDestruction == destroyed => stage \in {"idle", "dispatched"}
=============================================================================
