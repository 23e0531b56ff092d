----------------------------- MODULE TimerHandle -----------------------------
(***************************************************************************)
(* One timer_handle_t between its owners, who call its operations from any *)
(* thread, the worker of an active object, who dispatches its callback,    *)
(* and the kernel's clock.                                                 *)
(*                                                                         *)
(* The worker's path is the lambda of make_callback.  From the moment      *)
(* poll() reported the timerfd ("dispatched") until the lambda takes       *)
(* m_mutex the owners may call anything; then the lambda holds m_mutex     *)
(* until its read() returns ("read"), and the owners wait.                 *)
(***************************************************************************)
EXTENDS TimerHandleState

vars == <<handle, stage, owned, destroyed>>

Init ==
    /\ \E d \in Given, oneshot \in BOOLEAN : handle = Make(d, oneshot)
    /\ stage = "idle"
    /\ owned = TRUE
    /\ destroyed = FALSE

-----------------------------------------------------------------------------
\* What an owner may do to the timer; its own callback is one of the callers.
Operation(t) ==
    {Start(t), Pause(t), Resume(t), Stop(t), Restart(t)}
        \cup {Reschedule(t, d) : d \in Given}

Call ==
    /\ owned
    /\ stage # "read"
    /\ handle' \in Operation(handle)
    /\ UNCHANGED <<stage, owned, destroyed>>

\* mutant: the callback does not keep the handle alive while it runs
ReleaseAlwaysDestroys ==
    /\ owned
    /\ owned' = FALSE
    /\ handle' = Stop(handle)
    /\ destroyed' = TRUE
    /\ UNCHANGED stage

\* The last owner lets go.  The destructor runs at once, unless the callback
\* has locked its weak_ptr: then it runs when the callback returns.
Release ==
    /\ owned
    /\ owned' = FALSE
    /\ IF stage \in {"read", "callback"}
       THEN UNCHANGED <<handle, destroyed>>
       ELSE handle' = Stop(handle) /\ destroyed' = TRUE
    /\ UNCHANGED stage

-----------------------------------------------------------------------------
Dispatch ==
    /\ stage = "idle"
    /\ handle.watched
    /\ CanRead(handle)
    /\ stage' = "dispatched"
    /\ UNCHANGED <<handle, owned, destroyed>>

\* weak.lock() failed: the timer is gone.
CallbackOfDestroyed ==
    /\ stage = "dispatched"
    /\ ~owned
    /\ stage' = "idle"
    /\ UNCHANGED <<handle, owned, destroyed>>

CallbackLocks ==
    /\ stage = "dispatched"
    /\ owned
    /\ handle' = EnterCallback(handle)
    /\ stage' = "read"
    /\ UNCHANGED <<owned, destroyed>>

ReadReturns ==
    /\ stage = "read"
    /\ CanRead(handle)
    /\ handle' = Drain(handle)
    /\ stage' = "callback"
    /\ UNCHANGED <<owned, destroyed>>

CallbackReturns ==
    /\ stage = "callback"
    /\ stage' = "idle"
    /\ IF owned THEN UNCHANGED <<handle, destroyed>>
       ELSE handle' = Stop(handle) /\ destroyed' = TRUE
    /\ UNCHANGED owned

Tick ==
    /\ handle' = Elapse(handle)
    /\ UNCHANGED <<stage, owned, destroyed>>

Gone == destroyed /\ stage = "idle" /\ UNCHANGED vars

-----------------------------------------------------------------------------
Worker == Dispatch \/ CallbackOfDestroyed \/ CallbackLocks \/ ReadReturns \/ CallbackReturns

Next == Call \/ Release \/ Worker \/ Tick \/ Gone

Spec == Init /\ [][Next]_vars

\* Time passes, and the worker runs.
FairSpec == Spec /\ WF_vars(Tick) /\ WF_vars(Worker)

-----------------------------------------------------------------------------
TypeOK ==
    /\ handle \in Timers
    /\ handle.duration \in Given
    /\ stage \in {"idle", "dispatched", "read", "callback"}
    /\ owned \in BOOLEAN /\ destroyed \in BOOLEAN

\* Left alone, a periodic timer that says ARMED keeps calling back, whatever was
\* done to it before, in the gap between poll() and the callback included, unless
\* the duration it was given last was zero or negative.
ArmedKeepsFiring ==
    (<>[][Tick \/ Worker]_vars
        /\ <>[](handle.state = "ARMED" /\ ~handle.oneshot /\ handle.duration.ticks > 0)) =>
        []<>(stage = "callback")
=============================================================================
