-------------------------------- MODULE Timer --------------------------------
(***************************************************************************)
(* timer_handle_t as operations on a record: the handle's own fields       *)
(* (state, duration, it_interval, it_value), whether its descriptor is on  *)
(* the active object's readable watch list (watched), and the timerfd in   *)
(* the kernel (value: ticks to the next expiry, 0 when disarmed; interval; *)
(* expirations: is the timerfd readable?).  Each operation takes m_mutex   *)
(* for its whole body.                                                     *)
(***************************************************************************)
EXTENDS Integers

States == {"DISARMED", "ARMED", "PAUSED", "EXPIRED", "STOPPED"}

\* Durations are counted in ticks.  One the program writes as a literal equals
\* another one of the same length; one computed from two clock readings is a
\* number of nanoseconds that equals no other.
Literal(n) == [ticks |-> n, measured |-> FALSE]
Measured(n) == [ticks |-> n, measured |-> TRUE]
SameDuration(c, d) == c = d /\ ~d.measured

Timers ==
    [state : States, oneshot : BOOLEAN, duration : [ticks : Int, measured : BOOLEAN],
     it_interval : Int, it_value : Int, watched : BOOLEAN,
     value : Nat, interval : Nat, expirations : {0, 1}]

\* timerfd_settime: EINVAL, and no effect, when a field is negative.
SetTime(t, value, interval) ==
    IF value < 0 \/ interval < 0 THEN t
    ELSE [t EXCEPT !.value = value, !.interval = interval, !.expirations = 0]

\* The constructor: a one-shot timer is given the interval 0.
Make(d, oneshot) ==
    LET interval == IF oneshot THEN 0 ELSE d.ticks
    IN  SetTime([state |-> "DISARMED", oneshot |-> oneshot, duration |-> d,
                 it_interval |-> interval, it_value |-> 0, watched |-> FALSE,
                 value |-> 0, interval |-> 0, expirations |-> 0], 0, interval)

\* mutant: the descriptor is not put (back) on the watch list
StartUnwatched(t) ==
    IF t.state # "DISARMED" THEN t
    ELSE SetTime([t EXCEPT !.it_value = t.it_interval, !.state = "ARMED"],
                 t.it_interval, t.it_interval)

Start(t) ==
    IF t.state # "DISARMED" THEN t
    ELSE SetTime([t EXCEPT !.watched = TRUE, !.it_value = t.it_interval, !.state = "ARMED"],
                 t.it_interval, t.it_interval)

\* mutant: the remaining time is saved but the kernel timer keeps running
PauseRunning(t) ==
    IF t.state # "ARMED" THEN t
    ELSE [t EXCEPT !.it_value = t.value, !.it_interval = t.interval, !.state = "PAUSED"]

Pause(t) ==
    IF t.state # "ARMED" THEN t
    ELSE SetTime([t EXCEPT !.it_value = t.value, !.it_interval = t.interval, !.state = "PAUSED"],
                 0, t.interval)

Resume(t) ==
    IF t.state # "PAUSED" THEN t
    ELSE SetTime([t EXCEPT !.state = "ARMED"], t.it_value, t.it_interval)

Stop(t) ==
    IF t.state \notin {"ARMED", "PAUSED"} THEN t
    ELSE SetTime([t EXCEPT !.watched = FALSE, !.it_value = 0, !.state = "STOPPED"],
                 0, t.it_interval)

Restart(t) == IF t.state = "DISARMED" THEN t ELSE Start([t EXCEPT !.state = "DISARMED"])

\* Nothing happens when the duration is the one the timer has.  Otherwise the
\* timer is stopped and left DISARMED, with it_value 0 if Stop was in effect,
\* else with the it_value it had.
Reschedule(t, d) ==
    IF SameDuration(t.duration, d) THEN t
    ELSE LET s == [Stop(t) EXCEPT !.duration = d, !.it_interval = d.ticks]
         IN  SetTime([s EXCEPT !.state = "DISARMED"], s.it_value, s.it_interval)

IsRunning(t) == t.state \in {"ARMED", "PAUSED"}

\* make_callback up to the read: a one-shot timer leaves the watch list.
EnterCallback(t) ==
    IF t.oneshot THEN [t EXCEPT !.watched = FALSE, !.state = "EXPIRED"] ELSE t

\* read() of the timerfd, which blocks until there is an expiration to read.
CanRead(t) == t.expirations > 0
Drain(t) == [t EXCEPT !.expirations = 0]

\* The kernel's clock.
Elapse(t) ==
    IF t.value = 0 THEN t
    ELSE IF t.value > 1 THEN [t EXCEPT !.value = @ - 1]
    ELSE [t EXCEPT !.value = t.interval, !.expirations = 1]
=============================================================================
