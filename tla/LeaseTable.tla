------------------------------ MODULE LeaseTable ------------------------------
(***************************************************************************)
(* What the runtime's liveness tracking promises: a registered application *)
(* holds a lease that every heartbeat renews and that is over once it has  *)
(* not been renewed for Timeout.  A sweep finds the leases that are over,  *)
(* all of them and no other, and takes those registrations and no other.   *)
(* No list, iterator, list order or timer is needed to say so.             *)
(*                                                                         *)
(* One weakness of the program shows at this level too.  An application    *)
(* that registers again while it is registered is given a second record,   *)
(* which nothing renews or removes: it is forgotten, and counts against    *)
(* the application in every later sweep.                                   *)
(***************************************************************************)
EXTENDS Naturals

CONSTANTS
    Apps,       \* socket handles of applications
    Timeout     \* the length of a lease, in ticks

VARIABLES
    age,        \* of a registered application: ticks since its lease was renewed
    forgotten,  \* the ages of an application's records that nothing renews
    due,        \* the applications this sweep still has to take
    sweeping    \* is the runtime taking registrations away?

lease == <<age, forgotten, due, sweeping>>

Registered == DOMAIN age

Older(ticks) == IF ticks <= Timeout THEN ticks + 1 ELSE ticks

Init ==
    /\ age = [a \in {} |-> 0]
    /\ forgotten = [a \in Apps |-> {}]
    /\ due = {}
    /\ sweeping = FALSE

Held(apps) == [a \in apps |-> IF a \in Registered THEN age[a] ELSE 0]

Register(a) ==
    /\ ~sweeping
    /\ a \notin Registered
    /\ age' = Held(Registered \cup {a})
    /\ UNCHANGED <<forgotten, due, sweeping>>

\* The lease the application had is not renewed.
RegisterAgain(a) ==
    /\ ~sweeping
    /\ a \in Registered
    /\ forgotten' = [forgotten EXCEPT ![a] = @ \cup {0}]
    /\ UNCHANGED <<age, due, sweeping>>

Renew(a) ==
    /\ ~sweeping
    /\ a \in Registered
    /\ age' = [age EXCEPT ![a] = 0]
    /\ UNCHANGED <<forgotten, due, sweeping>>

Unregister(a) ==
    /\ ~sweeping
    /\ a \in Registered
    /\ age' = Held(Registered \ {a})
    /\ UNCHANGED <<forgotten, due, sweeping>>

Over(a) ==
    \/ a \in Registered /\ age[a] >= Timeout
    \/ \E ticks \in forgotten[a] : ticks >= Timeout

BeginSweep ==
    /\ ~sweeping
    /\ due' = {a \in Apps : Over(a)}
    /\ due' # {}
    /\ sweeping' = TRUE
    /\ UNCHANGED <<age, forgotten>>

\* Taken once, unless a forgotten record named the application a second time.
Take(a) ==
    /\ sweeping
    /\ a \in due \cap Registered
    /\ age' = Held(Registered \ {a})
    /\ \/ due' = due \ {a}
       \/ due' = due /\ forgotten[a] # {}
    /\ UNCHANGED <<forgotten, sweeping>>

EndSweep ==
    /\ sweeping
    /\ due = {}
    /\ sweeping' = FALSE
    /\ UNCHANGED <<age, forgotten, due>>

Elapse ==
    /\ age' = [a \in Registered |-> Older(age[a])]
    /\ forgotten' = [a \in Apps |-> {Older(ticks) : ticks \in forgotten[a]}]
    /\ UNCHANGED <<due, sweeping>>

Next ==
    \/ \E a \in Apps :
           Register(a) \/ RegisterAgain(a) \/ Renew(a) \/ Unregister(a) \/ Take(a)
    \/ BeginSweep
    \/ EndSweep
    \/ Elapse

Spec == Init /\ [][Next]_lease
=============================================================================
