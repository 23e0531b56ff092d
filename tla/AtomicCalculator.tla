--------------------------- MODULE AtomicCalculator ---------------------------
(***************************************************************************)
(* What a user of the calculator service is promised, without sessions,    *)
(* processes or messages: a call takes effect once or not at all, at one   *)
(* moment between its invocation and its return, and returns what it did   *)
(* at that moment.  A calculator that is started again has forgotten the   *)
(* precision that was set.                                                 *)
(***************************************************************************)
EXTENDS Naturals, Sequences

CONSTANT Calls  \* [method, argument]

VARIABLES
    invoked,    \* the calls that were made, by number
    precision,
    effects,    \* call -> what it came to, for calls that took effect
    results     \* call -> what it returned, for calls that returned

vars == <<invoked, precision, effects, results>>

Init == invoked = <<>> /\ precision = 2 /\ effects = <<>> /\ results = <<>>

\* A function that is also defined at i.
With(f, i, value) == [j \in DOMAIN f \cup {i} |-> IF j = i THEN value ELSE f[j]]

Invoke ==
    /\ \E call \in Calls : invoked' = Append(invoked, call)
    /\ UNCHANGED <<precision, effects, results>>

TakeEffect(i) ==
    /\ i \notin DOMAIN effects
    /\ \/ /\ invoked[i].method = "add" /\ UNCHANGED precision
          /\ effects' = With(effects, i, invoked[i].argument)
       \/ /\ invoked[i].method = "get" /\ UNCHANGED precision
          /\ effects' = With(effects, i, precision)
       \/ /\ invoked[i].method = "set" /\ precision' = invoked[i].argument
          /\ effects' = With(effects, i, 0)
    /\ UNCHANGED <<invoked, results>>

Return(i) ==
    /\ i \in DOMAIN effects \ DOMAIN results
    /\ results' = With(results, i, effects[i])
    /\ UNCHANGED <<invoked, precision, effects>>

Forget == precision' = 2 /\ UNCHANGED <<invoked, effects, results>>

Next ==
    \/ Invoke
    \/ \E i \in DOMAIN invoked : TakeEffect(i) \/ Return(i)
    \/ Forget

Spec == Init /\ [][Next]_vars
=============================================================================
