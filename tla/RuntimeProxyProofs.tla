-------------------------- MODULE RuntimeProxyProofs --------------------------
(***************************************************************************)
(* Proofs about the application's side of registration, for any size of    *)
(* the runtime's receive buffer and any number of heartbeats that wait.    *)
(*                                                                         *)
(* That there is one reconnect() at most follows from TypeOK alone.  That  *)
(* REGISTER comes first needs to know what a reconnect() that starts over  *)
(* finds: an inbox no earlier one has left an OFFER or a REQUEST in.       *)
(***************************************************************************)
EXTENDS RuntimeProxy, TLAPS

Needy == {"OFFER_SERVICE", "REQUEST_SERVICE"}

Within(message, messages) == \E i \in DOMAIN messages : messages[i] = message

\* There is room for a step in the queue: reconnect() begins and goes on when a
\* message has just been sent or popped.
RoomForStep == sending # "none" => Len(queue) < MaxQueued

NobodyReads == ~running => inbox = <<>>

\* REGISTER is yet to be sent, or there is nobody to send the others.
StartsOver ==
    \/ sending = "REGISTER_APPLICATION"
    \/ Within("REGISTER_APPLICATION", queue)
    \/ ~m_runtime_online /\ ~m_reconnect_in_progress

Clean == \A i \in DOMAIN inbox : inbox[i] \notin Needy

CleanInbox == StartsOver => Clean

\* ... and the others are only sent when REGISTER has been.
GoesOn == sending \in Needy \/ \E i \in DOMAIN queue : queue[i] \in Needy

Ahead == "REGISTER_APPLICATION" \in known \/ Within("REGISTER_APPLICATION", inbox)

RegisterSent == ~interrupted /\ GoesOn => Ahead

TypeInv == TypeOK /\ RoomForStep

OrderInv == NobodyReads /\ CleanInbox /\ RegisterSent /\ RegisterComesFirst

IInv == TypeInv /\ OneReconnect /\ OrderInv

-----------------------------------------------------------------------------
\* What a queue holds after a message was added or removed.
LEMMA AppendFacts ==
    ASSUME NEW s \in Seq(MessageTypes), NEW m \in MessageTypes
    PROVE  /\ Append(s, m) \in Seq(MessageTypes)
           /\ Len(Append(s, m)) = Len(s) + 1
           /\ DOMAIN Append(s, m) = 1 .. Len(s) + 1
           /\ DOMAIN s = 1 .. Len(s)
           /\ Len(s) \in Nat
           /\ \A i \in 1 .. Len(s) : Append(s, m)[i] = s[i]
           /\ Append(s, m)[Len(s) + 1] = m
    OBVIOUS

\* ... and what is left when the first one is taken.
LEMMA TailFacts ==
    ASSUME NEW s \in Seq(MessageTypes), s # <<>>
    PROVE  /\ Tail(s) \in Seq(MessageTypes)
           /\ Len(Tail(s)) = Len(s) - 1
           /\ DOMAIN Tail(s) = 1 .. Len(s) - 1
           /\ DOMAIN s = 1 .. Len(s)
           /\ Len(s) \in Nat \ {0}
           /\ \A i \in 1 .. Len(s) - 1 : Tail(s)[i] = s[i + 1]
           /\ Head(s) = s[1]
           /\ Head(s) \in MessageTypes
    OBVIOUS

-----------------------------------------------------------------------------
\* The constructor's reconnect() begins with nothing queued and nothing read.
LEMMA InitInv == Init => IInv
<1> SUFFICES ASSUME Init PROVE IInv
    OBVIOUS
<1> USE DEF Init
<1>1. TypeInv
  <2>1. queue \in Seq(MessageTypes) /\ inbox \in Seq(MessageTypes) /\ Len(queue) = 0 /\ Len(inbox) = 0
      OBVIOUS
  <2>2. 0 < MaxQueued /\ 0 <= MaxQueued /\ 0 <= Capacity
      BY MaxQueuedAssumption, CapacityAssumption
  <2>3. sending \in Steps /\ known \subseteq Steps
      BY DEF Steps
  <2> QED BY <2>1, <2>2, <2>3 DEF TypeInv, TypeOK, RoomForStep
<1>2. OneReconnect
    BY DEF OneReconnect, Suspended, Steps
<1>3. OrderInv
    BY DEF OrderInv, NobodyReads, CleanInbox, Clean, RegisterSent, GoesOn, Needy, RegisterComesFirst
<1> QED BY <1>1, <1>2, <1>3 DEF IInv
-----------------------------------------------------------------------------
\* What a send() does to the runtime and the queue, whichever way it goes.
LEMMA SentType ==
    ASSUME TypeOK, NEW m \in MessageTypes, Sent(m)
    PROVE  inbox' \in Seq(MessageTypes) /\ Len(inbox') <= Capacity /\ interrupted' \in BOOLEAN
               /\ known' = known /\ running' = running
<1> USE DEF TypeOK, Sent
<1>1. inbox' \in Seq(MessageTypes) /\ Len(inbox') = Len(inbox) + 1
    BY AppendFacts
<1>2. Len(inbox) \in Nat /\ Len(inbox) < Capacity
    OBVIOUS
<1> QED BY <1>1, <1>2, CapacityAssumption

\* A step of reconnect() is followed by another, or by none.
LEMMA StepAfterType ==
    ASSUME NEW step \in Steps
    PROVE  StepAfter(step) \in Steps \cup {"none"}
    BY DEF StepAfter, Steps

\* The end of a reconnect() keeps the types.
LEMMA DoneType ==
    ASSUME TypeOK, NEW success \in BOOLEAN, Done(success)
    PROVE  m_runtime_online' \in BOOLEAN /\ m_reconnect_in_progress' \in BOOLEAN /\ m_heartbeat' \in BOOLEAN
    BY DEF TypeOK, Done

\* Resuming a reconnect() keeps the types.
LEMMA ContinueType ==
    ASSUME TypeOK, NEW step \in Steps, Continue(step)
    PROVE  /\ sending' \in Steps \cup {"none"}
           /\ m_runtime_online' \in BOOLEAN /\ m_reconnect_in_progress' \in BOOLEAN /\ m_heartbeat' \in BOOLEAN
<1>1. sending' \in Steps \cup {"none"}
    BY StepAfterType DEF Continue
<1>2. CASE StepAfter(step) = "none"
    BY <1>2, <1>1, DoneType DEF Continue
<1>3. CASE StepAfter(step) # "none"
    BY <1>3, <1>1 DEF Continue, TypeOK, proxy
<1> QED BY <1>2, <1>3

\* Giving up a reconnect() keeps the types.
LEMMA AbandonType ==
    ASSUME TypeOK, Abandon
    PROVE  /\ sending' = "none"
           /\ m_runtime_online' \in BOOLEAN /\ m_reconnect_in_progress' \in BOOLEAN /\ m_heartbeat' \in BOOLEAN
    BY DoneType DEF Abandon

\* What a heartbeat concludes keeps the types.
LEMMA HeartbeatResultType ==
    ASSUME TypeOK, HeartbeatSent \/ HeartbeatAway
    PROVE  /\ sending' \in Steps \cup {"none"}
           /\ m_runtime_online' \in BOOLEAN /\ m_reconnect_in_progress' \in BOOLEAN /\ m_heartbeat' \in BOOLEAN
    BY DEF TypeOK, HeartbeatSent, HeartbeatAway, Steps

\* Every step keeps the types and the room for a step in the queue.
LEMMA StepType == TypeInv /\ [Next]_vars => TypeInv'
<1> SUFFICES ASSUME TypeInv, [Next]_vars PROVE TypeInv'
    OBVIOUS
<1>0. TypeOK /\ RoomForStep /\ Len(queue) \in Nat /\ Len(inbox) \in Nat
    BY DEF TypeInv, TypeOK
<1>1. CASE SendStep
  <2>0. sending \in Steps /\ sending \in MessageTypes /\ Len(queue) < MaxQueued
      BY <1>0, <1>1 DEF SendStep, TypeOK, RoomForStep, MessageTypes
  <2>1. CASE Sent(sending) /\ Continue(sending) /\ UNCHANGED queue
      BY <1>0, <2>0, <2>1, SentType, ContinueType DEF TypeInv, TypeOK, RoomForStep
  <2>2. CASE Delayed(sending) /\ sending' = "none" /\ UNCHANGED proxy
    <3>1. queue' \in Seq(MessageTypes) /\ Len(queue') = Len(queue) + 1
        BY <1>0, <2>0, <2>2, AppendFacts DEF Delayed, TypeOK
    <3>2. Len(queue') <= MaxQueued
        BY <3>1, <2>0, <1>0, MaxQueuedAssumption
    <3> QED BY <1>0, <2>2, <3>1, <3>2 DEF TypeInv, TypeOK, RoomForStep, Delayed, proxy, runtime
  <2>3. CASE RecipientAway /\ Abandon /\ UNCHANGED queue
      BY <1>0, <2>3, AbandonType DEF TypeInv, TypeOK, RoomForStep, RecipientAway, runtime
  <2> QED BY <1>1, <2>1, <2>2, <2>3 DEF SendStep
<1>2. CASE SendHeartbeat
  <2>0. Len(queue) < MaxQueued /\ "HEARTBEAT" \in MessageTypes /\ sending = "none"
      BY <1>2 DEF SendHeartbeat, MessageTypes
  <2>1. CASE Sent("HEARTBEAT") /\ HeartbeatSent /\ UNCHANGED queue
      BY <1>0, <2>0, <2>1, SentType, HeartbeatResultType DEF TypeInv, TypeOK, RoomForStep
  <2>2. CASE Delayed("HEARTBEAT") /\ UNCHANGED <<proxy, sending>>
    <3>1. queue' \in Seq(MessageTypes) /\ Len(queue') = Len(queue) + 1
        BY <1>0, <2>0, <2>2, AppendFacts DEF Delayed, TypeOK
    <3>2. Len(queue') <= MaxQueued
        BY <3>1, <2>0, <1>0, MaxQueuedAssumption
    <3> QED BY <1>0, <2>0, <2>2, <3>1, <3>2 DEF TypeInv, TypeOK, RoomForStep, Delayed, proxy, runtime
  <2>3. CASE RecipientAway /\ HeartbeatAway /\ UNCHANGED queue
      BY <1>0, <2>0, <2>3, HeartbeatResultType DEF TypeInv, TypeOK, RoomForStep, RecipientAway, runtime
  <2> QED BY <1>2, <2>1, <2>2, <2>3 DEF SendHeartbeat
<1>3. CASE Retry
  <2>0. /\ queue \in Seq(MessageTypes) /\ queue # <<>>
        /\ queue' \in Seq(MessageTypes) /\ Len(queue') = Len(queue) - 1
        /\ Head(queue) \in MessageTypes
      BY <1>0, <1>3, TailFacts DEF Retry, TypeOK
  <2>1. Len(queue') < MaxQueued /\ Len(queue') <= MaxQueued
      BY <1>0, <2>0, MaxQueuedAssumption DEF TypeOK
  <2>2. /\ sending' \in Steps \cup {"none"}
        /\ m_runtime_online' \in BOOLEAN /\ m_reconnect_in_progress' \in BOOLEAN /\ m_heartbeat' \in BOOLEAN
    <3>1. CASE Head(queue) \in Steps
        BY <1>0, <1>3, <3>1, ContinueType, AbandonType DEF Retry
    <3>2. CASE Head(queue) \notin Steps
        BY <1>0, <1>3, <3>2, HeartbeatResultType DEF Retry
    <3> QED BY <3>1, <3>2
  <2>3. /\ running' \in BOOLEAN /\ known' \subseteq Steps /\ interrupted' \in BOOLEAN
        /\ inbox' \in Seq(MessageTypes) /\ Len(inbox') <= Capacity
    <3>1. CASE Sent(Head(queue))
        BY <1>0, <2>0, <3>1, SentType DEF TypeOK
    <3>2. CASE RecipientAway
        BY <1>0, <3>2 DEF TypeOK, RecipientAway, runtime
    <3> QED BY <1>3, <3>1, <3>2 DEF Retry
  <2> QED BY <2>0, <2>1, <2>2, <2>3 DEF TypeInv, TypeOK, RoomForStep
<1>4. CASE RuntimeHandles
  <2>0. /\ inbox \in Seq(MessageTypes) /\ inbox # <<>>
        /\ Tail(inbox) \in Seq(MessageTypes) /\ Len(Tail(inbox)) = Len(inbox) - 1
      BY <1>0, <1>4, TailFacts DEF RuntimeHandles, TypeOK
  <2>1. Len(Tail(inbox)) <= Capacity
      BY <1>0, <2>0, CapacityAssumption DEF TypeOK
  <2>2. <<>> \in Seq(MessageTypes) /\ Len(<<>>) <= Capacity
      BY CapacityAssumption
  <2>3. /\ inbox' \in Seq(MessageTypes) /\ Len(inbox') <= Capacity
        /\ known' \subseteq Steps /\ running' \in BOOLEAN /\ interrupted' \in BOOLEAN
      BY <1>0, <1>4, <2>0, <2>1, <2>2 DEF RuntimeHandles, Forgets, TypeOK
  <2> QED BY <1>0, <1>4, <2>3 DEF RuntimeHandles, TypeInv, TypeOK, RoomForStep, proxy
<1>5. CASE RuntimeEvicts
    BY <1>0, <1>5 DEF RuntimeEvicts, Forgets, TypeInv, TypeOK, RoomForStep, proxy
<1>6. CASE RuntimeStops
  <2>1. <<>> \in Seq(MessageTypes) /\ Len(<<>>) <= Capacity
      BY CapacityAssumption
  <2> QED BY <1>0, <1>6, <2>1 DEF RuntimeStops, Forgets, TypeInv, TypeOK, RoomForStep, proxy
<1>7. CASE RuntimeStarts
    BY <1>0, <1>7 DEF RuntimeStarts, TypeInv, TypeOK, RoomForStep, proxy
<1>8. CASE UNCHANGED vars
    BY <1>0, <1>8 DEF vars, proxy, runtime, TypeInv, TypeOK, RoomForStep
<1> QED BY <1>1, <1>2, <1>3, <1>4, <1>5, <1>6, <1>7, <1>8 DEF Next

\* Type correctness: every variable has its type, and the queue its bound.
THEOREM TypeCorrect == Spec => []TypeOK
<1>1. Init => TypeInv
    BY InitInv DEF IInv
<1>2. TypeInv /\ [Next]_vars => TypeInv'
    BY StepType
<1>3. TypeInv => TypeOK
    BY DEF TypeInv
<1> QED BY <1>1, <1>2, <1>3, PTL DEF Spec
-----------------------------------------------------------------------------
\* A reconnect() that is delayed is suspended with the message it waits for ...
LEMMA SuspendedByDelay ==
    ASSUME TypeOK, NEW m \in MessageTypes, Delayed(m)
    PROVE  Suspended' = IF m \in Steps THEN Suspended \cup {Len(queue) + 1} ELSE Suspended
    BY AppendFacts DEF TypeOK, Delayed, Suspended

\* ... and none is any more when the one with the first message is resumed.
LEMMA SuspendedAfterPop ==
    ASSUME TypeOK, OneReconnect, queue # <<>>, queue' = Tail(queue)
    PROVE  /\ Head(queue) \in Steps => Suspended # {} /\ Suspended' = {}
           /\ Head(queue) \notin Steps =>
                  /\ Suspended' = {} <=> Suspended = {}
                  /\ \A i, j \in Suspended' : i = j
<1>1. /\ DOMAIN queue = 1 .. Len(queue) /\ DOMAIN queue' = 1 .. Len(queue) - 1
      /\ Len(queue) \in Nat \ {0} /\ Head(queue) = queue[1]
      /\ \A i \in 1 .. Len(queue) - 1 : queue'[i] = queue[i + 1]
    BY TailFacts DEF TypeOK
<1>2. \A i \in Suspended' : i \in Nat /\ i + 1 \in Suspended /\ i + 1 # 1
    BY <1>1 DEF Suspended
<1>3. ASSUME Head(queue) \in Steps
      PROVE  Suspended # {} /\ Suspended' = {}
  <2>1. 1 \in Suspended
      BY <1>1, <1>3 DEF Suspended
  <2> QED BY <1>2, <2>1 DEF OneReconnect
<1>4. ASSUME Head(queue) \notin Steps
      PROVE  Suspended' = {} <=> Suspended = {}
  <2>1. \A i \in Suspended : i \in Nat /\ i - 1 \in Suspended'
      BY <1>1, <1>4 DEF Suspended
  <2> QED BY <1>2, <2>1
<1>5. \A i, j \in Suspended' : i = j
  <2> SUFFICES ASSUME NEW i \in Suspended', NEW j \in Suspended' PROVE i = j
      OBVIOUS
  <2>1. i + 1 = j + 1 /\ i \in Nat /\ j \in Nat
      BY <1>2 DEF OneReconnect
  <2> QED BY <2>1
<1> QED BY <1>3, <1>4, <1>5

\* reconnect() goes on with another message, or ends and says so.
LEMMA ContinueFlag ==
    ASSUME NEW step \in Steps, m_reconnect_in_progress = TRUE, Continue(step)
    PROVE  m_reconnect_in_progress' <=> sending' # "none"
<1>1. CASE StepAfter(step) = "none"
    BY <1>1 DEF Continue, Done
<1>2. CASE StepAfter(step) # "none"
    BY <1>2 DEF Continue, proxy
<1> QED BY <1>1, <1>2

\* No step makes a second reconnect().
LEMMA OneReconnectStep ==
    ASSUME TypeInv, OneReconnect, [Next]_vars
    PROVE  OneReconnect'
<1>0. TypeOK /\ "HEARTBEAT" \notin Steps /\ "HEARTBEAT" \in MessageTypes /\ "none" \notin Steps
    BY DEF TypeInv, Steps, MessageTypes
<1>1. CASE SendStep
  <2>0. /\ sending # "none" /\ sending \in Steps /\ sending \in MessageTypes
        /\ Suspended = {} /\ m_reconnect_in_progress = TRUE
      BY <1>0, <1>1 DEF SendStep, OneReconnect, TypeOK, MessageTypes
  <2>1. CASE Sent(sending) /\ Continue(sending) /\ UNCHANGED queue
      BY <2>0, <2>1, ContinueFlag DEF OneReconnect, Suspended
  <2>2. CASE Delayed(sending) /\ sending' = "none" /\ UNCHANGED proxy
    <3>1. Suspended' = {Len(queue) + 1}
        BY <1>0, <2>0, <2>2, SuspendedByDelay
    <3> QED BY <2>0, <2>2, <3>1 DEF OneReconnect, proxy
  <2>3. CASE RecipientAway /\ Abandon /\ UNCHANGED queue
      BY <2>0, <2>3 DEF OneReconnect, Suspended, Abandon, Done
  <2> QED BY <1>1, <2>1, <2>2, <2>3 DEF SendStep
<1>2. CASE SendHeartbeat
  <2>1. CASE Sent("HEARTBEAT") /\ HeartbeatSent /\ UNCHANGED queue
    <3>1. Suspended' = Suspended
        BY <2>1 DEF Suspended
    <3> QED BY <1>0, <1>2, <2>1, <3>1 DEF OneReconnect, HeartbeatSent, SendHeartbeat
  <2>2. CASE Delayed("HEARTBEAT") /\ UNCHANGED <<proxy, sending>>
    <3>1. Suspended' = Suspended
        BY <1>0, <2>2, SuspendedByDelay
    <3> QED BY <2>2, <3>1 DEF OneReconnect, proxy
  <2>3. CASE RecipientAway /\ HeartbeatAway /\ UNCHANGED queue
    <3>1. Suspended' = Suspended
        BY <2>3 DEF Suspended
    <3> QED BY <2>3, <3>1 DEF OneReconnect, HeartbeatAway
  <2> QED BY <1>2, <2>1, <2>2, <2>3 DEF SendHeartbeat
<1>3. CASE Retry
  <2>0. sending = "none" /\ queue # <<>> /\ queue' = Tail(queue)
      BY <1>3 DEF Retry
  <2>1. CASE Head(queue) \in Steps
    <3>1. m_reconnect_in_progress = TRUE /\ Suspended' = {}
        BY <1>0, <2>0, <2>1, SuspendedAfterPop DEF OneReconnect, TypeOK
    <3>2. m_reconnect_in_progress' <=> sending' # "none"
        BY <1>3, <2>1, <3>1, ContinueFlag DEF Retry, Abandon, Done
    <3> QED BY <3>1, <3>2 DEF OneReconnect
  <2>2. CASE Head(queue) \notin Steps
    <3>1. (Suspended' = {} <=> Suspended = {}) /\ \A i, j \in Suspended' : i = j
        BY <1>0, <2>0, <2>2, SuspendedAfterPop
    <3>2. HeartbeatSent \/ HeartbeatAway
        BY <1>3, <2>2 DEF Retry
    <3>3. m_reconnect_in_progress <=> Suspended # {}
        BY <2>0 DEF OneReconnect
    <3>4. CASE HeartbeatSent
        BY <2>0, <3>1, <3>3, <3>4 DEF OneReconnect, HeartbeatSent
    <3>5. CASE HeartbeatAway
        BY <2>0, <3>1, <3>3, <3>5 DEF OneReconnect, HeartbeatAway
    <3> QED BY <3>2, <3>4, <3>5
  <2> QED BY <2>1, <2>2
<1>4. CASE RuntimeHandles \/ RuntimeEvicts \/ RuntimeStops \/ RuntimeStarts
    BY <1>4 DEF RuntimeHandles, RuntimeEvicts, RuntimeStops, RuntimeStarts, OneReconnect, Suspended, proxy
<1>5. CASE UNCHANGED vars
    BY <1>5 DEF vars, proxy, OneReconnect, Suspended
<1> QED BY <1>1, <1>2, <1>3, <1>4, <1>5 DEF Next

\* Heartbeats report their results whenever they are known, and never begin a
\* second reconnect().
THEOREM NeverTwoReconnects == Spec => []OneReconnect
<1>1. Init => TypeInv /\ OneReconnect
    BY InitInv DEF IInv
<1>2. TypeInv /\ OneReconnect /\ [Next]_vars => (TypeInv /\ OneReconnect)'
    BY StepType, OneReconnectStep
<1> QED BY <1>1, <1>2, PTL DEF Spec
-----------------------------------------------------------------------------
\* All steps of a reconnect() but the first need the application registered.
LEMMA NeedySteps == Needy = Steps \ {"REGISTER_APPLICATION"}
    BY DEF Needy, Steps

\* What a message that is sent does to what the runtime has yet to handle.
LEMMA SentOrder ==
    ASSUME TypeOK, OrderInv, NEW m \in MessageTypes, Sent(m),
           m = "REGISTER_APPLICATION" => StartsOver,
           m \in Needy => GoesOn
    PROVE  /\ NobodyReads' /\ RegisterComesFirst'
           /\ m = "REGISTER_APPLICATION" => Ahead'
           /\ m # "REGISTER_APPLICATION" /\ ~interrupted' /\ Ahead => ~interrupted /\ Ahead'
           /\ m # "REGISTER_APPLICATION" /\ ~interrupted' => ~interrupted
           /\ m \notin Needy /\ Clean => Clean'
<1>1. /\ DOMAIN inbox = 1 .. Len(inbox) /\ DOMAIN inbox' = 1 .. Len(inbox) + 1
      /\ Len(inbox) \in Nat
      /\ \A i \in 1 .. Len(inbox) : inbox'[i] = inbox[i]
      /\ inbox'[Len(inbox) + 1] = m
      /\ known' = known /\ running' = running /\ running
      /\ interrupted' = (interrupted /\ m # "REGISTER_APPLICATION")
    BY AppendFacts DEF TypeOK, Sent
<1>2. NobodyReads'
    BY <1>1 DEF NobodyReads
<1>3. m = "REGISTER_APPLICATION" => Ahead'
  <2>1. Len(inbox) + 1 \in DOMAIN inbox'
      BY <1>1
  <2> QED BY <1>1, <2>1 DEF Ahead, Within
<1>4. Ahead => Ahead'
  <2>1. \A i \in DOMAIN inbox : i \in DOMAIN inbox' /\ inbox'[i] = inbox[i]
      BY <1>1
  <2> QED BY <1>1, <2>1 DEF Ahead, Within
<1>5. m \notin Needy /\ Clean => Clean'
  <2>1. \A i \in DOMAIN inbox' : (i \in DOMAIN inbox /\ inbox'[i] = inbox[i]) \/ inbox'[i] = m
      BY <1>1
  <2> QED BY <2>1 DEF Clean
<1>6. m # "REGISTER_APPLICATION" /\ ~interrupted' => ~interrupted
    BY <1>1
<1>7. RegisterComesFirst'
  <2>1. CASE m = "REGISTER_APPLICATION"
    <3>1. Clean'
        BY <2>1, <1>5 DEF OrderInv, CleanInbox, Needy
    <3> QED BY <3>1, NeedySteps DEF RegisterComesFirst, Clean
  <2>2. CASE m # "REGISTER_APPLICATION"
    <3> SUFFICES ASSUME ~interrupted', NEW i \in DOMAIN inbox', inbox'[i] \in Needy,
                        "REGISTER_APPLICATION" \notin known'
                 PROVE  \E j \in DOMAIN inbox' : j < i /\ inbox'[j] = "REGISTER_APPLICATION"
        BY NeedySteps DEF RegisterComesFirst
    <3>1. ~interrupted /\ "REGISTER_APPLICATION" \notin known
        BY <1>1, <2>2
    <3>2. CASE i \in DOMAIN inbox
      <4>1. inbox[i] \in Steps \ {"REGISTER_APPLICATION"}
          BY <1>1, <3>2, NeedySteps
      <4>2. PICK j \in DOMAIN inbox : j < i /\ inbox[j] = "REGISTER_APPLICATION"
          BY <3>1, <3>2, <4>1 DEF OrderInv, RegisterComesFirst
      <4>3. j \in DOMAIN inbox' /\ inbox'[j] = "REGISTER_APPLICATION"
          BY <1>1, <4>2
      <4> QED BY <4>2, <4>3
    <3>3. CASE i \notin DOMAIN inbox
      <4>1. i = Len(inbox) + 1 /\ m \in Needy
          BY <1>1, <3>3
      <4>2. PICK j \in DOMAIN inbox : inbox[j] = "REGISTER_APPLICATION"
          BY <3>1, <4>1 DEF OrderInv, RegisterSent, Ahead, Within
      <4>3. j \in DOMAIN inbox' /\ inbox'[j] = "REGISTER_APPLICATION" /\ j < i
          BY <1>1, <4>1, <4>2
      <4> QED BY <4>3
    <3> QED BY <3>2, <3>3
  <2> QED BY <2>1, <2>2
<1> QED BY <1>2, <1>3, <1>4, <1>5, <1>6, <1>7

\* A message that has to wait changes neither the order nor what is to come.
LEMMA DelayedOrder ==
    ASSUME TypeOK, OrderInv, NEW m \in MessageTypes, Delayed(m),
           UNCHANGED proxy, sending' \in {sending, "none"},
           m = "REGISTER_APPLICATION" => StartsOver,
           m \in Needy => GoesOn
    PROVE  OrderInv'
<1>1. /\ DOMAIN queue = 1 .. Len(queue) /\ DOMAIN queue' = 1 .. Len(queue) + 1
      /\ Len(queue) \in Nat
      /\ \A i \in 1 .. Len(queue) : queue'[i] = queue[i]
      /\ queue'[Len(queue) + 1] = m
      /\ UNCHANGED runtime
    BY AppendFacts DEF TypeOK, Delayed
<1>2. \A i \in DOMAIN queue' : (i \in DOMAIN queue /\ queue'[i] = queue[i]) \/ queue'[i] = m
    BY <1>1
<1>3. StartsOver' => StartsOver
    BY <1>2 DEF StartsOver, Within, proxy
<1>4. GoesOn' => GoesOn
    BY <1>2 DEF GoesOn, Needy
<1> QED BY <1>1, <1>3, <1>4
        DEF runtime, OrderInv, NobodyReads, CleanInbox, Clean, RegisterSent, Ahead, Within, RegisterComesFirst

\* When nobody reads, nothing is ahead and nothing in the way.
LEMMA AwayOrder ==
    ASSUME OrderInv, RecipientAway, GoesOn' => GoesOn
    PROVE  OrderInv'
<1>1. inbox = <<>> /\ inbox' = <<>> /\ UNCHANGED runtime
    BY DEF OrderInv, NobodyReads, RecipientAway, runtime
<1>2. Clean' /\ RegisterComesFirst' /\ NobodyReads'
    BY <1>1 DEF Clean, RegisterComesFirst, NobodyReads
<1>3. RegisterSent'
    BY <1>1 DEF OrderInv, RegisterSent, Ahead, Within, runtime
<1> QED BY <1>2, <1>3 DEF OrderInv, CleanInbox

\* The same for what is popped, which was in the queue.
LEMMA Popped ==
    ASSUME TypeOK, queue # <<>>, queue' = Tail(queue)
    PROVE  /\ Head(queue) \in MessageTypes
           /\ \A m : Within(m, queue') => Within(m, queue)
           /\ Within(Head(queue), queue)
           /\ (\E i \in DOMAIN queue' : queue'[i] \in Needy) => \E i \in DOMAIN queue : queue[i] \in Needy
<1>1. /\ DOMAIN queue = 1 .. Len(queue) /\ DOMAIN queue' = 1 .. Len(queue) - 1
      /\ Len(queue) \in Nat \ {0} /\ Head(queue) = queue[1] /\ Head(queue) \in MessageTypes
      /\ \A i \in 1 .. Len(queue) - 1 : queue'[i] = queue[i + 1]
    BY TailFacts DEF TypeOK
<1>2. \A i \in DOMAIN queue' : i + 1 \in DOMAIN queue /\ queue'[i] = queue[i + 1]
    BY <1>1
<1>3. 1 \in DOMAIN queue
    BY <1>1
<1> QED BY <1>1, <1>2, <1>3 DEF Within

\* What remains when a step was sent: no REGISTER waits, and the next step, if
\* there is one, needs it.
LEMMA ContinueOrder ==
    ASSUME TypeOK, NEW step \in Steps, Continue(step), m_reconnect_in_progress = TRUE,
           Suspended' = {}
    PROVE  ~StartsOver'
<1>1. ~Within("REGISTER_APPLICATION", queue)'
    BY DEF Suspended, Within, Steps
<1>2. sending' # "REGISTER_APPLICATION"
    BY DEF Continue, StepAfter, Steps
<1>3. CASE StepAfter(step) = "none"
    BY <1>1, <1>2, <1>3 DEF Continue, Done, StartsOver
<1>4. CASE StepAfter(step) # "none"
    BY <1>1, <1>2, <1>4 DEF Continue, proxy, StartsOver
<1> QED BY <1>3, <1>4

\* A step that reconnect() sends keeps the order.
LEMMA StepSentOrder ==
    ASSUME TypeOK, OrderInv, NEW step \in Steps, Sent(step), Continue(step),
           m_reconnect_in_progress = TRUE, Suspended' = {},
           step = "REGISTER_APPLICATION" => StartsOver,
           step \in Needy => GoesOn
    PROVE  OrderInv'
<1>1. step \in MessageTypes
    BY DEF MessageTypes
<1>2. NobodyReads' /\ RegisterComesFirst'
    BY <1>1, SentOrder
<1>3. CleanInbox'
    BY ContinueOrder DEF CleanInbox
<1>4. RegisterSent'
  <2>1. CASE step = "REGISTER_APPLICATION"
      BY <1>1, <2>1, SentOrder DEF RegisterSent
  <2>2. CASE step # "REGISTER_APPLICATION"
      BY <1>1, <2>2, SentOrder, NeedySteps DEF RegisterSent, OrderInv
  <2> QED BY <2>1, <2>2
<1> QED BY <1>2, <1>3, <1>4 DEF OrderInv

\* A heartbeat keeps the order.
LEMMA HeartbeatSentOrder ==
    ASSUME TypeOK, OrderInv, Sent("HEARTBEAT"), HeartbeatSent, sending = "none",
           Within("REGISTER_APPLICATION", queue') => Within("REGISTER_APPLICATION", queue),
           (\E i \in DOMAIN queue' : queue'[i] \in Needy) => \E i \in DOMAIN queue : queue[i] \in Needy
    PROVE  OrderInv'
<1>1. "HEARTBEAT" \in MessageTypes /\ "HEARTBEAT" \notin Needy
    BY DEF MessageTypes, Needy
<1>2. NobodyReads' /\ RegisterComesFirst'
    BY <1>1, SentOrder
<1>3. StartsOver' => StartsOver
    BY DEF StartsOver, Within, HeartbeatSent
<1>4. GoesOn' => GoesOn
    BY DEF GoesOn, Needy, HeartbeatSent
<1>5. CleanInbox'
    BY <1>1, <1>3, SentOrder DEF CleanInbox, OrderInv
<1>6. RegisterSent'
    BY <1>1, <1>4, SentOrder DEF RegisterSent, OrderInv
<1> QED BY <1>2, <1>5, <1>6 DEF OrderInv

\* The runtime handles a message: what it has yet to handle stays in order.
LEMMA HandlesOrder ==
    ASSUME TypeOK, OrderInv, RuntimeHandles
    PROVE  OrderInv'
<1>0. UNCHANGED <<proxy, sending, queue>> /\ running
    BY DEF RuntimeHandles
<1>1. CASE running' = FALSE /\ inbox' = <<>> /\ Forgets
    BY <1>1 DEF OrderInv, NobodyReads, CleanInbox, Clean, RegisterSent, RegisterComesFirst, Forgets
<1>2. CASE /\ inbox' = Tail(inbox)
           /\ known' = known \cup ({Head(inbox)} \cap Steps)
           /\ UNCHANGED <<running, interrupted>>
  <2>1. /\ DOMAIN inbox = 1 .. Len(inbox) /\ DOMAIN inbox' = 1 .. Len(inbox) - 1
        /\ Len(inbox) \in Nat \ {0} /\ Head(inbox) = inbox[1]
        /\ \A i \in 1 .. Len(inbox) - 1 : inbox'[i] = inbox[i + 1]
      BY <1>2, TailFacts DEF TypeOK, RuntimeHandles
  <2>2. \A i \in DOMAIN inbox' : i \in Nat /\ i + 1 \in DOMAIN inbox /\ inbox'[i] = inbox[i + 1]
      BY <2>1
  \* A REGISTER that was first in the inbox is known, and another one is still there.
  <2>3. \A j \in DOMAIN inbox : inbox[j] = "REGISTER_APPLICATION" =>
            \/ "REGISTER_APPLICATION" \in known'
            \/ j - 1 \in DOMAIN inbox' /\ inbox'[j - 1] = "REGISTER_APPLICATION"
    <3> SUFFICES ASSUME NEW j \in DOMAIN inbox, inbox[j] = "REGISTER_APPLICATION"
                 PROVE  \/ "REGISTER_APPLICATION" \in known'
                        \/ j - 1 \in DOMAIN inbox' /\ inbox'[j - 1] = "REGISTER_APPLICATION"
        OBVIOUS
    <3>1. CASE j = 1
      <4>1. Head(inbox) = "REGISTER_APPLICATION"
          BY <2>1, <3>1
      <4> QED BY <1>2, <4>1 DEF Steps
    <3>2. CASE j # 1
        BY <2>1, <3>2
    <3> QED BY <3>1, <3>2
  <2>4. NobodyReads' /\ CleanInbox'
    <3>1. StartsOver' => StartsOver
        BY <1>0 DEF StartsOver, Within, proxy
    <3>2. Clean => Clean'
        BY <2>2 DEF Clean
    <3> QED BY <1>0, <1>2, <3>1, <3>2 DEF NobodyReads, CleanInbox, OrderInv
  <2>5. Ahead => Ahead'
      BY <1>2, <2>3 DEF Ahead, Within
  <2>6. RegisterSent'
      BY <1>0, <1>2, <2>5 DEF RegisterSent, GoesOn, OrderInv
  <2>7. RegisterComesFirst'
    <3> SUFFICES ASSUME ~interrupted', NEW i \in DOMAIN inbox', inbox'[i] \in Needy,
                        "REGISTER_APPLICATION" \notin known'
                 PROVE  \E j \in DOMAIN inbox' : j < i /\ inbox'[j] = "REGISTER_APPLICATION"
        BY NeedySteps DEF RegisterComesFirst
    <3>1. i \in Nat /\ i + 1 \in DOMAIN inbox /\ inbox[i + 1] \in Steps \ {"REGISTER_APPLICATION"}
        BY <2>2, NeedySteps
    <3>2. ~interrupted /\ "REGISTER_APPLICATION" \notin known
        BY <1>2
    <3>3. PICK j \in DOMAIN inbox : j < i + 1 /\ inbox[j] = "REGISTER_APPLICATION"
        BY <3>1, <3>2 DEF OrderInv, RegisterComesFirst
    <3>4. j - 1 \in DOMAIN inbox' /\ inbox'[j - 1] = "REGISTER_APPLICATION"
        BY <2>3, <3>3
    <3>5. j - 1 < i
        BY <2>1, <3>1, <3>3
    <3> QED BY <3>4, <3>5
  <2> QED BY <2>4, <2>6, <2>7 DEF OrderInv
<1> QED BY <1>1, <1>2 DEF RuntimeHandles

\* Every step keeps the order.
LEMMA OrderStep ==
    ASSUME TypeInv, OneReconnect, OrderInv, [Next]_vars
    PROVE  OrderInv'
<1>0. /\ TypeOK /\ OneReconnect' /\ "HEARTBEAT" \in MessageTypes /\ "none" \notin Steps /\ "HEARTBEAT" \notin Steps
      /\ "HEARTBEAT" # "REGISTER_APPLICATION" /\ "HEARTBEAT" \notin Needy /\ "none" \notin Needy
    BY OneReconnectStep DEF TypeInv, Steps, MessageTypes, Needy
<1>1. CASE SendStep
  <2>0. /\ sending \in Steps /\ sending \in MessageTypes
        /\ Suspended = {} /\ m_reconnect_in_progress = TRUE
        /\ sending = "REGISTER_APPLICATION" => StartsOver
        /\ sending \in Needy => GoesOn
      BY <1>0, <1>1 DEF SendStep, OneReconnect, TypeOK, MessageTypes, StartsOver, GoesOn
  <2>1. CASE Sent(sending) /\ Continue(sending) /\ UNCHANGED queue
    <3>1. Suspended' = {}
        BY <2>0, <2>1 DEF Suspended
    <3> QED BY <1>0, <2>0, <2>1, <3>1, StepSentOrder
  <2>2. CASE Delayed(sending) /\ sending' = "none" /\ UNCHANGED proxy
      BY <1>0, <2>0, <2>2, DelayedOrder
  <2>3. CASE RecipientAway /\ Abandon /\ UNCHANGED queue
    <3>1. GoesOn' => GoesOn
        BY <1>0, <2>3 DEF GoesOn, Abandon
    <3> QED BY <2>3, <3>1, AwayOrder
  <2> QED BY <1>1, <2>1, <2>2, <2>3 DEF SendStep
<1>2. CASE SendHeartbeat
  <2>0. sending = "none"
      BY <1>2 DEF SendHeartbeat
  <2>1. CASE Sent("HEARTBEAT") /\ HeartbeatSent /\ UNCHANGED queue
      BY <1>0, <2>0, <2>1, HeartbeatSentOrder DEF Within
  <2>2. CASE Delayed("HEARTBEAT") /\ UNCHANGED <<proxy, sending>>
      BY <1>0, <2>2, DelayedOrder
  <2>3. CASE RecipientAway /\ HeartbeatAway /\ UNCHANGED queue
    <3>1. GoesOn' => GoesOn
        BY <2>3 DEF GoesOn, HeartbeatAway
    <3> QED BY <2>3, <3>1, AwayOrder
  <2> QED BY <1>2, <2>1, <2>2, <2>3 DEF SendHeartbeat
<1>3. CASE Retry
  <2>0. sending = "none" /\ queue # <<>> /\ queue' = Tail(queue)
      BY <1>3 DEF Retry
  <2>1. /\ Head(queue) \in MessageTypes
        /\ \A m : Within(m, queue') => Within(m, queue)
        /\ Within(Head(queue), queue)
        /\ (\E i \in DOMAIN queue' : queue'[i] \in Needy) => \E i \in DOMAIN queue : queue[i] \in Needy
      BY <1>0, <2>0, Popped
  <2>2. CASE Head(queue) \in Steps /\ Sent(Head(queue)) /\ Continue(Head(queue))
    <3>1. m_reconnect_in_progress = TRUE /\ Suspended' = {}
        BY <1>0, <2>0, <2>2, SuspendedAfterPop DEF OneReconnect, TypeOK
    <3>2. /\ Head(queue) = "REGISTER_APPLICATION" => StartsOver
          /\ Head(queue) \in Needy => GoesOn
        BY <2>1 DEF StartsOver, GoesOn, Within
    <3> QED BY <1>0, <2>2, <3>1, <3>2, StepSentOrder
  <2>3. CASE Sent(Head(queue)) /\ HeartbeatSent /\ Head(queue) \notin Steps
    <3>1. Head(queue) = "HEARTBEAT"
        BY <2>1, <2>3 DEF MessageTypes
    <3> QED BY <1>0, <2>0, <2>1, <2>3, <3>1, HeartbeatSentOrder
  <2>4. CASE RecipientAway /\ (Abandon \/ HeartbeatAway)
    <3>1. GoesOn' => GoesOn
        BY <1>0, <2>0, <2>1, <2>4 DEF GoesOn, Abandon, HeartbeatAway
    <3> QED BY <2>4, <3>1, AwayOrder
  <2> QED BY <1>3, <2>2, <2>3, <2>4 DEF Retry
<1>4. CASE RuntimeHandles
    BY <1>0, <1>4, HandlesOrder
<1>5. CASE RuntimeEvicts \/ RuntimeStops
    BY <1>5 DEF RuntimeEvicts, RuntimeStops, Forgets, OrderInv, NobodyReads, CleanInbox, Clean, StartsOver,
                Within, RegisterSent, RegisterComesFirst, proxy
<1>6. CASE RuntimeStarts
    BY <1>6 DEF RuntimeStarts, OrderInv, NobodyReads, CleanInbox, Clean, StartsOver, Within, GoesOn, Ahead,
                RegisterSent, RegisterComesFirst, proxy
<1>7. CASE UNCHANGED vars
    BY <1>7 DEF vars, proxy, runtime, OrderInv, NobodyReads, CleanInbox, Clean, StartsOver, Within, GoesOn,
                Ahead, RegisterSent, RegisterComesFirst
<1> QED BY <1>1, <1>2, <1>3, <1>4, <1>5, <1>6, <1>7 DEF Next

\* A runtime that has not forgotten the application since it was sent REGISTER
\* handles that before the messages it needs it for.
THEOREM RegisterAlwaysFirst == Spec => []RegisterComesFirst
<1>1. IInv /\ [Next]_vars => IInv'
    BY StepType, OneReconnectStep, OrderStep DEF IInv
<1>2. IInv => RegisterComesFirst
    BY DEF IInv, OrderInv
<1> QED BY InitInv, <1>1, <1>2, PTL DEF Spec
=============================================================================
