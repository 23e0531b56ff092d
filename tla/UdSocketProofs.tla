---------------------------- MODULE UdSocketProofs ----------------------------
(***************************************************************************)
(* Invariance of TypeOK, ClosedOnceAndUnwatched, QueuedIsWatched and       *)
(* DelayedResultsKept of UdSocket, and that it implements DatagramService, *)
(* for any number of threads, messages and recipients.                     *)
(***************************************************************************)
EXTENDS UdSocket, TLAPS

\* A sender has a message exactly while it is in send(), which has not returned for
\* it, and no two threads send the same one.
SendersOK ==
    /\ \A t \in Senders :
           /\ pc[t] \in {"idle", "locking", "dying", "storing", "closing", "dead"}
           /\ sending[t] \in Messages \cup {NoMessage}
           /\ pc[t] # "idle" => sending[t] \in Messages /\ returned[sending[t]] = "none"
           /\ pc[t] = "idle" => sending[t] = NoMessage
           /\ pc[t] \in {"closing", "dead"} => m_stage = "DEAD"
    /\ \A t, u \in Senders : t # u /\ sending[t] = sending[u] => sending[t] = NoMessage

\* The worker reports on the front of the queue, which is there.
WorkerOK ==
    /\ pc[Worker] \in {"idle", "dying", "storing", "closing", "retry", "retrying", "notify",
                       "retried", "undefined"}
    /\ pc[Worker] = "closing" => m_stage = "DEAD"
    /\ notify # "none" <=> pc[Worker] = "notify"
    /\ notify # "none" => m_pending_messages # <<>> /\ Front \in Notified

DescriptorOK ==
    /\ open => closes = 0
    /\ ~open => closes = 1 /\ readable = FALSE /\ writeable = FALSE

\* A message is queued once, after send() returned DELAYED_RESULT for it; nobody was
\* told of it and it was not delivered, unless it is the front.
QueueOK ==
    /\ \A i, j \in 1 .. Len(m_pending_messages) :
           m_pending_messages[i] = m_pending_messages[j] => i = j
    /\ \A i \in 1 .. Len(m_pending_messages) :
           /\ returned[m_pending_messages[i]] = "DELAYED_RESULT"
           /\ reported[m_pending_messages[i]] # <<>> => i = 1
           /\ delivered[m_pending_messages[i]] > 0 => i = 1 /\ notify = "SENT"

\* A front that was reported dead has not been popped, but is not retried: the worker
\* is on its way to to_dead(), or was there.
Doomed ==
    \/ pc[Worker] \in {"dying", "storing"}
    \/ m_stage = "DEAD" /\ pc[Worker] \in {"closing", "retried", "idle", "retry"}

FrontOK == (m_pending_messages # <<>> /\ reported[Front] # <<>>) => Doomed

\* Nothing is reported or delivered before send() returned.
HistoryOK ==
    \A m \in Messages :
        /\ returned[m] # "DELAYED_RESULT" => reported[m] = <<>>
        /\ returned[m] = "none" => delivered[m] = 0
        /\ reported[m] # <<>> => Len(reported[m]) = 1

IInv ==
    /\ TypeOK
    /\ SendersOK
    /\ WorkerOK
    /\ DescriptorOK
    /\ QueuedIsWatched
    /\ QueueOK
    /\ FrontOK
    /\ HistoryOK
    /\ DelayedResultsKept

-----------------------------------------------------------------------------
(* The types.                                                              *)

Labels == {"idle", "locking", "dying", "storing", "closing", "dead", "retry",
           "retrying", "notify", "retried", "undefined"}

\* Going somewhere keeps the type of pc.
LEMMA GotoType ==
    ASSUME pc \in [Threads -> Labels], NEW t \in Threads, NEW label \in Labels, Goto(t, label)
    PROVE  pc' \in [Threads -> Labels]
BY DEF Goto

\* Where a thread goes once it has found the socket broken.
LEMMA AfterDeathType == \A t \in Threads : AfterDeath(t) \in Labels
BY DEF AfterDeath, Labels

\* What was delivered is counted.
LEMMA DeliverType ==
    ASSUME delivered \in [Messages -> Nat], NEW m \in Messages, Deliver(m)
    PROVE  delivered' \in [Messages -> Nat]
BY DEF Deliver

\* Returning from send() keeps the types of what it sets.
LEMMA ReturnType ==
    ASSUME TypeOK, NEW t \in Senders, sending[t] \in Messages, NEW result \in Results, Return(t, result)
    PROVE  /\ returned' \in [Messages -> Results \cup {"none"}]
           /\ sending' \in [Senders -> Messages \cup {NoMessage}]
           /\ pc' \in [Threads -> Labels]
<1>1. t \in Threads /\ pc \in [Threads -> Labels] /\ "idle" \in Labels
  BY DEF TypeOK, Threads, Labels
<1>2. pc' \in [Threads -> Labels]
  BY <1>1, GotoType DEF Return
<1>3. returned' \in [Messages -> Results \cup {"none"}]
  BY DEF TypeOK, Return
<1>4. sending' \in [Senders -> Messages \cup {NoMessage}]
  BY DEF TypeOK, Return
<1> QED
  BY <1>2, <1>3, <1>4

\* Every step keeps the types.
LEMMA TypeStep == IInv /\ [Next]_vars => TypeOK'
<1> SUFFICES ASSUME IInv, [Next]_vars PROVE TypeOK'
  OBVIOUS
<1>a. TypeOK /\ pc \in [Threads -> Labels]
  BY DEF IInv, TypeOK, Labels
<1>b. Worker \in Threads /\ Senders \subseteq Threads
  BY DEF Threads
<1>1. ASSUME NEW t \in Threads, ToDead(t) PROVE TypeOK'
  <2>1. pc' \in [Threads -> Labels]
    <3>1. \E label \in Labels : Goto(t, label)
      BY <1>1, AfterDeathType DEF ToDead, LoadStage, StoreStage, OnDead, Labels
    <3> QED
      BY <1>a, <3>1, GotoType
  <2>2. m_stage' \in {"ALIVE", "DEAD"}
    BY <1>1, <1>a DEF ToDead, LoadStage, StoreStage, OnDead, TypeOK
  <2>3. open' \in BOOLEAN /\ readable' \in BOOLEAN /\ writeable' \in BOOLEAN /\ closes' \in Nat
    <3>1. \/ UNCHANGED <<open, closes, readable, writeable>>
          \/ open' = FALSE /\ readable' = FALSE /\ writeable' = FALSE /\ closes' = closes + 1
      BY <1>1 DEF ToDead, LoadStage, StoreStage, OnDead, descriptor
    <3>2. closes \in Nat /\ closes + 1 \in Nat
      BY <1>a DEF TypeOK
    <3>3. closes' \in Nat
      BY <3>1, <3>2
    <3>4. open' \in BOOLEAN /\ readable' \in BOOLEAN /\ writeable' \in BOOLEAN
      BY Zenon, <3>1, <1>a DEF TypeOK
    <3> QED
      BY <3>3, <3>4
  <2> QED
    BY <1>1, <1>a, <2>1, <2>2, <2>3
       DEF ToDead, LoadStage, StoreStage, OnDead, TypeOK, worker, environment, Labels
<1>2. ASSUME NEW t \in Senders, NEW m \in Messages, Send(t, m) PROVE TypeOK'
  <2>1. pc' \in [Threads -> Labels]
    BY <1>2, <1>a, <1>b, GotoType DEF Send, Labels
  <2>2. sending' \in [Senders -> Messages \cup {NoMessage}]
    BY <1>2, <1>a DEF Send, TypeOK
  <2>3. returned' \in [Messages -> Results \cup {"none"}]
    BY <1>2, <1>a DEF Send, TypeOK, Results
  <2> QED
    BY <1>2, <1>a, <2>1, <2>2, <2>3 DEF Send, TypeOK, descriptor, worker, environment, Labels
<1>3. ASSUME NEW t \in Senders, SendNow(t) PROVE TypeOK'
  <2>1. sending[t] \in Messages
    BY <1>3 DEF IInv, SendersOK, SendNow
  <2>2. delivered' \in [Messages -> Nat]
    BY <1>3, <1>a, <2>1, DeliverType DEF SendNow, TypeOK
  <2>3. \E result \in Results : Return(t, result)
    BY <1>3 DEF SendNow, Results
  <2> QED
    BY <1>3, <1>a, <2>1, <2>2, <2>3, ReturnType
       DEF SendNow, TypeOK, descriptor, worker, environment, Labels
<1>4. ASSUME NEW t \in Senders, SendLater(t) PROVE TypeOK'
  <2>1. sending[t] \in Messages
    BY <1>4 DEF IInv, SendersOK, SendLater
  <2>2. m_pending_messages' \in Seq(Messages)
    BY <1>4, <1>a, <2>1 DEF SendLater, TypeOK
  <2>3. \E result \in Results : Return(t, result)
    BY <1>4 DEF SendLater, Results
  <2> QED
    BY <1>4, <1>a, <2>1, <2>2, <2>3, ReturnType
       DEF SendLater, TypeOK, descriptor, worker, environment, Labels
<1>5. ASSUME NEW t \in Senders, SendFails(t) PROVE TypeOK'
  <2>1. pc' \in [Threads -> Labels]
    BY <1>5, <1>a, <1>b, GotoType DEF SendFails, Labels
  <2> QED
    BY <1>5, <1>a, <2>1 DEF SendFails, TypeOK, descriptor, worker, environment, Labels
<1>6. ASSUME NEW t \in Senders, SendReturnsDead(t) PROVE TypeOK'
  <2>1. sending[t] \in Messages
    BY <1>6 DEF IInv, SendersOK, SendReturnsDead
  <2>2. "SOCKET_DEAD" \in Results
    BY DEF Results
  <2> QED
    BY <1>6, <1>a, <2>1, <2>2, ReturnType
       DEF SendReturnsDead, TypeOK, descriptor, worker, environment, Labels
<1>7. ASSUME StartRetry \/ RetryChecksStage \/ RetryAgain \/ RetryEmpty \/ FinishRetry \/ ReceiveFails
      PROVE  TypeOK'
  <2>1. pc' \in [Threads -> Labels]
    <3>1. \E label \in Labels : Goto(Worker, label)
      BY <1>7 DEF StartRetry, RetryChecksStage, RetryAgain, RetryEmpty, FinishRetry, ReceiveFails, Labels
    <3> QED
      BY <1>a, <1>b, <3>1, GotoType
  <2>2. task' \in {"none", "receive", "retry"} /\ emptyRead' \in BOOLEAN /\ writeable' \in BOOLEAN
    BY <1>7, <1>a DEF StartRetry, RetryChecksStage, RetryAgain, RetryEmpty, FinishRetry, ReceiveFails,
                      TypeOK, worker, descriptor
  <2>3. UNCHANGED <<m_stage, open, closes, readable, m_pending_messages, sending, notify, returned,
                    reported, delivered, full, away>>
    BY <1>7 DEF StartRetry, RetryChecksStage, RetryAgain, RetryEmpty, FinishRetry, ReceiveFails,
                worker, descriptor, environment
  <2> QED
    BY <1>a, <2>1, <2>2, <2>3 DEF TypeOK, Labels
<1>8. ASSUME Retry PROVE TypeOK'
  <2>1. m_pending_messages # <<>> /\ Front \in Messages /\ Tail(m_pending_messages) \in Seq(Messages)
    BY <1>8, <1>a DEF Retry, TypeOK, Front
  <2>2. PICK result \in {"SENT", "RECIPIENT_AWAY", "SOCKET_DEAD"} : Settle(result)
    BY <1>8 DEF Retry
  <2>3. pc' \in [Threads -> Labels]
    <3>1. \E label \in Labels : Goto(Worker, label)
      BY <2>2 DEF Settle, Labels
    <3> QED
      BY <1>a, <1>b, <3>1, GotoType
  <2>4. m_pending_messages' \in Seq(Messages)
    BY <2>1, <2>2, <1>a DEF Settle, TypeOK
  <2>5. notify' \in {"none", "SENT", "RECIPIENT_AWAY", "SOCKET_DEAD"}
    BY <2>2, <1>a DEF Settle, TypeOK
  <2>6. delivered' \in [Messages -> Nat]
    BY <1>8, <1>a, <2>1, DeliverType DEF Retry, TypeOK
  <2>7. UNCHANGED <<m_stage, open, closes, readable, writeable, sending, task, emptyRead, returned,
                    reported, full, away>>
    BY <1>8 DEF Retry, descriptor, environment
  <2> QED
    BY <1>a, <2>3, <2>4, <2>5, <2>6, <2>7 DEF TypeOK, Labels
<1>9. ASSUME Notify PROVE TypeOK'
  <2>1. m_pending_messages # <<>> /\ notify \in Results
    BY <1>9, <1>a DEF IInv, WorkerOK, Notify, TypeOK, Results
  <2>2. Front \in Messages /\ Tail(m_pending_messages) \in Seq(Messages)
    BY <2>1, <1>a DEF TypeOK, Front
  <2>3. pc' \in [Threads -> Labels]
    <3>1. \E label \in Labels : Goto(Worker, label)
      BY <1>9 DEF Notify, Labels
    <3> QED
      BY <1>a, <1>b, <3>1, GotoType
  <2>4. m_pending_messages' \in Seq(Messages)
    BY <1>9, <2>2, <1>a DEF Notify, TypeOK
  <2>5. reported' \in [Messages -> Seq(Results)]
    <3>1. reported[Front] \in Seq(Results)
      BY <2>2, <1>a DEF TypeOK
    <3>2. Append(reported[Front], notify) \in Seq(Results)
      BY <3>1, <2>1
    <3> QED
      BY <1>9, <1>a, <3>2 DEF Notify, TypeOK
  <2>6. notify' = "none"
    BY <1>9 DEF Notify
  <2>7. UNCHANGED <<m_stage, open, closes, readable, writeable, sending, task, emptyRead, returned,
                    delivered, full, away>>
    BY <1>9 DEF Notify, descriptor, environment
  <2> QED
    BY <1>a, <2>3, <2>4, <2>5, <2>6, <2>7 DEF TypeOK, Labels
<1>10. ASSUME RecipientsChange PROVE TypeOK'
  BY <1>10, <1>a DEF RecipientsChange, TypeOK, descriptor, worker
<1>11. ASSUME UNCHANGED vars PROVE TypeOK'
  BY <1>11, <1>a DEF vars, TypeOK, descriptor, worker, environment
<1> QED
  BY <1>b, <1>1, <1>2, <1>3, <1>4, <1>5, <1>6, <1>7, <1>8, <1>9, <1>10, <1>11
     DEF Next, Sender, WorkerStep

-----------------------------------------------------------------------------
(* The descriptor and its watch lists.                                     *)

\* The descriptor is closed by on_dead() only, which asks whether it is open.
LEMMA DescriptorStep == IInv /\ [Next]_vars => DescriptorOK' /\ QueuedIsWatched'
<1> SUFFICES ASSUME IInv, [Next]_vars PROVE DescriptorOK' /\ QueuedIsWatched'
  OBVIOUS
<1>a. DescriptorOK /\ QueuedIsWatched /\ closes \in Nat
      /\ open \in BOOLEAN /\ readable \in BOOLEAN /\ writeable \in BOOLEAN
  BY DEF IInv, TypeOK
<1>1. ASSUME NEW t \in Threads, OnDead(t) PROVE DescriptorOK' /\ QueuedIsWatched'
  <2>1. CASE open
    BY <1>1, <2>1, <1>a DEF OnDead, DescriptorOK, QueuedIsWatched
  <2>2. CASE ~open
    BY <1>1, <2>2, <1>a DEF OnDead, DescriptorOK, QueuedIsWatched, descriptor
  <2> QED
    BY <2>1, <2>2
<1>2. ASSUME NEW t \in Senders, SendLater(t) PROVE DescriptorOK' /\ QueuedIsWatched'
  <2>1. open = TRUE /\ open' = TRUE /\ closes' = closes /\ writeable' = TRUE
    BY <1>2, <1>a DEF SendLater, SendTo
  <2> QED
    BY <2>1, <1>a DEF DescriptorOK, QueuedIsWatched
<1>3. ASSUME FinishRetry PROVE DescriptorOK' /\ QueuedIsWatched'
  <2>1. /\ UNCHANGED <<open, closes, readable, m_pending_messages>>
        /\ writeable' = (writeable /\ m_pending_messages # <<>>)
    BY <1>3 DEF FinishRetry
  <2> QED
    BY <2>1, <1>a DEF DescriptorOK, QueuedIsWatched
<1>4. ASSUME Retry \/ Notify PROVE DescriptorOK' /\ QueuedIsWatched'
  <2>1. UNCHANGED <<open, closes, readable, writeable>>
    BY <1>4 DEF Retry, Notify, descriptor
  <2>2. m_pending_messages # <<>>
    BY <1>4 DEF Retry, Notify, IInv, WorkerOK
  <2> QED
    BY <2>1, <2>2, <1>a DEF DescriptorOK, QueuedIsWatched
<1>5. ASSUME UNCHANGED <<open, closes, readable, writeable, m_pending_messages>>
      PROVE  DescriptorOK' /\ QueuedIsWatched'
  BY <1>5, <1>a DEF DescriptorOK, QueuedIsWatched
<1>6. ASSUME NEW t \in Threads, LoadStage(t) \/ StoreStage(t) PROVE DescriptorOK' /\ QueuedIsWatched'
  BY <1>5, <1>6 DEF LoadStage, StoreStage, descriptor
<1>7. ASSUME NEW t \in Senders, \/ SendNow(t) \/ SendFails(t) \/ SendReturnsDead(t)
                               \/ \E m \in Messages : Send(t, m)
      PROVE  DescriptorOK' /\ QueuedIsWatched'
  BY <1>5, <1>7 DEF Send, SendNow, SendFails, SendReturnsDead, descriptor
<1>8. ASSUME StartRetry \/ RetryChecksStage \/ RetryAgain \/ RetryEmpty \/ ReceiveFails
             \/ RecipientsChange \/ UNCHANGED vars
      PROVE  DescriptorOK' /\ QueuedIsWatched'
  BY <1>5, <1>8 DEF StartRetry, RetryChecksStage, RetryAgain, RetryEmpty, ReceiveFails,
                    RecipientsChange, vars, descriptor
<1> QED
  BY <1>1, <1>2, <1>3, <1>4, <1>6, <1>7, <1>8 DEF Next, Sender, WorkerStep, ToDead, Threads

-----------------------------------------------------------------------------
(* The threads.                                                            *)

\* A step of one sender leaves the others where they are.
LEMMA SendersStep == IInv /\ [Next]_vars => SendersOK'
<1> SUFFICES ASSUME IInv, [Next]_vars PROVE SendersOK'
  OBVIOUS
<1>a. SendersOK /\ TypeOK
  BY DEF IInv
<1>b. Worker \notin Senders /\ Worker \in Threads /\ Senders \subseteq Threads
      /\ NoMessage \notin Messages
  BY WorkerAssumption, NoMessageAssumption DEF Threads
<1>c. pc \in [Threads -> Labels] /\ sending \in [Senders -> Messages \cup {NoMessage}]
      /\ returned \in [Messages -> Results \cup {"none"}]
  BY <1>a DEF TypeOK, Labels
<1>1. ASSUME NEW t \in Senders, ToDead(t) PROVE SendersOK'
  <2>1. /\ UNCHANGED <<sending, returned>>
        /\ \A u \in Senders \ {t} : pc'[u] = pc[u]
        /\ pc[t] \in {"dying", "storing", "closing"}
        /\ pc'[t] \in {"storing", "closing", "dead"}
        /\ pc'[t] \in {"closing", "dead"} => m_stage' = "DEAD"
        /\ m_stage = "DEAD" => m_stage' = "DEAD"
    BY <1>1, <1>a, <1>b, <1>c DEF ToDead, LoadStage, StoreStage, OnDead, Goto, AfterDeath, SendersOK
  <2> QED
    BY <2>1, <1>a DEF SendersOK
<1>2. ASSUME NEW t \in Senders, NEW m \in Messages, Send(t, m) PROVE SendersOK'
  <2>1. CASE m_stage = "ALIVE"
    <3>1. /\ UNCHANGED <<m_stage, returned>>
          /\ \A u \in Senders : pc'[u] = IF u = t THEN "locking" ELSE pc[u]
          /\ \A u \in Senders : sending'[u] = IF u = t THEN m ELSE sending[u]
          /\ \A u \in Senders : sending[u] # m
          /\ returned[m] = "none"
      BY <1>2, <2>1, <1>b, <1>c DEF Send, Goto
    <3> QED
      BY <3>1, <1>a DEF SendersOK
  <2>2. CASE m_stage # "ALIVE"
    <3>1. /\ UNCHANGED <<m_stage, pc, sending>>
          /\ \A u \in Senders : sending[u] # m
          /\ \A n \in Messages : n # m => returned'[n] = returned[n]
      BY <1>2, <2>2, <1>c DEF Send
    <3> QED
      BY <3>1, <1>a, <1>c DEF SendersOK
  <2> QED
    BY <2>1, <2>2
<1>3. ASSUME NEW t \in Senders, NEW result \in Results, Return(t, result), UNCHANGED m_stage,
             sending[t] \in Messages
      PROVE  SendersOK'
  <2>1. /\ \A u \in Senders : pc'[u] = IF u = t THEN "idle" ELSE pc[u]
        /\ \A u \in Senders : sending'[u] = IF u = t THEN NoMessage ELSE sending[u]
        /\ \A n \in Messages : n # sending[t] => returned'[n] = returned[n]
    BY <1>3, <1>b, <1>c DEF Return, Goto
  <2>2. \A u \in Senders : u # t => sending[u] # sending[t]
    BY <1>3, <1>a, <1>b DEF SendersOK
  <2> QED
    BY <2>1, <2>2, <1>a, <1>3 DEF SendersOK
<1>4. ASSUME NEW t \in Senders, SendNow(t) \/ SendLater(t) \/ SendReturnsDead(t) PROVE SendersOK'
  <2>1. sending[t] \in Messages
    BY <1>4, <1>a DEF SendersOK, SendNow, SendLater, SendReturnsDead
  <2>2. \E result \in Results : Return(t, result)
    BY <1>4 DEF SendNow, SendLater, SendReturnsDead, Results
  <2>3. UNCHANGED m_stage
    BY <1>4 DEF SendNow, SendLater, SendReturnsDead
  <2> QED
    BY <1>3, <2>1, <2>2, <2>3
<1>5. ASSUME NEW t \in Senders, SendFails(t) PROVE SendersOK'
  <2>1. /\ UNCHANGED <<m_stage, sending, returned>>
        /\ pc[t] = "locking"
        /\ \A u \in Senders : pc'[u] = IF u = t THEN "dying" ELSE pc[u]
    BY <1>5, <1>b, <1>c DEF SendFails, Goto
  <2> QED
    BY <2>1, <1>a DEF SendersOK
<1>6. ASSUME UNCHANGED <<sending, returned>>, m_stage = "DEAD" => m_stage' = "DEAD",
             \A u \in Senders : pc'[u] = pc[u]
      PROVE  SendersOK'
  BY <1>6, <1>a DEF SendersOK
<1>7. ASSUME ToDead(Worker) PROVE SendersOK'
  BY <1>6, <1>7, <1>b, <1>c DEF ToDead, LoadStage, StoreStage, OnDead, Goto
<1>8. ASSUME StartRetry \/ RetryChecksStage \/ RetryAgain \/ RetryEmpty \/ FinishRetry \/ ReceiveFails
      PROVE  SendersOK'
  BY <1>6, <1>8, <1>b, <1>c
     DEF StartRetry, RetryChecksStage, RetryAgain, RetryEmpty, FinishRetry, ReceiveFails, Goto
<1>9. ASSUME Retry \/ Notify PROVE SendersOK'
  <2>1. \E label \in Labels : Goto(Worker, label)
    BY <1>9 DEF Retry, Notify, Settle, Labels
  <2>2. \A u \in Senders : pc'[u] = pc[u]
    BY <2>1, <1>b, <1>c DEF Goto
  <2>3. UNCHANGED <<sending, returned, m_stage>>
    BY <1>9 DEF Retry, Notify
  <2> QED
    BY <1>6, <2>2, <2>3
<1>10. ASSUME RecipientsChange \/ UNCHANGED vars PROVE SendersOK'
  BY <1>6, <1>10 DEF RecipientsChange, vars
<1> QED
  BY <1>1, <1>2, <1>4, <1>5, <1>7, <1>8, <1>9, <1>10 DEF Next, Sender, WorkerStep

\* The worker has a result to report exactly while it is about to, and the queue is
\* not shortened by anybody else.
LEMMA WorkerStepOK == IInv /\ [Next]_vars => WorkerOK'
<1> SUFFICES ASSUME IInv, [Next]_vars PROVE WorkerOK'
  OBVIOUS
<1>a. WorkerOK /\ TypeOK /\ m_pending_messages \in Seq(Messages)
  BY DEF IInv, TypeOK
<1>b. Worker \notin Senders /\ Worker \in Threads /\ Senders \subseteq Threads
  BY WorkerAssumption DEF Threads
<1>c. pc \in [Threads -> Labels]
  BY <1>a DEF TypeOK, Labels
<1>1. ASSUME pc'[Worker] = pc[Worker], UNCHANGED <<notify, m_pending_messages>>,
             m_stage = "DEAD" => m_stage' = "DEAD"
      PROVE  WorkerOK'
  BY <1>1, <1>a DEF WorkerOK, Front
<1>2. ASSUME NEW t \in Senders, ToDead(t) PROVE WorkerOK'
  BY <1>1, <1>2, <1>b, <1>c DEF ToDead, LoadStage, StoreStage, OnDead, Goto, worker
<1>3. ASSUME NEW t \in Senders, \/ SendNow(t) \/ SendFails(t) \/ SendReturnsDead(t)
                               \/ \E m \in Messages : Send(t, m)
      PROVE  WorkerOK'
  BY <1>1, <1>3, <1>b, <1>c DEF Send, SendNow, SendFails, SendReturnsDead, Goto, Return, worker
<1>4. ASSUME NEW t \in Senders, SendLater(t) PROVE WorkerOK'
  <2>1. m_pending_messages' = Append(m_pending_messages, sending[t]) /\ sending[t] \in Messages
    BY <1>4 DEF SendLater, IInv, SendersOK
  <2>2. m_pending_messages # <<>> => m_pending_messages' # <<>> /\ Front' = Front
    BY <2>1, <1>a DEF Front
  <2>3. pc'[Worker] = pc[Worker] /\ UNCHANGED <<notify, m_stage>>
    BY <1>4, <1>b, <1>c DEF SendLater, Return, Goto, worker
  <2> QED
    BY <2>2, <2>3, <1>a DEF WorkerOK
<1>5. ASSUME ToDead(Worker) PROVE WorkerOK'
  <2>1. /\ UNCHANGED <<notify, m_pending_messages>>
        /\ pc[Worker] \in {"dying", "storing", "closing"}
        /\ pc'[Worker] \in {"storing", "closing", "retried", "idle"}
        /\ pc'[Worker] = "closing" => m_stage' = "DEAD"
    BY <1>5, <1>b, <1>c DEF ToDead, LoadStage, StoreStage, OnDead, Goto, AfterDeath, worker
  <2> QED
    BY <2>1, <1>a DEF WorkerOK, Front
<1>6. ASSUME StartRetry \/ RetryChecksStage \/ RetryAgain \/ RetryEmpty \/ FinishRetry \/ ReceiveFails
      PROVE  WorkerOK'
  <2>1. /\ UNCHANGED <<notify, m_pending_messages, m_stage>>
        /\ pc[Worker] # "notify"
        /\ pc'[Worker] \in {"idle", "retry", "retrying", "retried", "undefined", "dying"}
    BY <1>6, <1>b, <1>c
       DEF StartRetry, RetryChecksStage, RetryAgain, RetryEmpty, FinishRetry, ReceiveFails, Goto, worker
  <2> QED
    BY <2>1, <1>a DEF WorkerOK, Front
<1>7. ASSUME Retry PROVE WorkerOK'
  <2>1. PICK result \in {"SENT", "RECIPIENT_AWAY", "SOCKET_DEAD"} : Settle(result)
    BY <1>7 DEF Retry
  <2>2. m_pending_messages # <<>> /\ pc[Worker] = "retrying" /\ UNCHANGED m_stage
    BY <1>7 DEF Retry
  <2>3. CASE Front \in Notified
    <3>1. /\ notify' = result /\ pc'[Worker] = "notify" /\ UNCHANGED m_pending_messages
      BY <2>1, <2>3, <1>b, <1>c DEF Settle, Goto
    <3> QED
      BY <3>1, <2>2, <2>3, <1>a DEF WorkerOK, Front
  <2>4. CASE Front \notin Notified
    <3>1. UNCHANGED notify /\ pc'[Worker] \in {"dying", "retry"}
      BY <2>1, <2>4, <1>b, <1>c DEF Settle, Goto
    <3> QED
      BY <3>1, <2>2, <1>a DEF WorkerOK
  <2> QED
    BY <2>3, <2>4
<1>8. ASSUME Notify PROVE WorkerOK'
  <2>1. notify' = "none" /\ pc'[Worker] \in {"dying", "retry"}
    BY <1>8, <1>b, <1>c DEF Notify, Goto
  <2> QED
    BY <2>1 DEF WorkerOK
<1>9. ASSUME RecipientsChange \/ UNCHANGED vars PROVE WorkerOK'
  BY <1>1, <1>9 DEF RecipientsChange, vars, worker
<1> QED
  BY <1>2, <1>3, <1>4, <1>5, <1>6, <1>7, <1>8, <1>9 DEF Next, Sender, WorkerStep

-----------------------------------------------------------------------------
(* The queue and what was reported.                                        *)

\* Front, in the way the other invariants speak of the queue.
LEMMA FrontIsFirst ==
    ASSUME IInv, m_pending_messages # <<>>
    PROVE  /\ Front = m_pending_messages[1] /\ Front \in Messages
           /\ Len(m_pending_messages) \in Nat /\ Len(m_pending_messages) >= 1
           /\ Tail(m_pending_messages) \in Seq(Messages)
           /\ Len(Tail(m_pending_messages)) = Len(m_pending_messages) - 1
           /\ \A i \in 1 .. Len(m_pending_messages) - 1 :
                  Tail(m_pending_messages)[i] = m_pending_messages[i + 1]
BY DEF IInv, TypeOK, Front

\* A message is queued at one of the positions of the queue.
LEMMA QueuedAt ==
    ASSUME IInv, NEW m
    PROVE  Queued(m) <=> \E i \in 1 .. Len(m_pending_messages) : m_pending_messages[i] = m
BY DEF IInv, TypeOK, Queued

(* What a step does to the messages is one of five things.                 *)

Final == {"SENT", "RECIPIENT_AWAY", "SOCKET_DEAD"}

DeliverIf(m, r) == IF r = "SENT" THEN Deliver(m) ELSE UNCHANGED delivered

\* send() returns a result that is not delayed.
Decided(m, r) ==
    /\ returned[m] = "none"
    /\ returned' = [returned EXCEPT ![m] = r]
    /\ DeliverIf(m, r)
    /\ r = "SOCKET_DEAD" => m_stage # "ALIVE"
    /\ UNCHANGED <<m_pending_messages, reported, notify, m_stage>>
    /\ pc'[Worker] = pc[Worker]

\* send() queues the message.
Delayed(m) ==
    /\ returned[m] = "none"
    /\ returned' = [returned EXCEPT ![m] = "DELAYED_RESULT"]
    /\ m_pending_messages' = Append(m_pending_messages, m)
    /\ UNCHANGED <<delivered, reported, notify, m_stage>>
    /\ pc'[Worker] = pc[Worker]

\* The kernel decides on the front of the queue.
Settled(r) ==
    /\ m_pending_messages # <<>> /\ notify = "none" /\ pc[Worker] = "retrying"
    /\ DeliverIf(Front, r)
    /\ Settle(r)
    /\ UNCHANGED <<returned, reported, m_stage>>

Told ==
    /\ m_pending_messages # <<>> /\ notify # "none"
    /\ Notify

Quiet ==
    /\ UNCHANGED <<m_pending_messages, returned, reported, notify, delivered>>
    /\ m_stage' = m_stage \/ m_stage' = "DEAD"
    /\ Doomed => Doomed'

Effect ==
    \/ \E m \in Messages, r \in Final : Decided(m, r)
    \/ \E m \in Messages : Delayed(m)
    \/ \E r \in Final : Settled(r)
    \/ Told
    \/ Quiet

\* Every step has one of the effects.
LEMMA StepEffect == IInv /\ [Next]_vars => Effect
<1> SUFFICES ASSUME IInv, [Next]_vars PROVE Effect
  OBVIOUS
<1>a. SendersOK /\ WorkerOK /\ TypeOK
  BY DEF IInv
<1>b. Worker \notin Senders /\ Worker \in Threads /\ Senders \subseteq Threads
  BY WorkerAssumption DEF Threads
<1>c. pc \in [Threads -> Labels]
  BY <1>a DEF TypeOK, Labels
<1>1. ASSUME UNCHANGED <<m_pending_messages, returned, reported, notify, delivered>>,
             pc'[Worker] = pc[Worker], m_stage' = m_stage \/ m_stage' = "DEAD"
      PROVE  Effect
  BY <1>1 DEF Effect, Quiet, Doomed
<1>2. ASSUME NEW t \in Senders, ToDead(t) \/ SendFails(t) PROVE Effect
  <2>1. pc'[Worker] = pc[Worker]
    BY <1>2, <1>b, <1>c DEF ToDead, LoadStage, StoreStage, OnDead, SendFails, Goto
  <2>2. m_stage' = m_stage \/ m_stage' = "DEAD"
    BY <1>2 DEF ToDead, LoadStage, StoreStage, OnDead, SendFails
  <2>3. UNCHANGED <<m_pending_messages, returned, reported, notify, delivered>>
    BY <1>2 DEF ToDead, LoadStage, StoreStage, OnDead, SendFails, worker
  <2> QED
    BY <1>1, <2>1, <2>2, <2>3
<1>3. ASSUME NEW t \in Senders, NEW m \in Messages, Send(t, m) PROVE Effect
  <2>1. CASE m_stage = "ALIVE"
    BY <1>1, <1>3, <2>1, <1>b, <1>c DEF Send, Goto, worker
  <2>2. CASE m_stage # "ALIVE"
    <3>1. Decided(m, "SOCKET_DEAD")
      BY <1>3, <2>2 DEF Send, Decided, DeliverIf, worker
    <3> QED
      BY <3>1 DEF Effect, Final
  <2> QED
    BY <2>1, <2>2
<1>4. ASSUME NEW t \in Senders, NEW r, Return(t, r), UNCHANGED m_stage, pc[t] # "idle"
      PROVE  /\ sending[t] \in Messages /\ returned[sending[t]] = "none"
             /\ returned' = [returned EXCEPT ![sending[t]] = r]
             /\ pc'[Worker] = pc[Worker]
  BY <1>4, <1>a, <1>b, <1>c DEF Return, Goto, SendersOK
<1>5. ASSUME NEW t \in Senders, SendNow(t) PROVE Effect
  <2> DEFINE m == sending[t]
  <2>1. pc[t] # "idle" /\ UNCHANGED <<m_pending_messages, reported, notify, m_stage>>
    BY <1>5 DEF SendNow, worker
  <2>2. CASE Deliver(m) /\ Return(t, "SENT")
    <3>1. Decided(m, "SENT") /\ m \in Messages
      BY <2>1, <2>2, <1>4 DEF Decided, DeliverIf
    <3> QED
      BY <3>1 DEF Effect, Final
  <2>3. CASE UNCHANGED delivered /\ Return(t, "RECIPIENT_AWAY")
    <3>1. Decided(m, "RECIPIENT_AWAY") /\ m \in Messages
      BY <2>1, <2>3, <1>4 DEF Decided, DeliverIf
    <3> QED
      BY <3>1 DEF Effect, Final
  <2> QED
    BY <1>5, <2>2, <2>3 DEF SendNow
<1>6. ASSUME NEW t \in Senders, SendLater(t) PROVE Effect
  <2> DEFINE m == sending[t]
  <2>1. pc[t] # "idle" /\ UNCHANGED <<delivered, reported, notify, m_stage>>
        /\ Return(t, "DELAYED_RESULT") /\ m_pending_messages' = Append(m_pending_messages, m)
    BY <1>6 DEF SendLater, worker
  <2>2. Delayed(m) /\ m \in Messages
    BY <2>1, <1>4 DEF Delayed
  <2> QED
    BY <2>2 DEF Effect
<1>7. ASSUME NEW t \in Senders, SendReturnsDead(t) PROVE Effect
  <2> DEFINE m == sending[t]
  <2>1. pc[t] = "dead" /\ UNCHANGED <<m_pending_messages, delivered, reported, notify, m_stage>>
        /\ Return(t, "SOCKET_DEAD")
    BY <1>7 DEF SendReturnsDead, worker
  <2>2. m_stage # "ALIVE"
    BY <2>1, <1>a DEF SendersOK
  <2>3. Decided(m, "SOCKET_DEAD") /\ m \in Messages
    BY <2>1, <2>2, <1>4 DEF Decided, DeliverIf
  <2> QED
    BY <2>3 DEF Effect, Final
<1>8. ASSUME ToDead(Worker) PROVE Effect
  <2>1. UNCHANGED <<m_pending_messages, returned, reported, notify, delivered>>
    BY <1>8 DEF ToDead, LoadStage, StoreStage, OnDead, worker
  <2>2. m_stage' = m_stage \/ m_stage' = "DEAD"
    BY <1>8 DEF ToDead, LoadStage, StoreStage, OnDead
  <2>3. Doomed => Doomed'
    BY <1>8, <1>a, <1>b, <1>c
       DEF ToDead, LoadStage, StoreStage, OnDead, Goto, AfterDeath, Doomed, WorkerOK
  <2> QED
    BY <2>1, <2>2, <2>3 DEF Effect, Quiet
<1>9. ASSUME StartRetry \/ RetryChecksStage \/ RetryAgain \/ RetryEmpty \/ FinishRetry \/ ReceiveFails
      PROVE  Effect
  <2>1. UNCHANGED <<m_pending_messages, returned, reported, notify, delivered, m_stage>>
    BY <1>9 DEF StartRetry, RetryChecksStage, RetryAgain, RetryEmpty, FinishRetry, ReceiveFails, worker
  <2>2. Doomed => Doomed'
    BY <1>9, <1>a, <1>b, <1>c, <2>1
       DEF StartRetry, RetryChecksStage, RetryAgain, RetryEmpty, FinishRetry, ReceiveFails, Goto, Doomed,
           TypeOK
  <2> QED
    BY <2>1, <2>2 DEF Effect, Quiet
<1>10. ASSUME Retry PROVE Effect
  <2>1. m_pending_messages # <<>> /\ notify = "none" /\ pc[Worker] = "retrying"
        /\ UNCHANGED <<returned, reported, m_stage>>
    BY <1>10, <1>a DEF Retry, WorkerOK
  <2>2. \E r \in Final : DeliverIf(Front, r) /\ Settle(r)
    BY <1>10 DEF Retry, Final, DeliverIf
  <2> QED
    BY <2>1, <2>2 DEF Effect, Settled
<1>11. ASSUME Notify PROVE Effect
  <2>1. m_pending_messages # <<>> /\ notify # "none"
    BY <1>11, <1>a DEF Notify, WorkerOK
  <2> QED
    BY <1>11, <2>1 DEF Effect, Told
<1>12. ASSUME RecipientsChange \/ UNCHANGED vars PROVE Effect
  BY <1>1, <1>12 DEF RecipientsChange, vars, worker
<1> QED
  BY <1>2, <1>3, <1>5, <1>6, <1>7, <1>8, <1>9, <1>10, <1>11, <1>12 DEF Next, Sender, WorkerStep

\* What is said of messages: the part of the invariant the effects may disturb.
MessagesOK == QueueOK /\ FrontOK /\ HistoryOK /\ DelayedResultsKept

\* The types of what the effects change.
LEMMA HistoryTypes ==
    ASSUME IInv
    PROVE  /\ returned \in [Messages -> Results \cup {"none"}]
           /\ reported \in [Messages -> Seq(Results)]
           /\ delivered \in [Messages -> Nat]
           /\ m_pending_messages \in Seq(Messages)
           /\ Len(m_pending_messages) \in Nat
           /\ \A i \in 1 .. Len(m_pending_messages) : m_pending_messages[i] \in Messages
BY DEF IInv, TypeOK

\* A delivery counts for one message.
LEMMA DeliverIfFields ==
    ASSUME IInv, NEW m \in Messages, NEW r, DeliverIf(m, r)
    PROVE  /\ \A n \in Messages \ {m} : delivered'[n] = delivered[n]
           /\ r = "SENT" => delivered'[m] = delivered[m] + 1
           /\ r # "SENT" => delivered'[m] = delivered[m]
           /\ DOMAIN delivered' = Messages
BY HistoryTypes DEF DeliverIf, Deliver

\* A message that is sent or refused at once does not touch the queue.
LEMMA DecidedKeeps ==
    ASSUME IInv, NEW m \in Messages, NEW r \in Final, Decided(m, r)
    PROVE  MessagesOK'
<1>a. QueueOK /\ FrontOK /\ HistoryOK /\ DelayedResultsKept
  BY DEF IInv
<1>1. UNCHANGED <<m_pending_messages, reported, notify>> /\ (Doomed <=> Doomed')
  BY DEF Decided, Doomed
<1>2. /\ \A n \in Messages \ {m} : returned'[n] = returned[n] /\ delivered'[n] = delivered[n]
      /\ returned[m] = "none" /\ returned'[m] = r /\ r \notin {"none", "DELAYED_RESULT"}
  BY HistoryTypes, DeliverIfFields DEF Decided, Final
<1>3. \A i \in 1 .. Len(m_pending_messages) : m_pending_messages[i] \in Messages \ {m}
  BY <1>2, <1>a, HistoryTypes DEF QueueOK
<1>4. QueueOK'
  BY <1>1, <1>2, <1>3, <1>a DEF QueueOK
<1>5. FrontOK'
  BY <1>1, <1>a DEF FrontOK, Front
<1>6. HistoryOK'
  BY <1>1, <1>2, <1>a DEF HistoryOK
<1>7. DelayedResultsKept'
  BY <1>1, <1>2, <1>a DEF DelayedResultsKept, Queued
<1> QED
  BY <1>4, <1>5, <1>6, <1>7 DEF MessagesOK

\* A delayed message is the last of the queue.
LEMMA DelayedKeeps ==
    ASSUME IInv, NEW m \in Messages, Delayed(m)
    PROVE  MessagesOK'
<1> DEFINE q == m_pending_messages
<1>a. QueueOK /\ FrontOK /\ HistoryOK /\ DelayedResultsKept
  BY DEF IInv
<1>1. UNCHANGED <<delivered, reported, notify>> /\ (Doomed <=> Doomed')
  BY DEF Delayed, Doomed
<1>2. /\ \A n \in Messages \ {m} : returned'[n] = returned[n]
      /\ returned[m] = "none" /\ returned'[m] = "DELAYED_RESULT"
      /\ reported[m] = <<>> /\ delivered[m] = 0
  BY HistoryTypes, <1>a DEF Delayed, HistoryOK
<1>3. /\ Len(q) \in Nat /\ Len(q') = Len(q) + 1
      /\ \A i \in 1 .. Len(q) : q'[i] = q[i] /\ q[i] \in Messages \ {m}
      /\ q'[Len(q) + 1] = m
  BY SMTT(30), <1>2, <1>a, HistoryTypes DEF QueueOK, Delayed
<1> HIDE DEF q
<1>4. QueueOK'
  <2>1. \A i, j \in 1 .. Len(q) : q[i] = q[j] => i = j
    BY <1>a DEF QueueOK, q
  <2>2. \A i, j \in 1 .. Len(q') : q'[i] = q'[j] => i = j
    BY <1>3, <2>1
  <2>3. \A i \in 1 .. Len(q) :
            /\ returned[q[i]] = "DELAYED_RESULT"
            /\ reported[q[i]] # <<>> => i = 1
            /\ delivered[q[i]] > 0 => i = 1 /\ notify = "SENT"
    BY <1>a DEF QueueOK, q
  <2>4. \A i \in 1 .. Len(q') :
            /\ returned'[q'[i]] = "DELAYED_RESULT"
            /\ reported'[q'[i]] # <<>> => i = 1
            /\ delivered'[q'[i]] > 0 => i = 1 /\ notify' = "SENT"
    <3> TAKE i \in 1 .. Len(q')
    <3>1. CASE i = Len(q) + 1
      BY <3>1, <1>1, <1>2, <1>3
    <3>2. CASE i \in 1 .. Len(q)
      BY <3>2, <1>1, <1>2, <1>3, <2>3
    <3> QED
      BY <3>1, <3>2, <1>3
  <2> QED
    BY <2>2, <2>4 DEF QueueOK, q
<1>5. FrontOK'
  <2>1. CASE m_pending_messages = <<>>
    <3>1. m_pending_messages' = <<m>>
      BY <2>1 DEF Delayed
    <3> QED
      BY <3>1, <1>1, <1>2 DEF FrontOK, Front
  <2>2. CASE m_pending_messages # <<>>
    <3>1. Front' = Front
      BY <2>2, HistoryTypes DEF Delayed, Front
    <3> QED
      BY <2>2, <3>1, <1>1, <1>a DEF FrontOK
  <2> QED
    BY <2>1, <2>2
<1>6. HistoryOK'
  BY <1>1, <1>2, <1>a DEF HistoryOK
<1>7. DelayedResultsKept'
  <2>0. q' \in Seq(Messages) /\ DOMAIN q' = 1 .. Len(q) + 1
    BY <1>3, HistoryTypes DEF q, Delayed
  <2>1. \A n \in Messages : Queued(n) => Queued(n)'
    <3> TAKE n \in Messages
    <3> SUFFICES ASSUME NEW i \in 1 .. Len(q), q[i] = n PROVE Queued(n)'
      BY QueuedAt DEF q
    <3>1. i \in DOMAIN q' /\ q'[i] = n
      BY <1>3, <2>0
    <3> QED
      BY <3>1 DEF Queued, q
  <2>2. Queued(m)'
    <3>1. Len(q) + 1 \in DOMAIN q'
      BY <1>3, <2>0
    <3> QED
      BY <3>1, <1>3 DEF Queued, q
  <2> QED
    BY <2>1, <2>2, <1>1, <1>2, <1>a DEF DelayedResultsKept
<1> QED
  BY <1>4, <1>5, <1>6, <1>7 DEF MessagesOK

\* What is popped is the first message: the others move up.
LEMMA PopKeeps ==
    ASSUME IInv, m_pending_messages # <<>>, m_pending_messages' = Tail(m_pending_messages),
           UNCHANGED returned, Front \notin Notified \/ reported'[Front] # <<>>,
           \A n \in Messages \ {Front} : reported'[n] = reported[n] /\ delivered'[n] = delivered[n],
           HistoryOK'
    PROVE  MessagesOK'
<1> DEFINE q == m_pending_messages
           k == Len(q)
<1>a. QueueOK /\ DelayedResultsKept
  BY DEF IInv
<1>1. /\ k \in Nat /\ k >= 1 /\ Len(q') = k - 1 /\ q[1] = Front /\ Front \in Messages
      /\ \A i \in 1 .. k - 1 : q'[i] = q[i + 1]
      /\ \A i \in 1 .. k : q[i] \in Messages
  BY FrontIsFirst, HistoryTypes
<1>2. /\ \A i, j \in 1 .. k : q[i] = q[j] => i = j
      /\ \A i \in 1 .. k :
             /\ returned[q[i]] = "DELAYED_RESULT"
             /\ reported[q[i]] # <<>> => i = 1
             /\ delivered[q[i]] > 0 => i = 1 /\ notify = "SENT"
  BY <1>a DEF QueueOK
<1>3. \A n \in Messages \ {Front} : (\E i \in 1 .. k : q[i] = n) => \E i \in 1 .. k - 1 : q'[i] = n
  <2> TAKE n \in Messages \ {Front}
  <2> SUFFICES ASSUME NEW i \in 1 .. k, q[i] = n PROVE \E j \in 1 .. k - 1 : q'[j] = n
    OBVIOUS
  <2>1. i - 1 \in 1 .. k - 1 /\ q'[i - 1] = n
    BY <1>1
  <2> QED
    BY <2>1
<1> HIDE DEF q, k
<1>4. \A i \in 1 .. k - 1 : /\ i + 1 \in 1 .. k /\ q'[i] = q[i + 1]
                           /\ q'[i] \in Messages \ {Front}
  <2> TAKE i \in 1 .. k - 1
  <2>1. i + 1 \in 1 .. k /\ 1 \in 1 .. k /\ i + 1 # 1
    BY <1>1
  <2> QED
    BY <1>1, <1>2, <2>1
<1>5. QueueOK'
  <2>1. \A i, j \in 1 .. k - 1 : q'[i] = q'[j] => i = j
    BY SMTT(30), <1>1, <1>2, <1>4
  <2>2. \A i \in 1 .. k - 1 :
            /\ returned'[q'[i]] = "DELAYED_RESULT"
            /\ reported'[q'[i]] = <<>>
            /\ ~(delivered'[q'[i]] > 0)
    <3> TAKE i \in 1 .. k - 1
    <3>1. i + 1 \in 1 .. k /\ i + 1 # 1
      BY <1>1
    <3>2. returned[q[i + 1]] = "DELAYED_RESULT" /\ reported[q[i + 1]] = <<>> /\ ~(delivered[q[i + 1]] > 0)
      BY <1>2, <3>1
    <3> QED
      BY <1>4, <3>2
  <2> QED
    BY <1>1, <2>1, <2>2 DEF QueueOK, q
<1>6. FrontOK'
  <2> SUFFICES ASSUME m_pending_messages' # <<>> PROVE reported'[Front'] = <<>>
    BY DEF FrontOK
  <2>1. k - 1 >= 1 /\ Front' = q'[1]
    BY <1>1, HistoryTypes DEF q, k, Front
  <2>2. 1 \in 1 .. k - 1 /\ 2 \in 1 .. k
    BY <2>1, <1>1
  <2>3. q'[1] = q[2] /\ q[2] \in Messages \ {Front} /\ reported[q[2]] = <<>>
    BY <2>2, <1>1, <1>2, <1>4
  <2> QED
    BY <2>1, <2>3
<1>7. DelayedResultsKept'
  <2>1. \A n \in Messages : Queued(n) <=> \E i \in 1 .. k : q[i] = n
    BY QueuedAt DEF q, k
  <2>2. \A n \in Messages : Queued(n)' <=> \E i \in 1 .. k - 1 : q'[i] = n
    <3>1. m_pending_messages' \in Seq(Messages)
      BY FrontIsFirst
    <3>2. DOMAIN m_pending_messages' = 1 .. k - 1
      BY <1>1, <3>1 DEF q
    <3> QED
      BY <3>2 DEF Queued, q
  <2>3. \A n \in Messages : Len(reported'[n]) <= 1
    <3> TAKE n \in Messages
    <3>1. CASE reported'[n] = <<>>
      BY <3>1
    <3>2. CASE reported'[n] # <<>>
      <4>1. Len(reported'[n]) = 1
        BY Zenon, <3>2 DEF HistoryOK
      <4> QED
        BY <4>1
    <3> QED
      BY <3>1, <3>2
  <2>4. ASSUME NEW n \in Messages, n \in Notified, returned'[n] = "DELAYED_RESULT", reported'[n] = <<>>
        PROVE  Queued(n)'
    <3>1. n # Front /\ reported[n] = <<>> /\ returned[n] = "DELAYED_RESULT"
      BY <2>4
    <3> QED
      BY <3>1, <2>1, <2>2, <2>4, <1>3, <1>a DEF DelayedResultsKept
  <2> QED
    BY <2>3, <2>4 DEF DelayedResultsKept
<1> QED
  BY <1>5, <1>6, <1>7 DEF MessagesOK

\* While the worker retries, nobody was told of the front and it was not delivered.
LEMMA FrontOpen ==
    ASSUME IInv, m_pending_messages # <<>>
    PROVE  /\ returned[Front] = "DELAYED_RESULT"
           /\ pc[Worker] \in {"retrying", "notify"} => reported[Front] = <<>>
           /\ notify # "SENT" => delivered[Front] = 0
<1>1. Front = m_pending_messages[1] /\ Front \in Messages /\ 1 \in 1 .. Len(m_pending_messages)
  BY FrontIsFirst
<1>2. returned[Front] = "DELAYED_RESULT" /\ (delivered[Front] > 0 => notify = "SENT")
  BY <1>1 DEF IInv, QueueOK
<1>3. delivered[Front] \in Nat
  BY <1>1, HistoryTypes
<1>4. pc[Worker] \in {"retrying", "notify"} => reported[Front] = <<>>
  BY DEF IInv, FrontOK, Doomed
<1> QED
  BY <1>2, <1>3, <1>4

\* The verdict on the front of the queue is known before it is reported.
LEMMA SettledKeeps ==
    ASSUME IInv, NEW r \in Final, Settled(r)
    PROVE  MessagesOK'
<1>a. QueueOK /\ HistoryOK /\ DelayedResultsKept /\ pc \in [Threads -> Labels] /\ Worker \in Threads
  BY DEF IInv, TypeOK, Labels, Threads
<1>1. /\ m_pending_messages # <<>> /\ notify = "none" /\ pc[Worker] = "retrying"
      /\ UNCHANGED <<returned, reported, m_stage>>
  BY DEF Settled
<1>2. Front \in Messages /\ Front = m_pending_messages[1] /\ Len(m_pending_messages) \in Nat
      /\ Len(m_pending_messages) >= 1
  BY <1>1, FrontIsFirst
<1>3. returned[Front] = "DELAYED_RESULT" /\ reported[Front] = <<>> /\ delivered[Front] = 0
  BY <1>1, FrontOpen
<1>4. /\ \A n \in Messages \ {Front} : delivered'[n] = delivered[n]
      /\ r # "SENT" => delivered'[Front] = 0
  BY <1>2, <1>3, DeliverIfFields DEF Settled
<1>5. HistoryOK'
  BY <1>1, <1>3, <1>4, <1>a DEF HistoryOK
<1>6. ASSUME UNCHANGED m_pending_messages, notify' = r \/ r # "SENT" PROVE MessagesOK'
  <2>1. \A i \in 1 .. Len(m_pending_messages) :
            delivered'[m_pending_messages[i]] > 0 => i = 1 /\ notify' = "SENT"
    <3> TAKE i \in 1 .. Len(m_pending_messages)
    <3>1. CASE m_pending_messages[i] = Front
      <4>1. 1 \in 1 .. Len(m_pending_messages)
        BY <1>2
      <4>2. i = 1
        BY <3>1, <4>1, <1>2, <1>a DEF QueueOK
      <4> QED
        BY <3>1, <4>2, <1>4, <1>6
    <3>2. CASE m_pending_messages[i] # Front
      <4>1. m_pending_messages[i] \in Messages \ {Front} /\ i # 1
        BY <3>2, <1>2, HistoryTypes
      <4> QED
        BY <4>1, <1>4, <1>a DEF QueueOK
    <3> QED
      BY <3>1, <3>2
  <2>2. QueueOK'
    BY <1>6, <2>1, <1>1, <1>a DEF QueueOK
  <2>3. FrontOK'
    BY <1>6, <1>1, <1>3 DEF FrontOK, Front
  <2>4. DelayedResultsKept'
    BY <1>6, <1>1, <1>a DEF DelayedResultsKept, Queued
  <2> QED
    BY <1>5, <2>2, <2>3, <2>4 DEF MessagesOK
<1>7. CASE Front \in Notified
  BY <1>6, <1>7 DEF Settled, Settle
<1>8. CASE Front \notin Notified /\ r = "SOCKET_DEAD"
  BY <1>6, <1>8 DEF Settled, Settle
<1>9. CASE Front \notin Notified /\ r # "SOCKET_DEAD"
  <2>1. m_pending_messages' = Tail(m_pending_messages)
    BY <1>9 DEF Settled, Settle
  <2> QED
    BY <2>1, <1>1, <1>4, <1>5, <1>9, PopKeeps
<1> QED
  BY <1>7, <1>8, <1>9

\* The front leaves the queue when it is reported.
LEMMA ToldKeeps ==
    ASSUME IInv, Told
    PROVE  MessagesOK'
<1>a. QueueOK /\ HistoryOK /\ DelayedResultsKept /\ pc \in [Threads -> Labels] /\ Worker \in Threads
  BY DEF IInv, TypeOK, Labels, Threads
<1>1. /\ m_pending_messages # <<>> /\ notify' = "none" /\ pc[Worker] = "notify"
      /\ UNCHANGED <<returned, delivered, m_stage>>
      /\ reported' = [reported EXCEPT ![Front] = Append(@, notify)]
  BY DEF Told, Notify
<1>2. Front \in Messages /\ Front = m_pending_messages[1] /\ Len(m_pending_messages) \in Nat
      /\ Len(m_pending_messages) >= 1
  BY <1>1, FrontIsFirst
<1>3. returned[Front] = "DELAYED_RESULT" /\ reported[Front] = <<>>
  BY <1>1, FrontOpen
<1>4. /\ \A n \in Messages \ {Front} : reported'[n] = reported[n]
      /\ reported'[Front] = <<notify>> /\ reported'[Front] # <<>> /\ Len(reported'[Front]) = 1
  BY <1>1, <1>2, <1>3, HistoryTypes
<1>5. HistoryOK'
  BY <1>1, <1>2, <1>3, <1>4, <1>a DEF HistoryOK
<1>6. CASE notify = "SOCKET_DEAD"
  <2>1. pc'[Worker] = "dying" /\ UNCHANGED m_pending_messages
    BY <1>6, <1>a DEF Told, Notify, Goto
  <2>2. \A i \in 1 .. Len(m_pending_messages) :
            /\ reported'[m_pending_messages[i]] # <<>> => i = 1
            /\ delivered'[m_pending_messages[i]] > 0 => i = 1 /\ notify' = "SENT"
    <3> TAKE i \in 1 .. Len(m_pending_messages)
    <3>1. ~(delivered'[m_pending_messages[i]] > 0)
      BY <1>1, <1>6, <1>a DEF QueueOK
    <3>2. CASE m_pending_messages[i] = Front
      <4>1. 1 \in 1 .. Len(m_pending_messages)
        BY <1>2
      <4>2. i = 1
        BY <3>2, <4>1, <1>2, <1>a DEF QueueOK
      <4> QED
        BY <3>1, <4>2
    <3>3. CASE m_pending_messages[i] # Front
      <4>1. reported'[m_pending_messages[i]] = reported[m_pending_messages[i]]
        BY <3>3, <1>4, HistoryTypes
      <4> QED
        BY <3>1, <4>1, <1>a DEF QueueOK
    <3> QED
      BY <3>2, <3>3
  <2>3. QueueOK'
    BY <2>1, <2>2, <1>1, <1>a DEF QueueOK
  <2>4. FrontOK'
    BY <2>1 DEF FrontOK, Doomed
  <2>5. DelayedResultsKept'
    <3>1. \A n \in Messages : Queued(n) <=> Queued(n)'
      BY <2>1 DEF Queued
    <3> QED
      BY <3>1, <1>1, <1>4, <1>a DEF DelayedResultsKept
  <2> QED
    BY <1>5, <2>3, <2>4, <2>5 DEF MessagesOK
<1>7. CASE notify # "SOCKET_DEAD"
  <2>1. m_pending_messages' = Tail(m_pending_messages)
    BY <1>7 DEF Told, Notify
  <2> QED
    BY <2>1, <1>1, <1>4, <1>5, PopKeeps
<1> QED
  BY <1>6, <1>7

\* Nothing the senders can see changes.
LEMMA QuietKeeps ==
    ASSUME IInv, Quiet
    PROVE  MessagesOK'
<1>a. QueueOK /\ FrontOK /\ HistoryOK /\ DelayedResultsKept
  BY DEF IInv
<1>1. UNCHANGED <<m_pending_messages, returned, reported, notify, delivered>> /\ (Doomed => Doomed')
  BY DEF Quiet
<1>2. QueueOK' /\ HistoryOK' /\ DelayedResultsKept'
  BY <1>1, <1>a DEF QueueOK, HistoryOK, DelayedResultsKept, Queued
<1>3. FrontOK'
  BY <1>1, <1>a DEF FrontOK, Front
<1> QED
  BY <1>2, <1>3 DEF MessagesOK

-----------------------------------------------------------------------------
(* The invariant.                                                          *)

\* A socket that was just made has sent nothing.
LEMMA InitInv == Init => IInv
<1> SUFFICES ASSUME Init PROVE IInv
  OBVIOUS
<1>1. Len(m_pending_messages) = 0 /\ DOMAIN m_pending_messages = {}
  BY DEF Init
<1>2. TypeOK
  <2>1. pc \in [Threads -> Labels] /\ m_pending_messages \in Seq(Messages)
        /\ reported \in [Messages -> Seq(Results)] /\ delivered \in [Messages -> Nat]
    BY DEF Init, Labels
  <2> QED
    BY <2>1 DEF Init, TypeOK, Labels
<1>3. SendersOK /\ WorkerOK
  BY NoMessageAssumption DEF Init, SendersOK, WorkerOK, Threads
<1>4. DescriptorOK /\ QueuedIsWatched
  BY DEF Init, DescriptorOK, QueuedIsWatched
<1>5. QueueOK /\ FrontOK /\ HistoryOK
  BY <1>1 DEF Init, QueueOK, FrontOK, HistoryOK
<1>6. DelayedResultsKept
  BY DEF Init, DelayedResultsKept
<1> QED
  BY <1>2, <1>3, <1>4, <1>5, <1>6 DEF IInv

\* Every step keeps the invariant.
LEMMA StepInv == IInv /\ [Next]_vars => IInv'
<1> SUFFICES ASSUME IInv, [Next]_vars PROVE IInv'
  OBVIOUS
<1>1. MessagesOK'
  BY StepEffect, DecidedKeeps, DelayedKeeps, SettledKeeps, ToldKeeps, QuietKeeps DEF Effect
<1> QED
  BY <1>1, TypeStep, SendersStep, WorkerStepOK, DescriptorStep DEF IInv, MessagesOK

\* The inductive invariant holds in every reachable state.
THEOREM Invariance == Spec => []IInv
BY InitInv, StepInv, PTL DEF Spec

\* Every variable keeps its type.
THEOREM TypeCorrect == Spec => []TypeOK
BY Invariance, PTL DEF IInv

\* However many threads find the socket broken at once, its descriptor is closed once,
\* and watched no more when it is.
THEOREM ClosedOnce == Spec => []ClosedOnceAndUnwatched
<1>1. IInv => ClosedOnceAndUnwatched
  BY DEF IInv, TypeOK, DescriptorOK, ClosedOnceAndUnwatched
<1> QED
  BY <1>1, Invariance, PTL

\* A queued message is watched for as long as the socket is open, whatever the senders
\* queue while the worker drains.
THEOREM QueueIsWatched == Spec => []QueuedIsWatched
BY Invariance, PTL DEF IInv

\* A delayed result is reported at most once, and is not forgotten: a message whose
\* result is outstanding is in the queue.
THEOREM ResultsAreKept == Spec => []DelayedResultsKept
BY Invariance, PTL DEF IInv

-----------------------------------------------------------------------------
(* The refinement: each effect is a step of the service, or none.          *)

Waiting == IF notify \in {"SENT", "RECIPIENT_AWAY"} THEN Tail(m_pending_messages) ELSE m_pending_messages

Reporting(m) == notify # "none" /\ m = Front

\* The verdict on a message, case by case.
LEMMA VerdictCases ==
    ASSUME NEW m
    PROVE  /\ returned[m] # "DELAYED_RESULT" => Verdict(m) = returned[m]
           /\ returned[m] = "DELAYED_RESULT" /\ reported[m] # <<>> => Verdict(m) = reported[m][1]
           /\ returned[m] = "DELAYED_RESULT" /\ reported[m] = <<>> /\ Queued(m) =>
                  Verdict(m) = IF Reporting(m) THEN notify ELSE "DELAYED_RESULT"
           /\ returned[m] = "DELAYED_RESULT" /\ reported[m] = <<>> /\ ~Queued(m) =>
                  Verdict(m) = IF delivered[m] > 0 THEN "SENT" ELSE "RECIPIENT_AWAY"
BY DEF Verdict, Reporting

\* The same after a step.
LEMMA VerdictCasesNext ==
    ASSUME NEW m
    PROVE  /\ returned'[m] # "DELAYED_RESULT" => Verdict(m)' = returned'[m]
           /\ returned'[m] = "DELAYED_RESULT" /\ reported'[m] # <<>> => Verdict(m)' = reported'[m][1]
           /\ returned'[m] = "DELAYED_RESULT" /\ reported'[m] = <<>> /\ Queued(m)' =>
                  Verdict(m)' = IF Reporting(m)' THEN notify' ELSE "DELAYED_RESULT"
           /\ returned'[m] = "DELAYED_RESULT" /\ reported'[m] = <<>> /\ ~Queued(m)' =>
                  Verdict(m)' = IF delivered'[m] > 0 THEN "SENT" ELSE "RECIPIENT_AWAY"
BY DEF Verdict, Reporting

\* A verdict depends on nothing but what is known of the message.
LEMMA VerdictFrame ==
    ASSUME NEW m, returned'[m] = returned[m], reported'[m] = reported[m], delivered'[m] = delivered[m],
           Queued(m)' <=> Queued(m), Queued(m) => (Reporting(m)' <=> Reporting(m)),
           Queued(m) /\ Reporting(m) => notify' = notify
    PROVE  Verdict(m)' = Verdict(m)
<1>1. CASE returned[m] # "DELAYED_RESULT"
  BY <1>1, VerdictCases, VerdictCasesNext
<1>2. CASE returned[m] = "DELAYED_RESULT" /\ reported[m] # <<>>
  BY <1>2, VerdictCases, VerdictCasesNext
<1>3. CASE returned[m] = "DELAYED_RESULT" /\ reported[m] = <<>> /\ Queued(m)
  BY <1>3, VerdictCases, VerdictCasesNext
<1>4. CASE returned[m] = "DELAYED_RESULT" /\ reported[m] = <<>> /\ ~Queued(m)
  BY <1>4, VerdictCases, VerdictCasesNext
<1> QED
  BY <1>1, <1>2, <1>3, <1>4

\* The function the service sees changes where the verdict on one message does.
LEMMA VerdictUpdate ==
    ASSUME NEW m \in Messages, NEW r, Verdict(m)' = r,
           \A n \in Messages \ {m} : Verdict(n)' = Verdict(n)
    PROVE  [n \in Messages |-> Verdict(n)]' = [[n \in Messages |-> Verdict(n)] EXCEPT ![m] = r]
<1> DEFINE before == [n \in Messages |-> Verdict(n)]
           after == [n \in Messages |-> Verdict(n)']
<1>1. \A n \in Messages : after[n] = [before EXCEPT ![m] = r][n]
  <2> TAKE n \in Messages
  <2>1. CASE n = m
    BY <2>1
  <2>2. CASE n # m
    BY <2>2
  <2> QED
    BY <2>1, <2>2
<1>2. after = [before EXCEPT ![m] = r]
  BY <1>1
<1> QED
  BY <1>2

\* The service takes note of a verdict as the socket does.
LEMMA DecideService ==
    ASSUME IInv, NEW m \in Messages, NEW r, Verdict(m)' = r, DeliverIf(m, r),
           \A n \in Messages \ {m} : Verdict(n)' = Verdict(n)
    PROVE  Service!Decide(m, r)
<1>1. [n \in Messages |-> Verdict(n)]' = [[n \in Messages |-> Verdict(n)] EXCEPT ![m] = r]
  BY VerdictUpdate
<1> QED
  BY <1>1 DEF Service!Decide, DeliverIf, Deliver

\* A message that is sent or refused at once is a Send of the service.
LEMMA DecidedRefines ==
    ASSUME IInv, NEW m \in Messages, NEW r \in Final, Decided(m, r)
    PROVE  Service!Send(m)
<1>1. UNCHANGED <<m_pending_messages, reported, notify, m_stage>>
  BY DEF Decided
<1>2. /\ \A n \in Messages \ {m} : returned'[n] = returned[n] /\ delivered'[n] = delivered[n]
      /\ returned[m] = "none" /\ returned'[m] = r /\ r \notin {"none", "DELAYED_RESULT"}
  BY HistoryTypes, DeliverIfFields DEF Decided, Final
<1>3. \A n : (Queued(n)' <=> Queued(n)) /\ (Reporting(n)' <=> Reporting(n))
  BY <1>1 DEF Queued, Reporting, Front
<1>4. \A n \in Messages \ {m} : Verdict(n)' = Verdict(n)
  BY <1>1, <1>2, <1>3, VerdictFrame
<1>5. Verdict(m) = "none" /\ Verdict(m)' = r
  BY <1>2, VerdictCases, VerdictCasesNext
<1>6. Service!Decide(m, r)
  BY <1>4, <1>5, DecideService DEF Decided
<1>7. UNCHANGED Waiting /\ UNCHANGED (m_stage = "ALIVE")
  BY <1>1 DEF Waiting
<1>8. [n \in Messages |-> Verdict(n)][m] = "none"
  BY <1>5
<1>9. r \in {"SENT", "RECIPIENT_AWAY"} \/ (r = "SOCKET_DEAD" /\ m_stage # "ALIVE")
  BY DEF Decided, Final
<1> QED
  BY <1>1, <1>6, <1>7, <1>8, <1>9 DEF Service!Send, Waiting

\* So is a delayed one.
LEMMA DelayedRefines ==
    ASSUME IInv, NEW m \in Messages, Delayed(m)
    PROVE  Service!Send(m)
<1> DEFINE q == m_pending_messages
<1>a. WorkerOK /\ QueueOK /\ HistoryOK
  BY DEF IInv
<1>1. UNCHANGED <<delivered, reported, notify, m_stage>> /\ q' = Append(q, m)
  BY DEF Delayed
<1>2. /\ \A n \in Messages \ {m} : returned'[n] = returned[n]
      /\ returned[m] = "none" /\ returned'[m] = "DELAYED_RESULT" /\ reported[m] = <<>>
  BY HistoryTypes, <1>a DEF Delayed, HistoryOK
<1>3. /\ q \in Seq(Messages) /\ q' \in Seq(Messages) /\ Len(q) \in Nat
      /\ DOMAIN q = 1 .. Len(q) /\ DOMAIN q' = 1 .. Len(q) + 1 /\ q'[Len(q) + 1] = m
      /\ \A i \in 1 .. Len(q) : q'[i] = q[i]
  BY <1>1, HistoryTypes
<1>4. Queued(m)' /\ \A n \in Messages \ {m} : Queued(n)' <=> Queued(n)
  <2>1. Len(q) + 1 \in DOMAIN q'
    BY <1>3
  <2>2. Queued(m)'
    BY <2>1, <1>3 DEF Queued
  <2>3. \A n \in Messages \ {m} : Queued(n)' <=> Queued(n)
    <3> TAKE n \in Messages \ {m}
    <3>1. \A i \in DOMAIN q' : q'[i] = n => i \in DOMAIN q /\ q[i] = n
      BY <1>3
    <3>2. \A i \in DOMAIN q : q[i] = n => i \in DOMAIN q' /\ q'[i] = n
      BY <1>3
    <3> QED
      BY <3>1, <3>2 DEF Queued
  <2> QED
    BY <2>2, <2>3
<1>5. notify # "none" => q # <<>> /\ Front' = Front /\ Front # m
  <2> SUFFICES ASSUME notify # "none" PROVE q # <<>> /\ Front' = Front /\ Front # m
    OBVIOUS
  <2>1. q # <<>> /\ returned[Front] = "DELAYED_RESULT"
    BY <1>a, FrontOpen DEF WorkerOK
  <2>2. Front' = Front
    BY <2>1, <1>1, <1>3 DEF Front
  <2> QED
    BY <2>1, <2>2, <1>2
<1>6. \A n \in Messages : Reporting(n)' <=> Reporting(n)
  BY <1>1, <1>5 DEF Reporting
<1>7. \A n \in Messages \ {m} : Verdict(n)' = Verdict(n)
  BY <1>1, <1>2, <1>4, <1>6, VerdictFrame
<1>8. Verdict(m) = "none" /\ Verdict(m)' = "DELAYED_RESULT"
  <2>1. ~Reporting(m)'
    BY <1>5, <1>6 DEF Reporting
  <2> QED
    BY <2>1, <1>1, <1>2, <1>4, VerdictCases, VerdictCasesNext
<1>9. Service!Decide(m, "DELAYED_RESULT")
  <2>1. DeliverIf(m, "DELAYED_RESULT")
    BY <1>1 DEF DeliverIf
  <2> QED
    BY <2>1, <1>7, <1>8, DecideService
<1>10. Waiting' = Append(Waiting, m)
  <2>1. CASE notify \in {"SENT", "RECIPIENT_AWAY"}
    <3>1. q # <<>>
      BY <2>1, <1>5
    <3>2. Tail(Append(q, m)) = Append(Tail(q), m)
      BY <3>1, <1>3
    <3> QED
      BY <3>2, <2>1, <1>1 DEF Waiting
  <2>2. CASE notify \notin {"SENT", "RECIPIENT_AWAY"}
    BY <2>2, <1>1 DEF Waiting
  <2> QED
    BY <2>1, <2>2
<1>11. [n \in Messages |-> Verdict(n)][m] = "none"
  BY <1>8
<1> QED
  BY <1>1, <1>9, <1>10, <1>11 DEF Service!Send, Waiting

\* When the front is popped, it alone is no longer queued.
LEMMA PopQueued ==
    ASSUME IInv, m_pending_messages # <<>>, m_pending_messages' = Tail(m_pending_messages)
    PROVE  /\ \A m : m = Front => ~Queued(m)'
           /\ \A n : n # Front => (Queued(n)' <=> Queued(n))
<1> DEFINE q == m_pending_messages
           k == Len(q)
<1>1. /\ k \in Nat /\ k >= 1 /\ q[1] = Front
      /\ \A i \in 1 .. k - 1 : q'[i] = q[i + 1]
      /\ DOMAIN q = 1 .. k /\ DOMAIN q' = 1 .. k - 1
  <2>1. q \in Seq(Messages) /\ q' \in Seq(Messages) /\ Len(q') = k - 1
    BY FrontIsFirst, HistoryTypes
  <2> QED
    BY <2>1, FrontIsFirst
<1>2. \A i, j \in 1 .. k : q[i] = q[j] => i = j
  BY DEF IInv, QueueOK
<1> HIDE DEF q, k
<1>3. ASSUME NEW i \in 1 .. k - 1 PROVE i + 1 \in 1 .. k /\ q'[i] = q[i + 1] /\ q'[i] # Front
  <2>1. i + 1 \in 1 .. k /\ 1 \in 1 .. k /\ i + 1 # 1
    BY <1>1
  <2> QED
    BY <2>1, <1>1, <1>2
<1>4. ASSUME NEW n, n # Front PROVE Queued(n)' <=> Queued(n)
  <2>1. ASSUME NEW i \in DOMAIN q', q'[i] = n PROVE i + 1 \in DOMAIN q /\ q[i + 1] = n
    BY <2>1, <1>1, <1>3
  <2>2. ASSUME NEW i \in DOMAIN q, q[i] = n PROVE i - 1 \in DOMAIN q' /\ q'[i - 1] = n
    <3>1. i \in 1 .. k /\ i # 1
      BY <2>2, <1>1, <1>4
    <3>2. i - 1 \in 1 .. k - 1 /\ (i - 1) + 1 = i
      BY <3>1, <1>1
    <3> QED
      BY <3>2, <1>1, <2>2
  <2> QED
    BY <2>1, <2>2 DEF Queued, q
<1>5. ASSUME NEW m, m = Front PROVE ~Queued(m)'
  <2>1. \A i \in DOMAIN q' : q'[i] # m
    BY <1>1, <1>3, <1>5
  <2> QED
    BY <2>1 DEF Queued, q
<1> QED
  BY <1>4, <1>5

\* The kernel's decision is the verdict; nothing happens to the service when the
\* socket dies of a message nobody waits for.
LEMMA SettledRefines ==
    ASSUME IInv, NEW r \in Final, Settled(r)
    PROVE  Service!Retry \/ UNCHANGED Service!vars
<1> PICK m : m = Front
  OBVIOUS
<1>a. HistoryOK
  BY DEF IInv
<1>1. /\ m_pending_messages # <<>> /\ notify = "none" /\ pc[Worker] = "retrying"
      /\ UNCHANGED <<returned, reported, m_stage>>
  BY DEF Settled
<1>2. m \in Messages /\ m = Head(m_pending_messages) /\ Queued(m)
  <2>1. m = m_pending_messages[1] /\ 1 \in 1 .. Len(m_pending_messages) /\ m \in Messages
    BY <1>1, FrontIsFirst
  <2> QED
    BY <2>1, QueuedAt DEF Front
<1>3. returned[m] = "DELAYED_RESULT" /\ reported[m] = <<>> /\ delivered[m] = 0
  BY <1>1, FrontOpen
<1>4. Verdict(m) = "DELAYED_RESULT"
  BY <1>1, <1>2, <1>3, VerdictCases DEF Reporting
<1>5. DeliverIf(m, r) /\ \A n \in Messages \ {m} : delivered'[n] = delivered[n]
  BY <1>2, DeliverIfFields DEF Settled
<1>6. Waiting = m_pending_messages
  BY <1>1 DEF Waiting
<1>7. ASSUME Verdict(m)' = r, \A n \in Messages \ {m} : Verdict(n)' = Verdict(n),
             \/ r # "SOCKET_DEAD" /\ Waiting' = Tail(Waiting)
             \/ r = "SOCKET_DEAD" /\ Waiting' = Waiting
      PROVE  Service!Retry
  <2>1. Service!Decide(m, r)
    BY <1>2, <1>5, <1>7, DecideService
  <2>2. [n \in Messages |-> Verdict(n)][Head(Waiting)] = "DELAYED_RESULT" /\ Head(Waiting) = m
    BY <1>2, <1>4, <1>6
  <2>3. UNCHANGED reported /\ UNCHANGED (m_stage = "ALIVE") /\ Waiting # <<>>
    BY <1>1, <1>6
  <2>4. r = "SENT" \/ r = "RECIPIENT_AWAY" \/ r = "SOCKET_DEAD"
    BY DEF Final
  <2> QED
    BY <1>7, <2>1, <2>2, <2>3, <2>4 DEF Service!Retry, Waiting
<1>8. CASE m \in Notified
  <2>1. notify' = r /\ UNCHANGED m_pending_messages
    BY <1>8 DEF Settled, Settle
  <2>2. \A n : (Queued(n)' <=> Queued(n)) /\ (n # m => ~Reporting(n) /\ ~Reporting(n)')
    BY <2>1 DEF Queued, Reporting, Front
  <2>3. \A n \in Messages \ {m} : Verdict(n)' = Verdict(n)
    BY <1>1, <1>5, <2>2, VerdictFrame
  <2>4. Verdict(m)' = r
    <3>1. Reporting(m)' /\ Queued(m)'
      BY <2>1, <2>2, <1>2 DEF Reporting, Front, Final
    <3> QED
      BY <3>1, <1>1, <1>3, <2>1, VerdictCasesNext
  <2>5. \/ r # "SOCKET_DEAD" /\ Waiting' = Tail(Waiting)
        \/ r = "SOCKET_DEAD" /\ Waiting' = Waiting
    BY <2>1, <1>6 DEF Waiting, Final
  <2> QED
    BY <1>7, <2>3, <2>4, <2>5
<1>9. CASE m \notin Notified /\ r = "SOCKET_DEAD"
  <2>1. UNCHANGED <<notify, m_pending_messages, delivered>>
    BY <1>5, <1>9 DEF Settled, Settle, DeliverIf
  <2>2. \A n : (Queued(n)' <=> Queued(n)) /\ (Reporting(n)' <=> Reporting(n))
    BY <2>1 DEF Queued, Reporting, Front
  <2>3. \A n \in Messages : Verdict(n)' = Verdict(n)
    BY <1>1, <2>1, <2>2, VerdictFrame
  <2>4. UNCHANGED [n \in Messages |-> Verdict(n)]
    BY <2>3
  <2> QED
    BY <1>1, <2>1, <2>4 DEF Service!vars
<1>10. CASE m \notin Notified /\ r # "SOCKET_DEAD"
  <2>1. m_pending_messages' = Tail(m_pending_messages) /\ notify' = "none"
    BY <1>1, <1>10 DEF Settled, Settle
  <2>2. ~Queued(m)' /\ \A n : n # m => (Queued(n)' <=> Queued(n))
    BY <1>1, <2>1, PopQueued
  <2>3. \A n \in Messages \ {m} : Verdict(n)' = Verdict(n)
    BY <1>1, <1>5, <2>1, <2>2, VerdictFrame DEF Reporting
  <2>4. Verdict(m)' = r
    <3>1. Verdict(m)' = IF delivered'[m] > 0 THEN "SENT" ELSE "RECIPIENT_AWAY"
      BY <2>2, <1>1, <1>3, VerdictCasesNext
    <3>2. IF r = "SENT" THEN delivered'[m] = 1 ELSE delivered'[m] = 0
      BY <1>2, <1>3, <1>5, DeliverIfFields
    <3> QED
      BY <3>1, <3>2, <1>10 DEF Final
  <2>5. Waiting' = Tail(Waiting)
    BY <2>1, <1>6 DEF Waiting
  <2> QED
    BY <1>7, <1>10, <2>3, <2>4, <2>5
<1> QED
  BY <1>8, <1>9, <1>10

\* The callback tells the verdict, and then the front is popped as it is in Waiting.
LEMMA ToldRefines ==
    ASSUME IInv, Told
    PROVE  \E m \in Messages : Service!Tell(m)
<1> PICK m : m = Front
  OBVIOUS
<1>a. WorkerOK /\ pc \in [Threads -> Labels]
      /\ notify \in {"none", "SENT", "RECIPIENT_AWAY", "SOCKET_DEAD"}
  BY DEF IInv, TypeOK, Labels
<1>1. /\ m_pending_messages # <<>> /\ notify # "none" /\ notify' = "none" /\ pc[Worker] = "notify"
      /\ UNCHANGED <<returned, delivered, m_stage>>
      /\ reported' = [reported EXCEPT ![m] = Append(@, notify)]
      /\ m \in Notified
  BY <1>a DEF Told, Notify, WorkerOK
<1>2. m \in Messages /\ Queued(m)
  <2>1. m = m_pending_messages[1] /\ 1 \in 1 .. Len(m_pending_messages) /\ m \in Messages
    BY <1>1, FrontIsFirst
  <2> QED
    BY <2>1, QueuedAt
<1>3. returned[m] = "DELAYED_RESULT" /\ reported[m] = <<>>
  BY <1>1, FrontOpen
<1>4. Verdict(m) = notify
  BY <1>1, <1>2, <1>3, VerdictCases DEF Reporting
<1>5. reported' = [reported EXCEPT ![m] = <<notify>>]
  BY <1>1, <1>2, <1>3, HistoryTypes
<1>6. Verdict(m)' = notify
  <2>1. reported'[m] = <<notify>> /\ reported'[m] # <<>> /\ reported'[m][1] = notify
    BY <1>2, <1>5, HistoryTypes
  <2> QED
    BY <2>1, <1>1, <1>3, VerdictCasesNext
<1>7. \A n \in Messages \ {m} : Queued(n)' <=> Queued(n)
  <2>1. CASE UNCHANGED m_pending_messages
    BY <2>1 DEF Queued
  <2>2. CASE m_pending_messages' = Tail(m_pending_messages)
    BY <2>2, <1>1, PopQueued
  <2> QED
    BY <2>1, <2>2 DEF Told, Notify
<1>8. \A n \in Messages \ {m} : Verdict(n)' = Verdict(n)
  <2>1. \A n \in Messages \ {m} : reported'[n] = reported[n] /\ ~Reporting(n) /\ ~Reporting(n)'
    BY <1>1, HistoryTypes DEF Reporting
  <2> QED
    BY <2>1, <1>1, <1>7, VerdictFrame
<1>9. UNCHANGED [n \in Messages |-> Verdict(n)]
  BY <1>4, <1>6, <1>8
<1>10. UNCHANGED Waiting
  BY <1>a, <1>1 DEF Waiting, Told, Notify
<1>11. [n \in Messages |-> Verdict(n)][m] = notify
  BY <1>2, <1>4
<1>12. UNCHANGED (m_stage = "ALIVE")
  BY <1>1
<1>13. Service!Tell(m)
  BY <1>a, <1>1, <1>3, <1>5, <1>9, <1>10, <1>11, <1>12 DEF Service!Tell, Waiting
<1> QED
  BY <1>2, <1>13

\* What the senders cannot see is no step of the service, or its end.
LEMMA QuietRefines ==
    ASSUME IInv, Quiet
    PROVE  Service!Die \/ UNCHANGED Service!vars
<1>1. UNCHANGED <<m_pending_messages, returned, reported, notify, delivered>>
  BY DEF Quiet
<1>2. \A n : (Queued(n)' <=> Queued(n)) /\ (Reporting(n)' <=> Reporting(n))
  BY <1>1 DEF Queued, Reporting, Front
<1>3. \A n \in Messages : Verdict(n)' = Verdict(n)
  BY <1>1, <1>2, VerdictFrame
<1>4. UNCHANGED [n \in Messages |-> Verdict(n)]
  BY <1>3
<1>5. (m_stage' = "ALIVE") = (m_stage = "ALIVE") \/ (m_stage' = "ALIVE") = FALSE
  BY DEF Quiet
<1> QED
  BY <1>1, <1>4, <1>5 DEF Service!Die, Service!vars

\* A socket that was just made is a service that has decided nothing.
LEMMA InitRefines == Init => Service!Init
<1> SUFFICES ASSUME Init PROVE Service!Init
  OBVIOUS
<1>1. \A m \in Messages : Verdict(m) = "none"
  BY DEF Init, Verdict
<1>2. [m \in Messages |-> Verdict(m)] = [m \in Messages |-> "none"]
  BY <1>1
<1> QED
  BY <1>2 DEF Init, Service!Init

\* Every step of the socket is a step of the service or none.
LEMMA StepRefines == IInv /\ [Next]_vars => [Service!Next]_(Service!vars)
<1> SUFFICES ASSUME IInv, [Next]_vars PROVE [Service!Next]_(Service!vars)
  OBVIOUS
<1>1. Effect
  BY StepEffect
<1>2. ASSUME NEW m \in Messages, NEW r \in Final, Decided(m, r) PROVE Service!Next
  BY <1>2, DecidedRefines DEF Service!Next
<1>3. ASSUME NEW m \in Messages, Delayed(m) PROVE Service!Next
  BY <1>3, DelayedRefines DEF Service!Next
<1>4. ASSUME NEW r \in Final, Settled(r) PROVE [Service!Next]_(Service!vars)
  BY <1>4, SettledRefines DEF Service!Next
<1>5. ASSUME Told PROVE Service!Next
  BY <1>5, ToldRefines DEF Service!Next
<1>6. ASSUME Quiet PROVE [Service!Next]_(Service!vars)
  BY <1>6, QuietRefines DEF Service!Next
<1> QED
  BY <1>1, <1>2, <1>3, <1>4, <1>5, <1>6 DEF Effect

\* However the threads interleave, and whenever the socket dies, each sender gets one
\* true verdict, and delayed messages get theirs in the order of the queue.
THEOREM RefinesService == Spec => ImplementsService
BY InitInv, StepInv, InitRefines, StepRefines, PTL DEF Spec, ImplementsService, Service!Spec
=============================================================================
