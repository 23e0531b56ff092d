-------------------------- MODULE CalculatorProofs --------------------------
(***************************************************************************)
(* Calls and answers find each other, and a call takes effect once, for    *)
(* any range of sessions, any calls, and any number of lost messages and   *)
(* of processes that end and start again.                                  *)
(*                                                                         *)
(* Three things have to be known at once: where the messages of a call are *)
(* (Travels), which sessions its process has used since (Sessions), and    *)
(* which promise the map keeps for whom (Promises).                        *)
(***************************************************************************)
EXTENDS Calculator, WellFoundedInduction, TLAPS

Ids == DOMAIN calls

Answers == [call : Ids, value : Nat]

Made == [method : Methods, argument : Nat, session : 1 .. MaxSession, process : Nat]

Statuses == {"waiting", "resolved", "broken", "lost"}

TypeInv ==
    /\ m_session_counter \in 1 .. MaxSession
    /\ calls \in Seq(Made)
    /\ status \in [Ids -> Statuses]
    /\ DOMAIN m_pending_requests \subseteq 1 .. MaxSession
    /\ m_pending_requests \in [DOMAIN m_pending_requests -> Ids]
    /\ calling \in {Idle} \cup [call : {Len(calls)}, at : {"emplace", "send"}]
    /\ calling # Idle => calls # <<>>
    /\ DOMAIN resolved_by \subseteq Ids
    /\ resolved_by \in [DOMAIN resolved_by -> Answers]
    /\ process \in Nat /\ alive \in BOOLEAN /\ raced \in BOOLEAN
    /\ requests \subseteq Ids /\ asked \subseteq Ids
    /\ answers \subseteq Answers /\ arriving \subseteq Answers
    /\ m_Precision \in Nat
    /\ DOMAIN effects \subseteq Ids
    /\ effects \in [DOMAIN effects -> Nat]

\* A call is asked for once and answered once: it is with the client, in a request,
\* or has taken effect; its answer says what it came to and is used up by whom it
\* resolves.
Travels ==
    /\ \A c \in requests : c \notin asked /\ c \notin DOMAIN effects /\ c # calling.call
    /\ \A c \in asked : c \notin DOMAIN effects /\ c # calling.call
    /\ \A c \in DOMAIN effects : c # calling.call
    /\ \A answer \in answers \cup arriving :
           /\ answer.call \in DOMAIN effects
           /\ answer.value = effects[answer.call]
           /\ \A c \in DOMAIN resolved_by : resolved_by[c].call # answer.call
    /\ answers \cap arriving = {}
    /\ \A c \in DOMAIN resolved_by :
           /\ resolved_by[c].call \in DOMAIN effects
           /\ resolved_by[c].value = effects[resolved_by[c].call]

Emplacing(c) == calling.at = "emplace" /\ calling.call = c

\* Who has ended, and in which order processes made their calls.
Processes ==
    /\ calling # Idle => alive /\ calls[calling.call].process = process
    /\ ~alive => m_pending_requests = <<>>
    /\ calling.at = "emplace" => status[calling.call] = "waiting"
    /\ \A s \in DOMAIN m_pending_requests : ~Emplacing(m_pending_requests[s])
    /\ \A c \in Ids : calls[c].process <= process
    /\ \A c, d \in Ids : c <= d => calls[c].process <= calls[d].process
    /\ \A c \in Ids : status[c] = "resolved" <=> c \in DOMAIN resolved_by
    /\ alive => \A c \in Ids : calls[c].process = process => status[c] # "lost"

\* The session k calls later, for k up to MaxSession.
Later(session, k) == IF session + k <= MaxSession THEN session + k ELSE session + k - MaxSession

\* The number of the call that has the session of the counter, or will have it.
Upcoming == IF calling = Idle THEN Len(calls) + 1 ELSE Len(calls)

\* The sessions of a process follow each other, and come round.
Sessions ==
    /\ \A c, d \in Ids :
           calls[c].process = calls[d].process /\ c <= d /\ d - c <= MaxSession =>
               calls[d].session = Later(calls[c].session, d - c)
    /\ \A c \in Ids :
           alive /\ calls[c].process = process /\ Upcoming - c <= MaxSession =>
               m_session_counter = Later(calls[c].session, Upcoming - c)
    /\ calling # Idle => calls[calling.call].session = m_session_counter

\* The promises in the map are those of the calls that wait, each for its session,
\* and whoever came later with that session was broken.
Promises ==
    /\ \A s \in DOMAIN m_pending_requests :
           LET c == m_pending_requests[s]
           IN  /\ calls[c].session = s /\ calls[c].process = process
               /\ status[c] = "waiting"
               /\ \A d \in Ids : d > c /\ calls[d].session = s /\ ~Emplacing(d) =>
                                     status[d] = "broken"
    /\ \A c \in Ids :
           status[c] = "waiting" /\ ~Emplacing(c) =>
               /\ calls[c].session \in DOMAIN m_pending_requests
               /\ m_pending_requests[calls[c].session] = c

IInv ==
    /\ TypeInv /\ Travels /\ Processes /\ Sessions
    /\ ~raced => Promises
    /\ AnswersAreOwn

-----------------------------------------------------------------------------
(* What the handlers do to the maps and to the list of calls.              *)

\* std::map::emplace of a new key, and an assignment to a key.
LEMMA WithFacts ==
    ASSUME NEW f, NEW i, NEW value
    PROVE  /\ DOMAIN With(f, i, value) = DOMAIN f \cup {i}
           /\ With(f, i, value)[i] = value
           /\ \A j \in DOMAIN f \ {i} : With(f, i, value)[j] = f[j]
  BY DEF With

\* A remainder of a smaller number.
LEMMA SmallRemainder ==
    ASSUME NEW a \in Nat, NEW b \in Nat, a < b
    PROVE  a % b = a
  OBVIOUS

\* "if max, go back to 1" (calculator_proxy.cpp:164-167)
LEMMA NextSessionFacts ==
    ASSUME m_session_counter \in 1 .. MaxSession
    PROVE  /\ NextSession \in 1 .. MaxSession
           /\ NextSession = IF m_session_counter = MaxSession THEN 1 ELSE m_session_counter + 1
<1>1. MaxSession \in Nat \ {0}
  BY SessionAssumption
<1>2. CASE m_session_counter = MaxSession
  <2>1. (m_session_counter + 1) % (MaxSession + 1) = 0
    BY <1>1, <1>2
  <2> QED
    BY <1>1, <1>2, <2>1 DEF NextSession
<1>3. CASE m_session_counter # MaxSession
  <2> DEFINE next == m_session_counter + 1
             range == MaxSession + 1
  <2>1. next \in Nat /\ range \in Nat /\ next < range /\ next \in 1 .. MaxSession /\ next # 0
    BY <1>1, <1>3
  <2>2. next % range = next
    <3> HIDE DEF next, range
    <3> QED
      BY <2>1, SmallRemainder
  <2> QED
    BY <1>3, <2>1, <2>2 DEF NextSession
<1> QED
  BY <1>2, <1>3

\* A call that is not made changes no call.
LEMMA NumberOfCalls == TypeInv => Len(calls) \in Nat /\ Ids = 1 .. Len(calls)
  BY DEF TypeInv, Ids

\* A call is added at the end; the others and their states stay.
LEMMA CallFacts ==
    ASSUME TypeInv, NEW what \in Calls, Call(what)
    PROVE  LET new == Len(calls) + 1 IN
           /\ new \in Nat \ {0} /\ new \notin Ids /\ Ids' = Ids \cup {new} /\ Len(calls') = new
           /\ calls' \in Seq(Made)
           /\ \A c \in Ids : calls'[c] = calls[c] /\ status'[c] = status[c] /\ c < new
           /\ calls'[new].session = m_session_counter
           /\ calls'[new].process = process
           /\ status'[new] = "waiting"
           /\ status' \in [Ids' -> Statuses]
<1> DEFINE n == Len(calls)
           call == [method |-> what.method, argument |-> what.argument,
                    session |-> m_session_counter, process |-> process]
<1>1. n \in Nat /\ Ids = 1 .. n /\ calls \in Seq(Made)
  BY NumberOfCalls DEF TypeInv
<1>2. calls' = Append(calls, call) /\ status' = Append(status, "waiting")
  BY DEF Call
<1>3. call \in Made /\ call.session = m_session_counter /\ call.process = process
  BY CallsAssumption DEF TypeInv, Made
<1> HIDE DEF call
<1>4. /\ calls' \in Seq(Made) /\ Len(calls') = n + 1 /\ DOMAIN calls' = 1 .. n + 1
      /\ \A c \in 1 .. n : calls'[c] = calls[c]
      /\ calls'[n + 1] = call
  BY <1>1, <1>2, <1>3
<1>5. status \in Seq(Statuses) /\ Len(status) = n
  BY <1>1 DEF TypeInv
<1>6. /\ status' \in Seq(Statuses) /\ Len(status') = n + 1
      /\ \A c \in 1 .. n : status'[c] = status[c]
      /\ status'[n + 1] = "waiting"
  BY <1>2, <1>5 DEF Statuses
<1>7. status' \in [1 .. n + 1 -> Statuses]
  BY <1>6
<1>8. 1 .. n + 1 = 1 .. n \cup {n + 1} /\ n + 1 \notin 1 .. n /\ \A c \in 1 .. n : c < n + 1
  BY <1>1
<1>9. Ids' = 1 .. n + 1
  BY <1>4 DEF Ids
<1> QED
  BY <1>1, <1>3, <1>4, <1>6, <1>7, <1>8, <1>9

\* The promise of a pending session is fulfilled.
LEMMA FulfilFacts ==
    ASSUME TypeInv, NEW answer \in arriving, Fulfil(answer),
           calls[answer.call].session \in DOMAIN m_pending_requests
    PROVE  LET call == m_pending_requests[calls[answer.call].session] IN
           /\ answer \in Answers /\ call \in Ids /\ status[call] = "waiting"
           /\ status' \in [Ids -> Statuses]
           /\ status'[call] = "resolved" /\ \A c \in Ids \ {call} : status'[c] = status[c]
           /\ DOMAIN resolved_by' = DOMAIN resolved_by \cup {call}
           /\ resolved_by'[call] = answer
           /\ \A c \in DOMAIN resolved_by \ {call} : resolved_by'[c] = resolved_by[c]
           /\ resolved_by' \in [DOMAIN resolved_by' -> Answers]
<1> DEFINE call == m_pending_requests[calls[answer.call].session]
<1>1. answer \in Answers /\ call \in Ids
  BY DEF TypeInv
<1>2. /\ status[call] = "waiting"
      /\ status' = [status EXCEPT ![call] = "resolved"]
      /\ resolved_by' = With(resolved_by, call, answer)
  BY DEF Fulfil
<1> HIDE DEF call
<1>3. /\ status' \in [Ids -> Statuses]
      /\ status'[call] = "resolved" /\ \A c \in Ids \ {call} : status'[c] = status[c]
  BY <1>1, <1>2 DEF TypeInv, Statuses
<1>4. resolved_by \in [DOMAIN resolved_by -> Answers]
  BY DEF TypeInv
<1>5. /\ DOMAIN resolved_by' = DOMAIN resolved_by \cup {call}
      /\ resolved_by'[call] = answer
      /\ \A c \in DOMAIN resolved_by \ {call} : resolved_by'[c] = resolved_by[c]
      /\ resolved_by' \in [DOMAIN resolved_by \cup {call} -> Answers]
  <2>1. /\ DOMAIN resolved_by' = DOMAIN resolved_by \cup {call}
        /\ resolved_by'[call] = answer
        /\ \A c \in DOMAIN resolved_by \ {call} : resolved_by'[c] = resolved_by[c]
    BY <1>2 DEF With
  <2>2. resolved_by' \in [DOMAIN resolved_by \cup {call} -> Answers]
    BY <1>1, <1>2, <1>4 DEF With
  <2> QED
    BY <2>1, <2>2
<1> QED
  BY <1>1, <1>2, <1>3, <1>5 DEF call

\* What on_message() does, whether it finds a promise, none, or the map being changed.
Fulfilled(answer) ==
    /\ calls[answer.call].session \in DOMAIN m_pending_requests
    /\ Fulfil(answer)

LEMMA OnMessageFacts ==
    ASSUME TypeInv, OnMessage
    PROVE  \E answer \in arriving :
           /\ alive /\ arriving' = arriving \ {answer}
           /\ Fulfilled(answer) \/ UNCHANGED <<status, resolved_by>>
           /\ DOMAIN m_pending_requests' \subseteq DOMAIN m_pending_requests
           /\ \A s \in DOMAIN m_pending_requests' : m_pending_requests'[s] = m_pending_requests[s]
           /\ m_pending_requests' = [s \in DOMAIN m_pending_requests' |-> m_pending_requests'[s]]
           /\ \/ raced' = TRUE
              \/ /\ raced' = raced /\ Fulfilled(answer)
                 /\ DOMAIN m_pending_requests' =
                        DOMAIN m_pending_requests \ {calls[answer.call].session}
              \/ UNCHANGED <<raced, status, resolved_by, m_pending_requests>>
           /\ UNCHANGED <<m_session_counter, calling, calls, process, alive>>
           /\ UNCHANGED <<runtime, provider, outages>>
<1>1. PICK answer \in arriving :
          /\ alive /\ arriving' = arriving \ {answer}
          /\ Resolve(answer) \/ Ignore(answer) \/ Race(answer)
          /\ UNCHANGED <<m_session_counter, calling, calls, process, alive>>
          /\ UNCHANGED <<runtime, provider, outages>>
  BY DEF OnMessage
<1>2. m_pending_requests \in [DOMAIN m_pending_requests -> Ids]
  BY DEF TypeInv
<1>3. CASE Resolve(answer)
  BY <1>1, <1>2, <1>3 DEF Resolve, Fulfilled, Restrict
<1>4. CASE Ignore(answer)
  BY <1>1, <1>2, <1>4 DEF Ignore
<1>5. CASE Race(answer)
  BY <1>1, <1>2, <1>5 DEF Race, Fulfilled, Restrict
<1> QED
  BY <1>1, <1>3, <1>4, <1>5

\* What goes on elsewhere leaves the client alone.
LEMMA ClientAlone ==
    HandleRequest \/ HandleAnswer \/ Lose \/ Register \/ RuntimeForgets \/ RuntimeRestarts
        \/ StubOnMessage \/ ProviderRestarts \/ UNCHANGED vars => UNCHANGED client
<1>1. HandleRequest \/ HandleAnswer \/ Lose \/ Register => UNCHANGED client
  BY DEF HandleRequest, HandleAnswer, Lose, Register
<1>2. RuntimeForgets \/ RuntimeRestarts \/ StubOnMessage \/ ProviderRestarts => UNCHANGED client
  BY DEF RuntimeForgets, RuntimeRestarts, StubOnMessage, ProviderRestarts
<1>3. UNCHANGED vars => UNCHANGED client
  BY DEF vars, calculator
<1> QED
  BY <1>1, <1>2, <1>3

-----------------------------------------------------------------------------
(* Types.                                                                  *)

\* No handler but Call() adds a call, and the values of the others keep their types.
Unmade == UNCHANGED calls

LEMMA SameAnswers == Unmade => Ids' = Ids /\ Answers' = Answers
  BY DEF Unmade, Ids, Answers

\* What becomes of messages that are handled without an effect on a call.
LEMMA LessUnderWay ==
    HandleRequest \/ Register \/ RuntimeForgets \/ RuntimeRestarts \/ Lose \/ ProviderRestarts =>
        /\ requests' \subseteq requests /\ asked' \subseteq asked \cup requests
        /\ answers' \subseteq answers /\ arriving' \subseteq arriving
<1>1. HandleRequest => /\ requests' \subseteq requests /\ asked' \subseteq asked \cup requests
                       /\ answers' \subseteq answers /\ arriving' \subseteq arriving
  BY DEF HandleRequest, ForwardRequest, DropRequest, RuntimeEnds
<1>2. Register \/ RuntimeForgets \/ ProviderRestarts =>
          /\ requests' \subseteq requests /\ asked' \subseteq asked \cup requests
          /\ answers' \subseteq answers /\ arriving' \subseteq arriving
  BY DEF Register, RuntimeForgets, ProviderRestarts, runtime, provider
<1>3. RuntimeRestarts \/ Lose =>
          /\ requests' \subseteq requests /\ asked' \subseteq asked \cup requests
          /\ answers' \subseteq answers /\ arriving' \subseteq arriving
  BY DEF RuntimeRestarts, RuntimeEnds, Lose
<1> QED
  BY <1>1, <1>2, <1>3

\* Every step keeps the types.
LEMMA NextType == TypeInv /\ [Next]_vars => TypeInv'
<1> SUFFICES ASSUME TypeInv, [Next]_vars PROVE TypeInv'
  OBVIOUS
<1> USE DEF TypeInv
<1>1. ASSUME NEW what \in Calls, Call(what) PROVE TypeInv'
  <2> DEFINE new == Len(calls) + 1
  <2>1. /\ new \in Nat \ {0} /\ Ids' = Ids \cup {new} /\ Len(calls') = new
        /\ calls' \in Seq(Made) /\ status' \in [Ids' -> Statuses]
    BY <1>1, CallFacts
  <2>2. /\ calling' = [call |-> new, at |-> "emplace"]
        /\ UNCHANGED <<m_session_counter, m_pending_requests, resolved_by, process, alive>>
        /\ UNCHANGED <<arriving, requests, answers, asked, m_Precision, effects, raced>>
    BY <1>1 DEF Call, runtime, provider
  <2>3. Answers \subseteq Answers'
    BY <2>1 DEF Answers
  <2>4. calls' # <<>>
    BY <2>1
  <2>5. m_pending_requests' \in [DOMAIN m_pending_requests' -> Ids']
    BY <2>1, <2>2
  <2>6. resolved_by' \in [DOMAIN resolved_by' -> Answers'] /\ DOMAIN resolved_by' \subseteq Ids'
    BY <2>1, <2>2, <2>3
  <2>7. calling' \in [call : {Len(calls')}, at : {"emplace", "send"}]
    BY <2>1, <2>2
  <2> QED
    BY <2>1, <2>2, <2>3, <2>4, <2>5, <2>6, <2>7
<1>2. CASE Emplace
  <2>1. Unmade /\ calling.at = "emplace" /\ calling.call \in Ids
    BY <1>2, NumberOfCalls DEF Emplace, Unmade, Idle
  <2>2. /\ UNCHANGED <<m_session_counter, resolved_by, process, alive, raced, arriving>>
        /\ UNCHANGED <<requests, answers, asked, m_Precision, effects>>
        /\ calling' = [calling EXCEPT !.at = "send"]
    BY <1>2 DEF Emplace, runtime, provider
  <2>3. status' \in [Ids -> Statuses]
    BY <1>2, <2>1 DEF Emplace, Statuses
  <2>4. DOMAIN m_pending_requests' \subseteq 1 .. MaxSession
        /\ m_pending_requests' \in [DOMAIN m_pending_requests' -> Ids]
    <3>1. CASE m_session_counter \in DOMAIN m_pending_requests
      BY <1>2, <3>1 DEF Emplace
    <3>2. CASE m_session_counter \notin DOMAIN m_pending_requests
      BY <1>2, <2>1, <3>2 DEF Emplace, With
    <3> QED
      BY <3>1, <3>2
  <2>5. calling' \in [call : {Len(calls)}, at : {"emplace", "send"}] /\ calls # <<>>
    BY <2>1, <2>2 DEF Idle
  <2> QED
    BY <2>1, <2>2, <2>3, <2>4, <2>5, SameAnswers DEF Unmade
<1>3. CASE Send
  <2>1. Unmade /\ calling.call \in Ids /\ calling' = Idle /\ requests' = requests \cup {calling.call}
    BY <1>3, NumberOfCalls DEF Send, Unmade, Idle
  <2>2. m_session_counter' \in 1 .. MaxSession
    BY <1>3, NextSessionFacts DEF Send
  <2> QED
    BY <1>3, <2>1, <2>2, SameAnswers DEF Unmade, Send, provider
<1>4. CASE OnMessage
  <2>1. PICK answer \in arriving :
           /\ alive /\ arriving' = arriving \ {answer}
           /\ Fulfilled(answer) \/ UNCHANGED <<status, resolved_by>>
           /\ DOMAIN m_pending_requests' \subseteq DOMAIN m_pending_requests
           /\ \A s \in DOMAIN m_pending_requests' : m_pending_requests'[s] = m_pending_requests[s]
           /\ m_pending_requests' = [s \in DOMAIN m_pending_requests' |-> m_pending_requests'[s]]
           /\ raced' \in BOOLEAN
           /\ UNCHANGED <<m_session_counter, calling, calls, process, alive>>
           /\ UNCHANGED <<runtime, provider, outages>>
    BY <1>4, OnMessageFacts
  <2>2. status' \in [Ids -> Statuses] /\ DOMAIN resolved_by' \subseteq Ids
        /\ resolved_by' \in [DOMAIN resolved_by' -> Answers]
    <3>1. CASE Fulfilled(answer)
      <4> DEFINE call == m_pending_requests[calls[answer.call].session]
      <4>1. /\ status' \in [Ids -> Statuses] /\ call \in Ids
            /\ DOMAIN resolved_by' = DOMAIN resolved_by \cup {call}
            /\ resolved_by' \in [DOMAIN resolved_by' -> Answers]
        <5> HIDE DEF TypeInv
        <5>1. TypeInv
          OBVIOUS
        <5> QED
          BY <3>1, <5>1, FulfilFacts DEF Fulfilled
      <4> QED
        BY <4>1
    <3>2. CASE UNCHANGED <<status, resolved_by>>
      BY <3>2
    <3> QED
      BY <2>1, <3>1, <3>2
  <2>3. m_pending_requests' \in [DOMAIN m_pending_requests' -> Ids]
    BY <2>1
  <2> QED
    BY <2>1, <2>2, <2>3, SameAnswers DEF Unmade, runtime, provider
<1>5. CASE ClientEnds
  <2>1. status' \in [Ids -> Statuses]
    BY <1>5 DEF ClientEnds, Statuses
  <2>2. DOMAIN m_pending_requests' = {} /\ m_pending_requests' = [s \in {} |-> 0]
    BY <1>5 DEF ClientEnds
  <2>3. m_pending_requests' \in [DOMAIN m_pending_requests' -> Ids]
    BY <2>2
  <2> QED
    BY <1>5, <2>1, <2>2, <2>3, SameAnswers DEF Unmade, ClientEnds, runtime, provider
<1>6. CASE ClientStarts
  <2>1. 1 \in 1 .. MaxSession
    BY SessionAssumption
  <2> QED
    BY <1>6, <2>1, SameAnswers DEF Unmade, ClientStarts, runtime, provider
<1>7. CASE HandleRequest \/ Register \/ RuntimeForgets \/ RuntimeRestarts \/ Lose \/ ProviderRestarts
  <2>1. UNCHANGED client /\ Unmade /\ UNCHANGED <<effects, raced>>
    BY <1>7 DEF Unmade, HandleRequest, Register, RuntimeForgets, RuntimeRestarts, Lose,
                ProviderRestarts, client, provider
  <2>2. /\ requests' \subseteq requests /\ asked' \subseteq asked \cup requests
        /\ answers' \subseteq answers /\ arriving' \subseteq arriving
    BY LessUnderWay, <1>7
  <2>3. m_Precision' \in Nat
    <3>1. m_Precision' = m_Precision \/ m_Precision' = 2
      <4> HIDE DEF TypeInv
      <4> QED
        BY <1>7 DEF HandleRequest, Register, RuntimeForgets, RuntimeRestarts, Lose, ProviderRestarts,
                    provider
    <3> QED
      BY <3>1
  <2> QED
    BY <2>1, <2>2, <2>3, SameAnswers DEF Unmade, client
<1>8. CASE HandleAnswer
  <2>1. PICK answer \in answers : ForwardAnswer(answer) \/ DropAnswer(answer)
    BY <1>8 DEF HandleAnswer
  <2>2. arriving' \subseteq Answers /\ answers' \subseteq Answers /\ requests' \subseteq Ids
        /\ asked' = asked
    BY <1>8, <2>1 DEF HandleAnswer, ForwardAnswer, DropAnswer, RuntimeEnds, provider
  <2> QED
    BY <1>8, <2>2, SameAnswers DEF Unmade, HandleAnswer, client, provider
<1>9. CASE StubOnMessage
  <2>1. PICK c \in asked :
            /\ asked' = asked \ {c}
            /\ m_Precision' = PrecisionAfter(c)
            /\ effects' = With(effects, c, ReturnValue(c))
            /\ answers' = answers \cup {[call |-> c, value |-> ReturnValue(c)]}
            /\ UNCHANGED <<client, arriving, requests, awaited, known, serving, outages, raced>>
    BY <1>9 DEF StubOnMessage
  <2>2. c \in Ids /\ calls[c] \in Made
    BY DEF Ids
  <2>3. calls[c].method \in Methods /\ calls[c].argument \in Nat
    BY <2>2 DEF Made
  <2>4. ReturnValue(c) \in Nat /\ PrecisionAfter(c) \in Nat
    BY <2>3 DEF ReturnValue, PrecisionAfter, Methods
  <2>5. DOMAIN effects' \subseteq Ids /\ effects' \in [DOMAIN effects' -> Nat]
    BY <2>1, <2>2, <2>4 DEF With
  <2>6. answers' \subseteq Answers
    BY <2>1, <2>2, <2>4 DEF Answers
  <2> QED
    BY <2>1, <2>4, <2>5, <2>6, SameAnswers DEF Unmade, client
<1>10. CASE UNCHANGED vars
  BY <1>10, SameAnswers DEF Unmade, vars, calculator, client, runtime, provider
<1> QED
  BY <1>1, <1>2, <1>3, <1>4, <1>5, <1>6, <1>7, <1>8, <1>9, <1>10 DEF Next

-----------------------------------------------------------------------------
(* Where messages are.                                                     *)

\* The answers to a call are one.
LEMMA OneAnswer ==
    ASSUME TypeInv, Travels, NEW a \in answers \cup arriving, NEW b \in answers \cup arriving,
           a.call = b.call
    PROVE  a = b
<1>1. a \in Answers /\ b \in Answers
  BY DEF TypeInv
<1>2. a.value = b.value
  BY DEF Travels
<1> QED
  BY <1>1, <1>2 DEF Answers

\* Every step keeps track of them.
LEMMA NextTravels == TypeInv /\ Travels /\ [Next]_vars => Travels'
<1> SUFFICES ASSUME TypeInv, Travels, [Next]_vars PROVE Travels'
  OBVIOUS
<1>0. /\ Len(calls) \in Nat /\ Ids = 1 .. Len(calls)
      /\ requests \subseteq Ids /\ asked \subseteq Ids /\ DOMAIN effects \subseteq Ids
      /\ calling \in {Idle} \cup [call : {Len(calls)}, at : {"emplace", "send"}]
  BY NumberOfCalls DEF TypeInv
<1>1. ASSUME NEW what \in Calls, Call(what) PROVE Travels'
  <2>1. calling'.call \notin Ids
    BY <1>0, <1>1 DEF Call
  <2>2. UNCHANGED <<requests, asked, answers, arriving, effects, resolved_by>>
    BY <1>1 DEF Call, runtime, provider
  <2> QED
    BY <1>0, <2>1, <2>2 DEF Travels
<1>2. CASE Emplace
  <2>1. calling'.call = calling.call
    BY <1>0, <1>2 DEF Emplace, Idle
  <2>2. UNCHANGED <<requests, asked, answers, arriving, effects, resolved_by>>
    BY <1>2 DEF Emplace, runtime, provider
  <2> QED
    BY <2>1, <2>2 DEF Travels
<1>3. CASE Send
  <2>1. calling' = Idle /\ Idle.call \notin Ids /\ calling.call \in Ids \cup {0}
    BY <1>0, <1>3 DEF Send, Idle, None
  <2>2. requests' = requests \cup {calling.call}
        /\ UNCHANGED <<asked, answers, arriving, effects, resolved_by>>
    BY <1>3 DEF Send, provider
  <2>3. calling.call \in Ids
    <3>1. calling # Idle
      BY <1>3 DEF Send, Idle
    <3> QED
      BY <1>0, <3>1 DEF TypeInv
  <2> QED
    BY <1>0, <2>1, <2>2, <2>3 DEF Travels
<1>4. CASE OnMessage
  <2>1. PICK answer \in arriving :
           /\ arriving' = arriving \ {answer}
           /\ Fulfilled(answer) \/ UNCHANGED <<status, resolved_by>>
           /\ UNCHANGED <<calling, calls>> /\ UNCHANGED <<runtime, provider>>
    BY <1>4, OnMessageFacts
  <2>2. UNCHANGED <<requests, asked, answers, effects, calling>>
    BY <2>1 DEF runtime, provider
  <2>3. CASE UNCHANGED <<status, resolved_by>>
    BY <2>1, <2>2, <2>3 DEF Travels
  <2>4. CASE Fulfilled(answer)
    <3> DEFINE call == m_pending_requests[calls[answer.call].session]
    <3>1. /\ DOMAIN resolved_by' = DOMAIN resolved_by \cup {call}
          /\ resolved_by'[call] = answer
          /\ \A c \in DOMAIN resolved_by \ {call} : resolved_by'[c] = resolved_by[c]
      BY <2>4, FulfilFacts DEF Fulfilled
    <3> HIDE DEF call
    <3>2. ASSUME NEW b \in answers' \cup arriving' PROVE b.call # answer.call
      BY <2>1, <2>2, <3>2, OneAnswer DEF Travels
    <3> QED
      BY <2>1, <2>2, <3>1, <3>2 DEF Travels
  <2> QED
    BY <2>1, <2>3, <2>4
<1>5. CASE ClientEnds
  <2>1. calling' = Idle /\ Idle.call \notin Ids /\ arriving' = {}
    BY <1>0, <1>5 DEF ClientEnds, Idle, None
  <2>2. UNCHANGED <<requests, asked, answers, effects, resolved_by>>
    BY <1>5 DEF ClientEnds, runtime, provider
  <2> QED
    BY <1>0, <2>1, <2>2 DEF Travels
<1>6. CASE ClientStarts \/ UNCHANGED vars
  <2>1. UNCHANGED <<requests, asked, answers, arriving, effects, resolved_by, calling>>
    BY <1>6 DEF ClientStarts, vars, calculator, client, runtime, provider
  <2> QED
    BY <2>1 DEF Travels
<1>7. CASE HandleRequest
  <2>1. UNCHANGED <<arriving, effects, resolved_by, calling>>
    BY <1>7 DEF HandleRequest, client
  <2>2. PICK c \in requests : ForwardRequest(c) \/ DropRequest(c) \/ RuntimeEnds
    BY <1>7 DEF HandleRequest
  <2>3. CASE ForwardRequest(c)
    <3>1. requests' = requests \ {c} /\ asked' = asked \cup {c} /\ answers' = answers
      BY <2>3 DEF ForwardRequest
    <3> QED
      BY <2>1, <2>2, <3>1 DEF Travels
  <2>4. CASE DropRequest(c) \/ RuntimeEnds
    <3>1. requests' \subseteq requests /\ asked' = asked /\ answers' \subseteq answers
      BY <2>4 DEF DropRequest, RuntimeEnds
    <3> QED
      BY <2>1, <3>1 DEF Travels
  <2> QED
    BY <2>2, <2>3, <2>4
<1>8. CASE Register \/ RuntimeForgets \/ RuntimeRestarts \/ Lose \/ ProviderRestarts
  <2>1. UNCHANGED client /\ UNCHANGED effects
    BY <1>8 DEF Register, RuntimeForgets, RuntimeRestarts, Lose, ProviderRestarts, provider
  <2>2. /\ requests' \subseteq requests /\ asked' \subseteq asked
        /\ answers' \subseteq answers /\ arriving' \subseteq arriving
    <3>1. /\ requests' \subseteq requests
          /\ answers' \subseteq answers /\ arriving' \subseteq arriving
      BY <1>8, LessUnderWay
    <3>2. asked' \subseteq asked
      BY <1>8 DEF Register, RuntimeForgets, RuntimeRestarts, RuntimeEnds, Lose, ProviderRestarts,
                  provider
    <3> QED
      BY <3>1, <3>2
  <2> QED
    BY <2>1, <2>2 DEF Travels, client
<1>9. CASE HandleAnswer
  <2>1. UNCHANGED <<effects, resolved_by, calling>>
    BY <1>9 DEF HandleAnswer, client, provider
  <2>2. PICK answer \in answers : ForwardAnswer(answer) \/ DropAnswer(answer)
    BY <1>9 DEF HandleAnswer
  <2>3. requests' \subseteq requests /\ asked' = asked
    BY <1>9, <2>2 DEF HandleAnswer, ForwardAnswer, DropAnswer, RuntimeEnds, provider
  <2>4. /\ answers' \subseteq answers
        /\ \/ answers' = answers \ {answer} /\ arriving' \subseteq arriving \cup {answer}
           \/ arriving' = arriving
    BY <2>2 DEF ForwardAnswer, DropAnswer, RuntimeEnds
  <2>5. answers' \cup arriving' \subseteq answers \cup arriving /\ answers' \cap arriving' = {}
    BY <2>2, <2>4 DEF Travels
  <2> QED
    BY <2>1, <2>3, <2>5 DEF Travels
<1>10. CASE StubOnMessage
  <2>1. PICK c \in asked :
            /\ asked' = asked \ {c}
            /\ effects' = With(effects, c, ReturnValue(c))
            /\ answers' = answers \cup {[call |-> c, value |-> ReturnValue(c)]}
            /\ UNCHANGED <<client, arriving, requests>>
    BY <1>10 DEF StubOnMessage
  <2> DEFINE value == ReturnValue(c)
             answer == [call |-> c, value |-> value]
  <2>2. /\ DOMAIN effects' = DOMAIN effects \cup {c} /\ effects'[c] = value
        /\ \A d \in DOMAIN effects : effects'[d] = effects[d]
    BY <2>1 DEF Travels, With
  <2>3. UNCHANGED <<resolved_by, calling>>
    BY <2>1 DEF client
  <2>4. answer.call = c /\ answer.value = value /\ answers' = answers \cup {answer}
    BY <2>1
  <2> HIDE DEF value, answer
  <2>5. c \notin DOMAIN effects /\ c # calling.call /\ answer \notin answers \cup arriving
    BY <2>1, <2>4 DEF Travels
  <2> QED
    BY <2>1, <2>2, <2>3, <2>4, <2>5 DEF Travels
<1> QED
  BY <1>1, <1>2, <1>3, <1>4, <1>5, <1>6, <1>7, <1>8, <1>9, <1>10 DEF Next

-----------------------------------------------------------------------------
(* Processes and their sessions.                                           *)

\* Every step keeps them in order.
LEMMA NextProcesses == TypeInv /\ Processes /\ [Next]_vars => Processes'
<1> SUFFICES ASSUME TypeInv, Processes, [Next]_vars PROVE Processes'
  OBVIOUS
<1>0. /\ Len(calls) \in Nat /\ Ids = 1 .. Len(calls)
      /\ calling \in {Idle} \cup [call : {Len(calls)}, at : {"emplace", "send"}]
      /\ \A c \in Ids : calls[c].process \in Nat
      /\ process \in Nat
      /\ \A s \in DOMAIN m_pending_requests : m_pending_requests[s] \in Ids
      /\ DOMAIN resolved_by \subseteq Ids
  <2>1. \A c \in Ids : calls[c].process \in Nat
    <3>1. \A c \in Ids : calls[c] \in Made
      BY DEF TypeInv, Ids
    <3> QED
      BY <3>1 DEF Made
  <2>2. \A s \in DOMAIN m_pending_requests : m_pending_requests[s] \in Ids
    BY DEF TypeInv
  <2> QED
    BY <2>1, <2>2, NumberOfCalls DEF TypeInv
<1>1. ASSUME NEW what \in Calls, Call(what) PROVE Processes'
  <2> DEFINE new == Len(calls) + 1
  <2>1. /\ new \in Nat \ {0} /\ new \notin Ids /\ Ids' = Ids \cup {new}
        /\ \A c \in Ids : calls'[c] = calls[c] /\ status'[c] = status[c] /\ c < new
        /\ calls'[new].process = process
        /\ status'[new] = "waiting"
    BY <1>1, CallFacts
  <2>2. /\ alive /\ calling' = [call |-> new, at |-> "emplace"]
        /\ UNCHANGED <<m_pending_requests, resolved_by, process, alive>>
    BY <1>1 DEF Call
  <2>3. calling'.call = new
    BY <2>2
  <2> HIDE DEF new
  <2>4. \A c, d \in Ids' : c <= d => calls'[c].process <= calls'[d].process
    <3> SUFFICES ASSUME NEW c \in Ids', NEW d \in Ids', c <= d
                 PROVE  calls'[c].process <= calls'[d].process
      OBVIOUS
    <3>1. CASE d = new
      BY <1>0, <2>1, <3>1 DEF Processes
    <3>2. CASE d \in Ids /\ c \in Ids
      BY <2>1, <3>2 DEF Processes
    <3>3. CASE d \in Ids /\ c = new
      BY <1>0, <2>1, <3>3
    <3> QED
      BY <2>1, <3>1, <3>2, <3>3
  <2>5. \A c \in Ids' : calls'[c].process <= process'
    BY <1>0, <2>1, <2>2 DEF Processes
  <2>6. \A s \in DOMAIN m_pending_requests' : m_pending_requests'[s] # new
    BY <1>0, <2>1, <2>2
  <2>7. \A c \in Ids' : /\ status'[c] = "resolved" <=> c \in DOMAIN resolved_by'
                        /\ calls'[c].process = process' => status'[c] # "lost"
    BY <1>0, <2>1, <2>2 DEF Processes
  <2> QED
    BY <2>1, <2>2, <2>3, <2>4, <2>5, <2>6, <2>7 DEF Processes, Emplacing
<1>2. CASE Emplace
  <2>1. /\ calling.at = "emplace" /\ calling # Idle /\ calling.call \in Ids
        /\ calling'.call = calling.call /\ calling'.at = "send"
    BY <1>0, <1>2 DEF Emplace, Idle, TypeInv
  <2>2. UNCHANGED <<calls, resolved_by, process, alive>> /\ Ids' = Ids
    BY <1>2 DEF Emplace, Ids
  <2>3. \A c \in Ids : status'[c] = status[c] \/ (c = calling.call /\ status'[c] = "broken")
    <3>1. status \in [Ids -> Statuses]
      BY DEF TypeInv
    <3>2. status' = status \/ status' = [status EXCEPT ![calling.call] = "broken"]
      BY <1>2 DEF Emplace
    <3> QED
      BY <2>1, <3>1, <3>2
  <2>4. alive /\ calls[calling.call].process = process /\ status[calling.call] = "waiting"
    BY <2>1 DEF Processes
  <2> QED
    BY <2>1, <2>2, <2>3, <2>4 DEF Processes, Emplacing
<1>3. CASE Send
  <2>1. calling' = Idle /\ calling'.at = "idle"
    BY <1>3 DEF Send, Idle
  <2>2. UNCHANGED <<calls, status, resolved_by, process, alive, m_pending_requests>> /\ Ids' = Ids
    BY <1>3 DEF Send, Ids
  <2> QED
    BY <2>1, <2>2 DEF Processes, Emplacing
<1>4. CASE OnMessage
  <2>1. PICK answer \in arriving :
           /\ alive
           /\ Fulfilled(answer) \/ UNCHANGED <<status, resolved_by>>
           /\ DOMAIN m_pending_requests' \subseteq DOMAIN m_pending_requests
           /\ \A s \in DOMAIN m_pending_requests' : m_pending_requests'[s] = m_pending_requests[s]
           /\ UNCHANGED <<calling, calls, process, alive>>
    BY <1>4, OnMessageFacts
  <2>2. Ids' = Ids
    BY <2>1 DEF Ids
  <2>3. CASE UNCHANGED <<status, resolved_by>>
    BY <2>1, <2>2, <2>3 DEF Processes, Emplacing
  <2>4. CASE Fulfilled(answer)
    <3> DEFINE call == m_pending_requests[calls[answer.call].session]
    <3>1. /\ call \in Ids /\ status[call] = "waiting"
          /\ status'[call] = "resolved" /\ \A c \in Ids \ {call} : status'[c] = status[c]
          /\ DOMAIN resolved_by' = DOMAIN resolved_by \cup {call}
      BY <2>4, FulfilFacts DEF Fulfilled
    <3>2. ~Emplacing(call)
      BY <2>4 DEF Fulfilled, Processes
    <3> HIDE DEF call
    <3>3. calling.at = "emplace" => calling.call \in Ids \ {call}
      <4>1. calling.at = "emplace" => calling.call \in Ids
        BY <1>0 DEF Idle, TypeInv
      <4> QED
        BY <3>2, <4>1 DEF Emplacing
    <3> QED
      BY <2>1, <2>2, <3>1, <3>3 DEF Processes, Emplacing
  <2> QED
    BY <2>1, <2>3, <2>4
<1>5. CASE ClientEnds
  <2>1. calling' = Idle /\ calling'.at = "idle"
    BY <1>5 DEF ClientEnds, Idle
  <2>2. UNCHANGED <<calls, resolved_by, process>> /\ Ids' = Ids /\ m_pending_requests' = <<>>
        /\ alive' = FALSE
    BY <1>5 DEF ClientEnds, Ids
  <2>3. \A c \in Ids : status'[c] = IF status[c] = "waiting" THEN "lost" ELSE status[c]
    BY <1>5 DEF ClientEnds, TypeInv
  <2> QED
    BY <2>1, <2>2, <2>3 DEF Processes, Emplacing
<1>6. CASE ClientStarts
  <2>1. calling = Idle /\ m_pending_requests = <<>>
    BY <1>6 DEF ClientStarts, Processes
  <2>2. UNCHANGED <<calls, resolved_by, status, calling, m_pending_requests>> /\ Ids' = Ids
        /\ process' = process + 1
    BY <1>6 DEF ClientStarts, Ids
  <2>3. calling.at = "idle"
    BY <2>1 DEF Idle
  <2>4. \A c \in Ids : calls[c].process <= process' /\ calls[c].process # process'
    BY <1>0, <2>2 DEF Processes
  <2> QED
    BY <2>1, <2>2, <2>3, <2>4 DEF Processes, Emplacing
<1>7. CASE UNCHANGED client
  BY <1>7 DEF Processes, Emplacing, client, Ids
<1>8. HandleRequest \/ HandleAnswer \/ Lose \/ Register \/ RuntimeForgets \/ RuntimeRestarts
          \/ StubOnMessage \/ ProviderRestarts \/ UNCHANGED vars => UNCHANGED client
  BY ClientAlone
<1> QED
  BY <1>1, <1>2, <1>3, <1>4, <1>5, <1>6, <1>7, <1>8 DEF Next

\* Every step keeps the sessions of a process going round.
LEMMA NextSessions == TypeInv /\ Processes /\ Sessions /\ [Next]_vars => Sessions'
<1> SUFFICES ASSUME TypeInv, Processes, Sessions, [Next]_vars PROVE Sessions'
  OBVIOUS
<1>0. /\ MaxSession \in Nat \ {0} /\ m_session_counter \in 1 .. MaxSession
      /\ Len(calls) \in Nat /\ Ids = 1 .. Len(calls)
      /\ \A c \in Ids : calls[c].session \in 1 .. MaxSession /\ calls[c].process \in Nat
      /\ process \in Nat
      /\ calling # Idle => calling.call = Len(calls) /\ calling.call \in Ids
  <2>1. \A c \in Ids : calls[c] \in Made
    BY DEF TypeInv, Ids
  <2>2. calling # Idle => calling.call = Len(calls) /\ calls # <<>>
    BY DEF TypeInv
  <2>3. m_session_counter \in 1 .. MaxSession /\ process \in Nat
    BY DEF TypeInv
  <2>4. \A c \in Ids : calls[c].session \in 1 .. MaxSession /\ calls[c].process \in Nat
    BY <2>1 DEF Made
  <2>5. Len(calls) \in Nat /\ Ids = 1 .. Len(calls)
    BY NumberOfCalls
  <2>6. calling # Idle => calling.call \in Ids
    <3>1. calling # Idle => Len(calls) >= 1
      BY <2>2, <2>5 DEF TypeInv
    <3> QED
      BY <2>2, <2>5, <3>1
  <2> QED
    BY <2>2, <2>3, <2>4, <2>5, <2>6, SessionAssumption
<1>1. ASSUME NEW what \in Calls, Call(what) PROVE Sessions'
  <2> DEFINE new == Len(calls) + 1
  <2>1. /\ new \in Nat \ {0} /\ new \notin Ids /\ Ids' = Ids \cup {new} /\ Len(calls') = new
        /\ \A c \in Ids : calls'[c] = calls[c] /\ c < new
        /\ calls'[new].process = process
        /\ calls'[new].session = m_session_counter
    BY <1>1, CallFacts
  <2>2. /\ alive /\ calling = Idle /\ calling' = [call |-> new, at |-> "emplace"]
        /\ UNCHANGED <<m_session_counter, process, alive>>
    BY <1>1 DEF Call
  <2>3. calling' # Idle /\ calling'.call = new /\ Upcoming = new /\ Upcoming' = new
    BY <2>1, <2>2 DEF Upcoming, Idle
  <2> HIDE DEF new
  <2>4. \A c \in Ids : calls[c].process = process /\ new - c <= MaxSession =>
                           m_session_counter = Later(calls[c].session, new - c)
    BY <2>2, <2>3 DEF Sessions
  <2>5. Later(m_session_counter, new - new) = m_session_counter
    BY <1>0, <2>1 DEF Later
  <2>6. ASSUME NEW c \in Ids', NEW d \in Ids', calls'[c].process = calls'[d].process,
               c <= d, d - c <= MaxSession
        PROVE  calls'[d].session = Later(calls'[c].session, d - c)
    <3>1. CASE d = new /\ c \in Ids
      BY <2>1, <2>4, <2>6, <3>1
    <3>2. CASE d = new /\ c = new
      BY <2>1, <2>5, <3>2
    <3>3. CASE d \in Ids
      <4>1. c \in Ids
        BY <1>0, <2>1, <2>6, <3>3
      <4> QED
        BY <2>1, <2>6, <3>3, <4>1 DEF Sessions
    <3> QED
      BY <2>1, <3>1, <3>2, <3>3
  <2>7. ASSUME NEW c \in Ids', calls'[c].process = process, new - c <= MaxSession
        PROVE  m_session_counter = Later(calls'[c].session, new - c)
    BY <2>1, <2>4, <2>5, <2>7
  <2> QED
    BY <2>1, <2>2, <2>3, <2>6, <2>7 DEF Sessions, Later
<1>2. CASE Emplace
  <2>1. UNCHANGED <<m_session_counter, calls, process, alive>> /\ Ids' = Ids
    BY <1>2 DEF Emplace, Ids
  <2>2. calling # Idle /\ calling' # Idle /\ calling'.call = calling.call
    <3>1. calling # Idle
      BY <1>2 DEF Emplace, Idle
    <3>2. calling \in [call : {Len(calls)}, at : {"emplace", "send"}]
      BY <3>1 DEF TypeInv
    <3> QED
      BY <1>2, <3>1, <3>2 DEF Emplace, Idle
  <2>3. Upcoming' = Upcoming
    BY <2>1, <2>2 DEF Upcoming
  <2> QED
    BY <2>1, <2>2, <2>3 DEF Sessions, Later
<1>3. CASE Send
  <2>1. UNCHANGED <<calls, process, alive>> /\ Ids' = Ids /\ calling # Idle /\ calling' = Idle
        /\ m_session_counter' = NextSession
    BY <1>3 DEF Send, Ids, Idle
  <2>2. Upcoming = Len(calls) /\ Upcoming' = Len(calls) + 1
    BY <2>1 DEF Upcoming
  <2>3. ASSUME NEW c \in Ids, alive, calls[c].process = process, Len(calls) + 1 - c <= MaxSession
        PROVE  m_session_counter' = Later(calls[c].session, Len(calls) + 1 - c)
    <3> DEFINE s == calls[c].session
               k == Len(calls) - c
    <3>1. s \in 1 .. MaxSession /\ k \in Nat /\ k + 1 <= MaxSession /\ Len(calls) + 1 - c = k + 1
      BY <1>0, <2>3
    <3>2. m_session_counter = Later(s, k)
      BY <1>0, <2>2, <2>3, <3>1 DEF Sessions
    <3>3. m_session_counter' = IF m_session_counter = MaxSession THEN 1 ELSE m_session_counter + 1
      BY <1>0, <2>1, NextSessionFacts
    <3> HIDE DEF s, k
    <3>4. m_session_counter' = Later(s, k + 1)
      BY <1>0, <3>1, <3>2, <3>3 DEF Later
    <3> QED
      BY <3>1, <3>4 DEF s
  <2>4. ASSUME NEW c \in Ids', alive', calls'[c].process = process', Upcoming' - c <= MaxSession
        PROVE  m_session_counter' = Later(calls'[c].session, Upcoming' - c)
    <3>1. c \in Ids /\ alive /\ calls[c].process = process /\ Upcoming' - c = Len(calls) + 1 - c
          /\ calls' = calls
      <4>1. Ids' = Ids /\ calls' = calls /\ process' = process
        BY <2>1
      <4>2. Upcoming' - c = Len(calls) + 1 - c
        BY <1>0, <2>2, <4>1
      <4>3. alive
        BY <2>1, <2>4
      <4> QED
        BY <2>4, <4>1, <4>2, <4>3
    <3>2. m_session_counter' = Later(calls[c].session, Len(calls) + 1 - c)
      BY <2>3, <2>4, <3>1
    <3> QED
      BY <3>1, <3>2
  <2>5. \A c, d \in Ids' :
            calls'[c].process = calls'[d].process /\ c <= d /\ d - c <= MaxSession =>
                calls'[d].session = Later(calls'[c].session, d - c)
    BY <2>1 DEF Sessions
  <2> QED
    BY <2>1, <2>4, <2>5 DEF Sessions, Later
<1>4. CASE OnMessage
  <2>1. UNCHANGED <<m_session_counter, calling, calls, process, alive>>
    BY <1>4 DEF OnMessage
  <2> QED
    BY <2>1 DEF Sessions, Later, Upcoming, Ids
<1>5. CASE ClientEnds
  <2>1. calling' = Idle /\ alive' = FALSE /\ UNCHANGED calls
    BY <1>5 DEF ClientEnds
  <2> QED
    BY <2>1 DEF Sessions, Later, Ids
<1>6. CASE ClientStarts
  <2>1. calling' = Idle /\ process' = process + 1 /\ UNCHANGED calls
    BY <1>6 DEF ClientStarts, Processes
  <2>2. \A c \in Ids : calls[c].process # process'
    BY <1>0, <2>1 DEF Processes
  <2> QED
    BY <2>1, <2>2 DEF Sessions, Later, Ids
<1>7. CASE UNCHANGED client
  BY <1>7 DEF Sessions, Later, Upcoming, Ids, client
<1>8. HandleRequest \/ HandleAnswer \/ Lose \/ Register \/ RuntimeForgets \/ RuntimeRestarts
          \/ StubOnMessage \/ ProviderRestarts \/ UNCHANGED vars => UNCHANGED client
  BY ClientAlone
<1> QED
  BY <1>1, <1>2, <1>3, <1>4, <1>5, <1>6, <1>7, <1>8 DEF Next

-----------------------------------------------------------------------------
(* Promises and answers.                                                   *)

\* What was raced stays so.
LEMMA RacedStays == raced /\ [Next]_vars => raced'
<1>1. raced /\ OnMessage => raced'
  BY DEF OnMessage, Resolve, Ignore, Race
<1>2. Emplace \/ Send \/ ClientEnds \/ ClientStarts \/ (\E what \in Calls : Call(what)) =>
          UNCHANGED raced
  BY DEF Emplace, Send, ClientEnds, ClientStarts, Call
<1>3. HandleRequest \/ HandleAnswer \/ Lose \/ Register => UNCHANGED raced
  BY DEF HandleRequest, HandleAnswer, Lose, Register
<1>4. RuntimeForgets \/ RuntimeRestarts \/ StubOnMessage \/ ProviderRestarts => UNCHANGED raced
  BY DEF RuntimeForgets, RuntimeRestarts, StubOnMessage, ProviderRestarts
<1>5. UNCHANGED vars => UNCHANGED raced
  BY DEF vars, calculator
<1> QED
  BY <1>1, <1>2, <1>3, <1>4, <1>5 DEF Next

\* Unless the map is used by both threads at once, it keeps the promises that wait.
LEMMA NextPromises ==
    TypeInv /\ Processes /\ Sessions /\ Promises /\ ~raced' /\ [Next]_vars => Promises'
<1> SUFFICES ASSUME TypeInv, Processes, Sessions, Promises, ~raced', [Next]_vars PROVE Promises'
  OBVIOUS
<1>0. /\ Len(calls) \in Nat /\ Ids = 1 .. Len(calls)
      /\ \A s \in DOMAIN m_pending_requests : m_pending_requests[s] \in Ids
      /\ calling # Idle => calling.call = Len(calls) /\ calling.call \in Ids
      /\ status \in [Ids -> Statuses]
  <2>1. \A s \in DOMAIN m_pending_requests : m_pending_requests[s] \in Ids
    BY DEF TypeInv
  <2>2. calling # Idle => calling.call = Len(calls) /\ calls # <<>>
    BY DEF TypeInv
  <2> QED
    BY <2>1, <2>2, NumberOfCalls DEF TypeInv
<1>1. ASSUME NEW what \in Calls, Call(what) PROVE Promises'
  <2> DEFINE new == Len(calls) + 1
  <2>1. /\ new \in Nat \ {0} /\ new \notin Ids /\ Ids' = Ids \cup {new}
        /\ \A c \in Ids : calls'[c] = calls[c] /\ status'[c] = status[c] /\ c < new
    BY <1>1, CallFacts
  <2>2. /\ calling = Idle /\ calling' = [call |-> new, at |-> "emplace"]
        /\ UNCHANGED <<m_pending_requests, process>>
    BY <1>1 DEF Call
  <2>3. calling.at # "emplace" /\ calling'.at = "emplace" /\ calling'.call = new
    BY <2>2 DEF Idle
  <2> HIDE DEF new
  <2>4. ASSUME NEW s \in DOMAIN m_pending_requests'
        PROVE  LET c == m_pending_requests'[s]
               IN  /\ calls'[c].session = s /\ calls'[c].process = process'
                   /\ status'[c] = "waiting"
                   /\ \A d \in Ids' : d > c /\ calls'[d].session = s /\ ~Emplacing(d)' =>
                                          status'[d] = "broken"
    <3> DEFINE c == m_pending_requests[s]
    <3>1. s \in DOMAIN m_pending_requests /\ c \in Ids /\ m_pending_requests'[s] = c
      BY <1>0, <2>2, <2>4
    <3>2. /\ calls[c].session = s /\ calls[c].process = process /\ status[c] = "waiting"
          /\ \A d \in Ids : d > c /\ calls[d].session = s /\ ~Emplacing(d) => status[d] = "broken"
      BY <3>1 DEF Promises
    <3> HIDE DEF c
    <3>3. ASSUME NEW d \in Ids', d > c, calls'[d].session = s, ~Emplacing(d)'
          PROVE  status'[d] = "broken"
      <4>1. d \in Ids /\ ~Emplacing(d)
        BY <2>1, <2>3, <3>3 DEF Emplacing
      <4>2. calls'[d] = calls[d] /\ status'[d] = status[d]
        BY <2>1, <4>1
      <4> QED
        BY <3>2, <3>3, <4>1, <4>2
    <3>4. calls'[c] = calls[c] /\ status'[c] = status[c] /\ process' = process
      BY <2>1, <2>2, <3>1
    <3> QED
      BY <3>1, <3>2, <3>3, <3>4
  <2>5. ASSUME NEW c \in Ids', status'[c] = "waiting", ~Emplacing(c)'
        PROVE  /\ calls'[c].session \in DOMAIN m_pending_requests'
               /\ m_pending_requests'[calls'[c].session] = c
    <3>1. c \in Ids /\ ~Emplacing(c)
      BY <2>1, <2>3, <2>5 DEF Emplacing
    <3>2. calls'[c] = calls[c] /\ status'[c] = status[c]
      BY <2>1, <3>1
    <3> QED
      BY <2>2, <2>5, <3>1, <3>2 DEF Promises
  <2> QED
    BY <2>4, <2>5 DEF Promises
<1>2. CASE Emplace
  <2> DEFINE k == calling.call
  <2>1. /\ calling.at = "emplace" /\ calling # Idle /\ k \in Ids /\ k = Len(calls)
        /\ calling'.at = "send"
    <3>1. calling.at = "emplace" /\ calling # Idle
      BY <1>2 DEF Emplace, Idle
    <3>2. calling \in [call : {Len(calls)}, at : {"emplace", "send"}]
      BY <3>1 DEF TypeInv
    <3> QED
      BY <1>0, <1>2, <3>1, <3>2 DEF Emplace
  <2>2. UNCHANGED <<calls, process>> /\ Ids' = Ids
    BY <1>2 DEF Emplace, Ids
  <2>3. /\ status[k] = "waiting" /\ calls[k].process = process
        /\ calls[k].session = m_session_counter
        /\ \A s \in DOMAIN m_pending_requests : m_pending_requests[s] # k
    BY <2>1 DEF Processes, Sessions, Emplacing
  <2>4. \A c \in Ids : c <= k
    BY <1>0, <2>1
  <2>5. CASE m_session_counter \in DOMAIN m_pending_requests
    <3>1. UNCHANGED m_pending_requests /\ status' = [status EXCEPT ![k] = "broken"]
      BY <1>2, <2>5 DEF Emplace
    <3>2. status'[k] = "broken" /\ \A c \in Ids \ {k} : status'[c] = status[c]
      BY <1>0, <2>1, <3>1
    <3> HIDE DEF k
    <3> QED
      BY <1>0, <2>1, <2>2, <2>3, <3>1, <3>2 DEF Promises, Emplacing, k
  <2>6. CASE m_session_counter \notin DOMAIN m_pending_requests
    <3>1. UNCHANGED status /\ m_pending_requests' = With(m_pending_requests, m_session_counter, k)
      BY <1>2, <2>6 DEF Emplace
    <3>2. /\ DOMAIN m_pending_requests' = DOMAIN m_pending_requests \cup {m_session_counter}
          /\ m_pending_requests'[m_session_counter] = k
          /\ \A s \in DOMAIN m_pending_requests : m_pending_requests'[s] = m_pending_requests[s]
      BY <2>6, <3>1 DEF With
    <3>3. \A c \in Ids : Emplacing(c) <=> c = k
      BY <2>1 DEF Emplacing
    <3>4. \A c \in Ids : ~Emplacing(c)'
      BY <2>1 DEF Emplacing
    <3> HIDE DEF k
    <3>5. ASSUME NEW s \in DOMAIN m_pending_requests'
          PROVE  LET c == m_pending_requests'[s]
                 IN  /\ calls[c].session = s /\ calls[c].process = process
                     /\ status[c] = "waiting"
                     /\ \A d \in Ids : d > c /\ calls[d].session = s => status[d] = "broken"
      <4>1. CASE s = m_session_counter
        BY <1>0, <2>1, <2>3, <2>4, <3>2, <4>1
      <4>2. CASE s \in DOMAIN m_pending_requests /\ s # m_session_counter
        BY <2>3, <3>2, <3>3, <4>2 DEF Promises
      <4> QED
        BY <2>6, <3>2, <4>1, <4>2
    <3>6. ASSUME NEW c \in Ids, status[c] = "waiting"
          PROVE  /\ calls[c].session \in DOMAIN m_pending_requests'
                 /\ m_pending_requests'[calls[c].session] = c
      <4>1. CASE c = k
        BY <2>3, <3>2, <4>1
      <4>2. CASE c # k
        BY <3>2, <3>3, <3>6, <4>2 DEF Promises
      <4> QED
        BY <4>1, <4>2
    <3> QED
      BY <2>2, <3>1, <3>4, <3>5, <3>6 DEF Promises
  <2> QED
    BY <2>5, <2>6
<1>3. CASE Send
  <2>1. UNCHANGED <<calls, status, process, m_pending_requests>> /\ Ids' = Ids
        /\ calling.at = "send" /\ calling'.at = "idle"
    BY <1>3 DEF Send, Ids, Idle
  <2> QED
    BY <2>1 DEF Promises, Emplacing
<1>4. CASE OnMessage
  <2>1. PICK answer \in arriving :
           /\ \/ /\ Fulfilled(answer)
                 /\ DOMAIN m_pending_requests' =
                        DOMAIN m_pending_requests \ {calls[answer.call].session}
              \/ UNCHANGED <<status, m_pending_requests>>
           /\ \A s \in DOMAIN m_pending_requests' : m_pending_requests'[s] = m_pending_requests[s]
           /\ UNCHANGED <<calling, calls, process>>
    BY <1>4, OnMessageFacts
  <2>2. Ids' = Ids
    BY <2>1 DEF Ids
  <2>3. CASE UNCHANGED <<status, m_pending_requests>>
    BY <2>1, <2>2, <2>3 DEF Promises, Emplacing
  <2>4. CASE Fulfilled(answer) /\ DOMAIN m_pending_requests' =
                                     DOMAIN m_pending_requests \ {calls[answer.call].session}
    <3> DEFINE session == calls[answer.call].session
               call == m_pending_requests[session]
    <3>1. /\ call \in Ids /\ status[call] = "waiting"
          /\ status'[call] = "resolved" /\ \A c \in Ids \ {call} : status'[c] = status[c]
          /\ session \in DOMAIN m_pending_requests
          /\ DOMAIN m_pending_requests' = DOMAIN m_pending_requests \ {session}
      BY <2>4, FulfilFacts DEF Fulfilled
    <3>2. calls[call].session = session
      BY <3>1 DEF Promises
    <3>3. \A s \in DOMAIN m_pending_requests' : m_pending_requests[s] # call
      BY <3>1, <3>2 DEF Promises
    <3>4. \A c \in Ids \ {call} :
              status[c] = "waiting" /\ ~Emplacing(c) => calls[c].session # session
      BY <3>1 DEF Promises
    <3> HIDE DEF session, call
    <3>5. \A c : Emplacing(c)' <=> Emplacing(c)
      BY <2>1 DEF Emplacing
    <3>6. ASSUME NEW s \in DOMAIN m_pending_requests'
          PROVE  LET c == m_pending_requests'[s]
                 IN  /\ calls'[c].session = s /\ calls'[c].process = process'
                     /\ status'[c] = "waiting"
                     /\ \A d \in Ids' : d > c /\ calls'[d].session = s /\ ~Emplacing(d)' =>
                                            status'[d] = "broken"
      <4> DEFINE c == m_pending_requests[s]
      <4>1. s \in DOMAIN m_pending_requests /\ m_pending_requests'[s] = c /\ c # call /\ c \in Ids
        BY <1>0, <2>1, <3>1, <3>3, <3>6
      <4>2. /\ calls[c].session = s /\ calls[c].process = process /\ status[c] = "waiting"
            /\ \A d \in Ids : d > c /\ calls[d].session = s /\ ~Emplacing(d) => status[d] = "broken"
        BY <4>1 DEF Promises
      <4> HIDE DEF c
      <4>3. ASSUME NEW d \in Ids', d > c, calls'[d].session = s, ~Emplacing(d)'
            PROVE  status'[d] = "broken"
        <5>1. d \in Ids /\ ~Emplacing(d) /\ calls[d].session = s
          BY <2>1, <2>2, <3>5, <4>3
        <5>2. status[d] = "broken"
          BY <4>2, <4>3, <5>1
        <5> QED
          BY <3>1, <5>1, <5>2
      <4>4. status'[c] = status[c]
        BY <3>1, <4>1
      <4> QED
        BY <2>1, <4>1, <4>2, <4>3, <4>4
    <3>7. ASSUME NEW c \in Ids', status'[c] = "waiting", ~Emplacing(c)'
          PROVE  /\ calls'[c].session \in DOMAIN m_pending_requests'
                 /\ m_pending_requests'[calls'[c].session] = c
      <4>1. c \in Ids /\ c # call /\ status[c] = "waiting" /\ ~Emplacing(c)
        BY <2>2, <3>1, <3>5, <3>7
      <4>2. /\ calls[c].session \in DOMAIN m_pending_requests
            /\ m_pending_requests[calls[c].session] = c
        BY <4>1 DEF Promises
      <4>3. calls[c].session \in DOMAIN m_pending_requests'
        BY <3>1, <3>4, <4>1, <4>2
      <4> QED
        BY <2>1, <4>2, <4>3
    <3> QED
      BY <3>6, <3>7 DEF Promises
  <2> QED
    BY <2>1, <2>3, <2>4
<1>5. CASE ClientEnds
  <2>1. UNCHANGED calls /\ Ids' = Ids /\ m_pending_requests' = <<>> /\ DOMAIN <<>> = {}
    BY <1>5 DEF ClientEnds, Ids
  <2>2. \A c \in Ids : status'[c] # "waiting"
    BY <1>0, <1>5 DEF ClientEnds
  <2> QED
    BY <2>1, <2>2 DEF Promises
<1>6. CASE ClientStarts
  <2>1. /\ UNCHANGED <<calls, status, calling, m_pending_requests>> /\ Ids' = Ids
        /\ DOMAIN m_pending_requests = {}
    BY <1>6 DEF ClientStarts, Ids, Processes
  <2> QED
    BY <2>1 DEF Promises, Emplacing
<1>7. CASE UNCHANGED client
  BY <1>7 DEF Promises, Emplacing, client, Ids
<1>8. HandleRequest \/ HandleAnswer \/ Lose \/ Register \/ RuntimeForgets \/ RuntimeRestarts
          \/ StubOnMessage \/ ProviderRestarts \/ UNCHANGED vars => UNCHANGED client
  BY ClientAlone
<1> QED
  BY <1>1, <1>2, <1>3, <1>4, <1>5, <1>6, <1>7, <1>8 DEF Next

\* What AnswersAreOwn says of one call.
OwnOrOfReused(c) ==
    LET by == resolved_by[c].call
    IN  \/ by = c
        \/ /\ calls[by].session = calls[c].session
           /\ \/ calls[by].process < calls[c].process
              \/ /\ calls[by].process = calls[c].process
                 /\ \/ status[by] = "broken"
                    \/ by < c /\ by \in DOMAIN resolved_by /\ resolved_by[by].call # by

\* A call that is made stays as it was, a broken future stays broken, and what
\* resolved a call does not change.
LEMMA History ==
    ASSUME TypeInv, Processes, [Next]_vars
    PROVE  /\ \A c \in Ids : /\ c \in Ids' /\ calls'[c] = calls[c]
                             /\ status[c] = "broken" => status'[c] = "broken"
           /\ \A c \in DOMAIN resolved_by :
                  c \in DOMAIN resolved_by' /\ resolved_by'[c] = resolved_by[c]
<1>0. /\ Len(calls) \in Nat /\ Ids = 1 .. Len(calls)
      /\ calling # Idle => calling.call = Len(calls) /\ calling.call \in Ids
      /\ status \in [Ids -> Statuses]
  <2>1. calling # Idle => calling.call = Len(calls) /\ calls # <<>>
    BY DEF TypeInv
  <2> QED
    BY <2>1, NumberOfCalls DEF TypeInv
<1>1. ASSUME NEW what \in Calls, Call(what)
      PROVE  /\ \A c \in Ids : c \in Ids' /\ calls'[c] = calls[c] /\ status'[c] = status[c]
             /\ UNCHANGED resolved_by
  <2>1. UNCHANGED resolved_by
    BY <1>1 DEF Call
  <2> QED
    BY <1>1, <2>1, CallFacts
<1>2. CASE Emplace
  <2>1. UNCHANGED <<calls, resolved_by>> /\ Ids' = Ids /\ calling # Idle
    BY <1>2 DEF Emplace, Ids, Idle
  <2>2. status' = status \/ status' = [status EXCEPT ![calling.call] = "broken"]
    BY <1>2 DEF Emplace
  <2> QED
    BY <1>0, <2>1, <2>2
<1>3. CASE Send \/ ClientStarts
  BY <1>3 DEF Send, ClientStarts, Ids
<1>4. CASE OnMessage
  <2>1. PICK answer \in arriving :
           /\ Fulfilled(answer) \/ UNCHANGED <<status, resolved_by>>
           /\ UNCHANGED calls
    BY <1>4, OnMessageFacts
  <2>2. Ids' = Ids
    BY <2>1 DEF Ids
  <2>3. CASE UNCHANGED <<status, resolved_by>>
    BY <2>1, <2>2, <2>3
  <2>4. CASE Fulfilled(answer)
    <3> DEFINE call == m_pending_requests[calls[answer.call].session]
    <3>1. /\ call \in Ids /\ status[call] = "waiting"
          /\ \A c \in Ids \ {call} : status'[c] = status[c]
          /\ DOMAIN resolved_by' = DOMAIN resolved_by \cup {call}
          /\ \A c \in DOMAIN resolved_by \ {call} : resolved_by'[c] = resolved_by[c]
      BY <2>4, FulfilFacts DEF Fulfilled
    <3> HIDE DEF call
    <3>2. call \notin DOMAIN resolved_by
      BY <3>1 DEF Processes
    <3> QED
      BY <2>1, <2>2, <3>1, <3>2
  <2> QED
    BY <2>1, <2>3, <2>4
<1>5. CASE ClientEnds
  <2>1. UNCHANGED <<calls, resolved_by>> /\ Ids' = Ids
    BY <1>5 DEF ClientEnds, Ids
  <2>2. \A c \in Ids : status'[c] = IF status[c] = "waiting" THEN "lost" ELSE status[c]
    BY <1>0, <1>5 DEF ClientEnds
  <2> QED
    BY <2>1, <2>2
<1>6. CASE UNCHANGED client
  BY <1>6 DEF client, Ids
<1>7. HandleRequest \/ HandleAnswer \/ Lose \/ Register \/ RuntimeForgets \/ RuntimeRestarts
          \/ StubOnMessage \/ ProviderRestarts \/ UNCHANGED vars => UNCHANGED client
  BY ClientAlone
<1> QED
  BY <1>1, <1>2, <1>3, <1>4, <1>5, <1>6, <1>7 DEF Next

\* The answer that is about to resolve a call is its own, or may be used for it.
LEMMA AnswerMayBeUsed ==
    ASSUME TypeInv, Travels, Processes, Promises, alive, NEW answer \in arriving,
           Fulfilled(answer)
    PROVE  LET c == m_pending_requests[calls[answer.call].session]
               by == answer.call
           IN  \/ by = c
               \/ /\ calls[by].session = calls[c].session
                  /\ \/ calls[by].process < calls[c].process
                     \/ /\ calls[by].process = calls[c].process
                        /\ \/ status[by] = "broken"
                           \/ by < c /\ by \in DOMAIN resolved_by /\ resolved_by[by].call # by
<1> DEFINE by == answer.call
           session == calls[by].session
           c == m_pending_requests[session]
<1>0. /\ Len(calls) \in Nat /\ Ids = 1 .. Len(calls)
      /\ status \in [Ids -> Statuses]
      /\ \A d \in Ids : calls[d].process \in Nat
      /\ process \in Nat
  <2>1. \A d \in Ids : calls[d] \in Made
    BY DEF TypeInv, Ids
  <2> QED
    BY <2>1, NumberOfCalls DEF TypeInv, Made
<1>1. session \in DOMAIN m_pending_requests /\ c \in Ids /\ by \in Ids
  BY FulfilFacts DEF Fulfilled, Answers
<1>2. /\ calls[c].session = session /\ calls[c].process = process /\ status[c] = "waiting"
      /\ \A d \in Ids : d > c /\ calls[d].session = session /\ ~Emplacing(d) =>
                            status[d] = "broken"
  BY <1>1 DEF Promises
<1>3. by \in DOMAIN effects /\ by # calling.call
  BY DEF Travels
<1>4. ~Emplacing(by)
  BY <1>3 DEF Emplacing
<1>5. status[by] = "waiting" => by = c
  BY <1>1, <1>4 DEF Promises
<1>6. calls[by].process <= process
  BY <1>1 DEF Processes
<1>7. calls[by].process = process => status[by] # "lost"
  BY <1>1 DEF Processes
<1>8. status[by] = "resolved" => by \in DOMAIN resolved_by /\ resolved_by[by].call # by
  <2>1. \A d \in DOMAIN resolved_by : resolved_by[d].call # by
    BY DEF Travels
  <2> QED
    BY <1>1, <2>1 DEF Processes
<1>9. status[by] = "resolved" /\ by # c => by < c
  BY <1>0, <1>1, <1>2, <1>4
<1>10. status[by] \in Statuses
  BY <1>0, <1>1
<1> HIDE DEF by, c
<1>11. \/ by = c
       \/ /\ session = calls[c].session
          /\ \/ calls[by].process < calls[c].process
             \/ /\ calls[by].process = calls[c].process
                /\ \/ status[by] = "broken"
                   \/ by < c /\ by \in DOMAIN resolved_by /\ resolved_by[by].call # by
  BY <1>0, <1>1, <1>2, <1>5, <1>6, <1>7, <1>8, <1>9, <1>10 DEF Statuses
<1> QED
  BY <1>11 DEF by, c

\* Every step resolves a call with its own answer, or with one that may be used for it.
LEMMA NextOwn == IInv /\ [Next]_vars => AnswersAreOwn'
<1> SUFFICES ASSUME IInv, [Next]_vars, ~raced', NEW c \in DOMAIN resolved_by'
             PROVE  OwnOrOfReused(c)'
  BY DEF AnswersAreOwn, OwnOrOfReused
<1>0. TypeInv /\ Travels /\ Processes /\ Sessions
  BY DEF IInv
<1>1. ~raced /\ Promises
  BY RacedStays DEF IInv
<1>2. /\ \A d \in Ids : /\ d \in Ids' /\ calls'[d] = calls[d]
                        /\ status[d] = "broken" => status'[d] = "broken"
      /\ \A d \in DOMAIN resolved_by :
             d \in DOMAIN resolved_by' /\ resolved_by'[d] = resolved_by[d]
  BY <1>0, History
<1>3. /\ \A d \in DOMAIN resolved_by : d \in Ids /\ resolved_by[d].call \in Ids
      /\ \A answer \in arriving : answer.call \in Ids
  <2>1. \A d \in DOMAIN resolved_by : resolved_by[d] \in Answers
    BY <1>0 DEF TypeInv
  <2> QED
    BY <1>0, <2>1 DEF TypeInv, Answers
<1>4. CASE c \in DOMAIN resolved_by
  <2>1. OwnOrOfReused(c)
    BY <1>1, <1>4 DEF IInv, AnswersAreOwn, OwnOrOfReused
  <2> QED
    BY <1>2, <1>3, <1>4, <2>1 DEF OwnOrOfReused
<1>5. CASE c \notin DOMAIN resolved_by
  <2>1. CASE OnMessage
    <3>1. PICK answer \in arriving :
             /\ alive
             /\ Fulfilled(answer) \/ UNCHANGED <<status, resolved_by>>
      BY <1>0, <2>1, OnMessageFacts
    <3>2. Fulfilled(answer)
      BY <1>5, <3>1
    <3> DEFINE call == m_pending_requests[calls[answer.call].session]
               by == answer.call
    <3>3. call \in Ids /\ resolved_by'[call] = answer
          /\ DOMAIN resolved_by' = DOMAIN resolved_by \cup {call}
      BY <1>0, <3>2, FulfilFacts DEF Fulfilled
    <3>4. \/ by = call
          \/ /\ calls[by].session = calls[call].session
             /\ \/ calls[by].process < calls[call].process
                \/ /\ calls[by].process = calls[call].process
                   /\ \/ status[by] = "broken"
                      \/ by < call /\ by \in DOMAIN resolved_by /\ resolved_by[by].call # by
      BY <1>0, <1>1, <3>1, <3>2, AnswerMayBeUsed
    <3> HIDE DEF call
    <3>5. c = call /\ resolved_by'[c].call = by
      BY <1>5, <3>3
    <3> QED
      BY <1>2, <1>3, <3>3, <3>4, <3>5 DEF OwnOrOfReused
  <2>2. CASE \E what \in Calls : Call(what)
    BY <1>5, <2>2 DEF Call
  <2>3. CASE Emplace \/ Send \/ ClientEnds \/ ClientStarts
    BY <1>5, <2>3 DEF Emplace, Send, ClientEnds, ClientStarts
  <2>4. CASE UNCHANGED client
    BY <1>5, <2>4 DEF client
  <2>5. HandleRequest \/ HandleAnswer \/ Lose \/ Register \/ RuntimeForgets \/ RuntimeRestarts
            \/ StubOnMessage \/ ProviderRestarts \/ UNCHANGED vars => UNCHANGED client
    BY ClientAlone
  <2> QED
    BY <2>1, <2>2, <2>3, <2>4, <2>5 DEF Next
<1> QED
  BY <1>4, <1>5

\* Everything starts in order.
LEMMA InitIInv == Init => IInv
<1> SUFFICES ASSUME Init PROVE IInv
  OBVIOUS
<1>1. /\ calls = <<>> /\ Ids = {} /\ Len(calls) = 0 /\ status = <<>> /\ resolved_by = <<>>
      /\ effects = <<>> /\ m_pending_requests = <<>>
  BY DEF Init, Ids
<1>2. DOMAIN <<>> = {} /\ <<>> \in [{} -> Statuses] /\ <<>> \in [{} -> Ids]
      /\ <<>> \in [{} -> Answers] /\ <<>> \in [{} -> Nat] /\ <<>> \in Seq(Made)
  OBVIOUS
<1>3. TypeInv
  <2>1. /\ m_session_counter = 1 /\ calling = Idle /\ process = 1 /\ alive = TRUE /\ raced = FALSE
        /\ requests = {} /\ asked = {} /\ answers = {} /\ arriving = {} /\ m_Precision = 2
    BY DEF Init
  <2>2. m_session_counter \in 1 .. MaxSession
    BY <2>1, SessionAssumption
  <2> QED
    BY <1>1, <1>2, <2>1, <2>2 DEF TypeInv
<1>4. Travels
  BY <1>1, <1>2 DEF Travels, Init
<1>5. Processes
  BY <1>1, <1>2 DEF Processes, Init, Idle
<1>6. Sessions
  BY <1>1 DEF Sessions, Init
<1>7. Promises
  BY <1>1, <1>2 DEF Promises
<1>8. AnswersAreOwn
  BY <1>1, <1>2 DEF AnswersAreOwn
<1> QED
  BY <1>3, <1>4, <1>5, <1>6, <1>7, <1>8 DEF IInv

\* Every step keeps all of it.
LEMMA NextIInv == IInv /\ [Next]_vars => IInv'
<1> SUFFICES ASSUME IInv, [Next]_vars PROVE IInv'
  OBVIOUS
<1>1. TypeInv /\ Travels /\ Processes /\ Sessions
  BY DEF IInv
<1>2. TypeInv' /\ Travels' /\ Processes' /\ Sessions'
  BY <1>1, NextType, NextTravels, NextProcesses, NextSessions
<1>3. ~raced' => Promises'
  <2>1. ~raced' => ~raced
    BY RacedStays
  <2> QED
    BY <1>1, <2>1, NextPromises DEF IInv
<1> QED
  BY <1>2, <1>3, NextOwn DEF IInv

-----------------------------------------------------------------------------
(* Theorems.                                                               *)

\* All of the invariant holds in every state.
THEOREM Invariant == Spec => []IInv
  BY InitIInv, NextIInv, PTL DEF Spec

\* Sessions, promises, messages and answers have their types, and the interface's thread
\* is in the last call, or in none (calculator_proxy.cpp:33-221).
THEOREM TypeCorrect == Spec => []TypeInv
<1>1. IInv => TypeInv
  BY DEF IInv
<1> QED
  BY <1>1, Invariant, PTL

\* The answer that resolves a call is its own, or that of a call of the same session
\* made by an earlier process, or of one that did not wait for it; unless the map of
\* promises was used by both threads at once (calculator_proxy.cpp:172-221).
THEOREM AnswersResolveOwnCalls == Spec => []AnswersAreOwn
<1>1. IInv => AnswersAreOwn
  BY DEF IInv
<1> QED
  BY <1>1, Invariant, PTL

\* No future was broken, and no answer to an earlier process was used.
Undisturbed ==
    /\ \A c \in DOMAIN status : status[c] # "broken"
    /\ \A c \in DOMAIN resolved_by : calls[resolved_by[c].call].process = calls[c].process

\* A client none of whose futures was broken, and who was sent no answer to an earlier
\* process, gets its own answers only, however often the sessions came round.
THEOREM OwnUnlessBroken == Spec => [](~raced /\ Undisturbed => Own = DOMAIN resolved_by)
<1>1. ASSUME IInv, ~raced, Undisturbed PROVE Own = DOMAIN resolved_by
  <2> DEFINE others == DOMAIN resolved_by \ Own
             less == OpToRel(<, Nat)
  <2>1. TypeInv /\ AnswersAreOwn
    BY <1>1 DEF IInv
  <2>2. /\ others \subseteq Nat
        /\ \A c \in DOMAIN resolved_by : resolved_by[c].call \in Ids /\ calls[c].process \in Nat
    <3>1. \A c \in Ids : calls[c] \in Made
      BY <2>1 DEF TypeInv, Ids
    <3>2. \A c \in DOMAIN resolved_by : resolved_by[c] \in Answers /\ c \in Ids
      BY <2>1 DEF TypeInv
    <3> QED
      BY <2>1, <3>1, <3>2, NumberOfCalls DEF Made, Answers
  <2>3. ASSUME NEW c \in others PROVE resolved_by[c].call \in others /\ resolved_by[c].call < c
    BY <1>1, <2>1, <2>2, <2>3 DEF AnswersAreOwn, Undisturbed, Own, TypeInv
  <2>4. CASE others # {}
    <3>1. PICK c \in others : \A d \in others : <<d, c>> \notin less
      <4> HIDE DEF others
      <4> QED
        BY <2>2, <2>4, NatLessThanWellFounded, WFMin
    <3>2. <<resolved_by[c].call, c>> \in less
      BY <2>2, <2>3 DEF OpToRel
    <3> QED
      BY <2>3, <3>1, <3>2
  <2> QED
    BY <2>4 DEF Own
<1>2. IInv => (~raced /\ Undisturbed => Own = DOMAIN resolved_by)
  BY <1>1
<1> QED
  BY <1>2, Invariant, PTL

\* A future is broken if the call that many sessions ago still waits or was broken too.
LEMMA NextBroken ==
    ASSUME IInv, [Next]_vars, NEW c \in DOMAIN status,
           status[c] = "waiting", status'[c] = "broken", ~raced
    PROVE  /\ c - MaxSession \in DOMAIN calls
           /\ calls[c - MaxSession].process = process
           /\ status[c - MaxSession] \in {"waiting", "broken"}
<1> DEFINE e == c - MaxSession
<1>0. /\ TypeInv /\ Processes /\ Sessions /\ Promises
      /\ Len(calls) \in Nat /\ Ids = 1 .. Len(calls) /\ c \in Ids
      /\ status \in [Ids -> Statuses]
      /\ MaxSession \in Nat \ {0}
      /\ \A d \in Ids : calls[d].session \in 1 .. MaxSession /\ calls[d].process \in Nat
      /\ \A s \in DOMAIN m_pending_requests : m_pending_requests[s] \in Ids
      /\ process \in Nat
  <2>1. TypeInv /\ Processes /\ Sessions /\ Promises
    BY DEF IInv
  <2>2. status \in [Ids -> Statuses]
        /\ \A s \in DOMAIN m_pending_requests : m_pending_requests[s] \in Ids
    BY <2>1 DEF TypeInv
  <2>3. \A d \in Ids : calls[d] \in Made
    BY <2>1 DEF TypeInv, Ids
  <2>4. \A d \in Ids : calls[d].session \in 1 .. MaxSession /\ calls[d].process \in Nat
    BY <2>3 DEF Made
  <2> QED
    BY <2>1, <2>2, <2>4, NumberOfCalls, SessionAssumption DEF TypeInv
<1>1. Emplace /\ m_session_counter \in DOMAIN m_pending_requests /\ c = calling.call
  <2>1. CASE Emplace
    <3>1. CASE m_session_counter \in DOMAIN m_pending_requests
      <4>1. status' = [status EXCEPT ![calling.call] = "broken"]
        BY <2>1, <3>1 DEF Emplace
      <4> QED
        BY <1>0, <2>1, <3>1, <4>1
    <3>2. CASE m_session_counter \notin DOMAIN m_pending_requests
      BY <2>1, <3>2 DEF Emplace
    <3> QED
      BY <3>1, <3>2
  <2>2. CASE \E what \in Calls : Call(what)
    BY <1>0, <2>2, CallFacts
  <2>3. CASE OnMessage
    <3>1. PICK answer \in arriving : Fulfilled(answer) \/ UNCHANGED <<status, resolved_by>>
      BY <1>0, <2>3, OnMessageFacts
    <3>2. CASE Fulfilled(answer)
      BY <1>0, <3>2, FulfilFacts DEF Fulfilled
    <3> QED
      BY <3>1, <3>2
  <2>4. CASE ClientEnds
    BY <1>0, <2>4 DEF ClientEnds
  <2>5. CASE Send \/ ClientStarts
    BY <2>5 DEF Send, ClientStarts
  <2>6. CASE UNCHANGED client
    BY <2>6 DEF client
  <2>7. HandleRequest \/ HandleAnswer \/ Lose \/ Register \/ RuntimeForgets \/ RuntimeRestarts
            \/ StubOnMessage \/ ProviderRestarts \/ UNCHANGED vars => UNCHANGED client
    BY ClientAlone
  <2> QED
    BY <2>1, <2>2, <2>3, <2>4, <2>5, <2>6, <2>7 DEF Next
<1>2. /\ calling # Idle /\ calling.at = "emplace" /\ c = Len(calls)
      /\ calls[c].session = m_session_counter /\ calls[c].process = process
  <2>1. calling # Idle /\ calling.at = "emplace"
    BY <1>1 DEF Emplace, Idle
  <2>2. c = Len(calls)
    BY <1>0, <1>1, <2>1 DEF TypeInv
  <2> QED
    BY <1>0, <1>1, <2>1, <2>2 DEF Processes, Sessions
<1>3. PICK d \in Ids :
          /\ calls[d].session = m_session_counter /\ calls[d].process = process
          /\ status[d] = "waiting" /\ d # c
          /\ \A x \in Ids : x > d /\ calls[x].session = m_session_counter /\ x # c =>
                                status[x] = "broken"
  <2>1. m_pending_requests[m_session_counter] # c
    BY <1>0, <1>1, <1>2 DEF Processes, Emplacing
  <2> QED
    BY <1>0, <1>1, <1>2, <2>1 DEF Promises, Emplacing
<1>4. d \in Nat /\ c \in Nat /\ d < c
  BY <1>0, <1>2, <1>3
<1>5. c - d >= MaxSession
  <2> SUFFICES ASSUME c - d < MaxSession PROVE FALSE
    BY <1>0, <1>4
  <2>1. calls[c].session = Later(calls[d].session, c - d)
    BY <1>0, <1>2, <1>3, <1>4 DEF Sessions
  <2> QED
    BY <1>0, <1>2, <1>3, <1>4, <2>1 DEF Later
<1>6. e \in Ids /\ d <= e /\ e < c /\ c - e = MaxSession
  BY <1>0, <1>4, <1>5
<1> HIDE DEF e
<1>7. calls[e].process = process
  <2>1. calls[d].process <= calls[e].process /\ calls[e].process <= process
    BY <1>0, <1>6 DEF Processes
  <2> QED
    BY <1>0, <1>3, <1>6, <2>1
<1>8. calls[e].session = m_session_counter
  <2>1. calls[c].session = Later(calls[e].session, MaxSession)
    BY <1>0, <1>2, <1>6, <1>7 DEF Sessions
  <2> QED
    BY <1>0, <1>2, <1>6, <2>1 DEF Later
<1>9. status[e] \in {"waiting", "broken"}
  <2>1. e = d \/ (e > d /\ e # c)
    BY <1>0, <1>4, <1>6
  <2>2. CASE e = d
    BY <1>3, <2>2
  <2>3. CASE e > d /\ e # c
    BY <1>3, <1>6, <1>8, <2>3
  <2> QED
    BY <2>1, <2>2, <2>3
<1> QED
  BY <1>6, <1>7, <1>9 DEF Ids, e

\* A future is broken only if the call made MaxSession calls before, by the same
\* process, still waits or was broken as well, unless the map was used by both threads
\* at once: what emplace() on a session that is pending comes to
\* (calculator_proxy.cpp:158-167).
THEOREM BrokenByReuse == Spec => BrokenOnlyByReuse
<1> DEFINE A == \A c \in DOMAIN status :
                    status[c] = "waiting" /\ status'[c] = "broken" /\ ~raced =>
                        /\ c - MaxSession \in DOMAIN calls
                        /\ calls[c - MaxSession].process = process
                        /\ status[c - MaxSession] \in {"waiting", "broken"}
<1>1. IInv /\ [Next]_vars => [A]_vars
  BY NextBroken
<1> HIDE DEF A
<1>2. Spec => [][A]_vars
  BY <1>1, Invariant, PTL DEF Spec
<1> QED
  BY <1>2 DEF A, BrokenOnlyByReuse, vars

-----------------------------------------------------------------------------
(* What the user is promised.                                              *)

Invoked == [c \in DOMAIN calls |-> [method |-> calls[c].method, argument |-> calls[c].argument]]

Results == [c \in Own |-> resolved_by[c].value]

\* Nothing has been called, and nothing returned, at first.
LEMMA InitAtomic == Init => Atomic!Init
<1> SUFFICES ASSUME Init PROVE Atomic!Init
  OBVIOUS
<1>1. calls = <<>> /\ resolved_by = <<>> /\ effects = <<>> /\ m_Precision = 2 /\ DOMAIN <<>> = {}
  BY DEF Init
<1>2. Own = {}
  BY <1>1 DEF Own
<1>3. Invoked = <<>> /\ Results = <<>>
  BY <1>1, <1>2 DEF Invoked, Results
<1> QED
  BY <1>1, <1>3 DEF Atomic!Init, Invoked, Results

\* Calls, their effects and what their own answers resolved are what they were.
Stays == UNCHANGED <<calls, m_Precision, effects, resolved_by>>

LEMMA StayStutters ==
    ASSUME Stays
    PROVE  UNCHANGED Atomic!vars
<1>1. Invoked' = Invoked /\ Results' = Results /\ UNCHANGED <<m_Precision, effects>>
  BY DEF Stays, Invoked, Results, Own
<1> QED
  BY <1>1 DEF Atomic!vars, Invoked, Results

\* What Append() is, as a function.
LEMMA AppendIs ==
    ASSUME NEW S, NEW s \in Seq(S), NEW e \in S
    PROVE  Append(s, e) = [i \in 1 .. Len(s) + 1 |-> IF i = Len(s) + 1 THEN e ELSE s[i]]
<1> DEFINE a == Append(s, e)
           n == Len(s)
<1>1. /\ a \in Seq(S) /\ Len(a) = n + 1 /\ n \in Nat
      /\ \A i \in 1 .. n : a[i] = s[i]
      /\ a[n + 1] = e
  OBVIOUS
<1> HIDE DEF a, n
<1>2. a \in [1 .. n + 1 -> S]
  BY <1>1
<1>3. \A i \in 1 .. n + 1 : a[i] = IF i = n + 1 THEN e ELSE s[i]
  BY <1>1
<1>4. a = [i \in 1 .. n + 1 |-> IF i = n + 1 THEN e ELSE s[i]]
  BY <1>2, <1>3
<1> QED
  BY <1>4 DEF a, n

\* Call() is the invocation (calculator_proxy.cpp:33, 97).
LEMMA CallInvokes ==
    ASSUME TypeInv, NEW what \in Calls, Call(what)
    PROVE  Atomic!Invoke
<1> DEFINE n == Len(calls)
<1>1. /\ n \in Nat /\ DOMAIN calls = 1 .. n /\ DOMAIN calls' = 1 .. n + 1
      /\ \A c \in 1 .. n : calls'[c] = calls[c]
      /\ calls'[n + 1].method = what.method /\ calls'[n + 1].argument = what.argument
  <2>1. calls \in Seq(Made)
    BY DEF TypeInv
  <2> DEFINE call == [method |-> what.method, argument |-> what.argument,
                      session |-> m_session_counter, process |-> process]
  <2>2. calls' = Append(calls, call) /\ call \in Made
    BY CallsAssumption DEF Call, TypeInv, Made
  <2> HIDE DEF call
  <2>3. n \in Nat /\ DOMAIN calls = 1 .. n /\ DOMAIN calls' = 1 .. n + 1
        /\ (\A c \in 1 .. n : calls'[c] = calls[c]) /\ calls'[n + 1] = call
    BY <2>1, <2>2
  <2> QED
    BY <2>3 DEF call
<1> HIDE DEF n
<1>2. what = [method |-> what.method, argument |-> what.argument]
  BY CallsAssumption
<1>3. Invoked' = Append(Invoked, what)
  <2> DEFINE call(c) == [method |-> calls[c].method, argument |-> calls[c].argument]
  <2>1. Invoked = [c \in 1 .. n |-> call(c)]
    BY <1>1 DEF Invoked
  <2>2. Invoked' = [c \in 1 .. n + 1 |-> IF c \in 1 .. n THEN call(c) ELSE what]
    <3>1. \A c \in 1 .. n + 1 : [method |-> calls'[c].method, argument |-> calls'[c].argument]
                                    = IF c \in 1 .. n THEN call(c) ELSE what
      <4>1. ASSUME NEW c \in 1 .. n
            PROVE  [method |-> calls'[c].method, argument |-> calls'[c].argument] = call(c)
        BY <1>1
      <4>2. ASSUME NEW c \in 1 .. n + 1, c \notin 1 .. n
            PROVE  [method |-> calls'[c].method, argument |-> calls'[c].argument] = what
        <5>1. c = n + 1
          BY <1>1, <4>2
        <5>2. calls'[c].method = what.method /\ calls'[c].argument = what.argument
          BY <1>1, <5>1
        <5> QED
          BY <1>2, <5>2
      <4> QED
        BY <4>1, <4>2
    <3>2. Invoked' = [c \in 1 .. n + 1 |->
                         [method |-> calls'[c].method, argument |-> calls'[c].argument]]
      BY <1>1 DEF Invoked
    <3> HIDE DEF call
    <3> QED
      BY <3>1, <3>2
  <2>3. Invoked \in Seq({call(c) : c \in 1 .. n} \cup {what}) /\ Len(Invoked) = n
    <3> HIDE DEF call
    <3> QED
      BY <1>1, <2>1
  <2> HIDE DEF call
  <2>4. Append(Invoked, what) = [c \in 1 .. n + 1 |-> IF c = n + 1 THEN what ELSE Invoked[c]]
    BY <2>3, AppendIs
  <2>5. \A c \in 1 .. n + 1 : (IF c \in 1 .. n THEN call(c) ELSE what)
                                  = IF c = n + 1 THEN what ELSE Invoked[c]
    BY <1>1, <2>1
  <2> QED
    BY <2>2, <2>4, <2>5
<1>4. Results' = Results /\ UNCHANGED <<m_Precision, effects>>
  BY DEF Call, provider, Results, Own
<1> QED
  BY <1>3, <1>4 DEF Atomic!Invoke, Invoked, Results

\* on_message() of the stub is the moment of the effect (calculator_stub.hpp:61-160).
LEMMA StubTakesEffect ==
    ASSUME TypeInv, Travels, StubOnMessage
    PROVE  \E i \in DOMAIN Invoked : Atomic!TakeEffect(i)
<1>1. PICK c \in asked :
          /\ m_Precision' = PrecisionAfter(c)
          /\ effects' = With(effects, c, ReturnValue(c))
          /\ UNCHANGED client
  BY DEF StubOnMessage
<1>2. c \in Ids /\ calls[c] \in Made /\ c \notin DOMAIN effects
  BY DEF TypeInv, Travels, Ids
<1>3. c \in DOMAIN Invoked /\ Invoked[c].method = calls[c].method
      /\ Invoked[c].argument = calls[c].argument
  BY <1>2 DEF Invoked, Ids
<1>4. Invoked' = Invoked /\ Results' = Results
  BY <1>1 DEF client, Invoked, Results, Own
<1>5. effects' = Atomic!With(effects, c, ReturnValue(c))
  BY <1>1 DEF With, Atomic!With
<1>6. \/ /\ Invoked[c].method = "add" /\ UNCHANGED m_Precision
         /\ effects' = Atomic!With(effects, c, Invoked[c].argument)
      \/ /\ Invoked[c].method = "get" /\ UNCHANGED m_Precision
         /\ effects' = Atomic!With(effects, c, m_Precision)
      \/ /\ Invoked[c].method = "set" /\ m_Precision' = Invoked[c].argument
         /\ effects' = Atomic!With(effects, c, 0)
  <2>1. calls[c].method \in Methods
    BY <1>2 DEF Made
  <2>2. CASE calls[c].method = "add"
    BY <1>1, <1>3, <1>5, <2>2 DEF ReturnValue, PrecisionAfter
  <2>3. CASE calls[c].method = "get"
    BY <1>1, <1>3, <1>5, <2>3 DEF ReturnValue, PrecisionAfter
  <2>4. CASE calls[c].method = "set"
    BY <1>1, <1>3, <1>5, <2>4 DEF ReturnValue, PrecisionAfter
  <2> QED
    BY <2>1, <2>2, <2>3, <2>4 DEF Methods
<1> QED
  BY <1>2, <1>3, <1>4, <1>6 DEF Atomic!TakeEffect, Invoked, Results

\* on_message() of the proxy with a call's own answer is its return; with another
\* call's, nothing that is promised (calculator_proxy.cpp:172-221).
LEMMA OnMessageReturns ==
    ASSUME TypeInv, Travels, Processes, OnMessage
    PROVE  (\E i \in DOMAIN Invoked : Atomic!Return(i)) \/ UNCHANGED Atomic!vars
<1>1. PICK answer \in arriving :
          /\ Fulfilled(answer) \/ UNCHANGED <<status, resolved_by>>
          /\ UNCHANGED calls
          /\ UNCHANGED provider
  BY OnMessageFacts
<1>2. CASE UNCHANGED <<status, resolved_by>>
  <2>1. Stays
    BY <1>1, <1>2 DEF Stays, provider
  <2> QED
    BY <2>1, StayStutters
<1>3. CASE Fulfilled(answer)
  <2> DEFINE call == m_pending_requests[calls[answer.call].session]
  <2>1. /\ call \in Ids /\ status[call] = "waiting"
        /\ DOMAIN resolved_by' = DOMAIN resolved_by \cup {call}
        /\ resolved_by'[call] = answer
        /\ \A c \in DOMAIN resolved_by \ {call} : resolved_by'[c] = resolved_by[c]
    BY <1>3, FulfilFacts DEF Fulfilled
  <2> HIDE DEF call
  <2>2. call \notin DOMAIN resolved_by
    BY <2>1 DEF Processes
  <2>3. answer.call \in DOMAIN effects /\ answer.value = effects[answer.call]
    BY DEF Travels
  <2>4. Invoked' = Invoked /\ UNCHANGED <<m_Precision, effects>>
    BY <1>1 DEF Invoked, provider
  <2>5. call \in DOMAIN Invoked
    BY <2>1 DEF Invoked, Ids
  <2>6. CASE answer.call = call
    <3>1. Own' = Own \cup {call} /\ call \notin Own
      BY <2>1, <2>2, <2>6 DEF Own
    <3>2. /\ \A c \in Own : resolved_by'[c].value = resolved_by[c].value
          /\ resolved_by'[call].value = effects[call]
      BY <2>1, <2>2, <2>3, <2>6 DEF Own
    <3>3. Results' = Atomic!With(Results, call, effects[call])
      <4>1. DOMAIN Results = Own
        BY DEF Results
      <4> QED
        BY <3>1, <3>2, <4>1 DEF Results, Atomic!With
    <3>4. DOMAIN Results = Own
      BY DEF Results
    <3> QED
      BY <2>3, <2>4, <2>5, <2>6, <3>1, <3>3, <3>4 DEF Atomic!Return, Invoked, Results
  <2>7. CASE answer.call # call
    <3>1. Own' = Own /\ \A c \in Own : resolved_by'[c].value = resolved_by[c].value
      BY <2>1, <2>2, <2>7 DEF Own
    <3>2. Results' = Results
      BY <3>1 DEF Results
    <3> QED
      BY <2>4, <3>2 DEF Atomic!vars, Invoked, Results
  <2> QED
    BY <2>6, <2>7
<1> QED
  BY <1>1, <1>2, <1>3

\* Every step of the program is a step of the abstract service, or none.
LEMMA NextAtomic == IInv /\ [Next]_vars => [Atomic!Next]_Atomic!vars
<1> SUFFICES ASSUME IInv, [Next]_vars PROVE Atomic!Next \/ UNCHANGED Atomic!vars
  OBVIOUS
<1>0. TypeInv /\ Travels /\ Processes
  BY DEF IInv
<1>1. ASSUME NEW what \in Calls, Call(what) PROVE Atomic!Next
  BY <1>0, <1>1, CallInvokes DEF Atomic!Next
<1>2. CASE OnMessage
  BY <1>0, <1>2, OnMessageReturns DEF Atomic!Next, Invoked
<1>3. CASE StubOnMessage
  BY <1>0, <1>3, StubTakesEffect DEF Atomic!Next, Invoked
<1>4. CASE ProviderRestarts
  <2>1. m_Precision' = 2 /\ UNCHANGED client /\ UNCHANGED effects
    BY <1>4 DEF ProviderRestarts
  <2>2. Invoked' = Invoked /\ Results' = Results
    BY <2>1 DEF Invoked, Results, Own, client
  <2> QED
    BY <2>1, <2>2 DEF Atomic!Next, Atomic!Forget, Invoked, Results
<1>5. CASE Emplace \/ Send \/ ClientEnds \/ ClientStarts
  <2>1. Stays
    BY <1>5 DEF Stays, Emplace, Send, ClientEnds, ClientStarts, provider
  <2> QED
    BY <2>1, StayStutters
<1>6. CASE HandleRequest \/ HandleAnswer \/ Lose \/ Register \/ RuntimeForgets \/ RuntimeRestarts
  <2>1. UNCHANGED <<m_Precision, effects>>
    BY <1>6 DEF HandleRequest, HandleAnswer, Lose, Register, RuntimeForgets, RuntimeRestarts,
                provider
  <2>2. Stays
    BY <1>6, <2>1, ClientAlone DEF Stays, client
  <2> QED
    BY <2>2, StayStutters
<1>7. CASE UNCHANGED vars
  <2>1. Stays
    BY <1>7 DEF Stays, vars, calculator, client, provider
  <2> QED
    BY <2>1, StayStutters
<1> QED
  BY <1>1, <1>2, <1>3, <1>4, <1>5, <1>6, <1>7 DEF Next

\* Whatever is lost, raced or started again, a call takes effect once at most, between
\* its invocation and its return, and returns what it came to then.
THEOREM CallsAreAtomic == Spec => Linearizable
  BY InitAtomic, NextAtomic, Invariant, PTL DEF Spec, Linearizable, Atomic!Spec
=============================================================================
