------------------------------ MODULE Calculator ------------------------------
(***************************************************************************)
(* Calls of the example's service, from calculator_proxy_t to the          *)
(* calculator_stub_t and back.  The proxy tells answers apart by a session *)
(* number, keeps a promise for each session that is pending, and is called *)
(* by two threads: the user interface's inserts, the worker's looks up and *)
(* erases.  Client and provider are processes that end and start again,    *)
(* the runtime is one that forwards a request and the first answer to it.  *)
(*                                                                         *)
(* Messages of different sessions overtake one another (delayed ones are   *)
(* sent again later) and may be lost: nothing looks at what send() returns.*)
(***************************************************************************)
EXTENDS CalculatorState, Functions

vars == calculator

None == 0
Idle == [call |-> None, at |-> "idle"]

Init ==
    /\ m_session_counter = 1 /\ m_pending_requests = <<>>
    /\ calling = Idle /\ calls = <<>> /\ status = <<>> /\ resolved_by = <<>>
    /\ process = 1 /\ alive = TRUE
    /\ arriving = {} /\ requests = {} /\ answers = {} /\ awaited = {}
    /\ known = TRUE /\ serving = TRUE
    /\ asked = {} /\ m_Precision = 2 /\ effects = <<>>
    /\ outages = 0 /\ raced = FALSE

\* A function that is also defined at i.
With(f, i, value) == [j \in DOMAIN f \cup {i} |-> IF j = i THEN value ELSE f[j]]

\* mutant: the session is no part of the key
KeyOfMethod(c) == [method |-> calls[c].method, session |-> 0]

Key(c) == [method |-> calls[c].method, session |-> calls[c].session]

-----------------------------------------------------------------------------
(* The client's user interface: add(), get_precision() and set_precision().*)

\* The call is about to insert its promise.
Call(what) ==
    /\ alive /\ calling = Idle /\ Len(calls) < MaxCalls
    /\ calls' = Append(calls, [method |-> what.method, argument |-> what.argument,
                               session |-> m_session_counter, process |-> process])
    /\ status' = Append(status, "waiting")
    /\ calling' = [call |-> Len(calls) + 1, at |-> "emplace"]
    /\ UNCHANGED <<m_session_counter, m_pending_requests, resolved_by, process, alive>>
    /\ UNCHANGED <<arriving, runtime, provider, outages, raced>>

\* emplace() keeps an entry that is there: the new promise goes with the call's
\* frame, and the future it leaves is broken.
Emplace ==
    /\ calling.at = "emplace"
    /\ IF m_session_counter \in DOMAIN m_pending_requests
       THEN /\ status' = [status EXCEPT ![calling.call] = "broken"]
            /\ UNCHANGED m_pending_requests
       ELSE /\ m_pending_requests' = With(m_pending_requests, m_session_counter, calling.call)
            /\ UNCHANGED status
    /\ calling' = [calling EXCEPT !.at = "send"]
    /\ UNCHANGED <<m_session_counter, calls, resolved_by, process, alive>>
    /\ UNCHANGED <<arriving, runtime, provider, outages, raced>>

\* "if max, go back to 1"
NextSession ==
    LET next == (m_session_counter + 1) % (MaxSession + 1)
    IN  IF next = 0 THEN 1 ELSE next

Send ==
    /\ calling.at = "send"
    /\ requests' = requests \cup {calling.call}
    /\ m_session_counter' = NextSession
    /\ calling' = Idle
    /\ UNCHANGED <<m_pending_requests, calls, status, resolved_by, process, alive>>
    /\ UNCHANGED <<arriving, answers, awaited, known, serving, provider, outages, raced>>

-----------------------------------------------------------------------------
(* The client's worker: on_message().                                      *)

\* mutant: the first promise that is pending, taken for the one that is answered
FulfilFirst(answer) ==
    LET call == m_pending_requests[CHOOSE s \in DOMAIN m_pending_requests : TRUE]
    IN  /\ status' = [status EXCEPT ![call] = "resolved"]
        /\ resolved_by' = With(resolved_by, call, answer)

\* The promise kept for the answer's session, and its value.  If its type is
\* another method's, what follows is undefined; the process's end is among that.
\* It is what happens if the promise already has a value.
Fulfil(answer) ==
    LET call == m_pending_requests[calls[answer.call].session]
    IN  /\ status[call] = "waiting"
        /\ status' = [status EXCEPT ![call] = "resolved"]
        /\ resolved_by' = With(resolved_by, call, answer)

\* mutant: the entry stays
ResolveKeepsEntry(answer) ==
    /\ calls[answer.call].session \in DOMAIN m_pending_requests
    /\ Fulfil(answer)
    /\ UNCHANGED <<m_pending_requests, raced>>

Resolve(answer) ==
    LET session == calls[answer.call].session
    IN  /\ session \in DOMAIN m_pending_requests
        /\ m_pending_requests' = Restrict(m_pending_requests, DOMAIN m_pending_requests \ {session})
        /\ Fulfil(answer)
        /\ UNCHANGED raced

Ignore(answer) ==
    /\ calls[answer.call].session \notin DOMAIN m_pending_requests
    /\ UNCHANGED <<m_pending_requests, status, resolved_by, raced>>

\* The map is read and changed while the other thread inserts: the entry is
\* missed, any is lost, or it stays although its promise is fulfilled.
Race(answer) ==
    /\ calling.at = "emplace"
    /\ \E kept \in SUBSET DOMAIN m_pending_requests :
           m_pending_requests' = Restrict(m_pending_requests, kept)
    /\ \/ UNCHANGED <<status, resolved_by>>
       \/ calls[answer.call].session \in DOMAIN m_pending_requests /\ Fulfil(answer)
    /\ raced' = TRUE

OnMessage ==
    \E answer \in arriving :
        /\ alive
        /\ arriving' = arriving \ {answer}
        /\ Resolve(answer) \/ Ignore(answer) \/ Race(answer)
        /\ UNCHANGED <<m_session_counter, calling, calls, process, alive>>
        /\ UNCHANGED <<runtime, provider, outages>>

\* The process ends: by the user, by a broken future's exception in the thread
\* whose get() waits for it (main_calculator_proxy.cpp:151, 169 and 179), or by what
\* a race leads to.
ClientEnds ==
    /\ alive
    /\ alive' = FALSE
    /\ status' = [c \in DOMAIN status |-> IF status[c] = "waiting" THEN "lost" ELSE status[c]]
    /\ m_pending_requests' = <<>> /\ calling' = Idle /\ arriving' = {}
    /\ UNCHANGED <<m_session_counter, calls, resolved_by, process>>
    /\ UNCHANGED <<runtime, provider, outages, raced>>

ClientStarts ==
    /\ ~alive /\ process < MaxProcesses
    /\ alive' = TRUE /\ process' = process + 1
    /\ m_session_counter' = 1
    /\ UNCHANGED <<m_pending_requests, calling, calls, status, resolved_by>>
    /\ UNCHANGED <<arriving, runtime, provider, outages, raced>>

-----------------------------------------------------------------------------
(* The runtime: forward().                                                 *)

\* emplace() keeps the requester that is there, which is the same.
ForwardRequest(c) ==
    /\ serving
    /\ awaited' = awaited \cup {Key(c)}
    /\ asked' = asked \cup {c}
    /\ requests' = requests \ {c}
    /\ UNCHANGED <<answers, known, serving>>

\* Of an unknown service only the sender's name is logged.
DropRequest(c) ==
    /\ ~serving /\ known
    /\ requests' = requests \ {c}
    /\ UNCHANGED <<answers, awaited, known, serving, asked>>

\* The runtime's process ends, and another one knows nobody.
RuntimeEnds ==
    /\ requests' = {} /\ answers' = {} /\ awaited' = {}
    /\ known' = FALSE /\ serving' = FALSE
    /\ UNCHANGED asked

HandleRequest ==
    /\ \E c \in requests :
           ForwardRequest(c) \/ DropRequest(c) \/ (~serving /\ ~known /\ RuntimeEnds)
    /\ UNCHANGED <<client, arriving, m_Precision, effects, outages, raced>>

ForwardAnswer(answer) ==
    /\ Key(answer.call) \in awaited /\ known
    /\ awaited' = awaited \ {Key(answer.call)}
    /\ answers' = answers \ {answer}
    /\ arriving' = IF alive THEN arriving \cup {answer} ELSE arriving
    /\ UNCHANGED <<requests, known, serving>>

\* "which is no longer available", "Unexpectedly received a response": the message
\* names the provider.
DropAnswer(answer) ==
    /\ Key(answer.call) \notin awaited \/ ~known
    /\ IF serving
       THEN /\ awaited' = awaited \ {Key(answer.call)}
            /\ answers' = answers \ {answer}
            /\ UNCHANGED <<requests, known, serving, asked>>
       ELSE RuntimeEnds
    /\ UNCHANGED arriving

HandleAnswer ==
    /\ \E answer \in answers : ForwardAnswer(answer) \/ DropAnswer(answer)
    /\ UNCHANGED <<client, provider, outages, raced>>

\* send() is asked to send and its result not looked at.
Lose ==
    /\ outages < MaxOutages /\ outages' = outages + 1
    /\ \/ \E c \in requests : requests' = requests \ {c} /\ UNCHANGED <<asked, answers, arriving>>
       \/ \E c \in asked : asked' = asked \ {c} /\ UNCHANGED <<requests, answers, arriving>>
       \/ \E m \in answers : answers' = answers \ {m} /\ UNCHANGED <<requests, asked, arriving>>
       \/ \E m \in arriving : arriving' = arriving \ {m} /\ UNCHANGED <<requests, asked, answers>>
    /\ UNCHANGED <<client, awaited, known, serving, m_Precision, effects, raced>>

\* Applications are registered, evicted, and registered again.
Register ==
    /\ known' = TRUE /\ serving' = TRUE /\ <<known, serving>> # <<TRUE, TRUE>>
    /\ UNCHANGED <<client, arriving, requests, answers, awaited, provider, outages, raced>>

RuntimeForgets ==
    /\ outages < MaxOutages /\ outages' = outages + 1
    /\ \/ known' = FALSE /\ UNCHANGED serving
       \/ serving' = FALSE /\ UNCHANGED known
    /\ UNCHANGED <<client, arriving, requests, answers, awaited, provider, raced>>

RuntimeRestarts ==
    /\ outages < MaxOutages /\ outages' = outages + 1
    /\ RuntimeEnds
    /\ UNCHANGED <<client, arriving, m_Precision, effects, raced>>

-----------------------------------------------------------------------------
(* The provider: calculator_stub_t::on_message() and its implementation.   *)

ReturnValue(c) ==
    CASE calls[c].method = "add" -> calls[c].argument   \* stands for the sum
      [] calls[c].method = "get" -> m_Precision
      [] calls[c].method = "set" -> 0                   \* no payload

\* mutant: the precision is answered and not set
PrecisionKept(c) == m_Precision

PrecisionAfter(c) == IF calls[c].method = "set" THEN calls[c].argument ELSE m_Precision

\* The answer has the request's header but for type and length.
StubOnMessage ==
    \E c \in asked :
        /\ asked' = asked \ {c}
        /\ m_Precision' = PrecisionAfter(c)
        /\ effects' = With(effects, c, ReturnValue(c))
        /\ answers' = answers \cup {[call |-> c, value |-> ReturnValue(c)]}
        /\ UNCHANGED <<client, arriving, requests, awaited, known, serving, outages, raced>>

ProviderRestarts ==
    /\ outages < MaxOutages /\ outages' = outages + 1
    /\ asked' = {} /\ m_Precision' = 2
    /\ UNCHANGED <<client, arriving, runtime, effects, raced>>

-----------------------------------------------------------------------------
Next ==
    \/ \E what \in Calls : Call(what)
    \/ Emplace \/ Send \/ OnMessage
    \/ ClientEnds \/ ClientStarts
    \/ HandleRequest \/ HandleAnswer
    \/ Lose \/ Register \/ RuntimeForgets \/ RuntimeRestarts
    \/ StubOnMessage \/ ProviderRestarts

\* The threads run; nobody is bound to start or end anything.
Fairness ==
    /\ WF_vars(Emplace) /\ WF_vars(Send) /\ WF_vars(OnMessage)
    /\ WF_vars(HandleRequest) /\ WF_vars(HandleAnswer) /\ WF_vars(StubOnMessage)

Spec == Init /\ [][Next]_vars

FairSpec == Spec /\ Fairness
=============================================================================
