-------------------------------- MODULE Router --------------------------------
(***************************************************************************)
(* How the runtime forwards SOME/IP messages: runtime_stub_t's map of      *)
(* applications with the services they offer as aliases, and its pending   *)
(* requests.  Requests come from applications of this machine, by way of   *)
(* the UNIX socket, and from remote endpoints, by way of TCP; services are *)
(* offered here or configured as external.  One worker runs all handlers,  *)
(* one message after the other.                                            *)
(*                                                                         *)
(* When an application is evicted is Heartbeat's business; here it may     *)
(* happen at any time, as may the end of a process and of the runtime.     *)
(***************************************************************************)
EXTENDS Naturals, MultiIndexMap

CONSTANTS
    Apps,       \* socket handles of applications
    Remotes,    \* endpoints of other machines
    Services,
    Offers,     \* the services an application is configured to offer
    External,   \* external service -> endpoint of its provider
    Calls,      \* what clients ask for: records [requester, service, session]
    ClientId,   \* the client id a peer puts into its requests
    MaxAsked    \* how often a call is made: sessions wrap and clients restart

Peers == Apps \cup Remotes

\* The fields of a SOME/IP header that make the key of a request.
Header(call) == [service |-> call.service, client |-> ClientId[call.requester],
                 session |-> call.session]

Keys == {Header(call) : call \in Calls}

ASSUME PeersAssumption == Apps \cap Remotes = {}
ASSUME OffersAssumption == Offers \in [Apps -> SUBSET Services]
ASSUME ExternalAssumption ==
    DOMAIN External \subseteq Services /\ External \in [DOMAIN External -> Remotes]
ASSUME CallsAssumption ==
    \A call \in Calls : call.requester \in Peers /\ call.service \in Services
ASSUME ClientIdAssumption == ClientId \in [Peers -> Nat]
ASSUME MaxAskedAssumption == MaxAsked \in Nat

VARIABLES
    m_apps,             \* application_map_t, of offered_services
    m_pending_requests, \* key of a request -> who is waiting
    crashed,            \* a handler has thrown: std::terminate()
    introduced,         \* applications whose process has sent REGISTER to some runtime
    held,               \* <<provider, key>>: requests providers have yet to answer
    asked, answered     \* requests a peer made, and answers it was sent, by key

environment == <<introduced, held, asked, answered>>
vars == <<m_apps, m_pending_requests, crashed, environment>>

Init ==
    /\ m_apps = EmptyMap
    /\ m_pending_requests = <<>>
    /\ crashed = FALSE
    /\ introduced = {}
    /\ held = {}
    /\ asked = [pk \in Peers \X Keys |-> 0]
    /\ answered = [pk \in Peers \X Keys |-> 0]

\* m_apps.at() throws for a sender that is not registered, and the handlers
\* are called from a noexcept function.
Throws == crashed' = TRUE /\ UNCHANGED <<m_apps, m_pending_requests, environment>>

Registered(a) == Contains(m_apps, a)

-----------------------------------------------------------------------------
(* Messages that change the registry.                                      *)

Register(a) ==
    /\ m_apps' = Insert(m_apps, a, {})
    /\ introduced' = introduced \cup {a}
    /\ UNCHANGED <<m_pending_requests, crashed, held, asked, answered>>

\* An empty offer is logged only, and logging alone asks for the sender's name.
Offer(a) ==
    /\ a \in introduced
    /\ \/ ~Registered(a) /\ Throws
       \/ /\ Registered(a) /\ Offers[a] # {}
          /\ m_apps' = Alias(Assign(m_apps, a, Offers[a]), a, Offers[a])
          /\ UNCHANGED <<m_pending_requests, crashed, environment>>

\* What an application requests is stored and never read.
RequestServices(a) == a \in introduced /\ ~Registered(a) /\ Throws

Unregister(a) ==
    /\ a \in introduced
    /\ \/ ~Registered(a) /\ Throws
       \/ /\ Registered(a)
          /\ m_apps' = Erase(m_apps, a)
          /\ UNCHANGED <<m_pending_requests, crashed, environment>>

\* The eviction timer.  Pending requests stay.
Evict(a) ==
    /\ Registered(a)
    /\ m_apps' = Erase(m_apps, a)
    /\ UNCHANGED <<m_pending_requests, crashed, environment>>

-----------------------------------------------------------------------------
(* forward()                                                               *)

\* peer_to_string(): only a remote endpoint can be named without being known.
CanBeNamed(peer) == peer \in Remotes \/ Registered(peer)

\* A message over the cap of 1400 bytes is dropped, its sender named.
ForwardTooLarge(peer) == ~CanBeNamed(peer) /\ Throws

\* mutant: requests of different clients share a key
MakeRequestKeyNoClient(header) == [header EXCEPT !.client = 0]

MakeRequestKey(header) ==
    [service |-> header.service, client |-> header.client, session |-> header.session]

\* emplace: who already waits for this key goes on waiting
Await(peer, header) ==
    m_pending_requests' =
        IF MakeRequestKey(header) \in DOMAIN m_pending_requests THEN m_pending_requests
        ELSE Put(m_pending_requests, MakeRequestKey(header), peer)

Provided(service) == ContainsAlias(m_apps, service) \/ service \in DOMAIN External

\* A service offered here comes before an external one of the same id.
Provider(service) ==
    IF ContainsAlias(m_apps, service) THEN KeyOf(m_apps, service) ELSE External[service]

\* The result of sending is not looked at: the message may be lost.
Ask(provider, header) == held' \in {held, held \cup {<<provider, header>>}}

ForwardRequest(peer, header) ==
    /\ asked[<<peer, header>>] < MaxAsked
    /\ asked' = [asked EXCEPT ![<<peer, header>>] = @ + 1]
    /\ Provided(header.service)
    /\ Await(peer, header)
    /\ Ask(Provider(header.service), header)
    /\ UNCHANGED <<m_apps, crashed, introduced, answered>>

\* Forwarding a REQUEST_NO_RETURN leaves nothing behind, but one for a service
\* nobody provides is refused like a REQUEST, its sender named.
ForwardUnknown(peer, header) ==
    ~Provided(header.service) /\ ~CanBeNamed(peer) /\ Throws

Answer(peer, header) == answered' = [answered EXCEPT ![<<peer, header>>] = @ + 1]

ForwardResponse(peer, header) ==
    LET key == MakeRequestKey(header)
    IN  /\ key \in DOMAIN m_pending_requests
        /\ CanBeNamed(m_pending_requests[key])
        /\ m_pending_requests' = Without(m_pending_requests, key)
        /\ Answer(m_pending_requests[key], header)
        /\ held' = held \ {<<peer, header>>}
        /\ UNCHANGED <<m_apps, crashed, introduced, asked>>

\* The requester is no longer registered: the request is dropped.
DropResponse(peer, header) ==
    LET key == MakeRequestKey(header)
    IN  /\ key \in DOMAIN m_pending_requests
        /\ ~CanBeNamed(m_pending_requests[key])
        /\ \/ ~CanBeNamed(peer) /\ Throws
           \/ /\ CanBeNamed(peer)
              /\ m_pending_requests' = Without(m_pending_requests, key)
              /\ held' = held \ {<<peer, header>>}
              /\ UNCHANGED <<m_apps, crashed, introduced, asked, answered>>

RefuseResponse(peer, header) ==
    /\ MakeRequestKey(header) \notin DOMAIN m_pending_requests
    /\ \/ ~CanBeNamed(peer) /\ Throws
       \/ /\ CanBeNamed(peer)
          /\ held' = held \ {<<peer, header>>}
          /\ UNCHANGED <<m_apps, m_pending_requests, crashed, introduced, asked, answered>>

Respond(peer, header) ==
    \/ ForwardResponse(peer, header)
    \/ DropResponse(peer, header)
    \/ RefuseResponse(peer, header)

-----------------------------------------------------------------------------
(* Processes end and are started again.                                    *)

PeerRestarts(peer) ==
    /\ held' = {request \in held : request[1] # peer}
    /\ introduced' = introduced \ {peer}
    /\ UNCHANGED <<m_apps, m_pending_requests, crashed, asked, answered>>

RuntimeRestarts ==
    /\ m_apps' = EmptyMap
    /\ m_pending_requests' = <<>>
    /\ crashed' = FALSE
    /\ UNCHANGED environment

Registry == \E a \in Apps :
    Register(a) \/ Offer(a) \/ RequestServices(a) \/ Unregister(a) \/ Evict(a)

Forwarding ==
    \/ \E peer \in Peers : ForwardTooLarge(peer)
    \/ \E call \in Calls :
           \/ ForwardRequest(call.requester, Header(call))
           \/ ForwardUnknown(call.requester, Header(call))
    \/ \E request \in held : Respond(request[1], request[2])

Next ==
    \/ ~crashed /\ (Registry \/ Forwarding)
    \/ \E peer \in Peers : PeerRestarts(peer)
    \/ RuntimeRestarts

Spec == Init /\ [][Next]_vars

-----------------------------------------------------------------------------
TypeOK ==
    /\ IsMap(m_apps, Apps, Services, SUBSET Services)
    /\ m_pending_requests \in [DOMAIN m_pending_requests -> Peers]
    /\ DOMAIN m_pending_requests \subseteq Keys
    /\ crashed \in BOOLEAN
    /\ introduced \subseteq Apps
    /\ held \subseteq Peers \X Keys
    /\ asked \in [Peers \X Keys -> 0 .. MaxAsked]
    /\ answered \in [Peers \X Keys -> Nat]

\* forward() follows an alias to its Record without asking whether the
\* application is still there, in any order of registrations, offers of the
\* same service by several applications, and evictions: it always is, and it
\* has offered the service since it registered.
AliasesLeadToProviders ==
    /\ Consistent(m_apps)
    /\ \A service \in DOMAIN m_apps.secondary :
           service \in m_apps.primary[KeyOf(m_apps, service)].value

\* A service one application alone is configured to offer is found from its
\* offer until it leaves, whatever others registered, offered or left.
OfferedIsReachable ==
    \A a \in DOMAIN m_apps.primary : \A service \in m_apps.primary[a].value :
        (\A b \in Apps : service \in Offers[b] => b = a) =>
            ContainsAlias(m_apps, service) /\ KeyOf(m_apps, service) = a

\* While a provider stays registered, no offer and no departure of another takes
\* a service from it.
ProviderKeepsService ==
    [][ \A service \in DOMAIN m_apps.secondary :
            KeyOf(m_apps, service) \in DOMAIN m_apps'.primary =>
                /\ service \in DOMAIN m_apps'.secondary
                /\ KeyOf(m_apps', service) = KeyOf(m_apps, service) ]_vars

\* Nobody is sent an answer it did not ask for, nor more answers than it asked
\* questions, although clients reuse sessions, providers are replaced and answer
\* late, and the runtime forgets what is pending when it restarts.
AnsweredWasAsked == \A pk \in Peers \X Keys : answered[pk] <= asked[pk]

\* An answer is sent to applications that are registered only.
AnswersGoToRegistered ==
    [][ \A a \in Apps, key \in Keys :
            answered'[<<a, key>>] # answered[<<a, key>>] => Registered(a) ]_vars

\* runtime_stub.hpp:57, handle_on_receive(...) noexcept
HandlersDoNotThrow == ~crashed
=============================================================================
