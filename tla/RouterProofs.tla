----------------------------- MODULE RouterProofs -----------------------------
(***************************************************************************)
(* Invariance of TypeOK, AliasesLeadToProviders, OfferedIsReachable and    *)
(* AnsweredWasAsked of Router, and that every step satisfies               *)
(* ProviderKeepsService and AnswersGoToRegistered, for all sets of         *)
(* applications, services and calls and all client ids.                    *)
(***************************************************************************)
EXTENDS Router, TLAPS

-----------------------------------------------------------------------------
(* The map with aliases.                                                   *)

\* What a map's type says of its two parts.
LEMMA MapParts ==
    ASSUME NEW PKeys, NEW SKeys, NEW Values, NEW m, IsMap(m, PKeys, SKeys, Values)
    PROVE  /\ m = [primary |-> m.primary, secondary |-> m.secondary]
           /\ DOMAIN m.primary \subseteq PKeys /\ DOMAIN m.secondary \subseteq SKeys
           /\ m.primary \in [DOMAIN m.primary -> [value : Values, secondaries : SUBSET SKeys]]
           /\ m.secondary \in [DOMAIN m.secondary -> PKeys]
  BY DEF IsMap

\* ... and that two such parts make a map.
LEMMA MapFromParts ==
    ASSUME NEW PKeys, NEW SKeys, NEW Values, NEW n,
           n = [primary |-> n.primary, secondary |-> n.secondary],
           DOMAIN n.primary \subseteq PKeys, DOMAIN n.secondary \subseteq SKeys,
           n.primary \in [DOMAIN n.primary -> [value : Values, secondaries : SUBSET SKeys]],
           n.secondary \in [DOMAIN n.secondary -> PKeys]
    PROVE  IsMap(n, PKeys, SKeys, Values)
<1>1. DOMAIN n.primary \in SUBSET PKeys /\ DOMAIN n.secondary \in SUBSET SKeys
  OBVIOUS
<1>2. n \in [primary   : [DOMAIN n.primary -> [value : Values, secondaries : SUBSET SKeys]],
            secondary : [DOMAIN n.secondary -> PKeys]]
  OBVIOUS
<1> QED
  BY <1>1, <1>2 DEF IsMap

\* insert() gives a new key a Record without aliases.
LEMMA InsertProperties ==
    ASSUME NEW PKeys, NEW SKeys, NEW Values, NEW m, IsMap(m, PKeys, SKeys, Values),
           Consistent(m), NEW pkey \in PKeys, NEW value \in Values
    PROVE  LET n == Insert(m, pkey, value)
           IN  /\ IsMap(n, PKeys, SKeys, Values)
               /\ Consistent(n)
               /\ n.secondary = m.secondary
               /\ DOMAIN m.primary \subseteq DOMAIN n.primary
               /\ \A p \in DOMAIN m.primary : n.primary[p] = m.primary[p]
<1> DEFINE n == Insert(m, pkey, value)
           f == Put(m.primary, pkey, [value |-> value, secondaries |-> {}])
<1>1. CASE Contains(m, pkey)
  BY <1>1 DEF Insert
<1>2. CASE ~Contains(m, pkey)
  <2>1. n = [primary |-> f, secondary |-> m.secondary]
    BY <1>2, MapParts DEF Insert
  <2>2. /\ DOMAIN f = DOMAIN m.primary \cup {pkey}
        /\ \A p \in DOMAIN m.primary : f[p] = m.primary[p]
        /\ f[pkey] = [value |-> value, secondaries |-> {}]
    BY <1>2 DEF Put, Contains
  <2>3. f \in [DOMAIN m.primary \cup {pkey} -> [value : Values, secondaries : SUBSET SKeys]]
    BY <2>2, MapParts DEF Put
  <2>4. IsMap(n, PKeys, SKeys, Values)
    <3>1. n.primary = f /\ n.secondary = m.secondary
      BY <2>1
    <3> HIDE DEF f, n
    <3> QED
      BY <2>1, <2>2, <2>3, <3>1, MapParts, MapFromParts
  <2>5. Consistent(n)
    <3>1. \A skey \in DOMAIN m.secondary :
              m.secondary[skey] \in DOMAIN m.primary /\ skey \in m.primary[m.secondary[skey]].secondaries
      BY DEF Consistent, Contains, KeyOf
    <3>2. \A p \in DOMAIN m.primary : \A skey \in m.primary[p].secondaries :
              skey \in DOMAIN m.secondary /\ m.secondary[skey] = p
      BY DEF Consistent, ContainsAlias, KeyOf
    <3>3. n.primary = f /\ n.secondary = m.secondary
      BY <2>1
    <3>4. f[pkey].secondaries = {}
      BY <2>2
    <3> HIDE DEF f, n
    <3> QED
      BY <2>2, <3>1, <3>2, <3>3, <3>4 DEF Consistent, Contains, ContainsAlias, KeyOf
  <2> QED
    BY <2>1, <2>2, <2>4, <2>5
<1> QED
  BY <1>1, <1>2

\* An assignment through at() changes the value of one Record only.
LEMMA AssignProperties ==
    ASSUME NEW PKeys, NEW SKeys, NEW Values, NEW m, IsMap(m, PKeys, SKeys, Values),
           Consistent(m), NEW pkey \in DOMAIN m.primary, NEW value \in Values
    PROVE  LET n == Assign(m, pkey, value)
           IN  /\ IsMap(n, PKeys, SKeys, Values)
               /\ Consistent(n)
               /\ n.secondary = m.secondary
               /\ DOMAIN n.primary = DOMAIN m.primary
               /\ n.primary[pkey].value = value
               /\ \A p \in DOMAIN m.primary \ {pkey} : n.primary[p] = m.primary[p]
<1> DEFINE n == Assign(m, pkey, value)
           f == [m.primary EXCEPT ![pkey].value = value]
<1>1. n = [primary |-> f, secondary |-> m.secondary]
  BY MapParts DEF Assign
<1>2. /\ f \in [DOMAIN m.primary -> [value : Values, secondaries : SUBSET SKeys]]
      /\ f[pkey].value = value
      /\ \A p \in DOMAIN m.primary : f[p].secondaries = m.primary[p].secondaries
      /\ \A p \in DOMAIN m.primary \ {pkey} : f[p] = m.primary[p]
  BY MapParts
<1>3. IsMap(n, PKeys, SKeys, Values)
  <2>1. n.primary = f /\ n.secondary = m.secondary /\ DOMAIN f = DOMAIN m.primary
    BY <1>1
  <2> HIDE DEF f, n
  <2> QED
    BY <1>1, <1>2, <2>1, MapParts, MapFromParts
<1>4. Consistent(n)
  BY <1>1, <1>2 DEF Consistent, Contains, ContainsAlias, KeyOf
<1> QED
  BY <1>1, <1>2, <1>3, <1>4

\* alias() gives the key the aliases that were free, and moves none.
LEMMA AliasProperties ==
    ASSUME NEW PKeys, NEW SKeys, NEW Values, NEW m, IsMap(m, PKeys, SKeys, Values),
           Consistent(m), NEW pkey \in DOMAIN m.primary, NEW skeys \in SUBSET SKeys
    PROVE  LET n == Alias(m, pkey, skeys)
           IN  /\ IsMap(n, PKeys, SKeys, Values)
               /\ Consistent(n)
               /\ DOMAIN n.primary = DOMAIN m.primary
               /\ \A p \in DOMAIN m.primary : n.primary[p].value = m.primary[p].value
               /\ DOMAIN n.secondary = DOMAIN m.secondary \cup skeys
               /\ \A skey \in DOMAIN m.secondary : n.secondary[skey] = m.secondary[skey]
               /\ \A skey \in skeys \ DOMAIN m.secondary : n.secondary[skey] = pkey
<1> DEFINE n == Alias(m, pkey, skeys)
           new == skeys \ DOMAIN m.secondary
           f == [m.primary EXCEPT ![pkey].secondaries = @ \cup new]
           g == [skey \in DOMAIN m.secondary \cup new |->
                    IF skey \in new THEN pkey ELSE m.secondary[skey]]
<1>1. n = [primary |-> f, secondary |-> g]
  BY DEF Alias
<1>2. /\ f \in [DOMAIN m.primary -> [value : Values, secondaries : SUBSET SKeys]]
      /\ \A p \in DOMAIN m.primary : f[p].value = m.primary[p].value
      /\ f[pkey].secondaries = m.primary[pkey].secondaries \cup new
      /\ \A p \in DOMAIN m.primary \ {pkey} : f[p] = m.primary[p]
  BY MapParts
<1>3. /\ g \in [DOMAIN m.secondary \cup new -> PKeys]
      /\ DOMAIN g = DOMAIN m.secondary \cup skeys
      /\ \A skey \in DOMAIN m.secondary : g[skey] = m.secondary[skey]
      /\ \A skey \in new : g[skey] = pkey
  BY MapParts
<1>4. IsMap(n, PKeys, SKeys, Values)
  <2>1. n.primary = f /\ n.secondary = g /\ DOMAIN f = DOMAIN m.primary
        /\ DOMAIN g = DOMAIN m.secondary \cup new
    BY <1>1
  <2>2. DOMAIN f \subseteq PKeys /\ DOMAIN g \subseteq SKeys
    BY <2>1, MapParts
  <2> HIDE DEF f, g, n
  <2> QED
    BY <1>1, <1>2, <1>3, <2>1, <2>2, MapFromParts
<1>5. Consistent(n)
  <2>1. ASSUME NEW skey \in DOMAIN g
        PROVE  g[skey] \in DOMAIN f /\ skey \in f[g[skey]].secondaries
    <3>1. CASE skey \in new
      BY <3>1, <1>2, <1>3
    <3>2. CASE skey \in DOMAIN m.secondary
      <4>1. m.secondary[skey] \in DOMAIN m.primary
            /\ skey \in m.primary[m.secondary[skey]].secondaries
        BY <3>2 DEF Consistent, Contains, KeyOf
      <4> QED
        BY <4>1, <3>2, <1>2, <1>3
    <3> QED
      BY <3>1, <3>2, <1>3
  <2>2. ASSUME NEW p \in DOMAIN f, NEW skey \in f[p].secondaries
        PROVE  skey \in DOMAIN g /\ g[skey] = p
    <3>1. CASE skey \in m.primary[p].secondaries
      BY <3>1, <1>2, <1>3 DEF Consistent, ContainsAlias, KeyOf
    <3>2. CASE skey \notin m.primary[p].secondaries
      BY <2>2, <3>2, <1>2, <1>3
    <3> QED
      BY <3>1, <3>2
  <2> QED
    BY <1>1, <2>1, <2>2 DEF Consistent, Contains, ContainsAlias, KeyOf
<1> QED
  BY <1>1, <1>2, <1>3, <1>4, <1>5

\* erase() takes the key and its aliases, and nothing of other keys.
LEMMA EraseProperties ==
    ASSUME NEW PKeys, NEW SKeys, NEW Values, NEW m, IsMap(m, PKeys, SKeys, Values),
           Consistent(m), NEW pkey
    PROVE  LET n == Erase(m, pkey)
           IN  /\ IsMap(n, PKeys, SKeys, Values)
               /\ Consistent(n)
               /\ DOMAIN n.primary = DOMAIN m.primary \ {pkey}
               /\ \A p \in DOMAIN n.primary : n.primary[p] = m.primary[p]
               /\ DOMAIN n.secondary \subseteq DOMAIN m.secondary
               /\ \A skey \in DOMAIN n.secondary : n.secondary[skey] = m.secondary[skey]
               /\ \A skey \in DOMAIN m.secondary :
                      m.secondary[skey] # pkey => skey \in DOMAIN n.secondary
<1> DEFINE n == Erase(m, pkey)
           f == Without(m.primary, pkey)
           S == DOMAIN m.secondary \ m.primary[pkey].secondaries
           g == [skey \in S |-> m.secondary[skey]]
<1>1. CASE ~Contains(m, pkey)
  BY <1>1 DEF Erase, Contains
<1>2. CASE Contains(m, pkey)
  <2>1. n = [primary |-> f, secondary |-> g]
    BY <1>2 DEF Erase
  <2>2. /\ f \in [DOMAIN m.primary \ {pkey} -> [value : Values, secondaries : SUBSET SKeys]]
        /\ \A p \in DOMAIN m.primary \ {pkey} : f[p] = m.primary[p]
    BY MapParts DEF Without
  <2>3. g \in [S -> PKeys]
    BY MapParts
  <2>4. DOMAIN f \subseteq PKeys /\ DOMAIN g \subseteq SKeys
    BY <2>2, <2>3, MapParts
  <2>5. IsMap(n, PKeys, SKeys, Values)
    <3>1. n.primary = f /\ n.secondary = g /\ DOMAIN f = DOMAIN m.primary \ {pkey} /\ DOMAIN g = S
      BY <2>1, <2>2, <2>3
    <3> HIDE DEF f, g, n
    <3> QED
      BY <2>1, <2>2, <2>3, <2>4, <3>1, MapFromParts
  <2>6. \A skey \in DOMAIN m.secondary :
            /\ m.secondary[skey] \in DOMAIN m.primary
            /\ skey \in S <=> m.secondary[skey] # pkey
            /\ skey \in m.primary[m.secondary[skey]].secondaries
    BY <1>2 DEF Consistent, Contains, ContainsAlias, KeyOf
  <2>7. \A p \in DOMAIN f : \A skey \in f[p].secondaries : skey \in S /\ m.secondary[skey] = p
    BY <2>2, <2>6 DEF Consistent, ContainsAlias, KeyOf
  <2>8. Consistent(n)
    BY <2>1, <2>2, <2>3, <2>6, <2>7 DEF Consistent, Contains, ContainsAlias, KeyOf
  <2> QED
    BY <2>1, <2>2, <2>3, <2>5, <2>6, <2>8
<1> QED
  BY <1>1, <1>2
-----------------------------------------------------------------------------
(* The registry.                                                           *)

\* What an application has offered is what it is configured to offer.
OfferedAsConfigured ==
    \A a \in DOMAIN m_apps.primary : m_apps.primary[a].value \in {{}, Offers[a]}

\* An alias leads to an application that offers it because an offer, made again,
\* is the same offer.
RegistryInv ==
    /\ IsMap(m_apps, Apps, Services, SUBSET Services)
    /\ AliasesLeadToProviders
    /\ OfferedAsConfigured

\* What a step may do to the aliases of those that stay: nothing.
Kept ==
    \A service \in DOMAIN m_apps.secondary :
        KeyOf(m_apps, service) \in DOMAIN m_apps'.primary =>
            /\ service \in DOMAIN m_apps'.secondary
            /\ KeyOf(m_apps', service) = KeyOf(m_apps, service)

\* Most handlers do not touch the registry.
LEMMA RegistryUnchanged ==
    ASSUME RegistryInv, UNCHANGED m_apps
    PROVE  RegistryInv' /\ Kept
  BY DEF RegistryInv, AliasesLeadToProviders, OfferedAsConfigured, Kept

\* Registering adds a Record that offers nothing, or changes nothing.
LEMMA RegisterKeepsRegistry ==
    ASSUME RegistryInv, NEW a \in Apps, Register(a)
    PROVE  RegistryInv' /\ Kept
<1>1. m_apps' = Insert(m_apps, a, {}) /\ {} \in SUBSET Services
  BY DEF Register
<1>2. /\ IsMap(m_apps', Apps, Services, SUBSET Services)
      /\ Consistent(m_apps')
      /\ m_apps'.secondary = m_apps.secondary
      /\ DOMAIN m_apps.primary \subseteq DOMAIN m_apps'.primary
      /\ \A p \in DOMAIN m_apps.primary : m_apps'.primary[p] = m_apps.primary[p]
  BY <1>1, InsertProperties DEF RegistryInv, AliasesLeadToProviders
<1>3. \A service \in DOMAIN m_apps.secondary : m_apps.secondary[service] \in DOMAIN m_apps.primary
  BY DEF RegistryInv, AliasesLeadToProviders, Consistent, Contains, KeyOf
<1>4. AliasesLeadToProviders'
  BY <1>2, <1>3 DEF RegistryInv, AliasesLeadToProviders, KeyOf
<1>5. OfferedAsConfigured'
  <2>1. \A p \in DOMAIN m_apps'.primary :
            p \in DOMAIN m_apps.primary \/ m_apps'.primary[p].value = {}
    <3>1. m_apps = [primary |-> m_apps.primary, secondary |-> m_apps.secondary]
      BY MapParts DEF RegistryInv
    <3>2. CASE Contains(m_apps, a)
      BY <1>1, <3>2 DEF Insert
    <3>3. CASE ~Contains(m_apps, a)
      <4>1. m_apps'.primary = Put(m_apps.primary, a, [value |-> {}, secondaries |-> {}])
        BY <1>1, <3>1, <3>3 DEF Insert
      <4> QED
        BY <4>1 DEF Put
    <3> QED
      BY <3>2, <3>3
  <2> QED
    BY <1>2, <2>1 DEF RegistryInv, OfferedAsConfigured
<1> QED
  BY <1>2, <1>4, <1>5 DEF RegistryInv, Kept, KeyOf

\* An offer claims the services nobody has.
LEMMA OfferKeepsRegistry ==
    ASSUME RegistryInv, NEW a \in Apps, Offer(a)
    PROVE  RegistryInv' /\ Kept
<1>1. CASE UNCHANGED m_apps
  BY <1>1, RegistryUnchanged
<1>2. CASE Registered(a) /\ m_apps' = Alias(Assign(m_apps, a, Offers[a]), a, Offers[a])
  <2> DEFINE n == Assign(m_apps, a, Offers[a])
  <2>1. a \in DOMAIN m_apps.primary /\ Offers[a] \in SUBSET Services
    BY <1>2, OffersAssumption DEF Registered, Contains
  <2>2. /\ IsMap(n, Apps, Services, SUBSET Services)
        /\ Consistent(n)
        /\ n.secondary = m_apps.secondary
        /\ DOMAIN n.primary = DOMAIN m_apps.primary
        /\ n.primary[a].value = Offers[a]
        /\ \A p \in DOMAIN m_apps.primary \ {a} : n.primary[p] = m_apps.primary[p]
    BY <2>1, AssignProperties DEF RegistryInv, AliasesLeadToProviders
  <2> HIDE DEF n
  <2>3. m_apps' = Alias(n, a, Offers[a]) /\ a \in DOMAIN n.primary
    BY <1>2, <2>1, <2>2 DEF n
  <2>4. /\ IsMap(m_apps', Apps, Services, SUBSET Services)
        /\ Consistent(m_apps')
        /\ DOMAIN m_apps'.primary = DOMAIN n.primary
        /\ \A p \in DOMAIN n.primary : m_apps'.primary[p].value = n.primary[p].value
        /\ DOMAIN m_apps'.secondary = DOMAIN n.secondary \cup Offers[a]
        /\ \A service \in DOMAIN n.secondary : m_apps'.secondary[service] = n.secondary[service]
        /\ \A service \in Offers[a] \ DOMAIN n.secondary : m_apps'.secondary[service] = a
    BY <2>1, <2>2, <2>3, AliasProperties
  <2>5. OfferedAsConfigured'
    BY <2>2, <2>4 DEF RegistryInv, OfferedAsConfigured
  <2>6. ASSUME NEW service \in DOMAIN m_apps'.secondary
        PROVE  service \in m_apps'.primary[m_apps'.secondary[service]].value
    <3>1. CASE service \in DOMAIN m_apps.secondary
      <4>1. /\ m_apps.secondary[service] \in DOMAIN m_apps.primary
            /\ service \in m_apps.primary[m_apps.secondary[service]].value
        BY <3>1 DEF RegistryInv, AliasesLeadToProviders, Consistent, Contains, KeyOf
      <4>2. m_apps.secondary[service] = a => service \in Offers[a]
        BY <4>1 DEF RegistryInv, OfferedAsConfigured
      <4> QED
        BY <3>1, <4>1, <4>2, <2>2, <2>4
    <3>2. CASE service \in Offers[a] \ DOMAIN m_apps.secondary
      BY <3>2, <2>1, <2>2, <2>4
    <3> QED
      BY <3>1, <3>2, <2>2, <2>4
  <2>7. AliasesLeadToProviders'
    BY <2>4, <2>6 DEF AliasesLeadToProviders, KeyOf
  <2>8. Kept
    BY <2>2, <2>4 DEF Kept, KeyOf
  <2> QED
    BY <2>4, <2>5, <2>7, <2>8 DEF RegistryInv
<1> QED
  BY <1>1, <1>2 DEF Offer, Throws

\* Erasing an application takes its own aliases only.
LEMMA EraseKeepsRegistry ==
    ASSUME RegistryInv, NEW a \in Apps, m_apps' = Erase(m_apps, a)
    PROVE  RegistryInv' /\ Kept
<1>1. /\ IsMap(m_apps', Apps, Services, SUBSET Services)
      /\ Consistent(m_apps')
      /\ DOMAIN m_apps'.primary = DOMAIN m_apps.primary \ {a}
      /\ \A p \in DOMAIN m_apps'.primary : m_apps'.primary[p] = m_apps.primary[p]
      /\ DOMAIN m_apps'.secondary \subseteq DOMAIN m_apps.secondary
      /\ \A service \in DOMAIN m_apps'.secondary :
             m_apps'.secondary[service] = m_apps.secondary[service]
      /\ \A service \in DOMAIN m_apps.secondary :
             m_apps.secondary[service] # a => service \in DOMAIN m_apps'.secondary
  BY EraseProperties DEF RegistryInv, AliasesLeadToProviders
<1>2. \A service \in DOMAIN m_apps'.secondary :
          m_apps'.secondary[service] \in DOMAIN m_apps'.primary
  BY <1>1 DEF Consistent, Contains, KeyOf
<1>3. AliasesLeadToProviders'
  BY <1>1, <1>2 DEF RegistryInv, AliasesLeadToProviders, KeyOf
<1>4. OfferedAsConfigured'
  BY <1>1 DEF RegistryInv, OfferedAsConfigured
<1>5. Kept
  BY <1>1 DEF Kept, KeyOf
<1> QED
  BY <1>1, <1>3, <1>4, <1>5 DEF RegistryInv

\* A runtime that starts knows no application.
LEMMA EmptyRegistry == m_apps = EmptyMap => RegistryInv
<1> SUFFICES ASSUME m_apps = EmptyMap PROVE RegistryInv
  OBVIOUS
<1>1. /\ m_apps = [primary |-> m_apps.primary, secondary |-> m_apps.secondary]
      /\ m_apps.primary = <<>> /\ m_apps.secondary = <<>>
      /\ DOMAIN m_apps.primary = {} /\ DOMAIN m_apps.secondary = {}
  BY DEF EmptyMap
<1>2. ASSUME NEW T PROVE <<>> \in [{} -> T]
  OBVIOUS
<1>3. IsMap(m_apps, Apps, Services, SUBSET Services)
  <2>1. /\ m_apps.primary \in [DOMAIN m_apps.primary ->
               [value : SUBSET Services, secondaries : SUBSET Services]]
        /\ m_apps.secondary \in [DOMAIN m_apps.secondary -> Apps]
    BY <1>1, <1>2
  <2> QED
    BY <1>1, <2>1, MapFromParts
<1> QED
  BY <1>1, <1>3 DEF RegistryInv, AliasesLeadToProviders, OfferedAsConfigured, Consistent

\* Every step keeps the registry's invariant, and the aliases of those that stay.
LEMMA NextRegistry == RegistryInv /\ [Next]_vars => RegistryInv' /\ Kept
<1> SUFFICES ASSUME RegistryInv, [Next]_vars PROVE RegistryInv' /\ Kept
  OBVIOUS
<1>1. CASE UNCHANGED m_apps
  BY <1>1, RegistryUnchanged
<1>2. ASSUME NEW a \in Apps, Register(a) \/ Offer(a) PROVE RegistryInv' /\ Kept
  BY <1>2, RegisterKeepsRegistry, OfferKeepsRegistry
<1>3. ASSUME NEW a \in Apps, RequestServices(a) \/ Unregister(a) \/ Evict(a)
      PROVE  RegistryInv' /\ Kept
  BY <1>1, <1>3, EraseKeepsRegistry DEF RequestServices, Unregister, Evict, Throws
<1>4. CASE Forwarding
  BY <1>1, <1>4 DEF Forwarding, ForwardTooLarge, ForwardRequest, ForwardUnknown, Respond,
     ForwardResponse, DropResponse, RefuseResponse, Throws
<1>5. ASSUME NEW peer \in Peers, PeerRestarts(peer) PROVE RegistryInv' /\ Kept
  BY <1>1, <1>5 DEF PeerRestarts
<1>6. CASE RuntimeRestarts
  <2>1. m_apps' = EmptyMap /\ DOMAIN m_apps'.primary = {}
    BY <1>6 DEF RuntimeRestarts, EmptyMap
  <2>2. RegistryInv'
    <3>1. (m_apps = EmptyMap => RegistryInv)'
      BY EmptyRegistry, PTL
    <3> QED
      BY <2>1, <3>1
  <2> QED
    BY <2>1, <2>2 DEF Kept
<1> QED
  BY <1>1, <1>2, <1>3, <1>4, <1>5, <1>6 DEF Next, Registry, vars

\* No alias dangles: forward() follows it to an application that is registered
\* and offers the service.
THEOREM AliasesAlwaysLead == Spec => []AliasesLeadToProviders
<1>1. Init => RegistryInv
  BY EmptyRegistry DEF Init
<1>2. RegistryInv => AliasesLeadToProviders
  BY DEF RegistryInv
<1> QED
  BY <1>1, <1>2, NextRegistry, PTL DEF Spec

\* No step takes a service from a provider that stays registered.
THEOREM ServicesAreKept == Spec => ProviderKeepsService
<1>1. Init => RegistryInv
  BY EmptyRegistry DEF Init
<1>2. Kept => \A service \in DOMAIN m_apps.secondary :
                  KeyOf(m_apps, service) \in DOMAIN m_apps'.primary =>
                      /\ service \in DOMAIN m_apps'.secondary
                      /\ KeyOf(m_apps', service) = KeyOf(m_apps, service)
  BY DEF Kept
<1>3. RegistryInv /\ [Next]_vars =>
          [ \A service \in DOMAIN m_apps.secondary :
                KeyOf(m_apps, service) \in DOMAIN m_apps'.primary =>
                    /\ service \in DOMAIN m_apps'.secondary
                    /\ KeyOf(m_apps', service) = KeyOf(m_apps, service) ]_vars
  BY <1>2, NextRegistry
<1> QED
  BY <1>1, <1>3, NextRegistry, PTL DEF Spec, ProviderKeepsService

-----------------------------------------------------------------------------
(* What is offered is found.                                               *)

\* An alias of a service one application alone is configured to offer leads to it.
LEMMA SoleProvider ==
    RegistryInv =>
        \A a \in Apps : \A service \in DOMAIN m_apps.secondary :
            (\A b \in Apps : service \in Offers[b] => b = a) => m_apps.secondary[service] = a
<1> SUFFICES ASSUME RegistryInv, NEW a \in Apps, NEW service \in DOMAIN m_apps.secondary,
                    \A b \in Apps : service \in Offers[b] => b = a
             PROVE  m_apps.secondary[service] = a
  OBVIOUS
<1>1. m_apps.secondary[service] \in DOMAIN m_apps.primary
  BY DEF RegistryInv, AliasesLeadToProviders, Consistent, Contains, KeyOf
<1>2. service \in Offers[m_apps.secondary[service]]
  BY <1>1 DEF RegistryInv, AliasesLeadToProviders, OfferedAsConfigured, KeyOf
<1>3. m_apps.secondary[service] \in Apps
  BY MapParts DEF RegistryInv
<1> QED
  BY <1>2, <1>3

\* Every service an application offers, and is alone to offer, has an alias.
LEMMA NextReachable ==
    RegistryInv /\ OfferedIsReachable /\ [Next]_vars => OfferedIsReachable'
<1> SUFFICES ASSUME RegistryInv, OfferedIsReachable, [Next]_vars PROVE OfferedIsReachable'
  OBVIOUS
<1>1. RegistryInv' /\ Kept
  BY NextRegistry
<1>2. (\A a \in Apps : \A service \in DOMAIN m_apps.secondary :
          (\A b \in Apps : service \in Offers[b] => b = a) => m_apps.secondary[service] = a)'
  <2>1. (RegistryInv => \A a \in Apps : \A service \in DOMAIN m_apps.secondary :
             (\A b \in Apps : service \in Offers[b] => b = a) => m_apps.secondary[service] = a)'
    BY SoleProvider, PTL
  <2> QED
    BY <1>1, <2>1
<1> SUFFICES ASSUME NEW a \in DOMAIN m_apps'.primary, NEW service \in m_apps'.primary[a].value,
                    \A b \in Apps : service \in Offers[b] => b = a
             PROVE  service \in DOMAIN m_apps'.secondary
  <2>1. DOMAIN m_apps'.primary \subseteq Apps
    BY <1>1, MapParts DEF RegistryInv
  <2> QED
    BY <1>2, <2>1 DEF OfferedIsReachable, ContainsAlias, KeyOf
<1>3. a \in Apps
  BY <1>1, MapParts DEF RegistryInv
\* What was offered before has an alias, and keeps it.
<1>4. CASE a \in DOMAIN m_apps.primary /\ service \in m_apps.primary[a].value
  <2>1. service \in DOMAIN m_apps.secondary /\ m_apps.secondary[service] = a
    BY <1>4 DEF OfferedIsReachable, ContainsAlias, KeyOf
  <2> QED
    BY <1>1, <2>1 DEF Kept, KeyOf
\* What is offered now is given one.
<1>5. CASE ~(a \in DOMAIN m_apps.primary /\ service \in m_apps.primary[a].value)
  <2>1. \/ UNCHANGED m_apps
        \/ m_apps' = EmptyMap
        \/ \E p \in Apps : m_apps' = Erase(m_apps, p)
        \/ \E p \in Apps : m_apps' = Insert(m_apps, p, {})
        \/ \E p \in Apps : /\ Registered(p)
                          /\ m_apps' = Alias(Assign(m_apps, p, Offers[p]), p, Offers[p])
    BY DEF Next, Registry, Forwarding, Register, Offer, RequestServices, Unregister, Evict,
       ForwardTooLarge, ForwardRequest, ForwardUnknown, Respond, ForwardResponse,
       DropResponse, RefuseResponse, PeerRestarts, RuntimeRestarts, Throws, environment, vars
  <2>2. CASE UNCHANGED m_apps
    BY <1>5, <2>2
  <2>3. CASE m_apps' = EmptyMap
    BY <2>3 DEF EmptyMap
  <2>4. ASSUME NEW p \in Apps, m_apps' = Erase(m_apps, p)
        PROVE  FALSE
    <3>1. /\ DOMAIN m_apps'.primary = DOMAIN m_apps.primary \ {p}
          /\ \A q \in DOMAIN m_apps'.primary : m_apps'.primary[q] = m_apps.primary[q]
      BY <2>4, EraseProperties DEF RegistryInv, AliasesLeadToProviders
    <3> QED
      BY <1>5, <3>1
  <2>5. ASSUME NEW p \in Apps, m_apps' = Insert(m_apps, p, {})
        PROVE  FALSE
    <3>1. \A q \in DOMAIN m_apps.primary : m_apps'.primary[q] = m_apps.primary[q]
      BY <2>5, InsertProperties DEF RegistryInv, AliasesLeadToProviders
    <3>2. CASE Contains(m_apps, p)
      BY <1>5, <2>5, <3>2 DEF Insert
    <3>3. CASE ~Contains(m_apps, p)
      <4>1. m_apps = [primary |-> m_apps.primary, secondary |-> m_apps.secondary]
        BY MapParts DEF RegistryInv
      <4>2. m_apps'.primary = Put(m_apps.primary, p, [value |-> {}, secondaries |-> {}])
        BY <2>5, <3>3, <4>1 DEF Insert
      <4>3. a \in DOMAIN m_apps.primary \/ m_apps'.primary[a].value = {}
        BY <4>2 DEF Put
      <4> QED
        BY <1>5, <3>1, <4>3
    <3> QED
      BY <3>2, <3>3
  <2>6. ASSUME NEW p \in Apps, Registered(p),
               m_apps' = Alias(Assign(m_apps, p, Offers[p]), p, Offers[p])
        PROVE  service \in DOMAIN m_apps'.secondary
    <3> DEFINE n == Assign(m_apps, p, Offers[p])
    <3>1. p \in DOMAIN m_apps.primary /\ Offers[p] \in SUBSET Services
      BY <2>6, OffersAssumption DEF Registered, Contains
    <3>2. /\ IsMap(n, Apps, Services, SUBSET Services)
          /\ Consistent(n)
          /\ DOMAIN n.primary = DOMAIN m_apps.primary
          /\ n.primary[p].value = Offers[p]
          /\ \A q \in DOMAIN m_apps.primary \ {p} : n.primary[q] = m_apps.primary[q]
      BY <3>1, AssignProperties DEF RegistryInv, AliasesLeadToProviders
    <3> HIDE DEF n
    <3>3. m_apps' = Alias(n, p, Offers[p]) /\ p \in DOMAIN n.primary
      BY <2>6, <3>1, <3>2 DEF n
    <3>4. /\ DOMAIN m_apps'.primary = DOMAIN n.primary
          /\ \A q \in DOMAIN n.primary : m_apps'.primary[q].value = n.primary[q].value
          /\ DOMAIN m_apps'.secondary = DOMAIN n.secondary \cup Offers[p]
      BY <3>1, <3>2, <3>3, AliasProperties
    <3>5. a = p
      BY <1>5, <3>2, <3>4
    <3> QED
      BY <3>2, <3>4, <3>5
  <2> QED
    BY <2>1, <2>2, <2>3, <2>4, <2>5, <2>6
<1> QED
  BY <1>4, <1>5

\* A service one application alone is configured to offer is found from its offer
\* until it leaves.
THEOREM OffersAreReachable == Spec => []OfferedIsReachable
<1>1. Init => RegistryInv /\ OfferedIsReachable
  BY EmptyRegistry DEF Init, OfferedIsReachable, EmptyMap
<1> QED
  BY <1>1, NextRegistry, NextReachable, PTL DEF Spec

-----------------------------------------------------------------------------
(* Requests and answers.                                                   *)

\* Who waits for an answer has asked once more than it was answered.
PendingInv ==
    /\ m_pending_requests \in [DOMAIN m_pending_requests -> Peers]
    /\ DOMAIN m_pending_requests \subseteq Keys
    /\ held \subseteq Peers \X Keys
    /\ asked \in [Peers \X Keys -> 0 .. MaxAsked]
    /\ answered \in [Peers \X Keys -> Nat]
    /\ \A pk \in Peers \X Keys : answered[pk] <= asked[pk]
    /\ \A key \in DOMAIN m_pending_requests :
           answered[<<m_pending_requests[key], key>>] < asked[<<m_pending_requests[key], key>>]

\* The key is what the header says.
LEMMA KeyIsHeader == \A header \in Keys : MakeRequestKey(header) = header
  BY DEF Keys, Header, MakeRequestKey

\* A request counts one more question; who waits for the key goes on waiting.
LEMMA RequestKeepsPending ==
    ASSUME RegistryInv, PendingInv, NEW peer \in Peers, NEW header \in Keys,
           header.service \in Services, ForwardRequest(peer, header)
    PROVE  PendingInv'
<1> DEFINE pk == <<peer, header>>
<1>1. /\ pk \in Peers \X Keys /\ asked[pk] \in Nat
      /\ asked[pk] < MaxAsked
      /\ asked' = [asked EXCEPT ![pk] = @ + 1]
      /\ answered' = answered
  BY DEF ForwardRequest, PendingInv
<1>2. asked' \in [Peers \X Keys -> 0 .. MaxAsked]
  <2>1. asked[pk] + 1 \in 0 .. MaxAsked
    BY <1>1, MaxAskedAssumption
  <2> QED
    BY <1>1, <2>1 DEF PendingInv
<1>3. asked'[pk] = asked[pk] + 1 /\ \A q \in Peers \X Keys : q # pk => asked'[q] = asked[q]
  BY <1>1 DEF PendingInv
<1>4. \A q \in Peers \X Keys :
          asked[q] \in Nat /\ answered[q] \in Nat /\ answered[q] <= asked[q] /\ asked[q] <= asked'[q]
  <2>1. \A q \in Peers \X Keys :
            asked[q] \in Nat /\ answered[q] \in Nat /\ answered[q] <= asked[q]
    BY DEF PendingInv
  <2> QED
    BY <1>1, <1>3, <2>1
<1>5. held' \subseteq Peers \X Keys
  <2>1. Provider(header.service) \in Peers
    <3>1. CASE ContainsAlias(m_apps, header.service)
      BY <3>1, MapParts DEF Provider, ContainsAlias, KeyOf, RegistryInv, Peers
    <3>2. CASE ~ContainsAlias(m_apps, header.service)
      BY <3>2, ExternalAssumption DEF ForwardRequest, Provided, Provider, Peers
    <3> QED
      BY <3>1, <3>2
  <2> QED
    BY <2>1 DEF ForwardRequest, Ask, PendingInv
<1>6. /\ m_pending_requests' \in [DOMAIN m_pending_requests' -> Peers]
      /\ DOMAIN m_pending_requests' \subseteq Keys
      /\ \A key \in DOMAIN m_pending_requests' :
             \/ key = header /\ m_pending_requests'[key] = peer
             \/ key \in DOMAIN m_pending_requests /\ m_pending_requests'[key] = m_pending_requests[key]
  <2>1. \/ m_pending_requests' = m_pending_requests
        \/ m_pending_requests' = Put(m_pending_requests, header, peer)
    BY KeyIsHeader DEF ForwardRequest, Await
  <2> QED
    BY <2>1 DEF Put, PendingInv
<1>7. ASSUME NEW key \in DOMAIN m_pending_requests'
      PROVE  answered'[<<m_pending_requests'[key], key>>] < asked'[<<m_pending_requests'[key], key>>]
  <2>1. CASE key = header /\ m_pending_requests'[key] = peer
    BY <2>1, <1>1, <1>3, <1>4
  <2>2. CASE /\ key \in DOMAIN m_pending_requests
             /\ m_pending_requests'[key] = m_pending_requests[key]
    <3> DEFINE q == <<m_pending_requests[key], key>>
    <3>1. q \in Peers \X Keys /\ answered[q] < asked[q]
      BY <2>2 DEF PendingInv
    <3>2. asked[q] <= asked'[q] /\ asked[q] \in Nat /\ answered[q] \in Nat
      BY <3>1, <1>4
    <3>3. asked'[q] \in Nat
      BY <3>1, <1>2
    <3> HIDE DEF q
    <3>4. answered[q] < asked'[q]
      BY <3>1, <3>2, <3>3
    <3> QED
      BY <3>4, <2>2, <1>1 DEF q
  <2> QED
    BY <2>1, <2>2, <1>6
<1>8. \A q \in Peers \X Keys : answered'[q] <= asked'[q]
  <2>1. \A q \in Peers \X Keys : asked'[q] \in Nat
    BY <1>2
  <2> QED
    BY <1>1, <1>4, <2>1
<1> QED
  BY <1>1, <1>2, <1>5, <1>6, <1>7, <1>8 DEF PendingInv

\* An answer goes to who waits for its key, and is the only one for that wait.
LEMMA ResponseKeepsPending ==
    ASSUME PendingInv, NEW peer \in Peers, NEW header \in Keys, Respond(peer, header)
    PROVE  PendingInv'
<1>1. MakeRequestKey(header) = header
  BY KeyIsHeader
<1>2. CASE ForwardResponse(peer, header)
  <2> DEFINE pk == <<m_pending_requests[header], header>>
  <2>1. /\ header \in DOMAIN m_pending_requests
        /\ m_pending_requests' = Without(m_pending_requests, header)
        /\ answered' = [answered EXCEPT ![pk] = @ + 1]
        /\ held' \subseteq held
        /\ asked' = asked
    BY <1>1, <1>2 DEF ForwardResponse, Answer
  <2>2. pk \in Peers \X Keys /\ answered[pk] < asked[pk] /\ answered[pk] \in Nat /\ asked[pk] \in Nat
    BY <2>1 DEF PendingInv
  <2>3. /\ answered' \in [Peers \X Keys -> Nat]
        /\ answered'[pk] = answered[pk] + 1
        /\ \A q \in Peers \X Keys : q # pk => answered'[q] = answered[q]
    BY <2>1, <2>2 DEF PendingInv
  <2>4. /\ m_pending_requests' \in [DOMAIN m_pending_requests' -> Peers]
        /\ DOMAIN m_pending_requests' = DOMAIN m_pending_requests \ {header}
        /\ \A key \in DOMAIN m_pending_requests' :
               m_pending_requests'[key] = m_pending_requests[key]
    BY <2>1 DEF Without, PendingInv
  <2>5. \A q \in Peers \X Keys : answered'[q] <= asked'[q]
    <3>1. answered[pk] + 1 <= asked[pk]
      BY <2>2
    <3> QED
      BY <3>1, <2>1, <2>3 DEF PendingInv
  <2>6. ASSUME NEW key \in DOMAIN m_pending_requests'
        PROVE  answered'[<<m_pending_requests'[key], key>>] < asked'[<<m_pending_requests'[key], key>>]
    <3>1. /\ key # header /\ key \in DOMAIN m_pending_requests
          /\ m_pending_requests'[key] = m_pending_requests[key]
          /\ <<m_pending_requests[key], key>> \in Peers \X Keys
      BY <2>4 DEF PendingInv
    <3>2. <<m_pending_requests[key], key>> # pk
      BY <3>1
    <3> QED
      BY <3>1, <3>2, <2>1, <2>3 DEF PendingInv
  <2> QED
    BY <2>1, <2>3, <2>4, <2>5, <2>6 DEF PendingInv
<1>3. CASE DropResponse(peer, header)
  <2>1. /\ UNCHANGED <<asked, answered>> /\ held' \subseteq held
        /\ \/ m_pending_requests' = Without(m_pending_requests, header)
           \/ m_pending_requests' = m_pending_requests
    BY <1>1, <1>3 DEF DropResponse, Throws, environment
  <2> QED
    BY <2>1 DEF PendingInv, Without
<1>4. CASE RefuseResponse(peer, header)
  <2>1. UNCHANGED <<m_pending_requests, asked, answered>> /\ held' \subseteq held
    BY <1>4 DEF RefuseResponse, Throws, environment
  <2> QED
    BY <2>1 DEF PendingInv
<1> QED
  BY <1>2, <1>3, <1>4 DEF Respond

\* Every other step leaves the counts alone and drops pending requests only when
\* the runtime ends.
LEMMA NextPending == RegistryInv /\ PendingInv /\ [Next]_vars => PendingInv'
<1> SUFFICES ASSUME RegistryInv, PendingInv, [Next]_vars PROVE PendingInv'
  OBVIOUS
<1>1. ASSUME UNCHANGED <<asked, answered>>, held' \subseteq held,
             UNCHANGED m_pending_requests \/ m_pending_requests' = <<>>
      PROVE  PendingInv'
  <2>1. CASE UNCHANGED m_pending_requests
    BY <1>1, <2>1 DEF PendingInv
  <2>2. CASE m_pending_requests' = <<>>
    <3>1. /\ DOMAIN m_pending_requests' = {}
          /\ m_pending_requests' \in [DOMAIN m_pending_requests' -> Peers]
      BY <2>2
    <3> QED
      BY <1>1, <3>1 DEF PendingInv
  <2> QED
    BY <1>1, <2>1, <2>2
<1>2. ASSUME NEW a \in Apps,
             Register(a) \/ Offer(a) \/ RequestServices(a) \/ Unregister(a) \/ Evict(a)
      PROVE  PendingInv'
  BY <1>1, <1>2 DEF Register, Offer, RequestServices, Unregister, Evict, Throws, environment
<1>3. ASSUME NEW peer \in Peers, ForwardTooLarge(peer) PROVE PendingInv'
  BY <1>1, <1>3 DEF ForwardTooLarge, Throws, environment
<1>4. ASSUME NEW call \in Calls, ForwardRequest(call.requester, Header(call)) PROVE PendingInv'
  <2>1. /\ call.requester \in Peers /\ Header(call) \in Keys
        /\ Header(call).service \in Services
    BY CallsAssumption DEF Keys, Header
  <2> QED
    BY <1>4, <2>1, RequestKeepsPending
<1>5. ASSUME NEW call \in Calls, ForwardUnknown(call.requester, Header(call)) PROVE PendingInv'
  BY <1>1, <1>5 DEF ForwardUnknown, Throws, environment
<1>6. ASSUME NEW request \in held, Respond(request[1], request[2]) PROVE PendingInv'
  <2>1. request[1] \in Peers /\ request[2] \in Keys
    BY DEF PendingInv
  <2> QED
    BY <1>6, <2>1, ResponseKeepsPending
<1>7. ASSUME NEW peer \in Peers, PeerRestarts(peer) PROVE PendingInv'
  BY <1>1, <1>7 DEF PeerRestarts
<1>8. CASE RuntimeRestarts
  BY <1>1, <1>8 DEF RuntimeRestarts, environment
<1>9. CASE UNCHANGED vars
  BY <1>1, <1>9 DEF vars, environment
<1> QED
  BY <1>2, <1>3, <1>4, <1>5, <1>6, <1>7, <1>8, <1>9 DEF Next, Registry, Forwarding

\* Before anyone asks, nobody waits.
LEMMA InitPending == Init => PendingInv
  BY MaxAskedAssumption DEF Init, PendingInv

\* Nobody is sent an answer it did not ask for, nor more answers than it asked
\* questions.
THEOREM AnswersWereAsked == Spec => []AnsweredWasAsked
<1>1. Init => RegistryInv
  BY EmptyRegistry DEF Init
<1>2. PendingInv => AnsweredWasAsked
  BY DEF PendingInv, AnsweredWasAsked
<1> QED
  BY <1>1, <1>2, InitPending, NextRegistry, NextPending, PTL DEF Spec

\* An answer is sent to applications that are registered only.
THEOREM AnswersReachRegistered == Spec => AnswersGoToRegistered
<1>1. Init => PendingInv
  BY InitPending
<1>2. ASSUME PendingInv, [Next]_vars
      PROVE  [ \A a \in Apps, key \in Keys :
                   answered'[<<a, key>>] # answered[<<a, key>>] => Registered(a) ]_vars
  <2>1. CASE UNCHANGED answered
    BY <2>1
  <2>2. ASSUME NEW peer, NEW header \in Keys, ForwardResponse(peer, header),
               NEW a \in Apps, NEW key \in Keys,
               answered'[<<a, key>>] # answered[<<a, key>>]
        PROVE  Registered(a)
    <3>1. MakeRequestKey(header) = header
      BY KeyIsHeader
    <3>2. CanBeNamed(m_pending_requests[header])
      BY <2>2, <3>1 DEF ForwardResponse
    <3>3. m_pending_requests[header] = a
      BY <2>2, <3>1 DEF ForwardResponse, Answer, PendingInv
    <3> QED
      BY <3>2, <3>3, PeersAssumption DEF CanBeNamed
  <2>3. \/ UNCHANGED answered
        \/ \E request \in held : ForwardResponse(request[1], request[2])
    BY <1>2 DEF Next, Registry, Forwarding, Register, Offer, RequestServices, Unregister, Evict,
       ForwardTooLarge, ForwardRequest, ForwardUnknown, Respond,
       DropResponse, RefuseResponse, PeerRestarts, RuntimeRestarts, Throws, environment, vars
  <2>4. \A request \in held : request[2] \in Keys
    BY <1>2 DEF PendingInv
  <2> QED
    BY <2>1, <2>2, <2>3, <2>4
<1>3. Init => RegistryInv
  BY EmptyRegistry DEF Init
<1> QED
  BY <1>1, <1>2, <1>3, NextRegistry, NextPending, PTL DEF Spec, AnswersGoToRegistered

\* crashed and introduced keep their types too.
LEMMA NextFlags ==
    crashed \in BOOLEAN /\ introduced \subseteq Apps /\ [Next]_vars =>
        (crashed \in BOOLEAN /\ introduced \subseteq Apps)'
<1> SUFFICES ASSUME crashed \in BOOLEAN, introduced \subseteq Apps, [Next]_vars
             PROVE  crashed' \in BOOLEAN /\ introduced' \subseteq Apps
  OBVIOUS
<1>1. crashed' \in {crashed, TRUE, FALSE}
  BY DEF Next, Registry, Forwarding, Register, Offer, RequestServices, Unregister, Evict,
     ForwardTooLarge, ForwardRequest, ForwardUnknown, Respond, ForwardResponse,
     DropResponse, RefuseResponse, PeerRestarts, RuntimeRestarts, Throws, environment, vars
<1>2. introduced' \subseteq introduced \/ \E a \in Apps : introduced' = introduced \cup {a}
  BY DEF Next, Registry, Forwarding, Register, Offer, RequestServices, Unregister, Evict,
     ForwardTooLarge, ForwardRequest, ForwardUnknown, Respond, ForwardResponse,
     DropResponse, RefuseResponse, PeerRestarts, RuntimeRestarts, Throws, environment, vars
<1> QED
  BY <1>1, <1>2

\* Every variable keeps its type.
THEOREM TypeCorrect == Spec => []TypeOK
<1> DEFINE Flags == crashed \in BOOLEAN /\ introduced \subseteq Apps
<1>1. Init => RegistryInv /\ Flags
  BY EmptyRegistry DEF Init
<1>2. Flags /\ [Next]_vars => Flags'
  BY NextFlags
<1>3. RegistryInv /\ PendingInv /\ Flags => TypeOK
  BY DEF RegistryInv, PendingInv, TypeOK
<1> HIDE DEF Flags
<1> QED
  BY <1>1, <1>2, <1>3, InitPending, NextRegistry, NextPending, PTL DEF Spec
=============================================================================
