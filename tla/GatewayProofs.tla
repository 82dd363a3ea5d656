---------------------------- MODULE GatewayProofs ----------------------------
(***************************************************************************)
(* Theorems about the gateway process, for any number of clients,          *)
(* goroutines, contracts, tenants and requests.                            *)
(*                                                                         *)
(* The gateway runs its components unchanged: its steps are steps of       *)
(* Registry, of RuleCatalog and of Ingestion, so that what RegistryProofs, *)
(* RuleCatalogProofs and ReplayProofs prove of them holds here.  What the  *)
(* gateway adds to them, it proves on top of that.                         *)
(***************************************************************************)
EXTENDS Gateway, FiniteSetTheorems, SequenceTheorems, TLAPS

RP == INSTANCE RegistryProofs WITH job <- writer

CP == INSTANCE RuleCatalogProofs

IP == INSTANCE ReplayProofs
       WITH contracts <- Contracts, rules <- Enforced, clock <- 0,
            Versions <- 1 .. MaxVersions, Rules <- RulesSent,
            Schemas <- {R!Canonical(s) : s \in Submitted},
            EmptyPayload <- [n \in {} |-> None],
            Window <- 1, MaxAge <- 0, MaxSkew <- 0, MaxTime <- 0

-----------------------------------------------------------------------------
(* The registry                                                            *)

(* What the registry assumes of its parameters.                            *)
LEMMA RegistryParameters == RP!TextAssumption /\ RP!SubmittedAssumption
  BY RegistryAssumption
     DEF RP!TextAssumption, RP!SubmittedAssumption, R!SchemaType, RP!SchemaType,
         R!Modes, RP!Modes, R!Kinds, RP!Kinds, R!Field, RP!Field

(* Both names of the compatibility check are of one check.                 *)
LEMMA SameCompatible ==
    ASSUME NEW old, NEW new, NEW mode
    PROVE  R!Compatible(old, new, mode) <=> RP!Compatible(old, new, mode)
<1>1. ASSUME NEW s PROVE R!Canonical(s) = RP!Canonical(s)
  BY DEF R!Canonical, RP!Canonical, R!SortedByName, RP!SortedByName, R!Cardinality, RP!Cardinality
<1>2. ASSUME NEW s PROVE R!FieldsNamed(s) = RP!FieldsNamed(s)
  BY DEF R!FieldsNamed, RP!FieldsNamed
<1>3. ASSUME NEW s, NEW n PROVE R!FieldOf(s, n) = RP!FieldOf(s, n)
  BY DEF R!FieldOf, RP!FieldOf
<1>4. ASSUME NEW f, NEW g PROVE R!ChangesToField(f, g) = RP!ChangesToField(f, g)
  BY DEF R!ChangesToField, RP!ChangesToField, R!EnumNarrowed, RP!EnumNarrowed,
         R!RequiredStrengthened, RP!RequiredStrengthened
<1>5. R!RemovedSeverity(mode) = RP!RemovedSeverity(mode)
  BY DEF R!RemovedSeverity, RP!RemovedSeverity
<1>6. ASSUME NEW f PROVE R!AddedSeverity(f, mode) = RP!AddedSeverity(f, mode)
  BY DEF R!AddedSeverity, RP!AddedSeverity
<1>7. ASSUME NEW a, NEW b PROVE R!Changes(a, b, mode) = RP!Changes(a, b, mode)
  BY <1>2, <1>3, <1>4, <1>5, <1>6 DEF R!Changes, RP!Changes
<1> QED BY <1>1, <1>7 DEF R!Compatible, RP!Compatible

(* A step of the gateway is one of the registry or leaves it alone.        *)
LEMMA RegistrySteps ==
    /\ Init => RP!Init
    /\ [Next]_vars => [RP!Next]_registry
<1>1. Init => RP!Init
  BY DEF Init, R!Init, RP!Init, R!Idle, RP!Idle
<1>2. ASSUME NEW cl \in Clients, NEW t \in Tenants, NEW mode \in Requested, R!Register(cl, t, mode)
      PROVE  RP!Next
  <2>1. RP!Register(cl, t, mode)
    BY <1>2 DEF R!Register, RP!Register, R!Idle, RP!Idle, R!NewContract, RP!NewContract,
                R!Cardinality, RP!Cardinality
  <2> QED BY <2>1 DEF RP!Next
<1>3. ASSUME NEW cl \in Clients, NEW t \in Tenants, NEW id \in DOMAIN store,
             NEW s \in Submitted, R!AddVersion(cl, t, id, s)
      PROVE  RP!Next
  <2>1. R!CanAdd(store[id], s) <=> RP!CanAdd(store[id], s)
    BY SameCompatible DEF R!CanAdd, RP!CanAdd, R!ValidSchema, RP!ValidSchema
  <2>2. R!NewVersion(store[id], s) = RP!NewVersion(store[id], s)
    BY DEF R!NewVersion, RP!NewVersion, R!Canonical, RP!Canonical,
           R!SortedByName, RP!SortedByName, R!Fingerprint, RP!Fingerprint, R!Cardinality, RP!Cardinality
  <2>3. RP!AddVersion(cl, t, id, s)
    BY <1>3, <2>1, <2>2
       DEF R!AddVersion, RP!AddVersion, R!Idle, RP!Idle, R!WithVersion, RP!WithVersion
  <2> QED BY <2>3 DEF RP!Next
<1>4. ASSUME NEW cl \in Clients, NEW t \in Tenants, NEW view \in shown, R!Publish(cl, t, view)
      PROVE  RP!Next
  <2>1. RP!Publish(cl, t, view)
    BY <1>4 DEF R!Publish, RP!Publish, R!Idle, RP!Idle, R!WithPublished, RP!WithPublished,
                R!CanPublish, RP!CanPublish
  <2> QED BY <2>1 DEF RP!Next
<1>5. ASSUME NEW cl \in Clients, R!Save(cl)
      PROVE  RP!Next
  <2>1. RP!Save(cl)
    BY <1>5 DEF R!Save, RP!Save, R!Idle, RP!Idle
  <2> QED BY <2>1 DEF RP!Next
<1>6. ASSUME Next PROVE RP!Next \/ UNCHANGED registry
  <2>1. CASE \E cl \in Clients :
                createContract(cl) \/ addVersion(cl) \/ publish(cl) \/ RegistrySave(cl)
    BY <1>2, <1>3, <1>4, <1>5, <2>1 DEF createContract, addVersion, publish, RegistrySave
  <2>2. CASE \E c \in ContractIDs : setRules(c) \/ activateRules(c)
    BY <2>2 DEF setRules, activateRules
  <2>3. CASE \E th \in Threads : ingest(th) \/ replay(th) \/ IngestStep(th) \/ CountEvent(th)
    BY <2>3 DEF ingest, replay, IngestStep, CountEvent
  <2>4. CASE Signal \/ Abandon \/ Stop \/ ShutdownFails \/ ListenFails
    BY <2>4 DEF Signal, Abandon, Stop, ShutdownFails, ListenFails, Exit
  <2> QED BY <1>6, <2>1, <2>2, <2>3, <2>4 DEF Next
<1>7. UNCHANGED vars => UNCHANGED registry
  BY DEF vars
<1> QED BY <1>1, <1>6, <1>7

(* Within the gateway the registry behaves as Registry says.               *)
LEMMA RegistryBehaves == Spec => RP!Spec
  BY RegistrySteps, PTL DEF Spec, RP!Spec, RP!vars, registry

-----------------------------------------------------------------------------
(* The rule policies                                                       *)

(* What the catalog assumes of its parameters.                             *)
LEMMA CatalogParameters ==
    CP!RuleTextAssumption /\ CP!KeepAssumption /\ CP!PolicyAssumption
  BY CatalogAssumption
     DEF CP!RuleTextAssumption, CP!KeepAssumption, CP!PolicyAssumption, C!Rule, CP!Rule,
         C!Operators, CP!Operators

(* A step of the gateway is one of the catalog or leaves it alone.         *)
LEMMA CatalogSteps ==
    /\ Init => CP!Init
    /\ [Next]_vars => [CP!Next]_policies
<1>1. Init => CP!Init
  BY DEF Init, C!Init, CP!Init
<1>2. ASSUME NEW c \in ContractIDs, NEW rules \in Policies, C!SetRules(c, rules)
      PROVE  CP!Next
  <2>1. CP!SetRules(c, rules)
    BY <1>2 DEF C!SetRules, CP!SetRules, C!ValidPolicy, CP!ValidPolicy, C!ValidRule, CP!ValidRule,
                C!Operators, CP!Operators, C!Put, CP!Put, C!Trimmed, CP!Trimmed,
                C!Flagged, CP!Flagged, C!NextVersion, CP!NextVersion
  <2> QED BY <2>1 DEF CP!Next
<1>3. ASSUME NEW c \in ContractIDs, NEW version \in 1 .. MaxVersion,
             C!ActivateRuleVersion(c, version) \/ C!ActivateUnknownVersion(c, version)
      PROVE  CP!Next
  <2>1. CP!ActivateRuleVersion(c, version) \/ CP!ActivateUnknownVersion(c, version)
    BY <1>3 DEF C!ActivateRuleVersion, CP!ActivateRuleVersion, C!ActivateUnknownVersion,
                CP!ActivateUnknownVersion, C!Flagged, CP!Flagged
  <2>2. version \in 0 .. MaxVersion + 1
    BY CatalogAssumption
  <2> QED BY <2>1, <2>2 DEF CP!Next
<1>4. ASSUME Next PROVE CP!Next \/ UNCHANGED policies
  <2>1. CASE \E cl \in Clients :
                createContract(cl) \/ addVersion(cl) \/ publish(cl) \/ RegistrySave(cl)
    BY <2>1 DEF createContract, addVersion, publish, RegistrySave
  <2>2. CASE \E c \in ContractIDs : setRules(c) \/ activateRules(c)
    BY <1>2, <1>3, <2>2 DEF setRules, activateRules
  <2>3. CASE \E th \in Threads : ingest(th) \/ replay(th) \/ IngestStep(th) \/ CountEvent(th)
    BY <2>3 DEF ingest, replay, IngestStep, CountEvent
  <2>4. CASE Signal \/ Abandon \/ Stop \/ ShutdownFails \/ ListenFails
    BY <2>4 DEF Signal, Abandon, Stop, ShutdownFails, ListenFails, Exit
  <2> QED BY <1>4, <2>1, <2>2, <2>3, <2>4 DEF Next
<1>5. UNCHANGED vars => UNCHANGED policies
  BY DEF vars
<1> QED BY <1>1, <1>4, <1>5

(* Within the gateway the policies behave as RuleCatalog says.             *)
LEMMA CatalogBehaves == Spec => CP!Spec
  BY CatalogSteps, PTL DEF Spec, CP!Spec, CP!vars, policies

-----------------------------------------------------------------------------
(* What the gateway knows of its components' state                         *)

ComponentInv == RP!RegistryInv /\ RP!PublicationInv /\ CP!TypeOK

(* The invariants of the registry and of the catalog hold in the gateway.  *)
LEMMA ComponentInvariant == Spec => []ComponentInv
<1>1. RP!Spec => []RP!RegistryInv
  BY RegistryParameters, RP!RegistryInvariant DEF RP!TextAssumption, RP!SubmittedAssumption
<1>2. RP!Spec => []RP!PublicationInv
  BY RegistryParameters, RP!PublicationInvariant DEF RP!TextAssumption, RP!SubmittedAssumption
<1>3. CP!Spec => []CP!TypeOK
  BY CatalogParameters, CP!CatalogTypes
     DEF CP!RuleTextAssumption, CP!KeepAssumption, CP!PolicyAssumption
<1> QED BY <1>1, <1>2, <1>3, RegistryBehaves, CatalogBehaves, PTL DEF ComponentInv

PublicationSet == UNION {[V -> {R!Canonical(s) : s \in Submitted}] : V \in SUBSET (1 .. MaxVersions)}

IsStore(st) ==
    /\ DOMAIN st \subseteq 1 .. MaxContracts
    /\ \A id \in DOMAIN st : /\ st[id].tenant \in Tenants
                             /\ Published(st[id]) \in PublicationSet

(* What the store holds of its contracts.                                  *)
LEMMA StoreFacts == ComponentInv => IsStore(store)
<1> SUFFICES ASSUME ComponentInv, NEW id \in DOMAIN store
             PROVE  /\ id \in 1 .. MaxContracts /\ store[id].tenant \in Tenants
                    /\ Published(store[id]) \in PublicationSet
  BY DEF IsStore, ComponentInv, RP!PublicationInv
<1>1. RP!TypeOK /\ RP!Bounded(store[id]) /\ DOMAIN store \subseteq 1 .. MaxContracts
  BY DEF ComponentInv, RP!RegistryInv, RP!PublicationInv
<1>2. PICK c : c = store[id]
  OBVIOUS
<1>3. c \in RP!Contract
  BY <1>1, <1>2 DEF RP!TypeOK
<1>4. c.tenant \in Tenants /\ DOMAIN c.versions = 1 .. Len(c.versions) /\ Len(c.versions) \in Nat
  BY <1>3 DEF RP!Contract
<1>5. /\ Len(c.versions) <= MaxVersions /\ MaxVersions \in Nat
      /\ \A i \in DOMAIN c.versions : c.versions[i].schema \in {R!Canonical(s) : s \in Submitted}
  BY <1>1, <1>2, RegistryAssumption
     DEF RP!Bounded, RP!Canonicals, R!Canonical, RP!Canonical, R!SortedByName, RP!SortedByName,
         R!Cardinality, RP!Cardinality
<1>6. Published(c) \in PublicationSet
  <2>1. PICK D : D = R!PublishedOf(c)
    OBVIOUS
  <2>2. D \subseteq DOMAIN c.versions /\ DOMAIN c.versions \subseteq 1 .. MaxVersions
    BY <1>4, <1>5, <2>1 DEF R!PublishedOf
  <2>3. Published(c) \in [D -> {R!Canonical(s) : s \in Submitted}]
    BY <1>5, <2>1, <2>2 DEF Published
  <2> QED BY <2>2, <2>3 DEF PublicationSet
<1> QED BY <1>1, <1>2, <1>4, <1>6

-----------------------------------------------------------------------------
(* The store as the ingestion service reads it                             *)

(* A key joined with a single part tells the tenant and the part apart.    *)
LEMMA KeysTell ==
    ASSUME NEW t \in Seq(Parts \cup Nat), NEW u \in Seq(Parts \cup Nat),
           NEW a \in Parts \cup Nat, NEW b \in Parts \cup Nat,
           t \o <<a>> = u \o <<b>>
    PROVE  t = u /\ a = b
<1>1. Len(t) \in Nat /\ Len(u) \in Nat
  BY LenProperties
<1>2. /\ <<a>> \in Seq(Parts \cup Nat) /\ <<b>> \in Seq(Parts \cup Nat)
      /\ Len(<<a>>) = 1 /\ <<a>>[1] = a /\ Len(<<b>>) = 1 /\ <<b>>[1] = b
  OBVIOUS
<1>3. /\ Len(t \o <<a>>) = Len(t) + 1
      /\ \A i \in 1 .. Len(t) + 1 : (t \o <<a>>)[i] = IF i <= Len(t) THEN t[i] ELSE <<a>>[i - Len(t)]
  BY <1>2, ConcatProperties
<1>4. /\ Len(u \o <<b>>) = Len(u) + 1
      /\ \A i \in 1 .. Len(u) + 1 : (u \o <<b>>)[i] = IF i <= Len(u) THEN u[i] ELSE <<b>>[i - Len(u)]
  BY <1>2, ConcatProperties
<1>5. Len(t) = Len(u)
  BY <1>1, <1>3, <1>4
<1>6. \A i \in 1 .. Len(t) : t[i] = u[i]
  BY <1>1, <1>3, <1>4, <1>5
<1>7. t = u
  BY <1>5, <1>6, SeqEqual
<1>8. a = b
  <2>1. Len(t) + 1 \in 1 .. Len(t) + 1 /\ ~(Len(t) + 1 <= Len(t)) /\ (Len(t) + 1) - Len(t) = 1
    BY <1>1
  <2>2. (t \o <<a>>)[Len(t) + 1] = a
    BY <1>2, <1>3, <2>1
  <2>3. (u \o <<b>>)[Len(t) + 1] = b
    BY <1>2, <1>4, <1>5, <2>1
  <2> QED BY <2>2, <2>3
<1> QED BY <1>7, <1>8

(* A sequence of one element.                                              *)
LEMMA OneElement ==
    ASSUME NEW S, NEW q \in Seq(S), Len(q) = 1
    PROVE  \E c \in S : q = <<c>>
<1>1. q[1] \in S /\ <<q[1]>> \in Seq(S) /\ Len(<<q[1]>>) = 1 /\ <<q[1]>>[1] = q[1]
  BY ElementOfSeq
<1>2. \A i \in 1 .. Len(q) : q[i] = <<q[1]>>[i]
  BY <1>1
<1>3. q = <<q[1]>>
  BY <1>1, <1>2, SeqEqual
<1> QED BY <1>1, <1>3

StoreKeys == {t \o c : t \in Tenants, c \in ContractIDs}

(* A tenant's name joined with a contract's is a key of the store.         *)
LEMMA JoinIsKey ==
    ASSUME NEW t \in Tenants, NEW c \in ContractIDs
    PROVE  t \o c \in StoreKeys
<1>1. PICK k : k = t \o c
  OBVIOUS
<1> QED BY <1>1 DEF StoreKeys

KeyIn(st, id) == st[id].tenant \o <<id>>

ContractsIn(st) ==
    [k \in StoreKeys |->
        IF \E id \in DOMAIN st : k = KeyIn(st, id)
        THEN Published(st[CHOOSE id \in DOMAIN st : k = KeyIn(st, id)])
        ELSE None]

(* Contracts is a function of the store.                                   *)
LEMMA ContractsOfStore == Contracts = ContractsIn(store) /\ Contracts' = ContractsIn(store')
  BY DEF Contracts, ContractsIn, StoreKeys, KeyIn, Published

(* A contract is found under its key, and nothing under other keys.        *)
LEMMA FoundUnderKey ==
    ASSUME NEW st, IsStore(st), NEW x \in DOMAIN st
    PROVE  /\ KeyIn(st, x) \in StoreKeys
           /\ \A y \in DOMAIN st : KeyIn(st, y) = KeyIn(st, x) => y = x
           /\ ContractsIn(st)[KeyIn(st, x)] = Published(st[x])
<1>1. \A y \in DOMAIN st :
         st[y].tenant \in Seq(Parts \cup Nat) /\ y \in Parts \cup Nat /\ <<y>> \in ContractIDs
  BY ServiceAssumption DEF IsStore
<1>2. KeyIn(st, x) \in StoreKeys
  <2>1. PICK t \in Tenants : t = st[x].tenant
    BY DEF IsStore
  <2>2. PICK c \in ContractIDs : c = <<x>>
    BY <1>1
  <2>3. KeyIn(st, x) = t \o c
    BY <2>1, <2>2 DEF KeyIn
  <2> QED BY <2>3 DEF StoreKeys
<1>3. ASSUME NEW y \in DOMAIN st, KeyIn(st, y) = KeyIn(st, x)
      PROVE  y = x
  <2>1. PICK t, u \in Seq(Parts \cup Nat) : t = st[y].tenant /\ u = st[x].tenant
    BY <1>1
  <2>2. t \o <<y>> = u \o <<x>>
    BY <1>3, <2>1 DEF KeyIn
  <2>3. y \in Parts \cup Nat /\ x \in Parts \cup Nat
    BY <1>1
  <2> HIDE <2>1
  <2> QED BY <2>2, <2>3, KeysTell
<1>4. (CHOOSE id \in DOMAIN st : KeyIn(st, x) = KeyIn(st, id)) = x
  BY <1>3
<1> QED BY <1>2, <1>3, <1>4 DEF ContractsIn

(* A change of one contract is a change under its key.                     *)
LEMMA OneContract ==
    ASSUME NEW S, NEW T, IsStore(S), IsStore(T), NEW id, DOMAIN T = DOMAIN S \cup {id},
           \A x \in DOMAIN S : T[x].tenant = S[x].tenant,
           \A x \in DOMAIN S : x # id => T[x] = S[x]
    PROVE  /\ KeyIn(T, id) \in StoreKeys
           /\ ContractsIn(T) = [ContractsIn(S) EXCEPT ![KeyIn(T, id)] = Published(T[id])]
<1>1. KeyIn(T, id) \in StoreKeys /\ ContractsIn(T)[KeyIn(T, id)] = Published(T[id])
  BY FoundUnderKey
<1>2. \A x \in DOMAIN S : KeyIn(S, x) = KeyIn(T, x)
  BY DEF KeyIn
<1>3. ASSUME NEW k \in StoreKeys, k # KeyIn(T, id)
      PROVE  ContractsIn(T)[k] = ContractsIn(S)[k]
  <2>1. CASE \E x \in DOMAIN S : k = KeyIn(S, x)
    <3>1. PICK x \in DOMAIN S : k = KeyIn(S, x)
      BY <2>1
    <3>2. x # id /\ T[x] = S[x] /\ k = KeyIn(T, x) /\ x \in DOMAIN T
      BY <1>2, <1>3, <3>1
    <3>3. ContractsIn(T)[KeyIn(T, x)] = Published(T[x])
      BY <3>2, FoundUnderKey
    <3>4. ContractsIn(S)[KeyIn(S, x)] = Published(S[x])
      BY FoundUnderKey
    <3> QED BY <3>1, <3>2, <3>3, <3>4
  <2>2. CASE ~ \E x \in DOMAIN S : k = KeyIn(S, x)
    <3>1. ~ \E x \in DOMAIN T : k = KeyIn(T, x)
      BY <1>2, <1>3, <2>2
    <3> QED BY <2>2, <3>1 DEF ContractsIn
  <2> QED BY <2>1, <2>2
<1>4. DOMAIN ContractsIn(S) = StoreKeys /\ DOMAIN ContractsIn(T) = StoreKeys
  BY DEF ContractsIn
<1>5. ContractsIn(T) = [k \in StoreKeys |-> ContractsIn(T)[k]]
  BY DEF ContractsIn
<1> QED BY <1>1, <1>3, <1>4, <1>5

(* A step of the registry changes what the service finds under one key.    *)
LEMMA StoreChange ==
    ASSUME ComponentInv, ComponentInv', RP!Next \/ UNCHANGED registry
    PROVE  \/ UNCHANGED Contracts
           \/ \E k \in StoreKeys, published \in PublicationSet :
                 Contracts' = [Contracts EXCEPT ![k] = published]
<1>1. IsStore(store)
  BY StoreFacts
<1>2. IsStore(store')
  <2>1. IsStore(store)'
    BY StoreFacts, PTL
  <2> QED BY <2>1 DEF IsStore, Published, R!PublishedOf
<1>3. CASE store' = store
  BY <1>3, ContractsOfStore
<1>4. ASSUME NEW id, DOMAIN store' = DOMAIN store \cup {id},
             \A x \in DOMAIN store : store'[x].tenant = store[x].tenant,
             \A x \in DOMAIN store : x # id => store'[x] = store[x]
      PROVE  \E k \in StoreKeys, published \in PublicationSet :
                Contracts' = [Contracts EXCEPT ![k] = published]
  <2>1. PICK S, T : S = store /\ T = store'
    OBVIOUS
  <2>2. /\ IsStore(S) /\ IsStore(T) /\ DOMAIN T = DOMAIN S \cup {id}
        /\ \A x \in DOMAIN S : T[x].tenant = S[x].tenant
        /\ \A x \in DOMAIN S : x # id => T[x] = S[x]
    BY <1>1, <1>2, <1>4, <2>1
  <2>3. /\ KeyIn(T, id) \in StoreKeys
        /\ ContractsIn(T) = [ContractsIn(S) EXCEPT ![KeyIn(T, id)] = Published(T[id])]
    BY <2>2, OneContract
  <2>4. Published(T[id]) \in PublicationSet
    BY <2>2 DEF IsStore
  <2>5. Contracts = ContractsIn(S) /\ Contracts' = ContractsIn(T)
    BY <2>1, ContractsOfStore
  <2> QED BY <2>3, <2>4, <2>5
<1>5. ASSUME NEW cl \in Clients, NEW t \in Tenants, NEW mode \in Requested, RP!Register(cl, t, mode)
      PROVE  \E k \in StoreKeys, published \in PublicationSet :
                Contracts' = [Contracts EXCEPT ![k] = published]
  <2>1. PICK id : store' = [x \in DOMAIN store \cup {id} |->
                               IF x = id THEN RP!NewContract(t, mode) ELSE store[x]]
    BY <1>5 DEF RP!Register
  <2>2. DOMAIN store' = DOMAIN store \cup {id} /\ \A x \in DOMAIN store : x # id => store'[x] = store[x]
    BY <2>1
  <2>3. \A x \in DOMAIN store : store'[x].tenant = store[x].tenant
    BY <1>5, RegistryParameters, RP!RegisterPublication
       DEF ComponentInv, RP!TextAssumption, RP!SubmittedAssumption
  <2> QED BY <1>4, <2>2, <2>3
<1>6. ASSUME NEW cl \in Clients, RP!Save(cl)
      PROVE  \E k \in StoreKeys, published \in PublicationSet :
                Contracts' = [Contracts EXCEPT ![k] = published]
  <2>1. writer[cl].id \in DOMAIN store
    BY <1>6, RP!JobFacts, RegistryParameters
       DEF ComponentInv, RP!RegistryInv, RP!Save, RP!TextAssumption, RP!SubmittedAssumption
  <2>2. store' = [store EXCEPT ![writer[cl].id] = writer[cl].copy]
    BY <1>6 DEF RP!Save
  <2>3. /\ DOMAIN store' = DOMAIN store \cup {writer[cl].id}
        /\ \A x \in DOMAIN store : x # writer[cl].id => store'[x] = store[x]
    BY <2>1, <2>2
  <2>4. \A x \in DOMAIN store : store'[x].tenant = store[x].tenant
    BY <1>6, RegistryParameters, RP!SavePublication
       DEF ComponentInv, RP!TextAssumption, RP!SubmittedAssumption
  <2> QED BY <1>4, <2>3, <2>4
<1>7. \/ store' = store
      \/ \E cl \in Clients, t \in Tenants, mode \in Requested : RP!Register(cl, t, mode)
      \/ \E cl \in Clients : RP!Save(cl)
  BY DEF RP!Next, RP!AddVersion, RP!Publish, registry
<1> QED BY <1>3, <1>5, <1>6, <1>7

EnabledOf(rules) == {rules[i] : i \in {i \in DOMAIN rules : rules[i].enabled}}

(* A step of the catalog changes the rules of one contract.                *)
LEMMA PolicyChange ==
    ASSUME ComponentInv, CP!Next \/ UNCHANGED policies
    PROVE  \/ UNCHANGED Enforced
           \/ \E c \in ContractIDs, enabled \in SUBSET RulesSent :
                 Enforced' = [Enforced EXCEPT ![c] = enabled]
<1>1. live \in [ContractIDs -> Policies \cup {<<>>}] /\ sets \in [ContractIDs -> Seq(CP!RuleSet)]
  BY DEF ComponentInv, CP!TypeOK
<1>2. /\ Enforced = [c \in ContractIDs |-> EnabledOf(live[c])]
      /\ Enforced' = [c \in ContractIDs |-> EnabledOf(live'[c])]
  BY DEF Enforced, EnabledOf
<1>3. ASSUME NEW c \in ContractIDs, NEW rules \in Policies, live' = [live EXCEPT ![c] = rules]
      PROVE  \E enabled \in SUBSET RulesSent : Enforced' = [Enforced EXCEPT ![c] = enabled]
  <2>1. EnabledOf(rules) \in SUBSET RulesSent
    BY DEF EnabledOf, RulesSent
  <2>2. Enforced' = [Enforced EXCEPT ![c] = EnabledOf(rules)]
    BY <1>1, <1>2, <1>3
  <2> QED BY <2>1, <2>2
<1>4. CASE live' = live
  BY <1>2, <1>4
<1>5. ASSUME NEW c \in ContractIDs, NEW rules \in Policies, CP!SetRules(c, rules)
      PROVE  live' = [live EXCEPT ![c] = rules]
  BY <1>5 DEF CP!SetRules
<1>6. ASSUME NEW c \in ContractIDs, NEW version, CP!ActivateRuleVersion(c, version)
      PROVE  \E rules \in Policies : live' = [live EXCEPT ![c] = rules]
  <2>1. PICK i \in DOMAIN sets[c] : live' = [live EXCEPT ![c] = sets[c][i].rules]
    BY <1>6 DEF CP!ActivateRuleVersion
  <2>2. sets[c] \in Seq(CP!RuleSet)
    BY <1>1
  <2>3. sets[c][i] \in CP!RuleSet
    BY <2>1, <2>2
  <2>4. sets[c][i].rules \in Policies
    BY <2>3 DEF CP!RuleSet
  <2> QED BY <2>1, <2>4
<1>7. \/ live' = live
      \/ \E c \in ContractIDs, rules \in Policies : CP!SetRules(c, rules)
      \/ \E c \in ContractIDs : \E version : CP!ActivateRuleVersion(c, version)
  BY DEF CP!Next, CP!ActivateUnknownVersion, policies
<1> QED BY <1>3, <1>4, <1>5, <1>6, <1>7

-----------------------------------------------------------------------------
(* The ingestion service                                                   *)

(* What the service assumes of its parameters.                             *)
LEMMA ServiceParameters ==
    /\ IP!QuotaAssumption /\ IP!WindowAssumption /\ IP!LimitAssumption
    /\ IP!NameAssumption /\ IP!RuleAssumption /\ IP!RequestAssumption
<1>1. /\ IP!QuotaAssumption /\ IP!WindowAssumption /\ IP!LimitAssumption
      /\ IP!NameAssumption /\ IP!RequestAssumption
  BY ServiceAssumption
     DEF IP!QuotaAssumption, IP!WindowAssumption, IP!LimitAssumption, IP!NameAssumption,
         IP!RequestAssumption
<1>2. IP!RuleAssumption
  <2> SUFFICES ASSUME NEW r \in RulesSent PROVE r.id \in RuleIDs
    BY DEF IP!RuleAssumption
  <2>1. PICK rules \in Policies : \E i \in DOMAIN rules : r = rules[i]
    BY DEF RulesSent
  <2>2. rules \in Seq(C!Rule)
    BY CatalogAssumption
  <2>3. r \in C!Rule
    BY <2>1, <2>2
  <2> QED BY <2>3 DEF C!Rule
<1> QED BY <1>1, <1>2

ServiceState == <<Contracts, Enforced, 0, seen, events, attempts, letters, lineages,
                  usage, ids, job, requests, log, granted>>

(* A new gateway has a new service.                                        *)
LEMMA ServiceInit == Init => I!Init /\ IP!Init
<1> SUFFICES ASSUME Init PROVE I!Init /\ IP!Init
  OBVIOUS
<1>1. Contracts = [k \in StoreKeys |-> None]
  <2>1. DOMAIN store = {}
    BY DEF Init, R!Init
  <2> QED BY <2>1 DEF Contracts, StoreKeys
<1>2. Enforced = [c \in ContractIDs |-> {}]
  BY DEF Init, C!Init, Enforced
<1> QED BY <1>1, <1>2
        DEF Init, I!Init, IP!Init, StoreKeys, I!StoreKeys, IP!StoreKeys, I!EmptyMap, IP!EmptyMap,
            I!IdleJob, IP!IdleJob, I!Never, IP!Never

(* The steps of a goroutine are those of the service.                      *)
LEMMA SameSteps ==
    ASSUME NEW th
    PROVE  /\ \A r : I!Receive(th, r) <=> IP!Receive(th, r)
           /\ \A l : I!ReplayBegin(th, l) <=> IP!ReplayBegin(th, l)
           /\ I!AnswerDuplicate(th) <=> IP!AnswerDuplicate(th)
           /\ I!RejectQuota(th) <=> IP!RejectQuota(th)
           /\ I!Admit(th) <=> IP!Admit(th)
           /\ I!Lookup(th) <=> IP!Lookup(th)
           /\ I!SnapshotRules(th) <=> IP!SnapshotRules(th)
           /\ I!Commit(th) <=> IP!Commit(th)
           /\ I!ReplayFinish(th) <=> IP!ReplayFinish(th)
<1> USE DEF I!environment, IP!environment, I!service, IP!service, I!IdleJob, IP!IdleJob,
            I!Return, IP!Return, I!SeenKey, IP!SeenKey
<1>1. \A r : I!Receive(th, r) <=> IP!Receive(th, r)
  BY DEF I!Receive, IP!Receive, I!Arrived, IP!Arrived, I!Private, IP!Private, I!Range, IP!Range
<1>2. \A l : I!ReplayBegin(th, l) <=> IP!ReplayBegin(th, l)
  BY DEF I!ReplayBegin, IP!ReplayBegin, I!CanReplay, IP!CanReplay, I!BeginReplay, IP!BeginReplay
<1>3. I!AnswerDuplicate(th) <=> IP!AnswerDuplicate(th)
  BY DEF I!AnswerDuplicate, IP!AnswerDuplicate
<1>4. I!RejectQuota(th) <=> IP!RejectQuota(th)
  BY DEF I!RejectQuota, IP!RejectQuota, I!QuotaExhausted, IP!QuotaExhausted,
         I!CurrentWindow, IP!CurrentWindow, I!Never, IP!Never
<1>5. I!Admit(th) <=> IP!Admit(th)
  BY DEF I!Admit, IP!Admit, I!QuotaExhausted, IP!QuotaExhausted,
         I!CurrentWindow, IP!CurrentWindow, I!Never, IP!Never
<1>6. I!Lookup(th) <=> IP!Lookup(th)
  BY DEF I!Lookup, IP!Lookup, I!EnvelopeReasons, IP!EnvelopeReasons, I!validSignature,
         IP!validSignature, I!SchemaReasons, IP!SchemaReasons
<1>7. I!SnapshotRules(th) <=> IP!SnapshotRules(th)
  BY DEF I!SnapshotRules, IP!SnapshotRules, I!RuleReasons, IP!RuleReasons
<1>8. I!Commit(th) <=> IP!Commit(th)
  BY DEF I!Commit, IP!Commit, I!StatusOf, IP!StatusOf, I!Put, IP!Put, I!AttemptsWith,
         IP!AttemptsWith, I!LettersWith, IP!LettersWith, I!NewLetter, IP!NewLetter,
         I!LineagesWith, IP!LineagesWith
<1>9. I!ReplayFinish(th) <=> IP!ReplayFinish(th)
  BY DEF I!ReplayFinish, IP!ReplayFinish, I!FinishReplay, IP!FinishReplay
<1> QED BY <1>1, <1>2, <1>3, <1>4, <1>5, <1>6, <1>7, <1>8, <1>9

(* What the environment of the service may do.                             *)
LEMMA EnvironmentSteps ==
    /\ \A k \in StoreKeys, published \in PublicationSet :
          /\ Contracts' = [Contracts EXCEPT ![k] = published]
          /\ UNCHANGED <<Enforced, service>>
          => [I!Next /\ IP!Next]_ServiceState
    /\ \A c \in ContractIDs, enabled \in SUBSET RulesSent :
          /\ Enforced' = [Enforced EXCEPT ![c] = enabled]
          /\ UNCHANGED <<Contracts, service>>
          => [I!Next /\ IP!Next]_ServiceState
<1>1. ASSUME NEW k \in StoreKeys, NEW published \in PublicationSet,
             Contracts' = [Contracts EXCEPT ![k] = published], UNCHANGED <<Enforced, service>>
      PROVE  [I!Next /\ IP!Next]_ServiceState
  <2>1. CASE Contracts[k] = published
    <3>1. Contracts = [x \in StoreKeys |-> Contracts[x]]
      <4>1. ContractsIn(store) = [x \in StoreKeys |-> ContractsIn(store)[x]]
        BY DEF ContractsIn
      <4> QED BY <4>1, ContractsOfStore
    <3>2. Contracts' = Contracts
      BY <1>1, <2>1, <3>1
    <3> QED BY <1>1, <3>2 DEF ServiceState, service
  <2>2. CASE Contracts[k] # published
    <3>1. I!RegistryChanges(k, published) /\ IP!RegistryChanges(k, published)
      BY <1>1, <2>2 DEF I!RegistryChanges, IP!RegistryChanges, service, I!service, IP!service
    <3> QED BY <3>1 DEF I!Next, IP!Next, StoreKeys, I!StoreKeys, IP!StoreKeys, PublicationSet,
                        I!Publications, IP!Publications
  <2> QED BY <2>1, <2>2
<1>2. ASSUME NEW c \in ContractIDs, NEW enabled \in SUBSET RulesSent,
             Enforced' = [Enforced EXCEPT ![c] = enabled], UNCHANGED <<Contracts, service>>
      PROVE  [I!Next /\ IP!Next]_ServiceState
  <2>1. CASE Enforced[c] = enabled
    <3>1. Enforced' = Enforced
      BY <1>2, <2>1 DEF Enforced
    <3> QED BY <1>2, <3>1 DEF ServiceState, service
  <2>2. CASE Enforced[c] # enabled
    <3>1. I!RulesChange(c, enabled) /\ IP!RulesChange(c, enabled)
      BY <1>2, <2>2 DEF I!RulesChange, IP!RulesChange, service, I!service, IP!service
    <3> QED BY <3>1 DEF I!Next, IP!Next
  <2> QED BY <2>1, <2>2
<1> QED BY <1>1, <1>2

(* Nothing the gateway does is new to the service.                         *)
LEMMA ServiceSteps ==
    ASSUME ComponentInv, ComponentInv', [Next]_vars
    PROVE  [I!Next /\ IP!Next]_ServiceState
<1>1. (RP!Next \/ UNCHANGED registry) /\ (CP!Next \/ UNCHANGED policies)
  BY RegistrySteps, CatalogSteps
<1>2. UNCHANGED registry => UNCHANGED Contracts
  BY ContractsOfStore DEF registry
<1>3. UNCHANGED policies => UNCHANGED Enforced
  BY DEF policies, Enforced
<1>4. CASE UNCHANGED <<policies, service>>
  <2>1. UNCHANGED <<Enforced, service>>
    BY <1>3, <1>4
  <2>2. CASE UNCHANGED Contracts
    BY <2>1, <2>2 DEF ServiceState, service
  <2> QED BY <1>1, <2>1, <2>2, StoreChange, EnvironmentSteps
<1>5. CASE UNCHANGED <<registry, service>>
  <2>1. UNCHANGED <<Contracts, service>>
    BY <1>2, <1>5
  <2>2. CASE UNCHANGED Enforced
    BY <2>1, <2>2 DEF ServiceState, service
  <2> QED BY <1>1, <2>1, <2>2, PolicyChange, EnvironmentSteps
<1>6. ASSUME NEW th \in Threads,
             ingest(th) \/ replay(th) \/ IngestStep(th)
      PROVE  I!Next /\ IP!Next
  <2>1. \/ \E r \in Requests : I!Receive(th, r)
        \/ \E l \in DOMAIN letters : I!ReplayBegin(th, l)
        \/ I!ThreadStep(th)
    BY <1>6 DEF ingest, replay, IngestStep, I!ThreadStep
  <2>2. \/ \E r \in Requests : IP!Receive(th, r)
        \/ \E l \in DOMAIN letters : IP!ReplayBegin(th, l)
        \/ IP!ThreadStep(th)
    BY <2>1, SameSteps DEF I!ThreadStep, IP!ThreadStep
  <2> QED BY <2>1, <2>2 DEF I!Next, IP!Next
<1>7. CASE \E cl \in Clients :
              createContract(cl) \/ addVersion(cl) \/ publish(cl) \/ RegistrySave(cl)
  BY <1>4, <1>7 DEF createContract, addVersion, publish, RegistrySave
<1>8. CASE \E c \in ContractIDs : setRules(c) \/ activateRules(c)
  BY <1>5, <1>8 DEF setRules, activateRules
<1>9. CASE \E th \in Threads : ingest(th) \/ replay(th) \/ IngestStep(th) \/ CountEvent(th)
  BY <1>4, <1>6, <1>9 DEF CountEvent
<1>10. CASE Signal \/ Abandon \/ Stop \/ ShutdownFails \/ ListenFails
  BY <1>4, <1>10 DEF Signal, Abandon, Stop, ShutdownFails, ListenFails, Exit
<1>11. CASE UNCHANGED vars
  BY <1>4, <1>11 DEF vars
<1> QED BY <1>7, <1>8, <1>9, <1>10, <1>11 DEF Next

(* Within the gateway the service behaves as Ingestion says.               *)
LEMMA ServiceBehaves == Spec => I!Spec /\ IP!Spec
<1>1. ComponentInv /\ ComponentInv' /\ [Next]_vars => [I!Next]_ServiceState /\ [IP!Next]_ServiceState
  BY ServiceSteps
<1>2. Spec => I!Init /\ [][I!Next]_ServiceState /\ IP!Init /\ [][IP!Next]_ServiceState
  BY <1>1, ServiceInit, ComponentInvariant, PTL DEF Spec
<1> QED BY <1>2 DEF I!Spec, I!vars, IP!Spec, IP!vars, ServiceState

(* The composed gateway is an instance of Ingestion: to the service, what  *)
(* the registry, the policies, the counters and the shutdown do are the    *)
(* changes that Ingestion lets happen (main.go:27-31, server.go).          *)
THEOREM GatewayImplementsIngestion == Spec => ImplementsIngestion
  BY ServiceBehaves DEF ImplementsIngestion

-----------------------------------------------------------------------------
(* What the components promise, the gateway keeps                          *)

ServiceInv ==
    IP!TypeInv /\ IP!ReplayInv /\ IP!KeysApart /\ IP!LogInv /\ IP!AdmissionInv

(* The invariants of the service hold in the gateway.                      *)
LEMMA ServiceInvariant == Spec => []ServiceInv
<1> USE DEF IP!QuotaAssumption, IP!WindowAssumption, IP!LimitAssumption, IP!NameAssumption,
            IP!RuleAssumption, IP!RequestAssumption
<1>1. IP!Spec => []IP!TypeInv
  BY ServiceParameters, IP!TypeInvariant
<1>2. IP!Spec => []IP!ReplayInv
  BY ServiceParameters, IP!ReplayInvariant
<1>3. IP!Spec => []IP!KeysApart
  BY ServiceParameters, IP!KeysInvariant
<1>4. IP!Spec => []IP!LogInv
  BY ServiceParameters, IP!LogInvariant
<1>5. IP!Spec => []IP!AdmissionInv
  BY ServiceParameters, IP!AdmissionsAccounted
<1> QED BY <1>1, <1>2, <1>3, <1>4, <1>5, ServiceBehaves, PTL DEF ServiceInv

(* The contracts behind the handlers stay sound whatever else the process  *)
(* does: revisions, tags and compatibility hold as in Registry alone       *)
(* (server.go:78-149 over service.go and model.go).                        *)
THEOREM GatewayKeepsContracts ==
    Spec => [](R!RevisionAccounts /\ R!TagsIdentify /\ R!ChainCompatible /\ R!VersionsSubstitutable)
<1> USE DEF RP!TextAssumption, RP!SubmittedAssumption
<1>1. RP!Spec => []RP!RevisionAccounts
  BY RegistryParameters, RP!RevisionsAccount
<1>2. RP!Spec => []RP!TagsIdentify
  BY RegistryParameters, RP!TagsAreUnique
<1>3. RP!Spec => []RP!ChainCompatible
  BY RegistryParameters, RP!ChainsAreCompatible
<1>4. RP!Spec => []RP!VersionsSubstitutable
  BY RegistryParameters, RP!VersionsAreSubstitutable
<1>5. RP!RevisionAccounts => R!RevisionAccounts
  BY DEF RP!RevisionAccounts, R!RevisionAccounts, RP!PublishedOf, R!PublishedOf,
         RP!Cardinality, R!Cardinality
<1>6. RP!TagsIdentify => R!TagsIdentify
  BY DEF RP!TagsIdentify, R!TagsIdentify
<1>7. RP!ChainCompatible => R!ChainCompatible
  BY SameCompatible DEF RP!ChainCompatible, R!ChainCompatible
<1>8. RP!VersionsSubstitutable => R!VersionsSubstitutable
  BY DEF RP!VersionsSubstitutable, R!VersionsSubstitutable, RP!Unchecked, R!Unchecked,
         R!FieldsNamed, RP!FieldsNamed, R!FieldOf, RP!FieldOf, RP!PayloadsOver, R!PayloadsOver,
         RP!Values, R!Values, RP!Classes, R!Classes, RP!Numbers, R!Numbers, RP!Accepts, R!Accepts,
         RP!FieldAccepts, R!FieldAccepts, RP!ClassesOfType, R!ClassesOfType,
         RP!Integers64, R!Integers64
<1> QED BY <1>1, <1>2, <1>3, <1>4, <1>5, <1>6, <1>7, <1>8, RegistryBehaves, PTL

(* The policies behind the handlers keep their history as in RuleCatalog   *)
(* alone (server.go:201-241 over catalog.go and policy.go).                *)
THEOREM GatewayKeepsPolicies == Spec => [](C!KeepsNewest /\ C!ActiveIsLive /\ C!LiveIsRetained)
<1> USE DEF CP!RuleTextAssumption, CP!KeepAssumption, CP!PolicyAssumption
<1>1. CP!Spec => []CP!KeepsNewest
  BY CatalogParameters, CP!CatalogKeepsNewest
<1>2. CP!Spec => []CP!ActiveIsLive
  BY CatalogParameters, CP!CatalogActiveIsLive
<1>3. CP!Spec => []CP!LiveIsRetained
  BY CatalogParameters, CP!CatalogLiveIsRetained
<1>4. CP!KeepsNewest => C!KeepsNewest
  BY DEF CP!KeepsNewest, C!KeepsNewest
<1>5. CP!ActiveIsLive => C!ActiveIsLive
  BY DEF CP!ActiveIsLive, C!ActiveIsLive
<1>6. CP!LiveIsRetained => C!LiveIsRetained
  BY DEF CP!LiveIsRetained, C!LiveIsRetained
<1> QED BY <1>1, <1>2, <1>3, <1>4, <1>5, <1>6, CatalogBehaves, PTL

(* Receipts, lineages, letters, quotas and replays are as in Ingestion     *)
(* alone, with the real registry and the real policies changing under the  *)
(* requests and the process draining or failing at any time                *)
(* (server.go:171-199, 325-337 over service.go, main.go:40-48).            *)
THEOREM GatewayKeepsRecords ==
    Spec => [](/\ I!ReceiptsBacked /\ I!LineageIsCurrent /\ I!LettersMatchFailures
               /\ I!QuotaSpread /\ I!DuplicatesOwn /\ I!ReplayBudget
               /\ I!ReplayingIsInFlight /\ I!ReplayedWasAccepted)
<1> USE DEF IP!QuotaAssumption, IP!WindowAssumption, IP!LimitAssumption, IP!NameAssumption,
            IP!RuleAssumption, IP!RequestAssumption
<1>1. IP!Spec => []IP!ReceiptsBacked
  BY ServiceParameters, IP!ReceiptsAreBacked
<1>2. IP!Spec => []IP!LineageIsCurrent
  BY ServiceParameters, IP!LineagesAreCurrent
<1>3. IP!Spec => []IP!LettersMatchFailures
  BY ServiceParameters, IP!FailuresHaveLetters
<1>4. IP!Spec => []IP!QuotaSpread
  BY ServiceParameters, IP!QuotaLimitsRate
<1>5. IP!Spec => []IP!DuplicatesOwn
  BY ServiceParameters, IP!DuplicatesAreOwn
<1>6. IP!Spec => []IP!ReplayBudget
  BY ServiceParameters, IP!BudgetIsKept
<1>7. IP!Spec => []IP!ReplayingIsInFlight
  BY ServiceParameters, IP!NoLetterIsStranded
<1>8. IP!Spec => []IP!ReplayedWasAccepted
  BY ServiceParameters, IP!ReplayedMeansAccepted
<1>9. /\ IP!ReceiptsBacked => I!ReceiptsBacked
      /\ IP!LineageIsCurrent => I!LineageIsCurrent
      /\ IP!LettersMatchFailures => I!LettersMatchFailures
      /\ IP!QuotaSpread => I!QuotaSpread
      /\ IP!ReplayedWasAccepted => I!ReplayedWasAccepted
  BY DEF IP!ReceiptsBacked, I!ReceiptsBacked, IP!LineageIsCurrent, I!LineageIsCurrent,
         IP!LettersMatchFailures, I!LettersMatchFailures, IP!QuotaSpread, I!QuotaSpread,
         IP!ReplayedWasAccepted, I!ReplayedWasAccepted
<1>10. IP!DuplicatesOwn => I!DuplicatesOwn
  BY DEF IP!DuplicatesOwn, I!DuplicatesOwn, IP!SeenKey, I!SeenKey
<1>11. IP!ReplayBudget => I!ReplayBudget
  BY DEF IP!ReplayBudget, I!ReplayBudget, IP!InFlight, I!InFlight, IP!Cardinality, I!Cardinality
<1>12. IP!ReplayingIsInFlight => I!ReplayingIsInFlight
  BY DEF IP!ReplayingIsInFlight, I!ReplayingIsInFlight, IP!InFlight, I!InFlight
<1> QED BY <1>1, <1>2, <1>3, <1>4, <1>5, <1>6, <1>7, <1>8, <1>9, <1>10, <1>11, <1>12,
           ServiceBehaves, PTL

-----------------------------------------------------------------------------
(* The steps of the goroutines                                             *)

(* A step of the gateway is a step of one goroutine in the service, or it  *)
(* leaves the service alone.                                               *)
LEMMA ServiceOrNot ==
    ASSUME [Next]_vars
    PROVE  \/ \E th \in Threads : ingest(th) \/ replay(th) \/ IngestStep(th)
           \/ UNCHANGED service
<1>1. CASE \E cl \in Clients :
              createContract(cl) \/ addVersion(cl) \/ publish(cl) \/ RegistrySave(cl)
  BY <1>1 DEF createContract, addVersion, publish, RegistrySave
<1>2. CASE \E c \in ContractIDs : setRules(c) \/ activateRules(c)
  BY <1>2 DEF setRules, activateRules
<1>3. CASE \E th \in Threads : CountEvent(th)
  BY <1>3 DEF CountEvent
<1>4. CASE Signal \/ Abandon \/ Stop \/ ShutdownFails \/ ListenFails
  BY <1>4 DEF Signal, Abandon, Stop, ShutdownFails, ListenFails, Exit
<1>5. CASE UNCHANGED vars
  BY <1>5 DEF vars
<1> QED BY <1>1, <1>2, <1>3, <1>4, <1>5 DEF Next

(* What a goroutine's step in the service does to its place.               *)
LEMMA ThreadMoves ==
    ASSUME ServiceInv, NEW th \in Threads
    PROVE  /\ \A r \in Requests : I!Receive(th, r) => IP!Moves(th, {"idle"}, {"admit"})
           /\ \A l \in DOMAIN letters : I!ReplayBegin(th, l) => IP!Moves(th, {"idle"}, {"admit"})
           /\ I!AnswerDuplicate(th) \/ I!RejectQuota(th) =>
                 IP!Moves(th, {"admit"}, {"idle", "finish"})
           /\ I!Admit(th) => IP!Moves(th, {"admit"}, {"lookup"}) /\ job'[th].event = job[th].event
           /\ I!Lookup(th) => /\ IP!Moves(th, {"lookup"}, {"rules", "commit"})
                              /\ job'[th].event = job[th].event
           /\ I!SnapshotRules(th) => /\ IP!Moves(th, {"rules"}, {"commit"})
                                     /\ job'[th].event = job[th].event
           /\ I!Commit(th) => IP!Moves(th, {"commit"}, {"idle", "finish"})
           /\ I!ReplayFinish(th) => IP!Moves(th, {"finish"}, {"idle"})
  BY ServiceParameters, SameSteps, IP!StepMoves
     DEF ServiceInv, IP!QuotaAssumption, IP!WindowAssumption, IP!LimitAssumption, IP!NameAssumption,
         IP!RuleAssumption, IP!RequestAssumption

(* What a Commit adds to the log.                                          *)
LEMMA CommitAdds ==
    ASSUME ServiceInv, NEW th \in Threads, I!Commit(th)
    PROVE  \E x : /\ x \notin log /\ log' = log \cup {x}
                  /\ x.sent = job[th].event /\ x.replayOf = job[th].letter
                  /\ x.status = I!StatusOf(job[th].reasons)
<1>1. IP!Commit(th)
  BY SameSteps
<1>2. \E x : /\ x \notin log /\ log' = log \cup {x}
             /\ x.sent = job[th].event /\ x.replayOf = job[th].letter
             /\ x.status = IP!StatusOf(job[th].reasons)
  BY <1>1, ServiceParameters, IP!CommitLog
     DEF ServiceInv, IP!QuotaAssumption, IP!WindowAssumption, IP!LimitAssumption, IP!NameAssumption,
         IP!RuleAssumption, IP!RequestAssumption
<1> QED BY <1>2 DEF I!StatusOf, IP!StatusOf

(* Nothing else adds to the log.                                           *)
LEMMA OnlyCommitAdds ==
    ASSUME [Next]_vars
    PROVE  log' = log \/ \E th \in Threads : IngestStep(th) /\ I!Commit(th)
<1>1. ASSUME NEW th \in Threads, ingest(th) \/ replay(th) PROVE log' = log
  BY <1>1 DEF ingest, replay, I!Receive, I!ReplayBegin
<1>2. ASSUME NEW th \in Threads, IngestStep(th), ~I!Commit(th) PROVE log' = log
  BY <1>2 DEF IngestStep, I!AnswerDuplicate, I!RejectQuota, I!Admit, I!Lookup, I!SnapshotRules,
              I!ReplayFinish
<1>3. UNCHANGED service => log' = log
  BY DEF service
<1> QED BY <1>1, <1>2, <1>3, ServiceOrNot

-----------------------------------------------------------------------------
(* What was accepted was published                                         *)

ValidFor(e) ==
    \E v \in shown :
        /\ e.tenant \o e.contract = store[v.id].tenant \o <<v.id>>
        /\ Len(e.contract) = 1 => store[v.id].tenant = e.tenant
        /\ v.version.number = e.version /\ v.version.lifecycle = "published"
        /\ Conforms(v.version.schema, e.payload)

(* An event that has passed the schema check, and so far the rules, is     *)
(* valid for a version that was shown as published.                        *)
AcceptInv ==
    /\ \A x \in log : x.status = "accepted" => ValidFor(x.sent)
    /\ \A th \in Threads :
          job[th].step \in {"rules", "commit"} /\ job[th].reasons = {} => ValidFor(job[th].event)

(* A publication that was shown is shown for good, and a contract keeps    *)
(* its tenant.                                                             *)
LEMMA ValidStays ==
    ASSUME ComponentInv, [Next]_vars, NEW e, ValidFor(e)
    PROVE  ValidFor(e)'
<1>1. RP!Next \/ UNCHANGED registry
  BY RegistrySteps
<1>2. /\ shown \subseteq shown' /\ DOMAIN store \subseteq DOMAIN store'
      /\ \A x \in DOMAIN store : store'[x].tenant = store[x].tenant
  BY <1>1, RegistryParameters, RP!PublicationStep
     DEF ComponentInv, RP!TextAssumption, RP!SubmittedAssumption, RP!vars, registry
<1>3. \A v \in shown : v.id \in DOMAIN store
  BY DEF ComponentInv, RP!RegistryInv
<1> QED BY <1>2, <1>3 DEF ValidFor

(* A Lookup that finds nothing wrong has found a published version of the  *)
(* contract under the event's key.                                         *)
LEMMA LookupFindsPublished ==
    ASSUME ComponentInv, ServiceInv, NEW th \in Threads, I!Lookup(th), job'[th].reasons = {}
    PROVE  ValidFor(job[th].event)
<1>1. PICK e : e = job[th].event
  OBVIOUS
<1>2. job \in [Threads -> IP!Job] /\ job[th].step = "lookup" /\ e \in IP!Event
  BY <1>1 DEF ServiceInv, IP!TypeInv, IP!TypeOK, I!Lookup
<1>3. ASSUME NEW found, NEW step, found # {},
             job' = [job EXCEPT ![th] = [@ EXCEPT !.step = step, !.reasons = found]]
      PROVE  FALSE
  BY <1>2, <1>3 DEF IP!Job
<1>4. /\ e.contract # None
      /\ Contracts[e.tenant \o e.contract] # None
      /\ e.version \in DOMAIN Contracts[e.tenant \o e.contract]
      /\ job' = [job EXCEPT ![th] = [@ EXCEPT !.step = "rules",
                                     !.reasons = I!EnvelopeReasons(e) \cup I!SchemaReasons(e)]]
  BY <1>1, <1>3 DEF I!Lookup
<1>5. "schema" \notin I!SchemaReasons(e)
  BY <1>2, <1>3, <1>4
<1>6. Conforms(Contracts[e.tenant \o e.contract][e.version], e.payload)
  BY <1>5 DEF I!SchemaReasons
<1>7. e.tenant \in Tenants /\ e.contract \in ContractIDs
  BY <1>2, <1>4 DEF IP!Event
<1>8. IsStore(store) /\ Contracts = ContractsIn(store)
  BY StoreFacts, ContractsOfStore
<1>9. PICK id \in DOMAIN store : e.tenant \o e.contract = KeyIn(store, id)
  <2>1. e.tenant \o e.contract \in StoreKeys
    BY <1>7, JoinIsKey
  <2> QED BY <1>4, <1>8, <2>1 DEF ContractsIn
<1>10. ASSUME Len(e.contract) = 1
       PROVE  store[id].tenant = e.tenant
  <2>1. /\ e.tenant \in Seq(Parts \cup Nat) /\ store[id].tenant \in Seq(Parts \cup Nat)
        /\ id \in Parts \cup Nat /\ e.contract \in Seq(Parts \cup Nat)
    BY <1>7, <1>8, ServiceAssumption DEF IsStore
  <2>2. PICK c \in Parts \cup Nat : e.contract = <<c>>
    BY <1>10, <2>1, OneElement
  <2>3. e.tenant \o <<c>> = store[id].tenant \o <<id>>
    BY <1>9, <2>2 DEF KeyIn
  <2> QED BY <2>1, <2>3, KeysTell
<1>11. Contracts[e.tenant \o e.contract] = Published(store[id])
  BY <1>8, <1>9, FoundUnderKey
<1>12. e.version \in RP!PublishedOf(store[id])
  BY <1>4, <1>11 DEF Published, R!PublishedOf, RP!PublishedOf
<1>13. Conforms(store[id].versions[e.version].schema, e.payload)
  BY <1>4, <1>6, <1>11 DEF Published
<1>14. PICK v \in shown :
          /\ v.id = id /\ v.version.number = e.version /\ v.version.lifecycle = "published"
          /\ v.version.schema = store[id].versions[e.version].schema
  BY <1>12 DEF ComponentInv, RP!PublicationInv, RP!PublicationsIn
<1> QED BY <1>1, <1>9, <1>10, <1>13, <1>14 DEF ValidFor, KeyIn

(* Validation by the rules only adds reasons.                              *)
LEMMA RulesOnlyAdd ==
    ASSUME ServiceInv, NEW th \in Threads, I!SnapshotRules(th), job'[th].reasons = {}
    PROVE  job[th].reasons = {}
<1>1. job \in [Threads -> IP!Job]
  BY DEF ServiceInv, IP!TypeInv, IP!TypeOK
<1>2. job'[th].reasons = job[th].reasons \cup I!RuleReasons(job[th].event)
  BY <1>1 DEF I!SnapshotRules, IP!Job
<1> QED BY <1>2

(* What a step leaves under validation was there before, or has just been  *)
(* looked up.                                                              *)
LEMMA PassedSoFar ==
    ASSUME ServiceInv, [Next]_vars, NEW th \in Threads,
           job'[th].step \in {"rules", "commit"}, job'[th].reasons = {}
    PROVE  /\ job'[th].event = job[th].event
           /\ \/ I!Lookup(th)
              \/ job[th].step \in {"rules", "commit"} /\ job[th].reasons = {}
<1>1. CASE UNCHANGED service
  BY <1>1 DEF service
<1>2. ASSUME NEW u \in Threads, ingest(u) \/ replay(u)
      PROVE  IP!Moves(u, {"idle"}, {"admit"})
  BY <1>2, ThreadMoves DEF ingest, replay
<1>3. ASSUME NEW u \in Threads, IngestStep(u)
      PROVE  \/ IP!Moves(u, {"admit"}, {"idle", "finish"})
             \/ IP!Moves(u, {"admit"}, {"lookup"})
             \/ I!Lookup(u) /\ IP!Moves(u, {"lookup"}, {"rules", "commit"})
                            /\ job'[u].event = job[u].event
             \/ I!SnapshotRules(u) /\ IP!Moves(u, {"rules"}, {"commit"})
                                   /\ job'[u].event = job[u].event
             \/ IP!Moves(u, {"commit"}, {"idle", "finish"})
             \/ IP!Moves(u, {"finish"}, {"idle"})
  BY <1>3, ThreadMoves DEF IngestStep
<1>4. ASSUME NEW u \in Threads, ingest(u) \/ replay(u) \/ IngestStep(u), u # th
      PROVE  job'[th] = job[th]
  BY <1>2, <1>3, <1>4 DEF IP!Moves
<1>5. CASE ingest(th) \/ replay(th)
  BY <1>2, <1>5 DEF IP!Moves
<1>6. CASE IngestStep(th)
  BY <1>3, <1>6, RulesOnlyAdd DEF IP!Moves
<1> QED BY <1>1, <1>4, <1>5, <1>6, ServiceOrNot

(* Every step keeps it so.                                                 *)
LEMMA AcceptStep ==
    ASSUME ComponentInv, ServiceInv, AcceptInv, [Next]_vars
    PROVE  AcceptInv'
<1>1. ASSUME NEW th \in Threads, job'[th].step \in {"rules", "commit"}, job'[th].reasons = {}
      PROVE  ValidFor(job[th].event)'
  <2>1. PICK e : e = job[th].event
    OBVIOUS
  <2>2. job'[th].event = e
    BY <1>1, <2>1, PassedSoFar
  <2>3. ValidFor(e)
    BY <1>1, <2>1, PassedSoFar, LookupFindsPublished DEF AcceptInv
  <2>4. ValidFor(e)'
    BY <2>3, ValidStays
  <2> QED BY <2>2, <2>4 DEF ValidFor
<1>2. ASSUME NEW x \in log', x.status = "accepted"
      PROVE  ValidFor(x.sent)'
  <2>1. PICK e : e = x.sent
    OBVIOUS
  <2>2. ValidFor(e)
    <3>1. CASE x \in log
      BY <1>2, <2>1, <3>1 DEF AcceptInv
    <3>2. CASE x \notin log
      <4>1. PICK th \in Threads : I!Commit(th)
        BY <1>2, <3>2, OnlyCommitAdds
      <4>2. /\ x.sent = job[th].event /\ x.status = I!StatusOf(job[th].reasons)
            /\ job[th].step = "commit"
        BY <1>2, <3>2, <4>1, CommitAdds DEF I!Commit
      <4>3. job[th].reasons = {}
        BY <1>2, <4>2 DEF I!StatusOf
      <4> QED BY <2>1, <4>2, <4>3 DEF AcceptInv
    <3> QED BY <3>1, <3>2
  <2>3. ValidFor(e)'
    BY <2>2, ValidStays
  <2> QED BY <2>1, <2>3
<1> QED BY <1>1, <1>2 DEF AcceptInv

(* What the gateway has accepted, in every reachable state.                *)
LEMMA AcceptInvariant == Spec => []AcceptInv
<1>1. Init => AcceptInv
  BY DEF Init, AcceptInv, I!IdleJob
<1>2. ComponentInv /\ ServiceInv /\ AcceptInv /\ [Next]_vars => AcceptInv'
  BY AcceptStep
<1> QED BY <1>1, <1>2, ComponentInvariant, ServiceInvariant, PTL DEF Spec

(* The gateway accepts an event only for a version that was shown as       *)
(* published, of the contract whose key tenant and contract id make        *)
(* together, however registrations, publications, stale saves and          *)
(* validations overlap (service.go:135-151, memory.go:19).  That contract  *)
(* is the tenant's own when the id is a single part; for an id with a "/"  *)
(* in it, the theorem leaves open whose it is, as the code does.           *)
THEOREM AcceptedEventsWerePublished == Spec => []AcceptedWasPublished
<1>1. AcceptInv => AcceptedWasPublished
  BY DEF AcceptInv, AcceptedWasPublished, ValidFor
<1> QED BY <1>1, AcceptInvariant, PTL

-----------------------------------------------------------------------------
(* The counters                                                            *)

(* A set that a step changes in at most one member.                        *)
LEMMA OneMember ==
    ASSUME NEW S, IsFiniteSet(S), NEW T, NEW x, T \ {x} = S \ {x}
    PROVE  /\ IsFiniteSet(T) /\ Cardinality(S) \in Nat /\ Cardinality(T) \in Nat
           /\ (x \in S <=> x \in T) => Cardinality(T) = Cardinality(S)
           /\ x \notin S /\ x \in T => Cardinality(T) = Cardinality(S) + 1
           /\ x \in S /\ x \notin T => Cardinality(T) = Cardinality(S) - 1
  BY ServiceParameters, IP!OneMember
     DEF IP!Cardinality, Cardinality, IP!IsFiniteSet, IsFiniteSet,
         IP!QuotaAssumption, IP!WindowAssumption, IP!LimitAssumption, IP!NameAssumption,
         IP!RuleAssumption, IP!RequestAssumption

Counting(status) == {th \in Threads : tally[th] = status}

Counted(status) == {x \in log : x.replayOf = 0 /\ x.status = status}

Recorded(status) == {x \in log : x.status = status}

Replays == {x \in log : x.replayOf # 0}

Open == {"admit", "lookup", "rules", "commit"}

(* The goroutines whose request has yet to end in a count or a record.     *)
Busy == {th \in Threads : tally[th] # None \/ job[th].step \in Open}

(* A handler counts after the service has returned.                        *)
TallyInv ==
    /\ tally \in [Threads -> {None} \cup IP!Statuses]
    /\ metrics \in [IP!Statuses -> Nat]
    /\ \A th \in Threads : tally[th] # None => job[th].step = "idle"

(* A count is of a status that some record has, and every request is       *)
(* counted, recorded as a replay or on its way, at most once.              *)
MetricsInv ==
    /\ \A s \in IP!Statuses :
          /\ IsFiniteSet(Counting(s))
          /\ metrics[s] + Cardinality(Counting(s)) >= Cardinality(Counted(s))
          /\ Recorded(s) = {} => metrics[s] = 0 /\ Counting(s) = {}
    /\ IsFiniteSet(Busy)
    /\ metrics["accepted"] + metrics["dead_lettered"] + Cardinality(Replays) + Cardinality(Busy)
          <= requests

(* A new gateway has counted nothing.                                      *)
LEMMA MetricsInit == Init => TallyInv /\ MetricsInv
<1> SUFFICES ASSUME Init PROVE TallyInv /\ MetricsInv
  OBVIOUS
<1>1. tally = [th \in Threads |-> None] /\ job = [th \in Threads |-> I!IdleJob] /\ log = {}
  BY DEF Init
<1>2. metrics = [accepted |-> 0, dead_lettered |-> 0] /\ requests = 0
  BY DEF Init
<1>3. metrics \in [IP!Statuses -> Nat] /\ metrics["accepted"] = 0 /\ metrics["dead_lettered"] = 0
  BY <1>2 DEF IP!Statuses
<1>4. \A s \in IP!Statuses : Counting(s) = {} /\ Counted(s) = {} /\ metrics[s] = 0
  BY <1>1, <1>3, ServiceAssumption DEF Counting, Counted, IP!Statuses
<1>5. Busy = {} /\ Replays = {}
  BY <1>1 DEF Busy, Open, Replays, I!IdleJob
<1>6. IsFiniteSet({}) /\ Cardinality({}) = 0
  BY FS_EmptySet
<1>7. TallyInv
  BY <1>1, <1>3 DEF TallyInv, I!IdleJob
<1>8. MetricsInv
  <2>1. ASSUME NEW s \in IP!Statuses
        PROVE  /\ IsFiniteSet(Counting(s)) /\ metrics[s] = 0 /\ Counting(s) = {}
               /\ metrics[s] + Cardinality(Counting(s)) >= Cardinality(Counted(s))
    BY <1>4, <1>6
  <2>2. IsFiniteSet(Busy) /\ Cardinality(Busy) = 0 /\ Cardinality(Replays) = 0
    BY <1>5, <1>6
  <2>3. metrics["accepted"] + metrics["dead_lettered"] + Cardinality(Replays) + Cardinality(Busy)
           <= requests
    BY <1>2, <1>3, <2>2
  <2> QED BY <2>1, <2>2, <2>3 DEF MetricsInv
<1> QED BY <1>7, <1>8

(* A step of one goroutine changes these sets by at most that goroutine.   *)
LEMMA OneThread ==
    ASSUME MetricsInv, NEW th \in Threads,
           \A u \in Threads : u # th => job'[u] = job[u] /\ tally'[u] = tally[u]
    PROVE  /\ IsFiniteSet(Busy') /\ Cardinality(Busy) \in Nat /\ Cardinality(Busy') \in Nat
           /\ (th \in Busy <=> th \in Busy') => Cardinality(Busy') = Cardinality(Busy)
           /\ th \notin Busy /\ th \in Busy' => Cardinality(Busy') = Cardinality(Busy) + 1
           /\ th \in Busy /\ th \notin Busy' => Cardinality(Busy') = Cardinality(Busy) - 1
           /\ \A s \in IP!Statuses :
                 /\ IsFiniteSet(Counting(s)')
                 /\ Cardinality(Counting(s)) \in Nat /\ Cardinality(Counting(s)') \in Nat
                 /\ tally'[th] = tally[th] => Counting(s)' = Counting(s)
                 /\ tally[th] # s /\ tally'[th] = s =>
                       Cardinality(Counting(s)') = Cardinality(Counting(s)) + 1
                 /\ tally[th] # s /\ tally'[th] # s => Counting(s)' = Counting(s)
                 /\ tally[th] = s /\ tally'[th] # s =>
                       Cardinality(Counting(s)') = Cardinality(Counting(s)) - 1
<1>1. Busy' \ {th} = Busy \ {th}
  BY DEF Busy
<1>2. PICK S, T : S = Busy /\ T = Busy'
  OBVIOUS
<1>3. /\ IsFiniteSet(T) /\ Cardinality(S) \in Nat /\ Cardinality(T) \in Nat
      /\ (th \in S <=> th \in T) => Cardinality(T) = Cardinality(S)
      /\ th \notin S /\ th \in T => Cardinality(T) = Cardinality(S) + 1
      /\ th \in S /\ th \notin T => Cardinality(T) = Cardinality(S) - 1
  <2>1. IsFiniteSet(S) /\ T \ {th} = S \ {th}
    BY <1>1, <1>2 DEF MetricsInv
  <2> HIDE <1>2
  <2> QED BY <2>1, OneMember
<1>4. ASSUME NEW s \in IP!Statuses
      PROVE  /\ IsFiniteSet(Counting(s)')
             /\ Cardinality(Counting(s)) \in Nat /\ Cardinality(Counting(s)') \in Nat
             /\ tally'[th] = tally[th] => Counting(s)' = Counting(s)
             /\ tally[th] # s /\ tally'[th] = s =>
                   Cardinality(Counting(s)') = Cardinality(Counting(s)) + 1
             /\ tally[th] # s /\ tally'[th] # s => Counting(s)' = Counting(s)
             /\ tally[th] = s /\ tally'[th] # s =>
                   Cardinality(Counting(s)') = Cardinality(Counting(s)) - 1
  <2>1. PICK U, V : U = Counting(s) /\ V = Counting(s)'
    OBVIOUS
  <2>2. /\ IsFiniteSet(U) /\ V \ {th} = U \ {th}
        /\ th \in U <=> tally[th] = s
        /\ th \in V <=> tally'[th] = s
    <3>1. U = {u \in Threads : tally[u] = s} /\ V = {u \in Threads : tally'[u] = s}
      BY <2>1 DEF Counting
    <3>2. IsFiniteSet(U)
      BY <2>1 DEF MetricsInv
    <3> HIDE <2>1
    <3> QED BY <3>1, <3>2
  <2>3. /\ IsFiniteSet(V) /\ Cardinality(U) \in Nat /\ Cardinality(V) \in Nat
        /\ (tally[th] = s <=> tally'[th] = s) => V = U
        /\ tally[th] # s /\ tally'[th] = s => Cardinality(V) = Cardinality(U) + 1
        /\ tally[th] = s /\ tally'[th] # s => Cardinality(V) = Cardinality(U) - 1
    <3> HIDE <2>1
    <3>1. (tally[th] = s <=> tally'[th] = s) => V = U
      BY <2>2
    <3> QED BY <2>2, <3>1, OneMember
  <2> QED BY <2>1, <2>3
<1> QED BY <1>2, <1>3, <1>4

(* The records are finitely many, and the counters and requests numbers.   *)
LEMMA NumbersCounted ==
    ASSUME ServiceInv, TallyInv
    PROVE  /\ \A s : IsFiniteSet(Counted(s)) /\ Cardinality(Counted(s)) \in Nat
           /\ IsFiniteSet(Replays) /\ Cardinality(Replays) \in Nat
           /\ \A s \in IP!Statuses : metrics[s] \in Nat
           /\ metrics["accepted"] \in Nat /\ metrics["dead_lettered"] \in Nat
           /\ requests \in Nat
<1>1. IsFiniteSet(log)
  BY DEF ServiceInv, IP!LogInv, IP!IsFiniteSet, IsFiniteSet
<1>2. \A s : IsFiniteSet(Counted(s))
  BY <1>1, FS_Subset DEF Counted
<1>3. IsFiniteSet(Replays)
  BY <1>1, FS_Subset DEF Replays
<1>4. requests \in Nat
  BY DEF ServiceInv, IP!TypeInv, IP!TypeOK
<1>5. \A s \in IP!Statuses : metrics[s] \in Nat
  BY DEF TallyInv
<1>6. metrics["accepted"] \in Nat /\ metrics["dead_lettered"] \in Nat
  BY <1>5 DEF IP!Statuses
<1> QED BY <1>2, <1>3, <1>4, <1>5, <1>6, FS_CardinalityType

(* A step that counts and records nothing takes up at most the request it  *)
(* has just received.                                                      *)
LEMMA NothingCounted ==
    ASSUME ServiceInv, TallyInv, MetricsInv, NEW th \in Threads, tally[th] = None,
           tally' = tally, metrics' = metrics, log' = log,
           \A u \in Threads : u # th => job'[u] = job[u],
           \/ requests' = requests + 1
           \/ requests' = requests /\ (job'[th].step \in Open => job[th].step \in Open)
    PROVE  TallyInv' /\ MetricsInv'
<1>1. TallyInv'
  BY DEF TallyInv
<1>2. \A s \in IP!Statuses :
         /\ Counting(s)' = Counting(s) /\ Counted(s)' = Counted(s)
         /\ Recorded(s)' = Recorded(s)
  BY DEF Counting, Counted, Recorded
<1>3. Replays' = Replays
  BY DEF Replays
<1>4. th \in Busy' /\ requests' # requests + 1 => th \in Busy
  BY DEF Busy
<1>5. /\ IsFiniteSet(Busy') /\ Cardinality(Busy) \in Nat /\ Cardinality(Busy') \in Nat
      /\ (th \in Busy <=> th \in Busy') => Cardinality(Busy') = Cardinality(Busy)
      /\ th \notin Busy /\ th \in Busy' => Cardinality(Busy') = Cardinality(Busy) + 1
      /\ th \in Busy /\ th \notin Busy' => Cardinality(Busy') = Cardinality(Busy) - 1
  BY OneThread
<1>6. metrics["accepted"] + metrics["dead_lettered"] + Cardinality(Replays) + Cardinality(Busy)
         <= requests
  BY DEF MetricsInv
<1>7. PICK m, r, b, c \in Nat :
         /\ m = metrics["accepted"] + metrics["dead_lettered"] /\ r = Cardinality(Replays)
         /\ b = Cardinality(Busy) /\ c = Cardinality(Busy')
  BY <1>5, NumbersCounted
<1>8. m + r + c <= requests'
  BY <1>4, <1>5, <1>6, <1>7, NumbersCounted
<1>9. ASSUME NEW s \in IP!Statuses
      PROVE  (/\ IsFiniteSet(Counting(s))
              /\ metrics[s] + Cardinality(Counting(s)) >= Cardinality(Counted(s))
              /\ Recorded(s) = {} => metrics[s] = 0 /\ Counting(s) = {})'
  BY <1>2 DEF MetricsInv
<1>10. (metrics["accepted"] + metrics["dead_lettered"] + Cardinality(Replays) + Cardinality(Busy)
          <= requests)'
  BY <1>3, <1>7, <1>8
<1> QED BY <1>1, <1>5, <1>9, <1>10 DEF MetricsInv

(* A step that answers a request with the receipt of another one's record. *)
LEMMA AnswerCounts ==
    ASSUME ServiceInv, TallyInv, MetricsInv, NEW th \in Threads, NEW s \in IP!Statuses,
           job[th].step \in Open, job'[th].step = "idle", tally' = [tally EXCEPT ![th] = s],
           metrics' = metrics, log' = log, requests' = requests, Recorded(s) # {},
           \A u \in Threads : u # th => job'[u] = job[u]
    PROVE  TallyInv' /\ MetricsInv'
<1>1. tally \in [Threads -> {None} \cup IP!Statuses] /\ tally[th] = None
  BY DEF TallyInv, Open
<1>2. tally'[th] = s /\ s # None /\ \A u \in Threads : u # th => tally'[u] = tally[u]
  BY <1>1, ServiceAssumption DEF IP!Statuses
<1>3. TallyInv'
  BY <1>1, <1>2 DEF TallyInv
<1>4. Replays' = Replays /\ \A z : Counted(z)' = Counted(z) /\ Recorded(z)' = Recorded(z)
  BY DEF Replays, Counted, Recorded
<1>5. th \in Busy /\ th \in Busy'
  BY <1>2 DEF Busy
<1>6. IsFiniteSet(Busy') /\ Cardinality(Busy') = Cardinality(Busy)
  BY <1>2, <1>5, OneThread
<1>7. ASSUME NEW z \in IP!Statuses
      PROVE  (/\ IsFiniteSet(Counting(z))
              /\ metrics[z] + Cardinality(Counting(z)) >= Cardinality(Counted(z))
              /\ Recorded(z) = {} => metrics[z] = 0 /\ Counting(z) = {})'
  <2>1. tally[th] # z
    BY <1>1, ServiceAssumption DEF IP!Statuses
  <2>2. /\ IsFiniteSet(Counting(z)') /\ Cardinality(Counting(z)) \in Nat
        /\ Cardinality(Counting(z)') \in Nat
        /\ z = s => Cardinality(Counting(z)') = Cardinality(Counting(z)) + 1
        /\ z # s => Counting(z)' = Counting(z)
    BY <1>2, <2>1, OneThread
  <2>3. /\ metrics[z] + Cardinality(Counting(z)) >= Cardinality(Counted(z))
        /\ Recorded(z) = {} => metrics[z] = 0 /\ Counting(z) = {}
    BY DEF MetricsInv
  <2>4. PICK k, d, m \in Nat :
           k = Cardinality(Counting(z)) /\ d = Cardinality(Counted(z)) /\ m = metrics[z]
    BY <2>2, NumbersCounted
  <2>5. metrics'[z] + Cardinality(Counting(z)') >= Cardinality(Counted(z)')
    BY <1>4, <2>2, <2>3, <2>4
  <2> QED BY <1>4, <2>2, <2>3, <2>5
<1>8. (metrics["accepted"] + metrics["dead_lettered"] + Cardinality(Replays) + Cardinality(Busy)
         <= requests)'
  BY <1>4, <1>6 DEF MetricsInv
<1> QED BY <1>3, <1>6, <1>7, <1>8 DEF MetricsInv

(* A step that records a request's event leaves it to be counted, and one  *)
(* that records a replay does not.                                         *)
LEMMA RecordCounts ==
    ASSUME ServiceInv, TallyInv, MetricsInv, NEW th \in Threads, NEW x,
           x.status \in IP!Statuses, x \notin log, log' = log \cup {x},
           job[th].step \in Open, metrics' = metrics, requests' = requests,
           \A u \in Threads : u # th => job'[u] = job[u],
           \/ x.replayOf = 0 /\ job'[th].step = "idle" /\ tally' = [tally EXCEPT ![th] = x.status]
           \/ x.replayOf # 0 /\ job'[th].step = "finish" /\ tally' = tally
    PROVE  TallyInv' /\ MetricsInv'
<1>1. tally \in [Threads -> {None} \cup IP!Statuses] /\ tally[th] = None
  BY DEF TallyInv, Open
<1>2. PICK s \in IP!Statuses : s = x.status
  OBVIOUS
<1>3. /\ \A u \in Threads : u # th => tally'[u] = tally[u]
      /\ IF x.replayOf = 0 THEN tally'[th] = s ELSE tally'[th] = None
      /\ \A z \in IP!Statuses : z # None
  BY <1>1, <1>2, ServiceAssumption DEF IP!Statuses
<1>4. TallyInv'
  BY <1>1, <1>2, <1>3 DEF TallyInv
<1>5. IsFiniteSet(Replays) /\ \A z : IsFiniteSet(Counted(z))
  BY NumbersCounted
<1>6. ASSUME NEW z \in IP!Statuses
      PROVE  (/\ IsFiniteSet(Counting(z))
              /\ metrics[z] + Cardinality(Counting(z)) >= Cardinality(Counted(z))
              /\ Recorded(z) = {} => metrics[z] = 0 /\ Counting(z) = {})'
  <2>1. /\ IsFiniteSet(Counting(z)') /\ Cardinality(Counting(z)) \in Nat
        /\ Cardinality(Counting(z)') \in Nat
        /\ tally'[th] = z => Cardinality(Counting(z)') = Cardinality(Counting(z)) + 1
        /\ tally'[th] # z => Counting(z)' = Counting(z)
    BY <1>1, <1>3, OneThread
  <2>2. PICK U, V : U = Counted(z) /\ V = Counted(z)'
    OBVIOUS
  <2>3. /\ IsFiniteSet(U) /\ V \ {x} = U \ {x} /\ x \notin U
        /\ x \in V <=> tally'[th] = z
        /\ x \notin V => V = U
    BY <1>2, <1>3, <1>5, <2>2 DEF Counted
  <2>4. /\ Cardinality(U) \in Nat /\ Cardinality(V) \in Nat
        /\ x \in V => Cardinality(V) = Cardinality(U) + 1
    <3> HIDE <2>2
    <3> QED BY <2>3, OneMember
  <2>5. /\ metrics[z] + Cardinality(Counting(z)) >= Cardinality(U)
        /\ Recorded(z) = {} => metrics[z] = 0 /\ Counting(z) = {}
    BY <2>2 DEF MetricsInv
  <2>6. PICK k, m \in Nat : k = Cardinality(Counting(z)) /\ m = metrics[z]
    BY <2>1, NumbersCounted
  <2>7. metrics'[z] + Cardinality(Counting(z)') >= Cardinality(V)
    <3>1. CASE x \in V
      BY <2>1, <2>3, <2>4, <2>5, <2>6, <3>1
    <3>2. CASE x \notin V
      BY <2>1, <2>3, <2>5, <3>2
    <3> QED BY <3>1, <3>2
  <2>8. Recorded(z)' = {} => metrics'[z] = 0 /\ Counting(z)' = {}
    <3>1. Recorded(z) \subseteq Recorded(z)' /\ (tally'[th] = z => x \in Recorded(z)')
      BY <1>2, <1>3 DEF Recorded
    <3> QED BY <2>1, <2>5, <3>1
  <2> QED BY <2>1, <2>2, <2>7, <2>8
<1>7. /\ IsFiniteSet(Busy') /\ Cardinality(Busy) \in Nat /\ Cardinality(Busy') \in Nat
      /\ IF x.replayOf = 0 THEN Cardinality(Busy') = Cardinality(Busy)
                           ELSE Cardinality(Busy') = Cardinality(Busy) - 1
  <2>1. th \in Busy /\ (th \in Busy' <=> x.replayOf = 0)
    BY <1>2, <1>3 DEF Busy, Open
  <2> QED BY <1>3, <2>1, OneThread
<1>8. /\ Cardinality(Replays) \in Nat /\ Cardinality(Replays') \in Nat
      /\ IF x.replayOf = 0 THEN Cardinality(Replays') = Cardinality(Replays)
                           ELSE Cardinality(Replays') = Cardinality(Replays) + 1
  <2>1. PICK U, V : U = Replays /\ V = Replays'
    OBVIOUS
  <2>2. IsFiniteSet(U) /\ V \ {x} = U \ {x} /\ x \notin U /\ (x \in V <=> x.replayOf # 0)
    BY <1>5, <2>1 DEF Replays
  <2>3. /\ Cardinality(U) \in Nat /\ Cardinality(V) \in Nat
        /\ IF x.replayOf = 0 THEN Cardinality(V) = Cardinality(U)
                             ELSE Cardinality(V) = Cardinality(U) + 1
    <3> HIDE <2>1
    <3> QED BY <2>2, OneMember
  <2> QED BY <2>1, <2>3
<1>9. (metrics["accepted"] + metrics["dead_lettered"] + Cardinality(Replays) + Cardinality(Busy)
         <= requests)'
  <2>1. metrics["accepted"] + metrics["dead_lettered"] + Cardinality(Replays) + Cardinality(Busy)
           <= requests
    BY DEF MetricsInv
  <2>2. PICK m \in Nat : m = metrics["accepted"] + metrics["dead_lettered"]
    BY NumbersCounted
  <2>3. m + Cardinality(Replays') + Cardinality(Busy') <= requests
    BY <1>7, <1>8, <2>1, <2>2, NumbersCounted
  <2> QED BY <2>2, <2>3
<1> QED BY <1>4, <1>6, <1>7, <1>9 DEF MetricsInv

(* A handler counts one event, of the status that it was answered with.    *)
LEMMA CountCounts ==
    ASSUME ServiceInv, TallyInv, MetricsInv, NEW th \in Threads, CountEvent(th)
    PROVE  TallyInv' /\ MetricsInv'
<1>1. /\ tally \in [Threads -> {None} \cup IP!Statuses] /\ metrics \in [IP!Statuses -> Nat]
      /\ job[th].step = "idle" /\ tally[th] # None
      /\ job' = job /\ log' = log /\ requests' = requests
  BY DEF TallyInv, CountEvent, service
<1>2. PICK s \in IP!Statuses : s = tally[th]
  BY <1>1
<1>3. /\ \A u \in Threads : u # th => tally'[u] = tally[u] /\ job'[u] = job[u]
      /\ tally'[th] = None /\ tally' \in [Threads -> {None} \cup IP!Statuses]
      /\ \A z \in IP!Statuses : z # None
  BY <1>1, ServiceAssumption DEF CountEvent, IP!Statuses
<1>4. /\ metrics' \in [IP!Statuses -> Nat] /\ metrics'[s] = metrics[s] + 1
      /\ \A z \in IP!Statuses : z # s => metrics'[z] = metrics[z]
  BY <1>1, <1>2 DEF CountEvent
<1>5. TallyInv'
  BY <1>1, <1>3, <1>4 DEF TallyInv
<1>6. Replays' = Replays /\ \A z : Counted(z)' = Counted(z) /\ Recorded(z)' = Recorded(z)
  BY <1>1 DEF Replays, Counted, Recorded
<1>7. ASSUME NEW z \in IP!Statuses
      PROVE  (/\ IsFiniteSet(Counting(z))
              /\ metrics[z] + Cardinality(Counting(z)) >= Cardinality(Counted(z))
              /\ Recorded(z) = {} => metrics[z] = 0 /\ Counting(z) = {})'
  <2>1. /\ IsFiniteSet(Counting(z)') /\ Cardinality(Counting(z)) \in Nat
        /\ Cardinality(Counting(z)') \in Nat
        /\ z = s => Cardinality(Counting(z)') = Cardinality(Counting(z)) - 1
        /\ z # s => Counting(z)' = Counting(z)
    BY <1>2, <1>3, OneThread
  <2>2. /\ metrics[z] + Cardinality(Counting(z)) >= Cardinality(Counted(z))
        /\ Recorded(z) = {} => metrics[z] = 0 /\ Counting(z) = {}
    BY DEF MetricsInv
  <2>3. z = s => Counting(z) # {}
    BY <1>2 DEF Counting
  <2>4. PICK k, d, m \in Nat :
           k = Cardinality(Counting(z)) /\ d = Cardinality(Counted(z)) /\ m = metrics[z]
    BY <2>1, NumbersCounted
  <2>5. metrics'[z] + Cardinality(Counting(z)') >= d
    BY <1>4, <2>1, <2>2, <2>4
  <2> QED BY <1>4, <1>6, <2>1, <2>2, <2>3, <2>4, <2>5
<1>8. /\ IsFiniteSet(Busy') /\ Cardinality(Busy) \in Nat /\ Cardinality(Busy') \in Nat
      /\ Cardinality(Busy') = Cardinality(Busy) - 1
  <2>1. th \in Busy /\ th \notin Busy'
    BY <1>1, <1>3 DEF Busy, Open
  <2> QED BY <1>3, <2>1, OneThread
<1>9. (metrics["accepted"] + metrics["dead_lettered"] + Cardinality(Replays) + Cardinality(Busy)
         <= requests)'
  <2>1. metrics["accepted"] + metrics["dead_lettered"] + Cardinality(Replays) + Cardinality(Busy)
           <= requests
    BY DEF MetricsInv
  <2>2. /\ metrics["accepted"] \in Nat /\ metrics["dead_lettered"] \in Nat
        /\ metrics'["accepted"] + metrics'["dead_lettered"]
             = metrics["accepted"] + metrics["dead_lettered"] + 1
    BY <1>2, <1>4, NumbersCounted DEF IP!Statuses
  <2>3. PICK r \in Nat : r = Cardinality(Replays)
    BY NumbersCounted
  <2>4. metrics'["accepted"] + metrics'["dead_lettered"] + r + Cardinality(Busy') <= requests
    BY <1>8, <2>1, <2>2, <2>3, NumbersCounted
  <2> QED BY <1>1, <1>6, <2>3, <2>4
<1> QED BY <1>5, <1>7, <1>8, <1>9 DEF MetricsInv

(* Publish returns: a request is over, a replay has to finish.             *)
LEMMA ReturnEnds ==
    ASSUME ServiceInv, NEW th \in Threads, NEW ok, I!Return(th, ok)
    PROVE  IF job[th].letter = 0 THEN job'[th].step = "idle" ELSE job'[th].step = "finish"
<1>1. job \in [Threads -> IP!Job]
  BY DEF ServiceInv, IP!TypeInv, IP!TypeOK
<1> QED BY <1>1 DEF I!Return, I!IdleJob, IP!Job

(* A duplicate is answered with the status that some record has.           *)
LEMMA AnswerHasRecord ==
    ASSUME ServiceInv, NEW th \in Threads, I!AnswerDuplicate(th)
    PROVE  /\ seen[I!SeenKey(job[th].event)].status \in IP!Statuses
           /\ Recorded(seen[I!SeenKey(job[th].event)].status) # {}
<1>1. PICK k : k = IP!SeenKey(job[th].event)
  OBVIOUS
<1>2. I!SeenKey(job[th].event) = k /\ k \in DOMAIN seen
  BY <1>1 DEF I!AnswerDuplicate, I!SeenKey, IP!SeenKey
<1>3. \E x \in log : x.status = seen[k].status
  BY <1>2 DEF ServiceInv, IP!LogInv
<1>4. \A x \in log : x.status \in IP!Statuses
  BY DEF ServiceInv, IP!TypeInv, IP!TypeOK, IP!LogEntry
<1> QED BY <1>2, <1>3, <1>4 DEF Recorded

(* What a goroutine's steps in the service do to the counters.             *)
LEMMA IngestCounts ==
    ASSUME ServiceInv, TallyInv, MetricsInv, NEW th \in Threads, IngestStep(th)
    PROVE  TallyInv' /\ MetricsInv'
<1>1. metrics' = metrics
  BY DEF IngestStep
<1>2. CASE I!AnswerDuplicate(th) /\ tally' = ToCount(th, seen[I!SeenKey(job[th].event)].status)
  <2>1. /\ IP!Moves(th, {"admit"}, {"idle", "finish"})
        /\ log' = log /\ requests' = requests
    BY <1>2, ThreadMoves DEF I!AnswerDuplicate
  <2>2. IF job[th].letter = 0 THEN job'[th].step = "idle" ELSE job'[th].step = "finish"
    BY <1>2, ReturnEnds DEF I!AnswerDuplicate
  <2>3. CASE job[th].letter = 0
    <3>1. PICK s \in IP!Statuses :
             s = seen[I!SeenKey(job[th].event)].status /\ Recorded(s) # {}
      BY <1>2, AnswerHasRecord
    <3>2. tally' = [tally EXCEPT ![th] = s]
      BY <1>2, <2>3, <3>1 DEF ToCount
    <3> QED BY <1>1, <2>1, <2>2, <2>3, <3>1, <3>2, AnswerCounts DEF IP!Moves, Open
  <2>4. CASE job[th].letter # 0
    <3>1. tally' = tally /\ tally[th] = None
      BY <1>2, <2>1, <2>4 DEF ToCount, TallyInv, IP!Moves
    <3> QED BY <1>1, <2>1, <2>2, <2>4, <3>1, NothingCounted DEF IP!Moves, Open
  <2> QED BY <2>3, <2>4
<1>3. CASE I!Commit(th) /\ tally' = ToCount(th, I!StatusOf(job[th].reasons))
  <2>1. IP!Moves(th, {"commit"}, {"idle", "finish"}) /\ requests' = requests
    BY <1>3, ThreadMoves DEF I!Commit
  <2>2. IF job[th].letter = 0 THEN job'[th].step = "idle" ELSE job'[th].step = "finish"
    BY <1>3, ReturnEnds DEF I!Commit
  <2>3. PICK x : /\ x \notin log /\ log' = log \cup {x} /\ x.replayOf = job[th].letter
                 /\ x.status = I!StatusOf(job[th].reasons)
    BY <1>3, CommitAdds
  <2>4. x.status \in IP!Statuses
    BY <2>3 DEF I!StatusOf, IP!Statuses
  <2>5. \/ x.replayOf = 0 /\ job'[th].step = "idle" /\ tally' = [tally EXCEPT ![th] = x.status]
        \/ x.replayOf # 0 /\ job'[th].step = "finish" /\ tally' = tally
    BY <1>3, <2>2, <2>3 DEF ToCount
  <2>6. job[th].step \in Open /\ \A u \in Threads : u # th => job'[u] = job[u]
    BY <2>1 DEF IP!Moves, Open
  <2> QED BY <1>1, <2>1, <2>3, <2>4, <2>5, <2>6, RecordCounts
<1>4. CASE /\ \/ I!RejectQuota(th) \/ I!Admit(th) \/ I!Lookup(th)
              \/ I!SnapshotRules(th) \/ I!ReplayFinish(th)
           /\ tally' = tally
  <2>1. \/ IP!Moves(th, {"admit"}, {"idle", "finish"}) \/ IP!Moves(th, {"admit"}, {"lookup"})
        \/ IP!Moves(th, {"lookup"}, {"rules", "commit"}) \/ IP!Moves(th, {"rules"}, {"commit"})
        \/ IP!Moves(th, {"finish"}, {"idle"})
    BY <1>4, ThreadMoves
  <2>2. log' = log /\ requests' = requests
    BY <1>4 DEF I!RejectQuota, I!Admit, I!Lookup, I!SnapshotRules, I!ReplayFinish
  <2>3. /\ \A u \in Threads : u # th => job'[u] = job[u]
        /\ job'[th].step \in Open => job[th].step \in Open
        /\ job[th].step # "idle"
    BY <2>1 DEF IP!Moves, Open
  <2>4. tally[th] = None
    BY <2>3 DEF TallyInv
  <2> QED BY <1>1, <1>4, <2>2, <2>3, <2>4, NothingCounted
<1> QED BY <1>2, <1>3, <1>4 DEF IngestStep

(* Every step of the gateway keeps the counters in line.                   *)
LEMMA MetricsStep ==
    ASSUME ServiceInv, TallyInv, MetricsInv, [Next]_vars
    PROVE  TallyInv' /\ MetricsInv'
<1>1. ASSUME NEW th \in Threads, ingest(th) \/ replay(th)
      PROVE  TallyInv' /\ MetricsInv'
  <2>1. IP!Moves(th, {"idle"}, {"admit"})
    BY <1>1, ThreadMoves DEF ingest, replay
  <2>2. /\ tally[th] = None /\ tally' = tally /\ metrics' = metrics
        /\ log' = log /\ requests' = requests + 1
    BY <1>1 DEF ingest, replay, process, I!Receive, I!ReplayBegin
  <2> QED BY <2>1, <2>2, NothingCounted DEF IP!Moves
<1>2. ASSUME NEW th \in Threads, IngestStep(th)
      PROVE  TallyInv' /\ MetricsInv'
  BY <1>2, IngestCounts
<1>3. ASSUME NEW th \in Threads, CountEvent(th)
      PROVE  TallyInv' /\ MetricsInv'
  BY <1>3, CountCounts
<1>4. CASE UNCHANGED <<job, log, requests, tally, metrics>>
  BY <1>4 DEF TallyInv, MetricsInv, Counting, Counted, Recorded, Replays, Busy
<1>5. CASE \E cl \in Clients :
              createContract(cl) \/ addVersion(cl) \/ publish(cl) \/ RegistrySave(cl)
  BY <1>4, <1>5 DEF createContract, addVersion, publish, RegistrySave, service, process
<1>6. CASE \E c \in ContractIDs : setRules(c) \/ activateRules(c)
  BY <1>4, <1>6 DEF setRules, activateRules, service, process
<1>7. CASE Signal \/ Abandon \/ Stop \/ ShutdownFails \/ ListenFails
  BY <1>4, <1>7 DEF Signal, Abandon, Stop, ShutdownFails, ListenFails, Exit, service, process
<1>8. CASE UNCHANGED vars
  BY <1>4, <1>8 DEF vars, service, process
<1> QED BY <1>1, <1>2, <1>3, <1>5, <1>6, <1>7, <1>8 DEF Next

(* The counters in every reachable state.                                  *)
LEMMA MetricsInvariant == Spec => [](TallyInv /\ MetricsInv)
<1>1. ServiceInv /\ TallyInv /\ MetricsInv /\ [Next]_vars => (TallyInv /\ MetricsInv)'
  BY MetricsStep
<1> QED BY <1>1, MetricsInit, ServiceInvariant, PTL DEF Spec

(* The counters lag behind the records and lose none of them, count only   *)
(* outcomes that are on record, and stay with the replays below the number *)
(* of requests (server.go:184-199, 324-337).                               *)
THEOREM MetricsAreAccounted == Spec => []MetricsAccount
<1>1. ServiceInv /\ TallyInv /\ MetricsInv => MetricsAccount
  <2> SUFFICES ASSUME ServiceInv, TallyInv, MetricsInv PROVE MetricsAccount
    OBVIOUS
  <2>1. ASSUME NEW s \in {"accepted", "dead_lettered"}
        PROVE  /\ metrics[s] + ToBeCounted(s) >= Processed(s)
               /\ metrics[s] > 0 => \E x \in log : x.status = s
    <3>1. s \in IP!Statuses /\ ToBeCounted(s) = Cardinality(Counting(s))
          /\ Processed(s) = Cardinality(Counted(s))
      BY DEF IP!Statuses, ToBeCounted, Processed, Counting, Counted
    <3>2. metrics[s] > 0 => Recorded(s) # {}
      BY <3>1 DEF MetricsInv
    <3> QED BY <3>1, <3>2 DEF MetricsInv, Recorded
  <2>2. /\ Cardinality(Busy) \in Nat
        /\ metrics["accepted"] + metrics["dead_lettered"] + Cardinality(Replays) + Cardinality(Busy)
             <= requests
    BY FS_CardinalityType DEF MetricsInv
  <2>3. metrics["accepted"] + metrics["dead_lettered"] + Cardinality(Replays) <= requests
    BY <2>2, NumbersCounted
  <2>4. metrics.accepted + metrics.dead_lettered + Cardinality({x \in log : x.replayOf # 0})
           <= requests
    BY <2>3 DEF Replays
  <2> QED BY <2>1, <2>4 DEF MetricsAccount
<1> QED BY <1>1, MetricsInvariant, ServiceInvariant, PTL

-----------------------------------------------------------------------------
(* The exit                                                                *)

(* Nothing runs in a gateway that has stopped, and it stopped when every   *)
(* request was answered.                                                   *)
ExitInv == phase = "stopped" => AllAnswered

(* In every reachable state.                                               *)
LEMMA ExitInvariant == Spec => []ExitInv
<1>1. Init => ExitInv
  BY DEF Init, ExitInv
<1>2. ASSUME ExitInv, [Next]_vars PROVE ExitInv'
  <2>1. CASE \E cl \in Clients :
                createContract(cl) \/ addVersion(cl) \/ publish(cl) \/ RegistrySave(cl)
    BY <2>1 DEF createContract, addVersion, publish, RegistrySave, process, Begin, Serving, Running, ExitInv
  <2>2. CASE \E c \in ContractIDs : setRules(c) \/ activateRules(c)
    BY <2>2 DEF setRules, activateRules, process, Begin, Serving, ExitInv
  <2>3. CASE \E th \in Threads : ingest(th) \/ replay(th) \/ IngestStep(th) \/ CountEvent(th)
    BY <2>3 DEF ingest, replay, IngestStep, CountEvent, process, Begin, Serving, Running, ExitInv
  <2>4. CASE Signal \/ Abandon \/ ShutdownFails \/ ListenFails
    BY <2>4 DEF Signal, Abandon, ShutdownFails, ListenFails, Exit, process, ExitInv
  <2>5. CASE Stop
    BY <2>5 DEF Stop, Exit, AllAnswered, ExitInv, registry, service
  <2>6. CASE UNCHANGED vars
    BY <1>2, <2>6 DEF vars, registry, service, process, AllAnswered, ExitInv
  <2> QED BY <1>2, <2>1, <2>2, <2>3, <2>4, <2>5, <2>6 DEF Next
<1> QED BY <1>1, <1>2, PTL DEF Spec

(* A gateway that exits with status 0 leaves nothing half done: it exits   *)
(* only when Shutdown has seen every request answered, and what a request  *)
(* does it has done by then (main.go:40-48).                               *)
THEOREM ExitIsClean == Spec => []CleanExit
<1>1. ServiceInv /\ TallyInv /\ MetricsInv /\ ExitInv => CleanExit
  <2> SUFFICES ASSUME ServiceInv, TallyInv, MetricsInv, ExitInv, phase = "stopped"
               PROVE  /\ \A t \in Tenants :
                            Len(granted[t]) = Cardinality({x \in log : x.sent.tenant = t})
                      /\ \A l \in DOMAIN letters : letters[l].state # "replaying"
                      /\ \A s \in {"accepted", "dead_lettered"} : metrics[s] >= Processed(s)
                      /\ \A cl \in Clients : ~writer[cl].saving
    BY DEF CleanExit
  <2>1. /\ \A th \in Threads : job[th].step = "idle" /\ tally[th] = None
        /\ \A cl \in Clients : writer[cl] = R!Idle
    BY DEF ExitInv, AllAnswered
  <2>2. Cardinality({}) = 0
    BY FS_EmptySet
  <2>3. ASSUME NEW t \in Tenants
        PROVE  Len(granted[t]) = Cardinality({x \in log : x.sent.tenant = t})
    <3>1. IP!ValidatedFor(t) = {}
      BY <2>1 DEF IP!ValidatedFor, IP!Validating
    <3>2. Len(granted[t]) = IP!Cardinality(IP!RecordedOf(t)) + IP!Cardinality(IP!ValidatedFor(t))
      BY DEF ServiceInv, IP!AdmissionInv
    <3>3. \A S : IP!Cardinality(S) = Cardinality(S)
      BY DEF IP!Cardinality, Cardinality
    <3>4. IP!RecordedOf(t) = {x \in log : x.sent.tenant = t}
      BY DEF IP!RecordedOf
    <3>5. Cardinality({x \in log : x.sent.tenant = t}) \in Nat
      <4>1. IsFiniteSet(log)
        BY DEF ServiceInv, IP!LogInv, IP!IsFiniteSet, IsFiniteSet
      <4> QED BY <4>1, FS_Subset, FS_CardinalityType
    <3> QED BY <2>2, <3>1, <3>2, <3>3, <3>4, <3>5
  <2>4. ASSUME NEW l \in DOMAIN letters
        PROVE  letters[l].state # "replaying"
    <3>1. l # 0 /\ \A th \in Threads : job[th].letter = 0
      BY <2>1 DEF ServiceInv, IP!TypeInv, IP!TypeOK, IP!ReplayInv, IP!ReplaysNamed
    <3>2. IP!InFlight(l) = {}
      BY <3>1 DEF IP!InFlight
    <3> QED BY <3>2 DEF ServiceInv, IP!ReplayInv, IP!Budgeted
  <2>5. ASSUME NEW s \in {"accepted", "dead_lettered"}
        PROVE  metrics[s] >= Processed(s)
    <3>1. s \in IP!Statuses /\ Counting(s) = {}
      BY <2>1, ServiceAssumption DEF Counting, IP!Statuses
    <3>2. metrics[s] + Cardinality(Counting(s)) >= Cardinality(Counted(s))
      BY <3>1 DEF MetricsInv
    <3>3. metrics[s] >= Cardinality(Counted(s))
      BY <2>2, <3>1, <3>2, NumbersCounted
    <3> QED BY <3>3 DEF Processed, Counted
  <2>6. \A cl \in Clients : ~writer[cl].saving
    BY <2>1 DEF R!Idle
  <2> QED BY <2>3, <2>4, <2>5, <2>6
<1> QED BY <1>1, ServiceInvariant, MetricsInvariant, ExitInvariant, PTL
=============================================================================
