------------------------------ MODULE Registry ------------------------------
(***************************************************************************)
(* The contract registry: internal/contract/application/service.go over    *)
(* the aggregate of internal/contract/domain/model.go and the store of     *)
(* internal/platform/store/memory.go.                                      *)
(*                                                                         *)
(* Every request is served by its own goroutine.  The store locks one      *)
(* operation at a time, so AddVersion and Publish are two steps: Find      *)
(* hands out a copy of the contract, the aggregate changes the copy, and   *)
(* Save writes it back whatever the store holds by then.                   *)
(*                                                                         *)
(* Data: contract ids are drawn and never collide, so a contract is        *)
(* addressed by its id; an ETag "id-n" is the number n; names, texts and   *)
(* time stamps are left out.                                               *)
(***************************************************************************)
EXTENDS Schema

CONSTANTS
    Clients,       \* goroutines serving registry requests
    Tenants,       \* X-Tenant-ID values
    Submitted,     \* the schemas that POST .../versions receives
    Requested,     \* the compatibility modes that POST /contracts receives
    MaxContracts,  \* bound: contracts registered
    MaxVersions    \* bound: versions of a contract

ASSUME SubmittedAssumption ==
    /\ Submitted \subseteq SchemaType
    /\ Requested \subseteq Modes \cup {""}
    /\ MaxContracts \in Nat /\ MaxVersions \in Nat

Lifecycles == {"draft", "published"}

Fingerprints == {Fingerprint(s) : s \in Submitted}

Version ==
    [number: Nat, schema: SchemaType, fingerprint: Fingerprints,
     lifecycle: Lifecycles, tag: Nat]

Contract == [tenant: Tenants, mode: Modes, revision: Nat, versions: Seq(Version)]

View == [id: Nat, version: Version]

VARIABLES
    store,   \* MemoryContracts.values
    job,     \* the contract each goroutine is about to save, with the version it
             \* returns and (history) the contract that Find gave it
    shown    \* history: the versions that responses have shown

vars == <<store, job, shown>>

Idle == [saving |-> FALSE, id |-> 0]

Job ==
    {Idle} \cup [saving: {TRUE}, id: Nat, base: Contract, copy: Contract, result: Version]

TypeOK ==
    /\ store \in [DOMAIN store -> Contract] /\ DOMAIN store \subseteq Nat \ {0}
    /\ job \in [Clients -> Job]
    /\ \A cl \in Clients : job[cl].saving => job[cl].id \in DOMAIN store
    /\ shown \subseteq View

-----------------------------------------------------------------------------
(* The aggregate                                                           *)

MutNewContractKeepsMode(tenant, mode) ==
    [tenant |-> tenant, mode |-> mode, revision |-> 1, versions |-> <<>>]

(* NewContract; an absent mode is backward.                                *)
NewContract(tenant, mode) ==
    [tenant |-> tenant, mode |-> IF mode = "" THEN "backward" ELSE mode,
     revision |-> 1, versions |-> <<>>]

MutCanAddAfterDraftUnchecked(c, schema) ==
    LET latest == c.versions[Len(c.versions)] IN
    /\ ValidSchema(schema)
    /\ c.versions # <<>> /\ latest.lifecycle = "published" =>
          Compatible(latest.schema, schema, c.mode)

(* Contract.AddVersion succeeds: the schema is compared with the latest    *)
(* version, draft or not.                                                  *)
CanAdd(c, schema) ==
    /\ ValidSchema(schema)
    /\ c.versions # <<>> =>
          Compatible(c.versions[Len(c.versions)].schema, schema, c.mode)

NewVersion(c, schema) ==
    [number |-> Len(c.versions) + 1, schema |-> Canonical(schema),
     fingerprint |-> Fingerprint(schema), lifecycle |-> "draft", tag |-> c.revision + 1]

MutWithVersionReplacesDraft(c, schema) ==
    LET n == Len(c.versions) IN
    IF n > 0 /\ c.versions[n].lifecycle = "draft"
    THEN [c EXCEPT !.versions[n].schema = Canonical(schema), !.revision = @ + 1]
    ELSE [c EXCEPT !.versions = Append(@, NewVersion(c, schema)), !.revision = @ + 1]

WithVersion(c, schema) ==
    [c EXCEPT !.versions = Append(@, NewVersion(c, schema)), !.revision = @ + 1]

MutCanPublishAnyLifecycle(c, i, tag) == c.versions[i].tag = tag

(* Contract.Publish succeeds for the version at place i: If-Match is the   *)
(* tag of the version and the version is a draft.                          *)
CanPublish(c, i, tag) == c.versions[i].tag = tag /\ c.versions[i].lifecycle = "draft"

MutWithPublishedKeepsTag(c, i) ==
    [c EXCEPT !.revision = @ + 1, !.versions[i].lifecycle = "published"]

WithPublished(c, i) ==
    [c EXCEPT !.revision = @ + 1,
              !.versions[i].lifecycle = "published",
              !.versions[i].tag = c.revision + 1]

-----------------------------------------------------------------------------
Init ==
    /\ store = [x \in {} |-> Idle]
    /\ job = [cl \in Clients |-> Idle]
    /\ shown = {}

(* Service.Register: Create stores the contract under a fresh id.          *)
Register(cl, tenant, mode) ==
    LET id == Cardinality(DOMAIN store) + 1 IN
    /\ job[cl] = Idle
    /\ id <= MaxContracts
    /\ store' = [x \in DOMAIN store \cup {id} |->
                    IF x = id THEN NewContract(tenant, mode) ELSE store[x]]
    /\ UNCHANGED <<job, shown>>

(* Find and Contract.AddVersion on the copy.  Another tenant's contract is *)
(* not found; that, and a schema that is invalid or incompatible, is an    *)
(* error that changes nothing.                                             *)
AddVersion(cl, tenant, id, schema) ==
    /\ job[cl] = Idle
    /\ store[id].tenant = tenant
    /\ Len(store[id].versions) < MaxVersions
    /\ CanAdd(store[id], schema)
    /\ job' = [job EXCEPT ![cl] = [saving |-> TRUE, id |-> id, base |-> store[id],
                                   copy   |-> WithVersion(store[id], schema),
                                   result |-> NewVersion(store[id], schema)]]
    /\ UNCHANGED <<store, shown>>

(* Find and Contract.Publish on the copy.  The client sends the number and *)
(* the tag of a version it was shown; reading a contract (Service.Get)     *)
(* shows nothing that the response to its writer has not shown before.     *)
Publish(cl, tenant, view) ==
    /\ job[cl] = Idle
    /\ store[view.id].tenant = tenant
    /\ \E i \in DOMAIN store[view.id].versions :
          LET published == WithPublished(store[view.id], i) IN
          /\ store[view.id].versions[i].number = view.version.number
          /\ CanPublish(store[view.id], i, view.version.tag)
          /\ job' = [job EXCEPT ![cl] = [saving |-> TRUE, id |-> view.id,
                                         base   |-> store[view.id],
                                         copy   |-> published,
                                         result |-> published.versions[i]]]
    /\ UNCHANGED <<store, shown>>

(* Store.Save, and the response with the new version.                      *)
Save(cl) ==
    LET id == job[cl].id IN
    /\ job[cl] # Idle
    /\ store' = [store EXCEPT ![id] = job[cl].copy]
    /\ shown' = shown \cup {[id |-> id, version |-> job[cl].result]}
    /\ job' = [job EXCEPT ![cl] = Idle]

Next ==
    \E cl \in Clients :
        \/ \E t \in Tenants :
              \/ \E mode \in Requested : Register(cl, t, mode)
              \/ \E id \in DOMAIN store, schema \in Submitted : AddVersion(cl, t, id, schema)
              \/ \E view \in shown : Publish(cl, t, view)
        \/ Save(cl)

Spec == Init /\ [][Next]_vars

-----------------------------------------------------------------------------
(* Properties                                                              *)

PublishedOf(c) == {i \in DOMAIN c.versions : c.versions[i].lifecycle = "published"}

(* The revision counts the changes that made the contract what it is: one  *)
(* for each version and one for each publication.  Writers that overwrite  *)
(* each other may repeat a revision but never leave a contract whose       *)
(* revision and content disagree (model.go:205-243, memory.go:39-48).      *)
RevisionAccounts ==
    \A id \in DOMAIN store :
        store[id].revision = 1 + Len(store[id].versions) + Cardinality(PublishedOf(store[id]))

(* Within a contract an ETag names one version, and the newest tag is the  *)
(* revision: If-Match can not confuse two versions that are stored         *)
(* together (model.go:215, 239).                                           *)
TagsIdentify ==
    \A id \in DOMAIN store :
        LET v == store[id].versions IN
        /\ \A i, j \in DOMAIN v : v[i].tag = v[j].tag => i = j
        /\ v # <<>> => \E i \in DOMAIN v : v[i].tag = store[id].revision
        /\ \A i \in DOMAIN v : v[i].number = i /\ v[i].tag <= store[id].revision

(* However requests overlap, the versions a contract holds form a chain:   *)
(* each was checked against the one before it (model.go:209-213).          *)
ChainCompatible ==
    \A id \in DOMAIN store :
        LET c == store[id] IN
        \A i \in 1 .. Len(c.versions) - 1 :
            Compatible(c.versions[i].schema, c.versions[i + 1].schema, c.mode)

(* Changes that compare does not look at: an enum put on a field that had  *)
(* none, a required field excused by its default (which ValidatePayload    *)
(* never fills in), and two fields whose names are the same once trimmed.  *)
Unchecked(old, new) ==
    \/ \E n \in FieldsNamed(old) \cap FieldsNamed(new) :
          FieldOf(old, n).enum = {} /\ FieldOf(new, n).enum # {}
    \/ \E n \in FieldsNamed(new) : FieldOf(new, n).required /\ FieldOf(new, n).default
    \/ \E i, j \in DOMAIN new.fields : i # j /\ new.fields[i].name = new.fields[j].name

(* Compatibility means something for events: outside forward mode, and but *)
(* for the changes compare does not look at, a payload made of the fields  *)
(* of one version and valid for it is valid for the next version too, on   *)
(* whichever processor the gateway runs: numbers at the edge of int64 and  *)
(* beyond included (model.go:139-183 against typecheck.go:27-46, 96-111).  *)
VersionsSubstitutable ==
    \A id \in DOMAIN store :
        LET c == store[id] IN
        \A i \in 1 .. Len(c.versions) - 1 :
            LET old == c.versions[i].schema
                new == c.versions[i + 1].schema IN
            c.mode # "forward" /\ ~Unchecked(old, new) =>
                \A payload \in PayloadsOver(FieldsNamed(old)), saturates \in BOOLEAN :
                    Accepts(old, payload, saturates) => Accepts(new, payload, saturates)

(* The history a user sees in the store.                                   *)
StoredHistory ==
    [id \in DOMAIN store |->
        [i \in DOMAIN store[id].versions |->
            [schema    |-> store[id].versions[i].schema,
             lifecycle |-> store[id].versions[i].lifecycle]]]

History == INSTANCE ContractHistory
             WITH history <- StoredHistory,
                  IDs     <- 1 .. MaxContracts,
                  Schemas <- {Canonical(s) : s \in Submitted}

(* Requests served one after the other implement the abstract history of   *)
(* ContractHistory: no version is lost, changed or taken back.             *)
ImplementsHistory == History!Spec

Stale(cl) == job[cl] # Idle /\ store[job[cl].id] # job[cl].base

(* The overwriting Save is the only flaw: with requests overlapping in any *)
(* way, every step but the Save of a copy that the store has moved on from *)
(* is a step of the abstract history (memory.go:39-48, which compares      *)
(* nothing; service.go:40-61).                                             *)
OnlyStaleSavesLose ==
    [][(\E cl \in Clients : Stale(cl) /\ Save(cl)) \/ [History!Next]_StoredHistory]_vars
=============================================================================
