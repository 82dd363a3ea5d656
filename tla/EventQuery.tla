----------------------------- MODULE EventQuery -----------------------------
(***************************************************************************)
(* The queries and batch replays of internal/ingestion/application/        *)
(* query.go, over the ingestion service as it runs: a client reads the     *)
(* pages of a listing, or a single event, while events are received and    *)
(* replayed, and operators replay dead letters in batches.                 *)
(*                                                                         *)
(* A query holds the mutex from beginning to end and is one step; the      *)
(* response for a single event takes two.  Where the code takes the first  *)
(* receipt of an event that the iteration over s.seen meets, any receipt   *)
(* of the event may be the one.                                            *)
(***************************************************************************)
EXTENDS Ingestion, FiniteSetsExt, Functions

CONSTANTS
    IDRank,        \* the place of each event id in the order of strings
    Readers,       \* the tenants whose clients read single events
    Filters,       \* the filters a client lists events with
    Limits,        \* the limit parameters it sends, 0 for none
    DefaultLimit,  \* 50 in the code
    MaxLimit,      \* 500 in the code
    MaxPages,      \* bound: pages of a listing
    MaxBatch       \* bound: letters of a batch

ASSUME QueryAssumption ==
    /\ IDRank \in [ClientIDs \cup (1 .. 3 * MaxRequests) -> Int]
    /\ \A a, b \in DOMAIN IDRank : IDRank[a] = IDRank[b] => a = b
    /\ Readers \subseteq Tenants
    /\ Limits \subseteq Int
    /\ MaxLimit \in Nat \ {0} /\ DefaultLimit \in 1 .. MaxLimit
    /\ MaxPages \in Nat /\ MaxBatch \in Nat

(* No tenant and no id of an event is the empty string.                    *)
ASSUME NoneAssumption == None \notin Tenants \cup ClientIDs \cup Nat

Moments == Int \cup {None}

Filter ==
    [tenant: Tenants \cup {None}, contract: ContractIDs \cup {None},
     status: Statuses \cup {None}, occurredAfter: Moments, occurredBefore: Moments,
     receivedAfter: Moments, receivedBefore: Moments]

AnyEvent ==
    [tenant |-> None, contract |-> None, status |-> None, occurredAfter |-> None,
     occurredBefore |-> None, receivedAfter |-> None, receivedBefore |-> None]

ASSUME FilterAssumption == Filters \subseteq Filter

VARIABLES
    walk,    \* a client that reads a listing page by page
    batch,   \* the batch each goroutine is working on
    view     \* what a client of GET /events/{id} is about to be shown

queries == <<walk, batch, view>>
allVars == <<vars, queries>>

(* A ReplayResult: the status of the receipt, or the error.                *)
Outcomes == Statuses \cup {"quota exceeded", "cannot be replayed", "not found"}

Walk ==
    [step: {"idle", "reading", "done"}, filter: Filter \cup {None}, limit: Int,
     cursor: IDs \cup {None}, pages: Nat,
     listed: Seq(IDs),       \* what the pages have shown
     first: SUBSET IDs,      \* what matched when the first page was read
     disturbed: BOOLEAN]     \* since then an event was processed again or
                             \* a receipt replaced

Batch == [tenant: Tenants \cup {None}, letters: Seq(Nat), results: Seq(Outcomes)]

(* The attempt the receipt names, 0 for none, and the attempts made.       *)
View == [id: IDs, receipt: Nat \cup {None}, attempts: (SUBSET Nat) \cup {None}]

NoWalk == [step |-> "idle", filter |-> None, limit |-> 0, cursor |-> None, pages |-> 0,
           listed |-> <<>>, first |-> {}, disturbed |-> FALSE]

NoBatch == [tenant |-> None, letters |-> <<>>, results |-> <<>>]

QueryTypeOK ==
    /\ TypeOK
    /\ walk \in Walk
    /\ batch \in [Threads -> Batch]
    /\ \A th \in Threads : Len(batch[th].results) <= Len(batch[th].letters)
    /\ view \in View \cup {None}

QueryInit ==
    /\ Init
    /\ walk = NoWalk
    /\ batch = [th \in Threads |-> NoBatch]
    /\ view = None

-----------------------------------------------------------------------------
(* FindEvents                                                              *)

(* The status sEventStatus may return for an event.                        *)
EventStatuses(id) == {seen[k].status : k \in {k \in DOMAIN seen : seen[k].event = id}}

(* A bound that is not given does not restrict; a given one is exclusive.  *)
Within(at, after, before) ==
    /\ after # None => at > after
    /\ before # None => at < before

(* matchesEvent without the status; the partition key and the text search, *)
(* which look at fields the model leaves out, are further tests like these.*)
MatchesEvent(e, filter) ==
    /\ filter.tenant # None => e.tenant = filter.tenant
    /\ filter.contract # None => e.contract = filter.contract
    /\ Within(e.occurred, filter.occurredAfter, filter.occurredBefore)
    /\ Within(e.received, filter.receivedAfter, filter.receivedBefore)

(* The sets of events that a query may find: an event with receipts of     *)
(* both statuses may or may not match a filter on the status.              *)
Matching(filter) ==
    LET found == {id \in DOMAIN events : MatchesEvent(events[id], filter)} IN
    IF filter.status = None THEN {found}
    ELSE {S \in SUBSET {id \in found : filter.status \in EventStatuses(id)} :
             {id \in found : EventStatuses(id) = {filter.status}} \subseteq S}

(* The order of a listing: by time of receipt, then by id.                 *)
Precedes(a, b) ==
    \/ events[a].received < events[b].received
    \/ events[a].received = events[b].received /\ IDRank[a] < IDRank[b]

(* sort.Slice: the k-th item has k - 1 before it.                          *)
Sorted(found) ==
    [k \in 1 .. Cardinality(found) |->
        CHOOSE a \in found : Cardinality({b \in found : Precedes(b, a)}) = k - 1]

PageLimit(n) ==
    IF n < 1 THEN DefaultLimit ELSE IF n > MaxLimit THEN MaxLimit ELSE n

MutCursorIndexInclusive(items, cursor) ==
    IF \E i \in DOMAIN items : items[i] = cursor
    THEN (CHOOSE i \in DOMAIN items : items[i] = cursor) - 1
    ELSE 0

(* How many items come before the page: up to the cursor, or none when the *)
(* cursor is not among the items.                                          *)
CursorIndex(items, cursor) ==
    IF \E i \in DOMAIN items : items[i] = cursor
    THEN CHOOSE i \in DOMAIN items : items[i] = cursor
    ELSE 0

FindEvents(found, limit, cursor) ==
    LET items == Sorted(found)
        start == CursorIndex(items, cursor)
        end   == Min({start + PageLimit(limit), Len(items)}) IN
    [items |-> SubSeq(items, start + 1, end),
     next  |-> IF end < Len(items) THEN items[end] ELSE None]

(* A client lists events: the first page has no cursor, a further page has *)
(* the cursor the last one gave, and no cursor ends the listing.  A page   *)
(* that is lost on the way is asked for again, which changes nothing.      *)
FirstPage(filter, limit) ==
    /\ walk.step = "idle" /\ view = None
    /\ MaxPages > 0
    /\ \E found \in Matching(filter) :
          LET page == FindEvents(found, limit, None) IN
          walk' = [step |-> IF page.next = None THEN "done" ELSE "reading",
                   filter |-> filter, limit |-> limit, cursor |-> page.next, pages |-> 1,
                   listed |-> page.items, first |-> found, disturbed |-> FALSE]
    /\ UNCHANGED <<vars, batch, view>>

NextPage ==
    /\ walk.step = "reading"
    /\ walk.pages < MaxPages
    /\ \E found \in Matching(walk.filter) :
          LET page == FindEvents(found, walk.limit, walk.cursor) IN
          walk' = [walk EXCEPT !.step   = IF page.next = None THEN "done" ELSE "reading",
                               !.cursor = page.next,
                               !.pages  = @ + 1,
                               !.listed = @ \o page.items]
    /\ UNCHANGED <<vars, batch, view>>

(* What a step of the service means for the client that is reading.        *)
Watched ==
    walk' = IF /\ walk.step # "idle"
               /\ \/ \E id \in DOMAIN attempts : attempts'[id] # attempts[id]
                  \/ \E k \in DOMAIN seen : seen'[k] # seen[k]
            THEN [walk EXCEPT !.disturbed = TRUE]
            ELSE walk

-----------------------------------------------------------------------------
(* getEvent                                                                *)

ReceiptsOf(id) ==
    LET named == {seen[k].attempt : k \in {k \in DOMAIN seen : seen[k].event = id}} IN
    IF named = {} THEN {0} ELSE named

AttemptIDs(id) == {attempts[id][i].id : i \in DOMAIN attempts[id]}

MutReadEventAttemptsFirst(out) ==
    IF out.attempts = None
    THEN {[out EXCEPT !.attempts = AttemptIDs(out.id)]}
    ELSE {[out EXCEPT !.receipt = r] : r \in ReceiptsOf(out.id)}

(* GetEvent looks for a receipt, then Attempts lists the attempts: the     *)
(* results each may add to what was read.                                  *)
ReadEvent(out) ==
    IF out.receipt = None
    THEN {[out EXCEPT !.receipt = r] : r \in ReceiptsOf(out.id)}
    ELSE {[out EXCEPT !.attempts = AttemptIDs(out.id)]}

(* An event of another tenant is not found.                                *)
GetEvent(t, id) ==
    /\ walk.step = "idle" /\ view = None
    /\ events[id].tenant = t
    /\ view' \in ReadEvent([id |-> id, receipt |-> None, attempts |-> None])
    /\ UNCHANGED <<vars, walk, batch>>

(* The answer is a member of ReadEvent(view).                              *)
AnswerEvent ==
    /\ view # None
    /\ view' = None
    /\ UNCHANGED <<vars, walk, batch>>

-----------------------------------------------------------------------------
(* Summary                                                                 *)

MutSummarisedEveryContract(t, c) == {id \in DOMAIN events : events[id].tenant = t}

(* The events that Summary counts; no contract id means all contracts.     *)
Summarised(t, c) ==
    {id \in DOMAIN events : events[id].tenant = t /\ (c # None => events[id].contract = c)}

(* The summaries Summary may return, with the receipt it happens to take   *)
(* for each event.  Duplicate is never counted: Publish marks only the     *)
(* copy of a receipt that it returns.                                      *)
Summaries(t, c) ==
    LET counted == Summarised(t, c)
        Status  == (UNION {EventStatuses(id) : id \in counted}) \cup {None}
        choices == {f \in [counted -> Status] : \A id \in counted :
                       f[id] \in IF EventStatuses(id) = {} THEN {None} ELSE EventStatuses(id)} IN
    {[total |-> Cardinality(counted),
      accepted |-> Cardinality({id \in counted : f[id] = "accepted"}),
      deadLettered |-> Cardinality({id \in counted : f[id] = "dead_lettered"})] : f \in choices}

-----------------------------------------------------------------------------
(* ReplayManyForTenant                                                     *)

InBatch(th) == Len(batch[th].results) < Len(batch[th].letters)

Item(th) == batch[th].letters[Len(batch[th].results) + 1]

Report(th, outcome) ==
    batch' = [batch EXCEPT ![th].results = Append(@, outcome)]

(* A batch of letter ids; 0 stands for an id that is blank or unknown.     *)
BatchBegin(th, t, wanted) ==
    /\ job[th].step = "idle" /\ ~InBatch(th)
    /\ requests < MaxRequests
    /\ wanted # <<>>
    /\ batch' = [batch EXCEPT ![th] = [tenant |-> t, letters |-> wanted, results |-> <<>>]]
    /\ UNCHANGED <<vars, walk, view>>

Addressed(th, l) == l \in DOMAIN letters /\ letters[l].tenant = batch[th].tenant

MutBatchNotFoundGoesOn(th) ==
    /\ job[th].step = "idle" /\ InBatch(th)
    /\ ~Addressed(th, Item(th))
    /\ batch' = [batch EXCEPT ![th].results = @ \o <<"not found", "not found">>]
    /\ UNCHANGED <<vars, walk, view>>

(* The letter is not there or belongs to another tenant.                   *)
BatchNotFound(th) ==
    /\ job[th].step = "idle" /\ InBatch(th)
    /\ ~Addressed(th, Item(th))
    /\ Report(th, "not found")
    /\ UNCHANGED <<vars, walk, view>>

(* Replay finds that the letter can not be replayed.                       *)
BatchRefused(th) ==
    /\ job[th].step = "idle" /\ InBatch(th)
    /\ Addressed(th, Item(th))
    /\ ~CanReplay(letters[Item(th)])
    /\ Report(th, "cannot be replayed")
    /\ UNCHANGED <<vars, walk, view>>

(* replayOne calls Replay.  The letter was looked up under a lock of its   *)
(* own; letters stay and keep their tenant, so that one step will do.      *)
BatchReplay(th) ==
    /\ InBatch(th)
    /\ Addressed(th, Item(th))
    /\ ReplayBegin(th, Item(th))
    /\ UNCHANGED queries

MutBatchReportAlwaysAccepted(th) ==
    IF InBatch(th) THEN Report(th, "accepted") ELSE UNCHANGED batch

(* What Replay returned: a receipt, or the error of a refused event, which *)
(* was not validated and has no reasons.                                   *)
Outcome(th) ==
    IF job[th].ok THEN "accepted"
    ELSE IF job[th].reasons # {} THEN "dead_lettered" ELSE "quota exceeded"

(* The replay returns to the batch it is part of.                          *)
BatchReport(th) ==
    IF InBatch(th) THEN Report(th, Outcome(th)) ELSE UNCHANGED batch

-----------------------------------------------------------------------------
(* A goroutine works on its batch, or is free for another request.         *)
RequestStep(th) ==
    /\ ~InBatch(th)
    /\ \/ \E r \in Requests : Receive(th, r)
       \/ \E l \in DOMAIN letters : ReplayBegin(th, l)
    /\ UNCHANGED queries

PublishStep(th) ==
    /\ \/ AnswerDuplicate(th) \/ RejectQuota(th) \/ Admit(th)
       \/ Lookup(th) \/ SnapshotRules(th) \/ Commit(th)
    /\ Watched
    /\ UNCHANGED <<batch, view>>

FinishStep(th) == ReplayFinish(th) /\ BatchReport(th) /\ UNCHANGED <<walk, view>>

BatchStep(th) ==
    \/ \E t \in Tenants, n \in 1 .. MaxBatch :
          \E wanted \in [1 .. n -> DOMAIN letters \cup {0}] : BatchBegin(th, t, wanted)
    \/ BatchNotFound(th) \/ BatchRefused(th) \/ BatchReplay(th)

OtherStep ==
    /\ \/ \E k \in StoreKeys, published \in Publications : RegistryChanges(k, published)
       \/ \E c \in ContractIDs, enabled \in SUBSET Rules : RulesChange(c, enabled)
       \/ Tick
    /\ UNCHANGED queries

QueryNext ==
    \/ \E th \in Threads :
          RequestStep(th) \/ PublishStep(th) \/ FinishStep(th) \/ BatchStep(th)
    \/ \E filter \in Filters, limit \in Limits : FirstPage(filter, limit)
    \/ NextPage
    \/ \E t \in Readers, id \in DOMAIN events : GetEvent(t, id)
    \/ AnswerEvent
    \/ OtherStep

QuerySpec == QueryInit /\ [][QueryNext]_allVars

-----------------------------------------------------------------------------
(* Properties                                                              *)

(* Every event has one status: it was not replayed with another result,    *)
(* and its receipt was not overwritten by a concurrent request with the    *)
(* same key.                                                               *)
Settled ==
    \A id \in DOMAIN events : Cardinality(EventStatuses(id)) = 1

(* A listing read page by page is complete: when between its pages no      *)
(* event was processed again and no receipt replaced and, for a filter on  *)
(* the status, every event has one, it shows every event that matched at   *)
(* its start, none twice, and in the order of receipt, whatever was        *)
(* received meanwhile, late commits of early events included               *)
(* (query.go:18-56, 101-111).                                              *)
ListingComplete ==
    walk.step = "done" /\ ~walk.disturbed /\ (walk.filter.status # None => Settled) =>
        /\ walk.first \subseteq Range(walk.listed)
        /\ \A i, j \in DOMAIN walk.listed : i < j => Precedes(walk.listed[i], walk.listed[j])

(* The answer for a single event is consistent although it reads twice:    *)
(* the attempt its receipt names is among the attempts it lists, when a    *)
(* replay commits in between too.  Read the other way round it would not   *)
(* be (server.go:301-306, query.go:144-157, service.go:181-185).           *)
ReceiptAmongAttempts ==
    [][AnswerEvent => \A out \in ReadEvent(view) : out.receipt \in out.attempts \cup {0}]_allVars

(* Whichever receipts it takes, the summary of a tenant adds up: every     *)
(* event of the tenant is counted once, as accepted or as dead-lettered,   *)
(* and the total is that of a listing.  It holds while requests are served *)
(* one after the other; a receipt may otherwise be overwritten             *)
(* (query.go:159-206, service.go:94).                                      *)
SummaryAddsUp ==
    \A t \in Tenants, c \in ContractIDs \cup {None} : \A s \in Summaries(t, c) :
        /\ s.accepted + s.deadLettered = s.total
        /\ \A found \in Matching([AnyEvent EXCEPT !.tenant = t, !.contract = c]) :
              s.total = Cardinality(found)

Count(seq, x) == Cardinality({i \in DOMAIN seq : seq[i] = x})

ResultsFor(b, l, outcomes) ==
    Cardinality({i \in DOMAIN b.results : b.letters[i] = l /\ b.results[i] \in outcomes})

Failed == {"dead_lettered", "quota exceeded"}

(* A batch tells the truth about each of its letters, one named twice      *)
(* included: as many successes and failures as it reports are in the audit *)
(* trail of the letter, and a letter reported as beyond replay is so       *)
(* (README.md:38-40; query.go:228-255).                                    *)
BatchResultsAudited ==
    \A th \in Threads : \A l \in DOMAIN letters :
        LET b == batch[th] IN
        /\ ResultsFor(b, l, {"accepted"}) <= Count(letters[l].audit, "replay_succeeded")
        /\ ResultsFor(b, l, Failed) <= Count(letters[l].audit, "replay_failed")
        /\ ResultsFor(b, l, {"cannot be replayed"}) > 0 => ~CanReplay(letters[l])
=============================================================================
