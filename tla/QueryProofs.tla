---------------------------- MODULE QueryProofs ----------------------------
(***************************************************************************)
(* Theorems about the queries and batches that run beside ingestion: they  *)
(* take no step of their own in the service, an answer that is read twice  *)
(* agrees with itself, a batch reports what the letters' audit trails say, *)
(* a summary adds up, and a listing that nobody disturbs is complete.      *)
(***************************************************************************)
EXTENDS EventQuery, SequentialProofs, FunctionTheorems

-----------------------------------------------------------------------------
(* Queries and the service                                                 *)

(* A step that may change the service is one of its own.                   *)
LEMMA QueryStep == [QueryNext]_allVars => [Next]_vars
<1> SUFFICES ASSUME [QueryNext]_allVars PROVE [Next]_vars
  OBVIOUS
<1>1. ASSUME NEW th \in Threads, RequestStep(th) \/ PublishStep(th) \/ FinishStep(th)
      PROVE  Next
  BY <1>1 DEF RequestStep, PublishStep, FinishStep, Next, ThreadStep
<1>2. ASSUME NEW th \in Threads, BatchStep(th)
      PROVE  [Next]_vars
  <2>1. CASE BatchReplay(th)
    BY <2>1 DEF BatchReplay, Addressed, Next
  <2>2. CASE ~BatchReplay(th)
    BY <1>2, <2>2 DEF BatchStep, BatchBegin, BatchNotFound, BatchRefused
  <2> QED BY <2>1, <2>2
<1>3. ASSUME OtherStep PROVE Next
  BY <1>3 DEF OtherStep, Next
<1>4. ASSUME \/ \E filter \in Filters, limit \in Limits : FirstPage(filter, limit)
             \/ NextPage
             \/ \E t \in Readers, id \in DOMAIN events : GetEvent(t, id)
             \/ AnswerEvent
             \/ UNCHANGED allVars
      PROVE  UNCHANGED vars
  BY <1>4 DEF FirstPage, NextPage, GetEvent, AnswerEvent, allVars
<1> QED BY <1>1, <1>2, <1>3, <1>4 DEF QueryNext

(* Whatever is listed, looked up or replayed in batches, the service runs  *)
(* as it does without: every theorem about Ingestion holds here.           *)
THEOREM QueriesLeaveServiceAlone == QuerySpec => Spec
<1>1. QueryInit => Init
  BY DEF QueryInit
<1> QED BY <1>1, QueryStep, PTL DEF QuerySpec, Spec

-----------------------------------------------------------------------------
(* The answer for a single event                                           *)

(* What was read for the answer: an event with attempts, and a receipt of  *)
(* one of them or none.                                                    *)
ViewInv ==
    view # None =>
        \E id \in DOMAIN attempts, r \in Nat :
            /\ view = [id |-> id, receipt |-> r, attempts |-> None]
            /\ r \in AttemptIDs(id) \cup {0}

(* The receipt of an event names one of its attempts.                      *)
LEMMA ReceiptsShown ==
    ASSUME TypeInv, StoresAgree, NEW id, NEW r \in ReceiptsOf(id)
    PROVE  r \in Nat /\ r \in AttemptIDs(id) \cup {0}
<1>1. CASE r = 0
  BY <1>1
<1>2. CASE r # 0
  <2>1. PICK k \in DOMAIN seen : seen[k].event = id /\ seen[k].attempt = r
    BY <1>2 DEF ReceiptsOf
  <2>2. seen[k] \in Receipt
    BY DEF TypeInv, TypeOK
  <2>3. PICK i \in DOMAIN attempts[id] :
           attempts[id][i] = [id |-> r, status |-> seen[k].status, reasons |-> seen[k].reasons]
    BY <2>1 DEF StoresAgree, ReceiptsBacked
  <2>4. attempts[id][i].id = r
    BY <2>3
  <2> QED BY <2>1, <2>2, <2>3, <2>4 DEF Receipt, AttemptIDs
<1> QED BY <1>1, <1>2

(* No attempt of an event is forgotten.                                    *)
LEMMA AttemptIDsKept ==
    ASSUME TypeInv, [Next]_vars, NEW id \in DOMAIN attempts
    PROVE  id \in DOMAIN attempts' /\ AttemptIDs(id) \subseteq AttemptIDs(id)'
<1>1. CASE \E th \in Threads : Commit(th)
  <2>1. PICK x \in LogEntry : Records(x)
    BY <1>1, CommitRecords
  <2>2. CASE id = x.sent.id
    <3>1. \A i \in DOMAIN attempts[id] : i \in DOMAIN attempts'[id] /\ attempts'[id][i] = attempts[id][i]
      BY <2>1, <2>2, AttemptsGrow
    <3>2. id \in DOMAIN attempts'
      BY <2>1, AttemptsGrow
    <3>3. ASSUME NEW n \in AttemptIDs(id) PROVE n \in AttemptIDs(id)'
      <4>1. PICK i \in DOMAIN attempts[id] : n = attempts[id][i].id
        BY <3>3 DEF AttemptIDs
      <4>2. i \in DOMAIN attempts'[id] /\ n = attempts'[id][i].id
        BY <3>1, <4>1
      <4> QED BY <4>2 DEF AttemptIDs
    <3> QED BY <3>2, <3>3
  <2>3. CASE id # x.sent.id
    <3>1. id \in DOMAIN attempts' /\ attempts'[id] = attempts[id]
      BY <2>1, <2>3, AttemptsGrow
    <3> QED BY <3>1 DEF AttemptIDs
  <2> QED BY <2>2, <2>3
<1>2. CASE attempts' = attempts
  BY <1>2 DEF AttemptIDs
<1> QED BY <1>1, <1>2, OnlyCommitRecords

(* Only a request for an event sets up an answer.                          *)
LEMMA ViewsSet ==
    ASSUME [QueryNext]_allVars
    PROVE  \/ view' = view \/ view' = None
           \/ \E t \in Readers, id \in DOMAIN events : GetEvent(t, id)
<1>1. ASSUME NEW th \in Threads, RequestStep(th) \/ PublishStep(th) \/ FinishStep(th)
      PROVE  view' = view
  BY <1>1 DEF RequestStep, PublishStep, FinishStep, queries
<1>2. ASSUME NEW th \in Threads, BatchStep(th)
      PROVE  view' = view
  BY <1>2 DEF BatchStep, BatchBegin, BatchNotFound, BatchRefused, BatchReplay, queries
<1>3. ASSUME \/ \E filter \in Filters, limit \in Limits : FirstPage(filter, limit)
             \/ NextPage \/ OtherStep \/ UNCHANGED allVars
      PROVE  view' = view
  BY <1>3 DEF FirstPage, NextPage, OtherStep, allVars, queries
<1>4. ASSUME AnswerEvent PROVE view' = None
  BY <1>4 DEF AnswerEvent
<1> QED BY <1>1, <1>2, <1>3, <1>4 DEF QueryNext

(* What was read stays true while others write.                            *)
LEMMA ViewStep == TypeInv /\ StoresAgree /\ ViewInv /\ [QueryNext]_allVars => ViewInv'
<1> SUFFICES ASSUME TypeInv, StoresAgree, ViewInv, [QueryNext]_allVars, view' # None
             PROVE  ViewInv'
  BY DEF ViewInv
<1>1. CASE view' = view
  <2>1. PICK id \in DOMAIN attempts, r \in Nat :
           /\ view = [id |-> id, receipt |-> r, attempts |-> None]
           /\ r \in AttemptIDs(id) \cup {0}
    BY <1>1 DEF ViewInv
  <2>2. id \in DOMAIN attempts' /\ AttemptIDs(id) \subseteq AttemptIDs(id)'
    BY QueryStep, AttemptIDsKept
  <2> QED BY <1>1, <2>1, <2>2 DEF ViewInv
<1>2. ASSUME NEW t \in Readers, NEW id \in DOMAIN events, GetEvent(t, id)
      PROVE  ViewInv'
  <2>1. PICK r \in ReceiptsOf(id) : view' = [id |-> id, receipt |-> r, attempts |-> None]
    BY <1>2 DEF GetEvent, ReadEvent
  <2>2. r \in Nat /\ r \in AttemptIDs(id) \cup {0}
    BY ReceiptsShown
  <2>3. id \in DOMAIN attempts
    BY DEF StoresAgree, LineageIsCurrent
  <2>4. attempts' = attempts
    BY <1>2 DEF GetEvent, vars
  <2> QED BY <2>1, <2>2, <2>3, <2>4 DEF ViewInv, AttemptIDs
<1> QED BY <1>1, <1>2, ViewsSet

(* What was read is true always.                                           *)
LEMMA ViewInvariant == QuerySpec => []ViewInv
<1>1. QueryInit => ViewInv
  BY DEF QueryInit, ViewInv
<1>2. Spec => []StoresAgree
  BY StoresInit, StoresStep, TypeInvariant, PTL DEF Spec
<1> QED BY <1>1, <1>2, ViewStep, TypeInvariant, QueriesLeaveServiceAlone, PTL DEF QuerySpec

(* The response for an event takes two locks and still agrees with itself, *)
(* whatever is committed between them: the attempt of its receipt is one   *)
(* it lists (server.go:301-306, query.go:144-157, service.go:181-185).     *)
THEOREM AnswersAgree == QuerySpec => ReceiptAmongAttempts
<1> DEFINE Agrees == AnswerEvent => \A out \in ReadEvent(view) : out.receipt \in out.attempts \cup {0}
<1>1. ViewInv => Agrees
  <2> SUFFICES ASSUME ViewInv, AnswerEvent, NEW out \in ReadEvent(view)
               PROVE  out.receipt \in out.attempts \cup {0}
    OBVIOUS
  <2>1. PICK id \in DOMAIN attempts, r \in Nat :
           /\ view = [id |-> id, receipt |-> r, attempts |-> None]
           /\ r \in AttemptIDs(id) \cup {0}
    BY DEF ViewInv, AnswerEvent
  <2>2. view.receipt # None
    BY <2>1, NoneAssumption
  <2>3. out = [view EXCEPT !.attempts = AttemptIDs(view.id)]
    BY <2>2 DEF ReadEvent
  <2> QED BY <2>1, <2>3
<1> HIDE DEF Agrees
<1>2. QuerySpec => [][Agrees]_allVars
  BY <1>1, ViewInvariant, PTL
<1> QED BY <1>2 DEF ReceiptAmongAttempts, Agrees

-----------------------------------------------------------------------------
(* Batches of replays                                                      *)

(* What a batch b reports of the letter l, against the letter itself.      *)
Honest(b, l, letter) ==
    /\ ResultsFor(b, l, {"accepted"}) <= Count(letter.audit, "replay_succeeded")
    /\ ResultsFor(b, l, Failed) <= Count(letter.audit, "replay_failed")
    /\ ResultsFor(b, l, {"cannot be replayed"}) > 0 => ~CanReplay(letter)

(* A goroutine that works on a batch is busy with the letter that comes    *)
(* next, and its letters are there or were never.                          *)
BatchOf(th) ==
    /\ Len(batch[th].results) <= Len(batch[th].letters)
    /\ \A i \in DOMAIN batch[th].letters : batch[th].letters[i] \in DOMAIN letters \cup {0}
    /\ InBatch(th) /\ job[th].step # "idle" => job[th].letter = Item(th)
    /\ \A l \in DOMAIN letters : Honest(batch[th], l, letters[l])

BatchInv == batch \in [Threads -> Batch] /\ \A th \in Threads : BatchOf(th)

Entries(s, x) == {i \in DOMAIN s : s[i] = x}

Reported(b, l, outcomes) ==
    {i \in DOMAIN b.results : b.letters[i] = l /\ b.results[i] \in outcomes}

(* The places of a sequence are finitely many, so are those chosen of them.*)
LEMMA PlacesChosen ==
    ASSUME NEW S, NEW s \in Seq(S), NEW T \in SUBSET DOMAIN s
    PROVE  IsFiniteSet(T) /\ Cardinality(T) \in Nat
<1>1. Len(s) \in Nat /\ DOMAIN s = 1 .. Len(s)
  BY LenProperties
<1>2. ASSUME NEW n \in Nat PROVE IsFiniteSet(1 .. n)
  BY FS_Interval
<1>3. IsFiniteSet(T)
  BY <1>1, <1>2, FS_Subset
<1> QED BY <1>3, FS_CardinalityType

(* Appending an entry adds one to its count and nothing to others.         *)
LEMMA CountAppended ==
    ASSUME NEW S, NEW s \in Seq(S), NEW x \in S, NEW y
    PROVE  /\ Count(s, y) \in Nat
           /\ Count(Append(s, x), y) = Count(s, y) + IF x = y THEN 1 ELSE 0
<1> DEFINE t == Append(s, x)
           n == Len(s) + 1
<1>1. Len(s) \in Nat /\ DOMAIN s = 1 .. Len(s)
  BY LenProperties
<1>2. DOMAIN t = 1 .. n /\ t[n] = x /\ \A i \in 1 .. Len(s) : t[i] = s[i]
  BY AppendProperties, LenProperties
<1> HIDE DEF t
<1>3. IsFiniteSet(Entries(s, y)) /\ Count(s, y) \in Nat /\ Count(s, y) = Cardinality(Entries(s, y))
  BY PlacesChosen DEF Entries, Count
<1>4. n \notin Entries(s, y)
  BY <1>1 DEF Entries
<1>5. x = y => Cardinality(Entries(t, y)) = Cardinality(Entries(s, y)) + 1
  <2>1. x = y => Entries(t, y) = Entries(s, y) \cup {n}
    BY <1>1, <1>2 DEF Entries
  <2> QED BY <1>3, <1>4, <2>1, FS_AddElement
<1>6. x # y => Cardinality(Entries(t, y)) = Cardinality(Entries(s, y))
  <2>1. x # y => Entries(t, y) = Entries(s, y)
    BY <1>1, <1>2 DEF Entries
  <2> QED BY <2>1
<1>7. Count(t, y) = Cardinality(Entries(t, y))
  BY DEF Count, Entries
<1> QED BY <1>3, <1>5, <1>6, <1>7 DEF t

(* Counting by one.                                                        *)
LEMMA OneMore == \A i, j \in Nat : (i <= j => i + 1 <= j + 1) /\ (i < j => i + 1 <= j)
  OBVIOUS

(* A set with one more member.                                             *)
LEMMA CardinalityMore ==
    ASSUME NEW S, IsFiniteSet(S), NEW x, x \notin S
    PROVE  Cardinality(S \cup {x}) = Cardinality(S) + 1
  BY FS_AddElement

(* A sequence with one more entry.                                         *)
LEMMA LengthMore ==
    ASSUME NEW S, NEW s \in Seq(S), NEW x \in S
    PROVE  Append(s, x) \in Seq(S) /\ Len(Append(s, x)) = Len(s) + 1
  BY AppendProperties

(* A report makes a batch of a batch.                                      *)
LEMMA ReportType ==
    ASSUME NEW b \in Batch, Len(b.results) < Len(b.letters), NEW o \in Outcomes,
           NEW c, c = [b EXCEPT !.results = Append(@, o)]
    PROVE  c \in Batch /\ c.letters = b.letters /\ Len(c.results) <= Len(c.letters)
<1>1. b.results \in Seq(Outcomes) /\ b.letters \in Seq(Nat)
  BY DEF Batch
<1>2. Append(b.results, o) \in Seq(Outcomes) /\ Len(Append(b.results, o)) = Len(b.results) + 1
  BY <1>1, LengthMore, Zenon
<1>3. c \in Batch /\ c.results = Append(b.results, o) /\ c.letters = b.letters
  BY <1>2 DEF Batch
<1>4. Len(b.results) \in Nat /\ Len(b.letters) \in Nat
  BY <1>1, LenProperties, Zenon
<1> QED BY <1>2, <1>3, <1>4, OneMore, Zenon

(* The batch c has the result o more than b for the letter l, or no other. *)
CountsMore(b, c, l, o) ==
    \A p : /\ o \in p => ResultsFor(c, l, p) = ResultsFor(b, l, p) + 1
           /\ o \notin p => ResultsFor(c, l, p) = ResultsFor(b, l, p)

CountsSame(b, c, l) == \A p : ResultsFor(c, l, p) = ResultsFor(b, l, p)

(* A report is about the letter that comes next.                           *)
LEMMA ReportCounts ==
    ASSUME NEW b \in Batch, Len(b.results) < Len(b.letters), NEW o \in Outcomes,
           NEW c, c = [b EXCEPT !.results = Append(@, o)], NEW l
    PROVE  /\ b.letters[Len(b.results) + 1] = l => CountsMore(b, c, l, o)
           /\ b.letters[Len(b.results) + 1] # l => CountsSame(b, c, l)
<1> SUFFICES ASSUME NEW p
             PROVE  /\ b.letters[Len(b.results) + 1] = l /\ o \in p =>
                          ResultsFor(c, l, p) = ResultsFor(b, l, p) + 1
                    /\ b.letters[Len(b.results) + 1] # l \/ o \notin p =>
                          ResultsFor(c, l, p) = ResultsFor(b, l, p)
  BY Zenon DEF CountsMore, CountsSame
<1> DEFINE n == Len(b.results) + 1
<1>1. b.results \in Seq(Outcomes)
  BY DEF Batch
<1>2. Len(b.results) \in Nat /\ DOMAIN b.results = 1 .. Len(b.results)
  BY <1>1, LenProperties
<1>3. c.results = Append(b.results, o) /\ c.letters = b.letters
  BY DEF Batch
<1>4. DOMAIN c.results = 1 .. n /\ c.results[n] = o
      /\ \A i \in 1 .. Len(b.results) : c.results[i] = b.results[i]
  BY <1>1, <1>3, AppendProperties, LenProperties
<1>5. /\ IsFiniteSet(Reported(b, l, p)) /\ ResultsFor(b, l, p) \in Nat
      /\ ResultsFor(b, l, p) = Cardinality(Reported(b, l, p))
  BY <1>1, PlacesChosen DEF Reported, ResultsFor
<1>6. n \notin Reported(b, l, p)
  BY <1>2 DEF Reported
<1>7. b.letters[n] = l /\ o \in p =>
         Cardinality(Reported(c, l, p)) = Cardinality(Reported(b, l, p)) + 1
  <2>1. b.letters[n] = l /\ o \in p => Reported(c, l, p) = Reported(b, l, p) \cup {n}
    BY <1>2, <1>3, <1>4 DEF Reported
  <2> QED BY <1>5, <1>6, <2>1, CardinalityMore, Zenon
<1>8. ~(b.letters[n] = l /\ o \in p) =>
         Cardinality(Reported(c, l, p)) = Cardinality(Reported(b, l, p))
  <2>1. ~(b.letters[n] = l /\ o \in p) => Reported(c, l, p) = Reported(b, l, p)
    BY <1>2, <1>3, <1>4 DEF Reported
  <2> QED BY <2>1
<1>9. ResultsFor(c, l, p) = Cardinality(Reported(c, l, p))
  BY DEF ResultsFor, Reported
<1> QED BY <1>5, <1>7, <1>8, <1>9

(* Nothing is reported of a letter that the batch does not name, and       *)
(* nothing at all before the first result.                                 *)
LEMMA NothingReported ==
    ASSUME NEW b \in Batch, Len(b.results) <= Len(b.letters), NEW l, NEW letter \in Letter,
           b.results = <<>> \/ \A i \in DOMAIN b.letters : b.letters[i] # l
    PROVE  Honest(b, l, letter)
<1>1. b.results \in Seq(Outcomes) /\ b.letters \in Seq(Nat) /\ letter.audit \in Seq(AuditActions)
  BY DEF Batch, Letter
<1>2. DOMAIN b.results \subseteq DOMAIN b.letters
  BY <1>1, LenProperties
<1>3. ASSUME NEW p PROVE ResultsFor(b, l, p) = 0
  <2>1. Reported(b, l, p) = {}
    BY <1>1, <1>2 DEF Reported
  <2> QED BY <2>1, FS_EmptySet DEF ResultsFor, Reported
<1>4. ASSUME NEW y PROVE Count(letter.audit, y) \in Nat
  BY <1>1, PlacesChosen DEF Count
<1>5. \A n \in Nat : 0 <= n /\ ~(0 > 0)
  OBVIOUS
<1> QED BY <1>3, <1>4, <1>5, Zenon DEF Honest

(* What a batch has said of a letter goes on to be true of the letter m    *)
(* that it becomes.                                                        *)
Outlives(l, m) ==
    /\ Count(l.audit, "replay_succeeded") <= Count(m.audit, "replay_succeeded")
    /\ Count(l.audit, "replay_failed") <= Count(m.audit, "replay_failed")
    /\ ~CanReplay(l) => ~CanReplay(m)

(* One more replay that begins or ends: the audit gains an entry, and a    *)
(* letter beyond replay stays so, because poisoned means spent.            *)
LEMMA ReplaysOutlive ==
    ASSUME NEW l \in Letter, NEW flight, Budgeted(l, flight), NEW ok \in BOOLEAN
    PROVE  /\ Outlives(l, l)
           /\ CanReplay(l) => Outlives(l, BeginReplay(l))
           /\ Outlives(l, FinishReplay(l, ok))
           /\ Count(FinishReplay(l, ok).audit, IF ok THEN "replay_succeeded" ELSE "replay_failed") =
                 Count(l.audit, IF ok THEN "replay_succeeded" ELSE "replay_failed") + 1
<1> DEFINE ended == IF ok THEN "replay_succeeded" ELSE "replay_failed"
           begun == BeginReplay(l)
           done  == FinishReplay(l, ok)
<1>1. l.audit \in Seq(AuditActions) /\ "replay_started" \in AuditActions /\ ended \in AuditActions
  BY DEF Letter, AuditActions
<1>2. begun.audit = Append(l.audit, "replay_started") /\ done.audit = Append(l.audit, ended)
  BY DEF BeginReplay, FinishReplay, Letter
<1>3. ASSUME NEW y
      PROVE  /\ Count(l.audit, y) \in Nat
             /\ Count(begun.audit, y) = Count(l.audit, y) + IF "replay_started" = y THEN 1 ELSE 0
             /\ Count(done.audit, y) = Count(l.audit, y) + IF ended = y THEN 1 ELSE 0
  BY <1>1, <1>2, CountAppended
<1>4. ASSUME NEW y
      PROVE  Count(l.audit, y) <= Count(begun.audit, y) /\ Count(l.audit, y) <= Count(done.audit, y)
             /\ Count(l.audit, y) <= Count(l.audit, y)
  BY <1>3
<1>5. Count(done.audit, ended) = Count(l.audit, ended) + 1
  BY <1>3
<1>6. ~CanReplay(l) => ~CanReplay(done)
  <2>1. l.max \in Nat /\ l.attempts \in Nat /\ done.max = l.max /\ done.attempts = l.attempts
    BY DEF FinishReplay, Letter
  <2>2. ~CanReplay(l) => l.attempts >= l.max
    BY <2>1 DEF CanReplay, Budgeted
  <2> QED BY <2>1, <2>2 DEF CanReplay
<1> HIDE DEF begun, done, ended
<1>7. Outlives(l, l) /\ Outlives(l, done) /\ (CanReplay(l) => Outlives(l, begun))
  BY <1>4, <1>6, Zenon DEF Outlives
<1> QED BY <1>5, <1>7 DEF begun, done, ended

(* The truth about a letter is true of what it becomes.                    *)
LEMMA HonestOutlives ==
    ASSUME NEW b \in Batch, NEW l, NEW before \in Letter, NEW after \in Letter,
           Honest(b, l, before), Outlives(before, after)
    PROVE  Honest(b, l, after)
<1>1. /\ b.results \in Seq(Outcomes)
      /\ before.audit \in Seq(AuditActions) /\ after.audit \in Seq(AuditActions)
  BY DEF Batch, Letter
<1>2. ASSUME NEW p, NEW y
      PROVE  /\ ResultsFor(b, l, p) \in Nat
             /\ Count(before.audit, y) \in Nat /\ Count(after.audit, y) \in Nat
  BY <1>1, PlacesChosen DEF ResultsFor, Count
<1>3. \A i, j, k \in Nat : i <= j /\ j <= k => i <= k
  OBVIOUS
<1> QED BY <1>2, <1>3, Zenon DEF Honest, Outlives

(* Every step of the service leaves letters that outlive those before.     *)
LEMMA LettersOutlive ==
    ASSUME TypeInv, LetterInv, ReplayInv, [Next]_vars, NEW l \in DOMAIN letters
    PROVE  l \in DOMAIN letters' /\ Outlives(letters[l], letters'[l])
<1>1. \A k \in DOMAIN letters : letters[k] \in Letter /\ Budgeted(letters[k], InFlight(k))
  BY DEF TypeInv, TypeOK, ReplayInv
<1>2. Outlives(letters[l], letters[l])
  BY <1>1, ReplaysOutlive
<1>3. ASSUME NEW th \in Threads, NEW k \in DOMAIN letters, ReplayBegin(th, k)
      PROVE  l \in DOMAIN letters' /\ Outlives(letters[l], letters'[l])
  <2>1. letters' = [letters EXCEPT ![k] = BeginReplay(letters[k])] /\ CanReplay(letters[k])
    BY <1>3 DEF ReplayBegin
  <2>2. Outlives(letters[k], BeginReplay(letters[k]))
    BY <1>1, <2>1, ReplaysOutlive
  <2> QED BY <1>2, <2>1, <2>2
<1>4. ASSUME NEW th \in Threads, ReplayFinish(th)
      PROVE  l \in DOMAIN letters' /\ Outlives(letters[l], letters'[l])
  <2> DEFINE k == job[th].letter
  <2>1. letters' = [letters EXCEPT ![k] = FinishReplay(letters[k], job[th].ok)]
    BY <1>4 DEF ReplayFinish
  <2>2. job[th].ok \in BOOLEAN
    BY DEF TypeInv, TypeOK, Job
  <2>3. k \in DOMAIN letters => Outlives(letters[k], FinishReplay(letters[k], job[th].ok))
    BY <1>1, <2>2, ReplaysOutlive
  <2> HIDE DEF k
  <2> QED BY <1>2, <2>1, <2>3
<1>5. ASSUME NEW th \in Threads, Commit(th)
      PROVE  l \in DOMAIN letters' /\ Outlives(letters[l], letters'[l])
  <2>1. PICK x \in LogEntry : Records(x)
    BY <1>5, CommitRecords
  <2>2. l \in DOMAIN letters' /\ letters'[l] = letters[l]
    BY <2>1, LettersGrow DEF LetterInv
  <2> QED BY <1>2, <2>2
<1>6. \/ \E th \in Threads, k \in DOMAIN letters : ReplayBegin(th, k)
      \/ \E th \in Threads : ReplayFinish(th) \/ Commit(th)
      \/ UNCHANGED letters
  BY DEF Next, ThreadStep, Receive, AnswerDuplicate, RejectQuota, Admit, Lookup,
         SnapshotRules, RegistryChanges, RulesChange, Tick, vars, service
<1> QED BY <1>2, <1>3, <1>4, <1>5, <1>6

(* A letter that was not there has an id that no batch could name.         *)
LEMMA NewLetters ==
    ASSUME TypeInv, LetterInv, [Next]_vars, NEW l \in DOMAIN letters', l \notin DOMAIN letters
    PROVE  l # 0
<1>1. CASE \E th \in Threads : Commit(th)
  <2>1. PICK x \in LogEntry : Records(x)
    BY <1>1, CommitRecords
  <2>2. l = x.letter /\ Failure(x)
    BY <2>1, LettersGrow DEF LetterInv
  <2> QED BY <2>1, <2>2 DEF Records, TypeInv, TypeOK
<1>2. CASE ~ \E th \in Threads : Commit(th)
  BY <1>2, LettersStay
<1> QED BY <1>1, <1>2

(* A batch that did not change keeps telling the truth.                    *)
LEMMA BatchFrame ==
    ASSUME TypeInv, LetterInv, ReplayInv, TypeInv', BatchInv, [Next]_vars, NEW x \in Threads,
           batch'[x] = batch[x],
           InBatch(x) /\ job'[x].step # "idle" => job'[x].letter = Item(x)
    PROVE  BatchOf(x)'
<1> DEFINE b == batch[x]
<1>1. b \in Batch /\ BatchOf(x)
  BY DEF BatchInv
<1>2. \A l \in DOMAIN letters : l \in DOMAIN letters' /\ Outlives(letters[l], letters'[l])
  BY LettersOutlive
<1>3. ASSUME NEW l \in DOMAIN letters'
      PROVE  Honest(b, l, letters'[l])
  <2>1. letters'[l] \in Letter
    BY <1>3 DEF TypeInv, TypeOK
  <2>2. CASE l \in DOMAIN letters
    <3>1. Honest(b, l, letters[l]) /\ Outlives(letters[l], letters'[l])
      BY <1>1, <1>2, <2>2 DEF BatchOf
    <3>2. letters[l] \in Letter
      BY <2>2 DEF TypeInv, TypeOK
    <3> QED BY <1>1, <2>1, <3>1, <3>2, HonestOutlives
  <2>3. CASE l \notin DOMAIN letters
    <3>1. l # 0
      BY <1>3, <2>3, NewLetters
    <3>2. \A i \in DOMAIN b.letters : b.letters[i] # l
      BY <1>1, <2>3, <3>1 DEF BatchOf
    <3>3. Len(b.results) <= Len(b.letters)
      BY <1>1 DEF BatchOf
    <3> QED BY <1>1, <2>1, <3>2, <3>3, NothingReported
  <2> QED BY <2>2, <2>3
<1>4. \A i \in DOMAIN b.letters : b.letters[i] \in DOMAIN letters' \cup {0}
  BY <1>1, <1>2 DEF BatchOf
<1>5. InBatch(x)' <=> InBatch(x)
  BY DEF InBatch
<1>6. Item(x)' = Item(x)
  BY DEF Item
<1>7. Len(b.results) <= Len(b.letters)
  BY <1>1 DEF BatchOf
<1> QED BY <1>3, <1>4, <1>5, <1>6, <1>7 DEF BatchOf

(* A step of Publish keeps the letter its goroutine replays and leaves the *)
(* other goroutines alone.                                                 *)
LEMMA PublishKeeps ==
    ASSUME TypeInv, NEW th \in Threads,
           \/ AnswerDuplicate(th) \/ RejectQuota(th) \/ Admit(th)
           \/ Lookup(th) \/ SnapshotRules(th) \/ Commit(th)
    PROVE  /\ job[th].step # "idle" /\ job'[th].letter = job[th].letter
           /\ \A x \in Threads : x # th => job'[x] = job[x]
<1>1. job \in [Threads -> Job]
  BY DEF TypeInv, TypeOK
<1>2. CASE Commit(th)
  <2>1. job[th].step # "idle" /\ \E ok : Return(th, ok)
    BY <1>2 DEF Commit
  <2>2. job'[th].letter = job[th].letter
    BY <2>1, ReturnLeaves
  <2>3. \A x \in Threads : x # th => job'[x] = job[x]
    BY <1>1, <2>1 DEF Return
  <2> QED BY <2>1, <2>2, <2>3
<1>3. CASE \/ AnswerDuplicate(th) \/ RejectQuota(th) \/ Admit(th)
           \/ Lookup(th) \/ SnapshotRules(th)
  <2>1. job[th].step # "idle" /\ job'[th].letter = job[th].letter
    BY <1>3, LocalStep DEF Validating
  <2>2. \E new : job' = [job EXCEPT ![th] = new]
    BY <1>3 DEF AnswerDuplicate, RejectQuota, Admit, Lookup, SnapshotRules, Return
  <2>3. \A x \in Threads : x # th => job'[x] = job[x]
    BY <1>1, <2>2
  <2> QED BY <2>1, <2>3
<1> QED BY <1>2, <1>3

(* Starting a request or a replay concerns one goroutine.                  *)
LEMMA BeginsOne ==
    ASSUME TypeInv, NEW th \in Threads,
           \/ \E r \in Requests : Receive(th, r)
           \/ \E l \in DOMAIN letters : ReplayBegin(th, l)
           \/ ReplayFinish(th)
    PROVE  \A x \in Threads : x # th => job'[x] = job[x]
<1>1. job \in [Threads -> Job]
  BY DEF TypeInv, TypeOK
<1>2. \E new : job' = [job EXCEPT ![th] = new]
  BY DEF Receive, ReplayBegin, ReplayFinish
<1> QED BY <1>1, <1>2

(* The audit of a letter has one more entry y than before.                 *)
Gained(before, after, y) == Count(after.audit, y) = Count(before.audit, y) + 1

(* What a letter shows when the result o is reported of it.                *)
Shows(before, after, o) ==
    /\ o = "accepted" => Gained(before, after, "replay_succeeded")
    /\ o \in Failed => Gained(before, after, "replay_failed")
    /\ o = "cannot be replayed" => ~CanReplay(after)

(* One more result of a letter is true when the letter shows it.           *)
LEMMA ReportIsHonest ==
    ASSUME NEW b \in Batch, NEW c, NEW l, NEW o, NEW before \in Letter, NEW after \in Letter,
           Honest(b, l, before), Honest(b, l, after),
           CountsMore(b, c, l, o), Shows(before, after, o)
    PROVE  Honest(c, l, after)
<1>1. b.results \in Seq(Outcomes) /\ before.audit \in Seq(AuditActions)
  BY DEF Batch, Letter
<1>2. ASSUME NEW p, NEW y
      PROVE  ResultsFor(b, l, p) \in Nat /\ Count(before.audit, y) \in Nat
  BY <1>1, PlacesChosen DEF ResultsFor, Count
<1>3. ASSUME NEW p, NEW y, o \in p => Gained(before, after, y),
             ResultsFor(b, l, p) <= Count(before.audit, y),
             ResultsFor(b, l, p) <= Count(after.audit, y)
      PROVE  ResultsFor(c, l, p) <= Count(after.audit, y)
  BY <1>2, <1>3, OneMore, Zenon DEF Gained, CountsMore
<1>4. ResultsFor(c, l, {"accepted"}) <= Count(after.audit, "replay_succeeded")
  BY <1>3, Zenon DEF Honest, Shows
<1>5. ResultsFor(c, l, Failed) <= Count(after.audit, "replay_failed")
  BY <1>3, Zenon DEF Honest, Shows
<1>6. ResultsFor(c, l, {"cannot be replayed"}) > 0 => ~CanReplay(after)
  BY Zenon DEF Honest, Shows, CountsMore
<1> QED BY <1>4, <1>5, <1>6, Zenon DEF Honest

(* A report in the batch of th, and what it means for th and for others.   *)
LEMMA ReportsHonestly ==
    ASSUME TypeInv, LetterInv, ReplayInv, TypeInv', BatchInv, [Next]_vars,
           NEW th \in Threads, InBatch(th), NEW o \in Outcomes, Report(th, o),
           job'[th].step = "idle",
           Item(th) \in DOMAIN letters => Shows(letters[Item(th)], letters'[Item(th)], o)
    PROVE  batch' \in [Threads -> Batch] /\ BatchOf(th)'
<1> DEFINE b == batch[th]
           c == [b EXCEPT !.results = Append(@, o)]
<1>1. b \in Batch /\ BatchOf(th) /\ batch \in [Threads -> Batch]
  BY DEF BatchInv
<1>2. Len(b.results) < Len(b.letters)
  BY DEF InBatch
<1>3. batch' = [batch EXCEPT ![th] = c]
  BY <1>1, Zenon DEF Report
<1>4. c \in Batch /\ c.letters = b.letters /\ Len(c.results) <= Len(c.letters)
  BY <1>1, <1>2, ReportType, Zenon
<1> HIDE DEF c
<1>5. batch' \in [Threads -> Batch] /\ batch'[th] = c
  BY <1>1, <1>3, <1>4
<1>6. \A l \in DOMAIN letters : l \in DOMAIN letters' /\ Outlives(letters[l], letters'[l])
  BY LettersOutlive
<1>7. \A i \in DOMAIN c.letters : c.letters[i] \in DOMAIN letters' \cup {0}
  BY <1>1, <1>4, <1>6 DEF BatchOf
<1>8. ASSUME NEW l \in DOMAIN letters'
       PROVE  Honest(c, l, letters'[l])
  <2>1. letters'[l] \in Letter
    BY <1>8 DEF TypeInv, TypeOK
  <2>2. CASE l \notin DOMAIN letters
    <3>1. l # 0
      BY <1>8, <2>2, NewLetters
    <3>2. \A i \in DOMAIN c.letters : c.letters[i] # l
      BY <1>1, <1>4, <2>2, <3>1 DEF BatchOf
    <3> QED BY <1>4, <2>1, <3>2, NothingReported
  <2>3. CASE l \in DOMAIN letters
    <3>1. letters[l] \in Letter
      BY <2>3 DEF TypeInv, TypeOK
    <3>2. Honest(b, l, letters[l]) /\ Outlives(letters[l], letters'[l])
      BY <1>1, <1>6, <2>3 DEF BatchOf
    <3>3. Honest(b, l, letters'[l])
      BY <1>1, <2>1, <3>1, <3>2, HonestOutlives
    <3>4. (Item(th) = l => CountsMore(b, c, l, o)) /\ (Item(th) # l => CountsSame(b, c, l))
      <4>1. Item(th) = b.letters[Len(b.results) + 1]
        BY DEF Item
      <4> QED BY <1>1, <1>2, <4>1, ReportCounts, Zenon DEF c
    <3>5. CASE Item(th) # l
      BY <3>3, <3>4, <3>5, Zenon DEF Honest, CountsSame
    <3>6. CASE Item(th) = l
      <4>1. CountsMore(b, c, l, o) /\ Shows(letters[l], letters'[l], o)
        BY <2>3, <3>4, <3>6, Zenon
      <4> QED BY <1>1, <2>1, <3>1, <3>2, <3>3, <4>1, ReportIsHonest
    <3> QED BY <3>5, <3>6
  <2> QED BY <2>2, <2>3
<1> QED BY <1>4, <1>5, <1>7, <1>8 DEF BatchOf

(* A goroutine's report leaves the batches of others as they are.          *)
LEMMA ReportsOwn ==
    ASSUME BatchInv, NEW th \in Threads, NEW o, Report(th, o), NEW x \in Threads, x # th
    PROVE  batch'[x] = batch[x]
  BY DEF BatchInv, Report

(* The steps that change no batch and no goroutine's letter.               *)
LEMMA BatchesStay ==
    ASSUME TypeInv, LetterInv, ReplayInv, TypeInv', BatchInv, [Next]_vars, UNCHANGED batch,
           \A x \in Threads : InBatch(x) /\ job'[x].step # "idle" => job'[x].letter = Item(x)
    PROVE  BatchInv'
<1>1. ASSUME NEW x \in Threads PROVE BatchOf(x)'
  BY BatchFrame
<1>2. batch' \in [Threads -> Batch]
  BY DEF BatchInv
<1> QED BY <1>1, <1>2 DEF BatchInv

(* The steps that report a result.                                         *)
LEMMA BatchesReport ==
    ASSUME TypeInv, LetterInv, ReplayInv, TypeInv', BatchInv, [Next]_vars,
           NEW th \in Threads, InBatch(th), NEW o \in Outcomes, Report(th, o),
           job'[th].step = "idle", \A x \in Threads : x # th => job'[x] = job[x],
           Item(th) \in DOMAIN letters => Shows(letters[Item(th)], letters'[Item(th)], o)
    PROVE  BatchInv'
<1>1. batch' \in [Threads -> Batch] /\ BatchOf(th)'
  BY ReportsHonestly
<1>2. ASSUME NEW x \in Threads, x # th PROVE BatchOf(x)'
  <2>1. batch'[x] = batch[x]
    BY <1>2, ReportsOwn
  <2>2. InBatch(x) /\ job'[x].step # "idle" => job'[x].letter = Item(x)
    BY <1>2 DEF BatchInv, BatchOf
  <2> QED BY <2>1, <2>2, BatchFrame
<1> QED BY <1>1, <1>2 DEF BatchInv

(* Every step of QueryNext, with what it does to batches.                  *)
LEMMA BatchesKeep ==
    TypeInv /\ LetterInv /\ ReplayInv /\ TypeInv' /\ BatchInv /\ [QueryNext]_allVars => BatchInv'
<1> SUFFICES ASSUME TypeInv, LetterInv, ReplayInv, TypeInv', BatchInv, [QueryNext]_allVars
             PROVE  BatchInv'
  OBVIOUS
<1>a. [Next]_vars
  BY QueryStep
<1>b. \A x \in Threads : InBatch(x) /\ job[x].step # "idle" => job[x].letter = Item(x)
  BY DEF BatchInv, BatchOf
<1>c. \A k \in DOMAIN letters : letters[k] \in Letter /\ Budgeted(letters[k], InFlight(k))
  BY DEF TypeInv, TypeOK, ReplayInv
<1>d. job \in [Threads -> Job]
  BY DEF TypeInv, TypeOK
<1>1. ASSUME NEW th \in Threads, RequestStep(th) PROVE BatchInv'
  <2>1. ~InBatch(th) /\ UNCHANGED batch
    BY <1>1 DEF RequestStep, queries
  <2>2. \A x \in Threads : x # th => job'[x] = job[x]
    BY <1>1, BeginsOne DEF RequestStep
  <2> QED BY <1>a, <1>b, <2>1, <2>2, BatchesStay
<1>2. ASSUME NEW th \in Threads, PublishStep(th) PROVE BatchInv'
  <2>1. UNCHANGED batch
    BY <1>2 DEF PublishStep
  <2>2. /\ job[th].step # "idle" /\ job'[th].letter = job[th].letter
        /\ \A x \in Threads : x # th => job'[x] = job[x]
    BY <1>2, PublishKeeps DEF PublishStep
  <2>3. ASSUME NEW x \in Threads, InBatch(x), job'[x].step # "idle" PROVE job'[x].letter = Item(x)
    BY <1>b, <2>2, <2>3
  <2> QED BY <1>a, <2>1, <2>3, BatchesStay
<1>3. ASSUME NEW th \in Threads, FinishStep(th) PROVE BatchInv'
  <2>1. ReplayFinish(th) /\ BatchReport(th)
    BY <1>3 DEF FinishStep
  <2>2. \A x \in Threads : x # th => job'[x] = job[x]
    BY <2>1, BeginsOne
  <2>3. job[th].step = "finish" /\ job' = [job EXCEPT ![th] = IdleJob]
    BY <2>1 DEF ReplayFinish
  <2>4. job'[th].step = "idle"
    BY <1>d, <2>3 DEF IdleJob
  <2>5. CASE ~InBatch(th)
    <3>1. UNCHANGED batch
      BY <2>1, <2>5 DEF BatchReport
    <3> QED BY <1>a, <1>b, <2>2, <2>5, <3>1, BatchesStay
  <2>6. CASE InBatch(th)
    <3> DEFINE o == Outcome(th)
               l == Item(th)
    <3>1. Report(th, o) /\ o \in Outcomes
      BY <2>1, <2>6 DEF BatchReport, Outcome, Outcomes, Statuses
    <3>2. job[th].letter = l
      BY <1>b, <2>3, <2>6
    <3>3. letters' = [letters EXCEPT ![l] = FinishReplay(letters[l], job[th].ok)]
      BY <2>1, <3>2 DEF ReplayFinish
    <3>4. job[th].ok \in BOOLEAN
      BY <1>d DEF Job
    <3>5. ASSUME l \in DOMAIN letters PROVE Shows(letters[l], letters'[l], o)
      <4>1. letters'[l] = FinishReplay(letters[l], job[th].ok)
        BY <3>3, <3>5
      <4>2. Gained(letters[l], letters'[l], IF job[th].ok THEN "replay_succeeded" ELSE "replay_failed")
        BY <1>c, <3>4, <3>5, <4>1, ReplaysOutlive DEF Gained
      <4> QED BY <3>4, <4>2 DEF Shows, Outcome, Failed
    <3> QED BY <1>a, <2>2, <2>4, <2>6, <3>1, <3>5, BatchesReport
  <2> QED BY <2>5, <2>6
<1>4. ASSUME NEW th \in Threads, BatchStep(th) PROVE BatchInv'
  <2>1. ASSUME NEW t \in Tenants, NEW n \in 1 .. MaxBatch,
               NEW wanted \in [1 .. n -> DOMAIN letters \cup {0}], BatchBegin(th, t, wanted)
        PROVE  BatchInv'
    <3> DEFINE b == [tenant |-> t, letters |-> wanted, results |-> <<>>]
    <3>1. batch \in [Threads -> Batch] /\ batch' = [batch EXCEPT ![th] = b]
      BY <2>1 DEF BatchInv, BatchBegin
    <3>2. DOMAIN letters \subseteq Nat
      BY DEF TypeInv, TypeOK
    <3>3. n \in Nat
      BY QueryAssumption
    <3>4. wanted \in Seq(Nat) /\ Len(wanted) = n /\ DOMAIN wanted = 1 .. n
      BY <3>2, <3>3
    <3>5. b \in Batch /\ Len(b.results) = 0
      BY <3>4 DEF Batch
    <3>6. UNCHANGED <<letters, job>> /\ job[th].step = "idle"
      BY <2>1 DEF BatchBegin, vars
    <3>7. ASSUME NEW l \in DOMAIN letters PROVE Honest(b, l, letters[l])
      <4>1. b.results = <<>> /\ Len(b.results) <= Len(b.letters)
        BY <3>3, <3>4, <3>5
      <4> QED BY <1>c, <3>5, <4>1, NothingReported
    <3> HIDE DEF b
    <3>8. batch' \in [Threads -> Batch] /\ batch'[th] = b /\ \A x \in Threads : x # th => batch'[x] = batch[x]
      BY <3>1, <3>5
    <3>9. BatchOf(th)'
      BY <3>3, <3>4, <3>5, <3>6, <3>7, <3>8 DEF BatchOf, b
    <3>10. ASSUME NEW x \in Threads, x # th PROVE BatchOf(x)'
      BY <1>a, <1>b, <3>6, <3>8, <3>10, BatchFrame
    <3> QED BY <3>8, <3>9, <3>10 DEF BatchInv
  <2>2. CASE BatchNotFound(th)
    <3>1. /\ InBatch(th) /\ Report(th, "not found") /\ UNCHANGED job /\ job[th].step = "idle"
      BY <2>2 DEF BatchNotFound, vars
    <3>2. "not found" \in Outcomes /\ \A k, m : Shows(k, m, "not found")
      BY DEF Outcomes, Shows, Failed
    <3> QED BY <1>a, <3>1, <3>2, BatchesReport
  <2>3. CASE BatchRefused(th)
    <3>1. /\ InBatch(th) /\ Report(th, "cannot be replayed") /\ job[th].step = "idle"
          /\ ~CanReplay(letters[Item(th)]) /\ UNCHANGED <<job, letters>>
      BY <2>3 DEF BatchRefused, vars
    <3>2. /\ "cannot be replayed" \in Outcomes
          /\ \A k, m : ~CanReplay(m) => Shows(k, m, "cannot be replayed")
      BY DEF Outcomes, Shows, Failed
    <3>3. Shows(letters[Item(th)], letters'[Item(th)], "cannot be replayed")
      BY <3>1, <3>2
    <3> QED BY <1>a, <3>1, <3>2, <3>3, BatchesReport
  <2>4. CASE BatchReplay(th)
    <3>1. Item(th) \in DOMAIN letters /\ ReplayBegin(th, Item(th)) /\ UNCHANGED batch
      BY <2>4 DEF BatchReplay, Addressed, queries
    <3>2. \A x \in Threads : x # th => job'[x] = job[x]
      BY <3>1, BeginsOne
    <3>3. job'[th].letter = Item(th)
      BY <1>d, <3>1 DEF ReplayBegin, IdleJob
    <3> QED BY <1>a, <1>b, <3>1, <3>2, <3>3, BatchesStay
  <2> QED BY <1>4, <2>1, <2>2, <2>3, <2>4 DEF BatchStep
<1>5. ASSUME \/ \E filter \in Filters, limit \in Limits : FirstPage(filter, limit)
             \/ NextPage \/ OtherStep \/ AnswerEvent \/ UNCHANGED allVars
             \/ \E t \in Readers, id \in DOMAIN events : GetEvent(t, id)
      PROVE  BatchInv'
  <2>1. UNCHANGED <<batch, job>>
    BY <1>5 DEF FirstPage, NextPage, OtherStep, AnswerEvent, GetEvent, allVars, vars, queries,
                RegistryChanges, RulesChange, Tick
  <2> QED BY <1>a, <1>b, <2>1, BatchesStay
<1> QED BY <1>1, <1>2, <1>3, <1>4, <1>5 DEF QueryNext

(* Batches agree with their letters always.                                *)
LEMMA BatchInvariant == QuerySpec => []BatchInv
<1>1. QueryInit => BatchInv
  <2> SUFFICES ASSUME QueryInit PROVE BatchInv
    OBVIOUS
  <2>1. DOMAIN letters = {} /\ batch = [th \in Threads |-> NoBatch]
    BY DEF QueryInit, Init, EmptyMap
  <2>2. NoBatch \in Batch /\ Len(NoBatch.results) = 0 /\ Len(NoBatch.letters) = 0
        /\ DOMAIN NoBatch.letters = {}
    BY DEF NoBatch, Batch
  <2> QED BY <2>1, <2>2 DEF BatchInv, BatchOf, InBatch
<1> QED BY <1>1, BatchesKeep, TypeInvariant, LettersInvariant, ReplayInvariant,
           QueriesLeaveServiceAlone, PTL DEF QuerySpec

(* A batch tells the truth about each of its letters, however its replays  *)
(* overlap with other replays of them (query.go:228-255).                  *)
THEOREM BatchesTellTruth == QuerySpec => []BatchResultsAudited
<1>1. BatchInv => BatchResultsAudited
  BY DEF BatchInv, BatchOf, BatchResultsAudited, Honest
<1> QED BY <1>1, BatchInvariant, PTL

-----------------------------------------------------------------------------
(* Summaries                                                               *)

(* Every stored event has a receipt that names it.                         *)
ReceiptsKept ==
    /\ IsFiniteSet(DOMAIN events)
    /\ \A id \in DOMAIN events : \E k \in DOMAIN seen : seen[k].event = id

(* Served one after the other, no request writes over the receipt of       *)
(* another: the key it stores under is still free.                         *)
LEMMA ReceiptsKeptStep ==
    TypeInv /\ SerialInv /\ ReceiptsKept /\ [Next]_vars => ReceiptsKept'
<1> SUFFICES ASSUME TypeInv, SerialInv, ReceiptsKept, [Next]_vars PROVE ReceiptsKept'
  OBVIOUS
<1>1. ASSUME NEW th \in Threads, Commit(th) PROVE ReceiptsKept'
  <2> DEFINE e == job[th].event
  <2>1. job[th].step = "commit"
    BY <1>1 DEF Commit
  <2>2. SeenKey(e) \notin DOMAIN seen
    BY <2>1 DEF SerialInv, Validating
  <2>3. PICK r : seen' = Put(seen, SeenKey(e), r) /\ r.event = e.id
    BY <1>1 DEF Commit
  <2>4. events' = Put(events, e.id, e)
    BY <1>1 DEF Commit
  <2>5. DOMAIN events' = DOMAIN events \cup {e.id}
    BY <2>4 DEF Put
  <2>6. IsFiniteSet(DOMAIN events')
    BY <2>5, FS_AddElement DEF ReceiptsKept
  <2>7. /\ DOMAIN seen' = DOMAIN seen \cup {SeenKey(e)} /\ seen'[SeenKey(e)].event = e.id
        /\ \A k \in DOMAIN seen : seen'[k] = seen[k]
    BY <2>2, <2>3 DEF Put
  <2> HIDE DEF e
  <2>8. ASSUME NEW id \in DOMAIN events' PROVE \E k \in DOMAIN seen' : seen'[k].event = id
    <3>1. CASE id = e.id
      BY <2>7, <3>1
    <3>2. CASE id # e.id
      BY <2>5, <2>7, <3>2 DEF ReceiptsKept
    <3> QED BY <3>1, <3>2
  <2> QED BY <2>6, <2>8 DEF ReceiptsKept
<1>2. CASE ~ \E th \in Threads : Commit(th)
  <2>1. UNCHANGED <<events, seen>>
    BY <1>2, OnlyCommitRecords
  <2> QED BY <2>1 DEF ReceiptsKept
<1> QED BY <1>1, <1>2

Marked(S, f, a) == {x \in S : f[x] = a}

(* Where everything has one of two marks, the marks add up to the whole.   *)
LEMMA TwoKinds ==
    ASSUME NEW S, IsFiniteSet(S), NEW f, NEW a, NEW d, a # d,
           \A x \in S : f[x] = a \/ f[x] = d
    PROVE  Cardinality(Marked(S, f, a)) + Cardinality(Marked(S, f, d)) = Cardinality(S)
<1> DEFINE A == Marked(S, f, a)
           D == Marked(S, f, d)
<1>1. A \cup D = S /\ A \cap D = {} /\ A \subseteq S /\ D \subseteq S
  BY DEF Marked
<1> HIDE DEF A, D
<1>2. IsFiniteSet(A) /\ IsFiniteSet(D)
  BY <1>1, FS_Subset
<1>3. Cardinality(A) \in Nat /\ Cardinality(D) \in Nat /\ Cardinality({}) = 0
  BY <1>2, FS_CardinalityType, FS_EmptySet
<1>4. Cardinality(S) = Cardinality(A) + Cardinality(D) - 0
  BY <1>1, <1>2, <1>3, FS_Union
<1> QED BY <1>3, <1>4 DEF A, D

(* Whichever receipts it takes, a summary adds up and counts the events a  *)
(* listing would, while requests are served one after the other            *)
(* (query.go:159-206).                                                     *)
THEOREM SummariesAddUp ==
    ASSUME OneAtATime
    PROVE  QuerySpec => []SummaryAddsUp
<1>1. Init => ReceiptsKept
  BY FS_EmptySet DEF Init, EmptyMap, ReceiptsKept
<1>2. Spec => []ReceiptsKept
  BY <1>1, ReceiptsKeptStep, TypeInvariant, SerialInvariant, PTL DEF Spec
<1>3. TypeInv /\ ReceiptsKept => SummaryAddsUp
  <2> SUFFICES ASSUME TypeInv, ReceiptsKept,
                      NEW t \in Tenants, NEW c \in ContractIDs \cup {None}, NEW s \in Summaries(t, c)
               PROVE  /\ s.accepted + s.deadLettered = s.total
                      /\ \A found \in Matching([AnyEvent EXCEPT !.tenant = t, !.contract = c]) :
                            s.total = Cardinality(found)
    BY DEF SummaryAddsUp
  <2> DEFINE counted == Summarised(t, c)
  <2>1. PICK f :
          /\ \A id \in counted :
                f[id] \in IF EventStatuses(id) = {} THEN {None} ELSE EventStatuses(id)
          /\ s = [total |-> Cardinality(counted),
                  accepted |-> Cardinality({id \in counted : f[id] = "accepted"}),
                  deadLettered |-> Cardinality({id \in counted : f[id] = "dead_lettered"})]
    BY DEF Summaries
  <2>2. ASSUME NEW id \in counted PROVE f[id] = "accepted" \/ f[id] = "dead_lettered"
    <3>1. PICK k \in DOMAIN seen : seen[k].event = id
      BY DEF Summarised, ReceiptsKept
    <3>2. EventStatuses(id) # {}
      BY <3>1 DEF EventStatuses
    <3>3. f[id] \in EventStatuses(id)
      BY <2>1, <3>2
    <3>4. EventStatuses(id) \subseteq Statuses
      BY DEF EventStatuses, TypeInv, TypeOK, Receipt
    <3> QED BY <3>3, <3>4 DEF Statuses
  <2>3. IsFiniteSet(counted)
    BY FS_Subset DEF Summarised, ReceiptsKept
  <2>4. s.accepted + s.deadLettered = s.total
    <3> HIDE DEF counted
    <3>1. Cardinality(Marked(counted, f, "accepted"))
            + Cardinality(Marked(counted, f, "dead_lettered")) = Cardinality(counted)
      BY <2>2, <2>3, TwoKinds
    <3> QED BY <2>1, <3>1 DEF Marked
  <2>5. ASSUME NEW found \in Matching([AnyEvent EXCEPT !.tenant = t, !.contract = c])
        PROVE  found = counted
    <3> DEFINE filter == [AnyEvent EXCEPT !.tenant = t, !.contract = c]
    <3>1. /\ filter.tenant = t /\ filter.contract = c /\ filter.status = None
          /\ filter.occurredAfter = None /\ filter.occurredBefore = None
          /\ filter.receivedAfter = None /\ filter.receivedBefore = None
      BY DEF AnyEvent
    <3> HIDE DEF filter
    <3>2. found = {id \in DOMAIN events : MatchesEvent(events[id], filter)}
      BY <2>5, <3>1 DEF Matching, filter
    <3>3. \A e : MatchesEvent(e, filter) <=> e.tenant = t /\ (c # None => e.contract = c)
      BY <3>1, NoneAssumption DEF MatchesEvent, Within
    <3> QED BY <3>2, <3>3 DEF Summarised
  <2> QED BY <2>1, <2>4, <2>5
<1> QED BY <1>2, <1>3, TypeInvariant, QueriesLeaveServiceAlone, PTL

-----------------------------------------------------------------------------
(* The ids of events                                                       *)

(* The goroutines that may still draw ids in Commit.                       *)
Busy == {th \in Threads : job[th].step \in Validating \cup {"admit"}}

KnownIDs == ClientIDs \cup (1 .. ids)

(* A request draws at most three ids, two of them in Commit, so the ids of *)
(* events have a place in the order of strings.                            *)
IDsInv ==
    /\ requests <= MaxRequests
    /\ IsFiniteSet(Busy) /\ ids + 2 * Cardinality(Busy) <= 3 * requests
    /\ IsFiniteSet(DOMAIN events) /\ DOMAIN events \subseteq KnownIDs
    /\ \A id \in DOMAIN events : events[id].id = id
    /\ \A th \in Threads : job[th].step # "idle" => job[th].event.id \in KnownIDs

(* A request that begins may draw three.                                   *)
LEMMA BeginDraws ==
    ASSUME TypeInv, IDsInv, NEW th \in Threads, job[th].step = "idle", NEW new,
           job' = [job EXCEPT ![th] = new], new.step = "admit",
           requests < MaxRequests, requests' = requests + 1, ids' = ids \/ ids' = ids + 1,
           new.event.id \in KnownIDs \/ (new.event.id = ids' /\ ids' = ids + 1), UNCHANGED events
    PROVE  IDsInv'
<1> DEFINE n == Cardinality(Busy)
<1>1. ids \in Nat /\ requests \in Nat /\ MaxRequests \in Nat /\ job \in [Threads -> Job]
  BY LimitAssumption DEF TypeInv, TypeOK
<1>2. IsFiniteSet(Busy) /\ n \in Nat /\ th \notin Busy
  BY FS_CardinalityType DEF IDsInv, Busy, Validating
<1>3. Busy' = Busy \cup {th}
  BY <1>1 DEF Busy
<1>4. IsFiniteSet(Busy') /\ Cardinality(Busy') = n + 1
  BY <1>2, <1>3, FS_AddElement
<1> HIDE DEF n
<1>5. ids + 2 * n <= 3 * requests
  BY DEF IDsInv, n
<1>6. requests' <= MaxRequests /\ ids' + 2 * (n + 1) <= 3 * requests'
  BY <1>1, <1>2, <1>5
<1>7. KnownIDs \subseteq KnownIDs' /\ (ids' = ids + 1 => ids' \in KnownIDs')
  BY <1>1 DEF KnownIDs
<1>8. \A x \in Threads : job'[x].step # "idle" => job'[x].event.id \in KnownIDs'
  BY <1>1, <1>7 DEF IDsInv
<1> QED BY <1>4, <1>6, <1>7, <1>8 DEF IDsInv

(* Every step keeps the count, goroutines in any number.                   *)
LEMMA IDsStep == TypeInv /\ IDsInv /\ [Next]_vars => IDsInv'
<1> SUFFICES ASSUME TypeInv, IDsInv, [Next]_vars PROVE IDsInv'
  OBVIOUS
<1> DEFINE n == Cardinality(Busy)
<1>1. ids \in Nat /\ requests \in Nat /\ MaxRequests \in Nat /\ job \in [Threads -> Job]
  BY LimitAssumption DEF TypeInv, TypeOK
<1>2. IsFiniteSet(Busy) /\ n \in Nat /\ ids + 2 * n <= 3 * requests /\ requests <= MaxRequests
  BY FS_CardinalityType DEF IDsInv
<1>3. ASSUME NEW th \in Threads, NEW r \in Requests, Receive(th, r) PROVE IDsInv'
  <2> DEFINE new == [IdleJob EXCEPT !.step = "admit", !.event = Arrived(r), !.start = clock]
  <2>1. /\ job[th].step = "idle" /\ job' = [job EXCEPT ![th] = new] /\ requests < MaxRequests
        /\ requests' = requests + 1 /\ ids' = IF r.id = None THEN ids + 1 ELSE ids
        /\ UNCHANGED events
    BY <1>3 DEF Receive, service
  <2>2. new.step = "admit" /\ new.event.id = IF r.id = None THEN ids + 1 ELSE r.id
    BY DEF IdleJob, Arrived
  <2>3. r.id # None => r.id \in ClientIDs
    BY RequestAssumption
  <2> HIDE DEF new
  <2> QED BY <2>1, <2>2, <2>3, BeginDraws DEF KnownIDs
<1>4. ASSUME NEW th \in Threads, NEW l \in DOMAIN letters, ReplayBegin(th, l) PROVE IDsInv'
  <2> DEFINE e   == events[letters[l].event]
             new == [IdleJob EXCEPT !.step = "admit", !.letter = l, !.start = clock,
                                    !.event = [e EXCEPT !.key = <<ids + 1>>, !.received = clock]]
  <2>1. /\ job[th].step = "idle" /\ job' = [job EXCEPT ![th] = new] /\ requests < MaxRequests
        /\ requests' = requests + 1 /\ ids' = ids + 1 /\ UNCHANGED events
    BY <1>4 DEF ReplayBegin, IdleJob
  <2>2. letters[l].event \in DOMAIN events
    BY DEF TypeInv, LetterEventsStored
  <2>3. e \in Event /\ e.id = letters[l].event
    BY <2>2 DEF TypeInv, TypeOK, IDsInv
  <2>4. new.step = "admit" /\ new.event.id = e.id
    BY <2>3 DEF IdleJob, Event
  <2>5. e.id \in KnownIDs
    BY <2>2, <2>3 DEF IDsInv
  <2> HIDE DEF new
  <2> QED BY <2>1, <2>4, <2>5, BeginDraws
<1>5. ASSUME NEW th \in Threads, ThreadStep(th)
      PROVE  \A x \in Threads : job'[x].step # "idle" => job[x].step # "idle" /\ job'[x].event = job[x].event
  <2>1. CASE ReplayFinish(th)
    BY <1>1, <2>1 DEF ReplayFinish, IdleJob
  <2>2. CASE ~ReplayFinish(th)
    <3>1. job[th].step # "idle" /\ \A x \in Threads : x # th => job'[x] = job[x]
      BY <1>5, <2>2, PublishKeeps DEF ThreadStep
    <3>2. job'[th].step # "idle" => job'[th].event = job[th].event
      <4>1. CASE \E ok : Return(th, ok)
        BY <1>1, <4>1 DEF Return, IdleJob, Job
      <4>2. CASE Admit(th) \/ Lookup(th) \/ SnapshotRules(th)
        <5>1. \E step \in Validating : job'[th].step = step
          <6>1. CASE Admit(th)
            BY <1>1, <6>1 DEF Admit, Validating, Job
          <6>2. CASE SnapshotRules(th)
            BY <1>1, <6>2 DEF SnapshotRules, Validating, Job
          <6>3. CASE Lookup(th)
            <7>1. \E step \in Validating : \E reasons :
                     job' = [job EXCEPT ![th] = [@ EXCEPT !.step = step, !.reasons = reasons]]
              BY <6>3 DEF Lookup, Validating
            <7> QED BY <1>1, <7>1 DEF Job
          <6> QED BY <4>2, <6>1, <6>2, <6>3
        <5> QED BY <4>2, <5>1, LocalStep
      <4> QED BY <1>5, <2>2, <4>1, <4>2 DEF ThreadStep, AnswerDuplicate, RejectQuota, Commit
    <3> QED BY <3>1, <3>2
  <2> QED BY <2>1, <2>2
<1>6. ASSUME NEW th \in Threads, Commit(th) PROVE IDsInv'
  <2> DEFINE e == job[th].event
  <2>1. /\ job[th].step = "commit" /\ events' = Put(events, e.id, e) /\ \E ok : Return(th, ok)
        /\ requests' = requests /\ (ids' = ids + 1 \/ ids' = ids + 2)
    BY <1>6 DEF Commit
  <2>2. job'[th].step \in {"idle", "finish"}
    BY <2>1, ReturnLeaves
  <2>3. \A x \in Threads : x # th => job'[x] = job[x]
    BY <1>6, PublishKeeps
  <2>4. Busy' = Busy \ {th} /\ th \in Busy
    BY <2>1, <2>2, <2>3 DEF Busy, Validating
  <2>5. IsFiniteSet(Busy') /\ Cardinality(Busy') = n - 1
    BY <1>2, <2>4, FS_RemoveElement
  <2> HIDE DEF n
  <2>6. ids' + 2 * (n - 1) <= 3 * requests' /\ requests' <= MaxRequests
    BY <1>1, <1>2, <2>1
  <2>7. KnownIDs \subseteq KnownIDs'
    BY <1>1, <2>1 DEF KnownIDs
  <2>8. e.id \in KnownIDs
    BY <2>1 DEF IDsInv
  <2>9. DOMAIN events' = DOMAIN events \cup {e.id}
    BY <2>1 DEF Put
  <2>10. IsFiniteSet(DOMAIN events') /\ DOMAIN events' \subseteq KnownIDs'
    <3>1. IsFiniteSet(DOMAIN events) /\ DOMAIN events \subseteq KnownIDs
      BY DEF IDsInv
    <3>2. IsFiniteSet(DOMAIN events \cup {e.id})
      BY <3>1, FS_AddElement
    <3>3. DOMAIN events \cup {e.id} \subseteq KnownIDs'
      BY <2>7, <2>8, <3>1
    <3> QED BY <2>9, <3>2, <3>3
  <2>11. \A id \in DOMAIN events' : events'[id].id = id
    BY <2>1, <2>9 DEF Put, IDsInv
  <2>12. \A x \in Threads : job'[x].step # "idle" => job'[x].event.id \in KnownIDs'
    BY <1>5, <1>6, <2>7 DEF ThreadStep, IDsInv
  <2> QED BY <2>5, <2>6, <2>10, <2>11, <2>12 DEF IDsInv
<1>7. ASSUME NEW th \in Threads, ThreadStep(th), ~Commit(th) PROVE IDsInv'
  <2>1. UNCHANGED <<ids, requests, events>>
    BY <1>7 DEF ThreadStep, AnswerDuplicate, RejectQuota, Admit, Lookup, SnapshotRules,
                ReplayFinish, service
  <2>2. Busy' \subseteq Busy
    <3>1. CASE ReplayFinish(th)
      BY <1>1, <3>1 DEF ReplayFinish, IdleJob, Busy, Validating
    <3>2. CASE ~ReplayFinish(th)
      <4>1. AnswerDuplicate(th) \/ RejectQuota(th) \/ Admit(th) \/ Lookup(th) \/ SnapshotRules(th)
        BY <1>7, <3>2 DEF ThreadStep
      <4>2. th \in Busy
        BY <4>1, LocalStep DEF Busy
      <4>3. \A x \in Threads : x # th => job'[x] = job[x]
        BY <4>1, PublishKeeps
      <4> QED BY <4>2, <4>3 DEF Busy
    <3> QED BY <3>1, <3>2
  <2>3. IsFiniteSet(Busy') /\ Cardinality(Busy') <= n
    BY <1>2, <2>2, FS_Subset
  <2>4. Cardinality(Busy') \in Nat
    BY <2>3, FS_CardinalityType
  <2> HIDE DEF n
  <2>5. ids' + 2 * Cardinality(Busy') <= 3 * requests'
    BY <1>1, <1>2, <2>1, <2>3, <2>4
  <2>6. KnownIDs' = KnownIDs
    BY <2>1 DEF KnownIDs
  <2>7. \A x \in Threads : job'[x].step # "idle" => job'[x].event.id \in KnownIDs'
    BY <1>5, <1>7, <2>6 DEF IDsInv
  <2> QED BY <2>1, <2>3, <2>5, <2>6, <2>7 DEF IDsInv
<1>8. CASE UNCHANGED <<ids, requests, job, events>>
  BY <1>8 DEF IDsInv, Busy, KnownIDs
<1> QED BY <1>3, <1>4, <1>6, <1>7, <1>8 DEF Next, RegistryChanges, RulesChange, Tick, vars, service

(* The ids are known always.                                               *)
LEMMA IDsInvariant == Spec => []IDsInv
<1>1. Init => IDsInv
  <2> SUFFICES ASSUME Init PROVE IDsInv
    OBVIOUS
  <2>1. Busy = {} /\ DOMAIN events = {} /\ ids = 0 /\ requests = 0
        /\ \A th \in Threads : job[th].step = "idle"
    BY DEF Init, Busy, Validating, IdleJob, EmptyMap
  <2>2. IsFiniteSet({}) /\ Cardinality({}) = 0
    BY FS_EmptySet
  <2> QED BY <2>1, <2>2, LimitAssumption DEF IDsInv
<1> QED BY <1>1, IDsStep, TypeInvariant, PTL DEF Spec

-----------------------------------------------------------------------------
(* The order of a listing                                                  *)

(* Events are ordered strictly and completely.                             *)
LEMMA EventsOrdered ==
    ASSUME TypeInv, IDsInv
    PROVE  /\ \A a \in DOMAIN events : ~Precedes(a, a)
           /\ \A a, b \in DOMAIN events : a # b => Precedes(a, b) \/ Precedes(b, a)
           /\ \A a, b, c \in DOMAIN events : Precedes(a, b) /\ Precedes(b, c) => Precedes(a, c)
<1>1. \A a \in DOMAIN events : events[a].received \in Int
  BY DEF TypeInv, TypeOK, Event
<1>2. DOMAIN events \subseteq ClientIDs \cup (1 .. 3 * MaxRequests)
  <2>1. ids \in Nat /\ requests \in Nat /\ MaxRequests \in Nat
    BY LimitAssumption DEF TypeInv, TypeOK
  <2>2. Cardinality(Busy) \in Nat
    BY FS_CardinalityType DEF IDsInv
  <2>3. ids <= 3 * MaxRequests
    BY <2>1, <2>2 DEF IDsInv
  <2> QED BY <2>1, <2>3 DEF IDsInv, KnownIDs
<1>3. /\ \A a \in DOMAIN events : IDRank[a] \in Int
      /\ \A a, b \in DOMAIN events : IDRank[a] = IDRank[b] => a = b
  BY <1>2, QueryAssumption
<1> QED BY <1>1, <1>3 DEF Precedes

Ahead(found, a) == {b \in found : Precedes(b, a)}

Place(found, a) == Cardinality(Ahead(found, a)) + 1

(* What is sorted: some of the events.                                     *)
Listable(found) == IsFiniteSet(found) /\ found \subseteq DOMAIN events

(* The place of an event in the listing, and those of later ones.          *)
LEMMA PlaceFacts ==
    ASSUME TypeInv, IDsInv, NEW found, Listable(found), NEW a \in found
    PROVE  /\ Place(found, a) \in 1 .. Cardinality(found)
           /\ \A b \in found : Precedes(a, b) => Place(found, a) < Place(found, b)
           /\ \A b \in found : Place(found, a) = Place(found, b) => a = b
<1>1. IsFiniteSet(found) /\ found \subseteq DOMAIN events /\ Cardinality(found) \in Nat
  BY FS_CardinalityType DEF Listable
<1>2. ASSUME NEW b \in found PROVE IsFiniteSet(Ahead(found, b)) /\ Cardinality(Ahead(found, b)) \in Nat
  <2>1. IsFiniteSet(Ahead(found, b))
    BY <1>1, FS_Subset DEF Ahead
  <2> QED BY <2>1, FS_CardinalityType
<1>3. ASSUME NEW b \in found, NEW c \in found, Precedes(b, c)
      PROVE  Place(found, b) < Place(found, c)
  <2>1. Ahead(found, b) \subseteq Ahead(found, c)
    BY <1>1, <1>3, EventsOrdered DEF Ahead
  <2>2. b \in Ahead(found, c) /\ b \notin Ahead(found, b)
    BY <1>1, <1>3, EventsOrdered DEF Ahead
  <2>3. Cardinality(Ahead(found, b)) < Cardinality(Ahead(found, c))
    BY <1>2, <2>1, <2>2, FS_Subset
  <2> QED BY <1>2, <2>3 DEF Place
<1>4. Place(found, a) \in 1 .. Cardinality(found)
  <2>1. Ahead(found, a) \subseteq found \ {a}
    BY <1>1, EventsOrdered DEF Ahead
  <2>2. IsFiniteSet(found \ {a}) /\ Cardinality(found \ {a}) = Cardinality(found) - 1
    BY <1>1, FS_RemoveElement
  <2>3. Cardinality(Ahead(found, a)) <= Cardinality(found) - 1
    BY <2>1, <2>2, FS_Subset
  <2> QED BY <1>1, <1>2, <2>3 DEF Place
<1>5. ASSUME NEW b \in found, Place(found, a) = Place(found, b) PROVE a = b
  <2>1. Place(found, a) \in Int /\ Place(found, b) \in Int
    BY <1>2 DEF Place
  <2>2. ~Precedes(a, b) /\ ~Precedes(b, a)
    BY <1>3, <1>5, <2>1
  <2> QED BY <1>1, <2>2, EventsOrdered
<1> QED BY <1>3, <1>4, <1>5

(* Every place is taken.                                                   *)
LEMMA PlacesTaken ==
    ASSUME TypeInv, IDsInv, NEW found, Listable(found), NEW k \in 1 .. Cardinality(found)
    PROVE  \E a \in found : Place(found, a) = k
<1> DEFINE D == 1 .. Cardinality(found)
           P == [a \in found |-> Place(found, a)]
<1>1. IsFiniteSet(found) /\ Cardinality(found) \in Nat
  BY FS_CardinalityType DEF Listable
<1>2. ASSUME NEW n \in Nat PROVE IsFiniteSet(1 .. n) /\ Cardinality(1 .. n) = n
  BY FS_Interval
<1>3. IsFiniteSet(D) /\ Cardinality(D) = Cardinality(found)
  BY <1>1, <1>2
<1>4. \A a \in found : Place(found, a) \in D
  BY PlaceFacts
<1>5. \A a, b \in found : Place(found, a) = Place(found, b) => a = b
  BY PlaceFacts
<1>6. P \in Injection(found, D)
  BY <1>4, <1>5, Fun_IsInj
<1> HIDE DEF D, P
<1>7. P \in Surjection(found, D)
  BY <1>3, <1>6, FS_Injection
<1>8. \A i \in D : \E a \in found : P[a] = i
  BY <1>7, Fun_SurjectionProperties
<1> QED BY <1>8 DEF P, D

(* A listing holds what was found, in order.                               *)
Lists(items, found) ==
    /\ items \in Seq(found) /\ Len(items) \in Nat /\ DOMAIN items = 1 .. Len(items)
    /\ \A a \in found : \E i \in DOMAIN items : items[i] = a
    /\ \A i, j \in DOMAIN items : i < j => Precedes(items[i], items[j])

(* sort.Slice is modelled by what it returns, and there is such a thing.   *)
LEMMA SortedLists ==
    ASSUME TypeInv, IDsInv, NEW found, Listable(found)
    PROVE  Lists(Sorted(found), found)
<1> DEFINE items == Sorted(found)
           n == Cardinality(found)
<1>1. n \in Nat /\ found \subseteq DOMAIN events
  BY FS_CardinalityType DEF Listable
<1>2. items = [k \in 1 .. n |-> CHOOSE a \in found : Cardinality(Ahead(found, a)) = k - 1]
  BY DEF Sorted, Ahead
<1>3. ASSUME NEW k \in 1 .. n PROVE items[k] \in found /\ Place(found, items[k]) = k
  <2>1. PICK a \in found : Place(found, a) = k
    BY PlacesTaken
  <2>2. IsFiniteSet(Ahead(found, a))
    BY FS_Subset DEF Ahead, Listable
  <2>3. Cardinality(Ahead(found, a)) \in Nat
    BY <2>2, FS_CardinalityType
  <2>4. Cardinality(Ahead(found, a)) = k - 1
    BY <2>1, <2>3 DEF Place
  <2>5. items[k] \in found /\ Cardinality(Ahead(found, items[k])) = k - 1
    BY <1>2, <2>4
  <2> QED BY <1>1, <2>5 DEF Place
<1> HIDE DEF items, n
<1>4. items \in Seq(found) /\ Len(items) = n /\ DOMAIN items = 1 .. n
  <2>1. DOMAIN items = 1 .. n /\ items = [k \in 1 .. n |-> items[k]]
    BY <1>2
  <2>2. items \in [1 .. n -> found]
    BY <1>3, <2>1
  <2> QED BY <1>1, <2>2
<1>5. ASSUME NEW a \in found PROVE \E i \in DOMAIN items : items[i] = a
  <2>1. Place(found, a) \in 1 .. n
    BY PlaceFacts DEF n
  <2>2. items[Place(found, a)] = a
    BY <1>3, <2>1, PlaceFacts
  <2> QED BY <1>4, <2>1, <2>2
<1>6. ASSUME NEW i \in DOMAIN items, NEW j \in DOMAIN items, i < j
      PROVE  Precedes(items[i], items[j])
  <2>1. /\ items[i] \in found /\ Place(found, items[i]) = i
        /\ items[j] \in found /\ Place(found, items[j]) = j
    BY <1>3, <1>4
  <2>2. i \in Int /\ j \in Int
    BY <1>4
  <2>3. ~(j < i) /\ i # j
    BY <1>6, <2>2
  <2>4. items[i] # items[j] /\ ~Precedes(items[j], items[i])
    BY <2>1, <2>3, PlaceFacts
  <2> QED BY <1>1, <2>1, <2>4, EventsOrdered
<1> QED BY <1>1, <1>4, <1>5, <1>6 DEF Lists, items

-----------------------------------------------------------------------------
(* The pages of a listing                                                  *)

Shown(items, a) == \E i \in DOMAIN items : items[i] = a

Increasing(items) == \A i, j \in DOMAIN items : i < j => Precedes(items[i], items[j])

Last(items) == items[Len(items)]

(* What a page with this cursor is about; a cursor that is not among the   *)
(* items starts from the beginning.                                        *)
Beyond(found, cursor, a) == cursor \in found => Precedes(cursor, a)

(* A page continues where its cursor stands, and the next cursor stands    *)
(* where it ends.                                                          *)
PageOf(page, found, cursor) ==
    /\ page.items \in Seq(found) /\ Increasing(page.items)
    /\ \A i \in DOMAIN page.items : Beyond(found, cursor, page.items[i])
    /\ page.next = None =>
          \A a \in found : Beyond(found, cursor, a) => Shown(page.items, a)
    /\ page.next # None =>
          /\ page.items # <<>> /\ page.next = Last(page.items)
          /\ \A a \in found : Beyond(found, cursor, a) =>
                Shown(page.items, a) \/ Precedes(page.next, a)

(* The smaller of two numbers.                                             *)
LEMMA MinOfTwo ==
    ASSUME NEW a \in Int, NEW b \in Int
    PROVE  Min({a, b}) = IF a <= b THEN a ELSE b
<1>1. \E x \in {a, b} : \A y \in {a, b} : x =< y
  OBVIOUS
<1>2. Min({a, b}) \in {a, b} /\ \A y \in {a, b} : Min({a, b}) =< y
  BY <1>1 DEF Min
<1> QED BY <1>2

(* A part of a listing that ends no later than it.                         *)
LEMMA PartOfListing ==
    ASSUME NEW found, NEW items, Lists(items, found),
           NEW start \in 0 .. Len(items), NEW end \in start .. Len(items)
    PROVE  LET part == SubSeq(items, start + 1, end) IN
           /\ part \in Seq(found) /\ Len(part) = end - start /\ DOMAIN part = 1 .. end - start
           /\ \A i \in 1 .. end - start : part[i] = items[start + i]
<1> DEFINE part == SubSeq(items, start + 1, end)
<1>1. items \in Seq(found) /\ Len(items) \in Nat
  BY DEF Lists
<1>2. start + 1 \in 1 .. Len(items) + 1 /\ end \in start + 1 - 1 .. Len(items)
  BY <1>1
<1>3. /\ part \in Seq(found)
      /\ Len(part) = IF start + 1 <= end THEN end - (start + 1) + 1 ELSE 0
      /\ \A i \in 1 .. end - (start + 1) + 1 : part[i] = items[start + 1 + i - 1]
  BY <1>1, <1>2, SubSeqProperties
<1> HIDE DEF part
<1>4. Len(part) = end - start /\ end - (start + 1) + 1 = end - start
  BY <1>1, <1>3
<1>5. DOMAIN part = 1 .. end - start
  BY <1>3, <1>4
<1>6. ASSUME NEW i \in 1 .. end - start PROVE part[i] = items[start + i]
  <2>1. start + 1 + i - 1 = start + i
    BY <1>1
  <2> QED BY <1>3, <1>4, <2>1
<1> QED BY <1>3, <1>4, <1>5, <1>6 DEF part

(* A cursor among the items is found at its place, another at the front.   *)
LEMMA CursorPlace ==
    ASSUME NEW found, NEW items, Lists(items, found), NEW cursor
    PROVE  /\ CursorIndex(items, cursor) \in 0 .. Len(items)
           /\ cursor \in found => /\ CursorIndex(items, cursor) \in DOMAIN items
                                 /\ items[CursorIndex(items, cursor)] = cursor
           /\ cursor \notin found => CursorIndex(items, cursor) = 0
<1>1. /\ Len(items) \in Nat /\ DOMAIN items = 1 .. Len(items)
      /\ \A i \in DOMAIN items : items[i] \in found
      /\ \A a \in found : \E i \in DOMAIN items : items[i] = a
  BY DEF Lists
<1>2. CASE cursor \in found
  <2>1. \E i \in DOMAIN items : items[i] = cursor
    BY <1>1, <1>2
  <2>2. CursorIndex(items, cursor) \in DOMAIN items /\ items[CursorIndex(items, cursor)] = cursor
    BY <2>1 DEF CursorIndex
  <2> QED BY <1>1, <1>2, <2>2
<1>3. CASE cursor \notin found
  <2>1. CursorIndex(items, cursor) = 0
    BY <1>1, <1>3 DEF CursorIndex
  <2> QED BY <1>1, <1>3, <2>1
<1> QED BY <1>2, <1>3

(* Every page is such a page.                                              *)
LEMMA PagesContinue ==
    ASSUME TypeInv, IDsInv, NEW found, Listable(found), NEW limit \in Int, NEW cursor
    PROVE  PageOf(FindEvents(found, limit, cursor), found, cursor)
<1> DEFINE items == Sorted(found)
           n     == Len(items)
           start == CursorIndex(items, cursor)
           size  == PageLimit(limit)
           end   == Min({start + size, n})
           part  == SubSeq(items, start + 1, end)
           page  == FindEvents(found, limit, cursor)
<1>1. Lists(items, found)
  BY SortedLists
<1>2. page.items = part /\ page.next = IF end < n THEN items[end] ELSE None
  BY DEF FindEvents
<1> HIDE DEF items, page
<1>3. n \in Nat /\ DOMAIN items = 1 .. n /\ \A i \in DOMAIN items : items[i] \in found
  BY <1>1 DEF Lists
<1>4. size \in Nat /\ size >= 1
  BY QueryAssumption DEF PageLimit
<1>5. /\ start \in 0 .. n /\ (cursor \notin found => start = 0)
      /\ cursor \in found => start \in DOMAIN items /\ items[start] = cursor
  BY <1>1, CursorPlace
<1> HIDE DEF n, start, size
<1>6. end = IF start + size <= n THEN start + size ELSE n
  BY <1>3, <1>4, <1>5, MinOfTwo
<1>7. end \in start .. n /\ (end < n => end > start)
  BY <1>3, <1>4, <1>5, <1>6
<1> HIDE DEF end
<1>8. /\ part \in Seq(found) /\ Len(part) = end - start /\ DOMAIN part = 1 .. end - start
      /\ \A i \in 1 .. end - start : part[i] = items[start + i]
  BY <1>1, <1>5, <1>7, PartOfListing DEF n
<1> HIDE DEF part
<1>9. \A i, j \in 1 .. n : i < j => Precedes(items[i], items[j])
  BY <1>1, <1>3 DEF Lists
<1>10. Increasing(part)
  <2> SUFFICES ASSUME NEW i \in 1 .. end - start, NEW j \in 1 .. end - start, i < j
               PROVE  Precedes(part[i], part[j])
    BY <1>8 DEF Increasing
  <2>1. start + i \in 1 .. n /\ start + j \in 1 .. n /\ start + i < start + j
    BY <1>3, <1>5, <1>7
  <2> QED BY <1>8, <1>9, <2>1
<1>11. ASSUME NEW i \in DOMAIN part PROVE Beyond(found, cursor, part[i])
  <2>1. start + i \in 1 .. n /\ start < start + i
    BY <1>3, <1>5, <1>7, <1>8
  <2> QED BY <1>3, <1>5, <1>8, <1>9, <2>1 DEF Beyond
<1>12. ASSUME NEW a \in found, Beyond(found, cursor, a)
       PROVE  Shown(part, a) \/ (end < n /\ Precedes(items[end], a))
  <2>1. PICK j \in 1 .. n : items[j] = a
    BY <1>1, <1>3 DEF Lists
  <2>2. j > start
    <3>1. CASE cursor \notin found
      BY <1>3, <1>5, <3>1
    <3>2. CASE cursor \in found
      <4>1. Precedes(items[start], a) /\ start \in 1 .. n
        BY <1>3, <1>5, <1>12, <3>2 DEF Beyond
      <4>2. found \subseteq DOMAIN events
        BY DEF Listable
      <4>3. items[start] \in DOMAIN events /\ a \in DOMAIN events
        BY <1>3, <4>1, <4>2
      <4>4. items[start] # a /\ ~Precedes(a, items[start])
        BY <4>1, <4>3, EventsOrdered
      <4>5. j # start /\ ~(j < start)
        BY <1>9, <2>1, <4>1, <4>4
      <4> QED BY <1>3, <4>1, <4>5
    <3> QED BY <3>1, <3>2
  <2>3. CASE j <= end
    <3>1. j - start \in 1 .. end - start /\ start + (j - start) = j
      BY <1>3, <1>5, <1>7, <2>2, <2>3
    <3>2. part[j - start] = a
      BY <1>8, <2>1, <3>1
    <3> QED BY <1>8, <3>1, <3>2 DEF Shown
  <2>4. CASE j > end
    <3>1. end < n /\ end \in 1 .. n
      BY <1>3, <1>5, <1>7, <2>4
    <3> QED BY <1>9, <2>1, <2>4, <3>1
  <2> QED BY <1>3, <1>5, <1>7, <2>3, <2>4
<1>13. None \notin found
  BY NoneAssumption DEF Listable, TypeInv, TypeOK, IDs
<1>14. ASSUME page.next = None PROVE ~(end < n)
  <2>1. end < n => end \in DOMAIN items
    BY <1>3, <1>5, <1>7
  <2> QED BY <1>2, <1>3, <1>13, <1>14, <2>1
<1>15. ASSUME page.next # None
       PROVE  end < n /\ page.next = items[end] /\ part # <<>> /\ items[end] = Last(part)
  <2>1. end < n /\ page.next = items[end]
    BY <1>2, <1>15
  <2>2. end - start \in 1 .. end - start /\ start + (end - start) = end /\ Len(part) > 0
    BY <1>3, <1>5, <1>7, <1>8, <2>1
  <2>3. part[end - start] = items[end]
    BY <1>8, <2>2
  <2>4. part # <<>>
    BY <2>2
  <2> QED BY <1>8, <2>1, <2>3, <2>4 DEF Last
<1> QED BY <1>2, <1>8, <1>10, <1>11, <1>12, <1>14, <1>15 DEF PageOf, page

-----------------------------------------------------------------------------
(* A listing from its first page to its last                               *)

(* What a query finds when every event has one status.                     *)
Found(filter) ==
    {id \in DOMAIN events : /\ MatchesEvent(events[id], filter)
                            /\ filter.status # None => filter.status \in EventStatuses(id)}

(* What a query may find can be listed, and is determined when the events  *)
(* have one status each.                                                   *)
LEMMA MatchingFinds ==
    ASSUME TypeInv, IDsInv, NEW filter, NEW found \in Matching(filter)
    PROVE  Listable(found) /\ ((filter.status # None => Settled) => found = Found(filter))
<1> DEFINE all == {id \in DOMAIN events : MatchesEvent(events[id], filter)}
<1>1. CASE filter.status = None
  <2>1. found = all
    BY <1>1 DEF Matching
  <2>2. Listable(found)
    BY <2>1, FS_Subset DEF Listable, IDsInv
  <2> QED BY <1>1, <2>1, <2>2 DEF Found
<1>2. CASE filter.status # None
  <2>1. /\ found \subseteq {id \in all : filter.status \in EventStatuses(id)}
        /\ {id \in all : EventStatuses(id) = {filter.status}} \subseteq found
    BY <1>2 DEF Matching
  <2>2. Listable(found)
    BY <2>1, FS_Subset DEF Listable, IDsInv
  <2>3. ASSUME Settled, NEW id \in DOMAIN events, filter.status \in EventStatuses(id)
        PROVE  EventStatuses(id) = {filter.status}
    <3>1. EventStatuses(id) \subseteq Statuses
      BY DEF EventStatuses, TypeInv, TypeOK, Receipt
    <3>2. IsFiniteSet(Statuses)
      <4>1. IsFiniteSet({"accepted"})
        BY FS_Singleton
      <4>2. IsFiniteSet({"accepted"} \cup {"dead_lettered"})
        BY <4>1, FS_AddElement
      <4>3. Statuses = {"accepted"} \cup {"dead_lettered"}
        BY DEF Statuses
      <4> QED BY <4>2, <4>3
    <3>3. IsFiniteSet(EventStatuses(id))
      BY <3>1, <3>2, FS_Subset
    <3>4. Cardinality(EventStatuses(id)) = 1
      BY <2>3 DEF Settled
    <3>5. \E x : EventStatuses(id) = {x}
      BY <3>3, <3>4, FS_Singleton
    <3> QED BY <2>3, <3>5
  <2> QED BY <1>2, <2>1, <2>2, <2>3 DEF Found
<1> QED BY <1>1, <1>2

(* The listing is one that the property is about, as things stand.         *)
Calm == walk.step # "idle" /\ ~walk.disturbed /\ (walk.filter.status # None => Settled)

(* What has been listed is in order; what is still to be listed comes      *)
(* after the cursor, and the cursor can be found.                          *)
Progress ==
    /\ walk.first \subseteq Found(walk.filter)
    /\ \A i \in DOMAIN walk.listed : walk.listed[i] \in Found(walk.filter)
    /\ Increasing(walk.listed)
    /\ walk.step = "done" => \A a \in walk.first : Shown(walk.listed, a)
    /\ walk.step = "reading" =>
          /\ walk.listed # <<>> /\ walk.cursor = Last(walk.listed)
          /\ \A a \in walk.first : Shown(walk.listed, a) \/ Precedes(walk.cursor, a)

WalkInv ==
    /\ walk \in Walk
    /\ walk.step # "idle" => walk.filter \in Filter
    /\ Calm => Progress

(* The events there were are as they were, and so are their receipts.      *)
Kept ==
    \A id \in DOMAIN events :
        id \in DOMAIN events' /\ events'[id] = events[id] /\ EventStatuses(id)' = EventStatuses(id)

(* A listing is not concerned by events that are new.                      *)
LEMMA WalkKept ==
    ASSUME WalkInv, UNCHANGED walk, Kept
    PROVE  WalkInv'
<1>1. walk' = walk /\ walk' \in Walk /\ (walk'.step # "idle" => walk'.filter \in Filter)
  BY DEF WalkInv
<1> SUFFICES ASSUME Calm' PROVE Progress'
  BY <1>1 DEF WalkInv
<1>2. ASSUME NEW id \in DOMAIN events
      PROVE  id \in DOMAIN events' /\ events'[id] = events[id] /\ EventStatuses(id)' = EventStatuses(id)
  BY DEF Kept
<1>3. Settled' => Settled
  BY <1>2 DEF Settled
<1>4. Calm
  BY <1>1, <1>3 DEF Calm
<1>5. Progress
  BY <1>4 DEF WalkInv
<1>6. \A filter : Found(filter) \subseteq Found(filter)'
  <2> SUFFICES ASSUME NEW filter, NEW id \in Found(filter) PROVE id \in Found(filter)'
    OBVIOUS
  <2>1. id \in DOMAIN events /\ MatchesEvent(events[id], filter)
        /\ (filter.status # None => filter.status \in EventStatuses(id))
    BY DEF Found
  <2>2. MatchesEvent(events'[id], filter)
    BY <1>2, <2>1
  <2> QED BY <1>2, <2>1, <2>2 DEF Found, MatchesEvent, Within
<1>7. \A filter : Found(filter) \subseteq DOMAIN events
  BY DEF Found
<1>8. \A a, b \in DOMAIN events : Precedes(a, b)' <=> Precedes(a, b)
  BY <1>2 DEF Precedes
<1>9. \A i \in DOMAIN walk.listed : walk.listed[i] \in DOMAIN events
  BY <1>5, <1>7 DEF Progress
<1>10. Increasing(walk.listed)'
  BY <1>1, <1>5, <1>8, <1>9 DEF Progress, Increasing
<1>11. ASSUME walk.step = "reading"
       PROVE  \A a \in walk.first : Shown(walk.listed, a) \/ Precedes(walk.cursor, a)'
  <2>1. walk.listed \in Seq(IDs) /\ walk.listed # <<>>
    BY <1>5, <1>11 DEF WalkInv, Walk, Progress
  <2>2. Len(walk.listed) \in DOMAIN walk.listed
    BY <2>1
  <2>3. walk.cursor \in DOMAIN events
    BY <1>5, <1>9, <1>11, <2>2 DEF Progress, Last
  <2>4. walk.first \subseteq DOMAIN events
    BY <1>5, <1>7 DEF Progress
  <2> QED BY <1>1, <1>5, <1>8, <1>11, <2>3, <2>4 DEF Progress
<1>12. walk.first \subseteq Found(walk.filter)'
  BY <1>1, <1>5, <1>6 DEF Progress
<1>13. \A i \in DOMAIN walk.listed : walk.listed[i] \in Found(walk.filter)'
  BY <1>1, <1>5, <1>6 DEF Progress
<1> QED BY <1>1, <1>5, <1>10, <1>11, <1>12, <1>13 DEF Progress, Shown, Last

(* A disturbed listing is off the hook.                                    *)
LEMMA WalkDisturbed ==
    ASSUME WalkInv, walk' = [walk EXCEPT !.disturbed = TRUE]
    PROVE  WalkInv'
<1>1. walk \in Walk
  BY DEF WalkInv
<1>2. /\ walk' \in Walk /\ walk'.disturbed
      /\ walk'.step = walk.step /\ walk'.filter = walk.filter
  BY <1>1 DEF Walk
<1> QED BY <1>2 DEF WalkInv, Calm

(* A commit that does not disturb a listing is of a new event.             *)
LEMMA CommitKeeps ==
    ASSUME TypeInv, StoresAgree, NEW th \in Threads, Commit(th),
           \A id \in DOMAIN attempts : attempts'[id] = attempts[id],
           \A k \in DOMAIN seen : seen'[k] = seen[k]
    PROVE  Kept
<1> DEFINE e == job[th].event
           k == SeenKey(e)
<1>1. PICK a, r :
        /\ attempts' = AttemptsWith(e.id, a) /\ events' = Put(events, e.id, e)
        /\ seen' = Put(seen, k, r) /\ r.event = e.id /\ a \in Attempt
  <2>1. job[th].reasons \in SUBSET Reasons /\ ids + 1 \in Nat
    BY DEF TypeInv, TypeOK, Job
  <2>2. StatusOf(job[th].reasons) \in Statuses
    BY DEF StatusOf, Statuses
  <2>3. [id |-> ids + 1, status |-> StatusOf(job[th].reasons), reasons |-> job[th].reasons] \in Attempt
    BY <2>1, <2>2 DEF Attempt
  <2> QED BY <2>3 DEF Commit
<1> HIDE DEF e, k
<1>2. DOMAIN attempts = DOMAIN events
  BY DEF StoresAgree, LineageIsCurrent
<1>3. e.id \notin DOMAIN events
  <2> SUFFICES ASSUME e.id \in DOMAIN attempts PROVE FALSE
    BY <1>2
  <2>1. attempts'[e.id] = Append(attempts[e.id], a)
    BY <1>1 DEF AttemptsWith, Put
  <2>2. attempts[e.id] \in Seq(Attempt)
    BY DEF TypeInv, TypeOK
  <2>3. Len(Append(attempts[e.id], a)) = Len(attempts[e.id]) + 1 /\ Len(attempts[e.id]) \in Nat
    BY <1>1, <2>2, AppendProperties, LenProperties
  <2>4. Len(attempts[e.id]) + 1 # Len(attempts[e.id])
    BY <2>3
  <2> QED BY <2>1, <2>3, <2>4
<1>4. ASSUME NEW id \in DOMAIN events
      PROVE  id \in DOMAIN events' /\ events'[id] = events[id] /\ id # e.id
  BY <1>1, <1>3 DEF Put
<1>5. DOMAIN seen' = DOMAIN seen \cup {k} /\ seen'[k].event = e.id
  BY <1>1 DEF Put
<1>6. ASSUME NEW id \in DOMAIN events PROVE EventStatuses(id)' = EventStatuses(id)
  <2>1. {j \in DOMAIN seen' : seen'[j].event = id} = {j \in DOMAIN seen : seen[j].event = id}
    BY <1>4, <1>5
  <2> QED BY <2>1 DEF EventStatuses
<1> QED BY <1>4, <1>6 DEF Kept

(* The steps of the service, seen from the listing.                        *)
LEMMA WalkService ==
    ASSUME TypeInv, StoresAgree, WalkInv, NEW th \in Threads, PublishStep(th)
    PROVE  WalkInv'
<1>1. /\ Watched
      /\ \/ AnswerDuplicate(th) \/ RejectQuota(th) \/ Admit(th)
         \/ Lookup(th) \/ SnapshotRules(th) \/ Commit(th)
  BY DEF PublishStep
<1>2. CASE walk' = [walk EXCEPT !.disturbed = TRUE]
  BY <1>2, WalkDisturbed
<1>3. CASE walk' = walk /\ walk.step = "idle"
  BY <1>3 DEF WalkInv, Calm
<1>4. CASE /\ walk' = walk
           /\ \A id \in DOMAIN attempts : attempts'[id] = attempts[id]
           /\ \A k \in DOMAIN seen : seen'[k] = seen[k]
  <2>1. Kept
    <3>1. CASE Commit(th)
      BY <1>4, <3>1, CommitKeeps
    <3>2. CASE ~Commit(th)
      <4>1. UNCHANGED <<seen, events>>
        BY <1>1, <3>2, LocalStep DEF service
      <4> QED BY <4>1 DEF Kept, EventStatuses
    <3> QED BY <3>1, <3>2
  <2> QED BY <1>4, <2>1, WalkKept
<1> QED BY <1>1, <1>2, <1>3, <1>4 DEF Watched

(* One listing after another.                                              *)
LEMMA ListingsJoined ==
    ASSUME NEW S, NEW s \in Seq(S), NEW t \in Seq(S)
    PROVE  /\ s \o t \in Seq(S)
           /\ \A a : Shown(s \o t, a) <=> Shown(s, a) \/ Shown(t, a)
           /\ t # <<>> => s \o t # <<>> /\ Last(s \o t) = Last(t)
           /\ Increasing(s) /\ Increasing(t) /\ (\A i \in DOMAIN s, j \in DOMAIN t : Precedes(s[i], t[j]))
                 => Increasing(s \o t)
           /\ \A T : (\A i \in DOMAIN s : s[i] \in T) /\ (\A i \in DOMAIN t : t[i] \in T)
                 => \A i \in DOMAIN (s \o t) : (s \o t)[i] \in T
<1> DEFINE u == s \o t
           m == Len(s)
           n == Len(t)
<1>1. m \in Nat /\ n \in Nat /\ DOMAIN s = 1 .. m /\ DOMAIN t = 1 .. n
  BY LenProperties
<1>2. u \in Seq(S) /\ Len(u) = m + n /\ DOMAIN u = 1 .. m + n
  BY ConcatProperties, LenProperties
<1>3. \A i \in 1 .. m + n : u[i] = IF i <= m THEN s[i] ELSE t[i - m]
  BY ConcatProperties
<1> HIDE DEF u
<1>4. ASSUME NEW i \in DOMAIN u
      PROVE  i \in Int /\ (\/ i \in DOMAIN s /\ i <= m /\ u[i] = s[i]
                           \/ i - m \in DOMAIN t /\ i > m /\ u[i] = t[i - m])
  BY <1>1, <1>2, <1>3
<1>5. ASSUME NEW i \in DOMAIN s PROVE i \in DOMAIN u /\ u[i] = s[i]
  BY <1>1, <1>2, <1>3
<1>6. ASSUME NEW i \in DOMAIN t PROVE m + i \in DOMAIN u /\ u[m + i] = t[i]
  <2>1. m + i \in 1 .. m + n /\ ~(m + i <= m) /\ m + i - m = i
    BY <1>1
  <2> QED BY <1>2, <1>3, <2>1
<1> HIDE DEF m, n
<1>7. ASSUME NEW a PROVE Shown(u, a) <=> Shown(s, a) \/ Shown(t, a)
  BY <1>4, <1>5, <1>6 DEF Shown
<1>8. ASSUME t # <<>> PROVE u # <<>> /\ Last(u) = Last(t)
  <2>1. n \in DOMAIN t /\ n >= 1
    BY <1>1, <1>8 DEF n
  <2>2. m + n \in DOMAIN u /\ u[m + n] = t[n]
    BY <1>6, <2>1
  <2>3. u # <<>>
    BY <2>2
  <2> QED BY <1>2, <2>2, <2>3 DEF Last, n
<1>9. ASSUME Increasing(s), Increasing(t), \A i \in DOMAIN s, j \in DOMAIN t : Precedes(s[i], t[j])
      PROVE  Increasing(u)
  <2> SUFFICES ASSUME NEW i \in DOMAIN u, NEW j \in DOMAIN u, i < j PROVE Precedes(u[i], u[j])
    BY DEF Increasing
  <2>1. i \in Int /\ j \in Int /\ m \in Int
    BY <1>1, <1>4
  <2>2. CASE i > m
    <3>1. j > m /\ i - m < j - m
      BY <2>1, <2>2
    <3>2. i - m \in DOMAIN t /\ u[i] = t[i - m] /\ j - m \in DOMAIN t /\ u[j] = t[j - m]
      BY <1>4, <2>1, <2>2, <3>1
    <3> QED BY <1>9, <3>1, <3>2 DEF Increasing
  <2>3. CASE i <= m
    <3>1. i \in DOMAIN s /\ u[i] = s[i]
      BY <1>4, <2>1, <2>3
    <3>2. CASE j <= m
      <4>1. j \in DOMAIN s /\ u[j] = s[j]
        BY <1>4, <2>1, <3>2
      <4> QED BY <1>9, <3>1, <4>1 DEF Increasing
    <3>3. CASE j > m
      <4>1. j - m \in DOMAIN t /\ u[j] = t[j - m]
        BY <1>4, <2>1, <3>3
      <4> QED BY <1>9, <3>1, <4>1
    <3> QED BY <2>1, <3>2, <3>3
  <2> QED BY <2>1, <2>2, <2>3
<1>10. ASSUME NEW T, \A i \in DOMAIN s : s[i] \in T, \A i \in DOMAIN t : t[i] \in T, NEW i \in DOMAIN u
       PROVE  u[i] \in T
  BY <1>4, <1>10
<1> QED BY <1>2, <1>7, <1>8, <1>9, <1>10 DEF u

(* The first page of a listing.                                            *)
LEMMA WalkBegins ==
    ASSUME TypeInv, IDsInv, NEW filter \in Filters, NEW limit \in Limits, FirstPage(filter, limit)
    PROVE  WalkInv'
<1>1. PICK found \in Matching(filter) :
        LET page == FindEvents(found, limit, None) IN
        walk' = [step |-> IF page.next = None THEN "done" ELSE "reading",
                 filter |-> filter, limit |-> limit, cursor |-> page.next, pages |-> 1,
                 listed |-> page.items, first |-> found, disturbed |-> FALSE]
  BY DEF FirstPage
<1> DEFINE page == FindEvents(found, limit, None)
<1>2. filter \in Filter /\ limit \in Int
  BY FilterAssumption, QueryAssumption
<1>3. Listable(found) /\ ((filter.status # None => Settled) => found = Found(filter))
  BY MatchingFinds
<1>4. PageOf(page, found, None)
  BY <1>2, <1>3, PagesContinue
<1>5. /\ walk'.step = (IF page.next = None THEN "done" ELSE "reading") /\ walk'.filter = filter
      /\ walk'.cursor = page.next /\ walk'.listed = page.items /\ walk'.first = found
      /\ walk' = [step |-> IF page.next = None THEN "done" ELSE "reading",
                  filter |-> filter, limit |-> limit, cursor |-> page.next, pages |-> 1,
                  listed |-> page.items, first |-> found, disturbed |-> FALSE]
  BY <1>1
<1> HIDE DEF page
<1>6. found \subseteq IDs /\ None \notin found
  BY <1>3, NoneAssumption DEF Listable, TypeInv, TypeOK, IDs
<1>7. page.items \in Seq(found) /\ page.items \in Seq(IDs)
  <2>1. page.items \in Seq(found)
    BY <1>4 DEF PageOf
  <2> QED BY <1>6, <2>1, SeqMonotonic
<1>8. page.next # None => page.next \in IDs
  <2>1. page.next # None => page.items # <<>> /\ page.next = page.items[Len(page.items)]
    BY <1>4 DEF PageOf, Last
  <2> QED BY <1>7, <2>1
<1>9. walk' \in Walk
  BY <1>2, <1>5, <1>6, <1>7, <1>8 DEF Walk
<1>10. events' = events /\ seen' = seen
  BY DEF FirstPage, vars
<1>11. Settled' <=> Settled
  BY <1>10 DEF Settled, EventStatuses
<1>12. /\ \A f : Found(f)' = Found(f)
       /\ \A a, b : Precedes(a, b)' <=> Precedes(a, b)
       /\ \A l : Increasing(l)' <=> Increasing(l)
  BY <1>10 DEF Found, EventStatuses, Precedes, Increasing
<1>13. ASSUME Calm' PROVE Progress'
  <2>1. found = Found(filter)
    BY <1>3, <1>5, <1>11, <1>13 DEF Calm
  <2>2. \A a \in found : Beyond(found, None, a)
    BY <1>6 DEF Beyond
  <2>3. \A i \in DOMAIN page.items : page.items[i] \in found
    BY <1>7
  <2>4. Increasing(page.items)
    BY <1>4 DEF PageOf
  <2>5. page.next = None => \A a \in found : Shown(page.items, a)
    BY <1>4, <2>2 DEF PageOf
  <2>6. page.next # None =>
           /\ page.items # <<>> /\ page.next = Last(page.items)
           /\ \A a \in found : Shown(page.items, a) \/ Precedes(page.next, a)
    BY <1>4, <2>2 DEF PageOf
  <2> QED BY <1>5, <1>12, <2>1, <2>3, <2>4, <2>5, <2>6 DEF Progress, Shown, Last
<1> QED BY <1>2, <1>5, <1>9, <1>13 DEF WalkInv

(* A further page of a listing.                                            *)
LEMMA WalkGoesOn ==
    ASSUME TypeInv, IDsInv, WalkInv, NextPage
    PROVE  WalkInv'
<1> DEFINE filter == walk.filter
           cursor == walk.cursor
           listed == walk.listed
<1>1. PICK found \in Matching(filter) :
        LET page == FindEvents(found, walk.limit, cursor) IN
        walk' = [walk EXCEPT !.step   = IF page.next = None THEN "done" ELSE "reading",
                             !.cursor = page.next,
                             !.pages  = walk.pages + 1,
                             !.listed = listed \o page.items]
  BY DEF NextPage
<1> DEFINE page == FindEvents(found, walk.limit, cursor)
<1>2. walk \in Walk /\ walk.step = "reading" /\ filter \in Filter
  BY DEF WalkInv, NextPage
<1>3. Listable(found) /\ ((filter.status # None => Settled) => found = Found(filter))
  BY MatchingFinds
<1>4. PageOf(page, found, cursor)
  BY <1>2, <1>3, PagesContinue DEF Walk
<1> HIDE DEF page
<1>5. /\ walk'.step = (IF page.next = None THEN "done" ELSE "reading") /\ walk'.filter = filter
      /\ walk'.cursor = page.next /\ walk'.listed = listed \o page.items
      /\ walk'.first = walk.first /\ walk'.disturbed = walk.disturbed
  BY <1>1, <1>2 DEF Walk, page
<1>6. found \subseteq IDs /\ listed \in Seq(IDs)
  BY <1>2, <1>3 DEF Listable, TypeInv, TypeOK, Walk
<1>7. page.items \in Seq(found) /\ page.items \in Seq(IDs)
  <2>1. page.items \in Seq(found)
    BY <1>4 DEF PageOf
  <2> QED BY <1>6, <2>1, SeqMonotonic
<1>8. page.next # None => page.next \in IDs
  <2>1. page.next # None => page.items # <<>> /\ page.next = page.items[Len(page.items)]
    BY <1>4 DEF PageOf, Last
  <2> QED BY <1>7, <2>1
<1>9. walk' \in Walk
  <2>1. listed \o page.items \in Seq(IDs)
    BY <1>6, <1>7, ListingsJoined
  <2>2. walk' = [step |-> IF page.next = None THEN "done" ELSE "reading",
                 filter |-> walk.filter, limit |-> walk.limit, cursor |-> page.next,
                 pages |-> walk.pages + 1, listed |-> listed \o page.items,
                 first |-> walk.first, disturbed |-> walk.disturbed]
    BY <1>1, <1>2 DEF Walk, page
  <2>3. page.next \in IDs \cup {None} /\ walk.pages + 1 \in Nat
    BY <1>2, <1>8 DEF Walk
  <2> HIDE DEF listed
  <2> QED BY <1>2, <2>1, <2>2, <2>3 DEF Walk
<1>10. events' = events /\ seen' = seen
  BY DEF NextPage, vars
<1>11. Settled' <=> Settled
  BY <1>10 DEF Settled, EventStatuses
<1>12. /\ \A f : Found(f)' = Found(f)
       /\ \A a, b : Precedes(a, b)' <=> Precedes(a, b)
       /\ \A l : Increasing(l)' <=> Increasing(l)
  BY <1>10 DEF Found, EventStatuses, Precedes, Increasing
<1>13. ASSUME Calm' PROVE Progress'
  <2>1. Calm
    BY <1>2, <1>5, <1>11, <1>13 DEF Calm
  <2>2. found = Found(filter) /\ Progress
    BY <1>3, <2>1 DEF Calm, WalkInv
  <2> HIDE DEF filter, cursor, listed
  <2>3. /\ walk.first \subseteq found /\ (\A i \in DOMAIN listed : listed[i] \in found)
        /\ Increasing(listed) /\ listed # <<>> /\ cursor = Last(listed)
        /\ \A a \in walk.first : Shown(listed, a) \/ Precedes(cursor, a)
    BY <1>2, <2>2 DEF Progress, filter, cursor, listed
  <2>4. Len(listed) \in Nat /\ DOMAIN listed = 1 .. Len(listed) /\ Len(listed) \in DOMAIN listed
    BY <1>6, <2>3
  <2>5. cursor \in found /\ found \subseteq DOMAIN events
    BY <1>3, <2>3, <2>4 DEF Last, Listable
  <2>6. \A a : Beyond(found, cursor, a) <=> Precedes(cursor, a)
    BY <2>5 DEF Beyond
  <2>7. ASSUME NEW i \in DOMAIN listed, NEW j \in DOMAIN page.items
        PROVE  Precedes(listed[i], page.items[j])
    <3>1. Precedes(cursor, page.items[j])
      BY <1>4, <2>6 DEF PageOf
    <3>2. listed[i] = cursor \/ Precedes(listed[i], cursor)
      <4>1. i = Len(listed) \/ i < Len(listed)
        BY <2>4
      <4> QED BY <2>3, <2>4, <4>1 DEF Increasing, Last
    <3>3. page.items[j] \in found
      BY <1>7
    <3>4. listed[i] \in DOMAIN events /\ cursor \in DOMAIN events /\ page.items[j] \in DOMAIN events
      BY <2>3, <2>5, <3>3
    <3> QED BY <3>1, <3>2, <3>4, EventsOrdered
  <2>8. Increasing(listed \o page.items)
    <3>1. Increasing(page.items)
      BY <1>4 DEF PageOf
    <3> QED BY <1>6, <1>7, <2>3, <2>7, <3>1, ListingsJoined
  <2>9. \A i \in DOMAIN (listed \o page.items) : (listed \o page.items)[i] \in found
    <3>1. \A i \in DOMAIN page.items : page.items[i] \in found
      BY <1>7
    <3> QED BY <1>6, <1>7, <2>3, <3>1, ListingsJoined
  <2>10. \A a : Shown(listed \o page.items, a) <=> Shown(listed, a) \/ Shown(page.items, a)
    BY <1>6, <1>7, ListingsJoined
  <2>11. page.next = None => \A a \in walk.first : Shown(listed \o page.items, a)
    BY <1>4, <2>3, <2>6, <2>10 DEF PageOf
  <2>12. page.next # None =>
            /\ listed \o page.items # <<>> /\ page.next = Last(listed \o page.items)
            /\ \A a \in walk.first : Shown(listed \o page.items, a) \/ Precedes(page.next, a)
    <3>1. page.next # None => page.items # <<>> /\ page.next = Last(page.items)
      BY <1>4 DEF PageOf
    <3>2. page.items # <<>> => listed \o page.items # <<>> /\ Last(listed \o page.items) = Last(page.items)
      BY <1>6, <1>7, ListingsJoined
    <3>3. page.next # None =>
             \A a \in walk.first : Shown(listed \o page.items, a) \/ Precedes(page.next, a)
      BY <1>4, <2>3, <2>6, <2>10 DEF PageOf
    <3> QED BY <3>1, <3>2, <3>3
  <2>13. Found(walk.filter)' = found
    BY <1>5, <1>12, <2>2 DEF filter
  <2>14. walk'.listed = listed \o page.items /\ Increasing(walk.listed)'
    BY <1>5, <1>12, <2>8
  <2> QED BY <1>5, <1>12, <2>3, <2>9, <2>11, <2>12, <2>13, <2>14 DEF Progress, Shown, Last
<1> QED BY <1>2, <1>5, <1>9, <1>13 DEF WalkInv

(* Every step, seen from the listing.                                      *)
LEMMA WalkStep == TypeInv /\ StoresAgree /\ IDsInv /\ WalkInv /\ [QueryNext]_allVars => WalkInv'
<1> SUFFICES ASSUME TypeInv, StoresAgree, IDsInv, WalkInv, [QueryNext]_allVars PROVE WalkInv'
  OBVIOUS
<1>1. ASSUME NEW th \in Threads, PublishStep(th) PROVE WalkInv'
  BY <1>1, WalkService
<1>2. ASSUME NEW filter \in Filters, NEW limit \in Limits, FirstPage(filter, limit) PROVE WalkInv'
  BY <1>2, WalkBegins
<1>3. ASSUME NextPage PROVE WalkInv'
  BY <1>3, WalkGoesOn
<1>4. ASSUME UNCHANGED <<walk, events, seen>> PROVE WalkInv'
  <2>1. Kept
    BY <1>4 DEF Kept, EventStatuses
  <2> QED BY <1>4, <2>1, WalkKept
<1>5. ASSUME NEW th \in Threads, RequestStep(th) \/ FinishStep(th) \/ BatchStep(th)
      PROVE  UNCHANGED <<walk, events, seen>>
  BY <1>5 DEF RequestStep, FinishStep, BatchStep, Receive, ReplayBegin, ReplayFinish,
              BatchBegin, BatchNotFound, BatchRefused, BatchReplay, queries, vars, service
<1>6. ASSUME \/ \E t \in Readers, id \in DOMAIN events : GetEvent(t, id)
             \/ AnswerEvent \/ OtherStep \/ UNCHANGED allVars
      PROVE  UNCHANGED <<walk, events, seen>>
  BY <1>6 DEF GetEvent, AnswerEvent, OtherStep, RegistryChanges, RulesChange, Tick,
              allVars, queries, vars, service
<1> QED BY <1>1, <1>2, <1>3, <1>4, <1>5, <1>6 DEF QueryNext

(* The listing makes progress always.                                      *)
LEMMA WalkInvariant == QuerySpec => []WalkInv
<1>1. QueryInit => WalkInv
  BY NoneAssumption DEF QueryInit, NoWalk, WalkInv, Walk, Calm
<1>2. Spec => []StoresAgree
  BY StoresInit, StoresStep, TypeInvariant, PTL DEF Spec
<1> QED BY <1>1, <1>2, WalkStep, TypeInvariant, IDsInvariant, QueriesLeaveServiceAlone, PTL DEF QuerySpec

(* A listing read page by page shows every event that matched at its       *)
(* start, none twice and in order, however many are received meanwhile,    *)
(* when none of them is processed again and no receipt is replaced         *)
(* (query.go:18-56, 101-111).                                              *)
THEOREM ListingsAreComplete == QuerySpec => []ListingComplete
<1>1. WalkInv => ListingComplete
  <2> SUFFICES ASSUME WalkInv, walk.step = "done", ~walk.disturbed,
                      walk.filter.status # None => Settled
               PROVE  /\ walk.first \subseteq Range(walk.listed)
                      /\ \A i, j \in DOMAIN walk.listed :
                            i < j => Precedes(walk.listed[i], walk.listed[j])
    BY DEF ListingComplete
  <2>1. Progress
    BY DEF WalkInv, Calm
  <2> QED BY <2>1 DEF Progress, Shown, Increasing, Range
<1> QED BY <1>1, WalkInvariant, PTL

(* The state of the queries is well typed, the pages that FindEvents cuts  *)
(* out of a listing included (query.go:18-56).                             *)
THEOREM QueryTypes == QuerySpec => []QueryTypeOK
<1>1. TypeInv /\ WalkInv /\ BatchInv /\ ViewInv => QueryTypeOK
  <2> SUFFICES ASSUME TypeInv, WalkInv, BatchInv, ViewInv PROVE QueryTypeOK
    OBVIOUS
  <2>1. view \in View \cup {None}
    BY DEF ViewInv, View, TypeInv, TypeOK
  <2> QED BY <2>1 DEF QueryTypeOK, TypeInv, WalkInv, BatchInv, BatchOf
<1> QED BY <1>1, WalkInvariant, BatchInvariant, ViewInvariant, TypeInvariant, QueriesLeaveServiceAlone, PTL
=============================================================================
