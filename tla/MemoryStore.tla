----------------------------- MODULE MemoryStore -----------------------------
(* The memory store of xuanling-memory: proposals, reviews, record versions, *)
(* the full-text projection, feedback, and the JSONL backup, over one SQLite *)
(* database that several callers share.  A method is split where it releases *)
(* the database: between the snapshot its transaction reads and the write it *)
(* commits, and between the statements it sends to the pool one by one.      *)
(* The database is in WAL mode and pool.begin() is deferred, so a            *)
(* transaction whose snapshot is no longer the last commit when it writes    *)
(* first gets SQLITE_BUSY: "fresh" says that nobody committed since it read. *)
(* A revision of a proposal is 1 while it is pending and 2 once decided, and *)
(* the two full-text tables, always written together, are one set of rows.   *)
EXTENDS Integers, FiniteSets

CONSTANTS
  Callers,    \* tool calls in flight, of one or several processes
  Requests,   \* candidate requests: [id, key, op, scope, target, trev, content]
  Reviews,    \* review requests: [id, key, decision]
  Feedbacks,  \* feedback requests: [event, key, id, rev]
  Scopes,     \* a chain of ancestors: scope -> distance from the innermost
  DedupeKey,  \* compute_dedupe_key: content -> key
  Queries,    \* each query as the set of contents it matches
  MaxExported, \* bound on the proposals of a database that is exported
  NoExport

VARIABLES memDb, memCall, memFile
memVars == <<memDb, memCall, memFile>>

ASSUME MemAssumption ==
  /\ \A r \in Requests : r.op \in {"create", "replace", "archive"} /\ r.scope \in DOMAIN Scopes
  /\ \A r \in Requests : r.trev \in Nat /\ (r.op # "archive" => r.content \in DOMAIN DedupeKey)
  /\ MaxExported \in Nat
  /\ \A r \in Reviews : r.decision \in {"approve", "reject"}
  /\ Scopes \in [DOMAIN Scopes -> Nat]
  /\ \A s, t \in DOMAIN Scopes : Scopes[s] = Scopes[t] => s = t

EmptyDb == [props |-> {}, vers |-> {}, heads |-> {}, reviews |-> {}, fts |-> {}, events |-> {}]
IdleCaller == [pc |-> "idle"]

Ids == {r.id : r \in Requests} \cup {r.target : r \in Requests}
Contents == DOMAIN DedupeKey
Row(r, status) == [id |-> r.id, key |-> r.key, op |-> r.op, scope |-> r.scope, target |-> r.target,
                   trev |-> r.trev, content |-> r.content, status |-> status]
Proposal == {Row(r, s) : r \in Requests, s \in {"pending", "approved", "rejected"}}

MemTypeOK ==
  /\ memDb.props \subseteq Proposal
  /\ memDb.vers \subseteq [id: Ids, rev: Nat \ {0}, scope: DOMAIN Scopes, content: Contents, by: Ids]
  /\ memDb.heads \subseteq [id: Ids, scope: DOMAIN Scopes, key: {DedupeKey[c] : c \in Contents},
                            rev: Nat \ {0}, status: {"active", "archived"}]
  /\ memDb.reviews \subseteq [id: Ids, key: {r.key : r \in Reviews},
                              decision: {"approve", "reject"}, applied: Nat]
  /\ memDb.fts \subseteq [id: Ids, content: Contents]
  /\ memDb.events \subseteq Feedbacks
  /\ \A c \in Callers : memCall[c].pc \in
       {"idle", "propose", "review", "row", "get", "viewed", "feedback", "acked", "export", "import"}
  /\ memFile # NoExport => memFile.props \subseteq Proposal

MemInit ==
  /\ memDb = EmptyDb
  /\ memCall = [c \in Callers |-> IdleCaller]
  /\ memFile = NoExport
-----------------------------------------------------------------------------
(* Transactions *)

BeginCall(c, call) ==
  /\ memCall[c] = IdleCaller
  /\ memCall' = [memCall EXCEPT ![c] = call]
  /\ UNCHANGED <<memDb, memFile>>
Turn(c, call) ==
  /\ memCall' = [memCall EXCEPT ![c] = call]
  /\ UNCHANGED <<memDb, memFile>>

\* The snapshots of the other open transactions are stale from now on.
Outdated(call) == IF "fresh" \in DOMAIN call THEN [call EXCEPT !.fresh = FALSE] ELSE call
CommitWrite(c, db, call) ==
  /\ memDb' = db
  /\ memCall' = [x \in Callers |-> IF x = c THEN call ELSE Outdated(memCall[x])]
  /\ UNCHANGED memFile

\* The unique index memory_active_dedupe, which every write must satisfy.
ActiveDedupe(heads) ==
  \A g, h \in heads : g.status = "active" /\ h.status = "active" /\ g # h
                        => <<g.scope, g.key>> # <<h.scope, h.key>>

\* A write on a stale snapshot, a failed statement, a crash or a dropped
\* connection: the transaction rolls back and the caller has no answer.
RollBack(c) ==
  /\ memCall[c].pc \in {"propose", "review", "feedback", "export", "import"}
  /\ Turn(c, IdleCaller)
-----------------------------------------------------------------------------
(* candidate_create, candidate_replace, candidate_archive *)

Digest(r) == <<r.op, r.scope, r.target, r.trev, r.content>>

\* check_proposal_idempotency: a new key is inserted next; a key that was used
\* with the same digest reads the recorded proposal back; one that was used
\* with another digest is a conflict and changes nothing.
CheckIdempotency(c, r) ==
  \/ /\ ~\E p \in memDb.props : p.key = r.key
     /\ BeginCall(c, [pc |-> "propose", req |-> r, fresh |-> TRUE])
  \/ \E p \in memDb.props :
       /\ p.key = r.key /\ Digest(p) = Digest(r)
       /\ BeginCall(c, [pc |-> "row", id |-> p.id])

\* None of them looks at the records: a target need not exist.
CandidateCreate(c, r) == r.op = "create" /\ CheckIdempotency(c, r)
CandidateReplace(c, r) == r.op = "replace" /\ r.trev >= 1 /\ CheckIdempotency(c, r)
CandidateArchive(c, r) == r.op = "archive" /\ r.trev >= 1 /\ CheckIdempotency(c, r)

\* insert_proposal; proposal_id is the primary key.
ProposeInsert(c) ==
  LET call == memCall[c] IN
  /\ call.pc = "propose" /\ call.fresh
  /\ ~\E p \in memDb.props : p.id = call.req.id
  /\ CommitWrite(c, [memDb EXCEPT !.props = @ \cup {Row(call.req, "pending")}],
            [pc |-> "row", id |-> call.req.id])
-----------------------------------------------------------------------------
(* review *)

\* The status check, which the primary key of memory_reviews and the
\* compare-and-set of the proposal's revision repeat at the write.
Reviewable(p) == p.status = "pending"

\* No review has the key, and the proposal is pending.
ReviewRead(c, r) ==
  /\ ~\E v \in memDb.reviews : v.key = r.key
  /\ \E p \in memDb.props : p.id = r.id /\ Reviewable(p)
  /\ BeginCall(c, [pc |-> "review", req |-> r, fresh |-> TRUE])

\* The key was used for this proposal: load_proposal_in_tx reads the recorded
\* decision, whatever this request says, in the same snapshot.
ReviewReplay(c, r) ==
  \E v \in memDb.reviews, p \in memDb.props :
    /\ v.key = r.key /\ v.id = r.id /\ p.id = r.id
    /\ BeginCall(c, [pc |-> "viewed", status |-> p.status, reviewed |-> TRUE])

Version(id, rev, p) == [id |-> id, rev |-> rev, scope |-> p.scope, content |-> p.content, by |-> p.id]
HeadOf(id, rev, p) ==
  [id |-> id, scope |-> p.scope, key |-> DedupeKey[p.content], rev |-> rev, status |-> "active"]
DeleteFts(fts, id) == {f \in fts : f.id # id}
Duplicate(p, except) ==
  \E h \in memDb.heads : /\ h.status = "active" /\ h.scope = p.scope
                         /\ h.key = DedupeKey[p.content] /\ h.id # except

\* apply_create: the record takes the id of its proposal.
ApplyCreate(p) ==
  IF Duplicate(p, "none") THEN {}
  ELSE {[memDb EXCEPT !.vers = @ \cup {Version(p.id, 1, p)},
                      !.heads = @ \cup {HeadOf(p.id, 1, p)},
                      !.fts = @ \cup {[id |-> p.id, content |-> p.content]}]}

\* apply_replace: only on the active head at the revision the proposal names.
ApplyReplace(p) ==
  {[memDb EXCEPT !.vers = @ \cup {Version(h.id, h.rev + 1, p)},
                 !.heads = (@ \ {h}) \cup {HeadOf(h.id, h.rev + 1, p)},
                 !.fts = DeleteFts(@, h.id) \cup {[id |-> h.id, content |-> p.content]}] :
     h \in {g \in memDb.heads : /\ g.id = p.target /\ g.scope = p.scope
                                /\ g.status = "active" /\ g.rev = p.trev
                                /\ ~Duplicate(p, g.id)}}

\* The revision that was reviewed is not compared.
ApplyArchiveLatest(p) ==
  {[memDb EXCEPT !.heads = (@ \ {h}) \cup {[h EXCEPT !.status = "archived"]},
                 !.fts = DeleteFts(@, h.id)] :
     h \in {g \in memDb.heads : g.id = p.target /\ g.scope = p.scope /\ g.status = "active"}}
\* apply_archive: the head keeps its revision and leaves the projection.
ApplyArchive(p) ==
  {[memDb EXCEPT !.heads = (@ \ {h}) \cup {[h EXCEPT !.status = "archived"]},
                 !.fts = DeleteFts(@, h.id)] :
     h \in {g \in memDb.heads : /\ g.id = p.target /\ g.scope = p.scope
                                /\ g.rev = p.trev /\ g.status = "active"}}

\* The databases an approval may commit: none when it is refused.
Applied(p) ==
  CASE p.op = "create" -> ApplyCreate(p)
    [] p.op = "replace" -> ApplyReplace(p)
    [] OTHER -> ApplyArchive(p)
AppliedRevision(p) ==
  CASE p.op = "create" -> 1
    [] p.op = "replace" -> p.trev + 1
    [] OTHER -> p.trev

\* The review row and the proposal's compare-and-set, in the same transaction.
DecideReview(db, p, r, status, applied) ==
  [db EXCEPT !.reviews = @ \cup {[id |-> p.id, key |-> r.key, decision |-> r.decision, applied |-> applied]},
             !.props = (@ \ {p}) \cup {[p EXCEPT !.status = status]}]

ReviewApprove(c) ==
  LET call == memCall[c] IN
  /\ call.pc = "review" /\ call.fresh /\ call.req.decision = "approve"
  /\ \E p \in memDb.props : \E db \in Applied(p) :
       /\ p.id = call.req.id /\ Reviewable(p)
       /\ ActiveDedupe(db.heads)
       /\ CommitWrite(c, DecideReview(db, p, call.req, "approved", AppliedRevision(p)), [pc |-> "row", id |-> p.id])

ReviewReject(c) ==
  LET call == memCall[c] IN
  /\ call.pc = "review" /\ call.fresh /\ call.req.decision = "reject"
  /\ \E p \in memDb.props :
       /\ p.id = call.req.id /\ Reviewable(p)
       /\ CommitWrite(c, DecideReview(memDb, p, call.req, "rejected", 0), [pc |-> "row", id |-> p.id])
-----------------------------------------------------------------------------
(* candidate_get: two statements on the pool, the proposal row first *)

GetBegin(c, id) == BeginCall(c, [pc |-> "row", id |-> id])
GetRow(c) ==
  /\ memCall[c].pc = "row"
  /\ \E p \in memDb.props :
       /\ p.id = memCall[c].id
       /\ Turn(c, [pc |-> "get", id |-> p.id, status |-> p.status])
GetReview(c) ==
  LET call == memCall[c] IN
  /\ call.pc = "get"
  /\ Turn(c, [pc |-> "viewed", status |-> call.status,
              reviewed |-> \E v \in memDb.reviews : v.id = call.id])
Done(c) == memCall[c].pc \in {"viewed", "acked"} /\ Turn(c, IdleCaller)
-----------------------------------------------------------------------------
(* feedback_event: the lookup and the insert are separate statements *)

FeedbackLookup(c, f) ==
  /\ \E v \in memDb.vers : v.id = f.id /\ v.rev = f.rev
  /\ ~\E e \in memDb.events : e.key = f.key
  /\ BeginCall(c, [pc |-> "feedback", req |-> f])
FeedbackReplay(c, f) ==
  /\ \E e \in memDb.events : e.key = f.key /\ e.event = f.event
  /\ BeginCall(c, [pc |-> "acked", key |-> f.key])

\* A lost race for the key answers with the recorded event; another event of
\* the same id is an error.
FeedbackInsert(c) ==
  LET f == memCall[c].req IN
  /\ memCall[c].pc = "feedback"
  /\ \/ /\ \E e \in memDb.events : e.key = f.key
        /\ Turn(c, [pc |-> "acked", key |-> f.key])
     \/ /\ ~\E e \in memDb.events : e.key = f.key \/ e.event = f.event
        /\ CommitWrite(c, [memDb EXCEPT !.events = @ \cup {f}], [pc |-> "acked", key |-> f.key])
-----------------------------------------------------------------------------
(* rebuild_projection, and the JSONL backup *)

Projection(heads, vers) ==
  {[id |-> v.id, content |-> v.content] :
     v \in {x \in vers : \E h \in heads : h.id = x.id /\ h.rev = x.rev /\ h.status = "active"}}

\* Its first statement writes, so it waits for the lock and is never stale.
Rebuild(c) ==
  /\ memCall[c] = IdleCaller
  /\ CommitWrite(c, [memDb EXCEPT !.fts = Projection(memDb.heads, memDb.vers)], IdleCaller)

\* The projection is not exported.
Exported(db) == [db EXCEPT !.fts = {}]
\* export refuses an existing target, reads every table in one transaction and
\* renames its temporary file over the target.
ExportCheck(c) ==
  /\ memFile = NoExport
  /\ BeginCall(c, [pc |-> "export"])
ExportWrite(c) ==
  /\ memCall[c].pc = "export" /\ Cardinality(memDb.props) <= MaxExported
  /\ memFile' = Exported(memDb)
  /\ memCall' = [memCall EXCEPT ![c] = IdleCaller]
  /\ UNCHANGED memDb

\* The cross-reference and lifecycle validation of import.
ImportValid(file) ==
  LET known(id, rev) == \E v \in file.vers : v.id = id /\ v.rev = rev
      reviewed(p) == \E r \in file.reviews : r.id = p.id
  IN
  /\ \A v \in file.vers : \E p \in file.props : p.id = v.by
  /\ \A h \in file.heads : known(h.id, h.rev)
  /\ \A r \in file.reviews : \E p \in file.props : p.id = r.id
  /\ \A p \in file.props : (p.status # "pending") <=> reviewed(p)
  /\ \A p \in file.props : p.op # "create" => known(p.target, p.trev)
  /\ \A e \in file.events : known(e.id, e.rev)

\* The target's emptiness is read before the transaction begins.
ImportCheck(c) ==
  /\ memFile # NoExport /\ ImportValid(memFile)
  /\ memDb.vers = {} /\ memDb.props = {} /\ memDb.events = {}
  /\ BeginCall(c, [pc |-> "import"])

\* Every primary key and unique column of the rows is new.
NewKeys(db, file) ==
  /\ \A x \in file.vers, y \in db.vers : <<x.id, x.rev>> # <<y.id, y.rev>>
  /\ \A x \in file.heads, y \in db.heads : x.id # y.id
  /\ \A x \in file.props, y \in db.props : x.id # y.id /\ x.key # y.key
  /\ \A x \in file.reviews, y \in db.reviews : x.id # y.id /\ x.key # y.key
  /\ \A x \in file.events, y \in db.events : x.event # y.event /\ x.key # y.key
Imported(db, file) ==
  LET vers == db.vers \cup file.vers
      heads == db.heads \cup file.heads
  IN [props |-> db.props \cup file.props, vers |-> vers, heads |-> heads,
      reviews |-> db.reviews \cup file.reviews, events |-> db.events \cup file.events,
      fts |-> Projection(heads, vers)]
ImportWrite(c) ==
  /\ memCall[c].pc = "import"
  /\ NewKeys(memDb, memFile)
  /\ ActiveDedupe(Imported(memDb, memFile).heads)
  /\ CommitWrite(c, Imported(memDb, memFile), IdleCaller)

\* The server is started on a new database path.
Open ==
  /\ memFile # NoExport /\ memDb # EmptyDb
  /\ \A c \in Callers : memCall[c] = IdleCaller
  /\ memDb' = EmptyDb
  /\ UNCHANGED <<memCall, memFile>>

MemNext ==
  \/ Open
  \/ \E c \in Callers :
       \/ RollBack(c) \/ ProposeInsert(c) \/ ReviewApprove(c) \/ ReviewReject(c)
       \/ GetRow(c) \/ GetReview(c) \/ Done(c)
       \/ FeedbackInsert(c) \/ Rebuild(c)
       \/ ExportCheck(c) \/ ExportWrite(c) \/ ImportCheck(c) \/ ImportWrite(c)
       \/ \E p \in memDb.props : GetBegin(c, p.id)
       \/ \E r \in Requests : CandidateCreate(c, r) \/ CandidateReplace(c, r) \/ CandidateArchive(c, r)
       \/ \E r \in Reviews : ReviewRead(c, r) \/ ReviewReplay(c, r)
       \/ \E f \in Feedbacks : FeedbackLookup(c, f) \/ FeedbackReplay(c, f)
MemSpec == MemInit /\ [][MemNext]_memVars
-----------------------------------------------------------------------------
(* search_v2: one read transaction, over the projection or, for a query of   *)
(* one or two characters, over the record rows                                *)

Visible(scope, mode) ==
  IF mode = "exact" THEN {scope} ELSE {s \in DOMAIN Scopes : Scopes[s] >= Scopes[scope]}
ActiveIn(scopes) == {h \in memDb.heads : h.status = "active" /\ h.scope \in scopes}
CurrentContent(h) == (CHOOSE v \in memDb.vers : v.id = h.id /\ v.rev = h.rev).content
\* One row per dedupe key, the one of the nearest scope.
Nearest(heads) ==
  {h \in heads : ~\E g \in heads : g.key = h.key /\ Scopes[g.scope] < Scopes[h.scope]}

\* The full-text channels match first and rank the matching rows.
FtsCandidates(q, scopes) ==
  Nearest({h \in ActiveIn(scopes) : \E f \in memDb.fts : f.id = h.id /\ f.content \in q})
\* SHORT_SUBSTRING_SQL ranks every visible row and matches what is left.
ShortCandidates(q, scopes) ==
  {h \in Nearest(ActiveIn(scopes)) : CurrentContent(h) \in q}
\* The candidates are loaded and, by content_sha256, the nearest copy is kept.
Search(candidates) ==
  {h \in candidates : ~\E g \in candidates : /\ CurrentContent(g) = CurrentContent(h)
                                             /\ Scopes[g.scope] < Scopes[h.scope]}
-----------------------------------------------------------------------------
(* Properties *)

\* The full-text projection holds exactly the current text of the active
\* records, whatever reviews, imports and rebuilds were interleaved.
ProjectionFresh == memDb.fts = Projection(memDb.heads, memDb.vers)

\* At most one active record of a scope has a given dedupe key, also when two
\* approvals, or an import and an approval, race.
OneActivePerKey ==
  \A g, h \in memDb.heads :
    g.status = "active" /\ h.status = "active" /\ g.scope = h.scope /\ g.key = h.key => g.id = h.id

\* The approved proposals are the history: each create and replace made exactly
\* one version, every version was made by one of them, the revisions of a
\* record have no gap, and its head is at the last with that version's key.
HistoryApplied ==
  LET Made(p) == {v \in memDb.vers : v.by = p.id} IN
  /\ \A p \in memDb.props :
       Cardinality(Made(p)) = IF p.status = "approved" /\ p.op # "archive" THEN 1 ELSE 0
  /\ \A v \in memDb.vers : \E p \in memDb.props : p.id = v.by
  /\ \A v \in memDb.vers : \E h \in memDb.heads : h.id = v.id /\ v.rev <= h.rev
  /\ \A h \in memDb.heads :
       /\ \A r \in 1..h.rev : \E v \in memDb.vers : v.id = h.id /\ v.rev = r
       /\ h.key = DedupeKey[CurrentContent(h)]

\* A change was reviewed against the revision it replaced or archived: of two
\* proposals for one revision at most one is ever applied.
NoLostUpdate ==
  \A p \in memDb.props : p.status = "approved" =>
    CASE p.op = "replace" -> \E v \in memDb.vers : v.by = p.id /\ v.id = p.target /\ v.rev = p.trev + 1
      [] p.op = "archive" -> \E h \in memDb.heads : h.id = p.target /\ h.status = "archived" /\ h.rev = p.trev
      [] OTHER -> TRUE

\* Once read, a decided proposal is shown with its review: candidate_get reads
\* the proposal first and a review is committed with the decision.
TerminalViewHasReview ==
  \A c \in Callers : memCall[c].pc = "viewed" /\ memCall[c].status # "pending" => memCall[c].reviewed

\* An answered feedback is recorded, and a key is counted once however often
\* the call is repeated or raced.
FeedbackCountedOnce ==
  /\ \A c \in Callers : memCall[c].pc = "acked" => \E e \in memDb.events : e.key = memCall[c].key
  /\ \A e, f \in memDb.events : e.key = f.key => e = f

\* On either channel every hit is an active, visible, matching record, no two
\* hits have one dedupe key, and a matching record is missing only when a nearer scope
\* has an active record of the same dedupe key.
SearchFindsNearest ==
  \A q \in Queries, scope \in DOMAIN Scopes, mode \in {"exact", "ancestors"} :
    LET scopes == Visible(scope, mode)
        visible == ActiveIn(scopes)
    IN \A candidates \in {FtsCandidates(q, scopes), ShortCandidates(q, scopes)} :
         LET hits == Search(candidates) IN
         /\ \A h \in hits : h \in visible /\ CurrentContent(h) \in q
         /\ \A g, h \in hits : g.key = h.key => g = h
         /\ \A h \in visible : CurrentContent(h) \in q /\ h \notin hits =>
              \E g \in visible : g.key = h.key /\ Scopes[g.scope] < Scopes[h.scope]

\* The database and what its readers get from it: the approved history, its
\* projection into the search index, reviews and feedback (store/v2.rs).
MemInv ==
  /\ MemTypeOK /\ ProjectionFresh /\ OneActivePerKey /\ HistoryApplied /\ NoLostUpdate
  /\ TerminalViewHasReview /\ FeedbackCountedOnce /\ SearchFindsNearest

\* Record versions and decided proposals are never rewritten or deleted.
HistoryKept ==
  [][\/ Open
     \/ /\ memDb.vers \subseteq memDb'.vers
        /\ {p \in memDb.props : p.status # "pending"} \subseteq memDb'.props]_memVars
=============================================================================
