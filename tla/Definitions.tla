---------------------------- MODULE Definitions ----------------------------
(***************************************************************************)
(* One Blueprint package of a library: its definition and resource files,  *)
(* its revision history, the replayable commit that restores a closure,    *)
(* its deletion record, and the requests of the hosts that share it        *)
(* (definition/persist.ts, service/apply-service.ts,                       *)
(* service/document-library.ts, definition/package-create.ts).             *)
(*                                                                         *)
(* A document is a definition with the package files it was saved with;    *)
(* documentRevision, a digest of both, is the document itself here, and    *)
(* semanticRevision is what SemanticRevision keeps of it.  Every path is   *)
(* under lib/, so every file present belongs to the closure.               *)
(*                                                                         *)
(* A host runs its JavaScript on one thread: a section (a load, a          *)
(* proposal, a save) is not interrupted by the same host, but every file   *)
(* it writes is a step of its own, after which it may fail or the host may *)
(* crash, and between which other hosts run.                               *)
(***************************************************************************)
EXTENDS Naturals, Sequences, FiniteSets

CONSTANTS
  Hosts,        \* the processes that share the library
  Definition,   \* the definitions: a body and a layout
  Paths,        \* the package files
  Nothing,
  Retained,     \* RETAINED_REVISIONS
  Slack,        \* REVISION_PRUNE_SLACK
  MaxRequests,  \* bound: requests made
  DefFaults,    \* bound: failed sections, crashes and outside edits
  Uploads       \* the closures a new package may come with

ASSUME DefinitionConstants ==
  /\ Retained \in Nat \ {0} /\ Slack \in Nat
  /\ MaxRequests \in Nat /\ DefFaults \in Nat
  /\ Uploads \subseteq SUBSET Paths

VARIABLES
  root,      \* the package directory: blueprint.json, files, commit intent, deletion
  hist,      \* .revisions: the index and the entry files
  queue,     \* per host: mutations waiting for the document and library tails
  section,   \* per host: the section being run
  defLease,  \* the host that holds the library writer lease
  current,   \* ghost: the document the package stands for
  requests, broke

defVars == <<root, hist, queue, section, defLease, current, requests, broke>>

---------------------------------------------------------------------------
(* Documents and history *)

Closure == SUBSET Paths           \* the files present; a file has one content
Document == [def : Definition, files : Closure]
ASSUME NothingElse ==
  /\ Nothing \notin Hosts /\ Nothing \notin Definition
  /\ (\A c \in Closure : c # Nothing) /\ Nothing \notin Document /\ Nothing \notin [doc : Document, cleanup : Closure]

\* The layout of a definition takes no part in the semantic revision.
SemanticRevision(doc) == [body |-> doc.def.body, files |-> doc.files]

Stored == IF root.def = Nothing THEN Nothing ELSE [def |-> root.def, files |-> root.files]

InIndex(h, r) == \E i \in DOMAIN h.index : h.index[i].revision = r
Listed == {hist.index[i].revision : i \in DOMAIN hist.index}

\* The entry file of a listed revision, or its index record when there is no file.
LoadRevisionEntry(h, r) ==
  IF r \in DOMAIN h.entry THEN h.entry[r]
  ELSE [parent |-> h.index[CHOOSE i \in DOMAIN h.index : h.index[i].revision = r].parent,
        files |-> Nothing]

\* The listed ancestors of a revision, nearest first, up to the first one that
\* carries its files; the walk ends at a parent that is not listed or was seen.
Ancestry(h, r) ==
  LET grow(walk) ==
        LET e == LoadRevisionEntry(h, walk[Len(walk)]) IN
        IF \/ e.files # Nothing
           \/ e.parent = Nothing
           \/ ~InIndex(h, e.parent)
           \/ \E i \in DOMAIN walk : walk[i] = e.parent
        THEN walk ELSE Append(walk, e.parent)
      walk[n \in 0 .. Len(h.index)] == IF n = 0 THEN <<r>> ELSE grow(walk[n - 1])
  IN walk[Len(h.index)]

InheritedPackageFiles(h, r) ==
  LET walk == Ancestry(h, r) IN LoadRevisionEntry(h, walk[Len(walk)]).files

\* readRevision: a closure whose digests are not the revision's own is rejected.
ReadRevision(h, r) ==
  IF InIndex(h, r) /\ InheritedPackageFiles(h, r) = r.files THEN r.files ELSE Nothing

---------------------------------------------------------------------------
(* Sections *)

\* A request: the definition to publish, the closure to restore with it (None
\* keeps the package's files), the revision it expects to replace, and whether
\* the host vouched for it.
Request(def, files, expected, approved) ==
  [def |-> def, files |-> files, expected |-> expected, approved |-> approved]

Section(kind, req) ==
  [kind |-> kind, pc |-> "load", req |-> req, stored |-> Nothing, rm |-> {}, put |-> {}, drop |-> {},
   own |-> FALSE]
IdleRequest == [Section("none", Nothing) EXCEPT !.pc = "idle"]

BeginRequest(h, kind, req) == section' = [section EXCEPT ![h] = Section(kind, req)]
End(h) ==
  /\ section' = [section EXCEPT ![h] = IdleRequest]
  /\ defLease' = IF defLease = h THEN Nothing ELSE defLease
Enqueue(h, kind, req) == queue' = [queue EXCEPT ![h] = Append(@, [kind |-> kind, req |-> req])]
DefAt(h, pc) == section[h].pc = pc
GoTo(h, pc) == section' = [section EXCEPT ![h].pc = pc]

\* The document a save would publish.
Candidate(h) ==
  LET req == section[h].req IN
  [def |-> req.def, files |-> IF req.files = Nothing THEN root.files ELSE req.files]

CountRequest == requests < MaxRequests /\ requests' = requests + 1

\* loadDefinition, listDefinitions, workflowGet and the library scan.
Read(h) ==
  /\ DefAt(h, "idle")
  /\ BeginRequest(h, "read", Nothing)
  /\ UNCHANGED <<root, hist, queue, defLease, current, requests, broke>>

\* workflow_apply and saveDefinition build their candidate before they queue.
Propose(h, def, expected, approved) ==
  /\ DefAt(h, "idle") /\ CountRequest
  /\ BeginRequest(h, "propose", Request(def, Nothing, expected, approved))
  /\ UNCHANGED <<root, hist, queue, defLease, current, broke>>

\* workflow_revert and restoreDefinitionRevision read the revision's frozen closure.
Revert(h, r, expected, approved) ==
  /\ DefAt(h, "idle") /\ CountRequest
  /\ ReadRevision(hist, r) # Nothing
  /\ BeginRequest(h, "propose", Request(r.def, ReadRevision(hist, r), expected, approved))
  /\ UNCHANGED <<root, hist, queue, defLease, current, broke>>

\* createDefinition: a first save, which expects that there is none.
CreateDefinition(h, def) ==
  /\ DefAt(h, "idle") /\ CountRequest
  /\ Enqueue(h, "apply", Request(def, Nothing, Nothing, TRUE))
  /\ UNCHANGED <<root, hist, section, defLease, current, broke>>

\* createBlueprint: a first save that brings its files.
CreateBlueprint(h, def, files) ==
  /\ DefAt(h, "idle") /\ CountRequest
  /\ Enqueue(h, "publish", Request(def, files, Nothing, TRUE))
  /\ UNCHANGED <<root, hist, section, defLease, current, broke>>

DeleteDefinition(h, expected) ==
  /\ DefAt(h, "idle") /\ CountRequest
  /\ ~root.deleted
  /\ Enqueue(h, "delete", Request(Nothing, Nothing, expected, TRUE))
  /\ UNCHANGED <<root, hist, section, defLease, current, broke>>

\* withLibraryMutation: the head of the queue takes the writer lease, or is refused.
Start(h) ==
  /\ DefAt(h, "idle") /\ queue[h] # <<>>
  /\ queue' = [queue EXCEPT ![h] = Tail(@)]
  /\ IF defLease = Nothing
     THEN defLease' = h /\ BeginRequest(h, Head(queue[h]).kind, Head(queue[h]).req)
     ELSE UNCHANGED <<defLease, section>>
  /\ UNCHANGED <<root, hist, current, requests, broke>>

\* recoverDefinitionCommit up to the first byte written: an intent whose closure
\* history does not hold is never replayed.
BeginReplay(h, own) ==
  IF ReadRevision(hist, root.intent.doc) = root.intent.doc.files
  THEN /\ section' = [section EXCEPT
            ![h].pc = "replay", ![h].own = own,
            ![h].rm = root.intent.cleanup \ root.intent.doc.files,
            ![h].put = root.intent.doc.files,
            ![h].stored = root.intent.doc]
       /\ UNCHANGED defLease
  ELSE End(h)

\* loadConfiguredPackage: refuse a deleted package, replay a pending commit,
\* then read the definition and its files.
Load(h) ==
  /\ DefAt(h, "load")
  /\ IF root.deleted THEN End(h)
     ELSE IF root.intent # Nothing THEN BeginReplay(h, FALSE)
     ELSE /\ section' = [section EXCEPT ![h].pc = "loaded", ![h].stored = Stored]
          /\ UNCHANGED defLease
  /\ UNCHANGED <<root, hist, queue, current, requests, broke>>

\* applyPackageClosure, one file: first what the closure lacks goes, then each
\* of its files is written.
ReplayFile(h, p) ==
  /\ DefAt(h, "replay")
  /\ LET s == section[h] IN
     \/ /\ p \in s.rm
        /\ root' = [root EXCEPT !.files = @ \ {p}]
        /\ section' = [section EXCEPT ![h].rm = @ \ {p}]
     \/ /\ s.rm = {} /\ p \in s.put
        /\ root' = [root EXCEPT !.files = @ \cup {p}]
        /\ section' = [section EXCEPT ![h].put = @ \ {p}]
  /\ UNCHANGED <<hist, queue, defLease, current, requests, broke>>

\* The restored files must be exactly the commit's before blueprint.json follows.
ReplayDefinition(h) ==
  /\ DefAt(h, "replay") /\ section[h].rm = {} /\ section[h].put = {}
  /\ IF root.files = section[h].stored.files
     THEN /\ root' = [root EXCEPT !.def = section[h].stored.def]
          /\ GoTo(h, "clear")
          /\ UNCHANGED defLease
     ELSE End(h) /\ UNCHANGED root
  /\ UNCHANGED <<hist, queue, current, requests, broke>>

\* The intent goes last; removing one another host removed already is an error.
ClearIntent(h) ==
  /\ DefAt(h, "clear")
  /\ root' = [root EXCEPT !.intent = Nothing]
  /\ IF root.intent = Nothing \/ section[h].own
     THEN End(h)
     ELSE /\ section' = [section EXCEPT ![h].pc = "load", ![h].stored = Nothing]
          /\ UNCHANGED defLease
  /\ UNCHANGED <<hist, queue, current, requests, broke>>

\* diff: does the proposal change what the document means?
SemanticChanged(h) ==
  \/ section[h].stored = Nothing
  \/ SemanticRevision(section[h].stored) # SemanticRevision(Candidate(h))

\* A proposal queues its apply, unless it needs an approval it does not have.
DecideProposal(h) ==
  /\ DefAt(h, "loaded") /\ section[h].kind = "propose"
  /\ IF SemanticChanged(h) /\ ~section[h].req.approved
     THEN UNCHANGED queue
     ELSE Enqueue(h, "apply", section[h].req)
  /\ End(h)
  /\ root' = [root EXCEPT !.dir = TRUE]     \* persistCandidate makes .candidates
  /\ UNCHANGED <<hist, current, requests, broke>>

EndRead(h) ==
  /\ DefAt(h, "loaded") /\ section[h].kind = "read"
  /\ End(h)
  /\ UNCHANGED <<root, hist, queue, current, requests, broke>>

\* Mutant: the proposal's own check is trusted.
CompareNothing(h) == TRUE
\* The compare of the compare-and-swap, on the document just loaded.
Compare(h) == section[h].stored = section[h].req.expected

DecideApply(h) ==
  /\ DefAt(h, "loaded") /\ section[h].kind = "apply"
  /\ IF Compare(h)
     THEN GoTo(h, "entry") /\ UNCHANGED defLease
     ELSE End(h)
  /\ root' = [root EXCEPT !.dir = @ \/ Compare(h)]
  /\ UNCHANGED <<hist, queue, current, requests, broke>>

DecideDelete(h) ==
  /\ DefAt(h, "loaded") /\ section[h].kind = "delete"
  /\ root' = [root EXCEPT !.deleted = section[h].stored # Nothing /\ Compare(h)]
  /\ End(h)
  /\ UNCHANGED <<hist, queue, current, requests, broke>>

\* publishPackage renames a complete staged directory into place.
DecidePublish(h) ==
  /\ DefAt(h, "loaded") /\ section[h].kind = "publish"
  /\ LET doc == Candidate(h) IN
     IF section[h].stored # Nothing \/ root.dir
     THEN UNCHANGED <<root, hist, current>>
     ELSE /\ root' = [root EXCEPT !.def = doc.def, !.files = doc.files, !.dir = TRUE]
          /\ hist' = [index |-> <<[revision |-> doc, parent |-> Nothing]>>,
                      entry |-> [r \in {doc} |-> [parent |-> Nothing, files |-> doc.files]]]
          /\ current' = doc
  /\ End(h)
  /\ UNCHANGED <<queue, requests, broke>>

---------------------------------------------------------------------------
(* appendRevisionHistory *)

\* The files a new entry carries: none if the document it replaces holds them.
EntryFiles(h) ==
  LET s == section[h] IN
  IF /\ s.req.files = Nothing /\ s.stored # Nothing
     /\ ReadRevision(hist, s.stored) # Nothing
     /\ SemanticRevision(s.stored) = SemanticRevision(Candidate(h))
  THEN Nothing ELSE Candidate(h).files

WithEntry(r, e) ==
  [hist EXCEPT !.entry = [x \in DOMAIN hist.entry \cup {r} |-> IF x = r THEN e ELSE hist.entry[x]]]

AppendEntry(h) ==
  /\ DefAt(h, "entry")
  /\ LET doc == Candidate(h) IN
     IF InIndex(hist, doc)
     THEN GoTo(h, "publish") /\ UNCHANGED hist
     ELSE /\ hist' = WithEntry(doc, [parent |-> section[h].stored, files |-> EntryFiles(h)])
          /\ GoTo(h, IF Len(hist.index) + 1 > Retained + Slack THEN "prune" ELSE "index")
  /\ UNCHANGED <<root, queue, defLease, current, requests, broke>>

NextIndex(h) == Append(hist.index, [revision |-> Candidate(h), parent |-> section[h].stored])
Excess(h) == Len(NextIndex(h)) - Retained
Dropped(h) == {NextIndex(h)[i].revision : i \in 1 .. Excess(h)}
KeptIndex(h) == SubSeq(NextIndex(h), Excess(h) + 1, Len(NextIndex(h)))

\* Mutant: pruning materializes nothing.
CrossesNothing(h, r) == FALSE
\* The retained revisions whose closure is inherited across a dropped one.
CrossesDropped(h, r) ==
  LET full == [hist EXCEPT !.index = NextIndex(h)]
      walk == Ancestry(full, r)
  IN /\ LoadRevisionEntry(full, r).files = Nothing
     /\ InheritedPackageFiles(full, r) # Nothing
     /\ \E i \in DOMAIN walk : walk[i] \in Dropped(h)

\* materializeForPrune: the oldest of them gets its files written into its own entry.
Materialize(h) ==
  /\ DefAt(h, "prune")
  /\ LET full == [hist EXCEPT !.index = NextIndex(h)]
         todo == {i \in DOMAIN KeptIndex(h) : CrossesDropped(h, KeptIndex(h)[i].revision)}
     IN IF todo = {} THEN GoTo(h, "pruned") /\ UNCHANGED hist
        ELSE LET r == KeptIndex(h)[CHOOSE i \in todo : \A j \in todo : i <= j].revision
             IN /\ hist' = WithEntry(r, [LoadRevisionEntry(full, r) EXCEPT
                                           !.files = InheritedPackageFiles(full, r)])
                /\ UNCHANGED section
  /\ UNCHANGED <<root, queue, defLease, current, requests, broke>>

\* Pruning is housekeeping: if it fails the whole history is kept.
KeepAll(h) ==
  /\ DefAt(h, "prune") /\ broke < DefFaults
  /\ broke' = broke + 1
  /\ GoTo(h, "index")
  /\ UNCHANGED <<root, hist, queue, defLease, current, requests>>

\* The index follows the entries; the files of what left it are removed as far
\* as that works.
WriteIndex(h) ==
  /\ \/ /\ DefAt(h, "index")
        /\ hist' = [hist EXCEPT !.index = NextIndex(h)]
        /\ GoTo(h, "publish")
     \/ /\ DefAt(h, "pruned")
        /\ hist' = [hist EXCEPT !.index = KeptIndex(h)]
        /\ section' = [section EXCEPT ![h].pc = "drop", ![h].drop = Dropped(h)]
  /\ UNCHANGED <<root, queue, defLease, current, requests, broke>>

DropEntries(h, gone) ==
  /\ DefAt(h, "drop") /\ gone \subseteq section[h].drop
  /\ gone # section[h].drop => broke < DefFaults
  /\ hist' = [hist EXCEPT !.entry = [r \in DOMAIN @ \ gone |-> @[r]]]
  /\ section' = [section EXCEPT ![h].pc = "publish", ![h].drop = {}]
  /\ broke' = IF gone = section[h].drop THEN broke ELSE broke + 1
  /\ UNCHANGED <<root, queue, defLease, current, requests>>

---------------------------------------------------------------------------
(* Publication, after history *)

\* A plain save renames blueprint.json into place.
RenameDefinition(h) ==
  /\ DefAt(h, "publish") /\ section[h].req.files = Nothing
  /\ root' = [root EXCEPT !.def = section[h].req.def]
  /\ current' = Candidate(h)
  /\ End(h)
  /\ UNCHANGED <<hist, queue, requests, broke>>

\* A closure restoration makes its intent durable and replays it.
WriteIntent(h) ==
  /\ DefAt(h, "publish") /\ section[h].req.files # Nothing
  /\ root' = [root EXCEPT !.intent = [doc |-> Candidate(h), cleanup |-> root.files]]
  /\ current' = Candidate(h)
  /\ GoTo(h, "recover")
  /\ UNCHANGED <<hist, queue, defLease, requests, broke>>

Recover(h) ==
  /\ DefAt(h, "recover")
  /\ IF root.intent = Nothing
     THEN End(h)
     ELSE BeginReplay(h, TRUE)
  /\ UNCHANGED <<root, hist, queue, current, requests, broke>>

---------------------------------------------------------------------------
(* Faults and the world outside *)

\* An I/O error ends the section; what it wrote stays.
Fail(h) ==
  /\ ~DefAt(h, "idle") /\ broke < DefFaults
  /\ broke' = broke + 1
  /\ End(h)
  /\ UNCHANGED <<root, hist, queue, current, requests>>

\* A crash also loses the host's queue.
Crash(h) ==
  /\ ~DefAt(h, "idle") \/ queue[h] # <<>>
  /\ broke < DefFaults
  /\ broke' = broke + 1
  /\ queue' = [queue EXCEPT ![h] = <<>>]
  /\ End(h)
  /\ UNCHANGED <<root, hist, current, requests>>

\* Somebody edits the package by hand while no section runs.  A pending commit
\* still decides what the package stands for.
OutsideEdit(p) ==
  /\ root.def # Nothing /\ broke < DefFaults
  /\ \A h \in Hosts : DefAt(h, "idle")
  /\ broke' = broke + 1
  /\ root' = [root EXCEPT !.files = IF p \in @ THEN @ \ {p} ELSE @ \cup {p}]
  /\ current' = IF root.intent = Nothing THEN [def |-> root.def, files |-> root'.files] ELSE current
  /\ UNCHANGED <<hist, queue, section, defLease, requests>>

---------------------------------------------------------------------------
EmptyRoot == [def |-> Nothing, files |-> {}, intent |-> Nothing, deleted |-> FALSE, dir |-> FALSE]

DefInit ==
  /\ root = EmptyRoot
  /\ hist = [index |-> <<>>, entry |-> <<>>]
  /\ queue = [h \in Hosts |-> <<>>]
  /\ section = [h \in Hosts |-> IdleRequest]
  /\ defLease = Nothing /\ current = Nothing
  /\ requests = 0 /\ broke = 0

\* What a client may have seen: nothing, the document as it stands, any listed revision.
Expectable == {Nothing, Stored} \cup Listed

SectionStep(h) ==
  \/ Load(h) \/ (\E p \in Paths : ReplayFile(h, p)) \/ ReplayDefinition(h) \/ ClearIntent(h)
  \/ DecideProposal(h) \/ EndRead(h) \/ DecideApply(h) \/ DecideDelete(h) \/ DecidePublish(h)
  \/ AppendEntry(h) \/ Materialize(h) \/ KeepAll(h) \/ WriteIndex(h)
  \/ (\E gone \in SUBSET section[h].drop : DropEntries(h, gone))
  \/ RenameDefinition(h) \/ WriteIntent(h) \/ Recover(h)

Ask(h) ==
  \/ Read(h)
  \/ \E def \in Definition, files \in Uploads : CreateDefinition(h, def) \/ CreateBlueprint(h, def, files)
  \/ \E e \in Expectable \ {Nothing} : DeleteDefinition(h, e)
  \/ \E def \in Definition, e \in Expectable, ok \in BOOLEAN : Propose(h, def, e, ok)
  \/ \E r \in Listed, e \in Expectable \ {Nothing}, ok \in BOOLEAN : Revert(h, r, e, ok)

DefNext ==
  \/ \E h \in Hosts : Ask(h) \/ Start(h) \/ SectionStep(h) \/ Fail(h) \/ Crash(h)
  \/ \E p \in Paths : OutsideEdit(p)

DefSpec == DefInit /\ [][DefNext]_defVars

---------------------------------------------------------------------------
(* Properties *)

DefTypeOK ==
  /\ root.def \in Definition \cup {Nothing} /\ root.files \in Closure
  /\ root.intent = Nothing \/ root.intent \in [doc : Document, cleanup : Closure]
  /\ root.deleted \in BOOLEAN /\ root.dir \in BOOLEAN
  /\ \A i \in DOMAIN hist.index :
       hist.index[i] \in [revision : Document, parent : Document \cup {Nothing}]
  /\ \A r \in DOMAIN hist.entry :
       r \in Document /\ hist.entry[r] \in [parent : Document \cup {Nothing}, files : Closure \cup {Nothing}]
  /\ defLease \in Hosts \cup {Nothing}
  /\ current \in Document \cup {Nothing}
  /\ \A h \in Hosts : section[h].stored \in Document \cup {Nothing}

\* Every listed revision can be restored, at every moment: a layout-only entry
\* inherits its closure through its parents, and no prune, crash in a prune,
\* leftover entry file or re-save of a dropped revision breaks the chain
\* (materializeForPrune, appendRevisionHistory).
HistoryResolves == \A r \in Listed : ReadRevision(hist, r) = r.files

\* A load that succeeds returns the document that was last published or
\* committed to, never a package half way between two closures, whichever
\* section or crash left the commit pending (loadDefinitionPackage,
\* recoverDefinitionCommit).  This is said of one host: a load takes no lease,
\* so another host may publish in between or replay the same commit.
LoadIsWhole ==
  \A h \in Hosts : DefAt(h, "loaded") => section[h].stored = current

\* A durable intent is never one that its own replay would refuse: the history
\* it must match is written first and outlives it (saveDefinitionDocument).
IntentReplayable ==
  root.intent # Nothing => ReadRevision(hist, root.intent.doc) = root.intent.doc.files

\* The library: whatever is listed can be restored, whatever is loaded is one
\* document, and a commit that was begun can be finished (persist.ts).
DefInv == DefTypeOK /\ HistoryResolves /\ LoadIsWhole /\ IntentReplayable

\* A host replaces the document only for a request that expected exactly the
\* document it replaces, whatever was queued, replayed or edited in between
\* (applyInternal, saveDefinitionDocument).  With several hosts it holds until
\* a restoration is pending: a load that finishes one replays it without the
\* lease, over whatever was saved since.
NoLostSave ==
  [][current' # current =>
       \/ UNCHANGED section
       \/ \E h \in Hosts : section'[h] # section[h] /\ section[h].req.expected = current]_defVars

\* What is deleted is frozen: no request already queued, no replay and no
\* first save brings the package back or touches its history
\* (assertDefinitionActive, deleteDefinition).
DeletedStays ==
  [][root.deleted => /\ root'.deleted
                     /\ hist' = hist
                     /\ current' # current => UNCHANGED section]_defVars
============================================================================
