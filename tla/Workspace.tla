----------------------------- MODULE Workspace -----------------------------
(***************************************************************************)
(* The editing session of the Blueprint canvas                             *)
(* (client/features/authoring/logic/workspace, logic/run): the document on *)
(* screen, its unsaved edits and their copy in browser storage, and the    *)
(* asynchronous use cases that create, load, save, check, run, delete and  *)
(* export it through the host.                                             *)
(*                                                                         *)
(* Two threads of continuations run over one workspace: "fore", the action *)
(* that perform() admits while busy keeps every other command out, and     *)
(* "boot", the initialization a panel starts when it mounts, which takes   *)
(* no turn.  Library listings run beside both.  Each wait for the host is  *)
(* a state of its thread; an answer may be an error although the host did  *)
(* what it was asked.                                                      *)
(*                                                                         *)
(* A definition is one value, and its document revision is that value: two *)
(* saves of the same definition have the same digest.                      *)
(***************************************************************************)
EXTENDS Naturals, FiniteSets, TLC

CONSTANTS
  Libs,          \* the libraries the host serves
  DefaultLib,    \* the one it uses when the client names none
  FirstLib,      \* the library of the asset the panel was opened on
  X,             \* a blueprint id every library may hold
  Values,        \* definitions, Empty among them
  Empty,
  Inputs,        \* Run inputs
  None,
  MaxEdits,      \* bound: edits
  MaxOps,        \* bound: commands
  MaxGestures,   \* bound: edits and commands together
  MaxFaults      \* bound: failed or lost answers and reloads

ASSUME WorkspaceConstants ==
  /\ DefaultLib \in Libs /\ FirstLib \in Libs /\ Empty \in Values
  /\ MaxEdits \in Nat /\ MaxOps \in Nat /\ MaxFaults \in Nat

VARIABLES
  ws,      \* the BlueprintWorkspace
  thread,  \* per thread: the continuation it waits in
  store,   \* browser storage
  host,    \* the documents and Runs of the host
  spent    \* how much of each bound was used

wsVars == <<ws, thread, store, host, spent>>

Drafts == 1 .. (MaxOps + 2 * MaxFaults + 2)   \* each reload and command makes at most two
Ids == {X} \cup Drafts
Scopes == Libs \cup {None}

FirstInput == CHOOSE i \in Inputs : TRUE   \* the "{}" of a new draft

Done == [op |-> "none", pc |-> "done"]
NewSession ==
  [lib |-> DefaultLib, listed |-> FALSE, id |-> None, creation |-> None, doc |-> None,
   edit |-> Empty, base |-> None, gen |-> 0, epoch |-> 0, input |-> FirstInput,
   check |-> None, pending |-> None, run |-> None, read |-> 0, busy |-> FALSE, asked |-> None, raced |-> FALSE]

\* libraryScope: only a host that listed its libraries is given one by name.
Scope == IF ws.listed THEN ws.lib ELSE None
Served(scope) == IF scope = None THEN DefaultLib ELSE scope

Dirty == ws.id # None /\ ws.edit # ws.base

Spend(what) == spent' = [spent EXCEPT ![what] = @ + 1]
CanEdit == spent.edits < MaxEdits /\ spent.edits + spent.ops < MaxGestures
CanAct == spent.ops < MaxOps /\ spent.edits + spent.ops < MaxGestures
CanFault == spent.faults < MaxFaults

---------------------------------------------------------------------------
(* Local state *)

\* A document the host answered the request of frame f with, and (history) the
\* library it is of.
HostDocument(f, val) == [id |-> f.id, val |-> val, lib |-> Served(f.scope)]

\* documentRevision of a document that may be absent.
Revision(doc) == IF doc = None THEN None ELSE doc.val

\* persistDraft: what storage holds once the workspace w has saved its draft.
PersistDraft(s, w, scope) ==
  IF w.id = None THEN s
  ELSE IF w.creation # None
  THEN [s EXCEPT !.fresh[scope] = [creation |-> w.creation, edit |-> w.edit]]
  ELSE [s EXCEPT !.draft[<<scope, w.id>>] =
          [rev |-> Revision(w.doc), edit |-> w.edit]]

\* History: the slots last written by an answer of another library's request,
\* which came after a mounting panel had switched the library under it.
Crossing(s, f) ==
  LET key == <<Scope, f.id>> IN
  [s EXCEPT !.crossed = IF Served(Scope) = Served(f.scope) THEN @ \ {key} ELSE @ \cup {key}]

\* History: the drafts whose stored copy is no longer found where they are, because
\* their session lost its libraries or left before their first save was answered.
Orphaned(lost, id) == IF lost THEN [store EXCEPT !.orphans = @ \cup {id}] ELSE store

\* invalidateCheck
Invalidated(w) ==
  [w EXCEPT !.epoch = @ + 1,
            !.check = IF @ = None THEN None ELSE [@ EXCEPT !.status = "stale"]]

\* checkCurrent: the check b is of what the session w shows.
CheckCurrent(w, b) ==
  /\ b.epoch = w.epoch /\ b.gen = w.gen /\ b.id = w.id
  /\ b.rev = Revision(w.doc) /\ b.input = w.input /\ b.edit = w.edit

\* newWorkspaceDraft: beginDraft, finishDraft.
NewDraft(w, r) ==
  [Invalidated(w) EXCEPT
     !.gen = @ + 1, !.creation = [req |-> r, sent |-> None], !.id = r, !.doc = None,
     !.run = None, !.pending = None, !.check = None, !.input = FirstInput, !.edit = Empty,
     !.base = Empty, !.asked = r, !.raced = FALSE]

\* beginLoad: the old identity goes before the new document is asked for.
BeginLoad(w, id) ==
  [Invalidated(w) EXCEPT
     !.gen = @ + 1, !.creation = None, !.id = None, !.doc = None, !.run = None,
     !.pending = None, !.edit = Empty, !.base = None, !.asked = id, !.raced = FALSE]

NextDraft == spent.drafts + 1

\* A change on the canvas; busy locks the canvas.
Edit(v) ==
  /\ ws.id # None /\ ~ws.busy /\ v # ws.edit
  /\ CanEdit /\ Spend("edits")
  /\ LET w == [Invalidated(ws) EXCEPT !.edit = v, !.raced = FALSE] IN
     /\ ws' = w
     /\ store' = PersistDraft(store, w, Scope)
  /\ UNCHANGED <<thread, host>>

\* The input field stays open while an action runs.
SetInput(i) ==
  /\ i # ws.input
  /\ CanEdit /\ Spend("edits")
  /\ ws' = [Invalidated(ws) EXCEPT !.input = i]
  /\ UNCHANGED <<thread, store, host>>

---------------------------------------------------------------------------
(* Threads *)

\* perform: one foreground action at a time; it remembers the generation.
Begin(op, pc, w) ==
  /\ ~ws.busy /\ CanAct /\ Spend("ops")
  /\ ws' = [w EXCEPT !.busy = TRUE]
  /\ thread' = [thread EXCEPT !.fore =
       [op |-> op, pc |-> pc, gen |-> w.gen, id |-> w.id, scope |-> Scope, sent |-> w.edit,
        creation |-> w.creation, rev |-> w.doc, input |-> w.input, epoch |-> w.epoch]]

Finish(t, w) ==
  /\ thread' = [thread EXCEPT ![t] = Done]
  /\ ws' = IF t = "fore" THEN [w EXCEPT !.busy = FALSE] ELSE w

Wait(t, pc, w) ==
  /\ thread' = [thread EXCEPT ![t].pc = pc]
  /\ ws' = w

At(t, pc) == thread[t].pc = pc
Current(t) == thread[t].gen = ws.gen

\* What the host did with the request the thread waits for.
Accepts(f) ==
  LET stored == host.docs[<<Served(f.scope), f.id>>] IN
  CASE f.pc = "saving" /\ f.creation # None -> stored \in {None, f.creation.sent}
    [] f.pc = "saving" /\ f.creation = None -> stored = Revision(f.rev)
    [] f.pc = "deleting" -> stored \in {None, Revision(f.rev)}
    [] f.pc = "checking" -> stored = Revision(f.rev)
    [] f.pc = "starting" -> \/ \E r \in host.runs : r.req = f.req
                            \/ stored = Revision(f.rev)
    [] f.pc = "document" -> stored # None
    [] OTHER -> TRUE

Performed(f) ==
  LET key == <<Served(f.scope), f.id>> IN
  CASE f.pc = "saving" ->
         [host EXCEPT !.docs[key] = IF f.creation # None THEN f.creation.sent ELSE f.sent]
    [] f.pc = "deleting" -> [host EXCEPT !.docs[key] = None]
    [] f.pc = "starting" ->
         IF \E r \in host.runs : r.req = f.req THEN host
         ELSE [host EXCEPT !.runs = @ \cup
                 {[req |-> f.req, id |-> f.id, rev |-> f.rev.val, input |-> f.input,
                   scope |-> f.scope, session |-> spent.reloads, gen |-> f.gen]}]
    [] OTHER -> host

\* An answer that is an error: the host refused, never heard of the request,
\* or did it and the answer was lost.  A check that fails is marked so.
ErrorAnswer(t) ==
  /\ thread[t].pc \in {"saving", "deleting", "checking", "starting", "document", "exporting", "inspecting"}
  /\ \/ ~Accepts(thread[t]) /\ UNCHANGED <<host, spent>>
     \/ CanFault /\ Spend("faults") /\ UNCHANGED host
     \/ CanFault /\ Spend("faults") /\ Accepts(thread[t]) /\ host' = Performed(thread[t])
  /\ Finish(t, IF At(t, "checking") /\ ws.check # None
               THEN [ws EXCEPT !.check.status = IF CheckCurrent(ws, ws.check) THEN "failed" ELSE "stale"]
               ELSE ws)
  /\ UNCHANGED store

\* The host finds a first definition invalid: only that outcome frees the
\* identity for a corrected payload.
Rejected(t) ==
  /\ At(t, "saving") /\ thread[t].creation # None
  /\ CanFault /\ Spend("faults")
  /\ host.docs[<<Served(thread[t].scope), thread[t].id>>] = None
  /\ LET w == IF ws.creation # None /\ ws.creation.req = thread[t].creation.req
              THEN [ws EXCEPT !.creation.sent = None] ELSE ws
     IN /\ Finish(t, w)
        /\ store' = PersistDraft(store, w, Scope)
  /\ UNCHANGED host

---------------------------------------------------------------------------
(* save, and what goes on from it: check-run, run, export *)

BeginSave(op) ==
  /\ ws.id # None
  /\ LET w == IF ws.creation # None /\ ws.creation.sent = None
              THEN [ws EXCEPT !.creation.sent = ws.edit] ELSE ws
     IN /\ Begin(op, "saving", w)
        /\ store' = IF ws.creation # None THEN PersistDraft(store, w, Scope) ELSE store
  /\ UNCHANGED host

\* The session once the host accepted the save of frame f.
Adopted(w, f) ==
  LET val == IF f.creation # None THEN f.creation.sent ELSE f.sent
      v == IF Revision(w.doc) # val THEN Invalidated(w) ELSE w
  IN [v EXCEPT !.creation = None, !.doc = HostDocument(f, val), !.base = val]

\* The check a preflight will be bound to.
Binding(w, f) ==
  [status |-> "checking", id |-> w.doc.id, rev |-> w.doc.val, input |-> f.input,
   gen |-> f.gen, epoch |-> w.epoch, edit |-> f.sent]

\* Nothing the check is about changed while the save was away.
StillAsSaved(w, f) ==
  /\ w.id # None /\ w.edit = w.base
  /\ w.input = f.input
  /\ w.edit = f.sent
  /\ w.epoch = f.epoch + (IF Revision(f.rev) # Revision(w.doc) THEN 1 ELSE 0)

\* Storage after the host took the save of frame f: a created document leaves
\* the slot of the new draft.
CreatedSlotFreed(s, f) == IF f.creation # None THEN [s EXCEPT !.fresh[Scope] = None] ELSE s
SavedStore(s, w, f) == PersistDraft(CreatedSlotFreed(s, f), w, Scope)

SaveAnswer(t) ==
  /\ At(t, "saving") /\ Accepts(thread[t])
  /\ host' = Performed(thread[t])
  /\ LET f == thread[t]
         w == Adopted(ws, f)
     IN IF ~Current(t)
        THEN Finish(t, ws) /\ store' = Orphaned(f.creation # None, f.id)
        ELSE /\ store' = SavedStore(store, w, f)
             /\ CASE f.op = "save" -> Finish(t, w)
                  [] f.op = "export" ->
                       IF w.edit = w.base THEN Wait(t, "exporting", w) ELSE Finish(t, w)
                  [] OTHER ->
                       IF StillAsSaved(w, f)
                       THEN /\ ws' = [w EXCEPT !.check = Binding(w, f)]
                            /\ thread' = [thread EXCEPT ![t].pc = "checking", ![t].rev = w.doc,
                                                        ![t].epoch = w.epoch]
                       ELSE Finish(t, w)
  /\ UNCHANGED spent

\* The request identity of a start: the one an uncertain start of the same
\* document and input had.
StartRequest(sig) ==
  IF ws.pending # None /\ ws.pending.sig = sig THEN ws.pending.req ELSE spent.starts + 1

\* The report counts only if the session is still the one it was asked for.
\* A run goes on at once unless the report blocks it.
CheckAnswer(t, blocked) ==
  /\ At(t, "checking") /\ Accepts(thread[t])
  /\ LET f == thread[t]
         w == [ws EXCEPT !.check.status = "current"]
         sig == <<f.id, f.rev.val, f.input, Scope>>
         req == StartRequest(sig)
     IN IF ws.check = None \/ ~CheckCurrent(ws, ws.check)
        THEN Finish(t, IF ws.check = None THEN ws ELSE [ws EXCEPT !.check.status = "stale"])
             /\ UNCHANGED spent
        ELSE IF f.op = "check" \/ blocked
        THEN Finish(t, w) /\ UNCHANGED spent
        ELSE /\ ws' = [w EXCEPT !.pending = [sig |-> sig, req |-> req]]
             /\ thread' = [thread EXCEPT ![t] = [pc |-> "starting", req |-> req, scope |-> Scope] @@ f]
             /\ spent' = [spent EXCEPT !.starts = IF req > @ THEN req ELSE @]
  /\ UNCHANGED <<store, host>>

\* The binding of the Run is stored for its blueprint even if navigation went on.
StartAnswer(t) ==
  /\ At(t, "starting") /\ Accepts(thread[t])
  /\ host' = [Performed(thread[t]) EXCEPT !.acked = @ \cup {thread[t].req}]
  /\ LET f == thread[t]
         w == IF ws.pending # None /\ ws.pending.req = f.req THEN [ws EXCEPT !.pending = None] ELSE ws
     IN /\ store' = Crossing([store EXCEPT !.recent[<<Scope, f.id>>] = f.req], f)
        /\ IF Current(t)
           THEN Wait(t, "inspecting", [w EXCEPT !.run = f.req])
           ELSE Finish(t, w)
  /\ UNCHANGED spent

InspectAnswer(t) ==
  /\ At(t, "inspecting")
  /\ Finish(t, ws)
  /\ store' = IF Current(t) /\ ws.run # None /\ ws.id # None
              THEN [store EXCEPT !.recent[<<Scope, ws.id>>] = ws.run] ELSE store
  /\ UNCHANGED <<host, spent>>

BeginExport ==
  /\ ws.id # None
  /\ IF Dirty \/ ws.doc = None THEN BeginSave("export")
     ELSE Begin("export", "exporting", ws) /\ UNCHANGED <<store, host>>

ExportAnswer(t) ==
  /\ At(t, "exporting")
  /\ Finish(t, ws)
  /\ UNCHANGED <<store, host, spent>>

---------------------------------------------------------------------------
(* Drafts, documents and libraries *)

UserDraft ==
  /\ ~ws.busy /\ CanAct
  /\ spent' = [spent EXCEPT !.ops = @ + 1, !.drafts = @ + 1]
  /\ ws' = NewDraft(ws, NextDraft)
  /\ store' = PersistDraft(store, ws', Scope)
  /\ UNCHANGED <<thread, host>>

\* Deleting a draft needs no host.
DeleteDraft ==
  /\ ~ws.busy /\ ws.creation # None /\ CanAct
  /\ spent' = [spent EXCEPT !.ops = @ + 1, !.drafts = @ + 1]
  /\ ws' = NewDraft(ws, NextDraft)
  /\ store' = PersistDraft(store, ws', Scope)
  /\ UNCHANGED <<thread, host>>

BeginDelete ==
  /\ ws.id # None /\ ws.creation = None /\ ws.doc # None
  /\ Begin("delete", "deleting", ws)
  /\ UNCHANGED <<store, host>>

DeleteAnswer(t) ==
  /\ At(t, "deleting") /\ Accepts(thread[t])
  /\ host' = Performed(thread[t])
  /\ LET key == <<Scope, thread[t].id>>
         cleared == Crossing([store EXCEPT !.draft[key] = None, !.recent[key] = None], thread[t])
     IN IF Current(t)
        THEN LET w == NewDraft(ws, NextDraft) IN
             /\ Finish(t, w)
             /\ store' = PersistDraft(cleared, w, Scope)
             /\ spent' = [spent EXCEPT !.drafts = @ + 1]
        ELSE /\ Finish(t, [ws EXCEPT !.raced = @ \/ ws.id = thread[t].id])
             /\ store' = cleared /\ UNCHANGED spent

\* A thread waits for the document it now shows a placeholder of.
Loading(t, op, w, id) ==
  LET v == BeginLoad(w, id) IN
  /\ ws' = IF t = "fore" THEN [v EXCEPT !.busy = TRUE] ELSE v
  /\ thread' = [thread EXCEPT ![t] =
       [op |-> op, pc |-> "document", gen |-> v.gen, id |-> id,
        scope |-> IF v.listed THEN v.lib ELSE None, sent |-> None]]

UserLoad(id) ==
  /\ ~ws.busy /\ CanAct /\ Spend("ops")
  /\ host.docs[<<Served(Scope), id>>] # None
  /\ Loading("fore", "load", ws, id)
  /\ UNCHANGED <<store, host>>

\* What a load does last: bind the Run the blueprint had and look at it.
Loaded(t, w) ==
  LET v == [w EXCEPT !.run = store.recent[<<Scope, w.id>>]] IN
  IF v.run = None THEN Finish(t, v) ELSE Wait(t, "inspecting", v)

DocumentAnswerLate(t) ==   \* mutant: no look at the generation
  /\ At(t, "document") /\ Accepts(thread[t])
  /\ LET f == thread[t]
         val == host.docs[<<Served(f.scope), f.id>>]
     IN Loaded(t, [ws EXCEPT !.id = f.id, !.doc = HostDocument(f, val), !.edit = val, !.base = val])
  /\ UNCHANGED <<store, host, spent>>
DocumentAnswer(t) ==
  /\ At(t, "document") /\ Accepts(thread[t])
  /\ LET f == thread[t]
         val == host.docs[<<Served(f.scope), f.id>>]
         w == [ws EXCEPT !.id = f.id, !.doc = HostDocument(f, val), !.edit = val, !.base = val]
         draft == store.draft[<<Scope, f.id>>]
     IN IF ~Current(t) THEN Finish(t, ws)
        ELSE IF draft # None /\ draft.rev = val
        THEN /\ ws' = w
             /\ thread' = [thread EXCEPT ![t].pc = "validating", ![t].sent = draft.edit]
        ELSE Loaded(t, w)
  /\ UNCHANGED <<store, host, spent>>

\* The stored draft replaces the document on the canvas once the host accepts it,
\* and whatever the user edited or saved in between (history: raced, which a late
\* deletion of what is on screen sets too).
ValidateAnswer(t, ok) ==
  /\ At(t, "validating")
  /\ IF ~Current(t) THEN Finish(t, ws)
     ELSE Loaded(t, IF ok
                    THEN [ws EXCEPT !.edit = thread[t].sent,
                                    !.raced = LET d == store.draft[<<Scope, ws.id>>] IN
                                             d = None \/ d.edit # thread[t].sent]
                    ELSE ws)
  /\ ok \/ CanFault
  /\ spent' = IF ok THEN spent ELSE [spent EXCEPT !.faults = @ + 1]
  /\ UNCHANGED <<store, host>>

\* refreshLibraries: the first listing adopts the library the host prefers, a
\* later one keeps the selection; without an answer no library is named any
\* more.  A listing that a newer one or a navigation overtook is dropped.
Listed(t, ok) ==
  IF Current(t) /\ thread[t].read = ws.read
  THEN [ws EXCEPT !.listed = ok, !.lib = IF ok /\ ~ws.listed THEN DefaultLib ELSE @]
  ELSE ws

\* selectLibrary: another library means another draft, and a new listing.
Selected(w, lib) == NewDraft([w EXCEPT !.lib = lib], NextDraft)

SelectLibrary(lib) ==
  /\ ~ws.busy /\ ws.listed /\ lib # ws.lib /\ CanAct
  /\ spent' = [spent EXCEPT !.ops = @ + 1, !.drafts = @ + 1]
  /\ LET w == [Selected(ws, lib) EXCEPT !.read = @ + 1] IN
     /\ ws' = w
     /\ store' = PersistDraft(store, w, IF w.listed THEN lib ELSE None)
     /\ thread' = [thread EXCEPT !.list = [op |-> "list", pc |-> "listing", gen |-> w.gen, read |-> w.read]]
  /\ UNCHANGED host

ListAnswer(ok) ==
  /\ At("list", "listing")
  /\ ok \/ CanFault
  /\ spent' = IF ok THEN spent ELSE [spent EXCEPT !.faults = @ + 1]
  /\ thread' = [thread EXCEPT !.list = Done]
  /\ ws' = Listed("list", ok)
  /\ store' = Orphaned(ws.listed /\ ~ws'.listed, ws.id)
  /\ UNCHANGED host

\* The picker knows a blueprint by its id, and prefers the current library.
Resolved(id) == IF host.docs[<<ws.lib, id>>] # None THEN {ws.lib}
                ELSE {lib \in Libs : host.docs[<<lib, id>>] # None}

\* selectBlueprint in another library: select it, list again, then load.
UserOpen(lib, id) ==
  /\ ~ws.busy /\ ws.listed /\ lib \in Resolved(id) \ {ws.lib} /\ CanAct
  /\ spent' = [spent EXCEPT !.ops = @ + 1, !.drafts = @ + 1]
  /\ LET w == [Selected(ws, lib) EXCEPT !.read = @ + 1, !.busy = TRUE] IN
     /\ ws' = w
     /\ store' = PersistDraft(store, w, IF w.listed THEN lib ELSE None)
     /\ thread' = [thread EXCEPT !.fore =
          [op |-> "open", pc |-> "relisting", gen |-> w.gen, read |-> w.read, id |-> id]]
  /\ UNCHANGED host

\* A catalog without the blueprint ends the action.
Relisted(ok) ==
  /\ At("fore", "relisting")
  /\ ok \/ CanFault
  /\ spent' = IF ok THEN spent ELSE [spent EXCEPT !.faults = @ + 1]
  /\ LET w == Listed("fore", ok)
         known == host.docs[<<w.lib, thread.fore.id>>] # None
     IN /\ IF known THEN Loading("fore", "open", w, thread.fore.id) ELSE Finish("fore", w)
        /\ store' = Orphaned(ws.listed /\ ~w.listed, ws.id)
  /\ UNCHANGED host

---------------------------------------------------------------------------
(* initializeWorkspace, when a panel mounts *)

BootFrame(pc, w) == [op |-> "boot", pc |-> pc, gen |-> w.gen, id |-> None, scope |-> None,
                     sent |-> None, read |-> w.read]

\* After the initialization, however it ended, the panel opens its asset, if it
\* was given one and the catalog has it.
OpenAsset(w) ==
  LET v == IF w.lib = FirstLib THEN w ELSE Selected(w, FirstLib)
      known == host.docs[<<FirstLib, X>>] # None /\ (w.listed \/ w.lib = FirstLib)
  IN
  /\ IF known THEN Loading("boot", "open", v, X) ELSE Finish("boot", v)
  /\ IF w.lib = FirstLib THEN UNCHANGED <<store, spent>>
     ELSE /\ store' = PersistDraft(store, v, IF v.listed THEN FirstLib ELSE None)
          /\ spent' = [spent EXCEPT !.drafts = @ + 1]

BootListed(ok) ==
  /\ At("boot", "listing")
  /\ ok \/ CanFault
  /\ spent' = IF ok THEN spent ELSE [spent EXCEPT !.faults = @ + 1]
  /\ ws' = Listed("boot", ok)
  /\ thread' = [thread EXCEPT !.boot.pc = "resources"]
  /\ UNCHANGED <<store, host>>

\* The resource listing is back: offer the stored new draft, if nothing is open.
BootResources ==
  /\ At("boot", "resources")
  /\ LET fresh == store.fresh[Scope] IN
     IF Current("boot") /\ ws.id = None /\ fresh # None
     THEN /\ thread' = [thread EXCEPT !.boot = [pc |-> "reviving", fresh |-> fresh] @@ @]
          /\ UNCHANGED <<ws, store, spent>>
     ELSE IF Current("boot") /\ ws.id = None /\ host.docs[<<Served(Scope), X>>] = None
     THEN /\ ws' = NewDraft(ws, NextDraft)
          /\ store' = PersistDraft(store, ws', Scope)
          /\ spent' = [spent EXCEPT !.drafts = @ + 1]
          /\ thread' = [thread EXCEPT !.boot.pc = "open"]
     ELSE /\ thread' = [thread EXCEPT !.boot.pc = "open"]
          /\ UNCHANGED <<ws, store, spent>>
  /\ UNCHANGED host

\* restoreNewDraft: a draft the host accepts keeps its request identity and
\* what it had sent.
BootRevived(ok) ==
  /\ At("boot", "reviving")
  /\ LET fresh == thread.boot.fresh IN
     ws' = IF Current("boot") /\ ok
           THEN [ws EXCEPT !.creation = fresh.creation, !.id = fresh.creation.req,
                           !.edit = fresh.edit, !.base = None, !.asked = fresh.creation.req]
           ELSE ws
  /\ ok \/ CanFault
  /\ spent' = IF ok THEN spent ELSE [spent EXCEPT !.faults = @ + 1]
  /\ thread' = [thread EXCEPT !.boot.pc = "open"]
  /\ UNCHANGED <<store, host>>

BootOpens(asset) ==
  /\ At("boot", "open")
  /\ IF asset THEN OpenAsset(ws)
     ELSE thread' = [thread EXCEPT !.boot = Done] /\ UNCHANGED <<ws, store, spent>>
  /\ UNCHANGED host

---------------------------------------------------------------------------
(* Outside *)

\* The page is reloaded; what was asked of the host may still be done there.
Reload ==
  /\ CanFault /\ spent' = [spent EXCEPT !.faults = @ + 1, !.reloads = @ + 1]
  /\ \/ UNCHANGED host
     \/ /\ thread.fore.pc \in {"saving", "deleting", "starting"} /\ Accepts(thread.fore)
        /\ host' = Performed(thread.fore)
  /\ ws' = NewSession
  /\ thread' = [fore |-> Done, boot |-> BootFrame("listing", NewSession), list |-> Done]
  /\ UNCHANGED store

\* Another client saves or deletes the shared blueprint.
OtherClient(lib, v) ==
  /\ CanFault /\ Spend("faults")
  /\ host.docs[<<lib, X>>] # v
  /\ host' = [host EXCEPT !.docs[<<lib, X>>] = v]
  /\ UNCHANGED <<ws, thread, store>>

---------------------------------------------------------------------------
WsInit ==
  /\ ws = NewSession
  /\ thread = [fore |-> Done, boot |-> BootFrame("listing", NewSession), list |-> Done]
  /\ store = [draft |-> [k \in Scopes \X Ids |-> None], fresh |-> [s \in Scopes |-> None],
              recent |-> [k \in Scopes \X Ids |-> None], crossed |-> {}, orphans |-> {}]
  /\ host \in [docs : {[k \in Libs \X Ids |-> IF k = <<FirstLib, X>> THEN v ELSE None] : v \in {None, Empty}},
               runs : {{}}, acked : {{}}]
  /\ spent = [edits |-> 0, ops |-> 0, faults |-> 0, drafts |-> 0, starts |-> 0, reloads |-> 0]

User ==
  \/ \E v \in Values : Edit(v)
  \/ \E i \in Inputs : SetInput(i)
  \/ \E op \in {"save", "check", "run"} : BeginSave(op)
  \/ BeginExport \/ BeginDelete \/ DeleteDraft \/ UserDraft
  \/ \E id \in Ids : UserLoad(id)
  \/ \E lib \in Libs : SelectLibrary(lib) \/ UserOpen(lib, X)

Answer(t) ==
  \/ SaveAnswer(t) \/ (\E blocked \in BOOLEAN : CheckAnswer(t, blocked)) \/ StartAnswer(t) \/ InspectAnswer(t) \/ ExportAnswer(t)
  \/ DeleteAnswer(t) \/ DocumentAnswer(t) \/ (\E ok \in BOOLEAN : ValidateAnswer(t, ok))
  \/ ErrorAnswer(t) \/ Rejected(t)

Boot ==
  \/ \E ok \in BOOLEAN : BootListed(ok) \/ BootRevived(ok)
  \/ BootResources
  \/ \E asset \in BOOLEAN : BootOpens(asset)

WsNext ==
  \/ User \/ Boot \/ Reload
  \/ \E t \in {"fore", "boot"} : Answer(t)
  \/ \E ok \in BOOLEAN : ListAnswer(ok) \/ Relisted(ok)
  \/ \E lib \in Libs, v \in Values \cup {None} : OtherClient(lib, v)

WsSpec == WsInit /\ [][WsNext]_wsVars

---------------------------------------------------------------------------
WsTypeOK ==
  /\ ws.lib \in Libs /\ ws.listed \in BOOLEAN /\ ws.id \in Ids \cup {None}
  /\ ws.edit \in Values /\ ws.base \in Values \cup {None} /\ ws.input \in Inputs
  /\ ws.check # None => ws.check.status \in {"checking", "current", "stale", "failed"}
  /\ ws.busy = (thread.fore.pc # "done")
  /\ thread.boot.pc \in {"listing", "resources", "reviving", "open", "document", "validating",
                         "inspecting", "done"}
  /\ \A r \in host.runs : r.id \in Ids /\ r.req \in 1 .. spent.starts

\* The canvas never shows one blueprint under the name of another: what it
\* shows is what was asked for last, whatever order the answers came in
\* (generation in workspace-document-navigation.ts).
ShownIsAsked ==
  /\ ws.id \in {None, ws.asked}
  /\ ws.doc # None => ws.doc.id = ws.id

\* A check shown as current is a check of exactly the definition, revision and
\* input on screen (checkCurrent, checkWorkspaceRun).
CheckIsOfShown ==
  (ws.check # None /\ ws.check.status = "current" /\ CheckCurrent(ws, ws.check)) =>
    ws.doc # None /\ ws.check.rev = ws.doc.val /\ ws.edit = ws.doc.val

\* Pressing run again after a start whose answer was lost asks for the same
\* Run: two starts in a row of one document and input make two Runs only when
\* the first was acknowledged (pendingStart in runWorkspace).
StartedOnce ==
  \A a, b \in host.runs :
    (/\ b.req = a.req + 1 /\ a.session = b.session /\ a.gen = b.gen
     /\ <<a.id, a.rev, a.input, a.scope>> = <<b.id, b.rev, b.input, b.scope>>) => a.req \in host.acked

\* A first save may be repeated under its request identity after a lost answer
\* or a reload: what it sends is what the host recorded under that identity,
\* unless the session lost its libraries or opened another document before the
\* save was answered (submittedJson in saveWorkspaceDocument, restoreNewDraft).
CreationRepeatable ==
  LET stored == host.docs[<<Served(Scope), ws.creation.req>>] IN
  (ws.creation # None /\ ws.creation.req \notin store.orphans /\ stored # None) => ws.creation.sent = stored

\* The Run on screen is a Run of the document on screen, in its library, unless an
\* answer of another library's start was stored in its place (runWorkspace,
\* restoreRunBinding).
RunIsOfShown ==
  ws.run # None =>
    \E r \in host.runs :
      /\ r.req = ws.run /\ r.id = ws.id
      /\ <<Scope, ws.id>> \notin store.crossed => Served(r.scope) = ws.doc.lib

\* Unsaved edits on screen, typed or restored, are in browser storage, where a
\* reload finds them, unless a restored draft replaced what the user did while the
\* host looked at it, or a deletion answered late cleared them (persistDraft,
\* restoreDocumentDraft, clearIdentityStorage).
DraftKept ==
  Dirty /\ ~ws.raced =>
    \E s \in Scopes :
      LET kept == IF ws.creation = None THEN store.draft[<<s, ws.id>>] ELSE store.fresh[s] IN
      /\ kept # None /\ kept.edit = ws.edit
      /\ ws.creation # None => kept.creation = ws.creation
============================================================================
