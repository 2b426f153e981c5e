----------------------------- MODULE FileFacade -----------------------------
(***************************************************************************)
(* The filesystem tools of the replacement bundle                          *)
(* (xuanling-tools-replace/filesystem-facade.mjs): read, file_hash, write, *)
(* edit and edit_batch over the private MCP tools.  A session keeps, per   *)
(* file, the last preimage it observed; a mutation names that preimage to  *)
(* the server, and what a call observed is recorded only after the file's  *)
(* Host version was bound to its hash.                                     *)
(*                                                                         *)
(* Every await is a step: calls of several sessions and writers outside    *)
(* the tools interleave.  A digest is modelled by the content it digests,  *)
(* and a file by the sequence of the contents it has had: its Host version *)
(* is the length of that sequence.                                         *)
(***************************************************************************)
EXTENDS Integers, Sequences

LOCAL INSTANCE SequencesExt

CONSTANTS Callers,      \* tool calls run by agents, one at a time each
          Talks,        \* the agent sessions
          TalkOf,       \* the session each caller belongs to
          FFiles, Texts,
          Edits,        \* [from, to, planned]: an edit that matches `from` once; the server
                        \* makes `to` of it and String.replace makes `planned`
          Gone,         \* no file, no text
          MaxWrites,    \* bound: changes of all files
          MaxToolCalls  \* bound: calls of all callers

ASSUME FacadeAssumption ==
    /\ TalkOf \in [Callers -> Talks] /\ Gone \notin Texts
    /\ Edits \subseteq [from : Texts, to : Texts, planned : Texts]
    /\ {MaxWrites, MaxToolCalls} \subseteq Nat

VARIABLES
    disk,   \* per file: every content it has had, the last one being its content
    obs,    \* per session and file: the observed preimage
    tool,   \* per caller: its call
    past,   \* per session and file: the observations it has had (history)
    begun
facadeVars == <<disk, obs, tool, past, begun>>

\* An observation: the digest, and the body when it was read.
NoObs == [sha |-> Gone, body |-> Gone]
Observations == [sha : Texts \cup {Gone}, body : Texts \cup {Gone}]

Tools == {"read", "file_hash", "write", "edit", "edit_batch"}
\* stat and plan every file, let the server act, bind each file (stat, hash, stat), record.
FSteps == {"idle", "stat", "plan", "serve", "checked", "bind", "hash", "confirm", "settle"}
\* What a call keeps of one file: its preimage, the text it asks for and expects, the
\* text it read or wrote, and the versions and the hash it bound.
NoPlan == [before |-> Gone, create |-> FALSE, to |-> Gone, planned |-> Gone, got |-> Gone,
           v1 |-> 0, hash |-> Gone, v2 |-> 0]
Quiet == [name |-> "read", step |-> "idle", files |-> <<>>, at |-> 1, plans |-> <<>>, dry |-> FALSE,
          wrote |-> FALSE, crossed |-> FALSE, outcome |-> "none"]

Content(f) == Last(disk[f])
Version(f) == Len(disk[f])
Changes == FoldFunction(+, 0, [f \in FFiles |-> Version(f) - 1])

FacadeTypeOK ==
    /\ \A f \in FFiles : disk[f] \in Seq(Texts \cup {Gone}) /\ Version(f) >= 1
    /\ Changes \in 0..MaxWrites + 1
    /\ obs \in [Talks -> [FFiles -> Observations]]
    /\ \A c \in Callers :
        /\ tool[c].name \in Tools /\ tool[c].step \in FSteps
        /\ tool[c].outcome \in {"none", "done", "failed", "lost"}
        /\ tool[c].step # "idle" => tool[c].at \in DOMAIN tool[c].files

FacadeInit ==
    /\ \E x \in Texts : disk = [f \in FFiles |-> <<x>>]
    /\ obs = [s \in Talks |-> [f \in FFiles |-> NoObs]]
    /\ tool = [c \in Callers |-> Quiet]
    /\ past = [s \in Talks |-> [f \in FFiles |-> {}]]
    /\ begun = 0

-----------------------------------------------------------------------------
(* Calls begin once the tool runtime allows them; a mutation asks the user.  *)

File(c) == tool[c].files[tool[c].at]
Plan(c) == tool[c].plans[tool[c].at]
Seen(c, f) == obs[TalkOf[c]][f]
Mutates(c) == tool[c].name \in {"write", "edit", "edit_batch"}

Begins(c, name, files, plans, dry) ==
    /\ tool[c].step = "idle" /\ begun < MaxToolCalls /\ begun' = begun + 1
    /\ tool' = [tool EXCEPT ![c] = [Quiet EXCEPT !.name = name, !.files = files, !.plans = plans, !.dry = dry,
                                    !.step = IF name = "file_hash" THEN "bind" ELSE "stat"]]
    /\ UNCHANGED <<disk, obs, past>>
BeginRead(c, f) == Begins(c, "read", <<f>>, <<NoPlan>>, FALSE)
BeginHash(c, f) == Begins(c, "file_hash", <<f>>, <<NoPlan>>, FALSE)
BeginWrite(c, f, x) == Begins(c, "write", <<f>>, <<[NoPlan EXCEPT !.to = x, !.planned = x]>>, FALSE)
AsPlan(e) == [NoPlan EXCEPT !.before = e.from, !.to = e.to, !.planned = e.planned]
BeginEdit(c, f, e) == Begins(c, "edit", <<f>>, <<AsPlan(e)>>, FALSE)
BeginBatch(c, f, g, e, d, dry) == f # g /\ Begins(c, "edit_batch", <<f, g>>, <<AsPlan(e), AsPlan(d)>>, dry)

Ends(c, outcome) ==
    [tool EXCEPT ![c] = [Quiet EXCEPT !.outcome = outcome, !.wrote = tool[c].wrote, !.crossed = tool[c].wrote /\ tool[c].crossed]]
\* The call throws: what it did to the disk stays, what it would have recorded does not.
Throws(c, outcome) == tool' = Ends(c, outcome) /\ UNCHANGED <<disk, obs, past, begun>>
\* An abort, or a tool gone from the bridge, at any await.
Fails(c) == tool[c].step \notin {"idle", "settle"} /\ Throws(c, "lost")

Goes(c, step) == tool' = [tool EXCEPT ![c].step = step]

\* regularFileInfo: only write takes an absent file, as a creation.
StatFile(c) ==
    /\ tool[c].step = "stat"
    /\ IF Content(File(c)) = Gone
       THEN IF tool[c].name = "write"
            THEN tool' = [tool EXCEPT ![c].step = "plan", ![c].plans[1].create = TRUE] /\ UNCHANGED <<disk, obs, past, begun>>
            ELSE Throws(c, "failed")
       ELSE Goes(c, IF tool[c].name = "read" THEN "serve" ELSE "plan") /\ UNCHANGED <<disk, obs, past, begun>>

\* observationForTarget and applyLiteralEdits: an overwrite needs the digest this session
\* observed, an edit the body, and the edit has to match that body.
MayPlan(c) ==
    LET o == Seen(c, File(c)) IN
    IF tool[c].name = "write" THEN Plan(c).create \/ o.sha # Gone
    ELSE o.body # Gone /\ Plan(c).before = o.body
PlanFile(c) ==
    /\ tool[c].step = "plan"
    /\ IF ~MayPlan(c) THEN Throws(c, "failed")
       ELSE /\ LET at == tool[c].at
                   t == [tool[c] EXCEPT !.plans[at].before = IF @ = Gone /\ ~Plan(c).create THEN Seen(c, File(c)).sha ELSE @]
               IN tool' = [tool EXCEPT ![c] = IF at < Len(t.files) THEN [t EXCEPT !.at = at + 1, !.step = "stat"]
                                             ELSE [t EXCEPT !.at = 1, !.step = "serve"]]
            /\ UNCHANGED <<disk, obs, past, begun>>

-----------------------------------------------------------------------------
(* The private tools of the server, each one step here (FsChanges models     *)
(* what a batch and a write do inside).                                      *)

\* fs_read_text: the content and its digest.
FsReadText(c) ==
    /\ tool[c].step = "serve" /\ tool[c].name = "read"
    /\ IF Content(File(c)) = Gone THEN Throws(c, "failed")
       ELSE /\ tool' = [tool EXCEPT ![c].plans[1].got = Content(File(c)), ![c].step = "bind"]
            /\ UNCHANGED <<disk, obs, past, begun>>

\* (history) A call under way over a file that someone else changes has been crossed.
Crossing(t, files, me) ==
    [c \in Callers |-> IF c # me /\ \E f \in files : f \in Range(t[c].files) THEN [t[c] EXCEPT !.crossed = TRUE] ELSE t[c]]
Appended(files, text) == [f \in FFiles |-> IF f \in files THEN Append(disk[f], text[f]) ELSE disk[f]]

\* The compare-and-swap of fs_write_text, fs_edit and fs_edit_batch, file by file.
Applies(c, i) ==
    LET p == tool[c].plans[i] now == Content(tool[c].files[i]) IN
    IF p.create THEN now = Gone ELSE now # Gone /\ now = p.before
FsMutates(c) ==
    LET files == Range(tool[c].files)
        text == [f \in files |-> LET i == CHOOSE i \in DOMAIN tool[c].files : tool[c].files[i] = f IN tool[c].plans[i].to]
        served == [i \in DOMAIN tool[c].plans |-> [tool[c].plans[i] EXCEPT !.got = tool[c].plans[i].to]]
    IN
    /\ tool[c].step = "serve" /\ Mutates(c)
    /\ IF \E i \in DOMAIN tool[c].files : ~Applies(c, i) THEN Throws(c, "failed")
       ELSE /\ Changes < MaxWrites
            /\ disk' = IF tool[c].dry THEN disk ELSE Appended(files, text)
            /\ tool' = [(IF tool[c].dry THEN tool ELSE Crossing(tool, files, c)) EXCEPT
                            ![c].wrote = ~tool[c].dry, ![c].plans = served, ![c].step = "checked"]
            /\ UNCHANGED <<obs, past, begun>>
\* The answer's digests are compared with the planned ones; a dry run ends here.
CheckAnswer(c) ==
    /\ tool[c].step = "checked"
    /\ IF \E i \in DOMAIN tool[c].plans : tool[c].plans[i].got # tool[c].plans[i].planned
       THEN Throws(c, "failed")
       ELSE /\ IF tool[c].dry THEN tool' = Ends(c, "done") ELSE Goes(c, "bind")
            /\ UNCHANGED <<disk, obs, past, begun>>

-----------------------------------------------------------------------------
(* hostBoundHash and verifyHostSha, then the record.                         *)

BindStat(c) ==
    /\ tool[c].step = "bind"
    /\ IF Content(File(c)) = Gone THEN Throws(c, "failed")
       ELSE /\ tool' = [tool EXCEPT ![c].plans[tool[c].at].v1 = Version(File(c)), ![c].step = "hash"]
            /\ UNCHANGED <<disk, obs, past, begun>>
BindHash(c) ==
    /\ tool[c].step = "hash"
    /\ IF Content(File(c)) = Gone THEN Throws(c, "failed")
       ELSE /\ tool' = [tool EXCEPT ![c].plans[tool[c].at].hash = Content(File(c)), ![c].step = "confirm"]
            /\ UNCHANGED <<disk, obs, past, begun>>
Bound(p) == p.v1 = p.v2
Expected(c, p) == tool[c].name = "file_hash" \/ p.hash = p.got
ConfirmStat(c) ==
    LET p == [Plan(c) EXCEPT !.v2 = Version(File(c))] IN
    /\ tool[c].step = "confirm"
    /\ IF Content(File(c)) = Gone \/ ~Bound(p) \/ ~Expected(c, p)
       THEN Throws(c, "failed")
       ELSE /\ LET t == [tool[c] EXCEPT !.plans[tool[c].at] = p]
               IN tool' = [tool EXCEPT ![c] = IF t.at < Len(t.files) THEN [t EXCEPT !.at = @ + 1, !.step = "bind"]
                                             ELSE [t EXCEPT !.step = "settle"]]
            /\ UNCHANGED <<disk, obs, past, begun>>

\* file_hash keeps a body only if it has the digest it found.
Hashed(o, p) == [sha |-> p.hash, body |-> IF o.sha = p.hash THEN o.body ELSE Gone]
Observed(c, f) ==
    LET i == CHOOSE i \in DOMAIN tool[c].files : tool[c].files[i] = f
        p == tool[c].plans[i] IN
    IF tool[c].name = "file_hash" THEN Hashed(Seen(c, f), p) ELSE [sha |-> p.got, body |-> p.got]
\* The observation is recorded and the Host told of the version it is of (fs/observed).
Settle(c) ==
    LET s == TalkOf[c] files == Range(tool[c].files)
        now == [f \in FFiles |-> IF f \in files THEN Observed(c, f) ELSE obs[s][f]] IN
    /\ tool[c].step = "settle"
    /\ obs' = [obs EXCEPT ![s] = now]
    /\ past' = [past EXCEPT ![s] = [f \in FFiles |-> IF f \in files THEN @[f] \cup {now[f]} ELSE @[f]]]
    /\ tool' = Ends(c, "done") /\ UNCHANGED <<disk, begun>>

\* Someone else writes, replaces or removes the file.
Outside(f) ==
    /\ Changes < MaxWrites
    /\ \E x \in (Texts \cup {Gone}) \ {Content(f)} : disk' = [disk EXCEPT ![f] = Append(@, x)]
    /\ tool' = Crossing(tool, {f}, Gone) /\ UNCHANGED <<obs, past, begun>>

FacadeNext ==
    \/ \E f \in FFiles : Outside(f)
    \/ \E c \in Callers :
        \/ \E f \in FFiles : \/ BeginRead(c, f) \/ BeginHash(c, f)
                             \/ \E x \in Texts : BeginWrite(c, f, x)
                             \/ \E e \in Edits : BeginEdit(c, f, e)
        \/ \E f, g \in FFiles, e, d \in Edits, dry \in BOOLEAN : BeginBatch(c, f, g, e, d, dry)
        \/ StatFile(c) \/ PlanFile(c) \/ FsReadText(c) \/ FsMutates(c) \/ CheckAnswer(c)
        \/ BindStat(c) \/ BindHash(c) \/ ConfirmStat(c) \/ Settle(c) \/ Fails(c)

FacadeSpec == FacadeInit /\ [][FacadeNext]_facadeVars

-----------------------------------------------------------------------------
(* Properties.                                                               *)

\* No lost update: a text the tools overwrite is one the session of that call had
\* observed (read, hashed or written itself), whatever was written between its
\* observation and the call; a creation replaces nothing.
OverwritesWhatItSaw == [][
    \A c \in Callers : (tool'[c].wrote /\ ~tool[c].wrote) =>
        \A f \in Range(tool[c].files) :
            \/ Content(f) = Gone /\ tool[c].name = "write"
            \/ \E o \in past[TalkOf[c]][f] : o.sha = Content(f) /\ (tool[c].name # "write" => o.body = Content(f))]_facadeVars

\* The body a session keeps is the one its digest is of: a hash of a changed file never
\* leaves the body of the older read behind for an edit to be planned on (file_hash).
BodyIsOfDigest == \A s \in Talks, f \in FFiles : obs[s][f].body # Gone => obs[s][f].body = obs[s][f].sha

\* The version the Host is told of (fs/observed) is one at which the file had the
\* observed content, although stat, hash and stat again are three awaits apart.
VersionIsOfContent == [][
    \A c \in Callers : (tool[c].step = "settle" /\ tool'[c].step = "idle") =>
        \A i \in DOMAIN tool[c].files :
            disk[tool[c].files[i]][tool[c].plans[i].v2] = obs'[TalkOf[c]][tool[c].files[i]].sha]_facadeVars

\* A call that failed although nobody else touched its files did nothing to them: only a
\* lost answer or a crossed file may leave a mutation that its caller saw fail.
FailedAloneIsClean == \A c \in Callers : tool[c].outcome = "failed" => (tool[c].wrote => tool[c].crossed)
=============================================================================
