---------------------------- MODULE RunAdmission ----------------------------
(* Admission of start commands: BlueprintService.admitRun with               *)
(* RunStore.replayRun, RunStore.createRun and CommandAdmission.  A client    *)
(* repeats a command when it got no answer; the runtime may crash, and a     *)
(* write may report an error, before or after it landed, at any step.        *)
(* admissionTail runs one admission at a time, so the order in which clients *)
(* queue up for it does not show: the next request is any request.  A step   *)
(* ends where a durable write has landed or an answer is sent.               *)
EXTENDS RunRecord

CONSTANTS
  Keys,      \* command identities: scope and requestId
  Prints,    \* payload fingerprints
  RunIds,    \* identities newRunId can return
  MaxFaults, \* bound on failing store reads and writes
  MaxExits   \* bound on process exits

ASSUME AdmissionAssumption ==
  /\ None \notin Keys \cup Prints \cup RunIds
  /\ MaxFaults \in Nat /\ MaxExits \in Nat

VARIABLES
  cmds,   \* table commands: the fingerprint a key was admitted with, its Run
  owner,  \* commandKey of each Run record; None: there is no such record
  runs,   \* the Run records
  adm,    \* the admission under way
  jobs,   \* handle.jobs: the Runs that are being driven
  told,   \* ghost: what clients were told, as <<key, fingerprint, run>>
  up,     \* the process and its runtime handle exist
  exits, faults

tables == <<cmds, owner, runs>>
vars == <<tables, adm, jobs, told, up, exits, faults>>

CommandRecord == [fp: Prints \cup {None}, run: RunIds \cup {None}]
NoCommand == [fp |-> None, run |-> None]
ADM_PC == {"idle", "replay", "admit", "put", "bind", "freeze", "schedule"}
NoAdmission == [pc |-> "idle", key |-> None, fp |-> None, run |-> None]

TypeOK ==
  /\ cmds \in [Keys -> CommandRecord]
  /\ owner \in [RunIds -> Keys \cup {None}]
  /\ runs \in [RunIds -> RunRecords]
  /\ adm \in [pc: ADM_PC, key: Keys \cup {None}, fp: Prints \cup {None}, run: RunIds \cup {None}]
  /\ jobs \subseteq RunIds
  /\ told \subseteq Keys \X Prints \X RunIds
  /\ up \in BOOLEAN
  /\ exits \in 0 .. MaxExits /\ faults \in 0 .. MaxFaults
  /\ adm.pc # "idle" => adm.key # None /\ adm.fp # None
  /\ adm.pc \in {"bind", "freeze", "schedule"} => adm.run # None

Init ==
  /\ cmds = [k \in Keys |-> NoCommand]
  /\ owner = [r \in RunIds |-> None]
  /\ runs = [r \in RunIds |-> NewRun(FALSE)]
  /\ adm = NoAdmission
  /\ jobs = {} /\ told = {}
  /\ up = TRUE /\ exits = 0 /\ faults = 0
-----------------------------------------------------------------------------
At(pc) == up /\ adm.pc = pc
Goto(pc) == adm' = [adm EXCEPT !.pc = pc]
Host == UNCHANGED <<up, exits>>
\* The request ends: with an error, or with the Run r as its answer.
Refuse == adm' = NoAdmission /\ UNCHANGED told
Answer(r) == adm' = NoAdmission /\ told' = told \cup {<<adm.key, adm.fp, r>>}
\* The store reports an error; the caller decides what may have landed.
Fails == faults < MaxFaults /\ faults' = faults + 1 /\ Refuse

\* The scan of the Run records for the command's Run, after a crash or a
\* failure between runs.put and bindRun.
NoScan(k) == {}
Original(k) == {r \in RunIds : owner[r] = k}

Begin ==
  /\ At("idle")
  /\ \E k \in Keys, f \in Prints :
       adm' = [pc |-> "replay", key |-> k, fp |-> f, run |-> None]
  /\ UNCHANGED <<tables, jobs, told, faults>> /\ Host

\* replayRun: answer a repeated command before anything new is checked.
SamePayload(k, f) == cmds[k].fp \in {None, f}
Replay ==
  /\ At("replay")
  /\ LET cmd == cmds[adm.key] IN
     \/ ~SamePayload(adm.key, adm.fp) /\ Refuse
     \/ SamePayload(adm.key, adm.fp) /\ cmd.run # None /\ Answer(cmd.run)
     \/ SamePayload(adm.key, adm.fp) /\ cmd.run = None /\ \E r \in Original(adm.key) : Answer(r)
     \/ /\ SamePayload(adm.key, adm.fp) /\ cmd.run = None /\ Original(adm.key) = {}
        /\ Goto("admit") /\ UNCHANGED told
  /\ UNCHANGED <<tables, jobs, faults>> /\ Host

\* The queue limit, the preflight or the Team provider refuses a new Run.
Blocked ==
  /\ At("admit")
  /\ Refuse
  /\ UNCHANGED <<tables, jobs, faults>> /\ Host

\* A read fails: the lookup of the command or of its Run, or the last look at
\* the new Run before it is scheduled.
ReadFails ==
  /\ up /\ adm.pc \in {"replay", "admit", "schedule"}
  /\ Fails
  /\ UNCHANGED <<tables, jobs>> /\ Host

\* CommandAdmission.admit: a new command gets its record.  A known one is
\* scanned for again; replayRun has answered it when there is a Run.
Admit ==
  /\ At("admit")
  /\ \/ /\ cmds[adm.key].fp = adm.fp /\ Original(adm.key) = {}
        /\ Goto("put") /\ UNCHANGED <<cmds, told, faults>>
     \/ /\ cmds[adm.key].fp = None
        /\ LET next == [cmds EXCEPT ![adm.key] = [fp |-> adm.fp, run |-> None]] IN
           \/ cmds' = next /\ Goto("put") /\ UNCHANGED <<told, faults>>
           \/ cmds' \in {cmds, next} /\ Fails
  /\ UNCHANGED <<owner, runs, jobs>> /\ Host

\* The new Run record, under a fresh identity.
Put ==
  /\ At("put")
  /\ \E r \in RunIds :
       /\ owner[r] = None
       /\ LET next == [owner EXCEPT ![r] = adm.key] IN
          \/ /\ owner' = next
             /\ adm' = [adm EXCEPT !.pc = "bind", !.run = r] /\ UNCHANGED <<told, faults>>
          \/ owner' \in {owner, next} /\ Fails
  /\ UNCHANGED <<cmds, runs, jobs>> /\ Host

\* bindRun: the command's record gets its Run.
Bound(r) == [cmds EXCEPT ![adm.key] = [@ EXCEPT !.run = r]]
Bind ==
  /\ At("bind")
  /\ \/ cmds' = Bound(adm.run) /\ Goto("freeze") /\ UNCHANGED <<told, faults>>
     \/ cmds' \in {cmds, Bound(adm.run)} /\ Fails
  /\ UNCHANGED <<owner, runs, jobs>> /\ Host

\* What a transition leaves behind: the store may refuse it.
Written(r, ok, next) == IF ok /\ Applies(r, next) THEN next ELSE r
Captured(r) == Written(r, SetBindingDigestsOk(r), SetBindingDigests(r))
SettledRun(r, t) == Written(r, SettleTerminalOk(r, t), SettleTerminal(r, t))

\* Freeze the package and capture the bindings; a Run that was cancelled
\* meanwhile refuses them.
Freeze ==
  /\ At("freeze") /\ ~Terminal(runs[adm.run])
  /\ runs' = [runs EXCEPT ![adm.run] = Captured(@)]
  /\ Goto("schedule")
  /\ UNCHANGED <<cmds, owner, jobs, told, faults>> /\ Host

\* Freezing fails, or capturing reports an error after it landed; then the
\* Run is settled as failed, and that write may report an error as well.
FreezeFails ==
  /\ At("freeze")
  /\ \E landed, error \in BOOLEAN :
       LET cost == (IF landed THEN 1 ELSE 0) + (IF error THEN 1 ELSE 0)
           left == IF landed THEN Captured(runs[adm.run]) ELSE runs[adm.run]
       IN  /\ faults + cost <= MaxFaults /\ faults' = faults + cost
           /\ \E r \in {SettledRun(left, "failed")} \cup (IF error THEN {left} ELSE {}) :
                runs' = [runs EXCEPT ![adm.run] = r]
  /\ Refuse
  /\ UNCHANGED <<cmds, owner, jobs>> /\ Host

ScheduleRun ==
  /\ At("schedule")
  /\ jobs' = jobs \cup {adm.run}
  /\ Answer(adm.run)
  /\ UNCHANGED <<tables, faults>> /\ Host
-----------------------------------------------------------------------------
(* The rest of a Run's life, as far as admission sees it. *)

\* The job of a Run ends with a settlement; RunDriver has the details.
JobEnds(r) ==
  /\ up /\ r \in jobs
  /\ jobs' = jobs \ {r}
  /\ \E t \in {"succeeded", "failed", "recovery_required"} :
       runs' = [runs EXCEPT ![r] = SettledRun(@, t)]
  /\ UNCHANGED <<cmds, owner, adm, told, faults>> /\ Host

CancelRun(r) ==
  /\ up /\ owner[r] # None /\ RequestCancelOk(runs[r])
  /\ runs' = [runs EXCEPT ![r] = RequestCancel(@)]
  /\ UNCHANGED <<cmds, owner, adm, jobs, told, faults>> /\ Host

\* What is in memory is lost; the client of the admission gets no answer.
Exit ==
  /\ up /\ exits < MaxExits
  /\ up' = FALSE /\ exits' = exits + 1
  /\ adm' = NoAdmission /\ jobs' = {}
  /\ UNCHANGED <<tables, told, faults>>

\* openRuntime: the startup scan, then a job for every Run still open.
OpenStates == {"queued", "running", "cancelling"}
Restart ==
  /\ ~up /\ up' = TRUE
  /\ runs' = [r \in RunIds |-> IF owner[r] = None THEN runs[r] ELSE ReconcileOnStart(runs[r])]
  /\ jobs' = {r \in RunIds : owner[r] # None /\ runs'[r].state \in OpenStates}
  /\ UNCHANGED <<cmds, owner, adm, told, exits, faults>>

Next ==
  \/ Begin \/ Replay \/ Blocked \/ ReadFails \/ Admit \/ Put \/ Bind
  \/ Freeze \/ FreezeFails \/ ScheduleRun \/ Exit \/ Restart
  \/ \E r \in RunIds : JobEnds(r) \/ CancelRun(r)

Spec == Init /\ [][Next]_vars
-----------------------------------------------------------------------------
\* A start command creates at most one Run, however often it is repeated and
\* whatever crashes and failing writes separate its steps.
OneRunPerCommand ==
  \A r, s \in RunIds : owner[r] # None /\ owner[r] = owner[s] => r = s

\* All answers to one command agree: the same Run, for the same payload.
AnswersAgree == \A x, y \in told : x[1] = y[1] => x = y

\* An interrupted admission fails closed: no Run whose bindings were not
\* captured is driven, after a crash and a restart neither.
DrivenIsCaptured == \A r \in jobs : owner[r] # None /\ runs[r].admission = "captured"

\* While storage works, a queued Run has a job as soon as no admission is
\* under way, so a client that was told "queued" is not left waiting.
QueuedIsDriven ==
  up /\ adm.pc = "idle" /\ faults = 0 =>
    \A r \in RunIds : owner[r] # None /\ runs[r].state = "queued" => r \in jobs

\* What admission keeps: its tables and steps are well formed, a command has
\* one Run and one answer, only captured Runs are driven, and a queued Run is
\* (admitRun, replayRun, bindRun, scheduleRun).
AdmissionInv ==
  TypeOK /\ OneRunPerCommand /\ AnswersAgree /\ DrivenIsCaptured /\ QueuedIsDriven
=============================================================================
