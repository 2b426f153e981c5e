-------------------------- MODULE PersistenceProofs --------------------------
(***************************************************************************)
(* Proofs about what guards the records of the runtime, of the memory      *)
(* store and of the library: the admission of commands (module             *)
(* RunAdmission), the writer lease (module WriterLease), the memory        *)
(* database (module MemoryStore) and the definition library (module        *)
(* Definitions), each for any number of commands, processes, calls, hosts  *)
(* and crashes.                                                            *)
(***************************************************************************)
EXTENDS RunAdmission, WriterLease, MemoryStore, Definitions, RunRecordProofs, FiniteSetTheorems,
        SequenceTheorems, WellFoundedInduction

-----------------------------------------------------------------------------
(* Admission.  A start command creates at most one Run and all its answers    *)
(* agree, only captured Runs are driven and a queued one is, for any number   *)
(* of commands, payloads, crashes and failing writes.                         *)
\* What admission writes to a Run record keeps it well formed.
LEMMA WrittenTypes ==
  ASSUME NEW r \in RunRecords
  PROVE  /\ Captured(r) \in RunRecords
         /\ \A t \in TERMINAL_RUN_STATES \cup {"recovery_required"} : SettledRun(r, t) \in RunRecords
         /\ RequestCancel(r) \in RunRecords
         /\ ReconcileOnStart(r) \in RunRecords
BY AdmissionTypes, SettlementTypes, StageTypes
   DEF Captured, SettledRun, Written, TERMINAL_RUN_STATES, RUN_STATES, ATTEMPT_STATES, TERMINAL_ATTEMPTS

\* Every step of an admission, a job or the process keeps the types.
LEMMA TypeStep ==
  ASSUME TypeOK, [Next]_vars
  PROVE  TypeOK'
<1> USE AdmissionAssumption
<1>1. CASE Begin
  BY <1>1 DEF Begin, TypeOK, At, Host, tables, ADM_PC
<1>2. CASE Replay
  BY <1>2 DEF Replay, TypeOK, At, Host, tables, ADM_PC, Refuse, Answer, Original, Goto, NoAdmission, CommandRecord
<1>3. CASE Blocked \/ ReadFails
  BY <1>3 DEF Blocked, ReadFails, TypeOK, At, Host, tables, ADM_PC, Refuse, Fails, NoAdmission
<1>4. CASE Admit
  BY <1>4 DEF Admit, TypeOK, At, Host, ADM_PC, Refuse, Fails, Goto, NoAdmission, CommandRecord
<1>5. CASE Put
  <2>1. PICK r \in RunIds : owner' \in {owner, [owner EXCEPT ![r] = adm.key]}
                             /\ (adm' = [adm EXCEPT !.pc = "bind", !.run = r] \/ adm' = NoAdmission)
    BY <1>5 DEF Put, Fails, Refuse
  <2>2. owner' \in [RunIds -> Keys \cup {None}]
    BY <1>5, <2>1 DEF TypeOK, Put, At
  <2>3. UNCHANGED <<cmds, runs, jobs, told, up, exits>> /\ faults' \in 0 .. MaxFaults
    BY <1>5 DEF Put, Host, Fails, Refuse, TypeOK
  <2>4. /\ adm' \in [pc: ADM_PC, key: Keys \cup {None}, fp: Prints \cup {None}, run: RunIds \cup {None}]
        /\ adm'.pc # "idle" => adm'.key # None /\ adm'.fp # None
        /\ adm'.pc \in {"bind", "freeze", "schedule"} => adm'.run # None
    <3>1. CASE adm' = [adm EXCEPT !.pc = "bind", !.run = r]
      BY <3>1, <1>5, <2>1 DEF TypeOK, Put, At, ADM_PC
    <3>2. CASE adm' = NoAdmission
      BY <3>2 DEF ADM_PC, NoAdmission
    <3> QED BY <2>1, <3>1, <3>2
  <2> QED BY <2>2, <2>3, <2>4 DEF TypeOK
<1>6. CASE Bind
  BY <1>6 DEF Bind, Bound, TypeOK, At, Host, ADM_PC, Refuse, Fails, Goto, NoAdmission, CommandRecord
<1>7. CASE Freeze
  BY <1>7, WrittenTypes DEF Freeze, TypeOK, At, Host, ADM_PC, Goto
<1>8. CASE FreezeFails
  BY <1>8, WrittenTypes DEF FreezeFails, TypeOK, At, Host, ADM_PC, Refuse, NoAdmission, TERMINAL_RUN_STATES
<1>9. CASE ScheduleRun
  BY <1>9 DEF ScheduleRun, TypeOK, At, Host, tables, ADM_PC, Answer, NoAdmission
<1>10. CASE Exit
  <2>1. exits' \in 0 .. MaxExits /\ UNCHANGED <<cmds, owner, runs, told, faults>>
    BY <1>10 DEF Exit, TypeOK, tables
  <2>2. /\ adm' \in [pc: ADM_PC, key: Keys \cup {None}, fp: Prints \cup {None}, run: RunIds \cup {None}]
        /\ adm'.pc = "idle" /\ jobs' \subseteq RunIds
    BY <1>10 DEF Exit, ADM_PC, NoAdmission
  <2>3. up' \in BOOLEAN
    BY <1>10 DEF Exit
  <2> QED BY <2>1, <2>2, <2>3 DEF TypeOK
<1>11. CASE Restart
  BY <1>11, WrittenTypes DEF Restart, TypeOK
<1>12. ASSUME NEW r \in RunIds, JobEnds(r) PROVE TypeOK'
  BY <1>12, WrittenTypes DEF JobEnds, TypeOK, Host, TERMINAL_RUN_STATES
<1>13. ASSUME NEW r \in RunIds, CancelRun(r) PROVE TypeOK'
  BY <1>13, WrittenTypes DEF CancelRun, TypeOK, Host
<1>14. CASE UNCHANGED vars
  BY <1>14 DEF vars, tables, TypeOK
<1> QED
  BY <1>1, <1>2, <1>3, <1>4, <1>5, <1>6, <1>7, <1>8, <1>9, <1>10, <1>11, <1>12, <1>13, <1>14 DEF Next

\* The empty tables of a new runtime are well typed.
LEMMA TypeInit ==
  ASSUME Init
  PROVE  TypeOK
<1> USE AdmissionAssumption
<1>1. runs \in [RunIds -> RunRecords]
  BY NewRunType DEF Init
<1>2. cmds \in [Keys -> CommandRecord] /\ owner \in [RunIds -> Keys \cup {None}]
  BY DEF Init, CommandRecord, NoCommand
<1>3. /\ adm \in [pc: ADM_PC, key: Keys \cup {None}, fp: Prints \cup {None}, run: RunIds \cup {None}]
      /\ adm.pc = "idle"
  BY DEF Init, NoAdmission, ADM_PC
<1>4. exits \in 0 .. MaxExits /\ faults \in 0 .. MaxFaults
  BY DEF Init
<1> QED BY <1>1, <1>2, <1>3, <1>4 DEF Init, TypeOK

\* The tables, the admission and the answers keep their types.
THEOREM AdmissionTypeCorrect == Spec => []TypeOK
<1>1. Init => TypeOK
  BY TypeInit
<1>2. TypeOK /\ [Next]_vars => TypeOK'
  BY TypeStep
<1> QED BY <1>1, <1>2, PTL DEF Spec
-----------------------------------------------------------------------------
\* Every Run has the command that created it on record, a bound command names
\* its own Run, and what an admission has found or done so far still holds.
TablesAgree ==
  /\ \A r \in RunIds : owner[r] # None => cmds[owner[r]].fp # None
  /\ \A k \in Keys : cmds[k].run # None => owner[cmds[k].run] = k
UnderWay ==
  /\ adm.pc \in {"put", "bind", "freeze", "schedule"} => cmds[adm.key].fp = adm.fp
  /\ adm.pc = "put" => Original(adm.key) = {}
  /\ adm.pc \in {"bind", "freeze", "schedule"} => owner[adm.run] = adm.key
Answered == \A x \in told : owner[x[3]] = x[1] /\ cmds[x[1]].fp = x[2]
IInv == TypeOK /\ OneRunPerCommand /\ TablesAgree /\ UnderWay /\ Answered
-----------------------------------------------------------------------------
\* IInv is inductive.
LEMMA IInvStep ==
  ASSUME IInv, [Next]_vars
  PROVE  IInv'
<1> USE AdmissionAssumption
<1>0. TypeOK /\ TypeOK'
  BY TypeStep DEF IInv
<1>1. ASSUME UNCHANGED <<cmds, owner, told>>,
             \/ adm' = adm \/ adm' = NoAdmission
             \/ adm'.pc \in {"replay", "admit"}
             \/ adm.pc = "freeze" /\ adm' = [adm EXCEPT !.pc = "schedule"]
      PROVE  IInv'
  <2>1. OneRunPerCommand' /\ TablesAgree' /\ Answered'
    BY <1>1 DEF IInv, OneRunPerCommand, TablesAgree, Answered
  <2>2. UnderWay'
    BY <1>1, <1>0 DEF IInv, UnderWay, Original, NoAdmission, TypeOK
  <2> QED BY <1>0, <2>1, <2>2 DEF IInv
<1>2. CASE Begin
  BY <1>2, <1>1 DEF Begin, tables
<1>3. CASE Blocked \/ ReadFails \/ Freeze \/ FreezeFails \/ Exit \/ Restart \/ UNCHANGED vars
  BY <1>3, <1>1 DEF Blocked, ReadFails, Fails, Freeze, FreezeFails, Exit, Restart, vars, tables, Refuse, At, Goto
<1>4. ASSUME NEW r \in RunIds, JobEnds(r) \/ CancelRun(r) PROVE IInv'
  BY <1>4, <1>1 DEF JobEnds, CancelRun
<1>5. ASSUME NEW r \in RunIds, UNCHANGED <<cmds, owner>>, Answer(r), adm.pc # "idle",
             owner[r] = adm.key, cmds[adm.key].fp = adm.fp
      PROVE  IInv'
  <2>1. OneRunPerCommand' /\ TablesAgree'
    BY <1>5 DEF IInv, OneRunPerCommand, TablesAgree
  <2>2. UnderWay'
    BY <1>5 DEF Answer, NoAdmission, UnderWay
  <2>3. Answered'
    BY <1>5 DEF IInv, Answered, Answer
  <2> QED BY <1>0, <2>1, <2>2, <2>3 DEF IInv
<1>6. CASE Replay
  <2>1. CASE UNCHANGED told
    BY <2>1, <1>6, <1>1, <1>0 DEF Replay, Refuse, Answer, Goto, tables, TypeOK
  <2>2. ASSUME NEW r \in RunIds, Answer(r), SamePayload(adm.key, adm.fp), owner[r] = adm.key
        PROVE  IInv'
    <3>1. cmds[adm.key].fp = adm.fp
      BY <2>2, <1>0, <1>6 DEF IInv, TablesAgree, SamePayload, Replay, At, TypeOK
    <3> QED BY <3>1, <2>2, <1>5, <1>6 DEF Replay, At, tables
  <2>3. ASSUME cmds[adm.key].run # None, SamePayload(adm.key, adm.fp), Answer(cmds[adm.key].run)
        PROVE  IInv'
    <3>1. adm.key \in Keys /\ cmds[adm.key].run \in RunIds /\ owner[cmds[adm.key].run] = adm.key
      BY <2>3, <1>0, <1>6 DEF IInv, TablesAgree, TypeOK, Replay, At, CommandRecord
    <3> QED BY <3>1, <2>3, <2>2
  <2> QED BY <1>6, <2>1, <2>2, <2>3 DEF Replay, Refuse, Original
<1>7. CASE ScheduleRun
  <2>1. adm.run \in RunIds /\ owner[adm.run] = adm.key /\ cmds[adm.key].fp = adm.fp
    BY <1>7, <1>0 DEF ScheduleRun, At, IInv, UnderWay, TypeOK
  <2> QED BY <2>1, <1>5, <1>7 DEF ScheduleRun, At, tables
<1>8. CASE Admit
  <2> DEFINE next == [cmds EXCEPT ![adm.key] = [fp |-> adm.fp, run |-> None]]
  <2>0. adm.key \in Keys /\ adm.fp \in Prints /\ adm.pc = "admit" /\ UNCHANGED owner
    BY <1>8, <1>0 DEF Admit, At, TypeOK
  <2>1. CASE UNCHANGED cmds /\ adm' = NoAdmission
    BY <2>1, <1>8, <1>1 DEF Admit, Fails, Refuse, Goto
  <2>2. CASE UNCHANGED cmds /\ Goto("put") /\ cmds[adm.key].fp = adm.fp /\ Original(adm.key) = {}
    <3>1. UNCHANGED told
      BY <1>8, <2>2, <2>0, <1>0 DEF Admit, Fails, Refuse
    <3>2. OneRunPerCommand' /\ TablesAgree' /\ Answered'
      BY <2>2, <2>0, <3>1 DEF IInv, OneRunPerCommand, TablesAgree, Answered
    <3>3. UnderWay'
      BY <2>2, <2>0, <1>0 DEF UnderWay, Goto, Original, TypeOK
    <3> QED BY <1>0, <3>2, <3>3 DEF IInv
  <2>3. CASE cmds[adm.key].fp = None /\ cmds' = next /\ (Goto("put") \/ adm' = NoAdmission)
    <3>1. UNCHANGED told
      BY <1>8 DEF Admit, Fails, Refuse
    <3>2. Original(adm.key) = {}
      BY <2>3, <2>0, <1>0 DEF IInv, TablesAgree, Original, TypeOK
    <3>3. \A k \in Keys : k # adm.key => cmds'[k] = cmds[k]
      BY <2>3, <1>0 DEF TypeOK
    <3>4. cmds'[adm.key] = [fp |-> adm.fp, run |-> None]
      BY <2>3, <2>0, <1>0 DEF TypeOK
    <3>5. \A r \in RunIds : owner[r] # adm.key
      BY <3>2 DEF Original
    <3>6. OneRunPerCommand' /\ TablesAgree'
      BY <2>0, <3>3, <3>4, <3>5, <1>0 DEF IInv, OneRunPerCommand, TablesAgree, TypeOK
    <3>7. Answered'
      BY <2>0, <3>1, <3>3, <3>5, <1>0 DEF IInv, Answered, TypeOK
    <3>8. UnderWay'
      <4>1. CASE Goto("put")
        <5>1. adm'.pc = "put" /\ adm'.key = adm.key /\ adm'.fp = adm.fp
          BY <4>1, <1>0 DEF Goto, TypeOK
        <5>2. cmds'[adm.key].fp = adm.fp
          BY <3>4
        <5> QED BY <2>0, <3>2, <5>1, <5>2 DEF UnderWay, Original
      <4>2. CASE adm' = NoAdmission
        BY <4>2 DEF UnderWay, NoAdmission
      <4> QED BY <2>3, <4>1, <4>2
    <3> QED BY <1>0, <3>6, <3>7, <3>8 DEF IInv
  <2> QED BY <1>8, <2>1, <2>2, <2>3 DEF Admit, Fails, Refuse
<1>9. CASE Put
  <2>0. /\ adm.key \in Keys /\ adm.pc = "put" /\ UNCHANGED <<cmds, told>>
        /\ cmds[adm.key].fp = adm.fp /\ adm.fp # None
        /\ \A r \in RunIds : owner[r] # adm.key
    BY <1>9, <1>0 DEF Put, At, TypeOK, Fails, Refuse, IInv, UnderWay, Original
  <2>1. CASE UNCHANGED owner /\ adm' = NoAdmission
    BY <2>0, <2>1, <1>1
  <2>2. ASSUME NEW r \in RunIds, owner[r] = None, owner' = [owner EXCEPT ![r] = adm.key],
               adm' = [adm EXCEPT !.pc = "bind", !.run = r] \/ adm' = NoAdmission
        PROVE  IInv'
    <3>1. owner'[r] = adm.key /\ \A s \in RunIds : s # r => owner'[s] = owner[s]
      BY <2>2, <1>0 DEF TypeOK
    <3>2. OneRunPerCommand'
      BY <2>0, <3>1 DEF IInv, OneRunPerCommand
    <3>3. TablesAgree'
      BY <2>0, <2>2, <3>1, <1>0 DEF IInv, TablesAgree, TypeOK, CommandRecord
    <3>4. Answered'
      BY <2>0, <2>2, <3>1, <1>0 DEF IInv, Answered, TypeOK
    <3>5. UnderWay'
      <4>1. CASE adm' = [adm EXCEPT !.pc = "bind", !.run = r]
        <5>1. adm'.pc = "bind" /\ adm'.key = adm.key /\ adm'.fp = adm.fp /\ adm'.run = r
          BY <4>1, <1>0 DEF TypeOK
        <5> QED BY <2>0, <3>1, <5>1 DEF UnderWay
      <4>2. CASE adm' = NoAdmission
        BY <4>2 DEF UnderWay, NoAdmission
      <4> QED BY <2>2, <4>1, <4>2
    <3> QED BY <1>0, <3>2, <3>3, <3>4, <3>5 DEF IInv
  <2> QED BY <1>9, <2>1, <2>2 DEF Put, Fails, Refuse
<1>10. CASE Bind
  <2>0. /\ adm.key \in Keys /\ adm.run \in RunIds /\ adm.pc = "bind" /\ UNCHANGED <<owner, told>>
        /\ cmds[adm.key].fp = adm.fp /\ owner[adm.run] = adm.key
    BY <1>10, <1>0 DEF Bind, At, TypeOK, Fails, Refuse, IInv, UnderWay
  <2>1. CASE UNCHANGED cmds /\ adm' = NoAdmission
    BY <2>0, <2>1, <1>1
  <2>2. CASE cmds' = Bound(adm.run) /\ (Goto("freeze") \/ adm' = NoAdmission)
    <3>1. \A k \in Keys : cmds'[k].fp = cmds[k].fp /\ (k # adm.key => cmds'[k] = cmds[k])
      BY <2>0, <2>2, <1>0 DEF Bound, TypeOK, CommandRecord
    <3>2. cmds'[adm.key].run = adm.run
      BY <2>0, <2>2, <1>0 DEF Bound, TypeOK, CommandRecord
    <3>3. OneRunPerCommand' /\ TablesAgree'
      BY <2>0, <3>1, <3>2, <1>0 DEF IInv, OneRunPerCommand, TablesAgree, TypeOK
    <3>4. Answered'
      BY <2>0, <3>1, <1>0 DEF IInv, Answered, TypeOK
    <3>5. UnderWay'
      BY <2>0, <2>2, <3>1, <1>0 DEF UnderWay, Goto, NoAdmission, TypeOK
    <3> QED BY <1>0, <3>3, <3>4, <3>5 DEF IInv
  <2> QED BY <1>10, <2>1, <2>2 DEF Bind, Fails, Refuse
<1> QED
  BY <1>2, <1>3, <1>4, <1>6, <1>7, <1>8, <1>9, <1>10 DEF Next

\* IInv holds from the first state on.
THEOREM AdmissionInvariant == Spec => []IInv
<1>1. Init => IInv
  <2> SUFFICES ASSUME Init PROVE IInv
    OBVIOUS
  <2>1. TypeOK
    BY TypeInit
  <2>2. OneRunPerCommand /\ TablesAgree /\ UnderWay /\ Answered
    BY DEF Init, OneRunPerCommand, TablesAgree, UnderWay, Answered, NoCommand, NoAdmission
  <2> QED BY <2>1, <2>2 DEF IInv
<1>2. IInv /\ [Next]_vars => IInv'
  BY IInvStep
<1> QED BY <1>1, <1>2, PTL DEF Spec

\* A start command creates at most one Run, for any number of repetitions,
\* crashes and failing writes of replayRun, createRun and bindRun.
THEOREM CommandsCreateOneRun == Spec => []OneRunPerCommand
<1>1. IInv => OneRunPerCommand
  BY DEF IInv
<1> QED BY <1>1, AdmissionInvariant, PTL

\* All answers to one command name the same payload and the same Run.
THEOREM AnswersOfACommandAgree == Spec => []AnswersAgree
<1>1. IInv => AnswersAgree
  <2> SUFFICES ASSUME IInv, NEW x \in told, NEW y \in told, x[1] = y[1] PROVE x = y
    BY DEF AnswersAgree
  <2>1. x \in Keys \X Prints \X RunIds /\ y \in Keys \X Prints \X RunIds
    BY DEF IInv, TypeOK
  <2>2. x[2] = y[2]
    BY DEF IInv, Answered
  <2>3. x[3] = y[3]
    BY <2>1, AdmissionAssumption DEF IInv, Answered, OneRunPerCommand
  <2> QED BY <2>1, <2>2, <2>3
<1> QED BY <1>1, AdmissionInvariant, PTL
-----------------------------------------------------------------------------
\* A Run that only admission, its settlement and a cancellation have touched:
\* no Attempt and no stage, so it is queued or over.
Dormant(r) ==
  /\ \A n \in Nodes : ~Started(r, n)
  /\ r.stage.st = "none" /\ ~r.child
  /\ r.state \in TERMINAL_RUN_STATES \cup {"queued", "recovery_required"}

\* The Run of an admission is captured exactly when it is about to be scheduled,
\* and not settled by anybody else before.
Prepared ==
  /\ \A r \in RunIds : /\ Dormant(runs[r])
                       /\ owner[r] = None => runs[r].state = "queued" /\ runs[r].admission = "pending"
  /\ adm.pc \in {"bind", "freeze"} =>
       runs[adm.run].admission = "pending" /\ runs[adm.run].state # "recovery_required"
  /\ adm.pc = "schedule" => runs[adm.run].admission = "captured"
  /\ ~up => adm.pc = "idle"

\* While storage works, a queued Run has a job or is the one being admitted.
Awaited ==
  up /\ faults = 0 =>
    \A r \in RunIds : owner[r] # None /\ runs[r].state = "queued" =>
      r \in jobs \/ (adm.pc \in {"bind", "freeze", "schedule"} /\ adm.run = r)

FullInv == IInv /\ Prepared /\ DrivenIsCaptured /\ Awaited

\* Capturing a dormant Run: it succeeds while the Run is queued.
LEMMA CaptureDormant ==
  ASSUME NEW r \in RunRecords, Dormant(r)
  PROVE  /\ Dormant(Captured(r)) /\ Captured(r).state = r.state
         /\ r.state = "queued" => Captured(r).admission = "captured"
         /\ r.admission = "captured" => Captured(r).admission = "captured"
BY DEF Dormant, Captured, Written, SetBindingDigestsOk, SetBindingDigests, Applies, CanTransitionRun,
       Terminal, TERMINAL_RUN_STATES, Started, RunRecords

\* Settling one: a queued Run takes the settlement, another keeps its state.
LEMMA SettleDormant ==
  ASSUME NEW r \in RunRecords, Dormant(r), NEW t \in {"succeeded", "failed", "recovery_required"}
  PROVE  /\ Dormant(SettledRun(r, t)) /\ SettledRun(r, t).admission = r.admission
         /\ SettledRun(r, t).state # "queued"
         /\ t # "recovery_required" => SettledRun(r, t).state # "recovery_required" \/ r.state = "recovery_required"
<1>1. Unsettled(r) = {} /\ ~StageAttemptOpen(r) /\ ~SettlesTeamCancel(r, t)
  BY DEF Dormant, Unsettled, HasIntent, Started, StageAttemptOpen, SettlesTeamCancel, TERMINAL_RUN_STATES
<1>2. SetAttempts(r, {}, "recovery_required") = r
  BY DEF SetAttempts, RunRecords
<1>3. SettleTerminal(r, t) = [r EXCEPT !.state = t]
  BY <1>1, <1>2 DEF SettleTerminal, Dormant, TERMINAL_RUN_STATES
<1>4. Dormant([r EXCEPT !.state = t]) /\ [r EXCEPT !.state = t].admission = r.admission
      /\ [r EXCEPT !.state = t].state = t
  BY DEF Dormant, RunRecords, Started, TERMINAL_RUN_STATES
<1>5. r.state = "queued" => Applies(r, [r EXCEPT !.state = t])
  BY <1>4 DEF Applies, Terminal, CanTransitionRun, ALLOWED, TERMINAL_RUN_STATES
<1> QED BY <1>1, <1>3, <1>4, <1>5 DEF SettledRun, Written, SettleTerminalOk

\* Cancelling one: nothing runs, so it is cancelled at once.
LEMMA CancelDormant ==
  ASSUME NEW r \in RunRecords, Dormant(r), RequestCancelOk(r)
  PROVE  /\ Dormant(RequestCancel(r)) /\ RequestCancel(r).admission = r.admission
         /\ RequestCancel(r).state = "cancelled"
<1>1. Unsettled(r) = {} /\ StageStopped(r) /\ ~ActiveAttempt(r)
  BY DEF Dormant, Unsettled, HasIntent, Started, StageStopped, ActiveAttempt
<1>2. SetAttempts(r, {}, "cancelled") = r
  BY DEF SetAttempts, RunRecords
<1>3. RequestCancel(r) = [r EXCEPT !.state = "cancelled", !.stage = r.stage]
  BY <1>1, <1>2 DEF RequestCancel, RunRecords
<1> QED BY <1>3 DEF Dormant, RunRecords, Started, TERMINAL_RUN_STATES

\* The startup scan: a Run it leaves queued was captured.
LEMMA RestartDormant ==
  ASSUME NEW r \in RunRecords, Dormant(r)
  PROVE  /\ Dormant(ReconcileOnStart(r)) /\ ReconcileOnStart(r).admission = r.admission
         /\ ReconcileOnStart(r).state \in OpenStates =>
              ReconcileOnStart(r).state = "queued" /\ r.admission = "captured"
<1>1. Unsettled(r) = {} /\ ~SettlesTeamCancel(r, "recovery_required")
  BY DEF Dormant, Unsettled, HasIntent, Started, SettlesTeamCancel
<1>2. ~TeamRecoveryNeeded(r) /\ ~OrphanedChild(r) /\ ~IntentWithoutResult(r)
  BY <1>1 DEF Dormant, TeamRecoveryNeeded, OrphanedChild, IntentWithoutResult, StageBound
<1>3. SetAttempts(r, {}, "recovery_required") = r
  BY DEF SetAttempts, RunRecords
<1>4. AdmissionIncomplete(r) => ReconcileOnStart(r) = [r EXCEPT !.state = "recovery_required"]
  BY <1>1, <1>3 DEF ReconcileOnStart, StartSettles, SettleTerminal
<1>5. ~AdmissionIncomplete(r) => ReconcileOnStart(r) = r
  BY <1>2 DEF ReconcileOnStart, StartSettles
<1>6. CASE AdmissionIncomplete(r)
  BY <1>4, <1>6 DEF Dormant, RunRecords, Started, OpenStates, TERMINAL_RUN_STATES
<1>7. CASE ~AdmissionIncomplete(r)
  BY <1>5, <1>7 DEF Dormant, RunRecords, AdmissionIncomplete, OpenStates, TERMINAL_RUN_STATES
<1> QED BY <1>6, <1>7

\* FullInv is inductive.
LEMMA FullInvStep ==
  ASSUME FullInv, [Next]_vars
  PROVE  FullInv'
<1> USE AdmissionAssumption
<1>0. IInv' /\ IInv /\ TypeOK /\ TypeOK' /\ Prepared /\ DrivenIsCaptured /\ Awaited
  BY IInvStep DEF FullInv, IInv
<1>a. \A r \in RunIds : runs[r] \in RunRecords /\ Dormant(runs[r])
  BY <1>0 DEF TypeOK, Prepared
\* Steps that leave the Runs and their owners alone.
<1>1. ASSUME UNCHANGED <<owner, runs, jobs>>, up => up', ~up' => adm'.pc = "idle",
             \/ adm' = adm \/ adm'.pc = "idle" \/ adm'.pc \in {"replay", "admit", "put"}
             \/ adm.pc = "bind" /\ adm' = [adm EXCEPT !.pc = "freeze"],
             \/ faults' = faults /\ (adm.pc \in {"bind", "freeze", "schedule"} => adm'.run = adm.run /\ adm'.pc \in {"bind", "freeze", "schedule"})
             \/ faults' # 0
             , up' => up
      PROVE  FullInv'
  <2>1. Prepared'
    BY <1>1, <1>0 DEF Prepared, TypeOK
  <2>2. DrivenIsCaptured'
    BY <1>1, <1>0 DEF DrivenIsCaptured
  <2>3. Awaited'
    BY <1>1, <1>0 DEF Awaited
  <2> QED BY <1>0, <2>1, <2>2, <2>3 DEF FullInv
<1>2. CASE Begin \/ Replay \/ Blocked
  <2>1. UNCHANGED <<owner, runs, jobs, up, faults>> /\ up
    BY <1>2 DEF Begin, Replay, Blocked, tables, Host, At
  <2>2. adm'.pc \in {"idle", "replay", "admit"} /\ adm.pc \notin {"bind", "freeze", "schedule"}
    BY <1>2, <1>0 DEF Begin, Replay, Blocked, At, Refuse, Answer, Goto, NoAdmission, TypeOK
  <2> QED BY <2>1, <2>2, <1>1
<1>3. CASE ReadFails
  BY <1>3, <1>1, <1>0 DEF ReadFails, tables, Host, Fails, Refuse, NoAdmission, TypeOK
<1>4. CASE Admit
  <2>1. UNCHANGED <<owner, runs, jobs, up>> /\ up /\ adm.pc = "admit"
    BY <1>4 DEF Admit, Host, At
  <2>2. adm'.pc \in {"idle", "put"} /\ (faults' = faults \/ faults' # 0)
    BY <1>4, <1>0 DEF Admit, Fails, Refuse, Goto, NoAdmission, TypeOK
  <2> QED BY <2>1, <2>2, <1>1
<1>5. CASE Put
  <2>1. /\ adm.pc = "put" /\ up /\ UNCHANGED <<runs, jobs, up>>
        /\ adm.key \in Keys /\ adm.key # None
    BY <1>5, <1>0 DEF Put, At, Host, TypeOK
  <2>2. PICK r \in RunIds :
           /\ owner[r] = None
           /\ \/ owner' = [owner EXCEPT ![r] = adm.key]
                 /\ adm' = [adm EXCEPT !.pc = "bind", !.run = r] /\ UNCHANGED faults
              \/ owner' \in {owner, [owner EXCEPT ![r] = adm.key]} /\ Fails
    BY <1>5 DEF Put
  <2>3. \A s \in RunIds : s # r => owner'[s] = owner[s]
    BY <2>2, <1>0 DEF TypeOK
  <2>4. \A s \in RunIds : owner'[s] = None => owner[s] = None
    BY <2>1, <2>2, <1>0 DEF TypeOK
  <2>5. DrivenIsCaptured'
    BY <2>1, <2>2, <2>3, <1>0 DEF DrivenIsCaptured, TypeOK
  <2>6. CASE adm' = [adm EXCEPT !.pc = "bind", !.run = r] /\ UNCHANGED faults
    <3>1. adm'.pc = "bind" /\ adm'.run = r
      BY <2>6, <1>0 DEF TypeOK
    <3>2. Prepared'
      BY <2>1, <2>2, <2>4, <3>1, <1>0 DEF Prepared
    <3>3. Awaited'
      BY <2>1, <2>3, <2>6, <3>1, <1>0 DEF Awaited
    <3> QED BY <1>0, <3>2, <3>3, <2>5 DEF FullInv
  <2>7. CASE Fails
    <3>1. adm'.pc = "idle" /\ faults' # 0
      BY <2>7, <1>0 DEF Fails, Refuse, NoAdmission, TypeOK
    <3>2. Prepared'
      BY <2>1, <2>4, <3>1, <1>0 DEF Prepared
    <3> QED BY <1>0, <3>1, <3>2, <2>5 DEF FullInv, Awaited
  <2> QED BY <2>2, <2>6, <2>7
<1>6. CASE Bind
  <2>1. UNCHANGED <<owner, runs, jobs, up>> /\ up /\ adm.pc = "bind"
    BY <1>6 DEF Bind, Host, At
  <2>2. \/ adm' = [adm EXCEPT !.pc = "freeze"] /\ faults' = faults
        \/ adm'.pc = "idle" /\ faults' # 0
    BY <1>6, <1>0 DEF Bind, Fails, Refuse, Goto, NoAdmission, TypeOK
  <2>3. adm' = [adm EXCEPT !.pc = "freeze"] => adm'.pc = "freeze" /\ adm'.run = adm.run
    BY <1>0 DEF TypeOK
  <2> QED BY <2>1, <2>2, <2>3, <1>1
\* Steps that change one Run.
<1>7. ASSUME NEW r \in RunIds, NEW s, runs' = [runs EXCEPT ![r] = s], UNCHANGED <<owner, up>>, up, Dormant(s),
             owner[r] # None
      PROVE  /\ runs'[r] = s /\ \A q \in RunIds : q # r => runs'[q] = runs[q]
             /\ \A q \in RunIds : Dormant(runs'[q])
             /\ \A q \in RunIds : owner'[q] = None => runs'[q].state = "queued" /\ runs'[q].admission = "pending"
  <2>1. runs'[r] = s /\ \A q \in RunIds : q # r => runs'[q] = runs[q]
    BY <1>7, <1>0 DEF TypeOK
  <2> QED BY <2>1, <1>7, <1>0 DEF Prepared
<1>8. CASE Freeze
  <2>1. /\ adm.pc = "freeze" /\ up /\ UNCHANGED <<owner, jobs, faults, up>>
        /\ adm.run \in RunIds /\ owner[adm.run] = adm.key /\ adm.key # None
        /\ ~Terminal(runs[adm.run]) /\ runs' = [runs EXCEPT ![adm.run] = Captured(@)]
    BY <1>8, <1>0 DEF Freeze, At, Host, TypeOK, IInv, UnderWay
  <2>2. runs[adm.run].state = "queued"
    BY <2>1, <1>0, <1>a DEF Prepared, Dormant, Terminal
  <2>3. /\ Dormant(Captured(runs[adm.run])) /\ Captured(runs[adm.run]).state = "queued"
        /\ Captured(runs[adm.run]).admission = "captured"
    BY <2>1, <2>2, <1>a, CaptureDormant
  <2>4. /\ runs'[adm.run] = Captured(runs[adm.run]) /\ \A q \in RunIds : q # adm.run => runs'[q] = runs[q]
        /\ \A q \in RunIds : Dormant(runs'[q])
        /\ \A q \in RunIds : owner'[q] = None => runs'[q].state = "queued" /\ runs'[q].admission = "pending"
    BY <2>1, <2>3, <1>7
  <2>5. adm'.pc = "schedule" /\ adm'.run = adm.run
    BY <1>8, <1>0 DEF Freeze, Goto, TypeOK
  <2>6. Prepared'
    BY <2>1, <2>3, <2>4, <2>5 DEF Prepared
  <2>7. DrivenIsCaptured'
    BY <2>1, <2>3, <2>4, <1>0 DEF DrivenIsCaptured, TypeOK
  <2>8. Awaited'
    BY <2>1, <2>2, <2>4, <2>5, <1>0 DEF Awaited
  <2> QED BY <1>0, <2>6, <2>7, <2>8 DEF FullInv
<1>9. CASE FreezeFails
  <2>1. /\ adm.pc = "freeze" /\ up /\ UNCHANGED <<owner, jobs, up>> /\ adm'.pc = "idle"
        /\ adm.run \in RunIds /\ owner[adm.run] = adm.key /\ adm.key # None
    BY <1>9, <1>0 DEF FreezeFails, At, Host, Refuse, NoAdmission, TypeOK, IInv, UnderWay
  <2> DEFINE old == runs[adm.run]
  <2>2. old \in RunRecords /\ Dormant(old) /\ Captured(old) \in RunRecords /\ Dormant(Captured(old))
    BY <2>1, <1>a, WrittenTypes, CaptureDormant
  <2>3. \E s : /\ runs' = [runs EXCEPT ![adm.run] = s] /\ Dormant(s)
               /\ faults' = 0 => s.state # "queued"
    <3>1. PICK landed \in BOOLEAN, error \in BOOLEAN :
            LET cost == (IF landed THEN 1 ELSE 0) + (IF error THEN 1 ELSE 0)
                left == IF landed THEN Captured(old) ELSE old
            IN  /\ faults' = faults + cost
                /\ \E r \in {SettledRun(left, "failed")} \cup (IF error THEN {left} ELSE {}) :
                     runs' = [runs EXCEPT ![adm.run] = r]
      BY <1>9 DEF FreezeFails
    <3> DEFINE left == IF landed THEN Captured(old) ELSE old
    <3>2. left \in RunRecords /\ Dormant(left)
      BY <2>2
    <3>3. Dormant(SettledRun(left, "failed")) /\ SettledRun(left, "failed").state # "queued"
      BY <3>2, SettleDormant
    <3>4. PICK r \in {SettledRun(left, "failed")} \cup (IF error THEN {left} ELSE {}) :
            runs' = [runs EXCEPT ![adm.run] = r]
      BY <3>1
    <3>5. faults' = 0 => ~error
      BY <3>1, <1>0 DEF TypeOK
    <3>6. Dormant(r) /\ (faults' = 0 => r.state # "queued")
      BY <3>2, <3>3, <3>4, <3>5
    <3> QED BY <3>4, <3>6
  <2>4. PICK s : runs' = [runs EXCEPT ![adm.run] = s] /\ Dormant(s) /\ (faults' = 0 => s.state # "queued")
    BY <2>3
  <2>5. /\ runs'[adm.run] = s /\ \A q \in RunIds : q # adm.run => runs'[q] = runs[q]
        /\ \A q \in RunIds : Dormant(runs'[q])
        /\ \A q \in RunIds : owner'[q] = None => runs'[q].state = "queued" /\ runs'[q].admission = "pending"
    BY <2>1, <2>4, <1>7
  <2>6. Prepared'
    BY <2>1, <2>5 DEF Prepared
  <2>7. adm.run \notin jobs
    BY <2>1, <1>0 DEF Prepared, DrivenIsCaptured
  <2>8. DrivenIsCaptured'
    BY <2>1, <2>5, <2>7, <1>0 DEF DrivenIsCaptured, TypeOK
  <2>9. faults' = 0 => faults = 0
    BY <1>9, <1>0 DEF FreezeFails, TypeOK
  <2>10. Awaited'
    BY <2>1, <2>4, <2>5, <2>9, <1>0 DEF Awaited
  <2> QED BY <1>0, <2>6, <2>8, <2>10 DEF FullInv
<1>10. CASE ScheduleRun
  <2>1. /\ adm.pc = "schedule" /\ up /\ UNCHANGED <<owner, runs, faults, up>> /\ adm'.pc = "idle"
        /\ adm.run \in RunIds /\ owner[adm.run] = adm.key /\ adm.key # None /\ jobs' = jobs \cup {adm.run}
    BY <1>10, <1>0 DEF ScheduleRun, tables, At, Host, Answer, NoAdmission, TypeOK, IInv, UnderWay
  <2>2. Prepared' /\ DrivenIsCaptured' /\ Awaited'
    BY <2>1, <1>0 DEF Prepared, DrivenIsCaptured, Awaited
  <2> QED BY <1>0, <2>2 DEF FullInv
<1>11. ASSUME NEW r \in RunIds, JobEnds(r) PROVE FullInv'
  <2>1. PICK t \in {"succeeded", "failed", "recovery_required"} : runs' = [runs EXCEPT ![r] = SettledRun(@, t)]
    BY <1>11 DEF JobEnds
  <2>2. /\ up /\ r \in jobs /\ jobs' = jobs \ {r} /\ UNCHANGED <<owner, adm, faults, up>>
        /\ owner[r] # None /\ runs[r].admission = "captured"
    BY <1>11, <1>0 DEF JobEnds, Host, DrivenIsCaptured
  <2>3. /\ Dormant(SettledRun(runs[r], t)) /\ SettledRun(runs[r], t).admission = runs[r].admission
        /\ SettledRun(runs[r], t).state # "queued"
    BY <1>a, SettleDormant
  <2>4. /\ runs'[r] = SettledRun(runs[r], t) /\ \A q \in RunIds : q # r => runs'[q] = runs[q]
        /\ \A q \in RunIds : Dormant(runs'[q])
        /\ \A q \in RunIds : owner'[q] = None => runs'[q].state = "queued" /\ runs'[q].admission = "pending"
    BY <2>1, <2>2, <2>3, <1>7
  <2>5. Prepared'
    BY <2>2, <2>3, <2>4, <1>0 DEF Prepared, TypeOK
  <2>6. DrivenIsCaptured' /\ Awaited'
    BY <2>2, <2>3, <2>4, <1>0 DEF DrivenIsCaptured, Awaited, TypeOK
  <2> QED BY <1>0, <2>5, <2>6 DEF FullInv
<1>12. ASSUME NEW r \in RunIds, CancelRun(r) PROVE FullInv'
  <2>1. /\ up /\ owner[r] # None /\ UNCHANGED <<owner, adm, jobs, faults, up>>
        /\ runs' = [runs EXCEPT ![r] = RequestCancel(@)]
    BY <1>12 DEF CancelRun, Host
  <2>2. /\ Dormant(RequestCancel(runs[r])) /\ RequestCancel(runs[r]).admission = runs[r].admission
        /\ RequestCancel(runs[r]).state = "cancelled"
    BY <1>12, <1>a, CancelDormant DEF CancelRun
  <2>3. /\ runs'[r] = RequestCancel(runs[r]) /\ \A q \in RunIds : q # r => runs'[q] = runs[q]
        /\ \A q \in RunIds : Dormant(runs'[q])
        /\ \A q \in RunIds : owner'[q] = None => runs'[q].state = "queued" /\ runs'[q].admission = "pending"
    BY <2>1, <2>2, <1>7
  <2>4. Prepared'
    BY <2>1, <2>2, <2>3, <1>0 DEF Prepared, TypeOK
  <2>5. DrivenIsCaptured' /\ Awaited'
    BY <2>1, <2>2, <2>3, <1>0 DEF DrivenIsCaptured, Awaited, TypeOK
  <2> QED BY <1>0, <2>4, <2>5 DEF FullInv
<1>13. CASE Exit
  <2>1. UNCHANGED <<owner, runs>> /\ jobs' = {} /\ ~up' /\ adm'.pc = "idle"
    BY <1>13 DEF Exit, tables, NoAdmission
  <2>2. Prepared' /\ DrivenIsCaptured' /\ Awaited'
    BY <2>1, <1>0 DEF Prepared, DrivenIsCaptured, Awaited
  <2> QED BY <1>0, <2>2 DEF FullInv
<1>14. CASE Restart
  <2>1. /\ up' /\ UNCHANGED <<owner, adm, faults>> /\ adm.pc = "idle"
        /\ jobs' = {r \in RunIds : owner[r] # None /\ runs'[r].state \in OpenStates}
        /\ \A r \in RunIds : runs'[r] = IF owner[r] = None THEN runs[r] ELSE ReconcileOnStart(runs[r])
    BY <1>14, <1>0 DEF Restart, Prepared
  <2>2. \A r \in RunIds :
           /\ Dormant(ReconcileOnStart(runs[r])) /\ ReconcileOnStart(runs[r]).admission = runs[r].admission
           /\ ReconcileOnStart(runs[r]).state \in OpenStates => runs[r].admission = "captured"
    BY <1>a, RestartDormant
  <2>3. Prepared'
    BY <2>1, <2>2, <1>0 DEF Prepared
  <2>4. DrivenIsCaptured' /\ Awaited'
    BY <2>1, <2>2 DEF DrivenIsCaptured, Awaited, OpenStates
  <2> QED BY <1>0, <2>3, <2>4 DEF FullInv
<1>15. CASE UNCHANGED vars
  BY <1>15, <1>0 DEF vars, tables, FullInv, Prepared, DrivenIsCaptured, Awaited
<1> QED
  BY <1>2, <1>3, <1>4, <1>5, <1>6, <1>8, <1>9, <1>10, <1>11, <1>12, <1>13, <1>14, <1>15 DEF Next

\* What admission keeps, for every instance: tables and steps are well formed, a
\* command has one Run and one answer, only captured Runs are driven, and while
\* storage works a queued Run has a job (admitRun, replayRun, bindRun, the
\* startup scan, scheduleRun).
THEOREM AdmissionKept == Spec => []AdmissionInv
<1>1. Init => FullInv
  <2> SUFFICES ASSUME Init PROVE FullInv
    OBVIOUS
  <2>1. IInv
    BY TypeInit DEF Init, IInv, OneRunPerCommand, TablesAgree, UnderWay, Answered, NoCommand, NoAdmission
  <2>2. Prepared
    BY DEF Init, Prepared, Dormant, NewRun, NoAttempt, NoStage, Started, NoAdmission
  <2>3. DrivenIsCaptured /\ Awaited
    BY DEF Init, DrivenIsCaptured, Awaited
  <2> QED BY <2>1, <2>2, <2>3 DEF FullInv
<1>2. FullInv /\ [Next]_vars => FullInv'
  BY FullInvStep
<1>3. FullInv => TypeOK /\ OneRunPerCommand /\ DrivenIsCaptured /\ QueuedIsDriven
  BY DEF FullInv, IInv, Awaited, QueuedIsDriven
<1> QED BY <1>1, <1>2, <1>3, AnswersOfACommandAgree, PTL DEF Spec, AdmissionInv

-----------------------------------------------------------------------------
(* The writer lease, with and without hard links.                             *)
(* Whoever believes to hold it is named by the file because nobody else may   *)
(* touch the file then: it is created only where there is none, filled only   *)
(* by the process that created it, removed only by its owner, and replaced    *)
(* only by the one process that has the takeover guard, which found it to be  *)
(* the lease of a process that is gone.                                       *)
\* The premises: no guard is reclaimed, and no two processes have one pid (a lease
\* under the reader's own pid counts as left by an earlier incarnation).
DistinctPids == \A p, q \in Procs : PidOf[p] = PidOf[q] => p = q

\* The takeover guard is held from its claim until it is dropped.
Guarded == {"stat2", "read2", "create2", "fill2", "replace", "verify",
            "readGuard", "dropGuard", "readGuardFail", "dropGuardFail"}
Guarding == \A p \in Procs : pc[p] \in Guarded => guard.kind = "valid" /\ guard.owner = tok[p]

\* No guard grows old, so none is reclaimed.
GuardsStay == ~guard.old /\ \A p \in Procs : pc[p] # "rmGuard"

\* An owner token is one process's, and only a process that has installed it finds it in
\* the file, which then names that process.
TokensDiffer == \A p, q \in Procs : tok[p] = tok[q] /\ tok[p] # NoOwner => p = q
Installed == \A p \in Procs : tok[p] # NoOwner /\ lease.owner = tok[p] =>
               lease.by = p /\ pc[p] \in Holding \cup {"verify"}
Named == IF lease.kind = "valid" THEN lease.owner # NoOwner /\ lease.by \in Procs
         ELSE lease.owner = NoOwner

\* One process at most has created the file and not yet filled it.
Filling == \A p \in Procs : pc[p] \in {"fill", "fill2"} =>
             lease.kind = "empty" /\ \A q \in Procs : pc[q] \in {"fill", "fill2"} => q = p

\* The lease that is about to be replaced is nobody's any more.
Condemned == \A p \in Procs : pc[p] = "replace" =>
               lease.kind = "valid" /\ \A q \in Procs : tok[q] # lease.owner

LeaseIInv == /\ LsTypeOK /\ HolderOwnsFile
             /\ Guarding /\ GuardsStay /\ TokensDiffer /\ Installed /\ Named /\ Filling /\ Condemned
-----------------------------------------------------------------------------
\* There is always a token left: at most one per process and two files are in use.
LEMMA FreshTokens ==
  ASSUME NEW p \in Procs
  PROVE  FreshToken \in Tokens /\ FreshToken \notin UsedTokens
<1> DEFINE n == Cardinality(Procs)
           T == {tok[q] : q \in Procs}
           f == [q \in Procs |-> tok[q]]
<1>1. n \in Nat /\ n # 0 /\ IsFiniteSet(Procs)
  BY LeaseAssumption, FS_CardinalityType, FS_EmptySet
<1>2. f \in Surjection(Procs, T)
  BY DEF Surjection
<1>3. IsFiniteSet(T) /\ Cardinality(T) <= n
  BY <1>1, <1>2, FS_Surjection
<1> HIDE DEF T, n
<1>4. \A S, x : IsFiniteSet(S) =>
        IsFiniteSet(S \cup {x}) /\ Cardinality(S \cup {x}) \in {Cardinality(S), Cardinality(S) + 1}
              /\ Cardinality(S) \in Nat
  BY FS_AddElement, FS_CardinalityType
<1> DEFINE U == T \cup {lease.owner}
<1> DEFINE V == U \cup {guard.owner}
<1>5. IsFiniteSet(U) /\ Cardinality(U) \in {Cardinality(T), Cardinality(T) + 1} /\ Cardinality(T) \in Nat
  BY ONLY <1>3, <1>4, Zenon
<1> HIDE DEF U
<1>5a. IsFiniteSet(V) /\ Cardinality(V) \in {Cardinality(U), Cardinality(U) + 1}
  BY ONLY <1>4, <1>5, Zenon
<1> HIDE DEF V
<1>6. IsFiniteSet(V) /\ Cardinality(V) <= n + 2
  BY <1>1, <1>3, <1>5, <1>5a
<1>7. IsFiniteSet(UsedTokens) /\ Cardinality(UsedTokens) <= n + 2
  <2>1. UsedTokens = V
    BY DEF UsedTokens, V, U, T
  <2> QED BY <1>6, <2>1
<1>8. Cardinality(Tokens) = 2 * n + 2
  BY <1>1, FS_Interval DEF Tokens, n
<1>9. ~(Tokens \subseteq UsedTokens)
  <2>1. SUFFICES ASSUME Tokens \in SUBSET UsedTokens PROVE FALSE
    OBVIOUS
  <2>2. Cardinality(Tokens) <= Cardinality(UsedTokens) /\ Cardinality(UsedTokens) \in Nat
    BY <1>7, <2>1, FS_Subset, FS_CardinalityType
  <2> QED BY <1>1, <1>7, <1>8, <2>2
<1>10. \E t \in Tokens : t \notin UsedTokens
  BY <1>9
<1> QED BY <1>10 DEF FreshToken

\* The files a step may leave.
LEMMA FileTypes ==
  /\ NoFile \in LeaseFiles /\ NoFile \in GuardFiles /\ EmptyLease \in LeaseFiles
  /\ NoFile.kind = "absent" /\ NoFile.owner = NoOwner /\ ~NoFile.old
  /\ EmptyLease.kind = "empty" /\ EmptyLease.owner = NoOwner
  /\ \A t \in Tokens : \A p \in Procs :
       /\ Lease(t, p) \in LeaseFiles
       /\ Lease(t, p).kind = "valid" /\ Lease(t, p).owner = t /\ Lease(t, p).by = p
  /\ \A t \in Tokens : Guard(t) \in GuardFiles /\ Guard(t).kind = "valid"
                       /\ Guard(t).owner = t /\ ~Guard(t).old
  /\ \A l \in LeaseFiles, b \in BOOLEAN :
       /\ [l EXCEPT !.old = b] \in LeaseFiles
       /\ [l EXCEPT !.old = b].kind = l.kind /\ [l EXCEPT !.old = b].owner = l.owner
       /\ [l EXCEPT !.old = b].by = l.by
BY DEF NoFile, EmptyLease, Lease, Guard, LeaseFiles, GuardFiles
-----------------------------------------------------------------------------
(* The kinds of step.                                                        *)

\* A process goes on to step n and leaves both files and its token alone.
LEMMA MoveKeeps ==
  ASSUME LeaseIInv, NEW p \in Procs, NEW n \in PC \ {"idle", "rmGuard", "fill", "fill2"},
         pc[p] # "idle", LsGoto(p, n), UNCHANGED <<lease, guard, alive, tok, crashes>>,
         saw' \in [Procs -> BOOLEAN], retry' \in [Procs -> BOOLEAN],
         n \in Holding => Owned(p),
         n \in Guarded => pc[p] \in Guarded \/ (guard.kind = "valid" /\ guard.owner = tok[p]),
         lease.owner = tok[p] => n \in Holding \cup {"verify"},
         n = "replace" => lease.kind = "valid" /\ \A q \in Procs : tok[q] # lease.owner
  PROVE  LeaseIInv'
<1>1. pc' = [pc EXCEPT ![p] = n] /\ pc \in [Procs -> PC] /\ tok[p] # NoOwner
  BY DEF LsGoto, LeaseIInv, LsTypeOK
<1>2. \A q \in Procs : pc'[q] = IF q = p THEN n ELSE pc[q]
  BY <1>1
<1>3. LsTypeOK'
  BY <1>1, <1>2 DEF LeaseIInv, LsTypeOK
<1>4. HolderOwnsFile'
  BY <1>2 DEF LeaseIInv, HolderOwnsFile, Owned
<1>5. Guarding' /\ GuardsStay'
  BY <1>2 DEF LeaseIInv, Guarding, GuardsStay
<1>6. TokensDiffer' /\ Named'
  BY DEF LeaseIInv, TokensDiffer, Named
<1>7. Installed'
  BY <1>1, <1>2 DEF LeaseIInv, Installed
<1>8. Filling'
  BY <1>2 DEF LeaseIInv, Filling
<1>9. Condemned'
  BY <1>2 DEF LeaseIInv, Condemned
<1> QED BY <1>3, <1>4, <1>5, <1>6, <1>7, <1>8, <1>9 DEF LeaseIInv

\* A process forgets its token; it may remove the lease it owned and the guard it held.
LEMMA DropKeeps ==
  ASSUME LeaseIInv, NEW p \in Procs, Drop(p),
         UNCHANGED lease \/ (lease' = NoFile /\ pc[p] \in Holding),
         UNCHANGED guard \/ (guard' = NoFile /\ pc[p] \in Guarded),
         UNCHANGED alive \/ alive' = alive \ {p}, crashes' \in 0 .. MaxCrashes
  PROVE  LeaseIInv'
<1>0. /\ pc \in [Procs -> PC] /\ tok \in [Procs -> Tokens \cup {NoOwner}]
      /\ saw \in [Procs -> BOOLEAN] /\ retry \in [Procs -> BOOLEAN]
      /\ pc[p] # "idle" => tok[p] # NoOwner
  BY DEF LeaseIInv, LsTypeOK
<1>1. \A q \in Procs : /\ pc'[q] = IF q = p THEN "idle" ELSE pc[q]
                       /\ tok'[q] = IF q = p THEN NoOwner ELSE tok[q]
  BY <1>0 DEF Drop
<1>2. /\ pc' \in [Procs -> PC] /\ tok' \in [Procs -> Tokens \cup {NoOwner}]
      /\ saw' \in [Procs -> BOOLEAN] /\ retry' \in [Procs -> BOOLEAN]
  BY <1>0 DEF Drop, PC
<1>3. lease' \in LeaseFiles /\ guard' \in GuardFiles /\ alive' \subseteq Procs
  BY FileTypes DEF LeaseIInv, LsTypeOK
<1>4. LsTypeOK'
  BY <1>1, <1>2, <1>3 DEF LeaseIInv, LsTypeOK
\* Nobody else owned the lease or held the guard.
<1>5. ASSUME NEW q \in Procs, q # p, pc[q] \in Holding PROVE UNCHANGED lease
  BY <1>0, <1>5 DEF LeaseIInv, HolderOwnsFile, TokensDiffer, Owned, Holding, LsTypeOK
<1>6. ASSUME NEW q \in Procs, q # p, pc[q] \in Guarded PROVE UNCHANGED guard
  BY <1>0, <1>6 DEF LeaseIInv, Guarding, TokensDiffer, Guarded, LsTypeOK
<1>7. HolderOwnsFile'
  BY <1>1, <1>5 DEF LeaseIInv, HolderOwnsFile, Owned, Holding
<1>8. Guarding' /\ GuardsStay'
  BY <1>1, <1>6, FileTypes DEF LeaseIInv, Guarding, GuardsStay, Guarded
<1>9. TokensDiffer' /\ Named'
  BY <1>1, FileTypes DEF LeaseIInv, TokensDiffer, Named
<1>10. Installed'
  BY <1>1, FileTypes DEF LeaseIInv, Installed
<1>11. Filling'
  BY <1>1 DEF LeaseIInv, Filling, HolderOwnsFile, Owned
<1>12. Condemned'
  <2> SUFFICES ASSUME NEW q \in Procs, pc'[q] = "replace"
               PROVE  lease'.kind = "valid" /\ \A r \in Procs : tok'[r] # lease'.owner
    BY DEF Condemned
  <2>1. q # p /\ lease.kind = "valid" /\ lease.owner # NoOwner /\ \A r \in Procs : tok[r] # lease.owner
    BY <1>1 DEF LeaseIInv, Condemned, Named
  <2>2. UNCHANGED lease
    BY <2>1 DEF LeaseIInv, HolderOwnsFile, Owned
  <2> QED BY <1>1, <2>1, <2>2
<1> QED BY <1>4, <1>7, <1>8, <1>9, <1>10, <1>11, <1>12 DEF LeaseIInv

\* A process puts its lease where there is none, fills the file it created or replaces
\* a condemned lease.
LEMMA InstallKeeps ==
  ASSUME LeaseIInv, NEW p \in Procs, NEW n \in {"held", "verify"}, NEW t \in Tokens,
         LsGoto(p, n), tok' = [tok EXCEPT ![p] = t], lease' = Lease(t, p),
         UNCHANGED <<guard, alive, crashes, saw, retry>>, p \in alive,
         t = tok[p] \/ t \notin UsedTokens,
         lease.kind = "absent" \/ pc[p] \in {"fill", "fill2", "replace"},
         n = "verify" => pc[p] \in Guarded /\ t = tok[p]
  PROVE  LeaseIInv'
<1>0. /\ pc \in [Procs -> PC] /\ tok \in [Procs -> Tokens \cup {NoOwner}] /\ t # NoOwner
  BY LeaseAssumption DEF LeaseIInv, LsTypeOK
<1>1. \A q \in Procs : /\ pc'[q] = IF q = p THEN n ELSE pc[q]
                       /\ tok'[q] = IF q = p THEN t ELSE tok[q]
  BY <1>0 DEF LsGoto
<1>2. /\ lease' \in LeaseFiles /\ lease'.kind = "valid" /\ lease'.owner = t /\ lease'.by = p
  BY FileTypes
<1>3. \A q \in Procs : q # p => tok[q] # t
  BY <1>0 DEF LeaseIInv, TokensDiffer, UsedTokens
<1>4. \A q \in Procs : q # p => pc[q] \notin Holding \cup {"fill", "fill2", "replace"}
  <2> SUFFICES ASSUME NEW q \in Procs, q # p, pc[q] \in Holding \cup {"fill", "fill2", "replace"}
               PROVE  FALSE
    OBVIOUS
  <2>1. lease.kind # "absent"
    BY DEF LeaseIInv, HolderOwnsFile, Owned, Filling, Condemned
  <2>2. CASE pc[p] \in {"fill", "fill2"}
    BY <2>2 DEF LeaseIInv, HolderOwnsFile, Owned, Filling, Condemned
  <2>3. CASE pc[p] = "replace"
    <3>1. lease.kind = "valid" /\ tok[q] # lease.owner
      BY <2>3 DEF LeaseIInv, Condemned
    <3>2. pc[q] = "replace"
      BY <3>1 DEF LeaseIInv, HolderOwnsFile, Owned, Filling
    <3>3. guard.owner = tok[p] /\ guard.owner = tok[q] /\ tok[p] # NoOwner
      BY <2>3, <3>2 DEF LeaseIInv, Guarding, Guarded, LsTypeOK
    <3> QED BY <3>3 DEF LeaseIInv, TokensDiffer
  <2> QED BY <2>1, <2>2, <2>3
<1>5. LsTypeOK'
  <2>1. pc' \in [Procs -> PC] /\ tok' \in [Procs -> Tokens \cup {NoOwner}]
    BY <1>0 DEF LsGoto, PC
  <2> QED BY <1>0, <1>1, <1>2, <2>1 DEF LeaseIInv, LsTypeOK
<1>6. HolderOwnsFile'
  BY <1>1, <1>2, <1>4 DEF HolderOwnsFile, Owned
<1>7. Guarding' /\ GuardsStay'
  BY <1>1 DEF LeaseIInv, Guarding, GuardsStay, Guarded
<1>8. TokensDiffer' /\ Named'
  BY <1>0, <1>1, <1>2, <1>3 DEF LeaseIInv, TokensDiffer, Named
<1>9. Installed'
  BY <1>1, <1>2, <1>3 DEF Installed, Holding
<1>10. Filling' /\ Condemned'
  BY <1>1, <1>4 DEF Filling, Condemned
<1> QED BY <1>5, <1>6, <1>7, <1>8, <1>9, <1>10 DEF LeaseIInv

\* A process creates the file empty, where there is none.
LEMMA OpenKeeps ==
  ASSUME LeaseIInv, NEW p \in Procs, NEW n \in {"fill", "fill2"}, NEW t \in Tokens,
         LsGoto(p, n), tok' = [tok EXCEPT ![p] = t], lease' = EmptyLease, lease.kind = "absent",
         UNCHANGED <<guard, alive, crashes, saw, retry>>, p \in alive,
         t = tok[p] \/ t \notin UsedTokens,
         n = "fill2" => pc[p] \in Guarded /\ t = tok[p]
  PROVE  LeaseIInv'
<1>0. /\ pc \in [Procs -> PC] /\ tok \in [Procs -> Tokens \cup {NoOwner}] /\ t # NoOwner
  BY LeaseAssumption DEF LeaseIInv, LsTypeOK
<1>1. \A q \in Procs : /\ pc'[q] = IF q = p THEN n ELSE pc[q]
                       /\ tok'[q] = IF q = p THEN t ELSE tok[q]
  BY <1>0 DEF LsGoto
<1>2. lease' \in LeaseFiles /\ lease'.kind = "empty" /\ lease'.owner = NoOwner
  BY FileTypes
<1>3. \A q \in Procs : q # p => tok[q] # t
  BY <1>0 DEF LeaseIInv, TokensDiffer, UsedTokens
<1>4. \A q \in Procs : q # p => pc[q] \notin Holding \cup {"fill", "fill2", "replace"}
  BY DEF LeaseIInv, HolderOwnsFile, Owned, Filling, Condemned
<1>5. LsTypeOK'
  <2>1. pc' \in [Procs -> PC] /\ tok' \in [Procs -> Tokens \cup {NoOwner}]
    BY <1>0 DEF LsGoto, PC
  <2> QED BY <1>0, <1>1, <1>2, <2>1 DEF LeaseIInv, LsTypeOK
<1>6. HolderOwnsFile' /\ Condemned'
  BY <1>1, <1>4 DEF HolderOwnsFile, Condemned, Holding
<1>7. Guarding' /\ GuardsStay'
  BY <1>1 DEF LeaseIInv, Guarding, GuardsStay, Guarded
<1>8. TokensDiffer' /\ Named' /\ Installed'
  BY <1>0, <1>1, <1>2, <1>3 DEF LeaseIInv, TokensDiffer, Named, Installed
<1>9. Filling'
  BY <1>1, <1>2, <1>4 DEF Filling
<1> QED BY <1>5, <1>6, <1>7, <1>8, <1>9 DEF LeaseIInv

\* The lease file is touched, or grows old.
LEMMA AgeKeeps ==
  ASSUME LeaseIInv, NEW b \in BOOLEAN, lease' = [lease EXCEPT !.old = b],
         UNCHANGED <<guard, alive, pc, tok, saw, retry, crashes>>
  PROVE  LeaseIInv'
<1>1. lease' \in LeaseFiles /\ lease'.kind = lease.kind /\ lease'.owner = lease.owner /\ lease'.by = lease.by
  BY FileTypes DEF LeaseIInv, LsTypeOK
<1>2. LsTypeOK'
  BY <1>1 DEF LeaseIInv, LsTypeOK
<1>3. HolderOwnsFile' /\ Guarding' /\ GuardsStay'
  BY <1>1 DEF LeaseIInv, HolderOwnsFile, Owned, Guarding, GuardsStay
<1>4. TokensDiffer' /\ Installed' /\ Named'
  BY <1>1 DEF LeaseIInv, TokensDiffer, Installed, Named
<1>5. Filling' /\ Condemned'
  BY <1>1 DEF LeaseIInv, Filling, Condemned
<1> QED BY <1>2, <1>3, <1>4, <1>5 DEF LeaseIInv
-----------------------------------------------------------------------------
(* Every step is one of these.                                               *)

\* What a process finds stale under the guard belongs to nobody.
LEMMA StaleIsCondemned ==
  ASSUME LeaseIInv, DistinctPids, NEW p \in Procs, pc[p] = "read2", Stale(p), NEW q \in Procs
  PROVE  tok[q] # lease.owner
<1> SUFFICES ASSUME tok[q] = lease.owner PROVE FALSE
  OBVIOUS
<1>1. lease.owner # NoOwner /\ lease.by \in Procs
  BY DEF Stale, LeaseIInv, Named
<1>2. lease.by = q /\ pc[q] \in Holding \cup {"verify"}
  BY <1>1 DEF LeaseIInv, Installed
<1>3. q \in alive /\ q # p
  BY <1>2 DEF LeaseIInv, LsTypeOK, Holding
<1>4. PidOf[q] # PidOf[p]
  BY <1>3 DEF DistinctPids
<1> QED BY <1>2, <1>3, <1>4 DEF Stale, OwnerAlive

\* acquire, and the late creations.
LEMMA CreateStep ==
  ASSUME LeaseIInv, NEW p \in Procs, Acquire(p) \/ CreateLate(p) \/ Fill(p) \/ Replace(p)
  PROVE  LeaseIInv'
<1>0. /\ pc \in [Procs -> PC] /\ tok \in [Procs -> Tokens \cup {NoOwner}] /\ crashes \in 0 .. MaxCrashes
      /\ saw \in [Procs -> BOOLEAN] /\ retry \in [Procs -> BOOLEAN]
      /\ pc[p] # "idle" => tok[p] \in Tokens /\ tok[p] # NoOwner
      /\ pc[p] # "idle" => [tok EXCEPT ![p] = tok[p]] = tok
  BY DEF LeaseIInv, LsTypeOK
<1>1. CASE Acquire(p)
  <2>1. /\ FreshToken \in Tokens /\ FreshToken \notin UsedTokens
        /\ p \in alive /\ pc[p] = "idle" /\ tok' = [tok EXCEPT ![p] = FreshToken]
        /\ UNCHANGED <<guard, alive, saw, retry, crashes>>
    BY <1>1, FreshTokens DEF Acquire
  <2>2. CASE lease.kind = "absent" /\ lease' = Lease(FreshToken, p) /\ LsGoto(p, "held")
    BY <2>1, <2>2, InstallKeeps
  <2>3. CASE lease.kind = "absent" /\ lease' = EmptyLease /\ LsGoto(p, "fill")
    BY <2>1, <2>3, OpenKeeps
  <2>4. CASE UNCHANGED lease /\ LsGoto(p, "stat")
    <3>1. /\ \A q \in Procs : /\ pc'[q] = IF q = p THEN "stat" ELSE pc[q]
                              /\ tok'[q] = IF q = p THEN FreshToken ELSE tok[q]
          /\ FreshToken # NoOwner /\ FreshToken # lease.owner
          /\ \A q \in Procs : tok[q] # FreshToken
      BY <1>0, <2>1, <2>4, LeaseAssumption DEF LsGoto, UsedTokens
    <3>2. LsTypeOK'
      <4>1. pc' \in [Procs -> PC] /\ tok' \in [Procs -> Tokens \cup {NoOwner}]
        BY <1>0, <2>1, <2>4 DEF LsGoto, PC
      <4> QED BY <2>1, <2>4, <3>1, <4>1 DEF LeaseIInv, LsTypeOK
    <3>3. HolderOwnsFile' /\ Guarding' /\ GuardsStay'
      BY <2>1, <2>4, <3>1 DEF LeaseIInv, HolderOwnsFile, Owned, Guarding, GuardsStay, Holding, Guarded
    <3>4. TokensDiffer' /\ Installed' /\ Named'
      BY <2>1, <2>4, <3>1 DEF LeaseIInv, TokensDiffer, Installed, Named
    <3>5. Filling' /\ Condemned'
      BY <2>1, <2>4, <3>1 DEF LeaseIInv, Filling, Condemned
    <3> QED BY <3>2, <3>3, <3>4, <3>5 DEF LeaseIInv
  <2> QED BY <1>1, <2>2, <2>3, <2>4 DEF Acquire, CreateLease
<1>2. CASE CreateLate(p)
  <2>1. p \in alive /\ pc[p] \in {"create", "create2"} /\ UNCHANGED <<guard, alive, crashes>>
    BY <1>2 DEF CreateLate
  <2>2. CASE /\ lease.kind = "absent" /\ lease' = Lease(tok[p], p) /\ UNCHANGED Locals
             /\ LsGoto(p, "held") \/ (LsGoto(p, "verify") /\ pc[p] = "create2")
    BY <1>0, <2>1, <2>2, InstallKeeps DEF Locals, Guarded
  <2>3. CASE /\ lease.kind = "absent" /\ lease' = EmptyLease /\ UNCHANGED Locals
             /\ LsGoto(p, "fill") \/ (LsGoto(p, "fill2") /\ pc[p] = "create2")
    BY <1>0, <2>1, <2>3, OpenKeeps DEF Locals, Guarded
  <2>4. CASE UNCHANGED lease /\ Drop(p)
    BY <1>0, <2>1, <2>4, DropKeeps
  <2>5. CASE UNCHANGED lease /\ LsGoto(p, "readGuardFail") /\ pc[p] = "create2" /\ UNCHANGED Locals
    <3>1. lease.owner # tok[p]
      BY <1>0, <2>5 DEF LeaseIInv, Installed, Holding
    <3> QED BY <1>0, <2>1, <2>5, <3>1, MoveKeeps DEF Locals, Guarded, Holding, PC
  <2> QED BY <1>2, <2>2, <2>3, <2>4, <2>5 DEF CreateLate, CreateLease
<1>3. CASE Fill(p)
  <2>1. CASE pc[p] = "fill"
    BY <1>0, <1>3, <2>1, InstallKeeps DEF Fill, Locals
  <2>2. CASE pc[p] = "fill2"
    BY <1>0, <1>3, <2>2, InstallKeeps DEF Fill, Locals, Guarded
  <2> QED BY <1>3, <2>1, <2>2 DEF Fill
<1>4. CASE Replace(p)
  BY <1>0, <1>4, InstallKeeps DEF Replace, Locals, Guarded
<1> QED BY <1>1, <1>2, <1>3, <1>4

\* The steps that only look, and the claim of the guard.
LEMMA LookStep ==
  ASSUME LeaseIInv, DistinctPids, NEW p \in Procs,
         StatLease(p) \/ ReadLease(p) \/ Claim(p) \/ StatGuard(p) \/ RemoveGuard(p) \/ Revalidate(p)
  PROVE  LeaseIInv'
<1>0. /\ pc \in [Procs -> PC] /\ tok \in [Procs -> Tokens \cup {NoOwner}] /\ crashes \in 0 .. MaxCrashes
      /\ saw \in [Procs -> BOOLEAN] /\ retry \in [Procs -> BOOLEAN] /\ lease.old \in BOOLEAN
      /\ pc[p] # "idle" => tok[p] \in Tokens /\ tok[p] # NoOwner
      /\ pc[p] \notin Holding \cup {"idle", "verify"} => lease.owner # tok[p]
  BY DEF LeaseIInv, LsTypeOK, Installed, LeaseFiles
<1>1. CASE StatLease(p)
  <2>1. saw' \in [Procs -> BOOLEAN]
    BY <1>0, <1>1 DEF StatLease
  <2>2. lease.owner # tok[p]
    BY <1>0, <1>1 DEF StatLease, Holding
  <2>3. CASE pc[p] = "stat"
    <3>1. \E n \in {"create", "read"} : LsGoto(p, n)
      BY <1>1, <2>3 DEF StatLease
    <3> QED BY <1>0, <1>1, <2>1, <2>2, <2>3, <3>1, MoveKeeps DEF StatLease, Guarded, Holding, PC
  <2>4. CASE pc[p] = "stat2"
    <3>1. \E n \in {"create2", "read2"} : LsGoto(p, n)
      BY <1>1, <2>4 DEF StatLease
    <3> QED BY <1>0, <1>1, <2>1, <2>2, <2>4, <3>1, MoveKeeps DEF StatLease, Guarded, Holding, PC
  <2> QED BY <1>1, <2>3, <2>4 DEF StatLease
<1>2. CASE ReadLease(p)
  <2>1. lease.owner # tok[p]
    BY <1>0, <1>2 DEF ReadLease, Holding
  <2>2. CASE UNCHANGED Locals /\ \E n \in {"create", "claim"} : LsGoto(p, n)
    BY <1>0, <1>2, <2>1, <2>2, MoveKeeps DEF ReadLease, Locals, Guarded, Holding, PC
  <2>3. CASE Drop(p)
    BY <1>0, <1>2, <2>3, DropKeeps DEF ReadLease
  <2> QED BY <1>2, <2>2, <2>3 DEF ReadLease
<1>3. CASE Claim(p)
  <2>1. lease.owner # tok[p]
    BY <1>0, <1>3 DEF Claim, Holding
  <2>2. CASE UNCHANGED guard /\ LsGoto(p, "statGuard")
    BY <1>0, <1>3, <2>1, <2>2, MoveKeeps DEF Claim, Locals, Guarded, Holding, PC
  <2>3. CASE guard.kind = "absent" /\ guard' = Guard(tok[p]) /\ LsGoto(p, "stat2")
    <3>1. /\ \A q \in Procs : pc'[q] = IF q = p THEN "stat2" ELSE pc[q]
          /\ pc[p] = "claim" /\ UNCHANGED <<lease, alive, crashes, tok, saw, retry>>
      BY <1>0, <1>3, <2>3 DEF Claim, Locals, LsGoto
    <3>2. guard' \in GuardFiles /\ guard'.kind = "valid" /\ guard'.owner = tok[p] /\ ~guard'.old
      BY <1>0, <2>3, <3>1, FileTypes
    <3>3. \A q \in Procs : pc[q] \notin Guarded
      BY <2>3 DEF LeaseIInv, Guarding
    <3>4. LsTypeOK'
      <4>1. pc' \in [Procs -> PC]
        BY <1>0, <2>3 DEF LsGoto, PC
      <4> QED BY <3>1, <3>2, <4>1 DEF LeaseIInv, LsTypeOK
    <3>5. HolderOwnsFile' /\ Guarding' /\ GuardsStay'
      BY <3>1, <3>2, <3>3 DEF LeaseIInv, HolderOwnsFile, Owned, Guarding, GuardsStay, Holding
    <3>6. TokensDiffer' /\ Installed' /\ Named'
      BY <2>1, <3>1 DEF LeaseIInv, TokensDiffer, Installed, Named
    <3>7. Filling' /\ Condemned'
      BY <3>1 DEF LeaseIInv, Filling, Condemned
    <3> QED BY <3>4, <3>5, <3>6, <3>7 DEF LeaseIInv
  <2> QED BY <1>3, <2>2, <2>3 DEF Claim
<1>4. CASE StatGuard(p)
  <2>0. ~guard.old /\ lease.owner # tok[p]
    BY <1>0, <1>4 DEF LeaseIInv, GuardsStay, StatGuard, Holding
  <2>1. CASE Drop(p)
    BY <1>0, <1>4, <2>1, DropKeeps DEF StatGuard
  <2>2. CASE LsGoto(p, "claim") /\ retry' = [retry EXCEPT ![p] = TRUE] /\ UNCHANGED <<tok, saw>>
    BY <1>0, <1>4, <2>0, <2>2, MoveKeeps DEF StatGuard, Guarded, Holding, PC
  <2> QED BY <1>4, <2>0, <2>1, <2>2 DEF StatGuard
<1>5. CASE RemoveGuard(p)
  BY <1>5 DEF RemoveGuard, LeaseIInv, GuardsStay
<1>6. CASE Revalidate(p)
  <2>1. lease.owner # tok[p] /\ pc[p] = "read2"
    BY <1>0, <1>6 DEF Revalidate, Holding
  <2>2. CASE LsGoto(p, "replace") /\ Stale(p)
    <3>1. lease.kind = "valid" /\ \A q \in Procs : tok[q] # lease.owner
      BY <2>1, <2>2, StaleIsCondemned DEF Stale
    <3> QED BY <1>0, <1>6, <2>1, <2>2, <3>1, MoveKeeps DEF Revalidate, Locals, Guarded, Holding, PC
  <2>3. CASE \E n \in {"create2", "readGuardFail"} : LsGoto(p, n)
    BY <1>0, <1>6, <2>1, <2>3, MoveKeeps DEF Revalidate, Locals, Guarded, Holding, PC
  <2> QED BY <1>6, <2>2, <2>3 DEF Revalidate
<1> QED BY <1>1, <1>2, <1>3, <1>4, <1>5, <1>6

\* The steps with the lease installed, and the release of the guard.
LEMMA OwnerStep ==
  ASSUME LeaseIInv, NEW p \in Procs,
         Verify(p) \/ ReadGuard(p) \/ DropGuard(p) \/ Heartbeat(p) \/ Fence(p) \/ DurableWrite(p)
         \/ ReleaseCheck(p) \/ Remove(p)
  PROVE  LeaseIInv'
<1>0. /\ pc \in [Procs -> PC] /\ tok \in [Procs -> Tokens \cup {NoOwner}] /\ crashes \in 0 .. MaxCrashes
      /\ saw \in [Procs -> BOOLEAN] /\ retry \in [Procs -> BOOLEAN] /\ lease \in LeaseFiles
      /\ pc[p] # "idle" => tok[p] \in Tokens /\ tok[p] # NoOwner
      /\ pc[p] \in Holding => Owned(p)
      /\ lease.owner = tok[p] /\ pc[p] # "idle" => pc[p] \in Holding \cup {"verify"} /\ lease.kind = "valid"
  BY DEF LeaseIInv, LsTypeOK, HolderOwnsFile, Installed, Named
<1>1. CASE Verify(p)
  <2>1. CASE Owned(p) /\ LsGoto(p, "readGuard")
    BY <1>0, <1>1, <2>1, MoveKeeps DEF Verify, Locals, Guarded, Holding, PC
  <2>2. CASE ~Owned(p) /\ LsGoto(p, "readGuardFail")
    <3>1. lease.owner # tok[p]
      BY <1>0, <1>1, <2>2 DEF Verify, Owned
    <3> QED BY <1>0, <1>1, <2>2, <3>1, MoveKeeps DEF Verify, Locals, Guarded, Holding, PC
  <2> QED BY <1>1, <2>1, <2>2 DEF Verify
<1>2. CASE ReadGuard(p)
  <2>1. CASE Drop(p)
    BY <1>0, <1>2, <2>1, DropKeeps DEF ReadGuard
  <2>2. CASE pc[p] = "readGuard" /\ UNCHANGED Locals /\ \E n \in {"dropGuard", "held"} : LsGoto(p, n)
    BY <1>0, <1>2, <2>2, MoveKeeps DEF ReadGuard, Locals, Guarded, Holding, PC
  <2>3. CASE pc[p] = "readGuardFail" /\ UNCHANGED Locals /\ LsGoto(p, "dropGuardFail")
    <3>1. lease.owner # tok[p]
      BY <1>0, <2>3 DEF Holding
    <3> QED BY <1>0, <1>2, <2>3, <3>1, MoveKeeps DEF ReadGuard, Locals, Guarded, Holding, PC
  <2> QED BY <1>2, <2>1, <2>2, <2>3 DEF ReadGuard
<1>3. CASE DropGuard(p)
  <2>1. CASE pc[p] = "dropGuardFail" /\ Drop(p)
    BY <1>0, <1>3, <2>1, DropKeeps DEF DropGuard, Guarded
  <2>2. CASE pc[p] = "dropGuard" /\ LsGoto(p, "held") /\ UNCHANGED Locals
    <3>1. /\ \A q \in Procs : pc'[q] = IF q = p THEN "held" ELSE pc[q]
          /\ guard' = NoFile /\ UNCHANGED <<lease, alive, crashes, tok, saw, retry>>
      BY <1>0, <1>3, <2>2 DEF DropGuard, Locals, LsGoto
    <3>2. \A q \in Procs : q # p => pc[q] \notin Guarded
      BY <1>0, <2>2 DEF LeaseIInv, Guarding, TokensDiffer, Guarded
    <3>3. LsTypeOK'
      <4>1. pc' \in [Procs -> PC]
        BY <1>0, <2>2 DEF LsGoto, PC
      <4> QED BY <2>2, <3>1, <4>1, FileTypes DEF LeaseIInv, LsTypeOK
    <3>4. HolderOwnsFile' /\ Guarding' /\ GuardsStay'
      BY <2>2, <3>1, <3>2, FileTypes DEF LeaseIInv, HolderOwnsFile, Owned, Guarding, GuardsStay, Holding, Guarded
    <3>5. TokensDiffer' /\ Installed' /\ Named'
      BY <3>1 DEF LeaseIInv, TokensDiffer, Installed, Named, Holding
    <3>6. Filling' /\ Condemned'
      BY <3>1 DEF LeaseIInv, Filling, Condemned
    <3> QED BY <3>3, <3>4, <3>5, <3>6 DEF LeaseIInv
  <2> QED BY <1>3, <2>1, <2>2 DEF DropGuard
<1>4. CASE Heartbeat(p)
  <2>1. CASE Drop(p) /\ UNCHANGED <<lease, guard, alive, crashes>>
    BY <1>0, <2>1, DropKeeps
  <2>2. CASE lease' = [lease EXCEPT !.old = FALSE] /\ UNCHANGED <<pc, Locals>>
    BY <1>0, <1>4, <2>2, AgeKeeps DEF Heartbeat, Locals
  <2> QED BY <1>4, <2>1, <2>2 DEF Heartbeat
<1>5. CASE Fence(p)
  <2>1. CASE Drop(p)
    BY <1>0, <1>5, <2>1, DropKeeps DEF Fence
  <2>2. CASE LsGoto(p, "write") /\ UNCHANGED Locals
    BY <1>0, <1>5, <2>2, MoveKeeps DEF Fence, Locals, Guarded, Holding, PC
  <2> QED BY <1>5, <2>1, <2>2 DEF Fence
<1>6. CASE DurableWrite(p)
  BY <1>0, <1>6, MoveKeeps DEF DurableWrite, Locals, Guarded, Holding, PC
<1>7. CASE ReleaseCheck(p)
  <2>1. CASE Drop(p)
    BY <1>0, <1>7, <2>1, DropKeeps DEF ReleaseCheck
  <2>2. CASE LsGoto(p, "remove") /\ UNCHANGED Locals
    BY <1>0, <1>7, <2>2, MoveKeeps DEF ReleaseCheck, Locals, Guarded, Holding, PC
  <2> QED BY <1>7, <2>1, <2>2 DEF ReleaseCheck
<1>8. CASE Remove(p)
  BY <1>0, <1>8, DropKeeps DEF Remove, Holding
<1> QED BY <1>1, <1>2, <1>3, <1>4, <1>5, <1>6, <1>7, <1>8

\* While no guard is reclaimed and pids differ, every step keeps the invariant.
LEMMA LeaseInductive ==
  ASSUME DistinctPids, ~GuardAges, LeaseIInv, [LsNext]_lsVars
  PROVE  LeaseIInv'
<1>1. ASSUME NEW p \in Procs, Acquire(p) \/ Proceed(p) \/ Heartbeat(p) \/ Fence(p) \/ ReleaseCheck(p)
      PROVE  LeaseIInv'
  BY <1>1, CreateStep, LookStep, OwnerStep DEF Proceed
<1>2. ASSUME NEW p \in Procs, CrashProc(p) PROVE LeaseIInv'
  <2>1. crashes' \in 0 .. MaxCrashes
    BY <1>2, LeaseAssumption DEF CrashProc, LeaseIInv, LsTypeOK
  <2> QED BY <1>2, <2>1, DropKeeps DEF CrashProc
<1>3. ASSUME NEW p \in Procs, RestartProc(p) PROVE LeaseIInv'
  <2>1. alive' = alive \cup {p} /\ UNCHANGED <<lease, guard, pc, crashes, tok, saw, retry>>
    BY <1>3 DEF RestartProc, Locals
  <2>2. LsTypeOK'
    BY <2>1 DEF LeaseIInv, LsTypeOK
  <2> QED BY <2>1, <2>2 DEF LeaseIInv, HolderOwnsFile, Owned, Guarding, GuardsStay, TokensDiffer,
                            Installed, Named, Filling, Condemned
<1>4. CASE AgeLease
  BY <1>4, AgeKeeps DEF AgeLease, Locals
<1>5. CASE AgeGuard
  BY <1>5 DEF AgeGuard
<1>6. CASE UNCHANGED lsVars
  BY <1>6 DEF lsVars, LeaseIInv, LsTypeOK, HolderOwnsFile, Owned, Guarding, GuardsStay, TokensDiffer,
              Installed, Named, Filling, Condemned
<1> QED BY <1>1, <1>2, <1>3, <1>4, <1>5, <1>6 DEF LsNext

\* Whoever believes to hold the lease of a runtime root is the owner its file names, in
\* any number of processes that crash, restart, take over and release at the same time
\* (acquire, claimTakeover, the heartbeat and release of lease.ts), as long as no
\* takeover guard is reclaimed and no two processes see themselves under one pid.
THEOREM HoldersOwnTheLease ==
  ASSUME DistinctPids, ~GuardAges
  PROVE  LsSpec => []LeaseInv
<1>1. LsInit => LeaseIInv
  <2> SUFFICES ASSUME LsInit PROVE LeaseIInv
    OBVIOUS
  <2>1. LsTypeOK
    BY LeaseAssumption, FileTypes DEF LsInit, LsTypeOK, PC
  <2> QED BY <2>1, FileTypes DEF LsInit, LeaseIInv, HolderOwnsFile, Guarding, GuardsStay, TokensDiffer,
                                 Installed, Named, Filling, Condemned, Holding, Guarded
<1>2. LeaseIInv /\ [LsNext]_lsVars => LeaseIInv'
  BY LeaseInductive
<1>3. LeaseIInv => LeaseInv
  BY DEF LeaseIInv, LeaseInv
<1> QED BY <1>1, <1>2, <1>3, PTL DEF LsSpec

-----------------------------------------------------------------------------
(* The memory store.  A database is consistent when its rows determine each   *)
(* other: what a proposal was applied to, which version is current, which     *)
(* decision has a review.  Every committed transaction, an import too, takes  *)
(* a consistent database to a consistent one, and the file an export wrote    *)
(* is consistent as well.                                                      *)

\* The rows of a database without the projection, and the file of an export.
DbTypes(db) ==
  /\ db \in [props: SUBSET Proposal,
             vers: SUBSET [id: Ids, rev: Nat \ {0}, scope: DOMAIN Scopes, content: Contents, by: Ids],
             heads: SUBSET [id: Ids, scope: DOMAIN Scopes, key: {DedupeKey[c] : c \in Contents},
                            rev: Nat \ {0}, status: {"active", "archived"}],
             reviews: SUBSET [id: Ids, key: {r.key : r \in Reviews},
                              decision: {"approve", "reject"}, applied: Nat],
             fts: SUBSET [id: Ids, content: Contents],
             events: SUBSET Feedbacks]

\* The primary keys of memory_proposals, memory_records and memory_versions
\* and the unique key of the feedback events.
UniqueRows(db) ==
  /\ \A p, q \in db.props : p.id = q.id => p = q
  /\ \A g, h \in db.heads : g.id = h.id => g = h
  /\ \A v, w \in db.vers : v.id = w.id /\ v.rev = w.rev => v = w
  /\ \A e, f \in db.events : e.key = f.key => e = f

\* Each version was made by one applied proposal, and the first of a record
\* bears the id of the proposal that created it.
VersionsMade(db) ==
  /\ \A p \in db.props : p.status = "approved" /\ p.op # "archive" => \E v \in db.vers : v.by = p.id
  /\ \A v, w \in db.vers : v.by = w.by => v = w
  /\ \A v \in db.vers : \E p \in db.props : p.id = v.by /\ p.status = "approved" /\ p.op # "archive"
  /\ \A v \in db.vers : v.rev = 1 => v.by = v.id

\* The head of a record is at its last version and has that version's key.
HeadsCurrent(db) ==
  /\ \A v \in db.vers : \E h \in db.heads : h.id = v.id /\ v.rev <= h.rev
  /\ \A h \in db.heads : \A r \in 1..h.rev : \E v \in db.vers : v.id = h.id /\ v.rev = r
  /\ \A h \in db.heads, v \in db.vers : v.id = h.id /\ v.rev = h.rev => h.key = DedupeKey[v.content]

\* A decision and its review are one row each of one transaction.
DecisionsReviewed(db) ==
  /\ \A p \in db.props : p.status # "pending" <=> \E v \in db.reviews : v.id = p.id
  /\ \A v \in db.reviews : \E p \in db.props : p.id = v.id

\* An applied change replaced or archived the revision it was proposed for.
ChangesApplied(db) ==
  \A p \in db.props : p.status = "approved" =>
    /\ p.op = "replace" => \E v \in db.vers : v.by = p.id /\ v.id = p.target /\ v.rev = p.trev + 1
    /\ p.op = "archive" => \E h \in db.heads : h.id = p.target /\ h.status = "archived" /\ h.rev = p.trev

Consistent(db) ==
  /\ DbTypes(db) /\ UniqueRows(db) /\ ActiveDedupe(db.heads)
  /\ VersionsMade(db) /\ HeadsCurrent(db) /\ DecisionsReviewed(db) /\ ChangesApplied(db)

\* The tool calls in flight.
MemCall ==
  [pc: {"idle", "export", "import"}]
    \cup [pc: {"propose"}, req: Requests, fresh: BOOLEAN]
    \cup [pc: {"review"}, req: Reviews, fresh: BOOLEAN]
    \cup [pc: {"row"}, id: Ids]
    \cup [pc: {"get"}, id: Ids, status: {"pending", "approved", "rejected"}]
    \cup [pc: {"viewed"}, status: {"pending", "approved", "rejected"}, reviewed: BOOLEAN]
    \cup [pc: {"feedback"}, req: Feedbacks]
    \cup [pc: {"acked"}, key: {f.key : f \in Feedbacks}]

\* A caller that read a decision will find its review, and an answered
\* feedback has its event.
Backed(call, db) ==
  /\ call.pc = "get" /\ call.status # "pending" => \E v \in db.reviews : v.id = call.id
  /\ call.pc = "viewed" /\ call.status # "pending" => call.reviewed
  /\ call.pc = "acked" => \E e \in db.events : e.key = call.key

\* The inductive invariant of the memory store.
MemIInv ==
  /\ Consistent(memDb) /\ ProjectionFresh
  /\ memFile # NoExport \/ (\E c \in Callers : memCall[c].pc = "import") => Consistent(memFile)
  /\ memCall \in [Callers -> MemCall]
  /\ \A c \in Callers : Backed(memCall[c], memDb)

\* A snapshot that is outdated is the only thing a commit changes of the other
\* calls.
LEMMA OutdatedKeeps ==
  ASSUME NEW call \in MemCall
  PROVE  /\ Outdated(call) \in MemCall /\ Outdated(call).pc = call.pc
         /\ call.pc \in {"get", "viewed", "acked"} => Outdated(call) = call
BY DEF Outdated, MemCall

\* The calls of a caller are of the declared kinds.
LEMMA IdleCallType == IdleCaller \in MemCall /\ \A db : Backed(IdleCaller, db)
BY DEF IdleCaller, MemCall, Backed

\* A step of one caller that commits nothing.
LEMMA TurnStep ==
  ASSUME MemIInv, NEW c \in Callers, NEW call \in MemCall, Backed(call, memDb),
         call.pc = "import" => memFile # NoExport,
         memCall' = [memCall EXCEPT ![c] = call], UNCHANGED <<memDb, memFile>>
  PROVE  MemIInv'
BY DEF MemIInv, ProjectionFresh

\* A commit that leaves the database consistent, its projection fresh, and
\* deletes no review and no event.
LEMMA CommitStep ==
  ASSUME MemIInv, NEW c \in Callers, NEW db, NEW call \in MemCall, CommitWrite(c, db, call),
         Consistent(db), db.fts = Projection(db.heads, db.vers), Backed(call, db), call.pc # "import",
         \A v \in memDb.reviews : \E w \in db.reviews : w.id = v.id,
         \A e \in memDb.events : \E f \in db.events : f.key = e.key
  PROVE  MemIInv'
<1>1. memDb' = db /\ memFile' = memFile
  BY DEF CommitWrite
<1>2. Consistent(memDb)' /\ ProjectionFresh'
  BY <1>1 DEF MemIInv, ProjectionFresh
<1>3. memCall' \in [Callers -> MemCall]
  BY OutdatedKeeps DEF MemIInv, CommitWrite
<1>5. \A x \in Callers : memCall'[x].pc = "import" => memCall[x].pc = "import"
  BY OutdatedKeeps DEF MemIInv, CommitWrite
<1>4. ASSUME NEW x \in Callers
      PROVE  Backed(memCall'[x], db)
  <2>1. CASE x = c
    BY <2>1 DEF CommitWrite
  <2>2. CASE x # c
    <3>1. memCall[x] \in MemCall /\ memCall'[x] = Outdated(memCall[x]) /\ Backed(memCall[x], memDb)
      BY <2>2 DEF CommitWrite, MemIInv
    <3>2. memCall'[x].pc = memCall[x].pc
      BY <3>1, OutdatedKeeps
    <3>3. CASE memCall[x].pc \in {"get", "viewed", "acked"}
      <4>1. memCall'[x] = memCall[x]
        BY <3>1, <3>3, OutdatedKeeps
      <4> QED
        BY <3>1, <4>1 DEF Backed
    <3>4. CASE memCall[x].pc \notin {"get", "viewed", "acked"}
      BY <3>2, <3>4 DEF Backed
    <3> QED
      BY <3>3, <3>4
  <2> QED
    BY <2>1, <2>2
<1> QED
  BY <1>1, <1>2, <1>3, <1>4, <1>5 DEF MemIInv

\* The proposal of a request, and a proposal that is decided, are proposals.
LEMMA RowTypes ==
  /\ \A r \in Requests : Row(r, "pending") \in Proposal /\ r.id \in Ids
  /\ \A p \in Proposal : /\ p.id \in Ids /\ p.target \in Ids /\ p.scope \in DOMAIN Scopes
                         /\ p.op \in {"create", "replace", "archive"}
                         /\ p.trev \in Nat /\ (p.op # "archive" => p.content \in Contents)
                         /\ p.status \in {"pending", "approved", "rejected"}
<1>1. \A r \in Requests : Row(r, "pending") \in Proposal /\ r.id \in Ids
  BY DEF Proposal, Ids
<1>2. ASSUME NEW p \in Proposal
      PROVE  /\ p.id \in Ids /\ p.target \in Ids /\ p.scope \in DOMAIN Scopes
             /\ p.op \in {"create", "replace", "archive"}
             /\ p.trev \in Nat /\ (p.op # "archive" => p.content \in Contents)
             /\ p.status \in {"pending", "approved", "rejected"}
  <2>1. PICK r \in Requests, s \in {"pending", "approved", "rejected"} : p = Row(r, s)
    BY DEF Proposal
  <2>2. r.id \in Ids /\ r.target \in Ids
    BY DEF Ids
  <2> QED
    BY <2>1, <2>2, MemAssumption DEF Row, Contents
<1> QED
  BY <1>1, <1>2

\* A decision changes the status of a proposal and nothing else.
LEMMA DecidedRow ==
  ASSUME NEW p \in Proposal, NEW s \in {"approved", "rejected"}, NEW q, q = [p EXCEPT !.status = s]
  PROVE  /\ q \in Proposal
         /\ q.id = p.id /\ q.op = p.op /\ q.target = p.target /\ q.trev = p.trev /\ q.status = s
<1>1. PICK r \in Requests, t \in {"pending", "approved", "rejected"} : p = Row(r, t)
  BY DEF Proposal
<1>2. q = Row(r, s)
  BY <1>1 DEF Row
<1>3. Row(r, s) \in Proposal
  BY DEF Proposal
<1> QED
  BY <1>1, <1>2, <1>3 DEF Row

\* insert_proposal adds a pending proposal with a new id.
LEMMA ProposeConsistent ==
  ASSUME NEW db, Consistent(db), NEW r \in Requests, ~\E p \in db.props : p.id = r.id
  PROVE  Consistent([db EXCEPT !.props = @ \cup {Row(r, "pending")}])
<1> DEFINE new == [db EXCEPT !.props = @ \cup {Row(r, "pending")}]
           row == Row(r, "pending")
<1>1. DbTypes(db)
  BY DEF Consistent
<1>2. /\ new.props = db.props \cup {row} /\ new.vers = db.vers /\ new.heads = db.heads
      /\ new.reviews = db.reviews /\ new.events = db.events /\ new.fts = db.fts
  BY <1>1 DEF DbTypes
<1>3. row.id = r.id /\ row.status = "pending" /\ row \in Proposal
  BY RowTypes DEF Row
<1>4. DbTypes(new)
  BY <1>1, <1>3 DEF DbTypes
<1> HIDE DEF new, row
<1>5. UniqueRows(new) /\ ActiveDedupe(new.heads)
  BY <1>2, <1>3 DEF Consistent, UniqueRows
<1>6. VersionsMade(new) /\ HeadsCurrent(new)
  BY <1>2, <1>3 DEF Consistent, VersionsMade, HeadsCurrent
<1>7. DecisionsReviewed(new)
  BY <1>2, <1>3 DEF Consistent, DecisionsReviewed
<1>8. ChangesApplied(new)
  BY <1>2, <1>3 DEF Consistent, ChangesApplied
<1> QED
  BY <1>4, <1>5, <1>6, <1>7, <1>8 DEF Consistent, new

\* What an approval makes of the record rows of a consistent database, for one
\* pending proposal: the versions, the heads and the projection.
ApplyResult(db, new, p) ==
  /\ DbTypes(new) /\ new.props = db.props /\ new.reviews = db.reviews /\ new.events = db.events
  /\ db.vers \subseteq new.vers
  /\ \A v, w \in new.vers : v.id = w.id /\ v.rev = w.rev => v = w
  /\ \A g, h \in new.heads : g.id = h.id => g = h
  /\ \A v \in new.vers : v \notin db.vers => v.by = p.id /\ p.op # "archive"
  /\ \A v, w \in new.vers : v \notin db.vers /\ w \notin db.vers => v = w
  /\ p.op # "archive" => \E v \in new.vers : v.by = p.id
  /\ \A v \in new.vers : v.rev = 1 => v.by = v.id
  /\ HeadsCurrent(new)
  /\ \A h \in db.heads : h.status = "archived" => h \in new.heads
  /\ p.op = "replace" => \E v \in new.vers : v.by = p.id /\ v.id = p.target /\ v.rev = p.trev + 1
  /\ p.op = "archive" => \E h \in new.heads : h.id = p.target /\ h.status = "archived" /\ h.rev = p.trev
  /\ new.fts = Projection(new.heads, new.vers)

\* A transaction that writes rows of the declared types.
LEMMA RowsTyped ==
  ASSUME NEW db, DbTypes(db), NEW new, NEW vers, NEW heads, NEW fts,
         new = [db EXCEPT !.vers = vers, !.heads = heads, !.fts = fts],
         \A v \in vers : v \in db.vers \/ v \in [id: Ids, rev: Nat \ {0}, scope: DOMAIN Scopes,
                                                content: Contents, by: Ids],
         \A h \in heads : h \in db.heads \/ h \in [id: Ids, scope: DOMAIN Scopes,
                                                  key: {DedupeKey[c] : c \in Contents},
                                                  rev: Nat \ {0}, status: {"active", "archived"}],
         \A f \in fts : f \in db.fts \/ f \in [id: Ids, content: Contents]
  PROVE  DbTypes(new)
<1>1. /\ vers \subseteq [id: Ids, rev: Nat \ {0}, scope: DOMAIN Scopes, content: Contents, by: Ids]
      /\ heads \subseteq [id: Ids, scope: DOMAIN Scopes, key: {DedupeKey[c] : c \in Contents},
                         rev: Nat \ {0}, status: {"active", "archived"}]
      /\ fts \subseteq [id: Ids, content: Contents]
  BY DEF DbTypes
<1> QED
  BY <1>1 DEF DbTypes

\* apply_create: no version has the proposal's id, so the record is new.
LEMMA CreateResult ==
  ASSUME Consistent(memDb), ProjectionFresh, NEW p \in memDb.props, p.status = "pending",
         p.op = "create", NEW new \in ApplyCreate(p)
  PROVE  ApplyResult(memDb, new, p)
<1> DEFINE version == Version(p.id, 1, p)
           head == HeadOf(p.id, 1, p)
           text == [id |-> p.id, content |-> p.content]
<1>1. DbTypes(memDb) /\ UniqueRows(memDb) /\ VersionsMade(memDb) /\ HeadsCurrent(memDb)
  BY DEF Consistent
<1>2. /\ p \in Proposal /\ p.id \in Ids /\ p.scope \in DOMAIN Scopes /\ p.content \in Contents
  BY <1>1, RowTypes DEF DbTypes
<1>3. new = [memDb EXCEPT !.vers = @ \cup {version}, !.heads = @ \cup {head}, !.fts = @ \cup {text}]
  BY DEF ApplyCreate
<1>4. /\ new.props = memDb.props /\ new.reviews = memDb.reviews /\ new.events = memDb.events
      /\ new.vers = memDb.vers \cup {version} /\ new.heads = memDb.heads \cup {head}
      /\ new.fts = memDb.fts \cup {text}
  BY <1>1, <1>3 DEF DbTypes
<1>5. /\ version.id = p.id /\ version.rev = 1 /\ version.by = p.id /\ version.content = p.content
      /\ head.id = p.id /\ head.rev = 1 /\ head.status = "active" /\ head.key = DedupeKey[p.content]
  BY DEF Version, HeadOf
<1>6. DbTypes(new)
  <2>1. version \in [id: Ids, rev: Nat \ {0}, scope: DOMAIN Scopes, content: Contents, by: Ids]
    BY <1>2 DEF Version
  <2>2. head \in [id: Ids, scope: DOMAIN Scopes, key: {DedupeKey[c] : c \in Contents},
                  rev: Nat \ {0}, status: {"active", "archived"}]
    BY <1>2 DEF HeadOf
  <2>3. text \in [id: Ids, content: Contents]
    BY <1>2
  <2> HIDE DEF version, head, text
  <2> DEFINE vers == memDb.vers \cup {version}
             heads == memDb.heads \cup {head}
             fts == memDb.fts \cup {text}
  <2>4. new = [memDb EXCEPT !.vers = vers, !.heads = heads, !.fts = fts]
    BY <1>3
  <2>5. \A v \in vers : v \in memDb.vers \/ v \in [id: Ids, rev: Nat \ {0}, scope: DOMAIN Scopes,
                                                  content: Contents, by: Ids]
    BY <2>1
  <2>6. \A h \in heads : h \in memDb.heads \/ h \in [id: Ids, scope: DOMAIN Scopes,
                                                    key: {DedupeKey[c] : c \in Contents},
                                                    rev: Nat \ {0}, status: {"active", "archived"}]
    BY <2>2
  <2>7. \A f \in fts : f \in memDb.fts \/ f \in [id: Ids, content: Contents]
    BY <2>3
  <2> HIDE DEF vers, heads, fts
  <2> QED
    BY <2>4, <2>5, <2>6, <2>7, <1>1, RowsTyped
<1>7. \A h \in memDb.heads : h.rev \in Nat \ {0} /\ h.status \in {"active", "archived"}
  BY <1>1 DEF DbTypes
<1>8. \A v \in memDb.vers : v.rev \in Nat \ {0}
  BY <1>1 DEF DbTypes
<1> HIDE DEF version, head
<1>9. \A v \in memDb.vers : v.by # p.id
  <2> SUFFICES ASSUME NEW v \in memDb.vers, v.by = p.id
               PROVE  FALSE
    OBVIOUS
  <2>1. PICK q \in memDb.props : q.id = v.by /\ q.status = "approved"
    BY <1>1 DEF VersionsMade
  <2> QED
    BY <2>1, <1>1 DEF UniqueRows
<1>10. \A h \in memDb.heads : h.id # p.id
  <2> SUFFICES ASSUME NEW h \in memDb.heads, h.id = p.id
               PROVE  FALSE
    OBVIOUS
  <2>1. PICK v \in memDb.vers : v.id = h.id /\ v.rev = 1
    BY <1>1, <1>7 DEF HeadsCurrent
  <2> QED
    BY <2>1, <1>1, <1>9 DEF VersionsMade
<1>11. \A v \in memDb.vers : v.id # p.id
  BY <1>1, <1>10 DEF HeadsCurrent
<1>12. HeadsCurrent(new)
  <2>1. \A v \in new.vers : \E h \in new.heads : h.id = v.id /\ v.rev <= h.rev
    BY <1>1, <1>4, <1>5 DEF HeadsCurrent
  <2>2. \A h \in new.heads : \A r \in 1..h.rev : \E v \in new.vers : v.id = h.id /\ v.rev = r
    BY <1>1, <1>4, <1>5 DEF HeadsCurrent
  <2>3. \A h \in new.heads, v \in new.vers : v.id = h.id /\ v.rev = h.rev => h.key = DedupeKey[v.content]
    BY <1>1, <1>4, <1>5, <1>10, <1>11 DEF HeadsCurrent
  <2> QED
    BY <2>1, <2>2, <2>3 DEF HeadsCurrent
<1>13. new.fts = Projection(new.heads, new.vers)
  <2>1. ASSUME NEW f \in new.fts
        PROVE  f \in Projection(new.heads, new.vers)
    <3>1. CASE f = text
      BY <3>1, <1>4, <1>5 DEF Projection
    <3>2. CASE f \in memDb.fts
      BY <3>2, <1>4 DEF Projection, ProjectionFresh
    <3> QED
      BY <3>1, <3>2, <1>4
  <2>2. ASSUME NEW f \in Projection(new.heads, new.vers)
        PROVE  f \in new.fts
    <3>1. PICK v \in new.vers, h \in new.heads :
             f = [id |-> v.id, content |-> v.content] /\ h.id = v.id /\ h.rev = v.rev /\ h.status = "active"
      BY DEF Projection
    <3>2. CASE v = version
      BY <3>1, <3>2, <1>4, <1>5
    <3>3. CASE v \in memDb.vers
      <4>1. h \in memDb.heads
        BY <3>1, <3>3, <1>4, <1>5, <1>11
      <4>2. f \in Projection(memDb.heads, memDb.vers)
        BY <3>1, <3>3, <4>1 DEF Projection
      <4> QED
        BY <4>2, <1>4 DEF ProjectionFresh
    <3> QED
      BY <3>2, <3>3, <1>4
  <2> QED
    BY <2>1, <2>2
<1>14. /\ \A v, w \in new.vers : v.id = w.id /\ v.rev = w.rev => v = w
       /\ \A g, h \in new.heads : g.id = h.id => g = h
  BY <1>1, <1>4, <1>5, <1>10, <1>11 DEF UniqueRows
<1>15. \A v \in new.vers : v.rev = 1 => v.by = v.id
  BY <1>1, <1>4, <1>5 DEF VersionsMade
<1> QED
  BY <1>4, <1>5, <1>6, <1>12, <1>13, <1>14, <1>15 DEF ApplyResult

\* apply_replace: the next revision of the active head is new.
LEMMA ReplaceResult ==
  ASSUME Consistent(memDb), ProjectionFresh, NEW p \in memDb.props, p.status = "pending",
         p.op = "replace", NEW new \in ApplyReplace(p)
  PROVE  ApplyResult(memDb, new, p)
<1>0. PICK h0 \in memDb.heads :
         /\ h0.id = p.target /\ h0.scope = p.scope /\ h0.status = "active" /\ h0.rev = p.trev
         /\ new = [memDb EXCEPT !.vers = @ \cup {Version(h0.id, h0.rev + 1, p)},
                                !.heads = (@ \ {h0}) \cup {HeadOf(h0.id, h0.rev + 1, p)},
                                !.fts = DeleteFts(@, h0.id) \cup {[id |-> h0.id, content |-> p.content]}]
  BY DEF ApplyReplace
<1> DEFINE version == Version(h0.id, h0.rev + 1, p)
           head == HeadOf(h0.id, h0.rev + 1, p)
           text == [id |-> h0.id, content |-> p.content]
<1>1. DbTypes(memDb) /\ UniqueRows(memDb) /\ VersionsMade(memDb) /\ HeadsCurrent(memDb)
  BY DEF Consistent
<1>2. /\ p \in Proposal /\ p.id \in Ids /\ p.scope \in DOMAIN Scopes /\ p.content \in Contents
  BY <1>1, RowTypes DEF DbTypes
<1>3. h0.id \in Ids /\ h0.rev \in Nat \ {0}
  BY <1>1 DEF DbTypes
<1>4. /\ new.props = memDb.props /\ new.reviews = memDb.reviews /\ new.events = memDb.events
      /\ new.vers = memDb.vers \cup {version} /\ new.heads = (memDb.heads \ {h0}) \cup {head}
      /\ new.fts = DeleteFts(memDb.fts, h0.id) \cup {text}
  BY <1>0, <1>1 DEF DbTypes
<1>5. /\ version.id = h0.id /\ version.rev = h0.rev + 1 /\ version.by = p.id /\ version.content = p.content
      /\ head.id = h0.id /\ head.rev = h0.rev + 1 /\ head.status = "active" /\ head.key = DedupeKey[p.content]
  BY DEF Version, HeadOf
<1>6. DbTypes(new)
  <2>1. version \in [id: Ids, rev: Nat \ {0}, scope: DOMAIN Scopes, content: Contents, by: Ids]
    BY <1>2, <1>3 DEF Version
  <2>2. head \in [id: Ids, scope: DOMAIN Scopes, key: {DedupeKey[c] : c \in Contents},
                  rev: Nat \ {0}, status: {"active", "archived"}]
    BY <1>2, <1>3 DEF HeadOf
  <2>3. text \in [id: Ids, content: Contents] /\ DeleteFts(memDb.fts, h0.id) \subseteq memDb.fts
    BY <1>2, <1>3 DEF DeleteFts
  <2> HIDE DEF version, head, text
  <2> DEFINE vers == memDb.vers \cup {version}
             heads == (memDb.heads \ {h0}) \cup {head}
             fts == DeleteFts(memDb.fts, h0.id) \cup {text}
  <2>4. new = [memDb EXCEPT !.vers = vers, !.heads = heads, !.fts = fts]
    BY <1>0 DEF version, head, text
  <2>5. \A v \in vers : v \in memDb.vers \/ v \in [id: Ids, rev: Nat \ {0}, scope: DOMAIN Scopes,
                                                  content: Contents, by: Ids]
    BY <2>1
  <2>6. \A h \in heads : h \in memDb.heads \/ h \in [id: Ids, scope: DOMAIN Scopes,
                                                    key: {DedupeKey[c] : c \in Contents},
                                                    rev: Nat \ {0}, status: {"active", "archived"}]
    BY <2>2
  <2>7. \A f \in fts : f \in memDb.fts \/ f \in [id: Ids, content: Contents]
    BY <2>3
  <2> HIDE DEF vers, heads, fts
  <2> QED
    BY <2>4, <2>5, <2>6, <2>7, <1>1, RowsTyped
<1>7. \A h \in memDb.heads : h.rev \in Nat \ {0} /\ h.status \in {"active", "archived"}
  BY <1>1 DEF DbTypes
<1>8. \A v \in memDb.vers : v.rev \in Nat \ {0}
  BY <1>1 DEF DbTypes
<1> HIDE DEF version, head
<1>9. \A v \in memDb.vers : v.by # p.id
  <2> SUFFICES ASSUME NEW v \in memDb.vers, v.by = p.id
               PROVE  FALSE
    OBVIOUS
  <2>1. PICK q \in memDb.props : q.id = v.by /\ q.status = "approved"
    BY <1>1 DEF VersionsMade
  <2> QED
    BY <2>1, <1>1 DEF UniqueRows
<1>10. \A h \in memDb.heads : h.id = h0.id => h = h0
  BY <1>1 DEF UniqueRows
<1>11. \A v \in memDb.vers : v.id = h0.id => v.rev <= h0.rev
  BY <1>1, <1>10 DEF HeadsCurrent
<1>12. HeadsCurrent(new)
  <2>1. \A v \in new.vers : \E h \in new.heads : h.id = v.id /\ v.rev <= h.rev
    <3> SUFFICES ASSUME NEW v \in new.vers
                 PROVE  \E h \in new.heads : h.id = v.id /\ v.rev <= h.rev
      OBVIOUS
    <3>1. CASE v.id = h0.id
      BY <3>1, <1>3, <1>4, <1>5, <1>8, <1>11
    <3>2. CASE v.id # h0.id
      BY <3>2, <1>1, <1>4, <1>5 DEF HeadsCurrent
    <3> QED
      BY <3>1, <3>2
  <2>2. ASSUME NEW h \in new.heads, NEW r \in 1..h.rev
        PROVE  \E v \in new.vers : v.id = h.id /\ v.rev = r
    <3>1. CASE h = head /\ r = h0.rev + 1
      BY <3>1, <1>4, <1>5
    <3>2. CASE h = head /\ r # h0.rev + 1
      <4>1. r \in 1..h0.rev
        BY <3>2, <1>3, <1>5
      <4> QED
        BY <4>1, <3>2, <1>1, <1>4, <1>5 DEF HeadsCurrent
    <3>3. CASE h # head
      BY <3>3, <1>1, <1>4 DEF HeadsCurrent
    <3> QED
      BY <3>1, <3>2, <3>3
  <2>3. ASSUME NEW h \in new.heads, NEW v \in new.vers, v.id = h.id, v.rev = h.rev
        PROVE  h.key = DedupeKey[v.content]
    <3>1. CASE h = head
      BY <3>1, <2>3, <1>3, <1>4, <1>5, <1>8, <1>11
    <3>2. CASE h # head
      <4>1. h \in memDb.heads /\ h.id # h0.id
        BY <3>2, <1>4, <1>10
      <4> QED
        BY <4>1, <2>3, <1>1, <1>4, <1>5 DEF HeadsCurrent
    <3> QED
      BY <3>1, <3>2
  <2> QED
    BY <2>1, <2>2, <2>3 DEF HeadsCurrent
<1>13. new.fts = Projection(new.heads, new.vers)
  <2>1. ASSUME NEW f \in new.fts
        PROVE  f \in Projection(new.heads, new.vers)
    <3>1. CASE f = text
      BY <3>1, <1>4, <1>5 DEF Projection
    <3>2. CASE f \in memDb.fts /\ f.id # h0.id
      <4>1. PICK v \in memDb.vers, h \in memDb.heads :
               f = [id |-> v.id, content |-> v.content] /\ h.id = v.id /\ h.rev = v.rev /\ h.status = "active"
        BY <3>2 DEF Projection, ProjectionFresh
      <4>2. h # h0
        BY <3>2, <4>1
      <4> QED
        BY <4>1, <4>2, <1>4 DEF Projection
    <3> QED
      BY <3>1, <3>2, <1>4 DEF DeleteFts
  <2>2. ASSUME NEW f \in Projection(new.heads, new.vers)
        PROVE  f \in new.fts
    <3>1. PICK v \in new.vers, h \in new.heads :
             f = [id |-> v.id, content |-> v.content] /\ h.id = v.id /\ h.rev = v.rev /\ h.status = "active"
      BY DEF Projection
    <3>2. CASE v = version
      BY <3>1, <3>2, <1>4, <1>5
    <3>3. CASE v \in memDb.vers
      <4>1. h # head
        BY <3>1, <3>3, <1>3, <1>5, <1>8, <1>11
      <4>2. h \in memDb.heads /\ h # h0
        BY <4>1, <1>4
      <4>3. h.id # h0.id
        BY <4>2, <1>10
      <4>4. f \in Projection(memDb.heads, memDb.vers) /\ f.id # h0.id
        BY <3>1, <3>3, <4>2, <4>3 DEF Projection
      <4> QED
        BY <4>4, <1>4 DEF ProjectionFresh, DeleteFts
    <3> QED
      BY <3>2, <3>3, <1>4
  <2> QED
    BY <2>1, <2>2
<1>14. \A v, w \in new.vers : v.id = w.id /\ v.rev = w.rev => v = w
  BY <1>1, <1>3, <1>4, <1>5, <1>8, <1>11 DEF UniqueRows
<1>15. \A g, h \in new.heads : g.id = h.id => g = h
  BY <1>1, <1>4, <1>5, <1>10 DEF UniqueRows
<1>16. \A v \in new.vers : v.rev = 1 => v.by = v.id
  BY <1>1, <1>3, <1>4, <1>5 DEF VersionsMade
<1>17. \E v \in new.vers : v.by = p.id /\ v.id = p.target /\ v.rev = p.trev + 1
  BY <1>0, <1>4, <1>5
<1>18. \A h \in memDb.heads : h.status = "archived" => h \in new.heads
  BY <1>0, <1>4
<1> QED
  BY <1>4, <1>5, <1>6, <1>12, <1>13, <1>14, <1>15, <1>16, <1>17, <1>18 DEF ApplyResult

\* apply_archive: the head stays at its revision and leaves the projection.
LEMMA ArchiveResult ==
  ASSUME Consistent(memDb), ProjectionFresh, NEW p \in memDb.props, p.status = "pending",
         p.op = "archive", NEW new \in ApplyArchive(p)
  PROVE  ApplyResult(memDb, new, p)
<1>0. PICK h0 \in memDb.heads :
         /\ h0.id = p.target /\ h0.scope = p.scope /\ h0.status = "active" /\ h0.rev = p.trev
         /\ new = [memDb EXCEPT !.heads = (@ \ {h0}) \cup {[h0 EXCEPT !.status = "archived"]},
                                !.fts = DeleteFts(@, h0.id)]
  BY DEF ApplyArchive
<1> DEFINE head == [h0 EXCEPT !.status = "archived"]
<1>1. DbTypes(memDb) /\ UniqueRows(memDb) /\ VersionsMade(memDb) /\ HeadsCurrent(memDb)
  BY DEF Consistent
<1>2. h0 \in [id: Ids, scope: DOMAIN Scopes, key: {DedupeKey[c] : c \in Contents},
              rev: Nat \ {0}, status: {"active", "archived"}]
  BY <1>1 DEF DbTypes
<1>3. /\ head \in [id: Ids, scope: DOMAIN Scopes, key: {DedupeKey[c] : c \in Contents},
                   rev: Nat \ {0}, status: {"active", "archived"}]
      /\ head.id = h0.id /\ head.rev = h0.rev /\ head.key = h0.key /\ head.status = "archived"
  BY <1>2
<1> HIDE DEF head
<1>4. /\ new.props = memDb.props /\ new.reviews = memDb.reviews /\ new.events = memDb.events
      /\ new.vers = memDb.vers /\ new.heads = (memDb.heads \ {h0}) \cup {head}
      /\ new.fts = DeleteFts(memDb.fts, h0.id)
  BY <1>0, <1>1 DEF DbTypes, head
<1>5. DbTypes(new)
  <2>1. DeleteFts(memDb.fts, h0.id) \subseteq memDb.fts
    BY DEF DeleteFts
  <2>2. new = [memDb EXCEPT !.heads = (@ \ {h0}) \cup {head}, !.fts = DeleteFts(@, h0.id)]
    BY <1>0 DEF head
  <2> QED
    BY <2>1, <2>2, <1>1, <1>3 DEF DbTypes
<1>6. \A h \in memDb.heads : h.id = h0.id => h = h0
  BY <1>1 DEF UniqueRows
<1>7. HeadsCurrent(new)
  <2>1. \A v \in new.vers : \E h \in new.heads : h.id = v.id /\ v.rev <= h.rev
    BY <1>1, <1>3, <1>4 DEF HeadsCurrent
  <2>2. \A h \in new.heads : \A r \in 1..h.rev : \E v \in new.vers : v.id = h.id /\ v.rev = r
    BY <1>1, <1>3, <1>4 DEF HeadsCurrent
  <2>3. \A h \in new.heads, v \in new.vers : v.id = h.id /\ v.rev = h.rev => h.key = DedupeKey[v.content]
    BY <1>1, <1>3, <1>4 DEF HeadsCurrent
  <2> QED
    BY <2>1, <2>2, <2>3 DEF HeadsCurrent
<1>8. new.fts = Projection(new.heads, new.vers)
  <2>1. ASSUME NEW f \in new.fts
        PROVE  f \in Projection(new.heads, new.vers)
    <3>1. f \in memDb.fts /\ f.id # h0.id
      BY <1>4 DEF DeleteFts
    <3>2. PICK v \in memDb.vers, h \in memDb.heads :
             f = [id |-> v.id, content |-> v.content] /\ h.id = v.id /\ h.rev = v.rev /\ h.status = "active"
      BY <3>1 DEF Projection, ProjectionFresh
    <3>3. h # h0
      BY <3>1, <3>2
    <3> QED
      BY <3>2, <3>3, <1>4 DEF Projection
  <2>2. ASSUME NEW f \in Projection(new.heads, new.vers)
        PROVE  f \in new.fts
    <3>1. PICK v \in new.vers, h \in new.heads :
             f = [id |-> v.id, content |-> v.content] /\ h.id = v.id /\ h.rev = v.rev /\ h.status = "active"
      BY DEF Projection
    <3>2. h \in memDb.heads /\ h # h0
      BY <3>1, <1>3, <1>4
    <3>3. h.id # h0.id
      BY <3>2, <1>6
    <3>4. f \in Projection(memDb.heads, memDb.vers) /\ f.id # h0.id
      BY <3>1, <3>2, <3>3, <1>4 DEF Projection
    <3> QED
      BY <3>4, <1>4 DEF ProjectionFresh, DeleteFts
  <2> QED
    BY <2>1, <2>2
<1>9. \A g, h \in new.heads : g.id = h.id => g = h
  BY <1>1, <1>3, <1>4, <1>6 DEF UniqueRows
<1>10. \A v, w \in new.vers : v.id = w.id /\ v.rev = w.rev => v = w
  BY <1>1, <1>4 DEF UniqueRows
<1>11. \A v \in new.vers : v.rev = 1 => v.by = v.id
  BY <1>1, <1>4 DEF VersionsMade
<1>12. \E h \in new.heads : h.id = p.target /\ h.status = "archived" /\ h.rev = p.trev
  BY <1>0, <1>3, <1>4
<1>13. \A h \in memDb.heads : h.status = "archived" => h \in new.heads
  BY <1>0, <1>4
<1> QED
  BY <1>4, <1>5, <1>7, <1>8, <1>9, <1>10, <1>11, <1>12, <1>13 DEF ApplyResult

\* Whatever the operation, a database an approval may commit is such a result.
LEMMA AppliedResult ==
  ASSUME Consistent(memDb), ProjectionFresh, NEW p \in memDb.props, p.status = "pending",
         NEW new \in Applied(p)
  PROVE  ApplyResult(memDb, new, p) /\ AppliedRevision(p) \in Nat
<1>1. p \in Proposal /\ p.op \in {"create", "replace", "archive"} /\ p.trev \in Nat
  BY RowTypes DEF Consistent, DbTypes
<1> QED
  BY <1>1, CreateResult, ReplaceResult, ArchiveResult DEF Applied, AppliedRevision

\* The review row and the decided proposal, over record rows that changed as an
\* approval changes them or not at all.
LEMMA DecideConsistent ==
  ASSUME NEW db, Consistent(db), NEW p \in db.props, p.status = "pending",
         NEW r \in Reviews, r.id = p.id, NEW applied \in Nat, NEW status, NEW new,
         ActiveDedupe(new.heads),
         \/ status = "approved" /\ ApplyResult(db, new, p)
         \/ status = "rejected" /\ new = db
  PROVE  /\ Consistent(DecideReview(new, p, r, status, applied))
         /\ DecideReview(new, p, r, status, applied).vers = new.vers
         /\ DecideReview(new, p, r, status, applied).heads = new.heads
         /\ DecideReview(new, p, r, status, applied).fts = new.fts
         /\ DecideReview(new, p, r, status, applied).events = db.events
         /\ db.reviews \subseteq DecideReview(new, p, r, status, applied).reviews
<1> DEFINE made == DecideReview(new, p, r, status, applied)
           row == [id |-> p.id, key |-> r.key, decision |-> r.decision, applied |-> applied]
           q == [p EXCEPT !.status = status]
<1>1. DbTypes(new) /\ new.props = db.props /\ new.reviews = db.reviews /\ new.events = db.events
  BY DEF ApplyResult, Consistent
<1>2. /\ made.props = (db.props \ {p}) \cup {q} /\ made.reviews = db.reviews \cup {row}
      /\ made.vers = new.vers /\ made.heads = new.heads /\ made.fts = new.fts /\ made.events = db.events
  BY <1>1 DEF DbTypes, DecideReview
<1>3. p \in Proposal /\ p.id \in Ids
  BY RowTypes DEF Consistent, DbTypes
<1>4. /\ q \in Proposal /\ q.id = p.id /\ q.op = p.op /\ q.target = p.target /\ q.trev = p.trev
      /\ q.status = status /\ status \in {"approved", "rejected"}
  <2>1. status \in {"approved", "rejected"}
    OBVIOUS
  <2>2. p \in Proposal
    BY <1>3
  <2>3. q = [p EXCEPT !.status = status]
    OBVIOUS
  <2> HIDE DEF q
  <2> QED
    BY <2>1, <2>2, <2>3, DecidedRow
<1>5. row.id = p.id /\ row \in [id: Ids, key: {x.key : x \in Reviews},
                                decision: {"approve", "reject"}, applied: Nat]
  BY <1>3, MemAssumption
<1>6. DbTypes(made)
  <2> HIDE DEF row, q
  <2>1. made = [new EXCEPT !.reviews = @ \cup {row}, !.props = (@ \ {p}) \cup {q}]
    BY DEF DecideReview, row, q
  <2> HIDE DEF made
  <2> QED
    BY <2>1, <1>1, <1>4, <1>5 DEF DbTypes
<1> HIDE DEF made, row, q
<1>7. UniqueRows(db) /\ VersionsMade(db) /\ HeadsCurrent(db) /\ DecisionsReviewed(db) /\ ChangesApplied(db)
  BY DEF Consistent
<1>8. \A x \in db.props : x.id = p.id => x = p
  BY <1>7 DEF UniqueRows
<1>9. \A v \in db.vers : v.by # p.id
  BY <1>7, <1>8 DEF VersionsMade
<1>10. UniqueRows(made)
  <2>1. \A x, y \in made.props : x.id = y.id => x = y
    BY <1>2, <1>4, <1>7, <1>8 DEF UniqueRows
  <2>2. \A v, w \in made.vers : v.id = w.id /\ v.rev = w.rev => v = w
    BY <1>2, <1>7 DEF UniqueRows, ApplyResult
  <2>3. \A g, h \in made.heads : g.id = h.id => g = h
    BY <1>2, <1>7 DEF UniqueRows, ApplyResult
  <2>4. \A e, f \in made.events : e.key = f.key => e = f
    BY <1>2, <1>7 DEF UniqueRows
  <2> QED
    BY <2>1, <2>2, <2>3, <2>4 DEF UniqueRows
<1>11. VersionsMade(made)
  <2>1. CASE status = "approved" /\ ApplyResult(db, new, p)
    <3>1. \A x \in made.props : x.status = "approved" /\ x.op # "archive" => \E v \in made.vers : v.by = x.id
      BY <2>1, <1>2, <1>4, <1>7 DEF VersionsMade, ApplyResult
    <3>2. \A v, w \in made.vers : v.by = w.by => v = w
      BY <2>1, <1>2, <1>7, <1>9 DEF VersionsMade, ApplyResult
    <3>3. \A v \in made.vers : \E x \in made.props : x.id = v.by /\ x.status = "approved" /\ x.op # "archive"
      <4> SUFFICES ASSUME NEW v \in made.vers
                   PROVE  \E x \in made.props : x.id = v.by /\ x.status = "approved" /\ x.op # "archive"
        OBVIOUS
      <4>1. CASE v \in db.vers
        <5>1. PICK x \in db.props : x.id = v.by /\ x.status = "approved" /\ x.op # "archive"
          BY <4>1, <1>7 DEF VersionsMade
        <5>2. x # p
          BY <5>1
        <5> QED
          BY <5>1, <5>2, <1>2
      <4>2. CASE v \notin db.vers
        BY <4>2, <2>1, <1>2, <1>4 DEF ApplyResult
      <4> QED
        BY <4>1, <4>2
    <3>4. \A v \in made.vers : v.rev = 1 => v.by = v.id
      BY <2>1, <1>2 DEF ApplyResult
    <3> QED
      BY <3>1, <3>2, <3>3, <3>4 DEF VersionsMade
  <2>2. CASE status = "rejected" /\ new = db
    <3>1. \A v \in made.vers : \E x \in made.props : x.id = v.by /\ x.status = "approved" /\ x.op # "archive"
      <4> SUFFICES ASSUME NEW v \in made.vers
                   PROVE  \E x \in made.props : x.id = v.by /\ x.status = "approved" /\ x.op # "archive"
        OBVIOUS
      <4>1. PICK x \in db.props : x.id = v.by /\ x.status = "approved" /\ x.op # "archive"
        BY <2>2, <1>2, <1>7 DEF VersionsMade
      <4>2. x # p
        BY <4>1
      <4> QED
        BY <4>1, <4>2, <1>2
    <3> QED
      BY <3>1, <2>2, <1>2, <1>4, <1>7 DEF VersionsMade
  <2> QED
    BY <2>1, <2>2
<1>12. HeadsCurrent(made)
  BY <1>2, <1>7 DEF HeadsCurrent, ApplyResult
<1>13. DecisionsReviewed(made)
  <2>1. \A x \in made.props : x.status # "pending" <=> \E v \in made.reviews : v.id = x.id
    <3> SUFFICES ASSUME NEW x \in made.props
                 PROVE  x.status # "pending" <=> \E v \in made.reviews : v.id = x.id
      OBVIOUS
    <3>1. CASE x = q
      BY <3>1, <1>2, <1>4, <1>5
    <3>2. CASE x # q
      <4>1. x \in db.props /\ x.id # p.id
        BY <3>2, <1>2, <1>8
      <4> QED
        BY <4>1, <1>2, <1>5, <1>7 DEF DecisionsReviewed
    <3> QED
      BY <3>1, <3>2
  <2>2. \A v \in made.reviews : \E x \in made.props : x.id = v.id
    BY <1>2, <1>4, <1>5, <1>7 DEF DecisionsReviewed
  <2> QED
    BY <2>1, <2>2 DEF DecisionsReviewed
<1>14. ChangesApplied(made)
  <2> SUFFICES ASSUME NEW x \in made.props, x.status = "approved"
               PROVE  /\ x.op = "replace" => \E v \in made.vers : v.by = x.id /\ v.id = x.target /\ v.rev = x.trev + 1
                      /\ x.op = "archive" => \E h \in made.heads : h.id = x.target /\ h.status = "archived" /\ h.rev = x.trev
    BY DEF ChangesApplied
  <2>1. CASE x = q
    BY <2>1, <1>2, <1>4 DEF ApplyResult
  <2>2. CASE x # q
    <3>1. x \in db.props
      BY <2>2, <1>2
    <3> QED
      BY <3>1, <1>2, <1>7 DEF ChangesApplied, ApplyResult
  <2> QED
    BY <2>1, <2>2
<1>15. ActiveDedupe(made.heads)
  BY <1>2
<1> QED
  BY <1>2, <1>6, <1>10, <1>11, <1>12, <1>13, <1>14, <1>15 DEF Consistent, made

\* import: two consistent databases with no key in common, of which the result
\* keeps one active record per dedupe key.
LEMMA ImportConsistent ==
  ASSUME NEW db, Consistent(db), NEW file, Consistent(file), NewKeys(db, file),
         ActiveDedupe(Imported(db, file).heads)
  PROVE  Consistent(Imported(db, file))
<1> DEFINE new == Imported(db, file)
<1>1. /\ new.props = db.props \cup file.props /\ new.vers = db.vers \cup file.vers
      /\ new.heads = db.heads \cup file.heads /\ new.reviews = db.reviews \cup file.reviews
      /\ new.events = db.events \cup file.events /\ new.fts = Projection(new.heads, new.vers)
  BY DEF Imported
<1>2. DbTypes(db) /\ DbTypes(file)
  BY DEF Consistent
<1>3. Projection(new.heads, new.vers) \subseteq [id: Ids, content: Contents]
  BY <1>1, <1>2 DEF Projection, DbTypes
<1>4. DbTypes(new)
  BY <1>1, <1>2, <1>3 DEF DbTypes, Imported
<1>5. ActiveDedupe(new.heads)
  OBVIOUS
<1> HIDE DEF new
<1>6. /\ \A x \in file.vers, y \in db.vers : ~(x.id = y.id /\ x.rev = y.rev)
      /\ \A x \in file.heads, y \in db.heads : x.id # y.id
      /\ \A x \in file.props, y \in db.props : x.id # y.id
      /\ \A x \in file.events, y \in db.events : x.key # y.key
  BY DEF NewKeys
<1>7. UniqueRows(db) /\ VersionsMade(db) /\ HeadsCurrent(db) /\ DecisionsReviewed(db) /\ ChangesApplied(db)
  BY DEF Consistent
<1>8. UniqueRows(file) /\ VersionsMade(file) /\ HeadsCurrent(file) /\ DecisionsReviewed(file) /\ ChangesApplied(file)
  BY DEF Consistent
<1>9. /\ \A v \in file.vers, w \in db.vers : v.by # w.by
      /\ \A v \in file.vers, h \in db.heads : v.id # h.id
      /\ \A v \in db.vers, h \in file.heads : v.id # h.id
  <2>1. \A v \in file.vers, w \in db.vers : v.by # w.by
    BY <1>6, <1>7, <1>8 DEF VersionsMade
  <2>2. \A v \in file.vers, h \in db.heads : v.id # h.id
    BY <1>6, <1>8 DEF HeadsCurrent
  <2>3. \A v \in db.vers, h \in file.heads : v.id # h.id
    BY <1>6, <1>7 DEF HeadsCurrent
  <2> QED
    BY <2>1, <2>2, <2>3
<1>10. UniqueRows(new)
  <2>1. \A p, q \in new.props : p.id = q.id => p = q
    BY <1>1, <1>6, <1>7, <1>8 DEF UniqueRows
  <2>2. \A g, h \in new.heads : g.id = h.id => g = h
    BY <1>1, <1>6, <1>7, <1>8 DEF UniqueRows
  <2>3. \A v, w \in new.vers : v.id = w.id /\ v.rev = w.rev => v = w
    BY <1>1, <1>6, <1>7, <1>8 DEF UniqueRows
  <2>4. \A e, f \in new.events : e.key = f.key => e = f
    BY <1>1, <1>6, <1>7, <1>8 DEF UniqueRows
  <2> QED
    BY <2>1, <2>2, <2>3, <2>4 DEF UniqueRows
<1>11. VersionsMade(new)
  <2>1. \A p \in new.props : p.status = "approved" /\ p.op # "archive" => \E v \in new.vers : v.by = p.id
    BY <1>1, <1>7, <1>8 DEF VersionsMade
  <2>2. \A v, w \in new.vers : v.by = w.by => v = w
    BY <1>1, <1>7, <1>8, <1>9 DEF VersionsMade
  <2>3. \A v \in new.vers : \E p \in new.props : p.id = v.by /\ p.status = "approved" /\ p.op # "archive"
    BY <1>1, <1>7, <1>8 DEF VersionsMade
  <2>4. \A v \in new.vers : v.rev = 1 => v.by = v.id
    BY <1>1, <1>7, <1>8 DEF VersionsMade
  <2> QED
    BY <2>1, <2>2, <2>3, <2>4 DEF VersionsMade
<1>12. HeadsCurrent(new)
  <2>1. \A v \in new.vers : \E h \in new.heads : h.id = v.id /\ v.rev <= h.rev
    BY <1>1, <1>7, <1>8 DEF HeadsCurrent
  <2>2. \A h \in new.heads : \A r \in 1..h.rev : \E v \in new.vers : v.id = h.id /\ v.rev = r
    BY <1>1, <1>7, <1>8 DEF HeadsCurrent
  <2>3. \A h \in new.heads, v \in new.vers : v.id = h.id /\ v.rev = h.rev => h.key = DedupeKey[v.content]
    BY <1>1, <1>7, <1>8, <1>9 DEF HeadsCurrent
  <2> QED
    BY <2>1, <2>2, <2>3 DEF HeadsCurrent
<1>13. DecisionsReviewed(new)
  <2>1. \A v \in new.reviews : \E p \in new.props : p.id = v.id
    BY <1>1, <1>7, <1>8 DEF DecisionsReviewed
  <2>2. ASSUME NEW p \in new.props, p.status # "pending"
        PROVE  \E v \in new.reviews : v.id = p.id
    BY <2>2, <1>1, <1>7, <1>8 DEF DecisionsReviewed
  <2>3. ASSUME NEW p \in new.props, NEW v \in new.reviews, v.id = p.id
        PROVE  p.status # "pending"
    <3>1. CASE p \in db.props /\ v \in db.reviews
      BY <2>3, <3>1, <1>7 DEF DecisionsReviewed
    <3>2. CASE p \in file.props /\ v \in file.reviews
      BY <2>3, <3>2, <1>8 DEF DecisionsReviewed
    <3>3. CASE p \in db.props /\ v \in file.reviews
      BY <2>3, <3>3, <1>6, <1>8 DEF DecisionsReviewed
    <3>4. CASE p \in file.props /\ v \in db.reviews
      BY <2>3, <3>4, <1>6, <1>7 DEF DecisionsReviewed
    <3> QED
      BY <3>1, <3>2, <3>3, <3>4, <1>1
  <2> QED
    BY <2>1, <2>2, <2>3 DEF DecisionsReviewed
<1>14. ChangesApplied(new)
  BY <1>1, <1>7, <1>8 DEF ChangesApplied
<1> QED
  BY <1>4, <1>5, <1>10, <1>11, <1>12, <1>13, <1>14 DEF Consistent, new

\* Initially, and in a server started on a new path.
LEMMA EmptyConsistent ==
  Consistent(EmptyDb) /\ EmptyDb.fts = Projection(EmptyDb.heads, EmptyDb.vers)
<1>1. DbTypes(EmptyDb)
  BY DEF EmptyDb, DbTypes
<1>2. /\ EmptyDb.props = {} /\ EmptyDb.vers = {} /\ EmptyDb.heads = {}
      /\ EmptyDb.reviews = {} /\ EmptyDb.events = {} /\ EmptyDb.fts = {}
  BY DEF EmptyDb
<1> QED
  BY <1>1, <1>2 DEF Consistent, UniqueRows, ActiveDedupe, VersionsMade, HeadsCurrent,
                    DecisionsReviewed, ChangesApplied, Projection

LEMMA MemInitially == MemInit => MemIInv
<1> SUFFICES ASSUME MemInit PROVE MemIInv
  OBVIOUS
<1>1. memCall \in [Callers -> MemCall] /\ \A c \in Callers : Backed(memCall[c], memDb)
  BY IdleCallType DEF MemInit, IdleCaller
<1> QED
  BY <1>1, EmptyConsistent DEF MemInit, MemIInv, ProjectionFresh, IdleCaller

\* The reads of a caller and its answers.
LEMMA ReadStep ==
  ASSUME MemIInv, NEW c \in Callers,
         \/ RollBack(c) \/ GetRow(c) \/ GetReview(c) \/ Done(c) \/ ExportCheck(c) \/ ImportCheck(c)
         \/ \E p \in memDb.props : GetBegin(c, p.id)
         \/ \E r \in Requests : CandidateCreate(c, r) \/ CandidateReplace(c, r) \/ CandidateArchive(c, r)
         \/ \E r \in Reviews : ReviewRead(c, r) \/ ReviewReplay(c, r)
         \/ \E f \in Feedbacks : FeedbackLookup(c, f) \/ FeedbackReplay(c, f)
  PROVE  MemIInv' /\ UNCHANGED memDb
<1>1. DbTypes(memDb) /\ UniqueRows(memDb) /\ DecisionsReviewed(memDb)
  BY DEF MemIInv, Consistent
<1>2. \A p \in memDb.props : p.id \in Ids /\ p.status \in {"pending", "approved", "rejected"}
  BY <1>1, RowTypes DEF DbTypes
<1>3. memDb.events \subseteq Feedbacks
  BY <1>1 DEF DbTypes
<1>4. memCall[c] \in MemCall /\ Backed(memCall[c], memDb)
  BY DEF MemIInv
<1>5. SUFFICES \E call \in MemCall : /\ Backed(call, memDb) /\ (call.pc = "import" => memFile # NoExport)
                                     /\ memCall' = [memCall EXCEPT ![c] = call]
                                     /\ UNCHANGED <<memDb, memFile>>
  BY TurnStep
<1>6. CASE RollBack(c) \/ Done(c)
  BY <1>6, IdleCallType DEF RollBack, Done, Turn, IdleCaller
<1>7. CASE GetRow(c)
  <2>1. PICK p \in memDb.props : /\ p.id = memCall[c].id
                                 /\ Turn(c, [pc |-> "get", id |-> p.id, status |-> p.status])
    BY <1>7 DEF GetRow
  <2> DEFINE call == [pc |-> "get", id |-> p.id, status |-> p.status]
  <2>2. call \in MemCall /\ Backed(call, memDb)
    BY <1>1, <1>2 DEF MemCall, Backed, DecisionsReviewed
  <2> QED
    BY <2>1, <2>2 DEF Turn
<1>8. CASE GetReview(c)
  <2> DEFINE call == [pc |-> "viewed", status |-> memCall[c].status,
                      reviewed |-> \E v \in memDb.reviews : v.id = memCall[c].id]
  <2>1. memCall[c].pc = "get" /\ Turn(c, call)
    BY <1>8 DEF GetReview
  <2>2. memCall[c].status \in {"pending", "approved", "rejected"}
    BY <2>1, <1>4 DEF MemCall
  <2>3. (\E v \in memDb.reviews : v.id = memCall[c].id) \in BOOLEAN
    OBVIOUS
  <2>4. call \in MemCall
    BY <2>2, <2>3 DEF MemCall
  <2>5. Backed(call, memDb)
    BY <2>1, <1>4 DEF Backed
  <2> QED
    BY <2>1, <2>4, <2>5 DEF Turn
<1>9. CASE ExportCheck(c) \/ ImportCheck(c)
  <2>1. PICK name \in {"export", "import"} :
           BeginCall(c, [pc |-> name]) /\ (name = "import" => memFile # NoExport)
    BY <1>9 DEF ExportCheck, ImportCheck
  <2>2. [pc |-> name] \in MemCall /\ Backed([pc |-> name], memDb)
    BY DEF MemCall, Backed
  <2> QED
    BY <2>1, <2>2 DEF BeginCall
<1>10. ASSUME NEW id \in Ids, BeginCall(c, [pc |-> "row", id |-> id])
       PROVE  \E call \in MemCall : /\ Backed(call, memDb) /\ (call.pc = "import" => memFile # NoExport)
                                    /\ memCall' = [memCall EXCEPT ![c] = call]
                                    /\ UNCHANGED <<memDb, memFile>>
  <2>1. [pc |-> "row", id |-> id] \in MemCall /\ Backed([pc |-> "row", id |-> id], memDb)
    BY DEF MemCall, Backed
  <2> QED
    BY <1>10, <2>1 DEF BeginCall
<1>11. CASE \E p \in memDb.props : GetBegin(c, p.id)
  BY <1>2, <1>10, <1>11 DEF GetBegin
<1>12. CASE \E r \in Requests : CandidateCreate(c, r) \/ CandidateReplace(c, r) \/ CandidateArchive(c, r)
  <2>1. PICK r \in Requests : CheckIdempotency(c, r)
    BY <1>12 DEF CandidateCreate, CandidateReplace, CandidateArchive
  <2>2. CASE BeginCall(c, [pc |-> "propose", req |-> r, fresh |-> TRUE])
    <3>1. [pc |-> "propose", req |-> r, fresh |-> TRUE] \in MemCall
      BY DEF MemCall
    <3>2. Backed([pc |-> "propose", req |-> r, fresh |-> TRUE], memDb)
      BY DEF Backed
    <3> QED
      BY <2>2, <3>1, <3>2 DEF BeginCall
  <2>3. CASE \E p \in memDb.props : BeginCall(c, [pc |-> "row", id |-> p.id])
    BY <2>3, <1>2, <1>10
  <2> QED
    BY <2>1, <2>2, <2>3 DEF CheckIdempotency
<1>13. CASE \E r \in Reviews : ReviewRead(c, r) \/ ReviewReplay(c, r)
  <2>1. PICK r \in Reviews : ReviewRead(c, r) \/ ReviewReplay(c, r)
    BY <1>13
  <2>2. CASE ReviewRead(c, r)
    <3>1. [pc |-> "review", req |-> r, fresh |-> TRUE] \in MemCall
      BY DEF MemCall
    <3>2. Backed([pc |-> "review", req |-> r, fresh |-> TRUE], memDb)
      BY DEF Backed
    <3> QED
      BY <2>2, <3>1, <3>2 DEF ReviewRead, BeginCall
  <2>3. CASE ReviewReplay(c, r)
    <3>1. PICK p \in memDb.props : BeginCall(c, [pc |-> "viewed", status |-> p.status, reviewed |-> TRUE])
      BY <2>3 DEF ReviewReplay
    <3>2. [pc |-> "viewed", status |-> p.status, reviewed |-> TRUE] \in MemCall
      BY <1>2 DEF MemCall
    <3>3. Backed([pc |-> "viewed", status |-> p.status, reviewed |-> TRUE], memDb)
      BY DEF Backed
    <3> QED
      BY <3>1, <3>2, <3>3 DEF BeginCall
  <2> QED
    BY <2>1, <2>2, <2>3
<1>14. CASE \E f \in Feedbacks : FeedbackLookup(c, f) \/ FeedbackReplay(c, f)
  <2>1. PICK f \in Feedbacks : FeedbackLookup(c, f) \/ FeedbackReplay(c, f)
    BY <1>14
  <2>2. CASE FeedbackLookup(c, f)
    <3>1. [pc |-> "feedback", req |-> f] \in MemCall /\ Backed([pc |-> "feedback", req |-> f], memDb)
      BY DEF MemCall, Backed
    <3> QED
      BY <2>2, <3>1 DEF FeedbackLookup, BeginCall
  <2>3. CASE FeedbackReplay(c, f)
    <3>1. [pc |-> "acked", key |-> f.key] \in MemCall
      BY DEF MemCall
    <3>2. Backed([pc |-> "acked", key |-> f.key], memDb)
      BY <2>3 DEF Backed, FeedbackReplay
    <3> QED
      BY <2>3, <3>1, <3>2 DEF FeedbackReplay, BeginCall
  <2> QED
    BY <2>1, <2>2, <2>3
<1> QED
  BY <1>6, <1>7, <1>8, <1>9, <1>11, <1>12, <1>13, <1>14

\* insert_proposal, and the two decisions of a review.
LEMMA ProposeStep ==
  ASSUME MemIInv, NEW c \in Callers, ProposeInsert(c)
  PROVE  MemIInv' /\ memDb'.vers = memDb.vers /\ memDb.props \subseteq memDb'.props
<1> DEFINE r == memCall[c].req
           db == [memDb EXCEPT !.props = @ \cup {Row(r, "pending")}]
           call == [pc |-> "row", id |-> r.id]
<1>1. /\ memCall[c] \in MemCall /\ memCall[c].pc = "propose"
      /\ ~\E p \in memDb.props : p.id = r.id
      /\ CommitWrite(c, db, call)
  BY DEF MemIInv, ProposeInsert
<1>2. r \in Requests
  BY <1>1 DEF MemCall
<1>3. Consistent(memDb) /\ DbTypes(memDb)
  BY DEF MemIInv, Consistent
<1>4. /\ db.props = memDb.props \cup {Row(r, "pending")} /\ db.vers = memDb.vers /\ db.heads = memDb.heads
      /\ db.reviews = memDb.reviews /\ db.events = memDb.events /\ db.fts = memDb.fts
  BY <1>3 DEF DbTypes
<1>5. Consistent(db)
  BY <1>1, <1>2, <1>3, ProposeConsistent
<1>6. call \in MemCall /\ Backed(call, db) /\ call.pc # "import"
  BY <1>2, RowTypes DEF MemCall, Backed
<1>7. db.fts = Projection(db.heads, db.vers)
  BY <1>4 DEF MemIInv, ProjectionFresh
<1>8. memDb' = db
  BY <1>1 DEF CommitWrite
<1> HIDE DEF db, call
<1> QED
  BY <1>1, <1>4, <1>5, <1>6, <1>7, <1>8, CommitStep

LEMMA DecisionStep ==
  ASSUME MemIInv, NEW c \in Callers, ReviewApprove(c) \/ ReviewReject(c)
  PROVE  /\ MemIInv' /\ memDb.vers \subseteq memDb'.vers
         /\ {p \in memDb.props : p.status # "pending"} \subseteq memDb'.props
<1> DEFINE r == memCall[c].req
<1>1. /\ memCall[c] \in MemCall /\ memCall[c].pc = "review"
      /\ Consistent(memDb) /\ ProjectionFresh /\ ActiveDedupe(memDb.heads) /\ DbTypes(memDb)
  BY DEF MemIInv, Consistent, ReviewApprove, ReviewReject
<1>2. r \in Reviews
  BY <1>1 DEF MemCall
<1>3. PICK p \in memDb.props : \E new, applied, status :
         /\ p.id = r.id /\ p.status = "pending" /\ applied \in Nat
         /\ ActiveDedupe(new.heads) /\ new.fts = Projection(new.heads, new.vers)
         /\ \/ status = "approved" /\ ApplyResult(memDb, new, p)
            \/ status = "rejected" /\ new = memDb
         /\ CommitWrite(c, DecideReview(new, p, r, status, applied), [pc |-> "row", id |-> p.id])
  <2>1. CASE ReviewApprove(c)
    <3>1. PICK p \in memDb.props : \E new \in Applied(p) :
             /\ p.id = r.id /\ Reviewable(p) /\ ActiveDedupe(new.heads)
             /\ CommitWrite(c, DecideReview(new, p, r, "approved", AppliedRevision(p)),
                            [pc |-> "row", id |-> p.id])
      BY <2>1 DEF ReviewApprove
    <3>2. PICK new \in Applied(p) :
             /\ p.id = r.id /\ p.status = "pending" /\ ActiveDedupe(new.heads)
             /\ CommitWrite(c, DecideReview(new, p, r, "approved", AppliedRevision(p)),
                            [pc |-> "row", id |-> p.id])
      BY <3>1 DEF Reviewable
    <3>3. ApplyResult(memDb, new, p) /\ AppliedRevision(p) \in Nat
      BY <1>1, <3>2, AppliedResult
    <3>4. new.fts = Projection(new.heads, new.vers)
      BY <3>3 DEF ApplyResult
    <3> QED
      BY <3>2, <3>3, <3>4
  <2>2. CASE ReviewReject(c)
    <3>1. PICK p \in memDb.props :
             /\ p.id = r.id /\ p.status = "pending"
             /\ CommitWrite(c, DecideReview(memDb, p, r, "rejected", 0), [pc |-> "row", id |-> p.id])
      BY <2>2 DEF ReviewReject, Reviewable
    <3> QED
      BY <3>1, <1>1 DEF ProjectionFresh
  <2> QED
    BY <2>1, <2>2
<1>4. PICK new, applied, status :
         /\ p.id = r.id /\ p.status = "pending" /\ applied \in Nat
         /\ ActiveDedupe(new.heads) /\ new.fts = Projection(new.heads, new.vers)
         /\ \/ status = "approved" /\ ApplyResult(memDb, new, p)
            \/ status = "rejected" /\ new = memDb
         /\ CommitWrite(c, DecideReview(new, p, r, status, applied), [pc |-> "row", id |-> p.id])
  BY <1>3
<1> DEFINE db == DecideReview(new, p, r, status, applied)
           call == [pc |-> "row", id |-> p.id]
<1>5. /\ Consistent(db) /\ db.vers = new.vers /\ db.heads = new.heads /\ db.fts = new.fts
      /\ db.events = memDb.events /\ memDb.reviews \subseteq db.reviews
  BY <1>1, <1>2, <1>4, DecideConsistent
<1>6. call \in MemCall /\ Backed(call, db) /\ call.pc # "import"
  BY <1>1, RowTypes DEF MemCall, Backed, DbTypes
<1>7. memDb' = db
  BY <1>4 DEF CommitWrite
<1>8. new.props = memDb.props /\ memDb.vers \subseteq new.vers
  BY <1>4 DEF ApplyResult
<1>9. DbTypes(new)
  BY <1>1, <1>4 DEF ApplyResult
<1>10. memDb.props \ {p} \subseteq db.props
  BY <1>8, <1>9 DEF DecideReview, DbTypes
<1> HIDE DEF db, call
<1>11. CommitWrite(c, db, call)
  BY <1>4 DEF db, call
<1>12. MemIInv'
  BY <1>4, <1>5, <1>6, <1>11, CommitStep
<1> QED
  BY <1>4, <1>5, <1>7, <1>8, <1>10, <1>12

\* A feedback is inserted under a key that no event has.
LEMMA FeedbackStep ==
  ASSUME MemIInv, NEW c \in Callers, FeedbackInsert(c)
  PROVE  MemIInv' /\ memDb'.vers = memDb.vers /\ memDb'.props = memDb.props
<1> DEFINE f == memCall[c].req
           call == [pc |-> "acked", key |-> f.key]
           db == [memDb EXCEPT !.events = @ \cup {f}]
<1>1. memCall[c] \in MemCall /\ memCall[c].pc = "feedback"
  BY DEF MemIInv, FeedbackInsert
<1>2. f \in Feedbacks
  BY <1>1 DEF MemCall
<1>3. call \in MemCall /\ call.pc # "import"
  BY <1>2 DEF MemCall
<1>4. CASE (\E e \in memDb.events : e.key = f.key) /\ Turn(c, call)
  <2>1. Backed(call, memDb)
    BY <1>4 DEF Backed
  <2> HIDE DEF call
  <2> QED
    BY <1>3, <1>4, <2>1, TurnStep DEF Turn
<1>5. CASE (~\E e \in memDb.events : e.key = f.key) /\ CommitWrite(c, db, call)
  <2>1. Consistent(memDb) /\ DbTypes(memDb)
    BY DEF MemIInv, Consistent
  <2>2. /\ db.props = memDb.props /\ db.vers = memDb.vers /\ db.heads = memDb.heads
        /\ db.reviews = memDb.reviews /\ db.events = memDb.events \cup {f} /\ db.fts = memDb.fts
    BY <2>1 DEF DbTypes
  <2>3. DbTypes(db)
    BY <1>2, <2>1 DEF DbTypes
  <2>4. Backed(call, db)
    BY <2>2 DEF Backed
  <2>5. memDb' = db
    BY <1>5 DEF CommitWrite
  <2> HIDE DEF db, call
  <2>6. Consistent(db)
    BY <1>5, <2>1, <2>2, <2>3
       DEF Consistent, UniqueRows, VersionsMade, HeadsCurrent, DecisionsReviewed, ChangesApplied
  <2>7. db.fts = Projection(db.heads, db.vers)
    BY <2>2 DEF MemIInv, ProjectionFresh
  <2> QED
    BY <1>3, <1>5, <2>2, <2>4, <2>5, <2>6, <2>7, CommitStep
<1> QED
  BY <1>4, <1>5 DEF FeedbackInsert, Turn

\* A rebuild writes the projection it finds; the projection of a database is
\* nowhere in the consistency of its other rows.
LEMMA OtherProjection ==
  ASSUME NEW db, Consistent(db), NEW fts, fts \subseteq [id: Ids, content: Contents]
  PROVE  Consistent([db EXCEPT !.fts = fts])
<1> DEFINE new == [db EXCEPT !.fts = fts]
<1>1. DbTypes(db)
  BY DEF Consistent
<1>2. /\ new.props = db.props /\ new.vers = db.vers /\ new.heads = db.heads
      /\ new.reviews = db.reviews /\ new.events = db.events
  BY <1>1 DEF DbTypes
<1>3. DbTypes(new)
  BY <1>1 DEF DbTypes
<1> HIDE DEF new
<1>4. Consistent(new)
  BY <1>2, <1>3
     DEF Consistent, UniqueRows, VersionsMade, HeadsCurrent, DecisionsReviewed, ChangesApplied
<1> QED
  BY <1>4 DEF new

LEMMA RebuildStep ==
  ASSUME MemIInv, NEW c \in Callers, Rebuild(c)
  PROVE  MemIInv' /\ memDb'.vers = memDb.vers /\ memDb'.props = memDb.props
<1> DEFINE db == [memDb EXCEPT !.fts = Projection(memDb.heads, memDb.vers)]
<1>1. Consistent(memDb) /\ DbTypes(memDb) /\ memDb.fts = Projection(memDb.heads, memDb.vers)
  BY DEF MemIInv, Consistent, ProjectionFresh
<1>2. /\ db.props = memDb.props /\ db.vers = memDb.vers /\ db.heads = memDb.heads
      /\ db.reviews = memDb.reviews /\ db.events = memDb.events
      /\ db.fts = Projection(db.heads, db.vers)
  BY <1>1 DEF DbTypes
<1>3. Projection(memDb.heads, memDb.vers) \subseteq [id: Ids, content: Contents]
  BY <1>1 DEF DbTypes
<1>4. Consistent(db)
  BY <1>1, <1>3, OtherProjection
<1>5. CommitWrite(c, db, IdleCaller)
  BY DEF Rebuild
<1>6. memDb' = db
  BY <1>5 DEF CommitWrite
<1>7. IdleCaller \in MemCall /\ Backed(IdleCaller, db) /\ IdleCaller.pc # "import"
  BY IdleCallType DEF IdleCaller
<1> HIDE DEF db
<1> QED
  BY <1>2, <1>4, <1>5, <1>6, <1>7, CommitStep

\* The file of an export is the database without its projection.
LEMMA ExportStep ==
  ASSUME MemIInv, NEW c \in Callers, ExportWrite(c)
  PROVE  MemIInv' /\ UNCHANGED memDb
<1>1. Consistent(Exported(memDb))
  BY OtherProjection DEF MemIInv, Exported
<1>2. memFile' = Exported(memDb) /\ memCall' = [memCall EXCEPT ![c] = IdleCaller] /\ memDb' = memDb
  BY DEF ExportWrite
<1> QED
  BY <1>1, <1>2, IdleCallType DEF MemIInv, ProjectionFresh

LEMMA ImportStep ==
  ASSUME MemIInv, NEW c \in Callers, ImportWrite(c)
  PROVE  MemIInv' /\ memDb.vers \subseteq memDb'.vers /\ memDb.props \subseteq memDb'.props
<1> DEFINE db == Imported(memDb, memFile)
<1>1. Consistent(memDb) /\ Consistent(memFile)
  BY DEF MemIInv, ImportWrite
<1>2. NewKeys(memDb, memFile) /\ ActiveDedupe(db.heads) /\ CommitWrite(c, db, IdleCaller)
  BY DEF ImportWrite
<1>3. /\ db.props = memDb.props \cup memFile.props /\ db.vers = memDb.vers \cup memFile.vers
      /\ db.reviews = memDb.reviews \cup memFile.reviews /\ db.events = memDb.events \cup memFile.events
      /\ db.fts = Projection(db.heads, db.vers)
  BY DEF Imported
<1>4. Consistent(db)
  BY <1>1, <1>2, ImportConsistent
<1>5. memDb' = db
  BY <1>2 DEF CommitWrite
<1>6. IdleCaller \in MemCall /\ Backed(IdleCaller, db) /\ IdleCaller.pc # "import"
  BY IdleCallType DEF IdleCaller
<1> HIDE DEF db
<1> QED
  BY <1>2, <1>3, <1>4, <1>5, <1>6, CommitStep

\* Every step keeps the invariant, and a step other than opening a new
\* database keeps every version and every decided proposal.
LEMMA MemStep ==
  ASSUME MemIInv, [MemNext]_memVars
  PROVE  /\ MemIInv'
         /\ \/ Open \/ UNCHANGED memVars
            \/ /\ memDb.vers \subseteq memDb'.vers
               /\ {p \in memDb.props : p.status # "pending"} \subseteq memDb'.props
<1>1. CASE Open
  <2>1. \A c \in Callers : Backed(memCall[c], EmptyDb)
    BY <1>1, IdleCallType DEF Open
  <2>2. memDb' = EmptyDb /\ memCall' = memCall /\ memFile' = memFile
    BY <1>1 DEF Open
  <2> QED
    BY <1>1, <2>1, <2>2, EmptyConsistent DEF MemIInv, ProjectionFresh
<1>2. CASE UNCHANGED memVars
  BY <1>2 DEF memVars, MemIInv, ProjectionFresh
<1>3. ASSUME NEW c \in Callers,
             \/ RollBack(c) \/ GetRow(c) \/ GetReview(c) \/ Done(c) \/ ExportCheck(c) \/ ImportCheck(c)
             \/ \E p \in memDb.props : GetBegin(c, p.id)
             \/ \E r \in Requests : CandidateCreate(c, r) \/ CandidateReplace(c, r) \/ CandidateArchive(c, r)
             \/ \E r \in Reviews : ReviewRead(c, r) \/ ReviewReplay(c, r)
             \/ \E f \in Feedbacks : FeedbackLookup(c, f) \/ FeedbackReplay(c, f)
      PROVE  MemIInv' /\ UNCHANGED memDb
  BY <1>3, ReadStep
<1>4. ASSUME NEW c \in Callers, ProposeInsert(c)
      PROVE  MemIInv' /\ memDb'.vers = memDb.vers /\ memDb.props \subseteq memDb'.props
  BY <1>4, ProposeStep
<1>5. ASSUME NEW c \in Callers, ReviewApprove(c) \/ ReviewReject(c)
      PROVE  /\ MemIInv' /\ memDb.vers \subseteq memDb'.vers
             /\ {p \in memDb.props : p.status # "pending"} \subseteq memDb'.props
  BY <1>5, DecisionStep
<1>6. ASSUME NEW c \in Callers, FeedbackInsert(c) \/ Rebuild(c)
      PROVE  MemIInv' /\ memDb'.vers = memDb.vers /\ memDb'.props = memDb.props
  BY <1>6, FeedbackStep, RebuildStep
<1>7. ASSUME NEW c \in Callers, ExportWrite(c)
      PROVE  MemIInv' /\ UNCHANGED memDb
  BY <1>7, ExportStep
<1>8. ASSUME NEW c \in Callers, ImportWrite(c)
      PROVE  MemIInv' /\ memDb.vers \subseteq memDb'.vers /\ memDb.props \subseteq memDb'.props
  BY <1>8, ImportStep
<1> QED
  BY <1>1, <1>2, <1>3, <1>4, <1>5, <1>6, <1>7, <1>8 DEF MemNext

-----------------------------------------------------------------------------
(* What the invariant says of the database and of its readers *)

\* The current version of a record is the one at its head's revision.
LEMMA CurrentVersion ==
  ASSUME Consistent(memDb), NEW h \in memDb.heads
  PROVE  \E v \in memDb.vers : /\ v.id = h.id /\ v.rev = h.rev /\ CurrentContent(h) = v.content
                               /\ h.key = DedupeKey[CurrentContent(h)]
<1>1. h.rev \in Nat \ {0} /\ UniqueRows(memDb) /\ HeadsCurrent(memDb)
  BY DEF Consistent, DbTypes
<1>2. PICK v \in memDb.vers : v.id = h.id /\ v.rev = h.rev
  BY <1>1 DEF HeadsCurrent
<1>3. \A w \in memDb.vers : w.id = h.id /\ w.rev = h.rev => w = v
  BY <1>1, <1>2 DEF UniqueRows
<1>4. (CHOOSE w \in memDb.vers : w.id = h.id /\ w.rev = h.rev) = v
  BY <1>2, <1>3
<1>5. h.key = DedupeKey[v.content]
  BY <1>1, <1>2 DEF HeadsCurrent
<1> QED
  BY <1>2, <1>4, <1>5 DEF CurrentContent

LEMMA MemHistory ==
  ASSUME MemIInv
  PROVE  HistoryApplied /\ NoLostUpdate
<1>1. /\ Consistent(memDb) /\ DbTypes(memDb) /\ UniqueRows(memDb) /\ VersionsMade(memDb)
      /\ HeadsCurrent(memDb) /\ ChangesApplied(memDb)
  BY DEF MemIInv, Consistent
<1>2. ASSUME NEW p \in memDb.props
      PROVE  Cardinality({v \in memDb.vers : v.by = p.id}) =
               IF p.status = "approved" /\ p.op # "archive" THEN 1 ELSE 0
  <2>1. CASE p.status = "approved" /\ p.op # "archive"
    <3>1. PICK v \in memDb.vers : v.by = p.id
      BY <2>1, <1>1 DEF VersionsMade
    <3>2. {w \in memDb.vers : w.by = p.id} = {v}
      BY <3>1, <1>1 DEF VersionsMade
    <3> QED
      BY <2>1, <3>2, FS_Singleton
  <2>2. CASE ~(p.status = "approved" /\ p.op # "archive")
    <3>1. {w \in memDb.vers : w.by = p.id} = {}
      BY <2>2, <1>1 DEF VersionsMade, UniqueRows
    <3> QED
      BY <2>2, <3>1, FS_EmptySet
  <2> QED
    BY <2>1, <2>2
<1>3. \A v \in memDb.vers : \E p \in memDb.props : p.id = v.by
  BY <1>1 DEF VersionsMade
<1>4. \A h \in memDb.heads : h.key = DedupeKey[CurrentContent(h)]
  BY <1>1, CurrentVersion
<1>5. HistoryApplied
  BY <1>1, <1>2, <1>3, <1>4 DEF HistoryApplied, HeadsCurrent
<1>6. \A p \in memDb.props : p.op \in {"create", "replace", "archive"}
  BY <1>1, RowTypes DEF DbTypes
<1>7. NoLostUpdate
  BY <1>1, <1>6 DEF NoLostUpdate, ChangesApplied
<1> QED
  BY <1>5, <1>7

\* Of the heads that match, the nearest of each dedupe key is found, and the
\* nearest copy of one content is the nearest of its key.
LEMMA SearchResult ==
  ASSUME Consistent(memDb), NEW scopes, scopes \subseteq DOMAIN Scopes,
         NEW q, NEW candidates, candidates \subseteq ActiveIn(scopes),
         \A h \in candidates : CurrentContent(h) \in q,
         \A g, h \in candidates : g.key = h.key => ~(Scopes[g.scope] < Scopes[h.scope]),
         \A h \in ActiveIn(scopes) : CurrentContent(h) \in q /\ h \notin candidates =>
           \E g \in ActiveIn(scopes) : g.key = h.key /\ Scopes[g.scope] < Scopes[h.scope]
  PROVE  LET hits == Search(candidates) IN
         /\ \A h \in hits : h \in ActiveIn(scopes) /\ CurrentContent(h) \in q
         /\ \A g, h \in hits : g.key = h.key => g = h
         /\ \A h \in ActiveIn(scopes) : CurrentContent(h) \in q /\ h \notin hits =>
              \E g \in ActiveIn(scopes) : g.key = h.key /\ Scopes[g.scope] < Scopes[h.scope]
<1> DEFINE hits == Search(candidates)
<1>1. hits \subseteq candidates
  BY DEF Search
<1>2. ActiveIn(scopes) \subseteq memDb.heads /\ \A h \in ActiveIn(scopes) : h.status = "active" /\ h.scope \in scopes
  BY DEF ActiveIn
<1>3. ASSUME NEW g \in hits, NEW h \in hits, g.key = h.key
      PROVE  g = h
  <2>1. /\ g \in memDb.heads /\ h \in memDb.heads /\ g.status = "active" /\ h.status = "active"
        /\ g.scope \in DOMAIN Scopes /\ h.scope \in DOMAIN Scopes
    BY <1>1, <1>2
  <2>2. Scopes[g.scope] \in Nat /\ Scopes[h.scope] \in Nat
    BY <2>1, MemAssumption
  <2>3. ~(Scopes[g.scope] < Scopes[h.scope]) /\ ~(Scopes[h.scope] < Scopes[g.scope])
    BY <1>1, <1>3
  <2>4. g.scope = h.scope
    BY <2>1, <2>2, <2>3, MemAssumption
  <2>5. ActiveDedupe(memDb.heads)
    BY DEF Consistent
  <2> QED
    BY <1>3, <2>1, <2>4, <2>5 DEF ActiveDedupe
<1>4. ASSUME NEW h \in ActiveIn(scopes), CurrentContent(h) \in q, h \notin hits
      PROVE  \E g \in ActiveIn(scopes) : g.key = h.key /\ Scopes[g.scope] < Scopes[h.scope]
  <2>1. CASE h \notin candidates
    BY <1>4, <2>1
  <2>2. CASE h \in candidates
    <3>1. PICK g \in candidates : CurrentContent(g) = CurrentContent(h) /\ Scopes[g.scope] < Scopes[h.scope]
      BY <1>4, <2>2 DEF Search
    <3>2. g.key = DedupeKey[CurrentContent(g)] /\ h.key = DedupeKey[CurrentContent(h)]
      BY <1>2, CurrentVersion
    <3> QED
      BY <3>1, <3>2
  <2> QED
    BY <2>1, <2>2
<1> QED
  BY <1>1, <1>3, <1>4

\* Both channels find the nearest record of each dedupe key that matches.
LEMMA MemSearch ==
  ASSUME MemIInv
  PROVE  SearchFindsNearest
<1> SUFFICES ASSUME NEW q \in Queries, NEW scope \in DOMAIN Scopes, NEW mode \in {"exact", "ancestors"},
                    NEW candidates \in {FtsCandidates(q, Visible(scope, mode)), ShortCandidates(q, Visible(scope, mode))}
             PROVE  LET hits == Search(candidates)
                        visible == ActiveIn(Visible(scope, mode))
                    IN /\ \A h \in hits : h \in visible /\ CurrentContent(h) \in q
                       /\ \A g, h \in hits : g.key = h.key => g = h
                       /\ \A h \in visible : CurrentContent(h) \in q /\ h \notin hits =>
                            \E g \in visible : g.key = h.key /\ Scopes[g.scope] < Scopes[h.scope]
  BY DEF SearchFindsNearest
<1> DEFINE scopes == Visible(scope, mode)
           visible == ActiveIn(scopes)
<1>1. Consistent(memDb) /\ UniqueRows(memDb) /\ memDb.fts = Projection(memDb.heads, memDb.vers)
  BY DEF MemIInv, Consistent, ProjectionFresh
<1>2. scopes \subseteq DOMAIN Scopes
  BY DEF Visible
<1> HIDE DEF scopes
<1>3. visible \subseteq memDb.heads /\ \A h \in visible : h.status = "active"
  BY DEF ActiveIn
<1> HIDE DEF visible
\* A row of the projection that matches is the current text of its record.
<1>4. ASSUME NEW h \in visible
      PROVE  (\E f \in memDb.fts : f.id = h.id /\ f.content \in q) <=> CurrentContent(h) \in q
  <2>1. PICK v \in memDb.vers : v.id = h.id /\ v.rev = h.rev /\ CurrentContent(h) = v.content
    BY <1>1, <1>3, CurrentVersion
  <2>2. [id |-> v.id, content |-> v.content] \in memDb.fts
    BY <1>1, <1>3, <2>1 DEF Projection
  <2>3. ASSUME NEW f \in memDb.fts, f.id = h.id
        PROVE  f.content = v.content
    <3>1. PICK w \in memDb.vers, g \in memDb.heads :
             f = [id |-> w.id, content |-> w.content] /\ g.id = w.id /\ g.rev = w.rev
      BY <1>1 DEF Projection
    <3>2. g = h
      BY <1>1, <1>3, <2>3, <3>1 DEF UniqueRows
    <3> QED
      BY <1>1, <2>1, <3>1, <3>2 DEF UniqueRows
  <2> QED
    BY <2>1, <2>2, <2>3
<1>5. candidates \in {Nearest({h \in visible : CurrentContent(h) \in q}),
                      {h \in Nearest(visible) : CurrentContent(h) \in q}}
  <2>1. {h \in visible : \E f \in memDb.fts : f.id = h.id /\ f.content \in q}
          = {h \in visible : CurrentContent(h) \in q}
    BY <1>4
  <2> QED
    BY <2>1 DEF FtsCandidates, ShortCandidates, scopes, visible
<1>6. candidates \subseteq visible /\ \A h \in candidates : CurrentContent(h) \in q
  BY <1>5 DEF Nearest
<1>7. \A g, h \in candidates : g.key = h.key => ~(Scopes[g.scope] < Scopes[h.scope])
  BY <1>5 DEF Nearest
<1>8. \A h \in visible : CurrentContent(h) \in q /\ h \notin candidates =>
        \E g \in visible : g.key = h.key /\ Scopes[g.scope] < Scopes[h.scope]
  BY <1>5 DEF Nearest
<1> HIDE DEF Search
<1> QED
  BY <1>1, <1>2, <1>6, <1>7, <1>8, SearchResult DEF visible, scopes

LEMMA MemTypes ==
  ASSUME MemIInv
  PROVE  MemTypeOK
<1>1. DbTypes(memDb) /\ (memFile # NoExport => DbTypes(memFile))
  BY DEF MemIInv, Consistent
<1>2. \A c \in Callers : memCall[c].pc \in
        {"idle", "propose", "review", "row", "get", "viewed", "feedback", "acked", "export", "import"}
  BY DEF MemIInv, MemCall
<1> QED
  BY <1>1, <1>2 DEF MemTypeOK, DbTypes

\* For any number of concurrent calls, failures, exports and imports: the text
\* index is the current text of the active records, one active record of a
\* scope has a dedupe key, the versions are exactly what the approved proposals
\* made, none of them over a revision it did not name, a decision is never
\* shown without its review, feedback is counted once, and a search finds the
\* nearest record of each matching key (store/v2.rs).
THEOREM MemoryConsistent == MemSpec => []MemInv
<1>1. MemInit => MemIInv
  BY MemInitially
<1>2. MemIInv /\ [MemNext]_memVars => MemIInv'
  BY MemStep
<1>3. MemIInv => MemInv
  <2> SUFFICES ASSUME MemIInv PROVE MemInv
    OBVIOUS
  <2>1. OneActivePerKey
    BY DEF MemIInv, Consistent, ActiveDedupe, OneActivePerKey
  <2>2. TerminalViewHasReview
    BY DEF MemIInv, Backed, TerminalViewHasReview
  <2>3. FeedbackCountedOnce
    BY DEF MemIInv, Backed, Consistent, UniqueRows, FeedbackCountedOnce
  <2>4. ProjectionFresh
    BY DEF MemIInv
  <2> QED
    BY <2>1, <2>2, <2>3, <2>4, MemTypes, MemHistory, MemSearch DEF MemInv
<1> QED
  BY <1>1, <1>2, <1>3, PTL DEF MemSpec

\* Only a server started on another path sees fewer: no step of any caller
\* rewrites or deletes a version or a decided proposal.
THEOREM MemoryHistoryKept == MemSpec => HistoryKept
<1>1. MemInit => MemIInv
  BY MemInitially
<1>2. MemIInv /\ [MemNext]_memVars => MemIInv'
  BY MemStep
<1>3. MemIInv /\ [MemNext]_memVars =>
        [\/ Open
         \/ /\ memDb.vers \subseteq memDb'.vers
            /\ {p \in memDb.props : p.status # "pending"} \subseteq memDb'.props]_memVars
  BY MemStep
<1> QED
  BY <1>1, <1>2, <1>3, PTL DEF MemSpec, HistoryKept

-----------------------------------------------------------------------------
(* The definition library.  Only the holder of the library's writer lease     *)
(* deletes a package or writes history, and it looks at the deletion record   *)
(* after it took the lease, so what is deleted stays as it was, with any      *)
(* number of hosts.  A load that finishes a pending commit takes no lease:    *)
(* that it returns the document the package stands for, that a save replaces  *)
(* only what it expected, and that the history resolves, is proved of one     *)
(* host, where no other section runs in between, and the last two of several  *)
(* as long as no restoration is pending.                                      *)

\* What a section may hold.
DefRequest == [def : Definition \cup {Nothing}, files : Closure \cup {Nothing},
               expected : Document \cup {Nothing}, approved : BOOLEAN]
Saving == {"entry", "prune", "index", "pruned", "drop", "publish"}
SectionFields ==
  [kind : {"none", "read", "propose", "apply", "publish", "delete"},
   pc : {"idle", "load", "loaded", "replay", "clear", "recover"} \cup Saving,
   req : DefRequest \cup {Nothing}, stored : Document \cup {Nothing},
   rm : Closure, put : Closure, drop : SUBSET Document, own : BOOLEAN]
SectionRecord == {s \in SectionFields : s.pc = "replay" => s.stored \in Document}
PackageRoot ==
  [def : Definition \cup {Nothing}, files : Closure,
   intent : [doc : Document, cleanup : Closure] \cup {Nothing}, deleted : BOOLEAN, dir : BOOLEAN]
IndexRecord == [revision : Document, parent : Document \cup {Nothing}]

\* A request that publishes names a definition, and a first save expects none.
Publishes(kind, req) ==
  /\ kind \in {"propose", "apply", "publish"} => req \in DefRequest /\ req.def \in Definition
  /\ kind = "publish" => req.expected = Nothing
  /\ kind = "delete" => req \in DefRequest

LibraryTypes ==
  /\ root \in PackageRoot
  /\ hist = [index |-> hist.index, entry |-> hist.entry] /\ hist.index \in Seq(IndexRecord)
  /\ section \in [Hosts -> SectionRecord]
  /\ queue \in [Hosts -> Seq([kind : {"apply", "publish", "delete"}, req : DefRequest])]
  /\ current \in Document \cup {Nothing}
  /\ \A h \in Hosts : Publishes(section[h].kind, section[h].req)
  /\ \A h \in Hosts : \A i \in 1 .. Len(queue[h]) : Publishes(queue[h][i].kind, queue[h][i].req)

Mutating == {"apply", "publish", "delete"}

\* A mutation holds the writer lease, and found the package not deleted.
DeletionFenced ==
  /\ \A h \in Hosts : section[h].kind \in Mutating /\ section[h].pc # "idle" => defLease = h
  /\ \A h \in Hosts : section[h].pc \in Saving => section[h].kind = "apply"
  /\ \A h \in Hosts : section[h].kind \in Mutating /\ section[h].pc \in Saving \cup {"loaded"} => ~root.deleted

\* The ghost is the stored document or the pending commit; a mutation that
\* loaded the package, and with one host any section, has it in hand, and a
\* replay the commit it finishes.
OneHost == \A g, h \in Hosts : g = h
HostWhole(h) ==
  LET s == section[h] IN
  /\ s.pc \in Saving \cup {"loaded"} /\ (s.kind \in Mutating \/ OneHost) =>
       root.intent = Nothing /\ s.stored = current
  /\ s.pc \in Saving => s.req.expected = current
  /\ s.pc = "replay" => root.intent # Nothing /\ s.stored = root.intent.doc
  /\ s.pc = "clear" => /\ root.intent # Nothing
                       /\ root.def = root.intent.doc.def /\ root.files = root.intent.doc.files
StandsFor == current = IF root.intent = Nothing THEN Stored ELSE root.intent.doc
LibraryWhole == StandsFor /\ \A h \in Hosts : HostWhole(h)

\* A replay meets no other host: there is none, or nothing is pending.
Exclusive == OneHost \/ root.intent = Nothing

\* Pruning begins with more revisions than are retained.
PruneExcess ==
  \A h \in Hosts : section[h].pc \in {"prune", "pruned"} => Len(hist.index) + 1 > Retained

\* The inductive invariant of any number of hosts.
LibraryIInv == LibraryTypes /\ DeletionFenced /\ PruneExcess

\* The record of an idle host.
LEMMA IdleType ==
  /\ IdleRequest \in SectionRecord /\ IdleRequest.kind = "none" /\ IdleRequest.pc = "idle"
  /\ Publishes("none", IdleRequest.req)
BY DEF IdleRequest, Section, SectionRecord, SectionFields, Publishes, Closure

\* A section that begins.
LEMMA BeginType ==
  ASSUME NEW kind \in {"read", "propose", "apply", "publish", "delete"}, NEW req \in DefRequest \cup {Nothing}
  PROVE  /\ Section(kind, req) \in SectionRecord
         /\ Section(kind, req).kind = kind /\ Section(kind, req).req = req /\ Section(kind, req).pc = "load"
BY DEF Section, SectionRecord, SectionFields, Closure

\* What a step of one host may change for the others: the lease only if it was
\* free or its own, the deletion record and the index only under the lease.
LEMMA SectionKeeps ==
  ASSUME LibraryIInv, NEW h \in Hosts, NEW rec \in SectionRecord,
         section' = [section EXCEPT ![h] = rec], Publishes(rec.kind, rec.req),
         root' \in PackageRoot, current' \in Document \cup {Nothing},
         hist' = [index |-> hist'.index, entry |-> hist'.entry], hist'.index \in Seq(IndexRecord),
         queue' \in [Hosts -> Seq([kind : {"apply", "publish", "delete"}, req : DefRequest])],
         \A g \in Hosts : \A i \in 1 .. Len(queue'[g]) : Publishes(queue'[g][i].kind, queue'[g][i].req),
         rec.kind \in Mutating /\ rec.pc # "idle" => defLease' = h,
         defLease' = defLease \/ defLease \in {Nothing, h},
         rec.pc \in Saving => rec.kind = "apply",
         rec.kind \in Mutating /\ rec.pc \in Saving \cup {"loaded"} => ~root'.deleted,
         root'.deleted = root.deleted \/ defLease = h,
         rec.pc \in {"prune", "pruned"} => Len(hist'.index) + 1 > Retained,
         hist'.index = hist.index \/ defLease = h
  PROVE  LibraryIInv'
<1>1. LibraryTypes /\ DeletionFenced /\ PruneExcess
  BY DEF LibraryIInv
<1>2. section \in [Hosts -> SectionRecord]
  BY <1>1 DEF LibraryTypes
<1>3. section' \in [Hosts -> SectionRecord] /\ section'[h] = rec /\ \A g \in Hosts : g # h => section'[g] = section[g]
  BY <1>2
<1>4. LibraryTypes'
  BY <1>1, <1>3 DEF LibraryTypes
<1>5. Nothing \notin Hosts
  BY NothingElse
<1>6. \A g \in Hosts : g # h /\ section[g].kind \in Mutating /\ section[g].pc # "idle" =>
                         defLease = g /\ defLease' = g /\ root'.deleted = root.deleted /\ hist'.index = hist.index
  BY <1>1, <1>5 DEF DeletionFenced
<1>7. DeletionFenced'
  <2>1. \A g \in Hosts : section'[g].kind \in Mutating /\ section'[g].pc # "idle" => defLease' = g
    BY <1>3, <1>6
  <2>2. \A g \in Hosts : section'[g].pc \in Saving => section'[g].kind = "apply"
    BY <1>1, <1>3 DEF DeletionFenced
  <2>3. \A g \in Hosts : section'[g].kind \in Mutating /\ section'[g].pc \in Saving \cup {"loaded"} => ~root'.deleted
    BY <1>1, <1>3, <1>6 DEF DeletionFenced, Saving
  <2> QED
    BY <2>1, <2>2, <2>3 DEF DeletionFenced
<1>8. PruneExcess'
  <2> SUFFICES ASSUME NEW g \in Hosts, section'[g].pc \in {"prune", "pruned"}
               PROVE  Len(hist'.index) + 1 > Retained
    BY DEF PruneExcess
  <2>1. CASE g = h
    BY <1>3, <2>1
  <2>2. CASE g # h
    <3>1. section[g].pc \in {"prune", "pruned"} /\ section[g].kind = "apply"
      BY <1>1, <1>3, <2>2 DEF DeletionFenced, Saving
    <3> QED
      BY <3>1, <1>1, <1>6, <2>2 DEF PruneExcess, Mutating
  <2> QED
    BY <2>1, <2>2
<1> QED
  BY <1>4, <1>7, <1>8 DEF LibraryIInv

\* What every step owes to a deleted package.
Frozen == root.deleted => root'.deleted /\ hist' = hist /\ (current' # current => UNCHANGED section)

\* A step that ends a section and changes nothing of the history.
LEMMA EndKeeps ==
  ASSUME LibraryIInv, NEW h \in Hosts, End(h),
         root' \in PackageRoot, current' \in Document \cup {Nothing}, hist' = hist,
         queue' \in [Hosts -> Seq([kind : {"apply", "publish", "delete"}, req : DefRequest])],
         \A g \in Hosts : \A i \in 1 .. Len(queue'[g]) : Publishes(queue'[g][i].kind, queue'[g][i].req),
         root'.deleted = root.deleted \/ defLease = h
  PROVE  LibraryIInv'
<1>1. hist = [index |-> hist.index, entry |-> hist.entry] /\ hist.index \in Seq(IndexRecord)
  BY DEF LibraryIInv, LibraryTypes
<1>2. /\ section' = [section EXCEPT ![h] = IdleRequest]
      /\ defLease' = defLease \/ defLease \in {Nothing, h}
  BY DEF End
<1>3. IdleRequest.kind \notin Mutating /\ IdleRequest.pc \notin Saving \cup {"loaded", "prune", "pruned"}
  BY IdleType DEF Mutating, Saving
<1> QED
  BY <1>1, <1>2, <1>3, IdleType, SectionKeeps

\* A step of a section that touches neither the history nor the deletion record.
LEMMA SectionMoves ==
  ASSUME LibraryIInv, NEW h \in Hosts, NEW rec \in SectionRecord,
         section' = [section EXCEPT ![h] = rec], Publishes(rec.kind, rec.req),
         rec.kind = section[h].kind, section[h].pc # "idle",
         UNCHANGED <<queue, defLease>>, hist' = hist, current' \in Document \cup {Nothing},
         root' \in PackageRoot, root'.deleted = root.deleted,
         rec.pc \in Saving => rec.kind = "apply",
         rec.kind \in Mutating /\ rec.pc \in Saving \cup {"loaded"} => ~root.deleted,
         rec.pc \in {"prune", "pruned"} => Len(hist.index) + 1 > Retained
  PROVE  LibraryIInv'
<1>1. hist = [index |-> hist.index, entry |-> hist.entry] /\ hist.index \in Seq(IndexRecord)
  BY DEF LibraryIInv, LibraryTypes
<1>2. /\ queue \in [Hosts -> Seq([kind : {"apply", "publish", "delete"}, req : DefRequest])]
      /\ \A g \in Hosts : \A i \in 1 .. Len(queue[g]) : Publishes(queue[g][i].kind, queue[g][i].req)
  BY DEF LibraryIInv, LibraryTypes
<1>3. rec.kind \in Mutating /\ rec.pc # "idle" => defLease' = h
  BY DEF LibraryIInv, DeletionFenced
<1> QED
  BY <1>1, <1>2, <1>3, SectionKeeps

\* What a request appends to a queue, and what is left of one.
LEMMA QueueType ==
  ASSUME LibraryIInv, NEW h \in Hosts
  PROVE  /\ \A kind \in {"apply", "publish", "delete"}, req \in DefRequest :
              Enqueue(h, kind, req) /\ Publishes(kind, req) =>
                /\ queue' \in [Hosts -> Seq([kind : {"apply", "publish", "delete"}, req : DefRequest])]
                /\ \A g \in Hosts : \A i \in 1 .. Len(queue'[g]) : Publishes(queue'[g][i].kind, queue'[g][i].req)
         /\ queue[h] # <<>> /\ queue' = [queue EXCEPT ![h] = Tail(@)] =>
                /\ queue' \in [Hosts -> Seq([kind : {"apply", "publish", "delete"}, req : DefRequest])]
                /\ \A g \in Hosts : \A i \in 1 .. Len(queue'[g]) : Publishes(queue'[g][i].kind, queue'[g][i].req)
                /\ Head(queue[h]).kind \in {"apply", "publish", "delete"} /\ Head(queue[h]).req \in DefRequest
                /\ Publishes(Head(queue[h]).kind, Head(queue[h]).req)
<1> DEFINE Item == [kind : {"apply", "publish", "delete"}, req : DefRequest]
<1>1. /\ queue \in [Hosts -> Seq(Item)]
      /\ \A g \in Hosts : \A i \in 1 .. Len(queue[g]) : Publishes(queue[g][i].kind, queue[g][i].req)
  BY DEF LibraryIInv, LibraryTypes
<1>2. ASSUME NEW kind \in {"apply", "publish", "delete"}, NEW req \in DefRequest,
             Enqueue(h, kind, req), Publishes(kind, req)
      PROVE  /\ queue' \in [Hosts -> Seq(Item)]
             /\ \A g \in Hosts : \A i \in 1 .. Len(queue'[g]) : Publishes(queue'[g][i].kind, queue'[g][i].req)
  <2> DEFINE item == [kind |-> kind, req |-> req]
             q == Append(queue[h], item)
  <2>1. item \in Item /\ item.kind = kind /\ item.req = req
    OBVIOUS
  <2>2. queue' = [queue EXCEPT ![h] = q]
    BY <1>2 DEF Enqueue
  <2> HIDE DEF Item, item
  <2>3. queue[h] \in Seq(Item)
    BY <1>1
  <2>4. /\ q \in Seq(Item) /\ Len(q) = Len(queue[h]) + 1 /\ q[Len(queue[h]) + 1] = item
        /\ \A i \in 1 .. Len(queue[h]) : q[i] = queue[h][i]
    BY <2>1, <2>3, AppendProperties
  <2>5. Len(queue[h]) \in Nat
    BY <2>3, LenProperties
  <2> HIDE DEF q
  <2>6. \A i \in 1 .. Len(q) : Publishes(q[i].kind, q[i].req)
    <3> SUFFICES ASSUME NEW i \in 1 .. Len(q)
                 PROVE  Publishes(q[i].kind, q[i].req)
      OBVIOUS
    <3>1. CASE i = Len(queue[h]) + 1
      BY <1>2, <2>1, <2>4, <3>1
    <3>2. CASE i # Len(queue[h]) + 1
      <4>1. i \in 1 .. Len(queue[h])
        BY <2>4, <2>5, <3>2
      <4> QED
        BY <4>1, <1>1, <2>4
    <3> QED
      BY <3>1, <3>2
  <2>7. queue'[h] = q /\ \A g \in Hosts : g # h => queue'[g] = queue[g]
    BY <1>1, <2>2
  <2> QED
    BY <1>1, <2>2, <2>4, <2>6, <2>7
<1>3. ASSUME queue[h] # <<>>, queue' = [queue EXCEPT ![h] = Tail(@)]
      PROVE  /\ queue' \in [Hosts -> Seq(Item)]
             /\ \A g \in Hosts : \A i \in 1 .. Len(queue'[g]) : Publishes(queue'[g][i].kind, queue'[g][i].req)
             /\ Head(queue[h]) \in Item /\ Publishes(Head(queue[h]).kind, Head(queue[h]).req)
  <2> HIDE DEF Item
  <2>1. queue[h] \in Seq(Item)
    BY <1>1
  <2>2. /\ Head(queue[h]) \in Item /\ Tail(queue[h]) \in Seq(Item) /\ Len(Tail(queue[h])) = Len(queue[h]) - 1
        /\ \A i \in 1 .. Len(Tail(queue[h])) : Tail(queue[h])[i] = queue[h][i + 1]
    BY <1>3, <2>1, HeadTailProperties
  <2>3. Len(queue[h]) \in Nat \ {0} /\ Head(queue[h]) = queue[h][1]
    BY <1>3, <2>1, EmptySeq, LenProperties
  <2>4. Publishes(Head(queue[h]).kind, Head(queue[h]).req)
    BY <1>1, <2>3
  <2>5. \A i \in 1 .. Len(Tail(queue[h])) : Publishes(Tail(queue[h])[i].kind, Tail(queue[h])[i].req)
    BY <1>1, <2>2, <2>3
  <2>6. queue'[h] = Tail(queue[h]) /\ \A g \in Hosts : g # h => queue'[g] = queue[g]
    BY <1>1, <1>3
  <2> QED
    BY <1>1, <1>3, <2>2, <2>4, <2>5, <2>6
<1> QED
  BY <1>2, <1>3

\* The types an action finds.
LEMMA LibraryFacts ==
  ASSUME LibraryIInv, NEW h \in Hosts
  PROVE  /\ root \in PackageRoot /\ current \in Document \cup {Nothing}
         /\ hist = [index |-> hist.index, entry |-> hist.entry] /\ hist.index \in Seq(IndexRecord)
         /\ section \in [Hosts -> SectionRecord] /\ section[h] \in SectionRecord
         /\ Publishes(section[h].kind, section[h].req)
         /\ queue \in [Hosts -> Seq([kind : {"apply", "publish", "delete"}, req : DefRequest])]
         /\ \A g \in Hosts : \A i \in 1 .. Len(queue[g]) : Publishes(queue[g][i].kind, queue[g][i].req)
         /\ section[h].kind \in Mutating /\ section[h].pc # "idle" => defLease = h
         /\ section[h].pc \in Saving => section[h].kind = "apply" /\ defLease = h /\ ~root.deleted
         /\ section[h].kind \in Mutating /\ section[h].pc = "loaded" => ~root.deleted
         /\ section[h].pc \in {"prune", "pruned"} => Len(hist.index) + 1 > Retained
         /\ Stored \in Document \cup {Nothing}
         /\ Listed \subseteq Document
         /\ \A r \in Document : ReadRevision(hist, r) \in Closure \cup {Nothing}
<1>1. LibraryTypes /\ DeletionFenced /\ PruneExcess
  BY DEF LibraryIInv
<1>2. section[h] \in SectionRecord
  BY <1>1 DEF LibraryTypes
<1>3. section[h].pc \in Saving => section[h].kind = "apply" /\ defLease = h /\ ~root.deleted
  BY <1>1 DEF DeletionFenced, Mutating, Saving
<1>4. Stored \in Document \cup {Nothing}
  BY <1>1 DEF LibraryTypes, PackageRoot, Stored, Document
<1>5. Listed \subseteq Document
  <2>1. \A i \in DOMAIN hist.index : hist.index[i] \in IndexRecord
    BY <1>1 DEF LibraryTypes
  <2> QED
    BY <2>1 DEF Listed, IndexRecord
<1>6. \A r \in Document : ReadRevision(hist, r) \in Closure \cup {Nothing}
  BY DEF ReadRevision, Document
<1> QED
  BY <1>1, <1>2, <1>3, <1>4, <1>5, <1>6 DEF LibraryTypes, DeletionFenced, PruneExcess

\* A request of a client.
LEMMA AskKeeps ==
  ASSUME LibraryIInv, NEW h \in Hosts, Ask(h)
  PROVE  LibraryIInv' /\ UNCHANGED <<root, hist, current>>
<1>1. section[h].pc = "idle" /\ UNCHANGED <<root, hist, current, defLease>>
  BY DEF Ask, Read, CreateDefinition, CreateBlueprint, DeleteDefinition, Propose, Revert, DefAt
<1>2. \A e \in Expectable : e \in Document \cup {Nothing}
  BY LibraryFacts DEF Expectable
<1>3. ASSUME NEW kind \in {"read", "propose"}, NEW req \in DefRequest \cup {Nothing}, Publishes(kind, req),
             BeginRequest(h, kind, req), UNCHANGED queue
      PROVE  LibraryIInv'
  <2>1. Section(kind, req).kind \notin Mutating /\ Section(kind, req).pc \notin Saving \cup {"loaded", "prune", "pruned"}
    BY BeginType DEF Mutating, Saving
  <2>2. section' = [section EXCEPT ![h] = Section(kind, req)]
    BY <1>3 DEF BeginRequest
  <2>3. Section(kind, req) \in SectionRecord /\ Publishes(Section(kind, req).kind, Section(kind, req).req)
    BY <1>3, BeginType
  <2> QED
    BY <1>1, <1>3, <2>1, <2>2, <2>3, LibraryFacts, SectionKeeps
<1>4. ASSUME NEW kind \in {"apply", "publish", "delete"}, NEW req \in DefRequest, Publishes(kind, req),
             Enqueue(h, kind, req), UNCHANGED section
      PROVE  LibraryIInv'
  <2>1. /\ queue' \in [Hosts -> Seq([kind : {"apply", "publish", "delete"}, req : DefRequest])]
        /\ \A g \in Hosts : \A i \in 1 .. Len(queue'[g]) : Publishes(queue'[g][i].kind, queue'[g][i].req)
    BY <1>4, QueueType
  <2> QED
    BY <1>1, <1>4, <2>1 DEF LibraryIInv, LibraryTypes, DeletionFenced, PruneExcess
<1>5. ASSUME NEW def \in Definition \cup {Nothing}, NEW files \in Closure \cup {Nothing},
             NEW expected \in Document \cup {Nothing}, NEW approved \in BOOLEAN
      PROVE  /\ Request(def, files, expected, approved) \in DefRequest
             /\ Request(def, files, expected, approved).def = def
             /\ Request(def, files, expected, approved).expected = expected
  BY DEF Request, DefRequest
<1>6. CASE Read(h)
  BY <1>3, <1>6 DEF Read, Publishes
<1>7. CASE \E def \in Definition, files \in Uploads : CreateDefinition(h, def) \/ CreateBlueprint(h, def, files)
  <2>1. PICK def \in Definition, files \in Uploads : CreateDefinition(h, def) \/ CreateBlueprint(h, def, files)
    BY <1>7
  <2>2. files \in Closure
    BY DefinitionConstants DEF Closure
  <2>3. CASE CreateDefinition(h, def)
    <3> DEFINE ask == Request(def, Nothing, Nothing, TRUE)
    <3>1. ask \in DefRequest /\ ask.def = def
      BY DEF Request, DefRequest
    <3>2. Enqueue(h, "apply", ask) /\ UNCHANGED section
      BY <2>3 DEF CreateDefinition
    <3> HIDE DEF ask
    <3>3. Publishes("apply", ask)
      BY <3>1 DEF Publishes
    <3> QED
      BY <1>1, <1>4, <3>1, <3>2, <3>3
  <2>4. CASE CreateBlueprint(h, def, files)
    <3> DEFINE ask == Request(def, files, Nothing, TRUE)
    <3>1. ask \in DefRequest /\ ask.def = def /\ ask.expected = Nothing
      BY <2>2 DEF Request, DefRequest
    <3>2. Enqueue(h, "publish", ask) /\ UNCHANGED section
      BY <2>4 DEF CreateBlueprint
    <3> HIDE DEF ask
    <3>3. Publishes("publish", ask)
      BY <3>1 DEF Publishes
    <3> QED
      BY <1>1, <1>4, <3>1, <3>2, <3>3
  <2> QED
    BY <2>1, <2>3, <2>4
<1>8. CASE \E e \in Expectable \ {Nothing} : DeleteDefinition(h, e)
  <2>1. PICK e \in Expectable : DeleteDefinition(h, e)
    BY <1>8
  <2>2. Request(Nothing, Nothing, e, TRUE) \in DefRequest /\ Publishes("delete", Request(Nothing, Nothing, e, TRUE))
    BY <1>2, <1>5 DEF Publishes
  <2> QED
    BY <1>4, <2>1, <2>2 DEF DeleteDefinition
<1>9. CASE \E def \in Definition, e \in Expectable, ok \in BOOLEAN : Propose(h, def, e, ok)
  <2>1. PICK def \in Definition, e \in Expectable, ok \in BOOLEAN : Propose(h, def, e, ok)
    BY <1>9
  <2>2. Request(def, Nothing, e, ok) \in DefRequest /\ Publishes("propose", Request(def, Nothing, e, ok))
    BY <1>2, <1>5 DEF Publishes
  <2> QED
    BY <1>3, <2>1, <2>2 DEF Propose
<1>10. CASE \E r \in Listed, e \in Expectable \ {Nothing}, ok \in BOOLEAN : Revert(h, r, e, ok)
  <2>1. PICK r \in Listed, e \in Expectable, ok \in BOOLEAN : Revert(h, r, e, ok)
    BY <1>10
  <2>2. r.def \in Definition /\ ReadRevision(hist, r) \in Closure \cup {Nothing}
    BY LibraryFacts DEF Document
  <2> DEFINE ask == Request(r.def, ReadRevision(hist, r), e, ok)
  <2>3. ask \in DefRequest /\ ask.def = r.def
    BY <1>2, <2>2 DEF Request, DefRequest
  <2>4. BeginRequest(h, "propose", ask) /\ UNCHANGED queue
    BY <2>1 DEF Revert
  <2> HIDE DEF ask
  <2>5. Publishes("propose", ask)
    BY <2>2, <2>3 DEF Publishes
  <2> QED
    BY <1>1, <1>3, <2>3, <2>4, <2>5
<1> QED
  BY <1>1, <1>6, <1>7, <1>8, <1>9, <1>10 DEF Ask

\* withLibraryMutation takes the lease or refuses.
LEMMA StartKeeps ==
  ASSUME LibraryIInv, NEW h \in Hosts, Start(h)
  PROVE  LibraryIInv' /\ UNCHANGED <<root, hist, current>>
<1> DEFINE kind == Head(queue[h]).kind
           req == Head(queue[h]).req
<1>1. /\ section[h].pc = "idle" /\ queue[h] # <<>> /\ queue' = [queue EXCEPT ![h] = Tail(@)]
      /\ UNCHANGED <<root, hist, current>>
  BY DEF Start, DefAt
<1>2. /\ queue' \in [Hosts -> Seq([kind : {"apply", "publish", "delete"}, req : DefRequest])]
      /\ \A g \in Hosts : \A i \in 1 .. Len(queue'[g]) : Publishes(queue'[g][i].kind, queue'[g][i].req)
      /\ kind \in {"apply", "publish", "delete"} /\ req \in DefRequest /\ Publishes(kind, req)
  BY <1>1, QueueType
<1>3. CASE defLease = Nothing
  <2>1. defLease' = h /\ section' = [section EXCEPT ![h] = Section(kind, req)]
    BY <1>3 DEF Start, BeginRequest
  <2> HIDE DEF kind, req
  <2>2. /\ Section(kind, req) \in SectionRecord /\ Publishes(Section(kind, req).kind, Section(kind, req).req)
        /\ Section(kind, req).pc \notin Saving \cup {"loaded", "prune", "pruned"}
    BY <1>2, BeginType DEF Saving
  <2> QED
    BY <1>1, <1>2, <1>3, <2>1, <2>2, LibraryFacts, SectionKeeps
<1>4. CASE defLease # Nothing
  <2>1. UNCHANGED <<section, defLease>>
    BY <1>4 DEF Start
  <2> HIDE DEF kind, req
  <2> QED
    BY <1>1, <1>2, <2>1 DEF LibraryIInv, LibraryTypes, DeletionFenced, PruneExcess
<1> QED
  BY <1>1, <1>3, <1>4

\* A section that moves, with what it has in hand.
LEMMA Moved ==
  ASSUME NEW h \in Hosts, section[h] \in SectionRecord, Stored \in Document \cup {Nothing}
  PROVE  /\ LET rec == [section[h] EXCEPT !.pc = "loaded", !.stored = Stored] IN
              rec \in SectionRecord /\ rec.kind = section[h].kind /\ rec.req = section[h].req /\ rec.pc = "loaded"
         /\ LET rec == [section[h] EXCEPT !.pc = "load", !.stored = Nothing] IN
              rec \in SectionRecord /\ rec.kind = section[h].kind /\ rec.req = section[h].req /\ rec.pc = "load"
         /\ LET rec == [section[h] EXCEPT !.pc = "clear"] IN
              rec \in SectionRecord /\ rec.kind = section[h].kind /\ rec.req = section[h].req /\ rec.pc = "clear"
<1>1. section[h] \in SectionFields
  BY DEF SectionRecord
<1>2. LET rec == [section[h] EXCEPT !.pc = "loaded", !.stored = Stored] IN
        rec \in SectionRecord /\ rec.kind = section[h].kind /\ rec.req = section[h].req /\ rec.pc = "loaded"
  BY <1>1 DEF SectionFields, SectionRecord
<1>3. LET rec == [section[h] EXCEPT !.pc = "load", !.stored = Nothing] IN
        rec \in SectionRecord /\ rec.kind = section[h].kind /\ rec.req = section[h].req /\ rec.pc = "load"
  BY <1>1 DEF SectionFields, SectionRecord
<1>4. LET rec == [section[h] EXCEPT !.pc = "clear"] IN
        rec \in SectionRecord /\ rec.kind = section[h].kind /\ rec.req = section[h].req /\ rec.pc = "clear"
  BY <1>1 DEF SectionFields, SectionRecord
<1> QED
  BY <1>2, <1>3, <1>4

LEMMA Replays ==
  ASSUME NEW h \in Hosts, section[h] \in SectionRecord, NEW own \in BOOLEAN,
         root.intent.doc \in Document, root.intent.doc.files \in Closure,
         root.intent.cleanup \ root.intent.doc.files \in Closure
  PROVE  LET rec == [section[h] EXCEPT !.pc = "replay", !.own = own,
                       !.rm = root.intent.cleanup \ root.intent.doc.files,
                       !.put = root.intent.doc.files, !.stored = root.intent.doc] IN
         rec \in SectionRecord /\ rec.kind = section[h].kind /\ rec.req = section[h].req /\ rec.pc = "replay"
<1>1. section[h] \in SectionFields
  BY DEF SectionRecord
<1> QED
  BY <1>1 DEF SectionFields, SectionRecord

\* Loading, and the replay of a pending commit.
LEMMA ReplayBegins ==
  ASSUME LibraryIInv, NEW h \in Hosts, NEW own \in BOOLEAN, root.intent # Nothing, BeginReplay(h, own),
         section[h].pc # "idle", UNCHANGED <<root, hist, queue, current>>
  PROVE  LibraryIInv'
<1>0. /\ root \in PackageRoot /\ current \in Document \cup {Nothing}
      /\ hist = [index |-> hist.index, entry |-> hist.entry] /\ hist.index \in Seq(IndexRecord)
      /\ section \in [Hosts -> SectionRecord] /\ section[h] \in SectionRecord
      /\ Publishes(section[h].kind, section[h].req)
      /\ queue \in [Hosts -> Seq([kind : {"apply", "publish", "delete"}, req : DefRequest])]
      /\ \A g \in Hosts : \A i \in 1 .. Len(queue[g]) : Publishes(queue[g][i].kind, queue[g][i].req)
      /\ section[h].kind \in Mutating /\ section[h].pc # "idle" => defLease = h
      /\ section[h].pc \in Saving => section[h].kind = "apply" /\ defLease = h /\ ~root.deleted
      /\ section[h].kind \in Mutating /\ section[h].pc = "loaded" => ~root.deleted
      /\ section[h].pc \in {"prune", "pruned"} => Len(hist.index) + 1 > Retained
      /\ Stored \in Document \cup {Nothing}
      /\ Listed \subseteq Document
      /\ \A r \in Document : ReadRevision(hist, r) \in Closure \cup {Nothing}
  BY LibraryFacts
<1>a. section[h] \in SectionRecord /\ Stored \in Document \cup {Nothing}
  BY <1>0
<1>1. root.intent.doc \in Document /\ root.intent.cleanup \in Closure
  BY <1>0 DEF PackageRoot
<1>2. root.intent.doc.files \in Closure /\ root.intent.cleanup \ root.intent.doc.files \in Closure
  BY <1>0, <1>1 DEF Document, Closure
<1>3. CASE ReadRevision(hist, root.intent.doc) = root.intent.doc.files
  <2> DEFINE rec == [section[h] EXCEPT !.pc = "replay", !.own = own,
                       !.rm = root.intent.cleanup \ root.intent.doc.files,
                       !.put = root.intent.doc.files, !.stored = root.intent.doc]
  <2>1. section' = [section EXCEPT ![h] = rec] /\ defLease' = defLease
    BY <1>0, <1>3 DEF BeginReplay
  <2>2. rec \in SectionRecord /\ rec.kind = section[h].kind /\ rec.req = section[h].req /\ rec.pc = "replay"
    BY <1>a, <1>1, <1>2, Replays
  <2>3. rec.pc \notin Saving \cup {"loaded", "prune", "pruned"}
    BY <1>0, <2>2 DEF Saving
  <2> HIDE DEF rec
  <2> QED
    BY <1>0, <2>1, <2>2, <2>3, SectionMoves
<1>4. CASE ReadRevision(hist, root.intent.doc) # root.intent.doc.files
  BY <1>0, <1>4, EndKeeps DEF BeginReplay
<1> QED
  BY <1>0, <1>3, <1>4

LEMMA LoadKeeps ==
  ASSUME LibraryIInv, NEW h \in Hosts, Load(h)
  PROVE  LibraryIInv' /\ UNCHANGED <<root, hist, current>>
<1>0. /\ root \in PackageRoot /\ current \in Document \cup {Nothing}
      /\ hist = [index |-> hist.index, entry |-> hist.entry] /\ hist.index \in Seq(IndexRecord)
      /\ section \in [Hosts -> SectionRecord] /\ section[h] \in SectionRecord
      /\ Publishes(section[h].kind, section[h].req)
      /\ queue \in [Hosts -> Seq([kind : {"apply", "publish", "delete"}, req : DefRequest])]
      /\ \A g \in Hosts : \A i \in 1 .. Len(queue[g]) : Publishes(queue[g][i].kind, queue[g][i].req)
      /\ section[h].kind \in Mutating /\ section[h].pc # "idle" => defLease = h
      /\ section[h].pc \in Saving => section[h].kind = "apply" /\ defLease = h /\ ~root.deleted
      /\ section[h].kind \in Mutating /\ section[h].pc = "loaded" => ~root.deleted
      /\ section[h].pc \in {"prune", "pruned"} => Len(hist.index) + 1 > Retained
      /\ Stored \in Document \cup {Nothing}
      /\ Listed \subseteq Document
      /\ \A r \in Document : ReadRevision(hist, r) \in Closure \cup {Nothing}
  BY LibraryFacts
<1>a. section[h] \in SectionRecord /\ Stored \in Document \cup {Nothing}
  BY <1>0
<1>1. section[h].pc = "load" /\ UNCHANGED <<root, hist, queue, current>>
  BY <1>0 DEF Load, DefAt
<1>2. CASE root.deleted
  BY <1>0, <1>1, <1>2, EndKeeps DEF Load
<1>3. CASE ~root.deleted /\ root.intent # Nothing
  BY <1>0, <1>1, <1>3, ReplayBegins DEF Load
<1>4. CASE ~root.deleted /\ root.intent = Nothing
  <2> DEFINE rec == [section[h] EXCEPT !.pc = "loaded", !.stored = Stored]
  <2>1. section' = [section EXCEPT ![h] = rec] /\ defLease' = defLease
    BY <1>0, <1>4 DEF Load
  <2>2. rec \in SectionRecord /\ rec.kind = section[h].kind /\ rec.req = section[h].req /\ rec.pc = "loaded"
    BY <1>a, Moved
  <2>3. rec.pc \notin Saving \cup {"prune", "pruned"}
    BY <1>0, <2>2 DEF Saving
  <2> HIDE DEF rec
  <2> QED
    BY <1>0, <1>1, <1>4, <2>1, <2>2, <2>3, SectionMoves
<1> QED
  BY <1>0, <1>1, <1>2, <1>3, <1>4

LEMMA ReplayKeeps ==
  ASSUME LibraryIInv, NEW h \in Hosts,
         (\E p \in Paths : ReplayFile(h, p)) \/ ReplayDefinition(h) \/ ClearIntent(h) \/ Recover(h)
  PROVE  LibraryIInv' /\ UNCHANGED <<hist, current>> /\ root'.deleted = root.deleted
<1>0. /\ root \in PackageRoot /\ current \in Document \cup {Nothing}
      /\ hist = [index |-> hist.index, entry |-> hist.entry] /\ hist.index \in Seq(IndexRecord)
      /\ section \in [Hosts -> SectionRecord] /\ section[h] \in SectionRecord
      /\ Publishes(section[h].kind, section[h].req)
      /\ queue \in [Hosts -> Seq([kind : {"apply", "publish", "delete"}, req : DefRequest])]
      /\ \A g \in Hosts : \A i \in 1 .. Len(queue[g]) : Publishes(queue[g][i].kind, queue[g][i].req)
      /\ section[h].kind \in Mutating /\ section[h].pc # "idle" => defLease = h
      /\ section[h].pc \in Saving => section[h].kind = "apply" /\ defLease = h /\ ~root.deleted
      /\ section[h].kind \in Mutating /\ section[h].pc = "loaded" => ~root.deleted
      /\ section[h].pc \in {"prune", "pruned"} => Len(hist.index) + 1 > Retained
      /\ Stored \in Document \cup {Nothing}
      /\ Listed \subseteq Document
      /\ \A r \in Document : ReadRevision(hist, r) \in Closure \cup {Nothing}
  BY LibraryFacts
<1>a. section[h] \in SectionRecord /\ Stored \in Document \cup {Nothing}
  BY <1>0
<1>1. CASE \E p \in Paths : ReplayFile(h, p)
  <2>1. PICK p \in Paths : ReplayFile(h, p)
    BY <1>0, <1>1
  <2>2. /\ section[h].pc = "replay" /\ UNCHANGED <<hist, queue, defLease, current>>
        /\ root' \in {[root EXCEPT !.files = @ \ {p}], [root EXCEPT !.files = @ \cup {p}]}
    BY <1>0, <2>1 DEF ReplayFile, DefAt
  <2>3. PICK rec \in {[section[h] EXCEPT !.rm = @ \ {p}], [section[h] EXCEPT !.put = @ \ {p}]} :
           section' = [section EXCEPT ![h] = rec]
    BY <1>0, <2>1 DEF ReplayFile
  <2>4. rec \in SectionRecord /\ rec.kind = section[h].kind /\ rec.req = section[h].req /\ rec.pc = "replay"
    <3>1. section[h] \in SectionFields /\ section[h].stored \in Document
      BY <1>0, <2>2 DEF SectionRecord
    <3>2. section[h].rm \ {p} \in Closure /\ section[h].put \ {p} \in Closure
      BY <1>0, <3>1 DEF SectionFields, Closure
    <3>3. /\ rec \in SectionFields /\ rec.stored = section[h].stored
          /\ rec.kind = section[h].kind /\ rec.req = section[h].req /\ rec.pc = section[h].pc
      <4>1. CASE rec = [section[h] EXCEPT !.rm = @ \ {p}]
        BY <1>0, <3>1, <3>2, <4>1 DEF SectionFields
      <4>2. CASE rec = [section[h] EXCEPT !.put = @ \ {p}]
        BY <1>0, <3>1, <3>2, <4>2 DEF SectionFields
      <4> QED
        BY <1>0, <2>3, <4>1, <4>2
    <3> QED
      BY <1>0, <2>2, <3>1, <3>3 DEF SectionRecord
  <2>5. rec.pc \notin Saving \cup {"loaded", "prune", "pruned"}
    BY <1>0, <2>4 DEF Saving
  <2>6. root' \in PackageRoot /\ root'.deleted = root.deleted
    <3>1. CASE root' = [root EXCEPT !.files = @ \ {p}]
      BY <1>0, <3>1 DEF PackageRoot, Closure
    <3>2. CASE root' = [root EXCEPT !.files = @ \cup {p}]
      BY <1>0, <3>2 DEF PackageRoot, Closure
    <3> QED
      BY <1>0, <2>2, <3>1, <3>2
  <2> QED
    BY <1>0, <2>2, <2>3, <2>4, <2>5, <2>6, SectionMoves
<1>2. CASE ReplayDefinition(h)
  <2>1. section[h].pc = "replay" /\ UNCHANGED <<hist, queue, current>>
    BY <1>0, <1>2 DEF ReplayDefinition, DefAt
  <2>2. CASE root.files = section[h].stored.files
    <3> DEFINE rec == [section[h] EXCEPT !.pc = "clear"]
    <3>1. /\ root' = [root EXCEPT !.def = section[h].stored.def]
          /\ section' = [section EXCEPT ![h] = rec] /\ defLease' = defLease
      BY <1>0, <1>2, <2>2 DEF ReplayDefinition, GoTo
    <3>2. rec \in SectionRecord /\ rec.kind = section[h].kind /\ rec.req = section[h].req /\ rec.pc = "clear"
      BY <1>a, Moved
    <3>3. rec.pc \notin Saving \cup {"loaded", "prune", "pruned"}
      BY <1>0, <3>2 DEF Saving
    <3> HIDE DEF rec
    <3>4. section[h].stored.def \in Definition
      BY <1>0, <2>1 DEF SectionRecord, Document
    <3>5. root' \in PackageRoot /\ root'.deleted = root.deleted
      BY <1>0, <3>1, <3>4 DEF PackageRoot
    <3> QED
      BY <1>0, <2>1, <3>1, <3>2, <3>3, <3>5, SectionMoves
  <2>3. CASE root.files # section[h].stored.files
    BY <1>0, <1>2, <2>1, <2>3, EndKeeps DEF ReplayDefinition
  <2> QED
    BY <1>0, <2>2, <2>3
<1>3. CASE ClearIntent(h)
  <2>1. /\ section[h].pc = "clear" /\ UNCHANGED <<hist, queue, current>>
        /\ root' = [root EXCEPT !.intent = Nothing]
    BY <1>0, <1>3 DEF ClearIntent, DefAt
  <2>2. root' \in PackageRoot /\ root'.deleted = root.deleted
    BY <1>0, <2>1 DEF PackageRoot
  <2>3. CASE root.intent = Nothing \/ section[h].own
    BY <1>0, <1>3, <2>1, <2>2, <2>3, EndKeeps DEF ClearIntent
  <2>4. CASE ~(root.intent = Nothing \/ section[h].own)
    <3> DEFINE rec == [section[h] EXCEPT !.pc = "load", !.stored = Nothing]
    <3>1. section' = [section EXCEPT ![h] = rec] /\ defLease' = defLease
      BY <1>0, <1>3, <2>4 DEF ClearIntent
    <3>2. rec \in SectionRecord /\ rec.kind = section[h].kind /\ rec.req = section[h].req /\ rec.pc = "load"
      BY <1>a, Moved
    <3>3. rec.pc \notin Saving \cup {"loaded", "prune", "pruned"}
      BY <1>0, <3>2 DEF Saving
    <3> HIDE DEF rec
    <3> QED
      BY <1>0, <2>1, <2>2, <3>1, <3>2, <3>3, SectionMoves
  <2> QED
    BY <1>0, <2>1, <2>2, <2>3, <2>4
<1>4. CASE Recover(h)
  <2>1. section[h].pc = "recover" /\ UNCHANGED <<root, hist, queue, current>>
    BY <1>0, <1>4 DEF Recover, DefAt
  <2>2. CASE root.intent = Nothing
    BY <1>0, <1>4, <2>1, <2>2, EndKeeps DEF Recover
  <2>3. CASE root.intent # Nothing
    BY <1>0, <1>4, <2>1, <2>3, ReplayBegins DEF Recover
  <2> QED
    BY <1>0, <2>1, <2>2, <2>3
<1> QED
  BY <1>0, <1>1, <1>2, <1>3, <1>4

\* Only the pc moves.
LEMMA PcMoves ==
  ASSUME LibraryIInv, NEW h \in Hosts, section[h].kind = "apply", NEW to \in Saving
  PROVE  LET rec == [section[h] EXCEPT !.pc = to] IN
         rec \in SectionRecord /\ rec.kind = "apply" /\ rec.req = section[h].req /\ rec.pc = to
<1>1. section[h] \in SectionRecord
  BY DEF LibraryIInv, LibraryTypes
<1> QED
  BY <1>1 DEF SectionRecord, SectionFields, Saving

\* The decisions of a section that loaded the package.
LEMMA DecideKeeps ==
  ASSUME LibraryIInv, NEW h \in Hosts,
         DecideProposal(h) \/ EndRead(h) \/ DecideApply(h) \/ DecideDelete(h) \/ DecidePublish(h)
  PROVE  LibraryIInv' /\ Frozen
<1>0. /\ root \in PackageRoot /\ current \in Document \cup {Nothing}
      /\ hist = [index |-> hist.index, entry |-> hist.entry] /\ hist.index \in Seq(IndexRecord)
      /\ section \in [Hosts -> SectionRecord] /\ section[h] \in SectionRecord
      /\ Publishes(section[h].kind, section[h].req)
      /\ queue \in [Hosts -> Seq([kind : {"apply", "publish", "delete"}, req : DefRequest])]
      /\ \A g \in Hosts : \A i \in 1 .. Len(queue[g]) : Publishes(queue[g][i].kind, queue[g][i].req)
      /\ section[h].kind \in Mutating /\ section[h].pc # "idle" => defLease = h
      /\ section[h].pc \in Saving => section[h].kind = "apply" /\ defLease = h /\ ~root.deleted
      /\ section[h].kind \in Mutating /\ section[h].pc = "loaded" => ~root.deleted
      /\ section[h].pc \in {"prune", "pruned"} => Len(hist.index) + 1 > Retained
      /\ Stored \in Document \cup {Nothing}
      /\ Listed \subseteq Document
      /\ \A r \in Document : ReadRevision(hist, r) \in Closure \cup {Nothing}
  BY LibraryFacts
<1>a. section[h] \in SectionRecord /\ Stored \in Document \cup {Nothing}
  BY <1>0
<1>1. CASE DecideProposal(h)
  <2>1. /\ section[h].pc = "loaded" /\ section[h].kind = "propose" /\ End(h)
        /\ root' = [root EXCEPT !.dir = TRUE] /\ UNCHANGED <<hist, current>>
        /\ UNCHANGED queue \/ Enqueue(h, "apply", section[h].req)
    BY <1>0, <1>1 DEF DecideProposal, DefAt
  <2>2. root' \in PackageRoot /\ root'.deleted = root.deleted
    BY <1>0, <2>1 DEF PackageRoot
  <2>3. section[h].req \in DefRequest /\ Publishes("apply", section[h].req)
    BY <1>0, <2>1 DEF Publishes
  <2>4. /\ queue' \in [Hosts -> Seq([kind : {"apply", "publish", "delete"}, req : DefRequest])]
        /\ \A g \in Hosts : \A i \in 1 .. Len(queue'[g]) : Publishes(queue'[g][i].kind, queue'[g][i].req)
    <3>1. CASE UNCHANGED queue
      BY <1>0, <3>1
    <3>2. CASE Enqueue(h, "apply", section[h].req)
      BY <1>0, <2>3, <3>2, QueueType
    <3> QED
      BY <1>0, <2>1, <3>1, <3>2
  <2> QED
    BY <1>0, <2>1, <2>2, <2>4, EndKeeps DEF Frozen
<1>2. CASE EndRead(h)
  BY <1>0, <1>2, EndKeeps DEF EndRead, Frozen
<1>3. CASE DecideApply(h)
  <2>1. /\ section[h].pc = "loaded" /\ section[h].kind = "apply"
        /\ UNCHANGED <<hist, queue, current>>
        /\ root' = [root EXCEPT !.dir = @ \/ Compare(h)]
    BY <1>0, <1>3 DEF DecideApply, DefAt
  <2>2. root' \in PackageRoot /\ root'.deleted = root.deleted
    BY <1>0, <2>1 DEF PackageRoot
  <2>3. CASE Compare(h)
    <3> DEFINE rec == [section[h] EXCEPT !.pc = "entry"]
    <3>1. section' = [section EXCEPT ![h] = rec] /\ defLease' = defLease
      BY <1>0, <1>3, <2>3 DEF DecideApply, GoTo
    <3>2. rec \in SectionRecord /\ rec.kind = "apply" /\ rec.req = section[h].req /\ rec.pc = "entry"
      BY <1>0, <2>1, PcMoves DEF Saving
    <3>3. ~root.deleted
      BY <1>0, <2>1 DEF Mutating
    <3> HIDE DEF rec
    <3> QED
      BY <1>0, <2>1, <2>2, <3>1, <3>2, <3>3, SectionMoves DEF Frozen
  <2>4. CASE ~Compare(h)
    BY <1>0, <1>3, <2>1, <2>2, <2>4, EndKeeps DEF DecideApply, Frozen
  <2> QED
    BY <1>0, <2>3, <2>4
<1>4. CASE DecideDelete(h)
  <2>1. /\ section[h].pc = "loaded" /\ section[h].kind = "delete" /\ End(h)
        /\ root' = [root EXCEPT !.deleted = section[h].stored # Nothing /\ Compare(h)]
        /\ UNCHANGED <<hist, queue, current>>
    BY <1>0, <1>4 DEF DecideDelete, DefAt
  <2>2. root' \in PackageRoot
    BY <1>0, <2>1 DEF PackageRoot
  <2>3. ~root.deleted /\ defLease = h
    BY <1>0, <2>1 DEF Mutating
  <2> QED
    BY <1>0, <2>1, <2>2, <2>3, EndKeeps DEF Frozen
<1>5. CASE DecidePublish(h)
  <2>1. /\ section[h].pc = "loaded" /\ section[h].kind = "publish" /\ End(h) /\ UNCHANGED queue
    BY <1>0, <1>5 DEF DecidePublish, DefAt
  <2>2. ~root.deleted /\ defLease = h
    BY <1>0, <2>1 DEF Mutating
  <2>3. CASE section[h].stored # Nothing \/ root.dir
    <3>1. UNCHANGED <<root, hist, current>>
      BY <1>0, <1>5, <2>3 DEF DecidePublish
    <3> QED
      BY <1>0, <2>1, <3>1, EndKeeps DEF Frozen
  <2>4. CASE ~(section[h].stored # Nothing \/ root.dir)
    <3> DEFINE doc == Candidate(h)
    <3>1. /\ root' = [root EXCEPT !.def = doc.def, !.files = doc.files, !.dir = TRUE]
          /\ hist' = [index |-> <<[revision |-> doc, parent |-> Nothing]>>,
                      entry |-> [r \in {doc} |-> [parent |-> Nothing, files |-> doc.files]]]
          /\ current' = doc
      BY <1>0, <1>5, <2>4 DEF DecidePublish
    <3>2. section[h].req \in DefRequest /\ section[h].req.def \in Definition
      BY <1>0, <2>1 DEF Publishes
    <3>3. doc \in Document
      <4>1. root.files \in Closure /\ section[h].req.files \in Closure \cup {Nothing}
        BY <1>0, <3>2 DEF DefRequest, PackageRoot
      <4> QED
        BY <1>0, <3>2, <4>1 DEF Candidate, Document
    <3> HIDE DEF doc
    <3>4. root' \in PackageRoot /\ root'.deleted = root.deleted
      BY <1>0, <3>1, <3>3 DEF PackageRoot, Document
    <3>5. hist' = [index |-> hist'.index, entry |-> hist'.entry] /\ hist'.index \in Seq(IndexRecord)
      BY <1>0, <3>1, <3>3 DEF IndexRecord
    <3>6. /\ section' = [section EXCEPT ![h] = IdleRequest]
          /\ defLease' = defLease \/ defLease \in {Nothing, h}
      BY <1>0, <2>1 DEF End
    <3>7. IdleRequest.kind \notin Mutating /\ IdleRequest.pc \notin Saving \cup {"loaded", "prune", "pruned"}
      BY <1>0, IdleType DEF Mutating, Saving
    <3> QED
      BY <1>0, <2>1, <2>2, <3>1, <3>3, <3>4, <3>5, <3>6, <3>7, IdleType, SectionKeeps DEF Frozen
  <2> QED
    BY <1>0, <2>3, <2>4
<1> QED
  BY <1>0, <1>1, <1>2, <1>3, <1>4, <1>5

\* The document a save would publish.
LEMMA CandidateType ==
  ASSUME LibraryIInv, NEW h \in Hosts, section[h].kind = "apply"
  PROVE  /\ Candidate(h) \in Document /\ section[h].req.def \in Definition
         /\ section[h].req.files = Nothing => Candidate(h).files = root.files
<1>1. section[h].req \in DefRequest /\ section[h].req.def \in Definition /\ root \in PackageRoot
  BY DEF LibraryIInv, LibraryTypes, Publishes
<1>2. root.files \in Closure /\ section[h].req.files \in Closure \cup {Nothing}
  BY <1>1 DEF DefRequest, PackageRoot
<1> QED
  BY <1>1, <1>2 DEF Candidate, Document

\* The entry files with one written over.
Overwritten(entry, r, e) == [x \in DOMAIN entry \cup {r} |-> IF x = r THEN e ELSE entry[x]]

\* A step to another point of the save that writes history.
LEMMA SaveKeeps ==
  ASSUME LibraryIInv, NEW h \in Hosts, NEW rec \in SectionRecord,
         section[h].pc \in Saving, UNCHANGED <<root, queue, defLease, current>>,
         section' = [section EXCEPT ![h] = rec],
         rec.kind = "apply", rec.req = section[h].req, rec.pc \in Saving,
         NEW index \in Seq(IndexRecord), NEW entry, hist' = [index |-> index, entry |-> entry],
         rec.pc \in {"prune", "pruned"} => Len(index) + 1 > Retained
  PROVE  LibraryIInv' /\ Frozen
<1>1. section[h].kind = "apply" /\ defLease = h /\ ~root.deleted
  BY LibraryFacts
<1>2. Publishes(rec.kind, rec.req)
  BY <1>1 DEF LibraryIInv, LibraryTypes
<1>3. root' \in PackageRoot /\ root'.deleted = root.deleted /\ ~root'.deleted /\ defLease' = h
  BY <1>1 DEF LibraryIInv, LibraryTypes
<1>4. /\ queue' \in [Hosts -> Seq([kind : {"apply", "publish", "delete"}, req : DefRequest])]
      /\ \A g \in Hosts : \A i \in 1 .. Len(queue'[g]) : Publishes(queue'[g][i].kind, queue'[g][i].req)
      /\ current' \in Document \cup {Nothing}
  BY DEF LibraryIInv, LibraryTypes
<1>5. /\ hist' = [index |-> hist'.index, entry |-> hist'.entry] /\ hist'.index \in Seq(IndexRecord)
      /\ rec.pc \in {"prune", "pruned"} => Len(hist'.index) + 1 > Retained
  OBVIOUS
<1>6. LibraryIInv'
  BY <1>1, <1>2, <1>3, <1>4, <1>5, SectionKeeps
<1> QED
  BY <1>1, <1>6 DEF Frozen

\* The index a save would write.
LEMMA NextIndexType ==
  ASSUME LibraryIInv, NEW h \in Hosts, section[h].kind = "apply"
  PROVE  /\ NextIndex(h) \in Seq(IndexRecord) /\ Len(NextIndex(h)) = Len(hist.index) + 1
         /\ Len(hist.index) \in Nat
<1> DEFINE item == [revision |-> Candidate(h), parent |-> section[h].stored]
<1>1. section[h].stored \in Document \cup {Nothing} /\ hist.index \in Seq(IndexRecord)
  BY DEF LibraryIInv, LibraryTypes, SectionRecord, SectionFields
<1>2. item \in IndexRecord
  BY <1>1, CandidateType DEF IndexRecord
<1>3. NextIndex(h) = Append(hist.index, item)
  BY DEF NextIndex
<1> HIDE DEF item
<1> QED
  BY <1>1, <1>2, <1>3, AppendProperties, LenProperties

\* appendRevisionHistory.
LEMMA HistoryKeeps ==
  ASSUME LibraryIInv, NEW h \in Hosts,
         AppendEntry(h) \/ Materialize(h) \/ KeepAll(h) \/ WriteIndex(h)
           \/ \E gone \in SUBSET section[h].drop : DropEntries(h, gone)
  PROVE  LibraryIInv' /\ Frozen
<1>1. section[h].pc \in Saving /\ UNCHANGED <<root, queue, defLease, current>>
  BY DEF AppendEntry, Materialize, KeepAll, WriteIndex, DropEntries, DefAt, Saving
<1>2. section[h].kind = "apply" /\ section[h] \in SectionRecord
  BY <1>1, LibraryFacts
<1>3. /\ hist = [index |-> hist.index, entry |-> hist.entry] /\ hist.index \in Seq(IndexRecord)
      /\ section[h].pc \in {"prune", "pruned"} => Len(hist.index) + 1 > Retained
  BY DEF LibraryIInv, LibraryTypes, PruneExcess
<1>4. \A x : [hist EXCEPT !.entry = x] = [index |-> hist.index, entry |-> x]
  BY <1>3
<1>5. ASSUME NEW to \in Saving, GoTo(h, to), NEW x, hist' = hist \/ hist' = [hist EXCEPT !.entry = x],
             to \in {"prune", "pruned"} => Len(hist.index) + 1 > Retained
      PROVE  LibraryIInv' /\ Frozen
  <2> DEFINE rec == [section[h] EXCEPT !.pc = to]
  <2>1. rec \in SectionRecord /\ rec.kind = "apply" /\ rec.req = section[h].req /\ rec.pc = to
    BY <1>2, PcMoves
  <2>2. section' = [section EXCEPT ![h] = rec]
    BY <1>5 DEF GoTo
  <2> HIDE DEF rec
  <2>3. CASE hist' = hist
    <3>1. hist' = [index |-> hist.index, entry |-> hist.entry]
      BY <1>3, <2>3
    <3> QED
      BY <1>1, <1>3, <1>5, <2>1, <2>2, <3>1, SaveKeeps
  <2>4. CASE hist' = [hist EXCEPT !.entry = x]
    <3>1. hist' = [index |-> hist.index, entry |-> x]
      BY <1>4, <2>4
    <3> QED
      BY <1>1, <1>3, <1>5, <2>1, <2>2, <3>1, SaveKeeps
  <2> QED
    BY <1>5, <2>3, <2>4
<1>6. CASE AppendEntry(h)
  <2> DEFINE doc == Candidate(h)
             x == Overwritten(hist.entry, doc, [parent |-> section[h].stored, files |-> EntryFiles(h)])
  <2>1. CASE InIndex(hist, doc)
    <3>1. GoTo(h, "publish") /\ hist' = hist /\ "publish" \in Saving
      BY <1>6, <2>1 DEF AppendEntry, Saving
    <3> QED
      BY <3>1, <1>5
  <2>2. CASE ~InIndex(hist, doc)
    <3>1. hist' = [hist EXCEPT !.entry = x]
      BY <1>6, <2>2 DEF AppendEntry, WithEntry, Overwritten
    <3> HIDE DEF x
    <3>2. CASE Len(hist.index) + 1 > Retained + Slack
      <4>1. GoTo(h, "prune") /\ "prune" \in Saving
        BY <1>6, <2>2, <3>2 DEF AppendEntry, Saving
      <4>2. Len(hist.index) + 1 > Retained
        BY <1>2, <3>2, NextIndexType, DefinitionConstants
      <4> QED
        BY <1>5, <3>1, <4>1, <4>2
    <3>3. CASE ~(Len(hist.index) + 1 > Retained + Slack)
      <4>1. GoTo(h, "index") /\ "index" \in Saving
        BY <1>6, <2>2, <3>3 DEF AppendEntry, Saving
      <4> QED
        BY <1>5, <3>1, <4>1
    <3> QED
      BY <3>2, <3>3
  <2> QED
    BY <2>1, <2>2
<1>7. CASE Materialize(h)
  <2>1. PICK x : /\ section[h].pc = "prune"
                 /\ GoTo(h, "pruned") \/ UNCHANGED section
                 /\ hist' = hist \/ hist' = [hist EXCEPT !.entry = x]
    BY <1>7 DEF Materialize, WithEntry, DefAt
  <2>2. CASE GoTo(h, "pruned")
    <3>1. "pruned" \in Saving
      BY DEF Saving
    <3> QED
      BY <1>3, <1>5, <2>1, <2>2, <3>1
  <2>3. CASE UNCHANGED section
    <3>1. GoTo(h, "prune") /\ "prune" \in Saving
      <4>1. section = [section EXCEPT ![h].pc = "prune"]
        <5>1. section \in [Hosts -> SectionRecord]
          BY DEF LibraryIInv, LibraryTypes
        <5>2. section[h] = [section[h] EXCEPT !.pc = "prune"]
          BY <1>2, <2>1 DEF SectionRecord, SectionFields
        <5> QED
          BY <5>1, <5>2
      <4> QED
        BY <2>3, <4>1 DEF GoTo, Saving
    <3> QED
      BY <1>3, <1>5, <2>1, <3>1
  <2> QED
    BY <2>1, <2>2, <2>3
<1>8. CASE KeepAll(h)
  <2>1. GoTo(h, "index") /\ hist' = hist /\ "index" \in Saving
    BY <1>8 DEF KeepAll, Saving
  <2> QED
    BY <1>5, <2>1
<1>9. CASE WriteIndex(h)
  <2>1. NextIndex(h) \in Seq(IndexRecord) /\ Len(NextIndex(h)) = Len(hist.index) + 1 /\ Len(hist.index) \in Nat
    BY <1>2, NextIndexType
  <2>2. CASE section[h].pc = "index"
    <3> DEFINE rec == [section[h] EXCEPT !.pc = "publish"]
    <3>1. section' = [section EXCEPT ![h] = rec] /\ hist' = [hist EXCEPT !.index = NextIndex(h)]
      BY <1>9, <2>2 DEF WriteIndex, DefAt, GoTo
    <3>2. hist' = [index |-> NextIndex(h), entry |-> hist.entry]
      BY <1>3, <3>1
    <3>3. rec \in SectionRecord /\ rec.kind = "apply" /\ rec.req = section[h].req /\ rec.pc = "publish" /\ rec.pc \in Saving
      BY <1>2, PcMoves DEF Saving
    <3> HIDE DEF rec
    <3> QED
      BY <1>1, <2>1, <3>1, <3>2, <3>3, SaveKeeps
  <2>3. CASE section[h].pc # "index"
    <3> DEFINE rec == [section[h] EXCEPT !.pc = "drop", !.drop = Dropped(h)]
    <3>1. /\ section[h].pc = "pruned" /\ hist' = [hist EXCEPT !.index = KeptIndex(h)]
          /\ section' = [section EXCEPT ![h] = rec]
      BY <1>9, <2>3 DEF WriteIndex, DefAt
    <3>2. Excess(h) \in Nat \ {0} /\ Excess(h) <= Len(NextIndex(h))
      BY <1>3, <2>1, <3>1, DefinitionConstants DEF Excess
    <3>3. \A i \in 1 .. Len(NextIndex(h)) : NextIndex(h)[i] \in IndexRecord
      BY <2>1, ElementOfSeq
    <3>4. Dropped(h) \subseteq Document
      <4>1. \A i \in 1 .. Excess(h) : i \in 1 .. Len(NextIndex(h))
        BY <2>1, <3>2
      <4>2. \A i \in 1 .. Len(NextIndex(h)) : NextIndex(h)[i].revision \in Document
        BY <3>3 DEF IndexRecord
      <4> QED
        BY <4>1, <4>2 DEF Dropped
    <3>5. KeptIndex(h) \in Seq(IndexRecord)
      <4>1. Excess(h) + 1 \in Int /\ Len(NextIndex(h)) \in Int
        BY <2>1, <3>2
      <4>2. \A i \in Excess(h) + 1 .. Len(NextIndex(h)) : NextIndex(h)[i] \in IndexRecord
        BY <2>1, <3>2, <3>3
      <4> QED
        BY <4>1, <4>2, SubSeqProperties DEF KeptIndex
    <3>6. rec \in SectionRecord /\ rec.kind = "apply" /\ rec.req = section[h].req /\ rec.pc = "drop" /\ rec.pc \in Saving
      BY <1>2, <3>4 DEF SectionRecord, SectionFields, Saving
    <3>7. hist' = [index |-> KeptIndex(h), entry |-> hist.entry]
      BY <1>3, <3>1
    <3> HIDE DEF rec
    <3> QED
      BY <1>1, <3>1, <3>5, <3>6, <3>7, SaveKeeps
  <2> QED
    BY <2>2, <2>3
<1>10. CASE \E gone \in SUBSET section[h].drop : DropEntries(h, gone)
  <2> DEFINE rec == [section[h] EXCEPT !.pc = "publish", !.drop = {}]
  <2>0. PICK gone \in SUBSET section[h].drop : DropEntries(h, gone)
    BY <1>10
  <2> DEFINE x == [r \in DOMAIN hist.entry \ gone |-> hist.entry[r]]
  <2>1. section' = [section EXCEPT ![h] = rec] /\ hist' = [hist EXCEPT !.entry = x]
    BY <2>0 DEF DropEntries
  <2> HIDE DEF x
  <2>2. hist' = [index |-> hist.index, entry |-> x]
    BY <1>4, <2>1
  <2>3. rec \in SectionRecord /\ rec.kind = "apply" /\ rec.req = section[h].req /\ rec.pc = "publish" /\ rec.pc \in Saving
    BY <1>2 DEF SectionRecord, SectionFields, Saving
  <2> HIDE DEF rec
  <2> QED
    BY <1>1, <1>3, <2>1, <2>2, <2>3, SaveKeeps
<1> QED
  BY <1>6, <1>7, <1>8, <1>9, <1>10

\* Publication makes the candidate current.
LEMMA PublishKeeps ==
  ASSUME LibraryIInv, NEW h \in Hosts, RenameDefinition(h) \/ WriteIntent(h)
  PROVE  /\ LibraryIInv' /\ Frozen /\ current' = Candidate(h)
         /\ RenameDefinition(h) => root' = [root EXCEPT !.def = Candidate(h).def] /\ Candidate(h).files = root.files
<1>1. section[h].pc = "publish" /\ UNCHANGED <<hist, queue>> /\ current' = Candidate(h)
  BY DEF RenameDefinition, WriteIntent, DefAt
<1>2. /\ section[h].kind = "apply" /\ defLease = h /\ ~root.deleted /\ root \in PackageRoot
      /\ queue \in [Hosts -> Seq([kind : {"apply", "publish", "delete"}, req : DefRequest])]
      /\ \A g \in Hosts : \A i \in 1 .. Len(queue[g]) : Publishes(queue[g][i].kind, queue[g][i].req)
      /\ section[h] \in SectionRecord /\ Publishes(section[h].kind, section[h].req)
  BY <1>1, LibraryFacts DEF Saving
<1>3. /\ Candidate(h) \in Document /\ section[h].req.def \in Definition
      /\ section[h].req.files = Nothing => Candidate(h).files = root.files
  BY <1>2, CandidateType
<1>4. Candidate(h).def = section[h].req.def
  BY DEF Candidate
<1>5. CASE RenameDefinition(h)
  <2>1. End(h) /\ root' = [root EXCEPT !.def = section[h].req.def] /\ section[h].req.files = Nothing
    BY <1>5 DEF RenameDefinition
  <2>2. root' \in PackageRoot /\ root'.deleted = root.deleted
    BY <1>2, <1>3, <2>1 DEF PackageRoot
  <2>3. LibraryIInv'
    BY <1>1, <1>2, <1>3, <2>1, <2>2, EndKeeps
  <2> QED
    BY <1>1, <1>2, <1>3, <1>4, <2>1, <2>3 DEF Frozen
<1>6. CASE WriteIntent(h)
  <2> DEFINE rec == [section[h] EXCEPT !.pc = "recover"]
             intent == [doc |-> Candidate(h), cleanup |-> root.files]
  <2>1. section' = [section EXCEPT ![h] = rec] /\ root' = [root EXCEPT !.intent = intent] /\ defLease' = defLease
    BY <1>6 DEF WriteIntent, GoTo
  <2>2. intent \in [doc : Document, cleanup : Closure]
    BY <1>2, <1>3 DEF PackageRoot
  <2>3. rec \in SectionRecord /\ rec.kind = "apply" /\ rec.req = section[h].req /\ rec.pc = "recover"
    BY <1>2 DEF SectionRecord, SectionFields
  <2>4. rec.pc \notin Saving \cup {"loaded", "prune", "pruned"}
    BY <2>3 DEF Saving
  <2> HIDE DEF rec, intent
  <2>5. root' \in PackageRoot /\ root'.deleted = root.deleted
    BY <1>2, <2>1, <2>2 DEF PackageRoot
  <2>6. LibraryIInv'
    BY <1>1, <1>2, <1>3, <2>1, <2>3, <2>4, <2>5, SectionMoves
  <2>7. ~RenameDefinition(h)
    BY <1>6 DEF RenameDefinition, WriteIntent
  <2> QED
    BY <1>1, <1>2, <2>6, <2>7 DEF Frozen
<1> QED
  BY <1>5, <1>6

\* A failure or a crash ends a section.
LEMMA FaultKeeps ==
  ASSUME LibraryIInv, NEW h \in Hosts, Fail(h) \/ Crash(h)
  PROVE  LibraryIInv' /\ UNCHANGED <<root, hist, current>> /\ End(h)
<1>1. UNCHANGED <<root, hist, current>> /\ End(h) /\ (queue' = queue \/ queue' = [queue EXCEPT ![h] = <<>>])
  BY DEF Fail, Crash
<1>2. /\ queue \in [Hosts -> Seq([kind : {"apply", "publish", "delete"}, req : DefRequest])]
      /\ \A g \in Hosts : \A i \in 1 .. Len(queue[g]) : Publishes(queue[g][i].kind, queue[g][i].req)
      /\ root \in PackageRoot /\ current \in Document \cup {Nothing}
  BY DEF LibraryIInv, LibraryTypes
<1>3. /\ queue' \in [Hosts -> Seq([kind : {"apply", "publish", "delete"}, req : DefRequest])]
      /\ \A g \in Hosts : \A i \in 1 .. Len(queue'[g]) : Publishes(queue'[g][i].kind, queue'[g][i].req)
  <2>1. CASE queue' = queue
    BY <1>2, <2>1
  <2>2. CASE queue' = [queue EXCEPT ![h] = <<>>]
    <3>1. queue'[h] = <<>> /\ \A g \in Hosts : g # h => queue'[g] = queue[g]
      BY <1>2, <2>2
    <3>2. <<>> \in Seq([kind : {"apply", "publish", "delete"}, req : DefRequest]) /\ Len(<<>>) = 0
      OBVIOUS
    <3>3. queue' \in [Hosts -> Seq([kind : {"apply", "publish", "delete"}, req : DefRequest])]
      BY <1>2, <2>2, <3>2
    <3>4. ASSUME NEW g \in Hosts, NEW i \in 1 .. Len(queue'[g])
          PROVE  Publishes(queue'[g][i].kind, queue'[g][i].req)
      <4>1. g # h
        BY <3>1, <3>2
      <4>2. queue'[g] = queue[g]
        BY <3>1, <4>1
      <4> QED
        BY <1>2, <4>2
    <3> QED
      BY <3>3, <3>4
  <2> QED
    BY <1>1, <2>1, <2>2
<1> QED
  BY <1>1, <1>2, <1>3, EndKeeps

\* A hand edit happens while every section is idle.
LEMMA EditKeeps ==
  ASSUME LibraryIInv, NEW p \in Paths, OutsideEdit(p)
  PROVE  /\ LibraryIInv' /\ Frozen /\ UNCHANGED section
         /\ root'.intent = root.intent /\ root.def # Nothing /\ root'.def = root.def
         /\ root.intent = Nothing => current' = [def |-> root.def, files |-> root'.files]
         /\ root.intent # Nothing => current' = current
<1>1. /\ root.def # Nothing /\ UNCHANGED <<hist, queue, section, defLease>>
      /\ root' = [root EXCEPT !.files = IF p \in @ THEN @ \ {p} ELSE @ \cup {p}]
      /\ current' = IF root.intent = Nothing THEN [def |-> root.def, files |-> root'.files] ELSE current
  BY DEF OutsideEdit
<1>2. root \in PackageRoot /\ current \in Document \cup {Nothing}
  BY DEF LibraryIInv, LibraryTypes
<1>3. /\ root' \in PackageRoot /\ root'.files \in Closure
      /\ root'.intent = root.intent /\ root'.def = root.def /\ root'.deleted = root.deleted
  BY <1>1, <1>2 DEF PackageRoot, Closure
<1>4. current' \in Document \cup {Nothing}
  BY <1>1, <1>2, <1>3 DEF PackageRoot, Document
<1>5. LibraryIInv'
  BY <1>1, <1>3, <1>4 DEF LibraryIInv, LibraryTypes, DeletionFenced, PruneExcess
<1> QED
  BY <1>1, <1>3, <1>5 DEF Frozen

LEMMA LibraryStep == LibraryIInv /\ [DefNext]_defVars => LibraryIInv' /\ Frozen
<1> SUFFICES ASSUME LibraryIInv, [DefNext]_defVars
             PROVE  LibraryIInv' /\ Frozen
  OBVIOUS
<1>1. ASSUME UNCHANGED <<root, hist, current>>
      PROVE  Frozen
  BY <1>1 DEF Frozen
<1>2. ASSUME NEW h \in Hosts, Ask(h) \/ Start(h) \/ Fail(h) \/ Crash(h)
      PROVE  LibraryIInv' /\ Frozen
  BY <1>1, <1>2, AskKeeps, StartKeeps, FaultKeeps
<1>3. ASSUME NEW h \in Hosts, SectionStep(h)
      PROVE  LibraryIInv' /\ Frozen
  <2>1. CASE Load(h)
    BY <1>1, <2>1, LoadKeeps
  <2>2. CASE (\E p \in Paths : ReplayFile(h, p)) \/ ReplayDefinition(h) \/ ClearIntent(h) \/ Recover(h)
    BY <2>2, ReplayKeeps DEF Frozen, LibraryIInv, LibraryTypes, PackageRoot
  <2>3. CASE DecideProposal(h) \/ EndRead(h) \/ DecideApply(h) \/ DecideDelete(h) \/ DecidePublish(h)
    BY <2>3, DecideKeeps
  <2>4. CASE AppendEntry(h) \/ Materialize(h) \/ KeepAll(h) \/ WriteIndex(h)
               \/ \E gone \in SUBSET section[h].drop : DropEntries(h, gone)
    BY <2>4, HistoryKeeps
  <2>5. CASE RenameDefinition(h) \/ WriteIntent(h)
    BY <2>5, PublishKeeps
  <2> QED
    BY <1>3, <2>1, <2>2, <2>3, <2>4, <2>5 DEF SectionStep
<1>4. CASE \E p \in Paths : OutsideEdit(p)
  BY <1>4, EditKeeps
<1>5. CASE UNCHANGED defVars
  BY <1>5 DEF defVars, Frozen, LibraryIInv, LibraryTypes, DeletionFenced, PruneExcess, Stored, Listed
<1> QED
  BY <1>2, <1>3, <1>4, <1>5 DEF DefNext

LEMMA LibraryInit == DefInit => LibraryIInv
<1> SUFFICES ASSUME DefInit PROVE LibraryIInv
  OBVIOUS
<1>1. EmptyRoot \in PackageRoot
  BY DEF EmptyRoot, PackageRoot, Closure
<1>2. \A h \in Hosts : section[h] = IdleRequest
  BY DEF DefInit
<1>3. hist = [index |-> hist.index, entry |-> hist.entry] /\ hist.index = <<>>
  BY DEF DefInit
<1>4. LibraryTypes
  <2>1. section \in [Hosts -> SectionRecord] /\ \A h \in Hosts : Publishes(section[h].kind, section[h].req)
    BY <1>2, IdleType DEF DefInit
  <2>2. /\ queue \in [Hosts -> Seq([kind : {"apply", "publish", "delete"}, req : DefRequest])]
        /\ \A h \in Hosts : Len(queue[h]) = 0
    BY DEF DefInit
  <2> QED
    BY <1>1, <1>3, <2>1, <2>2 DEF LibraryTypes, DefInit
<1>5. DeletionFenced /\ PruneExcess
  BY <1>2, IdleType DEF DeletionFenced, PruneExcess, Mutating, Saving
<1> QED
  BY <1>4, <1>5 DEF LibraryIInv

\* What is deleted is frozen, for any number of hosts: no request already
\* queued, no replay of a pending commit and no first save brings the package
\* back or touches its history (assertDefinitionActive, deleteDefinition).
THEOREM DeletedFrozen == DefSpec => DeletedStays
<1>1. LibraryIInv /\ [DefNext]_defVars => LibraryIInv'
  BY LibraryStep
<1>2. LibraryIInv /\ [DefNext]_defVars =>
        [root.deleted => /\ root'.deleted
                         /\ hist' = hist
                         /\ current' # current => UNCHANGED section]_defVars
  BY LibraryStep DEF Frozen
<1> QED
  BY <1>1, <1>2, LibraryInit, PTL DEF DefSpec, DeletedStays

-----------------------------------------------------------------------------
(* What a load returns and a save replaces.                                   *)

\* While nothing is pending, a step of one host leaves what another has in hand:
\* either it mutates under the lease, or it leaves the document alone.
LEMMA OthersWhole ==
  ASSUME LibraryIInv, LibraryWhole, Exclusive, NEW h \in Hosts, NEW g \in Hosts, g # h,
         section'[g] = section[g],
         \/ section[h].kind \in Mutating /\ section[h].pc # "idle"
         \/ UNCHANGED current /\ root'.intent = root.intent
  PROVE  HostWhole(g)'
<1>1. ~OneHost /\ root.intent = Nothing
  BY DEF OneHost, Exclusive
<1>2. section[g].pc \notin {"replay", "clear"}
  BY <1>1 DEF LibraryWhole, HostWhole
<1>3. section[g].pc \in Saving => section[g].kind \in Mutating /\ section[g].pc # "idle"
  BY DEF LibraryIInv, DeletionFenced, Mutating, Saving
<1>4. CASE section[h].kind \in Mutating /\ section[h].pc # "idle"
  <2>1. ~(section[g].kind \in Mutating /\ section[g].pc # "idle")
    BY <1>4 DEF LibraryIInv, DeletionFenced
  <2>2. section[g].pc \in Saving \cup {"loaded"} => section[g].pc # "idle"
    BY DEF Saving
  <2>3. OneHost' = OneHost
    BY DEF OneHost
  <2> QED
    BY <1>1, <1>2, <1>3, <2>1, <2>2, <2>3 DEF HostWhole
<1>5. CASE UNCHANGED current /\ root'.intent = root.intent
  <2>1. OneHost' = OneHost
    BY DEF OneHost
  <2>2. HostWhole(g)
    BY DEF LibraryWhole
  <2> QED
    BY <1>1, <1>2, <1>5, <2>1, <2>2 DEF HostWhole
<1> QED
  BY <1>4, <1>5

LEMMA WholeStep ==
  ASSUME LibraryIInv, LibraryWhole, Exclusive, NEW h \in Hosts, NEW rec,
         section' = [section EXCEPT ![h] = rec],
         \/ section[h].kind \in Mutating /\ section[h].pc # "idle"
         \/ UNCHANGED current /\ root'.intent = root.intent,
         StandsFor', section'[h] = rec => HostWhole(h)'
  PROVE  LibraryWhole'
<1>1. section'[h] = rec /\ \A g \in Hosts : g # h => section'[g] = section[g]
  BY DEF LibraryIInv, LibraryTypes
<1>2. \A g \in Hosts : HostWhole(g)'
  BY <1>1, OthersWhole
<1> QED
  BY <1>2 DEF LibraryWhole

LEMMA EndWhole ==
  ASSUME LibraryIInv, LibraryWhole, Exclusive, NEW h \in Hosts, End(h),
         \/ section[h].kind \in Mutating /\ section[h].pc # "idle"
         \/ UNCHANGED current /\ root'.intent = root.intent,
         StandsFor'
  PROVE  LibraryWhole'
<1>1. section' = [section EXCEPT ![h] = IdleRequest]
  BY DEF End
<1>2. section'[h] = IdleRequest => HostWhole(h)'
  BY IdleType DEF HostWhole, Saving
<1> QED
  BY <1>1, <1>2, WholeStep

\* Requests, starts, failures and crashes leave the document alone.
LEMMA RequestWhole ==
  ASSUME LibraryIInv, LibraryWhole, Exclusive, NEW h \in Hosts, Ask(h) \/ Start(h) \/ Fail(h) \/ Crash(h)
  PROVE  LibraryWhole' /\ UNCHANGED current
<1>1. UNCHANGED <<root, current>>
  BY AskKeeps, StartKeeps, FaultKeeps
<1>2. StandsFor'
  BY <1>1 DEF LibraryWhole, StandsFor, Stored
<1>3. CASE Fail(h) \/ Crash(h)
  BY <1>1, <1>2, <1>3, FaultKeeps, EndWhole
<1>4. CASE Ask(h) \/ Start(h)
  <2>1. section' = section \/ \E kind, req : section' = [section EXCEPT ![h] = Section(kind, req)]
    <3>1. CASE Start(h)
      BY <3>1 DEF Start, BeginRequest
    <3>2. CASE Ask(h)
      BY <3>2 DEF Ask, Read, CreateDefinition, CreateBlueprint, DeleteDefinition, Propose, Revert, BeginRequest
    <3> QED
      BY <1>4, <3>1, <3>2
  <2>2. CASE section' = section
    BY <1>1, <2>2 DEF LibraryWhole, HostWhole, StandsFor, Stored, OneHost
  <2>3. CASE \E kind, req : section' = [section EXCEPT ![h] = Section(kind, req)]
    <3>1. PICK kind, req : section' = [section EXCEPT ![h] = Section(kind, req)]
      BY <2>3
    <3>2. Section(kind, req).pc = "load"
      BY DEF Section
    <3>3. section'[h] = Section(kind, req) => HostWhole(h)'
      BY <3>2 DEF HostWhole, Saving
    <3> QED
      BY <1>1, <1>2, <3>1, <3>3, WholeStep
  <2> QED
    BY <2>1, <2>2, <2>3
<1> QED
  BY <1>1, <1>3, <1>4

LEMMA ReplayStartWhole ==
  ASSUME LibraryIInv, LibraryWhole, Exclusive, NEW h \in Hosts, NEW own \in BOOLEAN, root.intent # Nothing,
         BeginReplay(h, own), UNCHANGED <<root, current>>
  PROVE  LibraryWhole'
<1>1. StandsFor'
  BY DEF LibraryWhole, StandsFor, Stored
<1>2. CASE ReadRevision(hist, root.intent.doc) = root.intent.doc.files
  <2> DEFINE rec == [section[h] EXCEPT !.pc = "replay", !.own = own,
                       !.rm = root.intent.cleanup \ root.intent.doc.files,
                       !.put = root.intent.doc.files, !.stored = root.intent.doc]
  <2>1. section' = [section EXCEPT ![h] = rec]
    BY <1>2 DEF BeginReplay
  <2>2. rec.pc = "replay" /\ rec.stored = root.intent.doc
    BY DEF LibraryIInv, LibraryTypes, SectionRecord, SectionFields
  <2> HIDE DEF rec
  <2>3. section'[h] = rec => HostWhole(h)'
    BY <2>2 DEF HostWhole, Saving
  <2> QED
    BY <1>1, <2>1, <2>3, WholeStep
<1>3. CASE ReadRevision(hist, root.intent.doc) # root.intent.doc.files
  <2>1. End(h)
    BY <1>3 DEF BeginReplay
  <2> QED
    BY <1>1, <2>1, EndWhole
<1> QED
  BY <1>2, <1>3

LEMMA LoadWhole ==
  ASSUME LibraryIInv, LibraryWhole, Exclusive, NEW h \in Hosts, Load(h)
  PROVE  LibraryWhole' /\ UNCHANGED current
<1>1. UNCHANGED <<root, current>>
  BY DEF Load
<1>2. StandsFor' /\ StandsFor
  BY <1>1 DEF LibraryWhole, StandsFor, Stored
<1>3. CASE root.deleted
  <2>1. End(h)
    BY <1>3 DEF Load
  <2> QED
    BY <1>1, <1>2, <2>1, EndWhole
<1>4. CASE ~root.deleted /\ root.intent # Nothing
  BY <1>1, <1>4, ReplayStartWhole DEF Load
<1>5. CASE ~root.deleted /\ root.intent = Nothing
  <2> DEFINE rec == [section[h] EXCEPT !.pc = "loaded", !.stored = Stored]
  <2>1. section' = [section EXCEPT ![h] = rec]
    BY <1>5 DEF Load
  <2>2. rec.pc = "loaded" /\ rec.stored = Stored
    BY DEF LibraryIInv, LibraryTypes, SectionRecord, SectionFields
  <2> HIDE DEF rec
  <2>3. section'[h] = rec => HostWhole(h)'
    BY <1>1, <1>2, <1>5, <2>2 DEF HostWhole, Saving, StandsFor
  <2> QED
    BY <1>1, <1>2, <2>1, <2>3, WholeStep
<1> QED
  BY <1>1, <1>3, <1>4, <1>5

\* A replay, which only a single host gets to.
LEMMA ReplayWhole ==
  ASSUME LibraryIInv, LibraryWhole, Exclusive, NEW h \in Hosts,
         (\E p \in Paths : ReplayFile(h, p)) \/ ReplayDefinition(h) \/ ClearIntent(h)
  PROVE  LibraryWhole' /\ UNCHANGED current
<1>1. /\ section[h].pc \in {"replay", "clear"} /\ UNCHANGED current
      /\ section[h].pc = "replay" => root'.intent = root.intent
  BY LibraryFacts DEF ReplayFile, ReplayDefinition, ClearIntent, DefAt, PackageRoot
<1>2. /\ root.intent # Nothing /\ OneHost /\ current = root.intent.doc /\ HostWhole(h) /\ StandsFor
      /\ root \in PackageRoot /\ section[h] \in SectionRecord
  BY <1>1 DEF LibraryWhole, HostWhole, Exclusive, StandsFor, LibraryIInv, LibraryTypes
<1>3. section[h].pc = "replay" => section[h].stored = root.intent.doc /\ StandsFor'
  BY <1>1, <1>2 DEF HostWhole, StandsFor
<1>4. CASE \E p \in Paths : ReplayFile(h, p)
  <2>1. PICK p \in Paths : ReplayFile(h, p)
    BY <1>4
  <2>2. section[h].pc = "replay"
    BY <2>1 DEF ReplayFile, DefAt
  <2>3. PICK rec \in {[section[h] EXCEPT !.rm = @ \ {p}], [section[h] EXCEPT !.put = @ \ {p}]} :
           section' = [section EXCEPT ![h] = rec]
    BY <2>1 DEF ReplayFile
  <2>4. rec.pc = "replay" /\ rec.stored = section[h].stored
    BY <1>2, <2>2, <2>3 DEF SectionRecord, SectionFields
  <2>5. section'[h] = rec => HostWhole(h)'
    BY <1>1, <1>2, <1>3, <2>2, <2>4 DEF HostWhole, Saving
  <2> QED
    BY <1>1, <1>3, <2>2, <2>3, <2>5, WholeStep
<1>5. CASE ReplayDefinition(h)
  <2>1. section[h].pc = "replay"
    BY <1>5 DEF ReplayDefinition, DefAt
  <2>2. CASE root.files = section[h].stored.files
    <3> DEFINE rec == [section[h] EXCEPT !.pc = "clear"]
    <3>1. /\ section' = [section EXCEPT ![h] = rec]
          /\ root' = [root EXCEPT !.def = section[h].stored.def]
      BY <1>5, <2>2 DEF ReplayDefinition, GoTo
    <3>2. rec.pc = "clear"
      BY <1>2 DEF SectionRecord, SectionFields
    <3> HIDE DEF rec
    <3>3. root'.def = section[h].stored.def /\ root'.files = root.files /\ root'.intent = root.intent
      BY <1>2, <3>1 DEF PackageRoot
    <3>4. section'[h] = rec => HostWhole(h)'
      BY <1>2, <1>3, <2>1, <2>2, <3>2, <3>3 DEF HostWhole, Saving
    <3> QED
      BY <1>1, <1>3, <2>1, <3>1, <3>4, WholeStep
  <2>3. CASE root.files # section[h].stored.files
    <3>1. End(h)
      BY <1>5, <2>3 DEF ReplayDefinition
    <3> QED
      BY <1>1, <1>3, <2>1, <3>1, EndWhole
  <2> QED
    BY <1>1, <2>2, <2>3
<1>6. CASE ClearIntent(h)
  <2>1. section[h].pc = "clear" /\ root' = [root EXCEPT !.intent = Nothing]
    BY <1>6 DEF ClearIntent, DefAt
  <2>2. root'.intent = Nothing /\ root'.def = root.def /\ root'.files = root.files
    BY <1>2, <2>1 DEF PackageRoot
  <2>3. root.intent.doc \in Document /\ root.def = root.intent.doc.def /\ root.files = root.intent.doc.files
    BY <1>2, <2>1 DEF HostWhole, PackageRoot
  <2>4. Stored' = root.intent.doc
    BY <2>2, <2>3, NothingElse DEF Stored, Document
  <2>5. StandsFor'
    BY <1>1, <1>2, <2>2, <2>4 DEF StandsFor
  <2>6. PICK rec \in {IdleRequest, [section[h] EXCEPT !.pc = "load", !.stored = Nothing]} :
           section' = [section EXCEPT ![h] = rec]
    BY <1>6 DEF ClearIntent, End
  <2>7. rec.pc \in {"idle", "load"}
    BY <1>2, <2>6, IdleType DEF SectionRecord, SectionFields
  <2>8. section'[h] = rec => HostWhole(h)'
    BY <2>7 DEF HostWhole, Saving
  <2>9. section'[h] = rec /\ \A g \in Hosts : g = h
    BY <1>2, <2>6 DEF LibraryIInv, LibraryTypes, OneHost
  <2> QED
    BY <1>1, <2>5, <2>8, <2>9 DEF LibraryWhole
<1> QED
  BY <1>1, <1>4, <1>5, <1>6

\* Nothing but the directory or the deletion record.
LEMMA SameDocument ==
  ASSUME LibraryWhole, UNCHANGED current,
         root'.def = root.def /\ root'.files = root.files /\ root'.intent = root.intent
  PROVE  StandsFor'
BY DEF LibraryWhole, StandsFor, Stored

\* The decisions of a loaded section.  A first save that brings its files
\* expects nothing and finds nothing.
LEMMA DecideWhole ==
  ASSUME LibraryIInv, LibraryWhole, Exclusive, NEW h \in Hosts,
         DecideProposal(h) \/ EndRead(h) \/ DecideApply(h) \/ DecideDelete(h) \/ DecidePublish(h)
  PROVE  /\ LibraryWhole'
         /\ current' # current => section'[h] # section[h] /\ section[h].req.expected = current
<1>1. section[h].pc = "loaded" /\ root \in PackageRoot /\ HostWhole(h) /\ StandsFor /\ section[h] \in SectionRecord
  BY DEF DecideProposal, EndRead, DecideApply, DecideDelete, DecidePublish, DefAt, LibraryWhole, LibraryIInv, LibraryTypes
<1>2. section[h].kind \in Mutating => root.intent = Nothing /\ section[h].stored = current
  BY <1>1 DEF HostWhole
<1>3. CASE DecideProposal(h)
  <2>1. End(h) /\ UNCHANGED current /\ root' = [root EXCEPT !.dir = TRUE]
    BY <1>3 DEF DecideProposal
  <2>2. root'.def = root.def /\ root'.files = root.files /\ root'.intent = root.intent
    BY <1>1, <2>1 DEF PackageRoot
  <2> QED
    BY <2>1, <2>2, SameDocument, EndWhole
<1>4. CASE EndRead(h)
  BY <1>4, SameDocument, EndWhole DEF EndRead
<1>5. CASE DecideApply(h)
  <2>1. UNCHANGED current /\ root' = [root EXCEPT !.dir = @ \/ Compare(h)] /\ section[h].kind = "apply"
    BY <1>5 DEF DecideApply
  <2>2. root'.def = root.def /\ root'.files = root.files /\ root'.intent = root.intent
    BY <1>1, <2>1 DEF PackageRoot
  <2>3. CASE Compare(h)
    <3> DEFINE rec == [section[h] EXCEPT !.pc = "entry"]
    <3>1. section' = [section EXCEPT ![h] = rec]
      BY <1>5, <2>3 DEF DecideApply, GoTo
    <3>2. rec.pc = "entry" /\ rec.req = section[h].req /\ rec.stored = section[h].stored
      BY <1>1 DEF SectionRecord, SectionFields
    <3> HIDE DEF rec
    <3>3. section[h].req.expected = current /\ root.intent = Nothing /\ section[h].stored = current
      BY <1>2, <2>1, <2>3 DEF Compare, Mutating
    <3>4. section'[h] = rec => HostWhole(h)'
      BY <2>1, <2>2, <3>2, <3>3 DEF HostWhole, Saving
    <3> QED
      BY <2>1, <2>2, <3>1, <3>4, SameDocument, WholeStep
  <2>4. CASE ~Compare(h)
    <3>1. End(h)
      BY <1>5, <2>4 DEF DecideApply
    <3> QED
      BY <2>1, <2>2, <3>1, SameDocument, EndWhole
  <2> QED
    BY <2>3, <2>4
<1>6. CASE DecideDelete(h)
  <2>1. End(h) /\ UNCHANGED current /\ root' = [root EXCEPT !.deleted = section[h].stored # Nothing /\ Compare(h)]
    BY <1>6 DEF DecideDelete
  <2>2. root'.def = root.def /\ root'.files = root.files /\ root'.intent = root.intent
    BY <1>1, <2>1 DEF PackageRoot
  <2> QED
    BY <2>1, <2>2, SameDocument, EndWhole
<1>7. CASE DecidePublish(h)
  <2>1. section[h].kind = "publish" /\ End(h)
    BY <1>7 DEF DecidePublish
  <2>2. CASE section[h].stored # Nothing \/ root.dir
    <3>1. UNCHANGED <<root, current>>
      BY <1>7, <2>2 DEF DecidePublish
    <3> QED
      BY <2>1, <3>1, SameDocument, EndWhole
  <2>3. CASE ~(section[h].stored # Nothing \/ root.dir)
    <3> DEFINE doc == Candidate(h)
    <3>1. root' = [root EXCEPT !.def = doc.def, !.files = doc.files, !.dir = TRUE] /\ current' = doc
      BY <1>7, <2>3 DEF DecidePublish
    <3>2. doc \in Document
      <4>1. /\ section[h].req \in DefRequest /\ section[h].req.def \in Definition
        BY <2>1 DEF Publishes, LibraryIInv, LibraryTypes
      <4>2. root.files \in Closure /\ section[h].req.files \in Closure \cup {Nothing}
        BY <1>1, <4>1 DEF DefRequest, PackageRoot
      <4> QED
        BY <4>1, <4>2 DEF Candidate, Document
    <3> HIDE DEF doc
    <3>3. root.intent = Nothing /\ current = Nothing
      BY <1>2, <2>1, <2>3 DEF Mutating
    <3>4. root'.intent = Nothing /\ root'.def = doc.def /\ root'.files = doc.files
      BY <1>1, <3>1, <3>3 DEF PackageRoot
    <3>5. Stored' = doc
      BY <3>2, <3>4, NothingElse DEF Stored, Document
    <3>6. StandsFor'
      BY <3>1, <3>4, <3>5 DEF StandsFor
    <3>7. section[h].req.expected = current
      BY <2>1, <3>3 DEF Publishes, LibraryIInv, LibraryTypes
    <3>8. section'[h] # section[h]
      <4>1. section'[h] = IdleRequest
        BY <2>1 DEF End, LibraryIInv, LibraryTypes
      <4> QED
        BY <1>1, <4>1, IdleType
    <3>9. section[h].kind \in Mutating /\ section[h].pc # "idle"
      BY <1>1, <2>1 DEF Mutating
    <3> QED
      BY <2>1, <3>6, <3>7, <3>8, <3>9, EndWhole
  <2> QED
    BY <2>2, <2>3
<1> QED
  BY <1>3, <1>4, <1>5, <1>6, <1>7

\* Writing history leaves the document and what was expected of it.
LEMMA HistoryWhole ==
  ASSUME LibraryIInv, LibraryWhole, Exclusive, NEW h \in Hosts,
         AppendEntry(h) \/ Materialize(h) \/ KeepAll(h) \/ WriteIndex(h)
           \/ \E gone \in SUBSET section[h].drop : DropEntries(h, gone)
  PROVE  LibraryWhole' /\ UNCHANGED current
<1>1. section[h].pc \in Saving /\ UNCHANGED <<root, current>>
  BY DEF AppendEntry, Materialize, KeepAll, WriteIndex, DropEntries, DefAt, Saving
<1>2. section[h] \in SectionRecord /\ section \in [Hosts -> SectionRecord] /\ HostWhole(h) /\ section[h].kind \in Mutating
  BY <1>1 DEF LibraryWhole, LibraryIInv, LibraryTypes, DeletionFenced, Mutating
<1>3. root.intent = Nothing /\ section[h].stored = current /\ section[h].req.expected = current
  BY <1>1, <1>2 DEF HostWhole
<1>4. PICK to, gone :
        to \in Saving /\ section' = [section EXCEPT ![h] = [section[h] EXCEPT !.pc = to, !.drop = gone]]
  <2>1. \A to : GoTo(h, to) => section' = [section EXCEPT ![h] = [section[h] EXCEPT !.pc = to, !.drop = section[h].drop]]
    <3> SUFFICES ASSUME NEW to, GoTo(h, to)
                 PROVE  section' = [section EXCEPT ![h] = [section[h] EXCEPT !.pc = to, !.drop = section[h].drop]]
      OBVIOUS
    <3>1. [section[h] EXCEPT !.pc = to] = [section[h] EXCEPT !.pc = to, !.drop = section[h].drop]
      BY <1>2 DEF SectionRecord, SectionFields
    <3> QED
      BY <3>1 DEF GoTo
  <2>2. UNCHANGED section =>
          section' = [section EXCEPT ![h] = [section[h] EXCEPT !.pc = section[h].pc, !.drop = section[h].drop]]
    <3>1. section[h] = [section[h] EXCEPT !.pc = section[h].pc, !.drop = section[h].drop]
      BY <1>2 DEF SectionRecord, SectionFields
    <3> QED
      BY <1>2, <3>1
  <2>3. \/ \E to \in Saving : GoTo(h, to)
        \/ UNCHANGED section
        \/ \E to \in Saving : \E gone : section' = [section EXCEPT ![h] = [section[h] EXCEPT !.pc = to, !.drop = gone]]
    <3>1. CASE AppendEntry(h) \/ Materialize(h) \/ KeepAll(h)
      BY <3>1 DEF AppendEntry, Materialize, KeepAll, Saving
    <3>2. CASE WriteIndex(h)
      <4>1. CASE section[h].pc = "index"
        BY <3>2, <4>1 DEF WriteIndex, DefAt, Saving
      <4>2. CASE section[h].pc # "index"
        <5>1. /\ "drop" \in Saving
              /\ section' = [section EXCEPT ![h] = [section[h] EXCEPT !.pc = "drop", !.drop = Dropped(h)]]
          BY <3>2, <4>2 DEF WriteIndex, DefAt, Saving
        <5> QED
          BY <5>1
      <4> QED
        BY <4>1, <4>2
    <3>3. CASE \E gone \in SUBSET section[h].drop : DropEntries(h, gone)
      <4>1. "publish" \in Saving /\ section' = [section EXCEPT ![h] = [section[h] EXCEPT !.pc = "publish", !.drop = {}]]
        BY <3>3 DEF DropEntries, Saving
      <4> QED
        BY <4>1
    <3> QED
      BY <3>1, <3>2, <3>3
  <2> QED
    BY <1>1, <2>1, <2>2, <2>3
<1> DEFINE rec == [section[h] EXCEPT !.pc = to, !.drop = gone]
<1>5. /\ rec.pc \in Saving /\ rec.stored = section[h].stored /\ rec.req = section[h].req
      /\ section' = [section EXCEPT ![h] = rec]
  BY <1>2, <1>4 DEF SectionRecord, SectionFields
<1> HIDE DEF rec
<1>6. section'[h] = rec => HostWhole(h)'
  BY <1>1, <1>3, <1>5 DEF HostWhole, Saving
<1> QED
  BY <1>1, <1>5, <1>6, SameDocument, WholeStep

\* Publication replaces what the request expected.
LEMMA PublishWhole ==
  ASSUME LibraryIInv, LibraryWhole, Exclusive, NEW h \in Hosts, RenameDefinition(h) \/ WriteIntent(h)
  PROVE  LibraryWhole' /\ section'[h] # section[h] /\ section[h].req.expected = current
<1>1. /\ section[h].pc = "publish" /\ section[h].pc \in Saving /\ HostWhole(h)
      /\ section \in [Hosts -> SectionRecord] /\ section[h] \in SectionRecord /\ root \in PackageRoot
  BY DEF RenameDefinition, WriteIntent, DefAt, Saving, LibraryWhole, LibraryIInv, LibraryTypes
<1>2. /\ section[h].kind = "apply" /\ section[h].kind \in Mutating
      /\ section[h].req.expected = current /\ root.intent = Nothing
  BY <1>1 DEF HostWhole, LibraryIInv, DeletionFenced, Mutating
<1>3. Candidate(h) \in Document /\ current' = Candidate(h)
  BY <1>2, CandidateType, PublishKeeps
<1>4. CASE RenameDefinition(h)
  <2>1. End(h) /\ root' = [root EXCEPT !.def = Candidate(h).def] /\ Candidate(h).files = root.files
    BY <1>4, PublishKeeps DEF RenameDefinition
  <2>2. root'.intent = Nothing /\ root'.def = Candidate(h).def /\ root'.files = Candidate(h).files
    BY <1>1, <1>2, <2>1 DEF PackageRoot
  <2>3. StandsFor'
    BY <1>3, <2>2, NothingElse DEF StandsFor, Stored, Document
  <2>4. section'[h] = IdleRequest
    BY <1>1, <2>1 DEF End
  <2> QED
    BY <1>1, <1>2, <2>1, <2>3, <2>4, IdleType, EndWhole
<1>5. CASE WriteIntent(h)
  <2> DEFINE rec == [section[h] EXCEPT !.pc = "recover"]
  <2>1. section' = [section EXCEPT ![h] = rec] /\ root' = [root EXCEPT !.intent = [doc |-> Candidate(h), cleanup |-> root.files]]
    BY <1>5 DEF WriteIntent, GoTo
  <2>2. rec.pc = "recover"
    BY <1>1 DEF SectionRecord, SectionFields
  <2> HIDE DEF rec
  <2>3. root'.intent # Nothing /\ root'.intent.doc = Candidate(h)
    <3>1. [doc |-> Candidate(h), cleanup |-> root.files] \in [doc : Document, cleanup : Closure]
      BY <1>1, <1>3 DEF PackageRoot
    <3> QED
      BY <1>1, <2>1, <3>1, NothingElse DEF PackageRoot
  <2>4. StandsFor'
    BY <1>3, <2>3 DEF StandsFor
  <2>5. section'[h] = rec => HostWhole(h)'
    BY <2>2 DEF HostWhole, Saving
  <2>6. section'[h] = rec
    BY <1>1, <2>1
  <2> QED
    BY <1>1, <1>2, <2>1, <2>2, <2>4, <2>5, <2>6, WholeStep
<1> QED
  BY <1>4, <1>5

LEMMA WholeKept ==
  ASSUME LibraryIInv, LibraryWhole, Exclusive, [DefNext]_defVars
  PROVE  /\ LibraryWhole'
         /\ current' # current =>
              \/ UNCHANGED section
              \/ \E h \in Hosts : section'[h] # section[h] /\ section[h].req.expected = current
<1>1. ASSUME NEW h \in Hosts, SectionStep(h)
      PROVE  /\ LibraryWhole'
             /\ current' # current => section'[h] # section[h] /\ section[h].req.expected = current
  <2>1. CASE Load(h)
    BY <2>1, LoadWhole
  <2>2. CASE (\E p \in Paths : ReplayFile(h, p)) \/ ReplayDefinition(h) \/ ClearIntent(h)
    BY <2>2, ReplayWhole
  <2>3. CASE DecideProposal(h) \/ EndRead(h) \/ DecideApply(h) \/ DecideDelete(h) \/ DecidePublish(h)
    BY <2>3, DecideWhole
  <2>4. CASE AppendEntry(h) \/ Materialize(h) \/ KeepAll(h) \/ WriteIndex(h)
               \/ \E gone \in SUBSET section[h].drop : DropEntries(h, gone)
    BY <2>4, HistoryWhole
  <2>5. CASE RenameDefinition(h) \/ WriteIntent(h)
    BY <2>5, PublishWhole
  <2>6. CASE Recover(h)
    <3>1. UNCHANGED <<root, current>>
      BY <2>6 DEF Recover
    <3>2. CASE root.intent = Nothing
      <4>1. End(h)
        BY <2>6, <3>2 DEF Recover
      <4> QED
        BY <3>1, <4>1, SameDocument, EndWhole
    <3>3. CASE root.intent # Nothing
      BY <2>6, <3>1, <3>3, ReplayStartWhole DEF Recover
    <3> QED
      BY <3>1, <3>2, <3>3
  <2> QED
    BY <1>1, <2>1, <2>2, <2>3, <2>4, <2>5, <2>6 DEF SectionStep
<1>2. ASSUME NEW h \in Hosts, Ask(h) \/ Start(h) \/ Fail(h) \/ Crash(h)
      PROVE  LibraryWhole' /\ UNCHANGED current
  BY <1>2, RequestWhole
<1>3. ASSUME NEW p \in Paths, OutsideEdit(p)
      PROVE  LibraryWhole' /\ UNCHANGED section
  <2>1. /\ UNCHANGED section /\ root'.intent = root.intent /\ root.def # Nothing /\ root'.def = root.def
        /\ root.intent = Nothing => current' = [def |-> root.def, files |-> root'.files]
        /\ root.intent # Nothing => current' = current
    BY <1>3, EditKeeps
  <2>2. StandsFor'
    BY <2>1 DEF StandsFor, Stored, LibraryWhole
  <2>3. \A h \in Hosts : section[h].pc = "idle"
    BY <1>3 DEF OutsideEdit, DefAt
  <2>4. \A h \in Hosts : HostWhole(h)'
    BY <2>1, <2>3 DEF HostWhole, Saving
  <2> QED
    BY <2>1, <2>2, <2>4 DEF LibraryWhole
<1>4. CASE UNCHANGED defVars
  BY <1>4 DEF defVars, LibraryWhole, HostWhole, StandsFor, Stored, OneHost
<1> QED
  BY <1>1, <1>2, <1>3, <1>4 DEF DefNext

LEMMA WholeInit == DefInit => LibraryWhole
BY IdleType DEF DefInit, LibraryWhole, HostWhole, StandsFor, Stored, EmptyRoot, Saving

\* A load that succeeds returns the document that was last published or
\* committed to, whichever section, failure or crash left a commit pending: for
\* one host (loadDefinitionPackage, recoverDefinitionCommit).
THEOREM LoadsAreWhole ==
  ASSUME OneHost
  PROVE  DefSpec => []LoadIsWhole
<1>1. LibraryIInv /\ LibraryWhole /\ [DefNext]_defVars => LibraryIInv' /\ LibraryWhole'
  BY LibraryStep, WholeKept DEF Exclusive
<1>2. LibraryIInv /\ LibraryWhole => LoadIsWhole
  BY DEF LibraryWhole, HostWhole, LoadIsWhole, DefAt, Saving
<1> QED
  BY <1>1, <1>2, LibraryInit, WholeInit, PTL DEF DefSpec

\* A host replaces the document only for a request that expected exactly the
\* document it replaces: for one host in any case, for several as long as no
\* restoration is pending (applyInternal, saveDefinitionDocument).
THEOREM SavesAreExpected == DefSpec /\ []Exclusive => NoLostSave
<1>1. LibraryIInv /\ LibraryWhole /\ Exclusive /\ [DefNext]_defVars => LibraryIInv' /\ LibraryWhole'
  BY LibraryStep, WholeKept
<1>2. LibraryIInv /\ LibraryWhole /\ Exclusive /\ [DefNext]_defVars =>
        [current' # current =>
           \/ UNCHANGED section
           \/ \E h \in Hosts : section'[h] # section[h] /\ section[h].req.expected = current]_defVars
  BY WholeKept
<1> QED
  BY <1>1, <1>2, LibraryInit, WholeInit, PTL DEF DefSpec, NoLostSave

-----------------------------------------------------------------------------
(* The revision history.  Every listed revision has its entry file, and an    *)
(* entry without files inherits those of an older listed revision that has    *)
(* the same ones; from this the walk of loadRevisionEntry over the parents is *)
(* shown to end at the revision's own files.                                  *)

EntryRecord == [parent : Document \cup {Nothing}, files : Closure \cup {Nothing}]

\* One listed revision: its files are its own or an older one's.
Founded(index, entry, i) ==
  LET r == index[i].revision IN
  /\ r \in DOMAIN entry /\ entry[r] \in EntryRecord
  /\ \/ entry[r].files = r.files
     \/ /\ entry[r].files = Nothing
        /\ \E j \in 1 .. i - 1 : entry[r].parent = index[j].revision /\ index[j].revision.files = r.files
ChainOK(index, entry) ==
  /\ \A i, j \in 1 .. Len(index) : index[i].revision = index[j].revision => i = j
  /\ \A i \in 1 .. Len(index) : Founded(index, entry, i)

EntryTypes == \A r \in DOMAIN hist.entry : r \in Document /\ hist.entry[r] \in EntryRecord

\* What a save has prepared: entries for the index it is about to write, and
\* none of the retained ones inherits across what it drops.
ReadyToSave(h) ==
  /\ section[h].pc \in {"prune", "index", "pruned"} => ChainOK(NextIndex(h), hist.entry)
  /\ section[h].pc = "pruned" => ChainOK(KeptIndex(h), hist.entry)
  /\ section[h].pc = "drop" => section[h].drop \cap Listed = {}
  /\ section[h].pc \in {"drop", "publish"} => Candidate(h) \in Listed

HistoryIInv ==
  /\ EntryTypes /\ ChainOK(hist.index, hist.entry)
  /\ \A h \in Hosts : ReadyToSave(h)
  /\ root.intent # Nothing => root.intent.doc \in Listed

\* One step of the walk, and the function of steps that Ancestry chooses.
Grow(h, w) ==
  LET e == LoadRevisionEntry(h, w[Len(w)]) IN
  IF \/ e.files # Nothing
     \/ e.parent = Nothing
     \/ ~InIndex(h, e.parent)
     \/ \E i \in DOMAIN w : w[i] = e.parent
  THEN w ELSE Append(w, e.parent)
Walks(h, r, w) == w = [n \in 0 .. Len(h.index) |-> IF n = 0 THEN <<r>> ELSE Grow(h, w[n - 1])]

LEMMA AncestryIs ==
  ASSUME NEW h, NEW r
  PROVE  Ancestry(h, r) = (CHOOSE w : Walks(h, r, w))[Len(h.index)]
BY DEF Ancestry, Walks, Grow

\* A set of naturals has a least element.
LEMMA LeastNat ==
  ASSUME NEW T, T \subseteq Nat, T # {}
  PROVE  \E x \in T : \A y \in T : x <= y
<1> DEFINE R == OpToRel(<, Nat)
<1>1. IsWellFoundedOn(R, Nat)
  BY NatLessThanWellFounded
<1>2. \A x, y \in Nat : x < y => <<x, y>> \in R
  BY DEF OpToRel
<1> HIDE DEF R
<1>3. PICK x \in T : \A y \in T : ~ (<<y, x>> \in R)
  BY <1>1, WFMin
<1>4. ASSUME NEW y \in T PROVE x <= y
  <2>1. ~(y < x)
    BY <1>2, <1>3
  <2> QED BY <2>1
<1> QED BY <1>4

\* What holds at first and after every step holds at each.
LEMMA Steps ==
  ASSUME NEW G \in SUBSET Nat, 0 \in G, \A n \in Nat : n \in G => n + 1 \in G
  PROVE  G = Nat
<1> SUFFICES ASSUME Nat \ G # {} PROVE FALSE
  OBVIOUS
<1>1. PICK n \in Nat \ G : \A m \in Nat \ G : n <= m
  BY LeastNat
<1>2. n - 1 \in Nat /\ n - 1 \in G
  BY <1>1
<1>3. (n - 1) + 1 = n
  BY <1>1
<1> QED BY <1>1, <1>2, <1>3

LEMMA WalkExists ==
  ASSUME NEW h, NEW r, Len(h.index) \in Nat
  PROVE  \E w : Walks(h, r, w)
<1> DEFINE Next2(w, n) == IF n = 0 THEN <<r>> ELSE Grow(h, w[n - 1])
           Good(n, w) == w = [m \in 0 .. n |-> Next2(w, m)]
           G == {n \in Nat : \E w : Good(n, w)}
<1>1. 0 \in G
  <2>1. Good(0, [m \in 0 .. 0 |-> <<r>>])
    BY DEF Next2
  <2> QED BY <2>1
<1>2. ASSUME NEW n \in Nat, n \in G
      PROVE  n + 1 \in G
  <2>1. PICK w : Good(n, w)
    BY <1>2
  <2> DEFINE v == [m \in 0 .. n + 1 |-> Next2(w, m)]
  <2>2. \A m \in 0 .. n : v[m] = w[m]
    BY <2>1
  <2>3. \A m \in 0 .. n + 1 : Next2(w, m) = Next2(v, m)
    <3> SUFFICES ASSUME NEW m \in 0 .. n + 1 PROVE Next2(w, m) = Next2(v, m)
      OBVIOUS
    <3>1. m # 0 => m - 1 \in 0 .. n
      OBVIOUS
    <3> QED BY <2>2, <3>1
  <2>4. v = [m \in 0 .. n + 1 |-> Next2(v, m)]
    BY <2>3
  <2> HIDE DEF v
  <2> QED BY <2>4
<1>3. G = Nat
  <2> HIDE DEF G
  <2>1. G \in SUBSET Nat
    BY DEF G
  <2> QED BY <1>1, <1>2, <2>1, Steps
<1>4. PICK w : Good(Len(h.index), w)
  BY <1>3
<1> QED BY <1>4 DEF Walks

LEMMA NotFirst == \A n \in Nat : n >= 1 /\ n # 1 => 2 \in 1 .. n /\ n > 1
OBVIOUS

LEMMA IndexTypes ==
  ASSUME NEW index \in Seq(IndexRecord)
  PROVE  Len(index) \in Nat /\ \A i \in 1 .. Len(index) : index[i] \in IndexRecord /\ index[i].revision \in Document
<1>1. Len(index) \in Nat /\ \A i \in 1 .. Len(index) : index[i] \in IndexRecord
  BY LenProperties, ElementOfSeq
<1> QED BY <1>1 DEF IndexRecord

LEMMA EntryIs ==
  ASSUME NEW h, NEW r, r \in DOMAIN h.entry
  PROVE  LoadRevisionEntry(h, r) = h.entry[r]
BY DEF LoadRevisionEntry

\* A walk of n steps: it began at r, went through listed revisions with the files of
\* r, each older than the one before, and ended or is n steps older.
WalkOK(h, r, w, n) ==
  /\ w \in Seq(Document) /\ Len(w) >= 1 /\ w[1] = r
  /\ h.entry[r].files = Nothing /\ Len(w) > 1 => w[2] = h.entry[r].parent
  /\ \E p \in 1 .. Len(h.index) :
       /\ w[Len(w)] = h.index[p].revision
       /\ \A k \in 1 .. Len(w) : \E q \in p .. Len(h.index) : w[k] = h.index[q].revision
       /\ h.index[p].revision.files = r.files
       /\ h.entry[w[Len(w)]].files # Nothing \/ p <= Len(h.index) - n

LEMMA WalkStep ==
  ASSUME NEW h, h.index \in Seq(IndexRecord), ChainOK(h.index, h.entry), NEW r,
         NEW n \in Nat, NEW w, WalkOK(h, r, w, n)
  PROVE  WalkOK(h, r, Grow(h, w), n + 1)
<1> DEFINE L == Len(h.index)
           last == w[Len(w)]
           rev(i) == h.index[i].revision
<1>1. L \in Nat /\ \A i \in 1 .. L : rev(i) \in Document
  BY IndexTypes
<1>2. w \in Seq(Document) /\ Len(w) >= 1 /\ Len(w) \in Nat
  BY LenProperties DEF WalkOK
<1>3. PICK p \in 1 .. L :
        /\ last = rev(p)
        /\ \A k \in 1 .. Len(w) : \E q \in p .. L : w[k] = rev(q)
        /\ rev(p).files = r.files
        /\ h.entry[last].files # Nothing \/ p <= L - n
  BY DEF WalkOK
<1>4. Founded(h.index, h.entry, p)
  BY <1>3 DEF ChainOK
<1>5. last \in DOMAIN h.entry /\ LoadRevisionEntry(h, last) = h.entry[last]
  BY <1>3, <1>4, EntryIs DEF Founded
<1>6. CASE h.entry[last].files # Nothing
  <2>1. Grow(h, w) = w
    BY <1>5, <1>6 DEF Grow
  <2>2. WalkOK(h, r, w, n + 1)
    BY <1>3, <1>6 DEF WalkOK
  <2> QED BY <2>1, <2>2
<1>7. CASE h.entry[last].files = Nothing
  <2>1. rev(p).files # Nothing
    BY <1>1, <1>3, NothingElse DEF Document
  <2>2. PICK j \in 1 .. p - 1 : h.entry[last].parent = rev(j) /\ rev(j).files = rev(p).files
    BY <1>3, <1>4, <1>7, <2>1 DEF Founded
  <2>3. j \in 1 .. L /\ j < p
    BY <1>1, <1>3, <2>2
  <2>4. rev(j) \in Document /\ rev(j) # Nothing
    BY <1>1, <2>3, NothingElse
  <2>5. InIndex(h, rev(j))
    BY <2>3 DEF InIndex
  <2>6. ASSUME NEW k \in 1 .. Len(w), w[k] = rev(j) PROVE FALSE
    <3>1. PICK q \in p .. L : w[k] = rev(q)
      BY <1>3
    <3>2. q \in 1 .. L /\ q # j
      BY <1>1, <1>3, <2>3, <3>1
    <3> QED BY <2>3, <2>6, <3>1, <3>2 DEF ChainOK
  <2>7. DOMAIN w = 1 .. Len(w)
    BY <1>2, LenProperties
  <2> DEFINE v == Append(w, rev(j))
  <2>8. Grow(h, w) = v
    BY <1>5, <1>7, <2>2, <2>4, <2>5, <2>6, <2>7 DEF Grow
  <2>9. /\ v \in Seq(Document) /\ Len(v) = Len(w) + 1 /\ v[Len(w) + 1] = rev(j)
        /\ \A k \in 1 .. Len(w) : v[k] = w[k]
    BY <1>2, <2>4, AppendProperties
  <2> HIDE DEF v
  <2>10. v[1] = r /\ Len(v) >= 1
    BY <1>2, <2>9 DEF WalkOK
  <2>11. h.entry[r].files = Nothing /\ Len(v) > 1 => v[2] = h.entry[r].parent
    <3>1. CASE Len(w) = 1
      <4>1. last = r /\ v[2] = rev(j)
        BY <2>9, <3>1 DEF WalkOK
      <4> QED BY <2>2, <4>1
    <3>2. CASE Len(w) # 1
      <4>1. 2 \in 1 .. Len(w) /\ Len(w) > 1
        BY <1>2, <3>2, NotFirst
      <4>2. h.entry[r].files = Nothing => w[2] = h.entry[r].parent
        BY <4>1 DEF WalkOK
      <4> QED BY <4>1, <4>2, <2>9
    <3> QED BY <3>1, <3>2
  <2>12. \A k \in 1 .. Len(v) : \E q \in j .. L : v[k] = rev(q)
    <3> SUFFICES ASSUME NEW k \in 1 .. Len(v) PROVE \E q \in j .. L : v[k] = rev(q)
      OBVIOUS
    <3>1. CASE k = Len(w) + 1
      BY <2>3, <2>9, <3>1
    <3>2. CASE k # Len(w) + 1
      <4>1. k \in 1 .. Len(w)
        BY <1>2, <2>9, <3>2
      <4>2. PICK q \in p .. L : w[k] = rev(q)
        BY <1>3, <4>1
      <4>3. q \in j .. L
        BY <1>1, <1>3, <2>3, <4>2
      <4> QED BY <2>9, <4>1, <4>2, <4>3
    <3> QED BY <3>1, <3>2
  <2>13. j <= L - (n + 1)
    BY <1>1, <1>3, <1>7, <2>3
  <2>14. v[Len(v)] = rev(j) /\ rev(j).files = r.files
    BY <1>3, <2>2, <2>9
  <2> QED BY <2>3, <2>8, <2>9, <2>10, <2>11, <2>12, <2>13, <2>14 DEF WalkOK
<1> QED BY <1>6, <1>7

\* The walk from a listed revision ends at its files, and passes its parent if it
\* has none of its own.
LEMMA WalkEnds ==
  ASSUME NEW h, h.index \in Seq(IndexRecord), ChainOK(h.index, h.entry), NEW i \in 1 .. Len(h.index)
  PROVE  LET r == h.index[i].revision IN
         /\ InheritedPackageFiles(h, r) = r.files
         /\ h.entry[r].files = Nothing => \E k \in DOMAIN Ancestry(h, r) : Ancestry(h, r)[k] = h.entry[r].parent
<1> DEFINE L == Len(h.index)
           r == h.index[i].revision
           w == CHOOSE f : Walks(h, r, f)
           G == {n \in Nat : n <= L => WalkOK(h, r, w[n], n)}
<1>1. L \in Nat /\ \A j \in 1 .. L : h.index[j].revision \in Document
  BY IndexTypes
<1>2. Walks(h, r, w)
  BY <1>1, WalkExists
<1>3. Ancestry(h, r) = w[L]
  BY AncestryIs
<1> HIDE DEF w
<1>4. 0 \in G
  <2>1. w[0] = <<r>>
    BY <1>1, <1>2 DEF Walks
  <2>2. WalkOK(h, r, <<r>>, 0)
    BY <1>1 DEF WalkOK
  <2> QED BY <2>1, <2>2
<1>5. ASSUME NEW n \in Nat, n \in G
      PROVE  n + 1 \in G
  <2> SUFFICES ASSUME n + 1 <= L PROVE WalkOK(h, r, w[n + 1], n + 1)
    OBVIOUS
  <2>1. n <= L /\ n + 1 \in 0 .. L /\ (n + 1) - 1 = n /\ n + 1 # 0
    BY <1>1
  <2>2. w[n + 1] = Grow(h, w[n])
    BY <1>2, <2>1 DEF Walks
  <2>3. WalkOK(h, r, w[n], n)
    BY <1>5, <2>1
  <2> HIDE DEF r
  <2> QED BY <2>2, <2>3, WalkStep
<1>6. G = Nat
  <2>1. G \in SUBSET Nat
    OBVIOUS
  <2> HIDE DEF G
  <2> QED BY <1>4, <1>5, <2>1, Steps
<1>7. WalkOK(h, r, w[L], L)
  BY <1>1, <1>6
<1> DEFINE v == w[L]
<1>8. v \in Seq(Document) /\ Len(v) >= 1 /\ Len(v) \in Nat /\ v[1] = r /\ DOMAIN v = 1 .. Len(v)
  BY <1>7, LenProperties DEF WalkOK
<1>15. h.entry[r].files = Nothing /\ Len(v) > 1 => v[2] = h.entry[r].parent
  BY <1>7 DEF WalkOK
<1>9. PICK p \in 1 .. L : /\ v[Len(v)] = h.index[p].revision /\ h.index[p].revision.files = r.files
                          /\ h.entry[v[Len(v)]].files # Nothing \/ p <= L - L
  BY <1>7 DEF WalkOK
<1>10. h.entry[v[Len(v)]].files # Nothing
  BY <1>1, <1>9
<1>11. Founded(h.index, h.entry, p)
  BY <1>9 DEF ChainOK
<1>12. v[Len(v)] \in DOMAIN h.entry /\ h.entry[v[Len(v)]].files = r.files
  BY <1>9, <1>10, <1>11 DEF Founded
<1>13. InheritedPackageFiles(h, r) = r.files
  BY <1>3, <1>12, EntryIs DEF InheritedPackageFiles
<1>14. ASSUME h.entry[r].files = Nothing
       PROVE  \E k \in DOMAIN v : v[k] = h.entry[r].parent
  <2>1. Len(v) # 1
    BY <1>8, <1>10, <1>14
  <2>2. Len(v) > 1 /\ 2 \in DOMAIN v
    BY <1>8, <2>1, NotFirst
  <2> QED BY <1>14, <1>15, <2>2
<1> QED BY <1>3, <1>13, <1>14

-----------------------------------------------------------------------------
\* Writing an entry over another: for a revision that is not listed, or with
\* the files of the revision.
LEMMA ChainOverwritten ==
  ASSUME NEW index, NEW entry, ChainOK(index, entry), NEW r, NEW e \in EntryRecord,
         e.files = r.files \/ \A i \in 1 .. Len(index) : index[i].revision # r
  PROVE  ChainOK(index, Overwritten(entry, r, e))
<1> DEFINE over == Overwritten(entry, r, e)
<1>1. ASSUME NEW i \in 1 .. Len(index)
      PROVE  Founded(index, over, i)
  <2> DEFINE q == index[i].revision
  <2>1. Founded(index, entry, i)
    BY DEF ChainOK
  <2>2. q \in DOMAIN over
    BY <2>1 DEF Founded, Overwritten
  <2>3. CASE q = r
    <3>1. over[q] = e /\ e.files = q.files
      BY <2>2, <2>3 DEF Overwritten
    <3> HIDE DEF over
    <3> QED BY <2>2, <3>1 DEF Founded
  <2>4. CASE q # r
    <3>1. over[q] = entry[q]
      BY <2>2, <2>4 DEF Overwritten
    <3> HIDE DEF over
    <3> QED BY <2>1, <2>2, <3>1 DEF Founded
  <2> QED BY <2>3, <2>4
<1> QED BY <1>1 DEF ChainOK

\* A new revision at the end of the index.
LEMMA ChainAppended ==
  ASSUME NEW index \in Seq(IndexRecord), NEW entry, ChainOK(index, entry), NEW item \in IndexRecord,
         \A i \in 1 .. Len(index) : index[i].revision # item.revision,
         item.revision \in DOMAIN entry, entry[item.revision] \in EntryRecord,
         \/ entry[item.revision].files = item.revision.files
         \/ /\ entry[item.revision].files = Nothing
            /\ \E j \in 1 .. Len(index) : /\ entry[item.revision].parent = index[j].revision
                                          /\ index[j].revision.files = item.revision.files
  PROVE  ChainOK(Append(index, item), entry)
<1> DEFINE next == Append(index, item)
           L == Len(index)
<1>1. /\ L \in Nat /\ Len(next) = L + 1 /\ next[L + 1] = item
      /\ \A i \in 1 .. L : next[i] = index[i]
  BY LenProperties, AppendProperties
<1> HIDE DEF next
<1>2. \A i \in 1 .. L + 1 : i \in 1 .. L \/ i = L + 1
  BY <1>1
<1>3. ASSUME NEW i \in 1 .. Len(next), NEW j \in 1 .. Len(next), next[i].revision = next[j].revision
      PROVE  i = j
  BY <1>1, <1>2, <1>3 DEF ChainOK
<1>4. ASSUME NEW i \in 1 .. Len(next)
      PROVE  Founded(next, entry, i)
  <2>1. CASE i = L + 1
    <3>1. (L + 1) - 1 = L
      BY <1>1
    <3> QED BY <1>1, <2>1, <3>1 DEF Founded
  <2>2. CASE i # L + 1
    <3>1. i \in 1 .. L /\ next[i] = index[i]
      BY <1>1, <1>2, <2>2
    <3>2. Founded(index, entry, i)
      BY <3>1 DEF ChainOK
    <3>3. \A j \in 1 .. i - 1 : j \in 1 .. L /\ next[j] = index[j]
      BY <1>1, <3>1
    <3> QED BY <3>1, <3>2, <3>3 DEF Founded
  <2> QED BY <2>1, <2>2
<1> QED BY <1>3, <1>4 DEF ChainOK, next

\* What is left of an index when its oldest revisions are dropped, if none of
\* the others inherits from one of them.
Without(kept, index, n) ==
  /\ kept \in Seq(IndexRecord) /\ Len(kept) = Len(index) - n
  /\ \A i \in 1 .. Len(kept) : kept[i] = index[n + i]
NoneInherits(index, entry, n) ==
  \A i \in n + 1 .. Len(index), j \in 1 .. n :
    entry[index[i].revision].files = Nothing => entry[index[i].revision].parent # index[j].revision
LEMMA ChainPruned ==
  ASSUME NEW index \in Seq(IndexRecord), NEW entry, ChainOK(index, entry), NEW n \in Nat, n <= Len(index),
         NEW kept, Without(kept, index, n), NoneInherits(index, entry, n)
  PROVE  ChainOK(kept, entry)
<1> USE DEF Without, NoneInherits
<1>1. Len(index) \in Nat /\ Len(kept) \in Nat
  BY LenProperties
<1>2. \A i \in 1 .. Len(kept) : n + i \in 1 .. Len(index) /\ n + i \in n + 1 .. Len(index)
  BY <1>1
<1>3. ASSUME NEW i \in 1 .. Len(kept), NEW j \in 1 .. Len(kept), kept[i].revision = kept[j].revision
      PROVE  i = j
  <2>1. n + i = n + j
    BY <1>2, <1>3 DEF ChainOK
  <2> QED BY <2>1
<1>4. ASSUME NEW i \in 1 .. Len(kept)
      PROVE  Founded(kept, entry, i)
  <2>1. Founded(index, entry, n + i) /\ kept[i] = index[n + i]
    BY <1>2 DEF ChainOK
  <2> DEFINE r == kept[i].revision
  <2>2. CASE entry[r].files = r.files
    BY <2>1, <2>2 DEF Founded
  <2>3. CASE entry[r].files # r.files
    <3>1. /\ r \in DOMAIN entry /\ entry[r] \in EntryRecord /\ entry[r].files = Nothing
      BY <2>1, <2>3 DEF Founded
    <3>2. PICK j \in 1 .. (n + i) - 1 : entry[r].parent = index[j].revision /\ index[j].revision.files = r.files
      BY <2>1, <2>3 DEF Founded
    <3>3. j \notin 1 .. n
      BY <1>2, <2>1, <3>1, <3>2
    <3>4. j - n \in 1 .. i - 1 /\ j - n \in 1 .. Len(kept) /\ n + (j - n) = j
      BY <1>1, <3>2, <3>3
    <3>5. kept[j - n] = index[j]
      BY <3>4
    <3> QED BY <3>1, <3>2, <3>4, <3>5 DEF Founded
  <2> QED BY <2>2, <2>3
<1> QED BY <1>3, <1>4 DEF ChainOK

\* Removing entry files of revisions that are not listed.
LEMMA ChainDropped ==
  ASSUME NEW index, NEW entry, ChainOK(index, entry), NEW gone,
         \A i \in 1 .. Len(index) : index[i].revision \notin gone
  PROVE  ChainOK(index, [r \in DOMAIN entry \ gone |-> entry[r]])
<1> DEFINE left == [r \in DOMAIN entry \ gone |-> entry[r]]
<1>1. ASSUME NEW i \in 1 .. Len(index)
      PROVE  Founded(index, left, i)
  <2>1. Founded(index, entry, i)
    BY DEF ChainOK
  <2>2. index[i].revision \in DOMAIN left /\ left[index[i].revision] = entry[index[i].revision]
    BY <2>1 DEF Founded
  <2> HIDE DEF left
  <2> QED BY <2>1, <2>2 DEF Founded
<1> QED BY <1>1 DEF ChainOK

\* A listed revision is at a place of the index.
LEMMA ListedAt ==
  ASSUME LibraryIInv
  PROVE  /\ \A r : r \in Listed <=> \E i \in 1 .. Len(hist.index) : hist.index[i].revision = r
         /\ \A r : InIndex(hist, r) <=> r \in Listed
<1>1. hist.index \in Seq(IndexRecord) /\ DOMAIN hist.index = 1 .. Len(hist.index)
  BY LenProperties DEF LibraryIInv, LibraryTypes
<1> QED BY <1>1 DEF Listed, InIndex

\* The entry a save writes for its candidate.
LEMMA CandidateFounded ==
  ASSUME LibraryIInv, NEW h \in Hosts, section[h].kind = "apply"
  PROVE  LET e == [parent |-> section[h].stored, files |-> EntryFiles(h)] IN
         /\ e \in EntryRecord
         /\ \/ e.files = Candidate(h).files
            \/ /\ e.files = Nothing /\ e.parent \in Listed /\ e.parent.files = Candidate(h).files
<1>1. section[h].stored \in Document \cup {Nothing} /\ Candidate(h) \in Document
  BY CandidateType DEF LibraryIInv, LibraryTypes, SectionRecord, SectionFields
<1>2. Candidate(h).files \in Closure
  BY <1>1 DEF Document
<1>3. CASE EntryFiles(h) = Candidate(h).files
  BY <1>1, <1>2, <1>3 DEF EntryRecord
<1>4. CASE EntryFiles(h) # Candidate(h).files
  <2>1. /\ EntryFiles(h) = Nothing /\ ReadRevision(hist, section[h].stored) # Nothing
        /\ SemanticRevision(section[h].stored) = SemanticRevision(Candidate(h))
    BY <1>4 DEF EntryFiles
  <2>2. section[h].stored \in Listed
    BY <2>1, ListedAt DEF ReadRevision
  <2>3. section[h].stored.files = Candidate(h).files
    BY <2>1 DEF SemanticRevision
  <2> QED BY <1>1, <2>1, <2>2, <2>3 DEF EntryRecord
<1> QED BY <1>3, <1>4

-----------------------------------------------------------------------------
\* While a host mutates the library no other one writes history.
LEMMA OnlySaver ==
  ASSUME LibraryIInv, NEW h \in Hosts, section[h].kind \in Mutating, section[h].pc # "idle",
         NEW g \in Hosts, g # h
  PROVE  section[g].pc \notin Saving
BY DEF LibraryIInv, DeletionFenced, Mutating, Saving

\* A step of the host that mutates the library.
LEMMA HistoryMoves ==
  ASSUME LibraryIInv, HistoryIInv, NEW h \in Hosts, section[h].kind \in Mutating, section[h].pc # "idle",
         NEW rec, section' = [section EXCEPT ![h] = rec],
         EntryTypes', ChainOK(hist'.index, hist'.entry), section'[h] = rec => ReadyToSave(h)',
         root'.intent # Nothing => root'.intent.doc \in Listed'
  PROVE  HistoryIInv'
<1>1. section'[h] = rec /\ \A g \in Hosts : g # h => section'[g] = section[g]
  BY DEF LibraryIInv, LibraryTypes
<1>2. ASSUME NEW g \in Hosts
      PROVE  ReadyToSave(g)'
  <2>1. CASE g = h
    BY <1>1, <2>1
  <2>2. CASE g # h
    <3>1. section'[g].pc \notin Saving
      BY <1>1, <2>2, OnlySaver
    <3> QED
      BY <3>1 DEF ReadyToSave, Saving
  <2> QED
    BY <2>1, <2>2
<1> QED
  BY <1>2 DEF HistoryIInv

\* What a save would publish and write depends on the files, the index and the section.
LEMMA ReadyStays ==
  ASSUME NEW g \in Hosts, ReadyToSave(g), hist' = hist, section'[g] = section[g], root'.files = root.files
  PROVE  ReadyToSave(g)'
<1>1. Candidate(g)' = Candidate(g)
  BY DEF Candidate
<1>2. NextIndex(g)' = NextIndex(g)
  BY <1>1 DEF NextIndex
<1>3. KeptIndex(g)' = KeptIndex(g)
  BY <1>2 DEF KeptIndex, Excess
<1> QED
  BY <1>1, <1>2, <1>3 DEF ReadyToSave, Listed

\* A step that writes no history, and brings its section to no place that is about to.
LEMMA HistorySettles ==
  ASSUME LibraryIInv, HistoryIInv, NEW h \in Hosts, NEW rec, section' = [section EXCEPT ![h] = rec],
         rec.pc \notin {"prune", "index", "pruned", "drop", "publish"}, hist' = hist,
         root'.files = root.files \/ \A g \in Hosts : g # h => section[g].pc \notin Saving,
         root'.intent \in {Nothing, root.intent}
  PROVE  HistoryIInv'
<1>1. section'[h] = rec /\ \A g \in Hosts : g # h => section'[g] = section[g]
  BY DEF LibraryIInv, LibraryTypes
<1>2. ASSUME NEW g \in Hosts
      PROVE  ReadyToSave(g)'
  <2>1. CASE section'[g].pc \notin Saving \/ g = h
    BY <1>1, <2>1 DEF ReadyToSave, Saving
  <2>2. CASE section'[g].pc \in Saving /\ g # h
    <3>1. root'.files = root.files /\ section'[g] = section[g] /\ ReadyToSave(g)
      BY <1>1, <2>2 DEF HistoryIInv
    <3> QED
      BY <3>1, ReadyStays
  <2> QED
    BY <2>1, <2>2
<1> QED
  BY <1>2 DEF HistoryIInv, EntryTypes, Listed

LEMMA EndSettles ==
  ASSUME LibraryIInv, HistoryIInv, NEW h \in Hosts, End(h), hist' = hist,
         root'.files = root.files, root'.intent \in {Nothing, root.intent}
  PROVE  HistoryIInv'
<1>1. section' = [section EXCEPT ![h] = IdleRequest]
  BY DEF End
<1> QED
  BY <1>1, IdleType, HistorySettles

\* Requests, starts, failures and crashes.
LEMMA RequestSettles ==
  ASSUME LibraryIInv, HistoryIInv, NEW h \in Hosts, Ask(h) \/ Start(h) \/ Fail(h) \/ Crash(h)
  PROVE  HistoryIInv'
<1>1. UNCHANGED <<root, hist>>
  BY AskKeeps, StartKeeps, FaultKeeps
<1>2. CASE Fail(h) \/ Crash(h)
  BY <1>1, <1>2, FaultKeeps, EndSettles
<1>3. CASE Ask(h) \/ Start(h)
  <2>1. section' = section \/ \E kind, req : section' = [section EXCEPT ![h] = Section(kind, req)]
    <3>1. CASE Start(h)
      BY <3>1 DEF Start, BeginRequest
    <3>2. CASE Ask(h)
      BY <3>2 DEF Ask, Read, CreateDefinition, CreateBlueprint, DeleteDefinition, Propose, Revert, BeginRequest
    <3> QED
      BY <1>3, <3>1, <3>2
  <2>2. CASE section' = section
    <3>1. \A g \in Hosts : ReadyToSave(g)'
      BY <1>1, <2>2, ReadyStays DEF HistoryIInv
    <3> QED
      BY <1>1, <3>1 DEF HistoryIInv, EntryTypes, Listed
  <2>3. CASE \E kind, req : section' = [section EXCEPT ![h] = Section(kind, req)]
    <3>1. PICK kind, req : section' = [section EXCEPT ![h] = Section(kind, req)]
      BY <2>3
    <3>2. Section(kind, req).pc = "load"
      BY DEF Section
    <3> QED
      BY <1>1, <3>1, <3>2, HistorySettles
  <2> QED
    BY <2>1, <2>2, <2>3
<1> QED
  BY <1>2, <1>3

LEMMA ReplayStartSettles ==
  ASSUME LibraryIInv, HistoryIInv, NEW h \in Hosts, NEW own \in BOOLEAN, BeginReplay(h, own),
         UNCHANGED <<root, hist>>
  PROVE  HistoryIInv'
<1>1. CASE ReadRevision(hist, root.intent.doc) = root.intent.doc.files
  <2> DEFINE rec == [section[h] EXCEPT !.pc = "replay", !.own = own,
                       !.rm = root.intent.cleanup \ root.intent.doc.files,
                       !.put = root.intent.doc.files, !.stored = root.intent.doc]
  <2>1. section' = [section EXCEPT ![h] = rec]
    BY <1>1 DEF BeginReplay
  <2>2. rec.pc = "replay"
    BY DEF LibraryIInv, LibraryTypes, SectionRecord, SectionFields
  <2> HIDE DEF rec
  <2> QED
    BY <2>1, <2>2, HistorySettles
<1>2. CASE ReadRevision(hist, root.intent.doc) # root.intent.doc.files
  <2>1. End(h)
    BY <1>2 DEF BeginReplay
  <2> QED
    BY <2>1, EndSettles
<1> QED
  BY <1>1, <1>2

\* Loading, and the replay of a commit: the only host, or nothing to replay.
LEMMA LoadSettles ==
  ASSUME LibraryIInv, HistoryIInv, NEW h \in Hosts, Load(h) \/ Recover(h)
  PROVE  HistoryIInv'
<1>1. UNCHANGED <<root, hist>>
  BY DEF Load, Recover
<1>2. CASE End(h)
  BY <1>1, <1>2, EndSettles
<1>3. CASE \E own \in BOOLEAN : BeginReplay(h, own)
  BY <1>1, <1>3, ReplayStartSettles
<1>4. CASE section' = [section EXCEPT ![h].pc = "loaded", ![h].stored = Stored]
  <2> DEFINE rec == [section[h] EXCEPT !.pc = "loaded", !.stored = Stored]
  <2>1. section' = [section EXCEPT ![h] = rec]
    BY <1>4
  <2>2. rec.pc = "loaded"
    BY LibraryFacts DEF SectionRecord, SectionFields
  <2> HIDE DEF rec
  <2> QED
    BY <1>1, <2>1, <2>2, HistorySettles
<1> QED
  BY <1>2, <1>3, <1>4 DEF Load, Recover

LEMMA ReplaySettles ==
  ASSUME LibraryIInv, LibraryWhole, Exclusive, HistoryIInv, NEW h \in Hosts,
         (\E p \in Paths : ReplayFile(h, p)) \/ ReplayDefinition(h) \/ ClearIntent(h)
  PROVE  HistoryIInv'
<1>1. hist' = hist /\ root \in PackageRoot /\ section[h] \in SectionFields
  BY DEF ReplayFile, ReplayDefinition, ClearIntent, LibraryIInv, LibraryTypes, SectionRecord
<1>2. CASE \E p \in Paths : ReplayFile(h, p)
  <2>1. PICK p \in Paths : ReplayFile(h, p)
    BY <1>2
  <2>2. OneHost
    BY <2>1 DEF ReplayFile, DefAt, LibraryWhole, HostWhole, Exclusive
  <2>3. root'.intent = root.intent
    BY <1>1, <2>1 DEF ReplayFile, PackageRoot
  <2>4. PICK rec : section' = [section EXCEPT ![h] = rec] /\ rec.pc = "replay"
    <3> DEFINE rm == [section[h] EXCEPT !.rm = @ \ {p}]
               put == [section[h] EXCEPT !.put = @ \ {p}]
    <3>1. section' = [section EXCEPT ![h] = rm] \/ section' = [section EXCEPT ![h] = put]
      BY <2>1 DEF ReplayFile
    <3>2. rm.pc = "replay" /\ put.pc = "replay"
      BY <1>1, <2>1 DEF ReplayFile, DefAt, SectionFields
    <3> HIDE DEF rm, put
    <3> QED
      BY <3>1, <3>2
  <2> QED
    BY <1>1, <2>2, <2>3, <2>4, HistorySettles DEF OneHost
<1>3. CASE ReplayDefinition(h)
  <2>1. root'.files = root.files /\ root'.intent = root.intent
    BY <1>1, <1>3 DEF ReplayDefinition, PackageRoot
  <2>2. CASE End(h)
    BY <1>1, <2>1, <2>2, EndSettles
  <2>3. CASE GoTo(h, "clear")
    <3> DEFINE rec == [section[h] EXCEPT !.pc = "clear"]
    <3>1. section' = [section EXCEPT ![h] = rec]
      BY <2>3 DEF GoTo
    <3>2. rec.pc = "clear"
      BY <1>1 DEF SectionFields
    <3> HIDE DEF rec
    <3> QED
      BY <1>1, <2>1, <3>1, <3>2, HistorySettles
  <2> QED
    BY <1>3, <2>2, <2>3 DEF ReplayDefinition
<1>4. CASE ClearIntent(h)
  <2>1. root'.files = root.files /\ root'.intent = Nothing
    BY <1>1, <1>4 DEF ClearIntent, PackageRoot
  <2>2. CASE End(h)
    BY <1>1, <2>1, <2>2, EndSettles
  <2>3. CASE section' = [section EXCEPT ![h].pc = "load", ![h].stored = Nothing]
    <3> DEFINE rec == [section[h] EXCEPT !.pc = "load", !.stored = Nothing]
    <3>1. section' = [section EXCEPT ![h] = rec]
      BY <2>3
    <3>2. rec.pc = "load"
      BY <1>1 DEF SectionFields
    <3> HIDE DEF rec
    <3> QED
      BY <1>1, <2>1, <3>1, <3>2, HistorySettles
  <2> QED
    BY <1>4, <2>2, <2>3 DEF ClearIntent
<1> QED
  BY <1>2, <1>3, <1>4

\* The decisions of a section that loaded the package; a first save brings the
\* whole history, of one entry.
LEMMA DecideSettles ==
  ASSUME LibraryIInv, LibraryWhole, HistoryIInv, NEW h \in Hosts,
         DecideProposal(h) \/ EndRead(h) \/ DecideApply(h) \/ DecideDelete(h) \/ DecidePublish(h)
  PROVE  HistoryIInv'
<1>1. root \in PackageRoot /\ section[h] \in SectionFields /\ section[h].pc = "loaded"
  BY DEF LibraryIInv, LibraryTypes, SectionRecord, DecideProposal, EndRead, DecideApply, DecideDelete, DecidePublish, DefAt
<1>2. CASE DecideProposal(h) \/ EndRead(h) \/ DecideDelete(h)
  <2>1. End(h) /\ hist' = hist
    BY <1>2 DEF DecideProposal, EndRead, DecideDelete
  <2>2. root' = root \/ (\E x : root' = [root EXCEPT !.dir = x]) \/ (\E x : root' = [root EXCEPT !.deleted = x])
    BY <1>2 DEF DecideProposal, EndRead, DecideDelete
  <2>3. root'.files = root.files /\ root'.intent = root.intent
    BY <1>1, <2>2 DEF PackageRoot
  <2> QED
    BY <2>1, <2>3, EndSettles
<1>3. CASE DecideApply(h)
  <2>1. hist' = hist /\ root'.files = root.files /\ root'.intent = root.intent
    BY <1>1, <1>3 DEF DecideApply, PackageRoot
  <2>2. CASE End(h)
    BY <2>1, <2>2, EndSettles
  <2>3. CASE GoTo(h, "entry")
    <3> DEFINE rec == [section[h] EXCEPT !.pc = "entry"]
    <3>1. section' = [section EXCEPT ![h] = rec]
      BY <2>3 DEF GoTo
    <3>2. rec.pc = "entry"
      BY <1>1 DEF SectionFields
    <3> HIDE DEF rec
    <3> QED
      BY <2>1, <3>1, <3>2, HistorySettles
  <2> QED
    BY <1>3, <2>2, <2>3 DEF DecideApply
<1>4. CASE DecidePublish(h)
  <2> DEFINE doc == Candidate(h)
  <2>1. End(h) /\ section[h].kind = "publish"
    BY <1>4 DEF DecidePublish
  <2>2. CASE section[h].stored # Nothing \/ root.dir
    <3>1. UNCHANGED <<root, hist>>
      BY <1>4, <2>2 DEF DecidePublish
    <3> QED
      BY <2>1, <3>1, EndSettles
  <2>3. CASE ~(section[h].stored # Nothing \/ root.dir)
    <3> DEFINE e == [parent |-> Nothing, files |-> doc.files]
               item == [revision |-> doc, parent |-> Nothing]
    <3>1. /\ root' = [root EXCEPT !.def = doc.def, !.files = doc.files, !.dir = TRUE]
          /\ hist' = [index |-> <<item>>, entry |-> [r \in {doc} |-> e]]
      BY <1>4, <2>3 DEF DecidePublish
    <3>2. root.intent = Nothing
      BY <1>1, <2>1 DEF LibraryWhole, HostWhole, Mutating
    <3>3. root'.intent = Nothing
      BY <1>1, <3>1, <3>2 DEF PackageRoot
    <3>4. section[h].req \in DefRequest /\ section[h].req.def \in Definition
      BY <2>1 DEF LibraryIInv, LibraryTypes, Publishes
    <3>5. doc \in Document /\ doc.files \in Closure
      BY <1>1, <3>4 DEF Candidate, Document, DefRequest, PackageRoot
    <3> HIDE DEF doc
    <3>6. e \in EntryRecord /\ e.files = doc.files
      BY <3>5 DEF EntryRecord
    <3>7. EntryTypes'
      BY <3>1, <3>5, <3>6 DEF EntryTypes
    <3>8. ChainOK(hist'.index, hist'.entry)
      <4>1. Len(<<item>>) = 1 /\ <<item>>[1].revision = doc /\ 1 .. 1 = {1}
        OBVIOUS
      <4>2. doc \in DOMAIN [r \in {doc} |-> e] /\ [r \in {doc} |-> e][doc] = e
        OBVIOUS
      <4> HIDE DEF item, e
      <4> QED
        BY <3>1, <3>6, <4>1, <4>2 DEF ChainOK, Founded
    <3>9. section' = [section EXCEPT ![h] = IdleRequest]
      BY <2>1 DEF End
    <3>10. section'[h] = IdleRequest => ReadyToSave(h)'
      BY IdleType DEF ReadyToSave
    <3> HIDE DEF e, item
    <3> QED
      BY <1>1, <2>1, <3>3, <3>7, <3>8, <3>9, <3>10, HistoryMoves, NothingElse DEF Mutating
  <2> QED
    BY <2>2, <2>3
<1> QED
  BY <1>2, <1>3, <1>4

\* What a step of a save knows.
LEMMA SaverFacts ==
  ASSUME LibraryIInv, LibraryWhole, HistoryIInv, NEW h \in Hosts, section[h].pc \in Saving
  PROVE  /\ section[h].kind = "apply" /\ section[h].kind \in Mutating /\ section[h].pc # "idle"
         /\ root.intent = Nothing /\ section[h] \in SectionFields
         /\ section \in [Hosts -> SectionRecord]
         /\ hist = [index |-> hist.index, entry |-> hist.entry]
         /\ hist.index \in Seq(IndexRecord) /\ Len(hist.index) \in Nat
         /\ ChainOK(hist.index, hist.entry) /\ EntryTypes /\ ReadyToSave(h)
         /\ Candidate(h) \in Document
         /\ section[h].stored \in Document \cup {Nothing}
<1>1. section[h].kind = "apply" /\ section[h].kind \in Mutating /\ section[h].pc # "idle"
  BY DEF LibraryIInv, DeletionFenced, Mutating, Saving
<1>2. root.intent = Nothing
  BY <1>1 DEF LibraryWhole, HostWhole
<1> QED
  BY <1>1, <1>2, CandidateType, NextIndexType DEF LibraryIInv, LibraryTypes, SectionRecord, SectionFields, HistoryIInv

\* A save that only moves on, or writes one entry.
LEMMA SaverMoves ==
  ASSUME LibraryIInv, LibraryWhole, HistoryIInv, NEW h \in Hosts, section[h].pc \in Saving, root' = root,
         NEW to \in Saving, GoTo(h, to), EntryTypes', hist'.index = hist.index, ChainOK(hist.index, hist'.entry),
         to \in {"prune", "index", "pruned"} => ChainOK(NextIndex(h), hist'.entry),
         to = "pruned" => ChainOK(KeptIndex(h), hist'.entry),
         to # "drop", to = "publish" => Candidate(h) \in Listed
  PROVE  HistoryIInv'
<1> DEFINE rec == [section[h] EXCEPT !.pc = to]
<1>1. section' = [section EXCEPT ![h] = rec] /\ rec.pc = to /\ rec.req = section[h].req /\ rec.stored = section[h].stored
  BY SaverFacts DEF GoTo, SectionFields
<1> HIDE DEF rec
<1>2. ASSUME section'[h] = rec
      PROVE  ReadyToSave(h)'
  <2>1. Candidate(h)' = Candidate(h)
    BY <1>1, <1>2 DEF Candidate
  <2>2. NextIndex(h)' = NextIndex(h)
    BY <1>1, <1>2, <2>1 DEF NextIndex
  <2>3. KeptIndex(h)' = KeptIndex(h)
    BY <2>2 DEF KeptIndex, Excess
  <2>4. Listed' = Listed
    BY DEF Listed
  <2> QED
    BY <1>1, <1>2, <2>1, <2>2, <2>3, <2>4 DEF ReadyToSave
<1> QED
  BY <1>1, <1>2, SaverFacts, HistoryMoves

\* The entry of the candidate.
LEMMA AppendSettles ==
  ASSUME LibraryIInv, LibraryWhole, HistoryIInv, NEW h \in Hosts, AppendEntry(h)
  PROVE  HistoryIInv'
<1> DEFINE doc == Candidate(h)
           e == [parent |-> section[h].stored, files |-> EntryFiles(h)]
           entry == Overwritten(hist.entry, doc, e)
           item == [revision |-> doc, parent |-> section[h].stored]
<1>1. section[h].pc \in Saving /\ root' = root
  BY DEF AppendEntry, DefAt, Saving
<1>2. CASE InIndex(hist, doc)
  <2>1. GoTo(h, "publish") /\ hist' = hist
    BY <1>2 DEF AppendEntry
  <2>2. EntryTypes' /\ ChainOK(hist.index, hist'.entry)
    BY <2>1 DEF HistoryIInv, EntryTypes
  <2>3. Candidate(h) \in Listed
    BY <1>2, ListedAt
  <2> QED
    BY <1>1, <2>1, <2>2, <2>3, SaverMoves DEF Saving
<1>3. CASE ~InIndex(hist, doc)
  <2>1. hist' = [hist EXCEPT !.entry = entry]
    BY <1>3 DEF AppendEntry, WithEntry, Overwritten
  <2>2. GoTo(h, "prune") \/ GoTo(h, "index")
    BY <1>3 DEF AppendEntry
  <2>3. /\ e \in EntryRecord
        /\ \/ e.files = doc.files
           \/ /\ e.files = Nothing /\ e.parent \in Listed /\ e.parent.files = doc.files
    BY <1>1, SaverFacts, CandidateFounded
  <2>4. doc \in Document /\ item \in IndexRecord /\ item.revision = doc
    BY <1>1, SaverFacts DEF IndexRecord
  <2>5. NextIndex(h) = Append(hist.index, item)
    BY DEF NextIndex
  <2> HIDE DEF doc, e, item
  <2>6. doc \in DOMAIN entry /\ entry[doc] = e /\ \A r \in DOMAIN entry : r # doc => r \in DOMAIN hist.entry /\ entry[r] = hist.entry[r]
    BY DEF Overwritten
  <2>7. \A i \in 1 .. Len(hist.index) : hist.index[i].revision # doc
    BY <1>3, ListedAt DEF doc
  <2>8. ChainOK(hist.index, entry)
    BY <1>1, <2>3, <2>7, SaverFacts, ChainOverwritten
  <2> HIDE DEF entry
  <2>9. hist' = [index |-> hist.index, entry |-> entry]
    BY <1>1, <2>1, SaverFacts
  <2>10. e.files = doc.files \/ (/\ e.files = Nothing
                                 /\ \E j \in 1 .. Len(hist.index) : /\ e.parent = hist.index[j].revision
                                                                    /\ hist.index[j].revision.files = doc.files)
    BY <2>3, ListedAt
  <2>11. ChainOK(NextIndex(h), entry)
    BY <1>1, <2>3, <2>4, <2>5, <2>6, <2>7, <2>8, <2>10, SaverFacts, ChainAppended
  <2>12. EntryTypes'
    BY <2>3, <2>4, <2>6, <2>9 DEF HistoryIInv, EntryTypes
  <2>13. hist'.index = hist.index /\ hist'.entry = entry
    BY <2>9
  <2> QED
    BY <1>1, <2>2, <2>8, <2>11, <2>12, <2>13, SaverMoves DEF Saving
<1> QED
  BY <1>2, <1>3

\* What is kept of the index a save would write.
LEMMA KeptIndexIs ==
  ASSUME LibraryIInv, NEW h \in Hosts, section[h].kind = "apply", section[h].pc \in {"prune", "pruned"}
  PROVE  /\ Excess(h) \in Nat /\ Excess(h) < Len(NextIndex(h)) /\ Len(NextIndex(h)) \in Nat
         /\ KeptIndex(h) \in Seq(IndexRecord) /\ Len(KeptIndex(h)) = Len(NextIndex(h)) - Excess(h)
         /\ \A i \in 1 .. Len(KeptIndex(h)) : KeptIndex(h)[i] = NextIndex(h)[Excess(h) + i]
<1>1. /\ NextIndex(h) \in Seq(IndexRecord) /\ Len(NextIndex(h)) = Len(hist.index) + 1 /\ Len(hist.index) \in Nat
  BY NextIndexType
<1>2. Len(hist.index) + 1 > Retained
  BY DEF LibraryIInv, PruneExcess
<1>3. Excess(h) \in Nat /\ Excess(h) < Len(NextIndex(h)) /\ Len(NextIndex(h)) \in Nat
  BY <1>1, <1>2, DefinitionConstants DEF Excess
<1>4. \A i \in Excess(h) + 1 .. Len(NextIndex(h)) : NextIndex(h)[i] \in IndexRecord
  <2>1. \A i \in 1 .. Len(NextIndex(h)) : NextIndex(h)[i] \in IndexRecord
    BY <1>1, ElementOfSeq
  <2> QED
    BY <1>3, <2>1
<1>5. Excess(h) + 1 \in Int /\ Len(NextIndex(h)) \in Int
  BY <1>3
<1>6. /\ KeptIndex(h) \in Seq(IndexRecord)
      /\ Len(KeptIndex(h)) = IF Excess(h) + 1 <= Len(NextIndex(h)) THEN Len(NextIndex(h)) - (Excess(h) + 1) + 1 ELSE 0
      /\ \A i \in 1 .. Len(NextIndex(h)) - (Excess(h) + 1) + 1 : KeptIndex(h)[i] = NextIndex(h)[(Excess(h) + 1) + i - 1]
  BY <1>4, <1>5, SubSeqProperties DEF KeptIndex
<1>7. /\ Excess(h) + 1 <= Len(NextIndex(h)) /\ Len(NextIndex(h)) - (Excess(h) + 1) + 1 = Len(NextIndex(h)) - Excess(h)
      /\ \A i \in 1 .. Len(NextIndex(h)) - Excess(h) : (Excess(h) + 1) + i - 1 = Excess(h) + i
  BY <1>3
<1>8. Len(KeptIndex(h)) = Len(NextIndex(h)) - Excess(h)
  BY <1>6, <1>7
<1>9. ASSUME NEW i \in 1 .. Len(KeptIndex(h))
      PROVE  KeptIndex(h)[i] = NextIndex(h)[Excess(h) + i]
  <2>1. i \in 1 .. Len(NextIndex(h)) - Excess(h)
    BY <1>8
  <2>2. KeptIndex(h)[i] = NextIndex(h)[(Excess(h) + 1) + i - 1]
    BY <1>6, <1>7, <2>1
  <2> QED
    BY <1>7, <2>1, <2>2
<1> QED
  BY <1>3, <1>6, <1>8, <1>9

\* The index a save would write, as the history whose walks pruning takes.
LEMMA FullHistory ==
  ASSUME LibraryIInv, LibraryWhole, HistoryIInv, NEW h \in Hosts, section[h].pc = "prune",
         NEW i \in 1 .. Len(KeptIndex(h))
  PROVE  LET full == [hist EXCEPT !.index = NextIndex(h)]
             r == KeptIndex(h)[i].revision IN
         /\ r = NextIndex(h)[Excess(h) + i].revision /\ r \in Document
         /\ LoadRevisionEntry(full, r) = hist.entry[r] /\ r \in DOMAIN hist.entry
         /\ hist.entry[r] \in EntryRecord
         /\ InheritedPackageFiles(full, r) = r.files /\ r.files # Nothing
         /\ hist.entry[r].files = Nothing =>
              \E k \in DOMAIN Ancestry(full, r) : Ancestry(full, r)[k] = hist.entry[r].parent
<1> DEFINE full == [hist EXCEPT !.index = NextIndex(h)]
           r == KeptIndex(h)[i].revision
           at == Excess(h) + i
<1>1. section[h].pc \in Saving /\ section[h].pc \in {"prune", "index", "pruned"}
  BY DEF Saving
<1>2. section[h].kind = "apply" /\ ChainOK(NextIndex(h), hist.entry) /\ hist = [index |-> hist.index, entry |-> hist.entry]
  BY <1>1, SaverFacts DEF ReadyToSave
<1>3. NextIndex(h) \in Seq(IndexRecord)
  BY <1>2, NextIndexType
<1>4. /\ at \in 1 .. Len(NextIndex(h)) /\ KeptIndex(h)[i] = NextIndex(h)[at]
  BY <1>2, KeptIndexIs
<1>5. full.index = NextIndex(h) /\ full.entry = hist.entry
  BY <1>2
<1> HIDE DEF full
<1>6. r = full.index[at].revision /\ r \in Document /\ Founded(full.index, full.entry, at)
  BY <1>2, <1>3, <1>4, <1>5, IndexTypes DEF ChainOK
<1>7. /\ InheritedPackageFiles(full, r) = r.files
      /\ full.entry[r].files = Nothing => \E k \in DOMAIN Ancestry(full, r) : Ancestry(full, r)[k] = full.entry[r].parent
  <2>1. full.index \in Seq(IndexRecord) /\ ChainOK(full.index, full.entry) /\ at \in 1 .. Len(full.index)
    BY <1>2, <1>3, <1>4, <1>5
  <2> HIDE DEF at, r
  <2> QED
    BY <1>6, <2>1, WalkEnds
<1>8. r \in DOMAIN full.entry /\ full.entry[r] \in EntryRecord
  BY <1>6 DEF Founded
<1>9. LoadRevisionEntry(full, r) = full.entry[r]
  BY <1>8, EntryIs
<1>10. r.files # Nothing
  BY <1>6, NothingElse DEF Document
<1> HIDE DEF r
<1> QED
  BY <1>4, <1>5, <1>6, <1>7, <1>8, <1>9, <1>10 DEF full, r

\* Writing inherited files into an entry of its own.
LEMMA MaterializeSettles ==
  ASSUME LibraryIInv, LibraryWhole, HistoryIInv, NEW h \in Hosts, Materialize(h)
  PROVE  HistoryIInv'
<1> DEFINE full == [hist EXCEPT !.index = NextIndex(h)]
           todo == {i \in DOMAIN KeptIndex(h) : CrossesDropped(h, KeptIndex(h)[i].revision)}
           n == Excess(h)
<1>1. section[h].pc = "prune" /\ section[h].pc \in Saving /\ root' = root
  BY DEF Materialize, DefAt, Saving
<1>2. /\ section[h].kind = "apply" /\ ChainOK(NextIndex(h), hist.entry) /\ ChainOK(hist.index, hist.entry)
      /\ hist = [index |-> hist.index, entry |-> hist.entry] /\ EntryTypes /\ section[h] \in SectionFields
      /\ section \in [Hosts -> SectionRecord]
  BY <1>1, SaverFacts DEF ReadyToSave
<1>3. NextIndex(h) \in Seq(IndexRecord)
  BY <1>2, NextIndexType
<1>4. /\ n \in Nat /\ n < Len(NextIndex(h)) /\ Len(NextIndex(h)) \in Nat
      /\ KeptIndex(h) \in Seq(IndexRecord) /\ Len(KeptIndex(h)) = Len(NextIndex(h)) - n
      /\ \A i \in 1 .. Len(KeptIndex(h)) : KeptIndex(h)[i] = NextIndex(h)[n + i]
      /\ DOMAIN KeptIndex(h) = 1 .. Len(KeptIndex(h))
  BY <1>1, <1>2, KeptIndexIs, LenProperties
<1>5. CASE todo = {}
  <2>1. GoTo(h, "pruned") /\ hist' = hist
    BY <1>5 DEF Materialize
  <2>2. ASSUME NEW i \in n + 1 .. Len(NextIndex(h)), NEW j \in 1 .. n,
               hist.entry[NextIndex(h)[i].revision].files = Nothing,
               hist.entry[NextIndex(h)[i].revision].parent = NextIndex(h)[j].revision
        PROVE  FALSE
    <3> DEFINE r == KeptIndex(h)[i - n].revision
    <3>1. i - n \in 1 .. Len(KeptIndex(h)) /\ n + (i - n) = i
      BY <1>4
    <3>2. r = NextIndex(h)[i].revision
      BY <1>4, <3>1
    <3>3. /\ LoadRevisionEntry(full, r).files = Nothing /\ InheritedPackageFiles(full, r) # Nothing
          /\ \E k \in DOMAIN Ancestry(full, r) : Ancestry(full, r)[k] = NextIndex(h)[j].revision
      <4> HIDE DEF n
      <4>1. r = NextIndex(h)[i].revision /\ hist.entry[r].files = Nothing /\ hist.entry[r].parent = NextIndex(h)[j].revision
        BY <2>2, <3>2
      <4>2. /\ LoadRevisionEntry(full, r) = hist.entry[r] /\ InheritedPackageFiles(full, r) = r.files /\ r.files # Nothing
            /\ hist.entry[r].files = Nothing =>
                 \E k \in DOMAIN Ancestry(full, r) : Ancestry(full, r)[k] = hist.entry[r].parent
        BY <1>1, <3>1, FullHistory
      <4> HIDE DEF r, full
      <4> QED
        BY <4>1, <4>2
    <3>4. NextIndex(h)[j].revision \in Dropped(h)
      BY DEF Dropped
    <3> HIDE DEF r, n
    <3>5. CrossesDropped(h, r)
      BY <3>3, <3>4 DEF CrossesDropped
    <3> QED
      BY <1>4, <1>5, <3>1, <3>5 DEF r
  <2>3. ChainOK(KeptIndex(h), hist.entry)
    <3> HIDE DEF n
    <3>1. n \in Nat /\ n <= Len(NextIndex(h)) /\ ChainOK(NextIndex(h), hist.entry)
      BY <1>2, <1>4
    <3>2. Without(KeptIndex(h), NextIndex(h), n)
      BY <1>4 DEF Without
    <3>3. NoneInherits(NextIndex(h), hist.entry, n)
      BY <2>2 DEF NoneInherits
    <3> QED
      BY <1>3, <3>1, <3>2, <3>3, ChainPruned
  <2>4. EntryTypes' /\ hist'.index = hist.index /\ hist'.entry = hist.entry
    BY <1>2, <2>1 DEF EntryTypes
  <2> QED
    BY <1>1, <1>2, <2>1, <2>3, <2>4, SaverMoves DEF Saving
<1>6. CASE todo # {}
  <2> DEFINE i == CHOOSE i \in todo : \A j \in todo : i <= j
             r == KeptIndex(h)[i].revision
             e == [LoadRevisionEntry(full, r) EXCEPT !.files = InheritedPackageFiles(full, r)]
             entry == Overwritten(hist.entry, r, e)
  <2>1. hist' = [hist EXCEPT !.entry = entry] /\ section' = section
    BY <1>6 DEF Materialize, WithEntry, Overwritten
  <2>2. i \in 1 .. Len(KeptIndex(h))
    <3>1. todo \subseteq Nat
      BY <1>4
    <3> HIDE DEF todo
    <3>2. \E x \in todo : \A y \in todo : x <= y
      BY <1>6, <3>1, LeastNat
    <3>3. i \in todo
      BY <3>2
    <3> QED
      BY <1>4, <3>3 DEF todo
  <2> HIDE DEF i
  <2>3. /\ r \in Document /\ LoadRevisionEntry(full, r) = hist.entry[r] /\ hist.entry[r] \in EntryRecord
        /\ InheritedPackageFiles(full, r) = r.files
    BY <1>1, <2>2, FullHistory
  <2>4. e = [hist.entry[r] EXCEPT !.files = r.files]
    BY <2>3
  <2> HIDE DEF r
  <2>5. r.files \in Closure
    BY <2>3 DEF Document
  <2> HIDE DEF e
  <2>6. e \in EntryRecord /\ e.files = r.files
    BY <2>3, <2>4, <2>5 DEF EntryRecord
  <2>7. ChainOK(hist.index, entry) /\ ChainOK(NextIndex(h), entry)
    BY <1>2, <2>6, ChainOverwritten
  <2>8. \A x \in DOMAIN entry : IF x = r THEN entry[x] = e ELSE x \in DOMAIN hist.entry /\ entry[x] = hist.entry[x]
    BY DEF Overwritten
  <2> HIDE DEF entry
  <2>9. hist' = [index |-> hist.index, entry |-> entry]
    BY <1>2, <2>1
  <2>10. EntryTypes'
    BY <1>2, <2>3, <2>6, <2>8, <2>9 DEF EntryTypes
  <2>11. GoTo(h, "prune")
    <3>1. section[h] = [section[h] EXCEPT !.pc = "prune"]
      BY <1>1, <1>2 DEF SectionFields
    <3>2. section = [section EXCEPT ![h].pc = "prune"]
      BY <1>2, <3>1
    <3> QED
      BY <2>1, <3>2 DEF GoTo
  <2>12. hist'.index = hist.index /\ hist'.entry = entry
    BY <2>9
  <2> QED
    BY <1>1, <2>7, <2>10, <2>11, <2>12, SaverMoves DEF Saving
<1> QED
  BY <1>5, <1>6

LEMMA KeepSettles ==
  ASSUME LibraryIInv, LibraryWhole, HistoryIInv, NEW h \in Hosts, KeepAll(h)
  PROVE  HistoryIInv'
<1>1. section[h].pc = "prune" /\ section[h].pc \in Saving /\ root' = root /\ hist' = hist /\ GoTo(h, "index")
  BY DEF KeepAll, DefAt, Saving
<1>2. ChainOK(NextIndex(h), hist.entry) /\ ChainOK(hist.index, hist.entry) /\ EntryTypes
  BY <1>1, SaverFacts DEF ReadyToSave
<1>3. EntryTypes'
  BY <1>1, <1>2 DEF EntryTypes
<1> QED
  BY <1>1, <1>2, <1>3, SaverMoves DEF Saving

\* The index, whole or pruned.
LEMMA IndexSettles ==
  ASSUME LibraryIInv, LibraryWhole, HistoryIInv, NEW h \in Hosts, WriteIndex(h)
  PROVE  HistoryIInv'
<1> DEFINE next == NextIndex(h)
           L == Len(next)
           n == Excess(h)
<1>1. section[h].pc \in {"index", "pruned"} /\ section[h].pc \in Saving /\ root' = root
  BY DEF WriteIndex, DefAt, Saving
<1>2. /\ section[h].kind = "apply" /\ section[h].kind \in Mutating /\ section[h].pc # "idle"
      /\ ChainOK(next, hist.entry) /\ hist = [index |-> hist.index, entry |-> hist.entry]
      /\ root.intent = Nothing /\ section[h] \in SectionFields /\ EntryTypes
      /\ section[h].pc = "pruned" => ChainOK(KeptIndex(h), hist.entry)
  BY <1>1, SaverFacts DEF ReadyToSave
<1>3. next \in Seq(IndexRecord) /\ L = Len(hist.index) + 1 /\ Len(hist.index) \in Nat
  BY <1>2, NextIndexType
<1>4. next[L].revision = Candidate(h)
  <2> DEFINE item == [revision |-> Candidate(h), parent |-> section[h].stored]
  <2>1. item \in IndexRecord /\ item.revision = Candidate(h)
    BY <1>1, SaverFacts DEF IndexRecord
  <2>2. next = Append(hist.index, item)
    BY DEF NextIndex
  <2> HIDE DEF item, next
  <2>3. hist.index \in Seq(IndexRecord)
    BY <1>1, SaverFacts
  <2> QED
    BY <1>3, <2>1, <2>2, <2>3, AppendProperties
<1> HIDE DEF next
<1>5. CASE section[h].pc = "index"
  <2> DEFINE rec == [section[h] EXCEPT !.pc = "publish"]
  <2>1. hist' = [hist EXCEPT !.index = next] /\ section' = [section EXCEPT ![h] = rec]
    BY <1>5 DEF WriteIndex, DefAt, GoTo, next
  <2>2. hist'.index = next /\ hist'.entry = hist.entry
    BY <1>2, <2>1
  <2>3. rec.pc = "publish" /\ rec.req = section[h].req
    BY <1>2 DEF SectionFields
  <2> HIDE DEF rec
  <2>4. EntryTypes' /\ ChainOK(hist'.index, hist'.entry)
    BY <1>2, <2>2 DEF EntryTypes
  <2>5. Candidate(h) \in Listed'
    <3>1. DOMAIN next = 1 .. L /\ L \in 1 .. L
      BY <1>3, LenProperties
    <3> QED
      BY <1>4, <2>2, <3>1 DEF Listed
  <2>6. section'[h] = rec => ReadyToSave(h)'
    <3> SUFFICES ASSUME section'[h] = rec PROVE ReadyToSave(h)'
      OBVIOUS
    <3>1. Candidate(h)' = Candidate(h)
      BY <1>1, <2>3 DEF Candidate
    <3> QED
      BY <2>3, <2>5, <3>1 DEF ReadyToSave
  <2>7. root'.intent = Nothing
    BY <1>1, <1>2
  <2> QED
    BY <1>2, <2>1, <2>4, <2>6, <2>7, HistoryMoves
<1>6. CASE section[h].pc = "pruned"
  <2> DEFINE rec == [section[h] EXCEPT !.pc = "drop", !.drop = Dropped(h)]
             kept == KeptIndex(h)
  <2>1. hist' = [hist EXCEPT !.index = kept] /\ section' = [section EXCEPT ![h] = rec]
    BY <1>6 DEF WriteIndex, DefAt
  <2>2. hist'.index = kept /\ hist'.entry = hist.entry
    BY <1>2, <2>1
  <2>3. rec.pc = "drop" /\ rec.req = section[h].req /\ rec.drop = Dropped(h)
    BY <1>2 DEF SectionFields
  <2> HIDE DEF rec
  <2>4. EntryTypes' /\ ChainOK(hist'.index, hist'.entry)
    BY <1>2, <1>6, <2>2 DEF EntryTypes
  <2>5. /\ n \in Nat /\ n < L /\ L \in Nat /\ kept \in Seq(IndexRecord) /\ Len(kept) = L - n
        /\ \A i \in 1 .. Len(kept) : kept[i] = next[n + i]
        /\ DOMAIN kept = 1 .. Len(kept)
    BY <1>2, <1>6, KeptIndexIs, LenProperties DEF next
  <2> HIDE DEF kept, n
  <2>6. Candidate(h) \in Listed'
    <3>1. L - n \in 1 .. Len(kept) /\ n + (L - n) = L
      BY <2>5
    <3>2. kept[L - n].revision = Candidate(h)
      BY <1>4, <2>5, <3>1
    <3> QED
      BY <2>2, <2>5, <3>1, <3>2 DEF Listed
  <2>7. Dropped(h) \cap Listed' = {}
    <3> SUFFICES ASSUME NEW r \in Dropped(h), r \in Listed' PROVE FALSE
      OBVIOUS
    <3>1. PICK j \in 1 .. n : r = next[j].revision
      BY DEF Dropped, n, next
    <3>2. PICK i \in 1 .. Len(kept) : r = kept[i].revision
      BY <2>2, <2>5 DEF Listed
    <3>3. r = next[n + i].revision /\ n + i \in 1 .. L /\ j \in 1 .. L /\ n + i # j
      BY <2>5, <3>1, <3>2
    <3> QED
      BY <1>2, <3>1, <3>3 DEF ChainOK
  <2>8. section'[h] = rec => ReadyToSave(h)'
    <3> SUFFICES ASSUME section'[h] = rec PROVE ReadyToSave(h)'
      OBVIOUS
    <3>1. Candidate(h)' = Candidate(h)
      BY <1>1, <2>3 DEF Candidate
    <3> QED
      BY <2>3, <2>6, <2>7, <3>1 DEF ReadyToSave
  <2>9. root'.intent = Nothing
    BY <1>1, <1>2
  <2> QED
    BY <1>2, <2>1, <2>4, <2>8, <2>9, HistoryMoves
<1> QED
  BY <1>1, <1>5, <1>6

\* The entry files of what left the index go, as many as can be removed.
LEMMA DropSettles ==
  ASSUME LibraryIInv, LibraryWhole, HistoryIInv, NEW h \in Hosts, NEW gone, DropEntries(h, gone)
  PROVE  HistoryIInv'
<1> DEFINE rec == [section[h] EXCEPT !.pc = "publish", !.drop = {}]
           entry == [r \in DOMAIN hist.entry \ gone |-> hist.entry[r]]
<1>1. section[h].pc = "drop" /\ section[h].pc \in Saving /\ root' = root /\ gone \subseteq section[h].drop
  BY DEF DropEntries, DefAt, Saving
<1>2. /\ section[h].kind \in Mutating /\ section[h].pc # "idle" /\ root.intent = Nothing
      /\ ChainOK(hist.index, hist.entry) /\ hist = [index |-> hist.index, entry |-> hist.entry]
      /\ section[h] \in SectionFields /\ EntryTypes
      /\ section[h].drop \cap Listed = {} /\ Candidate(h) \in Listed
  BY <1>1, SaverFacts DEF ReadyToSave
<1>3. hist' = [hist EXCEPT !.entry = entry] /\ section' = [section EXCEPT ![h] = rec]
  BY DEF DropEntries
<1>4. rec.pc = "publish" /\ rec.req = section[h].req
  BY <1>2 DEF SectionFields
<1> HIDE DEF rec
<1>5. \A i \in 1 .. Len(hist.index) : hist.index[i].revision \notin gone
  BY <1>1, <1>2, ListedAt
<1>6. ChainOK(hist.index, entry)
  BY <1>2, <1>5, ChainDropped
<1>7. \A r \in DOMAIN entry : r \in DOMAIN hist.entry /\ entry[r] = hist.entry[r]
  OBVIOUS
<1> HIDE DEF entry
<1>8. hist'.index = hist.index /\ hist'.entry = entry
  BY <1>2, <1>3
<1>9. EntryTypes'
  BY <1>2, <1>7, <1>8 DEF EntryTypes
<1>10. section'[h] = rec => ReadyToSave(h)'
  <2> SUFFICES ASSUME section'[h] = rec PROVE ReadyToSave(h)'
    OBVIOUS
  <2>1. Candidate(h)' = Candidate(h)
    BY <1>1, <1>4 DEF Candidate
  <2>2. Listed' = Listed
    BY <1>8 DEF Listed
  <2> QED
    BY <1>2, <1>4, <2>1, <2>2 DEF ReadyToSave
<1>11. root'.intent = Nothing
  BY <1>1, <1>2
<1> QED
  BY <1>2, <1>3, <1>6, <1>8, <1>9, <1>10, <1>11, HistoryMoves

\* Publication: what becomes current, or the intent, is listed.
LEMMA PublishSettles ==
  ASSUME LibraryIInv, LibraryWhole, HistoryIInv, NEW h \in Hosts, RenameDefinition(h) \/ WriteIntent(h)
  PROVE  HistoryIInv'
<1>1. section[h].pc = "publish" /\ section[h].pc \in Saving /\ hist' = hist
  BY DEF RenameDefinition, WriteIntent, DefAt, Saving
<1>2. root \in PackageRoot /\ section[h] \in SectionFields /\ Candidate(h) \in Listed
  BY <1>1, SaverFacts DEF ReadyToSave, LibraryIInv, LibraryTypes
<1>3. CASE RenameDefinition(h)
  <2>1. End(h) /\ root' = [root EXCEPT !.def = section[h].req.def]
    BY <1>3 DEF RenameDefinition
  <2>2. root'.files = root.files /\ root'.intent = root.intent
    BY <1>2, <2>1 DEF PackageRoot
  <2> QED
    BY <1>1, <2>1, <2>2, EndSettles
<1>4. CASE WriteIntent(h)
  <2> DEFINE rec == [section[h] EXCEPT !.pc = "recover"]
             intent == [doc |-> Candidate(h), cleanup |-> root.files]
  <2>1. section' = [section EXCEPT ![h] = rec] /\ root' = [root EXCEPT !.intent = intent]
    BY <1>4 DEF WriteIntent, GoTo
  <2>2. rec.pc = "recover" /\ intent.doc = Candidate(h)
    BY <1>2 DEF SectionFields
  <2> HIDE DEF rec, intent
  <2>3. root'.intent.doc \in Listed'
    BY <1>1, <1>2, <2>1, <2>2 DEF PackageRoot, Listed
  <2>4. section'[h] = rec => ReadyToSave(h)'
    BY <2>2 DEF ReadyToSave
  <2>5. section[h].kind \in Mutating /\ section[h].pc # "idle" /\ EntryTypes /\ ChainOK(hist.index, hist.entry)
    BY <1>1, SaverFacts
  <2>6. EntryTypes' /\ ChainOK(hist'.index, hist'.entry)
    BY <1>1, <2>5 DEF EntryTypes
  <2> QED
    BY <2>1, <2>3, <2>4, <2>5, <2>6, HistoryMoves
<1> QED
  BY <1>3, <1>4

LEMMA HistorySteps ==
  ASSUME LibraryIInv, LibraryWhole, Exclusive, HistoryIInv, [DefNext]_defVars
  PROVE  HistoryIInv'
<1>1. ASSUME NEW h \in Hosts, SectionStep(h)
      PROVE  HistoryIInv'
  <2>1. CASE Load(h) \/ Recover(h)
    BY <2>1, LoadSettles
  <2>2. CASE (\E p \in Paths : ReplayFile(h, p)) \/ ReplayDefinition(h) \/ ClearIntent(h)
    BY <2>2, ReplaySettles
  <2>3. CASE DecideProposal(h) \/ EndRead(h) \/ DecideApply(h) \/ DecideDelete(h) \/ DecidePublish(h)
    BY <2>3, DecideSettles
  <2>4. CASE AppendEntry(h)
    BY <2>4, AppendSettles
  <2>5. CASE Materialize(h)
    BY <2>5, MaterializeSettles
  <2>6. CASE KeepAll(h)
    BY <2>6, KeepSettles
  <2>7. CASE WriteIndex(h)
    BY <2>7, IndexSettles
  <2>8. CASE \E gone \in SUBSET section[h].drop : DropEntries(h, gone)
    BY <2>8, DropSettles
  <2>9. CASE RenameDefinition(h) \/ WriteIntent(h)
    BY <2>9, PublishSettles
  <2> QED
    BY <1>1, <2>1, <2>2, <2>3, <2>4, <2>5, <2>6, <2>7, <2>8, <2>9 DEF SectionStep
<1>2. ASSUME NEW h \in Hosts, Ask(h) \/ Start(h) \/ Fail(h) \/ Crash(h)
      PROVE  HistoryIInv'
  BY <1>2, RequestSettles
<1>3. ASSUME NEW p \in Paths, OutsideEdit(p)
      PROVE  HistoryIInv'
  <2>1. UNCHANGED <<section, hist>> /\ root'.intent = root.intent
    BY <1>3, EditKeeps DEF OutsideEdit
  <2>2. \A h \in Hosts : section[h].pc = "idle"
    BY <1>3 DEF OutsideEdit, DefAt
  <2>3. \A h \in Hosts : ReadyToSave(h)'
    BY <2>1, <2>2 DEF ReadyToSave
  <2> QED
    BY <2>1, <2>3 DEF HistoryIInv, EntryTypes, Listed
<1>4. CASE UNCHANGED defVars
  <2>1. \A h \in Hosts : ReadyToSave(h)'
    BY <1>4, ReadyStays DEF defVars, HistoryIInv
  <2> QED
    BY <1>4, <2>1 DEF defVars, HistoryIInv, EntryTypes, Listed
<1> QED
  BY <1>1, <1>2, <1>3, <1>4 DEF DefNext

LEMMA HistoryInit == DefInit => HistoryIInv
<1> SUFFICES ASSUME DefInit PROVE HistoryIInv
  OBVIOUS
<1>1. hist.index = <<>> /\ hist.entry = <<>> /\ root.intent = Nothing /\ \A h \in Hosts : section[h] = IdleRequest
  BY DEF DefInit, EmptyRoot
<1>2. Len(hist.index) = 0 /\ DOMAIN hist.entry = {}
  BY <1>1
<1> QED
  BY <1>1, <1>2, IdleType DEF HistoryIInv, EntryTypes, ChainOK, ReadyToSave

\* What is listed can be restored.
LEMMA ListedResolves ==
  ASSUME LibraryIInv, HistoryIInv
  PROVE  HistoryResolves /\ IntentReplayable
<1>1. ASSUME NEW r \in Listed
      PROVE  ReadRevision(hist, r) = r.files
  <2>1. PICK i \in 1 .. Len(hist.index) : hist.index[i].revision = r
    BY ListedAt
  <2>2. hist.index \in Seq(IndexRecord) /\ ChainOK(hist.index, hist.entry)
    BY DEF LibraryIInv, LibraryTypes, HistoryIInv
  <2>3. InheritedPackageFiles(hist, r) = r.files
    BY <2>1, <2>2, WalkEnds
  <2> QED
    BY <2>3, ListedAt DEF ReadRevision
<1> QED
  BY <1>1 DEF HistoryResolves, IntentReplayable, HistoryIInv

\* The library lease has a host or nobody.
LeaseHeld == defLease \in Hosts \cup {Nothing}
LEMMA LeaseKept ==
  ASSUME LeaseHeld, [DefNext]_defVars
  PROVE  LeaseHeld'
<1>1. ASSUME NEW h \in Hosts, End(h)
      PROVE  LeaseHeld'
  BY <1>1 DEF End, LeaseHeld
<1>2. ASSUME UNCHANGED defLease
      PROVE  LeaseHeld'
  BY <1>2 DEF LeaseHeld
<1>3. ASSUME NEW h \in Hosts, SectionStep(h)
      PROVE  LeaseHeld'
  <2>1. UNCHANGED defLease \/ End(h)
    <3>1. CASE Load(h) \/ Recover(h)
      BY <3>1 DEF Load, Recover, BeginReplay
    <3>2. CASE (\E p \in Paths : ReplayFile(h, p)) \/ ReplayDefinition(h) \/ ClearIntent(h)
      BY <3>2 DEF ReplayFile, ReplayDefinition, ClearIntent
    <3>3. CASE DecideProposal(h) \/ EndRead(h) \/ DecideApply(h) \/ DecideDelete(h) \/ DecidePublish(h)
      BY <3>3 DEF DecideProposal, EndRead, DecideApply, DecideDelete, DecidePublish
    <3>4. CASE AppendEntry(h) \/ Materialize(h) \/ KeepAll(h) \/ WriteIndex(h)
                 \/ \E gone \in SUBSET section[h].drop : DropEntries(h, gone)
      BY <3>4 DEF AppendEntry, Materialize, KeepAll, WriteIndex, DropEntries
    <3>5. CASE RenameDefinition(h) \/ WriteIntent(h)
      BY <3>5 DEF RenameDefinition, WriteIntent
    <3> QED
      BY <1>3, <3>1, <3>2, <3>3, <3>4, <3>5 DEF SectionStep
  <2> QED
    BY <1>1, <1>2, <2>1
<1>4. ASSUME NEW h \in Hosts, Ask(h)
      PROVE  LeaseHeld'
  BY <1>2, <1>4 DEF Ask, Read, CreateDefinition, CreateBlueprint, DeleteDefinition, Propose, Revert
<1>5. ASSUME NEW h \in Hosts, Start(h)
      PROVE  LeaseHeld'
  BY <1>5 DEF Start, LeaseHeld
<1>6. ASSUME NEW h \in Hosts, Fail(h) \/ Crash(h)
      PROVE  LeaseHeld'
  BY <1>1, <1>6 DEF Fail, Crash
<1>7. ASSUME NEW p \in Paths, OutsideEdit(p)
      PROVE  LeaseHeld'
  BY <1>2, <1>7 DEF OutsideEdit
<1>8. CASE UNCHANGED defVars
  BY <1>2, <1>8 DEF defVars
<1> QED
  BY <1>3, <1>4, <1>5, <1>6, <1>7, <1>8 DEF DefNext

LEMMA LibraryTyped ==
  ASSUME LibraryIInv, HistoryIInv, LeaseHeld
  PROVE  DefTypeOK
<1>1. \A i \in DOMAIN hist.index : hist.index[i] \in [revision : Document, parent : Document \cup {Nothing}]
  <2>1. hist.index \in Seq(IndexRecord)
    BY DEF LibraryIInv, LibraryTypes
  <2>2. DOMAIN hist.index = 1 .. Len(hist.index) /\ \A i \in 1 .. Len(hist.index) : hist.index[i] \in IndexRecord
    BY <2>1, LenProperties, ElementOfSeq
  <2> QED
    BY <2>2 DEF IndexRecord
<1>2. \A h \in Hosts : section[h].stored \in Document \cup {Nothing}
  BY DEF LibraryIInv, LibraryTypes, SectionRecord, SectionFields
<1>3. /\ root.def \in Definition \cup {Nothing} /\ root.files \in Closure
      /\ root.intent = Nothing \/ root.intent \in [doc : Document, cleanup : Closure]
      /\ root.deleted \in BOOLEAN /\ root.dir \in BOOLEAN
  <2>1. root \in PackageRoot
    BY DEF LibraryIInv, LibraryTypes
  <2> QED
    BY <2>1 DEF PackageRoot
<1>4. \A r \in DOMAIN hist.entry :
        r \in Document /\ hist.entry[r] \in [parent : Document \cup {Nothing}, files : Closure \cup {Nothing}]
  BY DEF HistoryIInv, EntryTypes, EntryRecord
<1>5. current \in Document \cup {Nothing} /\ defLease \in Hosts \cup {Nothing}
  BY DEF LibraryIInv, LibraryTypes, LeaseHeld
<1> QED
  BY <1>1, <1>2, <1>3, <1>4, <1>5 DEF DefTypeOK

\* Whatever is listed can be restored at every moment, through prunes, failures
\* and crashes in them, and a commit that was begun can be finished: for one
\* host in any case, for several as long as no restoration is pending
\* (appendRevisionHistory, materializeForPrune, saveDefinitionDocument).
THEOREM RevisionsResolve == DefSpec /\ []Exclusive => [](HistoryResolves /\ IntentReplayable)
<1>1. LibraryIInv /\ LibraryWhole /\ HistoryIInv /\ Exclusive /\ [DefNext]_defVars =>
        LibraryIInv' /\ LibraryWhole' /\ HistoryIInv'
  BY LibraryStep, WholeKept, HistorySteps
<1>2. LibraryIInv /\ HistoryIInv => HistoryResolves /\ IntentReplayable
  BY ListedResolves
<1> QED
  BY <1>1, <1>2, LibraryInit, WholeInit, HistoryInit, PTL DEF DefSpec

\* The library of one host: its types, every listed revision, every load and
\* every commit begun (persist.ts).
THEOREM LibraryConsistent ==
  ASSUME OneHost
  PROVE  DefSpec => []DefInv
<1>1. DefInit => LeaseHeld
  BY DEF DefInit, LeaseHeld
<1>2. LibraryIInv /\ LibraryWhole /\ HistoryIInv /\ LeaseHeld /\ [DefNext]_defVars =>
        LibraryIInv' /\ LibraryWhole' /\ HistoryIInv' /\ LeaseHeld'
  BY LibraryStep, WholeKept, HistorySteps, LeaseKept DEF Exclusive
<1>3. LibraryIInv /\ LibraryWhole => LoadIsWhole
  BY DEF LibraryWhole, HostWhole, LoadIsWhole, DefAt, Saving
<1>4. LibraryIInv /\ LibraryWhole /\ HistoryIInv /\ LeaseHeld => DefInv
  BY <1>3, LibraryTyped, ListedResolves DEF DefInv
<1> QED
  BY <1>1, <1>2, <1>4, LibraryInit, WholeInit, HistoryInit, PTL DEF DefSpec
==============================================================================
