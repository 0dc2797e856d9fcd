----------------------------- MODULE MemoryProofs -----------------------------
(***************************************************************************)
(* What every memory command of the actor does to a job, and from it, for  *)
(* any number of jobs, callers, edits, revocations and faults, that the    *)
(* readers accept every job, that a job which ended installs nothing, that *)
(* recorded evidence stays, and that a job sends at most one request.  The *)
(* second half adds what the threads know of a job, from which, for a      *)
(* renderer that sends its commands as ChapterMemory.tsx does, no paid     *)
(* work is lost between the workers, the stop registry and the recovery    *)
(* map.                                                                    *)
(***************************************************************************)
EXTENDS MemoryJobs, TLAPS

\* A job as the file may hold it.
Good(row) == row \in JobRows /\ (row # NoJob => LegalRecord(row))

\* A job that no claim has reached.
Unclaimed == {"absent", "queued"}

\* What one command may make of a job.
Keeps(row, next) ==
    /\ Good(next)
    /\ row.status \in Ended => next.status \in Ended /\ next.view = NoView
    /\ row.result # NoResult => next.result = row.result /\ next.status = row.status
    /\ row.view # NoView => next.view = row.view
    /\ next.status \in Unclaimed => row.status \in Unclaimed

\* The empty result and the empty view are typed, and so is the absent job.
LEMMA NoneTyped ==
  /\ NoResult \in Results /\ NoView \in [candidate : Results, current : BOOLEAN]
  /\ NoJob \in JobRows /\ NoJob.status = "absent" /\ NoJob.result = NoResult
  /\ NoJob.view = NoView
<1>1. NoResult \in Results BY DEF NoResult, Results, Outcomes
<1>2. NoView \in [candidate : Results, current : BOOLEAN] BY <1>1 DEF NoView
<1> HIDE DEF NoResult
<1>3. NoJob \in JobRows BY <1>1, <1>2 DEF NoJob, JobRows, Kinds, Reasons, NoView
<1> QED BY <1>1, <1>2, <1>3 DEF NoJob

\* A legal job has a status of its own, a recorded result only once it is
\* over, and a view only when it completed.
LEMMA LegalFacts ==
  ASSUME NEW row \in JobRows, LegalRecord(row)
  PROVE  /\ row.status \in Statuses
         /\ row.result # NoResult => row.status \notin Active
         /\ row.view # NoView => row.status = "completed"
         /\ row.status \in {"running", "stopping"} => row.dispatch = "dispatched"
         /\ row.status = "queued" => row.dispatch = "pending"
<1>1. LegalLifecycle(row) /\ (row.view # NoView => row.status = "completed")
  BY DEF LegalRecord
<1>2. row.status \in Statuses \cup {"absent"} BY DEF JobRows
<1>3. row.status # "absent" BY <1>1 DEF LegalLifecycle
<1> QED BY <1>1, <1>2, <1>3 DEF LegalLifecycle, Active, Statuses

\* The same of every good job.
LEMMA GoodFacts ==
  ASSUME NEW row, Good(row)
  PROVE  /\ row \in JobRows
         /\ row.status # "absent" => row # NoJob /\ LegalRecord(row)
         /\ row.result # NoResult => row.status \notin Active
         /\ row.view # NoView => row.status = "completed"
         /\ row.status \in {"running", "stopping"} => row.dispatch = "dispatched"
         /\ row.status = "queued" => row.dispatch = "pending"
<1>1. row \in JobRows BY DEF Good
<1>2. CASE row = NoJob BY <1>1, <1>2, NoneTyped
<1>3. CASE row # NoJob BY <1>1, <1>3, LegalFacts DEF Good
<1> QED BY <1>2, <1>3

\* A command that is refused, or a reader, leaves the job as it was.
LEMMA KeepsSame == ASSUME NEW row, Good(row) PROVE Keeps(row, row)
  BY GoodFacts DEF Keeps, Ended

\* A job that goes from one status to another without a result.
LEMMA MoveKeeps ==
  ASSUME NEW row, Good(row), row.status \in Active,
         NEW s \in Statuses, NEW q \in Reasons, NEW d \in {"pending", "dispatched"},
         LegalLifecycle([row EXCEPT !.status = s, !.reason = q, !.dispatch = d]),
         s \notin {"completed", "failed", "queued"},
         row.status = "stopping" => s \in Ended
  PROVE  Keeps(row, [row EXCEPT !.status = s, !.reason = q, !.dispatch = d])
<1> DEFINE next == [row EXCEPT !.status = s, !.reason = q, !.dispatch = d]
<1>1. /\ row \in JobRows /\ row.result = NoResult /\ row.view = NoView
      /\ row.status \in Statuses
  BY GoodFacts DEF Active, Statuses
<1>2. next \in JobRows BY <1>1 DEF JobRows
<1>3. /\ next.status = s /\ next.reason = q /\ next.dispatch = d
      /\ next.result = NoResult /\ next.view = NoView
  BY <1>1 DEF JobRows
<1> HIDE DEF next
<1>4. LegalRecord(next) BY <1>3 DEF LegalRecord, next
<1>5. row.status \in Ended => s \in Ended BY DEF Ended, Active
<1>6. s \notin Unclaimed BY DEF Statuses, Active, Unclaimed
<1>7. Keeps(row, next) BY <1>1, <1>2, <1>3, <1>4, <1>5, <1>6 DEF Keeps, Good
<1> QED BY <1>7 DEF next

\* The lifecycle of such a job, by the status it reaches.
LEMMA MoveLegal ==
  ASSUME NEW row \in JobRows, row.result = NoResult,
         NEW s \in Statuses, NEW q \in Reasons, NEW d \in {"pending", "dispatched"},
         \/ s = "running" /\ d = "dispatched" /\ q = "none"
         \/ s = "stopping" /\ d = "dispatched" /\ q = "author_stopped"
         \/ s = "stopped" /\ d = "pending" /\ q = "author_stopped"
         \/ /\ s = "interrupted"
            /\ q \in {"recovered_unknown_external_outcome", "dispatch_outcome_unknown"}
  PROVE  LegalLifecycle([row EXCEPT !.status = s, !.reason = q, !.dispatch = d])
<1> DEFINE next == [row EXCEPT !.status = s, !.reason = q, !.dispatch = d]
<1>1. /\ next.status = s /\ next.reason = q /\ next.dispatch = d /\ next.result = NoResult
  BY DEF JobRows
<1> HIDE DEF next
<1>2. LegalLifecycle(next) BY <1>1 DEF LegalLifecycle
<1> QED BY <1>2 DEF next

-----------------------------------------------------------------------------
\* The commands.

\* start_memory queues an absent job and answers any other one.
LEMMA StartKeeps ==
  ASSUME NEW row, Good(row), NEW kind \in Kinds, NEW p, p.basis \in Nat, p.policy \in Nat,
         NEW o \in StartMemory(row, kind, p)
  PROVE  Keeps(row, o.row)
<1> DEFINE next == [NoJob EXCEPT !.status = "queued", !.kind = kind,
                                 !.basis = p.basis, !.policy = p.policy]
<1>1. o.row = row \/ (row = NoJob /\ o.row = next)
  BY DEF StartMemory, Committed, Refused
<1>2. Keeps(NoJob, next)
  <2>1. next \in JobRows BY NoneTyped DEF JobRows, Statuses, Active
  <2>2. /\ next.status = "queued" /\ next.reason = "none" /\ next.dispatch = "pending"
        /\ next.result = NoResult /\ next.view = NoView
    BY NoneTyped DEF NoJob
  <2> HIDE DEF next
  <2>3. LegalRecord(next) BY <2>2 DEF LegalRecord, LegalLifecycle
  <2> QED BY <2>1, <2>2, <2>3, NoneTyped DEF Keeps, Good, Ended, Unclaimed
<1> QED BY <1>1, <1>2, KeepsSame

\* begin_memory claims a queued job.
LEMMA BeginKeeps ==
  ASSUME NEW row, Good(row), NEW p, NEW o \in BeginMemory(row, p)
  PROVE  /\ Keeps(row, o.row)
         /\ o.code = "newlyDispatched" => row.status = "queued" /\ o.row.status = "running"
<1> DEFINE next == [row EXCEPT !.status = "running", !.dispatch = "dispatched"]
<1>1. \/ o.row = row /\ o.code # "newlyDispatched"
      \/ row.status = "queued" /\ o.row = next
  BY DEF BeginMemory, Committed, Refused
<1>2. ASSUME row.status = "queued" PROVE Keeps(row, next) /\ next.status = "running"
  <2>1. row \in JobRows /\ LegalRecord(row) /\ row.result = NoResult
    BY <1>2, GoodFacts DEF Active
  <2>2. row.reason = "none" BY <1>2, <2>1 DEF LegalRecord, LegalLifecycle
  <2>3. next = [row EXCEPT !.status = "running", !.reason = "none", !.dispatch = "dispatched"]
    BY <2>1, <2>2 DEF JobRows
  <2>4. Keeps(row, next) BY <1>2, <2>1, <2>3, MoveKeeps, MoveLegal DEF Active, Statuses, Reasons
  <2>5. next.status = "running" BY <2>1 DEF JobRows
  <2> QED BY <2>4, <2>5
<1>3. CASE o.row = row /\ o.code # "newlyDispatched" BY <1>3, KeepsSame
<1>4. CASE row.status = "queued" /\ o.row = next BY <1>2, <1>4
<1> QED BY <1>1, <1>3, <1>4

\* An active job that is interrupted, whatever the reason.
LEMMA InterruptedKeeps ==
  ASSUME NEW row, Good(row), row.status \in Active,
         NEW q \in {"recovered_unknown_external_outcome", "dispatch_outcome_unknown"}
  PROVE  Keeps(row, [row EXCEPT !.status = "interrupted", !.reason = q])
<1>1. row \in JobRows /\ row.result = NoResult /\ row.dispatch \in {"pending", "dispatched"}
  BY GoodFacts DEF JobRows
<1>2. [row EXCEPT !.status = "interrupted", !.reason = q]
        = [row EXCEPT !.status = "interrupted", !.reason = q, !.dispatch = row.dispatch]
  BY <1>1 DEF JobRows
<1>3. "interrupted" \in Statuses /\ q \in Reasons /\ "interrupted" \in Ended
  BY DEF Statuses, Reasons, Ended
<1>4. LegalLifecycle([row EXCEPT !.status = "interrupted", !.reason = q, !.dispatch = row.dispatch])
  BY <1>1, <1>3, MoveLegal
<1>5. Keeps(row, [row EXCEPT !.status = "interrupted", !.reason = q, !.dispatch = row.dispatch])
  BY <1>1, <1>3, <1>4, MoveKeeps
<1> QED BY <1>2, <1>5

\* interrupt_memory_claim and recover_interrupted_memory.
LEMMA InterruptKeeps ==
  ASSUME NEW row, Good(row)
  PROVE  /\ \A o \in InterruptMemoryClaim(row) : Keeps(row, o.row)
         /\ Keeps(row, RecoverInterruptedMemory(row))
<1> DEFINE next == [row EXCEPT !.status = "interrupted", !.reason = "dispatch_outcome_unknown"]
           found == [row EXCEPT !.status = "interrupted",
                                !.reason = "recovered_unknown_external_outcome"]
<1>1. \A o \in InterruptMemoryClaim(row) : o.row = row \/ (row.status \in Active /\ o.row = next)
  BY DEF InterruptMemoryClaim, Committed
<1>2. \/ RecoverInterruptedMemory(row) = row
      \/ row.status \in Active /\ RecoverInterruptedMemory(row) = found
  BY DEF RecoverInterruptedMemory
<1>3. row.status \in Active => Keeps(row, next) /\ Keeps(row, found)
  BY InterruptedKeeps
<1> QED BY <1>1, <1>2, <1>3, KeepsSame

\* stop_memory ends a queued job and asks a running one to stop.
LEMMA StopKeeps ==
  ASSUME NEW row, Good(row), NEW o \in StopMemory(row)
  PROVE  Keeps(row, o.row)
<1> DEFINE ended == [row EXCEPT !.status = "stopped", !.reason = "author_stopped"]
           asked == [row EXCEPT !.status = "stopping", !.reason = "author_stopped"]
<1>1. \/ o.row = row
      \/ row.status = "queued" /\ o.row = ended
      \/ row.status = "running" /\ o.row = asked
  <2>1. \/ row.status = "queued" /\ o \in Committed(row, ended, "ok")
        \/ row.status = "running" /\ o \in Committed(row, asked, "ok")
        \/ o \in Committed(row, row, "ok")
    BY DEF StopMemory
  <2> HIDE DEF ended, asked
  <2> QED BY <2>1 DEF Committed
<1>2. ASSUME row.status = "queued" PROVE Keeps(row, ended)
  <2>1. row \in JobRows /\ row.result = NoResult /\ row.dispatch = "pending"
    BY <1>2, GoodFacts DEF Active
  <2>2. ended = [row EXCEPT !.status = "stopped", !.reason = "author_stopped", !.dispatch = "pending"]
    BY <2>1 DEF JobRows
  <2> QED BY <1>2, <2>1, <2>2, MoveKeeps, MoveLegal DEF Active, Statuses, Reasons
<1>3. ASSUME row.status = "running" PROVE Keeps(row, asked)
  <2>1. row \in JobRows /\ row.result = NoResult /\ row.dispatch = "dispatched"
    BY <1>3, GoodFacts DEF Active
  <2>2. asked = [row EXCEPT !.status = "stopping", !.reason = "author_stopped", !.dispatch = "dispatched"]
    BY <2>1 DEF JobRows
  <2> QED BY <1>3, <2>1, <2>2, MoveKeeps, MoveLegal DEF Active, Statuses, Reasons
<1> QED BY <1>1, <1>2, <1>3, KeepsSame

\* complete_memory records one result, and ends a job that was not interrupted.
LEMMA CompleteKeeps ==
  ASSUME NEW row, Good(row), NEW report \in Results, report.outcome # "none",
         NEW o \in CompleteMemory(row, report)
  PROVE  Keeps(row, o.row)
<1> DEFINE end == TerminalState(row.status, report)
           late == [row EXCEPT !.result = report]
           ended == [row EXCEPT !.status = end.status, !.reason = end.reason, !.result = report]
<1>1. \/ o.row = row
      \/ /\ row.result = NoResult /\ DeliveryProved(row.kind, report)
         /\ RecoveredClaim(row) /\ o.row = late
      \/ /\ row.result = NoResult /\ DeliveryProved(row.kind, report)
         /\ row.status \in {"running", "stopping"} /\ o.row = ended
  BY DEF CompleteMemory, Committed, Refused
<1>2. row \in JobRows /\ report # NoResult BY GoodFacts DEF NoResult
<1>3. ASSUME row.result = NoResult, DeliveryProved(row.kind, report), RecoveredClaim(row)
      PROVE  Keeps(row, late)
  <2>1. row.status = "interrupted" /\ row.view = NoView /\ row.dispatch = "dispatched"
        /\ row.reason = "recovered_unknown_external_outcome"
    BY <1>3, GoodFacts DEF RecoveredClaim
  <2>2. late \in JobRows BY <1>2 DEF JobRows
  <2>3. /\ late.status = row.status /\ late.reason = row.reason /\ late.view = row.view
        /\ late.dispatch = row.dispatch /\ late.kind = row.kind /\ late.result = report
    BY <1>2 DEF JobRows
  <2> HIDE DEF late
  <2>4. LegalRecord(late)
    BY <1>2, <1>3, <2>1, <2>3 DEF LegalRecord, LegalLifecycle, DeliveryProved
  <2> QED BY <1>3, <2>1, <2>2, <2>3, <2>4 DEF Keeps, Good, Ended, Unclaimed
<1>4. ASSUME row.result = NoResult, DeliveryProved(row.kind, report),
             row.status \in {"running", "stopping"}
      PROVE  Keeps(row, ended)
  <2>1. row.view = NoView /\ row.dispatch = "dispatched" BY <1>4, GoodFacts
  <2>2. /\ end.status \in {"interrupted", "stopped", "completed", "failed"}
        /\ end.status \in {"completed", "failed"} => end.reason = "none" /\ row.status = "running"
        /\ end.status = "completed" <=>
             /\ report.cleanup # "unresolved" /\ row.status # "stopping"
             /\ report.outcome = "completed" /\ report.valid
        /\ end.status # "interrupted" => report.cleanup # "unresolved"
        /\ end.status = "failed" => ~(report.outcome = "completed" /\ report.valid)
        /\ end.status = "stopped" => end.reason \in {"author_stopped", "provider_stopped"}
        /\ end.status = "interrupted" =>
             report.cleanup = "unresolved" /\ end.reason \in {"author_stopped", "cleanup_unresolved"}
    BY <1>4 DEF TerminalState
  <2> HIDE DEF end
  <2>3. end.status \in Statuses /\ end.reason \in Reasons
    BY <2>2 DEF Statuses, Reasons
  <2>4. ended \in JobRows BY <1>2, <2>3 DEF JobRows
  <2>5. /\ ended.status = end.status /\ ended.reason = end.reason /\ ended.view = row.view
        /\ ended.dispatch = row.dispatch /\ ended.kind = row.kind /\ ended.result = report
    BY <1>2 DEF JobRows
  <2> HIDE DEF ended
  <2>6. report.cleanup \in {"settled", "unresolved"} /\ report.valid \in BOOLEAN
    BY DEF Results
  <2>7. LegalLifecycle(ended)
    BY <1>2, <1>4, <2>1, <2>2, <2>5, <2>6 DEF LegalLifecycle, DeliveryProved
  <2>8. LegalRecord(ended) BY <1>4, <2>1, <2>2, <2>5, <2>7 DEF LegalRecord
  <2>9. row.status \in Ended => ended.status \in Ended BY <1>4, <2>2, <2>5 DEF Ended
  <2>10. ended.status \notin Unclaimed BY <2>2, <2>5 DEF Unclaimed
  <2> QED BY <1>4, <2>1, <2>4, <2>5, <2>8, <2>9, <2>10 DEF Keeps, Good
<1> QED BY <1>1, <1>3, <1>4, KeepsSame

\* install_memory gives a completed job its view, once.
LEMMA InstallKeeps ==
  ASSUME NEW row, Good(row), NEW p, NEW o \in InstallMemory(row, p)
  PROVE  Keeps(row, o.row)
<1> DEFINE view == [candidate |-> row.result, current |-> BasisCurrent(row, p)]
           next == [row EXCEPT !.view = view]
<1>1. \/ o.row = row
      \/ /\ row.view = NoView /\ row.status = "completed" /\ row.result.valid
         /\ o.row = next
  BY DEF InstallMemory, Committed, Refused
<1>2. ASSUME row.view = NoView, row.status = "completed", row.result.valid
      PROVE  Keeps(row, next)
  <2>1. row \in JobRows /\ LegalRecord(row) BY <1>2, GoodFacts
  <2>2. view \in [candidate : Results, current : BOOLEAN] /\ view.candidate = row.result
    <3>1. row.result \in Results BY <2>1 DEF JobRows
    <3>2. BasisCurrent(row, p) \in BOOLEAN BY DEF BasisCurrent
    <3> QED BY <3>1, <3>2
  <2> HIDE DEF view
  <2>3. next \in JobRows BY <2>1, <2>2 DEF JobRows
  <2>4. /\ next.status = row.status /\ next.reason = row.reason /\ next.view = view
        /\ next.dispatch = row.dispatch /\ next.kind = row.kind /\ next.result = row.result
    BY <2>1 DEF JobRows
  <2> HIDE DEF next
  <2>5. LegalLifecycle(next) BY <2>1, <2>4 DEF LegalRecord, LegalLifecycle
  <2>6. LegalRecord(next) BY <1>2, <2>1, <2>2, <2>4, <2>5 DEF LegalRecord
  <2> QED BY <1>2, <2>3, <2>4, <2>6 DEF Keeps, Good, Ended, Unclaimed
<1> QED BY <1>1, <1>2, KeepsSame

-----------------------------------------------------------------------------
(***************************************************************************)
(* The desktop around the jobs.  What a thread carries is typed, a report  *)
(* on its way to the actor has an outcome, and, which bounds the requests, *)
(* nothing was sent for a job whose worker is still before its send.       *)
(***************************************************************************)

HeldT == [status : Statuses \cup {"absent"}, reason : Reasons, done : BOOLEAN]
Before == {"inspect", "revalidate", "refused", "send"}
Places == Before \cup {"none", "response", "answer", "complete", "install", "forget",
                       "keepReport", "keepView"}
WorkerT == {w \in [pc : Places, report : Results] :
              w.pc \in {"complete", "keepReport"} => w.report.outcome # "none"}
PendingT == {p \in [kind : {"none", "claim", "terminal", "install"}, report : Results] :
              p.kind = "terminal" => p.report.outcome # "none"}
Quietly == {"accept", "started", "register", "claim", "interrupt", "retain", "signal", "retry",
            "look", "giveUp", "latest", "installKept", "installFound", "forget", "keepView"}
CallT == {k \in [pc : Quietly \cup {"idle", "save", "keepReport"},
                 cmd : {"none", "start", "stop", "retry"}, job : Jobs \cup {"none"},
                 kind : Kinds, fresh : BOOLEAN, held : HeldT, got : Results] :
            /\ k.pc # "idle" => k.job \in Jobs
            /\ k.pc \in {"save", "keepReport"} => k.got.outcome # "none"}

RowsOK == rows \in [Jobs -> JobRows] /\ \A j \in Jobs : Good(rows[j])
ProjectOK ==
    /\ project \in [basis : Nat, policy : 0..PolicyLimit, fenced : BOOLEAN, connected : BOOLEAN]
    /\ project.basis <= BasisLimit + project.policy
FaultsOK == faults \in 0..FaultLimit
ActorOK == RowsOK /\ ProjectOK /\ FaultsOK

CallersOK == callers \in [Callers -> CallT]
SignalsOK == registry \in SUBSET Jobs /\ signal \in [Jobs -> BOOLEAN]
WorkersOK == worker \in [Jobs -> WorkerT] /\ reported \in [Jobs -> Results]
PendingOK == pending \in [Jobs -> PendingT]
DeskOK == CallersOK /\ SignalsOK /\ WorkersOK /\ PendingOK

SentOK ==
    /\ sent \in [Jobs -> {0, 1}]
    /\ \A j \in Jobs :
        /\ rows[j].status \in Unclaimed => sent[j] = 0 /\ worker[j].pc = "none"
        /\ worker[j].pc \in Before => sent[j] = 0

\* The inductive invariant.
Safe == ActorOK /\ DeskOK /\ SentOK

\* What a step does to the jobs.
AllKeep == \A j \in Jobs : Keeps(rows[j], rows'[j])

\* A step that starts no worker and sends nothing.
Quiet ==
    /\ sent' = sent
    /\ \A j \in Jobs :
        /\ worker'[j].pc # "none" => worker[j].pc # "none"
        /\ worker'[j].pc \in Before => worker[j].pc \in Before

\* The constants of the desktop have their types.
LEMMA Typed ==
  /\ Unsent \in Results /\ UnsentStopped \in Results
  /\ Unsent.outcome # "none" /\ UnsentStopped.outcome # "none"
  /\ NoPending \in PendingT /\ ClaimPending \in PendingT /\ InstallPending \in PendingT
  /\ NoWorker \in WorkerT /\ NoHeld \in HeldT /\ NoCall \in CallT
<1>1. /\ Unsent \in Results /\ UnsentStopped \in Results
      /\ Unsent.outcome # "none" /\ UnsentStopped.outcome # "none"
  BY DEF Unsent, UnsentStopped, NoResult, Results, Outcomes
<1>2. NoPending \in PendingT BY NoneTyped DEF NoPending, PendingT
<1>3. ClaimPending \in PendingT /\ InstallPending \in PendingT
  BY NoneTyped DEF ClaimPending, InstallPending, NoPending, PendingT
<1>4. NoWorker \in WorkerT BY NoneTyped DEF NoWorker, WorkerT, Places
<1>5. NoHeld \in HeldT BY DEF NoHeld, HeldT, Reasons
<1>6. NoCall \in CallT BY <1>5, NoneTyped DEF NoCall, CallT, Kinds
<1> QED BY <1>1, <1>2, <1>3, <1>4, <1>5, <1>6

\* A report with an outcome may be retained.
LEMMA TerminalTyped ==
  ASSUME NEW report \in Results, report.outcome # "none" PROVE Terminal(report) \in PendingT
  BY DEF Terminal, PendingT

\* What a thread reads of a job is typed.
LEMMA ReadTyped == ASSUME NEW row \in JobRows PROVE HeldOf(row) \in HeldT
  BY DEF HeldOf, HeldT, JobRows

\* Every command may fail before its COMMIT or find no connection.
LEMMA ReachKeeps ==
  ASSUME NEW j \in Jobs, RowsOK, NEW outcomes, \A p \in outcomes : Keeps(rows[j], p.row),
         NEW o \in Reach(j, outcomes)
  PROVE  Keeps(rows[j], o.row)
  BY KeepsSame DEF Reach, Reached, Refused, RowsOK

\* The count of the faults stays within its bound.
LEMMA FaultTyped == ASSUME FaultsOK, NEW b, Fault(b) PROVE FaultsOK'
  BY MemoryBounds DEF FaultsOK, Fault

\* Serving a command that keeps its job keeps every job.
LEMMA DoKeeps ==
  ASSUME NEW j \in Jobs, ActorOK, NEW o, Keeps(rows[j], o.row), Do(j, o)
  PROVE  ActorOK' /\ AllKeep
<1>0. RowsOK /\ ProjectOK /\ FaultsOK BY DEF ActorOK
<1>1. rows' = [rows EXCEPT ![j] = o.row] BY DEF Do
<1>2. o.row \in JobRows /\ Good(o.row) BY DEF Keeps, Good
<1>3. RowsOK' BY <1>0, <1>1, <1>2 DEF RowsOK
<1>4. AllKeep BY <1>0, <1>1, KeepsSame DEF AllKeep, RowsOK
<1>5. ProjectOK' BY <1>0 DEF Do, ProjectOK
<1>6. FaultsOK' BY <1>0, FaultTyped DEF Do
<1> QED BY <1>3, <1>4, <1>5, <1>6 DEF ActorOK

\* A step that leaves the actor alone keeps every job.
LEMMA RestKeeps == ASSUME ActorOK, UNCHANGED actorVars PROVE ActorOK' /\ AllKeep
  BY KeepsSame DEF ActorOK, RowsOK, ProjectOK, FaultsOK, AllKeep, actorVars

\* So does a read.
LEMMA ReadKeeps ==
  ASSUME ActorOK, NEW b, Read(b) PROVE ActorOK' /\ AllKeep
<1>1. rows' = rows /\ project' = project /\ FaultsOK' BY FaultTyped DEF Read, ActorOK
<1> QED BY <1>1, KeepsSame DEF ActorOK, RowsOK, ProjectOK, AllKeep

\* The parts of the invariant together: a quiet step keeps what is known of
\* the requests, because no command returns a job to the queue.
LEMMA QuietSafe ==
  ASSUME Safe, ActorOK', AllKeep, DeskOK', Quiet
  PROVE  Safe'
<1>1. \A j \in Jobs : rows'[j].status \in Unclaimed => rows[j].status \in Unclaimed
  BY DEF AllKeep, Keeps
<1>2. SentOK' BY <1>1 DEF Safe, SentOK, Quiet
<1> QED BY <1>2 DEF Safe

\* A step that touches no worker is quiet.
LEMMA IdleQuiet == ASSUME UNCHANGED <<worker, sent>> PROVE Quiet
  BY DEF Quiet

\* A command under way at another place.
LEMMA CallTyped ==
  ASSUME CallersOK, NEW c \in Callers, NEW k \in CallT, Call(c, k) PROVE CallersOK'
  BY DEF Call, CallersOK

\* The same for a place that needs no report.
LEMMA GotoTyped ==
  ASSUME CallersOK, NEW c \in Callers, callers[c].pc # "idle", NEW pc \in Quietly, Goto(c, pc)
  PROVE  CallersOK'
<1>1. callers[c] \in CallT BY DEF CallersOK
<1> DEFINE k == [callers[c] EXCEPT !.pc = pc]
<1>2. pc # "idle" /\ pc # "save" /\ pc # "keepReport" BY DEF Quietly
<1>3. /\ k \in [pc : Quietly \cup {"idle", "save", "keepReport"},
                cmd : {"none", "start", "stop", "retry"}, job : Jobs \cup {"none"},
                kind : Kinds, fresh : BOOLEAN, held : HeldT, got : Results]
      /\ k.pc = pc /\ k.job = callers[c].job
  BY <1>1 DEF CallT
<1>4. k \in CallT BY <1>1, <1>2, <1>3 DEF CallT
<1> HIDE DEF k
<1> QED BY <1>4, CallTyped DEF Goto, k

-----------------------------------------------------------------------------
\* The commands of the renderer.

\* What a caller that is under way holds.
LEMMA CallFacts ==
  ASSUME CallersOK, NEW c \in Callers
  PROVE  /\ callers[c] \in CallT
         /\ callers[c].pc # "idle" => callers[c].job \in Jobs
         /\ callers[c].held \in HeldT /\ callers[c].got \in Results
         /\ callers[c].kind \in Kinds /\ callers[c].fresh \in BOOLEAN
         /\ callers[c].pc \in {"save", "keepReport"} => callers[c].got.outcome # "none"
  BY DEF CallersOK, CallT

\* A call that begins is typed.
LEMMA NewCallTyped ==
  ASSUME NEW j \in Jobs, NEW cmd \in {"start", "stop", "retry"}, NEW pc \in Quietly,
         NEW kind \in Kinds, NEW fresh \in BOOLEAN, NEW held \in HeldT
  PROVE  [NoCall EXCEPT !.pc = pc, !.cmd = cmd, !.job = j, !.kind = kind,
                        !.fresh = fresh, !.held = held] \in CallT
<1>1. NoCall \in CallT BY Typed
<1>2. pc # "idle" /\ pc # "save" /\ pc # "keepReport" BY DEF Quietly
<1> QED BY <1>1, <1>2 DEF CallT

\* Lookup, Start, Stop and Retry begin a command.
LEMMA BeginSteps ==
  ASSUME Safe, NEW c \in Callers, NEW j \in Jobs,
         \/ Lookup(c, j) \/ (\E kind \in Kinds : Start(c, j, kind))
         \/ Stop(c, j) \/ Retry(c, j)
  PROVE  Safe' /\ AllKeep
<1>0. /\ ActorOK /\ RowsOK /\ ProjectOK /\ DeskOK /\ CallersOK
      /\ Good(rows[j]) /\ rows[j] \in JobRows
      /\ project.basis \in Nat /\ project.policy \in Nat
  <2>1. ActorOK /\ RowsOK /\ ProjectOK /\ DeskOK /\ CallersOK
    BY DEF Safe, ActorOK, DeskOK
  <2>2. BasisLimit \in Nat /\ PolicyLimit \in Nat BY MemoryBounds
  <2> QED BY <2>1, <2>2 DEF RowsOK, ProjectOK
<1>1. UNCHANGED <<registry, signal, worker, pending, sent, reported>>
  BY DEF Lookup, Start, Stop, Retry
<1>2. SUFFICES ActorOK' /\ AllKeep /\ CallersOK'
  <2>1. SignalsOK' /\ WorkersOK' /\ PendingOK'
    BY <1>0, <1>1 DEF DeskOK, SignalsOK, WorkersOK, PendingOK
  <2>2. Quiet BY <1>1, IdleQuiet
  <2> QED BY <1>2, <2>1, <2>2, QuietSafe DEF DeskOK
<1>3. CASE Lookup(c, j)
  <2> DEFINE k == [NoCall EXCEPT !.pc = "accept", !.cmd = "start", !.job = j,
                                 !.kind = "http", !.fresh = rows[j] = NoJob]
  <2>1. Call(c, k) /\ UNCHANGED actorVars BY <1>3 DEF Lookup
  <2>2. k \in CallT
    <3>1. NoCall \in CallT BY Typed
    <3>2. (rows[j] = NoJob) \in BOOLEAN OBVIOUS
    <3> QED BY <3>1, <3>2, ZenonT(60) DEF CallT, Quietly, Kinds
  <2> HIDE DEF k
  <2> QED BY <1>0, <2>1, <2>2, RestKeeps, CallTyped
<1>4. ASSUME NEW kind \in Kinds, Start(c, j, kind) PROVE ActorOK' /\ AllKeep /\ CallersOK'
  <2>1. PICK o : /\ o \in Refused(rows[j], "WriterLeaseExpired")
                          \cup Reach(j, StartMemory(rows[j], kind, project))
                 /\ Do(j, o)
                 /\ Call(c, IF o.code # "ok" THEN NoCall
                            ELSE [NoCall EXCEPT !.pc = "started", !.cmd = "start", !.job = j,
                                       !.kind = kind, !.fresh = callers[c].fresh,
                                       !.held = HeldOf(o.row)])
    BY <1>4 DEF Start
  <2>2. \A p \in StartMemory(rows[j], kind, project) : Keeps(rows[j], p.row)
    BY <1>0, StartKeeps
  <2>3. Keeps(rows[j], o.row)
    BY <1>0, <2>1, <2>2, ReachKeeps, KeepsSame DEF Refused
  <2>4. ActorOK' /\ AllKeep BY <1>0, <2>1, <2>3, DoKeeps
  <2>5. HeldOf(o.row) \in HeldT BY <2>3, ReadTyped DEF Keeps, Good
  <2>6. [NoCall EXCEPT !.pc = "started", !.cmd = "start", !.job = j, !.kind = kind,
                       !.fresh = callers[c].fresh, !.held = HeldOf(o.row)] \in CallT
    BY <1>0, <2>5, CallFacts, NewCallTyped, ZenonT(60) DEF Quietly
  <2>7. CallersOK' BY <1>0, <2>1, <2>6, CallTyped, Typed
  <2> QED BY <2>4, <2>7
<1>5. CASE Stop(c, j)
  <2> DEFINE k == [NoCall EXCEPT !.pc = "signal", !.cmd = "stop", !.job = j]
  <2>1. PICK o \in Reach(j, StopMemory(rows[j])) :
          Do(j, o) /\ Call(c, IF o.code \in {"ok", "UncertainOutcome"} THEN k ELSE NoCall)
    BY <1>5 DEF Stop
  <2>2. \A p \in StopMemory(rows[j]) : Keeps(rows[j], p.row) BY <1>0, StopKeeps
  <2>3. ActorOK' /\ AllKeep BY <1>0, <2>1, <2>2, ReachKeeps, DoKeeps
  <2>4. k \in CallT
    <3>1. NoCall \in CallT BY Typed
    <3> QED BY <3>1 DEF CallT, Quietly
  <2> HIDE DEF k
  <2> QED BY <1>0, <2>1, <2>3, <2>4, CallTyped, Typed
<1>6. CASE Retry(c, j)
  <2> DEFINE k == [NoCall EXCEPT !.pc = "look", !.job = j, !.held = HeldOf(rows[j]),
                                 !.cmd = IF callers[c] = NoCall THEN "retry" ELSE "start"]
  <2>1. PICK succeeds \in BOOLEAN : Read(succeeds) /\ Call(c, IF succeeds THEN k ELSE NoCall)
    BY <1>6 DEF Retry
  <2>2. ActorOK' /\ AllKeep BY <1>0, <2>1, ReadKeeps
  <2>3. k \in CallT
    <3>1. NoCall \in CallT /\ HeldOf(rows[j]) \in HeldT BY <1>0, Typed, ReadTyped
    <3> QED BY <3>1, ZenonT(60) DEF CallT, Quietly
  <2> HIDE DEF k
  <2> QED BY <1>0, <2>1, <2>2, <2>3, CallTyped, Typed
<1> QED BY <1>3, <1>4, <1>5, <1>6

\* The steps of a command on the registry and on the recovery map.
LEMMA LocalSteps ==
  ASSUME Safe, NEW c \in Callers,
         Started(c) \/ Register(c) \/ RetainClaim(c) \/ Signal(c) \/ Look(c) \/ Conclude(c)
  PROVE  Safe' /\ AllKeep
<1> DEFINE j == callers[c].job
<1>0. ActorOK /\ DeskOK /\ CallersOK /\ SignalsOK /\ WorkersOK /\ PendingOK
  BY DEF Safe, DeskOK
<1>1. callers[c].pc # "idle"
  BY DEF Started, Register, RetainClaim, Signal, Look, Conclude
<1>2. j \in Jobs /\ pending[j] \in PendingT BY <1>0, <1>1, CallFacts DEF PendingOK
<1>3. UNCHANGED <<worker, sent, reported>> /\ UNCHANGED actorVars
  BY DEF Started, Register, RetainClaim, Signal, Look, Conclude
<1>4. SUFFICES CallersOK' /\ SignalsOK' /\ PendingOK'
  <2>1. WorkersOK' BY <1>0, <1>3 DEF WorkersOK
  <2>2. Quiet BY <1>3, IdleQuiet
  <2>3. ActorOK' /\ AllKeep BY <1>0, <1>3, RestKeeps
  <2> QED BY <1>4, <2>1, <2>2, <2>3, QuietSafe DEF DeskOK
<1>5. CASE Started(c)
  <2>1. Call(c, NoCall) \/ \E pc \in Quietly : Goto(c, pc)
    BY <1>5 DEF Started, Quietly
  <2>2. SignalsOK' /\ PendingOK' BY <1>0, <1>5 DEF Started, SignalsOK, PendingOK
  <2> QED BY <1>0, <1>1, <2>1, <2>2, CallTyped, GotoTyped, Typed
<1>6. CASE Register(c)
  <2>1. Call(c, NoCall) \/ Goto(c, "claim") BY <1>6 DEF Register
  <2>2. CallersOK' BY <1>0, <1>1, <2>1, CallTyped, GotoTyped, Typed DEF Quietly
  <2>3. \/ UNCHANGED <<registry, signal>>
        \/ registry' = registry \cup {j} /\ signal' = [signal EXCEPT ![j] = FALSE]
    BY <1>6 DEF Register
  <2>4. SignalsOK' BY <1>0, <1>2, <2>3 DEF SignalsOK
  <2>5. PendingOK' BY <1>0, <1>6 DEF Register, PendingOK
  <2> QED BY <2>2, <2>4, <2>5
<1>7. CASE RetainClaim(c)
  <2>1. /\ Call(c, NoCall) /\ UNCHANGED signal /\ registry' = registry \ {j}
        /\ pending' = [pending EXCEPT ![j] = ClaimPending] \/ pending' = pending
    BY <1>7 DEF RetainClaim, Release, Keep
  <2>2. PendingOK' BY <1>0, <1>2, <2>1, Typed DEF PendingOK
  <2>3. SignalsOK' BY <1>0, <2>1 DEF SignalsOK
  <2> QED BY <1>0, <2>1, <2>2, <2>3, CallTyped, Typed
<1>8. CASE Signal(c)
  <2>1. /\ Call(c, NoCall) /\ UNCHANGED <<registry, pending>>
        /\ signal' = [signal EXCEPT ![j] = signal[j] \/ j \in registry]
    BY <1>8 DEF Signal
  <2>2. SignalsOK'
    <3>1. (signal[j] \/ j \in registry) \in BOOLEAN OBVIOUS
    <3> QED BY <1>0, <2>1, <3>1 DEF SignalsOK
  <2>3. PendingOK' BY <1>0, <2>1 DEF PendingOK
  <2> QED BY <1>0, <2>1, <2>2, <2>3, CallTyped, Typed
<1>9. CASE Look(c)
  <2> DEFINE plan == Plan(callers[c].held, pending[j])
             k == [callers[c] EXCEPT !.pc = plan, !.got = pending[j].report]
  <2>1. Call(c, IF plan = "done" THEN NoCall ELSE k)
    BY <1>9 DEF Look
  <2>2. SignalsOK' /\ PendingOK' BY <1>0, <1>9 DEF Look, SignalsOK, PendingOK
  <2>3. /\ plan \in {"giveUp", "save", "forget", "installFound", "done", "latest"}
        /\ plan = "save" => pending[j].kind = "terminal"
    BY DEF Plan
  <2> HIDE DEF plan
  <2>4. pending[j].report \in Results /\ (plan = "save" => pending[j].report.outcome # "none")
    BY <1>2, <2>3 DEF PendingT
  <2>5. plan # "done" => k \in CallT
    <3>1. callers[c] \in CallT BY <1>0, CallFacts
    <3> QED BY <1>1, <2>3, <2>4, <3>1 DEF CallT, Quietly
  <2> HIDE DEF k
  <2> QED BY <1>0, <2>1, <2>2, <2>5, CallTyped, Typed
<1>10. CASE Conclude(c)
  <2>1. /\ Call(c, NoCall) /\ UNCHANGED <<registry, signal>>
        /\ \/ pending' = [pending EXCEPT ![j] = NoPending]
           \/ pending' = [pending EXCEPT ![j] = InstallPending]
           \/ /\ callers[c].pc = "keepReport"
              /\ pending' = [pending EXCEPT ![j] = Terminal(callers[c].got)]
    BY <1>10 DEF Conclude, Keep
  <2>2. callers[c].pc = "keepReport" => Terminal(callers[c].got) \in PendingT
    BY <1>0, CallFacts, TerminalTyped
  <2>3. PendingOK' BY <1>0, <2>1, <2>2, Typed DEF PendingOK
  <2>4. SignalsOK' BY <1>0, <2>1 DEF SignalsOK
  <2> QED BY <1>0, <2>1, <2>3, <2>4, CallTyped, Typed
<1> QED BY <1>5, <1>6, <1>7, <1>8, <1>9, <1>10

\* The steps of a command that call the actor and start no worker.
LEMMA ActorSteps ==
  ASSUME Safe, NEW c \in Callers,
         InterruptRefused(c) \/ GiveUp(c) \/ SaveReport(c) \/ Latest(c) \/ InstallView(c)
  PROVE  Safe' /\ AllKeep
<1> DEFINE j == callers[c].job
<1>0. ActorOK /\ RowsOK /\ DeskOK /\ CallersOK /\ SignalsOK /\ WorkersOK /\ PendingOK
  BY DEF Safe, DeskOK, ActorOK
<1>1. callers[c].pc # "idle"
  BY DEF InterruptRefused, GiveUp, SaveReport, Latest, InstallView
<1>2. j \in Jobs /\ Good(rows[j]) BY <1>0, <1>1, CallFacts DEF RowsOK
<1>3. UNCHANGED <<signal, worker, pending, sent, reported>>
  BY DEF InterruptRefused, GiveUp, SaveReport, Latest, InstallView
<1>4. registry' \in SUBSET Jobs
  BY <1>0 DEF InterruptRefused, GiveUp, SaveReport, Latest, InstallView, Release, SignalsOK
<1>5. SUFFICES ActorOK' /\ AllKeep /\ CallersOK'
  <2>1. SignalsOK' /\ WorkersOK' /\ PendingOK'
    BY <1>0, <1>3, <1>4 DEF SignalsOK, WorkersOK, PendingOK
  <2>2. Quiet BY <1>3, IdleQuiet
  <2> QED BY <1>5, <2>1, <2>2, QuietSafe DEF DeskOK
<1>i. \A p \in InterruptMemoryClaim(rows[j]) : Keeps(rows[j], p.row)
  BY <1>2, InterruptKeeps
<1>6. CASE InterruptRefused(c)
  <2>1. PICK o \in Reach(j, InterruptMemoryClaim(rows[j])) :
          Do(j, o) /\ (Call(c, NoCall) \/ Goto(c, "retain"))
    BY <1>6 DEF InterruptRefused
  <2> HIDE DEF j
  <2>2. ActorOK' /\ AllKeep BY <1>0, <1>2, <1>i, <2>1, ReachKeeps, DoKeeps
  <2> QED BY <1>0, <1>1, <2>1, <2>2, CallTyped, GotoTyped, Typed DEF Quietly
<1>7. CASE GiveUp(c)
  <2>1. PICK o \in Reach(j, InterruptMemoryClaim(rows[j])) :
          Do(j, o) /\ (Call(c, NoCall) \/ Goto(c, "forget"))
    BY <1>7 DEF GiveUp
  <2> HIDE DEF j
  <2>2. ActorOK' /\ AllKeep BY <1>0, <1>2, <1>i, <2>1, ReachKeeps, DoKeeps
  <2> QED BY <1>0, <1>1, <2>1, <2>2, CallTyped, GotoTyped, Typed DEF Quietly
<1>8. CASE SaveReport(c)
  <2>0. callers[c].pc = "save" BY <1>8 DEF SaveReport
  <2>1. PICK o \in Reach(j, CompleteMemory(rows[j], callers[c].got)) :
          Do(j, o) /\ (Goto(c, "keepReport") \/ Goto(c, "latest") \/ Goto(c, "forget"))
    BY <1>8 DEF SaveReport
  <2> HIDE DEF j
  <2>2. callers[c].got \in Results /\ callers[c].got.outcome # "none"
    BY <1>0, <2>0, CallFacts
  <2>3. \A p \in CompleteMemory(rows[j], callers[c].got) : Keeps(rows[j], p.row)
    BY <1>2, <2>2, CompleteKeeps
  <2>4. ActorOK' /\ AllKeep BY <1>0, <1>2, <2>1, <2>3, ReachKeeps, DoKeeps
  <2>5. [callers[c] EXCEPT !.pc = "keepReport"] \in CallT
    <3>1. callers[c] \in CallT BY <1>0, CallFacts
    <3> QED BY <1>1, <2>2, <3>1 DEF CallT
  <2>6. Goto(c, "keepReport") => CallersOK' BY <1>0, <2>5, CallTyped DEF Goto
  <2>7. Goto(c, "latest") \/ Goto(c, "forget") => CallersOK'
    BY <1>0, <1>1, GotoTyped DEF Quietly
  <2> QED BY <2>1, <2>4, <2>6, <2>7
<1>9. CASE Latest(c)
  <2>1. PICK succeeds \in BOOLEAN :
          Read(succeeds) /\ (Call(c, NoCall) \/ Goto(c, "installKept") \/ Goto(c, "forget"))
    BY <1>9 DEF Latest
  <2>2. ActorOK' /\ AllKeep BY <1>0, <2>1, ReadKeeps
  <2> QED BY <1>0, <1>1, <2>1, <2>2, CallTyped, GotoTyped, Typed DEF Quietly
<1>10. CASE InstallView(c)
  <2>1. PICK o \in Reach(j, InstallMemory(rows[j], project)) :
          Do(j, o) /\ (Call(c, NoCall) \/ Goto(c, "forget") \/ Goto(c, "keepView"))
    BY <1>10 DEF InstallView
  <2> HIDE DEF j
  <2>2. \A p \in InstallMemory(rows[j], project) : Keeps(rows[j], p.row) BY <1>2, InstallKeeps
  <2>3. ActorOK' /\ AllKeep BY <1>0, <1>2, <2>1, <2>2, ReachKeeps, DoKeeps
  <2> QED BY <1>0, <1>1, <2>1, <2>3, CallTyped, GotoTyped, Typed DEF Quietly
<1> QED BY <1>6, <1>7, <1>8, <1>9, <1>10

\* The claim: the only step that starts a worker, of a job that was queued and
\* for which nothing was sent.
LEMMA ClaimStep == ASSUME Safe, NEW c \in Callers, Claim(c) PROVE Safe' /\ AllKeep
<1> DEFINE j == callers[c].job
<1>0. /\ ActorOK /\ RowsOK /\ DeskOK /\ CallersOK /\ SignalsOK /\ WorkersOK /\ PendingOK
      /\ SentOK
  BY DEF Safe, DeskOK, ActorOK
<1>1. callers[c].pc # "idle" BY DEF Claim
<1>2. j \in Jobs /\ Good(rows[j]) BY <1>0, <1>1, CallFacts DEF RowsOK
<1>3. UNCHANGED <<signal, pending, sent, reported>> BY DEF Claim
<1>4. PICK o \in Reach(j, BeginMemory(rows[j], project)) :
        /\ Do(j, o)
        /\ \/ /\ o.code = "newlyDispatched"
              /\ \E pc \in Spawned(callers[c].kind, callers[c].fresh) :
                  /\ worker' = [worker EXCEPT ![j] =
                        [pc |-> pc, report |-> IF pc = "complete" THEN Unsent ELSE NoResult]]
                  /\ registry' = registry \ {j} \/ registry' = registry
              /\ Call(c, NoCall)
           \/ /\ o.code # "newlyDispatched" /\ UNCHANGED worker
              /\ registry' = registry \ {j} \/ registry' = registry
              /\ Call(c, NoCall) \/ Goto(c, "retain") \/ Goto(c, "interrupt")
  BY DEF Claim, Release
<1> HIDE DEF j
<1>5. \A p \in BeginMemory(rows[j], project) :
        /\ Keeps(rows[j], p.row)
        /\ p.code = "newlyDispatched" => rows[j].status = "queued" /\ p.row.status = "running"
  BY <1>2, BeginKeeps
<1>6. ActorOK' /\ AllKeep BY <1>0, <1>2, <1>4, <1>5, ReachKeeps, DoKeeps
<1>7. o.code = "newlyDispatched" => rows[j].status = "queued" /\ o.row.status = "running"
  BY <1>4, <1>5 DEF Reach, Reached, Refused
<1>8. CallersOK' BY <1>0, <1>1, <1>4, CallTyped, GotoTyped, Typed DEF Quietly
<1>9. SignalsOK' /\ PendingOK' BY <1>0, <1>3, <1>4 DEF SignalsOK, PendingOK
<1>10. CASE o.code # "newlyDispatched"
  <2>1. worker' = worker BY <1>4, <1>10
  <2>2. WorkersOK' BY <1>0, <1>3, <2>1 DEF WorkersOK
  <2>3. Quiet BY <1>3, <2>1, IdleQuiet
  <2> QED BY <1>6, <1>8, <1>9, <2>2, <2>3, QuietSafe DEF DeskOK
<1>11. CASE o.code = "newlyDispatched"
  <2>1. PICK pc \in Spawned(callers[c].kind, callers[c].fresh) :
          worker' = [worker EXCEPT ![j] =
                        [pc |-> pc, report |-> IF pc = "complete" THEN Unsent ELSE NoResult]]
    BY <1>4, <1>11
  <2>2. pc \in {"answer", "complete", "inspect", "revalidate"}
    BY <1>0, CallFacts DEF Spawned, Kinds
  <2> DEFINE w == [pc |-> pc, report |-> IF pc = "complete" THEN Unsent ELSE NoResult]
  <2>3. w \in WorkerT BY <2>2, Typed, NoneTyped DEF WorkerT, Places, Before
  <2>4. w.pc = pc OBVIOUS
  <2> HIDE DEF w
  <2>5. worker' = [worker EXCEPT ![j] = w] BY <2>1 DEF w
  <2>6. WorkersOK' BY <1>0, <1>2, <1>3, <2>3, <2>5 DEF WorkersOK
  <2>7. sent[j] = 0 BY <1>0, <1>2, <1>7, <1>11 DEF SentOK, Unclaimed
  <2>8. rows' = [rows EXCEPT ![j] = o.row] BY <1>4 DEF Do
  <2>9. \A x \in Jobs : rows'[x].status \in Unclaimed =>
            x # j /\ rows[x].status \in Unclaimed
    BY <1>0, <1>2, <1>6, <1>7, <1>11, <2>8 DEF RowsOK, AllKeep, Keeps, Unclaimed
  <2>10. \A x \in Jobs : x # j => worker'[x] = worker[x] BY <1>0, <2>5 DEF WorkersOK
  <2>11. SentOK'
    <3>1. sent' \in [Jobs -> {0, 1}] BY <1>0, <1>3 DEF SentOK
    <3>2. ASSUME NEW x \in Jobs
          PROVE  /\ rows'[x].status \in Unclaimed => sent'[x] = 0 /\ worker'[x].pc = "none"
                 /\ worker'[x].pc \in Before => sent'[x] = 0
      BY <1>0, <1>3, <2>7, <2>9, <2>10 DEF SentOK
    <3> QED BY <3>1, <3>2 DEF SentOK
  <2> QED BY <1>6, <1>8, <1>9, <2>6, <2>11 DEF Safe, DeskOK
<1> QED BY <1>10, <1>11

-----------------------------------------------------------------------------
\* The workers.

\* A worker that has its report, or goes to another place.
LEMMA FinishTyped ==
  ASSUME WorkersOK, NEW j \in Jobs, NEW report \in Results, report.outcome # "none",
         Finish(j, report)
  PROVE  /\ worker' \in [Jobs -> WorkerT]
         /\ \A x \in Jobs : x # j => worker'[x] = worker[x]
         /\ worker'[j].pc = "complete"
<1>1. [pc |-> "complete", report |-> report] \in WorkerT BY DEF WorkerT, Places
<1> QED BY <1>1 DEF Finish, WorkersOK

\* A worker that goes to another place.
LEMMA StepTyped ==
  ASSUME WorkersOK, NEW j \in Jobs, NEW pc \in Places, Step(j, pc),
         pc \in {"complete", "keepReport"} => worker[j].report.outcome # "none"
  PROVE  /\ worker' \in [Jobs -> WorkerT]
         /\ \A x \in Jobs : x # j => worker'[x] = worker[x]
         /\ worker'[j].pc = pc
<1>1. worker[j] \in WorkerT BY DEF WorkersOK
<1> DEFINE w == [worker[j] EXCEPT !.pc = pc]
<1>2. w \in WorkerT /\ w.pc = pc BY <1>1 DEF WorkerT
<1>3. worker' = [worker EXCEPT ![j] = w] BY DEF Step
<1> HIDE DEF w
<1> QED BY <1>2, <1>3 DEF WorkersOK

\* A worker that is over.
LEMMA GoneTyped ==
  ASSUME WorkersOK, NEW j \in Jobs, worker' = [worker EXCEPT ![j] = NoWorker]
  PROVE  /\ worker' \in [Jobs -> WorkerT]
         /\ \A x \in Jobs : x # j => worker'[x] = worker[x]
         /\ worker'[j].pc = "none"
  BY Typed DEF WorkersOK, NoWorker

\* A worker that moves on without sending is quiet.
LEMMA WorkQuiet ==
  ASSUME NEW j \in Jobs, worker[j].pc # "none", sent' = sent,
         \A x \in Jobs : x # j => worker'[x] = worker[x],
         worker'[j].pc \in Before => worker[j].pc \in Before
  PROVE  Quiet
  BY DEF Quiet

\* The steps of a worker that do not call the actor, but for the send.
LEMMA ProviderSteps ==
  ASSUME Safe, NEW j \in Jobs,
         Inspect(j) \/ RevalidationRefused(j) \/ Respond(j) \/ Answer(j) \/ Settle(j)
  PROVE  Safe' /\ AllKeep
<1>0. /\ ActorOK /\ DeskOK /\ CallersOK /\ SignalsOK /\ WorkersOK /\ PendingOK
      /\ worker[j] \in WorkerT
  BY DEF Safe, DeskOK, WorkersOK
<1>1. worker[j].pc # "none" /\ UNCHANGED <<callers, sent>> /\ UNCHANGED actorVars
  BY DEF Inspect, RevalidationRefused, Respond, Answer, Settle
<1>2. SUFFICES /\ SignalsOK' /\ PendingOK' /\ reported' \in [Jobs -> Results]
               /\ worker' \in [Jobs -> WorkerT]
               /\ \A x \in Jobs : x # j => worker'[x] = worker[x]
               /\ worker'[j].pc \in Before => worker[j].pc \in Before
  <2>1. ActorOK' /\ AllKeep BY <1>0, <1>1, RestKeeps
  <2>2. CallersOK' BY <1>0, <1>1 DEF CallersOK
  <2>3. Quiet BY <1>1, <1>2, WorkQuiet
  <2> QED BY <1>2, <2>1, <2>2, <2>3, QuietSafe DEF DeskOK, WorkersOK
<1>n. "complete" \notin Before /\ "none" \notin Before BY DEF Before
<1>3. CASE Inspect(j)
  <2>1. worker[j].pc \in Before /\ UNCHANGED <<pending, reported>> BY <1>3 DEF Inspect, Before
  <2>2. PendingOK' /\ reported' \in [Jobs -> Results] BY <1>0, <2>1 DEF PendingOK, WorkersOK
  <2>3. \/ Finish(j, Unsent) \/ worker' = [worker EXCEPT ![j] = NoWorker]
        \/ Finish(j, UnsentStopped) \/ Step(j, "revalidate")
    BY <1>3 DEF Inspect
  <2>4. /\ worker' \in [Jobs -> WorkerT]
        /\ \A x \in Jobs : x # j => worker'[x] = worker[x]
    <3>1. "revalidate" \in Places BY DEF Places, Before
    <3> QED BY <1>0, <2>3, <3>1, FinishTyped, GoneTyped, StepTyped, Typed
  <2>5. /\ registry' = registry \/ registry' = registry \ {j}
        /\ \/ signal' = signal
           \/ signal' = [signal EXCEPT ![j] = signal[j] \/ rows[j].status = "stopping"]
    BY <1>3 DEF Inspect, Release
  <2>6. SignalsOK'
    <3>1. (signal[j] \/ rows[j].status = "stopping") \in BOOLEAN OBVIOUS
    <3> QED BY <1>0, <2>5, <3>1 DEF SignalsOK
  <2> QED BY <2>1, <2>2, <2>4, <2>6
<1>4. CASE RevalidationRefused(j)
  <2>1. UNCHANGED <<registry, signal, pending, reported>>
        /\ (Finish(j, Unsent) \/ Finish(j, UnsentStopped))
    BY <1>4 DEF RevalidationRefused
  <2>2. SignalsOK' /\ PendingOK' /\ reported' \in [Jobs -> Results]
    BY <1>0, <2>1 DEF SignalsOK, PendingOK, WorkersOK
  <2> QED BY <1>0, <1>n, <2>1, <2>2, FinishTyped, Typed
<1>5. CASE Respond(j)
  <2>1. PICK r \in Reports(rows[j].kind, signal[j]) :
          Finish(j, r) /\ reported' = [reported EXCEPT ![j] = r]
    BY <1>5 DEF Respond
  <2>2. r \in Results /\ r.outcome # "none" BY DEF Reports, Results, Outcomes
  <2>3. UNCHANGED <<registry, signal, pending>> BY <1>5 DEF Respond
  <2>4. SignalsOK' /\ PendingOK' /\ reported' \in [Jobs -> Results]
    BY <1>0, <2>1, <2>2, <2>3 DEF SignalsOK, PendingOK, WorkersOK
  <2> QED BY <1>0, <1>n, <2>1, <2>2, <2>4, FinishTyped
<1>6. CASE Answer(j)
  <2> DEFINE r == [NoResult EXCEPT !.outcome = "completed", !.valid = TRUE]
  <2>1. UNCHANGED <<registry, signal, pending, reported>> /\ (Finish(j, r) \/ Finish(j, Unsent))
    BY <1>6 DEF Answer
  <2>2. r \in Results /\ r.outcome # "none" BY DEF NoResult, Results, Outcomes
  <2> HIDE DEF r
  <2>3. SignalsOK' /\ PendingOK' /\ reported' \in [Jobs -> Results]
    BY <1>0, <2>1 DEF SignalsOK, PendingOK, WorkersOK
  <2> QED BY <1>0, <1>n, <2>1, <2>2, <2>3, FinishTyped, Typed
<1>7. CASE Settle(j)
  <2>1. /\ worker' = [worker EXCEPT ![j] = NoWorker] /\ registry' = registry \ {j}
        /\ UNCHANGED <<signal, reported>>
        /\ \/ pending' = [pending EXCEPT ![j] = NoPending]
           \/ pending' = [pending EXCEPT ![j] = InstallPending]
           \/ /\ worker[j].pc = "keepReport"
              /\ pending' = [pending EXCEPT ![j] = Terminal(worker[j].report)]
    BY <1>7 DEF Settle, Release, Keep
  <2>2. worker[j].pc = "keepReport" => Terminal(worker[j].report) \in PendingT
    BY <1>0, TerminalTyped DEF WorkerT
  <2>3. PendingOK' BY <1>0, <2>1, <2>2, Typed DEF PendingOK
  <2>4. SignalsOK' /\ reported' \in [Jobs -> Results] BY <1>0, <2>1 DEF SignalsOK, WorkersOK
  <2> QED BY <1>0, <1>n, <2>1, <2>3, <2>4, GoneTyped
<1> QED BY <1>3, <1>4, <1>5, <1>6, <1>7

\* The send: nothing was sent before it, and its worker is past it.
LEMMA SendStep == ASSUME Safe, NEW j \in Jobs, Send(j) PROVE Safe' /\ AllKeep
<1>0. ActorOK /\ DeskOK /\ CallersOK /\ SignalsOK /\ WorkersOK /\ PendingOK /\ SentOK
  BY DEF Safe, DeskOK
<1>1. worker[j].pc = "send" /\ UNCHANGED <<callers, registry, signal, pending, reported>>
      /\ UNCHANGED actorVars
  BY DEF Send
<1>2. sent[j] = 0 /\ rows[j].status \notin Unclaimed
  BY <1>0, <1>1 DEF SentOK, Before
<1>3. \/ sent' = sent /\ (Finish(j, Unsent) \/ Finish(j, UnsentStopped))
      \/ sent' = [sent EXCEPT ![j] = sent[j] + 1] /\ Step(j, "response")
  BY DEF Send
<1>4. /\ worker' \in [Jobs -> WorkerT]
      /\ \A x \in Jobs : x # j => worker'[x] = worker[x]
      /\ worker'[j].pc \in {"complete", "response"}
  <2>1. "response" \in Places BY DEF Places
  <2> QED BY <1>0, <1>3, <2>1, FinishTyped, StepTyped, Typed
<1>5. ActorOK' /\ AllKeep BY <1>0, <1>1, RestKeeps
<1>6. DeskOK' BY <1>0, <1>1, <1>4 DEF DeskOK, CallersOK, SignalsOK, WorkersOK, PendingOK
<1>7. SentOK'
  <2>1. sent' \in [Jobs -> {0, 1}] /\ \A x \in Jobs : x # j => sent'[x] = sent[x]
    BY <1>0, <1>2, <1>3 DEF SentOK
  <2>2. rows' = rows BY <1>1 DEF actorVars
  <2>3. worker'[j].pc \notin Before BY <1>4 DEF Before
  <2> QED BY <1>0, <1>2, <1>4, <2>1, <2>2, <2>3 DEF SentOK
<1> QED BY <1>5, <1>6, <1>7 DEF Safe

\* The steps of a worker that call the actor.
LEMMA SavingSteps ==
  ASSUME Safe, NEW j \in Jobs, Revalidate(j) \/ Complete(j) \/ Install(j)
  PROVE  Safe' /\ AllKeep
<1>0. /\ ActorOK /\ RowsOK /\ DeskOK /\ CallersOK /\ SignalsOK /\ WorkersOK /\ PendingOK
      /\ worker[j] \in WorkerT /\ Good(rows[j])
  BY DEF Safe, DeskOK, ActorOK, WorkersOK, RowsOK
<1>1. /\ worker[j].pc # "none"
      /\ UNCHANGED <<callers, registry, signal, pending, sent, reported>>
  BY DEF Revalidate, Complete, Install
<1>2. SUFFICES /\ ActorOK' /\ AllKeep
               /\ worker' \in [Jobs -> WorkerT]
               /\ \A x \in Jobs : x # j => worker'[x] = worker[x]
               /\ worker'[j].pc \in Before => worker[j].pc \in Before
  <2>1. CallersOK' /\ SignalsOK' /\ PendingOK' /\ WorkersOK'
    BY <1>0, <1>1, <1>2 DEF CallersOK, SignalsOK, PendingOK, WorkersOK
  <2>2. Quiet BY <1>1, <1>2, WorkQuiet
  <2> QED BY <1>2, <2>1, <2>2, QuietSafe DEF DeskOK
<1>3. CASE Revalidate(j)
  <2>1. PICK o \in Reach(j, BeginMemory(rows[j], project)) :
          /\ Do(j, o)
          /\ \/ Finish(j, UnsentStopped) \/ Step(j, "send")
             \/ Step(j, "refused") \/ Finish(j, Unsent)
    BY <1>3 DEF Revalidate
  <2>2. \A p \in BeginMemory(rows[j], project) : Keeps(rows[j], p.row) BY <1>0, BeginKeeps
  <2>3. ActorOK' /\ AllKeep BY <1>0, <2>1, <2>2, ReachKeeps, DoKeeps
  <2>4. worker[j].pc \in Before /\ "send" \in Places /\ "refused" \in Places
    BY <1>3 DEF Revalidate, Places, Before
  <2> QED BY <1>0, <2>1, <2>3, <2>4, FinishTyped, StepTyped, Typed
<1>4. CASE Complete(j)
  <2>0. worker[j].pc = "complete" BY <1>4 DEF Complete
  <2>1. PICK o \in Reach(j, CompleteMemory(rows[j], worker[j].report)) :
          Do(j, o) /\ (Step(j, "keepReport") \/ Step(j, "install") \/ Step(j, "forget"))
    BY <1>4 DEF Complete
  <2>2. worker[j].report \in Results /\ worker[j].report.outcome # "none"
    BY <1>0, <2>0 DEF WorkerT
  <2>3. \A p \in CompleteMemory(rows[j], worker[j].report) : Keeps(rows[j], p.row)
    BY <1>0, <2>2, CompleteKeeps
  <2>4. ActorOK' /\ AllKeep BY <1>0, <2>1, <2>3, ReachKeeps, DoKeeps
  <2>5. \A pc \in {"keepReport", "install", "forget"} : pc \in Places /\ pc \notin Before
    BY DEF Places, Before
  <2> QED BY <1>0, <2>1, <2>2, <2>4, <2>5, StepTyped
<1>5. CASE Install(j)
  <2>1. PICK o \in Reach(j, InstallMemory(rows[j], project)) :
          Do(j, o) /\ (Step(j, "forget") \/ Step(j, "keepView"))
    BY <1>5 DEF Install
  <2>2. \A p \in InstallMemory(rows[j], project) : Keeps(rows[j], p.row)
    BY <1>0, InstallKeeps
  <2>3. ActorOK' /\ AllKeep BY <1>0, <2>1, <2>2, ReachKeeps, DoKeeps
  <2>4. \A pc \in {"forget", "keepView"} : pc \in Places /\ pc \notin Before
    BY DEF Places, Before
  <2> QED BY <1>0, <2>1, <2>3, <2>4, StepTyped
<1> QED BY <1>3, <1>4, <1>5

\* Edits, revocations, the close, reconnections and restarts.
LEMMA ProjectSteps ==
  ASSUME Safe,
         \/ Edit \/ Revoke \/ (\E j \in Jobs : CloseInterrupts(j))
         \/ Reconnect \/ Archive \/ Crash
  PROVE  Safe' /\ AllKeep
<1>0. /\ ActorOK /\ RowsOK /\ ProjectOK /\ FaultsOK
      /\ DeskOK /\ CallersOK /\ SignalsOK /\ WorkersOK /\ PendingOK /\ SentOK
  BY DEF Safe, DeskOK, ActorOK
<1>b. BasisLimit \in Nat /\ PolicyLimit \in Nat BY MemoryBounds
<1>1. ASSUME UNCHANGED deskVars, ActorOK', AllKeep PROVE Safe'
  <2>1. DeskOK' BY <1>0, <1>1 DEF deskVars, DeskOK, CallersOK, SignalsOK, WorkersOK, PendingOK
  <2>2. Quiet BY <1>1, IdleQuiet DEF deskVars
  <2> QED BY <1>1, <2>1, <2>2, QuietSafe
<1>2. CASE Edit \/ Revoke
  <2>1. rows' = rows /\ faults' = faults /\ UNCHANGED deskVars BY <1>2 DEF Edit, Revoke
  <2>2. ProjectOK'
    <3>1. /\ project.basis \in Nat /\ project.policy \in 0..PolicyLimit
          /\ project.basis <= BasisLimit + project.policy
      BY <1>0 DEF ProjectOK
    <3>2. CASE Edit
      <4>1. /\ project' = [project EXCEPT !.basis = project.basis + 1]
            /\ project.basis - project.policy < BasisLimit
        BY <3>2 DEF Edit
      <4>2. project.basis + 1 \in Nat /\ project.basis + 1 <= BasisLimit + project.policy
        BY <1>b, <3>1, <4>1
      <4> QED BY <1>0, <4>1, <4>2 DEF ProjectOK
    <3>3. CASE Revoke
      <4>1. /\ project' = [project EXCEPT !.policy = project.policy + 1,
                                          !.basis = project.basis + 1]
            /\ project.policy < PolicyLimit
        BY <3>3 DEF Revoke
      <4>2. /\ project.basis + 1 \in Nat /\ project.policy + 1 \in 0..PolicyLimit
            /\ project.basis + 1 <= BasisLimit + (project.policy + 1)
        BY <1>b, <3>1, <4>1
      <4> QED BY <1>0, <4>1, <4>2 DEF ProjectOK
    <3> QED BY <1>2, <3>2, <3>3
  <2>3. ActorOK' /\ AllKeep
    BY <1>0, <2>1, <2>2, KeepsSame DEF ActorOK, RowsOK, FaultsOK, AllKeep
  <2> QED BY <1>1, <2>1, <2>3
<1>3. ASSUME NEW j \in Jobs, CloseInterrupts(j) PROVE Safe' /\ AllKeep
  <2>1. PICK o \in Reach(j, InterruptMemoryClaim(rows[j])) : Do(j, o)
    BY <1>3 DEF CloseInterrupts
  <2>2. \A p \in InterruptMemoryClaim(rows[j]) : Keeps(rows[j], p.row)
    BY <1>0, InterruptKeeps DEF RowsOK
  <2>3. ActorOK' /\ AllKeep BY <1>0, <2>1, <2>2, ReachKeeps, DoKeeps
  <2> QED BY <1>1, <1>3, <2>3 DEF CloseInterrupts
<1>4. CASE Reconnect
  <2>1. PICK opened \in BOOLEAN :
          /\ Fault(~opened)
          /\ project' = [project EXCEPT !.fenced = ~opened, !.connected = opened]
    BY <1>4 DEF Reconnect
  <2>2. rows' = rows /\ UNCHANGED deskVars BY <1>4 DEF Reconnect
  <2>3. FaultsOK' BY <1>0, <2>1, FaultTyped
  <2>4. ProjectOK' BY <1>0, <2>1 DEF ProjectOK
  <2>5. ActorOK' /\ AllKeep
    BY <1>0, <2>2, <2>3, <2>4, KeepsSame DEF ActorOK, RowsOK, AllKeep
  <2> QED BY <1>1, <2>2, <2>5
<1>5. ASSUME Recovered PROVE ActorOK' /\ AllKeep
  <2>1. /\ rows' = [j \in Jobs |-> RecoverInterruptedMemory(rows[j])]
        /\ project' = [project EXCEPT !.fenced = FALSE, !.connected = TRUE]
        /\ faults' = faults
    BY <1>5 DEF Recovered
  <2>2. AllKeep BY <1>0, <2>1, InterruptKeeps DEF AllKeep, RowsOK
  <2>3. \A j \in Jobs : Good(rows'[j]) BY <2>2 DEF AllKeep, Keeps
  <2>4. RowsOK' BY <2>1, <2>3 DEF RowsOK, Good
  <2>5. ProjectOK' /\ FaultsOK' BY <1>0, <2>1 DEF ProjectOK, FaultsOK
  <2> QED BY <2>2, <2>4, <2>5 DEF ActorOK
<1>6. CASE Archive BY <1>1, <1>5, <1>6 DEF Archive
<1>7. CASE Crash
  <2>1. ActorOK' /\ AllKeep BY <1>5, <1>7 DEF Crash
  <2>2. CallersOK' /\ PendingOK' /\ SignalsOK'
    BY <1>7, Typed DEF Crash, CallersOK, PendingOK, SignalsOK
  <2>3. WorkersOK' BY <1>7, Typed, NoneTyped DEF Crash, WorkersOK
  <2>4. Quiet BY <1>7 DEF Crash, Quiet, NoWorker, Before
  <2> QED BY <2>1, <2>2, <2>3, <2>4, QuietSafe DEF DeskOK
<1> QED BY <1>2, <1>3, <1>4, <1>6, <1>7

-----------------------------------------------------------------------------
\* Theorems.

\* The invariant holds at first.
LEMMA InitSafe == Init => Safe
<1> SUFFICES ASSUME Init PROVE Safe OBVIOUS
<1>0. BasisLimit \in Nat /\ PolicyLimit \in Nat /\ FaultLimit \in Nat BY MemoryBounds
<1>1. ActorOK BY <1>0, NoneTyped DEF Init, ActorOK, RowsOK, Good, ProjectOK, FaultsOK
<1>2. DeskOK
  BY Typed, NoneTyped DEF Init, DeskOK, CallersOK, SignalsOK, WorkersOK, PendingOK
<1>3. SentOK BY DEF Init, SentOK, NoWorker, Before
<1> QED BY <1>1, <1>2, <1>3 DEF Safe

\* Every step keeps it, and keeps every job.
LEMMA NextSafe == Safe /\ [Next]_vars => Safe' /\ AllKeep
<1> SUFFICES ASSUME Safe, [Next]_vars PROVE Safe' /\ AllKeep OBVIOUS
<1>1. ASSUME NEW c \in Callers, NEW j \in Jobs,
             \/ Lookup(c, j) \/ (\E kind \in Kinds : Start(c, j, kind))
             \/ Stop(c, j) \/ Retry(c, j)
      PROVE  Safe' /\ AllKeep
  BY <1>1, BeginSteps
<1>2. ASSUME NEW c \in Callers, Resume(c) PROVE Safe' /\ AllKeep
  BY <1>2, LocalSteps, ActorSteps, ClaimStep DEF Resume
<1>3. ASSUME NEW j \in Jobs, Work(j) PROVE Safe' /\ AllKeep
  BY <1>3, ProviderSteps, SendStep, SavingSteps DEF Work
<1>4. CASE \/ Edit \/ Revoke \/ (\E j \in Jobs : CloseInterrupts(j))
           \/ Reconnect \/ Archive \/ Crash
  BY <1>4, ProjectSteps
<1>5. CASE UNCHANGED vars
  <2>1. UNCHANGED actorVars /\ UNCHANGED deskVars BY <1>5 DEF vars
  <2>2. DeskOK'
    BY <2>1 DEF Safe, deskVars, DeskOK, CallersOK, SignalsOK, WorkersOK, PendingOK
  <2>3. Quiet BY <2>1, IdleQuiet DEF deskVars
  <2> QED BY <2>1, <2>2, <2>3, RestKeeps, QuietSafe DEF Safe
<1> QED BY <1>1, <1>2, <1>3, <1>4, <1>5 DEF Next

\* The rows have their types, every job that any order of commands, failures and
\* restarts leaves behind is accepted by the readers and by the validators of a
\* backup, and one author request costs at most one provider request: for any
\* number of jobs and callers, and commands sent at will.
THEOREM JobsTheorem == Spec => []JobsStand
<1>1. Safe => TypeOK
  <2> SUFFICES ASSUME Safe PROVE TypeOK OBVIOUS
  <2>1. \A j \in Jobs : worker[j].report \in Results /\ reported[j] \in Results
    BY DEF Safe, DeskOK, WorkersOK, WorkerT
  <2>2. \A j \in Jobs : /\ pending[j].kind \in {"none", "claim", "terminal", "install"}
                        /\ pending[j].report \in Results
    BY DEF Safe, DeskOK, PendingOK, PendingT
  <2>3. \A c \in Callers : callers[c].got \in Results /\ callers[c].job \in Jobs \cup {"none"}
    BY DEF Safe, DeskOK, CallersOK, CallT
  <2>4. project \in [basis : 0..(BasisLimit + PolicyLimit), policy : 0..PolicyLimit,
                    fenced : BOOLEAN, connected : BOOLEAN]
    <3>1. BasisLimit \in Nat /\ PolicyLimit \in Nat BY MemoryBounds
    <3>2. ProjectOK BY DEF Safe, ActorOK
    <3>3. /\ project.basis \in Nat /\ project.policy \in 0..PolicyLimit
          /\ project.basis <= BasisLimit + project.policy
      BY <3>2 DEF ProjectOK
    <3>4. project.basis \in 0..(BasisLimit + PolicyLimit) BY <3>1, <3>3
    <3> QED BY <3>2, <3>4 DEF ProjectOK
  <2> QED BY <2>1, <2>2, <2>3, <2>4
          DEF Safe, ActorOK, RowsOK, FaultsOK, DeskOK, SignalsOK, TypeOK
<1>2. Safe => EveryRecordLegal
  <2> SUFFICES ASSUME Safe PROVE \A j \in DOMAIN rows : rows[j] # NoJob => LegalRecord(rows[j])
    BY DEF EveryRecordLegal, ValidateMemoryStorage
  <2>1. DOMAIN rows = Jobs BY DEF Safe, ActorOK, RowsOK
  <2> QED BY <2>1 DEF Safe, ActorOK, RowsOK, Good
<1>3. Safe => SentOnce BY DEF Safe, SentOK, SentOnce
<1>4. Safe => JobsStand BY <1>1, <1>2, <1>3 DEF JobsStand
<1> QED BY <1>4, InitSafe, NextSafe, PTL DEF Spec

\* A job that was asked to stop or was interrupted never completes and never
\* installs a view, and its recorded result and its view are never replaced.
THEOREM HistoryTheorem == Spec => JobHistoryStands
<1>1. Safe /\ [Next]_vars
        => [\A j \in Jobs :
             /\ rows[j].status \in Ended =>
                 rows'[j].status \in Ended /\ rows'[j].view = NoView
             /\ rows[j].result # NoResult =>
                 rows'[j].result = rows[j].result /\ rows'[j].status = rows[j].status
             /\ rows[j].view # NoView => rows'[j].view = rows[j].view]_vars
  BY NextSafe DEF AllKeep, Keeps
<1> QED BY <1>1, InitSafe, NextSafe, PTL DEF Spec, JobHistoryStands

-----------------------------------------------------------------------------
(***************************************************************************)
(* What the threads know of a job.  The predicates speak of the values of  *)
(* one job (its row r, its worker w, what is retained p and what the       *)
(* provider reported rep) and of the call k of one command, so that a step *)
(* is argued once for the job it touches.                                  *)
(***************************************************************************)

Unrun(r) == r.dispatch # "dispatched"
Over(r) == r.status \notin Active /\ r.status # "absent"
Running(r) == r.status \in {"running", "stopping"}

\* A job that was given up: its producer can never tell what came of it.
Lost(r) ==
    r.status = "interrupted" /\ r.result = NoResult /\ r.reason = "dispatch_outcome_unknown"

\* A report that is the one the provider made, if it made one.
Tells(rep, report) == rep = NoResult \/ report = rep

\* A job that is over has recorded what the provider reported.
Settled(r, rep) == Over(r) /\ (r.result # NoResult \/ rep = NoResult)

\* A job whose claim is given up, or that is over without it.
Gone(r, w, p, rep) ==
    /\ r.status # "absent" /\ w.pc = "none" /\ rep = NoResult
    /\ p = ClaimPending \/ Over(r)

\* What a worker knows.
Early == Before \cup {"response", "answer"}
Asked == {"inspect", "revalidate", "send", "response"}
WorkerP(r, w, rep) ==
    /\ w.pc = "none" => w = NoWorker
    /\ w.pc \in Early => Running(r) /\ rep = NoResult
    /\ w.pc = "answer" => r.kind = "local"
    /\ w.pc = "complete" => Running(r)
    /\ w.pc \in {"complete", "keepReport"} =>
        Tells(rep, w.report) /\ DeliveryProved(r.kind, w.report)
    /\ w.pc \in {"install", "keepView"} => r.status = "completed"
    /\ w.pc = "forget" => Over(r) /\ r.result # NoResult

\* What is retained for a job.
PendingP(r, w, p, rep) ==
    /\ p.kind = "none" => p = NoPending
    /\ p.kind = "claim" => p = ClaimPending /\ w.pc = "none" /\ rep = NoResult
    /\ p.kind = "terminal" =>
        /\ ~Unrun(r) /\ w.pc = "none" /\ p = Terminal(p.report)
        /\ Tells(rep, p.report) /\ DeliveryProved(r.kind, p.report)
    /\ p.kind = "install" => r.status = "completed"

JobP(r, w, p, rep) ==
    /\ r.result # NoResult => Tells(rep, r.result)
    /\ Unrun(r) => w.pc = "none" /\ rep = NoResult /\ p \in {NoPending, ClaimPending}
    /\ Lost(r) => w.pc = "none" /\ rep = NoResult
    /\ WorkerP(r, w, rep) /\ PendingP(r, w, p, rep)
    /\ rep # NoResult => r.result = rep \/ w.report = rep \/ p = Terminal(rep)

\* What a retry read of the job, which other commands may have changed since.
Seen(held, r, p) ==
    /\ held.status # "absent" /\ r.status # "absent"
    /\ held.done => r.result # NoResult
    /\ held.status \notin Active => r.status = held.status /\ r.reason = held.reason
    /\ held.status = "queued" => Unrun(r) /\ (p = ClaimPending \/ Over(r))

\* What a command knows; reg says that its job is registered.
Starting == {"accept", "started", "register", "claim", "interrupt", "retain", "retry"}
CallP(k, r, w, p, rep, reg) ==
    /\ k.pc \in Starting => k.cmd = "start"
    /\ k.pc \in Starting \ {"accept"} => r.status # "absent"
    /\ k.pc \in {"started", "register", "claim"} => k.kind = r.kind
    /\ k.pc = "started" /\ k.held.status = "queued" => Unrun(r)
    /\ k.pc \in {"register", "claim", "interrupt"} => Unrun(r) /\ p = NoPending
    /\ k.pc = "register" => k.kind # "local"
    /\ k.pc = "claim" /\ k.kind # "local" => reg
    /\ k.pc = "retain" => /\ w.pc = "none" /\ rep = NoResult /\ p = NoPending
                          /\ Unrun(r) \/ Running(r)
    /\ k.pc \in {"retry", "giveUp"} => Gone(r, w, p, rep)
    /\ k.pc = "look" => Seen(k.held, r, p)
    /\ k.pc \in {"save", "keepReport"} =>
        /\ ~Unrun(r) /\ w.pc = "none" /\ Tells(rep, k.got) /\ DeliveryProved(r.kind, k.got)
        /\ p.kind = "terminal" \/ Over(r)
    /\ k.pc \in {"latest", "forget"} => Settled(r, rep)
    /\ k.pc \in {"installKept", "keepView"} => r.status = "completed"

\* A job in its state, and a command in its.
JobStands(j) == JobP(rows[j], worker[j], pending[j], reported[j])
CallStands(c) ==
    callers[c].pc # "idle" =>
        LET j == callers[c].job
        IN  CallP(callers[c], rows[j], worker[j], pending[j], reported[j], j \in registry)

\* A worker that may send is registered, and was or is about to be signalled.
SignalStands(j) ==
    worker[j].pc \in Asked =>
        /\ j \in registry
        /\ rows[j].status = "stopping" =>
            signal[j] \/ \E c \in Callers : callers[c].job = j /\ callers[c].pc = "signal"

\* A running job has its worker, a retained outcome, or a claim to be retained.
OwnedStands(j) ==
    Running(rows[j]) =>
        \/ worker[j].pc # "none" \/ pending[j] # NoPending
        \/ \E c \in Callers : callers[c].job = j /\ callers[c].pc = "retain"

\* One command starts a job at a time.
OneStart ==
    \A c, d \in Callers :
        callers[c].cmd = "start" /\ callers[d].cmd = "start" /\ callers[c].job = callers[d].job
            => c = d

Kept ==
    /\ \A j \in Jobs : JobStands(j) /\ SignalStands(j) /\ OwnedStands(j)
    /\ \A c \in Callers : CallStands(c)
    /\ OneStart

-----------------------------------------------------------------------------
(***************************************************************************)
(* What the commands make of a row, as the threads can tell.               *)
(***************************************************************************)

Goes(r, n) ==
    /\ Good(r) /\ Good(n)
    /\ r.status # "absent" => n.status # "absent" /\ n.kind = r.kind
    /\ Over(r) => n.status = r.status /\ n.reason = r.reason
    /\ r.result # NoResult => n.result = r.result
    /\ ~Unrun(r) => ~Unrun(n)

\* What the readers accept, read off a good row.
LEMMA RowFacts ==
  ASSUME NEW r, Good(r)
  PROVE  /\ r.status = "absent" => r = NoJob
         /\ r.status \in {"absent"} \cup Statuses /\ r.kind \in Kinds
         /\ Unrun(r) => r.result = NoResult /\ ~Running(r) /\ r.status # "completed"
         /\ r.status \in {"absent", "queued"} => Unrun(r)
         /\ r.result # NoResult => Over(r)
         /\ r.status = "completed" => r.result # NoResult /\ r.result.valid
         /\ r.status \in {"stopped", "failed"} /\ ~Unrun(r) => r.result # NoResult
         /\ r.status = "interrupted" /\ r.result = NoResult =>
              r.reason \in {"recovered_unknown_external_outcome", "dispatch_outcome_unknown"}
         /\ r.status \in {"running", "stopping"} => r.result = NoResult
<1>1. r \in JobRows
  BY DEF Good
<1>2. CASE r = NoJob
  <2>1. r.dispatch = "pending" /\ r.status = "absent" /\ r.result = NoResult
    BY <1>2, NoneTyped DEF NoJob
  <2> QED BY <1>1, <1>2, <2>1 DEF Unrun, Running, JobRows, Over
<1>3. CASE r # NoJob
  <2>1. LegalLifecycle(r) /\ (r.status = "completed" => r.result.valid)
    BY <1>3 DEF Good, LegalRecord
  <2>2. r.status \in Statuses
    BY <1>1, <1>3, LegalFacts DEF Good
  <2>3. r.status # "absent" /\ (r.result # NoResult => Over(r))
    BY <2>1, <2>2 DEF Statuses, Active, Over, LegalLifecycle
  <2>4. Unrun(r) => r.result = NoResult /\ ~Running(r) /\ r.status # "completed"
    BY <2>1 DEF LegalLifecycle, Unrun, Running
  <2>5. /\ r.status = "queued" => Unrun(r)
        /\ r.status \in {"stopped", "failed"} /\ ~Unrun(r) => r.result # NoResult
    BY <2>1 DEF LegalLifecycle, Unrun
  <2>6. /\ r.status = "completed" => r.result # NoResult
        /\ r.status \in {"running", "stopping"} => r.result = NoResult
        /\ r.status = "interrupted" /\ r.result = NoResult =>
              r.reason \in {"recovered_unknown_external_outcome", "dispatch_outcome_unknown"}
    BY <2>1 DEF LegalLifecycle
  <2> QED BY <1>1, <2>1, <2>2, <2>3, <2>4, <2>5, <2>6 DEF JobRows
<1> QED BY <1>2, <1>3

\* A row that stays goes where it was.
LEMMA GoesSame == ASSUME NEW r, Good(r) PROVE Goes(r, r)
  BY DEF Goes

\* start_memory: a job that exists stays as it is.
LEMMA StartGoes ==
  ASSUME NEW r, Good(r), NEW kind \in Kinds, NEW p, p.basis \in Nat, p.policy \in Nat,
         NEW o \in StartMemory(r, kind, p)
  PROVE  /\ Goes(r, o.row) /\ o.row.dispatch = r.dispatch
         /\ r.status # "absent" => o.row = r
         /\ r.status = "absent" => o.row = NoJob \/ o.row.status = "queued"
         /\ o.code = "ok" => o.row.kind = kind /\ o.row.status # "absent"
<1>1. Good(o.row)
  BY StartKeeps DEF Keeps
<1> DEFINE new == [NoJob EXCEPT !.status = "queued", !.kind = kind,
                                !.basis = p.basis, !.policy = p.policy]
<1>2. CASE r = NoJob
  <2>1. (o.row = r /\ o.code # "ok") \/ o.row = new
    BY <1>2 DEF StartMemory, Committed
  <2>2. /\ new.status = "queued" /\ new.kind = kind /\ new.dispatch = "pending"
        /\ r.dispatch = "pending" /\ r.status = "absent" /\ r.result = NoResult
    BY <1>2 DEF NoJob
  <2> HIDE DEF new
  <2> QED BY <1>1, <1>2, <2>1, <2>2 DEF Goes, Over, Unrun
<1>3. CASE r # NoJob
  <2>1. o.row = r /\ (o.code = "ok" => r.kind = kind)
    BY <1>3 DEF StartMemory, Committed, Refused
  <2>2. r.status # "absent"
    BY <1>3, RowFacts
  <2> QED BY <1>3, <2>1, <2>2, GoesSame
<1> QED BY <1>2, <1>3

\* stop_memory: a running job is asked to stop.
LEMMA StopGoes ==
  ASSUME NEW r, Good(r), NEW o \in StopMemory(r)
  PROVE  /\ Goes(r, o.row) /\ o.row.dispatch = r.dispatch /\ o.row.result = r.result
         /\ Running(o.row) <=> Running(r)
         /\ o.code \in {"ok", "UncertainOutcome"}
         /\ Over(r) => o.row = r
         /\ o.row # r => o.row.reason = "author_stopped"
<1>1. Good(o.row)
  BY StopKeeps DEF Keeps
<1>2. /\ o.code \in {"ok", "UncertainOutcome"}
      /\ \/ o.row = r
         \/ /\ r.status = "queued"
            /\ o.row = [r EXCEPT !.status = "stopped", !.reason = "author_stopped"]
         \/ /\ r.status = "running"
            /\ o.row = [r EXCEPT !.status = "stopping", !.reason = "author_stopped"]
  BY DEF StopMemory, Committed
<1>3. r \in JobRows
  BY DEF Good
<1>4. CASE o.row = r
  BY <1>2, <1>4, GoesSame
<1>5. CASE /\ r.status = "queued"
           /\ o.row = [r EXCEPT !.status = "stopped", !.reason = "author_stopped"]
  <2>1. /\ o.row.status = "stopped" /\ o.row.kind = r.kind /\ o.row.result = r.result
        /\ o.row.dispatch = r.dispatch /\ o.row.reason = "author_stopped"
    BY <1>3, <1>5 DEF JobRows
  <2> QED BY <1>1, <1>2, <1>5, <2>1 DEF Goes, Over, Unrun, Running, Active
<1>6. CASE /\ r.status = "running"
           /\ o.row = [r EXCEPT !.status = "stopping", !.reason = "author_stopped"]
  <2>1. /\ o.row.status = "stopping" /\ o.row.kind = r.kind /\ o.row.result = r.result
        /\ o.row.dispatch = r.dispatch /\ o.row.reason = "author_stopped"
    BY <1>3, <1>6 DEF JobRows
  <2> QED BY <1>1, <1>2, <1>6, <2>1 DEF Goes, Over, Unrun, Running, Active
<1> QED BY <1>2, <1>4, <1>5, <1>6

\* An active job that is interrupted, by a command or by the opening.
LEMMA InterruptedGoes ==
  ASSUME NEW r, Good(r), r.status \in Active, NEW n, Good(n),
         NEW q \in {"recovered_unknown_external_outcome", "dispatch_outcome_unknown"},
         n = [r EXCEPT !.status = "interrupted", !.reason = q]
  PROVE  /\ Goes(r, n) /\ n.dispatch = r.dispatch /\ n.result = r.result
         /\ Over(n) /\ n.reason = q /\ n.status = "interrupted" /\ ~Running(n)
<1>1. r \in JobRows
  BY DEF Good
<1>2. /\ n.status = "interrupted" /\ n.kind = r.kind /\ n.result = r.result
      /\ n.dispatch = r.dispatch /\ n.reason = q
  BY <1>1 DEF JobRows
<1> QED BY <1>2 DEF Goes, Over, Unrun, Running, Active

\* interrupt_memory_claim: an active job is over.
LEMMA InterruptGoes ==
  ASSUME NEW r, Good(r), NEW o \in InterruptMemoryClaim(r)
  PROVE  /\ Goes(r, o.row) /\ o.row.dispatch = r.dispatch /\ o.row.result = r.result
         /\ o.code \in {"ok", "UncertainOutcome"}
         /\ Running(o.row) => o.row = r
         /\ r.status \notin Active => o.row = r
         /\ o.code = "ok" /\ r.status # "absent" => Over(o.row)
<1>1. Good(o.row)
  BY InterruptKeeps DEF Keeps
<1> DEFINE n == [r EXCEPT !.status = "interrupted", !.reason = "dispatch_outcome_unknown"]
<1>2. /\ o.code \in {"ok", "UncertainOutcome"}
      /\ \/ o.row = r /\ (r.status \notin Active \/ o.code # "ok")
         \/ r.status \in Active /\ o.row = n
  BY DEF InterruptMemoryClaim, Committed
<1>3. CASE o.row = r /\ (r.status \notin Active \/ o.code # "ok")
  BY <1>2, <1>3, GoesSame DEF Over
<1>4. CASE r.status \in Active /\ o.row = n
  <2>1. PICK m : m = o.row
    OBVIOUS
  <2>2. m = [r EXCEPT !.status = "interrupted", !.reason = "dispatch_outcome_unknown"]
    BY <1>4, <2>1
  <2>3. /\ Goes(r, m) /\ m.dispatch = r.dispatch /\ m.result = r.result
        /\ Over(m) /\ ~Running(m)
    BY <1>1, <1>4, <2>1, <2>2, InterruptedGoes, ZenonT(60)
  <2> QED BY <1>2, <1>4, <2>1, <2>3
<1> QED BY <1>2, <1>3, <1>4

\* recover_interrupted_memory: no active job is left.
LEMMA RecoverGoes ==
  ASSUME NEW r, Good(r), NEW n, n = RecoverInterruptedMemory(r)
  PROVE  /\ Goes(r, n) /\ n.dispatch = r.dispatch /\ n.result = r.result /\ ~Running(n)
         /\ r.status \notin Active => n = r
         /\ r.status \in Active => n.reason = "recovered_unknown_external_outcome"
<1>1. Good(n)
  BY InterruptKeeps DEF Keeps
<1>2. CASE r.status \notin Active
  BY <1>2, GoesSame DEF RecoverInterruptedMemory, Running, Active
<1>3. CASE r.status \in Active
  <2>1. n = [r EXCEPT !.status = "interrupted", !.reason = "recovered_unknown_external_outcome"]
    BY <1>3 DEF RecoverInterruptedMemory
  <2>2. /\ Goes(r, n) /\ n.dispatch = r.dispatch /\ n.result = r.result
        /\ ~Running(n) /\ n.reason = "recovered_unknown_external_outcome"
    BY <1>1, <1>3, <2>1, InterruptedGoes, ZenonT(60)
  <2> QED BY <1>3, <2>2
<1> QED BY <1>2, <1>3

\* begin_memory: only the first claim of a queued job dispatches it.
LEMMA BeginGoes ==
  ASSUME NEW r, Good(r), NEW p, NEW o \in BeginMemory(r, p)
  PROVE  /\ Goes(r, o.row)
         /\ r.status # "queued" => o.row = r /\ o.code # "newlyDispatched"
         /\ r.status = "queued" =>
              /\ o.row = r \/ o.row.status = "running"
              /\ o.code = "newlyDispatched" => o.row.status = "running"
              /\ o.code \notin {"newlyDispatched", "UncertainOutcome"} => o.row = r
<1>1. Good(o.row)
  BY BeginKeeps DEF Keeps
<1> DEFINE n == [r EXCEPT !.status = "running", !.dispatch = "dispatched"]
<1>2. \/ o.row = r /\ o.code # "newlyDispatched"
      \/ r.status = "queued" /\ o.row = n /\ o.code \in {"newlyDispatched", "UncertainOutcome"}
  BY DEF BeginMemory, Committed, Refused
<1>3. CASE o.row = r /\ o.code # "newlyDispatched"
  BY <1>3, GoesSame
<1>4. CASE r.status = "queued" /\ o.row = n /\ o.code \in {"newlyDispatched", "UncertainOutcome"}
  <2>1. r \in JobRows
    BY DEF Good
  <2>2. n.status = "running" /\ n.dispatch = "dispatched" /\ n.kind = r.kind /\ n.result = r.result
    BY <2>1 DEF JobRows
  <2> HIDE DEF n
  <2> QED BY <1>1, <1>4, <2>2 DEF Goes, Over, Unrun, Active
<1> QED BY <1>2, <1>3, <1>4

\* complete_memory: a report that is recorded is the result and the job is over.
LEMMA CompleteGoes ==
  ASSUME NEW r, Good(r), ~Unrun(r), NEW report \in Results, report.outcome # "none",
         NEW o \in CompleteMemory(r, report)
  PROVE  /\ Goes(r, o.row) /\ o.row.dispatch = r.dispatch
         /\ o.row = r \/ (o.row.result = report /\ ~Running(o.row))
         /\ o.code = "ok" => o.row.result = report /\ Over(o.row) /\ report # NoResult
<1>1. Good(o.row)
  BY CompleteKeeps DEF Keeps
<1>2. r \in JobRows /\ report # NoResult
  BY DEF Good, NoResult
<1> DEFINE end == TerminalState(r.status, report)
           late == [r EXCEPT !.result = report]
           ended == [r EXCEPT !.status = end.status, !.reason = end.reason, !.result = report]
<1>3. \/ o.row = r /\ (o.code = "ok" => r.result = report)
      \/ r.result = NoResult /\ RecoveredClaim(r) /\ o.row = late
      \/ r.result = NoResult /\ r.status \in {"running", "stopping"} /\ o.row = ended
  BY DEF CompleteMemory, Committed, Refused
<1>4. CASE o.row = r /\ (o.code = "ok" => r.result = report)
  <2>1. r.result # NoResult => Over(r)
    BY RowFacts
  <2> QED BY <1>2, <1>4, <2>1, GoesSame
<1>5. CASE r.result = NoResult /\ RecoveredClaim(r) /\ o.row = late
  <2>1. /\ late.status = r.status /\ late.reason = r.reason /\ late.kind = r.kind
        /\ late.dispatch = r.dispatch /\ late.result = report
    BY <1>2 DEF JobRows
  <2>2. r.status = "interrupted"
    BY <1>5 DEF RecoveredClaim
  <2> HIDE DEF late
  <2> QED BY <1>1, <1>2, <1>5, <2>1, <2>2 DEF Goes, Over, Unrun, Running, Active
<1>6. CASE r.result = NoResult /\ r.status \in {"running", "stopping"} /\ o.row = ended
  <2>1. end.status \in {"interrupted", "stopped", "completed", "failed"}
    BY DEF TerminalState
  <2> HIDE DEF end
  <2>2. /\ ended.status = end.status /\ ended.kind = r.kind
        /\ ended.dispatch = r.dispatch /\ ended.result = report
    BY <1>2 DEF JobRows
  <2> HIDE DEF ended
  <2> QED BY <1>1, <1>2, <1>6, <2>1, <2>2 DEF Goes, Over, Unrun, Running, Active
<1> QED BY <1>3, <1>4, <1>5, <1>6

\* install_memory: only the view of a completed job changes.
LEMMA InstallGoes ==
  ASSUME NEW r, Good(r), NEW p, NEW o \in InstallMemory(r, p)
  PROVE  /\ Goes(r, o.row) /\ o.row.dispatch = r.dispatch /\ o.row.result = r.result
         /\ o.row.status = r.status /\ o.row.kind = r.kind /\ o.row.reason = r.reason
<1>1. Good(o.row)
  BY InstallKeeps DEF Keeps
<1> DEFINE n == [r EXCEPT !.view = [candidate |-> r.result, current |-> BasisCurrent(r, p)]]
<1>2. o.row = r \/ o.row = n
  BY DEF InstallMemory, Committed, Refused
<1>3. r \in JobRows
  BY DEF Good
<1>4. /\ n.status = r.status /\ n.kind = r.kind /\ n.result = r.result
      /\ n.dispatch = r.dispatch /\ n.reason = r.reason
  BY <1>3 DEF JobRows
<1> HIDE DEF n
<1> QED BY <1>1, <1>2, <1>4, GoesSame DEF Goes, Over, Unrun

-----------------------------------------------------------------------------
(***************************************************************************)
(* What a thread knows stays true under the steps of the others.           *)
(***************************************************************************)

\* The markers of what is retained differ by their kind.
LEMMA PendingKinds ==
  /\ NoPending.kind = "none" /\ ClaimPending.kind = "claim" /\ InstallPending.kind = "install"
  /\ \A report : Terminal(report).kind = "terminal" /\ Terminal(report).report = report
  /\ NoWorker.pc = "none" /\ NoWorker.report = NoResult
BY DEF NoPending, ClaimPending, InstallPending, Terminal, NoWorker

\* A command that does not dispatch the job disturbs no other, unless it ends a
\* job whose claim is about to be retained.
LEMMA CallStays ==
  ASSUME NEW k, NEW r, NEW n, NEW w, NEW p, NEW rep, NEW reg, NEW reg2,
         CallP(k, r, w, p, rep, reg), Goes(r, n), n.dispatch = r.dispatch,
         reg /\ k.cmd = "start" => reg2,
         k.pc = "retain" /\ Running(r) => Running(n)
  PROVE  CallP(k, n, w, p, rep, reg2)
<1>1. Unrun(n) <=> Unrun(r)
  BY DEF Unrun
<1>2. /\ ~Unrun(r) => r.status # "absent"
      /\ r.status # "absent" => n.status # "absent" /\ n.kind = r.kind
      /\ Over(r) => Over(n) /\ n.status = r.status /\ n.reason = r.reason
      /\ r.result # NoResult => n.result # NoResult
  BY RowFacts DEF Goes, Over
<1>3. \A report : ~Unrun(r) /\ DeliveryProved(r.kind, report) => DeliveryProved(n.kind, report)
  BY <1>2
<1>4. Gone(r, w, p, rep) => Gone(n, w, p, rep)
  BY <1>2 DEF Gone
<1>5. Seen(k.held, r, p) => Seen(k.held, n, p)
  <2>1. k.held.status \notin Active /\ k.held.status # "absent" /\ r.status = k.held.status
          => Over(r)
    BY DEF Over
  <2> QED BY <1>1, <1>2, <2>1 DEF Seen
<1>6. Settled(r, rep) => Settled(n, rep)
  BY <1>2 DEF Settled
<1>7. r.status = "completed" => n.status = "completed"
  BY <1>2 DEF Over, Active
<1> QED BY <1>1, <1>2, <1>3, <1>4, <1>5, <1>6, <1>7 DEF CallP, Starting

\* Whatever the worker of a job does, a command knows of the row only what
\* stays.
LEMMA CallUnderWorker ==
  ASSUME NEW k, NEW r, NEW n, NEW w, NEW p, NEW rep, NEW reg,
         NEW w2, NEW p2, NEW rep2, NEW reg2,
         CallP(k, r, w, p, rep, reg), JobP(r, w, p, rep), Goes(r, n), w.pc # "none",
         rep2 = rep \/ Running(r)
  PROVE  CallP(k, n, w2, p2, rep2, reg2)
<1>1. ~Unrun(r) /\ ~Unrun(n)
  BY DEF JobP, Goes
<1>2. /\ r.status # "absent" /\ n.status # "absent" /\ n.kind = r.kind
      /\ Over(r) => Over(n) /\ n.status = r.status /\ n.reason = r.reason
      /\ r.result # NoResult => n.result # NoResult
      /\ Over(r) => rep2 = rep
  BY <1>1, RowFacts DEF Goes, Over, Running, Active
<1>3. Seen(k.held, r, p) => Seen(k.held, n, p2)
  <2>1. k.held.status \notin Active /\ k.held.status # "absent" /\ r.status = k.held.status
          => Over(r)
    BY DEF Over
  <2> QED BY <1>1, <1>2, <2>1 DEF Seen
<1>4. Settled(r, rep) => Settled(n, rep2)
  BY <1>2 DEF Settled
<1>5. r.status = "completed" => n.status = "completed"
  BY <1>2 DEF Over, Active
<1>6. k.pc \notin {"register", "claim", "interrupt", "retain", "retry", "giveUp",
                    "save", "keepReport"}
  BY <1>1 DEF CallP, Gone
<1> QED BY <1>1, <1>2, <1>3, <1>4, <1>5, <1>6 DEF CallP, Starting

\* Nor does the claim of a queued job by the one command that starts it.
LEMMA CallUnderClaim ==
  ASSUME NEW k, NEW r, NEW n, NEW w, NEW rep, NEW reg, NEW w2, NEW reg2,
         CallP(k, r, w, NoPending, rep, reg), Goes(r, n), r.status = "queued",
         k.cmd # "start"
  PROVE  CallP(k, n, w2, NoPending, rep, reg2)
<1>1. Unrun(r) /\ ~Over(r) /\ r.status # "completed" /\ n.status # "absent" /\ n.kind = r.kind
  BY RowFacts DEF Goes, Over, Active
<1>2. NoPending # ClaimPending /\ NoPending.kind # "terminal"
  BY PendingKinds
<1>3. k.pc \notin Starting
  BY DEF CallP
<1>4. k.pc \notin {"giveUp", "save", "keepReport", "latest", "forget", "installKept", "keepView"}
  BY <1>1, <1>2 DEF CallP, Gone, Settled
<1>5. Seen(k.held, r, NoPending) => Seen(k.held, n, NoPending)
  <2>1. r.result = NoResult
    BY <1>1, RowFacts DEF Goes
  <2>2. ASSUME Seen(k.held, r, NoPending) PROVE Seen(k.held, n, NoPending)
    <3>1. k.held.status # "absent" /\ ~k.held.done /\ k.held.status # "queued"
      BY <2>1, <2>2, <1>1, <1>2 DEF Seen
    <3>2. k.held.status \in Active
      BY <2>2 DEF Seen, Active
    <3> QED BY <1>1, <3>1, <3>2 DEF Seen
  <2> QED BY <2>2
<1> QED BY <1>3, <1>4, <1>5 DEF CallP, Starting

\* Nor what a retry makes of the recovery map.
LEMMA CallUnderKeep ==
  ASSUME NEW k, NEW r, NEW w, NEW p, NEW rep, NEW reg, NEW p2,
         CallP(k, r, w, p, rep, reg), Good(r),
         \/ p2 = NoPending /\ Over(r)
         \/ p2 = InstallPending /\ r.status = "completed"
         \/ p2.kind = "terminal" /\ ~Unrun(r) /\ (p.kind = "terminal" \/ Over(r))
  PROVE  CallP(k, r, w, p2, rep, reg)
<1>1. r.status = "completed" => Over(r) /\ ~Unrun(r)
  BY RowFacts DEF Over, Active
<1>2. ~(Over(r) /\ Running(r))
  BY DEF Over, Running, Active
<1>3. CASE p2 = NoPending /\ Over(r)
  BY <1>3 DEF CallP, Gone, Seen, Settled
<1>4. CASE p2 = InstallPending /\ r.status = "completed"
  <2>1. k.pc \notin {"register", "claim", "interrupt", "retain"}
    BY <1>1, <1>2, <1>4 DEF CallP
  <2> QED BY <1>1, <1>4, <2>1 DEF CallP, Gone, Seen
<1>5. CASE p2.kind = "terminal" /\ ~Unrun(r) /\ (p.kind = "terminal" \/ Over(r))
  <2>1. Over(r) \/ (p # NoPending /\ p # ClaimPending)
    BY <1>5, PendingKinds
  <2>2. k.pc \notin {"register", "claim", "interrupt", "retain"}
    BY <1>2, <1>5, <2>1 DEF CallP
  <2>3. Gone(r, w, p, rep) => Gone(r, w, p2, rep)
    BY <2>1 DEF Gone
  <2>4. Seen(k.held, r, p) => Seen(k.held, r, p2)
    BY <1>5 DEF Seen
  <2> QED BY <1>5, <2>2, <2>3, <2>4 DEF CallP
<1> QED BY <1>3, <1>4, <1>5

\* Nor the claim that is retained by the one command that starts the job.
LEMMA CallUnderRetain ==
  ASSUME NEW k, NEW r, NEW w, NEW rep, NEW reg, NEW reg2,
         CallP(k, r, w, NoPending, rep, reg), k.cmd # "start"
  PROVE  CallP(k, r, w, ClaimPending, rep, reg2)
<1>1. NoPending.kind # "terminal" /\ k.pc \notin Starting
  BY PendingKinds DEF CallP
<1>2. Gone(r, w, NoPending, rep) => Gone(r, w, ClaimPending, rep)
  BY DEF Gone
<1>3. Seen(k.held, r, NoPending) => Seen(k.held, r, ClaimPending)
  BY DEF Seen
<1>4. k.pc \in {"save", "keepReport"} => Over(r)
  BY <1>1 DEF CallP
<1> QED BY <1>1, <1>2, <1>3, <1>4 DEF CallP, Starting

\* A job under a command that neither dispatches it nor ends it under its
\* worker.
LEMMA JobStays ==
  ASSUME NEW r, NEW n, NEW w, NEW p, NEW rep,
         JobP(r, w, p, rep), Goes(r, n), n.dispatch = r.dispatch,
         n.result = r.result \/ Tells(rep, n.result),
         Lost(n) => Lost(r) \/ (w.pc = "none" /\ rep = NoResult),
         w.pc \in Early \cup {"complete"} => Running(n)
  PROVE  JobP(n, w, p, rep)
<1>1. Unrun(n) <=> Unrun(r)
  BY DEF Unrun
<1>2. /\ ~Unrun(r) => r.status # "absent"
      /\ r.status # "absent" => n.kind = r.kind
      /\ Over(r) => Over(n) /\ n.status = r.status
      /\ r.status = "completed" => n.status = "completed"
      /\ r.result # NoResult => n.result = r.result
  BY RowFacts DEF Goes, Over, Active
<1>3. WorkerP(n, w, rep)
  <2>1. w.pc # "none" => n.kind = r.kind
    BY <1>2 DEF JobP
  <2>2. w.pc \in {"answer", "complete", "keepReport"} => w.pc # "none"
    OBVIOUS
  <2> QED BY <1>2, <2>1, <2>2 DEF JobP, WorkerP
<1>4. PendingP(n, w, p, rep)
  BY <1>1, <1>2 DEF JobP, PendingP
<1>5. n.result # NoResult => Tells(rep, n.result)
  BY DEF JobP
<1>6. rep # NoResult => n.result = rep \/ w.report = rep \/ p = Terminal(rep)
  BY <1>2 DEF JobP
<1> QED BY <1>1, <1>3, <1>4, <1>5, <1>6 DEF JobP

-----------------------------------------------------------------------------
(***************************************************************************)
(* From what a step does to one job to the invariant.                      *)
(***************************************************************************)

\* Nothing else of the state moves than what belongs to one job.
Only(j) ==
    \A x \in Jobs : x # j =>
        /\ rows'[x] = rows[x] /\ worker'[x] = worker[x] /\ pending'[x] = pending[x]
        /\ reported'[x] = reported[x] /\ signal'[x] = signal[x]
        /\ x \in registry' <=> x \in registry

\* A call under way names a job.
LEMMA CallNamesJob ==
  ASSUME Safe, NEW c \in Callers
  PROVE  /\ callers[c].pc # "idle" => callers[c].job \in Jobs
         /\ DOMAIN callers = Callers
  BY CallFacts DEF Safe, DeskOK, CallersOK

\* A step of one command on its job.
LEMMA CallerStep ==
  ASSUME Safe, Kept, NEW c \in Callers, NEW j \in Jobs, NEW k,
         callers' = [callers EXCEPT ![c] = k], Only(j),
         callers[c].pc = "idle" \/ callers[c].job = j,
         k = NoCall \/ (k.pc # "idle" /\ k.job = j),
         JobStands(j)', SignalStands(j)', OwnedStands(j)',
         k.pc # "idle" =>
            CallP(k, rows'[j], worker'[j], pending'[j], reported'[j], j \in registry'),
         \A d \in Callers : d # c /\ callers[d].pc # "idle" /\ callers[d].job = j =>
            CallP(callers[d], rows'[j], worker'[j], pending'[j], reported'[j], j \in registry'),
         k.cmd = "start" => \A d \in Callers :
            d # c /\ callers[d].cmd = "start" => callers[d].job # j
  PROVE  Kept'
<1>1. callers'[c] = k /\ \A d \in Callers : d # c => callers'[d] = callers[d]
  BY CallNamesJob
<1>2. NoCall.pc = "idle" /\ NoCall.cmd = "none"
  BY DEF NoCall
<1>3. ASSUME NEW x \in Jobs, x # j
      PROVE  JobStands(x)' /\ SignalStands(x)' /\ OwnedStands(x)'
  <2>1. JobStands(x) /\ SignalStands(x) /\ OwnedStands(x)
    BY DEF Kept
  <2>2. /\ rows'[x] = rows[x] /\ worker'[x] = worker[x] /\ pending'[x] = pending[x]
        /\ reported'[x] = reported[x] /\ signal'[x] = signal[x]
        /\ x \in registry' <=> x \in registry
    BY <1>3 DEF Only
  <2>3. \A d \in Callers : callers[d].job = x /\ callers[d].pc # "idle" => callers'[d] = callers[d]
    BY <1>1, <1>3
  <2>4. JobStands(x)'
    BY <2>1, <2>2 DEF JobStands
  <2>5. SignalStands(x)'
    BY <2>1, <2>2, <2>3 DEF SignalStands
  <2>6. OwnedStands(x)'
    BY <2>1, <2>2, <2>3 DEF OwnedStands
  <2> QED BY <2>4, <2>5, <2>6
<1>4. ASSUME NEW d \in Callers PROVE CallStands(d)'
  <2>1. CASE d = c
    BY <1>1, <1>2, <2>1 DEF CallStands
  <2>2. CASE d # c /\ (callers[d].pc = "idle" \/ callers[d].job = j)
    BY <1>1, <2>2 DEF CallStands
  <2>3. CASE d # c /\ callers[d].pc # "idle" /\ callers[d].job # j
    <3>1. PICK x : x = callers[d].job
      OBVIOUS
    <3>2. x \in Jobs /\ x # j /\ callers'[d] = callers[d]
      BY <1>1, <2>3, <3>1, CallNamesJob
    <3>3. /\ rows'[x] = rows[x] /\ worker'[x] = worker[x] /\ pending'[x] = pending[x]
          /\ reported'[x] = reported[x] /\ (x \in registry' <=> x \in registry)
      BY <3>2 DEF Only
    <3>4. CallP(callers[d], rows[x], worker[x], pending[x], reported[x], x \in registry)
      BY <2>3, <3>1 DEF Kept, CallStands
    <3>a. (x \in registry) \in BOOLEAN
      OBVIOUS
    <3>5. PICK b \in BOOLEAN : b = (x \in registry)
      BY <3>a
    <3>6. b = (x \in registry')
      BY <3>3, <3>5
    <3>7. CallP(callers[d], rows'[x], worker'[x], pending'[x], reported'[x], x \in registry')
      BY <3>3, <3>4, <3>5, <3>6
    <3> QED BY <3>1, <3>2, <3>7 DEF CallStands
  <2> QED BY <2>1, <2>2, <2>3
<1>5. OneStart'
  <2> SUFFICES ASSUME NEW d \in Callers, NEW e \in Callers, callers'[d].cmd = "start",
                      callers'[e].cmd = "start", callers'[d].job = callers'[e].job, d # e
               PROVE  FALSE
    BY DEF OneStart
  <2>1. CASE d # c /\ e # c
    BY <1>1, <2>1 DEF Kept, OneStart
  <2>2. CASE d = c
    BY <1>1, <1>2, <2>2
  <2>3. CASE e = c
    BY <1>1, <1>2, <2>3
  <2> QED BY <2>1, <2>2, <2>3
<1> QED BY <1>3, <1>4, <1>5 DEF Kept

\* A step of a worker on its job.
LEMMA WorkerStep ==
  ASSUME Safe, Kept, NEW j \in Jobs, callers' = callers, Only(j), worker[j].pc # "none",
         Goes(rows[j], rows'[j]), reported'[j] = reported[j] \/ Running(rows[j]),
         JobStands(j)', SignalStands(j)', OwnedStands(j)'
  PROVE  Kept'
<1>1. ASSUME NEW x \in Jobs, x # j
      PROVE  JobStands(x)' /\ SignalStands(x)' /\ OwnedStands(x)'
  <2>1. JobStands(x) /\ SignalStands(x) /\ OwnedStands(x)
    BY DEF Kept
  <2>2. /\ rows'[x] = rows[x] /\ worker'[x] = worker[x] /\ pending'[x] = pending[x]
        /\ reported'[x] = reported[x] /\ signal'[x] = signal[x]
        /\ x \in registry' <=> x \in registry
    BY <1>1 DEF Only
  <2>3. JobStands(x)'
    BY <2>1, <2>2 DEF JobStands
  <2>4. SignalStands(x)'
    BY <2>1, <2>2 DEF SignalStands
  <2>5. OwnedStands(x)'
    BY <2>1, <2>2 DEF OwnedStands
  <2> QED BY <2>3, <2>4, <2>5
<1>2. ASSUME NEW d \in Callers PROVE CallStands(d)'
  <2>1. CASE callers[d].pc = "idle"
    BY <2>1 DEF CallStands
  <2>2. CASE callers[d].pc # "idle"
    <3>1. PICK x : x = callers[d].job
      OBVIOUS
    <3>2. x \in Jobs
      BY <2>2, <3>1, CallNamesJob
    <3>3. CallP(callers[d], rows[x], worker[x], pending[x], reported[x], x \in registry)
      BY <2>2, <3>1 DEF Kept, CallStands
    <3>4. CallP(callers[d], rows'[x], worker'[x], pending'[x], reported'[x], x \in registry')
      <4>1. CASE x = j
        <5>1. JobP(rows[j], worker[j], pending[j], reported[j])
          BY DEF Kept, JobStands
        <5> QED BY <3>3, <4>1, <5>1, CallUnderWorker
      <4>2. CASE x # j
        <5>1. /\ rows'[x] = rows[x] /\ worker'[x] = worker[x] /\ pending'[x] = pending[x]
              /\ reported'[x] = reported[x] /\ (x \in registry' <=> x \in registry)
          BY <3>2, <4>2 DEF Only
        <5>a. (x \in registry) \in BOOLEAN
          OBVIOUS
        <5>2. PICK b \in BOOLEAN : b = (x \in registry)
          BY <5>a
        <5>3. b = (x \in registry')
          BY <5>1, <5>2
        <5> QED BY <3>3, <5>1, <5>2, <5>3
      <4> QED BY <4>1, <4>2
    <3> QED BY <3>1, <3>4 DEF CallStands
  <2> QED BY <2>1, <2>2
<1>3. OneStart'
  BY DEF Kept, OneStart
<1> QED BY <1>1, <1>2, <1>3 DEF Kept

\* A step of a command that moves the row of its job and itself.
LEMMA RowStep ==
  ASSUME Safe, Kept, NEW c \in Callers, NEW j \in Jobs, NEW k, NEW n,
         rows' = [rows EXCEPT ![j] = n], UNCHANGED <<worker, pending, reported, signal>>,
         callers' = [callers EXCEPT ![c] = k],
         callers[c].pc \notin {"retain", "signal"},
         callers[c].pc = "idle" \/ callers[c].job = j,
         k = NoCall \/ (k.pc # "idle" /\ k.job = j),
         Goes(rows[j], n), n.dispatch = rows[j].dispatch,
         n.result = rows[j].result \/ Tells(reported[j], n.result),
         Lost(n) => Lost(rows[j]) \/ (worker[j].pc = "none" /\ reported[j] = NoResult),
         Running(n) => Running(rows[j]),
         Running(rows[j]) /\ ~Running(n) =>
            /\ worker[j].pc = "none"
            /\ \A d \in Callers : d # c /\ callers[d].job = j => callers[d].pc # "retain",
         n.status = "stopping" => rows[j].status = "stopping" \/ k.pc = "signal",
         \/ registry' = registry
         \/ /\ registry' = registry \ {j} /\ worker[j].pc = "none"
            /\ callers[c].cmd = "start" /\ callers[c].job = j,
         k.pc # "idle" => CallP(k, n, worker[j], pending[j], reported[j], j \in registry'),
         k.cmd = "start" => \A d \in Callers :
            d # c /\ callers[d].cmd = "start" => callers[d].job # j
  PROVE  Kept'
<1>1. rows \in [Jobs -> JobRows]
  BY DEF Safe, ActorOK, RowsOK
<1>2. rows'[j] = n /\ Only(j)
  BY <1>1 DEF Only
<1>3. callers'[c] = k /\ \A d \in Callers : d # c => callers'[d] = callers[d]
  BY CallNamesJob
<1>4. JobStands(j) /\ SignalStands(j) /\ OwnedStands(j)
  BY DEF Kept
<1>5. JobStands(j)'
  <2>1. /\ WorkerP(rows[j], worker[j], reported[j])
        /\ JobP(rows[j], worker[j], pending[j], reported[j])
    BY <1>4 DEF JobStands, JobP
  <2>2. worker[j].pc \in Early \cup {"complete"} => Running(rows[j]) /\ worker[j].pc # "none"
    BY <2>1 DEF WorkerP, Early, Before
  <2>3. worker[j].pc \in Early \cup {"complete"} => Running(n)
    BY <2>2
  <2>4. JobP(n, worker[j], pending[j], reported[j])
    BY <2>1, <2>3, JobStays
  <2> QED BY <1>2, <2>4 DEF JobStands
<1>6. SignalStands(j)'
  <2>1. CASE worker[j].pc \notin Asked
    BY <2>1 DEF SignalStands
  <2>2. CASE worker[j].pc \in Asked
    <3>1. worker[j].pc # "none"
      BY <2>2 DEF Asked
    <3>2. j \in registry' /\ registry' = registry
      BY <1>4, <2>2, <3>1 DEF SignalStands
    <3>3. CASE n.status = "stopping" /\ rows[j].status = "stopping"
      <4>1. signal[j] \/ \E d \in Callers : callers[d].job = j /\ callers[d].pc = "signal"
        BY <1>4, <2>2, <3>3 DEF SignalStands
      <4>2. signal'[j] \/ \E d \in Callers : callers'[d].job = j /\ callers'[d].pc = "signal"
        BY <1>3, <4>1
      <4> QED BY <3>2, <4>2 DEF SignalStands
    <3>4. CASE n.status = "stopping" /\ k.pc = "signal"
      <4>1. NoCall.pc = "idle"
        BY DEF NoCall
      <4>2. callers'[c].job = j /\ callers'[c].pc = "signal"
        BY <1>3, <3>4, <4>1
      <4> QED BY <3>2, <4>2 DEF SignalStands
    <3>5. CASE n.status # "stopping"
      BY <1>2, <3>2, <3>5 DEF SignalStands
    <3> QED BY <3>3, <3>4, <3>5
  <2> QED BY <2>1, <2>2
<1>7. OwnedStands(j)'
  <2> SUFFICES ASSUME Running(n), worker[j].pc = "none", pending[j] = NoPending
               PROVE  \E d \in Callers : callers'[d].job = j /\ callers'[d].pc = "retain"
    BY <1>2 DEF OwnedStands
  <2>1. \E d \in Callers : callers[d].job = j /\ callers[d].pc = "retain"
    BY <1>4 DEF OwnedStands
  <2> QED BY <1>3, <2>1
<1>8. ASSUME NEW d \in Callers, d # c, callers[d].pc # "idle", callers[d].job = j
      PROVE  CallP(callers[d], rows'[j], worker'[j], pending'[j], reported'[j], j \in registry')
  <2>1. CallP(callers[d], rows[j], worker[j], pending[j], reported[j], j \in registry)
    BY <1>8 DEF Kept, CallStands
  <2>2. j \in registry /\ callers[d].cmd = "start" => j \in registry'
    BY <1>8 DEF Kept, OneStart
  <2>3. callers[d].pc = "retain" /\ Running(rows[j]) => Running(n)
    BY <1>8
  <2>4. CallP(callers[d], n, worker[j], pending[j], reported[j], j \in registry')
    BY <2>1, <2>2, <2>3, CallStays
  <2> QED BY <1>2, <2>4
<1>9. k.pc # "idle" => CallP(k, rows'[j], worker'[j], pending'[j], reported'[j], j \in registry')
  BY <1>2
<1> QED BY <1>2, <1>5, <1>6, <1>7, <1>8, <1>9, CallerStep

-----------------------------------------------------------------------------
\* The commands of the renderer.

\* A command that goes on carries what it carried.
LEMMA GotoIs ==
  ASSUME Safe, NEW c \in Callers, NEW pc, NEW k, k = [callers[c] EXCEPT !.pc = pc]
  PROVE  /\ k.pc = pc /\ k.job = callers[c].job /\ k.cmd = callers[c].cmd
         /\ k.kind = callers[c].kind /\ k.held = callers[c].held /\ k.got = callers[c].got
<1>1. callers[c] \in CallT
  BY CallFacts DEF Safe, DeskOK
<1> QED BY <1>1 DEF CallT

\* The outcome of a command, or of a call that did not reach the disk.
LEMMA ReachIs ==
  ASSUME NEW j, NEW S, NEW o \in Reach(j, S)
  PROVE  o \in S \/ (o.row = rows[j] /\ o.code = "PersistenceUnavailable")
BY DEF Reach, Reached, Refused

\* What is known of a job and of the command that works on it.
LEMMA KnownJob ==
  ASSUME Safe, Kept, NEW j \in Jobs
  PROVE  /\ Good(rows[j]) /\ rows[j] \in JobRows /\ rows = [rows EXCEPT ![j] = rows[j]]
         /\ JobP(rows[j], worker[j], pending[j], reported[j])
         /\ WorkerP(rows[j], worker[j], reported[j])
         /\ PendingP(rows[j], worker[j], pending[j], reported[j])
         /\ pending[j] \in PendingT /\ worker[j] \in WorkerT
         /\ Goes(rows[j], rows[j])
<1>1. rows \in [Jobs -> JobRows] /\ Good(rows[j])
  BY DEF Safe, ActorOK, RowsOK
<1>2. JobP(rows[j], worker[j], pending[j], reported[j])
  BY DEF Kept, JobStands
<1> QED BY <1>1, <1>2, GoesSame DEF JobP, Safe, DeskOK, PendingOK, WorkersOK

\* The same for a command.
LEMMA KnownCall ==
  ASSUME Safe, Kept, NEW c \in Callers, callers[c].pc # "idle"
  PROVE  /\ callers[c].job \in Jobs
         /\ CallP(callers[c], rows[callers[c].job], worker[callers[c].job],
                  pending[callers[c].job], reported[callers[c].job], callers[c].job \in registry)
BY CallNamesJob DEF Kept, CallStands

\* A command that only goes on, by what it knows now.
LEMMA CallStep ==
  ASSUME Safe, Kept, NEW c \in Callers, NEW j \in Jobs, NEW k,
         UNCHANGED <<rows, worker, pending, reported, signal, registry>>,
         callers' = [callers EXCEPT ![c] = k],
         callers[c].pc \notin {"retain", "signal"},
         callers[c].pc = "idle" \/ callers[c].job = j,
         k = NoCall \/ (k.pc # "idle" /\ k.job = j),
         k.pc # "idle" =>
            CallP(k, rows[j], worker[j], pending[j], reported[j], j \in registry),
         k.cmd = "start" => \A d \in Callers :
            d # c /\ callers[d].cmd = "start" => callers[d].job # j
  PROVE  Kept'
<1>1. PICK n : n = rows[j]
  OBVIOUS
<1>2. rows' = [rows EXCEPT ![j] = n]
  BY <1>1, KnownJob
<1>3. Goes(rows[j], n) /\ n.dispatch = rows[j].dispatch /\ n.result = rows[j].result
  BY <1>1, KnownJob
<1> QED BY <1>1, <1>2, <1>3, RowStep

\* The renderer repeats a start only once the one before it was answered.
LEMMA LookupStep ==
  ASSUME Safe, Kept, Renderer, NEW c \in Callers, NEW j \in Jobs, Lookup(c, j)
  PROVE  Kept'
<1>1. PICK k : k = [NoCall EXCEPT !.pc = "accept", !.cmd = "start", !.job = j,
                                  !.kind = "http", !.fresh = rows[j] = NoJob]
  OBVIOUS
<1>2. k.pc = "accept" /\ k.cmd = "start" /\ k.job = j
  BY <1>1 DEF NoCall
<1>3. callers' = [callers EXCEPT ![c] = k] /\ callers[c].pc = "idle"
  BY <1>1 DEF Lookup, Call, NoCall
<1>4. UNCHANGED <<rows, worker, pending, reported, signal, registry>>
  BY DEF Lookup, actorVars
<1>5. CallP(k, rows[j], worker[j], pending[j], reported[j], j \in registry)
  BY <1>2 DEF CallP, Starting
<1>6. \A d \in Callers : callers[d].cmd = "start" => callers[d].job # j
  BY DEF Lookup, Startable
<1> QED BY <1>2, <1>3, <1>4, <1>5, <1>6, CallStep, ZenonT(60)

\* A repeated start answers the job that is there; a new job is nobody's yet.
LEMMA StartStep ==
  ASSUME Safe, Kept, Renderer, NEW c \in Callers, NEW j \in Jobs, NEW kind \in Kinds,
         Start(c, j, kind)
  PROVE  Kept'
<1>1. PICK o : /\ o \in Refused(rows[j], "WriterLeaseExpired")
                        \cup Reach(j, StartMemory(rows[j], kind, project))
               /\ Do(j, o)
               /\ Call(c, IF o.code # "ok" THEN NoCall
                          ELSE [NoCall EXCEPT !.pc = "started", !.cmd = "start", !.job = j,
                                     !.kind = kind, !.fresh = callers[c].fresh,
                                     !.held = HeldOf(o.row)])
  BY DEF Start
<1>2. PICK n : n = o.row
  OBVIOUS
<1>3. PICK k : k = IF o.code # "ok" THEN NoCall
                   ELSE [NoCall EXCEPT !.pc = "started", !.cmd = "start", !.job = j,
                              !.kind = kind, !.fresh = callers[c].fresh, !.held = HeldOf(n)]
  OBVIOUS
<1>4. /\ callers' = [callers EXCEPT ![c] = k] /\ rows' = [rows EXCEPT ![j] = n]
      /\ UNCHANGED <<worker, pending, reported, signal, registry>>
  BY <1>1, <1>2, <1>3 DEF Start, Call, Do
<1>5. Good(rows[j]) /\ Goes(rows[j], rows[j])
  BY KnownJob
<1>6. project.basis \in Nat /\ project.policy \in Nat
  <2>1. PolicyLimit \in Nat
    BY MemoryBounds
  <2> QED BY <2>1 DEF Safe, ActorOK, ProjectOK
<1>7. /\ Goes(rows[j], n) /\ n.dispatch = rows[j].dispatch
      /\ rows[j].status # "absent" => n = rows[j]
      /\ rows[j].status = "absent" => n = rows[j] \/ n.status = "queued"
      /\ o.code = "ok" => n.kind = kind /\ n.status # "absent"
  <2>1. CASE o \in StartMemory(rows[j], kind, project)
    <3>1. rows[j].status = "absent" => rows[j] = NoJob
      BY <1>5, RowFacts
    <3> QED BY <1>2, <1>5, <1>6, <2>1, <3>1, StartGoes
  <2>2. CASE o.row = rows[j] /\ o.code # "ok"
    BY <1>2, <1>5, <2>2
  <2>3. o \in Refused(rows[j], "WriterLeaseExpired") => o.row = rows[j] /\ o.code # "ok"
    BY DEF Refused
  <2> QED BY <1>1, <2>1, <2>2, <2>3, ReachIs
<1>8. /\ Good(n) /\ n.result = rows[j].result
      /\ Lost(n) => Lost(rows[j])
      /\ Running(n) <=> Running(rows[j])
      /\ n.status = "stopping" => rows[j].status = "stopping"
      /\ n.status = "queued" => Unrun(n)
  <2>1. Good(n) /\ (n.status = "queued" => Unrun(n) /\ n.result = NoResult)
    BY <1>7, RowFacts DEF Goes
  <2>2. rows[j].status = "absent" => rows[j].result = NoResult
    BY <1>5, RowFacts
  <2>3. CASE n = rows[j]
    BY <2>1, <2>3
  <2>4. CASE rows[j].status = "absent" /\ n.status = "queued"
    BY <2>1, <2>2, <2>4 DEF Lost, Running
  <2> QED BY <1>7, <2>3, <2>4
<1>9. CASE o.code # "ok"
  <2>1. k = NoCall /\ k.pc = "idle" /\ k.cmd = "none"
    BY <1>3, <1>9 DEF NoCall
  <2>2. callers[c].pc \in {"idle", "accept"} /\ (callers[c].pc = "accept" => callers[c].job = j)
    BY DEF Start, NoCall
  <2> QED BY <1>4, <1>7, <1>8, <2>1, <2>2, RowStep
<1>10. CASE o.code = "ok"
  <2>1. /\ k.pc = "started" /\ k.cmd = "start" /\ k.job = j /\ k.kind = kind
        /\ k.held.status = n.status
    BY <1>3, <1>10 DEF NoCall, HeldOf
  <2>2. callers[c].pc \in {"idle", "accept"} /\ (callers[c].pc = "accept" => callers[c].job = j)
    BY DEF Start, NoCall
  <2>3. CallP(k, n, worker[j], pending[j], reported[j], j \in registry)
    BY <1>7, <1>8, <1>10, <2>1 DEF CallP, Starting
  <2>4. \A d \in Callers : d # c /\ callers[d].cmd = "start" => callers[d].job # j
    <3>1. CASE Startable(j)
      BY <3>1 DEF Startable
    <3>2. CASE callers[c].pc = "accept" /\ callers[c].job = j
      <4>1. callers[c].cmd = "start"
        BY <3>2, KnownCall DEF CallP, Starting
      <4> QED BY <3>2, <4>1 DEF Kept, OneStart
    <3> QED BY <3>1, <3>2 DEF Start
  <2> QED BY <1>4, <1>7, <1>8, <2>1, <2>2, <2>3, <2>4, RowStep
<1> QED BY <1>9, <1>10

\* The command that asked a job to stop is about to signal it.
LEMMA StopStep ==
  ASSUME Safe, Kept, NEW c \in Callers, NEW j \in Jobs, Stop(c, j)
  PROVE  Kept'
<1>1. PICK o \in Reach(j, StopMemory(rows[j])) :
        /\ Do(j, o)
        /\ Call(c, IF o.code \in {"ok", "UncertainOutcome"}
                   THEN [NoCall EXCEPT !.pc = "signal", !.cmd = "stop", !.job = j] ELSE NoCall)
  BY DEF Stop
<1>2. PICK n : n = o.row
  OBVIOUS
<1>3. PICK k : k = IF o.code \in {"ok", "UncertainOutcome"}
                   THEN [NoCall EXCEPT !.pc = "signal", !.cmd = "stop", !.job = j] ELSE NoCall
  OBVIOUS
<1>4. /\ callers' = [callers EXCEPT ![c] = k] /\ rows' = [rows EXCEPT ![j] = n]
      /\ UNCHANGED <<worker, pending, reported, signal, registry>>
      /\ callers[c].pc = "idle"
  <2>1. callers' = [callers EXCEPT ![c] = k]
    BY <1>1, <1>3, Zenon DEF Call
  <2>2. rows' = [rows EXCEPT ![j] = n]
    BY <1>1, <1>2 DEF Do
  <2>3. UNCHANGED <<worker, pending, reported, signal, registry>> /\ callers[c] = NoCall
    BY DEF Stop
  <2> QED BY <2>1, <2>2, <2>3 DEF NoCall
<1>5. Good(rows[j]) /\ Goes(rows[j], rows[j])
  BY KnownJob
<1>6. /\ Goes(rows[j], n) /\ n.dispatch = rows[j].dispatch /\ n.result = rows[j].result
      /\ Running(n) <=> Running(rows[j])
      /\ n # rows[j] => n.reason = "author_stopped" /\ o.code \in {"ok", "UncertainOutcome"}
  BY <1>2, <1>5, StopGoes, ReachIs
<1>7. Lost(n) => Lost(rows[j])
  BY <1>6 DEF Lost
<1>8. CASE o.code \in {"ok", "UncertainOutcome"}
  <2>1. k.pc = "signal" /\ k.cmd = "stop" /\ k.job = j
    BY <1>3, <1>8 DEF NoCall
  <2>2. CallP(k, n, worker[j], pending[j], reported[j], j \in registry)
    BY <2>1 DEF CallP, Starting
  <2> QED BY <1>4, <1>6, <1>7, <2>1, <2>2, RowStep
<1>9. CASE o.code \notin {"ok", "UncertainOutcome"}
  <2>1. k = NoCall /\ k.pc = "idle" /\ k.cmd = "none" /\ n = rows[j]
    BY <1>3, <1>6, <1>9 DEF NoCall
  <2> QED BY <1>4, <1>6, <1>7, <2>1, RowStep
<1> QED BY <1>8, <1>9

\* The renderer retries a save only where something is retained or the job is
\* over: what was read of it cannot become a retained report of its claim.
LEMMA RetryStep ==
  ASSUME Safe, Kept, Renderer, NEW c \in Callers, NEW j \in Jobs, Retry(c, j)
  PROVE  Kept'
<1>1. PICK succeeds \in BOOLEAN :
        /\ Read(succeeds)
        /\ Call(c, IF succeeds
                   THEN [NoCall EXCEPT !.pc = "look", !.job = j, !.held = HeldOf(rows[j]),
                                       !.cmd = IF callers[c] = NoCall THEN "retry" ELSE "start"]
                   ELSE NoCall)
  BY DEF Retry
<1>2. PICK k : k = IF succeeds
                   THEN [NoCall EXCEPT !.pc = "look", !.job = j, !.held = HeldOf(rows[j]),
                                       !.cmd = IF callers[c] = NoCall THEN "retry" ELSE "start"]
                   ELSE NoCall
  OBVIOUS
<1>3. /\ callers' = [callers EXCEPT ![c] = k]
      /\ UNCHANGED <<rows, worker, pending, reported, signal, registry>>
  <2>1. callers' = [callers EXCEPT ![c] = k]
    BY <1>1, <1>2, Zenon DEF Call
  <2>2. rows' = rows
    BY <1>1 DEF Read
  <2>3. UNCHANGED <<worker, pending, reported, signal, registry>>
    BY DEF Retry
  <2> QED BY <2>1, <2>2, <2>3
<1>4. \/ /\ callers[c] = NoCall /\ rows[j] # NoJob /\ callers[c].pc = "idle"
         /\ pending[j] # NoPending \/ rows[j].status \notin Active
      \/ callers[c].pc = "retry" /\ callers[c].job = j /\ callers[c] # NoCall
  BY DEF Retry, Retryable, NoCall
<1>5. callers[c].pc = "retry" => callers[c].job = j
  BY <1>4 DEF NoCall
<1>6. callers[c].pc = "retry" =>
        /\ callers[c].cmd = "start" /\ rows[j].status # "absent"
        /\ Gone(rows[j], worker[j], pending[j], reported[j])
  BY <1>5, KnownCall DEF CallP, Starting
<1>7. CASE ~succeeds
  <2>1. k = NoCall /\ k.pc = "idle" /\ k.cmd = "none"
    BY <1>2, <1>7 DEF NoCall
  <2> QED BY <1>3, <1>4, <2>1, CallStep
<1>8. CASE succeeds
  <2>1. /\ k.pc = "look" /\ k.job = j /\ k.cmd \in {"retry", "start"}
        /\ k.cmd = "start" => callers[c].pc = "retry"
        /\ k.held.status = rows[j].status /\ k.held.reason = rows[j].reason
        /\ k.held.done = (rows[j].result # NoResult)
    BY <1>2, <1>4, <1>8 DEF NoCall, HeldOf
  <2>2. /\ Good(rows[j]) /\ JobP(rows[j], worker[j], pending[j], reported[j])
        /\ PendingP(rows[j], worker[j], pending[j], reported[j])
    BY KnownJob
  <2>3. rows[j].status # "absent"
    BY <1>4, <1>6, <2>2, RowFacts
  <2>4. rows[j].status = "queued" => Unrun(rows[j]) /\ pending[j] = ClaimPending
    <3>1. rows[j].status = "queued" => Unrun(rows[j]) /\ rows[j].status \in Active /\ ~Over(rows[j])
      BY <2>2, RowFacts DEF Active, Over
    <3>2. Unrun(rows[j]) => pending[j] \in {NoPending, ClaimPending}
      BY <2>2 DEF JobP
    <3> QED BY <1>4, <1>6, <3>1, <3>2 DEF Gone
  <2>5. Seen(k.held, rows[j], pending[j])
    BY <2>1, <2>3, <2>4 DEF Seen
  <2>6. CallP(k, rows[j], worker[j], pending[j], reported[j], j \in registry)
    BY <2>1, <2>5 DEF CallP, Starting
  <2>7. k.cmd = "start" => \A d \in Callers :
            d # c /\ callers[d].cmd = "start" => callers[d].job # j
    BY <1>5, <1>6, <2>1 DEF Kept, OneStart
  <2> QED BY <1>3, <1>4, <2>1, <2>6, <2>7, CallStep
<1> QED BY <1>7, <1>8

-----------------------------------------------------------------------------
\* A command that goes on.

\* What a command knows when it goes on.
LEMMA AtPlace ==
  ASSUME Safe, Kept, NEW c \in Callers, NEW S, "idle" \notin S, callers[c].pc \in S, NEW j,
         j = callers[c].job
  PROVE  /\ j \in Jobs /\ callers[c].pc # "idle" /\ callers[c].job = j
         /\ CallP(callers[c], rows[j], worker[j], pending[j], reported[j], j \in registry)
         /\ callers[c].cmd = "start" => \A d \in Callers :
                d # c /\ callers[d].cmd = "start" => callers[d].job # j
BY KnownCall DEF Kept, OneStart

\* An uncertain claim is retried, and only a job that was not dispatched goes on.
LEMMA StartedStep ==
  ASSUME Safe, Kept, NEW c \in Callers, Started(c)
  PROVE  Kept'
<1>1. PICK j : j = callers[c].job
  OBVIOUS
<1>2. callers[c].pc = "started"
  BY DEF Started
<1>3. /\ j \in Jobs /\ callers[c].job = j
      /\ CallP(callers[c], rows[j], worker[j], pending[j], reported[j], j \in registry)
      /\ callers[c].cmd = "start" => \A d \in Callers :
            d # c /\ callers[d].cmd = "start" => callers[d].job # j
  BY <1>1, <1>2, AtPlace
<1>4. UNCHANGED <<rows, worker, pending, reported, signal, registry>>
  BY DEF Started, actorVars
<1>5. /\ JobP(rows[j], worker[j], pending[j], reported[j])
      /\ PendingP(rows[j], worker[j], pending[j], reported[j])
  BY <1>3, KnownJob
<1>6. /\ callers[c].cmd = "start" /\ rows[j].status # "absent" /\ callers[c].kind = rows[j].kind
      /\ callers[c].held.status = "queued" => Unrun(rows[j])
  BY <1>2, <1>3 DEF CallP, Starting
<1>7. CASE pending[j].kind = "claim"
  <2>1. PICK k : k = [callers[c] EXCEPT !.pc = "retry"]
    OBVIOUS
  <2>2. callers' = [callers EXCEPT ![c] = k]
    BY <1>1, <1>7, <2>1 DEF Started, Goto, Call
  <2>3. k.pc = "retry" /\ k.job = j /\ k.cmd = callers[c].cmd
    BY <1>3, <2>1, GotoIs
  <2>4. Gone(rows[j], worker[j], pending[j], reported[j])
    BY <1>5, <1>6, <1>7 DEF PendingP, Gone
  <2>5. CallP(k, rows[j], worker[j], pending[j], reported[j], j \in registry)
    BY <1>6, <2>3, <2>4 DEF CallP, Starting
  <2> QED BY <1>2, <1>3, <1>4, <2>2, <2>3, <2>5, CallStep
<1>8. CASE pending[j].kind # "claim" /\ callers[c].held.status # "queued"
  <2>1. callers' = [callers EXCEPT ![c] = NoCall]
    BY <1>1, <1>8 DEF Started, Call
  <2>2. NoCall.pc = "idle" /\ NoCall.cmd = "none"
    BY DEF NoCall
  <2> QED BY <1>2, <1>3, <1>4, <2>1, <2>2, CallStep
<1>9. CASE pending[j].kind # "claim" /\ callers[c].held.status = "queued"
  <2>1. PICK pc : pc = IF callers[c].kind = "local" THEN "claim" ELSE "register"
    OBVIOUS
  <2>2. PICK k : k = [callers[c] EXCEPT !.pc = pc]
    OBVIOUS
  <2>3. callers' = [callers EXCEPT ![c] = k]
    BY <1>1, <1>9, <2>1, <2>2 DEF Started, Goto, Call
  <2>4. k.pc = pc /\ k.job = j /\ k.cmd = callers[c].cmd /\ k.kind = callers[c].kind
    BY <1>3, <2>2, GotoIs
  <2>5. pending[j] = NoPending
    BY <1>5, <1>6, <1>9, PendingKinds DEF JobP
  <2>6. pc \in {"claim", "register"} /\ (pc = "claim" <=> k.kind = "local")
    BY <2>1, <2>4
  <2>7. CallP(k, rows[j], worker[j], pending[j], reported[j], j \in registry)
    BY <1>6, <1>9, <2>4, <2>5, <2>6 DEF CallP, Starting
  <2> QED BY <1>2, <1>3, <1>4, <2>3, <2>4, <2>6, <2>7, CallStep
<1> QED BY <1>7, <1>8, <1>9

\* The other commands of a job that only gets its signal.
LEMMA OthersStay ==
  ASSUME Safe, Kept, NEW j \in Jobs, UNCHANGED <<rows, worker, pending, reported>>,
         j \in registry => j \in registry',
         NEW d \in Callers, callers[d].pc # "idle", callers[d].job = j
  PROVE  CallP(callers[d], rows'[j], worker'[j], pending'[j], reported'[j], j \in registry')
<1>1. CallP(callers[d], rows[j], worker[j], pending[j], reported[j], j \in registry)
  BY DEF Kept, CallStands
<1>2. j \in registry /\ callers[d].cmd = "start" => j \in registry'
  OBVIOUS
<1>3. PICK n : n = rows[j]
  OBVIOUS
<1>4. Goes(rows[j], n) /\ n.dispatch = rows[j].dispatch /\ (Running(rows[j]) => Running(n))
  BY <1>3, KnownJob
<1>5. CallP(callers[d], n, worker[j], pending[j], reported[j], j \in registry')
  BY <1>1, <1>2, <1>4, CallStays
<1> QED BY <1>3, <1>5

\* The registration of a job that was not dispatched disturbs no worker.
LEMMA RegisterStep ==
  ASSUME Safe, Kept, NEW c \in Callers, Register(c)
  PROVE  Kept'
<1>1. PICK j : j = callers[c].job
  OBVIOUS
<1>2. callers[c].pc = "register"
  BY DEF Register
<1>3. /\ j \in Jobs /\ callers[c].job = j
      /\ CallP(callers[c], rows[j], worker[j], pending[j], reported[j], j \in registry)
      /\ callers[c].cmd = "start" => \A d \in Callers :
            d # c /\ callers[d].cmd = "start" => callers[d].job # j
  BY <1>1, <1>2, AtPlace
<1>4. UNCHANGED <<rows, worker, pending, reported>>
  BY DEF Register, actorVars
<1>5. /\ JobP(rows[j], worker[j], pending[j], reported[j]) /\ Good(rows[j])
      /\ Goes(rows[j], rows[j])
  BY <1>3, KnownJob
<1>6. /\ callers[c].cmd = "start" /\ rows[j].status # "absent" /\ callers[c].kind = rows[j].kind
      /\ Unrun(rows[j]) /\ pending[j] = NoPending /\ callers[c].kind # "local"
  BY <1>2, <1>3 DEF CallP, Starting
<1>7. CASE j \in registry
  <2>1. callers' = [callers EXCEPT ![c] = NoCall] /\ UNCHANGED <<registry, signal>>
    BY <1>1, <1>7 DEF Register, Call
  <2>2. NoCall.pc = "idle" /\ NoCall.cmd = "none"
    BY DEF NoCall
  <2> QED BY <1>2, <1>3, <1>4, <2>1, <2>2, CallStep
<1>8. CASE j \notin registry
  <2>1. PICK k : k = [callers[c] EXCEPT !.pc = "claim"]
    OBVIOUS
  <2>2. /\ callers' = [callers EXCEPT ![c] = k]
        /\ registry' = registry \cup {j} /\ signal' = [signal EXCEPT ![j] = FALSE]
    BY <1>1, <1>8, <2>1 DEF Register, Goto, Call
  <2>3. /\ k.pc = "claim" /\ k.pc # "idle" /\ k.job = j /\ k.cmd = callers[c].cmd
        /\ k.kind = callers[c].kind
    BY <1>3, <2>1, GotoIs
  <2>4. signal \in [Jobs -> BOOLEAN]
    BY DEF Safe, DeskOK, SignalsOK
  <2>5. Only(j)
    BY <1>4, <2>2, <2>4 DEF Only
  <2>6. JobStands(j)'
    BY <1>4, <1>5 DEF JobStands
  <2>7. worker[j].pc \notin Asked /\ ~Running(rows[j])
    BY <1>5, <1>6, RowFacts DEF JobP, Asked
  <2>8. SignalStands(j)' /\ OwnedStands(j)'
    BY <1>4, <2>7 DEF SignalStands, OwnedStands
  <2>9. CallP(k, rows'[j], worker'[j], pending'[j], reported'[j], j \in registry')
    BY <1>4, <1>6, <2>2, <2>3 DEF CallP, Starting
  <2>10. \A d \in Callers : d # c /\ callers[d].pc # "idle" /\ callers[d].job = j =>
            CallP(callers[d], rows'[j], worker'[j], pending'[j], reported'[j], j \in registry')
    BY <1>3, <1>4, <2>2, OthersStay
  <2>11. k.cmd = "start" => \A d \in Callers :
            d # c /\ callers[d].cmd = "start" => callers[d].job # j
    BY <1>3, <2>3
  <2> QED BY <1>3, <2>2, <2>3, <2>5, <2>6, <2>8, <2>9, <2>10, <2>11, CallerStep
<1> QED BY <1>7, <1>8

\* A claim that is served, at a job that nobody dispatched before.
LEMMA ClaimKept ==
  ASSUME Safe, Kept, NEW c \in Callers, Claim(c)
  PROVE  Kept'
<1>1. PICK j : j = callers[c].job
  OBVIOUS
<1>2. callers[c].pc = "claim"
  BY DEF Claim
<1>3. /\ j \in Jobs /\ callers[c].job = j
      /\ CallP(callers[c], rows[j], worker[j], pending[j], reported[j], j \in registry)
      /\ callers[c].cmd = "start" => \A d \in Callers :
            d # c /\ callers[d].cmd = "start" => callers[d].job # j
  BY <1>1, <1>2, AtPlace
<1>4. UNCHANGED <<signal, pending, reported>>
  BY DEF Claim
<1>5. /\ JobP(rows[j], worker[j], pending[j], reported[j]) /\ Good(rows[j])
      /\ WorkerP(rows[j], worker[j], reported[j])
      /\ Goes(rows[j], rows[j]) /\ rows \in [Jobs -> JobRows] /\ worker \in [Jobs -> WorkerT]
  BY <1>3, KnownJob DEF Safe, ActorOK, RowsOK, DeskOK, WorkersOK
<1>6. /\ callers[c].cmd = "start" /\ rows[j].status # "absent" /\ callers[c].kind = rows[j].kind
      /\ Unrun(rows[j]) /\ pending[j] = NoPending
      /\ callers[c].kind # "local" => j \in registry
  BY <1>2, <1>3 DEF CallP, Starting
<1>7. worker[j].pc = "none" /\ reported[j] = NoResult /\ ~Running(rows[j])
  BY <1>5, <1>6, RowFacts DEF JobP
<1>8. PICK o \in Reach(j, BeginMemory(rows[j], project)) :
        /\ Do(j, o)
        /\ \/ /\ o.code = "newlyDispatched"
              /\ \E pc \in Spawned(callers[c].kind, callers[c].fresh) :
                  /\ worker' = [worker EXCEPT ![j] =
                        [pc |-> pc, report |-> IF pc = "complete" THEN Unsent ELSE NoResult]]
                  /\ IF pc = "complete" /\ callers[c].kind = "codex" THEN Release(j)
                     ELSE UNCHANGED registry
              /\ Call(c, NoCall)
           \/ /\ o.code # "newlyDispatched" /\ UNCHANGED worker
              /\ IF o.code = "UncertainOutcome"
                 THEN Goto(c, "retain") /\ UNCHANGED registry
                 ELSE IF o.code \in {"MemoryBasisChanged", "ContextPolicyChanged"}
                 THEN Goto(c, "interrupt") /\ UNCHANGED registry
                 ELSE Call(c, NoCall) /\ Release(j)
  BY <1>1, Zenon DEF Claim
<1>9. PICK n : n = o.row
  OBVIOUS
<1>10. /\ rows' = [rows EXCEPT ![j] = n] /\ rows'[j] = n
       /\ \A x \in Jobs : x # j => rows'[x] = rows[x]
  BY <1>3, <1>5, <1>8, <1>9 DEF Do
<1>11. /\ Goes(rows[j], n) /\ Good(n)
       /\ rows[j].status # "queued" => n = rows[j] /\ o.code # "newlyDispatched"
       /\ n = rows[j] \/ n.status = "running"
       /\ o.code = "newlyDispatched" => n.status = "running"
       /\ o.code \notin {"newlyDispatched", "UncertainOutcome"} => n = rows[j]
  BY <1>5, <1>8, <1>9, BeginGoes, ReachIs DEF Goes
<1>12. n # rows[j] => rows[j].status = "queued" /\ n.status = "running" /\ ~Unrun(n) /\ Running(n)
  BY <1>11, RowFacts DEF Running
<1>13. NoCall.pc = "idle" /\ NoCall.cmd = "none"
  BY DEF NoCall
<1>14. \A d \in Callers : d # c /\ callers[d].cmd = "start" => callers[d].job # j
  BY <1>3, <1>6
<1>15. ASSUME n # rows[j], NEW d \in Callers, d # c, callers[d].pc # "idle", callers[d].job = j
       PROVE  CallP(callers[d], rows'[j], worker'[j], pending'[j], reported'[j], j \in registry')
  <2>1. CallP(callers[d], rows[j], worker[j], NoPending, reported[j], j \in registry)
    BY <1>6, <1>15 DEF Kept, CallStands
  <2>2. callers[d].cmd # "start" /\ rows[j].status = "queued"
    BY <1>12, <1>14, <1>15
  <2>3. CallP(callers[d], n, worker'[j], NoPending, reported[j], j \in registry')
    BY <1>11, <2>1, <2>2, CallUnderClaim
  <2> QED BY <1>4, <1>6, <1>10, <2>3
<1>16. CASE o.code = "newlyDispatched"
  <2>1. PICK pc \in Spawned(callers[c].kind, callers[c].fresh) :
            /\ worker' = [worker EXCEPT ![j] =
                  [pc |-> pc, report |-> IF pc = "complete" THEN Unsent ELSE NoResult]]
            /\ IF pc = "complete" /\ callers[c].kind = "codex" THEN Release(j)
               ELSE UNCHANGED registry
    BY <1>8, <1>16
  <2>2. callers' = [callers EXCEPT ![c] = NoCall]
    BY <1>8, <1>16 DEF Call
  <2>3. /\ callers[c].kind = "local" => pc \in {"answer", "complete"}
        /\ callers[c].kind = "codex" => pc \in {"inspect", "complete"}
        /\ callers[c].kind = "http" => pc \in {"revalidate", "complete"}
        /\ rows[j].kind \in {"local", "codex", "http"}
    <3>1. rows[j].kind \in {"local", "codex", "http"}
      BY <1>5, RowFacts DEF Kinds
    <3> QED BY <1>6, <2>1, <3>1 DEF Spawned
  <2>4. PICK w : w = [pc |-> pc, report |-> IF pc = "complete" THEN Unsent ELSE NoResult]
    OBVIOUS
  <2>5. /\ worker'[j] = w /\ w.pc = pc /\ (pc = "complete" => w.report = Unsent)
        /\ \A x \in Jobs : x # j => worker'[x] = worker[x]
    BY <1>3, <1>5, <2>1, <2>4
  <2>6. /\ pc \in {"answer", "complete", "inspect", "revalidate"}
        /\ pc = "answer" => rows[j].kind = "local"
        /\ pc \in {"inspect", "revalidate"} => rows[j].kind # "local" /\ j \in registry
    BY <1>6, <2>3
  <2>7. pc # "complete" => registry' = registry
    BY <2>1
  <2>8. registry' = registry \/ registry' = registry \ {j}
    BY <2>1 DEF Release
  <2>9. Only(j)
    BY <1>4, <1>10, <2>5, <2>8 DEF Only
  <2>10. n # rows[j] /\ n.status = "running" /\ n.kind = rows[j].kind /\ Running(n) /\ ~Unrun(n)
    <3>1. n.status = "running"
      BY <1>11, <1>16
    <3>2. n # rows[j]
      BY <1>7, <3>1 DEF Running
    <3> QED BY <1>6, <1>11, <1>12, <3>1, <3>2 DEF Goes
  <2>11. DeliveryProved(n.kind, Unsent)
    BY DEF DeliveryProved, Unsent, NoResult
  <2>12. WorkerP(n, w, NoResult)
    BY <2>5, <2>6, <2>10, <2>11 DEF WorkerP, Tells
  <2>13. PendingP(n, w, NoPending, NoResult)
    BY PendingKinds DEF PendingP
  <2>14. JobP(n, w, NoPending, NoResult)
    BY <2>10, <2>12, <2>13 DEF JobP, Tells, Lost
  <2>15. JobStands(j)'
    BY <1>4, <1>6, <1>7, <1>10, <2>5, <2>14 DEF JobStands
  <2>16. SignalStands(j)'
    BY <1>10, <2>5, <2>6, <2>7, <2>10 DEF SignalStands, Asked
  <2>17. OwnedStands(j)'
    BY <2>5, <2>6 DEF OwnedStands
  <2> QED BY <1>3, <1>13, <1>15, <2>2, <2>9, <2>10, <2>15, <2>16, <2>17, CallerStep
<1>17. CASE o.code = "UncertainOutcome"
  <2>1. PICK k : k = [callers[c] EXCEPT !.pc = "retain"]
    OBVIOUS
  <2>2. /\ callers' = [callers EXCEPT ![c] = k] /\ UNCHANGED <<worker, registry>>
    BY <1>8, <1>17, <2>1 DEF Goto, Call
  <2>3. k.pc = "retain" /\ k.pc # "idle" /\ k.job = j /\ k.cmd = callers[c].cmd
    BY <1>3, <2>1, GotoIs
  <2>4. Only(j)
    BY <1>4, <1>10, <2>2 DEF Only
  <2>5. WorkerP(n, worker[j], NoResult)
    BY <1>5, <1>7 DEF WorkerP, Early, Before
  <2>6. PendingP(n, worker[j], NoPending, NoResult)
    BY PendingKinds DEF PendingP
  <2>7. JobP(n, worker[j], NoPending, NoResult)
    BY <1>7, <2>5, <2>6 DEF JobP, Tells
  <2>8. JobStands(j)'
    BY <1>4, <1>6, <1>7, <1>10, <2>2, <2>7 DEF JobStands
  <2>9. SignalStands(j)'
    BY <1>7, <2>2 DEF SignalStands, Asked
  <2>10. callers'[c] = k
    BY <2>2, CallNamesJob
  <2>11. OwnedStands(j)'
    BY <2>3, <2>10 DEF OwnedStands
  <2>12. n.status # "absent" /\ (Unrun(n) \/ Running(n))
    BY <1>6, <1>11, <1>12 DEF Goes
  <2>13. CallP(k, rows'[j], worker'[j], pending'[j], reported'[j], j \in registry')
    BY <1>4, <1>6, <1>7, <1>10, <2>2, <2>3, <2>12 DEF CallP, Starting
  <2>14. n = rows[j] => \A d \in Callers : d # c /\ callers[d].pc # "idle" /\ callers[d].job = j =>
            CallP(callers[d], rows'[j], worker'[j], pending'[j], reported'[j], j \in registry')
    <3>1. n = rows[j] => rows' = rows
      BY <1>5, <1>10
    <3> QED BY <1>3, <1>4, <2>2, <3>1, OthersStay
  <2> QED BY <1>3, <1>14, <1>15, <2>2, <2>3, <2>4, <2>8, <2>9, <2>11, <2>13, <2>14, CallerStep
<1>18. CASE o.code \in {"MemoryBasisChanged", "ContextPolicyChanged"}
  <2>1. PICK k : k = [callers[c] EXCEPT !.pc = "interrupt"]
    OBVIOUS
  <2>2. callers' = [callers EXCEPT ![c] = k] /\ UNCHANGED <<worker, registry>>
    BY <1>8, <1>18, <2>1 DEF Goto, Call
  <2>3. k.pc = "interrupt" /\ k.job = j /\ k.cmd = callers[c].cmd
    BY <1>3, <2>1, GotoIs
  <2>4. rows' = rows
    BY <1>5, <1>10, <1>11, <1>18
  <2>5. CallP(k, rows[j], worker[j], pending[j], reported[j], j \in registry)
    BY <1>6, <2>3 DEF CallP, Starting
  <2> QED BY <1>2, <1>3, <1>4, <1>14, <2>2, <2>3, <2>4, <2>5, CallStep
<1>19. CASE o.code \notin {"newlyDispatched", "UncertainOutcome",
                            "MemoryBasisChanged", "ContextPolicyChanged"}
  <2>1. /\ callers' = [callers EXCEPT ![c] = NoCall] /\ UNCHANGED worker
        /\ registry' = registry \ {j}
    BY <1>8, <1>19 DEF Call, Release
  <2>2. n = rows[j]
    BY <1>11, <1>19
  <2>3. UNCHANGED <<worker, pending, reported, signal>>
    BY <1>4, <2>1
  <2> QED BY <1>2, <1>3, <1>5, <1>6, <1>7, <1>10, <1>13, <2>1, <2>2, <2>3, RowStep
<1> QED BY <1>16, <1>17, <1>18, <1>19

\* A refused claim ends a job that was not dispatched.
LEMMA InterruptRefusedStep ==
  ASSUME Safe, Kept, NEW c \in Callers, InterruptRefused(c)
  PROVE  Kept'
<1>1. PICK j : j = callers[c].job
  OBVIOUS
<1>2. callers[c].pc = "interrupt"
  BY DEF InterruptRefused
<1>3. /\ j \in Jobs /\ callers[c].job = j
      /\ CallP(callers[c], rows[j], worker[j], pending[j], reported[j], j \in registry)
      /\ callers[c].cmd = "start" => \A d \in Callers :
            d # c /\ callers[d].cmd = "start" => callers[d].job # j
  BY <1>1, <1>2, AtPlace
<1>4. UNCHANGED <<worker, pending, reported, signal>>
  BY DEF InterruptRefused
<1>5. JobP(rows[j], worker[j], pending[j], reported[j]) /\ Good(rows[j]) /\ Goes(rows[j], rows[j])
  BY <1>3, KnownJob
<1>6. /\ callers[c].cmd = "start" /\ rows[j].status # "absent"
      /\ Unrun(rows[j]) /\ pending[j] = NoPending
  BY <1>2, <1>3 DEF CallP, Starting
<1>7. worker[j].pc = "none" /\ reported[j] = NoResult /\ ~Running(rows[j])
  BY <1>5, <1>6, RowFacts DEF JobP
<1>8. PICK o \in Reach(j, InterruptMemoryClaim(rows[j])) :
        /\ Do(j, o)
        /\ IF o.code = "ok" THEN Call(c, NoCall) /\ Release(j)
           ELSE Goto(c, "retain") /\ UNCHANGED registry
  BY <1>1, Zenon DEF InterruptRefused
<1>9. PICK n : n = o.row
  OBVIOUS
<1>10. rows' = [rows EXCEPT ![j] = n]
  BY <1>8, <1>9 DEF Do
<1>11. Goes(rows[j], n) /\ n.dispatch = rows[j].dispatch /\ n.result = rows[j].result
  BY <1>5, <1>8, <1>9, InterruptGoes, ReachIs
<1>12. Unrun(n) /\ n.status # "absent" /\ ~Running(n) /\ n.status # "stopping"
  BY <1>6, <1>11, RowFacts DEF Unrun, Goes, Running
<1>13. CASE o.code = "ok"
  <2>1. callers' = [callers EXCEPT ![c] = NoCall] /\ registry' = registry \ {j}
    BY <1>8, <1>13 DEF Call, Release
  <2>2. NoCall.pc = "idle" /\ NoCall.cmd = "none"
    BY DEF NoCall
  <2> QED BY <1>2, <1>3, <1>4, <1>6, <1>7, <1>10, <1>11, <1>12, <2>1, <2>2, RowStep
<1>14. CASE o.code # "ok"
  <2>1. PICK k : k = [callers[c] EXCEPT !.pc = "retain"]
    OBVIOUS
  <2>2. callers' = [callers EXCEPT ![c] = k] /\ registry' = registry
    BY <1>8, <1>14, <2>1 DEF Goto, Call
  <2>3. k.pc = "retain" /\ k.job = j /\ k.cmd = callers[c].cmd
    BY <1>3, <2>1, GotoIs
  <2>4. CallP(k, n, worker[j], pending[j], reported[j], j \in registry')
    BY <1>6, <1>7, <1>12, <2>3 DEF CallP, Starting
  <2> QED BY <1>2, <1>3, <1>4, <1>7, <1>10, <1>11, <1>12, <2>2, <2>3, <2>4, RowStep
<1> QED BY <1>13, <1>14

\* The uncertain claim of a job is retained.
LEMMA RetainStep ==
  ASSUME Safe, Kept, NEW c \in Callers, RetainClaim(c)
  PROVE  Kept'
<1>1. PICK j : j = callers[c].job
  OBVIOUS
<1>2. callers[c].pc = "retain"
  BY DEF RetainClaim
<1>3. /\ j \in Jobs /\ callers[c].job = j
      /\ CallP(callers[c], rows[j], worker[j], pending[j], reported[j], j \in registry)
      /\ callers[c].cmd = "start" => \A d \in Callers :
            d # c /\ callers[d].cmd = "start" => callers[d].job # j
  BY <1>1, <1>2, AtPlace
<1>4. UNCHANGED <<rows, worker, reported, signal>>
  BY DEF RetainClaim, actorVars
<1>5. /\ JobP(rows[j], worker[j], pending[j], reported[j])
      /\ WorkerP(rows[j], worker[j], reported[j])
  BY <1>3, KnownJob
<1>6. /\ callers[c].cmd = "start" /\ pending[j] = NoPending
      /\ worker[j].pc = "none" /\ reported[j] = NoResult
  BY <1>2, <1>3 DEF CallP, Starting
<1>7. /\ pending' = [pending EXCEPT ![j] = ClaimPending] /\ registry' = registry \ {j}
      /\ callers' = [callers EXCEPT ![c] = NoCall]
  BY <1>1, <1>6 DEF RetainClaim, Keep, Release, Call
<1>8. pending \in [Jobs -> PendingT]
  BY DEF Safe, DeskOK, PendingOK
<1>9. pending'[j] = ClaimPending /\ Only(j)
  BY <1>3, <1>4, <1>7, <1>8 DEF Only
<1>10. ClaimPending # NoPending
  BY PendingKinds
<1>11. PendingP(rows[j], worker[j], ClaimPending, NoResult)
  BY <1>6, PendingKinds DEF PendingP
<1>12. JobP(rows[j], worker[j], ClaimPending, NoResult)
  BY <1>5, <1>6, <1>11 DEF JobP
<1>13. JobStands(j)'
  BY <1>4, <1>6, <1>9, <1>12 DEF JobStands
<1>14. SignalStands(j)' /\ OwnedStands(j)'
  BY <1>4, <1>6, <1>9, <1>10 DEF SignalStands, OwnedStands, Asked
<1>15. ASSUME NEW d \in Callers, d # c, callers[d].pc # "idle", callers[d].job = j
       PROVE  CallP(callers[d], rows'[j], worker'[j], pending'[j], reported'[j], j \in registry')
  <2>1. CallP(callers[d], rows[j], worker[j], NoPending, reported[j], j \in registry)
    BY <1>6, <1>15 DEF Kept, CallStands
  <2>2. callers[d].cmd # "start"
    BY <1>3, <1>6, <1>15
  <2>3. CallP(callers[d], rows[j], worker[j], ClaimPending, reported[j], j \in registry')
    BY <2>1, <2>2, CallUnderRetain
  <2> QED BY <1>4, <1>9, <2>3
<1>16. NoCall.pc = "idle" /\ NoCall.cmd = "none"
  BY DEF NoCall
<1> QED BY <1>3, <1>7, <1>9, <1>13, <1>14, <1>15, <1>16, CallerStep

\* A worker that may send is registered, so the signal reaches it.
LEMMA SignalStep ==
  ASSUME Safe, Kept, NEW c \in Callers, Signal(c)
  PROVE  Kept'
<1>1. PICK j : j = callers[c].job
  OBVIOUS
<1>2. callers[c].pc = "signal"
  BY DEF Signal
<1>3. j \in Jobs /\ callers[c].job = j
  BY <1>1, <1>2, AtPlace
<1>4. UNCHANGED <<rows, worker, pending, reported, registry>>
  BY DEF Signal, actorVars
<1>5. /\ signal' = [signal EXCEPT ![j] = signal[j] \/ j \in registry]
      /\ callers' = [callers EXCEPT ![c] = NoCall]
  BY <1>1 DEF Signal, Call
<1>6. signal \in [Jobs -> BOOLEAN]
  BY DEF Safe, DeskOK, SignalsOK
<1>7. Only(j) /\ (j \in registry => signal'[j])
  BY <1>3, <1>4, <1>5, <1>6 DEF Only
<1>8. JobStands(j) /\ SignalStands(j) /\ OwnedStands(j)
  BY <1>3 DEF Kept
<1>9. JobStands(j)'
  BY <1>4, <1>8 DEF JobStands
<1>10. SignalStands(j)'
  BY <1>4, <1>7, <1>8 DEF SignalStands
<1>11. \A d \in Callers : d # c => callers'[d] = callers[d]
  BY <1>5
<1>12. OwnedStands(j)'
  BY <1>2, <1>4, <1>8, <1>11 DEF OwnedStands
<1>13. NoCall.pc = "idle" /\ NoCall.cmd = "none"
  BY DEF NoCall
<1>14. \A d \in Callers : d # c /\ callers[d].pc # "idle" /\ callers[d].job = j =>
          CallP(callers[d], rows'[j], worker'[j], pending'[j], reported'[j], j \in registry')
  BY <1>3, <1>4, OthersStay
<1> QED BY <1>3, <1>5, <1>7, <1>9, <1>10, <1>12, <1>13, <1>14, CallerStep

\* Only a job that its producer no longer works on is given up.
LEMMA GiveUpStep ==
  ASSUME Safe, Kept, NEW c \in Callers, GiveUp(c)
  PROVE  Kept'
<1>1. PICK j : j = callers[c].job
  OBVIOUS
<1>2. callers[c].pc = "giveUp"
  BY DEF GiveUp
<1>3. /\ j \in Jobs /\ callers[c].job = j
      /\ CallP(callers[c], rows[j], worker[j], pending[j], reported[j], j \in registry)
      /\ callers[c].cmd = "start" => \A d \in Callers :
            d # c /\ callers[d].cmd = "start" => callers[d].job # j
  BY <1>1, <1>2, AtPlace
<1>4. UNCHANGED <<worker, pending, reported, signal, registry>>
  BY DEF GiveUp
<1>5. Good(rows[j]) /\ Goes(rows[j], rows[j])
  BY <1>3, KnownJob
<1>6. Gone(rows[j], worker[j], pending[j], reported[j])
  BY <1>2, <1>3 DEF CallP
<1>7. PICK o \in Reach(j, InterruptMemoryClaim(rows[j])) :
        Do(j, o) /\ IF o.code = "ok" THEN Goto(c, "forget") ELSE Call(c, NoCall)
  BY <1>1, Zenon DEF GiveUp
<1>8. PICK n : n = o.row
  OBVIOUS
<1>9. rows' = [rows EXCEPT ![j] = n]
  BY <1>7, <1>8 DEF Do
<1>10. /\ Goes(rows[j], n) /\ n.dispatch = rows[j].dispatch /\ n.result = rows[j].result
       /\ Running(n) => n = rows[j]
       /\ o.code = "ok" /\ rows[j].status # "absent" => Over(n)
  <2>1. o.code = "PersistenceUnavailable" => o.code # "ok"
    OBVIOUS
  <2> QED BY <1>5, <1>7, <1>8, <2>1, InterruptGoes, ReachIs
<1>11. n.status = "stopping" => rows[j].status = "stopping"
  BY <1>10 DEF Running
<1>12. worker[j].pc = "none" /\ reported[j] = NoResult /\ rows[j].status # "absent"
  BY <1>6 DEF Gone
<1>13. ASSUME NEW d \in Callers, d # c, callers[d].job = j, Running(rows[j])
       PROVE  callers[d].pc # "retain"
  <2>1. SUFFICES ASSUME callers[d].pc = "retain" PROVE FALSE
    OBVIOUS
  <2>2. pending[j] = NoPending
    BY <1>13, <2>1 DEF Kept, CallStands, CallP, Starting
  <2>3. ~Over(rows[j])
    BY <1>13 DEF Running, Over, Active
  <2> QED BY <1>6, <2>2, <2>3, PendingKinds DEF Gone
<1>14. CASE o.code = "ok"
  <2>1. PICK k : k = [callers[c] EXCEPT !.pc = "forget"]
    OBVIOUS
  <2>2. callers' = [callers EXCEPT ![c] = k]
    BY <1>7, <1>14, <2>1 DEF Goto, Call
  <2>3. k.pc = "forget" /\ k.job = j /\ k.cmd = callers[c].cmd
    BY <1>3, <2>1, GotoIs
  <2>4. Settled(n, reported[j])
    BY <1>10, <1>12, <1>14 DEF Settled
  <2>5. CallP(k, n, worker[j], pending[j], reported[j], j \in registry')
    BY <2>3, <2>4 DEF CallP, Starting
  <2> QED BY <1>2, <1>3, <1>4, <1>9, <1>10, <1>11, <1>12, <1>13, <2>2, <2>3, <2>5, RowStep
<1>15. CASE o.code # "ok"
  <2>1. callers' = [callers EXCEPT ![c] = NoCall]
    BY <1>7, <1>15 DEF Call
  <2>2. NoCall.pc = "idle" /\ NoCall.cmd = "none"
    BY DEF NoCall
  <2> QED BY <1>2, <1>3, <1>4, <1>9, <1>10, <1>11, <1>12, <1>13, <2>1, <2>2, RowStep
<1> QED BY <1>14, <1>15

\* A retained report is recorded as it was made, or stays retained.
LEMMA SaveReportStep ==
  ASSUME Safe, Kept, NEW c \in Callers, SaveReport(c)
  PROVE  Kept'
<1>1. PICK j : j = callers[c].job
  OBVIOUS
<1>2. callers[c].pc = "save"
  BY DEF SaveReport
<1>3. /\ j \in Jobs /\ callers[c].job = j
      /\ CallP(callers[c], rows[j], worker[j], pending[j], reported[j], j \in registry)
      /\ callers[c].cmd = "start" => \A d \in Callers :
            d # c /\ callers[d].cmd = "start" => callers[d].job # j
  BY <1>1, <1>2, AtPlace
<1>4. UNCHANGED <<worker, pending, reported, signal, registry>>
  BY DEF SaveReport
<1>5. Good(rows[j]) /\ Goes(rows[j], rows[j])
  BY <1>3, KnownJob
<1>6. PICK got : got = callers[c].got
  OBVIOUS
<1>7. /\ ~Unrun(rows[j]) /\ worker[j].pc = "none" /\ Tells(reported[j], got)
      /\ DeliveryProved(rows[j].kind, got)
      /\ pending[j].kind = "terminal" \/ Over(rows[j])
  BY <1>2, <1>3, <1>6 DEF CallP
<1>8. got \in Results /\ got.outcome # "none"
  BY <1>2, <1>6, CallFacts DEF Safe, DeskOK
<1>9. PICK o \in Reach(j, CompleteMemory(rows[j], got)) :
        /\ Do(j, o)
        /\ Goto(c, IF o.code # "ok" THEN "keepReport"
                   ELSE IF o.row.status = "completed" THEN "latest" ELSE "forget")
  BY <1>1, <1>6, Zenon DEF SaveReport
<1>10. PICK n : n = o.row
  OBVIOUS
<1>11. rows' = [rows EXCEPT ![j] = n]
  BY <1>9, <1>10 DEF Do
<1>12. /\ Goes(rows[j], n) /\ n.dispatch = rows[j].dispatch
       /\ n = rows[j] \/ (n.result = got /\ ~Running(n))
       /\ o.code = "ok" => n.result = got /\ Over(n) /\ got # NoResult
  <2>1. o.code = "PersistenceUnavailable" => o.code # "ok"
    OBVIOUS
  <2> QED BY <1>5, <1>7, <1>8, <1>9, <1>10, <2>1, CompleteGoes, ReachIs
<1>13. got # NoResult
  BY <1>8 DEF NoResult
<1>14. /\ n.result = rows[j].result \/ Tells(reported[j], n.result)
       /\ Lost(n) => Lost(rows[j])
       /\ Running(n) => Running(rows[j])
       /\ n.status = "stopping" => rows[j].status = "stopping"
  BY <1>7, <1>12, <1>13 DEF Lost, Running
<1>15. ASSUME NEW d \in Callers, d # c, callers[d].job = j, Running(rows[j])
       PROVE  callers[d].pc # "retain"
  <2>1. SUFFICES ASSUME callers[d].pc = "retain" PROVE FALSE
    OBVIOUS
  <2>2. pending[j] = NoPending
    BY <1>15, <2>1 DEF Kept, CallStands, CallP, Starting
  <2>3. ~Over(rows[j])
    BY <1>15 DEF Running, Over, Active
  <2> QED BY <1>7, <2>2, <2>3, PendingKinds
<1>16. PICK pc : pc = IF o.code # "ok" THEN "keepReport"
                      ELSE IF n.status = "completed" THEN "latest" ELSE "forget"
  OBVIOUS
<1>17. PICK k : k = [callers[c] EXCEPT !.pc = pc]
  OBVIOUS
<1>18. callers' = [callers EXCEPT ![c] = k]
  BY <1>9, <1>10, <1>16, <1>17 DEF Goto, Call
<1>19. k.pc = pc /\ k.job = j /\ k.cmd = callers[c].cmd /\ k.got = got
  BY <1>3, <1>6, <1>17, GotoIs
<1>20. CASE o.code = "ok"
  <2>1. Settled(n, reported[j]) /\ k.pc \in {"latest", "forget"}
    BY <1>12, <1>16, <1>19, <1>20 DEF Settled
  <2>2. CallP(k, n, worker[j], pending[j], reported[j], j \in registry')
    BY <2>1 DEF CallP, Starting
  <2> QED BY <1>2, <1>3, <1>4, <1>7, <1>11, <1>12, <1>14, <1>15, <1>18, <1>19, <2>1, <2>2, RowStep
<1>21. CASE o.code # "ok"
  <2>1. k.pc = "keepReport"
    BY <1>16, <1>19, <1>21
  <2>2. ~Unrun(n) /\ n.kind = rows[j].kind
    BY <1>7, <1>5, <1>12, RowFacts DEF Goes, Unrun
  <2>3. pending[j].kind = "terminal" \/ Over(n)
    <3>1. Over(rows[j]) => n.status = rows[j].status
      BY <1>12 DEF Goes
    <3> QED BY <1>7, <3>1 DEF Over
  <2>4. CallP(k, n, worker[j], pending[j], reported[j], j \in registry')
    BY <1>7, <1>19, <2>1, <2>2, <2>3 DEF CallP, Starting
  <2> QED BY <1>2, <1>3, <1>4, <1>7, <1>11, <1>12, <1>14, <1>15, <1>18, <1>19, <2>1, <2>4, RowStep
<1> QED BY <1>20, <1>21

\* A job that is over stays so when it is read once more.
LEMMA LatestStep ==
  ASSUME Safe, Kept, NEW c \in Callers, Latest(c)
  PROVE  Kept'
<1>1. PICK j : j = callers[c].job
  OBVIOUS
<1>2. callers[c].pc = "latest"
  BY DEF Latest
<1>3. /\ j \in Jobs /\ callers[c].job = j
      /\ CallP(callers[c], rows[j], worker[j], pending[j], reported[j], j \in registry)
      /\ callers[c].cmd = "start" => \A d \in Callers :
            d # c /\ callers[d].cmd = "start" => callers[d].job # j
  BY <1>1, <1>2, AtPlace
<1>4. PICK succeeds \in BOOLEAN :
        /\ Read(succeeds)
        /\ IF ~succeeds THEN Call(c, NoCall)
           ELSE Goto(c, IF rows[j].status = "completed" THEN "installKept" ELSE "forget")
  BY <1>1, Zenon DEF Latest
<1>5. UNCHANGED <<rows, worker, pending, reported, signal, registry>>
  BY <1>4 DEF Latest, Read
<1>6. Settled(rows[j], reported[j])
  BY <1>2, <1>3 DEF CallP
<1>7. CASE ~succeeds
  <2>1. callers' = [callers EXCEPT ![c] = NoCall]
    BY <1>4, <1>7 DEF Call
  <2>2. NoCall.pc = "idle" /\ NoCall.cmd = "none"
    BY DEF NoCall
  <2> QED BY <1>2, <1>3, <1>5, <2>1, <2>2, CallStep
<1>8. CASE succeeds
  <2>1. PICK pc : pc = IF rows[j].status = "completed" THEN "installKept" ELSE "forget"
    OBVIOUS
  <2>2. PICK k : k = [callers[c] EXCEPT !.pc = pc]
    OBVIOUS
  <2>3. callers' = [callers EXCEPT ![c] = k]
    BY <1>4, <1>8, <2>1, <2>2 DEF Goto, Call
  <2>4. k.pc = pc /\ k.job = j /\ k.cmd = callers[c].cmd
    BY <1>3, <2>2, GotoIs
  <2>5. CallP(k, rows[j], worker[j], pending[j], reported[j], j \in registry)
    BY <1>6, <2>1, <2>4 DEF CallP, Starting
  <2> QED BY <1>2, <1>3, <1>5, <2>1, <2>3, <2>4, <2>5, CallStep
<1> QED BY <1>7, <1>8

\* The view of a completed job changes nothing that the threads know.
LEMMA InstallViewStep ==
  ASSUME Safe, Kept, NEW c \in Callers, InstallView(c)
  PROVE  Kept'
<1>1. PICK j : j = callers[c].job
  OBVIOUS
<1>2. callers[c].pc \in {"installKept", "installFound"}
  BY DEF InstallView
<1>3. /\ j \in Jobs /\ callers[c].job = j
      /\ CallP(callers[c], rows[j], worker[j], pending[j], reported[j], j \in registry)
      /\ callers[c].cmd = "start" => \A d \in Callers :
            d # c /\ callers[d].cmd = "start" => callers[d].job # j
  BY <1>1, <1>2, AtPlace
<1>4. UNCHANGED <<worker, pending, reported, signal, registry>>
  BY DEF InstallView
<1>5. Good(rows[j]) /\ Goes(rows[j], rows[j])
  BY <1>3, KnownJob
<1>6. PICK o \in Reach(j, InstallMemory(rows[j], project)) :
        /\ Do(j, o)
        /\ IF callers[c].pc = "installFound" THEN Call(c, NoCall)
           ELSE Goto(c, IF o.code \in {"ok", "ContextPolicyChanged"} THEN "forget" ELSE "keepView")
  BY <1>1, Zenon DEF InstallView
<1>7. PICK n : n = o.row
  OBVIOUS
<1>8. rows' = [rows EXCEPT ![j] = n]
  BY <1>6, <1>7 DEF Do
<1>9. /\ Goes(rows[j], n) /\ n.dispatch = rows[j].dispatch /\ n.result = rows[j].result
      /\ n.status = rows[j].status /\ n.reason = rows[j].reason
  BY <1>5, <1>6, <1>7, InstallGoes, ReachIs
<1>10. (Lost(n) => Lost(rows[j])) /\ (Running(n) <=> Running(rows[j]))
  BY <1>9 DEF Lost, Running
<1>11. CASE callers[c].pc = "installFound"
  <2>1. callers' = [callers EXCEPT ![c] = NoCall]
    BY <1>6, <1>11 DEF Call
  <2>2. NoCall.pc = "idle" /\ NoCall.cmd = "none"
    BY DEF NoCall
  <2> QED BY <1>2, <1>3, <1>4, <1>8, <1>9, <1>10, <2>1, <2>2, RowStep
<1>12. CASE callers[c].pc # "installFound"
  <2>1. PICK pc : pc = IF o.code \in {"ok", "ContextPolicyChanged"} THEN "forget" ELSE "keepView"
    OBVIOUS
  <2>2. PICK k : k = [callers[c] EXCEPT !.pc = pc]
    OBVIOUS
  <2>3. callers' = [callers EXCEPT ![c] = k]
    BY <1>6, <1>12, <2>1, <2>2 DEF Goto, Call
  <2>4. k.pc = pc /\ k.job = j /\ k.cmd = callers[c].cmd
    BY <1>3, <2>2, GotoIs
  <2>5. n.status = "completed"
    BY <1>2, <1>3, <1>9, <1>12 DEF CallP
  <2>6. Settled(n, reported[j])
    BY <1>9, <2>5, RowFacts DEF Settled, Over, Active, Goes
  <2>7. CallP(k, n, worker[j], pending[j], reported[j], j \in registry')
    BY <2>1, <2>4, <2>5, <2>6 DEF CallP, Starting
  <2> QED BY <1>2, <1>3, <1>4, <1>8, <1>9, <1>10, <2>1, <2>3, <2>4, <2>7, RowStep
<1> QED BY <1>11, <1>12

\* What a retry does with what it read and with what it finds retained.
LEMMA LookStep ==
  ASSUME Safe, Kept, NEW c \in Callers, Look(c)
  PROVE  Kept'
<1>1. PICK j : j = callers[c].job
  OBVIOUS
<1>2. callers[c].pc = "look"
  BY DEF Look
<1>3. /\ j \in Jobs /\ callers[c].job = j
      /\ CallP(callers[c], rows[j], worker[j], pending[j], reported[j], j \in registry)
      /\ callers[c].cmd = "start" => \A d \in Callers :
            d # c /\ callers[d].cmd = "start" => callers[d].job # j
  BY <1>1, <1>2, AtPlace
<1>4. UNCHANGED <<rows, worker, pending, reported, signal, registry>>
  BY DEF Look, actorVars
<1>5. PICK held : held = callers[c].held
  OBVIOUS
<1>6. Seen(held, rows[j], pending[j])
  BY <1>2, <1>3, <1>5 DEF CallP
<1>7. /\ Good(rows[j]) /\ JobP(rows[j], worker[j], pending[j], reported[j])
      /\ PendingP(rows[j], worker[j], pending[j], reported[j]) /\ pending[j] \in PendingT
  BY <1>3, KnownJob
<1>8. held \in HeldT
  BY <1>5, CallFacts DEF Safe, DeskOK
<1>9. PICK plan : plan = Plan(held, pending[j])
  OBVIOUS
<1>10. PICK k : k = IF plan = "done" THEN NoCall
                    ELSE [callers[c] EXCEPT !.pc = plan, !.got = pending[j].report]
  OBVIOUS
<1>11. callers' = [callers EXCEPT ![c] = k]
  BY <1>1, <1>5, <1>9, <1>10 DEF Look, Call
<1>12. plan # "done" => /\ k.pc = plan /\ k.job = j /\ k.cmd = callers[c].cmd
                        /\ k.got = pending[j].report
  <2>1. callers[c] \in CallT
    BY CallFacts DEF Safe, DeskOK
  <2> QED BY <1>3, <1>10, <2>1 DEF CallT
<1>13. plan = "done" => k = NoCall /\ k.pc = "idle" /\ k.cmd = "none"
  BY <1>10 DEF NoCall
<1>14. \/ plan = "giveUp" /\ pending[j].kind = "claim"
       \/ plan = "save" /\ pending[j].kind = "terminal"
       \/ /\ plan \in {"forget", "latest"} /\ pending[j].kind = "terminal" /\ ~Awaits(held)
       \/ plan = "latest" /\ pending[j].kind = "install"
       \/ plan \in {"installFound", "done"}
  <2>1. pending[j].kind \in {"none", "claim", "terminal", "install"}
    BY <1>7 DEF PendingT
  <2> QED BY <1>9, <2>1 DEF Plan
<1>15. CASE plan = "giveUp" /\ pending[j].kind = "claim"
  <2>1. Gone(rows[j], worker[j], pending[j], reported[j])
    BY <1>6, <1>7, <1>15 DEF PendingP, Gone, Seen
  <2>2. CallP(k, rows[j], worker[j], pending[j], reported[j], j \in registry)
    BY <1>12, <1>15, <2>1 DEF CallP, Starting
  <2> QED BY <1>2, <1>3, <1>4, <1>11, <1>12, <1>15, <2>2, CallStep
<1>16. CASE plan = "save" /\ pending[j].kind = "terminal"
  <2>1. CallP(k, rows[j], worker[j], pending[j], reported[j], j \in registry)
    BY <1>7, <1>12, <1>16 DEF CallP, Starting, PendingP
  <2> QED BY <1>2, <1>3, <1>4, <1>11, <1>12, <1>16, <2>1, CallStep
<1>17. CASE plan \in {"forget", "latest"} /\ pending[j].kind = "terminal" /\ ~Awaits(held)
  <2>1. ~Unrun(rows[j])
    BY <1>7, <1>17 DEF PendingP
  <2>2. held.status \in {"running", "stopping", "stopped", "completed", "failed", "interrupted"}
    <3>1. held.status \in Statuses /\ held.status # "queued"
      BY <1>6, <1>8, <2>1 DEF Seen, HeldT
    <3> QED BY <3>1 DEF Statuses, Active
  <2>3. rows[j].result # NoResult \/ Lost(rows[j])
    <3>1. CASE held.done
      BY <1>6, <3>1 DEF Seen
    <3>2. CASE ~held.done
      <4>1. /\ held.status \in {"stopped", "completed", "failed", "interrupted"}
            /\ held.status = "interrupted" => held.reason # "recovered_unknown_external_outcome"
        BY <1>17, <2>2, <3>2 DEF Awaits
      <4>2. rows[j].status = held.status /\ rows[j].reason = held.reason
        BY <1>6, <4>1 DEF Seen, Active
      <4> QED BY <1>7, <2>1, <4>1, <4>2, RowFacts DEF Lost
    <3> QED BY <3>1, <3>2
  <2>4. Settled(rows[j], reported[j])
    <3>1. CASE rows[j].result # NoResult
      BY <1>7, <3>1, RowFacts DEF Settled
    <3>2. CASE Lost(rows[j])
      <4>1. reported[j] = NoResult
        BY <1>7, <3>2 DEF JobP
      <4> QED BY <3>2, <4>1 DEF Settled, Lost, Over, Active
    <3> QED BY <2>3, <3>1, <3>2
  <2>5. CallP(k, rows[j], worker[j], pending[j], reported[j], j \in registry)
    BY <1>12, <1>17, <2>4 DEF CallP, Starting
  <2> QED BY <1>2, <1>3, <1>4, <1>11, <1>12, <1>17, <2>5, CallStep
<1>18. CASE plan = "latest" /\ pending[j].kind = "install"
  <2>1. rows[j].status = "completed"
    BY <1>7, <1>18 DEF PendingP
  <2>2. Settled(rows[j], reported[j])
    BY <1>7, <2>1, RowFacts DEF Settled
  <2>3. CallP(k, rows[j], worker[j], pending[j], reported[j], j \in registry)
    BY <1>12, <1>18, <2>2 DEF CallP, Starting
  <2> QED BY <1>2, <1>3, <1>4, <1>11, <1>12, <1>18, <2>3, CallStep
<1>19. CASE plan = "installFound"
  <2>1. CallP(k, rows[j], worker[j], pending[j], reported[j], j \in registry)
    BY <1>12, <1>19 DEF CallP, Starting
  <2> QED BY <1>2, <1>3, <1>4, <1>11, <1>12, <1>19, <2>1, CallStep
<1>20. CASE plan = "done"
  BY <1>2, <1>3, <1>4, <1>11, <1>13, <1>20, CallStep
<1> QED BY <1>14, <1>15, <1>16, <1>17, <1>18, <1>19, <1>20

\* What is retained is settled: recorded, retained with its report, or waiting
\* for its view.
LEMMA ConcludeStep ==
  ASSUME Safe, Kept, NEW c \in Callers, Conclude(c)
  PROVE  Kept'
<1>1. PICK j : j = callers[c].job
  OBVIOUS
<1>2. callers[c].pc \in {"forget", "keepReport", "keepView"}
  BY DEF Conclude
<1>3. /\ j \in Jobs /\ callers[c].job = j
      /\ CallP(callers[c], rows[j], worker[j], pending[j], reported[j], j \in registry)
  BY <1>1, <1>2, AtPlace
<1>4. UNCHANGED <<rows, worker, reported, signal, registry>>
  BY DEF Conclude, actorVars
<1>5. PICK got : got = callers[c].got
  OBVIOUS
<1>6. PICK p : p = CASE callers[c].pc = "forget" -> NoPending
                     [] callers[c].pc = "keepReport" -> Terminal(got)
                     [] callers[c].pc = "keepView" -> InstallPending
  OBVIOUS
<1>7. pending' = [pending EXCEPT ![j] = p] /\ callers' = [callers EXCEPT ![c] = NoCall]
  BY <1>1, <1>5, <1>6 DEF Conclude, Keep, Call
<1>8. pending \in [Jobs -> PendingT]
  BY DEF Safe, DeskOK, PendingOK
<1>9. pending'[j] = p /\ Only(j)
  BY <1>3, <1>4, <1>7, <1>8 DEF Only
<1>10. /\ Good(rows[j]) /\ JobP(rows[j], worker[j], pending[j], reported[j])
       /\ WorkerP(rows[j], worker[j], reported[j])
  BY <1>3, KnownJob
<1>11. \/ p = NoPending /\ Settled(rows[j], reported[j])
       \/ /\ p = Terminal(got) /\ p.kind = "terminal" /\ p.report = got
          /\ ~Unrun(rows[j]) /\ worker[j].pc = "none"
          /\ Tells(reported[j], got) /\ DeliveryProved(rows[j].kind, got)
          /\ pending[j].kind = "terminal" \/ Over(rows[j])
       \/ p = InstallPending /\ rows[j].status = "completed"
  <2>1. CASE callers[c].pc = "forget"
    BY <1>3, <1>6, <2>1 DEF CallP
  <2>2. CASE callers[c].pc = "keepReport"
    <3>1. p = Terminal(got)
      BY <1>6, <2>2
    <3>2. p.kind = "terminal" /\ p.report = got
      BY <3>1, PendingKinds
    <3> QED BY <1>3, <1>5, <2>2, <3>1, <3>2 DEF CallP
  <2>3. CASE callers[c].pc = "keepView"
    <3>1. p = InstallPending
      BY <1>6, <2>3
    <3> QED BY <1>3, <2>3, <3>1 DEF CallP
  <2> QED BY <1>2, <2>1, <2>2, <2>3
<1>12. JobP(rows[j], worker[j], p, reported[j])
  <2>1. CASE p = NoPending /\ Settled(rows[j], reported[j])
    <3>1. PendingP(rows[j], worker[j], p, reported[j])
      BY <2>1, PendingKinds DEF PendingP
    <3>2. reported[j] # NoResult => rows[j].result = reported[j]
      BY <1>10, <2>1 DEF JobP, Settled, Tells
    <3> QED BY <1>10, <2>1, <3>1, <3>2 DEF JobP
  <2>2. CASE /\ p = Terminal(got) /\ p.kind = "terminal" /\ p.report = got
             /\ ~Unrun(rows[j]) /\ worker[j].pc = "none"
             /\ Tells(reported[j], got) /\ DeliveryProved(rows[j].kind, got)
    <3>1. PendingP(rows[j], worker[j], p, reported[j])
      BY <2>2 DEF PendingP
    <3>2. reported[j] # NoResult => p = Terminal(reported[j])
      BY <2>2 DEF Tells
    <3> QED BY <1>10, <2>2, <3>1, <3>2 DEF JobP
  <2>3. CASE p = InstallPending /\ rows[j].status = "completed"
    <3>1. PendingP(rows[j], worker[j], p, reported[j])
      BY <2>3, PendingKinds DEF PendingP
    <3>2. rows[j].result # NoResult /\ ~Unrun(rows[j])
      BY <1>10, <2>3, RowFacts
    <3>3. reported[j] # NoResult => rows[j].result = reported[j]
      BY <1>10, <3>2 DEF JobP, Tells
    <3> QED BY <1>10, <3>1, <3>2, <3>3 DEF JobP
  <2> QED BY <1>11, <2>1, <2>2, <2>3
<1>13. JobStands(j)'
  BY <1>4, <1>9, <1>12 DEF JobStands
<1>14. SignalStands(j) /\ \A d \in Callers : d # c => callers'[d] = callers[d]
  BY <1>3, <1>7 DEF Kept
<1>15. SignalStands(j)'
  BY <1>2, <1>4, <1>14 DEF SignalStands
<1>16. OwnedStands(j)'
  <2>1. p = NoPending => ~Running(rows[j])
    BY <1>11, PendingKinds DEF Settled, Over, Running, Active
  <2> QED BY <1>4, <1>9, <2>1 DEF OwnedStands
<1>17. ASSUME NEW d \in Callers, d # c, callers[d].pc # "idle", callers[d].job = j
       PROVE  CallP(callers[d], rows'[j], worker'[j], pending'[j], reported'[j], j \in registry')
  <2>1. CallP(callers[d], rows[j], worker[j], pending[j], reported[j], j \in registry)
    BY <1>17 DEF Kept, CallStands
  <2>2. \/ p = NoPending /\ Over(rows[j])
        \/ p = InstallPending /\ rows[j].status = "completed"
        \/ /\ p.kind = "terminal" /\ ~Unrun(rows[j])
           /\ pending[j].kind = "terminal" \/ Over(rows[j])
    BY <1>11 DEF Settled
  <2>3. CallP(callers[d], rows[j], worker[j], p, reported[j], j \in registry)
    BY <1>10, <2>1, <2>2, CallUnderKeep
  <2> QED BY <1>4, <1>9, <2>3
<1>18. NoCall.pc = "idle" /\ NoCall.cmd = "none"
  BY DEF NoCall
<1> QED BY <1>3, <1>7, <1>9, <1>13, <1>15, <1>16, <1>17, <1>18, CallerStep

-----------------------------------------------------------------------------
\* The workers.

\* A worker that goes on.
LEMMA WorkerGoes ==
  ASSUME Safe, Kept, NEW j \in Jobs, NEW n, NEW w, NEW rep,
         rows'[j] = n, worker'[j] = w, reported'[j] = rep, Only(j),
         callers' = callers, pending' = pending, registry' = registry,
         worker[j].pc # "none", w.pc # "none",
         Goes(rows[j], n), rep = reported[j] \/ Running(rows[j]),
         Lost(n) => Lost(rows[j]), WorkerP(n, w, rep),
         n.result # NoResult => Tells(rep, n.result),
         rep # NoResult => n.result = rep \/ w.report = rep,
         w.pc \in Asked =>
            /\ worker[j].pc \in Asked /\ (signal[j] => signal'[j])
            /\ n.status = "stopping" => rows[j].status = "stopping"
  PROVE  Kept'
<1>1. /\ JobP(rows[j], worker[j], pending[j], reported[j]) /\ Good(rows[j])
      /\ PendingP(rows[j], worker[j], pending[j], reported[j]) /\ SignalStands(j)
  BY KnownJob DEF Kept
<1>2. ~Unrun(n) /\ ~Lost(n) /\ (rows[j].status = "completed" => n.status = "completed")
  BY <1>1 DEF JobP, Goes, Over, Active
<1>3. PendingP(n, w, pending[j], rep)
  BY <1>1, <1>2 DEF PendingP
<1>4. JobP(n, w, pending[j], rep)
  BY <1>2, <1>3 DEF JobP
<1>5. JobStands(j)'
  BY <1>4 DEF JobStands
<1>6. SignalStands(j)'
  BY <1>1 DEF SignalStands
<1>7. OwnedStands(j)'
  BY DEF OwnedStands
<1> QED BY <1>5, <1>6, <1>7, WorkerStep

\* What a worker is at its next place.
LEMMA StepIs ==
  ASSUME Safe, NEW j \in Jobs, NEW pc, Step(j, pc)
  PROVE  /\ worker'[j].pc = pc /\ worker'[j].report = worker[j].report
         /\ \A x \in Jobs : x # j => worker'[x] = worker[x]
<1>1. worker \in [Jobs -> WorkerT]
  BY DEF Safe, DeskOK, WorkersOK
<1> QED BY <1>1 DEF Step, WorkerT

\* A worker that goes to save its report.
LEMMA FinishIs ==
  ASSUME Safe, NEW j \in Jobs, NEW report, Finish(j, report)
  PROVE  /\ worker'[j].pc = "complete" /\ worker'[j].report = report
         /\ \A x \in Jobs : x # j => worker'[x] = worker[x]
<1>1. worker \in [Jobs -> WorkerT]
  BY DEF Safe, DeskOK, WorkersOK
<1> QED BY <1>1 DEF Finish

\* A step of a worker before its report, which leaves the row alone.
LEMMA EarlyStep ==
  ASSUME Safe, Kept, NEW j \in Jobs, UNCHANGED <<rows, callers, pending, registry>>,
         signal' = signal \/ signal' = [signal EXCEPT ![j] = TRUE],
         \A x \in Jobs : x # j => worker'[x] = worker[x] /\ reported'[x] = reported[x],
         worker[j].pc \in Early,
         \/ worker'[j].pc = "complete" /\ DeliveryProved(rows[j].kind, worker'[j].report)
         \/ /\ worker'[j].pc \in Early \ {"answer"}
            /\ worker'[j].pc \in Asked => worker[j].pc \in Asked,
         reported'[j] = NoResult \/ (worker'[j].pc = "complete" /\ worker'[j].report = reported'[j])
  PROVE  Kept'
<1>1. /\ JobP(rows[j], worker[j], pending[j], reported[j]) /\ Good(rows[j])
      /\ WorkerP(rows[j], worker[j], reported[j]) /\ Goes(rows[j], rows[j])
      /\ signal \in [Jobs -> BOOLEAN]
  BY KnownJob DEF Safe, DeskOK, SignalsOK
<1>2. Running(rows[j]) /\ reported[j] = NoResult /\ worker[j].pc # "none"
  BY <1>1 DEF WorkerP, Early, Before
<1>3. rows[j].result = NoResult
  BY <1>1, <1>2, RowFacts DEF Running
<1>4. PICK w : w = worker'[j]
  OBVIOUS
<1>5. PICK rep : rep = reported'[j]
  OBVIOUS
<1>6. PICK n : n = rows[j]
  OBVIOUS
<1>7. w.pc # "none" /\ (w.pc \in Asked => worker[j].pc \in Asked)
  BY <1>4 DEF Early, Before, Asked
<1>8. WorkerP(n, w, rep)
  <2>1. CASE w.pc = "complete" /\ DeliveryProved(rows[j].kind, w.report)
    <3>1. Tells(rep, w.report)
      BY <1>4, <1>5 DEF Tells
    <3> QED BY <1>2, <1>6, <2>1, <3>1 DEF WorkerP, Early, Before
  <2>2. CASE w.pc \in Early \ {"answer"}
    <3>1. rep = NoResult
      BY <1>4, <1>5, <2>2 DEF Early, Before
    <3> QED BY <1>2, <1>6, <2>2, <3>1 DEF WorkerP, Early, Before
  <2> QED BY <1>4, <2>1, <2>2
<1>9. Only(j)
  BY <1>1 DEF Only
<1>10. signal[j] => signal'[j]
  BY <1>1
<1>11. /\ rows'[j] = n /\ worker'[j] = w /\ reported'[j] = rep
       /\ Goes(rows[j], n) /\ (Lost(n) => Lost(rows[j]))
       /\ n.status = "stopping" => rows[j].status = "stopping"
       /\ n.result = NoResult /\ (rep # NoResult => w.report = rep)
  BY <1>1, <1>3, <1>4, <1>5, <1>6
<1> QED BY <1>2, <1>7, <1>8, <1>9, <1>10, <1>11, WorkerGoes

\* A report of a request that was not made.
LEMMA UnsentIs ==
  \A kind : DeliveryProved(kind, Unsent) /\ DeliveryProved(kind, UnsentStopped)
BY DEF DeliveryProved, Unsent, UnsentStopped, NoResult

\* The steps of a worker up to its report.
LEMMA InspectStep ==
  ASSUME Safe, Kept, NEW j \in Jobs, Inspect(j)
  PROVE  Kept'
<1>1. worker[j].pc \in Early /\ worker[j].pc \in Asked
  BY DEF Inspect, Early, Before, Asked
<1>2. UNCHANGED <<rows, callers, pending, reported>>
  BY DEF Inspect, actorVars
<1>3. Running(rows[j]) /\ reported[j] = NoResult /\ signal \in [Jobs -> BOOLEAN]
  BY <1>1, KnownJob DEF WorkerP, Safe, DeskOK, SignalsOK
<1>4. \/ Finish(j, Unsent) /\ UNCHANGED <<registry, signal>>
      \/ /\ signal' = [signal EXCEPT ![j] = signal[j] \/ rows[j].status = "stopping"]
         /\ Finish(j, UnsentStopped) \/ Step(j, "revalidate")
         /\ UNCHANGED registry
  BY <1>3 DEF Inspect, Running
<1>5. UNCHANGED registry /\ (signal' = signal \/ signal' = [signal EXCEPT ![j] = TRUE])
  BY <1>3, <1>4, ZenonT(60)
<1>6. /\ \A x \in Jobs : x # j => worker'[x] = worker[x]
      /\ \/ worker'[j].pc = "complete" /\ worker'[j].report \in {Unsent, UnsentStopped}
         \/ worker'[j].pc = "revalidate"
  BY <1>4, StepIs, FinishIs
<1>7. \/ worker'[j].pc = "complete" /\ DeliveryProved(rows[j].kind, worker'[j].report)
      \/ worker'[j].pc \in Early \ {"answer"}
  BY <1>6, UnsentIs DEF Early, Before
<1> QED BY <1>1, <1>2, <1>3, <1>5, <1>6, <1>7, EarlyStep

\* A claim of a running job leaves its row alone.
LEMMA RevalidateStep ==
  ASSUME Safe, Kept, NEW j \in Jobs, Revalidate(j)
  PROVE  Kept'
<1>1. worker[j].pc \in Early /\ worker[j].pc \in Asked
  BY DEF Revalidate, Early, Before, Asked
<1>2. UNCHANGED <<callers, registry, signal, pending, reported>>
  BY DEF Revalidate
<1>3. Running(rows[j]) /\ reported[j] = NoResult /\ Good(rows[j]) /\ rows \in [Jobs -> JobRows]
  BY <1>1, KnownJob DEF WorkerP, Safe, ActorOK, RowsOK
<1>4. PICK o \in Reach(j, BeginMemory(rows[j], project)) :
        /\ Do(j, o)
        /\ IF o.code \in {"ok", "newlyDispatched"}
           THEN IF rows[j].kind = "http" /\ signal[j] THEN Finish(j, UnsentStopped)
                ELSE Step(j, "send")
           ELSE IF rows[j].kind = "http" THEN Step(j, "refused") ELSE Finish(j, Unsent)
  BY Zenon DEF Revalidate
<1>5. o.row = rows[j]
  BY <1>3, <1>4, BeginGoes, ReachIs DEF Running
<1>6. rows' = rows
  BY <1>3, <1>4, <1>5 DEF Do
<1>7. Finish(j, UnsentStopped) \/ Finish(j, Unsent) \/ Step(j, "send") \/ Step(j, "refused")
  BY <1>4
<1>8. /\ \A x \in Jobs : x # j => worker'[x] = worker[x]
      /\ \/ worker'[j].pc = "complete" /\ worker'[j].report \in {Unsent, UnsentStopped}
         \/ worker'[j].pc \in {"send", "refused"}
  BY <1>7, StepIs, FinishIs
<1>9. \/ worker'[j].pc = "complete" /\ DeliveryProved(rows[j].kind, worker'[j].report)
      \/ worker'[j].pc \in Early \ {"answer"}
  BY <1>8, UnsentIs DEF Early, Before
<1> QED BY <1>1, <1>2, <1>3, <1>6, <1>8, <1>9, EarlyStep

\* A refused revalidation becomes a report of a request that was not made.
LEMMA RefusedStep ==
  ASSUME Safe, Kept, NEW j \in Jobs, RevalidationRefused(j)
  PROVE  Kept'
<1>1. worker[j].pc \in Early
  BY DEF RevalidationRefused, Early, Before
<1>2. UNCHANGED <<rows, callers, registry, signal, pending, reported>>
  BY DEF RevalidationRefused, actorVars
<1>3. reported[j] = NoResult
  BY <1>1, KnownJob DEF WorkerP
<1>4. Finish(j, UnsentStopped) \/ Finish(j, Unsent)
  BY DEF RevalidationRefused
<1>5. /\ \A x \in Jobs : x # j => worker'[x] = worker[x]
      /\ worker'[j].pc = "complete" /\ worker'[j].report \in {Unsent, UnsentStopped}
  BY <1>4, FinishIs
<1>6. DeliveryProved(rows[j].kind, worker'[j].report)
  BY <1>5, UnsentIs
<1> QED BY <1>1, <1>2, <1>3, <1>5, <1>6, EarlyStep

\* The request is sent by a worker that no stop has reached.
LEMMA SendKept ==
  ASSUME Safe, Kept, NEW j \in Jobs, Send(j)
  PROVE  Kept'
<1>1. worker[j].pc \in Early /\ worker[j].pc \in Asked
  BY DEF Send, Early, Before, Asked
<1>2. UNCHANGED <<rows, callers, registry, signal, pending, reported>>
  BY DEF Send, actorVars
<1>3. reported[j] = NoResult
  BY <1>1, KnownJob DEF WorkerP
<1>4. Finish(j, UnsentStopped) \/ Finish(j, Unsent) \/ Step(j, "response")
  BY DEF Send
<1>5. /\ \A x \in Jobs : x # j => worker'[x] = worker[x]
      /\ \/ worker'[j].pc = "complete" /\ worker'[j].report \in {Unsent, UnsentStopped}
         \/ worker'[j].pc = "response"
  BY <1>4, StepIs, FinishIs
<1>6. \/ worker'[j].pc = "complete" /\ DeliveryProved(rows[j].kind, worker'[j].report)
      \/ worker'[j].pc \in Early \ {"answer"}
  BY <1>5, UnsentIs DEF Early, Before
<1> QED BY <1>1, <1>2, <1>3, <1>5, <1>6, EarlyStep

\* The report of a provider proves its delivery.
LEMMA RespondStep ==
  ASSUME Safe, Kept, NEW j \in Jobs, Respond(j)
  PROVE  Kept'
<1>1. worker[j].pc \in Early
  BY DEF Respond, Early
<1>2. UNCHANGED <<rows, callers, registry, signal, pending>>
  BY DEF Respond, actorVars
<1>3. PICK r \in Reports(rows[j].kind, signal[j]) :
        Finish(j, r) /\ reported' = [reported EXCEPT ![j] = r]
  BY DEF Respond
<1>4. DeliveryProved(rows[j].kind, r)
  BY <1>3 DEF Reports, DeliveryProved
<1>5. reported \in [Jobs -> Results]
  BY DEF Safe, DeskOK, WorkersOK, SentOK, PendingOK
<1>6. /\ reported'[j] = r /\ \A x \in Jobs : x # j => reported'[x] = reported[x]
      /\ worker'[j].pc = "complete" /\ worker'[j].report = r
      /\ \A x \in Jobs : x # j => worker'[x] = worker[x]
  BY <1>3, <1>5, FinishIs
<1> QED BY <1>1, <1>2, <1>4, <1>6, EarlyStep

\* The local producer has no delivery to prove.
LEMMA AnswerStep ==
  ASSUME Safe, Kept, NEW j \in Jobs, Answer(j)
  PROVE  Kept'
<1>1. worker[j].pc \in Early /\ worker[j].pc = "answer"
  BY DEF Answer, Early
<1>2. UNCHANGED <<rows, callers, registry, signal, pending, reported>>
  BY DEF Answer, actorVars
<1>3. reported[j] = NoResult /\ rows[j].kind = "local"
  BY <1>1, KnownJob DEF WorkerP
<1>4. PICK report : Finish(j, report)
  BY DEF Answer
<1>5. /\ \A x \in Jobs : x # j => worker'[x] = worker[x]
      /\ worker'[j].pc = "complete" /\ worker'[j].report = report
  BY <1>4, FinishIs
<1>6. DeliveryProved(rows[j].kind, worker'[j].report)
  BY <1>3 DEF DeliveryProved
<1> QED BY <1>1, <1>2, <1>3, <1>5, <1>6, EarlyStep

\* A report is recorded, or stays with the worker.
LEMMA CompleteKept ==
  ASSUME Safe, Kept, NEW j \in Jobs, Complete(j)
  PROVE  Kept'
<1>1. worker[j].pc = "complete"
  BY DEF Complete
<1>2. UNCHANGED <<callers, registry, signal, pending, reported>>
  BY DEF Complete
<1>3. /\ JobP(rows[j], worker[j], pending[j], reported[j]) /\ Good(rows[j])
      /\ WorkerP(rows[j], worker[j], reported[j]) /\ Goes(rows[j], rows[j])
      /\ worker[j] \in WorkerT /\ rows \in [Jobs -> JobRows]
  BY KnownJob DEF Safe, ActorOK, RowsOK
<1>4. PICK report : report = worker[j].report
  OBVIOUS
<1>5. /\ Running(rows[j]) /\ ~Unrun(rows[j])
      /\ Tells(reported[j], report) /\ DeliveryProved(rows[j].kind, report)
      /\ report \in Results /\ report.outcome # "none"
  BY <1>1, <1>3, <1>4, RowFacts DEF WorkerP, WorkerT
<1>6. PICK o \in Reach(j, CompleteMemory(rows[j], report)) :
        /\ Do(j, o)
        /\ Step(j, IF o.code # "ok" THEN "keepReport"
                   ELSE IF o.row.status = "completed" THEN "install" ELSE "forget")
  BY <1>4, Zenon DEF Complete
<1>7. PICK n : n = o.row
  OBVIOUS
<1>8. rows'[j] = n /\ \A x \in Jobs : x # j => rows'[x] = rows[x]
  BY <1>3, <1>6, <1>7 DEF Do
<1>9. PICK pc : pc = IF o.code # "ok" THEN "keepReport"
                     ELSE IF n.status = "completed" THEN "install" ELSE "forget"
  OBVIOUS
<1>10. PICK w : w = worker'[j]
  OBVIOUS
<1>11. /\ w.pc = pc /\ w.report = report
       /\ \A x \in Jobs : x # j => worker'[x] = worker[x]
  BY <1>4, <1>6, <1>7, <1>9, <1>10, StepIs
<1>12. /\ Goes(rows[j], n)
       /\ n = rows[j] \/ (n.result = report /\ ~Running(n))
       /\ o.code = "ok" => n.result = report /\ Over(n) /\ report # NoResult
  <2>1. o.code = "PersistenceUnavailable" => o.code # "ok"
    OBVIOUS
  <2> QED BY <1>3, <1>5, <1>6, <1>7, <2>1, CompleteGoes, ReachIs
<1>13. report # NoResult
  BY <1>5 DEF NoResult
<1>14. /\ Lost(n) => Lost(rows[j])
       /\ n.result # NoResult => Tells(reported[j], n.result)
       /\ reported[j] # NoResult => n.result = reported[j] \/ w.report = reported[j]
  BY <1>3, <1>5, <1>11, <1>12, <1>13 DEF Lost, JobP, Tells
<1>15. rows[j].status # "absent" /\ n.kind = rows[j].kind
  BY <1>5, <1>12 DEF Running, Goes
<1>16. WorkerP(n, w, reported[j])
  <2>1. CASE o.code # "ok"
    BY <1>5, <1>9, <1>11, <1>15, <2>1 DEF WorkerP, Early, Before
  <2>2. CASE o.code = "ok"
    BY <1>9, <1>11, <1>12, <2>2 DEF WorkerP, Early, Before
  <2> QED BY <2>1, <2>2
<1>17. w.pc # "none" /\ w.pc \notin Asked
  BY <1>9, <1>11 DEF Asked
<1>18. Only(j)
  BY <1>2, <1>8, <1>11 DEF Only
<1> QED BY <1>1, <1>2, <1>8, <1>10, <1>12, <1>14, <1>16, <1>17, <1>18, WorkerGoes

\* A completed job gets its view.
LEMMA InstallStep ==
  ASSUME Safe, Kept, NEW j \in Jobs, Install(j)
  PROVE  Kept'
<1>1. worker[j].pc = "install"
  BY DEF Install
<1>2. UNCHANGED <<callers, registry, signal, pending, reported>>
  BY DEF Install
<1>3. /\ JobP(rows[j], worker[j], pending[j], reported[j]) /\ Good(rows[j])
      /\ WorkerP(rows[j], worker[j], reported[j]) /\ Goes(rows[j], rows[j])
      /\ rows \in [Jobs -> JobRows]
  BY KnownJob DEF Safe, ActorOK, RowsOK
<1>4. rows[j].status = "completed"
  BY <1>1, <1>3 DEF WorkerP
<1>5. PICK o \in Reach(j, InstallMemory(rows[j], project)) :
        /\ Do(j, o)
        /\ Step(j, IF o.code \in {"ok", "ContextPolicyChanged"} THEN "forget" ELSE "keepView")
  BY Zenon DEF Install
<1>6. PICK n : n = o.row
  OBVIOUS
<1>7. rows'[j] = n /\ \A x \in Jobs : x # j => rows'[x] = rows[x]
  BY <1>3, <1>5, <1>6 DEF Do
<1>8. PICK w : w = worker'[j]
  OBVIOUS
<1>9. w.pc \in {"forget", "keepView"} /\ \A x \in Jobs : x # j => worker'[x] = worker[x]
  BY <1>5, <1>8, StepIs
<1>10. /\ Goes(rows[j], n) /\ n.result = rows[j].result
       /\ n.status = rows[j].status /\ n.reason = rows[j].reason
  BY <1>3, <1>5, <1>6, InstallGoes, ReachIs
<1>11. n.status = "completed" /\ n.result # NoResult /\ Over(n)
  BY <1>4, <1>10, RowFacts DEF Goes
<1>12. WorkerP(n, w, reported[j])
  BY <1>9, <1>11 DEF WorkerP, Early, Before
<1>13. /\ Lost(n) => Lost(rows[j])
       /\ n.result # NoResult => Tells(reported[j], n.result)
       /\ reported[j] # NoResult => n.result = reported[j] \/ w.report = reported[j]
  BY <1>3, <1>10, <1>11 DEF Lost, JobP, Tells
<1>14. w.pc # "none" /\ w.pc \notin Asked
  BY <1>9 DEF Asked
<1>15. Only(j)
  BY <1>2, <1>7, <1>9 DEF Only
<1> QED BY <1>1, <1>2, <1>7, <1>8, <1>10, <1>12, <1>13, <1>14, <1>15, WorkerGoes

\* The worker ends once what it knew is recorded or retained.
LEMMA SettleStep ==
  ASSUME Safe, Kept, NEW j \in Jobs, Settle(j)
  PROVE  Kept'
<1>1. worker[j].pc \in {"forget", "keepReport", "keepView"} /\ worker[j].pc # "none"
  BY DEF Settle
<1>2. UNCHANGED <<rows, callers, signal, reported>> /\ registry' = registry \ {j}
  BY DEF Settle, actorVars, Release
<1>3. /\ JobP(rows[j], worker[j], pending[j], reported[j]) /\ Good(rows[j])
      /\ WorkerP(rows[j], worker[j], reported[j]) /\ Goes(rows[j], rows[j])
      /\ pending \in [Jobs -> PendingT] /\ worker \in [Jobs -> WorkerT]
  BY KnownJob DEF Safe, DeskOK, PendingOK, WorkersOK
<1>4. PICK report : report = worker[j].report
  OBVIOUS
<1>5. PICK p : p = CASE worker[j].pc = "forget" -> NoPending
                     [] worker[j].pc = "keepReport" -> Terminal(report)
                     [] worker[j].pc = "keepView" -> InstallPending
  OBVIOUS
<1>6. pending' = [pending EXCEPT ![j] = p] /\ worker' = [worker EXCEPT ![j] = NoWorker]
  BY <1>4, <1>5 DEF Settle, Keep
<1>7. pending'[j] = p /\ worker'[j] = NoWorker /\ Only(j)
  BY <1>2, <1>3, <1>6 DEF Only
<1>8. ~Unrun(rows[j]) /\ ~Lost(rows[j]) /\ NoWorker.pc = "none"
  BY <1>1, <1>3, PendingKinds DEF JobP
<1>9. WorkerP(rows[j], NoWorker, reported[j])
  BY <1>8 DEF WorkerP, Early, Before
<1>10. CASE worker[j].pc = "forget"
  <2>1. p = NoPending /\ Over(rows[j]) /\ rows[j].result # NoResult
    BY <1>3, <1>5, <1>10 DEF WorkerP
  <2>2. PendingP(rows[j], NoWorker, p, reported[j])
    BY <2>1, PendingKinds DEF PendingP
  <2>3. reported[j] # NoResult => rows[j].result = reported[j]
    BY <1>3, <2>1 DEF JobP, Tells
  <2>4. JobP(rows[j], NoWorker, p, reported[j])
    BY <1>3, <1>8, <1>9, <2>2, <2>3 DEF JobP
  <2>5. JobStands(j)'
    BY <1>2, <1>7, <2>4 DEF JobStands
  <2>6. SignalStands(j)'
    BY <1>7, <1>8 DEF SignalStands, Asked
  <2>7. OwnedStands(j)'
    BY <1>2, <2>1 DEF OwnedStands, Over, Running, Active
  <2> QED BY <1>1, <1>2, <1>3, <1>7, <2>5, <2>6, <2>7, WorkerStep
<1>11. CASE worker[j].pc = "keepReport"
  <2>1. /\ p = Terminal(report)
        /\ Tells(reported[j], report) /\ DeliveryProved(rows[j].kind, report)
    BY <1>3, <1>4, <1>5, <1>11 DEF WorkerP
  <2>2. p.kind = "terminal" /\ p.report = report /\ p # NoPending
    BY <2>1, PendingKinds
  <2>3. PendingP(rows[j], NoWorker, p, reported[j])
    BY <1>8, <2>1, <2>2 DEF PendingP
  <2>4. reported[j] # NoResult => p = Terminal(reported[j])
    BY <2>1 DEF Tells
  <2>5. JobP(rows[j], NoWorker, p, reported[j])
    BY <1>3, <1>8, <1>9, <2>3, <2>4 DEF JobP
  <2>6. JobStands(j)'
    BY <1>2, <1>7, <2>5 DEF JobStands
  <2>7. SignalStands(j)' /\ OwnedStands(j)'
    BY <1>7, <1>8, <2>2 DEF SignalStands, OwnedStands, Asked
  <2> QED BY <1>1, <1>2, <1>3, <1>7, <2>6, <2>7, WorkerStep
<1>12. CASE worker[j].pc = "keepView"
  <2>1. p = InstallPending /\ rows[j].status = "completed"
    BY <1>3, <1>5, <1>12 DEF WorkerP
  <2>2. p # NoPending /\ rows[j].result # NoResult
    BY <1>3, <2>1, PendingKinds, RowFacts
  <2>3. PendingP(rows[j], NoWorker, p, reported[j])
    BY <2>1, PendingKinds DEF PendingP
  <2>4. reported[j] # NoResult => rows[j].result = reported[j]
    BY <1>3, <2>2 DEF JobP, Tells
  <2>5. JobP(rows[j], NoWorker, p, reported[j])
    BY <1>3, <1>8, <1>9, <2>3, <2>4 DEF JobP
  <2>6. JobStands(j)'
    BY <1>2, <1>7, <2>5 DEF JobStands
  <2>7. SignalStands(j)' /\ OwnedStands(j)'
    BY <1>7, <1>8, <2>2 DEF SignalStands, OwnedStands, Asked
  <2> QED BY <1>1, <1>2, <1>3, <1>7, <2>6, <2>7, WorkerStep
<1> QED BY <1>1, <1>10, <1>11, <1>12

-----------------------------------------------------------------------------
\* The project under the jobs.

\* A step that leaves the threads alone and only ends jobs that none works on.
LEMMA DeskStands ==
  ASSUME Safe, Kept, UNCHANGED deskVars,
         \A x \in Jobs :
            /\ Goes(rows[x], rows'[x]) /\ rows'[x].dispatch = rows[x].dispatch
            /\ rows'[x].result = rows[x].result
            /\ Lost(rows'[x]) => Lost(rows[x]) \/ (worker[x].pc = "none" /\ reported[x] = NoResult)
            /\ Running(rows'[x]) => rows'[x] = rows[x]
            /\ rows'[x] = rows[x] \/ (/\ worker[x].pc = "none"
                                      /\ \A d \in Callers : callers[d].cmd # "start")
  PROVE  Kept'
<1>1. UNCHANGED <<callers, registry, signal, worker, pending, reported>>
  BY DEF deskVars
<1>2. ASSUME NEW x \in Jobs PROVE JobStands(x)' /\ SignalStands(x)' /\ OwnedStands(x)'
  <2>1. /\ JobStands(x) /\ SignalStands(x) /\ OwnedStands(x)
        /\ WorkerP(rows[x], worker[x], reported[x])
    BY KnownJob DEF Kept
  <2>2. PICK n : n = rows'[x]
    OBVIOUS
  <2>3. /\ Goes(rows[x], n) /\ n.dispatch = rows[x].dispatch /\ n.result = rows[x].result
        /\ Lost(n) => Lost(rows[x]) \/ (worker[x].pc = "none" /\ reported[x] = NoResult)
        /\ Running(n) => n = rows[x]
        /\ n = rows[x] \/ worker[x].pc = "none"
    BY <2>2
  <2>4. worker[x].pc \in Early \cup {"complete"} => Running(rows[x]) /\ worker[x].pc # "none"
    BY <2>1 DEF WorkerP, Early, Before
  <2>5. worker[x].pc \in Early \cup {"complete"} => Running(n)
    BY <2>3, <2>4
  <2>6. JobP(n, worker[x], pending[x], reported[x])
    BY <2>1, <2>3, <2>5, JobStays DEF JobStands
  <2>7. JobStands(x)'
    BY <1>1, <2>2, <2>6 DEF JobStands
  <2>8. n.status = "stopping" => rows[x].status = "stopping"
    BY <2>3 DEF Running
  <2>9. SignalStands(x)'
    BY <1>1, <2>1, <2>2, <2>8 DEF SignalStands
  <2>10. OwnedStands(x)'
    BY <1>1, <2>1, <2>2, <2>3 DEF OwnedStands
  <2> QED BY <2>7, <2>9, <2>10
<1>3. ASSUME NEW d \in Callers PROVE CallStands(d)'
  <2>1. CASE callers[d].pc = "idle"
    BY <1>1, <2>1 DEF CallStands
  <2>2. CASE callers[d].pc # "idle"
    <3>1. PICK x : x = callers[d].job
      OBVIOUS
    <3>2. /\ x \in Jobs
          /\ CallP(callers[d], rows[x], worker[x], pending[x], reported[x], x \in registry)
      BY <2>2, <3>1, KnownCall
    <3>3. PICK n : n = rows'[x]
      OBVIOUS
    <3>4. Goes(rows[x], n) /\ n.dispatch = rows[x].dispatch
      BY <3>2, <3>3
    <3>5. callers[d].pc = "retain" /\ Running(rows[x]) => Running(n)
      <4>1. callers[d].pc = "retain" => callers[d].cmd = "start"
        BY <3>2 DEF CallP, Starting
      <4>2. n = rows[x] \/ callers[d].cmd # "start"
        BY <3>2, <3>3
      <4> QED BY <4>1, <4>2
    <3>6. x \in registry /\ callers[d].cmd = "start" => x \in registry
      OBVIOUS
    <3>a. (x \in registry) \in BOOLEAN
      OBVIOUS
    <3>7. PICK b \in BOOLEAN : b = (x \in registry)
      BY <3>a
    <3>8. CallP(callers[d], n, worker[x], pending[x], reported[x], b)
      BY <3>2, <3>4, <3>5, <3>7, CallStays
    <3>9. CallP(callers'[d], rows'[x], worker'[x], pending'[x], reported'[x], x \in registry')
      BY <1>1, <3>3, <3>7, <3>8
    <3> QED BY <1>1, <3>1, <3>9 DEF CallStands
  <2> QED BY <2>1, <2>2
<1>4. OneStart'
  BY <1>1 DEF Kept, OneStart
<1> QED BY <1>2, <1>3, <1>4 DEF Kept

\* A job that nothing works on and nothing is retained for.
LEMMA Blank ==
  \A n : JobP(n, NoWorker, NoPending, NoResult)
<1> SUFFICES ASSUME NEW n PROVE JobP(n, NoWorker, NoPending, NoResult)
  OBVIOUS
<1>1. WorkerP(n, NoWorker, NoResult)
  BY PendingKinds DEF WorkerP, Early, Before
<1>2. PendingP(n, NoWorker, NoPending, NoResult)
  BY PendingKinds DEF PendingP
<1> QED BY <1>1, <1>2, PendingKinds DEF JobP, Tells

\* The close of the application ends a job that no thread works on.
LEMMA CloseStep ==
  ASSUME Safe, Kept, NEW j \in Jobs, CloseInterrupts(j)
  PROVE  Kept'
<1>1. /\ \A d \in Callers : callers[d].cmd # "start"
      /\ \A x \in Jobs : worker[x].pc = "none" /\ pending[x] = NoPending
      /\ rows[j].status \in Active /\ UNCHANGED deskVars
  BY DEF CloseInterrupts
<1>2. PICK o \in Reach(j, InterruptMemoryClaim(rows[j])) : Do(j, o)
  BY DEF CloseInterrupts
<1>3. /\ Good(rows[j]) /\ JobP(rows[j], worker[j], pending[j], reported[j])
      /\ WorkerP(rows[j], worker[j], reported[j]) /\ Goes(rows[j], rows[j])
      /\ rows \in [Jobs -> JobRows]
  BY KnownJob DEF Safe, ActorOK, RowsOK
<1>4. PICK n : n = o.row
  OBVIOUS
<1>5. rows'[j] = n /\ \A x \in Jobs : x # j => rows'[x] = rows[x]
  BY <1>2, <1>3, <1>4 DEF Do
<1>6. /\ Goes(rows[j], n) /\ n.dispatch = rows[j].dispatch /\ n.result = rows[j].result
      /\ Running(n) => n = rows[j]
  BY <1>2, <1>3, <1>4, InterruptGoes, ReachIs
<1>7. reported[j] = NoResult
  <2>1. rows[j].result = NoResult
    BY <1>1, <1>3, RowFacts DEF Over
  <2>2. worker[j].report = NoResult
    BY <1>1, <1>3, PendingKinds DEF WorkerP
  <2>3. NoPending # Terminal(reported[j])
    BY PendingKinds
  <2> QED BY <1>1, <1>3, <2>1, <2>2, <2>3 DEF JobP
<1>8. \A x \in Jobs : x # j => Goes(rows[x], rows'[x]) /\ rows'[x] = rows[x]
  BY <1>5, KnownJob
<1>9. ASSUME NEW x \in Jobs
      PROVE  /\ Goes(rows[x], rows'[x]) /\ rows'[x].dispatch = rows[x].dispatch
             /\ rows'[x].result = rows[x].result
             /\ Lost(rows'[x]) => Lost(rows[x]) \/ (worker[x].pc = "none" /\ reported[x] = NoResult)
             /\ Running(rows'[x]) => rows'[x] = rows[x]
             /\ rows'[x] = rows[x] \/ (/\ worker[x].pc = "none"
                                       /\ \A d \in Callers : callers[d].cmd # "start")
  <2>1. CASE x = j
    BY <1>1, <1>5, <1>6, <1>7, <2>1
  <2>2. CASE x # j
    BY <1>8, <2>2
  <2> QED BY <2>1, <2>2
<1> QED BY <1>1, <1>9, DeskStands

\* The author's edits and a reconnection touch no job.
LEMMA RestStep ==
  ASSUME Safe, Kept, UNCHANGED rows, UNCHANGED deskVars
  PROVE  Kept'
<1>1. \A x \in Jobs : Goes(rows[x], rows'[x]) /\ rows'[x] = rows[x]
  BY KnownJob
<1> QED BY <1>1, DeskStands

\* The next opening interrupts what nobody works on any more.
LEMMA ArchiveStep ==
  ASSUME Safe, Kept, Archive
  PROVE  Kept'
<1>1. /\ \A d \in Callers : callers[d] = NoCall
      /\ \A x \in Jobs : worker[x].pc = "none"
      /\ rows' = [x \in Jobs |-> RecoverInterruptedMemory(rows[x])]
  BY DEF Archive, Recovered
<1>2. UNCHANGED deskVars
  BY DEF Archive
<1>3. \A d \in Callers : callers[d].cmd # "start"
  BY <1>1 DEF NoCall
<1>4. ASSUME NEW x \in Jobs
      PROVE  /\ Goes(rows[x], rows'[x]) /\ rows'[x].dispatch = rows[x].dispatch
             /\ rows'[x].result = rows[x].result
             /\ Lost(rows'[x]) => Lost(rows[x]) \/ (worker[x].pc = "none" /\ reported[x] = NoResult)
             /\ Running(rows'[x]) => rows'[x] = rows[x]
             /\ rows'[x] = rows[x] \/ (/\ worker[x].pc = "none"
                                       /\ \A d \in Callers : callers[d].cmd # "start")
  <2>1. PICK n : n = RecoverInterruptedMemory(rows[x])
    OBVIOUS
  <2>2. rows'[x] = n /\ Good(rows[x])
    BY <1>1, <2>1, KnownJob
  <2>3. /\ Goes(rows[x], n) /\ n.dispatch = rows[x].dispatch /\ n.result = rows[x].result
        /\ ~Running(n)
        /\ rows[x].status \notin Active => n = rows[x]
        /\ rows[x].status \in Active => n.reason = "recovered_unknown_external_outcome"
    BY <2>1, <2>2, RecoverGoes
  <2>4. Lost(n) => Lost(rows[x])
    BY <2>3 DEF Lost
  <2> QED BY <1>1, <1>3, <2>2, <2>3, <2>4
<1> QED BY <1>2, <1>4, DeskStands

\* A crash leaves no thread and no recovery map, and no job that runs.
LEMMA CrashStep ==
  ASSUME Safe, Kept, Crash
  PROVE  Kept'
<1>1. /\ rows' = [x \in Jobs |-> RecoverInterruptedMemory(rows[x])]
      /\ callers' = [c \in Callers |-> NoCall] /\ worker' = [j \in Jobs |-> NoWorker]
      /\ pending' = [j \in Jobs |-> NoPending] /\ reported' = [j \in Jobs |-> NoResult]
  BY DEF Crash, Recovered
<1>2. ASSUME NEW x \in Jobs PROVE JobStands(x)' /\ SignalStands(x)' /\ OwnedStands(x)'
  <2>1. PICK n : n = RecoverInterruptedMemory(rows[x])
    OBVIOUS
  <2>2. /\ rows'[x] = n /\ worker'[x] = NoWorker /\ pending'[x] = NoPending
        /\ reported'[x] = NoResult
    BY <1>1, <2>1
  <2>3. ~Running(n)
    BY <2>1, KnownJob, RecoverGoes
  <2>4. JobStands(x)'
    BY <2>2, Blank DEF JobStands
  <2>5. SignalStands(x)' /\ OwnedStands(x)'
    BY <2>2, <2>3, PendingKinds DEF SignalStands, OwnedStands, Asked
  <2> QED BY <2>4, <2>5
<1>3. \A c \in Callers : callers'[c].pc = "idle" /\ callers'[c].cmd = "none"
  BY <1>1 DEF NoCall
<1> QED BY <1>2, <1>3 DEF Kept, CallStands, OneStart

-----------------------------------------------------------------------------
\* The theorem.

\* Nothing works on any job at first.
LEMMA InitKept == Init => Kept
<1> SUFFICES ASSUME Init PROVE Kept
  OBVIOUS
<1>1. ASSUME NEW x \in Jobs PROVE JobStands(x) /\ SignalStands(x) /\ OwnedStands(x)
  <2>1. /\ rows[x] = NoJob /\ worker[x] = NoWorker /\ pending[x] = NoPending
        /\ reported[x] = NoResult /\ NoJob.status = "absent"
    BY NoneTyped DEF Init
  <2>2. JobStands(x)
    BY <2>1, Blank DEF JobStands
  <2>3. SignalStands(x) /\ OwnedStands(x)
    BY <2>1, PendingKinds DEF SignalStands, OwnedStands, Asked, Running
  <2> QED BY <2>2, <2>3
<1>2. \A c \in Callers : callers[c].pc = "idle" /\ callers[c].cmd = "none"
  BY DEF Init, NoCall
<1> QED BY <1>1, <1>2 DEF Kept, CallStands, OneStart

\* Every step of commands, workers and the project keeps what is known.
LEMMA NextKept ==
  ASSUME Renderer, Safe, Kept, [Next]_vars
  PROVE  Kept'
<1>1. ASSUME NEW c \in Callers, NEW j \in Jobs,
             \/ Lookup(c, j) \/ (\E kind \in Kinds : Start(c, j, kind))
             \/ Stop(c, j) \/ Retry(c, j)
      PROVE  Kept'
  BY <1>1, LookupStep, StartStep, StopStep, RetryStep
<1>2. ASSUME NEW c \in Callers, Resume(c) PROVE Kept'
  BY <1>2, StartedStep, RegisterStep, ClaimKept, InterruptRefusedStep, RetainStep, SignalStep,
     LookStep, GiveUpStep, SaveReportStep, LatestStep, InstallViewStep, ConcludeStep DEF Resume
<1>3. ASSUME NEW j \in Jobs, Work(j) PROVE Kept'
  BY <1>3, InspectStep, RevalidateStep, RefusedStep, SendKept, RespondStep, AnswerStep,
     CompleteKept, InstallStep, SettleStep DEF Work
<1>4. ASSUME Edit \/ Revoke \/ Reconnect \/ UNCHANGED vars PROVE Kept'
  <2>1. UNCHANGED rows /\ UNCHANGED deskVars
    BY <1>4 DEF Edit, Revoke, Reconnect, vars, actorVars
  <2> QED BY <2>1, RestStep
<1> QED BY <1>1, <1>2, <1>3, <1>4, CloseStep, ArchiveStep, CrashStep DEF Next

\* What is retained can be settled.
LEMMA KeptSettles == ASSUME Safe, Kept PROVE RetainedCanSettle
<1> SUFFICES ASSUME NEW j \in Jobs
             PROVE  /\ pending[j].kind = "terminal" /\ Awaits(HeldOf(rows[j])) =>
                        \E o \in CompleteMemory(rows[j], pending[j].report) : o.code = "ok"
                    /\ pending[j].kind = "install" =>
                        \E o \in InstallMemory(rows[j], project) :
                            o.code \in {"ok", "ContextPolicyChanged"}
  BY DEF RetainedCanSettle
<1>1. /\ Good(rows[j]) /\ PendingP(rows[j], worker[j], pending[j], reported[j])
  BY KnownJob
<1>2. \A row, next : \E o \in Committed(row, next, "ok") : o.code = "ok"
  BY DEF Committed
<1>3. ASSUME pending[j].kind = "terminal", Awaits(HeldOf(rows[j]))
      PROVE  \E o \in CompleteMemory(rows[j], pending[j].report) : o.code = "ok"
  <2>1. /\ rows[j].result = NoResult
        /\ rows[j].status \in {"running", "stopping"} \/ RecoveredClaim(rows[j])
    <3>1. ~Unrun(rows[j])
      BY <1>1, <1>3 DEF PendingP
    <3> QED BY <1>3, <3>1 DEF Awaits, HeldOf, RecoveredClaim, Unrun
  <2>2. DeliveryProved(rows[j].kind, pending[j].report)
    BY <1>1, <1>3 DEF PendingP
  <2> QED BY <1>2, <2>1, <2>2 DEF CompleteMemory
<1>4. ASSUME pending[j].kind = "install"
      PROVE  \E o \in InstallMemory(rows[j], project) : o.code \in {"ok", "ContextPolicyChanged"}
  <2>1. rows[j].status = "completed" /\ rows[j].result # NoResult /\ rows[j].result.valid
    BY <1>1, <1>4, RowFacts DEF PendingP
  <2>2. \E o \in Refused(rows[j], "ContextPolicyChanged") : o.code = "ContextPolicyChanged"
    BY DEF Refused
  <2> QED BY <1>2, <2>1, <2>2 DEF InstallMemory
<1> QED BY <1>3, <1>4

\* The invariant says what the property asks for.
LEMMA KeptPaid == ASSUME Safe, Kept PROVE PaidWorkKept
<1>1. NothingAbandoned
  <2>1. \A j \in Jobs : OwnedStands(j)
    BY DEF Kept
  <2> QED BY <2>1 DEF NothingAbandoned, OwnedStands, Running
<1>2. StopReachesWorker
  <2>1. \A j \in Jobs : SignalStands(j)
    BY DEF Kept
  <2> QED BY <2>1 DEF StopReachesWorker, SignalStands, Asked
<1>3. ReportKept
  BY KnownJob DEF ReportKept, JobP
<1> QED BY <1>1, <1>2, <1>3, KeptSettles DEF PaidWorkKept

\* Nothing the author asked for or paid for gets lost between the workers, the
\* stop registry and the recovery map, when the commands come as
\* ChapterMemory.tsx sends them: for any number of jobs and threads, and any
\* number of edits, revocations and faults.
THEOREM PaidTheorem == ASSUME Renderer PROVE Spec => []PaidWorkKept
<1>1. Init => Safe /\ Kept
  BY InitSafe, InitKept
<1>2. Safe /\ Kept /\ [Next]_vars => (Safe /\ Kept)'
  BY NextSafe, NextKept
<1>3. Safe /\ Kept => PaidWorkKept
  BY KeptPaid
<1> QED BY <1>1, <1>2, <1>3, PTL DEF Spec
=============================================================================
