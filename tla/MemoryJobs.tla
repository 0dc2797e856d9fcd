------------------------------ MODULE MemoryJobs ------------------------------
(***************************************************************************)
(* A refresh of the story memory from the author's request to the          *)
(* installed view: the memory commands of the project actor (MemoryActor)  *)
(* with the desktop threads that call them.  Commands of the renderer run  *)
(* on a thread pool, two of them for one job at the same time if they      *)
(* come so; one worker owns a dispatched job (run_mock, live_memory.rs,    *)
(* http_memory.rs); the recovery map (memory_recovery.rs) keeps what could *)
(* not be saved until the author retries.                                  *)
(*                                                                         *)
(* A call to the actor is one step, and an access to the recovery map or   *)
(* to the stop registry, each under its own lock, is another.  In contrast *)
(* to the discussions no lock is held over a call to the actor.            *)
(***************************************************************************)
EXTENDS MemoryActor, FiniteSets

CONSTANTS
    Jobs,         \* author operations, each of which names one job
    Callers,      \* threads that may execute a command at the same time
    Renderer,     \* commands come as ChapterMemory.tsx sends them, or at will
    BasisLimit,   \* bound: edits of the story
    PolicyLimit,  \* bound: revocations of story context
    FaultLimit    \* bound: failed or uncertain commits and reconnections

ASSUME RendererAssumption == Renderer \in BOOLEAN
ASSUME MemoryBounds ==
    BasisLimit \in Nat /\ PolicyLimit \in Nat /\ FaultLimit \in Nat

NoPending == [kind |-> "none", report |-> NoResult]
ClaimPending == [NoPending EXCEPT !.kind = "claim"]
InstallPending == [NoPending EXCEPT !.kind = "install"]
Terminal(report) == [kind |-> "terminal", report |-> report]

NoWorker == [pc |-> "none", report |-> NoResult]
NoHeld == [status |-> "absent", reason |-> "none", done |-> FALSE]
NoCall == [pc |-> "idle", cmd |-> "none", job |-> "none", kind |-> "local", fresh |-> FALSE,
           held |-> NoHeld, got |-> NoResult]

VARIABLES
    rows,      \* the durable jobs
    project,   \* basis, policy, needs_reopen (fenced) and the connection
    faults,    \* how many faults happened
    callers,   \* commands under way
    registry,  \* jobs with a stop signal in RuntimeState
    signal,    \* the stop signal of the last registration of a job
    worker,    \* the worker of a job
    pending,   \* MemoryRecovery
    sent,      \* history: requests sent to a provider
    reported   \* history: what this process learned from the provider

actorVars == <<rows, project, faults>>
deskVars == <<callers, registry, signal, worker, pending, sent, reported>>
vars == <<actorVars, deskVars>>

-----------------------------------------------------------------------------
\* Calls to the actor.

HeldOf(row) == [status |-> row.status, reason |-> row.reason, done |-> row.result # NoResult]

\* Bound: the disk fails FaultLimit times.
Fault(happened) ==
    \/ happened /\ faults < FaultLimit /\ faults' = faults + 1
    \/ ~happened /\ UNCHANGED faults

Reach(j, outcomes) == Reached(project.connected, rows[j], outcomes)

\* The loop of the actor serves a command and fences an uncertain commit; only
\* the commands that carry the author's access are refused by the fence.
Do(j, o) ==
    /\ rows' = [rows EXCEPT ![j] = o.row]
    /\ project' = IF o.code = "UncertainOutcome"
                  THEN [project EXCEPT !.fenced = TRUE] ELSE project
    /\ Fault(project.connected /\ o.code \in {"UncertainOutcome", "PersistenceUnavailable"})

\* A read of the job, which a broken connection refuses.
Read(succeeds) ==
    /\ succeeds => project.connected
    /\ Fault(project.connected /\ ~succeeds)
    /\ UNCHANGED <<rows, project>>

Call(c, call) == callers' = [callers EXCEPT ![c] = call]
Goto(c, pc) == Call(c, [callers[c] EXCEPT !.pc = pc])
Release(j) == registry' = registry \ {j}
Keep(j, p) == pending' = [pending EXCEPT ![j] = p]

Unsent == [NoResult EXCEPT !.outcome = "failed"]
UnsentStopped == [NoResult EXCEPT !.outcome = "stopped"]

-----------------------------------------------------------------------------
\* start_memory of the desktop.

\* A renderer repeats a start only once the one before it was answered (refresh
\* and reconcile exclude each other, and a reloaded renderer knows no operation
\* of the last), and offers to retry a save only where something is retained or
\* the job is over.
Startable(j) ==
    Renderer => \A c \in Callers : callers[c].cmd = "start" => callers[c].job # j
Retryable(j) == Renderer => pending[j] # NoPending \/ rows[j].status \notin Active

\* http_memory::accept looks for the job of the operation before it takes the
\* lock of the library: only a call that saw none loads the credential.
Lookup(c, j) ==
    /\ callers[c] = NoCall /\ ~project.fenced /\ project.connected /\ Startable(j)
    /\ Call(c, [NoCall EXCEPT !.pc = "accept", !.cmd = "start", !.job = j,
                              !.kind = "http", !.fresh = rows[j] = NoJob])
    /\ UNCHANGED actorVars
    /\ UNCHANGED <<registry, signal, worker, pending, sent, reported>>

\* The job of the operation, new or found.
Start(c, j, kind) ==
    /\ \/ kind # "http" /\ callers[c] = NoCall /\ ~project.fenced /\ Startable(j)
       \/ kind = "http" /\ callers[c].pc = "accept" /\ callers[c].job = j
    /\ \E o \in IF project.fenced THEN Refused(rows[j], "WriterLeaseExpired")
                ELSE Reach(j, StartMemory(rows[j], kind, project)) :
        /\ Do(j, o)
        /\ Call(c, IF o.code # "ok" THEN NoCall
                   ELSE [NoCall EXCEPT !.pc = "started", !.cmd = "start", !.job = j,
                                       !.kind = kind, !.fresh = callers[c].fresh,
                                       !.held = HeldOf(o.row)])
    /\ UNCHANGED <<registry, signal, worker, pending, sent, reported>>

\* claim_pending: an uncertain claim is settled, never repeated; and only a
\* queued job goes on to be dispatched.
Started(c) ==
    /\ callers[c].pc = "started"
    /\ \/ pending[callers[c].job].kind = "claim" /\ Goto(c, "retry")
       \/ /\ pending[callers[c].job].kind # "claim"
          /\ IF callers[c].held.status # "queued" THEN Call(c, NoCall)
             ELSE Goto(c, IF callers[c].kind = "local" THEN "claim" ELSE "register")
    /\ UNCHANGED actorVars
    /\ UNCHANGED <<registry, signal, worker, pending, sent, reported>>

\* register_memory, register_http_memory: one worker for a job.
Register(c) ==
    /\ callers[c].pc = "register"
    /\ LET j == callers[c].job IN
       IF j \in registry
       THEN Call(c, NoCall) /\ UNCHANGED <<registry, signal>>
       ELSE /\ Goto(c, "claim")
            /\ registry' = registry \cup {j}
            /\ signal' = [signal EXCEPT ![j] = FALSE]
    /\ UNCHANGED actorVars /\ UNCHANGED <<worker, pending, sent, reported>>

\* The worker of a dispatched job: a thread or task of its own, or, where none
\* can be started or no credential is held, the call itself records the failure.
Spawned(kind, fresh) ==
    CASE kind = "local" -> {"answer", "complete"}
      [] kind = "codex" -> {"inspect", "complete"}
      [] kind = "http" -> {IF fresh THEN "revalidate" ELSE "complete"}

\* MemoryRecovery::claim: only the first claim of a job launches a worker.
Claim(c) ==
    /\ callers[c].pc = "claim"
    /\ LET j == callers[c].job IN
       \E o \in Reach(j, BeginMemory(rows[j], project)) :
        /\ Do(j, o)
        /\ \/ /\ o.code = "newlyDispatched"
              /\ \E pc \in Spawned(callers[c].kind, callers[c].fresh) :
                  /\ worker' = [worker EXCEPT ![j] =
                        [pc |-> pc, report |-> IF pc = "complete" THEN Unsent ELSE NoResult]]
                  /\ IF pc = "complete" /\ callers[c].kind = "codex" THEN Release(j)
                     ELSE UNCHANGED registry
              /\ Call(c, NoCall)
           \/ /\ o.code # "newlyDispatched" /\ UNCHANGED worker
              /\ IF o.code = "UncertainOutcome"
                 THEN Goto(c, "retain") /\ UNCHANGED registry
                 ELSE IF o.code \in {"MemoryBasisChanged", "ContextPolicyChanged"}
                 THEN Goto(c, "interrupt") /\ UNCHANGED registry
                 ELSE Call(c, NoCall) /\ Release(j)
    /\ UNCHANGED <<signal, pending, sent, reported>>

\* A claim refused for its basis or its policy is interrupted at once.
InterruptRefused(c) ==
    /\ callers[c].pc = "interrupt"
    /\ LET j == callers[c].job IN
       \E o \in Reach(j, InterruptMemoryClaim(rows[j])) :
        /\ Do(j, o)
        /\ IF o.code = "ok" THEN Call(c, NoCall) /\ Release(j)
           ELSE Goto(c, "retain") /\ UNCHANGED registry
    /\ UNCHANGED <<signal, worker, pending, sent, reported>>

\* Mutant: an uncertain claim is forgotten.
RetainClaimForgets(c) ==
    /\ callers[c].pc = "retain"
    /\ Release(callers[c].job) /\ Call(c, NoCall)
    /\ UNCHANGED actorVars /\ UNCHANGED <<signal, worker, pending, sent, reported>>

\* retain_claim does not replace what is retained already.
RetainClaim(c) ==
    /\ callers[c].pc = "retain"
    /\ LET j == callers[c].job IN
       /\ IF pending[j] = NoPending THEN Keep(j, ClaimPending) ELSE UNCHANGED pending
       /\ Release(j)
    /\ Call(c, NoCall)
    /\ UNCHANGED actorVars /\ UNCHANGED <<signal, worker, sent, reported>>

-----------------------------------------------------------------------------
\* stop_memory of the desktop: the durable stop, then, also when its commit is
\* uncertain, the signal.

Stop(c, j) ==
    /\ callers[c] = NoCall /\ ~project.fenced /\ rows[j] # NoJob
    /\ \E o \in Reach(j, StopMemory(rows[j])) :
        /\ Do(j, o)
        /\ Call(c, IF o.code \in {"ok", "UncertainOutcome"}
                   THEN [NoCall EXCEPT !.pc = "signal", !.cmd = "stop", !.job = j] ELSE NoCall)
    /\ UNCHANGED <<registry, signal, worker, pending, sent, reported>>

\* Mutant: a fenced project is signalled after its reconciliation.
SignalReconciled(c) ==
    /\ callers[c].pc = "signal"
    /\ LET j == callers[c].job IN
       signal' = [signal EXCEPT ![j] = @ \/ (j \in registry /\ ~project.fenced)]
    /\ Call(c, NoCall)
    /\ UNCHANGED actorVars /\ UNCHANGED <<registry, worker, pending, sent, reported>>

Signal(c) ==
    /\ callers[c].pc = "signal"
    /\ LET j == callers[c].job IN signal' = [signal EXCEPT ![j] = @ \/ j \in registry]
    /\ Call(c, NoCall)
    /\ UNCHANGED actorVars /\ UNCHANGED <<registry, worker, pending, sent, reported>>

-----------------------------------------------------------------------------
\* MemoryRecovery::retry, for retry_memory_save and for a repeated start.

\* The job is read first.
Retry(c, j) ==
    /\ \/ /\ callers[c] = NoCall /\ ~project.fenced /\ project.connected
          /\ rows[j] # NoJob /\ Retryable(j)
       \/ callers[c].pc = "retry" /\ callers[c].job = j
    /\ \E succeeds \in BOOLEAN :
        /\ Read(succeeds)
        /\ Call(c, IF succeeds
                   THEN [NoCall EXCEPT !.pc = "look", !.job = j, !.held = HeldOf(rows[j]),
                                       !.cmd = IF callers[c] = NoCall THEN "retry" ELSE "start"]
                   ELSE NoCall)
    /\ UNCHANGED <<registry, signal, worker, pending, sent, reported>>

\* Mutant: only an active job awaits its report.
AwaitsActive(held) == ~held.done /\ held.status \in {"running", "stopping"}

\* A retained report can still be recorded for the job as it was read.
Awaits(held) ==
    /\ ~held.done
    /\ \/ held.status \in {"running", "stopping"}
       \/ held.status = "interrupted" /\ held.reason = "recovered_unknown_external_outcome"

\* Then what is retained for it, which decides what is to be done.
Plan(held, kept) ==
    CASE kept.kind = "claim" -> "giveUp"
      [] kept.kind = "terminal" /\ Awaits(held) -> "save"
      [] kept.kind = "terminal" /\ ~Awaits(held) /\ held.status = "interrupted" -> "forget"
      [] kept.kind = "none" /\ held.status = "completed" -> "installFound"
      [] kept.kind = "none" /\ held.status # "completed" -> "done"
      [] OTHER -> "latest"

Look(c) ==
    /\ callers[c].pc = "look"
    /\ LET kept == pending[callers[c].job]
           plan == Plan(callers[c].held, kept)
       IN  Call(c, IF plan = "done" THEN NoCall
                   ELSE [callers[c] EXCEPT !.pc = plan, !.got = kept.report])
    /\ UNCHANGED actorVars
    /\ UNCHANGED <<registry, signal, worker, pending, sent, reported>>

\* An unconfirmed claim ends the job.
GiveUp(c) ==
    /\ callers[c].pc = "giveUp"
    /\ LET j == callers[c].job IN
       \E o \in Reach(j, InterruptMemoryClaim(rows[j])) :
        Do(j, o) /\ IF o.code = "ok" THEN Goto(c, "forget") ELSE Call(c, NoCall)
    /\ UNCHANGED <<registry, signal, worker, pending, sent, reported>>

\* A retained report is recorded.
SaveReport(c) ==
    /\ callers[c].pc = "save"
    /\ LET j == callers[c].job IN
       \E o \in Reach(j, CompleteMemory(rows[j], callers[c].got)) :
        /\ Do(j, o)
        /\ Goto(c, IF o.code # "ok" THEN "keepReport"
                   ELSE IF o.row.status = "completed" THEN "latest" ELSE "forget")
    /\ UNCHANGED <<registry, signal, worker, pending, sent, reported>>

Latest(c) ==
    /\ callers[c].pc = "latest"
    /\ \E succeeds \in BOOLEAN :
        /\ Read(succeeds)
        /\ IF ~succeeds THEN Call(c, NoCall)
           ELSE Goto(c, IF rows[callers[c].job].status = "completed"
                        THEN "installKept" ELSE "forget")
    /\ UNCHANGED <<registry, signal, worker, pending, sent, reported>>

\* A completed job gets its view.
InstallView(c) ==
    /\ callers[c].pc \in {"installKept", "installFound"}
    /\ LET j == callers[c].job IN
       \E o \in Reach(j, InstallMemory(rows[j], project)) :
        /\ Do(j, o)
        /\ IF callers[c].pc = "installFound" THEN Call(c, NoCall)
           ELSE Goto(c, IF o.code \in {"ok", "ContextPolicyChanged"} THEN "forget" ELSE "keepView")
    /\ UNCHANGED <<registry, signal, worker, pending, sent, reported>>

\* clear, retain_terminal or retain_install, whatever is retained by now.
Conclude(c) ==
    /\ callers[c].pc \in {"forget", "keepReport", "keepView"}
    /\ Keep(callers[c].job, CASE callers[c].pc = "forget" -> NoPending
                              [] callers[c].pc = "keepReport" -> Terminal(callers[c].got)
                              [] callers[c].pc = "keepView" -> InstallPending)
    /\ Call(c, NoCall)
    /\ UNCHANGED actorVars /\ UNCHANGED <<registry, signal, worker, sent, reported>>

-----------------------------------------------------------------------------
\* The workers.

Step(j, pc) == worker' = [worker EXCEPT ![j].pc = pc]
Finish(j, report) == worker' = [worker EXCEPT ![j] = [pc |-> "complete", report |-> report]]

\* live_memory::run_live reads the job before any external work.
Inspect(j) ==
    /\ worker[j].pc = "inspect"
    /\ \/ Finish(j, Unsent) /\ UNCHANGED <<registry, signal>>
       \/ /\ project.connected /\ rows[j].status \notin {"running", "stopping"}
          /\ worker' = [worker EXCEPT ![j] = NoWorker]
          /\ Release(j) /\ UNCHANGED signal
       \/ /\ project.connected /\ rows[j].status \in {"running", "stopping"}
          /\ signal' = [signal EXCEPT ![j] = @ \/ rows[j].status = "stopping"]
          /\ IF signal'[j] THEN Finish(j, UnsentStopped) ELSE Step(j, "revalidate")
          /\ UNCHANGED registry
    /\ UNCHANGED actorVars /\ UNCHANGED <<callers, pending, sent, reported>>

\* The policy may have been revoked since the claim: begin_memory of a running
\* job revalidates it.
Revalidate(j) ==
    /\ worker[j].pc = "revalidate"
    /\ \E o \in Reach(j, BeginMemory(rows[j], project)) :
        /\ Do(j, o)
        /\ IF o.code \in {"ok", "newlyDispatched"}
           THEN IF rows[j].kind = "http" /\ signal[j] THEN Finish(j, UnsentStopped)
                ELSE Step(j, "send")
           ELSE IF rows[j].kind = "http" THEN Step(j, "refused") ELSE Finish(j, Unsent)
    /\ UNCHANGED <<callers, registry, signal, pending, sent, reported>>

\* http_memory::run_response tells a stop from a refused revalidation.
RevalidationRefused(j) ==
    /\ worker[j].pc = "refused"
    /\ IF signal[j] \/ (project.connected /\ rows[j].status = "stopping")
       THEN Finish(j, UnsentStopped) ELSE Finish(j, Unsent)
    /\ UNCHANGED actorVars /\ UNCHANGED <<callers, registry, signal, pending, sent, reported>>

\* The provider takes the request, is not there, or is not asked any more.
Send(j) ==
    /\ worker[j].pc = "send"
    /\ \/ Finish(j, Unsent) /\ UNCHANGED sent
       \/ signal[j] /\ Finish(j, UnsentStopped) /\ UNCHANGED sent
       \/ /\ ~signal[j] /\ Step(j, "response")
          /\ sent' = [sent EXCEPT ![j] = @ + 1]
    /\ UNCHANGED actorVars /\ UNCHANGED <<callers, registry, signal, pending, reported>>

\* What a provider may report: a completed run of the Codex process has settled
\* and took its whole input; an API request has no local process.
Reports(kind, stopped) ==
    {r \in [outcome : Outcomes, valid : BOOLEAN, cleanup : {"settled", "unresolved"},
            delivered : BOOLEAN] :
        /\ r.outcome = "completed" => r.delivered /\ r.cleanup = "settled"
        /\ r.outcome = "stopped" => stopped /\ r.cleanup = "settled"
        /\ kind = "http" => r.cleanup = "settled"}

Respond(j) ==
    /\ worker[j].pc = "response"
    /\ \E r \in Reports(rows[j].kind, signal[j]) :
        /\ Finish(j, r)
        /\ reported' = [reported EXCEPT ![j] = r]
    /\ UNCHANGED actorVars /\ UNCHANGED <<callers, registry, signal, pending, sent>>

\* run_mock.
Answer(j) ==
    /\ worker[j].pc = "answer"
    /\ \/ Finish(j, [NoResult EXCEPT !.outcome = "completed", !.valid = TRUE])
       \/ Finish(j, Unsent)
    /\ UNCHANGED actorVars /\ UNCHANGED <<callers, registry, signal, pending, sent, reported>>

\* save_or_retain: the report, then the view, then the recovery map.
Complete(j) ==
    /\ worker[j].pc = "complete"
    /\ \E o \in Reach(j, CompleteMemory(rows[j], worker[j].report)) :
        /\ Do(j, o)
        /\ Step(j, IF o.code # "ok" THEN "keepReport"
                   ELSE IF o.row.status = "completed" THEN "install" ELSE "forget")
    /\ UNCHANGED <<callers, registry, signal, pending, sent, reported>>

Install(j) ==
    /\ worker[j].pc = "install"
    /\ \E o \in Reach(j, InstallMemory(rows[j], project)) :
        /\ Do(j, o)
        /\ Step(j, IF o.code \in {"ok", "ContextPolicyChanged"} THEN "forget" ELSE "keepView")
    /\ UNCHANGED <<callers, registry, signal, pending, sent, reported>>

\* Mutant: a report that could not be recorded is dropped with its worker.
SettleDrops(j) ==
    /\ worker[j].pc \in {"forget", "keepReport", "keepView"}
    /\ worker' = [worker EXCEPT ![j] = NoWorker]
    /\ Release(j)
    /\ UNCHANGED actorVars /\ UNCHANGED <<callers, signal, pending, sent, reported>>

\* The end of the registration follows the recovery map.  (A Codex worker that
\* could not be started had none by then; a second release removes nothing
\* that a worker owns.)
Settle(j) ==
    /\ worker[j].pc \in {"forget", "keepReport", "keepView"}
    /\ Keep(j, CASE worker[j].pc = "forget" -> NoPending
                 [] worker[j].pc = "keepReport" -> Terminal(worker[j].report)
                 [] worker[j].pc = "keepView" -> InstallPending)
    /\ worker' = [worker EXCEPT ![j] = NoWorker]
    /\ Release(j)
    /\ UNCHANGED actorVars /\ UNCHANGED <<callers, signal, sent, reported>>

-----------------------------------------------------------------------------
\* The project under the jobs.

\* The author edits the story.
Edit ==
    /\ ~project.fenced /\ project.basis - project.policy < BasisLimit
    /\ project' = [project EXCEPT !.basis = @ + 1]
    /\ UNCHANGED <<rows, faults>> /\ UNCHANGED deskVars

\* The author revokes story context (context_revoke), which moves both epochs.
Revoke ==
    /\ ~project.fenced /\ project.policy < PolicyLimit
    /\ project' = [project EXCEPT !.policy = @ + 1, !.basis = @ + 1]
    /\ UNCHANGED <<rows, faults>> /\ UNCHANGED deskVars

\* The close of the application interrupts the jobs of its census once no
\* start, no worker and no retained result is left.
CloseInterrupts(j) ==
    /\ \A c \in Callers : callers[c].cmd # "start"
    /\ \A x \in Jobs : worker[x].pc = "none" /\ pending[x] = NoPending
    /\ ~project.fenced /\ rows[j].status \in Active
    /\ \E o \in Reach(j, InterruptMemoryClaim(rows[j])) : Do(j, o)
    /\ UNCHANGED deskVars

\* A renderer reconciles the project.
Reconnect ==
    /\ project.fenced
    /\ \E opened \in BOOLEAN :
        /\ Fault(~opened)
        /\ project' = [project EXCEPT !.fenced = ~opened, !.connected = opened]
    /\ UNCHANGED rows /\ UNCHANGED deskVars

Recovered ==
    /\ rows' = [j \in Jobs |-> RecoverInterruptedMemory(rows[j])]
    /\ project' = [project EXCEPT !.fenced = FALSE, !.connected = TRUE]
    /\ UNCHANGED faults

\* The project is closed (archived) and opened again in one process.  Every
\* worker and command holds the session, and with it the lock of the folder.
Archive ==
    /\ \A c \in Callers : callers[c] = NoCall
    /\ \A j \in Jobs : worker[j].pc = "none"
    /\ Recovered
    /\ UNCHANGED deskVars

\* The process dies and the project is opened by the next one.
Crash ==
    /\ Recovered
    /\ callers' = [c \in Callers |-> NoCall]
    /\ registry' = {}
    /\ signal' = [j \in Jobs |-> FALSE]
    /\ worker' = [j \in Jobs |-> NoWorker]
    /\ pending' = [j \in Jobs |-> NoPending]
    /\ reported' = [j \in Jobs |-> NoResult]
    /\ UNCHANGED sent

-----------------------------------------------------------------------------

Init ==
    /\ rows = [j \in Jobs |-> NoJob]
    /\ project = [basis |-> 0, policy |-> 0, fenced |-> FALSE, connected |-> TRUE]
    /\ faults = 0
    /\ callers = [c \in Callers |-> NoCall]
    /\ registry = {}
    /\ signal = [j \in Jobs |-> FALSE]
    /\ worker = [j \in Jobs |-> NoWorker]
    /\ pending = [j \in Jobs |-> NoPending]
    /\ sent = [j \in Jobs |-> 0]
    /\ reported = [j \in Jobs |-> NoResult]

Work(j) ==
    \/ Inspect(j) \/ Revalidate(j) \/ RevalidationRefused(j) \/ Send(j) \/ Respond(j)
    \/ Answer(j) \/ Complete(j) \/ Install(j) \/ Settle(j)

Resume(c) ==
    \/ Started(c) \/ Register(c) \/ Claim(c) \/ InterruptRefused(c) \/ RetainClaim(c)
    \/ Signal(c)
    \/ Look(c) \/ GiveUp(c) \/ SaveReport(c) \/ Latest(c) \/ InstallView(c) \/ Conclude(c)

Next ==
    \/ \E c \in Callers, j \in Jobs :
        \/ Lookup(c, j) \/ (\E kind \in Kinds : Start(c, j, kind))
        \/ Stop(c, j) \/ Retry(c, j)
    \/ \E c \in Callers : Resume(c)
    \/ \E j \in Jobs : Work(j) \/ CloseInterrupts(j)
    \/ Edit \/ Revoke \/ Reconnect \/ Archive \/ Crash

Spec == Init /\ [][Next]_vars

\* A worker goes on (a provider call has a deadline), and so does a command.
Fairness ==
    /\ \A j \in Jobs : WF_vars(Work(j))
    /\ \A c \in Callers : WF_vars(Resume(c))
FairSpec == Spec /\ Fairness

-----------------------------------------------------------------------------
\* Properties.

Statuses == Active \cup {"stopped", "completed", "failed", "interrupted"}
Reasons == {"none", "author_stopped", "provider_stopped", "cleanup_unresolved",
            "recovered_unknown_external_outcome", "dispatch_outcome_unknown"}
Results == [outcome : Outcomes \cup {"none"}, valid : BOOLEAN,
            cleanup : {"settled", "unresolved"}, delivered : BOOLEAN]
JobRows == [status : Statuses \cup {"absent"}, kind : Kinds, basis : Nat, policy : Nat,
            dispatch : {"pending", "dispatched"}, reason : Reasons, result : Results,
            view : [candidate : Results, current : BOOLEAN]]

\* Type of the state.
TypeOK ==
    /\ rows \in [Jobs -> JobRows]
    /\ project \in [basis : 0..(BasisLimit + PolicyLimit), policy : 0..PolicyLimit,
                    fenced : BOOLEAN, connected : BOOLEAN]
    /\ faults \in 0..FaultLimit
    /\ registry \subseteq Jobs /\ signal \in [Jobs -> BOOLEAN]
    /\ \A j \in Jobs : worker[j].report \in Results /\ reported[j] \in Results
    /\ \A j \in Jobs : pending[j].kind \in {"none", "claim", "terminal", "install"}
    /\ \A j \in Jobs : pending[j].report \in Results
    /\ \A c \in Callers : callers[c].got \in Results /\ callers[c].job \in Jobs \cup {"none"}

\* Every job that the commands leave behind, in any order and with any failure
\* between them, is one that the readers and the validators of a backup accept
\* (validate_memory_lifecycle, validate_memory_job_record): a refused job would
\* make its document's memory unreadable and the backup of the project fail.
EveryRecordLegal == ValidateMemoryStorage(rows)

\* One author request costs at most one provider request, over repeated
\* starts, uncertain claims, retried saves and restarts.
SentOnce == \A j \in Jobs : sent[j] <= 1

\* The jobs stand: their rows have their types, a reader and a backup accept
\* every one of them, and each was paid for at most once.
JobsStand == TypeOK /\ EveryRecordLegal /\ SentOnce

\* What a step may never do to a job (stop_memory, complete_memory,
\* install_memory, recover_interrupted_memory): one that was asked to stop or
\* was interrupted never becomes a completed one and never installs a view,
\* although its complete result may still be recorded; and what a job recorded
\* is never replaced, not by a late worker, a retried save or the next opening.
Ended == {"stopping", "stopped", "interrupted"}
JobHistoryStands ==
    [][\A j \in Jobs :
        /\ rows[j].status \in Ended =>
            rows'[j].status \in Ended /\ rows'[j].view = NoView
        /\ rows[j].result # NoResult =>
            rows'[j].result = rows[j].result /\ rows'[j].status = rows[j].status
        /\ rows[j].view # NoView => rows'[j].view = rows[j].view]_vars

\* A dispatched job is never abandoned: a worker will end it, or an entry of the
\* recovery map lets the author end it, or a command is about to make that entry.
NothingAbandoned ==
    \A j \in Jobs : rows[j].status \in {"running", "stopping"} =>
        \/ worker[j].pc # "none" \/ pending[j] # NoPending
        \/ \E c \in Callers : callers[c].job = j /\ callers[c].pc \in {"interrupt", "retain"}

\* What is retained can be settled: with a working disk no retained report is
\* refused for as long as its job awaits one, and no retained installation but
\* for a changed policy.
RetainedCanSettle ==
    project.connected => \A j \in Jobs :
        /\ pending[j].kind = "terminal" /\ Awaits(HeldOf(rows[j])) =>
            \E o \in CompleteMemory(rows[j], pending[j].report) : o.code = "ok"
        /\ pending[j].kind = "install" =>
            \E o \in InstallMemory(rows[j], project) : o.code \in {"ok", "ContextPolicyChanged"}

\* A Stop that was answered has reached the worker before it sends: its signal
\* is set although the commit may have been uncertain.
StopReachesWorker ==
    \A j \in Jobs :
        (/\ rows[j].status = "stopping"
         /\ worker[j].pc \in {"inspect", "revalidate", "send", "response"}
         /\ \A c \in Callers : callers[c].pc # "signal") => signal[j]

\* What the provider reported is recorded or retained until it is, over failed
\* and uncertain writes, interruptions of the claim and retries: "Any failed
\* local step remains retryable with the exact same payload".
ReportKept ==
    \A j \in Jobs : reported[j] # NoResult =>
        \/ rows[j].result = reported[j]
        \/ worker[j].report = reported[j]
        \/ pending[j] = Terminal(reported[j])

\* Nothing the author asked for or paid for gets lost between the workers, the
\* stop registry and the recovery map.
PaidWorkKept ==
    NothingAbandoned /\ RetainedCanSettle /\ StopReachesWorker /\ ReportKept

\* A dispatched job ends, or waits for the author.
Settles ==
    \A j \in Jobs : rows[j].status \in {"running", "stopping"} ~>
        (rows[j].status \notin {"running", "stopping"} \/ pending[j] # NoPending)

=============================================================================
