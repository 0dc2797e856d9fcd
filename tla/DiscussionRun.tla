----------------------------- MODULE DiscussionRun -----------------------------
(***************************************************************************)
(* A model request from Send to its saved end: the discussion commands of  *)
(* the project actor (DiscussionActor) with the desktop threads that call  *)
(* them.  Start commands run on a thread pool and may be repeated after a  *)
(* lost answer; one worker thread owns a claimed run; the stop registry    *)
(* (provider_runtime.rs) carries the author's Stop to it; the recovery map *)
(* (discussion_recovery.rs) keeps what could not be saved until the author *)
(* retries.  The binding that is frozen with a run names its worker: the   *)
(* local test model (author_start.rs), a Codex or a Claude process         *)
(* (live_discussion.rs, claude_live_discussion.rs), a turn of the shared   *)
(* Codex app server (app_server_discussion.rs, codex_app_server) or an     *)
(* HTTP endpoint (http_discussion.rs).                                     *)
(*                                                                         *)
(* A call to the actor is one step: the actor serves one command at a time *)
(* and its caller waits.  Everything between two calls of a thread may     *)
(* interleave with the other threads.                                      *)
(***************************************************************************)
EXTENDS DiscussionActor, FiniteSets

CONSTANTS
    Runs,        \* author operations, each of which names one run
    Bindings,    \* the providers that a run may be bound to
    Callers,     \* threads that may execute a start command at the same time
    MaxText,     \* the output limit of a response, in chunks
    EpochLimit,  \* bound: context epochs
    FaultLimit   \* bound: failed or uncertain commits and failed reads

ASSUME BindingsAssumption ==
    Bindings \subseteq {"mock", "codex", "claude", "app_server", "http"}
ASSUME BoundsAssumption ==
    MaxText \in Nat \ {0} /\ EpochLimit \in Nat /\ FaultLimit \in Nat

NoSave == [kind |-> "none", report |-> NoReport]
NoHeld == [status |-> "absent", seq |-> 0, out |-> 0]
NoWorker == [pc |-> "none", held |-> NoHeld, text |-> 0, broken |-> FALSE,
             limited |-> FALSE, save |-> NoSave]
NoCall == [pc |-> "idle", run |-> "none", fresh |-> FALSE]
NoWire == [sent |-> 0, turn |-> "none", hook |-> "none"]

VARIABLES
    rows,      \* the durable runs
    project,   \* context epoch, needs_reopen (fenced), the connection, and
               \* the frozen binding of every run
    faults,    \* how many faults happened
    callers,   \* start commands under way
    registry,  \* runs with a stop signal in RuntimeState.stops
    signal,    \* the stop signal of the last registration of a run
    worker,    \* the worker thread of a run
    pending,   \* DiscussionRecovery
    retry,     \* a "retry saving" command that has read the run
    stopper,   \* a stop command between its commit and its signal
    wire       \* of every run: the requests sent (history), its row of
               \* codex_app_server_dispatches (turn), and the callback
               \* thread of the app server that is under way (hook)

actorVars == <<rows, project, faults>>
deskVars == <<callers, registry, signal, worker, pending, retry, stopper, wire>>
vars == <<actorVars, deskVars>>

-----------------------------------------------------------------------------
\* Calls to the actor.

HeldOf(row) == [status |-> row.status, seq |-> row.seq, out |-> row.out]

Bound(r) == project.binding[r]
Live == {r \in Runs : Bound(r) # "mock"}

\* Bound: the disk and the process fail FaultLimit times.
Fault(happened) ==
    \/ happened /\ faults < FaultLimit /\ faults' = faults + 1
    \/ ~happened /\ UNCHANGED faults

Reach(r, outcomes) == Reached(project.connected, rows[r], outcomes)

\* The loop of the actor serves a command and fences an uncertain commit: the
\* access is dropped until a renderer reconciles.  Commands of a worker carry
\* no access, and the fence does not refuse them.
Answer(code) ==
    /\ project' = IF code = "UncertainOutcome"
                  THEN [project EXCEPT !.fenced = TRUE] ELSE project
    /\ Fault(project.connected /\ code \in {"UncertainOutcome", "PersistenceUnavailable"})

Do(r, o) == rows' = [rows EXCEPT ![r] = o.row] /\ Answer(o.code)

\* What the actor thinks of the evidence of a report.
Stands(r, report) == Bound(r) = "app_server" => DeliveryStands(wire[r].turn, report)

\* PendingSave::attempt: the one command that stores an outcome, chosen from
\* the run as it was read.
Attempt(r, save, held) ==
    IF held.status \notin Active THEN Refused(rows[r], "ok")
    ELSE IF save.kind = "provider"
    THEN IF save.report.text < held.out THEN Refused(rows[r], "ProviderOutputMismatch")
         ELSE Reach(r, SettleProvider(rows[r], Stands(r, save.report), MaxText,
                                      [save.report EXCEPT !.seq = held.seq]))
    ELSE IF held.status = "stopping" THEN Reach(r, SettleStop(rows[r], held.seq, held.out))
    ELSE IF save.kind = "complete"
    THEN Reach(r, FinishDiscussion(rows[r], r \in Live, save.report.seq, save.report.text))
    ELSE Reach(r, FailDiscussionRun(rows[r], <<"fail", held.seq>>, held.seq))

-----------------------------------------------------------------------------
\* The author's commands.

FailSave == [kind |-> "fail", report |-> NoReport]
ProviderSave(status, text, cleanup, evidence) ==
    [kind |-> "provider", report |-> [status |-> status, seq |-> 0, text |-> text,
                                      cleanup |-> cleanup, evidence |-> evidence]]
Unsent == ProviderSave("failed", 0, "settled", "none")
UnsentStopped == ProviderSave("stopped", 0, "settled", "none")

\* start_author of Claude and of an HTTP endpoint looks for the saved run first.
\* Only a caller that found none is fresh: it brings the connection and the key
\* that a repeated start must not load again.
LooksFirst(r, fresh) == rows[r] = NoRun \/ Bound(r) \notin {"claude", "http"} => fresh

\* start_discussion of the desktop: queue the run, or find the one this
\* operation queued before; only a queued run goes on to be dispatched.
Start(c, r) ==
    /\ callers[c] = NoCall /\ ~project.fenced
    /\ \E o \in Reach(r, StartDiscussion(rows[r], project.epoch)), fresh \in BOOLEAN :
        /\ LooksFirst(r, fresh)
        /\ Do(r, o)
        /\ callers' = IF o.code # "ok" \/ o.row.status # "queued" THEN callers
                      ELSE [callers EXCEPT ![c] =
                            [pc |-> IF r \in Live THEN "register" ELSE "claim", run |-> r,
                             fresh |-> fresh]]
    /\ UNCHANGED <<registry, signal, worker, pending, retry, stopper, wire>>

\* Mutant: a second registration replaces the first.
RegisterAlways(c) ==
    /\ callers[c].pc = "register"
    /\ callers' = [callers EXCEPT ![c].pc = "claim"]
    /\ registry' = registry \cup {callers[c].run}
    /\ signal' = [signal EXCEPT ![callers[c].run] = FALSE]
    /\ UNCHANGED actorVars /\ UNCHANGED <<worker, pending, retry, stopper, wire>>

\* DesktopProviders::register: one stop signal, and one start, for a run.
Register(c) ==
    /\ callers[c].pc = "register"
    /\ LET r == callers[c].run IN
       IF r \in registry
       THEN /\ callers' = [callers EXCEPT ![c] = NoCall]
            /\ UNCHANGED <<registry, signal>>
       ELSE /\ callers' = [callers EXCEPT ![c].pc = "claim"]
            /\ registry' = registry \cup {r}
            /\ signal' = [signal EXCEPT ![r] = FALSE]
    /\ UNCHANGED actorVars /\ UNCHANGED <<worker, pending, retry, stopper, wire>>

\* finish_unstarted: the receipt of a packet that cannot be prepared again is
\* only a failure.
Unstarted == {Unsent, FailSave}

\* The worker thread starts, or cannot be spawned and its failure is saved.
\* Without its connection a Claude request is rejected, and an HTTP request is
\* sealed as never sent (finish_unstarted).
Spawned(r, row, fresh) ==
    LET at(pc, save) == [NoWorker EXCEPT !.pc = pc, !.held = HeldOf(row), !.save = save] IN
    CASE Bound(r) = "mock" -> {at("deliver", NoSave), at("store", FailSave)}
      [] Bound(r) = "claude" ->
            {at("reject", NoSave)} \cup (IF fresh THEN {at("spawned", NoSave)} ELSE {})
      [] Bound(r) = "http" ->
            IF fresh THEN {at("http", NoSave)} ELSE {at("save", save) : save \in Unstarted}
      [] OTHER -> {at("spawned", NoSave), at("reread", Unsent)}

\* Mutant: a claim whose outcome is unknown is forgotten.
ClaimedForgets(r, o, fresh) ==
    IF o.code = "ok" THEN {[worker |-> w, save |-> NoSave] : w \in Spawned(r, o.row, fresh)}
    ELSE {[worker |-> worker[r], save |-> NoSave]}

\* What DiscussionRecovery::claim makes of the answer: a worker; nothing, when
\* the run is known not to be dispatchable; or an outcome to be checked.
Claimed(r, o, fresh) ==
    IF o.code = "ok" THEN {[worker |-> w, save |-> NoSave] : w \in Spawned(r, o.row, fresh)}
    ELSE IF o.code \in {"RunAlreadyStarted", "RunSealed", "ContextChanged"}
    THEN {[worker |-> worker[r], save |-> NoSave]}
    ELSE {[worker |-> worker[r], save |-> FailSave]}

\* claim, and the dispatch that follows it, under the lock of the recovery map.
Claim(c) ==
    /\ callers[c].pc = "claim"
    /\ LET r == callers[c].run IN
       \/ /\ pending[r] # NoSave
          /\ registry' = registry \ {r}
          /\ UNCHANGED actorVars /\ UNCHANGED <<worker, pending>>
       \/ /\ pending[r] = NoSave
          /\ \E o \in Reach(r, BeginDiscussionRun(rows[r], project.epoch)) :
             \E next \in Claimed(r, o, callers[c].fresh) :
                /\ Do(r, o)
                /\ worker' = [worker EXCEPT ![r] = next.worker]
                /\ pending' = [pending EXCEPT ![r] = next.save]
                /\ registry' = IF o.code = "ok" /\ (next.worker.pc = "spawned" \/ Bound(r) = "http")
                               THEN registry ELSE registry \ {r}
    /\ callers' = [callers EXCEPT ![c] = NoCall]
    /\ UNCHANGED <<signal, retry, stopper, wire>>

\* stop_discussion of the desktop: the durable stop first, then, also when its
\* commit is uncertain, the signal.
Stop(r) ==
    /\ ~stopper[r] /\ ~project.fenced /\ rows[r] # NoRun
    /\ \E o \in Reach(r, StopDiscussion(rows[r])) :
        /\ Do(r, o)
        /\ stopper' = [stopper EXCEPT ![r] = o.code \in {"ok", "UncertainOutcome"}]
    /\ UNCHANGED <<callers, registry, signal, worker, pending, retry, wire>>

\* Mutant: the signal is kept for acknowledged stops.
SignalAcknowledged(r) ==
    /\ stopper[r]
    /\ stopper' = [stopper EXCEPT ![r] = FALSE]
    /\ signal' = [signal EXCEPT ![r] = @ \/ (r \in registry /\ ~project.fenced)]
    /\ UNCHANGED actorVars /\ UNCHANGED <<callers, registry, worker, pending, retry, wire>>

\* DesktopProviders::stop.
Signal(r) ==
    /\ stopper[r]
    /\ stopper' = [stopper EXCEPT ![r] = FALSE]
    /\ signal' = [signal EXCEPT ![r] = @ \/ r \in registry]
    /\ UNCHANGED actorVars /\ UNCHANGED <<callers, registry, worker, pending, retry, wire>>

\* DiscussionRecovery::retry reads the run with the author's access before it
\* takes the lock of the map.
RetryRead(r) ==
    /\ retry[r] = NoHeld /\ ~project.fenced /\ project.connected /\ rows[r] # NoRun
    /\ retry' = [retry EXCEPT ![r] = HeldOf(rows[r])]
    /\ UNCHANGED actorVars
    /\ UNCHANGED <<callers, registry, signal, worker, pending, stopper, wire>>

\* Then it stores the retained outcome, or says that the run is still going.
RetryStore(r) ==
    /\ retry[r] # NoHeld
    /\ \/ /\ pending[r] = NoSave
          /\ UNCHANGED actorVars /\ UNCHANGED pending
       \/ /\ pending[r] # NoSave
          /\ \E o \in Attempt(r, pending[r], retry[r]) :
              /\ Do(r, o)
              /\ pending' = IF o.code = "ok" THEN [pending EXCEPT ![r] = NoSave] ELSE pending
    /\ retry' = [retry EXCEPT ![r] = NoHeld]
    /\ UNCHANGED <<callers, registry, signal, worker, stopper, wire>>

\* The close of the application interrupts the jobs of its census once no
\* start, no worker and no retained result is left (CloseCoordinator).
Interrupt(r) ==
    /\ \A c \in Callers : callers[c] = NoCall
    /\ \A x \in Runs : worker[x].pc = "none" /\ pending[x] = NoSave
    /\ ~project.fenced /\ rows[r].status \in Active
    /\ \E o \in Reach(r, InterruptDiscussion(rows[r])) : Do(r, o)
    /\ UNCHANGED deskVars

-----------------------------------------------------------------------------
\* The worker of a live run: live_discussion::run_live, and what the workers of
\* the other providers share with it.

Step(r, w) == worker' = [worker EXCEPT ![r] = w]

\* The thread returns, and its Registration is dropped.
End(r, kept) ==
    /\ Step(r, NoWorker)
    /\ registry' = registry \ {r}
    /\ pending' = IF kept = NoSave THEN pending ELSE [pending EXCEPT ![r] = kept]

\* save: the run is read again before its outcome is stored, but by HTTP.
ToSave(r, save) ==
    /\ Step(r, [worker[r] EXCEPT !.pc = IF Bound(r) = "http" THEN "save" ELSE "reread",
                                 !.save = save])
    /\ UNCHANGED <<registry, pending>>

\* A request that was not sent: Claude has a rejection of its own.
ToUnsent(r) ==
    IF Bound(r) = "claude"
    THEN Step(r, [worker[r] EXCEPT !.pc = "reject"]) /\ UNCHANGED <<registry, pending>>
    ELSE ToSave(r, Unsent)

\* The saved request is validated and the run read again before any external
\* work.
Check(r) ==
    /\ worker[r].pc = "spawned"
    /\ \/ /\ ToUnsent(r) /\ UNCHANGED signal
       \/ /\ project.connected /\ rows[r].status \notin {"running", "stopping"}
          /\ End(r, NoSave) /\ UNCHANGED signal
       \/ /\ project.connected /\ rows[r].status \in {"running", "stopping"}
          /\ signal' = [signal EXCEPT ![r] = @ \/ rows[r].status = "stopping"]
          /\ IF signal'[r] THEN ToSave(r, UnsentStopped)
             ELSE /\ Step(r, [worker[r] EXCEPT !.pc = "starting", !.held = HeldOf(rows[r])])
                  /\ UNCHANGED <<registry, pending>>
    /\ UNCHANGED actorVars /\ UNCHANGED <<callers, retry, stopper, wire>>

\* CodexConnection::start_bound, then the check of the runner thread before it
\* spawns the process.
StartBound(r) ==
    /\ worker[r].pc = "starting" /\ Bound(r) # "app_server"
    /\ \/ ToUnsent(r)
       \/ ToSave(r, UnsentStopped) /\ signal[r]
       \/ /\ ~signal[r]
          /\ Step(r, [worker[r] EXCEPT !.pc = "sending"])
          /\ UNCHANGED <<registry, pending>>
    /\ UNCHANGED actorVars /\ UNCHANGED <<callers, signal, retry, stopper, wire>>

\* The process takes the packet, or is not there.
Send(r) ==
    /\ worker[r].pc = "sending"
    /\ \/ ToSave(r, Unsent) /\ UNCHANGED wire
       \/ /\ Step(r, [worker[r] EXCEPT !.pc = "streaming"])
          /\ wire' = [wire EXCEPT ![r].sent = @ + 1]
          /\ UNCHANGED <<registry, pending>>
    /\ UNCHANGED actorVars /\ UNCHANGED <<callers, signal, retry, stopper>>

\* AssistantDelta: text over the limit stops the process; text that arrives
\* after a stop or a failed write is only observed, and the app server's worker
\* keeps what it observes for its next flush.  Once stopped, the HTTP worker no
\* longer looks at the limit.
DeltaUnsaved(r) ==
    /\ worker[r].pc = "streaming"
    /\ \/ /\ worker[r].text = MaxText /\ (Bound(r) = "http" => ~signal[r])
          /\ Step(r, [worker[r] EXCEPT !.limited = TRUE])
          /\ signal' = [signal EXCEPT ![r] = TRUE]
       \/ /\ worker[r].text < MaxText
          /\ worker[r].broken \/ signal[r] \/ Bound(r) = "app_server"
          /\ Step(r, [worker[r] EXCEPT !.text = @ + 1])
          /\ UNCHANGED signal
    /\ UNCHANGED actorVars /\ UNCHANGED <<callers, registry, pending, retry, stopper, wire>>

\* Mutant: a chunk counts as observed once its write is acknowledged.
ObservedWhenSaved(b, w, o) ==
    IF o.code = "ok" THEN [w EXCEPT !.text = @ + 1, !.held = HeldOf(o.row)]
    ELSE [w EXCEPT !.broken = o.code # "RunStopping"]

\* The chunk is observed first; a refused write stops the process, and every
\* refusal but RunStopping leaves the saving of the rest to the author.  HTTP
\* remembers the stop in its copy of the run.
Observed(b, w, o) ==
    IF o.code = "ok" THEN [w EXCEPT !.text = @ + 1, !.held = HeldOf(o.row)]
    ELSE [w EXCEPT !.text = @ + 1, !.broken = o.code # "RunStopping",
                   !.held.status = IF b = "http" /\ o.code = "RunStopping"
                                   THEN "stopping" ELSE @]

\* append_discussion_output of the next n chunks that the worker holds.
AppendNext(r, n) ==
    Reach(r, AppendOutput(rows[r], worker[r].held.seq, <<"part", worker[r].held.seq>>, n))

Delta(r) ==
    /\ worker[r].pc = "streaming" /\ Bound(r) # "app_server"
    /\ worker[r].text < MaxText /\ ~worker[r].broken /\ ~signal[r]
    /\ \E o \in AppendNext(r, 1) :
        /\ Do(r, o)
        /\ Step(r, Observed(Bound(r), worker[r], o))
        /\ signal' = [signal EXCEPT ![r] = o.code # "ok"]
    /\ UNCHANGED <<callers, registry, pending, retry, stopper, wire>>

\* Finished: the result extends what was observed (or is replaced by it), is
\* cut at the limit, and is not called stopped when a failed write stopped it.
ResultOf(w, status, final, cleanup, evidence) ==
    LET limited == w.limited \/ final > MaxText
        kind == IF limited \/ (w.broken /\ status = "stopped") THEN "failed" ELSE status
    IN  ProviderSave(kind, IF limited THEN MaxText ELSE final, cleanup, evidence)

\* claude_live_discussion::classified_result: a completed response of another
\* model than the one asked for has failed.
Classified(b, status, confirmed) ==
    IF b = "claude" /\ status = "completed" /\ ~confirmed THEN "failed" ELSE status

\* The endings of a process (execute), with the part of the packet that it took.
ProcessEnds(r, status, final, cleanup, evidence) ==
    /\ status = "completed" => final > 0 /\ cleanup = "settled" /\ evidence = "delivered"
    /\ status = "stopped" => signal[r] /\ cleanup = "settled"

Finished(r) ==
    /\ worker[r].pc = "streaming" /\ Bound(r) \in {"codex", "claude"}
    /\ \E status \in {"completed", "stopped", "failed"}, final \in worker[r].text..(MaxText + 1),
          cleanup \in {"settled", "unresolved"}, confirmed \in BOOLEAN,
          evidence \in {"none", "delivered"} :
        /\ ProcessEnds(r, status, final, cleanup, evidence)
        /\ LET save == ResultOf(worker[r], Classified(Bound(r), status, confirmed), final,
                                cleanup, evidence)
           IN  IF worker[r].broken THEN End(r, save) ELSE ToSave(r, save)
    /\ UNCHANGED actorVars /\ UNCHANGED <<callers, signal, retry, stopper, wire>>

\* The event stream broke: nothing more is known of the process.
StreamLost(r) ==
    /\ worker[r].pc = "streaming" /\ Bound(r) \in {"codex", "claude"}
    /\ ToSave(r, ProviderSave("failed", worker[r].text, "unresolved", "none"))
    /\ signal' = [signal EXCEPT ![r] = TRUE]
    /\ UNCHANGED actorVars /\ UNCHANGED <<callers, retry, stopper, wire>>

\* The run is read again; if it cannot be read, the worker's copy will do.
Reread(r) ==
    /\ worker[r].pc = "reread"
    /\ \E read \in BOOLEAN :
        /\ read => project.connected
        /\ Fault(project.connected /\ ~read)
        /\ Step(r, [worker[r] EXCEPT !.pc = "save",
                                     !.held = IF read THEN HeldOf(rows[r]) ELSE @])
    /\ UNCHANGED <<rows, project, callers, registry, signal, pending, retry, stopper, wire>>

\* Mutant: an outcome that could not be stored is dropped with its thread.
SaveReportDrops(r) ==
    /\ worker[r].pc = "save"
    /\ \E o \in Attempt(r, worker[r].save, worker[r].held) : Do(r, o) /\ End(r, NoSave)
    /\ UNCHANGED <<callers, signal, retry, stopper, wire>>

\* save_report: store the outcome, or retain it.
SaveReport(r) ==
    /\ worker[r].pc = "save"
    /\ \E o \in Attempt(r, worker[r].save, worker[r].held) :
        Do(r, o) /\ End(r, IF o.code = "ok" THEN NoSave ELSE worker[r].save)
    /\ UNCHANGED <<callers, signal, retry, stopper, wire>>

-----------------------------------------------------------------------------
\* The worker of Claude: a request that was not sent is failed without a
\* receipt (save_local_failure).

Reject(r) ==
    /\ worker[r].pc = "reject"
    /\ \E o \in Reach(r, FailDiscussionRun(rows[r], <<"rejected">>, worker[r].held.seq)) :
        /\ Do(r, o)
        /\ IF o.code = "ok" THEN End(r, NoSave)
           ELSE /\ Step(r, [worker[r] EXCEPT !.pc = "rejected"])
                /\ UNCHANGED <<registry, pending>>
    /\ UNCHANGED <<callers, signal, retry, stopper, wire>>

\* The run is read again, and a stop that came first is settled.
Rejected(r) ==
    /\ worker[r].pc = "rejected"
    /\ \E read \in BOOLEAN :
        /\ read => project.connected
        /\ Fault(project.connected /\ ~read)
        /\ IF read /\ rows[r].status = "stopping"
           THEN /\ Step(r, [worker[r] EXCEPT !.pc = "save", !.held = HeldOf(rows[r]),
                                             !.save = FailSave])
                /\ UNCHANGED <<registry, pending>>
           ELSE End(r, FailSave)
    /\ UNCHANGED <<rows, project, callers, signal, retry, stopper, wire>>

-----------------------------------------------------------------------------
\* The worker of an HTTP endpoint: http_discussion::run_response around
\* OpenAiCompatibleAdapter::stream_packet_async.

\* The request is prepared and submitted, or fails or is stopped before it is.
HttpSend(r) ==
    /\ worker[r].pc = "http"
    /\ \/ /\ \E save \in {FailSave, Unsent, UnsentStopped} :
                (save = UnsentStopped => signal[r]) /\ ToSave(r, save)
          /\ UNCHANGED wire
       \/ /\ ~signal[r]
          /\ Step(r, [worker[r] EXCEPT !.pc = "streaming"])
          /\ wire' = [wire EXCEPT ![r].sent = @ + 1]
          /\ UNCHANGED <<registry, pending>>
    /\ UNCHANGED actorVars /\ UNCHANGED <<callers, signal, retry, stopper>>

\* The report of a response: only a failed one is cut at the limit, and a
\* refused write that found the run stopping makes it a stopped one.
HttpResult(w, status, final, evidence) ==
    LET kind == IF status # "completed" /\ (w.limited \/ w.broken) THEN "failed" ELSE status
        text == IF status # "completed" /\ final > MaxText THEN MaxText ELSE final
    IN  ProviderSave(IF w.held.status = "stopping" THEN "stopped" ELSE kind, text, "settled",
                     evidence)

\* How the parsed stream ends: with text and [DONE], an error or the stop.  What
\* the last bytes of the connection held after a stop was still parsed.
StreamEnds(r, status, final, evidence) ==
    /\ status = "completed" => final > 0
    /\ status = "stopped" => signal[r]
    /\ final > worker[r].text => signal[r]
    /\ worker[r].limited => final = MaxText + 1
    /\ evidence = "submitted" => final = 0

HttpFinished(r) ==
    /\ worker[r].pc = "streaming" /\ Bound(r) = "http"
    /\ \E status \in {"completed", "stopped", "failed"}, final \in worker[r].text..(MaxText + 1),
          evidence \in {"submitted", "delivered"} :
        /\ StreamEnds(r, status, final, evidence)
        /\ ToSave(r, HttpResult(worker[r], status, final, evidence))
    /\ UNCHANGED actorVars /\ UNCHANGED <<callers, signal, retry, stopper, wire>>

-----------------------------------------------------------------------------
\* The worker of the app server: app_server_discussion::run_live around the
\* driver of the shared process (codex_app_server/runtime.rs).

AppServerEnds(r, status, cleanup, evidence) ==
    ToSave(r, ProviderSave(status, 0, cleanup, evidence))

\* thread/start: refused, answered, or the process is gone.
StartThread(r) ==
    /\ worker[r].pc = "starting" /\ Bound(r) = "app_server"
    /\ \/ ToSave(r, Unsent) /\ UNCHANGED wire
       \/ AppServerEnds(r, "stopped", "settled", "none") /\ UNCHANGED wire
       \/ AppServerEnds(r, "failed", "unresolved", "none") /\ UNCHANGED wire
       \/ /\ Step(r, [worker[r] EXCEPT !.pc = "claiming"])
          /\ wire' = [wire EXCEPT ![r].hook = "claim"]
          /\ UNCHANGED <<registry, pending>>
    /\ UNCHANGED actorVars /\ UNCHANGED <<callers, signal, retry, stopper>>

\* Where the answer of the claim leads a worker that still waits for it.
AfterClaim(r, code) ==
    IF worker[r].pc # "claiming" THEN UNCHANGED <<worker, registry, pending>>
    ELSE
    CASE code = "RequestStopped" -> AppServerEnds(r, "stopped", "settled", "none")
      [] code = "UncertainOutcome" -> AppServerEnds(r, "failed", "unresolved", "submitted")
      [] code = "ok" -> Step(r, [worker[r] EXCEPT !.pc = "submitting"])
                        /\ UNCHANGED <<registry, pending>>
      [] OTHER -> AppServerEnds(r, "failed", "settled", "none")

\* The before-turn callback, on a thread of its own: it claims the dispatch.
ClaimTurn(r) ==
    /\ wire[r].hook = "claim"
    /\ \/ /\ signal[r]
          /\ AfterClaim(r, "RequestStopped")
          /\ wire' = [wire EXCEPT ![r].hook = "none"]
          /\ UNCHANGED actorVars
       \/ /\ ~signal[r]
          /\ \E o \in Reached(project.connected, wire[r].turn,
                              ClaimDispatch(rows[r], wire[r].turn, project.epoch)) :
              /\ wire' = [wire EXCEPT ![r].hook = "none", ![r].turn = o.row]
              /\ Answer(o.code) /\ UNCHANGED rows
              /\ AfterClaim(r, o.code)
    /\ UNCHANGED <<callers, signal, retry, stopper>>

\* submit_turn: a stop that came after the claim names the dispatch it leaves.
SubmitTurn(r) ==
    /\ worker[r].pc = "submitting"
    /\ IF signal[r]
       THEN AppServerEnds(r, "stopped", "settled", "submitted") /\ UNCHANGED wire
       ELSE /\ Step(r, [worker[r] EXCEPT !.pc = "turning"])
            /\ wire' = [wire EXCEPT ![r].sent = @ + 1]
            /\ UNCHANGED <<registry, pending>>
    /\ UNCHANGED actorVars /\ UNCHANGED <<callers, signal, retry, stopper>>

\* turn/start is refused, or acknowledged by its answer or by a notification.
TurnAnswered(r) ==
    /\ worker[r].pc = "turning"
    /\ \/ AppServerEnds(r, "stopped", "settled", "submitted") /\ UNCHANGED wire
       \/ /\ Step(r, [worker[r] EXCEPT !.pc = "streaming"])
          /\ wire' = [wire EXCEPT ![r].hook = "ack"]
          /\ UNCHANGED <<registry, pending>>
    /\ UNCHANGED actorVars /\ UNCHANGED <<callers, signal, retry, stopper>>

\* The on-turn callback.  When the turn cannot be recorded the driver ends the
\* shared process, and with it the response.
AcknowledgeHook(r) ==
    /\ wire[r].hook = "ack"
    /\ \E o \in Reached(project.connected, wire[r].turn, AcknowledgeTurn(wire[r].turn)) :
        /\ wire' = [wire EXCEPT ![r].turn = o.row,
                       ![r].hook = IF o.code = "ok" \/ worker[r].pc # "streaming"
                                   THEN "none" ELSE "poisoned"]
        /\ Answer(o.code)
    /\ UNCHANGED rows /\ UNCHANGED <<callers, registry, signal, worker, pending, retry, stopper>>

\* append_pending: everything observed and not yet written, in one event.  Any
\* refusal leaves the rest to the author.
Flush(r) ==
    /\ worker[r].pc = "streaming" /\ Bound(r) = "app_server"
    /\ worker[r].text > worker[r].held.out /\ ~worker[r].broken /\ ~signal[r]
    /\ \E o \in AppendNext(r, worker[r].text - worker[r].held.out) :
        /\ Do(r, o)
        /\ Step(r, IF o.code = "ok" THEN [worker[r] EXCEPT !.held = HeldOf(o.row)]
                   ELSE [worker[r] EXCEPT !.broken = TRUE])
        /\ signal' = [signal EXCEPT ![r] = o.code # "ok"]
    /\ UNCHANGED <<callers, registry, pending, retry, stopper, wire>>

\* A result is kept for the author, flushed first, or saved.
Conclude(r, save) ==
    IF worker[r].broken THEN End(r, save)
    ELSE IF ~signal[r] /\ worker[r].text > worker[r].held.out
    THEN /\ Step(r, [worker[r] EXCEPT !.pc = "flush", !.save = save])
         /\ UNCHANGED <<registry, pending>>
    ELSE ToSave(r, save)

\* The turn ended (finish_request, once its acknowledgement is recorded), or the
\* shared process did (finish_process).
TurnFinished(r) ==
    /\ worker[r].pc = "streaming" /\ Bound(r) = "app_server"
    /\ \E status \in {"completed", "stopped", "failed"}, final \in worker[r].text..(MaxText + 1),
          cleanup \in {"settled", "unresolved"} :
        /\ status = "completed" => final > 0
        /\ status # "failed" => cleanup = "settled"
        /\ cleanup = "settled" => wire[r].hook = "none"
        /\ Conclude(r, ResultOf(worker[r], status, final, cleanup, "delivered"))
    /\ UNCHANGED actorVars /\ UNCHANGED <<callers, signal, retry, stopper, wire>>

\* The last flush before a result is saved.
FlushLast(r) ==
    /\ worker[r].pc = "flush" /\ worker[r].text > worker[r].held.out
    /\ \E o \in AppendNext(r, worker[r].text - worker[r].held.out) :
        /\ Do(r, o)
        /\ IF o.code = "ok"
           THEN /\ Step(r, [worker[r] EXCEPT !.pc = "reread", !.held = HeldOf(o.row)])
                /\ UNCHANGED <<registry, pending>>
           ELSE End(r, IF worker[r].save.report.status = "stopped"
                       THEN [worker[r].save EXCEPT !.report.status = "failed"]
                       ELSE worker[r].save)
    /\ UNCHANGED <<callers, signal, retry, stopper, wire>>

\* uncertain_delivery: what the callbacks had noted when the stream broke, or
\* when the shared process died before the turn was acknowledged.
Noted(r) ==
    CASE worker[r].pc = "claiming" -> {"none", "submitted"}
      [] worker[r].pc \in {"submitting", "turning"} -> {"submitted"}
      [] OTHER -> {"delivered"}

TurnLost(r) ==
    /\ worker[r].pc \in {"claiming", "submitting", "turning", "streaming"}
    /\ Bound(r) = "app_server"
    /\ \E evidence \in Noted(r) :
        LET save == ProviderSave("failed", worker[r].text, "unresolved", evidence) IN
        IF worker[r].broken THEN End(r, save) ELSE ToSave(r, save)
    /\ UNCHANGED actorVars /\ UNCHANGED <<callers, signal, retry, stopper, wire>>

-----------------------------------------------------------------------------
\* The worker of the local test model: author_start::run_mock_with_pause.

\* record_worker_failure: a stop is settled, a sealed run is left alone, and
\* any other refusal fails the run, with the run as the worker last saw it.
Failed(w, code) ==
    IF code = "RunStopping"
    THEN [w EXCEPT !.pc = "store", !.held.status = "stopping", !.save = [FailSave EXCEPT !.kind = "stop"]]
    ELSE IF code = "RunSealed" THEN NoWorker
    ELSE [w EXCEPT !.pc = "store", !.save = FailSave]

Deliver(r) ==
    /\ worker[r].pc = "deliver"
    /\ \/ /\ Step(r, Failed(worker[r], "InvalidMockInput")) /\ UNCHANGED actorVars
       \/ \E o \in Reach(r, MarkDelivered(rows[r], r \in Live)) :
            /\ Do(r, o)
            /\ Step(r, IF o.code = "ok" THEN [worker[r] EXCEPT !.pc = "write", !.held = HeldOf(o.row)]
                       ELSE Failed(worker[r], o.code))
    /\ UNCHANGED <<callers, registry, signal, pending, retry, stopper, wire>>

\* Each chunk of the fixed output, then its completion.
Write(r) ==
    /\ worker[r].pc = "write"
    /\ \/ /\ worker[r].text < MaxText
          /\ \E o \in AppendNext(r, 1) :
              /\ Do(r, o)
              /\ Step(r, IF o.code = "ok"
                         THEN [worker[r] EXCEPT !.text = @ + 1, !.held = HeldOf(o.row)]
                         ELSE Failed(worker[r], o.code))
       \/ /\ worker[r].text = MaxText
          /\ Step(r, [worker[r] EXCEPT !.pc = "store",
                        !.save = [kind |-> "complete", report |->
                            [NoReport EXCEPT !.seq = worker[r].held.seq, !.text = MaxText]]])
          /\ UNCHANGED actorVars
    /\ UNCHANGED <<callers, registry, signal, pending, retry, stopper, wire>>

\* save_worker_outcome: one attempt, a second one when a stop came first, and
\* whatever is still not stored is retained.
Store(r) ==
    /\ worker[r].pc \in {"store", "storeAgain"}
    /\ \E o \in Attempt(r, worker[r].save, worker[r].held) :
        /\ Do(r, o)
        /\ \/ /\ o.code = "ok" \/ (o.code = "RunSealed" /\ worker[r].pc = "store")
              /\ End(r, NoSave)
           \/ /\ o.code = "RunStopping" /\ worker[r].pc = "store"
              /\ Step(r, [Failed(worker[r], o.code) EXCEPT !.pc = "storeAgain"])
              /\ UNCHANGED <<registry, pending>>
           \/ /\ o.code # "ok"
              /\ o.code \in {"RunSealed", "RunStopping"} => worker[r].pc = "storeAgain"
              /\ End(r, worker[r].save)
    /\ UNCHANGED <<callers, signal, retry, stopper, wire>>

-----------------------------------------------------------------------------
\* The project under the requests.

\* An author's edit moves the context epoch.  Left out are the edits at a time
\* when no command is still to compare an epoch.
Edit ==
    /\ ~project.fenced /\ project.epoch < EpochLimit
    /\ \E r \in Runs : \/ rows[r].status = "queued"
                       \/ rows[r].status = "running" /\ Bound(r) = "app_server"
    /\ project' = [project EXCEPT !.epoch = @ + 1]
    /\ UNCHANGED <<rows, faults>> /\ UNCHANGED deskVars

\* A renderer reconciles: recover_connection opens the file again, or is left
\* without a connection until the next attempt.
Reconnect ==
    /\ project.fenced
    /\ \E opened \in BOOLEAN :
        project' = [project EXCEPT !.fenced = ~opened, !.connected = opened]
    /\ UNCHANGED <<rows, faults>> /\ UNCHANGED deskVars

\* The process dies and the project is opened again: threads, signals and
\* retained outcomes are gone, and every active run is interrupted.
Reopen ==
    /\ rows' = [r \in Runs |-> RecoverInterrupted(rows[r])]
    /\ project' = [project EXCEPT !.fenced = FALSE, !.connected = TRUE]
    /\ callers' = [c \in Callers |-> NoCall]
    /\ registry' = {}
    /\ signal' = [r \in Runs |-> FALSE]
    /\ worker' = [r \in Runs |-> NoWorker]
    /\ pending' = [r \in Runs |-> NoSave]
    /\ retry' = [r \in Runs |-> NoHeld]
    /\ stopper' = [r \in Runs |-> FALSE]
    /\ wire' = [r \in Runs |-> [wire[r] EXCEPT !.hook = "none"]]
    /\ UNCHANGED faults

-----------------------------------------------------------------------------

Init ==
    /\ rows = [r \in Runs |-> NoRun]
    /\ \E binding \in [Runs -> Bindings] :
        project = [epoch |-> 0, fenced |-> FALSE, connected |-> TRUE, binding |-> binding]
    /\ faults = 0
    /\ callers = [c \in Callers |-> NoCall]
    /\ registry = {}
    /\ signal = [r \in Runs |-> FALSE]
    /\ worker = [r \in Runs |-> NoWorker]
    /\ pending = [r \in Runs |-> NoSave]
    /\ retry = [r \in Runs |-> NoHeld]
    /\ stopper = [r \in Runs |-> FALSE]
    /\ wire = [r \in Runs |-> NoWire]

Work(r) ==
    \/ Check(r) \/ StartBound(r) \/ Send(r) \/ Finished(r) \/ StreamLost(r)
    \/ Delta(r) \/ Reread(r) \/ SaveReport(r)
    \/ Reject(r) \/ Rejected(r)
    \/ HttpSend(r) \/ HttpFinished(r)
    \/ StartThread(r) \/ ClaimTurn(r) \/ SubmitTurn(r) \/ TurnAnswered(r)
    \/ AcknowledgeHook(r) \/ Flush(r) \/ TurnFinished(r) \/ FlushLast(r) \/ TurnLost(r)
    \/ Deliver(r) \/ Write(r) \/ Store(r)

Next ==
    \/ \E c \in Callers, r \in Runs : Start(c, r)
    \/ \E c \in Callers : Register(c) \/ Claim(c)
    \/ \E r \in Runs :
        \/ Work(r) \/ DeltaUnsaved(r)
        \/ Stop(r) \/ Signal(r) \/ RetryRead(r) \/ RetryStore(r) \/ Interrupt(r)
    \/ Edit \/ Reconnect \/ Reopen

Spec == Init /\ [][Next]_vars

\* A worker thread goes on: the deltas of a response are finitely many and the
\* process has a deadline.
Fairness == \A r \in Runs : WF_vars(Work(r))
FairSpec == Spec /\ Fairness

-----------------------------------------------------------------------------
\* Properties.

Codes == {"queued", "running", "stopping"} \cup Terminal
Reports == [status : {"none", "completed", "stopped", "failed"}, seq : Nat,
            text : 0..(MaxText + 1), cleanup : {"settled", "unresolved"},
            evidence : {"none", "submitted", "delivered"}]
Saves == [kind : {"none", "provider", "complete", "fail", "stop"}, report : Reports]
Helds == [status : Codes \cup {"absent"}, seq : Nat, out : 0..MaxText]
Events == [seq : Nat, id : {"part", "fail"} \X Nat \cup
              {<<x>> : x \in {"stale", "stop", "finish", "stopped", "provider", "interrupted",
                              "rejected"}},
           kind : {"chunk", "terminal"}, text : 0..MaxText]

\* Type of the state.
TypeOK ==
    /\ \A r \in Runs :
        /\ rows[r].status \in Codes \cup {"absent"}
        /\ rows[r].dispatch \in {"pending", "claimed", "delivered"}
        /\ rows[r].epoch \in 0..EpochLimit /\ rows[r].seq \in Nat
        /\ rows[r].out \in 0..MaxText /\ rows[r].replies \in Nat
        /\ \A i \in DOMAIN rows[r].events : rows[r].events[i] \in Events
        /\ rows[r].result \in Reports
        /\ worker[r].held \in Helds /\ worker[r].text \in worker[r].held.out..MaxText
        /\ worker[r].save \in Saves
    /\ pending \in [Runs -> Saves] /\ retry \in [Runs -> Helds]
    /\ signal \in [Runs -> BOOLEAN] /\ stopper \in [Runs -> BOOLEAN]
    /\ wire \in [Runs -> [sent : Nat, turn : {"none", "claimed", "acknowledged"},
                          hook : {"none", "claim", "ack", "poisoned"}]]
    /\ registry \subseteq Runs /\ faults \in 0..FaultLimit

\* The output of a run is one gapless journal: its sequence is the number of
\* its events, and it has one terminal event, its last, and one assistant
\* message exactly when it has ended.
OneEnding(row) ==
    /\ row.seq = Len(row.events)
    /\ \A i \in DOMAIN row.events :
        row.events[i].seq = i /\ (row.events[i].kind = "terminal" => i = Len(row.events))
    /\ row.status \in Terminal <=>
        Len(row.events) > 0 /\ row.events[Len(row.events)].kind = "terminal"
    /\ row.replies = IF row.status \in Terminal THEN 1 ELSE 0
JournalsTellEndings == \A r \in Runs : OneEnding(rows[r])

\* What is saved stays.  Output only grows: no completion, stop, failure or
\* recovery replaces a chunk that was saved before.  And a run that ended is
\* never written again, not by a late worker, a repeated start, a retry of its
\* save or the next opening of the project.
SavedStays(row, next) == next.out >= row.out /\ (row.status \in Terminal => next = row)

\* After the author's Stop a run ends stopped or interrupted, even when the
\* complete response was already there.
StopIsFinal(row, next) ==
    row.status = "stopping" => next.status \in {"stopping", "stopped", "interrupted"}

\* Over every provider, late worker, retried save and restart: the journal of
\* every run tells one ending, what is saved stays, and a Stop is final.
RunHistoryStands ==
    [][\A r \in Runs :
        /\ OneEnding(rows'[r]) /\ SavedStays(rows[r], rows'[r])
        /\ StopIsFinal(rows[r], rows'[r])]_vars

\* One author request costs at most one provider request, over repeated
\* starts, uncertain claims, retried saves and restarts.
SentOnce == \A r \in Runs : wire[r].sent <= 1

\* A provider run whose outcome is retained is not being generated: a retry of
\* the save never takes a run over from its worker.
External == {"spawned", "starting", "sending", "http", "claiming", "submitting", "turning",
             "streaming"}
RetainedMeansIdle ==
    \A r \in Live : pending[r] # NoSave => worker[r].pc \notin External

\* A claimed run is never abandoned: it has a worker that will end it or an
\* outcome that the author can retry.
NothingAbandoned ==
    \A r \in Runs : rows[r].status \in {"running", "stopping"} =>
        worker[r].pc # "none" \/ pending[r] # NoSave

\* What is retained can be stored: with the run as it now is and a working
\* disk, the retry of the save succeeds.  Left out are the two reports that
\* settle_provider_discussion never takes: of an app-server dispatch that was
\* not stored, and of an HTTP response completed over its limit.
Storable(r, save) == Stands(r, save.report) /\ save.report.text <= MaxText
RetainedCanSettle ==
    project.connected => \A r \in Runs :
        pending[r] # NoSave /\ Storable(r, pending[r]) =>
            \E o \in Attempt(r, pending[r], HeldOf(rows[r])) : o.code = "ok"

\* A Stop that was answered has reached the worker: its signal is set although
\* the commit may have been uncertain.
StopReachesWorker ==
    \A r \in Live :
        rows[r].status = "stopping" /\ ~stopper[r] /\ worker[r].pc \in External => signal[r]

\* Every receipt and dispatch that a later open, backup or export validates was
\* stored as the validators ask, whatever the order of callbacks and saves.
DatabaseValidates ==
    \A r \in Runs :
        /\ ReceiptStands(rows[r], MaxText) /\ CompletedHasReceipt(rows[r], r \in Live)
        /\ DispatchBound(rows[r], wire[r].turn)
        /\ rows[r].result # NoReport => Stands(r, rows[r].result)

\* A request is paid for once, is never lost between its worker, the recovery
\* map and the author's Stop, and leaves records that validate.
RequestsStand ==
    /\ TypeOK /\ SentOnce /\ RetainedMeansIdle /\ NothingAbandoned
    /\ RetainedCanSettle /\ StopReachesWorker /\ DatabaseValidates

\* A claimed run ends, or its outcome waits for the author.
Settles ==
    \A r \in Runs : rows[r].status \in {"running", "stopping"} ~>
        (rows[r].status \in Terminal \/ pending[r] # NoSave)

=============================================================================
