------------------------------- MODULE AppClose -------------------------------
(***************************************************************************)
(* Normal close of the application.  The renderer's close protocol         *)
(* (useAppClose.ts) drives three native calls, each a sequence of separate *)
(* lock acquisitions and actor commands on a thread of its own             *)
(* (app_close_commands.rs, provider_runtime.rs), while the background jobs *)
(* of the open projects start, finish, retain results and are saved.       *)
(*                                                                         *)
(* Each open project has one job; jobs of one project are read and stopped *)
(* by a single actor command and interleave less.                          *)
(***************************************************************************)
EXTENDS Naturals, Sequences

CONSTANTS Job,           \* background jobs, one per open project
          AttemptLimit,  \* bound: close attempts
          PollLimit,     \* CLOSE_MAX_POLLS
          FaultLimit     \* bound: failed writes, calls and reloads

ASSUME CloseConstants == {AttemptLimit, PollLimit, FaultLimit} \subseteq Nat

VARIABLES jobs,    \* [adm, row, worker, kept, ...] of each job
          gate,    \* the close request held by DesktopProviders
          calls,   \* the native call of each thread of each attempt
          screen,  \* the renderer: its current attempt, the dialog, the window
          probes,  \* CloseAttempt records of the renderer
          faults   \* failures so far

vars == <<jobs, gate, calls, screen, probes, faults>>

Attempt == 1 .. AttemptLimit
NoAttempt == 0
Thread == {"main", "stop"}

NoJob == [adm |-> FALSE, row |-> "none", worker |-> FALSE, kept |-> FALSE,
          after |-> {}, stoppedBy |-> {}]

NoCall == [op |-> "none", pc |-> "idle", settle |-> FALSE, starting |-> FALSE, workers |-> FALSE,
           stopping |-> FALSE, pending |-> FALSE, read |-> {}, todo |-> {}, tokens |-> {},
           failed |-> FALSE, answer |-> "none"]

NoProbe == [main |-> "unused", stop |-> "unused", gateActive |-> FALSE, cancelRequired |-> FALSE,
            invalidated |-> FALSE, keepPrompt |-> FALSE, decision |-> "none", asking |-> FALSE,
            flight |-> "none", waiters |-> <<>>, polls |-> 0]

Init == /\ jobs = [j \in Job |-> NoJob]
        /\ gate = [request |-> NoAttempt, stopping |-> FALSE, cancelled |-> {}]
        /\ calls = [a \in Attempt |-> [t \in Thread |-> NoCall]]
        /\ screen = [current |-> NoAttempt, prompt |-> "none", window |-> "open"]
        /\ probes = [a \in Attempt |-> NoProbe]
        /\ faults = 0

MayFail == faults < FaultLimit
Fails(bad) == faults' = IF bad THEN faults + 1 ELSE faults

-----------------------------------------------------------------------------
(* Background jobs.                                                        *)

Live == {"active", "stopping"}

Admitted == {j \in Job : jobs[j].adm}
Registered == {j \in Job : jobs[j].worker}
Retained == {j \in Job : jobs[j].kept}
ActiveRows == {j \in Job : jobs[j].row \in Live}

OnlyJobs == UNCHANGED <<gate, calls, screen, probes>>

\* Mutant: a request is admitted although the application is closing.
AdmitAlways(j) == /\ jobs[j].row = "none" /\ ~jobs[j].adm
                  /\ jobs' = [jobs EXCEPT ![j].adm = TRUE, ![j].after = gate.cancelled]
                  /\ UNCHANGED faults /\ OnlyJobs

AdmitRequest(j) == /\ gate.request = NoAttempt
                   /\ jobs[j].row = "none" /\ ~jobs[j].adm
                   /\ jobs' = [jobs EXCEPT ![j].adm = TRUE, ![j].after = gate.cancelled]
                   /\ UNCHANGED faults /\ OnlyJobs

Accept(j) == /\ jobs[j].adm /\ jobs[j].row = "none"
             /\ jobs' = [jobs EXCEPT ![j].row = "active"]
             /\ UNCHANGED faults /\ OnlyJobs

RegisterWorker(j) == /\ jobs[j].adm /\ jobs[j].row = "active" /\ ~jobs[j].worker
                     /\ jobs' = [jobs EXCEPT ![j].worker = TRUE]
                     /\ UNCHANGED faults /\ OnlyJobs

\* The acceptance closure ends, with or without a row and a worker.
LeaveAdmission(j) == /\ jobs[j].adm
                     /\ jobs' = [jobs EXCEPT ![j].adm = FALSE]
                     /\ UNCHANGED faults /\ OnlyJobs

\* The worker, or an acceptance that could not start one, ends the row.
FinishJob(j) == /\ jobs[j].adm \/ jobs[j].worker
                /\ jobs[j].row \in Live /\ ~jobs[j].kept
                /\ jobs' = [jobs EXCEPT ![j].row = "ended"]
                /\ UNCHANGED faults /\ OnlyJobs

RetainResult(j) == /\ MayFail
                   /\ jobs[j].worker /\ jobs[j].row \in Live /\ ~jobs[j].kept
                   /\ jobs' = [jobs EXCEPT ![j].kept = TRUE]
                   /\ Fails(TRUE) /\ OnlyJobs

ReleaseWorker(j) == /\ jobs[j].worker
                    /\ jobs[j].row \notin Live \/ jobs[j].kept
                    /\ jobs' = [jobs EXCEPT ![j].worker = FALSE]
                    /\ UNCHANGED faults /\ OnlyJobs

RetrySave(j) == /\ jobs[j].kept /\ jobs[j].row \in Live
                /\ jobs' = [jobs EXCEPT ![j].kept = FALSE, ![j].row = "ended"]
                /\ UNCHANGED faults /\ OnlyJobs

StopOne(js, j, a) == [js EXCEPT ![j].stoppedBy = @ \cup {a},
                                ![j].row = IF @ = "active" THEN "stopping" ELSE @]
CancelAll(js, tokens, a) ==
    [j \in Job |-> IF j \in tokens THEN [js[j] EXCEPT !.stoppedBy = @ \cup {a}] ELSE js[j]]
InterruptOne(js, j, a) ==
    IF js[j].row \in Live
    THEN [js EXCEPT ![j].row = "sealed", ![j].stoppedBy = @ \cup {a}] ELSE js

-----------------------------------------------------------------------------
(* The close gate of DesktopProviders.                                     *)

MayBegin(a) == a \notin gate.cancelled /\ gate.request \in {NoAttempt, a}
BeginClose(a) == [gate EXCEPT !.request = a,
                              !.stopping = IF gate.request = NoAttempt THEN FALSE ELSE @]

MayCancel(a) == gate.request \in {NoAttempt, a}
CancelClose(a) == [request |-> NoAttempt, stopping |-> FALSE, cancelled |-> gate.cancelled \cup {a}]

RendererStarted == [request |-> NoAttempt, stopping |-> FALSE,
                    cancelled |-> gate.cancelled \cup ({gate.request} \ {NoAttempt})]

IsCurrentRequest(a) == gate.request = a

-----------------------------------------------------------------------------
(* Native calls.  A call starts when the renderer awaits it, runs to its   *)
(* answer even when the renderer is gone, and every close_activity in it   *)
(* fails the call once the request is no longer current.                   *)

StartCall(cs, a, t, op) ==
    [cs EXCEPT ![a][t] = [NoCall EXCEPT !.op = op, !.settle = TRUE, !.pc = IF op = "stop" THEN "capture" ELSE "before"]]

\* Mutant: the retained results are read before the workers.
StatusOrderPendingFirst == <<"before", "pending", "census", "after">>
\* The order in which read_status reads.
StatusOrder == <<"before", "census", "after", "pending">>

AfterRead(pc) == LET n == CHOOSE i \in 1 .. 4 : StatusOrder[i] = pc
                 IN  IF n = 4 THEN "decide" ELSE StatusOrder[n + 1]

Ready(c) == ~c.starting /\ c.read = {} /\ ~c.workers /\ ~c.pending

StatusAnswer(c) == CASE Ready(c) -> "ready"
                     [] c.starting -> "starting"
                     [] ~c.starting /\ ~c.workers /\ c.pending -> "pending"
                     [] OTHER -> "busy"

Orphans(c) == /\ c.settle /\ c.stopping
              /\ ~c.starting /\ ~c.workers /\ ~c.pending /\ c.read # {}

Answered(c, ans) == [NoCall EXCEPT !.op = c.op, !.pc = "done", !.answer = ans]

\* A step of a native call: its record becomes d, the jobs become js.
CallStep(a, t, d, js) == /\ calls' = [calls EXCEPT ![a][t] = d]
                         /\ jobs' = js
                         /\ UNCHANGED <<screen, probes>>

\* Outside the stop call's captured handles an error is the call's answer;
\* inside it the handles are cancelled first.
Failed(c) == IF c.op = "stop" /\ c.pc \in {"confirm", "list", "check", "stopRow"}
             THEN [c EXCEPT !.pc = "cancel", !.failed = TRUE]
             ELSE Answered(c, "error")

ReadBefore(a, t, c) ==
    /\ c.pc = "before"
    /\ CallStep(a, t, IF IsCurrentRequest(a)
                      THEN [c EXCEPT !.starting = Admitted # {}, !.todo = Job, !.read = {}, !.pc = AfterRead(c.pc)]
                      ELSE Failed(c), jobs)
    /\ UNCHANGED <<gate, faults>>

\* One project after the other; reading one of them may fail.
Census(a, t, c, next) ==
    \E bad \in {FALSE} \cup {MayFail} :
      /\ Fails(bad)
      /\ IF bad
         THEN CallStep(a, t, Failed(c), jobs)
         ELSE \E j \in c.todo :
                CallStep(a, t, [c EXCEPT !.read = @ \cup ({j} \cap ActiveRows), !.todo = @ \ {j},
                                         !.pc = IF c.todo = {j} THEN next ELSE @], jobs)
      /\ UNCHANGED gate

ReadCensus(a, t, c) == c.pc = "census" /\ Census(a, t, c, AfterRead(c.pc))

ReadAfter(a, t, c) ==
    /\ c.pc = "after"
    /\ CallStep(a, t, IF IsCurrentRequest(a)
                      THEN [c EXCEPT !.starting = @ \/ Admitted # {}, !.workers = Registered # {},
                                     !.stopping = gate.stopping, !.pc = AfterRead(c.pc)]
                      ELSE Failed(c), jobs)
    /\ UNCHANGED <<gate, faults>>

ReadPending(a, t, c) ==
    /\ c.pc = "pending"
    /\ CallStep(a, t, [c EXCEPT !.pending = Retained # {}, !.pc = AfterRead(c.pc)], jobs)
    /\ UNCHANGED <<gate, faults>>

Decide(a, t, c) ==
    /\ c.pc = "decide"
    /\ CallStep(a, t, IF Orphans(c) THEN [c EXCEPT !.pc = "sealCheck", !.todo = c.read]
                      ELSE IF ~IsCurrentRequest(a) THEN Failed(c)
                      ELSE IF c.op = "finish"
                           THEN IF Ready(c) THEN [c EXCEPT !.pc = "shutdown"] ELSE Failed(c)
                      ELSE Answered(c, StatusAnswer(c)), jobs)
    /\ UNCHANGED <<gate, faults>>

\* Mutant: a captured job is stopped without another look at the request.
StillCurrentAlways(a) == TRUE
\* close_activity before each project that is stopped or interrupted.
StillCurrent(a) == IsCurrentRequest(a)

SealCheck(a, t, c) ==
    /\ c.pc = "sealCheck"
    /\ CallStep(a, t, IF StillCurrent(a) THEN [c EXCEPT !.pc = "sealRow"] ELSE Failed(c), jobs)
    /\ UNCHANGED <<gate, faults>>

SealRow(a, t, c) ==
    /\ c.pc = "sealRow"
    /\ \E bad \in {FALSE} \cup {MayFail}, j \in c.todo :
         /\ Fails(bad)
         /\ IF bad THEN CallStep(a, t, Failed(c), jobs)
            ELSE CallStep(a, t, [c EXCEPT !.todo = @ \ {j}, !.settle = @ /\ c.todo # {j},
                                          !.pc = IF c.todo = {j} THEN "before" ELSE "sealCheck"],
                          InterruptOne(jobs, j, a))
    /\ UNCHANGED gate

ReadStatus(a, t, c) == \/ ReadBefore(a, t, c) \/ ReadCensus(a, t, c) \/ ReadAfter(a, t, c)
                       \/ ReadPending(a, t, c) \/ Decide(a, t, c) \/ SealCheck(a, t, c) \/ SealRow(a, t, c)

Capture(a, t, c) ==
    /\ c.pc = "capture"
    /\ CallStep(a, t, IF IsCurrentRequest(a) /\ Admitted = {}
                      THEN [c EXCEPT !.tokens = Registered, !.pc = "confirm"] ELSE Failed(c), jobs)
    /\ UNCHANGED <<gate, faults>>

ConfirmStop(a, t, c) ==
    /\ c.pc = "confirm"
    /\ LET ok == IsCurrentRequest(a) /\ Admitted = {}
       IN  /\ CallStep(a, t, IF ok THEN [c EXCEPT !.pc = "list", !.todo = Job] ELSE Failed(c), jobs)
           /\ gate' = IF ok THEN [gate EXCEPT !.stopping = TRUE] ELSE gate
    /\ UNCHANGED faults

ListRows(a, t, c) == c.pc = "list" /\ Census(a, t, c, "check")

StopCheck(a, t, c) ==
    /\ c.pc = "check"
    /\ CallStep(a, t, IF c.read = {} THEN [c EXCEPT !.pc = "cancel"]
                      ELSE IF StillCurrent(a) THEN [c EXCEPT !.pc = "stopRow"] ELSE Failed(c), jobs)
    /\ UNCHANGED <<gate, faults>>

\* A row that cannot be stopped is remembered; the others are still stopped.
StopRow(a, t, c) ==
    /\ c.pc = "stopRow"
    /\ \E bad \in {FALSE} \cup {MayFail}, j \in c.read :
         /\ Fails(bad)
         /\ CallStep(a, t, [c EXCEPT !.read = @ \ {j}, !.failed = @ \/ bad, !.pc = "check"],
                     IF bad THEN jobs ELSE StopOne(jobs, j, a))
    /\ UNCHANGED gate

CancelTokens(a, t, c) ==
    /\ c.pc = "cancel"
    /\ CallStep(a, t, IF c.failed THEN Answered(c, "error")
                      ELSE [NoCall EXCEPT !.op = "stop", !.settle = TRUE, !.pc = "before"],
                CancelAll(jobs, c.tokens, a))
    /\ UNCHANGED <<gate, faults>>

StopJobs(a, t, c) == \/ Capture(a, t, c) \/ ConfirmStop(a, t, c) \/ ListRows(a, t, c)
                     \/ StopCheck(a, t, c) \/ StopRow(a, t, c) \/ CancelTokens(a, t, c)

ShutdownAppServer(a, t, c) ==
    /\ c.pc = "shutdown"
    /\ CallStep(a, t, IF IsCurrentRequest(a) /\ Admitted = {} /\ Registered = {}
                      THEN [c EXCEPT !.pc = "shutdownLast"] ELSE Failed(c), jobs)
    /\ UNCHANGED <<gate, faults>>

FinishClose(a, t, c) ==
    /\ c.pc = "shutdownLast"
    /\ CallStep(a, t, IF IsCurrentRequest(a) THEN Answered(c, "ready") ELSE Failed(c), jobs)
    /\ UNCHANGED <<gate, faults>>

NativeCall == \E a \in Attempt, t \in Thread :
                LET c == calls[a][t]
                IN  ReadStatus(a, t, c) \/ StopJobs(a, t, c) \/ ShutdownAppServer(a, t, c) \/ FinishClose(a, t, c)

-----------------------------------------------------------------------------
(* The renderer.  One record u carries what a step of the script changes:  *)
(* the probe of its attempt, the screen and the native calls it starts.    *)

IsCurrent(a) == screen.current = a /\ ~probes[a].invalidated

State(a) == [probe |-> probes[a], screen |-> screen, calls |-> calls]

Becomes(a, u) == /\ probes' = [probes EXCEPT ![a] = u.probe]
                 /\ screen' = u.screen
                 /\ calls' = u.calls
                 /\ UNCHANGED jobs

\* The finally of closeApplication.
EndMain(u, a) ==
    [u EXCEPT !.probe.main = "done",
              !.screen.current = IF @ = a /\ ~u.probe.keepPrompt THEN NoAttempt ELSE @]

\* What follows the await of releaseCloseGate in each of its callers.
AfterStay(u, a, released) ==
    IF ~released THEN [u EXCEPT !.screen.prompt = "error"]
    ELSE LET v == [u EXCEPT !.probe.keepPrompt = FALSE, !.probe.decision = "stay", !.probe.asking = FALSE,
                            !.screen.current = NoAttempt, !.screen.prompt = "none"]
         IN  IF u.probe.asking THEN EndMain(v, a) ELSE v

AfterBlock(u, a, who, released) ==
    LET v == [u EXCEPT !.screen.prompt = IF released THEN "blocked" ELSE "error"]
    IN  IF who = "main" THEN EndMain(v, a)
        ELSE IF released /\ u.probe.asking
             THEN EndMain([v EXCEPT !.probe.asking = FALSE, !.probe.decision = "stay", !.probe.stop = "done"], a)
             ELSE [v EXCEPT !.probe.stop = "done"]

Resume(u, a, who, released) ==
    IF who = "stay" THEN AfterStay(u, a, released) ELSE AfterBlock(u, a, who, released)

\* releaseCloseGate, called by `who` after setting keepPrompt.
ReleaseGate(u, a, who) ==
    LET v == [u EXCEPT !.probe.keepPrompt = TRUE]
    IN  IF ~v.probe.cancelRequired /\ ~v.probe.gateActive THEN Resume(v, a, who, TRUE)
        ELSE [v EXCEPT !.probe.invalidated = TRUE,
                       !.probe.flight = IF @ = "none" THEN "sent" ELSE @,
                       !.probe.waiters = Append(@, who),
                       !.probe.main = IF who = "main" THEN "blocking" ELSE @,
                       !.probe.stop = IF who = "stop" THEN "blocking" ELSE @]

Await(u, a, t, op, pc) ==
    [u EXCEPT !.calls = StartCall(@, a, t, op),
              !.probe.main = IF t = "main" THEN pc ELSE @,
              !.probe.stop = IF t = "stop" THEN pc ELSE @]

CloseApplication(a) ==
    /\ screen.current = NoAttempt
    /\ probes[a] = NoProbe
    /\ \A b \in Attempt : IF b < a THEN probes[b].main = "done" ELSE probes[b].main = "unused"
    /\ Becomes(a, [State(a) EXCEPT !.probe.main = "begin", !.probe.cancelRequired = TRUE,
                                   !.screen.current = a])
    /\ UNCHANGED <<gate, faults>>

\* begin_app_close and its answer, which may be lost.
Begin(a) ==
    /\ probes[a].main = "begin"
    /\ gate' = IF MayBegin(a) THEN BeginClose(a) ELSE gate
    /\ \E lost \in {FALSE} \cup {MayFail} :
         /\ Fails(lost)
         /\ Becomes(a, IF lost \/ ~MayBegin(a) THEN ReleaseGate(State(a), a, "main")
                       ELSE [State(a) EXCEPT !.probe.gateActive = TRUE, !.probe.main = "save"])

\* The chat, the workshop and the editor are saved before the first status.
SaveWriting(a) ==
    /\ probes[a].main = "save"
    /\ \E bad \in {FALSE} \cup {MayFail} :
         /\ Fails(bad)
         /\ Becomes(a, IF bad THEN ReleaseGate(State(a), a, "main")
                       ELSE Await(State(a), a, "main", "status", "first"))
    /\ UNCHANGED gate

Take(a, t) == [State(a) EXCEPT !.calls[a][t] = NoCall]

MainAnswer(a) ==
    LET ans == calls[a]["main"].answer
        u == Take(a, "main")
        Blocked == ReleaseGate(u, a, "main")
        Left == EndMain(u, a)
    IN  /\ calls[a]["main"].pc = "done"
        /\ Becomes(a,
             IF probes[a].main \notin {"first", "second", "final", "finish"} THEN u
             ELSE IF ans = "error" THEN Blocked
             ELSE CASE probes[a].main = "first" ->
                         IF ~IsCurrent(a) THEN Left
                         ELSE IF ans = "ready" THEN Await(u, a, "main", "status", "final")
                         ELSE IF ans = "pending" THEN Blocked
                         ELSE [u EXCEPT !.probe.asking = TRUE, !.probe.main = "ask", !.screen.prompt = "waiting"]
                    [] probes[a].main = "second" ->
                         IF ans # "ready" THEN Blocked
                         ELSE IF ~IsCurrent(a) THEN Left
                         ELSE Await(u, a, "main", "status", "final")
                    [] probes[a].main = "final" ->
                         IF ~IsCurrent(a) THEN Left
                         ELSE IF ans # "ready" THEN Blocked
                         ELSE Await(u, a, "main", "finish", "finish")
                    [] probes[a].main = "finish" ->
                         IF ~IsCurrent(a) THEN Left ELSE [u EXCEPT !.probe.main = "destroy"])
        /\ UNCHANGED <<gate, faults>>

\* getCurrentWindow().destroy() is sent; it lands or fails later.
Destroy(a) ==
    /\ probes[a].main = "destroy"
    /\ \E bad \in {FALSE} \cup {MayFail} :
         /\ Fails(bad)
         /\ Becomes(a, IF bad THEN ReleaseGate(State(a), a, "main")
                       ELSE [State(a) EXCEPT !.screen.window = "destroyed"])
    /\ UNCHANGED gate

StopAndClose(a) ==
    /\ screen.prompt = "waiting"
    /\ IsCurrent(a) /\ probes[a].stop = "unused"
    /\ Becomes(a, Await(State(a), a, "stop", "status", "starting"))
    /\ UNCHANGED <<gate, faults>>

\* Mutant: a close polls as long as work is left.
MayPollForever(p) == TRUE
\* The two polling loops of stopAndClose share their bound.
MayPoll(p) == p.polls < PollLimit

Poll(u, a, pc) == [Await(u, a, "stop", "status", pc) EXCEPT !.probe.polls = (@ + 1) % (PollLimit + 1),
                                                            !.screen.prompt = "stopping"]

StopAnswer(a) ==
    LET ans == calls[a]["stop"].answer
        p == probes[a]
        u == Take(a, "stop")
        Left == [u EXCEPT !.probe.stop = "done"]
        Blocked == ReleaseGate(u, a, "stop")
    IN  /\ calls[a]["stop"].pc = "done"
        /\ Becomes(a,
             IF p.stop \notin {"starting", "stopping"} THEN u
             ELSE IF ~IsCurrent(a) THEN Left
             ELSE IF ans = "error" THEN Blocked
             ELSE CASE p.stop = "starting" /\ ans = "starting" ->
                         IF MayPoll(p) THEN Poll(u, a, "starting") ELSE Blocked
                    [] p.stop = "starting" /\ ans # "starting" ->
                         [Await(u, a, "stop", "stop", "stopping") EXCEPT !.probe.polls = 0]
                    [] p.stop = "stopping" /\ ans \in {"starting", "busy"} ->
                         IF MayPoll(p) THEN Poll(u, a, "stopping") ELSE Blocked
                    [] p.stop = "stopping" /\ ans \notin {"starting", "busy", "ready"} -> Blocked
                    [] p.stop = "stopping" /\ ans = "ready" ->
                         Await([Left EXCEPT !.probe.asking = FALSE, !.probe.decision = "stop",
                                            !.screen.prompt = "stopping"], a, "main", "status", "second"))
        /\ UNCHANGED <<gate, faults>>

StayOpen ==
    /\ screen.prompt # "none" /\ screen.current # NoAttempt
    /\ LET a == screen.current
           p == probes[a]
       IN  /\ \A i \in 1 .. Len(p.waiters) : p.waiters[i] # "stay"
           /\ Becomes(a, IF p.decision = "stay" /\ ~p.cancelRequired /\ ~p.gateActive
                         THEN [State(a) EXCEPT !.screen.current = NoAttempt, !.screen.prompt = "none"]
                         ELSE ReleaseGate(State(a), a, "stay"))
    /\ UNCHANGED <<gate, faults>>

CancelLands(a) ==
    /\ probes[a].flight = "sent"
    /\ \E bad \in {FALSE} \cup {MayFail} :
         LET ok == ~bad /\ MayCancel(a)
         IN  /\ Fails(bad)
             /\ gate' = IF ok THEN CancelClose(a) ELSE gate
             /\ Becomes(a, [State(a) EXCEPT !.probe.flight = IF ok THEN "cancelled" ELSE "refused"])

\* Mutant: a failed cancellation is taken for a release.
ReleasedAnyway(p, ok) == [p EXCEPT !.gateActive = FALSE, !.cancelRequired = FALSE]
\* What the answer of cancelAppClose does to the probe.
Released(p, ok) == IF ok THEN [p EXCEPT !.gateActive = FALSE, !.cancelRequired = FALSE] ELSE p

\* The callers continue in the order in which they began to wait; the close, the
\* stop and the author who stays wait once each.
CancelAnswered(a) ==
    /\ probes[a].flight \in {"cancelled", "refused"}
    /\ LET p == probes[a]
           ok == p.flight = "cancelled"
           u == [State(a) EXCEPT !.probe = [Released(p, ok) EXCEPT !.flight = "none", !.waiters = <<>>]]
           released == ~u.probe.gateActive /\ ~u.probe.cancelRequired
           step(v, n) == IF n \in DOMAIN p.waiters THEN Resume(v, a, p.waiters[n], released) ELSE v
       IN  Becomes(a, step(step(step(u, 1), 2), 3))
    /\ UNCHANGED <<gate, faults>>

\* The page is loaded again: the script is gone, the native side is not.
Reload ==
    /\ MayFail /\ Fails(TRUE)
    /\ gate' = RendererStarted
    /\ screen' = [screen EXCEPT !.current = NoAttempt, !.prompt = "none"]
    /\ probes' = [a \in Attempt |-> IF probes[a] = NoProbe THEN NoProbe
                                    ELSE [NoProbe EXCEPT !.main = "done", !.stop = "done"]]
    /\ UNCHANGED <<jobs, calls>>

-----------------------------------------------------------------------------
JobStep == \E j \in Job : \/ AdmitRequest(j) \/ Accept(j) \/ RegisterWorker(j) \/ LeaveAdmission(j)
                          \/ FinishJob(j) \/ RetainResult(j) \/ ReleaseWorker(j) \/ RetrySave(j)

Script == \E a \in Attempt : \/ Begin(a) \/ SaveWriting(a) \/ MainAnswer(a) \/ Destroy(a)
                             \/ StopAnswer(a) \/ CancelLands(a) \/ CancelAnswered(a)

Author == (\E a \in Attempt : CloseApplication(a) \/ StopAndClose(a)) \/ StayOpen

Next == /\ screen.window = "open"
        /\ JobStep \/ NativeCall \/ Script \/ Author \/ Reload

Spec == Init /\ [][Next]_vars /\ WF_vars(screen.window = "open" /\ (NativeCall \/ Script))

-----------------------------------------------------------------------------
Idle == Admitted = {} /\ Registered = {} /\ Retained = {} /\ ActiveRows = {}

\* The window is destroyed under an unreleased gate only when no request is
\* starting, no worker runs, no durable job is active and no result waits to be
\* saved (read_status, whose four reads race the workers).
DestroyedIdle == screen.window = "destroyed" /\ gate.request # NoAttempt => Idle

\* A close interrupts a job only when nothing of it is left: neither a worker
\* nor a retained result, which the interrupted row could no longer take.
SealedAreOrphans == \A j \in Job : jobs[j].row = "sealed" => ~jobs[j].worker /\ ~jobs[j].kept

\* A late stop or interruption of a close never reaches a job admitted after
\* that close was cancelled.
StopsItsOwnJobs == \A j \in Job : jobs[j].stoppedBy \cap jobs[j].after = {}

\* Whoever closed the gate is still there to release it: requests are never
\* refused with no attempt of the renderer behind the refusal.
GateHasOwner == gate.request # NoAttempt => screen.current = gate.request

\* A window is destroyed, and a gate kept closed, only by a close that still
\* answers for it.
GateStands == DestroyedIdle /\ GateHasOwner

\* What a close does to the jobs: it interrupts orphans only, and stops only what
\* it found.
StopsOnlyItsOwn == SealedAreOrphans /\ StopsItsOwnJobs

\* Once a close has begun, it destroys the window, lets go of the attempt or
\* waits for the author, whatever the jobs do.
CloseSettles == \A a \in Attempt :
    screen.current = a ~> \/ screen.current # a \/ screen.window = "destroyed"
                          \/ screen.prompt \in {"waiting", "blocked", "error"}
=============================================================================
