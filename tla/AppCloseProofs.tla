---------------------------- MODULE AppCloseProofs ----------------------------
(***************************************************************************)
(* Theorems about AppClose for any jobs, attempts, polls and faults: the   *)
(* window is destroyed, and the gate kept closed, only by a close that     *)
(* answers for it, and a close stops and interrupts only what it found.    *)
(***************************************************************************)
EXTENDS AppClose, TLAPS

-----------------------------------------------------------------------------
\* The inductive invariant, by parts.

Requests == {NoAttempt} \cup Attempt
Rows == {"none", "active", "stopping", "ended", "sealed"}
Jobs == [adm : BOOLEAN, row : Rows, worker : BOOLEAN, kept : BOOLEAN,
         after : SUBSET Attempt, stoppedBy : SUBSET Attempt]
Ops == {"none", "status", "stop", "finish"}
StopPcs == {"capture", "confirm", "list", "check", "stopRow", "cancel"}
ReadPcs == {"before", "census", "after", "pending", "decide", "sealCheck", "sealRow"}
Pcs == {"idle", "done", "shutdown", "shutdownLast"} \cup StopPcs \cup ReadPcs
Answers == {"none", "error", "ready", "starting", "pending", "busy"}
Calls == [op : Ops, pc : Pcs, settle : BOOLEAN, starting : BOOLEAN, workers : BOOLEAN,
          stopping : BOOLEAN, pending : BOOLEAN, read : SUBSET Job, todo : SUBSET Job,
          tokens : SUBSET Job, failed : BOOLEAN, answer : Answers]
Prompts == {"none", "waiting", "stopping", "blocked", "error"}
Screens == [current : Requests, prompt : Prompts, window : {"open", "destroyed"}]
Mains == {"unused", "begin", "save", "first", "ask", "second", "final", "finish", "destroy",
          "blocking", "done"}
Stops == {"unused", "starting", "stopping", "blocking", "done"}
Who == {"main", "stop", "stay"}
Probes == [main : Mains, stop : Stops, gateActive : BOOLEAN, cancelRequired : BOOLEAN,
           invalidated : BOOLEAN, keepPrompt : BOOLEAN, decision : {"none", "stay", "stop"},
           asking : BOOLEAN, flight : {"none", "sent", "cancelled", "refused"},
           waiters : Seq(Who), polls : Nat]

TypeOK ==
    /\ jobs \in [Job -> Jobs]
    /\ gate \in [request : Requests, stopping : BOOLEAN, cancelled : SUBSET Attempt]
    /\ calls \in [Attempt -> [Thread -> Calls]]
    /\ screen \in Screens
    /\ probes \in [Attempt -> Probes]
    /\ faults \in Nat

\* A closed gate belongs to a request that was not cancelled.
GateOK == gate.request \notin gate.cancelled

\* What is known of a job from its row alone.
JobsOK ==
    \A j \in Job :
      /\ jobs[j].after \subseteq gate.cancelled
      /\ jobs[j].row = "none" => ~jobs[j].worker /\ ~jobs[j].kept /\ jobs[j].stoppedBy = {}

\* What a native call has read, while its request holds the gate: nothing that
\* it found at rest starts again.
HeldOK(c) ==
    /\ c.pc \in {"census", "after", "pending", "decide"} /\ ~c.starting =>
         /\ \A j \in Job : ~jobs[j].adm
         /\ \A j \in Job : j \in c.read \/ (c.pc = "census" /\ j \in c.todo) \/ jobs[j].row \notin Live
         /\ c.pc \in {"pending", "decide"} /\ ~c.workers => \A j \in Job : ~jobs[j].worker
         /\ c.pc = "decide" /\ ~c.workers /\ ~c.pending => \A j \in Job : ~jobs[j].kept
    /\ c.pc \in {"shutdown", "shutdownLast"} \/ (c.pc = "done" /\ c.op = "finish" /\ c.answer # "error")
         => Idle

\* What a native call knows of the jobs it read, whoever holds the gate.
ReadOK(c) ==
    /\ \A j \in c.read \cup c.tokens : jobs[j].row # "none"
    /\ c.pc \in {"pending", "decide"} /\ ~c.starting =>
         \A j \in c.read : ~jobs[j].adm /\ (~c.workers => ~jobs[j].worker)
    /\ c.pc = "decide" /\ ~c.starting /\ ~c.workers /\ ~c.pending => \A j \in c.read : ~jobs[j].kept
    /\ c.pc \in {"sealCheck", "sealRow"} =>
         c.todo \subseteq c.read /\ \A j \in c.todo : ~jobs[j].adm /\ ~jobs[j].worker /\ ~jobs[j].kept

\* What a native call is about to stop was there before its attempt was cancelled.
OwnOK(a, c) ==
    /\ \A j \in c.tokens : a \notin jobs[j].after
    /\ c.pc = "stopRow" => \A j \in c.read : a \notin jobs[j].after
    /\ c.pc = "sealRow" => \A j \in c.todo : a \notin jobs[j].after

CallOK(a, c) ==
    /\ c.pc \in StopPcs => c.op = "stop"
    /\ ReadOK(c) /\ OwnOK(a, c)
    /\ gate.request = a => HeldOK(c)

\* An attempt that can no longer close the gate.
Over(a, g, p) == a \in g.cancelled \/ (g.request # a /\ p.main \notin {"unused", "begin"})

\* The probe p of attempt a, the gate g and the screen s: the gate has its owner.
OwnerOK(a, g, p, s) ==
    /\ g.request = a => s.current = a /\ p.cancelRequired
    /\ p.main # "unused" /\ ~p.cancelRequired => Over(a, g, p)
    /\ p.flight = "cancelled" => a \in g.cancelled
    /\ p.flight # "none" => p.keepPrompt /\ (p.cancelRequired \/ p.gateActive)
    /\ p.invalidated /\ ~p.keepPrompt => s.current # a
    /\ p.main = "begin" => s.current = a \/ Over(a, g, p)
    /\ p.main \notin {"unused", "done"} => s.current \in {a, NoAttempt}
    /\ s.current = a => p.main # "unused"
    /\ s.prompt = "waiting" => s.current # NoAttempt
    /\ s.prompt = "waiting" /\ s.current = a => p.main \notin {"unused", "begin"}

\* Who waits for the cancellation waits once, and is there to go on.
WaitOK(a, p, s) ==
    LET w == p.waiters IN
    /\ p.flight = "none" <=> w = <<>>
    /\ w # <<>> => p.invalidated
    /\ \A i, k \in DOMAIN w : w[i] = w[k] => i = k
    /\ \A i \in DOMAIN w : /\ w[i] = "main" => p.main = "blocking"
                           /\ w[i] = "stop" => p.stop = "blocking"
                           /\ w[i] = "stay" => s.current = a
    /\ Len(w) <= 3

\* The native calls cs of an attempt and its script.
FinishOK(a, g, p, cs) ==
    /\ p.main \in {"unused", "begin"} => \A t \in Thread : cs[a][t].pc = "idle"
    /\ p.main = "finish" => cs[a]["main"].op = "finish"
    /\ p.main = "destroy" /\ g.request = a => Idle

ScriptOK(a, u) ==
    /\ u.probe.main = "unused" => u.probe = NoProbe
    /\ OwnerOK(a, gate, u.probe, u.screen)
    /\ WaitOK(a, u.probe, u.screen)
    /\ FinishOK(a, gate, u.probe, u.calls)

Inv == /\ TypeOK /\ GateOK /\ JobsOK
       /\ \A a \in Attempt : ScriptOK(a, State(a))
       /\ \A a \in Attempt, t \in Thread : CallOK(a, calls[a][t])
       /\ GateStands /\ StopsOnlyItsOwn

-----------------------------------------------------------------------------
\* What a step may do to a job while other calls look at it.

\* A job k that becomes k2: what has come to rest does not start again, unless
\* the gate is open and the job was never accepted.
Later(k, k2) ==
    /\ k.row # "none" => k2.row # "none" /\ k2.after = k.after
    /\ ~k.adm /\ (k.row # "none" \/ gate.request # NoAttempt) => ~k2.adm
    /\ ~k.adm /\ ~k.worker => ~k2.worker
    /\ ~k.worker /\ ~k.kept => ~k2.kept
    /\ ~k.adm /\ k.row \notin Live => k2.row \notin Live

JobsLater == \A j \in Job : Later(jobs[j], jobs'[j])

\* Idle stays idle behind a closed gate.
LEMMA IdleKept ==
  ASSUME JobsLater, gate.request # NoAttempt, Idle
  PROVE  Idle'
BY DEF JobsLater, Later, Idle, Admitted, Registered, Retained, ActiveRows

\* What a native call knows stays true while jobs go on.
LEMMA CallFrame ==
  ASSUME TypeOK, JobsLater, NEW a \in Attempt, NEW c \in Calls, CallOK(a, c),
         gate'.request = a => gate.request = a
  PROVE  CallOK(a, c)'
<1>1. c.read \subseteq Job /\ c.tokens \subseteq Job /\ c.todo \subseteq Job
  BY DEF Calls
<1>2. a # NoAttempt
  BY CloseConstants DEF Attempt, NoAttempt
<1>3. ReadOK(c)'
  BY <1>1 DEF CallOK, ReadOK, JobsLater, Later
<1>4. OwnOK(a, c)'
  BY <1>1 DEF CallOK, ReadOK, OwnOK, JobsLater, Later
<1>5. ASSUME gate'.request = a
      PROVE  HeldOK(c)'
  <2>1. HeldOK(c) /\ gate.request # NoAttempt
    BY <1>2, <1>5 DEF CallOK
  <2>2. c.pc \in {"shutdown", "shutdownLast"} \/ (c.pc = "done" /\ c.op = "finish" /\ c.answer # "error") => Idle'
    BY <2>1, IdleKept DEF HeldOK
  <2> QED
    BY <2>1, <2>2 DEF HeldOK, JobsLater, Later
<1> QED
  BY <1>3, <1>4, <1>5 DEF CallOK

\* The script of an attempt does not depend on the jobs, but for the last step.
LEMMA ScriptFrame ==
  ASSUME JobsLater, NEW a \in Attempt, NEW u, ScriptOK(a, u),
         gate'.request = gate.request, gate'.cancelled = gate.cancelled
  PROVE  ScriptOK(a, u)'
<1>1. a # NoAttempt
  BY CloseConstants DEF Attempt, NoAttempt
<1>2. OwnerOK(a, gate, u.probe, u.screen)' /\ WaitOK(a, u.probe, u.screen)'
  BY DEF ScriptOK, OwnerOK, WaitOK, Over
<1>3. FinishOK(a, gate, u.probe, u.calls)'
  BY <1>1, IdleKept DEF ScriptOK, FinishOK
<1> QED
  BY <1>2, <1>3 DEF ScriptOK

\* The owner of the gate is the attempt on the screen.
LEMMA OwnerOnScreen ==
  ASSUME \A a \in Attempt : ScriptOK(a, State(a)), gate.request \in Requests
  PROVE  GateHasOwner
BY DEF ScriptOK, OwnerOK, State, GateHasOwner, Requests

-----------------------------------------------------------------------------
\* The steps of a background job.

\* What every step of a job does to it.
LEMMA OneJob ==
  ASSUME Inv, NEW j \in Job, NEW k,
         jobs' = [jobs EXCEPT ![j] = k], k \in Jobs, Later(jobs[j], k),
         gate' = gate,
         k.after \subseteq gate.cancelled,
         k.row = "none" => ~k.worker /\ ~k.kept /\ k.stoppedBy = {},
         k.row = "sealed" => ~k.worker /\ ~k.kept,
         k.stoppedBy \cap k.after = {}
  PROVE  jobs' \in [Job -> Jobs] /\ JobsLater /\ JobsOK' /\ StopsOnlyItsOwn'
<1>1. jobs \in [Job -> Jobs]
  BY DEF Inv, TypeOK
<1>2. jobs'[j] = k /\ \A i \in Job : i # j => jobs'[i] = jobs[i]
  BY <1>1
<1>3. \A i \in Job : Later(jobs[i], jobs[i])
  BY DEF Later
<1>4. JobsLater
  BY <1>2, <1>3 DEF JobsLater
<1>5. JobsOK'
  BY <1>2 DEF Inv, JobsOK
<1>6. StopsOnlyItsOwn'
  BY <1>2 DEF Inv, StopsOnlyItsOwn, SealedAreOrphans, StopsItsOwnJobs
<1> QED
  BY <1>1, <1>4, <1>5, <1>6

\* A step of a job, which knows nothing of the closes, keeps the invariant.
LEMMA JobStepInv ==
  ASSUME Inv, screen.window = "open", JobStep
  PROVE  Inv'
<1>1. PICK j \in Job : \/ AdmitRequest(j) \/ Accept(j) \/ RegisterWorker(j) \/ LeaveAdmission(j)
                       \/ FinishJob(j) \/ RetainResult(j) \/ ReleaseWorker(j) \/ RetrySave(j)
  BY DEF JobStep
<1>2. /\ jobs \in [Job -> Jobs] /\ jobs[j] \in Jobs /\ gate.cancelled \subseteq Attempt
      /\ jobs[j].after \subseteq gate.cancelled
      /\ jobs[j].row = "none" => ~jobs[j].worker /\ ~jobs[j].kept /\ jobs[j].stoppedBy = {}
      /\ jobs[j].row = "sealed" => ~jobs[j].worker /\ ~jobs[j].kept
      /\ jobs[j].stoppedBy \cap jobs[j].after = {}
  BY DEF Inv, TypeOK, JobsOK, StopsOnlyItsOwn, SealedAreOrphans, StopsItsOwnJobs
<1>3. gate' = gate /\ calls' = calls /\ screen' = screen /\ probes' = probes /\ faults' \in Nat
  BY <1>1 DEF AdmitRequest, Accept, RegisterWorker, LeaveAdmission, FinishJob, RetainResult,
              ReleaseWorker, RetrySave, OnlyJobs, Fails, Inv, TypeOK
<1>4. jobs' \in [Job -> Jobs] /\ JobsLater /\ JobsOK' /\ StopsOnlyItsOwn'
  <2>1. CASE AdmitRequest(j)
    <3>1. PICK k : k = [jobs[j] EXCEPT !.adm = TRUE, !.after = gate.cancelled]
      OBVIOUS
    <3>2. jobs' = [jobs EXCEPT ![j] = k] /\ jobs[j].row = "none" /\ gate.request = NoAttempt
      BY <1>2, <2>1, <3>1 DEF AdmitRequest
    <3>3. k \in Jobs /\ k.row = "none" /\ k.after = gate.cancelled /\ k.worker = jobs[j].worker
          /\ k.kept = jobs[j].kept /\ k.stoppedBy = {}
      BY <1>2, <3>1, <3>2 DEF Jobs
    <3> QED
      BY <1>2, <1>3, <3>2, <3>3, OneJob DEF Later, Live
  <2>2. CASE Accept(j)
    <3>1. PICK k : k = [jobs[j] EXCEPT !.row = "active"]
      OBVIOUS
    <3>2. jobs' = [jobs EXCEPT ![j] = k] /\ k \in Jobs /\ jobs[j].adm /\ jobs[j].row = "none"
          /\ k.row = "active" /\ k.after = jobs[j].after /\ k.worker = jobs[j].worker
          /\ k.kept = jobs[j].kept /\ k.stoppedBy = jobs[j].stoppedBy /\ k.adm = jobs[j].adm
      BY <1>2, <2>2, <3>1 DEF Accept, Jobs, Rows
    <3> QED
      BY <1>2, <1>3, <3>2, OneJob DEF Later
  <2>3. CASE RegisterWorker(j)
    <3>1. PICK k : k = [jobs[j] EXCEPT !.worker = TRUE]
      OBVIOUS
    <3>2. jobs' = [jobs EXCEPT ![j] = k] /\ k \in Jobs /\ jobs[j].adm /\ jobs[j].row = "active"
          /\ k.row = "active" /\ k.after = jobs[j].after
          /\ k.kept = jobs[j].kept /\ k.stoppedBy = jobs[j].stoppedBy /\ k.adm = jobs[j].adm
      BY <1>2, <2>3, <3>1 DEF RegisterWorker, Jobs
    <3> QED
      BY <1>2, <1>3, <3>2, OneJob DEF Later
  <2>4. CASE LeaveAdmission(j)
    <3>1. PICK k : k = [jobs[j] EXCEPT !.adm = FALSE]
      OBVIOUS
    <3>2. jobs' = [jobs EXCEPT ![j] = k] /\ k \in Jobs /\ ~k.adm
          /\ k.row = jobs[j].row /\ k.after = jobs[j].after /\ k.worker = jobs[j].worker
          /\ k.kept = jobs[j].kept /\ k.stoppedBy = jobs[j].stoppedBy
      BY <1>2, <2>4, <3>1 DEF LeaveAdmission, Jobs
    <3> QED
      BY <1>2, <1>3, <3>2, OneJob DEF Later
  <2>5. CASE FinishJob(j)
    <3>1. PICK k : k = [jobs[j] EXCEPT !.row = "ended"]
      OBVIOUS
    <3>2. jobs' = [jobs EXCEPT ![j] = k] /\ k \in Jobs /\ jobs[j].row # "none"
          /\ k.row = "ended" /\ k.after = jobs[j].after /\ k.worker = jobs[j].worker
          /\ k.kept = jobs[j].kept /\ k.stoppedBy = jobs[j].stoppedBy /\ k.adm = jobs[j].adm
      BY <1>2, <2>5, <3>1 DEF FinishJob, Jobs, Rows, Live
    <3> QED
      BY <1>2, <1>3, <3>2, OneJob DEF Later, Live
  <2>6. CASE RetainResult(j)
    <3>1. PICK k : k = [jobs[j] EXCEPT !.kept = TRUE]
      OBVIOUS
    <3>2. jobs' = [jobs EXCEPT ![j] = k] /\ k \in Jobs /\ jobs[j].worker /\ jobs[j].row \in Live
          /\ k.row = jobs[j].row /\ k.after = jobs[j].after /\ k.worker = jobs[j].worker
          /\ k.stoppedBy = jobs[j].stoppedBy /\ k.adm = jobs[j].adm
      BY <1>2, <2>6, <3>1 DEF RetainResult, Jobs
    <3> QED
      BY <1>2, <1>3, <3>2, OneJob DEF Later, Live
  <2>7. CASE ReleaseWorker(j)
    <3>1. PICK k : k = [jobs[j] EXCEPT !.worker = FALSE]
      OBVIOUS
    <3>2. jobs' = [jobs EXCEPT ![j] = k] /\ k \in Jobs /\ ~k.worker /\ jobs[j].worker
          /\ k.row = jobs[j].row /\ k.after = jobs[j].after
          /\ k.kept = jobs[j].kept /\ k.stoppedBy = jobs[j].stoppedBy /\ k.adm = jobs[j].adm
      BY <1>2, <2>7, <3>1 DEF ReleaseWorker, Jobs
    <3> QED
      BY <1>2, <1>3, <3>2, OneJob DEF Later
  <2>8. CASE RetrySave(j)
    <3>1. PICK k : k = [jobs[j] EXCEPT !.kept = FALSE, !.row = "ended"]
      OBVIOUS
    <3>2. jobs' = [jobs EXCEPT ![j] = k] /\ k \in Jobs /\ ~k.kept /\ jobs[j].row # "none"
          /\ k.row = "ended" /\ k.after = jobs[j].after /\ k.worker = jobs[j].worker
          /\ k.stoppedBy = jobs[j].stoppedBy /\ k.adm = jobs[j].adm
      BY <1>2, <2>8, <3>1 DEF RetrySave, Jobs, Rows, Live
    <3> QED
      BY <1>2, <1>3, <3>2, OneJob DEF Later, Live
  <2> QED
    BY <1>1, <2>1, <2>2, <2>3, <2>4, <2>5, <2>6, <2>7, <2>8
<1>5. TypeOK' /\ GateOK'
  BY <1>3, <1>4 DEF Inv, TypeOK, GateOK
<1>6. ASSUME NEW a \in Attempt
      PROVE  ScriptOK(a, State(a))'
  <2>1. PICK u : u = State(a)
    OBVIOUS
  <2>2. ScriptOK(a, u)'
    BY <1>3, <1>4, <2>1, ScriptFrame DEF Inv
  <2>3. State(a)' = u
    BY <1>3, <2>1 DEF State
  <2> QED
    BY <2>2, <2>3 DEF ScriptOK
<1>7. ASSUME NEW a \in Attempt, NEW t \in Thread
      PROVE  CallOK(a, calls[a][t])'
  <2>1. PICK c \in Calls : c = calls[a][t]
    BY DEF Inv, TypeOK
  <2>2. CallOK(a, c)'
    BY <1>3, <1>4, <2>1, CallFrame DEF Inv
  <2> QED
    BY <1>3, <2>1, <2>2
<1>8. GateStands'
  BY <1>3, <1>5, <1>6, OwnerOnScreen DEF GateStands, DestroyedIdle, GateHasOwner, Inv, TypeOK, ScriptOK,
                                         OwnerOK, State, Requests
<1> QED
  BY <1>4, <1>5, <1>6, <1>7, <1>8 DEF Inv

-----------------------------------------------------------------------------
\* The steps of a native call.

\* What has to be shown of a step that makes d of the record of a call.
LEMMA NativeFrame ==
  ASSUME Inv, screen.window = "open", NEW a \in Attempt, NEW t \in Thread, NEW d \in Calls,
         calls' = [calls EXCEPT ![a][t] = d], d.op = calls[a][t].op, calls[a][t].pc # "idle",
         screen' = screen, probes' = probes, faults' \in Nat,
         gate' \in [request : Requests, stopping : BOOLEAN, cancelled : SUBSET Attempt],
         gate'.request = gate.request, gate'.cancelled = gate.cancelled,
         jobs' \in [Job -> Jobs], JobsLater, JobsOK', StopsOnlyItsOwn', CallOK(a, d)'
  PROVE  Inv'
<1>1. calls \in [Attempt -> [Thread -> Calls]]
  BY DEF Inv, TypeOK
<1>2. /\ calls' \in [Attempt -> [Thread -> Calls]] /\ calls'[a][t] = d
      /\ \A b \in Attempt, s \in Thread : b # a \/ s # t => calls'[b][s] = calls[b][s]
  BY <1>1
<1>3. TypeOK' /\ GateOK'
  BY <1>2 DEF Inv, TypeOK, GateOK
<1>4. ASSUME NEW b \in Attempt
      PROVE  ScriptOK(b, State(b))'
  <2>1. PICK u : u = State(b)
    OBVIOUS
  <2>2. ScriptOK(b, u)'
    BY <2>1, ScriptFrame DEF Inv
  <2>3. PICK v : v = State(b)'
    OBVIOUS
  <2>4. v.probe = u.probe /\ v.screen = u.screen /\ u.calls = calls /\ v.calls = calls'
    BY <2>1, <2>3 DEF State
  <2>5. u.probe.main \in {"unused", "begin"} => \A s \in Thread : v.calls[b][s].pc = "idle"
    BY <1>2, <2>1, <2>4 DEF Inv, ScriptOK, FinishOK
  <2>6. u.probe.main = "finish" => v.calls[b]["main"].op = "finish"
    BY <1>2, <2>1, <2>4 DEF Inv, ScriptOK, FinishOK, Thread
  <2>7. ScriptOK(b, v)'
    BY <2>2, <2>4, <2>5, <2>6 DEF ScriptOK, FinishOK
  <2> QED
    BY <2>3, <2>7 DEF ScriptOK
<1>5. ASSUME NEW b \in Attempt, NEW s \in Thread
      PROVE  CallOK(b, calls[b][s])'
  <2>1. PICK c \in Calls : c = calls'[b][s]
    BY <1>2
  <2>2. CASE b = a /\ s = t
    BY <1>2, <2>2
  <2>3. CASE c = calls[b][s]
    <3>1. CallOK(b, c)'
      BY <2>3, CallFrame DEF Inv
    <3> QED
      BY <2>1, <3>1
  <2> QED
    BY <1>2, <2>1, <2>2, <2>3
<1>6. GateStands'
  BY <1>3, <1>4, OwnerOnScreen DEF GateStands, DestroyedIdle, GateHasOwner, Inv, TypeOK, ScriptOK, OwnerOK, State, Requests
<1> QED
  BY <1>3, <1>4, <1>5, <1>6 DEF Inv

\* A step of a call that leaves the jobs alone.
LEMMA ReadingStep ==
  ASSUME Inv, screen.window = "open", NEW a \in Attempt, NEW t \in Thread, NEW d \in Calls,
         CallStep(a, t, d, jobs), d.op = calls[a][t].op, calls[a][t].pc # "idle",
         faults' \in Nat, gate' = gate \/ gate' = [gate EXCEPT !.stopping = TRUE], CallOK(a, d)
  PROVE  Inv'
<1>1. /\ calls' = [calls EXCEPT ![a][t] = d] /\ screen' = screen /\ probes' = probes /\ jobs' = jobs
      /\ gate' \in [request : Requests, stopping : BOOLEAN, cancelled : SUBSET Attempt]
      /\ gate'.request = gate.request /\ gate'.cancelled = gate.cancelled
  BY DEF CallStep, Inv, TypeOK
<1>2. JobsLater /\ jobs' \in [Job -> Jobs]
  BY <1>1 DEF JobsLater, Later, Inv, TypeOK
<1>3. JobsOK' /\ StopsOnlyItsOwn'
  BY <1>1 DEF Inv, JobsOK, StopsOnlyItsOwn, SealedAreOrphans, StopsItsOwnJobs
<1>4. CallOK(a, d)'
  BY <1>1, <1>2, CallFrame DEF Inv
<1> QED
  BY <1>1, <1>2, <1>3, <1>4, NativeFrame

\* A call that ends with an answer knows nothing, but a close that is finished.
LEMMA AnsweredOK ==
  ASSUME NEW a \in Attempt, NEW c \in Calls, NEW ans \in Answers,
         ans = "error" \/ c.op # "finish" \/ gate.request # a \/ Idle
  PROVE  /\ Answered(c, ans) \in Calls /\ Answered(c, ans).op = c.op
         /\ CallOK(a, Answered(c, ans))
<1>1. PICK d : d = Answered(c, ans)
  OBVIOUS
<1>2. /\ d \in Calls /\ d.op = c.op /\ d.pc = "done" /\ d.answer = ans /\ d.read = {} /\ d.tokens = {}
  BY <1>1 DEF Answered, NoCall, Calls, Pcs, Answers, Ops
<1>3. CallOK(a, d)
  BY <1>2 DEF CallOK, ReadOK, OwnOK, HeldOK, StopPcs
<1> QED
  BY <1>1, <1>2, <1>3

\* An error ends the call, or leaves the handles that were captured to cancel.
LEMMA FailedOK ==
  ASSUME NEW a \in Attempt, NEW c \in Calls, CallOK(a, c)
  PROVE  Failed(c) \in Calls /\ Failed(c).op = c.op /\ CallOK(a, Failed(c))
<1>1. CASE c.op = "stop" /\ c.pc \in {"confirm", "list", "check", "stopRow"}
  <2>1. PICK d : d = [c EXCEPT !.pc = "cancel", !.failed = TRUE]
    OBVIOUS
  <2>2. /\ d \in Calls /\ d.op = "stop" /\ d.pc = "cancel" /\ d.read = c.read /\ d.tokens = c.tokens
    BY <1>1, <2>1 DEF Calls, Pcs, StopPcs
  <2>3. CallOK(a, d)
    BY <2>2 DEF CallOK, ReadOK, OwnOK, HeldOK, StopPcs
  <2> QED
    BY <1>1, <2>1, <2>2, <2>3 DEF Failed
<1>2. CASE ~(c.op = "stop" /\ c.pc \in {"confirm", "list", "check", "stopRow"})
  BY <1>2, AnsweredOK DEF Failed, Answers
<1> QED
  BY <1>1, <1>2

\* The reads of a status follow each other.
LEMMA StatusReads ==
  /\ AfterRead("before") = "census" /\ AfterRead("census") = "after"
  /\ AfterRead("after") = "pending" /\ AfterRead("pending") = "decide"
<1>1. /\ StatusOrder[1] = "before" /\ StatusOrder[2] = "census"
      /\ StatusOrder[3] = "after" /\ StatusOrder[4] = "pending"
  BY DEF StatusOrder
<1>2. (CHOOSE i \in 1 .. 4 : StatusOrder[i] = "before") = 1
  BY <1>1
<1>3. (CHOOSE i \in 1 .. 4 : StatusOrder[i] = "census") = 2
  BY <1>1
<1>4. (CHOOSE i \in 1 .. 4 : StatusOrder[i] = "after") = 3
  BY <1>1
<1>5. (CHOOSE i \in 1 .. 4 : StatusOrder[i] = "pending") = 4
  BY <1>1
<1> QED
  BY <1>1, <1>2, <1>3, <1>4, <1>5 DEF AfterRead

\* What an invariant state says of one call.
LEMMA CallFacts ==
  ASSUME Inv, NEW a \in Attempt, NEW t \in Thread, NEW c, c = calls[a][t]
  PROVE  /\ c \in Calls /\ c.read \subseteq Job /\ c.tokens \subseteq Job /\ c.todo \subseteq Job
         /\ CallOK(a, c) /\ Failed(c) \in Calls /\ Failed(c).op = c.op /\ CallOK(a, Failed(c))
         /\ jobs \in [Job -> Jobs] /\ a # NoAttempt
<1>1. c \in Calls /\ CallOK(a, c) /\ jobs \in [Job -> Jobs]
  BY DEF Inv, TypeOK
<1>2. a # NoAttempt
  BY CloseConstants DEF Attempt, NoAttempt
<1> QED
  BY <1>1, <1>2, FailedOK DEF Calls

\* What may fail, fails within the bound.
LEMMA FaultsCounted ==
  ASSUME TypeOK, NEW bad \in {FALSE} \cup {MayFail}, Fails(bad)
  PROVE  faults' \in Nat
BY DEF TypeOK, Fails, MayFail

\* The first read of a status: who is being admitted.
LEMMA ReadBeforeInv ==
  ASSUME Inv, screen.window = "open", NEW a \in Attempt, NEW t \in Thread, NEW c, c = calls[a][t],
         ReadBefore(a, t, c)
  PROVE  Inv'
<1>1. c \in Calls /\ CallOK(a, c) /\ Failed(c) \in Calls /\ Failed(c).op = c.op /\ CallOK(a, Failed(c))
  BY CallFacts
<1>2. PICK d : d = [c EXCEPT !.starting = Admitted # {}, !.todo = Job, !.read = {}, !.pc = "census"]
  OBVIOUS
<1>3. /\ d.op = c.op /\ d.pc = "census" /\ (d.starting <=> Admitted # {}) /\ d.todo = Job /\ d.read = {}
      /\ d.tokens = c.tokens /\ d \in Calls
  BY <1>1, <1>2, ZenonT(60) DEF Calls, Pcs, ReadPcs
<1>4. CallOK(a, d)
  BY <1>1, <1>3 DEF CallOK, ReadOK, OwnOK, HeldOK, StopPcs, Admitted
<1>5. CallStep(a, t, d, jobs) \/ CallStep(a, t, Failed(c), jobs)
  BY <1>2, StatusReads DEF ReadBefore
<1>6. c.pc # "idle" /\ gate' = gate /\ faults' \in Nat
  BY DEF ReadBefore, Inv, TypeOK
<1> QED
  BY <1>1, <1>3, <1>4, <1>5, <1>6, ReadingStep

\* One project is read: it is taken down, or at rest for good.
LEMMA CensusInv ==
  ASSUME Inv, screen.window = "open", NEW a \in Attempt, NEW t \in Thread, NEW c, c = calls[a][t],
         ReadCensus(a, t, c) \/ ListRows(a, t, c)
  PROVE  Inv'
<1>1. /\ c \in Calls /\ CallOK(a, c) /\ Failed(c) \in Calls /\ Failed(c).op = c.op /\ CallOK(a, Failed(c))
      /\ jobs \in [Job -> Jobs]
  BY CallFacts
<1>2. PICK next \in {"after", "check"} :
        /\ Census(a, t, c, next)
        /\ next = "after" => c.pc = "census"
        /\ next = "check" => c.pc = "list"
  BY StatusReads DEF ReadCensus, ListRows
<1>3. c.pc \in {"census", "list"}
  BY DEF ReadCensus, ListRows
<1>4. gate' = gate
  BY <1>2 DEF Census
<1>5. PICK bad \in {FALSE} \cup {MayFail} :
        /\ Fails(bad)
        /\ \/ CallStep(a, t, Failed(c), jobs)
           \/ \E j \in c.todo :
                CallStep(a, t, [c EXCEPT !.read = @ \cup ({j} \cap ActiveRows), !.todo = @ \ {j},
                                         !.pc = IF c.todo = {j} THEN next ELSE @], jobs)
  BY <1>2 DEF Census
<1>6. faults' \in Nat
  BY <1>5, FaultsCounted DEF Inv
<1>7. CASE CallStep(a, t, Failed(c), jobs)
  BY <1>1, <1>3, <1>4, <1>6, <1>7, ReadingStep
<1>8. ASSUME NEW j \in c.todo,
             CallStep(a, t, [c EXCEPT !.read = @ \cup ({j} \cap ActiveRows), !.todo = @ \ {j},
                                      !.pc = IF c.todo = {j} THEN next ELSE @], jobs)
      PROVE  Inv'
  <2>1. PICK d : d = [c EXCEPT !.read = @ \cup ({j} \cap ActiveRows), !.todo = @ \ {j},
                               !.pc = IF c.todo = {j} THEN next ELSE @]
    OBVIOUS
  <2>2. /\ d \in Calls /\ d.op = c.op /\ d.pc = (IF c.todo = {j} THEN next ELSE c.pc)
        /\ d.read = c.read \cup ({j} \cap ActiveRows) /\ d.todo = c.todo \ {j}
        /\ d.tokens = c.tokens /\ d.starting = c.starting
    <3>1. PICK seen, left, q : /\ seen = c.read \cup ({j} \cap ActiveRows) /\ left = c.todo \ {j}
                               /\ q = (IF c.todo = {j} THEN next ELSE c.pc)
      OBVIOUS
    <3>2. c.read \in SUBSET Job /\ c.todo \in SUBSET Job /\ c.pc \in Pcs
      BY <1>1 DEF Calls
    <3>3. seen \in SUBSET Job /\ left \in SUBSET Job
      BY <3>1, <3>2 DEF ActiveRows
    <3>4. q \in Pcs
      BY <3>1, <3>2, <1>2 DEF Pcs, ReadPcs, StopPcs
    <3>5. d = [c EXCEPT !.read = seen, !.todo = left, !.pc = q]
      BY <2>1, <3>1, Zenon
    <3>6. /\ d \in Calls /\ d.op = c.op /\ d.pc = q /\ d.read = seen /\ d.todo = left
          /\ d.tokens = c.tokens /\ d.starting = c.starting
      BY <1>1, <3>3, <3>4, <3>5 DEF Calls
    <3> QED
      BY <3>1, <3>6
  <2>3. j \in Job /\ (j \in ActiveRows <=> jobs[j].row \in Live) /\ "none" \notin Live
    BY <1>1 DEF Calls, ActiveRows, Live
  <2>4. ReadOK(d) /\ OwnOK(a, d)
    BY <1>1, <1>2, <1>3, <2>2, <2>3 DEF CallOK, ReadOK, OwnOK
  <2>5. ASSUME gate.request = a
        PROVE  HeldOK(d)
    BY <1>1, <1>2, <1>3, <2>2, <2>3, <2>5 DEF CallOK, HeldOK
  <2>6. d.pc \in StopPcs => d.op = "stop"
    BY <1>1, <1>2, <1>3, <2>2 DEF CallOK, StopPcs
  <2>7. CallOK(a, d)
    BY <2>4, <2>5, <2>6 DEF CallOK
  <2> QED
    BY <1>3, <1>4, <1>6, <1>8, <2>1, <2>2, <2>7, ReadingStep
<1> QED
  BY <1>5, <1>7, <1>8

\* The second look at the admissions, and the workers.
LEMMA ReadAfterInv ==
  ASSUME Inv, screen.window = "open", NEW a \in Attempt, NEW t \in Thread, NEW c, c = calls[a][t],
         ReadAfter(a, t, c)
  PROVE  Inv'
<1>1. /\ c \in Calls /\ CallOK(a, c) /\ Failed(c) \in Calls /\ Failed(c).op = c.op /\ CallOK(a, Failed(c))
      /\ c.read \subseteq Job
  BY CallFacts
<1> PICK starting \in BOOLEAN : starting = (c.starting \/ Admitted # {})
  OBVIOUS
<1> PICK workers \in BOOLEAN : workers = (Registered # {})
  OBVIOUS
<1> PICK stopping \in BOOLEAN : stopping = gate.stopping
  BY DEF Inv, TypeOK
<1>2. PICK d : d = [c EXCEPT !.starting = starting, !.workers = workers,
                             !.stopping = stopping, !.pc = "pending"]
  OBVIOUS
<1>3. /\ d.op = c.op /\ d.pc = "pending" /\ d.starting = starting
      /\ d.workers = workers /\ d.read = c.read
      /\ d.tokens = c.tokens /\ d \in Calls
  <2>1. PICK e : e = [c EXCEPT !.starting = starting, !.workers = workers]
    OBVIOUS
  <2>2. e \in Calls /\ e.starting = starting /\ e.workers = workers
        /\ e.op = c.op /\ e.read = c.read /\ e.tokens = c.tokens
    <3>1. e \in Calls
      <4>1. PICK x : x = [c EXCEPT !.starting = starting]
        OBVIOUS
      <4>2. x \in Calls
        BY <1>1, <4>1, ZenonT(60) DEF Calls
      <4>3. e = [x EXCEPT !.workers = workers]
        BY <2>1, <4>1
      <4> QED
        BY <4>2, <4>3 DEF Calls
    <3>2. e.starting = starting /\ e.workers = workers
      BY <1>1, <2>1 DEF Calls
    <3> QED
      BY <1>1, <2>1, <3>1, <3>2 DEF Calls
  <2>3. d = [e EXCEPT !.stopping = stopping, !.pc = "pending"]
    BY <1>2, <2>1
  <2> QED
    BY <2>2, <2>3 DEF Calls, Pcs, ReadPcs
<1>4. c.pc = "after" /\ gate' = gate /\ faults' \in Nat
  BY DEF ReadAfter, Inv, TypeOK
<1>5. CallOK(a, d)
  BY <1>1, <1>3, <1>4 DEF CallOK, ReadOK, OwnOK, HeldOK, StopPcs, Admitted, Registered
<1>6. CallStep(a, t, d, jobs) \/ CallStep(a, t, Failed(c), jobs)
  BY <1>2, StatusReads DEF ReadAfter
<1> QED
  BY <1>1, <1>3, <1>4, <1>5, <1>6, ReadingStep

\* The retained results.
LEMMA ReadPendingInv ==
  ASSUME Inv, screen.window = "open", NEW a \in Attempt, NEW t \in Thread, NEW c, c = calls[a][t],
         ReadPending(a, t, c)
  PROVE  Inv'
<1>1. c \in Calls /\ CallOK(a, c) /\ c.read \subseteq Job
  BY CallFacts
<1>2. PICK d : d = [c EXCEPT !.pending = Retained # {}, !.pc = "decide"]
  OBVIOUS
<1>3. /\ d.op = c.op /\ d.pc = "decide" /\ d.starting = c.starting /\ d.workers = c.workers
      /\ (d.pending <=> Retained # {}) /\ d.read = c.read
      /\ d.tokens = c.tokens /\ d \in Calls
  BY <1>1, <1>2 DEF Calls, Pcs, ReadPcs
<1>4. c.pc = "pending" /\ gate' = gate /\ faults' \in Nat
  BY DEF ReadPending, Inv, TypeOK
<1>5. CallOK(a, d)
  BY <1>1, <1>3, <1>4 DEF CallOK, ReadOK, OwnOK, HeldOK, StopPcs, Retained
<1>6. CallStep(a, t, d, jobs)
  BY <1>2, StatusReads DEF ReadPending
<1> QED
  BY <1>1, <1>3, <1>4, <1>5, <1>6, ReadingStep

\* The decision: what is ready is at rest while the request holds the gate.
LEMMA DecideInv ==
  ASSUME Inv, screen.window = "open", NEW a \in Attempt, NEW t \in Thread, NEW c, c = calls[a][t],
         Decide(a, t, c)
  PROVE  Inv'
<1>1. /\ c \in Calls /\ CallOK(a, c) /\ Failed(c) \in Calls /\ Failed(c).op = c.op /\ CallOK(a, Failed(c))
      /\ c.read \subseteq Job
  BY CallFacts
<1>2. c.pc = "decide" /\ gate' = gate /\ faults' \in Nat
  BY DEF Decide, Inv, TypeOK
<1>3. CASE Orphans(c) /\ CallStep(a, t, [c EXCEPT !.pc = "sealCheck", !.todo = c.read], jobs)
  <2>1. PICK d : d = [c EXCEPT !.pc = "sealCheck", !.todo = c.read]
    OBVIOUS
  <2>2. /\ d \in Calls /\ d.op = c.op /\ d.pc = "sealCheck" /\ d.read = c.read /\ d.todo = c.read
        /\ d.tokens = c.tokens
    BY <1>1, <2>1, ZenonT(60) DEF Calls, Pcs, ReadPcs
  <2>3. CallOK(a, d)
    BY <1>1, <1>2, <1>3, <2>2 DEF CallOK, ReadOK, OwnOK, HeldOK, StopPcs, Orphans
  <2> QED
    BY <1>2, <1>3, <2>1, <2>2, <2>3, ReadingStep
<1>4. CASE CallStep(a, t, Failed(c), jobs)
  BY <1>1, <1>2, <1>4, ReadingStep
<1>5. CASE /\ IsCurrentRequest(a) /\ Ready(c) /\ CallStep(a, t, [c EXCEPT !.pc = "shutdown"], jobs)
  <2>1. PICK d : d = [c EXCEPT !.pc = "shutdown"]
    OBVIOUS
  <2>2. d \in Calls /\ d.op = c.op /\ d.pc = "shutdown" /\ d.read = c.read /\ d.tokens = c.tokens
    BY <1>1, <2>1 DEF Calls, Pcs
  <2>3. Idle
    BY <1>1, <1>2, <1>5 DEF CallOK, HeldOK, Ready, IsCurrentRequest, Idle, Admitted, Registered,
                            Retained, ActiveRows
  <2>4. CallOK(a, d)
    BY <1>1, <2>2, <2>3 DEF CallOK, ReadOK, OwnOK, HeldOK, StopPcs
  <2> QED
    BY <1>2, <1>5, <2>1, <2>2, <2>4, ReadingStep
<1>6. CASE c.op # "finish" /\ CallStep(a, t, Answered(c, StatusAnswer(c)), jobs)
  <2>1. StatusAnswer(c) \in Answers
    BY <1>1 DEF StatusAnswer, Answers
  <2>2. PICK d : d = Answered(c, StatusAnswer(c))
    OBVIOUS
  <2>3. d \in Calls /\ d.op = c.op /\ CallOK(a, d)
    BY <1>1, <1>6, <2>1, <2>2, AnsweredOK
  <2> QED
    BY <1>2, <1>6, <2>2, <2>3, ReadingStep
<1> QED
  BY <1>3, <1>4, <1>5, <1>6 DEF Decide

\* The request is looked at again before a row is interrupted or stopped.
LEMMA ChecksInv ==
  ASSUME Inv, screen.window = "open", NEW a \in Attempt, NEW t \in Thread, NEW c, c = calls[a][t],
         SealCheck(a, t, c) \/ StopCheck(a, t, c)
  PROVE  Inv'
<1>1. /\ c \in Calls /\ CallOK(a, c) /\ Failed(c) \in Calls /\ Failed(c).op = c.op /\ CallOK(a, Failed(c))
      /\ c.read \subseteq Job
  BY CallFacts
<1>2. c.pc \in {"sealCheck", "check"} /\ gate' = gate /\ faults' \in Nat
  BY DEF SealCheck, StopCheck, Inv, TypeOK
<1>3. StillCurrent(a) => \A j \in Job : a \notin jobs[j].after
  BY DEF StillCurrent, IsCurrentRequest, Inv, JobsOK, GateOK
<1>4. CASE CallStep(a, t, Failed(c), jobs)
  BY <1>1, <1>2, <1>4, ReadingStep
<1>5. ASSUME NEW next \in {"sealRow", "cancel", "stopRow"},
             CallStep(a, t, [c EXCEPT !.pc = next], jobs),
             next = "sealRow" => c.pc = "sealCheck" /\ StillCurrent(a),
             next = "stopRow" => c.pc = "check" /\ StillCurrent(a),
             next = "cancel" => c.pc = "check"
      PROVE  Inv'
  <2>1. PICK d : d = [c EXCEPT !.pc = next]
    OBVIOUS
  <2>2. /\ d \in Calls /\ d.op = c.op /\ d.pc = next /\ d.read = c.read /\ d.tokens = c.tokens /\ d.todo = c.todo
    BY <1>1, <2>1 DEF Calls, Pcs, ReadPcs, StopPcs
  <2>3. CallOK(a, d)
    BY <1>1, <1>2, <1>3, <1>5, <2>2 DEF CallOK, ReadOK, OwnOK, HeldOK, StopPcs
  <2> QED
    BY <1>2, <1>5, <2>1, <2>2, <2>3, ReadingStep
<1>6. CASE SealCheck(a, t, c)
  <2>1. \/ CallStep(a, t, Failed(c), jobs)
        \/ CallStep(a, t, [c EXCEPT !.pc = "sealRow"], jobs) /\ c.pc = "sealCheck" /\ StillCurrent(a)
    BY <1>6 DEF SealCheck
  <2> QED
    BY <1>4, <1>5, <2>1
<1>7. CASE StopCheck(a, t, c)
  <2>1. \/ CallStep(a, t, Failed(c), jobs)
        \/ CallStep(a, t, [c EXCEPT !.pc = "stopRow"], jobs) /\ c.pc = "check" /\ StillCurrent(a)
        \/ CallStep(a, t, [c EXCEPT !.pc = "cancel"], jobs) /\ c.pc = "check"
    BY <1>7 DEF StopCheck
  <2> QED
    BY <1>4, <1>5, <2>1
<1> QED
  BY <1>6, <1>7

\* The handles of the workers are captured, and the stop is confirmed.
LEMMA CaptureInv ==
  ASSUME Inv, screen.window = "open", NEW a \in Attempt, NEW t \in Thread, NEW c, c = calls[a][t],
         Capture(a, t, c) \/ ConfirmStop(a, t, c)
  PROVE  Inv'
<1>1. /\ c \in Calls /\ CallOK(a, c) /\ Failed(c) \in Calls /\ Failed(c).op = c.op /\ CallOK(a, Failed(c))
      /\ jobs \in [Job -> Jobs]
  BY CallFacts
<1>2. /\ c.pc \in {"capture", "confirm"} /\ faults' \in Nat
      /\ gate' = gate \/ gate' = [gate EXCEPT !.stopping = TRUE]
  BY DEF Capture, ConfirmStop, Inv, TypeOK
<1>3. CASE CallStep(a, t, Failed(c), jobs)
  BY <1>1, <1>2, <1>3, ReadingStep
<1>4. CASE /\ IsCurrentRequest(a) /\ c.pc = "capture"
           /\ CallStep(a, t, [c EXCEPT !.tokens = Registered, !.pc = "confirm"], jobs)
  <2>1. PICK d : d = [c EXCEPT !.tokens = Registered, !.pc = "confirm"]
    OBVIOUS
  <2>2. /\ d \in Calls /\ d.op = c.op /\ d.pc = "confirm" /\ d.read = c.read /\ d.tokens = Registered
    BY <1>1, <2>1 DEF Calls, Pcs, StopPcs, Registered
  <2>3. \A j \in Registered : jobs[j].row # "none" /\ a \notin jobs[j].after
    BY <1>4 DEF Inv, JobsOK, GateOK, IsCurrentRequest, Registered
  <2>4. CallOK(a, d)
    BY <1>1, <1>4, <2>2, <2>3 DEF CallOK, ReadOK, OwnOK, HeldOK, StopPcs
  <2> QED
    BY <1>2, <1>4, <2>1, <2>2, <2>4, ReadingStep
<1>5. CASE c.pc = "confirm" /\ CallStep(a, t, [c EXCEPT !.pc = "list", !.todo = Job], jobs)
  <2>1. PICK d : d = [c EXCEPT !.pc = "list", !.todo = Job]
    OBVIOUS
  <2>2. /\ d \in Calls /\ d.op = c.op /\ d.pc = "list" /\ d.read = c.read /\ d.tokens = c.tokens
    BY <1>1, <2>1 DEF Calls, Pcs, StopPcs
  <2>3. CallOK(a, d)
    BY <1>1, <1>5, <2>2 DEF CallOK, ReadOK, OwnOK, HeldOK, StopPcs
  <2> QED
    BY <1>2, <1>5, <2>1, <2>2, <2>3, ReadingStep
<1> QED
  BY <1>3, <1>4, <1>5 DEF Capture, ConfirmStop

\* The last looks of a close that is ready.
LEMMA ShutdownInv ==
  ASSUME Inv, screen.window = "open", NEW a \in Attempt, NEW t \in Thread, NEW c, c = calls[a][t],
         ShutdownAppServer(a, t, c) \/ FinishClose(a, t, c)
  PROVE  Inv'
<1>1. /\ c \in Calls /\ CallOK(a, c) /\ Failed(c) \in Calls /\ Failed(c).op = c.op /\ CallOK(a, Failed(c))
  BY CallFacts
<1>2. c.pc \in {"shutdown", "shutdownLast"} /\ gate' = gate /\ faults' \in Nat
  BY DEF ShutdownAppServer, FinishClose, Inv, TypeOK
<1>3. CASE CallStep(a, t, Failed(c), jobs)
  BY <1>1, <1>2, <1>3, ReadingStep
<1>4. CASE IsCurrentRequest(a) /\ CallStep(a, t, [c EXCEPT !.pc = "shutdownLast"], jobs)
  <2>1. PICK d : d = [c EXCEPT !.pc = "shutdownLast"]
    OBVIOUS
  <2>2. /\ d \in Calls /\ d.op = c.op /\ d.pc = "shutdownLast" /\ d.read = c.read /\ d.tokens = c.tokens
    BY <1>1, <2>1 DEF Calls, Pcs
  <2>3. CallOK(a, d)
    BY <1>1, <1>2, <1>4, <2>2 DEF CallOK, ReadOK, OwnOK, HeldOK, StopPcs, IsCurrentRequest
  <2> QED
    BY <1>2, <1>4, <2>1, <2>2, <2>3, ReadingStep
<1>5. CASE IsCurrentRequest(a) /\ CallStep(a, t, Answered(c, "ready"), jobs)
  <2>1. PICK d : d = Answered(c, "ready")
    OBVIOUS
  <2>2. Idle
    BY <1>1, <1>2, <1>5 DEF CallOK, HeldOK, IsCurrentRequest
  <2>3. d \in Calls /\ d.op = c.op /\ CallOK(a, d)
    BY <1>1, <2>1, <2>2, AnsweredOK DEF Answers
  <2> QED
    BY <1>2, <1>5, <2>1, <2>3, ReadingStep
<1> QED
  BY <1>3, <1>4, <1>5 DEF ShutdownAppServer, FinishClose

\* A stop of attempt a asks workers to stop and seals rows no worker holds.
StoppedSome(a) ==
  \A j \in Job : \/ jobs'[j] = jobs[j]
                 \/ /\ jobs[j].row # "none" /\ a \notin jobs[j].after
                    /\ jobs'[j].adm = jobs[j].adm /\ jobs'[j].worker = jobs[j].worker
                    /\ jobs'[j].kept = jobs[j].kept /\ jobs'[j].after = jobs[j].after
                    /\ jobs'[j].stoppedBy = jobs[j].stoppedBy \cup {a}
                    /\ \/ jobs'[j].row = jobs[j].row
                       \/ jobs[j].row \in Live /\ jobs'[j].row = "stopping"
                       \/ jobs'[j].row = "sealed" /\ ~jobs[j].worker /\ ~jobs[j].kept

\* A step of a call that stops jobs J on behalf of its attempt: it touches only
\* jobs that were accepted before the attempt was cancelled.
LEMMA StoppingStep ==
  ASSUME Inv, screen.window = "open", NEW a \in Attempt, NEW t \in Thread, NEW d \in Calls,
         calls' = [calls EXCEPT ![a][t] = d], d.op = calls[a][t].op, calls[a][t].pc # "idle",
         screen' = screen, probes' = probes, faults' \in Nat, gate' = gate, CallOK(a, d),
         jobs' \in [Job -> Jobs], StoppedSome(a)
  PROVE  Inv'
<1>1. JobsLater
  BY DEF StoppedSome, JobsLater, Later, Live
<1>2. JobsOK'
  BY DEF StoppedSome, Inv, JobsOK
<1>3. StopsOnlyItsOwn'
  BY DEF StoppedSome, Inv, StopsOnlyItsOwn, SealedAreOrphans, StopsItsOwnJobs
<1>4. CallOK(a, d)'
  BY <1>1, CallFrame DEF Inv
<1> QED
  BY <1>1, <1>2, <1>3, <1>4, NativeFrame DEF Inv, TypeOK

\* One orphan is interrupted.
LEMMA SealRowInv ==
  ASSUME Inv, screen.window = "open", NEW a \in Attempt, NEW t \in Thread, NEW c, c = calls[a][t],
         SealRow(a, t, c)
  PROVE  Inv'
<1>1. /\ c \in Calls /\ CallOK(a, c) /\ Failed(c) \in Calls /\ Failed(c).op = c.op /\ CallOK(a, Failed(c))
      /\ c.todo \subseteq Job /\ jobs \in [Job -> Jobs]
  BY CallFacts
<1>2. c.pc = "sealRow" /\ gate' = gate
  BY DEF SealRow
<1>3. PICK bad \in {FALSE} \cup {MayFail}, j \in c.todo :
        /\ Fails(bad)
        /\ \/ CallStep(a, t, Failed(c), jobs)
           \/ CallStep(a, t, [c EXCEPT !.todo = @ \ {j}, !.settle = @ /\ c.todo # {j},
                                       !.pc = IF c.todo = {j} THEN "before" ELSE "sealCheck"],
                       InterruptOne(jobs, j, a))
  BY DEF SealRow
<1>4. faults' \in Nat
  BY <1>3, FaultsCounted DEF Inv
<1>5. CASE CallStep(a, t, Failed(c), jobs)
  BY <1>1, <1>2, <1>4, <1>5, ReadingStep
<1>6. CASE CallStep(a, t, [c EXCEPT !.todo = @ \ {j}, !.settle = @ /\ c.todo # {j},
                                    !.pc = IF c.todo = {j} THEN "before" ELSE "sealCheck"],
                    InterruptOne(jobs, j, a))
  <2> PICK settle \in BOOLEAN : settle = (c.settle /\ c.todo # {j})
    OBVIOUS
  <2> PICK pc \in {"before", "sealCheck"} : pc = (IF c.todo = {j} THEN "before" ELSE "sealCheck")
    OBVIOUS
  <2> PICK todo \in SUBSET Job : todo = c.todo \ {j}
    BY <1>1
  <2>1. PICK d : d = [c EXCEPT !.todo = todo, !.settle = settle, !.pc = pc]
    OBVIOUS
  <2>2. /\ d \in Calls /\ d.op = c.op /\ d.pc \in {"before", "sealCheck"} /\ d.read = c.read
        /\ d.todo = c.todo \ {j} /\ d.tokens = c.tokens
    <3>1. pc \in Pcs
      BY DEF Pcs, ReadPcs
    <3>2. d \in Calls
      <4>1. PICK x : x = [c EXCEPT !.todo = todo]
        OBVIOUS
      <4>2. x \in Calls
        BY <1>1, <4>1 DEF Calls
      <4>3. PICK y : y = [x EXCEPT !.settle = settle]
        OBVIOUS
      <4>4. y \in Calls
        BY <4>2, <4>3 DEF Calls
      <4>5. d = [y EXCEPT !.pc = pc]
        BY <2>1, <4>1, <4>3
      <4> QED
        BY <3>1, <4>4, <4>5 DEF Calls
    <3> QED
      BY <1>1, <2>1, <3>2, ZenonT(60) DEF Calls
  <2>3. /\ jobs[j].row # "none" /\ a \notin jobs[j].after /\ ~jobs[j].worker /\ ~jobs[j].kept /\ j \in Job
        /\ jobs[j] \in Jobs
    BY <1>1, <1>2 DEF CallOK, ReadOK, OwnOK
  <2>4. CallOK(a, d)
    BY <1>1, <1>2, <2>2 DEF CallOK, ReadOK, OwnOK, HeldOK, StopPcs
  <2>5. calls' = [calls EXCEPT ![a][t] = d] /\ screen' = screen /\ probes' = probes
    BY <1>6, <2>1 DEF CallStep
  <2>6. CASE jobs' = jobs
    <3>1. StoppedSome(a)
      BY <2>6 DEF StoppedSome
    <3>2. jobs' \in [Job -> Jobs] /\ c.pc # "idle"
      BY <1>1, <1>2, <2>6
    <3> QED
      BY <1>2, <1>4, <2>2, <2>4, <2>5, <3>1, <3>2, StoppingStep
  <2>7. CASE jobs' # jobs
    <3>1. PICK k : k = [jobs[j] EXCEPT !.row = "sealed", !.stoppedBy = @ \cup {a}]
      OBVIOUS
    <3>2. jobs' = [jobs EXCEPT ![j] = k]
      BY <1>1, <1>6, <2>3, <2>7, <3>1 DEF CallStep, InterruptOne
    <3>3. /\ k \in Jobs /\ k.row = "sealed" /\ k.stoppedBy = jobs[j].stoppedBy \cup {a}
          /\ k.adm = jobs[j].adm /\ k.worker = jobs[j].worker /\ k.kept = jobs[j].kept /\ k.after = jobs[j].after
      BY <2>3, <3>1 DEF Jobs, Rows
    <3>4. jobs' \in [Job -> Jobs] /\ jobs'[j] = k /\ \A i \in Job : i # j => jobs'[i] = jobs[i]
      BY <1>1, <2>3, <3>2, <3>3
    <3> QED
      <4>1. StoppedSome(a)
        BY <2>3, <3>3, <3>4 DEF StoppedSome
      <4>2. jobs' \in [Job -> Jobs] /\ c.pc # "idle"
        BY <1>2, <3>4
      <4> QED
        BY <1>2, <1>4, <2>2, <2>4, <2>5, <4>1, <4>2, StoppingStep
  <2> QED
    BY <2>6, <2>7
<1> QED
  BY <1>3, <1>5, <1>6

\* One row is stopped.
LEMMA StopRowInv ==
  ASSUME Inv, screen.window = "open", NEW a \in Attempt, NEW t \in Thread, NEW c, c = calls[a][t],
         StopRow(a, t, c)
  PROVE  Inv'
<1>1. /\ c \in Calls /\ CallOK(a, c) /\ c.read \subseteq Job /\ jobs \in [Job -> Jobs]
  BY CallFacts
<1>2. c.pc = "stopRow" /\ gate' = gate
  BY DEF StopRow
<1>3. PICK bad \in {FALSE} \cup {MayFail}, j \in c.read :
        /\ Fails(bad)
        /\ CallStep(a, t, [c EXCEPT !.read = @ \ {j}, !.failed = @ \/ bad, !.pc = "check"],
                    IF bad THEN jobs ELSE StopOne(jobs, j, a))
  BY DEF StopRow
<1>4. faults' \in Nat
  BY <1>3, FaultsCounted DEF Inv
<1> PICK failed \in BOOLEAN : failed = (c.failed \/ bad)
  OBVIOUS
<1>5. PICK d : d = [c EXCEPT !.read = @ \ {j}, !.failed = failed, !.pc = "check"]
  OBVIOUS
<1>6. d \in Calls /\ d.op = c.op /\ d.pc = "check" /\ d.read = c.read \ {j} /\ d.tokens = c.tokens
  BY <1>1, <1>5, ZenonT(60) DEF Calls, Pcs, StopPcs
<1>7. jobs[j].row # "none" /\ a \notin jobs[j].after /\ j \in Job /\ jobs[j] \in Jobs
  BY <1>1, <1>2 DEF CallOK, ReadOK, OwnOK
<1>8. CallOK(a, d)
  BY <1>1, <1>2, <1>6 DEF CallOK, ReadOK, OwnOK, HeldOK, StopPcs
<1>9. calls' = [calls EXCEPT ![a][t] = d] /\ screen' = screen /\ probes' = probes
  BY <1>3, <1>5 DEF CallStep
<1>10. CASE jobs' = jobs
  <2>1. StoppedSome(a)
    BY <1>10 DEF StoppedSome
  <2>2. jobs' \in [Job -> Jobs] /\ c.pc # "idle"
    BY <1>1, <1>2, <1>10
  <2> QED
    BY <1>2, <1>4, <1>6, <1>8, <1>9, <2>1, <2>2, StoppingStep
<1>11. CASE jobs' = StopOne(jobs, j, a)
  <2>1. PICK row \in Rows : row = (IF jobs[j].row = "active" THEN "stopping" ELSE jobs[j].row)
    BY <1>7 DEF Jobs, Rows
  <2>2. PICK k : k = [jobs[j] EXCEPT !.stoppedBy = @ \cup {a}, !.row = row]
    OBVIOUS
  <2>3. jobs' = [jobs EXCEPT ![j] = k]
    BY <1>1, <1>7, <1>11, <2>1, <2>2 DEF StopOne
  <2>4. /\ k \in Jobs /\ k.row = row /\ k.stoppedBy = jobs[j].stoppedBy \cup {a}
        /\ k.adm = jobs[j].adm /\ k.worker = jobs[j].worker /\ k.kept = jobs[j].kept /\ k.after = jobs[j].after
    BY <1>7, <2>1, <2>2 DEF Jobs
  <2>5. jobs' \in [Job -> Jobs] /\ jobs'[j] = k /\ \A i \in Job : i # j => jobs'[i] = jobs[i]
    BY <1>1, <1>7, <2>3, <2>4
  <2>6. row = jobs[j].row \/ (jobs[j].row \in Live /\ row = "stopping")
    BY <2>1 DEF Live
  <2> QED
    <3>1. StoppedSome(a)
      BY <1>7, <2>4, <2>5, <2>6 DEF StoppedSome
    <3>2. jobs' \in [Job -> Jobs] /\ c.pc # "idle"
      BY <1>2, <2>5
    <3> QED
      BY <1>2, <1>4, <1>6, <1>8, <1>9, <3>1, <3>2, StoppingStep
<1> QED
  BY <1>3, <1>10, <1>11 DEF CallStep

\* The captured handles are cancelled, whatever happened before.
LEMMA CancelTokensInv ==
  ASSUME Inv, screen.window = "open", NEW a \in Attempt, NEW t \in Thread, NEW c, c = calls[a][t],
         CancelTokens(a, t, c)
  PROVE  Inv'
<1>1. /\ c \in Calls /\ CallOK(a, c) /\ c.tokens \subseteq Job /\ jobs \in [Job -> Jobs]
  BY CallFacts
<1>2. c.pc = "cancel" /\ c.op = "stop" /\ gate' = gate /\ faults' \in Nat
  BY <1>1 DEF CancelTokens, Inv, TypeOK, CallOK, StopPcs
<1>3. PICK d : d = IF c.failed THEN Answered(c, "error")
                   ELSE [NoCall EXCEPT !.op = "stop", !.settle = TRUE, !.pc = "before"]
  OBVIOUS
<1>4. CallStep(a, t, d, CancelAll(jobs, c.tokens, a))
  BY <1>3 DEF CancelTokens
<1>5. d \in Calls /\ d.op = c.op /\ CallOK(a, d)
  <2>1. CASE d = Answered(c, "error")
    BY <1>1, <2>1, AnsweredOK DEF Answers
  <2>2. CASE d = [NoCall EXCEPT !.op = "stop", !.settle = TRUE, !.pc = "before"]
    <3>1. d \in Calls /\ d.op = "stop" /\ d.pc = "before" /\ d.read = {} /\ d.tokens = {}
      BY <2>2 DEF NoCall, Calls, Ops, Pcs, ReadPcs, Answers
    <3> QED
      BY <1>2, <3>1 DEF CallOK, ReadOK, OwnOK, HeldOK, StopPcs
  <2> QED
    BY <1>3, <2>1, <2>2
<1>6. \A j \in c.tokens : jobs[j].row # "none" /\ a \notin jobs[j].after
  BY <1>1 DEF CallOK, ReadOK, OwnOK
<1>7. \A j \in Job : /\ [jobs[j] EXCEPT !.stoppedBy = @ \cup {a}] \in Jobs
                     /\ [jobs[j] EXCEPT !.stoppedBy = @ \cup {a}].row = jobs[j].row
                     /\ [jobs[j] EXCEPT !.stoppedBy = @ \cup {a}].adm = jobs[j].adm
                     /\ [jobs[j] EXCEPT !.stoppedBy = @ \cup {a}].worker = jobs[j].worker
                     /\ [jobs[j] EXCEPT !.stoppedBy = @ \cup {a}].kept = jobs[j].kept
                     /\ [jobs[j] EXCEPT !.stoppedBy = @ \cup {a}].after = jobs[j].after
                     /\ [jobs[j] EXCEPT !.stoppedBy = @ \cup {a}].stoppedBy = jobs[j].stoppedBy \cup {a}
  BY <1>1 DEF Jobs
<1>8. /\ jobs' = CancelAll(jobs, c.tokens, a) /\ calls' = [calls EXCEPT ![a][t] = d]
      /\ screen' = screen /\ probes' = probes
  BY <1>4 DEF CallStep
<1>9. \A j \in Job : jobs'[j] = IF j \in c.tokens THEN [jobs[j] EXCEPT !.stoppedBy = @ \cup {a}] ELSE jobs[j]
  BY <1>8 DEF CancelAll
<1>10. jobs' \in [Job -> Jobs]
  <2>1. jobs' = [j \in Job |-> jobs'[j]]
    BY <1>8 DEF CancelAll
  <2> QED
    BY <1>1, <1>7, <1>9, <2>1
<1>11. \A j \in Job : \/ jobs'[j] = jobs[j]
                       \/ /\ jobs[j].row # "none" /\ a \notin jobs[j].after
                          /\ jobs'[j].adm = jobs[j].adm /\ jobs'[j].worker = jobs[j].worker
                          /\ jobs'[j].kept = jobs[j].kept /\ jobs'[j].after = jobs[j].after
                          /\ jobs'[j].stoppedBy = jobs[j].stoppedBy \cup {a}
                          /\ jobs'[j].row = jobs[j].row
  <2> SUFFICES ASSUME NEW j \in Job, j \in c.tokens
               PROVE  /\ jobs[j].row # "none" /\ a \notin jobs[j].after
                      /\ jobs'[j].adm = jobs[j].adm /\ jobs'[j].worker = jobs[j].worker
                      /\ jobs'[j].kept = jobs[j].kept /\ jobs'[j].after = jobs[j].after
                      /\ jobs'[j].stoppedBy = jobs[j].stoppedBy \cup {a}
                      /\ jobs'[j].row = jobs[j].row
    BY <1>9
  <2>1. jobs'[j] = [jobs[j] EXCEPT !.stoppedBy = @ \cup {a}]
    BY <1>9
  <2> QED
    BY <1>6, <1>7, <2>1
<1>12. calls[a][t].pc # "idle" /\ d.op = calls[a][t].op
  BY <1>2, <1>5
<1>13. StoppedSome(a)
  BY <1>11 DEF StoppedSome
<1> QED
  BY <1>2, <1>5, <1>8, <1>10, <1>12, <1>13, StoppingStep

\* A native call keeps the invariant.
LEMMA NativeCallInv ==
  ASSUME Inv, screen.window = "open", NativeCall
  PROVE  Inv'
<1>1. PICK a \in Attempt, t \in Thread :
        \/ ReadStatus(a, t, calls[a][t]) \/ StopJobs(a, t, calls[a][t])
        \/ ShutdownAppServer(a, t, calls[a][t]) \/ FinishClose(a, t, calls[a][t])
  BY DEF NativeCall
<1>2. PICK c : c = calls[a][t]
  OBVIOUS
<1>3. CASE ReadStatus(a, t, c)
  <2>1. CASE ReadBefore(a, t, c)
    BY <1>2, <2>1, ReadBeforeInv
  <2>2. CASE ReadCensus(a, t, c)
    BY <1>2, <2>2, CensusInv
  <2>3. CASE ReadAfter(a, t, c)
    BY <1>2, <2>3, ReadAfterInv
  <2>4. CASE ReadPending(a, t, c)
    BY <1>2, <2>4, ReadPendingInv
  <2>5. CASE Decide(a, t, c)
    BY <1>2, <2>5, DecideInv
  <2>6. CASE SealCheck(a, t, c)
    BY <1>2, <2>6, ChecksInv
  <2>7. CASE SealRow(a, t, c)
    BY <1>2, <2>7, SealRowInv
  <2> QED
    BY <1>3, <2>1, <2>2, <2>3, <2>4, <2>5, <2>6, <2>7 DEF ReadStatus
<1>4. CASE StopJobs(a, t, c)
  <2>1. CASE Capture(a, t, c) \/ ConfirmStop(a, t, c)
    BY <1>2, <2>1, CaptureInv
  <2>2. CASE ListRows(a, t, c)
    BY <1>2, <2>2, CensusInv
  <2>3. CASE StopCheck(a, t, c)
    BY <1>2, <2>3, ChecksInv
  <2>4. CASE StopRow(a, t, c)
    BY <1>2, <2>4, StopRowInv
  <2>5. CASE CancelTokens(a, t, c)
    BY <1>2, <2>5, CancelTokensInv
  <2> QED
    BY <1>4, <2>1, <2>2, <2>3, <2>4, <2>5 DEF StopJobs
<1>5. CASE ShutdownAppServer(a, t, c) \/ FinishClose(a, t, c)
  BY <1>2, <1>5, ShutdownInv
<1> QED
  BY <1>1, <1>2, <1>3, <1>4, <1>5

-----------------------------------------------------------------------------
\* The pieces of the script.

Gates == [request : Requests, stopping : BOOLEAN, cancelled : SUBSET Attempt]
Scenes == [probe : Probes, screen : Screens, calls : [Attempt -> [Thread -> Calls]]]

\* What a step of the script of a does to the screen: the attempt leaves it, or
\* nobody does, and only the attempt on the screen asks the author.
Moved(a, s) ==
    /\ s.current = screen.current \/ (screen.current = a /\ s.current = NoAttempt)
    /\ s.prompt = "waiting" => screen.prompt = "waiting" \/ s.current = a

\* A state u in the middle of a step of attempt a, under the gate g.
SceneOK(a, g, u) ==
    /\ u \in Scenes /\ u.probe.main # "unused"
    /\ Moved(a, u.screen)
    /\ OwnerOK(a, g, u.probe, u.screen) /\ WaitOK(a, u.probe, u.screen)

\* What the pieces leave alone.
Kept(u, v) ==
    /\ v.calls = u.calls /\ v.screen.window = u.screen.window
    /\ v.probe.main \in {u.probe.main, "blocking", "done"}

\* The finally of closeApplication leaves the screen only when the dialog is not
\* kept.
LEMMA EndMainOK ==
  ASSUME NEW a \in Attempt, NEW g \in Gates, NEW u, SceneOK(a, g, u),
         u.probe.keepPrompt \/ u.screen.current # a,
         u.probe.main # "blocking" \/ u.probe.waiters = <<>>
  PROVE  /\ SceneOK(a, g, EndMain(u, a)) /\ Kept(u, EndMain(u, a))
         /\ EndMain(u, a).probe = [u.probe EXCEPT !.main = "done"]
         /\ EndMain(u, a).screen = u.screen
<1>1. PICK v : v = EndMain(u, a)
  OBVIOUS
<1>2. u \in Scenes
  BY DEF SceneOK
<1>3. u.screen.current = a => u.probe.keepPrompt
  BY DEF SceneOK, Moved
<1>4. /\ v.probe = [u.probe EXCEPT !.main = "done"] /\ v.calls = u.calls
      /\ v.screen = [u.screen EXCEPT !.current = IF @ = a /\ ~u.probe.keepPrompt THEN NoAttempt ELSE @]
      /\ v = [probe |-> v.probe, screen |-> v.screen, calls |-> v.calls]
  BY <1>1, <1>2 DEF EndMain, Scenes
<1>5. v.screen = u.screen
  <2>1. v.screen = [u.screen EXCEPT !.current = u.screen.current]
    BY <1>3, <1>4
  <2> QED
    BY <1>2, <2>1 DEF Scenes, Screens
<1>6. /\ v.probe \in Probes /\ v.probe.main = "done" /\ v.probe.cancelRequired = u.probe.cancelRequired
      /\ v.probe.gateActive = u.probe.gateActive /\ v.probe.flight = u.probe.flight
      /\ v.probe.invalidated = u.probe.invalidated /\ v.probe.keepPrompt = u.probe.keepPrompt
      /\ v.probe.waiters = u.probe.waiters /\ v.probe.stop = u.probe.stop
  BY <1>2, <1>4 DEF Scenes, Probes, Mains
<1>7. v \in Scenes
  BY <1>2, <1>4, <1>5, <1>6 DEF Scenes
<1>8. OwnerOK(a, g, v.probe, v.screen)
  BY <1>5, <1>6 DEF SceneOK, OwnerOK, Over
<1>9. WaitOK(a, v.probe, v.screen)
  BY <1>5, <1>6 DEF SceneOK, WaitOK
<1> QED
  BY <1>1, <1>4, <1>5, <1>6, <1>7, <1>8, <1>9 DEF SceneOK, Kept

\* Another text in the dialog, unless it asks the author.
LEMMA PromptOK ==
  ASSUME NEW a \in Attempt, NEW g \in Gates, NEW u, SceneOK(a, g, u), NEW x \in Prompts \ {"waiting"}
  PROVE  /\ SceneOK(a, g, [u EXCEPT !.screen.prompt = x])
         /\ Kept(u, [u EXCEPT !.screen.prompt = x])
         /\ [u EXCEPT !.screen.prompt = x].probe = u.probe
         /\ [u EXCEPT !.screen.prompt = x].screen.current = u.screen.current
<1>1. PICK v : v = [u EXCEPT !.screen.prompt = x]
  OBVIOUS
<1>2. u \in Scenes
  BY DEF SceneOK
<1>3. v \in Scenes /\ v.probe = u.probe /\ v.calls = u.calls /\ v.screen = [u.screen EXCEPT !.prompt = x]
  BY <1>1, <1>2 DEF Scenes, Screens
<1>4. v.screen.prompt = x /\ v.screen.current = u.screen.current /\ v.screen.window = u.screen.window
  BY <1>2, <1>3 DEF Scenes, Screens
<1> QED
  BY <1>1, <1>3, <1>4 DEF SceneOK, Moved, OwnerOK, WaitOK, Kept

\* Fields of the probe that say nothing of the gate.
LEMMA NotesOK ==
  ASSUME NEW a \in Attempt, NEW g \in Gates, NEW u, SceneOK(a, g, u), NEW q \in Probes,
         q.main = u.probe.main, q.cancelRequired = u.probe.cancelRequired,
         q.gateActive = u.probe.gateActive, q.flight = u.probe.flight,
         q.invalidated = u.probe.invalidated, q.keepPrompt = u.probe.keepPrompt,
         q.waiters = u.probe.waiters, q.stop = u.probe.stop \/ q.waiters = <<>> \/ u.probe.stop # "blocking"
  PROVE  SceneOK(a, g, [u EXCEPT !.probe = q]) /\ Kept(u, [u EXCEPT !.probe = q])
<1>1. PICK v : v = [u EXCEPT !.probe = q]
  OBVIOUS
<1>2. v \in Scenes /\ v.probe = q /\ v.screen = u.screen /\ v.calls = u.calls
  BY <1>1 DEF SceneOK, Scenes
<1>3. WaitOK(a, q, u.screen)
  BY DEF SceneOK, WaitOK
<1> QED
  BY <1>1, <1>2, <1>3 DEF SceneOK, Moved, OwnerOK, Over, Kept

\* How a caller of releaseCloseGate goes on.
LEMMA ResumeCases ==
  ASSUME NEW u, NEW a, NEW v
  PROVE  /\ v = Resume(u, a, "stay", FALSE) => v = [u EXCEPT !.screen.prompt = "error"]
         /\ v = Resume(u, a, "stay", TRUE) =>
              LET w == [u EXCEPT !.probe.keepPrompt = FALSE, !.probe.decision = "stay",
                                 !.probe.asking = FALSE,
                                 !.screen.current = NoAttempt, !.screen.prompt = "none"]
              IN  v \in {w, EndMain(w, a)}
<1>1. ASSUME v = Resume(u, a, "stay", FALSE)
      PROVE  v = [u EXCEPT !.screen.prompt = "error"]
  <2>1. v = AfterStay(u, a, FALSE)
    BY <1>1 DEF Resume
  <2> QED
    BY <2>1 DEF AfterStay
<1>2. ASSUME v = Resume(u, a, "stay", TRUE)
      PROVE  LET w == [u EXCEPT !.probe.keepPrompt = FALSE, !.probe.decision = "stay",
                                !.probe.asking = FALSE,
                                !.screen.current = NoAttempt, !.screen.prompt = "none"]
             IN  v \in {w, EndMain(w, a)}
  <2>1. PICK w : w = [u EXCEPT !.probe.keepPrompt = FALSE, !.probe.decision = "stay",
                               !.probe.asking = FALSE,
                               !.screen.current = NoAttempt, !.screen.prompt = "none"]
    OBVIOUS
  <2>2. v = AfterStay(u, a, TRUE)
    BY <1>2 DEF Resume
  <2>3. v = IF u.probe.asking THEN EndMain(w, a) ELSE w
    BY <2>1, <2>2 DEF AfterStay
  <2> QED
    BY <2>1, <2>3
<1> QED
  BY <1>1, <1>2

\* A caller of releaseCloseGate goes on.
LEMMA ResumeOK ==
  ASSUME NEW a \in Attempt, NEW g \in Gates, NEW u, SceneOK(a, g, u), NEW who \in Who,
         NEW released \in BOOLEAN,
         u.probe.waiters = <<>>, u.probe.keepPrompt \/ u.screen.current # a,
         released => ~u.probe.cancelRequired, ~released => u.probe.keepPrompt,
         who = "stay" => screen.current = a,
         NEW z, z = Resume(u, a, who, released)
  PROVE  /\ SceneOK(a, g, z) /\ Kept(u, z)
         /\ z.probe.waiters = <<>> /\ (z.probe.keepPrompt \/ z.screen.current # a)
         /\ z.probe.cancelRequired = u.probe.cancelRequired
         /\ ~released => z.probe.keepPrompt
         /\ who = "main" => z.probe.main = "done"
<1> DEFINE Going(v) ==
             /\ SceneOK(a, g, v) /\ Kept(u, v)
             /\ v.probe.waiters = <<>> /\ (v.probe.keepPrompt \/ v.screen.current # a)
             /\ v.probe.cancelRequired = u.probe.cancelRequired
             /\ ~released => v.probe.keepPrompt
<1>1. u \in Scenes /\ u.probe \in Probes /\ u.screen \in Screens
  BY DEF SceneOK, Scenes
<1>2. ASSUME NEW v, Going(v)
      PROVE  Going(EndMain(v, a))
  <2>1. SceneOK(a, g, EndMain(v, a)) /\ Kept(v, EndMain(v, a))
        /\ EndMain(v, a).probe = [v.probe EXCEPT !.main = "done"] /\ EndMain(v, a).screen = v.screen
    BY <1>2, EndMainOK
  <2>2. v.probe \in Probes
    BY <1>2 DEF SceneOK, Scenes
  <2>3. [v.probe EXCEPT !.main = "done"].waiters = v.probe.waiters
        /\ [v.probe EXCEPT !.main = "done"].keepPrompt = v.probe.keepPrompt
        /\ [v.probe EXCEPT !.main = "done"].cancelRequired = v.probe.cancelRequired
    BY <2>2 DEF Probes
  <2> QED
    BY <1>2, <2>1, <2>3 DEF Kept
<1>3. CASE who = "stay" /\ ~released
  <2>1. z = [u EXCEPT !.screen.prompt = "error"]
    BY <1>3, ResumeCases
  <2>2. PICK x \in Prompts \ {"waiting"} : x = "error"
    BY DEF Prompts
  <2>3. SceneOK(a, g, [u EXCEPT !.screen.prompt = x]) /\ Kept(u, [u EXCEPT !.screen.prompt = x])
        /\ [u EXCEPT !.screen.prompt = x].probe = u.probe
        /\ [u EXCEPT !.screen.prompt = x].screen.current = u.screen.current
    BY PromptOK
  <2> QED
    BY <1>3, <2>1, <2>2, <2>3
<1>4. CASE who = "stay" /\ released
  <2>1. PICK v : v = [u EXCEPT !.probe.keepPrompt = FALSE, !.probe.decision = "stay", !.probe.asking = FALSE,
                               !.screen.current = NoAttempt, !.screen.prompt = "none"]
    OBVIOUS
  <2>2. PICK q : q = [u.probe EXCEPT !.keepPrompt = FALSE, !.decision = "stay", !.asking = FALSE]
    OBVIOUS
  <2>3. PICK s : s = [u.screen EXCEPT !.current = NoAttempt, !.prompt = "none"]
    OBVIOUS
  <2>4. v = [u EXCEPT !.probe = q, !.screen = s]
    BY <1>1, <2>1, <2>2, <2>3 DEF Scenes, Probes, Screens
  <2>5. s \in Screens /\ s.current = NoAttempt /\ s.prompt = "none" /\ s.window = u.screen.window
    BY <1>1, <2>3 DEF Screens, Prompts, Requests
  <2>6. /\ q \in Probes /\ q.main = u.probe.main /\ q.cancelRequired = u.probe.cancelRequired
        /\ q.gateActive = u.probe.gateActive /\ q.flight = u.probe.flight /\ q.waiters = u.probe.waiters
        /\ q.stop = u.probe.stop
    BY <1>1, <2>2 DEF Probes
  <2>7. v \in Scenes /\ v.probe = q /\ v.screen = s /\ v.calls = u.calls
    BY <1>1, <2>4, <2>5, <2>6 DEF Scenes
  <2>8. a # NoAttempt /\ g.request # a
    BY <1>4, CloseConstants DEF Attempt, NoAttempt, SceneOK, OwnerOK
  <2>9. u.probe.flight = "none"
    BY DEF SceneOK, WaitOK
  <2>10. OwnerOK(a, g, q, s)
    BY <1>4, <2>5, <2>6, <2>8, <2>9 DEF SceneOK, OwnerOK, Over
  <2>11. WaitOK(a, q, s)
    BY <2>6, <2>9 DEF WaitOK
  <2>12. Moved(a, s)
    BY <1>4, <2>5 DEF Moved
  <2>13. Going(v)
    BY <1>4, <2>5, <2>6, <2>7, <2>8, <2>10, <2>11, <2>12 DEF SceneOK, Kept
  <2>14. z \in {v, EndMain(v, a)}
    BY <1>4, <2>1, ResumeCases
  <2>15. Going(EndMain(v, a))
    BY <1>2, <2>13
  <2>16. Going(z)
    BY <2>13, <2>14, <2>15
  <2> QED
    BY <1>4, <2>16
<1>5. CASE who # "stay"
  <2>1. PICK x \in {"blocked", "error"} : x = (IF released THEN "blocked" ELSE "error")
    OBVIOUS
  <2>2. PICK v : v = [u EXCEPT !.screen.prompt = x]
    OBVIOUS
  <2>b. z = IF who = "main" THEN EndMain(v, a)
            ELSE IF released /\ u.probe.asking
                 THEN EndMain([v EXCEPT !.probe.asking = FALSE, !.probe.decision = "stay",
                                        !.probe.stop = "done"], a)
                 ELSE [v EXCEPT !.probe.stop = "done"]
    <3>1. v = [u EXCEPT !.screen.prompt = IF released THEN "blocked" ELSE "error"]
      BY <2>1, <2>2
    <3>2. z = AfterBlock(u, a, who, released)
      BY <1>5, Zenon DEF Resume
    <3>3. AfterBlock(u, a, who, released)
            = LET w == [u EXCEPT !.screen.prompt = IF released THEN "blocked" ELSE "error"]
              IN  IF who = "main" THEN EndMain(w, a)
                  ELSE IF released /\ u.probe.asking
                       THEN EndMain([w EXCEPT !.probe.asking = FALSE, !.probe.decision = "stay",
                                              !.probe.stop = "done"], a)
                       ELSE [w EXCEPT !.probe.stop = "done"]
      BY Zenon DEF AfterBlock
    <3> QED
      BY <3>1, <3>2, <3>3
  <2>3. Going(v) /\ v.probe = u.probe
    <3>1. x \in Prompts \ {"waiting"}
      BY <2>1 DEF Prompts
    <3>2. SceneOK(a, g, v) /\ Kept(u, v) /\ v.probe = u.probe /\ v.screen.current = u.screen.current
      <4>1. /\ SceneOK(a, g, [u EXCEPT !.screen.prompt = x]) /\ Kept(u, [u EXCEPT !.screen.prompt = x])
            /\ [u EXCEPT !.screen.prompt = x].probe = u.probe
            /\ [u EXCEPT !.screen.prompt = x].screen.current = u.screen.current
        BY <3>1, PromptOK
      <4> QED
        BY <2>2, <4>1
    <3> QED
      BY <3>2
  <2>4. CASE who = "main"
    <3>1. z = EndMain(v, a)
      BY <2>4, <2>b
    <3>2. Going(z)
      BY <1>2, <2>3, <3>1
    <3>3. z.probe = [v.probe EXCEPT !.main = "done"]
      BY <2>3, <3>1, EndMainOK
    <3>4. z.probe.main = "done"
      BY <2>3, <3>3 DEF SceneOK, Scenes, Probes
    <3> QED
      BY <3>2, <3>4
  <2>5. CASE who = "stop"
    <3>1. v \in Scenes /\ v.probe \in Probes
      BY <2>3 DEF SceneOK, Scenes
    <3>2. ASSUME NEW q \in Probes, q.main = u.probe.main, q.cancelRequired = u.probe.cancelRequired,
                 q.gateActive = u.probe.gateActive, q.flight = u.probe.flight,
                 q.invalidated = u.probe.invalidated, q.keepPrompt = u.probe.keepPrompt,
                 q.waiters = u.probe.waiters
          PROVE  Going([v EXCEPT !.probe = q])
      <4>1. SceneOK(a, g, [v EXCEPT !.probe = q]) /\ Kept(v, [v EXCEPT !.probe = q])
        BY <2>3, <3>2, NotesOK
      <4>2. [v EXCEPT !.probe = q].probe = q /\ [v EXCEPT !.probe = q].screen = v.screen
        BY <3>1 DEF Scenes
      <4> QED
        BY <2>3, <3>2, <4>1, <4>2 DEF Kept
    <3>3. PICK q : q = [v.probe EXCEPT !.asking = FALSE, !.decision = "stay", !.stop = "done"]
      OBVIOUS
    <3>4. PICK r : r = [v.probe EXCEPT !.stop = "done"]
      OBVIOUS
    <3>5. /\ q \in Probes /\ q.main = u.probe.main /\ q.cancelRequired = u.probe.cancelRequired
          /\ q.gateActive = u.probe.gateActive /\ q.flight = u.probe.flight
          /\ q.invalidated = u.probe.invalidated /\ q.keepPrompt = u.probe.keepPrompt
          /\ q.waiters = u.probe.waiters
      BY <2>3, <3>1, <3>3 DEF Probes, Stops
    <3>6. /\ r \in Probes /\ r.main = u.probe.main /\ r.cancelRequired = u.probe.cancelRequired
          /\ r.gateActive = u.probe.gateActive /\ r.flight = u.probe.flight
          /\ r.invalidated = u.probe.invalidated /\ r.keepPrompt = u.probe.keepPrompt
          /\ r.waiters = u.probe.waiters
      BY <2>3, <3>1, <3>4 DEF Probes, Stops
    <3>7. Going([v EXCEPT !.probe = q]) /\ Going([v EXCEPT !.probe = r])
      BY <3>2, <3>5, <3>6
    <3>8. /\ [v EXCEPT !.probe = q] = [v EXCEPT !.probe.asking = FALSE, !.probe.decision = "stay", !.probe.stop = "done"]
          /\ [v EXCEPT !.probe = r] = [v EXCEPT !.probe.stop = "done"]
      BY <3>1, <3>3, <3>4 DEF Scenes, Probes
    <3>9. z = EndMain([v EXCEPT !.probe = q], a) \/ z = [v EXCEPT !.probe = r]
      BY <2>5, <2>b, <3>8
    <3>10. Going(z)
      BY <1>2, <3>7, <3>9, ZenonT(60)
    <3> QED
      BY <2>5, <3>10
  <2> QED
    BY <1>5, <2>4, <2>5 DEF Who
<1> QED
  BY <1>3, <1>4, <1>5

\* releaseCloseGate goes on at once, or begins to wait for the cancellation.
LEMMA ReleaseOK ==
  ASSUME NEW a \in Attempt, NEW g \in Gates, NEW u, SceneOK(a, g, u), NEW who \in Who,
         who = "main" => u.probe.main \notin {"done", "blocking"},
         who = "stop" => u.probe.stop # "blocking",
         who = "stay" => /\ screen.current = a /\ u.screen.current = a
                         /\ \A i \in DOMAIN u.probe.waiters : u.probe.waiters[i] # "stay",
         NEW z, z = ReleaseGate(u, a, who)
  PROVE  SceneOK(a, g, z) /\ Kept(u, z) /\ (who = "main" => z.probe.main \in {"blocking", "done"})
<1>1. u \in Scenes /\ u.probe \in Probes /\ u.screen \in Screens /\ u.probe.waiters \in Seq(Who)
  BY DEF SceneOK, Scenes, Probes
<1>2. PICK q : q = [u.probe EXCEPT !.keepPrompt = TRUE]
  OBVIOUS
<1>3. /\ q \in Probes /\ q.keepPrompt /\ q.main = u.probe.main /\ q.cancelRequired = u.probe.cancelRequired
      /\ q.gateActive = u.probe.gateActive /\ q.flight = u.probe.flight /\ q.waiters = u.probe.waiters
      /\ q.stop = u.probe.stop /\ q.invalidated = u.probe.invalidated
  BY <1>1, <1>2 DEF Probes
<1>f. PICK fl : fl = IF q.flight = "none" THEN "sent" ELSE q.flight
  OBVIOUS
<1>w. PICK w : w = Append(q.waiters, who)
  OBVIOUS
<1>m. PICK m : m = IF who = "main" THEN "blocking" ELSE q.main
  OBVIOUS
<1>s. PICK st : st = IF who = "stop" THEN "blocking" ELSE q.stop
  OBVIOUS
<1>4. ASSUME ~u.probe.cancelRequired, ~u.probe.gateActive,
             z = Resume([u EXCEPT !.probe = q], a, who, TRUE)
      PROVE  SceneOK(a, g, z) /\ Kept(u, z) /\ (who = "main" => z.probe.main \in {"blocking", "done"})
  <2>1. PICK v : v = [u EXCEPT !.probe = q]
    OBVIOUS
  <2>2. v \in Scenes /\ v.probe = q /\ v.screen = u.screen /\ v.calls = u.calls
    BY <1>1, <1>3, <2>1 DEF Scenes
  <2>3. q.flight = "none" /\ q.waiters = <<>>
    BY <1>3, <1>4 DEF SceneOK, OwnerOK, WaitOK
  <2>4. OwnerOK(a, g, q, u.screen)
    BY <1>3, <2>3 DEF SceneOK, OwnerOK, Over
  <2>5. WaitOK(a, q, u.screen)
    BY <1>3, <2>3 DEF SceneOK, WaitOK
  <2>6. SceneOK(a, g, v)
    BY <1>3, <2>2, <2>4, <2>5 DEF SceneOK
  <2>7. z = Resume(v, a, who, TRUE)
    BY <1>4, <2>1
  <2>8. ~v.probe.cancelRequired /\ v.probe.keepPrompt /\ v.probe.waiters = <<>>
    BY <1>3, <1>4, <2>2, <2>3
  <2>r. PICK released \in BOOLEAN : released = TRUE
    OBVIOUS
  <2>9. SceneOK(a, g, z) /\ Kept(v, z) /\ (who = "main" => z.probe.main = "done")
    <3>1. /\ released => ~v.probe.cancelRequired
          /\ ~released => v.probe.keepPrompt
          /\ v.probe.keepPrompt \/ v.screen.current # a
          /\ who = "stay" => screen.current = a
          /\ z = Resume(v, a, who, released)
      BY <2>7, <2>8, <2>r
    <3> QED
      BY <2>6, <2>8, <3>1, ResumeOK
  <2> QED
    BY <1>3, <2>2, <2>9 DEF Kept
<1>5. ASSUME u.probe.cancelRequired \/ u.probe.gateActive,
             z = [u EXCEPT !.probe = [q EXCEPT !.invalidated = TRUE, !.flight = fl, !.waiters = w,
                                              !.main = m, !.stop = st]]
      PROVE  SceneOK(a, g, z) /\ Kept(u, z) /\ (who = "main" => z.probe.main \in {"blocking", "done"})
  <2>5. PICK r : r = [q EXCEPT !.invalidated = TRUE, !.flight = fl, !.waiters = w, !.main = m, !.stop = st]
    OBVIOUS
  <2>6. z = [u EXCEPT !.probe = r]
    BY <1>5, <2>5
  <2>7. fl \in {"sent", "cancelled", "refused"} /\ (fl = "cancelled" => q.flight = "cancelled")
    BY <1>3, <1>f DEF Probes
  <2>8. w \in Seq(Who) /\ Len(w) = Len(q.waiters) + 1 /\ w # <<>> /\ Len(q.waiters) \in Nat
        /\ w[Len(w)] = who /\ \A i \in 1 .. Len(q.waiters) : w[i] = q.waiters[i]
    BY <1>1, <1>3, <1>w
  <2>9. m \in Mains /\ m \in {q.main, "blocking"} /\ st \in Stops
    BY <1>3, <1>m, <1>s DEF Probes, Mains, Stops
  <2>10. /\ r \in Probes /\ r.invalidated /\ r.flight = fl /\ r.waiters = w /\ r.main = m /\ r.stop = st
         /\ r.keepPrompt /\ r.cancelRequired = q.cancelRequired /\ r.gateActive = q.gateActive
    BY <1>3, <2>5, <2>7, <2>8, <2>9 DEF Probes
  <2>11. z \in Scenes /\ z.probe = r /\ z.screen = u.screen /\ z.calls = u.calls
    BY <1>1, <2>6, <2>10 DEF Scenes
  <2>12. OwnerOK(a, g, r, u.screen)
    BY <1>3, <1>5, <1>m, <2>7, <2>9, <2>10 DEF SceneOK, OwnerOK, Over
  <2>13. /\ \A i, k \in DOMAIN q.waiters : q.waiters[i] = q.waiters[k] => i = k
         /\ \A i \in DOMAIN q.waiters : /\ q.waiters[i] = "main" => q.main = "blocking"
                                        /\ q.waiters[i] = "stop" => q.stop = "blocking"
                                        /\ q.waiters[i] = "stay" => u.screen.current = a
                                        /\ q.waiters[i] # who
         /\ Len(q.waiters) <= 3
    <3>1. WaitOK(a, u.probe, u.screen)
      BY DEF SceneOK
    <3>2. /\ \A i, k \in DOMAIN q.waiters : q.waiters[i] = q.waiters[k] => i = k
          /\ \A i \in DOMAIN q.waiters : /\ q.waiters[i] = "main" => q.main = "blocking"
                                         /\ q.waiters[i] = "stop" => q.stop = "blocking"
                                         /\ q.waiters[i] = "stay" => u.screen.current = a
          /\ Len(q.waiters) <= 3
      BY <1>3, <3>1 DEF WaitOK
    <3>3. \A i \in DOMAIN q.waiters : q.waiters[i] # who
      BY <1>3, <3>2 DEF Who
    <3> QED
      BY <3>2, <3>3
  <2>14. DOMAIN w = 1 .. Len(q.waiters) + 1 /\ DOMAIN q.waiters = 1 .. Len(q.waiters)
         /\ q.waiters \in Seq(Who)
    BY <1>3, <1>1, <2>8
  <2>15. \A i, k \in DOMAIN w : w[i] = w[k] => i = k
    BY <2>8, <2>13, <2>14
  <2>16. \A i \in DOMAIN w : /\ w[i] = "main" => m = "blocking"
                             /\ w[i] = "stop" => st = "blocking"
                             /\ w[i] = "stay" => u.screen.current = a
    <3> SUFFICES ASSUME NEW i \in DOMAIN w
                 PROVE  /\ w[i] = "main" => m = "blocking"
                        /\ w[i] = "stop" => st = "blocking"
                        /\ w[i] = "stay" => u.screen.current = a
      OBVIOUS
    <3>1. CASE i = Len(w)
      BY <1>m, <1>s, <2>8, <3>1
    <3>2. CASE i # Len(w)
      <4>1. i \in DOMAIN q.waiters /\ w[i] = q.waiters[i]
        BY <2>8, <2>14, <3>2
      <4> QED
        BY <1>m, <1>s, <2>13, <4>1
    <3> QED
      BY <3>1, <3>2
  <2>17. Len(w) <= 3
    <3>n. PICK n \in Nat : n = Len(q.waiters)
      BY <2>8
    <3> SUFFICES ASSUME n = 3
                 PROVE  FALSE
      <4>1. n <= 3 /\ Len(w) = n + 1
        BY <2>8, <2>13, <3>n
      <4> QED
        BY <4>1
    <3>0. 1 \in DOMAIN q.waiters /\ 2 \in DOMAIN q.waiters /\ 3 \in DOMAIN q.waiters
      <4>1. DOMAIN q.waiters = 1 .. 3
        BY <2>14, <3>n
      <4> QED
        BY <4>1
    <3>1. /\ q.waiters[1] # q.waiters[2] /\ q.waiters[1] # q.waiters[3] /\ q.waiters[2] # q.waiters[3]
          /\ q.waiters[1] # who /\ q.waiters[2] # who /\ q.waiters[3] # who
          /\ q.waiters[1] \in Who /\ q.waiters[2] \in Who /\ q.waiters[3] \in Who
      BY <2>13, <2>14, <3>0
    <3> QED
      BY <3>1 DEF Who
  <2>18. WaitOK(a, r, u.screen)
    BY <2>7, <2>8, <2>10, <2>15, <2>16, <2>17 DEF WaitOK
  <2> QED
    BY <1>3, <1>m, <2>9, <2>10, <2>11, <2>12, <2>18 DEF SceneOK, Kept, Mains
<1> QED
  <2>1. \/ /\ ~u.probe.cancelRequired /\ ~u.probe.gateActive
           /\ z = Resume([u EXCEPT !.probe = q], a, who, TRUE)
        \/ /\ u.probe.cancelRequired \/ u.probe.gateActive
           /\ z = [u EXCEPT !.probe = [q EXCEPT !.invalidated = TRUE, !.flight = fl, !.waiters = w,
                                                !.main = m, !.stop = st]]
    <3>1. PICK v : v = [u EXCEPT !.probe.keepPrompt = TRUE]
      OBVIOUS
    <3>2. v = [u EXCEPT !.probe = q] /\ v.probe = q /\ q \in Probes /\ v \in Scenes
          /\ v.screen = u.screen /\ v.calls = u.calls
          /\ q.cancelRequired = u.probe.cancelRequired /\ q.gateActive = u.probe.gateActive
      BY <1>1, <1>2, <3>1 DEF Scenes, Probes
    <3>3. CASE ~u.probe.cancelRequired /\ ~u.probe.gateActive
      <4>1. z = Resume(v, a, who, TRUE)
        BY <3>1, <3>2, <3>3 DEF ReleaseGate
      <4> QED
        BY <3>2, <3>3, <4>1
    <3>4. CASE u.probe.cancelRequired \/ u.probe.gateActive
      <4>1. z = [v EXCEPT !.probe.invalidated = TRUE,
                          !.probe.flight = IF @ = "none" THEN "sent" ELSE @,
                          !.probe.waiters = Append(@, who),
                          !.probe.main = IF who = "main" THEN "blocking" ELSE @,
                          !.probe.stop = IF who = "stop" THEN "blocking" ELSE @]
        <5>1. v.probe.cancelRequired \/ v.probe.gateActive
          BY <3>2, <3>4
        <5>2. z = IF ~v.probe.cancelRequired /\ ~v.probe.gateActive THEN Resume(v, a, who, TRUE)
                  ELSE [v EXCEPT !.probe.invalidated = TRUE,
                                 !.probe.flight = IF @ = "none" THEN "sent" ELSE @,
                                 !.probe.waiters = Append(@, who),
                                 !.probe.main = IF who = "main" THEN "blocking" ELSE @,
                                 !.probe.stop = IF who = "stop" THEN "blocking" ELSE @]
          BY <3>1 DEF ReleaseGate
        <5> QED
          BY <5>1, <5>2
      <4>2. PICK r : r = [q EXCEPT !.invalidated = TRUE, !.flight = fl, !.waiters = w, !.main = m, !.stop = st]
        OBVIOUS
      <4>3. z = [v EXCEPT !.probe = r]
        <5>1. z = [v EXCEPT !.probe.invalidated = TRUE, !.probe.flight = fl, !.probe.waiters = w,
                            !.probe.main = m, !.probe.stop = st]
          BY <1>f, <1>w, <1>m, <1>s, <3>2, <4>1
        <5> QED
          BY <3>2, <4>2, <5>1 DEF Scenes, Probes
      <4>4. z = [u EXCEPT !.probe = r]
        BY <3>2, <4>3 DEF Scenes
      <4> QED
        BY <3>4, <4>2, <4>4
    <3> QED
      BY <3>3, <3>4
  <2> QED
    BY <1>4, <1>5, <2>1

-----------------------------------------------------------------------------
\* A step of the script of an attempt.

\* A call that has read and captured nothing yet.
Fresh(c) == /\ c.pc \in {"idle", "before", "capture"} /\ c.read = {} /\ c.tokens = {}
            /\ c.pc = "capture" => c.op = "stop"

\* A gate g that a step of attempt a leaves behind.
GateStep(a, g) ==
    /\ g.request \notin g.cancelled /\ gate.cancelled \subseteq g.cancelled
    /\ \/ g.request \in {NoAttempt, gate.request}
       \/ g.request = a /\ gate.request = NoAttempt /\ \A t \in Thread : calls[a][t].pc = "idle"

\* The native calls of a state u in a step of attempt a.
CallsStep(a, u) ==
    /\ \A b \in Attempt \ {a} : u.calls[b] = calls[b]
    /\ \A t \in Thread : u.calls[a][t] = calls[a][t] \/ Fresh(u.calls[a][t])

\* A step of the script that hurts no attempt keeps the invariant.
LEMMA ScriptStep ==
  ASSUME Inv, NEW a \in Attempt, NEW g \in Gates, gate' = g, GateStep(a, g),
         NEW u \in Scenes, Becomes(a, u), faults' \in Nat,
         u.probe.main # "unused",
         OwnerOK(a, g, u.probe, u.screen), WaitOK(a, u.probe, u.screen), FinishOK(a, g, u.probe, u.calls),
         \A b \in Attempt \ {a} : OwnerOK(b, g, probes[b], u.screen) /\ WaitOK(b, probes[b], u.screen),
         CallsStep(a, u),
         u.screen.window = "destroyed" => g.request = NoAttempt \/ Idle
  PROVE  Inv'
<1>1. /\ probes' = [probes EXCEPT ![a] = u.probe] /\ screen' = u.screen /\ calls' = u.calls
      /\ jobs' = jobs
  BY DEF Becomes
<1>2. probes \in [Attempt -> Probes] /\ u.probe \in Probes
  BY DEF Inv, TypeOK, Scenes
<1>3. TypeOK'
  BY <1>1, <1>2 DEF Inv, TypeOK, Scenes, Gates
<1>4. GateOK' /\ JobsOK' /\ StopsOnlyItsOwn'
  BY <1>1 DEF Inv, GateStep, GateOK, JobsOK, StopsOnlyItsOwn, SealedAreOrphans, StopsItsOwnJobs
<1>5. Idle' <=> Idle
  BY <1>1 DEF Idle, Admitted, Registered, Retained, ActiveRows
<1>6. ASSUME NEW b \in Attempt
      PROVE  ScriptOK(b, State(b))'
  <2>1. PICK q : q = probes'[b]
    OBVIOUS
  <2>2. PICK w : w = State(b)'
    OBVIOUS
  <2>3. w.probe = q /\ w.screen = u.screen /\ w.calls = u.calls
    BY <1>1, <2>1, <2>2 DEF State
  <2>4. /\ q.main = "unused" => q = NoProbe
        /\ OwnerOK(b, g, q, u.screen) /\ WaitOK(b, q, u.screen) /\ FinishOK(b, g, q, u.calls)
    <3>1. CASE b = a
      BY <1>1, <1>2, <2>1, <3>1
    <3>2. CASE b # a
      <4>1. q = probes[b] /\ u.calls[b] = calls[b]
        BY <1>1, <1>2, <2>1, <3>2 DEF CallsStep
      <4>2. (q.main = "unused" => q = NoProbe) /\ FinishOK(b, gate, q, calls)
        BY <4>1 DEF Inv, ScriptOK, State
      <4>3. g.request = b => gate.request = b
        BY <3>2, CloseConstants DEF GateStep, Attempt, NoAttempt
      <4>4. FinishOK(b, g, q, u.calls)
        BY <4>1, <4>2, <4>3 DEF FinishOK
      <4> QED
        BY <3>2, <4>1, <4>2, <4>4
    <3> QED
      BY <3>1, <3>2
  <2>5. ScriptOK(b, w)'
    <3>1. FinishOK(b, g, q, u.calls)'
      BY <1>5, <2>4 DEF FinishOK
    <3> QED
      BY <2>3, <2>4, <3>1 DEF ScriptOK, OwnerOK, Over, WaitOK, FinishOK
  <2> QED
    BY <2>2, <2>5
<1>7. ASSUME NEW b \in Attempt, NEW t \in Thread
      PROVE  CallOK(b, calls[b][t])'
  <2>1. PICK c : c = calls'[b][t]
    OBVIOUS
  <2>2. c \in Calls
    BY <1>3, <2>1 DEF TypeOK
  <2>3. CallOK(b, c)'
    <3>1. CASE c = calls[b][t]
      <4>1. CallOK(b, c)
        BY <3>1 DEF Inv
      <4>2. (c.pc \in StopPcs => c.op = "stop") /\ ReadOK(c)' /\ OwnOK(b, c)'
        BY <1>1, <4>1 DEF CallOK, ReadOK, OwnOK
      <4>3. ASSUME g.request = b
            PROVE  HeldOK(c)'
        <5>1. CASE gate.request = b
          BY <1>1, <1>5, <4>1, <5>1 DEF CallOK, HeldOK
        <5>2. CASE gate.request # b
          <6>1. c.pc = "idle"
            BY <3>1, <4>3, <5>2, CloseConstants DEF GateStep, Attempt, NoAttempt
          <6> QED
            BY <6>1 DEF HeldOK
        <5> QED
          BY <5>1, <5>2
      <4> QED
        BY <4>2, <4>3 DEF CallOK
    <3>2. CASE c # calls[b][t]
      <4>1. Fresh(c)
        BY <1>1, <2>1, <3>2 DEF CallsStep
      <4> QED
        BY <4>1 DEF Fresh, CallOK, ReadOK, OwnOK, HeldOK, StopPcs
    <3> QED
      BY <3>1, <3>2
  <2> QED
    BY <2>1, <2>3
<1>8. GateStands'
  <2>1. DestroyedIdle'
    BY <1>1, <1>5 DEF DestroyedIdle
  <2>2. GateHasOwner'
    BY <1>1, <1>3, <1>6 DEF GateHasOwner, TypeOK, Requests, ScriptOK, OwnerOK, State
  <2> QED
    BY <2>1, <2>2 DEF GateStands
<1> QED
  BY <1>3, <1>4, <1>6, <1>7, <1>8 DEF Inv

\* What a step of attempt a does to the screen does not hurt the other attempts.
LEMMA OthersKept ==
  ASSUME Inv, NEW a \in Attempt, NEW g \in Gates, GateStep(a, g), NEW u, SceneOK(a, g, u),
         NEW b \in Attempt \ {a}
  PROVE  OwnerOK(b, g, probes[b], u.screen) /\ WaitOK(b, probes[b], u.screen)
<1>1. OwnerOK(b, gate, probes[b], screen) /\ WaitOK(b, probes[b], screen)
  BY DEF Inv, ScriptOK, State
<1>2. a # b /\ b # NoAttempt /\ (g.request = b => gate.request = b)
  BY CloseConstants DEF GateStep, Attempt, NoAttempt
<1>3. PICK q : q = probes[b]
  OBVIOUS
<1>4. PICK s : s = u.screen
  OBVIOUS
<1>5. s.prompt = "waiting" => s.current # NoAttempt
  BY <1>4 DEF SceneOK, OwnerOK
<1>6. OwnerOK(b, g, q, s)
  BY <1>1, <1>2, <1>3, <1>4, <1>5 DEF SceneOK, Moved, OwnerOK, Over, GateStep
<1>7. WaitOK(b, q, s)
  BY <1>1, <1>2, <1>3, <1>4 DEF SceneOK, Moved, WaitOK
<1> QED
  BY <1>3, <1>4, <1>6, <1>7

\* A step that ends in a sound state of its attempt keeps the invariant.
LEMMA SceneStep ==
  ASSUME Inv, NEW a \in Attempt, NEW g \in Gates, gate' = g, GateStep(a, g),
         NEW u, SceneOK(a, g, u), Becomes(a, u), faults' \in Nat,
         FinishOK(a, g, u.probe, u.calls), CallsStep(a, u),
         u.screen.window = "destroyed" => g.request = NoAttempt \/ Idle
  PROVE  Inv'
<1>1. \A b \in Attempt \ {a} : OwnerOK(b, g, probes[b], u.screen) /\ WaitOK(b, probes[b], u.screen)
  BY OthersKept
<1>2. /\ u \in Scenes /\ u.probe.main # "unused"
      /\ OwnerOK(a, g, u.probe, u.screen) /\ WaitOK(a, u.probe, u.screen)
  BY DEF SceneOK
<1> QED
  BY <1>1, <1>2, ScriptStep

\* The state in which a step of the script begins.
LEMMA StateOK ==
  ASSUME Inv, NEW a \in Attempt, probes[a].main # "unused", NEW u, u = State(a)
  PROVE  /\ SceneOK(a, gate, u) /\ u.probe = probes[a] /\ u.screen = screen /\ u.calls = calls
         /\ FinishOK(a, gate, probes[a], calls)
<1>1. u.probe = probes[a] /\ u.screen = screen /\ u.calls = calls
      /\ u = [probe |-> probes[a], screen |-> screen, calls |-> calls]
  BY DEF State
<1>2. u \in Scenes
  BY <1>1 DEF Inv, TypeOK, Scenes
<1>3. ScriptOK(a, u)
  BY DEF Inv
<1> QED
  BY <1>1, <1>2, <1>3 DEF SceneOK, Moved, ScriptOK

\* The state a native answer is read in: nothing moved but the call that ended.
Taken(a, t, u) ==
  /\ SceneOK(a, gate, u) /\ u.probe = probes[a] /\ u.screen = screen
  /\ u.calls = [calls EXCEPT ![a][t] = NoCall] /\ CallsStep(a, u)
  /\ \A x \in Thread \ {t} : u.calls[a][x] = calls[a][x]

\* The answer of a native call is taken.
LEMMA TakeOK ==
  ASSUME Inv, NEW a \in Attempt, probes[a].main # "unused", NEW t \in Thread, NEW u, u = Take(a, t)
  PROVE  Taken(a, t, u)
<1>1. PICK v : v = State(a)
  OBVIOUS
<1>2. SceneOK(a, gate, v) /\ v.probe = probes[a] /\ v.screen = screen /\ v.calls = calls
  BY <1>1, StateOK
<1>3. v \in Scenes /\ calls \in [Attempt -> [Thread -> Calls]]
  BY <1>2 DEF SceneOK, Inv, TypeOK
<1>4. u = [v EXCEPT !.calls[a][t] = NoCall]
  BY <1>1 DEF Take
<1>5. u.probe = v.probe /\ u.screen = v.screen /\ u.calls = [calls EXCEPT ![a][t] = NoCall]
      /\ u = [probe |-> u.probe, screen |-> u.screen, calls |-> u.calls]
  BY <1>2, <1>3, <1>4 DEF Scenes
<1>6. NoCall \in Calls /\ Fresh(NoCall)
  BY DEF NoCall, Calls, Ops, Pcs, Answers, Fresh
<1>7. u.calls \in [Attempt -> [Thread -> Calls]]
  BY <1>3, <1>5, <1>6
<1>8. u \in Scenes
  BY <1>2, <1>3, <1>5, <1>7 DEF Scenes
<1>9. CallsStep(a, u) /\ \A x \in Thread \ {t} : u.calls[a][x] = calls[a][x]
  BY <1>3, <1>5, <1>6 DEF CallsStep
<1> QED
  BY <1>2, <1>5, <1>8, <1>9 DEF SceneOK, Taken

\* A native call is awaited by the close or by the stop.
LEMMA AwaitOK ==
  ASSUME NEW a \in Attempt, NEW g \in Gates, NEW u, SceneOK(a, g, u), CallsStep(a, u),
         NEW t \in Thread, NEW op \in Ops, NEW pc,
         t = "main" => /\ pc \in {"first", "second", "final", "finish"}
                       /\ u.screen.current \in {a, NoAttempt}
                       /\ u.probe.main # "blocking" \/ u.probe.waiters = <<>>,
         t = "stop" => pc \in {"starting", "stopping"} /\ u.probe.waiters = <<>>,
         calls \in [Attempt -> [Thread -> Calls]],
         NEW z, z = Await(u, a, t, op, pc)
  PROVE  /\ SceneOK(a, g, z) /\ CallsStep(a, z) /\ z.screen = u.screen
         /\ z.probe.main = (IF t = "main" THEN pc ELSE u.probe.main)
         /\ z.probe.waiters = u.probe.waiters
         /\ z.calls[a][t].op = op
         /\ \A x \in Thread \ {t} : z.calls[a][x] = u.calls[a][x]
<1>1. u \in Scenes /\ u.probe \in Probes /\ u.calls \in [Attempt -> [Thread -> Calls]]
  BY DEF SceneOK, Scenes
<1>2. PICK d : d = [NoCall EXCEPT !.op = op, !.settle = TRUE, !.pc = IF op = "stop" THEN "capture" ELSE "before"]
  OBVIOUS
<1>3. d \in Calls /\ Fresh(d) /\ d.op = op
  BY <1>2 DEF NoCall, Calls, Pcs, StopPcs, ReadPcs, Answers, Fresh
<1>4. PICK cs : cs = [u.calls EXCEPT ![a][t] = d]
  OBVIOUS
<1>5. PICK m : m = IF t = "main" THEN pc ELSE u.probe.main
  OBVIOUS
<1>6. PICK st : st = IF t = "stop" THEN pc ELSE u.probe.stop
  OBVIOUS
<1>7. PICK q : q = [u.probe EXCEPT !.main = m, !.stop = st]
  OBVIOUS
<1>8. m \in Mains /\ st \in Stops /\ (m = u.probe.main \/ m \in {"first", "second", "final", "finish"})
  BY <1>1, <1>5, <1>6 DEF Probes, Mains, Stops
<1>9. /\ q \in Probes /\ q.main = m /\ q.stop = st /\ q.waiters = u.probe.waiters
      /\ q.keepPrompt = u.probe.keepPrompt /\ q.cancelRequired = u.probe.cancelRequired
      /\ q.gateActive = u.probe.gateActive /\ q.flight = u.probe.flight
      /\ q.invalidated = u.probe.invalidated
  BY <1>1, <1>7, <1>8 DEF Probes
<1>10. z = [u EXCEPT !.calls = cs, !.probe = q]
  <2>1. z = [u EXCEPT !.calls = StartCall(u.calls, a, t, op),
                      !.probe.main = m, !.probe.stop = st]
    BY <1>1, <1>5, <1>6 DEF Await, Scenes, Probes
  <2>2. StartCall(u.calls, a, t, op) = cs
    BY <1>2, <1>4 DEF StartCall
  <2> QED
    BY <1>1, <1>7, <2>1, <2>2 DEF Scenes, Probes
<1>11. cs \in [Attempt -> [Thread -> Calls]] /\ cs[a][t] = d
       /\ (\A b \in Attempt \ {a} : cs[b] = u.calls[b])
       /\ \A x \in Thread \ {t} : cs[a][x] = u.calls[a][x]
  BY <1>1, <1>3, <1>4
<1>12. z \in Scenes /\ z.probe = q /\ z.screen = u.screen /\ z.calls = cs
  BY <1>1, <1>9, <1>10, <1>11 DEF Scenes
<1>13. OwnerOK(a, g, q, u.screen)
  BY <1>5, <1>8, <1>9 DEF SceneOK, OwnerOK, Over
<1>14. WaitOK(a, q, u.screen)
  <2>1. WaitOK(a, u.probe, u.screen)
    BY DEF SceneOK
  <2>2. \A i \in DOMAIN q.waiters : /\ q.waiters[i] = "main" => m = "blocking"
                                    /\ q.waiters[i] = "stop" => st = "blocking"
    BY <1>5, <1>6, <1>9, <2>1 DEF WaitOK, Thread
  <2> QED
    BY <1>9, <2>1, <2>2 DEF WaitOK
<1>15. m # "unused"
  BY <1>8 DEF SceneOK
<1>16. CallsStep(a, z)
  BY <1>3, <1>11, <1>12 DEF CallsStep
<1> QED
  BY <1>3, <1>5, <1>9, <1>11, <1>12, <1>13, <1>14, <1>15, <1>16 DEF SceneOK

\* A step that goes no further than u, or ends the close, keeps the invariant.
LEMMA KeptStep ==
  ASSUME Inv, NEW a \in Attempt, NEW g \in Gates, gate' = g, GateStep(a, g),
         NEW u, NEW z, SceneOK(a, g, z), Kept(u, z), CallsStep(a, u),
         FinishOK(a, g, u.probe, u.calls) \/ z.probe.main \in {"blocking", "done"},
         Becomes(a, z), faults' \in Nat,
         u.screen.window = "open"
  PROVE  Inv'
<1>1. FinishOK(a, g, z.probe, z.calls)
  BY DEF Kept, FinishOK
<1>2. CallsStep(a, z)
  BY DEF Kept, CallsStep
<1>3. z.screen.window = "open"
  BY DEF Kept
<1> QED
  BY <1>1, <1>2, <1>3, SceneStep

\* The gate as it is.
LEMMA GateKept ==
  ASSUME Inv, NEW a \in Attempt
  PROVE  gate \in Gates /\ GateStep(a, gate)
BY DEF Inv, TypeOK, GateOK, Gates, GateStep

\* The chat, the workshop and the editor are saved, or the close is blocked.
LEMMA SaveWritingInv ==
  ASSUME Inv, screen.window = "open", NEW a \in Attempt, SaveWriting(a)
  PROVE  Inv'
<1>1. probes[a].main = "save" /\ gate' = gate
  BY DEF SaveWriting
<1>2. PICK bad \in {FALSE} \cup {MayFail} :
        /\ Fails(bad)
        /\ Becomes(a, IF bad THEN ReleaseGate(State(a), a, "main")
                      ELSE Await(State(a), a, "main", "status", "first"))
  BY DEF SaveWriting
<1>3. faults' \in Nat
  BY <1>2, FaultsCounted DEF Inv
<1>4. PICK u : u = State(a)
  OBVIOUS
<1>5. /\ SceneOK(a, gate, u) /\ u.probe = probes[a] /\ u.screen = screen /\ u.calls = calls
      /\ FinishOK(a, gate, probes[a], calls)
  BY <1>1, <1>4, StateOK
<1>6. CallsStep(a, u) /\ gate \in Gates /\ GateStep(a, gate)
  BY <1>5, GateKept DEF CallsStep
<1>7. PICK z : z = IF bad THEN ReleaseGate(u, a, "main") ELSE Await(u, a, "main", "status", "first")
  OBVIOUS
<1>8. Becomes(a, z)
  BY <1>2, <1>4, <1>7
<1>9. CASE z = ReleaseGate(u, a, "main")
  <2>1. PICK who \in Who : who = "main"
    BY DEF Who
  <2>2. SceneOK(a, gate, z) /\ Kept(u, z)
    BY <1>1, <1>5, <1>6, <1>9, <2>1, ReleaseOK
  <2> QED
    BY <1>1, <1>3, <1>5, <1>6, <1>8, <2>2, KeptStep
<1>10. CASE z = Await(u, a, "main", "status", "first")
  <2>1. u.screen.current \in {a, NoAttempt}
    BY <1>1, <1>5 DEF SceneOK, OwnerOK
  <2>2. PICK t \in Thread, op \in Ops : t = "main" /\ op = "status"
    BY DEF Thread, Ops
  <2>3. calls \in [Attempt -> [Thread -> Calls]]
    BY DEF Inv, TypeOK
  <2>4. z = Await(u, a, t, op, "first")
    BY <1>10, <2>2
  <2>5. SceneOK(a, gate, z) /\ CallsStep(a, z) /\ z.screen = u.screen /\ z.probe.main = "first"
    BY <1>1, <1>5, <1>6, <2>1, <2>2, <2>3, <2>4, AwaitOK
  <2>6. FinishOK(a, gate, z.probe, z.calls)
    BY <2>5 DEF FinishOK
  <2> QED
    BY <1>1, <1>3, <1>5, <1>6, <1>8, <2>5, <2>6, SceneStep
<1> QED
  BY <1>7, <1>9, <1>10

\* A new close: the screen was free, and every earlier attempt is done.
LEMMA CloseApplicationInv ==
  ASSUME Inv, screen.window = "open", NEW a \in Attempt, CloseApplication(a)
  PROVE  Inv'
<1>1. /\ screen.current = NoAttempt /\ probes[a] = NoProbe /\ gate' = gate /\ faults' = faults
      /\ \A b \in Attempt : IF b < a THEN probes[b].main = "done" ELSE probes[b].main = "unused"
  BY DEF CloseApplication
<1>2. PICK u : u = [State(a) EXCEPT !.probe.main = "begin", !.probe.cancelRequired = TRUE,
                                    !.screen.current = a]
  OBVIOUS
<1>3. Becomes(a, u)
  BY <1>2 DEF CloseApplication
<1>4. a # NoAttempt /\ a \in Requests
  BY CloseConstants DEF Attempt, NoAttempt, Requests
<1>5. OwnerOK(a, gate, probes[a], screen) /\ FinishOK(a, gate, probes[a], calls)
  BY DEF Inv, ScriptOK, State
<1>6. PICK q : q = [probes[a] EXCEPT !.main = "begin", !.cancelRequired = TRUE]
  OBVIOUS
<1>7. PICK s : s = [screen EXCEPT !.current = a]
  OBVIOUS
<1>8. screen \in Screens /\ probes[a] \in Probes /\ calls \in [Attempt -> [Thread -> Calls]] /\ faults' \in Nat
  BY <1>1 DEF Inv, TypeOK
<1>9. u = [probe |-> q, screen |-> s, calls |-> calls]
  BY <1>2, <1>6, <1>7, <1>8 DEF State, Probes, Screens
<1>10. s \in Screens /\ s.current = a /\ s.prompt = screen.prompt /\ s.window = "open"
  BY <1>4, <1>7, <1>8 DEF Screens
<1>11. /\ q \in Probes /\ q.main = "begin" /\ q.cancelRequired /\ q.flight = "none" /\ ~q.invalidated
       /\ q.waiters = <<>>
  <2>1. /\ q \in Probes /\ q.main = "begin" /\ q.cancelRequired /\ q.flight = probes[a].flight
        /\ q.invalidated = probes[a].invalidated /\ q.waiters = probes[a].waiters
    BY <1>6, <1>8 DEF Probes, Mains
  <2>2. probes[a].flight = "none" /\ probes[a].invalidated = FALSE /\ probes[a].waiters = <<>>
    BY <1>1 DEF NoProbe
  <2> QED
    BY <2>1, <2>2
<1>12. u \in Scenes /\ u.probe = q /\ u.screen = s /\ u.calls = calls
  BY <1>8, <1>9, <1>10, <1>11 DEF Scenes
<1>13. s.prompt # "waiting"
  BY <1>1, <1>5, <1>10 DEF OwnerOK
<1>14. OwnerOK(a, gate, q, s)
  BY <1>4, <1>10, <1>11, <1>13 DEF OwnerOK
<1>15. WaitOK(a, q, s)
  BY <1>11 DEF WaitOK
<1>16. FinishOK(a, gate, q, calls)
  BY <1>1, <1>5, <1>11 DEF FinishOK, NoProbe
<1>17. ASSUME NEW b \in Attempt \ {a}
       PROVE  OwnerOK(b, gate, probes[b], s) /\ WaitOK(b, probes[b], s)
  <2>1. OwnerOK(b, gate, probes[b], screen) /\ WaitOK(b, probes[b], screen)
    BY DEF Inv, ScriptOK, State
  <2>2. probes[b].main \in {"unused", "done"} /\ b # NoAttempt
    BY <1>1, CloseConstants DEF Attempt, NoAttempt
  <2>3. OwnerOK(b, gate, probes[b], s)
    BY <1>1, <1>10, <1>13, <2>1, <2>2 DEF OwnerOK
  <2>4. WaitOK(b, probes[b], s)
    BY <1>1, <2>1, <2>2 DEF WaitOK
  <2> QED
    BY <2>3, <2>4
<1>18. CallsStep(a, u) /\ gate \in Gates /\ GateStep(a, gate)
  BY <1>12, GateKept DEF CallsStep
<1>19. u.probe.main # "unused" /\ u.screen.window # "destroyed"
  BY <1>10, <1>11, <1>12
<1> QED
  BY <1>1, <1>3, <1>8, <1>12, <1>14, <1>15, <1>16, <1>17, <1>18, <1>19, ScriptStep

\* The native gate closes for the attempt, or the close is blocked; the answer
\* may be lost either way.
LEMMA BeginInv ==
  ASSUME Inv, screen.window = "open", NEW a \in Attempt, Begin(a)
  PROVE  Inv'
<1>1. probes[a].main = "begin"
  BY DEF Begin
<1>2. PICK g : g = IF MayBegin(a) THEN BeginClose(a) ELSE gate
  OBVIOUS
<1>3. gate' = g
  BY <1>2 DEF Begin
<1>4. PICK lost \in {FALSE} \cup {MayFail} :
        /\ Fails(lost)
        /\ Becomes(a, IF lost \/ ~MayBegin(a) THEN ReleaseGate(State(a), a, "main")
                      ELSE [State(a) EXCEPT !.probe.gateActive = TRUE, !.probe.main = "save"])
  BY DEF Begin
<1>5. faults' \in Nat
  BY <1>4, FaultsCounted DEF Inv
<1>6. PICK u : u = State(a)
  OBVIOUS
<1>7. /\ SceneOK(a, gate, u) /\ u.probe = probes[a] /\ u.screen = screen /\ u.calls = calls
      /\ FinishOK(a, gate, probes[a], calls)
  BY <1>1, <1>6, StateOK
<1>8. \A t \in Thread : calls[a][t].pc = "idle"
  BY <1>1, <1>7 DEF FinishOK
<1>9. a \in Requests /\ a # NoAttempt
  BY CloseConstants DEF Attempt, NoAttempt, Requests
<1>10. gate \in Gates /\ GateStep(a, gate)
  BY GateKept
<1>11. g \in Gates /\ GateStep(a, g) /\ SceneOK(a, g, u)
  <2>1. CASE MayBegin(a)
    <3>1. PICK st \in BOOLEAN : st = IF gate.request = NoAttempt THEN FALSE ELSE gate.stopping
      BY <1>10 DEF Gates
    <3>2. g = [gate EXCEPT !.request = a, !.stopping = st]
      BY <1>2, <2>1, <3>1 DEF BeginClose
    <3>3. g \in Gates /\ g.request = a /\ g.cancelled = gate.cancelled /\ a \notin gate.cancelled
          /\ gate.request \in {NoAttempt, a}
      BY <1>9, <1>10, <2>1, <3>2 DEF Gates, MayBegin
    <3>4. GateStep(a, g)
      BY <1>8, <3>3 DEF GateStep
    <3>5. u.screen.current = a /\ u.probe.cancelRequired
      BY <1>1, <1>7, <3>3 DEF SceneOK, OwnerOK, Over
    <3>6. OwnerOK(a, g, u.probe, u.screen)
      BY <1>1, <1>7, <3>3, <3>5 DEF SceneOK, OwnerOK
    <3> QED
      BY <1>7, <3>3, <3>4, <3>6 DEF SceneOK
  <2>2. CASE ~MayBegin(a)
    BY <1>2, <1>7, <1>10, <2>2
  <2> QED
    BY <2>1, <2>2
<1>12. CallsStep(a, u)
  BY <1>7 DEF CallsStep
<1>13. CASE Becomes(a, ReleaseGate(u, a, "main"))
  <2>1. PICK who \in Who : who = "main"
    BY DEF Who
  <2>2. PICK z : z = ReleaseGate(u, a, who)
    OBVIOUS
  <2>3. SceneOK(a, g, z) /\ Kept(u, z) /\ z.probe.main \in {"blocking", "done"} /\ Becomes(a, z)
    BY <1>1, <1>7, <1>11, <1>13, <2>1, <2>2, ReleaseOK
  <2> QED
    BY <1>3, <1>5, <1>7, <1>11, <1>12, <2>3, KeptStep
<1>14. CASE MayBegin(a) /\ Becomes(a, [u EXCEPT !.probe.gateActive = TRUE, !.probe.main = "save"])
  <2>1. PICK q : q = [u.probe EXCEPT !.gateActive = TRUE, !.main = "save"]
    OBVIOUS
  <2>2. PICK z : z = [u EXCEPT !.probe = q]
    OBVIOUS
  <2>3. u \in Scenes
    BY <1>7 DEF SceneOK
  <2>4. z = [u EXCEPT !.probe.gateActive = TRUE, !.probe.main = "save"]
    BY <2>1, <2>2, <2>3 DEF Scenes, Probes
  <2>5. /\ q \in Probes /\ q.main = "save" /\ q.gateActive /\ q.cancelRequired = u.probe.cancelRequired
        /\ q.flight = u.probe.flight /\ q.keepPrompt = u.probe.keepPrompt
        /\ q.invalidated = u.probe.invalidated /\ q.waiters = u.probe.waiters /\ q.stop = u.probe.stop
    BY <2>1, <2>3 DEF Scenes, Probes, Mains
  <2>6. z \in Scenes /\ z.probe = q /\ z.screen = u.screen /\ z.calls = u.calls
    BY <2>2, <2>3, <2>5 DEF Scenes
  <2>7. g.request = a /\ u.screen.current = a
    <3>1. g = BeginClose(a) /\ gate \in Gates
      BY <1>2, <1>10, <1>14
    <3>2. g.request = a
      BY <3>1 DEF BeginClose, Gates
    <3> QED
      BY <1>11, <3>2 DEF SceneOK, OwnerOK
  <2>8. OwnerOK(a, g, q, u.screen)
    BY <1>1, <1>7, <1>11, <2>5, <2>7 DEF SceneOK, OwnerOK, Over
  <2>9. WaitOK(a, q, u.screen)
    BY <1>1, <1>7, <2>5 DEF SceneOK, WaitOK
  <2>10. SceneOK(a, g, z) /\ FinishOK(a, g, z.probe, z.calls) /\ CallsStep(a, z)
    BY <1>7, <2>5, <2>6, <2>8, <2>9 DEF SceneOK, FinishOK, CallsStep
  <2>11. Becomes(a, z) /\ z.screen.window = "open"
    BY <1>7, <1>14, <2>4, <2>6
  <2> QED
    BY <1>3, <1>5, <1>11, <2>10, <2>11, SceneStep
<1> QED
  BY <1>4, <1>6, <1>13, <1>14

\* The window is destroyed by a close that found nothing left, or stays.
LEMMA DestroyInv ==
  ASSUME Inv, screen.window = "open", NEW a \in Attempt, Destroy(a)
  PROVE  Inv'
<1>1. probes[a].main = "destroy" /\ gate' = gate
  BY DEF Destroy
<1>2. PICK bad \in {FALSE} \cup {MayFail} :
        /\ Fails(bad)
        /\ Becomes(a, IF bad THEN ReleaseGate(State(a), a, "main")
                      ELSE [State(a) EXCEPT !.screen.window = "destroyed"])
  BY DEF Destroy
<1>3. faults' \in Nat
  BY <1>2, FaultsCounted DEF Inv
<1>4. PICK u : u = State(a)
  OBVIOUS
<1>5. /\ SceneOK(a, gate, u) /\ u.probe = probes[a] /\ u.screen = screen /\ u.calls = calls
      /\ FinishOK(a, gate, probes[a], calls)
  BY <1>1, <1>4, StateOK
<1>6. CallsStep(a, u) /\ gate \in Gates /\ GateStep(a, gate)
  BY <1>5, GateKept DEF CallsStep
<1>7. CASE Becomes(a, ReleaseGate(u, a, "main"))
  <2>1. PICK who \in Who : who = "main"
    BY DEF Who
  <2>2. PICK z : z = ReleaseGate(u, a, who)
    OBVIOUS
  <2>3. SceneOK(a, gate, z) /\ Kept(u, z) /\ z.probe.main \in {"blocking", "done"} /\ Becomes(a, z)
    BY <1>1, <1>5, <1>6, <1>7, <2>1, <2>2, ReleaseOK
  <2> QED
    BY <1>1, <1>3, <1>5, <1>6, <2>3, KeptStep
<1>8. CASE Becomes(a, [u EXCEPT !.screen.window = "destroyed"])
  <2>1. PICK z : z = [u EXCEPT !.screen.window = "destroyed"]
    OBVIOUS
  <2>2. u \in Scenes
    BY <1>5 DEF SceneOK
  <2>3. z \in Scenes /\ z.probe = u.probe /\ z.calls = u.calls
        /\ z.screen.current = u.screen.current /\ z.screen.prompt = u.screen.prompt
    BY <2>1, <2>2 DEF Scenes, Screens
  <2>4. OwnerOK(a, gate, z.probe, z.screen) /\ WaitOK(a, z.probe, z.screen)
    BY <1>5, <2>3 DEF SceneOK, OwnerOK, WaitOK
  <2>5. SceneOK(a, gate, z) /\ FinishOK(a, gate, z.probe, z.calls) /\ CallsStep(a, z)
    BY <1>5, <1>6, <2>3, <2>4 DEF SceneOK, Moved, CallsStep
  <2>6. ASSUME gate.request # NoAttempt
        PROVE  Idle
    <3>1. screen.current = gate.request
      BY <2>6 DEF Inv, GateStands, GateHasOwner
    <3>2. screen.current \in {a, NoAttempt}
      BY <1>1, <1>5 DEF SceneOK, OwnerOK
    <3> QED
      BY <1>1, <1>5, <2>6, <3>1, <3>2 DEF FinishOK
  <2>7. Becomes(a, z)
    BY <1>8, <2>1
  <2> QED
    BY <1>1, <1>3, <1>6, <2>5, <2>6, <2>7, SceneStep
<1> QED
  BY <1>2, <1>4, <1>7, <1>8

\* The author chooses to stop the work and close.
LEMMA StopAndCloseInv ==
  ASSUME Inv, screen.window = "open", NEW a \in Attempt, StopAndClose(a)
  PROVE  Inv'
<1>1. /\ screen.prompt = "waiting" /\ screen.current = a /\ ~probes[a].invalidated
      /\ gate' = gate /\ faults' = faults
  BY DEF StopAndClose, IsCurrent
<1>2. PICK u : u = State(a)
  OBVIOUS
<1>3. OwnerOK(a, gate, probes[a], screen) /\ WaitOK(a, probes[a], screen)
  BY DEF Inv, ScriptOK, State
<1>4. probes[a].main \notin {"unused", "begin"} /\ probes[a].waiters = <<>>
  BY <1>1, <1>3 DEF OwnerOK, WaitOK
<1>5. /\ SceneOK(a, gate, u) /\ u.probe = probes[a] /\ u.screen = screen /\ u.calls = calls
      /\ FinishOK(a, gate, probes[a], calls)
  BY <1>2, <1>4, StateOK
<1>6. CallsStep(a, u) /\ gate \in Gates /\ GateStep(a, gate)
  BY <1>5, GateKept DEF CallsStep
<1>7. PICK t \in Thread, op \in Ops : t = "stop" /\ op = "status"
  BY DEF Thread, Ops
<1>8. PICK z : z = Await(u, a, t, op, "starting")
  OBVIOUS
<1>9. Becomes(a, z)
  BY <1>2, <1>7, <1>8 DEF StopAndClose
<1>10. calls \in [Attempt -> [Thread -> Calls]] /\ faults' \in Nat
  BY <1>1 DEF Inv, TypeOK
<1>11. /\ SceneOK(a, gate, z) /\ CallsStep(a, z) /\ z.screen = u.screen
       /\ z.probe.main = u.probe.main
       /\ \A x \in Thread \ {t} : z.calls[a][x] = u.calls[a][x]
  BY <1>4, <1>5, <1>6, <1>7, <1>8, <1>10, AwaitOK
<1>12. FinishOK(a, gate, z.probe, z.calls)
  BY <1>4, <1>5, <1>7, <1>11 DEF FinishOK, Thread
<1> QED
  BY <1>1, <1>5, <1>6, <1>9, <1>10, <1>11, <1>12, SceneStep

\* The author stays: the dialog closes at once, or after the cancellation.
LEMMA StayOpenInv ==
  ASSUME Inv, screen.window = "open", StayOpen
  PROVE  Inv'
<1>1. PICK a : a = screen.current
  OBVIOUS
<1>2. a \in Attempt /\ gate' = gate /\ faults' = faults
  BY <1>1 DEF StayOpen, Inv, TypeOK, Screens, Requests
<1>3. PICK p : p = probes[a]
  OBVIOUS
<1>4. /\ \A i \in 1 .. Len(p.waiters) : p.waiters[i] # "stay"
      /\ Becomes(a, IF p.decision = "stay" /\ ~p.cancelRequired /\ ~p.gateActive
                    THEN [State(a) EXCEPT !.screen.current = NoAttempt, !.screen.prompt = "none"]
                    ELSE ReleaseGate(State(a), a, "stay"))
  BY <1>1, <1>3 DEF StayOpen
<1>5. PICK u : u = State(a)
  OBVIOUS
<1>6. OwnerOK(a, gate, p, screen) /\ p \in Probes /\ faults' \in Nat
  BY <1>2, <1>3 DEF Inv, TypeOK, ScriptOK, State
<1>7. p.main # "unused"
  BY <1>1, <1>6 DEF OwnerOK
<1>8. /\ SceneOK(a, gate, u) /\ u.probe = p /\ u.screen = screen /\ u.calls = calls
      /\ FinishOK(a, gate, p, calls)
  BY <1>2, <1>3, <1>5, <1>7, StateOK
<1>9. CallsStep(a, u) /\ gate \in Gates /\ GateStep(a, gate)
  BY <1>2, <1>8, GateKept DEF CallsStep
<1>10. CASE Becomes(a, ReleaseGate(u, a, "stay"))
  <2>1. PICK who \in Who : who = "stay"
    BY DEF Who
  <2>2. PICK z : z = ReleaseGate(u, a, who)
    OBVIOUS
  <2>3. \A i \in DOMAIN p.waiters : p.waiters[i] # "stay"
    BY <1>4, <1>6 DEF Probes
  <2>4. Becomes(a, z)
    BY <1>10, <2>1, <2>2
  <2>5. SceneOK(a, gate, z) /\ Kept(u, z)
    BY <1>1, <1>2, <1>8, <1>9, <2>1, <2>2, <2>3, ReleaseOK
  <2> QED
    BY <1>2, <1>6, <1>8, <1>9, <2>4, <2>5, KeptStep
<1>11. CASE /\ ~p.cancelRequired /\ ~p.gateActive
            /\ Becomes(a, [u EXCEPT !.screen.current = NoAttempt, !.screen.prompt = "none"])
  <2>1. PICK z : z = [u EXCEPT !.screen.current = NoAttempt, !.screen.prompt = "none"]
    OBVIOUS
  <2>2. u \in Scenes
    BY <1>8 DEF SceneOK
  <2>3. z \in Scenes /\ z.probe = p /\ z.calls = calls /\ z.screen.window = "open"
        /\ z.screen.current = NoAttempt /\ z.screen.prompt = "none"
    BY <1>8, <2>1, <2>2 DEF Scenes, Screens, Requests, Prompts
  <2>4. a # NoAttempt /\ gate.request # a /\ p.waiters = <<>>
    BY <1>2, <1>8, <1>11, CloseConstants DEF Attempt, NoAttempt, SceneOK, OwnerOK, WaitOK
  <2>5. OwnerOK(a, gate, p, z.screen)
    <3>1. PICK s : s = z.screen
      OBVIOUS
    <3>2. s.current = NoAttempt /\ s.prompt = "none"
      BY <2>3, <3>1
    <3>3. OwnerOK(a, gate, p, s)
      BY <1>6, <1>7, <1>11, <2>4, <3>2 DEF OwnerOK
    <3> QED
      BY <3>1, <3>3
  <2>6. WaitOK(a, p, z.screen)
    BY <1>8, <2>3, <2>4 DEF SceneOK, WaitOK
  <2>7. SceneOK(a, gate, z) /\ FinishOK(a, gate, z.probe, z.calls) /\ CallsStep(a, z)
    BY <1>1, <1>7, <1>8, <1>9, <2>3, <2>5, <2>6 DEF SceneOK, Moved, CallsStep
  <2>8. Becomes(a, z)
    BY <1>11, <2>1
  <2> QED
    BY <1>2, <1>6, <1>9, <2>3, <2>7, <2>8, SceneStep
<1> QED
  BY <1>4, <1>5, <1>10, <1>11

\* The cancellation reaches the native gate, or fails on its way.
LEMMA CancelLandsInv ==
  ASSUME Inv, screen.window = "open", NEW a \in Attempt, CancelLands(a)
  PROVE  Inv'
<1>1. probes[a].flight = "sent"
  BY DEF CancelLands
<1>2. PICK bad \in {FALSE} \cup {MayFail} :
        LET ok == ~bad /\ MayCancel(a)
        IN  /\ Fails(bad)
            /\ gate' = IF ok THEN CancelClose(a) ELSE gate
            /\ Becomes(a, [State(a) EXCEPT !.probe.flight = IF ok THEN "cancelled" ELSE "refused"])
  BY DEF CancelLands
<1>3. PICK ok \in BOOLEAN : ok = (~bad /\ MayCancel(a))
  OBVIOUS
<1>4. PICK g : g = IF ok THEN CancelClose(a) ELSE gate
  OBVIOUS
<1>5. PICK f : f = IF ok THEN "cancelled" ELSE "refused"
  OBVIOUS
<1>6. PICK u : u = State(a)
  OBVIOUS
<1>7. PICK z : z = [u EXCEPT !.probe.flight = f]
  OBVIOUS
<1>8. Fails(bad) /\ gate' = g /\ Becomes(a, z)
  BY <1>2, <1>3, <1>4, <1>5, <1>6, <1>7
<1>9. faults' \in Nat
  BY <1>8, FaultsCounted DEF Inv
<1>10. probes[a].main # "unused"
  BY <1>1 DEF Inv, ScriptOK, State, NoProbe
<1>11. /\ SceneOK(a, gate, u) /\ u.probe = probes[a] /\ u.screen = screen /\ u.calls = calls
       /\ FinishOK(a, gate, probes[a], calls)
  BY <1>6, <1>10, StateOK
<1>12. gate \in Gates /\ GateStep(a, gate) /\ a \in Requests /\ a # NoAttempt
  BY GateKept, CloseConstants DEF Attempt, NoAttempt, Requests
<1>13. g \in Gates /\ GateStep(a, g) /\ g.request \in {NoAttempt, gate.request}
       /\ gate.cancelled \subseteq g.cancelled
       /\ (f = "cancelled" => a \in g.cancelled)
       /\ f \in {"cancelled", "refused"}
  <2>1. CASE ok
    <3>1. g = [request |-> NoAttempt, stopping |-> FALSE, cancelled |-> gate.cancelled \cup {a}]
      BY <1>4, <2>1 DEF CancelClose
    <3>2. g \in Gates /\ g.request = NoAttempt /\ g.cancelled = gate.cancelled \cup {a}
      BY <1>12, <3>1 DEF Gates, Requests
    <3>3. NoAttempt \notin g.cancelled
      BY <3>2, <1>12, CloseConstants DEF Gates, Attempt, NoAttempt
    <3> QED
      BY <1>5, <2>1, <3>2, <3>3 DEF GateStep
  <2>2. CASE ~ok
    BY <1>4, <1>5, <1>12, <2>2
  <2> QED
    BY <2>1, <2>2
<1>14. u \in Scenes
  BY <1>11 DEF SceneOK
<1>15. PICK q : q = [u.probe EXCEPT !.flight = f]
  OBVIOUS
<1>16. z = [u EXCEPT !.probe = q]
  BY <1>7, <1>14, <1>15 DEF Scenes
<1>17. /\ q \in Probes /\ q.flight = f /\ q.main = u.probe.main /\ q.stop = u.probe.stop
       /\ q.cancelRequired = u.probe.cancelRequired /\ q.gateActive = u.probe.gateActive
       /\ q.keepPrompt = u.probe.keepPrompt /\ q.invalidated = u.probe.invalidated
       /\ q.waiters = u.probe.waiters
  BY <1>13, <1>14, <1>15 DEF Scenes, Probes
<1>18. z \in Scenes /\ z.probe = q /\ z.screen = screen /\ z.calls = calls
  BY <1>11, <1>14, <1>16, <1>17 DEF Scenes
<1>19. OwnerOK(a, gate, u.probe, screen) /\ WaitOK(a, u.probe, screen)
  BY <1>11 DEF SceneOK
<1>20. g.request = a => gate.request = a
  BY <1>12, <1>13
<1>21. OwnerOK(a, g, q, screen)
  BY <1>1, <1>11, <1>12, <1>13, <1>17, <1>19, <1>20 DEF OwnerOK, Over
<1>22. WaitOK(a, q, screen)
  BY <1>1, <1>11, <1>13, <1>17, <1>19 DEF WaitOK
<1>23. FinishOK(a, g, q, calls)
  BY <1>11, <1>17, <1>20 DEF FinishOK
<1>24. SceneOK(a, g, z) /\ FinishOK(a, g, z.probe, z.calls) /\ CallsStep(a, z)
  BY <1>10, <1>11, <1>17, <1>18, <1>21, <1>22, <1>23 DEF SceneOK, Moved, CallsStep
<1> QED
  BY <1>8, <1>9, <1>13, <1>18, <1>24, SceneStep

\* The page is loaded again: every attempt is over.
LEMMA ReloadInv ==
  ASSUME Inv, screen.window = "open", Reload
  PROVE  Inv'
<1>1. /\ gate' = RendererStarted /\ screen' = [screen EXCEPT !.current = NoAttempt, !.prompt = "none"]
      /\ probes' = [a \in Attempt |-> IF probes[a] = NoProbe THEN NoProbe
                                      ELSE [NoProbe EXCEPT !.main = "done", !.stop = "done"]]
      /\ jobs' = jobs /\ calls' = calls /\ faults' = faults + 1
  BY DEF Reload, Fails
<1>2. /\ gate' = [request |-> NoAttempt, stopping |-> FALSE,
                  cancelled |-> gate.cancelled \cup ({gate.request} \ {NoAttempt})]
      /\ gate \in Gates /\ screen \in Screens
  BY <1>1 DEF RendererStarted, Inv, TypeOK, Gates
<1>3. /\ gate'.request = NoAttempt /\ gate' \in Gates /\ gate.cancelled \subseteq gate'.cancelled
      /\ NoAttempt \notin gate'.cancelled
  BY <1>2, CloseConstants DEF Gates, Requests, Attempt, NoAttempt
<1>4. screen' \in Screens /\ screen'.current = NoAttempt /\ screen'.prompt = "none"
      /\ screen'.window = "open"
  BY <1>1, <1>2 DEF Screens, Requests, Prompts
<1>5. NoProbe \in Probes /\ NoProbe.main = "unused" /\ NoProbe.flight = "none" /\ NoProbe.waiters = <<>>
      /\ NoProbe.invalidated = FALSE /\ NoProbe.main # "done"
  BY DEF NoProbe, Probes, Mains, Stops
<1>6. PICK d : d = [NoProbe EXCEPT !.main = "done", !.stop = "done"]
  OBVIOUS
<1>7. d \in Probes /\ d.main = "done" /\ d.flight = "none" /\ d.waiters = <<>> /\ d.invalidated = FALSE
  BY <1>5, <1>6 DEF Probes, Mains, Stops
<1>8. \A a \in Attempt : \/ probes[a] = NoProbe /\ probes'[a] = NoProbe
                         \/ probes'[a] = d
  BY <1>1, <1>6
<1>9. TypeOK'
  <2>1. probes' \in [Attempt -> Probes]
    BY <1>1, <1>5, <1>6, <1>7
  <2> QED
    BY <1>1, <1>3, <1>4, <2>1 DEF Inv, TypeOK, Gates
<1>10. GateOK' /\ JobsOK' /\ GateStands' /\ StopsOnlyItsOwn'
  BY <1>1, <1>3, <1>4 DEF Inv, GateOK, JobsOK, GateStands, DestroyedIdle, GateHasOwner,
                          StopsOnlyItsOwn, SealedAreOrphans, StopsItsOwnJobs
<1>11. ASSUME NEW a \in Attempt
       PROVE  ScriptOK(a, State(a))'
  <2>1. PICK q : q = probes'[a]
    OBVIOUS
  <2>2. PICK w : w = State(a)'
    OBVIOUS
  <2>3. PICK g : g = gate'
    OBVIOUS
  <2>4. PICK s : s = screen'
    OBVIOUS
  <2>5. w.probe = q /\ w.screen = s /\ w.calls = calls
    BY <1>1, <2>1, <2>2, <2>4 DEF State
  <2>6. a # NoAttempt /\ g.request = NoAttempt /\ s.current = NoAttempt /\ s.prompt = "none"
    BY <1>3, <1>4, <2>3, <2>4, CloseConstants DEF Attempt, NoAttempt
  <2>7. (q = NoProbe /\ probes[a] = NoProbe) \/ q.main = "done"
    BY <1>7, <1>8, <2>1
  <2>8. q.flight = "none" /\ q.waiters = <<>> /\ q.invalidated = FALSE /\ q.main \in {"unused", "done"}
    BY <1>5, <1>7, <1>8, <2>1
  <2>9. OwnerOK(a, g, q, s)
    BY <2>6, <2>8 DEF OwnerOK, Over
  <2>10. WaitOK(a, q, s)
    BY <2>8 DEF WaitOK
  <2>11. FinishOK(a, g, q, calls)
    <3>1. q.main = "unused" => FinishOK(a, gate, NoProbe, calls)
      BY <2>7 DEF Inv, ScriptOK, State
    <3> QED
      BY <1>5, <2>8, <3>1 DEF FinishOK
  <2>12. FinishOK(a, g, q, calls)'
    BY <1>1, <2>6, <2>11 DEF FinishOK
  <2>13. ScriptOK(a, w)'
    <3>1. q.main = "unused" => q = NoProbe
      BY <2>7
    <3>2. OwnerOK(a, g, w.probe, w.screen) /\ WaitOK(a, w.probe, w.screen)
          /\ FinishOK(a, g, w.probe, w.calls)
      BY <2>5, <2>9, <2>10, <2>11
    <3>3. OwnerOK(a, gate, w.probe, w.screen)'
      BY <2>3, <3>2 DEF OwnerOK, Over
    <3>4. WaitOK(a, w.probe, w.screen)'
      BY <3>2 DEF WaitOK
    <3>5. FinishOK(a, gate, w.probe, w.calls)'
      BY <1>1, <2>3, <2>5, <2>12 DEF FinishOK
    <3> QED
      BY <2>5, <3>1, <3>3, <3>4, <3>5 DEF ScriptOK
  <2> QED
    BY <2>2, <2>13
<1>12. ASSUME NEW a \in Attempt, NEW t \in Thread
       PROVE  CallOK(a, calls[a][t])'
  <2>1. PICK c : c = calls[a][t]
    OBVIOUS
  <2>2. CallOK(a, c)
    BY <2>1 DEF Inv
  <2>3. a # NoAttempt
    BY CloseConstants DEF Attempt, NoAttempt
  <2>4. CallOK(a, c)'
    BY <1>1, <1>3, <2>2, <2>3 DEF CallOK, ReadOK, OwnOK
  <2> QED
    BY <1>1, <2>1, <2>4
<1> QED
  BY <1>9, <1>10, <1>11, <1>12 DEF Inv

\* The answer of the cancellation: everyone who waited for it goes on.
LEMMA CancelAnsweredInv ==
  ASSUME Inv, screen.window = "open", NEW a \in Attempt, CancelAnswered(a)
  PROVE  Inv'
<1>1. probes[a].flight \in {"cancelled", "refused"} /\ gate' = gate /\ faults' = faults
  BY DEF CancelAnswered
<1>2. PICK p : p = probes[a]
  OBVIOUS
<1>3. PICK ok \in BOOLEAN : ok = (p.flight = "cancelled")
  OBVIOUS
<1>4. PICK q : q = [Released(p, ok) EXCEPT !.flight = "none", !.waiters = <<>>]
  OBVIOUS
<1>5. PICK u : u = [State(a) EXCEPT !.probe = q]
  OBVIOUS
<1>6. PICK released \in BOOLEAN : released = (~u.probe.gateActive /\ ~u.probe.cancelRequired)
  OBVIOUS
<1> DEFINE step(v, n) == IF n \in DOMAIN p.waiters THEN Resume(v, a, p.waiters[n], released) ELSE v
<1>7. Becomes(a, step(step(step(u, 1), 2), 3))
  <2>1. LET oo == probes[a].flight = "cancelled"
            uu == [State(a) EXCEPT !.probe = [Released(probes[a], oo) EXCEPT !.flight = "none", !.waiters = <<>>]]
            rr == ~uu.probe.gateActive /\ ~uu.probe.cancelRequired
            st(v, n) == IF n \in DOMAIN probes[a].waiters THEN Resume(v, a, probes[a].waiters[n], rr) ELSE v
        IN  Becomes(a, st(st(st(uu, 1), 2), 3))
    BY DEF CancelAnswered
  <2> QED
    BY <1>2, <1>3, <1>4, <1>5, <1>6, <2>1
<1> HIDE DEF step
<1>8. probes[a].main # "unused"
  BY <1>1 DEF Inv, ScriptOK, State, NoProbe
<1>9. PICK w : w = State(a)
  OBVIOUS
<1>10. /\ SceneOK(a, gate, w) /\ w.probe = p /\ w.screen = screen /\ w.calls = calls
       /\ FinishOK(a, gate, p, calls)
  BY <1>2, <1>8, <1>9, StateOK
<1>11. gate \in Gates /\ GateStep(a, gate) /\ faults' \in Nat
  BY <1>1, GateKept DEF Inv, TypeOK
<1>12. w \in Scenes /\ p \in Probes
  BY <1>10 DEF SceneOK, Scenes
<1>13. OwnerOK(a, gate, p, screen) /\ WaitOK(a, p, screen)
  BY <1>10 DEF SceneOK
<1>14. p.keepPrompt /\ (p.cancelRequired \/ p.gateActive)
  BY <1>1, <1>2, <1>13 DEF OwnerOK
<1>15. /\ q \in Probes /\ q.flight = "none" /\ q.waiters = <<>> /\ q.main = p.main /\ q.stop = p.stop
       /\ q.keepPrompt /\ q.invalidated = p.invalidated
       /\ ok => ~q.cancelRequired /\ ~q.gateActive
       /\ ~ok => q.cancelRequired = p.cancelRequired /\ q.gateActive = p.gateActive
  <2>1. PICK r : r = Released(p, ok)
    OBVIOUS
  <2>2. /\ r \in Probes /\ r.main = p.main /\ r.stop = p.stop /\ r.keepPrompt = p.keepPrompt
        /\ r.invalidated = p.invalidated
        /\ ok => r.cancelRequired = FALSE /\ r.gateActive = FALSE
        /\ ~ok => r.cancelRequired = p.cancelRequired /\ r.gateActive = p.gateActive
    <3>1. CASE ok
      <4>1. r = [p EXCEPT !.gateActive = FALSE, !.cancelRequired = FALSE]
        BY <2>1, <3>1 DEF Released
      <4> QED
        BY <1>12, <3>1, <4>1 DEF Probes
    <3>2. CASE ~ok
      <4>1. r = p
        BY <2>1, <3>2 DEF Released
      <4> QED
        BY <1>12, <3>2, <4>1
    <3> QED
      BY <3>1, <3>2
  <2>3. q = [r EXCEPT !.flight = "none", !.waiters = <<>>]
    BY <1>4, <2>1
  <2>4. <<>> \in Seq(Who)
    OBVIOUS
  <2>5. /\ q \in Probes /\ q.flight = "none" /\ q.waiters = <<>> /\ q.main = r.main /\ q.stop = r.stop
        /\ q.keepPrompt = r.keepPrompt /\ q.invalidated = r.invalidated
        /\ q.cancelRequired = r.cancelRequired /\ q.gateActive = r.gateActive
    BY <2>2, <2>3, <2>4 DEF Probes
  <2> QED
    BY <1>14, <2>2, <2>5
<1>16. u \in Scenes /\ u.probe = q /\ u.screen = screen /\ u.calls = calls
  BY <1>5, <1>9, <1>10, <1>12, <1>15 DEF Scenes
<1>17. ok => a \in gate.cancelled /\ gate.request # a
  BY <1>2, <1>3, <1>13 DEF OwnerOK, Inv, GateOK
<1>18. OwnerOK(a, gate, q, screen)
  BY <1>13, <1>15, <1>17 DEF OwnerOK, Over
<1>19. WaitOK(a, q, screen)
  BY <1>15 DEF WaitOK
<1>20. SceneOK(a, gate, u)
  BY <1>2, <1>8, <1>15, <1>16, <1>18, <1>19 DEF SceneOK, Moved
<1>21. (released => ~u.probe.cancelRequired) /\ u.probe.keepPrompt
  BY <1>6, <1>15, <1>16
<1> DEFINE Going(v) ==
             /\ SceneOK(a, gate, v) /\ Kept(u, v)
             /\ v.probe.waiters = <<>> /\ (v.probe.keepPrompt \/ v.screen.current # a)
             /\ v.probe.cancelRequired = u.probe.cancelRequired
             /\ ~released => v.probe.keepPrompt
<1>22. Going(u)
  BY <1>15, <1>16, <1>20, <1>21 DEF Kept
<1>23. ASSUME NEW v, Going(v), NEW n \in Nat
       PROVE  Going(step(v, n))
  <2>1. CASE n \in DOMAIN p.waiters
    <3>1. PICK who \in Who : who = p.waiters[n]
      BY <1>12, <2>1 DEF Probes
    <3>2. who = "stay" => screen.current = a
      BY <1>13, <2>1, <3>1 DEF WaitOK
    <3>3. PICK z : z = Resume(v, a, who, released)
      OBVIOUS
    <3>4. released => ~v.probe.cancelRequired
      BY <1>21, <1>23
    <3>5. /\ SceneOK(a, gate, z) /\ Kept(v, z)
          /\ z.probe.waiters = <<>> /\ (z.probe.keepPrompt \/ z.screen.current # a)
          /\ z.probe.cancelRequired = v.probe.cancelRequired
          /\ ~released => z.probe.keepPrompt
      BY <1>11, <1>23, <3>2, <3>3, <3>4, ResumeOK
    <3>6. step(v, n) = z
      BY <2>1, <3>1, <3>3 DEF step
    <3>7. Kept(u, z)
      BY <1>23, <3>5 DEF Kept
    <3>8. Going(z)
      BY <1>23, <3>5, <3>7
    <3> QED
      BY <3>6, <3>8
  <2>2. CASE n \notin DOMAIN p.waiters
    <3>1. step(v, n) = v
      BY <2>2 DEF step
    <3> QED
      BY <1>23, <3>1
  <2> QED
    BY <2>1, <2>2
<1> HIDE DEF Going
<1>24. PICK v1 : v1 = step(u, 1)
  OBVIOUS
<1>25. PICK v2 : v2 = step(v1, 2)
  OBVIOUS
<1>26. PICK v3 : v3 = step(v2, 3)
  OBVIOUS
<1>27. Going(v1)
  BY <1>22, <1>23, <1>24
<1>28. Going(v2)
  BY <1>23, <1>25, <1>27
<1>29. Going(v3)
  BY <1>23, <1>26, <1>28
<1>30. SceneOK(a, gate, v3) /\ Kept(u, v3)
  BY <1>29 DEF Going
<1>31. Becomes(a, v3)
  BY <1>7, <1>24, <1>25, <1>26
<1>32. CallsStep(a, u) /\ FinishOK(a, gate, u.probe, u.calls) /\ u.screen.window = "open"
  BY <1>10, <1>15, <1>16 DEF CallsStep, FinishOK
<1> QED
  BY <1>1, <1>11, <1>30, <1>31, <1>32, KeptStep

\* A probe that differs only in what its threads do next.
Alike(q, p) ==
    /\ q.cancelRequired = p.cancelRequired /\ q.gateActive = p.gateActive
    /\ q.flight = p.flight /\ q.invalidated = p.invalidated
    /\ q.keepPrompt = p.keepPrompt /\ q.waiters = p.waiters

\* The close goes on to another stage of its script.
LEMMA StageOK ==
  ASSUME NEW a \in Attempt, NEW g \in Gates, NEW u, SceneOK(a, g, u), NEW z \in Scenes,
         z.calls = u.calls,
         u.screen.current \in {a, NoAttempt}, u.probe.waiters = <<>>,
         z.probe.main \notin {"unused", "begin"}, Alike(z.probe, u.probe),
         z.screen.current = u.screen.current,
         z.screen.prompt = u.screen.prompt \/ z.screen.current = a
  PROVE  SceneOK(a, g, z)
<1>1. PICK q : q = z.probe
  OBVIOUS
<1>2. PICK s : s = z.screen
  OBVIOUS
<1>3. a # NoAttempt
  BY CloseConstants DEF Attempt, NoAttempt
<1>4. OwnerOK(a, g, q, s)
  BY <1>1, <1>2, <1>3 DEF SceneOK, OwnerOK, Over, Alike
<1>5. WaitOK(a, q, s)
  BY <1>1, <1>2 DEF SceneOK, WaitOK, Alike
<1>6. Moved(a, s)
  BY <1>2 DEF SceneOK, Moved
<1> QED
  BY <1>1, <1>2, <1>4, <1>5, <1>6 DEF SceneOK

\* The close goes on with the answer, is blocked, or ends.
LEMMA MainAnswerInv ==
  ASSUME Inv, screen.window = "open", NEW a \in Attempt, MainAnswer(a)
  PROVE  Inv'
<1>1. calls[a]["main"].pc = "done" /\ gate' = gate /\ faults' = faults
  BY DEF MainAnswer
<1>2. PICK u : u = Take(a, "main")
  OBVIOUS
<1>3. PICK p : p = probes[a]
  OBVIOUS
<1>4. PICK m : m = p.main
  OBVIOUS
<1>5. PICK c : c = calls[a]["main"]
  OBVIOUS
<1>6. PICK ans : ans = c.answer
  OBVIOUS
<1>7. PICK z :
        /\ Becomes(a, z)
        /\ \/ /\ m \in {"first", "second", "final", "finish"}
              /\ z = ReleaseGate(u, a, "main") \/ (~IsCurrent(a) /\ z = EndMain(u, a))
           \/ m \in {"first", "second"} /\ IsCurrent(a) /\ z = Await(u, a, "main", "status", "final")
           \/ /\ m = "first" /\ IsCurrent(a)
              /\ z = [u EXCEPT !.probe.asking = TRUE, !.probe.main = "ask", !.screen.prompt = "waiting"]
           \/ m = "final" /\ IsCurrent(a) /\ z = Await(u, a, "main", "finish", "finish")
           \/ m = "finish" /\ IsCurrent(a) /\ ans # "error" /\ z = [u EXCEPT !.probe.main = "destroy"]
           \/ m \notin {"first", "second", "final", "finish"} /\ z = u
  <2>1. PICK blocked : blocked = ReleaseGate(u, a, "main")
    OBVIOUS
  <2>2. PICK left : left = EndMain(u, a)
    OBVIOUS
  <2>3. PICK final : final = Await(u, a, "main", "status", "final")
    OBVIOUS
  <2>4. PICK finish : finish = Await(u, a, "main", "finish", "finish")
    OBVIOUS
  <2>5. PICK ask : ask = [u EXCEPT !.probe.asking = TRUE, !.probe.main = "ask", !.screen.prompt = "waiting"]
    OBVIOUS
  <2>6. PICK destroy : destroy = [u EXCEPT !.probe.main = "destroy"]
    OBVIOUS
  <2>7. PICK current \in BOOLEAN : current = IsCurrent(a)
    BY DEF IsCurrent
  <2>8. PICK z : z = IF m \notin {"first", "second", "final", "finish"} THEN u
                     ELSE IF ans = "error" THEN blocked
                     ELSE CASE m = "first" -> IF ~current THEN left
                                              ELSE IF ans = "ready" THEN final
                                              ELSE IF ans = "pending" THEN blocked ELSE ask
                            [] m = "second" -> IF ans # "ready" THEN blocked ELSE IF ~current THEN left ELSE final
                            [] m = "final" -> IF ~current THEN left ELSE IF ans # "ready" THEN blocked ELSE finish
                            [] m = "finish" -> IF ~current THEN left ELSE destroy
    OBVIOUS
  <2>9. Becomes(a, z)
    BY <2>1, <2>2, <2>3, <2>4, <2>5, <2>6, <2>7, <2>8, <1>2, <1>3, <1>4, <1>5, <1>6 DEF MainAnswer
  <2>10. \/ /\ m \in {"first", "second", "final", "finish"}
            /\ z = blocked \/ (~current /\ z = left)
         \/ m \in {"first", "second"} /\ current /\ z = final
         \/ m = "first" /\ current /\ z = ask
         \/ m = "final" /\ current /\ z = finish
         \/ m = "finish" /\ current /\ ans # "error" /\ z = destroy
         \/ m \notin {"first", "second", "final", "finish"} /\ z = u
    <3>1. CASE m = "first"
      BY <2>8, <3>1
    <3>2. CASE m = "second"
      BY <2>8, <3>2
    <3>3. CASE m = "final"
      BY <2>8, <3>3
    <3>4. CASE m = "finish"
      BY <2>8, <3>4
    <3>5. CASE m \notin {"first", "second", "final", "finish"}
      BY <2>8, <3>5
    <3> QED
      BY <3>1, <3>2, <3>3, <3>4, <3>5
  <2> QED
    BY <2>1, <2>2, <2>3, <2>4, <2>5, <2>6, <2>7, <2>9, <2>10, <1>2, <1>3, <1>4, <1>5, <1>6
<1>8. OwnerOK(a, gate, p, screen) /\ WaitOK(a, p, screen) /\ FinishOK(a, gate, p, calls)
  BY <1>3 DEF Inv, ScriptOK, State
<1>9. m \notin {"unused", "begin"}
  BY <1>1, <1>4, <1>8 DEF FinishOK, Thread
<1>10. PICK t \in Thread : t = "main"
  BY DEF Thread
<1>11. /\ SceneOK(a, gate, u) /\ u.probe = p /\ u.screen = screen /\ CallsStep(a, u)
  <2>1. probes[a].main # "unused" /\ u = Take(a, t)
    BY <1>2, <1>3, <1>4, <1>9, <1>10
  <2>2. Taken(a, t, u)
    BY <2>1, TakeOK
  <2> QED
    BY <1>3, <2>2 DEF Taken
<1>12. u \in Scenes /\ p \in Probes /\ screen \in Screens
  BY <1>11 DEF SceneOK, Scenes
<1>13. gate \in Gates /\ GateStep(a, gate) /\ faults' \in Nat /\ calls \in [Attempt -> [Thread -> Calls]]
  BY <1>1, GateKept DEF Inv, TypeOK
<1>14. IsCurrent(a) => screen.current = a /\ p.waiters = <<>>
  BY <1>3, <1>8 DEF IsCurrent, WaitOK
<1>15. PICK who \in Who : who = "main"
  BY DEF Who
<1>16. CASE m \in {"first", "second", "final", "finish"} /\ z = ReleaseGate(u, a, "main")
  <2>1. SceneOK(a, gate, z) /\ Kept(u, z) /\ z.probe.main \in {"blocking", "done"}
    BY <1>4, <1>11, <1>13, <1>15, <1>16, ReleaseOK
  <2> QED
    BY <1>1, <1>7, <1>11, <1>13, <2>1, KeptStep
<1>17. CASE m \in {"first", "second", "final", "finish"} /\ ~IsCurrent(a) /\ z = EndMain(u, a)
  <2>1. p.keepPrompt \/ screen.current # a
    BY <1>3, <1>8, <1>17 DEF OwnerOK, IsCurrent
  <2>2. SceneOK(a, gate, z) /\ Kept(u, z) /\ z.probe = [p EXCEPT !.main = "done"]
    BY <1>4, <1>11, <1>13, <1>17, <2>1, EndMainOK
  <2>3. z.probe.main = "done"
    BY <1>12, <2>2 DEF Probes
  <2> QED
    BY <1>1, <1>7, <1>11, <1>13, <2>2, <2>3, KeptStep
<1>18. ASSUME NEW op \in Ops, NEW pc \in {"final", "finish"}, pc = "finish" => op = "finish",
              IsCurrent(a), z = Await(u, a, "main", op, pc)
       PROVE  Inv'
  <2>1. /\ SceneOK(a, gate, z) /\ CallsStep(a, z) /\ z.screen = u.screen
        /\ z.probe.main = pc /\ z.calls[a][t].op = op
    BY <1>10, <1>11, <1>13, <1>14, <1>18, AwaitOK
  <2>2. FinishOK(a, gate, z.probe, z.calls)
    BY <1>10, <1>18, <2>1 DEF FinishOK
  <2>3. z.screen.window = "open"
    BY <1>11, <2>1
  <2> QED
    BY <1>1, <1>7, <1>13, <2>1, <2>2, <2>3, SceneStep
<1>19. CASE m \in {"first", "second"} /\ IsCurrent(a) /\ z = Await(u, a, "main", "status", "final")
  <2>1. PICK op \in Ops, pc \in {"final", "finish"} : op = "status" /\ pc = "final"
    BY DEF Ops
  <2> QED
    BY <1>18, <1>19, <2>1
<1>20. CASE m = "final" /\ IsCurrent(a) /\ z = Await(u, a, "main", "finish", "finish")
  <2>1. PICK op \in Ops, pc \in {"final", "finish"} : op = "finish" /\ pc = "finish"
    BY DEF Ops
  <2> QED
    BY <1>18, <1>20, <2>1
<1>21. CASE /\ m = "first" /\ IsCurrent(a)
            /\ z = [u EXCEPT !.probe.asking = TRUE, !.probe.main = "ask", !.screen.prompt = "waiting"]
  <2>1. PICK q : q = [p EXCEPT !.asking = TRUE, !.main = "ask"]
    OBVIOUS
  <2>2. PICK s : s = [screen EXCEPT !.prompt = "waiting"]
    OBVIOUS
  <2>3. z = [u EXCEPT !.probe = q, !.screen = s]
    BY <1>11, <1>12, <1>21, <2>1, <2>2 DEF Scenes, Probes, Screens
  <2>4. /\ q \in Probes /\ q.main = "ask" /\ q.stop = p.stop /\ q.cancelRequired = p.cancelRequired
        /\ q.gateActive = p.gateActive /\ q.flight = p.flight /\ q.invalidated = p.invalidated
        /\ q.keepPrompt = p.keepPrompt /\ q.waiters = p.waiters
    BY <1>12, <2>1 DEF Probes, Mains
  <2>5. s \in Screens /\ s.current = screen.current /\ s.window = screen.window
    BY <1>12, <2>2 DEF Screens, Prompts
  <2>6. SceneOK(a, gate, z) /\ z.probe = q /\ z.screen = s /\ z.calls = u.calls
    <3>1. z \in Scenes /\ z.probe = q /\ z.screen = s /\ z.calls = u.calls
      BY <1>12, <2>3, <2>4, <2>5 DEF Scenes
    <3>2. Alike(z.probe, u.probe)
      BY <1>11, <2>4, <3>1 DEF Alike
    <3> QED
      <4>1. u.screen.current \in {a, NoAttempt} /\ u.probe.waiters = <<>> /\ SceneOK(a, gate, u) /\ gate \in Gates
        BY <1>11, <1>13, <1>14, <1>21
      <4>2. /\ z.probe.main \notin {"unused", "begin"} /\ z.screen.current = u.screen.current
            /\ z.screen.prompt = u.screen.prompt \/ z.screen.current = a
        BY <1>11, <1>14, <1>21, <2>4, <2>5, <3>1
      <4> QED
        BY <3>1, <3>2, <4>1, <4>2, StageOK
  <2>7. FinishOK(a, gate, z.probe, z.calls) /\ CallsStep(a, z)
    BY <1>11, <2>4, <2>6 DEF FinishOK, CallsStep
  <2> QED
    BY <1>1, <1>7, <1>13, <2>5, <2>6, <2>7, SceneStep
<1>22. CASE m = "finish" /\ IsCurrent(a) /\ ans # "error" /\ z = [u EXCEPT !.probe.main = "destroy"]
  <2>1. PICK q : q = [p EXCEPT !.main = "destroy"]
    OBVIOUS
  <2>2. z = [u EXCEPT !.probe = q, !.screen = screen]
    BY <1>11, <1>12, <1>22, <2>1 DEF Scenes, Probes
  <2>3. /\ q \in Probes /\ q.main = "destroy" /\ q.stop = p.stop /\ q.cancelRequired = p.cancelRequired
        /\ q.gateActive = p.gateActive /\ q.flight = p.flight /\ q.invalidated = p.invalidated
        /\ q.keepPrompt = p.keepPrompt /\ q.waiters = p.waiters
    BY <1>12, <2>1 DEF Probes, Mains
  <2>4. SceneOK(a, gate, z) /\ z.probe = q /\ z.screen = screen /\ z.calls = u.calls
    <3>1. z \in Scenes /\ z.probe = q /\ z.screen = screen /\ z.calls = u.calls
      BY <1>12, <2>2, <2>3 DEF Scenes
    <3>2. Alike(z.probe, u.probe)
      BY <1>11, <2>3, <3>1 DEF Alike
    <3> QED
      BY <1>11, <1>13, <1>14, <1>22, <2>3, <3>1, <3>2, StageOK, ZenonT(60)
  <2>5. ASSUME gate.request = a
        PROVE  Idle
    <3>1. CallOK(a, c)
      BY <1>5, <1>10 DEF Inv
    <3>2. c.pc = "done" /\ c.op = "finish" /\ c.answer # "error"
      BY <1>1, <1>4, <1>5, <1>6, <1>8, <1>22 DEF FinishOK
    <3> QED
      BY <2>5, <3>1, <3>2 DEF CallOK, HeldOK
  <2>6. FinishOK(a, gate, z.probe, z.calls) /\ CallsStep(a, z)
    BY <1>11, <2>3, <2>4, <2>5 DEF FinishOK, CallsStep
  <2> QED
    BY <1>1, <1>7, <1>13, <2>4, <2>6, SceneStep
<1>23. CASE m \notin {"first", "second", "final", "finish"} /\ z = u
  <2>1. FinishOK(a, gate, z.probe, z.calls)
    BY <1>4, <1>8, <1>9, <1>11, <1>23 DEF FinishOK
  <2> QED
    BY <1>1, <1>7, <1>11, <1>13, <1>23, <2>1, SceneStep
<1> QED
  BY <1>7, <1>16, <1>17, <1>19, <1>20, <1>21, <1>22, <1>23

\* The stop goes on with the answer, is blocked, or hands over to the close.
LEMMA StopAnswerInv ==
  ASSUME Inv, screen.window = "open", NEW a \in Attempt, StopAnswer(a)
  PROVE  Inv'
<1>1. calls[a]["stop"].pc = "done" /\ gate' = gate /\ faults' = faults
  BY DEF StopAnswer
<1>2. PICK u : u = Take(a, "stop")
  OBVIOUS
<1>3. PICK p : p = probes[a]
  OBVIOUS
<1>4. PICK z :
        /\ Becomes(a, z)
        /\ \/ p.stop \notin {"starting", "stopping"} /\ z = u
           \/ p.stop \in {"starting", "stopping"} /\ z = [u EXCEPT !.probe.stop = "done"]
           \/ p.stop \in {"starting", "stopping"} /\ z = ReleaseGate(u, a, "stop")
           \/ IsCurrent(a) /\ \E pc \in {"starting", "stopping"} : z = Poll(u, a, pc)
           \/ IsCurrent(a) /\ z = [Await(u, a, "stop", "stop", "stopping") EXCEPT !.probe.polls = 0]
           \/ /\ IsCurrent(a)
              /\ z = Await([[u EXCEPT !.probe.stop = "done"] EXCEPT
                             !.probe.asking = FALSE, !.probe.decision = "stop",
                             !.screen.prompt = "stopping"], a, "main", "status", "second")
  <2>1. PICK blocked : blocked = ReleaseGate(u, a, "stop")
    OBVIOUS
  <2>2. PICK left : left = [u EXCEPT !.probe.stop = "done"]
    OBVIOUS
  <2>3. PICK again : again = Poll(u, a, "starting")
    OBVIOUS
  <2>4. PICK more : more = Poll(u, a, "stopping")
    OBVIOUS
  <2>5. PICK stop : stop = [Await(u, a, "stop", "stop", "stopping") EXCEPT !.probe.polls = 0]
    OBVIOUS
  <2>6. PICK second : second = Await([left EXCEPT !.probe.asking = FALSE, !.probe.decision = "stop",
                                                  !.screen.prompt = "stopping"], a, "main", "status", "second")
    OBVIOUS
  <2>7. PICK current \in BOOLEAN : current = IsCurrent(a)
    BY DEF IsCurrent
  <2>8. PICK may \in BOOLEAN : may <=> MayPoll(p)
    BY DEF MayPoll
  <2>9. PICK ans : ans = calls[a]["stop"].answer
    OBVIOUS
  <2>10. PICK z : z = IF p.stop \notin {"starting", "stopping"} THEN u
                      ELSE IF ~current THEN left
                      ELSE IF ans = "error" THEN blocked
                      ELSE CASE p.stop = "starting" /\ ans = "starting" -> IF may THEN again ELSE blocked
                             [] p.stop = "starting" /\ ans # "starting" -> stop
                             [] p.stop = "stopping" /\ ans \in {"starting", "busy"} ->
                                  IF may THEN more ELSE blocked
                             [] p.stop = "stopping" /\ ans \notin {"starting", "busy", "ready"} -> blocked
                             [] p.stop = "stopping" /\ ans = "ready" -> second
    OBVIOUS
  <2>11. Becomes(a, z)
    BY <2>1, <2>2, <2>3, <2>4, <2>5, <2>6, <2>7, <2>8, <2>9, <2>10, <1>2, <1>3 DEF StopAnswer
  <2>12. \/ p.stop \notin {"starting", "stopping"} /\ z = u
         \/ p.stop \in {"starting", "stopping"} /\ z = left
         \/ p.stop \in {"starting", "stopping"} /\ z = blocked
         \/ current /\ (z = again \/ z = more)
         \/ current /\ z = stop
         \/ current /\ z = second
    <3>1. CASE p.stop \notin {"starting", "stopping"}
      BY <2>10, <3>1
    <3>2. CASE p.stop \in {"starting", "stopping"} /\ (~current \/ ans = "error")
      BY <2>10, <3>2
    <3>3. CASE p.stop = "starting" /\ current /\ ans # "error"
      BY <2>10, <3>3
    <3>4. CASE p.stop = "stopping" /\ current /\ ans # "error" /\ ans \in {"starting", "busy"}
      BY <2>10, <3>4
    <3>5. CASE p.stop = "stopping" /\ current /\ ans # "error" /\ ans \notin {"starting", "busy"}
      BY <2>10, <3>5
    <3> QED
      BY <3>1, <3>2, <3>3, <3>4, <3>5
  <2> QED
    <3>1. IsCurrent(a) <=> current
      BY <2>7
    <3> QED
      BY <2>1, <2>2, <2>3, <2>4, <2>5, <2>6, <2>11, <2>12, <1>3, <3>1
<1>5. OwnerOK(a, gate, p, screen) /\ WaitOK(a, p, screen) /\ FinishOK(a, gate, p, calls)
  BY <1>3 DEF Inv, ScriptOK, State
<1>6. p.main \notin {"unused", "begin"}
  BY <1>1, <1>5 DEF FinishOK, Thread
<1>7. PICK t \in Thread : t = "stop"
  BY DEF Thread
<1>8. /\ SceneOK(a, gate, u) /\ u.probe = p /\ u.screen = screen /\ CallsStep(a, u)
      /\ \A x \in Thread \ {t} : u.calls[a][x] = calls[a][x]
  <2>1. probes[a].main # "unused" /\ u = Take(a, t)
    BY <1>2, <1>3, <1>6, <1>7
  <2>2. /\ SceneOK(a, gate, u) /\ u.probe = probes[a] /\ u.screen = screen
        /\ u.calls = [calls EXCEPT ![a][t] = NoCall] /\ CallsStep(a, u)
    <3>1. Taken(a, t, u)
      BY <2>1, TakeOK
    <3> QED
      BY <3>1 DEF Taken
  <2>3. \A x \in Thread \ {t} : u.calls[a][x] = calls[a][x]
    BY <2>2 DEF Inv, TypeOK
  <2> QED
    BY <1>3, <2>2, <2>3
<1>9. u \in Scenes /\ p \in Probes /\ screen \in Screens /\ u.calls \in [Attempt -> [Thread -> Calls]]
  BY <1>8 DEF SceneOK, Scenes
<1>10. gate \in Gates /\ GateStep(a, gate) /\ faults' \in Nat /\ calls \in [Attempt -> [Thread -> Calls]]
  BY <1>1, GateKept DEF Inv, TypeOK
<1>11. IsCurrent(a) => screen.current = a /\ p.waiters = <<>>
  BY <1>3, <1>5 DEF IsCurrent, WaitOK
<1>12. "main" \in Thread \ {t}
  BY <1>7 DEF Thread
<1>13. FinishOK(a, gate, p, u.calls)
  BY <1>5, <1>6, <1>8, <1>12 DEF FinishOK
<1>14. CASE z = u
  BY <1>1, <1>4, <1>8, <1>10, <1>13, <1>14, SceneStep
<1>15. CASE p.stop \in {"starting", "stopping"} /\ z = [u EXCEPT !.probe.stop = "done"]
  <2>1. PICK q : q = [p EXCEPT !.stop = "done"]
    OBVIOUS
  <2>2. z = [u EXCEPT !.probe = q]
    BY <1>8, <1>9, <1>15, <2>1 DEF Scenes
  <2>3. /\ q \in Probes /\ q.main = p.main /\ q.cancelRequired = p.cancelRequired
        /\ q.gateActive = p.gateActive /\ q.flight = p.flight /\ q.invalidated = p.invalidated
        /\ q.keepPrompt = p.keepPrompt /\ q.waiters = p.waiters
    BY <1>9, <2>1 DEF Probes, Stops
  <2>4. SceneOK(a, gate, z) /\ Kept(u, z)
    BY <1>8, <1>10, <1>15, <2>2, <2>3, NotesOK
  <2> QED
    BY <1>1, <1>4, <1>8, <1>10, <1>13, <2>4, KeptStep
<1>16. CASE p.stop \in {"starting", "stopping"} /\ z = ReleaseGate(u, a, "stop")
  <2>1. PICK who \in Who : who = "stop"
    BY DEF Who
  <2>2. SceneOK(a, gate, z) /\ Kept(u, z)
    BY <1>8, <1>10, <1>16, <2>1, ReleaseOK
  <2> QED
    BY <1>1, <1>4, <1>8, <1>10, <1>13, <2>2, KeptStep
<1>17. ASSUME NEW op \in Ops, NEW pc \in {"starting", "stopping"}, IsCurrent(a),
              NEW v, v = Await(u, a, "stop", op, pc),
              SceneOK(a, gate, v) => /\ z \in Scenes /\ z.calls = v.calls /\ z.probe.main = v.probe.main
                                     /\ Alike(z.probe, v.probe) /\ z.screen.current = v.screen.current
                                     /\ z.screen.window = v.screen.window
       PROVE  Inv'
  <2>1. /\ SceneOK(a, gate, v) /\ CallsStep(a, v) /\ v.screen = screen
        /\ v.probe.main = p.main /\ v.probe.waiters = <<>>
        /\ \A y \in Thread \ {t} : v.calls[a][y] = u.calls[a][y]
    BY <1>7, <1>8, <1>10, <1>11, <1>17, AwaitOK
  <2>2. /\ z \in Scenes /\ z.calls = v.calls /\ z.probe.main = v.probe.main
        /\ Alike(z.probe, v.probe) /\ z.screen.current = v.screen.current
        /\ z.screen.window = v.screen.window
    BY <1>17, <2>1
  <2>3. v.screen.current = a /\ z.probe.main \notin {"unused", "begin"}
    BY <1>6, <1>11, <1>17, <2>1, <2>2
  <2>4. SceneOK(a, gate, z)
    BY <1>10, <2>1, <2>2, <2>3, StageOK
  <2>5. CallsStep(a, z)
    BY <2>1, <2>2 DEF CallsStep
  <2>6. FinishOK(a, gate, z.probe, z.calls)
    BY <1>6, <1>12, <1>13, <2>1, <2>2 DEF FinishOK
  <2>7. z.screen.window = "open"
    BY <2>1, <2>2
  <2> QED
    BY <1>1, <1>4, <1>10, <2>4, <2>5, <2>6, <2>7, SceneStep
<1>18. CASE IsCurrent(a) /\ \E pc \in {"starting", "stopping"} : z = Poll(u, a, pc)
  <2>1. PICK pc \in {"starting", "stopping"} : z = Poll(u, a, pc)
    BY <1>18
  <2>2. PICK op \in Ops : op = "status"
    BY DEF Ops
  <2>3. PICK v : v = Await(u, a, "stop", op, pc)
    OBVIOUS
  <2>4. ASSUME SceneOK(a, gate, v)
        PROVE  /\ z \in Scenes /\ z.calls = v.calls /\ z.probe.main = v.probe.main
               /\ Alike(z.probe, v.probe) /\ z.screen.current = v.screen.current
               /\ z.screen.window = v.screen.window
    <3>1. v \in Scenes /\ v.probe \in Probes /\ v.screen \in Screens /\ v.probe.polls \in Nat
      BY <2>4 DEF SceneOK, Scenes, Probes
    <3>2. PICK n \in Nat : n = (v.probe.polls + 1) % (PollLimit + 1)
      BY <3>1, CloseConstants
    <3>3. z = [v EXCEPT !.probe.polls = n, !.screen.prompt = "stopping"]
      BY <2>1, <2>2, <2>3, <3>2 DEF Poll
    <3> QED
      BY <3>1, <3>3 DEF Scenes, Probes, Screens, Prompts, Alike
  <2> QED
    BY <1>17, <1>18, <2>3, <2>4
<1>19. CASE IsCurrent(a) /\ z = [Await(u, a, "stop", "stop", "stopping") EXCEPT !.probe.polls = 0]
  <2>1. PICK op \in Ops, pc \in {"starting", "stopping"} : op = "stop" /\ pc = "stopping"
    BY DEF Ops
  <2>2. PICK v : v = Await(u, a, "stop", op, pc)
    OBVIOUS
  <2>3. z = [v EXCEPT !.probe.polls = 0]
    BY <1>19, <2>1, <2>2
  <2>4. ASSUME SceneOK(a, gate, v)
        PROVE  /\ z \in Scenes /\ z.calls = v.calls /\ z.probe.main = v.probe.main
               /\ Alike(z.probe, v.probe) /\ z.screen.current = v.screen.current
               /\ z.screen.window = v.screen.window
    BY <2>3, <2>4 DEF SceneOK, Scenes, Probes, Alike
  <2> QED
    BY <1>17, <1>19, <2>2, <2>4
<1>20. CASE /\ IsCurrent(a)
            /\ z = Await([[u EXCEPT !.probe.stop = "done"] EXCEPT
                           !.probe.asking = FALSE, !.probe.decision = "stop",
                           !.screen.prompt = "stopping"], a, "main", "status", "second")
  <2>1. PICK v : v = [[u EXCEPT !.probe.stop = "done"] EXCEPT
                       !.probe.asking = FALSE, !.probe.decision = "stop", !.screen.prompt = "stopping"]
    OBVIOUS
  <2>2. PICK q : q = [p EXCEPT !.stop = "done", !.asking = FALSE, !.decision = "stop"]
    OBVIOUS
  <2>3. PICK s : s = [screen EXCEPT !.prompt = "stopping"]
    OBVIOUS
  <2>4. v = [u EXCEPT !.probe = q, !.screen = s]
    BY <1>8, <1>9, <2>1, <2>2, <2>3 DEF Scenes, Probes, Screens
  <2>5. q \in Probes /\ q.main = p.main /\ Alike(q, p)
    BY <1>9, <2>2 DEF Probes, Stops, Alike
  <2>6. s \in Screens /\ s.current = screen.current /\ s.window = "open"
    BY <1>9, <2>3 DEF Screens, Prompts
  <2>7. v \in Scenes /\ v.probe = q /\ v.screen = s /\ v.calls = u.calls
    BY <1>9, <2>4, <2>5, <2>6 DEF Scenes
  <2>8. SceneOK(a, gate, v) /\ CallsStep(a, v)
    <3>1. CallsStep(a, v)
      BY <1>8, <2>7 DEF CallsStep
    <3> QED
      BY <1>6, <1>8, <1>10, <1>11, <1>20, <2>5, <2>6, <2>7, <3>1, StageOK
  <2>9. PICK tm \in Thread, op \in Ops : tm = "main" /\ op = "status"
    BY DEF Thread, Ops
  <2>10. z = Await(v, a, tm, op, "second")
    BY <1>20, <2>1, <2>9
  <2>11. v.screen.current = a /\ v.probe.waiters = <<>>
    BY <1>11, <1>20, <2>5, <2>6, <2>7 DEF Alike
  <2>12. /\ SceneOK(a, gate, z) /\ CallsStep(a, z) /\ z.screen = v.screen /\ z.probe.main = "second"
    BY <1>10, <2>8, <2>9, <2>10, <2>11, AwaitOK
  <2>13. FinishOK(a, gate, z.probe, z.calls) /\ z.screen.window = "open"
    BY <2>6, <2>7, <2>12 DEF FinishOK
  <2> QED
    BY <1>1, <1>4, <1>10, <2>12, <2>13, SceneStep
<1> QED
  BY <1>4, <1>14, <1>15, <1>16, <1>18, <1>19, <1>20

-----------------------------------------------------------------------------
\* The theorems.

\* No attempt has begun, no request holds the gate and no job is known.
LEMMA InitInv == Init => Inv
<1> SUFFICES ASSUME Init
             PROVE  Inv
  OBVIOUS
<1>1. /\ jobs = [j \in Job |-> NoJob]
      /\ gate = [request |-> NoAttempt, stopping |-> FALSE, cancelled |-> {}]
      /\ calls = [a \in Attempt |-> [t \in Thread |-> NoCall]]
      /\ screen = [current |-> NoAttempt, prompt |-> "none", window |-> "open"]
      /\ probes = [a \in Attempt |-> NoProbe]
      /\ faults = 0
  BY DEF Init
<1>2. NoJob \in Jobs /\ NoJob.row = "none" /\ NoJob.worker = FALSE /\ NoJob.kept = FALSE
      /\ NoJob.stoppedBy = {} /\ NoJob.after = {}
  BY DEF NoJob, Jobs, Rows
<1>3. NoCall \in Calls /\ NoCall.pc = "idle" /\ NoCall.read = {} /\ NoCall.tokens = {}
  BY DEF NoCall, Calls, Ops, Pcs, Answers
<1>4. NoProbe \in Probes /\ NoProbe.main = "unused" /\ NoProbe.flight = "none" /\ NoProbe.waiters = <<>>
      /\ NoProbe.invalidated = FALSE
  BY DEF NoProbe, Probes, Mains, Stops
<1>5. TypeOK
  BY <1>1, <1>2, <1>3, <1>4 DEF TypeOK, Requests, Screens, Prompts
<1>6. GateOK /\ JobsOK /\ GateStands /\ StopsOnlyItsOwn
  BY <1>1, <1>2 DEF GateOK, JobsOK, GateStands, DestroyedIdle, GateHasOwner, StopsOnlyItsOwn,
                    SealedAreOrphans, StopsItsOwnJobs
<1>7. ASSUME NEW a \in Attempt
      PROVE  ScriptOK(a, State(a))
  <2>1. a # NoAttempt /\ gate.request = NoAttempt /\ screen.current = NoAttempt /\ screen.prompt = "none"
        /\ probes[a] = NoProbe /\ \A t \in Thread : calls[a][t].pc = "idle"
    BY <1>1, <1>3, CloseConstants DEF Attempt, NoAttempt
  <2>2. OwnerOK(a, gate, probes[a], screen)
    BY <1>4, <2>1 DEF OwnerOK
  <2>3. WaitOK(a, probes[a], screen)
    BY <1>4, <2>1 DEF WaitOK
  <2>4. FinishOK(a, gate, probes[a], calls)
    BY <1>4, <2>1 DEF FinishOK
  <2> QED
    BY <2>1, <2>2, <2>3, <2>4 DEF ScriptOK, State
<1>8. ASSUME NEW a \in Attempt, NEW t \in Thread
      PROVE  CallOK(a, calls[a][t])
  BY <1>1, <1>3 DEF CallOK, ReadOK, OwnOK, HeldOK, StopPcs
<1> QED
  BY <1>5, <1>6, <1>7, <1>8 DEF Inv

\* Every step keeps the invariant: the workers', the native calls', the script's,
\* the author's and a reload of the window.
LEMMA NextInv ==
  ASSUME Inv, [Next]_vars
  PROVE  Inv'
<1>1. CASE UNCHANGED vars
  <2>1. /\ jobs' = jobs /\ gate' = gate /\ calls' = calls
        /\ screen' = screen /\ probes' = probes /\ faults' = faults
    BY <1>1 DEF vars
  <2>2. TypeOK' /\ GateOK' /\ JobsOK'
    BY <2>1 DEF Inv, TypeOK, GateOK, JobsOK
  <2>3. JobsLater
    BY <2>1 DEF JobsLater, Later
  <2>4. GateStands' /\ StopsOnlyItsOwn'
    BY <2>1 DEF Inv, GateStands, DestroyedIdle, GateHasOwner, Idle, Admitted, Registered, Retained,
                ActiveRows, StopsOnlyItsOwn, SealedAreOrphans, StopsItsOwnJobs
  <2>5. ASSUME NEW a \in Attempt
        PROVE  ScriptOK(a, State(a))'
    <3>1. PICK u : u = State(a)
      OBVIOUS
    <3>2. ScriptOK(a, u)'
      BY <2>1, <2>3, <3>1, ScriptFrame DEF Inv
    <3>3. u = State(a)'
      BY <2>1, <3>1 DEF State
    <3> QED
      BY <3>2, <3>3
  <2>6. ASSUME NEW a \in Attempt, NEW t \in Thread
        PROVE  CallOK(a, calls[a][t])'
    <3>1. PICK c \in Calls : c = calls[a][t]
      BY DEF Inv, TypeOK
    <3>2. CallOK(a, c)'
      BY <2>1, <2>3, <3>1, CallFrame DEF Inv
    <3>3. c = calls'[a][t]
      BY <2>1, <3>1
    <3> QED
      BY <3>2, <3>3
  <2> QED
    BY <2>2, <2>4, <2>5, <2>6 DEF Inv
<1>2. CASE Next
  <2>1. screen.window = "open"
    BY <1>2 DEF Next
  <2>2. CASE JobStep
    BY <2>1, <2>2, JobStepInv
  <2>3. CASE NativeCall
    BY <2>1, <2>3, NativeCallInv
  <2>4. CASE Script
    BY <2>1, <2>4, BeginInv, SaveWritingInv, MainAnswerInv, DestroyInv, StopAnswerInv, CancelLandsInv,
       CancelAnsweredInv DEF Script
  <2>5. CASE Author
    BY <2>1, <2>5, CloseApplicationInv, StopAndCloseInv, StayOpenInv DEF Author
  <2>6. CASE Reload
    BY <2>1, <2>6, ReloadInv
  <2> QED
    BY <1>2, <2>2, <2>3, <2>4, <2>5, <2>6 DEF Next
<1> QED
  BY <1>1, <1>2

\* In every reachable state the close, its native calls and the jobs agree.
LEMMA InvAlways == Spec => []Inv
<1> QED
  BY InitInv, NextInv, PTL DEF Spec

\* The window is destroyed under a closed gate only when nothing is admitted, runs,
\* is active or waits to be saved, and a closed gate belongs to the attempt on the
\* screen: the four reads of a native call race the workers, and a cancellation
\* races both, for any number of attempts, polls and faults.
THEOREM GateTheorem == Spec => []GateStands
<1>1. Inv => GateStands
  BY DEF Inv
<1> QED
  BY <1>1, InvAlways, PTL

\* A close interrupts only jobs of which neither a worker nor a retained result is
\* left, and a late stop or interruption of a cancelled close never reaches a job
\* that was admitted after the cancellation.
THEOREM StopsTheorem == Spec => []StopsOnlyItsOwn
<1>1. Inv => StopsOnlyItsOwn
  BY DEF Inv
<1> QED
  BY <1>1, InvAlways, PTL
=============================================================================
