---------------------------- MODULE EditorSession ----------------------------
(***************************************************************************)
(* DocumentSession of apps/desktop/src/editor/session.ts: the renderer's   *)
(* owner of one open manuscript.  It captures the live text into saves,    *)
(* awaits their acknowledgments, and when an outcome is unknown it fences, *)
(* asks for the receipt and accepts, retries or shows a conflict.          *)
(*                                                                         *)
(* JavaScript runs to completion between awaits, so an action is the code  *)
(* between two of them.  A call goes into inbox, where the host serves it  *)
(* in any order (every command is a spawn_blocking task); wire[c] is the   *)
(* call that channel c awaits and its answer: "save" is the save in        *)
(* flight, "guard" the operation that owns the lifecycle guard and "view"  *)
(* the save of the reading position.  A queued call names the channel that *)
(* awaits it, or None when nobody does any more.                           *)
(***************************************************************************)
EXTENDS Kernel

CONSTANTS
    EditorDoc,       \* the document that is open
    GenerationLimit, \* bound on local generations
    OpReserve        \* identities kept for captures that must be made again

ASSUME EditorConstants ==
    EditorDoc \in Docs /\ GenerationLimit \in Nat /\ OpReserve \in Nat

VARIABLES
    ed,     \* the fields of the DocumentSession, owner and stage included
    inbox,  \* calls sent and not yet served
    wire,   \* what each channel awaits
    spent   \* operation identities already used (newId never repeats)

editorVars == <<ed, inbox, wire, spent>>

Channels == {"save", "guard", "view"}
NoCall == [kind |-> None]
NoReply == [code |-> None]
Idle == [req |-> NoCall, reply |-> NoReply]
NoCapture == [op |-> None]
NoReceiptFound == [kind |-> None]
NoConflict == [version |-> -1, body |-> None]

\* The constructor, on the record an attachment answered.
Opened(a, head) ==
    [phase |-> "editing", access |-> a, head |-> head, text |-> head.body,
     gen |-> 0, saved |-> 0, cause |-> "typing", composing |-> FALSE, timer |-> FALSE,
     barrier |-> FALSE, owner |-> None, stage |-> None, loop |-> FALSE,
     flight |-> None, cap |-> NoCapture, pending |-> NoCapture,
     change |-> NoCapture, asked |-> NoCapture, conflict |-> NoConflict]

\* No session: before the first attachment and after the renderer is gone.
Closed == [Opened(NoAccess, NoConflict) EXCEPT !.phase = "closed"]

Live == ed.phase \notin {"closed", "disposed"}
Editable == ~ed.barrier /\ ed.phase \in {"editing", "saveFailed"}
Dirty == ed.gen # ed.saved

\* newId: which unused identity is taken makes no difference.
FreshOps == Ops \ spent
NewOp == CHOOSE op \in FreshOps : TRUE
OpsLeft == Cardinality(FreshOps) > OpReserve

\* Send q on channel c and await it.
Call(c, q) ==
    /\ wire' = [wire EXCEPT ![c] = [req |-> q, reply |-> NoReply]]
    /\ inbox' = inbox \cup {[to |-> c, req |-> q]}
Answered(c, kind) == wire[c].req.kind = kind /\ wire[c].reply # NoReply
Hangup(c) == wire' = [wire EXCEPT ![c] = Idle] /\ UNCHANGED inbox

SaveRequest(a, cap) ==
    [kind |-> "save", access |-> a, op |-> cap.op, doc |-> EditorDoc,
     expected |-> cap.expected, body |-> cap.body, gen |-> cap.gen,
     cause |-> cap.cause]
CheckpointRequest(a, head) ==
    [kind |-> "checkpoint", access |-> a, doc |-> EditorDoc, expected |-> head]
ViewRequest(a, head) ==
    [kind |-> "view", access |-> a, doc |-> EditorDoc, expected |-> head]
RestoreRequest(a, change) ==
    [kind |-> "restore", access |-> a, op |-> change.op, doc |-> EditorDoc,
     expected |-> change.expected, body |-> change.body, gen |-> change.gen,
     revision |-> change.revision]
ReconcileRequest(s, op) ==
    [kind |-> "reconcile", session |-> s, doc |-> EditorDoc, op |-> op]

-----------------------------------------------------------------------------
\* Failures.

Definite == {"InvalidRequest", "InvalidDocument", "PersistenceUnavailable",
             "DocumentNotFound", "OperationIdReuse"}

\* Mutant: every failed save drops its capture.
RecordFailureForgets(e, code, clearsSave) ==
    [e EXCEPT !.phase = IF code \in Definite THEN "saveFailed" ELSE "reconciling",
              !.timer = FALSE,
              !.pending = IF clearsSave THEN NoCapture ELSE @]

\* recordFailure: a definite code lets the author go on and, for a save, drops
\* the capture; anything else must be reconciled first.
RecordFailure(e, code, clearsSave) ==
    [e EXCEPT !.phase = IF code \in Definite THEN "saveFailed" ELSE "reconciling",
              !.timer = FALSE,
              !.pending = IF code \in Definite /\ clearsSave THEN NoCapture ELSE @]

\* The finally of withLifecycleGuard.
Release(e) ==
    [e EXCEPT !.barrier = FALSE, !.owner = None, !.stage = None, !.asked = NoCapture,
              !.phase = IF @ \in {"flushing", "applying"} THEN "editing" ELSE @]

\* The flight is over, and with it the wait of reconcile() or of
\* acceptProjectAccess() for it.
Landed(e) == [e EXCEPT !.flight = None, !.stage = IF @ = "wait" THEN "ready" ELSE @]

\* Mutant: the guard stays closed when the flush under it throws.
FlushThrowsUnguarded(e) == [Landed(e) EXCEPT !.loop = FALSE]

\* A flush() that throws ends its loop, and the guarded operation awaiting it.
FlushThrows(e) ==
    LET stopped == [Landed(e) EXCEPT !.loop = FALSE] IN
    IF e.stage = "flush" THEN Release(stopped) ELSE stopped

-----------------------------------------------------------------------------
\* Typing and composing.

\* schedule: arm the autosave timer, or leave it cleared.
Schedule(e) ==
    [e EXCEPT !.timer = ~e.composing /\ e.phase = "editing" /\ e.gen # e.saved]

\* update.
Update(b, c) ==
    /\ Live /\ Editable
    /\ b # ed.text
    /\ ed.gen < GenerationLimit /\ OpsLeft
    /\ ed' = Schedule([ed EXCEPT !.text = b, !.gen = @ + 1,
                                 !.cause = IF c # "typing" THEN c ELSE @])
    /\ UNCHANGED <<inbox, wire, spent>>

\* Mutant: the editor still accepts an input method behind the barrier.
CompositionStartAnytime ==
    /\ Live /\ ~ed.composing
    /\ ed' = [ed EXCEPT !.composing = TRUE, !.timer = FALSE]
    /\ UNCHANGED <<inbox, wire, spent>>

\* setComposing(true): a composition starts only in an editable view.
CompositionStart ==
    /\ Live /\ Editable /\ ~ed.composing
    /\ ed' = [ed EXCEPT !.composing = TRUE, !.timer = FALSE]
    /\ UNCHANGED <<inbox, wire, spent>>

\* Mutant: the end of a composition schedules nothing.
CompositionEndSilent ==
    /\ ed.composing
    /\ ed' = [ed EXCEPT !.composing = FALSE]
    /\ UNCHANGED <<inbox, wire, spent>>

\* setComposing(false).
CompositionEnd ==
    /\ ed.composing
    /\ ed' = Schedule([ed EXCEPT !.composing = FALSE])
    /\ UNCHANGED <<inbox, wire, spent>>

-----------------------------------------------------------------------------
\* The save flight.

\* The test of the loop of flush(): return, or capture.  capture freezes the
\* request and awaits its hashes.
Loop(e) ==
    \/ /\ e.gen = e.saved
       /\ ed' = [e EXCEPT !.loop = FALSE, !.stage = IF @ = "flush" THEN "flushed" ELSE @]
       /\ UNCHANGED spent
    \/ /\ e.gen # e.saved
       /\ FreshOps # {}
       /\ ed' = [e EXCEPT !.loop = TRUE, !.flight = "capturing",
                          !.cap = [op |-> NewOp, expected |-> e.head, gen |-> e.gen,
                                   body |-> e.text, cause |-> e.cause,
                                   access |-> e.access]]
       /\ spent' = spent \cup {NewOp}

\* flush(): a caller that finds a save in flight joins it.
Flushing(e) ==
    LET cleared == [e EXCEPT !.timer = FALSE, !.phase =
                      IF @ = "saveFailed" THEN (IF e.barrier THEN "flushing" ELSE "editing")
                      ELSE @]
    IN  IF e.flight = None THEN Loop(cleared)
        ELSE ed' = [cleared EXCEPT !.loop = TRUE] /\ UNCHANGED spent

\* flush() outside the guard: the autosave timer, Retry, or another panel.
Flush ==
    /\ Live /\ ~ed.barrier /\ ~ed.composing
    /\ ed.phase \notin {"reconciling", "conflict"}
    /\ Flushing(ed)
    /\ ed' # ed
    /\ UNCHANGED <<inbox, wire>>

\* The hashes are there: send.  A cause chosen meanwhile is not forgotten.
Send ==
    /\ ed.flight = "capturing"
    /\ ed' = [ed EXCEPT !.flight = "sent", !.pending = ed.cap, !.cap = NoCapture,
                        !.cause = IF ed.gen = ed.cap.gen THEN "typing" ELSE @]
    /\ Call("save", SaveRequest(ed.cap.access, ed.cap))
    /\ UNCHANGED spent

\* The hashes could not be computed.
CaptureFails ==
    /\ ed.flight = "capturing"
    /\ ed' = FlushThrows([ed EXCEPT !.phase = "saveFailed", !.timer = FALSE,
                                    !.cap = NoCapture])
    /\ UNCHANGED <<inbox, wire, spent>>

\* acceptAck: the acknowledgment must be of the request q.
Acked(q, r) ==
    /\ r.code = "ok"
    /\ r.gen = q.gen
    /\ r.head = [version |-> q.expected.version
                             + (IF q.expected.body = q.body THEN 0 ELSE 1),
                body |-> q.body]

\* Mutant: an acknowledgment marks everything typed so far as saved.
AcceptEverything(e, head, gen) ==
    [e EXCEPT !.head = head, !.saved = e.gen, !.pending = NoCapture]

Accept(e, head, gen) ==
    [e EXCEPT !.head = head, !.saved = gen, !.pending = NoCapture]

\* What send() leaves of e when its save q is answered by r.
SendResult(e, q, r) ==
    IF Acked(q, r) THEN Accept(e, r.head, r.gen)
    ELSE RecordFailure(e, IF r.code = "ok" THEN "ProtocolError" ELSE r.code, TRUE)

\* The flight lands: the loop of flush() goes on unless the save failed, or
\* returns because a composition began.
SaveAnswered ==
    /\ ed.flight = "sent" /\ Answered("save", "save")
    /\ LET q == wire["save"].req
           r == wire["save"].reply
           landed == Landed(SendResult(ed, q, r))
       IN  \/ /\ ~Acked(q, r)
              /\ ed' = FlushThrows(landed)
              /\ UNCHANGED spent
           \/ /\ Acked(q, r) /\ ed.composing
              /\ ed' = [Schedule(landed) EXCEPT
                          !.loop = FALSE, !.stage = IF @ = "flush" THEN "flushed" ELSE @]
              /\ UNCHANGED spent
           \/ /\ Acked(q, r) /\ ~ed.composing
              /\ Loop(landed)
    /\ Hangup("save")

-----------------------------------------------------------------------------
\* The reading position in the background.

\* persistViewBackground, when canStartBackgroundView.
ViewSave ==
    /\ ed.phase = "editing" /\ ~ed.composing /\ ~ed.barrier /\ ed.owner = None
    /\ ~ed.loop /\ ed.flight = None /\ ~Dirty
    /\ wire["view"] = Idle
    /\ Call("view", ViewRequest(ed.access, ed.head))
    /\ UNCHANGED <<ed, spent>>

\* Its answer: a stale head is retried later, any other failure is recorded.
ViewAnswered ==
    /\ Answered("view", "view") /\ ed.stage # "view"
    /\ ed' = IF wire["view"].reply.code \in {"ok", "VersionConflict"} THEN ed
             ELSE RecordFailure(ed, wire["view"].reply.code, FALSE)
    /\ Hangup("view")
    /\ UNCHANGED spent

-----------------------------------------------------------------------------
\* Guarded operations.

\* withLifecycleGuard: one owner, no view flight, no composition; the barrier
\* closes the editor.
Guarded(k) ==
    [ed EXCEPT !.barrier = TRUE, !.owner = k,
               !.phase = IF @ = "editing" THEN "flushing" ELSE @]
MayGuard == Live /\ ed.owner = None /\ wire["view"] = Idle /\ ~ed.composing

\* checkpoint, persistView, detachAfter and restoreRevision begin by flushing,
\* which throws at once while a reconciliation or a conflict is open.
BeginFlushed(k) ==
    /\ k \in {"checkpoint", "persist", "detach", "restore"}
    /\ MayGuard /\ ed.phase \notin {"reconciling", "conflict"}
    /\ Flushing([Guarded(k) EXCEPT !.stage = "flush"])
    /\ UNCHANGED <<inbox, wire>>

\* writeCheckpoint of the flushed head (checkpoint, detachAfter), or of the
\* saved side of a conflict (resolveConflict).
SendCheckpoint(head) ==
    /\ ed' = [ed EXCEPT !.stage = "checkpoint"]
    /\ Call("guard", CheckpointRequest(ed.access, head))
    /\ UNCHANGED spent

CheckpointFlushed ==
    /\ ed.owner \in {"checkpoint", "detach"} /\ ed.stage = "flushed"
    /\ SendCheckpoint(ed.head)

\* A failed checkpoint ends the operation; in a conflict a definite failure
\* leaves the conflict open.
CheckpointFailed(r) ==
    LET e == RecordFailure(ed, r.code, FALSE) IN
    ed' = Release(IF ed.phase = "conflict" /\ e.phase = "saveFailed"
                  THEN [e EXCEPT !.phase = "conflict"] ELSE e)

\* persistView has nothing to checkpoint.
PersistFlushed ==
    /\ ed.owner = "persist" /\ ed.stage = "flushed"
    /\ ed' = [ed EXCEPT !.stage = "view"]
    /\ Call("view", ViewRequest(ed.access, ed.head))
    /\ UNCHANGED spent

\* The checkpoint is kept; save the reading position.
CheckpointAnswered ==
    /\ ed.owner \in {"checkpoint", "detach"} /\ Answered("guard", "checkpoint")
    /\ \/ /\ wire["guard"].reply.code # "ok"
          /\ CheckpointFailed(wire["guard"].reply)
          /\ Hangup("guard")
       \/ /\ wire["guard"].reply.code = "ok"
          /\ ed' = [ed EXCEPT !.stage = "view"]
          /\ LET q == ViewRequest(ed.access, ed.head) IN
             /\ wire' = [wire EXCEPT !["guard"] = Idle,
                                     !["view"] = [req |-> q, reply |-> NoReply]]
             /\ inbox' = inbox \cup {[to |-> "view", req |-> q]}
    /\ UNCHANGED spent

\* saveView inside the guard, then the end of the operation; for detachAfter
\* the destination opens and the session is disposed, or it fails to open.
GuardedViewAnswered ==
    /\ ed.stage = "view" /\ Answered("view", "view")
    /\ IF wire["view"].reply.code \notin {"ok", "VersionConflict"}
       THEN ed' = Release(RecordFailure(ed, wire["view"].reply.code, FALSE))
       ELSE \/ ed' = Release(ed)
            \/ ed.owner = "detach" /\ ed' = [Release(ed) EXCEPT !.phase = "disposed"]
    /\ Hangup("view")
    /\ UNCHANGED spent

-----------------------------------------------------------------------------
\* Restoring a revision (applyPrepared follows the same path).

\* restoreRevision after its flush: the revision taken at version v holds b.
RestoreFlushed(v, b) ==
    /\ ed.owner = "restore" /\ ed.stage = "flushed"
    /\ OpsLeft
    /\ b # ed.head.body
    /\ ed.gen < GenerationLimit
    /\ LET change == [op |-> NewOp, expected |-> ed.head, body |-> b,
                      gen |-> ed.gen + 1, revision |-> v]
       IN  /\ ed' = [ed EXCEPT !.phase = "applying", !.change = change,
                               !.stage = "change"]
           /\ Call("guard", RestoreRequest(ed.access, change))
    /\ spent' = spent \cup {NewOp}

\* The revision already matches, or the preflight or validation refuses it.
RestoreRefused ==
    /\ ed.owner = "restore" /\ ed.stage = "flushed"
    /\ ed' = Release(ed)
    /\ UNCHANGED <<inbox, wire, spent>>

\* commitChange: the saved change becomes the text.
Commit(e, head) ==
    [e EXCEPT !.text = e.change.body, !.head = head, !.gen = e.change.gen,
              !.saved = e.change.gen, !.change = NoCapture, !.cause = "typing",
              !.phase = "flushing"]

\* commitChange when the editor cannot display the change: whatever it shows
\* now is retained (retainDisplayed) and the change stays pending.
Undisplayed(e, shown) ==
    [e EXCEPT !.text = shown, !.gen = IF shown = e.text THEN @ ELSE @ + 1,
              !.phase = "reconciling"]
Displays(e, head) ==
    {Commit(e, head)} \cup
    (IF e.gen < GenerationLimit
     THEN {Undisplayed(e, shown) : shown \in {e.text, e.change.body}} ELSE {})

ChangeDefinite == (Definite \ {"DocumentNotFound", "OperationIdReuse"}) \cup
    {"RevisionNotFound", "RevisionHashMismatch", "NoChanges",
     "OperationIdReusedWithDifferentPayload"}

\* validateChangeResult: the result is of this change, made on its basis.
ChangeMatches(change, head, gen) ==
    /\ gen = change.gen
    /\ head = [version |-> change.expected.version + 1, body |-> change.body]

\* sendChange answered by r: the sessions it may leave.
ChangeResult(e, r) ==
    IF r.code \in ChangeDefinite
    THEN {[e EXCEPT !.change = NoCapture, !.phase = "flushing"]}
    ELSE IF r.code = "ok" /\ ChangeMatches(e.change, r.head, r.gen)
              /\ r.document = r.head
    THEN Displays(e, r.head)
    ELSE {[e EXCEPT !.phase = "reconciling"]}

ChangeAnswered ==
    /\ ed.stage = "change" /\ Answered("guard", "restore")
    /\ \E e \in ChangeResult(ed, wire["guard"].reply) : ed' = Release(e)
    /\ Hangup("guard")
    /\ UNCHANGED spent

-----------------------------------------------------------------------------
\* Reconciliation.

\* reconcile() takes the guard and waits for a save still in flight.  When it
\* lands the loop of flush() may capture the next one before the query is sent.
AwaitFlight == IF ed.flight = None THEN "ready" ELSE "wait"
BeginReconcile ==
    /\ MayGuard
    /\ ed' = [Guarded("reconcile") EXCEPT !.stage = AwaitFlight]
    /\ UNCHANGED <<inbox, wire, spent>>

\* The fenced query, naming the operation that is pending, if any.
PendingOp == IF ed.change # NoCapture THEN ed.change.op ELSE ed.pending.op
SendReconcile ==
    /\ ed.owner = "reconcile" /\ ed.stage = "ready"
    /\ ed' = [ed EXCEPT !.phase = "reconciling", !.stage = "query", !.timer = FALSE,
                        !.asked = ed.pending]
    /\ Call("guard", ReconcileRequest(ed.access.session, PendingOp))
    /\ UNCHANGED spent

SetConflict(e, head) == [e EXCEPT !.phase = "conflict", !.conflict = head]

\* The session goes on; reconcile() ends by scheduling.
Resumed(e) == [e EXCEPT !.phase = "editing"]
EndReconcile(e) == Schedule(Release(e))

\* Whether the fence proved that the pending operation is absent and may be
\* sent again under the new lease.
ProvedAbsent(r) ==
    /\ r.receipt = NoReceiptFound
    /\ IF ed.change # NoCapture
       THEN r.head = ed.change.expected /\ r.head.body = ed.text
       ELSE ed.asked # NoCapture /\ r.head = ed.asked.expected

\* The session reconcile() leaves when it need not send again.
Reconciled(e, r) ==
    IF e.change # NoCapture THEN
        IF r.receipt = NoReceiptFound THEN {SetConflict(e, r.head)}
        ELSE IF ~ChangeMatches(e.change, r.receipt.head, r.receipt.payload.gen) THEN {e}
        ELSE IF r.head # r.receipt.head THEN {SetConflict(e, r.head)}
        ELSE Displays(e, r.head)
    ELSE IF e.asked = NoCapture THEN
        IF r.head = e.head THEN {Resumed([e EXCEPT !.pending = NoCapture])} ELSE {SetConflict(e, r.head)}
    ELSE IF r.receipt = NoReceiptFound THEN {SetConflict(e, r.head)}
    ELSE IF ~Acked(e.asked, [code |-> "ok", head |-> r.receipt.head,
                             gen |-> r.receipt.payload.gen]) THEN {e}
    ELSE IF r.head # r.receipt.head THEN {SetConflict(e, r.head)}
    ELSE {Resumed(Accept(e, r.head, r.receipt.payload.gen))}

\* validate: the answer must bring a new lease.
Rotates(r) == IF r.code = "ok" THEN r.access # ed.access ELSE FALSE

ReconcileAnswered ==
    /\ ed.stage = "query" /\ Answered("guard", "reconcile")
    /\ LET r == wire["guard"].reply
           renewed == [ed EXCEPT !.access = r.access]
       IN  \/ /\ ~Rotates(r)
              /\ ed' = Release(ed)
              /\ Hangup("guard")
           \/ /\ Rotates(r) /\ ~ProvedAbsent(r)
              /\ \E e \in Reconciled(renewed, r) : ed' = EndReconcile(e)
              /\ Hangup("guard")
           \/ /\ Rotates(r) /\ ProvedAbsent(r)
              /\ ed' = [renewed EXCEPT !.stage = "retry", !.pending = ed.asked]
              /\ Call("guard", IF ed.change # NoCapture
                              THEN RestoreRequest(r.access, ed.change)
                              ELSE SaveRequest(r.access, ed.asked))
    /\ UNCHANGED spent

\* The same logical operation was sent again: send() or sendChange() inside
\* reconcile(), which any failure leaves reconciling.
RetryAnswered ==
    /\ ed.stage = "retry" /\ wire["guard"].reply # NoReply
    /\ LET r == wire["guard"].reply IN
       \/ /\ ed.change = NoCapture
          /\ LET q == wire["guard"].req
                 e == SendResult(ed, q, r)
             IN  ed' = EndReconcile(IF Acked(q, r) THEN Resumed(e)
                                    ELSE [e EXCEPT !.phase = "reconciling"])
       \/ /\ ed.change # NoCapture
          /\ \E e \in ChangeResult(ed, r) :
               ed' = EndReconcile(IF r.code \in ChangeDefinite
                                  THEN [e EXCEPT !.phase = "reconciling"] ELSE e)
    /\ Hangup("guard")
    /\ UNCHANGED spent

-----------------------------------------------------------------------------
\* Conflicts and a sibling's lease.

\* resolveConflict keeps the saved side as a revision before the choice.
BeginResolve(choice) ==
    /\ ed.phase = "conflict"
    /\ choice \in {"keepLocal", "useSaved"}
    /\ MayGuard
    /\ ed.gen < GenerationLimit /\ (choice = "keepLocal" => FreshOps # {})
    /\ ed' = [Guarded(choice) EXCEPT !.stage = "resolve"]
    /\ UNCHANGED <<inbox, wire, spent>>

ResolveCheckpoint ==
    /\ ed.stage = "resolve"
    /\ SendCheckpoint(ed.conflict)

Resolve(e) ==
    [e EXCEPT !.head = e.conflict, !.pending = NoCapture, !.change = NoCapture,
              !.conflict = NoConflict, !.phase = "flushing", !.gen = @ + 1]

\* The checkpoint is there: carry out the choice.
ResolveAnswered ==
    /\ ed.owner \in {"keepLocal", "useSaved"} /\ Answered("guard", "checkpoint")
    /\ \/ /\ wire["guard"].reply.code # "ok"
          /\ CheckpointFailed(wire["guard"].reply)
          /\ UNCHANGED spent
       \/ /\ wire["guard"].reply.code = "ok" /\ ed.owner = "useSaved"
          /\ ed' = Release([Resolve(ed) EXCEPT !.text = ed.conflict.body,
                                               !.saved = ed.gen + 1])
          /\ UNCHANGED spent
       \/ /\ wire["guard"].reply.code = "ok" /\ ed.owner = "keepLocal"
          /\ Flushing([Resolve(ed) EXCEPT !.stage = "flush"])
    /\ Hangup("guard")

\* The guarded work of keepLocal ends with its flush.
KeptLocal ==
    /\ ed.owner = "keepLocal" /\ ed.stage = "flushed"
    /\ ed' = Release(ed)
    /\ UNCHANGED <<inbox, wire, spent>>

\* acceptProjectAccess: take the lease a sibling's recovery obtained, once a
\* save in flight has landed.  Pending operations stay pending.
BeginAccept(a) ==
    /\ a # ed.access /\ a.session = ed.access.session
    /\ MayGuard
    /\ ed' = [Guarded("accept") EXCEPT !.stage = AwaitFlight, !.asked = a]
    /\ UNCHANGED <<inbox, wire, spent>>
AcceptAccess ==
    /\ ed.owner = "accept" /\ ed.stage = "ready"
    /\ ed' = Schedule(Release([ed EXCEPT !.access = ed.asked]))
    /\ UNCHANGED <<inbox, wire, spent>>

=============================================================================
