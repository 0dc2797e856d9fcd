--------------------------- MODULE EditorProtocol ---------------------------
(***************************************************************************)
(* The renderer's document session and the project actor, joined by calls  *)
(* that may be delayed, reordered and answered to nobody.                  *)
(*                                                                         *)
(* Around them: a sibling of the editor in the same renderer (an adoption  *)
(* of generated material, another panel's recovery) that writes the        *)
(* document or rotates the lease; a renderer that is reloaded while its    *)
(* calls are still queued; a process that dies.                            *)
(***************************************************************************)
EXTENDS ProjectActor, EditorSession

CONSTANT
    TroubleLimit  \* bound on failed or uncertain transactions and reads, answers
                  \* that never reach the renderer, steps of the sibling, reloads
                  \* of the renderer and crashes of the process

ASSUME ProtocolConstants == TroubleLimit \in Nat

VARIABLES
    troubles,                  \* how much of the bound is used
    offered,                   \* the access a sibling's recovery obtained
    used,                      \* renderer sessions already opened
    hist                       \* history: the body at each saved version

envVars == <<troubles, offered, used>>
vars == <<db, mem, leases, ed, inbox, wire, spent, troubles, offered, used,
          hist>>

TheDoc == db.docs[EditorDoc]

\* A project with one saved document, not yet attached.
FirstBody == CHOOSE b \in Bodies : TRUE
Init ==
    /\ db = [docs |-> [d \in Docs |->
                [title |-> CHOOSE t \in Titles : TRUE, meta |-> 0, version |-> 0,
                 body |-> FirstBody, last |-> -1]],
             receipts |-> [op \in Ops |-> NoReceipt],
             revisions |-> [d \in Docs |-> [v \in Versions |-> NoRevision]],
             epoch |-> 0, title |-> CHOOSE t \in Titles : TRUE, meta |-> 0,
             marker |-> CHOOSE t \in Titles : TRUE, view |-> NoView]
    /\ mem = OpenedMem /\ leases = 0
    /\ ed = Closed /\ inbox = {} /\ wire = [c \in Channels |-> Idle] /\ spent = {}
    /\ troubles = 0 /\ offered = NoAccess /\ used = {}
    /\ hist = [v \in Versions |-> IF v = 0 THEN FirstBody ELSE None]

-----------------------------------------------------------------------------
\* The host.

Fault(o) == o.reply.code \in {"UncertainOutcome", "PersistenceUnavailable"}

\* Take an outcome of a handler whose call is itself n troubles.
Apply(o, n) ==
    /\ db' = o.db
    /\ mem' = o.mem
    /\ leases' = IF o.mem.access.lease > leases THEN o.mem.access.lease ELSE leases
    /\ hist' = [hist EXCEPT ![o.db.docs[EditorDoc].version] =
                                o.db.docs[EditorDoc].body]
    /\ troubles' = troubles + n + (IF Fault(o) THEN 1 ELSE 0)
    /\ troubles' <= TroubleLimit

Handled(q) ==
    CASE q.kind = "save" -> Save(q)
      [] q.kind = "checkpoint" -> Checkpoint(q)
      [] q.kind = "restore" -> RestoreRevision(q)
      [] q.kind = "view" -> SaveViewState(q)
      [] q.kind = "reconcile" -> Reconcile(q)

\* The actor serves a queued call; whoever still awaits it gets the answer.
Serve(m) ==
    /\ m \in inbox
    /\ \E o \in Handled(m.req) :
        /\ Apply(o, 0)
        /\ wire' = IF m.to = None THEN wire
                   ELSE [wire EXCEPT ![m.to].reply = o.reply]
    /\ inbox' = inbox \ {m}
    /\ UNCHANGED <<ed, spent, offered, used>>

\* An answer is lost: the promise rejects, whether or not the call was, or
\* still will be, served (errorOf makes it an UncertainOutcome).
Abandoned(m) == [m EXCEPT !.to = None]
Lose(c) ==
    /\ wire[c].req # NoCall /\ troubles < TroubleLimit
    /\ wire[c].reply.code # "UncertainOutcome"
    /\ wire' = [wire EXCEPT ![c].reply = [code |-> "UncertainOutcome"]]
    /\ inbox' = {IF m.to = c THEN Abandoned(m) ELSE m : m \in inbox}
    /\ troubles' = troubles + 1
    /\ UNCHANGED <<db, mem, leases, ed, spent, offered, used,
                   hist>>

\* Leases the calls already sent, or about to be sent, may still take.
Queries == {m \in inbox : m.req.kind = "reconcile"}
LeaseLeft ==
    leases + Cardinality(Queries)
      + (IF ed.owner = "reconcile" /\ ed.stage \in {"wait", "ready"} THEN 1 ELSE 0)
        < LeaseLimit

\* The renderer attaches and opens the document.
Open(s) ==
    /\ ed.phase = "closed" /\ s \notin used /\ LeaseLeft
    /\ \E o \in AttachSnapshot(s) :
        /\ Apply(o, 0)
        /\ ed' = IF o.reply.code = "ok"
                 THEN Opened(o.reply.access, HeadOf(o.reply.docs[EditorDoc]))
                 ELSE Closed
        /\ used' = IF o.reply.code = "ok" THEN used \cup {s} ELSE used
    /\ UNCHANGED <<inbox, wire, spent, offered>>

\* The renderer is reloaded: its memory is gone, its calls are still queued.
Reload ==
    /\ ed.phase # "closed" /\ Sessions \ used # {}
    /\ troubles < TroubleLimit /\ troubles' = troubles + 1
    /\ ed' = Closed /\ wire' = [c \in Channels |-> Idle] /\ offered' = NoAccess
    /\ inbox' = {Abandoned(m) : m \in inbox}
    /\ UNCHANGED <<db, mem, leases, spent, used, hist>>

\* The process dies and is started again.
Crash ==
    /\ ed.phase # "closed" /\ Sessions \ used # {}
    /\ troubles < TroubleLimit /\ troubles' = troubles + 1
    /\ mem' = OpenedMem
    /\ ed' = Closed /\ wire' = [c \in Channels |-> Idle] /\ offered' = NoAccess
    /\ inbox' = {}
    /\ UNCHANGED <<db, leases, spent, used, hist>>

-----------------------------------------------------------------------------
\* The sibling: another panel of the same renderer, under the same lease.

SiblingMay == Live /\ troubles < TroubleLimit

\* adopt_material_target: another command writes the document, keeping the
\* revisions on either side.
AdoptMaterial(b) ==
    LET before == CheckpointAt(db, EditorDoc) IN
    IF TheDoc.version = VersionLimit THEN Refused("VersionLimit")
    ELSE Transact(CheckpointAt(WriteBody(before, EditorDoc, b), EditorDoc),
                  [code |-> "ok"])
SiblingWrites(b) ==
    /\ SiblingMay
    /\ mem.access.session = ed.access.session /\ b # TheDoc.body
    /\ \E o \in AdoptMaterial(b) : Apply(o, 1)
    /\ UNCHANGED <<ed, inbox, wire, spent, offered, used>>

\* Another DocumentSession reconciles, and offers its new access to this one
\* (acceptChatAccess of documentWorkspace.ts).
SiblingReconciles ==
    /\ SiblingMay /\ LeaseLeft
    /\ \E o \in Reconcile(ReconcileRequest(ed.access.session, None)) :
        /\ Apply(o, 1)
        /\ offered' = IF o.reply.code = "ok" THEN o.reply.access ELSE offered
    /\ UNCHANGED <<ed, inbox, wire, spent, used>>

-----------------------------------------------------------------------------
\* The steps of the document session.

Begin ==
    \/ CompositionStart
    \/ \E k \in {"checkpoint", "persist", "detach", "restore"} : BeginFlushed(k)
    \/ ViewSave
    \/ LeaseLeft /\ BeginReconcile
    \/ \E choice \in {"keepLocal", "useSaved"} : BeginResolve(choice)
    \/ offered # NoAccess /\ BeginAccept(offered)
    \/ Flush

\* What runs by itself once begun.
SaveFlight == Send \/ SaveAnswered
GuardedWork ==
    \/ CheckpointFlushed \/ PersistFlushed \/ CheckpointAnswered \/ GuardedViewAnswered
    \/ \E v \in Versions : RestoreFlushed(v, db.revisions[EditorDoc][v].body)
    \/ RestoreRefused \/ ChangeAnswered
    \/ SendReconcile \/ ReconcileAnswered \/ RetryAnswered
    \/ ResolveCheckpoint \/ ResolveAnswered \/ KeptLocal \/ AcceptAccess

ClientStep(A) ==
    /\ A
    /\ UNCHANGED <<db, mem, leases, hist>> /\ UNCHANGED envVars

\* Hashing fails as rarely as the disk does.
CaptureFailsStep ==
    /\ CaptureFails
    /\ troubles < TroubleLimit /\ troubles' = troubles + 1
    /\ UNCHANGED <<db, mem, leases, offered, used, hist>>

Host == \E m \in inbox : Serve(m)

Next ==
    \/ \E b \in Bodies, c \in Causes : ClientStep(Update(b, c))
    \/ ClientStep(Begin)
    \/ ClientStep(CompositionEnd)
    \/ ClientStep(SaveFlight)
    \/ ClientStep(GuardedWork)
    \/ ClientStep(ViewAnswered)
    \/ CaptureFailsStep
    \/ Host
    \/ \E c \in Channels : Lose(c)
    \/ \E s \in Sessions : Open(s)
    \/ Reload \/ Crash
    \/ \E b \in Bodies : SiblingWrites(b)
    \/ SiblingReconciles

Spec == Init /\ [][Next]_vars

\* Code that has begun goes on, the actor serves its queue and timers fire.
\* Nothing is assumed of the author.
Fairness ==
    /\ WF_vars(ClientStep(SaveFlight)) /\ WF_vars(ClientStep(GuardedWork))
    /\ WF_vars(ClientStep(ed.timer /\ Flush))
    /\ WF_vars(Host)
FairSpec == Spec /\ Fairness

-----------------------------------------------------------------------------
\* Properties.

\* The shapes of the session's fields; it never claims to have saved more than
\* was typed.
TypeOK ==
    /\ ed.phase \in {"editing", "flushing", "applying", "saveFailed", "reconciling",
                     "conflict", "disposed", "closed"}
    /\ ed.gen \in 0..GenerationLimit /\ ed.saved \in 0..ed.gen
    /\ ed.flight \in {None, "capturing", "sent"}
    /\ leases \in 0..LeaseLimit /\ troubles \in 0..TroubleLimit
    /\ spent \subseteq Ops
    /\ \A m \in inbox : m.to \in Channels \cup {None}

\* Text the session calls clean is the body of its head, and its head is a
\* version the project really saved.
CleanTextIsSaved ==
    Live => /\ ed.gen = ed.saved => ed.text = ed.head.body
            /\ hist[ed.head.version] = ed.head.body

\* A disposed session leaves nothing behind: all of its text is saved, and the
\* last of it is a checkpoint of the document.
DisposedTextKept ==
    ed.phase = "disposed" =>
        /\ ed.gen = ed.saved
        /\ db.revisions[EditorDoc][ed.head.version].body = ed.text

\* Text that is only in the editor has its autosave armed.
AutosaveArmed ==
    (/\ ed.phase = "editing" /\ Dirty
     /\ ~ed.composing /\ ~ed.loop /\ ed.owner = None) => ed.timer

\* A write of the open session that could still commit is the one the session
\* keeps as pending.
CouldCommit(q) ==
    /\ q.kind \in {"save", "restore"}
    /\ q.access = mem.access
    /\ db.receipts[q.op] = NoReceipt
    /\ q.expected = HeadOf(TheDoc)
NoForgottenWrite ==
    \A m \in inbox :
        m.to = None /\ CouldCommit(m.req) /\ m.req.access.session = ed.access.session
            => m.req.op \in {ed.pending.op, ed.change.op}

\* The renderer whose session is open is the one the actor answers to, whatever
\* calls of an earlier renderer are still queued.
OpenRendererOwns ==
    Live => /\ mem.renderer = ed.access.session
            /\ mem.access.session \in {None, ed.access.session}

\* Whatever closed the editor opens it again.
GuardEnds == ed.barrier ~> ~ed.barrier

\* Text in an editable session is saved by itself, or the session says that it
\* needs the author, or the author is composing.
AutosaveSettles ==
    (ed.phase = "editing" /\ Dirty) ~> (~Dirty \/ ed.phase # "editing" \/ ed.composing)

\* What the author must never lose: text called clean, text left behind by a
\* disposed session, a save that could still
\* commit, the armed autosave, and the lease of the renderer that is open.
NothingTypedIsLost ==
    /\ TypeOK
    /\ CleanTextIsSaved
    /\ DisposedTextKept
    /\ AutosaveArmed
    /\ NoForgottenWrite
    /\ OpenRendererOwns

\* The session always comes to rest: a guard ends, and typed text is saved
\* (withLifecycleGuard, schedule and flush of session.ts).
SessionSettles == GuardEnds /\ AutosaveSettles
=============================================================================
