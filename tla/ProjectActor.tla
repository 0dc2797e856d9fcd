---------------------------- MODULE ProjectActor ----------------------------
(***************************************************************************)
(* The owned project actor: crates/core/src/projects.rs (OwnedProject) and *)
(* the loop of crates/core/src/projects/session.rs that serves it, with    *)
(* the row operations of crates/storage and crates/documents it calls.     *)
(*                                                                         *)
(* One thread owns the SQLite connection.  It runs one command at a time,  *)
(* each in one IMMEDIATE transaction, so one action is one command.  db is *)
(* what the project folder keeps; mem is the memory of the thread, lost    *)
(* when it dies.  A handler is an operator that returns the set of its     *)
(* outcomes [db, mem, reply], so that a module that composes the actor     *)
(* with its callers can also see what was answered.                        *)
(*                                                                         *)
(* Here the callers are arbitrary: a request may carry any lease, any      *)
(* operation identity and any expected head, which covers every delayed,   *)
(* repeated or reordered call.  A body hash identifies its body, so a head *)
(* is a version and a body.                                                *)
(***************************************************************************)
EXTENDS Kernel

NoDoc == [title |-> None, meta |-> 0, version |-> 0, body |-> None, last |-> -1]
NoReceipt == [kind |-> None]
NoView == [doc |-> None]

VARIABLES
    db,     \* the database file and the marker beside it
    mem,    \* OwnedProject: access, renderer_session, retired_sessions, ...
    leases  \* how many writer leases were ever issued (new_id never repeats)

actorVars == <<db, mem, leases>>

-----------------------------------------------------------------------------
\* Rows.

\* Mutant: the receipt keeps the head read before the change.
InsertStaleReceipt(s, q, kind, payload) ==
    [s EXCEPT !.receipts[q.op] = [kind |-> kind, doc |-> q.doc, payload |-> payload,
        head |-> IF db.docs[q.doc] = NoDoc THEN HeadOf(s.docs[q.doc])
                 ELSE HeadOf(db.docs[q.doc])]]

\* storage::insert_receipt: the result of a command is the head it left.
InsertReceipt(s, q, kind, payload) ==
    [s EXCEPT !.receipts[q.op] = [kind |-> kind, doc |-> q.doc,
                                  payload |-> payload, head |-> HeadOf(s.docs[q.doc])]]

\* storage::existing_receipt: an operation identity is spent on one payload,
\* which is the request without its session and lease (kernel::logical_hash).
Spent(q, kind, payload) ==
    IF db.receipts[q.op] = NoReceipt THEN "absent"
    ELSE IF db.receipts[q.op].kind = kind /\ db.receipts[q.op].payload = payload
    THEN "replay"
    ELSE "OperationIdReusedWithDifferentPayload"

-----------------------------------------------------------------------------
\* Outcomes.

Refused(code) == {[db |-> db, mem |-> mem, reply |-> [code |-> code]]}

\* Mutant: the writer keeps its access across an uncertain commit.
FencedKeepsAccess(m) == [m EXCEPT !.needsReopen = TRUE]

\* OwnedProject::fence_uncertain, run by the loop after every mutation.
Fenced(m) == [m EXCEPT !.access = NoAccess, !.needsReopen = TRUE]

\* An IMMEDIATE transaction that reached its COMMIT with the rows in next.  A
\* statement that failed rolls back (PersistenceUnavailable); a COMMIT that
\* failed may or may not be in the file, and the loop fences the writer.
Transact(next, reply) ==
    {[db |-> next, mem |-> mem, reply |-> reply],
     [db |-> next, mem |-> Fenced(mem), reply |-> [code |-> "UncertainOutcome"]],
     [db |-> db, mem |-> Fenced(mem), reply |-> [code |-> "UncertainOutcome"]],
     [db |-> db, mem |-> mem, reply |-> [code |-> "PersistenceUnavailable"]]}

\* Mutant: only the session is compared, not its lease.
CheckSessionOnly(a) ==
    IF mem.access = NoAccess THEN "WrongProjectSession"
    ELSE IF mem.access.session # a.session THEN "WriterLeaseExpired"
    ELSE "ok"

\* OwnedProject::check_access.
CheckAccess(a) ==
    IF mem.access = NoAccess THEN "WrongProjectSession"
    ELSE IF mem.access # a THEN "WriterLeaseExpired"
    ELSE "ok"

\* Mutant: the expected head is not compared with the saved one.
RequireDocument(q) == IF db.docs[q.doc] = NoDoc THEN "DocumentNotFound" ELSE "ok"

\* kernel::require_head of a document that must exist.
RequireHead(q) ==
    IF db.docs[q.doc] = NoDoc THEN "DocumentNotFound"
    ELSE IF HeadOf(db.docs[q.doc]) # q.expected THEN "VersionConflict"
    ELSE "ok"

-----------------------------------------------------------------------------
\* Document commands.

\* OwnedProject::create_document; a replay answers the current record.
CreatePayload(q) == [title |-> q.title, body |-> q.body]
CreateDocument(q) ==
    LET spent == Spent(q, "createDocument", CreatePayload(q))
        inserted == [db EXCEPT
            !.docs[q.doc] = [title |-> q.title, meta |-> 0, version |-> 0,
                             body |-> q.body, last |-> -1],
            !.epoch = @ + 1]
    IN  IF CheckAccess(q.access) # "ok" THEN Refused(CheckAccess(q.access))
        ELSE IF spent = "replay"
        THEN Transact(db, [code |-> "ok", head |-> HeadOf(db.docs[q.doc])])
        ELSE IF spent # "absent" THEN Refused(spent)
        ELSE IF db.docs[q.doc] # NoDoc THEN Refused("PersistenceUnavailable")
        ELSE Transact(InsertReceipt(inserted, q, "createDocument", CreatePayload(q)),
                      [code |-> "ok", head |-> HeadOf(inserted.docs[q.doc])])

\* Mutant: undo and redo keep the revision before the change only.
SaveRowsOneSide(q) ==
    LET before == IF q.cause = "typing" THEN db ELSE CheckpointAt(db, q.doc)
    IN  IF q.body = db.docs[q.doc].body THEN db ELSE WriteBody(before, q.doc, q.body)

\* The rows OwnedProject::save leaves: nothing new when the body is the one
\* already saved; undo and redo keep the revisions on either side.
SaveRows(q) ==
    LET before == IF q.cause = "typing" THEN db ELSE CheckpointAt(db, q.doc)
        after == WriteBody(before, q.doc, q.body)
    IN  IF q.body = db.docs[q.doc].body THEN db
        ELSE IF q.cause = "typing" THEN after
        ELSE CheckpointAt(after, q.doc)

\* OwnedProject::save.
SavePayload(q) == [expected |-> q.expected, body |-> q.body, gen |-> q.gen,
                   cause |-> q.cause]
Save(q) ==
    LET spent == Spent(q, "save", SavePayload(q))
        next == InsertReceipt(SaveRows(q), q, "save", SavePayload(q))
        ack(head) == [code |-> "ok", head |-> head, gen |-> q.gen]
    IN  IF CheckAccess(q.access) # "ok" THEN Refused(CheckAccess(q.access))
        ELSE IF spent = "replay" THEN Transact(db, ack(db.receipts[q.op].head))
        ELSE IF spent # "absent" THEN Refused(spent)
        ELSE IF RequireHead(q) # "ok" THEN Refused(RequireHead(q))
        ELSE IF q.body # q.expected.body /\ q.expected.version = VersionLimit
        THEN Refused("VersionLimit")
        ELSE Transact(next, ack(next.receipts[q.op].head))

\* OwnedProject::checkpoint.
Checkpoint(q) ==
    IF CheckAccess(q.access) # "ok" THEN Refused(CheckAccess(q.access))
    ELSE IF RequireHead(q) # "ok" THEN Refused(RequireHead(q))
    ELSE Transact(CheckpointAt(db, q.doc), [code |-> "ok", head |-> q.expected])

\* documents::history::restore_revision.  q.revision is the version at which
\* the chosen revision was taken, q.body the body its fingerprint names.
RestoreRows(q) ==
    CheckpointAt(WriteBody(CheckpointAt(db, q.doc), q.doc, q.body), q.doc)
RestorePayload(q) == [expected |-> q.expected, body |-> q.body, gen |-> q.gen,
                      revision |-> q.revision]
RestoreRevision(q) ==
    LET spent == Spent(q, "restore", RestorePayload(q))
        revision == db.revisions[q.doc][q.revision]
        next == InsertReceipt(RestoreRows(q), q, "restore", RestorePayload(q))
        ack(s) == [code |-> "ok", head |-> s.receipts[q.op].head, gen |-> q.gen,
                   document |-> HeadOf(s.docs[q.doc])]
    IN  IF CheckAccess(q.access) # "ok" THEN Refused(CheckAccess(q.access))
        ELSE IF spent = "replay" THEN Transact(db, ack(db))
        ELSE IF spent # "absent" THEN Refused(spent)
        ELSE IF RequireHead(q) # "ok" THEN Refused(RequireHead(q))
        ELSE IF revision = NoRevision THEN Refused("RevisionNotFound")
        ELSE IF revision.body # q.body THEN Refused("RevisionHashMismatch")
        ELSE IF q.body = q.expected.body THEN Refused("NoChanges")
        ELSE IF q.expected.version = VersionLimit THEN Refused("VersionLimit")
        ELSE Transact(next, ack(next))

\* OwnedProject::save_view_state: no receipt, no new context epoch.
SaveViewState(q) ==
    IF CheckAccess(q.access) # "ok" THEN Refused(CheckAccess(q.access))
    ELSE IF RequireHead(q) # "ok" THEN Refused(RequireHead(q))
    ELSE Transact([db EXCEPT !.view = [doc |-> q.doc, head |-> q.expected]],
                  [code |-> "ok", head |-> q.expected])

-----------------------------------------------------------------------------
\* Metadata commands.

\* OwnedProject::rename_document.
RenameDocument(q) ==
    LET doc == db.docs[q.doc]
        renamed == [db EXCEPT !.docs[q.doc].title = q.title,
                              !.docs[q.doc].meta = @ + 1, !.epoch = @ + 1]
    IN  IF CheckAccess(q.access) # "ok" THEN Refused(CheckAccess(q.access))
        ELSE IF doc = NoDoc THEN Refused("DocumentNotFound")
        ELSE IF doc.meta # q.meta THEN Refused("MetadataConflict")
        ELSE IF doc.title = q.title THEN Refused("ok")
        ELSE Transact(renamed, [code |-> "ok"])

\* OwnedProject::rename_project: the marker is written after the commit, and a
\* marker that cannot be written leaves the new title committed but uncertain.
RenameProject(q) ==
    LET renamed == [db EXCEPT !.title = q.title, !.meta = @ + 1, !.epoch = @ + 1]
        done == [db |-> [renamed EXCEPT !.marker = q.title], mem |-> mem,
                 reply |-> [code |-> "ok"]]
    IN  IF CheckAccess(q.access) # "ok" THEN Refused(CheckAccess(q.access))
        ELSE IF db.meta # q.meta THEN Refused("MetadataConflict")
        ELSE IF db.title = q.title THEN Refused("ok")
        ELSE {done} \cup {o \in Transact(renamed, [code |-> "ok"]) :
                            o.reply.code # "ok"}

-----------------------------------------------------------------------------
\* Attachment, reconciliation and recovery of the connection.

\* OwnedProject::recover_connection: the memory it leaves and its code.  The
\* old connection may refuse to close, and the new one may fail to open.
RecoverConnection ==
    IF ~mem.needsReopen THEN {[mem |-> mem, code |-> "ok"]}
    ELSE {[mem |-> mem, code |-> "PersistenceUnavailable"],
          [mem |-> [mem EXCEPT !.connected = FALSE],
           code |-> "PersistenceUnavailable"],
          [mem |-> [mem EXCEPT !.connected = TRUE, !.needsReopen = FALSE],
           code |-> "ok"]}

\* Mutant: a replaced session may attach again.
AttachCodeForgets(m, s) == IF m.needsReopen THEN "UncertainOutcome" ELSE "ok"

\* OwnedProject::attach from memory m: another session retires the one it
\* replaces, and the lease is new.
AttachCode(m, s) ==
    IF s \in m.retired THEN "WriterLeaseExpired"
    ELSE IF m.needsReopen THEN "UncertainOutcome"
    ELSE "ok"
NewAccess(s) == [session |-> s, lease |-> leases + 1]
Attached(m, s) ==
    [m EXCEPT !.retired = IF m.renderer \in {None, s} THEN @ ELSE @ \cup {m.renderer},
              !.renderer = s,
              !.access = NewAccess(s)]
Answer(m, reply) == [db |-> db, mem |-> m, reply |-> reply]

Attach(s) ==
    IF AttachCode(mem, s) # "ok" THEN Refused(AttachCode(mem, s))
    ELSE {Answer(Attached(mem, s), [code |-> "ok", access |-> NewAccess(s)])}

\* OwnedProject::attach_snapshot: everything is read before the lease is taken.
AttachSnapshot(s) ==
    UNION {IF r.code # "ok" THEN {Answer(r.mem, [code |-> r.code])}
           ELSE IF AttachCode(r.mem, s) # "ok"
           THEN {Answer(r.mem, [code |-> AttachCode(r.mem, s)])}
           ELSE {Answer(r.mem, [code |-> "PersistenceUnavailable"]),
                 Answer(Attached(r.mem, s),
                        [code |-> "ok", access |-> NewAccess(s), docs |-> db.docs])}
           : r \in RecoverConnection}

\* OwnedProject::reconcile: fence first, then read the document and the receipt
\* of the pending operation.  A read that fails leaves the lease rotated.
Reconcile(q) ==
    LET found == IF q.op = None THEN NoReceipt
                 ELSE IF db.receipts[q.op] = NoReceipt THEN NoReceipt
                 ELSE IF db.receipts[q.op].doc # q.doc THEN NoReceipt
                 ELSE db.receipts[q.op]
        answered == [code |-> "ok", access |-> NewAccess(q.session),
                     head |-> HeadOf(db.docs[q.doc]), receipt |-> found]
    IN  UNION {IF r.code # "ok" THEN {Answer(r.mem, [code |-> r.code])}
               ELSE IF AttachCode(r.mem, q.session) # "ok"
               THEN {Answer(r.mem, [code |-> AttachCode(r.mem, q.session)])}
               ELSE IF db.docs[q.doc] = NoDoc
               THEN {Answer(Attached(r.mem, q.session), [code |-> "DocumentNotFound"])}
               ELSE {Answer(Attached(r.mem, q.session), answered),
                     Answer(Attached(r.mem, q.session),
                            [code |-> "PersistenceUnavailable"])}
               : r \in RecoverConnection}

\* The project_metadata command only recovers the connection and reads.
ReadMetadata == {Answer(r.mem, [code |-> r.code]) : r \in RecoverConnection}

\* OwnedProject::open_direct, as far as the memory of a new thread goes.
OpenedMem == [access |-> NoAccess, renderer |-> None, retired |-> {},
              needsReopen |-> FALSE, connected |-> TRUE]

=============================================================================
