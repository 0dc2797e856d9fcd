--------------------------- MODULE ProjectService ---------------------------
(***************************************************************************)
(* The project actor served to arbitrary callers, with the properties its  *)
(* receipts, leases, revisions and epoch must keep.  A caller may send any *)
(* request under any access the actor ever issued, so a call that was      *)
(* delayed, sent twice or overtaken is one of the steps below.  The thread *)
(* may die between any two commands and be opened again.                   *)
(***************************************************************************)
EXTENDS ProjectActor

VARIABLES
    writer,  \* history: the lease under which each receipt was inserted
    absent   \* history: what reconcile answered, [op, lease] without receipt

vars == <<db, mem, leases, writer, absent>>

\* Apply an outcome of a handler called under lease l.
Apply(o, l) ==
    /\ db' = o.db
    /\ mem' = o.mem
    /\ leases' = IF o.mem.access.lease > leases THEN o.mem.access.lease ELSE leases
    /\ writer' = [op \in Ops |->
                    IF db.receipts[op] = NoReceipt /\ o.db.receipts[op] # NoReceipt
                    THEN l ELSE writer[op]]

\* Every access the actor issued, now current or not.
Issued == {a \in Access : a.lease <= leases}

InitDb ==
    [docs |-> [d \in Docs |-> NoDoc],
     receipts |-> [op \in Ops |-> NoReceipt],
     revisions |-> [d \in Docs |-> [v \in Versions |-> NoRevision]],
     epoch |-> 0, title |-> CHOOSE t \in Titles : TRUE, meta |-> 0,
     marker |-> CHOOSE t \in Titles : TRUE, view |-> NoView]

Init ==
    /\ db = InitDb
    /\ mem = OpenedMem
    /\ leases = 0
    /\ writer = [op \in Ops |-> 0]
    /\ absent = {}

DoCreate ==
    \E a \in Issued, op \in Ops, d \in Docs, t \in Titles, b \in Bodies :
    \E o \in CreateDocument([access |-> a, op |-> op, doc |-> d, title |-> t,
                             body |-> b]) :
        Apply(o, a.lease) /\ UNCHANGED absent

DoSave ==
    \E a \in Issued, op \in Ops, d \in Docs, e \in Heads, b \in Bodies,
       g \in Generations, c \in Causes :
    \E o \in Save([access |-> a, op |-> op, doc |-> d, expected |-> e, body |-> b,
                   gen |-> g, cause |-> c]) :
        Apply(o, a.lease) /\ UNCHANGED absent

DoCheckpoint ==
    \E a \in Issued, d \in Docs, e \in Heads :
    \E o \in Checkpoint([access |-> a, doc |-> d, expected |-> e]) :
        Apply(o, a.lease) /\ UNCHANGED absent

DoRestore ==
    \E a \in Issued, op \in Ops, d \in Docs, e \in Heads, b \in Bodies,
       g \in Generations, v \in Versions :
    \E o \in RestoreRevision([access |-> a, op |-> op, doc |-> d, expected |-> e,
                              body |-> b, gen |-> g, revision |-> v]) :
        Apply(o, a.lease) /\ UNCHANGED absent

DoSaveView ==
    \E a \in Issued, d \in Docs, e \in Heads :
    \E o \in SaveViewState([access |-> a, doc |-> d, expected |-> e]) :
        Apply(o, a.lease) /\ UNCHANGED absent

DoRenameDocument ==
    \E a \in Issued, d \in Docs, t \in Titles, m \in 0..(MetaLimit - 1) :
    \E o \in RenameDocument([access |-> a, doc |-> d, title |-> t, meta |-> m]) :
        Apply(o, a.lease) /\ UNCHANGED absent

DoRenameProject ==
    \E a \in Issued, t \in Titles, m \in 0..(MetaLimit - 1) :
    \E o \in RenameProject([access |-> a, title |-> t, meta |-> m]) :
        Apply(o, a.lease) /\ UNCHANGED absent

DoAttach ==
    /\ leases < LeaseLimit
    /\ \E s \in Sessions : \E o \in Attach(s) : Apply(o, 0)
    /\ UNCHANGED absent

DoAttachSnapshot ==
    /\ leases < LeaseLimit
    /\ \E s \in Sessions : \E o \in AttachSnapshot(s) : Apply(o, 0)
    /\ UNCHANGED absent

DoReconcile ==
    /\ leases < LeaseLimit
    /\ \E s \in Sessions, d \in Docs, op \in Ops \cup {None} :
       \E o \in Reconcile([session |-> s, doc |-> d, op |-> op]) :
        /\ Apply(o, 0)
        /\ absent' = IF op # None /\ o.reply.code = "ok" /\ o.reply.receipt = NoReceipt
                        /\ db.receipts[op] = NoReceipt
                     THEN absent \cup {[op |-> op, lease |-> o.reply.access.lease]}
                     ELSE absent

DoReadMetadata == \E o \in ReadMetadata : Apply(o, 0) /\ UNCHANGED absent

\* The process dies, or the handle is dropped, and the project is opened again.
Restart ==
    /\ mem' = OpenedMem
    /\ UNCHANGED <<db, leases, writer, absent>>

Next ==
    \/ DoCreate \/ DoSave \/ DoCheckpoint \/ DoRestore \/ DoSaveView
    \/ DoRenameDocument \/ DoRenameProject
    \/ DoAttach \/ DoAttachSnapshot \/ DoReconcile \/ DoReadMetadata
    \/ Restart

Spec == Init /\ [][Next]_vars
-----------------------------------------------------------------------------
\* Types.

Doc == [title : Titles, meta : 0..MetaLimit, version : Versions, body : Bodies,
        last : Versions \cup {-1}]
Revision == [body : Bodies, parent : Versions \cup {-1}]
Payload == [title : Titles, body : Bodies]
           \cup [expected : Heads, body : Bodies, gen : Generations, cause : Causes]
           \cup [expected : Heads, body : Bodies, gen : Generations, revision : Versions]
Receipt == [kind : {"createDocument", "save", "restore"}, doc : Docs,
            payload : Payload, head : Heads]

Db == [docs : [Docs -> Doc \cup {NoDoc}],
       receipts : [Ops -> Receipt \cup {NoReceipt}],
       revisions : [Docs -> [Versions -> Revision \cup {NoRevision}]],
       epoch : Nat, title : Titles, meta : 0..MetaLimit, marker : Titles,
       view : [doc : Docs, head : Heads] \cup {NoView}]
Mem == [access : Access \cup {NoAccess}, renderer : Sessions \cup {None},
        retired : SUBSET Sessions, needsReopen : BOOLEAN, connected : BOOLEAN]

\* What the rows and the memory of the actor (projects.rs, storage) may hold.
TypeOK ==
    /\ db \in Db
    /\ mem \in Mem
    /\ leases \in 0..LeaseLimit
    /\ writer \in [Ops -> 0..LeaseLimit]
    /\ absent \subseteq [op : Ops, lease : 1..LeaseLimit]

-----------------------------------------------------------------------------
\* Safety.

\* The receipt op moved document d to version v: a create to version 0, a save
\* or a restore from its expected version v - 1.
Rung(op, d, v) ==
    /\ db.receipts[op] # NoReceipt
    /\ db.receipts[op].doc = d
    /\ db.receipts[op].head.version = v
    /\ IF db.receipts[op].kind = "createDocument" THEN v = 0
       ELSE db.receipts[op].payload.expected.version = v - 1

\* Each version of a document was made by exactly one operation, whatever was
\* retried, replayed, left uncertain or interrupted by a crash (save,
\* create_document, restore_revision and existing_receipt): an operation
\* takes effect at most once, and no version lacks the receipt that a
\* reconciling caller would look for.
OneOperationPerVersion ==
    \A d \in Docs : db.docs[d] # NoDoc =>
        \A v \in Versions :
            /\ v <= db.docs[d].version => \E op \in Ops : Rung(op, d, v)
            /\ \A p, q \in Ops : Rung(p, d, v) /\ Rung(q, d, v) => p = q

\* What a receipt says its operation left (save's StoredResult) is the body it
\* was asked to leave and a head the document really had: no later than the
\* current one, equal to it at the current version, and equal for any two
\* receipts of the same version.
ReceiptsTellHistory ==
    \A p \in Ops : db.receipts[p] # NoReceipt =>
        LET r == db.receipts[p] IN
        /\ db.docs[r.doc] # NoDoc
        /\ r.head.body = r.payload.body
        /\ r.head.version <= db.docs[r.doc].version
        /\ r.head.version = db.docs[r.doc].version => r.head = HeadOf(db.docs[r.doc])
        /\ \A q \in Ops : db.receipts[q] # NoReceipt /\ db.receipts[q].doc = r.doc
              /\ db.receipts[q].head.version = r.head.version
              => db.receipts[q].head = r.head

\* A revision (checkpoint_at) keeps the body the document had at its version,
\* as the receipts tell it, and its parent is the revision taken just before,
\* so walking the parents from last_checkpoint_id visits all of them.
RevisionsTellHistory ==
    \A d \in Docs : \A v \in Versions : db.revisions[d][v] # NoRevision =>
        LET r == db.revisions[d][v]
            earlier == {w \in 0..(v - 1) : db.revisions[d][w] # NoRevision}
        IN  /\ \A op \in Ops : Rung(op, d, v) => db.receipts[op].head.body = r.body
            /\ v <= db.docs[d].last /\ db.docs[d].last <= db.docs[d].version
            /\ IF earlier = {} THEN r.parent = -1
               ELSE r.parent \in earlier /\ \A w \in earlier : w <= r.parent

\* A body that an undo, a redo or a restore replaced can be brought back: both
\* sides of the change are revisions (save, restore_revision).
ReplacedBodiesKept ==
    \A op \in Ops, d \in Docs, v \in Versions \ {0} :
        /\ Rung(op, d, v)
        /\ db.receipts[op].kind = "restore" \/ db.receipts[op].payload.cause # "typing"
        => db.revisions[d][v - 1] # NoRevision /\ db.revisions[d][v] # NoRevision

\* Once reconcile answered under a lease that an operation left no receipt, no
\* call sent under an older lease can still commit it ("Fence first. Any
\* command still queued with an old lease now fails on execution").
FencedAbsence ==
    \A a \in absent : db.receipts[a.op] # NoReceipt => writer[a.op] >= a.lease

\* One writer: the access that may write is the last one issued, its session
\* was not replaced, and there is none while a commit is uncertain
\* (attach, check_access, fence_uncertain).
OneWriter ==
    /\ mem.access # NoAccess =>
        /\ mem.access.lease = leases
        /\ mem.access.session = mem.renderer
        /\ mem.renderer \notin mem.retired
        /\ ~mem.needsReopen
    /\ ~mem.connected => mem.needsReopen

\* Every change of the story written so far: the bodies and the new titles of the
\* documents, and the new titles of the project.
Written ==
    {<<"project", None, m>> : m \in 1..db.meta}
    \cup UNION {{<<"body", d, v>> : v \in 0..db.docs[d].version}
                \cup {<<"title", d, m>> : m \in 1..db.docs[d].meta}
                : d \in {x \in Docs : db.docs[x] # NoDoc}}

\* The context epoch counts the changes of the story: the versions, documents
\* and titles written so far.  A change without its bump would let a packet
\* compiled before it pass for current (context_source_epoch).
EpochCountsChanges == db.epoch = Cardinality(Written)

\* The saved reading position names a head its document really had
\* (save_view_state), so a caret is validated against the body it was taken in.
ViewTellsHistory ==
    db.view # NoView =>
        LET doc == db.docs[db.view.doc] IN
        /\ doc # NoDoc
        /\ db.view.head.version <= doc.version
        /\ db.view.head.version = doc.version => db.view.head = HeadOf(doc)
        /\ \A op \in Ops : Rung(op, db.view.doc, db.view.head.version)
              => db.receipts[op].head = db.view.head

\* What the stored rows must tell together, whatever was retried, replayed, left
\* uncertain or interrupted: one operation per version, receipts, revisions and
\* the reading position that agree with it, both sides of every replacement, and
\* an epoch that missed no change (save, restore_revision, checkpoint_at,
\* save_view_state, context_source_epoch).
RowsTellHistory ==
    /\ TypeOK
    /\ OneOperationPerVersion
    /\ ReceiptsTellHistory
    /\ RevisionsTellHistory
    /\ ReplacedBodiesKept
    /\ EpochCountsChanges
    /\ ViewTellsHistory
=============================================================================
