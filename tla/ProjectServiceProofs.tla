------------------------ MODULE ProjectServiceProofs ------------------------
(***************************************************************************)
(* Theorems about ProjectService for every set of documents, bodies,       *)
(* operations and sessions and every limit.                                *)
(***************************************************************************)
EXTENDS ProjectService, FiniteSetTheorems, TLAPS

-----------------------------------------------------------------------------
\* The two shapes of a handler's outcome.

\* A command under an access: it writes only when that access is the current
\* one, and it leaves the memory alone or fences it.
Writes(o, a) ==
    /\ o.mem \in {mem, Fenced(mem)}
    /\ o.db = db \/ (mem.access # NoAccess /\ mem.access = a)

\* A command of the attachment family: it never writes, and it keeps the
\* access it found or issues the next lease to a session that is not retired.
Issues(o) ==
    /\ o.db = db
    /\ o.mem \in Mem
    /\ \/ /\ o.mem.access = mem.access
          /\ o.mem.renderer = mem.renderer
          /\ o.mem.retired = mem.retired
          /\ mem.access # NoAccess => ~o.mem.needsReopen
       \/ \E s \in Sessions :
            /\ o.mem.access = NewAccess(s)
            /\ o.mem.renderer = s
            /\ s \notin o.mem.retired
            /\ ~o.mem.needsReopen
    /\ ~o.mem.connected => o.mem.needsReopen

\* create_document writes only under the current access.
LEMMA CreateWrites ==
    ASSUME NEW q, NEW o \in CreateDocument(q) PROVE Writes(o, q.access)
  BY DEF CreateDocument, Refused, Transact, CheckAccess, Writes

\* So does save.
LEMMA SaveWrites ==
    ASSUME NEW q, NEW o \in Save(q) PROVE Writes(o, q.access)
  BY DEF Save, Refused, Transact, CheckAccess, Writes

\* So does checkpoint.
LEMMA CheckpointWrites ==
    ASSUME NEW q, NEW o \in Checkpoint(q) PROVE Writes(o, q.access)
  BY DEF Checkpoint, Refused, Transact, CheckAccess, Writes

\* So does restore_revision.
LEMMA RestoreWrites ==
    ASSUME NEW q, NEW o \in RestoreRevision(q) PROVE Writes(o, q.access)
  BY DEF RestoreRevision, Refused, Transact, CheckAccess, Writes

\* So does save_view_state.
LEMMA ViewWrites ==
    ASSUME NEW q, NEW o \in SaveViewState(q) PROVE Writes(o, q.access)
  BY DEF SaveViewState, Refused, Transact, CheckAccess, Writes

\* So does rename_document.
LEMMA RenameDocumentWrites ==
    ASSUME NEW q, NEW o \in RenameDocument(q) PROVE Writes(o, q.access)
  BY DEF RenameDocument, Refused, Transact, CheckAccess, Writes

\* So does rename_project.
LEMMA RenameProjectWrites ==
    ASSUME NEW q, NEW o \in RenameProject(q) PROVE Writes(o, q.access)
  BY DEF RenameProject, Refused, Transact, CheckAccess, Writes

\* recover_connection issues no lease, and leaves no access without a reopened
\* connection.
LEMMA RecoverMem ==
    ASSUME mem \in Mem, OneWriter, NEW r \in RecoverConnection
    PROVE  /\ r.mem \in Mem
           /\ r.mem.access = mem.access
           /\ r.mem.renderer = mem.renderer
           /\ r.mem.retired = mem.retired
           /\ mem.access # NoAccess => ~r.mem.needsReopen
           /\ ~r.mem.connected => r.mem.needsReopen
  <1>1. CASE ~mem.needsReopen
    <2>1. r = [mem |-> mem, code |-> "ok"]
      BY <1>1 DEF RecoverConnection
    <2> QED
      BY <1>1, <2>1 DEF OneWriter
  <1>2. CASE mem.needsReopen
    <2>1. mem.access = NoAccess
      BY <1>2 DEF OneWriter
    <2>2. r.mem \in {mem, [mem EXCEPT !.connected = FALSE],
                     [mem EXCEPT !.connected = TRUE, !.needsReopen = FALSE]}
      BY <1>2 DEF RecoverConnection
    <2>3. CASE r.mem = mem
      BY <1>2, <2>1, <2>3
    <2>4. CASE r.mem = [mem EXCEPT !.connected = FALSE]
      BY <1>2, <2>1, <2>4 DEF Mem
    <2>5. CASE r.mem = [mem EXCEPT !.connected = TRUE, !.needsReopen = FALSE]
      BY <1>2, <2>1, <2>5 DEF Mem
    <2> QED
      BY <2>2, <2>3, <2>4, <2>5
  <1> QED
    BY <1>1, <1>2

\* attach issues the next lease to its session and retires the one it replaces.
LEMMA AttachedMem ==
    ASSUME NEW m \in Mem, NEW s \in Sessions, AttachCode(m, s) = "ok",
           leases \in 0..LeaseLimit, leases < LeaseLimit,
           ~m.connected => m.needsReopen
    PROVE  /\ Attached(m, s) \in Mem
           /\ Attached(m, s).access = NewAccess(s)
           /\ Attached(m, s).renderer = s
           /\ s \notin Attached(m, s).retired
           /\ ~Attached(m, s).needsReopen
           /\ ~Attached(m, s).connected => Attached(m, s).needsReopen
  <1>1. NewAccess(s) \in Access
    BY ActorConstants DEF NewAccess, Access
  <1>2. s \notin m.retired /\ ~m.needsReopen
    BY DEF AttachCode
  <1> QED
    BY <1>1, <1>2 DEF Attached, Mem

\* attach is of the attachment family.
LEMMA AttachIssues ==
    ASSUME mem \in Mem, OneWriter, leases \in 0..LeaseLimit, leases < LeaseLimit,
           NEW s \in Sessions, NEW o \in Attach(s)
    PROVE  Issues(o)
  <1>1. CASE AttachCode(mem, s) # "ok"
    BY <1>1 DEF Attach, Refused, Issues, OneWriter
  <1>2. CASE AttachCode(mem, s) = "ok"
    <2>1. ~mem.connected => mem.needsReopen
      BY DEF OneWriter
    <2> QED
      BY <1>2, <2>1, AttachedMem DEF Attach, Answer, Issues
  <1> QED
    BY <1>1, <1>2

\* So is attach_snapshot.
LEMMA AttachSnapshotIssues ==
    ASSUME mem \in Mem, OneWriter, leases \in 0..LeaseLimit, leases < LeaseLimit,
           NEW s \in Sessions, NEW o \in AttachSnapshot(s)
    PROVE  Issues(o)
  <1>1. PICK r \in RecoverConnection :
            \/ o.db = db /\ o.mem = r.mem
            \/ /\ AttachCode(r.mem, s) = "ok"
               /\ o.db = db /\ o.mem = Attached(r.mem, s)
    BY DEF AttachSnapshot, Answer
  <1> QED
    BY <1>1, RecoverMem, AttachedMem DEF Issues

\* So is reconcile.
LEMMA ReconcileIssues ==
    ASSUME mem \in Mem, OneWriter, leases \in 0..LeaseLimit, leases < LeaseLimit,
           NEW q, q.session \in Sessions, NEW o \in Reconcile(q)
    PROVE  Issues(o)
  <1>1. PICK r \in RecoverConnection :
            \/ o.db = db /\ o.mem = r.mem
            \/ /\ AttachCode(r.mem, q.session) = "ok"
               /\ o.db = db /\ o.mem = Attached(r.mem, q.session)
    BY DEF Reconcile, Answer
  <1> QED
    BY <1>1, RecoverMem, AttachedMem DEF Issues

\* So is the metadata read, which only recovers the connection.
LEMMA ReadMetadataIssues ==
    ASSUME mem \in Mem, OneWriter, NEW o \in ReadMetadata PROVE Issues(o)
  <1>1. PICK r \in RecoverConnection : o = Answer(r.mem, [code |-> r.code])
    BY DEF ReadMetadata
  <1>2. o.db = db /\ o.mem = r.mem
    BY <1>1 DEF Answer
  <1> QED
    BY <1>2, RecoverMem DEF Issues

-----------------------------------------------------------------------------
\* Leases and the fence.

\* The inductive invariant: one writer, and every answer of absence was given
\* under a lease already issued, no later than the writer of its receipt.
FenceInv ==
    /\ mem \in Mem
    /\ leases \in 0..LeaseLimit
    /\ writer \in [Ops -> 0..LeaseLimit]
    /\ absent \subseteq [op : Ops, lease : 1..LeaseLimit]
    /\ OneWriter
    /\ \A a \in absent : a.lease <= leases
    /\ FencedAbsence

\* A command under an access keeps the invariant: what it commits, it commits
\* under the last lease issued.
LEMMA WritesKeepFence ==
    ASSUME FenceInv, NEW a \in Access, NEW o, Writes(o, a), Apply(o, a.lease),
           UNCHANGED absent
    PROVE  FenceInv'
  <1> USE ActorConstants DEF FenceInv
  <1>1. mem' \in Mem /\ OneWriter' /\ leases' = leases
    <2>1. CASE o.mem = mem
      <3>1. mem' = mem
        BY <2>1 DEF Apply
      <3>2. mem.access.lease <= leases
        BY DEF Mem, OneWriter, NoAccess
      <3>3. leases' = leases
        BY <2>1, <3>2 DEF Apply, Mem, Access, NoAccess
      <3> QED
        BY <3>1, <3>3 DEF OneWriter
    <2>2. CASE o.mem = Fenced(mem)
      <3>1. mem' \in Mem /\ mem'.access = NoAccess /\ mem'.needsReopen
        BY <2>2 DEF Apply, Fenced, Mem
      <3>2. leases' = leases
        BY <2>2 DEF Apply, Fenced, Mem, NoAccess
      <3> QED
        BY <3>1, <3>2 DEF OneWriter
    <2> QED
      BY <2>1, <2>2 DEF Writes
  <1>2. a.lease \in 1..LeaseLimit
    BY DEF Access
  <1>3. writer' \in [Ops -> 0..LeaseLimit]
    BY <1>2 DEF Apply
  <1>4. ASSUME NEW b \in absent', db'.receipts[b.op] # NoReceipt
        PROVE  writer'[b.op] >= b.lease
    <2>1. b \in absent /\ b.op \in Ops /\ b.lease \in 1..LeaseLimit /\ b.lease <= leases
      BY <1>4
    <2>2. CASE db.receipts[b.op] # NoReceipt
      BY <2>1, <2>2 DEF FencedAbsence, Apply
    <2>3. CASE db.receipts[b.op] = NoReceipt
      <3>1. writer'[b.op] = a.lease
        BY <1>4, <2>1, <2>3 DEF Apply
      <3>2. mem.access # NoAccess /\ mem.access = a
        BY <1>4, <2>3 DEF Writes, Apply
      <3> QED
        BY <2>1, <3>1, <3>2 DEF OneWriter
    <2> QED
      BY <2>2, <2>3
  <1> QED
    BY <1>1, <1>3, <1>4 DEF FencedAbsence

\* news is empty, or the answer of absence reconcile gives under the new lease.
LEMMA IssuesKeepFence ==
    ASSUME FenceInv, NEW o, Issues(o),
           Apply(o, 0),
           absent' = absent
           \/ \E b \in [op : Ops, lease : 1..LeaseLimit] :
                /\ absent' = absent \cup {b}
                /\ b.lease <= leases'
                /\ db.receipts[b.op] = NoReceipt
    PROVE  FenceInv'
  <1> USE ActorConstants DEF FenceInv
  <1>1. mem' \in Mem /\ db' = db /\ writer' = writer
    BY DEF Issues, Apply
  <1>2. leases' \in 0..LeaseLimit /\ leases <= leases' /\ OneWriter'
    <2>1. mem'.access.lease \in 0..LeaseLimit
      BY <1>1 DEF Mem, Access, NoAccess
    <2>2. leases' = IF mem'.access.lease > leases THEN mem'.access.lease ELSE leases
      BY DEF Apply
    <2>3. leases' \in 0..LeaseLimit /\ leases <= leases'
      BY <2>1, <2>2
    <2>4. CASE /\ mem'.access = mem.access
               /\ mem'.renderer = mem.renderer
               /\ mem'.retired = mem.retired
               /\ mem.access # NoAccess => ~mem'.needsReopen
      <3>1. mem.access.lease <= leases
        BY DEF Mem, OneWriter, NoAccess
      <3>2. leases' = leases
        BY <2>1, <2>2, <2>4, <3>1
      <3>3. ~mem'.connected => mem'.needsReopen
        BY DEF Issues, Apply
      <3> QED
        BY <2>3, <2>4, <3>2, <3>3 DEF OneWriter
    <2>5. CASE \E s \in Sessions :
                 /\ mem'.access = NewAccess(s)
                 /\ mem'.renderer = s
                 /\ s \notin mem'.retired
                 /\ ~mem'.needsReopen
      <3>1. mem'.access.lease = leases + 1 /\ mem'.access.session = mem'.renderer
        BY <2>5 DEF NewAccess
      <3>2. leases' = leases + 1
        BY <2>2, <3>1
      <3>3. ~mem'.connected => mem'.needsReopen
        BY DEF Issues, Apply
      <3> QED
        BY <2>3, <2>5, <3>1, <3>2, <3>3 DEF OneWriter
    <2> QED
      BY <2>4, <2>5 DEF Issues, Apply
  <1>3. absent' \subseteq [op : Ops, lease : 1..LeaseLimit]
        /\ \A b \in absent' : b.lease <= leases'
    BY <1>2
  <1>4. FencedAbsence'
    BY <1>1 DEF FencedAbsence
  <1> QED
    BY <1>1, <1>2, <1>3, <1>4

\* Every command sent under an access is an outcome of the first shape.
LEMMA WriteSteps ==
    ASSUME DoCreate \/ DoSave \/ DoCheckpoint \/ DoRestore \/ DoSaveView
           \/ DoRenameDocument \/ DoRenameProject
    PROVE  /\ UNCHANGED absent
           /\ \E a \in Access : \E o : Writes(o, a) /\ Apply(o, a.lease)
  <1>1. CASE DoCreate
    BY <1>1, CreateWrites DEF DoCreate, Issued
  <1>2. CASE DoSave
    BY <1>2, SaveWrites DEF DoSave, Issued
  <1>3. CASE DoCheckpoint
    BY <1>3, CheckpointWrites DEF DoCheckpoint, Issued
  <1>4. CASE DoRestore
    BY <1>4, RestoreWrites DEF DoRestore, Issued
  <1>5. CASE DoSaveView
    BY <1>5, ViewWrites DEF DoSaveView, Issued
  <1>6. CASE DoRenameDocument
    BY <1>6, RenameDocumentWrites DEF DoRenameDocument, Issued
  <1>7. CASE DoRenameProject
    BY <1>7, RenameProjectWrites DEF DoRenameProject, Issued
  <1> QED
    BY <1>1, <1>2, <1>3, <1>4, <1>5, <1>6, <1>7

\* Every step keeps the invariant.
LEMMA FenceStep ==
    ASSUME FenceInv, [Next]_vars PROVE FenceInv'
  <1> USE ActorConstants
  <1>1. CASE DoCreate \/ DoSave \/ DoCheckpoint \/ DoRestore \/ DoSaveView
             \/ DoRenameDocument \/ DoRenameProject
    BY <1>1, WriteSteps, WritesKeepFence
  <1>2. CASE DoAttach
    BY <1>2, AttachIssues, IssuesKeepFence DEF DoAttach, FenceInv
  <1>3. CASE DoAttachSnapshot
    BY <1>3, AttachSnapshotIssues, IssuesKeepFence DEF DoAttachSnapshot, FenceInv
  <1>4. CASE DoReconcile
    <2>1. PICK s \in Sessions, d \in Docs, op \in Ops \cup {None} :
          \E o \in Reconcile([session |-> s, doc |-> d, op |-> op]) :
            /\ Apply(o, 0)
            /\ \/ absent' = absent
               \/ /\ op # None
                  /\ o.reply.code = "ok"
                  /\ db.receipts[op] = NoReceipt
                  /\ absent' = absent \cup {[op |-> op, lease |-> o.reply.access.lease]}
      BY <1>4 DEF DoReconcile
    <2> DEFINE q == [session |-> s, doc |-> d, op |-> op]
    <2>2. PICK o \in Reconcile(q) :
            /\ Apply(o, 0)
            /\ \/ absent' = absent
               \/ /\ op # None
                  /\ o.reply.code = "ok"
                  /\ db.receipts[op] = NoReceipt
                  /\ absent' = absent \cup {[op |-> op, lease |-> o.reply.access.lease]}
      BY <2>1
    <2>3. leases < LeaseLimit
      BY <1>4 DEF DoReconcile
    <2>4. Issues(o)
      BY <2>3, ReconcileIssues DEF FenceInv
    <2>5. CASE absent' = absent
      BY <2>2, <2>4, <2>5, IssuesKeepFence
    <2>6. CASE absent' # absent
      <3>1. o.reply.code = "ok" /\ op \in Ops /\ db.receipts[op] = NoReceipt
            /\ absent' = absent \cup {[op |-> op, lease |-> o.reply.access.lease]}
        BY <2>2, <2>6
      <3>2. PICK r \in RecoverConnection :
              /\ o.mem = Attached(r.mem, s)
              /\ o.reply.access = NewAccess(s)
        BY <3>1 DEF Reconcile, Answer
      <3>3. r.mem \in Mem
        BY RecoverMem DEF FenceInv
      <3>4. o.mem.access = NewAccess(s)
        BY <3>2, <3>3 DEF Attached, Mem
      <3>5. o.reply.access.lease = leases + 1 /\ leases' = leases + 1
        BY <2>2, <3>2, <3>4 DEF NewAccess, Apply, FenceInv
      <3>6. [op |-> op, lease |-> leases + 1] \in [op : Ops, lease : 1..LeaseLimit]
        BY <2>3, <3>1 DEF FenceInv
      <3> QED
        BY <2>2, <2>4, <3>1, <3>5, <3>6, IssuesKeepFence DEF FenceInv
    <2> QED
      BY <2>5, <2>6
  <1>5. CASE DoReadMetadata
    BY <1>5, ReadMetadataIssues, IssuesKeepFence DEF DoReadMetadata, FenceInv
  <1>6. CASE Restart
    BY <1>6 DEF Restart, FenceInv, FencedAbsence, OneWriter, OpenedMem, Mem, NoAccess
  <1>7. CASE UNCHANGED vars
    BY <1>7 DEF vars, FenceInv, FencedAbsence, OneWriter
  <1> QED
    BY <1>1, <1>2, <1>3, <1>4, <1>5, <1>6, <1>7 DEF Next

\* The invariant holds when the project is opened first.
LEMMA FenceInit ==
    ASSUME Init PROVE FenceInv
  BY ActorConstants
  DEF Init, FenceInv, FencedAbsence, OneWriter, OpenedMem, Mem, NoAccess

\* reconcile's fence holds for every number of documents, operations, renderer
\* sessions and leases: an operation reported absent under a lease is never
\* committed later by a call sent under an older one (projects.rs, "Fence
\* first"), through failed commits, crashes and replaced renderers.
THEOREM AbsenceIsFenced == Spec => []FencedAbsence
  <1>1. Init => FenceInv
    BY FenceInit
  <1>2. FenceInv /\ [Next]_vars => FenceInv'
    BY FenceStep
  <1>3. FenceInv => FencedAbsence
    BY DEF FenceInv
  <1> QED
    BY <1>1, <1>2, <1>3, PTL DEF Spec

\* The access check_access accepts is always the last one issued, of a session
\* not replaced, and there is none while a commit is uncertain.
THEOREM WriterIsUnique == Spec => []OneWriter
  <1>1. Init => FenceInv
    BY FenceInit
  <1>2. FenceInv /\ [Next]_vars => FenceInv'
    BY FenceStep
  <1>3. FenceInv => OneWriter
    BY DEF FenceInv
  <1> QED
    BY <1>1, <1>2, <1>3, PTL DEF Spec

-----------------------------------------------------------------------------
\* What the row operations write: w are rows s with a body written,
BodyWritten(s, d, b, w) ==
    /\ w \in Db
    /\ w.docs[d] \in Doc /\ \A x \in Docs \ {d} : w.docs[x] = s.docs[x]
    /\ w.docs[d].version = s.docs[d].version + 1 /\ w.docs[d].body = b
    /\ w.docs[d].meta = s.docs[d].meta /\ w.docs[d].last = s.docs[d].last
    /\ w.receipts = s.receipts /\ w.revisions = s.revisions /\ w.epoch = s.epoch + 1
    /\ w.title = s.title /\ w.meta = s.meta /\ w.marker = s.marker /\ w.view = s.view

\* with a checkpoint taken,
CheckpointTaken(s, d, w) ==
    /\ w \in Db
    /\ w.docs[d] \in Doc /\ \A x \in Docs \ {d} : w.docs[x] = s.docs[x]
    /\ w.docs[d].version = s.docs[d].version /\ w.docs[d].body = s.docs[d].body
    /\ w.docs[d].meta = s.docs[d].meta
    /\ \A x \in Docs \ {d} : w.revisions[x] = s.revisions[x]
    /\ \A v \in Versions \ {s.docs[d].version} : w.revisions[d][v] = s.revisions[d][v]
    /\ IF s.revisions[d][s.docs[d].version] # NoRevision
       THEN /\ w.revisions[d][s.docs[d].version] = s.revisions[d][s.docs[d].version]
            /\ w.docs[d].last = s.docs[d].last
       ELSE /\ w.revisions[d][s.docs[d].version] = [body |-> s.docs[d].body, parent |-> s.docs[d].last]
            /\ w.docs[d].last = s.docs[d].version
    /\ w.receipts = s.receipts /\ w.epoch = s.epoch
    /\ w.title = s.title /\ w.meta = s.meta /\ w.marker = s.marker /\ w.view = s.view

\* with a receipt left.
ReceiptLeft(s, q, kind, payload, w) ==
    /\ w \in Db
    /\ w.receipts[q.op] = [kind |-> kind, doc |-> q.doc, payload |-> payload, head |-> HeadOf(s.docs[q.doc])]
    /\ \A p \in Ops \ {q.op} : w.receipts[p] = s.receipts[p]
    /\ w.docs = s.docs /\ w.revisions = s.revisions /\ w.epoch = s.epoch
    /\ w.title = s.title /\ w.meta = s.meta /\ w.marker = s.marker /\ w.view = s.view

\* WriteBody moves one document to its next version.
LEMMA WriteBodyIs ==
    ASSUME NEW s \in Db, NEW d \in Docs, NEW b \in Bodies, s.docs[d] # NoDoc,
           s.docs[d].version < VersionLimit,
           NEW w, w = WriteBody(s, d, b)
    PROVE  BodyWritten(s, d, b, w)
  <1> USE ActorConstants DEF BodyWritten
  <1>1. s.docs \in [Docs -> Doc \cup {NoDoc}] /\ s.docs[d] \in Doc /\ s.epoch \in Nat
    BY DEF Db
  <1>2. PICK e \in Nat : e = s.epoch + 1
    BY <1>1
  <1>3. PICK doc \in Doc : doc = s.docs[d]
    BY <1>1
  <1>4. PICK n \in Versions : n = doc.version + 1
    BY <1>3 DEF Doc, Versions
  <1>5. PICK moved : moved = [doc EXCEPT !.version = n, !.body = b]
    OBVIOUS
  <1>6. moved \in Doc /\ moved.version = n /\ moved.body = b /\ moved.meta = doc.meta /\ moved.last = doc.last
    BY <1>5 DEF Doc
  <1>7. w = [s EXCEPT !.docs[d].version = n, !.docs[d].body = b, !.epoch = e]
    BY <1>1, <1>2, <1>3, <1>4 DEF WriteBody
  <1>8. w.docs = [s.docs EXCEPT ![d].version = n, ![d].body = b]
    BY <1>1, <1>7 DEF Db
  <1>9. w.docs = [s.docs EXCEPT ![d] = moved]
    BY <1>1, <1>3, <1>5, <1>8
  <1>10. PICK docs \in [Docs -> Doc \cup {NoDoc}] : docs = w.docs
    BY <1>1, <1>6, <1>9
  <1>11. /\ w.epoch = e /\ w.receipts = s.receipts /\ w.revisions = s.revisions
         /\ w.title = s.title /\ w.meta = s.meta /\ w.marker = s.marker /\ w.view = s.view
    BY <1>1, <1>7 DEF Db
  <1>12. w = [s EXCEPT !.docs = docs, !.epoch = e]
    BY <1>1, <1>7, <1>10 DEF Db
  <1>13. w \in Db
    BY <1>12 DEF Db
  <1> QED
    BY <1>1, <1>2, <1>3, <1>4, <1>6, <1>9, <1>11, <1>13

\* CheckpointAt keeps the revision it finds, or records the body under its version.
LEMMA CheckpointIs ==
    ASSUME NEW s \in Db, NEW d \in Docs, s.docs[d] # NoDoc,
           NEW w, w = CheckpointAt(s, d)
    PROVE  CheckpointTaken(s, d, w)
  <1> USE ActorConstants DEF CheckpointTaken
  <1>1. /\ s.docs \in [Docs -> Doc \cup {NoDoc}] /\ s.docs[d] \in Doc
        /\ s.revisions \in [Docs -> [Versions -> Revision \cup {NoRevision}]]
    BY DEF Db
  <1>2. PICK doc \in Doc : doc = s.docs[d]
    BY <1>1
  <1>3. CASE s.revisions[d][doc.version] # NoRevision
    <2>1. w = s
      BY <1>2, <1>3 DEF CheckpointAt
    <2> QED
      BY <1>1, <1>2, <1>3, <2>1
  <1>4. CASE s.revisions[d][doc.version] = NoRevision
    <2>1. PICK rev \in Revision : rev = [body |-> doc.body, parent |-> doc.last]
      BY DEF Revision, Doc
    <2>2. PICK kept : kept = [doc EXCEPT !.last = doc.version]
      OBVIOUS
    <2>3. kept \in Doc /\ kept.last = doc.version /\ kept.version = doc.version /\ kept.body = doc.body
          /\ kept.meta = doc.meta
      BY <2>2 DEF Doc
    <2>4. w = [s EXCEPT !.revisions[d][doc.version] = rev, !.docs[d].last = doc.version]
      BY <1>2, <1>4, <2>1 DEF CheckpointAt
    <2>5. w.docs = [s.docs EXCEPT ![d] = kept]
      BY <1>1, <1>2, <2>2, <2>4 DEF Db
    <2>6. doc.version \in Versions
      BY DEF Doc
    <2>7. PICK row : row = [s.revisions[d] EXCEPT ![doc.version] = rev]
      OBVIOUS
    <2>8. row \in [Versions -> Revision \cup {NoRevision}] /\ row[doc.version] = rev
          /\ \A v \in Versions \ {doc.version} : row[v] = s.revisions[d][v]
      BY <1>1, <2>6, <2>7
    <2>9. w.revisions = [s.revisions EXCEPT ![d] = row]
      BY <1>1, <2>4, <2>7 DEF Db
    <2>10. /\ w.epoch = s.epoch /\ w.receipts = s.receipts
           /\ w.title = s.title /\ w.meta = s.meta /\ w.marker = s.marker /\ w.view = s.view
      BY <1>1, <2>4 DEF Db
    <2>11. PICK docs \in [Docs -> Doc \cup {NoDoc}] : docs = w.docs
      BY <1>1, <2>3, <2>5
    <2>12. PICK revisions \in [Docs -> [Versions -> Revision \cup {NoRevision}]] : revisions = w.revisions
      BY <1>1, <2>8, <2>9
    <2>13. w = [s EXCEPT !.revisions = revisions, !.docs = docs]
      BY <1>1, <2>4, <2>11, <2>12 DEF Db
    <2>14. w \in Db
      BY <2>13 DEF Db
    <2> QED
      BY <1>1, <1>2, <1>4, <2>1, <2>3, <2>5, <2>8, <2>9, <2>10, <2>14
  <1> QED
    BY <1>3, <1>4

\* insert_receipt records what the operation asked and the head it left.
LEMMA InsertReceiptIs ==
    ASSUME NEW s \in Db, NEW q, q.op \in Ops, q.doc \in Docs, s.docs[q.doc] # NoDoc,
           NEW kind \in {"createDocument", "save", "restore"}, NEW payload \in Payload,
           NEW w, w = InsertReceipt(s, q, kind, payload)
    PROVE  ReceiptLeft(s, q, kind, payload, w)
  <1> USE ActorConstants DEF ReceiptLeft
  <1>1. s.receipts \in [Ops -> Receipt \cup {NoReceipt}] /\ s.docs[q.doc] \in Doc
    BY DEF Db
  <1>2. HeadOf(s.docs[q.doc]) \in Heads
    BY <1>1 DEF HeadOf, Heads, Doc
  <1>3. PICK rec : rec = [kind |-> kind, doc |-> q.doc, payload |-> payload, head |-> HeadOf(s.docs[q.doc])]
    OBVIOUS
  <1>4. rec \in Receipt
    BY <1>2, <1>3 DEF Receipt
  <1>5. w = [s EXCEPT !.receipts[q.op] = rec]
    BY <1>3 DEF InsertReceipt
  <1>6. PICK receipts \in [Ops -> Receipt \cup {NoReceipt}] : receipts = [s.receipts EXCEPT ![q.op] = rec]
    BY <1>1, <1>4
  <1>7. w = [s EXCEPT !.receipts = receipts]
    BY <1>5, <1>6
  <1>8. w \in Db /\ w.receipts = receipts
    BY <1>7 DEF Db
  <1>9. /\ w.docs = s.docs /\ w.revisions = s.revisions /\ w.epoch = s.epoch
        /\ w.title = s.title /\ w.meta = s.meta /\ w.marker = s.marker /\ w.view = s.view
    BY <1>7 DEF Db
  <1> QED
    BY <1>1, <1>3, <1>6, <1>8, <1>9

-----------------------------------------------------------------------------
\* The rows.

\* A document's last checkpoint is a revision no later than the document.
LastIsKept ==
    \A d \in Docs :
        /\ db.docs[d].last <= db.docs[d].version
        /\ db.docs[d].last # -1 => db.revisions[d][db.docs[d].last] # NoRevision

\* The inductive invariant of the rows.
RowsInv ==
    /\ db \in Db
    /\ LastIsKept
    /\ OneOperationPerVersion
    /\ ReceiptsTellHistory
    /\ RevisionsTellHistory
    /\ ReplacedBodiesKept
    /\ IsFiniteSet(Written) /\ EpochCountsChanges
    /\ ViewTellsHistory

\* What a step does to document d: the others are left alone.
OthersKept(d) ==
    \A x \in Docs \ {d} : db'.docs[x] = db.docs[x] /\ db'.revisions[x] = db.revisions[x]

\* Operation op left a receipt, and no other changed.
Recorded(op) == db.receipts[op] = NoReceipt /\ \A p \in Ops \ {op} : db'.receipts[p] = db.receipts[p]

\* create_document committed a document at version 0.
Created(d, op) ==
    /\ db.docs[d] = NoDoc /\ db'.docs[d] \in Doc /\ OthersKept(d) /\ Recorded(op)
    /\ db'.docs[d].version = 0 /\ db'.docs[d].meta = 0 /\ db'.docs[d].last = -1
    /\ db'.revisions = db.revisions
    /\ db'.receipts[op].kind = "createDocument" /\ db'.receipts[op].doc = d
    /\ db'.receipts[op].head = HeadOf(db'.docs[d])
    /\ db'.receipts[op].payload.body = db'.docs[d].body
    /\ db'.epoch = db.epoch + 1 /\ db'.meta = db.meta /\ db'.view = db.view

\* A save found the body it was to write.
Noted(d, op) ==
    /\ db.docs[d] # NoDoc /\ Recorded(op)
    /\ db'.docs = db.docs /\ db'.revisions = db.revisions
    /\ db'.receipts[op].kind = "save" /\ db'.receipts[op].doc = d
    /\ db'.receipts[op].head = HeadOf(db.docs[d])
    /\ db'.receipts[op].payload.expected = HeadOf(db.docs[d])
    /\ db'.receipts[op].payload.body = db.docs[d].body
    /\ db'.epoch = db.epoch /\ db'.meta = db.meta /\ db'.view = db.view

\* The revision a checkpoint leaves of document d as it was at version v.
KeptRevision(d, v) ==
    IF db.revisions[d][v] # NoRevision THEN db.revisions[d][v]
    ELSE [body |-> db.docs[d].body, parent |-> db.docs[d].last]

\* A save or a restore moved document d to its next version, between two
\* revisions or none.
Moved(d, op) ==
    LET v == db.docs[d].version
        r == db'.receipts[op]
    IN  /\ db.docs[d] # NoDoc /\ db'.docs[d] \in Doc /\ OthersKept(d) /\ Recorded(op)
        /\ db'.docs[d].version = v + 1 /\ db'.docs[d].meta = db.docs[d].meta
        /\ r.kind \in {"save", "restore"} /\ r.doc = d /\ r.head = HeadOf(db'.docs[d])
        /\ r.payload.expected = HeadOf(db.docs[d]) /\ r.payload.body = db'.docs[d].body
        /\ \A w \in Versions \ {v, v + 1} : db'.revisions[d][w] = db.revisions[d][w]
        /\ \/ /\ r.kind = "save" /\ r.payload.cause = "typing"
              /\ db'.revisions[d] = db.revisions[d] /\ db'.docs[d].last = db.docs[d].last
           \/ /\ db'.revisions[d][v] = KeptRevision(d, v)
              /\ db'.revisions[d][v + 1] = [body |-> db'.docs[d].body, parent |-> v]
              /\ db'.docs[d].last = v + 1
        /\ db'.epoch = db.epoch + 1 /\ db'.meta = db.meta /\ db'.view = db.view

\* A checkpoint kept the current body of document d.
Checkpointed(d) ==
    LET v == db.docs[d].version IN
    /\ db.docs[d] # NoDoc /\ db'.docs[d] \in Doc /\ OthersKept(d)
    /\ db'.docs[d].version = v /\ db'.docs[d].meta = db.docs[d].meta /\ db'.docs[d].body = db.docs[d].body
    /\ \A w \in Versions \ {v} : db'.revisions[d][w] = db.revisions[d][w]
    /\ db'.revisions[d][v] = KeptRevision(d, v)
    /\ db'.docs[d].last = IF db.revisions[d][v] # NoRevision THEN db.docs[d].last ELSE v
    /\ db'.receipts = db.receipts /\ db'.epoch = db.epoch /\ db'.meta = db.meta /\ db'.view = db.view

\* A reading position was saved, which names the current head of a document.
Viewed(d) ==
    /\ db.docs[d] # NoDoc /\ db'.docs = db.docs /\ db'.revisions = db.revisions
    /\ db'.view.doc = d /\ db'.view.head = HeadOf(db.docs[d])
    /\ db'.receipts = db.receipts /\ db'.epoch = db.epoch /\ db'.meta = db.meta

\* A document was renamed.
Renamed(d) ==
    /\ db.docs[d] # NoDoc /\ db'.docs[d] \in Doc /\ OthersKept(d) /\ db'.revisions = db.revisions
    /\ db'.docs[d].meta = db.docs[d].meta + 1
    /\ db'.docs[d].version = db.docs[d].version /\ db'.docs[d].body = db.docs[d].body
    /\ db'.docs[d].last = db.docs[d].last
    /\ db'.receipts = db.receipts /\ db'.epoch = db.epoch + 1 /\ db'.meta = db.meta /\ db'.view = db.view

\* The project was renamed.
Retitled ==
    /\ db'.docs = db.docs /\ db'.revisions = db.revisions /\ db'.receipts = db.receipts
    /\ db'.epoch = db.epoch + 1 /\ db'.meta = db.meta + 1 /\ db'.view = db.view

-----------------------------------------------------------------------------
\* Each change of the rows keeps the invariant.

\* A set of changes that grew by one new change.
LEMMA OneMoreWritten ==
    ASSUME IsFiniteSet(Written), EpochCountsChanges, db' \in Db, db \in Db,
           \/ Written' = Written /\ db'.epoch = db.epoch
           \/ \E c : c \notin Written /\ Written' = Written \cup {c} /\ db'.epoch = db.epoch + 1
    PROVE  IsFiniteSet(Written)' /\ EpochCountsChanges'
  <1>1. CASE Written' = Written /\ db'.epoch = db.epoch
    BY <1>1 DEF EpochCountsChanges
  <1>2. ASSUME NEW c, c \notin Written, Written' = Written \cup {c}, db'.epoch = db.epoch + 1
        PROVE  IsFiniteSet(Written)' /\ EpochCountsChanges'
    <2>1. PICK S : S = Written
      OBVIOUS
    <2>2. IsFiniteSet(S \cup {c}) /\ Cardinality(S \cup {c}) = Cardinality(S) + 1
      BY <1>2, <2>1, FS_AddElement
    <2> QED
      BY <1>2, <2>1, <2>2 DEF EpochCountsChanges
  <1> QED
    BY <1>1, <1>2

\* create_document keeps the invariant: the document is new, so are its version,
\* its receipt and its change.
LEMMA CreatedKeeps ==
    ASSUME RowsInv, db' \in Db, NEW d \in Docs, NEW op \in Ops, Created(d, op)
    PROVE  RowsInv'
  <1> USE ActorConstants
  <1>1. /\ db.docs \in [Docs -> Doc \cup {NoDoc}] /\ db'.docs \in [Docs -> Doc \cup {NoDoc}]
        /\ db.receipts \in [Ops -> Receipt \cup {NoReceipt}] /\ db'.receipts \in [Ops -> Receipt \cup {NoReceipt}]
        /\ db.revisions \in [Docs -> [Versions -> Revision \cup {NoRevision}]]
    BY DEF RowsInv, Db
  <1>2. \A x \in Docs : db'.docs[x] # NoDoc <=> x = d \/ db.docs[x] # NoDoc
    BY DEF Created, OthersKept, Doc, NoDoc
  <1>3. \A p \in Ops : db.receipts[p] # NoReceipt => db.receipts[p].doc # d
    BY <1>1 DEF RowsInv, ReceiptsTellHistory, Created
  <1>3a. db'.receipts[op] # NoReceipt /\ db'.receipts[op].head.version = 0
         /\ db'.receipts[op].head.body = db'.docs[d].body
    BY DEF Created, HeadOf, NoReceipt, None
  <1>4. \A p \in Ops, x \in Docs, v \in Versions :
          Rung(p, x, v)' <=> Rung(p, x, v) \/ (p = op /\ x = d /\ v = 0)
    <2> TAKE p \in Ops, x \in Docs, v \in Versions
    <2>1. CASE p = op
      BY <1>3a, <2>1 DEF Rung, Created, Recorded
    <2>2. CASE p # op
      BY <2>2 DEF Rung, Created, Recorded
    <2> QED
      BY <2>1, <2>2
  <1>5. LastIsKept'
    BY <1>1 DEF LastIsKept, RowsInv, Created, OthersKept
  <1>6. OneOperationPerVersion'
    <2> SUFFICES ASSUME NEW x \in Docs, db'.docs[x] # NoDoc, NEW v \in Versions
                 PROVE  /\ v <= db'.docs[x].version => \E p \in Ops : Rung(p, x, v)'
                        /\ \A p, q \in Ops : Rung(p, x, v)' /\ Rung(q, x, v)' => p = q
      BY DEF OneOperationPerVersion
    <2>1. CASE x = d
      <3>1. \A p \in Ops : ~Rung(p, x, v)
        BY <1>3, <2>1 DEF Rung
      <3>2. v <= db'.docs[x].version => v = 0
        BY <2>1 DEF Created, Versions
      <3> QED
        BY <1>4, <2>1, <3>1, <3>2
    <2>2. CASE x # d
      BY <1>4, <2>2 DEF OneOperationPerVersion, RowsInv, Created, OthersKept
    <2> QED
      BY <2>1, <2>2
  <1>7. ReceiptsTellHistory'
    <2> SUFFICES ASSUME NEW p \in Ops, db'.receipts[p] # NoReceipt
                 PROVE  /\ db'.docs[db'.receipts[p].doc] # NoDoc
                        /\ db'.receipts[p].head.body = db'.receipts[p].payload.body
                        /\ db'.receipts[p].head.version <= db'.docs[db'.receipts[p].doc].version
                        /\ db'.receipts[p].head.version = db'.docs[db'.receipts[p].doc].version
                             => db'.receipts[p].head = HeadOf(db'.docs[db'.receipts[p].doc])
                        /\ \A q \in Ops : db'.receipts[q] # NoReceipt /\ db'.receipts[q].doc = db'.receipts[p].doc
                              /\ db'.receipts[q].head.version = db'.receipts[p].head.version
                              => db'.receipts[q].head = db'.receipts[p].head
      BY DEF ReceiptsTellHistory
    <2>1. CASE p = op
      BY <1>1, <1>2, <1>3, <1>3a, <2>1 DEF Created, Recorded
    <2>2. CASE p # op
      <3>1. db'.receipts[p] = db.receipts[p] /\ db.receipts[p].doc # d /\ db.receipts[p].doc \in Docs
        BY <1>1, <1>3, <2>2 DEF Created, Recorded, Receipt
      <3>2. db'.docs[db.receipts[p].doc] = db.docs[db.receipts[p].doc]
        BY <3>1 DEF Created, OthersKept
      <3>3. \A q \in Ops : db'.receipts[q].doc = db.receipts[p].doc => db'.receipts[q] = db.receipts[q]
        BY <3>1 DEF Created, Recorded
      <3> QED
        BY <3>1, <3>2, <3>3 DEF RowsInv, ReceiptsTellHistory
    <2> QED
      BY <2>1, <2>2
  <1>8. RevisionsTellHistory'
    <2> SUFFICES ASSUME NEW x \in Docs, NEW v \in Versions, db'.revisions[x][v] # NoRevision
                 PROVE  LET r == db'.revisions[x][v]
                            earlier == {w \in 0..(v - 1) : db'.revisions[x][w] # NoRevision}
                        IN  /\ \A p \in Ops : Rung(p, x, v)' => db'.receipts[p].head.body = r.body
                            /\ v <= db'.docs[x].last /\ db'.docs[x].last <= db'.docs[x].version
                            /\ IF earlier = {} THEN r.parent = -1
                               ELSE r.parent \in earlier /\ \A w \in earlier : w <= r.parent
      BY DEF RevisionsTellHistory
    <2>1. db.revisions[x][v] # NoRevision /\ db'.revisions = db.revisions
      BY DEF Created
    <2>2. x # d
      BY <1>1, <2>1 DEF RowsInv, RevisionsTellHistory, Created, NoDoc, Versions
    <2>3. \A p \in Ops : Rung(p, x, v)' => Rung(p, x, v) /\ db'.receipts[p] = db.receipts[p]
      BY <1>4, <2>2 DEF Created, Recorded, Rung
    <2> QED
      BY <2>1, <2>2, <2>3 DEF RowsInv, RevisionsTellHistory, Created, OthersKept
  <1>9. ReplacedBodiesKept'
    <2> SUFFICES ASSUME NEW p \in Ops, NEW x \in Docs, NEW v \in Versions \ {0}, Rung(p, x, v)',
                        db'.receipts[p].kind = "restore" \/ db'.receipts[p].payload.cause # "typing"
                 PROVE  db'.revisions[x][v - 1] # NoRevision /\ db'.revisions[x][v] # NoRevision
      BY DEF ReplacedBodiesKept
    <2>1. Rung(p, x, v) /\ p # op
      BY <1>4 DEF Rung, Created, Recorded
    <2> QED
      BY <2>1 DEF RowsInv, ReplacedBodiesKept, Created, Recorded
  <1>10. Written' = Written \cup {<<"body", d, 0>>} /\ <<"body", d, 0>> \notin Written
    BY <1>2 DEF Written, Created, OthersKept
  <1>11. ViewTellsHistory'
    <2> SUFFICES ASSUME db'.view # NoView
                 PROVE  /\ db'.docs[db'.view.doc] # NoDoc
                        /\ db'.view.head.version <= db'.docs[db'.view.doc].version
                        /\ db'.view.head.version = db'.docs[db'.view.doc].version
                             => db'.view.head = HeadOf(db'.docs[db'.view.doc])
                        /\ \A p \in Ops : Rung(p, db.view.doc, db.view.head.version)'
                             => db'.receipts[p].head = db'.view.head
      BY DEF ViewTellsHistory, Created, Rung
    <2>1. db'.view = db.view /\ db.view.doc \in Docs /\ db.view.doc # d /\ db.view.head.version \in Versions
      BY DEF Created, RowsInv, ViewTellsHistory, Db, Heads
    <2>2. \A p \in Ops : Rung(p, db.view.doc, db.view.head.version)'
             => Rung(p, db.view.doc, db.view.head.version) /\ db'.receipts[p] = db.receipts[p]
      <3>1. PICK x \in Docs, v \in Versions : x = db.view.doc /\ v = db.view.head.version
        BY <2>1
      <3>2. ASSUME NEW p \in Ops, Rung(p, x, v)' PROVE Rung(p, x, v) /\ db'.receipts[p] = db.receipts[p]
        BY <1>4, <2>1, <3>1, <3>2 DEF Created, Recorded, Rung
      <3> QED
        BY <2>1, <3>1, <3>2 DEF Rung
    <2> QED
      BY <2>1, <2>2 DEF RowsInv, ViewTellsHistory, Created, OthersKept
  <1>12. IsFiniteSet(Written)' /\ EpochCountsChanges'
    BY <1>10, OneMoreWritten DEF RowsInv, Created
  <1> QED
    BY <1>5, <1>6, <1>7, <1>8, <1>9, <1>11, <1>12 DEF RowsInv

\* A save that found its body keeps the invariant: its receipt tells the current head.
LEMMA NotedKeeps ==
    ASSUME RowsInv, db' \in Db, NEW d \in Docs, NEW op \in Ops, Noted(d, op)
    PROVE  RowsInv'
  <1> USE ActorConstants
  <1>1. /\ db.docs \in [Docs -> Doc \cup {NoDoc}] /\ db'.docs = db.docs /\ db'.revisions = db.revisions
        /\ db.receipts \in [Ops -> Receipt \cup {NoReceipt}] /\ db'.receipts \in [Ops -> Receipt \cup {NoReceipt}]
        /\ db'.meta = db.meta /\ db'.view = db.view
    BY DEF RowsInv, Db, Noted
  <1>2. db'.receipts[op] # NoReceipt /\ db'.receipts[op].head = HeadOf(db.docs[d])
        /\ db'.receipts[op].doc = d
        /\ db'.receipts[op].head.body = db'.receipts[op].payload.body
        /\ db'.receipts[op].head.version = db.docs[d].version /\ db.docs[d].version \in Versions
        /\ db'.receipts[op].payload.expected.version = db.docs[d].version
        /\ db'.receipts[op].kind = "save"
    BY <1>1 DEF Noted, HeadOf, NoReceipt, None, Doc
  <1>3. \A p \in Ops, x \in Docs, v \in Versions : Rung(p, x, v)' => Rung(p, x, v) /\ db'.receipts[p] = db.receipts[p]
    <2> TAKE p \in Ops, x \in Docs, v \in Versions
    <2>1. CASE p = op
      BY <1>2, <2>1 DEF Rung, Versions
    <2>2. CASE p # op
      BY <2>2 DEF Rung, Noted, Recorded
    <2> QED
      BY <2>1, <2>2
  <1>4. \A p \in Ops, x \in Docs, v \in Versions : Rung(p, x, v) => Rung(p, x, v)'
    BY DEF Rung, Noted, Recorded
  <1>5. LastIsKept'
    BY <1>1 DEF LastIsKept, RowsInv
  <1>6. OneOperationPerVersion'
    BY <1>1, <1>3, <1>4 DEF OneOperationPerVersion, RowsInv
  <1>7. ReceiptsTellHistory'
    <2> SUFFICES ASSUME NEW p \in Ops, db'.receipts[p] # NoReceipt
                 PROVE  /\ db'.docs[db'.receipts[p].doc] # NoDoc
                        /\ db'.receipts[p].head.body = db'.receipts[p].payload.body
                        /\ db'.receipts[p].head.version <= db'.docs[db'.receipts[p].doc].version
                        /\ db'.receipts[p].head.version = db'.docs[db'.receipts[p].doc].version
                             => db'.receipts[p].head = HeadOf(db'.docs[db'.receipts[p].doc])
                        /\ \A q \in Ops : db'.receipts[q] # NoReceipt /\ db'.receipts[q].doc = db'.receipts[p].doc
                              /\ db'.receipts[q].head.version = db'.receipts[p].head.version
                              => db'.receipts[q].head = db'.receipts[p].head
      BY DEF ReceiptsTellHistory
    <2>1. \A q \in Ops \ {op} : db'.receipts[q] = db.receipts[q]
      BY DEF Noted, Recorded
    <2>2. \A q \in Ops : db'.receipts[q] # NoReceipt /\ db'.receipts[q].doc = d
            /\ db'.receipts[q].head.version = db.docs[d].version => db'.receipts[q].head = HeadOf(db.docs[d])
      BY <1>2, <2>1 DEF RowsInv, ReceiptsTellHistory
    <2>3. CASE p = op
      BY <1>1, <1>2, <2>2, <2>3 DEF Noted, Versions
    <2>4. CASE p # op
      BY <1>1, <1>2, <2>1, <2>2, <2>4 DEF RowsInv, ReceiptsTellHistory
    <2> QED
      BY <2>3, <2>4
  <1>8. RevisionsTellHistory'
    BY <1>1, <1>3 DEF RevisionsTellHistory, RowsInv
  <1>9. ReplacedBodiesKept'
    BY <1>1, <1>3 DEF ReplacedBodiesKept, RowsInv
  <1>10. Written' = Written /\ db'.epoch = db.epoch
    BY <1>1 DEF Written, Noted
  <1>11. ViewTellsHistory'
    BY <1>1, <1>3 DEF ViewTellsHistory, RowsInv, Db, Heads
  <1>12. IsFiniteSet(Written)' /\ EpochCountsChanges'
    BY <1>10, OneMoreWritten DEF RowsInv
  <1> QED
    BY <1>5, <1>6, <1>7, <1>8, <1>9, <1>11, <1>12 DEF RowsInv

\* A checkpoint keeps the invariant: its revision holds the body of the current
\* version, after the last one.
LEMMA CheckpointedKeeps ==
    ASSUME RowsInv, db' \in Db, NEW d \in Docs, Checkpointed(d)
    PROVE  RowsInv'
  <1> USE ActorConstants
  <1>1. /\ db.docs \in [Docs -> Doc \cup {NoDoc}] /\ db.docs[d] \in Doc
        /\ db'.receipts = db.receipts /\ db'.meta = db.meta /\ db'.view = db.view
        /\ db.receipts \in [Ops -> Receipt \cup {NoReceipt}]
    BY DEF RowsInv, Db, Checkpointed
  <1>2. /\ \A x \in Docs : /\ db'.docs[x] # NoDoc <=> db.docs[x] # NoDoc
                           /\ db'.docs[x].version = db.docs[x].version /\ db'.docs[x].meta = db.docs[x].meta
                           /\ HeadOf(db'.docs[x]) = HeadOf(db.docs[x])
    BY DEF Checkpointed, OthersKept, Doc, NoDoc, HeadOf
  <1>3. \A p \in Ops : \A x, v : Rung(p, x, v)' <=> Rung(p, x, v)
    BY <1>1 DEF Rung
  <1>4. PICK v \in Versions : v = db.docs[d].version
    BY <1>1 DEF Doc
  <1>5. /\ \A w \in Versions : db'.revisions[d][w] # NoRevision <=> w = v \/ db.revisions[d][w] # NoRevision
        /\ \A w \in Versions : db.revisions[d][w] # NoRevision => db'.revisions[d][w] = db.revisions[d][w]
    BY <1>1, <1>4 DEF Checkpointed, KeptRevision, NoRevision, Doc, None
  <1>6. LastIsKept'
    <2> SUFFICES ASSUME NEW x \in Docs
                 PROVE  /\ db'.docs[x].last <= db'.docs[x].version
                        /\ db'.docs[x].last # -1 => db'.revisions[x][db'.docs[x].last] # NoRevision
      BY DEF LastIsKept
    <2>1. CASE x # d
      BY <2>1 DEF RowsInv, LastIsKept, Checkpointed, OthersKept
    <2>2. CASE x = d
      BY <1>1, <1>4, <1>5, <2>2 DEF RowsInv, LastIsKept, Checkpointed, Doc, Versions
    <2> QED
      BY <2>1, <2>2
  <1>7. OneOperationPerVersion' /\ ReceiptsTellHistory'
    <2>1. OneOperationPerVersion'
      BY <1>2, <1>3 DEF OneOperationPerVersion, RowsInv
    <2>2. ReceiptsTellHistory'
      BY <1>1, <1>2 DEF ReceiptsTellHistory, RowsInv, Receipt
    <2> QED
      BY <2>1, <2>2
  <1>8. RevisionsTellHistory'
    <2> SUFFICES ASSUME NEW x \in Docs, NEW w \in Versions, db'.revisions[x][w] # NoRevision
                 PROVE  LET r == db'.revisions[x][w]
                            earlier == {y \in 0..(w - 1) : db'.revisions[x][y] # NoRevision}
                        IN  /\ \A p \in Ops : Rung(p, x, w) => db.receipts[p].head.body = r.body
                            /\ w <= db'.docs[x].last /\ db'.docs[x].last <= db'.docs[x].version
                            /\ IF earlier = {} THEN r.parent = -1
                               ELSE r.parent \in earlier /\ \A y \in earlier : y <= r.parent
      BY <1>1, <1>3 DEF RevisionsTellHistory
    <2>1. CASE x # d
      BY <2>1 DEF RowsInv, RevisionsTellHistory, Checkpointed, OthersKept
    <2>2. CASE x = d /\ db.revisions[d][v] # NoRevision
      <3>1. \A y \in Versions : db'.revisions[d][y] = db.revisions[d][y]
        BY <1>4, <1>5, <2>2 DEF Checkpointed
      <3>2. \A y \in 0..(w - 1) : db'.revisions[d][y] = db.revisions[d][y]
        BY <3>1 DEF Versions
      <3>3. db'.docs[d].last = db.docs[d].last /\ db'.docs[d].version = db.docs[d].version
        BY <1>4, <2>2 DEF Checkpointed
      <3> QED
        BY <2>2, <3>1, <3>2, <3>3 DEF RowsInv, RevisionsTellHistory
    <2>3. CASE x = d /\ db.revisions[d][v] = NoRevision
      <3>1. db'.revisions[d][v] = [body |-> db.docs[d].body, parent |-> db.docs[d].last] /\ db'.docs[d].last = v
            /\ db'.docs[d].version = v
        BY <1>4, <2>3 DEF Checkpointed, KeptRevision
      <3>2. \A y \in Versions : db.revisions[d][y] # NoRevision => y <= db.docs[d].last /\ y < v
        <4> SUFFICES ASSUME NEW y \in Versions, db.revisions[d][y] # NoRevision
                     PROVE  y <= db.docs[d].last /\ y < v
          OBVIOUS
        <4>1. y <= db.docs[d].last /\ db.docs[d].last <= v
          BY <1>4 DEF RowsInv, RevisionsTellHistory
        <4>2. y # v /\ db.docs[d].last \in Int
          BY <1>1, <2>3 DEF Doc, Versions
        <4> QED
          BY <1>4, <4>1, <4>2 DEF Versions
      <3>3. \A y \in 0..(w - 1) : y \in Versions /\ (y # v => db'.revisions[d][y] = db.revisions[d][y])
        BY <1>4 DEF Checkpointed, Versions
      <3>4. CASE w # v
        <4>1. db.revisions[d][w] # NoRevision /\ w < v /\ db'.revisions[d][w] = db.revisions[d][w]
          BY <1>4, <1>5, <2>3, <3>2, <3>4
        <4>2. \A y \in 0..(w - 1) : db'.revisions[d][y] = db.revisions[d][y]
          BY <3>3, <4>1 DEF Versions
        <4> QED
          BY <1>4, <2>3, <3>1, <3>2, <4>1, <4>2 DEF RowsInv, RevisionsTellHistory, Versions
      <3>5. CASE w = v
        <4>1. \A p \in Ops : Rung(p, d, v) => db.receipts[p].head.body = db.docs[d].body
          <5> SUFFICES ASSUME NEW p \in Ops, Rung(p, d, v)
                       PROVE  db.receipts[p].head.body = db.docs[d].body
            OBVIOUS
          <5>1. db.receipts[p].head = HeadOf(db.docs[db.receipts[p].doc]) /\ db.receipts[p].doc = d
            BY <1>4 DEF RowsInv, ReceiptsTellHistory, Rung
          <5> QED
            BY <5>1 DEF HeadOf
        <4>2. \A y \in 0..(w - 1) : db'.revisions[d][y] = db.revisions[d][y]
          BY <3>3, <3>5 DEF Versions
        <4>3. db.docs[d].last # -1 => db.docs[d].last \in 0..(w - 1) /\ db.revisions[d][db.docs[d].last] # NoRevision
          BY <1>1, <1>4, <2>3, <3>5 DEF RowsInv, LastIsKept, Doc, Versions
        <4>4. \A y \in 0..(w - 1) : db'.revisions[d][y] # NoRevision => y <= db.docs[d].last
          BY <3>2, <3>3, <4>2
        <4>5. db.docs[d].last = -1 => \A y \in 0..(w - 1) : db'.revisions[d][y] = NoRevision
          BY <4>4
        <4> QED
          <5>1. PICK r : r = db'.revisions[x][w]
            OBVIOUS
          <5>2. PICK earlier : earlier = {y \in 0..(w - 1) : db'.revisions[x][y] # NoRevision}
            OBVIOUS
          <5>3. r = [body |-> db.docs[d].body, parent |-> db.docs[d].last]
            BY <2>3, <3>1, <3>5, <5>1
          <5>4. \A p \in Ops : Rung(p, x, w) => db.receipts[p].head.body = r.body
            BY <2>3, <3>5, <4>1, <5>3
          <5>5. w <= db'.docs[x].last /\ db'.docs[x].last <= db'.docs[x].version
            BY <1>4, <2>3, <3>1, <3>5 DEF Versions
          <5>6. CASE db.docs[d].last = -1
            BY <2>3, <4>5, <5>1, <5>2, <5>3, <5>4, <5>5, <5>6
          <5>7. CASE db.docs[d].last # -1
            <6>1. r.parent \in earlier /\ \A y \in earlier : y <= r.parent
              BY <2>3, <4>2, <4>3, <4>4, <5>2, <5>3, <5>7
            <6> QED
              BY <5>1, <5>2, <5>4, <5>5, <6>1
          <5> QED
            BY <5>6, <5>7
      <3> QED
        BY <3>4, <3>5
    <2> QED
      BY <2>1, <2>2, <2>3
  <1>9. ReplacedBodiesKept'
    <2>1. \A x \in Docs, w \in Versions : db.revisions[x][w] # NoRevision => db'.revisions[x][w] # NoRevision
      BY <1>5 DEF Checkpointed, OthersKept
    <2>2. \A w \in Versions \ {0} : w - 1 \in Versions
      BY DEF Versions
    <2> QED
      BY <1>1, <1>3, <2>1, <2>2 DEF ReplacedBodiesKept, RowsInv
  <1>10. Written' = Written /\ db'.epoch = db.epoch
    BY <1>1, <1>2 DEF Written, Checkpointed
  <1>11. ViewTellsHistory'
    BY <1>1, <1>2, <1>3 DEF ViewTellsHistory, RowsInv, Db, Heads
  <1>12. IsFiniteSet(Written)' /\ EpochCountsChanges'
    BY <1>10, OneMoreWritten DEF RowsInv
  <1> QED
    BY <1>6, <1>7, <1>8, <1>9, <1>11, <1>12 DEF RowsInv

\* A save or a restore keeps the invariant: its receipt is the only one of the new
\* version, and both sides of the change are revisions unless it was typing.
LEMMA MovedKeeps ==
    ASSUME RowsInv, db' \in Db, NEW d \in Docs, NEW op \in Ops, Moved(d, op)
    PROVE  RowsInv'
  <1> USE ActorConstants
  <1>1. /\ db.docs \in [Docs -> Doc \cup {NoDoc}] /\ db'.docs \in [Docs -> Doc \cup {NoDoc}]
        /\ db.docs[d] \in Doc /\ db'.docs[d] \in Doc
        /\ db.receipts \in [Ops -> Receipt \cup {NoReceipt}] /\ db'.receipts \in [Ops -> Receipt \cup {NoReceipt}]
        /\ db'.meta = db.meta /\ db'.view = db.view
    BY DEF RowsInv, Db, Moved
  <1>2. PICK v \in Versions : v = db.docs[d].version
    BY <1>1 DEF Doc
  <1>3. PICK n \in Versions : n = v + 1 /\ db'.docs[d].version = n
    BY <1>1, <1>2 DEF Moved, Doc
  <1>4. PICK rec : rec = db'.receipts[op]
    OBVIOUS
  <1>5. /\ rec # NoReceipt /\ rec.doc = d /\ rec.head = HeadOf(db'.docs[d]) /\ rec.head.version = n
        /\ rec.head.body = db'.docs[d].body /\ rec.payload.body = db'.docs[d].body
        /\ rec.payload.expected.version = v /\ rec.kind # "createDocument"
    BY <1>2, <1>3, <1>4 DEF Moved, HeadOf, NoReceipt, None
  <1>6. \A x \in Docs : /\ db'.docs[x] # NoDoc <=> db.docs[x] # NoDoc
                        /\ x # d => db'.docs[x] = db.docs[x] /\ db'.revisions[x] = db.revisions[x]
    BY DEF Moved, OthersKept, Doc, NoDoc
  <1>7. \A p \in Ops : p # op => db'.receipts[p] = db.receipts[p]
    BY DEF Moved, Recorded
  <1>8. \A p \in Ops : db.receipts[p] # NoReceipt /\ db.receipts[p].doc = d => db.receipts[p].head.version < n
    <2> SUFFICES ASSUME NEW p \in Ops, db.receipts[p] # NoReceipt, db.receipts[p].doc = d
                 PROVE  db.receipts[p].head.version < n
      OBVIOUS
    <2>1. db.receipts[p].head.version <= v
      BY <1>2 DEF RowsInv, ReceiptsTellHistory
    <2>2. db.receipts[p].head.version \in Versions
      BY <1>1 DEF Receipt, Heads
    <2> QED
      BY <1>2, <1>3, <2>1, <2>2 DEF Versions
  <1>9. \A p \in Ops, x \in Docs, w \in Versions :
          Rung(p, x, w)' <=> Rung(p, x, w) \/ (p = op /\ x = d /\ w = n)
    <2> TAKE p \in Ops, x \in Docs, w \in Versions
    <2>1. CASE p = op
      <3>1. ~Rung(p, x, w)
        BY <2>1 DEF Rung, Moved, Recorded
      <3>2. w = n => w - 1 = v
        BY <1>2, <1>3 DEF Versions
      <3> QED
        BY <1>4, <1>5, <2>1, <3>1, <3>2 DEF Rung
    <2>2. CASE p # op
      BY <1>7, <2>2 DEF Rung
    <2> QED
      BY <2>1, <2>2
  <1>r. \A x \in Docs, w \in Versions : ~Rung(op, x, w)
    BY DEF Rung, Moved, Recorded
  <1>10. \A p \in Ops : ~Rung(p, d, n)
    BY <1>3, <1>8 DEF Rung, Versions
  <1>11. \A y \in Versions : db.revisions[d][y] # NoRevision => y <= db.docs[d].last /\ y <= v
    <2> SUFFICES ASSUME NEW y \in Versions, db.revisions[d][y] # NoRevision
                 PROVE  y <= db.docs[d].last /\ y <= v
      OBVIOUS
    <2>1. y <= db.docs[d].last /\ db.docs[d].last <= v
      BY <1>2 DEF RowsInv, RevisionsTellHistory
    <2> QED
      BY <1>1, <1>2, <2>1 DEF Doc, Versions
  <1>12. \/ /\ rec.kind = "save" /\ rec.payload.cause = "typing"
            /\ db'.revisions[d] = db.revisions[d] /\ db'.docs[d].last = db.docs[d].last
         \/ /\ db'.revisions[d][v] = KeptRevision(d, v) /\ db'.revisions[d][v] # NoRevision
            /\ db'.revisions[d][n] = [body |-> db'.docs[d].body, parent |-> v] /\ db'.revisions[d][n] # NoRevision
            /\ db'.docs[d].last = n
            /\ \A w \in Versions \ {v, n} : db'.revisions[d][w] = db.revisions[d][w]
    <2>1. \/ /\ rec.kind = "save" /\ rec.payload.cause = "typing"
             /\ db'.revisions[d] = db.revisions[d] /\ db'.docs[d].last = db.docs[d].last
          \/ /\ db'.revisions[d][v] = KeptRevision(d, v) /\ db'.docs[d].last = n
             /\ db'.revisions[d][n] = [body |-> db'.docs[d].body, parent |-> v]
      BY <1>2, <1>3, <1>4 DEF Moved
    <2>2. KeptRevision(d, v) # NoRevision
      BY <1>1 DEF KeptRevision, NoRevision, Doc, None
    <2>3. [body |-> db'.docs[d].body, parent |-> v] # NoRevision
      BY <1>1 DEF NoRevision, Doc, None
    <2>4. \A w \in Versions \ {v, n} : db'.revisions[d][w] = db.revisions[d][w]
      BY <1>2, <1>3 DEF Moved
    <2> QED
      BY <2>1, <2>2, <2>3, <2>4
  <1>13. LastIsKept'
    <2> SUFFICES ASSUME NEW x \in Docs
                 PROVE  /\ db'.docs[x].last <= db'.docs[x].version
                        /\ db'.docs[x].last # -1 => db'.revisions[x][db'.docs[x].last] # NoRevision
      BY DEF LastIsKept
    <2>1. CASE x # d
      BY <1>6, <2>1 DEF RowsInv, LastIsKept
    <2>2. CASE x = d
      <3>1. db.docs[d].last \in Versions \cup {-1} /\ db.docs[d].last <= v
            /\ (db.docs[d].last # -1 => db.revisions[d][db.docs[d].last] # NoRevision)
        BY <1>1, <1>2 DEF RowsInv, LastIsKept, Doc
      <3> QED
        BY <1>2, <1>3, <1>12, <2>2, <3>1 DEF Versions
    <2> QED
      BY <2>1, <2>2
  <1>14. OneOperationPerVersion'
    <2> SUFFICES ASSUME NEW x \in Docs, db'.docs[x] # NoDoc, NEW w \in Versions
                 PROVE  /\ w <= db'.docs[x].version => \E p \in Ops : Rung(p, x, w)'
                        /\ \A p, q \in Ops : Rung(p, x, w)' /\ Rung(q, x, w)' => p = q
      BY DEF OneOperationPerVersion
    <2>1. /\ w <= db.docs[x].version => \E p \in Ops : Rung(p, x, w)
          /\ \A p, q \in Ops : Rung(p, x, w) /\ Rung(q, x, w) => p = q
      BY <1>6 DEF OneOperationPerVersion, RowsInv
    <2>2. CASE x = d /\ w = n
      BY <1>9, <1>10, <2>2
    <2>3. CASE x = d /\ w # n
      <3>1. w <= db'.docs[x].version => w <= db.docs[x].version
        BY <1>2, <1>3, <2>3 DEF Versions
      <3> QED
        BY <1>9, <2>1, <2>3, <3>1
    <2>4. CASE x # d
      BY <1>6, <1>9, <2>1, <2>4
    <2> QED
      BY <2>2, <2>3, <2>4
  <1>15. ReceiptsTellHistory'
    <2> SUFFICES ASSUME NEW p \in Ops, db'.receipts[p] # NoReceipt
                 PROVE  /\ db'.docs[db'.receipts[p].doc] # NoDoc
                        /\ db'.receipts[p].head.body = db'.receipts[p].payload.body
                        /\ db'.receipts[p].head.version <= db'.docs[db'.receipts[p].doc].version
                        /\ db'.receipts[p].head.version = db'.docs[db'.receipts[p].doc].version
                             => db'.receipts[p].head = HeadOf(db'.docs[db'.receipts[p].doc])
                        /\ \A q \in Ops : db'.receipts[q] # NoReceipt /\ db'.receipts[q].doc = db'.receipts[p].doc
                              /\ db'.receipts[q].head.version = db'.receipts[p].head.version
                              => db'.receipts[q].head = db'.receipts[p].head
      BY DEF ReceiptsTellHistory
    <2>1. \A q \in Ops : q # op /\ db'.receipts[q] # NoReceipt /\ db'.receipts[q].doc = d
            => db'.receipts[q].head.version < n
      BY <1>7, <1>8
    <2>2. CASE p = op
      <3>1. db'.receipts[p] = rec
        BY <1>4, <2>2
      <3>2. db'.docs[d] # NoDoc /\ db'.docs[d].version = n /\ n \in Nat
        BY <1>3, <1>6 DEF Moved, Versions
      <3>3. \A q \in Ops : db'.receipts[q] # NoReceipt /\ db'.receipts[q].doc = d
                             /\ db'.receipts[q].head.version = n => db'.receipts[q].head = rec.head
        BY <1>4, <2>1, <3>2
      <3> QED
        BY <1>5, <3>1, <3>2, <3>3
    <2>3. CASE p # op /\ db.receipts[p].doc = d
      <3>1. db'.receipts[p] = db.receipts[p] /\ db.receipts[p].head.version < n
        BY <1>7, <1>8, <2>3
      <3>2. db.receipts[p].head.version \in Versions
        BY <1>1, <3>1 DEF Receipt, Heads
      <3>3. \A q \in Ops : q # op => db'.receipts[q] = db.receipts[q]
        BY <1>7
      <3>4. db.receipts[p].head.version # n /\ db.receipts[p].head.version <= n
        BY <1>3, <3>1, <3>2 DEF Versions
      <3> QED
        BY <1>3, <1>4, <1>5, <1>6, <2>3, <3>1, <3>3, <3>4 DEF RowsInv, ReceiptsTellHistory
    <2>4. CASE p # op /\ db.receipts[p].doc # d
      <3>1. db'.receipts[p] = db.receipts[p] /\ db.receipts[p].doc \in Docs
        BY <1>1, <1>7, <2>4 DEF Receipt
      <3>2. \A q \in Ops : db'.receipts[q].doc = db.receipts[p].doc => db'.receipts[q] = db.receipts[q]
        BY <1>4, <1>5, <1>7, <2>4
      <3> QED
        BY <1>6, <2>4, <3>1, <3>2 DEF RowsInv, ReceiptsTellHistory
    <2> QED
      BY <2>2, <2>3, <2>4
  <1>16. RevisionsTellHistory'
    <2> SUFFICES ASSUME NEW x \in Docs, NEW w \in Versions, db'.revisions[x][w] # NoRevision
                 PROVE  LET r == db'.revisions[x][w]
                            earlier == {y \in 0..(w - 1) : db'.revisions[x][y] # NoRevision}
                        IN  /\ \A p \in Ops : Rung(p, x, w)' => db'.receipts[p].head.body = r.body
                            /\ w <= db'.docs[x].last /\ db'.docs[x].last <= db'.docs[x].version
                            /\ IF earlier = {} THEN r.parent = -1
                               ELSE r.parent \in earlier /\ \A y \in earlier : y <= r.parent
      BY DEF RevisionsTellHistory
    <2> DEFINE Earlier == {y \in 0..(w - 1) : db'.revisions[x][y] # NoRevision}
    <2>1. \A p \in Ops : Rung(p, x, w)' /\ (x # d \/ w # n) => Rung(p, x, w) /\ db'.receipts[p] = db.receipts[p]
      BY <1>7, <1>9, <1>r
    <2>2. CASE x # d \/ (/\ db'.revisions[d][w] = db.revisions[d][w] /\ w <= v
                         /\ \A y \in 0..(w - 1) : db'.revisions[d][y] = db.revisions[d][y])
      <3>1. /\ db'.revisions[x][w] = db.revisions[x][w]
            /\ \A y \in 0..(w - 1) : db'.revisions[x][y] = db.revisions[x][y]
        <4>1. CASE x # d
          BY <1>6, <4>1
        <4>2. CASE x = d
          BY <2>2, <4>2
        <4> QED
          BY <4>1, <4>2
      <3>2. \A p \in Ops : Rung(p, x, w)' => Rung(p, x, w) /\ db'.receipts[p] = db.receipts[p]
        BY <1>3, <2>1, <2>2 DEF Versions
      <3>3. w <= db'.docs[x].last /\ db'.docs[x].last <= db'.docs[x].version
        <4>1. w <= db.docs[x].last /\ db.docs[x].last <= db.docs[x].version
          BY <3>1 DEF RowsInv, RevisionsTellHistory
        <4>2. CASE x # d
          BY <1>6, <4>1, <4>2
        <4>3. CASE x = d
          BY <1>1, <1>2, <1>3, <1>12, <2>2, <4>1, <4>3 DEF Doc, Versions
        <4> QED
          BY <4>2, <4>3
      <3>4. Earlier = {y \in 0..(w - 1) : db.revisions[x][y] # NoRevision}
        BY <3>1
      <3>5. /\ \A p \in Ops : Rung(p, x, w) => db.receipts[p].head.body = db.revisions[x][w].body
            /\ IF Earlier = {} THEN db.revisions[x][w].parent = -1
               ELSE db.revisions[x][w].parent \in Earlier /\ \A y \in Earlier : y <= db.revisions[x][w].parent
        BY <3>1, <3>4 DEF RowsInv, RevisionsTellHistory
      <3> QED
        BY <3>1, <3>2, <3>3, <3>5
    <2>3. CASE x = d /\ db'.revisions[d] = db.revisions[d]
      BY <1>11, <2>2, <2>3
    <2>4. CASE /\ x = d
               /\ db'.revisions[d][v] = KeptRevision(d, v) /\ db'.revisions[d][v] # NoRevision
               /\ db'.revisions[d][n] = [body |-> db'.docs[d].body, parent |-> v]
               /\ db'.docs[d].last = n
               /\ \A y \in Versions \ {v, n} : db'.revisions[d][y] = db.revisions[d][y]
      <3>1. w <= n
        BY <1>2, <1>3, <1>11, <2>4 DEF Versions
      <3>2. \A y \in 0..(w - 1) : y \in Versions
        BY DEF Versions
      <3>3. CASE w = n
        <4>1. \A p \in Ops : Rung(p, x, w)' => db'.receipts[p].head.body = db'.docs[d].body
          BY <1>4, <1>5, <1>9, <1>10, <2>4, <3>3
        <4>2. v \in Earlier /\ \A y \in Earlier : y <= v
          BY <1>2, <1>3, <2>4, <3>3 DEF Versions
        <4>3. w <= db'.docs[x].last /\ db'.docs[x].last <= db'.docs[x].version
          BY <1>3, <2>4, <3>3 DEF Versions
        <4>4. db'.revisions[x][w].body = db'.docs[d].body /\ db'.revisions[x][w].parent = v
          BY <2>4, <3>3
        <4> QED
          BY <4>1, <4>2, <4>3, <4>4
      <3>4. CASE w < v \/ (w = v /\ db.revisions[d][v] # NoRevision)
        <4>1. \A y \in 0..(w - 1) : db'.revisions[d][y] = db.revisions[d][y]
          BY <1>2, <1>3, <2>4, <3>2, <3>4 DEF Versions
        <4>2. db'.revisions[d][w] = db.revisions[d][w] /\ w <= v
          BY <1>2, <1>3, <2>4, <3>4 DEF Versions, KeptRevision
        <4> QED
          BY <2>2, <4>1, <4>2
      <3>5. CASE w = v /\ db.revisions[d][v] = NoRevision
        <4>1. \A y \in 0..(w - 1) : db'.revisions[d][y] = db.revisions[d][y]
          BY <1>2, <1>3, <2>4, <3>2, <3>5 DEF Versions
        <4>2. db'.revisions[x][w] = [body |-> db.docs[d].body, parent |-> db.docs[d].last]
          BY <2>4, <3>5 DEF KeptRevision
        <4>3. \A p \in Ops : Rung(p, x, w)' => db'.receipts[p].head.body = db.docs[d].body
          <5> SUFFICES ASSUME NEW p \in Ops, Rung(p, x, w)'
                       PROVE  db'.receipts[p].head.body = db.docs[d].body
            OBVIOUS
          <5>1. Rung(p, d, v) /\ db'.receipts[p] = db.receipts[p]
            BY <1>2, <1>3, <2>1, <2>4, <3>5 DEF Versions
          <5>2. db.receipts[p].head = HeadOf(db.docs[db.receipts[p].doc]) /\ db.receipts[p].doc = d
            BY <1>2, <5>1 DEF RowsInv, ReceiptsTellHistory, Rung
          <5> QED
            BY <5>1, <5>2 DEF HeadOf
        <4>4. w <= db'.docs[x].last /\ db'.docs[x].last <= db'.docs[x].version
          BY <1>2, <1>3, <2>4, <3>5 DEF Versions
        <4>5. db.docs[d].last \in Versions \cup {-1} /\ db.docs[d].last <= v
              /\ (db.docs[d].last # -1 => db.revisions[d][db.docs[d].last] # NoRevision)
          BY <1>1, <1>2 DEF RowsInv, LastIsKept, Doc
        <4>6. db.docs[d].last # -1 => db.docs[d].last \in Earlier
          BY <1>2, <2>4, <3>5, <4>1, <4>5 DEF Versions
        <4>7. \A y \in Earlier : y <= db.docs[d].last
          BY <1>11, <2>4, <3>2, <4>1
        <4>8. IF Earlier = {} THEN db.docs[d].last = -1
              ELSE db.docs[d].last \in Earlier /\ \A y \in Earlier : y <= db.docs[d].last
          BY <4>5, <4>6, <4>7 DEF Versions
        <4> QED
          BY <4>2, <4>3, <4>4, <4>8
      <3> QED
        BY <1>2, <1>3, <3>1, <3>3, <3>4, <3>5 DEF Versions
    <2> QED
      BY <1>12, <1>6, <2>2, <2>3, <2>4
  <1>17. ReplacedBodiesKept'
    <2> SUFFICES ASSUME NEW p \in Ops, NEW x \in Docs, NEW w \in Versions \ {0}, Rung(p, x, w)',
                        db'.receipts[p].kind = "restore" \/ db'.receipts[p].payload.cause # "typing"
                 PROVE  db'.revisions[x][w - 1] # NoRevision /\ db'.revisions[x][w] # NoRevision
      BY DEF ReplacedBodiesKept
    <2>1. \A y \in Versions : db.revisions[x][y] # NoRevision => db'.revisions[x][y] # NoRevision
      BY <1>6, <1>12
    <2>2. w - 1 \in Versions
      BY DEF Versions
    <2>3. CASE p = op
      <3>1. x = d /\ w = n
        BY <1>9, <1>r, <2>3
      <3>2. w - 1 = v
        BY <1>2, <1>3, <3>1 DEF Versions
      <3> QED
        BY <1>4, <1>12, <2>3, <3>1, <3>2
    <2>4. CASE p # op
      <3>1. Rung(p, x, w) /\ db'.receipts[p] = db.receipts[p]
        BY <1>7, <1>9, <2>4
      <3>2. db.revisions[x][w - 1] # NoRevision /\ db.revisions[x][w] # NoRevision
        BY <3>1 DEF RowsInv, ReplacedBodiesKept
      <3> QED
        BY <2>1, <2>2, <3>2
    <2> QED
      BY <2>3, <2>4
  <1>18. Written' = Written \cup {<<"body", d, n>>} /\ <<"body", d, n>> \notin Written
    <2>1. 0..n = (0..v) \cup {n} /\ n \notin 0..v
      BY <1>2, <1>3 DEF Versions
    <2>2. db'.docs[d].meta = db.docs[d].meta /\ db.docs[d] # NoDoc
      BY DEF Moved
    <2> QED
      BY <1>1, <1>2, <1>3, <1>6, <2>1, <2>2 DEF Written
  <1>19. ViewTellsHistory'
    <2> SUFFICES ASSUME db'.view # NoView
                 PROVE  /\ db'.docs[db'.view.doc] # NoDoc
                        /\ db'.view.head.version <= db'.docs[db'.view.doc].version
                        /\ db'.view.head.version = db'.docs[db'.view.doc].version
                             => db'.view.head = HeadOf(db'.docs[db'.view.doc])
                        /\ \A p \in Ops : Rung(p, db.view.doc, db.view.head.version)'
                             => db'.receipts[p].head = db'.view.head
      BY <1>1 DEF ViewTellsHistory, Rung
    <2>1. PICK x \in Docs, w \in Versions : x = db.view.doc /\ w = db.view.head.version
      BY <1>1 DEF RowsInv, Db, Heads
    <2>2. w <= db.docs[x].version /\ (w = db.docs[x].version => db.view.head = HeadOf(db.docs[x])) /\ db.docs[x] # NoDoc
          /\ \A p \in Ops : Rung(p, x, w) => db.receipts[p].head = db.view.head
      BY <1>1, <2>1 DEF RowsInv, ViewTellsHistory
    <2>3. x # d \/ w # n
      BY <1>2, <1>3, <2>2 DEF Versions
    <2>4. \A p \in Ops : Rung(p, x, w)' => Rung(p, x, w) /\ db'.receipts[p] = db.receipts[p]
      BY <1>7, <1>9, <1>r, <2>1, <2>3
    <2>5. w <= db'.docs[x].version /\ (w = db'.docs[x].version => db'.docs[x] = db.docs[x])
      BY <1>2, <1>3, <1>6, <2>2 DEF Versions
    <2>6. \A p \in Ops : Rung(p, x, w)' => db'.receipts[p].head = db'.view.head
      BY <1>1, <2>2, <2>4
    <2> QED
      BY <1>1, <1>6, <2>1, <2>2, <2>5, <2>6 DEF Rung
  <1>20. IsFiniteSet(Written)' /\ EpochCountsChanges'
    BY <1>18, OneMoreWritten DEF RowsInv, Moved
  <1> QED
    BY <1>13, <1>14, <1>15, <1>16, <1>17, <1>19, <1>20 DEF RowsInv

\* A saved reading position keeps the invariant: it names the current head.
LEMMA ViewedKeeps ==
    ASSUME RowsInv, db' \in Db, NEW d \in Docs, Viewed(d)
    PROVE  RowsInv'
  <1> USE ActorConstants
  <1>1. db'.docs = db.docs /\ db'.revisions = db.revisions /\ db'.receipts = db.receipts /\ db'.meta = db.meta
        /\ db'.epoch = db.epoch /\ db.docs[d] \in Doc
    BY DEF Viewed, RowsInv, Db
  <1>2. \A p \in Ops : \A x, v : Rung(p, x, v)' <=> Rung(p, x, v)
    BY <1>1 DEF Rung
  <1>3. LastIsKept' /\ OneOperationPerVersion' /\ ReceiptsTellHistory' /\ RevisionsTellHistory' /\ ReplacedBodiesKept'
    BY <1>1, <1>2 DEF RowsInv, LastIsKept, OneOperationPerVersion, ReceiptsTellHistory, RevisionsTellHistory,
                      ReplacedBodiesKept
  <1>4. Written' = Written
    BY <1>1 DEF Written
  <1>5. ViewTellsHistory'
    <2>1. db'.view.doc = d /\ db'.view.head = HeadOf(db.docs[d]) /\ db'.view.head.version = db.docs[d].version
          /\ db.docs[d] # NoDoc /\ db.docs[d].version \in Int
      BY <1>1 DEF Viewed, HeadOf, Doc, Versions
    <2>2. \A p \in Ops : Rung(p, d, db.docs[d].version) => db.receipts[p].head = HeadOf(db.docs[d])
      BY DEF RowsInv, ReceiptsTellHistory, Rung
    <2> QED
      BY <1>1, <2>1, <2>2 DEF ViewTellsHistory, Rung
  <1>6. IsFiniteSet(Written)' /\ EpochCountsChanges'
    BY <1>1, <1>4, OneMoreWritten DEF RowsInv
  <1> QED
    BY <1>3, <1>5, <1>6 DEF RowsInv

\* A renamed document keeps the invariant: only its title changed, under a new epoch.
LEMMA RenamedKeeps ==
    ASSUME RowsInv, db' \in Db, NEW d \in Docs, Renamed(d)
    PROVE  RowsInv'
  <1> USE ActorConstants
  <1>1. db'.revisions = db.revisions /\ db'.receipts = db.receipts /\ db'.meta = db.meta /\ db'.view = db.view
        /\ db.receipts \in [Ops -> Receipt \cup {NoReceipt}]
        /\ db.docs[d] \in Doc
    BY DEF Renamed, RowsInv, Db
  <1>2. \A x \in Docs : /\ db'.docs[x] # NoDoc <=> db.docs[x] # NoDoc
                        /\ db'.docs[x].version = db.docs[x].version /\ db'.docs[x].last = db.docs[x].last
                        /\ HeadOf(db'.docs[x]) = HeadOf(db.docs[x])
                        /\ x # d => db'.docs[x] = db.docs[x]
    BY DEF Renamed, OthersKept, Doc, NoDoc, HeadOf
  <1>3. \A p \in Ops : \A x, v : Rung(p, x, v)' <=> Rung(p, x, v)
    BY <1>1 DEF Rung
  <1>4. LastIsKept' /\ OneOperationPerVersion' /\ RevisionsTellHistory' /\ ReplacedBodiesKept'
    BY <1>1, <1>2, <1>3 DEF RowsInv, LastIsKept, OneOperationPerVersion, RevisionsTellHistory, ReplacedBodiesKept
  <1>5. ReceiptsTellHistory'
    BY <1>1, <1>2 DEF RowsInv, ReceiptsTellHistory, Receipt
  <1>6. PICK m \in Nat : m = db.docs[d].meta
    BY <1>1 DEF Doc
  <1>7. Written' = Written \cup {<<"title", d, m + 1>>} /\ <<"title", d, m + 1>> \notin Written
    <2>1. 1..(m + 1) = (1..m) \cup {m + 1} /\ m + 1 \notin 1..m
      OBVIOUS
    <2>2. db'.docs[d].meta = m + 1 /\ db.docs[d] # NoDoc
      BY <1>6 DEF Renamed
    <2> QED
      BY <1>1, <1>2, <1>6, <2>1, <2>2 DEF Written
  <1>8. ViewTellsHistory'
    BY <1>1, <1>2, <1>3 DEF ViewTellsHistory, RowsInv, Db, Heads
  <1>9. IsFiniteSet(Written)' /\ EpochCountsChanges'
    BY <1>7, OneMoreWritten DEF RowsInv, Renamed
  <1> QED
    BY <1>4, <1>5, <1>8, <1>9 DEF RowsInv

\* A renamed project keeps the invariant.
LEMMA RetitledKeeps ==
    ASSUME RowsInv, db' \in Db, Retitled
    PROVE  RowsInv'
  <1> USE ActorConstants
  <1>1. db'.docs = db.docs /\ db'.revisions = db.revisions /\ db'.receipts = db.receipts /\ db'.view = db.view
    BY DEF Retitled
  <1>2. \A p \in Ops : \A x, v : Rung(p, x, v)' <=> Rung(p, x, v)
    BY <1>1 DEF Rung
  <1>3. LastIsKept' /\ OneOperationPerVersion' /\ ReceiptsTellHistory' /\ RevisionsTellHistory' /\ ReplacedBodiesKept'
    BY <1>1, <1>2 DEF RowsInv, LastIsKept, OneOperationPerVersion, ReceiptsTellHistory, RevisionsTellHistory,
                      ReplacedBodiesKept
  <1>4. ViewTellsHistory'
    BY <1>1, <1>2 DEF ViewTellsHistory, RowsInv
  <1>5. PICK m \in Nat : m = db.meta
    BY DEF RowsInv, Db
  <1>6. Written' = Written \cup {<<"project", None, m + 1>>} /\ <<"project", None, m + 1>> \notin Written
    <2>1. 1..(m + 1) = (1..m) \cup {m + 1} /\ m + 1 \notin 1..m
      OBVIOUS
    <2> QED
      BY <1>1, <1>5, <2>1 DEF Written, Retitled
  <1>7. IsFiniteSet(Written)' /\ EpochCountsChanges'
    BY <1>6, OneMoreWritten DEF RowsInv, Retitled
  <1> QED
    BY <1>3, <1>4, <1>7 DEF RowsInv

\* Rows left alone.
LEMMA UnchangedKeeps ==
    ASSUME RowsInv, db' = db
    PROVE  RowsInv'
  <1>1. \A p \in Ops : \A x, v : Rung(p, x, v)' <=> Rung(p, x, v)
    BY DEF Rung
  <1>2. Written' = Written
    BY DEF Written
  <1> QED
    BY <1>1, <1>2 DEF RowsInv, LastIsKept, OneOperationPerVersion, ReceiptsTellHistory, RevisionsTellHistory,
                      ReplacedBodiesKept, ViewTellsHistory, EpochCountsChanges

-----------------------------------------------------------------------------
\* What each command commits.

\* A command that commits rows s commits them whole or leaves the rows alone.
LEMMA TransactRows ==
    ASSUME NEW s, NEW reply, NEW o \in Transact(s, reply)
    PROVE  o.db \in {s, db}
  BY DEF Transact

\* create_document.
LEMMA CreateRows ==
    ASSUME RowsInv, NEW q, q.op \in Ops, q.doc \in Docs, q.title \in Titles, q.body \in Bodies,
           NEW o \in CreateDocument(q), db' = o.db
    PROVE  RowsInv'
  <1> USE ActorConstants
  <1>1. db \in Db /\ db.docs \in [Docs -> Doc \cup {NoDoc}] /\ db.epoch \in Nat
    BY DEF RowsInv, Db
  <1>2. PICK fresh : fresh = [title |-> q.title, meta |-> 0, version |-> 0, body |-> q.body, last |-> -1]
    OBVIOUS
  <1>3. fresh \in Doc /\ fresh # NoDoc /\ fresh.version = 0 /\ fresh.meta = 0 /\ fresh.last = -1 /\ fresh.body = q.body
    BY <1>2 DEF Doc, Versions, NoDoc
  <1>4. PICK docs \in [Docs -> Doc \cup {NoDoc}] : docs = [db.docs EXCEPT ![q.doc] = fresh]
    BY <1>1, <1>3
  <1>5. PICK e \in Nat : e = db.epoch + 1
    BY <1>1
  <1>6. PICK s : s = [db EXCEPT !.docs[q.doc] = fresh, !.epoch = e]
    OBVIOUS
  <1>7. s = [db EXCEPT !.docs = docs, !.epoch = e]
    BY <1>1, <1>4, <1>6
  <1>8. s \in Db /\ s.docs = docs /\ s.epoch = e /\ s.receipts = db.receipts /\ s.revisions = db.revisions
        /\ s.meta = db.meta /\ s.view = db.view
    BY <1>1, <1>7 DEF Db
  <1>9. CreatePayload(q) \in Payload /\ CreatePayload(q).body = q.body
    BY DEF CreatePayload, Payload
  <1>10. PICK w : w = InsertReceipt(s, q, "createDocument", CreatePayload(q))
    OBVIOUS
  <1>11. \/ db' = db
         \/ db.docs[q.doc] = NoDoc /\ db.receipts[q.op] = NoReceipt /\ db' = w
    BY <1>2, <1>5, <1>6, <1>10, TransactRows DEF CreateDocument, Refused, Spent
  <1>12. CASE db.docs[q.doc] = NoDoc /\ db.receipts[q.op] = NoReceipt /\ db' = w
    <2>1. s.docs[q.doc] = fresh
      BY <1>1, <1>4, <1>8
    <2>2. PICK kind \in {"createDocument", "save", "restore"} : kind = "createDocument"
      OBVIOUS
    <2>3. PICK payload \in Payload : payload = CreatePayload(q)
      BY <1>9
    <2>4. /\ w \in Db
          /\ w.receipts[q.op] = [kind |-> kind, doc |-> q.doc, payload |-> payload, head |-> HeadOf(fresh)]
          /\ \A p \in Ops \ {q.op} : w.receipts[p] = s.receipts[p]
          /\ w.docs = s.docs /\ w.revisions = s.revisions /\ w.epoch = s.epoch /\ w.meta = s.meta /\ w.view = s.view
      <3>1. s \in Db /\ s.docs[q.doc] # NoDoc /\ s.docs[q.doc] = fresh
        BY <1>3, <1>4, <1>8
      <3>2. ReceiptLeft(s, q, kind, payload, w)
        BY <1>10, <2>2, <2>3, <3>1, InsertReceiptIs
      <3> QED
        BY <3>1, <3>2 DEF ReceiptLeft
    <2>5. w.docs[q.doc] = fresh /\ \A x \in Docs \ {q.doc} : w.docs[x] = db.docs[x]
      BY <1>1, <1>4, <1>8, <2>4
    <2>6. Created(q.doc, q.op) /\ db' \in Db
      BY <1>3, <1>5, <1>8, <1>9, <1>12, <2>2, <2>3, <2>4, <2>5 DEF Created, OthersKept, Recorded
    <2> QED
      BY <2>6, CreatedKeeps
  <1> QED
    BY <1>11, <1>12, UnchangedKeeps

\* Rows s: document d moved to its next version, which holds body b.
Advanced(s, d, b) ==
    LET v == db.docs[d].version IN
    /\ s \in Db /\ s.docs[d] \in Doc
    /\ \A x \in Docs \ {d} : s.docs[x] = db.docs[x] /\ s.revisions[x] = db.revisions[x]
    /\ s.docs[d].version = v + 1 /\ s.docs[d].body = b /\ s.docs[d].meta = db.docs[d].meta
    /\ \A w \in Versions \ {v, v + 1} : s.revisions[d][w] = db.revisions[d][w]
    /\ s.receipts = db.receipts /\ s.epoch = db.epoch + 1 /\ s.meta = db.meta /\ s.view = db.view

\* Its revisions: none new, or the one before the change and the one after it.
Unframed(s, d) == s.revisions[d] = db.revisions[d] /\ s.docs[d].last = db.docs[d].last
Framed(s, d, b) ==
    LET v == db.docs[d].version IN
    /\ s.revisions[d][v] = KeptRevision(d, v)
    /\ s.revisions[d][v + 1] = [body |-> b, parent |-> v]
    /\ s.docs[d].last = v + 1

\* A change between two revisions: the one before it and the one after it.
LEMMA BetweenRevisions ==
    ASSUME RowsInv, NEW d \in Docs, NEW b \in Bodies, db.docs[d] # NoDoc, db.docs[d].version < VersionLimit,
           NEW s, s = CheckpointAt(WriteBody(CheckpointAt(db, d), d, b), d)
    PROVE  Advanced(s, d, b) /\ Framed(s, d, b)
  <1>v. PICK v : v = db.docs[d].version
    OBVIOUS
  <1> USE ActorConstants
  <1>1. db \in Db /\ db.docs[d] \in Doc
    BY DEF RowsInv, Db
  <1>2. v \in Versions /\ v + 1 \in Versions /\ v # v + 1
    BY <1>v, <1>1 DEF Doc, Versions
  <1>3. PICK s1 : s1 = CheckpointAt(db, d)
    OBVIOUS
  <1>4. /\ s1 \in Db /\ s1.docs[d] \in Doc
        /\ \A x \in Docs \ {d} : s1.docs[x] = db.docs[x] /\ s1.revisions[x] = db.revisions[x]
        /\ s1.docs[d].version = v /\ s1.docs[d].meta = db.docs[d].meta
        /\ \A w \in Versions \ {v} : s1.revisions[d][w] = db.revisions[d][w]
        /\ s1.revisions[d][v] = KeptRevision(d, v)
        /\ s1.docs[d].last = IF db.revisions[d][v] # NoRevision THEN db.docs[d].last ELSE v
        /\ s1.receipts = db.receipts /\ s1.epoch = db.epoch /\ s1.meta = db.meta /\ s1.view = db.view
    <2>1. CheckpointTaken(db, d, s1)
      BY <1>1, <1>3, CheckpointIs
    <2> QED
      BY <1>v, <2>1 DEF CheckpointTaken, KeptRevision
  <1>5. s1.docs[d].last = v
    <2>1. CASE db.revisions[d][v] # NoRevision
      <3>1. v <= db.docs[d].last /\ db.docs[d].last <= v
        BY <1>v, <1>2, <2>1 DEF RowsInv, RevisionsTellHistory
      <3> QED
        BY <1>v, <1>1, <1>2, <1>4, <2>1, <3>1 DEF Doc, Versions
    <2>2. CASE db.revisions[d][v] = NoRevision
      BY <1>v, <1>4, <2>2
    <2> QED
      BY <2>1, <2>2
  <1>6. s1.docs[d] # NoDoc
    BY <1>v, <1>4 DEF Doc, NoDoc
  <1>7. PICK s2 : s2 = WriteBody(s1, d, b)
    OBVIOUS
  <1>8. /\ s2 \in Db /\ s2.docs[d] \in Doc
        /\ \A x \in Docs \ {d} : s2.docs[x] = s1.docs[x]
        /\ s2.docs[d].version = v + 1 /\ s2.docs[d].body = b
        /\ s2.docs[d].meta = s1.docs[d].meta /\ s2.docs[d].last = s1.docs[d].last
        /\ s2.receipts = s1.receipts /\ s2.revisions = s1.revisions /\ s2.epoch = s1.epoch + 1
        /\ s2.meta = s1.meta /\ s2.view = s1.view
    <2>1. s1 \in Db /\ s1.docs[d].version = v
      BY <1>4
    <2>2. s1.docs[d].version < VersionLimit
      BY <1>v, <2>1
    <2>3. BodyWritten(s1, d, b, s2)
      BY <1>6, <1>7, <2>1, <2>2, WriteBodyIs
    <2> QED
      BY <2>1, <2>3 DEF BodyWritten
  <1>9. s2.docs[d] # NoDoc
    BY <1>v, <1>8 DEF Doc, NoDoc
  <1>10. s2.revisions[d][v + 1] = NoRevision
    <2>1. db.revisions[d][v + 1] = NoRevision
      <3>1. db.revisions[d][v + 1] # NoRevision => v + 1 <= db.docs[d].last /\ db.docs[d].last <= v
        BY <1>v, <1>2 DEF RowsInv, RevisionsTellHistory
      <3> QED
        BY <1>v, <1>1, <1>2, <3>1 DEF Doc, Versions
    <2> QED
      BY <1>v, <1>2, <1>4, <1>8, <2>1
  <1>11. s = CheckpointAt(s2, d)
    BY <1>v, <1>3, <1>7
  <1>12. /\ s \in Db /\ s.docs[d] \in Doc
         /\ \A x \in Docs \ {d} : s.docs[x] = s2.docs[x] /\ s.revisions[x] = s2.revisions[x]
         /\ s.docs[d].version = v + 1 /\ s.docs[d].body = b /\ s.docs[d].meta = s2.docs[d].meta
         /\ \A w \in Versions \ {v + 1} : s.revisions[d][w] = s2.revisions[d][w]
         /\ s.revisions[d][v + 1] = [body |-> b, parent |-> s2.docs[d].last]
         /\ s.docs[d].last = v + 1
         /\ s.receipts = s2.receipts /\ s.epoch = s2.epoch /\ s.meta = s2.meta /\ s.view = s2.view
    <2>1. s2 \in Db /\ s2.docs[d].version = v + 1 /\ s2.docs[d].body = b /\ s2.docs[d].last = s1.docs[d].last
      BY <1>8
    <2>2. CheckpointTaken(s2, d, s)
      BY <1>9, <1>11, <2>1, CheckpointIs
    <2> QED
      BY <1>10, <2>1, <2>2 DEF CheckpointTaken
  <1>13. \A x \in Docs \ {d} : s.docs[x] = db.docs[x] /\ s.revisions[x] = db.revisions[x]
    BY <1>4, <1>8, <1>12
  <1>14. /\ \A w \in Versions \ {v, v + 1} : s.revisions[d][w] = db.revisions[d][w]
         /\ s.revisions[d][v] = KeptRevision(d, v)
    BY <1>2, <1>4, <1>8, <1>12
  <1>15. s.docs[d].meta = db.docs[d].meta /\ s.revisions[d][v + 1] = [body |-> b, parent |-> v]
    BY <1>4, <1>5, <1>8, <1>12
  <1>16. s.receipts = db.receipts /\ s.epoch = db.epoch + 1 /\ s.meta = db.meta /\ s.view = db.view
    BY <1>4, <1>8, <1>12
  <1>17. Advanced(s, d, b)
    BY <1>v, <1>12, <1>13, <1>14, <1>15, <1>16 DEF Advanced
  <1>18. Framed(s, d, b)
    BY <1>v, <1>12, <1>14, <1>15 DEF Framed
  <1> QED
    BY <1>17, <1>18

\* A command that moved a document and left the receipt that says so.
LEMMA MovedRows ==
    ASSUME RowsInv, NEW s, NEW q, q.op \in Ops, q.doc \in Docs,
           NEW kind \in {"save", "restore"}, NEW payload \in Payload,
           db.docs[q.doc] # NoDoc, db.receipts[q.op] = NoReceipt,
           payload.expected = HeadOf(db.docs[q.doc]), Advanced(s, q.doc, payload.body),
           Framed(s, q.doc, payload.body)
           \/ (Unframed(s, q.doc) /\ kind = "save" /\ payload.cause = "typing"),
           db' = InsertReceipt(s, q, kind, payload)
    PROVE  RowsInv'
  <1>1. PICK w : w = InsertReceipt(s, q, kind, payload)
    OBVIOUS
  <1>2. s.docs[q.doc] # NoDoc /\ s \in Db
    BY ActorConstants DEF Advanced, Doc, NoDoc
  <1>3. /\ w \in Db
        /\ w.receipts[q.op] = [kind |-> kind, doc |-> q.doc, payload |-> payload, head |-> HeadOf(s.docs[q.doc])]
        /\ \A p \in Ops \ {q.op} : w.receipts[p] = s.receipts[p]
        /\ w.docs = s.docs /\ w.revisions = s.revisions /\ w.epoch = s.epoch /\ w.meta = s.meta /\ w.view = s.view
    <2>1. PICK k \in {"createDocument", "save", "restore"} : k = kind
      OBVIOUS
    <2> QED
      <3>1. ReceiptLeft(s, q, k, payload, w)
        BY <1>1, <1>2, <2>1, InsertReceiptIs
      <3> QED
        BY <2>1, <3>1 DEF ReceiptLeft
  <1>4. db' = w
    BY <1>1
  <1>5. OthersKept(q.doc) /\ Recorded(q.op)
    BY <1>3, <1>4 DEF OthersKept, Recorded, Advanced
  <1>6. PICK r : r = w.receipts[q.op]
    OBVIOUS
  <1>7. r.kind = kind /\ r.doc = q.doc /\ r.payload = payload /\ r.head = HeadOf(s.docs[q.doc])
    BY <1>3, <1>6
  <1>d. PICK d \in Docs : d = q.doc
    OBVIOUS
  <1>v. PICK v : v = db.docs[d].version
    OBVIOUS
  <1>a. /\ db'.docs[d] \in Doc /\ db'.docs[d].version = v + 1 /\ db'.docs[d].meta = db.docs[d].meta
        /\ db'.docs[d].body = payload.body /\ s.docs[d] = db'.docs[d] /\ s.revisions[d] = db'.revisions[d]
        /\ \A y \in Versions \ {v, v + 1} : db'.revisions[d][y] = db.revisions[d][y]
        /\ db'.epoch = db.epoch + 1 /\ db'.meta = db.meta /\ db'.view = db.view
    BY <1>3, <1>4, <1>d, <1>v DEF Advanced
  <1>b. \/ /\ Unframed(s, d) /\ r.kind = "save" /\ r.payload.cause = "typing"
        \/ Framed(s, d, payload.body)
    BY <1>7, <1>d
  <1>c. \/ /\ r.kind = "save" /\ r.payload.cause = "typing"
           /\ db'.revisions[d] = db.revisions[d] /\ db'.docs[d].last = db.docs[d].last
        \/ /\ db'.revisions[d][v] = KeptRevision(d, v)
           /\ db'.revisions[d][v + 1] = [body |-> db'.docs[d].body, parent |-> v]
           /\ db'.docs[d].last = v + 1
    BY <1>a, <1>b, <1>d, <1>v DEF Framed, Unframed
  <1>e. /\ r = db'.receipts[q.op] /\ r.kind \in {"save", "restore"} /\ r.doc = d /\ r.head = HeadOf(db'.docs[d])
        /\ r.payload.expected = HeadOf(db.docs[d]) /\ r.payload.body = db'.docs[d].body
    BY <1>4, <1>6, <1>7, <1>a, <1>d
  <1>8. Moved(q.doc, q.op)
    <2> PICK op \in Ops : op = q.op
      OBVIOUS
    <2>1. db.docs[d] # NoDoc /\ OthersKept(d) /\ Recorded(op)
      BY <1>5, <1>d
    <2>2. Moved(d, op)
      BY <1>a, <1>c, <1>e, <1>v, <2>1 DEF Moved
    <2> QED
      BY <1>d, <2>2
  <1> QED
    BY <1>3, <1>4, <1>8, MovedKeeps

\* What require_head accepts: a document that exists at the expected head.
LEMMA HeadRequired ==
    ASSUME RowsInv, NEW q, q.doc \in Docs, RequireHead(q) = "ok"
    PROVE  /\ db.docs[q.doc] # NoDoc /\ db.docs[q.doc] \in Doc
           /\ q.expected = HeadOf(db.docs[q.doc])
           /\ q.expected.version = db.docs[q.doc].version /\ q.expected.body = db.docs[q.doc].body
  <1>1. db.docs[q.doc] # NoDoc /\ HeadOf(db.docs[q.doc]) = q.expected
    BY DEF RequireHead
  <1> QED
    BY <1>1 DEF RowsInv, Db, HeadOf

\* save: nothing new, the next version after typing, or the next version between
\* two revisions.
LEMMA SaveRowsKeep ==
    ASSUME RowsInv, NEW q, q.op \in Ops, q.doc \in Docs, q.expected \in Heads, q.body \in Bodies,
           q.gen \in Generations, q.cause \in Causes,
           NEW o \in Save(q), db' = o.db
    PROVE  RowsInv'
  <1> USE ActorConstants
  <1>1. PICK payload \in Payload : payload = SavePayload(q)
    BY DEF SavePayload, Payload
  <1>2. payload.expected = q.expected /\ payload.body = q.body /\ payload.cause = q.cause
    BY <1>1 DEF SavePayload
  <1>3. PICK kind \in {"save", "restore"} : kind = "save"
    OBVIOUS
  <1>4. PICK s : s = SaveRows(q)
    OBVIOUS
  <1>5. \/ db' = db
        \/ /\ RequireHead(q) = "ok" /\ db.receipts[q.op] = NoReceipt
           /\ q.body = q.expected.body \/ q.expected.version # VersionLimit
           /\ db' = InsertReceipt(s, q, "save", payload)
    BY <1>1, <1>4, TransactRows DEF Save, Refused, Spent
  <1>6. CASE /\ RequireHead(q) = "ok" /\ db.receipts[q.op] = NoReceipt
             /\ q.body = q.expected.body \/ q.expected.version # VersionLimit
             /\ db' = InsertReceipt(s, q, "save", payload)
    <2>1. /\ db.docs[q.doc] # NoDoc /\ db.docs[q.doc] \in Doc /\ q.expected = HeadOf(db.docs[q.doc])
          /\ q.expected.version = db.docs[q.doc].version /\ q.expected.body = db.docs[q.doc].body
      BY <1>6, HeadRequired
    <2>2. CASE q.body = db.docs[q.doc].body
      <3>1. s = db
        BY <1>4, <2>2 DEF SaveRows
      <3>2. PICK k \in {"createDocument", "save", "restore"} : k = "save"
        OBVIOUS
      <3>3. db \in Db
        BY DEF RowsInv
      <3>4. PICK w : w = InsertReceipt(db, q, k, payload)
        OBVIOUS
      <3>5. /\ w \in Db
            /\ w.receipts[q.op] = [kind |-> k, doc |-> q.doc, payload |-> payload, head |-> HeadOf(db.docs[q.doc])]
            /\ \A p \in Ops \ {q.op} : w.receipts[p] = db.receipts[p]
            /\ w.docs = db.docs /\ w.revisions = db.revisions /\ w.epoch = db.epoch /\ w.meta = db.meta
            /\ w.view = db.view
        <4>1. ReceiptLeft(db, q, k, payload, w)
          BY <2>1, <3>3, <3>4, InsertReceiptIs
        <4> QED
          BY <4>1 DEF ReceiptLeft
      <3>6. db' = w
        BY <1>6, <3>1, <3>2, <3>4
      <3>7. Noted(q.doc, q.op)
        BY <1>2, <1>6, <2>1, <2>2, <3>2, <3>5, <3>6 DEF Noted, Recorded
      <3> QED
        BY <3>5, <3>6, <3>7, NotedKeeps
    <2>3. CASE q.body # db.docs[q.doc].body
      <3>1. db.docs[q.doc].version < VersionLimit
        BY <1>6, <2>1, <2>3 DEF Doc, Versions
      <3>3. db \in Db
        BY DEF RowsInv
      <3>4. CASE q.cause = "typing"
        <4>1. s = WriteBody(db, q.doc, q.body)
          BY <1>4, <2>3, <3>4 DEF SaveRows
        <4>2. /\ s \in Db
              /\ s.docs[q.doc] \in Doc /\ \A x \in Docs \ {q.doc} : s.docs[x] = db.docs[x]
              /\ s.docs[q.doc].version = db.docs[q.doc].version + 1 /\ s.docs[q.doc].body = q.body
              /\ s.docs[q.doc].meta = db.docs[q.doc].meta /\ s.docs[q.doc].last = db.docs[q.doc].last
              /\ s.receipts = db.receipts /\ s.revisions = db.revisions /\ s.epoch = db.epoch + 1
              /\ s.meta = db.meta /\ s.view = db.view
          <5>1. BodyWritten(db, q.doc, q.body, s)
            BY <2>1, <3>1, <3>3, <4>1, WriteBodyIs
          <5> QED
            BY <5>1 DEF BodyWritten
        <4>3. Advanced(s, q.doc, payload.body) /\ Unframed(s, q.doc)
          BY <1>2, <4>2 DEF Advanced, Unframed
        <4> QED
          BY <1>2, <1>3, <1>6, <2>1, <3>4, <4>3, MovedRows
      <3>5. CASE q.cause # "typing"
        <4>1. s = CheckpointAt(WriteBody(CheckpointAt(db, q.doc), q.doc, q.body), q.doc)
          BY <1>4, <2>3, <3>5 DEF SaveRows
        <4>2. Advanced(s, q.doc, payload.body) /\ Framed(s, q.doc, payload.body)
          BY <1>2, <2>1, <3>1, <4>1, BetweenRevisions
        <4> QED
          BY <1>2, <1>3, <1>6, <2>1, <4>2, MovedRows
      <3> QED
        BY <3>4, <3>5
    <2> QED
      BY <2>2, <2>3
  <1> QED
    BY <1>5, <1>6, UnchangedKeeps

\* restore_revision: the next version between two revisions.
LEMMA RestoreRowsKeep ==
    ASSUME RowsInv, NEW q, q.op \in Ops, q.doc \in Docs, q.expected \in Heads, q.body \in Bodies,
           q.gen \in Generations, q.revision \in Versions,
           NEW o \in RestoreRevision(q), db' = o.db
    PROVE  RowsInv'
  <1> USE ActorConstants
  <1>1. PICK payload \in Payload : payload = RestorePayload(q)
    BY DEF RestorePayload, Payload
  <1>2. payload.expected = q.expected /\ payload.body = q.body
    BY <1>1 DEF RestorePayload
  <1>3. PICK kind \in {"save", "restore"} : kind = "restore"
    OBVIOUS
  <1>4. PICK s : s = RestoreRows(q)
    OBVIOUS
  <1>5. \/ db' = db
        \/ /\ RequireHead(q) = "ok" /\ db.receipts[q.op] = NoReceipt /\ q.expected.version # VersionLimit
           /\ db' = InsertReceipt(s, q, "restore", payload)
    BY <1>1, <1>4, TransactRows DEF RestoreRevision, Refused, Spent
  <1>6. CASE /\ RequireHead(q) = "ok" /\ db.receipts[q.op] = NoReceipt /\ q.expected.version # VersionLimit
             /\ db' = InsertReceipt(s, q, "restore", payload)
    <2>1. /\ db.docs[q.doc] # NoDoc /\ db.docs[q.doc] \in Doc /\ q.expected = HeadOf(db.docs[q.doc])
          /\ q.expected.version = db.docs[q.doc].version
      BY <1>6, HeadRequired
    <2>2. db.docs[q.doc].version < VersionLimit
      BY <1>6, <2>1 DEF Doc, Versions
    <2>3. s = CheckpointAt(WriteBody(CheckpointAt(db, q.doc), q.doc, q.body), q.doc)
      BY <1>4 DEF RestoreRows
    <2>4. Advanced(s, q.doc, payload.body) /\ Framed(s, q.doc, payload.body)
      BY <1>2, <2>1, <2>2, <2>3, BetweenRevisions
    <2> QED
      BY <1>2, <1>3, <1>6, <2>1, <2>4, MovedRows
  <1> QED
    BY <1>5, <1>6, UnchangedKeeps

\* checkpoint.
LEMMA CheckpointRowsKeep ==
    ASSUME RowsInv, NEW q, q.doc \in Docs, NEW o \in Checkpoint(q), db' = o.db
    PROVE  RowsInv'
  <1>1. PICK s : s = CheckpointAt(db, q.doc)
    OBVIOUS
  <1>2. db' = db \/ (RequireHead(q) = "ok" /\ db' = s)
    BY <1>1, TransactRows DEF Checkpoint, Refused
  <1>3. CASE RequireHead(q) = "ok" /\ db' = s
    <2>1. db.docs[q.doc] # NoDoc /\ db \in Db
      BY <1>3, HeadRequired DEF RowsInv
    <2>d. PICK d \in Docs : d = q.doc
      OBVIOUS
    <2>2. /\ s \in Db /\ s.docs[d] \in Doc /\ \A x \in Docs \ {d} : s.docs[x] = db.docs[x]
          /\ s.docs[d].version = db.docs[d].version /\ s.docs[d].body = db.docs[d].body
          /\ s.docs[d].meta = db.docs[d].meta
          /\ \A x \in Docs \ {d} : s.revisions[x] = db.revisions[x]
          /\ \A v \in Versions \ {db.docs[d].version} : s.revisions[d][v] = db.revisions[d][v]
          /\ IF db.revisions[d][db.docs[d].version] # NoRevision
             THEN /\ s.revisions[d][db.docs[d].version] = db.revisions[d][db.docs[d].version]
                  /\ s.docs[d].last = db.docs[d].last
             ELSE /\ s.revisions[d][db.docs[d].version]
                       = [body |-> db.docs[d].body, parent |-> db.docs[d].last]
                  /\ s.docs[d].last = db.docs[d].version
          /\ s.receipts = db.receipts /\ s.epoch = db.epoch /\ s.meta = db.meta /\ s.view = db.view
      <3>1. CheckpointTaken(db, d, s)
        BY <1>1, <2>1, <2>d, CheckpointIs
      <3> QED
        BY <3>1 DEF CheckpointTaken
    <2>3. Checkpointed(d) /\ db' \in Db
      <3>v. PICK v : v = db.docs[d].version
        OBVIOUS
      <3>1. /\ s.revisions[d][v] = KeptRevision(d, v)
            /\ s.docs[d].last = IF db.revisions[d][v] # NoRevision THEN db.docs[d].last ELSE v
        BY <2>2, <3>v DEF KeptRevision
      <3>2. OthersKept(d)
        BY <1>3, <2>2 DEF OthersKept
      <3> QED
        BY <1>3, <2>1, <2>2, <2>d, <3>v, <3>1, <3>2 DEF Checkpointed
    <2> QED
      BY <2>3, CheckpointedKeeps
  <1> QED
    BY <1>2, <1>3, UnchangedKeeps

\* save_view_state.
LEMMA ViewRowsKeep ==
    ASSUME RowsInv, NEW q, q.doc \in Docs, q.expected \in Heads, NEW o \in SaveViewState(q), db' = o.db
    PROVE  RowsInv'
  <1>1. PICK s : s = [db EXCEPT !.view = [doc |-> q.doc, head |-> q.expected]]
    OBVIOUS
  <1>2. db' = db \/ (RequireHead(q) = "ok" /\ db' = s)
    BY <1>1, TransactRows DEF SaveViewState, Refused
  <1>3. CASE RequireHead(q) = "ok" /\ db' = s
    <2>1. db.docs[q.doc] # NoDoc /\ q.expected = HeadOf(db.docs[q.doc]) /\ db \in Db
      BY <1>3, HeadRequired DEF RowsInv
    <2>2. PICK view \in [doc : Docs, head : Heads] : view = [doc |-> q.doc, head |-> q.expected]
      OBVIOUS
    <2>3. s = [db EXCEPT !.view = view]
      BY <1>1, <2>2
    <2>4. s \in Db /\ s.view = view /\ s.docs = db.docs /\ s.revisions = db.revisions /\ s.receipts = db.receipts
          /\ s.epoch = db.epoch /\ s.meta = db.meta
      BY <2>1, <2>3 DEF Db
    <2>5. Viewed(q.doc)
      BY <1>3, <2>1, <2>2, <2>4 DEF Viewed
    <2> QED
      BY <1>3, <2>4, <2>5, ViewedKeeps
  <1> QED
    BY <1>2, <1>3, UnchangedKeeps

\* rename_document.
LEMMA RenameDocumentRows ==
    ASSUME RowsInv, NEW q, q.doc \in Docs, q.title \in Titles, q.meta \in 0..(MetaLimit - 1),
           NEW o \in RenameDocument(q), db' = o.db
    PROVE  RowsInv'
  <1> USE ActorConstants
  <1>1. db \in Db /\ db.docs \in [Docs -> Doc \cup {NoDoc}] /\ db.epoch \in Nat
    BY DEF RowsInv, Db
  <1>2. PICK doc : doc = db.docs[q.doc]
    OBVIOUS
  <1>3. PICK s : s = [db EXCEPT !.docs[q.doc].title = q.title, !.docs[q.doc].meta = @ + 1, !.epoch = @ + 1]
    OBVIOUS
  <1>4. db' = db \/ (doc # NoDoc /\ doc.meta = q.meta /\ db' = s)
    BY <1>2, <1>3, TransactRows DEF RenameDocument, Refused
  <1>5. CASE doc # NoDoc /\ doc.meta = q.meta /\ db' = s
    <2>1. doc \in Doc
      BY <1>1, <1>2, <1>5
    <2>2. PICK e \in Nat : e = db.epoch + 1
      BY <1>1
    <2>3. PICK m \in 0..MetaLimit : m = doc.meta + 1
      BY <1>5, <2>1 DEF Doc
    <2>4. PICK named : named = [doc EXCEPT !.title = q.title, !.meta = m]
      OBVIOUS
    <2>5. named \in Doc /\ named.meta = m /\ named.version = doc.version /\ named.body = doc.body /\ named.last = doc.last
      BY <2>1, <2>4 DEF Doc
    <2>6. s = [db EXCEPT !.docs[q.doc].title = q.title, !.docs[q.doc].meta = m, !.epoch = e]
      BY <1>1, <1>2, <1>3, <2>1, <2>2, <2>3
    <2>7. s.docs = [db.docs EXCEPT ![q.doc].title = q.title, ![q.doc].meta = m]
      BY <1>1, <2>6 DEF Db
    <2>8. s.docs = [db.docs EXCEPT ![q.doc] = named]
      BY <1>1, <1>2, <2>4, <2>7
    <2>9. PICK docs \in [Docs -> Doc \cup {NoDoc}] : docs = s.docs
      BY <1>1, <2>5, <2>8
    <2>10. s = [db EXCEPT !.docs = docs, !.epoch = e]
      BY <1>1, <2>6, <2>9 DEF Db
    <2>11. s \in Db /\ s.epoch = e /\ s.receipts = db.receipts /\ s.revisions = db.revisions
           /\ s.meta = db.meta /\ s.view = db.view
      BY <1>1, <2>10 DEF Db
    <2>12. s.docs[q.doc] = named /\ \A x \in Docs \ {q.doc} : s.docs[x] = db.docs[x]
      BY <1>1, <2>8
    <2>13. Renamed(q.doc)
      BY <1>2, <1>5, <2>2, <2>3, <2>5, <2>11, <2>12 DEF Renamed, OthersKept
    <2> QED
      BY <1>5, <2>11, <2>13, RenamedKeeps
  <1> QED
    BY <1>4, <1>5, UnchangedKeeps

\* rename_project, with its marker or without.
LEMMA RenameProjectRows ==
    ASSUME RowsInv, NEW q, q.title \in Titles, q.meta \in 0..(MetaLimit - 1),
           NEW o \in RenameProject(q), db' = o.db
    PROVE  RowsInv'
  <1> USE ActorConstants
  <1>1. db \in Db /\ db.epoch \in Nat /\ db.meta \in Nat
    BY DEF RowsInv, Db
  <1>2. PICK s : s = [db EXCEPT !.title = q.title, !.meta = @ + 1, !.epoch = @ + 1]
    OBVIOUS
  <1>3. PICK marked : marked = [s EXCEPT !.marker = q.title]
    OBVIOUS
  <1>4. db' = db \/ (db.meta = q.meta /\ db' \in {s, marked})
    BY <1>2, <1>3, TransactRows DEF RenameProject, Refused
  <1>5. CASE db.meta = q.meta /\ db' \in {s, marked}
    <2>1. PICK e \in Nat : e = db.epoch + 1
      BY <1>1
    <2>2. PICK m \in 0..MetaLimit : m = db.meta + 1
      BY <1>1, <1>5
    <2>3. s = [db EXCEPT !.title = q.title, !.meta = m, !.epoch = e]
      BY <1>1, <1>2, <2>1, <2>2
    <2>4. s \in Db /\ s.meta = m /\ s.epoch = e /\ s.docs = db.docs /\ s.revisions = db.revisions
          /\ s.receipts = db.receipts /\ s.view = db.view
      BY <1>1, <2>3 DEF Db
    <2>5. marked \in Db /\ marked.meta = m /\ marked.epoch = e /\ marked.docs = db.docs
          /\ marked.revisions = db.revisions /\ marked.receipts = db.receipts /\ marked.view = db.view
      BY <1>3, <2>4 DEF Db
    <2>6. Retitled /\ db' \in Db
      BY <1>5, <2>1, <2>2, <2>4, <2>5 DEF Retitled
    <2> QED
      BY <2>6, RetitledKeeps
  <1> QED
    BY <1>4, <1>5, UnchangedKeeps

-----------------------------------------------------------------------------
\* The rows through every step.

\* The attachment family, a metadata read and a restart leave the rows alone.
LEMMA AttachmentRows ==
    ASSUME DoAttach \/ DoAttachSnapshot \/ DoReconcile \/ DoReadMetadata \/ Restart
    PROVE  db' = db
  <1>1. CASE DoAttach
    BY <1>1 DEF DoAttach, Attach, Apply, Refused, Answer
  <1>2. CASE DoAttachSnapshot
    BY <1>2 DEF DoAttachSnapshot, AttachSnapshot, Apply, Answer
  <1>3. CASE DoReconcile
    BY <1>3 DEF DoReconcile, Reconcile, Apply, Answer
  <1>4. CASE DoReadMetadata
    BY <1>4 DEF DoReadMetadata, ReadMetadata, Apply, Answer
  <1>5. CASE Restart
    BY <1>5 DEF Restart
  <1> QED
    BY <1>1, <1>2, <1>3, <1>4, <1>5

\* Every step keeps what the rows tell.
LEMMA RowsStep ==
    ASSUME RowsInv, [Next]_vars
    PROVE  RowsInv'
  <1>1. CASE DoCreate
    <2>1. PICK q : /\ q.op \in Ops /\ q.doc \in Docs /\ q.title \in Titles /\ q.body \in Bodies
                   /\ \E o \in CreateDocument(q) : db' = o.db
      BY <1>1 DEF DoCreate, Apply
    <2> QED
      BY <2>1, CreateRows
  <1>2. CASE DoSave
    <2>1. PICK q : /\ q.op \in Ops /\ q.doc \in Docs /\ q.expected \in Heads /\ q.body \in Bodies
                   /\ q.gen \in Generations /\ q.cause \in Causes
                   /\ \E o \in Save(q) : db' = o.db
      BY <1>2 DEF DoSave, Apply
    <2> QED
      BY <2>1, SaveRowsKeep
  <1>3. CASE DoCheckpoint
    <2>1. PICK q : q.doc \in Docs /\ \E o \in Checkpoint(q) : db' = o.db
      BY <1>3 DEF DoCheckpoint, Apply
    <2> QED
      BY <2>1, CheckpointRowsKeep
  <1>4. CASE DoRestore
    <2>1. PICK q : /\ q.op \in Ops /\ q.doc \in Docs /\ q.expected \in Heads /\ q.body \in Bodies
                   /\ q.gen \in Generations /\ q.revision \in Versions
                   /\ \E o \in RestoreRevision(q) : db' = o.db
      BY <1>4 DEF DoRestore, Apply
    <2> QED
      BY <2>1, RestoreRowsKeep
  <1>5. CASE DoSaveView
    <2>1. PICK q : q.doc \in Docs /\ q.expected \in Heads /\ \E o \in SaveViewState(q) : db' = o.db
      BY <1>5 DEF DoSaveView, Apply
    <2> QED
      BY <2>1, ViewRowsKeep
  <1>6. CASE DoRenameDocument
    <2>1. PICK q : /\ q.doc \in Docs /\ q.title \in Titles /\ q.meta \in 0..(MetaLimit - 1)
                   /\ \E o \in RenameDocument(q) : db' = o.db
      BY <1>6 DEF DoRenameDocument, Apply
    <2> QED
      BY <2>1, RenameDocumentRows
  <1>7. CASE DoRenameProject
    <2>1. PICK q : /\ q.title \in Titles /\ q.meta \in 0..(MetaLimit - 1)
                   /\ \E o \in RenameProject(q) : db' = o.db
      BY <1>7 DEF DoRenameProject, Apply
    <2> QED
      BY <2>1, RenameProjectRows
  <1>8. CASE DoAttach \/ DoAttachSnapshot \/ DoReconcile \/ DoReadMetadata \/ Restart \/ UNCHANGED vars
    BY <1>8, AttachmentRows, UnchangedKeeps DEF vars
  <1> QED
    BY <1>1, <1>2, <1>3, <1>4, <1>5, <1>6, <1>7, <1>8 DEF Next

\* A new project has no documents, receipts, revisions or changes.
LEMMA RowsInit ==
    ASSUME Init
    PROVE  RowsInv
  <1> USE ActorConstants
  <1>1. db = InitDb
    BY DEF Init
  <1>2. PICK title \in Titles : title = CHOOSE t \in Titles : TRUE
    OBVIOUS
  <1>3. /\ db.docs = [d \in Docs |-> NoDoc] /\ db.receipts = [op \in Ops |-> NoReceipt]
        /\ db.revisions = [d \in Docs |-> [v \in Versions |-> NoRevision]]
        /\ db.epoch = 0 /\ db.meta = 0 /\ db.view = NoView
    BY <1>1 DEF InitDb
  <1>4. db \in Db
    BY <1>1, <1>2 DEF InitDb, Db
  <1>5. \A p \in Ops : \A x, v : ~Rung(p, x, v)
    BY <1>3 DEF Rung
  <1>6. LastIsKept
    BY <1>3 DEF LastIsKept, NoDoc
  <1>7. OneOperationPerVersion /\ ReceiptsTellHistory /\ RevisionsTellHistory /\ ReplacedBodiesKept /\ ViewTellsHistory
    BY <1>3, <1>5 DEF OneOperationPerVersion, ReceiptsTellHistory, RevisionsTellHistory, ReplacedBodiesKept,
                      ViewTellsHistory
  <1>8. Written = {}
    BY <1>3 DEF Written
  <1>9. IsFiniteSet(Written) /\ EpochCountsChanges
    BY <1>3, <1>8, FS_EmptySet DEF EpochCountsChanges
  <1> QED
    BY <1>4, <1>6, <1>7, <1>9 DEF RowsInv

\* The stored rows tell one history, whatever was retried, replayed, left uncertain
\* or interrupted, for any documents, operations, bodies and versions: one operation
\* per version, receipts, revisions and the reading position that agree with it, both
\* sides of every replacement kept, and an epoch that counts every change.
THEOREM RowsTheorem == Spec => []RowsTellHistory
  <1>1. Init => RowsInv /\ FenceInv
    BY RowsInit, FenceInit
  <1>2. RowsInv /\ FenceInv /\ [Next]_vars => (RowsInv /\ FenceInv)'
    BY RowsStep, FenceStep
  <1>3. RowsInv /\ FenceInv => RowsTellHistory
    BY DEF RowsInv, FenceInv, RowsTellHistory, TypeOK
  <1> QED
    BY <1>1, <1>2, <1>3, PTL DEF Spec

=============================================================================
