----------------------------- MODULE Manuscript -----------------------------
(***************************************************************************)
(* The rows every writer of a project shares: documents with a head,       *)
(* immutable revisions under a version, and the context epoch that counts  *)
(* what changed in the story (crates/storage, crates/documents).  s is a   *)
(* record with at least docs, revisions and epoch.                         *)
(***************************************************************************)
EXTENDS Integers

None == "none"
NoRevision == [body |-> None, parent |-> -1]

HeadOf(doc) == [version |-> doc.version, body |-> doc.body]

\* Mutant: the next revision's parent is not moved to the one just written.
CheckpointAtKeepsLast(s, d) ==
    LET doc == s.docs[d] IN
    IF s.revisions[d][doc.version] # NoRevision THEN s
    ELSE [s EXCEPT !.revisions[d][doc.version] = [body |-> doc.body, parent |-> doc.last]]

\* storage::checkpoint_at: keep the revision already recorded at this version,
\* else record one whose parent is the last checkpoint.
CheckpointAt(s, d) ==
    LET doc == s.docs[d] IN
    IF s.revisions[d][doc.version] # NoRevision THEN s
    ELSE [s EXCEPT
            !.revisions[d][doc.version] = [body |-> doc.body, parent |-> doc.last],
            !.docs[d].last = doc.version]

\* A transaction that checkpoints several documents.
CheckpointAll(s, docs) ==
    LET need == {d \in docs : s.revisions[d][s.docs[d].version] = NoRevision} IN
    [s EXCEPT
       !.revisions = [d \in DOMAIN @ |-> IF d \in need
          THEN [@[d] EXCEPT ![s.docs[d].version] =
                  [body |-> s.docs[d].body, parent |-> s.docs[d].last]]
          ELSE @[d]],
       !.docs = [d \in DOMAIN @ |->
          IF d \in need THEN [@[d] EXCEPT !.last = s.docs[d].version] ELSE @[d]]]

\* Mutant: the body changes under the same context epoch.
WriteBodyWithoutEpoch(s, d, body) ==
    [s EXCEPT !.docs[d].version = @ + 1, !.docs[d].body = body]

\* The compare-and-set UPDATE of a body and the context_source_epoch bump.
WriteBody(s, d, body) ==
    [s EXCEPT !.docs[d].version = @ + 1, !.docs[d].body = body, !.epoch = @ + 1]

\* A document that does not exist yet.
Absent == [version |-> -1, body |-> None, last |-> -1]

\* material_adoption::write_material_target_at: a new document at version 0, or
\* the next version of an existing one between two revisions.  The caller moves
\* the epoch, once for all its targets.
WriteMaterial(s, d, body) ==
    LET kept == IF s.docs[d] = Absent THEN s ELSE CheckpointAt(s, d) IN
    CheckpointAt([kept EXCEPT !.docs[d].version = @ + 1, !.docs[d].body = body], d)

=============================================================================
