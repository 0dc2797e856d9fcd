----------------------------- MODULE ProjectChat -----------------------------
(***************************************************************************)
(* The project conversation: crates/conversation/src/project_chat.  The    *)
(* author saves a composer, submits it as a project or chapter request,    *)
(* the answer of a finished run is materialised as isolated drafts, the    *)
(* author edits, rejects or previews drafts, and an adopted preview writes *)
(* story documents.                                                        *)
(*                                                                         *)
(* A command is one transaction (see Proposals): any caller sends any      *)
(* argument at any time, and the replay of a spent operation identity is   *)
(* no step.  An item of the timeline is kept with what it refers to: a     *)
(* request and a materialisation with their run, decisions as versions,    *)
(* previews and adoption decisions in sequences of their own.              *)
(***************************************************************************)
EXTENDS Manuscript, FiniteSets, Sequences

CONSTANTS
    Notes, Chapters,     \* names of the story documents: material and chapters
    Bodies,              \* bodies of documents
    Answers,             \* what an assistant proposes: drafts, each new, replacing a
                         \* document or following a draft, and perhaps a relationship
    Runs, Ordinals,      \* discussion runs, positions of an output's drafts
    Previews,            \* previews of an adoption
    Namespaces,          \* operation namespaces, in the order copies take them
    VersionLimit,        \* bound on document versions
    AttachLimit,         \* bound on the references of a composer
    ComposerLimit,       \* bound on composer versions
    ChangeLimit          \* bound on everything but requests and adoptions: edits and
                         \* decisions of drafts, story saves, policy changes, copies

ASSUME ChatConstants ==
    /\ \A x \in Answers : DOMAIN x.drafts \subseteq Ordinals
    /\ Ordinals \subseteq 1..3 /\ VersionLimit \in Nat
    /\ AttachLimit \in 0..3
    /\ ChangeLimit \in Nat /\ ComposerLimit \in Nat

VARIABLE db

\* Document identities: story documents, assistant drafts (role assistantDraft)
\* and the documents an adoption creates.
Story == {<<"story", n, 0>> : n \in Notes \cup Chapters}
Chapter == {<<"story", n, 0>> : n \in Chapters}
Draft == {<<"draft", r, i>> : r \in Runs, i \in Ordinals}
Created(p) == <<"new", p[2], p[3]>>
Docs == Story \cup Draft \cup {Created(p) : p \in Draft}
NoDoc == <<None, None, 0>>
NoHead == [doc |-> NoDoc, head |-> HeadOf(Absent)]

NoPreview == [run |-> None]
Blank == [text |-> FALSE, sources |-> {}, drafts |-> {}, chapter |-> NoHead]
NoRun == [status |-> None]

Ordinary == {d \in Docs \ Draft : db.docs[d] # Absent}
Heads(docs) == {[doc |-> d, head |-> HeadOf(db.docs[d])] : d \in docs}
IsCurrent(h) == HeadOf(db.docs[h.doc]) = h.head

Init ==
    \E body \in Bodies :
      db = [docs |-> [d \in Docs |-> IF d \in Story
                        THEN [version |-> 0, body |-> body, last |-> -1] ELSE Absent],
            revisions |-> [d \in Docs |-> [v \in 0..VersionLimit |-> NoRevision]],
            epoch |-> 0, policy |-> 0, workshop |-> 0, namespace |-> 1,
            conversations |-> [n \in Namespaces |-> [version |-> -1, body |-> Blank]],
            previews |-> [q \in Previews |-> NoPreview],
            adoptions |-> <<>>,
            runs |-> [r \in Runs |-> NoRun],
            drafts |-> [p \in Draft |-> [disposition |-> None]],
            snapshots |-> <<>>, changes |-> 0]

-----------------------------------------------------------------------------
\* The conversation and its composer.

Conversation == db.conversations[db.namespace]

\* require_conversation: the conversation of the current project identity.
HasConversation == Conversation.version >= 0

\* ensure_conversation, on the first read under a project identity.
OpenConversation ==
    /\ ~HasConversation
    /\ db' = [db EXCEPT !.conversations[db.namespace] = [version |-> 0, body |-> Blank]]

\* What a draft is known by: its head and its disposition version.
DraftRef(p) == [doc |-> p, head |-> HeadOf(db.docs[p]), version |-> db.drafts[p].version]
OwnDrafts == {p \in Draft : db.drafts[p].disposition # None
                              /\ db.runs[p[2]].namespace = db.namespace}

\* What the author can put in the composer: references seen in the project now.
Composers ==
    {c \in [text : {TRUE}, sources : SUBSET Heads(Ordinary),
             drafts : SUBSET {DraftRef(p) : p \in OwnDrafts}, chapter : {NoHead}] :
       Cardinality(c.sources) + Cardinality(c.drafts) <= AttachLimit}
      \cup [text : {TRUE}, sources : {{}}, drafts : {{}}, chapter : Heads(Chapter)]

\* save_project_composer: compare-and-set on the composer version.  Its item and
\* receipt refer to nothing else and are left out.
SaveComposer ==
    /\ HasConversation /\ Conversation.version < ComposerLimit
    /\ \E c \in Composers :
         db' = [db EXCEPT !.conversations[db.namespace] = [version |-> @.version + 1, body |-> c]]

-----------------------------------------------------------------------------
\* Requests.

Active(r) == db.runs[r].status = "running"

Busy == \E r \in Runs : Active(r) /\ db.runs[r].namespace = db.namespace

\* project_chat_basis_is_current, the part about sources and attached drafts.
AttachedCurrent(sources, drafts) ==
    /\ \A h \in sources : IsCurrent(h)
    /\ \A ref \in drafts : db.drafts[ref.doc].disposition = "pending" /\ DraftRef(ref.doc) = ref

\* The decisions on questions of the conversation: how many each answer has.
Decisions ==
    [r \in Runs |-> IF db.runs[r] # NoRun /\ db.runs[r].namespace = db.namespace
                    THEN db.runs[r].decided ELSE 0]

\* The handles an output may use: the frozen revisions of story documents for
\* its targets, those of the attached drafts for its predecessors.
AllowedTargets(sources) == {NoHead} \cup sources
AllowedPredecessors(drafts) == {NoDoc} \cup {ref.doc : ref \in drafts}

\* validate_output: every handle of every draft is allowed.
ValidOutput(output, sources, drafts) ==
    \A i \in DOMAIN output.drafts :
      /\ output.drafts[i].target \in AllowedTargets(sources)
      /\ output.drafts[i].predecessor \in AllowedPredecessors(drafts)

\* parse_project_assistant_output_with_predecessors_and_chapters.
Parses(output, sources, drafts) ==
    output.text = "answer" /\ ValidOutput(output, sources, drafts)

\* collect_project_chat_dispositions: every decided output is parsed again,
\* with the handles of the context being frozen.
DecisionsResolve(sources, drafts) ==
    \A r \in Runs : Decisions[r] > 0 => Parses(db.runs[r].output, sources, drafts)

\* Mutant: a request may be sent while another of the conversation runs.
SubmitUnguarded(r) == HasConversation /\ db.runs[r] = NoRun /\ Conversation.body.text

\* The common guards of both requests: no active request of this conversation,
\* and the composer the caller submits is the stored one.
Submit(r) ==
    /\ HasConversation /\ db.runs[r] = NoRun
    /\ ~Busy
    /\ Conversation.body.text

\* An output without an answer: not yet an answer, or more text than one.
NoAnswer(text) == [text |-> text, drafts |-> <<>>, link |-> FALSE]

\* The run with its request item, and the cleared composer (start_project_chat,
\* start_project_chapter, from the point where everything is checked).
Accept(s, r, target, basis) ==
    [s EXCEPT
       !.runs[r] = [status |-> "running", namespace |-> db.namespace, target |-> target,
                    composer |-> Conversation.version,
                    sources |-> Heads(Ordinary), attached |-> basis.sources,
                    drafts |-> basis.drafts, decisions |-> Decisions,
                    epoch |-> db.epoch, policy |-> db.policy,
                    output |-> NoAnswer("partial"),
                    materialized |-> FALSE, event |-> {}, decided |-> 0, early |-> FALSE],
       !.conversations[db.namespace] = [version |-> @.version + 1, body |-> Blank]]

\* start_project_chat with augment_frozen_chat.
StartChat(r) ==
    LET c == Conversation.body IN
    /\ Submit(r) /\ c.chapter = NoHead
    /\ AttachedCurrent(c.sources, c.drafts)
    /\ DecisionsResolve(Heads(Ordinary), c.drafts)
    /\ db' = Accept(CheckpointAll(db, Ordinary \cup {ref.doc : ref \in c.drafts}),
                    r, NoHead, c)

\* start_project_chapter: the chapter is the one the composer names.
StartChapter(r) ==
    LET c == Conversation.body IN
    /\ Submit(r) /\ c.chapter # NoHead
    /\ IsCurrent(c.chapter) /\ c.drafts = {}
    /\ db' = Accept(CheckpointAll(db, {c.chapter.doc}), r, c.chapter, [sources |-> {}, drafts |-> {}])

\* The answers a run can give.
AnswersOf(run) ==
    LET materials == {h \in run.sources : h.doc \notin Chapter}
        entries(x) == {e \in [DOMAIN x.drafts -> [target : {NoHead} \cup materials,
                                 predecessor : {NoDoc} \cup {ref.doc : ref \in run.drafts},
                                 body : {x.drafts[i].body : i \in DOMAIN x.drafts}]] :
                         \A i \in DOMAIN x.drafts :
                           /\ e[i].body = x.drafts[i].body
                           /\ (e[i].target # NoHead) = (x.drafts[i].how = "replace")
                           /\ (e[i].predecessor # NoDoc) = (x.drafts[i].how = "follow")}
    IN  UNION {{[text |-> "answer", drafts |-> e, link |-> x.link] : e \in entries(x)}
                 : x \in Answers}

\* validate_final_output: what is stored of an output is only added to, so that
\* text after an answer makes it unusable for good.
Grown(run) ==
    {run.output} \cup
    CASE run.output.text = "partial" -> AnswersOf(run)
      [] run.output.text = "answer" -> {NoAnswer("beyond")}
      [] OTHER -> {}

\* append_discussion_output.
AppendOutput(r) ==
    /\ Active(r)
    /\ \E output \in Grown(db.runs[r]) \ {db.runs[r].output} :
         db' = [db EXCEPT !.runs[r].output = output]

\* The run ends, completed or not, with the rest of its output.
FinishRun(r) ==
    /\ Active(r)
    /\ \E output \in Grown(db.runs[r]), status \in {"completed", "failed"} :
         db' = [db EXCEPT !.runs[r].status = status, !.runs[r].output = output]

-----------------------------------------------------------------------------
\* Drafts.

\* The project runs of this conversation whose result may be materialised: the
\* terminal event is the output itself, which only a completed run has
\* (read_terminal_run).
Materializable(r) ==
    /\ db.runs[r].status = "completed" /\ db.runs[r].namespace = db.namespace
    /\ db.runs[r].target = NoHead

\* The drafts of a run's output: none unless it parses with its own frozen handles.
Entries(run) ==
    IF Parses(run.output, run.sources, run.drafts) THEN run.output.drafts ELSE <<>>


\* insert_draft: an isolated document with its first revision, and its row.
InsertDraft(s, p, entry) ==
    [s EXCEPT
       !.docs[p] = [version |-> 0, body |-> entry.body, last |-> 0],
       !.revisions[p][0] = [body |-> entry.body, parent |-> -1],
       !.drafts[p] = [disposition |-> "pending", version |-> 0, target |-> entry.target,
                      predecessor |-> entry.predecessor]]

\* replay_materialization: the identity derived from the run is spent.
Materialized(r) == db.runs[r].materialized

\* materialize_chat_result: once per run, at any time after the run ended.
Materialize(r) ==
    /\ Materializable(r) /\ ~Materialized(r)
    /\ LET entries == Entries(db.runs[r])
           insert[i \in 0..Len(entries)] ==
             IF i = 0 THEN db ELSE InsertDraft(insert[i - 1], <<"draft", r, i>>, entries[i])
       IN  db' = [insert[Len(entries)] EXCEPT
             !.runs[r].materialized = TRUE,
             !.runs[r].event = {<<"draft", r, i>> : i \in DOMAIN entries}]

\* read_draft: the draft was made for another story than the current one.  The
\* decisions of the conversation are read again with the frozen handles.
Stale(p) ==
    LET run == db.runs[p[2]] IN
    ~ /\ run.epoch = db.epoch /\ run.policy = db.policy
      /\ AttachedCurrent(run.attached, run.drafts)
      /\ run.decisions = Decisions
\* read_draft fails when a decided output does not parse with those handles.
Readable(p) == DecisionsResolve(db.runs[p[2]].sources, db.runs[p[2]].drafts)

\* Only a pending draft of this conversation is edited.
Editable(p) == p \in OwnDrafts /\ db.drafts[p].disposition = "pending"

\* save_assistant_draft: the draft changes, the story and its epoch do not.
\* An undo or redo is kept between two revisions.
SaveAssistantDraft(p) ==
    /\ Editable(p)
    /\ db.docs[p].version < VersionLimit /\ db.changes < ChangeLimit
    /\ \E body \in Bodies \ {db.docs[p].body}, typing \in BOOLEAN :
         LET write(s) == [s EXCEPT !.docs[p].version = @ + 1, !.docs[p].body = body]
             saved == IF typing THEN write(db) ELSE CheckpointAt(write(CheckpointAt(db, p)), p)
         IN  db' = [saved EXCEPT !.changes = @ + 1]

\* checkpoint_assistant_draft.
CheckpointDraft(p) ==
    /\ p \in OwnDrafts /\ db.revisions[p][db.docs[p].version] = NoRevision
    /\ db' = CheckpointAt(db, p)

\* set_chat_disposition on a draft: whatever its disposition is, at the version
\* the caller saw.
DecideDraft(p) ==
    /\ p \in OwnDrafts /\ db.changes < ChangeLimit
    /\ \E status \in {"rejected", "superseded"} :
         db' = [db EXCEPT !.drafts[p].disposition = status, !.drafts[p].version = @ + 1,
                         !.changes = @ + 1]

\* set_chat_disposition on a question of an answer: the output stored so far must
\* parse with its own frozen handles, whatever has become of the run.  "early"
\* remembers a decision on an output that may still grow.
DecideQuestion(r) ==
    /\ db.runs[r] # NoRun /\ db.runs[r].namespace = db.namespace
    /\ db.runs[r].target = NoHead
    /\ Parses(db.runs[r].output, db.runs[r].sources, db.runs[r].drafts)
    /\ db.changes < ChangeLimit
    /\ db' = [db EXCEPT !.runs[r].decided = @ + 1, !.runs[r].early = @ \/ Active(r),
                        !.changes = @ + 1]

-----------------------------------------------------------------------------
\* Adoption.

\* The document a draft is adopted into.
TargetOf(p) == IF db.drafts[p].target = NoHead THEN Created(p) ELSE db.drafts[p].target.doc

\* build_adoption_effects, resolve_effect_ref: a relationship the output proposes
\* for its first draft needs that draft in the group.
LinkIncluded(r, group) == db.runs[r].output.link => <<"draft", r, 1>> \in group

\* require_exact_draft_ref, read_group_origin: a pending draft of an answer
\* that is about the current story.
Adoptable(p) == db.drafts[p].disposition = "pending" /\ Readable(p) /\ ~Stale(p)

\* prepare: one to three pending drafts of one answer that is still about the
\* current story, each with its exact reference, distinct targets with the
\* head the draft was made for.  The drafts and the documents they replace
\* get revisions; the preview is kept.
MayPrepare(r, group) ==
    /\ group # {} /\ Cardinality(group) <= 3
    /\ \A p \in group : Adoptable(p)
    /\ \A p, x \in group : TargetOf(p) = TargetOf(x) => p = x
    /\ \A p \in group : db.drafts[p].target # NoHead => IsCurrent(db.drafts[p].target)
    /\ LinkIncluded(r, group)

\* What the preview keeps, from the story as it was checkpointed.
PreviewOf(kept, r, group, replaced) ==
    [run |-> r,
     refs |-> {DraftRef(p) : p \in group},
     before |-> {[doc |-> d, head |-> HeadOf(db.docs[d]), last |-> kept.docs[d].last] : d \in replaced},
     epoch |-> db.epoch, policy |-> db.policy, workshop |-> db.workshop]

PrepareAdoption(q) ==
    /\ HasConversation /\ db.previews[q] = NoPreview
    /\ \E r \in Runs :
       \E group \in SUBSET {p \in OwnDrafts : p[2] = r} :
         /\ MayPrepare(r, group)
         /\ LET replaced == {TargetOf(p) : p \in {x \in group : db.drafts[x].target # NoHead}}
                kept == CheckpointAll(db, group \cup replaced)
            IN  db' = [kept EXCEPT !.previews[q] = PreviewOf(kept, r, group, replaced)]

\* Mutant: the drafts are compared, the story they were reviewed against is not.
PreviewDraftsOnly(preview) ==
    \A ref \in preview.refs : db.drafts[ref.doc].disposition = "pending" /\ DraftRef(ref.doc) = ref

\* expand_document_ref, validate_effects_current: a document to be replaced has
\* the head and the last revision of the preview.
BeforeCurrent(b) == IsCurrent(b) /\ db.docs[b.doc].last = b.last

\* validate_preview_current: nothing the author reviewed has changed.
PreviewCurrent(preview) ==
    /\ preview.epoch = db.epoch /\ preview.policy = db.policy
    /\ preview.workshop = db.workshop
    /\ \A b \in preview.before : BeforeCurrent(b)
    /\ \A ref \in preview.refs :
         /\ Adoptable(ref.doc)
         /\ db.docs[ref.doc].last = ref.head.version
         /\ DraftRef(ref.doc) = ref

\* The relationships of the workshop, as its last snapshot has them.
Relationships ==
    IF db.snapshots = <<>> THEN {} ELSE db.snapshots[Len(db.snapshots)].links

\* All targets of the group, in the order of the preview.
AdoptAll(s, group) ==
    LET write[i \in 0..3] ==
          IF i = 0 THEN s
          ELSE LET p == <<"draft", (CHOOSE q \in group : TRUE)[2], i>> IN
               IF p \in group
               THEN WriteMaterial(write[i - 1], TargetOf(p), s.docs[p].body)
               ELSE write[i - 1]
    IN  write[3]

\* adopt: every target is written, the epoch moves once, the relationships join
\* the workshop, the drafts become adopted, with the decision and its receipt.
Adopt(q) ==
    /\ db.previews[q] # NoPreview /\ db.runs[db.previews[q].run].namespace = db.namespace
    /\ PreviewCurrent(db.previews[q])
    /\ LET group == {ref.doc : ref \in db.previews[q].refs}
           first == <<"draft", db.previews[q].run, 1>>
           linked == db.runs[db.previews[q].run].output.link
           written == AdoptAll(db, group)
           headOf(p) == [doc |-> TargetOf(p), head |-> HeadOf(written.docs[TargetOf(p)])]
       IN  /\ \A p \in group : db.docs[TargetOf(p)].version < VersionLimit
           /\ db' = [written EXCEPT
                !.adoptions = Append(@, [preview |-> q, documents |-> {headOf(p) : p \in group}]),
                !.epoch = @ + 1,
                !.workshop = IF linked THEN @ + 1 ELSE @,
                !.snapshots = IF linked
                    THEN Append(@, [adoption |-> Len(db.adoptions) + 1,
                                    links |-> Relationships \cup {headOf(first)}])
                    ELSE @,
                !.drafts = [p \in Draft |-> IF p \in group
                    THEN [@[p] EXCEPT !.disposition = "adopted", !.version = @ + 1] ELSE @[p]]]

-----------------------------------------------------------------------------
\* The other writers.

SaveStory(d) ==
    /\ d \in Ordinary /\ db.docs[d].version < VersionLimit /\ db.changes < ChangeLimit
    /\ \E body \in Bodies \ {db.docs[d].body} : 
         db' = [WriteBody(db, d, body) EXCEPT !.changes = @ + 1]

ChangePolicy ==
    /\ db.changes < ChangeLimit
    /\ db' = [db EXCEPT !.policy = @ + 1, !.epoch = @ + 1, !.changes = @ + 1]

CopyProject ==
    /\ db.namespace + 1 \in Namespaces /\ db.changes < ChangeLimit
    /\ db' = [db EXCEPT !.namespace = @ + 1, !.changes = @ + 1]

Next ==
    \/ OpenConversation
    \/ SaveComposer
    \/ \E q \in Previews : PrepareAdoption(q) \/ Adopt(q)
    \/ \E r \in Runs : \/ StartChat(r) \/ StartChapter(r)
                       \/ AppendOutput(r) \/ FinishRun(r) \/ Materialize(r) \/ DecideQuestion(r)
    \/ \E p \in Draft : SaveAssistantDraft(p) \/ CheckpointDraft(p) \/ DecideDraft(p)
    \/ \E d \in Docs : SaveStory(d)
    \/ ChangePolicy
    \/ CopyProject

Spec == Init /\ [][Next]_db

-----------------------------------------------------------------------------
\* A head that is kept as a revision of its document.
Kept(h) == db.revisions[h.doc][h.head.version].body = h.head.body

\* validate_run: a request belongs to a conversation that exists, and its
\* chapter, if any, is an ordinary chapter kept as it was asked about.
RunValidates(r) ==
    LET run == db.runs[r] IN
    /\ db.conversations[run.namespace].version > run.composer
    /\ run.target # NoHead => run.target.doc \in Chapter /\ Kept(run.target)

\* validate_materialization: the event names every draft of the run, and only a
\* completed run has any.
EventValidates(r) ==
    LET drafts == {p \in Draft : p[2] = r /\ db.drafts[p].disposition # None} IN
    /\ db.runs[r].event = drafts
    /\ drafts # {} => db.runs[r].status = "completed" /\ db.runs[r].materialized

\* validate_backup_preview: the drafts and the documents a preview compared are
\* kept as revisions.
PreviewValidates(q) ==
    /\ \A ref \in db.previews[q].refs : ref.doc[2] = db.previews[q].run /\ Kept(ref)
    /\ \A b \in db.previews[q].before : Kept(b)

\* validate_assistant_drafts.
DraftValidates(p) ==
    LET draft == db.drafts[p]
        n == db.runs[p[2]].namespace
    IN  /\ db.revisions[p][0] # NoRevision /\ db.docs[p].last >= 0
        /\ draft.target # NoHead => draft.target.doc \in Ordinary /\ Kept(draft.target)
        /\ draft.predecessor # NoDoc =>
             /\ draft.predecessor # p /\ db.drafts[draft.predecessor].disposition # None
             /\ db.runs[draft.predecessor[2]].namespace = n

\* validate_conversation_items, validate_command_receipts: an adoption decision
\* and its receipt name a preview and the revisions the adoption wrote.
DecisionValidates(i) ==
    LET preview == db.previews[db.adoptions[i].preview] IN
    /\ preview # NoPreview
    /\ Cardinality(db.adoptions[i].documents) = Cardinality(preview.refs)
    /\ \A h \in db.adoptions[i].documents : Kept(h)

\* validate_chat_workshop_snapshot: a snapshot is the one before it with the
\* relationships of its adoption, whose documents are the next versions of
\* those previewed, with the bodies of the drafts.
SnapshotValidates(i) ==
    LET snapshot == db.snapshots[i]
        adoption == db.adoptions[snapshot.adoption]
        preview == db.previews[adoption.preview]
        next(ref) ==
          [doc |-> TargetOf(ref.doc),
           head |-> [version |-> IF db.drafts[ref.doc].target = NoHead THEN 0
                                 ELSE db.drafts[ref.doc].target.head.version + 1,
                     body |-> ref.head.body]]
    IN  /\ db.runs[preview.run].output.link /\ i = preview.workshop + 1
        /\ adoption.documents = {next(ref) : ref \in preview.refs}
        /\ snapshot.links = {next(ref) : ref \in {x \in preview.refs : x.doc[3] = 1}}
                              \cup (IF i = 1 THEN {} ELSE db.snapshots[i - 1].links)

\* Mutant: the head of the chapter is not compared.
ComposerValidatesKept(n) ==
    LET composer == db.conversations[n].body IN
    /\ \A h \in composer.sources : h.doc \in Ordinary
    /\ composer.chapter # NoHead => composer.chapter.doc \in Chapter
    /\ \A ref \in composer.drafts : db.runs[ref.doc[2]].namespace = n

\* validate_composer: the composer names ordinary documents, a chapter at its
\* current head and drafts of its own conversation.
ComposerValidates(n) ==
    LET composer == db.conversations[n].body IN
    /\ \A h \in composer.sources : h.doc \in Ordinary
    /\ composer.chapter # NoHead =>
         composer.chapter.doc \in Chapter /\ IsCurrent(composer.chapter)
    /\ \A ref \in composer.drafts : db.runs[ref.doc[2]].namespace = n

\* validate_disposition_payload: the output of a decided question is JSON.
QuestionValidates(r) == db.runs[r].decided > 0 => db.runs[r].output.text # "beyond"

\* validate_conversation_items: every item by its kind, a decision on a question
\* apart (QuestionValidates).
ItemsValidate ==
    /\ \A r \in Runs : db.runs[r] # NoRun => RunValidates(r) /\ EventValidates(r)
    /\ \A q \in Previews : db.previews[q] # NoPreview => PreviewValidates(q)
    /\ \A i \in DOMAIN db.adoptions : DecisionValidates(i)

\* validate_storage, its composers and questions apart, with the snapshots of
\* the links.
StorageValidates ==
    /\ ItemsValidate
    /\ \A p \in Draft : db.drafts[p].disposition # None => DraftValidates(p)
    /\ \A i \in DOMAIN db.snapshots : SnapshotValidates(i)

\* The chapter a composer is about was written after the composer was saved.
ChapterMoved(n) ==
    LET chapter == db.conversations[n].body.chapter IN
    chapter # NoHead /\ db.docs[chapter.doc].version > chapter.head.version


\* A conversation has one request under way, and what the author submitted once
\* is never sent twice: every request consumed a composer version of its own
\* (start_project_chat, start_project_chapter).
SubmittedOnce ==
    \A r, x \in Runs :
      r # x /\ db.runs[r] # NoRun /\ db.runs[x] # NoRun
            /\ db.runs[r].namespace = db.runs[x].namespace =>
        /\ db.runs[r].composer # db.runs[x].composer
        /\ ~(Active(r) /\ Active(x))

\* Adoption writes what was reviewed, all of it, into the story the answer was
\* about: the documents are those the run saw, every target of the preview gets
\* the body of the reviewed draft revision, nothing else changes and the epoch
\* moves once (adopt, validate_preview_current).
AdoptsWhatWasReviewed ==
    [][Len(db'.adoptions) > Len(db.adoptions) =>
           LET preview == db.previews[db'.adoptions[Len(db'.adoptions)].preview]
               targets == {TargetOf(ref.doc) : ref \in preview.refs}
           IN  /\ Heads(Ordinary) = db.runs[preview.run].sources
               /\ \A ref \in preview.refs :
                    /\ db.drafts[ref.doc].disposition = "pending"
                    /\ db'.drafts[ref.doc].disposition = "adopted"
                    /\ db'.docs[TargetOf(ref.doc)].body = ref.head.body
                    /\ db'.docs[TargetOf(ref.doc)].version = db.docs[TargetOf(ref.doc)].version + 1
               /\ \A d \in Docs \ targets : HeadOf(db'.docs[d]) = HeadOf(db.docs[d])
               /\ db'.epoch = db.epoch + 1]_db
=============================================================================
