---------------------------- MODULE StoryContext ----------------------------
(***************************************************************************)
(* What a model may be told: crates/story/src/story_context.rs and         *)
(* source_pins.rs, crates/context/src (eligibility, frozen, reviewed sets),*)
(* crates/conversation/src/guidance.rs and discussions/packet.rs, and the  *)
(* exports of crates/transfer/src/exports.rs.  A request freezes a         *)
(* snapshot of the story: the documents its audience may read, the         *)
(* author's guidance, and the reviewed evidence of ReviewedStory.          *)
(*                                                                         *)
(* Snapshots here have no derived sources, as in the code that freezes     *)
(* them: every source is a document at its checkpoint.  Navigation views   *)
(* and the conversation of a discussion are left out, aliases too but for  *)
(* the epoch they move.                                                    *)
(***************************************************************************)
EXTENDS ReviewedStory

CONSTANTS
    Freezes,         \* requests of freeze_story: target, purpose, audience, frontier
    Discussions,     \* discussion requests: target, purpose, basis
    GuidanceIds,
    GuidanceSaves,   \* what a guidance save may ask: scope, document, active
    PinSaves         \* pins the author may save: a document, and documents for it

NoGuidance == 0
NoFrontier == 0
NoSnapshot == 0
NoPreview == [doc |-> None]

Init ==
    db = [story |-> InitStory, snapshots |-> <<>>,
          guidance |-> <<>>, current |-> [g \in GuidanceIds |-> NoGuidance], uses |-> {},
          pins |-> [d \in Docs |-> [namespace |-> 1, version |-> 0, docs |-> {}]],
          preview |-> NoPreview, exports |-> {}, work |-> 0, asides |-> 0]

-----------------------------------------------------------------------------
\* Eligibility (crates/context/src/eligibility.rs).

\* The SourceDescriptor of a document; a chapter is disclosed at its position.
Descriptor(s, d, kind) ==
    [doc |-> d, head |-> HeadOf(s.docs[d]), kind |-> kind,
     position |-> IF d \in Chapter THEN Position(d) ELSE NoFrontier,
     authorOnly |-> d \notin Chapter]

TargetOf(f) == CHOOSE d \in f.sources : d.doc = f.target /\ d.kind = "currentDraft"

\* author_room_structured_revision_allowed.
StructuredRevision(f) ==
    /\ f.purpose = "revise" /\ f.basis = "working" /\ f.audience = "author"
    /\ f.frontier = NoFrontier /\ TargetOf(f).authorOnly

\* evaluate_sources up to its walk, with validate_policy.
PolicyAllows(f) ==
    /\ f.audience = "restricted" => f.frontier # NoFrontier
    /\ f.purpose = "memory" =>
         /\ f.basis = "working" /\ f.sources = {TargetOf(f)} /\ ~TargetOf(f).authorOnly
         /\ f.audience = "author" /\ f.frontier = NoFrontier
    /\ f.audience = "author" /\ f.purpose \in {"revise", "continue"} => StructuredRevision(f)
    /\ f.basis = "reviewed" => f.purpose = "continue" /\ f.audience = "restricted"

\* apply_basis_policy.
BasisAllows(f, d) ==
    f.basis = "reviewed" =>
        d.kind = (IF d.doc = f.target THEN "currentDraft" ELSE "reviewedAuthority")

\* apply_disclosure_policy: restricted writing reads what its reader has read.
DisclosureAllows(f, d) ==
    f.audience = "author" \/ (~d.authorOnly /\ d.position \in 1..f.frontier)

\* validate_basis_manifest: the authority sources are the members of the manifest.
ManifestBound(f) ==
    IF f.basis = "working" THEN f.manifest = <<>>
    ELSE /\ f.manifest # <<>>
         /\ TargetOf(f).position = f.frontier
         /\ {[doc |-> d.doc, head |-> d.head] : d \in {d \in f.sources : d.kind = "reviewedAuthority"}}
            = {[doc |-> m.doc, head |-> m.head] : m \in ToSet(f.manifest)}
         /\ \A i, j \in 1..Len(f.manifest) :
               f.manifest[i].doc = f.manifest[j].doc \/ f.manifest[i].bundle = f.manifest[j].bundle
               => i = j

\* evaluate_sources: every selected source passes, the target among them.
Eligible(f, selected) ==
    /\ PolicyAllows(f) /\ ManifestBound(f)
    /\ TargetOf(f) \in selected
    /\ \A d \in selected : BasisAllows(f, d) /\ DisclosureAllows(f, d)

-----------------------------------------------------------------------------
\* Reviewed evidence inside a snapshot (crates/context/src/reviewed_evidence.rs and its kin).

\* The requests and sources reviewed evidence may go with.
EvidenceUsable(f, d) ==
    \/ /\ f.basis = "working" /\ f.audience = "author"
       /\ f.purpose \in {"discuss", "plan", "storyQuestion"}
    \/ /\ f.basis = "reviewed" /\ f.audience = "restricted" /\ f.purpose = "continue"
       /\ d.kind = "reviewedAuthority"

InManifest(f, bundle, doc, head) ==
    \E m \in ToSet(f.manifest) : m.bundle = bundle /\ m.doc = doc /\ m.head = head

\* validate_frozen_evidence_set, and the same for promises and knowledge.
ValidFrozenSet(f, set) ==
    /\ set.quotes # {}
    /\ \E d \in f.sources : d.doc = set.doc /\ d.head = set.head /\ EvidenceUsable(f, d)
    /\ f.basis = "reviewed" => InManifest(f, set.bundle, set.doc, set.head)

\* reviewed_summaries::validate_frozen_set: what the summary was written on is there.
ValidFrozenSummary(f, m) ==
    /\ \E d \in f.sources : d.doc = m.summary.doc /\ d.head = m.summary.head /\ EvidenceUsable(f, d)
    /\ f.basis = "reviewed" => InManifest(f, m.bundle, m.summary.doc, m.summary.head)
    /\ \A dep \in ToSet(m.summary.dependencies) :
         /\ \E d \in f.sources : d.doc = dep.doc /\ d.head = dep.head
         /\ f.basis = "reviewed" => InManifest(f, dep.bundle, dep.doc, dep.head)

EvidenceSets(s, chapters) ==
    UNION {{[kind |-> k, bundle |-> s.heads[c], doc |-> c, head |-> s.bundles[s.heads[c]].head,
             quotes |-> s.bundles[s.heads[c]].evidence[k]] :
                k \in {k \in Kinds : s.bundles[s.heads[c]].evidence[k] # {}}} : c \in chapters}
Summaries(s, chapters) ==
    UNION {{[bundle |-> s.heads[c], summary |-> m] : m \in s.bundles[s.heads[c]].summary} :
               c \in chapters}

FrozenEvidenceValid(f) ==
    /\ \A set \in f.sets : ValidFrozenSet(f, set)
    /\ \A m \in f.summaries : ValidFrozenSummary(f, m)

-----------------------------------------------------------------------------
\* Guidance (crates/context/src/guidance.rs, crates/conversation/src/guidance.rs).

\* read_guidance: the current version, active, for this document, and not used up.
Applicable(v, target) ==
    /\ db.guidance[v].active /\ db.guidance[v].doc \in {None, target}
    /\ db.guidance[v].scope = "request" => \A u \in db.uses : u.version # v

\* select_guidance_at.
SelectedGuidance(target, withRequest) ==
    {v \in {db.current[g] : g \in GuidanceIds} \ {NoGuidance} :
        Applicable(v, target) /\ (withRequest \/ db.guidance[v].scope # "request")}

RequestGuidance(versions) == {v \in versions : db.guidance[v].scope = "request"}

\* retry_request_guidance_at: what the first attempt used, if it still stands.
RetryGuidanceStands(f) ==
    \A v \in RequestGuidance(f.guidance) :
        /\ db.guidance[v].active /\ db.current[db.guidance[v].id] = v
        /\ \E u \in db.uses : u.version = v /\ v \in db.snapshots[u.snapshot].guidance
                              /\ db.snapshots[u.snapshot].namespace = db.story.namespace

\* save_guidance: a version that changes nothing is not a new one.
SaveGuidance(g, save) ==
    LET v == Len(db.guidance) + 1
        number == IF db.current[g] = NoGuidance THEN 1 ELSE db.guidance[db.current[g]].number + 1 IN
    [db EXCEPT !.guidance = Append(@, [id |-> g, number |-> number, scope |-> save.scope,
                                       doc |-> save.doc, active |-> save.active]),
               !.current[g] = v, !.story.epoch = @ + 1]

-----------------------------------------------------------------------------
\* Freezing a snapshot.

Request(target, purpose, audience, frontier) ==
    [target |-> target, purpose |-> purpose, audience |-> audience, frontier |-> frontier]

Frozen(r, basis, sources, manifest, chapters, guidance) ==
    LET s == db.story IN
    [namespace |-> s.namespace, epoch |-> s.epoch, policy |-> s.policy,
     target |-> r.target, purpose |-> r.purpose, audience |-> r.audience,
     frontier |-> r.frontier, basis |-> basis, sources |-> sources, manifest |-> manifest,
     sets |-> EvidenceSets(s, chapters), summaries |-> Summaries(s, chapters),
     guidance |-> guidance, root |-> NoSnapshot]

\* freeze_story_impl: every present document is a candidate (the chapter alone for
\* the analysis of its memory); each is tried together with the target.
Candidates(r) ==
    {Descriptor(db.story, d, "currentDraft") :
        d \in IF r.purpose = "memory" THEN {r.target}
              ELSE {d \in Docs : Present(db.story, d)}}
WorkingSources(r) ==
    LET bare == Frozen(r, "working", {Descriptor(db.story, r.target, "currentDraft")}, <<>>, {}, {})
    IN {d \in Candidates(r) :
          LET tried == [bare EXCEPT !.sources = @ \cup {d}] IN Eligible(tried, tried.sources)}

WorkingFrozen(r, guidance) ==
    LET sources == WorkingSources(r)
        told == r.audience = "author" /\ r.purpose # "memory" IN
    Frozen(r, "working", sources, <<>>,
           IF told THEN CurrentReviews(db.story, {d.doc : d \in sources}) ELSE {},
           IF told THEN guidance ELSE {})

\* freeze_story_impl may go on: the target is eligible and the evidence may go along.
MayFreezeWorking(r) ==
    /\ Present(db.story, r.target)
    /\ r.audience = "author" /\ r.purpose \in {"revise", "continue"} =>
          r.purpose = "revise" /\ r.target = Note
    /\ r.purpose = "memory" => r.target \in Chapter
    /\ \E d \in WorkingSources(r) : d.doc = r.target
    /\ FrozenEvidenceValid(WorkingFrozen(r, {}))

\* freeze_reviewed_continuation_at: the target's draft and its reviewed prefix.
ReviewedFrozen(c) ==
    LET s == db.story
        before == ToSet(SubSeq(Chapters, 1, Position(c) - 1)) IN
    Frozen(Request(c, "continue", "restricted", Position(c)), "reviewed",
           {Descriptor(s, c, "currentDraft")} \cup
               {Descriptor(s, b, "reviewedAuthority") : b \in before},
           SelectedPrefix(s, c), CurrentReviews(s, before), {})
MayFreezeReviewed(c) ==
    /\ c \in Chapter /\ Present(db.story, c)
    /\ PrefixAvailable(db.story, c) /\ Position(c) > 1
    /\ \A i \in 1..(Position(c) - 1) : ~ActiveFence(db.story, Chapters[i])
    /\ Eligible(ReviewedFrozen(c), ReviewedFrozen(c).sources)
    /\ FrozenEvidenceValid(ReviewedFrozen(c))

\* The rows of a snapshot.  A working one has checkpointed every candidate, those
\* its reader may not see included; a reviewed one its target.
Keep(frozen) ==
    [db EXCEPT !.story = CheckpointAll(@, IF frozen.basis = "reviewed" THEN {frozen.target}
                                          ELSE {d.doc : d \in Candidates(frozen)}),
               !.snapshots = Append(@, frozen)]

\* load_snapshot: this project's, under the permissions as they are.
Loadable(f) == f.namespace = db.story.namespace /\ f.policy = db.story.policy

\* discussion_context_policy.
DiscussionRequest(r) ==
    IF r.purpose = "discuss" \/ r.target = Note
    THEN Request(r.target, r.purpose, "author", NoFrontier)
    ELSE Request(r.target, r.purpose, "restricted", Position(r.target))

\* Mutant: a request does not use its guidance up.
ConsumedNever(state, f) == state.uses

\* consume_request_guidance_at: one use per version, by the snapshot just kept.
Consumed(state, f) ==
    state.uses \cup {[version |-> v, snapshot |-> Len(state.snapshots)] :
                        v \in RequestGuidance(f.guidance)}

\* start_discussion_at, for a new request: freeze, resolve the pinned documents, use
\* up the guidance given for one request.
StartFrozen(r) ==
    IF r.basis = "reviewed" THEN ReviewedFrozen(r.target)
    ELSE WorkingFrozen(DiscussionRequest(r), SelectedGuidance(r.target, TRUE))
PinsResolved(r, f) ==
    r.purpose = "discuss" => db.pins[r.target].docs \subseteq {d.doc : d \in f.sources}
MayStart(r) ==
    /\ r.purpose = "continue" => r.target \in Chapter
    /\ IF r.basis = "reviewed" THEN MayFreezeReviewed(r.target)
       ELSE MayFreezeWorking(DiscussionRequest(r))
    /\ PinsResolved(r, StartFrozen(r))
Started(r) ==
    LET f == [StartFrozen(r) EXCEPT !.root = Len(db.snapshots) + 1]
        kept == Keep(f) IN
    [kept EXCEPT !.uses = Consumed(kept, f)]

\* The same for a retry of an attempt that ended without an answer.
MayRetry(i) ==
    LET f == db.snapshots[i] IN
    /\ f.root # NoSnapshot /\ Loadable(f) /\ RetryGuidanceStands(f)
    /\ MayStart([target |-> f.target, purpose |-> f.purpose, basis |-> f.basis])
Retried(i) ==
    LET f == db.snapshots[i]
        r == [target |-> f.target, purpose |-> f.purpose, basis |-> f.basis]
        guided == IF f.basis = "reviewed" THEN ReviewedFrozen(f.target)
                  ELSE WorkingFrozen(DiscussionRequest(r),
                         SelectedGuidance(f.target, FALSE) \cup RequestGuidance(f.guidance)) IN
    Keep([guided EXCEPT !.root = f.root])

-----------------------------------------------------------------------------
\* What the storage checks accept of the snapshots, guidance, pins and exports.

\* ReviewValidationContext: a frozen set is what its immutable bundle says, and so are
\* the reviews that bundle rests on.
ValidReviewedSet(s, f, set) ==
    /\ set.bundle \in 1..Len(s.bundles)
    /\ LET b == s.bundles[set.bundle] IN
       /\ b.namespace = f.namespace /\ b.doc = set.doc /\ b.head = set.head
       /\ ValidEvidence(b.evidence, s.revisions[b.doc][b.head.version].body)
       /\ b.evidence[set.kind] = set.quotes /\ ValidPrefix(s, b)

\* validate_reviewed_summary.
ValidReviewedSummary(s, f, m) ==
    /\ m.bundle \in 1..Len(s.bundles)
    /\ LET b == s.bundles[m.bundle] IN
       b.namespace = f.namespace /\ b.summary = {m.summary} /\ ValidSummary(b) /\ ValidPrefix(s, b)

\* validate_reviewed_snapshot_manifest.
ValidManifest(s, f) ==
    \A i \in 1..Len(f.manifest) :
        LET m == f.manifest[i] IN
        /\ m.bundle \in 1..Len(s.bundles)
        /\ LET b == s.bundles[m.bundle] IN
           /\ b.namespace = f.namespace /\ b.policy = f.policy /\ b.doc = m.doc /\ b.head = m.head
           /\ SamePrefixBasis(b.prefix, SubSeq(f.manifest, 1, i - 1))
           /\ HasRevision(s, m.doc, m.head)

\* validate_frozen_guidance, validate_guidance_at.
ValidFrozenGuidance(f) ==
    /\ f.guidance # {} => f.audience = "author" /\ f.purpose # "memory"
    /\ \A v \in f.guidance : db.guidance[v].active /\ db.guidance[v].doc \in {None, f.target}
    /\ \A v, w \in f.guidance : db.guidance[v].id = db.guidance[w].id => v = w

\* decode_snapshot and validate_pins.
ValidSnapshot(f) ==
    LET s == db.story IN
    /\ FrozenEvidenceValid(f) /\ ValidFrozenGuidance(f) /\ Eligible(f, f.sources)
    /\ \A set \in f.sets : ValidReviewedSet(s, f, set)
    /\ \A m \in f.summaries : ValidReviewedSummary(s, f, m)
    /\ ValidManifest(s, f)
    /\ \A d \in f.sources : HasRevision(s, d.doc, d.head)

\* validate_guidance_storage.
ValidGuidanceStorage ==
    /\ \A v \in 1..Len(db.guidance) :
          db.guidance[v].doc # None => Present(db.story, db.guidance[v].doc)
    /\ \A g \in GuidanceIds : db.current[g] # NoGuidance => db.guidance[db.current[g]].id = g
    /\ \A u \in db.uses : /\ db.guidance[u.version].scope = "request"
                          /\ u.snapshot \in 1..Len(db.snapshots)

\* validate_reviewed_export_source, for the row and for the current project.
ValidExportSource(s, namespace, e) ==
    e.bundle # NoBundle =>
        /\ e.bundle \in 1..Len(s.bundles)
        /\ LET b == s.bundles[e.bundle] IN
           b.namespace = namespace /\ b.doc = e.doc /\ b.head = e.head /\ ValidPrefix(s, b)

\* validate_export_record.
ValidExport(e) ==
    HasRevision(db.story, e.doc, e.head) /\ ValidExportSource(db.story, e.namespace, e)

\* validate_source_pin_storage.
ValidPins(d) ==
    db.pins[d].version > 0 =>
        /\ db.pins[d].namespace = db.story.namespace
        /\ \A p \in db.pins[d].docs : Present(db.story, p)

-----------------------------------------------------------------------------
\* The actions.

Work(next) == db.work < WorkLimit /\ db' = [next EXCEPT !.work = @ + 1]
WorkOnStory(story) == Work([db EXCEPT !.story = story])
Aside(next) == db.asides < AsideLimit /\ db' = [next EXCEPT !.asides = @ + 1]
AsideOnStory(story) == Aside([db EXCEPT !.story = story])

Save(d, body) ==
    /\ Present(db.story, d) /\ db.story.docs[d].version < VersionLimit
    /\ body # db.story.docs[d].body
    /\ WorkOnStory(WriteBody(db.story, d, body))

RenameChapter(c) ==
    /\ Present(db.story, c) /\ db.story.titles[c] = 0
    /\ AsideOnStory(Rename(db.story, c))

CreateChapter(c) ==
    /\ ~Present(db.story, c) /\ \A i \in 1..(Position(c) - 1) : Present(db.story, Chapters[i])
    /\ AsideOnStory(Create(db.story, c, FirstBody))

RevokePermissions == AsideOnStory(Revoke(db.story))

Stage(c, review) ==
    MayStage(db.story, c, review) /\ WorkOnStory(StageReview(db.story, c, review))

Mark(i) ==
    StageFresh(db.story, db.story.stages[i]) /\ db' = [db EXCEPT !.story = MarkReady(@, i)]

FreezeStory(r) == MayFreezeWorking(r) /\ Aside(Keep(WorkingFrozen(r, SelectedGuidance(r.target, FALSE))))

StartDiscussion(r) == Present(db.story, r.target) /\ MayStart(r) /\ Work(Started(r))

RetryDiscussion(i) == MayRetry(i) /\ Work(Retried(i))

GuidanceSave(g, save) ==
    /\ save.doc # None => Present(db.story, save.doc)
    /\ Aside(SaveGuidance(g, save))

\* save_source_pins: a list that changes nothing is not a new version.
SavePins(d, docs) ==
    /\ \A p \in docs \cup {d} : Present(db.story, p)
    /\ docs # db.pins[d].docs
    /\ Aside([db EXCEPT !.pins[d].version = @ + 1, !.pins[d].docs = docs, !.story.epoch = @ + 1])

\* prepare_draft_export (a checkpoint of the draft), prepare_reviewed_draft_export.
PrepareExport(d) ==
    /\ Present(db.story, d)
    /\ Aside([db EXCEPT !.story = CheckpointAt(@, d),
                       !.preview = [doc |-> d, head |-> HeadOf(db.story.docs[d]),
                                    namespace |-> db.story.namespace, bundle |-> NoBundle]])
PrepareReviewedExport(c) ==
    /\ Ready(db.story, c)
    /\ Aside([db EXCEPT !.preview = [doc |-> c, head |-> HeadOf(db.story.docs[c]),
                                    namespace |-> db.story.namespace, bundle |-> db.story.heads[c]]])

\* Mutant: the preview is taken at its word.
ExportResolvedByPreview(p) ==
    p.namespace = db.story.namespace /\ ValidExportSource(db.story, p.namespace, p)

\* export_prepared_draft: the preview is of this project and its review still stands.
ExportResolved(p) ==
    /\ p.namespace = db.story.namespace /\ ValidExportSource(db.story, p.namespace, p)
    /\ p.bundle # NoBundle =>
         /\ p.head = HeadOf(db.story.docs[p.doc]) /\ Ready(db.story, p.doc)
         /\ p.bundle = db.story.heads[p.doc]
Export ==
    /\ db.preview # NoPreview /\ ExportResolved(db.preview)
    /\ db' = [db EXCEPT !.exports = @ \cup {db.preview}, !.preview = NoPreview]

\* A copy of the project: the caller's preview stays with the original.
CopyProject ==
    /\ db.story.namespace + 1 \in Namespaces
    /\ Aside([db EXCEPT !.story = Rotate(@), !.preview = NoPreview,
                       !.pins = [d \in Docs |-> [@[d] EXCEPT !.namespace = db.story.namespace + 1]]])

Next ==
    \/ \E d \in Docs, body \in Bodies : Save(d, body)
    \/ \E c \in Chapter : RenameChapter(c) \/ PrepareReviewedExport(c)
    \/ \E d \in Docs : PrepareExport(d)
    \/ \E c \in Chapter : CreateChapter(c)
    \/ RevokePermissions \/ Export \/ CopyProject
    \/ \E c \in Chapter, review \in Reviews : Stage(c, review)
    \/ \E i \in 1..Len(db.story.stages) : Mark(i)
    \/ \E r \in Freezes : FreezeStory(r)
    \/ \E r \in Discussions : StartDiscussion(r)
    \/ \E i \in 1..Len(db.snapshots) : RetryDiscussion(i)
    \/ \E g \in GuidanceIds, save \in GuidanceSaves : GuidanceSave(g, save)
    \/ \E p \in PinSaves : SavePins(p.doc, p.docs)

Spec == Init /\ [][Next]_db

-----------------------------------------------------------------------------
(* Whatever the commands leave, also in a copy under a new identity, the      *)
(* checks of a backup and of a recovery accept: the review rows               *)
(* (validate_review_storage), the snapshots with the evidence and guidance    *)
(* frozen in them (validate_context_storage), the guidance, the pins and the  *)
(* exports.  No command may leave a project that cannot be backed up.         *)
StoryValidates ==
    /\ ValidReviewStorage(db.story)
    /\ \A i \in 1..Len(db.snapshots) : ValidSnapshot(db.snapshots[i])
    /\ ValidGuidanceStorage
    /\ \A d \in Docs : ValidPins(d)
    /\ \A e \in db.exports : ValidExport(e)

(* A chapter shown as ready rests on ready chapters only and no later review  *)
(* has fenced it, and the one-pass walk that collects evidence for a snapshot *)
(* (batch_selected_prefixes) finds exactly the chapters shown as ready        *)
(* (chapter_review_status), whatever sources it is asked about.               *)
ReadyIsGrounded ==
    /\ \A c \in Chapter : Ready(db.story, c) =>
          /\ ~ActiveFence(db.story, c)
          /\ \A i \in 1..(Position(c) - 1) : Ready(db.story, Chapters[i])
    /\ \A sources \in SUBSET {c \in Chapter : Present(db.story, c)} :
          CurrentReviews(db.story, sources) = {c \in sources : Ready(db.story, c)}

(* Reviewed authority is earned: a chapter becomes ready only by the step     *)
(* that marks that chapter, and on the text, the permissions and the earlier  *)
(* reviews of that moment (mark_ready); what is exported or continued as      *)
(* reviewed is ready at the very step that exports or freezes it, however old *)
(* the preview is (export_prepared_draft, freeze_reviewed_continuation_at).   *)
AuthorityIsEarned ==
    [][/\ \A c \in Chapter : Ready(db.story, c)' /\ ~Ready(db.story, c) =>
             /\ Len(db'.story.bundles) = Len(db.story.bundles) + 1
             /\ db'.story.heads[c] = Len(db'.story.bundles)
       /\ \A e \in db'.exports \ db.exports :
             e.bundle # NoBundle => Ready(db.story, e.doc) /\ db.story.heads[e.doc] = e.bundle
       /\ Len(db'.snapshots) > Len(db.snapshots) =>
             \A m \in ToSet(db'.snapshots[Len(db'.snapshots)].manifest) :
                Ready(db.story, m.doc) /\ db.story.heads[m.doc] = m.bundle]_db

(* Guidance given for one request goes into that request and its retries, and *)
(* into no other (read_guidance, consume_request_guidance_at,                 *)
(* retry_request_guidance_at), and no snapshot for writing a chapter holds    *)
(* guidance, a note, or a chapter after the one being written.                *)
WritingSeesItsOwn ==
    /\ \A i, j \in 1..Len(db.snapshots) :
          RequestGuidance(db.snapshots[i].guidance) \cap db.snapshots[j].guidance # {}
          => db.snapshots[i].root = db.snapshots[j].root /\ db.snapshots[i].root # NoSnapshot
    /\ \A i \in 1..Len(db.snapshots) : db.snapshots[i].purpose \in {"revise", "continue"} =>
          LET f == db.snapshots[i] IN
          f.target \in Chapter =>
             /\ f.guidance = {}
             /\ \A d \in f.sources : d.doc \in Chapter /\ Position(d.doc) <= Position(f.target)
=============================================================================
