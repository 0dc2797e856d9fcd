---------------------------- MODULE ReviewedStory ----------------------------
(***************************************************************************)
(* Author review: crates/story/src/reviewed_story.rs.  The author stages a *)
(* review of a chapter (its text, the evidence quoted from it, a summary)  *)
(* on top of the reviews of every earlier chapter, and marks it ready: an  *)
(* immutable bundle becomes the chapter's reviewed head.                   *)
(*                                                                         *)
(* A command is one transaction of the project actor: callers send any     *)
(* argument at any time, and the replay of a spent operation identity      *)
(* changes nothing.  Of a body only the words one can quote from it matter;*)
(* a revision is named by its document and version.                        *)
(***************************************************************************)
EXTENDS Manuscript, FiniteSets, Sequences, SequencesExt

CONSTANTS
    Chapters,        \* the chapters, in reading order
    FirstChapters,   \* how many of them exist at first
    Note,            \* a document that is not a chapter
    FirstBody,       \* the body of every document at first
    Bodies,          \* bodies a save may leave
    Words,           \* what one can quote from each of them
    Reviews,         \* what a review asks: evidence and summary, given or inherited
    Namespaces,      \* operation namespaces, in the order copies take them
    VersionLimit,    \* bound on document versions
    WorkLimit,       \* bound on saves, stages and requests in a behaviour
    AsideLimit       \* bound on its other commands; marking and exporting are free

ASSUME StoryConstants ==
    /\ \A i, j \in 1..Len(Chapters) : Chapters[i] = Chapters[j] => i = j
    /\ FirstChapters \in 1..Len(Chapters)
    /\ Note \notin ToSet(Chapters)
    /\ VersionLimit \in Nat /\ WorkLimit \in Nat /\ AsideLimit \in Nat

VARIABLE db

Chapter == ToSet(Chapters)
Docs == Chapter \cup {Note}
Position(c) == CHOOSE i \in 1..Len(Chapters) : Chapters[i] = c
Present(s, d) == s.docs[d] # Absent

Kinds == {"possession", "promise", "knowledge"}
Inherit == {"inherit"}      \* the request leaves this to the selected bundle
NoBundle == 0

InitialDoc(d) ==
    IF d = Note \/ d \in ToSet(SubSeq(Chapters, 1, FirstChapters))
    THEN [version |-> 0, body |-> FirstBody, last |-> -1] ELSE Absent

\* The project row and the rows of 014_reviewed_story.sql.
InitStory ==
    [docs |-> [d \in Docs |-> InitialDoc(d)],
     revisions |-> [d \in Docs |-> [v \in 0..VersionLimit |-> NoRevision]],
     titles |-> [d \in Docs |-> 0], epoch |-> 0, policy |-> 0, namespace |-> 1,
     stages |-> <<>>, bundles |-> <<>>,
     heads |-> [c \in Chapter |-> NoBundle], fences |-> {}]

-----------------------------------------------------------------------------
\* The reviewed prefix.

Item(s, c) ==
    [doc |-> c, title |-> s.titles[c], bundle |-> s.heads[c], head |-> HeadOf(s.docs[c])]
Items(s, n) == [i \in 1..n |-> Item(s, Chapters[i])]

\* same_prefix_basis: titles may differ.
SamePrefixBasis(p, q) ==
    /\ Len(p) = Len(q)
    /\ \A i \in 1..Len(p) :
          p[i].doc = q[i].doc /\ p[i].bundle = q[i].bundle /\ p[i].head = q[i].head

\* Mutant: a chapter edited back to its reviewed text counts as reviewed.
CurrentlySelectedByText(s, c) ==
    /\ s.heads[c] # NoBundle
    /\ LET b == s.bundles[s.heads[c]] IN
       b.namespace = s.namespace /\ b.head.body = s.docs[c].body /\ b.policy = s.policy

\* active_bundle_id and read_bundle: the selected bundle is this project's, of the
\* text as it is and under the permissions as they are.
CurrentlySelected(s, c) ==
    /\ s.heads[c] # NoBundle
    /\ LET b == s.bundles[s.heads[c]] IN
       b.namespace = s.namespace /\ b.head = HeadOf(s.docs[c]) /\ b.policy = s.policy

\* selected_prefix: what the earlier chapters give, and whether they give it.
SelectedPrefix(s, c) == Items(s, Position(c) - 1)
PrefixAvailable(s, c) ==
    \A i \in 1..(Position(c) - 1) :
        /\ CurrentlySelected(s, Chapters[i])
        /\ SamePrefixBasis(s.bundles[s.heads[Chapters[i]]].prefix, Items(s, i - 1))

\* chapter_review_status, in the order of its early returns.
ReviewStatus(s, c) ==
    LET b == s.bundles[s.heads[c]] IN
    CASE s.heads[c] = NoBundle -> "noReview"
      [] s.heads[c] # NoBundle /\ b.namespace # s.namespace -> "reviewNeeded"
      [] OTHER ->
         IF b.head # HeadOf(s.docs[c]) THEN "changedProse"
         ELSE IF b.policy # s.policy THEN "reviewNeeded"
         ELSE IF PrefixAvailable(s, c) /\ SamePrefixBasis(SelectedPrefix(s, c), b.prefix)
              THEN "ready" ELSE "earlierBasisChanged"

Ready(s, c) == Present(s, c) /\ ReviewStatus(s, c) = "ready"

\* batch_selected_prefixes: one chapter of the ordered walk.  A candidate is judged
\* against the prefix so far; a chapter that is not reviewed breaks the rest.
BatchStep(s, candidates, acc, c) ==
    LET b == s.bundles[s.heads[c]]
        judged == IF c \notin candidates THEN acc
                  ELSE [acc EXCEPT !.current = IF ~acc.broken /\ SamePrefixBasis(b.prefix, acc.prefix)
                                               THEN @ \cup {c} ELSE @]
    IN IF acc.broken THEN judged
       ELSE IF ~CurrentlySelected(s, c) \/ ~SamePrefixBasis(b.prefix, acc.prefix)
            THEN [judged EXCEPT !.broken = TRUE]
            ELSE [judged EXCEPT !.prefix = Append(@, Item(s, c))]

\* current_records_for_sources: those of the sources whose review is current, found
\* in one walk over the chapters up to the last of them.
CurrentReviews(s, sources) ==
    LET candidates == {c \in sources \cap Chapter : CurrentlySelected(s, c)}
        last == IF candidates = {} THEN 0
                ELSE CHOOSE n \in 1..Len(Chapters) :
                        /\ Chapters[n] \in candidates
                        /\ \A c \in candidates : Position(c) <= n
        step(acc, c) == BatchStep(s, candidates, acc, c)
    IN FoldLeft(step, [prefix |-> <<>>, broken |-> FALSE, current |-> {}],
                SubSeq(Chapters, 1, last)).current

-----------------------------------------------------------------------------
\* Staging a review and marking it ready.

\* validate_records, validate_promises, validate_knowledge: every quotation is there.
ValidEvidence(evidence, body) == \A k \in Kinds : evidence[k] \subseteq Words[body]

\* What the request leaves out is inherited from the selected bundle.
ResolvedEvidence(s, c, review) ==
    [k \in Kinds |->
        IF review.evidence[k] # Inherit THEN review.evidence[k]
        ELSE IF s.heads[c] = NoBundle THEN {} ELSE s.bundles[s.heads[c]].evidence[k]]

\* Mutant: an inherited summary is not compared with what it was written on.
SummaryResolvedAnyway(s, c, review) == TRUE

\* resolve_summary: may the request go on, and with which summary.
InheritedSummary(s, c) ==
    IF s.heads[c] = NoBundle THEN {} ELSE s.bundles[s.heads[c]].summary
SummaryResolved(s, c, review) ==
    review.summary = "inherit" =>
        \A old \in InheritedSummary(s, c) :
            old.head = HeadOf(s.docs[c]) /\ old.dependencies = SelectedPrefix(s, c)
ResolvedSummary(s, c, review) ==
    CASE review.summary = "inherit" -> InheritedSummary(s, c)
      [] review.summary = "none" -> {}
      [] OTHER -> {[audience |-> review.summary, namespace |-> s.namespace, doc |-> c,
                    head |-> HeadOf(s.docs[c]), dependencies |-> SelectedPrefix(s, c)]}

StageRow(s, c, review) ==
    [namespace |-> s.namespace, doc |-> c, head |-> HeadOf(s.docs[c]), epoch |-> s.epoch,
     policy |-> s.policy, previous |-> s.heads[c], prefix |-> SelectedPrefix(s, c),
     evidence |-> ResolvedEvidence(s, c, review), summary |-> ResolvedSummary(s, c, review)]

\* stage_author_review: the chapter is checkpointed and the review kept beside it.
MayStage(s, c, review) ==
    /\ Present(s, c) /\ PrefixAvailable(s, c)
    /\ ValidEvidence(ResolvedEvidence(s, c, review), s.docs[c].body)
    /\ SummaryResolved(s, c, review)
StageReview(s, c, review) ==
    [CheckpointAt(s, c) EXCEPT !.stages = Append(@, StageRow(s, c, review))]

\* mark_ready: the story, the permissions, the text, the earlier reviews and the
\* selected bundle are those the review was staged on.
StageFresh(s, row) ==
    /\ row.namespace = s.namespace
    /\ row.epoch = s.epoch /\ row.policy = s.policy
    /\ row.head = HeadOf(s.docs[row.doc]) /\ s.docs[row.doc].last = row.head.version
    /\ ValidEvidence(row.evidence, s.revisions[row.doc][row.head.version].body)
    /\ PrefixAvailable(s, row.doc)
    /\ SamePrefixBasis(SelectedPrefix(s, row.doc), row.prefix)
    /\ s.heads[row.doc] = row.previous

\* The INSERT of a bundle: a copy of its stage.
BundleRow(i, row) ==
    [stage |-> i, namespace |-> row.namespace, doc |-> row.doc, head |-> row.head,
     epoch |-> row.epoch, policy |-> row.policy, previous |-> row.previous,
     prefix |-> row.prefix, evidence |-> row.evidence, summary |-> row.summary]

\* Every later chapter that has a selected bundle is fenced by the new one.
Fences(s, row, bundle) ==
    {[namespace |-> s.namespace, affected |-> s.heads[c], doc |-> row.doc, head |-> row.head,
      superseding |-> bundle] :
        c \in {c \in Chapter : Position(c) > Position(row.doc) /\ s.heads[c] # NoBundle}}

\* mark_ready, once its checks have passed.
MarkReady(s, i) ==
    LET row == s.stages[i]
        bundle == Len(s.bundles) + 1 IN
    [s EXCEPT !.bundles = Append(@, BundleRow(i, row)),
              !.fences = @ \cup Fences(s, row, bundle),
              !.heads[row.doc] = bundle,
              !.epoch = @ + 1]

\* active_review_fence (story_context.rs).
ActiveFence(s, c) ==
    s.heads[c] # NoBundle /\
    \E f \in s.fences : f.namespace = s.namespace /\ f.affected = s.heads[c]

-----------------------------------------------------------------------------
\* What validate_review_storage accepts.

HasRevision(s, doc, head) ==
    s.revisions[doc][head.version] # NoRevision /\ s.revisions[doc][head.version].body = head.body

\* validate_prefix_item: the bundle an item names, and its own earlier items.
ValidPrefixItem(s, owner, item, before) ==
    /\ item.bundle \in 1..Len(s.bundles)
    /\ LET b == s.bundles[item.bundle] IN
       /\ b.namespace = owner.namespace /\ b.doc = item.doc /\ b.doc # owner.doc
       /\ b.head = item.head /\ SamePrefixBasis(b.prefix, before)

\* validate_prefix and validate_prefix_evidence.
ValidPrefix(s, owner) ==
    /\ \A i, j \in 1..Len(owner.prefix) : owner.prefix[i].doc = owner.prefix[j].doc => i = j
    /\ \A i \in 1..Len(owner.prefix) :
          ValidPrefixItem(s, owner, owner.prefix[i], SubSeq(owner.prefix, 1, i - 1))

\* validate_previous_bundle.
ValidPrevious(s, row) ==
    row.previous # NoBundle =>
        s.bundles[row.previous].namespace = row.namespace /\ s.bundles[row.previous].doc = row.doc

\* parse_summary_set and validate_summary_binding.
ValidSummary(row) ==
    \A m \in row.summary :
        /\ m.namespace = row.namespace /\ m.doc = row.doc
        /\ m.head = row.head /\ m.dependencies = row.prefix

\* read_stage: what a row must satisfy to be read, and read_bundle the same.
ReadableRow(s, row) ==
    /\ Present(s, row.doc) /\ ValidPrevious(s, row)
    /\ ValidPrefix(s, row) /\ HasRevision(s, row.doc, row.head)
    /\ ValidEvidence(row.evidence, row.head.body) /\ ValidSummary(row)

\* A bundle was made from a stage, and says what its stage said.
ReadableBundle(s, b) == ReadableRow(s, b) /\ b.stage \in 1..Len(s.stages)
ValidBundle(s, b) == ReadableBundle(s, b) /\ b = BundleRow(b.stage, s.stages[b.stage])

\* Only this project's bundles are selected.
ValidHead(s, c) ==
    s.heads[c] # NoBundle =>
        s.bundles[s.heads[c]].namespace = s.namespace /\ s.bundles[s.heads[c]].doc = c

ValidFence(s, f) ==
    /\ {f.affected, f.superseding} \subseteq 1..Len(s.bundles)
    /\ s.bundles[f.affected].namespace = f.namespace
    /\ s.bundles[f.superseding].namespace = f.namespace
    /\ s.bundles[f.superseding].doc = f.doc /\ s.bundles[f.superseding].head = f.head

ValidReviewStorage(s) ==
    /\ \A i \in 1..Len(s.stages) : ReadableRow(s, s.stages[i])
    /\ \A i \in 1..Len(s.bundles) : ValidBundle(s, s.bundles[i])
    /\ \A c \in Chapter : ValidHead(s, c)
    /\ \A f \in s.fences : ValidFence(s, f)

-----------------------------------------------------------------------------
\* The other writers of the story.

\* rename_document.
Rename(s, d) == [s EXCEPT !.titles[d] = @ + 1, !.epoch = @ + 1]

\* create_document: a new chapter comes after all others.
Create(s, c, body) ==
    [s EXCEPT !.docs[c] = [version |-> 0, body |-> body, last |-> -1], !.epoch = @ + 1]

\* context_revoke: the disclosure policy and the story change together.
Revoke(s) == [s EXCEPT !.policy = @ + 1, !.epoch = @ + 1]

\* recovery, duplication and import give a copy a new identity: its history stays
\* under the old one and nothing is selected any more.
Rotate(s) ==
    [s EXCEPT !.namespace = @ + 1, !.heads = [c \in Chapter |-> NoBundle]]

=============================================================================
