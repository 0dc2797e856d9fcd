------------------------------ MODULE Proposals ------------------------------
(***************************************************************************)
(* Suggested edits, from the request that captured a scope to the author's *)
(* decision: crates/conversation/src/proposals.rs, with the start of the   *)
(* run that asked for them (discussions/packet.rs) and the other writers   *)
(* of the same rows (saving a draft, changing the disclosure policy,       *)
(* copying the project).                                                   *)
(*                                                                         *)
(* A command is one transaction of the project actor: its guard is what    *)
(* the command checks, its effect what it commits.  A refused or rolled    *)
(* back command changes nothing, an answer that is lost leaves the effect. *)
(* Callers send any argument under any operation identity at any time, so  *)
(* late, repeated and reordered calls are all covered; the replay of a     *)
(* spent identity changes nothing and is no step.                          *)
(***************************************************************************)
EXTENDS Manuscript, Scope, FiniteSets

CONSTANTS
    Docs, Chapters,   \* documents, and those of them that are chapters
    Bodies,           \* manuscript bodies
    Drafts,           \* the bodies the author's own saves write
    Selections,       \* selections a request may carry
    Payloads,         \* texts, paragraph lists and block lists of a preparation
    Runs, Ops,        \* discussion runs and operation identities
    Suggestions,      \* the ordinals of a run's suggestions
    Namespaces,       \* operation namespaces, in the order copies take them
    VersionLimit,     \* bound on document versions
    PreparedLimit,    \* bound on preparations of one suggestion
    PolicyLimit       \* bound on disclosure policy changes

ASSUME ProposalConstants ==
    /\ Chapters \subseteq Docs /\ Drafts \subseteq Bodies
    /\ 1 \in Namespaces /\ Namespaces \subseteq Nat
    /\ VersionLimit \in Nat /\ PreparedLimit \in Nat /\ PolicyLimit \in Nat
    /\ \A b \in Bodies : CanonicalSnapshot(b)

VARIABLE db

NoRun == [status |-> None]
NoReceipt == [kind |-> None]
NoDecision == [kind |-> None]
NoScope == [kind |-> None]

Proposal == Runs \X Suggestions

Init ==
    \E body \in [Docs -> Drafts] :
      db = [docs |-> [d \in Docs |-> [version |-> 0, body |-> body[d], last |-> -1]],
            revisions |-> [d \in Docs |-> [v \in 0..VersionLimit |-> NoRevision]],
            epoch |-> 0, policy |-> 0, namespace |-> 1,
            runs |-> [r \in Runs |-> NoRun],
            proposals |-> {},
            prepared |-> [p \in Proposal |-> <<>>],
            decisions |-> [p \in Proposal |-> NoDecision],
            receipts |-> [n \in Namespaces |-> [o \in Ops |-> NoReceipt]]]

-----------------------------------------------------------------------------
\* The run that asks for suggestions.

\* discussion_context_policy: suggestions for a chapter come from a restricted
\* writing source, development of another document from the author's room.
AudienceOf(intent, d) ==
    IF intent = "discuss" \/ d \notin Chapters THEN "authorRoom" ELSE "restrictedWriting"

\* What a request of an intent may select (discussion_context_policy,
\* capture_discussion_scope), captured in the target's exact body.
ScopesFor(intent, d, body) ==
    LET captured == {CaptureScope(body, sel) :
                       sel \in {x \in Selections : ScopeRanges(body, x) # {}}}
    IN  CASE intent = "continue" -> {CaptureAppendScope(body) : x \in {d} \cap Chapters}
          [] intent = "proposeEdits" ->
               {g \in captured : d \in Chapters \/ g.kind \in {"blocks", "wholeDocument"}}
          [] OTHER -> captured \cup {NoScope}

\* The start of a run freezes the target revision, the story it may read and
\* the scope in one transaction.
StartRun(r, d) ==
    /\ db.runs[r] = NoRun
    /\ LET checked == CheckpointAt(db, d) IN
       \E intent \in {"discuss", "proposeEdits", "continue"} :
         \E scope \in ScopesFor(intent, d, db.docs[d].body) :
           db' = [checked EXCEPT !.runs[r] =
                    [status |-> "running", doc |-> d, target |-> HeadOf(db.docs[d]),
                     intent |-> intent, audience |-> AudienceOf(intent, d), scope |-> scope,
                     seen |-> [x \in Docs |-> HeadOf(db.docs[x])],
                     epoch |-> db.epoch, policy |-> db.policy,
                     namespace |-> db.namespace]]

\* The kind of suggestion a run can retain, None when it retains no suggestion.
ProposalKind(run) ==
    IF \/ run.scope = NoScope
       \/ run.audience # "restrictedWriting" /\ run.scope.kind \notin {"blocks", "wholeDocument"}
    THEN None
    ELSE CASE run.intent = "continue" -> "continuation"
           [] run.intent = "proposeEdits" /\ run.scope.kind = "passage" -> "passage"
           [] run.intent = "proposeEdits" /\ run.scope.kind \in {"blocks", "wholeDocument"}
              -> "structured"
           [] OTHER -> None

\* retain_candidates_at, in the transaction that completes the run: n is the
\* number of suggestions of the output, none when it is malformed.  A
\* continuation has one.
CompleteRun(r) ==
    /\ db.runs[r] # NoRun /\ db.runs[r].status = "running"
    /\ db.runs[r].namespace = db.namespace
    /\ \E n \in 0..Cardinality(Suggestions) :
         /\ ProposalKind(db.runs[r]) = "continuation" => n <= 1
         /\ db' = [db EXCEPT
              !.runs[r].status = "completed",
              !.proposals = @ \cup IF ProposalKind(db.runs[r]) = None THEN {}
                                   ELSE {<<r, i>> : i \in {j \in Suggestions : j <= n}}]

-----------------------------------------------------------------------------
\* Review.

\* The suggestion belongs to this project and has no decision
\* (read, require_owned_pending).
RequireOwnedPending(p) ==
    /\ p \in db.proposals /\ db.runs[p[1]].status = "completed"
    /\ db.runs[p[1]].namespace = db.namespace
    /\ db.decisions[p] = NoDecision

\* Mutant: a change elsewhere in the story goes unnoticed.
CurrentHeadOnly(p) == HeadOf(db.docs[db.runs[p[1]].doc]) = db.runs[p[1]].target

\* read: the story is the one the run was asked about.
Current(p) ==
    LET run == db.runs[p[1]] IN
    /\ run.namespace = db.namespace
    /\ run.epoch = db.epoch /\ run.policy = db.policy
    /\ HeadOf(db.docs[run.doc]) = run.target

\* validate_prepared: the payload and the body are what the scope grants.
ValidatePrepared(kind, grant, v) ==
    /\ v.payload.kind = kind
    /\ CASE kind = "passage" ->
              ValidateTextReplacement(grant.source, v.body, grant, v.payload.text)
         [] kind = "continuation" ->
              ValidateAppend(grant.source, v.body, grant, v.payload.paragraphs)
         [] kind = "structured" ->
              ValidateStructured(grant.source, v.body, grant, v.payload.blocks)
         [] OTHER -> FALSE

\* Every grant the constants allow and what may be prepared for it.
AllGrants ==
    UNION {ScopesFor(i, d, b) : i \in {"proposeEdits", "continue"}, d \in Docs, b \in Bodies}
Preparations ==
    [k \in {"passage", "continuation", "structured"} |->
       [g \in AllGrants |->
          {v \in [payload : Payloads, body : Bodies] : ValidatePrepared(k, g, v)}]]

\* The operation identity is fresh in the review receipts and in the command
\* receipts (receipt, the triggers of the schema).
Fresh(op) == db.receipts[db.namespace][op] = NoReceipt

\* Mutant: a preparation replaces the version the caller saw.
PrepareInPlace(p, op) ==
    /\ Fresh(op) /\ RequireOwnedPending(p)
    /\ Len(db.prepared[p]) < PreparedLimit
    /\ \E v \in Preparations[ProposalKind(db.runs[p[1]])][db.runs[p[1]].scope] :
         db' = [db EXCEPT
           !.prepared[p] = <<v>>,
           !.receipts[db.namespace][op] =
              [kind |-> "prepare", proposal |-> p, result |-> Len(db.prepared[p]) + 1]]

\* prepare_proposal, prepare_continuation, prepare_structured: wording bound to
\* the source of the run, under the version after the one the caller saw.  A
\* stale suggestion may still be prepared.
Prepare(p, op) ==
    /\ Fresh(op) /\ RequireOwnedPending(p)
    /\ \E expected \in 0..PreparedLimit - 1 : expected = Len(db.prepared[p])
    /\ \E v \in Preparations[ProposalKind(db.runs[p[1]])][db.runs[p[1]].scope] :
         db' = [db EXCEPT
           !.prepared[p] = Append(@, v),
           !.receipts[db.namespace][op] =
              [kind |-> "prepare", proposal |-> p, result |-> Len(db.prepared[p]) + 1]]

\* reject_proposal.
Reject(p, op) ==
    /\ Fresh(op) /\ RequireOwnedPending(p)
    /\ db' = [db EXCEPT
         !.decisions[p] = [kind |-> "reject", namespace |-> db.namespace, op |-> op],
         !.receipts[db.namespace][op] = [kind |-> "reject", proposal |-> p, result |-> 0]]

\* The preparation the author reviewed is the latest, with that body.
PreparedLatest(p, i, body) ==
    i = Len(db.prepared[p]) /\ i > 0 /\ db.prepared[p][i].body = body

\* apply_proposal: the reviewed body replaces the exact source, between two
\* revisions, with the decision and the command receipt.
Apply(p, op) ==
    /\ Fresh(op) /\ RequireOwnedPending(p)
    /\ LET run == db.runs[p[1]]
           d == run.doc
       IN  \E i \in 1..PreparedLimit, body \in Bodies :
             /\ PreparedLatest(p, i, body)
             /\ Current(p)
             /\ ValidatePrepared(ProposalKind(run), run.scope, db.prepared[p][i])
             /\ body # db.docs[d].body
             /\ db.docs[d].version < VersionLimit
             /\ LET written == CheckpointAt(WriteBody(CheckpointAt(db, d), d, body), d) IN
                db' = [written EXCEPT
                  !.decisions[p] = [kind |-> "apply", prepared |-> i, namespace |-> db.namespace,
                                    op |-> op, before |-> run.target.version,
                                    after |-> written.docs[d].version],
                  !.receipts[db.namespace][op] =
                     [kind |-> "apply", proposal |-> p, result |-> i,
                      head |-> HeadOf(written.docs[d])]]

-----------------------------------------------------------------------------
\* The other writers.

\* save_draft, and every other write of a body.
SaveDraft(d, op) ==
    /\ Fresh(op) /\ db.docs[d].version < VersionLimit
    /\ \E body \in Drafts \ {db.docs[d].body} :
         db' = [WriteBody(db, d, body) EXCEPT
                  !.receipts[db.namespace][op] = [kind |-> "save", doc |-> d]]

\* story_context: a change of the disclosure policy moves both epochs.
ChangePolicy ==
    /\ db.policy < PolicyLimit
    /\ db' = [db EXCEPT !.policy = @ + 1, !.epoch = @ + 1]

\* A duplicate or a recovered copy of the project takes a fresh namespace and
\* keeps the suggestions as history.
CopyProject ==
    /\ db.namespace + 1 \in Namespaces
    /\ db' = [db EXCEPT !.namespace = @ + 1]

Next ==
    \/ \E r \in Runs, d \in Docs : StartRun(r, d)
    \/ \E r \in Runs : CompleteRun(r)
    \/ \E p \in Proposal, op \in Ops : Prepare(p, op) \/ Reject(p, op) \/ Apply(p, op)
    \/ \E d \in Docs, op \in Ops : SaveDraft(d, op)
    \/ ChangePolicy
    \/ CopyProject

Spec == Init /\ [][Next]_db

-----------------------------------------------------------------------------
\* validate_apply_links: an applied decision, its prepared wording, the two
\* revisions around it and its receipt tell the same story.
ApplyLinked(p) ==
    LET run == db.runs[p[1]]
        decision == db.decisions[p]
        receipt == db.receipts[decision.namespace][decision.op]
        before == db.revisions[run.doc][decision.before]
        after == db.revisions[run.doc][decision.after]
    IN  /\ receipt.kind = "apply" /\ receipt.proposal = p
        /\ decision.prepared \in DOMAIN db.prepared[p]
        /\ receipt.result = decision.prepared
        /\ [version |-> decision.before, body |-> before.body] = run.target
        /\ decision.after = decision.before + 1
        /\ after.body = db.prepared[p][decision.prepared].body
        /\ after.parent = decision.before
        /\ receipt.head = [version |-> decision.after, body |-> after.body]

\* Whatever calls come, in whatever order, the rows they leave pass the check
\* a backup or an import makes of them (validate_proposal_storage): every
\* suggestion has its completed run, every prepared wording still validates
\* against the exact source, and decisions and receipts resolve each other.
StorageValidates ==
    /\ \A p \in db.proposals :
         /\ db.runs[p[1]].status = "completed"
         /\ db.runs[p[1]].target.body = db.runs[p[1]].scope.source
         /\ \A i \in DOMAIN db.prepared[p] :
              ValidatePrepared(ProposalKind(db.runs[p[1]]), db.runs[p[1]].scope, db.prepared[p][i])
         /\ db.decisions[p] # NoDecision =>
              /\ db.decisions[p].namespace = db.runs[p[1]].namespace
              /\ IF db.decisions[p].kind = "apply" THEN ApplyLinked(p)
                 ELSE db.receipts[db.decisions[p].namespace][db.decisions[p].op] =
                        [kind |-> "reject", proposal |-> p, result |-> 0]
    /\ \A n \in Namespaces, o \in Ops :
         LET receipt == db.receipts[n][o] IN
         /\ receipt.kind \in {"apply", "reject"} =>
              /\ db.decisions[receipt.proposal].kind = receipt.kind
              /\ db.decisions[receipt.proposal].namespace = n
              /\ db.decisions[receipt.proposal].op = o
         /\ receipt.kind = "prepare" =>
              receipt.result \in DOMAIN db.prepared[receipt.proposal]

\* The blocks of a body that a grant leaves alone, as a reader sees them: whole
\* blocks outside the selection, and the text around a passage.
Untouched(source, result, grant) ==
    IF grant.kind = "append"
    THEN IF IsEmptyPlaceholder(source) THEN Head(result).id = Head(source).id
         ELSE IsPrefix(source, result)
    ELSE LET r == RangeOf(source, grant)
             before == SubSeq(source, 1, r.first - 1)
             after == SubSeq(source, r.last + 1, Len(source))
             selected == SubSeq(result, r.first, Len(result) - Len(after))
         IN  /\ IsPrefix(before, result)
             /\ IsSuffix(after, result)
             /\ grant.kind = "passage" =>
                  LET head == r.start - TokenStart(source, r.first) - 1
                      tail == TokenEnd(source, r.last) - 1 - r.end
                  IN  /\ Len(selected) = 1
                      /\ Head(selected).id = source[r.first].id
                      /\ IsPrefix(SubSeq(source[r.first].text, 1, head), Head(selected).text)
                      /\ IsSuffix(SubSeq(source[r.last].text,
                                         Len(source[r.last].text) - tail + 1,
                                         Len(source[r.last].text)),
                                  Head(selected).text)

\* An applied suggestion changed what its request selected and nothing else:
\* the revisions before and after it agree on every block and on the text
\* outside the granted scope (apply_proposal, crates/documents scope).
AppliedInsideGrant ==
    \A p \in db.proposals : db.decisions[p].kind = "apply" =>
        LET run == db.runs[p[1]] IN
        Untouched(db.revisions[run.doc][db.decisions[p].before].body,
                  db.revisions[run.doc][db.decisions[p].after].body, run.scope)

\* A suggestion is applied only to the story its request saw: every document
\* still has the head that was frozen for the run, in the same project
\* (apply_proposal: current and require_owned_pending).
AppliedToSeenStory ==
    [][\A p \in Proposal :
         db.decisions[p].kind # "apply" /\ db'.decisions[p].kind = "apply" =>
            /\ [d \in Docs |-> HeadOf(db.docs[d])] = db.runs[p[1]].seen
            /\ db.namespace = db.runs[p[1]].namespace
            /\ db'.prepared[p] = db.prepared[p]
            /\ db'.docs[db.runs[p[1]].doc].body = Last(db.prepared[p]).body]_db

=============================================================================
