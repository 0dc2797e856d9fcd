------------------------------ MODULE Workshop ------------------------------
(***************************************************************************)
(* The story workshop: crates/workshop/src and crates/story/src/workshop_* *)
(* .rs.  The author explores in sessions, asks a model for candidates      *)
(* (start, a discussion run), keeps one versioned state of sessions,       *)
(* decisions, relationships and impacts, previews an adoption and adopts   *)
(* it into story documents.                                                *)
(*                                                                         *)
(* A command is one transaction (see Proposals) but for start_workshop,    *)
(* which commits three times: any caller sends any argument at any time,   *)
(* and the replay of a spent operation identity changes nothing.  Texts    *)
(* are sequences of words; titles, rationales, lenses, preferences and     *)
(* questions only travel with the state and are left out.                  *)
(***************************************************************************)
EXTENDS Manuscript, FiniteSets, Sequences, SequencesExt

CONSTANTS
    Material,        \* documents the workshop may adopt into: characters
    Existing,        \* those of them that exist at first
    Sessions,        \* session identities
    Parent,          \* what each what-if session was forked from, None for the others
    Bodies,          \* bodies, as sequences of words
    Fixed,           \* texts the author may protect
    Outputs,         \* answers of a model: sequences of candidates
    Adoptions,       \* what an adoption asks: bodies and modes of its targets, texts to
                     \* protect, relationships to create
    Rels,            \* relationship identities
    Starts, Ops,     \* identities of start requests and of other operations
    Previews,        \* previews of an adoption
    Namespaces,      \* operation namespaces, in the order copies take them
    VersionLimit,    \* bound on document versions
    ChangeLimit      \* bound on saves of the workshop and of documents, and copies

ASSUME WorkshopConstants ==
    /\ Existing \subseteq Material /\ Material \cap Sessions = {}
    /\ \A s \in Sessions : Parent[s] \in Sessions \cup {None} /\ Parent[s] # s
    /\ VersionLimit \in Nat /\ ChangeLimit \in Nat
    /\ <<>> \notin Fixed

VARIABLE db

\* The anchor of a session is a note with an identity of its own.
Docs == Material \cup Sessions
Anchor(s) == s

NoSession == [generation |-> -1]
NewSession ==
    [generation |-> 0, choices |-> {}, included |-> {}, fixed |-> {}, relationship |-> None]
NoRelationship == [status |-> None]
NoRun == [status |-> None]
NoReceipt == [kind |-> None]
NoPreview == [session |-> None]

\* WorkshopState::default.
EmptyState ==
    [current |-> None, sessions |-> [s \in Sessions |-> NoSession], decisions |-> <<>>,
     relationships |-> [r \in Rels |-> NoRelationship], impacts |-> {}]

Init ==
    \E body \in Bodies :
      db = [docs |-> [d \in Docs |-> IF d \in Existing
                        THEN [version |-> 0, body |-> body, last |-> -1] ELSE Absent],
            revisions |-> [d \in Docs |-> [v \in 0..VersionLimit |-> NoRevision]],
            epoch |-> 0, namespace |-> 1,
            version |-> 0, state |-> EmptyState, snapshots |-> <<>>,
            runs |-> [n \in Namespaces |-> [o \in Starts |-> NoRun]],
            previews |-> [p \in Previews |-> NoPreview],
            receipts |-> [n \in Namespaces |-> [o \in Starts \cup Ops |-> NoReceipt]],
            changes |-> 0]

HasDoc(s, d) == s.docs[d] # Absent
Open(state, s) == state.sessions[s] # NoSession

\* body_text(..).contains(..).
HasText(body, text) ==
    text # <<>> /\ \E i \in 1..Len(body) : IsPrefix(text, SubSeq(body, i, Len(body)))

\* existing_workshop_receipt: the identity is free in every family of receipts.
Unspent(o) == db.receipts[db.namespace][o] = NoReceipt

-----------------------------------------------------------------------------
\* Candidates.

\* session_is_ancestor.
IsAncestor(s, t) == s = t \/ Parent[s] = t \/ (Parent[s] # None /\ Parent[Parent[s]] = t)

Candidate == {<<n, o, i>> : n \in Namespaces, o \in Starts, i \in 1..2}
RunOf(c) == db.runs[c[1]][c[2]]

\* validate_candidate: what was fixed in the text it rewrites is still there.
ValidCandidate(run, candidate) == \A t \in run.required : HasText(candidate.content, t)

\* validate_workshop_output: one to three candidates, all of them valid.
ValidOutput(run) ==
    /\ Len(run.output) \in 1..3
    /\ \A i \in 1..Len(run.output) : ValidCandidate(run, run.output[i])

\* workshop_candidate_outputs_with_filter: the candidates of completed runs, and
\* those of them that this project asked of the story as it is now.
HistoricalCandidates ==
    {c \in Candidate : /\ RunOf(c).status = "completed"
                       /\ ValidOutput(RunOf(c)) /\ c[3] <= Len(RunOf(c).output)}

\* Mutant: a candidate made before the story changed still counts.
FreshCandidatesAnyEpoch(s) == {c \in HistoricalCandidates : c[1] = s.namespace}

FreshCandidates(s) ==
    {c \in HistoricalCandidates : c[1] = s.namespace /\ RunOf(c).epoch = s.epoch}

\* candidate_relationship_matches_session.
RelationshipMatches(state, s, run) ==
    /\ state.sessions[s].relationship = run.request.relationship
    /\ run.request.relationship # None =>
         state.relationships[run.request.relationship] = run.relationship

\* validate_candidate_provenance, for candidates an adoption uses and for those a
\* session keeps.
UsableCandidate(s, state, session, c) ==
    /\ c \in FreshCandidates(s)
    /\ IsAncestor(session, RunOf(c).request.session)
    /\ RelationshipMatches(state, session, RunOf(c))
KeptCandidates(state) ==
    \A s \in Sessions : Open(state, s) =>
        \A c \in state.sessions[s].choices :
            c \in HistoricalCandidates /\ IsAncestor(s, RunOf(c).request.session)

\* Mutant: a relationship that was rewritten since goes unnoticed.
StaleBySource(c) ==
    LET run == RunOf(c) IN
    \/ c[1] # db.namespace \/ run.epoch # db.epoch
    \/ ~Open(db.state, run.request.session)
    \/ db.state.sessions[run.request.session].generation # run.request.generation

\* read_workshop_results: what marks a result as stale.
Stale(c) ==
    LET run == RunOf(c) IN
    \/ c[1] # db.namespace \/ run.epoch # db.epoch
    \/ ~Open(db.state, run.request.session)
    \/ db.state.sessions[run.request.session].generation # run.request.generation
    \/ ~RelationshipMatches(db.state, run.request.session, run)

-----------------------------------------------------------------------------
\* What a state must satisfy.

\* validate_session_branch_graph, validate_state_shape.
ValidShape(state) ==
    /\ \A s \in Sessions : Open(state, s) /\ Parent[s] # None => Open(state, Parent[s])
    /\ state.current # None => Open(state, state.current)
    /\ \A i, j \in DOMAIN state.decisions :
         /\ i # j /\ state.decisions[i].status = "chosen" /\ state.decisions[j].status = "chosen"
         => state.decisions[i].doc # state.decisions[j].doc
    /\ \A m \in state.impacts : m.candidate = None \/ m.relationship = None

\* validate_state_references without a previous state: sessions, decisions,
\* impacts and relationships refer to what exists, extra documents included.
ValidReferences(state, extra) ==
    LET there == {d \in Docs : HasDoc(db, d)} IN
    /\ ValidShape(state)
    /\ \A s \in Sessions : Open(state, s) /\ state.sessions[s].relationship # None =>
         state.relationships[state.sessions[s].relationship] # NoRelationship
    /\ \A i \in DOMAIN state.decisions :
         LET decision == state.decisions[i] IN
         /\ Open(state, decision.session) /\ decision.doc \in there
         /\ db.revisions[decision.doc][decision.head.version].body = decision.head.body
    /\ \A m \in state.impacts :
         /\ m.decision \in DOMAIN state.decisions /\ m.doc \in there
         /\ m.candidate # None => m.candidate \in state.decisions[m.decision].candidates
         /\ m.relationship # None =>
              /\ state.relationships[m.relationship] # NoRelationship
              /\ m.doc \in DOMAIN state.relationships[m.relationship].heads
              /\ state.decisions[m.decision].doc = m.doc
    /\ \A r \in Rels : state.relationships[r] # NoRelationship =>
         DOMAIN state.relationships[r].heads \subseteq there \cup extra

Provenance(decision) == [decision EXCEPT !.status = None, !.fixed = FALSE, !.protected = {}]

\* validate_state_references with the previous state: a save adds no decision and
\* no impact and leaves their provenance alone.
KeepsProvenance(state, previous) ==
    /\ DOMAIN state.decisions = DOMAIN previous.decisions
    /\ \A i \in DOMAIN state.decisions :
         Provenance(state.decisions[i]) = Provenance(previous.decisions[i])
    /\ {[m EXCEPT !.status = None] : m \in state.impacts}
         = {[m EXCEPT !.status = None] : m \in previous.impacts}

\* validate_relationship_freshness: a new or changed relationship names the heads
\* its documents have now.
FreshRelationships(state, previous) ==
    \A r \in Rels :
        LET link == state.relationships[r] IN
        link \notin {NoRelationship, previous.relationships[r]} =>
            \A d \in DOMAIN link.heads : HasDoc(db, d) /\ HeadOf(db.docs[d]) = link.heads[d]

Saveable(state) ==
    /\ ValidReferences(state, {}) /\ KeepsProvenance(state, db.state)
    /\ FreshRelationships(state, db.state)
    /\ KeptCandidates(state)

-----------------------------------------------------------------------------
\* Starting a run.

\* resolve_workshop_relationship: the relationship a session explores is not
\* archived and its documents have not changed since it was written down.
ResolvedRelationship(s) ==
    LET r == db.state.sessions[s].relationship IN
    IF r = None THEN NoRelationship ELSE db.state.relationships[r]
RelationshipResolves(s) ==
    LET link == ResolvedRelationship(s) IN
    db.state.sessions[s].relationship # None =>
        /\ link.status = "chosen"
        /\ \A d \in DOMAIN link.heads : HasDoc(db, d) /\ HeadOf(db.docs[d]) = link.heads[d]

\* What a fixed decision protects: its texts, or the whole body it adopted.
Protects(decision) ==
    IF decision.protected = {} THEN {decision.head.body} ELSE decision.protected

\* from_session_with_material, fixed_decision_is_relevant: the fixed texts of the
\* session and of the decisions it explores or descends from.
FixedFor(s, scope) ==
    LET link == ResolvedRelationship(s)
        relevant == {i \in DOMAIN db.state.decisions :
           /\ db.state.decisions[i].fixed
           /\ \/ link # NoRelationship /\ db.state.decisions[i].doc \in DOMAIN link.heads
              \/ IsAncestor(s, db.state.decisions[i].session)}
        decided == UNION {Protects(db.state.decisions[i]) : i \in relevant}
    IN  db.state.sessions[s].fixed \cup {t \in decided : HasText(scope, t)}

\* ensure_workshop_anchor: a transaction of its own, which creates the note once
\* and moves the epoch.
EnsureAnchor(s) ==
    IF HasDoc(db, Anchor(s)) THEN db
    ELSE [db EXCEPT !.docs[Anchor(s)] = [version |-> 0, body |-> <<>>, last |-> -1],
                    !.epoch = @ + 1]

\* The alternatives a session includes are fresh, of its own branch and of the
\* relationship it explores.
IncludedUsable(after, s) ==
    \A c \in db.state.sessions[s].included : UsableCandidate(after, db.state, s, c)

\* start_discussion: the run freezes the anchor's revision and the story.
StartDiscussion(after, o, request, required) ==
    [CheckpointAt(after, Anchor(request.session)) EXCEPT
       !.runs[db.namespace][o] =
          [status |-> "running", request |-> request,
           relationship |-> ResolvedRelationship(request.session),
           epoch |-> after.epoch, seen |-> [d \in Docs |-> after.docs[d].version], required |-> required,
           output |-> <<>>]]

Request(s) ==
    [session |-> s, version |-> db.version, generation |-> db.state.sessions[s].generation,
     relationship |-> db.state.sessions[s].relationship]

\* Mutant: only the workshop's own receipt answers a repeated start.
StartAnswerReceiptOnly(o, request) ==
    LET receipt == db.receipts[db.namespace][o] IN
    IF receipt # NoReceipt
    THEN IF receipt = [kind |-> "start", request |-> request] THEN "run" ELSE "refused"
    ELSE IF request.version # db.version \/ ~Open(db.state, request.session)
            \/ db.state.sessions[request.session].generation # request.generation
         THEN "refused" ELSE "new"

\* start_workshop until it reads the workshop: what answers a request.  A run
\* whose receipt was never written answers the request it was started for.
StartAnswer(o, request) ==
    LET receipt == db.receipts[db.namespace][o]
        run == db.runs[db.namespace][o]
    IN  IF receipt # NoReceipt
        THEN IF receipt = [kind |-> "start", request |-> request] THEN "run" ELSE "refused"
        ELSE IF run # NoRun
        THEN IF run.request = request THEN "run" ELSE "refused"
        ELSE IF request.version # db.version \/ ~Open(db.state, request.session)
                \/ db.state.sessions[request.session].generation # request.generation
             THEN "refused" ELSE "new"

\* start_workshop: three commits, and the process may be lost or a write fail
\* after each of them.
StartWorkshop(o, s) ==
    /\ Open(db.state, s) /\ StartAnswer(o, Request(s)) = "new"
    /\ RelationshipResolves(s)
    /\ LET anchored == EnsureAnchor(s) IN
       \E scope \in Bodies, reached \in {"anchor", "run", "receipt"} :
         LET started == StartDiscussion(anchored, o, Request(s), FixedFor(s, scope)) IN
         /\ reached # "anchor" => IncludedUsable(anchored, s)
         /\ db' = CASE reached = "anchor" -> anchored
                    [] reached = "run" -> started
                    [] reached = "receipt" ->
                         [started EXCEPT !.receipts[db.namespace][o] =
                            [kind |-> "start", request |-> Request(s)]]

\* The discussion completes with some answer (DiscussionRun).
CompleteRun(o) ==
    /\ db.runs[db.namespace][o].status = "running"
    /\ \E output \in Outputs :
         db' = [db EXCEPT !.runs[db.namespace][o].status = "completed",
                          !.runs[db.namespace][o].output = output]

-----------------------------------------------------------------------------
\* Saving.

\* store_state and insert_snapshot, in the caller's transaction.
StoreState(s, o, state) ==
    [s EXCEPT !.version = @ + 1, !.state = state,
              !.snapshots = Append(@, [version |-> s.version + 1, namespace |-> s.namespace,
                                       op |-> o, state |-> state])]

Pairs == {p \in SUBSET Material : Cardinality(p) = 2}
LinkNow(s, pair) ==
    [status |-> "chosen", heads |-> [d \in pair |-> HeadOf(s.docs[d])]]

\* What the author may change in one edit of the state, right or wrong.
Edits(state) ==
    LET sessions == {s \in Sessions : Open(state, s)} IN
    {[state EXCEPT !.sessions[s] = new, !.current = s] :
        s \in Sessions \ sessions, new \in {NewSession} \cup
              {state.sessions[Parent[t]] : t \in {u \in Sessions \ sessions : Parent[u] # None}}}
    \cup {[state EXCEPT !.sessions[s].generation = 1] : s \in sessions}
    \cup UNION {{[state EXCEPT !.sessions[s].choices = @ \cup {c}, !.sessions[s].included = keep] :
                   keep \in {{}, {c}}} : s \in sessions, c \in HistoricalCandidates}
    \cup {[state EXCEPT !.sessions[s].fixed = {t}] : s \in sessions, t \in Fixed}
    \cup {[state EXCEPT !.sessions[s].relationship = r] : s \in sessions, r \in Rels}
    \cup UNION {{[state EXCEPT !.decisions[i].status = x] : x \in {"chosen", "archived"}}
                  \cup {[state EXCEPT !.decisions[i].fixed = TRUE, !.decisions[i].protected = {}],
                        [state EXCEPT !.decisions[i].fixed = FALSE]} :
                i \in DOMAIN state.decisions}
    \cup {[state EXCEPT !.relationships[r] = [status |-> "chosen", heads |-> h]] :
            r \in Rels, h \in {LinkNow(db, p).heads : p \in Pairs}}
    \cup {[state EXCEPT !.relationships[r] = NoRelationship] : r \in Rels}
    \cup {[state EXCEPT !.relationships[r].status = "archived"] :
            r \in {x \in Rels : state.relationships[x] # NoRelationship}}
    \cup {state}

\* Mutant: a save that changes nothing takes a version and no snapshot.
SavedStateCounted(o, state) ==
    IF state = db.state THEN [db EXCEPT !.version = @ + 1] ELSE StoreState(db, o, state)

\* save_workshop: an unchanged state keeps its version and has no snapshot.
SavedState(o, state) == IF state = db.state THEN db ELSE StoreState(db, o, state)

SaveWorkshop(o) ==
    /\ Unspent(o) /\ db.changes < ChangeLimit
    /\ \E state \in Edits(db.state) :
         /\ Saveable(state)
         /\ LET saved == SavedState(o, state) IN
            db' = [saved EXCEPT
              !.receipts[db.namespace][o] =
                 [kind |-> "save", version |-> saved.version, state |-> saved.state],
              !.changes = @ + 1]

-----------------------------------------------------------------------------
\* Adoption.

\* target_fixed_text: the texts the session and the fixed decisions keep in a
\* document, whatever the status of the decisions.
TargetFixed(s, d) ==
    {t \in db.state.sessions[s].fixed : HasText(db.docs[d].body, t)}
      \cup UNION {Protects(db.state.decisions[i]) :
                    i \in {j \in DOMAIN db.state.decisions :
                             db.state.decisions[j].fixed /\ db.state.decisions[j].doc = d}}

\* validate_protected_texts_for_targets, validate_protected_text.
KeepsProtected(s, d, body, requested) ==
    /\ \A t \in requested : HasText(body, t)
    /\ HasDoc(db, d) =>
         \A t \in TargetFixed(s, d) : HasText(body, t) /\ HasText(db.docs[d].body, t)

\* validate_adoption_targets: a new document is added, an existing one has the
\* expected head, and an addition leaves its blocks in place.
ValidTargets(targets) ==
    \A d \in DOMAIN targets :
        LET t == targets[d] IN
        /\ HeadOf(db.docs[d]) = t.expected
        /\ ~HasDoc(db, d) => t.mode = "add"
        /\ HasDoc(db, d) /\ t.mode = "add" => IsStrictPrefix(db.docs[d].body, t.body)

\* projected_target_heads.
ProjectedHead(targets, d) ==
    IF d \in DOMAIN targets
    THEN [version |-> db.docs[d].version + 1, body |-> targets[d].body]
    ELSE HeadOf(db.docs[d])

\* validate_relationship_drafts: a fresh identity between two documents that
\* exist or are added, with the heads the adoption will give them.
ValidDraft(targets, draft) ==
    /\ db.state.relationships[draft.id] = NoRelationship
    /\ \A d \in draft.pair : HasDoc(db, d) \/ d \in DOMAIN targets
DraftLinks(targets, drafts) ==
    {[id |-> x.id, heads |-> [d \in x.pair |-> ProjectedHead(targets, d)]] : x \in drafts}

\* build_adoption_impacts: the documents its candidates affect, anchors aside.
CandidateImpacts(candidates) ==
    UNION {{[candidate |-> c, doc |-> d] : d \in RunOf(c).output[c[3]].affects \ Sessions} :
             c \in candidates}
ImpactsAvailable(targets, candidates) ==
    \A m \in CandidateImpacts(candidates) : HasDoc(db, m.doc) \/ m.doc \in DOMAIN targets

\* What preview_workshop_adoption checks and adopt_workshop checks again.
Adoptable(p) ==
    /\ p.version = db.version
    /\ Open(db.state, p.session)
    /\ ValidTargets(p.targets)
    /\ ValidReferences(db.state, DOMAIN p.targets)
    /\ \A c \in p.candidates : UsableCandidate(db, db.state, p.session, c)
    /\ KeptCandidates(db.state)
    /\ \A x \in p.drafts : ValidDraft(p.targets, x)
    /\ ImpactsAvailable(p.targets, p.candidates)
    /\ \A d \in DOMAIN p.targets :
         KeepsProtected(p.session, d, p.targets[d].body, p.protected)

\* preview_workshop_adoption.  A preview of an earlier workshop version stays in
\* its table and can no longer be adopted; its place here is taken again.
PreviewAdoption(p) ==
    /\ db.previews[p] # NoPreview => db.previews[p].version # db.version
    /\ \E s \in Sessions, request \in Adoptions,
          candidates \in {{}} \cup {{c} : c \in HistoricalCandidates} :
         LET preview == [session |-> s, version |-> db.version, namespace |-> db.namespace,
                         targets |-> [d \in DOMAIN request.targets |->
                                        [expected |-> HeadOf(db.docs[d])] @@ request.targets[d]],
                         candidates |-> candidates, protected |-> request.protected,
                         drafts |-> request.drafts]
         IN  /\ Adoptable(preview)
             /\ db' = [db EXCEPT !.previews[p] =
                         preview @@ [links |-> DraftLinks(preview.targets, preview.drafts)]]


\* The documents of an adoption, written in its transaction.
WriteTargets(targets) ==
    FoldSet(LAMBDA d, s : WriteMaterial(s, d, targets[d].body), db, DOMAIN targets)

Decision(p, written, d) ==
    [session |-> p.session, doc |-> d, head |-> HeadOf(written.docs[d]),
     candidates |-> p.candidates, status |-> "chosen",
     fixed |-> p.protected # {}, protected |-> p.protected]

\* Mutant: every impact of an adoption hangs on its first decision.
DecisionForFirst(order, before, d) == before + 1

\* The new decision an impact on a document hangs on: the document's own, else
\* the first.
DecisionFor(order, before, d) ==
    IF \E i \in DOMAIN order : order[i] = d
    THEN before + (CHOOSE i \in DOMAIN order : order[i] = d) ELSE before + 1

\* The state after an adoption: earlier choices for the same documents are
\* superseded, relationships of the changed documents need review.
AdoptedState(p, written) ==
    LET state == db.state
        order == SetToSeq(DOMAIN p.targets)
        before == Len(state.decisions)
        old == [i \in 1..before |->
                  IF state.decisions[i].status = "chosen"
                     /\ state.decisions[i].doc \in DOMAIN p.targets
                  THEN [state.decisions[i] EXCEPT !.status = "superseded"]
                  ELSE state.decisions[i]]
        impact(d, c, r) == [decision |-> DecisionFor(order, before, d), doc |-> d,
                            candidate |-> c, relationship |-> r, status |-> "needsReview"]
        tensions == UNION {{impact(d, None, r) : d \in DOMAIN state.relationships[r].heads
                                                          \cap DOMAIN p.targets} :
                             r \in {x \in Rels : state.relationships[x] # NoRelationship}}
        affected == {impact(m.doc, m.candidate, None) : m \in CandidateImpacts(p.candidates)}
    IN  [state EXCEPT
           !.current = p.session,
           !.decisions = old \o [i \in DOMAIN order |-> Decision(p, written, order[i])],
           !.relationships = [r \in Rels |->
               IF \E x \in p.links : x.id = r
               THEN [status |-> "chosen", heads |-> (CHOOSE x \in p.links : x.id = r).heads]
               ELSE @[r]],
           !.impacts = @ \cup tensions \cup affected]

\* materialize_relationship_drafts: the heads the documents were given are the
\* ones the preview promised.
LinksCommitted(p, written) ==
    \A x \in p.links : \A d \in DOMAIN x.heads : x.heads[d] = HeadOf(written.docs[d])

AdoptWorkshop(o, q) ==
    LET p == db.previews[q] IN
    /\ Unspent(o)
    /\ p # NoPreview /\ p.namespace = db.namespace
    /\ Adoptable(p) /\ p.links = DraftLinks(p.targets, p.drafts)
    /\ \A d \in DOMAIN p.targets : db.docs[d].version < VersionLimit
    /\ LET written == WriteTargets(p.targets)
           state == AdoptedState(p, written)
           moved == [written EXCEPT !.epoch = @ + 1]
       IN  /\ LinksCommitted(p, written)
           /\ ValidShape(state)
           /\ db' = [StoreState(moved, o, state) EXCEPT
                !.receipts[db.namespace][o] =
                   [kind |-> "adopt", version |-> db.version + 1, state |-> state,
                    documents |-> [d \in DOMAIN p.targets |-> HeadOf(written.docs[d])]]]

-----------------------------------------------------------------------------
\* The other writers.

\* validate_chat_material_targets: what a chat adoption must keep in a document.
ChatProtected(d) ==
    LET fixed == IF db.state.current = None THEN {} ELSE db.state.sessions[db.state.current].fixed
    IN  {t \in fixed : HasText(db.docs[d].body, t)}
          \cup UNION {Protects(db.state.decisions[i]) :
                        i \in {j \in DOMAIN db.state.decisions :
                                 db.state.decisions[j].fixed /\ db.state.decisions[j].doc = d}}

\* An adoption of the project chat writes a document and appends a relationship
\* to the workshop (append_chat_relationships), under a command receipt.
AdoptChat(o, d) ==
    /\ Unspent(o) /\ db.changes < ChangeLimit
    /\ HasDoc(db, d) /\ db.docs[d].version < VersionLimit
    /\ \E body \in Bodies, r \in Rels, pair \in Pairs :
         LET written == [WriteMaterial(db, d, body) EXCEPT !.epoch = @ + 1]
             state == [db.state EXCEPT !.relationships[r] = LinkNow(written, pair)]
         IN  /\ \A t \in ChatProtected(d) : HasText(body, t) /\ HasText(db.docs[d].body, t)
             /\ db.state.relationships[r] = NoRelationship
             /\ \A x \in pair : HasDoc(written, x)
             /\ ValidReferences(state, {})
             /\ db' = [StoreState(written, o, state) EXCEPT
                         !.receipts[db.namespace][o] = [kind |-> "chat", relationship |-> r],
                         !.changes = @ + 1]

\* save_draft, and every other write of a body.
SaveDocument(d) ==
    /\ HasDoc(db, d) /\ db.docs[d].version < VersionLimit /\ db.changes < ChangeLimit
    /\ \E body \in Bodies \ {db.docs[d].body} :
         db' = [WriteBody(db, d, body) EXCEPT !.changes = @ + 1]

\* A copy of the project takes a fresh namespace; its runs and receipts become
\* history.
CopyProject ==
    /\ db.namespace + 1 \in Namespaces /\ db.changes < ChangeLimit
    /\ db' = [db EXCEPT !.namespace = @ + 1, !.changes = @ + 1]

Next ==
    \/ \E o \in Starts, s \in Sessions : StartWorkshop(o, s)
    \/ \E o \in Starts : CompleteRun(o)
    \/ \E o \in Ops : SaveWorkshop(o)
    \/ \E p \in Previews : PreviewAdoption(p)
    \/ \E o \in Ops, p \in Previews : AdoptWorkshop(o, p)
    \/ \E o \in Ops, d \in Material : AdoptChat(o, d)
    \/ \E d \in Material : SaveDocument(d)
    \/ CopyProject

Spec == Init /\ [][Next]_db

-----------------------------------------------------------------------------
\* validate_snapshot_authority: a snapshot has the receipt of the save or the
\* adoption that wrote it, or is the one before it with a relationship of a chat.
SnapshotAuthorised(i) ==
    LET shot == db.snapshots[i]
        receipt == db.receipts[shot.namespace][shot.op]
        previous == IF i = 1 THEN EmptyState ELSE db.snapshots[i - 1].state
    IN  /\ shot.version = i
        /\ IF receipt.kind = "chat"
           THEN shot.state = [previous EXCEPT !.relationships[receipt.relationship] =
                                shot.state.relationships[receipt.relationship]]
           ELSE /\ receipt.kind \in {"save", "adopt"}
                /\ receipt.version = shot.version /\ receipt.state = shot.state

\* validate_storage: the current state is the snapshot of its version.
CurrentIsSnapshot ==
    IF db.version = 0 THEN db.state = EmptyState
    ELSE db.version \in DOMAIN db.snapshots /\ db.snapshots[db.version].state = db.state

\* validate_storage: a start receipt has its run; an adoption receipt has its
\* snapshot, and its documents are immutable revisions.
ReceiptResolves(n, o) ==
    LET receipt == db.receipts[n][o] IN
    /\ receipt.kind = "start" => db.runs[n][o] # NoRun
    /\ receipt.kind = "adopt" =>
         /\ \E i \in DOMAIN db.snapshots :
              db.snapshots[i].namespace = n /\ db.snapshots[i].op = o
         /\ \A d \in DOMAIN receipt.documents :
              db.revisions[d][receipt.documents[d].version].body = receipt.documents[d].body

\* Whatever the author saves, adopts or copies, and wherever the process is
\* lost, the workshop's rows pass the check of a backup (validate_storage): the
\* state is its last snapshot, every snapshot has its authority, and every
\* receipt resolves.
WorkshopValidates ==
    /\ CurrentIsSnapshot
    /\ \A i \in DOMAIN db.snapshots : SnapshotAuthorised(i)
    /\ \A n \in Namespaces, o \in Starts \cup Ops : ReceiptResolves(n, o)

\* The state a command leaves can be saved as it is: an adoption checks only the
\* shape of the state it commits (validate_state_shape), and still every
\* decision, impact and relationship in it resolves, so the author is never
\* locked out of the workshop (validate_state_references).
StateStaysSaveable == Saveable(db.state)

\* A start that committed its run is answered by that run for good: when the
\* process was lost before the workshop receipt, and when the workshop has moved
\* on since (start_workshop, existing_workshop_run).
StartAnswered ==
    \A o \in Starts :
        LET run == db.runs[db.namespace][o] IN
        run # NoRun => StartAnswer(o, run.request) = "run"

\* A result the author sees as fresh can be adopted where it was asked for: the
\* staleness read_workshop_results shows and the one an adoption enforces
\* (validate_candidate_provenance) agree.
ShownFreshIsUsable ==
    \A c \in HistoricalCandidates :
        ~Stale(c) => UsableCandidate(db, db.state, RunOf(c).request.session, c)

\* An adoption writes what its preview showed into the story its candidates were
\* made for: the state and every target are the previewed ones, a candidate saw
\* every document as it is, the new relationships name the heads just written,
\* and no text a fixed decision protects is lost (adopt_workshop).
AdoptsWhatWasPreviewed ==
    [][Len(db'.state.decisions) > Len(db.state.decisions) =>
         \E q \in Previews :
           LET p == db.previews[q] IN
           /\ p # NoPreview /\ p.version = db.version
           /\ \A d \in Docs :
                IF d \in DOMAIN p.targets
                THEN /\ db.docs[d].version = p.targets[d].expected.version
                     /\ db.docs[d].body = p.targets[d].expected.body
                     /\ db'.docs[d].version = db.docs[d].version + 1
                     /\ db'.docs[d].body = p.targets[d].body
                     /\ \A i \in DOMAIN db.state.decisions :
                          db.state.decisions[i].fixed /\ db.state.decisions[i].doc = d =>
                             \A t \in Protects(db.state.decisions[i]) :
                                 HasText(db'.docs[d].body, t)
                ELSE db'.docs[d] = db.docs[d]
           /\ \A c \in p.candidates, d \in Docs : RunOf(c).seen[d] = db.docs[d].version
           /\ \A x \in p.links : db'.state.relationships[x.id] =
                [status |-> "chosen", heads |-> [d \in DOMAIN x.heads |-> HeadOf(db'.docs[d])]]]_(Len(db.state.decisions))
=============================================================================
