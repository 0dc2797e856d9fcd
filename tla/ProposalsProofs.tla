---------------------------- MODULE ProposalsProofs ----------------------------
(***************************************************************************)
(* For any documents, bodies, selections, runs, operations and limits: the *)
(* rows of suggestions pass the checks of a backup, and a suggestion is    *)
(* applied only to the whole story that its request saw, although the      *)
(* command compares the epochs and the target alone.                       *)
(*                                                                         *)
(* What a scope grants (Scope) is not looked into: it is enough that what  *)
(* was prepared was validated against the scope of its run, and that the   *)
(* scope was captured in the body of the target.                           *)
(***************************************************************************)
EXTENDS Proposals, TLAPS

Versions == 0..VersionLimit
HeadT == [version : Versions, body : Bodies]
DocT == [version : Versions, body : Bodies, last : Int]
RevisionT == [body : Bodies \cup {None}, parent : Int]
Scopes ==
    UNION {ScopesFor(i, d, b) : i \in {"discuss", "proposeEdits", "continue"},
                                d \in Docs, b \in Bodies}
RunT == [status : {"running", "completed"}, doc : Docs, target : HeadT,
         intent : {"discuss", "proposeEdits", "continue"},
         audience : {"authorRoom", "restrictedWriting"}, scope : Scopes,
         seen : [Docs -> HeadT], epoch : Nat, policy : Nat, namespace : Namespaces]
WordingT == [payload : Payloads, body : Bodies]
RejectT == [kind : {"reject"}, namespace : Namespaces, op : Ops]
ApplyT == [kind : {"apply"}, prepared : Nat, namespace : Namespaces, op : Ops,
           before : Versions, after : Versions]
AnswerT == [kind : {"prepare", "reject"}, proposal : Proposal, result : Nat]
AppliedT == [kind : {"apply"}, proposal : Proposal, result : Nat, head : HeadT]
SavedT == [kind : {"save"}, doc : Docs]
DbT == [docs : [Docs -> DocT], revisions : [Docs -> [Versions -> RevisionT]],
        epoch : Nat, policy : Nat, namespace : Namespaces,
        runs : [Runs -> RunT \cup {NoRun}], proposals : SUBSET Proposal,
        prepared : [Proposal -> Seq(WordingT)],
        decisions : [Proposal -> {NoDecision} \cup RejectT \cup ApplyT],
        receipts : [Namespaces -> [Ops -> {NoReceipt} \cup AnswerT \cup AppliedT \cup SavedT]]]

\* The revisions of a document: none is ahead of it, and its present one, if it
\* is kept, is the last and has its body.
DocFit(doc, kept) ==
    /\ \A v \in Versions : v > doc.version => kept[v] = NoRevision
    /\ kept[doc.version] # NoRevision =>
         doc.last = doc.version /\ kept[doc.version].body = doc.body

\* What the story s still tells of a run: while the epoch has not moved, every
\* head is the one it saw; its target is kept, and the version of the target has
\* the body it had.
RunFit(run, s) ==
    /\ run.epoch <= s.epoch
    /\ run.epoch = s.epoch => \A d \in Docs : HeadOf(s.docs[d]) = run.seen[d]
    /\ run.target = run.seen[run.doc]
    /\ run.target.version <= s.docs[run.doc].version
    /\ run.target.version = s.docs[run.doc].version => run.target.body = s.docs[run.doc].body
    /\ s.revisions[run.doc][run.target.version].body = run.target.body
    /\ run.scope # NoScope => run.scope.source = run.target.body
    /\ run.intent # "discuss" => run.scope \in AllGrants

\* The suggestions of a completed run, what was prepared for them and decided.
Valid(p, run, v) == ValidatePrepared(ProposalKind(run), run.scope, v)
SuggestionFit(p, s) ==
    IF p \in s.proposals
    THEN /\ s.runs[p[1]] # NoRun /\ s.runs[p[1]].status = "completed"
         /\ ProposalKind(s.runs[p[1]]) # None
         /\ \A i \in DOMAIN s.prepared[p] : Valid(p, s.runs[p[1]], s.prepared[p][i])
    ELSE s.prepared[p] = <<>> /\ s.decisions[p] = NoDecision

\* ApplyLinked of a state.
Linked(p, s) ==
    LET run == s.runs[p[1]]
        decision == s.decisions[p]
        receipt == s.receipts[decision.namespace][decision.op]
        after == s.revisions[run.doc][decision.after]
    IN  /\ receipt.kind = "apply" /\ receipt.proposal = p
        /\ decision.prepared \in DOMAIN s.prepared[p]
        /\ receipt.result = decision.prepared
        /\ decision.before = run.target.version
        /\ decision.after = decision.before + 1
        /\ decision.after <= s.docs[run.doc].version
        /\ after.body = s.prepared[p][decision.prepared].body
        /\ after.parent = decision.before
        /\ receipt.head = [version |-> decision.after, body |-> after.body]
DecisionFit(p, s) ==
    s.decisions[p] # NoDecision =>
        /\ s.decisions[p].namespace = s.runs[p[1]].namespace
        /\ IF s.decisions[p].kind = "apply" THEN Linked(p, s)
           ELSE s.receipts[s.decisions[p].namespace][s.decisions[p].op] =
                  [kind |-> "reject", proposal |-> p, result |-> 0]
ReceiptFit(n, o, s) ==
    LET receipt == s.receipts[n][o] IN
    /\ receipt.kind \in {"apply", "reject"} =>
         /\ s.decisions[receipt.proposal].kind = receipt.kind
         /\ s.decisions[receipt.proposal].namespace = n
         /\ s.decisions[receipt.proposal].op = o
    /\ receipt.kind = "prepare" => receipt.result \in DOMAIN s.prepared[receipt.proposal]

\* The inductive invariant.
StoryFit(s) ==
    /\ \A d \in Docs : DocFit(s.docs[d], s.revisions[d])
    /\ \A r \in Runs : s.runs[r] # NoRun => RunFit(s.runs[r], s)
ReviewFit(s) ==
    /\ \A p \in Proposal : SuggestionFit(p, s) /\ DecisionFit(p, s)
    /\ \A n \in Namespaces, o \in Ops : ReceiptFit(n, o, s)
Fit == db \in DbT /\ StoryFit(db) /\ ReviewFit(db)


-----------------------------------------------------------------------------
\* What a writer makes of the story.

\* Nothing that a run was told changes under the same epoch, versions grow, and
\* what was kept stays kept.
Grows(s, t) ==
    /\ t.epoch >= s.epoch
    /\ t.epoch = s.epoch => \A d \in Docs : HeadOf(t.docs[d]) = HeadOf(s.docs[d])
    /\ \A d \in Docs :
         /\ t.docs[d].version >= s.docs[d].version
         /\ t.docs[d].version = s.docs[d].version => t.docs[d].body = s.docs[d].body
         /\ \A v \in Versions :
              /\ s.revisions[d][v] # NoRevision => t.revisions[d][v] = s.revisions[d][v]
              /\ v < s.docs[d].version => t.revisions[d][v].body = s.revisions[d][v].body
              /\ v = s.docs[d].version =>
                   t.revisions[d][v].body \in {s.revisions[d][v].body, s.docs[d].body}

\* The writes of the story leave the rest of the project alone.
SameReview(s, t) ==
    /\ t.runs = s.runs /\ t.proposals = s.proposals /\ t.prepared = s.prepared
    /\ t.decisions = s.decisions /\ t.receipts = s.receipts
    /\ t.namespace = s.namespace /\ t.policy = s.policy
DocsFit(s) == \A d \in Docs : DocFit(s.docs[d], s.revisions[d])

\* A story that nothing touched has grown and is reviewed alike.
LEMMA GrowsNone == ASSUME NEW s \in DbT PROVE Grows(s, s) /\ SameReview(s, s)
  BY DEF Grows, SameReview, DbT, DocT, HeadOf, Versions

\* Growing one step after another is growing.
LEMMA GrowsOn ==
  ASSUME NEW s \in DbT, NEW t \in DbT, NEW u \in DbT, Grows(s, t), Grows(t, u)
  PROVE  Grows(s, u)
<1>1. s.epoch \in Nat /\ t.epoch \in Nat /\ u.epoch \in Nat BY DEF DbT
<1>2. u.epoch >= s.epoch BY <1>1 DEF Grows
<1>3. ASSUME u.epoch = s.epoch, NEW d \in Docs PROVE HeadOf(u.docs[d]) = HeadOf(s.docs[d])
  <2>1. t.epoch = s.epoch /\ u.epoch = t.epoch BY <1>1, <1>3 DEF Grows
  <2> QED BY <2>1 DEF Grows
<1>4. ASSUME NEW d \in Docs
      PROVE  /\ u.docs[d].version >= s.docs[d].version
             /\ u.docs[d].version = s.docs[d].version => u.docs[d].body = s.docs[d].body
             /\ \A v \in Versions :
                  /\ s.revisions[d][v] # NoRevision => u.revisions[d][v] = s.revisions[d][v]
                  /\ v < s.docs[d].version => u.revisions[d][v].body = s.revisions[d][v].body
                  /\ v = s.docs[d].version =>
                       u.revisions[d][v].body \in {s.revisions[d][v].body, s.docs[d].body}
  <2> DEFINE a == s.docs[d].version
             b == t.docs[d].version
             c == u.docs[d].version
  <2>1. a \in Int /\ b \in Int /\ c \in Int BY DEF DbT, DocT, Versions
  <2>2. /\ b >= a /\ (b = a => t.docs[d].body = s.docs[d].body)
        /\ c >= b /\ (c = b => u.docs[d].body = t.docs[d].body)
    BY DEF Grows
  <2>3. ASSUME NEW v \in Versions
        PROVE  /\ s.revisions[d][v] # NoRevision => u.revisions[d][v] = s.revisions[d][v]
               /\ v < a => u.revisions[d][v].body = s.revisions[d][v].body
               /\ v = a => u.revisions[d][v].body \in {s.revisions[d][v].body, s.docs[d].body}
    <3>1. /\ s.revisions[d][v] # NoRevision => t.revisions[d][v] = s.revisions[d][v]
          /\ v < a => t.revisions[d][v].body = s.revisions[d][v].body
          /\ v = a => t.revisions[d][v].body \in {s.revisions[d][v].body, s.docs[d].body}
      BY DEF Grows
    <3>2. /\ t.revisions[d][v] # NoRevision => u.revisions[d][v] = t.revisions[d][v]
          /\ v < b => u.revisions[d][v].body = t.revisions[d][v].body
          /\ v = b => u.revisions[d][v].body \in {t.revisions[d][v].body, t.docs[d].body}
      BY DEF Grows
    <3>3. v \in Int BY DEF Versions
    <3>4. s.revisions[d][v] # NoRevision => u.revisions[d][v] = s.revisions[d][v]
      BY <3>1, <3>2
    <3>5. v < a => v < b BY <2>1, <2>2, <3>3 DEF Versions
    <3>6. v < a => u.revisions[d][v].body = s.revisions[d][v].body BY <3>1, <3>2, <3>5
    <3>7. ASSUME v = a
          PROVE  u.revisions[d][v].body \in {s.revisions[d][v].body, s.docs[d].body}
      <4>1. t.revisions[d][v].body \in {s.revisions[d][v].body, s.docs[d].body}
        BY <3>1, <3>7
      <4>2. CASE v < b BY <3>2, <4>1, <4>2
      <4>3. CASE v = b
        <5>1. t.docs[d].body = s.docs[d].body BY <2>2, <3>7, <4>3
        <5> QED BY <3>2, <4>1, <4>3, <5>1
      <4> HIDE DEF a, b, c
      <4>4. v < b \/ v = b BY <2>1, <2>2, <3>3, <3>7
      <4> QED BY <4>2, <4>3, <4>4
    <3> QED BY <3>4, <3>6, <3>7
  <2>4. c >= a /\ (c = a => u.docs[d].body = s.docs[d].body)
    <3> HIDE DEF a, b, c
    <3> QED BY <2>1, <2>2
  <2> QED BY <2>3, <2>4
<1> QED BY <1>2, <1>3, <1>4 DEF Grows

\* Growing is told from the fields of the story: any state with them grew too.
LEMMA GrowsSame ==
  ASSUME NEW s, NEW t, NEW u, Grows(s, t),
         u.docs = t.docs, u.revisions = t.revisions, u.epoch = t.epoch
  PROVE  Grows(s, u)
  BY DEF Grows

\* A checkpoint keeps the present body under its version.
LEMMA CheckpointFit ==
  ASSUME NEW s \in DbT, NEW d \in Docs, DocsFit(s)
  PROVE  LET t == CheckpointAt(s, d) IN
         /\ t \in DbT /\ DocsFit(t) /\ Grows(s, t) /\ SameReview(s, t) /\ t.epoch = s.epoch
         /\ \A x \in Docs : HeadOf(t.docs[x]) = HeadOf(s.docs[x])
         /\ t.docs[d].last = s.docs[d].version
         /\ t.revisions[d][s.docs[d].version].body = s.docs[d].body
         /\ s.revisions[d][s.docs[d].version] = NoRevision =>
              t.revisions[d][s.docs[d].version] =
                [body |-> s.docs[d].body, parent |-> s.docs[d].last]
<1> DEFINE v == s.docs[d].version
           kept == [body |-> s.docs[d].body, parent |-> s.docs[d].last]
           t == [s EXCEPT !.revisions[d][v] = kept, !.docs[d].last = v]
<1>1. /\ v \in Versions /\ s.docs \in [Docs -> DocT] /\ s.docs[d] \in DocT
      /\ s.revisions \in [Docs -> [Versions -> RevisionT]] /\ s.docs[d].last \in Int
      /\ s.epoch \in Nat /\ kept \in RevisionT /\ v \in Int
  BY DEF DbT, DocT, RevisionT, Versions
<1>2. CASE s.revisions[d][v] # NoRevision
  <2>1. CheckpointAt(s, d) = s BY <1>2 DEF CheckpointAt
  <2>2. s.docs[d].last = v /\ s.revisions[d][v].body = s.docs[d].body
    BY <1>1, <1>2 DEF DocsFit, DocFit
  <2> QED BY <1>2, <2>1, <2>2, GrowsNone
<1>3. CASE s.revisions[d][v] = NoRevision
  <2>1. CheckpointAt(s, d) = t BY <1>3 DEF CheckpointAt
  <2>2. /\ t.docs = [s.docs EXCEPT ![d].last = v]
        /\ t.revisions = [s.revisions EXCEPT ![d][v] = kept]
        /\ t.epoch = s.epoch /\ SameReview(s, t)
    BY DEF DbT, SameReview
  <2>3. t \in DbT
    <3>1. t.docs \in [Docs -> DocT] BY <1>1, <2>2 DEF DocT
    <3>2. t.revisions \in [Docs -> [Versions -> RevisionT]]
      <4> HIDE DEF kept, v, t
      <4> QED BY <1>1, <2>2
    <3> QED BY <3>1, <3>2 DEF DbT
  <2> HIDE DEF t, kept
  <2>4. /\ \A x \in Docs \ {d} : t.docs[x] = s.docs[x] /\ t.revisions[x] = s.revisions[x]
        /\ t.docs[d].version = v /\ t.docs[d].body = s.docs[d].body /\ t.docs[d].last = v
        /\ \A w \in Versions \ {v} : t.revisions[d][w] = s.revisions[d][w]
        /\ t.revisions[d][v] = kept
    BY <1>1, <2>2 DEF DocT
  <2>5. DocsFit(t)
    <3>1. ASSUME NEW x \in Docs \ {d} PROVE DocFit(t.docs[x], t.revisions[x])
      BY <2>4 DEF DocsFit
    <3>2. DocFit(t.docs[d], t.revisions[d])
      <4>1. DocFit(s.docs[d], s.revisions[d]) BY DEF DocsFit
      <4>2. kept.body = s.docs[d].body BY DEF kept
      <4> QED BY <1>1, <2>4, <4>1, <4>2 DEF DocFit
    <3> QED BY <3>1, <3>2 DEF DocsFit
  <2>6. \A x \in Docs : HeadOf(t.docs[x]) = HeadOf(s.docs[x]) BY <2>4 DEF HeadOf
  <2>7. Grows(s, t)
    <3>1. \A x \in Docs : /\ t.docs[x].version >= s.docs[x].version
                          /\ t.docs[x].version = s.docs[x].version
                               => t.docs[x].body = s.docs[x].body
      <4>1. \A x \in Docs : s.docs[x].version \in Int BY <1>1 DEF DocT, Versions
      <4> QED BY <2>4, <4>1
    <3>2. ASSUME NEW x \in Docs, NEW w \in Versions
          PROVE  /\ s.revisions[x][w] # NoRevision => t.revisions[x][w] = s.revisions[x][w]
                 /\ w < s.docs[x].version => t.revisions[x][w].body = s.revisions[x][w].body
                 /\ w = s.docs[x].version =>
                      t.revisions[x][w].body \in {s.revisions[x][w].body, s.docs[x].body}
      <4>1. CASE x = d /\ w = v
        <5>1. t.revisions[d][v].body = s.docs[d].body BY <2>4 DEF kept
        <5> QED BY <1>1, <1>3, <4>1, <5>1
      <4>2. CASE ~(x = d /\ w = v)
        <5>1. t.revisions[x][w] = s.revisions[x][w] BY <2>4, <4>2
        <5> QED BY <5>1
      <4> QED BY <4>1, <4>2
    <3>3. t.epoch >= s.epoch BY <1>1, <2>2
    <3> QED BY <2>6, <3>1, <3>2, <3>3 DEF Grows
  <2> QED BY <1>3, <2>1, <2>2, <2>3, <2>4, <2>5, <2>6, <2>7 DEF kept
<1> QED BY <1>2, <1>3

\* A new body moves the document and the epoch.
LEMMA WriteFit ==
  ASSUME NEW s \in DbT, NEW d \in Docs, DocsFit(s), NEW body \in Bodies,
         s.docs[d].version < VersionLimit
  PROVE  LET t == WriteBody(s, d, body) IN
         /\ t \in DbT /\ DocsFit(t) /\ Grows(s, t) /\ SameReview(s, t)
         /\ t.revisions = s.revisions
         /\ HeadOf(t.docs[d]) = [version |-> s.docs[d].version + 1, body |-> body]
         /\ t.docs[d].last = s.docs[d].last
         /\ t.revisions[d][s.docs[d].version + 1] = NoRevision
<1> DEFINE v == s.docs[d].version
           t == [s EXCEPT !.docs[d].version = @ + 1, !.docs[d].body = body, !.epoch = @ + 1]
<1>1. /\ v \in Versions /\ v + 1 \in Versions /\ s.docs \in [Docs -> DocT] /\ s.docs[d] \in DocT
      /\ s.epoch \in Nat
  BY ProposalConstants DEF DbT, DocT, Versions
<1>2. WriteBody(s, d, body) = t BY DEF WriteBody
<1>3. /\ t.docs = [s.docs EXCEPT ![d] = [s.docs[d] EXCEPT !.version = v + 1, !.body = body]]
      /\ t.revisions = s.revisions /\ t.epoch = s.epoch + 1 /\ SameReview(s, t)
  BY <1>1 DEF DbT, SameReview
<1>4. t \in DbT
  <2> DEFINE docs == [s.docs EXCEPT ![d] = [s.docs[d] EXCEPT !.version = v + 1, !.body = body]]
             u == [s EXCEPT !.docs = docs, !.epoch = s.epoch + 1]
  <2>1. docs \in [Docs -> DocT] BY <1>1 DEF DocT
  <2>2. t = u BY <1>1 DEF DbT
  <2>3. s.epoch + 1 \in Nat BY <1>1
  <2> HIDE DEF docs
  <2>4. u \in DbT BY <2>1, <2>3 DEF DbT
  <2> QED BY <2>2, <2>4
<1> HIDE DEF t
<1>5. /\ \A x \in Docs \ {d} : t.docs[x] = s.docs[x]
      /\ t.docs[d].version = v + 1 /\ t.docs[d].body = body /\ t.docs[d].last = s.docs[d].last
  BY <1>1, <1>3 DEF DocT
<1>6. v \in Int /\ v + 1 > v /\ s.revisions[d][v + 1] = NoRevision
  BY <1>1 DEF Versions, DocsFit, DocFit
<1>7. DocsFit(t)
  <2>1. ASSUME NEW x \in Docs \ {d} PROVE DocFit(t.docs[x], t.revisions[x])
    BY <1>3, <1>5 DEF DocsFit
  <2>2. \A w \in Versions : w > v => s.revisions[d][w] = NoRevision BY DEF DocsFit, DocFit
  <2>3. \A w \in Versions : w > v + 1 => w > v BY <1>6 DEF Versions
  <2>4. DocFit(t.docs[d], t.revisions[d]) BY <1>3, <1>5, <1>6, <2>2, <2>3 DEF DocFit
  <2> QED BY <2>1, <2>4 DEF DocsFit
<1>8. Grows(s, t)
  <2>1. \A x \in Docs : s.docs[x].version \in Int BY <1>1 DEF DocT, Versions
  <2>2. \A x \in Docs : /\ t.docs[x].version >= s.docs[x].version
                        /\ t.docs[x].version = s.docs[x].version
                             => t.docs[x].body = s.docs[x].body
    BY <1>5, <1>6, <2>1
  <2> QED BY <1>1, <1>3, <2>2 DEF Grows
<1> QED BY <1>2, <1>3, <1>4, <1>5, <1>6, <1>7, <1>8 DEF HeadOf

\* A run is told the same, however the story grows.
LEMMA RunGrows ==
  ASSUME NEW s \in DbT, NEW t \in DbT, DocsFit(s), Grows(s, t),
         NEW run \in RunT, RunFit(run, s)
  PROVE  RunFit(run, t)
<1> DEFINE d == run.doc
           v == run.target.version
<1>1. d \in Docs /\ v \in Versions /\ v \in Int /\ run.epoch \in Nat
  BY DEF RunT, HeadT, Versions
<1>2. /\ s.docs[d].version \in Int /\ t.docs[d].version \in Int
      /\ s.epoch \in Nat /\ t.epoch \in Nat
  BY <1>1 DEF DbT, DocT, Versions
<1>3. /\ t.docs[d].version >= s.docs[d].version
      /\ t.docs[d].version = s.docs[d].version => t.docs[d].body = s.docs[d].body
      /\ v < s.docs[d].version => t.revisions[d][v].body = s.revisions[d][v].body
      /\ v = s.docs[d].version =>
           t.revisions[d][v].body \in {s.revisions[d][v].body, s.docs[d].body}
  BY <1>1 DEF Grows
<1>4. /\ v <= s.docs[d].version
      /\ v = s.docs[d].version => run.target.body = s.docs[d].body
      /\ s.revisions[d][v].body = run.target.body
  BY DEF RunFit
<1>5. /\ v <= t.docs[d].version
      /\ v = t.docs[d].version => run.target.body = t.docs[d].body
      /\ t.revisions[d][v].body = run.target.body
  <2> HIDE DEF v, d
  <2> QED BY <1>1, <1>2, <1>3, <1>4
<1>6. /\ run.epoch <= t.epoch
      /\ run.epoch = t.epoch => \A x \in Docs : HeadOf(t.docs[x]) = run.seen[x]
  <2>1. run.epoch <= s.epoch /\ t.epoch >= s.epoch BY DEF RunFit, Grows
  <2>2. ASSUME run.epoch = t.epoch, NEW x \in Docs PROVE HeadOf(t.docs[x]) = run.seen[x]
    <3>1. run.epoch = s.epoch /\ t.epoch = s.epoch BY <1>1, <1>2, <2>1, <2>2
    <3>2. HeadOf(s.docs[x]) = run.seen[x] BY <3>1 DEF RunFit
    <3>3. HeadOf(t.docs[x]) = HeadOf(s.docs[x]) BY <3>1 DEF Grows
    <3> QED BY <3>2, <3>3
  <2> QED BY <1>1, <1>2, <2>1, <2>2
<1> QED BY <1>5, <1>6 DEF RunFit

-----------------------------------------------------------------------------
\* Grants and kinds.

\* A run that can retain suggestions has a scope, of a kind, and did not discuss.
LEMMA KindFit ==
  ASSUME NEW run \in RunT, ProposalKind(run) # None
  PROVE  /\ ProposalKind(run) \in {"passage", "continuation", "structured"}
         /\ run.scope # NoScope /\ run.intent # "discuss"
  BY DEF ProposalKind, RunT, None

\* The kind of a run does not depend on how far it is, nor does what it was told.
LEMMA StatusApart ==
  ASSUME NEW run \in RunT, NEW status \in {"running", "completed"}, NEW s
  PROVE  LET next == [run EXCEPT !.status = status] IN
         /\ next \in RunT /\ ProposalKind(next) = ProposalKind(run)
         /\ next.status = status /\ next.scope = run.scope
         /\ RunFit(run, s) => RunFit(next, s)
<1> DEFINE next == [run EXCEPT !.status = status]
<1>1. /\ next \in RunT /\ next.status = status /\ next.doc = run.doc /\ next.target = run.target
      /\ next.intent = run.intent /\ next.audience = run.audience /\ next.scope = run.scope
      /\ next.seen = run.seen /\ next.epoch = run.epoch
  BY DEF RunT
<1> HIDE DEF next
<1>2. ProposalKind(next) = ProposalKind(run) BY <1>1 DEF ProposalKind
<1>3. RunFit(run, s) => RunFit(next, s) BY <1>1 DEF RunFit
<1> QED BY <1>1, <1>2, <1>3 DEF next

\* What a request of an intent may select is captured in the body.
LEMMA ScopeSource ==
  ASSUME NEW i \in {"discuss", "proposeEdits", "continue"}, NEW d \in Docs, NEW b \in Bodies,
         NEW g \in ScopesFor(i, d, b)
  PROVE  /\ g \in Scopes
         /\ g # NoScope => g.source = b
         /\ i # "discuss" => g \in AllGrants
<1>1. g \in Scopes BY DEF Scopes
<1>2. i # "discuss" => g \in AllGrants BY DEF AllGrants
<1>3. ASSUME g # NoScope PROVE g.source = b
  <2>1. \A sel : CaptureScope(b, sel).source = b BY DEF CaptureScope
  <2>2. CaptureAppendScope(b).source = b BY DEF CaptureAppendScope
  <2>3. \/ \E sel \in Selections : g = CaptureScope(b, sel)
        \/ g = CaptureAppendScope(b)
    BY <1>3 DEF ScopesFor
  <2> QED BY <2>1, <2>2, <2>3
<1> QED BY <1>1, <1>2, <1>3

-----------------------------------------------------------------------------
\* What a writer leaves of the review.

\* The story fits whatever grew out of it, run by run.
LEMMA StoryGrows ==
  ASSUME NEW s \in DbT, NEW t \in DbT, StoryFit(s), DocsFit(t), Grows(s, t), t.runs = s.runs
  PROVE  StoryFit(t)
<1>1. DocsFit(s) BY DEF StoryFit, DocsFit
<1>2. ASSUME NEW r \in Runs, t.runs[r] # NoRun PROVE RunFit(t.runs[r], t)
  <2>1. s.runs[r] \in RunT /\ RunFit(s.runs[r], s) BY <1>2 DEF StoryFit, DbT
  <2> QED BY <1>1, <2>1, RunGrows
<1> QED BY <1>2 DEF StoryFit, DocsFit

\* What a run is told depends on the story alone.
LEMMA SameStory ==
  ASSUME NEW s, NEW t, NEW run, RunFit(run, s),
         t.docs = s.docs, t.revisions = s.revisions, t.epoch = s.epoch
  PROVE  RunFit(run, t)
  BY DEF RunFit

\* A decision stands as long as its run, its wording and its receipt do.
LEMMA DecisionKept ==
  ASSUME NEW s \in DbT, NEW t \in DbT, Grows(s, t), NEW q \in Proposal, DecisionFit(q, s),
         t.decisions[q] = s.decisions[q], t.runs[q[1]] = s.runs[q[1]],
         s.decisions[q] # NoDecision => s.runs[q[1]] # NoRun,
         \A i \in DOMAIN s.prepared[q] :
             i \in DOMAIN t.prepared[q] /\ t.prepared[q][i] = s.prepared[q][i],
         LET slot == s.decisions[q] IN
         s.decisions[q] # NoDecision =>
             t.receipts[slot.namespace][slot.op] = s.receipts[slot.namespace][slot.op]
  PROVE  DecisionFit(q, t)
<1> DEFINE decision == s.decisions[q]
           run == s.runs[q[1]]
<1>1. SUFFICES ASSUME decision # NoDecision PROVE DecisionFit(q, t)
  BY DEF DecisionFit
<1>2. run \in RunT BY <1>1 DEF DbT, Proposal
<1>3. decision \in RejectT \cup ApplyT BY <1>1 DEF DbT
<1>4. decision.namespace = run.namespace BY <1>1 DEF DecisionFit
<1>5. t.receipts[decision.namespace][decision.op] = s.receipts[decision.namespace][decision.op]
  BY <1>1
<1>6. CASE decision.kind # "apply"
  BY <1>1, <1>4, <1>5, <1>6 DEF DecisionFit
<1>7. CASE decision.kind = "apply"
  <2>1. Linked(q, s) BY <1>1, <1>7 DEF DecisionFit
  <2>2. decision \in ApplyT BY <1>3, <1>7 DEF RejectT
  <2>3. /\ decision.after \in Versions /\ decision.before \in Nat /\ run.doc \in Docs
    BY <1>2, <2>2 DEF ApplyT, RunT, Versions
  <2>4. s.revisions[run.doc][decision.after].parent = decision.before BY <2>1 DEF Linked
  <2>5. s.revisions[run.doc][decision.after] # NoRevision
    <3>1. NoRevision.parent = -1 /\ ~(-1 \in Nat) BY DEF NoRevision
    <3> HIDE DEF decision, run
    <3> QED BY <2>3, <2>4, <3>1
  <2>6. t.revisions[run.doc][decision.after] = s.revisions[run.doc][decision.after]
    BY <2>3, <2>5 DEF Grows
  <2>7. decision.after <= t.docs[run.doc].version
    <3>1. s.docs[run.doc].version \in Int /\ t.docs[run.doc].version \in Int
      BY <2>3 DEF DbT, DocT, Versions
    <3>2. t.docs[run.doc].version >= s.docs[run.doc].version BY <2>3 DEF Grows
    <3>3. decision.after <= s.docs[run.doc].version BY <2>1 DEF Linked
    <3>4. decision.after \in Int BY <2>3 DEF Versions
    <3> QED BY <3>1, <3>2, <3>3, <3>4
  <2>8. /\ decision.prepared \in DOMAIN t.prepared[q]
        /\ t.prepared[q][decision.prepared] = s.prepared[q][decision.prepared]
    BY <2>1 DEF Linked
  <2>9. Linked(q, t) BY <1>5, <2>1, <2>6, <2>7, <2>8 DEF Linked
  <2> QED BY <1>4, <1>7, <2>9 DEF DecisionFit
<1> QED BY <1>6, <1>7

\* A receipt stays fit when the review keeps what the receipt names.
LEMMA ReceiptKept ==
  ASSUME NEW s, NEW t, NEW n, NEW o, ReceiptFit(n, o, s),
         t.prepared = s.prepared, t.decisions = s.decisions, t.receipts = s.receipts
  PROVE  ReceiptFit(n, o, t)
  BY DEF ReceiptFit

\* A command that spends a fresh identity and touches only pending suggestions
\* leaves the others, and every receipt but its own, as they were.
Spends(s, t, P, o) ==
    /\ Grows(s, t) /\ t.runs = s.runs /\ t.proposals = s.proposals
    /\ s.receipts[s.namespace][o] = NoReceipt
    /\ \A q \in Proposal \ P : t.decisions[q] = s.decisions[q] /\ t.prepared[q] = s.prepared[q]
    /\ \A q \in P : /\ s.decisions[q] = NoDecision
                  /\ \A i \in DOMAIN s.prepared[q] : i \in DOMAIN t.prepared[q]
    /\ \A n \in Namespaces, x \in Ops :
         ~(n = s.namespace /\ x = o) => t.receipts[n][x] = s.receipts[n][x]
OthersFit(t, P, m, o) ==
    /\ \A q \in Proposal \ P : SuggestionFit(q, t) /\ DecisionFit(q, t)
    /\ \A n \in Namespaces, x \in Ops : ~(n = m /\ x = o) => ReceiptFit(n, x, t)

\* A step that writes one suggestion leaves the rows of the others fit.
LEMMA OthersStand ==
  ASSUME NEW s \in DbT, NEW t \in DbT, ReviewFit(s), NEW P \in SUBSET Proposal, NEW o \in Ops,
         Spends(s, t, P, o)
  PROVE  OthersFit(t, P, s.namespace, o)
<1>1. ASSUME NEW q \in Proposal \ P PROVE SuggestionFit(q, t) /\ DecisionFit(q, t)
  <2>1. SuggestionFit(q, s) /\ DecisionFit(q, s) BY DEF ReviewFit
  <2>2. /\ t.decisions[q] = s.decisions[q] /\ t.prepared[q] = s.prepared[q]
        /\ t.runs = s.runs /\ t.proposals = s.proposals /\ Grows(s, t)
    BY DEF Spends
  <2>3. SuggestionFit(q, t) BY <2>1, <2>2 DEF SuggestionFit
  <2>4. ASSUME s.decisions[q] # NoDecision
        PROVE  LET slot == s.decisions[q] IN
               /\ s.runs[q[1]] # NoRun
               /\ t.receipts[slot.namespace][slot.op] = s.receipts[slot.namespace][slot.op]
    <3> DEFINE slot == s.decisions[q]
    <3>1. slot \in RejectT \cup ApplyT BY <2>4 DEF DbT
    <3>2. slot.namespace \in Namespaces /\ slot.op \in Ops BY <3>1 DEF RejectT, ApplyT
    <3>3. s.receipts[slot.namespace][slot.op].kind \in {"apply", "reject"}
      <4>1. CASE slot.kind = "apply"
        <5>1. Linked(q, s) BY <2>1, <2>4, <4>1 DEF DecisionFit
        <5> QED BY <5>1 DEF Linked
      <4>2. CASE slot.kind # "apply"
        <5>1. s.receipts[slot.namespace][slot.op]
                = [kind |-> "reject", proposal |-> q, result |-> 0]
          BY <2>1, <2>4, <4>2 DEF DecisionFit
        <5> HIDE DEF slot
        <5> QED BY <5>1
      <4> QED BY <4>1, <4>2
    <3>4. ~(slot.namespace = s.namespace /\ slot.op = o) BY <3>3 DEF Spends, NoReceipt, None
    <3>5. s.runs[q[1]] # NoRun BY <2>1, <2>4 DEF SuggestionFit
    <3> HIDE DEF slot
    <3>6. t.receipts[slot.namespace][slot.op] = s.receipts[slot.namespace][slot.op]
      BY <3>2, <3>4 DEF Spends
    <3> QED BY <3>5, <3>6 DEF slot
  <2>5. DecisionFit(q, t) BY <2>1, <2>2, <2>4, DecisionKept
  <2> QED BY <2>3, <2>5
<1>2. ASSUME NEW n \in Namespaces, NEW x \in Ops, ~(n = s.namespace /\ x = o)
      PROVE  ReceiptFit(n, x, t)
  <2> DEFINE receipt == s.receipts[n][x]
  <2>1. ReceiptFit(n, x, s) BY DEF ReviewFit
  <2>2. t.receipts[n][x] = receipt BY <1>2 DEF Spends
  <2>3. receipt \in {NoReceipt} \cup AnswerT \cup AppliedT \cup SavedT BY DEF DbT
  <2>4. receipt.kind \in {"prepare", "apply", "reject"} => receipt.proposal \in Proposal
    BY <2>3 DEF NoReceipt, None, AnswerT, AppliedT, SavedT
  <2> HIDE DEF receipt
  <2>5. ASSUME receipt.kind \in {"apply", "reject"}
        PROVE  t.decisions[receipt.proposal] = s.decisions[receipt.proposal]
    <3>1. s.decisions[receipt.proposal].kind = receipt.kind
      BY <2>1, <2>5 DEF ReceiptFit, receipt
    <3>2. s.decisions[receipt.proposal] # NoDecision BY <2>5, <3>1 DEF NoDecision, None
    <3> QED BY <2>4, <2>5, <3>2 DEF Spends
  <2>6. ASSUME receipt.kind = "prepare", receipt.result \in DOMAIN s.prepared[receipt.proposal]
        PROVE  receipt.result \in DOMAIN t.prepared[receipt.proposal]
    BY <2>4, <2>6 DEF Spends
  <2> QED BY <2>1, <2>2, <2>5, <2>6 DEF ReceiptFit, receipt
<1> QED BY <1>1, <1>2 DEF OthersFit

\* A writer of the story alone keeps the review.
LEMMA ReviewKept ==
  ASSUME NEW s \in DbT, NEW t \in DbT, ReviewFit(s), Grows(s, t),
         t.runs = s.runs, t.proposals = s.proposals, t.prepared = s.prepared,
         t.decisions = s.decisions, t.receipts = s.receipts
  PROVE  ReviewFit(t)
<1>1. ASSUME NEW q \in Proposal PROVE SuggestionFit(q, t) /\ DecisionFit(q, t)
  <2>1. SuggestionFit(q, s) /\ DecisionFit(q, s) BY DEF ReviewFit
  <2>2. SuggestionFit(q, t) BY <2>1 DEF SuggestionFit
  <2>3. s.decisions[q] # NoDecision => s.runs[q[1]] # NoRun BY <2>1 DEF SuggestionFit
  <2>4. DecisionFit(q, t) BY <2>1, <2>3, DecisionKept
  <2> QED BY <2>2, <2>4
<1>2. ASSUME NEW n \in Namespaces, NEW o \in Ops PROVE ReceiptFit(n, o, t)
  BY ReceiptKept DEF ReviewFit
<1> QED BY <1>1, <1>2 DEF ReviewFit

-----------------------------------------------------------------------------
\* The commands.

\* A request that starts: its run sees the heads of the moment.
LEMMA StartKeepsFit ==
  ASSUME Fit, NEW r \in Runs, NEW d \in Docs, StartRun(r, d)
  PROVE  Fit'
<1> DEFINE t == CheckpointAt(db, d)
<1>1. PICK i \in {"discuss", "proposeEdits", "continue"} :
        \E g \in ScopesFor(i, d, db.docs[d].body) :
          db' = [t EXCEPT !.runs[r] =
                   [status |-> "running", doc |-> d, target |-> HeadOf(db.docs[d]),
                    intent |-> i, audience |-> AudienceOf(i, d), scope |-> g,
                    seen |-> [x \in Docs |-> HeadOf(db.docs[x])],
                    epoch |-> db.epoch, policy |-> db.policy, namespace |-> db.namespace]]
  BY DEF StartRun
<1>2. PICK g \in ScopesFor(i, d, db.docs[d].body) :
        db' = [t EXCEPT !.runs[r] =
                 [status |-> "running", doc |-> d, target |-> HeadOf(db.docs[d]),
                  intent |-> i, audience |-> AudienceOf(i, d), scope |-> g,
                  seen |-> [x \in Docs |-> HeadOf(db.docs[x])],
                  epoch |-> db.epoch, policy |-> db.policy, namespace |-> db.namespace]]
  BY <1>1
<1> DEFINE run == [status |-> "running", doc |-> d, target |-> HeadOf(db.docs[d]),
                   intent |-> i, audience |-> AudienceOf(i, d), scope |-> g,
                   seen |-> [x \in Docs |-> HeadOf(db.docs[x])],
                   epoch |-> db.epoch, policy |-> db.policy, namespace |-> db.namespace]
           v == db.docs[d].version
<1>3. db \in DbT /\ DocsFit(db) /\ db.runs[r] = NoRun BY DEF Fit, StoryFit, DocsFit, StartRun
<1>4. /\ t \in DbT /\ DocsFit(t) /\ Grows(db, t) /\ SameReview(db, t) /\ t.epoch = db.epoch
      /\ \A x \in Docs : HeadOf(t.docs[x]) = HeadOf(db.docs[x])
      /\ t.revisions[d][v].body = db.docs[d].body
  BY <1>3, CheckpointFit
<1>5. /\ \A x \in Docs : HeadOf(db.docs[x]) \in HeadT
      /\ db.docs[d].body \in Bodies /\ v \in Versions /\ db.epoch \in Nat
  BY <1>3 DEF DbT, DocT, HeadT, HeadOf
<1>6. /\ g \in Scopes /\ (g # NoScope => g.source = db.docs[d].body)
      /\ i # "discuss" => g \in AllGrants
  BY <1>5, ScopeSource
<1> HIDE DEF t
<1>7. run \in RunT
  <2>1. AudienceOf(i, d) \in {"authorRoom", "restrictedWriting"} BY DEF AudienceOf
  <2>2. [x \in Docs |-> HeadOf(db.docs[x])] \in [Docs -> HeadT] BY <1>5
  <2>3. db.policy \in Nat /\ db.namespace \in Namespaces BY <1>3 DEF DbT
  <2> QED BY <1>5, <1>6, <2>1, <2>2, <2>3 DEF RunT
<1>8. RunFit(run, t)
  <2>1. run.target = HeadOf(db.docs[d]) /\ run.target.version = v
        /\ run.target.body = db.docs[d].body
    BY DEF HeadOf
  <2>2. t.docs[d].version = v /\ t.docs[d].body = db.docs[d].body BY <1>4 DEF HeadOf
  <2>3. /\ run.doc = d /\ run.epoch = db.epoch /\ run.scope = g /\ run.intent = i
        /\ \A x \in Docs : run.seen[x] = HeadOf(db.docs[x])
    OBVIOUS
  <2>4. v <= v /\ db.epoch <= db.epoch BY <1>5 DEF Versions
  <2> HIDE DEF run, v
  <2> QED BY <1>4, <1>6, <2>1, <2>2, <2>3, <2>4 DEF RunFit
<1> DEFINE u == [t EXCEPT !.runs[r] = run]
<1> HIDE DEF run
<1>9. /\ db' = u /\ u \in DbT
      /\ u.docs = t.docs /\ u.revisions = t.revisions /\ u.epoch = t.epoch
      /\ u.proposals = db.proposals /\ u.prepared = db.prepared
      /\ u.decisions = db.decisions /\ u.receipts = db.receipts
      /\ u.runs[r] = run /\ \A x \in Runs \ {r} : u.runs[x] = db.runs[x]
  BY <1>2, <1>4, <1>7 DEF run, DbT, SameReview
<1> HIDE DEF u
<1>10. Grows(db, u) BY <1>4, <1>9, GrowsSame
<1>11. StoryFit(u)
  <2>1. DocsFit(u) BY <1>4, <1>9 DEF DocsFit
  <2>2. RunFit(run, u) BY <1>8, <1>9 DEF RunFit
  <2>3. ASSUME NEW x \in Runs \ {r}, u.runs[x] # NoRun PROVE RunFit(u.runs[x], u)
    <3>1. db.runs[x] \in RunT /\ RunFit(db.runs[x], db) BY <1>9, <2>3 DEF Fit, StoryFit, DbT
    <3> QED BY <1>3, <1>9, <1>10, <3>1, RunGrows
  <2> QED BY <1>9, <2>1, <2>2, <2>3 DEF StoryFit, DocsFit
<1>12. ReviewFit(u)
  <2>1. ASSUME NEW q \in Proposal PROVE SuggestionFit(q, u) /\ DecisionFit(q, u)
    <3>1. SuggestionFit(q, db) /\ DecisionFit(q, db) BY DEF Fit, ReviewFit
    <3>2. q[1] \in Runs BY DEF Proposal
    <3>3. CASE q \in db.proposals
      <4>1. u.runs[q[1]] = db.runs[q[1]] BY <1>3, <1>9, <3>1, <3>2, <3>3 DEF SuggestionFit
      <4>2. SuggestionFit(q, u) BY <1>9, <3>1, <4>1 DEF SuggestionFit
      <4>3. db.runs[q[1]] # NoRun BY <3>1, <3>3 DEF SuggestionFit
      <4>4. DecisionFit(q, u) BY <1>3, <1>9, <1>10, <3>1, <4>1, <4>3, DecisionKept
      <4> QED BY <4>2, <4>4
    <3>4. CASE q \notin db.proposals
      BY <1>9, <3>1, <3>4 DEF SuggestionFit, DecisionFit
    <3> QED BY <3>3, <3>4
  <2>2. ASSUME NEW n \in Namespaces, NEW o \in Ops PROVE ReceiptFit(n, o, u)
    <3>1. ReceiptFit(n, o, db) BY DEF Fit, ReviewFit
    <3> QED BY <1>9, <3>1, ReceiptKept
  <2> QED BY <2>1, <2>2 DEF ReviewFit
<1> QED BY <1>9, <1>11, <1>12 DEF Fit

\* A run that completes: its suggestions come pending, and are of its kind.
LEMMA CompleteKeepsFit ==
  ASSUME Fit, NEW r \in Runs, CompleteRun(r)
  PROVE  Fit'
<1> DEFINE run == db.runs[r]
           next == [run EXCEPT !.status = "completed"]
<1>1. /\ db \in DbT /\ DocsFit(db) /\ run # NoRun /\ run \in RunT /\ run.status = "running"
      /\ RunFit(run, db)
  BY DEF Fit, StoryFit, DocsFit, CompleteRun, DbT
<1>2. PICK n \in 0..Cardinality(Suggestions) :
        db' = [db EXCEPT
                 !.runs[r].status = "completed",
                 !.proposals = @ \cup IF ProposalKind(db.runs[r]) = None THEN {}
                                      ELSE {<<r, i>> : i \in {j \in Suggestions : j <= n}}]
  BY DEF CompleteRun
<1> DEFINE new == IF ProposalKind(run) = None THEN {}
                  ELSE {<<r, i>> : i \in {j \in Suggestions : j <= n}}
           u == [db EXCEPT !.runs = [db.runs EXCEPT ![r] = next],
                           !.proposals = db.proposals \cup new]
<1>3. /\ next \in RunT /\ ProposalKind(next) = ProposalKind(run) /\ next.status = "completed"
      /\ next.scope = run.scope /\ RunFit(next, db)
  BY <1>1, StatusApart
<1>4. /\ new \in SUBSET Proposal /\ \A q \in new : q[1] = r
      /\ new # {} => ProposalKind(run) # None
  BY DEF Proposal
<1>5. db' = u BY <1>1, <1>2 DEF DbT
<1>6. next # NoRun BY <1>3 DEF NoRun, None
<1> HIDE DEF next, new
<1>7. /\ u \in DbT /\ u.docs = db.docs /\ u.revisions = db.revisions /\ u.epoch = db.epoch
      /\ u.proposals = db.proposals \cup new /\ u.prepared = db.prepared
      /\ u.decisions = db.decisions /\ u.receipts = db.receipts
      /\ u.runs[r] = next /\ \A x \in Runs \ {r} : u.runs[x] = db.runs[x]
  BY <1>1, <1>3, <1>4 DEF DbT
<1> HIDE DEF u
<1>8. Grows(db, u)
  <2>1. Grows(db, db) BY <1>1, GrowsNone
  <2> QED BY <1>7, <2>1 DEF Grows
<1>9. StoryFit(u)
  <2>1. ASSUME NEW x \in Runs, u.runs[x] # NoRun PROVE RunFit(u.runs[x], u)
    <3>1. RunFit(u.runs[x], db) BY <1>3, <1>7, <2>1 DEF Fit, StoryFit
    <3> QED BY <1>7, <3>1, SameStory
  <2> QED BY <1>1, <1>7, <2>1 DEF StoryFit, DocsFit
<1>10. ReviewFit(u)
  <2>1. ASSUME NEW q \in Proposal PROVE SuggestionFit(q, u) /\ DecisionFit(q, u)
    <3>1. SuggestionFit(q, db) /\ DecisionFit(q, db) BY DEF Fit, ReviewFit
    <3>2. q[1] \in Runs BY DEF Proposal
    <3>3. CASE q \in db.proposals
      <4>1. db.runs[q[1]] # NoRun /\ db.runs[q[1]].status = "completed"
        BY <3>1, <3>3 DEF SuggestionFit
      <4>2. q[1] # r /\ u.runs[q[1]] = db.runs[q[1]] BY <1>1, <1>7, <3>2, <4>1
      <4>3. SuggestionFit(q, u) BY <1>7, <3>1, <3>3, <4>2 DEF SuggestionFit
      <4>4. DecisionFit(q, u) BY <1>1, <1>7, <1>8, <3>1, <4>1, <4>2, DecisionKept
      <4> QED BY <4>3, <4>4
    <3>4. CASE q \notin db.proposals
      <4>1. u.prepared[q] = <<>> /\ u.decisions[q] = NoDecision
        BY <1>7, <3>1, <3>4 DEF SuggestionFit
      <4>2. q \in u.proposals => q[1] = r /\ ProposalKind(next) # None
        BY <1>3, <1>4, <1>7, <3>4
      <4>3. SuggestionFit(q, u) BY <1>3, <1>6, <1>7, <4>1, <4>2 DEF SuggestionFit
      <4> QED BY <4>1, <4>3 DEF DecisionFit
    <3> QED BY <3>3, <3>4
  <2>2. ASSUME NEW m \in Namespaces, NEW o \in Ops PROVE ReceiptFit(m, o, u)
    <3>1. ReceiptFit(m, o, db) BY DEF Fit, ReviewFit
    <3> QED BY <1>7, <3>1, ReceiptKept
  <2> QED BY <2>1, <2>2 DEF ReviewFit
<1> QED BY <1>5, <1>7, <1>9, <1>10 DEF Fit

Receipts == {NoReceipt} \cup AnswerT \cup AppliedT \cup SavedT

\* A suggestion that may be reviewed: its run is over and can retain it.
LEMMA PendingFit ==
  ASSUME Fit, NEW p \in Proposal, RequireOwnedPending(p)
  PROVE  LET run == db.runs[p[1]] IN
         /\ run \in RunT /\ run # NoRun /\ run.status = "completed" /\ RunFit(run, db)
         /\ run.namespace = db.namespace /\ p \in db.proposals /\ db.decisions[p] = NoDecision
         /\ ProposalKind(run) \in {"passage", "continuation", "structured"}
         /\ run.scope \in AllGrants
         /\ \A i \in DOMAIN db.prepared[p] : Valid(p, run, db.prepared[p][i])
<1> DEFINE run == db.runs[p[1]]
<1>1. /\ p \in db.proposals /\ run.status = "completed" /\ run.namespace = db.namespace
      /\ db.decisions[p] = NoDecision
  BY DEF RequireOwnedPending
<1>2. SuggestionFit(p, db) /\ p[1] \in Runs BY DEF Fit, ReviewFit, Proposal
<1>3. /\ run # NoRun /\ ProposalKind(run) # None
      /\ \A i \in DOMAIN db.prepared[p] : Valid(p, run, db.prepared[p][i])
  BY <1>1, <1>2 DEF SuggestionFit
<1>4. run \in RunT /\ RunFit(run, db) BY <1>2, <1>3 DEF Fit, StoryFit, DbT
<1> HIDE DEF run
<1>5. /\ ProposalKind(run) \in {"passage", "continuation", "structured"}
      /\ run.intent # "discuss"
  BY <1>3, <1>4, KindFit
<1>6. run.scope \in AllGrants BY <1>4, <1>5 DEF RunFit
<1> QED BY <1>1, <1>3, <1>4, <1>5, <1>6 DEF run

\* A preparation adds one wording that its scope allows, and a receipt.
LEMMA PrepareKeepsFit ==
  ASSUME Fit, NEW p \in Proposal, NEW o \in Ops, Prepare(p, o)
  PROVE  Fit'
<1> DEFINE run == db.runs[p[1]]
           kept == db.prepared[p]
           receipt == [kind |-> "prepare", proposal |-> p, result |-> Len(kept) + 1]
<1>1. RequireOwnedPending(p) /\ db.receipts[db.namespace][o] = NoReceipt BY DEF Prepare, Fresh
<1>2. PICK v \in Preparations[ProposalKind(run)][run.scope] :
        db' = [db EXCEPT !.prepared[p] = Append(@, v), !.receipts[db.namespace][o] = receipt]
  BY DEF Prepare
<1>3. /\ run \in RunT /\ run # NoRun /\ run.status = "completed"
      /\ p \in db.proposals /\ db.decisions[p] = NoDecision /\ ProposalKind(run) # None
      /\ ProposalKind(run) \in {"passage", "continuation", "structured"}
      /\ run.scope \in AllGrants
      /\ \A i \in DOMAIN kept : Valid(p, run, kept[i])
  BY <1>1, PendingFit DEF None
<1>4. v \in WordingT /\ Valid(p, run, v)
  <2> DEFINE kind == ProposalKind(run)
             grant == run.scope
  <2>1. Preparations[kind][grant]
          = {w \in [payload : Payloads, body : Bodies] : ValidatePrepared(kind, grant, w)}
    <3> HIDE DEF kind, grant
    <3> QED BY <1>3 DEF Preparations, kind, grant
  <2>2. v \in [payload : Payloads, body : Bodies] /\ ValidatePrepared(kind, grant, v)
    BY <1>2, <2>1
  <2> QED BY <2>2 DEF WordingT, Valid
<1>5. /\ db \in DbT /\ kept \in Seq(WordingT) /\ db.prepared \in [Proposal -> Seq(WordingT)]
      /\ StoryFit(db) /\ DocsFit(db) /\ ReviewFit(db)
  BY DEF Fit, DbT, StoryFit, DocsFit
<1>6. receipt \in Receipts BY <1>5 DEF Receipts, AnswerT
<1> DEFINE u == [db EXCEPT !.prepared = [db.prepared EXCEPT ![p] = Append(kept, v)],
                           !.receipts = [db.receipts EXCEPT ![db.namespace][o] = receipt]]
<1>7. db' = u BY <1>2, <1>5 DEF DbT
<1>8. Append(kept, v) \in Seq(WordingT) BY <1>4, <1>5
<1> HIDE DEF receipt
<1>9. /\ u.prepared = [db.prepared EXCEPT ![p] = Append(kept, v)]
      /\ u.receipts = [db.receipts EXCEPT ![db.namespace][o] = receipt]
      /\ u.docs = db.docs /\ u.revisions = db.revisions /\ u.epoch = db.epoch
      /\ u.runs = db.runs /\ u.proposals = db.proposals /\ u.decisions = db.decisions
  BY <1>1, <1>5 DEF DbT
<1>10. /\ u.receipts \in [Namespaces -> [Ops -> Receipts]]
       /\ u.receipts[db.namespace][o] = receipt
       /\ \A n \in Namespaces, x \in Ops :
            ~(n = db.namespace /\ x = o) => u.receipts[n][x] = db.receipts[n][x]
  <2>1. db.receipts \in [Namespaces -> [Ops -> Receipts]] /\ db.namespace \in Namespaces
    BY <1>5 DEF DbT, Receipts
  <2>2. u.receipts = [db.receipts EXCEPT ![db.namespace][o] = receipt] BY <1>9
  <2> HIDE DEF u
  <2> QED BY <1>6, <2>1, <2>2
<1>11. /\ u.prepared \in [Proposal -> Seq(WordingT)] /\ u.prepared[p] = Append(kept, v)
       /\ \A q \in Proposal \ {p} : u.prepared[q] = db.prepared[q]
  BY <1>5, <1>8, <1>9
<1>12. u \in DbT BY <1>5, <1>10, <1>11 DEF DbT, Receipts
<1> HIDE DEF u
<1>13. Grows(db, u)
  <2>1. Grows(db, db) BY <1>5, GrowsNone
  <2> QED BY <1>9, <2>1 DEF Grows
<1>14. StoryFit(u)
  <2>1. DocsFit(u) BY <1>5, <1>9 DEF DocsFit
  <2> QED BY <1>5, <1>9, <1>12, <1>13, <2>1, StoryGrows
<1>15. \A i \in DOMAIN kept : i \in DOMAIN u.prepared[p] /\ u.prepared[p][i] = kept[i]
  BY <1>4, <1>5, <1>11
<1>16. /\ \A q \in Proposal \ {p} : SuggestionFit(q, u) /\ DecisionFit(q, u)
       /\ \A n \in Namespaces, x \in Ops :
            ~(n = db.namespace /\ x = o) => ReceiptFit(n, x, u)
  <2> DEFINE P == {p}
  <2>1. /\ P \in SUBSET Proposal
        /\ \A q \in Proposal \ P :
             u.decisions[q] = db.decisions[q] /\ u.prepared[q] = db.prepared[q]
        /\ \A q \in P : /\ db.decisions[q] = NoDecision
                      /\ \A i \in DOMAIN db.prepared[q] : i \in DOMAIN u.prepared[q]
    BY <1>3, <1>9, <1>11, <1>15
  <2>2. \A q \in Proposal \ {p} : q \in Proposal \ P OBVIOUS
  <2> HIDE DEF P
  <2>3. Spends(db, u, P, o) BY <1>1, <1>9, <1>13, <1>10, <2>1 DEF Spends
  <2>4. OthersFit(u, P, db.namespace, o) BY <1>5, <1>12, <2>1, <2>3, OthersStand
  <2> QED BY <2>2, <2>4 DEF OthersFit
<1>17. SuggestionFit(p, u)
  <2>1. ASSUME NEW i \in DOMAIN u.prepared[p] PROVE Valid(p, run, u.prepared[p][i])
    <3>1. \/ i \in DOMAIN kept /\ u.prepared[p][i] = kept[i]
          \/ u.prepared[p][i] = v
      BY <1>4, <1>5, <1>11
    <3> QED BY <1>3, <1>4, <3>1
  <2> QED BY <1>3, <1>9, <2>1 DEF SuggestionFit
<1>18. DecisionFit(p, u) BY <1>3, <1>9 DEF DecisionFit
<1>19. ReceiptFit(db.namespace, o, u)
  <2>1. /\ receipt.kind = "prepare" /\ receipt.proposal = p /\ receipt.result = Len(kept) + 1
    BY DEF receipt
  <2>2. Len(kept) + 1 \in DOMAIN u.prepared[p] BY <1>4, <1>5, <1>11
  <2> QED BY <1>10, <2>1, <2>2 DEF ReceiptFit
<1>20. ReviewFit(u) BY <1>16, <1>17, <1>18, <1>19 DEF ReviewFit
<1> QED BY <1>7, <1>12, <1>14, <1>20 DEF Fit

\* A rejection decides one suggestion, and no document moves.
LEMMA RejectKeepsFit ==
  ASSUME Fit, NEW p \in Proposal, NEW o \in Ops, Reject(p, o)
  PROVE  Fit'
<1> DEFINE decision == [kind |-> "reject", namespace |-> db.namespace, op |-> o]
           receipt == [kind |-> "reject", proposal |-> p, result |-> 0]
           u == [db EXCEPT !.decisions = [db.decisions EXCEPT ![p] = decision],
                           !.receipts = [db.receipts EXCEPT ![db.namespace][o] = receipt]]
           run == db.runs[p[1]]
<1>1. /\ RequireOwnedPending(p) /\ db.receipts[db.namespace][o] = NoReceipt
      /\ db' = [db EXCEPT !.decisions[p] = decision, !.receipts[db.namespace][o] = receipt]
  BY DEF Reject, Fresh
<1>2. /\ p \in db.proposals /\ db.decisions[p] = NoDecision /\ run.namespace = db.namespace
      /\ SuggestionFit(p, db)
  BY <1>1, PendingFit DEF Fit, ReviewFit
<1>3. /\ db \in DbT /\ StoryFit(db) /\ DocsFit(db) /\ ReviewFit(db)
      /\ db.decisions \in [Proposal -> {NoDecision} \cup RejectT \cup ApplyT]
      /\ db.namespace \in Namespaces
  BY DEF Fit, DbT, StoryFit, DocsFit
<1>4. receipt \in Receipts /\ decision \in RejectT BY <1>3 DEF Receipts, AnswerT, RejectT
<1>5. db' = u BY <1>1, <1>3 DEF DbT
<1> HIDE DEF receipt, decision
<1>6. /\ u.decisions = [db.decisions EXCEPT ![p] = decision]
      /\ u.receipts = [db.receipts EXCEPT ![db.namespace][o] = receipt]
      /\ u.docs = db.docs /\ u.revisions = db.revisions /\ u.epoch = db.epoch
      /\ u.runs = db.runs /\ u.proposals = db.proposals /\ u.prepared = db.prepared
  BY <1>1, <1>3 DEF DbT
<1>7. /\ u.receipts \in [Namespaces -> [Ops -> Receipts]]
      /\ u.receipts[db.namespace][o] = receipt
      /\ \A n \in Namespaces, x \in Ops :
           ~(n = db.namespace /\ x = o) => u.receipts[n][x] = db.receipts[n][x]
  <2>1. db.receipts \in [Namespaces -> [Ops -> Receipts]] /\ db.namespace \in Namespaces
    BY <1>3 DEF DbT, Receipts
  <2>2. u.receipts = [db.receipts EXCEPT ![db.namespace][o] = receipt] BY <1>6
  <2> HIDE DEF u
  <2> QED BY <1>4, <2>1, <2>2
<1>8. /\ u.decisions \in [Proposal -> {NoDecision} \cup RejectT \cup ApplyT]
      /\ u.decisions[p] = decision
      /\ \A q \in Proposal \ {p} : u.decisions[q] = db.decisions[q]
  BY <1>3, <1>4, <1>6
<1>9. u \in DbT BY <1>3, <1>7, <1>8 DEF DbT, Receipts
<1> HIDE DEF u
<1>10. Grows(db, u)
  <2>1. Grows(db, db) BY <1>3, GrowsNone
  <2> QED BY <1>6, <2>1 DEF Grows
<1>11. StoryFit(u)
  <2>1. DocsFit(u) BY <1>3, <1>6 DEF DocsFit
  <2> QED BY <1>3, <1>6, <1>9, <1>10, <2>1, StoryGrows
<1>12. /\ \A q \in Proposal \ {p} : SuggestionFit(q, u) /\ DecisionFit(q, u)
       /\ \A n \in Namespaces, x \in Ops :
            ~(n = db.namespace /\ x = o) => ReceiptFit(n, x, u)
  <2> DEFINE P == {p}
  <2>1. /\ P \in SUBSET Proposal
        /\ \A q \in Proposal \ P :
             u.decisions[q] = db.decisions[q] /\ u.prepared[q] = db.prepared[q]
        /\ \A q \in P : /\ db.decisions[q] = NoDecision
                      /\ \A i \in DOMAIN db.prepared[q] : i \in DOMAIN u.prepared[q]
    BY <1>2, <1>6, <1>8
  <2>2. \A q \in Proposal \ {p} : q \in Proposal \ P OBVIOUS
  <2> HIDE DEF P
  <2>3. Spends(db, u, P, o) BY <1>1, <1>6, <1>10, <1>7, <2>1 DEF Spends
  <2>4. OthersFit(u, P, db.namespace, o) BY <1>3, <1>9, <2>1, <2>3, OthersStand
  <2> QED BY <2>2, <2>4 DEF OthersFit
<1>13. SuggestionFit(p, u) BY <1>2, <1>6 DEF SuggestionFit
<1>14. /\ decision.kind = "reject" /\ decision.namespace = db.namespace /\ decision.op = o
       /\ receipt.kind = "reject" /\ receipt.proposal = p
  BY DEF decision, receipt
<1>15. DecisionFit(p, u)
  BY <1>2, <1>6, <1>7, <1>8, <1>14 DEF DecisionFit, receipt
<1>16. ReceiptFit(db.namespace, o, u) BY <1>7, <1>8, <1>14 DEF ReceiptFit
<1>17. ReviewFit(u) BY <1>12, <1>13, <1>15, <1>16 DEF ReviewFit
<1> QED BY <1>5, <1>9, <1>11, <1>17 DEF Fit

\* What an applied suggestion makes of the story: the target is kept, the body is
\* replaced, and the new body is kept as the revision after it.
LEMMA ReplaceFit ==
  ASSUME NEW s \in DbT, NEW d \in Docs, DocsFit(s), NEW body \in Bodies,
         s.docs[d].version < VersionLimit
  PROVE  LET v == s.docs[d].version
             t == CheckpointAt(WriteBody(CheckpointAt(s, d), d, body), d)
         IN  /\ t \in DbT /\ DocsFit(t) /\ Grows(s, t) /\ SameReview(s, t)
             /\ t.docs[d].version = v + 1 /\ t.docs[d].body = body
             /\ t.revisions[d][v + 1] = [body |-> body, parent |-> v]
<1> DEFINE v == s.docs[d].version
           a == CheckpointAt(s, d)
           b == WriteBody(a, d, body)
           t == CheckpointAt(b, d)
<1>1. /\ a \in DbT /\ DocsFit(a) /\ Grows(s, a) /\ SameReview(s, a)
      /\ HeadOf(a.docs[d]) = HeadOf(s.docs[d]) /\ a.docs[d].last = v
  BY CheckpointFit
<1>2. a.docs[d].version = v BY <1>1 DEF HeadOf
<1> HIDE DEF a
<1>3. /\ b \in DbT /\ DocsFit(b) /\ Grows(a, b) /\ SameReview(a, b)
      /\ HeadOf(b.docs[d]) = [version |-> v + 1, body |-> body]
      /\ b.docs[d].last = v /\ b.revisions[d][v + 1] = NoRevision
  BY <1>1, <1>2, WriteFit
<1>4. b.docs[d].version = v + 1 /\ b.docs[d].body = body BY <1>3 DEF HeadOf
<1> HIDE DEF b
<1>5. /\ t \in DbT /\ DocsFit(t) /\ Grows(b, t) /\ SameReview(b, t)
      /\ HeadOf(t.docs[d]) = HeadOf(b.docs[d])
      /\ t.revisions[d][v + 1] = [body |-> body, parent |-> v]
  BY <1>3, <1>4, CheckpointFit
<1>6. t.docs[d].version = v + 1 /\ t.docs[d].body = body BY <1>4, <1>5 DEF HeadOf
<1> HIDE DEF t
<1>7. Grows(s, t)
  <2>1. Grows(s, b) BY <1>1, <1>3, GrowsOn
  <2> QED BY <1>3, <1>5, <2>1, GrowsOn
<1>8. SameReview(s, t) BY <1>1, <1>3, <1>5 DEF SameReview
<1> QED BY <1>5, <1>6, <1>7, <1>8 DEF a, b, t

\* apply_proposal: the story grows by the body, and the decision and the receipt
\* name each other and the two revisions around it.
LEMMA ApplyKeepsFit ==
  ASSUME Fit, NEW p \in Proposal, NEW o \in Ops, Apply(p, o)
  PROVE  Fit'
<1> DEFINE run == db.runs[p[1]]
           d == run.doc
           v == db.docs[d].version
           kept == db.prepared[p]
<1>1. /\ RequireOwnedPending(p) /\ db.receipts[db.namespace][o] = NoReceipt
  BY DEF Apply, Fresh
<1>2. PICK i \in 1..PreparedLimit, body \in Bodies :
        /\ PreparedLatest(p, i, body) /\ Current(p) /\ v < VersionLimit
        /\ LET written == CheckpointAt(WriteBody(CheckpointAt(db, d), d, body), d) IN
           db' = [written EXCEPT
                    !.decisions[p] = [kind |-> "apply", prepared |-> i,
                                      namespace |-> db.namespace, op |-> o,
                                      before |-> run.target.version,
                                      after |-> written.docs[d].version],
                    !.receipts[db.namespace][o] =
                       [kind |-> "apply", proposal |-> p, result |-> i,
                        head |-> HeadOf(written.docs[d])]]
  BY DEF Apply
<1>a. PreparedLatest(p, i, body) /\ Current(p) /\ v < VersionLimit BY <1>2
<1>3. /\ run \in RunT /\ run # NoRun /\ run.status = "completed" /\ RunFit(run, db)
      /\ run.namespace = db.namespace /\ p \in db.proposals /\ db.decisions[p] = NoDecision
      /\ SuggestionFit(p, db)
  BY <1>1, PendingFit DEF Fit, ReviewFit
<1>4. /\ db \in DbT /\ StoryFit(db) /\ DocsFit(db) /\ ReviewFit(db)
      /\ d \in Docs /\ v \in Versions /\ db.namespace \in Namespaces
  BY <1>3 DEF Fit, DbT, StoryFit, DocsFit, RunT, DocT
<1>5. run.target = HeadOf(db.docs[d]) /\ run.target.version = v
  <2>1. HeadOf(db.docs[d]) = run.target BY <1>a DEF Current
  <2>2. HeadOf(db.docs[d]).version = v BY DEF HeadOf
  <2> HIDE DEF v, d, run
  <2> QED BY <2>1, <2>2
<1>6. i \in DOMAIN kept /\ kept[i].body = body /\ i \in Nat
  <2>1. kept \in Seq(WordingT) BY <1>4 DEF DbT
  <2>2. i = Len(kept) /\ i > 0 /\ kept[i].body = body BY <1>a DEF PreparedLatest
  <2> HIDE DEF kept
  <2> QED BY <2>1, <2>2
<1> DEFINE t == CheckpointAt(WriteBody(CheckpointAt(db, d), d, body), d)
           decision == [kind |-> "apply", prepared |-> i, namespace |-> db.namespace, op |-> o,
                        before |-> v, after |-> v + 1]
           receipt == [kind |-> "apply", proposal |-> p, result |-> i,
                       head |-> [version |-> v + 1, body |-> body]]
<1>7. /\ t \in DbT /\ DocsFit(t) /\ Grows(db, t) /\ SameReview(db, t)
      /\ t.docs[d].version = v + 1 /\ t.docs[d].body = body
      /\ t.revisions[d][v + 1] = [body |-> body, parent |-> v]
  BY <1>2, <1>4, ReplaceFit
<1>8. db' = [t EXCEPT !.decisions[p] = decision, !.receipts[db.namespace][o] = receipt]
  BY <1>2, <1>5, <1>7 DEF HeadOf
<1> HIDE DEF t
<1>9. decision \in ApplyT /\ receipt \in Receipts
  <2>1. v + 1 \in Versions
    <3>1. v \in 0..VersionLimit /\ VersionLimit \in Nat BY <1>4, ProposalConstants DEF Versions
    <3> HIDE DEF v
    <3> QED BY <1>a, <3>1 DEF Versions
  <2>2. [version |-> v + 1, body |-> body] \in HeadT BY <2>1 DEF HeadT
  <2>3. decision \in ApplyT BY <1>4, <1>6, <2>1 DEF ApplyT
  <2>4. receipt \in AppliedT BY <1>6, <2>2 DEF AppliedT
  <2> QED BY <2>3, <2>4 DEF Receipts
<1> DEFINE u == [t EXCEPT !.decisions = [db.decisions EXCEPT ![p] = decision],
                          !.receipts = [db.receipts EXCEPT ![db.namespace][o] = receipt]]
<1>10. db' = u
  <2> HIDE DEF decision, receipt
  <2> QED BY <1>7, <1>8 DEF DbT, SameReview
<1>11. /\ decision.kind = "apply" /\ decision.prepared = i /\ decision.namespace = db.namespace
       /\ decision.op = o /\ decision.before = v /\ decision.after = v + 1
       /\ receipt.kind = "apply" /\ receipt.proposal = p /\ receipt.result = i
       /\ receipt.head = [version |-> v + 1, body |-> body]
  OBVIOUS
<1> HIDE DEF decision, receipt
<1>12. /\ u.decisions = [db.decisions EXCEPT ![p] = decision]
       /\ u.receipts = [db.receipts EXCEPT ![db.namespace][o] = receipt]
       /\ u.docs = t.docs /\ u.revisions = t.revisions /\ u.epoch = t.epoch
       /\ u.runs = db.runs /\ u.proposals = db.proposals /\ u.prepared = db.prepared
  BY <1>7 DEF DbT, SameReview
<1>13. /\ u.receipts \in [Namespaces -> [Ops -> Receipts]]
       /\ u.receipts[db.namespace][o] = receipt
       /\ \A n \in Namespaces, x \in Ops :
            ~(n = db.namespace /\ x = o) => u.receipts[n][x] = db.receipts[n][x]
  <2>1. db.receipts \in [Namespaces -> [Ops -> Receipts]] BY <1>4 DEF DbT, Receipts
  <2>2. u.receipts = [db.receipts EXCEPT ![db.namespace][o] = receipt] BY <1>12
  <2> HIDE DEF u
  <2> QED BY <1>4, <1>9, <2>1, <2>2
<1>14. /\ u.decisions \in [Proposal -> {NoDecision} \cup RejectT \cup ApplyT]
       /\ u.decisions[p] = decision
       /\ \A q \in Proposal \ {p} : u.decisions[q] = db.decisions[q]
  <2>1. db.decisions \in [Proposal -> {NoDecision} \cup RejectT \cup ApplyT] BY <1>4 DEF DbT
  <2>2. u.decisions = [db.decisions EXCEPT ![p] = decision] BY <1>12
  <2> HIDE DEF u
  <2> QED BY <1>9, <2>1, <2>2
<1>15. u \in DbT BY <1>7, <1>13, <1>14 DEF DbT, Receipts
<1> HIDE DEF u
<1>16. Grows(db, u) BY <1>7, <1>12, GrowsSame
<1>17. StoryFit(u)
  <2>1. DocsFit(u) BY <1>7, <1>12 DEF DocsFit
  <2> QED BY <1>4, <1>12, <1>15, <1>16, <2>1, StoryGrows
<1>18. /\ \A q \in Proposal \ {p} : SuggestionFit(q, u) /\ DecisionFit(q, u)
       /\ \A n \in Namespaces, x \in Ops :
            ~(n = db.namespace /\ x = o) => ReceiptFit(n, x, u)
  <2> DEFINE P == {p}
  <2>1. /\ P \in SUBSET Proposal
        /\ \A q \in Proposal \ P :
             u.decisions[q] = db.decisions[q] /\ u.prepared[q] = db.prepared[q]
        /\ \A q \in P : /\ db.decisions[q] = NoDecision
                      /\ \A j \in DOMAIN db.prepared[q] : j \in DOMAIN u.prepared[q]
    BY <1>3, <1>12, <1>14
  <2>2. \A q \in Proposal \ {p} : q \in Proposal \ P OBVIOUS
  <2> HIDE DEF P
  <2>3. Spends(db, u, P, o) BY <1>1, <1>12, <1>13, <1>16, <2>1 DEF Spends
  <2>4. OthersFit(u, P, db.namespace, o) BY <1>4, <1>15, <2>1, <2>3, OthersStand
  <2> QED BY <2>2, <2>4 DEF OthersFit
<1>19. SuggestionFit(p, u) BY <1>3, <1>12 DEF SuggestionFit
<1>20. Linked(p, u)
  <2>1. u.runs[p[1]] = run /\ u.prepared[p] = kept BY <1>12
  <2>2. u.revisions[d][v + 1] = [body |-> body, parent |-> v] /\ u.docs[d].version = v + 1
    BY <1>7, <1>12
  <2>3. u.receipts[decision.namespace][decision.op] = receipt BY <1>11, <1>13
  <2>4. v + 1 <= v + 1 BY <1>4 DEF Versions
  <2> HIDE DEF v, d, kept, run
  <2> QED BY <1>5, <1>6, <1>11, <1>14, <2>1, <2>2, <2>3, <2>4 DEF Linked, d
<1>21. DecisionFit(p, u)
  <2>1. u.decisions[p].namespace = u.runs[p[1]].namespace /\ u.decisions[p].kind = "apply"
    BY <1>3, <1>11, <1>12, <1>14
  <2> QED BY <1>20, <2>1 DEF DecisionFit
<1>22. ReceiptFit(db.namespace, o, u) BY <1>11, <1>13, <1>14 DEF ReceiptFit
<1>23. ReviewFit(u) BY <1>18, <1>19, <1>21, <1>22 DEF ReviewFit
<1> QED BY <1>10, <1>15, <1>17, <1>23 DEF Fit

\* A save of the author moves a document, and the epoch with it.
LEMMA SaveKeepsFit ==
  ASSUME Fit, NEW d \in Docs, NEW o \in Ops, SaveDraft(d, o)
  PROVE  Fit'
<1> DEFINE receipt == [kind |-> "save", doc |-> d]
<1>1. PICK body \in Drafts :
        db' = [WriteBody(db, d, body) EXCEPT !.receipts[db.namespace][o] = receipt]
  BY DEF SaveDraft
<1>2. /\ db \in DbT /\ StoryFit(db) /\ DocsFit(db) /\ ReviewFit(db)
      /\ body \in Bodies /\ db.docs[d].version < VersionLimit
      /\ db.receipts[db.namespace][o] = NoReceipt /\ db.namespace \in Namespaces
  BY ProposalConstants DEF Fit, DbT, StoryFit, DocsFit, SaveDraft, Fresh
<1> DEFINE t == WriteBody(db, d, body)
<1>3. t \in DbT /\ DocsFit(t) /\ Grows(db, t) /\ SameReview(db, t) BY <1>2, WriteFit
<1>4. receipt \in Receipts BY DEF Receipts, SavedT
<1> HIDE DEF t
<1> DEFINE u == [t EXCEPT !.receipts = [db.receipts EXCEPT ![db.namespace][o] = receipt]]
<1>5. db' = u
  <2> HIDE DEF receipt
  <2> QED BY <1>1, <1>3 DEF t, DbT, SameReview
<1>6. receipt.kind = "save" OBVIOUS
<1> HIDE DEF receipt
<1>7. /\ u.receipts = [db.receipts EXCEPT ![db.namespace][o] = receipt]
      /\ u.docs = t.docs /\ u.revisions = t.revisions /\ u.epoch = t.epoch
      /\ u.runs = db.runs /\ u.proposals = db.proposals /\ u.prepared = db.prepared
      /\ u.decisions = db.decisions
  BY <1>3 DEF DbT, SameReview
<1>8. /\ u.receipts \in [Namespaces -> [Ops -> Receipts]]
      /\ u.receipts[db.namespace][o] = receipt
      /\ \A n \in Namespaces, x \in Ops :
           ~(n = db.namespace /\ x = o) => u.receipts[n][x] = db.receipts[n][x]
  <2>1. db.receipts \in [Namespaces -> [Ops -> Receipts]] BY <1>2 DEF DbT, Receipts
  <2>2. u.receipts = [db.receipts EXCEPT ![db.namespace][o] = receipt] BY <1>7
  <2> HIDE DEF u
  <2> QED BY <1>2, <1>4, <2>1, <2>2
<1>9. u \in DbT BY <1>3, <1>8 DEF DbT, Receipts
<1> HIDE DEF u
<1>10. Grows(db, u) BY <1>3, <1>7, GrowsSame
<1>11. StoryFit(u)
  <2>1. DocsFit(u) BY <1>3, <1>7 DEF DocsFit
  <2> QED BY <1>2, <1>7, <1>9, <1>10, <2>1, StoryGrows
<1>12. /\ \A q \in Proposal : SuggestionFit(q, u) /\ DecisionFit(q, u)
       /\ \A n \in Namespaces, x \in Ops :
            ~(n = db.namespace /\ x = o) => ReceiptFit(n, x, u)
  <2>1. Spends(db, u, {}, o) BY <1>2, <1>7, <1>8, <1>10 DEF Spends
  <2>2. OthersFit(u, {}, db.namespace, o) BY <1>2, <1>9, <2>1, OthersStand
  <2> QED BY <2>2 DEF OthersFit
<1>13. ReceiptFit(db.namespace, o, u) BY <1>6, <1>8 DEF ReceiptFit
<1>14. ReviewFit(u) BY <1>12, <1>13 DEF ReviewFit
<1> QED BY <1>5, <1>9, <1>11, <1>14 DEF Fit

\* A change of policy moves the epoch, a copy only the namespace.
LEMMA AsideKeepsFit ==
  ASSUME Fit, ChangePolicy \/ CopyProject
  PROVE  Fit'
<1>1. db \in DbT /\ StoryFit(db) /\ DocsFit(db) /\ ReviewFit(db) /\ Grows(db, db)
  BY GrowsNone DEF Fit, StoryFit, DocsFit
<1>2. /\ db' \in DbT /\ db'.docs = db.docs /\ db'.revisions = db.revisions
      /\ db'.epoch \in {db.epoch, db.epoch + 1}
      /\ db'.runs = db.runs /\ db'.proposals = db.proposals /\ db'.prepared = db.prepared
      /\ db'.decisions = db.decisions /\ db'.receipts = db.receipts
  <2>1. CASE ChangePolicy
    <3>1. db.policy + 1 \in Nat /\ db.epoch + 1 \in Nat BY <1>1 DEF DbT
    <3> QED BY <1>1, <2>1, <3>1 DEF ChangePolicy, DbT
  <2>2. CASE CopyProject BY <1>1, <2>2 DEF CopyProject, DbT
  <2> QED BY <2>1, <2>2
<1>3. Grows(db, db')
  <2>1. db.epoch \in Nat BY <1>1 DEF DbT
  <2>2. db'.epoch >= db.epoch BY <1>2, <2>1
  <2> QED BY <1>1, <1>2, <2>2 DEF Grows
<1>4. DocsFit(db') BY <1>1, <1>2 DEF DocsFit
<1>5. StoryFit(db') BY <1>1, <1>2, <1>3, <1>4, StoryGrows
<1>6. ReviewFit(db') BY <1>1, <1>2, <1>3, ReviewKept
<1> QED BY <1>2, <1>5, <1>6 DEF Fit

\* The first state is fit.
LEMMA InitFit == Init => Fit
<1> SUFFICES ASSUME Init PROVE Fit OBVIOUS
<1>1. PICK body \in [Docs -> Drafts] :
        db = [docs |-> [d \in Docs |-> [version |-> 0, body |-> body[d], last |-> -1]],
              revisions |-> [d \in Docs |-> [v \in 0..VersionLimit |-> NoRevision]],
              epoch |-> 0, policy |-> 0, namespace |-> 1,
              runs |-> [r \in Runs |-> NoRun],
              proposals |-> {},
              prepared |-> [p \in Proposal |-> <<>>],
              decisions |-> [p \in Proposal |-> NoDecision],
              receipts |-> [n \in Namespaces |-> [o \in Ops |-> NoReceipt]]]
  BY DEF Init
<1>2. \A d \in Docs : body[d] \in Bodies BY ProposalConstants
<1>3. 0 \in Versions /\ 1 \in Namespaces BY ProposalConstants DEF Versions
<1>4. NoRevision \in RevisionT BY DEF NoRevision, RevisionT
<1>5. /\ db.docs = [d \in Docs |-> [version |-> 0, body |-> body[d], last |-> -1]]
      /\ db.revisions = [d \in Docs |-> [v \in Versions |-> NoRevision]]
      /\ db.runs = [r \in Runs |-> NoRun] /\ db.proposals = {}
      /\ db.prepared = [p \in Proposal |-> <<>>]
      /\ db.decisions = [p \in Proposal |-> NoDecision]
      /\ db.receipts = [n \in Namespaces |-> [o \in Ops |-> NoReceipt]]
  BY <1>1 DEF Versions
<1>6. db \in DbT
  <2>1. /\ db.docs \in [Docs -> DocT] /\ db.revisions \in [Docs -> [Versions -> RevisionT]]
        /\ db.prepared \in [Proposal -> Seq(WordingT)]
    BY <1>2, <1>3, <1>4, <1>5 DEF DocT
  <2>2. /\ db.runs \in [Runs -> RunT \cup {NoRun}] /\ db.proposals \in SUBSET Proposal
        /\ db.decisions \in [Proposal -> {NoDecision} \cup RejectT \cup ApplyT]
        /\ db.receipts
             \in [Namespaces -> [Ops -> {NoReceipt} \cup AnswerT \cup AppliedT \cup SavedT]]
    BY <1>5
  <2> QED BY <1>1, <1>3, <2>1, <2>2 DEF DbT
<1>7. StoryFit(db)
  <2>1. ASSUME NEW d \in Docs PROVE DocFit(db.docs[d], db.revisions[d])
    <3>1. db.docs[d].version = 0 /\ \A v \in Versions : db.revisions[d][v] = NoRevision
      BY <1>5
    <3> QED BY <1>3, <3>1 DEF DocFit
  <2> QED BY <1>5, <2>1 DEF StoryFit
<1>8. ReviewFit(db)
  <2>1. \A p \in Proposal : SuggestionFit(p, db) /\ DecisionFit(p, db)
    BY <1>5 DEF SuggestionFit, DecisionFit
  <2>2. \A n \in Namespaces, o \in Ops : ReceiptFit(n, o, db)
    BY <1>5 DEF ReceiptFit, NoReceipt, None
  <2> QED BY <2>1, <2>2 DEF ReviewFit
<1> QED BY <1>6, <1>7, <1>8 DEF Fit

\* Every step keeps the story and the review fit.
LEMMA NextFit == Fit /\ [Next]_db => Fit'
<1> SUFFICES ASSUME Fit, [Next]_db PROVE Fit' OBVIOUS
<1>1. ASSUME NEW r \in Runs, NEW d \in Docs, StartRun(r, d) PROVE Fit'
  BY <1>1, StartKeepsFit
<1>2. ASSUME NEW r \in Runs, CompleteRun(r) PROVE Fit' BY <1>2, CompleteKeepsFit
<1>3. ASSUME NEW p \in Proposal, NEW o \in Ops, Prepare(p, o) PROVE Fit'
  BY <1>3, PrepareKeepsFit
<1>4. ASSUME NEW p \in Proposal, NEW o \in Ops, Reject(p, o) PROVE Fit'
  BY <1>4, RejectKeepsFit
<1>5. ASSUME NEW p \in Proposal, NEW o \in Ops, Apply(p, o) PROVE Fit'
  BY <1>5, ApplyKeepsFit
<1>6. ASSUME NEW d \in Docs, NEW o \in Ops, SaveDraft(d, o) PROVE Fit'
  BY <1>6, SaveKeepsFit
<1>7. CASE ChangePolicy \/ CopyProject BY <1>7, AsideKeepsFit
<1>8. CASE UNCHANGED db BY <1>8 DEF Fit, StoryFit, ReviewFit
<1> QED BY <1>1, <1>2, <1>3, <1>4, <1>5, <1>6, <1>7, <1>8 DEF Next

-----------------------------------------------------------------------------
\* The theorems.

\* Whatever calls come, in whatever order, the rows of suggestions pass the check
\* that a backup or an import makes of them (validate_proposal_storage).
THEOREM StorageTheorem == Spec => []StorageValidates
<1>1. Fit => StorageValidates
  <2> SUFFICES ASSUME Fit PROVE StorageValidates OBVIOUS
  <2>1. ASSUME NEW p \in db.proposals
        PROVE  LET run == db.runs[p[1]] IN
               /\ run.status = "completed" /\ run.target.body = run.scope.source
               /\ \A i \in DOMAIN db.prepared[p] :
                    ValidatePrepared(ProposalKind(run), run.scope, db.prepared[p][i])
               /\ db.decisions[p] # NoDecision =>
                    /\ db.decisions[p].namespace = run.namespace
                    /\ IF db.decisions[p].kind = "apply" THEN ApplyLinked(p)
                       ELSE db.receipts[db.decisions[p].namespace][db.decisions[p].op] =
                              [kind |-> "reject", proposal |-> p, result |-> 0]
    <3> DEFINE run == db.runs[p[1]]
               decision == db.decisions[p]
    <3>1. p \in Proposal /\ p[1] \in Runs /\ db \in DbT BY DEF Fit, DbT, Proposal
    <3>2. SuggestionFit(p, db) /\ DecisionFit(p, db) BY <3>1 DEF Fit, ReviewFit
    <3>3. /\ run # NoRun /\ run.status = "completed" /\ ProposalKind(run) # None
          /\ \A i \in DOMAIN db.prepared[p] : Valid(p, run, db.prepared[p][i])
      BY <3>2 DEF SuggestionFit
    <3>4. run \in RunT /\ RunFit(run, db) BY <3>1, <3>3 DEF Fit, StoryFit, DbT
    <3>5. run.target.body = run.scope.source
      <4>1. run.scope # NoScope BY <3>3, <3>4, KindFit
      <4> QED BY <3>4, <4>1 DEF RunFit
    <3>6. ASSUME decision # NoDecision, decision.kind = "apply" PROVE ApplyLinked(p)
      <4>1. Linked(p, db) BY <3>2, <3>6 DEF DecisionFit
      <4>2. decision.before = run.target.version BY <4>1 DEF Linked
      <4>3. db.revisions[run.doc][run.target.version].body = run.target.body
        BY <3>4 DEF RunFit
      <4>4. [version |-> run.target.version, body |-> run.target.body] = run.target
        BY <3>4 DEF RunT, HeadT
      <4> HIDE DEF run, decision
      <4>5. [version |-> decision.before, body |-> db.revisions[run.doc][decision.before].body]
              = run.target
        BY <4>2, <4>3, <4>4
      <4> QED BY <4>1, <4>5 DEF Linked, ApplyLinked, run, decision
    <3> QED BY <3>2, <3>3, <3>5, <3>6 DEF DecisionFit, Valid
  <2>2. ASSUME NEW n \in Namespaces, NEW o \in Ops
        PROVE  LET receipt == db.receipts[n][o] IN
               /\ receipt.kind \in {"apply", "reject"} =>
                    /\ db.decisions[receipt.proposal].kind = receipt.kind
                    /\ db.decisions[receipt.proposal].namespace = n
                    /\ db.decisions[receipt.proposal].op = o
               /\ receipt.kind = "prepare" =>
                    receipt.result \in DOMAIN db.prepared[receipt.proposal]
    <3>1. ReceiptFit(n, o, db) BY DEF Fit, ReviewFit
    <3> QED BY <3>1 DEF ReceiptFit
  <2> QED BY <2>1, <2>2 DEF StorageValidates
<1> QED BY <1>1, InitFit, NextFit, PTL DEF Spec

\* What an application reviewed and wrote, whatever its decision and receipt say.
LEMMA ApplyWrites ==
  ASSUME NEW p \in Proposal, NEW o \in Ops, Apply(p, o)
  PROVE  LET d == db.runs[p[1]].doc IN
         \E i \in 1..PreparedLimit, body \in Bodies :
           /\ PreparedLatest(p, i, body) /\ Current(p) /\ db.docs[d].version < VersionLimit
           /\ \E decision, receipt :
                db' = [CheckpointAt(WriteBody(CheckpointAt(db, d), d, body), d) EXCEPT
                         !.decisions[p] = decision, !.receipts[db.namespace][o] = receipt]
<1> DEFINE run == db.runs[p[1]]
           d == run.doc
<1>1. PICK i \in 1..PreparedLimit, body \in Bodies :
        /\ PreparedLatest(p, i, body) /\ Current(p) /\ db.docs[d].version < VersionLimit
        /\ LET written == CheckpointAt(WriteBody(CheckpointAt(db, d), d, body), d) IN
           db' = [written EXCEPT
                    !.decisions[p] = [kind |-> "apply", prepared |-> i,
                                      namespace |-> db.namespace, op |-> o,
                                      before |-> run.target.version,
                                      after |-> written.docs[d].version],
                    !.receipts[db.namespace][o] =
                       [kind |-> "apply", proposal |-> p, result |-> i,
                        head |-> HeadOf(written.docs[d])]]
  BY DEF Apply
<1> DEFINE t == CheckpointAt(WriteBody(CheckpointAt(db, d), d, body), d)
           decision == [kind |-> "apply", prepared |-> i, namespace |-> db.namespace, op |-> o,
                        before |-> run.target.version, after |-> t.docs[d].version]
           receipt == [kind |-> "apply", proposal |-> p, result |-> i, head |-> HeadOf(t.docs[d])]
<1>2. db' = [t EXCEPT !.decisions[p] = decision, !.receipts[db.namespace][o] = receipt]
  BY <1>1
<1>3. PreparedLatest(p, i, body) /\ Current(p) /\ db.docs[d].version < VersionLimit BY <1>1
<1> HIDE DEF decision, receipt
<1>4. \E x, y : db' = [t EXCEPT !.decisions[p] = x, !.receipts[db.namespace][o] = y]
  BY <1>2
<1> QED BY <1>3, <1>4

\* Only an application decides to apply, and only its own suggestion.
LEMMA OnlyApply ==
  ASSUME Fit, Next, NEW p \in Proposal,
         db.decisions[p].kind # "apply", db'.decisions[p].kind = "apply"
  PROVE  \E o \in Ops : Apply(p, o)
<1>1. /\ db \in DbT /\ DocsFit(db) /\ db.decisions \in [Proposal -> {NoDecision} \cup RejectT \cup ApplyT]
  BY DEF Fit, StoryFit, DocsFit, DbT
<1>2. ASSUME NEW r \in Runs, NEW d \in Docs, StartRun(r, d) PROVE db'.decisions = db.decisions
  <2>1. SameReview(db, CheckpointAt(db, d)) BY <1>1, CheckpointFit
  <2>2. \A run : CheckpointAt(db, d).decisions
                   = [CheckpointAt(db, d) EXCEPT !.runs[r] = run].decisions
    <3> DEFINE t == CheckpointAt(db, d)
    <3>1. t \in DbT BY <1>1, CheckpointFit
    <3> HIDE DEF t
    <3>2. \A run : t.decisions = [t EXCEPT !.runs[r] = run].decisions BY <3>1 DEF DbT
    <3> QED BY <3>2 DEF t
  <2>3. \E run : db' = [CheckpointAt(db, d) EXCEPT !.runs[r] = run] BY <1>2 DEF StartRun
  <2> QED BY <2>1, <2>2, <2>3 DEF SameReview
<1>3. ASSUME NEW r \in Runs, CompleteRun(r) PROVE db'.decisions = db.decisions
  BY <1>1, <1>3 DEF CompleteRun, DbT
<1>4. ASSUME NEW q \in Proposal, NEW o \in Ops, Prepare(q, o) PROVE db'.decisions = db.decisions
  BY <1>1, <1>4 DEF Prepare, DbT
<1>5. ASSUME NEW q \in Proposal, NEW o \in Ops, Reject(q, o)
      PROVE  db'.decisions[p] = db.decisions[p] \/ db'.decisions[p].kind = "reject"
  <2> DEFINE decision == [kind |-> "reject", namespace |-> db.namespace, op |-> o]
  <2>1. db'.decisions = [db.decisions EXCEPT ![q] = decision] BY <1>1, <1>5 DEF Reject, DbT
  <2>2. decision.kind = "reject" OBVIOUS
  <2> HIDE DEF decision
  <2>3. db'.decisions[p] \in {db.decisions[p], decision} BY <1>1, <2>1
  <2> QED BY <2>2, <2>3
<1>6. ASSUME NEW q \in Proposal, NEW o \in Ops, Apply(q, o), q # p
      PROVE  db'.decisions[p] = db.decisions[p]
  <2> DEFINE d == db.runs[q[1]].doc
  <2>0. PICK body \in Bodies :
          /\ db.docs[d].version < VersionLimit
          /\ \E decision, receipt :
               db' = [CheckpointAt(WriteBody(CheckpointAt(db, d), d, body), d) EXCEPT
                        !.decisions[q] = decision, !.receipts[db.namespace][o] = receipt]
    BY <1>6, ApplyWrites
  <2>1. PICK decision, receipt :
          db' = [CheckpointAt(WriteBody(CheckpointAt(db, d), d, body), d) EXCEPT
                   !.decisions[q] = decision, !.receipts[db.namespace][o] = receipt]
    BY <2>0
  <2>2. d \in Docs
    <3>1. db.runs[q[1]] \in RunT
      <4>1. RequireOwnedPending(q) BY <1>6 DEF Apply
      <4> QED BY <4>1, PendingFit
    <3> QED BY <3>1 DEF RunT
  <2> DEFINE t == CheckpointAt(WriteBody(CheckpointAt(db, d), d, body), d)
  <2> HIDE DEF d
  <2>3. t \in DbT /\ SameReview(db, t) BY <1>1, <2>0, <2>2, ReplaceFit
  <2>4. db' = [t EXCEPT !.decisions[q] = decision, !.receipts[db.namespace][o] = receipt]
    BY <2>1
  <2> HIDE DEF t
  <2>5. db'.decisions = [db.decisions EXCEPT ![q] = decision] BY <2>3, <2>4 DEF DbT, SameReview
  <2> QED BY <1>1, <1>6, <2>5
<1>7. ASSUME NEW d \in Docs, NEW o \in Ops, SaveDraft(d, o) PROVE db'.decisions = db.decisions
  BY <1>1, <1>7 DEF SaveDraft, WriteBody, DbT
<1>8. ASSUME ChangePolicy \/ CopyProject PROVE db'.decisions = db.decisions
  BY <1>1, <1>8 DEF ChangePolicy, CopyProject, DbT
<1> QED BY <1>2, <1>3, <1>4, <1>5, <1>6, <1>7, <1>8 DEF Next

\* A suggestion is applied only to the story its request saw: when the command
\* finds the epoch of the run, no document has another head than the run was told,
\* and what is written is the wording that was reviewed last (apply_proposal).
THEOREM SeenTheorem == Spec => AppliedToSeenStory
<1> DEFINE Seen(p) ==
      /\ [d \in Docs |-> HeadOf(db.docs[d])] = db.runs[p[1]].seen
      /\ db.namespace = db.runs[p[1]].namespace
      /\ db'.prepared[p] = db.prepared[p]
      /\ db'.docs[db.runs[p[1]].doc].body = Last(db.prepared[p]).body
<1>1. ASSUME Fit, NEW p \in Proposal, NEW o \in Ops, Apply(p, o) PROVE Seen(p)
  <2> DEFINE run == db.runs[p[1]]
             d == run.doc
  <2>0. PICK i \in 1..PreparedLimit, body \in Bodies :
          /\ PreparedLatest(p, i, body) /\ Current(p) /\ db.docs[d].version < VersionLimit
          /\ \E decision, receipt :
               db' = [CheckpointAt(WriteBody(CheckpointAt(db, d), d, body), d) EXCEPT
                        !.decisions[p] = decision, !.receipts[db.namespace][o] = receipt]
    BY <1>1, ApplyWrites
  <2>1. PICK decision, receipt :
          db' = [CheckpointAt(WriteBody(CheckpointAt(db, d), d, body), d) EXCEPT
                   !.decisions[p] = decision, !.receipts[db.namespace][o] = receipt]
    BY <2>0
  <2>2. /\ run \in RunT /\ RunFit(run, db) /\ run.namespace = db.namespace
    <3>1. RequireOwnedPending(p) BY <1>1 DEF Apply
    <3> QED BY <1>1, <3>1, PendingFit
  <2>3. run.epoch = db.epoch BY <2>0 DEF Current
  <2> HIDE DEF run
  <2>4. /\ \A x \in Docs : HeadOf(db.docs[x]) = run.seen[x]
        /\ run.seen \in [Docs -> HeadT] /\ d \in Docs
    BY <2>2, <2>3 DEF RunFit, RunT
  <2>5. [x \in Docs |-> HeadOf(db.docs[x])] = run.seen BY <2>4
  <2> DEFINE t == CheckpointAt(WriteBody(CheckpointAt(db, d), d, body), d)
  <2> HIDE DEF d
  <2>6. t \in DbT /\ SameReview(db, t) /\ t.docs[d].body = body
    <3>1. db \in DbT /\ DocsFit(db) BY <1>1 DEF Fit, StoryFit, DocsFit
    <3>2. db.docs[d].version < VersionLimit BY <2>0 DEF d, run
    <3> QED BY <2>4, <3>1, <3>2, ReplaceFit
  <2>7. db' = [t EXCEPT !.decisions[p] = decision, !.receipts[db.namespace][o] = receipt]
    BY <2>1 DEF t, d, run
  <2> HIDE DEF t
  <2>8. db'.docs[d].body = body /\ db'.prepared = db.prepared
    BY <2>6, <2>7 DEF DbT, SameReview
  <2>9. Last(db.prepared[p]).body = body BY <2>0 DEF PreparedLatest, Last
  <2> QED BY <2>2, <2>5, <2>8, <2>9 DEF d, run
<1>2. Fit /\ [Next]_db =>
        [\A p \in Proposal :
           db.decisions[p].kind # "apply" /\ db'.decisions[p].kind = "apply" => Seen(p)]_db
  <2>1. ASSUME Fit, Next, NEW p \in Proposal,
               db.decisions[p].kind # "apply", db'.decisions[p].kind = "apply"
        PROVE  Seen(p)
    <3> HIDE DEF Seen
    <3> QED BY <1>1, <2>1, OnlyApply
  <2> HIDE DEF Seen
  <2> QED BY <2>1
<1> QED BY <1>2, InitFit, NextFit, PTL DEF Spec, AppliedToSeenStory
===============================================================================
