-------------------------------- MODULE Scope --------------------------------
(***************************************************************************)
(* What part of a manuscript a request may change: crates/documents scope  *)
(* and structured, with the snapshot grammar of crates/kernel.             *)
(*                                                                         *)
(* A body is a sequence of blocks, a text a sequence of scalars with their *)
(* marks.  A grant names a range of the token stream of one exact body;    *)
(* a result is accepted when the stream outside the range is unchanged and *)
(* the part inside is exactly what the payload says.  Fingerprints         *)
(* identify what they are taken of, so a grant carries its source body and *)
(* the quoted tokens; every scalar is a grapheme of its own.               *)
(***************************************************************************)
EXTENDS Integers, SequencesExt

CONSTANT Wide    \* scalars that take two UTF-16 units

Width(scalar) == IF scalar.ch \in Wide THEN 2 ELSE 1
Units(text) == FoldLeft(LAMBDA n, scalar : n + Width(scalar), 0, text)
Plain(chars) == [i \in DOMAIN chars |-> [ch |-> chars[i], marks |-> {}]]

BlockIds(body) == {body[i].id : i \in DOMAIN body}
CanonicalSnapshot(body) ==
    body # <<>> /\ \A i, j \in DOMAIN body : body[i].id = body[j].id => i = j

-----------------------------------------------------------------------------
\* The structural token stream.

BlockTokens(b) ==
    IF b.style = "sceneBreak" THEN <<[token |-> "sceneBreak", id |-> b.id]>>
    ELSE <<[token |-> "open", id |-> b.id, style |-> b.style]>>
         \o [i \in DOMAIN b.text |->
               [token |-> "scalar", scalar |-> b.text[i], style |-> b.style]]
         \o <<[token |-> "close"]>>
TokenDocument(body) == FlattenSeq([i \in DOMAIN body |-> BlockTokens(body[i])])
TokenEnd(body, i) == Len(TokenDocument(SubSeq(body, 1, i)))
TokenStart(body, i) == TokenEnd(body, i - 1)
IsBoundary(t) == t.token # "scalar"

BlockIndexes(body, id) == {i \in DOMAIN body : body[i].id = id}

\* validate_endpoint_boundary and endpoint_token: how many tokens of the block's
\* content lie before a UTF-16 offset that splits no scalar.
EndpointTokens(body, i, offset) ==
    IF body[i].style = "sceneBreak"
    THEN {TokenStart(body, i) : o \in {0} \cap {offset}}
    ELSE {TokenStart(body, i) + 1 + k :
            k \in {n \in 0..Len(body[i].text) : Units(SubSeq(body[i].text, 1, n)) = offset}}

\* The ranges a selection denotes: one, or none when it is refused.
ScopeRanges(body, sel) ==
    LET firsts == BlockIndexes(body, sel.start.block)
        lasts == BlockIndexes(body, sel.end.block)
    IN  CASE sel.kind = "wholeDocument" ->
               {[start |-> 0, end |-> TokenEnd(body, Len(body)),
                 first |-> 1, last |-> Len(body)]}
          [] sel.kind = "passage" ->
               {r \in UNION {[start : EndpointTokens(body, f, sel.start.offset),
                              end : EndpointTokens(body, l, sel.end.offset),
                              first : {f}, last : {l}] : f \in firsts, l \in lasts} :
                   /\ r.first <= r.last /\ r.start <= r.end
                   /\ r.first = r.last => body[r.first].style # "sceneBreak"}
          [] sel.kind = "blocks" ->
               {[start |-> TokenStart(body, p[1]), end |-> TokenEnd(body, p[2]),
                 first |-> p[1], last |-> p[2]] :
                   p \in {q \in firsts \X lasts :
                       /\ q[1] <= q[2] /\ sel.start.offset = 0
                       /\ sel.end.offset = Units(body[q[2]].text)}}
          [] OTHER -> {}

RangeOf(body, sel) == CHOOSE r \in ScopeRanges(body, sel) : TRUE
Quote(body, r) == SubSeq(TokenDocument(body), r.start + 1, r.end)

\* capture_scope and capture_append_scope: a selection, or the end of the
\* body, bound to the exact body it was made in.
CaptureScope(body, sel) ==
    [kind |-> sel.kind, start |-> sel.start, end |-> sel.end,
     source |-> body, quote |-> Quote(body, RangeOf(body, sel))]
CaptureAppendScope(body) ==
    LET last == Last(body) IN
    [kind |-> "append", start |-> [block |-> "none", offset |-> 0],
     end |-> [block |-> last.id, offset |-> Units(last.text)],
     source |-> body, quote |-> BlockTokens(last)]

-----------------------------------------------------------------------------
\* Replacement inside a selection.

\* validate_ids_and_merge_policy.
IdsAndMergePolicy(source, result, replacement, r, kind) ==
    LET selected == {source[i].id : i \in r.first..r.last}
        replaced == {replacement[i].id : i \in
                       {j \in DOMAIN replacement :
                          replacement[j].token \in {"open", "sceneBreak"}}}
        kept == BlockIds(result) \cap selected
        left == Len(result) - (Len(source) - (r.last - r.first + 1))
        merge == kind = "passage" \/ (left = 1 /\ kept # {})
    IN  /\ replaced \cap BlockIds(source) \subseteq selected
        /\ kind = "passage" =>
             \A i \in DOMAIN source, j \in DOMAIN result :
                source[i].id = result[j].id /\ source[i].id \in replaced
                   => source[i].style = result[j].style
        /\ (/\ kind # "wholeDocument" /\ r.last > r.first
            /\ merge /\ left < r.last - r.first + 1) =>
             /\ kept = {source[r.first].id}
             /\ kind = "passage" =>
                  \A i \in r.first..r.last : source[i].style = source[r.first].style
        /\ BlockIds(result) \subseteq BlockIds(source) \cup replaced

\* Mutant: the tokens after the range are not compared.
ValidateScopePrefixOnly(source, result, grant) ==
    LET r == RangeOf(source, grant)
        old == TokenDocument(source)
        new == TokenDocument(result)
    IN  /\ CanonicalSnapshot(result) /\ ScopeRanges(source, grant) # {}
        /\ Len(new) >= r.start + (Len(old) - r.end)
        /\ SubSeq(new, 1, r.start) = SubSeq(old, 1, r.start)

\* validate_scope_impl: the stream outside the range is unchanged.
ValidateScope(source, result, grant) ==
    LET r == RangeOf(source, grant)
        old == TokenDocument(source)
        new == TokenDocument(result)
        cut == Len(new) - (Len(old) - r.end)
        replacement == SubSeq(new, r.start + 1, cut)
    IN  /\ CanonicalSnapshot(source) /\ CanonicalSnapshot(result)
        /\ ScopeRanges(source, grant) # {}
        /\ grant.source = source /\ grant.quote = Quote(source, r)
        /\ cut >= r.start
        /\ SubSeq(new, 1, r.start) = SubSeq(old, 1, r.start)
        /\ SubSeq(new, cut + 1, Len(new)) = SubSeq(old, r.end + 1, Len(old))
        /\ grant.kind = "passage" /\ r.first = r.last =>
             \A i \in DOMAIN replacement : ~IsBoundary(replacement[i])
        /\ IdsAndMergePolicy(source, result, replacement, r, grant.kind)

\* validate_text_replacement and validate_text_fragment: a passage becomes
\* exactly the text, in the one style and the common marks of the selection.
ValidateTextReplacement(source, result, grant, text) ==
    /\ grant.kind = "passage"
    /\ ValidateScope(source, result, grant)
    /\ LET r == RangeOf(source, grant)
           new == TokenDocument(result)
           cut == Len(new) - (Len(TokenDocument(source)) - r.end)
           style == source[r.first].style
           marks == {grant.quote[i].scalar.marks :
                       i \in {j \in DOMAIN grant.quote : ~IsBoundary(grant.quote[j])}}
           inherited == IF \E m \in marks : marks = {m} THEN UNION marks ELSE {}
       IN  /\ style # "sceneBreak"
           /\ \A i \in r.first..r.last : source[i].style = style
           /\ SubSeq(new, r.start + 1, cut) =
                [i \in DOMAIN text |-> [token |-> "scalar", style |-> style,
                    scalar |-> [ch |-> text[i], marks |-> inherited]]]

\* validate_structured_replacement: the selected blocks become the typed
\* blocks, in order, under fresh identities.
ValidateStructured(source, result, grant, blocks) ==
    /\ grant.kind \in {"blocks", "wholeDocument"}
    /\ CanonicalSnapshot(result)
    /\ ScopeRanges(source, grant) # {}
    /\ LET r == RangeOf(source, grant)
           inserted == SubSeq(result, r.first, Len(result) - (Len(source) - r.last))
       IN  /\ Len(result) >= (r.first - 1) + (Len(source) - r.last)
           /\ Len(inserted) = Len(blocks)
           /\ BlockIds(inserted) \cap BlockIds(source) = {}
           /\ \A i \in DOMAIN blocks :
                inserted[i] = [id |-> inserted[i].id] @@ blocks[i]
    /\ ValidateScope(source, result, grant)

-----------------------------------------------------------------------------
\* Continuation at the end of a chapter.

IsEmptyPlaceholder(body) ==
    Len(body) = 1 /\ body[1].style = "paragraph" /\ body[1].text = <<>>

\* validate_plain_paragraph_block.
PlainParagraph(b, chars) ==
    b.style = "paragraph" /\ chars # <<>> /\ b.text = Plain(chars)

\* validate_append: the source, then exactly the paragraphs under fresh
\* identities; in an empty chapter the first one fills the placeholder.
ValidateAppend(source, result, grant, paragraphs) ==
    LET empty == IsEmptyPlaceholder(source)
        kept == IF empty THEN 0 ELSE Len(source)
        fresh == SubSeq(result, Len(source) + 1, Len(result))
    IN  /\ grant = CaptureAppendScope(source)
        /\ CanonicalSnapshot(result) /\ paragraphs # <<>>
        /\ Len(result) = kept + Len(paragraphs)
        /\ IF empty THEN result[1].id = source[1].id
           ELSE IsPrefix(TokenDocument(source), TokenDocument(result))
        /\ BlockIds(fresh) \cap BlockIds(source) = {}
        /\ \A i \in DOMAIN paragraphs : PlainParagraph(result[kept + i], paragraphs[i])

=============================================================================
