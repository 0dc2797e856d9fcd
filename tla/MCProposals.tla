---------------------------- MODULE MCProposals ----------------------------
\* TLC instances of Proposals: a chapter and a note, bodies of at most three
\* blocks, and a scalar that takes two UTF-16 units.
EXTENDS Proposals, TLC

X == [ch |-> "x", marks |-> {}]
W == [ch |-> "w", marks |-> {}]
BoldX == [ch |-> "x", marks |-> {"bold"}]
Block(id, text) == [id |-> id, style |-> "paragraph", text |-> text]
Break(id) == [id |-> id, style |-> "sceneBreak", text |-> <<>>]
At(block, offset) == [block |-> block, offset |-> offset]

MCDrafts == {<<Block("a", <<>>)>>,
             <<Block("a", <<W, BoldX>>), Block("b", <<X>>)>>}
MCBodies == MCDrafts \cup
    {<<Block("a", <<X>>)>>,                        \* continuation of the placeholder
     <<Block("a", <<W, [ch |-> "w", marks |-> {"bold"}]>>), Block("b", <<X>>)>>,
     <<Block("a", <<W, [ch |-> "w", marks |-> {"bold"}]>>), Block("b", <<W>>)>>,
     <<Block("a", <<W, X>>), Block("b", <<X>>)>>,
     <<Block("a", <<W, X, X>>)>>,                  \* a passage merged two blocks
     <<Block("n", <<X>>), Block("b", <<X>>)>>,     \* the first block replaced
     <<Break("n")>>,
     <<Block("a", <<W, BoldX>>), Block("b", <<X>>), Block("n", <<X>>)>>}
MCSelections ==
    {[kind |-> "passage", start |-> At("a", 2), end |-> At("a", 3)],
     [kind |-> "passage", start |-> At("a", 2), end |-> At("b", 0)],
     [kind |-> "passage", start |-> At("a", 1), end |-> At("a", 2)],
     [kind |-> "blocks", start |-> At("a", 0), end |-> At("a", 3)],
     [kind |-> "wholeDocument", start |-> At("none", 0), end |-> At("none", 0)]}
MCPayloads ==
    {[kind |-> "passage", text |-> <<"w">>], [kind |-> "passage", text |-> <<"x">>],
     [kind |-> "continuation", paragraphs |-> <<<<"x">>>>],
     [kind |-> "structured", blocks |-> <<[style |-> "paragraph", text |-> <<X>>]>>],
     [kind |-> "structured", blocks |-> <<[style |-> "sceneBreak", text |-> <<>>]>>]}

CONSTANTS o1, o2, o3
Symmetric == Permutations(Ops)
=============================================================================
