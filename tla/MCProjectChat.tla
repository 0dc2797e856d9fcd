--------------------------- MODULE MCProjectChat ---------------------------
\* TLC instances of ProjectChat.
EXTENDS ProjectChat, TLC
CONSTANTS p1, p2, a, b
MCAnswers ==
    LET draft(how) == [how |-> how, body |-> b] IN
    {[drafts |-> <<>>, link |-> FALSE],
     [drafts |-> <<draft("follow")>>, link |-> FALSE],
     [drafts |-> <<draft("replace"), draft("new")>>, link |-> TRUE]}
Symmetric == Permutations(Previews)
=============================================================================
