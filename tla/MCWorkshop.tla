----------------------------- MODULE MCWorkshop -----------------------------
\* TLC instance of Workshop: an existing character and one an adoption may add,
\* a working session and a what-if fork of it, two words of text.
EXTENDS Workshop, TLC

CONSTANTS o1, o2, o3

MCParent == [s1 |-> None, s2 |-> "s1"]
MCBodies == {<<"q">>, <<"q", "p">>}
MCFixed == {<<"p">>}
MCOutputs == {<<[content |-> <<"q">>, affects |-> {"c2", "s1"}]>>, <<>>}

Target(mode, body) == [mode |-> mode, body |-> body]
Ask(targets, protected, drafts) ==
    [targets |-> targets, protected |-> protected, drafts |-> drafts]
Link == [id |-> "r1", pair |-> {"c1", "c2"}]
MCAdoptions ==
    {Ask([c2 |-> Target("add", <<"q", "p">>)], {<<"p">>}, {}),      \* new and fixed
     Ask([c1 |-> Target("add", <<"q", "p">>)], {}, {}),             \* appended
     Ask([c2 |-> Target("replace", <<"q">>)], {}, {}),              \* drops a word
     Ask([c1 |-> Target("replace", <<"q", "p">>),
          c2 |-> Target("replace", <<"q", "p">>)], {}, {}),
     Ask([c1 |-> Target("replace", <<"q">>),
          c2 |-> Target("add", <<"q", "p">>)], {}, {Link})}         \* two and their link

Symmetric == Permutations(Ops)
=============================================================================
