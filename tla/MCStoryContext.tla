--------------------------- MODULE MCStoryContext ---------------------------
\* TLC instance of StoryContext: a chapter and one that may be added, a note,
\* two texts that share a word.
EXTENDS StoryContext

MCChapters == <<"c1", "c2">>
MCWords == [short |-> {"x"}, long |-> {"x", "y"}]

Evidence(possession, promise) ==
    [possession |-> possession, promise |-> promise, knowledge |-> Inherit]
MCReviews ==
    {[evidence |-> Evidence(Inherit, Inherit), summary |-> "inherit"],
     [evidence |-> Evidence({"y"}, {}), summary |-> "reader"]}

MCFreezes ==
    {Request("c1", "storyQuestion", "author", 0),
     Request("c2", "memory", "author", 0)}
Ask(target, purpose, basis) == [target |-> target, purpose |-> purpose, basis |-> basis]
MCDiscussions ==
    {Ask("c1", "discuss", "working"), Ask("n", "revise", "working"),
     Ask("c2", "revise", "working"), Ask("c2", "continue", "reviewed")}
Guide(scope, doc, active) == [scope |-> scope, doc |-> doc, active |-> active]
MCGuidanceSaves == {Guide("request", "c1", TRUE), Guide("project", None, TRUE)}
MCPinSaves == {[doc |-> "c1", docs |-> {"c2", "n"}]}
=============================================================================
