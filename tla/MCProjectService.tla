-------------------------- MODULE MCProjectService --------------------------
\* TLC instances of ProjectService.
EXTENDS ProjectService, TLC

CONSTANTS s1, s2, b1, b2, o1, o2, o3

\* Operation identities, sessions and bodies are only ever compared.
Symmetric == Permutations(Ops) \cup Permutations(Sessions) \cup Permutations(Bodies)
=============================================================================
