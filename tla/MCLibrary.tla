------------------------------ MODULE MCLibrary ------------------------------
\* TLC instances of Library.
EXTENDS Library, TLC
Symmetric == Permutations(Operations)
=============================================================================
