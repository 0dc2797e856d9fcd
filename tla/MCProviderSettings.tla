-------------------------- MODULE MCProviderSettings --------------------------
(* ProviderSettings for TLC: two Codex models of which one is built in, and *)
(* discoveries that drop a model, the trait that a selection names, or list *)
(* a label that is too wide for the catalog.                                *)
EXTENDS ProviderSettings, TLC

CONSTANTS m1, m2, t1

MCLists == {{}, {m1}, {m1, m2}}
MCWide == {[m \in {m1, m2} |-> {}]}
MCCatalogs == {[m \in {m1} |-> {}], [m \in {m2} |-> {t1}]} \cup MCWide
Symmetric == Permutations(Key) \cup Permutations(Check) \cup Permutations(Route)
=============================================================================
