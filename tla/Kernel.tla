------------------------------- MODULE Kernel -------------------------------
(***************************************************************************)
(* The vocabulary the host and the renderer share (crates/kernel and the   *)
(* bindings generated from it): heads, accesses and causes, over small     *)
(* sets of identities.  Identities are random UUIDs in the code; here they *)
(* are members of sets, and leases are numbered in the order of issue.     *)
(* A body hash identifies its body, so a head is a version and a body.     *)
(***************************************************************************)
EXTENDS Manuscript, FiniteSets

CONSTANTS
    Docs,          \* document identities
    Bodies,        \* manuscript snapshots
    Ops,           \* operation identities of the project's namespace
    Sessions,      \* renderer sessions
    Titles,        \* titles of the project and of its documents
    Generations,   \* local generations a caller may send
    VersionLimit,  \* the largest working version (i64::MAX in the code)
    MetaLimit,     \* bound on metadata versions
    LeaseLimit     \* bound on the number of leases ever issued

ASSUME ActorConstants ==
    /\ VersionLimit \in Nat /\ MetaLimit \in Nat /\ LeaseLimit \in Nat
    /\ None \notin Bodies /\ None \notin Sessions /\ None \notin Titles
    /\ None \notin Ops
    /\ Titles # {}

Causes == {"typing", "undoRedo"}
Versions == 0..VersionLimit
Heads == [version : Versions, body : Bodies]
Access == [session : Sessions, lease : 1..LeaseLimit]
NoAccess == [session |-> None, lease |-> 0]
=============================================================================
