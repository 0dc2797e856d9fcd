--------------------------- MODULE ProjectCreation ---------------------------
(***************************************************************************)
(* What the library promises of an operation that creates a project: a     *)
(* new empty one, a duplicate, a recovered backup or an import.  Whatever  *)
(* files are staged, however often the operation is interrupted and        *)
(* retried, a project appears in one step, whole, under an identity of its *)
(* own; the operation makes another only if the author took the first one  *)
(* away before the library recorded it; and a recorded operation makes no  *)
(* other.                                                                  *)
(***************************************************************************)
EXTENDS Naturals

CONSTANTS Operations, Requests, Projects, Unasked,
    Answers(_, _)    \* Answers(request, project): what may be made for a request

VARIABLES
    asked,     \* what each operation was asked to do, or Unasked
    made,      \* the projects of each operation
    home,      \* whether its folder is where the operation put it
    recorded   \* whether the library recorded its completion

vars == <<asked, made, home, recorded>>

Init ==
    /\ asked = [op \in Operations |-> Unasked]
    /\ made = [op \in Operations |-> {}]
    /\ home = [op \in Operations |-> FALSE]
    /\ recorded = [op \in Operations |-> FALSE]

Ask(op) ==
    /\ asked[op] = Unasked
    /\ \E request \in Requests : asked' = [asked EXCEPT ![op] = request]
    /\ UNCHANGED <<made, home, recorded>>

Make(op) ==
    /\ asked[op] # Unasked /\ ~home[op] /\ ~recorded[op]
    /\ \E p \in Projects :
         /\ Answers(asked[op], p)
         /\ \A x \in Operations, q \in UNION {made[y] : y \in Operations} :
              q \in made[x] => q.ident # p.ident
         /\ made' = [made EXCEPT ![op] = @ \cup {p}]
    /\ home' = [home EXCEPT ![op] = TRUE]
    /\ UNCHANGED <<asked, recorded>>

Record(op) ==
    /\ made[op] # {}
    /\ recorded' = [recorded EXCEPT ![op] = TRUE]
    /\ UNCHANGED <<asked, made, home>>

TakeAway(op) ==
    /\ home[op]
    /\ home' = [home EXCEPT ![op] = FALSE]
    /\ UNCHANGED <<asked, made, recorded>>

Next == \E op \in Operations : Ask(op) \/ Make(op) \/ Record(op) \/ TakeAway(op)

Spec == Init /\ [][Next]_vars
=============================================================================
