---------------------------- MODULE ActorCommand ----------------------------
(***************************************************************************)
(* What a command of the project actor may answer about the one row it     *)
(* writes: a command is an operator from the row to the set of its         *)
(* outcomes [row, code].                                                   *)
(***************************************************************************)

Refused(row, code) == {[row |-> row, code |-> code]}

\* A transaction that reached its COMMIT: done, or reported uncertain and in
\* truth done or rolled back.
Committed(row, next, code) ==
    {[row |-> next, code |-> code],
     [row |-> next, code |-> "UncertainOutcome"],
     [row |-> row, code |-> "UncertainOutcome"]}

\* Every command may also fail in a statement before its COMMIT, which rolls
\* it back, and fails so when a reconnection left the actor without a
\* connection (OwnedProject::db_mut).
Reached(connected, row, outcomes) ==
    Refused(row, "PersistenceUnavailable") \cup (IF connected THEN outcomes ELSE {})

=============================================================================
