----------------------------- MODULE MemoryActor -----------------------------
(***************************************************************************)
(* The durable life of one refresh of the story memory: the memory         *)
(* commands of the project actor (crates/story/src/memory.rs).             *)
(*                                                                         *)
(* A row is a memory job with its terminal result and its generated view.  *)
(* It is frozen at the story-source epoch (basis) and the disclosure       *)
(* policy of its start.  A result is what the producer reported: its       *)
(* outcome, whether its output validates against the source, whether the   *)
(* local clean-up of the producer is confirmed, and whether the whole      *)
(* request is proved delivered.                                            *)
(***************************************************************************)
EXTENDS ActorCommand, Integers

Kinds == {"local", "codex", "http"}
Outcomes == {"completed", "stopped", "failed"}
Active == {"queued", "running", "stopping"}

NoResult == [outcome |-> "none", valid |-> FALSE, cleanup |-> "settled", delivered |-> FALSE]
NoView == [candidate |-> NoResult, current |-> FALSE]
NoJob == [status |-> "absent", kind |-> "local", basis |-> 0, policy |-> 0,
          dispatch |-> "pending", reason |-> "none", result |-> NoResult, view |-> NoView]

-----------------------------------------------------------------------------
\* Conditions of the commands.

PolicyCurrent(row, p) == row.policy = p.policy
BasisCurrent(row, p) == row.basis = p.basis /\ row.policy = p.policy

\* recovered_dispatch_claim: a dispatched job that the opening of the project
\* interrupted may still record what its producer had delivered.
RecoveredClaim(row) ==
    /\ row.status = "interrupted" /\ row.dispatch = "dispatched"
    /\ row.reason = "recovered_unknown_external_outcome"

\* Mutant: every report of a provider must prove the delivery.
DeliveryStrict(kind, report) ==
    kind # "local" => report.cleanup = "settled" /\ report.delivered

\* validate_delivery: a completed report of a provider proves the delivery of
\* the whole request and the end of the local producer.
DeliveryProved(kind, report) ==
    kind # "local" /\ report.outcome = "completed" =>
        report.cleanup = "settled" /\ report.delivered

\* Mutant: a stop that is still settling is overlooked.
TerminalStateIgnoresStop(status, report) ==
    IF report.cleanup = "unresolved"
    THEN [status |-> "interrupted", reason |-> "cleanup_unresolved"]
    ELSE IF report.outcome = "stopped"
    THEN [status |-> "stopped", reason |-> "provider_stopped"]
    ELSE [status |-> IF report.outcome = "completed" /\ report.valid
                     THEN "completed" ELSE "failed",
          reason |-> "none"]

\* terminal_state_with_cleanup.
TerminalState(status, report) ==
    IF report.cleanup = "unresolved"
    THEN [status |-> "interrupted",
          reason |-> IF status = "stopping" THEN "author_stopped" ELSE "cleanup_unresolved"]
    ELSE IF status = "stopping" THEN [status |-> "stopped", reason |-> "author_stopped"]
    ELSE IF report.outcome = "stopped"
    THEN [status |-> "stopped", reason |-> "provider_stopped"]
    ELSE [status |-> IF report.outcome = "completed" /\ report.valid
                     THEN "completed" ELSE "failed",
          reason |-> "none"]

-----------------------------------------------------------------------------
\* Commands; p is the project they run in.

\* start_memory: the operation identity names one job for one producer; a
\* repeated start answers the job.
StartMemory(row, kind, p) ==
    IF row = NoJob
    THEN Committed(row, [NoJob EXCEPT !.status = "queued", !.kind = kind,
                                      !.basis = p.basis, !.policy = p.policy], "ok")
    ELSE IF row.kind # kind THEN Refused(row, "OperationIdReusedWithDifferentPayload")
    ELSE Committed(row, row, "ok")

\* begin_memory: the first claim of a queued job whose basis is current may
\* dispatch it; a claim of a running job only revalidates its policy.
BeginMemory(row, p) ==
    IF row.status \notin {"queued", "running"} THEN Refused(row, "MemoryJobSealed")
    ELSE IF ~PolicyCurrent(row, p) THEN Refused(row, "ContextPolicyChanged")
    ELSE IF row.status = "running" THEN Committed(row, row, "ok")
    ELSE IF ~BasisCurrent(row, p) THEN Refused(row, "MemoryBasisChanged")
    ELSE Committed(row, [row EXCEPT !.status = "running", !.dispatch = "dispatched"],
                   "newlyDispatched")

\* Mutant: the reason is not one of the reasons of a job.
InterruptMemoryClaimUnnamed(row) ==
    IF row.status \notin Active THEN Committed(row, row, "ok")
    ELSE Committed(row, [row EXCEPT !.status = "interrupted", !.reason = "claim_refused"], "ok")

\* interrupt_memory_claim, of a claim that must not or may not have happened.
InterruptMemoryClaim(row) ==
    IF row.status \notin Active THEN Committed(row, row, "ok")
    ELSE Committed(row, [row EXCEPT !.status = "interrupted",
                                    !.reason = "dispatch_outcome_unknown"], "ok")

\* Mutant: the reason of the stop is only recorded when the job ends.
StopMemoryUnreasoned(row) ==
    CASE row.status = "queued" -> Committed(row, [row EXCEPT !.status = "stopped",
                                                             !.reason = "author_stopped"], "ok")
      [] row.status = "running" -> Committed(row, [row EXCEPT !.status = "stopping"], "ok")
      [] OTHER -> Committed(row, row, "ok")

\* stop_memory: a queued job ends, a running one is asked to end.
StopMemory(row) ==
    CASE row.status = "queued" -> Committed(row, [row EXCEPT !.status = "stopped",
                                                             !.reason = "author_stopped"], "ok")
      [] row.status = "running" -> Committed(row, [row EXCEPT !.status = "stopping",
                                                              !.reason = "author_stopped"], "ok")
      [] OTHER -> Committed(row, row, "ok")

\* complete_memory: one immutable result; a job that was recovered keeps its
\* interruption.
CompleteMemory(row, report) ==
    IF row.result # NoResult
    THEN IF row.result = report THEN Committed(row, row, "ok")
         ELSE Refused(row, "MemoryResultConflict")
    ELSE IF row.status \notin {"running", "stopping"} /\ ~RecoveredClaim(row)
    THEN Refused(row, "MemoryJobNotRunning")
    ELSE IF ~DeliveryProved(row.kind, report) THEN Refused(row, "ProviderInputUnknown")
    ELSE IF RecoveredClaim(row) THEN Committed(row, [row EXCEPT !.result = report], "ok")
    ELSE LET end == TerminalState(row.status, report) IN
         Committed(row, [row EXCEPT !.status = end.status, !.reason = end.reason,
                                    !.result = report], "ok")

\* install_memory: the view of a completed job, once, under its own policy.
InstallMemory(row, p) ==
    IF row.view # NoView THEN Committed(row, row, "ok")
    ELSE IF row.status # "completed" \/ row.result = NoResult
    THEN Refused(row, "MemoryInstallBlocked")
    ELSE IF ~row.result.valid THEN Refused(row, "MemoryCandidateInvalid")
    ELSE IF ~PolicyCurrent(row, p) THEN Refused(row, "ContextPolicyChanged")
    ELSE Committed(row, [row EXCEPT !.view = [candidate |-> row.result,
                                              current |-> BasisCurrent(row, p)]], "ok")

\* Mutant: a job whose view is not installed counts as unfinished.
RecoverUninstalled(row) ==
    IF row.status \in Active \/ (row.status = "completed" /\ row.view = NoView)
    THEN [row EXCEPT !.status = "interrupted", !.reason = "recovered_unknown_external_outcome"]
    ELSE row

\* recover_interrupted_memory, once for every job when a project opens.
RecoverInterruptedMemory(row) ==
    IF row.status \in Active
    THEN [row EXCEPT !.status = "interrupted", !.reason = "recovered_unknown_external_outcome"]
    ELSE row

-----------------------------------------------------------------------------
\* What the readers of a job and the validators of a backup accept.

\* validate_memory_lifecycle: status, dispatch, reason and result of a job.
LegalLifecycle(row) ==
    LET Proved ==
            row.kind # "local" /\ row.result.outcome = "completed" => row.result.cleanup = "settled"
        Settled == row.result # NoResult /\ row.result.cleanup # "unresolved" /\ Proved
        Claimed == row.dispatch = "dispatched"
    IN  \/ /\ row.status = "queued" /\ row.dispatch = "pending"
           /\ row.reason = "none" /\ row.result = NoResult
        \/ row.status = "running" /\ Claimed /\ row.reason = "none" /\ row.result = NoResult
        \/ row.status = "stopping" /\ Claimed /\ row.reason = "author_stopped" /\ row.result = NoResult
        \/ /\ row.status = "stopped" /\ row.dispatch = "pending"
           /\ row.reason = "author_stopped" /\ row.result = NoResult
        \/ /\ row.status = "stopped" /\ Claimed /\ Settled
           /\ row.reason \in {"author_stopped", "provider_stopped"}
        \/ /\ row.status = "completed" /\ Claimed /\ row.reason = "none"
           /\ Settled /\ row.result.outcome = "completed"
        \/ row.status = "failed" /\ Claimed /\ row.reason = "none" /\ Settled
        \/ /\ row.status = "interrupted" /\ row.result = NoResult
           /\ row.reason \in {"recovered_unknown_external_outcome", "dispatch_outcome_unknown"}
        \/ /\ row.status = "interrupted" /\ row.result # NoResult /\ Claimed /\ Proved
           /\ \/ row.reason = "recovered_unknown_external_outcome"
              \/ /\ row.result.cleanup = "unresolved"
                 /\ row.reason \in {"author_stopped", "cleanup_unresolved"}

\* validate_memory_job_record: the lifecycle, the retained delivery proof, and
\* the binding of the view to the result of a completed job.
LegalRecord(row) ==
    /\ LegalLifecycle(row)
    /\ row.result # NoResult => DeliveryProved(row.kind, row.result)
    /\ row.status = "completed" => row.result.outcome = "completed" /\ row.result.valid
    /\ row.status = "failed" => ~(row.result.outcome = "completed" /\ row.result.valid)
    /\ row.view # NoView =>
        row.status = "completed" /\ row.result.valid /\ row.view.candidate = row.result

\* validate_memory_storage: every job, with the result and the view it owns.
ValidateMemoryStorage(jobs) == \A j \in DOMAIN jobs : jobs[j] # NoJob => LegalRecord(jobs[j])

=============================================================================
