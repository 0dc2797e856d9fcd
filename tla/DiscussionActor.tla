--------------------------- MODULE DiscussionActor ---------------------------
(***************************************************************************)
(* The durable life of one model request: the discussion commands of the   *)
(* project actor (crates/conversation/src/discussions.rs).                 *)
(*                                                                         *)
(* A command is one IMMEDIATE transaction on one row of discussion_runs    *)
(* with its output events, its assistant messages and its provider         *)
(* receipt, so a command is an operator from the row to the set of its     *)
(* outcomes [row, code].  The lookup chain of a run, which has commands of *)
(* its own, is left out: these are the runs whose lookup is absent.        *)
(*                                                                         *)
(* A response is one stream, and every text that a run, an event or a      *)
(* worker holds is a prefix of it: a text is its length.                   *)
(***************************************************************************)
EXTENDS ActorCommand, Integers, Sequences

Active == {"queued", "running", "stopping"}
Terminal == {"completed", "stopped", "failed", "interrupted"}

NoReport == [status |-> "none", seq |-> 0, text |-> 0, cleanup |-> "settled",
             evidence |-> "none"]

NoRun == [status |-> "absent", dispatch |-> "pending", epoch |-> 0, seq |-> 0,
          out |-> 0, events |-> <<>>, replies |-> 0, result |-> NoReport]

-----------------------------------------------------------------------------
\* The journal of a run.

\* existing_event: the event already stored under this identity.
Stored(row, id) == {i \in DOMAIN row.events : row.events[i].id = id}

\* The same event was stored before with the same content and place.
Replayed(row, id, kind, text, expected) ==
    \E i \in Stored(row, id) :
        /\ row.events[i].kind = kind
        /\ row.events[i].text = text
        /\ row.events[i].seq = expected + 1

\* INSERT INTO discussion_output_events with the next sequence, and the same
\* sequence in the run.
Recorded(row, id, kind, text) ==
    [row EXCEPT !.seq = @ + 1,
                !.events = Append(@, [seq |-> row.seq + 1, id |-> id,
                                      kind |-> kind, text |-> text])]

\* seal_run of an active run: the output stays, the end of the run is an event
\* and one assistant message.
SealRun(row, status, id) ==
    [Recorded(row, id, "terminal", row.out) EXCEPT !.status = status, !.replies = @ + 1]

\* ensure_run_started.
EnsureStarted(row) ==
    CASE row.status = "running" -> "ok"
      [] row.status = "queued" -> "RunNotStarted"
      [] row.status = "stopping" -> "RunStopping"
      [] OTHER -> "RunSealed"

-----------------------------------------------------------------------------
\* Commands.

\* start_discussion: the operation identity names one run, frozen at the
\* context epochs of its transaction; a repeated start answers the run.
StartDiscussion(row, epoch) ==
    IF row # NoRun THEN Committed(row, row, "ok")
    ELSE Committed(row, [NoRun EXCEPT !.status = "queued", !.epoch = epoch], "ok")

\* Mutant: the status is not compared before the claim.
BeginUnchecked(row, epoch) ==
    Committed(row, [row EXCEPT !.status = "running", !.dispatch = "claimed"], "ok")

\* begin_discussion_run: one dispatcher claims a queued run whose frozen
\* context is still current; a stale one is sealed and reported.
BeginDiscussionRun(row, epoch) ==
    IF row.status = "running" THEN Refused(row, "RunAlreadyStarted")
    ELSE IF row.status # "queued" THEN Refused(row, "RunSealed")
    ELSE IF row.epoch # epoch
    THEN Committed(row, SealRun(row, "failed", <<"stale">>), "ContextChanged")
    ELSE Committed(row, [row EXCEPT !.status = "running", !.dispatch = "claimed"], "ok")

\* mark_discussion_delivered.
MarkDelivered(row, live) ==
    IF live THEN Refused(row, "ProviderResultRequired")
    ELSE IF row.status = "stopping" THEN Refused(row, "RunStopping")
    ELSE IF row.status # "running" THEN Refused(row, "RunSealed")
    ELSE Committed(row, [row EXCEPT !.dispatch = "delivered"], "ok")

\* append_discussion_output of one chunk of length n.
AppendOutput(row, expected, id, n) ==
    IF Stored(row, id) # {}
    THEN IF Replayed(row, id, "chunk", n, expected)
         THEN Committed(row, row, "ok") ELSE Refused(row, "EventIdReused")
    ELSE IF EnsureStarted(row) # "ok" THEN Refused(row, EnsureStarted(row))
    ELSE IF expected # row.seq THEN Refused(row, "SequenceConflict")
    ELSE Committed(row, [Recorded(row, id, "chunk", n) EXCEPT !.out = @ + n], "ok")

\* finish_discussion: the complete text of the local test model.
FinishDiscussion(row, live, expected, text) ==
    IF live THEN Refused(row, "ProviderResultRequired")
    ELSE IF Stored(row, <<"finish">>) # {}
    THEN IF /\ Replayed(row, <<"finish">>, "terminal", text, expected)
            /\ row.status = "completed"
         THEN Committed(row, row, "ok") ELSE Refused(row, "EventIdReused")
    ELSE IF EnsureStarted(row) # "ok" THEN Refused(row, EnsureStarted(row))
    ELSE IF text = 0 THEN Refused(row, "InvalidRequest")
    ELSE IF text < row.out THEN Refused(row, "OutputConflict")
    ELSE IF expected # row.seq THEN Refused(row, "SequenceConflict")
    ELSE Committed(row, [Recorded(row, <<"finish">>, "terminal", text) EXCEPT
                            !.status = "completed", !.out = text, !.replies = @ + 1],
                   "ok")

\* fail_discussion_run: a queued or running run is sealed as it is.
FailDiscussionRun(row, id, expected) ==
    IF row.status = "stopping" THEN Refused(row, "RunStopping")
    ELSE IF Stored(row, id) # {}
    THEN IF /\ Replayed(row, id, "terminal", row.out, expected)
            /\ row.status = "failed"
         THEN Committed(row, row, "ok") ELSE Refused(row, "EventIdReused")
    ELSE IF expected # row.seq THEN Refused(row, "SequenceConflict")
    ELSE IF row.status \notin Active THEN Refused(row, "RunSealed")
    ELSE Committed(row, SealRun(row, "failed", id), "ok")

\* stop_discussion: a queued run ends, a running one is asked to end.
StopDiscussion(row) ==
    CASE row.status = "queued" -> Committed(row, SealRun(row, "stopped", <<"stop">>), "ok")
      [] row.status = "running" -> Committed(row, [row EXCEPT !.status = "stopping"], "ok")
      [] OTHER -> Committed(row, row, "ok")

\* settle_discussion_stop, which the worker sends once its own work is over.
SettleStop(row, expected, text) ==
    IF Stored(row, <<"stopped">>) # {}
    THEN IF /\ Replayed(row, <<"stopped">>, "terminal", text, expected)
            /\ row.status = "stopped" /\ row.out = text
         THEN Committed(row, row, "ok") ELSE Refused(row, "EventIdReused")
    ELSE IF row.status # "stopping" THEN Refused(row, "RunSealed")
    ELSE IF expected # row.seq THEN Refused(row, "SequenceConflict")
    ELSE IF text < row.out THEN Refused(row, "OutputConflict")
    ELSE Committed(row, [Recorded(row, <<"stopped">>, "terminal", text) EXCEPT
                            !.status = "stopped", !.out = text, !.replies = @ + 1],
                   "ok")

\* Mutant: a stop that is still settling is overlooked.
ProviderStatusIgnoresStop(status, report) ==
    IF report.cleanup = "unresolved" THEN "interrupted"
    ELSE IF report.status \in {"stopped", "completed"} THEN report.status
    ELSE "failed"

\* provider_discussion_status.
ProviderStatus(status, report) ==
    IF report.cleanup = "unresolved" THEN "interrupted"
    ELSE IF status = "stopping" \/ report.status = "stopped" THEN "stopped"
    ELSE IF report.status = "completed" THEN "completed"
    ELSE "failed"

\* app_server::validate_delivery: the report names the dispatch exactly when one
\* is stored, and the turn when one is stored.
DeliveryStands(turn, report) ==
    /\ report.evidence = "none" <=> turn = "none"
    /\ turn = "acknowledged" => report.evidence = "delivered"

\* validate_provider_report_shape: the reports that no run takes.
ReportShape(report, limit) ==
    IF report.text > limit THEN "OutputTooLarge"
    ELSE IF report.status = "completed" /\ report.evidence # "delivered" THEN "InvalidDelivery"
    ELSE "ok"

\* settle_provider_discussion: the terminal report of a provider worker with
\* its receipt, which from then on decides what a repeated report is told.
\* stands is the verdict of validate_delivery on the report, limit the output
\* limit of its binding.
SettleProvider(row, stands, limit, report) ==
    IF ReportShape(report, limit) # "ok" THEN Refused(row, ReportShape(report, limit))
    ELSE IF row.result # NoReport
    THEN IF row.result = report THEN Committed(row, row, "ok")
         ELSE Refused(row, "ProviderResultConflict")
    ELSE IF row.status \notin {"running", "stopping"} THEN Refused(row, "RunNotStarted")
    ELSE IF ~stands THEN Refused(row, "InvalidDelivery")
    ELSE IF report.text < row.out THEN Refused(row, "OutputConflict")
    ELSE IF report.status = "completed" /\ report.text = 0
    THEN Refused(row, "InvalidRequest")
    ELSE IF report.seq # row.seq THEN Refused(row, "SequenceConflict")
    ELSE IF Stored(row, <<"provider">>) # {} THEN Refused(row, "EventIdReused")
    ELSE Committed(row, [Recorded(row, <<"provider">>, "terminal", report.text) EXCEPT
                            !.status = ProviderStatus(row.status, report),
                            !.out = report.text,
                            !.dispatch = IF report.evidence = "delivered" THEN "delivered" ELSE @,
                            !.replies = @ + 1, !.result = report],
                   "ok")

\* claim_app_server_dispatch: the last fence before a turn is submitted to the
\* shared server.  It writes the dispatch of a run, once.
ClaimDispatch(row, turn, epoch) ==
    IF row.status # "running" \/ row.dispatch # "claimed" THEN Refused(turn, "RunNotStarted")
    ELSE IF row.epoch # epoch THEN Refused(turn, "ContextChanged")
    ELSE IF turn # "none" THEN Refused(turn, "DispatchAlreadyClaimed")
    ELSE Committed(turn, "claimed", "ok")

\* acknowledge_app_server_turn, which does not look at the status of the run.
AcknowledgeTurn(turn) ==
    IF turn = "none" THEN Refused(turn, "ProviderBindingMismatch")
    ELSE Committed(turn, "acknowledged", "ok")

\* interrupt_discussion: the close of the application seals a run that no
\* worker and no retained result is left to finish.
InterruptDiscussion(row) ==
    IF row.status \in Active
    THEN Committed(row, SealRun(row, "interrupted", <<"interrupted">>), "ok")
    ELSE Committed(row, row, "ok")

\* recover_interrupted_discussions, once for every run when a project opens.
RecoverInterrupted(row) ==
    IF row.status \in Active THEN SealRun(row, "interrupted", <<"interrupted">>) ELSE row

-----------------------------------------------------------------------------
\* What every later reading of the project asks of the rows.

\* read_provider_result: the terminal contract of one stored receipt.
ReceiptReadable(report, limit) ==
    /\ report.text <= limit
    /\ report.status = "completed" => report.text > 0 /\ report.evidence = "delivered"

\* The endings that a receipt allows.
AllowedEndings(report) ==
    IF report.cleanup = "unresolved" THEN {"interrupted"}
    ELSE IF report.status = "stopped" THEN {"stopped"}
    ELSE IF report.status = "completed" THEN {"completed", "stopped"}
    ELSE {"failed", "stopped"}

\* validate_provider_results of one receipt: it agrees with the run it ended
\* and with the terminal event that ended it.
ReceiptStands(row, limit) ==
    row.result # NoReport =>
        /\ ReceiptReadable(row.result, limit)
        /\ row.status \in AllowedEndings(row.result) /\ row.out = row.result.text
        /\ row.seq = row.result.seq + 1
        /\ \E i \in Stored(row, <<"provider">>) :
            row.events[i].kind = "terminal" /\ row.events[i].seq = row.seq

\* Its last part: a completed response of a provider has its receipt.
CompletedHasReceipt(row, live) ==
    live /\ row.status = "completed" => row.result # NoReport

\* validate_dispatches: a stored dispatch belongs to a run that was claimed.
DispatchBound(row, turn) == turn # "none" => row.dispatch \in {"claimed", "delivered"}

=============================================================================
