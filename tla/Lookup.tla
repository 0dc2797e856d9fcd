------------------------------- MODULE Lookup -------------------------------
(***************************************************************************)
(* A discussion that may read more of the frozen story between its calls:  *)
(* the lookup chain of one run.  The project actor keeps the run and its   *)
(* invocations (discussions/lookup.rs, discussion_lookup.rs); one worker   *)
(* thread claims an invocation, calls the provider, settles its result and *)
(* expands the chain (lookup_discussion.rs); the recovery map keeps what   *)
(* could not be saved (discussion_recovery.rs).  Every call is paid for,   *)
(* so none may be repeated, and none made that the record does not allow.  *)
(*                                                                         *)
(* The worker is the live one.  The one of the local test model goes       *)
(* through the same loop and always answers a complete envelope.           *)
(***************************************************************************)
EXTENDS ActorCommand, Integers, Sequences, FiniteSets

CONSTANTS
    Asks,          \* the sets of reads, by their identities, a response may ask for
    MaxAdditional, \* max_additional_invocations of the allowance
    InputLimit,    \* total_input_bytes, in units
    OutputLimit,   \* total_output_bytes, in units
    EpochLimit,    \* bound: changes of the story and of the policy
    FaultLimit     \* bound: failed or uncertain commits and reconnections

ASSUME AllowanceAssumption == MaxAdditional \in 0..2 /\ InputLimit \in Nat \ {0}
                              /\ OutputLimit \in Nat \ {0}
                              /\ \A reads \in Asks : IsFiniteSet(reads)

\* MAX_LOOKUP_ENVELOPE_BYTES, in units.
Envelope == 2

\* The input of an invocation grows with the exchanges it contains.
InputSize(call) == 1 + Cardinality(call.exchanges)

NoResult == [event |-> 0, outcome |-> "none", cleanup |-> "settled", parsed |-> "none",
             reads |-> {}, input |-> 0, text |-> 0]
Prepared(exchanges) == [state |-> "prepared", exchanges |-> exchanges, result |-> NoResult]
NoRun == [status |-> "absent", epoch |-> 0, policy |-> 0, calls |-> <<>>, reads |-> {},
          ended |-> <<"none", 0>>, reply |-> 0]
Active == {"queued", "running", "stopping"}
Terminal == {"completed", "stopped", "failed", "interrupted"}
Invocations == 1..3

VARIABLES
    row,      \* the durable run with its invocations, results and reads
    project,  \* source and policy epochs, needs_reopen (fenced), connection
    faults,   \* how many faults happened
    worker,   \* the worker thread: its step, its invocation, its report
    signal,   \* the stop signal of the worker
    pending,  \* DiscussionRecovery
    retry,    \* a "retry saving" command under way
    stopper,  \* a stop command between its commit and its signal
    sent      \* history: requests sent to the provider, by invocation

actorVars == <<row, project, faults>>
deskVars == <<worker, signal, pending, retry, stopper, sent>>
vars == <<actorVars, deskVars>>

-----------------------------------------------------------------------------
\* The chain in the actor.  Invocation k has ordinal k - 1.

\* seal_run of an active run: its explanation is a terminal event and one
\* assistant message under the packet of the run, which is the first one.
SealRun(status, id) == [row EXCEPT !.status = status, !.ended = id, !.reply = 1]

\* Mutant: a claimed invocation stays claimed.
MarkChainStoppedPrepared(chain) ==
    [chain EXCEPT !.calls = [k \in DOMAIN chain.calls |->
        IF chain.calls[k].state = "prepared" THEN [chain.calls[k] EXCEPT !.state = "stopped"]
        ELSE chain.calls[k]]]

\* mark_chain_stopped: what was never sent is stopped, what may have been sent
\* is unknown.
StoppedState(state) ==
    CASE state = "prepared" -> "stopped"
      [] state = "claimed" -> "unknown"
      [] OTHER -> state
MarkChainStopped(chain) ==
    [chain EXCEPT !.calls = [k \in DOMAIN chain.calls |->
        [chain.calls[k] EXCEPT !.state = StoppedState(chain.calls[k].state)]]]

\* start_discussion with an allowance: the run and its first invocation, under
\* the epochs of the transaction (insert_initial); a repeated start answers it.
StartLookup ==
    IF row # NoRun THEN Committed(row, row, "ok")
    ELSE Committed(row, [NoRun EXCEPT !.status = "queued", !.epoch = project.epoch,
                            !.policy = project.policy, !.calls = <<Prepared({})>>], "ok")

EpochsCurrent == row.epoch = project.epoch /\ row.policy = project.policy

\* begin_discussion_run.
BeginRun ==
    IF row.status = "running" THEN Refused(row, "RunAlreadyStarted")
    ELSE IF row.status # "queued" THEN Refused(row, "RunSealed")
    ELSE IF ~EpochsCurrent
    THEN Committed(row, SealRun("failed", <<"stale", 0>>), "ContextChanged")
    ELSE Committed(row, [row EXCEPT !.status = "running"], "ok")

\* stop_discussion: a queued run ends at once, a running one through its worker.
StopRun ==
    CASE row.status = "queued" -> Committed(row, SealRun("stopped", <<"stop", 0>>), "ok")
      [] row.status = "running" -> Committed(row, [row EXCEPT !.status = "stopping"], "ok")
      [] OTHER -> Committed(row, row, "ok")

\* The bytes of the results saved so far.
ResultOf(chain, k) == IF k \in DOMAIN chain.calls THEN chain.calls[k].result ELSE NoResult
InputSpent(chain) ==
    ResultOf(chain, 1).input + ResultOf(chain, 2).input + ResultOf(chain, 3).input
OutputSpent(chain) ==
    ResultOf(chain, 1).text + ResultOf(chain, 2).text + ResultOf(chain, 3).text

\* claim: the whole input and the longest answer fit in what is left.
WithinAllowance(k) ==
    /\ InputSpent(row) + InputSize(row.calls[k]) <= InputLimit
    /\ OutputSpent(row) + Envelope <= OutputLimit

\* claim_lookup_invocation: only a running run calls, once for an invocation,
\* and only about the story that was frozen; a stale chain is sealed.
ClaimInvocation(k) ==
    IF row.status # "running" THEN Refused(row, "RunNotRunning")
    ELSE IF ~EpochsCurrent
    THEN Committed(row, MarkChainStopped(SealRun("failed", <<"stale", k>>)), "ContextChanged")
    ELSE IF row.calls[k].state # "prepared" THEN Refused(row, "LookupInvocationAlreadyClaimed")
    ELSE IF ~WithinAllowance(k) THEN Refused(row, "LookupAllowanceExceeded")
    ELSE Committed(row, [row EXCEPT !.calls[k].state = "claimed"], "ok")

\* lookup_result_matches: a report whose envelope was refused is stored failed.
ResultMatches(result, report) ==
    /\ \/ result.outcome = report.status
       \/ report.status = "completed" /\ result.outcome = "failed"
    /\ result.cleanup = report.cleanup /\ result.event = report.ordinal
    /\ result.input = report.input /\ result.text = report.text

\* parse_response and authorize_envelope: a completed answer is one envelope.
ParsedAs(report) == IF report.status = "completed" THEN report.envelope ELSE "none"

\* validate_lookup_report_shape and validate_lookup_provider_bytes.
ReportCode(k, report) ==
    IF report.status = "completed" /\ (report.text = 0 \/ report.cleanup = "unresolved")
    THEN "InvalidRequest"
    ELSE IF \/ report.input > InputSize(row.calls[k])
            \/ report.status = "completed" /\ report.input # InputSize(row.calls[k])
    THEN "ProviderInputMismatch"
    ELSE IF \/ InputSpent(row) + report.input > InputLimit
            \/ OutputSpent(row) + report.text > OutputLimit
    THEN "LookupAllowanceExceeded"
    ELSE "ok"

\* store_outcome: the immutable result, and the state it gives the invocation.
OutcomeState(parsed, outcome, cleanup) ==
    CASE parsed = "needs" -> "needs_context"
      [] parsed = "discussion" -> "completed"
      [] parsed = "none" /\ cleanup = "unresolved" -> "unknown"
      [] parsed = "none" /\ cleanup # "unresolved" /\ outcome = "stopped" -> "stopped"
      [] OTHER -> "failed"

StoreOutcome(k, report) ==
    LET parsed == ParsedAs(report)
        outcome == IF report.status = "completed" /\ parsed = "none" THEN "failed"
                   ELSE report.status
    IN  [row EXCEPT !.calls[k].state = OutcomeState(parsed, outcome, report.cleanup),
                    !.calls[k].result =
                        [event |-> k, outcome |-> outcome, cleanup |-> report.cleanup,
                         parsed |-> parsed, reads |-> IF parsed = "needs" THEN report.reads ELSE {},
                         input |-> report.input, text |-> report.text]]

\* Where a chain that has no next invocation ends.
EndingOf(report) ==
    IF report.cleanup = "unresolved" THEN "interrupted"
    ELSE IF ParsedAs(report) # "none" \/ report.status = "stopped" THEN "stopped"
    ELSE "failed"

\* What a first result makes of the run: a stop ends it whatever the answer
\* was; a final answer is published under its own packet
\* (seal_lookup_discussion); a request for context leaves it running; anything
\* else ends it.
Settled(k, report) ==
    LET stored == StoreOutcome(k, report)
        sealed == [stored EXCEPT !.ended = <<"finish", k>>]
    IN  IF ParsedAs(report) # "none" /\ row.status = "running"
        THEN IF ParsedAs(report) = "discussion"
             THEN [sealed EXCEPT !.status = "completed", !.reply = k] ELSE stored
        ELSE [MarkChainStopped(sealed) EXCEPT !.status = EndingOf(report), !.reply = 1]

\* settle_lookup_invocation.
SettleInvocation(k, report) ==
    IF row.calls[k].result # NoResult
    THEN IF ResultMatches(row.calls[k].result, report) THEN Committed(row, row, "ok")
         ELSE Refused(row, "LookupResultConflict")
    ELSE IF row.status \notin {"running", "stopping"} THEN Refused(row, "RunNotStarted")
    ELSE IF row.calls[k].state # "claimed" THEN Refused(row, "LookupInvocationNotClaimed")
    ELSE IF ReportCode(k, report) # "ok" THEN Refused(row, ReportCode(k, report))
    ELSE Committed(row, Settled(k, report), "ok")

\* The reads that earlier rounds stored, and their identities.
ReadsThrough(chain, k) == UNION {chain.calls[i].result.reads : i \in 1..k}

\* validate_lookup_evidence of the next packet, and the unique read identities
\* of store_read: one more invocation is allowed and no read appears twice.
MayExpand(k) ==
    k <= MaxAdditional /\ row.calls[k].result.reads \cap ReadsThrough(row, k - 1) = {}

\* store_read, of every read the response asked for.
StoreReads(k) ==
    [row EXCEPT !.reads = @ \cup {<<k, id>> : id \in row.calls[k].result.reads}]

\* advance_lookup: execute the reads a response asked for and prepare the next
\* invocation, or end the chain at its limit or when the story moved on.  A
\* policy that moved fails the load of the snapshot, and any packet may prove
\* too large: such an error rolls everything back.
AdvanceLookup(k) ==
    IF row.status # "running" THEN Refused(row, "RunSealed")
    ELSE IF row.calls[k].state # "needs_context" THEN Refused(row, "LookupExpansionUnavailable")
    ELSE IF k > MaxAdditional + 1 \/ k >= 3
    THEN Committed(row, MarkChainStopped(SealRun("failed", <<"limit", k>>)), "finished")
    ELSE IF row.epoch # project.epoch
    THEN Committed(row, MarkChainStopped(SealRun("failed", <<"stale", k>>)), "finished")
    ELSE Refused(row, "InvalidContextPacket") \cup
         (IF row.policy = project.policy /\ MayExpand(k)
          THEN Committed(row, [StoreReads(k) EXCEPT
                    !.calls = Append(@, Prepared(ReadsThrough(row, k)))], "ok")
          ELSE {})

\* Mutant: an ended run is halted too.
HaltLookupAlways ==
    Committed(row, MarkChainStopped(SealRun("interrupted", <<"halt", 0>>)), "ok")

\* halt_lookup.
HaltLookup ==
    IF row.status \in Terminal THEN Committed(row, row, "ok")
    ELSE Committed(row, MarkChainStopped(SealRun("interrupted", <<"halt", 0>>)), "ok")

\* interrupt_discussion, and recover_interrupted_discussions for the run.
Interrupted == IF row.status \in Active
               THEN MarkChainStopped(SealRun("interrupted", <<"interrupted", 0>>)) ELSE row

-----------------------------------------------------------------------------
\* What a backup checks of the chain (validate_storage).

\* Every invocation follows a response that asked for it, contains the reads
\* of all rounds before, and has a result when it is settled.
InvocationsValid(chain) ==
    \A k \in DOMAIN chain.calls :
        LET call == chain.calls[k] IN
        /\ k \in Invocations
        /\ k > 1 => /\ chain.calls[k - 1].state = "needs_context"
                    /\ call.exchanges = ReadsThrough(chain, k - 1)
        /\ call.state \in {"needs_context", "completed", "failed"} =>
            call.result # NoResult /\ call.result.cleanup = "settled"
        /\ call.state \in {"prepared", "claimed"} => call.result = NoResult

\* validate_results.
ResultsValid(chain) ==
    \A k \in DOMAIN chain.calls :
        LET result == chain.calls[k].result IN
        result # NoResult =>
            /\ chain.calls[k].state = OutcomeState(result.parsed, result.outcome, result.cleanup)
            /\ (result.outcome = "completed") <=> (result.parsed # "none")
            /\ result.input <= InputSize(chain.calls[k])
            /\ result.outcome = "completed" =>
                result.input = InputSize(chain.calls[k]) /\ result.cleanup = "settled"
            /\ InputSpent(chain) <= InputLimit /\ OutputSpent(chain) <= OutputLimit

\* validate_reads: a stored read was asked for, and is in the next packet.
ReadsValid(chain) ==
    \A read \in chain.reads :
        /\ chain.calls[read[1]].state = "needs_context"
        /\ read[2] \in chain.calls[read[1]].result.reads
        /\ read[1] < Len(chain.calls)
        /\ read[2] \in chain.calls[read[1] + 1].exchanges

Discussions(chain) ==
    {k \in DOMAIN chain.calls : chain.calls[k].result.parsed = "discussion"}

\* Mutant: no message is looked for under the packet of an answer.
PublishedUnseen(chain, k) == FALSE
\* An assistant message stands under the packet of invocation k.
Published(chain, k) == chain.reply = k

\* validate_lookup_terminal_consistency: how the run ended is the event of the
\* result that ended it, and a run is completed by its one final answer, its
\* last invocation, under that answer's packet.  A final answer that a Stop
\* outran is kept by a stopped run with no message under its packet.
TerminalConsistent(chain) ==
    LET last == {k \in DOMAIN chain.calls :
                    /\ chain.calls[k].result # NoResult
                    /\ chain.calls[k].state \in {"completed", "failed", "stopped", "unknown"}}
    IN  /\ chain.status \in Terminal =>
            /\ chain.ended # NoRun.ended
            /\ last # {} => \E k \in last : chain.ended = <<"finish", k>>
            /\ chain.status # "completed" => chain.reply = 1
        /\ chain.status = "completed" =>
            Discussions(chain) = {Len(chain.calls)} /\ chain.reply = Len(chain.calls)
        /\ (chain.status # "completed" /\ Discussions(chain) # {}) =>
            /\ chain.status \in {"stopped", "interrupted"} /\ Cardinality(Discussions(chain)) = 1
            /\ \A k \in Discussions(chain) : ~Published(chain, k)

-----------------------------------------------------------------------------
\* Calls to the actor.

\* Bound: the disk and the process fail FaultLimit times.
Fault(happened) ==
    \/ happened /\ faults < FaultLimit /\ faults' = faults + 1
    \/ ~happened /\ UNCHANGED faults

Reach(outcomes) == Reached(project.connected, row, outcomes)

\* An uncertain commit fences the access of the renderer; the commands of the
\* worker carry none.
Do(o) ==
    /\ row' = o.row
    /\ project' = IF o.code = "UncertainOutcome"
                  THEN [project EXCEPT !.fenced = TRUE] ELSE project
    /\ Fault(project.connected /\ o.code \in {"UncertainOutcome", "PersistenceUnavailable"})

-----------------------------------------------------------------------------
\* The author's commands.

NoReport == [ordinal |-> 0, status |-> "none", cleanup |-> "settled", envelope |-> "none",
             reads |-> {}, input |-> 0, text |-> 0]
NoSave == [kind |-> "none", report |-> NoReport]
HaltSave == [kind |-> "halt", report |-> NoReport]
NoWorker == [pc |-> "none", call |-> 0, report |-> NoReport]

Start ==
    /\ ~project.fenced
    /\ \E o \in Reach(StartLookup) : Do(o)
    /\ UNCHANGED deskVars

\* DesktopProviders::register and DiscussionRecovery::claim: a registered run
\* has its worker, a retained outcome refuses another start, and a claim that
\* may have happened is retained.
Begin ==
    /\ ~project.fenced /\ row # NoRun /\ worker = NoWorker /\ pending = NoSave
    /\ \E o \in Reach(BeginRun) :
        /\ Do(o)
        /\ worker' = IF o.code = "ok" THEN [NoWorker EXCEPT !.pc = "claim", !.call = 1]
                     ELSE NoWorker
        /\ pending' = IF o.code \in {"ok", "RunAlreadyStarted", "RunSealed", "ContextChanged"}
                      THEN NoSave ELSE HaltSave
    /\ signal' = FALSE
    /\ UNCHANGED <<retry, stopper, sent>>

\* stop_discussion of the desktop: the durable stop, then the signal.
Stop ==
    /\ ~stopper /\ ~project.fenced /\ row # NoRun
    /\ \E o \in Reach(StopRun) :
        Do(o) /\ stopper' = (o.code \in {"ok", "UncertainOutcome"})
    /\ UNCHANGED <<worker, signal, pending, retry, sent>>

Signal ==
    /\ stopper /\ stopper' = FALSE
    /\ signal' = (signal \/ worker # NoWorker)
    /\ UNCHANGED actorVars /\ UNCHANGED <<worker, pending, retry, sent>>

\* DiscussionRecovery::retry reads the run, and then, under the lock of the
\* map, stores what was retained.
RetryRead ==
    /\ retry = "idle" /\ ~project.fenced /\ project.connected /\ row # NoRun
    /\ retry' = IF row.status \in Active THEN "active" ELSE "ended"
    /\ UNCHANGED actorVars /\ UNCHANGED <<worker, signal, pending, stopper, sent>>

\* invalid_lookup_report: a repetition cannot be accepted either.
Rejected(code) ==
    code \in {"InvalidRequest", "ProviderInputMismatch", "LookupAllowanceExceeded",
              "LookupResultConflict", "LookupInvocationNotClaimed"}

\* PendingSave::attempt: the report of a lookup is settled and, if the chain
\* could go on after it, halted by a second command; anything else is halted.
RetryStore ==
    /\ retry \in {"active", "ended"}
    /\ \/ /\ pending = NoSave \/ retry = "ended"
          /\ pending' = IF retry = "ended" THEN NoSave ELSE pending
          /\ retry' = "idle" /\ UNCHANGED actorVars
       \/ /\ pending.kind = "report" /\ retry = "active"
          /\ \E o \in Reach(SettleInvocation(pending.report.ordinal, pending.report)) :
              /\ Do(o)
              /\ retry' = IF Rejected(o.code) \/ (o.code = "ok" /\ o.row.status \in Active)
                          THEN "halt" ELSE "idle"
              /\ pending' = IF o.code = "ok" /\ o.row.status \notin Active
                            THEN NoSave ELSE pending
       \/ /\ pending.kind = "halt" /\ retry = "active"
          /\ retry' = "halt" /\ UNCHANGED actorVars /\ UNCHANGED pending
    /\ UNCHANGED <<worker, signal, stopper, sent>>

RetryHalt ==
    /\ retry = "halt" /\ retry' = "idle"
    /\ \E o \in Reach(HaltLookup) :
        Do(o) /\ pending' = IF o.code = "ok" THEN NoSave ELSE pending
    /\ UNCHANGED <<worker, signal, stopper, sent>>

\* The close of the application interrupts what has no worker and no retained
\* result.
Interrupt ==
    /\ ~project.fenced /\ worker = NoWorker /\ pending = NoSave /\ row.status \in Active
    /\ \E o \in Reach(Committed(row, Interrupted, "ok")) : Do(o)
    /\ UNCHANGED deskVars

-----------------------------------------------------------------------------
\* The worker: lookup_discussion::run_loop, a round for an invocation.

Step(pc) == worker' = [worker EXCEPT !.pc = pc]
EndWorker(save) ==
    /\ worker' = NoWorker
    /\ pending' = IF save = NoSave THEN pending ELSE save

\* The claim of the next call, and the check of its exact input.
Claim ==
    /\ worker.pc = "claim"
    /\ \E o \in Reach(ClaimInvocation(worker.call)), exact \in BOOLEAN :
        Do(o) /\ Step(IF o.code = "ok" /\ exact THEN "invoke" ELSE "halt")
    /\ UNCHANGED <<signal, pending, retry, stopper, sent>>

Answered(report) ==
    worker' = [worker EXCEPT !.pc = "settle", !.report = [report EXCEPT !.ordinal = worker.call]]

\* collect_live: no process after a stop, or without a matching connection.
Invoke ==
    /\ worker.pc = "invoke"
    /\ \/ signal /\ Answered([NoReport EXCEPT !.status = "stopped"])
       \/ Answered([NoReport EXCEPT !.status = "failed"])
       \/ ~signal /\ Step("sending")
    /\ UNCHANGED actorVars /\ UNCHANGED <<signal, pending, retry, stopper, sent>>

\* The process takes the packet.
Send ==
    /\ worker.pc = "sending"
    /\ Step("answering")
    /\ sent' = [sent EXCEPT ![worker.call] = @ + 1]
    /\ UNCHANGED actorVars /\ UNCHANGED <<signal, pending, retry, stopper>>

\* The result of the process: complete, whole or not confirmed to be; stopped;
\* failed, or lost with its cleanup.
Answer ==
    /\ worker.pc = "answering"
    /\ \E envelope \in {"discussion", "needs", "none"}, reads \in Asks \cup {{}},
          status \in {"completed", "stopped", "failed"}, cleanup \in {"settled", "unresolved"},
          input \in {0, InputSize(row.calls[worker.call])}, text \in 0..Envelope :
        /\ status = "completed" => cleanup = "settled" /\ text = Envelope
        /\ status # "completed" => envelope = "none" /\ text \in {0, Envelope}
        /\ (envelope = "needs") <=> (reads # {})
        /\ status = "stopped" => signal /\ cleanup = "settled"
        /\ Answered([NoReport EXCEPT !.status = status, !.cleanup = cleanup, !.text = text,
                        !.envelope = envelope, !.reads = reads, !.input = input])
    /\ UNCHANGED actorVars /\ UNCHANGED <<signal, pending, retry, stopper, sent>>

\* After the answer of the actor: an impossible report halts, a write that may
\* have failed is retained and ends the thread, and only a saved response of
\* an active run is expanded.
AfterSettle(o) ==
    \/ /\ Rejected(o.code) /\ Step("halt") /\ UNCHANGED pending
    \/ /\ o.code # "ok" /\ ~Rejected(o.code)
       /\ EndWorker([kind |-> "report", report |-> worker.report])
    \/ /\ o.code = "ok" /\ o.row.status \in Active /\ Step("advance") /\ UNCHANGED pending
    \/ /\ o.code = "ok" /\ o.row.status \notin Active /\ EndWorker(NoSave)

Settle ==
    /\ worker.pc = "settle"
    /\ \E o \in Reach(SettleInvocation(worker.call, worker.report)) : Do(o) /\ AfterSettle(o)
    /\ UNCHANGED <<signal, retry, stopper, sent>>

Advance ==
    /\ worker.pc = "advance"
    /\ \E o \in Reach(AdvanceLookup(worker.call)) :
        /\ Do(o)
        /\ worker' = CASE o.code = "ok" -> [NoWorker EXCEPT !.pc = "claim", !.call = worker.call + 1]
                       [] o.code = "finished" -> NoWorker
                       [] OTHER -> [worker EXCEPT !.pc = "halt"]
    /\ UNCHANGED <<signal, pending, retry, stopper, sent>>

\* Mutant: the end of the chain is tried again until it is stored.
HaltUntilStored ==
    /\ worker.pc = "halt"
    /\ \E o \in Reach(HaltLookup) :
        /\ Do(o)
        /\ worker' = IF o.code = "ok" THEN NoWorker ELSE worker
    /\ UNCHANGED <<signal, pending, retry, stopper, sent>>

\* halt: end the chain, or retain that it must end.
Halt ==
    /\ worker.pc = "halt"
    /\ \E o \in Reach(HaltLookup) :
        Do(o) /\ EndWorker(IF o.code = "ok" THEN NoSave ELSE HaltSave)
    /\ UNCHANGED <<signal, retry, stopper, sent>>

-----------------------------------------------------------------------------
\* The project under the chain.

\* An author's edit moves the story, a change of disclosure the policy.
Change ==
    /\ ~project.fenced /\ project.epoch + project.policy < EpochLimit
    /\ \/ project' = [project EXCEPT !.epoch = @ + 1]
       \/ project' = [project EXCEPT !.policy = @ + 1]
    /\ UNCHANGED <<row, faults>> /\ UNCHANGED deskVars

Reconnect ==
    /\ project.fenced
    /\ \E opened \in BOOLEAN :
        /\ Fault(~opened)
        /\ project' = [project EXCEPT !.fenced = ~opened, !.connected = opened]
    /\ UNCHANGED row /\ UNCHANGED deskVars

\* The process dies and the project is opened again.
Reopen ==
    /\ row' = Interrupted
    /\ project' = [project EXCEPT !.fenced = FALSE, !.connected = TRUE]
    /\ worker' = NoWorker /\ signal' = FALSE /\ pending' = NoSave
    /\ retry' = "idle" /\ stopper' = FALSE
    /\ UNCHANGED <<faults, sent>>

Init ==
    /\ row = NoRun
    /\ project = [epoch |-> 0, policy |-> 0, fenced |-> FALSE, connected |-> TRUE]
    /\ faults = 0 /\ worker = NoWorker /\ signal = FALSE /\ pending = NoSave
    /\ retry = "idle" /\ stopper = FALSE
    /\ sent = [k \in Invocations |-> 0]

Work == Claim \/ Invoke \/ Send \/ Answer \/ Settle \/ Advance \/ Halt

Next ==
    \/ Start \/ Begin \/ Stop \/ Signal
    \/ RetryRead \/ RetryStore \/ RetryHalt \/ Interrupt
    \/ Work \/ Change \/ Reconnect \/ Reopen

\* The worker thread goes on, and its provider process has a deadline.
Spec == Init /\ [][Next]_vars /\ WF_vars(Work)

-----------------------------------------------------------------------------
\* Properties.

\* A Stop outran the final answer of the first invocation, whose packet is also
\* the one every explanation of an ending is published under.
FirstAnswerOutrun(chain) == chain.status = "stopped" /\ 1 \in Discussions(chain)

\* What the chain leaves behind passes the checks of a backup, with one
\* exception that is exact: "no lookup packet is presented as a final assistant
\* message" (discussion_lookup.rs:1172) fails when, and only when, a Stop outran
\* the final answer of the first invocation, whose packet carries the message
\* of the Stop.  And the chain is never stuck: an ended one has no invocation
\* that may still be called, an active one has a worker or something the author
\* can retry, and with a working disk the retry of what is retained is accepted.
ChainStands ==
    /\ InvocationsValid(row) /\ ResultsValid(row) /\ ReadsValid(row)
    /\ TerminalConsistent(row) <=> ~FirstAnswerOutrun(row)
    /\ row.status \in Terminal => \A k \in DOMAIN row.calls :
        /\ row.calls[k].state # "claimed"
        /\ row.calls[k].state = "prepared" => sent[k] = 0
    /\ row.status \in {"running", "stopping"} => worker # NoWorker \/ pending # NoSave
    /\ (pending.kind = "report" /\ project.connected /\ row.status \in Active) =>
        \E o \in Reach(SettleInvocation(pending.report.ordinal, pending.report)) :
            o.code = "ok" \/ Rejected(o.code)

\* Every paid call is on record before it is made, and made once: the
\* invocation is claimed, every one before it has saved the response that
\* asked for it, and neither a restart, an uncertain write nor a retry calls
\* again.  What a call brought stays: no later step changes a result, or
\* anything of a chain that ended.  And nothing is published after a Stop.
PaidOnRecord ==
    [][/\ \A k \in Invocations : sent'[k] # sent[k] =>
            /\ sent[k] = 0 /\ row.calls[k].state = "claimed"
            /\ \A i \in 1..(k - 1) : row.calls[i].result.parsed = "needs"
       /\ \A k \in DOMAIN row.calls : row.calls[k].result # NoResult =>
            k \in DOMAIN row'.calls /\ row'.calls[k].result = row.calls[k].result
       /\ row.status \in Terminal => row' = row
       /\ row.status = "stopping" => row'.status # "completed"]_vars

\* A chain that was begun ends, or waits for the author's retry.
Settles ==
    row.status \in {"running", "stopping"} ~> (row.status \in Terminal \/ pending # NoSave)

=============================================================================
