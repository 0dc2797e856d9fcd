--------------------------- MODULE DiscussionProofs ---------------------------
(***************************************************************************)
(* Discussion runs, for any number of runs, callers, faults and edits,     *)
(* every provider and any length of output.                                *)
(*                                                                         *)
(* The first part tells what every command of the actor does to a run,     *)
(* whatever its arguments, and from it that the journal of a run tells its *)
(* ending, that a run that ended is never written again, that saved output *)
(* only grows and that a stop is final.                                    *)
(*                                                                         *)
(* The second part puts the run in relation to what the threads of the     *)
(* desktop hold of it: their copies of its status and output, the outcomes *)
(* on their way to it, its registration, its dispatch and the requests     *)
(* that were sent.  It shows that an author request costs at most one      *)
(* provider request, that a claimed run is never abandoned, that a         *)
(* retained outcome can be stored, that a stop reaches the worker, and     *)
(* that receipts and dispatches are stored as the validators ask.          *)
(***************************************************************************)
EXTENDS DiscussionRun, TLAPS

Ids == ({"part", "fail"} \X Nat) \cup
       {<<"stale">>, <<"stop">>, <<"finish">>, <<"stopped">>, <<"provider">>, <<"interrupted">>,
        <<"rejected">>}
Ev == [seq : Nat, id : Ids, kind : {"chunk", "terminal"}, text : Nat]
Rep == [status : {"none", "completed", "stopped", "failed"}, seq : Nat, text : Nat,
        cleanup : {"settled", "unresolved"}, evidence : {"none", "submitted", "delivered"}]
Row == [status : {"absent", "queued", "running", "stopping"} \cup Terminal,
        dispatch : {"pending", "claimed", "delivered"}, epoch : Nat, seq : Nat, out : Nat,
        events : Seq(Ev), replies : Nat, result : Rep]

\* A run as the file may hold it.
Good(row) == row \in Row /\ OneEnding(row)

\* What one command may make of a run.
Keeps(row, next) ==
    /\ Good(next)
    /\ row.status \in Terminal => next = row
    /\ next.out >= row.out
    /\ row.status = "stopping" => next.status \in {"stopping", "stopped", "interrupted"}

\* The absent run is a good run.
LEMMA NoRunGood == Good(NoRun)
  BY DEF Good, NoRun, NoReport, OneEnding, Row, Rep, Terminal

\* A command that is refused, or a reader, leaves the run as it was.
LEMMA KeepsSame == ASSUME NEW row, Good(row) PROVE Keeps(row, row)
  BY DEF Keeps, Good, Row

\* One more event in the journal of a run that has not ended.
LEMMA Journal ==
  ASSUME NEW row, Good(row), row.status \notin Terminal, NEW e \in Ev, e.seq = row.seq + 1
  PROVE  LET es == Append(row.events, e) IN
         /\ es \in Seq(Ev) /\ Len(es) = row.seq + 1
         /\ es[Len(es)] = e
         /\ \A i \in DOMAIN es :
             es[i].seq = i /\ (i # Len(es) => es[i].kind = "chunk")
<1> DEFINE es == Append(row.events, e)
<1>1. row.events \in Seq(Ev) /\ row.seq = Len(row.events) /\ row.seq \in Nat
  BY DEF Good, Row, OneEnding
<1>2. \A i \in DOMAIN row.events : row.events[i].seq = i /\ row.events[i].kind # "terminal"
  BY <1>1 DEF Good, OneEnding
<1>3. \A i \in DOMAIN row.events : row.events[i] \in Ev
  BY <1>1
<1>4. es \in Seq(Ev) /\ Len(es) = Len(row.events) + 1 /\ DOMAIN es = 1..Len(es)
  BY <1>1
<1>5. es[Len(es)] = e
  BY <1>1
<1>6. \A i \in DOMAIN es : i # Len(es) => i \in DOMAIN row.events /\ es[i] = row.events[i]
  BY <1>1
<1>7. \A i \in DOMAIN es : es[i].seq = i /\ (i # Len(es) => es[i].kind = "chunk")
  BY <1>1, <1>2, <1>3, <1>4, <1>5, <1>6 DEF Ev
<1> QED BY <1>1, <1>4, <1>5, <1>7

\* What Recorded leaves alone.
LEMMA RecordedRow ==
  ASSUME NEW row, Good(row), row.status \notin Terminal, NEW id \in Ids,
         NEW kind \in {"chunk", "terminal"}, NEW text \in Nat
  PROVE  LET next == Recorded(row, id, kind, text)
             e == [seq |-> row.seq + 1, id |-> id, kind |-> kind, text |-> text]
         IN  /\ next \in Row /\ e \in Ev
             /\ next.seq = row.seq + 1 /\ next.events = Append(row.events, e)
             /\ next.status = row.status /\ next.out = row.out
             /\ next.replies = row.replies
<1> DEFINE e == [seq |-> row.seq + 1, id |-> id, kind |-> kind, text |-> text]
<1>0. row \in Row BY DEF Good
<1>1. e \in Ev BY <1>0 DEF Ev, Row
<1>2. Append(row.events, e) \in Seq(Ev) BY <1>0, <1>1 DEF Row
<1>3. Recorded(row, id, kind, text)
        = [row EXCEPT !.seq = row.seq + 1, !.events = Append(row.events, e)]
  BY DEF Recorded
<1>4. row.seq + 1 \in Nat BY <1>0 DEF Row
<1> HIDE DEF e
<1>5. [row EXCEPT !.seq = row.seq + 1, !.events = Append(row.events, e)] \in Row
  BY <1>0, <1>2, <1>4 DEF Row
<1>6. LET next == [row EXCEPT !.seq = row.seq + 1, !.events = Append(row.events, e)] IN
        /\ next.seq = row.seq + 1 /\ next.events = Append(row.events, e)
        /\ next.status = row.status /\ next.out = row.out /\ next.replies = row.replies
  BY <1>0 DEF Row
<1> QED BY <1>1, <1>3, <1>5, <1>6 DEF e

\* A chunk keeps the run open.
LEMMA ChunkKeeps ==
  ASSUME NEW row, Good(row), row.status = "running", NEW id \in Ids, NEW n \in Nat
  PROVE  Keeps(row, [Recorded(row, id, "chunk", n) EXCEPT !.out = @ + n])
<1> DEFINE e == [seq |-> row.seq + 1, id |-> id, kind |-> "chunk", text |-> n]
           mid == Recorded(row, id, "chunk", n)
           next == [mid EXCEPT !.out = mid.out + n]
           es == Append(row.events, e)
<1>0. row \in Row BY DEF Good
<1>2. row.status \notin Terminal BY DEF Terminal
<1>1. /\ mid \in Row /\ e \in Ev
      /\ mid.seq = row.seq + 1 /\ mid.events = es
      /\ mid.status = row.status /\ mid.out = row.out /\ mid.replies = row.replies
  BY <1>2, RecordedRow
<1> HIDE DEF mid
<1>3. /\ Len(es) = row.seq + 1
      /\ es[Len(es)] = e
      /\ \A i \in DOMAIN es : es[i].seq = i /\ (i # Len(es) => es[i].kind = "chunk")
  <2>1. e \in Ev /\ e.seq = row.seq + 1 BY <1>1
  <2> HIDE DEF e
  <2> QED BY <1>2, <2>1, Journal
<1>4. /\ next \in Row /\ next.seq = row.seq + 1 /\ next.events = es
      /\ next.status = "running" /\ next.out = row.out + n /\ next.replies = row.replies
  <2> HIDE DEF es, e
  <2>1. mid.out + n \in Nat BY <1>1 DEF Row
  <2>2. next \in Row BY <1>1, <2>1 DEF Row
  <2> QED BY <1>1, <2>2 DEF Row
<1>5. OneEnding(next)
  <2>1. row.replies = 0 BY <1>2 DEF Good, OneEnding
  <2>2. e.kind = "chunk" OBVIOUS
  <2>3. row.seq \in Nat BY <1>0 DEF Row
  <2> HIDE DEF e, es, next
  <2>4. \A i \in DOMAIN es : es[i].kind = "chunk" BY <1>3, <2>2
  <2>5. next.status \notin Terminal BY <1>4 DEF Terminal
  <2>6. Len(es) > 0 => Len(es) \in DOMAIN es
    <3>1. es \in Seq(Ev) BY <1>1, <1>4 DEF Row
    <3> QED BY <3>1, <1>3
  <2> QED BY <1>3, <1>4, <2>1, <2>3, <2>4, <2>5, <2>6 DEF OneEnding
<1>6. Keeps(row, next) BY <1>0, <1>2, <1>4, <1>5 DEF Keeps, Good, Row
<1> QED BY <1>6 DEF mid

\* A terminal event with its message ends the run, once.
LEMMA EndKeeps ==
  ASSUME NEW row, Good(row), row.status \notin Terminal, NEW next \in Row, NEW e \in Ev,
         e.kind = "terminal", e.seq = row.seq + 1,
         next.events = Append(row.events, e), next.seq = row.seq + 1,
         next.status \in Terminal, next.replies = row.replies + 1, next.out >= row.out,
         row.status = "stopping" => next.status \in {"stopped", "interrupted"}
  PROVE  Keeps(row, next)
<1> DEFINE es == Append(row.events, e)
<1>0. row \in Row BY DEF Good
<1>1. /\ es \in Seq(Ev) /\ Len(es) = row.seq + 1
      /\ es[Len(es)] = e
      /\ \A i \in DOMAIN es : es[i].seq = i /\ (i # Len(es) => es[i].kind = "chunk")
  BY Journal
<1>2. row.replies = 0 BY DEF Good, OneEnding
<1>3. row.seq \in Nat BY <1>0 DEF Row
<1>4. OneEnding(next)
  <2>1. next.events = es OBVIOUS
  <2> HIDE DEF es
  <2> QED BY <1>1, <1>2, <1>3, <2>1 DEF OneEnding
<1> QED BY <1>4 DEF Keeps, Good

\* seal_run.
LEMMA SealKeeps ==
  ASSUME NEW row, Good(row), row.status \in Active, NEW s \in Terminal, NEW id \in Ids,
         row.status = "stopping" => s \in {"stopped", "interrupted"}
  PROVE  Keeps(row, SealRun(row, s, id))
<1> DEFINE e == [seq |-> row.seq + 1, id |-> id, kind |-> "terminal", text |-> row.out]
           mid == Recorded(row, id, "terminal", row.out)
           next == [mid EXCEPT !.status = s, !.replies = mid.replies + 1]
<1>0. row \in Row /\ row.status \notin Terminal /\ row.out \in Nat
  BY DEF Good, Row, Active, Terminal
<1>1. /\ mid \in Row /\ e \in Ev
      /\ mid.seq = row.seq + 1 /\ mid.events = Append(row.events, e)
      /\ mid.status = row.status /\ mid.out = row.out /\ mid.replies = row.replies
  BY <1>0, RecordedRow
<1>2. SealRun(row, s, id) = next BY DEF SealRun
<1>3. e.kind = "terminal" /\ e.seq = row.seq + 1 OBVIOUS
<1> HIDE DEF e, mid
<1>4. mid.replies + 1 \in Nat BY <1>1 DEF Row
<1>5. next \in Row BY <1>1, <1>4 DEF Row
<1>6. /\ next.seq = row.seq + 1 /\ next.events = Append(row.events, e)
      /\ next.status = s /\ next.out = row.out /\ next.replies = row.replies + 1
  BY <1>1 DEF Row
<1> HIDE DEF next
<1> QED BY <1>0, <1>1, <1>2, <1>3, <1>5, <1>6, EndKeeps

\* A terminal report with the text it brings.
LEMMA ReportKeeps ==
  ASSUME NEW row, Good(row), row.status \in {"running", "stopping"}, NEW s \in Terminal,
         NEW id \in Ids, NEW text \in Nat, text >= row.out,
         NEW d \in {"pending", "claimed", "delivered"}, NEW result \in Rep,
         row.status = "stopping" => s \in {"stopped", "interrupted"}
  PROVE  LET mid == Recorded(row, id, "terminal", text) IN
         Keeps(row, [mid EXCEPT !.status = s, !.out = text, !.dispatch = d,
                                !.replies = mid.replies + 1, !.result = result])
<1> DEFINE e == [seq |-> row.seq + 1, id |-> id, kind |-> "terminal", text |-> text]
           mid == Recorded(row, id, "terminal", text)
           next == [mid EXCEPT !.status = s, !.out = text, !.dispatch = d,
                               !.replies = mid.replies + 1, !.result = result]
<1>0. row \in Row /\ row.status \notin Terminal /\ row.out \in Nat
  BY DEF Good, Row, Terminal
<1>1. /\ mid \in Row /\ e \in Ev
      /\ mid.seq = row.seq + 1 /\ mid.events = Append(row.events, e)
      /\ mid.status = row.status /\ mid.out = row.out /\ mid.replies = row.replies
  BY <1>0, RecordedRow
<1>3. e.kind = "terminal" /\ e.seq = row.seq + 1 OBVIOUS
<1> HIDE DEF e, mid
<1>4. mid.replies + 1 \in Nat BY <1>1 DEF Row
<1>5. next \in Row BY <1>1, <1>4 DEF Row
<1>6. /\ next.seq = row.seq + 1 /\ next.events = Append(row.events, e)
      /\ next.status = s /\ next.out = text /\ next.replies = row.replies + 1
  BY <1>1 DEF Row
<1>7. Keeps(row, next)
  <2> HIDE DEF next
  <2> QED BY <1>0, <1>1, <1>3, <1>5, <1>6, EndKeeps
<1> QED BY <1>7 DEF mid

\* The same with nothing but the text.
LEMMA TextKeeps ==
  ASSUME NEW row, Good(row), row.status \in {"running", "stopping"}, NEW s \in Terminal,
         NEW id \in Ids, NEW text \in Nat, ~(text < row.out),
         row.status = "stopping" => s \in {"stopped", "interrupted"}
  PROVE  LET mid == Recorded(row, id, "terminal", text) IN
         Keeps(row, [mid EXCEPT !.status = s, !.out = text, !.replies = mid.replies + 1])
<1> DEFINE mid == Recorded(row, id, "terminal", text)
           next == [mid EXCEPT !.status = s, !.out = text, !.replies = mid.replies + 1]
           full == [mid EXCEPT !.status = s, !.out = text, !.dispatch = row.dispatch,
                               !.replies = mid.replies + 1, !.result = row.result]
<1>1. row \in Row /\ row.out \in Nat /\ row.dispatch \in {"pending", "claimed", "delivered"}
      /\ row.result \in Rep
  BY DEF Good, Row
<1>2. text >= row.out BY <1>1
<1>3. Keeps(row, full) BY <1>1, <1>2, ReportKeeps
<1>4. mid \in Row /\ mid.dispatch = row.dispatch /\ mid.result = row.result
  <2>1. row.status \notin Terminal BY DEF Terminal
  <2>2. mid \in Row BY <1>1, <2>1, RecordedRow
  <2> QED BY <1>1, <2>2 DEF Recorded, Row
<1>5. full = next
  <2> HIDE DEF mid
  <2> QED BY <1>4 DEF Row
<1> QED BY <1>3, <1>5

\* A step from one active status to the next, without an event.
LEMMA OpenKeeps ==
  ASSUME NEW row, Good(row), row.status \in Active, NEW s \in Active,
         NEW d \in {"pending", "claimed", "delivered"},
         row.status = "stopping" => s = "stopping"
  PROVE  Keeps(row, [row EXCEPT !.status = s, !.dispatch = d])
<1> DEFINE next == [row EXCEPT !.status = s, !.dispatch = d]
<1>0. row \in Row BY DEF Good
<1>1. next \in Row BY <1>0 DEF Row, Active
<1>2. /\ next.seq = row.seq /\ next.events = row.events /\ next.replies = row.replies
      /\ next.out = row.out /\ next.status = s
  BY <1>0 DEF Row
<1>3. row.status \notin Terminal /\ s \notin Terminal BY DEF Active, Terminal
<1> HIDE DEF next
<1>4. OneEnding(next)
  <2>1. OneEnding(row) BY DEF Good
  <2> QED BY <1>2, <1>3, <2>1 DEF OneEnding
<1>5. Keeps(row, next) BY <1>0, <1>1, <1>2, <1>3, <1>4 DEF Keeps, Good, Row
<1> QED BY <1>5 DEF next

\* The identities that the commands use.
LEMMA IdsAreIds ==
  /\ \A n \in Nat : <<"part", n>> \in Ids /\ <<"fail", n>> \in Ids
  /\ <<"stale">> \in Ids /\ <<"stop">> \in Ids /\ <<"finish">> \in Ids
  /\ <<"stopped">> \in Ids /\ <<"provider">> \in Ids /\ <<"interrupted">> \in Ids
  /\ <<"rejected">> \in Ids
  BY DEF Ids

\* start_discussion queues an absent run and answers any other one.
LEMMA StartKeeps ==
  ASSUME NEW row, Good(row), NEW epoch \in Nat, NEW o \in StartDiscussion(row, epoch)
  PROVE  Keeps(row, o.row)
<1> DEFINE fresh == [NoRun EXCEPT !.status = "queued", !.epoch = epoch]
<1>1. o.row = row \/ (row = NoRun /\ o.row = fresh)
  BY DEF StartDiscussion, Committed
<1>2. Keeps(NoRun, fresh)
  <2>1. NoRun \in Row BY NoRunGood DEF Good
  <2>2. fresh \in Row BY <2>1 DEF Row
  <2>3. fresh.seq = 0 /\ fresh.events = <<>> /\ fresh.replies = 0 /\ fresh.status = "queued"
        /\ fresh.out = 0
    BY <2>1 DEF NoRun, Row
  <2>4. OneEnding(fresh)
    <3> HIDE DEF fresh
    <3> QED BY <2>3 DEF OneEnding, Terminal
  <2> HIDE DEF fresh
  <2> QED BY <2>2, <2>3, <2>4 DEF Keeps, Good, NoRun, Terminal
<1> QED BY <1>1, <1>2, KeepsSame

\* begin_discussion_run claims a queued run or seals it as stale.
LEMMA BeginKeeps ==
  ASSUME NEW row, Good(row), NEW epoch, NEW o \in BeginDiscussionRun(row, epoch)
  PROVE  Keeps(row, o.row)
<1> DEFINE sealed == SealRun(row, "failed", <<"stale">>)
           claimed == [row EXCEPT !.status = "running", !.dispatch = "claimed"]
<1>1. o.row = row \/ (row.status = "queued" /\ o.row \in {sealed, claimed})
  BY DEF BeginDiscussionRun, Committed, Refused
<1>2. row.status = "queued" => Keeps(row, sealed)
  BY SealKeeps, IdsAreIds DEF Active, Terminal
<1>3. row.status = "queued" => Keeps(row, claimed)
  BY OpenKeeps DEF Active
<1> QED BY <1>1, <1>2, <1>3, KeepsSame

\* mark_discussion_delivered changes only the dispatch of a running run.
LEMMA DeliverKeeps ==
  ASSUME NEW row, Good(row), NEW live, NEW o \in MarkDelivered(row, live)
  PROVE  Keeps(row, o.row)
<1> DEFINE next == [row EXCEPT !.dispatch = "delivered"]
<1>1. o.row = row \/ (row.status = "running" /\ o.row = next)
  <2>1. \/ row.status = "running" /\ o \in Committed(row, next, "ok")
        \/ \E code \in {"ProviderResultRequired", "RunStopping", "RunSealed"} : o \in Refused(row, code)
    BY DEF MarkDelivered
  <2> HIDE DEF next
  <2> QED BY <2>1 DEF Committed, Refused
<1>2. row.status = "running" => Keeps(row, next)
  <2>1. next = [row EXCEPT !.status = row.status, !.dispatch = "delivered"]
    BY DEF Good, Row
  <2> QED BY <2>1, OpenKeeps DEF Active
<1> QED BY <1>1, <1>2, KeepsSame

\* append_discussion_output adds a chunk to a running run.
LEMMA AppendKeeps ==
  ASSUME NEW row, Good(row), NEW expected, NEW id \in Ids, NEW n \in Nat,
         NEW o \in AppendOutput(row, expected, id, n)
  PROVE  Keeps(row, o.row)
<1> DEFINE next == [Recorded(row, id, "chunk", n) EXCEPT !.out = @ + n]
<1>1. o.row = row \/ (EnsureStarted(row) = "ok" /\ o.row = next)
  BY DEF AppendOutput, Committed, Refused
<1>2. EnsureStarted(row) = "ok" => row.status = "running" BY DEF EnsureStarted
<1> QED BY <1>1, <1>2, KeepsSame, ChunkKeeps

\* finish_discussion ends a running run with a text that extends its output.
LEMMA FinishKeeps ==
  ASSUME NEW row, Good(row), NEW live, NEW expected, NEW text \in Nat,
         NEW o \in FinishDiscussion(row, live, expected, text)
  PROVE  Keeps(row, o.row)
<1> DEFINE mid == Recorded(row, <<"finish">>, "terminal", text)
           next == [mid EXCEPT !.status = "completed", !.out = text, !.replies = mid.replies + 1]
<1>1. \/ o.row = row
      \/ EnsureStarted(row) = "ok" /\ ~(text < row.out) /\ o.row = next
  BY DEF FinishDiscussion, Committed, Refused
<1>2. EnsureStarted(row) = "ok" => row.status = "running" BY DEF EnsureStarted
<1>4. ASSUME row.status = "running", ~(text < row.out) PROVE Keeps(row, next)
  BY <1>4, TextKeeps, IdsAreIds DEF Terminal
<1> QED BY <1>1, <1>2, <1>4, KeepsSame

\* fail_discussion_run seals a run that is not stopping.
LEMMA FailKeeps ==
  ASSUME NEW row, Good(row), NEW id \in Ids, NEW expected,
         NEW o \in FailDiscussionRun(row, id, expected)
  PROVE  Keeps(row, o.row)
<1> DEFINE next == SealRun(row, "failed", id)
<1>1. \/ o.row = row
      \/ row.status \in Active /\ row.status # "stopping" /\ o.row = next
  BY DEF FailDiscussionRun, Committed, Refused
<1> QED BY <1>1, KeepsSame, SealKeeps DEF Terminal

\* stop_discussion seals a queued run and asks a running one to stop.
LEMMA StopKeeps ==
  ASSUME NEW row, Good(row), NEW o \in StopDiscussion(row)
  PROVE  Keeps(row, o.row)
<1> DEFINE sealed == SealRun(row, "stopped", <<"stop">>)
           asked == [row EXCEPT !.status = "stopping"]
<1>1. \/ o.row = row
      \/ row.status = "queued" /\ o.row = sealed
      \/ row.status = "running" /\ o.row = asked
  <2>1. \/ row.status = "queued" /\ o \in Committed(row, sealed, "ok")
        \/ row.status = "running" /\ o \in Committed(row, asked, "ok")
        \/ o \in Committed(row, row, "ok")
    BY DEF StopDiscussion
  <2> HIDE DEF sealed, asked
  <2> QED BY <2>1 DEF Committed
<1>2. row.status = "queued" => Keeps(row, sealed)
  BY SealKeeps, IdsAreIds DEF Active, Terminal
<1>3. row.status = "running" => Keeps(row, asked)
  <2>1. asked = [row EXCEPT !.status = "stopping", !.dispatch = row.dispatch]
        /\ row.dispatch \in {"pending", "claimed", "delivered"}
    BY DEF Good, Row
  <2> QED BY <2>1, OpenKeeps DEF Active
<1> QED BY <1>1, <1>2, <1>3, KeepsSame

\* settle_discussion_stop ends a stopping run with a text that extends its
\* output.
LEMMA SettleStopKeeps ==
  ASSUME NEW row, Good(row), NEW expected, NEW text \in Nat,
         NEW o \in SettleStop(row, expected, text)
  PROVE  Keeps(row, o.row)
<1> DEFINE mid == Recorded(row, <<"stopped">>, "terminal", text)
           next == [mid EXCEPT !.status = "stopped", !.out = text, !.replies = mid.replies + 1]
<1>1. o.row = row \/ (row.status = "stopping" /\ ~(text < row.out) /\ o.row = next)
  BY DEF SettleStop, Committed, Refused
<1>2. ASSUME row.status = "stopping", ~(text < row.out) PROVE Keeps(row, next)
  BY <1>2, TextKeeps, IdsAreIds DEF Terminal
<1> QED BY <1>1, <1>2, KeepsSame

\* settle_provider_discussion ends a claimed run as the report and a stop that
\* came first decide.
LEMMA SettleProviderKeeps ==
  ASSUME NEW row, Good(row), NEW stands, NEW limit, NEW report \in Rep,
         NEW o \in SettleProvider(row, stands, limit, report)
  PROVE  Keeps(row, o.row)
<1> DEFINE mid == Recorded(row, <<"provider">>, "terminal", report.text)
           s == ProviderStatus(row.status, report)
           d == IF report.evidence = "delivered" THEN "delivered" ELSE mid.dispatch
           next == [mid EXCEPT !.status = s, !.out = report.text, !.dispatch = d,
                               !.replies = mid.replies + 1, !.result = report]
<1>1. \/ o.row = row
      \/ /\ row.status \in {"running", "stopping"} /\ ~(report.text < row.out)
         /\ o.row = next
  BY DEF SettleProvider, Committed, Refused
<1>2. ASSUME row.status \in {"running", "stopping"}, ~(report.text < row.out)
      PROVE  Keeps(row, next)
  <2>1. row \in Row /\ row.out \in Nat /\ report.text \in Nat
        /\ row.dispatch \in {"pending", "claimed", "delivered"}
    BY DEF Good, Row, Rep
  <2>2. report.text >= row.out BY <1>2, <2>1
  <2>3. s \in Terminal /\ (row.status = "stopping" => s \in {"stopped", "interrupted"})
    BY DEF ProviderStatus, Terminal
  <2>4. row.status \notin Terminal BY <1>2 DEF Terminal
  <2>5. mid.dispatch = row.dispatch BY <2>1 DEF Recorded, Row
  <2>6. d \in {"pending", "claimed", "delivered"} BY <2>1, <2>5
  <2> HIDE DEF s, d
  <2> QED BY <1>2, <2>1, <2>2, <2>3, <2>6, ReportKeeps, IdsAreIds
<1> QED BY <1>1, <1>2, KeepsSame

\* interrupt_discussion at the end of the application, and
\* recover_interrupted_discussions at the next opening, seal an active run.
LEMMA InterruptKeeps ==
  ASSUME NEW row, Good(row)
  PROVE  /\ \A o \in InterruptDiscussion(row) : Keeps(row, o.row)
         /\ Keeps(row, RecoverInterrupted(row))
<1> DEFINE sealed == SealRun(row, "interrupted", <<"interrupted">>)
<1>1. \A o \in InterruptDiscussion(row) :
        o.row = row \/ (row.status \in Active /\ o.row = sealed)
  BY DEF InterruptDiscussion, Committed
<1>2. \/ RecoverInterrupted(row) = row
      \/ row.status \in Active /\ RecoverInterrupted(row) = sealed
  BY DEF RecoverInterrupted
<1>3. row.status \in Active => Keeps(row, sealed)
  BY SealKeeps, IdsAreIds DEF Terminal
<1> QED BY <1>1, <1>2, <1>3, KeepsSame

-----------------------------------------------------------------------------
(***************************************************************************)
(* The desktop around the rows.  Whatever a thread holds of a run is well  *)
(* typed, so that every command it sends has arguments of the kind that    *)
(* the lemmas above are about.                                             *)
(***************************************************************************)

Statuses == {"absent", "queued", "running", "stopping"} \cup Terminal
HeldT == [status : Statuses, seq : Nat, out : Nat]
SaveT == [kind : {"none", "provider", "complete", "fail", "stop"}, report : Rep]
Places == {"none", "spawned", "starting", "sending", "streaming", "reread", "save",
           "reject", "rejected", "http", "claiming", "submitting", "turning", "flush",
           "deliver", "write", "store", "storeAgain"}
WorkerT == [pc : Places, held : HeldT, text : Nat, broken : BOOLEAN, limited : BOOLEAN,
            save : SaveT]
CallT == {NoCall} \cup [pc : {"register", "claim"}, run : Runs, fresh : BOOLEAN]

RowsOK == rows \in [Runs -> Row] /\ \A r \in Runs : Good(rows[r])
ProjectOK ==
    project \in [epoch : Nat, fenced : BOOLEAN, connected : BOOLEAN, binding : [Runs -> Bindings]]
DeskOK ==
    /\ callers \in [Callers -> CallT]
    /\ worker \in [Runs -> WorkerT]
    /\ pending \in [Runs -> SaveT]
    /\ retry \in [Runs -> HeldT]

\* The inductive invariant.
WellKept == RowsOK /\ ProjectOK /\ DeskOK

\* What a step does to the rows.
AllKeep == \A r \in Runs : Keeps(rows[r], rows'[r])

\* The constants of the desktop have their types.
LEMMA Typed ==
  /\ NoReport \in Rep /\ NoSave \in SaveT /\ FailSave \in SaveT
  /\ [FailSave EXCEPT !.kind = "stop"] \in SaveT
  /\ NoHeld \in HeldT /\ NoWorker \in WorkerT /\ NoCall \in CallT
  /\ Unsent \in SaveT /\ UnsentStopped \in SaveT
<1>1. NoReport \in Rep BY DEF NoReport, Rep
<1>2. NoSave \in SaveT /\ FailSave \in SaveT BY <1>1 DEF NoSave, FailSave, SaveT
<1>3. [FailSave EXCEPT !.kind = "stop"] \in SaveT BY <1>2 DEF SaveT
<1>4. NoHeld \in HeldT BY DEF NoHeld, HeldT, Statuses
<1>5. NoWorker \in WorkerT BY <1>2, <1>4 DEF NoWorker, WorkerT, Places
<1>6. Unsent \in SaveT /\ UnsentStopped \in SaveT
  BY DEF Unsent, UnsentStopped, ProviderSave, SaveT, Rep
<1> QED BY <1>1, <1>2, <1>3, <1>4, <1>5, <1>6 DEF CallT

\* A provider report of any text is a typed outcome.
LEMMA ReportTyped ==
  ASSUME NEW status \in {"completed", "stopped", "failed"}, NEW text \in Nat,
         NEW cleanup \in {"settled", "unresolved"},
         NEW evidence \in {"none", "submitted", "delivered"}
  PROVE  ProviderSave(status, text, cleanup, evidence) \in SaveT
  BY DEF ProviderSave, SaveT, Rep

\* So is the worker of a claimed run, whatever its binding.
LEMMA SpawnTyped ==
  ASSUME NEW r, NEW row, HeldOf(row) \in HeldT, NEW fresh
  PROVE  \A w \in Spawned(r, row, fresh) : w \in WorkerT
<1> DEFINE at(pc, save) == [NoWorker EXCEPT !.pc = pc, !.held = HeldOf(row), !.save = save]
<1>1. \A pc \in Places, save \in SaveT : at(pc, save) \in WorkerT
  BY Typed DEF WorkerT
<1>2. ASSUME NEW w \in Spawned(r, row, fresh)
      PROVE  \E pc \in {"deliver", "store", "reject", "spawned", "http", "save", "reread"},
                save \in {NoSave, FailSave, Unsent} : w = at(pc, save)
  BY <1>2 DEF Spawned, Unstarted
<1> HIDE DEF at
<1> QED BY <1>1, <1>2, Typed DEF Places

\* What a thread reads of a run is typed.
LEMMA ReadTyped == ASSUME NEW row \in Row PROVE HeldOf(row) \in HeldT
  BY DEF HeldOf, HeldT, Statuses, Row

\* A command that keeps the run still keeps it when it fails before its COMMIT
\* or finds no connection.
LEMMA ReachKeeps ==
  ASSUME NEW r \in Runs, RowsOK, NEW outcomes, \A p \in outcomes : Keeps(rows[r], p.row),
         NEW o \in Reach(r, outcomes)
  PROVE  Keeps(rows[r], o.row)
  BY KeepsSame DEF Reach, Reached, Refused, RowsOK

\* PendingSave::attempt sends one command, whose arguments are typed, and that
\* command keeps the run.
LEMMA AttemptKeeps ==
  ASSUME NEW r \in Runs, RowsOK, NEW save \in SaveT, NEW held \in HeldT,
         NEW o \in Attempt(r, save, held)
  PROVE  Keeps(rows[r], o.row)
<1> DEFINE report == [save.report EXCEPT !.seq = held.seq]
<1>0. Good(rows[r]) BY DEF RowsOK
<1>1. save.report \in Rep /\ held.seq \in Nat /\ held.out \in Nat /\ save.report.text \in Nat
  BY DEF SaveT, HeldT, Rep
<1>2. report \in Rep BY <1>1 DEF Rep
<1> HIDE DEF report
<1>3. \A stands : \A p \in SettleProvider(rows[r], stands, MaxText, report) :
        Keeps(rows[r], p.row)
  BY <1>0, <1>2, SettleProviderKeeps
<1>4. \A p \in SettleStop(rows[r], held.seq, held.out) : Keeps(rows[r], p.row)
  BY <1>0, <1>1, SettleStopKeeps
<1>5. \A p \in FinishDiscussion(rows[r], r \in Live, save.report.seq, save.report.text) :
        Keeps(rows[r], p.row)
  BY <1>0, <1>1, FinishKeeps
<1>6. \A p \in FailDiscussionRun(rows[r], <<"fail", held.seq>>, held.seq) :
        Keeps(rows[r], p.row)
  BY <1>0, <1>1, FailKeeps, IdsAreIds
<1>7. \/ o.row = rows[r]
      \/ o \in Reach(r, SettleProvider(rows[r], Stands(r, save.report), MaxText, report))
      \/ o \in Reach(r, SettleStop(rows[r], held.seq, held.out))
      \/ o \in Reach(r, FinishDiscussion(rows[r], r \in Live, save.report.seq, save.report.text))
      \/ o \in Reach(r, FailDiscussionRun(rows[r], <<"fail", held.seq>>, held.seq))
  BY DEF Attempt, Refused, report
<1> QED BY <1>0, <1>3, <1>4, <1>5, <1>6, <1>7, ReachKeeps, KeepsSame

\* Serving a command that keeps its run keeps every run.
LEMMA DoKeeps ==
  ASSUME NEW r \in Runs, RowsOK, ProjectOK, NEW o, Keeps(rows[r], o.row), Do(r, o)
  PROVE  RowsOK' /\ ProjectOK' /\ AllKeep
<1>1. rows' = [rows EXCEPT ![r] = o.row] BY DEF Do
<1>2. o.row \in Row /\ Good(o.row) BY DEF Keeps, Good
<1>3. RowsOK' BY <1>1, <1>2 DEF RowsOK
<1>4. AllKeep BY <1>1, KeepsSame DEF AllKeep, RowsOK
<1>5. ProjectOK' BY DEF Do, Answer, ProjectOK
<1> QED BY <1>3, <1>4, <1>5

\* A step that leaves the actor alone keeps every run.
LEMMA RestKeeps ==
  ASSUME RowsOK, rows' = rows PROVE RowsOK' /\ AllKeep
  BY KeepsSame DEF RowsOK, AllKeep

\* The author's threads: starting, registering and claiming.
LEMMA CallerSteps ==
  ASSUME WellKept, NEW c \in Callers
  PROVE  /\ \A r \in Runs : Start(c, r) => WellKept' /\ AllKeep
         /\ Register(c) => WellKept' /\ AllKeep
         /\ Claim(c) => WellKept' /\ AllKeep
<1>0. RowsOK /\ ProjectOK /\ DeskOK BY DEF WellKept
<1>1. ASSUME NEW r \in Runs, Start(c, r) PROVE WellKept' /\ AllKeep
  <2>1. PICK o \in Reach(r, StartDiscussion(rows[r], project.epoch)), fresh \in BOOLEAN :
          /\ Do(r, o)
          /\ callers' = IF o.code # "ok" \/ o.row.status # "queued" THEN callers
                        ELSE [callers EXCEPT ![c] =
                              [pc |-> IF r \in Live THEN "register" ELSE "claim", run |-> r,
                               fresh |-> fresh]]
    BY <1>1 DEF Start
  <2>2. \A p \in StartDiscussion(rows[r], project.epoch) : Keeps(rows[r], p.row)
    BY <1>0, StartKeeps DEF RowsOK, ProjectOK
  <2>3. RowsOK' /\ ProjectOK' /\ AllKeep BY <1>0, <2>1, <2>2, ReachKeeps, DoKeeps
  <2>4. callers' \in [Callers -> CallT]
    <3>1. [pc |-> IF r \in Live THEN "register" ELSE "claim", run |-> r, fresh |-> fresh]
            \in CallT
      BY DEF CallT
    <3> QED BY <1>0, <2>1, <3>1 DEF DeskOK
  <2>5. UNCHANGED <<worker, pending, retry>> BY <1>1 DEF Start
  <2> QED BY <1>0, <2>3, <2>4, <2>5 DEF WellKept, DeskOK
<1>2. ASSUME Register(c) PROVE WellKept' /\ AllKeep
  <2>1. UNCHANGED <<rows, project, worker, pending, retry>>
    BY <1>2 DEF Register, actorVars
  <2>2. callers' \in [Callers -> CallT]
    <3>1. callers[c] \in [pc : {"register", "claim"}, run : Runs, fresh : BOOLEAN]
      BY <1>0, <1>2 DEF Register, DeskOK, CallT, NoCall
    <3>2. [callers[c] EXCEPT !.pc = "claim"] \in CallT BY <3>1 DEF CallT
    <3>3. callers' = [callers EXCEPT ![c] = NoCall] \/ callers' = [callers EXCEPT ![c].pc = "claim"]
      BY <1>2 DEF Register
    <3> QED BY <1>0, <3>2, <3>3, Typed DEF DeskOK
  <2> QED BY <1>0, <2>1, <2>2, RestKeeps DEF WellKept, ProjectOK, DeskOK
<1>3. ASSUME Claim(c) PROVE WellKept' /\ AllKeep
  <2> DEFINE r == callers[c].run
  <2>1. r \in Runs BY <1>0, <1>3 DEF Claim, DeskOK, CallT, NoCall
  <2>2. callers' \in [Callers -> CallT] /\ retry' = retry
    BY <1>0, <1>3, Typed DEF Claim, DeskOK
  <2>3. CASE UNCHANGED <<rows, project, worker, pending>>
    BY <1>0, <2>2, <2>3, RestKeeps DEF WellKept, ProjectOK, DeskOK
  <2>4. CASE \E o \in Reach(r, BeginDiscussionRun(rows[r], project.epoch)) :
             \E next \in Claimed(r, o, callers[c].fresh) :
                /\ Do(r, o)
                /\ worker' = [worker EXCEPT ![r] = next.worker]
                /\ pending' = [pending EXCEPT ![r] = next.save]
    <3>0. PICK o \in Reach(r, BeginDiscussionRun(rows[r], project.epoch)) :
             \E next \in Claimed(r, o, callers[c].fresh) :
                /\ Do(r, o)
                /\ worker' = [worker EXCEPT ![r] = next.worker]
                /\ pending' = [pending EXCEPT ![r] = next.save]
      BY <2>4
    <3>1. PICK next \in Claimed(r, o, callers[c].fresh) :
                /\ Do(r, o)
                /\ worker' = [worker EXCEPT ![r] = next.worker]
                /\ pending' = [pending EXCEPT ![r] = next.save]
      BY <3>0
    <3> HIDE DEF r
    <3>2. \A p \in BeginDiscussionRun(rows[r], project.epoch) : Keeps(rows[r], p.row)
      BY <1>0, <2>1, BeginKeeps DEF RowsOK
    <3>3. Keeps(rows[r], o.row) BY <1>0, <2>1, <3>2, ReachKeeps
    <3>4. RowsOK' /\ ProjectOK' /\ AllKeep BY <1>0, <2>1, <3>1, <3>3, DoKeeps
    <3>5. \A w \in Spawned(r, o.row, callers[c].fresh) : w \in WorkerT
      <4>1. HeldOf(o.row) \in HeldT BY <3>3, ReadTyped DEF Keeps, Good
      <4> QED BY <4>1, SpawnTyped
    <3>6. next.worker \in WorkerT /\ next.save \in SaveT
      BY <1>0, <2>1, <3>5, Typed DEF Claimed, DeskOK
    <3> QED BY <1>0, <2>1, <2>2, <3>1, <3>4, <3>6 DEF WellKept, DeskOK
  <2> QED BY <1>3, <2>3, <2>4 DEF Claim, actorVars
<1> QED BY <1>1, <1>2, <1>3

\* The author's other commands: stop, retry and the close of the application.
LEMMA AuthorSteps ==
  ASSUME WellKept, NEW r \in Runs,
         Stop(r) \/ Signal(r) \/ RetryRead(r) \/ RetryStore(r) \/ Interrupt(r)
  PROVE  WellKept' /\ AllKeep
<1>0. RowsOK /\ ProjectOK /\ DeskOK BY DEF WellKept
<1>1. CASE Stop(r)
  <2>1. PICK o \in Reach(r, StopDiscussion(rows[r])) : Do(r, o) BY <1>1 DEF Stop
  <2>2. \A p \in StopDiscussion(rows[r]) : Keeps(rows[r], p.row)
    BY <1>0, StopKeeps DEF RowsOK
  <2>3. RowsOK' /\ ProjectOK' /\ AllKeep BY <1>0, <2>1, <2>2, ReachKeeps, DoKeeps
  <2>4. UNCHANGED <<callers, worker, pending, retry>> BY <1>1 DEF Stop
  <2> QED BY <1>0, <2>3, <2>4 DEF WellKept, DeskOK
<1>2. CASE Signal(r)
  BY <1>0, <1>2, RestKeeps DEF Signal, WellKept, ProjectOK, DeskOK, actorVars
<1>3. CASE RetryRead(r)
  <2>1. UNCHANGED <<rows, project, callers, worker, pending>>
    BY <1>3 DEF RetryRead, actorVars
  <2>2. retry' \in [Runs -> HeldT]
    BY <1>0, <1>3, ReadTyped DEF RetryRead, DeskOK, RowsOK
  <2> QED BY <1>0, <2>1, <2>2, RestKeeps DEF WellKept, ProjectOK, DeskOK
<1>4. CASE RetryStore(r)
  <2>1. UNCHANGED <<callers, worker>> /\ retry' \in [Runs -> HeldT]
    BY <1>0, <1>4, Typed DEF RetryStore, DeskOK
  <2>2. CASE UNCHANGED <<rows, project, pending>>
    BY <1>0, <2>1, <2>2, RestKeeps DEF WellKept, ProjectOK, DeskOK
  <2>3. CASE \E o \in Attempt(r, pending[r], retry[r]) :
               /\ Do(r, o)
               /\ pending' = IF o.code = "ok" THEN [pending EXCEPT ![r] = NoSave] ELSE pending
    <3>1. PICK o \in Attempt(r, pending[r], retry[r]) :
               /\ Do(r, o)
               /\ pending' = IF o.code = "ok" THEN [pending EXCEPT ![r] = NoSave] ELSE pending
      BY <2>3
    <3>2. RowsOK' /\ ProjectOK' /\ AllKeep
      BY <1>0, <3>1, AttemptKeeps, DoKeeps DEF DeskOK
    <3>3. pending' \in [Runs -> SaveT] BY <1>0, <3>1, Typed DEF DeskOK
    <3> QED BY <1>0, <2>1, <3>2, <3>3 DEF WellKept, DeskOK
  <2> QED BY <1>4, <2>2, <2>3 DEF RetryStore, actorVars
<1>5. CASE Interrupt(r)
  <2>1. PICK o \in Reach(r, InterruptDiscussion(rows[r])) : Do(r, o) BY <1>5 DEF Interrupt
  <2>2. \A p \in InterruptDiscussion(rows[r]) : Keeps(rows[r], p.row)
    BY <1>0, InterruptKeeps DEF RowsOK
  <2>3. RowsOK' /\ ProjectOK' /\ AllKeep BY <1>0, <2>1, <2>2, ReachKeeps, DoKeeps
  <2>4. UNCHANGED <<callers, worker, pending, retry>> BY <1>5 DEF Interrupt, deskVars
  <2> QED BY <1>0, <2>3, <2>4 DEF WellKept, DeskOK
<1> QED BY <1>1, <1>2, <1>3, <1>4, <1>5

\* A worker that goes on to save a typed outcome is typed.
LEMMA ToSaveTyped ==
  ASSUME DeskOK, NEW r \in Runs, NEW save \in SaveT, ToSave(r, save)
  PROVE  worker' \in [Runs -> WorkerT] /\ pending' \in [Runs -> SaveT]
<1>1. worker[r] \in WorkerT BY DEF DeskOK
<1>2. \A pc \in {"reread", "save"} : [worker[r] EXCEPT !.pc = pc, !.save = save] \in WorkerT
  BY <1>1 DEF WorkerT, Places
<1> QED BY <1>2 DEF ToSave, Step, DeskOK

\* So is one that has sent nothing.
LEMMA ToUnsentTyped ==
  ASSUME DeskOK, NEW r \in Runs, ToUnsent(r)
  PROVE  worker' \in [Runs -> WorkerT] /\ pending' \in [Runs -> SaveT]
<1>1. worker[r] \in WorkerT BY DEF DeskOK
<1>2. [worker[r] EXCEPT !.pc = "reject"] \in WorkerT BY <1>1 DEF WorkerT, Places
<1>3. CASE ToSave(r, Unsent) BY <1>3, Typed, ToSaveTyped
<1>4. CASE Step(r, [worker[r] EXCEPT !.pc = "reject"]) /\ UNCHANGED <<registry, pending>>
  BY <1>2, <1>4 DEF Step, DeskOK
<1> QED BY <1>3, <1>4 DEF ToUnsent

\* A worker that ends leaves a typed outcome, or none.
LEMMA EndTyped ==
  ASSUME DeskOK, NEW r \in Runs, NEW kept \in SaveT, End(r, kept)
  PROVE  worker' \in [Runs -> WorkerT] /\ pending' \in [Runs -> SaveT]
  BY Typed DEF End, Step, DeskOK

\* A worker at another place, with another copy of the run or more text.
LEMMA StepTyped ==
  ASSUME DeskOK, NEW r \in Runs, NEW w \in WorkerT, Step(r, w)
  PROVE  worker' \in [Runs -> WorkerT]
  BY DEF Step, DeskOK

\* record_worker_failure leaves a typed worker.
LEMMA FailedTyped ==
  ASSUME NEW w \in WorkerT, NEW code PROVE Failed(w, code) \in WorkerT
<1>1. [w.held EXCEPT !.status = "stopping"] \in HeldT BY DEF WorkerT, HeldT, Statuses
<1>2. [w EXCEPT !.pc = "store", !.held = [w.held EXCEPT !.status = "stopping"],
                !.save = [FailSave EXCEPT !.kind = "stop"]] \in WorkerT
  BY <1>1, Typed DEF WorkerT, Places
<1>3. [w EXCEPT !.pc = "store", !.save = FailSave] \in WorkerT
  BY Typed DEF WorkerT, Places
<1> QED BY <1>2, <1>3, Typed DEF Failed

\* A result cut at the limit is a typed outcome.
LEMMA ResultTyped ==
  ASSUME NEW w, NEW status \in {"completed", "stopped", "failed"}, NEW final \in Nat,
         NEW cleanup \in {"settled", "unresolved"},
         NEW evidence \in {"none", "submitted", "delivered"}
  PROVE  ResultOf(w, status, final, cleanup, evidence) \in SaveT
  BY ReportTyped, BoundsAssumption DEF ResultOf

\* The steps of a live worker that send nothing to the actor.
LEMMA StreamSteps ==
  ASSUME WellKept, NEW r \in Runs,
         \/ Check(r) \/ StartBound(r) \/ Send(r) \/ DeltaUnsaved(r) \/ Finished(r)
         \/ StreamLost(r) \/ Reread(r) \/ Rejected(r) \/ HttpSend(r) \/ HttpFinished(r)
  PROVE  WellKept' /\ AllKeep
<1>0. RowsOK /\ ProjectOK /\ DeskOK /\ worker[r] \in WorkerT BY DEF WellKept, DeskOK
<1>1. UNCHANGED <<rows, project, callers, retry>>
  BY DEF Check, StartBound, Send, DeltaUnsaved, Finished, StreamLost, Reread, Rejected,
         HttpSend, HttpFinished, actorVars
<1>2. RowsOK' /\ ProjectOK' /\ AllKeep BY <1>0, <1>1, RestKeeps DEF ProjectOK
<1>3. worker' \in [Runs -> WorkerT] /\ pending' \in [Runs -> SaveT]
  <2>1. CASE Check(r)
    <3> DEFINE w == [worker[r] EXCEPT !.pc = "starting", !.held = HeldOf(rows[r])]
    <3>1. w \in WorkerT BY <1>0, ReadTyped DEF RowsOK, WorkerT, Places
    <3>2. \/ ToUnsent(r) \/ End(r, NoSave) \/ ToSave(r, UnsentStopped)
          \/ Step(r, w) /\ UNCHANGED pending
      BY <2>1 DEF Check
    <3> HIDE DEF w
    <3> QED BY <1>0, <3>1, <3>2, ToUnsentTyped, ToSaveTyped, EndTyped, StepTyped, Typed
            DEF DeskOK
  <2>2. CASE StartBound(r)
    <3> DEFINE w == [worker[r] EXCEPT !.pc = "sending"]
    <3>1. w \in WorkerT BY <1>0 DEF WorkerT, Places
    <3>2. \/ ToUnsent(r) \/ ToSave(r, UnsentStopped)
          \/ Step(r, w) /\ UNCHANGED pending
      BY <2>2 DEF StartBound
    <3> HIDE DEF w
    <3> QED BY <1>0, <3>1, <3>2, ToUnsentTyped, ToSaveTyped, StepTyped, Typed DEF DeskOK
  <2>3. CASE Send(r)
    <3> DEFINE w == [worker[r] EXCEPT !.pc = "streaming"]
    <3>1. w \in WorkerT BY <1>0 DEF WorkerT, Places
    <3>2. ToSave(r, Unsent) \/ (Step(r, w) /\ UNCHANGED pending)
      BY <2>3 DEF Send
    <3> HIDE DEF w
    <3> QED BY <1>0, <3>1, <3>2, ToSaveTyped, StepTyped, Typed DEF DeskOK
  <2>4. CASE DeltaUnsaved(r)
    <3> DEFINE w1 == [worker[r] EXCEPT !.limited = TRUE]
               w2 == [worker[r] EXCEPT !.text = worker[r].text + 1]
    <3>1. w1 \in WorkerT BY <1>0 DEF WorkerT
    <3>2. w2 \in WorkerT BY <1>0 DEF WorkerT
    <3>3. (Step(r, w1) \/ Step(r, w2)) /\ UNCHANGED pending BY <2>4 DEF DeltaUnsaved
    <3> HIDE DEF w1, w2
    <3> QED BY <1>0, <3>1, <3>2, <3>3, StepTyped DEF DeskOK
  <2>5. CASE Finished(r)
    <3>1. PICK status \in {"completed", "stopped", "failed"},
               final \in worker[r].text..(MaxText + 1), cleanup \in {"settled", "unresolved"},
               confirmed \in BOOLEAN, evidence \in {"none", "delivered"} :
            LET save == ResultOf(worker[r], Classified(Bound(r), status, confirmed), final,
                                 cleanup, evidence)
            IN  IF worker[r].broken THEN End(r, save) ELSE ToSave(r, save)
      BY <2>5 DEF Finished
    <3>2. final \in Nat BY <1>0, BoundsAssumption DEF WorkerT
    <3>3. ResultOf(worker[r], Classified(Bound(r), status, confirmed), final, cleanup, evidence)
            \in SaveT
      <4>1. Classified(Bound(r), status, confirmed) \in {"completed", "stopped", "failed"}
        BY DEF Classified
      <4> QED BY <3>2, <4>1, ResultTyped
    <3> QED BY <1>0, <3>1, <3>3, ToSaveTyped, EndTyped
  <2>6. CASE StreamLost(r)
    <3>1. ProviderSave("failed", worker[r].text, "unresolved", "none") \in SaveT
      BY <1>0, ReportTyped DEF WorkerT
    <3> QED BY <1>0, <2>6, <3>1, ToSaveTyped DEF StreamLost
  <2>7. CASE Reread(r)
    <3>1. PICK read \in BOOLEAN :
            Step(r, [worker[r] EXCEPT !.pc = "save",
                                      !.held = IF read THEN HeldOf(rows[r]) ELSE worker[r].held])
      BY <2>7 DEF Reread
    <3> DEFINE w == [worker[r] EXCEPT !.pc = "save",
                                      !.held = IF read THEN HeldOf(rows[r]) ELSE worker[r].held]
    <3>2. w \in WorkerT BY <1>0, ReadTyped DEF RowsOK, WorkerT, Places
    <3>3. pending' = pending BY <2>7 DEF Reread
    <3> HIDE DEF w
    <3> QED BY <1>0, <3>1, <3>2, <3>3, StepTyped DEF DeskOK, w
  <2>8. CASE Rejected(r)
    <3> DEFINE w == [worker[r] EXCEPT !.pc = "save", !.held = HeldOf(rows[r]), !.save = FailSave]
    <3>1. w \in WorkerT BY <1>0, ReadTyped, Typed DEF RowsOK, WorkerT, Places
    <3>2. (Step(r, w) /\ UNCHANGED pending) \/ End(r, FailSave) BY <2>8 DEF Rejected
    <3> HIDE DEF w
    <3> QED BY <1>0, <3>1, <3>2, EndTyped, StepTyped, Typed DEF DeskOK
  <2>9. CASE HttpSend(r)
    <3> DEFINE w == [worker[r] EXCEPT !.pc = "streaming"]
    <3>1. w \in WorkerT BY <1>0 DEF WorkerT, Places
    <3>2. \/ \E save \in {FailSave, Unsent, UnsentStopped} : ToSave(r, save)
          \/ Step(r, w) /\ UNCHANGED pending
      BY <2>9 DEF HttpSend
    <3> HIDE DEF w
    <3> QED BY <1>0, <3>1, <3>2, ToSaveTyped, StepTyped, Typed DEF DeskOK
  <2>10. CASE HttpFinished(r)
    <3>1. PICK status \in {"completed", "stopped", "failed"},
               final \in worker[r].text..(MaxText + 1), evidence \in {"submitted", "delivered"} :
            ToSave(r, HttpResult(worker[r], status, final, evidence))
      BY <2>10 DEF HttpFinished
    <3>2. final \in Nat /\ MaxText \in Nat BY <1>0, BoundsAssumption DEF WorkerT
    <3>3. HttpResult(worker[r], status, final, evidence) \in SaveT
      BY <3>2, ReportTyped DEF HttpResult
    <3> QED BY <1>0, <3>1, <3>3, ToSaveTyped
  <2> QED BY <2>1, <2>2, <2>3, <2>4, <2>5, <2>6, <2>7, <2>8, <2>9, <2>10
<1> QED BY <1>0, <1>1, <1>2, <1>3 DEF WellKept, DeskOK

\* The steps of the app server's worker that write no row of discussion_runs;
\* two of them write the dispatch of the run.
LEMMA TurnSteps ==
  ASSUME WellKept, NEW r \in Runs,
         \/ StartThread(r) \/ ClaimTurn(r) \/ SubmitTurn(r) \/ TurnAnswered(r)
         \/ AcknowledgeHook(r) \/ TurnFinished(r) \/ TurnLost(r)
  PROVE  WellKept' /\ AllKeep
<1>0. /\ RowsOK /\ ProjectOK /\ DeskOK /\ worker[r] \in WorkerT /\ worker[r].text \in Nat
      /\ worker[r].save \in SaveT
  BY DEF WellKept, DeskOK, WorkerT
<1>1. UNCHANGED <<rows, callers, retry>>
  BY DEF StartThread, ClaimTurn, SubmitTurn, TurnAnswered, AcknowledgeHook, TurnFinished,
         TurnLost, actorVars
<1>2. ProjectOK'
  <2>1. project' = project \/ \E code : Answer(code)
    BY DEF StartThread, ClaimTurn, SubmitTurn, TurnAnswered, AcknowledgeHook, TurnFinished,
           TurnLost, actorVars
  <2> QED BY <1>0, <2>1 DEF Answer, ProjectOK
<1>e. ASSUME NEW status \in {"completed", "stopped", "failed"},
             NEW cleanup \in {"settled", "unresolved"},
             NEW evidence \in {"none", "submitted", "delivered"},
             AppServerEnds(r, status, cleanup, evidence)
      PROVE  worker' \in [Runs -> WorkerT] /\ pending' \in [Runs -> SaveT]
  BY <1>0, <1>e, ReportTyped, ToSaveTyped DEF AppServerEnds
<1>p. \A pc \in Places : [worker[r] EXCEPT !.pc = pc] \in WorkerT BY <1>0 DEF WorkerT
<1>g. ASSUME NEW pc \in Places, Step(r, [worker[r] EXCEPT !.pc = pc]), UNCHANGED pending
      PROVE  worker' \in [Runs -> WorkerT] /\ pending' \in [Runs -> SaveT]
  BY <1>0, <1>p, <1>g, StepTyped DEF DeskOK
<1>c. ASSUME NEW code, AfterClaim(r, code)
      PROVE  worker' \in [Runs -> WorkerT] /\ pending' \in [Runs -> SaveT]
  <2>1. \/ UNCHANGED <<worker, pending>>
        \/ AppServerEnds(r, "stopped", "settled", "none")
        \/ AppServerEnds(r, "failed", "unresolved", "submitted")
        \/ AppServerEnds(r, "failed", "settled", "none")
        \/ Step(r, [worker[r] EXCEPT !.pc = "submitting"]) /\ UNCHANGED pending
    BY <1>c DEF AfterClaim
  <2>2. CASE UNCHANGED <<worker, pending>> BY <1>0, <2>2 DEF DeskOK
  <2>3. CASE Step(r, [worker[r] EXCEPT !.pc = "submitting"]) /\ UNCHANGED pending
    BY <1>g, <2>3 DEF Places
  <2> QED BY <1>e, <2>1, <2>2, <2>3
<1>3. worker' \in [Runs -> WorkerT] /\ pending' \in [Runs -> SaveT]
  <2>1. CASE StartThread(r)
    <3>1. \/ ToSave(r, Unsent)
          \/ AppServerEnds(r, "stopped", "settled", "none")
          \/ AppServerEnds(r, "failed", "unresolved", "none")
          \/ Step(r, [worker[r] EXCEPT !.pc = "claiming"]) /\ UNCHANGED pending
      BY <2>1 DEF StartThread
    <3>2. CASE Step(r, [worker[r] EXCEPT !.pc = "claiming"]) /\ UNCHANGED pending
      BY <1>g, <3>2 DEF Places
    <3> QED BY <1>0, <1>e, <3>1, <3>2, ToSaveTyped, Typed
  <2>2. CASE ClaimTurn(r)
    <3>1. \E code : AfterClaim(r, code) BY <2>2 DEF ClaimTurn
    <3> QED BY <1>c, <3>1
  <2>3. CASE SubmitTurn(r)
    <3>1. \/ AppServerEnds(r, "stopped", "settled", "submitted")
          \/ Step(r, [worker[r] EXCEPT !.pc = "turning"]) /\ UNCHANGED pending
      BY <2>3 DEF SubmitTurn
    <3>2. CASE Step(r, [worker[r] EXCEPT !.pc = "turning"]) /\ UNCHANGED pending
      BY <1>g, <3>2 DEF Places
    <3> QED BY <1>e, <3>1, <3>2
  <2>4. CASE TurnAnswered(r)
    <3>1. \/ AppServerEnds(r, "stopped", "settled", "submitted")
          \/ Step(r, [worker[r] EXCEPT !.pc = "streaming"]) /\ UNCHANGED pending
      BY <2>4 DEF TurnAnswered
    <3>2. CASE Step(r, [worker[r] EXCEPT !.pc = "streaming"]) /\ UNCHANGED pending
      BY <1>g, <3>2 DEF Places
    <3> QED BY <1>e, <3>1, <3>2
  <2>5. CASE AcknowledgeHook(r)
    BY <1>0, <2>5 DEF AcknowledgeHook, DeskOK
  <2>6. CASE TurnFinished(r)
    <3>1. PICK status \in {"completed", "stopped", "failed"},
               final \in worker[r].text..(MaxText + 1), cleanup \in {"settled", "unresolved"} :
            Conclude(r, ResultOf(worker[r], status, final, cleanup, "delivered"))
      BY <2>6 DEF TurnFinished
    <3> DEFINE save == ResultOf(worker[r], status, final, cleanup, "delivered")
               w == [worker[r] EXCEPT !.pc = "flush", !.save = save]
    <3>2. final \in Nat BY <1>0, BoundsAssumption
    <3>3. save \in SaveT BY <3>2, ResultTyped
    <3>4. End(r, save) \/ ToSave(r, save) \/ (Step(r, w) /\ UNCHANGED pending)
      BY <3>1 DEF Conclude
    <3> HIDE DEF save
    <3>5. w \in WorkerT BY <1>0, <3>3 DEF WorkerT, Places
    <3> HIDE DEF w
    <3> QED BY <1>0, <3>3, <3>4, <3>5, ToSaveTyped, EndTyped, StepTyped DEF DeskOK
  <2>7. CASE TurnLost(r)
    <3>1. PICK evidence \in Noted(r) :
            LET save == ProviderSave("failed", worker[r].text, "unresolved", evidence) IN
            IF worker[r].broken THEN End(r, save) ELSE ToSave(r, save)
      BY <2>7 DEF TurnLost
    <3>2. evidence \in {"none", "submitted", "delivered"} BY DEF Noted
    <3>3. ProviderSave("failed", worker[r].text, "unresolved", evidence) \in SaveT
      BY <1>0, <3>2, ReportTyped
    <3> QED BY <1>0, <3>1, <3>3, ToSaveTyped, EndTyped
  <2> QED BY <2>1, <2>2, <2>3, <2>4, <2>5, <2>6, <2>7
<1> QED BY <1>0, <1>1, <1>2, <1>3, RestKeeps DEF WellKept, DeskOK

\* The steps of a worker that send a command.
LEMMA WriteSteps ==
  ASSUME WellKept, NEW r \in Runs,
         \/ Delta(r) \/ SaveReport(r) \/ Deliver(r) \/ Write(r) \/ Store(r)
         \/ Reject(r) \/ Flush(r) \/ FlushLast(r)
  PROVE  WellKept' /\ AllKeep
<1>0. /\ RowsOK /\ ProjectOK /\ DeskOK /\ worker[r] \in WorkerT
      /\ worker[r].held \in HeldT /\ worker[r].save \in SaveT /\ worker[r].held.seq \in Nat
      /\ worker[r].text \in Nat /\ worker[r].held.out \in Nat /\ Good(rows[r])
  BY DEF WellKept, DeskOK, WorkerT, HeldT, RowsOK
<1>1. UNCHANGED <<callers, retry>>
  BY DEF Delta, SaveReport, Deliver, Write, Store, Reject, Flush, FlushLast
<1>2. SUFFICES RowsOK' /\ ProjectOK' /\ AllKeep /\ worker' \in [Runs -> WorkerT]
               /\ pending' \in [Runs -> SaveT]
  BY <1>0, <1>1 DEF WellKept, DeskOK
<1>f. \A code : Failed(worker[r], code) \in WorkerT BY <1>0, FailedTyped
<1>a. ASSUME NEW n \in Nat, NEW o \in AppendNext(r, n)
      PROVE  Keeps(rows[r], o.row) /\ HeldOf(o.row) \in HeldT
  <2>1. Keeps(rows[r], o.row)
    BY <1>0, <1>a, AppendKeeps, ReachKeeps, IdsAreIds DEF AppendNext
  <2> QED BY <2>1, ReadTyped DEF Keeps, Good
<1>n. worker[r].text + 1 \in Nat BY <1>0
<1>w. \A pc \in Places, h \in HeldT, n \in Nat, b \in BOOLEAN :
        /\ [worker[r] EXCEPT !.text = n, !.held = h] \in WorkerT
        /\ [worker[r] EXCEPT !.text = n, !.broken = b, !.held = h] \in WorkerT
        /\ [worker[r] EXCEPT !.held = h] \in WorkerT
        /\ [worker[r] EXCEPT !.broken = b] \in WorkerT
        /\ [worker[r] EXCEPT !.pc = pc, !.held = h] \in WorkerT
        /\ [worker[r] EXCEPT !.pc = pc] \in WorkerT
  BY <1>0, ZenonT(60) DEF WorkerT
<1>s. ASSUME NEW o \in Attempt(r, worker[r].save, worker[r].held), Do(r, o)
      PROVE  RowsOK' /\ ProjectOK' /\ AllKeep
  BY <1>0, <1>s, AttemptKeeps, DoKeeps
<1>3. CASE Delta(r)
  <2>1. PICK o \in AppendNext(r, 1) :
          Do(r, o) /\ Step(r, Observed(Bound(r), worker[r], o)) /\ pending' = pending
    BY <1>3 DEF Delta
  <2>2. RowsOK' /\ ProjectOK' /\ AllKeep BY <1>0, <1>a, <2>1, DoKeeps
  <2> DEFINE b == o.code # "RunStopping"
             st == IF Bound(r) = "http" /\ o.code = "RunStopping" THEN "stopping"
                   ELSE worker[r].held.status
             h == [worker[r].held EXCEPT !.status = st]
  <2>3. h \in HeldT BY <1>0 DEF HeldT, Statuses
  <2>4. \/ Observed(Bound(r), worker[r], o)
             = [worker[r] EXCEPT !.text = worker[r].text + 1, !.held = HeldOf(o.row)]
        \/ Observed(Bound(r), worker[r], o)
             = [worker[r] EXCEPT !.text = worker[r].text + 1, !.broken = b, !.held = h]
    BY DEF Observed
  <2>5. b \in BOOLEAN OBVIOUS
  <2> HIDE DEF b, h
  <2>6. Observed(Bound(r), worker[r], o) \in WorkerT
    <3>1. HeldOf(o.row) \in HeldT BY <1>a, <2>1
    <3>2. "save" \in Places BY DEF Places
    <3>3. [worker[r] EXCEPT !.text = worker[r].text + 1, !.held = HeldOf(o.row)] \in WorkerT
      BY <1>n, <1>w, <2>5, <3>1, <3>2
    <3>4. [worker[r] EXCEPT !.text = worker[r].text + 1, !.broken = b, !.held = h] \in WorkerT
      BY <1>n, <1>w, <2>3, <2>5, <3>2
    <3> QED BY ONLY <2>4, <3>3, <3>4
  <2> QED BY <1>0, <2>1, <2>2, <2>6, StepTyped DEF DeskOK
<1>4. CASE SaveReport(r)
  <2>1. PICK o \in Attempt(r, worker[r].save, worker[r].held) :
          Do(r, o) /\ End(r, IF o.code = "ok" THEN NoSave ELSE worker[r].save)
    BY <1>4 DEF SaveReport
  <2> QED BY <1>0, <1>s, <2>1, EndTyped, Typed
<1>5. CASE Deliver(r)
  <2>0. pending' = pending BY <1>5 DEF Deliver
  <2>1. CASE Step(r, Failed(worker[r], "InvalidMockInput")) /\ UNCHANGED actorVars
    BY <1>0, <1>f, <2>0, <2>1, StepTyped, RestKeeps DEF actorVars, ProjectOK, DeskOK
  <2>2. CASE \E o \in Reach(r, MarkDelivered(rows[r], r \in Live)) :
            /\ Do(r, o)
            /\ Step(r, IF o.code = "ok" THEN [worker[r] EXCEPT !.pc = "write", !.held = HeldOf(o.row)]
                       ELSE Failed(worker[r], o.code))
    <3>1. PICK o \in Reach(r, MarkDelivered(rows[r], r \in Live)) :
            /\ Do(r, o)
            /\ Step(r, IF o.code = "ok" THEN [worker[r] EXCEPT !.pc = "write", !.held = HeldOf(o.row)]
                       ELSE Failed(worker[r], o.code))
      BY <2>2
    <3>2. Keeps(rows[r], o.row) BY <1>0, DeliverKeeps, ReachKeeps
    <3>3. HeldOf(o.row) \in HeldT BY <3>2, ReadTyped DEF Keeps, Good
    <3>4. [worker[r] EXCEPT !.pc = "write", !.held = HeldOf(o.row)] \in WorkerT
      BY <1>0, <3>3 DEF WorkerT, Places
    <3> QED BY <1>0, <1>f, <2>0, <3>1, <3>2, <3>4, StepTyped, DoKeeps DEF DeskOK
  <2> QED BY <1>5, <2>1, <2>2 DEF Deliver
<1>6. CASE Write(r)
  <2>0. pending' = pending BY <1>6 DEF Write
  <2>1. CASE \E o \in AppendNext(r, 1) :
              /\ Do(r, o)
              /\ Step(r, IF o.code = "ok"
                         THEN [worker[r] EXCEPT !.text = worker[r].text + 1, !.held = HeldOf(o.row)]
                         ELSE Failed(worker[r], o.code))
    <3>1. PICK o \in AppendNext(r, 1) :
              /\ Do(r, o)
              /\ Step(r, IF o.code = "ok"
                         THEN [worker[r] EXCEPT !.text = worker[r].text + 1, !.held = HeldOf(o.row)]
                         ELSE Failed(worker[r], o.code))
      BY <2>1
    <3>2. [worker[r] EXCEPT !.text = worker[r].text + 1, !.held = HeldOf(o.row)] \in WorkerT
      <4>1. HeldOf(o.row) \in HeldT BY <1>a, <3>1
      <4> QED BY <1>n, <1>w, <4>1 DEF Places
    <3> QED BY <1>0, <1>f, <1>a, <2>0, <3>1, <3>2, StepTyped, DoKeeps DEF DeskOK
  <2> DEFINE save == [kind |-> "complete", report |->
                        [NoReport EXCEPT !.seq = worker[r].held.seq, !.text = MaxText]]
             w == [worker[r] EXCEPT !.pc = "store", !.save = save]
  <2>2. CASE Step(r, w) /\ UNCHANGED actorVars
    <3>1. [NoReport EXCEPT !.seq = worker[r].held.seq, !.text = MaxText] \in Rep
      BY <1>0, BoundsAssumption, Typed DEF Rep
    <3>2. save \in SaveT BY <3>1 DEF SaveT
    <3> HIDE DEF save
    <3>3. w \in WorkerT BY <1>0, <3>2 DEF WorkerT, Places
    <3> HIDE DEF w
    <3> QED BY <1>0, <2>0, <2>2, <3>3, StepTyped, RestKeeps DEF actorVars, ProjectOK, DeskOK
  <2> QED BY <1>6, <2>1, <2>2 DEF Write
<1>7. CASE Store(r)
  <2>1. PICK o \in Attempt(r, worker[r].save, worker[r].held) :
          /\ Do(r, o)
          /\ \/ End(r, NoSave) \/ End(r, worker[r].save)
             \/ Step(r, [Failed(worker[r], o.code) EXCEPT !.pc = "storeAgain"]) /\ pending' = pending
    BY <1>7 DEF Store
  <2>2. [Failed(worker[r], o.code) EXCEPT !.pc = "storeAgain"] \in WorkerT
    <3> DEFINE w == Failed(worker[r], o.code)
    <3>1. w \in WorkerT BY <1>f
    <3> HIDE DEF w
    <3> QED BY <3>1 DEF WorkerT, Places, w
  <2>3. CASE End(r, NoSave) BY <1>0, <1>s, <2>1, <2>3, EndTyped, Typed
  <2>4. CASE End(r, worker[r].save) BY <1>0, <1>s, <2>1, <2>4, EndTyped
  <2>5. CASE Step(r, [Failed(worker[r], o.code) EXCEPT !.pc = "storeAgain"]) /\ pending' = pending
    BY <1>0, <1>s, <2>1, <2>2, <2>5, StepTyped DEF DeskOK
  <2> QED BY <2>1, <2>3, <2>4, <2>5
<1>8. CASE Reject(r)
  <2>1. PICK o \in Reach(r, FailDiscussionRun(rows[r], <<"rejected">>, worker[r].held.seq)) :
          /\ Do(r, o)
          /\ \/ End(r, NoSave)
             \/ Step(r, [worker[r] EXCEPT !.pc = "rejected"]) /\ UNCHANGED pending
    BY <1>8 DEF Reject
  <2>2. Keeps(rows[r], o.row) BY <1>0, FailKeeps, ReachKeeps, IdsAreIds
  <2>3. RowsOK' /\ ProjectOK' /\ AllKeep BY <1>0, <2>1, <2>2, DoKeeps
  <2>4. [worker[r] EXCEPT !.pc = "rejected"] \in WorkerT BY <1>0, <1>w DEF Places
  <2> QED BY <1>0, <2>1, <2>3, <2>4, EndTyped, StepTyped, Typed DEF DeskOK
<1>9. CASE Flush(r)
  <2>0. worker[r].text - worker[r].held.out \in Nat
    <3>1. worker[r].text > worker[r].held.out BY <1>9 DEF Flush
    <3> QED BY <1>0, <3>1
  <2>1. PICK o \in AppendNext(r, worker[r].text - worker[r].held.out) :
          /\ Do(r, o)
          /\ \/ Step(r, [worker[r] EXCEPT !.held = HeldOf(o.row)])
             \/ Step(r, [worker[r] EXCEPT !.broken = TRUE])
          /\ pending' = pending
    BY <1>9 DEF Flush
  <2>2. RowsOK' /\ ProjectOK' /\ AllKeep BY <1>0, <1>a, <2>0, <2>1, DoKeeps
  <2>3. /\ [worker[r] EXCEPT !.held = HeldOf(o.row)] \in WorkerT
        /\ [worker[r] EXCEPT !.broken = TRUE] \in WorkerT
    <3>1. HeldOf(o.row) \in HeldT BY <1>a, <2>0
    <3> QED BY <1>0, <1>w, <3>1 DEF Places
  <2> QED BY <1>0, <2>1, <2>2, <2>3, StepTyped DEF DeskOK
<1>10. CASE FlushLast(r)
  <2>0. worker[r].text - worker[r].held.out \in Nat
    <3>1. worker[r].text > worker[r].held.out BY <1>10 DEF FlushLast
    <3> QED BY <1>0, <3>1
  <2> DEFINE fallen == [worker[r].save EXCEPT !.report.status = "failed"]
  <2>1. PICK o \in AppendNext(r, worker[r].text - worker[r].held.out) :
          /\ Do(r, o)
          /\ \/ /\ Step(r, [worker[r] EXCEPT !.pc = "reread", !.held = HeldOf(o.row)])
                /\ pending' = pending
             \/ End(r, fallen) \/ End(r, worker[r].save)
    BY <1>10 DEF FlushLast
  <2>2. RowsOK' /\ ProjectOK' /\ AllKeep BY <1>0, <1>a, <2>0, <2>1, DoKeeps
  <2>3. [worker[r] EXCEPT !.pc = "reread", !.held = HeldOf(o.row)] \in WorkerT
    <3>1. HeldOf(o.row) \in HeldT BY <1>a, <2>0
    <3> QED BY <1>0, <1>w, <3>1 DEF Places
  <2>4. fallen \in SaveT
    <3>1. worker[r].save.report \in Rep BY <1>0 DEF SaveT
    <3>2. [worker[r].save.report EXCEPT !.status = "failed"] \in Rep BY <3>1 DEF Rep
    <3> QED BY <1>0, <3>2 DEF SaveT
  <2> HIDE DEF fallen
  <2> QED BY <1>0, <2>1, <2>2, <2>3, <2>4, EndTyped, StepTyped DEF DeskOK
<1> QED BY <1>3, <1>4, <1>5, <1>6, <1>7, <1>8, <1>9, <1>10

\* Edits, reconnections and the death of the process.
LEMMA ProjectSteps ==
  ASSUME WellKept, Edit \/ Reconnect \/ Reopen
  PROVE  WellKept' /\ AllKeep
<1>0. RowsOK /\ ProjectOK /\ DeskOK BY DEF WellKept
<1>1. CASE Edit
  BY <1>0, <1>1, RestKeeps DEF Edit, WellKept, ProjectOK, DeskOK, deskVars
<1>2. CASE Reconnect
  <2>1. rows' = rows /\ UNCHANGED <<callers, worker, pending, retry>>
    BY <1>2 DEF Reconnect, deskVars
  <2>2. ProjectOK' BY <1>0, <1>2 DEF Reconnect, ProjectOK
  <2> QED BY <1>0, <2>1, <2>2, RestKeeps DEF WellKept, DeskOK
<1>3. CASE Reopen
  <2>1. \A r \in Runs : rows'[r] = RecoverInterrupted(rows[r]) BY <1>3 DEF Reopen
  <2>2. AllKeep BY <1>0, <2>1, InterruptKeeps DEF AllKeep, RowsOK
  <2>3. RowsOK'
    <3>1. \A r \in Runs : Good(rows'[r]) BY <2>2 DEF AllKeep, Keeps
    <3> QED BY <1>3, <3>1 DEF Reopen, RowsOK, Good
  <2>4. ProjectOK' BY <1>0, <1>3 DEF Reopen, ProjectOK
  <2>5. DeskOK' BY <1>3, Typed DEF Reopen, DeskOK
  <2> QED BY <2>2, <2>3, <2>4, <2>5 DEF WellKept
<1> QED BY <1>1, <1>2, <1>3

-----------------------------------------------------------------------------
\* Theorems.

\* The invariant holds at first.
LEMMA InitKept == Init => WellKept
<1> SUFFICES ASSUME Init PROVE WellKept OBVIOUS
<1>1. RowsOK BY NoRunGood DEF Init, RowsOK, Good
<1>2. ProjectOK BY DEF Init, ProjectOK
<1>3. DeskOK BY Typed DEF Init, DeskOK
<1> QED BY <1>1, <1>2, <1>3 DEF WellKept

\* Every step keeps it, and keeps every run.
LEMMA NextKeeps == WellKept /\ [Next]_vars => WellKept' /\ AllKeep
<1> SUFFICES ASSUME WellKept, [Next]_vars PROVE WellKept' /\ AllKeep OBVIOUS
<1>1. CASE \E c \in Callers, r \in Runs : Start(c, r) BY <1>1, CallerSteps
<1>2. CASE \E c \in Callers : Register(c) \/ Claim(c) BY <1>2, CallerSteps
<1>3. CASE \E r \in Runs : Work(r) \/ DeltaUnsaved(r)
  BY <1>3, StreamSteps, TurnSteps, WriteSteps DEF Work
<1>4. CASE \E r \in Runs : Stop(r) \/ Signal(r) \/ RetryRead(r) \/ RetryStore(r) \/ Interrupt(r)
  BY <1>4, AuthorSteps
<1>5. CASE Edit \/ Reconnect \/ Reopen BY <1>5, ProjectSteps
<1>6. CASE UNCHANGED vars
  BY <1>6, RestKeeps DEF vars, actorVars, deskVars, WellKept, ProjectOK, DeskOK
<1> QED BY <1>1, <1>2, <1>3, <1>4, <1>5, <1>6 DEF Next

\* The journal of every run is gapless and tells its one ending, with one
\* assistant message, whatever the threads, faults and restarts did.
THEOREM JournalsTheorem == Spec => []JournalsTellEndings
<1>1. WellKept => JournalsTellEndings
  BY DEF WellKept, RowsOK, Good, JournalsTellEndings
<1> QED BY <1>1, InitKept, NextKeeps, PTL DEF Spec

\* Whatever the provider, the threads, the faults and the restarts did: the
\* journal of a run tells one ending, saved output only grows, a run that ended
\* is never written again, and after a Stop it ends stopped or interrupted.
THEOREM HistoryTheorem == Spec => RunHistoryStands
<1>1. WellKept /\ [Next]_vars
        => [\A r \in Runs :
             /\ OneEnding(rows'[r]) /\ SavedStays(rows[r], rows'[r])
             /\ StopIsFinal(rows[r], rows'[r])]_vars
  BY NextKeeps DEF AllKeep, Keeps, Good, SavedStays, StopIsFinal
<1> QED BY <1>1, InitKept, NextKeeps, PTL DEF Spec, RunHistoryStands

-----------------------------------------------------------------------------
(***************************************************************************)
(* The second part: requests, workers and retained outcomes.               *)
(***************************************************************************)

\* The places of a worker: before its provider has answered, before it has
\* sent a request, on the way to a save, and those of the local test model.
Early == {"spawned", "starting", "sending", "http", "claiming", "submitting", "turning"}
Unpaid == {"spawned", "starting", "sending", "http", "claiming", "submitting"}
Saving == {"reread", "save", "flush"}
Storing == {"store", "storeAgain"}
Local == {"deliver", "write", "store", "storeAgain"}

Fresh(row) == row.status \in {"absent", "queued"}
Going(row) == row.status \in {"running", "stopping"}

\* A run as the file may hold it: its output is within the limit, an absent or
\* queued run has none, a chunk is named by its place, and its receipt is the
\* one that ended it.
EventsFit(events) ==
    \A i \in DOMAIN events :
        events[i].text <= MaxText /\ (events[i].kind = "chunk" => events[i].id = <<"part", i - 1>>)
RowFit(b, row) ==
    /\ row.out <= MaxText /\ row.epoch <= EpochLimit /\ EventsFit(row.events)
    /\ Fresh(row) => row.seq = 0
    /\ row.seq = 0 => row.out = 0
    /\ row.status = "absent" => row = NoRun
    /\ ReceiptStands(row, MaxText) /\ CompletedHasReceipt(row, b # "mock")

\* What a thread has read of a run: an older state of it, or the present one.
HeldFit(held, row) ==
    /\ held.out <= MaxText /\ held.seq <= row.seq
    /\ held.seq = row.seq => held.out = row.out
    /\ held.status \in Terminal => row.status \in Terminal
    /\ held.status = "stopping" => ~Fresh(row) /\ row.status # "running"

\* An outcome on its way to the run.
SaveFit(b, save) ==
    /\ save.report.text <= MaxText + 1
    /\ save.kind = "provider" /\ save.report.status = "completed"
         => save.report.text > 0 /\ save.report.evidence = "delivered"
    /\ save.kind = "complete" => b = "mock" /\ save.report.text = MaxText

\* The worker of a run: it has a claimed run, it has observed all the output
\* that was saved, it holds no outcome before the end of a response, and the
\* outcome that it then holds has all that was observed.
WorkerFit(b, w, row) ==
    /\ HeldFit(w.held, row) /\ SaveFit(b, w.save)
    /\ w.held.out <= w.text /\ w.text <= MaxText
    /\ w.pc # "none" => w.held.status \notin {"absent", "queued"} /\ ~Fresh(row)
    /\ w.pc \notin {"none"} \cup Storing => row.out <= w.text
    /\ w.pc \in Early => w.text = 0
    /\ w.pc \in External => b # "mock" /\ w.save.kind = "none" /\ Going(row)
    /\ w.pc \notin {"none"} \cup Local => b # "mock"
    /\ w.pc \in Saving \cup Storing => w.save.kind # "none"
    /\ w.pc \in Saving /\ w.save.kind = "provider" => w.save.report.text >= w.text
    /\ w.pc \in Local => b = "mock" /\ w.save.kind # "provider"
    /\ w.pc \in {"deliver", "write"} /\ Going(row) => w.held.seq = row.seq
    /\ w.pc \in Storing /\ w.save.kind = "complete" /\ Going(row) => w.save.report.seq = row.seq

\* A retained outcome: nobody generates its run, and it has all the saved
\* output.  A run that goes on has a worker or a retained outcome.
PendingFit(b, save, w, row) ==
    /\ SaveFit(b, save)
    /\ save \notin {NoSave, FailSave} => w.pc = "none" /\ ~Fresh(row)
    /\ save # NoSave => w.pc \notin External
    /\ save.kind = "provider" => save.report.text >= row.out
    /\ save.kind = "complete" /\ Going(row) => save.report.seq = row.seq
    /\ Going(row) => w.pc # "none" \/ save # NoSave

\* An outcome that a late acknowledgement of the turn does not contradict.
Acknowledges(save) == save.kind = "provider" => save.report.evidence = "delivered"

\* The requests that were sent for a run, its dispatch and its callback.
WireFit(b, wr, w, save, row) ==
    /\ wr.sent <= 1
    /\ w.pc \in Unpaid \/ Fresh(row) => wr.sent = 0
    /\ b = "app_server" /\ wr.hook = "ack" =>
        /\ w.pc \notin Early /\ ~Fresh(row)
        /\ Acknowledges(w.save) /\ Acknowledges(save)
        /\ row.result # NoReport => row.result.evidence = "delivered"
    /\ DispatchBound(row, wr.turn)
    /\ row.result # NoReport /\ b = "app_server" => DeliveryStands(wr.turn, row.result)

\* The callers about to claim a run: one at a time and registered while the run
\* can still be claimed, and none while its worker has the registration.
ClaimFit(b, open, claims, w, row) ==
    /\ b # "mock" /\ Fresh(row) => \A c, d \in claims : c = d /\ open
    /\ w.pc \in External => open /\ claims = {}

\* A stop that was answered has reached the worker.
SignalFit(w, row, asked, sig) ==
    w.pc \in External /\ row.status = "stopping" /\ ~asked => sig

\* All that the desktop holds of a run.
DeskFit(b, row, w, save, wr, open, claims, asked, sig) ==
    /\ WorkerFit(b, w, row) /\ PendingFit(b, save, w, row) /\ WireFit(b, wr, w, save, row)
    /\ ClaimFit(b, open, claims, w, row) /\ SignalFit(w, row, asked, sig)

Claims(r) == {c \in Callers : callers[c].pc = "claim" /\ callers[c].run = r}
DeskOf(r) == DeskFit(Bound(r), rows[r], worker[r], pending[r], wire[r], r \in registry,
                     Claims(r), stopper[r], signal[r])
RetryFit(held, row) == HeldFit(held, row) /\ (held # NoHeld => held.status # "absent")

WireT == [sent : Nat, turn : {"none", "claimed", "acknowledged"},
          hook : {"none", "claim", "ack", "poisoned"}]
OutsideOK ==
    /\ signal \in [Runs -> BOOLEAN] /\ stopper \in [Runs -> BOOLEAN]
    /\ wire \in [Runs -> WireT] /\ registry \subseteq Runs
    /\ faults \in 0..FaultLimit /\ project.epoch <= EpochLimit

\* The inductive invariant.
Fits ==
    /\ WellKept /\ OutsideOK
    /\ \A r \in Runs : RowFit(Bound(r), rows[r]) /\ DeskOf(r) /\ RetryFit(retry[r], rows[r])

-----------------------------------------------------------------------------
\* What a command makes of a run.

\* A command moves a run forward; one that is plain adds no output and no
\* receipt.
Moves(row, next) ==
    /\ next.seq >= row.seq /\ (next.seq = row.seq => next.out = row.out)
    /\ Fresh(next) => Fresh(row)
    /\ row.dispatch # "pending" => next.dispatch # "pending"
Plain(row, next) ==
    /\ next.out = row.out /\ next.result = row.result
    /\ Going(next) => next.seq = row.seq

\* The run is moved, and still fit.
Served(b, row, next) == RowFit(b, next) /\ Moves(row, next)

\* The fields of a good run.
LEMMA GoodRow ==
  ASSUME NEW row, Good(row)
  PROVE  /\ row \in Row /\ row.out \in Nat /\ row.seq \in Nat /\ row.epoch \in Nat
         /\ row.events \in Seq(Ev) /\ row.seq = Len(row.events) /\ row.result \in Rep
         /\ DOMAIN row.events = 1..row.seq
         /\ row.dispatch \in {"pending", "claimed", "delivered"} /\ row.replies \in Nat
         /\ row.status \in Statuses
<1>1. row \in Row /\ OneEnding(row) BY DEF Good
<1>2. row.events \in Seq(Ev) /\ row.seq = Len(row.events) BY <1>1 DEF Row, OneEnding
<1> QED BY <1>1, <1>2 DEF Row, Statuses

\* An active run has no receipt and only chunks.
LEMMA ActiveRow ==
  ASSUME NEW b, NEW row, Good(row), RowFit(b, row), row.status \in Active
  PROVE  /\ row.result = NoReport
         /\ \A i \in DOMAIN row.events :
              row.events[i].kind = "chunk" /\ row.events[i].id = <<"part", i - 1>>
<1>1. \A report : AllowedEndings(report) \subseteq {"interrupted", "stopped", "completed", "failed"}
  BY DEF AllowedEndings
<1>2. row.result = NoReport BY <1>1 DEF RowFit, ReceiptStands, Active
<1>3. row.status \notin Terminal BY DEF Active, Terminal
<1>4. /\ \A i \in DOMAIN row.events : row.events[i].kind = "terminal" => i = Len(row.events)
      /\ ~(Len(row.events) > 0 /\ row.events[Len(row.events)].kind = "terminal")
  BY <1>3 DEF Good, OneEnding
<1>5. row.events \in Seq(Ev) BY GoodRow
<1>6. \A i \in DOMAIN row.events : row.events[i] \in Ev /\ Len(row.events) > 0 BY <1>5
<1>8. \A i \in DOMAIN row.events : row.events[i].kind \in {"chunk", "terminal"}
  BY <1>6 DEF Ev
<1>7. \A i \in DOMAIN row.events : row.events[i].kind = "chunk" BY <1>4, <1>6, <1>8
<1> QED BY <1>2, <1>7 DEF RowFit, EventsFit

\* So no terminal event is stored in it.
LEMMA NothingStored ==
  ASSUME NEW b, NEW row, Good(row), RowFit(b, row), row.status \in Active, NEW id,
         \A n \in Nat : id # <<"part", n>>
  PROVE  Stored(row, id) = {}
<1>1. \A i \in DOMAIN row.events : row.events[i].id = <<"part", i - 1>> /\ i - 1 \in Nat
  BY ActiveRow, GoodRow
<1> QED BY <1>1 DEF Stored

\* A command that is refused leaves the run fit.
LEMMA SameServed ==
  ASSUME NEW b, NEW row, Good(row), RowFit(b, row)
  PROVE  Served(b, row, row) /\ Plain(row, row)
  BY GoodRow DEF Served, Moves, Plain

\* A step from one active status to the next, without an event.
LEMMA OpenServed ==
  ASSUME NEW b, NEW row, Good(row), RowFit(b, row), row.status \in Active,
         NEW s \in {"running", "stopping"}, NEW d \in {"claimed", "delivered", row.dispatch}
  PROVE  LET next == [row EXCEPT !.status = s, !.dispatch = d] IN
         Served(b, row, next) /\ Plain(row, next)
<1> DEFINE next == [row EXCEPT !.status = s, !.dispatch = d]
<1>0. row \in Row /\ row.result = NoReport /\ row.seq \in Nat BY GoodRow, ActiveRow
<1>1. /\ next.seq = row.seq /\ next.events = row.events /\ next.epoch = row.epoch
      /\ next.out = row.out /\ next.status = s /\ next.dispatch = d
      /\ next.result = row.result
  BY <1>0 DEF Row
<1> HIDE DEF next
<1>2. RowFit(b, next)
  <2>1. next.out <= MaxText /\ next.epoch <= EpochLimit /\ (next.seq = 0 => next.out = 0)
    BY <1>1 DEF RowFit
  <2>2. EventsFit(next.events) BY <1>1 DEF RowFit
  <2>3. ReceiptStands(next, MaxText) BY <1>0, <1>1 DEF ReceiptStands
  <2>4. CompletedHasReceipt(next, b # "mock") BY <1>1 DEF CompletedHasReceipt
  <2>5. ~Fresh(next) /\ next.status # "absent" BY <1>1 DEF Fresh
  <2> QED BY <2>1, <2>2, <2>3, <2>4, <2>5 DEF RowFit
<1>3. Moves(row, next)
  <2>1. ~Fresh(next) BY <1>1 DEF Fresh
  <2>2. row.dispatch # "pending" => next.dispatch # "pending" BY <1>1
  <2> QED BY <1>0, <1>1, <2>1, <2>2 DEF Moves
<1>4. Plain(row, next) BY <1>1 DEF Plain
<1> QED BY <1>2, <1>3, <1>4 DEF Served, next

\* One more event, within the limit, in the journal of an active run.
LEMMA JournalFits ==
  ASSUME NEW b, NEW row, Good(row), RowFit(b, row), row.status \in Active,
         NEW e \in Ev, e.text <= MaxText, e.kind = "chunk" => e.id = <<"part", row.seq>>
  PROVE  LET es == Append(row.events, e) IN
         EventsFit(es) /\ row.seq + 1 \in DOMAIN es /\ es[row.seq + 1] = e
<1> DEFINE es == Append(row.events, e)
<1>1. row.events \in Seq(Ev) /\ row.seq = Len(row.events) /\ row.seq \in Nat BY GoodRow
<1>2. DOMAIN es = 1..(row.seq + 1) /\ es[row.seq + 1] = e BY <1>1
<1>3. \A i \in DOMAIN es : i = row.seq + 1 \/ (i \in DOMAIN row.events /\ es[i] = row.events[i])
  BY <1>1, <1>2
<1>4. (row.seq + 1) - 1 = row.seq BY <1>1
<1> HIDE DEF es
<1>5. ASSUME NEW i \in DOMAIN es
      PROVE  es[i].text <= MaxText /\ (es[i].kind = "chunk" => es[i].id = <<"part", i - 1>>)
  BY <1>2, <1>3, <1>4, <1>5 DEF RowFit, EventsFit
<1>6. row.seq + 1 \in DOMAIN es BY <1>1, <1>2
<1>7. EventsFit(es) BY <1>5 DEF EventsFit
<1> QED BY <1>2, <1>6, <1>7 DEF es

\* What Recorded leaves alone, besides the fields of RecordedRow.
LEMMA RecordedRest ==
  ASSUME NEW row \in Row, NEW id, NEW kind, NEW text
  PROVE  LET mid == Recorded(row, id, kind, text) IN
         mid.epoch = row.epoch /\ mid.dispatch = row.dispatch /\ mid.result = row.result
  BY DEF Recorded, Row

\* A chunk is named by its place and stays within the limit.
LEMMA ChunkServed ==
  ASSUME NEW b, NEW row, Good(row), RowFit(b, row), row.status = "running",
         NEW n \in Nat, row.out + n <= MaxText
  PROVE  LET next == [Recorded(row, <<"part", row.seq>>, "chunk", n) EXCEPT !.out = @ + n] IN
         /\ Served(b, row, next) /\ next.status = "running"
         /\ next.out = row.out + n /\ next.result = row.result
<1> DEFINE id == <<"part", row.seq>>
           e == [seq |-> row.seq + 1, id |-> id, kind |-> "chunk", text |-> n]
           mid == Recorded(row, id, "chunk", n)
           next == [mid EXCEPT !.out = mid.out + n]
           es == Append(row.events, e)
<1>0. /\ row \in Row /\ row.status \notin Terminal /\ row.status \in Active /\ row.seq \in Nat
      /\ row.out \in Nat /\ row.result = NoReport
  BY GoodRow, ActiveRow DEF Terminal, Active
<1>1. id \in Ids BY <1>0, IdsAreIds
<1>2. /\ mid \in Row /\ e \in Ev
      /\ mid.seq = row.seq + 1 /\ mid.events = es
      /\ mid.status = row.status /\ mid.out = row.out
  BY <1>0, <1>1, RecordedRow
<1>3. mid.epoch = row.epoch /\ mid.dispatch = row.dispatch /\ mid.result = row.result
  BY <1>0, RecordedRest
<1> HIDE DEF mid
<1>4. /\ next.seq = row.seq + 1 /\ next.events = es /\ next.status = "running"
      /\ next.out = row.out + n /\ next.epoch = row.epoch /\ next.dispatch = row.dispatch
      /\ next.result = row.result
  BY <1>2, <1>3 DEF Row
<1>5. e.text <= MaxText /\ e.id = <<"part", row.seq>>
  BY <1>0, BoundsAssumption
<1> HIDE DEF next, e, id
<1>6. EventsFit(es) BY <1>0, <1>2, <1>5, JournalFits
<1> HIDE DEF es
<1>7. RowFit(b, next)
  <2>1. ~Fresh(next) /\ next.status # "absent" BY <1>4 DEF Fresh
  <2>2. ReceiptStands(next, MaxText) BY <1>0, <1>4 DEF ReceiptStands
  <2>3. CompletedHasReceipt(next, b # "mock") BY <1>4 DEF CompletedHasReceipt
  <2>4. next.seq # 0 BY <1>0, <1>4
  <2>5. next.epoch <= EpochLimit BY <1>4 DEF RowFit
  <2>6. next.out <= MaxText BY <1>4
  <2> QED BY <1>4, <1>6, <2>1, <2>2, <2>3, <2>4, <2>5, <2>6 DEF RowFit
<1>8. Moves(row, next)
  <2>1. ~Fresh(next) BY <1>4 DEF Fresh
  <2> QED BY <1>0, <1>4, <2>1 DEF Moves
<1> QED BY <1>4, <1>7, <1>8 DEF Served, next, mid, id

\* The receipt of an ended run, or none.
ReceiptFits(b, row, next, id) ==
    \/ next.result = NoReport /\ (b # "mock" => next.status # "completed")
    \/ /\ next.result # NoReport /\ ReceiptReadable(next.result, MaxText)
       /\ next.status \in AllowedEndings(next.result) /\ next.out = next.result.text
       /\ next.result.seq = row.seq /\ id = <<"provider">>

\* A terminal event ends an active run.
LEMMA EndServed ==
  ASSUME NEW b, NEW row, Good(row), RowFit(b, row), row.status \in Active,
         NEW next \in Row, NEW e \in Ev, e.kind = "terminal", e.seq = row.seq + 1,
         e.text <= MaxText, next.events = Append(row.events, e), next.seq = row.seq + 1,
         next.status \in Terminal, next.out <= MaxText, next.epoch = row.epoch,
         row.dispatch # "pending" => next.dispatch # "pending",
         ReceiptFits(b, row, next, e.id)
  PROVE  Served(b, row, next)
<1> DEFINE es == Append(row.events, e)
<1>0. row.seq \in Nat /\ next.seq \in Nat BY GoodRow
<1>1. EventsFit(es) /\ row.seq + 1 \in DOMAIN es /\ es[row.seq + 1] = e
  BY JournalFits
<1>2. next.events = es OBVIOUS
<1> HIDE DEF es
<1>3. ~Fresh(next) /\ next.status # "absent" BY DEF Fresh, Terminal
<1>4. next.result # NoReport => \E i \in Stored(next, <<"provider">>) :
        next.events[i].kind = "terminal" /\ next.events[i].seq = next.seq
  BY <1>1, <1>2 DEF ReceiptFits, Stored
<1>5. ReceiptStands(next, MaxText) BY <1>4 DEF ReceiptStands, ReceiptFits
<1>6. CompletedHasReceipt(next, b # "mock") BY DEF CompletedHasReceipt, ReceiptFits
<1>7. next.seq # 0 BY <1>0
<1>8. RowFit(b, next)
  <2>1. next.epoch <= EpochLimit BY DEF RowFit
  <2> QED BY <1>1, <1>2, <1>3, <1>5, <1>6, <1>7, <2>1 DEF RowFit
<1>9. Moves(row, next) BY <1>0, <1>3 DEF Moves
<1> QED BY <1>8, <1>9 DEF Served

\* A run with its terminal event and everything that comes with it, and the
\* same with nothing but the text.
Sealed(row, id, text, s, d, result) ==
    LET mid == Recorded(row, id, "terminal", text) IN
    [mid EXCEPT !.status = s, !.out = text, !.dispatch = d,
                !.replies = mid.replies + 1, !.result = result]
Texted(row, id, text, s) ==
    LET mid == Recorded(row, id, "terminal", text) IN
    [mid EXCEPT !.status = s, !.out = text, !.replies = mid.replies + 1]
EndsAs(next, s, text, result) ==
    next.status = s /\ next.out = text /\ next.result = result

\* A terminal report with its receipt, or an ending without one.
LEMMA ReportServed ==
  ASSUME NEW b, NEW row, Good(row), RowFit(b, row), row.status \in Active, NEW s \in Terminal,
         NEW id \in Ids, NEW text \in Nat, text <= MaxText,
         NEW d \in {"claimed", "delivered", row.dispatch}, NEW result \in Rep,
         \/ result = NoReport /\ (b # "mock" => s # "completed")
         \/ /\ result # NoReport /\ ReceiptReadable(result, MaxText)
            /\ s \in AllowedEndings(result) /\ text = result.text
            /\ result.seq = row.seq /\ id = <<"provider">>
  PROVE  /\ Served(b, row, Sealed(row, id, text, s, d, result))
         /\ EndsAs(Sealed(row, id, text, s, d, result), s, text, result)
<1> DEFINE e == [seq |-> row.seq + 1, id |-> id, kind |-> "terminal", text |-> text]
           mid == Recorded(row, id, "terminal", text)
           next == [mid EXCEPT !.status = s, !.out = text, !.dispatch = d,
                               !.replies = mid.replies + 1, !.result = result]
<1>s. Sealed(row, id, text, s, d, result) = next BY DEF Sealed
<1>0. row \in Row /\ row.status \notin Terminal
  BY GoodRow DEF Active, Terminal
<1>1. /\ mid \in Row /\ e \in Ev
      /\ mid.seq = row.seq + 1 /\ mid.events = Append(row.events, e)
  BY <1>0, RecordedRow
<1>2. mid.epoch = row.epoch BY <1>0, RecordedRest
<1>3. e.kind = "terminal" /\ e.seq = row.seq + 1 /\ e.text = text /\ e.id = id OBVIOUS
<1> HIDE DEF e, mid
<1>4. mid.replies + 1 \in Nat BY <1>1 DEF Row
<1>d. d \in {"pending", "claimed", "delivered"} BY GoodRow
<1>5. next \in Row BY <1>1, <1>4, <1>d DEF Row
<1>6. /\ next.seq = row.seq + 1 /\ next.events = Append(row.events, e)
      /\ next.status = s /\ next.out = text /\ next.epoch = row.epoch
      /\ next.dispatch = d /\ next.result = result
  BY <1>1, <1>2 DEF Row
<1> HIDE DEF next
<1>7. ReceiptFits(b, row, next, e.id) BY <1>3, <1>6 DEF ReceiptFits
<1>8. row.dispatch # "pending" => next.dispatch # "pending" BY <1>6
<1>9. Served(b, row, next) BY <1>1, <1>3, <1>5, <1>6, <1>7, <1>8, EndServed
<1> QED BY <1>s, <1>6, <1>9 DEF EndsAs

\* An ending without a receipt.
LEMMA TextServed ==
  ASSUME NEW b, NEW row, Good(row), RowFit(b, row), row.status \in Active, NEW s \in Terminal,
         NEW id \in Ids, NEW text \in Nat, text <= MaxText, b # "mock" => s # "completed"
  PROVE  /\ Served(b, row, Texted(row, id, text, s))
         /\ EndsAs(Texted(row, id, text, s), s, text, row.result)
<1> DEFINE mid == Recorded(row, id, "terminal", text)
           next == [mid EXCEPT !.status = s, !.out = text, !.replies = mid.replies + 1]
           full == [mid EXCEPT !.status = s, !.out = text, !.dispatch = row.dispatch,
                               !.replies = mid.replies + 1, !.result = row.result]
<1>1. row \in Row /\ row.result \in Rep /\ row.result = NoReport /\ row.status \notin Terminal
  BY GoodRow, ActiveRow DEF Active, Terminal
<1>2. mid \in Row BY <1>1, RecordedRow
<1>3. mid.dispatch = row.dispatch /\ mid.result = row.result BY <1>1, RecordedRest
<1>4. /\ Served(b, row, Sealed(row, id, text, s, row.dispatch, row.result))
      /\ EndsAs(Sealed(row, id, text, s, row.dispatch, row.result), s, text, row.result)
  <2>1. row.dispatch \in {"claimed", "delivered", row.dispatch} OBVIOUS
  <2> QED BY <1>1, <2>1, ReportServed
<1>5. full = next
  <2> HIDE DEF mid
  <2> QED BY <1>2, <1>3 DEF Row
<1>6. Sealed(row, id, text, s, row.dispatch, row.result) = full BY DEF Sealed
<1>7. Texted(row, id, text, s) = next BY DEF Texted
<1> HIDE DEF full, next
<1> QED BY <1>4, <1>5, <1>6, <1>7

\* seal_run.
LEMMA SealServed ==
  ASSUME NEW b, NEW row, Good(row), RowFit(b, row), row.status \in Active, NEW id \in Ids,
         NEW s \in {"failed", "stopped", "interrupted"}
  PROVE  /\ Served(b, row, SealRun(row, s, id)) /\ Plain(row, SealRun(row, s, id))
         /\ SealRun(row, s, id).status = s
<1> DEFINE mid == Recorded(row, id, "terminal", row.out)
           next == [mid EXCEPT !.status = s, !.replies = mid.replies + 1]
           full == [mid EXCEPT !.status = s, !.out = row.out, !.replies = mid.replies + 1]
<1>1. row \in Row /\ row.out \in Nat /\ row.status \notin Terminal
  BY GoodRow DEF Active, Terminal
<1>2. mid \in Row /\ mid.out = row.out BY <1>1, RecordedRow
<1>3. SealRun(row, s, id) = next BY DEF SealRun
<1>4. /\ Served(b, row, Texted(row, id, row.out, s))
      /\ EndsAs(Texted(row, id, row.out, s), s, row.out, row.result)
  <2>1. row.out <= MaxText BY DEF RowFit
  <2>2. s \in Terminal BY DEF Terminal
  <2> QED BY <1>1, <2>1, <2>2, TextServed
<1>5. full = next
  <2> HIDE DEF mid
  <2> QED BY <1>2 DEF Row
<1>6. Texted(row, id, row.out, s) = full BY DEF Texted
<1> HIDE DEF next, full
<1>7. Texted(row, id, row.out, s) = SealRun(row, s, id) BY <1>3, <1>5, <1>6
<1>8. EndsAs(SealRun(row, s, id), s, row.out, row.result) BY <1>4, <1>7
<1>9. Plain(row, SealRun(row, s, id)) BY <1>8 DEF EndsAs, Plain, Going
<1> QED BY <1>4, <1>7, <1>8, <1>9 DEF EndsAs

\* start_discussion queues an absent run at the epoch of its transaction.
LEMMA StartServed ==
  ASSUME NEW b, NEW row, Good(row), RowFit(b, row), NEW epoch \in Nat, epoch <= EpochLimit,
         NEW o \in StartDiscussion(row, epoch)
  PROVE  /\ Served(b, row, o.row) /\ Plain(row, o.row)
         /\ o.row # row => Fresh(row) /\ Fresh(o.row)
<1> DEFINE fresh == [NoRun EXCEPT !.status = "queued", !.epoch = epoch]
<1>1. o.row = row \/ (row = NoRun /\ o.row = fresh)
  BY DEF StartDiscussion, Committed
<1>2. ASSUME row = NoRun PROVE Served(b, row, fresh) /\ Plain(row, fresh) /\ Fresh(row) /\ Fresh(fresh)
  <2>0. NoRun \in Row BY NoRunGood DEF Good
  <2>1. /\ fresh.seq = 0 /\ fresh.events = <<>> /\ fresh.status = "queued" /\ fresh.out = 0
        /\ fresh.epoch = epoch /\ fresh.result = NoReport /\ fresh.dispatch = "pending"
    BY <2>0 DEF NoRun, Row
  <2>2. /\ row.seq = 0 /\ row.out = 0 /\ row.status = "absent" /\ row.dispatch = "pending"
        /\ row.result = NoReport
    BY <1>2 DEF NoRun
  <2> HIDE DEF fresh
  <2>3. Fresh(row) /\ Fresh(fresh) /\ ~Going(fresh) BY <2>1, <2>2 DEF Fresh, Going
  <2>4. ReceiptStands(fresh, MaxText) /\ CompletedHasReceipt(fresh, b # "mock")
    BY <2>1 DEF ReceiptStands, CompletedHasReceipt
  <2>5. EventsFit(fresh.events) BY <2>1 DEF EventsFit
  <2>6. RowFit(b, fresh) BY <2>1, <2>3, <2>4, <2>5, BoundsAssumption DEF RowFit
  <2>7. Moves(row, fresh) BY <2>1, <2>2, <2>3 DEF Moves
  <2>8. Plain(row, fresh) BY <2>1, <2>2, <2>3 DEF Plain
  <2> QED BY <2>3, <2>6, <2>7, <2>8 DEF Served
<1> HIDE DEF fresh
<1> QED BY <1>1, <1>2, SameServed

\* begin_discussion_run claims a queued run or seals it.
LEMMA BeginServed ==
  ASSUME NEW b, NEW row, Good(row), RowFit(b, row), NEW epoch,
         NEW o \in BeginDiscussionRun(row, epoch)
  PROVE  /\ Served(b, row, o.row) /\ Plain(row, o.row)
         /\ o.row # row => row.status = "queued"
         /\ o.code = "ok" => row.status = "queued" /\ o.row.status = "running"
         /\ o.code \in {"RunAlreadyStarted", "RunSealed", "ContextChanged"} /\ Going(o.row)
              => o.row = row
<1> DEFINE sealed == SealRun(row, "failed", <<"stale">>)
           claimed == [row EXCEPT !.status = "running", !.dispatch = "claimed"]
<1>1. \/ o.row = row /\ o.code # "ok"
      \/ row.status = "queued" /\ o.row = sealed /\ o.code # "ok"
      \/ /\ row.status = "queued" /\ o.row = claimed
         /\ o.code \notin {"RunAlreadyStarted", "RunSealed", "ContextChanged"}
  <2>1. \/ \E code \in {"RunAlreadyStarted", "RunSealed"} : o \in Refused(row, code)
        \/ row.status = "queued" /\ o \in Committed(row, sealed, "ContextChanged")
        \/ row.status = "queued" /\ o \in Committed(row, claimed, "ok")
    BY DEF BeginDiscussionRun
  <2> HIDE DEF sealed, claimed
  <2> QED BY <2>1 DEF Committed, Refused
<1>2. ASSUME row.status = "queued"
      PROVE  Served(b, row, sealed) /\ Plain(row, sealed) /\ ~Going(sealed)
  <2>1. row.status \in Active BY <1>2 DEF Active
  <2>2. <<"stale">> \in Ids BY IdsAreIds
  <2>3. Served(b, row, sealed) /\ Plain(row, sealed) /\ sealed.status = "failed"
    BY <2>1, <2>2, SealServed
  <2> HIDE DEF sealed
  <2> QED BY <2>3 DEF Going
<1>3. ASSUME row.status = "queued"
      PROVE  Served(b, row, claimed) /\ Plain(row, claimed) /\ claimed.status = "running"
  <2>1. claimed.status = "running" BY GoodRow DEF Row
  <2> QED BY <1>3, <2>1, OpenServed DEF Active
<1> HIDE DEF sealed, claimed
<1> QED BY <1>1, <1>2, <1>3, SameServed

\* mark_discussion_delivered.
LEMMA DeliverServed ==
  ASSUME NEW b, NEW row, Good(row), RowFit(b, row), NEW live, NEW o \in MarkDelivered(row, live)
  PROVE  /\ Served(b, row, o.row) /\ Plain(row, o.row) /\ o.row.status = row.status
         /\ o.code = "ok" => row.status = "running"
         /\ o.code = "RunSealed" => ~Going(row)
         /\ o.code = "RunStopping" => row.status = "stopping"
<1> DEFINE next == [row EXCEPT !.dispatch = "delivered"]
           open == [row EXCEPT !.status = "running", !.dispatch = "delivered"]
<1>1. \/ o.row = row /\ o.code = "ProviderResultRequired"
      \/ row.status = "stopping" /\ o.row = row /\ o.code = "RunStopping"
      \/ ~Going(row) /\ o.row = row /\ o.code = "RunSealed"
      \/ /\ row.status = "running" /\ o.row \in {row, next}
         /\ o.code \in {"ok", "UncertainOutcome"}
  <2>1. \/ o \in Refused(row, "ProviderResultRequired")
        \/ row.status = "stopping" /\ o \in Refused(row, "RunStopping")
        \/ ~Going(row) /\ o \in Refused(row, "RunSealed")
        \/ row.status = "running" /\ o \in Committed(row, next, "ok")
    BY DEF MarkDelivered, Going
  <2> HIDE DEF next
  <2> QED BY <2>1 DEF Committed, Refused
<1>2. ASSUME row.status = "running"
      PROVE  Served(b, row, next) /\ Plain(row, next) /\ next.status = row.status
  <2>1. next = open BY <1>2, GoodRow DEF Row
  <2>2. Served(b, row, open) /\ Plain(row, open) BY <1>2, OpenServed DEF Active
  <2>3. next.status = row.status BY GoodRow DEF Row
  <2> HIDE DEF next, open
  <2> QED BY <2>1, <2>2, <2>3
<1> HIDE DEF next
<1> QED BY <1>1, <1>2, SameServed DEF Going

\* append_discussion_output: an event that was stored before, or the next chunk
\* of the run as the worker knows it.
LEMMA AppendServed ==
  ASSUME NEW b, NEW row, Good(row), RowFit(b, row), NEW expected \in Nat, NEW n \in Nat,
         expected = row.seq => row.out + n <= MaxText,
         NEW o \in AppendOutput(row, expected, <<"part", expected>>, n)
  PROVE  /\ Served(b, row, o.row) /\ o.row.status = row.status /\ o.row.result = row.result
         /\ o.row # row => expected = row.seq /\ o.row.out = row.out + n
         /\ o.code = "RunSealed" => ~Going(row)
         /\ o.code = "RunStopping" => row.status = "stopping"
<1> DEFINE next == [Recorded(row, <<"part", expected>>, "chunk", n) EXCEPT !.out = @ + n]
           here == [Recorded(row, <<"part", row.seq>>, "chunk", n) EXCEPT !.out = @ + n]
<1>1. \/ o.row = row /\ o.code \notin {"RunSealed", "RunStopping"}
      \/ o.row = row /\ o.code = EnsureStarted(row)
      \/ /\ row.status = "running" /\ expected = row.seq /\ o.row \in {row, next}
         /\ o.code \in {"ok", "UncertainOutcome"}
  <2>1. \/ o \in Committed(row, row, "ok") \/ o \in Refused(row, "EventIdReused")
        \/ o \in Refused(row, EnsureStarted(row)) \/ o \in Refused(row, "SequenceConflict")
        \/ EnsureStarted(row) = "ok" /\ expected = row.seq /\ o \in Committed(row, next, "ok")
    BY DEF AppendOutput
  <2>2. EnsureStarted(row) = "ok" => row.status = "running" BY DEF EnsureStarted
  <2> HIDE DEF next
  <2> QED BY <2>1, <2>2 DEF Committed, Refused
<1>2. /\ EnsureStarted(row) = "RunSealed" => ~Going(row)
      /\ EnsureStarted(row) = "RunStopping" => row.status = "stopping"
  BY DEF EnsureStarted, Going
<1>3. ASSUME row.status = "running", expected = row.seq
      PROVE  /\ Served(b, row, next) /\ next.status = row.status /\ next.out = row.out + n
             /\ next.result = row.result
  <2>1. next = here BY <1>3
  <2>2. /\ Served(b, row, here) /\ here.status = "running"
        /\ here.out = row.out + n /\ here.result = row.result
    BY <1>3, ChunkServed
  <2> HIDE DEF next, here
  <2> QED BY <1>3, <2>1, <2>2
<1> HIDE DEF next
<1> QED BY <1>1, <1>2, <1>3, SameServed DEF Going

\* stop_discussion ends a queued run and asks a running one to end.
LEMMA StopServed ==
  ASSUME NEW b, NEW row, Good(row), RowFit(b, row), NEW o \in StopDiscussion(row)
  PROVE  /\ Served(b, row, o.row) /\ Plain(row, o.row) /\ (Going(o.row) <=> Going(row))
         /\ o.code \in {"ok", "UncertainOutcome"}
<1> DEFINE sealed == SealRun(row, "stopped", <<"stop">>)
           asked == [row EXCEPT !.status = "stopping"]
           open == [row EXCEPT !.status = "stopping", !.dispatch = row.dispatch]
<1>1. /\ o.code \in {"ok", "UncertainOutcome"}
      /\ \/ o.row = row
         \/ row.status = "queued" /\ o.row = sealed
         \/ row.status = "running" /\ o.row = asked
  <2>1. \/ row.status = "queued" /\ o \in Committed(row, sealed, "ok")
        \/ row.status = "running" /\ o \in Committed(row, asked, "ok")
        \/ o \in Committed(row, row, "ok")
    BY DEF StopDiscussion
  <2> HIDE DEF sealed, asked
  <2> QED BY <2>1 DEF Committed
<1>2. ASSUME row.status = "queued"
      PROVE  Served(b, row, sealed) /\ Plain(row, sealed) /\ ~Going(sealed) /\ ~Going(row)
  BY <1>2, SealServed, IdsAreIds DEF Active, Going
<1>3. ASSUME row.status = "running"
      PROVE  Served(b, row, asked) /\ Plain(row, asked) /\ Going(asked) /\ Going(row)
  <2>1. asked = open BY GoodRow DEF Row
  <2>2. Served(b, row, open) /\ Plain(row, open)
    <3>1. row.dispatch \in {"claimed", "delivered", row.dispatch} OBVIOUS
    <3> QED BY <1>3, <3>1, OpenServed DEF Active
  <2>3. asked.status = "stopping" BY GoodRow DEF Row
  <2> HIDE DEF asked, open
  <2> QED BY <1>3, <2>1, <2>2, <2>3 DEF Going
<1> HIDE DEF sealed, asked
<1> QED BY <1>1, <1>2, <1>3, SameServed

\* interrupt_discussion and recover_interrupted_discussions end an active run.
LEMMA InterruptServed ==
  ASSUME NEW b, NEW row, Good(row), RowFit(b, row)
  PROVE  /\ \A o \in InterruptDiscussion(row) :
              Served(b, row, o.row) /\ Plain(row, o.row) /\ (Going(o.row) => Going(row))
         /\ LET next == RecoverInterrupted(row) IN
            Served(b, row, next) /\ Plain(row, next) /\ ~Going(next) /\ next.status # "queued"
<1> DEFINE sealed == SealRun(row, "interrupted", <<"interrupted">>)
<1>1. \A o \in InterruptDiscussion(row) :
        o.row = row \/ (row.status \in Active /\ o.row = sealed)
  BY DEF InterruptDiscussion, Committed
<1>2. \/ RecoverInterrupted(row) = row /\ row.status \notin Active
      \/ row.status \in Active /\ RecoverInterrupted(row) = sealed
  BY DEF RecoverInterrupted
<1>3. ASSUME row.status \in Active
      PROVE  /\ Served(b, row, sealed) /\ Plain(row, sealed) /\ ~Going(sealed)
             /\ sealed.status # "queued"
  BY <1>3, SealServed, IdsAreIds DEF Going
<1>4. row.status \notin Active => ~Going(row) /\ row.status # "queued" BY DEF Active, Going
<1> HIDE DEF sealed
<1> QED BY <1>1, <1>2, <1>3, <1>4, SameServed

\* What the answer of a command that ends a run tells: the run has ended, has
\* been stopped, or is as it was.
Tells(row, o) ==
    /\ o.code = "ok" => ~Going(o.row)
    /\ o.code = "RunStopping" => o.row.status = "stopping"
    /\ o.row # row => ~Going(o.row) /\ ~Fresh(o.row)

\* fail_discussion_run seals the run as it is.
LEMMA FailServed ==
  ASSUME NEW b, NEW row, Good(row), RowFit(b, row), NEW id \in Ids, NEW expected,
         NEW o \in FailDiscussionRun(row, id, expected)
  PROVE  /\ Served(b, row, o.row) /\ Plain(row, o.row) /\ Tells(row, o)
         /\ o.code = "RunSealed" => ~Going(o.row)
<1> DEFINE sealed == SealRun(row, "failed", id)
<1>1. \/ o.row = row /\ o.code \notin {"ok", "RunSealed", "RunStopping"}
      \/ o.row = row /\ o.code = "RunStopping" /\ row.status = "stopping"
      \/ o.row = row /\ ~Going(row) /\ o.code # "RunStopping"
      \/ /\ row.status \in Active /\ o.code \notin {"RunSealed", "RunStopping"}
         /\ o.row = sealed \/ (o.row = row /\ o.code # "ok")
  <2>1. \/ row.status = "stopping" /\ o \in Refused(row, "RunStopping")
        \/ row.status = "failed" /\ o \in Committed(row, row, "ok")
        \/ o \in Refused(row, "EventIdReused") \/ o \in Refused(row, "SequenceConflict")
        \/ row.status \notin Active /\ o \in Refused(row, "RunSealed")
        \/ row.status \in Active /\ o \in Committed(row, sealed, "ok")
    BY DEF FailDiscussionRun
  <2>2. row.status \notin Active \/ row.status = "failed" => ~Going(row) BY DEF Active, Going
  <2> HIDE DEF sealed
  <2> QED BY <2>1, <2>2 DEF Committed, Refused
<1>2. ASSUME row.status \in Active
      PROVE  /\ Served(b, row, sealed) /\ Plain(row, sealed) /\ ~Going(sealed) /\ ~Fresh(sealed)
  BY <1>2, SealServed DEF Going, Fresh
<1> HIDE DEF sealed
<1> QED BY <1>1, <1>2, SameServed DEF Tells

\* finish_discussion ends a running run of the local test model with its text.
LEMMA FinishServed ==
  ASSUME NEW b, NEW row, Good(row), RowFit(b, row), NEW expected, NEW text \in Nat,
         text <= MaxText, NEW o \in FinishDiscussion(row, b # "mock", expected, text)
  PROVE  /\ Served(b, row, o.row) /\ Tells(row, o) /\ o.row.result = row.result
         /\ o.code = "RunSealed" => ~Going(o.row)
         /\ o.row # row => o.row.out = text
<1> DEFINE next == Texted(row, <<"finish">>, text, "completed")
<1>1. \/ o.row = row /\ o.code \notin {"ok", "RunSealed", "RunStopping"}
      \/ o.row = row /\ o.code = "RunStopping" /\ row.status = "stopping"
      \/ o.row = row /\ ~Going(row) /\ o.code # "RunStopping"
      \/ /\ row.status = "running" /\ o.code \notin {"RunSealed", "RunStopping"} /\ b = "mock"
         /\ o.row = next \/ (o.row = row /\ o.code # "ok")
  <2>1. \/ \E code \in {"ProviderResultRequired", "EventIdReused", "InvalidRequest",
                       "OutputConflict", "SequenceConflict"} : o \in Refused(row, code)
        \/ row.status = "completed" /\ o \in Committed(row, row, "ok")
        \/ EnsureStarted(row) # "ok" /\ o \in Refused(row, EnsureStarted(row))
        \/ EnsureStarted(row) = "ok" /\ b = "mock" /\ o \in Committed(row, next, "ok")
    BY DEF FinishDiscussion, Texted
  <2>2. /\ EnsureStarted(row) = "ok" => row.status = "running"
        /\ EnsureStarted(row) = "RunSealed" => ~Going(row)
        /\ EnsureStarted(row) = "RunStopping" => row.status = "stopping"
    BY DEF EnsureStarted, Going
  <2>3. row.status = "completed" => ~Going(row) BY DEF Going
  <2>4. EnsureStarted(row) \in {"ok", "RunNotStarted", "RunSealed", "RunStopping"}
    BY DEF EnsureStarted
  <2> HIDE DEF next
  <2> QED BY <2>1, <2>2, <2>3, <2>4 DEF Committed, Refused
<1>2. ASSUME row.status = "running", b = "mock"
      PROVE  Served(b, row, next) /\ EndsAs(next, "completed", text, row.result)
  BY <1>2, TextServed, IdsAreIds DEF Active, Terminal
<1> HIDE DEF next
<1>3. ASSUME row.status = "running", b = "mock"
      PROVE  /\ Served(b, row, next) /\ ~Going(next) /\ ~Fresh(next)
             /\ next.out = text /\ next.result = row.result
  BY <1>2, <1>3 DEF EndsAs, Going, Fresh
<1> QED BY <1>1, <1>3, SameServed DEF Tells

\* settle_discussion_stop ends a run that was asked to stop.
LEMMA SettleStopServed ==
  ASSUME NEW b, NEW row, Good(row), RowFit(b, row), NEW expected, NEW text \in Nat,
         text <= MaxText, NEW o \in SettleStop(row, expected, text)
  PROVE  /\ Served(b, row, o.row) /\ Tells(row, o) /\ o.row.result = row.result
         /\ o.code = "RunSealed" => o.row.status # "stopping"
         /\ o.row # row => expected = row.seq /\ o.row.out = text
<1> DEFINE next == Texted(row, <<"stopped">>, text, "stopped")
<1>1. \/ o.row = row /\ o.code \notin {"ok", "RunSealed", "RunStopping"}
      \/ o.row = row /\ o.code = "RunSealed" /\ row.status # "stopping"
      \/ o.row = row /\ ~Going(row) /\ o.code # "RunStopping" /\ row.status # "stopping"
      \/ /\ row.status = "stopping" /\ o.code \notin {"RunSealed", "RunStopping"}
         /\ (expected = row.seq /\ o.row = next) \/ (o.row = row /\ o.code # "ok")
  <2>1. \/ \E code \in {"EventIdReused", "OutputConflict", "SequenceConflict"} :
             o \in Refused(row, code)
        \/ row.status = "stopped" /\ o \in Committed(row, row, "ok")
        \/ row.status # "stopping" /\ o \in Refused(row, "RunSealed")
        \/ row.status = "stopping" /\ expected = row.seq /\ o \in Committed(row, next, "ok")
    BY DEF SettleStop, Texted
  <2>2. row.status = "stopped" => ~Going(row) BY DEF Going
  <2> HIDE DEF next
  <2> QED BY <2>1, <2>2 DEF Committed, Refused
<1>2. ASSUME row.status = "stopping"
      PROVE  Served(b, row, next) /\ EndsAs(next, "stopped", text, row.result)
  BY <1>2, TextServed, IdsAreIds DEF Active, Terminal
<1> HIDE DEF next
<1>3. ASSUME row.status = "stopping"
      PROVE  /\ Served(b, row, next) /\ ~Going(next) /\ ~Fresh(next) /\ next.status = "stopped"
             /\ next.out = text /\ next.result = row.result
  BY <1>2, <1>3 DEF EndsAs, Going, Fresh
<1> QED BY <1>1, <1>3, SameServed DEF Tells

\* settle_provider_discussion ends a claimed run with a receipt that the later
\* readings accept.
LEMMA SettleProviderServed ==
  ASSUME NEW b, NEW row, Good(row), RowFit(b, row), NEW stands, NEW report \in Rep,
         report.status = "completed" => report.text > 0,
         NEW o \in SettleProvider(row, stands, MaxText, report)
  PROVE  /\ Served(b, row, o.row) /\ Tells(row, o) /\ o.code # "RunSealed"
         /\ o.row # row => stands /\ o.row.out = report.text /\ o.row.result = report
<1> DEFINE s == ProviderStatus(row.status, report)
           mid == Recorded(row, <<"provider">>, "terminal", report.text)
           d == IF report.evidence = "delivered" THEN "delivered" ELSE row.dispatch
           next == Sealed(row, <<"provider">>, report.text, s, d, report)
           sent == [mid EXCEPT !.status = s, !.out = report.text,
                      !.dispatch = IF report.evidence = "delivered" THEN "delivered" ELSE mid.dispatch,
                      !.replies = mid.replies + 1, !.result = report]
<1>r. row \in Row BY GoodRow
<1>n. next = sent
  <2>1. mid.dispatch = row.dispatch BY <1>r, RecordedRest
  <2> QED BY <2>1 DEF Sealed
<1>1. \/ o.row = row /\ o.code \notin {"ok", "RunSealed", "RunStopping"}
      \/ o.row = row /\ row.result # NoReport /\ o.code \notin {"RunSealed", "RunStopping"}
      \/ /\ row.status \in {"running", "stopping"} /\ o.code \notin {"RunSealed", "RunStopping"}
         /\ stands /\ ReportShape(report, MaxText) = "ok" /\ report.seq = row.seq
         /\ o.row = next \/ (o.row = row /\ o.code # "ok")
  <2>0. ReportShape(report, MaxText) \in {"ok", "OutputTooLarge", "InvalidDelivery"}
    BY DEF ReportShape
  <2>1. \/ ReportShape(report, MaxText) # "ok" /\ o \in Refused(row, ReportShape(report, MaxText))
        \/ \E code \in {"ProviderResultConflict", "RunNotStarted", "InvalidDelivery",
                       "OutputConflict", "InvalidRequest", "SequenceConflict", "EventIdReused"} :
             o \in Refused(row, code)
        \/ row.result # NoReport /\ o \in Committed(row, row, "ok")
        \/ /\ row.status \in {"running", "stopping"} /\ stands
           /\ ReportShape(report, MaxText) = "ok" /\ report.seq = row.seq
           /\ o \in Committed(row, sent, "ok")
    BY DEF SettleProvider
  <2> HIDE DEF next, sent
  <2> QED BY <1>n, <2>0, <2>1 DEF Committed, Refused
<1>2. row.result # NoReport => ~Going(row)
  BY ActiveRow DEF Going, Active
<1>3. ASSUME row.status \in {"running", "stopping"}, ReportShape(report, MaxText) = "ok",
             report.seq = row.seq
      PROVE  Served(b, row, next) /\ EndsAs(next, s, report.text, report)
  <2>1. report.text \in Nat /\ BoundsAssumption BY BoundsAssumption DEF Rep
  <2>2. report.text <= MaxText /\ (report.status = "completed" => report.evidence = "delivered")
    BY <1>3, <2>1, BoundsAssumption DEF ReportShape
  <2>3. s \in Terminal BY DEF ProviderStatus, Terminal
  <2>4. s \in AllowedEndings(report) BY <1>3 DEF ProviderStatus, AllowedEndings
  <2>5. ReceiptReadable(report, MaxText) BY <2>2 DEF ReceiptReadable
  <2>6. report = NoReport => s # "completed" BY DEF NoReport, ProviderStatus
  <2>7. d \in {"claimed", "delivered", row.dispatch} OBVIOUS
  <2>8. row.status \in Active /\ <<"provider">> \in Ids BY <1>3, IdsAreIds DEF Active
  <2> HIDE DEF s, d
  <2> QED BY <1>3, <2>1, <2>2, <2>3, <2>4, <2>5, <2>6, <2>7, <2>8, ReportServed
<1>4. s \in {"interrupted", "stopped", "completed", "failed"} BY DEF ProviderStatus
<1> HIDE DEF next, s
<1>5. ASSUME row.status \in {"running", "stopping"}, ReportShape(report, MaxText) = "ok",
             report.seq = row.seq
      PROVE  /\ Served(b, row, next) /\ ~Going(next) /\ ~Fresh(next)
             /\ next.out = report.text /\ next.result = report
  BY <1>3, <1>4, <1>5 DEF EndsAs, Going, Fresh
<1> QED BY <1>1, <1>2, <1>5, SameServed DEF Tells

\* A command that fails before its COMMIT, or finds no connection, has left the
\* run as it was.
LEMMA ReachCases ==
  ASSUME NEW r, NEW outcomes, NEW o \in Reach(r, outcomes)
  PROVE  o \in outcomes \/ (o.row = rows[r] /\ o.code = "PersistenceUnavailable")
  BY DEF Reach, Reached, Refused

\* What an attempt to store an outcome makes of the run: it ends it as the
\* outcome says, or leaves it.
Stores(r, save, o) ==
    /\ Served(Bound(r), rows[r], o.row) /\ Tells(rows[r], o)
    /\ o.code = "RunSealed" => ~Going(o.row)
    /\ save.kind # "provider" => o.row.result = rows[r].result
    /\ save.kind \notin {"provider", "complete"} => o.row.out = rows[r].out
    /\ save.kind = "provider" /\ o.row # rows[r] =>
        /\ Stands(r, save.report) /\ o.row.out = save.report.text
        /\ o.row.result # NoReport => o.row.result.evidence = save.report.evidence

\* PendingSave::attempt with a copy of the run that was once true.
LEMMA AttemptStores ==
  ASSUME NEW r \in Runs, WellKept, RowFit(Bound(r), rows[r]), NEW save \in SaveT,
         NEW held \in HeldT, SaveFit(Bound(r), save), HeldFit(held, rows[r]),
         held.status # "absent", NEW o \in Attempt(r, save, held)
  PROVE  Stores(r, save, o)
<1> DEFINE row == rows[r]
           b == Bound(r)
           report == [save.report EXCEPT !.seq = held.seq]
<1>0. Good(row) BY DEF WellKept, RowsOK
<1>1. save.report \in Rep /\ held.seq \in Nat /\ held.out \in Nat /\ save.report.text \in Nat
      /\ held.status \in Statuses /\ held.out <= MaxText
  BY DEF SaveT, HeldT, Rep, HeldFit
<1>2. /\ report \in Rep /\ report.text = save.report.text /\ report.status = save.report.status
      /\ report.evidence = save.report.evidence
  BY <1>1 DEF Rep
<1>3. (r \in Live) <=> (b # "mock") BY DEF Live
<1>f. RowFit(b, row) OBVIOUS
<1>s. Served(b, row, row) /\ Plain(row, row) BY <1>0, SameServed
<1> HIDE DEF row, b
<1>4. CASE o.row = row /\ o.code \notin {"ok", "RunSealed", "RunStopping"}
  BY <1>4, <1>s DEF Stores, Tells, row, b
<1>5. CASE held.status \notin Active
  <2>1. o.row = row /\ o.code = "ok" BY <1>5 DEF Attempt, Refused, row
  <2>2. row.status \in Terminal BY <1>1, <1>5 DEF Statuses, Active, HeldFit, row
  <2>3. ~Going(row) BY <2>2 DEF Going, Terminal
  <2> QED BY <2>1, <2>3, <1>s DEF Stores, Tells, row, b
<1>6. CASE save.kind = "provider" /\ o \in SettleProvider(row, Stands(r, save.report), MaxText, report)
  <2>1. report.status = "completed" => report.text > 0 BY <1>2, <1>6 DEF SaveFit
  <2>2. /\ Served(b, row, o.row) /\ Tells(row, o) /\ o.code # "RunSealed"
        /\ o.row # row => Stands(r, save.report) /\ o.row.out = report.text
                          /\ o.row.result = report
    <3> DEFINE stands == Stands(r, save.report)
    <3> HIDE DEF report, stands
    <3>1. o \in SettleProvider(row, stands, MaxText, report) BY <1>6 DEF stands
    <3>2. /\ Served(b, row, o.row) /\ Tells(row, o) /\ o.code # "RunSealed"
          /\ o.row # row => stands /\ o.row.out = report.text /\ o.row.result = report
      BY <1>0, <1>2, <1>f, <2>1, <3>1, SettleProviderServed
    <3> QED BY <3>2 DEF stands
  <2> HIDE DEF report
  <2> QED BY <1>2, <1>6, <2>2 DEF Stores, row, b
<1>7. CASE held.status = "stopping" /\ save.kind # "provider"
           /\ o \in SettleStop(row, held.seq, held.out)
  <2>1. /\ Served(b, row, o.row) /\ Tells(row, o) /\ o.row.result = row.result
        /\ o.code = "RunSealed" => o.row.status # "stopping"
        /\ o.row # row => held.seq = row.seq /\ o.row.out = held.out
    BY <1>0, <1>1, <1>7, <1>f, SettleStopServed
  <2>2. o.row.out = row.out BY <2>1 DEF HeldFit, row
  <2>3. o.code = "RunSealed" => ~Going(o.row)
    <3>1. row.status # "running" BY <1>7 DEF HeldFit, row
    <3> QED BY <2>1, <3>1 DEF Tells, Going
  <2> QED BY <1>7, <2>1, <2>2, <2>3 DEF Stores, row, b
<1>8. CASE save.kind = "complete"
           /\ o \in FinishDiscussion(row, b # "mock", save.report.seq, save.report.text)
  <2> DEFINE text == save.report.text
             expected == save.report.seq
  <2>1. text \in Nat /\ text <= MaxText BY <1>1, <1>8, BoundsAssumption DEF SaveFit
  <2>2. o \in FinishDiscussion(row, b # "mock", expected, text) BY <1>8
  <2> HIDE DEF text, expected
  <2>3. /\ Served(b, row, o.row) /\ Tells(row, o) /\ o.row.result = row.result
        /\ o.code = "RunSealed" => ~Going(o.row)
    BY <1>0, <1>f, <2>1, <2>2, FinishServed
  <2> QED BY <1>8, <2>3 DEF Stores, row, b
<1>9. CASE save.kind # "provider" /\ o \in FailDiscussionRun(row, <<"fail", held.seq>>, held.seq)
  <2>1. /\ Served(b, row, o.row) /\ Plain(row, o.row) /\ Tells(row, o)
        /\ o.code = "RunSealed" => ~Going(o.row)
    BY <1>0, <1>1, <1>9, <1>f, IdsAreIds, FailServed
  <2> QED BY <1>9, <2>1 DEF Stores, Plain, row, b
<1>10. \/ o.row = row /\ o.code \notin {"ok", "RunSealed", "RunStopping"}
       \/ held.status \notin Active
       \/ save.kind = "provider" /\ o \in Reach(r, SettleProvider(row, Stands(r, save.report), MaxText, report))
       \/ held.status = "stopping" /\ save.kind # "provider"
          /\ o \in Reach(r, SettleStop(row, held.seq, held.out))
       \/ save.kind = "complete"
          /\ o \in Reach(r, FinishDiscussion(row, r \in Live, save.report.seq, save.report.text))
       \/ save.kind # "provider"
          /\ o \in Reach(r, FailDiscussionRun(row, <<"fail", held.seq>>, held.seq))
  BY DEF Attempt, Refused, row
<1>11. (r \in Live) = (b # "mock") BY DEF Live, b
<1> HIDE DEF report
<1>12. \A outcomes : o \in Reach(r, outcomes) =>
         o \in outcomes \/ (o.row = row /\ o.code = "PersistenceUnavailable")
  BY ReachCases DEF row
<1> QED BY <1>4, <1>5, <1>6, <1>7, <1>8, <1>9, <1>10, <1>11, <1>12

-----------------------------------------------------------------------------
\* What the desktop holds of a run, step by step of its worker.

\* What was read of a run stays an older state of it.
LEMMA HeldMoves ==
  ASSUME NEW held \in HeldT, NEW row, Good(row), NEW next, Keeps(row, next), Moves(row, next),
         HeldFit(held, row)
  PROVE  HeldFit(held, next)
<1>1. /\ held.seq \in Nat /\ row.seq \in Nat /\ next.seq \in Nat
      /\ next.status \in Statuses /\ row.status \in Statuses
  BY GoodRow DEF HeldT, Keeps
<1>2. held.seq <= next.seq /\ (held.seq = next.seq => held.out = next.out)
  BY <1>1 DEF HeldFit, Moves
<1>3. held.status \in Terminal => next.status \in Terminal BY DEF HeldFit, Keeps
<1>4. held.status = "stopping" => ~Fresh(next) /\ next.status # "running"
  BY <1>1 DEF HeldFit, Keeps, Moves, Fresh, Statuses, Terminal
<1> QED BY <1>2, <1>3, <1>4 DEF HeldFit

\* What is read now is the present state.
LEMMA HeldReads ==
  ASSUME NEW b, NEW row, Good(row), RowFit(b, row)
  PROVE  /\ HeldOf(row) \in HeldT /\ HeldFit(HeldOf(row), row)
         /\ HeldOf(row).status = row.status /\ HeldOf(row).seq = row.seq
         /\ HeldOf(row).out = row.out
<1>1. /\ HeldOf(row).status = row.status /\ HeldOf(row).seq = row.seq
      /\ HeldOf(row).out = row.out
  BY DEF HeldOf
<1>2. HeldOf(row) \in HeldT BY GoodRow, ReadTyped
<1>3. row.out <= MaxText /\ row.seq \in Nat BY GoodRow DEF RowFit
<1>4. row.status = "stopping" => ~Fresh(row) BY DEF Fresh
<1> QED BY <1>1, <1>2, <1>3, <1>4 DEF HeldFit

\* A worker that holds no request any more, and goes on to save an outcome (or
\* to reject the request).
LEMMA LeavesToSave ==
  ASSUME NEW b, NEW row, NEW w \in WorkerT, NEW save, NEW wr, NEW open, NEW claims,
         NEW asked, NEW sig, DeskFit(b, row, w, save, wr, open, claims, asked, sig),
         w.pc \in External, NEW w2 \in WorkerT, w2.held = w.held, w2.text = w.text,
         w2.pc \in {"reread", "save", "flush", "reject"},
         w2.pc = "reject" => w2.save = w.save, w2.pc # "reject" => w2.save.kind # "none",
         SaveFit(b, w2.save), w2.save.kind = "provider" => w2.save.report.text >= w.text,
         b = "app_server" /\ wr.hook = "ack" => Acknowledges(w2.save), NEW sig2
  PROVE  DeskFit(b, row, w2, save, wr, open, claims, asked, sig2)
<1>1. Going(row) /\ ~Fresh(row) /\ row.out <= w.text /\ w.pc # "none"
  <2>1. w.pc \notin {"none"} \cup Storing BY DEF External, Storing
  <2> QED BY <2>1 DEF DeskFit, WorkerFit, Going, Fresh
<1>2. w2.pc \notin External /\ w2.pc \notin Early /\ w2.pc \notin Unpaid /\ w2.pc # "none"
      /\ w2.pc \notin Local /\ w2.pc \notin Storing /\ (w2.pc \in Saving <=> w2.pc # "reject")
      /\ w2.pc \notin {"deliver", "write"}
  BY DEF External, Early, Unpaid, Local, Storing, Saving
<1>3. WorkerFit(b, w2, row) BY <1>1, <1>2 DEF DeskFit, WorkerFit
<1>4. PendingFit(b, save, w2, row) BY <1>1, <1>2 DEF DeskFit, PendingFit
<1>5. WireFit(b, wr, w2, save, row) BY <1>1, <1>2 DEF DeskFit, WireFit
<1>6. ClaimFit(b, open, claims, w2, row) BY <1>1, <1>2 DEF ClaimFit
<1>7. SignalFit(w2, row, asked, sig2) BY <1>2 DEF SignalFit
<1> QED BY <1>3, <1>4, <1>5, <1>6, <1>7 DEF DeskFit

\* A worker that comes nearer to the answer of its provider.
LEMMA GoesOn ==
  ASSUME NEW b, NEW row, Good(row), RowFit(b, row), NEW w \in WorkerT, NEW save, NEW wr, NEW open, NEW claims,
         NEW asked, NEW sig, DeskFit(b, row, w, save, wr, open, claims, asked, sig),
         w.pc \in Early, NEW w2 \in WorkerT, w2.text = w.text, w2.save = w.save,
         HeldFit(w2.held, row), w2.held.out <= w.text,
         w2.held.status \notin {"absent", "queued"}, w2.pc \in External,
         NEW wr2, wr2.turn = wr.turn, wr2.sent <= 1, w2.pc \in Unpaid => wr2.sent = 0,
         b = "app_server" /\ wr2.hook = "ack" => w2.pc = "streaming", NEW sig2, sig => sig2
  PROVE  DeskFit(b, row, w2, save, wr2, open, claims, asked, sig2)
<1>1. w.pc \in External BY DEF External, Early
<1>2. Going(row) /\ ~Fresh(row) /\ row.out <= w.text /\ w.text = 0 /\ w.text <= MaxText
      /\ b # "mock" /\ w.save.kind = "none" /\ SaveFit(b, w.save)
  <2>1. w.pc \notin {"none"} \cup Storing BY DEF Early, Storing
  <2> QED BY <1>1, <2>1 DEF DeskFit, WorkerFit, Going, Fresh
<1>3. w2.pc \notin Local /\ w2.pc \notin Storing /\ w2.pc \notin Saving /\ w2.pc # "none"
      /\ w2.pc \notin {"deliver", "write"} /\ (w2.pc \in Early <=> w2.pc # "streaming")
  BY DEF External, Early, Local, Storing, Saving
<1>4. WorkerFit(b, w2, row) BY <1>2, <1>3 DEF WorkerFit
<1>5. PendingFit(b, save, w2, row)
  <2>1. save = NoSave BY <1>1 DEF DeskFit, PendingFit
  <2> QED BY <1>1, <1>3, <2>1 DEF DeskFit, PendingFit
<1>6. WireFit(b, wr2, w2, save, row)
  <2>1. Acknowledges(w2.save) BY <1>2 DEF Acknowledges
  <2>2. Acknowledges(save)
    <3>1. save = NoSave BY <1>1 DEF DeskFit, PendingFit
    <3> QED BY <3>1 DEF NoSave, Acknowledges
  <2>3. DispatchBound(row, wr2.turn) BY DEF DeskFit, WireFit
  <2>4. b = "app_server" /\ wr2.hook = "ack" => w2.pc \notin Early BY <1>3
  <2>5. row.result = NoReport BY <1>2, ActiveRow DEF Going, Active
  <2>6. w2.pc \in Unpaid \/ Fresh(row) => wr2.sent = 0 BY <1>2
  <2> QED BY <1>2, <2>1, <2>2, <2>3, <2>4, <2>5, <2>6 DEF WireFit
<1>7. ClaimFit(b, open, claims, w2, row) BY <1>1, <1>2 DEF DeskFit, ClaimFit
<1>8. SignalFit(w2, row, asked, sig2) BY <1>1 DEF DeskFit, SignalFit
<1> QED BY <1>4, <1>5, <1>6, <1>7, <1>8 DEF DeskFit

\* The receipt of a run and its dispatch after a command.
LEMMA ReceiptMoves ==
  ASSUME NEW b, NEW row, NEW next, Moves(row, next), NEW wr, NEW w, NEW save,
         WireFit(b, wr, w, save, row),
         \/ next.result = row.result
         \/ /\ b = "app_server" /\ wr.hook = "ack" /\ next.result # NoReport
                 => next.result.evidence = "delivered"
            /\ b = "app_server" /\ next.result # NoReport => DeliveryStands(wr.turn, next.result),
         row.dispatch \in {"pending", "claimed", "delivered"},
         next.dispatch \in {"pending", "claimed", "delivered"}
  PROVE  /\ DispatchBound(next, wr.turn)
         /\ next.result # NoReport /\ b = "app_server" => DeliveryStands(wr.turn, next.result)
         /\ b = "app_server" /\ wr.hook = "ack" /\ next.result # NoReport
              => next.result.evidence = "delivered"
<1>1. DispatchBound(next, wr.turn) BY DEF WireFit, DispatchBound, Moves
<1> QED BY <1>1 DEF WireFit

\* A worker that saves, or is local, goes on doing so.
LEMMA StaysInside ==
  ASSUME NEW b, NEW row, NEW next, Good(row), Good(next), Moves(row, next),
         next.result = row.result,
         NEW w \in WorkerT, NEW save, NEW wr, NEW open, NEW claims, NEW asked, NEW sig,
         DeskFit(b, row, w, save, wr, open, claims, asked, sig), w.pc # "none",
         NEW w2 \in WorkerT, w2.pc # "none", w2.pc \notin External, WorkerFit(b, w2, next),
         b = "app_server" /\ wr.hook = "ack" => Acknowledges(w2.save), NEW open2, NEW sig2
  PROVE  DeskFit(b, next, w2, save, wr, open2, claims, asked, sig2)
<1>1. ~Fresh(row) /\ ~Fresh(next) BY DEF DeskFit, WorkerFit, Moves
<1>2. save \in {NoSave, FailSave} /\ save.kind \notin {"provider", "complete"}
  BY DEF DeskFit, PendingFit, NoSave, FailSave
<1>3. PendingFit(b, save, w2, next) BY <1>2 DEF DeskFit, PendingFit
<1>4. w2.pc \notin Early /\ w2.pc \notin Unpaid BY DEF External, Early, Unpaid
<1>5. WireFit(b, wr, w2, save, next)
  <2>1. WireFit(b, wr, w, save, row) BY DEF DeskFit
  <2>2. /\ DispatchBound(next, wr.turn)
        /\ next.result # NoReport /\ b = "app_server" => DeliveryStands(wr.turn, next.result)
        /\ b = "app_server" /\ wr.hook = "ack" /\ next.result # NoReport
             => next.result.evidence = "delivered"
    BY <2>1, GoodRow, ReceiptMoves
  <2> QED BY <1>1, <1>4, <2>1, <2>2 DEF WireFit
<1>6. ClaimFit(b, open2, claims, w2, next) BY <1>1 DEF ClaimFit
<1>7. SignalFit(w2, next, asked, sig2) BY DEF SignalFit
<1> QED BY <1>3, <1>5, <1>6, <1>7 DEF DeskFit

\* A run without a worker.
LEMMA NobodyFits ==
  ASSUME NEW b, NEW row, Good(row), RowFit(b, row)
  PROVE  WorkerFit(b, NoWorker, row) /\ HeldFit(NoHeld, row) /\ SaveFit(b, NoSave)
         /\ SaveFit(b, FailSave)
<1>1. /\ NoWorker.pc = "none" /\ NoWorker.held = NoHeld /\ NoWorker.save = NoSave
      /\ NoWorker.text = 0 /\ NoHeld.out = 0 /\ NoHeld.seq = 0 /\ NoHeld.status = "absent"
      /\ NoSave.kind = "none" /\ NoSave.report.text = 0 /\ FailSave.kind = "fail"
      /\ FailSave.report.text = 0
  BY DEF NoWorker, NoHeld, NoSave, NoReport, FailSave
<1>2. HeldFit(NoHeld, row)
  <2>1. row.seq \in Nat /\ (row.seq = 0 => row.out = 0) BY GoodRow DEF RowFit
  <2>2. "absent" \notin Terminal BY DEF Terminal
  <2> QED BY <1>1, <2>1, <2>2, BoundsAssumption DEF HeldFit
<1>3. SaveFit(b, NoSave) /\ SaveFit(b, FailSave) BY <1>1, BoundsAssumption DEF SaveFit
<1>4. WorkerFit(b, NoWorker, row)
  BY <1>1, <1>2, <1>3, BoundsAssumption DEF WorkerFit, External, Early, Saving, Storing, Local
<1> QED BY <1>2, <1>3, <1>4

\* What stays of a worker that is gone.
Left(save, kept) == IF kept = NoSave THEN save ELSE kept

\* A worker that is gone has ended its run, or has left its outcome.
LEMMA Ends ==
  ASSUME NEW b, NEW row, NEW next, Good(row), Good(next), Moves(row, next), RowFit(b, next),
         NEW w \in WorkerT, NEW save, NEW wr, NEW open, NEW claims, NEW asked, NEW sig,
         DeskFit(b, row, w, save, wr, open, claims, asked, sig), w.pc # "none",
         \/ next.result = row.result
         \/ /\ b = "app_server" /\ wr.hook = "ack" /\ next.result # NoReport
                 => next.result.evidence = "delivered"
            /\ b = "app_server" /\ next.result # NoReport => DeliveryStands(wr.turn, next.result),
         NEW kept,
         kept = NoSave => ~Going(next),
         kept # NoSave =>
            /\ SaveFit(b, kept) /\ (kept.kind = "provider" => kept.report.text >= next.out)
            /\ kept.kind = "complete" /\ Going(next) => kept.report.seq = next.seq
            /\ b = "app_server" /\ wr.hook = "ack" => Acknowledges(kept),
         NEW open2, NEW sig2
  PROVE  DeskFit(b, next, NoWorker, Left(save, kept), wr, open2, claims, asked, sig2)
<1>1. ~Fresh(row) /\ ~Fresh(next) BY DEF DeskFit, WorkerFit, Moves
<1>2. save \in {NoSave, FailSave} /\ SaveFit(b, save) BY DEF DeskFit, PendingFit
<1>3. /\ NoWorker.pc = "none" /\ NoWorker.save.kind = "none" /\ NoSave.kind = "none"
      /\ FailSave.kind = "fail"
  BY DEF NoWorker, NoSave, FailSave
<1>4. WorkerFit(b, NoWorker, next) BY NobodyFits
<1>5. "none" \notin External /\ "none" \notin Early /\ "none" \notin Unpaid
  BY DEF External, Early, Unpaid
<1>6. PendingFit(b, Left(save, kept), NoWorker, next)
  <2>1. CASE kept = NoSave
    BY <1>1, <1>2, <1>3, <1>5, <2>1 DEF PendingFit, Left
  <2>2. CASE kept # NoSave
    BY <1>1, <1>3, <1>5, <2>2 DEF PendingFit, Left
  <2> QED BY <2>1, <2>2
<1>7. WireFit(b, wr, NoWorker, Left(save, kept), next)
  <2>1. WireFit(b, wr, w, save, row) BY DEF DeskFit
  <2>2. /\ DispatchBound(next, wr.turn)
        /\ next.result # NoReport /\ b = "app_server" => DeliveryStands(wr.turn, next.result)
        /\ b = "app_server" /\ wr.hook = "ack" /\ next.result # NoReport
             => next.result.evidence = "delivered"
    BY <2>1, GoodRow, ReceiptMoves
  <2>3. Acknowledges(NoWorker.save) BY <1>3 DEF Acknowledges
  <2>4. b = "app_server" /\ wr.hook = "ack" => Acknowledges(Left(save, kept))
    BY <2>1 DEF WireFit, Left
  <2>5. wr.sent <= 1 BY <2>1 DEF WireFit
  <2> QED BY <1>1, <1>3, <1>5, <2>2, <2>3, <2>4, <2>5 DEF WireFit
<1>8. ClaimFit(b, open2, claims, NoWorker, next) BY <1>1, <1>3, <1>5 DEF ClaimFit
<1>9. SignalFit(NoWorker, next, asked, sig2) BY <1>3, <1>5 DEF SignalFit
<1> QED BY <1>4, <1>6, <1>7, <1>8, <1>9 DEF DeskFit

\* A run that is moved by somebody else than its worker.
LEMMA MovesAlone ==
  ASSUME NEW b, NEW row, NEW next, Good(row), Good(next), Keeps(row, next), Moves(row, next),
         RowFit(b, row),
         NEW w \in WorkerT, NEW save, NEW wr, NEW open, NEW claims, NEW asked, NEW sig,
         DeskFit(b, row, w, save, wr, open, claims, asked, sig),
         w.pc # "none" => next.out = row.out,
         w.pc \in External => Going(next),
         Going(next) => Going(row) /\ next.seq = row.seq,
         \/ next.result = row.result
         \/ /\ b = "app_server" /\ wr.hook = "ack" /\ next.result # NoReport
                 => next.result.evidence = "delivered"
            /\ b = "app_server" /\ next.result # NoReport => DeliveryStands(wr.turn, next.result),
         NEW left \in {save, NoSave}, left # save => ~Going(next),
         save.kind = "provider" => save.report.text >= next.out,
         NEW asked2, NEW sig2,
         w.pc \in External /\ next.status = "stopping" /\ ~asked2 => sig2
  PROVE  DeskFit(b, next, w, left, wr, open, claims, asked2, sig2)
<1>0. w.held \in HeldT BY DEF WorkerT
<1>1. WorkerFit(b, w, next)
  <2>1. HeldFit(w.held, next) BY <1>0, HeldMoves DEF DeskFit, WorkerFit
  <2>2. w.pc # "none" => ~Fresh(next) BY DEF DeskFit, WorkerFit, Moves
  <2>3. w.pc \in {"deliver", "write"} => w.pc # "none" OBVIOUS
  <2>4. w.pc \in {"deliver", "write"} /\ Going(next) => w.held.seq = next.seq
    BY DEF DeskFit, WorkerFit
  <2>5. w.pc \in Storing /\ w.save.kind = "complete" /\ Going(next)
          => w.save.report.seq = next.seq
    BY DEF DeskFit, WorkerFit
  <2>6. w.pc \notin {"none"} \cup Storing => next.out <= w.text BY DEF DeskFit, WorkerFit
  <2> QED BY <2>1, <2>2, <2>4, <2>5, <2>6 DEF DeskFit, WorkerFit
<1>2. PendingFit(b, left, w, next)
  <2>1. CASE left = save
    <3>1. PendingFit(b, save, w, row) BY DEF DeskFit
    <3>2. save \notin {NoSave, FailSave} => w.pc = "none" /\ ~Fresh(next)
      BY <3>1 DEF PendingFit, Moves
    <3> QED BY <2>1, <3>1, <3>2 DEF PendingFit
  <2>2. CASE left = NoSave /\ left # save
    <3>1. NoSave.kind = "none" /\ SaveFit(b, NoSave) BY NobodyFits DEF NoSave
    <3> QED BY <2>2, <3>1 DEF PendingFit
  <2> QED BY <2>1, <2>2
<1>3. WireFit(b, wr, w, left, next)
  <2>1. WireFit(b, wr, w, save, row) BY DEF DeskFit
  <2>2. /\ DispatchBound(next, wr.turn)
        /\ next.result # NoReport /\ b = "app_server" => DeliveryStands(wr.turn, next.result)
        /\ b = "app_server" /\ wr.hook = "ack" /\ next.result # NoReport
             => next.result.evidence = "delivered"
    BY <2>1, GoodRow, ReceiptMoves
  <2>3. Acknowledges(NoSave) BY DEF Acknowledges, NoSave
  <2>4. Fresh(next) => Fresh(row) BY DEF Moves
  <2> QED BY <2>1, <2>2, <2>3, <2>4 DEF WireFit
<1>4. ClaimFit(b, open, claims, w, next)
  <2>1. Fresh(next) => Fresh(row) BY DEF Moves
  <2> QED BY <2>1 DEF DeskFit, ClaimFit
<1>5. SignalFit(w, next, asked2, sig2) BY DEF SignalFit
<1> QED BY <1>1, <1>2, <1>3, <1>4, <1>5 DEF DeskFit

\* A worker that streams the response goes on to stream it.
LEMMA StreamsOn ==
  ASSUME NEW b, NEW row, NEW next, Good(row), Good(next), Moves(row, next),
         next.status = row.status, next.result = row.result,
         NEW w \in WorkerT, NEW save, NEW wr, NEW open, NEW claims, NEW asked, NEW sig,
         DeskFit(b, row, w, save, wr, open, claims, asked, sig), w.pc = "streaming",
         NEW w2 \in WorkerT, w2.pc = "streaming", w2.save = w.save,
         HeldFit(w2.held, next), w2.held.status \notin {"absent", "queued"},
         w2.held.out <= w2.text, next.out <= w2.text, w2.text <= MaxText,
         NEW sig2, sig => sig2
  PROVE  DeskFit(b, next, w2, save, wr, open, claims, asked, sig2)
<1>1. "streaming" \in External BY DEF External
<1>2. Going(row) /\ Going(next) /\ ~Fresh(row) /\ ~Fresh(next) /\ b # "mock"
      /\ w.save.kind = "none" /\ SaveFit(b, w.save)
  BY <1>1 DEF DeskFit, WorkerFit, Going, Fresh
<1>3. save = NoSave /\ save.kind = "none" /\ SaveFit(b, save)
  BY <1>1 DEF DeskFit, PendingFit, NoSave
<1>4. WorkerFit(b, w2, next)
  BY <1>2 DEF WorkerFit, External, Early, Saving, Storing, Local
<1>5. PendingFit(b, save, w2, next) BY <1>2, <1>3 DEF PendingFit
<1>6. WireFit(b, wr, w2, save, next)
  <2>1. WireFit(b, wr, w, save, row) BY DEF DeskFit
  <2>2. /\ DispatchBound(next, wr.turn)
        /\ next.result # NoReport /\ b = "app_server" => DeliveryStands(wr.turn, next.result)
        /\ b = "app_server" /\ wr.hook = "ack" /\ next.result # NoReport
             => next.result.evidence = "delivered"
    BY <2>1, GoodRow, ReceiptMoves
  <2>3. "streaming" \notin Early /\ "streaming" \notin Unpaid BY DEF Early, Unpaid
  <2> QED BY <1>2, <2>1, <2>2, <2>3 DEF WireFit
<1>7. ClaimFit(b, open, claims, w2, next) BY <1>1, <1>2 DEF DeskFit, ClaimFit
<1>8. SignalFit(w2, next, asked, sig2) BY <1>1 DEF DeskFit, SignalFit
<1> QED BY <1>4, <1>5, <1>6, <1>7, <1>8 DEF DeskFit

\* The callback of the app server writes the dispatch of a run.
LEMMA WireTurns ==
  ASSUME NEW b, NEW row, NEW w, NEW save, NEW wr, NEW open, NEW claims, NEW asked, NEW sig,
         DeskFit(b, row, w, save, wr, open, claims, asked, sig),
         NEW wr2, wr2.sent = wr.sent, wr2.hook = "ack" => wr.hook = "ack",
         \/ wr2.turn = wr.turn
         \/ row.result = NoReport /\ row.dispatch \in {"claimed", "delivered"}
         \/ wr.hook = "ack" /\ wr.turn # "none" /\ wr2.turn = "acknowledged"
  PROVE  DeskFit(b, row, w, save, wr2, open, claims, asked, sig)
<1>1. WireFit(b, wr, w, save, row) BY DEF DeskFit
<1>2. WireFit(b, wr2, w, save, row)
  BY <1>1 DEF WireFit, DispatchBound, DeliveryStands
<1> QED BY <1>2 DEF DeskFit

-----------------------------------------------------------------------------
\* A step of the worker of one run.

\* What such a step may change besides the worker, its registration, its
\* retained outcome and its row.
Around(r) ==
    /\ \A q \in Runs \ {r} :
        rows'[q] = rows[q] /\ wire'[q] = wire[q] /\ signal'[q] = signal[q]
    /\ UNCHANGED <<callers, retry, stopper>>
    /\ project'.binding = project.binding /\ project'.epoch = project.epoch
    /\ faults' \in 0..FaultLimit
    /\ signal' \in [Runs -> BOOLEAN] /\ wire' \in [Runs -> WireT]
Elsewhere(r) ==
    /\ \A q \in Runs \ {r} :
        worker'[q] = worker[q] /\ pending'[q] = pending[q] /\ (q \in registry') = (q \in registry)
    /\ registry' \subseteq Runs

\* What is known of one run.
LEMMA RunOf ==
  ASSUME Fits, NEW r \in Runs
  PROVE  /\ Good(rows[r]) /\ RowFit(Bound(r), rows[r]) /\ DeskOf(r)
         /\ RetryFit(retry[r], rows[r])
         /\ worker[r] \in WorkerT /\ pending[r] \in SaveT /\ retry[r] \in HeldT
         /\ wire[r] \in WireT /\ signal[r] \in BOOLEAN /\ stopper[r] \in BOOLEAN
         /\ worker[r].held \in HeldT /\ worker[r].save \in SaveT /\ worker[r].text \in Nat
         /\ worker[r].pc \in Places /\ worker[r].held.seq \in Nat /\ worker[r].held.out \in Nat
<1>1. worker[r] \in WorkerT BY DEF Fits, WellKept, DeskOK
<1> QED BY <1>1 DEF Fits, WellKept, RowsOK, DeskOK, OutsideOK, WorkerT, HeldT

\* The other runs stand as before.
LEMMA OneFits ==
  ASSUME Fits, NEW r \in Runs, WellKept', Around(r), Elsewhere(r),
         Served(Bound(r), rows[r], rows'[r]), Keeps(rows[r], rows'[r]),
         DeskFit(Bound(r), rows'[r], worker'[r], pending'[r], wire'[r], r \in registry',
                 Claims(r), stopper[r], signal'[r])
  PROVE  Fits'
<1>1. OutsideOK' BY DEF Fits, OutsideOK, Around, Elsewhere
<1>2. \A q \in Runs : Claims(q)' = Claims(q) /\ Bound(q)' = Bound(q) BY DEF Around, Claims, Bound
<1>3. ASSUME NEW q \in Runs
      PROVE  RowFit(Bound(q), rows[q])' /\ DeskOf(q)' /\ RetryFit(retry[q], rows[q])'
  <2>1. CASE q = r
    <3>1. RetryFit(retry[r], rows'[r])
      BY RunOf, HeldMoves DEF RetryFit, Served
    <3>2. RowFit(Bound(r), rows'[r]) BY DEF Served
    <3>3. retry' = retry /\ stopper' = stopper BY DEF Around
    <3> QED BY <1>2, <2>1, <3>1, <3>2, <3>3 DEF DeskOf
  <2>2. CASE q # r
    <3>1. /\ rows'[q] = rows[q] /\ wire'[q] = wire[q] /\ signal'[q] = signal[q]
          /\ worker'[q] = worker[q] /\ pending'[q] = pending[q]
          /\ (q \in registry') = (q \in registry) /\ retry' = retry /\ stopper' = stopper
      BY <2>2 DEF Around, Elsewhere
    <3>2. RowFit(Bound(q), rows[q]) /\ DeskOf(q) /\ RetryFit(retry[q], rows[q]) BY DEF Fits
    <3>3. DeskOf(q)' BY <1>2, <3>1, <3>2 DEF DeskOf
    <3>4. RowFit(Bound(q), rows[q])' BY <1>2, <3>1, <3>2
    <3>5. RetryFit(retry[q], rows[q])' BY <3>1, <3>2
    <3> QED BY <3>3, <3>4, <3>5
  <2> QED BY <2>1, <2>2
<1> QED BY <1>1, <1>3 DEF Fits

\* A worker that steps to another place, or has another copy of the run.
LEMMA StepFits ==
  ASSUME Fits, NEW r \in Runs, WellKept', Around(r), NEW w, Step(r, w),
         UNCHANGED <<registry, pending>>,
         Served(Bound(r), rows[r], rows'[r]), Keeps(rows[r], rows'[r]),
         DeskFit(Bound(r), rows'[r], w, pending[r], wire'[r], r \in registry, Claims(r),
                 stopper[r], signal'[r])
  PROVE  Fits'
<1>1. worker' = [worker EXCEPT ![r] = w] /\ worker \in [Runs -> WorkerT] /\ registry \subseteq Runs
  BY DEF Step, Fits, WellKept, DeskOK, OutsideOK
<1>2. worker'[r] = w BY <1>1
<1>3. Elsewhere(r) BY <1>1 DEF Elsewhere
<1>4. DeskFit(Bound(r), rows'[r], worker'[r], pending'[r], wire'[r], r \in registry',
              Claims(r), stopper[r], signal'[r])
  BY <1>2
<1> QED BY <1>3, <1>4, OneFits

\* A run that is not written is served.
LEMMA RestServed ==
  ASSUME Fits, NEW r \in Runs, rows' = rows
  PROVE  Served(Bound(r), rows[r], rows'[r]) /\ Keeps(rows[r], rows'[r])
  BY RunOf, SameServed, KeepsSame

\* A worker that ends its response goes on to save an outcome.
LEMMA ToSaveFits ==
  ASSUME Fits, NEW r \in Runs, WellKept', Around(r), rows' = rows,
         worker[r].pc \in External, NEW save \in SaveT, ToSave(r, save),
         save.kind # "none", SaveFit(Bound(r), save),
         save.kind = "provider" => save.report.text >= worker[r].text,
         Bound(r) = "app_server" /\ wire'[r].hook = "ack" => Acknowledges(save),
         DeskFit(Bound(r), rows[r], worker[r], pending[r], wire'[r], r \in registry, Claims(r),
                 stopper[r], signal[r])
  PROVE  Fits'
<1> DEFINE pc == IF Bound(r) = "http" THEN "save" ELSE "reread"
           w == [worker[r] EXCEPT !.pc = pc, !.save = save]
<1>1. worker[r] \in WorkerT BY RunOf
<1>2. Step(r, w) /\ UNCHANGED <<registry, pending>> BY DEF ToSave
<1>3. pc \in {"reread", "save"} OBVIOUS
<1> HIDE DEF pc
<1>4. /\ w \in WorkerT /\ w.held = worker[r].held /\ w.text = worker[r].text /\ w.save = save
      /\ w.pc \in {"reread", "save"}
  BY <1>1, <1>3 DEF WorkerT, Places
<1> HIDE DEF w
<1>5. DeskFit(Bound(r), rows[r], w, pending[r], wire'[r], r \in registry, Claims(r), stopper[r],
              signal'[r])
  BY <1>1, <1>4, LeavesToSave
<1> QED BY <1>2, <1>5, RestServed, StepFits

\* A worker that ends with its thread.
LEMMA EndFits ==
  ASSUME Fits, NEW r \in Runs, WellKept', Around(r), worker[r].pc # "none", wire'[r] = wire[r],
         NEW kept, End(r, kept),
         Served(Bound(r), rows[r], rows'[r]), Keeps(rows[r], rows'[r]),
         \/ rows'[r].result = rows[r].result
         \/ /\ Bound(r) = "app_server" /\ wire[r].hook = "ack" /\ rows'[r].result # NoReport
                 => rows'[r].result.evidence = "delivered"
            /\ Bound(r) = "app_server" /\ rows'[r].result # NoReport
                 => DeliveryStands(wire[r].turn, rows'[r].result),
         kept = NoSave => ~Going(rows'[r]),
         kept # NoSave =>
            /\ SaveFit(Bound(r), kept)
            /\ kept.kind = "provider" => kept.report.text >= rows'[r].out
            /\ kept.kind = "complete" /\ Going(rows'[r]) => kept.report.seq = rows'[r].seq
            /\ Bound(r) = "app_server" /\ wire[r].hook = "ack" => Acknowledges(kept)
  PROVE  Fits'
<1>1. /\ worker' = [worker EXCEPT ![r] = NoWorker] /\ worker \in [Runs -> WorkerT]
      /\ registry' = registry \ {r} /\ registry \subseteq Runs /\ pending \in [Runs -> SaveT]
      /\ pending' = IF kept = NoSave THEN pending ELSE [pending EXCEPT ![r] = kept]
  BY DEF End, Step, Fits, WellKept, DeskOK, OutsideOK
<1>2. worker'[r] = NoWorker BY <1>1
<1>3. pending'[r] = Left(pending[r], kept) BY <1>1 DEF Left
<1>4. Elsewhere(r) BY <1>1 DEF Elsewhere
<1>5. Good(rows'[r]) BY DEF WellKept, RowsOK
<1>6. Moves(rows[r], rows'[r]) /\ RowFit(Bound(r), rows'[r]) BY DEF Served
<1>7. DeskFit(Bound(r), rows[r], worker[r], pending[r], wire[r], r \in registry, Claims(r),
              stopper[r], signal[r])
  BY RunOf DEF DeskOf
<1>8. DeskFit(Bound(r), rows'[r], NoWorker, Left(pending[r], kept), wire[r], r \in registry',
              Claims(r), stopper[r], signal'[r])
  BY <1>5, <1>6, <1>7, RunOf, Ends
<1> QED BY <1>2, <1>3, <1>4, <1>8, OneFits

\* A step changes no more of the actor than a row and what the answer of a
\* command does: it may fence, and it may count a fault.
LEMMA AroundOf ==
  ASSUME Fits, NEW r \in Runs,
         rows' = rows \/ \E o : Do(r, o),
         \/ UNCHANGED <<project, faults>> \/ \E code : Answer(code)
         \/ project' = project /\ \E happened \in BOOLEAN : Fault(happened),
         UNCHANGED <<callers, retry, stopper>>,
         signal' = signal \/ \E x \in BOOLEAN : signal' = [signal EXCEPT ![r] = x],
         wire' = wire \/ \E x \in WireT : wire' = [wire EXCEPT ![r] = x]
  PROVE  Around(r)
<1>0. /\ signal \in [Runs -> BOOLEAN] /\ wire \in [Runs -> WireT] /\ faults \in 0..FaultLimit
      /\ rows \in [Runs -> Row] /\ FaultLimit \in Nat
      /\ project \in [epoch : Nat, fenced : BOOLEAN, connected : BOOLEAN,
                      binding : [Runs -> Bindings]]
  BY BoundsAssumption DEF Fits, OutsideOK, WellKept, RowsOK, ProjectOK
<1>1. \A q \in Runs \ {r} : rows'[q] = rows[q] BY <1>0 DEF Do
<1>2. signal' \in [Runs -> BOOLEAN] /\ \A q \in Runs \ {r} : signal'[q] = signal[q] BY <1>0
<1>3. wire' \in [Runs -> WireT] /\ \A q \in Runs \ {r} : wire'[q] = wire[q] BY <1>0
<1>4. \A happened : Fault(happened) => faults' \in 0..FaultLimit BY <1>0 DEF Fault
<1>5. faults' \in 0..FaultLimit BY <1>0, <1>4 DEF Answer
<1>6. project'.binding = project.binding /\ project'.epoch = project.epoch BY <1>0 DEF Answer
<1> QED BY <1>1, <1>2, <1>3, <1>5, <1>6 DEF Around

\* The outcomes of a request that was not sent.
LEMMA UnsentFits ==
  ASSUME NEW b
  PROVE  /\ Unsent.kind = "provider" /\ UnsentStopped.kind = "provider" /\ FailSave.kind = "fail"
         /\ SaveFit(b, Unsent) /\ SaveFit(b, UnsentStopped) /\ SaveFit(b, FailSave)
         /\ Unsent.report.text = 0 /\ UnsentStopped.report.text = 0
<1>1. /\ Unsent.kind = "provider" /\ UnsentStopped.kind = "provider" /\ FailSave.kind = "fail"
      /\ Unsent.report.text = 0 /\ UnsentStopped.report.text = 0 /\ FailSave.report.text = 0
      /\ Unsent.report.status = "failed" /\ UnsentStopped.report.status = "stopped"
  BY DEF Unsent, UnsentStopped, ProviderSave, FailSave, NoReport
<1> QED BY <1>1, BoundsAssumption DEF SaveFit

\* Nobody has observed anything of a response that was not answered yet.
LEMMA EarlyOf ==
  ASSUME Fits, NEW r \in Runs, worker[r].pc \in Early
  PROVE  /\ worker[r].text = 0 /\ worker[r].pc \in External /\ worker[r].pc # "none"
         /\ ~(Bound(r) = "app_server" /\ wire[r].hook = "ack")
         /\ worker[r].save.kind = "none" /\ Going(rows[r]) /\ HeldFit(worker[r].held, rows[r])
         /\ worker[r].held.out <= worker[r].text
         /\ worker[r].held.status \notin {"absent", "queued"} /\ pending[r] = NoSave
         /\ rows[r].out <= worker[r].text
<1>1. worker[r].pc \in External /\ worker[r].pc \notin {"none"} \cup Storing
  BY DEF External, Early, Storing
<1>2. DeskOf(r) BY RunOf
<1> QED BY <1>1, <1>2 DEF DeskOf, DeskFit, WorkerFit, WireFit, PendingFit

\* The worker gives an early request up: with an outcome, or to reject it.
LEMMA GivesUp ==
  ASSUME Fits, NEW r \in Runs, WellKept', Around(r), rows' = rows, wire' = wire,
         worker[r].pc \in Early,
         ToUnsent(r) \/ \E save \in {FailSave, Unsent, UnsentStopped} : ToSave(r, save)
  PROVE  Fits'
<1>0. /\ worker[r].text = 0 /\ worker[r].pc \in External
      /\ ~(Bound(r) = "app_server" /\ wire[r].hook = "ack")
      /\ worker[r].save.kind = "none"
  BY EarlyOf
<1>d. DeskFit(Bound(r), rows[r], worker[r], pending[r], wire'[r], r \in registry, Claims(r),
              stopper[r], signal[r])
  BY RunOf DEF DeskOf
<1>1. ASSUME NEW save \in {FailSave, Unsent, UnsentStopped}, ToSave(r, save) PROVE Fits'
  <2>1. save \in SaveT BY Typed
  <2>2. /\ save.kind # "none" /\ SaveFit(Bound(r), save)
        /\ save.kind = "provider" => save.report.text >= worker[r].text
    BY <1>0, UnsentFits
  <2> QED BY <1>0, <1>d, <1>1, <2>1, <2>2, ToSaveFits
<1>2. ASSUME Step(r, [worker[r] EXCEPT !.pc = "reject"]), UNCHANGED <<registry, pending>>
      PROVE  Fits'
  <2> DEFINE w == [worker[r] EXCEPT !.pc = "reject"]
  <2>1. worker[r] \in WorkerT BY RunOf
  <2>2. /\ w \in WorkerT /\ w.held = worker[r].held /\ w.text = worker[r].text
        /\ w.save = worker[r].save /\ w.pc = "reject"
    BY <2>1 DEF WorkerT, Places
  <2>3. Step(r, w) BY <1>2
  <2> HIDE DEF w
  <2>4. SaveFit(Bound(r), w.save) /\ w.save.kind = "none"
    BY <1>0, <1>d, <2>2 DEF DeskFit, WorkerFit
  <2>5. DeskFit(Bound(r), rows[r], w, pending[r], wire'[r], r \in registry, Claims(r),
                stopper[r], signal'[r])
    BY <1>0, <1>d, <2>1, <2>2, <2>4, LeavesToSave
  <2> QED BY <1>2, <2>3, <2>5, RestServed, StepFits
<1>3. ToUnsent(r) =>
        \/ Step(r, [worker[r] EXCEPT !.pc = "reject"]) /\ UNCHANGED <<registry, pending>>
        \/ ToSave(r, Unsent)
  BY DEF ToUnsent
<1> QED BY <1>1, <1>2, <1>3

\* The worker comes nearer to the answer of its provider.
LEMMA NearsAnswer ==
  ASSUME Fits, NEW r \in Runs, WellKept', Around(r), rows' = rows, worker[r].pc \in Early,
         NEW pc \in External, NEW held \in HeldT, HeldFit(held, rows[r]),
         held.out <= worker[r].text, held.status \notin {"absent", "queued"},
         Step(r, [worker[r] EXCEPT !.pc = pc, !.held = held]), UNCHANGED <<registry, pending>>,
         wire'[r].turn = wire[r].turn, wire'[r].sent <= 1,
         pc \in Unpaid => wire'[r].sent = 0,
         Bound(r) = "app_server" /\ wire'[r].hook = "ack" => pc = "streaming",
         signal[r] => signal'[r]
  PROVE  Fits'
<1> DEFINE w == [worker[r] EXCEPT !.pc = pc, !.held = held]
<1>1. worker[r] \in WorkerT /\ pc \in Places BY RunOf DEF External, Places
<1>2. /\ w \in WorkerT /\ w.held = held /\ w.text = worker[r].text
      /\ w.save = worker[r].save /\ w.pc = pc
  BY <1>1 DEF WorkerT
<1>3. Step(r, w) OBVIOUS
<1> HIDE DEF w
<1>4. DeskFit(Bound(r), rows[r], worker[r], pending[r], wire[r], r \in registry, Claims(r),
              stopper[r], signal[r])
  BY RunOf DEF DeskOf
<1>5. DeskFit(Bound(r), rows[r], w, pending[r], wire'[r], r \in registry, Claims(r),
              stopper[r], signal'[r])
  BY <1>1, <1>2, <1>4, RunOf, GoesOn
<1> QED BY <1>3, <1>5, RestServed, StepFits

\* With the copy of the run that it has.
LEMMA NearsAsBefore ==
  ASSUME Fits, NEW r \in Runs, WellKept', Around(r), rows' = rows, worker[r].pc \in Early,
         NEW pc \in External, Step(r, [worker[r] EXCEPT !.pc = pc]),
         UNCHANGED <<registry, pending>>,
         wire'[r].turn = wire[r].turn, wire'[r].sent <= 1,
         pc \in Unpaid => wire'[r].sent = 0,
         Bound(r) = "app_server" /\ wire'[r].hook = "ack" => pc = "streaming",
         signal[r] => signal'[r]
  PROVE  Fits'
<1> DEFINE held == worker[r].held
<1>1. worker[r] \in WorkerT /\ held \in HeldT BY RunOf
<1>2. [worker[r] EXCEPT !.pc = pc] = [worker[r] EXCEPT !.pc = pc, !.held = held]
  BY <1>1 DEF WorkerT
<1>3. /\ HeldFit(held, rows[r]) /\ held.out <= worker[r].text
      /\ held.status \notin {"absent", "queued"}
  BY EarlyOf
<1> HIDE DEF held
<1>4. Step(r, [worker[r] EXCEPT !.pc = pc, !.held = held]) BY <1>2
<1> QED BY <1>1, <1>3, <1>4, NearsAnswer

\* One more request on the wire.
LEMMA WireSends ==
  ASSUME Fits, NEW r \in Runs, wire' = [wire EXCEPT ![r].sent = @ + 1]
  PROVE  /\ \E x \in WireT : wire' = [wire EXCEPT ![r] = x]
         /\ wire'[r].sent = wire[r].sent + 1 /\ wire'[r].turn = wire[r].turn
         /\ wire'[r].hook = wire[r].hook
<1> DEFINE x == [wire[r] EXCEPT !.sent = wire[r].sent + 1]
<1>1. wire[r] \in WireT /\ wire \in [Runs -> WireT] BY RunOf DEF Fits, OutsideOK
<1>2. /\ x \in WireT /\ x.sent = wire[r].sent + 1 /\ x.turn = wire[r].turn
      /\ x.hook = wire[r].hook
  BY <1>1 DEF WireT
<1>3. wire' = [wire EXCEPT ![r] = x] OBVIOUS
<1> HIDE DEF x
<1>4. wire'[r] = x BY <1>1, <1>3
<1> QED BY <1>2, <1>3, <1>4
\* Another callback on the wire.
LEMMA WireHooks ==
  ASSUME Fits, NEW r \in Runs, NEW hook \in {"none", "claim", "ack", "poisoned"},
         wire' = [wire EXCEPT ![r].hook = hook]
  PROVE  /\ \E x \in WireT : wire' = [wire EXCEPT ![r] = x]
         /\ wire'[r].sent = wire[r].sent /\ wire'[r].turn = wire[r].turn
         /\ wire'[r].hook = hook
<1> DEFINE x == [wire[r] EXCEPT !.hook = hook]
<1>1. wire[r] \in WireT /\ wire \in [Runs -> WireT] BY RunOf DEF Fits, OutsideOK
<1>2. /\ x \in WireT /\ x.sent = wire[r].sent /\ x.turn = wire[r].turn /\ x.hook = hook
  BY <1>1 DEF WireT
<1>3. wire' = [wire EXCEPT ![r] = x] OBVIOUS
<1> HIDE DEF x
<1>4. wire'[r] = x BY <1>1, <1>3
<1> QED BY <1>2, <1>3, <1>4

\* What the provider was sent before its answer.
LEMMA PaidOnce ==
  ASSUME Fits, NEW r \in Runs
  PROVE  /\ wire[r].sent \in {0, 1}
         /\ worker[r].pc \in Unpaid => wire[r].sent = 0
         /\ worker[r].pc \in Early => ~(Bound(r) = "app_server" /\ wire[r].hook = "ack")
  BY RunOf DEF DeskOf, DeskFit, WireFit, WireT

\* The check of a spawned worker.
LEMMA CheckFits ==
  ASSUME Fits, NEW r \in Runs, WellKept', Check(r)
  PROVE  Fits'
<1>0. /\ rows' = rows /\ wire' = wire /\ worker[r].pc = "spawned"
      /\ UNCHANGED <<project, faults, callers, retry, stopper>>
  BY DEF Check, actorVars
<1>1. signal[r] \in BOOLEAN /\ signal \in [Runs -> BOOLEAN] BY RunOf DEF Fits, OutsideOK
<1>2. \/ signal' = signal
      \/ signal' = [signal EXCEPT ![r] = signal[r] \/ rows[r].status = "stopping"]
  BY DEF Check
<1>3. signal' = signal \/ \E x \in BOOLEAN : signal' = [signal EXCEPT ![r] = x] BY <1>1, <1>2
<1>4. signal[r] => signal'[r] BY <1>1, <1>2
<1>5. Around(r) BY <1>0, <1>3, AroundOf
<1>6. worker[r].pc \in Early /\ "starting" \in External /\ worker[r].pc \in Unpaid
  BY <1>0 DEF Early, External, Unpaid
<1>7. Going(rows[r]) /\ rows[r].out <= worker[r].text BY <1>6, EarlyOf
<1>8. CASE ToUnsent(r) \/ ToSave(r, UnsentStopped) BY <1>0, <1>5, <1>6, <1>8, GivesUp
<1>9. CASE /\ Step(r, [worker[r] EXCEPT !.pc = "starting", !.held = HeldOf(rows[r])])
           /\ UNCHANGED <<registry, pending>>
  <2>1. /\ HeldOf(rows[r]) \in HeldT /\ HeldFit(HeldOf(rows[r]), rows[r])
        /\ HeldOf(rows[r]).out = rows[r].out /\ HeldOf(rows[r]).status = rows[r].status
    BY RunOf, HeldReads
  <2>2. HeldOf(rows[r]).status \notin {"absent", "queued"} BY <1>7, <2>1 DEF Going
  <2>3. HeldOf(rows[r]).out <= worker[r].text BY <1>7, <2>1
  <2>4. /\ wire'[r].turn = wire[r].turn /\ wire'[r].sent <= 1 /\ wire'[r].sent = 0
        /\ ~(Bound(r) = "app_server" /\ wire'[r].hook = "ack")
    BY <1>0, <1>6, PaidOnce
  <2> QED BY <1>0, <1>4, <1>5, <1>6, <1>9, <2>1, <2>2, <2>3, <2>4, NearsAnswer
<1> QED BY <1>7, <1>8, <1>9 DEF Check, Going

\* The start of the process, and its check of the stop signal.
LEMMA StartBoundFits ==
  ASSUME Fits, NEW r \in Runs, WellKept', StartBound(r)
  PROVE  Fits'
<1>0. /\ rows' = rows /\ wire' = wire /\ worker[r].pc = "starting" /\ signal' = signal
      /\ UNCHANGED <<project, faults, callers, retry, stopper>>
  BY DEF StartBound, actorVars
<1>1. Around(r) BY <1>0, AroundOf
<1>2. worker[r].pc \in Early /\ "sending" \in External /\ worker[r].pc \in Unpaid
  BY <1>0 DEF Early, External, Unpaid
<1>3. CASE ToUnsent(r) \/ ToSave(r, UnsentStopped) BY <1>0, <1>1, <1>2, <1>3, GivesUp
<1>4. CASE Step(r, [worker[r] EXCEPT !.pc = "sending"]) /\ UNCHANGED <<registry, pending>>
  <2>1. /\ wire'[r].turn = wire[r].turn /\ wire'[r].sent <= 1 /\ wire'[r].sent = 0
        /\ ~(Bound(r) = "app_server" /\ wire'[r].hook = "ack")
    BY <1>0, <1>2, PaidOnce
  <2> QED BY <1>0, <1>1, <1>2, <1>4, <2>1, NearsAsBefore
<1> QED BY <1>3, <1>4 DEF StartBound

\* A request that is sent costs the author one, if none was sent before.
LEMMA PaysFits ==
  ASSUME Fits, NEW r \in Runs, WellKept', UNCHANGED <<rows, project, faults, callers, retry, stopper>>,
         signal' = signal, worker[r].pc \in Unpaid, NEW pc \in {"streaming", "turning"},
         Step(r, [worker[r] EXCEPT !.pc = pc]), UNCHANGED <<registry, pending>>,
         wire' = [wire EXCEPT ![r].sent = @ + 1]
  PROVE  Fits'
<1>1. /\ \E x \in WireT : wire' = [wire EXCEPT ![r] = x]
      /\ wire'[r].sent = wire[r].sent + 1 /\ wire'[r].turn = wire[r].turn
      /\ wire'[r].hook = wire[r].hook
  BY WireSends
<1>2. worker[r].pc \in Early /\ pc \in External /\ pc \notin Unpaid
  BY DEF Early, External, Unpaid
<1>3. wire[r].sent = 0 /\ ~(Bound(r) = "app_server" /\ wire[r].hook = "ack")
  BY <1>2, PaidOnce
<1>4. Around(r) BY <1>1, AroundOf
<1>5. wire'[r].sent <= 1 BY <1>1, <1>3
<1> QED BY <1>1, <1>2, <1>3, <1>4, <1>5, NearsAsBefore

\* The process takes the packet.
LEMMA SendFits ==
  ASSUME Fits, NEW r \in Runs, WellKept', Send(r)
  PROVE  Fits'
<1>0. /\ rows' = rows /\ worker[r].pc = "sending" /\ signal' = signal
      /\ UNCHANGED <<project, faults, callers, retry, stopper>>
  BY DEF Send, actorVars
<1>1. worker[r].pc \in Early /\ worker[r].pc \in Unpaid BY <1>0 DEF Early, Unpaid
<1>2. CASE ToSave(r, Unsent) /\ wire' = wire
  <2>1. Around(r) BY <1>0, <1>2, AroundOf
  <2> QED BY <1>0, <1>1, <1>2, <2>1, GivesUp
<1>3. CASE /\ Step(r, [worker[r] EXCEPT !.pc = "streaming"]) /\ UNCHANGED <<registry, pending>>
           /\ wire' = [wire EXCEPT ![r].sent = @ + 1]
  BY <1>0, <1>1, <1>3, PaysFits
<1> QED BY <1>2, <1>3 DEF Send

\* The request of an HTTP endpoint.
LEMMA HttpSendFits ==
  ASSUME Fits, NEW r \in Runs, WellKept', HttpSend(r)
  PROVE  Fits'
<1>0. /\ rows' = rows /\ worker[r].pc = "http" /\ signal' = signal
      /\ UNCHANGED <<project, faults, callers, retry, stopper>>
  BY DEF HttpSend, actorVars
<1>1. worker[r].pc \in Early /\ worker[r].pc \in Unpaid BY <1>0 DEF Early, Unpaid
<1>2. CASE (\E save \in {FailSave, Unsent, UnsentStopped} : ToSave(r, save)) /\ wire' = wire
  <2>1. Around(r) BY <1>0, <1>2, AroundOf
  <2> QED BY <1>0, <1>1, <1>2, <2>1, GivesUp
<1>3. CASE /\ Step(r, [worker[r] EXCEPT !.pc = "streaming"]) /\ UNCHANGED <<registry, pending>>
           /\ wire' = [wire EXCEPT ![r].sent = @ + 1]
  BY <1>0, <1>1, <1>3, PaysFits
<1> QED BY <1>2, <1>3 DEF HttpSend

\* What the desktop holds of a run whose callback writes the dispatch.
LEMMA TurnFits ==
  ASSUME Fits, NEW r \in Runs, wire'[r].sent = wire[r].sent,
         wire'[r].hook = "ack" => wire[r].hook = "ack",
         \/ wire'[r].turn = wire[r].turn
         \/ rows[r].result = NoReport /\ rows[r].dispatch \in {"claimed", "delivered"}
         \/ wire[r].hook = "ack" /\ wire[r].turn # "none" /\ wire'[r].turn = "acknowledged"
  PROVE  DeskFit(Bound(r), rows[r], worker[r], pending[r], wire'[r], r \in registry, Claims(r),
                 stopper[r], signal[r])
<1>1. DeskFit(Bound(r), rows[r], worker[r], pending[r], wire[r], r \in registry, Claims(r),
              stopper[r], signal[r])
  BY RunOf DEF DeskOf
<1> QED BY <1>1, WireTurns

\* It does nothing else when nobody waits for it.
LEMMA HookFits ==
  ASSUME Fits, NEW r \in Runs, WellKept', Around(r), rows' = rows, signal' = signal,
         UNCHANGED <<worker, registry, pending>>,
         DeskFit(Bound(r), rows[r], worker[r], pending[r], wire'[r], r \in registry, Claims(r),
                 stopper[r], signal[r])
  PROVE  Fits'
<1>1. Elsewhere(r) BY DEF Elsewhere, Fits, OutsideOK
<1> QED BY <1>1, RestServed, OneFits

\* The end of a turn that was not answered.
LEMMA TurnEnds ==
  ASSUME Fits, NEW r \in Runs, WellKept', Around(r), rows' = rows, worker[r].pc \in Early,
         NEW status \in {"stopped", "failed"}, NEW cleanup \in {"settled", "unresolved"},
         NEW evidence \in {"none", "submitted", "delivered"},
         AppServerEnds(r, status, cleanup, evidence),
         ~(Bound(r) = "app_server" /\ wire'[r].hook = "ack"),
         DeskFit(Bound(r), rows[r], worker[r], pending[r], wire'[r], r \in registry, Claims(r),
                 stopper[r], signal[r])
  PROVE  Fits'
<1> DEFINE save == ProviderSave(status, 0, cleanup, evidence)
<1>1. save \in SaveT /\ ToSave(r, save) BY ReportTyped DEF AppServerEnds
<1>2. save.kind = "provider" /\ save.report.text = 0 /\ save.report.status = status
  BY DEF ProviderSave
<1> HIDE DEF save
<1>3. SaveFit(Bound(r), save) BY <1>2, BoundsAssumption DEF SaveFit
<1>4. worker[r].pc \in External /\ worker[r].text = 0 BY EarlyOf
<1>5. save.kind # "none" /\ save.report.text >= worker[r].text BY <1>2, <1>4
<1> QED BY <1>1, <1>3, <1>4, <1>5, ToSaveFits

\* thread/start.
LEMMA StartThreadFits ==
  ASSUME Fits, NEW r \in Runs, WellKept', StartThread(r)
  PROVE  Fits'
<1>0. /\ rows' = rows /\ worker[r].pc = "starting" /\ signal' = signal
      /\ UNCHANGED <<project, faults, callers, retry, stopper>>
  BY DEF StartThread, actorVars
<1>1. worker[r].pc \in Early /\ worker[r].pc \in Unpaid /\ "claiming" \in External
  BY <1>0 DEF Early, Unpaid, External
<1>2. CASE /\ wire' = wire
           /\ \/ ToSave(r, Unsent)
              \/ AppServerEnds(r, "stopped", "settled", "none")
              \/ AppServerEnds(r, "failed", "unresolved", "none")
  <2>1. Around(r) BY <1>0, <1>2, AroundOf
  <2>2. ~(Bound(r) = "app_server" /\ wire'[r].hook = "ack") BY <1>1, <1>2, EarlyOf
  <2>3. DeskFit(Bound(r), rows[r], worker[r], pending[r], wire'[r], r \in registry, Claims(r),
                stopper[r], signal[r])
    BY <1>2, RunOf DEF DeskOf
  <2>4. CASE ToSave(r, Unsent) BY <1>0, <1>1, <1>2, <2>1, <2>4, GivesUp
  <2>5. CASE AppServerEnds(r, "stopped", "settled", "none")
    BY <1>0, <1>1, <2>1, <2>2, <2>3, <2>5, TurnEnds
  <2>6. CASE AppServerEnds(r, "failed", "unresolved", "none")
    BY <1>0, <1>1, <2>1, <2>2, <2>3, <2>6, TurnEnds
  <2> QED BY <1>2, <2>4, <2>5, <2>6
<1>3. CASE /\ Step(r, [worker[r] EXCEPT !.pc = "claiming"]) /\ UNCHANGED <<registry, pending>>
           /\ wire' = [wire EXCEPT ![r].hook = "claim"]
  <2>1. /\ wire'[r].sent = wire[r].sent /\ wire'[r].turn = wire[r].turn
        /\ wire'[r].hook = "claim" /\ \E x \in WireT : wire' = [wire EXCEPT ![r] = x]
    BY <1>3, WireHooks
  <2>2. wire[r].sent = 0 BY <1>1, PaidOnce
  <2>3. Around(r) BY <1>0, <2>1, AroundOf
  <2> QED BY <1>0, <1>1, <1>3, <2>1, <2>2, <2>3, NearsAsBefore
<1> QED BY <1>2, <1>3 DEF StartThread

\* submit_turn.
LEMMA SubmitTurnFits ==
  ASSUME Fits, NEW r \in Runs, WellKept', SubmitTurn(r)
  PROVE  Fits'
<1>0. /\ rows' = rows /\ worker[r].pc = "submitting" /\ signal' = signal
      /\ UNCHANGED <<project, faults, callers, retry, stopper>>
  BY DEF SubmitTurn, actorVars
<1>1. worker[r].pc \in Early /\ worker[r].pc \in Unpaid BY <1>0 DEF Early, Unpaid
<1>2. CASE AppServerEnds(r, "stopped", "settled", "submitted") /\ wire' = wire
  <2>1. Around(r) BY <1>0, <1>2, AroundOf
  <2>2. ~(Bound(r) = "app_server" /\ wire'[r].hook = "ack") BY <1>1, <1>2, EarlyOf
  <2>3. DeskFit(Bound(r), rows[r], worker[r], pending[r], wire'[r], r \in registry, Claims(r),
                stopper[r], signal[r])
    BY <1>2, RunOf DEF DeskOf
  <2> QED BY <1>0, <1>1, <1>2, <2>1, <2>2, <2>3, TurnEnds
<1>3. CASE /\ Step(r, [worker[r] EXCEPT !.pc = "turning"]) /\ UNCHANGED <<registry, pending>>
           /\ wire' = [wire EXCEPT ![r].sent = @ + 1]
  BY <1>0, <1>1, <1>3, PaysFits
<1> QED BY <1>2, <1>3 DEF SubmitTurn

\* The answer to turn/start.
LEMMA TurnAnsweredFits ==
  ASSUME Fits, NEW r \in Runs, WellKept', TurnAnswered(r)
  PROVE  Fits'
<1>0. /\ rows' = rows /\ worker[r].pc = "turning" /\ signal' = signal
      /\ UNCHANGED <<project, faults, callers, retry, stopper>>
  BY DEF TurnAnswered, actorVars
<1>1. worker[r].pc \in Early /\ "streaming" \in External /\ "streaming" \notin Unpaid
  BY <1>0 DEF Early, External, Unpaid
<1>2. CASE AppServerEnds(r, "stopped", "settled", "submitted") /\ wire' = wire
  <2>1. Around(r) BY <1>0, <1>2, AroundOf
  <2>2. ~(Bound(r) = "app_server" /\ wire'[r].hook = "ack") BY <1>1, <1>2, EarlyOf
  <2>3. DeskFit(Bound(r), rows[r], worker[r], pending[r], wire'[r], r \in registry, Claims(r),
                stopper[r], signal[r])
    BY <1>2, RunOf DEF DeskOf
  <2> QED BY <1>0, <1>1, <1>2, <2>1, <2>2, <2>3, TurnEnds
<1>3. CASE /\ Step(r, [worker[r] EXCEPT !.pc = "streaming"]) /\ UNCHANGED <<registry, pending>>
           /\ wire' = [wire EXCEPT ![r].hook = "ack"]
  <2>1. /\ wire'[r].sent = wire[r].sent /\ wire'[r].turn = wire[r].turn
        /\ \E x \in WireT : wire' = [wire EXCEPT ![r] = x]
    BY <1>3, WireHooks
  <2>2. wire[r].sent <= 1 BY PaidOnce
  <2>3. Around(r) BY <1>0, <2>1, AroundOf
  <2> QED BY <1>0, <1>1, <1>3, <2>1, <2>2, <2>3, NearsAsBefore
<1> QED BY <1>2, <1>3 DEF TurnAnswered

\* The dispatch of a run and its callback, written together.
LEMMA WireWrites ==
  ASSUME Fits, NEW r \in Runs, NEW hook \in {"none", "claim", "ack", "poisoned"},
         NEW turn \in {"none", "claimed", "acknowledged"},
         \/ wire' = [wire EXCEPT ![r].hook = hook, ![r].turn = turn]
         \/ wire' = [wire EXCEPT ![r].turn = turn, ![r].hook = hook]
  PROVE  /\ \E x \in WireT : wire' = [wire EXCEPT ![r] = x]
         /\ wire'[r].sent = wire[r].sent /\ wire'[r].turn = turn
         /\ wire'[r].hook = hook
<1> DEFINE x == [wire[r] EXCEPT !.hook = hook, !.turn = turn]
<1>1. wire[r] \in WireT /\ wire \in [Runs -> WireT] BY RunOf DEF Fits, OutsideOK
<1>2. /\ x \in WireT /\ x.sent = wire[r].sent /\ x.turn = turn /\ x.hook = hook
  BY <1>1 DEF WireT
<1>3. wire' = [wire EXCEPT ![r] = x] BY <1>1 DEF WireT
<1> HIDE DEF x
<1>4. wire'[r] = x BY <1>1, <1>3
<1> QED BY <1>2, <1>3, <1>4

\* The on-turn callback.
LEMMA AcknowledgeHookFits ==
  ASSUME Fits, NEW r \in Runs, WellKept', AcknowledgeHook(r)
  PROVE  Fits'
<1>0. /\ rows' = rows /\ signal' = signal /\ wire[r].hook = "ack"
      /\ UNCHANGED <<callers, retry, stopper, worker, registry, pending>>
  BY DEF AcknowledgeHook
<1>1. PICK o \in Reached(project.connected, wire[r].turn, AcknowledgeTurn(wire[r].turn)) :
        /\ wire' = [wire EXCEPT ![r].turn = o.row,
                       ![r].hook = IF o.code = "ok" \/ worker[r].pc # "streaming"
                                   THEN "none" ELSE "poisoned"]
        /\ Answer(o.code)
  BY DEF AcknowledgeHook
<1>2. \/ o.row = wire[r].turn
      \/ o.row = "acknowledged" /\ wire[r].turn # "none"
  BY DEF Reached, AcknowledgeTurn, Committed, Refused
<1>3. wire[r].turn \in {"none", "claimed", "acknowledged"} BY RunOf DEF WireT
<1>4. PICK hook \in {"none", "poisoned"} : wire' = [wire EXCEPT ![r].turn = o.row, ![r].hook = hook]
  BY <1>1
<1>5. o.row \in {"none", "claimed", "acknowledged"} BY <1>2, <1>3
<1>6. /\ \E x \in WireT : wire' = [wire EXCEPT ![r] = x]
      /\ wire'[r].sent = wire[r].sent /\ wire'[r].turn = o.row /\ wire'[r].hook = hook
  BY <1>4, <1>5, WireWrites
<1>7. Around(r) BY <1>0, <1>1, <1>6, AroundOf
<1>8. DeskFit(Bound(r), rows[r], worker[r], pending[r], wire'[r], r \in registry, Claims(r),
              stopper[r], signal[r])
  BY <1>0, <1>2, <1>6, TurnFits
<1> QED BY <1>0, <1>7, <1>8, HookFits

\* Where the claim of a dispatch leads.
LEMMA AfterClaimFits ==
  ASSUME Fits, NEW r \in Runs, WellKept', Around(r), rows' = rows, signal' = signal,
         NEW code, AfterClaim(r, code), wire'[r].hook = "none",
         DeskFit(Bound(r), rows[r], worker[r], pending[r], wire'[r], r \in registry, Claims(r),
                 stopper[r], signal[r])
  PROVE  Fits'
<1>1. CASE UNCHANGED <<worker, registry, pending>> BY <1>1, HookFits
<1>2. ASSUME worker[r].pc = "claiming",
             NEW status \in {"stopped", "failed"}, NEW cleanup \in {"settled", "unresolved"},
             NEW evidence \in {"none", "submitted"}, AppServerEnds(r, status, cleanup, evidence)
      PROVE  Fits'
  <2>1. worker[r].pc \in Early BY <1>2 DEF Early
  <2> QED BY <1>2, <2>1, TurnEnds
<1>3. CASE /\ worker[r].pc = "claiming" /\ Step(r, [worker[r] EXCEPT !.pc = "submitting"])
           /\ UNCHANGED <<registry, pending>>
  <2> DEFINE w == [worker[r] EXCEPT !.pc = "submitting"]
  <2>1. worker[r].pc \in Early /\ "submitting" \in External /\ "submitting" \in Places
        /\ worker[r].pc \in Unpaid
    BY <1>3 DEF Early, External, Places, Unpaid
  <2>2. /\ w \in WorkerT /\ w.held = worker[r].held /\ w.text = worker[r].text
        /\ w.save = worker[r].save /\ w.pc = "submitting"
    BY <2>1, RunOf DEF WorkerT
  <2>3. Step(r, w) BY <1>3
  <2> HIDE DEF w
  <2>4. wire'[r].sent = 0 BY <2>1 DEF DeskFit, WireFit
  <2>5. /\ HeldFit(worker[r].held, rows[r]) /\ worker[r].held.out <= worker[r].text
        /\ worker[r].held.status \notin {"absent", "queued"}
    BY <2>1, EarlyOf
  <2>6. DeskFit(Bound(r), rows[r], w, pending[r], wire'[r], r \in registry, Claims(r),
                stopper[r], signal'[r])
    BY <2>1, <2>2, <2>4, <2>5, RunOf, GoesOn
  <2> QED BY <1>3, <2>3, <2>6, RestServed, StepFits
<1>4. CASE worker[r].pc # "claiming" BY <1>1, <1>4 DEF AfterClaim
<1>5. CASE worker[r].pc = "claiming"
  <2>1. \/ AppServerEnds(r, "stopped", "settled", "none")
        \/ AppServerEnds(r, "failed", "unresolved", "submitted")
        \/ AppServerEnds(r, "failed", "settled", "none")
        \/ /\ Step(r, [worker[r] EXCEPT !.pc = "submitting"])
           /\ UNCHANGED <<registry, pending>>
    BY <1>5 DEF AfterClaim
  <2> QED BY <1>2, <1>3, <1>5, <2>1
<1> QED BY <1>4, <1>5

\* The before-turn callback.
LEMMA ClaimTurnFits ==
  ASSUME Fits, NEW r \in Runs, WellKept', ClaimTurn(r)
  PROVE  Fits'
<1>0. /\ rows' = rows /\ signal' = signal /\ wire[r].hook = "claim"
      /\ UNCHANGED <<callers, retry, stopper>>
  BY DEF ClaimTurn, actorVars
<1>1. CASE /\ AfterClaim(r, "RequestStopped") /\ wire' = [wire EXCEPT ![r].hook = "none"]
           /\ UNCHANGED actorVars
  <2>1. /\ \E x \in WireT : wire' = [wire EXCEPT ![r] = x]
        /\ wire'[r].sent = wire[r].sent /\ wire'[r].turn = wire[r].turn /\ wire'[r].hook = "none"
    BY <1>1, WireHooks
  <2>2. Around(r) BY <1>0, <1>1, <2>1, AroundOf DEF actorVars
  <2>3. DeskFit(Bound(r), rows[r], worker[r], pending[r], wire'[r], r \in registry, Claims(r),
                stopper[r], signal[r])
    BY <2>1, TurnFits
  <2> QED BY <1>0, <1>1, <2>1, <2>2, <2>3, AfterClaimFits
<1>2. ASSUME NEW o \in Reached(project.connected, wire[r].turn,
                               ClaimDispatch(rows[r], wire[r].turn, project.epoch)),
             wire' = [wire EXCEPT ![r].hook = "none", ![r].turn = o.row],
             Answer(o.code), AfterClaim(r, o.code)
      PROVE  Fits'
  <2>1. \/ o.row = wire[r].turn
        \/ o.row = "claimed" /\ rows[r].status = "running" /\ rows[r].dispatch = "claimed"
    BY <1>2 DEF Reached, ClaimDispatch, Committed, Refused
  <2>2. wire[r].turn \in {"none", "claimed", "acknowledged"} BY RunOf DEF WireT
  <2>3. o.row \in {"none", "claimed", "acknowledged"} BY <2>1, <2>2
  <2>4. /\ \E x \in WireT : wire' = [wire EXCEPT ![r] = x]
        /\ wire'[r].sent = wire[r].sent /\ wire'[r].turn = o.row /\ wire'[r].hook = "none"
    BY <1>2, <2>3, WireWrites
  <2>5. Around(r) BY <1>0, <1>2, <2>4, AroundOf
  <2>6. rows[r].status = "running" => rows[r].result = NoReport BY RunOf, ActiveRow DEF Active
  <2>7. DeskFit(Bound(r), rows[r], worker[r], pending[r], wire'[r], r \in registry, Claims(r),
                stopper[r], signal[r])
    BY <2>1, <2>4, <2>6, TurnFits
  <2> QED BY <1>0, <1>2, <2>4, <2>5, <2>7, AfterClaimFits
<1> QED BY <1>1, <1>2 DEF ClaimTurn

-----------------------------------------------------------------------------
\* A response that is streamed.

\* What is known of a worker that streams.
LEMMA StreamOf ==
  ASSUME Fits, NEW r \in Runs, worker[r].pc = "streaming"
  PROVE  /\ worker[r].pc \in External /\ worker[r].text <= MaxText
         /\ worker[r].held.out <= worker[r].text /\ rows[r].out <= worker[r].text
         /\ Going(rows[r]) /\ HeldFit(worker[r].held, rows[r])
         /\ worker[r].held.status \notin {"absent", "queued"}
         /\ worker[r].save.kind = "none" /\ SaveFit(Bound(r), worker[r].save)
<1>1. worker[r].pc \in External /\ worker[r].pc \notin {"none"} \cup Storing
  BY DEF External, Storing
<1> QED BY <1>1, RunOf DEF DeskOf, DeskFit, WorkerFit

\* A step of the stream.
LEMMA StreamStep ==
  ASSUME Fits, NEW r \in Runs, WellKept', Around(r), worker[r].pc = "streaming", wire' = wire,
         UNCHANGED <<registry, pending>>,
         Served(Bound(r), rows[r], rows'[r]), Keeps(rows[r], rows'[r]),
         rows'[r].status = rows[r].status, rows'[r].result = rows[r].result,
         NEW w \in WorkerT, Step(r, w), w.pc = "streaming", w.save = worker[r].save,
         HeldFit(w.held, rows'[r]), w.held.status \notin {"absent", "queued"},
         w.held.out <= w.text, rows'[r].out <= w.text, w.text <= MaxText,
         signal[r] => signal'[r]
  PROVE  Fits'
<1>1. Good(rows'[r]) BY DEF WellKept, RowsOK
<1>2. DeskFit(Bound(r), rows[r], worker[r], pending[r], wire[r], r \in registry, Claims(r),
              stopper[r], signal[r])
  BY RunOf DEF DeskOf
<1>3. Moves(rows[r], rows'[r]) BY DEF Served
<1>4. DeskFit(Bound(r), rows'[r], w, pending[r], wire[r], r \in registry, Claims(r),
              stopper[r], signal'[r])
  BY <1>1, <1>2, <1>3, RunOf, StreamsOn
<1> QED BY <1>4, StepFits

\* The row that a command wrote.
LEMMA Written ==
  ASSUME Fits, NEW r \in Runs, NEW o, Do(r, o) PROVE rows'[r] = o.row
  BY DEF Do, Fits, WellKept, RowsOK

\* The next chunks of a response are written where the worker thinks the
\* journal is, or not at all.
LEMMA AppendOf ==
  ASSUME Fits, NEW r \in Runs, NEW n \in Nat, worker[r].held.out + n <= MaxText,
         NEW o \in AppendNext(r, n)
  PROVE  /\ Served(Bound(r), rows[r], o.row) /\ o.row.status = rows[r].status
         /\ o.row.result = rows[r].result
         /\ o.row # rows[r] => worker[r].held.seq = rows[r].seq
                               /\ o.row.out = worker[r].held.out + n
         /\ o.code = "RunSealed" => ~Going(rows[r])
         /\ o.code = "RunStopping" => rows[r].status = "stopping"
<1> DEFINE expected == worker[r].held.seq
           outcomes == AppendOutput(rows[r], expected, <<"part", expected>>, n)
<1>1. o \in Reach(r, outcomes) BY DEF AppendNext
<1>2. HeldFit(worker[r].held, rows[r]) BY RunOf DEF DeskOf, DeskFit, WorkerFit
<1>3. expected \in Nat /\ (expected = rows[r].seq => rows[r].out = worker[r].held.out)
  BY <1>2, RunOf DEF HeldFit
<1>4. CASE o \in outcomes BY <1>3, <1>4, RunOf, AppendServed
<1>5. CASE o.row = rows[r] /\ o.code = "PersistenceUnavailable" BY <1>5, RunOf, SameServed
<1> HIDE DEF outcomes
<1> QED BY <1>1, <1>4, <1>5, ReachCases

\* Text that is only observed.
LEMMA DeltaUnsavedFits ==
  ASSUME Fits, NEW r \in Runs, WellKept', DeltaUnsaved(r)
  PROVE  Fits'
<1>0. /\ rows' = rows /\ wire' = wire /\ worker[r].pc = "streaming"
      /\ UNCHANGED <<project, faults, callers, retry, stopper, registry, pending>>
  BY DEF DeltaUnsaved, actorVars
<1>1. signal' = signal \/ \E x \in BOOLEAN : signal' = [signal EXCEPT ![r] = x]
  BY DEF DeltaUnsaved
<1>2. Around(r) BY <1>0, <1>1, AroundOf
<1>3. signal[r] => signal'[r]
  <2>1. signal \in [Runs -> BOOLEAN] BY DEF Fits, OutsideOK
  <2> QED BY <2>1 DEF DeltaUnsaved
<1>4. CASE Step(r, [worker[r] EXCEPT !.limited = TRUE])
  <2> DEFINE w == [worker[r] EXCEPT !.limited = TRUE]
  <2>1. /\ w \in WorkerT /\ w.held = worker[r].held /\ w.text = worker[r].text
        /\ w.save = worker[r].save /\ w.pc = worker[r].pc
    BY RunOf DEF WorkerT
  <2>2. Step(r, w) BY <1>4
  <2> HIDE DEF w
  <2> QED BY <1>0, <1>2, <1>3, <2>1, <2>2, StreamOf, RestServed, StreamStep
<1>5. CASE worker[r].text < MaxText /\ Step(r, [worker[r] EXCEPT !.text = @ + 1])
  <2> DEFINE w == [worker[r] EXCEPT !.text = worker[r].text + 1]
  <2>0. worker[r].text \in Nat BY RunOf
  <2>1. /\ w \in WorkerT /\ w.held = worker[r].held /\ w.text = worker[r].text + 1
        /\ w.save = worker[r].save /\ w.pc = worker[r].pc
    BY <2>0, RunOf DEF WorkerT
  <2>2. Step(r, w) BY <1>5
  <2> HIDE DEF w
  <2>3. w.held.out <= w.text /\ rows'[r].out <= w.text /\ w.text <= MaxText
    <3>1. rows[r].out \in Nat /\ worker[r].held.out \in Nat /\ MaxText \in Nat
      BY RunOf, GoodRow, BoundsAssumption
    <3> QED BY <1>0, <1>5, <2>0, <2>1, <3>1, StreamOf
  <2> QED BY <1>0, <1>2, <1>3, <2>1, <2>2, <2>3, StreamOf, RestServed, StreamStep
<1> QED BY <1>4, <1>5 DEF DeltaUnsaved

\* What the worker makes of the answer to the write of a chunk.
LEMMA ObservedFits ==
  ASSUME Fits, NEW r \in Runs, worker[r].pc = "streaming", worker[r].text < MaxText,
         NEW o \in AppendNext(r, 1), Keeps(rows[r], o.row), NEW w,
         w = Observed(Bound(r), worker[r], o)
  PROVE  /\ w \in WorkerT /\ w.pc = "streaming" /\ w.save = worker[r].save
         /\ HeldFit(w.held, o.row) /\ w.held.status \notin {"absent", "queued"}
         /\ w.held.out <= w.text /\ o.row.out <= w.text /\ w.text <= MaxText
<1>0. /\ worker[r].text \in Nat /\ MaxText \in Nat /\ worker[r].held.out \in Nat
      /\ worker[r] \in WorkerT /\ worker[r].held \in HeldT
      /\ rows[r].out \in Nat /\ Good(o.row)
  BY RunOf, GoodRow, BoundsAssumption DEF Keeps
<1>1. worker[r].held.out + 1 <= MaxText BY <1>0, StreamOf
<1>2. /\ Served(Bound(r), rows[r], o.row) /\ o.row.status = rows[r].status
      /\ o.row # rows[r] => o.row.out = worker[r].held.out + 1
      /\ o.code = "RunStopping" => rows[r].status = "stopping"
  BY <1>1, AppendOf
<1>3. o.row.out <= worker[r].text + 1 BY <1>0, <1>2, StreamOf
<1>4. CASE o.code = "ok"
  <2> DEFINE held == HeldOf(o.row)
  <2>1. /\ held \in HeldT /\ HeldFit(held, o.row) /\ held.status = o.row.status
        /\ held.out = o.row.out
    BY <1>0, <1>2, HeldReads DEF Served
  <2>2. w = [worker[r] EXCEPT !.text = worker[r].text + 1, !.held = held]
    BY <1>4 DEF Observed
  <2> HIDE DEF held
  <2>3. /\ w \in WorkerT /\ w.pc = "streaming" /\ w.save = worker[r].save /\ w.held = held
        /\ w.text = worker[r].text + 1
    <3>1. worker[r].text + 1 \in Nat BY <1>0
    <3>2. w \in WorkerT BY <1>0, <2>1, <2>2, <3>1 DEF WorkerT
    <3> QED BY <1>0, <2>2, <3>2 DEF WorkerT
  <2>4. held.status \notin {"absent", "queued"} BY <1>2, <2>1, StreamOf DEF Going
  <2> QED BY <1>0, <1>3, <2>1, <2>3, <2>4
<1>5. CASE o.code # "ok"
  <2>1. HeldFit(worker[r].held, o.row)
    BY <1>0, <1>2, StreamOf, RunOf, HeldMoves DEF Served
  <2> DEFINE stops == [worker[r].held EXCEPT !.status = "stopping"]
  <2>2. /\ stops \in HeldT /\ stops.status = "stopping" /\ stops.seq = worker[r].held.seq
        /\ stops.out = worker[r].held.out
    BY <1>0 DEF HeldT, Statuses
  <2>3. o.code = "RunStopping" => HeldFit(stops, o.row)
    BY <1>2, <2>1, <2>2 DEF HeldFit, Fresh, Terminal
  <2>4. PICK held \in {worker[r].held, stops} :
          /\ held = stops => o.code = "RunStopping" \/ stops = worker[r].held
          /\ w = [worker[r] EXCEPT !.text = worker[r].text + 1, !.broken = o.code # "RunStopping",
                                   !.held = held]
    <3>1. w = [worker[r] EXCEPT !.text = worker[r].text + 1, !.broken = o.code # "RunStopping",
                                !.held.status = IF Bound(r) = "http" /\ o.code = "RunStopping"
                                                THEN "stopping" ELSE worker[r].held.status]
      BY <1>5 DEF Observed
    <3>2. [worker[r].held EXCEPT !.status = worker[r].held.status] = worker[r].held
      BY <1>0 DEF HeldT
    <3>3. CASE Bound(r) = "http" /\ o.code = "RunStopping"
      <4>1. w = [worker[r] EXCEPT !.text = worker[r].text + 1, !.broken = o.code # "RunStopping",
                                  !.held = stops]
        BY <1>0, <3>1, <3>3 DEF WorkerT
      <4> QED BY <3>3, <4>1
    <3>4. CASE ~(Bound(r) = "http" /\ o.code = "RunStopping")
      <4>1. w = [worker[r] EXCEPT !.text = worker[r].text + 1, !.broken = o.code # "RunStopping",
                                  !.held = worker[r].held]
        BY <1>0, <3>1, <3>2, <3>4 DEF WorkerT
      <4> QED BY <4>1
    <3> QED BY <3>3, <3>4
  <2> HIDE DEF stops
  <2>5. held \in HeldT /\ held.out = worker[r].held.out /\ HeldFit(held, o.row)
        /\ held.status \notin {"absent", "queued"}
    BY <1>0, <2>1, <2>2, <2>3, <2>4, StreamOf
  <2>6. /\ w \in WorkerT /\ w.pc = "streaming" /\ w.save = worker[r].save /\ w.held = held
        /\ w.text = worker[r].text + 1
    <3>1. worker[r].text + 1 \in Nat /\ (o.code # "RunStopping") \in BOOLEAN BY <1>0
    <3>2. w \in WorkerT BY <1>0, <2>4, <2>5, <3>1 DEF WorkerT
    <3> QED BY <1>0, <2>4, <3>2 DEF WorkerT
  <2> QED BY <1>0, <1>3, <2>5, <2>6, StreamOf
<1> QED BY <1>4, <1>5

\* A chunk is written and observed.
LEMMA DeltaFits ==
  ASSUME Fits, NEW r \in Runs, WellKept', AllKeep, Delta(r)
  PROVE  Fits'
<1>0. /\ wire' = wire /\ worker[r].pc = "streaming" /\ worker[r].text < MaxText /\ ~signal[r]
      /\ UNCHANGED <<callers, retry, stopper, registry, pending>>
  BY DEF Delta
<1>1. PICK o \in AppendNext(r, 1) :
        /\ Do(r, o)
        /\ Step(r, Observed(Bound(r), worker[r], o))
        /\ signal' = [signal EXCEPT ![r] = o.code # "ok"]
  BY DEF Delta
<1>2. rows'[r] = o.row /\ Keeps(rows[r], o.row) BY <1>1, Written DEF AllKeep
<1>3. Around(r) BY <1>0, <1>1, AroundOf DEF Do
<1>4. worker[r].held.out + 1 <= MaxText
  BY <1>0, StreamOf, RunOf, BoundsAssumption
<1>5. /\ Served(Bound(r), rows[r], o.row) /\ o.row.status = rows[r].status
      /\ o.row.result = rows[r].result
  BY <1>4, AppendOf
<1> DEFINE w == Observed(Bound(r), worker[r], o)
<1>6. /\ w \in WorkerT /\ w.pc = "streaming" /\ w.save = worker[r].save
      /\ HeldFit(w.held, o.row) /\ w.held.status \notin {"absent", "queued"}
      /\ w.held.out <= w.text /\ o.row.out <= w.text /\ w.text <= MaxText
  BY <1>0, <1>2, ObservedFits
<1>7. Step(r, w) BY <1>1
<1> HIDE DEF w
<1> QED BY <1>0, <1>2, <1>3, <1>5, <1>6, <1>7, StreamStep

\* Everything observed and not yet written is written in one event.
LEMMA FlushFits ==
  ASSUME Fits, NEW r \in Runs, WellKept', AllKeep, Flush(r)
  PROVE  Fits'
<1> DEFINE n == worker[r].text - worker[r].held.out
<1>0. /\ wire' = wire /\ worker[r].pc = "streaming" /\ ~signal[r]
      /\ UNCHANGED <<callers, retry, stopper, registry, pending>>
      /\ worker[r].text \in Nat /\ worker[r].held.out \in Nat /\ MaxText \in Nat
  BY RunOf, BoundsAssumption DEF Flush
<1>1. PICK o \in AppendNext(r, n) :
        /\ Do(r, o)
        /\ Step(r, IF o.code = "ok" THEN [worker[r] EXCEPT !.held = HeldOf(o.row)]
                   ELSE [worker[r] EXCEPT !.broken = TRUE])
        /\ signal' = [signal EXCEPT ![r] = o.code # "ok"]
  BY DEF Flush
<1>2. rows'[r] = o.row /\ Keeps(rows[r], o.row) BY <1>1, Written DEF AllKeep
<1>3. Around(r) BY <1>0, <1>1, AroundOf DEF Do
<1>4. n \in Nat /\ worker[r].held.out + n = worker[r].text /\ worker[r].text <= MaxText
  BY <1>0, StreamOf
<1> HIDE DEF n
<1>5. /\ Served(Bound(r), rows[r], o.row) /\ o.row.status = rows[r].status
      /\ o.row.result = rows[r].result
      /\ o.row # rows[r] => o.row.out = worker[r].text
  BY <1>4, AppendOf
<1>6. o.row.out <= worker[r].text BY <1>0, <1>5, StreamOf
<1>7. CASE o.code = "ok"
  <2> DEFINE held == HeldOf(o.row)
             w == [worker[r] EXCEPT !.held = held]
  <2>1. /\ held \in HeldT /\ HeldFit(held, o.row) /\ held.status = o.row.status
        /\ held.out = o.row.out
    BY <1>2, <1>5, HeldReads DEF Served, Keeps
  <2>2. Step(r, w) BY <1>1, <1>7
  <2>3. held.status \notin {"absent", "queued"} BY <1>0, <1>5, <2>1, StreamOf DEF Going
  <2> HIDE DEF held
  <2>4. /\ w \in WorkerT /\ w.pc = worker[r].pc /\ w.save = worker[r].save /\ w.held = held
        /\ w.text = worker[r].text
    BY <2>1, RunOf DEF WorkerT
  <2> HIDE DEF w
  <2> QED BY <1>0, <1>2, <1>3, <1>4, <1>5, <1>6, <2>1, <2>2, <2>3, <2>4, StreamStep
<1>8. CASE o.code # "ok"
  <2> DEFINE w == [worker[r] EXCEPT !.broken = TRUE]
  <2>1. HeldFit(worker[r].held, o.row)
    BY <1>0, <1>2, <1>5, StreamOf, RunOf, HeldMoves DEF Served
  <2>2. Step(r, w) BY <1>1, <1>8
  <2>3. /\ w \in WorkerT /\ w.pc = worker[r].pc /\ w.save = worker[r].save
        /\ w.held = worker[r].held /\ w.text = worker[r].text
    BY RunOf DEF WorkerT
  <2> HIDE DEF w
  <2> QED BY <1>0, <1>2, <1>3, <1>4, <1>5, <1>6, <2>1, <2>2, <2>3, StreamOf, StreamStep
<1> QED BY <1>7, <1>8

-----------------------------------------------------------------------------
\* The end of a response, and its saving.

\* The result of a process extends what was observed, or is cut at the limit.
LEMMA ResultFits ==
  ASSUME Fits, NEW r \in Runs, worker[r].pc = "streaming",
         NEW status \in {"completed", "stopped", "failed"},
         NEW final \in worker[r].text..(MaxText + 1), NEW cleanup \in {"settled", "unresolved"},
         NEW evidence \in {"none", "submitted", "delivered"},
         status = "completed" => final > 0 /\ evidence = "delivered",
         NEW save, save = ResultOf(worker[r], status, final, cleanup, evidence)
  PROVE  /\ save \in SaveT /\ save.kind = "provider" /\ SaveFit(Bound(r), save)
         /\ save.report.text >= worker[r].text /\ save.report.evidence = evidence
<1>1. /\ worker[r].text \in Nat /\ MaxText \in Nat /\ worker[r].text <= MaxText /\ final \in Nat
      /\ final >= worker[r].text /\ final <= MaxText + 1
  BY RunOf, StreamOf, BoundsAssumption
<1>2. save \in SaveT BY <1>1, ResultTyped
<1>3. PICK limited \in BOOLEAN :
        /\ limited = (worker[r].limited \/ final > MaxText)
        /\ save = ProviderSave(IF limited \/ (worker[r].broken /\ status = "stopped")
                               THEN "failed" ELSE status,
                               IF limited THEN MaxText ELSE final, cleanup, evidence)
  <2> DEFINE l == worker[r].limited \/ final > MaxText
  <2>1. l \in BOOLEAN BY RunOf DEF WorkerT
  <2>2. save = ProviderSave(IF l \/ (worker[r].broken /\ status = "stopped")
                            THEN "failed" ELSE status,
                            IF l THEN MaxText ELSE final, cleanup, evidence)
    BY DEF ResultOf
  <2> QED BY <2>1, <2>2
<1>4. /\ save.kind = "provider" /\ save.report.evidence = evidence
      /\ save.report.text = IF limited THEN MaxText ELSE final
      /\ save.report.status = "completed" => ~limited /\ status = "completed"
  BY <1>3 DEF ProviderSave
<1>7. save.report.text \in {MaxText, final} BY <1>4
<1>5. save.report.text >= worker[r].text /\ save.report.text <= MaxText + 1
  <2>1. CASE save.report.text = MaxText BY <1>1, <2>1
  <2>2. CASE save.report.text = final BY <1>1, <2>2
  <2> QED BY <1>7, <2>1, <2>2
<1>6. SaveFit(Bound(r), save) BY <1>4, <1>5 DEF SaveFit
<1> QED BY <1>2, <1>4, <1>5, <1>6

\* A response ends: its result is kept for the author or saved.
LEMMA ResponseEnds ==
  ASSUME Fits, NEW r \in Runs, WellKept', Around(r), rows' = rows, wire' = wire,
         worker[r].pc \in External, NEW save \in SaveT, End(r, save) \/ ToSave(r, save),
         save.kind = "provider", SaveFit(Bound(r), save), save.report.text >= worker[r].text,
         Bound(r) = "app_server" /\ wire[r].hook = "ack" => Acknowledges(save)
  PROVE  Fits'
<1>1. DeskFit(Bound(r), rows[r], worker[r], pending[r], wire[r], r \in registry, Claims(r),
              stopper[r], signal[r])
  BY RunOf DEF DeskOf
<1>2. worker[r].pc \notin {"none"} \cup Storing BY DEF External, Storing
<1>3. rows[r].out <= worker[r].text BY <1>1, <1>2 DEF DeskFit, WorkerFit
<1>4. CASE ToSave(r, save) BY <1>1, <1>4, ToSaveFits
<1>5. CASE End(r, save)
  <2>1. save # NoSave BY DEF NoSave
  <2>2. save.report.text >= rows'[r].out
    <3>1. save.report.text \in Nat /\ worker[r].text \in Nat /\ rows[r].out \in Nat
      BY RunOf, GoodRow DEF SaveT, Rep
    <3> QED BY <1>3, <3>1
  <2> QED BY <1>2, <1>5, <2>1, <2>2, RestServed, EndFits
<1> QED BY <1>4, <1>5

\* The end of a process.
LEMMA FinishedFits ==
  ASSUME Fits, NEW r \in Runs, WellKept', Finished(r)
  PROVE  Fits'
<1>0. /\ rows' = rows /\ wire' = wire /\ signal' = signal /\ worker[r].pc = "streaming"
      /\ UNCHANGED <<project, faults, callers, retry, stopper>>
      /\ Bound(r) \in {"codex", "claude"}
  BY DEF Finished, actorVars
<1>1. Around(r) BY <1>0, AroundOf
<1>2. PICK status \in {"completed", "stopped", "failed"},
           final \in worker[r].text..(MaxText + 1), cleanup \in {"settled", "unresolved"},
           confirmed \in BOOLEAN, evidence \in {"none", "delivered"} :
        /\ ProcessEnds(r, status, final, cleanup, evidence)
        /\ LET save == ResultOf(worker[r], Classified(Bound(r), status, confirmed), final,
                                cleanup, evidence)
           IN  IF worker[r].broken THEN End(r, save) ELSE ToSave(r, save)
  BY DEF Finished
<1>3. PICK kind \in {"completed", "stopped", "failed"} :
        /\ kind = Classified(Bound(r), status, confirmed)
        /\ kind = "completed" => status = "completed"
  BY DEF Classified
<1>4. kind = "completed" => final > 0 /\ evidence = "delivered" BY <1>2, <1>3 DEF ProcessEnds
<1> DEFINE save == ResultOf(worker[r], kind, final, cleanup, evidence)
<1>5. /\ save \in SaveT /\ save.kind = "provider" /\ SaveFit(Bound(r), save)
      /\ save.report.text >= worker[r].text
  BY <1>0, <1>4, ResultFits
<1>6. End(r, save) \/ ToSave(r, save) BY <1>2, <1>3
<1>7. worker[r].pc \in External BY <1>0 DEF External
<1> HIDE DEF save
<1> QED BY <1>0, <1>1, <1>5, <1>6, <1>7, ResponseEnds

\* The event stream broke.
LEMMA StreamLostFits ==
  ASSUME Fits, NEW r \in Runs, WellKept', StreamLost(r)
  PROVE  Fits'
<1>0. /\ rows' = rows /\ wire' = wire /\ worker[r].pc = "streaming"
      /\ signal' = [signal EXCEPT ![r] = TRUE]
      /\ UNCHANGED <<project, faults, callers, retry, stopper>>
      /\ Bound(r) \in {"codex", "claude"}
  BY DEF StreamLost, actorVars
<1>1. Around(r) BY <1>0, AroundOf
<1> DEFINE save == ProviderSave("failed", worker[r].text, "unresolved", "none")
<1>2. worker[r].text \in Nat /\ worker[r].text <= MaxText /\ MaxText \in Nat
  BY <1>0, RunOf, StreamOf, BoundsAssumption
<1>3. save \in SaveT BY <1>2, ReportTyped
<1>4. save.kind = "provider" /\ save.report.text = worker[r].text /\ save.report.status = "failed"
  BY DEF ProviderSave
<1>5. ToSave(r, save) BY DEF StreamLost
<1> HIDE DEF save
<1>6. SaveFit(Bound(r), save) BY <1>2, <1>4 DEF SaveFit
<1>7. worker[r].pc \in External BY <1>0 DEF External
<1>8. save.report.text >= worker[r].text BY <1>2, <1>4
<1> QED BY <1>0, <1>1, <1>3, <1>4, <1>5, <1>6, <1>7, <1>8, ResponseEnds

\* The end of the stream of an HTTP endpoint.
LEMMA HttpFinishedFits ==
  ASSUME Fits, NEW r \in Runs, WellKept', HttpFinished(r)
  PROVE  Fits'
<1>0. /\ rows' = rows /\ wire' = wire /\ signal' = signal /\ worker[r].pc = "streaming"
      /\ UNCHANGED <<project, faults, callers, retry, stopper>>
      /\ Bound(r) = "http"
  BY DEF HttpFinished, actorVars
<1>1. Around(r) BY <1>0, AroundOf
<1>2. PICK status \in {"completed", "stopped", "failed"},
           final \in worker[r].text..(MaxText + 1), evidence \in {"submitted", "delivered"} :
        /\ StreamEnds(r, status, final, evidence)
        /\ ToSave(r, HttpResult(worker[r], status, final, evidence))
  BY DEF HttpFinished
<1>3. /\ worker[r].text \in Nat /\ worker[r].text <= MaxText /\ MaxText \in Nat
      /\ final \in Nat /\ final >= worker[r].text /\ final <= MaxText + 1
  BY <1>0, RunOf, StreamOf, BoundsAssumption
<1>4. status = "completed" => final > 0 /\ evidence = "delivered"
  BY <1>2, <1>3 DEF StreamEnds
<1> DEFINE text == IF status # "completed" /\ final > MaxText THEN MaxText ELSE final
           kind == IF status # "completed" /\ (worker[r].limited \/ worker[r].broken)
                   THEN "failed" ELSE status
           told == IF worker[r].held.status = "stopping" THEN "stopped" ELSE kind
           save == ProviderSave(told, text, "settled", evidence)
<1>5. /\ text \in Nat /\ text >= worker[r].text /\ text <= MaxText + 1
      /\ told = "completed" => status = "completed" /\ text = final
      /\ told \in {"completed", "stopped", "failed"}
  BY <1>3
<1>6. ToSave(r, save) BY <1>2 DEF HttpResult
<1> HIDE DEF text, told
<1>7. save \in SaveT BY <1>5, ReportTyped
<1>8. /\ save.kind = "provider" /\ save.report.text = text /\ save.report.status = told
      /\ save.report.evidence = evidence
  BY DEF ProviderSave
<1> HIDE DEF save
<1>9. SaveFit(Bound(r), save) BY <1>4, <1>5, <1>8 DEF SaveFit
<1>10. worker[r].pc \in External BY <1>0 DEF External
<1>11. save.report.text >= worker[r].text BY <1>5, <1>8
<1> QED BY <1>0, <1>1, <1>6, <1>7, <1>8, <1>9, <1>10, <1>11, ResponseEnds

\* The turn of the app server ended.
LEMMA TurnFinishedFits ==
  ASSUME Fits, NEW r \in Runs, WellKept', TurnFinished(r)
  PROVE  Fits'
<1>0. /\ rows' = rows /\ wire' = wire /\ signal' = signal /\ worker[r].pc = "streaming"
      /\ UNCHANGED <<project, faults, callers, retry, stopper>>
  BY DEF TurnFinished, actorVars
<1>1. Around(r) BY <1>0, AroundOf
<1>2. PICK status \in {"completed", "stopped", "failed"},
           final \in worker[r].text..(MaxText + 1), cleanup \in {"settled", "unresolved"} :
        /\ status = "completed" => final > 0
        /\ Conclude(r, ResultOf(worker[r], status, final, cleanup, "delivered"))
  BY DEF TurnFinished
<1> DEFINE save == ResultOf(worker[r], status, final, cleanup, "delivered")
           w == [worker[r] EXCEPT !.pc = "flush", !.save = save]
<1>3. /\ save \in SaveT /\ save.kind = "provider" /\ SaveFit(Bound(r), save)
      /\ save.report.text >= worker[r].text /\ save.report.evidence = "delivered"
  BY <1>0, <1>2, ResultFits
<1>4. \/ End(r, save) \/ ToSave(r, save)
      \/ Step(r, w) /\ UNCHANGED <<registry, pending>>
  BY <1>2 DEF Conclude
<1>5. worker[r].pc \in External BY <1>0 DEF External
<1> HIDE DEF save
<1>6. Acknowledges(save) BY <1>3 DEF Acknowledges
<1>7. CASE End(r, save) \/ ToSave(r, save)
  BY <1>0, <1>1, <1>3, <1>5, <1>6, <1>7, ResponseEnds
<1>8. CASE Step(r, w) /\ UNCHANGED <<registry, pending>>
  <2>1. /\ w \in WorkerT /\ w.held = worker[r].held /\ w.text = worker[r].text /\ w.save = save
        /\ w.pc = "flush"
    BY <1>3, RunOf DEF WorkerT, Places
  <2> HIDE DEF w
  <2>2. DeskFit(Bound(r), rows[r], worker[r], pending[r], wire[r], r \in registry, Claims(r),
                stopper[r], signal[r])
    BY RunOf DEF DeskOf
  <2>3. DeskFit(Bound(r), rows[r], w, pending[r], wire[r], r \in registry, Claims(r),
                stopper[r], signal'[r])
    BY <1>3, <1>5, <1>6, <2>1, <2>2, RunOf, LeavesToSave
  <2> QED BY <1>0, <1>1, <1>8, <2>3, RestServed, StepFits
<1> QED BY <1>4, <1>7, <1>8

\* The turn of the app server was lost.
LEMMA TurnLostFits ==
  ASSUME Fits, NEW r \in Runs, WellKept', TurnLost(r)
  PROVE  Fits'
<1>0. /\ rows' = rows /\ wire' = wire /\ signal' = signal
      /\ worker[r].pc \in {"claiming", "submitting", "turning", "streaming"}
      /\ UNCHANGED <<project, faults, callers, retry, stopper>>
  BY DEF TurnLost, actorVars
<1>1. Around(r) BY <1>0, AroundOf
<1>2. PICK evidence \in Noted(r) :
        LET save == ProviderSave("failed", worker[r].text, "unresolved", evidence) IN
        IF worker[r].broken THEN End(r, save) ELSE ToSave(r, save)
  BY DEF TurnLost
<1> DEFINE save == ProviderSave("failed", worker[r].text, "unresolved", evidence)
<1>3. /\ evidence \in {"none", "submitted", "delivered"}
      /\ worker[r].pc = "streaming" => evidence = "delivered"
  BY <1>2 DEF Noted
<1>4. worker[r].pc \in External /\ (worker[r].pc # "streaming" => worker[r].pc \in Early)
  BY <1>0 DEF External, Early
<1>5. worker[r].text \in Nat /\ MaxText \in Nat /\ worker[r].text <= MaxText
  <2>1. worker[r].text <= MaxText BY RunOf DEF DeskOf, DeskFit, WorkerFit
  <2> QED BY <2>1, RunOf, BoundsAssumption
<1>6. save \in SaveT BY <1>3, <1>5, ReportTyped
<1>7. /\ save.kind = "provider" /\ save.report.text = worker[r].text
      /\ save.report.status = "failed" /\ save.report.evidence = evidence
  BY DEF ProviderSave
<1>8. End(r, save) \/ ToSave(r, save) BY <1>2
<1> HIDE DEF save
<1>9. SaveFit(Bound(r), save) BY <1>5, <1>7 DEF SaveFit
<1>10. Bound(r) = "app_server" /\ wire[r].hook = "ack" => Acknowledges(save)
  <2>1. CASE worker[r].pc = "streaming" BY <1>3, <1>7, <2>1 DEF Acknowledges
  <2>2. CASE worker[r].pc # "streaming" BY <1>4, <2>2, EarlyOf
  <2> QED BY <2>1, <2>2
<1>11. save.report.text >= worker[r].text BY <1>5, <1>7
<1> QED BY <1>0, <1>1, <1>4, <1>6, <1>7, <1>8, <1>9, <1>10, <1>11, ResponseEnds

\* A worker that saves takes a step, and stays.
LEMMA InsideStep ==
  ASSUME Fits, NEW r \in Runs, WellKept', Around(r), wire' = wire,
         Served(Bound(r), rows[r], rows'[r]), Keeps(rows[r], rows'[r]),
         rows'[r].result = rows[r].result, worker[r].pc # "none",
         NEW w \in WorkerT, Step(r, w), UNCHANGED <<registry, pending>>,
         w.pc # "none", w.pc \notin External, WorkerFit(Bound(r), w, rows'[r]),
         Bound(r) = "app_server" /\ wire[r].hook = "ack" => Acknowledges(w.save)
  PROVE  Fits'
<1>1. Good(rows'[r]) BY DEF WellKept, RowsOK
<1>2. DeskFit(Bound(r), rows[r], worker[r], pending[r], wire[r], r \in registry, Claims(r),
              stopper[r], signal[r])
  BY RunOf DEF DeskOf
<1>3. Moves(rows[r], rows'[r]) BY DEF Served
<1>4. DeskFit(Bound(r), rows'[r], w, pending[r], wire[r], r \in registry, Claims(r),
              stopper[r], signal'[r])
  BY <1>1, <1>2, <1>3, RunOf, StaysInside
<1> QED BY <1>4, StepFits

\* What is known of a worker that saves.
LEMMA SavingOf ==
  ASSUME Fits, NEW r \in Runs, worker[r].pc \in Saving \cup {"reject", "rejected"}
  PROVE  /\ worker[r].pc # "none" /\ worker[r].pc \notin External /\ Bound(r) # "mock"
         /\ worker[r].text <= MaxText /\ worker[r].held.out <= worker[r].text
         /\ rows[r].out <= worker[r].text /\ ~Fresh(rows[r])
         /\ HeldFit(worker[r].held, rows[r])
         /\ worker[r].held.status \notin {"absent", "queued"}
         /\ SaveFit(Bound(r), worker[r].save)
         /\ Bound(r) = "app_server" /\ wire[r].hook = "ack" => Acknowledges(worker[r].save)
         /\ worker[r].pc \in Saving =>
              /\ worker[r].save.kind # "none"
              /\ worker[r].save.kind = "provider" => worker[r].save.report.text >= worker[r].text
<1>1. worker[r].pc \notin {"none"} \cup Storing /\ worker[r].pc \notin External
      /\ worker[r].pc \notin {"none"} \cup Local /\ worker[r].pc # "none"
  BY DEF External, Storing, Saving, Local
<1> QED BY <1>1, RunOf DEF DeskOf, DeskFit, WorkerFit, WireFit

\* It saves at another place with the copy that it has or with a new one.
LEMMA SavingFit ==
  ASSUME NEW b, b # "mock", NEW row, NEW w, w.pc \in Saving \cup {"reject", "rejected"}, ~Fresh(row),
         HeldFit(w.held, row), w.held.status \notin {"absent", "queued"}, SaveFit(b, w.save),
         w.held.out <= w.text, w.text <= MaxText, row.out <= w.text,
         w.pc \in Saving => w.save.kind # "none",
         w.pc \in Saving /\ w.save.kind = "provider" => w.save.report.text >= w.text
  PROVE  WorkerFit(b, w, row) /\ w.pc # "none" /\ w.pc \notin External
<1>1. /\ w.pc \notin Early /\ w.pc \notin External /\ w.pc \notin Storing /\ w.pc \notin Local
      /\ w.pc \notin {"deliver", "write"} /\ w.pc # "none"
  BY DEF Early, External, Storing, Local, Saving
<1> QED BY <1>1 DEF WorkerFit

\* The run is read again before its outcome is stored.
LEMMA RereadFits ==
  ASSUME Fits, NEW r \in Runs, WellKept', Reread(r)
  PROVE  Fits'
<1>0. /\ rows' = rows /\ wire' = wire /\ signal' = signal /\ worker[r].pc = "reread"
      /\ UNCHANGED <<project, callers, retry, stopper, registry, pending>>
  BY DEF Reread
<1>1. PICK read \in BOOLEAN :
        /\ Fault(project.connected /\ ~read)
        /\ Step(r, [worker[r] EXCEPT !.pc = "save",
                                     !.held = IF read THEN HeldOf(rows[r]) ELSE worker[r].held])
  BY DEF Reread
<1>2. (project.connected /\ ~read) \in BOOLEAN BY DEF Fits, WellKept, ProjectOK
<1>3. Around(r) BY <1>0, <1>1, <1>2, AroundOf
<1> DEFINE held == IF read THEN HeldOf(rows[r]) ELSE worker[r].held
           w == [worker[r] EXCEPT !.pc = "save", !.held = held]
<1>4. worker[r].pc \in Saving BY <1>0 DEF Saving
<1>5. /\ held \in HeldT /\ HeldFit(held, rows[r]) /\ held.out <= worker[r].text
      /\ held.status \notin {"absent", "queued"}
  BY <1>4, SavingOf, RunOf, HeldReads DEF Fresh
<1>6. Step(r, w) BY <1>1
<1> HIDE DEF held
<1>7. /\ w \in WorkerT /\ w.held = held /\ w.text = worker[r].text /\ w.save = worker[r].save
      /\ w.pc = "save"
  BY <1>5, RunOf DEF WorkerT, Places
<1> HIDE DEF w
<1>8. WorkerFit(Bound(r), w, rows[r]) /\ w.pc # "none" /\ w.pc \notin External
  <2>1. w.pc \in Saving BY <1>7 DEF Saving
  <2> QED BY <1>4, <1>5, <1>7, <2>1, SavingOf, SavingFit
<1> QED BY <1>0, <1>3, <1>4, <1>6, <1>7, <1>8, SavingOf, RestServed, InsideStep

\* What an attempt to store the outcome of a worker leaves.
LEMMA AttemptEnds ==
  ASSUME Fits, NEW r \in Runs, WellKept', AllKeep, worker[r].pc # "none", wire' = wire,
         UNCHANGED <<callers, signal, retry, stopper>>,
         NEW o \in Attempt(r, worker[r].save, worker[r].held), Do(r, o),
         worker[r].save.kind # "none",
         worker[r].save.kind = "provider" => worker[r].save.report.text >= rows[r].out,
         NEW kept \in {NoSave, worker[r].save}, End(r, kept),
         kept = NoSave => o.code \in {"ok", "RunSealed"},
         kept # NoSave /\ kept.kind = "complete" /\ Going(rows[r]) =>
            kept.report.seq = rows[r].seq
  PROVE  Fits'
<1>1. rows'[r] = o.row /\ Keeps(rows[r], rows'[r]) BY Written DEF AllKeep
<1>2. Around(r) BY AroundOf DEF Do
<1>3. /\ HeldFit(worker[r].held, rows[r]) /\ SaveFit(Bound(r), worker[r].save)
      /\ worker[r].held.status # "absent"
      /\ Bound(r) = "app_server" /\ wire[r].hook = "ack" => Acknowledges(worker[r].save)
  BY RunOf DEF DeskOf, DeskFit, WorkerFit, WireFit
<1>4. Stores(r, worker[r].save, o) BY <1>3, RunOf, AttemptStores DEF Fits
<1>5. Served(Bound(r), rows[r], rows'[r]) BY <1>1, <1>4 DEF Stores
<1>6. kept = NoSave => ~Going(rows'[r]) BY <1>1, <1>4 DEF Stores, Tells
<1>7. kept.kind = "provider" => kept.report.text >= rows'[r].out
  <2>1. o.row # rows[r] /\ worker[r].save.kind = "provider"
          => o.row.out = worker[r].save.report.text
    BY <1>4 DEF Stores
  <2>2. worker[r].save.report.text \in Nat BY RunOf DEF SaveT, Rep
  <2>3. kept.kind = "provider" => kept = worker[r].save BY DEF NoSave
  <2> QED BY <1>1, <2>1, <2>2, <2>3
<1>8. \/ rows'[r].result = rows[r].result
      \/ /\ Bound(r) = "app_server" /\ wire[r].hook = "ack" /\ rows'[r].result # NoReport
              => rows'[r].result.evidence = "delivered"
         /\ Bound(r) = "app_server" /\ rows'[r].result # NoReport
              => DeliveryStands(wire[r].turn, rows'[r].result)
  <2>1. CASE worker[r].save.kind # "provider" \/ o.row = rows[r] BY <1>1, <1>4, <2>1 DEF Stores
  <2>2. CASE worker[r].save.kind = "provider" /\ o.row # rows[r]
    BY <1>1, <1>3, <1>4, <2>2 DEF Stores, Stands, Acknowledges, DeliveryStands
  <2> QED BY <2>1, <2>2
<1>9. kept # NoSave =>
        /\ SaveFit(Bound(r), kept)
        /\ Bound(r) = "app_server" /\ wire[r].hook = "ack" => Acknowledges(kept)
        /\ kept.kind = "complete" /\ Going(rows'[r]) => kept.report.seq = rows'[r].seq
  <2>1. Going(rows'[r]) => rows'[r] = rows[r] BY <1>1, <1>4 DEF Stores, Tells
  <2> QED BY <1>1, <1>3, <2>1
<1> QED BY <1>1, <1>2, <1>5, <1>6, <1>7, <1>8, <1>9, EndFits

\* save_report.
LEMMA SaveReportFits ==
  ASSUME Fits, NEW r \in Runs, WellKept', AllKeep, SaveReport(r)
  PROVE  Fits'
<1>0. wire' = wire /\ UNCHANGED <<callers, signal, retry, stopper>> /\ worker[r].pc = "save"
  BY DEF SaveReport
<1>1. PICK o \in Attempt(r, worker[r].save, worker[r].held) :
        Do(r, o) /\ End(r, IF o.code = "ok" THEN NoSave ELSE worker[r].save)
  BY DEF SaveReport
<1>2. worker[r].pc \in Saving BY <1>0 DEF Saving
<1>3. /\ worker[r].save.kind \notin {"none", "complete"}
      /\ worker[r].save.kind = "provider" => worker[r].save.report.text >= rows[r].out
      /\ worker[r].pc # "none"
  <2>1. worker[r].save.report.text \in Nat /\ worker[r].text \in Nat /\ rows[r].out \in Nat
    BY RunOf, GoodRow DEF SaveT, Rep
  <2> QED BY <1>2, <2>1, SavingOf DEF SaveFit
<1>4. PICK kept \in {NoSave, worker[r].save} :
        /\ End(r, kept) /\ (kept = NoSave => o.code = "ok")
        /\ kept # NoSave => kept = worker[r].save
  <2>1. CASE o.code = "ok" BY <1>1, <2>1
  <2>2. CASE o.code # "ok"
    <3>1. worker[r].save # NoSave BY <1>3 DEF NoSave
    <3> QED BY <1>1, <2>2, <3>1
  <2> QED BY <2>1, <2>2
<1> QED BY <1>0, <1>1, <1>3, <1>4, AttemptEnds

\* The last flush before a result is saved.
LEMMA FlushLastFits ==
  ASSUME Fits, NEW r \in Runs, WellKept', AllKeep, FlushLast(r)
  PROVE  Fits'
<1> DEFINE n == worker[r].text - worker[r].held.out
           failed == [worker[r].save EXCEPT !.report.status = "failed"]
           kept == IF worker[r].save.report.status = "stopped" THEN failed ELSE worker[r].save
<1>0. /\ wire' = wire /\ signal' = signal /\ worker[r].pc = "flush"
      /\ UNCHANGED <<callers, retry, stopper>>
      /\ worker[r].text \in Nat /\ worker[r].held.out \in Nat /\ MaxText \in Nat
  BY RunOf, BoundsAssumption DEF FlushLast
<1>1. PICK o \in AppendNext(r, n) :
        /\ Do(r, o)
        /\ IF o.code = "ok"
           THEN /\ Step(r, [worker[r] EXCEPT !.pc = "reread", !.held = HeldOf(o.row)])
                /\ UNCHANGED <<registry, pending>>
           ELSE End(r, kept)
  BY DEF FlushLast
<1>2. rows'[r] = o.row /\ Keeps(rows[r], o.row) BY <1>1, Written DEF AllKeep
<1>3. Around(r) BY <1>0, <1>1, AroundOf DEF Do
<1>p. worker[r].pc \in Saving BY <1>0 DEF Saving
<1>4. n \in Nat /\ worker[r].held.out + n = worker[r].text /\ worker[r].text <= MaxText
  BY <1>0, <1>p, SavingOf
<1> HIDE DEF n
<1>5. /\ Served(Bound(r), rows[r], o.row) /\ o.row.status = rows[r].status
      /\ o.row.result = rows[r].result
      /\ o.row # rows[r] => o.row.out = worker[r].text
  BY <1>4, AppendOf
<1>6. o.row.out <= worker[r].text BY <1>0, <1>p, <1>5, SavingOf
<1>7. CASE o.code = "ok"
  <2> DEFINE held == HeldOf(o.row)
             w == [worker[r] EXCEPT !.pc = "reread", !.held = held]
  <2>1. /\ held \in HeldT /\ HeldFit(held, o.row) /\ held.status = o.row.status
        /\ held.out = o.row.out
    BY <1>2, <1>5, HeldReads DEF Served, Keeps
  <2>2. Step(r, w) /\ UNCHANGED <<registry, pending>> BY <1>1, <1>7
  <2>3. held.status \notin {"absent", "queued"} /\ ~Fresh(o.row)
    BY <1>p, <1>5, <2>1, SavingOf DEF Fresh
  <2> HIDE DEF held
  <2>4. /\ w \in WorkerT /\ w.pc = "reread" /\ w.save = worker[r].save /\ w.held = held
        /\ w.text = worker[r].text
    BY <2>1, RunOf DEF WorkerT, Places
  <2> HIDE DEF w
  <2>5. WorkerFit(Bound(r), w, o.row) /\ w.pc # "none" /\ w.pc \notin External
    <3>1. w.pc \in Saving BY <2>4 DEF Saving
    <3> QED BY <1>p, <1>4, <1>6, <2>1, <2>3, <2>4, <3>1, SavingOf, SavingFit
  <2> QED BY <1>0, <1>p, <1>2, <1>3, <1>5, <2>2, <2>4, <2>5, SavingOf, InsideStep
<1>8. CASE o.code # "ok"
  <2>1. End(r, kept) BY <1>1, <1>8
  <2>2. worker[r].save \in SaveT /\ worker[r].save.report.text \in Nat /\ o.row.out \in Nat
        /\ worker[r].save.report \in Rep
    BY <1>2, RunOf, GoodRow DEF SaveT, Rep, Keeps
  <2>3. /\ failed.kind = worker[r].save.kind
        /\ failed.report.text = worker[r].save.report.text
        /\ failed.report.evidence = worker[r].save.report.evidence
        /\ failed.report.status = "failed"
    BY <2>2 DEF SaveT, Rep
  <2>4. /\ kept.kind = worker[r].save.kind
        /\ kept.report.text = worker[r].save.report.text
        /\ kept.report.evidence = worker[r].save.report.evidence
        /\ kept.report.status \in {"failed", worker[r].save.report.status}
    BY <2>3
  <2> HIDE DEF kept, failed
  <2>5. SaveFit(Bound(r), kept)
        /\ (Bound(r) = "app_server" /\ wire[r].hook = "ack" => Acknowledges(kept))
        /\ kept.kind \notin {"none", "complete"}
    BY <1>p, <2>4, SavingOf DEF SaveFit, Acknowledges
  <2>6. kept # NoSave BY <2>5 DEF NoSave
  <2>7. kept.kind = "provider" => kept.report.text >= o.row.out
    <3>1. worker[r].save.kind = "provider" => worker[r].save.report.text >= worker[r].text
      BY <1>p, SavingOf
    <3> QED BY <1>0, <1>6, <2>2, <2>4, <3>1
  <2> QED BY <1>0, <1>p, <1>2, <1>3, <1>5, <2>1, <2>5, <2>6, <2>7, SavingOf, EndFits
<1> QED BY <1>7, <1>8

\* save_local_failure of Claude.
LEMMA RejectFits ==
  ASSUME Fits, NEW r \in Runs, WellKept', AllKeep, Reject(r)
  PROVE  Fits'
<1>0. /\ wire' = wire /\ signal' = signal /\ worker[r].pc = "reject"
      /\ UNCHANGED <<callers, retry, stopper>>
  BY DEF Reject
<1> DEFINE outcomes == FailDiscussionRun(rows[r], <<"rejected">>, worker[r].held.seq)
<1>1. PICK o \in Reach(r, outcomes) :
        /\ Do(r, o)
        /\ IF o.code = "ok" THEN End(r, NoSave)
           ELSE /\ Step(r, [worker[r] EXCEPT !.pc = "rejected"])
                /\ UNCHANGED <<registry, pending>>
  BY DEF Reject
<1>2. rows'[r] = o.row /\ Keeps(rows[r], o.row) BY <1>1, Written DEF AllKeep
<1>3. Around(r) BY <1>0, <1>1, AroundOf DEF Do
<1>4. worker[r].pc \in Saving \cup {"reject", "rejected"} BY <1>0
<1>5. /\ Served(Bound(r), rows[r], o.row) /\ Plain(rows[r], o.row)
      /\ o.code = "ok" => ~Going(o.row)
  <2>1. CASE o \in outcomes
    <3>1. <<"rejected">> \in Ids BY DEF Ids
    <3> QED BY <2>1, <3>1, RunOf, FailServed DEF Tells
  <2>2. CASE o.row = rows[r] /\ o.code = "PersistenceUnavailable" BY <2>2, RunOf, SameServed
  <2> HIDE DEF outcomes
  <2> QED BY <2>1, <2>2, ReachCases
<1>6. o.row.out = rows[r].out /\ o.row.result = rows[r].result BY <1>5 DEF Plain
<1>7. CASE o.code = "ok"
  <2>1. End(r, NoSave) BY <1>1, <1>7
  <2> QED BY <1>0, <1>2, <1>3, <1>4, <1>5, <1>6, <1>7, <2>1, SavingOf, EndFits
<1>8. CASE o.code # "ok"
  <2> DEFINE w == [worker[r] EXCEPT !.pc = "rejected"]
  <2>1. Step(r, w) /\ UNCHANGED <<registry, pending>> BY <1>1, <1>8
  <2>2. /\ w \in WorkerT /\ w.pc = "rejected" /\ w.save = worker[r].save
        /\ w.held = worker[r].held /\ w.text = worker[r].text
    BY RunOf DEF WorkerT, Places
  <2> HIDE DEF w
  <2>3. HeldFit(worker[r].held, o.row)
    BY <1>2, <1>4, <1>5, SavingOf, RunOf, HeldMoves DEF Served
  <2>4. ~Fresh(o.row) BY <1>4, <1>5, SavingOf DEF Served, Moves
  <2>5. WorkerFit(Bound(r), w, o.row) /\ w.pc # "none" /\ w.pc \notin External
    <3>1. w.pc \notin Saving BY <2>2 DEF Saving
    <3> QED BY <1>4, <1>6, <2>2, <2>3, <2>4, <3>1, SavingOf, SavingFit
  <2> QED BY <1>0, <1>2, <1>3, <1>4, <1>5, <1>6, <2>1, <2>2, <2>5, SavingOf, InsideStep
<1> QED BY <1>7, <1>8

\* The run is read again, and a stop that came first is settled.
LEMMA RejectedFits ==
  ASSUME Fits, NEW r \in Runs, WellKept', Rejected(r)
  PROVE  Fits'
<1>0. /\ rows' = rows /\ wire' = wire /\ signal' = signal /\ worker[r].pc = "rejected"
      /\ UNCHANGED <<project, callers, retry, stopper>>
  BY DEF Rejected
<1>1. PICK read \in BOOLEAN :
        /\ Fault(project.connected /\ ~read)
        /\ IF read /\ rows[r].status = "stopping"
           THEN /\ Step(r, [worker[r] EXCEPT !.pc = "save", !.held = HeldOf(rows[r]),
                                             !.save = FailSave])
                /\ UNCHANGED <<registry, pending>>
           ELSE End(r, FailSave)
  BY DEF Rejected
<1>2. (project.connected /\ ~read) \in BOOLEAN BY DEF Fits, WellKept, ProjectOK
<1>3. Around(r) BY <1>0, <1>1, <1>2, AroundOf
<1>4. worker[r].pc \in Saving \cup {"reject", "rejected"} BY <1>0
<1>5. /\ FailSave \in SaveT /\ FailSave.kind = "fail" /\ SaveFit(Bound(r), FailSave)
      /\ Acknowledges(FailSave)
  BY Typed, UnsentFits DEF Acknowledges
<1>6. CASE /\ Step(r, [worker[r] EXCEPT !.pc = "save", !.held = HeldOf(rows[r]), !.save = FailSave])
           /\ UNCHANGED <<registry, pending>> /\ rows[r].status = "stopping"
  <2> DEFINE held == HeldOf(rows[r])
             w == [worker[r] EXCEPT !.pc = "save", !.held = held, !.save = FailSave]
  <2>1. /\ held \in HeldT /\ HeldFit(held, rows[r]) /\ held.status = rows[r].status
        /\ held.out = rows[r].out
    BY RunOf, HeldReads
  <2>2. Step(r, w) BY <1>6
  <2> HIDE DEF held
  <2>3. /\ w \in WorkerT /\ w.pc = "save" /\ w.save = FailSave /\ w.held = held
        /\ w.text = worker[r].text
    BY <1>5, <2>1, RunOf DEF WorkerT, Places
  <2> HIDE DEF w
  <2>4. WorkerFit(Bound(r), w, rows[r]) /\ w.pc # "none" /\ w.pc \notin External
    <3>1. w.pc \in Saving BY <2>3 DEF Saving
    <3>2. held.status \notin {"absent", "queued"} BY <1>6, <2>1
    <3> QED BY <1>4, <1>5, <2>1, <2>3, <3>1, <3>2, SavingOf, SavingFit
  <2> QED BY <1>0, <1>3, <1>4, <1>5, <1>6, <2>2, <2>3, <2>4, SavingOf, RestServed, InsideStep
<1>7. CASE End(r, FailSave)
  <2>1. FailSave # NoSave BY <1>5 DEF NoSave
  <2> QED BY <1>0, <1>3, <1>4, <1>5, <1>7, <2>1, SavingOf, RestServed, EndFits
<1> QED BY <1>1, <1>6, <1>7

-----------------------------------------------------------------------------
\* The worker of the local test model.

\* What is known of it.
LEMMA LocalOf ==
  ASSUME Fits, NEW r \in Runs, worker[r].pc \in Local
  PROVE  /\ worker[r].pc # "none" /\ worker[r].pc \notin External /\ Bound(r) = "mock"
         /\ worker[r].text <= MaxText /\ worker[r].held.out <= worker[r].text
         /\ ~Fresh(rows[r]) /\ HeldFit(worker[r].held, rows[r])
         /\ worker[r].held.status \notin {"absent", "queued"}
         /\ SaveFit(Bound(r), worker[r].save) /\ worker[r].save.kind # "provider"
         /\ worker[r].pc \in {"deliver", "write"} =>
              rows[r].out <= worker[r].text /\ (Going(rows[r]) => worker[r].held.seq = rows[r].seq)
         /\ worker[r].pc \in Storing =>
              /\ worker[r].save.kind # "none"
              /\ worker[r].save.kind = "complete" /\ Going(rows[r])
                   => worker[r].save.report.seq = rows[r].seq
<1>1. /\ worker[r].pc # "none" /\ worker[r].pc \notin External
      /\ worker[r].pc \in {"deliver", "write"} => worker[r].pc \notin {"none"} \cup Storing
  BY DEF External, Storing, Local
<1> QED BY <1>1, RunOf DEF DeskOf, DeskFit, WorkerFit

\* It goes on, with all the saved output or on its way to store an outcome.
LEMMA LocalFit ==
  ASSUME NEW row, NEW w, w.pc \in Local, ~Fresh(row), HeldFit(w.held, row),
         w.held.status \notin {"absent", "queued"}, SaveFit("mock", w.save),
         w.save.kind # "provider", w.held.out <= w.text, w.text <= MaxText,
         w.pc \in {"deliver", "write"} =>
            row.out <= w.text /\ (Going(row) => w.held.seq = row.seq),
         w.pc \in Storing =>
            /\ w.save.kind # "none"
            /\ w.save.kind = "complete" /\ Going(row) => w.save.report.seq = row.seq
  PROVE  WorkerFit("mock", w, row) /\ w.pc # "none" /\ w.pc \notin External
<1>1. /\ w.pc \notin Early /\ w.pc \notin External /\ w.pc \notin Saving /\ w.pc # "none"
      /\ w.pc \notin Storing => w.pc \in {"deliver", "write"}
  BY DEF Early, External, Storing, Local, Saving
<1> QED BY <1>1 DEF WorkerFit

\* A step of it that writes no retained outcome.
LEMMA LocalStep ==
  ASSUME Fits, NEW r \in Runs, WellKept', Around(r), wire' = wire, worker[r].pc \in Local,
         Served(Bound(r), rows[r], rows'[r]), Keeps(rows[r], rows'[r]),
         rows'[r].result = rows[r].result, UNCHANGED <<registry, pending>>,
         NEW w \in WorkerT, Step(r, w), w.pc \in Local,
         w.held.status \notin {"absent", "queued"}, HeldFit(w.held, rows'[r]),
         SaveFit("mock", w.save), w.save.kind # "provider", w.held.out <= w.text,
         w.text <= MaxText,
         w.pc \in {"deliver", "write"} =>
            rows'[r].out <= w.text /\ (Going(rows'[r]) => w.held.seq = rows'[r].seq),
         w.pc \in Storing =>
            /\ w.save.kind # "none"
            /\ w.save.kind = "complete" /\ Going(rows'[r])
                 => w.save.report.seq = rows'[r].seq
  PROVE  Fits'
<1>1. Bound(r) = "mock" /\ ~Fresh(rows[r]) /\ worker[r].pc # "none" BY LocalOf
<1>2. ~Fresh(rows'[r]) BY <1>1 DEF Served, Moves
<1>3. WorkerFit(Bound(r), w, rows'[r]) /\ w.pc # "none" /\ w.pc \notin External
  BY <1>1, <1>2, LocalFit
<1> QED BY <1>1, <1>3, InsideStep

\* What record_worker_failure makes of the worker.
LEMMA FailedOf ==
  ASSUME NEW w \in WorkerT, NEW code, code # "RunSealed", NEW u, u = Failed(w, code)
  PROVE  /\ u \in WorkerT /\ u.pc = "store" /\ u.text = w.text
         /\ u.held.seq = w.held.seq /\ u.held.out = w.held.out
         /\ u.held.status = IF code = "RunStopping" THEN "stopping" ELSE w.held.status
         /\ u.save.kind \in {"fail", "stop"} /\ u.save.report = NoReport
<1> DEFINE stops == [w.held EXCEPT !.status = "stopping"]
           save == [FailSave EXCEPT !.kind = "stop"]
<1>1. /\ stops \in HeldT /\ stops.status = "stopping" /\ stops.seq = w.held.seq
      /\ stops.out = w.held.out /\ w.held \in HeldT
  BY DEF WorkerT, HeldT, Statuses
<1>2. /\ save \in SaveT /\ save.kind = "stop" /\ save.report = NoReport
      /\ FailSave \in SaveT /\ FailSave.kind = "fail" /\ FailSave.report = NoReport
  BY Typed DEF FailSave
<1>3. CASE code = "RunStopping"
  <2>1. u = [w EXCEPT !.pc = "store", !.held = stops, !.save = save]
    BY <1>3 DEF Failed
  <2> HIDE DEF stops, save
  <2> QED BY <1>1, <1>2, <1>3, <2>1 DEF WorkerT, Places
<1>4. CASE code # "RunStopping"
  <2>1. u = [w EXCEPT !.pc = "store", !.save = FailSave]
    BY <1>4 DEF Failed
  <2> QED BY <1>1, <1>2, <1>4, <2>1 DEF WorkerT, Places
<1> QED BY <1>3, <1>4

\* A failure of the local worker is stored next, unless its run has ended.
LEMMA FailedFits ==
  ASSUME Fits, NEW r \in Runs, WellKept', Around(r), wire' = wire, worker[r].pc \in Local,
         Served(Bound(r), rows[r], rows'[r]), Keeps(rows[r], rows'[r]),
         rows'[r].result = rows[r].result, UNCHANGED <<registry, pending>>,
         NEW code, NEW w, Step(r, w),
         \/ w = Failed(worker[r], code)
         \/ w = [Failed(worker[r], code) EXCEPT !.pc = "storeAgain"] /\ code # "RunSealed",
         code = "RunSealed" => ~Going(rows'[r]),
         code = "RunStopping" => rows'[r].status = "stopping"
  PROVE  Fits'
<1>1. CASE code = "RunSealed"
  <2>1. w = NoWorker BY <1>1 DEF Failed
  <2>2. Good(rows'[r]) /\ Moves(rows[r], rows'[r]) /\ RowFit(Bound(r), rows'[r])
    BY DEF WellKept, RowsOK, Served
  <2>3. DeskFit(Bound(r), rows[r], worker[r], pending[r], wire[r], r \in registry, Claims(r),
                stopper[r], signal[r])
    BY RunOf DEF DeskOf
  <2>4. worker[r].pc # "none" BY LocalOf
  <2>5. DeskFit(Bound(r), rows'[r], NoWorker, Left(pending[r], NoSave), wire[r], r \in registry,
                Claims(r), stopper[r], signal'[r])
    BY <1>1, <2>2, <2>3, <2>4, RunOf, Ends
  <2>6. Left(pending[r], NoSave) = pending[r] BY DEF Left
  <2> QED BY <2>1, <2>5, <2>6, StepFits
<1>2. CASE code # "RunSealed"
  <2> DEFINE u == Failed(worker[r], code)
  <2>1. /\ u \in WorkerT /\ u.pc = "store" /\ u.text = worker[r].text
        /\ u.held.seq = worker[r].held.seq /\ u.held.out = worker[r].held.out
        /\ u.held.status = IF code = "RunStopping" THEN "stopping" ELSE worker[r].held.status
        /\ u.save.kind \in {"fail", "stop"} /\ u.save.report = NoReport
    BY <1>2, RunOf, FailedOf
  <2>2. w = u \/ w = [u EXCEPT !.pc = "storeAgain"] OBVIOUS
  <2> HIDE DEF u
  <2>3. /\ w \in WorkerT /\ w.pc \in Storing /\ w.text = u.text /\ w.held = u.held
        /\ w.save = u.save
    BY <2>1, <2>2 DEF WorkerT, Places, Storing
  <2>4. HeldFit(worker[r].held, rows'[r]) BY LocalOf, RunOf, HeldMoves DEF Served
  <2>5. /\ HeldFit(u.held, rows'[r]) /\ u.held.status \notin {"absent", "queued"}
    <3>1. CASE code = "RunStopping"
      BY <2>1, <2>4, <3>1 DEF HeldFit, Terminal, Fresh
    <3>2. CASE code # "RunStopping"
      <4>1. u.held.status = worker[r].held.status BY <2>1, <3>2
      <4> QED BY <2>1, <2>4, <4>1, LocalOf DEF HeldFit
    <3> QED BY <3>1, <3>2
  <2>6. SaveFit("mock", u.save)
    <3>1. NoReport.text = 0 BY DEF NoReport
    <3> QED BY <2>1, <3>1, BoundsAssumption DEF SaveFit
  <2>7. w.pc \in Local /\ w.pc \notin {"deliver", "write"} BY <2>3 DEF Storing, Local
  <2>8. w.held.out <= w.text /\ w.text <= MaxText BY <2>1, <2>3, LocalOf
  <2>9. /\ w.save.kind \notin {"provider", "complete", "none"}
        /\ w.held.status \notin {"absent", "queued"} /\ HeldFit(w.held, rows'[r])
        /\ SaveFit("mock", w.save)
    BY <2>1, <2>3, <2>5, <2>6
  <2> QED BY <2>3, <2>7, <2>8, <2>9, LocalStep
<1> QED BY <1>1, <1>2

\* The packet is delivered to the local model.
LEMMA DeliverFits ==
  ASSUME Fits, NEW r \in Runs, WellKept', AllKeep, Deliver(r)
  PROVE  Fits'
<1>0. /\ wire' = wire /\ signal' = signal /\ worker[r].pc = "deliver"
      /\ UNCHANGED <<callers, retry, stopper, registry, pending>>
  BY DEF Deliver
<1>1. worker[r].pc \in Local BY <1>0 DEF Local
<1>2. CASE Step(r, Failed(worker[r], "InvalidMockInput")) /\ UNCHANGED actorVars
  <2>1. rows' = rows /\ Around(r) BY <1>0, <1>2, AroundOf DEF actorVars
  <2> QED BY <1>0, <1>1, <1>2, <2>1, RestServed, FailedFits
<1>3. ASSUME NEW o \in Reach(r, MarkDelivered(rows[r], r \in Live)), Do(r, o),
             Step(r, IF o.code = "ok" THEN [worker[r] EXCEPT !.pc = "write", !.held = HeldOf(o.row)]
                     ELSE Failed(worker[r], o.code))
      PROVE  Fits'
  <2> DEFINE outcomes == MarkDelivered(rows[r], r \in Live)
  <2>1. rows'[r] = o.row /\ Keeps(rows[r], o.row) BY <1>3, Written DEF AllKeep
  <2>2. Around(r) BY <1>0, <1>3, AroundOf DEF Do
  <2>3. /\ Served(Bound(r), rows[r], o.row) /\ Plain(rows[r], o.row)
        /\ o.row.status = rows[r].status
        /\ o.code = "RunSealed" => ~Going(rows[r])
        /\ o.code = "RunStopping" => rows[r].status = "stopping"
    <3>1. CASE o \in outcomes BY <3>1, RunOf, DeliverServed
    <3>2. CASE o.row = rows[r] /\ o.code = "PersistenceUnavailable" BY <3>2, RunOf, SameServed
    <3> HIDE DEF outcomes
    <3>3. o \in Reach(r, outcomes) BY <1>3 DEF outcomes
    <3> QED BY <3>1, <3>2, <3>3, ReachCases
  <2>4. o.row.out = rows[r].out /\ o.row.result = rows[r].result BY <2>3 DEF Plain
  <2>5. (Going(o.row) <=> Going(rows[r])) /\ (Fresh(o.row) <=> Fresh(rows[r]))
    BY <2>3 DEF Going, Fresh
  <2>6. CASE o.code = "ok"
    <3> DEFINE held == HeldOf(o.row)
               w == [worker[r] EXCEPT !.pc = "write", !.held = held]
    <3>1. /\ held \in HeldT /\ HeldFit(held, o.row) /\ held.status = o.row.status
          /\ held.out = o.row.out /\ held.seq = o.row.seq
      BY <2>1, <2>3, HeldReads DEF Served, Keeps
    <3>2. Step(r, w) BY <1>3, <2>6
    <3>3. held.status \notin {"absent", "queued"} BY <1>1, <2>3, <3>1, LocalOf DEF Fresh
    <3> HIDE DEF held
    <3>4. /\ w \in WorkerT /\ w.pc = "write" /\ w.save = worker[r].save /\ w.held = held
          /\ w.text = worker[r].text
      BY <3>1, RunOf DEF WorkerT, Places
    <3> HIDE DEF w
    <3>5. w.pc \in Local /\ w.pc \notin Storing BY <3>4 DEF Local, Storing
    <3>6. SaveFit("mock", w.save) /\ w.save.kind # "provider" /\ w.text <= MaxText
          /\ o.row.out <= w.text
      BY <1>0, <1>1, <2>4, <3>4, LocalOf
    <3> QED BY <1>0, <1>1, <2>1, <2>2, <2>3, <2>4, <3>1, <3>2, <3>3, <3>4, <3>5, <3>6, LocalStep
  <2>7. CASE o.code # "ok"
    <3>1. Step(r, Failed(worker[r], o.code)) BY <1>3, <2>7
    <3> QED BY <1>0, <1>1, <2>1, <2>2, <2>3, <2>4, <2>5, <3>1, FailedFits
  <2> QED BY <2>6, <2>7
<1> QED BY <1>2, <1>3 DEF Deliver

\* A chunk of the fixed output.
LEMMA WriteChunkFits ==
  ASSUME Fits, NEW r \in Runs, WellKept', AllKeep, worker[r].pc = "write",
         worker[r].text < MaxText, wire' = wire, signal' = signal,
         UNCHANGED <<callers, retry, stopper, registry, pending>>,
         NEW o \in AppendNext(r, 1), Do(r, o),
         Step(r, IF o.code = "ok"
                 THEN [worker[r] EXCEPT !.text = worker[r].text + 1, !.held = HeldOf(o.row)]
                 ELSE Failed(worker[r], o.code))
  PROVE  Fits'
<1>0. /\ worker[r].pc \in Local /\ worker[r].text \in Nat /\ worker[r].held.out \in Nat
      /\ MaxText \in Nat /\ rows[r].out \in Nat /\ worker[r] \in WorkerT
  BY RunOf, GoodRow, BoundsAssumption DEF Local
<1>1. rows'[r] = o.row /\ Keeps(rows[r], o.row) BY Written DEF AllKeep
<1>2. Around(r) BY AroundOf DEF Do
<1>3. worker[r].held.out + 1 <= MaxText BY <1>0, LocalOf
<1>4. /\ Served(Bound(r), rows[r], o.row) /\ o.row.status = rows[r].status
      /\ o.row.result = rows[r].result
      /\ o.row # rows[r] => o.row.out = worker[r].held.out + 1
      /\ o.code = "RunSealed" => ~Going(rows[r])
      /\ o.code = "RunStopping" => rows[r].status = "stopping"
  BY <1>3, AppendOf
<1>5. (Going(o.row) <=> Going(rows[r])) /\ (Fresh(o.row) <=> Fresh(rows[r]))
  BY <1>4 DEF Going, Fresh
<1>6. CASE o.code = "ok"
  <2> DEFINE held == HeldOf(o.row)
             n == worker[r].text + 1
             w == [worker[r] EXCEPT !.text = n, !.held = held]
  <2>1. /\ held \in HeldT /\ HeldFit(held, o.row) /\ held.status = o.row.status
        /\ held.out = o.row.out /\ held.seq = o.row.seq
    BY <1>1, <1>4, HeldReads DEF Served, Keeps
  <2>2. Step(r, w) BY <1>6
  <2>3. held.status \notin {"absent", "queued"} BY <1>0, <1>4, <2>1, LocalOf DEF Fresh
  <2>4. n \in Nat /\ n <= MaxText /\ o.row.out <= n BY <1>0, <1>4, LocalOf
  <2> HIDE DEF held, n
  <2>5. /\ w \in WorkerT /\ w.pc = "write" /\ w.save = worker[r].save /\ w.held = held
        /\ w.text = n
    <3>1. w \in WorkerT BY <1>0, <2>1, <2>4 DEF WorkerT
    <3> QED BY <1>0, <3>1 DEF WorkerT
  <2> HIDE DEF w
  <2>6. w.pc \in Local /\ w.pc \notin Storing BY <2>5 DEF Local, Storing
  <2>7. SaveFit("mock", w.save) /\ w.save.kind # "provider" BY <1>0, <2>5, LocalOf
  <2> QED BY <1>0, <1>1, <1>2, <1>4, <2>1, <2>2, <2>3, <2>4, <2>5, <2>6, <2>7, LocalStep
<1>7. CASE o.code # "ok"
  <2>1. Step(r, Failed(worker[r], o.code)) BY <1>7
  <2> QED BY <1>0, <1>1, <1>2, <1>4, <1>5, <2>1, FailedFits
<1> QED BY <1>6, <1>7

\* Each chunk, then the completion.
LEMMA WriteFits ==
  ASSUME Fits, NEW r \in Runs, WellKept', AllKeep, Write(r)
  PROVE  Fits'
<1>0. /\ wire' = wire /\ signal' = signal /\ worker[r].pc = "write"
      /\ UNCHANGED <<callers, retry, stopper, registry, pending>>
  BY DEF Write
<1> DEFINE report == [NoReport EXCEPT !.seq = worker[r].held.seq, !.text = MaxText]
           save == [kind |-> "complete", report |-> report]
           w == [worker[r] EXCEPT !.pc = "store", !.save = save]
<1>1. ASSUME worker[r].text < MaxText, NEW o \in AppendNext(r, 1), Do(r, o),
             Step(r, IF o.code = "ok"
                     THEN [worker[r] EXCEPT !.text = worker[r].text + 1, !.held = HeldOf(o.row)]
                     ELSE Failed(worker[r], o.code))
      PROVE  Fits'
  BY <1>0, <1>1, WriteChunkFits
<1>2. CASE worker[r].text = MaxText /\ Step(r, w) /\ UNCHANGED actorVars
  <2>0. worker[r].pc \in Local /\ MaxText \in Nat BY <1>0, BoundsAssumption DEF Local
  <2>1. rows' = rows /\ Around(r) BY <1>0, <1>2, AroundOf DEF actorVars
  <2>2. report \in Rep /\ report.seq = worker[r].held.seq /\ report.text = MaxText
    BY RunOf, BoundsAssumption, Typed DEF Rep
  <2> HIDE DEF report
  <2>3. save \in SaveT /\ save.kind = "complete" /\ save.report = report BY <2>2 DEF SaveT
  <2> HIDE DEF save
  <2>4. /\ w \in WorkerT /\ w.pc = "store" /\ w.save = save /\ w.held = worker[r].held
        /\ w.text = worker[r].text
    BY <2>3, RunOf DEF WorkerT, Places
  <2>5. Step(r, w) BY <1>2
  <2> HIDE DEF w
  <2>6. w.pc \in Local /\ w.pc \notin {"deliver", "write"} BY <2>4 DEF Local
  <2>7. SaveFit("mock", save) BY <2>0, <2>2, <2>3 DEF SaveFit
  <2>8. /\ w.held.status \notin {"absent", "queued"} /\ HeldFit(w.held, rows[r])
        /\ w.held.out <= w.text /\ w.text <= MaxText
        /\ Going(rows[r]) => w.save.report.seq = rows[r].seq
    BY <1>0, <2>0, <2>2, <2>3, <2>4, LocalOf
  <2>9. SaveFit("mock", w.save) /\ w.save.kind \notin {"provider", "none"} BY <2>3, <2>4, <2>7
  <2> QED BY <1>0, <2>0, <2>1, <2>4, <2>5, <2>6, <2>8, <2>9, RestServed, LocalStep
<1> HIDE DEF w
<1> QED BY <1>1, <1>2 DEF Write, w

\* save_worker_outcome.
LEMMA StoreFits ==
  ASSUME Fits, NEW r \in Runs, WellKept', AllKeep, Store(r)
  PROVE  Fits'
<1>0. /\ wire' = wire /\ UNCHANGED <<callers, signal, retry, stopper>>
      /\ worker[r].pc \in Storing
  BY DEF Store, Storing
<1>1. PICK o \in Attempt(r, worker[r].save, worker[r].held) :
        /\ Do(r, o)
        /\ \/ o.code \in {"ok", "RunSealed"} /\ End(r, NoSave)
           \/ /\ o.code = "RunStopping"
              /\ Step(r, [Failed(worker[r], o.code) EXCEPT !.pc = "storeAgain"])
              /\ UNCHANGED <<registry, pending>>
           \/ End(r, worker[r].save)
  BY DEF Store
<1>2. worker[r].pc \in Local BY <1>0 DEF Storing, Local
<1>3. /\ worker[r].save.kind \notin {"none", "provider"} /\ worker[r].pc # "none"
      /\ worker[r].save.kind = "complete" /\ Going(rows[r])
           => worker[r].save.report.seq = rows[r].seq
  BY <1>0, <1>2, LocalOf
<1>4. CASE o.code \in {"ok", "RunSealed"} /\ End(r, NoSave)
  BY <1>0, <1>1, <1>3, <1>4, AttemptEnds
<1>5. CASE End(r, worker[r].save)
  <2>1. worker[r].save # NoSave BY <1>3 DEF NoSave
  <2> QED BY <1>0, <1>1, <1>3, <1>5, <2>1, AttemptEnds
<1>6. CASE /\ o.code = "RunStopping"
           /\ Step(r, [Failed(worker[r], o.code) EXCEPT !.pc = "storeAgain"])
           /\ UNCHANGED <<registry, pending>>
  <2>1. rows'[r] = o.row /\ Keeps(rows[r], o.row) BY <1>1, Written DEF AllKeep
  <2>2. Around(r) BY <1>0, <1>1, AroundOf DEF Do
  <2>3. /\ HeldFit(worker[r].held, rows[r]) /\ SaveFit(Bound(r), worker[r].save)
        /\ worker[r].held.status # "absent"
    BY <1>2, LocalOf
  <2>4. Stores(r, worker[r].save, o) BY <2>3, RunOf, AttemptStores DEF Fits
  <2>5. o.row.status = "stopping" /\ o.row.result = rows[r].result
        /\ Served(Bound(r), rows[r], o.row)
    BY <1>3, <1>6, <2>4 DEF Stores, Tells
  <2> QED BY <1>0, <1>2, <1>6, <2>1, <2>2, <2>5, FailedFits
<1> QED BY <1>1, <1>4, <1>5, <1>6


-----------------------------------------------------------------------------
\* A step of the author, of a start command or of the project.

\* What such a step leaves of the other runs.
Apart(r) ==
    /\ \A q \in Runs \ {r} :
        /\ rows'[q] = rows[q] /\ wire'[q] = wire[q] /\ worker'[q] = worker[q]
        /\ pending'[q] = pending[q] /\ stopper'[q] = stopper[q] /\ signal'[q] = signal[q]
        /\ retry'[q] = retry[q] /\ (q \in registry') = (q \in registry)
        /\ Claims(q)' = Claims(q)
    /\ project'.binding = project.binding

\* The other runs stand as before.
LEMMA OneMoves ==
  ASSUME Fits, NEW r \in Runs, WellKept', OutsideOK', Apart(r),
         Served(Bound(r), rows[r], rows'[r]), RetryFit(retry'[r], rows'[r]),
         DeskFit(Bound(r), rows'[r], worker'[r], pending'[r], wire'[r], r \in registry',
                 Claims(r)', stopper'[r], signal'[r])
  PROVE  Fits'
<1>1. \A q \in Runs : Bound(q)' = Bound(q) BY DEF Apart, Bound
<1>2. ASSUME NEW q \in Runs
      PROVE  RowFit(Bound(q), rows[q])' /\ DeskOf(q)' /\ RetryFit(retry[q], rows[q])'
  <2>1. CASE q = r
    <3>1. RowFit(Bound(r), rows'[r]) BY DEF Served
    <3>2. DeskFit(Bound(r)', rows'[r], worker'[r], pending'[r], wire'[r], r \in registry',
                  Claims(r)', stopper'[r], signal'[r])
      BY <1>1
    <3> QED BY <1>1, <2>1, <3>1, <3>2 DEF DeskOf
  <2>2. CASE q # r
    <3>1. /\ rows'[q] = rows[q] /\ wire'[q] = wire[q] /\ worker'[q] = worker[q]
          /\ pending'[q] = pending[q] /\ stopper'[q] = stopper[q] /\ signal'[q] = signal[q]
          /\ retry'[q] = retry[q] /\ (q \in registry') = (q \in registry)
          /\ Claims(q)' = Claims(q)
      BY <2>2 DEF Apart
    <3>2. RowFit(Bound(q), rows[q]) /\ DeskOf(q) /\ RetryFit(retry[q], rows[q]) BY DEF Fits
    <3>3. DeskOf(q)' BY <1>1, <3>1, <3>2 DEF DeskOf
    <3>4. RowFit(Bound(q), rows[q])' BY <1>1, <3>1, <3>2
    <3>5. RetryFit(retry[q], rows[q])' BY <3>1, <3>2
    <3> QED BY <3>3, <3>4, <3>5
  <2> QED BY <2>1, <2>2
<1> QED BY <1>2 DEF Fits

\* What the answer of a command leaves of the project.
LEMMA AnswerOutside ==
  ASSUME Fits, UNCHANGED <<project, faults>> \/ \E code : Answer(code)
  PROVE  /\ faults' \in 0..FaultLimit /\ project'.epoch <= EpochLimit
         /\ project'.binding = project.binding
<1>0. /\ faults \in 0..FaultLimit /\ FaultLimit \in Nat /\ project.epoch <= EpochLimit
      /\ project \in [epoch : Nat, fenced : BOOLEAN, connected : BOOLEAN,
                      binding : [Runs -> Bindings]]
  BY BoundsAssumption DEF Fits, OutsideOK, WellKept, ProjectOK
<1>1. \A happened : Fault(happened) => faults' \in 0..FaultLimit BY <1>0 DEF Fault
<1>2. faults' \in 0..FaultLimit BY <1>0, <1>1 DEF Answer
<1>3. project'.binding = project.binding /\ project'.epoch = project.epoch BY <1>0 DEF Answer
<1> QED BY <1>0, <1>2, <1>3

\* The callers about to claim a run after a step of one caller.
LEMMA ClaimsStep ==
  ASSUME Fits, NEW c \in Callers, NEW call, callers' = [callers EXCEPT ![c] = call], NEW q
  PROVE  /\ call.pc # "claim" \/ call.run # q => Claims(q)' = Claims(q) \ {c}
         /\ call.pc = "claim" /\ call.run = q => Claims(q)' = Claims(q) \cup {c}
<1>1. callers'[c] = call /\ \A d \in Callers \ {c} : callers'[d] = callers[d]
  BY DEF Fits, WellKept, DeskOK
<1>2. \A d \in Callers : d \in Claims(q) <=> callers[d].pc = "claim" /\ callers[d].run = q
  BY DEF Claims
<1>3. \A d \in Callers : d \in Claims(q)' <=> callers'[d].pc = "claim" /\ callers'[d].run = q
  BY DEF Claims
<1>4. Claims(q) \subseteq Callers /\ Claims(q)' \subseteq Callers BY DEF Claims
<1> QED BY <1>1, <1>2, <1>3, <1>4

\* A command, sent by somebody else than the worker of its run.
LEMMA CommandOutside ==
  ASSUME Fits, NEW r \in Runs, rows' = rows \/ \E o : Do(r, o),
         UNCHANGED <<project, faults>> \/ \E code : Answer(code), wire' = wire,
         signal' = signal \/ \E x \in BOOLEAN : signal' = [signal EXCEPT ![r] = x],
         stopper' = stopper \/ \E x \in BOOLEAN : stopper' = [stopper EXCEPT ![r] = x],
         registry' \subseteq Runs
  PROVE  /\ OutsideOK' /\ project'.binding = project.binding
         /\ \A q \in Runs \ {r} :
              rows'[q] = rows[q] /\ signal'[q] = signal[q] /\ stopper'[q] = stopper[q]
<1>0. /\ signal \in [Runs -> BOOLEAN] /\ stopper \in [Runs -> BOOLEAN] /\ wire \in [Runs -> WireT]
      /\ rows \in [Runs -> Row]
  BY DEF Fits, OutsideOK, WellKept, RowsOK
<1>1. \A q \in Runs \ {r} : rows'[q] = rows[q] BY <1>0 DEF Do
<1>2. /\ signal' \in [Runs -> BOOLEAN] /\ stopper' \in [Runs -> BOOLEAN]
      /\ \A q \in Runs \ {r} : signal'[q] = signal[q] /\ stopper'[q] = stopper[q]
  BY <1>0
<1>3. /\ faults' \in 0..FaultLimit /\ project'.epoch <= EpochLimit
      /\ project'.binding = project.binding
  BY AnswerOutside
<1> QED BY <1>0, <1>1, <1>2, <1>3 DEF OutsideOK


\* The local test model asks nothing of its callers.
LEMMA MockClaims ==
  ASSUME NEW row, NEW w, NEW save, NEW wr, NEW open, NEW claims, NEW asked, NEW sig,
         DeskFit("mock", row, w, save, wr, open, claims, asked, sig), NEW claims2
  PROVE  DeskFit("mock", row, w, save, wr, open, claims2, asked, sig)
<1>1. w.pc \notin External BY DEF DeskFit, WorkerFit
<1>2. ClaimFit("mock", open, claims2, w, row) BY <1>1 DEF ClaimFit
<1> QED BY <1>2 DEF DeskFit

\* start_discussion of the desktop.
LEMMA StartFits ==
  ASSUME Fits, NEW c \in Callers, NEW r \in Runs, WellKept', AllKeep, Start(c, r)
  PROVE  Fits'
<1> DEFINE call(fresh) == [pc |-> IF r \in Live THEN "register" ELSE "claim", run |-> r,
                           fresh |-> fresh]
<1>0. /\ callers[c] = NoCall
      /\ UNCHANGED <<registry, signal, worker, pending, retry, stopper, wire>>
  BY DEF Start
<1>1. PICK o \in Reach(r, StartDiscussion(rows[r], project.epoch)), fresh \in BOOLEAN :
        /\ Do(r, o)
        /\ callers' = callers \/ callers' = [callers EXCEPT ![c] = call(fresh)]
  BY DEF Start
<1>2. rows'[r] = o.row /\ Keeps(rows[r], o.row) /\ Good(o.row)
  BY <1>1, Written DEF AllKeep, Keeps
<1>3. /\ Served(Bound(r), rows[r], o.row) /\ Plain(rows[r], o.row)
      /\ o.row # rows[r] => Fresh(rows[r]) /\ Fresh(o.row)
  <2>1. project.epoch \in Nat /\ project.epoch <= EpochLimit
    BY DEF Fits, OutsideOK, WellKept, ProjectOK
  <2>2. Good(rows[r]) /\ RowFit(Bound(r), rows[r]) BY RunOf
  <2>3. o \in StartDiscussion(rows[r], project.epoch) \/ o.row = rows[r] BY ReachCases
  <2> QED BY <2>1, <2>2, <2>3, StartServed, SameServed
<1>4. DeskFit(Bound(r), rows[r], worker[r], pending[r], wire[r], r \in registry, Claims(r),
              stopper[r], signal[r])
  BY RunOf DEF DeskOf
<1>5. DeskFit(Bound(r), o.row, worker[r], pending[r], wire[r], r \in registry, Claims(r),
              stopper[r], signal[r])
  <2>1. worker[r].pc \in External => o.row = rows[r] /\ Going(rows[r])
    BY <1>3, <1>4 DEF DeskFit, WorkerFit, Going, Fresh
  <2>2. Going(o.row) => Going(rows[r]) /\ o.row.seq = rows[r].seq
    BY <1>3 DEF Going, Fresh
  <2>3. pending[r].kind = "provider" => pending[r].report.text >= o.row.out
    BY <1>3, <1>4 DEF DeskFit, PendingFit, Plain
  <2>4. worker[r].pc \in External /\ o.row.status = "stopping" /\ ~stopper[r] => signal[r]
    BY <1>4, <2>1 DEF DeskFit, SignalFit
  <2>5. Moves(rows[r], o.row) /\ o.row.out = rows[r].out /\ o.row.result = rows[r].result
    BY <1>3 DEF Served, Plain
  <2> QED BY <1>2, <1>4, <2>1, <2>2, <2>3, <2>4, <2>5, RunOf, MovesAlone
<1>6. c \notin Claims(r) /\ \A q \in Runs : c \notin Claims(q) BY <1>0 DEF Claims, NoCall
<1>7. /\ \A q \in Runs \ {r} : Claims(q)' = Claims(q)
      /\ Bound(r) # "mock" => Claims(r)' = Claims(r)
  <2>1. CASE callers' = callers BY <2>1 DEF Claims
  <2>2. CASE callers' = [callers EXCEPT ![c] = call(fresh)]
    <3>1. call(fresh).run = r /\ (Bound(r) # "mock" => call(fresh).pc # "claim") BY DEF Live
    <3> HIDE DEF call
    <3>2. \A q \in Runs \ {r} : Claims(q)' = Claims(q) \ {c} BY <2>2, <3>1, ClaimsStep
    <3>3. Bound(r) # "mock" => Claims(r)' = Claims(r) \ {c} BY <2>2, <3>1, ClaimsStep
    <3> QED BY <1>6, <3>2, <3>3
  <2> QED BY <1>1, <2>1, <2>2
<1>8. DeskFit(Bound(r), o.row, worker[r], pending[r], wire[r], r \in registry, Claims(r)',
              stopper[r], signal[r])
  BY <1>5, <1>7, MockClaims
<1>9. RetryFit(retry[r], o.row) BY <1>2, <1>3, RunOf, HeldMoves DEF RetryFit, Served
<1>10. OutsideOK' /\ Apart(r)
  <2>1. /\ OutsideOK' /\ project'.binding = project.binding
        /\ \A q \in Runs \ {r} : rows'[q] = rows[q]
    BY <1>0, <1>1, CommandOutside DEF Do, Fits, OutsideOK
  <2> QED BY <1>0, <1>7, <2>1 DEF Apart
<1> QED BY <1>0, <1>2, <1>3, <1>8, <1>9, <1>10, OneMoves

\* DesktopProviders::register.
LEMMA RegisterFits ==
  ASSUME Fits, NEW c \in Callers, WellKept', Register(c)
  PROVE  Fits'
<1>1. callers \in [Callers -> CallT] /\ registry \subseteq Runs
  BY DEF Fits, OutsideOK, WellKept, DeskOK
<1>2. callers[c] \in [pc : {"register", "claim"}, run : Runs, fresh : BOOLEAN]
  <2>1. callers[c].pc = "register" BY DEF Register
  <2>2. callers[c] # NoCall BY <2>1 DEF NoCall
  <2> QED BY <1>1, <2>2 DEF CallT
<1>r. PICK r \in Runs : callers[c].run = r BY <1>2
<1> DEFINE refused == callers' = [callers EXCEPT ![c] = NoCall] /\ UNCHANGED <<registry, signal>>
           granted == /\ r \notin registry /\ callers' = [callers EXCEPT ![c].pc = "claim"]
                      /\ registry' = registry \cup {r} /\ signal' = [signal EXCEPT ![r] = FALSE]
<1>0. /\ callers[c].pc = "register" /\ (refused \/ granted)
      /\ UNCHANGED <<rows, project, faults, worker, pending, retry, stopper, wire>>
  BY <1>r DEF Register, actorVars
<1> HIDE DEF refused, granted
<1>3. \A q \in Runs : c \notin Claims(q)
  <2>1. callers[c].pc # "claim" BY <1>0
  <2> QED BY <2>1 DEF Claims
<1>4. /\ Served(Bound(r), rows[r], rows[r]) /\ RetryFit(retry[r], rows[r])
      /\ DeskFit(Bound(r), rows[r], worker[r], pending[r], wire[r], r \in registry, Claims(r),
                 stopper[r], signal[r])
  BY RunOf, SameServed DEF DeskOf
<1>5. CASE refused
  <2>1. callers' = [callers EXCEPT ![c] = NoCall] /\ UNCHANGED <<registry, signal>>
    BY <1>5 DEF refused
  <2>2. \A q \in Runs : Claims(q)' = Claims(q) \ {c}
    <3>1. NoCall.pc # "claim" BY DEF NoCall
    <3> QED BY <2>1, <3>1, ClaimsStep
  <2>3. \A q \in Runs : Claims(q)' = Claims(q) BY <1>3, <2>2
  <2>4. OutsideOK' BY <1>0, <1>1, <2>1, CommandOutside
  <2>5. Apart(r) BY <1>0, <2>1, <2>3 DEF Apart
  <2> QED BY <1>0, <1>4, <2>1, <2>3, <2>4, <2>5, OneMoves
<1>6. CASE granted
  <2>0. /\ r \notin registry /\ callers' = [callers EXCEPT ![c].pc = "claim"]
        /\ registry' = registry \cup {r} /\ signal' = [signal EXCEPT ![r] = FALSE]
    BY <1>6 DEF granted
  <2> DEFINE call == [callers[c] EXCEPT !.pc = "claim"]
  <2>1. call.pc = "claim" /\ call.run = r BY <1>2, <1>r
  <2>2. callers' = [callers EXCEPT ![c] = call] BY <2>0
  <2> HIDE DEF call
  <2>3. Claims(r)' = Claims(r) \cup {c} BY <2>1, <2>2, ClaimsStep
  <2>4. \A q \in Runs \ {r} : Claims(q)' = Claims(q)
    <3>1. \A q \in Runs \ {r} : Claims(q)' = Claims(q) \ {c} BY <2>1, <2>2, ClaimsStep
    <3> QED BY <1>3, <3>1
  <2>5. registry' \subseteq Runs BY <1>1, <2>0
  <2>6. DeskFit(Bound(r), rows[r], worker[r], pending[r], wire[r], r \in registry',
                Claims(r) \cup {c}, stopper[r], signal'[r])
    <3>1. worker[r].pc \notin External BY <1>4, <2>0 DEF DeskFit, ClaimFit
    <3>2. Bound(r) # "mock" /\ Fresh(rows[r]) => Claims(r) = {}
      BY <1>4, <2>0 DEF DeskFit, ClaimFit
    <3>3. r \in registry' BY <2>0
    <3>4. ClaimFit(Bound(r), r \in registry', Claims(r) \cup {c}, worker[r], rows[r])
      BY <3>1, <3>2, <3>3 DEF ClaimFit
    <3>5. SignalFit(worker[r], rows[r], stopper[r], signal'[r]) BY <3>1 DEF SignalFit
    <3> QED BY <1>4, <3>4, <3>5 DEF DeskFit
  <2>7. OutsideOK' /\ \A q \in Runs \ {r} : signal'[q] = signal[q]
    BY <1>0, <2>0, <2>5, CommandOutside
  <2>8. Apart(r)
    <3>1. \A q \in Runs \ {r} : (q \in registry') = (q \in registry) BY <2>0
    <3> QED BY <1>0, <2>4, <2>7, <3>1 DEF Apart
  <2>9. DeskFit(Bound(r), rows'[r], worker'[r], pending'[r], wire'[r], r \in registry',
                Claims(r)', stopper'[r], signal'[r])
    BY <1>0, <2>3, <2>6
  <2> QED BY <1>0, <1>4, <2>7, <2>8, <2>9, OneMoves
<1> QED BY <1>0, <1>5, <1>6


\* A caller that claims a run has no other beside it, and the run no worker of
\* a provider yet.
LEMMA ClaimsAlone ==
  ASSUME NEW b, NEW row, NEW w, NEW save, NEW wr, NEW open, NEW claims, NEW asked, NEW sig,
         DeskFit(b, row, w, save, wr, open, claims, asked, sig), NEW c \in claims
  PROVE  /\ w.pc \notin External
         /\ b # "mock" /\ Fresh(row) => claims \ {c} = {}
  BY DEF DeskFit, ClaimFit

\* It leaves without the run.
LEMMA ClaimLeaves ==
  ASSUME NEW b, NEW row, NEW w, NEW save, NEW wr, NEW open, NEW claims, NEW asked, NEW sig,
         DeskFit(b, row, w, save, wr, open, claims, asked, sig), NEW c \in claims, NEW open2
  PROVE  DeskFit(b, row, w, save, wr, open2, claims \ {c}, asked, sig)
<1>1. w.pc \notin External /\ (b # "mock" /\ Fresh(row) => claims \ {c} = {})
  BY ClaimsAlone
<1>2. ClaimFit(b, open2, claims \ {c}, w, row) BY <1>1 DEF ClaimFit
<1> QED BY <1>2 DEF DeskFit

\* It does not know whether the run was claimed, and leaves a failure for it.
LEMMA ClaimRetains ==
  ASSUME NEW b, NEW row, Good(row), NEW next, Keeps(row, next), Moves(row, next),
         next.result = row.result, next = row \/ row.status = "queued",
         NEW w \in WorkerT, NEW wr, NEW open, NEW claims, NEW asked, NEW sig,
         DeskFit(b, row, w, NoSave, wr, open, claims, asked, sig), NEW c \in claims, NEW open2
  PROVE  DeskFit(b, next, w, FailSave, wr, open2, claims \ {c}, asked, sig)
<1>1. w.pc \notin External /\ (b # "mock" /\ Fresh(row) => claims \ {c} = {})
  BY ClaimsAlone
<1>2. Fresh(next) => Fresh(row) BY DEF Moves
<1>3. FailSave.kind = "fail" /\ NoSave.kind = "none" /\ SaveFit(b, FailSave)
  BY UnsentFits DEF NoSave
<1>4. WorkerFit(b, w, next)
  <2>1. CASE next = row BY <2>1 DEF DeskFit
  <2>2. CASE row.status = "queued"
    <3>1. w.pc = "none" BY <2>2 DEF DeskFit, WorkerFit, Fresh
    <3>2. w.pc \notin Early \cup External \cup Local \cup Saving \cup Storing
      BY <3>1 DEF Early, External, Local, Saving, Storing
    <3>3. HeldFit(w.held, next) BY HeldMoves DEF DeskFit, WorkerFit, WorkerT
    <3>4. w.pc \notin {"deliver", "write"} BY <3>1
    <3> QED BY <3>1, <3>2, <3>3, <3>4 DEF DeskFit, WorkerFit
  <2> QED BY <2>1, <2>2
<1>5. PendingFit(b, FailSave, w, next) BY <1>1, <1>3 DEF PendingFit
<1>6. WireFit(b, wr, w, FailSave, next)
  <2>1. WireFit(b, wr, w, NoSave, row) BY DEF DeskFit
  <2>2. /\ DispatchBound(next, wr.turn)
        /\ next.result # NoReport /\ b = "app_server" => DeliveryStands(wr.turn, next.result)
        /\ b = "app_server" /\ wr.hook = "ack" /\ next.result # NoReport
             => next.result.evidence = "delivered"
    BY <2>1, GoodRow, ReceiptMoves DEF Keeps
  <2>3. Acknowledges(FailSave) BY <1>3 DEF Acknowledges
  <2> QED BY <1>2, <2>1, <2>2, <2>3 DEF WireFit
<1>7. ClaimFit(b, open2, claims \ {c}, w, next) BY <1>1, <1>2 DEF ClaimFit
<1>8. SignalFit(w, next, asked, sig) BY <1>1 DEF SignalFit
<1> QED BY <1>4, <1>5, <1>6, <1>7, <1>8 DEF DeskFit

\* How a claimed run starts: by its binding, with a worker or with an outcome.
Starts(b, w) ==
    \/ b = "mock" /\ w.pc = "deliver" /\ w.save = NoSave
    \/ b = "mock" /\ w.pc = "store" /\ w.save = FailSave
    \/ b # "mock" /\ w.pc = "reject" /\ w.save = NoSave
    \/ b # "mock" /\ w.pc \in {"spawned", "http"} /\ w.save = NoSave
    \/ b # "mock" /\ w.pc \in {"save", "reread"} /\ w.save \in {Unsent, FailSave}

\* The worker of a claimed run.
LEMMA ClaimSpawns ==
  ASSUME NEW b, NEW row, Good(row), RowFit(b, row), NEW next, Good(next), RowFit(b, next),
         Moves(row, next), Plain(row, next), row.status = "queued", next.status = "running",
         NEW w, NEW wr, NEW open, NEW claims, NEW asked, NEW sig,
         DeskFit(b, row, w, NoSave, wr, open, claims, asked, sig), NEW c \in claims,
         NEW w2, Starts(b, w2), w2.held = HeldOf(next), w2.text = 0,
         NEW open2, w2.pc \in {"spawned", "http"} => open2
  PROVE  DeskFit(b, next, w2, NoSave, wr, open2, claims \ {c}, asked, sig)
<1>1. Fresh(row) /\ ~Fresh(next) /\ Going(next) BY DEF Fresh, Going
<1>2. b # "mock" => claims \ {c} = {} BY <1>1, ClaimsAlone
<1>3. next.out = 0 /\ next.seq \in Nat BY <1>1, GoodRow DEF RowFit, Plain
<1>4. /\ HeldFit(w2.held, next) /\ w2.held.status = "running" /\ w2.held.out = 0
      /\ w2.held.seq = next.seq
  BY <1>3, HeldReads
<1>5. /\ NoSave.kind = "none" /\ FailSave.kind = "fail" /\ Unsent.kind = "provider"
      /\ Unsent.report.text = 0 /\ SaveFit(b, NoSave) /\ SaveFit(b, FailSave)
      /\ SaveFit(b, Unsent)
  BY UnsentFits, NobodyFits DEF NoSave
<1>6. WorkerFit(b, w2, next)
  <2>1. CASE b = "mock" /\ w2.pc = "deliver" /\ w2.save = NoSave
    BY <1>1, <1>3, <1>4, <1>5, <2>1, BoundsAssumption
    DEF WorkerFit, Early, External, Saving, Storing, Local
  <2>2. CASE b = "mock" /\ w2.pc = "store" /\ w2.save = FailSave
    BY <1>1, <1>3, <1>4, <1>5, <2>2, BoundsAssumption
    DEF WorkerFit, Early, External, Saving, Storing, Local
  <2>3. CASE b # "mock" /\ w2.pc = "reject" /\ w2.save = NoSave
    BY <1>1, <1>3, <1>4, <1>5, <2>3, BoundsAssumption
    DEF WorkerFit, Early, External, Saving, Storing, Local
  <2>4. CASE b # "mock" /\ w2.pc \in {"spawned", "http"} /\ w2.save = NoSave
    BY <1>1, <1>3, <1>4, <1>5, <2>4, BoundsAssumption
    DEF WorkerFit, Early, External, Saving, Storing, Local
  <2>5. CASE b # "mock" /\ w2.pc \in {"save", "reread"} /\ w2.save \in {Unsent, FailSave}
    BY <1>1, <1>3, <1>4, <1>5, <2>5, BoundsAssumption
    DEF WorkerFit, Early, External, Saving, Storing, Local
  <2> QED BY <2>1, <2>2, <2>3, <2>4, <2>5 DEF Starts
<1>7. PendingFit(b, NoSave, w2, next)
  <2>1. w2.pc # "none" BY DEF Starts
  <2> QED BY <1>5, <2>1 DEF PendingFit
<1>8. WireFit(b, wr, w2, NoSave, next)
  <2>1. WireFit(b, wr, w, NoSave, row) BY DEF DeskFit
  <2>2. /\ DispatchBound(next, wr.turn)
        /\ next.result # NoReport /\ b = "app_server" => DeliveryStands(wr.turn, next.result)
        /\ b = "app_server" /\ wr.hook = "ack" /\ next.result # NoReport
             => next.result.evidence = "delivered"
    BY <2>1, GoodRow, ReceiptMoves DEF Plain
  <2>3. wr.sent <= 1 /\ wr.sent = 0 /\ ~(b = "app_server" /\ wr.hook = "ack")
    BY <1>1, <2>1 DEF WireFit
  <2> QED BY <2>2, <2>3 DEF WireFit
<1>9. ClaimFit(b, open2, claims \ {c}, w2, next)
  <2>1. w2.pc \in External => w2.pc \in {"spawned", "http"} /\ b # "mock"
    BY DEF Starts, External
  <2> QED BY <1>1, <1>2, <2>1 DEF ClaimFit
<1>10. SignalFit(w2, next, asked, sig) BY DEF SignalFit
<1> QED BY <1>6, <1>7, <1>8, <1>9, <1>10 DEF DeskFit

\* Every worker that Spawned gives starts as the binding says.
LEMMA SpawnStarts ==
  ASSUME NEW r \in Runs, NEW row, NEW fresh, NEW w \in Spawned(r, row, fresh)
  PROVE  /\ Starts(Bound(r), w) /\ w.held = HeldOf(row) /\ w.text = 0
         /\ w.pc = "http" => Bound(r) = "http"
<1> DEFINE at(pc, save) == [NoWorker EXCEPT !.pc = pc, !.held = HeldOf(row), !.save = save]
<1>1. \A pc, save : /\ at(pc, save).pc = pc /\ at(pc, save).held = HeldOf(row)
                    /\ at(pc, save).save = save /\ at(pc, save).text = 0
  BY DEF NoWorker
<1>2. CASE Bound(r) = "mock"
  <2>1. w \in {at("deliver", NoSave), at("store", FailSave)} BY <1>2 DEF Spawned
  <2> HIDE DEF at
  <2> QED BY <1>1, <1>2, <2>1 DEF Starts
<1>3. CASE Bound(r) = "claude"
  <2>1. w \in {at("reject", NoSave), at("spawned", NoSave)} BY <1>3 DEF Spawned
  <2> HIDE DEF at
  <2> QED BY <1>1, <1>3, <2>1 DEF Starts
<1>4. CASE Bound(r) = "http"
  <2>1. w \in {at("http", NoSave), at("save", Unsent), at("save", FailSave)}
    BY <1>4 DEF Spawned, Unstarted
  <2> HIDE DEF at
  <2> QED BY <1>1, <1>4, <2>1 DEF Starts
<1>5. CASE Bound(r) \notin {"mock", "claude", "http"}
  <2>1. w \in {at("spawned", NoSave), at("reread", Unsent)} BY <1>5 DEF Spawned
  <2> HIDE DEF at
  <2> QED BY <1>1, <1>5, <2>1 DEF Starts
<1> QED BY <1>2, <1>3, <1>4, <1>5


\* DiscussionRecovery::claim and the dispatch that follows it.
LEMMA ClaimFits ==
  ASSUME Fits, NEW c \in Callers, WellKept', AllKeep, Claim(c)
  PROVE  Fits'
<1>0. callers[c].pc = "claim" BY DEF Claim
<1>1. /\ callers \in [Callers -> CallT] /\ registry \subseteq Runs /\ pending \in [Runs -> SaveT]
      /\ worker \in [Runs -> WorkerT]
  BY DEF Fits, OutsideOK, WellKept, DeskOK
<1>2. callers[c] \in [pc : {"register", "claim"}, run : Runs, fresh : BOOLEAN]
  <2>1. callers[c] # NoCall BY <1>0 DEF NoCall
  <2> QED BY <1>1, <2>1 DEF CallT
<1>r. PICK r \in Runs : callers[c].run = r BY <1>2
<1>f. PICK fresh : callers[c].fresh = fresh OBVIOUS
<1>3. callers' = [callers EXCEPT ![c] = NoCall] /\ UNCHANGED <<signal, retry, stopper, wire>>
  BY DEF Claim
<1>4. Claims(r)' = Claims(r) \ {c} /\ \A q \in Runs \ {r} : Claims(q)' = Claims(q)
  <2>1. NoCall.pc # "claim" BY DEF NoCall
  <2>2. \A q \in Runs : Claims(q)' = Claims(q) \ {c} BY <1>3, <2>1, ClaimsStep
  <2>3. \A q \in Runs \ {r} : c \notin Claims(q) BY <1>r DEF Claims
  <2> QED BY <2>2, <2>3
<1>5. c \in Claims(r) BY <1>0, <1>r DEF Claims
<1>6. DeskFit(Bound(r), rows[r], worker[r], pending[r], wire[r], r \in registry, Claims(r),
              stopper[r], signal[r])
  BY RunOf DEF DeskOf
<1>7. CASE /\ registry' = registry \ {r} /\ UNCHANGED <<rows, project, faults, worker, pending>>
  <2>1. OutsideOK' BY <1>1, <1>3, <1>7, CommandOutside
  <2>2. Apart(r)
    <3>1. \A q \in Runs \ {r} : (q \in registry') = (q \in registry) BY <1>7
    <3> QED BY <1>3, <1>4, <1>7, <3>1 DEF Apart
  <2>3. DeskFit(Bound(r), rows[r], worker[r], pending[r], wire[r], r \in registry',
                Claims(r) \ {c}, stopper[r], signal[r])
    BY <1>5, <1>6, ClaimLeaves
  <2>4. Served(Bound(r), rows[r], rows'[r]) BY <1>7, RestServed
  <2>5. RetryFit(retry'[r], rows'[r]) BY <1>3, <1>7, RunOf
  <2> QED BY <1>3, <1>4, <1>7, <2>1, <2>2, <2>3, <2>4, <2>5, OneMoves
<1>8. CASE pending[r] = NoSave
           /\ \E o \in Reach(r, BeginDiscussionRun(rows[r], project.epoch)) :
              \E next \in Claimed(r, o, fresh) :
                /\ Do(r, o)
                /\ worker' = [worker EXCEPT ![r] = next.worker]
                /\ pending' = [pending EXCEPT ![r] = next.save]
                /\ registry' = IF o.code = "ok" /\ (next.worker.pc = "spawned" \/ Bound(r) = "http")
                               THEN registry ELSE registry \ {r}
  <2>1. PICK o \in Reach(r, BeginDiscussionRun(rows[r], project.epoch)) :
              \E next \in Claimed(r, o, fresh) :
                /\ Do(r, o)
                /\ worker' = [worker EXCEPT ![r] = next.worker]
                /\ pending' = [pending EXCEPT ![r] = next.save]
                /\ registry' = IF o.code = "ok" /\ (next.worker.pc = "spawned" \/ Bound(r) = "http")
                               THEN registry ELSE registry \ {r}
    BY <1>8
  <2>2. PICK next \in Claimed(r, o, fresh) :
                /\ Do(r, o)
                /\ worker' = [worker EXCEPT ![r] = next.worker]
                /\ pending' = [pending EXCEPT ![r] = next.save]
                /\ registry' = IF o.code = "ok" /\ (next.worker.pc = "spawned" \/ Bound(r) = "http")
                               THEN registry ELSE registry \ {r}
    BY <2>1
  <2>3. rows'[r] = o.row /\ Keeps(rows[r], o.row) /\ Good(o.row) /\ Good(rows[r])
        /\ RowFit(Bound(r), rows[r])
    BY <2>2, Written, RunOf DEF AllKeep, Keeps
  <2>4. /\ Served(Bound(r), rows[r], o.row) /\ Plain(rows[r], o.row)
        /\ o.row # rows[r] => rows[r].status = "queued"
        /\ o.code = "ok" => rows[r].status = "queued" /\ o.row.status = "running"
        /\ o.code \in {"RunAlreadyStarted", "RunSealed", "ContextChanged"} /\ Going(o.row)
             => o.row = rows[r]
    <3>1. \/ o \in BeginDiscussionRun(rows[r], project.epoch)
          \/ o.row = rows[r] /\ o.code = "PersistenceUnavailable"
      BY ReachCases
    <3> QED BY <2>3, <3>1, BeginServed, SameServed
  <2>5. OutsideOK' /\ project'.binding = project.binding
        /\ \A q \in Runs \ {r} : rows'[q] = rows[q]
    <3>1. registry' \subseteq Runs BY <1>1, <2>2
    <3> QED BY <1>3, <2>2, <3>1, CommandOutside DEF Do
  <2>6. Apart(r)
    <3>1. \A q \in Runs \ {r} : worker'[q] = worker[q] /\ pending'[q] = pending[q] BY <1>1, <2>2
    <3>2. \A q \in Runs \ {r} : (q \in registry') = (q \in registry) BY <2>2
    <3> QED BY <1>3, <1>4, <2>5, <3>1, <3>2 DEF Apart
  <2>7. RetryFit(retry'[r], rows'[r])
    BY <1>3, <2>3, <2>4, RunOf, HeldMoves DEF RetryFit, Served
  <2>8. worker'[r] = next.worker /\ pending'[r] = next.save BY <1>1, <2>2
  <2>9. DeskFit(Bound(r), rows[r], worker[r], NoSave, wire[r], r \in registry, Claims(r),
                stopper[r], signal[r])
    BY <1>6, <1>8
  <2>10. DeskFit(Bound(r), o.row, next.worker, next.save, wire[r], r \in registry',
                 Claims(r) \ {c}, stopper[r], signal[r])
    <3>m. Moves(rows[r], o.row) /\ RowFit(Bound(r), o.row) /\ o.row.result = rows[r].result
          /\ o.row.out = rows[r].out
      BY <2>4 DEF Served, Plain
    <3>1. CASE o.code = "ok"
      <4>1. next.worker \in Spawned(r, o.row, fresh) /\ next.save = NoSave
        BY <3>1 DEF Claimed
      <4>2. /\ Starts(Bound(r), next.worker) /\ next.worker.held = HeldOf(o.row)
            /\ next.worker.text = 0
            /\ next.worker.pc = "http" => Bound(r) = "http"
        BY <4>1, SpawnStarts
      <4>3. next.worker.pc \in {"spawned", "http"} => r \in registry'
        <5>1. ASSUME next.worker.pc \in {"spawned", "http"} PROVE r \in registry'
          <6>1. Bound(r) # "mock" BY <4>2, <5>1 DEF Starts
          <6>2. Fresh(rows[r]) BY <2>4, <3>1 DEF Fresh
          <6>3. r \in registry BY <1>5, <2>9, <6>1, <6>2 DEF DeskFit, ClaimFit
          <6> QED BY <2>2, <3>1, <4>2, <5>1, <6>3
        <5> QED BY <5>1
      <4>4. DeskFit(Bound(r), o.row, next.worker, NoSave, wire[r], r \in registry',
                    Claims(r) \ {c}, stopper[r], signal[r])
        BY <1>5, <2>3, <2>4, <2>9, <3>1, <3>m, <4>2, <4>3, ClaimSpawns
      <4> QED BY <4>1, <4>4
    <3>2. CASE o.code \in {"RunAlreadyStarted", "RunSealed", "ContextChanged"}
      <4>1. next.worker = worker[r] /\ next.save = NoSave BY <3>2 DEF Claimed
      <4>2. worker[r].pc \notin External BY <1>5, <2>9, ClaimsAlone
      <4>3. Going(o.row) => Going(rows[r]) /\ o.row.seq = rows[r].seq BY <2>4, <3>2
      <4>4. NoSave.kind # "provider" BY DEF NoSave
      <4>5. DeskFit(Bound(r), o.row, worker[r], NoSave, wire[r], r \in registry, Claims(r),
                    stopper[r], signal[r])
        BY <2>3, <2>9, <3>m, <4>2, <4>3, <4>4, RunOf, MovesAlone
      <4> QED BY <1>5, <4>1, <4>5, ClaimLeaves
    <3>3. CASE o.code \notin {"ok", "RunAlreadyStarted", "RunSealed", "ContextChanged"}
      <4>1. next.worker = worker[r] /\ next.save = FailSave BY <3>3 DEF Claimed
      <4>2. o.row = rows[r] \/ rows[r].status = "queued" BY <2>4
      <4> QED BY <1>5, <2>3, <2>9, <3>m, <4>1, <4>2, RunOf, ClaimRetains
    <3> QED BY <3>1, <3>2, <3>3
  <2> QED BY <1>3, <1>4, <2>3, <2>4, <2>5, <2>6, <2>7, <2>8, <2>10, OneMoves
<1> QED BY <1>7, <1>8, <1>r, <1>f DEF Claim, actorVars


\* A command of the author that moves only its run, its retained outcome and its
\* stop.
LEMMA AuthorFits ==
  ASSUME Fits, NEW r \in Runs, WellKept', OutsideOK', project'.binding = project.binding,
         \A q \in Runs \ {r} :
            /\ rows'[q] = rows[q] /\ pending'[q] = pending[q]
            /\ stopper'[q] = stopper[q] /\ signal'[q] = signal[q] /\ retry'[q] = retry[q],
         UNCHANGED <<callers, registry, worker, wire>>,
         Served(Bound(r), rows[r], rows'[r]), Keeps(rows[r], rows'[r]),
         worker[r].pc # "none" => rows'[r].out = rows[r].out,
         worker[r].pc \in External => Going(rows'[r]),
         Going(rows'[r]) => Going(rows[r]) /\ rows'[r].seq = rows[r].seq,
         \/ rows'[r].result = rows[r].result
         \/ /\ Bound(r) = "app_server" /\ wire[r].hook = "ack" /\ rows'[r].result # NoReport
                 => rows'[r].result.evidence = "delivered"
            /\ Bound(r) = "app_server" /\ rows'[r].result # NoReport
                 => DeliveryStands(wire[r].turn, rows'[r].result),
         pending'[r] \in {pending[r], NoSave}, pending'[r] # pending[r] => ~Going(rows'[r]),
         pending[r].kind = "provider" => pending[r].report.text >= rows'[r].out,
         worker[r].pc \in External /\ rows'[r].status = "stopping" /\ ~stopper'[r] => signal'[r],
         retry'[r] = retry[r] \/ RetryFit(retry'[r], rows'[r])
  PROVE  Fits'
<1>1. DeskFit(Bound(r), rows[r], worker[r], pending[r], wire[r], r \in registry, Claims(r),
              stopper[r], signal[r])
  BY RunOf DEF DeskOf
<1>2. Good(rows'[r]) /\ Good(rows[r]) /\ Moves(rows[r], rows'[r])
  BY RunOf DEF Served, Keeps
<1>3. DeskFit(Bound(r), rows'[r], worker[r], pending'[r], wire[r], r \in registry, Claims(r),
              stopper'[r], signal'[r])
  BY <1>1, <1>2, RunOf, MovesAlone
<1>4. \A q \in Runs : Claims(q)' = Claims(q) BY DEF Claims
<1>5. Apart(r) BY <1>4 DEF Apart
<1>6. RetryFit(retry'[r], rows'[r]) BY <1>2, RunOf, HeldMoves DEF RetryFit
<1> QED BY <1>3, <1>4, <1>5, <1>6, OneMoves

\* stop_discussion of the desktop.
LEMMA StopFits ==
  ASSUME Fits, NEW r \in Runs, WellKept', AllKeep, Stop(r)
  PROVE  Fits'
<1>0. /\ ~stopper[r] /\ UNCHANGED <<callers, registry, signal, worker, pending, retry, wire>>
  BY DEF Stop
<1>1. PICK o \in Reach(r, StopDiscussion(rows[r])) :
        /\ Do(r, o)
        /\ stopper' = [stopper EXCEPT ![r] = o.code \in {"ok", "UncertainOutcome"}]
  BY DEF Stop
<1>2. /\ rows'[r] = o.row /\ Keeps(rows[r], o.row) /\ Good(rows[r])
      /\ RowFit(Bound(r), rows[r])
  BY <1>1, Written, RunOf DEF AllKeep
<1>3. /\ Served(Bound(r), rows[r], o.row) /\ Plain(rows[r], o.row)
      /\ Going(o.row) <=> Going(rows[r])
      /\ o.code \notin {"ok", "UncertainOutcome"} => o.row = rows[r]
  BY <1>2, ReachCases, StopServed, SameServed
<1>4. DeskFit(Bound(r), rows[r], worker[r], pending[r], wire[r], r \in registry, Claims(r),
              stopper[r], signal[r])
  BY RunOf DEF DeskOf
<1>5. /\ OutsideOK' /\ project'.binding = project.binding
      /\ \A q \in Runs \ {r} : rows'[q] = rows[q] /\ stopper'[q] = stopper[q]
  <2>1. \E x \in BOOLEAN : stopper' = [stopper EXCEPT ![r] = x]
    <3> DEFINE told == o.code \in {"ok", "UncertainOutcome"}
    <3>1. told \in BOOLEAN /\ stopper' = [stopper EXCEPT ![r] = told] BY <1>1
    <3> HIDE DEF told
    <3> QED BY <3>1
  <2> QED BY <1>0, <1>1, <2>1, CommandOutside DEF Do, Fits, OutsideOK
<1>6. stopper'[r] = (o.code \in {"ok", "UncertainOutcome"})
  BY <1>1 DEF Fits, OutsideOK
<1>7. worker[r].pc \in External => Going(o.row) BY <1>3, <1>4 DEF DeskFit, WorkerFit
<1>8. pending[r].kind = "provider" => pending[r].report.text >= o.row.out
  BY <1>3, <1>4 DEF DeskFit, PendingFit, Plain
<1>9. worker[r].pc \in External /\ o.row.status = "stopping" /\ ~stopper'[r] => signal[r]
  BY <1>0, <1>3, <1>4, <1>6 DEF DeskFit, SignalFit
<1>10. o.row.out = rows[r].out /\ o.row.result = rows[r].result
       /\ (Going(o.row) => Going(rows[r]) /\ o.row.seq = rows[r].seq)
  BY <1>3 DEF Plain
<1> QED BY <1>0, <1>2, <1>3, <1>5, <1>7, <1>8, <1>9, <1>10, AuthorFits

\* DesktopProviders::stop.
LEMMA SignalFits ==
  ASSUME Fits, NEW r \in Runs, WellKept', Signal(r)
  PROVE  Fits'
<1>0. /\ stopper' = [stopper EXCEPT ![r] = FALSE]
      /\ signal' = [signal EXCEPT ![r] = signal[r] \/ r \in registry]
      /\ UNCHANGED <<rows, project, faults, callers, registry, worker, pending, retry, wire>>
  BY DEF Signal, actorVars
<1>1. signal \in [Runs -> BOOLEAN] BY DEF Fits, OutsideOK
<1>2. signal'[r] = (signal[r] \/ r \in registry) BY <1>0, <1>1
<1>3. DeskFit(Bound(r), rows[r], worker[r], pending[r], wire[r], r \in registry, Claims(r),
              stopper[r], signal[r])
  BY RunOf DEF DeskOf
<1>4. worker[r].pc \in External => Going(rows[r]) /\ signal'[r]
  BY <1>2, <1>3 DEF DeskFit, WorkerFit, ClaimFit
<1>5. pending[r].kind = "provider" => pending[r].report.text >= rows[r].out
  BY <1>3 DEF DeskFit, PendingFit
<1>6. Served(Bound(r), rows[r], rows'[r]) /\ Keeps(rows[r], rows'[r]) BY <1>0, RestServed
<1>7. /\ OutsideOK' /\ project'.binding = project.binding
      /\ \A q \in Runs \ {r} : stopper'[q] = stopper[q] /\ signal'[q] = signal[q]
  <2>1. \E x \in BOOLEAN : stopper' = [stopper EXCEPT ![r] = x] BY <1>0
  <2>2. \E x \in BOOLEAN : signal' = [signal EXCEPT ![r] = x] BY <1>0
  <2> QED BY <1>0, <2>1, <2>2, CommandOutside DEF Fits, OutsideOK
<1> QED BY <1>0, <1>4, <1>5, <1>6, <1>7, AuthorFits

\* DiscussionRecovery::retry reads the run.
LEMMA RetryReadFits ==
  ASSUME Fits, NEW r \in Runs, WellKept', RetryRead(r)
  PROVE  Fits'
<1>0. /\ rows[r] # NoRun /\ retry' = [retry EXCEPT ![r] = HeldOf(rows[r])]
      /\ UNCHANGED <<rows, project, faults, callers, registry, signal, worker, pending, stopper, wire>>
  BY DEF RetryRead, actorVars
<1>1. retry \in [Runs -> HeldT] BY DEF Fits, WellKept, DeskOK
<1>2. retry'[r] = HeldOf(rows[r]) /\ \A q \in Runs \ {r} : retry'[q] = retry[q] BY <1>0, <1>1
<1>3. DeskFit(Bound(r), rows[r], worker[r], pending[r], wire[r], r \in registry, Claims(r),
              stopper[r], signal[r])
  BY RunOf DEF DeskOf
<1>4. RetryFit(retry'[r], rows[r])
  <2>1. rows[r].status # "absent" BY <1>0, RunOf DEF RowFit
  <2> QED BY <1>2, <2>1, RunOf, HeldReads DEF RetryFit
<1>5. worker[r].pc \in External => Going(rows[r]) BY <1>3 DEF DeskFit, WorkerFit
<1>6. pending[r].kind = "provider" => pending[r].report.text >= rows[r].out
  BY <1>3 DEF DeskFit, PendingFit
<1>7. worker[r].pc \in External /\ rows[r].status = "stopping" /\ ~stopper[r] => signal[r]
  BY <1>3 DEF DeskFit, SignalFit
<1>8. Served(Bound(r), rows[r], rows'[r]) /\ Keeps(rows[r], rows'[r]) BY <1>0, RestServed
<1>9. OutsideOK' /\ project'.binding = project.binding
  BY <1>0, CommandOutside DEF Fits, OutsideOK
<1> QED BY <1>0, <1>2, <1>4, <1>5, <1>6, <1>7, <1>8, <1>9, AuthorFits


\* DiscussionRecovery::retry stores the retained outcome, if there still is one.
LEMMA RetryStoreFits ==
  ASSUME Fits, NEW r \in Runs, WellKept', AllKeep, RetryStore(r)
  PROVE  Fits'
<1>0. /\ retry[r] # NoHeld /\ retry' = [retry EXCEPT ![r] = NoHeld]
      /\ UNCHANGED <<callers, registry, signal, worker, stopper, wire>>
  BY DEF RetryStore
<1>1. /\ retry \in [Runs -> HeldT] /\ pending \in [Runs -> SaveT]
      /\ Good(rows'[r]) /\ RowFit(Bound(r), rows[r]) /\ Good(rows[r])
  BY RunOf DEF Fits, WellKept, DeskOK, RowsOK
<1>2. retry'[r] = NoHeld /\ \A q \in Runs \ {r} : retry'[q] = retry[q] BY <1>0, <1>1
<1>3. DeskFit(Bound(r), rows[r], worker[r], pending[r], wire[r], r \in registry, Claims(r),
              stopper[r], signal[r])
  BY RunOf DEF DeskOf
<1>4. ASSUME RowFit(Bound(r), rows'[r]) PROVE RetryFit(retry'[r], rows'[r])
  BY <1>1, <1>2, <1>4, NobodyFits DEF RetryFit
<1>5. CASE UNCHANGED <<rows, project, faults, pending>>
  <2>1. worker[r].pc \in External => Going(rows[r]) BY <1>3 DEF DeskFit, WorkerFit
  <2>2. pending[r].kind = "provider" => pending[r].report.text >= rows[r].out
    BY <1>3 DEF DeskFit, PendingFit
  <2>3. worker[r].pc \in External /\ rows[r].status = "stopping" /\ ~stopper[r] => signal[r]
    BY <1>3 DEF DeskFit, SignalFit
  <2>4. Served(Bound(r), rows[r], rows'[r]) /\ Keeps(rows[r], rows'[r]) BY <1>5, RestServed
  <2>5. OutsideOK' /\ project'.binding = project.binding
    BY <1>0, <1>5, CommandOutside DEF Fits, OutsideOK
  <2> QED BY <1>0, <1>1, <1>2, <1>4, <1>5, <2>1, <2>2, <2>3, <2>4, <2>5, AuthorFits
<1>6. CASE pending[r] # NoSave
           /\ \E o \in Attempt(r, pending[r], retry[r]) :
              /\ Do(r, o)
              /\ pending' = IF o.code = "ok" THEN [pending EXCEPT ![r] = NoSave] ELSE pending
  <2>1. PICK o \in Attempt(r, pending[r], retry[r]) :
              /\ Do(r, o)
              /\ pending' = IF o.code = "ok" THEN [pending EXCEPT ![r] = NoSave] ELSE pending
    BY <1>6
  <2>2. rows'[r] = o.row /\ Keeps(rows[r], rows'[r]) BY <2>1, Written DEF AllKeep
  <2>3. Stores(r, pending[r], o)
    <3>1. HeldFit(retry[r], rows[r]) /\ retry[r].status # "absent"
      BY <1>0, RunOf DEF RetryFit
    <3>2. SaveFit(Bound(r), pending[r]) BY <1>3 DEF DeskFit, PendingFit
    <3> QED BY <1>1, <3>1, <3>2, RunOf, AttemptStores DEF Fits
  <2>4. Served(Bound(r), rows[r], rows'[r]) /\ RowFit(Bound(r), rows'[r])
    BY <2>2, <2>3 DEF Stores, Served
  <2>5. worker[r].pc \notin External /\ (worker[r].pc # "none" => pending[r] = FailSave)
    BY <1>3, <1>6 DEF DeskFit, PendingFit
  <2>6. worker[r].pc # "none" => rows'[r].out = rows[r].out
    <3>1. FailSave.kind = "fail" BY DEF FailSave
    <3> QED BY <2>2, <2>3, <2>5, <3>1 DEF Stores
  <2>7. Going(rows'[r]) => Going(rows[r]) /\ rows'[r].seq = rows[r].seq
    BY <2>2, <2>3 DEF Stores, Tells
  <2>8. \/ rows'[r].result = rows[r].result
        \/ /\ Bound(r) = "app_server" /\ wire[r].hook = "ack" /\ rows'[r].result # NoReport
                => rows'[r].result.evidence = "delivered"
           /\ Bound(r) = "app_server" /\ rows'[r].result # NoReport
                => DeliveryStands(wire[r].turn, rows'[r].result)
    <3>1. CASE pending[r].kind # "provider" \/ o.row = rows[r] BY <2>2, <2>3, <3>1 DEF Stores
    <3>2. CASE pending[r].kind = "provider" /\ o.row # rows[r]
      <4>1. Bound(r) = "app_server" /\ wire[r].hook = "ack" => Acknowledges(pending[r])
        BY <1>3 DEF DeskFit, WireFit
      <4> QED BY <2>2, <2>3, <3>2, <4>1 DEF Stores, Stands, Acknowledges, DeliveryStands
    <3> QED BY <3>1, <3>2
  <2>9. /\ pending'[r] \in {pending[r], NoSave}
        /\ pending'[r] # pending[r] => o.code = "ok"
        /\ \A q \in Runs \ {r} : pending'[q] = pending[q]
    BY <1>1, <2>1
  <2>10. pending'[r] # pending[r] => ~Going(rows'[r]) BY <2>2, <2>3, <2>9 DEF Stores, Tells
  <2>11. pending[r].kind = "provider" => pending[r].report.text >= rows'[r].out
    <3>1. pending[r].report.text \in Nat BY RunOf DEF SaveT, Rep
    <3>2. pending[r].kind = "provider" => pending[r].report.text >= rows[r].out
      BY <1>3 DEF DeskFit, PendingFit
    <3> QED BY <2>2, <2>3, <3>1, <3>2 DEF Stores
  <2>12. /\ OutsideOK' /\ project'.binding = project.binding
         /\ \A q \in Runs \ {r} : rows'[q] = rows[q]
    BY <1>0, <2>1, CommandOutside DEF Do, Fits, OutsideOK
  <2>13. RetryFit(retry'[r], rows'[r]) BY <1>4, <2>4
  <2> QED BY <1>0, <1>2, <2>2, <2>4, <2>5, <2>6, <2>7, <2>8, <2>9, <2>10, <2>11, <2>12, <2>13,
             AuthorFits
<1> QED BY <1>5, <1>6 DEF RetryStore, actorVars

\* The close of the application interrupts a run that nobody is left to finish.
LEMMA InterruptFits ==
  ASSUME Fits, NEW r \in Runs, WellKept', AllKeep, Interrupt(r)
  PROVE  Fits'
<1>0. /\ worker[r].pc = "none" /\ pending[r] = NoSave
      /\ UNCHANGED <<callers, registry, signal, worker, pending, retry, stopper, wire>>
  BY DEF Interrupt, deskVars
<1>1. PICK o \in Reach(r, InterruptDiscussion(rows[r])) : Do(r, o) BY DEF Interrupt
<1>2. /\ rows'[r] = o.row /\ Keeps(rows[r], o.row) /\ Good(rows[r])
      /\ RowFit(Bound(r), rows[r])
  BY <1>1, Written, RunOf DEF AllKeep
<1>3. /\ Served(Bound(r), rows[r], o.row) /\ Plain(rows[r], o.row)
      /\ Going(o.row) => Going(rows[r])
  BY <1>2, ReachCases, InterruptServed, SameServed
<1>4. /\ OutsideOK' /\ project'.binding = project.binding
      /\ \A q \in Runs \ {r} : rows'[q] = rows[q]
  BY <1>0, <1>1, CommandOutside DEF Do, Fits, OutsideOK
<1>5. worker[r].pc \notin External /\ pending[r].kind # "provider"
  BY <1>0 DEF External, NoSave
<1>6. o.row.result = rows[r].result
      /\ (Going(o.row) => Going(rows[r]) /\ o.row.seq = rows[r].seq)
  BY <1>3 DEF Plain
<1> QED BY <1>0, <1>2, <1>3, <1>4, <1>5, <1>6, AuthorFits

-----------------------------------------------------------------------------
\* The project under the requests.

\* A step that leaves the runs and the desktop alone.
LEMMA RestFits ==
  ASSUME Fits, WellKept', UNCHANGED <<rows, faults>>, UNCHANGED deskVars,
         project'.binding = project.binding, project'.epoch <= EpochLimit
  PROVE  Fits'
<1>1. OutsideOK' BY DEF deskVars, Fits, OutsideOK
<1>2. \A r \in Runs : Bound(r)' = Bound(r) /\ Claims(r)' = Claims(r)
  BY DEF deskVars, Bound, Claims
<1>3. ASSUME NEW r \in Runs
      PROVE  RowFit(Bound(r), rows[r])' /\ DeskOf(r)' /\ RetryFit(retry[r], rows[r])'
  <2>1. RowFit(Bound(r), rows[r]) /\ DeskOf(r) /\ RetryFit(retry[r], rows[r]) BY DEF Fits
  <2>2. DeskOf(r)' BY <1>2, <2>1 DEF DeskOf, deskVars
  <2> QED BY <1>2, <2>1, <2>2 DEF deskVars
<1> QED BY <1>1, <1>3 DEF Fits

\* Edit and Reconnect.
LEMMA EditFits ==
  ASSUME Fits, WellKept', Edit \/ Reconnect
  PROVE  Fits'
<1>1. project \in [epoch : Nat, fenced : BOOLEAN, connected : BOOLEAN, binding : [Runs -> Bindings]]
      /\ project.epoch <= EpochLimit
  BY DEF Fits, OutsideOK, WellKept, ProjectOK
<1>2. /\ UNCHANGED <<rows, faults>> /\ UNCHANGED deskVars
      /\ project'.binding = project.binding /\ project'.epoch <= EpochLimit
  <2>1. CASE Edit BY <1>1, <2>1, BoundsAssumption DEF Edit
  <2>2. CASE Reconnect BY <1>1, <2>2 DEF Reconnect
  <2> QED BY <2>1, <2>2
<1> QED BY <1>2, RestFits

\* What is left of a run when the project is opened again.
LEMMA ReopenLeaves ==
  ASSUME NEW b, NEW row, Good(row), RowFit(b, row), NEW next, Good(next), Served(b, row, next),
         Plain(row, next), ~Going(next),
         NEW w, NEW save, NEW wr, NEW open, NEW claims, NEW asked, NEW sig,
         DeskFit(b, row, w, save, wr, open, claims, asked, sig),
         NEW wr2, wr2.sent = wr.sent, wr2.turn = wr.turn, wr2.hook = "none",
         NEW open2, NEW asked2, NEW sig2
  PROVE  /\ DeskFit(b, next, NoWorker, NoSave, wr2, open2, {}, asked2, sig2)
         /\ RetryFit(NoHeld, next)
<1>1. /\ NoWorker.pc = "none" /\ NoSave.kind = "none"
      /\ "none" \notin External /\ "none" \notin Unpaid
  BY DEF NoWorker, NoSave, External, Unpaid
<1>2. /\ WorkerFit(b, NoWorker, next) /\ HeldFit(NoHeld, next) /\ SaveFit(b, NoSave)
  BY NobodyFits DEF Served
<1>3. PendingFit(b, NoSave, NoWorker, next) BY <1>1, <1>2 DEF PendingFit
<1>4. WireFit(b, wr2, NoWorker, NoSave, next)
  <2>1. WireFit(b, wr, w, save, row) BY DEF DeskFit
  <2>2. /\ DispatchBound(next, wr.turn)
        /\ next.result # NoReport /\ b = "app_server" => DeliveryStands(wr.turn, next.result)
    BY <2>1, GoodRow, ReceiptMoves DEF Plain, Served
  <2>3. Fresh(next) => Fresh(row) BY DEF Served, Moves
  <2> QED BY <1>1, <2>1, <2>2, <2>3 DEF WireFit
<1>5. ClaimFit(b, open2, {}, NoWorker, next) BY <1>1 DEF ClaimFit
<1>6. SignalFit(NoWorker, next, asked2, sig2) BY <1>1 DEF SignalFit
<1> QED BY <1>2, <1>3, <1>4, <1>5, <1>6 DEF DeskFit, RetryFit

\* The process dies and the project is opened again.
LEMMA ReopenFits ==
  ASSUME Fits, WellKept', Reopen
  PROVE  Fits'
<1>0. /\ rows' = [r \in Runs |-> RecoverInterrupted(rows[r])]
      /\ project'.binding = project.binding /\ project'.epoch = project.epoch
      /\ callers' = [c \in Callers |-> NoCall] /\ registry' = {}
      /\ signal' = [r \in Runs |-> FALSE] /\ worker' = [r \in Runs |-> NoWorker]
      /\ pending' = [r \in Runs |-> NoSave] /\ retry' = [r \in Runs |-> NoHeld]
      /\ stopper' = [r \in Runs |-> FALSE]
      /\ wire' = [r \in Runs |-> [wire[r] EXCEPT !.hook = "none"]]
      /\ faults' = faults
  BY DEF Reopen, Fits, WellKept, ProjectOK
<1>1. wire \in [Runs -> WireT] BY DEF Fits, OutsideOK
<1>2. OutsideOK'
  <2>1. wire' \in [Runs -> WireT] BY <1>0, <1>1 DEF WireT
  <2> QED BY <1>0, <2>1 DEF Fits, OutsideOK
<1>3. \A r \in Runs : Bound(r)' = Bound(r) /\ Claims(r)' = {}
  BY <1>0 DEF Bound, Claims, NoCall
<1>4. ASSUME NEW r \in Runs
      PROVE  RowFit(Bound(r), rows[r])' /\ DeskOf(r)' /\ RetryFit(retry[r], rows[r])'
  <2>1. rows'[r] = RecoverInterrupted(rows[r]) /\ Good(rows'[r]) /\ Good(rows[r])
        /\ RowFit(Bound(r), rows[r])
    BY <1>0, RunOf DEF WellKept, RowsOK
  <2>2. /\ Served(Bound(r), rows[r], rows'[r]) /\ Plain(rows[r], rows'[r]) /\ ~Going(rows'[r])
    BY <2>1, InterruptServed
  <2>3. /\ wire'[r].sent = wire[r].sent /\ wire'[r].turn = wire[r].turn
        /\ wire'[r].hook = "none"
    BY <1>0, <1>1 DEF WireT
  <2>4. DeskFit(Bound(r), rows[r], worker[r], pending[r], wire[r], r \in registry, Claims(r),
                stopper[r], signal[r])
    BY RunOf DEF DeskOf
  <2>5. /\ DeskFit(Bound(r), rows'[r], NoWorker, NoSave, wire'[r], r \in registry', {},
                   stopper'[r], signal'[r])
        /\ RetryFit(NoHeld, rows'[r])
    BY <2>1, <2>2, <2>3, <2>4, ReopenLeaves
  <2>6. worker'[r] = NoWorker /\ pending'[r] = NoSave /\ retry'[r] = NoHeld BY <1>0
  <2>7. DeskOf(r)' BY <1>3, <2>5, <2>6 DEF DeskOf
  <2>8. RowFit(Bound(r), rows'[r]) BY <2>2 DEF Served
  <2> QED BY <1>3, <2>5, <2>6, <2>7, <2>8
<1> QED BY <1>2, <1>4 DEF Fits


-----------------------------------------------------------------------------
\* The invariant.

\* A project without runs fits.
LEMMA InitFits == Init => Fits
<1> SUFFICES ASSUME Init PROVE Fits OBVIOUS
<1>1. WellKept BY InitKept
<1>2. OutsideOK BY BoundsAssumption DEF Init, OutsideOK, WireT, NoWire
<1>3. ASSUME NEW r \in Runs
      PROVE  RowFit(Bound(r), rows[r]) /\ DeskOf(r) /\ RetryFit(retry[r], rows[r])
  <2>0. /\ rows[r] = NoRun /\ worker[r] = NoWorker /\ pending[r] = NoSave /\ wire[r] = NoWire
        /\ retry[r] = NoHeld /\ Claims(r) = {}
    BY <1>3 DEF Init, Claims, NoCall
  <2>1. /\ NoRun.status = "absent" /\ NoRun.seq = 0 /\ NoRun.out = 0 /\ NoRun.epoch = 0
        /\ NoRun.events = <<>> /\ NoRun.result = NoReport /\ NoWire.sent = 0
        /\ NoWire.turn = "none" /\ NoWire.hook = "none" /\ NoWorker.pc = "none"
        /\ NoSave.kind = "none"
    BY DEF NoRun, NoWire, NoWorker, NoSave
  <2>2. RowFit(Bound(r), NoRun)
    BY <2>1, BoundsAssumption DEF RowFit, EventsFit, Fresh, ReceiptStands, CompletedHasReceipt
  <2>3. /\ WorkerFit(Bound(r), NoWorker, NoRun) /\ HeldFit(NoHeld, NoRun)
        /\ SaveFit(Bound(r), NoSave)
    BY <2>2, NoRunGood, NobodyFits
  <2>4. "none" \notin External BY DEF External
  <2>5. PendingFit(Bound(r), NoSave, NoWorker, NoRun)
    BY <2>1, <2>3, <2>4 DEF PendingFit, Going
  <2>6. WireFit(Bound(r), NoWire, NoWorker, NoSave, NoRun) BY <2>1 DEF WireFit, DispatchBound
  <2>7. ClaimFit(Bound(r), r \in registry, {}, NoWorker, NoRun) BY <2>1, <2>4 DEF ClaimFit
  <2>8. SignalFit(NoWorker, NoRun, stopper[r], signal[r]) BY <2>1, <2>4 DEF SignalFit
  <2>9. DeskOf(r) BY <2>0, <2>3, <2>5, <2>6, <2>7, <2>8 DEF DeskOf, DeskFit
  <2>10. RetryFit(NoHeld, NoRun) BY <2>3 DEF RetryFit
  <2> QED BY <2>0, <2>2, <2>9, <2>10
<1> QED BY <1>1, <1>2, <1>3 DEF Fits

\* Every step of a worker keeps it.
LEMMA WorkFits ==
  ASSUME Fits, NEW r \in Runs, WellKept', AllKeep, Work(r) \/ DeltaUnsaved(r)
  PROVE  Fits'
<1>1. CASE Check(r) \/ StartBound(r) \/ Send(r) \/ Finished(r) \/ StreamLost(r)
  BY <1>1, CheckFits, StartBoundFits, SendFits, FinishedFits, StreamLostFits
<1>2. CASE Delta(r) \/ Reread(r) \/ SaveReport(r) \/ Reject(r) \/ Rejected(r)
  BY <1>2, DeltaFits, RereadFits, SaveReportFits, RejectFits, RejectedFits
<1>3. CASE HttpSend(r) \/ HttpFinished(r) \/ StartThread(r) \/ ClaimTurn(r) \/ SubmitTurn(r)
  BY <1>3, HttpSendFits, HttpFinishedFits, StartThreadFits, ClaimTurnFits, SubmitTurnFits
<1>4. CASE TurnAnswered(r) \/ AcknowledgeHook(r) \/ Flush(r) \/ TurnFinished(r) \/ FlushLast(r)
  BY <1>4, TurnAnsweredFits, AcknowledgeHookFits, FlushFits, TurnFinishedFits, FlushLastFits
<1>5. CASE TurnLost(r) \/ Deliver(r) \/ Write(r) \/ Store(r) \/ DeltaUnsaved(r)
  BY <1>5, TurnLostFits, DeliverFits, WriteFits, StoreFits, DeltaUnsavedFits
<1> QED BY <1>1, <1>2, <1>3, <1>4, <1>5 DEF Work

\* So does every step.
LEMMA NextFits == Fits /\ [Next]_vars => Fits'
<1> SUFFICES ASSUME Fits, [Next]_vars PROVE Fits' OBVIOUS
<1>0. WellKept' /\ AllKeep BY NextKeeps DEF Fits
<1>1. CASE \E c \in Callers, r \in Runs : Start(c, r) BY <1>0, <1>1, StartFits
<1>2. CASE \E c \in Callers : Register(c) \/ Claim(c) BY <1>0, <1>2, RegisterFits, ClaimFits
<1>3. CASE \E r \in Runs : Work(r) \/ DeltaUnsaved(r) BY <1>0, <1>3, WorkFits
<1>4. CASE \E r \in Runs : Stop(r) \/ Signal(r) \/ RetryRead(r) \/ RetryStore(r) \/ Interrupt(r)
  BY <1>0, <1>4, StopFits, SignalFits, RetryReadFits, RetryStoreFits, InterruptFits
<1>5. CASE Edit \/ Reconnect \/ Reopen BY <1>0, <1>5, EditFits, ReopenFits
<1>6. CASE UNCHANGED vars
  <2>1. UNCHANGED <<rows, faults>> /\ UNCHANGED deskVars /\ project' = project
    BY <1>6 DEF vars, actorVars, deskVars
  <2> QED BY <1>0, <2>1, RestFits DEF Fits, OutsideOK
<1> QED BY <1>1, <1>2, <1>3, <1>4, <1>5, <1>6 DEF Next


-----------------------------------------------------------------------------
\* What the invariant says of the retained outcomes.

\* A transaction may succeed.
LEMMA CommitTells ==
  ASSUME NEW row, NEW next, NEW code
  PROVE  \E o \in Committed(row, next, code) : o.code = code
<1> DEFINE o == [row |-> next, code |-> code]
<1>1. o \in Committed(row, next, code) BY DEF Committed
<1> QED BY <1>1

\* A report is settled.
LEMMA ProviderSettles ==
  ASSUME NEW b, NEW row, Good(row), RowFit(b, row), Going(row), NEW stands, stands,
         NEW report \in Rep, report.text <= MaxText, report.text >= row.out,
         report.status = "completed" => report.text > 0 /\ report.evidence = "delivered",
         report.seq = row.seq
  PROVE  \E o \in SettleProvider(row, stands, MaxText, report) : o.code = "ok"
<1>1. row.status \in Active /\ row.status \in {"running", "stopping"} BY DEF Going, Active
<1>2. row.result = NoReport BY <1>1, ActiveRow
<1>3. Stored(row, <<"provider">>) = {}
  <2>1. \A n \in Nat : <<"provider">> # <<"part", n>> OBVIOUS
  <2> QED BY <1>1, <2>1, NothingStored
<1>4. report.text \in Nat /\ row.out \in Nat BY GoodRow DEF Rep
<1>5. ReportShape(report, MaxText) = "ok" BY <1>4, BoundsAssumption DEF ReportShape
<1>6. ~(report.text < row.out) /\ ~(report.status = "completed" /\ report.text = 0) BY <1>4
<1>7. PICK next : SettleProvider(row, stands, MaxText, report) = Committed(row, next, "ok")
  BY <1>1, <1>2, <1>3, <1>5, <1>6 DEF SettleProvider
<1>8. \E o \in Committed(row, next, "ok") : o.code = "ok" BY CommitTells
<1> QED BY <1>7, <1>8, Zenon

\* A stop is settled.
LEMMA StopSettles ==
  ASSUME NEW b, NEW row, Good(row), RowFit(b, row), row.status = "stopping"
  PROVE  \E o \in SettleStop(row, row.seq, row.out) : o.code = "ok"
<1>1. Stored(row, <<"stopped">>) = {}
  <2>1. \A n \in Nat : <<"stopped">> # <<"part", n>> OBVIOUS
  <2> QED BY <2>1, NothingStored DEF Active
<1>2. ~(row.out < row.out) BY GoodRow
<1>3. PICK next : SettleStop(row, row.seq, row.out) = Committed(row, next, "ok")
  BY <1>1, <1>2 DEF SettleStop
<1> QED BY <1>3, CommitTells

\* The complete text of the local test model is stored.
LEMMA FinishSettles ==
  ASSUME NEW row, Good(row), RowFit("mock", row), row.status = "running"
  PROVE  \E o \in FinishDiscussion(row, FALSE, row.seq, MaxText) : o.code = "ok"
<1>1. Stored(row, <<"finish">>) = {}
  <2>1. \A n \in Nat : <<"finish">> # <<"part", n>> OBVIOUS
  <2> QED BY <2>1, NothingStored DEF Active
<1>2. MaxText # 0 /\ ~(MaxText < row.out) BY GoodRow, BoundsAssumption DEF RowFit
<1>3. EnsureStarted(row) = "ok" BY DEF EnsureStarted
<1>4. PICK next : FinishDiscussion(row, FALSE, row.seq, MaxText) = Committed(row, next, "ok")
  BY <1>1, <1>2, <1>3 DEF FinishDiscussion
<1>5. \E o \in Committed(row, next, "ok") : o.code = "ok" BY CommitTells
<1> QED BY <1>4, <1>5, Zenon

\* A failure is stored.
LEMMA FailSettles ==
  ASSUME NEW b, NEW row, Good(row), RowFit(b, row), row.status \in Active,
         row.status # "stopping"
  PROVE  \E o \in FailDiscussionRun(row, <<"fail", row.seq>>, row.seq) : o.code = "ok"
<1>1. Stored(row, <<"fail", row.seq>>) = {}
  <2>1. \A n \in Nat : <<"fail", row.seq>> # <<"part", n>> OBVIOUS
  <2> QED BY <2>1, NothingStored
<1>2. PICK next : FailDiscussionRun(row, <<"fail", row.seq>>, row.seq) = Committed(row, next, "ok")
  BY <1>1 DEF FailDiscussionRun
<1> QED BY <1>2, CommitTells

\* With the run as it is and a working disk, the retry of a save succeeds.
LEMMA RetainedSettles ==
  ASSUME Fits, NEW r \in Runs, project.connected, pending[r] # NoSave,
         Storable(r, pending[r])
  PROVE  \E o \in Attempt(r, pending[r], HeldOf(rows[r])) : o.code = "ok"
<1> DEFINE row == rows[r]
           save == pending[r]
           held == HeldOf(rows[r])
           report == [save.report EXCEPT !.seq = held.seq]
<1>1. /\ Good(row) /\ RowFit(Bound(r), row) /\ save \in SaveT /\ save.report \in Rep
      /\ PendingFit(Bound(r), save, worker[r], row)
  BY RunOf DEF DeskOf, DeskFit, SaveT
<1>2. held.status = row.status /\ held.seq = row.seq /\ held.out = row.out BY DEF HeldOf
<1>3. /\ report \in Rep /\ report.seq = row.seq /\ report.text = save.report.text
      /\ report.status = save.report.status /\ report.evidence = save.report.evidence
      /\ save.report.text \in Nat /\ row.out \in Nat /\ row.seq \in Nat
  BY <1>1, <1>2, GoodRow DEF Rep
<1>4. \A outcomes : outcomes \subseteq Reach(r, outcomes) BY DEF Reach, Reached
<1>5. save # FailSave => ~Fresh(row) BY <1>1 DEF PendingFit
<1>6. Stands(r, save.report) /\ save.report.text <= MaxText BY DEF Storable
<1>7. row.status \in Active /\ ~Fresh(row) => Going(row) BY DEF Active, Fresh, Going
<1>8. CASE held.status \notin Active
  BY <1>8 DEF Attempt, Refused
<1>9. CASE held.status \in Active /\ save.kind = "provider"
  <2>1. save # FailSave BY <1>9 DEF FailSave
  <2>2. /\ Going(row) /\ save.report.text >= row.out
        /\ report.status = "completed" => report.text > 0 /\ report.evidence = "delivered"
    BY <1>1, <1>2, <1>3, <1>5, <1>7, <1>9, <2>1 DEF PendingFit, SaveFit
  <2>3. ~(save.report.text < held.out) BY <1>2, <1>3, <2>2
  <2>4. Attempt(r, save, held)
          = Reach(r, SettleProvider(row, Stands(r, save.report), MaxText, report))
    BY <1>9, <2>3 DEF Attempt
  <2> DEFINE stands == Stands(r, save.report)
  <2>5. stands BY <1>6
  <2>6. Attempt(r, save, held) = Reach(r, SettleProvider(row, stands, MaxText, report)) BY <2>4
  <2> HIDE DEF row, save, held, report, stands
  <2>7. \E o \in SettleProvider(row, stands, MaxText, report) : o.code = "ok"
    BY <1>1, <1>3, <1>6, <2>2, <2>5, ProviderSettles
  <2>8. \E o \in Attempt(r, save, held) : o.code = "ok" BY <1>4, <2>6, <2>7
  <2> QED BY <2>8 DEF save, held
<1>10. CASE held.status = "stopping" /\ save.kind # "provider"
  <2>1. Attempt(r, save, held) = Reach(r, SettleStop(row, held.seq, held.out))
    BY <1>10 DEF Attempt, Active
  <2>2. \E o \in SettleStop(row, row.seq, row.out) : o.code = "ok"
    BY <1>1, <1>2, <1>10, StopSettles
  <2> HIDE DEF row, save, held
  <2>3. \E o \in Attempt(r, save, held) : o.code = "ok" BY <1>2, <1>4, <2>1, <2>2
  <2> QED BY <2>3 DEF save, held
<1>11. CASE held.status \in Active /\ held.status # "stopping" /\ save.kind = "complete"
  <2>1. save # FailSave BY <1>11 DEF FailSave
  <2>2. /\ Going(row) /\ row.status = "running" /\ save.report.seq = row.seq
        /\ Bound(r) = "mock" /\ save.report.text = MaxText
    BY <1>1, <1>2, <1>5, <1>7, <1>11, <2>1 DEF PendingFit, SaveFit, Going
  <2>3. Attempt(r, save, held) = Reach(r, FinishDiscussion(row, r \in Live, row.seq, MaxText))
    BY <1>11, <2>2 DEF Attempt
  <2>4. (r \in Live) = FALSE BY <2>2 DEF Live
  <2>5. \E o \in FinishDiscussion(row, FALSE, row.seq, MaxText) : o.code = "ok"
    BY <1>1, <2>2, FinishSettles
  <2> HIDE DEF row, save, held
  <2>6. \E o \in Attempt(r, save, held) : o.code = "ok" BY <1>4, <2>3, <2>4, <2>5
  <2> QED BY <2>6 DEF save, held
<1>12. CASE held.status \in Active /\ held.status # "stopping"
            /\ save.kind \notin {"provider", "complete"}
  <2>1. Attempt(r, save, held) = Reach(r, FailDiscussionRun(row, <<"fail", row.seq>>, row.seq))
    BY <1>2, <1>12 DEF Attempt
  <2>2. \E o \in FailDiscussionRun(row, <<"fail", row.seq>>, row.seq) : o.code = "ok"
    BY <1>1, <1>2, <1>12, FailSettles
  <2> HIDE DEF row, save, held
  <2>3. \E o \in Attempt(r, save, held) : o.code = "ok" BY <1>4, <2>1, <2>2
  <2> QED BY <2>3 DEF save, held
<1> QED BY <1>8, <1>9, <1>10, <1>11, <1>12


-----------------------------------------------------------------------------
\* The theorem.

\* The events and the receipt of a run have their types.
LEMMA RowTyped ==
  ASSUME NEW b, NEW row, Good(row), RowFit(b, row)
  PROVE  /\ row.status \in Codes \cup {"absent"}
         /\ row.dispatch \in {"pending", "claimed", "delivered"}
         /\ row.epoch \in 0..EpochLimit /\ row.seq \in Nat /\ row.out \in 0..MaxText
         /\ row.replies \in Nat
         /\ \A i \in DOMAIN row.events : row.events[i] \in Events
         /\ row.result \in Reports
<1>1. /\ row.out \in Nat /\ row.seq \in Nat /\ row.epoch \in Nat /\ row.events \in Seq(Ev)
      /\ row.result \in Rep /\ row.replies \in Nat /\ row.status \in Statuses
      /\ row.dispatch \in {"pending", "claimed", "delivered"}
  BY GoodRow
<1>2. row.epoch \in 0..EpochLimit /\ row.out \in 0..MaxText
  BY <1>1, BoundsAssumption DEF RowFit
<1>3. row.status \in Codes \cup {"absent"} BY <1>1 DEF Statuses, Codes
<1>4. ASSUME NEW i \in DOMAIN row.events PROVE row.events[i] \in Events
  <2>1. row.events[i] \in Ev /\ row.events[i].text <= MaxText
    BY <1>1, <1>4 DEF RowFit, EventsFit
  <2>2. \A e \in Ev : e.text <= MaxText => e \in Events
    BY BoundsAssumption DEF Ev, Events, Ids
  <2> QED BY <2>1, <2>2
<1>5. row.result \in Reports
  <2>1. row.result.text <= MaxText
    <3>1. NoReport.text = 0 BY DEF NoReport
    <3> QED BY <3>1, BoundsAssumption DEF RowFit, ReceiptStands, ReceiptReadable
  <2> QED BY <1>1, <2>1, BoundsAssumption DEF Rep, Reports
<1> QED BY <1>1, <1>2, <1>3, <1>4, <1>5

\* So have the copies of a run.
LEMMA HeldTyped ==
  ASSUME NEW held \in HeldT, held.out <= MaxText PROVE held \in Helds
  BY BoundsAssumption DEF HeldT, Helds, Statuses, Codes

\* So have the outcomes on their way to it.
LEMMA SaveTyped ==
  ASSUME NEW b, NEW save \in SaveT, SaveFit(b, save) PROVE save \in Saves
<1>1. save.report \in Rep /\ save.report.text <= MaxText + 1 BY DEF SaveT, SaveFit
<1>2. save.report \in Reports BY <1>1, BoundsAssumption DEF Rep, Reports
<1> QED BY <1>2 DEF SaveT, Saves

\* The invariant has the types of the state.
LEMMA FitsTyped == Fits => TypeOK
<1> SUFFICES ASSUME Fits PROVE TypeOK OBVIOUS
<1>1. ASSUME NEW r \in Runs
      PROVE  /\ rows[r].status \in Codes \cup {"absent"}
             /\ rows[r].dispatch \in {"pending", "claimed", "delivered"}
             /\ rows[r].epoch \in 0..EpochLimit /\ rows[r].seq \in Nat
             /\ rows[r].out \in 0..MaxText /\ rows[r].replies \in Nat
             /\ \A i \in DOMAIN rows[r].events : rows[r].events[i] \in Events
             /\ rows[r].result \in Reports
  BY RunOf, RowTyped
<1>2. ASSUME NEW r \in Runs
      PROVE  /\ worker[r].held \in Helds /\ worker[r].text \in worker[r].held.out..MaxText
             /\ worker[r].save \in Saves /\ pending[r] \in Saves /\ retry[r] \in Helds
  <2>1. /\ HeldFit(worker[r].held, rows[r]) /\ HeldFit(retry[r], rows[r])
        /\ SaveFit(Bound(r), worker[r].save) /\ SaveFit(Bound(r), pending[r])
        /\ worker[r].held.out <= worker[r].text /\ worker[r].text <= MaxText
    BY RunOf DEF DeskOf, DeskFit, WorkerFit, PendingFit, RetryFit
  <2>2. worker[r].held \in Helds /\ retry[r] \in Helds BY <2>1, RunOf, HeldTyped DEF HeldFit
  <2>3. worker[r].save \in Saves /\ pending[r] \in Saves BY <2>1, RunOf, SaveTyped
  <2>4. worker[r].text \in worker[r].held.out..MaxText BY <2>1, RunOf, BoundsAssumption
  <2> QED BY <2>2, <2>3, <2>4
<1>3. pending \in [Runs -> Saves] /\ retry \in [Runs -> Helds]
  BY <1>2 DEF Fits, WellKept, DeskOK
<1>4. OutsideOK BY DEF Fits
<1> QED BY <1>1, <1>2, <1>3, <1>4 DEF TypeOK, OutsideOK, WireT

\* Whatever the provider, the number of callers, the faults and the restarts:
\* an author request is sent to its provider at most once; a claimed run has a
\* worker or a retained outcome, which no retry takes over from a worker and
\* which a working disk stores; a Stop that was answered has reached the worker;
\* and every receipt and dispatch is stored as the validators ask.
THEOREM RequestsTheorem == Spec => []RequestsStand
<1>1. Fits => RequestsStand
  <2> SUFFICES ASSUME Fits PROVE RequestsStand OBVIOUS
  <2>1. \A r \in Runs : DeskOf(r) /\ RowFit(Bound(r), rows[r]) BY DEF Fits
  <2>2. SentOnce BY <2>1 DEF SentOnce, DeskOf, DeskFit, WireFit
  <2>3. RetainedMeansIdle BY <2>1 DEF RetainedMeansIdle, DeskOf, DeskFit, PendingFit, Live
  <2>4. NothingAbandoned BY <2>1 DEF NothingAbandoned, DeskOf, DeskFit, PendingFit, Going
  <2>5. RetainedCanSettle BY RetainedSettles DEF RetainedCanSettle
  <2>6. StopReachesWorker BY <2>1 DEF StopReachesWorker, DeskOf, DeskFit, SignalFit, Live
  <2>7. DatabaseValidates
    <3>1. ASSUME NEW r \in Runs
          PROVE  /\ ReceiptStands(rows[r], MaxText) /\ CompletedHasReceipt(rows[r], r \in Live)
                 /\ DispatchBound(rows[r], wire[r].turn)
                 /\ rows[r].result # NoReport => Stands(r, rows[r].result)
      <4>1. RowFit(Bound(r), rows[r]) /\ WireFit(Bound(r), wire[r], worker[r], pending[r], rows[r])
        BY <2>1 DEF DeskOf, DeskFit
      <4> QED BY <4>1 DEF RowFit, WireFit, CompletedHasReceipt, Stands, Live
    <3> QED BY <3>1 DEF DatabaseValidates
  <2> QED BY <2>2, <2>3, <2>4, <2>5, <2>6, <2>7, FitsTyped DEF RequestsStand
<1> QED BY <1>1, InitFits, NextFits, PTL DEF Spec
===============================================================================
