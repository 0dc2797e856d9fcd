---------------------------- MODULE LookupProofs ----------------------------
(***************************************************************************)
(* Theorems about Lookup for every allowance, every set of reads and any   *)
(* number of changes and faults: the chain always passes the checks of a   *)
(* backup and is never stuck, and a call that was paid for is on record,   *)
(* made once, and keeps its result.                                        *)
(***************************************************************************)
EXTENDS Lookup, FiniteSetTheorems, SequenceTheorems, TLAPS

-----------------------------------------------------------------------------
\* The inductive invariant, by parts.

Reads == UNION Asks
States == {"prepared", "claimed", "needs_context", "completed", "failed", "stopped", "unknown"}
Outcomes == {"none", "completed", "stopped", "failed"}
Parses == {"none", "needs", "discussion"}
Cleanups == {"settled", "unresolved"}
Results == [event : 0..3, outcome : Outcomes, cleanup : Cleanups, parsed : Parses,
            reads : SUBSET Reads, input : Nat, text : Nat]
Calls == [state : States, exchanges : SUBSET Reads, result : Results]
Statuses == {"absent"} \cup Active \cup Terminal
Ends == {"none", "stale", "stop", "finish", "limit", "halt", "interrupted"} \X (0..3)
Runs == [status : Statuses, epoch : Nat, policy : Nat,
         calls : Seq(Calls), reads : SUBSET (Invocations \X Reads),
         ended : Ends, reply : 0..3]

\* A result that was stored and what it says of its invocation.
ResultOK(c) ==
    /\ c.state = OutcomeState(c.result.parsed, c.result.outcome, c.result.cleanup)
    /\ (c.result.outcome = "completed") <=> (c.result.parsed # "none")
    /\ c.result.input <= InputSize(c)
    /\ c.result.outcome = "completed" =>
        c.result.input = InputSize(c) /\ c.result.cleanup = "settled"

CallOK(c) ==
    /\ IsFiniteSet(c.exchanges) /\ IsFiniteSet(c.result.reads)
    /\ c.state \in {"prepared", "claimed"} => c.result = NoResult
    /\ c.state \in {"needs_context", "completed", "failed"} => c.result # NoResult
    /\ c.result # NoResult => ResultOK(c)

\* A chain grows by responses that asked for context, and only its last
\* invocation may be anything else.
ChainOK(r) ==
    /\ r \in Runs /\ Len(r.calls) <= 3
    /\ \A k \in 1..Len(r.calls) : CallOK(r.calls[k])
    /\ \A k \in 1..Len(r.calls) : k < Len(r.calls) => r.calls[k].state = "needs_context"
    /\ \A k \in 1..Len(r.calls) : k > 1 => r.calls[k].exchanges = ReadsThrough(r, k - 1)
    /\ InputSpent(r) <= InputLimit /\ OutputSpent(r) <= OutputLimit
    /\ \A read \in r.reads :
        /\ read[1] < Len(r.calls)
        /\ read[2] \in r.calls[read[1]].result.reads

\* How far the run is, and how it ended.
StatusOK(r) ==
    /\ r.status = "absent" => r = NoRun
    /\ r.status # "absent" => Len(r.calls) >= 1
    /\ r.status = "queued" => Len(r.calls) = 1 /\ r.calls[1].state = "prepared"
    /\ r.status \notin Terminal => \A k \in 1..Len(r.calls) :
        r.calls[k].state \in {"prepared", "claimed", "needs_context"}
    /\ r.status \in Terminal =>
        /\ r.ended # <<"none", 0>>
        /\ \A k \in 1..Len(r.calls) :
            /\ r.calls[k].state # "claimed"
            /\ r.calls[k].result # NoResult /\ r.calls[k].state # "needs_context" =>
                r.ended = <<"finish", k>>
            /\ r.calls[k].result.parsed = "discussion" => r.status \in {"completed", "stopped"}
        /\ r.status # "completed" => r.reply = 1
    /\ r.status = "completed" =>
        /\ r.reply = Len(r.calls)
        /\ r.calls[Len(r.calls)].result.parsed = "discussion"

RowOK == ChainOK(row) /\ StatusOK(row)

\* What the worker or the recovery map holds is a report the provider gave.
Reports == [ordinal : Invocations, status : {"completed", "stopped", "failed"},
            cleanup : Cleanups, envelope : Parses, reads : Asks \cup {{}}, input : Nat,
            text : Nat]

SentOK ==
    /\ sent \in [Invocations -> Nat]
    /\ \A k \in Invocations : sent[k] > 0 =>
        k <= Len(row.calls) /\ row.calls[k].state # "prepared"

Begun == row.status \notin {"absent", "queued"}

Pcs == {"claim", "invoke", "sending", "answering", "settle", "advance", "halt"}
WorkerOK ==
    worker # NoWorker =>
      /\ worker.pc \in Pcs /\ pending = NoSave /\ Begun
      /\ worker \in [pc : Pcs, call : Nat, report : Reports \cup {NoReport}]
      /\ worker.pc # "halt" =>
            /\ row.status \in {"running", "stopping"}
            /\ worker.call = Len(row.calls) /\ worker.call \in Invocations
      /\ worker.pc = "claim" => row.calls[worker.call].state = "prepared"
      /\ worker.pc \in {"invoke", "sending", "answering", "settle"} =>
            row.calls[worker.call].state = "claimed"
      /\ worker.pc \in {"invoke", "sending"} => sent[worker.call] = 0
      /\ worker.pc = "settle" => worker.report \in Reports /\ worker.report.ordinal = worker.call
      /\ worker.pc = "advance" => row.calls[worker.call].state = "needs_context"

PendingOK ==
    /\ pending = NoSave \/ pending = HaltSave
       \/ /\ pending.kind = "report" /\ pending.report \in Reports
          /\ pending.report.ordinal <= Len(row.calls) /\ Begun
    /\ pending # NoSave => row.status # "absent"
    /\ retry \in {"idle", "active", "ended", "halt"}
    /\ retry = "halt" => pending # NoSave
    /\ retry = "ended" => row.status \in Terminal
    /\ row.status \in {"running", "stopping"} => worker # NoWorker \/ pending # NoSave

ProjectOK == project \in [epoch : Nat, policy : Nat, fenced : BOOLEAN, connected : BOOLEAN]

Inv == RowOK /\ SentOK /\ WorkerOK /\ PendingOK /\ ProjectOK

-----------------------------------------------------------------------------
\* The chain under the writes of the commands.

\* A fresh result is that of no invocation.
LEMMA NoResultIsOne == NoResult \in Results /\ IsFiniteSet(NoResult.reads)
<1>1. IsFiniteSet({})
  BY FS_EmptySet
<1> QED BY <1>1 DEF NoResult, Results, Outcomes, Cleanups, Parses

\* What a chain says of its own shape.
LEMMA ChainShape ==
  ASSUME NEW r, ChainOK(r)
  PROVE  /\ Len(r.calls) \in 0..3 /\ DOMAIN r.calls = 1..Len(r.calls)
         /\ \A k \in 1..Len(r.calls) : r.calls[k] \in Calls
         /\ (r.calls = <<>>) <=> (Len(r.calls) = 0)
<1>1. r.calls \in Seq(Calls)
  BY DEF ChainOK, Runs
<1>2. Len(r.calls) \in Nat /\ DOMAIN r.calls = 1..Len(r.calls) /\ Len(r.calls) <= 3
  BY <1>1, LenProperties DEF ChainOK
<1>3. \A k \in 1..Len(r.calls) : r.calls[k] \in Calls
  BY <1>1, ElementOfSeq
<1>4. (r.calls = <<>>) <=> (Len(r.calls) = 0)
  BY <1>1, EmptySeq
<1>5. Len(r.calls) \in 0..3
  <2> DEFINE m == Len(r.calls)
  <2>1. m \in Nat /\ m <= 3
    BY <1>2
  <2> HIDE DEF m
  <2>2. m \in 0..3
    BY <2>1
  <2> QED BY <2>2 DEF m
<1> QED BY <1>2, <1>3, <1>4, <1>5, Zenon

\* The size of a packet is a number.
LEMMA SizeIsNat ==
  ASSUME NEW c, CallOK(c)
  PROVE  InputSize(c) \in Nat
<1>1. Cardinality(c.exchanges) \in Nat
  BY FS_CardinalityType DEF CallOK
<1> QED BY <1>1 DEF InputSize

\* The reads of the rounds before are those of their results.
LEMMA SameReads ==
  ASSUME NEW r, NEW n, NEW k \in Nat,
         \A i \in 1..k : n.calls[i].result = r.calls[i].result
  PROVE  ReadsThrough(n, k) = ReadsThrough(r, k)
BY DEF ReadsThrough

\* They are finitely many, and reads that may be asked for.
LEMMA ReadsTyped ==
  ASSUME NEW r, ChainOK(r), NEW k \in 0..Len(r.calls)
  PROVE  ReadsThrough(r, k) \subseteq Reads /\ IsFiniteSet(ReadsThrough(r, k))
<1> DEFINE S(i) == r.calls[i].result.reads
<1>1. \A i \in 1..k : S(i) \subseteq Reads /\ IsFiniteSet(S(i))
  BY ChainShape DEF ChainOK, CallOK, Calls, Results
<1>2. k \in {0, 1, 2, 3}
  BY ChainShape
<1>3. ReadsThrough(r, k) = UNION {S(i) : i \in 1..k}
  BY DEF ReadsThrough
<1>4. ReadsThrough(r, k) \subseteq Reads
  BY <1>1, <1>3
<1>5. CASE k = 0
  <2>1. UNION {S(i) : i \in 1..k} = {}
    BY <1>5
  <2> QED BY <2>1, <1>3, <1>4, FS_EmptySet
<1>6. CASE k = 1
  <2>1. UNION {S(i) : i \in 1..k} = S(1)
    <3>1. 1..k = {1}
      BY <1>6
    <3> QED BY <3>1
  <2>2. IsFiniteSet(S(1))
    BY <1>1, <1>6
  <2> QED BY <2>1, <2>2, <1>3, <1>4
<1>7. CASE k = 2
  <2>1. UNION {S(i) : i \in 1..k} = S(1) \cup S(2)
    <3>1. 1..k = {1, 2}
      BY <1>7
    <3> QED BY <3>1
  <2>2. IsFiniteSet(S(1)) /\ IsFiniteSet(S(2))
    BY <1>1, <1>7
  <2>3. IsFiniteSet(S(1) \cup S(2))
    BY <2>2, FS_Union
  <2> QED BY <2>1, <2>3, <1>3, <1>4
<1>8. CASE k = 3
  <2>1. UNION {S(i) : i \in 1..k} = (S(1) \cup S(2)) \cup S(3)
    <3>1. 1..k = {1, 2, 3}
      BY <1>8
    <3> QED BY <3>1
  <2>2. IsFiniteSet(S(1)) /\ IsFiniteSet(S(2)) /\ IsFiniteSet(S(3))
    BY <1>1, <1>8
  <2>3. IsFiniteSet(S(1) \cup S(2))
    BY <2>2, FS_Union
  <2>4. IsFiniteSet((S(1) \cup S(2)) \cup S(3))
    BY <2>2, <2>3, FS_Union
  <2> QED BY <2>1, <2>4, <1>3, <1>4
<1> QED BY <1>2, <1>5, <1>6, <1>7, <1>8

\* Sealing a run leaves its chain alone.
LEMMA SealedChain ==
  ASSUME NEW r, NEW n, ChainOK(r), n \in Runs, n.calls = r.calls, n.reads = r.reads
  PROVE  ChainOK(n)
<1>1. \A k \in 1..Len(r.calls) : k > 1 => ReadsThrough(n, k - 1) = ReadsThrough(r, k - 1)
  <2>1. ASSUME NEW k \in 1..Len(r.calls), k > 1
        PROVE  ReadsThrough(n, k - 1) = ReadsThrough(r, k - 1)
    <3>1. Len(r.calls) \in Nat
      BY ChainShape
    <3>2. k - 1 \in Nat
      BY <2>1, <3>1
    <3> QED BY <3>2, SameReads
  <2> QED BY <2>1
<1>2. InputSpent(n) = InputSpent(r) /\ OutputSpent(n) = OutputSpent(r)
  BY DEF InputSpent, OutputSpent, ResultOf
<1> QED BY <1>1, <1>2 DEF ChainOK

\* Stopping a chain changes the states of what has no result.
LEMMA StoppedChain ==
  ASSUME NEW r, ChainOK(r), NEW n, n = MarkChainStopped(r)
  PROVE  /\ ChainOK(n) /\ Len(n.calls) = Len(r.calls)
         /\ \A k \in 1..Len(r.calls) :
              /\ n.calls[k].result = r.calls[k].result
              /\ n.calls[k].state = StoppedState(r.calls[k].state)
         /\ n = [r EXCEPT !.calls = n.calls]
<1> DEFINE Call(k) == [r.calls[k] EXCEPT !.state = StoppedState(r.calls[k].state)]
<1> DEFINE m == Len(r.calls)
<1>1. m \in 0..3 /\ DOMAIN r.calls = 1..m /\ (\A k \in 1..m : r.calls[k] \in Calls)
  BY ChainShape
<1>2. n = [r EXCEPT !.calls = [k \in 1..m |-> Call(k)]] /\ r \in Runs
  BY <1>1 DEF MarkChainStopped, ChainOK
<1>3. n.calls = [k \in 1..m |-> Call(k)] /\ n.reads = r.reads
  BY <1>2 DEF Runs
<1>4. \A k \in 1..m : /\ Call(k) \in Calls /\ Call(k).result = r.calls[k].result
                      /\ Call(k).exchanges = r.calls[k].exchanges
                      /\ Call(k).state = StoppedState(r.calls[k].state)
  BY <1>1 DEF Calls, StoppedState, States
<1> HIDE DEF Call
<1>5. n.calls \in Seq(Calls) /\ DOMAIN n.calls = 1..m
  <2>1. [k \in 1..m |-> Call(k)] \in Seq(Calls)
    BY <1>1, <1>4, IsASeq
  <2> QED BY <2>1, <1>3
<1>6. Len(n.calls) = m
  BY <1>1, <1>5, LenProperties
<1>7. \A k \in 1..m : n.calls[k] = Call(k)
  BY <1>3
<1>8. n \in Runs
  BY <1>2, <1>5, <1>3 DEF Runs
<1>9. \A k \in 1..m : CallOK(n.calls[k])
  <2> SUFFICES ASSUME NEW k \in 1..m PROVE CallOK(n.calls[k])
    OBVIOUS
  <2>1. CallOK(r.calls[k])
    BY DEF ChainOK
  <2>2. InputSize(n.calls[k]) = InputSize(r.calls[k])
    BY <1>4, <1>7 DEF InputSize
  <2>3. r.calls[k].state \in States
    BY <1>1 DEF Calls
  <2>4. n.calls[k].result = r.calls[k].result /\ n.calls[k].exchanges = r.calls[k].exchanges
        /\ n.calls[k].state = StoppedState(r.calls[k].state)
    BY <1>4, <1>7
  <2>5. CASE r.calls[k].state \in {"prepared", "claimed"}
    <3>1. n.calls[k].state \in {"stopped", "unknown"} /\ n.calls[k].result = NoResult
      BY <2>5, <2>4, <2>1 DEF StoppedState, CallOK
    <3> QED BY <3>1, <2>1, <2>4 DEF CallOK
  <2>6. CASE r.calls[k].state \notin {"prepared", "claimed"}
    <3>1. n.calls[k].state = r.calls[k].state
      BY <2>6, <2>4 DEF StoppedState
    <3> QED BY <3>1, <2>1, <2>4, <2>2 DEF CallOK, ResultOK
  <2> QED BY <2>5, <2>6
<1>10. \A k \in 1..m : k < m => n.calls[k].state = "needs_context"
  <2>1. \A k \in 1..m : k < m => r.calls[k].state = "needs_context"
    BY DEF ChainOK
  <2> QED BY <2>1, <1>4, <1>7 DEF StoppedState
<1>11. \A k \in 1..m : k > 1 => n.calls[k].exchanges = ReadsThrough(n, k - 1)
  <2>1. ASSUME NEW k \in 1..m, k > 1
        PROVE  n.calls[k].exchanges = ReadsThrough(n, k - 1)
    <3>1. k - 1 \in Nat /\ (\A i \in 1..(k - 1) : i \in 1..m)
      BY <2>1, <1>1
    <3>2. ReadsThrough(n, k - 1) = ReadsThrough(r, k - 1)
      BY <3>1, <1>4, <1>7, SameReads
    <3>3. r.calls[k].exchanges = ReadsThrough(r, k - 1)
      BY <2>1 DEF ChainOK
    <3> QED BY <3>2, <3>3, <1>4, <1>7
  <2> QED BY <2>1
<1>12. InputSpent(n) = InputSpent(r) /\ OutputSpent(n) = OutputSpent(r)
  <2>1. \A k \in 1..3 : ResultOf(n, k) = ResultOf(r, k)
    BY <1>1, <1>5, <1>4, <1>7 DEF ResultOf
  <2> QED BY <2>1 DEF InputSpent, OutputSpent
<1>13. \A read \in n.reads : /\ read[1] < m
                             /\ read[2] \in n.calls[read[1]].result.reads
  <2> SUFFICES ASSUME NEW read \in r.reads
               PROVE  read[1] < m /\ read[2] \in n.calls[read[1]].result.reads
    BY <1>3
  <2>1. read[1] < m /\ read[2] \in r.calls[read[1]].result.reads
    BY DEF ChainOK
  <2>2. read[1] \in 1..3
    BY DEF ChainOK, Runs, Invocations
  <2>3. read[1] \in 1..m
    BY <2>1, <2>2, <1>1
  <2> QED BY <2>1, <2>3, <1>4, <1>7
<1>14. InputSpent(n) <= InputLimit /\ OutputSpent(n) <= OutputLimit
  BY <1>12 DEF ChainOK
<1>15. ChainOK(n)
  BY <1>1, <1>6, <1>8, <1>9, <1>10, <1>11, <1>13, <1>14 DEF ChainOK
<1>16. \A k \in 1..m : /\ n.calls[k].result = r.calls[k].result
                       /\ n.calls[k].state = StoppedState(r.calls[k].state)
  BY <1>4, <1>7
<1>17. n = [r EXCEPT !.calls = n.calls]
  BY <1>2, <1>3
<1> QED BY <1>15, <1>6, <1>16, <1>17

-----------------------------------------------------------------------------
\* What every command keeps: the results, that a call was claimed, the end of
\* a run and that it was begun; and no stopped run is completed.
Keeps(r, n) ==
    /\ Len(r.calls) <= Len(n.calls)
    /\ \A k \in 1..Len(r.calls) :
        /\ r.calls[k].result # NoResult => n.calls[k].result = r.calls[k].result
        /\ r.calls[k].state # "prepared" => n.calls[k].state # "prepared"
    /\ r.status \in Terminal => n = r
    /\ r.status = "stopping" => n.status # "completed"
    /\ r.status \notin {"absent", "queued"} => n.status \notin {"absent", "queued"}
    /\ r.status # "absent" => n.status # "absent"

Good(n) == ChainOK(n) /\ StatusOK(n)

\* A row that stands is good and keeps itself.
LEMMA SelfKeeps == ASSUME RowOK PROVE Good(row) /\ Keeps(row, row)
<1>1. Len(row.calls) <= Len(row.calls)
  <2>1. Len(row.calls) \in 0..3
    BY ChainShape DEF RowOK
  <2> QED BY <2>1
<1>2. row.status = "stopping" => row.status # "completed"
  OBVIOUS
<1> QED BY <1>1, <1>2 DEF RowOK, Good, Keeps

\* The three outcomes of a command that commits, the refusal and the failure.
LEMMA OutcomesOf ==
  ASSUME RowOK, NEW n, NEW code, Good(n), Keeps(row, n), NEW o \in Committed(row, n, code)
  PROVE  Good(o.row) /\ Keeps(row, o.row)
BY SelfKeeps DEF Committed

\* A command that is refused writes nothing.
LEMMA RefusedIsNothing ==
  ASSUME RowOK, NEW code, NEW o \in Refused(row, code)
  PROVE  Good(o.row) /\ Keeps(row, o.row) /\ o.code = code /\ o.row = row
BY SelfKeeps DEF Refused

\* In a run that has not ended every result asked for context.
LEMMA OpenResults ==
  ASSUME NEW r, Good(r), r.status \notin Terminal, NEW k \in 1..Len(r.calls)
  PROVE  /\ r.calls[k].result # NoResult => r.calls[k].state = "needs_context"
         /\ r.calls[k].result.parsed # "discussion"
<1>1. CallOK(r.calls[k]) /\ r.calls[k].state \in {"prepared", "claimed", "needs_context"}
  BY DEF Good, ChainOK, StatusOK
<1>2. r.calls[k].result # NoResult => r.calls[k].state = "needs_context"
  BY <1>1 DEF CallOK
<1>3. CASE r.calls[k].result = NoResult
  BY <1>2, <1>3 DEF NoResult
<1>4. CASE r.calls[k].result # NoResult
  <2>1. ResultOK(r.calls[k]) /\ r.calls[k].state = "needs_context"
    BY <1>1, <1>2, <1>4 DEF CallOK
  <2> QED BY <2>1, <1>2 DEF ResultOK, OutcomeState
<1> QED BY <1>3, <1>4

\* A request for context is what leaves an invocation in need of it.
LEMMA NeedsAsked ==
  ASSUME NEW c, CallOK(c), c.state = "needs_context"
  PROVE  c.result # NoResult /\ c.result.parsed = "needs"
BY DEF CallOK, ResultOK, OutcomeState

\* A run that is sealed with its chain.
LEMMA SealedAndStopped ==
  ASSUME RowOK, row.status \notin Terminal \cup {"absent"},
         NEW st \in {"failed", "interrupted"}, NEW e \in Ends, e # <<"none", 0>>, e[1] # "finish",
         NEW n, n = MarkChainStopped(SealRun(st, e))
  PROVE  Good(n) /\ Keeps(row, n) /\ n.status = st
<1> DEFINE s == SealRun(st, e)
<1>1. row \in Runs /\ ChainOK(row) /\ StatusOK(row)
  BY DEF RowOK, ChainOK
<1>2. /\ s \in Runs /\ s.calls = row.calls /\ s.reads = row.reads
      /\ s.status = st /\ s.ended = e /\ s.reply = 1
  <2>1. st \in Statuses /\ 1 \in 0..3
    BY DEF Statuses, Terminal
  <2>2. s = [row EXCEPT !.status = st, !.ended = e, !.reply = 1]
    BY DEF SealRun
  <2> HIDE DEF s
  <2> QED BY <1>1, <2>1, <2>2 DEF Runs
<1>3. ChainOK(s)
  BY <1>1, <1>2, SealedChain
<1> HIDE DEF s
<1>4. n = MarkChainStopped(s)
  BY DEF s
<1>5. /\ ChainOK(n) /\ Len(n.calls) = Len(row.calls) /\ n = [s EXCEPT !.calls = n.calls]
      /\ \A k \in 1..Len(row.calls) : /\ n.calls[k].result = row.calls[k].result
                                      /\ n.calls[k].state = StoppedState(row.calls[k].state)
  BY <1>2, <1>3, <1>4, StoppedChain
<1>6. n.status = st /\ n.ended = e /\ n.reply = 1
  BY <1>5, <1>2 DEF Runs
<1>7. Len(row.calls) \in 0..3 /\ Len(row.calls) >= 1
  BY <1>1, ChainShape DEF StatusOK
<1>8. Keeps(row, n)
  <2>1. Len(row.calls) <= Len(n.calls)
    BY <1>5, <1>7
  <2>2. \A k \in 1..Len(row.calls) :
          row.calls[k].state # "prepared" => n.calls[k].state # "prepared"
    BY <1>5 DEF StoppedState
  <2> QED BY <1>5, <1>6, <2>1, <2>2 DEF Keeps
<1>9. StatusOK(n)
  <2>1. n.status \in Terminal /\ n.status \notin {"absent", "queued", "completed"}
    BY <1>6 DEF Terminal
  <2>2. \A k \in 1..Len(n.calls) :
          /\ n.calls[k].state # "claimed"
          /\ ~(n.calls[k].result # NoResult /\ n.calls[k].state # "needs_context")
          /\ n.calls[k].result.parsed # "discussion"
    <3> SUFFICES ASSUME NEW k \in 1..Len(row.calls)
                 PROVE  /\ n.calls[k].state # "claimed"
                        /\ ~(n.calls[k].result # NoResult /\ n.calls[k].state # "needs_context")
                        /\ n.calls[k].result.parsed # "discussion"
      BY <1>5
    <3>1. /\ row.calls[k].result # NoResult => row.calls[k].state = "needs_context"
          /\ row.calls[k].result.parsed # "discussion"
      BY <1>1, OpenResults DEF Good
    <3>2. n.calls[k].result = row.calls[k].result
          /\ n.calls[k].state = StoppedState(row.calls[k].state)
      BY <1>5
    <3> QED BY <3>1, <3>2 DEF StoppedState
  <2>3. Len(n.calls) >= 1
    BY <1>5, <1>7
  <2> QED BY <2>1, <2>2, <2>3, <1>6 DEF StatusOK
<1> QED BY <1>5, <1>6, <1>8, <1>9 DEF Good

\* A run that is sealed before its first call.
LEMMA SealedQueued ==
  ASSUME RowOK, row.status = "queued", NEW st \in {"failed", "stopped"}, NEW e \in Ends,
         e # <<"none", 0>>, NEW n, n = SealRun(st, e)
  PROVE  Good(n) /\ Keeps(row, n) /\ n.status = st
<1>1. row \in Runs /\ ChainOK(row) /\ StatusOK(row)
  BY DEF RowOK, ChainOK
<1>2. /\ n \in Runs /\ n.calls = row.calls /\ n.reads = row.reads
      /\ n.status = st /\ n.ended = e /\ n.reply = 1
  <2>1. st \in Statuses /\ 1 \in 0..3
    BY DEF Statuses, Terminal
  <2>2. n = [row EXCEPT !.status = st, !.ended = e, !.reply = 1]
    BY DEF SealRun
  <2> QED BY <1>1, <2>1, <2>2 DEF Runs
<1>3. ChainOK(n)
  BY <1>1, <1>2, SealedChain
<1>4. Len(row.calls) = 1 /\ row.calls[1].state = "prepared" /\ CallOK(row.calls[1])
  BY <1>1 DEF StatusOK, ChainOK
<1>5. row.calls[1].result = NoResult
  BY <1>4 DEF CallOK
<1>6. StatusOK(n)
  <2>1. n.status \in Terminal /\ n.status \notin {"absent", "queued", "completed"}
    BY <1>2 DEF Terminal
  <2>2. \A k \in 1..Len(n.calls) : k = 1
    BY <1>2, <1>4
  <2> QED BY <2>1, <2>2, <1>2, <1>4, <1>5 DEF StatusOK, NoResult
<1>7. Keeps(row, n)
  BY <1>2, <1>4 DEF Keeps, Terminal
<1> QED BY <1>2, <1>3, <1>6, <1>7 DEF Good

\* start_discussion.
LEMMA StartGood ==
  ASSUME RowOK, ProjectOK, NEW o \in StartLookup
  PROVE  /\ Good(o.row) /\ Keeps(row, o.row) /\ (row # NoRun => o.row = row)
         /\ o.row.status \notin {"running", "stopping"} \/ o.row = row
<1>1. CASE row # NoRun
  BY <1>1, SelfKeeps DEF StartLookup, Committed
<1>2. CASE row = NoRun
  <2> DEFINE n == [NoRun EXCEPT !.status = "queued", !.epoch = project.epoch,
                            !.policy = project.policy, !.calls = <<Prepared({})>>]
  <2>1. Prepared({}) \in Calls /\ CallOK(Prepared({}))
    BY NoResultIsOne, FS_EmptySet DEF Prepared, Calls, CallOK, States
  <2>2. <<Prepared({})>> \in Seq(Calls) /\ Len(<<Prepared({})>>) = 1
        /\ <<Prepared({})>>[1] = Prepared({})
    BY <2>1
  <2>3. /\ n \in Runs /\ n.calls = <<Prepared({})>> /\ n.reads = {} /\ n.status = "queued"
    <3>1. PICK s, e, p, q : s = <<Prepared({})>> /\ e = <<"none", 0>>
                            /\ p = project.epoch /\ q = project.policy
      OBVIOUS
    <3>2. "queued" \in Statuses /\ 0 \in 0..3 /\ e \in Ends
      BY <3>1 DEF Statuses, Active, Ends
    <3>3. p \in Nat /\ q \in Nat
      BY <3>1 DEF ProjectOK
    <3>4. NoRun = [status |-> "absent", epoch |-> 0, policy |-> 0, calls |-> <<>>, reads |-> {},
                   ended |-> e, reply |-> 0]
      BY <3>1 DEF NoRun
    <3>5. n = [NoRun EXCEPT !.status = "queued", !.epoch = p, !.policy = q, !.calls = s]
      BY <3>1
    <3> HIDE DEF n
    <3>6. n = [status |-> "queued", epoch |-> p, policy |-> q, calls |-> s, reads |-> {},
               ended |-> e, reply |-> 0]
      BY <3>4, <3>5
    <3>7. s \in Seq(Calls)
      BY <2>2, <3>1
    <3> QED BY <3>1, <3>2, <3>3, <3>6, <3>7 DEF Runs
  <2> HIDE DEF n
  <2>4. InputSpent(n) = 0 /\ OutputSpent(n) = 0
    <3>1. DOMAIN n.calls = 1..1 /\ n.calls[1].result = NoResult
      BY <2>2, <2>3 DEF Prepared
    <3>2. \A k \in 1..3 : ResultOf(n, k) = NoResult
      BY <3>1 DEF ResultOf
    <3> QED BY <3>2 DEF InputSpent, OutputSpent, NoResult
  <2>5. ChainOK(n)
    <3>1. \A k \in 1..Len(n.calls) : k = 1
      BY <2>2, <2>3
    <3>2. InputSpent(n) <= InputLimit /\ OutputSpent(n) <= OutputLimit
      BY <2>4, AllowanceAssumption
    <3> QED BY <3>1, <3>2, <2>1, <2>2, <2>3 DEF ChainOK
  <2>6. StatusOK(n)
    <3>1. \A k \in 1..Len(n.calls) : k = 1
      BY <2>2, <2>3
    <3>2. n.calls[1].state = "prepared"
      BY <2>2, <2>3 DEF Prepared
    <3> QED BY <3>1, <3>2, <2>2, <2>3 DEF StatusOK, Terminal
  <2>7. Keeps(row, n)
    <3>1. Len(row.calls) = 0 /\ row.status = "absent"
      BY <1>2 DEF NoRun
    <3> QED BY <3>1, <2>2, <2>3 DEF Keeps, Terminal
  <2>8. o \in Committed(row, n, "ok")
    BY <1>2 DEF StartLookup, n
  <2>9. o.row = n \/ o.row = row
    BY <2>8 DEF Committed
  <2> QED BY <2>3, <2>5, <2>6, <2>7, <2>9, <1>2, SelfKeeps DEF Good
<1> QED BY <1>1, <1>2

\* A run whose status moves while its chain is as before.
LEMMA StatusMoves ==
  ASSUME RowOK, NEW n, NEW st \in {"running", "stopping"}, row.status \in {"queued", "running"},
         n = [row EXCEPT !.status = st]
  PROVE  Good(n) /\ Keeps(row, n) /\ n.status = st /\ n.calls = row.calls
<1>1. row \in Runs /\ ChainOK(row) /\ StatusOK(row)
  BY DEF RowOK, ChainOK
<1>2. n \in Runs /\ n.calls = row.calls /\ n.reads = row.reads /\ n.status = st
  <2>1. st \in Statuses
    BY DEF Statuses, Active
  <2> QED BY <1>1, <2>1 DEF Runs
<1>3. ChainOK(n)
  BY <1>1, <1>2, SealedChain
<1>4. StatusOK(n)
  BY <1>1, <1>2 DEF StatusOK, Terminal
<1>5. Keeps(row, n)
  BY <1>1, <1>2, SelfKeeps DEF Keeps, Terminal
<1> QED BY <1>2, <1>3, <1>4, <1>5 DEF Good

\* begin_discussion_run.
LEMMA BeginGood ==
  ASSUME RowOK, row # NoRun, NEW o \in BeginRun
  PROVE  /\ Good(o.row) /\ Keeps(row, o.row)
         /\ o.code = "ok" => /\ o.row.status = "running" /\ Len(o.row.calls) = 1
                             /\ o.row.calls[1].state = "prepared"
         /\ o.code # "ok" /\ o.row.status \in {"running", "stopping"} =>
              o.row = row \/ o.code = "UncertainOutcome"
         /\ o.code \notin {"ok", "UncertainOutcome"} => o.row.status # "queued"
<1>1. CASE row.status # "queued"
  <2>1. o.row = row /\ o.code \notin {"ok", "UncertainOutcome"}
    BY <1>1 DEF BeginRun, Refused
  <2> QED BY <1>1, <2>1, SelfKeeps
<1>2. CASE row.status = "queued" /\ ~EpochsCurrent
  <2> DEFINE n == SealRun("failed", <<"stale", 0>>)
  <2>1. <<"stale", 0>> \in Ends /\ <<"stale", 0>> # <<"none", 0>>
    BY DEF Ends
  <2>2. Good(n) /\ Keeps(row, n) /\ n.status = "failed"
    BY <1>2, <2>1, SealedQueued
  <2>3. o \in Committed(row, n, "ContextChanged")
    BY <1>2 DEF BeginRun
  <2> HIDE DEF n
  <2>4. Good(o.row) /\ Keeps(row, o.row)
    BY <2>2, <2>3, OutcomesOf
  <2> QED BY <1>2, <2>2, <2>3, <2>4 DEF Committed
<1>3. CASE row.status = "queued" /\ EpochsCurrent
  <2> DEFINE n == [row EXCEPT !.status = "running"]
  <2>1. Good(n) /\ Keeps(row, n) /\ n.status = "running" /\ n.calls = row.calls
    BY <1>3, StatusMoves
  <2>2. o \in Committed(row, n, "ok")
    BY <1>3 DEF BeginRun
  <2>3. Len(row.calls) = 1 /\ row.calls[1].state = "prepared"
    BY <1>3 DEF RowOK, StatusOK
  <2> HIDE DEF n
  <2>4. Good(o.row) /\ Keeps(row, o.row)
    BY <2>1, <2>2, OutcomesOf
  <2> QED BY <1>3, <2>1, <2>2, <2>3, <2>4 DEF Committed
<1> QED BY <1>1, <1>2, <1>3

\* stop_discussion.
LEMMA StopGood ==
  ASSUME RowOK, row # NoRun, NEW o \in StopRun
  PROVE  /\ Good(o.row) /\ Keeps(row, o.row) /\ Len(o.row.calls) = Len(row.calls)
         /\ o.row.calls = row.calls
         /\ o.row.status \in {"running", "stopping"} <=> row.status \in {"running", "stopping"}
<1>1. CASE row.status = "queued"
  <2> DEFINE n == SealRun("stopped", <<"stop", 0>>)
  <2>1. <<"stop", 0>> \in Ends /\ <<"stop", 0>> # <<"none", 0>>
    BY DEF Ends
  <2>2. Good(n) /\ Keeps(row, n) /\ n.status = "stopped"
    BY <1>1, <2>1, SealedQueued
  <2>3. o \in Committed(row, n, "ok")
    BY <1>1 DEF StopRun
  <2>4. n.calls = row.calls
    BY DEF SealRun, RowOK, ChainOK, Runs
  <2> HIDE DEF n
  <2>5. Good(o.row) /\ Keeps(row, o.row)
    BY <2>2, <2>3, OutcomesOf
  <2> QED BY <1>1, <2>2, <2>3, <2>4, <2>5 DEF Committed
<1>2. CASE row.status = "running"
  <2> DEFINE n == [row EXCEPT !.status = "stopping"]
  <2>1. Good(n) /\ Keeps(row, n) /\ n.status = "stopping" /\ n.calls = row.calls
    BY <1>2, StatusMoves
  <2>2. o \in Committed(row, n, "ok")
    BY <1>2 DEF StopRun
  <2> HIDE DEF n
  <2>3. Good(o.row) /\ Keeps(row, o.row)
    BY <2>1, <2>2, OutcomesOf
  <2> QED BY <1>2, <2>1, <2>2, <2>3 DEF Committed
<1>3. CASE row.status \notin {"queued", "running"}
  <2>1. o.row = row
    BY <1>3 DEF StopRun, Committed
  <2> QED BY <2>1, SelfKeeps
<1> QED BY <1>1, <1>2, <1>3

\* halt_lookup.
LEMMA HaltGood ==
  ASSUME RowOK, row.status # "absent", NEW o \in HaltLookup
  PROVE  /\ Good(o.row) /\ Keeps(row, o.row)
         /\ o.code = "ok" => o.row.status \in Terminal
<1>1. CASE row.status \in Terminal
  <2>1. o.row = row
    BY <1>1 DEF HaltLookup, Committed
  <2> QED BY <1>1, <2>1, SelfKeeps
<1>2. CASE row.status \notin Terminal
  <2> DEFINE n == MarkChainStopped(SealRun("interrupted", <<"halt", 0>>))
  <2>1. <<"halt", 0>> \in Ends /\ <<"halt", 0>> # <<"none", 0>> /\ <<"halt", 0>>[1] # "finish"
    BY DEF Ends
  <2>2. Good(n) /\ Keeps(row, n) /\ n.status = "interrupted"
    BY <1>2, <2>1, SealedAndStopped
  <2>3. o \in Committed(row, n, "ok")
    BY <1>2 DEF HaltLookup
  <2> HIDE DEF n
  <2>4. Good(o.row) /\ Keeps(row, o.row)
    BY <2>2, <2>3, OutcomesOf
  <2> QED BY <2>2, <2>3, <2>4 DEF Committed, Terminal
<1> QED BY <1>1, <1>2

\* interrupt_discussion and the recovery of an opening.
LEMMA InterruptedGood ==
  ASSUME RowOK
  PROVE  Good(Interrupted) /\ Keeps(row, Interrupted) /\ Interrupted.status \notin Active
<1>1. CASE row.status \in Active
  <2> DEFINE n == MarkChainStopped(SealRun("interrupted", <<"interrupted", 0>>))
  <2>1. /\ <<"interrupted", 0>> \in Ends /\ <<"interrupted", 0>> # <<"none", 0>>
        /\ <<"interrupted", 0>>[1] # "finish"
    BY DEF Ends
  <2>2. Good(n) /\ Keeps(row, n) /\ n.status = "interrupted"
    <3>1. row.status \notin Terminal \cup {"absent"}
      BY <1>1 DEF Active, Terminal
    <3> QED BY <3>1, <2>1, SealedAndStopped
  <2>3. Interrupted = n
    BY <1>1 DEF Interrupted
  <2> HIDE DEF n
  <2> QED BY <2>2, <2>3 DEF Active
<1>2. CASE row.status \notin Active
  BY <1>2, SelfKeeps DEF Interrupted
<1> QED BY <1>1, <1>2

\* claim_lookup_invocation, of the last invocation.
LEMMA ClaimGood ==
  ASSUME RowOK, NEW k, k = Len(row.calls), k \in Invocations, row.status # "absent",
         NEW o \in ClaimInvocation(k)
  PROVE  /\ Good(o.row) /\ Keeps(row, o.row)
         /\ o.code = "ok" => /\ o.row.status = row.status /\ row.status = "running"
                             /\ Len(o.row.calls) = k /\ o.row.calls[k].state = "claimed"
<1>1. row \in Runs /\ ChainOK(row) /\ StatusOK(row)
  BY DEF RowOK, ChainOK
<1>2. CASE \/ row.status # "running"
           \/ EpochsCurrent /\ (row.calls[k].state # "prepared" \/ ~WithinAllowance(k))
  <2>1. o.row = row /\ o.code # "ok"
    BY <1>2 DEF ClaimInvocation, Refused
  <2> QED BY <2>1, SelfKeeps
<1>3. CASE row.status = "running" /\ ~EpochsCurrent
  <2> DEFINE n == MarkChainStopped(SealRun("failed", <<"stale", k>>))
  <2>1. <<"stale", k>> \in Ends /\ <<"stale", k>> # <<"none", 0>> /\ <<"stale", k>>[1] # "finish"
    <3>1. \A i \in 0..3 : <<"stale", i>> \in Ends /\ <<"stale", i>> # <<"none", 0>>
                           /\ <<"stale", i>>[1] # "finish"
      BY DEF Ends
    <3>2. k \in 0..3
      BY DEF Invocations
    <3> QED BY <3>1, <3>2
  <2>2. Good(n) /\ Keeps(row, n)
    BY <1>3, <2>1, SealedAndStopped DEF Terminal
  <2>3. o \in Committed(row, n, "ContextChanged")
    BY <1>3 DEF ClaimInvocation
  <2> HIDE DEF n
  <2>4. Good(o.row) /\ Keeps(row, o.row)
    BY <2>2, <2>3, OutcomesOf
  <2> QED BY <2>3, <2>4 DEF Committed
<1>4. CASE row.status = "running" /\ EpochsCurrent /\ row.calls[k].state = "prepared"
           /\ WithinAllowance(k)
  <2> DEFINE c == [row.calls[k] EXCEPT !.state = "claimed"]
             n == [row EXCEPT !.calls[k].state = "claimed"]
  <2>1. k \in 1..Len(row.calls) /\ row.calls[k] \in Calls /\ CallOK(row.calls[k])
        /\ row.calls \in Seq(Calls) /\ Len(row.calls) \in 0..3
    <3>1. k \in 1..k
      BY SMTT(40) DEF Invocations
    <3> QED BY <3>1, <1>1, ChainShape DEF ChainOK, Runs
  <2>2. n = [row EXCEPT !.calls = [row.calls EXCEPT ![k] = c]]
    OBVIOUS
  <2>3. /\ c \in Calls /\ c.result = row.calls[k].result /\ c.exchanges = row.calls[k].exchanges
        /\ c.state = "claimed" /\ row.calls[k].result = NoResult
    BY <1>4, <2>1 DEF Calls, States, CallOK
  <2>4. InputSize(c) = InputSize(row.calls[k])
    BY <2>3 DEF InputSize
  <2>5. CallOK(c)
    BY <2>1, <2>3 DEF CallOK
  <2> HIDE DEF c
  <2>6. /\ [row.calls EXCEPT ![k] = c] \in Seq(Calls)
        /\ Len([row.calls EXCEPT ![k] = c]) = k
        /\ \A j \in 1..k : [row.calls EXCEPT ![k] = c][j] = IF j = k THEN c ELSE row.calls[j]
    BY <2>1, <2>3, ExceptSeq
  <2> DEFINE s == [row.calls EXCEPT ![k] = c]
  <2> HIDE DEF s
  <2>7. s \in Seq(Calls) /\ Len(s) = k /\ (\A j \in 1..k : s[j] = IF j = k THEN c ELSE row.calls[j])
        /\ n = [row EXCEPT !.calls = s]
    BY <2>2, <2>6 DEF s
  <2> HIDE DEF n
  <2>8. n \in Runs /\ n.calls = s /\ n.reads = row.reads /\ n.status = "running"
    BY <1>1, <1>4, <2>7 DEF Runs
  <2>9. \A j \in 1..k : n.calls[j].result = row.calls[j].result
                        /\ n.calls[j].exchanges = row.calls[j].exchanges
    BY <2>3, <2>7, <2>8
  <2>10. InputSpent(n) = InputSpent(row) /\ OutputSpent(n) = OutputSpent(row)
    <3>1. DOMAIN n.calls = 1..k /\ DOMAIN row.calls = 1..k
      BY <2>7, <2>8, <1>1, ChainShape, LenProperties
    <3>2. \A j \in 1..3 : ResultOf(n, j) = ResultOf(row, j)
      BY <3>1, <2>9 DEF ResultOf
    <3> QED BY <3>2 DEF InputSpent, OutputSpent
  <2>11. \A j \in 1..k : j > 1 => n.calls[j].exchanges = ReadsThrough(n, j - 1)
    <3>1. ASSUME NEW j \in 1..k, j > 1
          PROVE  n.calls[j].exchanges = ReadsThrough(n, j - 1)
      <4>1. j - 1 \in Nat /\ (\A i \in 1..(j - 1) : i \in 1..k)
        BY <3>1 DEF Invocations
      <4>2. ReadsThrough(n, j - 1) = ReadsThrough(row, j - 1)
        BY <4>1, <2>9, SameReads
      <4> QED BY <4>2, <2>9, <3>1, <1>1 DEF ChainOK
    <3> QED BY <3>1
  <2>12. \A read \in n.reads : /\ read[1] < k
                               /\ read[2] \in n.calls[read[1]].result.reads
    <3> SUFFICES ASSUME NEW read \in row.reads
                 PROVE  read[1] < k /\ read[2] \in n.calls[read[1]].result.reads
      BY <2>8
    <3>1. read[1] < k /\ read[2] \in row.calls[read[1]].result.reads
      BY <1>1 DEF ChainOK
    <3>2. read[1] \in 1..3
      BY <1>1 DEF Runs, Invocations
    <3>3. read[1] \in 1..k
      BY <3>1, <3>2 DEF Invocations
    <3> QED BY <3>1, <3>3, <2>9
  <2>13. \A j \in 1..k : CallOK(n.calls[j]) /\ (j < k => n.calls[j].state = "needs_context")
    <3>1. \A j \in 1..k : CallOK(row.calls[j]) /\ (j < k => row.calls[j].state = "needs_context")
      BY <1>1 DEF ChainOK
    <3>2. ASSUME NEW j \in 1..k
          PROVE  CallOK(n.calls[j]) /\ (j < k => n.calls[j].state = "needs_context")
      <4>1. CASE j = k
        <5>1. n.calls[j] = c
          BY <4>1, <2>7, <2>8
        <5>2. ~(j < k)
          BY <4>1 DEF Invocations
        <5> QED BY <5>1, <5>2, <2>5
      <4>2. CASE j # k
        <5>1. n.calls[j] = row.calls[j]
          BY <4>2, <2>7, <2>8
        <5> QED BY <5>1, <3>1
      <4> QED BY <4>1, <4>2
    <3> QED BY <3>2
  <2>14. ChainOK(n)
    <3>1. InputSpent(n) <= InputLimit /\ OutputSpent(n) <= OutputLimit /\ k <= 3
      BY <1>1, <2>10 DEF ChainOK
    <3>2. Len(n.calls) = k
      BY <2>7, <2>8
    <3> QED BY <3>1, <3>2, <2>8, <2>11, <2>12, <2>13 DEF ChainOK
  <2>15. StatusOK(n)
    <3>1. \A j \in 1..k : n.calls[j].state \in {"prepared", "claimed", "needs_context"}
      <4>1. \A j \in 1..k : row.calls[j].state \in {"prepared", "claimed", "needs_context"}
        BY <1>1, <1>4 DEF StatusOK, Terminal
      <4> QED BY <4>1, <2>3, <2>7, <2>8
    <3>2. Len(n.calls) = k
      BY <2>7, <2>8
    <3>3. k >= 1
      BY SMTT(40) DEF Invocations
    <3> QED BY <3>1, <3>2, <3>3, <2>8 DEF StatusOK, Terminal
  <2>16. Keeps(row, n)
    <3>1. k <= k /\ Len(n.calls) = k
      BY <2>7, <2>8 DEF Invocations
    <3>2. \A j \in 1..k : row.calls[j].state # "prepared" => n.calls[j].state # "prepared"
      BY <2>3, <2>7, <2>8
    <3> QED BY <3>1, <3>2, <2>8, <2>9, <1>4 DEF Keeps, Terminal
  <2>17. o \in Committed(row, n, "ok")
    BY <1>4 DEF ClaimInvocation, n
  <2>18. Good(n)
    BY <2>14, <2>15 DEF Good
  <2>19. Good(o.row) /\ Keeps(row, o.row)
    BY <2>16, <2>17, <2>18, OutcomesOf
  <2>20. o.code = "ok" => o.row = n
    BY <2>17 DEF Committed
  <2>21. n.calls[k].state = "claimed" /\ Len(n.calls) = k
    BY <2>1, <2>3, <2>7, <2>8
  <2> QED BY <2>8, <2>19, <2>20, <2>21, <1>4
<1> QED BY <1>2, <1>3, <1>4

\* The result an accepted report becomes, and what it makes of its invocation.
ResultFrom(k, report) ==
    [event |-> k,
     outcome |-> IF report.status = "completed" /\ ParsedAs(report) = "none" THEN "failed"
                 ELSE report.status,
     cleanup |-> report.cleanup, parsed |-> ParsedAs(report),
     reads |-> IF ParsedAs(report) = "needs" THEN report.reads ELSE {},
     input |-> report.input, text |-> report.text]

\* The result of an accepted report fits its call and what is left of the budgets.
LEMMA ResultGood ==
  ASSUME RowOK, NEW k \in Invocations, k <= Len(row.calls), NEW report \in Reports,
         ReportCode(k, report) = "ok", NEW res, res = ResultFrom(k, report)
  PROVE  /\ res \in Results /\ IsFiniteSet(res.reads) /\ res # NoResult /\ res.event = k
         /\ res.parsed = ParsedAs(report) /\ res.input = report.input /\ res.text = report.text
         /\ (res.outcome = "completed") <=> (res.parsed # "none")
         /\ res.input <= InputSize(row.calls[k])
         /\ res.outcome = "completed" =>
              res.input = InputSize(row.calls[k]) /\ res.cleanup = "settled"
         /\ res.cleanup = report.cleanup
         /\ InputSpent(row) + res.input <= InputLimit /\ OutputSpent(row) + res.text <= OutputLimit
<1>1. ParsedAs(report) \in Parses /\ (ParsedAs(report) # "none" => report.status = "completed")
  BY DEF ParsedAs, Reports, Parses
<1>2. PICK out, rs : /\ out = (IF report.status = "completed" /\ ParsedAs(report) = "none"
                               THEN "failed" ELSE report.status)
                     /\ rs = (IF ParsedAs(report) = "needs" THEN report.reads ELSE {})
  OBVIOUS
<1>3. out \in {"completed", "stopped", "failed"} /\ (out = "completed" <=> ParsedAs(report) # "none")
      /\ (out = "completed" => report.status = "completed")
  BY <1>1, <1>2 DEF Reports
<1>4. rs \in SUBSET Reads /\ IsFiniteSet(rs)
  <2>1. report.reads \in Asks \cup {{}}
    BY DEF Reports
  <2>2. rs \in Asks \cup {{}}
    BY <1>2, <2>1
  <2> QED BY <2>2, FS_EmptySet, AllowanceAssumption DEF Reads
<1>5. res = [event |-> k, outcome |-> out, cleanup |-> report.cleanup, parsed |-> ParsedAs(report),
             reads |-> rs, input |-> report.input, text |-> report.text]
  BY <1>2 DEF ResultFrom
<1>6. report.cleanup \in Cleanups /\ report.input \in Nat /\ report.text \in Nat
  BY DEF Reports
<1>7. k \in 0..3 /\ k # 0
  BY DEF Invocations
<1>8. /\ res.event = k /\ res.outcome = out /\ res.cleanup = report.cleanup
      /\ res.parsed = ParsedAs(report) /\ res.reads = rs /\ res.input = report.input
      /\ res.text = report.text
  BY <1>5
<1>9. res \in Results
  BY <1>1, <1>3, <1>4, <1>5, <1>6, <1>7 DEF Results, Outcomes
<1>10. res # NoResult
  BY <1>7, <1>8 DEF NoResult
<1>11. /\ ~(report.status = "completed" /\ report.cleanup = "unresolved")
       /\ ~(report.input > InputSize(row.calls[k]))
       /\ ~(report.status = "completed" /\ report.input # InputSize(row.calls[k]))
       /\ ~(InputSpent(row) + report.input > InputLimit)
       /\ ~(OutputSpent(row) + report.text > OutputLimit)
  BY DEF ReportCode
<1>12. /\ InputSize(row.calls[k]) \in Nat
       /\ InputSpent(row) \in Nat /\ OutputSpent(row) \in Nat
  <2>1. ChainOK(row) /\ k \in 1..Len(row.calls)
    <3>1. Len(row.calls) \in 0..3
      BY ChainShape DEF RowOK
    <3> QED BY <3>1 DEF RowOK, Invocations
  <2>2. InputSize(row.calls[k]) \in Nat
    BY <2>1, SizeIsNat DEF ChainOK
  <2>3. \A j \in 1..3 : ResultOf(row, j) \in Results
    BY <2>1, ChainShape, NoResultIsOne DEF ResultOf, Calls
  <2>4. \A j \in 1..3 : ResultOf(row, j).input \in Nat /\ ResultOf(row, j).text \in Nat
    BY <2>3 DEF Results
  <2>5. /\ ResultOf(row, 1).input \in Nat /\ ResultOf(row, 2).input \in Nat
        /\ ResultOf(row, 3).input \in Nat /\ ResultOf(row, 1).text \in Nat
        /\ ResultOf(row, 2).text \in Nat /\ ResultOf(row, 3).text \in Nat
    BY <2>4
  <2>6. \A x, y, z \in Nat : x + y + z \in Nat
    OBVIOUS
  <2>7. InputSpent(row) \in Nat
    BY <2>5, <2>6, Zenon DEF InputSpent
  <2>8. OutputSpent(row) \in Nat
    BY <2>5, <2>6, Zenon DEF OutputSpent
  <2> QED BY <2>2, <2>7, <2>8
<1>13. res.cleanup \in Cleanups
  BY <1>6, <1>8
<1>14. res.input <= InputSize(row.calls[k])
  BY <1>6, <1>8, <1>11, <1>12
<1>15. InputSpent(row) + res.input <= InputLimit /\ OutputSpent(row) + res.text <= OutputLimit
  BY <1>6, <1>8, <1>11, <1>12, AllowanceAssumption
<1>16. res.outcome = "completed" => res.input = InputSize(row.calls[k]) /\ res.cleanup = "settled"
  BY <1>3, <1>8, <1>11, <1>6 DEF Cleanups
<1> QED BY <1>3, <1>4, <1>8, <1>9, <1>10, <1>14, <1>15, <1>16

\* The chain with a result more: only that invocation changes.
LEMMA StoredGood ==
  ASSUME RowOK, NEW k \in Invocations, k <= Len(row.calls), NEW report \in Reports,
         row.calls[k].state = "claimed", ReportCode(k, report) = "ok",
         NEW n, n = StoreOutcome(k, report)
  PROVE  /\ ChainOK(n) /\ Len(row.calls) = k /\ Len(n.calls) = k /\ n.status = row.status
         /\ n.ended = row.ended /\ n.reply = row.reply
         /\ n.calls[k].result = ResultFrom(k, report) /\ n.calls[k].result # NoResult
         /\ n.calls[k].state = OutcomeState(ParsedAs(report), n.calls[k].result.outcome, report.cleanup)
         /\ \A j \in 1..k : j # k => n.calls[j] = row.calls[j]
<1>1. row \in Runs /\ ChainOK(row) /\ StatusOK(row)
  BY DEF RowOK, ChainOK
<1>2. Len(row.calls) \in 0..3 /\ k \in 1..Len(row.calls)
  <2>1. Len(row.calls) \in 0..3
    BY <1>1, ChainShape
  <2> QED BY <2>1 DEF Invocations
<1>3. row.calls \in Seq(Calls) /\ row.calls[k] \in Calls /\ CallOK(row.calls[k])
  BY <1>1, <1>2, ChainShape DEF ChainOK, Runs
<1>4. Len(row.calls) = k
  <2>1. ~(k < Len(row.calls))
    BY <1>1, <1>2 DEF ChainOK
  <2> QED BY <2>1, <1>2
<1>5. PICK res : res = ResultFrom(k, report)
  OBVIOUS
<1>6. /\ res \in Results /\ IsFiniteSet(res.reads) /\ res # NoResult /\ res.event = k
      /\ res.parsed = ParsedAs(report) /\ res.input = report.input /\ res.text = report.text
      /\ (res.outcome = "completed") <=> (res.parsed # "none")
      /\ res.input <= InputSize(row.calls[k])
      /\ res.outcome = "completed" =>
           res.input = InputSize(row.calls[k]) /\ res.cleanup = "settled"
      /\ res.cleanup = report.cleanup
      /\ InputSpent(row) + res.input <= InputLimit /\ OutputSpent(row) + res.text <= OutputLimit
  BY <1>5, ResultGood
<1>7. PICK st : st = OutcomeState(res.parsed, res.outcome, res.cleanup)
  OBVIOUS
<1>8. st \in States /\ st \notin {"prepared", "claimed"}
  BY <1>7 DEF OutcomeState, States
<1>9. n = [row EXCEPT !.calls[k].state = st, !.calls[k].result = res]
  <2>1. res.outcome = (IF report.status = "completed" /\ ParsedAs(report) = "none" THEN "failed"
                       ELSE report.status)
    BY <1>5 DEF ResultFrom
  <2>2. n = [row EXCEPT !.calls[k].state = OutcomeState(ParsedAs(report), res.outcome, report.cleanup),
                        !.calls[k].result = ResultFrom(k, report)]
    BY <2>1, Zenon DEF StoreOutcome, ResultFrom
  <2> QED BY <2>2, <1>5, <1>6, <1>7, Zenon
<1> DEFINE c == [row.calls[k] EXCEPT !.state = st, !.result = res]
           s == [row.calls EXCEPT ![k] = c]
<1>10. n = [row EXCEPT !.calls = s]
  BY <1>9, ZenonT(60)
<1>11. /\ c \in Calls /\ c.result = res /\ c.exchanges = row.calls[k].exchanges /\ c.state = st
  BY <1>3, <1>6, <1>8 DEF Calls
<1>12. InputSize(c) = InputSize(row.calls[k])
  BY <1>11 DEF InputSize
<1>13. CallOK(c)
  <2>1. ResultOK(c)
    BY <1>6, <1>7, <1>11, <1>12 DEF ResultOK
  <2> QED BY <2>1, <1>3, <1>6, <1>8, <1>11 DEF CallOK
<1> HIDE DEF c
<1>14. s \in Seq(Calls) /\ Len(s) = k /\ (\A j \in 1..k : s[j] = IF j = k THEN c ELSE row.calls[j])
  BY <1>2, <1>3, <1>4, <1>11, ExceptSeq
<1> HIDE DEF s
<1>15. n \in Runs /\ n.calls = s /\ n.reads = row.reads /\ n.status = row.status
       /\ n.ended = row.ended /\ n.reply = row.reply
  BY <1>1, <1>10, <1>14 DEF Runs
<1>16. n.calls[k] = c /\ (\A j \in 1..k : j # k => n.calls[j] = row.calls[j])
  BY <1>2, <1>4, <1>14, <1>15
<1>17. InputSpent(n) = InputSpent(row) + res.input /\ OutputSpent(n) = OutputSpent(row) + res.text
  <2>1. DOMAIN n.calls = 1..k /\ DOMAIN row.calls = 1..k
    BY <1>14, <1>15, <1>1, <1>4, ChainShape, LenProperties
  <2>2. row.calls[k].result = NoResult
    BY <1>3 DEF CallOK
  <2>3. ResultOf(n, k) = res /\ ResultOf(row, k) = NoResult
    BY <2>1, <2>2, <1>2, <1>4, <1>11, <1>16 DEF ResultOf
  <2>4. \A j \in 1..3 : j # k => ResultOf(n, j) = ResultOf(row, j)
    BY <2>1, <1>16 DEF ResultOf
  <2>5. \A j \in 1..3 : ResultOf(row, j) \in Results
    BY <1>1, ChainShape, NoResultIsOne DEF ResultOf, Calls
  <2>6. \A j \in 1..3 : ResultOf(row, j).input \in Nat /\ ResultOf(row, j).text \in Nat
    BY <2>5 DEF Results
  <2>7. res.input \in Nat /\ res.text \in Nat /\ NoResult.input = 0 /\ NoResult.text = 0
    BY <1>6 DEF Results, NoResult
  <2>8. ResultOf(row, k).input = 0 /\ ResultOf(row, k).text = 0
    BY <2>3, <2>7
  <2>9. k = 1 \/ k = 2 \/ k = 3
    BY DEF Invocations
  <2>10. PICK x, y : /\ x = [j \in 1..3 |-> ResultOf(row, j).input]
                     /\ y = [j \in 1..3 |-> ResultOf(row, j).text]
    OBVIOUS
  <2>11. /\ x[1] \in Nat /\ x[2] \in Nat /\ x[3] \in Nat
         /\ y[1] \in Nat /\ y[2] \in Nat /\ y[3] \in Nat
         /\ InputSpent(row) = x[1] + x[2] + x[3] /\ OutputSpent(row) = y[1] + y[2] + y[3]
    BY <2>6, <2>10 DEF InputSpent, OutputSpent
  <2>12. \A j \in 1..3 : /\ ResultOf(n, j).input = IF j = k THEN res.input ELSE x[j]
                         /\ ResultOf(n, j).text = IF j = k THEN res.text ELSE y[j]
    BY <2>3, <2>4, <2>10
  <2>13. x[k] = 0 /\ y[k] = 0
    BY <2>8, <2>10, <2>9
  <2>14. /\ InputSpent(n) = (IF k = 1 THEN res.input ELSE x[1]) + (IF k = 2 THEN res.input ELSE x[2])
                            + (IF k = 3 THEN res.input ELSE x[3])
         /\ OutputSpent(n) = (IF k = 1 THEN res.text ELSE y[1]) + (IF k = 2 THEN res.text ELSE y[2])
                            + (IF k = 3 THEN res.text ELSE y[3])
    BY <2>12 DEF InputSpent, OutputSpent
  <2>15. CASE k = 1
    BY <2>15, <2>7, <2>11, <2>13, <2>14, SMTT(40)
  <2>16. CASE k = 2
    BY <2>16, <2>7, <2>11, <2>13, <2>14, SMTT(40)
  <2>17. CASE k = 3
    BY <2>17, <2>7, <2>11, <2>13, <2>14, SMTT(40)
  <2> QED BY <2>9, <2>15, <2>16, <2>17
<1>18. \A j \in 1..k : j > 1 => n.calls[j].exchanges = ReadsThrough(n, j - 1)
  <2>1. ASSUME NEW j \in 1..k, j > 1
        PROVE  n.calls[j].exchanges = ReadsThrough(n, j - 1)
    <3>1. j - 1 \in Nat /\ (\A i \in 1..(j - 1) : i \in 1..k /\ i # k)
      BY <2>1 DEF Invocations
    <3>2. ReadsThrough(n, j - 1) = ReadsThrough(row, j - 1)
      BY <3>1, <1>16, SameReads
    <3>3. n.calls[j].exchanges = row.calls[j].exchanges
      BY <1>11, <1>16
    <3> QED BY <3>2, <3>3, <2>1, <1>1, <1>4 DEF ChainOK
  <2> QED BY <2>1
<1>19. \A read \in n.reads : /\ read[1] < k
                             /\ read[2] \in n.calls[read[1]].result.reads
  <2> SUFFICES ASSUME NEW read \in row.reads
               PROVE  read[1] < k /\ read[2] \in n.calls[read[1]].result.reads
    BY <1>15
  <2>1. read[1] < k /\ read[2] \in row.calls[read[1]].result.reads
    BY <1>1, <1>4 DEF ChainOK
  <2>2. read[1] \in 1..3
    BY <1>1 DEF Runs, Invocations
  <2>3. read[1] \in 1..k /\ read[1] # k
    BY <2>1, <2>2 DEF Invocations
  <2> QED BY <2>1, <2>3, <1>16
<1>20. \A j \in 1..k : CallOK(n.calls[j]) /\ (j < k => n.calls[j].state = "needs_context")
  <2>1. \A j \in 1..k : CallOK(row.calls[j]) /\ (j < k => row.calls[j].state = "needs_context")
    BY <1>1, <1>4 DEF ChainOK
  <2>2. ASSUME NEW j \in 1..k
        PROVE  CallOK(n.calls[j]) /\ (j < k => n.calls[j].state = "needs_context")
    <3>1. CASE j = k
      <4>1. ~(j < k)
        BY <3>1 DEF Invocations
      <4> QED BY <3>1, <4>1, <1>13, <1>16
    <3>2. CASE j # k
      BY <3>2, <2>1, <1>16
    <3> QED BY <3>1, <3>2
  <2> QED BY <2>2
<1>21. Len(n.calls) = k /\ k <= 3
  BY <1>14, <1>15, <1>2, <1>4
<1>22. InputSpent(n) <= InputLimit /\ OutputSpent(n) <= OutputLimit
  BY <1>6, <1>17
<1>23. ChainOK(n)
  BY <1>15, <1>18, <1>19, <1>20, <1>21, <1>22 DEF ChainOK
<1>24. n.calls[k].result = res /\ n.calls[k].state = st
  BY <1>11, <1>16
<1> QED BY <1>4, <1>5, <1>6, <1>7, <1>15, <1>16, <1>21, <1>23, <1>24

\* A first result that lets the run go on, ends it with its answer, or ends it.
LEMMA SettledGood ==
  ASSUME RowOK, NEW k \in Invocations, k <= Len(row.calls), NEW report \in Reports,
         row.status \in {"running", "stopping"}, row.calls[k].state = "claimed",
         ReportCode(k, report) = "ok", NEW n, n = Settled(k, report)
  PROVE  /\ Good(n) /\ Keeps(row, n) /\ Len(n.calls) = k /\ Len(row.calls) = k
         /\ n.status \in Active => n.status = "running" /\ n.calls[k].state = "needs_context"
<1> DEFINE stored == StoreOutcome(k, report)
           sealed == [stored EXCEPT !.ended = <<"finish", k>>]
<1>1. /\ ChainOK(stored) /\ Len(row.calls) = k /\ Len(stored.calls) = k
      /\ stored.status = row.status /\ stored.ended = row.ended /\ stored.reply = row.reply
      /\ stored.calls[k].result = ResultFrom(k, report) /\ stored.calls[k].result # NoResult
      /\ stored.calls[k].state =
           OutcomeState(ParsedAs(report), stored.calls[k].result.outcome, report.cleanup)
      /\ \A j \in 1..k : j # k => stored.calls[j] = row.calls[j]
  BY StoredGood
<1>2. n = IF ParsedAs(report) # "none" /\ row.status = "running"
          THEN IF ParsedAs(report) = "discussion"
               THEN [sealed EXCEPT !.status = "completed", !.reply = k] ELSE stored
          ELSE [MarkChainStopped(sealed) EXCEPT !.status = EndingOf(report), !.reply = 1]
  BY DEF Settled
<1> HIDE DEF stored
<1>3. ChainOK(row) /\ StatusOK(row)
  BY DEF RowOK
<1>4. k \in 1..3 /\ k \in 1..k /\ k >= 1
  <2>1. k \in 1..3
    BY DEF Invocations
  <2> QED BY <2>1
<1>5. \A j \in 1..k : j # k => j < k
  BY <1>4
<1>6. \A j \in 1..k : j # k => stored.calls[j].state = "needs_context"
                               /\ stored.calls[j].result.parsed = "needs"
  <2>1. \A j \in 1..k : j # k => CallOK(stored.calls[j]) /\ stored.calls[j].state = "needs_context"
    BY <1>1, <1>5 DEF ChainOK
  <2> QED BY <2>1, NeedsAsked
<1>7. CallOK(row.calls[k])
  BY <1>1, <1>3, <1>4 DEF ChainOK
<1>8. row.calls[k].result = NoResult
  BY <1>7 DEF CallOK
<1>9. stored.calls[k].result.parsed = ParsedAs(report) /\ ParsedAs(report) \in Parses
  BY <1>1 DEF ResultFrom, ParsedAs, Reports, Parses
<1>10. stored.calls[k].state \notin {"prepared", "claimed"}
  BY <1>1 DEF OutcomeState
<1>11. \A j \in 1..k : row.calls[j].result # NoResult => stored.calls[j].result = row.calls[j].result
  BY <1>1, <1>8
<1>12. \A j \in 1..k : stored.calls[j].state \notin {"prepared", "claimed"}
  BY <1>6, <1>10
<1>13. row.status \notin Terminal /\ row.status \notin {"absent", "queued"}
  BY DEF Terminal
<1>14. /\ sealed \in Runs /\ sealed.calls = stored.calls /\ sealed.reads = stored.reads
       /\ sealed.ended = <<"finish", k>> /\ sealed.status = row.status
  <2>1. PICK e : e = <<"finish", k>>
    OBVIOUS
  <2>2. e \in Ends
    <3>1. \A i \in 0..3 : <<"finish", i>> \in Ends
      BY DEF Ends
    <3>2. k \in 0..3
      BY <1>4
    <3> QED BY <2>1, <3>1, <3>2
  <2>3. sealed = [stored EXCEPT !.ended = e]
    BY <2>1
  <2>4. stored \in Runs
    BY <1>1 DEF ChainOK
  <2> HIDE DEF sealed
  <2> QED BY <1>1, <2>1, <2>2, <2>3, <2>4 DEF Runs
<1>15. ChainOK(sealed)
  BY <1>1, <1>14, SealedChain
<1> HIDE DEF sealed
<1>16. CASE ParsedAs(report) = "needs" /\ row.status = "running"
  <2>1. n = stored
    BY <1>16, <1>2
  <2>2. stored.calls[k].state = "needs_context"
    BY <1>16, <1>1 DEF OutcomeState
  <2>3. StatusOK(n)
    BY <2>1, <2>2, <1>1, <1>4, <1>6, <1>16 DEF StatusOK, Terminal
  <2>4. Keeps(row, n)
    <3>1. Len(row.calls) <= Len(n.calls)
      BY <1>1, <1>4, <2>1
    <3> QED BY <3>1, <2>1, <1>1, <1>11, <1>12, <1>13, <1>16 DEF Keeps
  <2> QED BY <2>1, <2>2, <2>3, <2>4, <1>1, <1>16 DEF Good
<1>17. CASE ParsedAs(report) = "discussion" /\ row.status = "running"
  <2>1. n = [sealed EXCEPT !.status = "completed", !.reply = k]
    BY <1>17, <1>2
  <2>2. /\ n \in Runs /\ n.calls = stored.calls /\ n.reads = stored.reads
        /\ n.status = "completed" /\ n.ended = <<"finish", k>> /\ n.reply = k
    <3>1. "completed" \in Statuses /\ k \in 0..3
      BY <1>4 DEF Statuses, Terminal
    <3> QED BY <3>1, <2>1, <1>14 DEF Runs
  <2>3. ChainOK(n)
    BY <1>1, <2>2, SealedChain
  <2>4. StatusOK(n)
    <3>1. \A j \in 1..k : n.calls[j].result # NoResult /\ n.calls[j].state # "needs_context" => j = k
      BY <1>6, <2>2
    <3>2. \A j \in 1..k : n.calls[j].state # "claimed"
      BY <1>12, <2>2
    <3>3. n.ended # <<"none", 0>> /\ n.calls[k].result.parsed = "discussion"
      BY <2>2, <1>9, <1>17
    <3>4. Len(n.calls) = k
      BY <1>1, <2>2
    <3> QED BY <3>1, <3>2, <3>3, <3>4, <1>4, <2>2 DEF StatusOK, Terminal
  <2>5. Keeps(row, n)
    <3>1. Len(row.calls) <= Len(n.calls)
      BY <1>1, <1>4, <2>2
    <3> QED BY <3>1, <2>2, <1>1, <1>11, <1>12, <1>13, <1>17 DEF Keeps
  <2>6. n.status \notin Active
    BY <2>2 DEF Active
  <2> QED BY <2>2, <2>3, <2>4, <2>5, <2>6, <1>1 DEF Good
<1>18. CASE ~(ParsedAs(report) # "none" /\ row.status = "running")
  <2> DEFINE marked == MarkChainStopped(sealed)
  <2>1. n = [marked EXCEPT !.status = EndingOf(report), !.reply = 1]
    BY <1>18, <1>2
  <2>2. /\ ChainOK(marked) /\ Len(marked.calls) = k /\ marked = [sealed EXCEPT !.calls = marked.calls]
        /\ \A j \in 1..k : /\ marked.calls[j].result = stored.calls[j].result
                           /\ marked.calls[j].state = StoppedState(stored.calls[j].state)
    BY <1>1, <1>14, <1>15, StoppedChain
  <2> HIDE DEF marked
  <2>3. marked \in Runs /\ marked.ended = <<"finish", k>>
    <3>1. marked.ended = sealed.ended
      BY <2>2, <1>14 DEF Runs
    <3> QED BY <3>1, <2>2, <1>14 DEF ChainOK
  <2>4. EndingOf(report) \in {"interrupted", "stopped", "failed"}
    BY DEF EndingOf
  <2>5. /\ n \in Runs /\ n.calls = marked.calls /\ n.reads = marked.reads
        /\ n.status = EndingOf(report) /\ n.ended = <<"finish", k>> /\ n.reply = 1
    <3>1. EndingOf(report) \in Statuses /\ 1 \in 0..3
      BY <2>4 DEF Statuses, Terminal
    <3> QED BY <3>1, <2>1, <2>3 DEF Runs
  <2>6. ChainOK(n)
    BY <2>2, <2>5, SealedChain
  <2>7. \A j \in 1..k : n.calls[j].result = stored.calls[j].result
                        /\ n.calls[j].state = stored.calls[j].state
    BY <2>2, <2>5, <1>12 DEF StoppedState
  <2>8. ParsedAs(report) = "discussion" => EndingOf(report) = "stopped"
    <3>1. ~(report.status = "completed" /\ report.cleanup = "unresolved")
      BY DEF ReportCode
    <3>2. ParsedAs(report) = "discussion" => report.status = "completed"
      BY DEF ParsedAs
    <3> QED BY <3>1, <3>2 DEF EndingOf
  <2>9. StatusOK(n)
    <3>1. \A j \in 1..k : n.calls[j].result # NoResult /\ n.calls[j].state # "needs_context" => j = k
      BY <1>6, <2>7
    <3>2. \A j \in 1..k : n.calls[j].state # "claimed"
      BY <1>12, <2>7
    <3>3. \A j \in 1..k : n.calls[j].result.parsed = "discussion" => n.status = "stopped"
      BY <1>6, <1>9, <2>5, <2>7, <2>8
    <3>4. Len(n.calls) = k /\ n.ended # <<"none", 0>>
      BY <2>2, <2>5
    <3>5. n.status \in Terminal /\ n.status \notin {"absent", "queued", "completed"}
      BY <2>4, <2>5 DEF Terminal
    <3> QED BY <3>1, <3>2, <3>3, <3>4, <3>5, <1>4, <2>5 DEF StatusOK
  <2>10. Keeps(row, n)
    <3>1. Len(row.calls) <= Len(n.calls)
      BY <1>1, <1>4, <2>2, <2>5
    <3> QED BY <3>1, <2>4, <2>5, <2>7, <1>1, <1>11, <1>12, <1>13 DEF Keeps
  <2>11. n.status \notin Active
    BY <2>4, <2>5 DEF Active
  <2> QED BY <2>2, <2>5, <2>6, <2>9, <2>10, <2>11, <1>1 DEF Good
<1> QED BY <1>9, <1>16, <1>17, <1>18 DEF Parses

\* settle_lookup_invocation.
LEMMA SettleGood ==
  ASSUME RowOK, NEW k \in Invocations, k <= Len(row.calls), NEW report \in Reports,
         NEW o \in SettleInvocation(k, report), row.status \notin {"absent", "queued"}
  PROVE  /\ Good(o.row) /\ Keeps(row, o.row) /\ Len(o.row.calls) = Len(row.calls)
         /\ o.code = "ok" /\ o.row.status \in Active =>
              o.row.status \in {"running", "stopping"} /\ o.row.calls[k].state = "needs_context"
         /\ o.code \notin {"ok", "UncertainOutcome"} => o.row = row
<1>1. Len(row.calls) \in 0..3 /\ k \in 1..Len(row.calls)
  <2>1. Len(row.calls) \in 0..3
    BY ChainShape DEF RowOK
  <2> QED BY <2>1 DEF Invocations
<1>2. ASSUME row.calls[k].result # NoResult, row.status \in Active
      PROVE  row.status \in {"running", "stopping"} /\ row.calls[k].state = "needs_context"
  <2>1. row.status \notin Terminal /\ row.status \in {"running", "stopping"}
    BY <1>2 DEF Active, Terminal
  <2> QED BY <2>1, <1>1, <1>2, OpenResults DEF Good, RowOK
<1>3. CASE row.calls[k].result # NoResult
  <2>1. o.row = row
    BY <1>3 DEF SettleInvocation, Committed, Refused
  <2> QED BY <1>2, <1>3, <2>1, SelfKeeps
<1>4. CASE /\ row.calls[k].result = NoResult
           /\ \/ row.status \notin {"running", "stopping"}
              \/ row.calls[k].state # "claimed"
              \/ ReportCode(k, report) # "ok"
  <2>1. o.row = row /\ o.code # "ok"
    BY <1>4 DEF SettleInvocation, Refused, ReportCode
  <2> QED BY <2>1, SelfKeeps
<1>5. CASE /\ row.calls[k].result = NoResult /\ row.status \in {"running", "stopping"}
           /\ row.calls[k].state = "claimed" /\ ReportCode(k, report) = "ok"
  <2> DEFINE n == Settled(k, report)
  <2>1. /\ Good(n) /\ Keeps(row, n) /\ Len(n.calls) = k /\ Len(row.calls) = k
        /\ n.status \in Active => n.status = "running" /\ n.calls[k].state = "needs_context"
    BY <1>5, SettledGood
  <2>2. o \in Committed(row, n, "ok")
    BY <1>5 DEF SettleInvocation
  <2> HIDE DEF n
  <2>3. Good(o.row) /\ Keeps(row, o.row)
    BY <2>1, <2>2, OutcomesOf
  <2>4. o.row \in {n, row} /\ (o.code = "ok" => o.row = n) /\ o.code \in {"ok", "UncertainOutcome"}
    BY <2>2 DEF Committed
  <2> QED BY <2>1, <2>3, <2>4
<1> QED BY <1>3, <1>4, <1>5

\* A retained report can be settled, or is known to be impossible.
LEMMA ReportCanSettle ==
  ASSUME NEW k, NEW report, row.status \in {"running", "stopping"}
  PROVE  \E o \in SettleInvocation(k, report) : o.code = "ok" \/ Rejected(o.code)
<1>1. ReportCode(k, report) # "ok" => Rejected(ReportCode(k, report))
  BY DEF ReportCode, Rejected
<1>2. \A n, c : c \in {"ok"} => \E o \in Committed(row, n, c) : o.code = "ok"
  BY DEF Committed
<1>3. \A c : Rejected(c) => \E o \in Refused(row, c) : Rejected(o.code)
  BY DEF Refused
<1>4. Rejected("LookupResultConflict") /\ Rejected("LookupInvocationNotClaimed")
  BY DEF Rejected
<1> QED BY <1>1, <1>2, <1>3, <1>4 DEF SettleInvocation

\* advance_lookup: the reads a response asked for and the next invocation.
LEMMA ExpandedGood ==
  ASSUME RowOK, NEW k, k = Len(row.calls), k \in Invocations, k < 3, row.status = "running",
         row.calls[k].state = "needs_context",
         NEW n, n = [StoreReads(k) EXCEPT !.calls = Append(@, Prepared(ReadsThrough(row, k)))]
  PROVE  /\ Good(n) /\ Keeps(row, n) /\ n.status = "running"
         /\ Len(n.calls) = k + 1 /\ n.calls[k + 1].state = "prepared"
<1> DEFINE c == Prepared(ReadsThrough(row, k))
           s == Append(row.calls, c)
           new == {<<k, id>> : id \in row.calls[k].result.reads}
<1>1. row \in Runs /\ ChainOK(row) /\ StatusOK(row)
  BY DEF RowOK, ChainOK
<1>2. k \in {1, 2} /\ k \in Nat /\ k \in 0..k /\ k \in 1..k
  <2>1. k \in {1, 2}
    BY SMTT(40) DEF Invocations
  <2>2. \A i \in {1, 2} : i \in Nat /\ i \in 0..i /\ i \in 1..i
    OBVIOUS
  <2> QED BY <2>1, <2>2
<1>3. /\ row.calls \in Seq(Calls) /\ (\A j \in 1..k : row.calls[j] \in Calls /\ CallOK(row.calls[j]))
      /\ DOMAIN row.calls = 1..k
  BY <1>1, ChainShape DEF ChainOK, Runs
<1>4. ReadsThrough(row, k) \subseteq Reads /\ IsFiniteSet(ReadsThrough(row, k))
  BY <1>1, <1>2, ReadsTyped
<1>5. /\ c \in Calls /\ CallOK(c) /\ c.state = "prepared" /\ c.result = NoResult
      /\ c.exchanges = ReadsThrough(row, k)
  BY <1>4, NoResultIsOne DEF Prepared, Calls, CallOK, States
<1> HIDE DEF c
<1>6. /\ s \in Seq(Calls) /\ Len(s) = k + 1 /\ s[k + 1] = c
      /\ \A j \in 1..k : s[j] = row.calls[j]
  <2>1. \A q \in Seq(Calls), e \in Calls :
          /\ Append(q, e) \in Seq(Calls) /\ Len(Append(q, e)) = Len(q) + 1
          /\ Append(q, e)[Len(q) + 1] = e /\ (\A j \in 1..Len(q) : Append(q, e)[j] = q[j])
    OBVIOUS
  <2> QED BY <2>1, <1>3, <1>5
<1>7. new \subseteq Invocations \X Reads
  BY <1>2, <1>3 DEF Calls, Results, Invocations
<1> HIDE DEF new
<1>8. n = [row EXCEPT !.reads = row.reads \cup new, !.calls = s]
  <2>1. n = [[row EXCEPT !.reads = row.reads \cup new] EXCEPT
                !.calls = Append([row EXCEPT !.reads = row.reads \cup new].calls, c)]
    BY Zenon DEF StoreReads, new, c
  <2>2. [row EXCEPT !.reads = row.reads \cup new].calls = row.calls
    BY <1>1 DEF Runs
  <2> QED BY <2>1, <2>2, <1>1 DEF Runs
<1> HIDE DEF s
<1>9. /\ n \in Runs /\ n.calls = s /\ n.reads = row.reads \cup new /\ n.status = "running"
  <2>1. row.reads \cup new \in SUBSET (Invocations \X Reads)
    BY <1>1, <1>7 DEF Runs
  <2> QED BY <1>1, <1>6, <1>8, <2>1 DEF Runs
<1>10. Len(n.calls) = k + 1 /\ n.calls[k + 1] = c /\ (\A j \in 1..k : n.calls[j] = row.calls[j])
  BY <1>6, <1>9
<1>11. \A j \in 1..(k + 1) : j \in 1..k \/ j = k + 1
  BY <1>2
<1>12. \A j \in 1..(k + 1) : CallOK(n.calls[j])
  BY <1>3, <1>5, <1>10, <1>11
<1>13. \A j \in 1..(k + 1) : j < k + 1 => n.calls[j].state = "needs_context"
  <2>1. \A j \in 1..k : row.calls[j].state = "needs_context"
    <3>1. ASSUME NEW j \in 1..k
          PROVE  row.calls[j].state = "needs_context"
      <4>1. j = k \/ j < k
        BY <1>2
      <4> QED BY <4>1, <1>1 DEF ChainOK
    <3> QED BY <3>1
  <2>2. ~(k + 1 < k + 1)
    BY <1>2
  <2> QED BY <2>1, <2>2, <1>10, <1>11
<1>14. \A j \in 1..(k + 1) : j > 1 => n.calls[j].exchanges = ReadsThrough(n, j - 1)
  <2>1. ASSUME NEW j \in 1..(k + 1), j > 1
        PROVE  n.calls[j].exchanges = ReadsThrough(n, j - 1)
    <3>1. j - 1 \in Nat /\ (\A i \in 1..(j - 1) : i \in 1..k)
      BY <2>1, <1>2
    <3>2. ReadsThrough(n, j - 1) = ReadsThrough(row, j - 1)
      <4>1. \A i \in 1..(j - 1) : n.calls[i].result = row.calls[i].result
        BY <3>1, <1>10
      <4> QED BY <3>1, <4>1, SameReads, ZenonT(60)
    <3>3. CASE j = k + 1
      <4>1. j - 1 = k
        BY <3>3, <1>2
      <4>2. n.calls[j].exchanges = ReadsThrough(row, k)
        BY <3>3, <1>5, <1>10
      <4> QED BY <4>1, <4>2, <3>2
    <3>4. CASE j \in 1..k
      BY <3>4, <3>2, <2>1, <1>1, <1>10 DEF ChainOK
    <3> QED BY <3>3, <3>4, <1>11
  <2> QED BY <2>1
<1>15. InputSpent(n) = InputSpent(row) /\ OutputSpent(n) = OutputSpent(row)
  <2>1. DOMAIN n.calls = 1..(k + 1)
    BY <1>6, <1>9, LenProperties
  <2>2. \A j \in 1..3 : ResultOf(n, j) = ResultOf(row, j)
    <3>1. ASSUME NEW j \in 1..3
          PROVE  ResultOf(n, j) = ResultOf(row, j)
      <4>1. j \in 1..k \/ j = k + 1 \/ j \notin 1..(k + 1)
        BY <1>11
      <4>2. CASE j \in 1..k
        <5>1. j \in 1..(k + 1)
          BY <4>2, <1>2
        <5> QED BY <5>1, <4>2, <2>1, <1>3, <1>10 DEF ResultOf
      <4>3. CASE j = k + 1
        <5>1. j \in 1..(k + 1) /\ j \notin 1..k
          BY <4>3, <1>2
        <5> QED BY <5>1, <4>3, <2>1, <1>3, <1>5, <1>10 DEF ResultOf
      <4>4. CASE j \notin 1..(k + 1)
        <5>1. j \notin 1..k
          BY <4>4, <1>2
        <5> QED BY <5>1, <4>4, <2>1, <1>3 DEF ResultOf
      <4> QED BY <4>1, <4>2, <4>3, <4>4
    <3> QED BY <3>1
  <2> QED BY <2>2 DEF InputSpent, OutputSpent
<1>16. \A read \in n.reads : /\ read[1] < k + 1
                             /\ read[2] \in n.calls[read[1]].result.reads
  <2>1. ASSUME NEW read \in row.reads
        PROVE  read[1] < k + 1 /\ read[2] \in n.calls[read[1]].result.reads
    <3>1. read[1] < k /\ read[2] \in row.calls[read[1]].result.reads
      BY <1>1 DEF ChainOK
    <3>2. read[1] \in 1..3
      BY <1>1 DEF Runs, Invocations
    <3>3. read[1] \in 1..k /\ read[1] < k + 1
      BY <3>1, <3>2, <1>2
    <3> QED BY <3>1, <3>3, <1>10
  <2>2. ASSUME NEW read \in new
        PROVE  read[1] < k + 1 /\ read[2] \in n.calls[read[1]].result.reads
    <3>1. read[1] = k /\ read[2] \in row.calls[k].result.reads
      BY DEF new
    <3>2. k < k + 1
      BY <1>2
    <3> QED BY <3>1, <3>2, <1>2, <1>10
  <2> QED BY <2>1, <2>2, <1>9
<1>17. ChainOK(n)
  <2>1. InputSpent(n) <= InputLimit /\ OutputSpent(n) <= OutputLimit
    BY <1>1, <1>15 DEF ChainOK
  <2>2. k + 1 <= 3
    BY <1>2
  <2> QED BY <2>1, <2>2, <1>9, <1>10, <1>12, <1>13, <1>14, <1>16 DEF ChainOK
<1>18. StatusOK(n)
  <2>1. \A j \in 1..(k + 1) : n.calls[j].state \in {"prepared", "claimed", "needs_context"}
    <3>1. \A j \in 1..k : row.calls[j].state \in {"prepared", "claimed", "needs_context"}
      BY <1>1 DEF StatusOK, Terminal
    <3> QED BY <3>1, <1>5, <1>10, <1>11
  <2>2. k + 1 >= 1
    BY <1>2
  <2> QED BY <2>1, <2>2, <1>9, <1>10 DEF StatusOK, Terminal
<1>19. Keeps(row, n)
  <2>1. k <= k + 1
    BY <1>2
  <2> QED BY <2>1, <1>9, <1>10 DEF Keeps, Terminal
<1> QED BY <1>5, <1>9, <1>10, <1>17, <1>18, <1>19 DEF Good

\* Appending the next invocation keeps the row good.
LEMMA AdvanceGood ==
  ASSUME RowOK, NEW k, k = Len(row.calls), k \in Invocations, row.status \notin {"absent", "queued"},
         NEW o \in AdvanceLookup(k)
  PROVE  /\ Good(o.row) /\ Keeps(row, o.row)
         /\ o.code = "ok" => /\ o.row.status = "running" /\ Len(o.row.calls) = k + 1
                             /\ o.row.calls[k + 1].state = "prepared" /\ k + 1 \in Invocations
         /\ o.code = "finished" => o.row.status \in Terminal
<1>1. \A code \in {"limit", "stale"} :
        LET n == MarkChainStopped(SealRun("failed", <<code, k>>))
        IN  row.status = "running" => Good(n) /\ Keeps(row, n) /\ n.status \in Terminal
  <2> SUFFICES ASSUME NEW code \in {"limit", "stale"}, row.status = "running",
                      NEW n, n = MarkChainStopped(SealRun("failed", <<code, k>>))
               PROVE  Good(n) /\ Keeps(row, n) /\ n.status \in Terminal
    BY Zenon
  <2>1. <<code, k>> \in Ends /\ <<code, k>> # <<"none", 0>> /\ <<code, k>>[1] # "finish"
    <3>1. \A i \in 0..3 : \A w \in {"limit", "stale"} :
            <<w, i>> \in Ends /\ <<w, i>> # <<"none", 0>> /\ <<w, i>>[1] # "finish"
      BY DEF Ends
    <3>2. k \in 0..3
      BY DEF Invocations
    <3> QED BY <3>1, <3>2
  <2>2. row.status \notin Terminal \cup {"absent"}
    BY DEF Terminal
  <2> QED BY <2>1, <2>2, SealedAndStopped DEF Terminal
<1>2. CASE row.status # "running" \/ row.calls[k].state # "needs_context"
  <2>1. o.row = row /\ o.code \notin {"ok", "finished"}
    BY <1>2 DEF AdvanceLookup, Refused
  <2> QED BY <2>1, SelfKeeps
<1>3. ASSUME row.status = "running", NEW code \in {"limit", "stale"},
             o \in Committed(row, MarkChainStopped(SealRun("failed", <<code, k>>)), "finished")
      PROVE  Good(o.row) /\ Keeps(row, o.row) /\ o.code # "ok"
             /\ (o.code = "finished" => o.row.status \in Terminal)
  <2> DEFINE n == MarkChainStopped(SealRun("failed", <<code, k>>))
  <2>1. Good(n) /\ Keeps(row, n) /\ n.status \in Terminal
    BY <1>1, <1>3
  <2>2. o \in Committed(row, n, "finished")
    BY <1>3
  <2> HIDE DEF n
  <2>3. Good(o.row) /\ Keeps(row, o.row)
    BY <2>1, <2>2, OutcomesOf
  <2> QED BY <2>1, <2>2, <2>3 DEF Committed
<1>4. CASE row.status = "running" /\ row.calls[k].state = "needs_context"
  <2>1. CASE k > MaxAdditional + 1 \/ k >= 3
    BY <2>1, <1>4, <1>3 DEF AdvanceLookup
  <2>2. CASE ~(k > MaxAdditional + 1 \/ k >= 3) /\ row.epoch # project.epoch
    BY <2>2, <1>4, <1>3 DEF AdvanceLookup
  <2>3. CASE ~(k > MaxAdditional + 1 \/ k >= 3) /\ row.epoch = project.epoch
    <3> DEFINE n == [StoreReads(k) EXCEPT !.calls = Append(@, Prepared(ReadsThrough(row, k)))]
    <3>1. k < 3 /\ k + 1 \in Invocations
      BY <2>3 DEF Invocations
    <3>2. /\ Good(n) /\ Keeps(row, n) /\ n.status = "running"
          /\ Len(n.calls) = k + 1 /\ n.calls[k + 1].state = "prepared"
      BY <3>1, <1>4, ExpandedGood
    <3>3. o \in Refused(row, "InvalidContextPacket") \/ o \in Committed(row, n, "ok")
      BY <2>3, <1>4 DEF AdvanceLookup
    <3> HIDE DEF n
    <3>4. CASE o \in Refused(row, "InvalidContextPacket")
      <4>1. Good(o.row) /\ Keeps(row, o.row) /\ o.code = "InvalidContextPacket"
        BY <3>4, RefusedIsNothing
      <4> QED BY <4>1
    <3>5. CASE o \in Committed(row, n, "ok")
      <4>1. Good(o.row) /\ Keeps(row, o.row)
        BY <3>2, <3>5, OutcomesOf
      <4>2. o.code \in {"ok", "UncertainOutcome"} /\ (o.code = "ok" => o.row = n)
        BY <3>5 DEF Committed
      <4> QED BY <4>1, <4>2, <3>1, <3>2
    <3> QED BY <3>3, <3>4, <3>5
  <2> QED BY <2>1, <2>2, <2>3
<1> QED BY <1>2, <1>4

-----------------------------------------------------------------------------
\* The threads.

PaidStep ==
    /\ \A k \in Invocations : sent'[k] # sent[k] =>
         /\ sent[k] = 0 /\ row.calls[k].state = "claimed"
         /\ \A i \in 1..(k - 1) : row.calls[i].result.parsed = "needs"
    /\ \A k \in DOMAIN row.calls : row.calls[k].result # NoResult =>
         k \in DOMAIN row'.calls /\ row'.calls[k].result = row.calls[k].result
    /\ row.status \in Terminal => row' = row
    /\ row.status = "stopping" => row'.status # "completed"

\* What a command that keeps the row means for the record of the calls.
LEMMA RowStep ==
  ASSUME Inv, Good(row'), Keeps(row, row'), sent' = sent
  PROVE  RowOK' /\ SentOK' /\ PaidStep /\ (Begun => Begun')
         /\ Len(row.calls) <= Len(row'.calls) /\ Len(row.calls) \in 0..3 /\ Len(row'.calls) \in 0..3
<1>1. Len(row.calls) \in 0..3 /\ DOMAIN row.calls = 1..Len(row.calls)
  BY ChainShape DEF Inv, RowOK
<1>2. Len(row'.calls) \in 0..3 /\ DOMAIN row'.calls = 1..Len(row'.calls)
  BY ChainShape DEF Good
<1>3. Len(row.calls) <= Len(row'.calls)
  BY DEF Keeps
<1>4. \A k \in 1..Len(row.calls) : k \in 1..Len(row'.calls)
  BY <1>1, <1>2, <1>3
<1>5. RowOK'
  BY DEF RowOK, Good
<1>6. SentOK'
  <2>1. sent' \in [Invocations -> Nat]
    BY DEF Inv, SentOK
  <2>2. ASSUME NEW k \in Invocations, sent'[k] > 0
        PROVE  k <= Len(row'.calls) /\ row'.calls[k].state # "prepared"
    <3>1. k <= Len(row.calls) /\ row.calls[k].state # "prepared"
      BY <2>2 DEF Inv, SentOK
    <3>2. k \in 1..Len(row.calls)
      BY <3>1, <1>1 DEF Invocations
    <3>3. k \in 1..Len(row'.calls)
      BY <3>2, <1>4
    <3>4. k <= Len(row'.calls)
      BY <3>3, <1>2
    <3> QED BY <3>1, <3>2, <3>4 DEF Keeps
  <2> QED BY <2>1, <2>2 DEF SentOK
<1>7. PaidStep
  <2>1. \A k \in DOMAIN row.calls : row.calls[k].result # NoResult =>
          k \in DOMAIN row'.calls /\ row'.calls[k].result = row.calls[k].result
    BY <1>1, <1>2, <1>4 DEF Keeps
  <2> QED BY <2>1 DEF PaidStep, Keeps
<1>8. Begun => Begun'
  BY DEF Begun, Keeps
<1> QED BY <1>1, <1>2, <1>3, <1>5, <1>6, <1>7, <1>8

\* A step that leaves the run alone.
LEMMA RowStands ==
  ASSUME Inv, row' = row, sent' = sent
  PROVE  RowOK' /\ SentOK' /\ PaidStep /\ (Begun => Begun')
         /\ Len(row.calls) <= Len(row'.calls) /\ Len(row.calls) \in 0..3 /\ Len(row'.calls) \in 0..3
<1>1. Good(row') /\ Keeps(row, row')
  BY SelfKeeps DEF Inv
<1> QED BY <1>1, RowStep

\* Performing a command writes its row, and may fence the project.
LEMMA DoProject ==
  ASSUME ProjectOK, NEW o, Do(o)
  PROVE  ProjectOK' /\ row' = o.row
<1>1. project' = project \/ project' = [project EXCEPT !.fenced = TRUE]
  BY DEF Do
<1>2. ProjectOK'
  BY <1>1 DEF ProjectOK
<1> QED BY <1>2 DEF Do

\* What reaching the actor may answer: the command's own outcomes, or a lost call.
LEMMA ReachIs ==
  ASSUME NEW S, NEW o \in Reach(S)
  PROVE  o \in S \/ o = [row |-> row, code |-> "PersistenceUnavailable"]
BY DEF Reach, Reached, Refused

\* The retained save and the retry after a step of neither.
LEMMA PendingKept ==
  ASSUME Inv, pending' = pending, retry' = retry, Begun => Begun',
         Len(row.calls) <= Len(row'.calls), Len(row.calls) \in 0..3, Len(row'.calls) \in 0..3,
         row.status # "absent" => row'.status # "absent",
         row.status \in Terminal => row' = row,
         row'.status \in {"running", "stopping"} => worker' # NoWorker \/ pending # NoSave
  PROVE  PendingOK'
<1>1. ASSUME NEW i \in Invocations, i <= Len(row.calls)
      PROVE  i <= Len(row'.calls)
  BY <1>1 DEF Invocations
<1>2. PendingOK
  BY DEF Inv
<1>3. pending = NoSave \/ pending = HaltSave
      \/ (/\ pending.kind = "report" /\ pending.report \in Reports
          /\ pending.report.ordinal <= Len(row'.calls) /\ Begun')
  <2>1. ASSUME pending.report \in Reports
        PROVE  pending.report.ordinal \in Invocations
    BY <2>1 DEF Reports
  <2> QED BY <1>1, <1>2, <2>1 DEF PendingOK
<1> QED BY <1>2, <1>3 DEF PendingOK

\* The author's start, stop and signal.
LEMMA StartInv == ASSUME Inv, Start PROVE Inv' /\ PaidStep
<1>1. PICK o \in Reach(StartLookup) : Do(o)
  BY DEF Start
<1>2. ProjectOK' /\ row' = o.row
  BY <1>1, DoProject DEF Inv
<1>3. RowOK /\ ProjectOK
  BY DEF Inv
<1>4. /\ Good(o.row) /\ Keeps(row, o.row) /\ (row # NoRun => o.row = row)
      /\ o.row.status \notin {"running", "stopping"} \/ o.row = row
  <2>1. CASE o \in StartLookup
    BY <2>1, <1>3, StartGood
  <2>2. CASE o = [row |-> row, code |-> "PersistenceUnavailable"]
    BY <2>2, <1>3, SelfKeeps
  <2> QED BY <2>1, <2>2, ReachIs
<1>5. /\ worker' = worker /\ pending' = pending /\ retry' = retry /\ sent' = sent
  BY DEF Start, deskVars
<1>6. /\ RowOK' /\ SentOK' /\ PaidStep /\ (Begun => Begun') /\ Len(row.calls) <= Len(row'.calls)
      /\ Len(row.calls) \in 0..3 /\ Len(row'.calls) \in 0..3
  BY <1>2, <1>4, <1>5, RowStep
<1>7. WorkerOK'
  <2>1. CASE row = NoRun
    <3>1. worker = NoWorker
      BY <2>1 DEF Inv, WorkerOK, Begun, NoRun
    <3> QED BY <3>1, <1>5 DEF WorkerOK
  <2>2. CASE row # NoRun
    <3>1. row' = row
      BY <2>2, <1>2, <1>4
    <3> QED BY <3>1, <1>5 DEF Inv, WorkerOK, Begun
  <2> QED BY <2>1, <2>2
<1>8. PendingOK'
  <2>1. row.status # "absent" => row'.status # "absent"
    BY <1>2, <1>4 DEF Keeps
  <2>2. row.status \in Terminal => row' = row
    BY <1>2, <1>4 DEF Keeps
  <2>3. row'.status \in {"running", "stopping"} => worker' # NoWorker \/ pending # NoSave
    BY <1>2, <1>4, <1>5 DEF Inv, PendingOK
  <2> QED BY <1>5, <1>6, <2>1, <2>2, <2>3, PendingKept
<1> QED BY <1>2, <1>6, <1>7, <1>8 DEF Inv

\* Beginning the run starts its one worker on the first invocation.
LEMMA BeginInv == ASSUME Inv, Begin PROVE Inv' /\ PaidStep
<1>1. PICK o \in Reach(BeginRun) :
        /\ Do(o)
        /\ worker' = IF o.code = "ok" THEN [NoWorker EXCEPT !.pc = "claim", !.call = 1]
                     ELSE NoWorker
        /\ pending' = IF o.code \in {"ok", "RunAlreadyStarted", "RunSealed", "ContextChanged"}
                      THEN NoSave ELSE HaltSave
  BY DEF Begin
<1>2. /\ row # NoRun /\ worker = NoWorker /\ pending = NoSave
      /\ retry' = retry /\ sent' = sent
  BY DEF Begin
<1>3. ProjectOK' /\ row' = o.row /\ RowOK
  BY <1>1, DoProject DEF Inv
<1>4. CASE o = [row |-> row, code |-> "PersistenceUnavailable"]
  <2>1. row' = row /\ worker' = NoWorker /\ pending' = HaltSave
    BY <1>1, <1>3, <1>4
  <2>2. RowOK' /\ SentOK' /\ PaidStep
    BY <2>1, <1>2, RowStands
  <2>3. WorkerOK'
    BY <2>1 DEF WorkerOK
  <2>4. row.status # "absent"
    BY <1>2, <1>3 DEF RowOK, StatusOK
  <2>5. HaltSave # NoSave
    BY DEF HaltSave, NoSave
  <2>6. PendingOK'
    BY <2>1, <2>4, <2>5, <1>2 DEF Inv, PendingOK
  <2> QED BY <1>3, <2>2, <2>3, <2>6 DEF Inv
<1>5. CASE o \in BeginRun
  <2>1. /\ Good(o.row) /\ Keeps(row, o.row)
        /\ o.code = "ok" => /\ o.row.status = "running" /\ Len(o.row.calls) = 1
                            /\ o.row.calls[1].state = "prepared"
        /\ o.code # "ok" /\ o.row.status \in {"running", "stopping"} =>
             o.row = row \/ o.code = "UncertainOutcome"
    BY <1>2, <1>3, <1>5, BeginGood
  <2>2. /\ RowOK' /\ SentOK' /\ PaidStep /\ (Begun => Begun')
    BY <1>2, <1>3, <2>1, RowStep
  <2>3. row.status # "absent" /\ row'.status # "absent"
    BY <1>2, <1>3, <2>1 DEF RowOK, StatusOK, Keeps
  <2>4. row.status \in Terminal => row' = row
    BY <1>3, <2>1 DEF Keeps
  <2>5. retry \in {"idle", "active", "ended"} /\ (retry = "ended" => row.status \in Terminal)
        /\ row.status \notin {"running", "stopping"}
    BY <1>2 DEF Inv, PendingOK
  <2>6. CASE o.code = "ok"
    <3>1. worker' = [NoWorker EXCEPT !.pc = "claim", !.call = 1] /\ pending' = NoSave
      BY <1>1, <2>6
    <3>2. worker' = [pc |-> "claim", call |-> 1, report |-> NoReport]
      BY <3>1 DEF NoWorker
    <3>3. row'.status = "running" /\ Len(row'.calls) = 1 /\ row'.calls[1].state = "prepared"
      BY <1>3, <2>1, <2>6
    <3>4. WorkerOK'
      BY <3>1, <3>2, <3>3 DEF WorkerOK, Pcs, Begun, Invocations
    <3>5. worker' # NoWorker
      BY <3>2 DEF NoWorker
    <3>6. PendingOK'
      BY <3>1, <3>3, <3>5, <2>4, <2>5, <1>2 DEF PendingOK
    <3> QED BY <1>3, <2>2, <3>4, <3>6 DEF Inv
  <2>7. CASE o.code # "ok"
    <3>1. worker' = NoWorker
      BY <1>1, <2>7
    <3>2. pending' = NoSave \/ pending' = HaltSave
      BY <1>1
    <3>3. row'.status \in {"running", "stopping"} => pending' = HaltSave
      BY <1>1, <1>3, <2>1, <2>5, <2>7
    <3>4. HaltSave # NoSave
      BY DEF HaltSave, NoSave
    <3>5. WorkerOK'
      BY <3>1 DEF WorkerOK
    <3>6. PendingOK'
      BY <3>2, <3>3, <3>4, <2>3, <2>4, <2>5, <1>2 DEF PendingOK
    <3> QED BY <1>3, <2>2, <3>5, <3>6 DEF Inv
  <2> QED BY <2>6, <2>7
<1> QED BY <1>4, <1>5, ReachIs

\* A Stop leaves an ended chain alone and never completes an active one.
LEMMA StopInv == ASSUME Inv, Stop PROVE Inv' /\ PaidStep
<1>1. PICK o \in Reach(StopRun) : Do(o)
  BY DEF Stop
<1>2. ProjectOK' /\ row' = o.row /\ RowOK /\ row # NoRun
  BY <1>1, DoProject DEF Inv, Stop
<1>3. /\ Good(o.row) /\ Keeps(row, o.row) /\ o.row.calls = row.calls
      /\ o.row.status \in {"running", "stopping"} <=> row.status \in {"running", "stopping"}
  <2>1. CASE o \in StopRun
    BY <2>1, <1>2, StopGood
  <2>2. CASE o = [row |-> row, code |-> "PersistenceUnavailable"]
    <3>1. o.row = row
      BY <2>2
    <3> QED BY <3>1, <1>2, SelfKeeps
  <2> QED BY <2>1, <2>2, ReachIs
<1>4. /\ worker' = worker /\ pending' = pending /\ retry' = retry /\ sent' = sent
  BY DEF Stop
<1>5. /\ RowOK' /\ SentOK' /\ PaidStep /\ (Begun => Begun') /\ Len(row.calls) <= Len(row'.calls)
      /\ Len(row.calls) \in 0..3 /\ Len(row'.calls) \in 0..3
  BY <1>2, <1>3, <1>4, RowStep
<1>6. WorkerOK'
  BY <1>2, <1>3, <1>4, <1>5 DEF Inv, WorkerOK
<1>7. PendingOK'
  <2>1. row.status # "absent" => row'.status # "absent"
    BY <1>2, <1>3 DEF Keeps
  <2>2. row.status \in Terminal => row' = row
    BY <1>2, <1>3 DEF Keeps
  <2>3. row'.status \in {"running", "stopping"} => worker' # NoWorker \/ pending # NoSave
    BY <1>2, <1>3, <1>4 DEF Inv, PendingOK
  <2> QED BY <1>4, <1>5, <2>1, <2>2, <2>3, PendingKept
<1> QED BY <1>2, <1>5, <1>6, <1>7 DEF Inv

\* A stop signal, a retry's read, a change and a reconnection write no row.
LEMMA SignalInv == ASSUME Inv, Signal \/ RetryRead \/ Change \/ Reconnect PROVE Inv' /\ PaidStep
<1>1. /\ row' = row /\ worker' = worker /\ pending' = pending /\ sent' = sent
      /\ project' = project \/ Change \/ Reconnect
      /\ retry' = retry \/ (/\ row # NoRun
                          /\ retry' = IF row.status \in Active THEN "active" ELSE "ended")
  <2>1. CASE Signal
    BY <2>1 DEF Signal, actorVars
  <2>2. CASE RetryRead
    BY <2>2 DEF RetryRead, actorVars
  <2>3. CASE Change
    BY <2>3 DEF Change, deskVars
  <2>4. CASE Reconnect
    BY <2>4 DEF Reconnect, deskVars
  <2> QED BY <2>1, <2>2, <2>3, <2>4
<1>2. ProjectOK'
  <2>1. CASE project' = project
    BY <2>1 DEF Inv, ProjectOK
  <2>2. CASE Change
    BY <2>2 DEF Change, Inv, ProjectOK
  <2>3. CASE Reconnect
    <3>1. PICK opened \in BOOLEAN :
            project' = [project EXCEPT !.fenced = ~opened, !.connected = opened]
      BY <2>3 DEF Reconnect
    <3>2. PICK b \in BOOLEAN : b = ~opened
      OBVIOUS
    <3>3. project' = [project EXCEPT !.fenced = b, !.connected = opened]
      BY <3>1, <3>2
    <3> QED BY <3>3 DEF Inv, ProjectOK
  <2> QED BY <1>1, <2>1, <2>2, <2>3
<1>3. RowOK' /\ SentOK' /\ PaidStep /\ (Begun => Begun')
  BY <1>1, RowStands
<1>4. WorkerOK'
  BY <1>1 DEF Inv, WorkerOK, Begun
<1>5. PendingOK'
  <2>1. row # NoRun => row.status \in Active \cup Terminal
    <3>1. row.status \in Statuses /\ (row.status = "absent" => row = NoRun)
      BY DEF Inv, RowOK, ChainOK, StatusOK, Runs
    <3> QED BY <3>1 DEF Statuses
  <2>2. retry' \in {"idle", "active", "ended", "halt"} /\ (retry' = "halt" => retry = "halt")
        /\ (retry' = "ended" => row.status \in Terminal)
    <3>1. CASE retry' = retry
      BY <3>1 DEF Inv, PendingOK
    <3>2. CASE row # NoRun /\ retry' = IF row.status \in Active THEN "active" ELSE "ended"
      BY <3>2, <2>1
    <3> QED BY <1>1, <3>1, <3>2
  <2> QED BY <1>1, <2>2 DEF Inv, PendingOK, Begun
<1> QED BY <1>2, <1>3, <1>4, <1>5 DEF Inv

\* While something is retained there is no worker.
LEMMA RetainedAlone == ASSUME Inv, pending # NoSave PROVE worker = NoWorker
BY DEF Inv, WorkerOK

\* Saving a retained report settles it once, or finds it impossible.
LEMMA RetryStoreInv == ASSUME Inv, RetryStore PROVE Inv' /\ PaidStep
<1>1. worker' = worker /\ sent' = sent /\ retry \in {"active", "ended"}
  BY DEF RetryStore
<1>2. CASE /\ pending = NoSave \/ retry = "ended"
           /\ pending' = IF retry = "ended" THEN NoSave ELSE pending
           /\ retry' = "idle" /\ UNCHANGED actorVars
  <2>1. row' = row /\ project' = project /\ pending' \in {pending, NoSave}
    BY <1>2 DEF actorVars
  <2>2. RowOK' /\ SentOK' /\ PaidStep
    BY <1>1, <2>1, RowStands
  <2>3. WorkerOK'
    BY <1>1, <2>1 DEF Inv, WorkerOK, Begun
  <2>4. PendingOK'
    <3>1. CASE pending' = NoSave /\ retry = "ended"
      <4>1. row.status \notin {"running", "stopping"}
        BY <3>1 DEF Inv, PendingOK, Terminal
      <4> QED BY <3>1, <4>1, <1>2, <2>1 DEF PendingOK
    <3>2. CASE pending' = pending
      BY <3>2, <1>1, <1>2, <2>1 DEF Inv, PendingOK, Begun
    <3> QED BY <3>1, <3>2, <1>2
  <2>5. ProjectOK'
    BY <2>1 DEF Inv, ProjectOK
  <2> QED BY <2>2, <2>3, <2>4, <2>5 DEF Inv
<1>3. CASE pending.kind = "halt" /\ retry = "active" /\ retry' = "halt"
           /\ UNCHANGED actorVars /\ UNCHANGED pending
  <2>1. row' = row /\ project' = project /\ pending' = pending
    BY <1>3 DEF actorVars
  <2>2. RowOK' /\ SentOK' /\ PaidStep
    BY <1>1, <2>1, RowStands
  <2>3. WorkerOK'
    BY <1>1, <2>1 DEF Inv, WorkerOK, Begun
  <2>4. pending # NoSave
    BY <1>3 DEF NoSave
  <2>5. PendingOK'
    BY <2>1, <2>4, <1>1, <1>3 DEF Inv, PendingOK, Begun
  <2>6. ProjectOK'
    BY <2>1 DEF Inv, ProjectOK
  <2> QED BY <2>2, <2>3, <2>5, <2>6 DEF Inv
<1>4. ASSUME pending.kind = "report", retry = "active",
             NEW o \in Reach(SettleInvocation(pending.report.ordinal, pending.report)),
             Do(o),
             retry' = IF Rejected(o.code) \/ (o.code = "ok" /\ o.row.status \in Active)
                      THEN "halt" ELSE "idle",
             pending' = IF o.code = "ok" /\ o.row.status \notin Active
                        THEN NoSave ELSE pending
      PROVE  Inv' /\ PaidStep
  <2>1. ProjectOK' /\ row' = o.row /\ RowOK
    BY <1>4, DoProject DEF Inv
  <2>2. pending # NoSave /\ pending # HaltSave
    BY <1>4 DEF NoSave, HaltSave
  <2>3. /\ pending.report \in Reports /\ pending.report.ordinal <= Len(row.calls) /\ Begun
    BY <2>2 DEF Inv, PendingOK
  <2>4. worker' = NoWorker
    BY <2>2, <1>1, RetainedAlone
  <2>5. /\ Good(o.row) /\ Keeps(row, o.row)
    <3>1. CASE o = [row |-> row, code |-> "PersistenceUnavailable"]
      <4>1. o.row = row
        BY <3>1
      <4> QED BY <4>1, <2>1, SelfKeeps
    <3>2. CASE o \in SettleInvocation(pending.report.ordinal, pending.report)
      <4>1. PICK k, report : report = pending.report /\ k = report.ordinal
        OBVIOUS
      <4>2. k \in Invocations
        BY <4>1, <2>3 DEF Reports
      <4>3. row.status \notin {"absent", "queued"}
        BY <2>3 DEF Begun
      <4> QED BY <3>2, <4>1, <4>2, <4>3, <2>1, <2>3, SettleGood
    <3> QED BY <1>4, <3>1, <3>2, ReachIs
  <2>6. /\ RowOK' /\ SentOK' /\ PaidStep /\ (Begun => Begun') /\ Len(row.calls) <= Len(row'.calls)
        /\ Len(row.calls) \in 0..3 /\ Len(row'.calls) \in 0..3
    BY <1>1, <2>1, <2>5, RowStep
  <2>7. WorkerOK'
    BY <2>4 DEF WorkerOK
  <2>8. PendingOK'
    <3>1. retry' \in {"idle", "halt"}
      BY <1>4
    <3>2. CASE o.code = "ok" /\ o.row.status \notin Active
      <4>1. pending' = NoSave /\ retry' = "idle"
        BY <3>2, <1>4 DEF Rejected
      <4>2. row'.status \notin {"running", "stopping"}
        BY <3>2, <2>1 DEF Active
      <4> QED BY <4>1, <4>2 DEF PendingOK
    <3>3. CASE ~(o.code = "ok" /\ o.row.status \notin Active)
      <4>1. pending' = pending
        BY <3>3, <1>4
      <4>2. pending'.report.ordinal <= Len(row'.calls)
        <5>1. PICK k : k = pending.report.ordinal
          OBVIOUS
        <5>2. k \in Invocations
          BY <5>1, <2>3 DEF Reports
        <5>3. k <= Len(row'.calls)
          BY <5>1, <5>2, <2>3, <2>6 DEF Invocations
        <5> QED BY <5>1, <5>3, <4>1
      <4>3. row'.status # "absent"
        BY <2>3, <2>6 DEF Begun
      <4> QED BY <4>1, <4>2, <4>3, <3>1, <2>2, <2>3, <2>6, <1>4 DEF PendingOK
    <3> QED BY <3>2, <3>3
  <2> QED BY <2>1, <2>6, <2>7, <2>8 DEF Inv
<1> QED BY <1>2, <1>3, <1>4 DEF RetryStore

\* Saving a retained halt ends the chain or leaves it retained.
LEMMA RetryHaltInv == ASSUME Inv, RetryHalt PROVE Inv' /\ PaidStep
<1>1. PICK o \in Reach(HaltLookup) :
        Do(o) /\ pending' = IF o.code = "ok" THEN NoSave ELSE pending
  BY DEF RetryHalt
<1>2. retry = "halt" /\ retry' = "idle" /\ worker' = worker /\ sent' = sent
  BY DEF RetryHalt
<1>3. ProjectOK' /\ row' = o.row /\ RowOK
  BY <1>1, DoProject DEF Inv
<1>4. pending # NoSave /\ row.status # "absent"
  BY <1>2 DEF Inv, PendingOK
<1>5. worker' = NoWorker
  BY <1>2, <1>4, RetainedAlone
<1>6. Good(o.row) /\ Keeps(row, o.row) /\ (o.code = "ok" => o.row.status \in Terminal)
  <2>1. CASE o \in HaltLookup
    BY <2>1, <1>3, <1>4, HaltGood
  <2>2. CASE o = [row |-> row, code |-> "PersistenceUnavailable"]
    <3>1. o.row = row /\ o.code # "ok"
      BY <2>2
    <3> QED BY <3>1, <1>3, SelfKeeps
  <2> QED BY <2>1, <2>2, ReachIs
<1>7. /\ RowOK' /\ SentOK' /\ PaidStep /\ (Begun => Begun') /\ Len(row.calls) <= Len(row'.calls)
      /\ Len(row.calls) \in 0..3 /\ Len(row'.calls) \in 0..3
  BY <1>2, <1>3, <1>6, RowStep
<1>8. WorkerOK'
  BY <1>5 DEF WorkerOK
<1>9. PendingOK'
  <2>1. row'.status # "absent"
    BY <1>3, <1>4, <1>6 DEF Keeps
  <2>2. CASE o.code = "ok"
    <3>1. pending' = NoSave /\ row'.status \notin {"running", "stopping"}
      BY <2>2, <1>1, <1>3, <1>6 DEF Terminal
    <3> QED BY <3>1, <1>2 DEF PendingOK
  <2>3. CASE o.code # "ok"
    <3>1. pending' = pending
      BY <2>3, <1>1
    <3>2. pending = NoSave \/ pending = HaltSave
          \/ (/\ pending.kind = "report" /\ pending.report \in Reports
              /\ pending.report.ordinal <= Len(row'.calls) /\ Begun')
      <4>1. ASSUME pending.report \in Reports, pending.report.ordinal <= Len(row.calls)
            PROVE  pending.report.ordinal <= Len(row'.calls)
        <5>1. PICK k : k = pending.report.ordinal
          OBVIOUS
        <5>2. k \in Invocations
          BY <5>1, <4>1 DEF Reports
        <5>3. k <= Len(row'.calls)
          BY <5>1, <5>2, <4>1, <1>7 DEF Invocations
        <5> QED BY <5>1, <5>3
      <4> QED BY <4>1, <1>7 DEF Inv, PendingOK
    <3> QED BY <3>1, <3>2, <2>1, <1>2, <1>4 DEF PendingOK
  <2> QED BY <2>2, <2>3
<1> QED BY <1>3, <1>7, <1>8, <1>9 DEF Inv

\* Reconciliation interrupts a chain that no worker owns.
LEMMA InterruptInv == ASSUME Inv, Interrupt PROVE Inv' /\ PaidStep
<1>1. PICK o \in Reach(Committed(row, Interrupted, "ok")) : Do(o)
  BY DEF Interrupt
<1>2. worker = NoWorker /\ pending = NoSave /\ row.status \in Active
      /\ worker' = worker /\ pending' = pending /\ retry' = retry /\ sent' = sent
  BY DEF Interrupt, deskVars
<1>3. ProjectOK' /\ row' = o.row /\ RowOK
  BY <1>1, DoProject DEF Inv
<1>4. Good(o.row) /\ Keeps(row, o.row)
  <2>1. CASE o \in Committed(row, Interrupted, "ok")
    BY <2>1, <1>3, InterruptedGood, OutcomesOf
  <2>2. CASE o = [row |-> row, code |-> "PersistenceUnavailable"]
    <3>1. o.row = row
      BY <2>2
    <3> QED BY <3>1, <1>3, SelfKeeps
  <2> QED BY <1>1, <2>1, <2>2, ReachIs
<1>5. /\ RowOK' /\ SentOK' /\ PaidStep /\ (Begun => Begun') /\ Len(row.calls) <= Len(row'.calls)
      /\ Len(row.calls) \in 0..3 /\ Len(row'.calls) \in 0..3
  BY <1>2, <1>3, <1>4, RowStep
<1>6. WorkerOK'
  BY <1>2 DEF WorkerOK
<1>7. PendingOK'
  <2>1. row.status # "absent" => row'.status # "absent"
    BY <1>3, <1>4 DEF Keeps
  <2>2. row.status \in Terminal => row' = row
    BY <1>3, <1>4 DEF Keeps
  <2>3. row'.status \notin {"running", "stopping"}
    <3>1. row.status \notin {"running", "stopping"}
      BY <1>2 DEF Inv, PendingOK
    <3>2. o.row = row \/ o.row = Interrupted
      <4>1. o \in Committed(row, Interrupted, "ok") \/ o = [row |-> row, code |-> "PersistenceUnavailable"]
        BY <1>1, ReachIs
      <4> QED BY <4>1 DEF Committed
    <3>3. Interrupted.status \notin Active
      BY <1>3, InterruptedGood
    <3> QED BY <3>1, <3>2, <3>3, <1>3 DEF Active
  <2> QED BY <1>2, <1>5, <2>1, <2>2, <2>3, PendingKept
<1> QED BY <1>3, <1>5, <1>6, <1>7 DEF Inv

\* Reopening the project drops what was in memory and keeps the record.
LEMMA ReopenInv == ASSUME Inv, Reopen PROVE Inv' /\ PaidStep
<1>1. row' = Interrupted /\ worker' = NoWorker /\ pending' = NoSave /\ retry' = "idle"
      /\ sent' = sent /\ project' = [project EXCEPT !.fenced = FALSE, !.connected = TRUE]
  BY DEF Reopen
<1>2. Good(row') /\ Keeps(row, row') /\ row'.status \notin Active
  BY <1>1, InterruptedGood DEF Inv
<1>3. RowOK' /\ SentOK' /\ PaidStep
  BY <1>1, <1>2, RowStep
<1>4. ProjectOK'
  BY <1>1 DEF Inv, ProjectOK
<1>5. WorkerOK'
  BY <1>1 DEF WorkerOK
<1>6. PendingOK'
  BY <1>1, <1>2 DEF PendingOK, Active
<1> QED BY <1>3, <1>4, <1>5, <1>6 DEF Inv

-----------------------------------------------------------------------------
\* The worker.

\* What a worker at a step knows of the row.
LEMMA WorkerFacts ==
  ASSUME Inv, worker.pc \in Pcs
  PROVE  /\ worker # NoWorker /\ pending = NoSave /\ Begun /\ RowOK
         /\ worker \in [pc : Pcs, call : Nat, report : Reports \cup {NoReport}]
         /\ retry \in {"idle", "active", "ended"} /\ (retry = "ended" => row.status \in Terminal)
         /\ worker.pc # "halt" =>
              /\ row.status \in {"running", "stopping"}
              /\ worker.call = Len(row.calls) /\ worker.call \in Invocations
<1>1. worker # NoWorker
  BY DEF NoWorker, Pcs
<1> QED BY <1>1 DEF Inv, WorkerOK, PendingOK

\* A worker that ends, or goes on to halt.
LEMMA WorkerHalts ==
  ASSUME Inv, worker.pc \in Pcs, worker' = [worker EXCEPT !.pc = "halt"], pending' = pending, Begun'
  PROVE  WorkerOK' /\ worker' # NoWorker
<1>1. worker \in [pc : Pcs, call : Nat, report : Reports \cup {NoReport}] /\ pending = NoSave
  BY WorkerFacts
<1>2. worker' \in [pc : Pcs, call : Nat, report : Reports \cup {NoReport}] /\ worker'.pc = "halt"
  BY <1>1 DEF Pcs
<1>3. WorkerOK'
  BY <1>1, <1>2 DEF WorkerOK
<1>4. worker' # NoWorker
  BY <1>2 DEF NoWorker
<1> QED BY <1>3, <1>4

\* While a worker lives nothing is retained, so it alone is looked at.
LEMMA PendingOfWorker ==
  ASSUME Inv, worker.pc \in Pcs, pending' = pending, retry' = retry, row.status \in Terminal => row' = row,
         row'.status \in {"running", "stopping"} => worker' # NoWorker
  PROVE  PendingOK'
<1>1. pending = NoSave /\ retry \in {"idle", "active", "ended"}
      /\ (retry = "ended" => row.status \in Terminal)
  BY WorkerFacts
<1> QED BY <1>1 DEF PendingOK

\* The claim is recorded before the worker may invoke.
LEMMA ClaimInv == ASSUME Inv, Claim PROVE Inv' /\ PaidStep
<1>1. PICK o \in Reach(ClaimInvocation(worker.call)), exact \in BOOLEAN :
        Do(o) /\ worker' = [worker EXCEPT !.pc = IF o.code = "ok" /\ exact THEN "invoke" ELSE "halt"]
  BY DEF Claim, Step
<1>2. worker.pc = "claim" /\ pending' = pending /\ retry' = retry /\ sent' = sent /\ worker.pc \in Pcs
  BY DEF Claim, Pcs
<1>3. /\ worker # NoWorker /\ pending = NoSave /\ Begun /\ RowOK
      /\ worker \in [pc : Pcs, call : Nat, report : Reports \cup {NoReport}]
      /\ row.status \in {"running", "stopping"}
      /\ worker.call = Len(row.calls) /\ worker.call \in Invocations
      /\ row.calls[worker.call].state = "prepared"
  BY <1>2, WorkerFacts DEF Inv, WorkerOK
<1>4. ProjectOK' /\ row' = o.row
  BY <1>1, DoProject DEF Inv
<1>5. PICK k : k = worker.call
  OBVIOUS
<1>6. /\ Good(o.row) /\ Keeps(row, o.row)
      /\ o.code = "ok" => /\ o.row.status = row.status /\ Len(o.row.calls) = k
                          /\ o.row.calls[k].state = "claimed"
  <2>1. CASE o \in ClaimInvocation(k)
    <3>1. row.status # "absent"
      BY <1>3 DEF Begun
    <3> QED BY <2>1, <3>1, <1>3, <1>5, ClaimGood
  <2>2. CASE o = [row |-> row, code |-> "PersistenceUnavailable"]
    <3>1. o.row = row /\ o.code # "ok"
      BY <2>2
    <3> QED BY <3>1, <1>3, SelfKeeps
  <2> QED BY <1>5, <2>1, <2>2, ReachIs
<1>7. RowOK' /\ SentOK' /\ PaidStep /\ Begun'
  BY <1>2, <1>3, <1>4, <1>6, RowStep
<1>8. WorkerOK' /\ worker' # NoWorker
  <2>1. CASE o.code = "ok" /\ exact
    <3>1. worker' = [worker EXCEPT !.pc = "invoke"]
      BY <1>1, <2>1
    <3>2. worker' \in [pc : Pcs, call : Nat, report : Reports \cup {NoReport}]
          /\ worker'.pc = "invoke" /\ worker'.call = k
      BY <3>1, <1>3, <1>5 DEF Pcs
    <3>3. /\ row'.status \in {"running", "stopping"} /\ k = Len(row'.calls) /\ k \in Invocations
          /\ row'.calls[k].state = "claimed"
      BY <1>3, <1>4, <1>5, <1>6, <2>1
    <3>4. sent'[k] = 0
      <4>1. sent[k] \in Nat /\ ~(sent[k] > 0)
        BY <1>3, <1>5 DEF Inv, SentOK
      <4> QED BY <4>1, <1>2
    <3>5. worker' # NoWorker
      BY <3>2 DEF NoWorker
    <3>6. pending' = NoSave
      BY <1>2, <1>3
    <3> QED BY <3>2, <3>3, <3>4, <3>5, <3>6, <1>7 DEF WorkerOK
  <2>2. CASE ~(o.code = "ok" /\ exact)
    <3>1. worker' = [worker EXCEPT !.pc = "halt"]
      BY <1>1, <2>2
    <3> QED BY <3>1, <1>2, <1>7, WorkerHalts
  <2> QED BY <2>1, <2>2
<1>9. PendingOK'
  <2>1. row.status \in Terminal => row' = row
    BY <1>4, <1>6 DEF Keeps
  <2> QED BY <2>1, <1>2, <1>8, PendingOfWorker
<1> QED BY <1>4, <1>7, <1>8, <1>9 DEF Inv

\* The report a worker takes to the actor.
LEMMA AnsweredOK ==
  ASSUME Inv, worker.pc \in {"invoke", "answering"}, NEW report, Answered(report),
         [report EXCEPT !.ordinal = worker.call] \in Reports,
         row' = row, project' = project, pending' = pending, retry' = retry, sent' = sent
  PROVE  Inv' /\ PaidStep
<1>1. PICK rep : rep = [report EXCEPT !.ordinal = worker.call]
  OBVIOUS
<1>2. worker' = [worker EXCEPT !.pc = "settle", !.report = rep] /\ rep \in Reports
  BY <1>1 DEF Answered
<1>3. worker.pc \in Pcs /\ worker.pc # "halt"
  BY DEF Pcs
<1>4. /\ worker # NoWorker /\ pending = NoSave /\ Begun
      /\ worker \in [pc : Pcs, call : Nat, report : Reports \cup {NoReport}]
      /\ row.status \in {"running", "stopping"}
      /\ worker.call = Len(row.calls) /\ worker.call \in Invocations
      /\ row.calls[worker.call].state = "claimed"
  BY <1>3, WorkerFacts DEF Inv, WorkerOK
<1>5. rep.ordinal = worker.call
  <2>1. rep \in [ordinal : Invocations, status : {"completed", "stopped", "failed"},
                 cleanup : Cleanups, envelope : Parses, reads : Asks \cup {{}}, input : Nat, text : Nat]
    BY <1>2 DEF Reports
  <2>2. "ordinal" \in DOMAIN rep
    BY <2>1
  <2>3. "ordinal" \in DOMAIN report
    BY <2>2, <1>1
  <2> QED BY <2>3, <1>1
<1>6. /\ worker' \in [pc : Pcs, call : Nat, report : Reports \cup {NoReport}]
      /\ worker'.pc = "settle" /\ worker'.call = worker.call /\ worker'.report = rep
  BY <1>2, <1>4 DEF Pcs
<1>7. worker' # NoWorker
  BY <1>6 DEF NoWorker
<1>8. RowOK' /\ SentOK' /\ PaidStep /\ Begun'
  BY <1>4, RowStands
<1>9. WorkerOK'
  BY <1>2, <1>4, <1>5, <1>6, <1>8 DEF WorkerOK
<1>10. PendingOK'
  BY <1>3, <1>7, PendingOfWorker
<1>11. ProjectOK'
  BY DEF Inv, ProjectOK
<1> QED BY <1>8, <1>9, <1>10, <1>11 DEF Inv

\* The one paid call is made of a claimed invocation, once.
LEMMA InvokeInv == ASSUME Inv, Invoke PROVE Inv' /\ PaidStep
<1>1. /\ worker.pc = "invoke" /\ row' = row /\ project' = project /\ pending' = pending
      /\ retry' = retry /\ sent' = sent
  BY DEF Invoke, actorVars
<1>2. worker.pc \in Pcs /\ worker.pc # "halt"
  BY <1>1 DEF Pcs
<1>3. /\ worker # NoWorker /\ pending = NoSave /\ Begun
      /\ worker \in [pc : Pcs, call : Nat, report : Reports \cup {NoReport}]
      /\ row.status \in {"running", "stopping"}
      /\ worker.call = Len(row.calls) /\ worker.call \in Invocations
      /\ row.calls[worker.call].state = "claimed" /\ sent[worker.call] = 0
  BY <1>1, <1>2, WorkerFacts DEF Inv, WorkerOK
<1>4. ASSUME NEW st \in {"stopped", "failed"}, Answered([NoReport EXCEPT !.status = st])
      PROVE  Inv' /\ PaidStep
  <2>1. PICK report : report = [NoReport EXCEPT !.status = st]
    OBVIOUS
  <2>2. report = [ordinal |-> 0, status |-> st, cleanup |-> "settled", envelope |-> "none",
                  reads |-> {}, input |-> 0, text |-> 0]
    BY <2>1 DEF NoReport
  <2>3. [report EXCEPT !.ordinal = worker.call] =
          [ordinal |-> worker.call, status |-> st, cleanup |-> "settled", envelope |-> "none",
           reads |-> {}, input |-> 0, text |-> 0]
    BY <2>2
  <2>4. [report EXCEPT !.ordinal = worker.call] \in Reports
    BY <2>3, <1>3 DEF Reports, Cleanups, Parses
  <2>5. Answered(report)
    BY <1>4, <2>1
  <2> QED BY <1>1, <2>4, <2>5, AnsweredOK
<1>5. CASE Step("sending")
  <2>1. worker' = [worker EXCEPT !.pc = "sending"]
    BY <1>5 DEF Step
  <2>2. worker' \in [pc : Pcs, call : Nat, report : Reports \cup {NoReport}]
        /\ worker'.pc = "sending" /\ worker'.call = worker.call
    BY <2>1, <1>3 DEF Pcs
  <2>3. worker' # NoWorker
    BY <2>2 DEF NoWorker
  <2>4. RowOK' /\ SentOK' /\ PaidStep /\ Begun'
    BY <1>1, <1>3, RowStands
  <2>5. WorkerOK'
    BY <1>1, <1>3, <2>2, <2>4 DEF WorkerOK
  <2>6. PendingOK'
    BY <1>1, <1>2, <2>3, PendingOfWorker
  <2>7. ProjectOK'
    BY <1>1 DEF Inv, ProjectOK
  <2> QED BY <2>4, <2>5, <2>6, <2>7 DEF Inv
<1> QED BY <1>4, <1>5 DEF Invoke

\* The one step that pays.
LEMMA SendInv == ASSUME Inv, Send PROVE Inv' /\ PaidStep
<1>1. /\ worker.pc = "sending" /\ row' = row /\ project' = project /\ pending' = pending
      /\ retry' = retry /\ worker' = [worker EXCEPT !.pc = "answering"]
  BY DEF Send, actorVars, Step
<1>2. worker.pc \in Pcs /\ worker.pc # "halt"
  BY <1>1 DEF Pcs
<1>3. /\ worker # NoWorker /\ pending = NoSave /\ Begun /\ RowOK
      /\ worker \in [pc : Pcs, call : Nat, report : Reports \cup {NoReport}]
      /\ row.status \in {"running", "stopping"}
      /\ worker.call = Len(row.calls) /\ worker.call \in Invocations
      /\ row.calls[worker.call].state = "claimed" /\ sent[worker.call] = 0
  BY <1>1, <1>2, WorkerFacts DEF Inv, WorkerOK
<1>4. PICK k : k = worker.call
  OBVIOUS
<1>5. sent' = [sent EXCEPT ![k] = sent[k] + 1] /\ sent \in [Invocations -> Nat]
      /\ (\A j \in Invocations : sent[j] > 0 =>
            j <= Len(row.calls) /\ row.calls[j].state # "prepared")
  BY <1>4 DEF Send, Inv, SentOK
<1>6. /\ sent' \in [Invocations -> Nat] /\ sent'[k] = 1 /\ sent[k] = 0
      /\ \A j \in Invocations : j # k => sent'[j] = sent[j]
  BY <1>3, <1>4, <1>5
<1>7. ChainOK(row) /\ StatusOK(row)
  BY <1>3 DEF RowOK
<1>8. \A i \in 1..(k - 1) : row.calls[i].result.parsed = "needs"
  <2>1. ASSUME NEW i \in 1..(k - 1)
        PROVE  row.calls[i].result.parsed = "needs"
    <3>1. i \in 1..k /\ i < k
      BY <1>3, <1>4 DEF Invocations
    <3>2. CallOK(row.calls[i]) /\ row.calls[i].state = "needs_context"
      BY <3>1, <1>3, <1>4, <1>7 DEF ChainOK
    <3> QED BY <3>2, NeedsAsked
  <2> QED BY <2>1
<1>9. PaidStep
  <2>1. \A j \in Invocations : sent'[j] # sent[j] => j = k
    BY <1>6
  <2>2. \A j \in DOMAIN row.calls : row.calls[j].result # NoResult =>
          j \in DOMAIN row'.calls /\ row'.calls[j].result = row.calls[j].result
    BY <1>1
  <2>3. row.status = "stopping" => row'.status # "completed"
    BY <1>1
  <2> QED BY <2>1, <2>2, <2>3, <1>1, <1>3, <1>4, <1>6, <1>8 DEF PaidStep
<1>10. SentOK'
  <2>1. k <= Len(row.calls)
    BY <1>3, <1>4 DEF Invocations
  <2> QED BY <2>1, <1>1, <1>3, <1>4, <1>5, <1>6 DEF SentOK
<1>11. worker' \in [pc : Pcs, call : Nat, report : Reports \cup {NoReport}]
       /\ worker'.pc = "answering" /\ worker'.call = worker.call
  BY <1>1, <1>3 DEF Pcs
<1>12. worker' # NoWorker
  BY <1>11 DEF NoWorker
<1>13. RowOK' /\ Begun'
  BY <1>1, <1>3 DEF RowOK, Begun
<1>14. WorkerOK'
  BY <1>1, <1>3, <1>11, <1>13 DEF WorkerOK
<1>15. PendingOK'
  BY <1>1, <1>2, <1>12, PendingOfWorker
<1>16. ProjectOK'
  BY <1>1 DEF Inv, ProjectOK
<1> QED BY <1>9, <1>10, <1>13, <1>14, <1>15, <1>16 DEF Inv

\* The answer becomes the worker's report and writes nothing.
LEMMA AnswerInv == ASSUME Inv, Answer PROVE Inv' /\ PaidStep
<1>1. PICK envelope \in {"discussion", "needs", "none"}, reads \in Asks \cup {{}},
          status \in {"completed", "stopped", "failed"}, cleanup \in {"settled", "unresolved"},
          input \in {0, InputSize(row.calls[worker.call])}, text \in 0..Envelope :
        /\ status = "completed" => cleanup = "settled" /\ text = Envelope
        /\ status # "completed" => envelope = "none" /\ text \in {0, Envelope}
        /\ (envelope = "needs") <=> (reads # {})
        /\ status = "stopped" => signal /\ cleanup = "settled"
        /\ Answered([NoReport EXCEPT !.status = status, !.cleanup = cleanup, !.text = text,
                        !.envelope = envelope, !.reads = reads, !.input = input])
  BY Zenon DEF Answer
<1>2. /\ worker.pc = "answering" /\ row' = row /\ project' = project /\ pending' = pending
      /\ retry' = retry /\ sent' = sent
  BY DEF Answer, actorVars
<1>3. worker.pc \in Pcs /\ worker.pc # "halt"
  BY <1>2 DEF Pcs
<1>4. RowOK /\ worker.call = Len(row.calls) /\ worker.call \in Invocations
  BY <1>3, WorkerFacts
<1>5. PICK k : k = worker.call
  OBVIOUS
<1>6. input \in Nat /\ text \in Nat
  <2>1. k \in 1..Len(row.calls)
    <3>1. \A i \in 1..3 : i \in 1..i
      OBVIOUS
    <3>2. k \in 1..3
      BY <1>4, <1>5 DEF Invocations
    <3> QED BY <3>1, <3>2, <1>4, <1>5
  <2>2. InputSize(row.calls[k]) \in Nat
    BY <2>1, <1>4, SizeIsNat DEF RowOK, ChainOK
  <2>3. text \in Nat
    BY DEF Envelope
  <2> QED BY <2>2, <2>3, <1>5
<1>7. PICK report : report = [NoReport EXCEPT !.status = status, !.cleanup = cleanup, !.text = text,
                        !.envelope = envelope, !.reads = reads, !.input = input]
  OBVIOUS
<1>8. report = [ordinal |-> 0, status |-> status, cleanup |-> cleanup, envelope |-> envelope,
                reads |-> reads, input |-> input, text |-> text]
  BY <1>7 DEF NoReport
<1>9. [report EXCEPT !.ordinal = worker.call] =
        [ordinal |-> k, status |-> status, cleanup |-> cleanup, envelope |-> envelope,
         reads |-> reads, input |-> input, text |-> text]
  BY <1>5, <1>8
<1>10. [report EXCEPT !.ordinal = worker.call] \in Reports
  BY <1>4, <1>5, <1>6, <1>9 DEF Reports, Cleanups, Parses
<1>11. Answered(report)
  BY <1>1, <1>7
<1> QED BY <1>2, <1>10, <1>11, AnsweredOK

\* A report settles its own claimed invocation, or is retained.
LEMMA SettleInv == ASSUME Inv, Settle PROVE Inv' /\ PaidStep
<1>1. PICK o \in Reach(SettleInvocation(worker.call, worker.report)) : Do(o) /\ AfterSettle(o)
  BY DEF Settle
<1>2. worker.pc = "settle" /\ retry' = retry /\ sent' = sent
  BY DEF Settle
<1>3. worker.pc \in Pcs /\ worker.pc # "halt"
  BY <1>2 DEF Pcs
<1>4. /\ worker # NoWorker /\ pending = NoSave /\ Begun /\ RowOK
      /\ worker \in [pc : Pcs, call : Nat, report : Reports \cup {NoReport}]
      /\ row.status \in {"running", "stopping"}
      /\ worker.call = Len(row.calls) /\ worker.call \in Invocations
      /\ row.calls[worker.call].state = "claimed"
      /\ worker.report \in Reports /\ worker.report.ordinal = worker.call
      /\ retry \in {"idle", "active", "ended"} /\ (retry = "ended" => row.status \in Terminal)
  BY <1>2, <1>3, WorkerFacts DEF Inv, WorkerOK
<1>5. PICK k, report : k = worker.call /\ report = worker.report
  OBVIOUS
<1>6. k \in Invocations /\ k \in 1..3 /\ k <= Len(row.calls) /\ report \in Reports
  <2>1. k \in 1..3
    BY <1>4, <1>5 DEF Invocations
  <2>2. k <= k
    BY <2>1
  <2> QED BY <2>1, <2>2, <1>4, <1>5
<1>7. ProjectOK' /\ row' = o.row
  BY <1>1, DoProject DEF Inv
<1>8. /\ Good(o.row) /\ Keeps(row, o.row) /\ Len(o.row.calls) = Len(row.calls)
      /\ o.code = "ok" /\ o.row.status \in Active =>
           o.row.status \in {"running", "stopping"} /\ o.row.calls[k].state = "needs_context"
  <2>1. CASE o \in SettleInvocation(k, report)
    <3>1. row.status \notin {"absent", "queued"}
      BY <1>4 DEF Begun
    <3> QED BY <2>1, <3>1, <1>4, <1>6, SettleGood
  <2>2. CASE o = [row |-> row, code |-> "PersistenceUnavailable"]
    <3>1. o.row = row /\ o.code # "ok"
      BY <2>2
    <3> QED BY <3>1, <1>4, SelfKeeps
  <2> QED BY <1>5, <2>1, <2>2, ReachIs
<1>9. RowOK' /\ SentOK' /\ PaidStep /\ Begun'
  BY <1>2, <1>4, <1>7, <1>8, RowStep
<1>10. row.status \in Terminal => row' = row
  BY <1>7, <1>8 DEF Keeps
<1>11. CASE Rejected(o.code) /\ Step("halt") /\ UNCHANGED pending
  <2>1. worker' = [worker EXCEPT !.pc = "halt"] /\ pending' = pending
    BY <1>11 DEF Step
  <2>2. WorkerOK' /\ worker' # NoWorker
    BY <2>1, <1>3, <1>9, WorkerHalts
  <2>3. PendingOK'
    BY <2>1, <2>2, <1>2, <1>3, <1>10, PendingOfWorker
  <2> QED BY <2>2, <2>3, <1>7, <1>9 DEF Inv
<1>12. CASE EndWorker([kind |-> "report", report |-> worker.report])
  <2>1. PICK save : save = [kind |-> "report", report |-> report]
    OBVIOUS
  <2>2. save.kind = "report" /\ save.report = report /\ save # NoSave
    BY <2>1 DEF NoSave
  <2>3. worker' = NoWorker /\ pending' = save
    BY <1>5, <1>12, <2>1, <2>2 DEF EndWorker
  <2>4. WorkerOK'
    BY <2>3 DEF WorkerOK
  <2>5. report.ordinal <= Len(row'.calls)
    <3>1. report.ordinal = k /\ Len(row'.calls) = Len(row.calls)
      BY <1>4, <1>5, <1>7, <1>8
    <3> QED BY <3>1, <1>6
  <2>6. row'.status # "absent"
    BY <1>9 DEF Begun
  <2>7. PendingOK'
    BY <2>2, <2>3, <2>5, <2>6, <1>2, <1>4, <1>6, <1>9, <1>10 DEF PendingOK
  <2> QED BY <2>4, <2>7, <1>7, <1>9 DEF Inv
<1>13. CASE o.code = "ok" /\ o.row.status \in Active /\ Step("advance") /\ UNCHANGED pending
  <2>1. worker' = [worker EXCEPT !.pc = "advance"] /\ pending' = pending
    BY <1>13 DEF Step
  <2>2. worker' \in [pc : Pcs, call : Nat, report : Reports \cup {NoReport}]
        /\ worker'.pc = "advance" /\ worker'.call = k
    BY <2>1, <1>4, <1>5 DEF Pcs
  <2>3. worker' # NoWorker
    BY <2>2 DEF NoWorker
  <2>4. /\ row'.status \in {"running", "stopping"} /\ row'.calls[k].state = "needs_context"
        /\ k = Len(row'.calls)
    BY <1>4, <1>5, <1>7, <1>8, <1>13
  <2>5. WorkerOK'
    BY <2>1, <2>2, <2>4, <1>4, <1>6, <1>9 DEF WorkerOK
  <2>6. PendingOK'
    BY <2>1, <2>3, <1>2, <1>3, <1>10, PendingOfWorker
  <2> QED BY <2>5, <2>6, <1>7, <1>9 DEF Inv
<1>14. CASE o.code = "ok" /\ o.row.status \notin Active /\ EndWorker(NoSave)
  <2>1. worker' = NoWorker /\ pending' = pending
    BY <1>14 DEF EndWorker
  <2>2. row'.status \notin {"running", "stopping"}
    BY <1>7, <1>14 DEF Active
  <2>3. WorkerOK'
    BY <2>1 DEF WorkerOK
  <2>4. PendingOK'
    BY <2>1, <2>2, <1>2, <1>3, <1>10, PendingOfWorker
  <2> QED BY <2>3, <2>4, <1>7, <1>9 DEF Inv
<1> QED BY <1>1, <1>11, <1>12, <1>13, <1>14 DEF AfterSettle

\* The chain grows by one invocation, or it has ended.
LEMMA AdvanceInv == ASSUME Inv, Advance PROVE Inv' /\ PaidStep
<1>1. PICK o \in Reach(AdvanceLookup(worker.call)) :
        /\ Do(o)
        /\ worker' = CASE o.code = "ok" -> [NoWorker EXCEPT !.pc = "claim", !.call = worker.call + 1]
                       [] o.code = "finished" -> NoWorker
                       [] OTHER -> [worker EXCEPT !.pc = "halt"]
  BY DEF Advance
<1>2. worker.pc = "advance" /\ pending' = pending /\ retry' = retry /\ sent' = sent
  BY DEF Advance
<1>3. worker.pc \in Pcs /\ worker.pc # "halt"
  BY <1>2 DEF Pcs
<1>4. /\ worker # NoWorker /\ pending = NoSave /\ Begun /\ RowOK
      /\ row.status \in {"running", "stopping"}
      /\ worker.call = Len(row.calls) /\ worker.call \in Invocations
  BY <1>3, WorkerFacts
<1>5. PICK k : k = worker.call
  OBVIOUS
<1>6. ProjectOK' /\ row' = o.row
  BY <1>1, DoProject DEF Inv
<1>7. /\ Good(o.row) /\ Keeps(row, o.row)
      /\ o.code = "ok" => /\ o.row.status = "running" /\ Len(o.row.calls) = k + 1
                          /\ o.row.calls[k + 1].state = "prepared" /\ k + 1 \in Invocations
      /\ o.code = "finished" => o.row.status \in Terminal
  <2>1. CASE o \in AdvanceLookup(k)
    <3>1. row.status \notin {"absent", "queued"}
      BY <1>4 DEF Begun
    <3> QED BY <2>1, <3>1, <1>4, <1>5, AdvanceGood
  <2>2. CASE o = [row |-> row, code |-> "PersistenceUnavailable"]
    <3>1. o.row = row /\ o.code = "PersistenceUnavailable"
      BY <2>2
    <3> QED BY <3>1, <1>4, SelfKeeps
  <2> QED BY <1>5, <2>1, <2>2, ReachIs
<1>8. RowOK' /\ SentOK' /\ PaidStep /\ Begun'
  BY <1>2, <1>4, <1>6, <1>7, RowStep
<1>9. row.status \in Terminal => row' = row
  BY <1>6, <1>7 DEF Keeps
<1>10. CASE o.code = "ok"
  <2>1. PICK m : m = k + 1
    OBVIOUS
  <2>2. worker' = [NoWorker EXCEPT !.pc = "claim", !.call = m]
    BY <1>1, <1>5, <1>10, <2>1
  <2>3. worker' = [pc |-> "claim", call |-> m, report |-> NoReport]
    BY <2>2 DEF NoWorker
  <2>4. /\ m \in Invocations /\ row'.status = "running" /\ m = Len(row'.calls)
        /\ row'.calls[m].state = "prepared"
    BY <1>6, <1>7, <1>10, <2>1
  <2>5. m \in Nat
    BY <2>4 DEF Invocations
  <2>6. worker' # NoWorker
    BY <2>3 DEF NoWorker
  <2>7. WorkerOK'
    BY <2>3, <2>4, <2>5, <1>2, <1>4, <1>8 DEF WorkerOK, Pcs
  <2>8. PendingOK'
    BY <2>6, <1>2, <1>3, <1>9, PendingOfWorker
  <2> QED BY <2>7, <2>8, <1>6, <1>8 DEF Inv
<1>11. CASE o.code = "finished"
  <2>1. worker' = NoWorker
    BY <1>1, <1>11
  <2>2. row'.status \notin {"running", "stopping"}
    BY <1>6, <1>7, <1>11 DEF Terminal
  <2>3. WorkerOK'
    BY <2>1 DEF WorkerOK
  <2>4. PendingOK'
    BY <2>2, <1>2, <1>3, <1>9, PendingOfWorker
  <2> QED BY <2>3, <2>4, <1>6, <1>8 DEF Inv
<1>12. CASE o.code \notin {"ok", "finished"}
  <2>1. worker' = [worker EXCEPT !.pc = "halt"]
    BY <1>1, <1>12
  <2>2. WorkerOK' /\ worker' # NoWorker
    BY <2>1, <1>2, <1>3, <1>8, WorkerHalts
  <2>3. PendingOK'
    BY <2>2, <1>2, <1>3, <1>9, PendingOfWorker
  <2> QED BY <2>2, <2>3, <1>6, <1>8 DEF Inv
<1> QED BY <1>10, <1>11, <1>12

\* A halted worker ends the chain, or retains the halt.
LEMMA HaltInv == ASSUME Inv, Halt PROVE Inv' /\ PaidStep
<1>1. PICK o \in Reach(HaltLookup) :
        Do(o) /\ EndWorker(IF o.code = "ok" THEN NoSave ELSE HaltSave)
  BY DEF Halt
<1>2. worker.pc = "halt" /\ retry' = retry /\ sent' = sent
  BY DEF Halt
<1>3. worker.pc \in Pcs
  BY <1>2 DEF Pcs
<1>4. /\ pending = NoSave /\ Begun /\ RowOK
      /\ retry \in {"idle", "active", "ended"} /\ (retry = "ended" => row.status \in Terminal)
  BY <1>3, WorkerFacts
<1>5. ProjectOK' /\ row' = o.row
  BY <1>1, DoProject DEF Inv
<1>6. Good(o.row) /\ Keeps(row, o.row) /\ (o.code = "ok" => o.row.status \in Terminal)
  <2>1. CASE o \in HaltLookup
    <3>1. row.status # "absent"
      BY <1>4 DEF Begun
    <3> QED BY <2>1, <3>1, <1>4, HaltGood
  <2>2. CASE o = [row |-> row, code |-> "PersistenceUnavailable"]
    <3>1. o.row = row /\ o.code # "ok"
      BY <2>2
    <3> QED BY <3>1, <1>4, SelfKeeps
  <2> QED BY <2>1, <2>2, ReachIs
<1>7. RowOK' /\ SentOK' /\ PaidStep /\ Begun'
  BY <1>2, <1>4, <1>5, <1>6, RowStep
<1>8. row.status \in Terminal => row' = row
  BY <1>5, <1>6 DEF Keeps
<1>9. worker' = NoWorker /\ pending' = IF o.code = "ok" THEN NoSave ELSE HaltSave
  BY <1>1, <1>4 DEF EndWorker
<1>10. WorkerOK'
  BY <1>9 DEF WorkerOK
<1>11. PendingOK'
  <2>1. HaltSave # NoSave
    BY DEF HaltSave, NoSave
  <2>2. row'.status # "absent"
    BY <1>7 DEF Begun
  <2>3. CASE o.code = "ok"
    <3>1. pending' = NoSave /\ row'.status \notin {"running", "stopping"}
      BY <2>3, <1>5, <1>6, <1>9 DEF Terminal
    <3> QED BY <3>1, <1>2, <1>4, <1>8 DEF PendingOK
  <2>4. CASE o.code # "ok"
    <3>1. pending' = HaltSave
      BY <2>4, <1>9
    <3> QED BY <3>1, <2>1, <2>2, <1>2, <1>4, <1>8 DEF PendingOK
  <2> QED BY <2>3, <2>4
<1> QED BY <1>5, <1>7, <1>10, <1>11 DEF Inv

-----------------------------------------------------------------------------
\* The theorems.

\* Nothing has begun: every part of the invariant holds.
LEMMA InitInv == ASSUME Init PROVE Inv
<1>1. row = NoRun /\ worker = NoWorker /\ pending = NoSave /\ retry = "idle"
      /\ sent = [k \in Invocations |-> 0]
      /\ project = [epoch |-> 0, policy |-> 0, fenced |-> FALSE, connected |-> TRUE]
  BY DEF Init
<1>2. /\ row.calls = <<>> /\ row.status = "absent" /\ row.reads = {}
  BY <1>1 DEF NoRun
<1>3. row \in Runs
  <2>1. PICK e, s : e = <<"none", 0>> /\ s = <<>>
    OBVIOUS
  <2>2. row = [status |-> "absent", epoch |-> 0, policy |-> 0, calls |-> s, reads |-> {},
               ended |-> e, reply |-> 0]
    BY <1>1, <2>1 DEF NoRun
  <2>3. e \in Ends /\ "absent" \in Statuses /\ 0 \in 0..3
    BY <2>1 DEF Ends, Statuses
  <2>4. s \in Seq(Calls)
    BY <2>1, EmptySeq
  <2> QED BY <2>2, <2>3, <2>4 DEF Runs
<1>4. Len(row.calls) = 0 /\ DOMAIN row.calls = 1..0
  <2>1. <<>> \in Seq(Calls) /\ Len(<<>>) = 0
    BY EmptySeq
  <2>2. DOMAIN <<>> = 1..0
    BY <2>1, LenProperties
  <2> QED BY <2>1, <2>2, <1>2
<1>5. InputSpent(row) = 0 /\ OutputSpent(row) = 0
  <2>1. \A k \in 1..3 : ResultOf(row, k) = NoResult
    BY <1>4 DEF ResultOf
  <2> QED BY <2>1 DEF InputSpent, OutputSpent, NoResult
<1>6. InputSpent(row) <= InputLimit /\ OutputSpent(row) <= OutputLimit
  BY <1>5, AllowanceAssumption
<1>7. ChainOK(row)
  BY <1>2, <1>3, <1>4, <1>6 DEF ChainOK
<1>8. StatusOK(row)
  BY <1>1, <1>2, <1>4 DEF StatusOK, Terminal
<1>9. SentOK
  BY <1>1 DEF SentOK
<1>10. WorkerOK /\ PendingOK /\ ProjectOK
  BY <1>1, <1>2 DEF WorkerOK, PendingOK, ProjectOK
<1> QED BY <1>7, <1>8, <1>9, <1>10 DEF Inv, RowOK

\* Every action keeps the invariant and pays only what is on record.
LEMMA NextInv == ASSUME Inv, Next PROVE Inv' /\ PaidStep
BY StartInv, BeginInv, StopInv, SignalInv, RetryStoreInv, RetryHaltInv, InterruptInv, ReopenInv,
   ClaimInv, InvokeInv, SendInv, AnswerInv, SettleInv, AdvanceInv, HaltInv DEF Next, Work

\* A stuttering step keeps both.
LEMMA StutterInv == ASSUME Inv, UNCHANGED vars PROVE Inv' /\ PaidStep
<1>1. /\ row' = row /\ project' = project /\ worker' = worker /\ pending' = pending
      /\ retry' = retry /\ sent' = sent
  BY DEF vars, actorVars, deskVars
<1>2. RowOK' /\ SentOK' /\ PaidStep
  BY <1>1, RowStands
<1>3. WorkerOK' /\ PendingOK' /\ ProjectOK'
  BY <1>1 DEF Inv, WorkerOK, PendingOK, ProjectOK, Begun
<1> QED BY <1>2, <1>3 DEF Inv

\* The invariant holds in every state of every behaviour.
LEMMA InvAlways == Spec => []Inv
<1>1. Inv /\ [Next]_vars => Inv'
  BY NextInv, StutterInv
<1> QED BY InitInv, <1>1, PTL DEF Spec

\* What a chain that stands owes to the checks of a backup.
LEMMA ChainPasses ==
  ASSUME NEW r, ChainOK(r), StatusOK(r)
  PROVE  /\ InvocationsValid(r) /\ ResultsValid(r) /\ ReadsValid(r)
         /\ TerminalConsistent(r) <=> ~FirstAnswerOutrun(r)
<1>1. /\ Len(r.calls) \in 0..3 /\ DOMAIN r.calls = 1..Len(r.calls)
      /\ \A k \in 1..Len(r.calls) : r.calls[k] \in Calls
  BY ChainShape
<1>2. \A k \in 1..Len(r.calls) : CallOK(r.calls[k])
  BY DEF ChainOK
<1>3. \A k \in 1..Len(r.calls) : k < Len(r.calls) =>
        r.calls[k].state = "needs_context" /\ r.calls[k].result # NoResult
        /\ r.calls[k].result.parsed = "needs"
  BY <1>2, NeedsAsked DEF ChainOK
<1>4. InvocationsValid(r)
  <2>1. ASSUME NEW k \in 1..Len(r.calls)
        PROVE  /\ k \in Invocations
               /\ k > 1 => /\ r.calls[k - 1].state = "needs_context"
                           /\ r.calls[k].exchanges = ReadsThrough(r, k - 1)
               /\ r.calls[k].state \in {"needs_context", "completed", "failed"} =>
                    r.calls[k].result # NoResult /\ r.calls[k].result.cleanup = "settled"
               /\ r.calls[k].state \in {"prepared", "claimed"} => r.calls[k].result = NoResult
    <3>1. k \in Invocations
      BY <1>1 DEF Invocations
    <3>2. ASSUME k > 1
          PROVE  /\ r.calls[k - 1].state = "needs_context"
                 /\ r.calls[k].exchanges = ReadsThrough(r, k - 1)
      <4>1. k - 1 \in 1..Len(r.calls) /\ k - 1 < Len(r.calls)
        BY <3>2, <1>1
      <4> QED BY <4>1, <3>2, <1>3 DEF ChainOK
    <3>3. CallOK(r.calls[k])
      BY <1>2
    <3>4. r.calls[k].result.cleanup \in Cleanups
      BY <1>1 DEF Calls, Results
    <3>5. ASSUME r.calls[k].state \in {"needs_context", "completed", "failed"}
          PROVE  r.calls[k].result # NoResult /\ r.calls[k].result.cleanup = "settled"
      <4>1. r.calls[k].result # NoResult /\ ResultOK(r.calls[k])
        BY <3>3, <3>5 DEF CallOK
      <4>2. CASE r.calls[k].result.parsed # "none"
        BY <4>1, <4>2 DEF ResultOK
      <4>3. CASE r.calls[k].result.parsed = "none"
        BY <4>1, <4>3, <3>4, <3>5 DEF ResultOK, OutcomeState, Cleanups
      <4> QED BY <4>1, <4>2, <4>3
    <3> QED BY <3>1, <3>2, <3>3, <3>5 DEF CallOK
  <2> QED BY <2>1, <1>1 DEF InvocationsValid
<1>5. ResultsValid(r)
  <2>1. InputSpent(r) <= InputLimit /\ OutputSpent(r) <= OutputLimit
    BY DEF ChainOK
  <2> QED BY <2>1, <1>1, <1>2 DEF ResultsValid, CallOK, ResultOK
<1>6. ReadsValid(r)
  <2> SUFFICES ASSUME NEW read \in r.reads
               PROVE  /\ r.calls[read[1]].state = "needs_context"
                      /\ read[2] \in r.calls[read[1]].result.reads
                      /\ read[1] < Len(r.calls)
                      /\ read[2] \in r.calls[read[1] + 1].exchanges
    BY DEF ReadsValid
  <2>1. read[1] < Len(r.calls) /\ read[2] \in r.calls[read[1]].result.reads /\ read[1] \in 1..3
    BY DEF ChainOK, Runs, Invocations
  <2>2. PICK i, id : i = read[1] /\ id = read[2]
    OBVIOUS
  <2>3. i \in 1..Len(r.calls) /\ i + 1 \in 1..Len(r.calls) /\ i + 1 > 1 /\ (i + 1) - 1 = i /\ i \in 1..i
    <3>1. PICK m : m = Len(r.calls)
      OBVIOUS
    <3>2. m \in 0..3 /\ i \in 1..3 /\ i < m
      BY <2>1, <2>2, <3>1, <1>1
    <3>3. i \in 1..m /\ i + 1 \in 1..m /\ i + 1 > 1 /\ (i + 1) - 1 = i /\ i \in 1..i
      BY <3>2
    <3> QED BY <3>1, <3>3
  <2>4. r.calls[i + 1].exchanges = ReadsThrough(r, i)
    BY <2>3 DEF ChainOK
  <2>5. id \in ReadsThrough(r, i)
    BY <2>1, <2>2, <2>3 DEF ReadsThrough
  <2> QED BY <2>1, <2>2, <2>3, <2>4, <2>5, <1>3
<1>7. \A k \in 1..Len(r.calls) :
        r.calls[k].result.parsed = "discussion" =>
          k = Len(r.calls) /\ r.calls[k].state = "completed"
  <2>1. ASSUME NEW k \in 1..Len(r.calls), r.calls[k].result.parsed = "discussion"
        PROVE  k = Len(r.calls) /\ r.calls[k].state = "completed"
    <3>1. r.calls[k].result # NoResult
      BY <2>1 DEF NoResult
    <3>2. r.calls[k].state = "completed"
      BY <3>1, <2>1, <1>2 DEF CallOK, ResultOK, OutcomeState
    <3>3. ~(k < Len(r.calls))
      BY <3>2, <1>3
    <3>4. k = Len(r.calls)
      BY <3>3, <1>1
    <3> QED BY <3>2, <3>4
  <2> QED BY <2>1
<1>8. Discussions(r) = {} \/ (Discussions(r) = {Len(r.calls)} /\ Len(r.calls) \in 1..Len(r.calls)
                              /\ r.calls[Len(r.calls)].result.parsed = "discussion")
  BY <1>1, <1>7 DEF Discussions
<1>9. ASSUME ~FirstAnswerOutrun(r) PROVE TerminalConsistent(r)
  <2> DEFINE last == {k \in DOMAIN r.calls :
                    /\ r.calls[k].result # NoResult
                    /\ r.calls[k].state \in {"completed", "failed", "stopped", "unknown"}}
  <2>1. ASSUME r.status \in Terminal
        PROVE  /\ r.ended # NoRun.ended
               /\ last # {} => \E k \in last : r.ended = <<"finish", k>>
               /\ r.status # "completed" => r.reply = 1
    <3>1. r.ended # <<"none", 0>> /\ NoRun.ended = <<"none", 0>>
      BY <2>1 DEF StatusOK, NoRun
    <3>2. \A k \in last : r.ended = <<"finish", k>>
      BY <2>1, <1>1 DEF StatusOK
    <3>3. last # {} => \E k \in last : r.ended = <<"finish", k>>
      BY <3>2
    <3>4. r.status # "completed" => r.reply = 1
      BY <2>1 DEF StatusOK
    <3> QED BY <3>1, <3>3, <3>4
  <2>2. ASSUME r.status = "completed"
        PROVE  Discussions(r) = {Len(r.calls)} /\ r.reply = Len(r.calls)
    <3>1. Len(r.calls) >= 1 /\ r.reply = Len(r.calls)
          /\ r.calls[Len(r.calls)].result.parsed = "discussion"
      BY <2>2 DEF StatusOK
    <3>2. PICK m : m = Len(r.calls)
      OBVIOUS
    <3>3. m \in 1..m
      BY <3>1, <3>2, <1>1
    <3>4. m \in Discussions(r)
      BY <3>1, <3>2, <3>3, <1>1 DEF Discussions
    <3> QED BY <3>1, <3>2, <3>4, <1>8
  <2>3. ASSUME r.status # "completed", Discussions(r) # {}
        PROVE  /\ r.status \in {"stopped", "interrupted"} /\ Cardinality(Discussions(r)) = 1
               /\ \A k \in Discussions(r) : r.reply # k
    <3>1. /\ Discussions(r) = {Len(r.calls)} /\ Len(r.calls) \in 1..Len(r.calls)
          /\ r.calls[Len(r.calls)].result.parsed = "discussion"
      BY <2>3, <1>8
    <3>2. r.calls[Len(r.calls)].state = "completed"
      BY <3>1, <1>7
    <3>3. r.status \in Terminal
      BY <3>1, <3>2 DEF StatusOK
    <3>4. r.status = "stopped"
      BY <3>1, <3>3, <2>3 DEF StatusOK
    <3>5. Cardinality(Discussions(r)) = 1
      BY <3>1, FS_Singleton
    <3>6. r.reply = 1
      BY <3>4 DEF StatusOK, Terminal
    <3>7. 1 \notin Discussions(r)
      BY <3>4, <1>9 DEF FirstAnswerOutrun
    <3> QED BY <3>4, <3>5, <3>6, <3>7
  <2> HIDE DEF last
  <2> QED BY <2>1, <2>2, <2>3, Zenon DEF TerminalConsistent, Published, last
<1>10. ASSUME FirstAnswerOutrun(r) PROVE ~TerminalConsistent(r)
  <2>1. r.status = "stopped" /\ r.status # "completed" /\ 1 \in Discussions(r)
    BY <1>10 DEF FirstAnswerOutrun
  <2>2. r.reply = 1
    BY <2>1 DEF StatusOK, Terminal
  <2> QED BY <2>1, <2>2 DEF TerminalConsistent, Published
<1> QED BY <1>4, <1>5, <1>6, <1>9, <1>10

\* The chain passes the checks of a backup, except exactly when a Stop outran
\* the final answer of its first invocation, and is never stuck
\* (validate_storage, DiscussionRecovery): an ended chain has no invocation
\* that may still be called, an active one has its worker or a retained
\* outcome, and what is retained can be saved or is known to be impossible.
THEOREM ChainTheorem == Spec => []ChainStands
<1>1. Inv => ChainStands
  <2> SUFFICES ASSUME Inv PROVE ChainStands
    OBVIOUS
  <2>1. ChainOK(row) /\ StatusOK(row) /\ SentOK /\ PendingOK
    BY DEF Inv, RowOK
  <2>2. /\ InvocationsValid(row) /\ ResultsValid(row) /\ ReadsValid(row)
        /\ TerminalConsistent(row) <=> ~FirstAnswerOutrun(row)
    BY <2>1, ChainPasses
  <2>3. ASSUME row.status \in Terminal, NEW k \in DOMAIN row.calls
        PROVE  /\ row.calls[k].state # "claimed"
               /\ row.calls[k].state = "prepared" => sent[k] = 0
    <3>1. k \in 1..Len(row.calls) /\ k \in Invocations
      BY <2>1, ChainShape DEF Invocations
    <3>2. row.calls[k].state # "claimed"
      BY <3>1, <2>1, <2>3 DEF StatusOK
    <3>3. sent[k] \in Nat /\ (sent[k] > 0 => row.calls[k].state # "prepared")
      BY <3>1, <2>1 DEF SentOK
    <3> QED BY <3>2, <3>3
  <2>4. row.status \in {"running", "stopping"} => worker # NoWorker \/ pending # NoSave
    BY <2>1 DEF PendingOK
  <2>5. ASSUME pending.kind = "report", project.connected, row.status \in Active
        PROVE  \E o \in Reach(SettleInvocation(pending.report.ordinal, pending.report)) :
                 o.code = "ok" \/ Rejected(o.code)
    <3>1. pending # NoSave /\ pending # HaltSave
      BY <2>5 DEF NoSave, HaltSave
    <3>2. row.status \in {"running", "stopping"}
      BY <3>1, <2>1, <2>5 DEF PendingOK, Begun, Active
    <3>3. \E o \in SettleInvocation(pending.report.ordinal, pending.report) :
            o.code = "ok" \/ Rejected(o.code)
      BY <3>2, ReportCanSettle
    <3>4. SettleInvocation(pending.report.ordinal, pending.report)
            \subseteq Reach(SettleInvocation(pending.report.ordinal, pending.report))
      BY <2>5 DEF Reach, Reached
    <3> QED BY <3>3, <3>4
  <2> QED BY <2>2, <2>3, <2>4, <2>5 DEF ChainStands
<1> QED BY <1>1, InvAlways, PTL

\* Every paid call is on record before it is made and is made once, what it
\* brought stays, an ended chain stands, and nothing is published after a Stop
\* (lookup_discussion::run_loop, claim_lookup_invocation).
THEOREM PaidTheorem == Spec => PaidOnRecord
<1>1. Inv /\ [Next]_vars => [PaidStep]_vars
  BY NextInv
<1> QED BY <1>1, InvAlways, PTL DEF Spec, PaidOnRecord, PaidStep
=============================================================================
