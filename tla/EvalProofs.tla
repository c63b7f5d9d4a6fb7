----------------------------- MODULE EvalProofs -----------------------------
(***************************************************************************)
(* The safety of Eval for any golden set, metrics, thresholds, number of   *)
(* executions and of failures.  ResultOK follows the entries through an    *)
(* execution, BaselineOK relates the baseline read to the file, RowsOK     *)
(* dates the row of the execution in hand, and LogOK says whose rows the   *)
(* log of the workers holds.                                               *)
(***************************************************************************)
EXTENDS Eval, TLAPS

Before == {"load", "token", "probe", "baseline"}
Asking == {"retrieve", "generate"}
After  == {"persist", "gates", "create"}

ResultOK ==
  /\ pc \in {"idle", "ended"} \cup Before \cup Asking \cup After
  /\ n \in Nat
  /\ inv \in Commands
  /\ DOMAIN result \subseteq Entries
  /\ \A e \in DOMAIN result : result[e].status \in {"ok", "failed"}
  /\ pc \in Before => todo = Entries /\ result = Empty
  /\ pc \in Asking => todo \cup DOMAIN result = Entries
  /\ pc \in After => DOMAIN result = Entries

MetricsOK ==
  /\ \A m \in DOMAIN metrics : m \in Metrics /\ metrics[m] \in Scores \cup {NaN}
  /\ ~Live => metrics = Empty

\* What a readable baseline file holds.
Baseline(f) ==
  /\ \A m \in DOMAIN f.metrics : f.metrics[m] \in Int \cup {NaN}
  /\ 100 * f.errors <= ErrorThreshold * f.entries

BaselineOK ==
  /\ Readable(file) => Baseline(file)
  /\ base # Absent => inv.baseline /\ base = file /\ Readable(file)
  /\ (pc \in Asking \cup {"persist", "gates"} /\ inv.baseline) => base = file
  /\ pc = "create" => /\ inv.baseline /\ base = Absent /\ file = Torn
                      /\ ~TooManyErrors(result)

RowsOK ==
  /\ DOMAIN rows \subseteq 0 .. n
  /\ n \in DOMAIN rows => pc \in {"gates", "create", "ended"}
  /\ (pc \in {"gates", "create"} /\ inv.persist) => n \in DOMAIN rows

LogOK ==
  /\ pc \notin Asking => late = {} /\ log = {} /\ unlogged = {}
  /\ \A row \in log : row[1] = <<n, row[2]>>

Inv == /\ ResultOK /\ MetricsOK /\ BaselineOK /\ RowsOK /\ LogOK
       /\ ExitZeroMeansPassed /\ RowTellsRun /\ AnsweredIsLogged

-----------------------------------------------------------------------------
(* What the proofs use about Cardinality.  It is proved at the end, where  *)
(* FiniteSetTheorems is brought in.                                        *)
CountingFacts == \A S \in SUBSET Entries : Cardinality(S) \in Nat

\* Nothing is in the domain of the empty function.
LEMMA EmptyDomain == DOMAIN Empty = {}
BY DEF Empty

\* Only the live command persists.
LEMMA PersistIsLive ==
  ASSUME inv \in Commands, inv.persist
  PROVE  Live /\ ~inv.baseline
BY DEF Commands, Live

\* The files there may be at first.
LEMMA InitInv == Init => Inv
<1> SUFFICES ASSUME Init PROVE Inv
  OBVIOUS
<1>1. ResultOK
  BY EmptyDomain DEF Init, ResultOK, Before, Asking, After
<1>2. MetricsOK
  BY EmptyDomain DEF Init, MetricsOK
<1>3. BaselineOK
  BY InitialAssumption DEF Init, BaselineOK, Baseline, Readable, Asking
<1>4. RowsOK
  BY EmptyDomain DEF Init, RowsOK
<1>5. LogOK
  BY DEF Init, LogOK
<1>6. ExitZeroMeansPassed /\ RowTellsRun /\ AnsweredIsLogged
  BY EmptyDomain DEF Init, ExitZeroMeansPassed, RowTellsRun, AnsweredIsLogged
<1> QED BY <1>1, <1>2, <1>3, <1>4, <1>5, <1>6 DEF Inv

-----------------------------------------------------------------------------
(* The verdict is given at the end only, and the log is looked at while    *)
(* entries are asked only.                                                 *)

LEMMA NoVerdict ==
  ASSUME pc' # "ended" \/ exit' # 0
  PROVE  ExitZeroMeansPassed'
BY DEF ExitZeroMeansPassed

LEMMA NotAsking ==
  ASSUME pc' \notin Asking
  PROVE  AnsweredIsLogged'
BY DEF AnsweredIsLogged, Asking

\* An execution starts: the row of the last one is not its own.
LEMMA StartInv ==
  ASSUME Inv, NEW command \in Commands, Start(command)
  PROVE  Inv'
<1>1. ResultOK'
  BY EmptyDomain DEF Inv, Start, ResultOK, Before, Asking, After
<1>2. MetricsOK'
  BY EmptyDomain DEF Inv, Start, MetricsOK
<1>3. BaselineOK'
  BY DEF Inv, Start, BaselineOK, Baseline, Readable, Asking, stored
<1>4. n' \notin DOMAIN rows
  BY DEF Inv, Start, RowsOK, ResultOK
<1>5. RowsOK'
  BY <1>4 DEF Inv, Start, RowsOK, ResultOK, stored
<1>6. LogOK'
  BY DEF Inv, Start, LogOK, worker, Asking
<1>7. ExitZeroMeansPassed' /\ AnsweredIsLogged'
  BY NoVerdict, NotAsking DEF Start, Asking
<1>8. RowTellsRun'
  BY <1>4 DEF Inv, Start, RowTellsRun, stored
<1> QED BY <1>1, <1>2, <1>3, <1>5, <1>6, <1>7, <1>8 DEF Inv

\* An execution ends with another code than 0.
LEMMA EndInv ==
  ASSUME Inv, NEW code \in 1 .. 5, End(code), UNCHANGED stored,
         \/ pc \notin Asking /\ UNCHANGED worker
         \/ late' = {} /\ log' = {} /\ unlogged' = {}
  PROVE  Inv'
<1>0. pc' = "ended" /\ exit' # 0
  BY DEF End, Ends
<1>1. ResultOK'
  BY DEF Inv, End, Ends, ResultOK, Before, Asking, After
<1>2. MetricsOK'
  BY DEF Inv, End, Ends, MetricsOK, Live
<1>3. BaselineOK'
  BY DEF Inv, End, Ends, BaselineOK, Baseline, Readable, Asking, stored
<1>4. RowsOK'
  BY DEF Inv, End, Ends, RowsOK, stored
<1>5. LogOK'
  BY DEF Inv, End, Ends, LogOK, Asking, worker
<1>6. ExitZeroMeansPassed' /\ AnsweredIsLogged'
  BY <1>0, NoVerdict, NotAsking DEF Asking
<1>7. RowTellsRun'
  BY <1>0, ZenonT(60)
  DEF Inv, End, Ends, RowTellsRun, stored, Report, Overlap, Recall, CanonOk, Failed
<1> QED BY <1>1, <1>2, <1>3, <1>4, <1>5, <1>6, <1>7 DEF Inv

\* Before the first entry, an execution goes from stage to stage.
LEMMA StageInv ==
  ASSUME Inv, NEW stage \in Before, pc \in Before, GoTo(stage), UNCHANGED <<stored, worker>>
  PROVE  Inv'
<1>1. ResultOK'
  BY DEF Inv, GoTo, ResultOK, Before, Asking, After
<1>2. MetricsOK'
  BY DEF Inv, GoTo, MetricsOK, Live
<1>3. BaselineOK'
  BY DEF Inv, GoTo, BaselineOK, Baseline, Readable, Before, Asking, stored
<1>4. RowsOK'
  BY DEF Inv, GoTo, RowsOK, Before, stored
<1>5. LogOK'
  BY DEF Inv, GoTo, LogOK, Before, Asking, worker
<1>6. ExitZeroMeansPassed' /\ AnsweredIsLogged'
  BY NoVerdict, NotAsking DEF GoTo, Before, Asking
<1>7. RowTellsRun'
  BY ZenonT(60) DEF Inv, GoTo, RowTellsRun, stored, Report, Overlap, Recall, CanonOk, Failed, Before
<1> QED BY <1>1, <1>2, <1>3, <1>4, <1>5, <1>6, <1>7 DEF Inv

\* The baseline is read, unless it is torn or not asked for.
LEMMA LoadBaselineInv ==
  ASSUME Inv, LoadBaseline
  PROVE  Inv'
<1>1. CASE inv.baseline /\ file = Torn
  <2>1. End(2) /\ UNCHANGED stored /\ UNCHANGED worker /\ pc \notin Asking
    BY <1>1 DEF LoadBaseline, Asking
  <2> QED BY <2>1, EndInv
<1>2. CASE ~(inv.baseline /\ file = Torn)
  <2>0. /\ pc = "baseline" /\ pc' = "retrieve"
        /\ base' = IF inv.baseline THEN file ELSE Absent
        /\ UNCHANGED <<n, inv, todo, result, metrics, file, rows, late, log, unlogged>>
    BY <1>2 DEF LoadBaseline, stored, worker
  <2>1. ResultOK'
    BY <2>0, EmptyDomain DEF Inv, ResultOK, Before, Asking, After
  <2>2. MetricsOK'
    BY <2>0 DEF Inv, MetricsOK, Live
  <2>3. BaselineOK'
    BY <1>2, <2>0 DEF Inv, BaselineOK, Baseline, Readable, Asking
  <2>4. RowsOK'
    BY <2>0 DEF Inv, RowsOK
  <2>5. LogOK'
    BY <2>0 DEF Inv, LogOK, Asking
  <2>6. ExitZeroMeansPassed'
    BY <2>0, NoVerdict
  <2>7. AnsweredIsLogged'
    BY <2>0, EmptyDomain DEF Inv, ResultOK, Before, AnsweredIsLogged
  <2>8. RowTellsRun'
    BY <2>0 DEF Inv, RowTellsRun, RowsOK
  <2> QED BY <2>1, <2>2, <2>3, <2>4, <2>5, <2>6, <2>7, <2>8 DEF Inv
<1> QED BY <1>1, <1>2

-----------------------------------------------------------------------------
(* The entries. *)

\* What no step of the loop over the entries changes.
Held == UNCHANGED <<n, inv, base, metrics, file, rows>>

\* A step of the loop that keeps what ResultOK, LogOK and AnsweredIsLogged say.
LEMMA LoopInv ==
  ASSUME Inv, Held, pc \in Asking, pc' \in Asking, ResultOK', LogOK', AnsweredIsLogged'
  PROVE  Inv'
<1>1. MetricsOK'
  BY DEF Inv, Held, MetricsOK, Live
<1>2. BaselineOK'
  BY DEF Inv, Held, BaselineOK, Baseline, Readable, Asking
<1>3. RowsOK'
  BY DEF Inv, Held, RowsOK, Asking
<1>4. ExitZeroMeansPassed'
  BY NoVerdict DEF Asking
<1>5. RowTellsRun'
  BY DEF Inv, Held, RowTellsRun, RowsOK, Asking
<1> QED BY <1>1, <1>2, <1>3, <1>4, <1>5 DEF Inv

\* The workers store the row of an entry, or fail to: the only other row with the
\* same id is a row of the same entry.
LEMMA LogRowStep ==
  ASSUME Inv, NEW e \in Entries, LogRow(e), UNCHANGED n, pc' \in Asking
  PROVE  /\ LogOK'
         /\ log \subseteq log' /\ unlogged \subseteq unlogged'
         /\ e \in unlogged' \/ \E row \in log' : row[2] = e
<1>0. \A row \in log : row[1] = <<n, row[2]>>
  BY DEF Inv, LogOK
<1>1. CASE (\E row \in log : row[1] = RequestId(e)) /\ UNCHANGED <<log, unlogged>>
  BY <1>0, <1>1 DEF LogOK, RequestId
<1>2. CASE log' = log \cup {<<RequestId(e), e>>} /\ UNCHANGED unlogged
  <2> DEFINE new == <<RequestId(e), e>>
  <2>1. new[1] = <<n, new[2]>> /\ new[2] = e
    BY DEF RequestId
  <2>2. log' = log \cup {new}
    BY <1>2
  <2> HIDE DEF new
  <2>3. \A row \in log' : row[1] = <<n', row[2]>>
    BY <1>0, <2>1, <2>2, Zenon
  <2>4. \E row \in log' : row[2] = e
    BY <2>1, <2>2
  <2> QED BY <1>2, <2>3, <2>4 DEF LogOK
<1>3. CASE unlogged' = unlogged \cup {e} /\ UNCHANGED log
  BY <1>0, <1>3 DEF LogOK
<1> QED BY <1>1, <1>2, <1>3 DEF LogRow

\* The entry in hand is done; an answer of the model has been logged.
LEMMA RecordInv ==
  ASSUME Inv, NEW e \in Entries, pc \in Asking, NEW outcome, Record(e, outcome),
         outcome.status \in {"ok", "failed"}, LogOK',
         log \subseteq log', unlogged \subseteq unlogged',
         (Live /\ outcome.status = "ok") => (e \in unlogged' \/ \E row \in log' : row[2] = e)
  PROVE  Inv'
<1>0. /\ Held /\ pc' = "retrieve" /\ todo' = todo \ {e}
      /\ DOMAIN result' = DOMAIN result \cup {e}
      /\ \A d \in DOMAIN result' : result'[d] = IF d = e THEN outcome ELSE result[d]
  BY DEF Record, Held, stored
<1>1. ResultOK'
  BY <1>0 DEF Inv, ResultOK, Held, Before, Asking, After
<1>2. AnsweredIsLogged'
  <2> SUFFICES ASSUME Live, NEW d \in DOMAIN result', result'[d].status = "ok"
               PROVE  d \in unlogged' \/ \E row \in log' : row[2] = d
    BY <1>0 DEF AnsweredIsLogged, Live, Held
  <2>1. CASE d = e
    BY <1>0, <2>1
  <2>2. CASE d # e
    BY <1>0, <2>2 DEF Inv, AnsweredIsLogged, Asking
  <2> QED BY <2>1, <2>2
<1> QED BY <1>0, <1>1, <1>2, LoopInv DEF Asking

\* The request is sent again, or the entry fails after its last attempt.
LEMMA AgainInv ==
  ASSUME Inv, NEW e \in Entries, pc \in Asking, Again(e) \/ Fail(e), LogOK',
         log \subseteq log', unlogged \subseteq unlogged'
  PROVE  Inv'
<1>1. CASE Fail(e)
  <2> DEFINE failed == [status |-> "failed", hit |-> 0, found |-> 0]
  <2>1. Record(e, failed) /\ failed.status = "failed"
    BY <1>1 DEF Fail
  <2> HIDE DEF failed
  <2> QED BY <2>1, RecordInv
<1>2. CASE ~Fail(e)
  <2>1. Held /\ UNCHANGED <<pc, todo, result>>
    BY <1>2 DEF Again, Held, stored
  <2>2. ResultOK'
    BY <2>1 DEF Inv, ResultOK, Held
  <2>3. AnsweredIsLogged'
    BY <2>1 DEF Inv, AnsweredIsLogged, Held, Live
  <2> QED BY <2>1, <2>2, <2>3, LoopInv
<1> QED BY <1>1, <1>2

LEMMA AskInv ==
  ASSUME Inv, NEW e \in Entries, Ask(e)
  PROVE  Inv'
<1>0. pc \in Asking /\ pc' \in Asking /\ UNCHANGED n
  BY DEF Ask, Retrieve, Answer, ModelFails, Busy, TimeOut, Reject, Again, Fail, Record, Asking
<1>1. ASSUME UNCHANGED <<log, unlogged>>
      PROVE  LogOK' /\ log \subseteq log' /\ unlogged \subseteq unlogged'
  BY <1>0, <1>1 DEF Inv, LogOK
<1>2. \A outcome \in Answered(e) : outcome.status = "ok"
  BY DEF Answered
<1>3. CASE Retrieve(e)
  <2>1. UNCHANGED <<log, unlogged>>
    BY <1>3 DEF Retrieve, worker
  <2>2. CASE ~Live /\ \E outcome \in Answered(e) : Record(e, outcome)
    BY <1>0, <1>1, <1>2, <2>1, <2>2, RecordInv
  <2>3. CASE Live /\ pc' = "generate" /\ Held /\ UNCHANGED <<todo, result>>
    <3>1. ResultOK'
      BY <1>0, <2>3, Zenon DEF Inv, ResultOK, Held, Before, Asking, After
    <3>2. AnsweredIsLogged'
      BY <1>0, <2>1, <2>3 DEF Inv, AnsweredIsLogged, Asking, Held, Live
    <3> QED BY <1>0, <1>1, <2>1, <2>3, <3>1, <3>2, LoopInv
  <2>4. CASE Again(e) \/ Fail(e)
    BY <1>0, <1>1, <2>1, <2>4, AgainInv
  <2> QED BY <1>3, <2>2, <2>3, <2>4 DEF Retrieve, Held, stored
<1>4. CASE Answer(e)
  BY <1>0, <1>2, <1>4, LogRowStep, RecordInv DEF Answer
<1>5. CASE ModelFails(e)
  BY <1>0, <1>5, LogRowStep, AgainInv DEF ModelFails
<1>6. CASE Busy(e)
  BY <1>0, <1>1, <1>6, AgainInv DEF Busy, worker
<1>7. CASE TimeOut(e)
  BY <1>0, <1>1, <1>7, AgainInv DEF TimeOut
<1>8. CASE Reject(e)
  BY <1>0, <1>1, <1>8, AgainInv DEF Reject, worker
<1> QED BY <1>3, <1>4, <1>5, <1>6, <1>7, <1>8, ZenonT(60) DEF Ask

\* A request nobody waits for ends while entries are being asked.
LEMMA FinishLateInv ==
  ASSUME Inv, NEW e \in Entries, FinishLate(e)
  PROVE  Inv'
<1>0. Held /\ UNCHANGED <<pc, todo, result>> /\ pc \in Asking
  BY DEF FinishLate, Held, stored, Inv, LogOK
<1>1. LogOK' /\ log \subseteq log' /\ unlogged \subseteq unlogged'
  <2>1. CASE LogRow(e)
    BY <1>0, <2>1, LogRowStep DEF Held
  <2>2. CASE UNCHANGED <<log, unlogged>>
    BY <1>0, <2>2 DEF Inv, LogOK, Held
  <2> QED BY <2>1, <2>2 DEF FinishLate
<1>2. ResultOK'
  BY <1>0 DEF Inv, ResultOK, Held
<1>3. AnsweredIsLogged'
  BY <1>0, <1>1 DEF Inv, AnsweredIsLogged, Held, Live
<1> QED BY <1>0, <1>1, <1>2, <1>3, LoopInv

-----------------------------------------------------------------------------
(* After the last entry. *)

LEMMA JudgeInv ==
  ASSUME Inv, Judge
  PROVE  Inv'
<1>0. /\ pc = "retrieve" /\ pc' = "persist" /\ todo = {}
      /\ UNCHANGED <<n, inv, base, todo, result, file, rows>>
  BY DEF Judge, stored
<1>1. ResultOK'
  BY <1>0 DEF Inv, ResultOK, Before, Asking, After
<1>2. MetricsOK'
  <2>1. CASE metrics' = Empty
    BY <2>1, EmptyDomain DEF MetricsOK
  <2>2. CASE Live /\ metrics' \in [Metrics -> Scores \cup {NaN}]
    BY <1>0, <2>2 DEF MetricsOK, Live
  <2> QED BY <2>1, <2>2 DEF Judge
<1>3. BaselineOK'
  BY <1>0 DEF Inv, BaselineOK, Baseline, Readable, Asking
<1>4. RowsOK'
  BY <1>0 DEF Inv, RowsOK
<1>5. LogOK'
  BY DEF Judge, LogOK
<1>6. ExitZeroMeansPassed' /\ AnsweredIsLogged'
  BY <1>0, NoVerdict, NotAsking DEF Asking
<1>7. RowTellsRun'
  BY <1>0, Zenon DEF Inv, RowTellsRun, RowsOK
<1> QED BY <1>1, <1>2, <1>3, <1>4, <1>5, <1>6, <1>7 DEF Inv

\* A report is of the results and the metrics it is made from.
LEMMA ReportKept ==
  ASSUME UNCHANGED <<result, metrics>>
  PROVE  UNCHANGED Report(result, metrics)
BY DEF Report, Overlap, Recall, CanonOk, Failed

\* The row is added, and the execution goes on to the gates or fails.
LEMMA AddRowStep ==
  ASSUME Inv, AddRow, pc = "persist", DOMAIN metrics = Metrics,
         UNCHANGED <<n, inv, result, metrics>>,
         pc' = "gates" \/ (pc' = "ended" /\ exit' # 0)
  PROVE  RowsOK' /\ RowTellsRun'
<1>0. /\ DOMAIN rows' = DOMAIN rows \cup {n}
      /\ rows'[n] = Report(result, metrics)
      /\ \A k \in DOMAIN rows : k # n => rows'[k] = rows[k]
  BY DEF AddRow
<1>1. n \in 0 .. n
  BY DEF Inv, ResultOK
<1>2. RowsOK'
  BY <1>0, <1>1 DEF Inv, RowsOK
<1>3. Report(result, metrics).metrics = metrics
  BY DEF Report
<1>4. RowTellsRun'
  BY <1>0, <1>3, ReportKept DEF Inv, RowTellsRun
<1> QED BY <1>2, <1>4

\* Past the entries, a step that keeps what is reported.
Settled == UNCHANGED <<n, inv, base, result, metrics, late, log, unlogged>>

\* A step to the gates or to the end, with the parts it can disturb.
LEMMA AfterInv ==
  ASSUME Inv, Settled, pc \in After, pc' \in {"gates", "create", "ended"},
         BaselineOK', RowsOK', RowTellsRun', ExitZeroMeansPassed'
  PROVE  Inv'
<1>1. ResultOK'
  BY DEF Inv, Settled, ResultOK, Before, Asking, After
<1>2. MetricsOK'
  BY DEF Inv, Settled, MetricsOK, Live
<1>3. LogOK'
  BY DEF Inv, Settled, LogOK, Asking, After
<1>4. AnsweredIsLogged'
  BY NotAsking DEF Asking
<1> QED BY <1>1, <1>2, <1>3, <1>4 DEF Inv

LEMMA MaybePersistInv ==
  ASSUME Inv, MaybePersist
  PROVE  Inv'
<1>0. pc = "persist" /\ UNCHANGED <<file, late, log, unlogged>>
  BY DEF MaybePersist, worker
<1>1. CASE ~(inv.persist /\ Live) /\ GoTo("gates") /\ UNCHANGED rows
  <2>0. Settled /\ pc' = "gates" /\ ~inv.persist /\ UNCHANGED rows
    BY <1>0, <1>1, PersistIsLive DEF GoTo, Settled, Inv, ResultOK
  <2>1. BaselineOK'
    BY <1>0, <2>0 DEF Inv, BaselineOK, Baseline, Readable, Settled, Asking
  <2>2. RowsOK'
    BY <1>0, <2>0 DEF Inv, RowsOK, Settled
  <2>3. RowTellsRun'
    BY <1>0, <2>0 DEF Inv, RowTellsRun, RowsOK, Settled
  <2> QED BY <1>0, <2>0, <2>1, <2>2, <2>3, NoVerdict, AfterInv DEF After
<1>2. CASE End(4) /\ UNCHANGED rows
  BY <1>0, <1>2, EndInv DEF stored, worker, Asking
<1>3. CASE /\ DOMAIN metrics = Metrics /\ AddRow
           /\ GoTo("gates") \/ End(4)
  <2>0. Settled /\ (pc' = "gates" \/ (pc' = "ended" /\ exit' # 0))
    BY <1>0, <1>3 DEF GoTo, End, Ends, Settled
  <2>1. BaselineOK'
    BY <1>0, <2>0 DEF Inv, BaselineOK, Baseline, Readable, Settled, Asking
  <2>2. RowsOK' /\ RowTellsRun'
    BY <1>0, <1>3, <2>0, AddRowStep DEF Settled
  <2> QED BY <1>0, <2>0, <2>1, <2>2, NoVerdict, AfterInv DEF After
<1> QED BY <1>1, <1>2, <1>3 DEF MaybePersist, PersistFails

\* Past the persistence, rows and the reported numbers stay.
LEMMA RowsSettled ==
  ASSUME Inv, Settled, UNCHANGED rows, pc \in {"gates", "create"},
         pc' \in {"gates", "create", "ended"}
  PROVE  RowsOK' /\ RowTellsRun'
<1>1. RowsOK'
  BY DEF Inv, RowsOK, Settled
<1>2. UNCHANGED Report(result, metrics)
  BY ReportKept DEF Settled
<1>3. RowTellsRun'
  BY <1>2 DEF Inv, RowTellsRun, RowsOK, Settled
<1> QED BY <1>1, <1>3

\* No baseline was found, so there is none that the truncation could lose.
LEMMA CreateBaselineInv ==
  ASSUME Inv, CreateBaseline
  PROVE  Inv'
<1>1. CASE TooManyErrors(result)
  BY <1>1, EndInv DEF CreateBaseline, stored, worker, Asking
<1>2. CASE ~TooManyErrors(result)
  <2>0. /\ Settled /\ pc = "gates" /\ pc' = "create" /\ file' = Torn
        /\ inv.baseline /\ base = Absent /\ UNCHANGED rows
    BY <1>2, ZenonT(60) DEF CreateBaseline, GoTo, Settled, worker
  <2>1. BaselineOK'
    BY <1>2, <2>0 DEF Inv, BaselineOK, Baseline, Readable, Settled, Asking, TooManyErrors, Failed
  <2> QED BY <2>0, <2>1, RowsSettled, NoVerdict, AfterInv DEF After
<1> QED BY <1>1, <1>2

\* The error rate in the terms of the entries.
LEMMA FewErrors ==
  ASSUME CountingFacts, ResultOK, DOMAIN result = Entries, ~TooManyErrors(result)
  PROVE  /\ 100 * Cardinality(Failed(result)) <= ErrorThreshold * Cardinality(Entries)
         /\ Failed(result) = {e \in Entries : result[e].status = "failed"}
<1>1. Failed(result) = {e \in Entries : result[e].status = "failed"}
  BY DEF ResultOK, Failed
<1>2. Cardinality(Failed(result)) \in Nat /\ Cardinality(Entries) \in Nat
  BY <1>1 DEF CountingFacts
<1>3. ~(100 * Cardinality(Failed(result)) > ErrorThreshold * Cardinality(Entries))
  BY DEF TooManyErrors
<1>4. 100 * Cardinality(Failed(result)) <= ErrorThreshold * Cardinality(Entries)
  BY <1>2, <1>3, GatesAssumption
<1> QED BY <1>1, <1>4

\* The run becomes the baseline.
LEMMA WriteBaselineInv ==
  ASSUME CountingFacts, Inv, WriteBaseline
  PROVE  Inv'
<1>0. /\ Settled /\ pc = "create" /\ pc' = "ended" /\ file' = Report(result, metrics)
      /\ UNCHANGED rows
  BY DEF WriteBaseline, End, Ends, Settled, worker
<1>1. DOMAIN result = Entries /\ inv.baseline /\ base = Absent /\ ~TooManyErrors(result)
  BY <1>0 DEF Inv, ResultOK, BaselineOK, After
<1>2. /\ 100 * Cardinality(Failed(result)) <= ErrorThreshold * Cardinality(Entries)
      /\ Failed(result) = {e \in Entries : result[e].status = "failed"}
  BY <1>1, FewErrors DEF Inv
<1>3. /\ file'.metrics = metrics
      /\ file'.errors = Cardinality(Failed(result))
      /\ file'.entries = Cardinality(DOMAIN result)
  BY <1>0 DEF Report
<1>4. \A m \in DOMAIN metrics : metrics[m] \in Int \cup {NaN}
  BY GatesAssumption, Zenon DEF Inv, MetricsOK
<1>5. BaselineOK'
  BY <1>0, <1>1, <1>2, <1>3, <1>4, Zenon DEF BaselineOK, Baseline, Settled, Asking
<1>6. ExitZeroMeansPassed'
  BY <1>0, <1>1, <1>2, Zenon DEF ExitZeroMeansPassed, Settled, Readable
<1> QED BY <1>0, <1>5, <1>6, RowsSettled, AfterInv DEF After

\* A metric gate B lets pass has not fallen by more than the tolerance.
LEMMA GateBFell ==
  ASSUME NEW m \in Metrics, NEW now \in Int \cup {NaN}, NEW before \in Int \cup {NaN},
         before # NaN => ~Below(now, before - Tolerance[m])
  PROVE  ~Fell(now, before, Tolerance[m])
<1> SUFFICES ASSUME now # NaN, before # NaN
             PROVE  ~(before - now > Tolerance[m])
  BY DEF Fell
<1>1. Tolerance[m] \in Int
  BY GatesAssumption, Zenon
<1> QED BY <1>1 DEF Below

\* The verdict.  Gate B compared with the baseline read, which is the file still.
LEMMA VerdictPassed ==
  ASSUME CountingFacts, Inv, EmitSummary
  PROVE  ExitZeroMeansPassed'
<1>0. /\ Settled /\ pc = "gates" /\ pc' = "ended" /\ UNCHANGED file
      /\ ~(inv.baseline /\ base = Absent)
  BY DEF EmitSummary, Ends, Settled, worker, stored
<1> SUFFICES ASSUME exit' = 0
             PROVE  ExitZeroMeansPassed'
  BY NoVerdict
<1>1. /\ apply_gate_a
      /\ skip' \/ base = Absent \/ apply_gate_b(Report(result, metrics), base)
      /\ ~TooManyErrors(result)
  BY DEF EmitSummary, Ends
<1>2. DOMAIN result = Entries
  BY <1>0, Zenon DEF Inv, ResultOK, After
<1>3. /\ 100 * Cardinality(Failed(result)) <= ErrorThreshold * Cardinality(Entries)
      /\ Failed(result) = {e \in Entries : result[e].status = "failed"}
  BY <1>1, <1>2, FewErrors DEF Inv
<1>4. \A m \in DOMAIN metrics : m \in Metrics /\ metrics[m] \in Int \cup {NaN}
  BY GatesAssumption, ZenonT(60) DEF Inv, MetricsOK
<1>5. \A m \in DOMAIN metrics : ~Below(metrics[m], Threshold[m])
  BY <1>1, EmptyDomain DEF apply_gate_a, Inv, MetricsOK
<1>6. ASSUME inv.baseline, ~skip'
      PROVE  apply_gate_b(Report(result, metrics), file) /\ Baseline(file)
  BY <1>0, <1>1, <1>6 DEF Inv, BaselineOK
<1>7. ASSUME inv.baseline, ~skip', NEW m \in DOMAIN metrics, m \in DOMAIN file.metrics
      PROVE  ~Fell(metrics[m], file.metrics[m], Tolerance[m])
  <2>1. Report(result, metrics).metrics = metrics
    BY Zenon DEF Report
  <2>2. file.metrics[m] # NaN => ~Below(metrics[m], file.metrics[m] - Tolerance[m])
    BY <1>6, <1>7, <2>1, Zenon DEF apply_gate_b
  <2>3. file.metrics[m] \in Int \cup {NaN}
    BY <1>6, <1>7, ZenonT(60) DEF Baseline
  <2> QED BY <1>4, <1>7, <2>2, <2>3, GateBFell, Zenon
<1>8. ASSUME Readable(base), ~skip', inv.mode = "offline"
      PROVE  /\ ~Drops(Overlap(result), file.overlap, StructTolerance)
             /\ ~Drops(Recall(result), file.recall, StructTolerance)
  <2>1. inv.baseline /\ ~Live
    BY <1>8, Zenon DEF Inv, BaselineOK, Readable, Live
  <2>2. check_offline_structural_gates(Report(result, metrics), file)
    BY <1>6, <1>8, <2>1 DEF apply_gate_b
  <2>3. /\ Report(result, metrics).overlap = Overlap(result)
        /\ Report(result, metrics).recall = Recall(result)
    BY ZenonT(60) DEF Report
  <2> QED BY <2>2, <2>3 DEF check_offline_structural_gates
<1>9. Overlap(result)' = Overlap(result) /\ Recall(result)' = Recall(result)
  BY <1>0 DEF Settled, Overlap, Recall, CanonOk, Failed
<1> QED BY <1>0, <1>2, <1>3, <1>5, <1>7, <1>8, <1>9, Zenon DEF ExitZeroMeansPassed, Settled

LEMMA EmitSummaryInv ==
  ASSUME CountingFacts, Inv, EmitSummary
  PROVE  Inv'
<1>0. Settled /\ pc = "gates" /\ pc' = "ended" /\ UNCHANGED <<file, rows>>
  BY Zenon DEF EmitSummary, Ends, Settled, worker, stored
<1>1. BaselineOK'
  BY <1>0 DEF Inv, BaselineOK, Baseline, Readable, Settled, Asking
<1> QED BY <1>0, <1>1, VerdictPassed, RowsSettled, AfterInv DEF After

LEMMA StepInv ==
  ASSUME CountingFacts, Inv, Step
  PROVE  Inv'
<1>1. CASE LoadGoldenSet
  <2>1. CASE End(2)
    BY <1>1, <2>1, EndInv DEF LoadGoldenSet, Asking
  <2>2. CASE GoTo(IF inv.auth THEN "token" ELSE "probe")
    BY <1>1, <2>2, StageInv DEF LoadGoldenSet, Before
  <2> QED BY <1>1, <2>1, <2>2 DEF LoadGoldenSet
<1>2. CASE FetchToken
  <2>1. CASE End(5)
    BY <1>2, <2>1, EndInv DEF FetchToken, Asking
  <2>2. CASE GoTo("probe")
    BY <1>2, <2>2, StageInv DEF FetchToken, Before
  <2> QED BY <1>2, <2>1, <2>2 DEF FetchToken
<1>3. CASE CheckWorkersReachable
  <2>1. CASE End(3)
    BY <1>3, <2>1, EndInv DEF CheckWorkersReachable, Asking
  <2>2. CASE GoTo("baseline")
    BY <1>3, <2>2, StageInv DEF CheckWorkersReachable, Before
  <2> QED BY <1>3, <2>1, <2>2 DEF CheckWorkersReachable
<1>4. CASE LoadBaseline
  BY <1>4, LoadBaselineInv
<1>5. CASE \E e \in Entries : Ask(e)
  BY <1>5, AskInv
<1>6. CASE Judge
  BY <1>6, JudgeInv
<1>7. CASE MaybePersist
  BY <1>7, MaybePersistInv
<1>8. CASE CreateBaseline
  BY <1>8, CreateBaselineInv
<1>9. CASE WriteBaseline
  BY <1>9, WriteBaselineInv
<1>10. CASE EmitSummary
  BY <1>10, EmitSummaryInv
<1> QED BY <1>1, <1>2, <1>3, <1>4, <1>5, <1>6, <1>7, <1>8, <1>9, <1>10 DEF Step

LEMMA NextInv ==
  ASSUME CountingFacts, Inv, [Next]_vars
  PROVE  Inv'
<1>1. CASE \E command \in Commands : Start(command)
  BY <1>1, StartInv
<1>2. CASE Step
  BY <1>2, StepInv
<1>3. CASE \E e \in Entries : FinishLate(e)
  BY <1>3, FinishLateInv
<1>4. CASE Die
  BY <1>4, EndInv DEF Die
<1>5. CASE UNCHANGED vars
  <2> USE <1>5 DEF vars
  <2>1. ResultOK' /\ MetricsOK'
    BY Zenon DEF Inv, ResultOK, MetricsOK, Live
  <2>2. BaselineOK'
    BY Zenon DEF Inv, BaselineOK, Baseline, Readable, TooManyErrors, Failed
  <2>3. RowsOK' /\ LogOK' /\ AnsweredIsLogged'
    BY Zenon DEF Inv, RowsOK, LogOK, AnsweredIsLogged, Live
  <2>4. ExitZeroMeansPassed'
    BY Zenon DEF Inv, ExitZeroMeansPassed
  <2>5. RowTellsRun'
    BY ReportKept DEF Inv, RowTellsRun
  <2> QED BY <2>1, <2>2, <2>3, <2>4, <2>5, Zenon DEF Inv
<1> QED BY <1>1, <1>2, <1>3, <1>4, <1>5 DEF Next

\* No step touches a baseline that can be read: a run that creates one found
\* none, and has truncated the file before it writes.
LEMMA FileStep ==
  ASSUME Inv, [Next]_vars
  PROVE  [Readable(file) => file' = file]_file
<1>1. CASE CreateBaseline
  BY <1>1 DEF CreateBaseline, Inv, BaselineOK, Asking, Readable
<1>2. CASE WriteBaseline
  BY <1>2 DEF WriteBaseline, Inv, BaselineOK, Readable
<1>3. CASE ~CreateBaseline /\ ~WriteBaseline
  BY <1>3, ZenonT(60) DEF Next, Step, Start, LoadGoldenSet, FetchToken, CheckWorkersReachable,
     LoadBaseline, Ask, Retrieve, Answer, ModelFails, Busy, TimeOut, Reject, Again, Fail, Record, FinishLate,
     Judge, MaybePersist, EmitSummary, Die, stored, vars
<1> QED BY <1>1, <1>2, <1>3

-----------------------------------------------------------------------------
INSTANCE FiniteSetTheorems

LEMMA Counting == CountingFacts
BY GoldenAssumption, FS_Subset, FS_CardinalityType, Zenon DEF CountingFacts

LEMMA InvAlways == Spec => []Inv
<1>1. Inv /\ [Next]_vars => Inv'
  BY Counting, NextInv
<1> QED BY <1>1, InitInv, PTL DEF Spec

\* Exit code 0 means few enough errors, the thresholds held and nothing dropped
\* from the baseline file as it is: main of the runner, its gates and its baseline.
THEOREM ExitZeroEarned == Spec => []ExitZeroMeansPassed
<1>1. Inv => ExitZeroMeansPassed
  BY DEF Inv
<1> QED BY <1>1, InvAlways, PTL

\* A row of eval_runs is the report of its run, complete, and there when a
\* persisting run exits 0: _maybe_persist before the gates.
THEOREM RowsTellRuns == Spec => []RowTellsRun
<1>1. Inv => RowTellsRun
  BY DEF Inv
<1> QED BY <1>1, InvAlways, PTL

\* An entry the model answered has its row in query_log, whatever the retries and
\* the requests that ran on after their caller timed out: one id per entry.
THEOREM AnswersLogged == Spec => []AnsweredIsLogged
<1>1. Inv => AnsweredIsLogged
  BY DEF Inv
<1> QED BY <1>1, InvAlways, PTL

\* The baseline file: it came from a run with few enough errors and no later run
\* moves it, across crashes and any number of runs.
THEOREM BaselineStays == Spec => BaselineKept
<1>1. Inv => (Readable(file) => 100 * file.errors <= ErrorThreshold * file.entries)
  BY DEF Inv, BaselineOK, Baseline
<1>2. Inv /\ [Next]_vars => [Readable(file) => file' = file]_file
  BY FileStep
<1> QED BY <1>1, <1>2, InvAlways, PTL DEF Spec, BaselineKept

=============================================================================
