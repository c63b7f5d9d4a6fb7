-------------------------------- MODULE Eval --------------------------------
(***************************************************************************)
(* Executions of the evaluation runner, one after the other: the golden    *)
(* set is put to the workers entry by entry, with retries; the answers are *)
(* judged; the run is persisted, compared with the gates, and becomes the  *)
(* baseline when there is none.  The workers go on with a request whose    *)
(* caller has stopped waiting, and log each request id once.               *)
(*                                                                         *)
(* Rates are percentages, and a mean is the pair of its sum and its count. *)
(***************************************************************************)
EXTENDS Integers, FiniteSets

CONSTANTS Entries,          \* the golden set, numbers in file order
          Canon,            \* the entries of mode canon
          Metrics,          \* the metrics of the judge
          Scores,           \* the means it gives
          Threshold,        \* GATE_A_THRESHOLDS
          Tolerance,        \* GATE_B_TOLERANCES
          StructTolerance,  \* GATE_B_OFFLINE_TOLERANCES, the same for both metrics
          ErrorThreshold,   \* ERROR_RATE_THRESHOLD
          Attempts,         \* _RETRY_MAX_ATTEMPTS
          NaN,              \* the mean of scores the judge could not give
          Absent, Torn,     \* the baseline file: missing, or written in part
          Initial,          \* what the baseline file may be at first
          MaxRuns,          \* bound on the executions
          MaxFaults         \* bound on the failures of the database and the process

ASSUME GoldenAssumption ==
  /\ Entries \subseteq Nat /\ IsFiniteSet(Entries)
  /\ Canon \subseteq Entries /\ Canon # {}
ASSUME AttemptsAssumption == Attempts \in Nat \ {0}

ASSUME GatesAssumption ==
  /\ Scores \subseteq Int
  /\ Threshold \in [Metrics -> Int] /\ Tolerance \in [Metrics -> Int]
  /\ ErrorThreshold \in Int

\* A baseline found at first is one an earlier run wrote: it holds means and
\* came from a run with few enough errors.
ASSUME InitialAssumption ==
  \A f \in Initial \ {Absent, Torn} :
    /\ \A m \in DOMAIN f.metrics : f.metrics[m] \in Int \cup {NaN}
    /\ 100 * f.errors <= ErrorThreshold * f.entries

VARIABLES pc,        \* where the execution in hand is
          n,         \* its number
          inv,       \* its command line
          skip,      \* what should_skip_gate_b said of its checkout
          base,      \* baseline_run
          todo,      \* the entries not yet run
          attempt,   \* the failed attempts of the request in hand
          result,    \* entry_results
          metrics,   \* ragas_metrics; a null metric is not in the domain
          exit,      \* its exit code
          file,      \* the baseline file
          rows,      \* the table eval_runs
          late,      \* the entries whose request runs on after its caller timed out
          log,       \* the rows of query_log of this execution: request id and entry
          unlogged,  \* history: the entries whose row the database failed to store
          faults

vars == <<pc, n, inv, skip, base, todo, attempt, result, metrics, exit, file, rows,
          late, log, unlogged, faults>>

worker == <<late, log, unlogged>>
stored == <<file, rows>>

\* The commands of eval.yml and of the Cloud Run job.
Commands ==
  {[mode |-> "offline", baseline |-> TRUE,  persist |-> FALSE, auth |-> FALSE],
   [mode |-> "live",    baseline |-> TRUE,  persist |-> FALSE, auth |-> FALSE],
   [mode |-> "live",    baseline |-> FALSE, persist |-> TRUE,  auth |-> TRUE]}

Live == inv.mode = "live"

Empty == [x \in {} |-> x]

Init ==
  /\ pc = "idle"
  /\ n = 0
  /\ inv \in Commands
  /\ skip = FALSE
  /\ base = Absent
  /\ todo = {}
  /\ attempt = 0
  /\ result = Empty
  /\ metrics = Empty
  /\ exit = 0
  /\ file \in Initial
  /\ rows = Empty
  /\ late = {}
  /\ log = {}
  /\ unlogged = {}
  /\ faults = 0

-----------------------------------------------------------------------------
\* What a run reports.

Failed(res) == {e \in DOMAIN res : res[e].status # "ok"}

\* The error rate; 0 for an empty set.
TooManyErrors(res) == 100 * Cardinality(Failed(res)) > ErrorThreshold * Cardinality(DOMAIN res)

\* aggregate_breakdown: the keyword rate counts a failed entry as a miss, the
\* recall leaves it out, and is 0 when nothing is left.
CanonOk(res) == (DOMAIN res \cap Canon) \ Failed(res)

Overlap(res) == <<Cardinality({e \in CanonOk(res) : res[e].hit = 1}), Cardinality(Canon)>>

Recall(res) ==
  IF CanonOk(res) = {} THEN <<0, 1>>
  ELSE <<Cardinality({e \in CanonOk(res) : res[e].found = 1}), Cardinality(CanonOk(res))>>

Report(res, m) ==
  [overlap |-> Overlap(res), recall |-> Recall(res), metrics |-> m,
   entries |-> Cardinality(DOMAIN res), errors |-> Cardinality(Failed(res))]

-----------------------------------------------------------------------------
\* The gates.

\* A comparison with NaN is false.
Below(v, limit) == v # NaN /\ v < limit

apply_gate_a == Live => \A m \in DOMAIN metrics : ~Below(metrics[m], Threshold[m])

\* now is lower than before by more than the tolerance.
Drops(now, before, tolerance) ==
  100 * (before[1] * now[2] - now[1] * before[2]) > tolerance * now[2] * before[2]

check_offline_structural_gates(run, baseline) ==
  /\ ~Drops(run.recall, baseline.recall, StructTolerance)
  /\ ~Drops(run.overlap, baseline.overlap, StructTolerance)

apply_gate_b(run, baseline) ==
  /\ \A m \in DOMAIN run.metrics \cap DOMAIN baseline.metrics :
       baseline.metrics[m] # NaN
         => ~Below(run.metrics[m], baseline.metrics[m] - Tolerance[m])
  /\ ~Live => check_offline_structural_gates(run, baseline)

-----------------------------------------------------------------------------
\* main, up to the first entry.

Ends(code) ==
  /\ pc' = "ended"
  /\ exit' = code
  /\ todo' = {}
  /\ attempt' = 0
  /\ UNCHANGED <<n, inv, base, result, metrics>>

End(code) == Ends(code) /\ UNCHANGED skip

GoTo(stage) ==
  /\ pc' = stage
  /\ UNCHANGED <<n, inv, skip, base, todo, attempt, result, metrics, exit>>

Start(command) ==
  /\ pc \in {"idle", "ended"}
  /\ n < MaxRuns
  /\ n' = n + 1
  /\ inv' = command
  /\ skip' = FALSE
  /\ base' = Absent
  /\ pc' = "load"
  /\ todo' = Entries
  /\ attempt' = 0
  /\ result' = Empty
  /\ metrics' = Empty
  /\ exit' = 0
  /\ UNCHANGED <<stored, worker, faults>>

\* load_golden_set validates all entries before anything is asked.
LoadGoldenSet ==
  /\ pc = "load"
  /\ End(2) \/ GoTo(IF inv.auth THEN "token" ELSE "probe")
  /\ UNCHANGED <<stored, worker, faults>>

FetchToken ==
  /\ pc = "token"
  /\ End(5) \/ GoTo("probe")
  /\ UNCHANGED <<stored, worker, faults>>

CheckWorkersReachable ==
  /\ pc = "probe"
  /\ End(3) \/ GoTo("baseline")
  /\ UNCHANGED <<stored, worker, faults>>

LoadBaseline ==
  /\ pc = "baseline"
  /\ IF inv.baseline /\ file = Torn
     THEN End(2)
     ELSE /\ pc' = "retrieve"
          /\ base' = IF inv.baseline THEN file ELSE Absent
          /\ UNCHANGED <<n, inv, skip, todo, attempt, result, metrics, exit>>
  /\ UNCHANGED <<stored, worker, faults>>

-----------------------------------------------------------------------------
\* _run_all_entries

\* Mutant: one id for the run.
RequestIdOfRun(e) == <<n, 0>>

\* A fresh id for each entry, the same for its attempts.
RequestId(e) == <<n, e>>

First(e) == e \in todo /\ \A d \in todo : e <= d

\* The entry is done, and its metrics are computed.
Record(e, outcome) ==
  /\ result' = [d \in DOMAIN result \cup {e} |-> IF d = e THEN outcome ELSE result[d]]
  /\ todo' = todo \ {e}
  /\ attempt' = 0
  /\ pc' = "retrieve"
  /\ UNCHANGED <<n, inv, skip, base, metrics, exit, stored>>

Answered(e) == [status : {"ok"}, hit : 0 .. 1, found : IF e \in Canon THEN 0 .. 1 ELSE {0}]

Fail(e) == Record(e, [status |-> "failed", hit |-> 0, found |-> 0])

\* Mutant: retry until it works.
AgainForever(e) ==
  /\ attempt' = (attempt + 1) % Attempts
  /\ UNCHANGED <<pc, n, inv, skip, base, todo, result, metrics, exit, stored>>

\* _post_with_retry after a timeout, a 429 or a 5xx: again, unless it was the last.
Again(e) ==
  IF attempt + 1 < Attempts
  THEN /\ attempt' = attempt + 1
       /\ UNCHANGED <<pc, n, inv, skip, base, todo, result, metrics, exit, stored>>
  ELSE Fail(e)

\* RetrieveClient.search; offline, the answer is a stub made of the passages.
Retrieve(e) ==
  /\ pc = "retrieve"
  /\ First(e)
  /\ \/ /\ ~Live
        /\ \E outcome \in Answered(e) : Record(e, outcome)
     \/ /\ Live
        /\ pc' = "generate"
        /\ attempt' = 0
        /\ UNCHANGED <<n, inv, skip, base, todo, result, metrics, exit, stored>>
     \/ Again(e)
     \/ Fail(e)
  /\ UNCHANGED <<worker, faults>>

-----------------------------------------------------------------------------
\* GenerateClient.generate, and the workers' side of it.

\* QueryLogRepository.insert: request_id is unique, and any failure is swallowed.
LogRow(e) ==
  \/ /\ log' = IF \E row \in log : row[1] = RequestId(e)
               THEN log ELSE log \cup {<<RequestId(e), e>>}
     /\ UNCHANGED <<unlogged, faults>>
  \/ /\ faults < MaxFaults
     /\ faults' = faults + 1
     /\ unlogged' = unlogged \cup {e}
     /\ UNCHANGED log

\* The row is written before the response.
Answer(e) ==
  /\ pc = "generate"
  /\ First(e)
  /\ LogRow(e)
  /\ \E outcome \in Answered(e) : Record(e, outcome)
  /\ UNCHANGED late

\* The model failed: 502 or 504, with a row.
ModelFails(e) ==
  /\ pc = "generate"
  /\ First(e)
  /\ LogRow(e)
  /\ Again(e)
  /\ UNCHANGED late

\* 429 or another 5xx, without a row.
Busy(e) ==
  /\ pc = "generate"
  /\ First(e)
  /\ Again(e)
  /\ UNCHANGED <<worker, faults>>

\* The client stops waiting; the workers do not.
TimeOut(e) ==
  /\ pc = "generate"
  /\ First(e)
  /\ late' = late \cup {e}
  /\ Again(e)
  /\ UNCHANGED <<log, unlogged, faults>>

\* Another status, a transport error or a malformed body.
Reject(e) ==
  /\ pc = "generate"
  /\ First(e)
  /\ Fail(e)
  /\ UNCHANGED <<worker, faults>>

\* A request nobody waits for ends, with a row or without; there may be several.
FinishLate(e) ==
  /\ e \in late
  /\ late' \in {late, late \ {e}}
  /\ LogRow(e) \/ UNCHANGED <<log, unlogged, faults>>
  /\ UNCHANGED <<pc, n, inv, skip, base, todo, attempt, result, metrics, exit, stored>>

-----------------------------------------------------------------------------
\* main, after the last entry.

\* compute_ragas_metrics on the canon entries that were answered.  No request id
\* of the run is used again, and what the workers do with them is not followed.
Judge ==
  /\ pc = "retrieve"
  /\ todo = {}
  /\ metrics' \in IF Live /\ CanonOk(result) # {}
                  THEN [Metrics -> Scores \cup {NaN}] ELSE {Empty}
  /\ pc' = "persist"
  /\ late' = {} /\ log' = {} /\ unlogged' = {}
  /\ UNCHANGED <<n, inv, skip, base, todo, attempt, result, exit, stored, faults>>

AddRow == rows' = [k \in DOMAIN rows \cup {n} |->
                     IF k = n THEN Report(result, metrics) ELSE rows[k]]

\* Mutant: a failed insert is logged, and the verdict is given all the same.
PersistFailsSilently ==
  /\ faults < MaxFaults
  /\ faults' = faults + 1
  /\ UNCHANGED rows
  /\ GoTo("gates")

\* _maybe_persist: the insert fails, or is committed and its answer lost.
PersistFails ==
  /\ faults < MaxFaults
  /\ faults' = faults + 1
  /\ AddRow \/ UNCHANGED rows
  /\ End(4)

MaybePersist ==
  /\ pc = "persist"
  /\ \/ /\ ~(inv.persist /\ Live)
        /\ GoTo("gates")
        /\ UNCHANGED <<rows, faults>>
     \/ /\ inv.persist /\ Live /\ DOMAIN metrics # Metrics
        /\ End(4)
        /\ UNCHANGED <<rows, faults>>
     \/ /\ inv.persist /\ Live /\ DOMAIN metrics = Metrics
        /\ \/ AddRow /\ GoTo("gates") /\ UNCHANGED faults
           \/ PersistFails
  /\ UNCHANGED <<file, worker>>

\* Mutant: the file is written whether or not a baseline was found.
CreateBaselineAgain ==
  /\ pc = "gates"
  /\ inv.baseline
  /\ IF TooManyErrors(result)
     THEN End(1) /\ UNCHANGED file
     ELSE GoTo("create") /\ file' = Torn
  /\ UNCHANGED <<rows, worker, faults>>

\* _handle_auto_create_baseline: gate A is computed, and not looked at.
CreateBaseline ==
  /\ pc = "gates"
  /\ inv.baseline /\ base = Absent
  /\ IF TooManyErrors(result)
     THEN End(1) /\ UNCHANGED file
     ELSE GoTo("create") /\ file' = Torn
  /\ UNCHANGED <<rows, worker, faults>>

\* write_text has truncated the file; now it holds the run.
WriteBaseline ==
  /\ pc = "create"
  /\ file' = Report(result, metrics)
  /\ End(0)
  /\ UNCHANGED <<rows, worker, faults>>

\* Mutant: the baseline commit is not asked for, and gate B always skipped.
EmitSummaryWithoutB ==
  /\ pc = "gates"
  /\ ~(inv.baseline /\ base = Absent)
  /\ End(IF apply_gate_a /\ ~TooManyErrors(result) THEN 0 ELSE 1)
  /\ UNCHANGED <<stored, worker, faults>>

\* What git says of the checkout: a commit titled as a bump that changes the
\* baseline only.  It is asked when there is a baseline.
should_skip_gate_b == IF base = Absent THEN {FALSE} ELSE BOOLEAN

\* _emit_summary_and_exit
EmitSummary ==
  /\ pc = "gates"
  /\ ~(inv.baseline /\ base = Absent)
  /\ skip' \in should_skip_gate_b
  /\ LET gate_b == skip' \/ base = Absent \/ apply_gate_b(Report(result, metrics), base)
     IN Ends(IF apply_gate_a /\ gate_b /\ ~TooManyErrors(result) THEN 0 ELSE 1)
  /\ UNCHANGED <<stored, worker, faults>>

\* An exception nobody catches (the judge, git, the file system), or a kill.
Die ==
  /\ pc \notin {"idle", "ended"}
  /\ faults < MaxFaults
  /\ faults' = faults + 1
  /\ End(1)
  /\ late' = {} /\ log' = {} /\ unlogged' = {}
  /\ UNCHANGED stored

-----------------------------------------------------------------------------
Ask(e) == Retrieve(e) \/ Answer(e) \/ ModelFails(e) \/ Busy(e) \/ TimeOut(e) \/ Reject(e)

Step ==
  \/ LoadGoldenSet \/ FetchToken \/ CheckWorkersReachable \/ LoadBaseline
  \/ \E e \in Entries : Ask(e)
  \/ Judge \/ MaybePersist \/ CreateBaseline \/ WriteBaseline \/ EmitSummary

Next ==
  \/ \E command \in Commands : Start(command)
  \/ Step
  \/ \E e \in Entries : FinishLate(e)
  \/ Die

Spec == Init /\ [][Next]_vars

\* Every call of the runner has a time limit, except that to Postgres, which is
\* ended, like the whole run, by the time limit of the job.
FairSpec == Spec /\ WF_vars(Step)

-----------------------------------------------------------------------------
Readable(f) == f \notin {Absent, Torn}

\* Exit code 0 means what eval/README.md says, in the terms of the entries and of
\* the baseline file as it is now: few enough errors and, unless the run itself
\* became the baseline, no metric under its threshold (live) and none that has
\* dropped, unless the commit only bumps the baseline.
Fell(now, before, tolerance) == now # NaN /\ before # NaN /\ before - now > tolerance

ExitZeroMeansPassed ==
  (pc = "ended" /\ exit = 0) =>
    /\ DOMAIN result = Entries
    /\ 100 * Cardinality({e \in Entries : result[e].status = "failed"})
         <= ErrorThreshold * Cardinality(Entries)
    /\ (Readable(base) \/ ~inv.baseline) =>
         \A m \in DOMAIN metrics :
           /\ ~Below(metrics[m], Threshold[m])
           /\ (inv.baseline /\ ~skip /\ m \in DOMAIN file.metrics)
                => ~Fell(metrics[m], file.metrics[m], Tolerance[m])
    /\ (Readable(base) /\ ~skip /\ inv.mode = "offline")
         => /\ ~Drops(Overlap(result), file.overlap, StructTolerance)
            /\ ~Drops(Recall(result), file.recall, StructTolerance)

\* A baseline that can be read came from a run with few enough errors, and no run
\* moves it afterwards: the runner creates the file and never updates it.
BaselineKept ==
  /\ [](Readable(file) => 100 * file.errors <= ErrorThreshold * file.entries)
  /\ [][Readable(file) => file' = file]_file

\* A row of eval_runs tells what its run counted, a row of its run is there when a
\* persisting run exits 0, and a run with a null metric leaves none.
RowTellsRun ==
  /\ (pc = "ended" /\ exit = 0 /\ inv.persist) => n \in DOMAIN rows
  /\ \A k \in DOMAIN rows : /\ DOMAIN rows[k].metrics = Metrics
                            /\ k = n => rows[k] = Report(result, metrics)

\* Every entry answered by the model has a row in query_log, although a retry
\* sends the id of a request that may still be running or has been logged:
\* the first of them stores the row, and ids are not shared between entries.
AnsweredIsLogged ==
  (Live /\ pc \in {"retrieve", "generate"}) =>
    \A e \in DOMAIN result :
      result[e].status = "ok" => e \in unlogged \/ \E row \in log : row[2] = e

\* Every run ends: the retries are bounded.
RunEnds == pc = "load" ~> pc = "ended"
=============================================================================
