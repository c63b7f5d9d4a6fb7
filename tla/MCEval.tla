------------------------------- MODULE MCEval -------------------------------
\* Instances of Eval for TLC: the thresholds and tolerances of gates.py, and a
\* baseline file that is missing, torn, or holds an earlier run.
EXTENDS Eval

MCThreshold == [m \in Metrics |-> IF m = "faithfulness" THEN 85 ELSE 70]
MCTolerance == [m \in Metrics |-> IF m = "faithfulness" THEN 2 ELSE 3]

\* All entries answered; or one canon entry failed and its recall left out.
MCBaseline(hits, found, errors, scores) ==
  [overlap |-> <<hits, Cardinality(Canon)>>, recall |-> found, metrics |-> scores,
   entries |-> Cardinality(Entries), errors |-> errors]
MCInitial ==
  {Absent, Torn,
   MCBaseline(2, <<2, 2>>, 0, [m \in Metrics |-> 90]),
   MCBaseline(1, <<1, 1>>, 1, Empty)}
=============================================================================
