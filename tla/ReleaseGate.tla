----------------------------- MODULE ReleaseGate -----------------------------
(***************************************************************************)
(* The release gate of a build turn: what a turn remembers about its edits *)
(* and its test runs, and what it still needs before it may end.           *)
(* (src/src/agents/release-gate.js, release-gate-coordinator.js)           *)
(*                                                                         *)
(* The gate is one record, kept by the turn:                               *)
(*   mutationSeq   applied mutations so far                                *)
(*   codeTouched   some mutated path can break a test run                  *)
(*   lastSuite     the latest full-suite run, stamped with mutationSeq     *)
(*   lastTargeted  the latest narrower check (or green suite), stamped     *)
(*   suiteMissing  a runner reported that there is no suite                *)
(*   retries       times the gate sent the model back to work              *)
(* Outputs and their parsing are abstracted to the verdict they yield.     *)
(***************************************************************************)
EXTENDS Integers

NoRun == [seq |-> -1, passed |-> FALSE]

Runs == [seq : Nat \cup {-1}, passed : BOOLEAN]

Gates == [mutationSeq : Nat, codeTouched : BOOLEAN, lastSuite : Runs,
          lastTargeted : Runs, suiteMissing : BOOLEAN, retries : Nat]

(* What a tool's output proves: classifyVerification's result.             *)
NoVerdict == [kind |-> "none", passed |-> FALSE]

Verdicts == {NoVerdict, [kind |-> "no_suite", passed |-> FALSE]}
              \cup [kind : {"suite", "targeted"}, passed : BOOLEAN]

(* run_tests answers for the suite, for its absence, or not at all (Error:) *)
SuiteVerdicts == {v \in Verdicts : v.kind # "targeted"}

CreateGate ==
    [mutationSeq |-> 0, codeTouched |-> FALSE, lastSuite |-> NoRun,
     lastTargeted |-> NoRun, suiteMissing |-> FALSE, retries |-> 0]

(* Defect for the mutants: an edit that does not age the earlier evidence. *)
RecordMutation_SeqKept(g, isCode) ==
    [g EXCEPT !.codeTouched = @ \/ isCode]

RecordMutation(g, isCode) ==
    [g EXCEPT !.mutationSeq = @ + 1, !.codeTouched = @ \/ isCode]

(* The stamp is the count at the time the verdict is RECORDED.             *)
RecordVerification(g, v) ==
    LET entry == [seq |-> g.mutationSeq, passed |-> v.passed] IN
    CASE v.kind = "none"     -> g
      [] v.kind = "no_suite" -> [g EXCEPT !.suiteMissing = TRUE]
      [] v.kind = "suite"    -> [g EXCEPT !.lastSuite = entry,
                                          !.lastTargeted = IF v.passed THEN entry ELSE @]
      [] v.kind = "targeted" -> [g EXCEPT !.lastTargeted = entry]

Evaluate(g, suiteAvailable) ==
    CASE ~g.codeTouched \/ g.mutationSeq = 0 -> "open"
      [] g.codeTouched /\ g.mutationSeq # 0 /\ suiteAvailable /\ ~g.suiteMissing ->
            IF g.lastSuite.seq # g.mutationSeq THEN "run_suite"
            ELSE IF g.lastSuite.passed THEN "open" ELSE "suite_failing"
      [] OTHER ->
            IF g.lastTargeted.seq = g.mutationSeq /\ g.lastTargeted.passed
            THEN "open" ELSE "needs_targeted_check"

(* ReleaseGateCoordinator.check once the runner is known: the harness runs *)
(* the suite itself when the model has not; a runner that gives no verdict *)
(* turns the demand into one for a targeted check.                         *)
HarnessRuns(g, suiteAvailable) ==
    g.codeTouched /\ Evaluate(g, suiteAvailable) = "run_suite"

GateAfterCheck(g, suiteAvailable, harness) ==
    IF HarnessRuns(g, suiteAvailable) THEN RecordVerification(g, harness) ELSE g

CheckStatus(g, suiteAvailable, harness) ==
    LET status == Evaluate(GateAfterCheck(g, suiteAvailable, harness), suiteAvailable) IN
    IF status = "run_suite" THEN "needs_targeted_check" ELSE status

==============================================================================
