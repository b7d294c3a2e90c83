---------------------------- MODULE CheckEvaluation ----------------------------
(* What a check says of its target (checks.py, _evaluate and everything under  *)
(* it): a pure function of the check spec's definition, of the verdict a judge *)
(* recorded, of the replay row the check is run with, if any, and of the runs  *)
(* in the store.  A run is what the assertions can see of it:                  *)
(*   [status, spans, failedSpans, handoffs, field]                             *)
(* a definition is                                                             *)
(*   [type, target, assertions, presets, minSpans, minHandoffs, expected,      *)
(*    allowed, own]                                                            *)
(* where target is the run the baseline status is read from (a span, a task or *)
(* an attempt is judged like a run), expected and allowed are run statuses,    *)
(* "own" is the verdict the definition carries itself, and None stands for     *)
(* what is absent; a replay row is                                             *)
(*   [status, out, actual, mapped]                                             *)
(* where mapped is the run the target map gives for the target.                *)
EXTENDS Naturals, FiniteSets

CONSTANTS None, Run

FailureStatuses == {"failed", "timed_out", "cancelled", "errored"}

Failing(status) == status \in FailureStatuses
Acceptable(status) == status # None /\ ~ Failing(status)

GateableTypes == {"deterministic_assertion", "regression_replay"}

SafeModes == {"none", "filesystem_read", "sandboxed_filesystem", "network_mocked"}

(* What a server or a command may report it did, for what was requested.       *)
AllowedActual ==
  [none                 |-> {"none"},
   filesystem_read      |-> {"none", "filesystem_read"},
   sandboxed_filesystem |-> {"none", "filesystem_read", "sandboxed_filesystem"},
   network_mocked       |-> {"none", "network_mocked"}]

--------------------------------------------------------------------------------
(* Assertions                                                                  *)

StatusOf(run, store) == IF run \in DOMAIN store THEN store[run].status ELSE None

OutputRun(replay) == IF replay = None THEN None ELSE replay.out
Mapped(replay) == IF replay = None THEN None ELSE replay.mapped

\* With a mapped target the baseline must fail and the replay must not; without
\* one the target itself is judged.
ImprovesStatus(d, replay, store) ==
  /\ Failing(StatusOf(d.target, store))
  /\ Acceptable(StatusOf(Mapped(replay), store))
  /\ replay.status = "passed"

StatusHolds(d, replay, store) ==
  IF Mapped(replay) # None THEN ImprovesStatus(d, replay, store)
                           ELSE Acceptable(StatusOf(d.target, store))

StatusComparison(d, replay, store) ==
  IF Mapped(replay) = None THEN "single_target_status"
  ELSE IF ImprovesStatus(d, replay, store) THEN "fail_before_pass_after"
  ELSE "before_after_not_improved"

FieldEquals(run, store) == run \in DOMAIN store /\ store[run].field = "expected"

RunStatusEquals(d, replay, store) == StatusOf(OutputRun(replay), store) = d.expected

\* A run that is not in the store has no spans: nothing of it failed.
NoFailedSpans(run, store) ==
  run # None /\ (run \in DOMAIN store => store[run].failedSpans = 0)

SpanCountAtLeast(min, run, store) ==
  run # None /\ (IF run \in DOMAIN store THEN store[run].spans ELSE 0) >= min

HandoffCountAtLeast(min, run, store) ==
  run # None /\ (IF run \in DOMAIN store THEN store[run].handoffs ELSE 0) >= min

Holds(assertion, d, replay, store) ==
  LET out == OutputRun(replay)
  IN  CASE assertion = "target_status_not_failed" -> StatusHolds(d, replay, store)
        [] assertion = "replay_target_field_equals" -> FieldEquals(Mapped(replay), store)
        [] assertion = "replay_entity_field_equals" -> FieldEquals(out, store)
        [] assertion = "replay_run_status_equals" -> RunStatusEquals(d, replay, store)
        [] assertion = "replay_no_failed_spans" -> NoFailedSpans(out, store)
        [] assertion = "replay_span_count_at_least" -> SpanCountAtLeast(d.minSpans, out, store)
        [] assertion = "replay_handoff_count_at_least" ->
             HandoffCountAtLeast(d.minHandoffs, out, store)
        [] OTHER -> FALSE

PresetAssertions(preset) ==
  CASE preset = "replay_success_shape" ->
         {"replay_run_status_equals", "replay_no_failed_spans", "replay_span_count_at_least"}
    [] preset = "replay_handoff_present" -> {"replay_handoff_count_at_least"}
    [] OTHER -> {"unsupported_assertion_preset"}

AssertionSpecs(d) ==
  LET specs == d.assertions \cup UNION {PresetAssertions(p) : p \in d.presets}
  IN  IF specs = {} THEN {"target_status_not_failed"} ELSE specs

--------------------------------------------------------------------------------
(* The four types of check                                                     *)

Outcome(passed, comparison) ==
  [status |-> IF passed THEN "passed" ELSE "failed", comparison |-> comparison]

ErroredOutcome(comparison) == [status |-> "errored", comparison |-> comparison]

EvaluateAssertions(d, assertions, replay, store) ==
  LET passed == \A a \in assertions : Holds(a, d, replay, store)
  IN  Outcome(passed,
              IF "target_status_not_failed" \in assertions
              THEN StatusComparison(d, replay, store)
              ELSE IF passed THEN "assertions_passed" ELSE "assertions_failed")

EvaluateRegression(d, replay, store) ==
  LET judged == EvaluateAssertions(d, AssertionSpecs(d) \cup {"target_status_not_failed"},
                                   replay, store)
  IN  IF replay = None THEN ErroredOutcome("replay_required")
      ELSE IF replay.status # "passed" THEN Outcome(FALSE, "replay_not_passed")
      ELSE IF \/ judged.comparison # "fail_before_pass_after"
              \/ replay.actual \notin SafeModes
           THEN Outcome(FALSE, judged.comparison)
      ELSE judged

\* The definition's own judgment comes before the one a judge command recorded.
RecordedJudgment(d, recorded) == IF d.own # None THEN d.own ELSE recorded

EvaluateJudge(d, recorded) ==
  LET verdict == RecordedJudgment(d, recorded)
  IN  IF verdict = None THEN ErroredOutcome("judge_verdict_missing")
      ELSE Outcome(verdict = "passed", "judge_verdict")

\* The replay's output, or else d.target: the run that the definition names, or
\* without one that of its target.
SmokeRun(d, replay) == IF OutputRun(replay) # None THEN replay.out ELSE d.target

EvaluateSmoke(d, replay, store) ==
  LET run == SmokeRun(d, replay)
  IN  Outcome(/\ Acceptable(StatusOf(run, store))
              /\ d.allowed # {} => StatusOf(run, store) \in d.allowed
              /\ replay # None => replay.status = "passed"
              /\ NoFailedSpans(run, store)
              /\ SpanCountAtLeast(d.minSpans, run, store)
              /\ d.minHandoffs > 0 => HandoffCountAtLeast(d.minHandoffs, run, store),
              "smoke_run")

Evaluate(d, recorded, replay, store) ==
  CASE d.type = "smoke_run" -> EvaluateSmoke(d, replay, store)
    [] d.type = "judge" -> EvaluateJudge(d, recorded)
    [] d.type = "regression_replay" -> EvaluateRegression(d, replay, store)
    [] d.type = "deterministic_assertion" ->
         EvaluateAssertions(d, AssertionSpecs(d), replay, store)
    [] OTHER -> ErroredOutcome("unsupported_check_type")
================================================================================
