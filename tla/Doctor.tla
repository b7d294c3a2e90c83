-------------------------------- MODULE Doctor ---------------------------------
(* The smokes that leave evidence behind (operator_smoke.py, judge_smoke.py,   *)
(* integration_smoke.py), run again and again into the same directories, with  *)
(* crashes in between, and what kyoko doctor concludes (doctor.py) from its    *)
(* checks, the smokes it was asked for and the evidence that is there.  A      *)
(* smoke goes through its operators, or its files, one by one; what an earlier *)
(* one left stays.  Doctor itself keeps nothing.                               *)
EXTENDS Naturals, FiniteSets

CONSTANTS
  None, Operator, LiveDir, FailureDir, Result, MaxSmokes,
  Asked   \* what doctor is asked to run: sets of smokes, or "safe_smokes"

Dir == LiveDir \cup FailureDir

VARIABLES
  installed,  \* the operator CLIs on PATH
  rows,       \* [Dir -> None, or the operator runs of its smoke.db]
  matrix,     \* the matrix that runs
  judge,      \* the judge's directory: request, raw, result, handoff, passed
  judging,    \* the judge smoke that runs
  source,     \* the integration smoke's: the events, what was ingested, the server
  smokes,     \* how many were started
  captured,   \* [Dir -> operators whose expected failure was seen there]
  judged,     \* whether a provider-backed judge ever answered
  report      \* doctor's last answer, until something changes

smoking == <<rows, matrix, judge, judging, source, smokes, captured, judged>>

Init ==
  /\ installed \in SUBSET Operator
  /\ rows = [d \in Dir |-> None] /\ matrix = None
  /\ judge = [request |-> FALSE, raw |-> FALSE, result |-> None, handoff |-> None, passed |-> FALSE]
  /\ judging = None
  /\ source = [events |-> None, ingested |-> None, server |-> FALSE, ok |-> FALSE]
  /\ smokes = 0 /\ captured = [d \in Dir |-> {}] /\ judged = FALSE

Idle == matrix = None /\ judging = None
Begin == Idle /\ smokes < MaxSmokes /\ smokes' = smokes + 1

\* Somebody installs an operator CLI, or removes one.
Install(o) ==
  /\ installed' = (installed \ {o}) \cup ({o} \ installed)
  /\ UNCHANGED smoking

--------------------------------------------------------------------------------
(* Operators, live or expected to fail                                         *)

\* A directory that has a smoke.db gets a database of another name.
DemoDb(d) == IF rows[d] = None THEN "smoke" ELSE "other"

StartMatrix(d) ==
  /\ Begin
  /\ matrix' = [dir |-> d, db |-> DemoDb(d), todo |-> Operator]
  /\ rows' = [rows EXCEPT ![d] = IF @ = None THEN {} ELSE @]
  /\ UNCHANGED <<installed, judge, judging, source, captured, judged>>

\* What a turn leaves in operator_runs; nothing links it to a proposal.
Run(o, status, kind) == [operator |-> o, status |-> status, kind |-> kind, proposal |-> None, raw |-> kind # "operator_error"]

Record(o, run) ==
  rows' = IF matrix.db = "smoke" THEN [rows EXCEPT ![matrix.dir] = @ \cup {run}] ELSE rows

\* One operator of the matrix: skipped when its command is not found, else a
\* turn that succeeds (which an expected failure is not) or fails.
Target(o, run) ==
  /\ matrix # None /\ o \in matrix.todo
  /\ run.operator = o
  /\ IF o \in installed
     THEN /\ Record(o, run)
          /\ captured' = [captured EXCEPT ![matrix.dir] =
                            IF run.kind = "invalid_output" THEN @ \cup {o} ELSE @]
     ELSE UNCHANGED <<rows, captured>>
  /\ matrix' = IF matrix.todo = {o} THEN None ELSE [matrix EXCEPT !.todo = @ \ {o}]
  /\ UNCHANGED <<installed, judge, judging, source, smokes, judged>>

Outcomes(o) == {Run(o, "succeeded", None), Run(o, "failed", "invalid_output"), Run(o, "failed", "operator_error")}

\* The status of a matrix, from what became of its targets.
MatrixPassed(targets) == "failed" \notin targets /\ targets \cap {"passed", "prepared"} # {}

--------------------------------------------------------------------------------
(* The judge                                                                   *)

Handoff(prepare, provider) ==
  [prepare |-> prepare, provider |-> provider, invoked |-> ~prepare /\ provider]

\* The request first; the handoff comes last, see JudgeHandsOff.
JudgeStart(provider) ==
  /\ Begin
  /\ judge' = [judge EXCEPT !.request = TRUE]
  /\ judging' = [at |-> "command", provider |-> provider, result |-> None]
  /\ UNCHANGED <<installed, rows, matrix, source, captured, judged>>

JudgePrepare(provider) ==
  /\ Begin
  /\ judge' = [judge EXCEPT !.request = TRUE, !.handoff = Handoff(TRUE, provider)]
  /\ UNCHANGED <<installed, rows, matrix, judging, source, captured, judged>>

\* The command is not found or times out, and leaves nothing new; or fails, or
\* says nothing, and leaves its output.
JudgeFails(raw) ==
  /\ judging # None /\ judging.at = "command"
  /\ judge' = [judge EXCEPT !.raw = @ \/ raw]
  /\ judging' = None
  /\ UNCHANGED <<installed, rows, matrix, source, smokes, captured, judged>>

JudgeAnswers(verdict) ==
  /\ judging # None /\ judging.at = "command"
  /\ judge' = [judge EXCEPT !.raw = TRUE, !.result = verdict]
  /\ judging' = [judging EXCEPT !.at = "check", !.result = verdict]
  /\ judged' = (judged \/ judging.provider)
  /\ UNCHANGED <<installed, rows, matrix, source, smokes, captured>>

\* The answer is recorded and the check run: an earlier pass stays in the database.
JudgeChecks ==
  /\ judging # None /\ judging.at = "check"
  /\ judge' = [judge EXCEPT !.passed = @ \/ judging.result = "pass"]
  /\ judging' = [judging EXCEPT !.at = "handoff"]
  /\ UNCHANGED <<installed, rows, matrix, source, smokes, captured, judged>>

JudgeHandsOff ==
  /\ judging # None /\ judging.at = "handoff"
  /\ judge' = [judge EXCEPT !.handoff = Handoff(FALSE, judging.provider)]
  /\ judging' = None
  /\ UNCHANGED <<installed, rows, matrix, source, smokes, captured, judged>>

--------------------------------------------------------------------------------
(* The generated source adapter and replay server                              *)

\* The adapter may write its events and still fail, or exit 0 and write none:
\* the events that are there are ingested, an earlier smoke's if need be.
SourceSmoke(writes, exits) ==
  LET events == IF writes THEN smokes' ELSE source.events
  IN  /\ Begin
      /\ source' = [source EXCEPT !.events = events, !.ok = exits /\ events # None,
                                  !.ingested = IF exits /\ events # None THEN events ELSE @]
      /\ UNCHANGED <<installed, rows, matrix, judge, judging, captured, judged>>

\* A server that still runs there refuses the next smoke; one that did not start
\* leaves nothing.  It is stopped whatever it answered, and stays if it will not.
ReplaySmoke(starts, replay, stop) ==
  LET goes == ~source.server /\ starts
  IN  /\ Begin
      /\ source' = [source EXCEPT !.server = @ \/ (goes /\ ~stop),
                                  !.ok = goes /\ replay /\ stop]
      /\ UNCHANGED <<installed, rows, matrix, judge, judging, captured, judged>>

\* The process dies in between: files and rows stay as they are.
Crash ==
  /\ ~Idle
  /\ matrix' = None /\ judging' = None
  /\ UNCHANGED <<installed, rows, judge, source, smokes, captured, judged>>

SmokeNext ==
  \/ \E o \in Operator : Install(o)
  \/ \E d \in Dir : StartMatrix(d)
  \/ \E o \in Operator : \E run \in Outcomes(o) : Target(o, run)
  \/ \E provider \in BOOLEAN : JudgeStart(provider)
  \/ \E provider \in BOOLEAN : JudgePrepare(provider)
  \/ \E raw \in BOOLEAN : JudgeFails(raw)
  \/ \E verdict \in Result : JudgeAnswers(verdict)
  \/ JudgeChecks \/ JudgeHandsOff
  \/ \E writes, exits \in BOOLEAN : SourceSmoke(writes, exits)
  \/ \E starts, replay, stop \in BOOLEAN : ReplaySmoke(starts, replay, stop)
  \/ Crash

--------------------------------------------------------------------------------
(* Doctor                                                                      *)

doctorVars == <<installed, rows, matrix, judge, judging, source, smokes, captured, judged, report>>

Safe == {"demo_smoke", "operator_smoke_prepare", "judge_smoke_prepare", "ace_native_prepare",
         "integration_smoke", "improve_smoke", "mcp_install_smoke"}
Optional == {"opentelemetry_smoke", "ace_native_smoke", "dashboard_smoke", "eval_smoke", "llm_eval_smoke"}
Basic == {"python", "sqlite", "bundled_assets", "fixture_replay", "fixture_replay_server"}
Optionally == {"jsonschema", "package_metadata"}
Surroundings == {"operator_commands", "release_python_targets", "mcp_clients", "serve_port"}

\* The install smoke of MCP clients has no flag of its own.
Requested(asked) ==
  IF "safe_smokes" \in asked THEN (asked \ {"safe_smokes"}) \cup Safe ELSE asked \ {"mcp_install_smoke"}

Ran(asked) == Basic \cup Optionally \cup Surroundings \cup Requested(asked)

--------------------------------------------------------------------------------
(* What a check may answer                                                     *)

\* Kyoko cannot work without these ...
BasicAnswers == {"pass", "fail"}
\* ... but without these ...
OptionallyAnswers == {"pass", "warn"}
\* ... and of what surrounds it, an operator is enough, the rest must be complete.
Surrounding(c) ==
  IF c = "operator_commands" THEN {IF installed # {} THEN "pass" ELSE "warn"} ELSE {"pass", "warn"}

\* Every preset is prepared or skipped; a workspace that cannot be made fails.
OperatorPrepare ==
  {"fail", IF MatrixPassed({IF o \in installed THEN "prepared" ELSE "skipped" : o \in Operator})
           THEN "pass" ELSE "warn"}

\* Request and handoff, or the cloned Skillbook, are written or something raised.
PrepareAnswers == {"pass", "fail"}

\* One client: not found, or its command, its config and its list decide.
InstallSmoke(found, exits, writes, lists) ==
  IF ~found THEN "skipped" ELSE IF exits /\ writes /\ lists THEN "passed" ELSE "failed"
\* Of both, with no client there is nothing to install into; the others have no
\* installer and are skipped.
McpInstall ==
  LET results == {{InstallSmoke(f, e, w, l), InstallSmoke(g, e, w, TRUE)} : f, g, e, w, l \in BOOLEAN}
  IN  {IF "failed" \in r THEN "fail" ELSE IF "passed" \in r THEN "pass" ELSE "warn" : r \in results}

\* The report says it passed: an applied decision, a proposal and a guard.
ImproveAnswers == {IF "applied" \in decisions /\ authored /\ guarded THEN "pass" ELSE "fail" :
                     decisions \in SUBSET {"applied", "skipped"}, authored \in BOOLEAN, guarded \in BOOLEAN}

\* Nothing raised on the way through adapter, ingest, server, replay and stop.
IntegrationAnswers == {IF events /\ served THEN "pass" ELSE "fail" : events, served \in BOOLEAN}

\* The SDK in another interpreter: its export is marked as its own, and is one
\* run of two spans or more.
OtelAnswers == {IF exits /\ wrote /\ marked /\ runs = 1 /\ spans >= 2 THEN "pass" ELSE "fail" :
                  exits, wrote, marked \in BOOLEAN, runs \in 0..2, spans \in 0..3}

\* An installed ACE proposes something, and nothing that is not supported.
AceNativeAnswers == {IF exits /\ proposed /\ ~unsupported THEN "pass" ELSE "fail" :
                       exits, proposed, unsupported \in BOOLEAN}

\* Both viewports show the navigation, and the browser complains of nothing.
DashboardAnswers == {IF viewports = 2 /\ shown = viewports /\ complaints = 0 THEN "pass" ELSE "fail" :
                       viewports, shown, complaints \in 0..2}

\* One failed span of two; one score of one half.
EvalAnswers == {IF numerator = 1 /\ denominator = 2 THEN "pass" ELSE "fail" :
                  numerator \in 0..2, denominator \in 1..2}
LlmEvalAnswers == {IF scored = 1 /\ halves = 1 THEN "pass" ELSE "fail" : scored \in 0..1, halves \in 0..2}

Answers(c) ==
  CASE c \in Basic -> BasicAnswers
    [] c \in Optionally -> OptionallyAnswers
    [] c \in Surroundings -> Surrounding(c)
    [] c = "operator_smoke_prepare" -> OperatorPrepare
    [] c = "mcp_install_smoke" -> McpInstall
    [] c = "improve_smoke" -> ImproveAnswers
    [] c = "integration_smoke" -> IntegrationAnswers
    [] c = "opentelemetry_smoke" -> OtelAnswers
    [] c = "ace_native_smoke" -> AceNativeAnswers
    [] c = "dashboard_smoke" -> DashboardAnswers
    [] c = "eval_smoke" -> EvalAnswers
    [] c = "llm_eval_smoke" -> LlmEvalAnswers
    [] OTHER -> PrepareAnswers

--------------------------------------------------------------------------------
(* The evidence that is there                                                  *)

\* Variant: one run of any directory for each operator.
MatchingAnywhere(d, o, status, kind) ==
  \E e \in Dir : rows[e] # None /\ \E run \in rows[e] :
    run.operator = o /\ run.status = status /\ run.kind = kind /\ run.raw

Matching(d, o, status, kind) ==
  rows[d] # None /\ \E run \in rows[d] :
    run.operator = o /\ run.status = status /\ run.kind = kind /\ run.raw

\* A success counts with a proposal that is still there.
LiveEvidence ==
  installed # {} /\ \E d \in LiveDir : \A o \in installed :
    rows[d] # None /\ \E run \in rows[d] : run.operator = o /\ run.status = "succeeded" /\ run.proposal # None

FailureEvidence ==
  installed # {} /\ \E d \in FailureDir : \A o \in installed : Matching(d, o, "failed", "invalid_output")

JudgeEvidence ==
  /\ judge.request /\ judge.raw /\ judge.result # None /\ judge.handoff # None
  /\ ~judge.handoff.prepare /\ judge.handoff.provider /\ judge.handoff.invoked
  /\ judge.result = "pass" /\ judge.passed

\* The runs of ACE with a provider that were retained satisfy a gate of their own,
\* by rows of another kind (_retained_ace_native_provider_evidence): left out.
Satisfied == {i \in {"live", "failure", "judge"} : /\ (i = "live" => LiveEvidence)
                                                  /\ (i = "failure" => FailureEvidence)
                                                  /\ (i = "judge" => JudgeEvidence)}

\* The external commands that doctor suggests.
Suggested(asked, statuses) ==
  ((IF installed # {} THEN {"live", "failure"} ELSE {}) \cup {"judge"}
     \cup (IF statuses["release_python_targets"] # "pass" THEN {"release"} ELSE {})
     \cup (IF "mcp_install_smoke" \notin Requested(asked) THEN {"mcp_install"} ELSE {})) \ Satisfied

--------------------------------------------------------------------------------
(* Its report                                                                  *)

\* A smoke that ran is complete, also one that found nothing to do.
SafeIsComplete(asked, statuses) == \A c \in Safe : c \in DOMAIN statuses

RuntimeIsReady(statuses) == \A c \in DOMAIN statuses : statuses[c] # "fail"

Doctor(asked, statuses) ==
  report' = [asked |-> asked, runtime |-> RuntimeIsReady(statuses),
             safe |-> SafeIsComplete(asked, statuses),
             v0 |-> RuntimeIsReady(statuses) /\ SafeIsComplete(asked, statuses),
             satisfied |-> Satisfied, pending |-> Suggested(asked, statuses),
             failed |-> {c \in DOMAIN statuses : statuses[c] = "fail"}]

\* At most one check does not answer as well as it can (a bound).
Best(c) == IF "pass" \in Answers(c) THEN "pass" ELSE "warn"
Statuses(asked, odd, answer) == [c \in Ran(asked) |-> IF c = odd THEN answer ELSE Best(c)]

RunDoctor ==
  \E asked \in Asked : \E odd \in Ran(asked) : \E answer \in Answers(odd) :
    /\ Idle /\ report = None
    /\ Doctor(asked, Statuses(asked, odd, answer))
    /\ UNCHANGED <<installed, rows, matrix, judge, judging, source, smokes, captured, judged>>

DoctorInit == Init /\ report = None

DoctorNext == RunDoctor \/ (SmokeNext /\ report' = None)

DoctorSpec == DoctorInit /\ [][DoctorNext]_doctorVars

--------------------------------------------------------------------------------
(* Properties                                                                  *)

(* doctor says that evidence is retained only of what happened, however often  *)
(* the smokes were repeated, failed or were cut off in the same directories:   *)
(* the expected failure of every operator that is installed was captured in    *)
(* one of them, and a judge backed by a provider has answered.  It calls       *)
(* version 0 ready only after every safe smoke ran and none failed, and it     *)
(* never both counts a follow-up as done and still asks for it                 *)
(* (docs/specs/0005-cli-json-contracts.md:372-420).                            *)
EvidenceIsEarned ==
  report # None =>
    /\ "failure" \in report.satisfied => \E d \in FailureDir : installed # {} /\ installed \subseteq captured[d]
    /\ "judge" \in report.satisfied => judged
    /\ report.v0 => "safe_smokes" \in report.asked /\ report.failed = {}
    /\ report.satisfied \cap report.pending = {}

(* The live smoke that doctor suggests can satisfy it (0005:391-398).  It      *)
(* cannot: a turn links no proposal to its run.                                *)
LiveSmokeSatisfies ==
  \A d \in LiveDir : rows[d] # None => \A run \in rows[d] : run.status = "succeeded" => run.proposal # None
================================================================================
