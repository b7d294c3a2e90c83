--------------------------------- MODULE Views ---------------------------------
(* What the dashboard, the CLI and the operator are shown: the detail views    *)
(* (details.py), the confidence in a proposal (confidence.py), the metrics of  *)
(* a profile (dashboard_metrics.py) and the evidence bundle (evidence.py).     *)
(*                                                                             *)
(* None of them opens a transaction: every SELECT sees what is committed by    *)
(* then, and writers commit in between.  A view is a list of reads, one step   *)
(* each, in the order of the code; the lookups of a list of ids are one step.  *)
(* A row is what a view tells apart: its outcome, its references, its place in *)
(* the order of creation, which n stands for.  There is one profile; sources,  *)
(* agents, locks, skills, adapters, labels and the timeline of checks are left *)
(* out, and no list is longer than its limit.                                  *)
EXTENDS Integers, Sequences, FiniteSets, SequencesExt

CONSTANTS
  None,
  Run, Span, Handoff, Attempt, Task,
  RunOf,        \* the run of a span, of a handoff and of an attempt, which is its run's only one
  Parent,       \* parent_span_id
  TaskOf,       \* the task of an attempt
  Since, Recent,\* a time a bundle is asked from, and the runs that started after it
  Proposals,    \* [proposal -> what it says: refs, target, section, issue, confidence, errors,
                \*   replay (gate_expectations.requires_replay), check (a check_spec change)]
  Issue,        \* the row of an issue: refs, affected and proposals
  Stories,      \* what the store may hold when which view is asked for
  MaxWrites     \* bound on the transactions beside a view

Proposal == DOMAIN Proposals
Entity == Run \cup Span \cup Handoff \cup Attempt \cup Task
Bad == {"failed", "timed_out", "errored"}
TRUST_ORDER == <<"L0_generated", "L1_repeated", "L2_regression", "L3_human_approved">>
ACTIVE_STATES == {"pending", "ready", "review"}

VARIABLES
  db,       \* the tables, the policy of the profile, and a clock for created_at and ended_at
  view,     \* the view under way: its kind, its subject, the reads to come, what was read
  seen,     \* history: the rows there were when it began, ever since, and those that went
  writes

viewVars == <<db, view, seen, writes>>

Stored == {e \in Entity : db.row[e] # None}
Of(S, r) == {e \in S : RunOf[e] = r}
TasksOf(attempts) == {TaskOf[a] : a \in attempts}
Submitted == {p \in Proposal : db.state[p] # None}
Said(p) == {ref.entity : ref \in Proposals[p].refs}
Naming(ids) == {p \in Submitted : Said(p) \cap ids # {}}
Events(ids) == {e \in db.event : e.entity \in ids}
Rows(table, Test(_)) == SelectSeq(db[table], Test)
Numbers(rows) == {rows[i].n : i \in DOMAIN rows}
Statuses(rows) == {rows[i].status : i \in DOMAIN rows}
With(rows, status) == SelectSeq(rows, LAMBDA r : r.status = status)

(* The run of a check's target, which need not be there any more.              *)
SourceRun(target) ==
  CASE target \in Run -> target
    [] target \in Stored \cap (Span \cup Attempt) -> RunOf[target]
    [] OTHER -> None

Ids(d) == [row |-> {e \in Entity : d.row[e] # None}, proposal |-> {p \in Proposal : d.state[p] # None},
           event |-> d.event, check |-> Numbers(d.check), replay |-> Numbers(d.replay)]
Always(table) == seen.began[table] \ seen.gone[table]

--------------------------------------------------------------------------------
(* What may commit beside a view                                               *)

Commit(next) ==
  /\ writes < MaxWrites /\ view.todo # <<>>
  /\ db' = [next EXCEPT !.clock = @ + 1] /\ writes' = writes + 1
  /\ seen' = LET was == Ids(db)  is == Ids(next) IN
             [seen EXCEPT !.ever = [t \in DOMAIN is |-> @[t] \cup is[t]],
                          !.gone = [t \in DOMAIN is |-> @[t] \cup (was[t] \ is[t])]]
  /\ UNCHANGED view

(* A trace comes in, or comes in again: the run and all of it, and what the    *)
(* payload tells of its spans when the run has failed.                         *)
Ingest(r, outcome) ==
  LET own == {r} \cup Of(Span \cup Handoff \cup Attempt, r)
      all == own \cup TasksOf(Of(Attempt, r)) IN
  Commit([db EXCEPT !.row = [e \in Entity |-> IF e \in all THEN outcome ELSE @[e]],
                    !.event = IF outcome \in Bad
                              THEN @ \cup {[kind |-> "span_failed", entity |-> s] : s \in Of(Span, r)} ELSE @])

(* What a prune of the rows up to a cutoff keeps: the runs that a proposal, a  *)
(* check spec or a replay that stays names, itself or one of its spans; not    *)
(* those an issue names.                                                       *)
Protected(cutoff) ==
  LET named == UNION {Said(p) \cup {Proposals[p].target, Proposals[p].check.target} : p \in Submitted}
               \cup {db.spec[i].target : i \in DOMAIN db.spec} IN
  {r \in Run : \/ ({r} \cup Of(Span, r)) \cap named # {}
              \/ \E i \in DOMAIN db.replay : db.replay[i].n > cutoff /\ db.replay[i].source = r}

Prune(old, cutoff) ==
  LET runs == (old \cap Stored) \ Protected(cutoff)
      own == UNION {{r} \cup Of(Span \cup Handoff \cup Attempt, r) : r \in runs}
      tasks == {t \in TasksOf(own \cap Attempt) : {a \in Attempt \cap Stored : TaskOf[a] = t} \subseteq own}
      Stays(x) == x.n > cutoff IN
  Commit([db EXCEPT !.row = [e \in Entity |-> IF e \in own \cup tasks THEN None ELSE @[e]],
                    !.event = {e \in @ : e.entity \notin own \cup tasks},
                    !.replay = SelectSeq(@, Stays),
                    !.check = SelectSeq(@, LAMBDA c : Stays(c) /\ \A i \in DOMAIN db.replay :
                                                        c.replay = db.replay[i].n => Stays(db.replay[i]))])

(* A second generation finds the spec of the first.                            *)
Generate(p) ==
  /\ p \in Submitted /\ \A i \in DOMAIN db.spec : db.spec[i].proposal # p
  /\ Commit([db EXCEPT !.spec = Append(@, [n |-> Len(@) + 1, proposal |-> p, trust |-> Proposals[p].check.trust,
                                           target |-> Proposals[p].check.target])])

(* A replay says "passed" from the start, and has no output yet.               *)
CreateReplay(s) ==
  /\ s \in DOMAIN db.spec
  /\ LET source == SourceRun(db.spec[s].target) IN
     /\ source \in Stored \cup {None}
     /\ Commit([db EXCEPT !.replay = Append(@, [n |-> db.clock, ended |-> db.clock, spec |-> s, source |-> source,
                                                proposal |-> db.spec[s].proposal, status |-> "passed", out |-> None])])

(* The second transaction of a replay: its output has been ingested.           *)
CompleteReplay(i, status, out) ==
  /\ i \in DOMAIN db.replay /\ out \in Stored
  /\ Commit([db EXCEPT !.replay[i].status = status, !.replay[i].out = out, !.replay[i].ended = db.clock])

(* Of a replay of the same spec or of none.  The verdict may raise the trust   *)
(* level: what it takes is in Checks.                                          *)
RunCheck(s, replay, status, trust) ==
  /\ s \in DOMAIN db.spec
  /\ replay = None \/ \E i \in DOMAIN db.replay : db.replay[i].n = replay /\ db.replay[i].spec = s
  /\ \/ trust = db.spec[s].trust
     \/ db.spec[s].trust = "L0_generated" /\ trust = "L1_repeated"
     \/ db.spec[s].trust \in {"L0_generated", "L1_repeated"} /\ trust = "L2_regression" /\ status = "passed"
  /\ Commit([db EXCEPT !.check = Append(@, [n |-> db.clock, spec |-> s, proposal |-> db.spec[s].proposal,
                                            replay |-> replay, status |-> status]),
                       !.spec[s].trust = trust])

(* The autonomy run is done with a proposal.                                   *)
MarkApplied(p) ==
  /\ p \in Submitted
  /\ Commit([db EXCEPT !.state[p] = "applied", !.event = @ \cup {[kind |-> "autonomy_applied", entity |-> p]}])

Submit(p) == p \notin Submitted /\ Commit([db EXCEPT !.state[p] = "pending"])

(* A prune of the payloads: the file goes first, then, with its commit, the    *)
(* row with the preview.                                                       *)
UnlinkPayload(s) == db.blob[s] = "file" /\ Commit([db EXCEPT !.blob[s] = "preview"])
DeletePayload(s) == db.blob[s] = "preview" /\ Commit([db EXCEPT !.blob[s] = None])

--------------------------------------------------------------------------------
(* The reads of each view, and what one of them finds                          *)

ListReads == <<"list", "usage">>
list_runs(name, got) ==
  CASE name = "list" -> {[run |-> r, spans |-> Of(Span, r) \cap Stored,
                          failed |-> {s \in Of(Span, r) : db.row[s] \in Bad},
                          handoffs |-> Of(Handoff, r) \cap Stored] : r \in Run \cap Stored}
    [] name = "usage" -> {s \in Span \cap Stored : \E x \in got.list : x.run = RunOf[s]}

RunReads == <<"run", "spans", "handoffs", "attempt", "task", "events", "related", "replays">>
get_run_detail(name, r, got) ==
  LET ids == {r} \cup got.spans \cup got.handoffs \cup got.attempt \cup got.task IN
  CASE name = "run" -> {r} \cap Stored
    [] name = "spans" -> Of(Span, r) \cap Stored
    [] name = "handoffs" -> Of(Handoff, r) \cap Stored
    [] name = "attempt" -> Of(Attempt, r) \cap Stored
    [] name = "task" -> TasksOf(got.attempt) \cap Stored
    [] name = "events" -> Events(ids)
    [] name = "related" -> Naming(ids)
    [] name = "replays" -> Rows("replay", LAMBDA p : r \in {p.source, p.out})

CheckReads == <<"spec", "target", "source", "run", "checks", "replays", "proposal">>
get_check_detail(name, s, got) ==
  CASE name = "spec" -> {db.spec[s]}
    [] name = "target" -> {db.spec[s].target} \cap Stored
    [] name = "source" -> {SourceRun(db.spec[s].target)}
    [] name = "run" -> got.source \cap Stored
    [] name = "checks" -> Rows("check", LAMBDA c : c.spec = s)
    [] name = "replays" -> Rows("replay", LAMBDA p : p.spec = s)
    [] name = "proposal" -> {db.spec[s].proposal} \cap Submitted

ReplayReads == <<"replay", "spec", "proposal", "source", "output", "sourceSpans", "outputSpans", "checks">>
get_replay_detail(name, n, got) ==
  CASE name = "replay" -> Rows("replay", LAMBDA p : p.n = n)
    [] name = "spec" -> {p.spec : p \in ToSet(got.replay)}
    [] name = "proposal" -> {p.proposal : p \in ToSet(got.replay)} \cap Submitted
    [] name = "source" -> {p.source : p \in ToSet(got.replay)} \cap Stored
    [] name = "output" -> {p.out : p \in ToSet(got.replay)} \cap Stored
    [] name = "sourceSpans" -> {s \in Span \cap Stored : \E p \in ToSet(got.replay) : RunOf[s] = p.source}
    [] name = "outputSpans" -> {s \in Span \cap Stored : \E p \in ToSet(got.replay) : RunOf[s] = p.out}
    [] name = "checks" -> Rows("check", LAMBDA c : c.replay = n)

(* The others that say the same and are not settled.                           *)
duplicate_metrics(p) ==
  {q \in Submitted \ {p} : /\ Proposals[q].section = Proposals[p].section /\ Proposals[q].issue = Proposals[p].issue
                            /\ db.state[q] \in ACTIVE_STATES}

(* What the assessment reads once more, then, on connections of its own, the   *)
(* gate the state and the policy.                                              *)
ProposalReads ==
  <<"proposal", "evidence", "target", "specs", "checks", "replays", "patches", "events">>
  \o <<"resolved", "found", "assessedSpecs", "assessedChecks", "assessedReplays", "similar">>
  \o <<"state", "policy">>
get_proposal_detail(name, p) ==
  CASE name \in {"proposal", "state"} -> db.state[p]
    [] name \in {"evidence", "resolved"} -> Said(p) \cap Stored
    [] name \in {"target", "found"} -> {Proposals[p].target} \cap Stored
    [] name \in {"specs", "assessedSpecs"} -> Rows("spec", LAMBDA s : s.proposal = p)
    [] name \in {"checks", "assessedChecks"} -> Rows("check", LAMBDA c : c.proposal = p)
    [] name \in {"replays", "assessedReplays"} -> Rows("replay", LAMBDA q : q.proposal = p)
    [] name = "patches" -> Rows("patch", LAMBDA t : t.proposal = p)
    [] name = "events" -> Events({p})
    [] name = "similar" -> duplicate_metrics(p)
    [] name = "policy" -> db.policy

(* The row of the issue was read on a connection of its own.                   *)
IssueIds == Issue.refs \cup Issue.affected
IssueReads == <<"evidence", "affected", "linked", "related", "spanRuns", "runs">>
get_issue_detail(name, got) ==
  CASE name = "evidence" -> Issue.refs \cap Stored
    [] name = "affected" -> Issue.affected \cap Stored
    [] name = "linked" -> Issue.proposals \cap Submitted
    [] name = "related" -> Naming(IssueIds) \ got.linked
    [] name = "spanRuns" -> IssueIds \cap Span \cap Stored
    [] name = "runs" -> ({RunOf[s] : s \in got.spanRuns} \cup (Issue.refs \cap Run)) \cap Stored

BundleReads ==
  <<"run", "tasks", "attempts", "runs", "spans", "handoffs", "events", "proposals", "specs", "checks", "replays">>
  \o <<"payloads">>
(* Of one run, of those since a time, or of all; tasks and attempts have no    *)
(* time.                                                                       *)
build_evidence_bundle(name, r, got) ==
  LET runs == (IF r \in Run THEN {r} ELSE IF r = Since THEN Recent ELSE Run) \cap Stored
      In(S) == {e \in S \cap Stored : RunOf[e] \in runs} IN
  CASE name = "run" -> {r} \cap Stored
    [] name = "tasks" -> (IF r \in Run THEN TasksOf(Of(Attempt, r) \cap Stored) ELSE Task) \cap Stored
    [] name = "attempts" -> (IF r \in Run THEN Of(Attempt, r) ELSE Attempt) \cap Stored
    [] name = "runs" -> runs
    [] name = "spans" -> IF r \in Run THEN Of(Span, r) \cap Stored ELSE In(Span)
    [] name = "handoffs" -> IF r = None THEN Handoff \cap Stored ELSE IF r \in Run THEN Of(Handoff, r) \cap Stored
                            ELSE In(Handoff)
    [] name = "events" -> IF r = None THEN db.event
                          ELSE IF r \in Run THEN Events({r} \cup (Of(Span \cup Handoff, r) \cap Stored))
                          ELSE Events(runs \cup In(Span \cup Handoff))
    [] name = "proposals" -> Submitted
    [] name = "specs" -> db.spec
    [] name = "checks" -> db.check
    [] name = "replays" -> db.replay
    [] name = "payloads" -> [s \in got.spans |-> db.blob[s]]

(* The row with the greatest ended_at.                                         *)
LatestEnded(rows) ==
  IF rows = <<>> THEN None ELSE CHOOSE x \in ToSet(rows) : \A y \in ToSet(rows) : y.ended <= x.ended

MetricReads == <<"runs", "failed", "failedSpans", "states", "sections", "checks", "latestCheck", "specs",
                 "replays", "latestReplay", "latestPassed", "results", "autonomy">>
get_dashboard_metrics(name) ==
  CASE name = "runs" -> Run \cap Stored
    [] name = "failed" -> {r \in Run \cap Stored : db.row[r] \in Bad}
    [] name = "failedSpans" -> {s \in Span \cap Stored : db.row[s] \in Bad}
    [] name = "states" -> [p \in Submitted |-> db.state[p]]
    [] name = "sections" -> [p \in Submitted |-> Proposals[p].section]
    [] name = "checks" -> db.check
    [] name = "latestCheck" -> IF db.check = <<>> THEN None ELSE Last(db.check)
    [] name = "specs" -> db.spec
    [] name = "replays" -> db.replay
    [] name = "latestReplay" -> LatestEnded(db.replay)
    [] name = "latestPassed" -> LatestEnded(With(db.replay, "passed"))
    [] name = "results" -> db.result
    [] name = "autonomy" -> {e \in db.event : e.entity \in Proposal}

Reads == [list |-> ListReads, run |-> RunReads, check |-> CheckReads, replay |-> ReplayReads, proposal |-> ProposalReads,
          issue |-> IssueReads, bundle |-> BundleReads, metrics |-> MetricReads]

Find(name) ==
  CASE view.kind = "list" -> list_runs(name, view.got)
    [] view.kind = "run" -> get_run_detail(name, view.of, view.got)
    [] view.kind = "check" -> get_check_detail(name, view.of, view.got)
    [] view.kind = "replay" -> get_replay_detail(name, view.of, view.got)
    [] view.kind = "proposal" -> get_proposal_detail(name, view.of)
    [] view.kind = "issue" -> get_issue_detail(name, view.got)
    [] view.kind = "bundle" -> build_evidence_bundle(name, view.of, view.got)
    [] view.kind = "metrics" -> get_dashboard_metrics(name)

(* What is asked for is not there: an error.  So it is for the attempt of a    *)
(* run that was pruned after its row was read (a KeyError, details.py:130).    *)
Missing(name, found) ==
  \/ view.kind \in {"run", "bundle"} /\ name = "run" /\ view.of \in Run /\ found = {}
  \/ view.kind = "run" /\ name = "attempt" /\ Of(Attempt, view.of) # {} /\ found = {}
  \/ view.kind = "replay" /\ name = "replay" /\ found = <<>>
  \/ view.kind = "proposal" /\ name = "proposal" /\ found = None

Read ==
  /\ view.todo # <<>>
  /\ LET name == Head(view.todo)  found == Find(name) IN
     view' = IF Missing(name, found) THEN [view EXCEPT !.todo = <<>>, !.error = TRUE]
             ELSE [view EXCEPT !.todo = Tail(@), !.got = @ @@ (name :> found)]
  /\ UNCHANGED <<db, seen, writes>>

ViewInit ==
  \E story \in Stories :
    /\ db = story.db /\ writes = story.writes
    /\ view = [kind |-> story.kind, of |-> story.of, todo |-> Reads[story.kind], error |-> FALSE,
               got |-> [name \in {} |-> {}]]
    /\ seen = [began |-> Ids(db), ever |-> Ids(db), gone |-> [t \in DOMAIN Ids(db) |-> {}]]

ViewNext ==
  \/ Read
  \/ \E s \in Span : UnlinkPayload(s) \/ DeletePayload(s)
  \/ \E old \in SUBSET Run, cutoff \in 0..2 : Prune(old, cutoff)
  \/ \E r \in Run, outcome \in {"completed", "failed"} : Ingest(r, outcome)
  \/ \E p \in Proposal : Submit(p) \/ Generate(p) \/ MarkApplied(p)
  \/ \E s \in 1..2 : CreateReplay(s)
  \/ \E i \in 1..2, status \in {"passed", "failed"}, out \in Run : CompleteReplay(i, status, out)
  \/ \E s \in 1..2, replay \in 1..3 \cup {None}, status \in {"passed", "failed", "errored"}, trust \in ToSet(TRUST_ORDER) :
       RunCheck(s, replay, status, trust)

--------------------------------------------------------------------------------
(* What is made of it: the score of a proposal, in ten-thousandths; where the  *)
(* code rounds, a half goes up                                                 *)

Least(a, b) == IF a < b THEN a ELSE b
If(condition, points) == IF condition THEN points ELSE 0

evidence_metrics(p, resolved, found) ==
  LET refs == Proposals[p].refs  roles == {ref.role : ref \in refs} IN
  [total |-> Cardinality(refs), resolved |-> Cardinality({ref \in refs : ref.entity \in resolved}),
   types |-> Cardinality({S \in {Run, Span, Handoff, Attempt, Task} : \E ref \in refs : ref.entity \in S}),
   failure |-> "failure" \in roles, context |-> roles \cap {"context", "handoff", "supporting"} # {},
   target |-> found # {}]

(* The share that is resolved is rounded to thousandths first.                 *)
evidence_contribution(m) ==
  LET ratio == IF m.total = 0 THEN 0 ELSE (2000 * m.resolved + m.total) \div (2 * m.total) IN
  Least(3500, (16 * ratio + 5) \div 10 + If(m.total >= 2, 400) + If(m.failure, 500) + If(m.context, 300)
              + If(m.target, 500) + If(m.types >= 2, 200))

(* The highest level of the specs that have a run that passed, 0 for none.     *)
highest_verified_trust_level(specs, checks) ==
  LET passed == {c.spec : c \in ToSet(With(checks, "passed"))}
      levels == {i \in 1..4 : \E s \in ToSet(specs) : s.n \in passed /\ s.trust = TRUST_ORDER[i]} IN
  IF levels = {} THEN 0 ELSE CHOOSE i \in levels : \A j \in levels : j <= i

verification_metrics(specs, checks, replays) ==
  [passed |-> Len(With(checks, "passed")), failed |-> Len(With(checks, "failed")),
   passedReplays |-> Len(With(replays, "passed")), failedReplays |-> Len(With(replays, "failed")),
   trust |-> highest_verified_trust_level(specs, checks)]

verification_contribution(m) ==
  LET points == If(m.passed > 0, 1200) + If(m.passed > 1, 400) - If(m.failed > 0, 1800)
                + If(m.passedReplays > 0, 800) - If(m.failedReplays > 0, 1200) + <<0, 0, 400, 700, 1000>>[m.trust + 1] IN
  IF points < -3000 THEN -3000 ELSE Least(3500, points)

(* In hundredths, between 0 and 99.                                            *)
assess_proposal_confidence(p, got) ==
  LET score == 1000 + 25 * Proposals[p].confidence
               + evidence_contribution(evidence_metrics(p, got.resolved, got.found))
               + verification_contribution(verification_metrics(got.assessedSpecs, got.assessedChecks,
                                                                got.assessedReplays))
               - Least(1800, 600 * Cardinality(got.similar)) - Least(2000, 500 * Proposals[p].errors) IN
  IF score < 0 THEN 0 ELSE Least(99, (score + 50) \div 100)

confidence_level(score) == IF score < 45 THEN "low" ELSE IF score < 75 THEN "medium" ELSE "high"

--------------------------------------------------------------------------------
(* The chain of evidence of a proposal                                         *)

(* A row for each spec, the last, where the first row of the spec was; every   *)
(* row is of a spec.                                                           *)
\* Variant: the first row of each spec.
FirstRowsByKey(rows) ==
  FoldLeft(LAMBDA latest, row : IF row.spec \in {r.spec : r \in ToSet(latest)} THEN latest ELSE Append(latest, row),
           <<>>, rows)
latest_rows_by_key(rows) ==
  FoldLeft(LAMBDA latest, row : IF row.spec \in {r.spec : r \in ToSet(latest)}
                                THEN [i \in DOMAIN latest |-> IF latest[i].spec = row.spec THEN row ELSE latest[i]]
                                ELSE Append(latest, row),
           <<>>, rows)

combined_status(rows) ==
  LET statuses == Statuses(rows) IN
  IF rows = <<>> THEN "not_run"
  ELSE IF statuses = {"passed"} THEN "passed"
  ELSE IF statuses \cap Bad # {} THEN "failed"
  ELSE IF Cardinality(statuses) = 1 THEN CHOOSE s \in statuses : TRUE ELSE "mixed"

inspect_proposal_autonomy_gate(p, state, policy) ==
  IF state \in {"applied", "rolled_back", "failed"} THEN "already_" \o state
  ELSE IF ~ policy.autonomous THEN "awaiting_human_review"
  ELSE IF Proposals[p].section = "harness" /\ ~ policy.repo THEN "blocked" ELSE "would_apply"

proposal_evidence_chain(p, got) ==
  [observed_issue |-> IF got.evidence = Said(p) THEN "resolved" ELSE "missing_evidence",
   proposed_fix |-> got.proposal,
   check_gate |-> IF got.specs = <<>> THEN "not_generated" ELSE combined_status(latest_rows_by_key(got.checks)),
   replay |-> IF got.replays = <<>> /\ ~ Proposals[p].replay THEN "not_required"
              ELSE combined_status(latest_rows_by_key(got.replays)),
   harness_patch |-> IF got.patches = <<>> THEN None ELSE Last(got.patches).status,
   history |-> got.events,
   ready |-> inspect_proposal_autonomy_gate(p, got.state, got.policy) \in {"would_apply", "applied"}]

--------------------------------------------------------------------------------
(* The traces of an issue, the tree of a run, the share of runs that failed    *)

AffectedTraces(got) ==
  [r \in got.runs |-> {s \in got.spanRuns : RunOf[s] = r}]

span_tree(spans) ==
  [roots |-> {s \in spans : Parent[s] \notin spans},
   children |-> [s \in spans |-> {c \in spans : Parent[c] = s}]]

(* The spans whose tokens and cost a run is listed with.                       *)
attach_run_metrics(got) == [r \in {x.run : x \in got.list} |-> {s \in got.usage : RunOf[s] = r}]

(* A score is in tenths, yes being 10; so is bands.low, 2 when not given.      *)
is_notable(result) ==
  IF result.boolean
  THEN (result.score = 10) = (result.direction \in {"true_is_notable", "lower_is_better"})
  ELSE (IF result.direction = "higher_is_better" THEN 10 - result.score ELSE result.score) >= result.low

(* "Verified" is a replay that passed, the last to end, that has an output.    *)
replay_metrics(got) ==
  [passed |-> Numbers(With(got.replays, "passed")), latest_passed |-> got.latestPassed,
   verified |-> got.latestPassed # None /\ got.latestPassed.out # None]

eval_metrics(results) ==
  [evaluated |-> {x.run : x \in results}, failed |-> {x.run : x \in {y \in results : is_notable(y)}}]

--------------------------------------------------------------------------------
(* Properties                                                                  *)

Shown == view.todo = <<>> /\ ~ view.error
Asking(kind) == Shown /\ view.kind = kind

(* Nothing that was committed before a view was asked for, and was never       *)
(* deleted, is missing from it, whatever else is written while it is read: the *)
(* spans of a run, what proposals say of any of them, the verdicts on a        *)
(* proposal, both as they are listed and as they are scored.                   *)
NothingIsMissed ==
  /\ Asking("run") =>
       LET own == {view.of} \cup Of(Always("row") \cap DOMAIN RunOf, view.of) IN
       /\ own \subseteq {view.of} \cup view.got.spans \cup view.got.handoffs \cup view.got.attempt
       /\ {e \in Always("event") : e.entity \in own} \subseteq view.got.events
       /\ {p \in Always("proposal") : Said(p) \cap own # {}} \subseteq view.got.related
  /\ Asking("check") =>
       /\ {c \in Always("check") : \E d \in ToSet(db.check) : d.n = c /\ d.spec = view.of} \subseteq Numbers(view.got.checks)
       /\ {RunOf[s] : s \in Always("row") \cap {db.spec[view.of].target} \cap Span} \cap Always("row") \subseteq view.got.run
  /\ Asking("replay") =>
       \A p \in ToSet(view.got.replay) :
         /\ {s \in Always("row") \cap Span : RunOf[s] = p.source} \subseteq view.got.sourceSpans
         /\ {s \in Always("row") \cap Span : RunOf[s] = p.out} \subseteq view.got.outputSpans
  /\ Asking("proposal") =>
       /\ Always("row") \cap Said(view.of) \subseteq view.got.evidence \cap view.got.resolved
       /\ LET mine == {c \in Always("check") : \E d \in ToSet(db.check) : d.n = c /\ d.proposal = view.of} IN
          mine \subseteq Numbers(view.got.checks) \cap Numbers(view.got.assessedChecks)
  /\ Asking("bundle") /\ view.of = None =>
       /\ Always("row") \subseteq view.got.runs \cup view.got.spans \cup view.got.handoffs
                                  \cup view.got.attempts \cup view.got.tasks
       /\ Always("event") \subseteq view.got.events /\ Always("proposal") \subseteq view.got.proposals

(* What is read later agrees with what was read before: the spans of a run     *)
(* that is shown are shown, with their payloads as long as there are files,    *)
(* and so is the replay of a check run; a verdict that is listed is scored,    *)
(* what is ready to apply is not also shown as applied,                        *)
(* a run is listed with the tokens of the spans it is listed with, and when a  *)
(* replay that passed is counted, the newest of those is no older; unless it   *)
(* was deleted, or its verdict changed, in the meantime.                       *)
LaterReadsAgree ==
  /\ Asking("list") =>
       \A x \in view.got.list : x.run \notin seen.gone.row =>
         x.spans = attach_run_metrics(view.got)[x.run] /\ x.failed \subseteq x.spans
  /\ Asking("bundle") =>
       /\ \A r \in view.got.runs \ seen.gone.row : Of(Span, r) \subseteq view.got.spans
       /\ \A s \in view.got.spans : db.blob[s] = "file" => view.got.payloads[s] = "file"
       /\ \A c \in ToSet(view.got.checks) : c.replay \in Numbers(view.got.replays) \cup seen.gone.replay \cup {None}
  /\ Asking("proposal") =>
       /\ Numbers(view.got.checks) \ seen.gone.check \subseteq Numbers(view.got.assessedChecks)
       /\ Numbers(view.got.replays) \ seen.gone.replay \subseteq Numbers(view.got.assessedReplays)
       /\ LET chain == proposal_evidence_chain(view.of, view.got) IN
          chain.ready => chain.proposed_fix \notin {"applied", "rolled_back", "failed"}
  /\ Asking("metrics") =>
       LET metrics == replay_metrics(view.got) IN
       /\ \A p \in ToSet(db.replay) : p \in ToSet(view.got.replays) /\ p.n \in metrics.passed =>
            metrics.latest_passed # None /\ metrics.latest_passed.ended >= p.ended
       /\ metrics.verified => metrics.latest_passed.out \in seen.ever.row
       /\ DOMAIN view.got.states \subseteq DOMAIN view.got.sections

(* The dashboard links an issue, and a run its spans, to what was there when   *)
(* it was looked up: to each run of a span that stays, and to no other; each   *)
(* span of a run is in its tree once.                                          *)
LinksLeadSomewhere ==
  /\ Asking("issue") =>
       LET traces == AffectedTraces(view.got) IN
       /\ DOMAIN traces \subseteq seen.ever.row
       /\ Always("row") \cap ((Issue.refs \cap Run) \cup {RunOf[s] : s \in IssueIds \cap Span}) \subseteq DOMAIN traces
       /\ \A s \in IssueIds \cap Span \cap Always("row") : s \in traces[RunOf[s]]
       /\ {p \in Always("proposal") : p \in Issue.proposals \/ Said(p) \cap IssueIds # {}}
          \subseteq view.got.linked \cup view.got.related
  /\ Asking("run") =>
       LET tree == span_tree(view.got.spans) IN
       \A s \in view.got.spans :
         Cardinality({p \in view.got.spans : s \in tree.children[p]}) + If(s \in tree.roots, 1) = 1

(* A gate that is shown as passed has no spec whose last run failed.           *)
GateTellsTheLatest ==
  Asking("proposal") /\ proposal_evidence_chain(view.of, view.got).check_gate = "passed" =>
    \A c \in ToSet(db.check) :
      c.n \in Always("check") /\ c.proposal = view.of /\ c.status = "failed" =>
        \E d \in ToSet(view.got.checks) : d.spec = c.spec /\ d.n > c.n /\ d.status = "passed"

(* Confidence is earned: it is high only with a check or a replay that passed, *)
(* low when a check and a replay failed and none passed, and low when all      *)
(* there is is what the operator says of itself.                               *)
ConfidenceIsEarned ==
  Asking("proposal") =>
    LET verdicts == Statuses(view.got.assessedChecks) \cup Statuses(view.got.assessedReplays)
        level == confidence_level(assess_proposal_confidence(view.of, view.got)) IN
    /\ level = "high" => "passed" \in verdicts
    /\ /\ "failed" \in Statuses(view.got.assessedChecks) /\ "failed" \in Statuses(view.got.assessedReplays)
       /\ "passed" \notin verdicts
       => level = "low"
    /\ verdicts = {} /\ Proposals[view.of].refs = {} => level = "low"

(* A run counts as failed when, and only when, some score says it has a        *)
(* problem of the size of its judge's lowest band, yes and no being all and    *)
(* nothing, whichever way the judge counts; and only when it was scored.       *)
RateIsTheJudges ==
  Asking("metrics") =>
    LET metrics == eval_metrics(view.got.results)
        Size(x) == IF x.direction \in {"higher_is_better", "false_is_notable"} THEN 10 - x.score ELSE x.score IN
    /\ metrics.failed \subseteq metrics.evaluated
    /\ \A r \in metrics.evaluated : r \in metrics.failed <=> \E x \in view.got.results : x.run = r /\ Size(x) >= x.low

(* All of them.                                                                *)
ViewsAreRight ==
  NothingIsMissed /\ LaterReadsAgree /\ LinksLeadSomewhere /\ GateTellsTheLatest /\ ConfidenceIsEarned /\ RateIsTheJudges
================================================================================
