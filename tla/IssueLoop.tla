------------------------------- MODULE IssueLoop -------------------------------
(***************************************************************************)
(* The issue-centric loop of Kyoko: analysis surfaces issues through the     *)
(* dedup net, gate 1 authorises a fix, an operator authors a proposal, gate  *)
(* 2 applies it, the apply is watermarked, and the guard monitor rolls it    *)
(* back when the failure recurs (kyoko/issues.py, improve.py,                *)
(* autonomy_runner.py, guard_monitor.py).                                    *)
(*                                                                         *)
(* Every helper opens its own connection, and most read the issue on one    *)
(* and write it on another, so a caller carries the row it read across steps *)
(* of the others.  Callers are the analysis worker, a CLI or MCP process     *)
(* and the guard monitor; what a human does by one request is one step.      *)
(* The inside of an apply or a rollback is module Skillbook.                 *)
(***************************************************************************)
EXTENDS Naturals

CONSTANTS
  Issues,        \* ids, numbered in creation order
  Proposals,
  Workers,       \* processes that run analysis and the improvement loop
  Monitors,      \* processes that run the guard monitor
  Signatures,    \* what compute_issue_signature tells apart
  Traces,        \* recorded runs, the evidence of an issue
  None,
  Section,       \* proposal -> "context" or "harness"
  RecurrenceThreshold, RegressionThreshold, MaxAttempts,  \* the policy
  HandStatuses,  \* the statuses a human sets
  Severities,    \* the severities that are surfaced; TRUE is "high"
  MaxObserved    \* bound: no observation of an issue is bundled after this many

Statuses == {"open", "prioritized", "diagnosed", "accepted", "proposed",
             "applied", "resolved", "guarded", "dismissed"}

ASSUME LoopAssumption ==
  /\ Issues \subseteq Nat
  /\ Section \in [Proposals -> {"context", "harness"}]
  /\ RecurrenceThreshold \in Nat \ {0}
  /\ RegressionThreshold \in Nat \ {0}
  /\ MaxAttempts \in Nat \ {0}
  /\ MaxObserved \in Nat
  /\ Workers \cap Monitors = {}
  /\ HandStatuses \subseteq Statuses /\ Severities \subseteq BOOLEAN
  /\ None \notin Signatures \cup Proposals /\ None \notin Nat

VARIABLES
  issues,     \* rows of table skills in their problem phase, None if absent
  proposals,  \* rows of learning_proposals, None if absent
  mode,       \* autonomy_policies.mode
  call        \* what each worker and monitor is in the middle of

vars == <<issues, proposals, mode, call>>

Candidates == {"open", "prioritized", "diagnosed", "accepted"}
ReopenFrom == {"resolved", "guarded"}

\* What had been observed of an issue when its watermark was taken: history.
Stamp == [observed : Nat, evidence : SUBSET Traces]

\* "guard": a detector that watches for the issue is registered; "source": the
\* issue whose guard raised this one.
\* "observed" counts the observations integrated so far, "stamped" is what had
\* been observed, and on which traces, when the watermark was taken, and
\* "human" says whether a human accepted the issue: history, not columns.
Issue == [signature : Signatures \cup {None}, status : Statuses, severe : BOOLEAN,
          recurrence : Nat, evidence : SUBSET Traces, active : BOOLEAN,
          baseline : Nat \cup {None}, attempts : Nat, blocked : BOOLEAN,
          guard : BOOLEAN, source : Issues \cup {None},
          observed : Nat, human : BOOLEAN,
          stamped : Stamp \cup {None}]

Proposal == [issue : Issues, state : {"pending", "applied", "rolled_back"}]

ASSUME NoneAssumption == None \notin Issue \cup Proposal \cup Stamp

Callers == Workers \cup Monitors

\* row: the issue as it was read; todo: issues left in a loop; queue: proposals
\* left to apply or to undo; done: proposals authored, or found applied;
\* only: the proposal of a direct gate 2 call; flag: escalate, later blocked.
Call == [pc : {"idle", "create", "bundle", "bundling", "gate1", "accept",
               "accepting", "author", "link", "autonomy", "apply", "mark",
               "marking", "resolve", "guard", "monitor", "list", "rollback",
               "recording"},
         issue : Issues \cup {None}, row : Issue \cup {None},
         signature : Signatures \cup {None}, trace : Traces \cup {None},
         mode : {"hitl", "autonomous"}, todo : SUBSET Issues,
         queue : SUBSET Proposals, done : SUBSET Proposals,
         only : Proposals \cup {None}, human : BOOLEAN, flag : BOOLEAN]

Idle == [pc |-> "idle", issue |-> None, row |-> None, signature |-> None,
         trace |-> None, mode |-> "hitl", todo |-> {}, queue |-> {},
         done |-> {}, only |-> None, human |-> FALSE, flag |-> FALSE]

TypeOK ==
  /\ issues \in [Issues -> Issue \cup {None}]
  /\ proposals \in [Proposals -> Proposal \cup {None}]
  /\ mode \in {"hitl", "autonomous"}
  /\ call \in [Callers -> Call]

Init ==
  /\ issues = [i \in Issues |-> None]
  /\ proposals = [p \in Proposals |-> None]
  /\ mode \in {"hitl", "autonomous"}
  /\ call = [c \in Callers |-> Idle]

Exists(i) == issues[i] # None

\* The statement that changes an issue's columns, of whatever is committed by then.
Assign(i, row) == issues' = [issues EXCEPT ![i] = row]

--------------------------------------------------------------------------------
(* Surfacing: analyze._surface_issues over issues.surface_issue,             *)
(* merge_observation and bundle_into_issue.                                   *)

NewIssue(signature, status, severe, traces, source) ==
  [signature |-> signature, status |-> status, severe |-> severe,
   recurrence |-> 1, evidence |-> traces, active |-> FALSE, baseline |-> None,
   attempts |-> 0, blocked |-> FALSE, guard |-> FALSE, source |-> source,
   observed |-> 1, human |-> FALSE, stamped |-> None]

\* find_issue_by_signature: the newest one that is not dismissed.
Matches(s) == {i \in Issues : Exists(i) /\ issues[i].signature = s
                              /\ issues[i].status # "dismissed"}

\* The next unused id; ids are drawn in creation order.
Create(row) ==
  \E i \in Issues :
    /\ ~ Exists(i)
    /\ \A j \in Issues : j < i => Exists(j)
    /\ Assign(i, row)

SurfaceFind(w, s, t) ==
  /\ call[w].pc = "idle"
  /\ IF Matches(s) = {}
     THEN call' = [call EXCEPT ![w].pc = "create", ![w].signature = s, ![w].trace = t]
     ELSE \E i \in Matches(s) :
            /\ \A j \in Matches(s) : j <= i
            /\ issues[i].observed < MaxObserved
            /\ call' = [call EXCEPT ![w].pc = "bundle", ![w].issue = i, ![w].trace = t]
  /\ UNCHANGED <<issues, proposals, mode>>

SurfaceCreate(w) ==
  /\ call[w].pc = "create"
  /\ \E status \in {"open", "diagnosed"}, severe \in Severities :
       Create(NewIssue(call[w].signature, status, severe, {call[w].trace}, None))
  /\ call' = [call EXCEPT ![w] = Idle]
  /\ UNCHANGED <<proposals, mode>>

\* The agent names an entry to merge into; an active one falls back to SurfaceFind.
MergeCheck(w, i, t) ==
  /\ call[w].pc = "idle"
  /\ Exists(i) /\ ~ issues[i].active /\ issues[i].observed < MaxObserved
  /\ call' = [call EXCEPT ![w].pc = "bundle", ![w].issue = i, ![w].trace = t]
  /\ UNCHANGED <<issues, proposals, mode>>

BundleRead(w) ==
  /\ call[w].pc = "bundle"
  /\ call' = [call EXCEPT ![w].pc = "bundling", ![w].row = issues[call[w].issue]]
  /\ UNCHANGED <<issues, proposals, mode>>

BundleWrite(w) ==
  LET i    == call[w].issue
      read == call[w].row
  IN /\ call[w].pc = "bundling"
     /\ Assign(i, [issues[i] EXCEPT
          !.recurrence = read.recurrence + 1,
          !.evidence = read.evidence \cup {call[w].trace},
          !.status = IF read.status \in ReopenFrom THEN "open" ELSE @,
          !.observed = @ + 1])
     /\ call' = [call EXCEPT ![w] = Idle]
     /\ UNCHANGED <<proposals, mode>>

--------------------------------------------------------------------------------
(* Gate 1 and authoring: run_improvement_loop, author_proposal_for_issue,    *)
(* analyze.propose_for_issue.                                                 *)

\* Variant: a severe issue clears one recurrence early even at a single one.
SevereClearsOneEarly(row, m) ==
  /\ row.status # "dismissed"
  /\ IF m = "hitl" THEN row.status = "accepted"
     ELSE /\ ~ row.blocked
          /\ \/ row.recurrence >= RecurrenceThreshold
             \/ row.severe /\ row.recurrence >= RecurrenceThreshold - 1

EvaluateGate1(row, m) ==
  /\ row.status # "dismissed"
  /\ IF m = "hitl" THEN row.status = "accepted"
     ELSE /\ ~ row.blocked
          /\ \/ row.recurrence >= RecurrenceThreshold
             \/ /\ row.severe
                /\ row.recurrence >= 2
                /\ row.recurrence >= RecurrenceThreshold - 1

\* The policy and the list of candidates are read once per run of the loop.
LoopStart(w) ==
  /\ call[w].pc = "idle"
  /\ call' = [call EXCEPT ![w].pc = "gate1", ![w].mode = mode,
                          ![w].todo = {i \in Issues : Exists(i)
                                         /\ issues[i].status \in Candidates}]
  /\ UNCHANGED <<issues, proposals, mode>>

Gate1(w, i) ==
  /\ call[w].pc = "gate1"
  /\ i \in call[w].todo
  /\ IF EvaluateGate1(issues[i], call[w].mode)
     THEN call' = [call EXCEPT ![w].pc = "accept", ![w].issue = i, ![w].todo = @ \ {i}]
     ELSE call' = [call EXCEPT ![w].todo = @ \ {i}]
  /\ UNCHANGED <<issues, proposals, mode>>

\* Nothing authored: the run ends before gate 2.
Gate1End(w) ==
  /\ call[w].pc = "gate1"
  /\ call[w].todo = {}
  /\ IF call[w].done = {} THEN call' = [call EXCEPT ![w] = Idle]
     ELSE call' = [call EXCEPT ![w].pc = "autonomy"]
  /\ UNCHANGED <<issues, proposals, mode>>

\* The dashboard's "approve issue": accept, author, then gate 2 on the result.
HumanApprove(w, i) ==
  /\ call[w].pc = "idle"
  /\ Exists(i)
  /\ call' = [call EXCEPT ![w].pc = "accept", ![w].issue = i, ![w].human = TRUE]
  /\ UNCHANGED <<issues, proposals, mode>>

\* accept_issue refuses a dismissed issue; the refusal ends the run.
AcceptRead(w) ==
  /\ call[w].pc = "accept"
  /\ IF issues[call[w].issue].status = "dismissed"
     THEN call' = [call EXCEPT ![w] = Idle]
     ELSE call' = [call EXCEPT ![w].pc = "accepting"]
  /\ UNCHANGED <<issues, proposals, mode>>

AcceptWrite(w) ==
  LET i == call[w].issue
  IN /\ call[w].pc = "accepting"
     /\ Assign(i, [issues[i] EXCEPT !.status = "accepted",
                                    !.human = @ \/ call[w].human])
     /\ call' = [call EXCEPT ![w].pc = "author"]
     /\ UNCHANGED <<proposals, mode>>

\* The operator fails or emits an invalid proposal: the run ends; one that
\* repeats an existing proposal is skipped by the sweep.
AuthorFail(w) ==
  /\ call[w].pc = "author"
  /\ \/ call' = [call EXCEPT ![w] = Idle]
     \/ /\ \E p \in Proposals : proposals[p] # None
        /\ ~ call[w].human
        /\ call' = [call EXCEPT ![w].pc = "gate1"]
  /\ UNCHANGED <<issues, proposals, mode>>

Submit(w, p) ==
  /\ call[w].pc = "author"
  /\ proposals[p] = None
  /\ proposals' = [proposals EXCEPT ![p] = [issue |-> call[w].issue, state |-> "pending"]]
  /\ call' = [call EXCEPT ![w].pc = "link", ![w].done = @ \cup {p},
                          ![w].only = IF call[w].human THEN p ELSE None]
  /\ UNCHANGED <<issues, mode>>

\* link_proposal_to_issue, whatever has become of the issue meanwhile.
Link(w) ==
  LET i == call[w].issue
  IN /\ call[w].pc = "link"
     /\ Assign(i, [issues[i] EXCEPT !.status = "proposed"])
     /\ call' = [call EXCEPT ![w].pc = IF call[w].human THEN "autonomy" ELSE "gate1",
                             ![w].issue = None]
     /\ UNCHANGED <<proposals, mode>>

--------------------------------------------------------------------------------
(* Gate 2: autonomy_runner.run_autonomy, then the end of run_improvement_loop. *)

\* The loop over one given proposal, with no analysis.
DirectGate2(w, p) ==
  /\ call[w].pc = "idle"
  /\ proposals[p] # None
  /\ call' = [call EXCEPT ![w].pc = "autonomy", ![w].only = p]
  /\ UNCHANGED <<issues, proposals, mode>>

Pending == {p \in Proposals : proposals[p] # None /\ proposals[p].state = "pending"}

\* run_autonomy reads the policy and every pending proposal; HITL applies nothing.
AutonomyRead(w) ==
  /\ call[w].pc = "autonomy"
  /\ IF mode = "hitl" THEN call' = [call EXCEPT ![w] = Idle]
     ELSE call' = [call EXCEPT ![w] =
            [Idle EXCEPT !.pc = "apply", !.queue = Pending, !.only = call[w].only]]
  /\ UNCHANGED <<issues, proposals, mode>>

\* Variant: takes every decision for an apply.
ApplyOneCountsRefusals(w, p) ==
  /\ call[w].pc = "apply"
  /\ p \in call[w].queue
  /\ UNCHANGED <<issues, proposals>>
  /\ call' = [call EXCEPT ![w].queue = @ \ {p}, ![w].done = @ \cup {p}]
  /\ UNCHANGED mode

\* Variant: applies what it listed as pending without looking again.
ApplyOneUnchecked(w, p) ==
  /\ call[w].pc = "apply"
  /\ p \in call[w].queue
  /\ proposals' = [proposals EXCEPT ![p].state = "applied"]
  /\ call' = [call EXCEPT ![w].queue = @ \ {p}, ![w].done = @ \cup {p}]
  /\ UNCHANGED <<issues, mode>>

\* One proposal.  A context apply checks the state again, a harness one does
\* not; either may be refused.  A refused one that somebody else has applied
\* is reported as applied.  A context fix here is a create that names its issue,
\* which becomes the active entry.
ApplyOne(w, p) ==
  LET i == proposals[p].issue
  IN /\ call[w].pc = "apply"
     /\ p \in call[w].queue
     /\ \/ /\ proposals[p].state = "pending" \/ Section[p] = "harness"
           /\ proposals' = [proposals EXCEPT ![p].state = "applied"]
           /\ Assign(i, [issues[i] EXCEPT !.active = @ \/ Section[p] = "context"])
        \/ UNCHANGED <<issues, proposals>>
     /\ call' = [call EXCEPT ![w].queue = @ \ {p},
          ![w].done = IF proposals'[p].state = "applied" THEN @ \cup {p} ELSE @]
     /\ UNCHANGED mode

ApplyEnd(w) ==
  /\ call[w].pc = "apply"
  /\ call[w].queue = {}
  /\ call' = [call EXCEPT ![w].pc = "mark", ![w].only = None]
  /\ UNCHANGED <<issues, proposals, mode>>

\* mark_issue_applied reads the count ...
MarkRead(w, p) ==
  /\ call[w].pc = "mark"
  /\ p \in call[w].done
  /\ call' = [call EXCEPT ![w].pc = "marking", ![w].done = @ \ {p},
                          ![w].issue = proposals[p].issue,
                          ![w].row = issues[proposals[p].issue]]
  /\ UNCHANGED <<issues, proposals, mode>>

\* Variant: a baseline taken for an earlier fix is kept.
MarkWriteKeepsBaseline(w) ==
  LET i    == call[w].issue
      read == call[w].row
  IN /\ call[w].pc = "marking"
     /\ Assign(i, [issues[i] EXCEPT
          !.baseline = IF @ = None THEN read.recurrence ELSE @,
          !.stamped = [observed |-> read.observed, evidence |-> read.evidence]])
     /\ call' = [call EXCEPT ![w].pc = "resolve", ![w].row = None]
     /\ UNCHANGED <<proposals, mode>>

\* ... and stamps applied_at and recurrence_count_at_apply.
MarkWrite(w) ==
  LET i    == call[w].issue
      read == call[w].row
  IN /\ call[w].pc = "marking"
     /\ Assign(i, [issues[i] EXCEPT
          !.baseline = read.recurrence,
          !.stamped = [observed |-> read.observed, evidence |-> read.evidence]])
     /\ call' = [call EXCEPT ![w].pc = "resolve", ![w].row = None]
     /\ UNCHANGED <<proposals, mode>>

Resolve(w) ==
  LET i == call[w].issue
  IN /\ call[w].pc = "resolve"
     /\ Assign(i, [issues[i] EXCEPT !.status = "resolved"])
     /\ call' = [call EXCEPT ![w].pc = "guard"]
     /\ UNCHANGED <<proposals, mode>>

\* mint_guard_for_issue; a detector that does not register is only noted.
MintGuard(w) ==
  LET i == call[w].issue
  IN /\ call[w].pc = "guard"
     /\ \/ Assign(i, [issues[i] EXCEPT !.status = "guarded", !.guard = TRUE])
        \/ UNCHANGED issues
     /\ call' = [call EXCEPT ![w].pc = "mark", ![w].issue = None]
     /\ UNCHANGED <<proposals, mode>>

LoopEnd(w) ==
  /\ call[w].pc = "mark"
  /\ call[w].done = {}
  /\ call' = [call EXCEPT ![w] = Idle]
  /\ UNCHANGED <<issues, proposals, mode>>

--------------------------------------------------------------------------------
(* The guard monitor: monitor_guarded_issues.  Run by a request or a command, *)
(* never by a schedule.                                                        *)

Watermarked(i) == Exists(i) /\ issues[i].baseline # None /\ ~ issues[i].blocked

MonitorStart(m) ==
  /\ call[m].pc = "idle"
  /\ call' = [call EXCEPT ![m].pc = "monitor", ![m].mode = mode,
                          ![m].todo = {i \in Issues : Watermarked(i)}]
  /\ UNCHANGED <<issues, proposals, mode>>

\* A regression is confirmed by the counts; without autonomy it is only reported.
Regressed(row) ==
  /\ row.baseline # None
  /\ row.recurrence >= row.baseline + RegressionThreshold

MonitorCheck(m, i) ==
  /\ call[m].pc = "monitor"
  /\ i \in call[m].todo
  /\ IF Regressed(issues[i]) /\ call[m].mode = "autonomous"
     THEN call' = [call EXCEPT ![m].pc = "list", ![m].issue = i, ![m].row = issues[i],
                               ![m].todo = @ \ {i}]
     ELSE call' = [call EXCEPT ![m].todo = @ \ {i}]
  /\ UNCHANGED <<issues, proposals, mode>>

\* rollback_applied_change_for_issue lists the applied proposals of the issue.
RollbackList(m) ==
  /\ call[m].pc = "list"
  /\ call' = [call EXCEPT ![m].pc = "rollback", ![m].flag = FALSE,
       ![m].queue = {p \in Proposals : proposals[p] # None
                       /\ proposals[p].issue = call[m].issue
                       /\ proposals[p].state = "applied"}]
  /\ UNCHANGED <<issues, proposals, mode>>

\* One of them: undone, or skipped because it is a harness patch or a revision
\* of it could not be rolled back, which escalates.
RollbackOne(m, p) ==
  LET i == call[m].issue
  IN /\ call[m].pc = "rollback"
     /\ p \in call[m].queue
     /\ \/ /\ Section[p] = "context"
           /\ proposals' = [proposals EXCEPT ![p].state = "rolled_back"]
           /\ Assign(i, [issues[i] EXCEPT !.active = FALSE])
           /\ call' = [call EXCEPT ![m].queue = @ \ {p}]
        \/ /\ UNCHANGED <<issues, proposals>>
           /\ call' = [call EXCEPT ![m].queue = @ \ {p}, ![m].flag = TRUE]
     /\ UNCHANGED mode

\* It raises (the database is busy, say): noted, and the next issue is looked at.
RollbackFail(m) ==
  /\ call[m].pc \in {"list", "rollback", "recording"}
  /\ call' = [call EXCEPT ![m] = [Idle EXCEPT !.pc = "monitor", !.mode = call[m].mode,
                                             !.todo = call[m].todo]]
  /\ UNCHANGED <<issues, proposals, mode>>

\* Variant: one attempt too many before a human is asked.
RecordReadOneMore(m) ==
  /\ call[m].pc = "rollback"
  /\ call[m].queue = {}
  /\ call' = [call EXCEPT ![m].pc = "recording", ![m].row = issues[call[m].issue],
       ![m].flag = @ \/ call[m].row.attempts + 1 > MaxAttempts]
  /\ UNCHANGED <<issues, proposals, mode>>

\* mark_issue_rolled_back reads the issue once more; whether it is blocked was
\* decided from the row read before the rollback.
RecordRead(m) ==
  /\ call[m].pc = "rollback"
  /\ call[m].queue = {}
  /\ call' = [call EXCEPT ![m].pc = "recording", ![m].row = issues[call[m].issue],
       ![m].flag = @ \/ call[m].row.attempts + 1 >= MaxAttempts]
  /\ UNCHANGED <<issues, proposals, mode>>

RecordWrite(m) ==
  LET i == call[m].issue
  IN /\ call[m].pc = "recording"
     /\ Assign(i, [issues[i] EXCEPT
          !.status = "open", !.baseline = None, !.stamped = None,
          !.attempts = call[m].row.attempts + 1,
          !.blocked = @ \/ call[m].flag])
     /\ call' = [call EXCEPT ![m] = [Idle EXCEPT !.pc = "monitor", !.mode = call[m].mode,
                                                !.todo = call[m].todo]]
     /\ UNCHANGED <<proposals, mode>>

MonitorEnd(m) ==
  /\ call[m].pc = "monitor"
  /\ call[m].todo = {}
  /\ call' = [call EXCEPT ![m] = Idle]
  /\ UNCHANGED <<issues, proposals, mode>>

--------------------------------------------------------------------------------
(* What humans, agents and detectors do in one request. *)

\* update_autonomy_policy
SetMode(m) ==
  /\ mode # m
  /\ mode' = m
  /\ UNCHANGED <<issues, proposals, call>>

\* update_issue_status: dismissed, resolved by hand, or opened again.
SetStatus(i, status) ==
  /\ Exists(i)
  /\ issues[i].status # status
  /\ Assign(i, [issues[i] EXCEPT !.status = status])
  /\ UNCHANGED <<proposals, mode, call>>

\* apply_proposal from the dashboard or the CLI: gate 2 by hand.  Nothing else
\* of the loop runs.
HumanApply(p) ==
  LET i == proposals[p].issue
  IN /\ p \in Pending
     /\ proposals' = [proposals EXCEPT ![p].state = "applied"]
     /\ Assign(i, [issues[i] EXCEPT !.active = @ \/ Section[p] = "context"])
     /\ UNCHANGED <<mode, call>>

\* submit_proposal over MCP, for an issue that exists.
AgentSubmit(p, i) ==
  /\ Exists(i)
  /\ proposals[p] = None
  /\ proposals' = [proposals EXCEPT ![p] = [issue |-> i, state |-> "pending"]]
  /\ UNCHANGED <<issues, mode, call>>

\* raise_issue_for_run: a measurement, or the guard of an issue, fires: it
\* creates an issue without a signature, the guarded one is left as it is.
RaiseIssue(source, t, severe) ==
  /\ source # None => Exists(source) /\ issues[source].guard
  /\ Create(NewIssue(None, "open", severe, {t}, source))
  /\ UNCHANGED <<proposals, mode, call>>

\* The process dies between two connections.
Crash(c) ==
  /\ call[c].pc # "idle"
  /\ call' = [call EXCEPT ![c] = Idle]
  /\ UNCHANGED <<issues, proposals, mode>>

WorkerStep(w) ==
  \/ SurfaceCreate(w) \/ BundleRead(w) \/ BundleWrite(w)
  \/ Gate1End(w) \/ AcceptRead(w) \/ AcceptWrite(w) \/ AuthorFail(w) \/ Link(w)
  \/ AutonomyRead(w) \/ ApplyEnd(w) \/ MarkWrite(w) \/ Resolve(w) \/ MintGuard(w)
  \/ LoopEnd(w)
  \/ \E i \in Issues : Gate1(w, i)
  \/ \E p \in Proposals : Submit(w, p) \/ ApplyOne(w, p) \/ MarkRead(w, p)

WorkerStart(w) ==
  \/ \E t \in Traces : \/ \E s \in Signatures : SurfaceFind(w, s, t)
                       \/ \E i \in Issues : MergeCheck(w, i, t)
  \/ LoopStart(w)
  \/ \E i \in Issues : HumanApprove(w, i)
  \/ \E p \in Proposals : DirectGate2(w, p)

MonitorStep(m) ==
  \/ \E i \in Issues : MonitorCheck(m, i)
  \/ RollbackList(m) \/ RollbackFail(m) \/ RecordRead(m) \/ RecordWrite(m) \/ MonitorEnd(m)
  \/ \E p \in Proposals : RollbackOne(m, p)

\* What a human, an agent or a detector does in one request.
Request ==
  \/ \E m \in {"hitl", "autonomous"} : SetMode(m)
  \/ \E i \in Issues, status \in HandStatuses : SetStatus(i, status)
  \/ \E p \in Proposals : HumanApply(p)
  \/ \E p \in Proposals, i \in Issues : AgentSubmit(p, i)
  \/ \E source \in Issues \cup {None}, t \in Traces, severe \in Severities :
       RaiseIssue(source, t, severe)

Next ==
  \/ \E w \in Workers : WorkerStart(w) \/ WorkerStep(w)
  \/ \E m \in Monitors : MonitorStart(m) \/ MonitorStep(m)
  \/ Request
  \/ \E c \in Callers : Crash(c)

Spec == Init /\ [][Next]_vars

\* A call that has started goes on; nothing starts one.
Fairness == /\ \A w \in Workers : WF_vars(WorkerStep(w))
            /\ \A m \in Monitors : WF_vars(MonitorStep(m))

FairSpec == Spec /\ Fairness

--------------------------------------------------------------------------------
(* Properties. *)

Applied(p)    == proposals[p] # None /\ proposals[p].state = "applied"
Fixes(i)      == {p \in Proposals : proposals[p] # None /\ proposals[p].issue = i}
RolledBack(p) == Applied(p) /\ proposals'[p].state = "rolled_back"

\* An issue is watched for a regression only after a fix of it went live: an
\* apply that was refused, raced or interrupted never leaves a watermark
\* (run_improvement_loop marks what its decisions say was applied); and every
\* row has its shape.
WatermarkFollowsApply ==
  /\ TypeOK
  /\ \A i \in Issues : Exists(i) /\ issues[i].baseline # None =>
       \E p \in Fixes(i) : proposals[p].state # "pending"

\* Unless the policy asks for one occurrence only, no fix is authored without a
\* human for a failure seen once, however severe and whatever two processes
\* bundle at the same time (evaluate_gate1).
NeverAcceptedOnASingleOccurrence ==
  RecurrenceThreshold > 1 => \A w \in Workers :
    call[w].pc = "accepting" /\ ~ call[w].human /\ call[w].mode = "autonomous" =>
      issues[call[w].issue].observed >= 2

\* The monitor turns against a fix only when the failure was observed again
\* since the watermark it judges by was taken: neither a late mark nor counts
\* that overwrite each other make a regression of old observations.
RegressionIsConfirmed ==
  \A m \in Monitors : call[m].pc = "list" =>
    /\ call[m].row.stamped # None
    /\ call[m].row.observed > call[m].row.stamped.observed

\* Automatic retries are bounded and they end, for a monitor that runs alone: it
\* hands an issue to a human with the last attempt the policy grants, and from
\* then on it leaves the fixes of the issue to a human, later ones that the loop
\* applied and watermarked again included.  (Monitors that run side by side count
\* from rows read at different times: each lowers what another has counted.)
Alone == \A m, n \in Monitors : m = n

AttemptsAreBounded ==
  \A i \in Issues : Exists(i) =>
    /\ issues[i].attempts <= MaxAttempts
    /\ issues[i].attempts = MaxAttempts => issues[i].blocked

RetriesAreBounded ==
  [][Alone =>
       /\ AttemptsAreBounded'
       /\ \A i \in Issues : Exists(i) /\ issues[i].blocked =>
            \A p \in Fixes(i) : ~ RolledBack(p)]_vars

\* Where a context fix stands, read off its row: a context fix goes through its
\* life once, although the loop applies what it listed earlier, retries, races
\* the human's apply and the monitor, and dies anywhere.
ContextProposals == {p \in Proposals : Section[p] = "context"}

Stage == [p \in ContextProposals |->
            IF proposals[p] = None THEN "absent" ELSE proposals[p].state]

Lifecycle == INSTANCE ProposalLifecycle WITH
  Proposals <- ContextProposals, state <- Stage

LifecycleRefined == Lifecycle!Spec

--------------------------------------------------------------------------------
(* What the documentation and comments say of this code and a run refutes. *)

\* kyoko/issues.py:30: "with dismissed as a terminal off-ramp from any state";
\* no human takes it back here.
DismissedIsTerminal ==
  [][\A i \in Issues : Exists(i) /\ issues[i].status = "dismissed" =>
       issues'[i].status = "dismissed"]_vars

\* evaluate_gate1, kyoko/autonomy.py:53: "HITL: only once a human has accepted
\* the issue" does a loop in that mode have a fix authored.
HitlAuthorsOnlyHumanAccepted ==
  \A w \in Workers :
    call[w].pc = "author" /\ call[w].mode = "hitl" => issues[call[w].issue].human

\* mark_issue_rolled_back, kyoko/issues.py:914: an issue whose retries are
\* exhausted "falls back to HITL even in autonomous mode": the loop applies no
\* fix of it by itself.
BlockedFallsBackToHitl ==
  [][\A p \in Proposals : Applied(p)' /\ ~ Applied(p) /\ call' # call =>
       ~ issues[proposals[p].issue].blocked]_vars

\* kyoko/improve.py:211: "Direct proposal path (skip analysis): gate #2 over
\* this one proposal", and no other.
Gate2OverOneProposal ==
  [][\A w \in Workers : \A p \in Proposals :
       call[w].pc = "apply" /\ call[w].only \notin {None, p} /\ call'[w] # call[w] =>
         proposals'[p] = proposals[p]]_vars

\* kyoko/guard_monitor.py:3: "When a fix is applied, issues.applied_at is
\* watermarked": once nothing is under way, an applied fix that was never
\* rolled back is watched.
AppliedIsWatermarked ==
  (\A c \in Callers : call[c] = Idle) =>
    \A p \in Proposals :
      Applied(p) => \/ issues[proposals[p].issue].baseline # None
                    \/ issues[proposals[p].issue].attempts > 0

\* mark_issue_rolled_back, kyoko/issues.py:912: "Clear the apply watermark (the
\* fix is gone)": no fix of the issue is applied when it is cleared.
ClearedMeansGone ==
  [][\A i \in Issues :
       Exists(i) /\ issues[i].baseline # None /\ issues'[i].baseline = None =>
         \A p \in Fixes(i) : ~ Applied(p)]_vars

\* docs/specs/0018-two-mode-autonomy-rebuild.md:159: the monitor "counts only
\* post-fix recurrences and never rolls back on stale pre-fix traces".
NoRollbackOnPreFixTraces ==
  \A m \in Monitors : call[m].pc = "list" /\ call[m].row.stamped # None =>
    ~ (call[m].row.evidence \subseteq call[m].row.stamped.evidence)

\* kyoko/issues.py:37: surface_issue folds a recurrence into the existing issue
\* "instead of spawning a duplicate".
NoDuplicateIssues ==
  \A i, j \in Issues : i # j /\ Exists(i) /\ Exists(j) /\ issues[i].signature # None =>
    issues[i].signature # issues[j].signature

\* kyoko/guard_monitor.py:5: "a fire bundles the recurrence back into the same
\* issue" as the guard's, it does not create one.
FireBundlesIntoSameIssue == \A i \in Issues : Exists(i) => issues[i].source = None

\* kyoko/guard_monitor.py:8: a regression is as many recurrences since the apply
\* as the policy asks for, "never a single fire" when it asks for two (counts
\* that two analyses write over each other turn one into two).
NeverASingleFire ==
  \A m \in Monitors : call[m].pc = "list" /\ call[m].row.stamped # None =>
    call[m].row.observed >= call[m].row.stamped.observed + RegressionThreshold

\* docs/specs/0018-two-mode-autonomy-rebuild.md:305: "a recurring Scheduler pass"
\* of the monitor: a confirmed regression under autonomy does not stay.
RegressionIsHandled ==
  \A i \in Issues :
    (mode = "autonomous" /\ Watermarked(i) /\ Regressed(issues[i]))
      ~> ~ (mode = "autonomous" /\ Watermarked(i) /\ Regressed(issues[i]))
================================================================================
