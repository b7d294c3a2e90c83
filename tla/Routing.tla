-------------------------------- MODULE Routing --------------------------------
(* What a profile needs next (profiles.py, _routing_summary) and the step that *)
(* does it (profile_next.py), by callers side by side and beside everything    *)
(* else that changes the rows: imports, proposals, policies, humans.           *)
(* list_profiles reads row by row in autocommit, and the step executes what    *)
(* that reading said: Look, Weigh and the step itself are apart; under autonomy *)
(* every proposal is prepared, patched and marked in transactions of their own, *)
(* each of which read its rows before it took the write lock.  Proposals are    *)
(* numbered in the order they were created, and those of harness make one patch *)
(* each; several patches, and what they do to files, are module Harness's.      *)
EXTENDS Naturals, FiniteSets, FiniteSetsExt

CONSTANTS None, Caller, Proposal, Section, RunStatus

VARIABLES
  evidence,   \* statuses of the runs and spans that were ever imported
  proposals,  \* [Proposal -> None or section and state]
  patch,      \* the status of the patch transaction of each
  specified,  \* the proposals that have check specs
  outcomes,   \* the statuses of the check runs of each
  policy,     \* mode and allow_repo_patch
  rooted,     \* whether root_path is a directory
  pc,
  granted     \* what the policy granted at some moment since each caller read it

vars == <<evidence, proposals, patch, specified, outcomes, policy, rooted, pc, granted>>
rows == <<evidence, proposals, patch, specified, outcomes, policy, rooted>>

Idle == [at |-> "idle"]

Init ==
  /\ evidence = {} /\ proposals = [p \in Proposal |-> None] /\ specified = {}
  /\ patch = [p \in Proposal |-> "none"] /\ outcomes = [p \in Proposal |-> {}]
  /\ policy = [mode |-> "hitl", repo |-> FALSE]
  /\ rooted \in BOOLEAN
  /\ pc = [c \in Caller |-> Idle] /\ granted = [c \in Caller |-> {}]

Goto(c, next) == pc' = [pc EXCEPT ![c] = next]
Return(c) == Goto(c, Idle) /\ granted' = [granted EXCEPT ![c] = {}]

Grants(mode, repo) ==
  (IF mode = "autonomous" THEN {"autonomy"} ELSE {}) \cup (IF repo THEN {"repo"} ELSE {})

\* A caller at the proposals of a run of autonomy; the first to do is next.
Running(c) == pc[c].at \notin {"idle", "weigh", "step"}

--------------------------------------------------------------------------------
(* Everybody else                                                              *)

Import(status) ==
  /\ evidence' = evidence \cup {status} /\ evidence' # evidence
  /\ UNCHANGED <<proposals, patch, specified, outcomes, policy, rooted, pc, granted>>

Submit(p, section) ==
  /\ proposals[p] = None /\ evidence # {}
  /\ \A q \in Proposal : q < p => proposals[q] # None
  /\ proposals' = [proposals EXCEPT ![p] = [section |-> section, state |-> "pending"]]
  /\ UNCHANGED <<evidence, patch, specified, outcomes, policy, rooted, pc, granted>>

Of(p, section) == proposals[p] # None /\ proposals[p].section = section

\* A human applies what is pending, and rolls back what was applied.
Decide(p, from, to) ==
  /\ Of(p, "context") /\ proposals[p].state = from
  /\ proposals' = [proposals EXCEPT ![p].state = to]
  /\ UNCHANGED <<evidence, patch, specified, outcomes, policy, rooted, pc, granted>>

\* Patches by commands of their own.  The status and the permission a command
\* found may be old by the time it has the write lock: what was rolled back may
\* be applied again.
PrepareByHand(p) ==
  /\ Of(p, "harness") /\ patch[p] = "none"
  /\ patch' = [patch EXCEPT ![p] = "ready"]
  /\ UNCHANGED <<evidence, proposals, specified, outcomes, policy, rooted, pc, granted>>

PatchByHand(p) ==
  /\ Of(p, "harness") /\ patch[p] \in {"ready", "rolled_back"}
  /\ patch' = [patch EXCEPT ![p] = "applied"]
  /\ UNCHANGED <<evidence, proposals, specified, outcomes, policy, rooted, pc, granted>>

RollBackPatch(p) ==
  /\ Of(p, "harness") /\ patch[p] \in {"applied", "rolled_back"}
  /\ patch' = [patch EXCEPT ![p] = "rolled_back"]
  /\ proposals' = [proposals EXCEPT ![p].state = "rolled_back"]
  /\ UNCHANGED <<evidence, specified, outcomes, policy, rooted, pc, granted>>

\* A human's approval marks the proposal once it has written its patches.
MarkByHand(p) ==
  /\ Of(p, "harness") /\ patch[p] \in {"applied", "rolled_back"}
  /\ proposals' = [proposals EXCEPT ![p].state = "applied"]
  /\ UNCHANGED <<evidence, patch, specified, outcomes, policy, rooted, pc, granted>>

\* The policy, which starts in hitl, is changed by its owner at any time.
UpdatePolicy(mode, repo) ==
  /\ policy' = [mode |-> mode, repo |-> repo] /\ policy' # policy
  /\ granted' = [c \in Caller |->
       IF Running(c) THEN granted[c] \cup Grants(mode, repo) ELSE granted[c]]
  /\ UNCHANGED <<evidence, proposals, patch, specified, outcomes, rooted, pc>>

--------------------------------------------------------------------------------
(* Routing                                                                     *)

Having(state) == {p \in Proposal : proposals[p] # None /\ proposals[p].state = state}
Latest(set) == IF set = {} THEN None ELSE Max(set)
LatestActive == Latest(Having("pending"))

\* Only runs and spans that "failed" call for an analysis.
WithoutProposal ==
  IF Having("applied") # {} THEN "loop_complete"
  ELSE IF "failed" \in evidence THEN "needs_analysis" ELSE "monitor"

\* The latest check run that passed decides, whatever came after it.
Weighed(p) ==
  IF p \notin specified THEN "needs_check_generation"
  ELSE IF "passed" \notin outcomes[p] THEN "needs_replay_or_check" ELSE "ready_for_autonomy"

Job(place, p, mode, todo) == [at |-> place, proposal |-> p, mode |-> mode, todo |-> todo]
Routed(state, p, mode, repo) == [at |-> "step", state |-> state, proposal |-> p, mode |-> mode, repo |-> repo]

Look(c) ==
  /\ pc[c] = Idle
  /\ Goto(c, IF evidence = {} THEN Routed("setup_sources", None, None, FALSE)
             ELSE IF LatestActive = None THEN Routed(WithoutProposal, None, None, FALSE)
             ELSE [at |-> "weigh", proposal |-> LatestActive])
  /\ UNCHANGED <<rows, granted>>

Weigh(c) ==
  LET p == pc[c].proposal
  IN  /\ pc[c].at = "weigh"
      /\ Goto(c, Routed(Weighed(p), p, policy.mode, policy.repo))
      /\ UNCHANGED <<rows, granted>>

--------------------------------------------------------------------------------
(* The step; one that is blocked, skipped or fails leaves everything as it is. *)

Doing(c, state) == pc[c].at = "step" /\ pc[c].state = state

Nothing(c) ==
  /\ pc[c].at = "step"
  /\ \/ pc[c].state \in {"setup_sources", "loop_complete", "monitor"}
     \/ pc[c].state = "needs_replay_or_check"   \* no adapter, or one that fails
     \/ pc[c].state = "ready_for_autonomy" /\ pc[c].mode # "autonomous"
     \/ pc[c].state = "needs_check_generation"   \* no check to be made of it
  /\ Return(c)
  /\ UNCHANGED rows

\* The adapter's turn finds issues, which have no part in the routing; without
\* one only the prompt is written.
Analyze(c) ==
  /\ Doing(c, "needs_analysis")
  /\ Return(c)
  /\ UNCHANGED rows

GenerateChecks(c) ==
  /\ Doing(c, "needs_check_generation")
  /\ specified' = specified \cup {pc[c].proposal}
  /\ Return(c)
  /\ UNCHANGED <<evidence, proposals, patch, outcomes, policy, rooted>>

\* A replay and the check of it (module Checks): a check run, or an error.
ReplayAndCheck(c, status) ==
  /\ Doing(c, "needs_replay_or_check")
  /\ outcomes' = [outcomes EXCEPT ![pc[c].proposal] = @ \cup {status}]
  /\ Return(c)
  /\ UNCHANGED <<evidence, proposals, patch, specified, policy, rooted>>

\* A harness proposal needs the permission as it was read and the root as it is.
MayRunAutonomy(c) ==
  proposals[pc[c].proposal].section = "harness" => pc[c].repo /\ rooted

\* run_autonomy takes the policy anew, then the proposals that are pending now.
RunAutonomy(c) ==
  /\ Doing(c, "ready_for_autonomy") /\ pc[c].mode = "autonomous"
  /\ IF MayRunAutonomy(c)
     THEN /\ Goto(c, Job("list", pc[c].proposal, policy.mode, {}))
          /\ granted' = [granted EXCEPT ![c] = Grants(policy.mode, policy.repo)]
     ELSE Return(c)
  /\ UNCHANGED rows

ListPending(c) ==
  /\ pc[c].at = "list"
  /\ Goto(c, Job("next", pc[c].proposal, pc[c].mode, Having("pending")))
  /\ UNCHANGED <<rows, granted>>

AutonomyIsDone(c) ==
  /\ pc[c].at = "next" /\ pc[c].todo = {}
  /\ Return(c)
  /\ UNCHANGED rows

--------------------------------------------------------------------------------
(* One proposal after the other, the oldest first (_handle_proposal).          *)

Current(c) == Min(pc[c].todo)
At(c, place) == pc[c].at = place /\ pc[c].todo # {}
Enter(c, place) == Goto(c, Job(place, pc[c].proposal, pc[c].mode, pc[c].todo))
NextProposal(c) == Goto(c, Job("next", pc[c].proposal, pc[c].mode, pc[c].todo \ {Current(c)}))

\* In hitl every proposal awaits its human; the changes of a context proposal,
\* the preparation and the patch of a harness proposal may be refused.
Skip(c) ==
  /\ \/ At(c, "next") /\ (pc[c].mode # "autonomous" \/ Of(Current(c), "context"))
     \/ \E place \in {"prepare", "ready", "status", "permission", "write"} : At(c, place)
  /\ NextProposal(c)
  /\ UNCHANGED <<rows, granted>>

\* One transaction, which finds out under the lock whether it was applied.
ApplyContext(c) ==
  LET p == Current(c)
  IN  /\ At(c, "next") /\ pc[c].mode = "autonomous" /\ Of(p, "context")
      /\ proposals[p].state = "pending"
      /\ proposals' = [proposals EXCEPT ![p].state = "applied"]
      /\ NextProposal(c)
      /\ UNCHANGED <<evidence, patch, specified, outcomes, policy, rooted, granted>>

TakeUp(c) ==
  /\ At(c, "next") /\ pc[c].mode = "autonomous" /\ Of(Current(c), "harness")
  /\ Enter(c, IF patch[Current(c)] = "none" THEN "prepare" ELSE "ready")
  /\ UNCHANGED <<rows, granted>>

\* A proposal is prepared once (harness_proposal_already_prepared).
Prepare(c) ==
  /\ At(c, "prepare") /\ patch[Current(c)] = "none"
  /\ patch' = [patch EXCEPT ![Current(c)] = "ready"]
  /\ Enter(c, "ready")
  /\ UNCHANGED <<evidence, proposals, specified, outcomes, policy, rooted, granted>>

\* No patch is ready any more: there is nothing to write, and it is marked.
FindReady(c) ==
  /\ At(c, "ready") /\ rooted
  /\ Enter(c, IF patch[Current(c)] = "ready" THEN "status" ELSE "mark")
  /\ UNCHANGED <<rows, granted>>

\* apply_patch_transaction: the row, then the policy, and then the write lock.
ReadStatus(c) ==
  /\ At(c, "status") /\ patch[Current(c)] = "ready"
  /\ Enter(c, "permission")
  /\ granted' = [granted EXCEPT ![c] = (@ \ {"repo"}) \cup Grants("hitl", policy.repo)]
  /\ UNCHANGED rows

\* Variant: a permission that was there at some moment of the run is enough.
ReadPermissionOfTheRun(c) ==
  /\ At(c, "permission")
  /\ Enter(c, "write")
  /\ UNCHANGED <<rows, granted>>

ReadPermission(c) ==
  /\ At(c, "permission") /\ policy.repo
  /\ Enter(c, "write")
  /\ UNCHANGED <<rows, granted>>

\* Neither the status nor the permission is read again.
WritePatch(c) ==
  /\ At(c, "write")
  /\ patch' = [patch EXCEPT ![Current(c)] = "applied"]
  /\ Enter(c, "mark")
  /\ UNCHANGED <<evidence, proposals, specified, outcomes, policy, rooted, granted>>

\* _mark_proposal_applied: whatever the proposal has become.
MarkApplied(c) ==
  /\ At(c, "mark")
  /\ proposals' = [proposals EXCEPT ![Current(c)].state = "applied"]
  /\ NextProposal(c)
  /\ UNCHANGED <<evidence, patch, specified, outcomes, policy, rooted, granted>>

\* The process ends at any point.
Die(c) ==
  /\ pc[c] # Idle
  /\ Return(c)
  /\ UNCHANGED rows

Next ==
  \/ \E status \in RunStatus : Import(status)
  \/ \E p \in Proposal :
       \/ \E section \in Section : Submit(p, section)
       \/ Decide(p, "pending", "applied") \/ Decide(p, "applied", "rolled_back")
       \/ PrepareByHand(p) \/ PatchByHand(p) \/ RollBackPatch(p) \/ MarkByHand(p)
  \/ \E mode \in {"hitl", "autonomous"}, repo \in BOOLEAN : UpdatePolicy(mode, repo)
  \/ \E c \in Caller :
       \/ Look(c) \/ Weigh(c) \/ Nothing(c) \/ Analyze(c) \/ GenerateChecks(c)
       \/ \E status \in {"passed", "failed"} : ReplayAndCheck(c, status)
       \/ RunAutonomy(c) \/ ListPending(c) \/ AutonomyIsDone(c)
       \/ Skip(c) \/ ApplyContext(c) \/ TakeUp(c) \/ Prepare(c) \/ FindReady(c)
       \/ ReadStatus(c) \/ ReadPermission(c) \/ WritePatch(c) \/ MarkApplied(c) \/ Die(c)

(* A step never replaces human review (run_profile_next_step, run_autonomy,    *)
(* apply_patch_transaction), against policies, patches, proposals and checks   *)
(* that change after they were read: what it changes of a proposal, it changes *)
(* while its owner has granted autonomy, if only for a moment since the run of *)
(* autonomy began, and after the proposal it was routed to passed a check; a   *)
(* patch is written under a permission that was there since its row was read,  *)
(* and a proposal of harness is marked with no patch of it still to be written. *)
(* The permission may be withdrawn between its reading and the write; and what *)
(* was patched, or rolled back, by hand is marked all the same.                *)
ReviewIsNotReplaced ==
  [][\A c \in Caller, p \in Proposal :
       /\ (pc'[c] # pc[c] /\ (proposals'[p] # proposals[p] \/ patch'[p] # patch[p])) =>
            "autonomy" \in granted[c] /\ "passed" \in outcomes[pc[c].proposal]
       /\ (pc'[c] # pc[c] /\ patch'[p] # patch[p] /\ patch'[p] = "applied") =>
            "repo" \in granted[c] /\ rooted
       /\ (pc'[c] # pc[c] /\ proposals'[p] # proposals[p] /\ Of(p, "harness")) =>
            patch[p] \in {"applied", "rolled_back"}]_vars
================================================================================
