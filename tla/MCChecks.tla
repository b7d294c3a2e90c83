-------------------------------- MODULE MCChecks -------------------------------
(* Parts that share nothing but the database; part says which one a behaviour  *)
(* is about.                                                                   *)
(*   checks: a check on a failing target and a judge, with answers of all      *)
(*     kinds;                                                                  *)
(*   views: what is shown of a store of two runs and two proposals, whatever   *)
(*     commits beside it, and of proposals with up to two verdicts of each     *)
(*     kind and metrics of up to two scores, with nothing beside it.           *)
EXTENDS Checks, TLC

CONSTANTS s1, base, good, bad
CONSTANTS run1, run2, span1, span2, span3, handoff, attempt, task, since, p1, p2, MaxWrites

MCDefinition(type, target, level) ==
  [type |-> type, target |-> target, assertions |-> {}, presets |-> {}, minSpans |-> 1,
   minHandoffs |-> 0, expected |-> "succeeded", allowed |-> {}, own |-> None,
   trust_level |-> level]

MCDefinitions ==
  {MCDefinition("deterministic_assertion", base, L0), MCDefinition("judge", base, L0),
   MCDefinition("regression_replay", base, L1)}

MCRunData ==
  [r \in Run |->
    [status |-> IF r = good THEN "succeeded" ELSE "failed", spans |-> 1,
     failedSpans |-> IF r = good THEN 0 ELSE 1, handoffs |-> 0, field |-> "expected"]]

MCAnswer(out, status, actual, carries, rejected) ==
  [identified |-> TRUE, carries |-> carries, rejected |-> rejected, trace |-> good, out |-> out,
   mapped |-> out, status |-> status, actual |-> actual]

\* A good trace; the same by a replay that did more than it was asked to; one the
\* store rejects; a status nobody knows; an answer that names a run of the store.
MCAnswers ==
  {MCAnswer(good, "passed", "none", TRUE, FALSE),
   MCAnswer(good, "passed", "network_mocked", TRUE, FALSE),
   MCAnswer(good, "passed", "none", TRUE, TRUE),
   MCAnswer(good, "aborted", "none", TRUE, FALSE),
   MCAnswer(bad, "passed", "none", FALSE, FALSE)}

Alike == Permutations(Callers)

--------------------------------------------------------------------------------

\* Only run2 is ever old: proposals and checks name the other.
MCRunOf == (span1 :> run1) @@ (span2 :> run1) @@ (span3 :> run2) @@ (handoff :> run2) @@ (attempt :> run2)
MCParent == (span1 :> None) @@ (span2 :> span1) @@ (span3 :> span1)
MCTaskOf == attempt :> task
MCEntity == {run1, run2, task} \cup DOMAIN MCRunOf

MCSays(refs, target, replay) ==
  [refs |-> refs, target |-> target, section |-> "harness", issue |-> "same", confidence |-> 100, errors |-> 0,
   replay |-> replay, check |-> [target |-> target, trust |-> L0]]
MCProposals ==
  (p1 :> MCSays({[entity |-> run1, role |-> "failure"], [entity |-> span2, role |-> "context"]}, span2, TRUE))
  @@ (p2 :> MCSays({}, run2, FALSE))
MCIssue == [refs |-> {span1, run2}, affected |-> {span3}, proposals |-> {p2}]

MCRows(of) ==
  [e \in MCEntity |-> IF e \in of \/ (e \in DOMAIN MCRunOf /\ MCRunOf[e] \in of) \/ (e = task /\ run2 \in of)
                      THEN "failed" ELSE None]
MCSpec1(level) == [n |-> 1, proposal |-> p1, trust |-> level, target |-> span2]
MCCheck(n, status) == [n |-> n, spec |-> 1, proposal |-> p1, replay |-> None, status |-> status]
MCReplay(n, status) ==
  [n |-> n, ended |-> n, spec |-> 1, proposal |-> p1, source |-> run1, status |-> status, out |-> run2]
MCEmpty ==
  [row |-> MCRows({}), state |-> [p \in {p1, p2} |-> None], spec |-> <<>>, check |-> <<>>, replay |-> <<>>,
   patch |-> <<>>, event |-> {}, result |-> {}, policy |-> [autonomous |-> TRUE, repo |-> TRUE], clock |-> 3,
   blob |-> (span1 :> "file") @@ (span2 :> None) @@ (span3 :> "preview")]
MCStore(of, other, level, verdicts, replayed) ==
  [MCEmpty EXCEPT !.row = MCRows(of), !.state = (p1 :> "pending") @@ (p2 :> other), !.spec = <<MCSpec1(level)>>,
                  !.check = [i \in DOMAIN verdicts |-> MCCheck(i, verdicts[i])],
                  !.replay = [i \in DOMAIN replayed |-> MCReplay(i, replayed[i])]]
MCChecked == MCStore({run1, run2}, None, L1, <<"failed">>, <<"passed">>)

MCVerdicts == UNION {[1..n -> {"passed", "failed"}] : n \in 0..2}
MCScored == {[MCStore(of, other, level, verdicts, replayed)
              EXCEPT !.policy = [autonomous |-> autonomous, repo |-> autonomous], !.patch = patches] :
             of \in {{run1}, {run2}}, other \in {None, "pending"}, level \in {L0, L3},
             verdicts \in MCVerdicts, replayed \in MCVerdicts, autonomous \in BOOLEAN,
             patches \in {<<>>, <<[proposal |-> p1, status |-> "prepared"]>>}}
MCResult(r, direction, boolean, scores) ==
  {[run |-> r, direction |-> direction, boolean |-> boolean, score |-> score, low |-> 2] : score \in scores}
MCDirections == {"true_is_notable", "false_is_notable", "lower_is_better", "higher_is_better"}
MCResults == UNION {MCResult(run1, d, TRUE, {0, 10}) : d \in MCDirections}
             \cup UNION {MCResult(r, d, FALSE, {0, 2, 9}) : r \in {run1, run2}, d \in {"lower_is_better", "higher_is_better"}}

MCStory(db, kind, of, writes) == [db |-> db, kind |-> kind, of |-> of, writes |-> writes]
MCStories ==
  {MCStory(MCChecked, kind, run2, 0) : kind \in {"run", "bundle"}}
  \cup {MCStory(MCChecked, kind, 1, 0) : kind \in {"check", "replay"}}
  \cup {MCStory(MCChecked, "proposal", p1, 0), MCStory(MCChecked, "bundle", since, 0), MCStory(MCEmpty, "bundle", None, 0)}
  \cup {MCStory(MCChecked, kind, None, 0) : kind \in {"list", "issue", "bundle", "metrics"}}
  \cup {MCStory(db, "proposal", p1, MaxWrites) : db \in MCScored}
  \cup {MCStory([MCChecked EXCEPT !.result = {x, y}], "metrics", None, MaxWrites) : x, y \in MCResults}

VARIABLES part, db, view, seen, writes
V == INSTANCE Views WITH
       Run <- {run1, run2}, Span <- {span1, span2, span3}, Handoff <- {handoff}, Attempt <- {attempt}, Task <- {task},
       RunOf <- MCRunOf, Parent <- MCParent, TaskOf <- MCTaskOf,
       Since <- since, Recent <- {run2}, Proposals <- MCProposals, Issue <- MCIssue,
       Stories <- MCStories
shown == <<db, view, seen, writes>>

MCInit ==
  /\ part \in {"checks", "views"}
  /\ Init
  /\ part # "checks" => definition = [s \in Specs |-> CHOOSE d \in Definitions : TRUE]
  /\ IF part = "views" THEN V!ViewInit ELSE db = None /\ view = None /\ seen = None /\ writes = None

MCNext ==
  /\ UNCHANGED part
  /\ \/ part = "checks" /\ Next /\ UNCHANGED shown
     \/ part = "views" /\ V!ViewNext /\ UNCHANGED vars

MCSpec == MCInit /\ [][MCNext]_<<vars, part, shown>>

(* The properties of Views, of its part.                                       *)
ViewsAreRight == part = "views" => V!ViewsAreRight
================================================================================
