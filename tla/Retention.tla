------------------------------- MODULE Retention -------------------------------
(* The manual prune of old rows (retention.py) beside the writers of the same  *)
(* database.  Candidates are collected in autocommit and deleted in one        *)
(* transaction afterwards, in which nothing is looked at again: what was       *)
(* inserted in between is protected by the foreign keys or by nothing.         *)
(*                                                                             *)
(* Left out: operator runs and timeline events, which no row refers to, and    *)
(* the dry run, which ends after the collection.                               *)
EXTENDS Naturals, FiniteSets

CONSTANTS
  Run, Span, Attempt, Replay, Check, Handoff,
  RunOf,      \* the run of each span
  ReplayOf,   \* the replay of each check run
  Earlier,    \* Earlier[r, q]: r started before q
  Graphs,     \* the references the rows may have: see Links
  MaxCites,   \* bound on the runs and spans that are named
  None

Task == {"task"}     \* one task, whose attempts they all are

ASSUME RetentionAssumption ==
  /\ RunOf \in [Span -> Run] /\ ReplayOf \in [Check -> Replay]
  /\ Earlier \in [Run \X Run -> BOOLEAN]
  /\ None \notin Run \cup Span \cup Attempt /\ MaxCites \in Nat

VARIABLES
  rows,      \* the rows there are, a set for each table
  links,     \* the references of a row, chosen before it is written
  cited,     \* runs and spans named in proposals, check specs and skills
  sources,   \* runs in skills.source_run_id
  prune      \* the prune under way

vars == <<rows, links, cited, sources, prune>>

Tables == [run : SUBSET Run, span : SUBSET Span, attempt : SUBSET Attempt,
           task : SUBSET Task, handoff : SUBSET Handoff,
           replay : SUBSET Replay, check : SUBSET Check]
Links == [parent : [Span -> Span \cup {None}],            \* spans.parent_span_id
          attempt : [Run -> Attempt \cup {None}],         \* runs.task_attempt_id
          run : [Attempt -> Run \cup {None}],             \* task_attempts.run_id, no foreign key
          source : [Replay -> Run \cup {None}],           \* replay_runs.source_run_id
          tried : [Replay -> Attempt \cup {None}],        \* replay_runs.task_attempt_id
          at : [Handoff -> Span \cup {None}],             \* handoffs.span_id
          from : [Handoff -> Task \cup {None}]]           \* handoffs.from_task_id

ASSUME GraphsAssumption == Graphs \subseteq Links

(* The foreign keys, which SQLite checks at the end of every statement.        *)
Whole(db, ln) ==
  /\ \A s \in db.span : RunOf[s] \in db.run /\ ln.parent[s] \in db.span \cup {None}
  /\ \A r \in db.run : ln.attempt[r] \in db.attempt \cup {None}
  /\ db.attempt # {} => db.task # {}
  /\ \A p \in db.replay : ln.source[p] \in db.run \cup {None} /\ ln.tried[p] \in db.attempt \cup {None}
  /\ \A c \in db.check : ReplayOf[c] \in db.replay
  /\ \A h \in db.handoff : ln.at[h] \in db.span \cup {None} /\ ln.from[h] \in db.task \cup {None}

(* The writers: a row with its references, in one transaction.                 *)
Written(db) == rows' = db /\ Whole(db, links)
Write ==
  /\ \/ \E r \in Run : r \notin rows.run /\ Written([rows EXCEPT !.run = @ \cup {r}])
     \/ \E s \in Span : s \notin rows.span /\ Written([rows EXCEPT !.span = @ \cup {s}])
     \/ \E a \in Attempt : a \notin rows.attempt /\ Written([rows EXCEPT !.attempt = @ \cup {a}, !.task = Task])
     \/ \E p \in Replay : p \notin rows.replay /\ Written([rows EXCEPT !.replay = @ \cup {p}])
     \/ \E c \in Check : c \notin rows.check /\ Written([rows EXCEPT !.check = @ \cup {c}])
     \/ \E h \in Handoff : h \notin rows.handoff /\ Written([rows EXCEPT !.handoff = @ \cup {h}])
  /\ UNCHANGED <<links, cited, sources, prune>>

Named == Cardinality(cited) + Cardinality(sources)

(* A proposal, a check spec or a skill names evidence that exists.             *)
Cite(x) ==
  /\ x \in rows.run \cup rows.span /\ x \notin cited /\ Named < MaxCites
  /\ cited' = cited \cup {x}
  /\ UNCHANGED <<rows, links, sources, prune>>

Source(r) ==
  /\ r \in rows.run \ sources /\ Named < MaxCites
  /\ sources' = sources \cup {r}
  /\ UNCHANGED <<rows, links, cited, prune>>

--------------------------------------------------------------------------------
(* What a prune takes                                                          *)

(* Of the runs that name one attempt, the last to start is the attempt's run.  *)
AttemptToRun(runs, a) ==
  {r \in runs : links.attempt[r] = a /\ ~ \E q \in runs : links.attempt[q] = a /\ Earlier[r, q]}

\* Variant: a span that is named does not protect its run.
ProtectedRunsOnly(runs, replays) ==
  LET kept == rows.replay \ replays IN
  {r \in runs : \/ r \in sources \cup cited
                \/ \E p \in kept : links.source[p] = r
                \/ \E p \in kept : links.tried[p] # None /\ r \in AttemptToRun(runs, links.tried[p])}

Protected(runs, replays) ==
  LET kept == rows.replay \ replays IN
  {r \in runs : \/ r \in sources
                \/ \E p \in kept : links.source[p] = r
                \/ \E p \in kept : links.tried[p] # None /\ r \in AttemptToRun(runs, links.tried[p])
                \/ r \in cited
                \/ \E s \in rows.span \cap cited : RunOf[s] = r}

(* old: the rows the cutoffs cover, none of a table whose day value is blank.  *)
Candidates(old) ==
  LET replays == rows.replay \cap old
      aged == rows.run \cap old
      runs == aged \ Protected(aged, replays)
      spans == {s \in rows.span : RunOf[s] \in runs}
      attempts == {a \in rows.attempt : links.run[a] \in runs}
      tasks == IF attempts # {} /\ attempts = rows.attempt THEN rows.task ELSE {} IN
  [run |-> runs, span |-> spans, attempt |-> attempts, task |-> tasks,
   handoff |-> {h \in rows.handoff : links.at[h] \in spans \/ links.from[h] \in tasks},
   replay |-> replays,
   check |-> {c \in rows.check : c \in old \/ ReplayOf[c] \in replays}]

(* What the documents say a prune must skip: runs referenced by skills, check  *)
(* specs, proposals and replay rows that stay.                                 *)
Referenced(replays) ==
  sources \cup (cited \cap Run) \cup {RunOf[s] : s \in cited \cap rows.span}
  \cup UNION {{links.source[p]} \cup IF links.tried[p] = None THEN {} ELSE {links.run[links.tried[p]]} :
              p \in rows.replay \ replays}

Idle == [at |-> "idle"]

\* The code reads table by table, and a row counts if it was there when its table
\* was read: here that is one moment for all of them.
Collect(old) ==
  /\ prune = Idle
  /\ LET c == Candidates(old) IN
     prune' = [at |-> "apply", candidates |-> c, referenced |-> Referenced(c.replay)]
  /\ UNCHANGED <<rows, links, cited, sources>>

Accepted(db, ln) == Whole(db, ln) /\ sources \subseteq db.run

(* One transaction: all of it, or an integrity error and none.                 *)
Apply ==
  /\ prune.at = "apply"
  /\ LET c == prune.candidates
         db == [table \in DOMAIN rows |-> rows[table] \ c[table]]
         ln == [links EXCEPT !.run = [a \in Attempt |-> IF a \in rows.attempt /\ @[a] \in c.run THEN None ELSE @[a]]] IN
     IF Accepted(db, ln) THEN rows' = db /\ links' = ln ELSE UNCHANGED <<rows, links>>
  /\ prune' = Idle
  /\ UNCHANGED <<cited, sources>>

Init ==
  /\ rows \in Tables /\ links \in Graphs /\ Whole(rows, links)
  /\ cited = {} /\ sources = {} /\ prune = Idle

Next ==
  \/ Write \/ Apply
  \/ \E x \in Run \cup Span : Cite(x)
  \/ \E r \in Run : Source(r)
  \/ \E old \in SUBSET (Run \cup Replay \cup Check) : Collect(old)

Spec == Init /\ [][Next]_vars

--------------------------------------------------------------------------------
(* Properties                                                                  *)

(* Every row has its shape, and no committed transaction leaves a reference    *)
(* to a row that is not there.                                                 *)
StoreIsWhole ==
  /\ rows \in Tables /\ links \in Links /\ Whole(rows, links)
  /\ cited \subseteq Run \cup Span /\ sources \subseteq rows.run
  /\ prune.at \in {"idle", "apply"}

(* A prune deletes no run, and no span of a run, that a skill, a check spec, a *)
(* proposal or a replay that stays referred to when it collected its           *)
(* candidates, whichever way the reference goes (retention.py:312-410, foreign *)
(* keys) and whatever is written until it deletes them.                        *)
CitedEvidenceSurvives ==
  [][/\ \A r \in rows.run \ rows'.run : r \notin prune.referenced
     /\ \A s \in rows.span \ rows'.span : RunOf[s] \notin prune.referenced]_vars

(* docs/specs/0001-canonical-model.md:892: "Trace pruning must skip runs       *)
(* referenced by applied skills, active replay rows, check specs, learning     *)
(* proposals, or skill occurrences."  What is named between the collection and *)
(* the deletion is not skipped.                                                *)
PruneSkipsReferenced ==
  [][\A r \in rows.run \ rows'.run : r \notin Referenced(prune.candidates.replay)]_vars

(* A prune nobody disturbs deletes what it collected.  It does not: a run that *)
(* stays may name an attempt, and a span a parent, of a run that goes.         *)
UndisturbedPruneSucceeds ==
  [][(/\ prune.at = "apply" /\ prune' = Idle
      /\ \E old \in SUBSET (Run \cup Replay \cup Check) : prune.candidates = Candidates(old))
     => rows'.run \cap prune.candidates.run = {}]_vars
================================================================================
