----------------------------- MODULE OperatorTurn ------------------------------
(* A turn of an operator, an external process: a diagnosis, which surfaces      *)
(* what it found in the skillbook, or the authoring of a proposal for an entry *)
(* (analyze.py, operator_adapters.py, proposals.py).  Each turn has a row in   *)
(* operator_runs from before the process starts until its outcome is known.    *)
(*                                                                             *)
(* A finding is the integration it asks for, the entry it names, its signature *)
(* and the spans it cites; what a process may answer is one of Answers: how it *)
(* ends ("garbage" lacks exactly one block of JSON), with the findings or the  *)
(* proposal in its block.                                                      *)
EXTENDS Naturals, Sequences, FiniteSets, SequencesExt, FiniteSetsExt

CONSTANTS
  None,
  Turn,        \* the turns
  Answers,     \* records [how, findings, proposal]
  Span,        \* the spans that may ever be stored
  FailedSpan,  \* those that failed
  Entries,     \* ids of skillbook entries, numbers in the order of their creation
  MaxRetries

VARIABLES
  adapter,     \* whether the registered adapter is enabled
  spans,       \* stored
  entries,     \* [Entries -> None or row of the skills table]
  proposals,   \* rows of learning_proposals
  turns,       \* rows of operator_runs
  pc           \* the processes that make the turns

vars == <<adapter, spans, entries, proposals, turns, pc>>
skillbook == <<entries, proposals>>

Exists(e) == e # None /\ entries[e] # None
Idle == [at |-> "idle"]
Ended == [at |-> "ended"]

Init ==
  /\ adapter = FALSE /\ spans = {}
  /\ entries = [e \in Entries |-> None] /\ proposals = {}
  /\ turns = [t \in Turn |-> None]
  /\ pc = [t \in Turn |-> Idle]

Goto(t, next) == pc' = [pc EXCEPT ![t] = next]

--------------------------------------------------------------------------------
(* Everybody else                                                              *)

Ingest(s) ==
  /\ s \notin spans /\ spans' = spans \cup {s}
  /\ UNCHANGED <<adapter, entries, proposals, turns, pc>>

\* Registered again, with another setting.
RegisterAdapter ==
  /\ adapter' = ~ adapter
  /\ UNCHANGED <<spans, entries, proposals, turns, pc>>

\* A human dismisses an entry, or a proposal is applied to it; none is ever deleted.
Dismiss(e) ==
  /\ Exists(e) /\ entries' = [entries EXCEPT ![e].dismissed = TRUE] /\ entries' # entries
  /\ UNCHANGED <<adapter, spans, proposals, turns, pc>>

Activate(e) ==
  /\ Exists(e) /\ entries' = [entries EXCEPT ![e].active = TRUE] /\ entries' # entries
  /\ UNCHANGED <<adapter, spans, proposals, turns, pc>>

--------------------------------------------------------------------------------
(* The row of a turn                                                           *)

Row(kind) == [kind |-> kind, status |-> "running", attempts |-> 0, error |-> None,
              issues |-> {}, proposal |-> None]

Update(t, status, error) ==
  turns' = [turns EXCEPT ![t] = [@ EXCEPT !.status = status, !.error = error,
              !.attempts = IF turns[t].kind = "diagnosis" THEN pc[t].attempt ELSE 0]]

\* The operator may be the adapter, which must be enabled, or any command.
Begin(t, kind, entry, adapted) ==
  /\ pc[t] = Idle
  /\ adapted => adapter
  /\ IF kind = "proposal" THEN Exists(entry) ELSE entry = None
  /\ turns' = [turns EXCEPT ![t] = Row(kind)]
  /\ Goto(t, [at |-> "run", kind |-> kind, entry |-> entry, attempt |-> 1])
  /\ UNCHANGED <<adapter, spans, skillbook>>

\* The built-in operator reports the first span that failed.
BeginMock(t) ==
  LET found == spans \cap FailedSpan
  IN  /\ pc[t] = Idle
      /\ \/ /\ found = {}
            /\ turns' = [turns EXCEPT ![t] = [Row("mock") EXCEPT !.status = "failed",
                                                !.error = "no_failed_span"]]
            /\ Goto(t, Ended)
         \/ \E s \in found :
              /\ turns' = [turns EXCEPT ![t] = Row("mock")]
              /\ Goto(t, [at |-> "surface", attempt |-> 0, wrote |-> {},
                          todo |-> <<[op |-> "add", target |-> None, signature |-> s, spans |-> {s}]>>])
      /\ UNCHANGED <<adapter, spans, skillbook>>

Fails(t, error) ==
  /\ Update(t, "failed", error)
  /\ Goto(t, Ended)
  /\ UNCHANGED <<adapter, spans, skillbook>>

\* What is no valid output is asked for again, as long as there are retries.
Rejects(t, error) ==
  IF pc[t].attempt <= MaxRetries
  THEN /\ Goto(t, [pc[t] EXCEPT !.attempt = @ + 1])
       /\ UNCHANGED <<adapter, spans, skillbook, turns>>
  ELSE Fails(t, error)

Running(t, kind) == pc[t].at = "run" /\ pc[t].kind = kind

\* Not found, timed out, or a return code other than zero: never tried again.
ProcessFails(t, answer) ==
  /\ pc[t].at = "run" /\ answer.how \in {"command_not_found", "timeout", "nonzero_exit"}
  /\ Fails(t, answer.how)

Garbage(t, answer) ==
  /\ pc[t].at = "run" /\ answer.how = "garbage"
  /\ Rejects(t, "invalid_output")

\* A cancel or a crash ends the process of a turn and leaves its row as it is.
Abandon(t) ==
  /\ pc[t].at \notin {"idle", "ended"}
  /\ Goto(t, Ended)
  /\ UNCHANGED <<adapter, spans, skillbook, turns>>

--------------------------------------------------------------------------------
(* Diagnosis                                                                   *)

ValidFinding(f) ==
  /\ f.op \in {"update", "merge"} => Exists(f.target)
  /\ f.spans # {} /\ f.spans \subseteq spans

\* Variant: one bad finding does not spoil the rest.
AcceptsAnyValid(findings) == findings = <<>> \/ \E f \in ToSet(findings) : ValidFinding(f)

\* All of them are validated before the first is surfaced.
Accepts(findings) == \A f \in ToSet(findings) : ValidFinding(f)

Finds(t, answer) ==
  /\ Running(t, "diagnosis") /\ answer.how = "findings"
  /\ IF Accepts(answer.findings)
     THEN /\ Goto(t, [at |-> "surface", attempt |-> pc[t].attempt, wrote |-> {}, todo |-> answer.findings])
          /\ UNCHANGED <<adapter, spans, skillbook, turns>>
     ELSE Rejects(t, "invalid_output")

Matching(f) == {e \in Entries : Exists(e) /\ entries[e].signature = f.signature /\ ~ entries[e].dismissed}

\* An update or a merge whose entry is active falls back to an add, and an
\* add to a merge into the newest entry of its signature.
Into(f) ==
  IF f.op # "add" /\ ~ entries[f.target].active THEN f.target
  ELSE IF Matching(f) # {} THEN Max(Matching(f)) ELSE None

SurfaceRead(t) ==
  LET into == Into(Head(pc[t].todo))
  IN  /\ pc[t].at = "surface" /\ pc[t].todo # <<>>
      /\ Goto(t, [at |-> "write", attempt |-> pc[t].attempt, wrote |-> pc[t].wrote, todo |-> pc[t].todo,
                  into |-> into, read |-> IF into = None THEN {} ELSE entries[into].spans])
      /\ UNCHANGED <<adapter, spans, skillbook, turns>>

Wrote(t, e) ==
  Goto(t, [at |-> "surface", attempt |-> pc[t].attempt, wrote |-> pc[t].wrote \cup {e}, todo |-> Tail(pc[t].todo)])

\* The union with what was read.
SurfaceInto(t) ==
  LET f == Head(pc[t].todo)
      e == pc[t].into
  IN  /\ pc[t].at = "write" /\ e # None
      /\ entries' = [entries EXCEPT ![e].spans = pc[t].read \cup f.spans, ![e].by = @ \cup {t}]
      /\ Wrote(t, e)
      /\ UNCHANGED <<adapter, spans, proposals, turns>>

SurfaceNew(t, e) ==
  LET f == Head(pc[t].todo)
  IN  /\ pc[t].at = "write" /\ pc[t].into = None
      /\ entries[e] = None /\ \A d \in Entries : d < e => entries[d] # None
      /\ entries' = [entries EXCEPT ![e] = [signature |-> f.signature, spans |-> f.spans,
                                            active |-> FALSE, dismissed |-> FALSE,
                                            by |-> {t}]]
      /\ Wrote(t, e)
      /\ UNCHANGED <<adapter, spans, proposals, turns>>

Surfaced(t) ==
  /\ pc[t].at = "surface" /\ pc[t].todo = <<>>
  /\ turns' = [turns EXCEPT ![t] = [@ EXCEPT !.status = "succeeded", !.attempts = pc[t].attempt,
                                              !.issues = pc[t].wrote]]
  /\ Goto(t, Ended)
  /\ UNCHANGED <<adapter, spans, skillbook>>

--------------------------------------------------------------------------------
(* Authoring                                                                   *)

\* The block is an object; Kyoko stamps the entry on it, and fails over one without an id.
Authors(t, answer) ==
  /\ Running(t, "proposal") /\ answer.how = "proposal"
  /\ Goto(t, IF answer.proposal.id = None THEN Ended
             ELSE [at |-> "submit", entry |-> pc[t].entry, payload |-> answer.proposal])
  /\ UNCHANGED <<adapter, spans, skillbook, turns>>

ValidProposal(payload, entry) ==
  /\ \A p \in proposals : p.id # payload.id
  /\ Exists(entry) /\ payload.spans \subseteq spans

\* Validated and inserted in one transaction.
Submit(t) ==
  LET payload == pc[t].payload
  IN  /\ pc[t].at = "submit"
      /\ IF ValidProposal(payload, pc[t].entry)
         THEN /\ proposals' = proposals \cup {[id |-> payload.id, entry |-> pc[t].entry, by |-> t]}
              /\ Goto(t, [pc[t] EXCEPT !.at = "link"])
              /\ UNCHANGED <<adapter, spans, entries, turns>>
         ELSE Fails(t, "invalid_proposal")

\* link_proposal_to_issue (module IssueLoop), and the row is closed.
Link(t) ==
  /\ pc[t].at = "link"
  /\ turns' = [turns EXCEPT ![t] = [@ EXCEPT !.status = "succeeded", !.proposal = pc[t].payload.id]]
  /\ Goto(t, Ended)
  /\ UNCHANGED <<adapter, spans, skillbook>>

Next ==
  \/ \E s \in Span : Ingest(s)
  \/ RegisterAdapter
  \/ \E e \in Entries : Dismiss(e) \/ Activate(e)
  \/ \E t \in Turn :
       \/ \E adapted \in BOOLEAN : Begin(t, "diagnosis", None, adapted)
       \/ \E e \in Entries, adapted \in BOOLEAN : Begin(t, "proposal", e, adapted)
       \/ BeginMock(t) \/ Abandon(t)
       \/ \E answer \in Answers :
            \/ ProcessFails(t, answer) \/ Garbage(t, answer)
            \/ Finds(t, answer) \/ Authors(t, answer)
       \/ SurfaceRead(t) \/ SurfaceInto(t) \/ Surfaced(t)
       \/ \E e \in Entries : SurfaceNew(t, e)
       \/ Submit(t) \/ Link(t)

(* The row tells what its turn left behind: a turn that failed surfaced and    *)
(* submitted nothing, and none that was retried for its output has retries     *)
(* left; one that succeeded lists the entries it wrote, or names a proposal of *)
(* its own; and every entry cites stored evidence (analyze_with_command_-      *)
(* operator and propose_for_issue, against other turns, humans and the gate).  *)
TurnsAreAccountedFor ==
  /\ \A t \in Turn : turns[t] # None =>
       LET row   == turns[t]
           wrote == {e \in Entries : Exists(e) /\ t \in entries[e].by}
           made  == {p \in proposals : p.by = t}
       IN  CASE row.status = "failed" ->
                  /\ wrote = {} /\ made = {}
                  /\ (row.kind = "diagnosis" /\ row.error = "invalid_output") => row.attempts = MaxRetries + 1
             [] row.status = "succeeded" ->
                  /\ wrote = row.issues /\ \A p \in made : p.id = row.proposal
                  /\ row.kind = "proposal" <=> made # {}
             [] OTHER -> Cardinality(made) <= 1
  /\ \A e \in Entries : Exists(e) => entries[e].spans \subseteq spans
================================================================================
