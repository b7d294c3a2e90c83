------------------------------- MODULE Skillbook -------------------------------
(***************************************************************************)
(* The canonical context store of Kyoko (kyoko/apply.py): skillbook         *)
(* entries and context delivery rules, changed only by applying a proposal  *)
(* or by rolling back a revision, and the revision log that audits both.    *)
(*                                                                         *)
(* Callers are the threads of the web server, the analysis worker, the CLI  *)
(* and the MCP server, all on one SQLite file.  Reads before the first      *)
(* write of a connection run in autocommit, so what they returned may be    *)
(* stale by the time the write lock is taken; the statements that follow    *)
(* belong to one transaction, which other callers see only once it commits. *)
(***************************************************************************)
EXTENDS Naturals, Sequences

CONSTANTS
  Skills,         \* ids of rows of table skills (issues are rows of it too)
  Rules,          \* ids of rows of table context_delivery_rules
  Proposals,      \* ids of context proposals
  Callers,        \* concurrent callers of the store
  Text,           \* titles, insights and rule bodies
  None,           \* SQL NULL, an absent row, no transaction
  InitialEntries, \* the rows before any proposal is applied
  Changes,        \* proposal -> its changes, in the order the two loops apply them
  Origin,         \* proposal -> the issue it was authored for, or None
  MaxRevisions    \* bound: no rollback begins once the log is this long

Entries == Skills \cup Rules
Ops     == {"create", "update", "deactivate", "link_occurrence"}

Snapshot == [proposal : Proposals \cup {None}, title : Text \cup {None},
             insight : Text \cup {None}, active : BOOLEAN, locked : BOOLEAN]

Change == [op : Ops, entry : Entries, text : Text]

\* "change" (which change of the proposal) and "undoes" (which revision a
\* rollback targets) are history fields: the tables record neither.
Revision == [entry : Entries, proposal : Proposals, op : Ops \cup {"rollback"},
             before : Snapshot \cup {None}, after : Snapshot,
             change : Nat, undoes : Nat]

\* An apply's transaction: its caller, the next change, and the rows and the
\* log as its connection sees them.
Tx == [caller : Callers, proposal : Proposals, next : Nat,
       entries : [Entries -> Snapshot \cup {None}], revisions : Seq(Revision)]

ASSUME ConstantsAssumption ==
  /\ None \notin Snapshot /\ None \notin Tx /\ None \notin Proposals /\ None \notin Callers
  /\ None \notin Skills
  /\ Skills \cap Rules = {}
  /\ InitialEntries \in [Entries -> Snapshot \cup {None}]
  /\ Origin \in [Proposals -> Skills \cup {None}]
  /\ Changes \in [Proposals -> Seq(Change)]
  /\ MaxRevisions \in Nat

\* Rows that exist before the first apply were written by create_issue or an
\* import, which leave proposal_id NULL; an apply refuses an empty change list.
ASSUME InitialAssumption ==
  /\ \A e \in Entries : InitialEntries[e] # None => InitialEntries[e].proposal = None
  /\ \A p \in Proposals : Changes[p] # <<>>

VARIABLES
  entries,    \* committed rows of skills and context_delivery_rules
  revisions,  \* committed rows of skill_revisions and ..._rule_revisions, by rowid
  state,      \* learning_proposals.state
  tx,         \* the apply transaction holding SQLite's write lock, or None
  call        \* what each caller is in the middle of

vars == <<entries, revisions, state, tx, call>>

States == {"pending", "applied", "rolled_back", "failed"}

\* target: the revision or row a call works on; seen: the row it read;
\* plan/proposal/todo/clean: the loops of rollback_applied_change_for_issue.
Call == [pc : {"idle", "apply", "applying", "checked", "loaded", "edit", "issue"},
         target : Nat, entry : Entries \cup {None}, seen : Snapshot \cup {None},
         proposal : Proposals \cup {None}, plan : SUBSET Proposals,
         todo : SUBSET Nat, clean : BOOLEAN]

Idle == [pc |-> "idle", target |-> 0, entry |-> None, seen |-> None,
         proposal |-> None, plan |-> {}, todo |-> {}, clean |-> TRUE]

WriteLockFree == tx = None

TypeOK ==
  /\ entries \in [Entries -> Snapshot \cup {None}]
  /\ revisions \in Seq(Revision)
  /\ state \in [Proposals -> States]
  /\ tx \in Tx \cup {None}
  /\ call \in [Callers -> Call]

Init ==
  /\ entries = InitialEntries
  /\ revisions = <<>>
  /\ state = [p \in Proposals |-> "pending"]
  /\ tx = None
  /\ call = [c \in Callers |-> Idle]

--------------------------------------------------------------------------------
(* The row operations. *)

Locked(rows, e) == rows[e] # None /\ rows[e].locked

IsForward(log, i, p) == log[i].proposal = p /\ log[i].op # "rollback"

\* The revisions an apply of p wrote.
Forward(log, p) == {i \in DOMAIN log : IsForward(log, i, p)}

IsLatest(log, i) ==
  /\ i \in DOMAIN log
  /\ \A j \in DOMAIN log : log[j].entry = log[i].entry => j <= i

\* Variant: trusts the state that was read before the write lock.
AlreadyAppliedUnchecked(rows, log, p) == FALSE

\* A proposal is applied at most once: any row or revision that names it.
AlreadyApplied(rows, log, p) ==
  \/ \E e \in Entries : rows[e] # None /\ rows[e].proposal = p
  \/ \E i \in DOMAIN log : log[i].proposal = p

\* A create that names an originating issue activates that row in place.
FromOrigin(rows, p, ch) ==
  /\ ch.op = "create" /\ ch.entry \in Skills
  /\ Origin[p] # None
  /\ rows[Origin[p]] # None

TargetEntry(rows, p, ch) == IF FromOrigin(rows, p, ch) THEN Origin[p] ELSE ch.entry

\* Variant: looks at the lock of the id the change names only.
ChangeAllowedIgnoringOrigin(rows, p, ch) ==
  /\ ~ Locked(rows, ch.entry)
  /\ ch.op = "create" /\ ~ FromOrigin(rows, p, ch) => rows[ch.entry] = None
  /\ ch.op # "create" => rows[ch.entry] # None
  /\ ch.op = "link_occurrence" => ch.entry \in Skills

ChangeAllowed(rows, p, ch) ==
  /\ ~ Locked(rows, ch.entry)
  /\ ~ Locked(rows, TargetEntry(rows, p, ch))
  /\ ch.op = "create" /\ ~ FromOrigin(rows, p, ch) => rows[ch.entry] = None
  /\ ch.op # "create" => rows[ch.entry] # None
  /\ ch.op = "link_occurrence" => ch.entry \in Skills

FreshRow(p, ch) == [proposal |-> p, title |-> ch.text, insight |-> ch.text,
                    active |-> TRUE, locked |-> FALSE]

\* The row after a skillbook_update; activation leaves the lock columns alone.
SkillAfter(row, p, ch) ==
  CASE ch.op = "deactivate"      -> [row EXCEPT !.proposal = p, !.active = FALSE]
    [] ch.op = "link_occurrence" -> [row EXCEPT !.proposal = p]
    [] row = None                -> FreshRow(p, ch)
    [] OTHER -> [row EXCEPT !.proposal = p, !.title = ch.text,
                            !.insight = ch.text, !.active = TRUE]

\* The row after a context_delivery_rule change: even a deactivation rewrites
\* the target and the body.
RuleAfter(row, p, ch) ==
  IF row = None THEN FreshRow(p, ch)
  ELSE [row EXCEPT !.proposal = p, !.title = ch.text, !.insight = ch.text,
                   !.active = (ch.op # "deactivate")]

RowAfter(rows, p, ch) ==
  LET e == TargetEntry(rows, p, ch)
  IN IF e \in Skills THEN SkillAfter(rows[e], p, ch) ELSE RuleAfter(rows[e], p, ch)

\* What undoing revision r makes of the row: a create is deactivated, anything
\* else gets its whole "before" snapshot back, the lock columns included.
Undone(row, r) == IF r.op = "create" THEN [row EXCEPT !.active = FALSE] ELSE r.before

--------------------------------------------------------------------------------
(* Applying a proposal: apply_context_proposal. *)

\* The proposal row is read, and its state judged, on this autocommit read.
ApplyRead(c, p) ==
  /\ call[c].pc = "idle"
  /\ state[p] = "pending"
  /\ call' = [call EXCEPT ![c].pc = "apply", ![c].proposal = p]
  /\ UNCHANGED <<entries, revisions, state, tx>>

\* _ensure_kyoko_source takes the write lock; the duplicate check runs under it.
ApplyBegin(c) ==
  /\ call[c].pc = "apply"
  /\ WriteLockFree
  /\ IF AlreadyApplied(entries, revisions, call[c].proposal)
     THEN /\ call' = [call EXCEPT ![c] = Idle]
          /\ tx' = tx
     ELSE /\ call' = [call EXCEPT ![c].pc = "applying"]
          /\ tx' = [caller |-> c, proposal |-> call[c].proposal, next |-> 1,
                    entries |-> entries, revisions |-> revisions]
  /\ UNCHANGED <<entries, revisions, state>>

\* One iteration of _apply_skillbook_updates or _apply_context_delivery_rules.
ApplyChange(c) ==
  LET p  == call[c].proposal
      ch == Changes[p][tx.next]
      e  == TargetEntry(tx.entries, p, ch)
      r  == [entry |-> e, proposal |-> p, op |-> ch.op,
             before |-> tx.entries[e], after |-> RowAfter(tx.entries, p, ch),
             change |-> tx.next, undoes |-> 0]
  IN /\ call[c].pc = "applying"
     /\ tx.next <= Len(Changes[p])
     /\ ChangeAllowed(tx.entries, p, ch)
     /\ tx' = [tx EXCEPT !.next = @ + 1,
                         !.entries[e] = r.after,
                         !.revisions = Append(@, r)]
     /\ UNCHANGED <<entries, revisions, state, call>>

\* Variant: a refused change ends the apply but keeps what it has written.
ApplyAbortKeepsWrites(c) ==
  LET p == call[c].proposal
  IN /\ call[c].pc = "applying"
     /\ tx.next <= Len(Changes[p])
     /\ ~ ChangeAllowed(tx.entries, p, Changes[p][tx.next])
     /\ entries' = tx.entries
     /\ revisions' = tx.revisions
     /\ tx' = None
     /\ call' = [call EXCEPT ![c] = Idle]
     /\ UNCHANGED state

\* A refused change raises ApplyError: the connection rolls everything back.
ApplyAbort(c) ==
  /\ call[c].pc = "applying"
  /\ tx.next <= Len(Changes[call[c].proposal])
  /\ ~ ChangeAllowed(tx.entries, call[c].proposal, Changes[call[c].proposal][tx.next])
  /\ tx' = None
  /\ call' = [call EXCEPT ![c] = Idle]
  /\ UNCHANGED <<entries, revisions, state>>

ApplyCommit(c) ==
  /\ call[c].pc = "applying"
  /\ tx.next > Len(Changes[call[c].proposal])
  /\ entries' = tx.entries
  /\ revisions' = tx.revisions
  /\ state' = [state EXCEPT ![call[c].proposal] = "applied"]
  /\ tx' = None
  /\ call' = [call EXCEPT ![c] = Idle]

--------------------------------------------------------------------------------
(* Rolling back one revision: rollback_skill_revision and                  *)
(* rollback_context_delivery_rule_revision, called by hand or by            *)
(* rollback_applied_change_for_issue.  Both read three times in autocommit  *)
(* before their first write.                                                *)

\* Variant: a failed rollback is not remembered.
ReturnForgetsFailure(c, ok) ==
  IF call[c].proposal = None THEN Idle
  ELSE [call[c] EXCEPT !.pc = "issue", !.target = 0, !.seen = None]

\* Where a rollback returns to: its caller, or the loop over an issue's revisions.
Return(c, ok) ==
  IF call[c].proposal = None THEN Idle
  ELSE [call[c] EXCEPT !.pc = "issue", !.target = 0, !.seen = None,
                       !.clean = @ /\ ok]

\* First reads: the revision exists and is the latest of its row.
CheckLatest(c, i) ==
  IF IsLatest(revisions, i)
  THEN [call[c] EXCEPT !.pc = "checked", !.target = i, !.todo = @ \ {i}]
  ELSE [Return(c, FALSE) EXCEPT !.todo = @ \ {i}]

RollbackCheck(c, i) ==
  /\ call[c].pc = "idle"
  /\ Len(revisions) < MaxRevisions
  /\ IsLatest(revisions, i)
  /\ call' = [call EXCEPT ![c] = CheckLatest(c, i)]
  /\ UNCHANGED <<entries, revisions, state, tx>>

\* Second read: the row, its lock and the snapshot that will be logged.
RollbackLoad(c) ==
  LET row == entries[revisions[call[c].target].entry]
  IN /\ call[c].pc = "checked"
     /\ call' = [call EXCEPT ![c] =
                   IF row = None \/ row.locked THEN Return(c, FALSE)
                   ELSE [@ EXCEPT !.pc = "loaded", !.seen = row]]
     /\ UNCHANGED <<entries, revisions, state, tx>>

\* Variant: logs the row it computed from the stale read, not the one it wrote.
RollbackWriteLogsStaleRow(c) ==
  LET i == call[c].target
      r == revisions[i]
  IN /\ call[c].pc = "loaded"
     /\ WriteLockFree
     /\ entries' = [entries EXCEPT ![r.entry] = Undone(@, r)]
     /\ revisions' = Append(revisions,
          [entry |-> r.entry, proposal |-> r.proposal, op |-> "rollback",
           before |-> call[c].seen, after |-> Undone(call[c].seen, r),
           change |-> 0, undoes |-> i])
     /\ call' = [call EXCEPT ![c] = Return(c, TRUE)]
     /\ UNCHANGED <<state, tx>>

\* The write transaction: nothing read before it is checked again.
RollbackWrite(c) ==
  LET i   == call[c].target
      r   == revisions[i]
      row == Undone(entries[r.entry], r)
  IN /\ call[c].pc = "loaded"
     /\ WriteLockFree
     /\ entries' = [entries EXCEPT ![r.entry] = row]
     /\ revisions' = Append(revisions,
          [entry |-> r.entry, proposal |-> r.proposal, op |-> "rollback",
           before |-> call[c].seen, after |-> row, change |-> 0, undoes |-> i])
     /\ call' = [call EXCEPT ![c] = Return(c, TRUE)]
     /\ UNCHANGED <<state, tx>>

--------------------------------------------------------------------------------
(* rollback_applied_change_for_issue: the guard monitor undoes every        *)
(* applied proposal of an issue, one rollback transaction per revision.     *)

IssueStart(c, s) ==
  LET ps == {p \in Proposals : Origin[p] = s /\ state[p] = "applied"}
  IN /\ call[c].pc = "idle"
     /\ Len(revisions) < MaxRevisions
     /\ ps # {}
     /\ call' = [call EXCEPT ![c].pc = "issue", ![c].plan = ps]
     /\ UNCHANGED <<entries, revisions, state, tx>>

\* The next proposal, latest applied first; its revisions never change once written.
IssueNext(c) ==
  /\ call[c].pc = "issue"
  /\ call[c].proposal = None
  /\ IF call[c].plan = {} THEN call' = [call EXCEPT ![c] = Idle]
     ELSE \E p \in call[c].plan :
            /\ \A q \in call[c].plan \ {p} : \A j \in Forward(revisions, q) :
                 \E i \in Forward(revisions, p) : j < i
            /\ call' = [call EXCEPT ![c].proposal = p,
                                    ![c].plan = @ \ {p},
                                    ![c].todo = Forward(revisions, p),
                                    ![c].clean = TRUE]
  /\ UNCHANGED <<entries, revisions, state, tx>>

\* The next revision of that proposal: rules before skills, and within a table
\* in no order the timestamps decide (one transaction writes one timestamp).
IssueRollback(c) ==
  /\ call[c].pc = "issue"
  /\ \E i \in call[c].todo :
       /\ revisions[i].entry \in Skills =>
            \A j \in call[c].todo : revisions[j].entry \in Skills
       /\ call' = [call EXCEPT ![c] = CheckLatest(c, i)]
  /\ UNCHANGED <<entries, revisions, state, tx>>

\* All of a proposal's rollbacks tried: it is marked only if each succeeded.
IssueClose(c) ==
  LET p == call[c].proposal
  IN /\ call[c].pc = "issue"
     /\ p # None
     /\ call[c].todo = {}
     /\ IF call[c].clean
        THEN /\ WriteLockFree
             /\ state' = [state EXCEPT ![p] = "rolled_back"]
        ELSE UNCHANGED state
     /\ call' = [call EXCEPT ![c].proposal = None]
     /\ UNCHANGED <<entries, revisions, tx>>

--------------------------------------------------------------------------------
(* Locks, the analysing agent's edits, and crashes. *)

\* set_skill_lock, set_context_delivery_rule_lock: a human flips the flag.
SetLock(e, locked) ==
  /\ WriteLockFree
  /\ entries[e] # None
  /\ entries[e].locked # locked
  /\ entries' = [entries EXCEPT ![e].locked = locked]
  /\ UNCHANGED <<revisions, state, tx, call>>

\* update_issue refuses an active entry on a read of its own connection ...
EditRead(c, s) ==
  /\ call[c].pc = "idle"
  /\ entries[s] # None
  /\ ~ entries[s].active
  /\ call' = [call EXCEPT ![c].pc = "edit", ![c].entry = s]
  /\ UNCHANGED <<entries, revisions, state, tx>>

\* Variant: the edit overwrites the insight as well.
EditWriteInsight(c, text) ==
  /\ call[c].pc = "edit"
  /\ WriteLockFree
  /\ entries' = [entries EXCEPT ![call[c].entry].insight = text]
  /\ call' = [call EXCEPT ![c] = Idle]
  /\ UNCHANGED <<revisions, state, tx>>

\* ... and writes the new title on another.
EditWrite(c, text) ==
  /\ call[c].pc = "edit"
  /\ WriteLockFree
  /\ entries' = [entries EXCEPT ![call[c].entry].title = text]
  /\ call' = [call EXCEPT ![c] = Idle]
  /\ UNCHANGED <<revisions, state, tx>>

\* The process dies, or waits out busy_timeout: SQLite drops its transaction.
Crash(c) ==
  /\ call[c].pc # "idle"
  /\ tx' = IF tx # None /\ tx.caller = c THEN None ELSE tx
  /\ call' = [call EXCEPT ![c] = Idle]
  /\ UNCHANGED <<entries, revisions, state>>

Next ==
  \/ \E c \in Callers :
       \/ \E p \in Proposals : ApplyRead(c, p)
       \/ ApplyBegin(c) \/ ApplyChange(c) \/ ApplyAbort(c) \/ ApplyCommit(c)
       \/ \E i \in DOMAIN revisions : RollbackCheck(c, i)
       \/ RollbackLoad(c) \/ RollbackWrite(c)
       \/ \E s \in Skills : IssueStart(c, s) \/ EditRead(c, s)
       \/ IssueNext(c) \/ IssueRollback(c) \/ IssueClose(c)
       \/ \E t \in Text : EditWrite(c, t)
       \/ Crash(c)
  \/ \E e \in Entries, locked \in BOOLEAN : SetLock(e, locked)

Spec == Init /\ [][Next]_vars

--------------------------------------------------------------------------------
(* Properties. *)

\* What a rollback or an apply writes, as opposed to the lock a human sets and
\* the title the analysing agent may refine.
Content(row) == IF row = None THEN None
                ELSE [proposal |-> row.proposal, insight |-> row.insight,
                      active |-> row.active]

LogExplains(rows, log) ==
  \A e \in Entries :
    \/ /\ \A i \in DOMAIN log : log[i].entry # e
       /\ Content(rows[e]) = Content(InitialEntries[e])
    \/ \E i \in DOMAIN log :
         /\ log[i].entry = e /\ IsLatest(log, i)
         /\ Content(log[i].after) = Content(rows[e])

\* The revision log accounts for the store: what an entry says, whether it is
\* delivered and which proposal owns it is what its latest revision recorded
\* (or the row it started as), however applies, rollbacks, retries and crashes
\* of concurrent callers interleave.
LogExplainsEntries == LogExplains(entries, revisions)

\* A proposal is applied whole and once: either no revision of it exists, or
\* exactly one for each of its changes, whatever two callers that both read
\* it as pending do, and wherever one of them dies (apply_context_proposal).
AppliedWholeOrNotAtAll ==
  \A p \in Proposals :
    \/ Forward(revisions, p) = {}
    \/ \A k \in DOMAIN Changes[p] :
         \E i \in Forward(revisions, p) :
           /\ revisions[i].change = k
           /\ \A j \in Forward(revisions, p) : revisions[j].change = k => j = i

\* learning_proposals.state agrees with the log: a proposal counts as applied
\* (or rolled back) exactly when its revisions are there.
StateAgreesWithLog ==
  \A p \in Proposals :
    state[p] \in {"applied", "rolled_back"} <=> Forward(revisions, p) # {}

\* "before" of a forward revision preserves the row it replaced: it is the
\* content the entry's previous revision left, or the content it started with.
BeforeContinuesLog ==
  \A i \in DOMAIN revisions :
    LET r    == revisions[i]
        prev == {j \in 1 .. i - 1 : revisions[j].entry = r.entry}
    IN r.op # "rollback" =>
         IF prev = {} THEN Content(r.before) = Content(InitialEntries[r.entry])
         ELSE \E j \in prev : /\ \A k \in prev : k <= j
                              /\ Content(r.before) = Content(revisions[j].after)

\* A proposal is marked rolled back only after every revision its apply wrote
\* was undone, even when single rollbacks of the loop failed or raced others.
RolledBackWasUndone ==
  \A p \in Proposals : state[p] = "rolled_back" =>
    \A i \in Forward(revisions, p) :
      \E j \in DOMAIN revisions : i < j /\ revisions[j].undoes = i

\* No apply changes an entry a human has locked: when one commits, every entry
\* that is locked keeps its content.
ApplyRespectsLocks ==
  [][\A e \in Entries :
       (\E p \in Proposals : state[p] = "pending" /\ state'[p] = "applied")
         /\ Locked(entries, e) => entries'[e] = entries[e]]_vars

\* A proposal's state goes through its life once, whatever callers that judged
\* it on an earlier read do: it is never applied again, not after a rollback.
Lifecycle == INSTANCE ProposalLifecycle

LifecycleRefined == Lifecycle!Spec

--------------------------------------------------------------------------------
(* What the documentation says of this code and a run refutes. *)

\* docs/specs/0001-canonical-model.md:537: "Rollback is only allowed for the
\* latest revision for a skill": no revision of the row lies between a rollback
\* and the revision it undid (the check is made before the write lock is taken).
RollbackUndoesLatest ==
  \A j \in DOMAIN revisions : revisions[j].op = "rollback" =>
    \A k \in revisions[j].undoes + 1 .. j - 1 :
      revisions[k].entry # revisions[j].entry

\* docs/specs/0001-canonical-model.md:588: "Human-locked rules cannot be rolled
\* back automatically or manually until the lock is removed."
LockedRuleNotRolledBack ==
  [][\A e \in Rules :
       Locked(entries, e) => Content(entries'[e]) = Content(entries[e])]_vars

\* update_issue, kyoko/issues.py:705: "Refuses an active (injected) entry: its
\* content evolves only through the proposal -> gate path".
ActiveEntryEvolvesThroughGate ==
  [][\A s \in Skills : entries[s] # None /\ entries[s].active
       /\ entries'[s].title # entries[s].title => revisions' # revisions]_vars

\* docs/specs/0018-two-mode-autonomy-rebuild.md:338: "context/skillbook changes
\* auto-rollback freely (clean, reversible)": the loop over an issue's revisions
\* is refused one only because of a revision another issue's proposal wrote.
IssueRollbackNotBlockedByItself ==
  [][\A c \in Callers : \A i \in call[c].todo \ call'[c].todo :
       call[c].clean /\ call'[c].pc = "issue" /\ ~ call'[c].clean =>
         \E j \in DOMAIN revisions :
           /\ i < j /\ revisions[j].entry = revisions[i].entry
           /\ Origin[revisions[j].proposal] # Origin[call[c].proposal]]_vars
================================================================================
