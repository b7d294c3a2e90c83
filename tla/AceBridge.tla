------------------------------- MODULE AceBridge -------------------------------
(* A native ACE command works on a clone of the skillbook (ace_bridge.py): the *)
(* difference between clone and result comes back as pending proposals, one    *)
(* for each skill, submitted one by one and applied, or not, by others.  The   *)
(* text of a skill stands for issue, insight and keywords; its occurrences are *)
(* traces, of which the database still knows some.                             *)
EXTENDS Naturals, FiniteSets

CONSTANTS None, Skill, Text, Blank, Written, Section, Trace, Cited, Fallback, MaxRuns, MaxEdits, MaxOthers

Supported == {"context", "harness"}

VARIABLES
  book,       \* [Skill -> None or section, text, active, locked, occ]
  known,      \* the traces that are in the database
  clone,      \* the files before and after, None at first
  ace,        \* what the bridge does: idle, command, persist
  proposals,  \* what was ever submitted, with its state
  report,     \* the ids the last report lists, and the run it is of
  used,       \* runs, edits of the command, edits of others so far
  alone       \* nothing but this run's proposals changed what its clone was made of

vars == <<book, known, clone, ace, proposals, report, used, alone>>

Row(section, text, active, occ) == [section |-> section, text |-> text, active |-> active, occ |-> occ]
Entry(section, text, active, locked, occ) ==
  [section |-> section, text |-> text, active |-> active, locked |-> locked, occ |-> occ]

CloneRow == [section : Section, text : Text, active : BOOLEAN, occ : SUBSET Trace]
BookRow == [section : {"context"}, text : Text, active : BOOLEAN, locked : BOOLEAN, occ : SUBSET Trace]

\* Evidence is made of traces, and a skill is not a missing one.
BridgeAssumption ==
  /\ "context" \in Section /\ Written \in Text /\ Cited \subseteq Trace /\ MaxRuns \in Nat
  /\ None \notin CloneRow \cup BookRow

Init ==
  /\ book \in [Skill -> {None} \cup {Entry("context", Written, active, FALSE, Cited) : active \in BOOLEAN}]
  /\ known = Trace /\ clone = None /\ ace = [at |-> "idle"] /\ proposals = {} /\ report = None
  /\ used = [runs |-> 0, edits |-> 0, others |-> 0] /\ alone = FALSE

--------------------------------------------------------------------------------
(* The clone and the command                                                   *)

Exported(inactive) ==
  [s \in Skill |-> IF book[s] # None /\ (book[s].active \/ inactive)
                   THEN Row(book[s].section, book[s].text, book[s].active, book[s].occ) ELSE None]

\* The files, report apart, are overwritten.
Prepare(inactive) ==
  /\ ace.at = "idle" /\ used.runs < MaxRuns
  /\ clone' = [before |-> Exported(inactive), after |-> Exported(inactive)]
  /\ ace' = [at |-> "command"]
  /\ used' = [used EXCEPT !.runs = @ + 1] /\ alone' = TRUE
  /\ UNCHANGED <<book, known, proposals, report>>

\* What the command may make of a skill; Blank is a text that is missing.
Edits(row) ==
  IF row = None THEN {Row(section, t, TRUE, occ) : section \in Section, t \in Text, occ \in {Trace, {}}}
  ELSE {None} \cup {[row EXCEPT !.text = t] : t \in Text} \cup {[row EXCEPT !.active = ~@]}
       \cup {[row EXCEPT !.section = c] : c \in Section} \cup {[row EXCEPT !.occ = o] : o \in SUBSET Trace}

Edit(s, row) ==
  /\ ace.at = "command" /\ used.edits < MaxEdits
  /\ row # clone.after[s] /\ row \in Edits(clone.after[s])
  /\ clone' = [clone EXCEPT !.after[s] = row]
  /\ used' = [used EXCEPT !.edits = @ + 1]
  /\ UNCHANGED <<book, known, ace, proposals, report, alone>>

\* It is not found, times out or fails, or there is no result.
CommandFails ==
  /\ ace.at = "command"
  /\ ace' = [at |-> "idle"]
  /\ UNCHANGED <<book, known, clone, proposals, report, used, alone>>

--------------------------------------------------------------------------------
(* The difference                                                              *)

Material(row) == IF row = None THEN None ELSE Row(row.section, row.text, row.active, {})

Change(op, s, before, after) == [op |-> op, skill |-> s, before |-> before, after |-> after]

\* What became of a skill that both have.
Modified(s, before, after) ==
  IF after.section \notin Supported THEN {}
  ELSE IF before.active /\ ~after.active THEN {Change("deactivate", s, before, after)}
  ELSE IF Material(before) # Material(after) THEN {Change("update", s, before, after)}
  ELSE IF after.occ \ before.occ # {} THEN {Change("link_occurrence", s, before, after)} ELSE {}

Created(s, after) == IF after.section \in Supported THEN {Change("create", s, None, after)} ELSE {}

\* Variant: a skill that is gone was not worked on.
ChangesOfKept(s, before, after) ==
  IF after = None THEN {} ELSE IF before = None THEN Created(s, after) ELSE Modified(s, before, after)

ChangesOf(s, before, after) ==
  IF after = None THEN IF before # None /\ before.section \in Supported
                       THEN {Change("deactivate", s, before, None)} ELSE {}
  ELSE IF before = None THEN Created(s, after) ELSE Modified(s, before, after)

Differences == UNION {ChangesOf(s, clone.before[s], clone.after[s]) : s \in Skill}

Kept(change) == IF change.after # None THEN change.after ELSE change.before

\* The traces it cites that are still there, or those the caller gave.
Evidence(row) == IF row.occ \cap known # {} THEN row.occ \cap known ELSE Fallback \cap known

\* The occurrences have no part in the id.
Id(change) == Change(change.op, change.skill, Material(change.before), Material(change.after))

Proposal(change) ==
  [id |-> Id(change), op |-> change.op, skill |-> change.skill, row |-> Kept(change),
   refs |-> Evidence(Kept(change)), state |-> "pending"]

\* One change without a text or without evidence and none becomes a proposal.
Raises(change) == Kept(change).text = Blank \/ Evidence(Kept(change)) = {}

Diff ==
  /\ ace.at = "command"
  /\ ace' = IF \E change \in Differences : Raises(change) THEN [at |-> "idle"]
            ELSE [at |-> "persist", todo |-> {Proposal(change) : change \in Differences},
                  ids |-> {Id(change) : change \in Differences}]
  /\ UNCHANGED <<book, known, clone, proposals, report, used, alone>>

--------------------------------------------------------------------------------
(* Persisting                                                                  *)

Exists(id) == \E p \in proposals : p.id = id

\* One by one; what exists, or cites what is gone, raises, and the rest is lost.
Submit ==
  /\ ace.at = "persist"
  /\ \E p \in ace.todo :
       IF Exists(p.id) \/ ~(p.refs \subseteq known)
       THEN ace' = [at |-> "idle"] /\ UNCHANGED proposals
       ELSE /\ proposals' = proposals \cup {p}
            /\ ace' = [ace EXCEPT !.todo = @ \ {p}]
  /\ UNCHANGED <<book, known, clone, report, used, alone>>

\* The report is written last.
ReportLast == ace.at = "persist" /\ ace.todo = {}

Report ==
  /\ ReportLast
  /\ report' = [ids |-> ace.ids, run |-> used.runs] /\ ace' = [at |-> "idle"]
  /\ UNCHANGED <<book, known, clone, proposals, used, alone>>

--------------------------------------------------------------------------------
(* Everybody else                                                              *)

\* What becomes of the skill.
Refused(p) ==
  LET row == book[p.skill]
  IN  (row # None /\ row.locked) \/ p.row.section # "context" \/ (p.op = "create") # (row = None)

Applied(p) ==
  LET row == book[p.skill]
  IN  IF p.op = "create" THEN Entry(p.row.section, p.row.text, TRUE, FALSE, p.refs)
      ELSE IF p.op = "update" THEN Entry(p.row.section, p.row.text, TRUE, row.locked, p.refs)
      ELSE IF p.op = "deactivate" THEN [row EXCEPT !.active = FALSE]
      ELSE [row EXCEPT !.occ = @ \cup p.refs]

Pending == {p \in proposals : p.state = "pending"}
Decided(p, state) == (proposals \ {p}) \cup {[p EXCEPT !.state = state]}

\* Nothing compares the skill with the clone the proposal was made from.
Apply ==
  /\ \E p \in Pending :
       /\ ~Refused(p)
       /\ book' = [book EXCEPT ![p.skill] = Applied(p)]
       /\ proposals' = Decided(p, "applied")
       /\ alone' = (alone /\ ace.at = "idle" /\ report # None /\ report.run = used.runs /\ p.id \in report.ids)
  /\ UNCHANGED <<known, clone, ace, report, used>>

Reject ==
  /\ used.others < MaxOthers
  /\ \E p \in Pending : proposals' = Decided(p, "rejected")
  /\ used' = [used EXCEPT !.others = @ + 1] /\ alone' = FALSE
  /\ UNCHANGED <<book, known, clone, ace, report>>

\* A human writes another text, or locks; retention removes a trace.
Others ==
  /\ used.others < MaxOthers
  /\ used' = [used EXCEPT !.others = @ + 1] /\ alone' = FALSE
  /\ \/ \E s \in Skill, t \in Text \ {Blank} :
          /\ book[s] # None /\ book[s].text # t
          /\ book' = [book EXCEPT ![s] = Entry(@.section, t, @.active, TRUE, @.occ)] /\ UNCHANGED known
     \/ \E t \in known : known' = known \ {t} /\ UNCHANGED book
  /\ UNCHANGED <<clone, ace, proposals, report>>

Next ==
  \/ \E inactive \in BOOLEAN : Prepare(inactive)
  \/ \E s \in Skill : \E row \in {None} \cup CloneRow : Edit(s, row)
  \/ CommandFails \/ Diff \/ Submit \/ Report \/ Apply \/ Reject \/ Others

--------------------------------------------------------------------------------
(* Properties                                                                  *)

OfRun == {p \in proposals : p.id \in report.ids}
Arrived == ace.at = "idle" /\ alone /\ report # None /\ report.run = used.runs
           /\ \A p \in OfRun : p.state = "applied"

(* A run that reports its proposals has submitted them all, each with evidence *)
(* that was there.  If all of them are applied and nobody else touched the     *)
(* book, it says what the command made of its clone: the text of every skill   *)
(* that is active there, and what it removed or deactivated is not      *)
(* (docs/specs/0002-ace-compatibility.md:76-80).                               *)
EditsComeBack ==
  /\ report # None => \A id \in report.ids : Exists(id)
  /\ \A p \in proposals : p.refs # {}
  /\ Arrived => \A s \in Skill :
       LET after == clone.after[s]
       IN  /\ after # None /\ after.active /\ after.section = "context" =>
                book[s] # None /\ book[s].active /\ book[s].text = after.text
           /\ (after = None \/ (~after.active /\ after.section = "context")) /\ clone.before[s] # None /\ clone.before[s].active => ~book[s].active

(* What the command left inactive stays inactive; an update activates it.      *)
InactiveStaysInactive ==
  Arrived => \A s \in Skill : clone.after[s] # None /\ ~clone.after[s].active => (book[s] = None \/ ~book[s].active)

(* A change that is new is submitted.  It is not, if one that was decided      *)
(* before comes first.                                                         *)
NewChangesArrive ==
  [][ace.at = "persist" /\ ace'.at = "idle" =>
     \A p \in ace.todo : Exists(p.id) \/ ~(p.refs \subseteq known)]_vars
================================================================================
