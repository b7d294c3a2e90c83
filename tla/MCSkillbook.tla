----------------------------- MODULE MCSkillbook ------------------------------
(* A small store: an issue row, an id for a skill and one for a rule, and    *)
(* two proposals for the issue that meet on the rule.  Apart from it: two    *)
(* skills that an ACE command edits a copy of.  part says which one a        *)
(* behaviour is about.                                                       *)
EXTENDS Skillbook, TLC

CONSTANTS issue1, skill1, rule1, p1, p2, t0, t1
CONSTANTS Skill, AceText, Blank, Written, Section, Trace, Cited, Fallback, MaxRuns, MaxEdits, MaxOthers

MCInitialEntries ==
  [e \in {issue1, skill1, rule1} |->
     IF e = issue1 THEN [proposal |-> None, title |-> t0, insight |-> None,
                         active |-> FALSE, locked |-> FALSE]
     ELSE None]

\* p1 creates a rule; p2 activates the issue's entry and switches that rule off,
\* so before p1 its second change is refused.
MCChanges ==
  (p1 :> << [op |-> "create", entry |-> rule1, text |-> t1] >>) @@
  (p2 :> << [op |-> "create", entry |-> skill1, text |-> t1],
            [op |-> "deactivate", entry |-> rule1, text |-> t0] >>)

\* A proposal that activates the issue's entry and links an occurrence to it.
MCTwoChangesOneSkill ==
  [p \in {p1, p2} |->
     << [op |-> "create", entry |-> skill1, text |-> t1],
        [op |-> "link_occurrence", entry |-> issue1, text |-> t1] >>]

MCOrigin == [p \in {p1, p2} |-> issue1]

VARIABLES part, book, known, clone, ace, proposals, report, used, alone
bridge == <<book, known, clone, ace, proposals, report, used, alone>>
A == INSTANCE AceBridge WITH Text <- AceText

ASSUME BridgeAssumption == A!BridgeAssumption

MCInit ==
  /\ part \in {"store", "ace"}
  /\ Init
  /\ IF part = "ace" THEN A!Init
     ELSE book = None /\ known = None /\ clone = None /\ ace = None /\ proposals = None
          /\ report = None /\ used = None /\ alone = None

MCNext ==
  /\ UNCHANGED part
  /\ \/ part = "store" /\ Next /\ UNCHANGED bridge
     \/ part = "ace" /\ A!Next /\ UNCHANGED vars
     \/ part = "ace" /\ UNCHANGED <<vars, bridge>>   \* nobody runs the bridge any more

MCSpec == MCInit /\ [][MCNext]_<<vars, part, bridge>>

(* The property of AceBridge, of its part.                                     *)
EditsComeBack == part = "ace" => A!EditsComeBack

CallersAlike == Permutations(Callers)
================================================================================
