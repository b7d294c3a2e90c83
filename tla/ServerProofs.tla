----------------------------- MODULE ServerProofs ------------------------------
(* The database and the stream that the dashboard's server serves.             *)
(*   Migrations: however many processes open, upgrade, use and leave the       *)
(*     database, what it says of its rows holds in every state.                *)
(*   LiveEvents: however many writers and streams there are and whatever the   *)
(*     size of a queue, the tail that a browser shows is the run.              *)
(*   Cadence: the next run of a schedule is ahead, and keeps its hour.         *)
(*   Delivery: whatever is written meanwhile, and however many agents fetch,   *)
(*     a prompt obeys the rules that stood while it was made.                  *)
EXTENDS Migrations, LiveEvents, MCDataPaths, FiniteSetTheorems, SequenceTheorems,
        NaturalsInduction, WellFoundedInduction, TLAPS

(* The history variables have their types.                                     *)
HistoryOK == broken \in BOOLEAN /\ met \in BOOLEAN /\ written \subseteq Row

(* Whoever is past the renaming of the check tables knows that they have their *)
(* new name.                                                                   *)
OldIsAhead ==
  checks = "old" => \A p \in Process : pc[p] \in {"closed", "rename", "renaming"}

(* What was moved away has its mover, or a rebuild was broken off.             *)
MovedHasMover == ~ broken => tmp.rows = {} \/ \E p \in Process : pc[p] \in Moved

Inv ==
  /\ TypeOK /\ HistoryOK
  /\ checks # "hidden" /\ OldIsAhead
  /\ met => broken
  /\ MovedHasMover
  /\ ~ met => written \subseteq skills.rows \cup tmp.rows

--------------------------------------------------------------------------------

(* The tables that are not there, and those the script makes, are empty.       *)
LEMMA EmptyTables ==
  /\ Missing \in Table /\ Missing.rows = {} /\ Missing.shape = "missing"
  /\ Fresh \in Table /\ Fresh.rows = {} /\ Fresh.shape = "new"
BY DEF Missing, Fresh, Table

(* The script of an opener that saw the check tables renamed makes no rows and *)
(* hides none.                                                                 *)
LEMMA ScriptAddsNothing ==
  ASSUME TypeOK, Script, checks \notin {"old", "hidden"}
  PROVE  /\ checks' \in {"none", "new"}
         /\ policy' \in {"no table", "old", "no row", "seeded", "set"}
         /\ skills' \in Table /\ skills'.rows = skills.rows
<1>1. checks' \in {"none", "new"}
  BY DEF Script, TypeOK
<1>2. policy' \in {"no table", "old", "no row", "seeded", "set"}
  BY DEF Script, TypeOK
<1>3. skills' \in Table /\ skills'.rows = skills.rows
  BY EmptyTables DEF Script, TypeOK
<1> QED
  BY <1>1, <1>2, <1>3

(* A step of one process leaves the types of all.                              *)
LEMMA GotoType ==
  ASSUME NEW p \in Process, NEW goal \in Opening \cup {"closed", "open"}, TypeOK, Goto(p, goal)
  PROVE  /\ pc' \in [Process -> Opening \cup {"closed", "open"}]
         /\ pc'[p] = goal /\ \A q \in Process \ {p} : pc'[q] = pc[q]
BY DEF Goto, TypeOK

(* Initially nothing is moved and nothing is broken.                           *)
LEMMA InvInit == Init => Inv
<1> SUFFICES ASSUME Init PROVE Inv
  OBVIOUS
<1>1. tmp \in Table /\ tmp.rows = {}
  BY EmptyTables DEF Init
<1>2. skills \in Table /\ skills.rows \subseteq Row
  <2>1. CASE version = 0
    BY <2>1, EmptyTables DEF Init
  <2>2. CASE version # 0
    <3>1. /\ skills.shape \in {"legacy", "new"}
          /\ skills.column \in BOOLEAN
          /\ skills.rows = First
          /\ skills = [shape |-> skills.shape, column |-> skills.column, rows |-> skills.rows]
      BY <2>2, MigrationsAssumption, SMT DEF Init
    <3> QED
      BY <3>1, MigrationsAssumption DEF Table
  <2> QED
    BY <2>1, <2>2
<1>3. version \in 0..Current
  BY MigrationsAssumption DEF Init
<1>4. profile \in BOOLEAN
  <2>1. profile = (version # 0)
    BY DEF Init
  <2>2. (version # 0) \in BOOLEAN
    OBVIOUS
  <2> QED
    BY <2>1, <2>2
<1>5. pc \in [Process -> Opening \cup {"closed", "open"}] /\ saw \in [Process -> 0..Current]
  <2>1. pc = [p \in Process |-> "closed"] /\ saw = [p \in Process |-> 0]
    BY DEF Init
  <2>2. 0 \in 0..Current
    BY DEF Current
  <2> QED
    BY <2>1, <2>2
<1>6. /\ checks \in {"none", "old", "new"}
      /\ policy \in {"no table", "old", "no row", "seeded", "set"}
  BY DEF Init
<1>7. TypeOK
  BY <1>1, <1>2, <1>3, <1>4, <1>5, <1>6 DEF TypeOK
<1>8. broken = FALSE /\ met = FALSE /\ written = skills.rows
  BY DEF Init
<1>9. \A p \in Process : pc[p] = "closed"
  BY DEF Init
<1> QED
  BY <1>1, <1>2, <1>6, <1>7, <1>8, <1>9 DEF Inv, HistoryOK, OldIsAhead, MovedHasMover

--------------------------------------------------------------------------------
(* Every step preserves the invariant.                                         *)

(* A step that changes no table and does not enter or leave a move.            *)
LEMMA QuietStep ==
  ASSUME Inv, NEW p \in Process, NEW goal \in Opening \cup {"closed", "open"},
         pc[p] \notin Moved, Goto(p, goal), UNCHANGED <<tables, saw, crashes, history>>,
         checks = "old" => goal \in {"closed", "rename", "renaming"}
  PROVE  Inv'
<1>1. /\ pc' \in [Process -> Opening \cup {"closed", "open"}]
      /\ pc'[p] = goal /\ \A q \in Process \ {p} : pc'[q] = pc[q]
  BY GotoType DEF Inv
<1>2. TypeOK' /\ HistoryOK'
  BY <1>1 DEF Inv, TypeOK, HistoryOK, tables, history
<1>3. OldIsAhead'
  BY <1>1 DEF Inv, OldIsAhead, tables
<1>4. MovedHasMover'
  BY <1>1 DEF Inv, MovedHasMover, tables, history
<1> QED
  BY <1>2, <1>3, <1>4 DEF Inv, tables, history

(* An error, and a crash, leave the tables as they are.                        *)
LEMMA AbruptStep ==
  ASSUME Inv, NEW p \in Process, Goto(p, "closed"), UNCHANGED <<tables, saw, written, met>>,
         broken' = (broken \/ pc[p] \in Moved)
  PROVE  Inv'
<1>1. /\ pc' \in [Process -> Opening \cup {"closed", "open"}]
      /\ pc'[p] = "closed" /\ \A q \in Process \ {p} : pc'[q] = pc[q]
  BY GotoType DEF Inv
<1>2. broken' \in BOOLEAN /\ (broken => broken') /\ (pc[p] \in Moved => broken')
  BY Zenon
<1>3. TypeOK' /\ HistoryOK'
  BY <1>1, <1>2 DEF Inv, TypeOK, HistoryOK, tables
<1>4. OldIsAhead'
  BY <1>1 DEF Inv, OldIsAhead, tables
<1>5. MovedHasMover'
  BY <1>1, <1>2 DEF Inv, MovedHasMover, tables
<1> QED
  BY <1>2, <1>3, <1>4, <1>5 DEF Inv, tables

(* The script runs when the check tables have their new name.                  *)
LEMMA ScriptStep ==
  ASSUME Inv, NEW p \in Process, NEW goal \in Opening,
         Script, Goto(p, goal), UNCHANGED <<version, profile, tmp, saw, crashes, history>>,
         checks # "old", pc[p] \in Moved => goal \in Moved
  PROVE  Inv'
<1>1. /\ pc' \in [Process -> Opening \cup {"closed", "open"}]
      /\ pc'[p] = goal /\ \A q \in Process \ {p} : pc'[q] = pc[q]
  BY GotoType DEF Inv
<1>2. /\ checks' \in {"none", "new"}
      /\ policy' \in {"no table", "old", "no row", "seeded", "set"}
      /\ skills' \in Table /\ skills'.rows = skills.rows
  BY ScriptAddsNothing DEF Inv
<1>3. TypeOK' /\ HistoryOK'
  BY <1>1, <1>2 DEF Inv, TypeOK, HistoryOK, history
<1>4. MovedHasMover'
  BY <1>1 DEF Inv, MovedHasMover, history
<1> QED
  BY <1>2, <1>3, <1>4 DEF Inv, OldIsAhead, history

(* Opening, and the tests that come before the statements.                     *)
LEMMA TestsKeepInv ==
  ASSUME Inv, NEW p \in Process,
         TestRename(p) \/ TestColumn(p) \/ TestShape(p) \/ ReadColumns(p) \/ Close(p)
  PROVE  Inv'
<1>1. CASE TestRename(p)
  BY <1>1, QuietStep DEF TestRename, At, Step, Opening, Moved
<1>2. CASE TestColumn(p)
  BY <1>2, QuietStep DEF TestColumn, At, Step, Opening, Moved, Inv, OldIsAhead
<1>3. CASE TestShape(p)
  BY <1>3, QuietStep DEF TestShape, At, Step, Opening, Moved, Inv, OldIsAhead
<1>4. CASE ReadColumns(p)
  BY <1>4, QuietStep DEF ReadColumns, At, Step, Opening, Moved, Inv, OldIsAhead
<1>5. CASE Close(p)
  BY <1>5, QuietStep DEF Close, At, Step, Opening, Moved
<1> QED
  BY <1>1, <1>2, <1>3, <1>4, <1>5

(* An opener remembers the version it read.                                    *)
LEMMA OpenKeepsInv ==
  ASSUME Inv, NEW p \in Process, Open(p)
  PROVE  Inv'
<1>1. /\ pc' \in [Process -> Opening \cup {"closed", "open"}]
      /\ pc'[p] = "rename" /\ \A q \in Process \ {p} : pc'[q] = pc[q]
  BY GotoType DEF Inv, Open, Opening
<1>2. saw' \in [Process -> 0..Current]
  BY DEF Inv, TypeOK, Open
<1>3. TypeOK' /\ HistoryOK'
  BY <1>1, <1>2 DEF Inv, TypeOK, HistoryOK, Open, tables, history
<1>4. OldIsAhead'
  BY <1>1 DEF Inv, OldIsAhead, Open, tables
<1>5. MovedHasMover'
  BY <1>1 DEF Inv, MovedHasMover, Open, At, Moved, tables, history
<1> QED
  BY <1>3, <1>4, <1>5 DEF Inv, Open, tables, history

(* A step that leaves both tables of skills alone, and names no check table    *)
(* "old" or "hidden".                                                          *)
LEMMA OtherTablesStep ==
  ASSUME Inv, NEW p \in Process, NEW goal \in Opening \cup {"closed", "open"},
         pc[p] \notin Moved, Goto(p, goal),
         UNCHANGED <<skills, tmp, saw, crashes, history>>,
         version' \in 0..Current, profile' \in BOOLEAN,
         policy' \in {"no table", "old", "no row", "seeded", "set"},
         checks' \in {"none", "new"} \/ (checks' = checks /\ pc[p] \notin {"closed", "rename", "renaming"})
  PROVE  Inv'
<1>1. /\ pc' \in [Process -> Opening \cup {"closed", "open"}]
      /\ pc'[p] = goal /\ \A q \in Process \ {p} : pc'[q] = pc[q]
  BY GotoType DEF Inv
<1>2. checks' \in {"none", "new"}
  BY DEF Inv, TypeOK, OldIsAhead
<1>3. TypeOK' /\ HistoryOK'
  BY <1>1, <1>2 DEF Inv, TypeOK, HistoryOK, history
<1>4. MovedHasMover'
  BY <1>1 DEF Inv, MovedHasMover, history
<1> QED
  BY <1>2, <1>3, <1>4 DEF Inv, OldIsAhead, history

(* The renaming, the policies and the version.                                 *)
LEMMA OtherTablesKeepInv ==
  ASSUME Inv, NEW p \in Process,
         Rename(p) \/ DropPolicies(p) \/ Seed(p) \/ SetPolicy(p) \/ Ingest(p)
  PROVE  Inv'
<1> USE DEF At, Opening, Moved
<1>1. CASE Rename(p)
  <2>1. CASE checks = "old"
    BY <1>1, <2>1, OtherTablesStep DEF Rename, Step, Inv, TypeOK
  <2>2. CASE checks # "old"
    BY <1>1, <2>2, AbruptStep DEF Rename, Raise
  <2> QED
    BY <2>1, <2>2
<1>2. CASE DropPolicies(p)
  BY <1>2, OtherTablesStep DEF DropPolicies, Step, Inv, TypeOK
<1>3. CASE Seed(p)
  <2>1. CASE Raise(p)
    BY <1>3, <2>1, AbruptStep DEF Raise
  <2>2. CASE ~ Raise(p)
    <3>1. version' = Current /\ Step(p, "open", <<profile, checks, skills, tmp>>)
      BY <1>3, <2>2 DEF Seed
    <3>2. policy' \in {"no table", "old", "no row", "seeded", "set"}
      BY <1>3, <2>2 DEF Seed, Inv, TypeOK
    <3>3. version' \in 0..Current
      BY <3>1 DEF Current
    <3> QED
      BY <1>3, <3>1, <3>2, <3>3, OtherTablesStep DEF Seed, Step, Inv, TypeOK
  <2> QED
    BY <2>1, <2>2
<1>4. CASE SetPolicy(p)
  BY <1>4, OtherTablesStep DEF SetPolicy, Step, Inv, TypeOK
<1>5. CASE Ingest(p)
  BY <1>5, OtherTablesStep DEF Ingest, Step, Inv, TypeOK
<1> QED
  BY <1>1, <1>2, <1>3, <1>4, <1>5

(* The table definitions, at the opening and in the middle of a rebuild.       *)
LEMMA ScriptsKeepInv ==
  ASSUME Inv, NEW p \in Process, Create(p) \/ Recreate(p)
  PROVE  Inv'
<1>1. CASE Create(p)
  BY <1>1, ScriptStep DEF Create, At, Step, Opening, Moved, Inv, OldIsAhead
<1>2. CASE Recreate(p)
  BY <1>2, ScriptStep DEF Recreate, At, Step, Opening, Moved, Inv, OldIsAhead
<1> QED
  BY <1>1, <1>2

(* A step past the renaming that changes the tables of skills: both keep their *)
(* shape, no row of the two is lost unless a rebuild dropped it, and what is   *)
(* moved has its mover.                                                        *)
LEMMA SkillsStep ==
  ASSUME Inv, NEW p \in Process, NEW goal \in Opening \cup {"closed", "open"},
         pc[p] \notin {"closed", "rename", "renaming"}, Goto(p, goal),
         UNCHANGED <<version, profile, checks, policy, saw>>,
         skills' \in Table, tmp' \in Table, HistoryOK',
         met' => broken', MovedHasMover', ~ met' => written' \subseteq skills'.rows \cup tmp'.rows
  PROVE  Inv'
<1>1. pc' \in [Process -> Opening \cup {"closed", "open"}]
  BY GotoType DEF Inv
<1>2. TypeOK'
  BY <1>1 DEF Inv, TypeOK
<1>3. checks' # "hidden" /\ OldIsAhead'
  BY DEF Inv, OldIsAhead
<1> QED
  BY <1>2, <1>3 DEF Inv

(* A table with other rows, or with the new column, is a table.                *)
LEMMA TableExcept ==
  ASSUME NEW t \in Table
  PROVE  /\ [t EXCEPT !.column = TRUE] \in Table
         /\ [t EXCEPT !.column = TRUE].rows = t.rows
         /\ \A ids \in SUBSET Row : /\ [t EXCEPT !.rows = ids] \in Table
                                    /\ [t EXCEPT !.rows = ids].rows = ids
BY DEF Table

(* The new column, added by one opener at a time.                              *)
LEMMA AddColumnKeepsInv ==
  ASSUME Inv, NEW p \in Process, AddColumn(p)
  PROVE  Inv'
<1>1. CASE Raise(p)
  BY <1>1, AbruptStep DEF Raise
<1>2. CASE ~ Raise(p)
  <2>1. /\ pc[p] = "adding" /\ Goto(p, "rebuild") /\ skills' = [skills EXCEPT !.column = TRUE]
        /\ UNCHANGED <<version, profile, checks, policy, tmp, saw, crashes, history>>
    BY <1>2 DEF AddColumn, At, Step
  <2>2. skills' \in Table /\ skills'.rows = skills.rows
    BY <2>1, TableExcept DEF Inv, TypeOK
  <2>3. MovedHasMover'
    BY <2>1, GotoType DEF Inv, MovedHasMover, Opening, Moved, history
  <2> QED
    BY <2>1, <2>2, <2>3, SkillsStep DEF Inv, TypeOK, HistoryOK, Opening, history
<1> QED
  BY <1>1, <1>2

(* The drop of what another rebuild left, or is about to copy.                 *)
LEMMA DropTmpKeepsInv ==
  ASSUME Inv, NEW p \in Process, DropTmp(p)
  PROVE  Inv'
<1>1. /\ pc[p] = "droptmp" /\ Goto(p, "renametmp") /\ tmp' = Missing
      /\ UNCHANGED <<version, profile, checks, policy, skills, saw, crashes, written>>
  BY DEF DropTmp, At
<1>2. met' \in BOOLEAN /\ broken' \in BOOLEAN
  BY Zenon DEF DropTmp
<1>3. (met => met') /\ (met' => broken') /\ (tmp # Missing => met')
  BY Zenon DEF DropTmp, Inv
<1>4. MovedHasMover'
  BY <1>1, EmptyTables DEF MovedHasMover
<1>5. ~ met' => written' \subseteq skills'.rows \cup tmp'.rows
  BY <1>1, <1>3 DEF Inv
<1> QED
  BY <1>1, <1>2, <1>3, <1>4, <1>5, EmptyTables, SkillsStep DEF Inv, TypeOK, HistoryOK, Opening

(* The rename of skills, which makes its opener the mover.                     *)
LEMMA RenameTmpKeepsInv ==
  ASSUME Inv, NEW p \in Process, RenameTmp(p)
  PROVE  Inv'
<1>1. CASE Raise(p)
  BY <1>1, AbruptStep DEF Raise
<1>2. CASE ~ Raise(p)
  <2>1. /\ pc[p] = "renametmp" /\ Goto(p, "recreate")
        /\ tmp = Missing /\ tmp' = skills /\ skills' = Missing
        /\ UNCHANGED <<version, profile, checks, policy, saw, crashes, history>>
    BY <1>2 DEF RenameTmp, At, Step
  <2>2. pc'[p] = "recreate"
    BY <2>1, GotoType DEF Inv, Opening, Moved
  <2>3. MovedHasMover'
    BY <2>2 DEF MovedHasMover, Moved
  <2>4. ~ met' => written' \subseteq skills'.rows \cup tmp'.rows
    BY <2>1, EmptyTables DEF Inv, history
  <2> QED
    BY <2>1, <2>3, <2>4, EmptyTables, SkillsStep DEF Inv, TypeOK, HistoryOK, Opening, Moved, history
<1> QED
  BY <1>1, <1>2

(* The copy, which leaves nothing moved.                                       *)
LEMMA CopyKeepsInv ==
  ASSUME Inv, NEW p \in Process, Copy(p)
  PROVE  Inv'
<1>1. CASE Raise(p)
  BY <1>1, AbruptStep DEF Raise
<1>2. CASE ~ Raise(p)
  <2>1. /\ pc[p] = "copy" /\ Goto(p, "seed")
        /\ tmp' = Missing /\ skills' = [skills EXCEPT !.rows = @ \cup tmp.rows]
        /\ UNCHANGED <<version, profile, checks, policy, saw, crashes, history>>
    BY <1>2 DEF Copy, At, Step
  <2>2. skills.rows \cup tmp.rows \in SUBSET Row
    BY DEF Inv, TypeOK, Table
  <2>3. skills' \in Table /\ skills'.rows = skills.rows \cup tmp.rows
    BY <2>1, <2>2, TableExcept DEF Inv, TypeOK
  <2>4. MovedHasMover'
    BY <2>1, EmptyTables DEF MovedHasMover
  <2>5. ~ met' => written' \subseteq skills'.rows \cup tmp'.rows
    BY <2>1, <2>3 DEF Inv, history
  <2> QED
    BY <2>1, <2>3, <2>4, <2>5, EmptyTables, SkillsStep DEF Inv, TypeOK, HistoryOK, Opening, history
<1> QED
  BY <1>1, <1>2

(* A new skill.                                                                *)
LEMMA WriteSkillKeepsInv ==
  ASSUME Inv, NEW p \in Process, NEW r \in Row, WriteSkill(p, r)
  PROVE  Inv'
<1>1. /\ pc[p] = "open" /\ Goto(p, "closed")
      /\ skills' = [skills EXCEPT !.rows = @ \cup {r}] /\ written' = written \cup {r}
      /\ UNCHANGED <<version, profile, checks, policy, tmp, saw, crashes, broken, met>>
  BY DEF WriteSkill, At
<1>2. skills.rows \cup {r} \in SUBSET Row
  BY DEF Inv, TypeOK, Table
<1>3. skills' \in Table /\ skills'.rows = skills.rows \cup {r}
  BY <1>1, <1>2, TableExcept DEF Inv, TypeOK
<1>4. MovedHasMover'
  BY <1>1, GotoType DEF Inv, MovedHasMover, Moved
<1>5. ~ met' => written' \subseteq skills'.rows \cup tmp'.rows
  BY <1>1, <1>3 DEF Inv
<1> QED
  BY <1>1, <1>3, <1>4, <1>5, SkillsStep DEF Inv, TypeOK, HistoryOK

(* Action by action.                                                           *)
LEMMA InvNext == Inv /\ [Next]_vars => Inv'
<1> SUFFICES ASSUME Inv, [Next]_vars PROVE Inv'
  OBVIOUS
<1>1. ASSUME NEW p \in Process, Open(p) PROVE Inv'
  BY <1>1, OpenKeepsInv
<1>2. ASSUME NEW p \in Process, Work(p) PROVE Inv'
  BY <1>2, TestsKeepInv, OtherTablesKeepInv, ScriptsKeepInv, AddColumnKeepsInv, DropTmpKeepsInv,
     RenameTmpKeepsInv, CopyKeepsInv DEF Work
<1>3. ASSUME NEW p \in Process, Use(p) PROVE Inv'
  BY <1>3, TestsKeepInv, OtherTablesKeepInv, WriteSkillKeepsInv DEF Use
<1>4. ASSUME NEW p \in Process, Crash(p) PROVE Inv'
  BY <1>4, AbruptStep DEF Crash
<1>5. CASE UNCHANGED vars
  BY <1>5 DEF Inv, TypeOK, HistoryOK, OldIsAhead, MovedHasMover, vars
<1> QED
  BY <1>1, <1>2, <1>3, <1>4, <1>5 DEF Next

--------------------------------------------------------------------------------

(* Of any number of processes and any rows, with any number of crashes: an     *)
(* upgrade never hides the rows of a renamed table, and a skill is in its      *)
(* table, or in the one it was moved to, unless one rebuild dropped what       *)
(* another had moved (storage.py:1059-1063, 1713-1756).                        *)
THEOREM RowsAreAccountedForAlways == Spec => []RowsAreAccountedFor
<1>1. Inv => RowsAreAccountedFor
  <2> SUFFICES ASSUME Inv PROVE RowsAreAccountedFor
    OBVIOUS
  <2>1. ASSUME ~ broken, \A p \in Process : pc[p] \notin Moved PROVE written \subseteq skills.rows
    BY <2>1 DEF Inv, MovedHasMover
  <2> QED
    BY <2>1 DEF Inv, RowsAreAccountedFor
<1> QED
  BY InvInit, InvNext, <1>1, PTL DEF Spec

--------------------------------------------------------------------------------

(* A writer has its event behind a stream while it may still put it there.     *)
Behind(p, s) == p.at = "publish" \/ (p.at \in {"offer", "full", "again"} /\ s \in p.to)

(* A writer that has committed its event and is not done with it.             *)
Busy(p) == p.at \in {"publish", "offer", "full", "again"}

(* What a writer is doing; its event is the last one it wrote, and the number  *)
(* it has drawn is larger than those of the events it wrote.                   *)
WriterOK(p, w, r) ==
  /\ \/ p = Silent
     \/ p \in [at : {"insert"}, seq : Nat]
     \/ p \in [at : {"publish"}, id : 1..Len(r)]
     \/ p \in [at : {"offer"}, id : 1..Len(r), to : SUBSET Streams]
     \/ p \in [at : {"full", "again"}, id : 1..Len(r), to : SUBSET Streams, on : Streams] /\ p.on \in p.to
  /\ Busy(p) => r[p.id].by = w /\ \A i \in 1..Len(r) : r[i].by = w => i <= p.id
  /\ p.at = "insert" => \A i \in 1..Len(r) : r[i].by = w => r[i].seq < p.seq

(* The types of the variables; ids are those of the events there are.          *)
TailTypes ==
  /\ events \in Seq(LiveEvent)
  /\ DOMAIN writer = Writers /\ \A w \in Writers : WriterOK(writer[w], w, events)
  /\ writer = [w \in Writers |-> writer[w]]
  /\ stream \in [Streams -> Subscribed \cup {"free"}]
  /\ queue \in [Streams -> Seq(1..Len(events))]
  /\ page \in [mounted : SUBSET Components, source : Streams \cup {NoStream}, mounts : Nat, breaks : Nat]
  /\ tail \in [fetch : {"no", "asked", "read", "done", "failed"}, read : Seq(1..Len(events)),
               seen : SUBSET (1..Len(events)), shown : Seq(1..Len(events)), gap : BOOLEAN]

(* No queue outgrows its bound, a request that is over has none, and the one   *)
(* that is open is the one the page reads.                                     *)
StreamsOK ==
  \A s \in Streams : /\ Len(queue[s]) <= QueueMax
                     /\ stream[s] \notin Subscribed => queue[s] = <<>>
                     /\ stream[s] = "open" <=> s = page.source

(* The events of one writer are in order in a sequence of ids.                 *)
InOrder(q, r) ==
  \A i, j \in DOMAIN q : i < j /\ r[q[i]].by = r[q[j]].by => q[i] < q[j]

(* No event twice, and those of one writer in order but for earlier times.     *)
Told(q, r) ==
  \A i, j \in DOMAIN q : i < j =>
    q[i] # q[j] /\ (r[q[i]].by = r[q[j]].by /\ q[j] < q[i] => r[q[i]].at < r[q[j]].at)

(* Every event before one that was read was read, too.                         *)
Downward(q) == \A i \in DOMAIN q : 1..q[i] \subseteq Range(q)

(* The numbers of a writer's events grow.                                      *)
SeqsGrow ==
  \A i, j \in 1..Len(events) : i < j /\ events[i].by = events[j].by => events[i].seq < events[j].seq

(* The tail has a fetch in hand when it is mounted, what it read is all there  *)
(* was, and unless something escaped it has shown all it has seen.             *)
PageOK ==
  /\ page.mounted = {} => page.source = NoStream
  /\ "tail" \in page.mounted <=> tail.fetch # "no"
  /\ tail.fetch # "read" => tail.read = <<>>
  /\ Told(tail.read, events) /\ Downward(tail.read)
  /\ Range(tail.shown) \subseteq tail.seen
  /\ ~ tail.gap => tail.seen \subseteq Range(tail.shown)

(* What a writer still has behind a stream is newer than what is queued there. *)
Older(q, r, p, s) ==
  \A j \in DOMAIN q : Behind(p[r[q[j]].by], s) => q[j] < p[r[q[j]].by].id

(* What is queued and not seen yet is newer than what is shown.                *)
Newer(q, r, seen, shown) ==
  \A j \in DOMAIN q : q[j] \notin seen =>
    \A i \in DOMAIN shown : r[shown[i]].by = r[q[j]].by => shown[i] < q[j]

(* In every queue the events of each writer are in order, and what the writer  *)
(* has behind it comes later.                                                  *)
QueuesInOrder == \A s \in Streams : InOrder(queue[s], events) /\ Older(queue[s], events, writer, s)

(* What is shown tells the run, and what comes next is newer.                  *)
ShownInOrder ==
  /\ Told(tail.shown, events)
  /\ page.source # NoStream => Newer(queue[page.source], events, tail.seen, tail.shown)

(* The tail has the event, or will have it when all is quiet.                  *)
Coming(i) ==
  \/ i \in Range(tail.read) \cup Range(tail.shown) \cup Range(queue[page.source])
  \/ \E w \in Writers \ Remote : Behind(writer[w], page.source) /\ writer[w].id = i

(* Unless something escaped it, every event of the server is coming to a tail  *)
(* that has read the rows.                                                     *)
NothingEscaped ==
  tail.fetch \in {"read", "done"} /\ ~ tail.gap =>
    page.source # NoStream /\ \A i \in 1..Len(events) : events[i].by \notin Remote => Coming(i)

(* The inductive invariant of the live events.                                 *)
LiveInv == TailTypes /\ SeqsGrow /\ StreamsOK /\ PageOK /\ QueuesInOrder /\ ShownInOrder /\ NothingEscaped
--------------------------------------------------------------------------------
(* What a row holds.                                                           *)
LEMMA RowFacts ==
  ASSUME NEW e \in LiveEvent
  PROVE  e.by \in Writers /\ e.at \in Times /\ e.seq \in Nat
  BY DEF LiveEvent

(* What Append makes of a sequence.                                            *)
LEMMA Appended ==
  ASSUME NEW S, NEW q \in Seq(S), NEW e \in S
  PROVE  /\ Append(q, e) \in Seq(S) /\ Len(Append(q, e)) = Len(q) + 1
         /\ DOMAIN q = 1..Len(q) /\ DOMAIN Append(q, e) = 1..(Len(q) + 1)
         /\ \A i \in 1..Len(q) : Append(q, e)[i] = q[i]
         /\ Append(q, e)[Len(q) + 1] = e
         /\ Range(Append(q, e)) = Range(q) \cup {e}
<1>1. /\ Append(q, e) \in Seq(S) /\ Len(Append(q, e)) = Len(q) + 1
      /\ \A i \in 1..Len(q) : Append(q, e)[i] = q[i]
      /\ Append(q, e)[Len(q) + 1] = e
  BY AppendProperties
<1>2. DOMAIN q = 1..Len(q) /\ DOMAIN Append(q, e) = 1..(Len(q) + 1) /\ Len(q) \in Nat
  BY <1>1
<1>3. Range(Append(q, e)) = Range(q) \cup {e}
  BY <1>1, <1>2 DEF Range
<1>4. QED  BY <1>1, <1>2, <1>3

(* What Tail makes of a sequence that is not empty.                            *)
LEMMA Shortened ==
  ASSUME NEW S, NEW q \in Seq(S), q # <<>>
  PROVE  /\ Tail(q) \in Seq(S) /\ Len(Tail(q)) = Len(q) - 1 /\ Len(q) \in Nat \ {0}
         /\ DOMAIN q = 1..Len(q) /\ DOMAIN Tail(q) = 1..(Len(q) - 1)
         /\ Head(q) = q[1] /\ Head(q) \in S
         /\ \A i \in 1..(Len(q) - 1) : Tail(q)[i] = q[i + 1]
         /\ Range(q) = {Head(q)} \cup Range(Tail(q))
<1>1. /\ Tail(q) \in Seq(S) /\ Len(Tail(q)) = Len(q) - 1 /\ Len(q) \in Nat \ {0}
      /\ \A i \in 1..(Len(q) - 1) : Tail(q)[i] = q[i + 1]
  BY HeadTailProperties
<1>2. /\ DOMAIN q = 1..Len(q) /\ DOMAIN Tail(q) = 1..(Len(q) - 1) /\ Head(q) = q[1] /\ Head(q) \in S
  BY <1>1
<1>3. Range(q) = {Head(q)} \cup Range(Tail(q))
  <2>1. ASSUME NEW i \in DOMAIN q  PROVE q[i] \in {Head(q)} \cup Range(Tail(q))
    <3>1. CASE i = 1  BY <3>1, <1>2
    <3>2. CASE i # 1
      <4>1. i - 1 \in 1..(Len(q) - 1) /\ (i - 1) + 1 = i  BY <3>2, <1>1, <1>2
      <4>2. Tail(q)[i - 1] = q[i] /\ i - 1 \in DOMAIN Tail(q)  BY <4>1, <1>1, <1>2
      <4>3. QED  BY <4>2 DEF Range
    <3>3. QED  BY <3>1, <3>2
  <2>2. \A i \in DOMAIN Tail(q) : i + 1 \in DOMAIN q /\ Tail(q)[i] = q[i + 1]  BY <1>1, <1>2
  <2>3. 1 \in DOMAIN q  BY <1>1, <1>2
  <2>4. QED  BY <2>1, <2>2, <2>3, <1>2 DEF Range
<1>4. QED  BY <1>1, <1>2, <1>3
--------------------------------------------------------------------------------
(* The order of a queue outlives the loss of its head.                         *)
LEMMA OrderedTail ==
  ASSUME NEW n \in Nat, NEW q \in Seq(1..n), q # <<>>, NEW r, NEW p, NEW s
  PROVE  /\ InOrder(q, r) => InOrder(Tail(q), r)
         /\ Older(q, r, p, s) => Older(Tail(q), r, p, s)
<1>1. /\ DOMAIN q = 1..Len(q) /\ DOMAIN Tail(q) = 1..(Len(q) - 1) /\ Len(q) \in Nat
      /\ \A i \in 1..(Len(q) - 1) : Tail(q)[i] = q[i + 1]
  BY Shortened
<1>2. \A i \in DOMAIN Tail(q) : i \in Int /\ i + 1 \in DOMAIN q /\ Tail(q)[i] = q[i + 1]
  BY <1>1
<1>3. \A i, j \in DOMAIN Tail(q) : i < j => i + 1 < j + 1
  BY <1>2
<1>4. InOrder(q, r) => InOrder(Tail(q), r)  BY <1>2, <1>3 DEF InOrder
<1>5. Older(q, r, p, s) => Older(Tail(q), r, p, s)  BY <1>2 DEF Older
<1>6. QED  BY <1>4, <1>5

(* And what is left of it is still newer than what is shown.                   *)
LEMMA NewerTail ==
  ASSUME NEW n \in Nat, NEW q \in Seq(1..n), q # <<>>, NEW r, NEW seen, NEW shown, Newer(q, r, seen, shown)
  PROVE  Newer(Tail(q), r, seen, shown)
<1>1. /\ DOMAIN q = 1..Len(q) /\ DOMAIN Tail(q) = 1..(Len(q) - 1) /\ Len(q) \in Nat
      /\ \A i \in 1..(Len(q) - 1) : Tail(q)[i] = q[i + 1]
  BY Shortened
<1>2. \A i \in DOMAIN Tail(q) : i + 1 \in DOMAIN q /\ Tail(q)[i] = q[i + 1]
  BY <1>1
<1>3. QED  BY <1>2 DEF Newer

(* A sequence stays in order when something newer is appended to it.           *)
LEMMA OrderedAppend ==
  ASSUME NEW n \in Nat, NEW q \in Seq(1..n), NEW e \in 1..n, NEW r, InOrder(q, r),
         \A i \in DOMAIN q : r[q[i]].by = r[e].by => q[i] < e
  PROVE  InOrder(Append(q, e), r)
<1>1. /\ DOMAIN q = 1..Len(q) /\ DOMAIN Append(q, e) = 1..(Len(q) + 1) /\ Len(q) \in Nat
      /\ \A i \in 1..Len(q) : Append(q, e)[i] = q[i]
      /\ Append(q, e)[Len(q) + 1] = e
  BY Appended
<1>2. SUFFICES ASSUME NEW i \in DOMAIN Append(q, e), NEW j \in DOMAIN Append(q, e), i < j,
                      r[Append(q, e)[i]].by = r[Append(q, e)[j]].by
               PROVE  Append(q, e)[i] < Append(q, e)[j]
  BY DEF InOrder
<1>3. i \in DOMAIN q /\ Append(q, e)[i] = q[i]  BY <1>1, <1>2
<1>4. CASE j \in DOMAIN q  BY <1>1, <1>2, <1>3, <1>4 DEF InOrder
<1>5. CASE j = Len(q) + 1  BY <1>1, <1>2, <1>3, <1>5
<1>6. QED  BY <1>1, <1>2, <1>4, <1>5

(* It goes on telling the run when it gets an event that is new to it.         *)
LEMMA ToldAppend ==
  ASSUME NEW n \in Nat, NEW q \in Seq(1..n), NEW e \in 1..n, NEW r, Told(q, r), e \notin Range(q),
         \A i \in DOMAIN q : r[q[i]].by = r[e].by => q[i] < e
  PROVE  Told(Append(q, e), r)
<1>1. /\ DOMAIN q = 1..Len(q) /\ DOMAIN Append(q, e) = 1..(Len(q) + 1) /\ Len(q) \in Nat
      /\ \A i \in 1..Len(q) : Append(q, e)[i] = q[i]
      /\ Append(q, e)[Len(q) + 1] = e
  BY Appended
<1>2. \A i \in DOMAIN q : q[i] \in 1..n /\ q[i] # e  BY DEF Range
<1> DEFINE a == Append(q, e)
<1>3. SUFFICES ASSUME NEW i \in DOMAIN a, NEW j \in DOMAIN a, i < j
               PROVE  a[i] # a[j] /\ (r[a[i]].by = r[a[j]].by /\ a[j] < a[i] => r[a[i]].at < r[a[j]].at)
  BY DEF Told
<1>4. i \in DOMAIN q /\ a[i] = q[i]  BY <1>1, <1>3
<1>5. CASE j \in DOMAIN q
  <2>1. a[j] = q[j]  BY <1>1, <1>5
  <2> HIDE DEF a
  <2>2. QED  BY <2>1, <1>3, <1>4, <1>5 DEF Told
<1>6. CASE j = Len(q) + 1
  <2>1. a[j] = e  BY <1>1, <1>6
  <2> HIDE DEF a
  <2>2. QED  BY <2>1, <1>2, <1>4
<1>7. QED  BY <1>1, <1>3, <1>5, <1>6

(* What a writer that is busy has in hand.                                     *)
LEMMA WriterFacts ==
  ASSUME NEW p, NEW w, NEW r, WriterOK(p, w, r), Busy(p)
  PROVE  /\ p.id \in 1..Len(r) /\ r[p.id].by = w /\ \A i \in 1..Len(r) : r[i].by = w => i <= p.id
         /\ p.at # "publish" => p.to \subseteq Streams
         /\ p.at \in {"full", "again"} =>
              /\ p \in [at : {"full", "again"}, id : 1..Len(r), to : SUBSET Streams, on : Streams]
              /\ p.on \in p.to
  BY DEF WriterOK, Busy, Silent

(* Only a busy writer has something behind a stream.                           *)
LEMMA BehindIsBusy == ASSUME NEW p, NEW s, Behind(p, s)  PROVE Busy(p)
  BY DEF Behind, Busy

(* A writer that has its event behind a stream, in a state of the system.      *)
LEMMA BehindFacts ==
  ASSUME TailTypes, NEW w \in Writers, NEW s, Behind(writer[w], s)
  PROVE  /\ writer[w].id \in 1..Len(events) /\ events[writer[w].id].by = w
         /\ \A i \in 1..Len(events) : events[i].by = w => i <= writer[w].id
  BY BehindIsBusy, WriterFacts DEF TailTypes

(* A writer with nobody left to offer its event to is idle.                    *)
OfferOf(id, to) == IF to = {} THEN Silent ELSE [at |-> "offer", id |-> id, to |-> to]

(* A writer that goes on to offer its event has it behind the streams it has   *)
(* yet to visit, and no other.                                                 *)
LEMMA OfferOfFacts ==
  ASSUME NEW p, NEW w, NEW r, WriterOK(p, w, r), Busy(p), NEW to \in SUBSET Streams
  PROVE  /\ WriterOK(OfferOf(p.id, to), w, r)
         /\ \A s : Behind(OfferOf(p.id, to), s) <=> s \in to
         /\ \A s \in to : OfferOf(p.id, to).id = p.id
<1>1. p.id \in 1..Len(r) /\ r[p.id].by = w /\ \A i \in 1..Len(r) : r[i].by = w => i <= p.id
  BY WriterFacts
<1>2. CASE to = {}  BY <1>2 DEF OfferOf, WriterOK, Behind, Busy, Silent
<1>3. CASE to # {}
  <2> DEFINE o == [at |-> "offer", id |-> p.id, to |-> to]
  <2>1. OfferOf(p.id, to) = o  BY <1>3 DEF OfferOf
  <2>2. o \in [at : {"offer"}, id : 1..Len(r), to : SUBSET Streams]  BY <1>1
  <2>3. o.at = "offer" /\ o.id = p.id /\ o.to = to  OBVIOUS
  <2> HIDE DEF o
  <2>4. WriterOK(o, w, r)  BY <2>2, <2>3, <1>1 DEF WriterOK, Busy
  <2>5. \A s : Behind(o, s) <=> s \in to  BY <2>3 DEF Behind
  <2>6. QED  BY <2>1, <2>3, <2>4, <2>5
<1>4. QED  BY <1>2, <1>3
--------------------------------------------------------------------------------
(* What becomes of a queue in a step: it stays, loses its head or everything,  *)
(* or gets the event of a writer that then has it behind the queue no more.    *)
QueueMoves(s) ==
  \/ queue'[s] = queue[s]
  \/ queue'[s] = <<>>
  \/ queue[s] # <<>> /\ queue'[s] = Tail(queue[s])
  \/ \E w \in Writers : Behind(writer[w], s) /\ ~ Behind(writer'[w], s) /\ queue'[s] = Append(queue[s], writer[w].id)

(* No writer gets an event behind a stream, and what it has there stays.       *)
StaysBehind ==
  \A w \in Writers, s \in Streams : Behind(writer'[w], s) => Behind(writer[w], s) /\ writer'[w].id = writer[w].id

(* Whatever happens to the queues, their events stay in order, because what is *)
(* appended is the last event of its writer.                                   *)
LEMMA QueuesKeepOrder ==
  ASSUME TailTypes, QueuesInOrder, StaysBehind, events' = events, \A s \in Streams : QueueMoves(s)
  PROVE  QueuesInOrder'
<1> SUFFICES ASSUME NEW s \in Streams  PROVE InOrder(queue'[s], events) /\ Older(queue'[s], events, writer', s)
  BY DEF QueuesInOrder
<1>1. queue[s] \in Seq(1..Len(events)) /\ events \in Seq(LiveEvent) /\ Len(events) \in Nat
  BY DEF TailTypes
<1>2. \A i \in DOMAIN queue[s] : queue[s][i] \in 1..Len(events) /\ events[queue[s][i]].by \in Writers
  BY <1>1, RowFacts
<1>3. InOrder(queue[s], events) /\ Older(queue[s], events, writer, s)
  BY DEF QueuesInOrder
<1>4. Older(queue[s], events, writer', s)
  BY <1>2, <1>3 DEF StaysBehind, Older
<1>5. CASE queue'[s] = queue[s]  BY <1>3, <1>4, <1>5
<1>6. CASE queue'[s] = <<>>  BY <1>6 DEF InOrder, Older
<1>7. CASE queue[s] # <<>> /\ queue'[s] = Tail(queue[s])
  BY <1>1, <1>3, <1>4, <1>7, OrderedTail
<1>8. CASE \E w \in Writers : Behind(writer[w], s) /\ ~ Behind(writer'[w], s) /\ queue'[s] = Append(queue[s], writer[w].id)
  <2>1. PICK w \in Writers : Behind(writer[w], s) /\ ~ Behind(writer'[w], s) /\ queue'[s] = Append(queue[s], writer[w].id)
    BY <1>8
  <2>2. writer[w].id \in 1..Len(events) /\ events[writer[w].id].by = w
    BY <2>1, BehindFacts
  <2>3. \A i \in DOMAIN queue[s] : events[queue[s][i]].by = events[writer[w].id].by => queue[s][i] < writer[w].id
    BY <2>1, <2>2, <1>3 DEF Older
  <2>4. InOrder(queue'[s], events)
    BY <2>1, <2>2, <2>3, <1>1, <1>3, OrderedAppend
  <2>5. /\ DOMAIN queue[s] = 1..Len(queue[s]) /\ DOMAIN queue'[s] = 1..(Len(queue[s]) + 1) /\ Len(queue[s]) \in Nat
        /\ \A i \in 1..Len(queue[s]) : queue'[s][i] = queue[s][i]
        /\ queue'[s][Len(queue[s]) + 1] = writer[w].id
    BY <2>1, <2>2, <1>1, Appended
  <2>6. ASSUME NEW j \in DOMAIN queue'[s], Behind(writer'[events[queue'[s][j]].by], s)
        PROVE  queue'[s][j] < writer'[events[queue'[s][j]].by].id
    <3>1. CASE j \in DOMAIN queue[s]  BY <3>1, <2>5, <2>6, <1>4 DEF Older
    <3>2. CASE j = Len(queue[s]) + 1  BY <3>2, <2>1, <2>2, <2>5, <2>6
    <3>3. QED  BY <3>1, <3>2, <2>5
  <2>7. QED  BY <2>4, <2>6 DEF Older
<1>9. QED  BY <1>5, <1>6, <1>7, <1>8 DEF QueueMoves

(* And what is queued and was not seen stays newer than what is shown.         *)
LEMMA ShownKeepOrder ==
  ASSUME LiveEventsAssumption, TailTypes, PageOK, ShownInOrder, events' = events, \A s \in Streams : QueueMoves(s),
         tail'.seen = tail.seen, tail'.shown = tail.shown, page'.source \in {page.source, NoStream}
  PROVE  ShownInOrder'
<1> DEFINE s == page.source
           seen == tail.seen
           shown == tail.shown
<1>1. SUFFICES ASSUME s # NoStream, page'.source = s  PROVE Newer(queue'[s], events, seen, shown)
  BY DEF ShownInOrder
<1>2. s \in Streams  BY <1>1 DEF TailTypes
<1>3. /\ queue[s] \in Seq(1..Len(events)) /\ shown \in Seq(1..Len(events)) /\ events \in Seq(LiveEvent) /\ Len(events) \in Nat
      /\ Range(shown) \subseteq seen
  BY <1>2 DEF TailTypes, PageOK
<1>4. Newer(queue[s], events, seen, shown)
  BY <1>1 DEF ShownInOrder
<1>5. QueueMoves(s)  BY <1>2
<1> HIDE DEF s, seen, shown
<1>6. CASE queue'[s] = queue[s]  BY <1>4, <1>6
<1>7. CASE queue'[s] = <<>>  BY <1>7 DEF Newer
<1>8. CASE queue[s] # <<>> /\ queue'[s] = Tail(queue[s])
  BY <1>3, <1>4, <1>8, NewerTail
<1>9. CASE \E w \in Writers : Behind(writer[w], s) /\ ~ Behind(writer'[w], s) /\ queue'[s] = Append(queue[s], writer[w].id)
  <2>1. PICK w \in Writers : Behind(writer[w], s) /\ queue'[s] = Append(queue[s], writer[w].id)
    BY <1>9
  <2>2. writer[w].id \in 1..Len(events) /\ events[writer[w].id].by = w /\ \A at \in 1..Len(events) : events[at].by = w => at <= writer[w].id
    BY <2>1, <1>2, BehindFacts
  <2>3. /\ DOMAIN queue[s] = 1..Len(queue[s]) /\ DOMAIN queue'[s] = 1..(Len(queue[s]) + 1) /\ Len(queue[s]) \in Nat
        /\ \A at \in 1..Len(queue[s]) : queue'[s][at] = queue[s][at]
        /\ queue'[s][Len(queue[s]) + 1] = writer[w].id
    BY <2>1, <2>2, <1>3, Appended
  <2>4. SUFFICES ASSUME NEW j \in DOMAIN queue'[s], queue'[s][j] \notin seen,
                        NEW i \in DOMAIN shown, events[shown[i]].by = events[queue'[s][j]].by
                 PROVE  shown[i] < queue'[s][j]
    BY DEF Newer
  <2>5. CASE j \in DOMAIN queue[s]  BY <2>3, <2>4, <2>5, <1>4 DEF Newer
  <2>6. CASE j = Len(queue[s]) + 1
    <3>1. queue'[s][j] = writer[w].id  BY <2>3, <2>6
    <3>2. shown[i] \in 1..Len(events) /\ shown[i] \in seen
      BY <1>3 DEF Range
    <3>3. shown[i] <= writer[w].id /\ shown[i] # writer[w].id
      BY <3>1, <3>2, <2>2, <2>4
    <3>4. QED  BY <3>1, <3>2, <3>3, <2>2
  <2>7. QED  BY <2>3, <2>5, <2>6
<1>10. QED  BY <1>5, <1>6, <1>7, <1>8, <1>9 DEF QueueMoves

(* A queue holds ids of events.                                                *)
LEMMA QueueTypes ==
  ASSUME TailTypes, NEW s \in Streams, QueueMoves(s)
  PROVE  queue'[s] \in Seq(1..Len(events))
<1>1. queue[s] \in Seq(1..Len(events))  BY DEF TailTypes
<1>2. queue'[s] \in {queue[s], <<>>} => queue'[s] \in Seq(1..Len(events))  BY <1>1, EmptySeq
<1>3. queue[s] # <<>> => Tail(queue[s]) \in Seq(1..Len(events))  BY <1>1, Shortened
<1>4. CASE \E w \in Writers : Behind(writer[w], s) /\ ~ Behind(writer'[w], s) /\ queue'[s] = Append(queue[s], writer[w].id)
  <2>1. PICK w \in Writers : Behind(writer[w], s) /\ queue'[s] = Append(queue[s], writer[w].id)  BY <1>4
  <2>2. writer[w].id \in 1..Len(events)  BY <2>1, BehindFacts
  <2>3. QED  BY <2>1, <2>2, <1>1, Appended
<1>5. QED  BY <1>2, <1>3, <1>4 DEF QueueMoves
--------------------------------------------------------------------------------
(* A publisher offers its event.                                               *)

Kept(w) ==
  LET s == page.source IN
  /\ Range(queue[s]) \subseteq Range(queue'[s])
  /\ w \notin Remote /\ Behind(writer[w], s) =>
       (Behind(writer'[w], s) /\ writer'[w].id = writer[w].id) \/ writer[w].id \in Range(queue'[s])

(* What every step of a publisher does.                                        *)
Offers(w) ==
  /\ events' = events /\ stream' = stream /\ page' = page
  /\ \E n : /\ writer' = [writer EXCEPT ![w] = n] /\ WriterOK(n, w, events)
            /\ \A s \in Streams : Behind(n, s) => Behind(writer[w], s) /\ n.id = writer[w].id
  /\ DOMAIN queue' = Streams /\ queue' = [s \in Streams |-> queue'[s]]
  /\ \A s \in Streams : /\ QueueMoves(s) /\ Len(queue'[s]) <= QueueMax
                        /\ stream[s] \notin Subscribed => queue'[s] = <<>>
  /\ tail' \in {tail, [tail EXCEPT !.gap = TRUE]}
  /\ ~ tail'.gap /\ page.source # NoStream => Kept(w)

(* The inductive invariant outlives every step of a publisher.                 *)
LEMMA OffersKeep ==
  ASSUME LiveEventsAssumption, LiveInv, NEW w \in Writers, Offers(w)
  PROVE  LiveInv'
<1> USE DEF LiveInv
<1>1. PICK n : /\ writer' = [writer EXCEPT ![w] = n] /\ WriterOK(n, w, events)
               /\ \A s \in Streams : Behind(n, s) => Behind(writer[w], s) /\ n.id = writer[w].id
  BY DEF Offers
<1>2. /\ DOMAIN writer' = Writers /\ writer' = [v \in Writers |-> writer'[v]]
      /\ \A v \in Writers : writer'[v] = IF v = w THEN n ELSE writer[v]
  <2>1. DOMAIN writer = Writers  BY DEF TailTypes
  <2>2. writer' = [v \in Writers |-> IF v = w THEN n ELSE writer[v]]  BY <2>1, <1>1
  <2> HIDE DEF LiveInv
  <2>3. QED  BY <2>2
<1>3. StaysBehind
  BY <1>1, <1>2 DEF StaysBehind
<1>4. /\ events' = events /\ stream' = stream /\ page' = page
      /\ \A s \in Streams : /\ QueueMoves(s) /\ Len(queue'[s]) <= QueueMax
                            /\ stream[s] \notin Subscribed => queue'[s] = <<>>
      /\ DOMAIN queue' = Streams /\ queue' = [s \in Streams |-> queue'[s]]
  BY DEF Offers
<1>5. /\ tail'.fetch = tail.fetch /\ tail'.read = tail.read /\ tail'.seen = tail.seen /\ tail'.shown = tail.shown
      /\ tail' \in [fetch : {"no", "asked", "read", "done", "failed"}, read : Seq(1..Len(events)),
                    seen : SUBSET (1..Len(events)), shown : Seq(1..Len(events)), gap : BOOLEAN]
      /\ tail'.gap \in BOOLEAN /\ (tail.gap => tail'.gap)
  BY DEF Offers, TailTypes
<1>6. TailTypes'
  <2>1. \A v \in Writers : WriterOK(writer'[v], v, events)
    BY <1>1, <1>2 DEF TailTypes
  <2>2. \A s \in Streams : queue'[s] \in Seq(1..Len(events))
    BY <1>4, QueueTypes
  <2>3. queue' \in [Streams -> Seq(1..Len(events))]
    BY <2>2, <1>4
  <2>4. QED  BY <2>1, <2>3, <1>2, <1>4, <1>5 DEF TailTypes
<1>7. StreamsOK'  BY <1>4 DEF StreamsOK
<1>8. PageOK'  BY <1>4, <1>5 DEF PageOK
<1>9. QueuesInOrder'  BY <1>3, <1>4, QueuesKeepOrder
<1>10. ShownInOrder'  BY <1>4, <1>5, ShownKeepOrder
<1>11. NothingEscaped'
  <2>1. SUFFICES ASSUME tail.fetch \in {"read", "done"}, ~ tail'.gap, NEW i \in 1..Len(events), events[i].by \notin Remote
                 PROVE  page.source # NoStream /\ Coming(i)'
    BY <1>4, <1>5 DEF NothingEscaped
  <2>2. page.source # NoStream /\ Coming(i)  BY <2>1, <1>5 DEF NothingEscaped
  <2>3. Kept(w)  BY <2>1, <2>2 DEF Offers
  <2>4. CASE i \in Range(tail.read) \cup Range(tail.shown) \cup Range(queue[page.source])
    BY <2>4, <2>2, <2>3, <1>4, <1>5 DEF Coming, Kept
  <2>5. CASE \E v \in Writers \ Remote : Behind(writer[v], page.source) /\ writer[v].id = i
    <3>1. PICK v \in Writers \ Remote : Behind(writer[v], page.source) /\ writer[v].id = i  BY <2>5
    <3>2. CASE v # w  BY <3>1, <3>2, <2>2, <1>2, <1>4 DEF Coming
    <3>3. CASE v = w  BY <3>1, <3>3, <2>2, <2>3, <1>4 DEF Coming, Kept
    <3>4. QED  BY <3>2, <3>3
  <2>6. QED  BY <2>2, <2>4, <2>5 DEF Coming
<1>12. SeqsGrow'  BY <1>4 DEF SeqsGrow
<1>13. QED  BY <1>6, <1>7, <1>8, <1>9, <1>10, <1>11, <1>12
(* A publisher reads the list of subscribers: the stream of the page is on it. *)
LEMMA PublishOffers ==
  ASSUME LiveEventsAssumption, LiveInv, NEW w \in Writers, Publish(w)
  PROVE  Offers(w)
<1> USE DEF LiveInv
<1> DEFINE n == OfferOf(writer[w].id, Listening(w))
<1>1. /\ writer[w].at = "publish" /\ writer' = [writer EXCEPT ![w] = n]
      /\ events' = events /\ stream' = stream /\ queue' = queue /\ page' = page /\ tail' = tail
  BY DEF Publish, Offering, OfferOf
<1>2. WriterOK(writer[w], w, events) /\ Busy(writer[w]) /\ \A s : Behind(writer[w], s)
  BY <1>1 DEF TailTypes, Busy, Behind
<1>3. Listening(w) \in SUBSET Streams  BY DEF Listening
<1>4. /\ WriterOK(n, w, events)
      /\ \A s : Behind(n, s) <=> s \in Listening(w)
      /\ \A s \in Listening(w) : n.id = writer[w].id
  BY <1>2, <1>3, OfferOfFacts
<1> HIDE DEF n
<1>5. writer'[w] = n  BY <1>1 DEF TailTypes
<1>6. ASSUME page.source # NoStream, w \notin Remote  PROVE Behind(n, page.source) /\ n.id = writer[w].id
  <2>1. page.source \in Streams /\ stream[page.source] = "open"  BY <1>6 DEF TailTypes, StreamsOK
  <2>2. page.source \in Listening(w)  BY <2>1, <1>6 DEF Listening, Subscribed
  <2>3. QED  BY <2>2, <1>4
<1>7. page.source # NoStream => Kept(w)  BY <1>1, <1>5, <1>6 DEF Kept
<1>8. \A s \in Streams : QueueMoves(s)  BY <1>1 DEF QueueMoves
<1>9. DOMAIN queue' = Streams /\ queue' = [s \in Streams |-> queue'[s]]  BY <1>1 DEF TailTypes
<1>10. \E m : /\ writer' = [writer EXCEPT ![w] = m] /\ WriterOK(m, w, events)
              /\ \A s \in Streams : Behind(m, s) => Behind(writer[w], s) /\ m.id = writer[w].id
  BY <1>1, <1>2, <1>4
<1>11. \A s \in Streams : /\ QueueMoves(s) /\ Len(queue'[s]) <= QueueMax
                          /\ stream[s] \notin Subscribed => queue'[s] = <<>>
  BY <1>1, <1>8 DEF StreamsOK
<1>12. QED  BY <1>1, <1>7, <1>9, <1>10, <1>11 DEF Offers

(* A put that finds room, or a stream that has unsubscribed meanwhile.         *)
LEMMA PutOffers ==
  ASSUME LiveEventsAssumption, LiveInv, NEW w \in Writers, NEW s \in Streams, writer[w].at \in {"offer", "again"}, s \in writer[w].to,
         Room(s), Put(w, s), events' = events, stream' = stream, page' = page, tail' = tail
  PROVE  Offers(w)
<1> USE DEF LiveInv
<1> DEFINE n == OfferOf(writer[w].id, writer[w].to \ {s})
<1>1. writer' = [writer EXCEPT ![w] = n]  BY DEF Put, Offering, OfferOf
<1>2. WriterOK(writer[w], w, events) /\ Busy(writer[w]) /\ \A x : Behind(writer[w], x) <=> x \in writer[w].to
  BY DEF TailTypes, Busy, Behind
<1>3. writer[w].to \ {s} \in SUBSET Streams /\ writer[w].id \in 1..Len(events)  BY <1>2, WriterFacts
<1>4. /\ WriterOK(n, w, events)
      /\ \A x : Behind(n, x) <=> x \in writer[w].to \ {s}
      /\ \A x \in writer[w].to \ {s} : n.id = writer[w].id
  <2>1. WriterOK(writer[w], w, events) /\ Busy(writer[w]) /\ writer[w].to \ {s} \in SUBSET Streams  BY <1>2, <1>3
  <2> HIDE DEF LiveInv
  <2>2. QED  BY <2>1, OfferOfFacts
<1> HIDE DEF n
<1>5. writer'[w] = n  BY <1>1 DEF TailTypes
<1>6. /\ queue \in [Streams -> Seq(1..Len(events))] /\ DOMAIN queue' = Streams /\ queue' = [x \in Streams |-> queue'[x]]
      /\ \A x \in Streams : x # s => queue'[x] = queue[x]
      /\ queue'[s] = IF stream[s] \in Subscribed THEN Append(queue[s], writer[w].id) ELSE queue[s]
  BY DEF Put, TailTypes
<1>7. /\ Range(Append(queue[s], writer[w].id)) = Range(queue[s]) \cup {writer[w].id}
      /\ Len(Append(queue[s], writer[w].id)) = Len(queue[s]) + 1 /\ Len(queue[s]) \in Nat
  <2>1. queue[s] \in Seq(1..Len(events)) /\ writer[w].id \in 1..Len(events)  BY <1>3, <1>6
  <2> HIDE DEF LiveInv
  <2>2. QED  BY <2>1, Appended
<1>8. QueueMoves(s)  BY <1>2, <1>4, <1>5, <1>6 DEF QueueMoves
<1>9. \A x \in Streams : QueueMoves(x)  BY <1>6, <1>8 DEF QueueMoves
<1>10. \A x \in Streams : Len(queue'[x]) <= QueueMax /\ (stream[x] \notin Subscribed => queue'[x] = <<>>)
  <2>1. ASSUME NEW x \in Streams  PROVE Len(queue[x]) <= QueueMax /\ (stream[x] \notin Subscribed => queue[x] = <<>>)
    BY DEF StreamsOK
  <2>2. stream[s] \in Subscribed => Len(queue[s]) < QueueMax  BY DEF Room
  <2>3. stream[s] \in Subscribed => Len(queue'[s]) <= QueueMax
    BY <2>2, <1>6, <1>7 DEF LiveEventsAssumption
  <2> HIDE DEF LiveInv
  <2>4. QED  BY <2>1, <2>3, <1>6
<1>11. ASSUME page.source # NoStream  PROVE Kept(w)
  <2>1. page.source \in Streams /\ stream[page.source] = "open"  BY <1>11 DEF TailTypes, StreamsOK
  <2>2. CASE page.source = s
    <3>1. Range(queue'[s]) = Range(queue[s]) \cup {writer[w].id}  BY <2>1, <2>2, <1>6, <1>7 DEF Subscribed
    <3>2. QED  BY <3>1, <2>2 DEF Kept
  <2>3. CASE page.source # s
    <3>1. queue'[page.source] = queue[page.source]  BY <2>1, <2>3, <1>6
    <3>2. Behind(writer[w], page.source) => Behind(n, page.source) /\ n.id = writer[w].id  BY <2>3, <1>2, <1>4
    <3>3. QED  BY <3>1, <3>2, <1>5 DEF Kept
  <2>4. QED  BY <2>2, <2>3
<1>12. \E m : /\ writer' = [writer EXCEPT ![w] = m] /\ WriterOK(m, w, events)
              /\ \A x \in Streams : Behind(m, x) => Behind(writer[w], x) /\ m.id = writer[w].id
  BY <1>1, <1>2, <1>4
<1>13. QED  BY <1>6, <1>9, <1>10, <1>11, <1>12 DEF Offers

(* A step that changes no queue, and nothing but the gap of the tail.          *)
LEMMA QueuesStay ==
  ASSUME LiveInv, NEW w \in Writers, NEW n, queue' = queue, events' = events, stream' = stream, page' = page,
         writer' = [writer EXCEPT ![w] = n], WriterOK(n, w, events),
         \A s \in Streams : Behind(n, s) => Behind(writer[w], s) /\ n.id = writer[w].id,
         tail' \in {tail, [tail EXCEPT !.gap = TRUE]},
         ~ tail'.gap /\ page.source # NoStream /\ Behind(writer[w], page.source) => Behind(n, page.source) /\ n.id = writer[w].id
  PROVE  Offers(w)
<1>1. TailTypes /\ StreamsOK  BY DEF LiveInv
<1>2. \A s \in Streams : QueueMoves(s)  BY DEF QueueMoves
<1>3. DOMAIN queue' = Streams /\ queue' = [s \in Streams |-> queue'[s]]  BY <1>1 DEF TailTypes
<1>4. \A s \in Streams : /\ QueueMoves(s) /\ Len(queue'[s]) <= QueueMax
                         /\ stream[s] \notin Subscribed => queue'[s] = <<>>
  BY <1>1, <1>2 DEF StreamsOK
<1>5. writer'[w] = n  BY <1>1 DEF TailTypes
<1>6. ~ tail'.gap /\ page.source # NoStream => Kept(w)  BY <1>5 DEF Kept
<1>7. QED  BY <1>3, <1>4, <1>6 DEF Offers

(* The first attempt puts the event or finds the queue full.                   *)
LEMMA OfferOffers ==
  ASSUME LiveEventsAssumption, LiveInv, NEW w \in Writers, NEW s \in Streams, Offer(w, s)
  PROVE  Offers(w)
<1>1. writer[w].at = "offer" /\ s \in writer[w].to /\ events' = events /\ stream' = stream /\ page' = page /\ tail' = tail
  BY DEF Offer
<1>2. CASE Room(s)
  <2>1. Put(w, s)  BY <1>2 DEF Offer
  <2>2. QED  BY <2>1, <1>1, <1>2, PutOffers
<1>3. CASE ~ Room(s)
  <2> DEFINE n == [at |-> "full", id |-> writer[w].id, to |-> writer[w].to, on |-> s]
  <2>1. writer' = [writer EXCEPT ![w] = n] /\ queue' = queue  BY <1>3 DEF Offer
  <2>2. WriterOK(writer[w], w, events) /\ Busy(writer[w])  BY <1>1 DEF LiveInv, TailTypes, Busy
  <2>3. /\ writer[w].id \in 1..Len(events) /\ events[writer[w].id].by = w /\ \A i \in 1..Len(events) : events[i].by = w => i <= writer[w].id
        /\ writer[w].to \subseteq Streams
    BY <2>2, <1>1, WriterFacts
  <2>4. /\ n \in [at : {"full", "again"}, id : 1..Len(events), to : SUBSET Streams, on : Streams]
        /\ n.at = "full" /\ n.id = writer[w].id /\ n.to = writer[w].to /\ n.on = s
    BY <2>3
  <2> HIDE DEF n
  <2>5. WriterOK(n, w, events)  BY <2>3, <2>4, <1>1 DEF WriterOK, Busy
  <2>6. \A x : (Behind(n, x) <=> Behind(writer[w], x)) /\ n.id = writer[w].id  BY <2>4, <1>1 DEF Behind
  <2>7. QED  BY <2>1, <2>5, <2>6, <1>1, QueuesStay
<1>4. QED  BY <1>2, <1>3

(* The second attempt puts the event or gives it up.                           *)
LEMMA OfferAgainOffers ==
  ASSUME LiveEventsAssumption, LiveInv, NEW w \in Writers, OfferAgain(w)
  PROVE  Offers(w)
<1> DEFINE s == writer[w].on
<1>1. writer[w].at = "again" /\ events' = events /\ stream' = stream /\ page' = page  BY DEF OfferAgain
<1>2. WriterOK(writer[w], w, events) /\ Busy(writer[w])  BY <1>1 DEF LiveInv, TailTypes, Busy
<1>3. s \in Streams /\ s \in writer[w].to /\ writer[w].to \subseteq Streams  BY <1>1, <1>2, WriterFacts
<1>4. CASE Room(s)
  <2>1. Put(w, s) /\ tail' = tail  BY <1>4 DEF OfferAgain
  <2>2. QED  BY <2>1, <1>1, <1>3, <1>4, PutOffers
<1>5. CASE ~ Room(s)
  <2> DEFINE n == OfferOf(writer[w].id, writer[w].to \ {s})
  <2>1. writer' = [writer EXCEPT ![w] = n] /\ Escaped(s) /\ queue' = queue  BY <1>5 DEF OfferAgain, Offering, OfferOf
  <2>2. /\ WriterOK(n, w, events)
        /\ \A x : Behind(n, x) <=> x \in writer[w].to \ {s}
        /\ \A x \in writer[w].to \ {s} : n.id = writer[w].id
    BY <1>2, <1>3, OfferOfFacts
  <2> HIDE DEF n
  <2>3. \A x : Behind(writer[w], x) <=> x \in writer[w].to  BY <1>1 DEF Behind
  <2>4. tail' \in {tail, [tail EXCEPT !.gap = TRUE]} /\ (s = page.source => tail'.gap)
    BY <2>1 DEF Escaped, LiveInv, TailTypes
  <2>5. QED  BY <2>1, <2>2, <2>3, <2>4, <1>1, QueuesStay
<1>6. QED  BY <1>4, <1>5

(* In between the oldest message of the queue goes.                            *)
LEMMA DropOldestOffers ==
  ASSUME LiveEventsAssumption, LiveInv, NEW w \in Writers, DropOldest(w)
  PROVE  Offers(w)
<1> DEFINE s == writer[w].on
           n == [writer[w] EXCEPT !.at = "again"]
<1>1. /\ writer[w].at = "full" /\ events' = events /\ stream' = stream /\ page' = page
      /\ writer' = [writer EXCEPT ![w] = n]
  BY DEF DropOldest
<1>2. WriterOK(writer[w], w, events) /\ Busy(writer[w])  BY <1>1 DEF LiveInv, TailTypes, Busy
<1>3. /\ s \in Streams /\ s \in writer[w].to
      /\ writer[w] \in [at : {"full", "again"}, id : 1..Len(events), to : SUBSET Streams, on : Streams]
      /\ writer[w].id \in 1..Len(events) /\ events[writer[w].id].by = w /\ \A i \in 1..Len(events) : events[i].by = w => i <= writer[w].id
  BY <1>1, <1>2, WriterFacts
<1>4. /\ n \in [at : {"full", "again"}, id : 1..Len(events), to : SUBSET Streams, on : Streams]
      /\ n.at = "again" /\ n.id = writer[w].id /\ n.to = writer[w].to /\ n.on = s
  BY <1>3
<1> HIDE DEF n
<1>5. WriterOK(n, w, events)  BY <1>3, <1>4 DEF WriterOK, Busy
<1>6. \A x : (Behind(n, x) <=> Behind(writer[w], x)) /\ n.id = writer[w].id  BY <1>1, <1>4 DEF Behind
<1>7. CASE queue[s] = <<>>
  <2>1. queue' = queue /\ tail' = tail  BY <1>7 DEF DropOldest
  <2>2. QED  BY <2>1, <1>1, <1>5, <1>6, QueuesStay
<1>8. CASE queue[s] # <<>>
  <2>1. queue' = [queue EXCEPT ![s] = Tail(@)] /\ Escaped(s)  BY <1>8 DEF DropOldest
  <2>2. tail' \in {tail, [tail EXCEPT !.gap = TRUE]} /\ (s = page.source => tail'.gap)
    BY <2>1 DEF Escaped, LiveInv, TailTypes
  <2>3. /\ DOMAIN queue' = Streams /\ queue' = [x \in Streams |-> queue'[x]]
        /\ queue'[s] = Tail(queue[s]) /\ \A x \in Streams : x # s => queue'[x] = queue[x]
    BY <2>1, <1>3 DEF LiveInv, TailTypes
  <2>4. \A x \in Streams : QueueMoves(x)  BY <2>3, <1>8 DEF QueueMoves
  <2>5. queue[s] \in Seq(1..Len(events)) /\ Len(queue[s]) <= QueueMax /\ (stream[s] \notin Subscribed => queue[s] = <<>>)
    BY <1>3 DEF LiveInv, TailTypes, StreamsOK
  <2>6. Len(queue'[s]) <= QueueMax  BY <2>3, <2>5, <1>8, Shortened DEF LiveEventsAssumption
  <2>7. \A x \in Streams : Len(queue'[x]) <= QueueMax /\ (stream[x] \notin Subscribed => queue'[x] = <<>>)
    BY <2>3, <2>5, <2>6, <1>8 DEF LiveInv, StreamsOK
  <2>8. writer'[w] = n  BY <1>1 DEF LiveInv, TailTypes
  <2>9. ~ tail'.gap /\ page.source # NoStream => Kept(w)
    <3>1. SUFFICES ASSUME ~ tail'.gap, page.source # NoStream  PROVE Kept(w)  OBVIOUS
    <3>2. page.source \in Streams /\ page.source # s  BY <3>1, <2>2 DEF LiveInv, TailTypes
    <3>3. queue'[page.source] = queue[page.source]  BY <3>2, <2>3
    <3>4. QED  BY <3>3, <2>8, <1>6 DEF Kept
  <2>10. \E m : /\ writer' = [writer EXCEPT ![w] = m] /\ WriterOK(m, w, events)
                /\ \A x \in Streams : Behind(m, x) => Behind(writer[w], x) /\ m.id = writer[w].id
    BY <1>1, <1>5, <1>6
  <2>11. QED  BY <1>1, <2>2, <2>3, <2>4, <2>7, <2>9, <2>10 DEF Offers
<1>9. QED  BY <1>7, <1>8
--------------------------------------------------------------------------------
(* A sequence of ids is one of the ids of more events, too.                    *)
LEMMA WiderSeq ==
  ASSUME NEW m \in Nat, NEW q \in Seq(1..m)  PROVE q \in Seq(1..(m + 1))
<1>1. Len(q) \in Nat /\ q \in [1..Len(q) -> 1..m]  BY LenProperties
<1>2. q \in [1..Len(q) -> 1..(m + 1)]  BY <1>1
<1>3. QED  BY <1>1, <1>2

(* A writer draws a number larger than those it has used, or gives it up.      *)
LEMMA DrawOffers ==
  ASSUME LiveInv, NEW w \in Writers, Draw(w) \/ InsertFails(w)
  PROVE  Offers(w)
<1>1. /\ queue' = queue /\ events' = events /\ stream' = stream /\ page' = page /\ tail' = tail
      /\ writer[w] = Silent \/ writer[w].at = "insert"
  BY DEF Draw, InsertFails
<1>2. \A s : ~ Behind(writer[w], s)  BY <1>1 DEF Behind, Silent
<1>3. PICK n : /\ writer' = [writer EXCEPT ![w] = n] /\ WriterOK(n, w, events)
               /\ \A s : ~ Behind(n, s)
  <2>1. CASE Draw(w)
    <3>1. PICK nr \in 1..(Len(events) + 1) : IsNextSeq(nr) /\ writer' = [writer EXCEPT ![w] = [at |-> "insert", seq |-> nr]]
      BY <2>1 DEF Draw
    <3> DEFINE n == [at |-> "insert", seq |-> nr]
    <3>2. DOMAIN events = 1..Len(events) /\ nr \in Nat  BY DEF LiveInv, TailTypes
    <3>3. \A i \in 1..Len(events) : events[i].seq < nr  BY <3>1, <3>2 DEF IsNextSeq
    <3>4. n \in [at : {"insert"}, seq : Nat] /\ n.at = "insert" /\ n.seq = nr  BY <3>2
    <3> HIDE DEF n
    <3>5. WriterOK(n, w, events) /\ \A s : ~ Behind(n, s)  BY <3>3, <3>4 DEF WriterOK, Busy, Behind
    <3>6. QED  BY <3>1, <3>5 DEF n
  <2>2. CASE InsertFails(w)
    <3>1. WriterOK(Silent, w, events) /\ \A s : ~ Behind(Silent, s)  BY DEF WriterOK, Busy, Behind, Silent
    <3>2. QED  BY <2>2, <3>1 DEF InsertFails
  <2>3. QED  BY <2>1, <2>2
<1>4. QED  BY <1>1, <1>2, <1>3, QueuesStay

(* A writer commits a row: it comes, for the writer has it in hand.            *)
LEMMA InsertKeeps ==
  ASSUME LiveEventsAssumption, LiveInv, NEW w \in Writers, Insert(w)
  PROVE  LiveInv'
<1> DEFINE m == Len(events)
           n == [at |-> "publish", id |-> m + 1]
<1>0. PICK at \in Times : events' = Append(events, [by |-> w, at |-> at, seq |-> writer[w].seq])
  BY DEF Insert
<1> DEFINE row == [by |-> w, at |-> at, seq |-> writer[w].seq]
<1>1. /\ writer[w].at = "insert" /\ events' = Append(events, row) /\ writer' = [writer EXCEPT ![w] = n]
      /\ stream' = stream /\ queue' = queue /\ page' = page /\ tail' = tail
  BY <1>0 DEF Insert
<1>20. writer[w] \in [at : {"insert"}, seq : Nat] /\ \A i \in 1..m : events[i].by = w => events[i].seq < writer[w].seq
  <2>1. WriterOK(writer[w], w, events)  BY DEF LiveInv, TailTypes
  <2>2. QED  BY <2>1, <1>1 DEF WriterOK, Silent
<1>21. row \in LiveEvent /\ row.by = w /\ row.seq = writer[w].seq
  BY <1>20 DEF LiveEvent
<1> HIDE DEF row
<1>2. /\ events \in Seq(LiveEvent) /\ m \in Nat /\ events' \in Seq(LiveEvent) /\ Len(events') = m + 1
      /\ \A i \in 1..m : events'[i] = events[i]
      /\ events'[m + 1].by = w /\ events'[m + 1].seq = writer[w].seq
  <2>1. events \in Seq(LiveEvent)  BY DEF LiveInv, TailTypes
  <2>2. QED  BY <2>1, <1>1, <1>21, Appended
<1>3. /\ DOMAIN writer' = Writers /\ writer' = [v \in Writers |-> writer'[v]]
      /\ \A v \in Writers : writer'[v] = IF v = w THEN n ELSE writer[v]
  <2>1. DOMAIN writer = Writers  BY DEF LiveInv, TailTypes
  <2>2. writer' = [v \in Writers |-> IF v = w THEN n ELSE writer[v]]  BY <2>1, <1>1
  <2>3. QED  BY <2>2
<1>4. /\ n \in [at : {"publish"}, id : 1..(m + 1)] /\ n.id = m + 1 /\ n.at = "publish" /\ Busy(n) /\ \A s : Behind(n, s)
  BY <1>2 DEF Busy, Behind
<1> HIDE DEF n, m
<1>5. 1..m \subseteq 1..(m + 1)  BY <1>2
<1>6. TailTypes'
  <2>9. \A q \in Seq(1..m) : q \in Seq(1..(m + 1))  BY <1>2, WiderSeq
  <2>1. \A v \in Writers : WriterOK(writer'[v], v, events')
    <3>1. SUFFICES ASSUME NEW v \in Writers  PROVE WriterOK(writer'[v], v, events')  OBVIOUS
    <3>2. CASE v = w
      <4>1. \A i \in 1..(m + 1) : i <= m + 1  BY <1>2
      <4>2. QED  BY <4>1, <3>2, <1>2, <1>3, <1>4 DEF WriterOK, Busy
    <3>3. CASE v # w
      <4>1. WriterOK(writer[v], v, events) /\ writer'[v] = writer[v]  BY <3>3, <1>3 DEF LiveInv, TailTypes
      <4>2. CASE writer[v] = Silent  BY <4>1, <4>2 DEF WriterOK, Busy, Silent
      <4>5. CASE writer[v].at = "insert"
        <5>1. writer[v] \in [at : {"insert"}, seq : Nat] /\ \A i \in 1..m : events[i].by = v => events[i].seq < writer[v].seq
          BY <4>1, <4>5 DEF WriterOK, Silent, m
        <5>2. \A i \in 1..(m + 1) : events'[i].by = v => i \in 1..m /\ events'[i] = events[i]
          BY <3>3, <1>2
        <5>3. \A i \in 1..(m + 1) : events'[i].by = v => events'[i].seq < writer[v].seq
          BY <5>1, <5>2
        <5>4. QED  BY <5>1, <5>3, <4>1, <4>5, <1>2 DEF WriterOK, Busy
      <4>3. CASE Busy(writer[v])
        <5>1. /\ writer[v].id \in 1..m /\ events[writer[v].id].by = v /\ \A i \in 1..m : events[i].by = v => i <= writer[v].id
          BY <4>1, <4>3, WriterFacts DEF m
        <5>2. events'[writer[v].id].by = v /\ \A i \in 1..(m + 1) : events'[i].by = v => i <= writer[v].id
          BY <5>1, <3>3, <1>2
        <5>3. \/ writer[v] \in [at : {"publish"}, id : 1..(m + 1)]
              \/ writer[v] \in [at : {"offer"}, id : 1..(m + 1), to : SUBSET Streams]
              \/ writer[v] \in [at : {"full", "again"}, id : 1..(m + 1), to : SUBSET Streams, on : Streams]
                 /\ writer[v].on \in writer[v].to
          BY <4>1, <4>3, <1>5 DEF WriterOK, Busy, Silent, m
        <5>4. QED  BY <5>2, <5>3, <4>1, <4>3, <1>2 DEF WriterOK, Busy
      <4>4. QED  BY <4>1, <4>2, <4>3, <4>5 DEF WriterOK, Busy
    <3>4. QED  BY <3>2, <3>3
  <2>3. queue' \in [Streams -> Seq(1..(m + 1))]
    BY <2>9, <1>1 DEF LiveInv, TailTypes, m
  <2>4. tail' \in [fetch : {"no", "asked", "read", "done", "failed"}, read : Seq(1..(m + 1)),
                   seen : SUBSET (1..(m + 1)), shown : Seq(1..(m + 1)), gap : BOOLEAN]
    BY <2>9, <1>1, <1>5 DEF LiveInv, TailTypes, m
  <2>5. /\ stream \in [Streams -> Subscribed \cup {"free"}]
        /\ page \in [mounted : SUBSET Components, source : Streams \cup {NoStream}, mounts : Nat, breaks : Nat]
    BY DEF LiveInv, TailTypes
  <2>7. QED  BY <2>1, <2>3, <2>4, <2>5, <1>1, <1>2, <1>3 DEF TailTypes
<1>70. StreamsOK'  BY <1>1 DEF LiveInv, StreamsOK
<1>8. \A q \in Seq(1..m) : \A j \in DOMAIN q : q[j] \in 1..m /\ events[q[j]].by \in Writers /\ events'[q[j]] = events[q[j]]
  BY <1>2, RowFacts DEF m
<1>9. \A q \in Seq(1..m) : InOrder(q, events) => InOrder(q, events')
  BY <1>8 DEF InOrder
<1>90. \A q \in Seq(1..m) : Told(q, events) => Told(q, events')
  BY <1>8 DEF Told
<1>7. PageOK'
  <2>1. tail.read \in Seq(1..m)  BY DEF LiveInv, TailTypes, m
  <2>2. Told(tail.read, events')  BY <2>1, <1>90 DEF LiveInv, PageOK
  <2>3. QED  BY <2>2, <1>1 DEF LiveInv, PageOK
<1>91. SeqsGrow'
  <2>1. SUFFICES ASSUME NEW i \in 1..(m + 1), NEW j \in 1..(m + 1), i < j, events'[i].by = events'[j].by
                 PROVE  events'[i].seq < events'[j].seq
    BY <1>2 DEF SeqsGrow
  <2>2. i \in 1..m  BY <2>1, <1>2
  <2>3. CASE j \in 1..m  BY <2>1, <2>2, <2>3, <1>2 DEF LiveInv, SeqsGrow, m
  <2>4. CASE j = m + 1
    <3>1. events[i].by = w  BY <2>1, <2>2, <2>4, <1>2
    <3>2. QED  BY <3>1, <2>2, <2>4, <1>2, <1>20 DEF m
  <2>5. QED  BY <2>3, <2>4, <1>2
<1>10. /\ \A s \in Streams : queue[s] \in Seq(1..m)
       /\ tail.shown \in Seq(1..m)
  BY DEF LiveInv, TailTypes, m
<1>11. QueuesInOrder'
  <2>1. SUFFICES ASSUME NEW s \in Streams  PROVE InOrder(queue[s], events') /\ Older(queue[s], events', writer', s)
    BY <1>1 DEF QueuesInOrder
  <2>2. queue[s] \in Seq(1..m) /\ InOrder(queue[s], events) /\ Older(queue[s], events, writer, s)
    BY <1>10 DEF LiveInv, QueuesInOrder
  <2>3. ASSUME NEW j \in DOMAIN queue[s], Behind(writer'[events'[queue[s][j]].by], s)
        PROVE  queue[s][j] < writer'[events'[queue[s][j]].by].id
    <3>1. /\ queue[s][j] \in 1..m /\ events[queue[s][j]].by \in Writers /\ events'[queue[s][j]] = events[queue[s][j]]
      BY <2>2, <1>8
    <3>2. CASE events[queue[s][j]].by = w  BY <3>1, <3>2, <1>2, <1>3, <1>4
    <3>3. CASE events[queue[s][j]].by # w  BY <3>1, <3>3, <2>2, <2>3, <1>3 DEF Older
    <3>4. QED  BY <3>2, <3>3
  <2>4. QED  BY <2>2, <2>3, <1>9 DEF Older
<1>12. ShownInOrder'
  <2>1. Told(tail.shown, events')  BY <1>90, <1>10 DEF LiveInv, ShownInOrder
  <2>2. ASSUME page.source # NoStream  PROVE Newer(queue[page.source], events', tail.seen, tail.shown)
    <3>1. Newer(queue[page.source], events, tail.seen, tail.shown)  BY <2>2 DEF LiveInv, ShownInOrder
    <3>2. queue[page.source] \in Seq(1..m)  BY <2>2, <1>10 DEF LiveInv, TailTypes
    <3>3. QED  BY <3>1, <3>2, <1>8, <1>10 DEF Newer
  <2>3. QED  BY <2>1, <2>2, <1>1 DEF ShownInOrder
<1>13. NothingEscaped'
  <2>1. SUFFICES ASSUME tail.fetch \in {"read", "done"}, ~ tail.gap
                 PROVE  page.source # NoStream /\ \A i \in 1..(m + 1) : events'[i].by \notin Remote => Coming(i)'
    BY <1>1, <1>2 DEF NothingEscaped
  <2>2. page.source # NoStream /\ \A i \in 1..m : events[i].by \notin Remote => Coming(i)
    BY <2>1 DEF LiveInv, NothingEscaped, m
  <2>3. SUFFICES ASSUME NEW i \in 1..(m + 1), events'[i].by \notin Remote  PROVE Coming(i)'
    BY <2>2
  <2>4. CASE i = m + 1
    <3>1. w \in Writers \ Remote /\ Behind(writer'[w], page.source) /\ writer'[w].id = i
      BY <2>3, <2>4, <1>2, <1>3, <1>4
    <3>2. QED  BY <3>1, <1>1 DEF Coming
  <2>5. CASE i \in 1..m
    <3>1. Coming(i)  BY <2>2, <2>3, <2>5, <1>2
    <3>2. ASSUME NEW v \in Writers \ Remote, Behind(writer[v], page.source)  PROVE writer'[v] = writer[v]
      BY <3>2, <1>1, <1>3, BehindIsBusy DEF Busy
    <3>3. QED  BY <3>1, <3>2, <1>1 DEF Coming
  <2>6. QED  BY <2>4, <2>5, <1>2
<1>14. QED  BY <1>6, <1>7, <1>70, <1>91, <1>11, <1>12, <1>13 DEF LiveInv
--------------------------------------------------------------------------------
(* The steps of the browser and of the streams leave rows and writers alone.   *)
LEMMA WritersStay ==
  ASSUME LiveInv, events' = events, writer' = writer, \A s \in Streams : QueueMoves(s),
         DOMAIN queue' = Streams, queue' = [s \in Streams |-> queue'[s]]
  PROVE  /\ \A w \in Writers : WriterOK(writer'[w], w, events')
         /\ queue' \in [Streams -> Seq(1..Len(events'))]
         /\ QueuesInOrder' /\ SeqsGrow'
<1>1. TailTypes /\ QueuesInOrder  BY DEF LiveInv
<1>2. \A w \in Writers : WriterOK(writer'[w], w, events')  BY <1>1 DEF TailTypes
<1>3. \A s \in Streams : queue'[s] \in Seq(1..Len(events))  BY <1>1, QueueTypes
<1>4. StaysBehind  BY DEF StaysBehind
<1>5. QueuesInOrder'  BY <1>1, <1>4, QueuesKeepOrder
<1>6. SeqsGrow'  BY DEF LiveInv, SeqsGrow
<1>7. QED  BY <1>2, <1>3, <1>5, <1>6

(* The types outlive a step of the browser.                                    *)
LEMMA TypesStay ==
  ASSUME TailTypes, events' = events, writer' = writer, queue' = queue,
         stream' = stream \/ stream' \in [Streams -> Subscribed \cup {"free"}],
         page' \in [mounted : SUBSET Components, source : Streams \cup {NoStream}, mounts : Nat, breaks : Nat],
         tail' \in [fetch : {"no", "asked", "read", "done", "failed"}, read : Seq(1..Len(events)),
                    seen : SUBSET (1..Len(events)), shown : Seq(1..Len(events)), gap : BOOLEAN]
  PROVE  TailTypes'
<1>1. events' \in Seq(LiveEvent)  BY DEF TailTypes
<1>2. DOMAIN writer' = Writers /\ (\A w \in Writers : WriterOK(writer'[w], w, events')) /\ writer' = [w \in Writers |-> writer'[w]]
  BY DEF TailTypes
<1>3. stream' \in [Streams -> Subscribed \cup {"free"}] /\ queue' \in [Streams -> Seq(1..Len(events'))]
  BY DEF TailTypes
<1>4. QED  BY <1>1, <1>2, <1>3 DEF TailTypes

(* A component is mounted.                                                     *)
LEMMA MountKeeps ==
  ASSUME LiveEventsAssumption, LiveInv, NEW c \in Components, Mount(c)
  PROVE  LiveInv'
<1>1. /\ events' = events /\ writer' = writer /\ stream' = stream /\ queue' = queue
      /\ page' = [page EXCEPT !.mounted = @ \cup {c}, !.mounts = IF c = "tail" THEN @ + 1 ELSE @]
      /\ tail' = IF c = "tail" THEN [Closed EXCEPT !.fetch = "asked"] ELSE tail
  BY DEF Mount
<1>2. /\ page \in [mounted : SUBSET Components, source : Streams \cup {NoStream}, mounts : Nat, breaks : Nat]
      /\ tail \in [fetch : {"no", "asked", "read", "done", "failed"}, read : Seq(1..Len(events)),
                   seen : SUBSET (1..Len(events)), shown : Seq(1..Len(events)), gap : BOOLEAN]
  BY DEF LiveInv, TailTypes
<1>3. /\ page' \in [mounted : SUBSET Components, source : Streams \cup {NoStream}, mounts : Nat, breaks : Nat]
      /\ page'.mounted = page.mounted \cup {c} /\ page'.source = page.source
  <2> DEFINE count == IF c = "tail" THEN page.mounts + 1 ELSE page.mounts
  <2>1. page' = [page EXCEPT !.mounted = page.mounted \cup {c}, !.mounts = count]  BY <1>1
  <2>2. count \in Nat  BY <1>2
  <2>3. page.mounted \cup {c} \in SUBSET Components  BY <1>2
  <2> HIDE DEF count
  <2>4. QED  BY <2>1, <2>2, <2>3, <1>2
<1> DEFINE a == [Closed EXCEPT !.fetch = "asked"]
<1>4. tail' = IF c = "tail" THEN a ELSE tail  BY <1>1
<1>5. a.fetch = "asked" /\ a.read = <<>> /\ a.seen = {} /\ a.shown = <<>> /\ a.gap = FALSE
  BY DEF Closed
<1>6. a \in [fetch : {"no", "asked", "read", "done", "failed"}, read : Seq(1..Len(events)),
             seen : SUBSET (1..Len(events)), shown : Seq(1..Len(events)), gap : BOOLEAN]
  BY EmptySeq DEF Closed
<1> HIDE DEF a
<1>7. TailTypes'
  <2>1. tail' \in [fetch : {"no", "asked", "read", "done", "failed"}, read : Seq(1..Len(events)),
                   seen : SUBSET (1..Len(events)), shown : Seq(1..Len(events)), gap : BOOLEAN]
    BY <1>2, <1>4, <1>6
  <2>2. QED  BY <2>1, <1>1, <1>2, <1>3, TypesStay DEF LiveInv
<1>8. StreamsOK'  BY <1>1, <1>3 DEF LiveInv, StreamsOK
<1>9. Range(<<>>) = {} /\ DOMAIN <<>> = {}  BY DEF Range
<1>10. PageOK'
  <2>1. CASE c = "tail"  BY <2>1, <1>3, <1>4, <1>5, <1>9 DEF PageOK, Told, Downward
  <2>2. CASE c # "tail"  BY <2>2, <1>1, <1>3, <1>4 DEF LiveInv, PageOK
  <2>3. QED  BY <2>1, <2>2
<1>11. QueuesInOrder' /\ SeqsGrow'  BY <1>1 DEF LiveInv, QueuesInOrder, SeqsGrow
<1>12. ShownInOrder'
  <2>1. CASE c = "tail"  BY <2>1, <1>4, <1>5, <1>9 DEF ShownInOrder, Told, Newer
  <2>2. CASE c # "tail"  BY <2>2, <1>1, <1>3, <1>4 DEF LiveInv, ShownInOrder
  <2>3. QED  BY <2>1, <2>2
<1>13. NothingEscaped'
  <2>1. CASE c = "tail"  BY <2>1, <1>4, <1>5 DEF NothingEscaped
  <2>2. CASE c # "tail"  BY <2>2, <1>1, <1>3, <1>4 DEF LiveInv, NothingEscaped, Coming
  <2>3. QED  BY <2>1, <2>2
<1>14. QED  BY <1>7, <1>8, <1>10, <1>11, <1>12, <1>13 DEF LiveInv

(* A component is unmounted; the last one closes the stream.                   *)
LEMMA UnmountKeeps ==
  ASSUME LiveEventsAssumption, LiveInv, NEW c \in Components, Unmount(c)
  PROVE  LiveInv'
<1> DEFINE last == page.mounted = {c}
<1>1. /\ events' = events /\ writer' = writer /\ queue' = queue /\ c \in page.mounted
      /\ page' = [page EXCEPT !.mounted = @ \ {c}, !.source = IF last THEN NoStream ELSE @]
      /\ stream' = IF last THEN Left(page.source) ELSE stream
      /\ tail' = IF c = "tail" THEN Closed ELSE tail
  BY DEF Unmount
<1>2. /\ page \in [mounted : SUBSET Components, source : Streams \cup {NoStream}, mounts : Nat, breaks : Nat]
      /\ tail \in [fetch : {"no", "asked", "read", "done", "failed"}, read : Seq(1..Len(events)),
                   seen : SUBSET (1..Len(events)), shown : Seq(1..Len(events)), gap : BOOLEAN]
      /\ stream \in [Streams -> Subscribed \cup {"free"}]
  BY DEF LiveInv, TailTypes
<1>3. /\ page' \in [mounted : SUBSET Components, source : Streams \cup {NoStream}, mounts : Nat, breaks : Nat]
      /\ page'.mounted = page.mounted \ {c} /\ page'.source = IF last THEN NoStream ELSE page.source
  BY <1>1, <1>2
<1>4. /\ Closed.fetch = "no" /\ Closed.read = <<>> /\ Closed.seen = {} /\ Closed.shown = <<>> /\ Closed.gap = FALSE
      /\ Closed \in [fetch : {"no", "asked", "read", "done", "failed"}, read : Seq(1..Len(events)),
                     seen : SUBSET (1..Len(events)), shown : Seq(1..Len(events)), gap : BOOLEAN]
  BY EmptySeq DEF Closed
<1>5. /\ stream' \in [Streams -> Subscribed \cup {"free"}]
      /\ \A s \in Streams : IF last /\ s = page.source THEN stream[s] = "open" /\ stream'[s] = "left"
                                                       ELSE stream'[s] = stream[s]
  BY <1>1, <1>2 DEF Left, Subscribed, LiveInv, StreamsOK
<1>6. TailTypes'
  <2>1. tail' \in [fetch : {"no", "asked", "read", "done", "failed"}, read : Seq(1..Len(events)),
                   seen : SUBSET (1..Len(events)), shown : Seq(1..Len(events)), gap : BOOLEAN]
    BY <1>1, <1>2, <1>4
  <2>2. QED  BY <2>1, <1>1, <1>3, <1>5, TypesStay DEF LiveInv
<1>7. StreamsOK'
  <2>1. NoStream \notin Streams  BY DEF LiveEventsAssumption
  <2>2. QED  BY <2>1, <1>1, <1>3, <1>5 DEF LiveInv, StreamsOK, Subscribed
<1>8. Range(<<>>) = {} /\ DOMAIN <<>> = {}  BY DEF Range
<1>9. page'.mounted = {} => last  BY <1>1, <1>3
<1>10. PageOK'
  <2>1. CASE c = "tail"  BY <2>1, <1>1, <1>3, <1>4, <1>8, <1>9 DEF PageOK, Told, Downward
  <2>2. CASE c # "tail"  BY <2>2, <1>1, <1>3, <1>9 DEF LiveInv, PageOK
  <2>3. QED  BY <2>1, <2>2
<1>11. QueuesInOrder' /\ SeqsGrow'  BY <1>1 DEF LiveInv, QueuesInOrder, SeqsGrow
<1>12. ShownInOrder'
  <2>1. CASE c = "tail"  BY <2>1, <1>1, <1>4, <1>8 DEF ShownInOrder, Told, Newer
  <2>2. CASE c # "tail"  BY <2>2, <1>1, <1>3 DEF LiveInv, ShownInOrder
  <2>3. QED  BY <2>1, <2>2
<1>13. NothingEscaped'
  <2>1. CASE c = "tail"  BY <2>1, <1>1, <1>4 DEF NothingEscaped
  <2>2. CASE c # "tail" /\ last
    <3>1. tail.fetch = "no"  BY <2>2 DEF LiveInv, PageOK
    <3>2. QED  BY <3>1, <2>2, <1>1 DEF NothingEscaped
  <2>3. CASE c # "tail" /\ ~ last  BY <2>3, <1>1, <1>3 DEF LiveInv, NothingEscaped, Coming
  <2>4. QED  BY <2>1, <2>2, <2>3
<1>14. QED  BY <1>6, <1>7, <1>10, <1>11, <1>12, <1>13 DEF LiveInv
(* A stream begins, with an empty queue.                                       *)
LEMMA ConnectKeeps ==
  ASSUME LiveEventsAssumption, LiveInv, NEW s \in Streams, Connect(s)
  PROVE  LiveInv'
<1>1. /\ events' = events /\ writer' = writer /\ queue' = queue /\ tail' = tail
      /\ page.mounted # {} /\ page.source = NoStream /\ stream[s] = "free"
      /\ stream' = [stream EXCEPT ![s] = "open"] /\ page' = [page EXCEPT !.source = s]
  BY DEF Connect
<1>2. /\ page \in [mounted : SUBSET Components, source : Streams \cup {NoStream}, mounts : Nat, breaks : Nat]
      /\ tail \in [fetch : {"no", "asked", "read", "done", "failed"}, read : Seq(1..Len(events)),
                   seen : SUBSET (1..Len(events)), shown : Seq(1..Len(events)), gap : BOOLEAN]
      /\ stream \in [Streams -> Subscribed \cup {"free"}]
  BY DEF LiveInv, TailTypes
<1>3. /\ page' \in [mounted : SUBSET Components, source : Streams \cup {NoStream}, mounts : Nat, breaks : Nat]
      /\ page'.mounted = page.mounted /\ page'.source = s
  BY <1>1, <1>2
<1>4. /\ stream' \in [Streams -> Subscribed \cup {"free"}]
      /\ stream'[s] = "open" /\ \A x \in Streams : x # s => stream'[x] = stream[x]
  BY <1>1, <1>2 DEF Subscribed
<1>5. TailTypes'  BY <1>1, <1>2, <1>3, <1>4, TypesStay DEF LiveInv
<1>6. queue[s] = <<>>  BY <1>1 DEF LiveInv, StreamsOK, Subscribed
<1>7. StreamsOK'
  <2>1. \A x \in Streams : stream[x] # "open"  BY <1>1 DEF LiveInv, StreamsOK, LiveEventsAssumption
  <2>2. QED  BY <2>1, <1>1, <1>3, <1>4, <1>6 DEF LiveInv, StreamsOK
<1>8. PageOK'  BY <1>1, <1>3 DEF LiveInv, PageOK
<1>9. QueuesInOrder' /\ SeqsGrow'  BY <1>1 DEF LiveInv, QueuesInOrder, SeqsGrow
<1>10. ShownInOrder'  BY <1>1, <1>3, <1>6 DEF LiveInv, ShownInOrder, Newer
<1>11. NothingEscaped'  BY <1>1 DEF LiveInv, NothingEscaped
<1>12. QED  BY <1>5, <1>7, <1>8, <1>9, <1>10, <1>11 DEF LiveInv

(* A connection breaks, and what is published before the next escapes the tail.*)
LEMMA BreakKeeps ==
  ASSUME LiveEventsAssumption, LiveInv, Break
  PROVE  LiveInv'
<1> DEFINE s == page.source
<1>1. /\ events' = events /\ writer' = writer /\ queue' = queue /\ s # NoStream
      /\ stream' = [stream EXCEPT ![s] = "left"] /\ page' = [page EXCEPT !.source = NoStream, !.breaks = @ + 1]
      /\ tail' = [tail EXCEPT !.gap = @ \/ s = page.source]
  BY DEF Break, Left, Escaped
<1>2. /\ page \in [mounted : SUBSET Components, source : Streams \cup {NoStream}, mounts : Nat, breaks : Nat]
      /\ tail \in [fetch : {"no", "asked", "read", "done", "failed"}, read : Seq(1..Len(events)),
                   seen : SUBSET (1..Len(events)), shown : Seq(1..Len(events)), gap : BOOLEAN]
      /\ stream \in [Streams -> Subscribed \cup {"free"}]
  BY DEF LiveInv, TailTypes
<1>3. /\ page' \in [mounted : SUBSET Components, source : Streams \cup {NoStream}, mounts : Nat, breaks : Nat]
      /\ page'.mounted = page.mounted /\ page'.source = NoStream
  <2> DEFINE count == page.breaks + 1
  <2>1. page' = [page EXCEPT !.source = NoStream, !.breaks = count] /\ count \in Nat  BY <1>1, <1>2
  <2> HIDE DEF count
  <2>2. QED  BY <2>1, <1>2
<1>4. /\ tail' \in [fetch : {"no", "asked", "read", "done", "failed"}, read : Seq(1..Len(events)),
                   seen : SUBSET (1..Len(events)), shown : Seq(1..Len(events)), gap : BOOLEAN]
      /\ tail'.fetch = tail.fetch /\ tail'.read = tail.read /\ tail'.seen = tail.seen /\ tail'.shown = tail.shown
      /\ tail'.gap
  BY <1>1, <1>2
<1>5. s \in Streams /\ stream[s] = "open"  BY <1>1, <1>2 DEF LiveInv, StreamsOK
<1>6. /\ stream' \in [Streams -> Subscribed \cup {"free"}]
      /\ stream'[s] = "left" /\ \A x \in Streams : x # s => stream'[x] = stream[x]
  BY <1>1, <1>2, <1>5 DEF Subscribed
<1>7. TailTypes'  BY <1>1, <1>3, <1>4, <1>6, TypesStay DEF LiveInv
<1>8. StreamsOK'
  <2>1. NoStream \notin Streams  BY DEF LiveEventsAssumption
  <2>2. \A x \in Streams : x # s => stream[x] # "open"  BY DEF LiveInv, StreamsOK
  <2>3. QED  BY <2>1, <2>2, <1>1, <1>3, <1>5, <1>6 DEF LiveInv, StreamsOK, Subscribed
<1>9. PageOK'  BY <1>1, <1>3, <1>4 DEF LiveInv, PageOK
<1>10. QueuesInOrder' /\ SeqsGrow'  BY <1>1 DEF LiveInv, QueuesInOrder, SeqsGrow
<1>11. ShownInOrder'  BY <1>1, <1>3, <1>4 DEF LiveInv, ShownInOrder
<1>12. NothingEscaped'  BY <1>4 DEF NothingEscaped
<1>13. QED  BY <1>7, <1>8, <1>9, <1>10, <1>11, <1>12 DEF LiveInv
--------------------------------------------------------------------------------
(* The fetch of the tail.                                                      *)

(* Nothing but the tail changes.                                               *)
LEMMA TailKeeps ==
  ASSUME LiveInv, events' = events, writer' = writer, stream' = stream, queue' = queue, page' = page,
         tail' \in [fetch : {"no", "asked", "read", "done", "failed"}, read : Seq(1..Len(events)),
                    seen : SUBSET (1..Len(events)), shown : Seq(1..Len(events)), gap : BOOLEAN],
         PageOK', ShownInOrder', NothingEscaped'
  PROVE  LiveInv'
<1>1. TailTypes'  BY TypesStay DEF LiveInv, TailTypes
<1>2. StreamsOK' /\ QueuesInOrder' /\ SeqsGrow'  BY DEF LiveInv, StreamsOK, QueuesInOrder, SeqsGrow
<1>3. QED  BY <1>1, <1>2 DEF LiveInv

(* The rows by time and seq tell the run, for the seqs of a writer grow.       *)
LEMMA ListedIsTold ==
  ASSUME LiveEventsAssumption, SeqsGrow, events \in Seq(LiveEvent),
         NEW list \in Bijection(DOMAIN events, DOMAIN events), ByTime(list)
  PROVE  Told(list, events) /\ Downward(list) /\ list \in Seq(1..Len(events)) /\ Range(list) = 1..Len(events)
<1>1. /\ DOMAIN events = 1..Len(events) /\ Len(events) \in Nat /\ list \in [1..Len(events) -> 1..Len(events)]
      /\ \A i \in 1..Len(events) : events[i] \in LiveEvent
  BY DEF Bijection, Injection
<1>2. \A i, j \in 1..Len(events) : list[i] = list[j] => i = j
  BY <1>1 DEF Bijection, Injection, IsInjective
<1>3. Range(list) = 1..Len(events)
  BY <1>1 DEF Bijection, Surjection, Range
<1>4. ASSUME NEW i \in DOMAIN list, NEW j \in DOMAIN list, i < j
      PROVE  list[i] # list[j] /\ (events[list[i]].by = events[list[j]].by /\ list[j] < list[i]
                                     => events[list[i]].at < events[list[j]].at)
  <2>1. i \in 1..Len(events) /\ j \in 1..Len(events) /\ list[i] \in 1..Len(events) /\ list[j] \in 1..Len(events)
    BY <1>1
  <2>2. list[i] # list[j]  BY <2>1, <1>2, <1>4
  <2>3. ASSUME events[list[i]].by = events[list[j]].by, list[j] < list[i]
        PROVE  events[list[i]].at < events[list[j]].at
    <3>1. events[list[j]].seq < events[list[i]].seq  BY <2>1, <2>3 DEF SeqsGrow
    <3>2. ~ Before(events[list[j]], events[list[i]])  BY <1>4 DEF ByTime
    <3>3. events[list[i]].at \in Nat /\ events[list[j]].at \in Nat
      BY <2>1, <1>1 DEF LiveEvent, LiveEventsAssumption
    <3>4. QED  BY <3>1, <3>2, <3>3 DEF Before
  <2>4. QED  BY <2>2, <2>3
<1>5. Told(list, events)  BY <1>4 DEF Told
<1>6. Downward(list)
  <2>1. \A i \in DOMAIN list : 1..list[i] \subseteq 1..Len(events)  BY <1>1
  <2>2. QED  BY <2>1, <1>3 DEF Downward
<1>7. list \in Seq(1..Len(events))  BY <1>1
<1>8. QED  BY <1>3, <1>5, <1>6, <1>7

(* The list are read: nothing before the reading is missed.                    *)
LEMMA FetchReadKeeps ==
  ASSUME LiveEventsAssumption, LiveInv, FetchRead
  PROVE  LiveInv'
<1>0. PICK ids \in Bijection(DOMAIN events, DOMAIN events) :
        ByTime(ids) /\ tail' = [tail EXCEPT !.fetch = "read", !.read = ids, !.gap = @ \/ page.source = NoStream]
  BY DEF FetchRead
<1>1. /\ events' = events /\ writer' = writer /\ stream' = stream /\ queue' = queue /\ page' = page /\ tail.fetch = "asked"
      /\ tail' = [tail EXCEPT !.fetch = "read", !.read = ids, !.gap = @ \/ page.source = NoStream]
  BY <1>0 DEF FetchRead
<1>2. /\ events \in Seq(LiveEvent)
      /\ tail \in [fetch : {"no", "asked", "read", "done", "failed"}, read : Seq(1..Len(events)),
                   seen : SUBSET (1..Len(events)), shown : Seq(1..Len(events)), gap : BOOLEAN]
  BY DEF LiveInv, TailTypes
<1>3. ids \in Seq(1..Len(events)) /\ Told(ids, events) /\ Downward(ids)
  BY <1>0, <1>2, ListedIsTold DEF LiveInv
<1>4. Range(ids) = 1..Len(events)
  BY <1>0, <1>2, ListedIsTold DEF LiveInv
<1>5. /\ tail' \in [fetch : {"no", "asked", "read", "done", "failed"}, read : Seq(1..Len(events)),
                   seen : SUBSET (1..Len(events)), shown : Seq(1..Len(events)), gap : BOOLEAN]
      /\ tail'.fetch = "read" /\ tail'.read = ids /\ tail'.seen = tail.seen /\ tail'.shown = tail.shown
      /\ ~ tail'.gap => ~ tail.gap /\ page.source # NoStream
  BY <1>1, <1>2, <1>3
<1>6. PageOK'  BY <1>1, <1>3, <1>5 DEF LiveInv, PageOK
<1>7. ShownInOrder'  BY <1>1, <1>5 DEF LiveInv, ShownInOrder
<1>8. NothingEscaped'  BY <1>1, <1>4, <1>5 DEF NothingEscaped, Coming
<1>9. QED  BY <1>1, <1>5, <1>6, <1>7, <1>8, TailKeeps

(* The fetch fails, and the tail promises nothing.                             *)
LEMMA FetchFailsKeeps ==
  ASSUME LiveEventsAssumption, LiveInv, FetchFails
  PROVE  LiveInv'
<1>1. /\ events' = events /\ writer' = writer /\ stream' = stream /\ queue' = queue /\ page' = page
      /\ tail.fetch \in {"asked", "read"}
      /\ tail' = [tail EXCEPT !.fetch = "failed", !.read = <<>>]
  BY DEF FetchFails
<1>2. tail \in [fetch : {"no", "asked", "read", "done", "failed"}, read : Seq(1..Len(events)),
                   seen : SUBSET (1..Len(events)), shown : Seq(1..Len(events)), gap : BOOLEAN]
  BY DEF LiveInv, TailTypes
<1>3. <<>> \in Seq(1..Len(events)) /\ DOMAIN <<>> = {} /\ Told(<<>>, events) /\ Downward(<<>>)
  BY EmptySeq DEF Told, Downward
<1>4. /\ tail' \in [fetch : {"no", "asked", "read", "done", "failed"}, read : Seq(1..Len(events)),
                   seen : SUBSET (1..Len(events)), shown : Seq(1..Len(events)), gap : BOOLEAN]
      /\ tail'.fetch = "failed" /\ tail'.read = <<>> /\ tail'.seen = tail.seen /\ tail'.shown = tail.shown
      /\ tail'.gap = tail.gap
  BY <1>1, <1>2, <1>3
<1>5. PageOK'  BY <1>1, <1>3, <1>4 DEF LiveInv, PageOK
<1>6. ShownInOrder'  BY <1>1, <1>4 DEF LiveInv, ShownInOrder
<1>7. NothingEscaped'  BY <1>4 DEF NothingEscaped
<1>8. QED  BY <1>1, <1>4, <1>5, <1>6, <1>7, TailKeeps

(* The answer replaces what is shown: an event that was shown and is not in the*)
(* answer has escaped, and every other one is in the answer.                   *)
LEMMA FetchReturnKeepsInv ==
  ASSUME LiveEventsAssumption, LiveInv, FetchReturn
  PROVE  LiveInv'
<1> DEFINE got == tail.read
<1>1. /\ events' = events /\ writer' = writer /\ stream' = stream /\ queue' = queue /\ page' = page /\ tail.fetch = "read"
      /\ tail' = [tail EXCEPT !.fetch = "done", !.seen = @ \cup Range(got), !.read = <<>>,
                              !.shown = got, !.gap = @ \/ ~ (Range(tail.shown) \subseteq Range(got))]
  BY DEF FetchReturn
<1>2. /\ events \in Seq(LiveEvent) /\ Len(events) \in Nat
      /\ tail \in [fetch : {"no", "asked", "read", "done", "failed"}, read : Seq(1..Len(events)),
                   seen : SUBSET (1..Len(events)), shown : Seq(1..Len(events)), gap : BOOLEAN]
  BY DEF LiveInv, TailTypes
<1>3. <<>> \in Seq(1..Len(events)) /\ DOMAIN <<>> = {} /\ Told(<<>>, events) /\ Downward(<<>>)
  BY EmptySeq DEF Told, Downward
<1>4. Told(got, events) /\ Downward(got) /\ \A i \in DOMAIN got : got[i] \in 1..Len(events)
  BY <1>2 DEF LiveInv, PageOK
<1>5. Range(got) \subseteq 1..Len(events)  BY <1>2 DEF Range
<1>6. /\ tail' \in [fetch : {"no", "asked", "read", "done", "failed"}, read : Seq(1..Len(events)),
                   seen : SUBSET (1..Len(events)), shown : Seq(1..Len(events)), gap : BOOLEAN]
      /\ tail'.fetch = "done" /\ tail'.read = <<>> /\ tail'.seen = tail.seen \cup Range(got) /\ tail'.shown = got
      /\ ~ tail'.gap => ~ tail.gap /\ Range(tail.shown) \subseteq Range(got)
  <2>1. got \in Seq(1..Len(events))  BY <1>2
  <2> HIDE DEF got
  <2> DEFINE seen == tail.seen \cup Range(got)
  <2> DEFINE gap == tail.gap \/ ~ (Range(tail.shown) \subseteq Range(got))
  <2>2. seen \in SUBSET (1..Len(events)) /\ gap \in BOOLEAN  BY <1>2, <1>5
  <2>3. tail' = [tail EXCEPT !.fetch = "done", !.seen = seen, !.read = <<>>, !.shown = got, !.gap = gap]  BY <1>1
  <2>4. ~ gap => ~ tail.gap /\ Range(tail.shown) \subseteq Range(got)  OBVIOUS
  <2> HIDE DEF seen, gap
  <2>5. /\ tail' \in [fetch : {"no", "asked", "read", "done", "failed"}, read : Seq(1..Len(events)),
                      seen : SUBSET (1..Len(events)), shown : Seq(1..Len(events)), gap : BOOLEAN]
        /\ tail'.fetch = "done" /\ tail'.read = <<>> /\ tail'.seen = seen /\ tail'.shown = got /\ tail'.gap = gap
    BY <2>1, <2>2, <2>3, <1>2, <1>3
  <2>6. QED  BY <2>4, <2>5 DEF seen
<1>7. PageOK'
  <2>1. ~ tail.gap => tail.seen \subseteq Range(tail.shown)  BY DEF LiveInv, PageOK
  <2>2. "tail" \in page.mounted /\ (page.mounted = {} => page.source = NoStream)  BY <1>1 DEF LiveInv, PageOK
  <2>3. QED  BY <2>1, <2>2, <1>1, <1>3, <1>6 DEF PageOK
<1>8. ShownInOrder'
  <2>1. ASSUME page.source # NoStream, NEW j \in DOMAIN queue[page.source],
               queue[page.source][j] \notin tail.seen \cup Range(got), NEW i \in DOMAIN got
        PROVE  got[i] < queue[page.source][j]
    <3>1. queue[page.source] \in Seq(1..Len(events))  BY <2>1 DEF LiveInv, TailTypes
    <3>2. queue[page.source][j] \in 1..Len(events)  BY <3>1
    <3>3. queue[page.source][j] \notin 1..got[i]  BY <2>1, <1>4 DEF Downward
    <3>4. QED  BY <3>2, <3>3, <2>1, <1>2, <1>4
  <2>2. QED  BY <2>1, <1>1, <1>4, <1>6 DEF ShownInOrder, Newer
<1>9. NothingEscaped'
  <2>1. ASSUME ~ tail'.gap, NEW i \in 1..Len(events), events[i].by \notin Remote
        PROVE  Coming(i)'
    <3>1. Coming(i)  BY <2>1, <1>1, <1>6 DEF LiveInv, NothingEscaped
    <3>2. QED  BY <2>1, <3>1, <1>1, <1>6 DEF Coming
  <2>2. ~ tail'.gap => page.source # NoStream  BY <1>1, <1>6 DEF LiveInv, NothingEscaped
  <2>3. QED  BY <2>1, <2>2, <1>1 DEF NothingEscaped
<1> HIDE DEF got
<1>10. /\ events' = events /\ writer' = writer /\ stream' = stream /\ queue' = queue /\ page' = page
       /\ tail' \in [fetch : {"no", "asked", "read", "done", "failed"}, read : Seq(1..Len(events)),
                     seen : SUBSET (1..Len(events)), shown : Seq(1..Len(events)), gap : BOOLEAN]
  BY <1>1, <1>6
<1>11. QED  BY <1>7, <1>8, <1>9, <1>10, TailKeeps
--------------------------------------------------------------------------------
(* The stream's thread in the server.                                          *)
LEMMA DeliverKeeps ==
  ASSUME LiveEventsAssumption, LiveInv, NEW s \in Streams, Deliver(s)
  PROVE  LiveInv'
<1> DEFINE q == queue[s]
           id == Head(q)
           shows == "tail" \in page.mounted /\ id \notin tail.seen
           shown == Append(tail.shown, id)
           seen == tail.seen \cup {id}
<1>1. /\ events' = events /\ writer' = writer /\ stream' = stream /\ page' = page /\ stream[s] = "open" /\ q # <<>>
      /\ queue' = [queue EXCEPT ![s] = Tail(q)]
      /\ tail' = IF shows THEN [tail EXCEPT !.seen = seen, !.shown = shown] ELSE tail
  BY DEF Deliver
<1>2. /\ events \in Seq(LiveEvent) /\ Len(events) \in Nat /\ q \in Seq(1..Len(events))
      /\ tail \in [fetch : {"no", "asked", "read", "done", "failed"}, read : Seq(1..Len(events)),
                   seen : SUBSET (1..Len(events)), shown : Seq(1..Len(events)), gap : BOOLEAN]
      /\ queue \in [Streams -> Seq(1..Len(events))]
      /\ page \in [mounted : SUBSET Components, source : Streams \cup {NoStream}, mounts : Nat, breaks : Nat]
  BY DEF LiveInv, TailTypes
<1>3. s = page.source /\ s # NoStream  BY <1>1 DEF LiveInv, StreamsOK, LiveEventsAssumption
<1>4. /\ DOMAIN queue' = Streams /\ queue' = [x \in Streams |-> queue'[x]]
      /\ queue'[s] = Tail(q) /\ \A x \in Streams : x # s => queue'[x] = queue[x]
  BY <1>1, <1>2
<1> HIDE DEF q
<1>5. /\ Len(q) \in Nat \ {0} /\ DOMAIN q = 1..Len(q) /\ DOMAIN Tail(q) = 1..(Len(q) - 1) /\ Len(Tail(q)) = Len(q) - 1
      /\ id = q[1] /\ id \in 1..Len(events)
      /\ \A i \in 1..(Len(q) - 1) : Tail(q)[i] = q[i + 1]
      /\ Range(q) = {id} \cup Range(Tail(q))
  <2>1. q \in Seq(1..Len(events)) /\ q # <<>>  BY <1>1, <1>2
  <2>2. QED  BY <2>1, Shortened
<1> HIDE DEF id
<1>6. \A x \in Streams : QueueMoves(x)  BY <1>1, <1>4 DEF QueueMoves, q
<1>7. /\ \A w \in Writers : WriterOK(writer'[w], w, events')
      /\ queue' \in [Streams -> Seq(1..Len(events'))]
      /\ QueuesInOrder' /\ SeqsGrow'
  BY <1>1, <1>4, <1>6, WritersStay
<1>8. /\ shown \in Seq(1..Len(events)) /\ Range(shown) = Range(tail.shown) \cup {id}
      /\ DOMAIN tail.shown = 1..Len(tail.shown) /\ DOMAIN shown = 1..(Len(tail.shown) + 1) /\ Len(tail.shown) \in Nat
      /\ \A i \in 1..Len(tail.shown) : shown[i] = tail.shown[i]
      /\ shown[Len(tail.shown) + 1] = id
  BY <1>2, <1>5, Appended
<1>9. seen \in SUBSET (1..Len(events))  BY <1>2, <1>5
<1> HIDE DEF shown
<1>10. /\ tail' \in [fetch : {"no", "asked", "read", "done", "failed"}, read : Seq(1..Len(events)),
                    seen : SUBSET (1..Len(events)), shown : Seq(1..Len(events)), gap : BOOLEAN]
       /\ tail'.fetch = tail.fetch /\ tail'.read = tail.read /\ tail'.gap = tail.gap
       /\ tail'.seen = IF shows THEN seen ELSE tail.seen
       /\ tail'.shown = IF shows THEN shown ELSE tail.shown
  <2> HIDE DEF seen, shows
  <2>1. CASE shows  BY <2>1, <1>1, <1>2, <1>8, <1>9
  <2>2. CASE ~ shows  BY <2>2, <1>1, <1>2
  <2>3. QED  BY <2>1, <2>2
<1>11. TailTypes'
  <2>1. stream \in [Streams -> Subscribed \cup {"free"}]
        /\ DOMAIN writer = Writers /\ writer = [w \in Writers |-> writer[w]]
    BY DEF LiveInv, TailTypes
  <2>2. QED  BY <2>1, <1>1, <1>2, <1>7, <1>10 DEF TailTypes
<1>12. StreamsOK'
  <2>1. Len(q) <= QueueMax /\ (stream[s] \notin Subscribed => q = <<>>)  BY DEF LiveInv, StreamsOK, q
  <2>2. Len(Tail(q)) <= QueueMax  BY <2>1, <1>5 DEF LiveEventsAssumption
  <2>3. stream[s] \in Subscribed  BY <1>1 DEF Subscribed
  <2>4. QED  BY <2>2, <2>3, <1>1, <1>4 DEF LiveInv, StreamsOK
<1>13. PageOK'
  <2>1. Range(tail'.shown) \subseteq tail'.seen  BY <1>8, <1>10 DEF LiveInv, PageOK
  <2>2. ~ tail'.gap => tail'.seen \subseteq Range(tail'.shown)  BY <1>8, <1>10 DEF LiveInv, PageOK
  <2>3. QED  BY <2>1, <2>2, <1>1, <1>10 DEF LiveInv, PageOK
<1>14. Newer(q, events, tail.seen, tail.shown) /\ Told(tail.shown, events) /\ InOrder(q, events)
  BY <1>3 DEF LiveInv, ShownInOrder, QueuesInOrder, q
<1>15. Newer(Tail(q), events, tail.seen, tail.shown)  BY <1>1, <1>2, <1>14, NewerTail
<1>16. ASSUME shows  PROVE Told(shown, events)
  <2>1. \A i \in DOMAIN tail.shown : events[tail.shown[i]].by = events[id].by => tail.shown[i] < id
    BY <1>5, <1>14, <1>16 DEF Newer
  <2>2. tail.shown \in Seq(1..Len(events)) /\ id \notin Range(tail.shown)  BY <1>2, <1>16 DEF LiveInv, PageOK
  <2>3. QED  BY <2>1, <2>2, <1>2, <1>5, <1>14, ToldAppend DEF shown
<1>17. ASSUME shows  PROVE Newer(Tail(q), events, seen, shown)
  <2>1. SUFFICES ASSUME NEW j \in DOMAIN Tail(q), Tail(q)[j] \notin seen, NEW i \in DOMAIN shown,
                        events[shown[i]].by = events[Tail(q)[j]].by
                 PROVE  shown[i] < Tail(q)[j]
    BY DEF Newer
  <2>2. CASE i \in DOMAIN tail.shown  BY <2>1, <2>2, <1>8, <1>15 DEF Newer
  <2>3. CASE i = Len(tail.shown) + 1
    <3>1. Tail(q)[j] = q[j + 1] /\ 1 \in DOMAIN q /\ j + 1 \in DOMAIN q /\ 1 < j + 1  BY <1>5
    <3>2. shown[i] = q[1]  BY <2>3, <1>5, <1>8
    <3>3. QED  BY <3>1, <3>2, <2>1, <1>14 DEF InOrder
  <2>4. QED  BY <2>2, <2>3, <1>8
<1>18. ShownInOrder'
  <2>1. CASE shows  BY <2>1, <1>1, <1>3, <1>4, <1>10, <1>16, <1>17 DEF ShownInOrder
  <2>2. CASE ~ shows  BY <2>2, <1>1, <1>3, <1>4, <1>10, <1>14, <1>15 DEF ShownInOrder
  <2>3. QED  BY <2>1, <2>2
<1>19. NothingEscaped'
  <2>1. SUFFICES ASSUME tail.fetch \in {"read", "done"}, ~ tail.gap, NEW i \in 1..Len(events), events[i].by \notin Remote
                 PROVE  Coming(i)'
    BY <1>1, <1>3, <1>10 DEF NothingEscaped
  <2>2. Coming(i)  BY <2>1 DEF LiveInv, NothingEscaped
  <2>3. "tail" \in page.mounted /\ tail.seen \subseteq Range(tail.shown)  BY <2>1 DEF LiveInv, PageOK
  <2>4. id \in Range(tail'.shown) /\ Range(tail.shown) \subseteq Range(tail'.shown)
    BY <2>3, <1>8, <1>10
  <2>5. CASE i \in Range(tail.read) \cup Range(tail.shown) \cup Range(queue[page.source])
    BY <2>4, <2>5, <1>1, <1>3, <1>4, <1>5, <1>10 DEF Coming, q
  <2>6. CASE \E w \in Writers \ Remote : Behind(writer[w], page.source) /\ writer[w].id = i
    BY <2>6, <1>1 DEF Coming
  <2>7. QED  BY <2>2, <2>5, <2>6 DEF Coming
<1>20. QED  BY <1>7, <1>11, <1>12, <1>13, <1>18, <1>19 DEF LiveInv

(* The stream of a client that has gone is not the one the page reads.         *)
LEMMA LeftKeeps ==
  ASSUME LiveEventsAssumption, LiveInv, NEW s \in Streams, stream[s] \in {"left", "failing"},
         events' = events, writer' = writer, page' = page, tail' = tail,
         NEW q, queue' = [queue EXCEPT ![s] = q], q = queue[s] \/ q = <<>> \/ (queue[s] # <<>> /\ q = Tail(queue[s])),
         NEW v \in {"failing", "free"}, stream' = [stream EXCEPT ![s] = v], v = "free" => q = <<>>
  PROVE  LiveInv'
<1>1. /\ queue \in [Streams -> Seq(1..Len(events))] /\ stream \in [Streams -> Subscribed \cup {"free"}]
      /\ events \in Seq(LiveEvent)
      /\ DOMAIN writer = Writers /\ writer = [w \in Writers |-> writer[w]]
      /\ page \in [mounted : SUBSET Components, source : Streams \cup {NoStream}, mounts : Nat, breaks : Nat]
      /\ tail \in [fetch : {"no", "asked", "read", "done", "failed"}, read : Seq(1..Len(events)),
                   seen : SUBSET (1..Len(events)), shown : Seq(1..Len(events)), gap : BOOLEAN]
  BY DEF LiveInv, TailTypes
<1>2. /\ DOMAIN queue' = Streams /\ queue' = [x \in Streams |-> queue'[x]]
      /\ queue'[s] = q /\ \A x \in Streams : x # s => queue'[x] = queue[x]
  BY <1>1
<1>3. /\ stream' \in [Streams -> Subscribed \cup {"free"}]
      /\ stream'[s] = v /\ \A x \in Streams : x # s => stream'[x] = stream[x]
  BY <1>1 DEF Subscribed
<1>4. s # page.source  BY DEF LiveInv, StreamsOK
<1>5. \A x \in Streams : QueueMoves(x)  BY <1>2 DEF QueueMoves
<1>6. /\ \A w \in Writers : WriterOK(writer'[w], w, events')
      /\ queue' \in [Streams -> Seq(1..Len(events'))]
      /\ QueuesInOrder' /\ SeqsGrow'
  BY <1>2, <1>5, WritersStay
<1>7. TailTypes'
  <2>1. events' \in Seq(LiveEvent) /\ DOMAIN writer' = Writers
        /\ writer' = [w \in Writers |-> writer'[w]]
    BY <1>1
  <2>2. /\ page' \in [mounted : SUBSET Components, source : Streams \cup {NoStream}, mounts : Nat, breaks : Nat]
        /\ tail' \in [fetch : {"no", "asked", "read", "done", "failed"}, read : Seq(1..Len(events')),
                       seen : SUBSET (1..Len(events')), shown : Seq(1..Len(events')), gap : BOOLEAN]
    BY <1>1
  <2>3. QED  BY <2>1, <2>2, <1>3, <1>6 DEF TailTypes
<1>8. Len(q) <= QueueMax
  <2>1. queue[s] \in Seq(1..Len(events)) /\ Len(queue[s]) <= QueueMax  BY <1>1 DEF LiveInv, StreamsOK
  <2>2. CASE q = queue[s]  BY <2>1, <2>2
  <2>3. CASE q = <<>>
    <3>1. Len(q) = 0  BY <2>3
    <3>2. 0 <= QueueMax  BY DEF LiveEventsAssumption
    <3>3. QED  BY <3>1, <3>2
  <2>4. CASE queue[s] # <<>> /\ q = Tail(queue[s])  BY <2>1, <2>4, Shortened DEF LiveEventsAssumption
  <2>5. QED  BY <2>2, <2>3, <2>4
<1>9. StreamsOK'  BY <1>2, <1>3, <1>4, <1>8 DEF LiveInv, StreamsOK, Subscribed
<1>10. PageOK'  BY DEF LiveInv, PageOK
<1>11. page.source # NoStream => queue'[page.source] = queue[page.source]  BY <1>1, <1>2, <1>4
<1>12. ShownInOrder'  BY <1>11 DEF LiveInv, ShownInOrder
<1>13. NothingEscaped'  BY <1>11 DEF LiveInv, NothingEscaped, Coming
<1>14. QED  BY <1>6, <1>7, <1>9, <1>10, <1>12, <1>13 DEF LiveInv

(* An event or a ping is written to a client that has gone.                    *)
LEMMA WriteToLeftKeeps ==
  ASSUME LiveEventsAssumption, LiveInv, NEW s \in Streams, WriteToLeft(s)
  PROVE  LiveInv'
<1>1. queue \in [Streams -> Seq(1..Len(events))]  BY DEF LiveInv, TailTypes
<1>2. CASE WriteTaken(s)
  <2> DEFINE q == IF queue[s] = <<>> THEN queue[s] ELSE Tail(queue[s])
  <2>1. queue' = [queue EXCEPT ![s] = q] /\ stream' = [stream EXCEPT ![s] = "failing"]
        /\ stream[s] = "left" /\ events' = events /\ writer' = writer /\ page' = page /\ tail' = tail
    BY <1>2 DEF WriteTaken
  <2>2. q = queue[s] \/ (queue[s] # <<>> /\ q = Tail(queue[s]))
    <3>1. CASE queue[s] = <<>>  BY <3>1
    <3>2. CASE queue[s] # <<>>  BY <3>2
    <3>3. QED  BY <3>1, <3>2
  <2> HIDE DEF q
  <2>3. QED  BY <2>1, <2>2, LeftKeeps
<1>3. CASE WriteFails(s)
  <2> DEFINE q == <<>>
             v == "free"
  <2>1. queue' = [queue EXCEPT ![s] = q] /\ stream' = [stream EXCEPT ![s] = v]
        /\ stream[s] \in {"left", "failing"} /\ events' = events /\ writer' = writer /\ page' = page /\ tail' = tail
    BY <1>3 DEF WriteFails
  <2>2. q = <<>> /\ v \in {"failing", "free"}  OBVIOUS
  <2> HIDE DEF q, v
  <2>3. QED  BY <2>1, <2>2, LeftKeeps
<1>4. QED  BY <1>2, <1>3 DEF WriteToLeft
--------------------------------------------------------------------------------
(* The invariant holds at first ...                                            *)
LEMMA LiveInvInit ==
  ASSUME LiveEventsAssumption, LiveInit
  PROVE  LiveInv
<1>1. /\ events = <<>> /\ writer = [w \in Writers |-> Silent]
      /\ stream = [s \in Streams |-> "free"] /\ queue = [s \in Streams |-> <<>>]
      /\ page = [mounted |-> {}, source |-> NoStream, mounts |-> 0, breaks |-> 0]
      /\ tail = [fetch |-> "no", read |-> <<>>, seen |-> {}, shown |-> <<>>, gap |-> FALSE]
  BY DEF LiveInit, Closed
<1>2. events \in Seq(LiveEvent) /\ Len(events) = 0 /\ <<>> \in Seq(1..Len(events)) /\ DOMAIN <<>> = {} /\ Len(<<>>) = 0
  BY <1>1, EmptySeq
<1>3. Range(<<>>) = {}  BY <1>2 DEF Range
<1>4. TailTypes
  <2>1. \A w \in Writers : WriterOK(writer[w], w, events)  BY <1>1 DEF WriterOK, Busy, Silent
  <2>2. /\ stream \in [Streams -> Subscribed \cup {"free"}]
        /\ queue \in [Streams -> Seq(1..Len(events))]
        /\ DOMAIN writer = Writers /\ writer = [w \in Writers |-> writer[w]]
    BY <1>1, <1>2
  <2>3. /\ page \in [mounted : SUBSET Components, source : Streams \cup {NoStream}, mounts : Nat, breaks : Nat]
        /\ tail \in [fetch : {"no", "asked", "read", "done", "failed"}, read : Seq(1..Len(events)),
                     seen : SUBSET (1..Len(events)), shown : Seq(1..Len(events)), gap : BOOLEAN]
    BY <1>1, <1>2
  <2>4. QED  BY <2>1, <2>2, <2>3, <1>2 DEF TailTypes
<1>5. StreamsOK  BY <1>1, <1>2 DEF StreamsOK, LiveEventsAssumption
<1>6. PageOK  BY <1>1, <1>2, <1>3 DEF PageOK, Told, Downward
<1>7. QueuesInOrder  BY <1>1, <1>2 DEF QueuesInOrder, InOrder, Older
<1>8. ShownInOrder  BY <1>1, <1>2 DEF ShownInOrder, Told
<1>9. NothingEscaped  BY <1>1 DEF NothingEscaped
<1>11. SeqsGrow  BY <1>2 DEF SeqsGrow
<1>10. QED  BY <1>11, <1>4, <1>5, <1>6, <1>7, <1>8, <1>9 DEF LiveInv

(* ... and after every step ...                                                *)
LEMMA LiveInvStep ==
  ASSUME LiveEventsAssumption, LiveInv, [LiveNext]_live
  PROVE  LiveInv'
<1>1. ASSUME NEW w \in Writers, Draw(w) \/ Insert(w) \/ InsertFails(w)  PROVE LiveInv'
  BY <1>1, InsertKeeps, DrawOffers, OffersKeep
<1>2. ASSUME NEW w \in Writers, Broadcast(w)  PROVE LiveInv'
  <2>1. CASE Publish(w)  BY <2>1, PublishOffers, OffersKeep
  <2>2. CASE DropOldest(w)  BY <2>2, DropOldestOffers, OffersKeep
  <2>3. CASE OfferAgain(w)  BY <2>3, OfferAgainOffers, OffersKeep
  <2>4. ASSUME NEW s \in Streams, Offer(w, s)  PROVE LiveInv'  BY <2>4, OfferOffers, OffersKeep
  <2>5. QED  BY <1>2, <2>1, <2>2, <2>3, <2>4 DEF Broadcast
<1>3. ASSUME NEW c \in Components, Mount(c) \/ Unmount(c)  PROVE LiveInv'
  BY <1>3, MountKeeps, UnmountKeeps
<1>4. ASSUME NEW s \in Streams, Connect(s) \/ Deliver(s) \/ WriteToLeft(s)  PROVE LiveInv'
  BY <1>4, ConnectKeeps, DeliverKeeps, WriteToLeftKeeps
<1>5. CASE Break \/ FetchRead \/ FetchReturn \/ FetchFails
  BY <1>5, BreakKeeps, FetchReadKeeps, FetchReturnKeepsInv, FetchFailsKeeps
<1>6. CASE UNCHANGED live
  <2>1. events' = events /\ writer' = writer /\ stream' = stream /\ queue' = queue /\ page' = page /\ tail' = tail
    BY <1>6 DEF live
  <2>2. /\ page \in [mounted : SUBSET Components, source : Streams \cup {NoStream}, mounts : Nat, breaks : Nat]
        /\ tail \in [fetch : {"no", "asked", "read", "done", "failed"}, read : Seq(1..Len(events)),
                     seen : SUBSET (1..Len(events)), shown : Seq(1..Len(events)), gap : BOOLEAN]
    BY DEF LiveInv, TailTypes
  <2>3. PageOK' /\ ShownInOrder' /\ NothingEscaped'
    BY <2>1 DEF LiveInv, PageOK, ShownInOrder, NothingEscaped, Coming
  <2>4. QED  BY <2>1, <2>2, <2>3, TailKeeps
<1>7. QED  BY <1>1, <1>2, <1>3, <1>4, <1>5, <1>6 DEF LiveNext

(* ... and says that the tail tells the run.                                   *)
LEMMA InvTells ==
  ASSUME LiveEventsAssumption, LiveInv
  PROVE  TailTellsTheRun
<1>1. TailTypes /\ StreamsOK /\ PageOK /\ ShownInOrder /\ NothingEscaped  BY DEF LiveInv
<1>2. LiveTypes
  <2>1. \A w \in Writers : writer[w].at \in {"idle", "insert", "publish", "offer", "full", "again"}
    BY <1>1 DEF TailTypes, WriterOK, Silent
  <2>2. events \in Seq(LiveEvent) /\ DOMAIN events = 1..Len(events) /\ stream \in [Streams -> Subscribed \cup {"free"}]
    BY <1>1 DEF TailTypes
  <2>3. ASSUME NEW s \in Streams
        PROVE  /\ queue[s] \in Seq(DOMAIN events) /\ Len(queue[s]) <= QueueMax
               /\ stream[s] \notin Subscribed => queue[s] = <<>>
               /\ stream[s] = "open" <=> s = page.source
    <3>1. queue[s] \in Seq(DOMAIN events)  BY <2>2, <1>1 DEF TailTypes
    <3>2. QED  BY <3>1, <1>1 DEF StreamsOK
  <2>4. page.mounted \subseteq Components /\ (page.mounted = {} => page.source = NoStream)  BY <1>1 DEF TailTypes, PageOK
  <2>5. tail.fetch \in {"no", "asked", "read", "done", "failed"} /\ tail.seen \subseteq 1..Len(events)
        /\ Range(tail.shown) \subseteq tail.seen
    BY <1>1 DEF TailTypes, PageOK
  <2>6. QED  BY <2>1, <2>2, <2>3, <2>4, <2>5 DEF LiveTypes
<1>3. Told(tail.shown, events)  BY <1>1 DEF ShownInOrder
<1>4. ASSUME tail.fetch = "done", ~ tail.gap, queue[page.source] = <<>>, \A w \in Writers : writer[w] = Silent,
             NEW i \in DOMAIN events, events[i].by \notin Remote
      PROVE  i \in Range(tail.shown)
  <2>1. DOMAIN events = 1..Len(events)  BY <1>1 DEF TailTypes
  <2>2. Coming(i)  BY <2>1, <1>1, <1>4 DEF NothingEscaped
  <2>3. tail.read = <<>> /\ Range(<<>>) = {}  BY <1>1, <1>4 DEF PageOK, Range
  <2>4. \A w \in Writers : ~ Behind(writer[w], page.source)  BY <1>4 DEF Behind, Silent
  <2>5. QED  BY <2>2, <2>3, <2>4, <1>4 DEF Coming
<1>5. QED  BY <1>2, <1>3, <1>4 DEF TailTellsTheRun, Told

(* For every set of writers, local or in other processes, of streams and of    *)
(* times their events may bear, every size of a queue and every bound: in every*)
(* state of the live events the tail shows no event twice, those of each writer*)
(* in the order they were written unless a later one bears an earlier time,    *)
(* and, unless a named loss happened, all of the events of the server's own    *)
(* writers once nobody is writing and the queue is empty.                      *)
THEOREM TailTellsTheRunAlways ==
  ASSUME LiveEventsAssumption
  PROVE  LiveSafeSpec => []TailTellsTheRun
<1>1. LiveInit => LiveInv  BY LiveInvInit
<1>2. LiveInv /\ [LiveNext]_live => LiveInv'  BY LiveInvStep
<1>3. LiveInv => TailTellsTheRun  BY InvTells
<1>4. QED  BY <1>1, <1>2, <1>3, PTL DEF LiveSafeSpec

--------------------------------------------------------------------------------
(* The clock of a schedule (Cadence)                                           *)

\* Of the hours of a schedule: it is due in a state where it was armed, and one of
\* whole days is due at its hour.
ClockInv ==
  /\ interval \in Nat \ {0} /\ atTime \in 0..23 \cup {None} /\ now \in Nat /\ next \in Nat
  /\ (atTime # None /\ interval % 24 = 0) => next % 24 = atTime

\* Quotient and remainder are what they are.
LEMMA Division ==
  ASSUME NEW a \in Nat, NEW b \in Nat \ {0}
  PROVE  \E q \in Nat, r \in 0..(b - 1) : q = a \div b /\ r = a % b /\ a = b * q + r
<1>1. a \div b \in Nat /\ a % b \in 0..(b - 1)  OBVIOUS
<1>2. ASSUME NEW q \in Nat, q = a \div b, NEW r \in Nat, r = a % b  PROVE a = b * q + r
  BY <1>2, Z3
<1>3. PICK q \in Nat, r \in 0..(b - 1) : q = a \div b /\ r = a % b  BY <1>1, Zenon
<1>4. r \in Nat  BY <1>3
<1>5. a = b * q + r  BY <1>2, <1>3, <1>4
<1>6. QED  BY <1>3, <1>5, Zenon

\* Whole days keep the hour.
LEMMA SameHour ==
  ASSUME NEW day \in Nat, NEW hour \in 0..23
  PROVE  (day * 24 + hour) % 24 = hour
OBVIOUS

\* The next multiple of a step.
LEMMA Steps ==
  ASSUME NEW b \in Nat \ {0}, NEW n \in Nat, b % 24 = 0
  PROVE  \E day \in Nat : b * n = 24 * day
<1>1. PICK c \in Nat : b = 24 * c  BY Division
<1>2. (24 * c) * n = 24 * (c * n) /\ c * n \in Nat  OBVIOUS
<1>3. QED  BY <1>1, <1>2

\* The next run after an hour (compute_next_run_at).
LEMMA NextRunFacts ==
  ASSUME NEW hour \in Nat, interval \in Nat \ {0}, atTime \in 0..23 \cup {None}
  PROVE  LET run_at == C!NextRun(hour)
         IN /\ run_at \in Nat /\ run_at > hour
            /\ run_at <= hour + interval \/ run_at <= hour + 24
            /\ (atTime # None /\ interval % 24 = 0) => run_at % 24 = atTime
<1>1. CASE atTime = None
  BY <1>1 DEF C!NextRun
<1>2. CASE atTime # None
  <2> DEFINE day == hour \div 24
             today == day * 24 + atTime
  <2>1. day \in Nat /\ \E r \in 0..23 : hour = 24 * day + r  BY Division
  <2>2. atTime \in 0..23 /\ today \in Nat  BY <1>2, <2>1
  <2>3. CASE today > hour
    <3>1. C!NextRun(hour) = today + interval * 0  BY <1>2, <2>3 DEF C!NextRun, C!Day
    <3>2. interval * 0 = 0 /\ C!NextRun(hour) = today  BY <3>1, <2>2
    <3>3. today <= hour + 24  BY <2>1, <2>2
    <3>4. today % 24 = atTime  BY <2>1, <2>2, SameHour
    <3> HIDE DEF today
    <3>5. QED  BY <2>2, <2>3, <3>2, <3>3, <3>4
  <2>4. CASE ~ (today > hour)
    <3> DEFINE late == hour - today
               n == late \div interval + 1
    <3>1. late \in Nat  BY <2>2, <2>4
    <3>2. C!NextRun(hour) = today + interval * n  BY <1>2, <2>4 DEF C!NextRun, C!Day
    <3>3. PICK q \in Nat, rest \in 0..(interval - 1) :
            q = late \div interval /\ late = interval * q + rest
      <4> HIDE DEF late
      <4>1. QED  BY <3>1, Division
    <3> HIDE DEF late
    <3>4. interval * n = interval * q + interval /\ n \in Nat
      <4>1. n = q + 1  BY <3>3
      <4> HIDE DEF n
      <4>2. QED  BY <4>1
    <3> DEFINE covered == interval * q
    <3>5. covered \in Nat  BY <3>3
    <3>6. late = covered + rest /\ rest \in 0..(interval - 1)  BY <3>3
    <3>7. interval * n = covered + interval  BY <3>4
    <3> HIDE DEF covered, n, today
    <3>8. interval * n > late /\ interval * n <= late + interval
      <4>1. covered + interval > late /\ covered + interval <= late + interval  BY <3>1, <3>5, <3>6
      <4>2. QED  BY <3>7, <4>1
    <3>9. today + late = hour  BY <2>2, <3>1 DEF late
    <3>10. ASSUME interval % 24 = 0  PROVE (today + interval * n) % 24 = atTime
      <4>1. PICK d \in Nat : interval * n = 24 * d  BY <3>10, <3>4, Steps
      <4>2. today + interval * n = (day + d) * 24 + atTime  BY <4>1, <2>1, <2>2 DEF today
      <4>3. day + d \in Nat  BY <4>1, <2>1
      <4>4. QED  BY <4>2, <4>3, <2>2, SameHour
    <3>11. interval * n \in Nat  BY <3>5, <3>7
    <3> DEFINE step == interval * n
    <3>12. step \in Nat /\ step > late /\ step <= late + interval /\ C!NextRun(hour) = today + step
      BY <3>2, <3>8, <3>11
    <3>13. (interval % 24 = 0) => C!NextRun(hour) % 24 = atTime  BY <3>2, <3>10
    <3> HIDE DEF step
    <3>14. QED  BY <2>2, <3>1, <3>9, <3>12, <3>13
  <2>5. QED  BY <2>3, <2>4
<1>3. QED  BY <1>1, <1>2

\* Every step keeps the types of the clock.
LEMMA ClockNextInv ==
  ASSUME ClockInv, [C!Next]_(C!vars)  PROVE ClockInv'
<1>1. CASE UNCHANGED C!vars  BY <1>1 DEF C!vars, ClockInv
<1>2. ASSUME NEW hours \in 1..24, C!Pass(hours)  PROVE ClockInv'
  BY <1>2 DEF C!Pass, ClockInv
<1>3. CASE C!Arm
  BY <1>3, NextRunFacts DEF C!Arm, ClockInv
<1>4. QED  BY <1>1, <1>2, <1>3 DEF C!Next, C!Day

\* The larger of two numbers.
LEMMA MaxOfTwo ==
  ASSUME NEW a \in Nat, NEW b \in Nat
  PROVE  C!Max({a, b}) \in {a, b} /\ a <= C!Max({a, b}) /\ b <= C!Max({a, b})
<1>1. \E x \in {a, b} : \A y \in {a, b} : x >= y
  <2>1. CASE a >= b  BY <2>1
  <2>2. CASE b >= a  BY <2>2
  <2>3. QED  BY <2>1, <2>2
<1>2. QED  BY <1>1 DEF C!Max

\* Armed on the day it is due, a schedule of whole days is due an interval later.
LEMMA ArmedOnTheDay ==
  ASSUME ClockInv, atTime # None, interval % 24 = 0, next <= now, next \div 24 = now \div 24
  PROVE  C!NextRun(now) = next + interval
<1> DEFINE day == now \div 24
           late == now - next
<1>1. day \in Nat /\ \E r \in 0..23 : now = 24 * day + r  BY Division DEF ClockInv
<1>2. next = 24 * day + atTime
  <2>1. PICK q \in Nat, r \in 0..23 : q = next \div 24 /\ r = next % 24 /\ next = 24 * q + r
    BY Division DEF ClockInv
  <2>2. next % 24 = atTime  BY DEF ClockInv
  <2>3. QED  BY <2>1, <2>2
<1>3. interval >= 24
  <2>1. \E c \in Nat : interval = 24 * c  BY Division DEF ClockInv
  <2>2. QED  BY <2>1 DEF ClockInv
<1>4. late \in Nat /\ late < interval /\ interval \in Nat \ {0}
  BY <1>1, <1>2, <1>3 DEF ClockInv
<1>5. late \div interval = 0
  <2> HIDE DEF late
  <2>1. PICK q \in Nat, r \in 0..(interval - 1) : q = late \div interval /\ late = interval * q + r
    BY <1>4, Division
  <2>2. q # 0 => interval * q >= interval
    <3> SUFFICES ASSUME q # 0  PROVE interval * q >= interval  OBVIOUS
    <3>1. interval * (q - 1) \in Nat /\ interval * q = interval * (q - 1) + interval  BY <1>4
    <3>2. QED  BY <3>1, <1>4
  <2> DEFINE c == interval * q
  <2>3. c \in Nat /\ late = c + r /\ (q # 0 => c >= interval)  BY <2>1, <2>2, <1>4
  <2> HIDE DEF c
  <2>4. QED  BY <2>1, <2>3, <1>4
<1>6. now - ((now \div 24) * 24 + atTime) = late /\ (now \div 24) * 24 + atTime = next
  BY <1>1, <1>2 DEF ClockInv
<1>7. C!NextRun(now) = next + interval * (0 + 1)
  BY <1>5, <1>6 DEF C!NextRun, C!Day, ClockInv
<1>8. QED  BY <1>7 DEF ClockInv

\* A job that is armed is due at its hour.
LEMMA ArmIsOnTime ==
  ASSUME ClockInv, C!Next, next' # next
  PROVE  /\ next' > now /\ next' <= now + C!Max({interval, 24})
         /\ (atTime # None /\ interval % 24 = 0) =>
              /\ next' % 24 = atTime
              /\ next \div 24 = now \div 24 => next' = next + interval
<1>1. C!Arm  BY DEF C!Next, C!Pass
<1>2. next' = C!NextRun(now) /\ next <= now  BY <1>1 DEF C!Arm
<1>3. 24 \in Nat /\ interval \in Nat  BY DEF ClockInv
<1> DEFINE m == C!Max({interval, 24})
<1>4. m \in Nat /\ interval <= m /\ 24 <= m  BY <1>3, MaxOfTwo
<1> HIDE DEF m
<1>5. next' > now /\ next' <= now + m
  BY <1>2, <1>4, NextRunFacts DEF ClockInv
<1>6. (atTime # None /\ interval % 24 = 0) => next' % 24 = atTime
  BY <1>2, NextRunFacts DEF ClockInv
<1>7. QED  BY <1>2, <1>5, <1>6, ArmedOnTheDay DEF m

\* A schedule is due later, not later than an interval or a day, and keeps its hour
\* (compute_next_run_at, Scheduler.tick).
THEOREM NextRunIsOnTimeAlways ==
  C!Init /\ [][C!Next]_(C!vars) => NextRunIsOnTime
<1>1. C!Init => ClockInv
  <2> SUFFICES ASSUME C!Init  PROVE ClockInv  OBVIOUS
  <2>1. interval \in Nat \ {0} /\ atTime \in 0..23 \cup {None} /\ now \in Nat
    BY ClockAssumption DEF C!Init, C!Day
  <2>2. next = C!NextRun(now)  BY DEF C!Init
  <2>3. QED  BY <2>1, <2>2, NextRunFacts DEF ClockInv
<1>2. ClockInv /\ [C!Next]_(C!vars) =>
        [next' # next =>
           /\ next' > now /\ next' <= now + C!Max({interval, C!Day})
           /\ (atTime # None /\ interval % C!Day = 0) =>
                /\ next' % C!Day = atTime
                /\ next \div C!Day = now \div C!Day => next' = next + interval]_(C!vars)
  BY ArmIsOnTime DEF C!Day
<1>3. QED
  BY <1>1, <1>2, ClockNextInv, PTL DEF NextRunIsOnTime, C!NextRunIsOnTime

--------------------------------------------------------------------------------
(* A fetch of the context (Delivery)                                           *)

\* The two readings of Cardinality and IsFiniteSet are one.
LEMMA SameCounts ==
  /\ \A S : D!Cardinality(S) = Cardinality(S)
  /\ \A S : D!IsFiniteSet(S) <=> IsFiniteSet(S)
BY DEF D!Cardinality, Cardinality, D!IsFiniteSet, IsFiniteSet

\* A set of numbers that is not empty has a least one.
LEMMA LeastOfSome ==
  ASSUME NEW S \in SUBSET Nat, S # {}
  PROVE  D!Min(S) \in S /\ \A y \in S : D!Min(S) <= y
<1> DEFINE Less == {ss \in Nat \X Nat : ss[1] < ss[2]}
<1>1. IsWellFoundedOn(Less, Nat)  BY NatLessThanWellFounded, Zenon DEF OpToRel
<1>2. PICK m \in S : \A n \in S : ~ (<<n, m>> \in Less)
  <2> HIDE DEF Less
  <2> QED  BY <1>1, WFMin
<1>3. ASSUME NEW y \in S  PROVE m <= y
  <2>1. m \in Nat /\ y \in Nat /\ <<y, m>> \in Nat \X Nat  OBVIOUS
  <2>2. y < m => <<y, m>> \in Less  BY <2>1
  <2> HIDE DEF Less
  <2>3. ~ (y < m)  BY <1>2, <2>2
  <2>4. QED  BY <2>1, <2>3
<1>4. \E x \in S : \A y \in S : x <= y  BY <1>3
<1>5. QED  BY <1>4 DEF D!Min

\* The largest of some numbers that are finitely many.
LEMMA LargestOfSome ==
  ASSUME NEW S \in SUBSET Nat, IsFiniteSet(S), S # {}
  PROVE  \E m \in S : \A y \in S : y <= m
<1> DEFINE Over(m) == {t \in S : t > m}
           Counts == {Cardinality(Over(m)) : m \in S}
<1>1. \A m \in S : IsFiniteSet(Over(m)) /\ Cardinality(Over(m)) \in Nat
  BY FS_Subset, FS_CardinalityType
<1>2. Counts \subseteq Nat /\ Counts # {}  BY <1>1
<1>3. PICK m \in S : \A n \in S : Cardinality(Over(m)) <= Cardinality(Over(n))
  <2> DEFINE c == D!Min(Counts)
  <2>1. c \in Counts /\ \A y \in Counts : c <= y
    <3> HIDE DEF Counts
    <3>1. QED  BY <1>2, LeastOfSome
  <2> HIDE DEF c
  <2>2. QED  BY <2>1
<1>4. ASSUME NEW y \in S, ~ (y <= m)  PROVE FALSE
  <2>0. y \in Nat /\ m \in Nat /\ y > m  BY <1>4
  <2>1. y \in Over(m) /\ y \notin Over(y) /\ Over(y) \subseteq Over(m)
    <3>1. ASSUME NEW t \in Over(y)  PROVE t > m  BY <2>0
    <3>2. y \in Over(m) /\ y \notin Over(y)  BY <2>0
    <3>3. Over(y) \subseteq S  OBVIOUS
    <3>4. Over(y) \subseteq Over(m)  BY <3>1, <3>3
    <3>5. QED  BY <3>2, <3>4
  <2>2. Cardinality(Over(y)) < Cardinality(Over(m))
    <3>1. Over(y) # Over(m)  BY <2>1
    <3> HIDE DEF Over
    <3>2. QED  BY <1>1, <2>1, <3>1, FS_Subset
  <2>3. QED  BY <1>1, <1>3, <2>2
<1>5. QED  BY <1>4

Above(S, s) == {t \in S : t > s}
CutKeeps(Cut, S, n) ==
  /\ IsFiniteSet(Cut) /\ Cardinality(Cut) \in Nat /\ Cardinality(Cut) <= n
  /\ \A s \in S \ Cut : Cardinality(Cut) = n /\ \A t \in Cut : t > s

\* What a cut keeps: no more than its limit, and when it leaves something out exactly
\* its limit, of the newest.
LEMMA CutFacts ==
  ASSUME NEW S \in SUBSET Nat, IsFiniteSet(S), NEW n \in Nat \ {0},
         NEW Cut \in SUBSET S, \A s \in S : s \in Cut <=> Cardinality(Above(S, s)) < n
  PROVE  CutKeeps(Cut, S, n)
<1> DEFINE Over(m) == {t \in S : t > m}
<1>1. \A m \in S : IsFiniteSet(Over(m)) /\ Cardinality(Over(m)) \in Nat
  BY FS_Subset, FS_CardinalityType
<1>2. Cut \subseteq S /\ IsFiniteSet(Cut) /\ Cardinality(Cut) \in Nat
  BY FS_Subset, FS_CardinalityType
<1>3. \A s \in S : s \in Cut <=> Cardinality(Over(s)) < n
  BY DEF Above
<1>4. ASSUME NEW x \in S, NEW y \in S, x > y
      PROVE  Cardinality(Over(y)) >= Cardinality(Over(x)) + 1
  <2>1. Over(x) \subseteq Over(y) \ {x} /\ x \in Over(y)
    <3>1. x \in Nat /\ y \in Nat  OBVIOUS
    <3>2. ASSUME NEW t \in Over(x)  PROVE t \in Over(y) \ {x}
      <4>1. t \in Nat /\ t \in S /\ t > x  OBVIOUS
      <4>2. t > y /\ t # x
        <5> HIDE DEF Over
        <5>1. QED  BY <1>4, <3>1, <4>1
      <4>3. QED  BY <4>1, <4>2
    <3>3. x \in Over(y)  BY <1>4
    <3> HIDE DEF Over
    <3>4. QED  BY <3>2, <3>3
  <2> HIDE DEF Over
  <2>2. IsFiniteSet(Over(y) \ {x}) /\ Cardinality(Over(y) \ {x}) = Cardinality(Over(y)) - 1
    BY <1>1, <2>1, FS_RemoveElement
  <2>3. Cardinality(Over(x)) <= Cardinality(Over(y) \ {x})
    BY <2>1, <2>2, FS_Subset
  <2>4. QED  BY <1>1, <2>2, <2>3
<1>5. Cardinality(Cut) <= n
  <2>1. CASE Cut = {}
    <3>1. Cardinality(Cut) = 0  BY <2>1, FS_EmptySet, Zenon
    <3>2. QED  BY <3>1
  <2>2. CASE Cut # {}
    <3> DEFINE m == D!Min(Cut)
    <3>1. m \in Cut /\ \A t \in Cut : m <= t  BY <1>2, <2>2, LeastOfSome
    <3> HIDE DEF m
    <3>2. m \in S /\ m \in Nat  BY <1>2, <3>1
    <3>3. Cut \ {m} \subseteq Over(m)
      <4>1. ASSUME NEW t \in Cut \ {m}  PROVE t \in Over(m)
        <5>1. t \in Nat /\ t \in S /\ m <= t /\ t # m  BY <1>2, <3>1
        <5>2. t > m  BY <3>2, <5>1
        <5>3. QED  BY <5>1, <5>2
      <4>2. QED  BY <4>1
    <3> HIDE DEF Over
    <3>4. Cardinality(Cut \ {m}) <= Cardinality(Over(m))  BY <1>1, <3>2, <3>3, FS_Subset
    <3>5. Cardinality(Cut \ {m}) = Cardinality(Cut) - 1  BY <1>2, <3>1, FS_RemoveElement
    <3>6. Cardinality(Over(m)) < n  BY <1>3, <3>1, <3>2
    <3>7. QED  BY <1>1, <1>2, <3>2, <3>4, <3>5, <3>6
  <2>3. QED  BY <2>1, <2>2
<1>6. ASSUME NEW s \in S \ Cut  PROVE Cardinality(Cut) = n /\ \A t \in Cut : t > s
  <2>1. S \ Cut \subseteq Nat /\ IsFiniteSet(S \ Cut) /\ S \ Cut # {}  BY FS_Subset
  <2>2. PICK z \in S \ Cut : \A y \in S \ Cut : y <= z  BY <2>1, LargestOfSome
  <2>3. ~ (Cardinality(Over(z)) < n)  BY <1>3, <2>2
  <2>4. ASSUME NEW t \in Cut  PROVE t > z
    <3>1. t \in S /\ t \in Nat /\ z \in S /\ z \in Nat /\ t # z  BY <1>2, <2>2
    <3>2. Cardinality(Over(t)) < n  BY <1>3, <3>1
    <3>3. ~ (z > t)
      <4> SUFFICES ASSUME z > t  PROVE FALSE  OBVIOUS
      <4>1. Cardinality(Over(t)) >= Cardinality(Over(z)) + 1  BY <1>4, <3>1
      <4> HIDE DEF Over
      <4>2. QED  BY <1>1, <2>3, <3>1, <3>2, <4>1
    <3>4. QED  BY <3>1, <3>3
  <2>5. Over(z) = Cut
    <3>1. ASSUME NEW t \in Over(z)  PROVE t \in Cut
      <4>1. t \in S /\ t \in Nat /\ t > z /\ z \in Nat  BY <2>2
      <4>2. t \notin S \ Cut  BY <2>2, <4>1
      <4>3. QED  BY <4>1, <4>2
    <3>2. ASSUME NEW t \in Cut  PROVE t \in Over(z)  BY <1>2, <2>4
    <3> HIDE DEF Over
    <3>3. QED  BY <3>1, <3>2
  <2>6. Cardinality(Cut) = n
    <3> HIDE DEF Over
    <3>1. QED  BY <1>2, <1>5, <2>3, <2>5
  <2>7. ASSUME NEW t \in Cut  PROVE t > s
    <3>1. t > z /\ s <= z /\ t \in Nat /\ s \in Nat /\ z \in Nat  BY <1>2, <2>2, <2>4
    <3>2. QED  BY <3>1
  <2>8. QED  BY <2>6, <2>7
<1>7. QED  BY <1>2, <1>5, <1>6 DEF CutKeeps

Excluded(s, bodies) == \E b \in bodies : D!Matches(s, b.noids, b.nokeywords)
Included(s, bodies) == \E b \in bodies : D!Matches(s, b.ids, b.keywords)
Selective(bodies) == \E b \in bodies : b.ids \cup b.keywords # {}
Keeps(s, bodies) == ~ Excluded(s, bodies) /\ (Selective(bodies) => Included(s, bodies))

\* The rules that stood since the fetch began, and the skills that are due.
Standing(a) ==
  IF fetch[a].asked.section = "harness" THEN {}
  ELSE {rule[r].body : r \in D!InForce(fetch[a].asked) \ touched[a]}
DueTo(a, s) ==
  /\ Home[s] = Home[fetch[a].asked.target]
  /\ fetch[a].asked.section \in {"all", skill[s].section}
  /\ skill[s].active \/ fetch[a].asked.inactive

FiltersFit(a) ==
  /\ fetch[a].filters \subseteq Body /\ Standing(a) \subseteq fetch[a].filters
  /\ Rule \cap touched[a] = {} => fetch[a].filters = Standing(a)

GivenFits(a) ==
  LET given == fetch[a].given
      filters == fetch[a].filters
  IN  /\ given \subseteq Skill
      /\ \A s \in given : Keeps(s, filters) /\ (s \in touched[a] \/ DueTo(a, s))
      /\ \A b \in filters : b.max # 0 => Cardinality(given) <= b.max
      /\ \A s \in Skill \ (given \cup touched[a]) : (DueTo(a, s) /\ Keeps(s, filters)) =>
           /\ \E b \in filters : b.max # 0 /\ b.max = Cardinality(given)
           /\ \A t \in given : t > s

Targeted(a) == fetch[a].asked.target # None /\ D!Known(fetch[a].asked.target)

\* A fetch is a record of five fields, of which a step sets one or two.
Fields(f, at, asked, filters, given, used) ==
  f = [at |-> at, asked |-> asked, filters |-> filters, given |-> given, used |-> used]

FetchOK(a) ==
  LET f == fetch[a]
  IN  /\ Fields(f, f.at, f.asked, f.filters, f.given, f.used)
      /\ f.at \in {"idle", "rules", "skills", "list", "mark", "done", "error"}
      /\ f.at = "rules" => Targeted(a) /\ f.asked.section # "harness"
      /\ f.at = "skills" => f.asked.target = None \/ Targeted(a)
      /\ (f.at \in {"skills", "list", "mark", "done"} /\ Targeted(a)) => FiltersFit(a)
      /\ (f.at \in {"list", "mark", "done"} /\ Targeted(a)) => GivenFits(a)
      /\ (f.at \in {"list", "mark", "done"} /\ f.asked.target # None /\ ~ D!Known(f.asked.target)) =>
           f.given = {}

DeliveryInv ==
  /\ skill \in [Skill -> D!SkillRow] /\ rule \in [Rule -> D!RuleRow]
  /\ fetch = [a \in Agent |-> fetch[a]] /\ touched = [a \in Agent |-> touched[a]]
  /\ \A a \in Agent : FetchOK(a)

\* What is written while an agent fetches is told apart for it.
LEMMA FetchStays ==
  ASSUME NEW a \in Agent, FetchOK(a), fetch'[a] = fetch[a],
         fetch[a].at # "idle" =>
           /\ touched[a] \subseteq touched'[a]
           /\ \A s \in Skill \ touched'[a] : skill'[s] = skill[s]
           /\ \A r \in Rule \ touched'[a] : rule'[r] = rule[r]
  PROVE  FetchOK(a)'
<1> DEFINE f == fetch[a]
<1>1. Targeted(a)' <=> Targeted(a)  BY DEF Targeted, D!Known
<1>2. ASSUME f.at # "idle", FiltersFit(a)  PROVE FiltersFit(a)'
  <2>1. D!InForce(f.asked)' \ touched'[a] = D!InForce(f.asked) \ touched'[a]
    BY <1>2 DEF D!InForce, D!InScope
  <2>2. D!InForce(f.asked)' \ touched'[a] \subseteq D!InForce(f.asked) \ touched[a]
    BY <1>2, <2>1
  <2>3. \A r \in D!InForce(f.asked)' \ touched'[a] : rule'[r] = rule[r]
    BY <1>2 DEF D!InForce
  <2>4. Standing(a)' \subseteq Standing(a)  BY <2>2, <2>3 DEF Standing
  <2>5. ASSUME Rule \cap touched'[a] = {}  PROVE Standing(a)' = Standing(a) /\ Rule \cap touched[a] = {}
    <3>1. Rule \cap touched[a] = {}  BY <1>2, <2>5
    <3>2. D!InForce(f.asked)' \ touched'[a] = D!InForce(f.asked) \ touched[a]
      BY <2>1, <2>5, <3>1 DEF D!InForce
    <3>3. QED  BY <2>3, <3>1, <3>2 DEF Standing
  <2>6. QED  BY <1>2, <2>4, <2>5 DEF FiltersFit
<1>3. ASSUME f.at # "idle", GivenFits(a)  PROVE GivenFits(a)'
  <2>1. \A s \in Skill \ touched'[a] : DueTo(a, s)' <=> DueTo(a, s)
    BY <1>3 DEF DueTo
  <2>2. \A s : s \in touched[a] => s \in touched'[a]  BY <1>3
  <2>3. ASSUME NEW s \in f.given  PROVE Keeps(s, f.filters) /\ (s \in touched'[a] \/ DueTo(a, s)')
    <3>1. Keeps(s, f.filters) /\ (s \in touched[a] \/ DueTo(a, s))  BY <1>3, <2>3 DEF GivenFits
    <3>2. CASE s \in touched'[a]  BY <3>1, <3>2
    <3>3. CASE s \notin touched'[a]
      <4>1. DueTo(a, s)  BY <3>1, <3>3, <2>2
      <4>2. s \in Skill  BY <1>3, <2>3 DEF GivenFits
      <4>3. QED  BY <3>1, <4>1, <4>2, <3>3, <2>1
    <3>4. QED  BY <3>2, <3>3
  <2>4. ASSUME NEW s \in Skill \ (f.given \cup touched'[a]), DueTo(a, s)', Keeps(s, f.filters)
        PROVE  /\ \E b \in f.filters : b.max # 0 /\ b.max = Cardinality(f.given)
               /\ \A t \in f.given : t > s
    BY <1>3, <2>1, <2>2, <2>4 DEF GivenFits
  <2>5. \A b \in f.filters : b.max # 0 => Cardinality(f.given) <= b.max  BY <1>3 DEF GivenFits
  <2>6. f.given \subseteq Skill  BY <1>3 DEF GivenFits
  <2>7. QED  BY <2>3, <2>4, <2>5, <2>6 DEF GivenFits, Keeps, Excluded, Included, Selective, D!Matches
<1>4. QED  BY <1>1, <1>2, <1>3 DEF FetchOK, D!Known

\* A field of a fetch is set.
LEMMA SetOne ==
  ASSUME NEW f, NEW at, NEW asked, NEW filters, NEW given, NEW used, NEW x,
         Fields(f, at, asked, filters, given, used)
  PROVE  /\ Fields([f EXCEPT !.at = x], x, asked, filters, given, used)
         /\ Fields([f EXCEPT !.asked = x], at, x, filters, given, used)
         /\ Fields([f EXCEPT !.filters = x], at, asked, x, given, used)
         /\ Fields([f EXCEPT !.given = x], at, asked, filters, x, used)
         /\ Fields([f EXCEPT !.used = x], at, asked, filters, given, x)
<1>1. Fields([f EXCEPT !.at = x], x, asked, filters, given, used)  BY DEF Fields
<1>2. Fields([f EXCEPT !.asked = x], at, x, filters, given, used)  BY DEF Fields
<1>3. Fields([f EXCEPT !.filters = x], at, asked, x, given, used)  BY DEF Fields
<1>4. Fields([f EXCEPT !.given = x], at, asked, filters, x, used)  BY DEF Fields
<1>5. Fields([f EXCEPT !.used = x], at, asked, filters, given, x)  BY DEF Fields
<1>6. QED  BY <1>1, <1>2, <1>3, <1>4, <1>5

\* Two fields of a fetch are set.
LEMMA SetTwo ==
  ASSUME NEW f, NEW at, NEW asked, NEW filters, NEW given, NEW used, NEW x, NEW y,
         Fields(f, at, asked, filters, given, used)
  PROVE  /\ Fields([f EXCEPT !.asked = x, !.at = y], y, x, filters, given, used)
         /\ Fields([f EXCEPT !.at = x, !.filters = y], x, asked, y, given, used)
         /\ Fields([f EXCEPT !.given = x, !.at = y], y, asked, filters, x, used)
         /\ Fields([f EXCEPT !.at = x, !.used = y], x, asked, filters, given, y)
<1>1. [f EXCEPT !.asked = x, !.at = y] = [[f EXCEPT !.asked = x] EXCEPT !.at = y]  OBVIOUS
<1>7. [f EXCEPT !.at = x, !.filters = y] = [[f EXCEPT !.at = x] EXCEPT !.filters = y]  OBVIOUS
<1>8. [f EXCEPT !.given = x, !.at = y] = [[f EXCEPT !.given = x] EXCEPT !.at = y]  OBVIOUS
<1>9. [f EXCEPT !.at = x, !.used = y] = [[f EXCEPT !.at = x] EXCEPT !.used = y]  OBVIOUS
<1>2. Fields([[f EXCEPT !.asked = x] EXCEPT !.at = y], y, x, filters, given, used)  BY SetOne
<1>3. Fields([[f EXCEPT !.at = x] EXCEPT !.filters = y], x, asked, y, given, used)  BY SetOne
<1>4. Fields([[f EXCEPT !.given = x] EXCEPT !.at = y], y, asked, filters, x, used)  BY SetOne
<1>5. Fields([[f EXCEPT !.at = x] EXCEPT !.used = y], x, asked, filters, given, y)  BY SetOne
<1>6. QED  BY <1>1, <1>7, <1>8, <1>9, <1>2, <1>3, <1>4, <1>5

\* A fetch goes on; the others keep what is theirs.
LEMMA FetchStep ==
  ASSUME DeliveryInv, NEW a \in Agent, NEW after, D!Go(a, after), FetchOK(a)',
         touched' = [u \in Agent |-> touched'[u]], \A u \in Agent \ {a} : touched'[u] = touched[u]
  PROVE  DeliveryInv'
<1>1. skill' = skill /\ rule' = rule /\ fetch' = [u \in Agent |-> fetch'[u]]
      /\ \A u \in Agent \ {a} : fetch'[u] = fetch[u]
  BY DEF DeliveryInv, D!Go
<1>2. ASSUME NEW u \in Agent \ {a}  PROVE FetchOK(u)'
  BY <1>1, FetchStays DEF DeliveryInv
<1>3. QED  BY <1>1, <1>2 DEF DeliveryInv

\* A fetch begins: no rule was read yet, and none applies to the harness section.
LEMMA AskInv ==
  ASSUME DeliveryInv, NEW a \in Agent, NEW asked \in D!Request, D!Ask(a, asked)
  PROVE  DeliveryInv'
<1> DEFINE at == IF asked.target # None /\ ~ D!Known(asked.target) THEN "list"
                 ELSE IF asked.target = None \/ asked.section = "harness" THEN "skills"
                 ELSE "rules"
           after == [D!Idle EXCEPT !.asked = asked, !.at = at]
<1>1. D!Go(a, after) /\ touched' = [touched EXCEPT ![a] = {}]  BY DEF D!Ask
<1>2. Fields(after, at, asked, {}, {}, {})
  <2> HIDE DEF at
  <2>1. Fields(D!Idle, "idle", None, {}, {}, {})  BY DEF D!Idle, Fields
  <2>2. QED  BY <2>1, SetTwo
<1>3. at \in {"list", "skills", "rules"}
      /\ (at = "list" => asked.target # None /\ ~ D!Known(asked.target))
      /\ (at = "skills" => asked.target = None \/ (asked.section = "harness" /\ D!Known(asked.target)))
      /\ (at = "rules" => asked.target # None /\ D!Known(asked.target) /\ asked.section # "harness")
  OBVIOUS
<1> HIDE DEF at, after
<1>4. fetch'[a] = after /\ touched'[a] = {}  BY <1>1 DEF DeliveryInv, D!Go
<1>9. after.at = at /\ after.asked = asked /\ after.filters = {} /\ after.given = {} /\ after.used = {}
  BY <1>2 DEF Fields
<1>5. Targeted(a)' <=> asked.target # None /\ D!Known(asked.target)
  BY <1>4, <1>9 DEF Targeted, D!Known
<1>6. (asked.section = "harness") => FiltersFit(a)'
  <2> SUFFICES ASSUME asked.section = "harness"  PROVE FiltersFit(a)'  OBVIOUS
  <2>1. Standing(a)' = {} /\ fetch'[a].filters = {}  BY <1>4, <1>9 DEF Standing
  <2>2. QED  BY <2>1 DEF FiltersFit
<1>7. FetchOK(a)'  BY <1>2, <1>3, <1>4, <1>5, <1>6, <1>9 DEF FetchOK, D!Known
<1>8. QED  BY <1>1, <1>7, FetchStep DEF DeliveryInv

\* The rules that filter are those in force.
LEMMA ReadRulesInv ==
  ASSUME DeliveryInv, NEW a \in Agent, D!ReadRules(a)
  PROVE  DeliveryInv'
<1> DEFINE f == fetch[a]
           read == {rule[r].body : r \in D!InForce(f.asked)}
           after == [f EXCEPT !.at = "skills", !.filters = read]
<1>1. D!Go(a, after) /\ touched' = touched /\ f.at = "rules"  BY DEF D!ReadRules
<1>2. FetchOK(a) /\ Targeted(a) /\ f.asked.section # "harness"  BY <1>1 DEF DeliveryInv, FetchOK
<1> HIDE DEF read
<1>3. Fields(after, "skills", f.asked, read, f.given, f.used)
  <2>1. Fields(f, f.at, f.asked, f.filters, f.given, f.used)  BY <1>2 DEF FetchOK
  <2>2. QED  BY <2>1, SetTwo
<1>4. after.at = "skills" /\ after.filters = read /\ after.asked = f.asked /\ after.given = f.given /\ after.used = f.used
  BY <1>3 DEF Fields
<1> HIDE DEF after
<1>5. fetch'[a] = after  BY <1>1 DEF DeliveryInv, D!Go
<1>6. UNCHANGED <<rule, skill>>  BY <1>1 DEF D!Go
<1>7. read \subseteq Body
  BY DEF read, D!InForce, DeliveryInv, D!RuleRow
<1>8. Standing(a)' = {rule[r].body : r \in D!InForce(f.asked) \ touched[a]}
  BY <1>1, <1>2, <1>4, <1>5, <1>6 DEF Standing, D!InForce, D!InScope
<1>9. Rule \cap touched[a] = {} => Standing(a)' = read
  BY <1>8 DEF read, D!InForce
<1>10. Standing(a)' \subseteq read  BY <1>8 DEF read
<1>11. FiltersFit(a)'  BY <1>1, <1>4, <1>5, <1>7, <1>9, <1>10 DEF FiltersFit
<1>12. Targeted(a)'  BY <1>2, <1>4, <1>5 DEF Targeted, D!Known
<1>14. FetchOK(a)'  BY <1>3, <1>4, <1>5, <1>11, <1>12 DEF FetchOK
<1>13. QED  BY <1>1, <1>14, FetchStep DEF DeliveryInv

FilterLeaves(given, list, bodies) ==
  /\ given \subseteq list /\ \A s \in given : Keeps(s, bodies)
  /\ \A b \in bodies : b.max # 0 => Cardinality(given) <= b.max
  /\ \A s \in list \ given : Keeps(s, bodies) =>
       /\ \E b \in bodies : b.max # 0 /\ b.max = Cardinality(given)
       /\ \A t \in given : t > s

\* What the filters leave of a list (_apply_delivery_rule_filters).
LEMMA FilteredFacts ==
  ASSUME NEW list \in SUBSET Skill, NEW bodies \in SUBSET Body
  PROVE  FilterLeaves(D!Filtered(list, bodies), list, bodies)
<1> DEFINE kept == {s \in list : Keeps(s, bodies)}
           limits == {b.max : b \in bodies} \ {0}
           n == D!Min(limits)
           given == D!Filtered(list, bodies)
<1>1. given = {s \in kept : limits = {} \/ D!Cardinality({t \in kept : t > s}) < n}
  BY DEF D!Filtered, D!Capped, Keeps, Excluded, Included, Selective
<1>2. kept \in SUBSET Nat /\ IsFiniteSet(kept)
  BY PromptAssumption, SameCounts, FS_Subset DEF D!DeliveryAssumption
<1>3. limits \subseteq Nat
  BY PromptAssumption DEF D!DeliveryAssumption
<1> HIDE DEF given
<1>4. given \subseteq kept  BY <1>1
<1>5. CASE limits = {}
  <2>1. given = kept  BY <1>1, <1>5
  <2>2. \A b \in bodies : b.max = 0  BY <1>5
  <2>3. QED  BY <2>1, <2>2 DEF FilterLeaves, given
<1>6. CASE limits # {}
  <2>1. n \in limits /\ \A y \in limits : n <= y
    <3> HIDE DEF limits
    <3>1. QED  BY <1>3, <1>6, LeastOfSome
  <2>2. n \in Nat \ {0} /\ \A b \in bodies : b.max # 0 => n <= b.max /\ b.max \in Nat
    BY <1>3, <2>1
  <2>3. PICK b \in bodies : b.max = n /\ b.max # 0  BY <2>1
  <2>4. \A s \in kept : s \in given <=> Cardinality(Above(kept, s)) < n
    <3> HIDE DEF kept, limits, n
    <3>1. QED  BY <1>1, <1>6, SameCounts DEF Above
  <2> HIDE DEF n, kept, limits
  <2>5. CutKeeps(given, kept, n)
    <3>1. kept \in SUBSET Nat /\ IsFiniteSet(kept) /\ n \in Nat \ {0}  BY <1>2, <2>2
    <3>2. given \in SUBSET kept  BY <1>4
    <3>3. QED  BY <2>4, <3>1, <3>2, CutFacts, Zenon
  <2>6. \A c \in bodies : c.max # 0 => Cardinality(given) <= c.max
    BY <2>2, <2>5 DEF CutKeeps
  <2>7. QED  BY <1>4, <2>3, <2>5, <2>6 DEF kept, CutKeeps, FilterLeaves, given
<1>7. QED  BY <1>5, <1>6

\* The entries given are those listed, filtered.
LEMMA ReadSkillsInv ==
  ASSUME DeliveryInv, NEW a \in Agent, D!ReadSkills(a)
  PROVE  DeliveryInv'
<1> DEFINE f == fetch[a]
           due == D!Listed(f.asked)
           list == D!Filtered(due, f.filters)
           found == [f EXCEPT !.given = list, !.at = "list"]
           failed == [f EXCEPT !.at = "error"]
<1>1. touched' = touched /\ f.at = "skills" /\ (D!Go(a, found) \/ D!Go(a, failed))
  BY DEF D!ReadSkills
<1>2. FetchOK(a) /\ UNCHANGED <<rule, skill>>  BY <1>1 DEF DeliveryInv, D!Go
<1>3. Fields(f, f.at, f.asked, f.filters, f.given, f.used)
  BY <1>2 DEF FetchOK
<1> HIDE DEF list
<1>4. CASE D!Go(a, failed)
  <2>1. Fields(failed, "error", f.asked, f.filters, f.given, f.used)  BY <1>3, SetOne
  <2> HIDE DEF failed
  <2>2. fetch'[a] = failed  BY <1>4 DEF DeliveryInv, D!Go
  <2>5. failed.at = "error" /\ failed.asked = f.asked /\ failed.filters = f.filters
        /\ failed.given = f.given /\ failed.used = f.used
    BY <2>1 DEF Fields
  <2>3. FetchOK(a)'  BY <2>1, <2>2, <2>5 DEF FetchOK
  <2>4. QED  BY <1>1, <1>4, <2>3, FetchStep DEF DeliveryInv
<1>5. CASE D!Go(a, found)
  <2>0. Fields(found, "list", f.asked, f.filters, list, f.used)  BY <1>3, SetTwo
  <2>1. found.at = "list" /\ found.filters = f.filters /\ found.asked = f.asked /\ found.given = list
        /\ found.used = f.used
    BY <2>0 DEF Fields
  <2> HIDE DEF found
  <2>2. fetch'[a] = found  BY <1>5 DEF DeliveryInv, D!Go
  <2>3. Targeted(a)' <=> Targeted(a)  BY <2>1, <2>2 DEF Targeted, D!Known
  <2>4. ASSUME Targeted(a)  PROVE FiltersFit(a)' /\ GivenFits(a)'
    <3>1. FiltersFit(a)  BY <1>1, <1>2, <2>4 DEF FetchOK
    <3>2. FiltersFit(a)'
      <4>1. UNCHANGED <<rule, touched>> /\ fetch'[a].asked = fetch[a].asked /\ fetch'[a].filters = fetch[a].filters
        BY <1>1, <1>2, <2>1, <2>2
      <4>2. Standing(a)' = Standing(a)  BY <4>1 DEF Standing, D!InForce, D!InScope
      <4>3. QED  BY <3>1, <4>1, <4>2 DEF FiltersFit
    <3>3. due = {s \in Skill : DueTo(a, s)}
      BY <2>4 DEF D!Listed, D!InScope, DueTo, Targeted
    <3>4. \A s \in Skill : DueTo(a, s)' <=> DueTo(a, s)
      BY <1>2, <2>1, <2>2 DEF DueTo
    <3>5. due \subseteq Skill /\ f.filters \subseteq Body  BY <3>1, <3>3 DEF FiltersFit
    <3> HIDE DEF due
    <3>6. FilterLeaves(list, due, f.filters)
      <4> DEFINE bodies == f.filters
      <4>1. bodies \in SUBSET Body /\ due \in SUBSET Skill  BY <3>5
      <4>2. list = D!Filtered(due, bodies)  BY DEF list
      <4> HIDE DEF bodies
      <4>3. FilterLeaves(list, due, bodies)  BY <4>1, <4>2, FilteredFacts, Zenon
      <4>4. QED  BY <4>3 DEF bodies
    <3>8. \A s : Keeps(s, fetch[a].filters)' <=> Keeps(s, f.filters)
      BY <2>1, <2>2 DEF Keeps, Excluded, Included, Selective, D!Matches
    <3>9. list \subseteq Skill  BY <3>5, <3>6 DEF FilterLeaves
    <3>10. \A s \in list : Keeps(s, f.filters) /\ DueTo(a, s)'
      BY <3>3, <3>4, <3>6, <3>9 DEF FilterLeaves
    <3>11. \A s \in Skill \ (list \cup touched'[a]) : (DueTo(a, s)' /\ Keeps(s, f.filters)) =>
              /\ \E b \in f.filters : b.max # 0 /\ b.max = Cardinality(list)
              /\ \A t \in list : t > s
      BY <3>3, <3>4, <3>6 DEF FilterLeaves
    <3>12. GivenFits(a)'
      BY <2>1, <2>2, <3>6, <3>8, <3>9, <3>10, <3>11 DEF GivenFits, FilterLeaves
    <3>13. QED  BY <3>2, <3>12
  <2>5. f.asked.target = None \/ Targeted(a)  BY <1>1, <1>2 DEF FetchOK
  <2>6. FetchOK(a)'  BY <2>0, <2>1, <2>2, <2>3, <2>4, <2>5 DEF FetchOK, D!Known, Targeted
  <2>7. QED  BY <1>1, <1>5, <2>6, FetchStep DEF DeliveryInv
<1>6. QED  BY <1>1, <1>4, <1>5
\* After the prompt is made, a step of the fetch changes what is counted and no more.
LEMMA GivenStays ==
  ASSUME DeliveryInv, NEW a \in Agent, NEW after, D!Go(a, after), touched' = touched,
         fetch[a].at \in {"list", "mark"}, NEW at \in {"mark", "done"}, NEW used,
         Fields(after, at, fetch[a].asked, fetch[a].filters, fetch[a].given, used)
  PROVE  DeliveryInv'
<1> DEFINE f == fetch[a]
<1>1. FetchOK(a) /\ UNCHANGED <<rule, skill>>  BY DEF DeliveryInv, D!Go
<1>2. after.at = at /\ after.filters = f.filters /\ after.asked = f.asked /\ after.given = f.given /\ after.used = used
  BY DEF Fields
<1>3. fetch'[a] = after  BY DEF DeliveryInv, D!Go
<1>4. Targeted(a)' <=> Targeted(a)  BY <1>2, <1>3 DEF Targeted, D!Known
<1>5. ASSUME Targeted(a)  PROVE FiltersFit(a)' /\ GivenFits(a)'
  <2>1. FiltersFit(a) /\ GivenFits(a)  BY <1>1, <1>5 DEF FetchOK
  <2>2. /\ UNCHANGED <<rule, skill, touched>> /\ fetch'[a].asked = fetch[a].asked
        /\ fetch'[a].filters = fetch[a].filters /\ fetch'[a].given = fetch[a].given
    BY <1>1, <1>2, <1>3
  <2>3. Standing(a)' = Standing(a)  BY <2>2 DEF Standing, D!InForce, D!InScope
  <2>4. FiltersFit(a)'  BY <2>1, <2>2, <2>3 DEF FiltersFit
  <2>5. \A s \in Skill : DueTo(a, s)' <=> DueTo(a, s)  BY <2>2 DEF DueTo
  <2>6. \A s : Keeps(s, fetch[a].filters)' <=> Keeps(s, f.filters)
    BY <2>2 DEF Keeps, Excluded, Included, Selective, D!Matches
  <2>7. GivenFits(a)'  BY <2>1, <2>2, <2>5, <2>6 DEF GivenFits
  <2>8. QED  BY <2>4, <2>7
<1>6. FetchOK(a)'  BY <1>1, <1>2, <1>3, <1>4, <1>5 DEF FetchOK, D!Known, Targeted
<1>7. QED  BY <1>6, FetchStep DEF DeliveryInv

\* The entries to count are listed.
LEMMA ListUsedInv ==
  ASSUME DeliveryInv, NEW a \in Agent, D!ListUsed(a)
  PROVE  DeliveryInv'
<1> DEFINE f == fetch[a]
           used == D!Listed([f.asked EXCEPT !.target = None])
           after == [f EXCEPT !.at = "mark", !.used = used]
<1>1. touched' = touched /\ f.at = "list" /\ D!Go(a, after)
  BY DEF D!ListUsed
<1> HIDE DEF used
<1>2. FetchOK(a) /\ Fields(f, f.at, f.asked, f.filters, f.given, f.used)  BY DEF DeliveryInv, FetchOK
<1>3. Fields(after, "mark", f.asked, f.filters, f.given, used)  BY <1>2, SetTwo
<1> HIDE DEF after
<1>4. QED  BY <1>1, <1>3, GivenStays

\* The entries are counted.
LEMMA MarkInv ==
  ASSUME DeliveryInv, NEW a \in Agent, D!Mark(a)
  PROVE  DeliveryInv'
<1> DEFINE f == fetch[a]
           used == {s \in f.used : skill[s].active}
           after == [f EXCEPT !.at = "done", !.used = used]
<1>1. touched' = touched /\ f.at = "mark" /\ D!Go(a, after)
  BY DEF D!Mark
<1> HIDE DEF used
<1>2. FetchOK(a) /\ Fields(f, f.at, f.asked, f.filters, f.given, f.used)  BY DEF DeliveryInv, FetchOK
<1>3. Fields(after, "done", f.asked, f.filters, f.given, used)  BY <1>2, SetTwo
<1> HIDE DEF after
<1>4. QED  BY <1>1, <1>3, GivenStays

\* The fetch is over.
LEMMA LeaveInv ==
  ASSUME DeliveryInv, NEW a \in Agent, D!Leave(a)
  PROVE  DeliveryInv'
<1>1. D!Go(a, D!Idle) /\ touched' = touched  BY DEF D!Leave
<1>2. fetch'[a] = D!Idle  BY <1>1 DEF DeliveryInv, D!Go
<1>3. FetchOK(a)'  BY <1>2 DEF FetchOK, D!Idle, Fields
<1>4. QED  BY <1>1, <1>3, FetchStep DEF DeliveryInv

\* A proposal writes an entry: whoever fetches has it as touched.
LEMMA WriteSkillInv ==
  ASSUME DeliveryInv, NEW s \in Skill, NEW row \in D!SkillRow, D!WriteSkill(s, row)
  PROVE  DeliveryInv'
<1>1. fetch' = fetch /\ rule' = rule /\ skill' = [skill EXCEPT ![s] = row]
      /\ touched' = [u \in Agent |-> IF fetch[u] = D!Idle THEN touched[u] ELSE touched[u] \cup {s}]
  BY DEF D!WriteSkill, D!Wrote
<1>2. skill' \in [Skill -> D!SkillRow]  BY <1>1 DEF DeliveryInv
<1>3. \A x \in Skill \ {s} : skill'[x] = skill[x]  BY <1>1 DEF DeliveryInv
<1>4. ASSUME NEW u \in Agent  PROVE FetchOK(u)'
  <2>1. fetch[u].at # "idle" => touched'[u] = touched[u] \cup {s}  BY <1>1 DEF D!Idle
  <2>2. QED  BY <1>1, <1>3, <2>1, FetchStays DEF DeliveryInv
<1>5. touched' = [u \in Agent |-> touched'[u]]  BY <1>1
<1>6. QED  BY <1>1, <1>2, <1>4, <1>5 DEF DeliveryInv

\* A proposal writes a rule: whoever fetches has it as touched.
LEMMA WriteRuleInv ==
  ASSUME DeliveryInv, NEW r \in Rule, NEW row \in D!RuleRow \ {None}, D!WriteRule(r, row)
  PROVE  DeliveryInv'
<1>1. fetch' = fetch /\ skill' = skill /\ rule' = [rule EXCEPT ![r] = row]
      /\ touched' = [u \in Agent |-> IF fetch[u] = D!Idle THEN touched[u] ELSE touched[u] \cup {r}]
  BY DEF D!WriteRule, D!Wrote
<1>2. rule' \in [Rule -> D!RuleRow]  BY <1>1 DEF DeliveryInv
<1>3. \A x \in Rule \ {r} : rule'[x] = rule[x]  BY <1>1 DEF DeliveryInv
<1>4. ASSUME NEW u \in Agent  PROVE FetchOK(u)'
  <2>1. fetch[u].at # "idle" => touched'[u] = touched[u] \cup {r}  BY <1>1 DEF D!Idle
  <2>2. QED  BY <1>1, <1>3, <2>1, FetchStays DEF DeliveryInv
<1>5. touched' = [u \in Agent |-> touched'[u]]  BY <1>1
<1>6. QED  BY <1>1, <1>2, <1>4, <1>5 DEF DeliveryInv

\* Every step of a fetch or of a proposal keeps the invariant.
LEMMA DeliveryNextInv ==
  ASSUME DeliveryInv, [D!Next]_(D!vars)
  PROVE  DeliveryInv'
<1>1. CASE UNCHANGED D!vars
  <2>1. UNCHANGED <<skill, rule, fetch, touched>>  BY <1>1 DEF D!vars
  <2>2. \A a \in Agent : FetchOK(a)'  BY <2>1, FetchStays DEF DeliveryInv
  <2>3. QED  BY <2>1, <2>2 DEF DeliveryInv
<1>2. ASSUME NEW a \in Agent, NEW asked \in D!Request, D!Ask(a, asked)  PROVE DeliveryInv'
  BY <1>2, AskInv
<1>3. ASSUME NEW a \in Agent, D!ReadRules(a)  PROVE DeliveryInv'  BY <1>3, ReadRulesInv
<1>4. ASSUME NEW a \in Agent, D!ReadSkills(a)  PROVE DeliveryInv'  BY <1>4, ReadSkillsInv
<1>5. ASSUME NEW a \in Agent, D!ListUsed(a)  PROVE DeliveryInv'  BY <1>5, ListUsedInv
<1>6. ASSUME NEW a \in Agent, D!Mark(a)  PROVE DeliveryInv'  BY <1>6, MarkInv
<1>7. ASSUME NEW a \in Agent, D!Leave(a)  PROVE DeliveryInv'  BY <1>7, LeaveInv
<1>8. ASSUME NEW s \in Skill, NEW row \in D!SkillRow, D!WriteSkill(s, row)  PROVE DeliveryInv'
  BY <1>8, WriteSkillInv
<1>9. ASSUME NEW r \in Rule, NEW row \in D!RuleRow \ {None}, D!WriteRule(r, row)  PROVE DeliveryInv'
  BY <1>9, WriteRuleInv
<1>10. QED  BY <1>1, <1>2, <1>3, <1>4, <1>5, <1>6, <1>7, <1>8, <1>9 DEF D!Next

\* At first nobody fetches.
LEMMA DeliveryInitInv == D!Init => DeliveryInv
<1> SUFFICES ASSUME D!Init  PROVE DeliveryInv  OBVIOUS
<1>1. \A a \in Agent : fetch[a] = D!Idle  BY DEF D!Init
<1>2. \A a \in Agent : FetchOK(a)  BY <1>1 DEF FetchOK, D!Idle, Fields
<1>3. QED  BY <1>2 DEF D!Init, DeliveryInv

\* The invariant says of each fetch what the rules asked for.
LEMMA FilteredIsRight == DeliveryInv => D!PromptFollowsTheRules
<1> SUFFICES ASSUME DeliveryInv, NEW a \in Agent,
                    fetch[a].at \in {"list", "mark", "done"}, fetch[a].asked.target # None
             PROVE  IF ~ D!Known(fetch[a].asked.target) THEN fetch[a].given = {}
                    ELSE /\ \A s \in fetch[a].given \ touched[a] : DueTo(a, s)
                         /\ \A s \in fetch[a].given : ~ Excluded(s, Standing(a))
                         /\ \A b \in Standing(a) : b.max # 0 => Cardinality(fetch[a].given) <= b.max
                         /\ Rule \cap touched[a] = {} =>
                            /\ \A s \in fetch[a].given : Included(s, Standing(a)) \/ ~ Selective(Standing(a))
                            /\ \A s \in Skill \ (fetch[a].given \cup touched[a]) :
                                 (DueTo(a, s) /\ Keeps(s, Standing(a))) =>
                                   /\ \E b \in Standing(a) : b.max # 0 /\ b.max = Cardinality(fetch[a].given)
                                   /\ \A t \in fetch[a].given : t > s
  BY SameCounts DEF D!PromptFollowsTheRules, Standing, DueTo, Keeps, Excluded, Included, Selective
<1> DEFINE f == fetch[a]
<1>1. FetchOK(a)  BY DEF DeliveryInv
<1>2. CASE ~ D!Known(f.asked.target)  BY <1>1, <1>2 DEF FetchOK
<1>3. CASE D!Known(f.asked.target)
  <2>1. FiltersFit(a) /\ GivenFits(a)  BY <1>1, <1>3 DEF FetchOK, Targeted
  <2>2. \A s \in f.given \ touched[a] : DueTo(a, s)  BY <2>1 DEF GivenFits
  <2>3. \A s \in f.given : ~ Excluded(s, Standing(a))
    BY <2>1 DEF GivenFits, FiltersFit, Keeps, Excluded
  <2>4. \A b \in Standing(a) : b.max # 0 => Cardinality(f.given) <= b.max
    BY <2>1 DEF GivenFits, FiltersFit
  <2>5. ASSUME Rule \cap touched[a] = {}
        PROVE  /\ \A s \in f.given : Included(s, Standing(a)) \/ ~ Selective(Standing(a))
               /\ \A s \in Skill \ (f.given \cup touched[a]) : (DueTo(a, s) /\ Keeps(s, Standing(a))) =>
                    /\ \E b \in Standing(a) : b.max # 0 /\ b.max = Cardinality(f.given)
                    /\ \A t \in f.given : t > s
    <3>1. f.filters = Standing(a)  BY <2>1, <2>5 DEF FiltersFit
    <3>2. QED  BY <2>1, <3>1 DEF GivenFits, Keeps
  <2>6. QED  BY <1>3, <2>2, <2>3, <2>4, <2>5
<1>4. QED  BY <1>2, <1>3

\* A prompt for a target obeys every rule that stood while it was made (render_context,
\* _apply_delivery_rule_filters).
THEOREM PromptIsRightAlways == D!Init /\ [][D!Next]_(D!vars) => []PromptIsRight
<1>1. DeliveryInv /\ [D!Next]_(D!vars) => DeliveryInv'  BY DeliveryNextInv
<1>2. DeliveryInv => PromptIsRight  BY FilteredIsRight DEF PromptIsRight
<1>3. QED  BY DeliveryInitInv, <1>1, <1>2, PTL
================================================================================
