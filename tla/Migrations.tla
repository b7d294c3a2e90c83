------------------------------- MODULE Migrations ------------------------------
(* initialize_database (storage.py 1051-1198), which every call of the program *)
(* begins with: it brings a database of any older version up to date while     *)
(* other processes open, use and upgrade the same file.  A statement that      *)
(* defines or drops a table commits by itself; only the seeding of policies    *)
(* and the record of the version share a transaction.  All tests of what there *)
(* is are made before, each on its own.                                        *)
(*                                                                             *)
(* One table stands for those that are renamed (checks), one for those that    *)
(* are rebuilt (skills), one column for those that are added to skills; there  *)
(* is one profile.  Tables that are only dropped are left out.                 *)
EXTENDS Naturals, FiniteSets

CONSTANTS
  Process, Server,   \* the server opens the database again and again
  Row,
  First,         \* the rows an old database begins with
  Versions,      \* the versions of the database found: 0 is an empty file
  MaxCrashes     \* bound on the processes that die

Current == 34    \* SCHEMA_VERSION

ASSUME MigrationsAssumption ==
  Server \in Process /\ First \subseteq Row /\ Versions \subseteq 0..Current /\ MaxCrashes \in Nat

VARIABLES
  version,    \* user_version and the last of schema_migrations
  profile,    \* whether there is a profile
  checks,     \* which name the check tables have, hidden: rows under the old name
  policy,     \* autonomy_policies: no table, old shape, no row, seeded or set by hand
  skills,     \* the table: its shape, whether it has the new column, its rows
  tmp,        \* _skills_rebuild_tmp, which holds what a rebuild moved away
  pc, saw,    \* where each process is, and the version it read
  crashes,
  written,    \* history: rows that were ever committed
  broken,     \* history: a rebuild died, failed or met another after its rename
  met         \* history: a rebuild dropped what another had moved away

vars == <<version, profile, checks, policy, skills, tmp, pc, saw, crashes, written, broken, met>>
tables == <<version, profile, checks, policy, skills, tmp>>
history == <<written, broken, met>>

Missing == [shape |-> "missing", column |-> FALSE, rows |-> {}]
Fresh == [shape |-> "new", column |-> TRUE, rows |-> {}]
Table == [shape : {"missing", "legacy", "new"}, column : BOOLEAN, rows : SUBSET Row]

Moved == {"recreate", "copy"}     \* after the rename of skills, before its copy
Opening == {"rename", "renaming", "drop", "create", "ensure", "adding", "rebuild",
            "columns", "droptmp", "renametmp", "seed"} \cup Moved

(* Names of version 25, policies of 31, the issue folded into skills of 32.    *)
Init ==
  /\ version \in Versions /\ profile = (version # 0)
  /\ checks = IF version = 0 THEN "none" ELSE IF version < 25 THEN "old" ELSE "new"
  /\ policy = IF version = 0 THEN "no table" ELSE IF version < 31 THEN "old" ELSE "set"
  /\ skills = IF version = 0 THEN Missing
              ELSE [shape |-> IF version < 32 THEN "legacy" ELSE "new", column |-> version >= 32, rows |-> First]
  /\ tmp = Missing
  /\ pc = [p \in Process |-> "closed"] /\ saw = [p \in Process |-> 0]
  /\ crashes = 0 /\ written = skills.rows /\ broken = FALSE /\ met = FALSE

At(p, here) == pc[p] = here
Goto(p, next) == pc' = [pc EXCEPT ![p] = next]

(* An error leaves initialize_database; what was done so far stays done.       *)
Raise(p) ==
  /\ Goto(p, "closed")
  /\ broken' = (broken \/ pc[p] \in Moved)
  /\ UNCHANGED <<tables, saw, crashes, written, met>>

Step(p, next, changed) ==
  /\ Goto(p, next)
  /\ UNCHANGED <<changed, saw, crashes, history>>

--------------------------------------------------------------------------------
(* The steps of an open                                                        *)

Open(p) ==
  /\ At(p, "closed") /\ version <= Current
  /\ saw' = [saw EXCEPT ![p] = version]
  /\ Goto(p, "rename")
  /\ UNCHANGED <<tables, crashes, history>>

(* SCHEMA_SQL creates what does not exist.                                     *)
Script ==
  /\ checks' = CASE checks = "none" -> "new" [] checks = "old" -> "hidden" [] OTHER -> checks
  /\ policy' = IF policy = "no table" THEN "no row" ELSE policy
  /\ skills' = IF skills = Missing THEN Fresh ELSE skills

\* Variant: the tables are created before they are renamed.
CreateFirst(p) ==
  /\ At(p, "rename")
  /\ Script
  /\ Step(p, IF checks = "old" THEN "ensure" ELSE "drop", <<version, profile, tmp>>)

TestRename(p) ==
  /\ At(p, "rename")
  /\ Step(p, IF checks = "old" THEN "renaming" ELSE "drop", tables)

Rename(p) ==
  /\ At(p, "renaming")
  /\ \/ /\ checks = "old" /\ checks' = "new"
        /\ Step(p, "drop", <<version, profile, policy, skills, tmp>>)
     \/ checks # "old" /\ Raise(p)

DropPolicies(p) ==
  /\ At(p, "drop")
  /\ policy' = IF saw[p] < 31 THEN "no table" ELSE policy
  /\ Step(p, "create", <<version, profile, checks, skills, tmp>>)

Create(p) ==
  /\ At(p, "create")
  /\ Script
  /\ Step(p, "ensure", <<version, profile, tmp>>)

\* Variant: the column is added without a look.
TestNoColumn(p) ==
  /\ At(p, "ensure")
  /\ Step(p, "adding", tables)

TestColumn(p) ==
  /\ At(p, "ensure")
  /\ Step(p, IF skills.column THEN "rebuild" ELSE "adding", tables)

AddColumn(p) ==
  /\ At(p, "adding")
  /\ \/ /\ skills.shape # "missing" /\ ~ skills.column
        /\ skills' = [skills EXCEPT !.column = TRUE]
        /\ Step(p, "rebuild", <<version, profile, checks, policy, tmp>>)
     \/ (skills.shape = "missing" \/ skills.column) /\ Raise(p)

TestShape(p) ==
  /\ At(p, "rebuild")
  /\ Step(p, IF skills.shape = "legacy" THEN "columns" ELSE "seed", tables)

ReadColumns(p) ==
  /\ At(p, "columns")
  /\ Step(p, IF skills.shape = "missing" THEN "seed" ELSE "droptmp", tables)

(* What is dropped should be the rest of a rebuild that failed.                *)
DropTmp(p) ==
  /\ At(p, "droptmp")
  /\ tmp' = Missing
  /\ met' = (met \/ tmp # Missing)
  /\ broken' = (broken \/ tmp # Missing)
  /\ Goto(p, "renametmp")
  /\ UNCHANGED <<version, profile, checks, policy, skills, saw, crashes, written>>

RenameTmp(p) ==
  /\ At(p, "renametmp")
  /\ \/ /\ skills.shape # "missing" /\ tmp = Missing
        /\ tmp' = skills /\ skills' = Missing
        /\ Step(p, "recreate", <<version, profile, checks, policy>>)
     \/ (skills.shape = "missing" \/ tmp # Missing) /\ Raise(p)

Recreate(p) ==
  /\ At(p, "recreate")
  /\ Script
  /\ Step(p, "copy", <<version, profile, tmp>>)

(* Copy and drop, in one transaction.                                          *)
Copy(p) ==
  /\ At(p, "copy")
  /\ \/ /\ skills.shape # "missing" /\ tmp # Missing /\ tmp.rows \cap skills.rows = {}
        /\ skills' = [skills EXCEPT !.rows = @ \cup tmp.rows]
        /\ tmp' = Missing
        /\ Step(p, "seed", <<version, profile, checks, policy>>)
     \/ /\ skills.shape = "missing" \/ tmp = Missing \/ tmp.rows \cap skills.rows # {}
        /\ Raise(p)

(* Indexes on skills, policies of the profiles, and the version, committed at  *)
(* once.                                                                       *)
Reseeds(p) == saw[p] < 31 /\ profile

Seed(p) ==
  /\ At(p, "seed")
  /\ \/ /\ skills.shape # "missing" /\ (Reseeds(p) => policy # "no table")
        /\ policy' = IF Reseeds(p) /\ policy = "no row" THEN "seeded" ELSE policy
        /\ version' = Current
        /\ Step(p, "open", <<profile, checks, skills, tmp>>)
     \/ /\ skills.shape = "missing" \/ (Reseeds(p) /\ policy = "no table")
        /\ Raise(p)

--------------------------------------------------------------------------------
(* What a call does then                                                       *)

WriteSkill(p, r) ==
  /\ At(p, "open") /\ r \notin written /\ skills.shape # "missing"
  /\ skills' = [skills EXCEPT !.rows = @ \cup {r}]
  /\ written' = written \cup {r}
  /\ Goto(p, "closed")
  /\ UNCHANGED <<version, profile, checks, policy, tmp, saw, crashes, broken, met>>

SetPolicy(p) ==
  /\ At(p, "open") /\ policy \in {"seeded", "set"}
  /\ policy' = "set"
  /\ Step(p, "closed", <<version, profile, checks, skills, tmp>>)

Ingest(p) ==
  /\ At(p, "open") /\ policy # "no table"
  /\ profile' = TRUE
  /\ policy' = IF policy = "no row" THEN "seeded" ELSE policy
  /\ Step(p, "closed", <<version, checks, skills, tmp>>)

(* A call that only reads, or fails because a table is away.                   *)
Close(p) ==
  /\ At(p, "open")
  /\ Step(p, "closed", tables)

Crash(p) ==
  /\ pc[p] # "closed" /\ crashes < MaxCrashes
  /\ crashes' = crashes + 1
  /\ broken' = (broken \/ pc[p] \in Moved)
  /\ Goto(p, "closed")
  /\ UNCHANGED <<tables, saw, written, met>>

Work(p) ==
  \/ TestRename(p) \/ Rename(p) \/ DropPolicies(p) \/ Create(p) \/ TestColumn(p) \/ AddColumn(p)
  \/ TestShape(p) \/ ReadColumns(p) \/ DropTmp(p) \/ RenameTmp(p) \/ Recreate(p) \/ Copy(p) \/ Seed(p)

Use(p) == (\E r \in Row : WriteSkill(p, r)) \/ SetPolicy(p) \/ Ingest(p) \/ Close(p)

Next == \E p \in Process : Open(p) \/ Work(p) \/ Use(p) \/ Crash(p)

(* A call that began goes on; the scheduler of the server opens the database   *)
(* at every tick, the others when they like.                                   *)
Fairness ==
  /\ WF_vars(Open(Server))
  /\ \A p \in Process : WF_vars(Work(p)) /\ WF_vars(Use(p))
Spec == Init /\ [][Next]_vars
FairSpec == Spec /\ Fairness

--------------------------------------------------------------------------------
(* Properties                                                                  *)

(* The shapes that the steps of an upgrade leave.                              *)
TypeOK ==
  /\ version \in 0..Current /\ profile \in BOOLEAN /\ checks \in {"none", "old", "new", "hidden"}
  /\ policy \in {"no table", "old", "no row", "seeded", "set"}
  /\ skills \in Table /\ tmp \in Table
  /\ pc \in [Process -> Opening \cup {"closed", "open"}] /\ saw \in [Process -> 0..Current]

(* However opens, failures and crashes interleave: the rows of check tables    *)
(* are never behind an empty table of the new name (storage.py:1059-1063); a   *)
(* skill is in its table unless a rebuild that had renamed the table died,     *)
(* failed or met another; and then it is still in the table it was moved to,   *)
(* unless another rebuild dropped that one.                                    *)
RowsAreAccountedFor ==
  /\ TypeOK
  /\ checks # "hidden"
  /\ (~ broken /\ \A p \in Process : pc[p] \notin Moved) => written \subseteq skills.rows
  /\ ~ met => written \subseteq skills.rows \cup tmp.rows

(* Once the others leave the server alone, the database is up to date for      *)
(* good: whatever their opens, crashes and failures left half done, a later    *)
(* open completes.  Side by side they may fail each other for ever: one drops  *)
(* the policies whenever another is about to seed them.                        *)
UpgradeCompletes ==
  <>[](\A p \in Process \ {Server} : pc[p] = "closed")
  => <>[](version = Current /\ checks = "new" /\ skills.shape = "new" /\ skills.column)

(* storage.py:1714, "Rebuild table to its canonical SCHEMA_SQL definition,     *)
(* preserving rows": when no rebuild is under way, each skill is in its table. *)
RebuildPreservesRows ==
  (\A p \in Process : pc[p] \notin Moved) => written \subseteq skills.rows

(* storage.py:1075, "this destructive step runs once on upgrade": what a human *)
(* has set stays.  An opener that read the old version before another upgraded *)
(* drops the table again.                                                      *)
SettingsSurvive == [][policy = "set" => policy' = "set"]_vars
================================================================================
