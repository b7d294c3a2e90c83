-------------------------------- MODULE Harness --------------------------------
(***************************************************************************)
(* Repository patches: a harness proposal is prepared into patch            *)
(* transactions, each is written to the working tree with its preimages      *)
(* recorded, and may be rolled back (kyoko/harness.py, and the callers in    *)
(* apply.py and autonomy_runner.py).                                         *)
(*                                                                         *)
(* A transaction reads its row in autocommit, then takes SQLite's write lock *)
(* (_ensure_kyoko_source) and holds it while files are checked, read and      *)
(* written: writers of Kyoko never mix, but what was read before the lock may *)
(* be stale, and a crash undoes the row and not the files.  The lock means     *)
(* nothing to editors and to git: humans change and commit files at any time,  *)
(* between the dirty check, the reading of a preimage and a write too.         *)
(* Permission to patch the repository is the matter of module Routing.         *)
(***************************************************************************)
EXTENDS Naturals, Sequences, FiniteSets, SequencesExt

CONSTANTS
  Callers,      \* processes: dashboard, CLI, MCP, the improvement loop
  Proposals, Patches,
  Plan,         \* proposal -> the patches of its changes, in order
  Files,        \* patch -> the files it writes: path, content, expected
  Paths, Contents,
  Absent,       \* the content of a file that does not exist
  InitialTrees, \* working trees the program may find
  AnyContent,   \* "expected" of a generated file; a strict diff names one
  DirtyPolicy,  \* dirty_worktree_policy
  Repository,   \* whether the workspace has a .git
  Ignored,      \* untracked paths that .gitignore names
  Lockable,     \* paths that humans lock
  Foreign,      \* contents that edits from outside give a file
  MaxEdits,     \* bound on the edits from outside
  None

File == [path : Paths, content : Contents \cup {Absent},
         expected : Contents \cup {Absent, AnyContent}]

ASSUME HarnessAssumption ==
  /\ Plan \in [Proposals -> Seq(Patches)]
  /\ \A p \in Proposals : IsInjective(Plan[p]) /\ Plan[p] # <<>>
  /\ \A p, q \in Proposals : p # q => ToSet(Plan[p]) \cap ToSet(Plan[q]) = {}
  /\ Patches = UNION {ToSet(Plan[p]) : p \in Proposals}
  /\ Files \in [Patches -> Seq(File)]
  /\ \A t \in Patches : Files[t] # <<>>
  /\ InitialTrees \subseteq [Paths -> Contents \cup {Absent}]
  /\ DirtyPolicy \in {"block", "allow_touched_only", "allow"}
  /\ Repository \in BOOLEAN /\ Ignored \subseteq Paths /\ Lockable \subseteq Paths
  /\ Foreign \subseteq Contents \cup {Absent} /\ MaxEdits \in Nat

VARIABLES
  files,   \* the working tree
  head,    \* what git has committed
  patches, \* rows of patch_transactions, None until prepared
  state,   \* learning_proposals.state
  locks,   \* harness_target_locks
  writer,  \* who holds the write lock across steps
  call,    \* what each caller is in the middle of
  edited,  \* paths edited from outside since the writer checked or wrote them
  edits    \* edits from outside so far

vars == <<files, head, patches, state, locks, writer, call, edited, edits>>

Tree == [Paths -> Contents \cup {Absent}]

\* "pre" is what rollback_json records.
Row == [status : {"ready", "applied", "rolled_back"}, pre : Seq(Contents \cup {Absent})]

ASSUME NoneAssumption ==
  None \notin Callers /\ None \notin Proposals /\ None \notin Patches /\ None \notin Row

Call == [pc : {"idle", "prepare", "plan", "read", "begin", "reading", "writing", "mark",
               "undo", "restoring"},
         goal : {"prepare", "apply", "autonomy"},
         proposal : Proposals \cup {None}, queue : SUBSET Patches,
         patch : Patches \cup {None}, pre : Seq(Contents \cup {Absent}), next : Nat]

Idle == [pc |-> "idle", goal |-> "prepare", proposal |-> None, queue |-> {},
         patch |-> None, pre |-> <<>>, next |-> 0]

TypeOK ==
  /\ files \in Tree /\ head \in Tree
  /\ patches \in [Patches -> Row \cup {None}]
  /\ state \in [Proposals -> {"pending", "applied", "rolled_back"}]
  /\ locks \subseteq Paths
  /\ writer \in Callers \cup {None}
  /\ call \in [Callers -> Call]
  /\ edited \subseteq Paths /\ edits \in Nat

\* A clean checkout, beside what git ignores.
Init ==
  /\ files \in InitialTrees
  /\ head = [path \in Paths |-> IF path \in Ignored THEN Absent ELSE files[path]]
  /\ patches = [t \in Patches |-> None]
  /\ state = [p \in Proposals |-> "pending"]
  /\ locks = {}
  /\ writer = None
  /\ call = [c \in Callers |-> Idle]
  /\ edited = {} /\ edits = 0

Targets(t) == {Files[t][k].path : k \in DOMAIN Files[t]}

Status(t) == IF patches[t] = None THEN "none" ELSE patches[t].status

ProposalOf(t) == CHOOSE p \in Proposals : t \in ToSet(Plan[p])

\* The patches of a queue are taken in the order of the proposal's changes (the
\* loop sorts them by id: the same order as long as there are fewer than ten).
IsFirst(t, queue) ==
  \A p \in Proposals : \A j, k \in DOMAIN Plan[p] :
    Plan[p][j] \in queue /\ Plan[p][k] = t => k <= j

Go(c, row) == call' = [call EXCEPT ![c] = row]

--------------------------------------------------------------------------------
(* Preparing: prepare_harness_proposal, by a command of its own or on the way  *)
(* to an apply by a human (apply_proposal) or by the loop (run_autonomy).      *)

PrepareRead(c, p, goal) ==
  /\ call[c].pc = "idle"
  /\ state[p] = "pending"
  /\ Go(c, [Idle EXCEPT !.pc = "prepare", !.goal = goal, !.proposal = p])
  /\ UNCHANGED <<files, head, patches, state, locks, writer, edited, edits>>

Prepared(p) == \E k \in DOMAIN Plan[p] : patches[Plan[p][k]] # None

\* A proposal is prepared at most once, and not onto a locked target; what it
\* is prepared for then goes on.
Prepare(c) ==
  LET p == call[c].proposal
  IN /\ call[c].pc = "prepare"
     /\ writer = None
     /\ IF Prepared(p) \/ (\E t \in ToSet(Plan[p]) : Targets(t) \cap locks # {})
        THEN Go(c, Idle) /\ UNCHANGED patches
        ELSE /\ patches' = [t \in Patches |->
                  IF t \in ToSet(Plan[p])
                  THEN [status |-> "ready", pre |-> <<>>] ELSE patches[t]]
             /\ Go(c, CASE call[c].goal = "prepare"  -> Idle
                        [] call[c].goal = "apply"    ->
                             [call[c] EXCEPT !.pc = "read", !.queue = ToSet(Plan[p])]
                        [] call[c].goal = "autonomy" -> [call[c] EXCEPT !.pc = "plan"])
     /\ UNCHANGED <<files, head, state, locks, writer, edited, edits>>

\* The loop lists the pending proposals first ...
AutonomyList(c, p) ==
  /\ call[c].pc = "idle"
  /\ state[p] = "pending"
  /\ Go(c, [Idle EXCEPT !.pc = "plan", !.goal = "autonomy", !.proposal = p])
  /\ UNCHANGED <<files, head, patches, state, locks, writer, edited, edits>>

\* ... and when it comes to this one prepares it, or takes the patches that are
\* still ready (_ready_patch_transaction_ids).
AutonomyPlan(c) ==
  LET p == call[c].proposal
  IN /\ call[c].pc = "plan"
     /\ Go(c, IF Prepared(p)
              THEN [call[c] EXCEPT !.pc = "read",
                      !.queue = {t \in ToSet(Plan[p]) : Status(t) = "ready"}]
              ELSE IF state[p] = "pending" THEN [call[c] EXCEPT !.pc = "prepare"]
              ELSE Idle)
     /\ UNCHANGED <<files, head, patches, state, locks, writer, edited, edits>>

--------------------------------------------------------------------------------
(* Writing one patch: apply_patch_transaction. *)

\* One patch by a command of its own; the proposal's state is left alone.
ApplyPatch(c, t) ==
  /\ call[c].pc = "idle"
  /\ Go(c, [Idle EXCEPT !.pc = "read", !.queue = {t}])
  /\ UNCHANGED <<files, head, patches, state, locks, writer, edited, edits>>

\* The queue is done.
QueueDone(c) ==
  /\ call[c].pc = "read"
  /\ call[c].queue = {}
  /\ Go(c, IF call[c].proposal = None THEN Idle ELSE [call[c] EXCEPT !.pc = "mark"])
  /\ UNCHANGED <<files, head, patches, state, locks, writer, edited, edits>>

\* Variant: a patch that was refused is passed over.
ReadPatchSkips(c, t) ==
  /\ call[c].pc = "read"
  /\ t \in call[c].queue
  /\ IsFirst(t, call[c].queue)
  /\ Go(c, IF Status(t) = "ready" /\ Targets(t) \cap locks = {}
           THEN [call[c] EXCEPT !.pc = "begin", !.patch = t, !.queue = @ \ {t}]
           ELSE [call[c] EXCEPT !.queue = @ \ {t}])
  /\ UNCHANGED <<files, head, patches, state, locks, writer, edited, edits>>

\* The row is read, and its status judged, before the write lock is taken.  A
\* patch that is not ready is an error, which ends the whole call.
ReadPatch(c, t) ==
  /\ call[c].pc = "read"
  /\ t \in call[c].queue
  /\ IsFirst(t, call[c].queue)
  /\ Go(c, IF Status(t) = "ready"
           THEN [call[c] EXCEPT !.pc = "begin", !.patch = t, !.queue = @ \ {t}]
           ELSE Idle)
  /\ UNCHANGED <<files, head, patches, state, locks, writer, edited, edits>>

\* What git status reports of the paths: nothing of ignored ones, and nothing
\* at all where there is no repository.
Reported(paths) == {path \in paths : Repository /\ path \notin Ignored /\ files[path] # head[path]}

\* Variant: only the first target is handed to git status.
DirtyFirstTarget(t) ==
  \/ DirtyPolicy = "block" /\ Reported(Paths) # {}
  \/ DirtyPolicy = "allow_touched_only" /\ Reported({Files[t][1].path}) # {}

\* _check_dirty_worktree
Dirty(t) ==
  \/ DirtyPolicy = "block" /\ Reported(Paths) # {}
  \/ DirtyPolicy = "allow_touched_only" /\ Reported(Targets(t)) # {}

\* Variant: locks are looked at when a proposal is prepared only.
MayWriteIgnoringLocks(t) == ~ Dirty(t)

MayWrite(t) == Targets(t) \cap locks = {} /\ ~ Dirty(t)

\* Under the write lock: the checks.
Begin(c) ==
  LET t == call[c].patch
  IN /\ call[c].pc = "begin"
     /\ writer = None
     /\ IF MayWrite(t)
        THEN writer' = c /\ Go(c, [call[c] EXCEPT !.pc = "reading", !.next = 1, !.pre = <<>>])
        ELSE Go(c, Idle) /\ UNCHANGED writer
     /\ UNCHANGED <<files, head, patches, state, locks, edited, edits>>

\* _apply_unified_diff_hunks: strict context, no fuzz.
Matches(file) == file.expected \in {AnyContent, files[file.path]}

\* Every preimage is read before any write; a diff that does not fit ends it all.
ReadFile(c) ==
  LET listed == Files[call[c].patch]
      k      == call[c].next
      file   == listed[k]
      row    == [call[c] EXCEPT !.pre = Append(@, files[file.path])]
  IN /\ call[c].pc = "reading"
     /\ \/ /\ Matches(file)
           /\ Go(c, IF k < Len(listed) THEN [row EXCEPT !.next = k + 1]
                    ELSE [row EXCEPT !.pc = "writing", !.next = 1])
           /\ UNCHANGED <<writer, edited>>
        \/ /\ ~ Matches(file)
           /\ Go(c, Idle)
           /\ writer' = None /\ edited' = {}
     /\ UNCHANGED <<files, head, patches, state, locks, edits>>

WriteFile(c) ==
  LET t    == call[c].patch
      file == Files[t][call[c].next]
  IN /\ call[c].pc = "writing"
     /\ call[c].next <= Len(Files[t])
     /\ files' = [files EXCEPT ![file.path] = file.content]
     /\ edited' = edited \ {file.path}
     /\ Go(c, [call[c] EXCEPT !.next = @ + 1])
     /\ UNCHANGED <<head, patches, state, locks, writer, edits>>

Commit(c) ==
  LET t == call[c].patch
  IN /\ call[c].pc = "writing"
     /\ call[c].next > Len(Files[t])
     /\ patches' = [patches EXCEPT ![t].status = "applied", ![t].pre = call[c].pre]
     /\ writer' = None /\ edited' = {}
     /\ Go(c, [call[c] EXCEPT !.pc = "read", !.patch = None, !.pre = <<>>, !.next = 0])
     /\ UNCHANGED <<files, head, state, locks, edits>>

\* _set_proposal_state, _mark_proposal_applied: whatever the state has become.
Mark(c) ==
  /\ call[c].pc = "mark"
  /\ writer = None
  /\ state' = [state EXCEPT ![call[c].proposal] = "applied"]
  /\ Go(c, Idle)
  /\ UNCHANGED <<files, head, patches, locks, writer, edited, edits>>

--------------------------------------------------------------------------------
(* Rolling back one patch: rollback_patch_transaction. *)

\* The row, its preimages included, is read before the write lock is taken.
RollbackRead(c, t) ==
  /\ call[c].pc = "idle"
  /\ Status(t) = "applied"
  /\ Go(c, [Idle EXCEPT !.pc = "undo", !.patch = t, !.pre = patches[t].pre])
  /\ UNCHANGED <<files, head, patches, state, locks, writer, edited, edits>>

RollbackBegin(c) ==
  /\ call[c].pc = "undo"
  /\ writer = None
  /\ writer' = c
  /\ Go(c, [call[c] EXCEPT !.pc = "restoring", !.next = Len(call[c].pre)])
  /\ UNCHANGED <<files, head, patches, state, locks, edited, edits>>

\* _restore_preimages, last one first, whatever the file holds by now.
RestoreFile(c) ==
  LET k == call[c].next
  IN /\ call[c].pc = "restoring"
     /\ k > 0
     /\ files' = [files EXCEPT ![Files[call[c].patch][k].path] = call[c].pre[k]]
     /\ edited' = edited \ {Files[call[c].patch][k].path}
     /\ Go(c, [call[c] EXCEPT !.next = @ - 1])
     /\ UNCHANGED <<head, patches, state, locks, writer, edits>>

\* The proposal counts as rolled back with the first of its patches.
RollbackCommit(c) ==
  LET t == call[c].patch
  IN /\ call[c].pc = "restoring"
     /\ call[c].next = 0
     /\ patches' = [patches EXCEPT ![t].status = "rolled_back"]
     /\ state' = [state EXCEPT ![ProposalOf(t)] = "rolled_back"]
     /\ writer' = None /\ edited' = {}
     /\ Go(c, Idle)
     /\ UNCHANGED <<files, head, locks, edits>>

--------------------------------------------------------------------------------
(* The human around the workspace, and crashes. *)

SetLock(path, locked) ==
  /\ writer = None
  /\ (path \in locks) # locked
  /\ locks' = IF locked THEN locks \cup {path} ELSE locks \ {path}
  /\ UNCHANGED <<files, head, patches, state, writer, call, edited, edits>>

\* An editor, a git checkout or a stash changes a file, whoever holds the lock.
EditFile(path, content) ==
  /\ edits < MaxEdits
  /\ files[path] # content
  /\ files' = [files EXCEPT ![path] = content]
  /\ edited' = IF writer = None THEN {} ELSE edited \cup {path}
  /\ edits' = edits + 1
  /\ UNCHANGED <<head, patches, state, locks, writer, call>>

\* git commit of some files as they are now.
GitCommit(paths) ==
  /\ Repository
  /\ head' = [path \in Paths |-> IF path \in paths THEN files[path] ELSE head[path]]
  /\ head' # head
  /\ UNCHANGED <<files, patches, state, locks, writer, call, edited, edits>>

\* The process dies, or an error ends the call: SQLite forgets its transaction,
\* the files stay as they are.
Crash(c) ==
  /\ call[c].pc # "idle"
  /\ IF writer = c THEN writer' = None /\ edited' = {} ELSE UNCHANGED <<writer, edited>>
  /\ Go(c, Idle)
  /\ UNCHANGED <<files, head, patches, state, locks, edits>>

Next ==
  \/ \E c \in Callers :
       \/ \E p \in Proposals :
            \/ \E goal \in {"prepare", "apply"} : PrepareRead(c, p, goal)
            \/ AutonomyList(c, p)
       \/ \E t \in Patches : ApplyPatch(c, t) \/ ReadPatch(c, t) \/ RollbackRead(c, t)
       \/ Prepare(c) \/ AutonomyPlan(c)
       \/ QueueDone(c) \/ Begin(c) \/ ReadFile(c) \/ WriteFile(c) \/ Commit(c) \/ Mark(c)
       \/ RollbackBegin(c) \/ RestoreFile(c) \/ RollbackCommit(c)
       \/ Crash(c)
  \/ \E path \in Lockable, locked \in BOOLEAN : SetLock(path, locked)
  \/ \E path \in Paths, content \in Foreign : EditFile(path, content)
  \/ \E paths \in SUBSET (Paths \ Ignored) : GitCommit(paths)

Spec == Init /\ [][Next]_vars

--------------------------------------------------------------------------------
(* Properties. *)

\* The last, and the first, file a patch lists for a path: it may list one twice.
LastOfPath(t, k) ==
  \A j \in DOMAIN Files[t] : j > k => Files[t][j].path # Files[t][k].path
FirstOfPath(t, k) ==
  \A j \in DOMAIN Files[t] : j < k => Files[t][j].path # Files[t][k].path

\* A patch counts as applied, or as rolled back, only when every file of it was
\* on disk at that moment, although several callers apply and roll back patches
\* of the same files at the same time (the write lock spans the file writes),
\* unless somebody edited it after it was written.  And no apply writes a file
\* whose target a human has locked, whenever the lock was set
\* (docs/specs/0011-human-locks.md); a rollback may.
RecordedIsOnDisk ==
  [][/\ \A t \in Patches : Status(t)' # Status(t) =>
         /\ Status(t)' = "applied" =>
              \A k \in DOMAIN Files[t] : LastOfPath(t, k) /\ Files[t][k].path \notin edited =>
                files[Files[t][k].path] = Files[t][k].content
         /\ Status(t)' = "rolled_back" =>
              \E c \in Callers :
                /\ call[c].pc = "restoring" /\ call[c].patch = t
                /\ \A k \in DOMAIN Files[t] : FirstOfPath(t, k) /\ Files[t][k].path \notin edited =>
                     files[Files[t][k].path] = call[c].pre[k]
     /\ \A path \in Paths : path \in locks /\ files'[path] # files[path] /\ call' # call =>
         \E c \in Callers : call[c].pc = "restoring" /\ call'[c] # call[c]]_vars

\* A proposal is marked applied only when none of its patches is left to
\* apply, whichever callers applied them and whatever was refused on the way;
\* and every row has its shape.
AppliedLeavesNothingReady ==
  /\ TypeOK
  /\ \A p \in Proposals : state[p] = "applied" =>
       \A t \in ToSet(Plan[p]) : Status(t) \in {"applied", "rolled_back"}

\* In a repository, and unless the policy allows a dirty tree, what an apply
\* overwrites is committed in git, not even a crash that loses the preimages loses
\* it - except what git ignores, and what was edited after this very apply had
\* made its dirty check (harness.py:308): such an edit the code does overwrite.
\* Edits before the check, what crashed applies left and what other callers have
\* written are safe, whenever humans commit.
OverwritesCommittedOnly ==
  [][Repository /\ DirtyPolicy # "allow" =>
       \A c \in Callers :
         LET listed == Files[call[c].patch]
             k      == call[c].next
             path   == listed[k].path
         IN call[c].pc = "writing" /\ call'[c] # call[c]
              /\ k \in DOMAIN listed /\ files'[path] # files[path] =>
              \/ files[path] = head[path]
              \/ path \in Ignored \cup edited
              \/ \E j \in 1 .. k - 1 : listed[j].path = path]_vars

--------------------------------------------------------------------------------
(* What the documentation says of this code and a run refutes. *)

\* docs/specs/0002-learning-proposal-contract.md:174: "rolled_back (terminal)".
RolledBackIsTerminal ==
  [][\A p \in Proposals : state[p] = "rolled_back" => state'[p] = "rolled_back"]_vars

\* apply_patch_transaction, kyoko/harness.py:286, refuses a patch whose status
\* is not "ready": one becomes applied from no other status.
AppliedOnlyFromReady ==
  [][\A t \in Patches : patches[t] # None /\ patches'[t].pre # patches[t].pre =>
       Status(t) = "ready"]_vars
================================================================================
