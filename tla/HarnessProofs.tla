----------------------------- MODULE HarnessProofs -----------------------------
(***************************************************************************)
(* What holds of the patch transactions for any callers, proposals, patches  *)
(* and files, and under every policy on dirty trees.  Only the writer is in   *)
(* the middle of files, so what it has written or restored so far is what      *)
(* they hold; a caller's queue, the patch it works on and the patches that are *)
(* settled make up the whole proposal.                                        *)
(* And what doctor concludes from the evidence that smokes leave.             *)
(***************************************************************************)
EXTENDS MCHarness, TLAPS

(* A preimage for each file.                                                   *)
PreOK(t, pre) == DOMAIN pre = DOMAIN Files[t]

(* What the files of t hold once the first n of them are written: each path    *)
(* what the last of these said, unless it was edited since.                    *)
Written(t, n, fs, changed) ==
  \A k \in DOMAIN Files[t] :
    k <= n /\ Files[t][k].path \notin changed
    /\ (\A j \in DOMAIN Files[t] : k < j /\ j <= n => Files[t][j].path # Files[t][k].path)
      => fs[Files[t][k].path] = Files[t][k].content

(* What they hold once those after the n-th are restored.                      *)
Restored(t, pre, n, fs, changed) ==
  \A k \in DOMAIN Files[t] :
    k > n /\ Files[t][k].path \notin changed
    /\ (\A j \in DOMAIN Files[t] : n < j /\ j < k => Files[t][j].path # Files[t][k].path)
      => fs[Files[t][k].path] = pre[k]

(* What is still to be overwritten once the first n are written is committed,   *)
(* as long as the dirty check asked for it and could see it.                   *)
Committed(t, n, fs, hd, changed) ==
  Repository /\ DirtyPolicy # "allow" =>
    \A k \in DOMAIN Files[t] :
      Files[t][k].path \notin Ignored \cup changed
      /\ (\A j \in DOMAIN Files[t] : j <= n => Files[t][j].path # Files[t][k].path)
        => fs[Files[t][k].path] = hd[Files[t][k].path]

Settled(t) == Status(t) \in {"applied", "rolled_back"}

(* What the place of a call says of the rest of its record.                    *)
CallOK(c) ==
  LET r == call[c]
  IN /\ r.pc \in {"prepare", "plan", "mark"} => r.proposal \in Proposals
     /\ r.pc \in {"begin", "reading", "writing", "undo", "restoring"} =>
          r.patch \in Patches /\ patches[r.patch] # None
     /\ r.pc \in {"undo", "restoring"} => PreOK(r.patch, r.pre)
     /\ r.pc = "reading" =>
          /\ r.next >= 1 /\ r.next <= Len(Files[r.patch]) /\ Len(r.pre) = r.next - 1
          /\ Targets(r.patch) \cap locks = {}
          /\ Committed(r.patch, 0, files, head, edited)
     /\ r.pc = "writing" =>
          /\ PreOK(r.patch, r.pre)
          /\ r.next >= 1 /\ r.next <= Len(Files[r.patch]) + 1
          /\ Targets(r.patch) \cap locks = {}
          /\ Written(r.patch, r.next - 1, files, edited) /\ Committed(r.patch, r.next - 1, files, head, edited)
     /\ r.pc = "restoring" =>
          r.next <= Len(Files[r.patch]) /\ Restored(r.patch, r.pre, r.next, files, edited)
     /\ r.pc \in {"reading", "writing", "restoring"} <=> writer = c

(* What a call on behalf of a proposal has left to do.                         *)
LeftOK(c) ==
  LET r == call[c]
  IN r.proposal # None /\ r.pc \in {"read", "begin", "reading", "writing", "mark"} =>
       \A t \in ToSet(Plan[r.proposal]) :
         \/ Settled(t)
         \/ r.pc # "mark" /\ t \in r.queue
         \/ r.pc \in {"begin", "reading", "writing"} /\ t = r.patch

(* A proposal is prepared as a whole; an applied one is settled.               *)
PlanOK ==
  /\ \A p \in Proposals : Prepared(p) => \A t \in ToSet(Plan[p]) : patches[t] # None
  /\ \A p \in Proposals : state[p] = "applied" => \A t \in ToSet(Plan[p]) : Settled(t)

RowsOK == \A t \in Patches : Status(t) = "applied" => PreOK(t, patches[t].pre)

Inv ==
  /\ TypeOK
  /\ \A c \in Callers : CallOK(c)
  /\ \A c \in Callers : LeftOK(c)
  /\ PlanOK
  /\ RowsOK

--------------------------------------------------------------------------------
(* The constants.                                                              *)

(* The files of a patch are a sequence of files.                               *)
LEMMA FilesType ==
  ASSUME NEW t \in Patches
  PROVE  /\ DOMAIN Files[t] = 1 .. Len(Files[t]) /\ Len(Files[t]) \in Nat
         /\ \A k \in DOMAIN Files[t] :
              /\ Files[t][k].path \in Paths
              /\ Files[t][k].content \in Contents \cup {Absent}
<1>1. Files[t] \in Seq(File)
  BY HarnessAssumption
<1>2. \A k \in DOMAIN Files[t] : Files[t][k] \in File
  BY <1>1
<1> QED
  BY <1>1, <1>2 DEF File

(* No patch is in two plans, and every patch is in one.                        *)
LEMMA PlanType ==
  /\ \A p \in Proposals : ToSet(Plan[p]) \subseteq Patches
  /\ \A p, q \in Proposals, t \in Patches :
       t \in ToSet(Plan[p]) /\ t \in ToSet(Plan[q]) => p = q
  /\ \A t \in Patches : ProposalOf(t) \in Proposals
<1>1. \A p \in Proposals : ToSet(Plan[p]) \subseteq Patches
  BY HarnessAssumption
<1>2. \A p, q \in Proposals, t \in Patches :
        t \in ToSet(Plan[p]) /\ t \in ToSet(Plan[q]) => p = q
  BY HarnessAssumption
<1>3. ASSUME NEW t \in Patches PROVE ProposalOf(t) \in Proposals
  <2>1. \E p \in Proposals : t \in ToSet(Plan[p])
    BY HarnessAssumption
  <2> QED
    BY <2>1 DEF ProposalOf
<1> QED
  BY <1>1, <1>2, <1>3

(* Prepared speaks of the patches of the plan.                                 *)
LEMMA PreparedMeans ==
  ASSUME NEW p \in Proposals
  PROVE  Prepared(p) <=> \E t \in ToSet(Plan[p]) : patches[t] # None
BY DEF Prepared, ToSet

--------------------------------------------------------------------------------
(* Steps of one caller.                                                        *)

(* The record of the caller changes and no other.                              *)
LEMMA GoType ==
  ASSUME TypeOK, NEW c \in Callers, NEW row \in Call, Go(c, row)
  PROVE  /\ call' \in [Callers -> Call]
         /\ call'[c] = row /\ \A d \in Callers \ {c} : call'[d] = call[d]
BY DEF Go, TypeOK

(* A caller that is idle.                                                      *)
LEMMA IdleType == Idle \in Call /\ Idle.pc = "idle" /\ Idle.proposal = None
BY DEF Idle, Call

(* A step of one caller that touches neither files nor rows nor locks leaves    *)
(* the invariant when it leaves the caller in order.                           *)
LEMMA ControlStep ==
  ASSUME Inv, NEW c \in Callers, NEW row \in Call, Go(c, row),
         UNCHANGED <<files, head, patches, state, locks, edits>>,
         writer' \in Callers \cup {None},
         \A d \in Callers \ {c} : writer' = d <=> writer = d,
         edited' = edited \/ (edited' = {} /\ writer' = None),
         CallOK(c)', LeftOK(c)'
  PROVE  Inv'
<1>1. /\ call' \in [Callers -> Call]
      /\ call'[c] = row /\ \A d \in Callers \ {c} : call'[d] = call[d]
  BY GoType DEF Inv
<1>2. TypeOK'
  BY <1>1 DEF Inv, TypeOK
<1>3. ASSUME NEW d \in Callers PROVE CallOK(d)'
  <2>1. CASE d # c /\ edited' = edited
    BY <1>1, <2>1 DEF Inv, CallOK
  <2>2. CASE d # c /\ writer' = None
    <3>1. writer # d /\ writer' # d
      BY <2>2, NoneAssumption
    <3> QED
      BY <1>1, <2>2, <3>1 DEF Inv, CallOK
  <2> QED
    BY <2>1, <2>2
<1>4. ASSUME NEW d \in Callers PROVE LeftOK(d)'
  <2>1. CASE d # c
    BY <1>1, <2>1 DEF Inv, LeftOK, Settled, Status
  <2> QED
    BY <2>1
<1>5. PlanOK' /\ RowsOK'
  BY DEF Inv, PlanOK, RowsOK, Settled, Status, Prepared
<1> QED
  BY <1>2, <1>3, <1>4, <1>5 DEF Inv

(* While a caller has the write lock, or nobody has, the others are not in the  *)
(* middle of files: they are left in order by a step that keeps rows and what   *)
(* is settled.                                                                 *)
LEMMA OthersInOrder ==
  ASSUME Inv, NEW c \in Callers, NEW row \in Call, Go(c, row),
         writer \in {None, c}, writer' \in {None, c},
         \A t \in Patches : patches[t] # None => patches'[t] # None,
         \A t \in Patches : Settled(t) => Settled(t)'
  PROVE  \A d \in Callers \ {c} : CallOK(d)' /\ LeftOK(d)'
<1> SUFFICES ASSUME NEW d \in Callers, d # c
             PROVE  CallOK(d)' /\ LeftOK(d)'
  OBVIOUS
<1>1. call'[d] = call[d] /\ call[d] \in Call
  BY GoType DEF Inv, TypeOK
<1>2. writer # d /\ writer' # d
  BY NoneAssumption
<1>3. call[d].pc \notin {"reading", "writing", "restoring"}
  BY <1>2 DEF Inv, CallOK
<1>4. CallOK(d)'
  BY <1>1, <1>2, <1>3 DEF Inv, CallOK
<1>5. LeftOK(d)'
  BY <1>1, PlanType DEF Inv, LeftOK, Call
<1> QED
  BY <1>4, <1>5

--------------------------------------------------------------------------------
(* The steps that touch neither files nor rows.                                *)

(* Going idle keeps the invariant, unless the caller has the write lock.        *)
LEMMA IdleStep ==
  ASSUME Inv, NEW c \in Callers, Go(c, Idle), writer # c,
         UNCHANGED <<files, head, patches, state, locks, writer, edited, edits>>
  PROVE  Inv'
<1>1. call'[c] = Idle
  BY GoType, IdleType DEF Inv
<1>2. CallOK(c)' /\ LeftOK(c)'
  BY <1>1, IdleType DEF CallOK, LeftOK
<1> QED
  BY <1>2, IdleType, ControlStep DEF Inv, TypeOK

(* A caller takes up a proposal, a patch to apply or a patch to roll back.      *)
LEMMA TakingUpKeeps ==
  ASSUME Inv, NEW c \in Callers, NEW p \in Proposals, NEW t \in Patches,
         \/ \E goal \in {"prepare", "apply"} : PrepareRead(c, p, goal)
         \/ AutonomyList(c, p) \/ ApplyPatch(c, t) \/ RollbackRead(c, t)
  PROVE  Inv'
<1>1. call[c].pc = "idle" /\ writer # c
  BY DEF Inv, CallOK, PrepareRead, AutonomyList, ApplyPatch, RollbackRead
<1>2. ASSUME NEW goal \in {"prepare", "apply"}, PrepareRead(c, p, goal) PROVE Inv'
  <2> DEFINE row == [Idle EXCEPT !.pc = "prepare", !.goal = goal, !.proposal = p]
  <2>1. row \in Call /\ row.pc = "prepare" /\ row.proposal = p
    BY IdleType DEF Call
  <2>2. Go(c, row)
    BY <1>2 DEF PrepareRead
  <2> HIDE DEF row
  <2>3. call'[c] = row
    BY <2>1, <2>2, GoType DEF Inv
  <2>4. CallOK(c)' /\ LeftOK(c)'
    BY <1>1, <1>2, <2>1, <2>3 DEF CallOK, LeftOK, PrepareRead
  <2> QED
    BY <1>2, <2>1, <2>2, <2>4, ControlStep DEF PrepareRead, Inv, TypeOK
<1>3. CASE AutonomyList(c, p)
  <2> DEFINE row == [Idle EXCEPT !.pc = "plan", !.goal = "autonomy", !.proposal = p]
  <2>1. row \in Call /\ row.pc = "plan" /\ row.proposal = p
    BY IdleType DEF Call
  <2>2. Go(c, row)
    BY <1>3 DEF AutonomyList
  <2> HIDE DEF row
  <2>3. call'[c] = row
    BY <2>1, <2>2, GoType DEF Inv
  <2>4. CallOK(c)' /\ LeftOK(c)'
    BY <1>1, <1>3, <2>1, <2>3 DEF CallOK, LeftOK, AutonomyList
  <2> QED
    BY <1>3, <2>1, <2>2, <2>4, ControlStep DEF AutonomyList, Inv, TypeOK
<1>4. CASE ApplyPatch(c, t)
  <2> DEFINE row == [Idle EXCEPT !.pc = "read", !.queue = {t}]
  <2>1. row \in Call /\ row.pc = "read" /\ row.proposal = None
    BY IdleType DEF Call
  <2>2. Go(c, row)
    BY <1>4 DEF ApplyPatch
  <2> HIDE DEF row
  <2>3. call'[c] = row
    BY <2>1, <2>2, GoType DEF Inv
  <2>4. CallOK(c)' /\ LeftOK(c)'
    BY <1>1, <1>4, <2>1, <2>3 DEF CallOK, LeftOK, ApplyPatch
  <2> QED
    BY <1>4, <2>1, <2>2, <2>4, ControlStep DEF ApplyPatch, Inv, TypeOK
<1>5. CASE RollbackRead(c, t)
  <2> DEFINE row == [Idle EXCEPT !.pc = "undo", !.patch = t, !.pre = patches[t].pre]
  <2>1. patches[t] \in Row /\ patches[t] # None /\ PreOK(t, patches[t].pre)
    BY <1>5 DEF RollbackRead, Status, Inv, TypeOK, RowsOK
  <2>2. /\ row \in Call
        /\ row.pc = "undo" /\ row.proposal = None /\ row.patch = t /\ row.pre = patches[t].pre
    BY <2>1 DEF Idle, Call, Row
  <2>3. Go(c, row)
    BY <1>5 DEF RollbackRead
  <2> HIDE DEF row
  <2>4. call'[c] = row
    BY <2>2, <2>3, GoType DEF Inv
  <2>5. CallOK(c)' /\ LeftOK(c)'
    BY <1>1, <1>5, <2>1, <2>2, <2>4 DEF CallOK, LeftOK, RollbackRead
  <2> QED
    BY <1>5, <2>2, <2>3, <2>5, ControlStep DEF RollbackRead, Inv, TypeOK
<1> QED
  BY <1>2, <1>3, <1>4, <1>5

(* The loop makes its plan: what is prepared and not ready is settled.         *)
LEMMA AutonomyPlanKeeps ==
  ASSUME Inv, NEW c \in Callers, AutonomyPlan(c)
  PROVE  Inv'
<1> DEFINE p == call[c].proposal
           ready == {t \in ToSet(Plan[p]) : Status(t) = "ready"}
           reading == [call[c] EXCEPT !.pc = "read", !.queue = ready]
           preparing == [call[c] EXCEPT !.pc = "prepare"]
<1>1. p \in Proposals /\ writer # c /\ call[c] \in Call /\ call[c].pc = "plan"
  BY DEF AutonomyPlan, Inv, CallOK, TypeOK
<1>2. CASE Prepared(p)
  <2>1. \A t \in ToSet(Plan[p]) : Settled(t) \/ t \in ready
    BY <1>1, <1>2, PlanType DEF Inv, PlanOK, TypeOK, Row, Settled, Status
  <2>2. ready \subseteq Patches
    BY <1>1, PlanType
  <2>3. /\ reading \in Call /\ reading.pc = "read"
        /\ reading.proposal = p /\ reading.queue = ready
    BY <1>1, <2>2 DEF Call
  <2>4. Go(c, reading)
    BY <1>2 DEF AutonomyPlan
  <2> HIDE DEF reading, ready, p
  <2>5. call'[c] = reading
    BY <2>3, <2>4, GoType DEF Inv
  <2>6. CallOK(c)'
    BY <1>1, <2>3, <2>5 DEF CallOK, AutonomyPlan
  <2>7. LeftOK(c)'
    BY <2>1, <2>3, <2>5 DEF LeftOK, Settled, Status, AutonomyPlan
  <2> QED
    BY <2>3, <2>4, <2>6, <2>7, ControlStep DEF AutonomyPlan, Inv, TypeOK
<1>3. CASE ~ Prepared(p) /\ state[p] = "pending"
  <2>1. preparing \in Call /\ preparing.pc = "prepare" /\ preparing.proposal = p
    BY <1>1 DEF Call
  <2>2. Go(c, preparing)
    BY <1>3 DEF AutonomyPlan
  <2> HIDE DEF preparing, p
  <2>3. call'[c] = preparing
    BY <2>1, <2>2, GoType DEF Inv
  <2>4. CallOK(c)' /\ LeftOK(c)'
    BY <1>1, <2>1, <2>3 DEF CallOK, LeftOK, AutonomyPlan
  <2> QED
    BY <2>1, <2>2, <2>4, ControlStep DEF AutonomyPlan, Inv, TypeOK
<1>4. CASE ~ Prepared(p) /\ state[p] # "pending"
  BY <1>1, <1>4, IdleStep DEF AutonomyPlan
<1> QED
  BY <1>2, <1>3, <1>4

(* The queue is done: everything is settled.                                    *)
LEMMA QueueDoneKeeps ==
  ASSUME Inv, NEW c \in Callers, QueueDone(c)
  PROVE  Inv'
<1> DEFINE row == [call[c] EXCEPT !.pc = "mark"]
<1>1. writer # c /\ call[c] \in Call /\ call[c].pc = "read" /\ call[c].queue = {}
  BY DEF QueueDone, Inv, CallOK, TypeOK
<1>2. CASE call[c].proposal = None
  BY <1>1, <1>2, IdleStep DEF QueueDone
<1>3. CASE call[c].proposal # None
  <2>1. row \in Call /\ row.pc = "mark" /\ row.proposal = call[c].proposal
    BY <1>1 DEF Call
  <2>2. Go(c, row) /\ row.proposal \in Proposals
    BY <1>1, <1>3 DEF QueueDone, Call
  <2> HIDE DEF row
  <2>3. call'[c] = row
    BY <2>1, <2>2, GoType DEF Inv
  <2>4. CallOK(c)'
    BY <1>1, <2>1, <2>2, <2>3 DEF CallOK, QueueDone
  <2>5. LeftOK(c)'
    BY <1>1, <1>3, <2>1, <2>3 DEF Inv, LeftOK, Settled, Status, QueueDone
  <2> QED
    BY <2>1, <2>2, <2>4, <2>5, ControlStep DEF QueueDone, Inv, TypeOK
<1> QED
  BY <1>2, <1>3

(* A patch is taken from the queue, and is what the caller works on.            *)
LEMMA ReadPatchKeeps ==
  ASSUME Inv, NEW c \in Callers, NEW t \in Patches, ReadPatch(c, t)
  PROVE  Inv'
<1> DEFINE row == [call[c] EXCEPT !.pc = "begin", !.patch = t, !.queue = @ \ {t}]
<1>1. writer # c /\ call[c] \in Call /\ call[c].pc = "read"
  BY DEF ReadPatch, Inv, CallOK, TypeOK
<1>2. CASE Status(t) # "ready"
  BY <1>1, <1>2, IdleStep DEF ReadPatch
<1>3. CASE Status(t) = "ready"
  <2>1. /\ row \in Call /\ row.pc = "begin" /\ row.patch = t
        /\ row.proposal = call[c].proposal /\ row.queue = call[c].queue \ {t}
    BY <1>1 DEF Call
  <2>2. Go(c, row) /\ patches[t] # None
    BY <1>3 DEF ReadPatch, Status
  <2> HIDE DEF row
  <2>3. call'[c] = row
    BY <2>1, <2>2, GoType DEF Inv
  <2>4. CallOK(c)'
    BY <1>1, <2>1, <2>2, <2>3 DEF CallOK, ReadPatch
  <2>5. LeftOK(c)'
    BY <1>1, <2>1, <2>3 DEF Inv, LeftOK, Settled, Status, ReadPatch
  <2> QED
    BY <2>1, <2>2, <2>4, <2>5, ControlStep DEF ReadPatch, Inv, TypeOK
<1> QED
  BY <1>2, <1>3

(* A rollback takes the write lock: nothing is restored yet.                    *)
LEMMA RollbackBeginKeeps ==
  ASSUME Inv, NEW c \in Callers, RollbackBegin(c)
  PROVE  Inv'
<1> DEFINE row == [call[c] EXCEPT !.pc = "restoring", !.next = Len(call[c].pre)]
<1>1. /\ call[c] \in Call /\ call[c].pc = "undo" /\ call[c].patch \in Patches
      /\ patches[call[c].patch] # None /\ PreOK(call[c].patch, call[c].pre)
  BY DEF RollbackBegin, Inv, CallOK, TypeOK
<1>2. call[c].pre \in Seq(Contents \cup {Absent})
  BY <1>1 DEF Call
<1>3. Len(call[c].pre) = Len(Files[call[c].patch]) /\ Len(call[c].pre) \in Nat
  BY <1>1, <1>2, FilesType DEF PreOK
<1>4. /\ row \in Call /\ row.pc = "restoring" /\ row.patch = call[c].patch
      /\ row.pre = call[c].pre /\ row.next = Len(Files[call[c].patch])
  BY <1>1, <1>3 DEF Call
<1>5. Go(c, row)
  BY DEF RollbackBegin
<1> HIDE DEF row
<1>6. call'[c] = row
  BY <1>4, <1>5, GoType DEF Inv
<1>7. \A k \in DOMAIN Files[row.patch] : ~ k > row.next
  BY <1>1, <1>4, FilesType
<1>8. CallOK(c)'
  BY <1>1, <1>3, <1>4, <1>6, <1>7 DEF CallOK, RollbackBegin, Restored
<1>9. LeftOK(c)'
  BY <1>4, <1>6 DEF LeftOK
<1> QED
  BY <1>4, <1>5, <1>8, <1>9, ControlStep, NoneAssumption DEF RollbackBegin, Inv, TypeOK

(* Under the write lock the checks are made: what git status sees is committed. *)
LEMMA BeginKeeps ==
  ASSUME Inv, NEW c \in Callers, Begin(c)
  PROVE  Inv'
<1> DEFINE t == call[c].patch
           row == [call[c] EXCEPT !.pc = "reading", !.next = 1, !.pre = <<>>]
<1>1. /\ t \in Patches /\ patches[t] # None /\ writer = None
      /\ call[c] \in Call /\ call[c].pc = "begin"
  BY DEF Begin, Inv, CallOK, TypeOK
<1>2. CASE ~ MayWrite(t)
  BY <1>1, <1>2, IdleStep, NoneAssumption DEF Begin
<1>3. CASE MayWrite(t)
  <2>1. writer' = c /\ Go(c, row)
    BY <1>3 DEF Begin
  <2>2. <<>> \in Seq(Contents \cup {Absent}) /\ Len(<<>>) = 0
    OBVIOUS
  <2> DEFINE none == <<>>
  <2> HIDE DEF none
  <2>3. /\ [call[c] EXCEPT !.pc = "reading", !.next = 1, !.pre = none] \in Call
        /\ [call[c] EXCEPT !.pc = "reading", !.next = 1, !.pre = none].pc = "reading"
        /\ [call[c] EXCEPT !.pc = "reading", !.next = 1, !.pre = none].next = 1
        /\ [call[c] EXCEPT !.pc = "reading", !.next = 1, !.pre = none].pre = none
        /\ [call[c] EXCEPT !.pc = "reading", !.next = 1, !.pre = none].patch = t
        /\ [call[c] EXCEPT !.pc = "reading", !.next = 1, !.pre = none].proposal = call[c].proposal
        /\ [call[c] EXCEPT !.pc = "reading", !.next = 1, !.pre = none].queue = call[c].queue
    BY <1>1, <2>2 DEF Call, none
  <2>4. /\ row \in Call /\ row.pc = "reading" /\ row.next = 1 /\ Len(row.pre) = 0
        /\ row.patch = t /\ row.proposal = call[c].proposal /\ row.queue = call[c].queue
    BY <2>2, <2>3 DEF none
  <2> HIDE DEF row
  <2>5. call'[c] = row
    BY <2>1, <2>4, GoType DEF Inv
  <2>6. Files[t] # <<>> /\ Files[t] \in Seq(File)
    BY <1>1, HarnessAssumption
  <2>7. 1 <= Len(Files[t]) /\ Len(Files[t]) \in Nat
    BY <2>6
  <2>8. Targets(t) \cap locks = {}
    BY <1>3 DEF MayWrite
  <2>9. Committed(t, 0, files, head, edited)
    <3> SUFFICES ASSUME Repository, DirtyPolicy # "allow", NEW k \in DOMAIN Files[t],
                        Files[t][k].path \notin Ignored \cup edited
                 PROVE  files[Files[t][k].path] = head[Files[t][k].path]
      BY DEF Committed
    <3>1. Files[t][k].path \in Targets(t) /\ Files[t][k].path \in Paths
      BY <1>1, FilesType DEF Targets
    <3>2. Files[t][k].path \notin Reported(Paths) \/ Files[t][k].path \notin Reported(Targets(t))
      BY <1>3, HarnessAssumption DEF MayWrite, Dirty
    <3> QED
      BY <3>1, <3>2 DEF Reported
  <2>10. Committed(t, 0, files', head', edited') /\ Targets(t) \cap locks' = {}
    BY <2>8, <2>9 DEF Begin
  <2>11. CallOK(c)'
    BY <1>1, <2>1, <2>4, <2>5, <2>7, <2>10 DEF CallOK, Begin
  <2>12. LeftOK(c)'
    BY <1>1, <2>4, <2>5 DEF Inv, LeftOK, Settled, Status, Begin
  <2> QED
    BY <1>1, <2>1, <2>4, <2>11, <2>12, ControlStep, NoneAssumption DEF Begin, Inv, TypeOK
<1> QED
  BY <1>2, <1>3

(* One more preimage is read; with the last one there is one for each file,     *)
(* and nothing is written yet.                                                 *)
LEMMA ReadFileKeeps ==
  ASSUME Inv, NEW c \in Callers, ReadFile(c)
  PROVE  Inv'
<1> DEFINE t == call[c].patch
           k == call[c].next
           old == files[Files[t][k].path]
           seen == Append(call[c].pre, old)
           after == k + 1
           more == [call[c] EXCEPT !.pre = seen, !.next = after]
           done == [call[c] EXCEPT !.pre = seen, !.pc = "writing", !.next = 1]
<1>1. /\ t \in Patches /\ patches[t] # None /\ writer = c
      /\ call[c] \in Call /\ call[c].pc = "reading"
      /\ k >= 1 /\ k <= Len(Files[t]) /\ Len(call[c].pre) = k - 1
      /\ Targets(t) \cap locks = {} /\ Committed(t, 0, files, head, edited)
  BY DEF ReadFile, Inv, CallOK, TypeOK
<1>2. k \in Nat /\ Len(Files[t]) \in Nat /\ DOMAIN Files[t] = 1 .. Len(Files[t]) /\ k \in DOMAIN Files[t]
  BY <1>1, FilesType DEF Call
<1>3. old \in Contents \cup {Absent}
  BY <1>1, <1>2, FilesType DEF Inv, TypeOK, Tree
<1>4. call[c].pre \in Seq(Contents \cup {Absent})
  BY <1>1 DEF Call
<1>5. /\ seen \in Seq(Contents \cup {Absent})
      /\ Len(seen) = k
      /\ DOMAIN seen = 1 .. k
  BY <1>1, <1>2, <1>3, <1>4
<1>6. UNCHANGED <<files, head, patches, state, locks, edits>>
  BY DEF ReadFile
<1>7. CASE ~ Matches(Files[t][k])
  <2>1. Go(c, Idle) /\ writer' = None /\ edited' = {}
    BY <1>7 DEF ReadFile
  <2>2. call'[c] = Idle
    BY <2>1, GoType, IdleType DEF Inv
  <2>3. CallOK(c)' /\ LeftOK(c)'
    BY <2>1, <2>2, IdleType, NoneAssumption DEF CallOK, LeftOK
  <2> QED
    BY <1>1, <1>6, <2>1, <2>3, IdleType, ControlStep, NoneAssumption
<1>8. CASE Matches(Files[t][k]) /\ k < Len(Files[t])
  <2>1. Go(c, more) /\ UNCHANGED <<writer, edited>>
    BY <1>8 DEF ReadFile
  <2>0. after \in Nat /\ after = k + 1
    BY <1>2
  <2> HIDE DEF seen, after
  <2>2. /\ more \in Call /\ more.pc = "reading" /\ more.next = after
        /\ more.pre = seen /\ more.patch = t
        /\ more.proposal = call[c].proposal /\ more.queue = call[c].queue
    BY <1>1, <1>5, <2>0 DEF Call
  <2> HIDE DEF more
  <2>3. call'[c] = more
    BY <2>1, <2>2, GoType DEF Inv
  <2>4. Committed(t, 0, files', head', edited') /\ Targets(t) \cap locks' = {}
    BY <1>1, <1>6, <2>1
  <2>5. CallOK(c)'
    BY <1>1, <1>2, <1>5, <1>6, <1>8, <2>0, <2>1, <2>2, <2>3, <2>4 DEF CallOK
  <2>6. LeftOK(c)'
    BY <1>1, <1>6, <2>2, <2>3 DEF Inv, LeftOK, Settled, Status
  <2> QED
    BY <1>1, <1>6, <2>1, <2>2, <2>5, <2>6, ControlStep DEF Inv, TypeOK
<1>9. CASE Matches(Files[t][k]) /\ ~ k < Len(Files[t])
  <2>1. Go(c, done) /\ UNCHANGED <<writer, edited>>
    BY <1>9 DEF ReadFile
  <2> HIDE DEF seen
  <2>2. /\ done \in Call /\ done.pc = "writing" /\ done.next = 1
        /\ done.pre = seen /\ done.patch = t
        /\ done.proposal = call[c].proposal /\ done.queue = call[c].queue
    BY <1>1, <1>2, <1>5 DEF Call
  <2> HIDE DEF done
  <2>3. call'[c] = done
    BY <2>1, <2>2, GoType DEF Inv
  <2>4. k = Len(Files[t])
    BY <1>1, <1>2, <1>9
  <2>5. /\ \A j \in DOMAIN Files[t] : ~ j <= 0
        /\ PreOK(t, done.pre)
    BY <1>2, <1>5, <2>2, <2>4 DEF PreOK
  <2>6. Committed(t, 0, files', head', edited') /\ Written(t, 0, files', edited') /\ Targets(t) \cap locks' = {}
    <3>1. Written(t, 0, files, edited)
      BY <2>5 DEF Written
    <3> QED
      BY <1>1, <1>6, <2>1, <3>1
  <2> HIDE DEF t
  <2>7. CallOK(c)'
    <3>1. call'[c].next - 1 = 0 /\ 1 <= Len(Files[t]) + 1
      BY <1>2, <2>2, <2>3
    <3>2. Committed(t, call'[c].next - 1, files', head', edited') /\ Written(t, call'[c].next - 1, files', edited')
      BY <2>6, <3>1
    <3> QED
      BY <1>1, <1>6, <2>1, <2>2, <2>3, <2>5, <2>6, <3>1, <3>2 DEF CallOK
  <2>8. LeftOK(c)'
    BY <1>1, <1>6, <2>2, <2>3 DEF Inv, LeftOK, Settled, Status, t
  <2> QED
    BY <1>1, <1>6, <2>1, <2>2, <2>7, <2>8, ControlStep DEF Inv, TypeOK
<1> QED
  BY <1>7, <1>8, <1>9

(* A caller dies, and the write lock with it.                                   *)
LEMMA CrashKeeps ==
  ASSUME Inv, NEW c \in Callers, Crash(c)
  PROVE  Inv'
<1>1. call'[c] = Idle /\ writer' # c
  BY GoType, IdleType, NoneAssumption DEF Inv, Crash
<1>2. CallOK(c)' /\ LeftOK(c)'
  BY <1>1, IdleType DEF CallOK, LeftOK
<1> QED
  BY <1>2, IdleType, ControlStep, NoneAssumption DEF Crash, Inv, TypeOK

--------------------------------------------------------------------------------
(* The steps that touch rows, files, states, locks or git.                     *)

(* All the patches of a proposal that had none get their rows, and the caller   *)
(* goes on to what it prepared for.                                            *)
LEMMA PrepareKeeps ==
  ASSUME Inv, NEW c \in Callers, Prepare(c)
  PROVE  Inv'
<1> DEFINE p == call[c].proposal
           fresh == [status |-> "ready", pre |-> <<>>]
           reading == [call[c] EXCEPT !.pc = "read", !.queue = ToSet(Plan[p])]
           planning == [call[c] EXCEPT !.pc = "plan"]
<1>1. /\ p \in Proposals /\ writer = None /\ writer' = None
      /\ call[c] \in Call /\ call[c].pc = "prepare"
  BY DEF Prepare, Inv, CallOK, TypeOK
<1>2. CASE Prepared(p) \/ \E t \in ToSet(Plan[p]) : Targets(t) \cap locks # {}
  BY <1>1, <1>2, IdleStep, NoneAssumption DEF Prepare
<1>3. CASE ~ (Prepared(p) \/ \E t \in ToSet(Plan[p]) : Targets(t) \cap locks # {})
  <2>1. /\ patches' = [t \in Patches |-> IF t \in ToSet(Plan[p]) THEN fresh ELSE patches[t]]
        /\ \E row \in {Idle, reading, planning} : Go(c, row)
        /\ UNCHANGED <<files, head, state, locks, writer, edited, edits>>
    BY <1>3, <1>1 DEF Prepare, Call
  <2>2. \A t \in ToSet(Plan[p]) : t \in Patches /\ patches[t] = None
    BY <1>1, <1>3, PlanType, PreparedMeans
  <2>3. fresh \in Row /\ fresh # None /\ fresh.status = "ready"
    <3>1. <<>> \in Seq(Contents \cup {Absent})
      OBVIOUS
    <3>2. fresh \in Row
      BY <3>1 DEF Row
    <3> QED
      BY <3>2, NoneAssumption
  <2> HIDE DEF fresh
  <2>4. /\ patches' \in [Patches -> Row \cup {None}]
        /\ \A t \in ToSet(Plan[p]) : patches'[t] = fresh
        /\ \A t \in Patches : t \notin ToSet(Plan[p]) => patches'[t] = patches[t]
        /\ \A t \in Patches : patches[t] # None => patches'[t] # None
    BY <2>1, <2>2, <2>3 DEF Inv, TypeOK
  <2>5. \A t \in Patches : Settled(t) => Settled(t)'
    BY <2>2, <2>4 DEF Settled, Status
  <2>6. PICK row \in {Idle, reading, planning} : Go(c, row)
    BY <2>1
  <2>7. /\ reading \in Call /\ reading.pc = "read"
        /\ reading.proposal = p /\ reading.queue = ToSet(Plan[p])
    BY <1>1, PlanType DEF Call
  <2>8. planning \in Call /\ planning.pc = "plan" /\ planning.proposal = p
    BY <1>1 DEF Call
  <2> HIDE DEF p, reading, planning
  <2>9. row \in Call
    BY <2>6, <2>7, <2>8, IdleType
  <2>10. /\ call' \in [Callers -> Call]
         /\ call'[c] = row /\ \A d \in Callers \ {c} : call'[d] = call[d]
    BY <2>6, <2>9, GoType DEF Inv
  <2>11. CallOK(c)' /\ LeftOK(c)'
    <3>1. writer' # c
      BY <1>1, NoneAssumption
    <3>2. CASE row = Idle
      BY <2>10, <3>1, <3>2, IdleType DEF CallOK, LeftOK
    <3>3. CASE row = reading
      BY <1>1, <2>7, <2>10, <3>1, <3>3 DEF CallOK, LeftOK
    <3>4. CASE row = planning
      BY <1>1, <2>8, <2>10, <3>1, <3>4 DEF CallOK, LeftOK
    <3> QED
      BY <2>6, <3>2, <3>3, <3>4
  <2>12. \A d \in Callers \ {c} : CallOK(d)' /\ LeftOK(d)'
    BY <1>1, <2>4, <2>5, <2>6, <2>9, OthersInOrder
  <2>13. TypeOK'
    BY <2>1, <2>4, <2>10 DEF Inv, TypeOK
  <2>14. PlanOK'
    <3>1. ASSUME NEW q \in Proposals, Prepared(q)' PROVE \A t \in ToSet(Plan[q]) : patches'[t] # None
      <4>1. CASE q = p
        BY <2>3, <2>4, <4>1
      <4>2. CASE q # p
        <5>1. \A t \in ToSet(Plan[q]) : t \in Patches /\ patches'[t] = patches[t]
          BY <1>1, <2>4, <4>2, PlanType
        <5>2. Prepared(q)
          BY <3>1, <5>1 DEF Prepared, ToSet
        <5> QED
          BY <5>1, <5>2 DEF Inv, PlanOK
      <4> QED
        BY <4>1, <4>2
    <3>2. ASSUME NEW q \in Proposals, state'[q] = "applied" PROVE \A t \in ToSet(Plan[q]) : Settled(t)'
      BY <2>1, <2>5, <3>2, PlanType DEF Inv, PlanOK
    <3> QED
      BY <3>1, <3>2 DEF PlanOK
  <2>15. RowsOK'
    BY <2>2, <2>3, <2>4 DEF Inv, RowsOK, Status
  <2> QED
    BY <2>11, <2>12, <2>13, <2>14, <2>15 DEF Inv
<1> QED
  BY <1>2, <1>3

(* The writer of a file in the middle of a patch, and what it holds.           *)
LEMMA WritingMeans ==
  ASSUME Inv, NEW c \in Callers, call[c].pc = "writing"
  PROVE  /\ call[c] \in Call /\ writer = c
         /\ call[c].patch \in Patches /\ patches[call[c].patch] # None
         /\ PreOK(call[c].patch, call[c].pre)
         /\ call[c].next >= 1 /\ call[c].next <= Len(Files[call[c].patch]) + 1
         /\ Targets(call[c].patch) \cap locks = {}
         /\ Written(call[c].patch, call[c].next - 1, files, edited)
         /\ Committed(call[c].patch, call[c].next - 1, files, head, edited)
BY DEF Inv, TypeOK, CallOK

(* The same of a rollback.                                                     *)
LEMMA RestoringMeans ==
  ASSUME Inv, NEW c \in Callers, call[c].pc = "restoring"
  PROVE  /\ call[c] \in Call /\ writer = c
         /\ call[c].patch \in Patches /\ patches[call[c].patch] # None
         /\ PreOK(call[c].patch, call[c].pre)
         /\ call[c].next <= Len(Files[call[c].patch])
         /\ Restored(call[c].patch, call[c].pre, call[c].next, files, edited)
BY DEF Inv, TypeOK, CallOK

(* A step that changes what files hold, and moves its caller on in its patch.   *)
LEMMA FileStep ==
  ASSUME Inv, NEW c \in Callers, call[c].pc \in {"writing", "restoring"},
         NEW k \in Nat, Go(c, [call[c] EXCEPT !.next = k]), files' \in Tree,
         edited' \subseteq edited,
         UNCHANGED <<head, patches, state, locks, writer, edits>>, CallOK(c)'
  PROVE  Inv'
<1> DEFINE row == [call[c] EXCEPT !.next = k]
<1>1. call[c] \in Call /\ writer = c /\ writer' = c
  BY DEF Inv, TypeOK, CallOK
<1>2. /\ row \in Call /\ row.pc = call[c].pc /\ row.patch = call[c].patch
      /\ row.pre = call[c].pre /\ row.proposal = call[c].proposal /\ row.queue = call[c].queue
  BY <1>1 DEF Call
<1>3. Go(c, row)
  OBVIOUS
<1> HIDE DEF row
<1>4. /\ call' \in [Callers -> Call]
      /\ call'[c] = row /\ \A d \in Callers \ {c} : call'[d] = call[d]
  BY <1>2, <1>3, GoType DEF Inv
<1>5. \A d \in Callers \ {c} : CallOK(d)' /\ LeftOK(d)'
  BY <1>1, <1>2, <1>3, OthersInOrder DEF Settled, Status
<1>6. LeftOK(c)'
  BY <1>2, <1>4 DEF Inv, LeftOK, Settled, Status
<1>7. TypeOK'
  BY <1>4 DEF Inv, TypeOK
<1>8. PlanOK' /\ RowsOK'
  BY DEF Inv, PlanOK, RowsOK, Settled, Status, Prepared
<1> QED
  BY <1>4, <1>5, <1>6, <1>7, <1>8 DEF Inv

(* One more file is written; an earlier one of the same path is overwritten.    *)
LEMMA WriteFileKeeps ==
  ASSUME Inv, NEW c \in Callers, WriteFile(c)
  PROVE  Inv'
<1> DEFINE t == call[c].patch
           n == call[c].next
           file == Files[t][n]
<1>1. /\ call[c].pc = "writing" /\ t \in Patches /\ writer = c /\ n >= 1 /\ n <= Len(Files[t]) /\ n \in Nat
      /\ Written(t, n - 1, files, edited) /\ Committed(t, n - 1, files, head, edited) /\ Len(Files[t]) \in Nat /\ n \in DOMAIN Files[t]
  BY WritingMeans, FilesType DEF WriteFile, Call
<1>2. /\ files' = [files EXCEPT ![file.path] = file.content]
      /\ Go(c, [call[c] EXCEPT !.next = n + 1]) /\ n + 1 \in Nat
      /\ edited' = edited \ {file.path}
      /\ UNCHANGED <<head, patches, state, locks, writer, edits>>
  BY <1>1 DEF WriteFile
<1>3. file.path \in Paths /\ file.content \in Contents \cup {Absent}
  BY <1>1, FilesType
<1>4. /\ files' \in Tree
      /\ files'[file.path] = file.content
      /\ \A path \in Paths : path # file.path => files'[path] = files[path]
  BY <1>2, <1>3 DEF Inv, TypeOK, Tree
<1>5. ASSUME NEW k \in DOMAIN Files[t], k <= n, Files[t][k].path \notin edited',
             \A j \in DOMAIN Files[t] : k < j /\ j <= n => Files[t][j].path # Files[t][k].path
      PROVE  files'[Files[t][k].path] = Files[t][k].content
  <2>1. CASE k = n
    BY <1>4, <2>1
  <2>2. CASE k # n
    <3>1. k \in Nat /\ k < n /\ k <= n - 1 /\ \A j \in DOMAIN Files[t] : j <= n - 1 => j <= n
      BY <1>1, <1>5, <2>2, FilesType
    <3>2. Files[t][k].path # file.path
      BY <1>1, <1>5, <3>1
    <3>3. files[Files[t][k].path] = Files[t][k].content
      BY <1>1, <1>2, <1>5, <3>1, <3>2 DEF Written
    <3> QED
      BY <1>1, <1>4, <3>2, <3>3, FilesType
  <2> QED
    BY <2>1, <2>2
<1>7. ASSUME Repository, DirtyPolicy # "allow", NEW k \in DOMAIN Files[t],
             Files[t][k].path \notin Ignored \cup edited',
             \A j \in DOMAIN Files[t] : j <= n => Files[t][j].path # Files[t][k].path
      PROVE  files'[Files[t][k].path] = head'[Files[t][k].path]
  <2>1. Files[t][k].path # file.path
    BY <1>1, <1>7
  <2>2. \A j \in DOMAIN Files[t] : j <= n - 1 => j <= n
    BY <1>1, FilesType
  <2>3. files[Files[t][k].path] = head[Files[t][k].path]
    BY <1>1, <1>2, <1>7, <2>1, <2>2 DEF Committed
  <2> QED
    BY <1>1, <1>2, <1>4, <2>1, <2>3, FilesType
<1>6. CallOK(c)'
  <2> DEFINE row == [call[c] EXCEPT !.next = n + 1]
  <2>1. /\ row \in Call /\ row.pc = "writing" /\ row.patch = t
        /\ row.pre = call[c].pre /\ row.next = n + 1
    BY <1>2, WritingMeans DEF WriteFile, Call
  <2>2. Go(c, row)
    BY <1>2
  <2> HIDE DEF row
  <2>3. call'[c] = row
    BY <2>1, <2>2, GoType DEF Inv
  <2>4. /\ call'[c].pc = "writing" /\ call'[c].patch = t
        /\ call'[c].pre = call[c].pre /\ call'[c].next = n + 1
    BY <2>1, <2>3
  <2>5. n + 1 >= 1 /\ n + 1 <= Len(Files[t]) + 1 /\ n + 1 - 1 = n
    BY <1>1
  <2>6. PreOK(t, call[c].pre) /\ Targets(t) \cap locks = {} /\ patches[t] # None
    BY WritingMeans DEF WriteFile
  <2> HIDE DEF n, file, t
  <2>7. Written(t, n, files', edited')
    BY <1>1, <1>5 DEF Written
  <2>8. Committed(t, n, files', head', edited')
    BY <1>7 DEF Committed
  <2> QED
    BY <1>1, <1>2, <2>4, <2>5, <2>6, <2>7, <2>8 DEF CallOK
<1> QED
  BY <1>1, <1>2, <1>4, <1>6, FileStep

(* One more preimage is restored, over any later one of the same path.        *)
LEMMA RestoreFileKeeps ==
  ASSUME Inv, NEW c \in Callers, RestoreFile(c)
  PROVE  Inv'
<1> DEFINE t == call[c].patch
           n == call[c].next
           pre == call[c].pre
           path == Files[t][n].path
<1>1. /\ call[c].pc = "restoring" /\ t \in Patches /\ writer = c /\ n > 0 /\ n <= Len(Files[t]) /\ n \in Nat /\ n - 1 \in Nat
      /\ Restored(t, pre, n, files, edited) /\ Len(Files[t]) \in Nat /\ n \in DOMAIN Files[t]
      /\ PreOK(t, pre) /\ pre \in Seq(Contents \cup {Absent})
  BY RestoringMeans, FilesType DEF RestoreFile, Call
<1>2. /\ files' = [files EXCEPT ![path] = pre[n]]
      /\ Go(c, [call[c] EXCEPT !.next = n - 1])
      /\ edited' = edited \ {path}
      /\ UNCHANGED <<head, patches, state, locks, writer, edits>>
  BY <1>1 DEF RestoreFile
<1>3. path \in Paths /\ pre[n] \in Contents \cup {Absent}
  BY <1>1, FilesType DEF PreOK
<1>4. /\ files' \in Tree
      /\ files'[path] = pre[n]
      /\ \A other \in Paths : other # path => files'[other] = files[other]
  BY <1>2, <1>3 DEF Inv, TypeOK, Tree
<1>5. ASSUME NEW k \in DOMAIN Files[t], k > n - 1, Files[t][k].path \notin edited',
             \A j \in DOMAIN Files[t] : n - 1 < j /\ j < k => Files[t][j].path # Files[t][k].path
      PROVE  files'[Files[t][k].path] = pre[k]
  <2>1. CASE k = n
    BY <1>4, <2>1
  <2>2. CASE k # n
    <3>1. k > n /\ n - 1 < n /\ \A j \in DOMAIN Files[t] : n < j => n - 1 < j
      BY <1>1, <1>5, <2>2, FilesType
    <3>2. Files[t][k].path # path
      BY <1>1, <1>5, <3>1
    <3>3. files[Files[t][k].path] = pre[k]
      BY <1>1, <1>2, <1>5, <3>1, <3>2 DEF Restored
    <3> QED
      BY <1>1, <1>4, <3>2, <3>3, FilesType
  <2> QED
    BY <2>1, <2>2
<1>6. CallOK(c)'
  <2> DEFINE row == [call[c] EXCEPT !.next = n - 1]
  <2>1. /\ row \in Call /\ row.pc = "restoring" /\ row.patch = t
        /\ row.pre = pre /\ row.next = n - 1
    BY <1>1, RestoringMeans DEF RestoreFile, Call
  <2>2. Go(c, row)
    BY <1>2
  <2> HIDE DEF row
  <2>3. call'[c] = row
    BY <2>1, <2>2, GoType DEF Inv
  <2>4. /\ call'[c].pc = "restoring" /\ call'[c].patch = t
        /\ call'[c].pre = pre /\ call'[c].next = n - 1
    BY <2>1, <2>3
  <2>5. n - 1 <= Len(Files[t])
    BY <1>1
  <2>6. patches[t] # None
    BY RestoringMeans DEF RestoreFile
  <2> HIDE DEF n, path, pre, t
  <2>7. Restored(t, pre, n - 1, files', edited')
    BY <1>1, <1>5 DEF Restored
  <2> QED
    BY <1>1, <1>2, <2>4, <2>5, <2>6, <2>7 DEF CallOK
<1> QED
  BY <1>1, <1>2, <1>4, <1>6, FileStep

(* The row of a patch that is written or restored gets its status, and the      *)
(* caller leaves the write lock behind.                                        *)
LEMMA EndStep ==
  ASSUME Inv, NEW c \in Callers, writer = c, writer' = None,
         NEW t \in Patches, NEW row \in Call, Go(c, row), NEW new \in Row,
         patches' = [patches EXCEPT ![t] = new],
         new.status \in {"applied", "rolled_back"},
         new.status = "applied" => PreOK(t, new.pre),
         patches[t] # None,
         state' \in [Proposals -> {"pending", "applied", "rolled_back"}],
         \A p \in Proposals : state'[p] = "applied" => state[p] = "applied",
         edited' = {}, UNCHANGED <<files, head, locks, edits>>,
         row.pc \in {"idle", "read"},
         row.proposal # None /\ row.pc = "read" => call[c].pc = "writing" /\
           row.proposal = call[c].proposal /\ row.queue = call[c].queue /\ t = call[c].patch
  PROVE  Inv'
<1>1. /\ call' \in [Callers -> Call]
      /\ call'[c] = row /\ \A d \in Callers \ {c} : call'[d] = call[d]
  BY GoType DEF Inv
<1>2. /\ patches' \in [Patches -> Row \cup {None}] /\ patches'[t] = new /\ new # None
      /\ \A u \in Patches : u # t => patches'[u] = patches[u]
  BY NoneAssumption DEF Inv, TypeOK
<1>3. /\ \A u \in Patches : patches[u] # None <=> patches'[u] # None
      /\ \A u \in Patches : Settled(u) => Settled(u)'
      /\ Settled(t)'
  BY <1>2 DEF Settled, Status
<1>4. \A d \in Callers \ {c} : CallOK(d)' /\ LeftOK(d)'
  BY <1>3, OthersInOrder
<1>5. CallOK(c)'
  BY <1>1, NoneAssumption DEF CallOK
<1>6. LeftOK(c)'
  <2> SUFFICES ASSUME row.proposal # None, row.pc = "read",
                      NEW u \in ToSet(Plan[row.proposal]), ~ Settled(u)'
               PROVE  u \in row.queue
    BY <1>1 DEF LeftOK
  <2>1. row.proposal \in Proposals /\ u \in Patches
    BY PlanType DEF Call
  <2>2. ~ Settled(u) /\ u # t
    BY <1>3, <2>1
  <2> QED
    BY <2>2 DEF Inv, LeftOK
<1>7. TypeOK'
  BY <1>1, <1>2 DEF Inv, TypeOK
<1>8. PlanOK'
  <2>1. \A p \in Proposals : Prepared(p)' => Prepared(p)
    <3> SUFFICES ASSUME NEW p \in Proposals, Prepared(p)' PROVE Prepared(p)
      OBVIOUS
    <3>1. PICK k \in DOMAIN Plan[p] : patches'[Plan[p][k]] # None
      BY DEF Prepared
    <3>2. Plan[p][k] \in Patches
      BY PlanType DEF ToSet
    <3> QED
      BY <1>3, <3>1, <3>2 DEF Prepared
  <2> QED
    BY <1>3, <2>1, PlanType DEF Inv, PlanOK
<1>9. RowsOK'
  BY <1>2, NoneAssumption DEF Inv, RowsOK, Status
<1> QED
  BY <1>1, <1>4, <1>5, <1>6, <1>7, <1>8, <1>9 DEF Inv

(* The apply of a patch is committed with the preimages it took.               *)
LEMMA CommitKeeps ==
  ASSUME Inv, NEW c \in Callers, Commit(c)
  PROVE  Inv'
<1> DEFINE t == call[c].patch
           row == [call[c] EXCEPT !.pc = "read", !.patch = None, !.pre = <<>>, !.next = 0]
           new == [patches[t] EXCEPT !.status = "applied", !.pre = call[c].pre]
<1>1. /\ call[c] \in Call /\ writer = c /\ t \in Patches /\ patches[t] # None
      /\ PreOK(t, call[c].pre) /\ call[c].pc = "writing"
  BY WritingMeans DEF Commit
<1>2. patches[t] \in Row
  BY <1>1 DEF Inv, TypeOK
<1>3. new \in Row /\ new.status = "applied" /\ new.pre = call[c].pre
  BY <1>1, <1>2 DEF Row, Call
<1>4. row \in Call /\ row.pc = "read" /\ row.proposal = call[c].proposal /\ row.queue = call[c].queue
  <2>1. <<>> \in Seq(Contents \cup {Absent})
    OBVIOUS
  <2> DEFINE none == <<>>
  <2> HIDE DEF none
  <2>2. /\ [call[c] EXCEPT !.pc = "read", !.patch = None, !.pre = none, !.next = 0] \in Call
        /\ [call[c] EXCEPT !.pc = "read", !.patch = None, !.pre = none, !.next = 0].pc = "read"
        /\ [call[c] EXCEPT !.pc = "read", !.patch = None, !.pre = none, !.next = 0].proposal
             = call[c].proposal
        /\ [call[c] EXCEPT !.pc = "read", !.patch = None, !.pre = none, !.next = 0].queue
             = call[c].queue
    BY <1>1, <2>1 DEF Call, none
  <2> QED
    BY <2>2 DEF none
<1>5. patches' = [patches EXCEPT ![t] = new]
  BY <1>1, <1>2 DEF Commit
<1>6. /\ Go(c, row) /\ writer' = None /\ edited' = {}
      /\ UNCHANGED <<files, head, state, locks, edits>>
  BY DEF Commit
<1>7. state' \in [Proposals -> {"pending", "applied", "rolled_back"}]
  BY <1>6 DEF Inv, TypeOK
<1> HIDE DEF row, new, t
<1> QED
  BY <1>1, <1>3, <1>4, <1>5, <1>6, <1>7, EndStep DEF t

(* A rollback is committed, and the proposal counts as rolled back.            *)
LEMMA RollbackCommitKeeps ==
  ASSUME Inv, NEW c \in Callers, RollbackCommit(c)
  PROVE  Inv'
<1> DEFINE t == call[c].patch
           new == [patches[t] EXCEPT !.status = "rolled_back"]
<1>1. call[c] \in Call /\ writer = c /\ t \in Patches /\ patches[t] # None
  BY RestoringMeans DEF RollbackCommit
<1>2. patches[t] \in Row
  BY <1>1 DEF Inv, TypeOK
<1>3. new \in Row /\ new.status = "rolled_back"
  BY <1>2 DEF Row
<1>4. patches' = [patches EXCEPT ![t] = new]
  BY <1>1, <1>2 DEF RollbackCommit
<1>5. /\ state' \in [Proposals -> {"pending", "applied", "rolled_back"}]
      /\ \A p \in Proposals : state'[p] = "applied" => state[p] = "applied"
  BY <1>1, PlanType DEF RollbackCommit, Inv, TypeOK
<1>6. /\ Go(c, Idle) /\ writer' = None /\ edited' = {}
      /\ UNCHANGED <<files, head, locks, edits>>
  BY DEF RollbackCommit
<1> HIDE DEF new, t
<1> QED
  BY <1>1, <1>3, <1>4, <1>5, <1>6, IdleType, EndStep

(* A proposal is marked when nothing of it is left to do.                      *)
LEMMA MarkKeeps ==
  ASSUME Inv, NEW c \in Callers, Mark(c)
  PROVE  Inv'
<1> DEFINE p == call[c].proposal
<1>1. /\ p \in Proposals /\ p # None /\ writer = None /\ writer' = None /\ call[c].pc = "mark"
      /\ state' = [state EXCEPT ![p] = "applied"] /\ Go(c, Idle)
      /\ UNCHANGED <<files, head, patches, locks, writer, edited, edits>>
  BY NoneAssumption DEF Mark, Inv, CallOK
<1>2. \A t \in ToSet(Plan[p]) : Settled(t)
  BY <1>1 DEF Inv, LeftOK
<1>3. /\ call' \in [Callers -> Call]
      /\ call'[c] = Idle /\ \A d \in Callers \ {c} : call'[d] = call[d]
  BY <1>1, IdleType, GoType DEF Inv
<1>4. \A d \in Callers \ {c} : CallOK(d)' /\ LeftOK(d)'
  BY <1>1, IdleType, OthersInOrder DEF Settled, Status
<1>5. CallOK(c)' /\ LeftOK(c)'
  BY <1>1, <1>3, IdleType, NoneAssumption DEF CallOK, LeftOK
<1>6. TypeOK'
  BY <1>1, <1>3 DEF Inv, TypeOK
<1>7. /\ state'[p] = "applied"
      /\ \A q \in Proposals : q # p => state'[q] = state[q]
  BY <1>1 DEF Inv, TypeOK
<1>8. PlanOK' /\ RowsOK'
  BY <1>1, <1>2, <1>7 DEF Inv, PlanOK, RowsOK, Settled, Status, Prepared
<1> QED
  BY <1>3, <1>4, <1>5, <1>6, <1>8 DEF Inv

(* What the human does leaves the invariant when the writer stays in order.     *)
LEMMA HumanStep ==
  ASSUME Inv, UNCHANGED <<patches, state, writer, call>>,
         files' \in Tree, head' \in Tree, locks' \subseteq Paths,
         edited' \subseteq Paths, edits' \in Nat,
         \A c \in Callers : writer = c => CallOK(c)'
  PROVE  Inv'
<1>1. ASSUME NEW d \in Callers PROVE CallOK(d)' /\ LeftOK(d)'
  <2>1. CASE writer # d
    BY <2>1 DEF Inv, CallOK, LeftOK, Settled, Status
  <2>2. CASE writer = d
    BY <2>2 DEF Inv, LeftOK, Settled, Status
  <2> QED
    BY <2>1, <2>2
<1>2. TypeOK'
  BY DEF Inv, TypeOK
<1>3. PlanOK' /\ RowsOK'
  BY DEF Inv, PlanOK, RowsOK, Settled, Status, Prepared
<1> QED
  BY <1>1, <1>2, <1>3 DEF Inv

(* Targets are locked while nobody has the write lock.                         *)
LEMMA SetLockKeeps ==
  ASSUME Inv, NEW path \in Paths, NEW locked \in BOOLEAN, SetLock(path, locked)
  PROVE  Inv'
<1>1. writer = None /\ UNCHANGED <<files, head, patches, state, writer, call, edited, edits>>
  BY DEF SetLock
<1>2. locks' \subseteq Paths
  BY DEF SetLock, Inv, TypeOK
<1> QED
  BY <1>1, <1>2, HumanStep, NoneAssumption DEF Inv, TypeOK

(* An edit while a caller writes puts the path among those that were edited.    *)
LEMMA EditFileKeeps ==
  ASSUME Inv, NEW path \in Paths, NEW content \in Foreign, EditFile(path, content)
  PROVE  Inv'
<1>1. /\ files' = [files EXCEPT ![path] = content] /\ files' \in Tree
      /\ \A other \in Paths : other # path => files'[other] = files[other]
      /\ UNCHANGED <<head, patches, state, locks, writer, call>>
      /\ edits' \in Nat /\ edited' \subseteq Paths
  BY HarnessAssumption DEF EditFile, Inv, TypeOK, Tree
<1>2. ASSUME NEW c \in Callers, writer = c PROVE CallOK(c)'
  <2>1. edited' = edited \cup {path}
    BY <1>2, NoneAssumption DEF EditFile
  <2>2. ASSUME NEW t \in Patches, NEW k \in DOMAIN Files[t], Files[t][k].path \notin edited'
        PROVE  /\ files'[Files[t][k].path] = files[Files[t][k].path]
               /\ Files[t][k].path \notin edited
    BY <1>1, <2>1, <2>2, FilesType
  <2>3. ASSUME NEW t \in Patches, NEW n, NEW pre
        PROVE  /\ Written(t, n, files, edited) => Written(t, n, files', edited')
               /\ Restored(t, pre, n, files, edited) => Restored(t, pre, n, files', edited')
               /\ Committed(t, n, files, head, edited) => Committed(t, n, files', head', edited')
    BY <1>1, <2>2 DEF Written, Restored, Committed
  <2>4. CallOK(c)
    BY DEF Inv
  <2> QED
    BY <1>1, <1>2, <2>3, <2>4 DEF CallOK
<1> QED
  BY <1>1, <1>2, HumanStep DEF Inv, TypeOK

(* git commit: what was committed still is, as it is now.                      *)
LEMMA GitCommitKeeps ==
  ASSUME Inv, NEW paths \in SUBSET (Paths \ Ignored), GitCommit(paths)
  PROVE  Inv'
<1>1. /\ head' \in Tree
      /\ \A path \in Paths : head'[path] = files[path] \/ head'[path] = head[path]
      /\ UNCHANGED <<files, patches, state, locks, writer, call, edited, edits>>
  BY DEF GitCommit, Inv, TypeOK, Tree
<1>2. ASSUME NEW c \in Callers, writer = c PROVE CallOK(c)'
  <2>1. ASSUME NEW t \in Patches, NEW n, NEW pre
        PROVE  /\ Written(t, n, files, edited) => Written(t, n, files', edited')
               /\ Restored(t, pre, n, files, edited) => Restored(t, pre, n, files', edited')
               /\ Committed(t, n, files, head, edited) => Committed(t, n, files', head', edited')
    BY <1>1, FilesType DEF Written, Restored, Committed
  <2>2. CallOK(c)
    BY DEF Inv
  <2> QED
    BY <1>1, <1>2, <2>1, <2>2 DEF CallOK
<1> QED
  BY <1>1, <1>2, HumanStep DEF Inv, TypeOK

--------------------------------------------------------------------------------
(* The theorems.                                                               *)

(* Initially nothing is prepared and nobody does anything.                     *)
LEMMA InvInit == Init => Inv
<1> SUFFICES ASSUME Init PROVE Inv
  OBVIOUS
<1>1. /\ \A c \in Callers : call[c] = Idle
      /\ call \in [Callers -> Call] /\ writer = None
  BY IdleType DEF Init
<1>2. files \in Tree /\ head \in Tree /\ edited = {} /\ edits = 0
  BY HarnessAssumption DEF Init, Tree
<1>3. /\ patches \in [Patches -> Row \cup {None}] /\ \A t \in Patches : patches[t] = None
      /\ state \in [Proposals -> {"pending", "applied", "rolled_back"}]
      /\ \A p \in Proposals : state[p] = "pending"
      /\ locks = {}
  BY DEF Init
<1>4. TypeOK
  BY <1>1, <1>2, <1>3 DEF TypeOK
<1>5. \A c \in Callers : CallOK(c) /\ LeftOK(c)
  BY <1>1, IdleType, NoneAssumption DEF CallOK, LeftOK
<1>6. PlanOK /\ RowsOK
  BY <1>3, PlanType, PreparedMeans DEF PlanOK, RowsOK, Status
<1> QED
  BY <1>4, <1>5, <1>6 DEF Inv

(* Every step keeps the invariant.                                             *)
LEMMA InvNext == Inv /\ [Next]_vars => Inv'
<1> SUFFICES ASSUME Inv, [Next]_vars PROVE Inv'
  OBVIOUS
<1>1. CASE UNCHANGED vars
  <2>1. \A c \in Callers : CallOK(c)' /\ LeftOK(c)'
    BY <1>1 DEF vars, Inv, CallOK, LeftOK, Settled, Status
  <2>2. TypeOK' /\ PlanOK' /\ RowsOK'
    BY <1>1 DEF vars, Inv, TypeOK, PlanOK, RowsOK, Settled, Status, Prepared
  <2> QED
    BY <2>1, <2>2 DEF Inv
<1>2. ASSUME NEW c \in Callers, NEW p \in Proposals,
             (\E goal \in {"prepare", "apply"} : PrepareRead(c, p, goal)) \/ AutonomyList(c, p)
      PROVE  Inv'
  <2>1. \E t \in Patches : t \in ToSet(Plan[p])
    <3>1. Plan[p] \in Seq(Patches) /\ Plan[p] # <<>>
      BY HarnessAssumption
    <3>2. 1 \in DOMAIN Plan[p] /\ Plan[p][1] \in Patches
      BY <3>1
    <3> QED
      BY <3>2 DEF ToSet
  <2> QED
    BY <1>2, <2>1, TakingUpKeeps
<1>3. ASSUME NEW c \in Callers, NEW t \in Patches, ApplyPatch(c, t) \/ RollbackRead(c, t)
      PROVE  Inv'
  BY <1>3, TakingUpKeeps, PlanType
<1>4. ASSUME NEW c \in Callers, NEW t \in Patches, ReadPatch(c, t) PROVE Inv'
  BY <1>4, ReadPatchKeeps
<1>5. ASSUME NEW c \in Callers,
             \/ Prepare(c) \/ AutonomyPlan(c) \/ QueueDone(c) \/ Begin(c) \/ ReadFile(c)
             \/ WriteFile(c) \/ Commit(c) \/ Mark(c) \/ RollbackBegin(c) \/ RestoreFile(c)
             \/ RollbackCommit(c) \/ Crash(c)
      PROVE  Inv'
  BY <1>5, PrepareKeeps, AutonomyPlanKeeps, QueueDoneKeeps, BeginKeeps, ReadFileKeeps, WriteFileKeeps,
     CommitKeeps, MarkKeeps, RollbackBeginKeeps, RestoreFileKeeps, RollbackCommitKeeps, CrashKeeps
<1>6. ASSUME NEW path \in Lockable, NEW locked \in BOOLEAN, SetLock(path, locked) PROVE Inv'
  BY <1>6, SetLockKeeps, HarnessAssumption
<1>7. ASSUME NEW path \in Paths, NEW content \in Foreign, EditFile(path, content) PROVE Inv'
  BY <1>7, EditFileKeeps
<1>8. ASSUME NEW paths \in SUBSET (Paths \ Ignored), GitCommit(paths) PROVE Inv'
  BY <1>8, GitCommitKeeps
<1> QED
  BY <1>1, <1>2, <1>3, <1>4, <1>5, <1>6, <1>7, <1>8 DEF Next

(* The invariant holds of every behaviour.                                     *)
THEOREM InvAlways == Spec => []Inv
<1> QED
  BY InvInit, InvNext, PTL DEF Spec

(* A proposal that is marked applied has nothing left to apply, whatever the    *)
(* plans, the callers and the refusals.                                        *)
THEOREM AppliedLeavesNothingReadyAlways == Spec => []AppliedLeavesNothingReady
<1>1. Inv => AppliedLeavesNothingReady
  BY DEF Inv, PlanOK, Settled, AppliedLeavesNothingReady
<1> QED
  BY <1>1, InvAlways, PTL

(* In a repository, and unless the policy allows a dirty tree, no apply          *)
(* overwrites what git does not have, except what it ignores and what was edited *)
(* since this apply had looked: for any plans, callers, edits and commits.      *)
THEOREM OverwritesCommittedOnlyAlways == Spec => OverwritesCommittedOnly
<1> DEFINE Safe ==
      Repository /\ DirtyPolicy # "allow" =>
        \A c \in Callers :
          LET listed == Files[call[c].patch]
              k      == call[c].next
              path   == listed[k].path
          IN call[c].pc = "writing" /\ call'[c] # call[c]
               /\ k \in DOMAIN listed /\ files'[path] # files[path] =>
               \/ files[path] = head[path]
               \/ path \in Ignored \cup edited
               \/ \E j \in 1 .. k - 1 : listed[j].path = path
<1>1. ASSUME Inv PROVE Safe
  <2> SUFFICES ASSUME Repository, DirtyPolicy # "allow", NEW c \in Callers, call[c].pc = "writing",
                      call[c].next \in DOMAIN Files[call[c].patch],
                      Files[call[c].patch][call[c].next].path \notin Ignored \cup edited,
                      \A j \in 1 .. call[c].next - 1 :
                        Files[call[c].patch][j].path # Files[call[c].patch][call[c].next].path
               PROVE  files[Files[call[c].patch][call[c].next].path]
                        = head[Files[call[c].patch][call[c].next].path]
    OBVIOUS
  <2>1. /\ call[c].patch \in Patches /\ call[c].next \in Nat
        /\ Committed(call[c].patch, call[c].next - 1, files, head, edited)
    BY <1>1, WritingMeans DEF Call
  <2>2. \A j \in DOMAIN Files[call[c].patch] : j <= call[c].next - 1 => j \in 1 .. call[c].next - 1
    BY <2>1, FilesType
  <2> QED
    BY <2>1, <2>2 DEF Committed
<1>2. Inv /\ [Next]_vars => [Safe]_vars
  BY <1>1
<1> QED
  BY <1>2, InvAlways, PTL DEF Spec, OverwritesCommittedOnly

(* A row says applied, or rolled back, only when the files do, and nobody       *)
(* writes a file whose target is locked except to restore it: for any callers   *)
(* that apply and roll back any patches of the same files.                      *)
THEOREM RecordedIsOnDiskAlways == Spec => RecordedIsOnDisk
<1> DEFINE RowsTell ==
      \A t \in Patches : Status(t)' # Status(t) =>
        /\ Status(t)' = "applied" =>
             \A k \in DOMAIN Files[t] : LastOfPath(t, k) /\ Files[t][k].path \notin edited =>
               files[Files[t][k].path] = Files[t][k].content
        /\ Status(t)' = "rolled_back" =>
             \E c \in Callers :
               /\ call[c].pc = "restoring" /\ call[c].patch = t
               /\ \A k \in DOMAIN Files[t] : FirstOfPath(t, k) /\ Files[t][k].path \notin edited =>
                    files[Files[t][k].path] = call[c].pre[k]
    LocksHold ==
      \A path \in Paths : path \in locks /\ files'[path] # files[path] /\ call' # call =>
        \E c \in Callers : call[c].pc = "restoring" /\ call'[c] # call[c]
<1>1. ASSUME Inv, Next PROVE RowsTell
  <2>1. ASSUME NEW c \in Callers, Commit(c) PROVE RowsTell
    <3>0. PICK u \in Patches : u = call[c].patch
      BY <1>1, <2>1, WritingMeans DEF Commit
    <3>1. /\ Written(u, call[c].next - 1, files, edited) /\ call[c].next <= Len(Files[u]) + 1
          /\ call[c].next > Len(Files[u]) /\ call[c].next \in Nat
          /\ DOMAIN Files[u] = 1 .. Len(Files[u]) /\ Len(Files[u]) \in Nat
      BY <1>1, <2>1, <3>0, WritingMeans, FilesType DEF Commit, Call
    <3>2. \A t \in Patches : t # u => Status(t)' = Status(t)
      BY <1>1, <2>1, <3>0 DEF Commit, Status, Inv, TypeOK
    <3>3. Status(u)' # "rolled_back"
      <4>1. patches[u] \in Row /\ patches[u] # None
        BY <1>1, <2>1, <3>0, WritingMeans DEF Commit, Inv, TypeOK
      <4>2. patches'[u] = [[patches[u] EXCEPT !.status = "applied"] EXCEPT !.pre = call[c].pre]
        BY <1>1, <2>1, <3>0 DEF Commit, Inv, TypeOK
      <4>3. patches'[u].status = "applied"
        BY <4>1, <4>2 DEF Row
      <4> QED
        BY <4>3 DEF Status
    <3>4. \A k \in DOMAIN Files[u] : LastOfPath(u, k) /\ Files[u][k].path \notin edited =>
            files[Files[u][k].path] = Files[u][k].content
      <4> SUFFICES ASSUME NEW k \in DOMAIN Files[u], LastOfPath(u, k), Files[u][k].path \notin edited
                   PROVE  files[Files[u][k].path] = Files[u][k].content
        OBVIOUS
      <4>1. k \in Nat /\ k <= call[c].next - 1
        BY <3>1
      <4>2. \A j \in DOMAIN Files[u] : k < j => Files[u][j].path # Files[u][k].path
        BY <3>1, <4>1 DEF LastOfPath
      <4> QED
        BY <3>1, <4>1, <4>2 DEF Written
    <3> QED
      BY <3>2, <3>3, <3>4
  <2>2. ASSUME NEW c \in Callers, RollbackCommit(c) PROVE RowsTell
    <3>0. PICK u \in Patches : u = call[c].patch
      BY <1>1, <2>2, RestoringMeans DEF RollbackCommit
    <3>1. /\ call[c].pc = "restoring" /\ call[c].next = 0
          /\ Restored(u, call[c].pre, 0, files, edited)
          /\ DOMAIN Files[u] = 1 .. Len(Files[u]) /\ Len(Files[u]) \in Nat
      BY <1>1, <2>2, <3>0, RestoringMeans, FilesType DEF RollbackCommit
    <3>2. \A t \in Patches : t # u => Status(t)' = Status(t)
      BY <1>1, <2>2, <3>0 DEF RollbackCommit, Status, Inv, TypeOK
    <3>3. Status(u)' # "applied"
      <4>1. patches[u] \in Row /\ patches[u] # None
        BY <1>1, <2>2, <3>0, RestoringMeans DEF RollbackCommit, Inv, TypeOK
      <4>2. patches'[u] = [patches[u] EXCEPT !.status = "rolled_back"]
        BY <1>1, <2>2, <3>0 DEF RollbackCommit, Inv, TypeOK
      <4> QED
        BY <4>1, <4>2 DEF Status, Row
    <3>4. \A k \in DOMAIN Files[u] : FirstOfPath(u, k) /\ Files[u][k].path \notin edited =>
            files[Files[u][k].path] = call[c].pre[k]
      BY <3>1 DEF Restored, FirstOfPath
    <3> QED
      BY <3>0, <3>1, <3>2, <3>3, <3>4
  <2>3. ASSUME NEW c \in Callers, Prepare(c) PROVE RowsTell
    <3>1. /\ call[c].proposal \in Proposals
          /\ \A t \in Patches : patches'[t] = patches[t] \/ patches'[t].status = "ready"
      <4>1. CASE UNCHANGED patches
        BY <1>1, <2>3, <4>1 DEF Prepare, Inv, CallOK
      <4>2. CASE patches' = [t \in Patches |->
                   IF t \in ToSet(Plan[call[c].proposal])
                   THEN [status |-> "ready", pre |-> <<>>] ELSE patches[t]]
        BY <1>1, <2>3, <4>2 DEF Prepare, Inv, CallOK
      <4> QED
        BY <2>3, <4>1, <4>2 DEF Prepare
    <3> QED
      BY <3>1 DEF Status
  <2>5. CASE UNCHANGED patches
    BY <2>5 DEF Status
  <2> QED
    BY <1>1, <2>1, <2>2, <2>3, <2>5
    DEF Next, PrepareRead, AutonomyList, AutonomyPlan, ApplyPatch, RollbackRead, ReadPatch,
        QueueDone, Begin, ReadFile, WriteFile, Mark, RollbackBegin, RestoreFile, Crash, SetLock,
        EditFile, GitCommit
<1>2. ASSUME Inv, Next PROVE LocksHold
  <2>1. ASSUME NEW c \in Callers, WriteFile(c) PROVE LocksHold
    <3> DEFINE u == call[c].patch
    <3>1. /\ u \in Patches /\ Targets(u) \cap locks = {} /\ call[c].next >= 1
          /\ call[c].next <= Len(Files[u]) /\ call[c].next \in Nat
      BY <1>2, <2>1, WritingMeans DEF WriteFile, Call
    <3>2. Files[u][call[c].next].path \in Targets(u)
      BY <3>1, FilesType DEF Targets
    <3>3. \A path \in Paths : path # Files[u][call[c].next].path => files'[path] = files[path]
      BY <1>2, <2>1 DEF WriteFile, Inv, TypeOK, Tree
    <3> QED
      BY <3>1, <3>2, <3>3
  <2>2. ASSUME NEW c \in Callers, RestoreFile(c) PROVE LocksHold
    <3>1. /\ call[c].pc = "restoring" /\ call[c] \in Call /\ call[c].next > 0
          /\ Go(c, [call[c] EXCEPT !.next = @ - 1])
      BY <1>2, <2>2 DEF RestoreFile, Inv, TypeOK
    <3>2. call'[c].next = call[c].next - 1
      BY <1>2, <3>1 DEF Go, Inv, TypeOK, Call
    <3>3. call'[c] # call[c]
      BY <3>1, <3>2 DEF Call
    <3> QED
      BY <3>1, <3>3
  <2>3. CASE UNCHANGED files \/ UNCHANGED call
    BY <2>3
  <2> QED
    BY <1>2, <2>1, <2>2, <2>3
    DEF Next, PrepareRead, AutonomyList, AutonomyPlan, ApplyPatch, RollbackRead, ReadPatch,
        Prepare, QueueDone, Begin, ReadFile, Commit, Mark, RollbackBegin, RollbackCommit, Crash,
        SetLock, EditFile, GitCommit
<1>3. Inv /\ [Next]_vars => [RowsTell /\ LocksHold]_vars
  BY <1>1, <1>2
<1> QED
  BY <1>3, InvAlways, PTL DEF Spec, RecordedIsOnDisk

--------------------------------------------------------------------------------
(* Doctor: every run that failed as expected was captured in its directory     *)
(* when it was recorded, also one that an earlier or a broken matrix left; a   *)
(* handoff that says a provider was invoked is written after its answer; and   *)
(* what doctor said is forgotten with the next change.                         *)

\* A run that failed as expected was seen to.
RunsAreCaptured ==
  /\ rows = [d \in E!Dir |-> rows[d]] /\ captured \in [E!Dir -> SUBSET Operator]
  /\ matrix # None => matrix \in [dir : E!Dir, db : {"smoke", "other"}, todo : SUBSET Operator]
  /\ \A d \in E!Dir : (rows[d] # None \/ (matrix # None /\ matrix.dir = d)) =>
       \A run \in rows[d] : run.kind = "invalid_output" => run.operator \in captured[d]

\* A judge that is past its command has answered.
HandoffsAreEarned ==
  /\ judge = [request |-> judge.request, raw |-> judge.raw, result |-> judge.result,
              handoff |-> judge.handoff, passed |-> judge.passed]
  /\ judge.handoff # None => (judge.handoff.invoked => judged)
  /\ judging # None =>
       /\ judging = [at |-> judging.at, provider |-> judging.provider, result |-> judging.result]
       /\ judging.at \in {"check", "handoff"} /\ judging.provider => judged

\* What doctor said is so until something changes.
ReportIsTrue ==
  report # None =>
    /\ "failure" \in report.satisfied => E!FailureEvidence
    /\ "judge" \in report.satisfied => E!JudgeEvidence
    /\ report.v0 => "safe_smokes" \in report.asked /\ report.failed = {}
    /\ report.satisfied \cap report.pending = {}

Evidence == RunsAreCaptured /\ HandoffsAreEarned

(* A turn that a matrix records is captured when it failed as expected.        *)
LEMMA TargetInv ==
  ASSUME Evidence, NEW o \in Operator, NEW run \in E!Outcomes(o), E!Target(o, run)
  PROVE  Evidence'
<1>1. HandoffsAreEarned'  BY DEF E!Target, Evidence, HandoffsAreEarned
<1>2. /\ matrix # None /\ matrix \in [dir : E!Dir, db : {"smoke", "other"}, todo : SUBSET Operator]
      /\ run.operator = o
  BY DEF E!Target, Evidence, RunsAreCaptured
<1>3. matrix' # None => matrix' \in [dir : E!Dir, db : {"smoke", "other"}, todo : SUBSET Operator]
                        /\ matrix'.dir = matrix.dir
  BY <1>2 DEF E!Target
<1>4. captured' \in [E!Dir -> SUBSET Operator] /\ \A d \in E!Dir : captured[d] \subseteq captured'[d]
  BY <1>2 DEF E!Target, Evidence, RunsAreCaptured
<1>5. rows' = [d \in E!Dir |-> rows'[d]]  BY DEF E!Target, E!Record, Evidence, RunsAreCaptured
<1>6. ASSUME NEW d \in E!Dir, rows'[d] # None \/ (matrix' # None /\ matrix'.dir = d),
             NEW r \in rows'[d], r.kind = "invalid_output"
      PROVE  r.operator \in captured'[d]
  <2>1. CASE r \in rows[d] /\ (rows[d] # None \/ matrix.dir = d)
    BY <1>2, <1>4, <1>6, <2>1 DEF Evidence, RunsAreCaptured
  <2>2. CASE d = matrix.dir /\ r = run /\ o \in installed
    <3>1. captured' = [captured EXCEPT ![matrix.dir] = captured[matrix.dir] \cup {o}]
      BY <1>6, <2>2 DEF E!Target
    <3>2. QED  BY <1>2, <2>2, <3>1 DEF Evidence, RunsAreCaptured
  <2>3. CASE rows' = rows  BY <1>2, <1>3, <1>6, <2>1, <2>3
  <2>4. CASE o \in installed /\ rows' = [rows EXCEPT ![matrix.dir] = rows[matrix.dir] \cup {run}]
    <3>1. CASE d = matrix.dir
      <4>1. r \in rows[d] \/ r = run  BY <1>6, <2>4, <3>1 DEF Evidence, RunsAreCaptured
      <4>2. QED  BY <2>1, <2>2, <2>4, <3>1, <4>1
    <3>2. CASE d # matrix.dir
      <4>1. rows'[d] = rows[d]  BY <2>4, <3>2 DEF Evidence, RunsAreCaptured
      <4>2. QED  BY <1>3, <1>6, <2>1, <3>2, <4>1
    <3>3. QED  BY <3>1, <3>2
  <2>5. QED  BY <1>2, <2>3, <2>4 DEF E!Target, E!Record
<1>7. QED  BY <1>1, <1>3, <1>4, <1>5, <1>6 DEF Evidence, RunsAreCaptured

(* A matrix begins in a directory, whatever is in it.                          *)
LEMMA StartMatrixInv ==
  ASSUME Evidence, NEW d \in E!Dir, E!StartMatrix(d)
  PROVE  Evidence'
<1>1. HandoffsAreEarned'  BY DEF E!StartMatrix, Evidence, HandoffsAreEarned
<1>2. rows' = [rows EXCEPT ![d] = IF rows[d] = None THEN {} ELSE rows[d]] /\ captured' = captured
  BY DEF E!StartMatrix
<1>3. matrix' \in [dir : E!Dir, db : {"smoke", "other"}, todo : SUBSET Operator] /\ matrix'.dir = d
  BY DEF E!StartMatrix, E!DemoDb
<1>4. ASSUME NEW e \in E!Dir, rows'[e] # None \/ e = d, NEW r \in rows'[e], r.kind = "invalid_output"
      PROVE  r.operator \in captured'[e]
  <2>1. rows[e] # None /\ r \in rows[e]  BY <1>2, <1>4 DEF Evidence, RunsAreCaptured
  <2>2. QED  BY <1>2, <1>4, <2>1 DEF Evidence, RunsAreCaptured
<1>5. rows' = [e \in E!Dir |-> rows'[e]]  BY <1>2 DEF Evidence, RunsAreCaptured
<1>6. QED  BY <1>1, <1>2, <1>3, <1>4, <1>5 DEF Evidence, RunsAreCaptured

(* What leaves the databases of the smokes alone keeps what was captured.      *)
LEMMA OtherRuns ==
  ASSUME RunsAreCaptured, UNCHANGED <<rows, captured>>, matrix' = matrix \/ matrix' = None
  PROVE  RunsAreCaptured'
BY DEF RunsAreCaptured

(* The judge's own steps.                                                      *)
LEMMA JudgeInv ==
  ASSUME Evidence,
         \/ \E provider \in BOOLEAN : E!JudgeStart(provider) \/ E!JudgePrepare(provider)
         \/ \E raw \in BOOLEAN : E!JudgeFails(raw)
         \/ \E verdict \in Result : E!JudgeAnswers(verdict)
         \/ E!JudgeChecks \/ E!JudgeHandsOff
  PROVE  Evidence'
<1>1. UNCHANGED <<rows, captured, matrix>>
  BY DEF E!JudgeStart, E!JudgePrepare, E!JudgeFails, E!JudgeAnswers, E!JudgeChecks, E!JudgeHandsOff
<1>2. RunsAreCaptured'  BY <1>1, OtherRuns DEF Evidence
<1> USE DEF HandoffsAreEarned, Evidence
<1>3. ASSUME NEW provider \in BOOLEAN, E!JudgeStart(provider)  PROVE HandoffsAreEarned'
  BY <1>3 DEF E!JudgeStart
<1>4. ASSUME NEW provider \in BOOLEAN, E!JudgePrepare(provider)  PROVE HandoffsAreEarned'
  BY <1>4 DEF E!JudgePrepare, E!Handoff
<1>5. ASSUME NEW raw \in BOOLEAN, E!JudgeFails(raw)  PROVE HandoffsAreEarned'
  BY <1>5 DEF E!JudgeFails
<1>6. ASSUME NEW verdict \in Result, E!JudgeAnswers(verdict)  PROVE HandoffsAreEarned'
  BY <1>6 DEF E!JudgeAnswers
<1>7. ASSUME E!JudgeChecks  PROVE HandoffsAreEarned'
  BY <1>7 DEF E!JudgeChecks
<1>8. ASSUME E!JudgeHandsOff  PROVE HandoffsAreEarned'
  BY <1>8 DEF E!JudgeHandsOff, E!Handoff
<1>9. QED  BY <1>2, <1>3, <1>4, <1>5, <1>6, <1>7, <1>8

(* However the smokes are repeated and cut off.                                *)
LEMMA SmokeInv == Evidence /\ E!SmokeNext => Evidence'
<1> SUFFICES ASSUME Evidence, E!SmokeNext  PROVE Evidence'
  OBVIOUS
<1>1. ASSUME UNCHANGED <<rows, captured, judge, judged>>, matrix' = matrix \/ matrix' = None,
             judging' = judging \/ judging' = None
      PROVE  Evidence'
  <2>1. RunsAreCaptured'  BY <1>1, OtherRuns DEF Evidence
  <2>2. HandoffsAreEarned'  BY <1>1 DEF Evidence, HandoffsAreEarned
  <2>3. QED  BY <2>1, <2>2 DEF Evidence
<1>2. ASSUME NEW o \in Operator, E!Install(o)  PROVE Evidence'
  BY <1>1, <1>2 DEF E!Install, E!smoking
<1>3. ASSUME NEW writes, NEW exits, E!SourceSmoke(writes, exits)  PROVE Evidence'
  BY <1>1, <1>3 DEF E!SourceSmoke
<1>4. ASSUME NEW starts, NEW replay, NEW stop, E!ReplaySmoke(starts, replay, stop)  PROVE Evidence'
  BY <1>1, <1>4 DEF E!ReplaySmoke
<1>5. CASE E!Crash  BY <1>1, <1>5 DEF E!Crash
<1>6. QED
  BY <1>2, <1>3, <1>4, <1>5, TargetInv, StartMatrixInv, JudgeInv, Zenon DEF E!SmokeNext

(* The smokes that were asked for one by one are not all the safe ones.        *)
LEMMA SafeAsksForAll ==
  ASSUME NEW asked, E!Safe \subseteq E!Ran(asked)
  PROVE  "safe_smokes" \in asked
<1>1. "mcp_install_smoke" \in E!Ran(asked)  BY DEF E!Safe
<1>2. "mcp_install_smoke" \notin E!Basic \cup E!Optionally \cup E!Surroundings
  BY DEF E!Basic, E!Optionally, E!Surroundings
<1>3. "mcp_install_smoke" \in E!Requested(asked)  BY <1>1, <1>2 DEF E!Ran
<1>4. QED  BY <1>3 DEF E!Requested

(* Doctor reads the evidence, and nothing changes while it does.               *)
LEMMA RunDoctorInv ==
  ASSUME E!RunDoctor
  PROVE  ReportIsTrue' /\ UNCHANGED <<rows, captured, matrix, judge, judging, judged>>
<1>1. PICK asked, odd, answer :
        /\ E!Doctor(asked, E!Statuses(asked, odd, answer))
        /\ UNCHANGED <<installed, rows, matrix, judge, judging, source, smokes, captured, judged>>
  BY DEF E!RunDoctor
<1> DEFINE statuses == E!Statuses(asked, odd, answer)
<1>2. DOMAIN statuses = E!Ran(asked)  BY DEF E!Statuses
<1> HIDE DEF statuses
<1>3. report' = [asked |-> asked, runtime |-> E!RuntimeIsReady(statuses),
                 safe |-> E!SafeIsComplete(asked, statuses),
                 v0 |-> E!RuntimeIsReady(statuses) /\ E!SafeIsComplete(asked, statuses),
                 satisfied |-> E!Satisfied, pending |-> E!Suggested(asked, statuses),
                 failed |-> {c \in DOMAIN statuses : statuses[c] = "fail"}]
  BY <1>1 DEF E!Doctor, statuses
<1>4. /\ report'.asked = asked /\ report'.satisfied = E!Satisfied
      /\ report'.pending = E!Suggested(asked, statuses)
      /\ report'.failed = {c \in DOMAIN statuses : statuses[c] = "fail"}
  BY <1>3
<1>5. report'.v0 => E!RuntimeIsReady(statuses) /\ E!SafeIsComplete(asked, statuses)  BY <1>3
<1>6. E!SafeIsComplete(asked, statuses) => "safe_smokes" \in asked
  BY <1>2, SafeAsksForAll DEF E!SafeIsComplete
<1>7. E!RuntimeIsReady(statuses) => {c \in DOMAIN statuses : statuses[c] = "fail"} = {}
  BY DEF E!RuntimeIsReady
<1>8. E!Satisfied \cap E!Suggested(asked, statuses) = {}  BY DEF E!Suggested
<1>9. /\ "failure" \in E!Satisfied => E!FailureEvidence
      /\ "judge" \in E!Satisfied => E!JudgeEvidence
  BY DEF E!Satisfied
<1>10. E!FailureEvidence' = E!FailureEvidence /\ E!JudgeEvidence' = E!JudgeEvidence
  BY <1>1 DEF E!FailureEvidence, E!JudgeEvidence, E!Matching
<1>11. ReportIsTrue'  BY <1>4, <1>5, <1>6, <1>7, <1>8, <1>9, <1>10 DEF ReportIsTrue
<1>12. QED  BY <1>1, <1>11

DoctorInv == Evidence /\ ReportIsTrue

(* Each step keeps the evidence, and what doctor said of it.                   *)
LEMMA DoctorNextInv == DoctorInv /\ [E!DoctorNext]_(E!doctorVars) => DoctorInv'
<1> SUFFICES ASSUME DoctorInv, [E!DoctorNext]_(E!doctorVars)  PROVE DoctorInv'
  OBVIOUS
<1>1. CASE UNCHANGED E!doctorVars
  BY <1>1 DEF E!doctorVars, DoctorInv, Evidence, RunsAreCaptured, HandoffsAreEarned, ReportIsTrue,
     E!FailureEvidence, E!JudgeEvidence, E!Matching
<1>2. CASE E!SmokeNext /\ report' = None  BY <1>2, SmokeInv DEF DoctorInv, ReportIsTrue
<1>3. CASE E!RunDoctor
  <2>1. ReportIsTrue' /\ UNCHANGED <<rows, captured, matrix, judge, judging, judged>>  BY <1>3, RunDoctorInv
  <2>2. Evidence'  BY <2>1 DEF DoctorInv, Evidence, RunsAreCaptured, HandoffsAreEarned
  <2>3. QED  BY <2>1, <2>2 DEF DoctorInv
<1>4. QED  BY <1>1, <1>2, <1>3 DEF E!DoctorNext

(* doctor says only of what happened that its evidence is retained (doctor.py),*)
(* for any operators, directories and number of smokes.                        *)
THEOREM EvidenceIsEarnedAlways == E!DoctorInit /\ [][E!DoctorNext]_(E!doctorVars) => []EvidenceIsEarned
<1>1. E!DoctorInit => DoctorInv
  <2> SUFFICES ASSUME E!DoctorInit  PROVE DoctorInv
    OBVIOUS
  <2>1. RunsAreCaptured  BY DEF E!DoctorInit, E!Init, RunsAreCaptured
  <2>2. HandoffsAreEarned  BY DEF E!DoctorInit, E!Init, HandoffsAreEarned
  <2>3. ReportIsTrue  BY DEF E!DoctorInit, ReportIsTrue
  <2>4. QED  BY <2>1, <2>2, <2>3 DEF DoctorInv, Evidence
<1>2. DoctorInv => EvidenceIsEarned
  <2> SUFFICES ASSUME DoctorInv, report # None  PROVE E!EvidenceIsEarned
    BY DEF EvidenceIsEarned, E!EvidenceIsEarned
  <2>1. ASSUME E!FailureEvidence  PROVE \E d \in FailureDir : installed # {} /\ installed \subseteq captured[d]
    <3>1. PICK d \in FailureDir : \A o \in installed : E!Matching(d, o, "failed", "invalid_output")
      BY <2>1 DEF E!FailureEvidence
    <3>2. d \in E!Dir  BY DEF E!Dir
    <3>3. ASSUME NEW o \in installed  PROVE o \in captured[d]
      <4>1. rows[d] # None /\ \E run \in rows[d] : run.operator = o /\ run.kind = "invalid_output"
        BY <3>1 DEF E!Matching
      <4>2. QED  BY <3>2, <4>1 DEF DoctorInv, Evidence, RunsAreCaptured
    <3>4. QED  BY <2>1, <3>3 DEF E!FailureEvidence
  <2>2. ASSUME E!JudgeEvidence  PROVE judged
    BY <2>2 DEF E!JudgeEvidence, DoctorInv, Evidence, HandoffsAreEarned
  <2>3. QED  BY <2>1, <2>2 DEF E!EvidenceIsEarned, DoctorInv, ReportIsTrue
<1>3. QED  BY <1>1, <1>2, DoctorNextInv, PTL
================================================================================
