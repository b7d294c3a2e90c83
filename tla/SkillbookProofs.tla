---------------------------- MODULE SkillbookProofs ----------------------------
(***************************************************************************)
(* What holds of the context store for any set of entries, proposals,       *)
(* callers and texts, any changes the proposals make and any bound on the   *)
(* log.  The inductive invariant ties each caller's program counter to the  *)
(* write transaction, and says of the uncommitted copy inside a transaction *)
(* what it says of the committed store: a crash or a refused change then    *)
(* costs nothing, and a commit only publishes what is already right.        *)
(*                                                                         *)
(* Of the ACE bridge: while nobody but the run's own proposals touches the  *)
(* skillbook, each skill is what the clone was exported from, or what the   *)
(* command made of it, as its proposal was not, or was, applied.            *)
(***************************************************************************)
EXTENDS MCSkillbook, TLAPS

\* Every row a revision names exists, and only a create lacks a "before".
LogOK(rows, log) ==
  \A i \in DOMAIN log :
    /\ rows[log[i].entry] # None
    /\ log[i].op # "create" => log[i].before # None

\* What the program counter of a call record says of its other fields.
RecordOK(r) ==
  /\ r.pc \in {"apply", "applying"} => r.proposal \in Proposals
  /\ r.pc \in {"checked", "loaded"} => r.target \in DOMAIN revisions
  /\ r.pc = "loaded" => r.seen # None
  /\ r.pc = "edit" => r.entry \in Skills /\ entries[r.entry] # None
  /\ r.todo \subseteq DOMAIN revisions

\* Only the caller that holds the write lock is inside a transaction.
CallOK(c) ==
  /\ RecordOK(call[c])
  /\ call[c].pc = "applying" => /\ tx # None
                                /\ tx.caller = c
                                /\ tx.proposal = call[c].proposal

TxOK ==
  tx # None =>
    /\ tx.next >= 1
    /\ call[tx.caller].pc = "applying"
    /\ LogOK(tx.entries, tx.revisions)
    /\ \A e \in Entries : entries[e] # None => tx.entries[e] # None
    /\ DOMAIN revisions \subseteq DOMAIN tx.revisions

\* The inductive invariant behind type correctness.
TypeInv ==
  /\ TypeOK
  /\ \A c \in Callers : CallOK(c)
  /\ TxOK
  /\ LogOK(entries, revisions)

\* The inductive invariant behind LogExplainsEntries.
ExplainInv ==
  /\ LogExplains(entries, revisions)
  /\ tx # None => LogExplains(tx.entries, tx.revisions)
--------------------------------------------------------------------------------
(* The row operations and the log. *)

\* Appending a revision to a log: its positions, and what stands at each.
LEMMA AppendToLog ==
  ASSUME NEW log \in Seq(Revision), NEW r \in Revision
  PROVE  /\ Append(log, r) \in Seq(Revision)
         /\ DOMAIN log = 1 .. Len(log)
         /\ Len(log) \in Nat
         /\ DOMAIN Append(log, r) = 1 .. Len(log) + 1
         /\ \A i \in DOMAIN log : Append(log, r)[i] = log[i]
         /\ Append(log, r)[Len(log) + 1] = r
  OBVIOUS

\* What stands in a log is a revision, of an entry.
LEMMA InLog ==
  ASSUME NEW log \in Seq(Revision), NEW i \in DOMAIN log
  PROVE  log[i] \in Revision /\ log[i].entry \in Entries
  <1>1. log[i] \in Revision
    OBVIOUS
  <1> QED
    BY <1>1 DEF Revision

\* The entry a change writes is an entry; it is the one the change names,
\* unless a create activates the row of the proposal's issue.
LEMMA TargetEntryType ==
  ASSUME NEW rows \in [Entries -> Snapshot \cup {None}],
         NEW p \in Proposals, NEW ch \in Change
  PROVE  /\ TargetEntry(rows, p, ch) \in Entries
         /\ ch.op # "create" => TargetEntry(rows, p, ch) = ch.entry
         /\ ch.entry \in Skills <=> TargetEntry(rows, p, ch) \in Skills
  BY ConstantsAssumption DEF TargetEntry, FromOrigin, Entries, Change

\* An allowed change leaves a whole row, and overwrites one unless it creates.
LEMMA RowAfterType ==
  ASSUME NEW rows \in [Entries -> Snapshot \cup {None}],
         NEW p \in Proposals, NEW ch \in Change,
         ChangeAllowed(rows, p, ch)
  PROVE  /\ RowAfter(rows, p, ch) \in Snapshot
         /\ ch.op # "create" => rows[TargetEntry(rows, p, ch)] # None
  <1> DEFINE e == TargetEntry(rows, p, ch)
  <1>1. e \in Entries /\ (ch.op # "create" => e = ch.entry)
    BY TargetEntryType
  <1>2. rows[e] \in Snapshot \cup {None}
    BY <1>1
  <1>3. ch.op # "create" => rows[e] # None
    BY <1>1 DEF ChangeAllowed
  <1>4. FreshRow(p, ch) \in Snapshot
    BY DEF FreshRow, Snapshot, Change
  <1>5. SkillAfter(rows[e], p, ch) \in Snapshot
    BY <1>2, <1>3, <1>4 DEF SkillAfter, Snapshot, Change, Ops
  <1>6. RuleAfter(rows[e], p, ch) \in Snapshot
    BY <1>2, <1>4 DEF RuleAfter, Snapshot, Change
  <1> QED
    BY <1>3, <1>5, <1>6 DEF RowAfter

\* Undoing a revision of an existing row leaves a whole row.
LEMMA UndoneType ==
  ASSUME NEW row \in Snapshot, NEW r \in Revision,
         r.op # "create" => r.before # None
  PROVE  Undone(row, r) \in Snapshot
  BY DEF Undone, Snapshot, Revision

\* Writing a row and appending the revision that records it keeps LogOK.
LEMMA AppendLogOK ==
  ASSUME NEW rows \in [Entries -> Snapshot \cup {None}],
         NEW log \in Seq(Revision), NEW r \in Revision, NEW row \in Snapshot,
         LogOK(rows, log), r.op # "create" => r.before # None
  PROVE  LogOK([rows EXCEPT ![r.entry] = row], Append(log, r))
  <1>1. row # None /\ r.entry \in Entries
    BY ConstantsAssumption DEF Revision
  <1>2. \A i \in DOMAIN log : log[i].entry \in Entries
    BY InLog
  <1> QED
    BY <1>1, <1>2, AppendToLog DEF LogOK

\* Writing a row and appending the revision that records it keeps the log an
\* explanation of the rows: that revision is the latest of its row, and the
\* latest of every other row is still its latest.
LEMMA AppendExplains ==
  ASSUME NEW rows \in [Entries -> Snapshot \cup {None}],
         NEW log \in Seq(Revision), NEW r \in Revision,
         LogExplains(rows, log)
  PROVE  LogExplains([rows EXCEPT ![r.entry] = r.after], Append(log, r))
  <1> DEFINE rows2 == [rows EXCEPT ![r.entry] = r.after]
             log2  == Append(log, r)
             n     == Len(log) + 1
  <1>1. /\ n \in DOMAIN log2 /\ log2[n] = r
        /\ DOMAIN log2 = DOMAIN log \cup {n}
        /\ DOMAIN log = 1 .. n - 1 /\ n \in Nat
        /\ \A i \in DOMAIN log : log2[i] = log[i]
    BY AppendToLog
  <1>2. r.entry \in Entries
    BY DEF Revision
  <1> SUFFICES ASSUME NEW e \in Entries
               PROVE  \/ /\ \A i \in DOMAIN log2 : log2[i].entry # e
                         /\ Content(rows2[e]) = Content(InitialEntries[e])
                      \/ \E i \in DOMAIN log2 :
                           /\ log2[i].entry = e /\ IsLatest(log2, i)
                           /\ Content(log2[i].after) = Content(rows2[e])
    BY DEF LogExplains
  <1>3. CASE e = r.entry
    <2>1. IsLatest(log2, n)
      BY <1>1 DEF IsLatest
    <2>2. rows2[e] = r.after
      BY <1>2, <1>3
    <2> QED
      BY <1>1, <1>3, <2>1, <2>2
  <1>4. CASE e # r.entry
    <2>1. rows2[e] = rows[e]
      BY <1>4
    <2>2. CASE /\ \A i \in DOMAIN log : log[i].entry # e
               /\ Content(rows[e]) = Content(InitialEntries[e])
      BY <1>1, <1>4, <2>1, <2>2
    <2>3. ASSUME NEW i \in DOMAIN log, log[i].entry = e, IsLatest(log, i),
                 Content(log[i].after) = Content(rows[e])
          PROVE  \E k \in DOMAIN log2 :
                   /\ log2[k].entry = e /\ IsLatest(log2, k)
                   /\ Content(log2[k].after) = Content(rows2[e])
      <3>1. i \in DOMAIN log2 /\ log2[i] = log[i]
        BY <1>1
      <3>2. IsLatest(log2, i)
        BY <1>1, <1>4, <2>3, <3>1 DEF IsLatest
      <3> QED
        BY <2>1, <2>3, <3>1, <3>2
    <2> QED
      BY <2>2, <2>3 DEF LogExplains
  <1> QED
    BY <1>3, <1>4

--------------------------------------------------------------------------------
(* Type correctness. *)

\* One change of an apply leaves a transaction a transaction.
LEMMA TxChange ==
  ASSUME NEW t \in Tx, NEW e \in Entries, NEW row \in Snapshot, NEW r \in Revision
  PROVE  [t EXCEPT !.next = @ + 1, !.entries[e] = row,
                   !.revisions = Append(@, r)] \in Tx
  <1> DEFINE es  == [t.entries EXCEPT ![e] = row]
             log == Append(t.revisions, r)
  <1>1. /\ es \in [Entries -> Snapshot \cup {None}]
        /\ log \in Seq(Revision) /\ t.next + 1 \in Nat
    BY DEF Tx
  <1>2. [t EXCEPT !.next = @ + 1, !.entries[e] = row, !.revisions = Append(@, r)]
          = [t EXCEPT !.next = t.next + 1, !.entries = es, !.revisions = log]
    OBVIOUS
  <1> HIDE DEF es, log
  <1> QED
    BY <1>1, <1>2 DEF Tx

\* A step that only moves a caller outside a transaction to another record.
LEMMA CallStep ==
  ASSUME TypeInv, NEW c \in Callers, NEW r \in Call,
         call' = [call EXCEPT ![c] = r],
         UNCHANGED <<entries, revisions, tx>>, state' \in [Proposals -> States],
         call[c].pc # "applying", r.pc # "applying", RecordOK(r)
  PROVE  TypeInv'
  <1> USE DEF TypeInv
  <1>1. call \in [Callers -> Call] /\ tx \in Tx \cup {None}
    BY DEF TypeOK
  <1>2. TypeOK'
    BY <1>1 DEF TypeOK
  <1>3. RecordOK(r)'
    BY DEF RecordOK
  <1>4. ASSUME NEW d \in Callers PROVE CallOK(d)'
    <2>1. CASE d = c
      BY <1>1, <1>3, <2>1 DEF CallOK, RecordOK
    <2>2. CASE d # c
      BY <1>1, <2>2 DEF CallOK, RecordOK
    <2> QED
      BY <2>1, <2>2
  <1>5. TxOK'
    <2> SUFFICES ASSUME tx # None PROVE TxOK'
      BY DEF TxOK
    <2>1. tx.caller \in Callers /\ call[tx.caller].pc = "applying"
      BY <1>1 DEF TxOK, Tx
    <2>2. call'[tx.caller] = call[tx.caller]
      BY <1>1, <2>1
    <2> QED
      BY <2>1, <2>2 DEF TxOK
  <1>6. LogOK(entries, revisions)'
    BY DEF LogOK
  <1> QED
    BY <1>2, <1>4, <1>5, <1>6

\* A step without a transaction that writes rows and the log, and moves at most
\* one caller: no row disappears and the log only grows.
LEMMA WriteStep ==
  ASSUME TypeInv, NEW c \in Callers, NEW r \in Call,
         call' = [call EXCEPT ![c] = r], tx' = None,
         tx = None \/ tx.caller = c,
         entries' \in [Entries -> Snapshot \cup {None}],
         revisions' \in Seq(Revision), state' \in [Proposals -> States],
         \A e \in Entries : entries[e] # None => entries'[e] # None,
         DOMAIN revisions \subseteq DOMAIN revisions',
         LogOK(entries', revisions'),
         r.pc # "applying", RecordOK(r)
  PROVE  TypeInv'
  <1> USE DEF TypeInv
  <1>1. call \in [Callers -> Call]
    BY DEF TypeOK
  <1>2. TypeOK'
    BY <1>1 DEF TypeOK
  <1>3. ASSUME NEW q, RecordOK(q) PROVE RecordOK(q)'
    BY <1>3 DEF RecordOK, Entries
  <1>4. ASSUME NEW d \in Callers PROVE CallOK(d)'
    <2>1. CASE d = c
      <3>1. call'[d] = r
        BY <1>1, <2>1
      <3>2. RecordOK(r)'
        BY <1>3
      <3> QED
        BY <3>1, <3>2 DEF CallOK, RecordOK
    <2>2. CASE d # c
      <3>1. call'[d] = call[d]
        BY <1>1, <2>2
      <3>2. RecordOK(call[d]) /\ call[d].pc # "applying"
        BY <2>2 DEF CallOK
      <3>3. RecordOK(call[d])'
        BY <3>1, <3>2, <1>3 DEF RecordOK, Entries
      <3> QED
        BY <3>1, <3>2, <3>3 DEF CallOK, RecordOK
    <2> QED
      BY <2>1, <2>2
  <1> QED
    BY <1>2, <1>4 DEF TxOK
--------------------------------------------------------------------------------
(* The two steps that write the log. *)

\* One change of an apply, seen from the transaction: it appends one forward
\* revision of its proposal, numbered by the change, and writes its "after" row.
ChangeAppended(r) ==
  /\ tx'.entries = [tx.entries EXCEPT ![r.entry] = r.after]
  /\ tx'.revisions = Append(tx.revisions, r)
  /\ tx'.next = tx.next + 1
  /\ tx'.caller = tx.caller /\ tx'.proposal = tx.proposal
  /\ tx' \in Tx
  /\ r.proposal = tx.proposal /\ r.change = tx.next /\ r.op # "rollback"
  /\ r.before = tx.entries[r.entry] /\ ~ Locked(tx.entries, r.entry)
  /\ r.op # "create" => r.before # None

\* A change of an apply is such a step.
LEMMA ApplyChangeAppends ==
  ASSUME TypeInv, NEW c \in Callers, ApplyChange(c)
  PROVE  \E r \in Revision : ChangeAppended(r)
  <1> DEFINE p   == call[c].proposal
             ch  == Changes[p][tx.next]
             e   == TargetEntry(tx.entries, p, ch)
             row == RowAfter(tx.entries, p, ch)
             r   == [entry |-> e, proposal |-> p, op |-> ch.op,
                     before |-> tx.entries[e], after |-> row,
                     change |-> tx.next, undoes |-> 0]
  <1>1. /\ tx \in Tx /\ tx.proposal = p /\ p \in Proposals
        /\ tx.next \in 1 .. Len(Changes[p])
        /\ ChangeAllowed(tx.entries, p, ch)
    BY DEF TypeInv, TypeOK, ApplyChange, CallOK, RecordOK, TxOK, Tx
  <1>2. tx' = [tx EXCEPT !.next = @ + 1, !.entries[e] = row, !.revisions = Append(@, r)]
    BY DEF ApplyChange
  <1>3. ch \in Change
    <2>1. Changes[p] \in Seq(Change)
      BY <1>1, ConstantsAssumption
    <2> QED
      BY <1>1, <2>1
  <1>4. tx.entries \in [Entries -> Snapshot \cup {None}] /\ tx.revisions \in Seq(Revision)
    BY <1>1 DEF Tx
  <1>5. /\ e \in Entries /\ row \in Snapshot
        /\ ch.op # "create" => tx.entries[e] # None
    BY <1>1, <1>3, <1>4, TargetEntryType, RowAfterType
  <1>locked. ~ Locked(tx.entries, e)
    BY <1>1 DEF ChangeAllowed
  <1> HIDE DEF e, ch, row
  <1>6. r \in Revision /\ ch.op # "rollback"
    BY <1>1, <1>3, <1>4, <1>5 DEF Revision, Change, Ops
  <1>7. /\ tx'.entries = [tx.entries EXCEPT ![e] = row]
        /\ tx'.revisions = Append(tx.revisions, r)
        /\ tx'.next = tx.next + 1 /\ tx'.caller = tx.caller /\ tx'.proposal = tx.proposal
    BY <1>1, <1>2 DEF Tx
  <1>8. tx' \in Tx
    BY <1>1, <1>2, <1>5, <1>6, TxChange
  <1> QED
    BY <1>1, <1>5, <1>6, <1>7, <1>8, <1>locked DEF ChangeAppended

\* One rollback, seen from the store: it appends one "rollback" revision of the
\* same row and proposal and writes its "after" row.
RollbackAppended(c, r) ==
  /\ entries' = [entries EXCEPT ![r.entry] = r.after]
  /\ revisions' = Append(revisions, r)
  /\ r.op = "rollback" /\ r.before # None /\ r.undoes = call[c].target
  /\ r.proposal = revisions[call[c].target].proposal

\* A rollback's write is such a step.
LEMMA RollbackWriteAppends ==
  ASSUME TypeInv, NEW c \in Callers, RollbackWrite(c)
  PROVE  \E r \in Revision : RollbackAppended(c, r)
  <1> DEFINE i   == call[c].target
             r   == revisions[i]
             row == Undone(entries[r.entry], r)
             q   == [entry |-> r.entry, proposal |-> r.proposal, op |-> "rollback",
                     before |-> call[c].seen, after |-> row, change |-> 0,
                     undoes |-> i]
  <1>1. /\ call[c] \in Call /\ i \in DOMAIN revisions /\ call[c].seen # None
        /\ entries \in [Entries -> Snapshot \cup {None}] /\ revisions \in Seq(Revision)
    BY DEF TypeInv, TypeOK, CallOK, RollbackWrite, RecordOK
  <1>2. entries' = [entries EXCEPT ![q.entry] = q.after] /\ revisions' = Append(revisions, q)
    BY DEF RollbackWrite
  <1>3. /\ r \in Revision /\ r.entry \in Entries /\ entries[r.entry] # None
        /\ r.op # "create" => r.before # None
    BY <1>1, InLog DEF TypeInv, LogOK
  <1>4. row \in Snapshot
    BY <1>1, <1>3, UndoneType
  <1> HIDE DEF row
  <1>5. q \in Revision
    <2>1. i \in Nat /\ call[c].seen \in Snapshot \cup {None} /\ r.proposal \in Proposals
      BY <1>1, <1>3 DEF Call, Revision
    <2> QED
      BY <1>3, <1>4, <2>1 DEF Revision
  <1> QED
    BY <1>1, <1>2, <1>5 DEF RollbackAppended

\* A step that only rewrites rows, none of which disappears.
LEMMA KeepRows ==
  ASSUME TypeInv, tx = None, UNCHANGED <<revisions, state, tx, call>>,
         entries' \in [Entries -> Snapshot \cup {None}],
         \A e \in Entries : entries[e] # None => entries'[e] # None
  PROVE  TypeInv'
  <1>1. TypeOK'
    BY DEF TypeInv, TypeOK
  <1>2. \A c \in Callers : CallOK(c)'
    BY DEF TypeInv, CallOK, RecordOK, Entries
  <1>3. \A i \in DOMAIN revisions : revisions[i].entry \in Entries
    BY InLog DEF TypeInv, TypeOK
  <1>4. LogOK(entries, revisions)'
    BY <1>3 DEF TypeInv, LogOK
  <1> QED
    BY <1>1, <1>2, <1>4 DEF TypeInv, TxOK

\* Every step keeps the invariant behind type correctness.
LEMMA TypeInvNext ==
  ASSUME TypeInv, [Next]_vars
  PROVE  TypeInv'
  <1> USE DEF TypeInv
  <1>0. /\ call \in [Callers -> Call] /\ tx \in Tx \cup {None}
        /\ entries \in [Entries -> Snapshot \cup {None}]
        /\ revisions \in Seq(Revision) /\ state \in [Proposals -> States]
        /\ \A c \in Callers : RecordOK(call[c])
    BY DEF TypeOK, CallOK
  <1>idle. Idle \in Call /\ RecordOK(Idle) /\ Idle.pc = "idle"
    BY DEF Idle, Call, RecordOK
  <1>ret. ASSUME NEW c \in Callers, NEW ok \in BOOLEAN
          PROVE  /\ Return(c, ok) \in Call /\ RecordOK(Return(c, ok))
                 /\ Return(c, ok).pc # "applying"
    <2>1. CASE call[c].proposal = None
      BY <1>idle, <2>1 DEF Return
    <2>2. CASE call[c].proposal # None
      <3>1. call[c] \in Call /\ RecordOK(call[c])
        BY <1>0
      <3> QED
        BY <2>2, <3>1 DEF Return, Call, RecordOK
    <2> QED
      BY <2>1, <2>2
  <1>chk. ASSUME NEW c \in Callers, NEW i \in DOMAIN revisions
          PROVE  /\ CheckLatest(c, i) \in Call /\ RecordOK(CheckLatest(c, i))
                 /\ CheckLatest(c, i).pc # "applying"
    <2>1. i \in Nat
      BY <1>0
    <2>2. call[c] \in Call /\ RecordOK(call[c])
      BY <1>0
    <2>3. CASE IsLatest(revisions, i)
      BY <2>1, <2>2, <2>3 DEF CheckLatest, Call, RecordOK
    <2>4. CASE ~ IsLatest(revisions, i)
      <3> DEFINE q == Return(c, FALSE)
      <3>1. q \in Call /\ RecordOK(q) /\ q.pc # "applying"
        BY <1>ret
      <3>2. CheckLatest(c, i) = [q EXCEPT !.todo = @ \ {i}]
        BY <2>4 DEF CheckLatest
      <3> HIDE DEF q
      <3> QED
        BY <3>1, <3>2 DEF Call, RecordOK
    <2> QED
      BY <2>3, <2>4
  <1>1. ASSUME NEW c \in Callers, NEW p \in Proposals, ApplyRead(c, p)
        PROVE  TypeInv'
    <2> DEFINE r == [call[c] EXCEPT !.pc = "apply", !.proposal = p]
    <2>1. call[c] \in Call /\ RecordOK(call[c]) /\ call[c].pc = "idle"
      BY <1>0, <1>1 DEF ApplyRead
    <2>2. r \in Call /\ RecordOK(r) /\ r.pc = "apply"
      BY <2>1 DEF Call, RecordOK
    <2>3. call' = [call EXCEPT ![c] = r]
      BY <1>0, <1>1 DEF ApplyRead
    <2> QED
      BY <1>0, <1>1, <2>1, <2>2, <2>3, CallStep DEF ApplyRead
  <1>2. ASSUME NEW c \in Callers, ApplyBegin(c)
        PROVE  TypeInv'
    <2>1. CASE AlreadyApplied(entries, revisions, call[c].proposal)
      BY <1>0, <1>2, <1>idle, <2>1, CallStep DEF ApplyBegin
    <2>2. CASE ~ AlreadyApplied(entries, revisions, call[c].proposal)
      <3>1. /\ tx = None /\ call[c].pc = "apply" /\ call[c] \in Call
            /\ call[c].proposal \in Proposals /\ RecordOK(call[c])
        BY <1>0, <1>2 DEF ApplyBegin, WriteLockFree, RecordOK
      <3>2. /\ call' = [call EXCEPT ![c].pc = "applying"]
            /\ tx' = [caller |-> c, proposal |-> call[c].proposal, next |-> 1,
                      entries |-> entries, revisions |-> revisions]
            /\ UNCHANGED <<entries, revisions, state>>
        BY <1>2, <2>2 DEF ApplyBegin
      <3>3. tx' \in Tx /\ tx' # None
        BY <1>0, <3>1, <3>2, ConstantsAssumption DEF Tx
      <3>4. call' \in [Callers -> Call]
        BY <1>0, <3>1, <3>2 DEF Call
      <3>5. TypeOK'
        BY <1>0, <3>2, <3>3, <3>4 DEF TypeOK
      <3>6. ASSUME NEW d \in Callers PROVE CallOK(d)'
        <4>1. CASE d = c
          BY <1>0, <3>1, <3>2, <3>3, <4>1 DEF CallOK, RecordOK, Call
        <4>2. CASE d # c
          BY <1>0, <3>1, <3>2, <4>2 DEF CallOK, RecordOK
        <4> QED
          BY <4>1, <4>2
      <3>7. TxOK'
        BY <1>0, <3>1, <3>2 DEF TxOK, Call
      <3> QED
        BY <3>2, <3>5, <3>6, <3>7 DEF LogOK
    <2> QED
      BY <2>1, <2>2
  <1>3. ASSUME NEW c \in Callers, ApplyChange(c)
        PROVE  TypeInv'
    <2>1. PICK r \in Revision : ChangeAppended(r)
      BY <1>3, ApplyChangeAppends
    <2>2. /\ tx \in Tx /\ tx # None /\ tx' \in Tx
          /\ LogOK(tx.entries, tx.revisions)
          /\ UNCHANGED <<entries, revisions, state, call>>
      BY <1>0, <1>3, <2>1 DEF ApplyChange, CallOK, TxOK, ChangeAppended
    <2>3. /\ tx.entries \in [Entries -> Snapshot \cup {None}]
          /\ tx.revisions \in Seq(Revision) /\ tx.next \in Nat
          /\ r.after \in Snapshot /\ r.after # None /\ r.entry \in Entries
      BY <2>2, ConstantsAssumption DEF Tx, Revision
    <2>4. LogOK(tx'.entries, tx'.revisions)
      BY <2>1, <2>2, <2>3, AppendLogOK DEF ChangeAppended
    <2>5. /\ DOMAIN tx.revisions \subseteq DOMAIN tx'.revisions
          /\ \A f \in Entries : tx.entries[f] # None => tx'.entries[f] # None
      BY <2>1, <2>3, AppendToLog DEF ChangeAppended
    <2>6. tx' # None
      BY <2>2, ConstantsAssumption
    <2>7. TypeOK'
      BY <1>0, <2>2 DEF TypeOK
    <2>8. ASSUME NEW d \in Callers PROVE CallOK(d)'
      BY <2>1, <2>2, <2>6 DEF CallOK, RecordOK, ChangeAppended
    <2>9. TxOK'
      BY <2>1, <2>2, <2>3, <2>4, <2>5 DEF TxOK, ChangeAppended
    <2> QED
      BY <2>2, <2>7, <2>8, <2>9 DEF LogOK
  <1>4. ASSUME NEW c \in Callers, ApplyAbort(c)
        PROVE  TypeInv'
    <2>1. /\ tx.caller = c /\ tx' = None /\ call' = [call EXCEPT ![c] = Idle]
          /\ UNCHANGED <<entries, revisions, state>>
      BY <1>4 DEF ApplyAbort, CallOK
    <2>2. LogOK(entries', revisions')
      BY <2>1 DEF LogOK
    <2> QED
      BY <1>0, <1>idle, <2>1, <2>2, WriteStep
  <1>5. ASSUME NEW c \in Callers, ApplyCommit(c)
        PROVE  TypeInv'
    <2>1. /\ tx # None /\ tx \in Tx /\ tx.caller = c /\ tx' = None
          /\ call' = [call EXCEPT ![c] = Idle] /\ call[c].proposal \in Proposals
          /\ entries' = tx.entries /\ revisions' = tx.revisions
          /\ state' = [state EXCEPT ![call[c].proposal] = "applied"]
      BY <1>0, <1>5 DEF ApplyCommit, CallOK, RecordOK
    <2>2. state' \in [Proposals -> States]
      BY <1>0, <2>1 DEF States
    <2> QED
      BY <1>0, <1>idle, <2>1, <2>2, WriteStep DEF TxOK, Tx
  <1>6. ASSUME NEW c \in Callers, NEW i \in DOMAIN revisions, RollbackCheck(c, i)
        PROVE  TypeInv'
    BY <1>0, <1>6, <1>chk, CallStep DEF RollbackCheck
  <1>7. ASSUME NEW c \in Callers, RollbackLoad(c)
        PROVE  TypeInv'
    <2> DEFINE row == entries[revisions[call[c].target].entry]
               q   == [call[c] EXCEPT !.pc = "loaded", !.seen = row]
    <2>1. call[c] \in Call /\ RecordOK(call[c]) /\ call[c].pc = "checked"
      BY <1>0, <1>7 DEF RollbackLoad
    <2>2. call[c].target \in DOMAIN revisions
      BY <2>1 DEF RecordOK
    <2>3. row \in Snapshot \cup {None}
      BY <1>0, <2>2, InLog
    <2>4. CASE row = None \/ row.locked
      BY <1>0, <1>7, <1>ret, <2>1, <2>4, CallStep DEF RollbackLoad
    <2>5. CASE ~ (row = None \/ row.locked)
      <3>1. q \in Call /\ RecordOK(q) /\ q.pc = "loaded"
        BY <2>1, <2>2, <2>3, <2>5 DEF Call, RecordOK
      <3>2. call' = [call EXCEPT ![c] = q] /\ UNCHANGED <<entries, revisions, state, tx>>
        BY <1>7, <2>5 DEF RollbackLoad
      <3> HIDE DEF q
      <3> QED
        BY <1>0, <2>1, <3>1, <3>2, CallStep
    <2> QED
      BY <2>4, <2>5
  <1>8. ASSUME NEW c \in Callers, RollbackWrite(c)
        PROVE  TypeInv'
    <2>1. PICK r \in Revision : RollbackAppended(c, r)
      BY <1>8, RollbackWriteAppends
    <2>2. /\ tx = None /\ UNCHANGED <<state, tx>>
          /\ call' = [call EXCEPT ![c] = Return(c, TRUE)]
      BY <1>8 DEF RollbackWrite, WriteLockFree
    <2>3. r.after \in Snapshot /\ r.after # None /\ r.entry \in Entries
      BY ConstantsAssumption DEF Revision
    <2>4. LogOK(entries', revisions')
      BY <1>0, <2>1, <2>3, AppendLogOK DEF RollbackAppended
    <2>5. /\ revisions' \in Seq(Revision) /\ DOMAIN revisions \subseteq DOMAIN revisions'
          /\ entries' \in [Entries -> Snapshot \cup {None}]
          /\ \A e \in Entries : entries[e] # None => entries'[e] # None
      BY <1>0, <2>1, <2>3, AppendToLog DEF RollbackAppended
    <2> QED
      BY <1>0, <1>ret, <2>2, <2>4, <2>5, WriteStep
  <1>9. ASSUME NEW c \in Callers, NEW s \in Skills, IssueStart(c, s)
        PROVE  TypeInv'
    <2> DEFINE ps == {p \in Proposals : Origin[p] = s /\ state[p] = "applied"}
               r  == [call[c] EXCEPT !.pc = "issue", !.plan = ps]
    <2>1. call[c] \in Call /\ RecordOK(call[c]) /\ call[c].pc = "idle"
      BY <1>0, <1>9 DEF IssueStart
    <2>2. r \in Call /\ RecordOK(r) /\ r.pc = "issue"
      BY <2>1 DEF Call, RecordOK
    <2>3. call' = [call EXCEPT ![c] = r]
      BY <1>0, <1>9 DEF IssueStart
    <2> HIDE DEF r
    <2> QED
      BY <1>0, <1>9, <2>1, <2>2, <2>3, CallStep DEF IssueStart
  <1>10. ASSUME NEW c \in Callers, IssueNext(c)
         PROVE  TypeInv'
    <2>1. call[c] \in Call /\ RecordOK(call[c]) /\ call[c].pc = "issue"
      BY <1>0, <1>10 DEF IssueNext
    <2>2. CASE call[c].plan = {}
      BY <1>0, <1>10, <1>idle, <2>1, <2>2, CallStep DEF IssueNext
    <2>3. CASE call[c].plan # {}
      <3>1. PICK p \in call[c].plan :
              call' = [call EXCEPT ![c].proposal = p, ![c].plan = @ \ {p},
                                   ![c].todo = Forward(revisions, p),
                                   ![c].clean = TRUE]
        BY <1>10, <2>3 DEF IssueNext
      <3> DEFINE r == [call[c] EXCEPT !.proposal = p, !.plan = @ \ {p},
                                      !.todo = Forward(revisions, p), !.clean = TRUE]
      <3>2. /\ p \in Proposals /\ Forward(revisions, p) \subseteq DOMAIN revisions
            /\ DOMAIN revisions \subseteq Nat
        BY <1>0, <2>1 DEF Forward, Call
      <3>3. r \in Call /\ RecordOK(r) /\ r.pc = "issue"
        BY <2>1, <3>2 DEF Call, RecordOK
      <3>4. call' = [call EXCEPT ![c] = r]
        BY <1>0, <3>1
      <3> HIDE DEF r
      <3> QED
        BY <1>0, <1>10, <2>1, <3>3, <3>4, CallStep DEF IssueNext
    <2> QED
      BY <2>2, <2>3
  <1>11. ASSUME NEW c \in Callers, IssueRollback(c)
         PROVE  TypeInv'
    <2>1. PICK i \in call[c].todo : call' = [call EXCEPT ![c] = CheckLatest(c, i)]
      BY <1>11 DEF IssueRollback
    <2>2. i \in DOMAIN revisions
      BY <1>0, <2>1 DEF RecordOK
    <2> QED
      BY <1>0, <1>11, <1>chk, <2>1, <2>2, CallStep DEF IssueRollback
  <1>12. ASSUME NEW c \in Callers, IssueClose(c)
         PROVE  TypeInv'
    <2> DEFINE r == [call[c] EXCEPT !.proposal = None]
    <2>1. call[c] \in Call /\ RecordOK(call[c]) /\ call[c].pc = "issue"
      BY <1>0, <1>12 DEF IssueClose
    <2>2. r \in Call /\ RecordOK(r) /\ r.pc = "issue"
      BY <2>1 DEF Call, RecordOK
    <2>3. call' = [call EXCEPT ![c] = r]
      BY <1>0, <1>12 DEF IssueClose
    <2>4. state' \in [Proposals -> States]
      BY <1>0, <1>12 DEF IssueClose, States
    <2> HIDE DEF r
    <2> QED
      BY <1>0, <1>12, <2>1, <2>2, <2>3, <2>4, CallStep DEF IssueClose
  <1>13. ASSUME NEW e \in Entries, NEW locked \in BOOLEAN, SetLock(e, locked)
         PROVE  TypeInv'
    <2>1. /\ tx = None /\ entries[e] # None
          /\ entries' = [entries EXCEPT ![e].locked = locked]
          /\ UNCHANGED <<revisions, state, tx, call>>
      BY <1>13 DEF SetLock, WriteLockFree
    <2> DEFINE row == [entries[e] EXCEPT !.locked = locked]
    <2>2. row \in Snapshot
      <3>1. entries[e] \in Snapshot
        BY <1>0, <2>1
      <3> QED
        BY <3>1 DEF Snapshot
    <2>3. entries' = [entries EXCEPT ![e] = row]
      BY <1>0, <2>1
    <2> HIDE DEF row
    <2>4. /\ entries' \in [Entries -> Snapshot \cup {None}]
          /\ \A f \in Entries : entries[f] # None => entries'[f] # None
      BY <1>0, <2>2, <2>3, ConstantsAssumption
    <2> QED
      BY <2>1, <2>4, KeepRows
  <1>14. ASSUME NEW c \in Callers, NEW s \in Skills, EditRead(c, s)
         PROVE  TypeInv'
    <2> DEFINE r == [call[c] EXCEPT !.pc = "edit", !.entry = s]
    <2>1. call[c] \in Call /\ RecordOK(call[c]) /\ call[c].pc = "idle" /\ entries[s] # None
      BY <1>0, <1>14 DEF EditRead
    <2>2. r \in Call /\ RecordOK(r) /\ r.pc = "edit"
      BY <2>1 DEF Call, RecordOK, Entries
    <2>3. call' = [call EXCEPT ![c] = r]
      BY <1>0, <1>14 DEF EditRead
    <2> HIDE DEF r
    <2> QED
      BY <1>0, <1>14, <2>1, <2>2, <2>3, CallStep DEF EditRead
  <1>15. ASSUME NEW c \in Callers, NEW t \in Text, EditWrite(c, t)
         PROVE  TypeInv'
    <2> DEFINE e   == call[c].entry
               row == [entries[e] EXCEPT !.title = t]
    <2>1. /\ tx = None /\ e \in Entries /\ entries[e] # None /\ call[c].pc = "edit"
          /\ entries' = [entries EXCEPT ![e].title = t]
          /\ call' = [call EXCEPT ![c] = Idle]
          /\ UNCHANGED <<revisions, state, tx>>
      BY <1>0, <1>15 DEF EditWrite, RecordOK, WriteLockFree, Entries
    <2>2. row \in Snapshot
      <3>1. entries[e] \in Snapshot
        BY <1>0, <2>1
      <3> QED
        BY <3>1 DEF Snapshot
    <2>3. entries' = [entries EXCEPT ![e] = row]
      BY <1>0, <2>1
    <2> HIDE DEF row
    <2>4. /\ entries' \in [Entries -> Snapshot \cup {None}]
          /\ \A f \in Entries : entries[f] # None => entries'[f] # None
      BY <1>0, <2>1, <2>2, <2>3, ConstantsAssumption
    <2>5. LogOK(entries', revisions')
      BY <1>0, <2>1, <2>4, InLog DEF LogOK
    <2> QED
      BY <1>0, <1>idle, <2>1, <2>4, <2>5, WriteStep
  <1>16. ASSUME NEW c \in Callers, Crash(c)
         PROVE  TypeInv'
    <2>1. /\ call' = [call EXCEPT ![c] = Idle] /\ UNCHANGED <<entries, revisions, state>>
          /\ tx' = IF tx # None /\ tx.caller = c THEN None ELSE tx
      BY <1>16 DEF Crash
    <2>2. LogOK(entries', revisions')
      BY <2>1 DEF LogOK
    <2>3. CASE tx # None /\ tx.caller = c
      BY <1>0, <1>idle, <2>1, <2>2, <2>3, WriteStep
    <2>4. CASE ~ (tx # None /\ tx.caller = c)
      BY <1>0, <1>idle, <2>1, <2>4, CallStep DEF CallOK
    <2> QED
      BY <2>3, <2>4
  <1>17. CASE UNCHANGED vars
    BY <1>17 DEF vars, TypeOK, CallOK, RecordOK, TxOK, LogOK
  <1> QED
    BY <1>1, <1>2, <1>3, <1>4, <1>5, <1>6, <1>7, <1>8, <1>9, <1>10, <1>11, <1>12,
       <1>13, <1>14, <1>15, <1>16, <1>17 DEF Next

\* Type correctness of the store, its log and every caller, in every reachable
\* state (kyoko/apply.py).
THEOREM TypeCorrect == Spec => []TypeInv
  <1>1. Init => TypeInv
    <2> SUFFICES ASSUME Init PROVE TypeInv
      OBVIOUS
    <2>1. Idle \in Call
      BY DEF Idle, Call
    <2>2. TypeOK
      BY <2>1, ConstantsAssumption DEF Init, TypeOK, States
    <2>3. \A c \in Callers : CallOK(c)
      BY DEF Init, CallOK, RecordOK, Idle
    <2> QED
      BY <2>2, <2>3 DEF Init, TypeInv, TxOK, LogOK
  <1>2. TypeInv /\ [Next]_vars => TypeInv'
    BY TypeInvNext
  <1> QED
    BY <1>1, <1>2, PTL DEF Spec

\* The type invariant the runs check.
THEOREM TypeOKAlways == Spec => []TypeOK
  <1>1. TypeInv => TypeOK
    BY DEF TypeInv
  <1> QED
    BY <1>1, TypeCorrect, PTL

--------------------------------------------------------------------------------
(* The log explains the store. *)

\* Every step keeps the committed log an explanation of the committed rows, and
\* a transaction's log one of its rows.
LEMMA ExplainInvNext ==
  ASSUME TypeInv, ExplainInv, [Next]_vars
  PROVE  ExplainInv'
  <1>0. /\ entries \in [Entries -> Snapshot \cup {None}] /\ revisions \in Seq(Revision)
        /\ call \in [Callers -> Call] /\ tx \in Tx \cup {None}
    BY DEF TypeInv, TypeOK
  <1>1. ASSUME UNCHANGED <<entries, revisions>>, tx' = None \/ tx' = tx
        PROVE  ExplainInv'
    BY <1>1 DEF ExplainInv, LogExplains, IsLatest
  <1>2. ASSUME NEW c \in Callers, ApplyBegin(c)
        PROVE  ExplainInv'
    <2>1. CASE AlreadyApplied(entries, revisions, call[c].proposal)
      BY <1>1, <1>2, <2>1 DEF ApplyBegin
    <2>2. CASE ~ AlreadyApplied(entries, revisions, call[c].proposal)
      <3>1. /\ tx'.entries = entries /\ tx'.revisions = revisions
            /\ UNCHANGED <<entries, revisions>>
        BY <1>2, <2>2 DEF ApplyBegin
      <3> QED
        BY <3>1 DEF ExplainInv, LogExplains, IsLatest
    <2> QED
      BY <2>1, <2>2
  <1>3. ASSUME NEW c \in Callers, ApplyChange(c)
        PROVE  ExplainInv'
    <2>1. PICK r \in Revision : ChangeAppended(r)
      BY <1>3, ApplyChangeAppends
    <2>2. tx # None /\ UNCHANGED <<entries, revisions>>
      BY <1>3 DEF ApplyChange, TypeInv, CallOK
    <2>3. tx.entries \in [Entries -> Snapshot \cup {None}] /\ tx.revisions \in Seq(Revision)
      BY <1>0, <2>2 DEF Tx
    <2>4. LogExplains(tx'.entries, tx'.revisions)
      BY <2>1, <2>2, <2>3, AppendExplains DEF ChangeAppended, ExplainInv
    <2> QED
      BY <2>2, <2>4 DEF ExplainInv, LogExplains, IsLatest
  <1>4. ASSUME NEW c \in Callers, ApplyCommit(c)
        PROVE  ExplainInv'
    <2>1. tx # None /\ tx' = None /\ entries' = tx.entries /\ revisions' = tx.revisions
      BY <1>4 DEF ApplyCommit, TypeInv, CallOK
    <2> QED
      BY <2>1 DEF ExplainInv
  <1>5. ASSUME NEW c \in Callers, RollbackWrite(c)
        PROVE  ExplainInv'
    <2>1. PICK r \in Revision : RollbackAppended(c, r)
      BY <1>5, RollbackWriteAppends
    <2>2. tx = None /\ tx' = tx
      BY <1>5 DEF RollbackWrite, WriteLockFree
    <2> QED
      BY <1>0, <2>1, <2>2, AppendExplains DEF RollbackAppended, ExplainInv
  <1>6. ASSUME NEW e \in Entries, NEW locked \in BOOLEAN, SetLock(e, locked)
        PROVE  ExplainInv'
    <2>1. /\ tx = None /\ tx' = tx /\ entries[e] \in Snapshot
          /\ entries' = [entries EXCEPT ![e].locked = locked] /\ revisions' = revisions
      BY <1>0, <1>6 DEF SetLock, WriteLockFree
    <2>2. Content([entries[e] EXCEPT !.locked = locked]) = Content(entries[e])
      BY <2>1, ConstantsAssumption DEF Content, Snapshot
    <2>3. \A f \in Entries : Content(entries'[f]) = Content(entries[f])
      BY <1>0, <2>1, <2>2
    <2>4. LogExplains(entries', revisions)
      BY <2>1, <2>3 DEF ExplainInv, LogExplains
    <2> QED
      BY <2>1, <2>4 DEF ExplainInv
  <1>7. ASSUME NEW c \in Callers, NEW t \in Text, EditWrite(c, t)
        PROVE  ExplainInv'
    <2> DEFINE e == call[c].entry
    <2>1. /\ tx = None /\ tx' = tx /\ e \in Entries /\ entries[e] # None
          /\ entries' = [entries EXCEPT ![e].title = t] /\ revisions' = revisions
      BY <1>0, <1>7 DEF EditWrite, WriteLockFree, TypeInv, CallOK, RecordOK, Entries
    <2>2. Content([entries[e] EXCEPT !.title = t]) = Content(entries[e])
      <3>1. entries[e] \in Snapshot
        BY <1>0, <2>1
      <3> QED
        BY <3>1, ConstantsAssumption DEF Content, Snapshot
    <2>3. \A f \in Entries : Content(entries'[f]) = Content(entries[f])
      BY <1>0, <2>1, <2>2
    <2>4. LogExplains(entries', revisions)
      BY <2>1, <2>3 DEF ExplainInv, LogExplains
    <2> QED
      BY <2>1, <2>4 DEF ExplainInv
  <1>8. ASSUME NEW c \in Callers, NEW p \in Proposals, ApplyRead(c, p) PROVE ExplainInv'
    BY <1>1, <1>8 DEF ApplyRead
  <1>9. ASSUME NEW c \in Callers, ApplyAbort(c) \/ RollbackLoad(c) \/ IssueNext(c)
                 \/ IssueRollback(c) \/ IssueClose(c) \/ Crash(c)
        PROVE ExplainInv'
    BY <1>1, <1>9 DEF ApplyAbort, RollbackLoad, IssueNext, IssueRollback, IssueClose, Crash
  <1>10. ASSUME NEW c \in Callers, NEW i \in DOMAIN revisions, RollbackCheck(c, i)
         PROVE  ExplainInv'
    BY <1>1, <1>10 DEF RollbackCheck
  <1>11. ASSUME NEW c \in Callers, NEW s \in Skills, IssueStart(c, s) \/ EditRead(c, s)
         PROVE  ExplainInv'
    BY <1>1, <1>11 DEF IssueStart, EditRead
  <1>12. CASE UNCHANGED vars
    BY <1>1, <1>12 DEF vars
  <1> QED
    BY <1>2, <1>3, <1>4, <1>5, <1>6, <1>7, <1>8, <1>9, <1>10, <1>11, <1>12 DEF Next

\* The audit log accounts for the store however applies, rollbacks, edits and
\* crashes of any number of concurrent callers interleave: every row says what
\* its latest revision recorded (kyoko/apply.py, LogExplainsEntries).
THEOREM LogExplainsEntriesAlways == Spec => []LogExplainsEntries
  <1>1. Init => ExplainInv
    BY DEF Init, ExplainInv, LogExplains
  <1>2. TypeInv /\ ExplainInv /\ [Next]_vars => ExplainInv'
    BY ExplainInvNext
  <1>3. ExplainInv => LogExplainsEntries
    BY DEF ExplainInv, LogExplainsEntries
  <1> QED
    BY <1>1, <1>2, <1>3, TypeCorrect, PTL DEF Spec

--------------------------------------------------------------------------------
(***************************************************************************)
(* What an apply and the rollback of an issue's fixes promise, for any       *)
(* constants: a proposal is applied whole and once, its state agrees with    *)
(* the log, it counts as rolled back only when each of its revisions was      *)
(* undone, locked entries stay as they are, and the state column goes         *)
(* through its life once (module ProposalLifecycle).                          *)
(*                                                                         *)
(* The invariant says what the write transaction has in hand: the committed  *)
(* log, then one revision for each change made so far, of a proposal that has *)
(* none committed.  A caller in the loop over an issue's revisions knows of   *)
(* each that it is still to do, in hand, or undone.                           *)
(***************************************************************************)

\* Proposals that were applied, whatever became of them.
Settled == {p \in Proposals : state[p] \in {"applied", "rolled_back"}}

\* Exactly one revision of p for each of its changes.
Whole(log, p) ==
  \A k \in DOMAIN Changes[p] :
    \E i \in Forward(log, p) :
      /\ log[i].change = k
      /\ \A j \in Forward(log, p) : log[j].change = k => j = i

WasUndone(log, i) == \E j \in DOMAIN log : i < j /\ log[j].undoes = i

\* The log of the transaction is the committed one and what it has written.
TxLog ==
  tx # None =>
    /\ Forward(revisions, tx.proposal) = {}
    /\ tx.next <= Len(Changes[tx.proposal]) + 1
    /\ Len(tx.revisions) = Len(revisions) + tx.next - 1
    /\ \A i \in DOMAIN revisions : tx.revisions[i] = revisions[i]
    /\ \A i \in DOMAIN tx.revisions \ DOMAIN revisions :
         /\ IsForward(tx.revisions, i, tx.proposal)
         /\ tx.revisions[i].change = i - Len(revisions)

\* What a caller in the loop over an issue's revisions knows of them.
LoopOK(r) ==
  /\ r.pc = "idle" => r.proposal = None /\ r.plan = {}
  /\ r.plan \subseteq Settled
  /\ r.pc \notin {"apply", "applying"} /\ r.proposal # None =>
       /\ r.proposal \in Settled
       /\ r.clean => \A i \in Forward(revisions, r.proposal) :
            \/ i \in r.todo
            \/ r.pc # "issue" /\ i = r.target
            \/ WasUndone(revisions, i)

\* The inductive invariant behind this module's theorems, on top of TypeInv.
ApplyInv ==
  /\ \A p \in Proposals :
       /\ state[p] # "failed"
       /\ p \in Settled <=> Forward(revisions, p) # {}
       /\ p \in Settled => Whole(revisions, p)
       /\ state[p] = "rolled_back" =>
            \A i \in Forward(revisions, p) : WasUndone(revisions, i)
  /\ TxLog
  /\ \A c \in Callers : LoopOK(call[c])

--------------------------------------------------------------------------------
(* Three kinds of step. *)

\* A step that moves one caller and leaves the store alone, or drops the
\* transaction of a caller.
LEMMA CallerMoves ==
  ASSUME TypeInv, ApplyInv, NEW c \in Callers, NEW r,
         call' = [call EXCEPT ![c] = r], LoopOK(r),
         UNCHANGED <<revisions, state>>, tx' = tx \/ tx' = None
  PROVE  ApplyInv'
  <1>1. call \in [Callers -> Call]
    BY DEF TypeInv, TypeOK
  <1>2. ASSUME NEW d \in Callers PROVE LoopOK(call[d])'
    <2>1. CASE d = c
      BY <1>1, <2>1 DEF LoopOK, Settled, Forward, IsForward, WasUndone
    <2>2. CASE d # c
      BY <1>1, <2>2 DEF ApplyInv, LoopOK, Settled, Forward, IsForward, WasUndone
    <2> QED
      BY <2>1, <2>2
  <1>3. TxLog'
    BY DEF ApplyInv, TxLog, Forward, IsForward
  <1> QED
    BY <1>2, <1>3 DEF ApplyInv, Settled, Forward, IsForward, Whole, WasUndone

\* Appending a rollback changes nothing about the forward revisions.
LEMMA RollbackIsNotForward ==
  ASSUME NEW log \in Seq(Revision), NEW r \in Revision, r.op = "rollback", NEW p
  PROVE  /\ Forward(Append(log, r), p) = Forward(log, p)
         /\ \A i \in Forward(log, p) : Append(log, r)[i] = log[i]
  <1>1. \A i \in DOMAIN Append(log, r) : i \in DOMAIN log \/ i = Len(log) + 1
    BY AppendToLog
  <1> QED
    BY <1>1, AppendToLog DEF Forward, IsForward

\* What was undone stays undone in a longer log, and a rollback undoes its target.
LEMMA UndoneInLongerLog ==
  ASSUME NEW log \in Seq(Revision), NEW r \in Revision
  PROVE  /\ \A i : WasUndone(log, i) => WasUndone(Append(log, r), i)
         /\ r.undoes \in DOMAIN log => WasUndone(Append(log, r), r.undoes)
  BY AppendToLog DEF WasUndone

\* Revisions numbered one after the other are one for each change.
LEMMA OneRevisionEach ==
  ASSUME NEW p \in Proposals, NEW log, NEW n \in Nat, NEW m \in Nat,
         DOMAIN Changes[p] = 1 .. m, Forward(log, p) = n + 1 .. n + m,
         \A i \in n + 1 .. n + m : log[i].change = i - n
  PROVE  Whole(log, p)
  <1>1. ASSUME NEW k \in DOMAIN Changes[p]
        PROVE  \E i \in Forward(log, p) :
                 /\ log[i].change = k
                 /\ \A j \in Forward(log, p) : log[j].change = k => j = i
    <2>1. k \in 1 .. m /\ n + k \in n + 1 .. n + m /\ (n + k) - n = k
      OBVIOUS
    <2>2. \A j \in n + 1 .. n + m : j - n = k => j = n + k
      BY <2>1
    <2> QED
      BY <2>1, <2>2
  <1> QED
    BY ONLY <1>1, Zenon DEF Whole

\* What a commit makes of the log: the revisions of its proposal are the new
\* ones, one for each change, and those of the others are what they were.
LEMMA CommittedLog ==
  ASSUME TypeInv, ApplyInv, tx # None, tx.next > Len(Changes[tx.proposal])
  PROVE  /\ Forward(tx.revisions, tx.proposal) # {}
         /\ Whole(tx.revisions, tx.proposal)
         /\ \A q \in Proposals \ {tx.proposal} :
              Forward(tx.revisions, q) = Forward(revisions, q)
         /\ \A i \in DOMAIN revisions : i \in DOMAIN tx.revisions /\ tx.revisions[i] = revisions[i]
  <1> DEFINE p == tx.proposal
             n == Len(revisions)
             m == Len(Changes[p])
  <1>1. /\ tx \in Tx /\ p \in Proposals /\ tx.next \in Nat /\ tx.revisions \in Seq(Revision)
        /\ revisions \in Seq(Revision) /\ n \in Nat /\ TxLog
    BY DEF TypeInv, TypeOK, Tx, ApplyInv
  <1>2. Changes[p] \in Seq(Change) /\ m \in Nat /\ m > 0 /\ DOMAIN Changes[p] = 1 .. m
    <2>1. Changes[p] \in Seq(Change) /\ Changes[p] # <<>>
      BY <1>1, ConstantsAssumption, InitialAssumption
    <2> QED
      BY <2>1
  <1>3. Len(tx.revisions) = n + m
    <2>1. tx.next <= m + 1 /\ Len(tx.revisions) = n + tx.next - 1 /\ tx.next > m
      BY <1>1 DEF TxLog
    <2>2. tx.next \in Nat /\ m \in Nat /\ n \in Nat
      BY <1>1, <1>2
    <2> DEFINE next == tx.next
    <2> HIDE DEF n, m, next
    <2>3. next = m + 1
      BY <2>1, <2>2 DEF next
    <2> QED
      BY <2>1, <2>2, <2>3 DEF next
  <1>4. /\ DOMAIN revisions = 1 .. n /\ DOMAIN tx.revisions = 1 .. n + m
        /\ \A i \in 1 .. n : tx.revisions[i] = revisions[i]
        /\ \A i \in n + 1 .. n + m : /\ IsForward(tx.revisions, i, p)
                                     /\ tx.revisions[i].change = i - n
    BY <1>1, <1>2, <1>3 DEF TxLog
  <1>5. \A i \in 1 .. n : ~ IsForward(tx.revisions, i, p)
    BY <1>1, <1>4 DEF TxLog, Forward, IsForward
  <1>6. Forward(tx.revisions, p) = n + 1 .. n + m
    BY <1>1, <1>2, <1>4, <1>5 DEF Forward
  <1>7. Whole(tx.revisions, p)
    BY <1>1, <1>2, <1>4, <1>6, OneRevisionEach
  <1>8. ASSUME NEW q \in Proposals \ {p}
        PROVE  Forward(tx.revisions, q) = Forward(revisions, q)
    BY <1>1, <1>2, <1>4, <1>8 DEF Forward, IsForward
  <1> QED
    BY <1>1, <1>2, <1>4, <1>6, <1>7, <1>8

--------------------------------------------------------------------------------
(* The invariant is kept. *)

\* A step that only takes a caller back to the start keeps what is known of loops.
LEMMA IdleLoopOK == LoopOK(Idle)
  BY DEF LoopOK, Idle

\* A rollback that is refused leaves the loop, if there is one, unclean.
LEMMA ReturnRefused ==
  ASSUME TypeInv, ApplyInv, NEW c \in Callers, NEW i,
         call[c].pc \notin {"apply", "applying"}
  PROVE  LoopOK(Return(c, FALSE)) /\ LoopOK([Return(c, FALSE) EXCEPT !.todo = @ \ {i}])
  <1>1. call[c] \in Call /\ LoopOK(call[c])
    BY DEF TypeInv, TypeOK, ApplyInv
  <1>2. CASE call[c].proposal = None
    <2>1. LoopOK([Idle EXCEPT !.todo = @ \ {i}])
      BY DEF LoopOK, Idle
    <2> QED
      BY <1>2, <2>1, IdleLoopOK DEF Return
  <1>3. CASE call[c].proposal # None
    BY <1>1, <1>3 DEF Return, LoopOK, Call
  <1> QED
    BY <1>2, <1>3

\* The check of the latest revision takes it from the list and in hand, or
\* gives it up.
LEMMA CheckLoopOK ==
  ASSUME TypeInv, ApplyInv, NEW c \in Callers, NEW i \in DOMAIN revisions,
         call[c].pc \in {"idle", "issue"}
  PROVE  LoopOK(CheckLatest(c, i))
  <1>1. call[c] \in Call /\ LoopOK(call[c])
    BY DEF TypeInv, TypeOK, ApplyInv
  <1>2. CASE IsLatest(revisions, i)
    <2>1. CheckLatest(c, i) = [call[c] EXCEPT !.pc = "checked", !.target = i, !.todo = @ \ {i}]
      BY <1>2 DEF CheckLatest
    <2> QED
      BY <1>1, <2>1 DEF LoopOK, Call, Idle
  <1>3. CASE ~ IsLatest(revisions, i)
    BY <1>3, ReturnRefused DEF CheckLatest
  <1> QED
    BY <1>2, <1>3

\* Every step keeps the invariant, one step of the proof per action.
LEMMA ApplyInvNext ==
  ASSUME TypeInv, ApplyInv, [Next]_vars
  PROVE  ApplyInv'
  <1>0. /\ call \in [Callers -> Call] /\ revisions \in Seq(Revision)
        /\ state \in [Proposals -> States] /\ tx \in Tx \cup {None}
        /\ \A c \in Callers : call[c] \in Call /\ CallOK(c) /\ LoopOK(call[c])
    BY DEF TypeInv, TypeOK, ApplyInv
  <1>1. ASSUME NEW c \in Callers, NEW p \in Proposals, ApplyRead(c, p)
        PROVE  ApplyInv'
    <2> DEFINE r == [call[c] EXCEPT !.pc = "apply", !.proposal = p]
    <2>1. call' = [call EXCEPT ![c] = r] /\ UNCHANGED <<revisions, state, tx>>
      BY <1>0, <1>1 DEF ApplyRead
    <2>2. LoopOK(r)
      BY <1>0, <1>1 DEF ApplyRead, LoopOK, Call
    <2> HIDE DEF r
    <2> QED
      BY <2>1, <2>2, CallerMoves
  <1>2. ASSUME NEW c \in Callers, ApplyBegin(c)
        PROVE  ApplyInv'
    <2>1. CASE AlreadyApplied(entries, revisions, call[c].proposal)
      BY <1>2, <2>1, CallerMoves, IdleLoopOK DEF ApplyBegin
    <2>2. CASE ~ AlreadyApplied(entries, revisions, call[c].proposal)
      <3> DEFINE p == call[c].proposal
                 r == [call[c] EXCEPT !.pc = "applying"]
      <3>1. /\ call' = [call EXCEPT ![c] = r] /\ UNCHANGED <<revisions, state>>
            /\ tx' = [caller |-> c, proposal |-> p, next |-> 1,
                      entries |-> entries, revisions |-> revisions]
            /\ p \in Proposals /\ call[c].pc = "apply"
        BY <1>0, <1>2, <2>2 DEF ApplyBegin, CallOK, RecordOK
      <3>2. LoopOK(r)
        BY <1>0, <3>1 DEF LoopOK, Call
      <3>3. Forward(revisions, p) = {}
        BY <2>2 DEF AlreadyApplied, Forward, IsForward
      <3>4. Len(Changes[p]) \in Nat /\ Len(revisions) \in Nat
        BY <1>0, <3>1, ConstantsAssumption
      <3>5. TxLog'
        BY <3>1, <3>3, <3>4 DEF TxLog, Forward, IsForward
      <3> HIDE DEF r
      <3>6. ASSUME NEW d \in Callers PROVE LoopOK(call[d])'
        <4>1. CASE d = c
          BY <1>0, <3>1, <3>2, <4>1 DEF LoopOK, Settled, Forward, IsForward, WasUndone
        <4>2. CASE d # c
          BY <1>0, <3>1, <4>2 DEF LoopOK, Settled, Forward, IsForward, WasUndone
        <4> QED
          BY <4>1, <4>2
      <3> QED
        BY <3>1, <3>5, <3>6 DEF ApplyInv, Settled, Forward, IsForward, Whole, WasUndone
    <2> QED
      BY <2>1, <2>2
  <1>3. ASSUME NEW c \in Callers, ApplyChange(c)
        PROVE  ApplyInv'
    <2>1. PICK r \in Revision : ChangeAppended(r)
      BY <1>3, ApplyChangeAppends
    <2>2. /\ UNCHANGED <<revisions, state, call>> /\ tx # None /\ tx' # None /\ TxLog
          /\ tx \in Tx /\ tx.proposal = call[c].proposal
          /\ tx.next <= Len(Changes[tx.proposal])
      BY <1>0, <1>3, <2>1, ConstantsAssumption
      DEF ApplyChange, CallOK, ChangeAppended, ApplyInv
    <2>3. TxLog'
      <3> DEFINE log == tx.revisions
                 n   == Len(revisions)
                 k   == tx.next
      <3>1. /\ log \in Seq(Revision) /\ n \in Nat /\ k \in Nat
            /\ Len(Changes[tx.proposal]) \in Nat /\ DOMAIN revisions = 1 .. n
        BY <1>0, <2>2, ConstantsAssumption DEF Tx
      <3>2. /\ tx'.revisions = Append(log, r) /\ tx'.next = k + 1
            /\ tx'.proposal = tx.proposal
            /\ r.proposal = tx.proposal /\ r.change = k /\ r.op # "rollback"
        BY <2>1 DEF ChangeAppended
      <3>3. /\ Len(log) = n + k - 1 /\ \A i \in DOMAIN revisions : log[i] = revisions[i]
            /\ \A i \in DOMAIN log \ DOMAIN revisions :
                 IsForward(log, i, tx.proposal) /\ log[i].change = i - n
            /\ Forward(revisions, tx.proposal) = {}
        BY <2>2 DEF TxLog
      <3>4. /\ DOMAIN Append(log, r) = 1 .. n + k /\ DOMAIN log = 1 .. n + k - 1
            /\ \A i \in DOMAIN log : Append(log, r)[i] = log[i]
            /\ Append(log, r)[n + k] = r /\ Len(Append(log, r)) = n + k
        <4> HIDE DEF log, n, k
        <4>1. Len(log) + 1 = n + k
          BY <3>1, <3>3
        <4>2. DOMAIN Append(log, r) = 1 .. n + k
          BY <3>1, <4>1, AppendToLog
        <4>3. Len(Append(log, r)) = n + k
          BY <3>1, <4>1
        <4> QED
          BY <3>1, <3>3, <4>1, <4>2, <4>3, AppendToLog
      <3>5. \A i \in DOMAIN revisions : Append(log, r)[i] = revisions[i]
        <4>1. TypeInv /\ DOMAIN revisions \subseteq DOMAIN log
          BY <2>2 DEF TypeInv, TxOK
        <4> QED
          BY <3>3, <3>4, <4>1
      <3>6. ASSUME NEW i \in DOMAIN Append(log, r) \ DOMAIN revisions
            PROVE  /\ IsForward(Append(log, r), i, tx.proposal)
                   /\ Append(log, r)[i].change = i - n
        <4>1. CASE i \in DOMAIN log
          BY <3>3, <3>4, <3>6, <4>1 DEF IsForward
        <4>2. CASE i \notin DOMAIN log
          <5>1. i = n + k /\ i - n = k
            BY <3>1, <3>4, <3>6, <4>2
          <5> QED
            BY <3>2, <3>4, <5>1 DEF IsForward
        <4> QED
          BY <4>1, <4>2
      <3>7. k + 1 <= Len(Changes[tx.proposal]) + 1 /\ n + k = n + (k + 1) - 1
        BY <2>2, <3>1
      <3> QED
        BY <2>2, <3>2, <3>3, <3>4, <3>5, <3>6, <3>7 DEF TxLog, Forward, IsForward
    <2> QED
      BY <2>2, <2>3 DEF ApplyInv, LoopOK, Settled, Forward, IsForward, Whole, WasUndone
  <1>4. ASSUME NEW c \in Callers, ApplyAbort(c)
        PROVE  ApplyInv'
    BY <1>4, CallerMoves, IdleLoopOK DEF ApplyAbort
  <1>5. ASSUME NEW c \in Callers, ApplyCommit(c)
        PROVE  ApplyInv'
    <2> DEFINE p == tx.proposal
    <2>1. /\ tx # None /\ tx \in Tx /\ p \in Proposals /\ p = call[c].proposal
          /\ tx.next > Len(Changes[p]) /\ tx' = None
          /\ call' = [call EXCEPT ![c] = Idle] /\ revisions' = tx.revisions
          /\ state' = [state EXCEPT ![p] = "applied"]
      BY <1>0, <1>5 DEF ApplyCommit, CallOK, Tx
    <2>2. /\ Forward(revisions', p) # {} /\ Whole(revisions', p)
          /\ \A q \in Proposals \ {p} : Forward(revisions', q) = Forward(revisions, q)
          /\ \A i \in DOMAIN revisions : i \in DOMAIN revisions' /\ revisions'[i] = revisions[i]
      BY <2>1, CommittedLog
    <2>3. \A i : WasUndone(revisions, i) => WasUndone(revisions', i)
      BY <2>2 DEF WasUndone
    <2>4. Settled' = Settled \cup {p} /\ p \notin Settled
      BY <1>0, <2>1 DEF Settled, ApplyInv, TxLog
    <2>5. ASSUME NEW q \in Proposals \ {p}
          PROVE  /\ state'[q] = state[q]
                 /\ Whole(revisions, q) => Whole(revisions', q)
      <3>1. \A i \in Forward(revisions, q) : revisions'[i] = revisions[i]
        BY <2>2 DEF Forward
      <3>2. Forward(revisions', q) = Forward(revisions, q)
        BY <2>2, <2>5
      <3> QED
        BY <1>0, <2>1, <2>5, <3>1, <3>2 DEF Whole
    <2>6. ASSUME NEW d \in Callers PROVE LoopOK(call[d])'
      <3>1. CASE d = c
        BY <1>0, <2>1, <3>1 DEF LoopOK, Idle
      <3>2. CASE d # c
        <4>1. call'[d] = call[d] /\ LoopOK(call[d])
          BY <1>0, <2>1, <3>2
        <4>2. call[d].proposal \in Settled =>
                Forward(revisions', call[d].proposal) = Forward(revisions, call[d].proposal)
          BY <2>2, <2>4 DEF Settled
        <4> QED
          BY <2>3, <2>4, <4>1, <4>2 DEF LoopOK
      <3> QED
        BY <3>1, <3>2
    <2>7. TxLog'
      BY <2>1 DEF TxLog
    <2>8. ASSUME NEW q \in Proposals
          PROVE  /\ state'[q] # "failed"
                 /\ q \in Settled' <=> Forward(revisions', q) # {}
                 /\ q \in Settled' => Whole(revisions', q)
                 /\ state'[q] = "rolled_back" =>
                      \A i \in Forward(revisions', q) : WasUndone(revisions', i)
      <3>1. CASE q = p
        BY <1>0, <2>1, <2>2, <2>4, <3>1
      <3>2. CASE q # p
        BY <2>2, <2>3, <2>4, <2>5, <3>2 DEF ApplyInv
      <3> QED
        BY <3>1, <3>2
    <2> QED
      BY <2>6, <2>7, <2>8 DEF ApplyInv
  <1>6. ASSUME NEW c \in Callers, NEW i \in DOMAIN revisions, RollbackCheck(c, i)
        PROVE  ApplyInv'
    BY <1>6, CheckLoopOK, CallerMoves DEF RollbackCheck
  <1>7. ASSUME NEW c \in Callers, RollbackLoad(c)
        PROVE  ApplyInv'
    <2> DEFINE row == entries[revisions[call[c].target].entry]
               r   == [call[c] EXCEPT !.pc = "loaded", !.seen = row]
    <2>1. call[c].pc = "checked" /\ UNCHANGED <<revisions, state, tx>>
      BY <1>7 DEF RollbackLoad
    <2>2. CASE row = None \/ row.locked
      <3>1. call' = [call EXCEPT ![c] = Return(c, FALSE)]
        BY <1>0, <1>7, <2>2 DEF RollbackLoad
      <3> QED
        BY <2>1, <3>1, ReturnRefused, CallerMoves
    <2>3. CASE ~ (row = None \/ row.locked)
      <3>1. call' = [call EXCEPT ![c] = r]
        BY <1>0, <1>7, <2>3 DEF RollbackLoad
      <3>2. LoopOK(r)
        BY <1>0, <2>1 DEF LoopOK, Call
      <3> HIDE DEF r
      <3> QED
        BY <2>1, <3>1, <3>2, CallerMoves
    <2> QED
      BY <2>2, <2>3
  <1>8. ASSUME NEW c \in Callers, RollbackWrite(c)
        PROVE  ApplyInv'
    <2> DEFINE i == call[c].target
    <2>1. /\ call[c].pc = "loaded" /\ i \in DOMAIN revisions
          /\ tx = None /\ UNCHANGED <<state, tx>>
          /\ call' = [call EXCEPT ![c] = Return(c, TRUE)]
      BY <1>0, <1>8 DEF RollbackWrite, CallOK, RecordOK, WriteLockFree
    <2>2. PICK r \in Revision : RollbackAppended(c, r)
      BY <1>8, RollbackWriteAppends
    <2>3. revisions' = Append(revisions, r) /\ r.op = "rollback" /\ r.undoes = i
      BY <2>2 DEF RollbackAppended
    <2>4. \A p : Forward(revisions', p) = Forward(revisions, p)
      BY <1>0, <2>3, RollbackIsNotForward
    <2>5. \A p : \A k \in Forward(revisions, p) : revisions'[k] = revisions[k]
      BY <1>0, <2>3, RollbackIsNotForward
    <2>6. /\ \A k : WasUndone(revisions, k) => WasUndone(revisions', k)
          /\ WasUndone(revisions', i)
      BY <1>0, <2>1, <2>3, UndoneInLongerLog
    <2>7. Settled' = Settled
      BY <2>1 DEF Settled
    <2>8. ASSUME NEW d \in Callers PROVE LoopOK(call[d])'
      <3>1. CASE d # c
        <4>1. call'[d] = call[d] /\ LoopOK(call[d])
          BY <1>0, <2>1, <3>1
        <4> QED
          BY <2>4, <2>6, <2>7, <4>1 DEF LoopOK
      <3>2. CASE d = c /\ call[c].proposal = None
        <4>1. call'[d] = Idle
          BY <1>0, <2>1, <3>2 DEF Return
        <4> QED
          BY <4>1 DEF LoopOK, Idle
      <3>3. CASE d = c /\ call[c].proposal # None
        <4> DEFINE q == [call[c] EXCEPT !.pc = "issue", !.target = 0, !.seen = None]
        <4>1. call'[d] = q
          <5>1. call[c] \in Call /\ call[c].clean \in BOOLEAN
            BY <1>0 DEF Call
          <5>2. Return(c, TRUE) = q
            BY <3>3, <5>1 DEF Return, Call
          <5> QED
            BY <1>0, <2>1, <3>3, <5>2
        <4>2. /\ q.pc = "issue" /\ q.plan = call[c].plan /\ q.todo = call[c].todo
              /\ q.proposal = call[c].proposal /\ q.clean = call[c].clean
          BY <1>0 DEF Call
        <4> HIDE DEF q
        <4> QED
          BY <1>0, <2>1, <2>4, <2>6, <2>7, <3>3, <4>1, <4>2 DEF LoopOK
      <3> QED
        BY <3>1, <3>2, <3>3
    <2>9. TxLog'
      BY <2>1 DEF TxLog
    <2>10. \A p \in Proposals : Whole(revisions, p) => Whole(revisions', p)
      BY <2>4, <2>5 DEF Whole
    <2> QED
      BY <2>1, <2>4, <2>6, <2>7, <2>8, <2>9, <2>10 DEF ApplyInv
  <1>9. ASSUME NEW c \in Callers, NEW s \in Skills, IssueStart(c, s)
        PROVE  ApplyInv'
    <2> DEFINE ps == {p \in Proposals : Origin[p] = s /\ state[p] = "applied"}
               r  == [call[c] EXCEPT !.pc = "issue", !.plan = ps]
    <2>1. call' = [call EXCEPT ![c] = r] /\ UNCHANGED <<revisions, state, tx>>
      BY <1>0, <1>9 DEF IssueStart
    <2>2. LoopOK(r)
      BY <1>0, <1>9 DEF IssueStart, LoopOK, Idle, Settled
    <2> HIDE DEF r
    <2> QED
      BY <2>1, <2>2, CallerMoves
  <1>10. ASSUME NEW c \in Callers, IssueNext(c)
         PROVE  ApplyInv'
    <2>1. CASE call[c].plan = {}
      BY <1>10, <2>1, CallerMoves, IdleLoopOK DEF IssueNext
    <2>2. CASE call[c].plan # {}
      <3>1. PICK p \in call[c].plan :
              call' = [call EXCEPT ![c].proposal = p, ![c].plan = @ \ {p},
                                   ![c].todo = Forward(revisions, p),
                                   ![c].clean = TRUE]
        BY <1>10, <2>2 DEF IssueNext
      <3> DEFINE r == [call[c] EXCEPT !.proposal = p, !.plan = @ \ {p},
                                      !.todo = Forward(revisions, p), !.clean = TRUE]
      <3>2. call' = [call EXCEPT ![c] = r] /\ UNCHANGED <<revisions, state, tx>>
        BY <1>0, <1>10, <3>1 DEF IssueNext
      <3>3. call[c].pc = "issue" /\ call[c].plan \subseteq Settled /\ p \in Settled
        BY <1>0, <1>10, <3>1 DEF IssueNext, LoopOK
      <3>4. LoopOK(r)
        BY <1>0, <3>3 DEF LoopOK, Call
      <3> HIDE DEF r
      <3> QED
        BY <3>2, <3>4, CallerMoves
    <2> QED
      BY <2>1, <2>2
  <1>11. ASSUME NEW c \in Callers, IssueRollback(c)
         PROVE  ApplyInv'
    <2>1. PICK i \in call[c].todo : call' = [call EXCEPT ![c] = CheckLatest(c, i)]
      BY <1>11 DEF IssueRollback
    <2>2. /\ i \in DOMAIN revisions /\ call[c].pc = "issue"
          /\ UNCHANGED <<revisions, state, tx>>
      BY <1>0, <1>11, <2>1 DEF IssueRollback, CallOK, RecordOK
    <2> QED
      BY <2>1, <2>2, CheckLoopOK, CallerMoves
  <1>12. ASSUME NEW c \in Callers, IssueClose(c)
         PROVE  ApplyInv'
    <2> DEFINE p == call[c].proposal
               r == [call[c] EXCEPT !.proposal = None]
    <2>1. /\ call[c].pc = "issue" /\ p # None /\ call[c].todo = {} /\ p \in Settled
          /\ call' = [call EXCEPT ![c] = r] /\ UNCHANGED <<revisions, tx>>
          /\ call[c].plan \subseteq Settled
          /\ call[c].clean => \A i \in Forward(revisions, p) : WasUndone(revisions, i)
      BY <1>0, <1>12 DEF IssueClose, LoopOK
    <2>2. LoopOK(r)
      BY <1>0, <2>1 DEF LoopOK, Call
    <2> HIDE DEF r
    <2>3. CASE ~ call[c].clean
      BY <1>12, <2>1, <2>2, <2>3, CallerMoves DEF IssueClose
    <2>4. CASE call[c].clean
      <3>1. state' = [state EXCEPT ![p] = "rolled_back"] /\ p \in Proposals
        BY <1>12, <2>1, <2>4 DEF IssueClose, Settled
      <3>2. Settled' = Settled
        BY <1>0, <2>1, <3>1 DEF Settled
      <3>3. ASSUME NEW d \in Callers PROVE LoopOK(call[d])'
        <4>1. CASE d = c
          BY <1>0, <2>1, <2>2, <3>2, <4>1 DEF LoopOK, Forward, IsForward, WasUndone
        <4>2. CASE d # c
          BY <1>0, <2>1, <3>2, <4>2 DEF LoopOK, Forward, IsForward, WasUndone
        <4> QED
          BY <4>1, <4>2
      <3>4. TxLog'
        BY <2>1 DEF ApplyInv, TxLog, Forward, IsForward
      <3>5. ASSUME NEW q \in Proposals
            PROVE  /\ state'[q] # "failed"
                   /\ state'[q] = "rolled_back" =>
                        \A i \in Forward(revisions, q) : WasUndone(revisions, i)
        <4>1. CASE q = p
          BY <1>0, <2>1, <2>4, <3>1, <4>1
        <4>2. CASE q # p
          BY <1>0, <3>1, <4>2 DEF ApplyInv
        <4> QED
          BY <4>1, <4>2
      <3> QED
        BY <2>1, <3>2, <3>3, <3>4, <3>5 DEF ApplyInv, Forward, IsForward, Whole, WasUndone
    <2> QED
      BY <2>3, <2>4
  <1>13. ASSUME NEW e \in Entries, NEW locked \in BOOLEAN, SetLock(e, locked)
         PROVE  ApplyInv'
    <2>1. UNCHANGED <<revisions, state, tx, call>>
      BY <1>13 DEF SetLock
    <2> QED
      BY <2>1 DEF ApplyInv, TxLog, LoopOK, Settled, Forward, IsForward, Whole, WasUndone
  <1>14. ASSUME NEW c \in Callers, NEW s \in Skills, EditRead(c, s)
         PROVE  ApplyInv'
    <2> DEFINE r == [call[c] EXCEPT !.pc = "edit", !.entry = s]
    <2>1. call' = [call EXCEPT ![c] = r] /\ UNCHANGED <<revisions, state, tx>>
      BY <1>0, <1>14 DEF EditRead
    <2>2. LoopOK(r)
      BY <1>0, <1>14 DEF EditRead, LoopOK, Idle
    <2> HIDE DEF r
    <2> QED
      BY <2>1, <2>2, CallerMoves
  <1>15. ASSUME NEW c \in Callers, NEW t \in Text, EditWrite(c, t)
         PROVE  ApplyInv'
    BY <1>15, CallerMoves, IdleLoopOK DEF EditWrite
  <1>16. ASSUME NEW c \in Callers, Crash(c)
         PROVE  ApplyInv'
    BY <1>16, CallerMoves, IdleLoopOK DEF Crash
  <1>17. CASE UNCHANGED vars
    BY <1>17 DEF vars, ApplyInv, TxLog, LoopOK, Settled, Forward, IsForward, Whole, WasUndone
  <1> QED
    BY <1>1, <1>2, <1>3, <1>4, <1>5, <1>6, <1>7, <1>8, <1>9, <1>10, <1>11, <1>12,
       <1>13, <1>14, <1>15, <1>16, <1>17 DEF Next

--------------------------------------------------------------------------------
(* What follows for every reachable state. *)

\* Nothing is applied at first.
LEMMA ApplyInvInit == Init => ApplyInv
  <1> SUFFICES ASSUME Init PROVE ApplyInv
    OBVIOUS
  <1>1. Settled = {} /\ \A p : Forward(revisions, p) = {}
    BY DEF Init, Settled, Forward
  <1> QED
    BY <1>1, IdleLoopOK DEF Init, ApplyInv, TxLog

\* The invariant holds in every reachable state.
LEMMA ApplyInvAlways == Spec => []ApplyInv
  <1>1. TypeInv /\ ApplyInv /\ [Next]_vars => ApplyInv'
    BY ApplyInvNext
  <1> QED
    BY <1>1, ApplyInvInit, TypeCorrect, PTL DEF Spec

\* A proposal that two callers read as pending, that is refused half way or
\* whose caller dies is applied whole and once, or not at all
\* (apply_context_proposal, kyoko/apply.py).
THEOREM AppliedWholeOrNotAtAllAlways == Spec => []AppliedWholeOrNotAtAll
  <1>1. ApplyInv => AppliedWholeOrNotAtAll
    BY DEF ApplyInv, AppliedWholeOrNotAtAll, Whole
  <1> QED
    BY <1>1, ApplyInvAlways, PTL

\* The state column and the revision log never disagree on whether a proposal
\* was applied (_set_proposal_state and the log share one transaction).
THEOREM StateAgreesWithLogAlways == Spec => []StateAgreesWithLog
  <1>1. ApplyInv => StateAgreesWithLog
    BY DEF ApplyInv, StateAgreesWithLog, Settled
  <1> QED
    BY <1>1, ApplyInvAlways, PTL

\* A proposal counts as rolled back only when every revision of its apply was
\* undone, whichever rollbacks were refused or made by others
\* (rollback_applied_change_for_issue).
THEOREM RolledBackWasUndoneAlways == Spec => []RolledBackWasUndone
  <1>1. ApplyInv => RolledBackWasUndone
    BY DEF ApplyInv, RolledBackWasUndone, WasUndone
  <1> QED
    BY <1>1, ApplyInvAlways, PTL

\* The state column goes through its life once: a step of the store is a step
\* of ProposalLifecycle or leaves the column alone, because a commit finds its
\* proposal still pending and the end of an issue's loop finds it applied.
THEOREM LifecycleRefinedAlways == Spec => LifecycleRefined
  <1>1. Init => Lifecycle!Init
    BY DEF Init, Lifecycle!Init
  <1>2. TypeInv /\ ApplyInv /\ [Next]_vars => [Lifecycle!Next]_state
    <2> SUFFICES ASSUME TypeInv, ApplyInv, [Next]_vars
                 PROVE  [Lifecycle!Next]_state
      OBVIOUS
    <2>0. state \in [Proposals -> States]
      BY DEF TypeInv, TypeOK
    <2>1. ASSUME NEW c \in Callers, ApplyCommit(c)
          PROVE  Lifecycle!Next
      <3> DEFINE p == tx.proposal
      <3>1. /\ tx # None /\ p \in Proposals /\ Forward(revisions, p) = {}
            /\ state' = [state EXCEPT ![p] = "applied"]
        BY <2>1 DEF ApplyCommit, TypeInv, TypeOK, CallOK, Tx, ApplyInv, TxLog
      <3>2. state[p] = "pending"
        BY <2>0, <3>1 DEF ApplyInv, Settled, States
      <3> QED
        BY <3>1, <3>2 DEF Lifecycle!Next, Lifecycle!Apply, Lifecycle!Move
    <2>2. ASSUME NEW c \in Callers, IssueClose(c)
          PROVE  Lifecycle!Next \/ state' = state
      <3> DEFINE p == call[c].proposal
      <3>1. /\ p \in Settled
            /\ state' = state \/ state' = [state EXCEPT ![p] = "rolled_back"]
        BY <2>2 DEF IssueClose, ApplyInv, LoopOK
      <3>2. CASE state[p] = "applied"
        BY <3>1, <3>2 DEF Settled, Lifecycle!Next, Lifecycle!RollBack, Lifecycle!Move
      <3>3. CASE state[p] = "rolled_back"
        BY <2>0, <3>1, <3>3
      <3> QED
        BY <3>1, <3>2, <3>3 DEF Settled
    <2>3. ASSUME NEW c \in Callers,
                 \/ \E p \in Proposals : ApplyRead(c, p)
                 \/ ApplyBegin(c) \/ ApplyChange(c) \/ ApplyAbort(c)
                 \/ \E i \in DOMAIN revisions : RollbackCheck(c, i)
                 \/ RollbackLoad(c) \/ RollbackWrite(c)
                 \/ \E s \in Skills : IssueStart(c, s) \/ EditRead(c, s)
                 \/ IssueNext(c) \/ IssueRollback(c)
                 \/ \E t \in Text : EditWrite(c, t)
                 \/ Crash(c)
          PROVE  state' = state
      BY <2>3 DEF ApplyRead, ApplyBegin, ApplyChange, ApplyAbort, RollbackCheck,
         RollbackLoad, RollbackWrite, IssueStart, EditRead, IssueNext, IssueRollback,
         EditWrite, Crash
    <2>4. ASSUME NEW e \in Entries, NEW locked \in BOOLEAN, SetLock(e, locked)
          PROVE  state' = state
      BY <2>4 DEF SetLock
    <2>5. CASE UNCHANGED vars
      BY <2>5 DEF vars
    <2> QED
      BY <2>1, <2>2, <2>3, <2>4, <2>5 DEF Next
  <1> QED
    BY <1>1, <1>2, TypeCorrect, ApplyInvAlways, PTL DEF Spec, LifecycleRefined, Lifecycle!Spec

--------------------------------------------------------------------------------
(* Locks, and what "before" preserves. *)

\* A transaction holds locked entries as they are committed.
TxLocks ==
  tx # None => \A e \in Entries : Locked(entries, e) => tx.entries[e] = entries[e]

\* The lock is checked for each change, and cannot be set inside a transaction.
LEMMA TxLocksNext ==
  ASSUME TypeInv, TxLocks, [Next]_vars
  PROVE  TxLocks'
  <1>1. ASSUME UNCHANGED entries, tx' = tx \/ tx' = None
        PROVE  TxLocks'
    BY <1>1 DEF TxLocks, Locked
  <1>2. ASSUME NEW c \in Callers, ApplyBegin(c)
        PROVE  TxLocks'
    <2>1. UNCHANGED entries /\ (tx' = tx \/ tx'.entries = entries)
      BY <1>2 DEF ApplyBegin
    <2> QED
      BY <2>1 DEF TxLocks, Locked
  <1>3. ASSUME NEW c \in Callers, ApplyChange(c)
        PROVE  TxLocks'
    <2>1. PICK r \in Revision : ChangeAppended(r)
      BY <1>3, ApplyChangeAppends
    <2>2. ~ Locked(tx.entries, r.entry)
      BY <2>1 DEF ChangeAppended
    <2>3. /\ tx # None /\ tx.entries \in [Entries -> Snapshot \cup {None}]
          /\ UNCHANGED entries /\ tx'.entries = [tx.entries EXCEPT ![r.entry] = r.after]
      BY <1>3, <2>1 DEF TypeInv, TypeOK, ApplyChange, CallOK, ChangeAppended, Tx
    <2>4. \A e \in Entries : Locked(entries, e) => e # r.entry /\ tx.entries[e] = entries[e]
      BY <2>2, <2>3 DEF TxLocks, Locked
    <2> QED
      BY <2>3, <2>4 DEF TxLocks, Locked
  <1>4. ASSUME WriteLockFree, UNCHANGED tx
        PROVE  TxLocks'
    BY <1>4 DEF TxLocks, WriteLockFree
  <1>5. ASSUME NEW c \in Callers, ApplyCommit(c)
        PROVE  TxLocks'
    BY <1>5 DEF ApplyCommit, TxLocks
  <1>6. ASSUME NEW c \in Callers,
               \/ \E p \in Proposals : ApplyRead(c, p)
               \/ ApplyAbort(c)
               \/ \E i \in DOMAIN revisions : RollbackCheck(c, i)
               \/ RollbackLoad(c)
               \/ \E s \in Skills : IssueStart(c, s) \/ EditRead(c, s)
               \/ IssueNext(c) \/ IssueRollback(c) \/ IssueClose(c) \/ Crash(c)
        PROVE  TxLocks'
    BY <1>1, <1>6 DEF ApplyRead, ApplyAbort, RollbackCheck, RollbackLoad, IssueStart,
       EditRead, IssueNext, IssueRollback, IssueClose, Crash
  <1>7. ASSUME NEW c \in Callers, RollbackWrite(c) \/ \E t \in Text : EditWrite(c, t)
        PROVE  TxLocks'
    BY <1>4, <1>7 DEF RollbackWrite, EditWrite
  <1>8. ASSUME NEW e \in Entries, NEW locked \in BOOLEAN, SetLock(e, locked)
        PROVE  TxLocks'
    BY <1>4, <1>8 DEF SetLock
  <1>9. CASE UNCHANGED vars
    BY <1>1, <1>9 DEF vars
  <1> QED
    BY <1>2, <1>3, <1>5, <1>6, <1>7, <1>8, <1>9 DEF Next

\* No commit of an apply changes an entry that is locked when it happens: the
\* lock is checked for each change, and cannot be set inside a transaction.
THEOREM ApplyRespectsLocksAlways == Spec => ApplyRespectsLocks
  <1>1. Init => TxLocks
    BY DEF Init, TxLocks
  <1>2. TypeInv /\ TxLocks /\ [Next]_vars => TxLocks'
    BY TxLocksNext
  <1> DEFINE Respects ==
        \A e \in Entries :
          (\E p \in Proposals : state[p] = "pending" /\ state'[p] = "applied")
            /\ Locked(entries, e) => entries'[e] = entries[e]
  <1>3. TypeInv /\ TxLocks /\ [Next]_vars => [Respects]_vars
    <2> SUFFICES ASSUME TypeInv, TxLocks, Next,
                        NEW p \in Proposals, state[p] = "pending", state'[p] = "applied",
                        NEW e \in Entries, Locked(entries, e)
                 PROVE  entries'[e] = entries[e]
      OBVIOUS
    <2>1. ASSUME NEW c \in Callers, ApplyCommit(c)
          PROVE  entries'[e] = entries[e]
      BY <2>1 DEF ApplyCommit, TypeInv, CallOK, TxLocks
    <2>2. ASSUME NEW c \in Callers,
                 \/ \E q \in Proposals : ApplyRead(c, q)
                 \/ ApplyBegin(c) \/ ApplyChange(c) \/ ApplyAbort(c)
                 \/ \E i \in DOMAIN revisions : RollbackCheck(c, i)
                 \/ RollbackLoad(c)
                 \/ \E s \in Skills : IssueStart(c, s) \/ EditRead(c, s)
                 \/ IssueNext(c) \/ IssueRollback(c) \/ IssueClose(c)
                 \/ Crash(c)
          PROVE  UNCHANGED entries
      BY <2>2 DEF ApplyRead, ApplyBegin, ApplyChange, ApplyAbort, RollbackCheck,
         RollbackLoad, IssueStart, EditRead, IssueNext, IssueRollback, IssueClose, Crash
    <2>3. ASSUME NEW c \in Callers, RollbackWrite(c) \/ \E t \in Text : EditWrite(c, t)
          PROVE  FALSE
      BY <2>3 DEF RollbackWrite, EditWrite
    <2>4. ASSUME NEW f \in Entries, NEW locked \in BOOLEAN, SetLock(f, locked)
          PROVE  FALSE
      BY <2>4 DEF SetLock
    <2> QED
      BY <2>1, <2>2, <2>3, <2>4 DEF Next
  <1> QED
    BY <1>1, <1>2, <1>3, TypeCorrect, PTL DEF Spec, ApplyRespectsLocks

\* Position i of a log continues what stands before it for the same entry.
Continues(log, i) ==
  LET r    == log[i]
      prev == {j \in 1 .. i - 1 : log[j].entry = r.entry}
  IN r.op # "rollback" =>
       IF prev = {} THEN Content(r.before) = Content(InitialEntries[r.entry])
       ELSE \E j \in prev : /\ \A k \in prev : k <= j
                            /\ Content(r.before) = Content(log[j].after)

BeforeInv ==
  /\ \A i \in DOMAIN revisions : Continues(revisions, i)
  /\ tx # None => \A i \in DOMAIN tx.revisions : Continues(tx.revisions, i)

\* A revision whose "before" is the row it replaces continues a log that
\* explains the rows; so does, for its part, any rollback.
LEMMA AppendContinues ==
  ASSUME NEW rows, NEW log \in Seq(Revision), NEW r \in Revision,
         LogExplains(rows, log), r.op = "rollback" \/ r.before = rows[r.entry],
         \A i \in DOMAIN log : Continues(log, i)
  PROVE  \A i \in DOMAIN Append(log, r) : Continues(Append(log, r), i)
  <1> DEFINE log2 == Append(log, r)
             n    == Len(log)
  <1>1. /\ n \in Nat /\ DOMAIN log = 1 .. n /\ DOMAIN log2 = 1 .. n + 1
        /\ \A i \in 1 .. n : log2[i] = log[i]
        /\ log2[n + 1] = r
    BY AppendToLog
  <1> HIDE DEF log2, n
  <1>2. ASSUME NEW i \in 1 .. n PROVE Continues(log2, i)
    <2>1. log2[i] = log[i] /\ \A j \in 1 .. i - 1 : log2[j] = log[j]
      BY <1>1
    <2>2. {j \in 1 .. i - 1 : log2[j].entry = log2[i].entry}
            = {j \in 1 .. i - 1 : log[j].entry = log[i].entry}
      BY <2>1
    <2>3. Continues(log, i)
      BY <1>1
    <2> QED
      BY <2>1, <2>2, <2>3 DEF Continues
  <1>3. Continues(log2, n + 1)
    <2> DEFINE prev == {j \in 1 .. n : log[j].entry = r.entry}
    <2> SUFFICES ASSUME r.op # "rollback" PROVE Continues(log2, n + 1)
      BY <1>1 DEF Continues
    <2>1. {j \in 1 .. (n + 1) - 1 : log2[j].entry = log2[n + 1].entry} = prev
      BY <1>1
    <2>2. r.entry \in Entries /\ r.before = rows[r.entry]
      BY DEF Revision
    <2>3. CASE prev = {}
      <3>1. Content(rows[r.entry]) = Content(InitialEntries[r.entry])
        BY <1>1, <2>2, <2>3 DEF LogExplains
      <3> QED
        BY <1>1, <2>1, <2>2, <2>3, <3>1 DEF Continues
    <2>4. CASE prev # {}
      <3>1. PICK j \in 1 .. n : /\ log[j].entry = r.entry /\ IsLatest(log, j)
                                /\ Content(log[j].after) = Content(rows[r.entry])
        BY <1>1, <2>2, <2>4 DEF LogExplains
      <3>2. j \in prev /\ \A k \in prev : k <= j
        BY <1>1, <3>1 DEF IsLatest
      <3>3. Content(r.before) = Content(log2[j].after)
        BY <1>1, <2>2, <3>1
      <3> QED
        BY <1>1, <2>1, <2>4, <3>2, <3>3 DEF Continues
    <2> QED
      BY <2>3, <2>4
  <1> QED
    BY <1>1, <1>2, <1>3 DEF log2

\* Every step keeps both logs a chain of befores and afters.
LEMMA BeforeInvNext ==
  ASSUME TypeInv, ExplainInv, BeforeInv, [Next]_vars
  PROVE  BeforeInv'
  <1>0. tx \in Tx \cup {None} /\ revisions \in Seq(Revision)
    BY DEF TypeInv, TypeOK
  <1>1. ASSUME UNCHANGED revisions, tx' = tx \/ tx' = None
        PROVE  BeforeInv'
    BY <1>1 DEF BeforeInv, Continues
  <1>2. ASSUME NEW c \in Callers, ApplyBegin(c)
        PROVE  BeforeInv'
    <2>1. UNCHANGED revisions /\ (tx' = tx \/ tx'.revisions = revisions)
      BY <1>2 DEF ApplyBegin
    <2> QED
      BY <2>1 DEF BeforeInv, Continues
  <1>3. ASSUME NEW c \in Callers, ApplyChange(c)
        PROVE  BeforeInv'
    <2>1. PICK r \in Revision : ChangeAppended(r)
      BY <1>3, ApplyChangeAppends
    <2>2. /\ tx # None /\ tx.revisions \in Seq(Revision) /\ UNCHANGED revisions
          /\ r.before = tx.entries[r.entry] /\ tx'.revisions = Append(tx.revisions, r)
      BY <1>0, <1>3, <2>1 DEF ApplyChange, TypeInv, CallOK, ChangeAppended, Tx
    <2>3. \A i \in DOMAIN tx'.revisions : Continues(tx'.revisions, i)
      BY <2>2, AppendContinues DEF BeforeInv, ExplainInv
    <2> QED
      BY <2>2, <2>3 DEF BeforeInv, Continues
  <1>4. ASSUME NEW c \in Callers, ApplyCommit(c)
        PROVE  BeforeInv'
    <2>1. tx # None /\ tx' = None /\ revisions' = tx.revisions
      BY <1>4 DEF ApplyCommit, TypeInv, CallOK
    <2> QED
      BY <2>1 DEF BeforeInv, Continues
  <1>5. ASSUME NEW c \in Callers, RollbackWrite(c)
        PROVE  BeforeInv'
    <2>1. PICK r \in Revision : RollbackAppended(c, r)
      BY <1>5, RollbackWriteAppends
    <2>2. /\ tx = None /\ tx' = tx
          /\ revisions' = Append(revisions, r) /\ r.op = "rollback"
      BY <1>5, <2>1 DEF RollbackWrite, WriteLockFree, RollbackAppended
    <2>3. \A i \in DOMAIN revisions' : Continues(revisions', i)
      BY <1>0, <2>2, AppendContinues DEF BeforeInv, ExplainInv
    <2> QED
      BY <2>2, <2>3 DEF BeforeInv, Continues
  <1>6. ASSUME NEW c \in Callers,
               \/ \E p \in Proposals : ApplyRead(c, p)
               \/ ApplyAbort(c)
               \/ \E i \in DOMAIN revisions : RollbackCheck(c, i)
               \/ RollbackLoad(c)
               \/ \E s \in Skills : IssueStart(c, s) \/ EditRead(c, s)
               \/ IssueNext(c) \/ IssueRollback(c) \/ IssueClose(c)
               \/ \E t \in Text : EditWrite(c, t)
               \/ Crash(c)
        PROVE  BeforeInv'
    BY <1>1, <1>6 DEF ApplyRead, ApplyAbort, RollbackCheck, RollbackLoad, IssueStart,
       EditRead, IssueNext, IssueRollback, IssueClose, EditWrite, Crash
  <1>7. ASSUME NEW e \in Entries, NEW locked \in BOOLEAN, SetLock(e, locked)
        PROVE  BeforeInv'
    BY <1>1, <1>7 DEF SetLock
  <1>8. CASE UNCHANGED vars
    BY <1>1, <1>8 DEF vars
  <1> QED
    BY <1>2, <1>3, <1>4, <1>5, <1>6, <1>7, <1>8 DEF Next

\* The "before" of a forward revision is what the entry's previous revision
\* left, or what the entry started as: a rollback to it loses nothing in between.
THEOREM BeforeContinuesLogAlways == Spec => []BeforeContinuesLog
  <1>1. Init => BeforeInv /\ ExplainInv
    BY DEF Init, BeforeInv, ExplainInv, LogExplains
  <1>2. TypeInv /\ ExplainInv /\ BeforeInv /\ [Next]_vars => BeforeInv' /\ ExplainInv'
    BY BeforeInvNext, ExplainInvNext
  <1>3. BeforeInv => BeforeContinuesLog
    BY DEF BeforeInv, BeforeContinuesLog, Continues
  <1> QED
    BY <1>1, <1>2, <1>3, TypeCorrect, PTL DEF Spec

--------------------------------------------------------------------------------
(* An ACE command on a clone of the skillbook (AceBridge)                      *)

\* The types of what the bridge keeps.  A proposal's id tells all of its change but the
\* occurrences.
CloneOK(kept) == kept \in [Skill -> {None} \cup A!CloneRow]
SaysSo(p) ==
  LET row == A!Kept(p.id)
  IN  /\ p = [id |-> p.id, op |-> p.op, skill |-> p.skill, row |-> p.row, refs |-> p.refs, state |-> p.state]
      /\ p.skill \in Skill /\ p.op = p.id.op /\ p.skill = p.id.skill
      /\ p.row.section = row.section /\ p.row.text = row.text
      /\ p.row.section \in Section /\ p.row.text \in AceText
      /\ p.refs \subseteq Trace /\ p.refs # {}

BookOK == book \in [Skill -> {None} \cup A!BookRow] /\ known \subseteq Trace
UsedOK == used = [runs |-> used.runs, edits |-> used.edits, others |-> used.others] /\ used.runs \in Nat
AceOK ==
  /\ alone \in BOOLEAN /\ ace.at \in {"idle", "command", "persist"}
  /\ ace.at = "persist" => ace = [at |-> "persist", todo |-> ace.todo, ids |-> ace.ids]
ProposalsOK ==
  /\ \A p \in proposals : SaysSo(p)
  /\ \A p, q \in proposals : p.id = q.id => p = q
ClonesOK ==
  (alone \/ ace.at # "idle") =>
     /\ clone = [before |-> clone.before, after |-> clone.after]
     /\ CloneOK(clone.before) /\ CloneOK(clone.after)
ReportOK ==
  report # None => /\ report.run \in Nat /\ report.run <= used.runs
                   /\ \A id \in report.ids : A!Exists(id)

ThisRun == report # None /\ report.run = used.runs
ChangesTo(s) == A!ChangesOf(s, clone.before[s], clone.after[s])
Changed == {A!Id(change) : change \in A!Differences}

\* What is submitted: of each change, it is to come or was put in as pending.
Persists ==
  ace.at = "persist" =>
    /\ ace.ids = Changed
    /\ \A p \in ace.todo : SaysSo(p) /\ p.state = "pending"
    /\ \A id \in ace.ids : \/ \E p \in ace.todo : p.id = id
                           \/ A!Exists(id) /\ (alone => \A p \in proposals : p.id = id => p.state = "pending")

\* The skill is what was exported, or what the command made of it.
AsExported(s) ==
  LET row == clone.before[s]
  IN  IF row = None THEN book[s] = None \/ ~book[s].active
      ELSE book[s] # None /\ book[s].section = row.section /\ book[s].text = row.text /\ book[s].active = row.active
AsMade(s) ==
  LET after == clone.after[s]
  IN  /\ (after # None /\ after.active /\ after.section = "context") =>
           book[s] # None /\ book[s].active /\ book[s].text = after.text
      /\ ((after = None \/ (~after.active /\ after.section = "context")) /\ clone.before[s] # None /\ clone.before[s].active) =>
           book[s] # None /\ ~book[s].active

AppliedTo(s) == \E p \in proposals : p.id \in report.ids /\ p.skill = s /\ p.state = "applied"
ComesBack(s) == IF ThisRun /\ AppliedTo(s) THEN AsMade(s) ELSE AsExported(s)

BridgeInv ==
  /\ BookOK /\ UsedOK /\ AceOK /\ ProposalsOK /\ ClonesOK /\ ReportOK /\ Persists
  /\ ThisRun => ace.at = "idle"
  /\ (ThisRun /\ alone) => report.ids = Changed
  /\ alone => \A s \in Skill : ComesBack(s)

\* A row of a clone is not a missing one, and what its text and state say is material.
LEMMA MaterialFacts ==
  ASSUME NEW row \in {None} \cup A!CloneRow
  PROVE  /\ A!Material(row) = None <=> row = None
         /\ row # None => /\ row.section \in Section /\ row.text \in AceText /\ row.active \in BOOLEAN
                          /\ A!Material(row).section = row.section /\ A!Material(row).text = row.text
                          /\ A!Material(row).active = row.active
<1>1. CASE row = None  BY <1>1 DEF A!Material
<1>2. CASE row # None
  <2>1. row.section \in Section /\ row.text \in AceText /\ row.active \in BOOLEAN
    BY <1>2 DEF A!CloneRow
  <2>2. A!Row(row.section, row.text, row.active, {}) \in A!CloneRow
    BY <2>1 DEF A!CloneRow, A!Row
  <2>3. A!Material(row) # None
    BY <1>2, <2>2, BridgeAssumption DEF A!Material, A!BridgeAssumption
  <2>4. QED  BY <1>2, <2>1, <2>3 DEF A!Material, A!Row
<1>3. QED  BY <1>1, <1>2

\* The change of a skill is one, and says what it had and has.
LEMMA ChangeFacts ==
  ASSUME NEW s \in Skill, NEW b \in {None} \cup A!CloneRow, NEW a \in {None} \cup A!CloneRow,
         NEW c \in A!ChangesOf(s, b, a)
  PROVE  /\ A!ChangesOf(s, b, a) = {c} /\ c = A!Change(c.op, s, b, a)
         /\ c.op \in {"create", "update", "deactivate", "link_occurrence"}
         /\ c.op = "create" <=> b = None
         /\ c.op = "create" => a # None
         /\ c.op = "update" => a # None /\ ~ (b.active /\ ~ a.active)
         /\ c.op = "deactivate" => a = None \/ (b.active /\ ~ a.active)
         /\ c.op = "link_occurrence" => a # None /\ A!Material(b) = A!Material(a) /\ ~ (b.active /\ ~ a.active)
<1>1. CASE a = None
  BY <1>1 DEF A!ChangesOf, A!Change
<1>2. CASE a # None /\ b = None
  BY <1>2 DEF A!ChangesOf, A!Created, A!Change
<1>3. CASE a # None /\ b # None
  <2>1. A!ChangesOf(s, b, a) = A!Modified(s, b, a)  BY <1>3 DEF A!ChangesOf
  <2>2. CASE b.active /\ ~ a.active  BY <1>3, <2>1, <2>2 DEF A!Modified, A!Change
  <2>3. CASE ~ (b.active /\ ~ a.active) /\ A!Material(b) # A!Material(a)
    BY <1>3, <2>1, <2>3 DEF A!Modified, A!Change
  <2>4. CASE ~ (b.active /\ ~ a.active) /\ A!Material(b) = A!Material(a)
    BY <1>3, <2>1, <2>4 DEF A!Modified, A!Change
  <2>5. QED  BY <2>2, <2>3, <2>4
<1>4. QED  BY <1>1, <1>2, <1>3

\* A skill without a change is what the command left of it.
LEMMA UnchangedIsMade ==
  ASSUME NEW s \in Skill, BookOK, CloneOK(clone.before), CloneOK(clone.after), AsExported(s), ChangesTo(s) = {}
  PROVE  AsMade(s)
<1> DEFINE b == clone.before[s]
           a == clone.after[s]
<1>1. b \in {None} \cup A!CloneRow /\ a \in {None} \cup A!CloneRow  BY DEF CloneOK
<1>2. b # None => book[s] # None /\ b.section = "context" /\ b.text = book[s].text /\ b.active = book[s].active
  BY DEF AsExported, BookOK, A!BookRow
<1>3. CASE a = None
  <2>1. b = None  BY <1>2, <1>3 DEF ChangesTo, A!ChangesOf, A!Supported
  <2>2. QED  BY <1>3, <2>1 DEF AsMade
<1>4. CASE a # None /\ b = None
  <2>1. a.section \notin A!Supported  BY <1>4 DEF ChangesTo, A!ChangesOf, A!Created
  <2>2. QED  BY <1>4, <2>1 DEF AsMade, A!Supported
<1>5. CASE a # None /\ b # None
  <2>1. A!Modified(s, b, a) = {}  BY <1>5 DEF ChangesTo, A!ChangesOf
  <2>2. CASE a.section \notin A!Supported  BY <1>5, <2>2 DEF AsMade, A!Supported
  <2>3. CASE a.section \in A!Supported
    <3>1. ~ (b.active /\ ~ a.active) /\ A!Material(b) = A!Material(a)
      BY <2>1, <2>3 DEF A!Modified
    <3>2. b.text = a.text /\ b.active = a.active  BY <1>1, <1>5, <3>1, MaterialFacts
    <3>3. QED  BY <1>2, <1>5, <3>2 DEF AsMade
  <2>4. QED  BY <2>2, <2>3
<1>6. QED  BY <1>3, <1>4, <1>5

\* The id of a change names its skill and what of it is material.
LEMMA IdFacts ==
  ASSUME NEW s \in Skill, CloneOK(clone.before), CloneOK(clone.after), NEW c \in ChangesTo(s)
  PROVE  LET b == clone.before[s]
             a == clone.after[s]
             id == A!Id(c)
         IN  /\ id.op = c.op /\ id.skill = s /\ id.before = A!Material(b) /\ id.after = A!Material(a)
             /\ A!Kept(c) \in A!CloneRow
             /\ A!Kept(id).section = A!Kept(c).section /\ A!Kept(id).text = A!Kept(c).text
             /\ A!Kept(c) = IF a # None THEN a ELSE b
<1> DEFINE b == clone.before[s]
           a == clone.after[s]
           id == A!Id(c)
<1>1. b \in {None} \cup A!CloneRow /\ a \in {None} \cup A!CloneRow  BY DEF CloneOK
<1>2. c = A!Change(c.op, s, b, a) /\ (c.op = "create" <=> b = None) /\ (c.op = "create" => a # None)
  BY <1>1, ChangeFacts DEF ChangesTo
<1>3. c.skill = s /\ c.before = b /\ c.after = a  BY <1>2 DEF A!Change
<1>4. id.op = c.op /\ id.skill = s /\ id.before = A!Material(b) /\ id.after = A!Material(a)
  BY <1>3 DEF A!Id, A!Change
<1>5. A!Material(a) = None <=> a = None  BY <1>1, MaterialFacts
<1>6. CASE a # None
  <2>1. A!Kept(c) = a /\ A!Kept(id) = A!Material(a)  BY <1>3, <1>4, <1>5, <1>6 DEF A!Kept
  <2>2. QED  BY <1>1, <1>4, <1>6, <2>1, MaterialFacts
<1>7. CASE a = None
  <2>1. A!Kept(c) = b /\ A!Kept(id) = A!Material(b) /\ b # None
    BY <1>2, <1>3, <1>4, <1>5, <1>7 DEF A!Kept
  <2>2. QED  BY <1>1, <1>4, <1>7, <2>1, MaterialFacts
<1>8. QED  BY <1>6, <1>7

\* The changes have one id for each skill that is changed.
LEMMA ChangedFacts ==
  ASSUME CloneOK(clone.before), CloneOK(clone.after)
  PROVE  /\ \A id \in Changed : \E s \in Skill : \E c \in ChangesTo(s) : id = A!Id(c) /\ id.skill = s
         /\ \A i, j \in Changed : i.skill = j.skill => i = j
         /\ \A s \in Skill : ChangesTo(s) # {} => \E id \in Changed : id.skill = s
<1>1. A!Differences = UNION {ChangesTo(s) : s \in Skill}  BY DEF A!Differences, ChangesTo
<1>2. ASSUME NEW id \in Changed
      PROVE  \E s \in Skill : \E c \in ChangesTo(s) : id = A!Id(c) /\ id.skill = s
  BY <1>1, IdFacts DEF Changed
<1>3. ASSUME NEW i \in Changed, NEW j \in Changed, i.skill = j.skill  PROVE i = j
  <2>1. PICK s \in Skill : \E c \in ChangesTo(s) : i = A!Id(c) /\ i.skill = s  BY <1>2
  <2>2. PICK t \in Skill : \E c \in ChangesTo(t) : j = A!Id(c) /\ j.skill = t  BY <1>2
  <2>3. s = t  BY <1>3, <2>1, <2>2
  <2>4. \A c, d \in ChangesTo(s) : c = d
    <3>1. clone.before[s] \in {None} \cup A!CloneRow /\ clone.after[s] \in {None} \cup A!CloneRow  BY DEF CloneOK
    <3>2. \A c \in ChangesTo(s) : ChangesTo(s) = {c}  BY <3>1, ChangeFacts DEF ChangesTo
    <3>3. QED  BY <3>2
  <2>5. QED  BY <2>1, <2>2, <2>3, <2>4
<1>4. ASSUME NEW s \in Skill, ChangesTo(s) # {}  PROVE \E id \in Changed : id.skill = s
  <2>1. PICK c \in ChangesTo(s) : TRUE  BY <1>4
  <2>2. c \in A!Differences  BY <1>1
  <2>3. A!Id(c) \in Changed /\ A!Id(c).skill = s  BY <2>2, IdFacts DEF Changed
  <2>4. QED  BY <2>3
<1>5. QED  BY <1>2, <1>3, <1>4

\* What an apply makes of a skill, and that it has its type.
LEMMA AppliedIsRow ==
  ASSUME BookOK, NEW p, SaysSo(p), ~ A!Refused(p)
  PROVE  A!Applied(p) \in A!BookRow
<1> DEFINE row == book[p.skill]
<1>1. p.skill \in Skill /\ p.row.section = "context" /\ p.row.text \in AceText /\ p.refs \subseteq Trace
  BY DEF SaysSo, A!Refused
<1>2. p.op # "create" => row \in A!BookRow  BY <1>1 DEF BookOK, A!Refused
<1>3. CASE p.op = "create"  BY <1>1, <1>3 DEF A!Applied, A!Entry, A!BookRow
<1>4. CASE p.op = "update"  BY <1>1, <1>2, <1>4 DEF A!Applied, A!Entry, A!BookRow
<1>5. CASE p.op = "deactivate"  BY <1>1, <1>2, <1>5 DEF A!Applied, A!BookRow
<1>6. CASE p.op \notin {"create", "update", "deactivate"}
  BY <1>1, <1>2, <1>6 DEF A!Applied, A!BookRow
<1>7. QED  BY <1>3, <1>4, <1>5, <1>6

\* A skill that was exported becomes what the command made of it, once its proposal is
\* applied.
LEMMA AppliedIsMade ==
  ASSUME BookOK, CloneOK(clone.before), CloneOK(clone.after), BookOK', clone' = clone,
         NEW p, SaysSo(p), p.id \in Changed, AsExported(p.skill), ~ A!Refused(p),
         book'[p.skill] = A!Applied(p)
  PROVE  AsMade(p.skill)'
<1> DEFINE s == p.skill
           b == clone.before[s]
           a == clone.after[s]
           row == book[s]
<1>1. s \in Skill /\ p.op = p.id.op /\ s = p.id.skill /\ p.row.section = "context"
      /\ p.row.text = A!Kept(p.id).text
  BY DEF SaysSo, A!Refused
<1>2. PICK c \in ChangesTo(s) : p.id = A!Id(c)
  BY <1>1, ChangedFacts
<1>3. b \in {None} \cup A!CloneRow /\ a \in {None} \cup A!CloneRow  BY <1>1 DEF CloneOK
<1>4. /\ c.op \in {"create", "update", "deactivate", "link_occurrence"}
      /\ c.op = "create" <=> b = None
      /\ c.op = "create" => a # None
      /\ c.op = "update" => a # None /\ ~ (b.active /\ ~ a.active)
      /\ c.op = "deactivate" => a = None \/ (b.active /\ ~ a.active)
      /\ c.op = "link_occurrence" => a # None /\ A!Material(b) = A!Material(a) /\ ~ (b.active /\ ~ a.active)
  BY <1>1, <1>3, ChangeFacts DEF ChangesTo
<1>5. p.op = c.op /\ (a # None => p.row.text = a.text)
  BY <1>1, <1>2, IdFacts
<1>6. (p.op = "create") <=> (row = None)  BY DEF A!Refused
<1>7. b # None => row # None /\ row.text = b.text /\ row.active = b.active  BY <1>1 DEF AsExported
<1>8. row # None => row \in A!BookRow  BY <1>1 DEF BookOK
<1>9. book'[s] \in A!BookRow /\ book'[s] = A!Applied(p)  BY AppliedIsRow
<1>10. book'[s] # None  BY <1>9, BridgeAssumption DEF A!BridgeAssumption
<1>11. CASE p.op \in {"create", "update"}
  <2>1. book'[s].text = p.row.text /\ book'[s].active = TRUE  BY <1>9, <1>11 DEF A!Applied, A!Entry
  <2>2. QED  BY <1>4, <1>5, <1>10, <1>11, <2>1 DEF AsMade
<1>12. CASE p.op = "deactivate"
  <2>1. book'[s].active = FALSE  BY <1>6, <1>8, <1>9, <1>12 DEF A!Applied, A!BookRow
  <2>2. a = None \/ ~ a.active  BY <1>4, <1>5, <1>12
  <2>3. QED  BY <1>10, <2>1, <2>2 DEF AsMade
<1>13. CASE p.op = "link_occurrence"
  <2>1. book'[s].active = row.active /\ book'[s].text = row.text
    BY <1>6, <1>8, <1>9, <1>13 DEF A!Applied, A!BookRow
  <2>2. a # None /\ b # None /\ a.text = b.text /\ a.active = b.active
    BY <1>3, <1>4, <1>5, <1>13, MaterialFacts
  <2>3. QED  BY <1>7, <1>10, <2>1, <2>2 DEF AsMade
<1>14. QED  BY <1>4, <1>5, <1>11, <1>12, <1>13

\* A decision changes the state of one proposal.
LEMMA DecidedFacts ==
  ASSUME ProposalsOK, NEW p \in A!Pending, NEW decided, proposals' = A!Decided(p, decided)
  PROVE  /\ ProposalsOK'
         /\ \A id : A!Exists(id) => A!Exists(id)'
         /\ \A q \in proposals' : \/ q \in proposals /\ q.id # p.id
                                  \/ q.id = p.id /\ q.skill = p.skill /\ q.state = decided
         /\ \A q \in proposals : q.id # p.id => q \in proposals'
<1> DEFINE new == [p EXCEPT !.state = decided]
<1>1. p \in proposals /\ SaysSo(p)  BY DEF A!Pending, ProposalsOK
<1>2. new = [id |-> p.id, op |-> p.op, skill |-> p.skill, row |-> p.row, refs |-> p.refs, state |-> decided]
  BY <1>1 DEF SaysSo
<1> HIDE DEF new
<1>3. proposals' = (proposals \ {p}) \cup {new}  BY DEF A!Decided, new
<1>4. new.id = p.id /\ new.op = p.op /\ new.skill = p.skill /\ new.row = p.row /\ new.refs = p.refs /\ new.state = decided
  BY <1>2
<1>5. SaysSo(new)
  <2>1. new = [id |-> new.id, op |-> new.op, skill |-> new.skill, row |-> new.row, refs |-> new.refs, state |-> new.state]
    BY <1>2, <1>4
  <2>2. QED  BY <1>1, <1>4, <2>1 DEF SaysSo
<1>6. \A q \in proposals : q # p => q.id # p.id  BY <1>1 DEF ProposalsOK
<1>7. ProposalsOK'
  <2>1. \A q \in proposals' : SaysSo(q)  BY <1>3, <1>5 DEF ProposalsOK
  <2>2. \A q \in proposals' : SaysSo(q)'  BY <2>1 DEF SaysSo, A!Kept
  <2>3. \A q, r \in proposals' : q.id = r.id => q = r  BY <1>3, <1>4, <1>6 DEF ProposalsOK
  <2>4. QED  BY <2>2, <2>3 DEF ProposalsOK
<1>8. \A id : A!Exists(id) => A!Exists(id)'  BY <1>3, <1>4 DEF A!Exists
<1>9. \A q \in proposals' : \/ q \in proposals /\ q.id # p.id
                            \/ q.id = p.id /\ q.skill = p.skill /\ q.state = decided
  BY <1>3, <1>4, <1>6
<1>10. \A q \in proposals : q.id # p.id => q \in proposals'  BY <1>3
<1>11. QED  BY <1>7, <1>8, <1>9, <1>10

\* While nothing of it changes, what is to be submitted stays.
LEMMA PersistsStays ==
  ASSUME Persists, ace' = ace, clone' = clone, alone' => alone, \A id : A!Exists(id) => A!Exists(id)',
         ace.at = "persist" => ~ alone'
  PROVE  Persists'
<1>0. Changed' = Changed
  BY DEF Changed, A!Differences, A!ChangesOf, A!Created, A!Modified, A!Material, A!Change, A!Id, A!Row
<1>1. ace'.at = "persist" => ace'.ids = Changed'  BY <1>0 DEF Persists
<1>2. \A p \in ace.todo : SaysSo(p) => SaysSo(p)'  BY DEF SaysSo, A!Kept
<1>3. ace'.at = "persist" => \A id \in ace'.ids : (\E p \in ace'.todo : p.id = id) \/ A!Exists(id)'
  BY DEF Persists
<1>4. QED  BY <1>1, <1>2, <1>3 DEF Persists

\* A run begins: the clone is what the skillbook holds.
LEMMA PrepareInv ==
  ASSUME BridgeInv, NEW inactive \in BOOLEAN, A!Prepare(inactive)
  PROVE  BridgeInv'
<1> DEFINE rows == A!Exported(inactive)
<1>1. /\ ace' = [at |-> "command"] /\ alone' = TRUE /\ UNCHANGED <<book, known, proposals, report>>
      /\ clone' = [before |-> rows, after |-> rows] /\ used' = [used EXCEPT !.runs = @ + 1]
  BY DEF A!Prepare
<1>2. CloneOK(rows)
  <2>1. \A s \in Skill : book[s] # None =>
          A!Row(book[s].section, book[s].text, book[s].active, book[s].occ) \in A!CloneRow
    BY BridgeAssumption DEF BridgeInv, BookOK, A!BookRow, A!CloneRow, A!Row, A!BridgeAssumption
  <2>2. QED  BY <2>1 DEF A!Exported, CloneOK
<1>3. ClonesOK'
  <2> HIDE DEF rows
  <2>1. clone'.before = rows /\ clone'.after = rows /\ clone' = [before |-> clone'.before, after |-> clone'.after]
    BY <1>1
  <2>3. CloneOK(clone.before)' /\ CloneOK(clone.after)'  BY <1>2, <2>1 DEF CloneOK, A!CloneRow
  <2>4. QED  BY <2>1, <2>3 DEF ClonesOK
<1>4. used'.runs = used.runs + 1 /\ UsedOK'  BY <1>1 DEF BridgeInv, UsedOK
<1>5. ~ ThisRun'  BY <1>1, <1>4 DEF BridgeInv, ReportOK, ThisRun, UsedOK
<1>6. ReportOK'  BY <1>1, <1>4 DEF BridgeInv, ReportOK, UsedOK, A!Exists
<1>7. ASSUME NEW s \in Skill  PROVE AsExported(s)'
  <2>1. clone'.before[s] = IF book[s] # None /\ (book[s].active \/ inactive)
                           THEN A!Row(book[s].section, book[s].text, book[s].active, book[s].occ) ELSE None
    BY <1>1 DEF A!Exported
  <2>2. CASE book[s] # None /\ (book[s].active \/ inactive)
    <3>1. clone'.before[s] = A!Row(book[s].section, book[s].text, book[s].active, book[s].occ)
      BY <2>1, <2>2
    <3>2. clone'.before[s].section = book[s].section /\ clone'.before[s].text = book[s].text
          /\ clone'.before[s].active = book[s].active
      BY <3>1 DEF A!Row
    <3>3. clone'.before[s] # None
      BY <1>2, <2>1, <2>2, <3>1, BridgeAssumption
      DEF BridgeInv, BookOK, A!BookRow, A!CloneRow, A!Row, A!BridgeAssumption
    <3>4. QED  BY <1>1, <2>2, <3>2, <3>3 DEF AsExported
  <2>3. CASE ~ (book[s] # None /\ (book[s].active \/ inactive))
    BY <1>1, <2>1, <2>3 DEF AsExported
  <2>4. QED  BY <2>2, <2>3
<1>8. BookOK' /\ AceOK' /\ ProposalsOK' /\ Persists'
  BY <1>1 DEF BridgeInv, BookOK, AceOK, ProposalsOK, Persists, SaysSo, A!Kept
<1>9. QED  BY <1>3, <1>4, <1>5, <1>6, <1>7, <1>8 DEF BridgeInv, ComesBack

\* The command edits its clone.
LEMMA EditInv ==
  ASSUME BridgeInv, NEW s \in Skill, NEW row \in {None} \cup A!CloneRow, A!Edit(s, row)
  PROVE  BridgeInv'
<1>1. /\ ace.at = "command" /\ clone' = [clone EXCEPT !.after[s] = row] /\ used' = [used EXCEPT !.edits = @ + 1]
      /\ UNCHANGED <<book, known, ace, proposals, report, alone>>
  BY DEF A!Edit
<1>2. clone = [before |-> clone.before, after |-> clone.after] /\ CloneOK(clone.before) /\ CloneOK(clone.after)
  BY <1>1 DEF BridgeInv, ClonesOK
<1>3. clone' = [before |-> clone.before, after |-> [clone.after EXCEPT ![s] = row]]
  BY <1>1, <1>2
<1>4. clone'.before = clone.before /\ clone'.after = [clone.after EXCEPT ![s] = row]  BY <1>3
<1>5. ClonesOK'
  <2>1. CloneOK(clone.before)'  BY <1>2, <1>4 DEF CloneOK
  <2>2. CloneOK(clone.after)'  BY <1>2, <1>4 DEF CloneOK
  <2>3. clone' = [before |-> clone'.before, after |-> clone'.after]  BY <1>3, <1>4
  <2>4. QED  BY <2>1, <2>2, <2>3 DEF ClonesOK
<1>6. used'.runs = used.runs /\ UsedOK'  BY <1>1 DEF BridgeInv, UsedOK
<1>7. ~ ThisRun /\ ~ ThisRun'  BY <1>1, <1>6 DEF BridgeInv, ThisRun
<1>8. ReportOK'  BY <1>1, <1>6 DEF BridgeInv, ReportOK, A!Exists
<1>9. alone' => \A t \in Skill : AsExported(t)'  BY <1>1, <1>4, <1>7 DEF BridgeInv, ComesBack, AsExported
<1>10. BookOK' /\ AceOK' /\ ProposalsOK' /\ Persists'
  BY <1>1 DEF BridgeInv, BookOK, AceOK, ProposalsOK, Persists, SaysSo, A!Kept
<1>11. QED  BY <1>5, <1>6, <1>7, <1>8, <1>9, <1>10 DEF BridgeInv, ComesBack

\* A run ends without proposals.
LEMMA CommandFailsInv ==
  ASSUME BridgeInv, ace.at = "command", ace' = [at |-> "idle"],
         UNCHANGED <<book, known, clone, proposals, report, used, alone>>
  PROVE  BridgeInv'
<1>1. ~ ThisRun /\ ~ ThisRun'  BY DEF BridgeInv, ThisRun
<1>2. ReportOK'  BY DEF BridgeInv, ReportOK, A!Exists
<1>3. alone' => \A s \in Skill : AsExported(s)'  BY <1>1 DEF BridgeInv, ComesBack, AsExported
<1>4. BookOK' /\ UsedOK' /\ AceOK' /\ ProposalsOK' /\ Persists'
  BY DEF BridgeInv, BookOK, UsedOK, AceOK, ProposalsOK, Persists, SaysSo, A!Kept
<1>5. ClonesOK'  BY DEF BridgeInv, ClonesOK, CloneOK
<1>6. QED  BY <1>1, <1>2, <1>3, <1>4, <1>5 DEF BridgeInv, ComesBack

\* The difference is made into proposals.
LEMMA DiffInv ==
  ASSUME BridgeInv, A!Diff
  PROVE  BridgeInv'
<1> DEFINE todo == {A!Proposal(change) : change \in A!Differences}
           ids == {A!Id(change) : change \in A!Differences}
<1>1. ace.at = "command" /\ UNCHANGED <<book, known, clone, proposals, report, used, alone>>
  BY DEF A!Diff
<1>2. CASE \E change \in A!Differences : A!Raises(change)
  <2>1. ace' = [at |-> "idle"]  BY <1>2 DEF A!Diff
  <2>2. QED  BY <1>1, <2>1, CommandFailsInv
<1>3. CASE ~ \E change \in A!Differences : A!Raises(change)
  <2>1. ace' = [at |-> "persist", todo |-> todo, ids |-> ids]  BY <1>3 DEF A!Diff
  <2> HIDE DEF todo, ids
  <2>2. ace'.at = "persist" /\ ace'.todo = todo /\ ace'.ids = ids /\ AceOK'
    BY <1>1, <2>1 DEF BridgeInv, AceOK
  <2>3. ClonesOK /\ CloneOK(clone.before) /\ CloneOK(clone.after)  BY <1>1 DEF BridgeInv, ClonesOK
  <2>4. ids = Changed /\ Changed' = Changed
    BY <1>1 DEF ids, Changed, A!Differences, A!ChangesOf, A!Created, A!Modified, A!Material, A!Change, A!Id, A!Row
  <2>5. ASSUME NEW c \in A!Differences
        PROVE  SaysSo(A!Proposal(c)) /\ A!Proposal(c).state = "pending" /\ A!Proposal(c).id = A!Id(c)
    <3>1. PICK s \in Skill : c \in ChangesTo(s)  BY DEF A!Differences, ChangesTo
    <3> DEFINE p == A!Proposal(c)
    <3>2. /\ p.id = A!Id(c) /\ p.op = c.op /\ p.skill = c.skill /\ p.row = A!Kept(c)
          /\ p.refs = A!Evidence(A!Kept(c)) /\ p.state = "pending"
          /\ p = [id |-> p.id, op |-> p.op, skill |-> p.skill, row |-> p.row, refs |-> p.refs, state |-> p.state]
      BY DEF A!Proposal
    <3>3. /\ A!Id(c).op = c.op /\ A!Id(c).skill = s /\ A!Kept(c) \in A!CloneRow
          /\ A!Kept(A!Id(c)).section = A!Kept(c).section /\ A!Kept(A!Id(c)).text = A!Kept(c).text
      BY <2>3, <3>1, IdFacts
    <3>4. c.skill = s  BY <3>3 DEF A!Id, A!Change
    <3>5. A!Evidence(A!Kept(c)) \subseteq known /\ known \subseteq Trace  BY DEF A!Evidence, BridgeInv, BookOK
    <3>6. A!Evidence(A!Kept(c)) # {}  BY <1>3 DEF A!Raises
    <3>7. A!Kept(c).section \in Section /\ A!Kept(c).text \in AceText  BY <3>3 DEF A!CloneRow
    <3> HIDE DEF p
    <3>8. SaysSo(p)  BY <3>2, <3>3, <3>4, <3>5, <3>6, <3>7 DEF SaysSo
    <3>9. QED  BY <3>2, <3>8 DEF p
  <2>6. \A p \in todo : SaysSo(p)' /\ p.state = "pending"  BY <2>5 DEF todo, SaysSo, A!Kept
  <2>7. \A id \in ids : \E p \in todo : p.id = id  BY <2>5 DEF todo, ids
  <2>8. Persists'  BY <2>2, <2>4, <2>6, <2>7 DEF Persists
  <2>9. ~ ThisRun /\ ~ ThisRun'  BY <1>1 DEF BridgeInv, ThisRun
  <2>10. ReportOK'  BY <1>1 DEF BridgeInv, ReportOK, A!Exists
  <2>11. alone' => \A s \in Skill : AsExported(s)'  BY <1>1, <2>9 DEF BridgeInv, ComesBack, AsExported
  <2>12. BookOK' /\ UsedOK' /\ ProposalsOK'
    BY <1>1 DEF BridgeInv, BookOK, UsedOK, ProposalsOK, SaysSo, A!Kept
  <2>13. ClonesOK'  BY <1>1, <2>3 DEF ClonesOK, CloneOK
  <2>14. QED  BY <2>2, <2>8, <2>9, <2>10, <2>11, <2>12, <2>13 DEF BridgeInv, ComesBack
<1>4. QED  BY <1>2, <1>3

\* A proposal is put in, or the run ends.
LEMMA SubmitInv ==
  ASSUME BridgeInv, A!Submit
  PROVE  BridgeInv'
<1>1. ace.at = "persist" /\ UNCHANGED <<book, known, clone, report, used, alone>>
  BY DEF A!Submit
<1>2. PICK p \in ace.todo :
        IF A!Exists(p.id) \/ ~(p.refs \subseteq known)
        THEN ace' = [at |-> "idle"] /\ UNCHANGED proposals
        ELSE proposals' = proposals \cup {p} /\ ace' = [ace EXCEPT !.todo = @ \ {p}]
  BY DEF A!Submit
<1>3. ~ ThisRun /\ ~ ThisRun'  BY <1>1 DEF BridgeInv, ThisRun
<1>4. alone' => \A s \in Skill : AsExported(s)'  BY <1>1, <1>3 DEF BridgeInv, ComesBack, AsExported
<1>5. ClonesOK'  BY <1>1 DEF BridgeInv, ClonesOK, CloneOK
<1>6. BookOK' /\ UsedOK'  BY <1>1 DEF BridgeInv, BookOK, UsedOK
<1>7. CASE ace' = [at |-> "idle"] /\ UNCHANGED proposals
  <2>1. ReportOK'  BY <1>1, <1>7 DEF BridgeInv, ReportOK, A!Exists
  <2>2. AceOK' /\ ProposalsOK' /\ Persists'
    BY <1>1, <1>7 DEF BridgeInv, AceOK, ProposalsOK, Persists, SaysSo, A!Kept
  <2>3. QED  BY <1>3, <1>4, <1>5, <1>6, <2>1, <2>2 DEF BridgeInv, ComesBack
<1>8. CASE ~ A!Exists(p.id) /\ proposals' = proposals \cup {p} /\ ace' = [ace EXCEPT !.todo = @ \ {p}]
  <2>1. ace = [at |-> "persist", todo |-> ace.todo, ids |-> ace.ids]  BY <1>1 DEF BridgeInv, AceOK
  <2>2. ace' = [at |-> "persist", todo |-> ace.todo \ {p}, ids |-> ace.ids]  BY <1>8, <2>1
  <2>3. ace'.at = "persist" /\ ace'.todo = ace.todo \ {p} /\ ace'.ids = ace.ids /\ AceOK'
    BY <1>1, <2>2 DEF BridgeInv, AceOK
  <2>4. SaysSo(p) /\ p.state = "pending"  BY <1>1 DEF BridgeInv, Persists
  <2>5. \A q \in proposals : q.id # p.id  BY <1>8 DEF A!Exists
  <2>6. ProposalsOK'
    <3>1. \A q \in proposals' : SaysSo(q)'  BY <1>8, <2>4 DEF BridgeInv, ProposalsOK, SaysSo, A!Kept
    <3>2. \A q, r \in proposals' : q.id = r.id => q = r  BY <1>8, <2>5 DEF BridgeInv, ProposalsOK
    <3>3. QED  BY <3>1, <3>2 DEF ProposalsOK
  <2>7. \A id : A!Exists(id)' <=> A!Exists(id) \/ id = p.id  BY <1>8 DEF A!Exists
  <2>8. ReportOK'  BY <1>1, <2>7 DEF BridgeInv, ReportOK
  <2>9. Changed' = Changed
    BY <1>1 DEF Changed, A!Differences, A!ChangesOf, A!Created, A!Modified, A!Material, A!Change, A!Id, A!Row
  <2>10. \A q \in ace.todo : SaysSo(q)' /\ q.state = "pending"
    BY <1>1 DEF BridgeInv, Persists, SaysSo, A!Kept
  <2>11. ASSUME NEW id \in ace.ids
         PROVE  \/ \E q \in ace.todo \ {p} : q.id = id
                \/ A!Exists(id)' /\ (alone' => \A q \in proposals' : q.id = id => q.state = "pending")
    <3>1. CASE id = p.id
      <4>1. \A q \in proposals' : q.id = id => q = p  BY <1>8, <2>5, <3>1
      <4>2. QED  BY <2>4, <2>7, <3>1, <4>1
    <3>2. CASE id # p.id
      <4>1. \/ \E q \in ace.todo : q.id = id
            \/ A!Exists(id) /\ (alone => \A q \in proposals : q.id = id => q.state = "pending")
        BY <1>1 DEF BridgeInv, Persists
      <4>2. CASE \E q \in ace.todo : q.id = id  BY <3>2, <4>2
      <4>3. CASE A!Exists(id) /\ (alone => \A q \in proposals : q.id = id => q.state = "pending")
        BY <1>1, <1>8, <2>7, <3>2, <4>3
      <4>4. QED  BY <4>1, <4>2, <4>3
    <3>3. QED  BY <3>1, <3>2
  <2>12. Persists'
    <3>1. ace'.ids = Changed'  BY <1>1, <2>3, <2>9 DEF BridgeInv, Persists
    <3>2. QED  BY <2>3, <2>10, <2>11, <3>1 DEF Persists
  <2>13. QED  BY <1>3, <1>4, <1>5, <1>6, <2>3, <2>6, <2>8, <2>12 DEF BridgeInv, ComesBack
<1>9. QED  BY <1>2, <1>7, <1>8

\* The report lists what was put in.
LEMMA ReportInv ==
  ASSUME BridgeInv, A!Report
  PROVE  BridgeInv'
<1>1. /\ ace.at = "persist" /\ ace.todo = {}
      /\ report' = [ids |-> ace.ids, run |-> used.runs] /\ ace' = [at |-> "idle"]
      /\ UNCHANGED <<book, known, clone, proposals, used, alone>>
  BY DEF A!Report, A!ReportLast
<1>2. report'.ids = ace.ids /\ report'.run = used.runs  BY <1>1
<1>3. ~ ThisRun  BY <1>1 DEF BridgeInv, ThisRun
<1>4. Changed' = Changed
  BY <1>1 DEF Changed, A!Differences, A!ChangesOf, A!Created, A!Modified, A!Material, A!Change, A!Id, A!Row
<1>5. report'.ids = Changed'  BY <1>1, <1>2, <1>4 DEF BridgeInv, Persists
<1>6. \A id \in ace.ids : A!Exists(id) /\ (alone => \A p \in proposals : p.id = id => p.state = "pending")
  BY <1>1 DEF BridgeInv, Persists
<1>7. ReportOK'  BY <1>1, <1>2, <1>6 DEF BridgeInv, ReportOK, UsedOK, A!Exists
<1>8. alone' => \A s \in Skill : ~ AppliedTo(s)'  BY <1>1, <1>2, <1>6 DEF AppliedTo
<1>9. alone' => \A s \in Skill : AsExported(s)'  BY <1>1, <1>3 DEF BridgeInv, ComesBack, AsExported
<1>10. BookOK' /\ UsedOK' /\ AceOK' /\ ProposalsOK' /\ Persists'
  BY <1>1 DEF BridgeInv, BookOK, UsedOK, AceOK, ProposalsOK, Persists, SaysSo, A!Kept
<1>11. ClonesOK'  BY <1>1 DEF BridgeInv, ClonesOK, CloneOK
<1>12. ace'.at = "idle"  BY <1>1
<1>13. QED  BY <1>5, <1>7, <1>8, <1>9, <1>10, <1>11, <1>12 DEF BridgeInv, ComesBack

\* Once something happened that the run did not do, only what was put in counts.
LEMMA AloneNoMore ==
  ASSUME BridgeInv, alone' = FALSE, BookOK', UsedOK', ProposalsOK', used'.runs = used.runs,
         \A id : A!Exists(id) => A!Exists(id)', UNCHANGED <<clone, ace, report>>
  PROVE  BridgeInv'
<1>1. Persists'  BY PersistsStays DEF BridgeInv
<1>2. ReportOK'  BY DEF BridgeInv, ReportOK
<1>3. ClonesOK'  BY DEF BridgeInv, ClonesOK, CloneOK
<1>4. AceOK'  BY DEF BridgeInv, AceOK
<1>5. ThisRun' => ace'.at = "idle"  BY DEF BridgeInv, ThisRun
<1>6. QED  BY <1>1, <1>2, <1>3, <1>4, <1>5 DEF BridgeInv

\* A proposal is applied; while the run is alone, it is one of its own.
LEMMA BridgeApplyInv ==
  ASSUME BridgeInv, A!Apply
  PROVE  BridgeInv'
<1>1. UNCHANGED <<known, clone, ace, report, used>>  BY DEF A!Apply
<1>2. PICK p \in A!Pending :
        /\ ~ A!Refused(p) /\ book' = [book EXCEPT ![p.skill] = A!Applied(p)]
        /\ proposals' = A!Decided(p, "applied")
        /\ alone' = (alone /\ ace.at = "idle" /\ report # None /\ report.run = used.runs /\ p.id \in report.ids)
  BY DEF A!Apply
<1>3. p \in proposals /\ p.state = "pending" /\ SaysSo(p) /\ p.skill \in Skill
  BY DEF A!Pending, BridgeInv, ProposalsOK, SaysSo
<1>4. BookOK'
  <2>1. A!Applied(p) \in A!BookRow  BY <1>2, <1>3, AppliedIsRow DEF BridgeInv
  <2>2. QED  BY <1>1, <1>2, <1>3, <2>1 DEF BridgeInv, BookOK
<1>5. /\ ProposalsOK'
      /\ \A id : A!Exists(id) => A!Exists(id)'
      /\ \A q \in proposals' : \/ q \in proposals /\ q.id # p.id
                               \/ q.id = p.id /\ q.skill = p.skill /\ q.state = "applied"
      /\ \A q \in proposals : q.id # p.id => q \in proposals'
  BY <1>2, DecidedFacts DEF BridgeInv
<1>6. UsedOK'  BY <1>1 DEF BridgeInv, UsedOK
<1>7. CASE ~ alone'
  <2>1. alone' = FALSE  BY <1>2, <1>7 DEF BridgeInv, AceOK
  <2>2. QED  BY <1>1, <1>4, <1>5, <1>6, <2>1, AloneNoMore
<1>8. CASE alone'
  <2>1. alone /\ ace.at = "idle" /\ ThisRun /\ ThisRun' /\ p.id \in report.ids /\ report.ids = Changed
    BY <1>1, <1>2, <1>8 DEF ThisRun, BridgeInv
  <2>2. CloneOK(clone.before) /\ CloneOK(clone.after)  BY <2>1 DEF BridgeInv, ClonesOK
  <2>3. Changed' = Changed
    BY <1>1 DEF Changed, A!Differences, A!ChangesOf, A!Created, A!Modified, A!Material, A!Change, A!Id, A!Row
  <2>4. \A q \in proposals : (q.id \in report.ids /\ q.skill = p.skill) => q.id = p.id
    <3>1. ASSUME NEW q \in proposals, q.id \in report.ids, q.skill = p.skill  PROVE q.id = p.id
      <4>1. q.id.skill = p.id.skill  BY <1>3, <3>1 DEF BridgeInv, ProposalsOK, SaysSo
      <4>2. QED  BY <2>1, <2>2, <3>1, <4>1, ChangedFacts
    <3>2. QED  BY <3>1
  <2>5. ~ AppliedTo(p.skill)
    <3>1. \A q \in proposals : q.id = p.id => q.state = "pending"  BY <1>3 DEF BridgeInv, ProposalsOK
    <3>2. QED  BY <2>4, <3>1 DEF AppliedTo
  <2>6. AsExported(p.skill)  BY <1>3, <2>1, <2>5 DEF BridgeInv, ComesBack
  <2>7. AsMade(p.skill)'
    <3>1. book'[p.skill] = A!Applied(p)  BY <1>2, <1>3 DEF BridgeInv, BookOK
    <3>2. QED  BY <1>1, <1>2, <1>3, <1>4, <2>1, <2>2, <2>6, <3>1, AppliedIsMade DEF BridgeInv
  <2>8. AppliedTo(p.skill)'
    <3>1. A!Exists(p.id)'  BY <1>3, <1>5 DEF A!Exists
    <3>2. PICK q \in proposals' : q.id = p.id  BY <3>1 DEF A!Exists
    <3>3. q.skill = p.skill /\ q.state = "applied"  BY <1>5, <3>2
    <3>4. QED  BY <1>1, <2>1, <3>2, <3>3 DEF AppliedTo
  <2>9. ASSUME NEW s \in Skill, s # p.skill  PROVE ComesBack(s)'
    <3>1. AppliedTo(s)' <=> AppliedTo(s)
      <4>1. \A q \in proposals : q.skill = s => q.id # p.id
        BY <1>3, <2>9 DEF BridgeInv, ProposalsOK
      <4>2. QED  BY <1>1, <1>5, <2>9, <4>1 DEF AppliedTo
    <3>2. book'[s] = book[s]  BY <1>2, <2>9 DEF BridgeInv, BookOK
    <3>3. ComesBack(s)  BY <2>1 DEF BridgeInv
    <3>4. (AsMade(s)' <=> AsMade(s)) /\ (AsExported(s)' <=> AsExported(s))
      BY <1>1, <3>2 DEF AsMade, AsExported
    <3>5. QED  BY <2>1, <3>1, <3>3, <3>4 DEF ComesBack
  <2>10. \A s \in Skill : ComesBack(s)'
    <3>1. ComesBack(p.skill)'  BY <2>1, <2>7, <2>8 DEF ComesBack
    <3>2. QED  BY <2>9, <3>1
  <2>11. ReportOK'  BY <1>1, <1>5 DEF BridgeInv, ReportOK
  <2>12. ClonesOK'  BY <1>1, <2>1 DEF BridgeInv, ClonesOK, CloneOK
  <2>13. AceOK' /\ Persists'
    <3>1. alone' = TRUE  BY <1>2, <1>8 DEF BridgeInv, AceOK
    <3>2. QED  BY <1>1, <2>1, <3>1 DEF BridgeInv, AceOK, Persists
  <2>14. ace'.at = "idle" /\ report'.ids = Changed'  BY <1>1, <2>1, <2>3
  <2>15. QED  BY <1>4, <1>5, <1>6, <2>10, <2>11, <2>12, <2>13, <2>14 DEF BridgeInv
<1>9. QED  BY <1>7, <1>8

\* A proposal is rejected.
LEMMA RejectInv ==
  ASSUME BridgeInv, A!Reject
  PROVE  BridgeInv'
<1>1. /\ used' = [used EXCEPT !.others = @ + 1] /\ alone' = FALSE
      /\ UNCHANGED <<book, known, clone, ace, report>>
  BY DEF A!Reject
<1>2. PICK p \in A!Pending : proposals' = A!Decided(p, "rejected")  BY DEF A!Reject
<1>3. ProposalsOK' /\ \A id : A!Exists(id) => A!Exists(id)'
  BY <1>2, DecidedFacts DEF BridgeInv
<1>4. UsedOK' /\ used'.runs = used.runs  BY <1>1 DEF BridgeInv, UsedOK
<1>5. BookOK'  BY <1>1 DEF BridgeInv, BookOK
<1>6. QED  BY <1>1, <1>3, <1>4, <1>5, AloneNoMore

\* A human edits, or a trace goes.
LEMMA OthersInv ==
  ASSUME BridgeInv, A!Others
  PROVE  BridgeInv'
<1>1. /\ used' = [used EXCEPT !.others = @ + 1] /\ alone' = FALSE
      /\ UNCHANGED <<clone, ace, proposals, report>>
  BY DEF A!Others
<1>2. UsedOK' /\ used'.runs = used.runs  BY <1>1 DEF BridgeInv, UsedOK
<1>3. ProposalsOK' /\ \A id : A!Exists(id) => A!Exists(id)'
  BY <1>1 DEF BridgeInv, ProposalsOK, SaysSo, A!Kept, A!Exists
<1>4. BookOK'
  <2>1. CASE \E t \in known : known' = known \ {t} /\ UNCHANGED book
    BY <2>1 DEF BridgeInv, BookOK
  <2>2. ASSUME NEW s \in Skill, NEW t \in AceText, book[s] # None, UNCHANGED known,
               book' = [book EXCEPT ![s] = A!Entry(@.section, t, @.active, TRUE, @.occ)]
        PROVE  BookOK'
    <3>1. book[s] \in A!BookRow  BY <2>2 DEF BridgeInv, BookOK
    <3>2. A!Entry(book[s].section, t, book[s].active, TRUE, book[s].occ) \in A!BookRow
      BY <3>1 DEF A!BookRow, A!Entry
    <3>3. QED  BY <2>2, <3>2 DEF BridgeInv, BookOK
  <2>3. QED  BY <2>1, <2>2 DEF A!Others
<1>5. QED  BY <1>1, <1>2, <1>3, <1>4, AloneNoMore

\* Every step of the bridge and of the others keeps the invariant.
LEMMA BridgeNextInv ==
  ASSUME BridgeInv, [A!Next]_(A!vars)
  PROVE  BridgeInv'
<1>1. CASE UNCHANGED A!vars
  <2>1. UNCHANGED <<book, known, clone, ace, proposals, report, used, alone>>  BY <1>1 DEF A!vars
  <2>2. Changed' = Changed
    BY <2>1 DEF Changed, A!Differences, A!ChangesOf, A!Created, A!Modified, A!Material, A!Change, A!Id, A!Row
  <2>3. BookOK' /\ UsedOK' /\ AceOK' /\ ProposalsOK' /\ ClonesOK' /\ ReportOK'
    BY <2>1 DEF BridgeInv, BookOK, UsedOK, AceOK, ProposalsOK, ClonesOK, CloneOK, ReportOK, SaysSo, A!Kept, A!Exists
  <2>4. Persists'  BY <2>1, <2>2 DEF BridgeInv, Persists, SaysSo, A!Kept, A!Exists
  <2>5. \A s \in Skill : ComesBack(s)' <=> ComesBack(s)
    BY <2>1 DEF ComesBack, AsMade, AsExported, AppliedTo, ThisRun
  <2>6. QED  BY <2>1, <2>2, <2>3, <2>4, <2>5 DEF BridgeInv, ThisRun
<1>2. ASSUME NEW inactive \in BOOLEAN, A!Prepare(inactive)  PROVE BridgeInv'  BY <1>2, PrepareInv
<1>3. ASSUME NEW s \in Skill, NEW row \in {None} \cup A!CloneRow, A!Edit(s, row)  PROVE BridgeInv'
  BY <1>3, EditInv
<1>4. CASE A!CommandFails  BY <1>4, CommandFailsInv DEF A!CommandFails
<1>5. CASE A!Diff  BY <1>5, DiffInv
<1>6. CASE A!Submit  BY <1>6, SubmitInv
<1>7. CASE A!Report  BY <1>7, ReportInv
<1>8. CASE A!Apply  BY <1>8, BridgeApplyInv
<1>9. CASE A!Reject  BY <1>9, RejectInv
<1>10. CASE A!Others  BY <1>10, OthersInv
<1>11. QED  BY <1>1, <1>2, <1>3, <1>4, <1>5, <1>6, <1>7, <1>8, <1>9, <1>10 DEF A!Next

\* A skill with a change was applied to, one without is what was exported, and both are
\* what the command made of them.
LEMMA EditsHaveComeBack == BridgeInv => A!EditsComeBack
<1> SUFFICES ASSUME BridgeInv  PROVE A!EditsComeBack  OBVIOUS
<1>1. report # None => \A id \in report.ids : A!Exists(id)  BY DEF BridgeInv, ReportOK
<1>2. \A p \in proposals : p.refs # {}  BY DEF BridgeInv, ProposalsOK, SaysSo
<1>3. ASSUME A!Arrived, NEW s \in Skill  PROVE AsMade(s)
  <2>1. alone /\ ThisRun /\ \A p \in proposals : p.id \in report.ids => p.state = "applied"
    BY <1>3 DEF A!Arrived, A!OfRun, ThisRun
  <2>2. CloneOK(clone.before) /\ CloneOK(clone.after) /\ report.ids = Changed /\ ComesBack(s)
    BY <2>1 DEF BridgeInv, ClonesOK
  <2>3. CASE AppliedTo(s)  BY <2>1, <2>2, <2>3 DEF ComesBack
  <2>4. CASE ~ AppliedTo(s)
    <3>1. AsExported(s)  BY <2>2, <2>4 DEF ComesBack
    <3>2. ChangesTo(s) = {}
      <4> SUFFICES ASSUME ChangesTo(s) # {}  PROVE FALSE  OBVIOUS
      <4>1. PICK id \in Changed : id.skill = s  BY <2>2, ChangedFacts
      <4>2. PICK p \in proposals : p.id = id  BY <1>1, <2>1, <2>2, <4>1 DEF A!Exists, ThisRun
      <4>3. p.skill = s  BY <4>1, <4>2 DEF BridgeInv, ProposalsOK, SaysSo
      <4>4. QED  BY <2>1, <2>2, <2>4, <4>1, <4>2, <4>3 DEF AppliedTo
    <3>3. QED  BY <2>2, <3>1, <3>2, UnchangedIsMade DEF BridgeInv
  <2>5. QED  BY <2>3, <2>4
<1>4. QED  BY <1>1, <1>2, <1>3 DEF A!EditsComeBack, AsMade

\* What an ACE command made of its clone comes back whole, when all of its proposals are
\* applied and nobody else touched the skillbook (run_native_ace_command, _diff_skillbooks).
THEOREM EditsComeBackAlways == A!Init /\ [][A!Next]_(A!vars) => []EditsComeBack
<1>1. A!Init => BridgeInv
  <2> SUFFICES ASSUME A!Init  PROVE BridgeInv  OBVIOUS
  <2>1. \A active \in BOOLEAN : A!Entry("context", Written, active, FALSE, Cited) \in A!BookRow
    BY BridgeAssumption DEF A!BridgeAssumption, A!Entry, A!BookRow
  <2>2. BookOK  BY <2>1 DEF A!Init, BookOK
  <2>3. ace.at = "idle" /\ alone = FALSE /\ report = None /\ proposals = {} /\ UsedOK
    BY DEF A!Init, UsedOK
  <2>4. QED  BY <2>2, <2>3 DEF BridgeInv, AceOK, ProposalsOK, ClonesOK, ReportOK, Persists, ThisRun
<1>2. BridgeInv /\ [A!Next]_(A!vars) => BridgeInv'  BY BridgeNextInv
<1>3. BridgeInv => EditsComeBack  BY EditsHaveComeBack DEF EditsComeBack
<1>4. QED  BY <1>1, <1>2, <1>3, PTL
================================================================================
