---------------------------------- MODULE Blobs --------------------------------
(* The content-addressed payload files and their rows (blobs.py).  A put looks *)
(* whether the file is there, writes it, and writes the row in a transaction   *)
(* of its own; a prune lists rows in autocommit, then unlinks files and        *)
(* deletes rows one by one, in a transaction that begins at its first DELETE.  *)
EXTENDS Naturals, FiniteSets

CONSTANTS
  Blob, Caller, None,
  MaxCrashes     \* bound on the callers that die

VARIABLES
  file,        \* each blob's file: none, partial or whole
  row,         \* whether payload_blobs has a row for it
  pc,          \* what each caller is doing
  lock,        \* the caller whose transaction is open
  crashes,
  listed,      \* blobs a prune has ever listed
  disturbed    \* blobs whose put or prune died, or which were put while pruned

vars == <<file, row, pc, lock, crashes, listed, disturbed>>

Idle == [at |-> "idle"]
Putter(at, b) == [at |-> at, blob |-> b]
Pruner(at, todo, now, gone) == [at |-> at, todo |-> todo, now |-> now, gone |-> gone]

Init ==
  /\ file = [b \in Blob |-> "none"] /\ row = [b \in Blob |-> FALSE]
  /\ pc = [c \in Caller |-> Idle] /\ lock = None
  /\ crashes = 0 /\ listed = {} /\ disturbed = {}

Putting(c) == IF pc[c].at \in {"write", "writing", "register"} THEN {pc[c].blob} ELSE {}
Pruning(c) == IF pc[c].at \in {"prune", "delete"} THEN pc[c].todo \cup pc[c].now \cup pc[c].gone ELSE {}
Goto(c, next) == pc' = [pc EXCEPT ![c] = next]

(* An existing file is taken for whole: it may be another's that is being      *)
(* written, or what a crash left.                                              *)
Put(c, b) ==
  /\ pc[c] = Idle
  /\ Goto(c, Putter(IF file[b] = "none" THEN "write" ELSE "register", b))
  /\ disturbed' = IF \E d \in Caller : b \in Pruning(d) THEN disturbed \cup {b} ELSE disturbed
  /\ UNCHANGED <<file, row, lock, crashes, listed>>

\* Variant: the row is written first.
WriteAfterRow(c) ==
  /\ pc[c].at = "write" /\ lock = None
  /\ row' = [row EXCEPT ![pc[c].blob] = TRUE]
  /\ Goto(c, Putter("writing", pc[c].blob))
  /\ UNCHANGED <<file, lock, crashes, listed, disturbed>>

Write(c) ==
  /\ pc[c].at = "write"
  /\ file' = [file EXCEPT ![pc[c].blob] = "partial"]
  /\ Goto(c, Putter("writing", pc[c].blob))
  /\ UNCHANGED <<row, lock, crashes, listed, disturbed>>

(* What was unlinked meanwhile stays away, the row comes all the same.         *)
Written(c) ==
  /\ pc[c].at = "writing"
  /\ file' = [file EXCEPT ![pc[c].blob] = IF file[pc[c].blob] = "none" THEN "none" ELSE "whole"]
  /\ Goto(c, Putter("register", pc[c].blob))
  /\ UNCHANGED <<row, lock, crashes, listed, disturbed>>

(* The upsert keeps created_at: what is put again is as old as it was.         *)
Register(c) ==
  /\ pc[c].at = "register" /\ lock = None
  /\ row' = [row EXCEPT ![pc[c].blob] = TRUE]
  /\ Goto(c, Idle)
  /\ UNCHANGED <<file, lock, crashes, listed, disturbed>>

(* Age and retained_until choose among the rows.                               *)
ListEligible(c, bs) ==
  /\ pc[c] = Idle /\ bs # {} /\ \A b \in bs : row[b]
  /\ Goto(c, Pruner("prune", bs, {}, {}))
  /\ listed' = listed \cup bs
  /\ disturbed' = disturbed \cup {b \in bs : \E d \in Caller : b \in Putting(d) \cup Pruning(d)}
  /\ UNCHANGED <<file, row, lock, crashes>>

\* A file that another pruner unlinks between exists and unlink is an error that
\* ends the prune and undoes what it has deleted of rows: as Crash does.
Unlink(c, b) ==
  /\ pc[c].at = "prune" /\ b \in pc[c].todo
  /\ file' = [file EXCEPT ![b] = "none"]
  /\ Goto(c, Pruner("delete", pc[c].todo \ {b}, {b}, pc[c].gone))
  /\ UNCHANGED <<row, lock, crashes, listed, disturbed>>

Delete(c) ==
  /\ pc[c].at = "delete" /\ lock \in {None, c}
  /\ lock' = c
  /\ Goto(c, Pruner("prune", pc[c].todo, {}, pc[c].gone \cup pc[c].now))
  /\ UNCHANGED <<file, row, crashes, listed, disturbed>>

Commit(c) ==
  /\ pc[c].at = "prune" /\ pc[c].todo = {}
  /\ row' = [b \in Blob |-> row[b] /\ b \notin pc[c].gone]
  /\ lock' = None
  /\ Goto(c, Idle)
  /\ UNCHANGED <<file, crashes, listed, disturbed>>

(* Files stay as they are, the open transaction is lost.                       *)
Crash(c) ==
  /\ pc[c] # Idle /\ crashes < MaxCrashes
  /\ crashes' = crashes + 1
  /\ disturbed' = disturbed \cup Putting(c) \cup Pruning(c)
  /\ lock' = IF lock = c THEN None ELSE lock
  /\ Goto(c, Idle)
  /\ UNCHANGED <<file, row, listed>>

Next ==
  \E c \in Caller :
    \/ \E b \in Blob : Put(c, b) \/ Unlink(c, b)
    \/ \E bs \in SUBSET Blob : ListEligible(c, bs)
    \/ Write(c) \/ Written(c) \/ Register(c) \/ Delete(c) \/ Commit(c) \/ Crash(c)

--------------------------------------------------------------------------------
(* A row always has its file, unless a prune took the file; a crash or another *)
(* put of the same content does not change that.  When all is quiet, a blob    *)
(* that was not put while it was pruned, and whose callers all lived, has both *)
(* or neither, and its file is whole.                                          *)
RowsHaveFiles ==
  /\ \A b \in Blob \ listed : row[b] => file[b] # "none"
  /\ (\A c \in Caller : pc[c] = Idle)
     => \A b \in Blob \ disturbed : IF row[b] THEN file[b] = "whole" ELSE file[b] = "none"
================================================================================
