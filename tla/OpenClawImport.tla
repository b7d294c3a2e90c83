---------------------------- MODULE OpenClawImport -----------------------------
(* The sessions of OpenClaw are imported while they are written                *)
(* (openclaw_import.py): a session is a transcript, a file of records, one a   *)
(* line, to which its agents append; sessions.json may list some of them.      *)
(* The import reads file by file; a session becomes a task, its attempt and    *)
(* run, a root span and one span per record.                                   *)
EXTENDS Naturals, Sequences, FiniteSets

CONSTANTS None, Session, Id, Slug, Record, MaxRecords, MaxImports

Named(id) == <<0, id>>
Numbered(i) == <<i, None>>
Root == Numbered(0)
Main == "main"
User == "user"

VARIABLES
  files,    \* [Session -> None or its records]
  torn,     \* the sessions whose last line is half written
  listed,   \* the sessions in sessions.json, or None
  import,   \* what the import still has to read, and what it read
  kyoko,    \* [Session -> None or the rows made of it]
  imports,  \* imports so far
  read      \* history: [Session -> the records last imported]

vars == <<files, torn, listed, import, kyoko, imports, read>>

Init ==
  /\ files = [s \in Session |-> None] /\ torn = {} /\ listed \in {None} \cup SUBSET Session
  /\ import = None /\ kyoko = [s \in Session |-> None] /\ imports = 0
  /\ read = [s \in Session |-> None]

--------------------------------------------------------------------------------
(* OpenClaw at work                                                            *)

Records(s) == IF files[s] = None THEN <<>> ELSE files[s]

Write(s, record) ==
  /\ s \notin torn /\ Len(Records(s)) < MaxRecords
  /\ files' = [files EXCEPT ![s] = Append(Records(s), record)]
  /\ torn' \in {torn, torn \cup {s}}
  /\ UNCHANGED <<listed, import, kyoko, imports, read>>

\* The rest of the line.
Finish(s) == s \in torn /\ torn' = torn \ {s} /\ UNCHANGED <<files, listed, import, kyoko, imports, read>>

--------------------------------------------------------------------------------
(* The import                                                                  *)

\* An empty store counts as none.  What is listed but not there is left out.
DiscoverSessions ==
  {s \in Session : files[s] # None /\ (listed \in {None, {}} \/ s \in listed)}

Begin ==
  /\ import = None /\ imports < MaxImports /\ imports' = imports + 1
  /\ import' = IF DiscoverSessions = {} THEN None
               ELSE [todo |-> DiscoverSessions, records |-> [s \in Session |-> None]]
  /\ UNCHANGED <<files, torn, listed, kyoko, read>>

\* One half line, and nothing is imported.
ReadJsonl(s) ==
  /\ import # None /\ s \in import.todo
  /\ import' = IF s \in torn THEN None
               ELSE [import EXCEPT !.todo = @ \ {s}, !.records[s] = files[s]]
  /\ UNCHANGED <<files, torn, listed, kyoko, imports, read>>

AgentNames(records) ==
  {Main, User} \cup (UNION {UNION {{r.agent, r.from, r.to} : r \in {records[s][i] : i \in DOMAIN records[s]}} :
                              s \in {s \in Session : records[s] # None}} \ {None})

\* The name of a record: its id, or its number.
RecordSlug(r, i) == IF r.id # None THEN Named(Slug[r.id]) ELSE Numbered(i)
RecordId(r, i) == IF r.id # None THEN Named(r.id) ELSE Numbered(i)
SpanId(records, i) == RecordSlug(records[i], i)

RecordAgentName(r) == IF r.role = User THEN User ELSE IF r.agent # None THEN r.agent ELSE Main

IsTool(r) == r.kind \in {"tool_call", "tool_result"}
SpanKind(r) ==
  CASE IsTool(r) -> "tool"
    [] r.role = User -> "agent"
    [] r.role \in {"assistant", "system"} \/ r.kind \in {"assistant", "message"} -> "llm"
    [] r.kind \in {"handoff", "delegate", "spawn"} -> "handoff"
    [] OTHER -> "agent"

RecordFailed(r) == r.failed \/ r.kind = "error"

\* The last record before it of the id it names, else the root; a tool that
\* names none hangs on what came before.
Parent(records, i) ==
  LET r == records[i]
      named == {j \in 1..(i - 1) : r.parent # None /\ RecordId(records[j], j) = Named(r.parent)}
  IN  IF named # {} THEN SpanId(records, CHOOSE j \in named : \A k \in named : k <= j)
      ELSE IF r.parent = None /\ IsTool(r) /\ i > 1 THEN SpanId(records, i - 1) ELSE Root

SpanRow(records, i) ==
  [id |-> SpanId(records, i), parent |-> Parent(records, i), agent |-> RecordAgentName(records[i]),
   kind |-> SpanKind(records[i]), failed |-> RecordFailed(records[i])]

\* To whom: an agent that is known by name, for these kinds also the record's own.
HandoffTo(r) == IF r.to = None /\ r.kind \in {"delegate", "handoff", "spawn"} THEN r.agent ELSE r.to
HandoffRow(records, i) ==
  [span |-> SpanId(records, i), from |-> records[i].from, to |-> HandoffTo(records[i])]

Failed(records) == \E i \in DOMAIN records : RecordFailed(records[i])
Owner(records) == RecordAgentName(records[1])

\* Of records with the same slug the later replaces the earlier.
LastOf(records) == {i \in DOMAIN records : \A j \in DOMAIN records : SpanId(records, j) = SpanId(records, i) => j <= i}

Session_(names, records) ==
  [run |-> IF Failed(records) THEN "failed" ELSE "succeeded",
   task |-> IF Failed(records) THEN "blocked" ELSE "done", owner |-> Owner(records),
   spans |-> {SpanRow(records, i) : i \in LastOf(records)},
   handoffs |-> {HandoffRow(records, i) : i \in {i \in LastOf(records) :
                   {records[i].from, HandoffTo(records[i])} \subseteq names}}]

\* What is stored under other ids stays.
Merged(old, new) ==
  IF old = None THEN new
  ELSE [new EXCEPT !.spans = @ \cup {o \in old.spans : \A n \in new.spans : n.id # o.id},
                   !.handoffs = @ \cup {o \in old.handoffs : \A n \in new.handoffs : n.span # o.span}]

Ingest ==
  /\ import # None /\ import.todo = {}
  /\ LET got == {s \in Session : import.records[s] # None}
         names == AgentNames(import.records)
     IN  /\ kyoko' = [s \in Session |-> IF s \in got THEN Merged(kyoko[s], Session_(names, import.records[s])) ELSE kyoko[s]]
         /\ read' = [s \in Session |-> IF s \in got THEN import.records[s] ELSE read[s]]
  /\ import' = None
  /\ UNCHANGED <<files, torn, listed, imports>>

Next ==
  \/ \E s \in Session, record \in Record : Write(s, record)
  \/ \E s \in Session : Finish(s)
  \/ Begin \/ (\E s \in Session : ReadJsonl(s)) \/ Ingest

--------------------------------------------------------------------------------
(* Properties                                                                  *)

Distinct(records) ==
  \A i, j \in DOMAIN records : SpanId(records, i) = SpanId(records, j) => i = j

\* The records above one, in the tree that is stored.
Above(spans, ids) == {Root} \cup {s.parent : s \in {s \in spans : s.id \in ids}}
Reaches(spans, id) ==
  LET step[n \in 0..MaxRecords] == IF n = 0 THEN {id} ELSE Above(spans, step[n - 1])
  IN  step[MaxRecords] \subseteq {Root}

(* A session is told as it was written, however much of it was there at each   *)
(* import: one span for each record, a tree under the root in which a record   *)
(* hangs on the one it names if that came before, and a session has failed     *)
(* only if one of its records has.  A handoff is between agents of a record.   *)
SessionIsTold ==
  \A s \in Session : kyoko[s] # None /\ Distinct(read[s]) =>
    LET row == kyoko[s]  records == read[s]
    IN  /\ {span.id : span \in row.spans} = {SpanId(records, i) : i \in DOMAIN records}
        /\ \A span \in row.spans : Reaches(row.spans, span.id)
        /\ \A i \in DOMAIN records : \E span \in row.spans :
             /\ span.id = SpanId(records, i) /\ span.failed = RecordFailed(records[i])
             /\ \A j \in 1..(i - 1) : records[i].parent # None /\ RecordId(records[j], j) = Named(records[i].parent)
                                      => span.parent # Root
        /\ row.run = "failed" <=> \E span \in row.spans : span.failed
        /\ \A h \in row.handoffs : {h.from, h.to} \subseteq AgentNames([t \in Session |-> IF t = s THEN records ELSE None])
        /\ files[s] # None /\ SubSeq(files[s], 1, Len(records)) = records

(* The spans of a session form a tree, also if two ids differ in case only.    *)
SpansFormATree ==
  \A s \in Session : kyoko[s] # None => \A span \in kyoko[s].spans : Reaches(kyoko[s].spans, span.id)
================================================================================
