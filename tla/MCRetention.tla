------------------------------ MODULE MCRetention ------------------------------
(* What comes into the store, what is asked of it and what goes.  part says    *)
(* which one a behaviour is about; they share nothing but the database.        *)
(*   rows: two runs with a span each, an attempt, a replay, a check run and a  *)
(*     handoff;                                                                *)
(*   hermes: a board of two tasks;  openclaw: a session of up to three records;*)
(*   wire: an OTLP export, cut off or with fields unknown here;                *)
(*   spans: the attributes of a span;  mcp: two servers, a line for each;      *)
(*   setup: two callers, two replay adapters, and homes with boards and        *)
(*     sessions of which some are linked, named alike, empty or missing.       *)
EXTENDS Retention, Integers, TLC

CONSTANTS r1, r2, s1, s2, a1, p1, c1, h1
MCRun == {r1, r2}
MCSpan == {s1, s2}
MCRunOf == (s1 :> r1) @@ (s2 :> r2)
MCReplayOf == c1 :> p1
MCGraphs == {[parent |-> (s1 :> None) @@ (s2 :> up), attempt |-> att, run |-> a1 :> r,
              source |-> p1 :> q, tried |-> p1 :> a,
              at |-> h1 :> s, from |-> h1 :> (IF s = None THEN "task" ELSE None)] :
             up \in {None, s1}, att \in [MCRun -> {None, a1}], r \in MCRun \cup {None},
             q \in {None, r1}, a \in {None, a1}, s \in {None, s2}}
MCEarlier == [q \in MCRun \X MCRun |-> q = <<r1, r2>>]


CONSTANTS Board, BoardTask, Agent, Outcome, MaxRows, MaxImports
CONSTANTS Session, Id, MaxRecords, Base, MaxBytes, Fixed, Limit, Server, Failure, MaxLines, MaxFaults

\* Ids that differ by their case alone have one slug.
MCSlug == [i \in Id |-> IF i = "b" THEN "b" ELSE "a"]
MCRecordOf(id, parent, kind, role, agent, from, to, failed) ==
  [id |-> id, parent |-> parent, kind |-> kind, role |-> role, agent |-> agent,
   from |-> from, to |-> to, failed |-> failed]
MCRecord == {MCRecordOf("a", None, "message", "user", None, None, None, FALSE),
             MCRecordOf("A", "a", "message", "assistant", "ann", None, None, FALSE),
             MCRecordOf("a", "b", "tool_call", None, None, None, None, TRUE),
             MCRecordOf("b", None, "tool_result", None, "ann", None, None, FALSE),
             MCRecordOf("b", "a", "delegate", "assistant", "ann", "main", None, FALSE),
             MCRecordOf(None, None, "error", None, None, "ann", "bob", FALSE)}

MCKeyValue(k, v) == [key |-> <<k>>, value |-> v]
MCValues == {<<"stringValue", <<7>>>>, <<"boolValue", TRUE>>, <<"intValue", -3>>, <<"intValue", 100>>,
             <<"doubleValue", 40>>, <<"bytesValue", <<31, 0>>>>,
             <<"arrayValue", [values |-> <<<<"intValue", -128>>, <<"stringValue", <<>>>>>>]>>,
             <<"kvlistValue", [values |-> <<MCKeyValue(3, <<"boolValue", FALSE>>)>>]>>}
MCSpanOf(v, code, start) ==
  [traceId |-> <<1>>, spanId |-> <<2>>, parentSpanId |-> <<>>, name |-> <<>>, kind |-> 3,
   startTimeUnixNano |-> start, endTimeUnixNano |-> 0, attributes |-> <<MCKeyValue(1, v)>>,
   status |-> [message |-> <<>>, code |-> code]]
MCResource(v, w, code, start) ==
  [resource |-> [attributes |-> <<MCKeyValue(1, w), MCKeyValue(2, w)>>],
   scopeSpans |-> <<[scope |-> [name |-> <<5>>, version |-> <<>>, attributes |-> <<>>],
                     spans |-> <<MCSpanOf(v, code, start)>>]>>]
MCPayload ==
  {[resourceSpans |-> <<MCResource(v, w, 2, 1000)>>] : v, w \in MCValues}
  \cup {[resourceSpans |-> <<MCResource(v, v, c, 31), [resource |-> [attributes |-> <<>>], scopeSpans |-> <<>>]>>] :
          v \in MCValues, c \in {0, 2}}
MCUnknown == {<<8 * 1 + 0, 5>>, <<18, 7, 1, 9>>, <<25, 1, 0, 0>>}


MCMessage(kind, id, valid, named) ==
  [kind |-> kind, id |-> id, failure |-> "f", valid |-> valid, named |-> named,
   cause |-> kind = "propose"]
MCPropose(valid, named) == MCMessage("propose", TRUE, valid, named)
MCIssue(valid) == MCMessage("issue", TRUE, valid, FALSE)
MCOther(kind, id) == MCMessage(kind, id, FALSE, FALSE)
MCLine(messages, batch) == [messages |-> messages, batch |-> batch]
MCLines ==
  {None, MCLine(<<>>, TRUE), MCLine(<<MCPropose(TRUE, FALSE)>>, FALSE), MCLine(<<MCPropose(TRUE, TRUE)>>, FALSE),
   MCLine(<<MCPropose(FALSE, FALSE), MCOther("scalar", FALSE)>>, TRUE),
   MCLine(<<MCIssue(TRUE)>>, FALSE), MCLine(<<MCIssue(FALSE)>>, FALSE),
   MCLine(<<MCOther("initialize", TRUE), MCOther("initialized", FALSE), MCOther("notool", FALSE),
            MCOther("raises", TRUE)>>, TRUE)}

CONSTANTS Caller, Profile, Installed, Adapter, Url, Dir, MaxEdits, MaxCalls, MaxRegistrations
MCPresets == <<"codex", "claude">>
MCPlace(id, real, status) ==
  [id |-> id, real |-> real, kind |-> IF real < 5 THEN "hermes" ELSE "openclaw", status |-> status]
MCHomes ==
  LET board == MCPlace("default", 1, "ready")   own == MCPlace("one", 2, "ready")
      alike == MCPlace("one", 3, "ready")       linked == MCPlace("two", 1, "ready")
      main == MCPlace("main", 5, "ready")       legacy == MCPlace("main", 6, "empty")
      gone == MCPlace("old", 7, "missing") IN
  {[hermes |-> h, openclaw |-> o] : h \in {<<>>, <<board, own, linked>>, <<board, own, alike>>},
                                    o \in {<<>>, <<main, gone>>, <<main, legacy>>}}

VARIABLES part
VARIABLES board, seen, began, last, kyoko, imports   \* of both importers: kyoko, imports
VARIABLES files, torn, inSessions, import, read
VARIABLES sent, wire, got, attrs, view
VARIABLES server, said, log, heard, issues, submitted, faults
VARIABLES topic, script, config, operators, profiles, call, wanted, raced, edits, calls
VARIABLES home, found, asked, outcome, adapter, port, state, op, answered, used, moved, registrations
hermes == <<board, seen, began, last>>
openclaw == <<files, torn, inSessions, import, read>>
imported == <<kyoko, imports>>
otlp == <<sent, wire, got>>
shown == <<attrs, view>>
mcp == <<server, said, log, heard, issues, submitted, faults>>
setup == <<topic, script, config, operators, profiles, call, wanted, raced, edits, calls,
           home, found, asked, outcome, adapter, port, state, op, answered, used, moved, registrations>>

H == INSTANCE HermesImport WITH Task <- BoardTask
O == INSTANCE OpenClawImport WITH listed <- inSessions, Slug <- MCSlug, Record <- MCRecord
W == INSTANCE Wire WITH Payload <- MCPayload, Unknown <- MCUnknown
V == INSTANCE SpanView
M == INSTANCE Mcp WITH Lines <- MCLines
S == INSTANCE Setup WITH OPERATOR_PRESETS <- MCPresets, Homes <- MCHomes,
       file <- script, listed <- found, imported <- outcome, row <- adapter

MCInit ==
  /\ part \in {"rows", "hermes", "openclaw", "wire", "spans", "mcp", "setup"}
  /\ IF part = "rows" THEN Init
     ELSE /\ rows = [t \in DOMAIN [run |-> 0, span |-> 0, attempt |-> 0, task |-> 0, handoff |-> 0,
                                    replay |-> 0, check |-> 0] |-> {}]
          /\ links = CHOOSE g \in Graphs : TRUE
          /\ cited = {} /\ sources = {} /\ prune = Idle
  /\ CASE part = "hermes" -> H!Init
       [] part = "openclaw" -> O!Init
       [] OTHER -> kyoko = None /\ imports = None
  /\ part # "hermes" => board = None /\ seen = None /\ began = None /\ last = None
  /\ part # "openclaw" => files = None /\ torn = None /\ inSessions = None /\ import = None /\ read = None
  /\ IF part = "wire" THEN W!Init ELSE sent = None /\ wire = None /\ got = None
  /\ IF part = "spans" THEN V!Init ELSE attrs = None /\ view = None
  /\ IF part = "mcp" THEN M!McpInit
     ELSE server = None /\ said = None /\ log = None /\ heard = None /\ issues = None
          /\ submitted = None /\ faults = None
  /\ IF part = "setup" THEN S!SetupInit
     ELSE /\ topic = None /\ script = None /\ config = None /\ operators = None /\ profiles = None /\ call = None
          /\ wanted = None /\ raced = None /\ edits = None /\ calls = None
          /\ home = None /\ found = None /\ asked = None /\ outcome = None
          /\ adapter = None /\ port = None /\ state = None /\ op = None /\ answered = None /\ used = None
          /\ moved = None /\ registrations = None

MCNext ==
  /\ UNCHANGED part
  /\ \/ part = "rows" /\ Next
        /\ UNCHANGED <<hermes, openclaw, imported, otlp, shown, mcp, setup>>
     \/ part = "hermes" /\ H!Next
        /\ UNCHANGED <<vars, openclaw, otlp, shown, mcp, setup>>
     \/ part = "openclaw" /\ O!Next
        /\ UNCHANGED <<vars, hermes, otlp, shown, mcp, setup>>
     \/ part = "wire" /\ W!Next
        /\ UNCHANGED <<vars, hermes, openclaw, imported, shown, mcp, setup>>
     \/ part = "spans" /\ V!Next
        /\ UNCHANGED <<vars, hermes, openclaw, imported, otlp, mcp, setup>>
     \/ part = "mcp" /\ M!McpNext
        /\ UNCHANGED <<vars, hermes, openclaw, imported, otlp, shown, setup>>
     \/ part = "setup" /\ S!SetupNext
        /\ UNCHANGED <<vars, hermes, openclaw, imported, otlp, shown, mcp>>

MCSpec == MCInit /\ [][MCNext]_<<vars, part, hermes, openclaw, imported, otlp, shown, mcp, setup>>

(* What HermesImport, OpenClawImport, Wire, SpanView and Setup say of what     *)
(* comes in, each of its part: the work of others is stored as they did it,    *)
(* the spans of an export are read and shown as they were sent, and what the   *)
(* project is set up with is there, is what was asked for, and is kept apart.  *)
ImportsAreWhole ==
  /\ (part = "hermes" => H!BoardIsMirrored) /\ (part = "openclaw" => O!SessionIsTold)
  /\ (part = "wire" => W!WireIsRead) /\ (part = "spans" => V!SpanIsShown)
  /\ (part = "setup" => S!SetupIsWhole)

(* The properties of Mcp, of its part.                                         *)
AgentsAreAccountedFor == part = "mcp" => M!ConversationIsLogged /\ M!ProposalsHaveOrigins
================================================================================
