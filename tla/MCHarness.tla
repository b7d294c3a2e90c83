------------------------------- MODULE MCHarness -------------------------------
(* Two callers and a proposal of two patches: two generated files, then a      *)
(* strict diff of one of them.  Apart from them: what a diff of a short file   *)
(* may say, and two operators whose smokes leave evidence for doctor.  part    *)
(* says which one a behaviour is about.                                        *)
EXTENDS Harness, TLC

CONSTANTS p1, t1, t2, c1, c2, a, b
CONSTANTS Text, Dashed, MaxFile, MaxStart, MaxBody, MaxHunks, Refused
CONSTANTS Operator, LiveDir, FailureDir, Result, MaxSmokes

MCSafe == {"demo_smoke", "operator_smoke_prepare", "judge_smoke_prepare", "ace_native_prepare",
           "integration_smoke", "improve_smoke", "mcp_install_smoke"}
MCAsked == {{}, {"safe_smokes"}, MCSafe \cup {"eval_smoke", "llm_eval_smoke", "dashboard_smoke"}}

MCPlan == p1 :> <<t1, t2>>
MCFile(path, content, expected) ==
  [path |-> path, content |-> content, expected |-> expected]
MCFiles == (t1 :> <<MCFile(a, "new", AnyContent), MCFile(b, "new", AnyContent)>>)
           @@ (t2 :> <<MCFile(b, "newer", "new")>>)

\* A proposal of one patch of two files.
MCOnePlan  == p1 :> <<t1>>
MCOneFiles == t1 :> MCFiles[t1]

MCTrees == {(a :> Absent) @@ (b :> "old")}

VARIABLES part, original, hunks
VARIABLES installed, rows, matrix, judge, judging, source, smokes, captured, judged, report
diff == <<original, hunks>>
diagnostics == <<installed, rows, matrix, judge, judging, source, smokes, captured, judged, report>>
D == INSTANCE UnifiedDiff WITH file <- original
E == INSTANCE Doctor WITH Asked <- MCAsked

MCInit ==
  /\ part \in {"patches", "diff", "doctor"}
  /\ Init
  /\ IF part = "diff" THEN D!Init ELSE original = <<>> /\ hunks = <<>>
  /\ IF part = "doctor" THEN E!DoctorInit
     ELSE installed = None /\ rows = None /\ matrix = None /\ judge = None /\ judging = None
          /\ source = None /\ smokes = None /\ captured = None /\ judged = None /\ report = None

MCNext ==
  /\ UNCHANGED part
  /\ \/ part = "patches" /\ Next /\ UNCHANGED <<diff, diagnostics>>
     \/ part = "diff" /\ D!Next /\ UNCHANGED <<vars, diagnostics>>
     \/ part = "diff" /\ UNCHANGED <<vars, diff, diagnostics>>   \* the author may stop
     \/ part = "doctor" /\ E!DoctorNext /\ UNCHANGED <<vars, diff>>

MCSpec == MCInit /\ [][MCNext]_<<vars, part, diff, diagnostics>>

(* The properties of UnifiedDiff and of Doctor, of their parts.                *)
DiffIsAppliedAsMeant == D!DiffIsAppliedAsMeant
EvidenceIsEarned == part = "doctor" => E!EvidenceIsEarned

Alike == Permutations({c1, c2}) \cup Permutations(FailureDir)
================================================================================
