------------------------------ MODULE UnifiedDiff ------------------------------
(* A diff of one file, read and applied to the file's lines (kyoko/harness.py,  *)
(* _parse_unified_diff_hunk and _apply_unified_diff_hunks).  The author writes  *)
(* it hunk by hunk, from the file as it is or as it was.                        *)
EXTENDS Naturals, Sequences, SequencesExt, FiniteSetsExt

CONSTANTS
  Text, Dashed,  \* lines, and those that begin with "-- "
  MaxFile, MaxStart, MaxBody, MaxHunks,
  Refused        \* the result of a diff that is not applied

Tags == {" ", "+", "-"}
Line == [tag : Tags, text : Text]
Sequences(S, n) == UNION {[1..k -> S] : k \in 0..n}

VARIABLES file, hunks

\* The sides of a body, and what the header says of them.
Texts(body, tags) ==
  LET kept == SelectSeq(body, LAMBDA line : line.tag \in tags)
  IN [i \in DOMAIN kept |-> kept[i].text]
Old(body) == Texts(body, {" ", "-"})
New(body) == Texts(body, {" ", "+"})
Truthful(hunk) == hunk.old = Len(Old(hunk.body)) /\ hunk.new = Len(New(hunk.body))

\* A header may count one old line too many.
Hunk == {[start |-> start, old |-> Len(Old(body)) + extra, new |-> Len(New(body)), body |-> body] :
         start \in 0..MaxStart, extra \in {0, 1}, body \in Sequences(Line, MaxBody)}

Init == file \in Sequences(Text, MaxFile) /\ hunks = <<>>

--------------------------------------------------------------------------------
(* Reading                                                                     *)

\* A deleted line that begins with "-- " is printed as "--- ", which ends the hunk.
EndsHunk(line) == line.tag = "-" /\ line.text \in Dashed

\* Variant: the counts of the header are not compared.
ParsedUncounted(hunk) ==
  LET ends == {i \in DOMAIN hunk.body : EndsHunk(hunk.body[i])}
      body == IF ends = {} THEN hunk.body ELSE SubSeq(hunk.body, 1, Min(ends) - 1)
  IN [start |-> hunk.start, body |-> body, ok |-> TRUE]

Parsed(hunk) ==
  LET ends == {i \in DOMAIN hunk.body : EndsHunk(hunk.body[i])}
      body == IF ends = {} THEN hunk.body ELSE SubSeq(hunk.body, 1, Min(ends) - 1)
  IN [start |-> hunk.start, body |-> body,
      ok |-> Len(Old(body)) = hunk.old /\ Len(New(body)) = hunk.new]

--------------------------------------------------------------------------------
(* Applying: what is written so far, the lines of the file behind it, and      *)
(* whether everything was found where the diff says                            *)

At(start) == IF start = 0 THEN 0 ELSE start - 1

ApplyLine(done, line) ==
  LET found == done.next < Len(file) /\ file[done.next + 1] = line.text
  IN IF line.tag = "+" THEN [done EXCEPT !.output = Append(@, line.text)]
     ELSE [output |-> IF line.tag = " " THEN Append(done.output, line.text) ELSE done.output,
           next |-> done.next + 1, ok |-> done.ok /\ found]

\* Python's slice of the file ends where the file does.
Slice(from, to) == SubSeq(file, from + 1, Min({to, Len(file)}))

ApplyHunk(done, hunk) ==
  LET here == At(hunk.start)
      moved == [output |-> done.output \o Slice(done.next, here), next |-> here,
                ok |-> done.ok /\ here >= done.next /\ Parsed(hunk).ok]
  IN IF moved.ok THEN FoldLeft(ApplyLine, moved, Parsed(hunk).body) ELSE moved

Applied ==
  LET done == FoldLeft(ApplyHunk, [output |-> <<>>, next |-> 0, ok |-> TRUE], hunks)
  IN IF done.ok THEN done.output \o Slice(done.next, Len(file)) ELSE Refused

--------------------------------------------------------------------------------
\* Bound: a wrong count is in the last hunk, as the diff is refused in any case.
WriteHunk ==
  /\ Len(hunks) < MaxHunks /\ \A i \in DOMAIN hunks : Truthful(hunks[i])
  /\ \E hunk \in Hunk : hunks' = Append(hunks, hunk)
  /\ UNCHANGED file

Next == WriteHunk

--------------------------------------------------------------------------------
(* Properties.  What a diff means: the old side of each hunk is what the file   *)
(* has at its start, hunks follow each other, and the result is the file with   *)
(* the new sides in place of the old ones.  A hunk without an old side stands   *)
(* after the line it names.  (A start of 0 of any other hunk is read as 1.)     *)

FirstLine(hunk) == IF hunk.old = 0 THEN hunk.start + 1 ELSE Max({hunk.start, 1})
LastLine(hunk) == FirstLine(hunk) + hunk.old - 1

Fits ==
  /\ \A i \in DOMAIN hunks :
       /\ Truthful(hunks[i]) /\ FirstLine(hunks[i]) \in 1..Len(file) + 1 /\ LastLine(hunks[i]) <= Len(file)
       /\ SubSeq(file, FirstLine(hunks[i]), LastLine(hunks[i])) = Old(hunks[i].body)
  /\ \A i, j \in DOMAIN hunks : i < j => LastLine(hunks[i]) < FirstLine(hunks[j])

Meant ==
  LET After(i) == IF i = Len(hunks) THEN Len(file) ELSE FirstLine(hunks[i + 1]) - 1
      pieces == [i \in 1..Len(hunks) |-> New(hunks[i].body) \o SubSeq(file, LastLine(hunks[i]) + 1, After(i))]
  IN SubSeq(file, 1, IF hunks = <<>> THEN Len(file) ELSE FirstLine(hunks[1]) - 1) \o FlattenSeq(pieces)

Replaces == \A i \in DOMAIN hunks : hunks[i].old > 0 \/ hunks[i].start = 0
Readable == \A i \in DOMAIN hunks : \A k \in DOMAIN hunks[i].body : ~ EndsHunk(hunks[i].body[k])

\* A diff whose hunks all have an old side, or stand before the file, is applied as it is meant or refused: one
\* that does not fit the file as it is now is always refused, one that fits and can be
\* read never, and no mistaken header, overlap or misread line yields another file.
DiffIsAppliedAsMeant ==
  Replaces =>
    /\ Applied # Refused => Fits /\ Applied = Meant
    /\ (Fits /\ Readable) => Applied # Refused

\* The same of a hunk that only adds lines: it is inserted one line early.
InsertionsToo == Fits => Applied \in {Meant, Refused}
================================================================================
