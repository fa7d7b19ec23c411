------------------------------ MODULE FileTools ------------------------------
(***************************************************************************)
(* The file tools (src/tools.go): view, present, str_replace, create and   *)
(* insert, called concurrently on one file of one session, while bash      *)
(* commands change the file as well.                                       *)
(*                                                                         *)
(* Each tool is a read of the file and, if it edits, a write of the whole  *)
(* file (src/proxy.go, ReadFile and WriteFile).  Nothing ties the two      *)
(* together: each goes through GetOrAssign on its own, so that even the    *)
(* container may be another one, restored from an older snapshot.          *)
(*                                                                         *)
(* A content is what strings.Split(content, "\n") makes of it: a non-empty *)
(* sequence of lines, whose last one is Blank if the content ends with a   *)
(* newline.  A line is named for the caller who sent it.  The executor is  *)
(* not part of the repository: it reads and writes whole files at once.    *)
(***************************************************************************)
EXTENDS Integers, SequencesExt

CONSTANTS
  Caller,    \* concurrent calls; also the lines that they send
  Old,       \* lines that were there before
  Blank,     \* the empty line
  None,      \* no file, no call, no answer
  Contents,  \* what a bash command or an older snapshot makes of the file
  RangeEnds, \* bound: the numbers used in view_range
  MaxLines,  \* bound: lines of a file
  Runes      \* [lines -> sequences of "is this rune a backtick?"]

Line == Caller \cup Old \cup {Blank}

ASSUME FileAssumption ==
  /\ MaxLines \in Nat /\ RangeEnds \subseteq Int
  /\ Contents \subseteq (Seq(Line) \ {<<>>}) \cup {None} /\ None \notin Seq(Line)
  /\ Runes \in [Line -> Seq(BOOLEAN)] /\ Runes[Blank] = <<>>

VARIABLES
  file,        \* the file, or None
  pc, call,    \* where each call is, and its arguments
  new,         \* the content an edit is about to write
  since,       \* history: lines acknowledged since an edit read the file
  acked,       \* history: the lines whose edit was acknowledged
  excused,     \* history: lines gone for a reason
  shown        \* the answer of the view or present that was just given

vars == <<file, pc, call, new, since, acked, excused, shown>>

ViewCall   == [tool : {"view", "present"}, range : (RangeEnds \X RangeEnds) \cup {None}]
InsertCall(x) == [tool : {"insert"}, line : -1 .. MaxLines + 1, text : {x, Blank}]
ReplaceCall(x) == [tool : {"str_replace"}, old : Line \ {Blank}, text : {x}]
CreateCall(x) == [tool : {"create"}, text : {x}]
EditCall(x) == InsertCall(x) \cup ReplaceCall(x) \cup CreateCall(x)

Init ==
  /\ file \in Contents
  /\ pc = [x \in Caller |-> "idle"] /\ call = [x \in Caller |-> None]
  /\ new = [x \in Caller |-> None] /\ since = [x \in Caller |-> {}]
  /\ acked = {} /\ excused = {} /\ shown = None

----------------------------------------------------------------------------
(* Reading: readFileLineRange and longestFence.                            *)

\* strings.Split(strings.TrimSuffix(content, "\n"), "\n")
Trimmed(content) ==
  IF Len(content) > 1 /\ Last(content) = Blank THEN Front(content) ELSE content

Window_Unclamped(range, lines) ==
  IF range = None THEN <<1, Len(lines)>>
  ELSE <<IF range[1] < 1 THEN 1 ELSE range[1], range[2]>>
\* [start, end], 1-indexed: the file's lines if view_range is omitted.
Window(range, lines) ==
  IF range = None THEN <<1, Len(lines)>>
  ELSE <<IF range[1] < 1 THEN 1 ELSE range[1],
         IF range[2] > Len(lines) THEN Len(lines) ELSE range[2]>>

\* strings.Join(lines[start-1:end], "\n"), rune by rune.
Body(lines, start, end) ==
  FlattenSeq([i \in 1 .. end - start + 1 |->
                (IF i > 1 THEN <<FALSE>> ELSE <<>>) \o Runes[lines[start + i - 1]]])

\* The loop's (longest, run) after one more rune.
NextRun(runs, tick) ==
  IF tick
  THEN <<IF runs[2] + 1 > runs[1] THEN runs[2] + 1 ELSE runs[1], runs[2] + 1>>
  ELSE <<runs[1], 0>>

\* The loop's states: before the first rune, after one, after two...
Runs(body) ==
  LET runs[i \in 0 .. Len(body)] ==
        IF i = 0 THEN <<0, 0>> ELSE NextRun(runs[i - 1], body[i])
  IN  runs

LongestFence_SameLength(body) ==
  LET longest == Runs(body)[Len(body)][1] IN IF longest < 3 THEN 3 ELSE longest
\* How many backticks make the fence.
LongestFence(body) ==
  LET n == Runs(body)[Len(body)][1] + 1 IN IF n < 3 THEN 3 ELSE n

----------------------------------------------------------------------------
(* Editing.                                                                *)

Occurrences(content, line) == {i \in DOMAIN content : content[i] = line}

\* strings.Count(content, oldStr) == 1
Unique(content, old) == \E i \in DOMAIN content : Occurrences(content, old) = {i}

Replaced_Cut(content, old, text) ==
  SelectSeq(content, LAMBDA line : line # old)
\* strings.Replace(content, oldStr, newStr, 1)
Replaced(content, old, text) ==
  LET first == CHOOSE i \in Occurrences(content, old) :
                 \A j \in Occurrences(content, old) : i <= j
  IN  [content EXCEPT ![first] = text]

Inserted_Before(content, n, text) ==
  SubSeq(content, 1, n - 1) \o <<text>> \o SubSeq(content, IF n = 0 THEN 1 ELSE n, Len(content))
Inserted_Over(content, n, text) ==
  SubSeq(content, 1, n) \o <<text>> \o SubSeq(content, n + 2, Len(content))
\* lines[:lineNum], text, lines[lineNum:]
Inserted(content, n, text) ==
  SubSeq(content, 1, n) \o <<text>> \o SubSeq(content, n + 1, Len(content))

\* May the edit c go ahead on what was read?
Accepts(c, content) ==
  \/ c.tool = "insert" /\ content # None /\ c.line \in 0 .. Len(content)
  \/ c.tool = "str_replace" /\ content # None /\ Unique(content, c.old)
  \/ c.tool = "create" /\ content = None

\* What it then writes.
Edited(c, content) ==
  CASE c.tool = "insert"      -> Inserted(content, c.line, c.text)
    [] c.tool = "str_replace" -> Replaced(content, c.old, c.text)
    [] c.tool = "create"      -> <<c.text>>

----------------------------------------------------------------------------
(* The calls.                                                              *)

\* What ReadFile returns: the file, or an error (no file, no container, or no
\* answer), here None.  FileExists takes every error for "no file".
ReadFile == {file, None}

\* view or present: one read.  An empty window is the error "invalid range".
View(x) ==
  /\ pc[x] = "idle"
  /\ \E c \in ViewCall, content \in ReadFile :
       shown' = IF content = None THEN None
                ELSE LET lines == Trimmed(content)
                         w     == Window(c.range, lines)
                     IN  [tool |-> c.tool, range |-> c.range,
                          lines |-> lines, start |-> w[1], end |-> w[2]]
  /\ UNCHANGED <<file, pc, call, new, since, acked, excused>>

\* The first half of an edit; a call that is not accepted returns an error and
\* has changed nothing.
Read(x) ==
  /\ pc[x] = "idle"
  /\ \E c \in EditCall(x), content \in ReadFile :
       /\ Accepts(c, content) /\ Len(Edited(c, content)) <= MaxLines
       /\ call' = [call EXCEPT ![x] = c]
       /\ new' = [new EXCEPT ![x] = Edited(c, content)]
  /\ pc' = [pc EXCEPT ![x] = "write"]
  /\ shown' = None
  /\ UNCHANGED <<file, since, acked, excused>>

\* The lines that a write of x may take away: those acknowledged since it read
\* the file, and the one it is asked to replace; all, if it could not read it.
Excuses(x) ==
  CASE call[x].tool = "insert"      -> since[x]
    [] call[x].tool = "str_replace" -> since[x] \cup ({call[x].old} \cap acked)
    [] call[x].tool = "create"      -> acked

\* /write is carried out, and then answered or not.  (WriteFile takes any JSON
\* for an answer and ReadFile any without an `error`, whatever the status: that
\* the executor's errors say `error` is assumed.)
Apply(x) == file' = new[x]

\* WriteFile: acknowledged; or an error, whatever became of the file.
Write(x) ==
  LET line == {call[x].text} \ {Blank} IN
  /\ pc[x] = "write"
  /\ pc' = [pc EXCEPT ![x] = "idle"]
  /\ call' = [call EXCEPT ![x] = None]
  /\ new' = [new EXCEPT ![x] = None]
  /\ shown' = None
  /\ \/ /\ Apply(x)
        /\ acked' = acked \cup line
        /\ excused' = (excused \cup Excuses(x)) \ line
        /\ since' = [y \in Caller |-> IF y # x /\ pc[y] = "write"
                                     THEN since[y] \cup line ELSE {}]
     \/ /\ \/ Apply(x) /\ excused' = excused \cup Excuses(x)
           \/ UNCHANGED <<file, excused>>
        /\ since' = [since EXCEPT ![x] = {}]
        /\ UNCHANGED acked

\* A bash command changes the file, or the session resumes in another
\* container with an older file.
Bash ==
  /\ file' \in Contents
  /\ excused' = excused \cup acked
  /\ shown' = None
  /\ UNCHANGED <<pc, call, new, since, acked>>

Next == Bash \/ \E x \in Caller : View(x) \/ Read(x) \/ Write(x)

Spec == Init /\ [][Next]_vars

----------------------------------------------------------------------------
(* Safety.                                                                 *)

Content == Seq(Line) \ {<<>>}

FTypeOK ==
  /\ file \in Content \cup {None}
  /\ pc \in [Caller -> {"idle", "write"}]
  /\ call \in [Caller -> (UNION {EditCall(x) : x \in Caller}) \cup {None}]
  /\ \A x \in Caller : call[x] \in EditCall(x) \cup {None}
  /\ new \in [Caller -> Content \cup {None}]
  /\ since \in [Caller -> SUBSET Caller]
  /\ acked \subseteq Caller /\ excused \subseteq acked

\* An acknowledged edit stays in the file until a bash command or a rollback
\* takes it, a str_replace names it, an edit that had read the file before it
\* writes back, or a create overwrites the file after a read that failed: a tool
\* takes away nothing else (handleStrReplace and handleInsert write the whole
\* file back).
EditSurvives ==
  \A line \in acked \ excused : file # None /\ line \in ToSet(file)

\* view and present show exactly the lines of the file that were asked for, and
\* refuse the range only when there are none (readFileLineRange; an end beyond
\* the file would be an index out of range in handleView).
ViewShowsWhatExists ==
  shown # None =>
    LET all   == 1 .. Len(shown.lines)
        asked == IF shown.range = None THEN all ELSE (shown.range[1] .. shown.range[2]) \cap all
    IN  shown.start .. shown.end = asked

\* No run of backticks in what present shows is as long as its fence, so that
\* the block does not end early ("won't break out", longestFence).
FenceHolds ==
  shown # None /\ shown.tool = "present" =>
    LET body == Body(shown.lines, shown.start, shown.end)
        n    == LongestFence(body)
    IN  \A i \in 1 .. Len(body) - n + 1 : \E j \in i .. i + n - 1 : ~body[j]

\* Line numbers mean the same to view and to insert, although they count the
\* line after the last newline differently: text inserted after line n of the
\* file as view numbers it is line n + 1 of the view, and the others only move.
\* (But for the empty file, which view shows as one line.)
InsertFollowsView ==
  [][\A x \in Caller :
       pc[x] = "idle" /\ pc'[x] = "write" /\ call'[x].tool = "insert"
         /\ call'[x].text # Blank /\ file # <<Blank>> /\ call'[x].line <= Len(Trimmed(file))
       => LET n == call'[x].line  view == Trimmed(file)  after == Trimmed(new'[x])
          IN  after[n + 1] = call'[x].text /\ RemoveAt(after, n + 1) = view]_vars

=============================================================================
