----------------------------- MODULE FileProofs -----------------------------
(***************************************************************************)
(* The tools of FileTools lose no acknowledged edit but for the reasons    *)
(* named there (EditSurvives), view shows what was asked for               *)
(* (ViewShowsWhatExists), insert counts lines as it does                   *)
(* (InsertFollowsView), and the fence of present holds (FenceHolds), for   *)
(* files, calls and lines of any number.                                   *)
(***************************************************************************)
EXTENDS FileTools, SequenceTheorems, WellFoundedInduction, TLAPS

\* What an edit makes of the content it was given.
LEMMA InsertedIs ==
  ASSUME NEW content \in Seq(Line), NEW n \in 0 .. Len(content), NEW text \in Line
  PROVE  /\ Inserted(content, n, text) \in Seq(Line)
         /\ Len(Inserted(content, n, text)) = Len(content) + 1
         /\ \A i \in 1 .. Len(content) + 1 :
              Inserted(content, n, text)[i] = IF i <= n THEN content[i]
                                              ELSE IF i = n + 1 THEN text ELSE content[i - 1]
<1> DEFINE before == SubSeq(content, 1, n)
           after  == SubSeq(content, n + 1, Len(content))
           upTo   == before \o <<text>>
<1>0. Len(content) \in Nat /\ n \in Nat /\ \A i \in 1 .. Len(content) : content[i] \in Line
  BY LenProperties, ElementOfSeq
<1>1. before \in Seq(Line) /\ Len(before) = n /\ \A i \in 1 .. n : before[i] = content[i]
  <2>1. \A i \in 1 .. n : content[i] \in Line
    BY <1>0
  <2> QED BY <2>1, <1>0, SubSeqProperties
<1>2. /\ after \in Seq(Line) /\ Len(after) = Len(content) - n
      /\ \A i \in 1 .. Len(content) - n : after[i] = content[n + i]
  <2>1. \A i \in n + 1 .. Len(content) : content[i] \in Line
    BY <1>0
  <2>2. /\ after \in Seq(Line)
        /\ Len(after) = IF n + 1 <= Len(content) THEN Len(content) - (n + 1) + 1 ELSE 0
        /\ \A i \in 1 .. Len(content) - (n + 1) + 1 : after[i] = content[n + 1 + i - 1]
    BY <2>1, <1>0, SubSeqProperties
  <2>3. \A i \in 1 .. Len(content) - n : n + 1 + i - 1 = n + i
    BY <1>0
  <2> QED BY <2>2, <2>3, <1>0
<1>3. <<text>> \in Seq(Line) /\ Len(<<text>>) = 1 /\ <<text>>[1] = text
  OBVIOUS
<1>4. /\ upTo \in Seq(Line) /\ Len(upTo) = n + 1
      /\ \A i \in 1 .. n + 1 : upTo[i] = IF i <= n THEN content[i] ELSE text
  <2> HIDE DEF before
  <2>1. /\ upTo \in Seq(Line) /\ Len(upTo) = Len(before) + Len(<<text>>)
        /\ \A i \in 1 .. Len(before) + Len(<<text>>) :
             upTo[i] = IF i <= Len(before) THEN before[i] ELSE <<text>>[i - Len(before)]
    BY <1>1, <1>3, ConcatProperties
  <2>2. \A i \in 1 .. n + 1 : i <= n => i \in 1 .. n
    BY <1>0
  <2>3. \A i \in 1 .. n + 1 : ~(i <= n) => i - n = 1
    BY <1>0
  <2> QED BY <2>1, <2>2, <2>3, <1>1, <1>3
<1>5. Inserted(content, n, text) = upTo \o after
  BY DEF Inserted
<1> HIDE DEF upTo, after
<1>6. /\ upTo \o after \in Seq(Line) /\ Len(upTo \o after) = Len(upTo) + Len(after)
      /\ \A i \in 1 .. Len(upTo) + Len(after) :
           (upTo \o after)[i] = IF i <= Len(upTo) THEN upTo[i] ELSE after[i - Len(upTo)]
  BY <1>2, <1>4, ConcatProperties
<1>7. ASSUME NEW i \in 1 .. Len(content) + 1
      PROVE  (upTo \o after)[i] = IF i <= n THEN content[i]
                                  ELSE IF i = n + 1 THEN text ELSE content[i - 1]
  <2>0. i \in Int /\ n \in Int /\ (i <= n + 1 \/ i > n + 1)
    BY <1>0
  <2>1. CASE i <= n + 1
    BY <2>1, <1>0, <1>2, <1>4, <1>6
  <2>2. CASE i > n + 1
    <3>1. i - (n + 1) \in 1 .. Len(content) - n /\ n + (i - (n + 1)) = i - 1
      BY <2>2, <1>0
    <3>2. (upTo \o after)[i] = after[i - (n + 1)]
      BY <2>2, <1>0, <1>2, <1>4, <1>6
    <3>3. after[i - (n + 1)] = content[i - 1]
      BY <3>1, <1>2
    <3>4. ~(i <= n) /\ i # n + 1
      BY <2>2, <2>0
    <3> QED BY <3>2, <3>3, <3>4, Zenon
  <2> QED BY <2>0, <2>1, <2>2, Zenon
<1> QED BY <1>0, <1>2, <1>4, <1>5, <1>6, <1>7

LEMMA ContentIs ==
  ASSUME NEW content \in Content
  PROVE  /\ content \in Seq(Line) /\ Len(content) \in Nat
         /\ Len(content) >= 1 /\ (Len(content) = 1 \/ Len(content) > 1)
         /\ DOMAIN content = 1 .. Len(content)
         /\ \A i \in 1 .. Len(content) : content[i] \in Line
<1>1. content \in Seq(Line) /\ content # <<>>
  BY DEF Content
<1>2. Len(content) \in Nat \ {0}
  BY <1>1, EmptySeq
<1>3. \A n \in Nat \ {0} : n \in Nat /\ n >= 1 /\ (n = 1 \/ n > 1)
  OBVIOUS
<1>4. DOMAIN content = 1 .. Len(content) /\ \A i \in 1 .. Len(content) : content[i] \in Line
  BY <1>1, LenProperties, ElementOfSeq
<1> QED BY <1>1, <1>2, <1>3, <1>4, Zenon

LEMMA InsertedKeeps ==
  ASSUME NEW content \in Content, NEW n \in 0 .. Len(content), NEW text \in Line
  PROVE  /\ Inserted(content, n, text) \in Content
         /\ text \in ToSet(Inserted(content, n, text))
         /\ ToSet(content) \subseteq ToSet(Inserted(content, n, text))
<1> DEFINE edited == Inserted(content, n, text)
<1>1. /\ edited \in Seq(Line) /\ Len(edited) = Len(content) + 1
      /\ \A i \in 1 .. Len(content) + 1 :
           edited[i] = IF i <= n THEN content[i] ELSE IF i = n + 1 THEN text ELSE content[i - 1]
  BY InsertedIs, ContentIs
<1> HIDE DEF edited
<1>2. Len(content) \in Nat /\ n \in Nat /\ DOMAIN content = 1 .. Len(content)
  BY ContentIs
<1>3. DOMAIN edited = 1 .. Len(content) + 1
  BY <1>1, LenProperties
<1>4. edited \in Content
  BY <1>1, <1>2, EmptySeq DEF Content
<1>5. text \in ToSet(edited)
  <2>1. n + 1 \in DOMAIN edited /\ edited[n + 1] = text
    BY <1>1, <1>2, <1>3
  <2> QED BY <2>1 DEF ToSet
<1>6. ASSUME NEW i \in DOMAIN content PROVE content[i] \in ToSet(edited)
  <2>1. CASE i <= n
    <3>1. i \in DOMAIN edited /\ edited[i] = content[i]
      BY <2>1, <1>1, <1>2, <1>3
    <3> QED BY <3>1 DEF ToSet
  <2>2. CASE i > n
    <3>1. i + 1 \in DOMAIN edited /\ edited[i + 1] = content[i]
      BY <2>2, <1>1, <1>2, <1>3
    <3> QED BY <3>1 DEF ToSet
  <2> QED BY <2>1, <2>2, <1>2
<1> QED BY <1>4, <1>5, <1>6 DEF ToSet, edited

LEMMA ReplacedIs ==
  ASSUME NEW content \in Content, NEW old, NEW text \in Line, Unique(content, old)
  PROVE  /\ Replaced(content, old, text) \in Content
         /\ text \in ToSet(Replaced(content, old, text))
         /\ ToSet(content) \subseteq ToSet(Replaced(content, old, text)) \cup {old}
<1>0. Len(content) \in Nat /\ Len(content) >= 1 /\ DOMAIN content = 1 .. Len(content)
  BY ContentIs
<1>1. PICK i \in DOMAIN content : Occurrences(content, old) = {i}
  BY DEF Unique
<1>2. (CHOOSE j \in Occurrences(content, old) :
         \A k \in Occurrences(content, old) : j <= k) = i
  BY <1>0, <1>1
<1> DEFINE edited == [content EXCEPT ![i] = text]
<1>3. Replaced(content, old, text) = edited
  BY <1>2 DEF Replaced
<1>4. edited \in Seq(Line) /\ Len(edited) = Len(content)
  BY <1>0, <1>1, ContentIs, ExceptSeq
<1>5. edited \in Content
  BY <1>0, <1>4, EmptySeq DEF Content
<1>6. /\ DOMAIN edited = DOMAIN content /\ edited[i] = text
      /\ \A j \in DOMAIN content : j # i => edited[j] = content[j] /\ content[j] # old
  BY <1>1 DEF Occurrences
<1>7. \A j \in DOMAIN content : content[j] # old => j # i
  BY <1>1 DEF Occurrences
<1> HIDE DEF edited
<1> QED BY <1>1, <1>3, <1>5, <1>6, <1>7 DEF ToSet

----------------------------------------------------------------------------
(* EditSurvives is not inductive: what an edit holds and is about to write
   must have the lines too, but for those it is excused for.               *)

PendingInv ==
  \A x \in Caller :
    /\ since[x] \subseteq acked
    /\ pc[x] = "write" =>
         /\ call[x] \in EditCall(x) /\ new[x] \in Content
         /\ call[x].text \in ToSet(new[x])
         /\ acked \ excused \subseteq ToSet(new[x]) \cup Excuses(x)

EditInv == FTypeOK /\ PendingInv /\ EditSurvives

LEMMA CallIs ==
  ASSUME NEW x \in Caller, NEW c \in EditCall(x)
  PROVE  /\ c.tool \in {"insert", "str_replace", "create"} /\ c.text \in {x, Blank}
         /\ c.text \in Line
         /\ c.tool = "insert" => c.line \in Int
BY FileAssumption DEF EditCall, InsertCall, ReplaceCall, CreateCall, Line

LEMMA EditedIs ==
  ASSUME NEW x \in Caller, NEW c \in EditCall(x), NEW content, Accepts(c, content),
         content = None \/ content \in Content
  PROVE  /\ Edited(c, content) \in Content /\ c.text \in ToSet(Edited(c, content))
         /\ c.tool = "insert" => ToSet(content) \subseteq ToSet(Edited(c, content))
         /\ c.tool = "str_replace" => ToSet(content) \subseteq ToSet(Edited(c, content)) \cup {c.old}
         /\ c.tool # "create" => content \in Content
         /\ c.tool = "create" => content = None
<1>1. c.text \in Line
  BY CallIs
<1>2. CASE c.tool = "insert"
  <2>1. content \in Content /\ c.line \in 0 .. Len(content)
    BY <1>2 DEF Accepts
  <2>2. Edited(c, content) = Inserted(content, c.line, c.text)
    BY <1>2 DEF Edited
  <2> QED BY <1>1, <1>2, <2>1, <2>2, InsertedKeeps
<1>3. CASE c.tool = "str_replace"
  <2>1. content \in Content /\ Unique(content, c.old)
    BY <1>3 DEF Accepts
  <2>2. Edited(c, content) = Replaced(content, c.old, c.text)
    BY <1>3 DEF Edited
  <2> QED BY <1>1, <1>3, <2>1, <2>2, ReplacedIs
<1>4. CASE c.tool = "create"
  <2>1. content = None
    BY <1>4 DEF Accepts
  <2>2. Edited(c, content) = <<c.text>>
    BY <1>4 DEF Edited
  <2>3. <<c.text>> \in Content /\ DOMAIN <<c.text>> = {1} /\ <<c.text>>[1] = c.text
    BY <1>1 DEF Content
  <2> QED BY <1>4, <2>1, <2>2, <2>3 DEF ToSet
<1> QED BY <1>2, <1>3, <1>4, CallIs

LEMMA NoneIs == None \notin Content
BY FileAssumption DEF Content

LEMMA InitEdit == Init => EditInv
<1> SUFFICES ASSUME Init PROVE EditInv
  OBVIOUS
<1>1. FTypeOK
  <2>1. file \in Content \cup {None}
    BY FileAssumption DEF Init, Content
  <2>2. call \in [Caller -> (UNION {EditCall(x) : x \in Caller}) \cup {None}]
    BY Zenon DEF Init
  <2> QED BY <2>1, <2>2 DEF Init, FTypeOK
<1>2. PendingInv /\ EditSurvives
  BY DEF Init, PendingInv, EditSurvives
<1> QED BY <1>1, <1>2 DEF EditInv

LEMMA ReadEdit == ASSUME EditInv, NEW x \in Caller, Read(x) PROVE EditInv'
<1>1. PICK c \in EditCall(x), content \in ReadFile :
        /\ Accepts(c, content)
        /\ call' = [call EXCEPT ![x] = c]
        /\ new' = [new EXCEPT ![x] = Edited(c, content)]
  BY DEF Read
<1>2. /\ pc[x] = "idle" /\ pc' = [pc EXCEPT ![x] = "write"]
      /\ UNCHANGED <<file, since, acked, excused>>
  BY DEF Read
<1>3. content = None \/ (content = file /\ content \in Content)
  BY DEF ReadFile, EditInv, FTypeOK
<1>4. FTypeOK'
  BY <1>1, <1>2, <1>3, EditedIs DEF EditInv, FTypeOK
<1>5. ASSUME NEW y \in Caller, y # x PROVE call'[y] = call[y] /\ new'[y] = new[y] /\ pc'[y] = pc[y]
  BY <1>1, <1>2, <1>5
<1>6. call'[x] = c /\ new'[x] = Edited(c, content) /\ pc'[x] = "write"
  BY <1>1, <1>2 DEF EditInv, FTypeOK
<1>7. acked \ excused \subseteq ToSet(Edited(c, content)) \cup Excuses(x)'
  <2>1. CASE c.tool = "create"
    BY <2>1, <1>2, <1>6 DEF Excuses
  <2>0. c.tool # "create" => content = file /\ acked \ excused \subseteq ToSet(content)
    <3>1. c.tool # "create" => content \in Content
      BY <1>1, <1>3, EditedIs
    <3> QED BY <3>1, <1>3, NoneIs DEF EditInv, EditSurvives
  <2>2. CASE c.tool = "insert"
    <3>1. ToSet(content) \subseteq ToSet(Edited(c, content))
      BY <2>2, <1>1, <1>3, EditedIs
    <3> QED BY <2>0, <2>2, <3>1
  <2>3. CASE c.tool = "str_replace"
    <3>1. Excuses(x)' = since[x] \cup ({c.old} \cap acked)
      BY <2>3, <1>2, <1>6 DEF Excuses
    <3>2. ToSet(content) \subseteq ToSet(Edited(c, content)) \cup {c.old}
      BY <2>3, <1>1, <1>3, EditedIs
    <3> QED BY <2>0, <2>3, <3>1, <3>2
  <2> QED BY <2>1, <2>2, <2>3, CallIs
<1>8. PendingInv'
  <2>1. ASSUME NEW y \in Caller, y # x, pc'[y] = "write"
        PROVE  /\ call'[y] \in EditCall(y) /\ new'[y] \in Content
               /\ call'[y].text \in ToSet(new'[y])
               /\ (acked \ excused)' \subseteq ToSet(new'[y]) \cup Excuses(y)'
    BY <2>1, <1>2, <1>5 DEF EditInv, PendingInv, Excuses
  <2>2. /\ call'[x] \in EditCall(x) /\ new'[x] \in Content
        /\ call'[x].text \in ToSet(new'[x])
        /\ (acked \ excused)' \subseteq ToSet(new'[x]) \cup Excuses(x)'
    BY <1>1, <1>2, <1>3, <1>6, <1>7, EditedIs
  <2> QED BY <2>1, <2>2, <1>2 DEF EditInv, PendingInv
<1>9. EditSurvives'
  BY <1>2 DEF EditInv, EditSurvives
<1> QED BY <1>4, <1>8, <1>9 DEF EditInv

LEMMA ExcusesIs ==
  ASSUME EditInv, NEW x \in Caller, pc[x] = "write" PROVE Excuses(x) \subseteq acked
<1>1. call[x] \in EditCall(x)
  BY DEF EditInv, PendingInv
<1>2. call[x].tool \in {"insert", "str_replace", "create"}
  BY <1>1, CallIs
<1> QED BY <1>2 DEF Excuses, EditInv, PendingInv

\* A call that has ended is None again.
LEMMA CallType ==
  ASSUME FTypeOK, NEW x \in Caller,
         pc' = [pc EXCEPT ![x] = "idle"],
         call' = [call EXCEPT ![x] = None], new' = [new EXCEPT ![x] = None]
  PROVE  /\ pc' \in [Caller -> {"idle", "write"}]
         /\ call' \in [Caller -> (UNION {EditCall(y) : y \in Caller}) \cup {None}]
         /\ \A y \in Caller : call'[y] \in EditCall(y) \cup {None}
         /\ new' \in [Caller -> Content \cup {None}]
<1> DEFINE AnyCall == (UNION {EditCall(y) : y \in Caller}) \cup {None}
<1>1. call \in [Caller -> AnyCall] /\ None \in AnyCall
  BY DEF FTypeOK
<1> HIDE DEF AnyCall
<1>2. call' \in [Caller -> AnyCall]
  BY <1>1
<1>3. \A y \in Caller : call'[y] \in EditCall(y) \cup {None}
  BY <1>1 DEF FTypeOK
<1>4. pc' \in [Caller -> {"idle", "write"}] /\ new' \in [Caller -> Content \cup {None}]
  BY DEF FTypeOK
<1> QED BY <1>2, <1>3, <1>4 DEF AnyCall

LEMMA WriteEdit == ASSUME EditInv, NEW x \in Caller, Write(x) PROVE EditInv'
<1> DEFINE line == {call[x].text} \ {Blank}
<1>1. /\ pc[x] = "write" /\ pc' = [pc EXCEPT ![x] = "idle"]
      /\ call' = [call EXCEPT ![x] = None] /\ new' = [new EXCEPT ![x] = None]
  BY DEF Write
<1>2. /\ call[x] \in EditCall(x) /\ new[x] \in Content /\ call[x].text \in ToSet(new[x])
      /\ acked \ excused \subseteq ToSet(new[x]) \cup Excuses(x)
      /\ Excuses(x) \subseteq acked
  BY <1>1, ExcusesIs DEF EditInv, PendingInv
<1>3. line \subseteq {x}
  BY <1>2, CallIs
<1>4. new[x] # None
  BY <1>2, FileAssumption DEF Content
<1>5. \A y \in Caller : pc'[y] = "write" =>
        y # x /\ pc[y] = "write" /\ call'[y] = call[y] /\ new'[y] = new[y]
  BY <1>1 DEF EditInv, FTypeOK
<1>6. CASE /\ Apply(x) /\ acked' = acked \cup line
           /\ excused' = (excused \cup Excuses(x)) \ line
           /\ since' = [y \in Caller |-> IF y # x /\ pc[y] = "write"
                                        THEN since[y] \cup line ELSE {}]
  <2>1. FTypeOK'
    <3>1. acked' \subseteq Caller /\ excused' \subseteq acked'
          /\ since' \in [Caller -> SUBSET Caller]
      BY <1>2, <1>3, <1>6 DEF EditInv, FTypeOK
    <3> QED BY <3>1, <1>1, <1>2, <1>6, CallType DEF EditInv, FTypeOK, Apply
  <2>2. EditSurvives'
    BY <1>2, <1>4, <1>6 DEF EditSurvives, Apply
  <2>3. (acked \ excused)' \subseteq (acked \ excused) \cup line
    BY <1>6
  <2>4. ASSUME NEW y \in Caller, pc'[y] = "write"
        PROVE  (acked \ excused)' \subseteq ToSet(new'[y]) \cup Excuses(y)'
    <3>1. /\ since'[y] = since[y] \cup line /\ call'[y] = call[y] /\ new'[y] = new[y]
          /\ call[y].tool \in {"insert", "str_replace", "create"}
          /\ acked \ excused \subseteq ToSet(new[y]) \cup Excuses(y)
      BY <2>4, <1>5, <1>6, CallIs DEF EditInv, PendingInv
    <3>2. Excuses(y) \cup line \subseteq Excuses(y)'
      BY <3>1, <1>6 DEF Excuses
    <3> QED BY <3>1, <3>2, <2>3
  <2>5. PendingInv'
    BY <2>4, <1>5, <1>6 DEF EditInv, PendingInv
  <2> QED BY <2>1, <2>2, <2>5 DEF EditInv
<1>7. CASE /\ \/ Apply(x) /\ excused' = excused \cup Excuses(x)
              \/ UNCHANGED <<file, excused>>
           /\ since' = [since EXCEPT ![x] = {}]
           /\ UNCHANGED acked
  <2>1. FTypeOK'
    <3>1. acked' \subseteq Caller /\ excused' \subseteq acked'
          /\ since' \in [Caller -> SUBSET Caller]
      BY <1>2, <1>7 DEF EditInv, FTypeOK
    <3> QED BY <3>1, <1>1, <1>2, <1>7, CallType DEF EditInv, FTypeOK, Apply
  <2>2. EditSurvives'
    BY <1>2, <1>4, <1>7 DEF EditInv, EditSurvives, Apply
  <2>3. ASSUME NEW y \in Caller, pc'[y] = "write"
        PROVE  (acked \ excused)' \subseteq ToSet(new'[y]) \cup Excuses(y)'
    <3>1. /\ since'[y] = since[y] /\ call'[y] = call[y] /\ new'[y] = new[y]
          /\ acked \ excused \subseteq ToSet(new[y]) \cup Excuses(y)
      BY <2>3, <1>5, <1>7 DEF EditInv, PendingInv, FTypeOK
    <3>2. Excuses(y)' = Excuses(y) /\ (acked \ excused)' \subseteq acked \ excused
      BY <3>1, <1>7 DEF Excuses
    <3> QED BY <3>1, <3>2
  <2>4. PendingInv'
    BY <2>3, <1>5, <1>7 DEF EditInv, PendingInv, FTypeOK
  <2> QED BY <2>1, <2>2, <2>4 DEF EditInv
<1> QED BY <1>6, <1>7 DEF Write

LEMMA BashEdit == ASSUME EditInv, Bash PROVE EditInv'
<1>1. FTypeOK' /\ EditSurvives'
  BY FileAssumption DEF Bash, EditInv, FTypeOK, EditSurvives, Content
<1>2. PendingInv'
  BY DEF Bash, EditInv, PendingInv, Excuses
<1> QED BY <1>1, <1>2 DEF EditInv

LEMMA EditInvariant == Spec => []EditInv
<1>1. EditInv /\ [Next]_vars => EditInv'
  <2> SUFFICES ASSUME EditInv, [Next]_vars PROVE EditInv'
    OBVIOUS
  <2>1. ASSUME NEW x \in Caller, View(x) PROVE EditInv'
    BY <2>1 DEF View, EditInv, FTypeOK, PendingInv, EditSurvives, Excuses
  <2>2. CASE UNCHANGED vars
    BY <2>2 DEF vars, EditInv, FTypeOK, PendingInv, EditSurvives, Excuses
  <2> QED BY <2>1, <2>2, ReadEdit, WriteEdit, BashEdit DEF Next
<1> QED BY <1>1, InitEdit, PTL DEF Spec

(* However the calls of one file interleave, fail or are repeated: a tool takes
   away only what it was asked to, or what was added after it had read. *)
THEOREM EditsSurvive == Spec => []EditSurvives
<1>1. EditInv => EditSurvives
  BY DEF EditInv
<1> QED BY <1>1, EditInvariant, PTL

(* The files, calls and acknowledgements keep their types; in particular no
   tool writes a content that is not one. *)
THEOREM FileTypes == Spec => []FTypeOK
<1>1. EditInv => FTypeOK
  BY DEF EditInv
<1> QED BY <1>1, EditInvariant, PTL

----------------------------------------------------------------------------
(* Line numbers: what view numbers, and what insert counts.                *)

LEMMA FrontIs ==
  ASSUME NEW content \in Content, Len(content) > 1
  PROVE  /\ Front(content) \in Content /\ Len(Front(content)) = Len(content) - 1
         /\ \A i \in 1 .. Len(content) - 1 : Front(content)[i] = content[i]
<1>1. Len(content) \in Nat /\ \A i \in 1 .. Len(content) - 1 : content[i] \in Line
  BY ContentIs
<1>2. /\ SubSeq(content, 1, Len(content) - 1) \in Seq(Line)
      /\ Len(SubSeq(content, 1, Len(content) - 1)) =
           IF 1 <= Len(content) - 1 THEN Len(content) - 1 - 1 + 1 ELSE 0
      /\ \A i \in 1 .. Len(content) - 1 - 1 + 1 :
           SubSeq(content, 1, Len(content) - 1)[i] = content[1 + i - 1]
  BY <1>1, SubSeqProperties
<1>3. /\ Front(content) \in Seq(Line) /\ Len(Front(content)) = Len(content) - 1
      /\ \A i \in 1 .. Len(content) - 1 : Front(content)[i] = content[i]
  BY <1>1, <1>2 DEF Front
<1>4. Front(content) # <<>>
  BY <1>1, <1>3, EmptySeq
<1> QED BY <1>3, <1>4 DEF Content

LEMMA TrimmedIs == ASSUME NEW content \in Content PROVE Trimmed(content) \in Content
BY FrontIs DEF Trimmed

\* In both, the lines from the one inserted on are one further down.
LEMMA TrimmedInserted ==
  ASSUME NEW content \in Content, content # <<Blank>>, NEW text \in Line, text # Blank,
         NEW n \in 0 .. Len(Trimmed(content))
  PROVE  Trimmed(Inserted(content, n, text)) = Inserted(Trimmed(content), n, text)
<1> DEFINE edited == Inserted(content, n, text)
<1>1. Len(content) \in Nat /\ Len(content) >= 1 /\ n \in Nat
  BY ContentIs, TrimmedIs
<1>2. CASE Len(content) > 1 /\ Last(content) = Blank
  <2> DEFINE shorter == Front(content)
  <2>1. Trimmed(content) = shorter
    BY <1>2 DEF Trimmed
  <2>2. /\ shorter \in Content /\ shorter \in Seq(Line) /\ Len(shorter) = Len(content) - 1
        /\ \A i \in 1 .. Len(content) - 1 : shorter[i] = content[i]
    BY <1>2, FrontIs, ContentIs
  <2>3. n \in 0 .. Len(content) /\ n \in 0 .. Len(content) - 1
    BY <1>1, <2>1, <2>2
  <2>4. /\ edited \in Seq(Line) /\ Len(edited) = Len(content) + 1
        /\ \A i \in 1 .. Len(content) + 1 :
             edited[i] = IF i <= n THEN content[i]
                         ELSE IF i = n + 1 THEN text ELSE content[i - 1]
    BY <2>3, InsertedIs, ContentIs
  <2>5. /\ Inserted(shorter, n, text) \in Seq(Line)
        /\ Len(Inserted(shorter, n, text)) = Len(content)
        /\ \A i \in 1 .. Len(content) :
             Inserted(shorter, n, text)[i] = IF i <= n THEN shorter[i]
                                             ELSE IF i = n + 1 THEN text ELSE shorter[i - 1]
    <3> HIDE DEF shorter
    <3>1. n \in 0 .. Len(shorter) /\ Len(shorter) + 1 = Len(content)
      BY <1>1, <2>2, <2>3
    <3> QED BY <3>1, <2>2, InsertedIs
  <2> HIDE DEF edited, shorter
  <2>6. edited \in Content /\ Len(edited) > 1
    BY <1>1, <1>2, <2>4, EmptySeq DEF Content
  <2>7. edited[Len(edited)] = Blank
    <3>1. Len(edited) \in 1 .. Len(content) + 1 /\ ~(Len(edited) <= n) /\ Len(edited) # n + 1
          /\ Len(edited) - 1 = Len(content)
      BY <1>1, <2>3, <2>4
    <3> QED BY <3>1, <2>4, <1>2 DEF Last
  <2>8. Trimmed(edited) = Front(edited)
    BY <2>6, <2>7 DEF Trimmed, Last
  <2>9. /\ Front(edited) \in Seq(Line) /\ Len(Front(edited)) = Len(content)
        /\ \A i \in 1 .. Len(content) : Front(edited)[i] = edited[i]
    <3>1. Len(edited) - 1 = Len(content)
      BY <1>1, <2>4
    <3> QED BY <3>1, <2>6, FrontIs, ContentIs
  <2>10. ASSUME NEW i \in 1 .. Len(content) PROVE Front(edited)[i] = Inserted(shorter, n, text)[i]
    <3>1. i <= n => i \in 1 .. Len(content) - 1
      BY <1>1, <2>3
    <3>2. ~(i <= n) /\ i # n + 1 => i - 1 \in 1 .. Len(content) - 1
      BY <1>1, <2>3
    <3>3. i \in 1 .. Len(content) + 1
      BY <1>1
    <3> QED BY <3>1, <3>2, <3>3, <2>2, <2>4, <2>5, <2>9
  <2>11. Front(edited) = Inserted(shorter, n, text)
    BY <2>5, <2>9, <2>10, SeqEqual
  <2> QED BY <2>1, <2>8, <2>11 DEF edited
<1>3. CASE ~(Len(content) > 1 /\ Last(content) = Blank)
  <2>1. Trimmed(content) = content
    BY <1>3 DEF Trimmed
  <2>2. n \in 0 .. Len(content)
    BY <2>1
  <2>3. content[Len(content)] # Blank
    <3>1. CASE Len(content) > 1
      BY <3>1, <1>3 DEF Last
    <3>2. CASE Len(content) = 1
      <4>1. SUFFICES ASSUME content[1] = Blank PROVE content = <<Blank>>
        BY <3>2
      <4>2. <<Blank>> \in Seq(Line) /\ Len(<<Blank>>) = 1 /\ <<Blank>>[1] = Blank
        BY DEF Line
      <4>3. content \in Seq(Line) /\ \A i \in 1 .. Len(content) : content[i] = <<Blank>>[i]
        BY <3>2, <4>1, <4>2, ContentIs
      <4> QED BY <3>2, <4>2, <4>3, SeqEqual
    <3>3. Len(content) > 1 \/ Len(content) = 1
      BY ContentIs
    <3> QED BY <3>1, <3>2, <3>3, Zenon
  <2>4. /\ Len(edited) = Len(content) + 1
        /\ \A i \in 1 .. Len(content) + 1 :
             edited[i] = IF i <= n THEN content[i]
                         ELSE IF i = n + 1 THEN text ELSE content[i - 1]
    BY <2>2, InsertedIs, ContentIs
  <2> HIDE DEF edited
  <2>5. edited[Len(edited)] # Blank
    <3>1. Len(edited) \in 1 .. Len(content) + 1 /\ ~(Len(edited) <= n)
          /\ Len(edited) - 1 = Len(content)
      BY <1>1, <2>2, <2>4
    <3> QED BY <3>1, <2>3, <2>4
  <2>6. Trimmed(edited) = edited
    BY <2>5 DEF Trimmed, Last
  <2> QED BY <2>1, <2>6 DEF edited
<1> QED BY <1>2, <1>3

LEMMA RemoveInserted ==
  ASSUME NEW content \in Content, NEW n \in 0 .. Len(content), NEW text \in Line
  PROVE  /\ Inserted(content, n, text)[n + 1] = text
         /\ RemoveAt(Inserted(content, n, text), n + 1) = content
<1> DEFINE edited == Inserted(content, n, text)
           before == SubSeq(edited, 1, (n + 1) - 1)
           after  == SubSeq(edited, n + 1 + 1, Len(edited))
<1>1. Len(content) \in Nat /\ n \in Nat /\ n <= Len(content) /\ content \in Seq(Line)
  BY ContentIs
<1>2. /\ edited \in Seq(Line) /\ Len(edited) = Len(content) + 1
      /\ \A i \in 1 .. Len(content) + 1 :
           edited[i] = IF i <= n THEN content[i]
                       ELSE IF i = n + 1 THEN text ELSE content[i - 1]
  BY InsertedIs, ContentIs
<1> HIDE DEF edited
<1>3. \A i \in 1 .. Len(content) + 1 : edited[i] \in Line
  BY <1>2, ElementOfSeq
<1>4. before \in Seq(Line) /\ Len(before) = n /\ \A i \in 1 .. n : before[i] = content[i]
  <2>1. \A i \in 1 .. (n + 1) - 1 : edited[i] \in Line
    BY <1>1, <1>3
  <2>2. /\ before \in Seq(Line)
        /\ Len(before) = IF 1 <= n THEN n ELSE 0
        /\ \A i \in 1 .. n : before[i] = edited[1 + i - 1]
    BY <2>1, <1>1, SubSeqProperties
  <2> HIDE DEF before
  <2>3. \A i \in 1 .. n : i \in 1 .. n /\ 1 + i - 1 = i
                          /\ i \in 1 .. Len(content) + 1 /\ i <= n
    BY <1>1
  <2>4. ASSUME NEW i \in 1 .. n PROVE before[i] = content[i]
    <3>1. before[i] = edited[i]
      BY <2>2, <2>3
    <3> QED BY <3>1, <2>3, <1>2
  <2>5. Len(before) = n
    BY <2>2, <1>1
  <2> QED BY <2>2, <2>4, <2>5
<1>5. /\ after \in Seq(Line) /\ Len(after) = Len(content) - n
      /\ \A i \in 1 .. Len(content) - n : after[i] = content[n + i]
  <2>1. \A i \in n + 1 + 1 .. Len(edited) : edited[i] \in Line
    BY <1>1, <1>2, <1>3
  <2>2. /\ after \in Seq(Line)
        /\ Len(after) = IF n + 1 + 1 <= Len(edited) THEN Len(edited) - (n + 1 + 1) + 1 ELSE 0
        /\ \A i \in 1 .. Len(edited) - (n + 1 + 1) + 1 : after[i] = edited[n + 1 + 1 + i - 1]
    BY <2>1, <1>1, <1>2, SubSeqProperties
  <2> HIDE DEF after
  <2>3. \A i \in 1 .. Len(content) - n :
          LET j == n + 1 + 1 + i - 1 IN
          /\ i \in 1 .. Len(edited) - (n + 1 + 1) + 1
          /\ j \in 1 .. Len(content) + 1 /\ ~(j <= n) /\ j # n + 1 /\ j - 1 = n + i
    BY <1>1, <1>2
  <2>4. ASSUME NEW i \in 1 .. Len(content) - n PROVE after[i] = content[n + i]
    <3> DEFINE j == n + 1 + 1 + i - 1
    <3>1. after[i] = edited[j]
      BY <2>2, <2>3
    <3>2. edited[j] = content[j - 1] /\ j - 1 = n + i
      BY <2>3, <1>2
    <3> QED BY <3>1, <3>2
  <2>5. Len(after) = Len(content) - n
    BY <2>2, <1>1, <1>2
  <2> QED BY <2>2, <2>4, <2>5
<1>6. RemoveAt(edited, n + 1) = before \o after
  BY DEF RemoveAt
<1> HIDE DEF before, after
<1>7. before \o after = content
  <2>1. /\ before \o after \in Seq(Line) /\ Len(before \o after) = Len(before) + Len(after)
        /\ \A i \in 1 .. Len(before) + Len(after) :
             (before \o after)[i] = IF i <= Len(before) THEN before[i] ELSE after[i - Len(before)]
    BY <1>4, <1>5, ConcatProperties
  <2>2. Len(before \o after) = Len(content)
    BY <2>1, <1>1, <1>4, <1>5
  <2>3. ASSUME NEW i \in 1 .. Len(content) PROVE (before \o after)[i] = content[i]
    <3>1. i <= n => i \in 1 .. n
      BY <1>1
    <3>2. ~(i <= n) => i - n \in 1 .. Len(content) - n /\ n + (i - n) = i
      BY <1>1
    <3>3. i \in 1 .. Len(before) + Len(after)
      BY <1>1, <1>4, <1>5
    <3> QED BY <3>1, <3>2, <3>3, <2>1, <1>4, <1>5
  <2> QED BY <2>1, <2>2, <2>3, <1>1, SeqEqual
<1>8. edited[n + 1] = text
  BY <1>1, <1>2
<1> QED BY <1>6, <1>7, <1>8 DEF edited

(* For every file, line number and text: what insert puts after line n as view
   numbers the lines is line n + 1 of the next view, and nothing else changes. *)
THEOREM InsertCountsAsView == Spec => InsertFollowsView
<1>1. EditInv /\ [Next]_vars =>
        [\A x \in Caller :
           pc[x] = "idle" /\ pc'[x] = "write" /\ call'[x].tool = "insert"
             /\ call'[x].text # Blank /\ file # <<Blank>> /\ call'[x].line <= Len(Trimmed(file))
           => LET n == call'[x].line  view == Trimmed(file)  after == Trimmed(new'[x])
              IN  after[n + 1] = call'[x].text /\ RemoveAt(after, n + 1) = view]_vars
  <2> SUFFICES ASSUME EditInv, Next, NEW x \in Caller,
                      pc[x] = "idle", pc'[x] = "write", call'[x].tool = "insert",
                      call'[x].text # Blank, file # <<Blank>>,
                      call'[x].line <= Len(Trimmed(file))
               PROVE  LET n == call'[x].line  after == Trimmed(new'[x])
                      IN  after[n + 1] = call'[x].text /\ RemoveAt(after, n + 1) = Trimmed(file)
    OBVIOUS
  <2>1. Read(x)
    BY DEF Next, View, Read, Write, Bash, EditInv, FTypeOK
  <2>2. PICK c \in EditCall(x), content \in ReadFile :
          /\ Accepts(c, content)
          /\ call' = [call EXCEPT ![x] = c]
          /\ new' = [new EXCEPT ![x] = Edited(c, content)]
    BY <2>1 DEF Read
  <2>3. call'[x] = c /\ new'[x] = Edited(c, content)
    BY <2>2 DEF EditInv, FTypeOK
  <2>4. /\ content = file /\ file \in Content /\ c.line \in 0 .. Len(file)
        /\ new'[x] = Inserted(file, c.line, c.text)
    <3>1. c.tool = "insert"
      BY <2>3
    <3> QED BY <3>1, <2>2, <2>3 DEF Accepts, Edited, ReadFile, EditInv, FTypeOK
  <2>5. Trimmed(file) \in Content /\ c.line \in 0 .. Len(Trimmed(file)) /\ c.text \in Line
    <3>1. Trimmed(file) \in Content /\ Len(Trimmed(file)) \in Nat
      BY <2>4, TrimmedIs, ContentIs
    <3> QED BY <3>1, <2>3, <2>4, CallIs
  <2>6. Trimmed(new'[x]) = Inserted(Trimmed(file), c.line, c.text)
    BY <2>3, <2>4, <2>5, TrimmedInserted
  <2> QED BY <2>3, <2>5, <2>6, RemoveInserted
<1> QED BY <1>1, EditInvariant, PTL DEF Spec, InsertFollowsView

LEMMA WindowIs ==
  ASSUME NEW lines \in Content, NEW range \in (RangeEnds \X RangeEnds) \cup {None}
  PROVE  LET w == Window(range, lines)  all == 1 .. Len(lines)
         IN  w[1] .. w[2] = IF range = None THEN all ELSE (range[1] .. range[2]) \cap all
<1>1. Len(lines) \in Nat
  BY ContentIs
<1>2. CASE range = None
  BY <1>2 DEF Window
<1>3. CASE range # None
  <2>1. range[1] \in Int /\ range[2] \in Int
    BY <1>3, FileAssumption
  <2> QED BY <1>1, <1>3, <2>1 DEF Window
<1> QED BY <1>2, <1>3

(* For every range: the end is clamped before the lines are indexed, and no line
   that exists is left out. *)
THEOREM ViewShowsTheRange == Spec => []ViewShowsWhatExists
<1>1. Init => ViewShowsWhatExists
  BY DEF Init, ViewShowsWhatExists
<1>2. EditInv /\ ViewShowsWhatExists /\ [Next]_vars => ViewShowsWhatExists'
  <2> SUFFICES ASSUME EditInv, ViewShowsWhatExists, [Next]_vars PROVE ViewShowsWhatExists'
    OBVIOUS
  <2>1. ASSUME NEW x \in Caller, View(x) PROVE ViewShowsWhatExists'
    <3>1. PICK c \in ViewCall, content \in ReadFile :
            shown' = IF content = None THEN None
                     ELSE LET lines == Trimmed(content)
                              w     == Window(c.range, lines)
                          IN  [tool |-> c.tool, range |-> c.range,
                               lines |-> lines, start |-> w[1], end |-> w[2]]
      BY <2>1 DEF View
    <3>2. c.range \in (RangeEnds \X RangeEnds) \cup {None}
      BY DEF ViewCall
    <3>3. CASE content = None
      BY <3>1, <3>3 DEF ViewShowsWhatExists
    <3>4. CASE content # None
      <4>1. Trimmed(content) \in Content
        BY <3>4, TrimmedIs DEF ReadFile, EditInv, FTypeOK
      <4> QED BY <3>1, <3>2, <3>4, <4>1, WindowIs DEF ViewShowsWhatExists
    <3> QED BY <3>3, <3>4
  <2>2. CASE Bash \/ \E x \in Caller : Read(x) \/ Write(x)
    BY <2>2 DEF Bash, Read, Write, ViewShowsWhatExists
  <2>3. CASE UNCHANGED vars
    BY <2>3 DEF vars, ViewShowsWhatExists
  <2> QED BY <2>1, <2>2, <2>3 DEF Next
<1> QED BY <1>1, <1>2, EditInvariant, PTL DEF Spec

----------------------------------------------------------------------------
(* The loop of longestFence.  Induction is used as facts about sets of      *)
(* numbers: no lemma takes an operator.                                     *)

\* Induction over the numbers as a fact about sets: the least number outside S
\* has a predecessor in S.
LEMMA NatSetInduction ==
  ASSUME NEW S, 0 \in S, \A k \in Nat : k \in S => k + 1 \in S
  PROVE  Nat \subseteq S
<1> DEFINE R == OpToRel(<, Nat)
           T == Nat \ S
<1> SUFFICES ASSUME T # {} PROVE FALSE
  OBVIOUS
<1>1. IsWellFoundedOn(R, Nat)
  BY NatLessThanWellFounded
<1>2. PICK m \in T : \A k \in T : ~(<<k, m>> \in R)
  <2>1. T \subseteq Nat
    OBVIOUS
  <2> HIDE DEF R, T
  <2> QED BY <1>1, <2>1, WFMin
<1>3. m \in Nat /\ m # 0 /\ m \notin S
  OBVIOUS
<1>4. m - 1 \in Nat /\ m - 1 < m /\ m = (m - 1) + 1
  BY <1>3
<1>5. m - 1 \notin S
  BY <1>3, <1>4
<1>6. <<m - 1, m>> \in R
  BY <1>3, <1>4 DEF OpToRel
<1> QED BY <1>2, <1>4, <1>5, <1>6

\* A loop of n iterations: from state d, iteration i goes on with step[<<d, i>>].
IsLoop(D, n, step) == step \in [D \X (1 .. n) -> D]
IsTrace(D, base, step, n, f) ==
  /\ f \in [0 .. n -> D] /\ f[0] = base
  /\ \A i \in 1 .. n : f[i] = step[<<f[i - 1], i>>]

LEMMA LoopTrace ==
  ASSUME NEW D, NEW base \in D, NEW n \in Nat, NEW step, IsLoop(D, n, step)
  PROVE  \E f : IsTrace(D, base, step, n, f)
<1> USE DEF IsLoop
<1> DEFINE Trace(f, k) == IsTrace(D, base, step, k, f)
           S == {k \in Nat : k <= n => \E f : Trace(f, k)}
<1>1. 0 \in S
  <2>1. Trace([i \in 0 .. 0 |-> base], 0)
    BY DEF IsTrace
  <2> HIDE DEF Trace
  <2> QED BY <2>1
<1>2. ASSUME NEW k \in Nat, k \in S PROVE k + 1 \in S
  <2> SUFFICES ASSUME k + 1 <= n PROVE \E f : Trace(f, k + 1)
    OBVIOUS
  <2>1. PICK f : Trace(f, k)
    <3> HIDE DEF Trace
    <3> QED BY <1>2
  <2> DEFINE g == [i \in 0 .. k + 1 |-> IF i = k + 1 THEN step[<<f[k], k + 1>>] ELSE f[i]]
  <2> USE DEF IsTrace
  <2>2. f[k] \in D /\ k + 1 \in 1 .. n
    BY <2>1
  <2>3. step[<<f[k], k + 1>>] \in D
    BY <2>2
  <2>4. g \in [0 .. k + 1 -> D] /\ g[0] = base
    BY <2>1, <2>3
  <2>5. ASSUME NEW i \in 1 .. k + 1 PROVE g[i] = step[<<g[i - 1], i>>]
    <3>1. CASE i = k + 1
      <4>1. g[i - 1] = f[k] /\ g[i] = step[<<f[k], k + 1>>]
        BY <3>1
      <4> HIDE DEF g
      <4> QED BY <3>1, <4>1
    <3>2. CASE i # k + 1
      <4>1. i \in 1 .. k /\ i - 1 \in 0 .. k
        BY <3>2
      <4>2. g[i] = f[i] /\ g[i - 1] = f[i - 1]
        BY <3>2, <4>1
      <4> HIDE DEF g
      <4> QED BY <2>1, <4>1, <4>2
    <3> QED BY <3>1, <3>2
  <2> HIDE DEF g
  <2> QED BY <2>4, <2>5
<1>3. Nat \subseteq S
  <2> HIDE DEF S
  <2> QED BY <1>1, <1>2, NatSetInduction
<1>4. \E f : Trace(f, n)
  <2> HIDE DEF Trace
  <2> QED BY <1>3
<1> QED BY <1>4

\* Body is a sequence of runes.
LEMMA FlattenIs ==
  ASSUME NEW S, NEW seqs \in Seq(Seq(S))
  PROVE  FlattenSeq(seqs) \in Seq(S)
<1> DEFINE n == Len(seqs)
           Flat(f) == f = [i \in 1 .. n |-> IF i = 1 THEN seqs[i] ELSE f[i - 1] \o seqs[i]]
<1>0. n \in Nat /\ \A i \in 1 .. n : seqs[i] \in Seq(S)
  OBVIOUS
<1>1. CASE n = 0
  BY <1>1, EmptySeq DEF FlattenSeq
<1>2. CASE n # 0
  <2> DEFINE step == [p \in Seq(S) \X (1 .. n) |-> p[1] \o seqs[p[2]]]
  <2>1. IsLoop(Seq(S), n, step)
    <3>1. ASSUME NEW p \in Seq(S) \X (1 .. n) PROVE p[1] \o seqs[p[2]] \in Seq(S)
      <4>1. p[1] \in Seq(S) /\ seqs[p[2]] \in Seq(S)
        BY <1>0
      <4> QED BY <4>1, ConcatProperties
    <3> QED BY <3>1 DEF IsLoop
  <2>2. PICK g : IsTrace(Seq(S), <<>>, step, n, g)
    <3>1. <<>> \in Seq(S)
      OBVIOUS
    <3> HIDE DEF step, n
    <3> QED BY <3>1, <2>1, <1>0, LoopTrace
  <2>3. ASSUME NEW i \in 1 .. n PROVE g[i - 1] \in Seq(S) /\ g[i] = g[i - 1] \o seqs[i]
    <3>1. g \in [0 .. n -> Seq(S)] /\ g[i] = step[<<g[i - 1], i>>]
      BY <2>2 DEF IsTrace
    <3> HIDE DEF n
    <3>2. i - 1 \in 0 .. n
      BY <1>0
    <3>3. g[i - 1] \in Seq(S)
      BY <3>1, <3>2
    <3>4. step[<<g[i - 1], i>>] = g[i - 1] \o seqs[i]
      BY <3>3
    <3> QED BY <3>1, <3>3, <3>4
  <2> DEFINE f == [i \in 1 .. n |-> g[i]]
  <2>4. ASSUME NEW i \in 1 .. n
        PROVE  g[i] = IF i = 1 THEN seqs[i] ELSE f[i - 1] \o seqs[i]
    <3>1. CASE i = 1
      <4>1. g[0] = <<>> /\ g[i] = g[i - 1] \o seqs[i] /\ i - 1 = 0 /\ seqs[i] \in Seq(S)
        <5>1. g[0] = <<>>
          BY <2>2 DEF IsTrace
        <5>2. g[i] = g[i - 1] \o seqs[i]
          BY <2>3
        <5>3. seqs[i] \in Seq(S)
          BY <1>0
        <5>4. i - 1 = 0
          BY <3>1
        <5> QED BY <5>1, <5>2, <5>3, <5>4
      <4>2. <<>> \o seqs[i] = seqs[i]
        BY <4>1, ConcatEmptySeq
      <4> QED BY <3>1, <4>1, <4>2
    <3>2. CASE i # 1
      <4>1. i - 1 \in 1 .. n
        BY <3>2, <1>0
      <4> QED BY <3>2, <4>1, <2>3
    <3> QED BY <3>1, <3>2
  <2>5. Flat(f)
    BY <2>4
  <2> DEFINE h == CHOOSE h : Flat(h)
  <2>6. Flat(h)
    <3> HIDE DEF f, Flat
    <3> QED BY <2>5
  <2>7. FlattenSeq(seqs) = h[n]
    BY <1>2 DEF FlattenSeq
  <2> HIDE DEF h
  <2> DEFINE T == {k \in Nat : k + 1 <= n => h[k + 1] \in Seq(S)}
  <2>8. 0 \in T
    BY <2>6, <1>0
  <2>9. ASSUME NEW k \in Nat, k \in T PROVE k + 1 \in T
    <3> SUFFICES ASSUME k + 1 + 1 <= n PROVE h[k + 1 + 1] \in Seq(S)
      OBVIOUS
    <3>1. /\ k + 1 \in 1 .. n /\ k + 1 + 1 \in 1 .. n /\ (k + 1 + 1) - 1 = k + 1
          /\ k + 1 + 1 # 1
      BY <1>0
    <3>2. h[k + 1] \in Seq(S) /\ seqs[k + 1 + 1] \in Seq(S)
      BY <2>9, <3>1, <1>0
    <3>3. h[k + 1 + 1] = h[k + 1] \o seqs[k + 1 + 1]
      BY <2>6, <3>1
    <3> QED BY <3>2, <3>3, ConcatProperties
  <2>10. Nat \subseteq T
    <3> HIDE DEF T
    <3> QED BY <2>8, <2>9, NatSetInduction
  <2>11. n - 1 \in Nat /\ (n - 1) + 1 = n
    BY <1>0, <1>2
  <2>12. n - 1 \in T
    <3> HIDE DEF T, n
    <3> QED BY <2>10, <2>11
  <2>13. h[n] \in Seq(S)
    <3> HIDE DEF n
    <3> QED BY <2>11, <2>12, <1>0
  <2> QED BY <2>7, <2>13
<1> QED BY <1>1, <1>2

\* The loop of longestFence, one equation per rune.
LEMMA RunsAre ==
  ASSUME NEW body \in Seq(BOOLEAN)
  PROVE  /\ Runs(body)[0] = <<0, 0>>
         /\ \A i \in 1 .. Len(body) : Runs(body)[i] = NextRun(Runs(body)[i - 1], body[i])
<1> DEFINE n == Len(body)
           D == Nat \X Nat
           step == [p \in D \X (1 .. n) |-> NextRun(p[1], body[p[2]])]
           Loop(f) == f = [i \in 0 .. n |-> IF i = 0 THEN <<0, 0>> ELSE NextRun(f[i - 1], body[i])]
<1>0. n \in Nat
  OBVIOUS
<1>1. IsLoop(D, n, step)
  <2>1. ASSUME NEW p \in D \X (1 .. n) PROVE NextRun(p[1], body[p[2]]) \in D
    <3>1. PICK l \in Nat, r \in Nat : p[1] = <<l, r>>
      OBVIOUS
    <3>2. <<IF r + 1 > l THEN r + 1 ELSE l, r + 1>> \in D /\ <<l, 0>> \in D
      OBVIOUS
    <3> QED BY <3>1, <3>2 DEF NextRun
  <2> QED BY <2>1 DEF IsLoop
<1>2. PICK f : IsTrace(D, <<0, 0>>, step, n, f)
  <2>1. <<0, 0>> \in D
    OBVIOUS
  <2> HIDE DEF step, n, D
  <2> QED BY <2>1, <1>0, <1>1, LoopTrace
<1>3. ASSUME NEW i \in 0 .. n
      PROVE  f[i] = IF i = 0 THEN <<0, 0>> ELSE NextRun(f[i - 1], body[i])
  <2>1. i # 0 => i \in 1 .. n /\ <<f[i - 1], i>> \in D \X (1 .. n)
    BY <1>0, <1>2 DEF IsTrace
  <2> QED BY <1>2, <2>1 DEF IsTrace
<1>4. Loop(f)
  <2> HIDE DEF n, D
  <2> QED BY <1>2, <1>3 DEF IsTrace
<1> DEFINE r == CHOOSE r : Loop(r)
<1>5. Loop(r)
  <2> HIDE DEF Loop
  <2> QED BY <1>4
<1>6. Runs(body) = r
  BY DEF Runs
<1> HIDE DEF r
<1>7. r[0] = <<0, 0>>
  BY <1>0, <1>5
<1>8. ASSUME NEW i \in 1 .. n PROVE r[i] = NextRun(r[i - 1], body[i])
  <2>1. i \in 0 .. n /\ i # 0
    BY <1>0
  <2> HIDE DEF n
  <2> QED BY <1>5, <2>1
<1> QED BY <1>6, <1>7, <1>8

\* r is <<longest, run>>: no run of backticks in the first k runes is longer than
\* longest, and none that ends there is longer than run.
Bounds(body, k, r) ==
  /\ r \in Nat \X Nat
  /\ \A a \in 1 .. k : (\A j \in a .. k : body[j]) => k - a + 1 <= r[2]
  /\ \A a, b \in 1 .. k : a <= b /\ (\A j \in a .. b : body[j]) => b - a + 1 <= r[1]

LEMMA NextRunBounds ==
  ASSUME NEW body, NEW k \in Nat, NEW r \in Nat \X Nat, Bounds(body, k, r),
         body[k + 1] \in BOOLEAN
  PROVE  Bounds(body, k + 1, NextRun(r, body[k + 1]))
<1>1. PICK longest \in Nat, run \in Nat : r = <<longest, run>>
  OBVIOUS
<1> DEFINE l == k + 1
<1>2. /\ \A a \in 1 .. k : (\A j \in a .. k : body[j]) => k - a + 1 <= run
      /\ \A a, b \in 1 .. k : a <= b /\ (\A j \in a .. b : body[j]) => b - a + 1 <= longest
  BY <1>1 DEF Bounds
<1>3. \A a, b \in 1 .. l : a <= b /\ b # l => a \in 1 .. k /\ b \in 1 .. k
  OBVIOUS
<1>4. CASE body[l]
  <2>1. PICK m \in Nat : NextRun(r, body[l]) = <<m, run + 1>> /\ m >= longest /\ m >= run + 1
    <3>1. NextRun(r, body[l]) = <<IF run + 1 > longest THEN run + 1 ELSE longest, run + 1>>
      BY <1>1, <1>4 DEF NextRun
    <3>2. CASE run + 1 > longest
      BY <3>1, <3>2
    <3>3. CASE ~(run + 1 > longest)
      BY <3>1, <3>3
    <3> QED BY <3>2, <3>3
  <2>2. ASSUME NEW a \in 1 .. l, \A j \in a .. l : body[j]
        PROVE  l - a + 1 <= run + 1
    <3>1. CASE a = l
      BY <3>1
    <3>2. CASE a # l
      <4>1. a \in 1 .. k /\ \A j \in a .. k : j \in a .. l
        BY <3>2
      <4>2. k - a + 1 <= run
        BY <4>1, <2>2, <1>2
      <4> QED BY <4>1, <4>2
    <3> QED BY <3>1, <3>2
  <2>3. ASSUME NEW a \in 1 .. l, NEW b \in 1 .. l, a <= b, \A j \in a .. b : body[j]
        PROVE  b - a + 1 <= m
    <3>1. CASE b = l
      <4>1. b - a + 1 <= run + 1
        BY <2>2, <2>3, <3>1
      <4> QED BY <4>1, <2>1
    <3>2. CASE b # l
      <4>1. b - a + 1 <= longest
        BY <1>2, <1>3, <2>3, <3>2
      <4> QED BY <4>1, <2>1
    <3> QED BY <3>1, <3>2
  <2>4. <<m, run + 1>>[1] = m /\ <<m, run + 1>>[2] = run + 1 /\ <<m, run + 1>> \in Nat \X Nat
    OBVIOUS
  <2> QED BY <2>1, <2>2, <2>3, <2>4 DEF Bounds
<1>5. CASE ~body[l]
  <2>1. NextRun(r, body[l]) = <<longest, 0>>
    BY <1>1, <1>5 DEF NextRun
  <2>2. ASSUME NEW a \in 1 .. l, NEW b \in 1 .. l, a <= b, \A j \in a .. b : body[j]
        PROVE  b # l /\ b - a + 1 <= longest
    <3>1. b # l
      BY <2>2, <1>5
    <3> QED BY <1>2, <1>3, <2>2, <3>1
  <2>3. ASSUME NEW a \in 1 .. l, \A j \in a .. l : body[j]
        PROVE  FALSE
    BY <2>3, <1>5
  <2>4. <<longest, 0>>[1] = longest /\ <<longest, 0>>[2] = 0 /\ <<longest, 0>> \in Nat \X Nat
    OBVIOUS
  <2> QED BY <2>1, <2>2, <2>3, <2>4 DEF Bounds
<1> QED BY <1>4, <1>5

LEMMA RunsBound ==
  ASSUME NEW body \in Seq(BOOLEAN)
  PROVE  Bounds(body, Len(body), Runs(body)[Len(body)])
<1> DEFINE n == Len(body)
           R == Runs(body)
           S == {k \in Nat : k <= n => Bounds(body, k, R[k])}
<1>0. n \in Nat
  OBVIOUS
<1>1. /\ R[0] = <<0, 0>>
      /\ \A k \in 1 .. n : R[k] = NextRun(R[k - 1], body[k])
  BY RunsAre
<1> HIDE DEF R, n
<1>2. 0 \in S
  <2>1. <<0, 0>> \in Nat \X Nat /\ 1 .. 0 = {}
    OBVIOUS
  <2>2. Bounds(body, 0, R[0])
    BY <1>1, <2>1 DEF Bounds
  <2> QED BY <2>2
<1>3. ASSUME NEW k \in Nat, k \in S PROVE k + 1 \in S
  <2> SUFFICES ASSUME k + 1 <= n PROVE Bounds(body, k + 1, R[k + 1])
    OBVIOUS
  <2>1. Bounds(body, k, R[k]) /\ k + 1 \in 1 .. n /\ (k + 1) - 1 = k
    BY <1>0, <1>3
  <2>2. R[k + 1] = NextRun(R[k], body[k + 1])
    BY <1>1, <2>1
  <2>3. body[k + 1] \in BOOLEAN
    BY <2>1 DEF n
  <2>4. R[k] \in Nat \X Nat
    BY <2>1 DEF Bounds
  <2> QED BY <2>1, <2>2, <2>3, <2>4, NextRunBounds
<1>4. Nat \subseteq S
  <2> HIDE DEF S
  <2> QED BY <1>2, <1>3, NatSetInduction
<1> QED BY <1>0, <1>4 DEF R, n

\* What present shows of a file is a sequence of runes.
LEMMA BodyIs ==
  ASSUME NEW lines \in Seq(Line), NEW start \in Nat \ {0}, NEW end \in Int, end <= Len(lines)
  PROVE  Body(lines, start, end) \in Seq(BOOLEAN)
<1> DEFINE n == end - start + 1
           seqs == [i \in 1 .. n |->
                      (IF i > 1 THEN <<FALSE>> ELSE <<>>) \o Runes[lines[start + i - 1]]]
<1>1. ASSUME NEW i \in 1 .. n
      PROVE  (IF i > 1 THEN <<FALSE>> ELSE <<>>) \o Runes[lines[start + i - 1]] \in Seq(BOOLEAN)
  <2>1. start + i - 1 \in 1 .. Len(lines)
    OBVIOUS
  <2>2. lines[start + i - 1] \in Line
    BY <2>1
  <2>3. Runes[lines[start + i - 1]] \in Seq(BOOLEAN)
    BY <2>2, FileAssumption
  <2>4. <<FALSE>> \in Seq(BOOLEAN) /\ <<>> \in Seq(BOOLEAN)
    <3>1. FALSE \in BOOLEAN
      OBVIOUS
    <3> QED BY <3>1
  <2> QED BY <2>3, <2>4, ConcatProperties
<1>2. seqs \in Seq(Seq(BOOLEAN))
  <2>1. CASE n \in Nat
    <3>1. seqs \in [1 .. n -> Seq(BOOLEAN)]
      BY <1>1
    <3> HIDE DEF n, seqs
    <3> QED BY <2>1, <3>1
  <2>2. CASE n \notin Nat
    <3>1. 1 .. n = 1 .. 0
      BY <2>2
    <3>2. seqs \in [1 .. 0 -> Seq(BOOLEAN)]
      BY <3>1, <1>1
    <3> HIDE DEF seqs
    <3> QED BY <3>2
  <2> QED BY <2>1, <2>2
<1> HIDE DEF n
<1>3. Body(lines, start, end) = FlattenSeq(seqs)
  BY DEF Body, n
<1> QED BY <1>2, <1>3, FlattenIs

\* No run of backticks is as long as the fence.
LEMMA FenceIsLonger ==
  ASSUME NEW body \in Seq(BOOLEAN)
  PROVE  LET n == LongestFence(body)
         IN  \A i \in 1 .. Len(body) - n + 1 : \E j \in i .. i + n - 1 : ~body[j]
<1> DEFINE l == Len(body)
           r == Runs(body)[l]
           n == LongestFence(body)
<1>1. l \in Nat /\ Bounds(body, l, r)
  BY RunsBound
<1>2. n = IF r[1] + 1 < 3 THEN 3 ELSE r[1] + 1
  BY DEF LongestFence
<1> HIDE DEF l, r, n
<1>3. r[1] \in Nat
  BY <1>1 DEF Bounds
<1>4. n \in Nat /\ n >= 1 /\ n > r[1]
  BY <1>2, <1>3
<1>5. ASSUME NEW i \in 1 .. l - n + 1, \A j \in i .. i + n - 1 : body[j]
      PROVE  FALSE
  <2>1. /\ i \in 1 .. l /\ i + n - 1 \in 1 .. l /\ i <= i + n - 1
        /\ (i + n - 1) - i + 1 = n
    BY <1>1, <1>4
  <2>2. (i + n - 1) - i + 1 <= r[1]
    BY <2>1, <1>1, <1>5 DEF Bounds
  <2> QED BY <2>1, <2>2, <1>3, <1>4
<1>6. ASSUME NEW i \in 1 .. l - n + 1
      PROVE  \E j \in i .. i + n - 1 : ~body[j]
  BY <1>5
<1> QED BY <1>6 DEF l, n

\* The answer is made of lines of the file.
ShownInv ==
  shown # None => /\ shown.lines \in Content
                  /\ shown.start \in Nat \ {0}
                  /\ shown.end \in Int /\ shown.end <= Len(shown.lines)

LEMMA ShownInvariant == Spec => []ShownInv
<1>1. Init => ShownInv
  BY DEF Init, ShownInv
<1>2. EditInv /\ ShownInv /\ [Next]_vars => ShownInv'
  <2> SUFFICES ASSUME EditInv, ShownInv, [Next]_vars PROVE ShownInv'
    OBVIOUS
  <2>1. ASSUME NEW x \in Caller, View(x) PROVE ShownInv'
    <3>1. PICK c \in ViewCall, content \in ReadFile :
            shown' = IF content = None THEN None
                     ELSE LET lines == Trimmed(content)
                              w     == Window(c.range, lines)
                          IN  [tool |-> c.tool, range |-> c.range,
                               lines |-> lines, start |-> w[1], end |-> w[2]]
      BY <2>1 DEF View
    <3>2. CASE content = None
      BY <3>1, <3>2 DEF ShownInv
    <3>3. CASE content # None
      <4> DEFINE lines == Trimmed(content)  w == Window(c.range, lines)
      <4>1. lines \in Content /\ Len(lines) \in Nat
        BY <3>3, TrimmedIs, ContentIs DEF ReadFile, EditInv, FTypeOK
      <4> HIDE DEF lines
      <4>2. w[1] \in Nat \ {0} /\ w[2] \in Int /\ w[2] <= Len(lines)
        <5>1. CASE c.range = None
          BY <4>1, <5>1 DEF Window
        <5>2. CASE c.range # None
          <6>1. c.range[1] \in Int /\ c.range[2] \in Int
            BY <5>2, FileAssumption DEF ViewCall
          <6> QED BY <4>1, <5>2, <6>1 DEF Window
        <5> QED BY <5>1, <5>2
      <4> HIDE DEF w
      <4>3. shown' = [tool |-> c.tool, range |-> c.range,
                      lines |-> lines, start |-> w[1], end |-> w[2]]
        BY <3>1, <3>3 DEF w, lines
      <4> QED BY <4>1, <4>2, <4>3 DEF ShownInv
    <3> QED BY <3>2, <3>3
  <2>2. CASE Bash \/ \E x \in Caller : Read(x) \/ Write(x)
    BY <2>2 DEF Bash, Read, Write, ShownInv
  <2>3. CASE UNCHANGED vars
    BY <2>3 DEF vars, ShownInv
  <2> QED BY <2>1, <2>2, <2>3 DEF Next
<1> QED BY <1>1, <1>2, EditInvariant, PTL DEF Spec

(* For every text: the loop of longestFence finds the longest run of backticks,
   wherever it is, so that none ends the block early. *)
THEOREM FenceIsNeverClosed == Spec => []FenceHolds
<1>1. ShownInv => FenceHolds
  <2> SUFFICES ASSUME ShownInv, shown # None, shown.tool = "present"
               PROVE  LET body == Body(shown.lines, shown.start, shown.end)
                          n    == LongestFence(body)
                      IN  \A i \in 1 .. Len(body) - n + 1 : \E j \in i .. i + n - 1 : ~body[j]
    BY DEF FenceHolds
  <2>1. Body(shown.lines, shown.start, shown.end) \in Seq(BOOLEAN)
    BY BodyIs DEF ShownInv, Content
  <2> QED BY <2>1, FenceIsLonger
<1> QED BY <1>1, ShownInvariant, PTL
=============================================================================
