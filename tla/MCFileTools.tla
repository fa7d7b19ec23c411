---------------------------- MODULE MCFileTools ----------------------------
(* Instances of FileTools for TLC. *)
EXTENDS FileTools, TLC

CONSTANTS x1, x2, a

TwoCallers == {x1, x2}
OldLines   == {a}

\* No file; the empty one; a line and a newline; a line twice, and no newline.
SomeContents == {None, <<Blank>>, <<a, Blank>>}

\* a is some text and four backticks; the others send lines of three.
Ticks == [line \in Line |->
            CASE line = a     -> <<FALSE, TRUE, TRUE, TRUE, TRUE>>
              [] line = Blank -> <<>>
              [] OTHER        -> <<TRUE, TRUE, TRUE>>]

Ends == {0, 2, 4}

Symmetric == Permutations(Caller)
=============================================================================
