------------------------------- MODULE WrapText -------------------------------
(***************************************************************************)
(* How the terminal UI breaks a text into rows (src/ascii_ui_text.cpp,      *)
(* wrapTextImpl): one step per character, rows and words reduced to what    *)
(* decides where a row ends - how many characters, cells and letters they   *)
(* have, and whether a word starts with a blank.                            *)
(***************************************************************************)
EXTENDS Integers, Sequences

CONSTANTS
    First,    \* cells of the first row
    Width,    \* cells of the other rows
    MaxRead   \* bound on the characters of a text

WrapAssumption ==
    /\ First \in Nat \ {0} /\ Width \in Nat \ {0} /\ MaxRead \in Nat

VARIABLES
    lines,   \* the rows so far
    cur,     \* the row in work
    word,    \* the word in work, with the blank before it
    read,    \* history: letters of the text so far
    length,  \* characters of the text so far
    split    \* history: a word narrower than every row was cut

vars == <<lines, cur, word, read, length, split>>

Row  == [n : Nat, cells : Nat, letters : Nat]
Word == [n : Nat, cells : Nat, letters : Nat, lead : BOOLEAN]

NoRow  == [n |-> 0, cells |-> 0, letters |-> 0]
NoWord == [n |-> 0, cells |-> 0, letters |-> 0, lead |-> FALSE]

Wider == IF First >= Width THEN First ELSE Width

LineWidth(done) == IF done = <<>> THEN First ELSE Width

\* A row and a word after it, with a blank between them unless the word brings its own.
Joined(row, w) ==
    LET blank == IF row.n > 0 /\ ~ w.lead THEN 1 ELSE 0
    IN  [n |-> row.n + blank + w.n, cells |-> row.cells + blank + w.cells,
         letters |-> row.letters + w.letters]

\* The word does not fit the row in work any more.
Overflows(done, row, w) ==
    row.n > 0 /\ row.cells + (IF w.lead THEN 0 ELSE 1) + w.cells > LineWidth(done)

\* Seeded fault: a row that is full is dropped.
FlushWordDrops(done, row, w) ==
    IF w.n = 0 THEN [lines |-> done, cur |-> row]
    ELSE IF Overflows(done, row, w)
         THEN [lines |-> done, cur |-> Joined(NoRow, w)]
         ELSE [lines |-> done, cur |-> Joined(row, w)]

\* flushWord: the word goes to the row in work, or starts the next one.
FlushWord(done, row, w) ==
    IF w.n = 0 THEN [lines |-> done, cur |-> row]
    ELSE IF Overflows(done, row, w)
         THEN [lines |-> Append(done, row), cur |-> Joined(NoRow, w)]
         ELSE [lines |-> done, cur |-> Joined(row, w)]

\* The row in work is finished, if there is one.
Push(f) == IF f.cur.n > 0 THEN Append(f.lines, f.cur) ELSE f.lines

Init ==
    /\ lines = <<>> /\ cur = NoRow /\ word = NoWord
    /\ read = 0 /\ length = 0 /\ split = FALSE

More == length < MaxRead /\ length' = length + 1

Blank == [n |-> 1, cells |-> 1, letters |-> 0, lead |-> TRUE]

\* Seeded fault: a word that reaches the end of the row in work is cut there.
LetterCuts(cells) ==
    LET longer == [word EXCEPT !.n = @ + 1, !.cells = @ + cells, !.letters = @ + 1]
        f == [lines |-> lines, cur |-> Joined(cur, longer)]
    IN  /\ More
        /\ read' = read + 1
        /\ IF f.cur.cells >= LineWidth(lines)
           THEN /\ lines' = Push(f) /\ cur' = NoRow /\ word' = NoWord
                /\ split' = (split \/ longer.cells < Width)
           ELSE word' = longer /\ UNCHANGED <<lines, cur, split>>

\* Seeded fault: a word ends the row only when it is wider than it.
LetterLate(cells) ==
    LET longer == [word EXCEPT !.n = @ + 1, !.cells = @ + cells, !.letters = @ + 1]
        f == FlushWord(lines, cur, longer)
    IN  /\ More
        /\ read' = read + 1
        /\ IF longer.cells > LineWidth(lines)
           THEN /\ lines' = Push(f) /\ cur' = NoRow /\ word' = NoWord
                /\ split' = (split \/ longer.cells < Width)
           ELSE word' = longer /\ UNCHANGED <<lines, cur, split>>

\* A letter of one or two cells; a word as wide as the row ends it.
Letter(cells) ==
    LET longer == [word EXCEPT !.n = @ + 1, !.cells = @ + cells, !.letters = @ + 1]
        f == FlushWord(lines, cur, longer)
    IN  /\ More
        /\ read' = read + 1
        /\ IF longer.cells >= LineWidth(lines)
           THEN /\ lines' = Push(f) /\ cur' = NoRow /\ word' = NoWord
                /\ split' = (split \/ longer.cells < Width)
           ELSE word' = longer /\ UNCHANGED <<lines, cur, split>>

\* A colour: part of the word, no cells.
Escape ==
    /\ More
    /\ word' = [word EXCEPT !.n = @ + 1]
    /\ UNCHANGED <<lines, cur, read, split>>

\* A blank: leading ones ride with the first word, others end the word and start the next.
Space ==
    LET f == FlushWord(lines, cur, word)
    IN  /\ More
        /\ IF cur.n = 0 /\ word.n = 0
           THEN word' = Blank /\ UNCHANGED <<lines, cur>>
           ELSE IF f.cur.n > 0 /\ f.cur.cells + 1 > LineWidth(f.lines)
                THEN lines' = Push(f) /\ cur' = NoRow /\ word' = NoWord
                ELSE lines' = f.lines /\ cur' = f.cur /\ word' = Blank
        /\ UNCHANGED <<read, split>>

\* Seeded fault: the word itself is pushed as a row.
BreakPushesWord ==
    /\ More
    /\ lines' = IF word.n > 0 THEN Append(lines, word) ELSE lines
    /\ cur' = NoRow /\ word' = NoWord
    /\ UNCHANGED <<read, split>>

\* A line break, or the end of the text: empty rows are left out.
Break ==
    LET f == FlushWord(lines, cur, word)
    IN  /\ More
        /\ lines' = Push(f) /\ cur' = NoRow /\ word' = NoWord
        /\ UNCHANGED <<read, split>>

Next == (\E cells \in {1, 2} : Letter(cells)) \/ Escape \/ Space \/ Break

Spec == Init /\ [][Next]_vars

-----------------------------------------------------------------------------
\* Rows and words keep their shape.
TypeOK ==
    /\ lines \in Seq(Row) /\ cur \in Row /\ word \in Word
    /\ read \in Nat /\ length \in Nat /\ split \in BOOLEAN

\* No row is empty, and none is wider than the wider of the two row widths by more than
\* the second half of a double-width letter.
RowsFit == \A i \in DOMAIN lines : lines[i].n > 0 /\ lines[i].cells <= Wider + 1

\* Letters of the finished rows.
Kept ==
    LET sum[i \in 0..Len(lines)] == IF i = 0 THEN 0 ELSE sum[i - 1] + lines[i].letters
    IN  sum[Len(lines)]

\* Every letter read so far is in a row or in the word in work, once.
LettersKept == Kept + cur.letters + word.letters = read

\* When the first row is the widest, as the chat calls it, only a word that fills a row of
\* its own is cut.
WordsWhole == First >= Width => ~ split

=============================================================================
