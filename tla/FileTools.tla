----------------------------- MODULE FileTools -----------------------------
(***************************************************************************)
(* The agent's tools that change a file in place: edit_file and apply_patch *)
(* (src/agent_tools_file.cpp), and read_file, with which the model pages    *)
(* through it.  They are functions of the files they find, checked against  *)
(* what their descriptions promise: a behaviour is one call on one state of *)
(* the directory.  A text is a sequence of symbols, "\n" among them.  What  *)
(* another process does to a file between the reading and the writing of an *)
(* edit is left out.                                                        *)
(***************************************************************************)
EXTENDS Integers, Sequences
LOCAL INSTANCE SequencesExt

CONSTANTS
    Paths,      \* paths of files
    Disks,      \* directories to begin with: functions from paths to texts or NoText
    NoText,     \* what a path holds that no file has
    Bodies,     \* contents of files to add, as sequences of lines
    Parts,      \* texts to replace and to replace them, as sequences of lines
    ReadLimit   \* 60000: symbols that read_file looks at

FileToolsAssumption == ReadLimit \in Nat \ {0} /\ \A d \in Disks : DOMAIN d = Paths

VARIABLES
    disk,   \* the files
    call    \* the call made, with the files it found and the number of its reports

filesVars == <<disk, call>>

NoCall == [tool |-> "none", hunks |-> <<>>, path |-> "", old |-> <<>>, new |-> <<>>,
           all |-> FALSE, before |-> <<>>, report |-> 0]

TypeOK == DOMAIN disk = Paths /\ call.tool \in {"none", "edit", "patch"} /\ call.report \in Nat

Init == disk \in Disks /\ call = NoCall

-----------------------------------------------------------------------------
\* A text of lines, each ended; without the last end.
Text(lines) == LET Ended(t, line) == t \o line \o <<"\n">> IN FoldLeft(Ended, <<>>, lines)
Chopped(text) == IF text # <<>> /\ Last(text) = "\n" THEN Front(text) ELSE text

\* Where old stands in a text; find: the first such place from one on, 0 for npos.
Places(text, old) ==
    {i \in 1..Len(text) : i + Len(old) - 1 <= Len(text) /\ SubSeq(text, i, i + Len(old) - 1) = old}
Find(text, old, from) ==
    LET at == {i \in Places(text, old) : i >= from} IN
    IF at = {} THEN 0 ELSE CHOOSE i \in at : \A j \in at : i <= j

\* Seeded fault: the search goes on one symbol further.
ReplacedAllNear(text, old, new) ==
    LET rest[i \in 1..Len(text) + 1] ==
            LET j == Find(text, old, i) IN
            IF j = 0 THEN SubSeq(text, i, Len(text))
            ELSE SubSeq(text, i, j - 1) \o new \o rest[j + 1] IN
    rest[1]

\* Every old one, each searched for behind the replacement of the one before.
ReplacedAll(text, old, new) ==
    LET rest[i \in 1..Len(text) + 1] ==
            LET j == Find(text, old, i) IN
            IF j = 0 THEN SubSeq(text, i, Len(text))
            ELSE SubSeq(text, i, j - 1) \o new \o rest[j + Len(old)] IN
    rest[1]

\* Seeded fault: the second one is searched for behind the first.
EditFileBehind(files, path, old, new, all) ==
    LET text == files[path]
        first == Find(text, old, 1) IN
    IF text = NoText \/ old = <<>> \/ old = new \/ first = 0 THEN files
    ELSE IF all THEN [files EXCEPT ![path] = ReplacedAll(text, old, new)]
    ELSE IF Find(text, old, first + Len(old)) # 0 THEN files
    ELSE [files EXCEPT ![path] = ReplaceSubSeqAt(first, new, old, text)]

\* editFile: every error leaves the files as they are.
EditFile(files, path, old, new, all) ==
    LET text == files[path]
        first == Find(text, old, 1) IN
    IF text = NoText \/ old = <<>> \/ old = new \/ first = 0 THEN files
    ELSE IF all THEN [files EXCEPT ![path] = ReplacedAll(text, old, new)]
    ELSE IF Find(text, old, first + 1) # 0 THEN files
    ELSE [files EXCEPT ![path] = ReplaceSubSeqAt(first, new, old, text)]

Edit(path, old, new, all) ==
    /\ disk' = EditFile(disk, path, old, new, all)
    /\ call' = [NoCall EXCEPT !.tool = "edit", !.path = path, !.old = old, !.new = new,
                              !.all = all, !.before = disk]

-----------------------------------------------------------------------------
\* The lines of a patch: markers, with the path of a file, and contents.
Marker(name, path) == [mark |-> name, path |-> path, text |-> <<>>]
Content(text) == [mark |-> "", path |-> "", text |-> text]

\* What applyPatch remembers from line to line; path "" is an empty one.
Started(files) ==
    [files |-> files, mode |-> "", path |-> "", cur |-> <<>>, old |-> <<>>, new |-> <<>>,
     collecting |-> TRUE, report |-> 0]

\* flush: what the lines since the last header ask for is done, and reported.
Flush(p) ==
    IF p.path = "" THEN p
    ELSE [p EXCEPT !.report = @ + 1,
                   !.files = CASE p.mode = "Add" -> [@ EXCEPT ![p.path] = p.cur]
                               [] p.mode = "Delete" -> [@ EXCEPT ![p.path] = NoText]
                               [] p.mode = "Update" ->
                                     EditFile(@, p.path, Chopped(p.old), Chopped(p.new), FALSE)]

\* A line of contents goes to where the headers before it say.
Collect(p, line) ==
    LET text == line.text \o <<"\n">> IN
    IF p.mode # "Update" THEN [p EXCEPT !.cur = @ \o text]
    ELSE IF p.collecting THEN [p EXCEPT !.old = @ \o text]
    ELSE [p EXCEPT !.new = @ \o text]

\* Seeded fault: what was collected for one file is not cleared for the next.
PatchLineKeeps(p, line) ==
    CASE line.mark \in {"Add", "Delete", "Update"} ->
             [Flush(p) EXCEPT !.mode = line.mark, !.path = line.path]
      [] line.mark = "End of File" -> [Flush(p) EXCEPT !.path = ""]
      [] line.mark = "Begin Replacement" -> [p EXCEPT !.collecting = FALSE]
      [] line.mark \in {"Begin Change", "End Change", "End Replacement"} -> p
      [] line.mark = "" -> Collect(p, line)

\* applyPatch, line by line.  "Begin Change" does not turn back to the old text.
PatchLine(p, line) ==
    CASE line.mark \in {"Add", "Delete"} ->
             [Flush(p) EXCEPT !.mode = line.mark, !.path = line.path, !.cur = <<>>]
      [] line.mark = "Update" ->
             [Flush(p) EXCEPT !.mode = "Update", !.path = line.path, !.old = <<>>, !.new = <<>>,
                              !.collecting = TRUE]
      [] line.mark = "End of File" -> [Flush(p) EXCEPT !.path = ""]
      [] line.mark = "Begin Replacement" -> [p EXCEPT !.collecting = FALSE]
      [] line.mark \in {"Begin Change", "End Change", "End Replacement"} -> p
      [] line.mark = "" -> Collect(p, line)

ApplyPatch(files, lines) == Flush(FoldLeft(PatchLine, Started(files), lines))

\* What a patch says of one file, and how the description of the tool has it written; the end
\* of an added file may be left out.
Hunks ==
    [mode : {"Add"}, path : Paths, body : Bodies, ended : BOOLEAN] \cup
    [mode : {"Update"}, path : Paths, old : Parts, new : Parts] \cup
    [mode : {"Delete"}, path : Paths]

Lines(texts) == [i \in 1..Len(texts) |-> Content(texts[i])]
Written(hunk) ==
    <<Marker(hunk.mode, hunk.path)>> \o
    CASE hunk.mode = "Add" ->
             Lines(hunk.body) \o (IF hunk.ended THEN <<Marker("End of File", "")>> ELSE <<>>)
      [] hunk.mode = "Delete" -> <<>>
      [] hunk.mode = "Update" ->
             <<Marker("Begin Change", "")>> \o Lines(hunk.old) \o
             <<Marker("End Change", ""), Marker("Begin Replacement", "")>> \o Lines(hunk.new) \o
             <<Marker("End Replacement", "")>>

Patch(hunks) ==
    /\ LET p == ApplyPatch(disk, FlattenSeq([i \in 1..Len(hunks) |-> Written(hunks[i])])) IN
       /\ disk' = p.files
       /\ call' = [NoCall EXCEPT !.tool = "patch", !.hunks = hunks, !.before = disk,
                                 !.report = p.report]

\* One call.
Next ==
    /\ call = NoCall
    /\ \/ \E path \in Paths, old, new \in Parts, all \in BOOLEAN :
             Edit(path, Chopped(Text(old)), Chopped(Text(new)), all)
       \/ \E first \in Hunks :
             Patch(<<first>>) \/ \E second \in Hunks : Patch(<<first, second>>)

-----------------------------------------------------------------------------
\* What read_file is cut to, with a line that says so, and its lines as getline counts them.
Shortened(text) == IF Len(text) > ReadLimit THEN SubSeq(text, 1, ReadLimit) \o <<"\n", "...">> ELSE text
LinesOf(text) ==
    LET Take(p, s) == IF s = "\n" THEN [lines |-> Append(p.lines, p.rest), rest |-> <<>>]
                      ELSE [p EXCEPT !.rest = Append(@, s)]
        p == FoldLeft(Take, [lines |-> <<>>, rest |-> <<>>], text) IN
    IF p.rest = <<>> THEN p.lines ELSE Append(p.lines, p.rest)

\* Seeded fault: an offset counts the lines to leave out.
ReadFileSkips(text, offset, limit) ==
    LET lines == LinesOf(Shortened(text)) IN
    [i \in {n \in 1..Len(lines) : offset < n /\ n <= offset + limit} |-> lines[i]]

\* readFile: the numbered lines shown.
ReadFile(text, offset, limit) ==
    LET lines == LinesOf(Shortened(text)) IN
    [i \in {n \in 1..Len(lines) : offset <= n /\ n < offset + limit} |-> lines[i]]

-----------------------------------------------------------------------------
\* What the tool promises of one replacement: the only occurrence, and nothing else, changes.
OneReplaced(text, old, new) ==
    IF text # NoText /\ old # <<>> /\ \E i \in Places(text, old) : Places(text, old) = {i}
    THEN CHOOSE t \in {ReplaceSubSeqAt(i, new, old, text) : i \in Places(text, old)} : TRUE
    ELSE text

\* "Replace an exact string occurrence in a file (fails if it is missing or appears more than
\* once, unless replaceAll is true)": the occurrence changes or the files stay; with all of
\* them replaced by something the text knew nothing of, none is left, and the way back leads
\* to the text as it was.
EditAsPromised ==
    call.tool = "edit" =>
        LET text == call.before[call.path]
            now == disk[call.path] IN
        /\ \A q \in Paths \ {call.path} : disk[q] = call.before[q]
        /\ ~ call.all => now = OneReplaced(text, call.old, call.new)
        /\ call.all /\ text # NoText /\ call.old # <<>> /\ call.new # <<>>
              /\ ToSet(call.new) \cap (ToSet(text) \cup ToSet(call.old)) = {} =>
                 Places(now, call.old) = {} /\ ReplacedAll(now, call.new, call.old) = text

\* A patch does what it says file by file, in its order; what cannot be done of it is left
\* out, the rest is done all the same, and each gets its line of the report.
PatchAsWritten ==
    call.tool = "patch" =>
        LET Do(files, h) ==
                [files EXCEPT ![h.path] =
                    CASE h.mode = "Add" -> Text(h.body)
                      [] h.mode = "Delete" -> NoText
                      [] h.mode = "Update" ->
                            OneReplaced(@, Chopped(Text(h.old)), Chopped(Text(h.new)))] IN
        disk = FoldLeft(Do, call.before, call.hunks) /\ call.report = Len(call.hunks)

\* "use offset/limit to page through long files": page by page every line is shown once, under
\* its number - of the first ReadLimit symbols, which no offset gets past.
PagesShowAll ==
    \A q \in Paths, limit \in 1..2 :
        disk[q] # NoText =>
            LET lines == LinesOf(disk[q])
                page == [k \in 0..Len(lines) |-> ReadFile(disk[q], 1 + k * limit, limit)] IN
            \A n \in 1..Len(lines) :
                LET shown == {k \in DOMAIN page : n \in DOMAIN page[k]} IN
                Len(Text(SubSeq(lines, 1, n))) <= ReadLimit =>
                    /\ \E k \in shown : shown = {k}
                    /\ \A k \in shown : page[k][n] = lines[n]
=============================================================================
