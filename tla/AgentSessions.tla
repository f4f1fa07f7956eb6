--------------------------- MODULE AgentSessions ----------------------------
(***************************************************************************)
(* The conversation of the `agent` command in the ASCII interface           *)
(* (src/ascii_ui_agent_repl.cpp): one history in memory, the tabs it is     *)
(* switched between, the files it is saved to and loaded from, and the      *)
(* commands that cut it (compact, undo, edit, reset), with the runs that    *)
(* extend it (agenttools::run).                                             *)
(*                                                                         *)
(* A message is who wrote it and, for an answer that calls tools, how many  *)
(* calls it makes.  What a run does inside is AgentRun; here it appends     *)
(* answers with calls and their results, compacts, and ends.                *)
(***************************************************************************)
EXTENDS Integers, Sequences, FiniteSets

CONSTANTS
    Tabs,        \* names of `agent sessions`
    Main,        \* the conversation without a name
    Saves,       \* names of `agent session`
    Last,        \* the one a single run is saved under
    Outside,     \* a file outside the directory, for export and import
    NoFile,      \* no such file
    KeepTail,    \* messages an automatic compaction keeps (6)
    Calls,       \* the numbers of calls an answer may make
    MaxRuns, MaxAnswers, MaxCommands   \* bounds: runs, answers of one run, commands

SessionsAssumption ==
    /\ Last \in Saves /\ Main \notin Tabs /\ Calls \subseteq Nat \ {0}
    /\ \A t \in Tabs : Outside # <<"tab", t>>
    /\ {KeepTail, MaxRuns, MaxAnswers, MaxCommands} \subseteq Nat

Slots == { <<"tab", t>> : t \in Tabs } \cup { <<"saved", s>> : s \in Saves } \cup {Outside}

VARIABLES
    hist,       \* agentHistory
    tab,        \* activeName
    saved,      \* what each file holds
    dir,        \* .agent-sessions exists
    run,        \* what goes on: nothing, or a run of some kind
    answers,    \* answers of the run so far
    runs,       \* runs so far
    left,       \* the conversation a tab was left with
    issued      \* commands so far

vars == <<hist, tab, saved, dir, run, answers, runs, left, issued>>

\* Only an answer makes calls.
Messages == [who : {"user", "tool", "note"}, n : {0}] \cup [who : {"assistant"}, n : Calls \cup {0}]
Histories == Seq(Messages)

User == [who |-> "user", n |-> 0]
Note == [who |-> "note", n |-> 0]
Text == [who |-> "assistant", n |-> 0]
Asks(n) == [who |-> "assistant", n |-> n]
Result == [who |-> "tool", n |-> 0]

Newest(h, k) == SubSeq(h, Len(h) - k + 1, Len(h))

\* saveSession, into a directory that may be missing: then nothing is written.
Written(slot, h, there) ==
    IF slot = Outside \/ there THEN [saved EXCEPT ![slot] = h] ELSE saved

\* loadSession: a missing file leaves the history as it is.
Loaded(slot, h) == IF saved[slot] = NoFile THEN h ELSE saved[slot]

Init ==
    /\ dir \in BOOLEAN
    /\ saved = [s \in Slots |-> IF s = <<"saved", Last>> /\ dir THEN <<User, Text>> ELSE NoFile]
    /\ hist = Loaded(<<"saved", Last>>, <<>>)
    /\ tab = Main
    /\ run = "none" /\ answers = 0 /\ runs = 0
    /\ left = [t \in Tabs |-> NoFile]
    /\ issued = 0

\* A command is typed while nothing runs.
Command == run = "none" /\ issued < MaxCommands /\ issued' = issued + 1

-----------------------------------------------------------------------------
(* agent sessions: the tabs. *)

\* sessions new: the file is emptied; the history in memory stays, and the tab that is left
\* is not saved.
NewTab ==
    \E t \in Tabs :
        /\ Command
        /\ saved' = Written(<<"tab", t>>, <<>>, dir)
        /\ tab' = t
        /\ left' = [left EXCEPT ![t] = NoFile]
        /\ UNCHANGED <<hist, dir, run, answers, runs>>

\* Seeded fault: the tab that is left is not saved.
SwitchUnsaved ==
    \E t \in Tabs :
        /\ Command
        /\ hist' = Loaded(<<"tab", t>>, <<>>)
        /\ tab' = t
        /\ left' = IF tab = Main \/ ~dir THEN left ELSE [left EXCEPT ![tab] = hist]
        /\ UNCHANGED <<saved, dir, run, answers, runs>>

\* sessions switch: the tab that is left is saved - the main conversation is not - and the
\* other one is loaded.
Switch ==
    \E t \in Tabs :
        /\ Command
        /\ saved' = IF tab = Main THEN saved ELSE Written(<<"tab", tab>>, hist, dir)
        /\ hist' = IF saved'[<<"tab", t>>] = NoFile THEN <<>> ELSE saved'[<<"tab", t>>]
        /\ tab' = t
        /\ left' = IF tab = Main \/ ~dir THEN left ELSE [left EXCEPT ![tab] = hist]
        /\ UNCHANGED <<dir, run, answers, runs>>

-----------------------------------------------------------------------------
(* agent session: files. *)

SaveAs ==
    \E s \in Saves :
        /\ Command
        /\ dir' = TRUE
        /\ saved' = Written(<<"saved", s>>, hist, TRUE)
        /\ UNCHANGED <<hist, tab, run, answers, runs, left>>

LoadFrom ==
    \E s \in Saves :
        /\ Command
        /\ hist' = Loaded(<<"saved", s>>, hist)
        /\ UNCHANGED <<tab, saved, dir, run, answers, runs, left>>

Export ==
    /\ Command
    /\ saved' = Written(Outside, hist, dir)
    /\ UNCHANGED <<hist, tab, dir, run, answers, runs, left>>

\* The imported conversation is saved under its own name as well.
Import ==
    \E s \in Saves :
        /\ Command /\ saved[Outside] # NoFile
        /\ hist' = saved[Outside]
        /\ dir' = TRUE
        /\ saved' = Written(<<"saved", s>>, saved[Outside], TRUE)
        /\ UNCHANGED <<tab, run, answers, runs, left>>

-----------------------------------------------------------------------------
(* Commands that cut the history. *)

UserAt(h) == { i \in DOMAIN h : h[i].who \in {"user", "note"} }

\* The place of the k-th question from the end, a note counting as one; 0 if there are fewer.
FromEnd(h, k) ==
    LET places == { i \in UserAt(h) : Cardinality({ j \in UserAt(h) : j >= i }) = k }
    IN  IF places = {} THEN 0 ELSE CHOOSE i \in places : TRUE

\* compact here k: the last k turns stay, after a note.  (Without k only the text of old
\* results is dropped.)
CompactHere ==
    \E k \in {1, 2} :
        /\ Command
        /\ LET first == IF FromEnd(hist, k) # 0 THEN FromEnd(hist, k)
                        ELSE IF UserAt(hist) = {} THEN Len(hist) + 1
                        ELSE CHOOSE i \in UserAt(hist) : \A j \in UserAt(hist) : i <= j
           IN  hist' = <<Note>> \o SubSeq(hist, first, Len(hist))
        /\ UNCHANGED <<tab, saved, dir, run, answers, runs, left>>

\* Seeded fault: the last k messages are dropped instead of the last k turns.
UndoMessages ==
    \E k \in {1, 2} :
        /\ Command
        /\ hist' = SubSeq(hist, 1, Len(hist) - k)
        /\ UNCHANGED <<tab, saved, dir, run, answers, runs, left>>

\* undo k: everything from the k-th question from the end is dropped.
Undo ==
    \E k \in {1, 2} :
        /\ Command
        /\ hist' = SubSeq(hist, 1, IF FromEnd(hist, k) = 0 THEN 0 ELSE FromEnd(hist, k) - 1)
        /\ UNCHANGED <<tab, saved, dir, run, answers, runs, left>>

\* edit [k]: the k-th question from the end gets another text and becomes the last message.
Edit ==
    \E k \in {1, 2} :
        /\ Command
        /\ FromEnd(hist, k) # 0
        /\ hist' = Append(SubSeq(hist, 1, FromEnd(hist, k) - 1), hist[FromEnd(hist, k)])
        /\ UNCHANGED <<tab, saved, dir, run, answers, runs, left>>

Reset ==
    /\ Command
    /\ hist' = <<>>
    /\ UNCHANGED <<tab, saved, dir, run, answers, runs, left>>

-----------------------------------------------------------------------------
(* Runs. *)

\* agent <prompt>, a line of the loop, a cron job or the approved plan: the question joins
\* the history.
Prompt ==
    /\ run = "none" /\ runs < MaxRuns
    /\ runs' = runs + 1 /\ answers' = 0
    /\ run' \in {"once", "loop"}
    /\ hist' = Append(hist, User)
    /\ UNCHANGED <<tab, saved, dir, left, issued>>

\* The automatic compaction: a summary, unless the model fails to write it, and the newest
\* messages.
Compacted(h) ==
    LET tail == Newest(h, IF KeepTail < Len(h) THEN KeepTail ELSE Len(h))
    IN  {tail, <<Note>> \o tail}

\* Seeded fault: the results of an answer are dropped when a compaction follows it.
AnswerCallsCut ==
    \E n \in Calls :
        /\ run # "none" /\ answers < MaxAnswers
        /\ answers' = answers + 1
        /\ \E h \in {Append(hist, Asks(n)) \o [i \in 1..n |-> Result]}
                    \cup Compacted(Append(hist, Asks(n))) : hist' = h
        /\ UNCHANGED <<tab, saved, dir, run, runs, left, issued>>

\* An answer with calls: it may be too much for the context, and then its results follow.
AnswerCalls ==
    \E n \in Calls :
        /\ run # "none" /\ answers < MaxAnswers
        /\ answers' = answers + 1
        /\ \E h \in {Append(hist, Asks(n))} \cup Compacted(Append(hist, Asks(n))) :
               hist' = h \o [i \in 1..n |-> Result]
        /\ UNCHANGED <<tab, saved, dir, run, runs, left, issued>>

\* The run ends, with an answer or an error (a failed request, an interrupt, the e-stop, too
\* many answers).  Only a single run is saved, as the last conversation.
RunEnds ==
    \E h \in {hist, Append(hist, Text)} :
        /\ run # "none"
        /\ run' = "none"
        /\ hist' = h
        /\ dir' = (dir \/ run = "once")
        /\ saved' = IF run = "once" THEN Written(<<"saved", Last>>, h, TRUE) ELSE saved
        /\ UNCHANGED <<tab, answers, runs, left, issued>>

\* sessions and session list, log, usage, providers and lsp only print.
Prints == Command /\ UNCHANGED <<hist, tab, saved, dir, run, answers, runs, left>>

\* The interface is left and started again: the last conversation is loaded.
Restart ==
    /\ Command
    /\ hist' = Loaded(<<"saved", Last>>, <<>>)
    /\ tab' = Main
    /\ UNCHANGED <<saved, dir, run, answers, runs, left>>

Next ==
    \/ NewTab \/ Switch \/ SaveAs \/ LoadFrom \/ Export \/ Import
    \/ CompactHere \/ Undo \/ Edit \/ Reset
    \/ Prints \/ Prompt \/ AnswerCalls \/ RunEnds \/ Restart

Spec == Init /\ [][Next]_vars

-----------------------------------------------------------------------------
(* Properties. *)

\* Type invariant.
TypeOK ==
    /\ hist \in Histories /\ tab \in Tabs \cup {Main} /\ dir \in BOOLEAN
    /\ \A s \in Slots : saved[s] \in Histories \cup {NoFile}
    /\ \A t \in Tabs : left[t] \in Histories \cup {NoFile}
    /\ run \in {"none", "once", "loop"}
    /\ answers \in 0..MaxAnswers /\ runs \in 0..MaxRuns /\ issued \in 0..MaxCommands

\* Every answer with calls is followed by its results, and nothing else follows it.  A result
\* without its call stands at the head of the history: an automatic compaction cuts between
\* an answer and its results.
Paired(h) ==
    /\ \A i \in DOMAIN h : \A k \in 1..h[i].n : i + k \in DOMAIN h /\ h[i + k].who = "tool"
    /\ \A i \in DOMAIN h : h[i].who = "tool" =>
          \/ \E j \in 1..(i - 1) : j + h[j].n >= i
          \/ \A j \in 1..(i - 1) : h[j].who \in {"tool", "note"}

\* So the model is never sent a call without its results, or the reverse, whatever was
\* undone, edited, compacted, switched, saved and loaded before.
ToolsPaired == Paired(hist) /\ \A s \in Slots : saved[s] # NoFile => Paired(saved[s])

\* Switching back to a tab shows the conversation it was left with by a switch.
SwitchBackShows ==
    \A t \in Tabs :
        (Switch /\ tab' = t /\ t # tab /\ left[t] # NoFile) => hist' = left[t]

=============================================================================
