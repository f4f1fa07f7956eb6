---------------------------- MODULE LlmSessions ----------------------------
(***************************************************************************)
(* The conversations of `progressive-cli llm`: one-shot turns, the          *)
(* interactive chat, archives, the trash and `resume`, all on a directory   *)
(* of files that several terminals of the user read and write without a     *)
(* lock (src/agent_commands_llm.cpp, lib/util/llm_sessions.cpp, saveSession *)
(* and loadSession of agent_tools_state.cpp).                               *)
(*                                                                         *)
(* A conversation is loaded, works in memory while the model answers, and   *)
(* is written back whole.  A message is who wrote it, the turn it belongs   *)
(* to and whether the turn could call tools; its text is left out.          *)
(***************************************************************************)
EXTENDS Integers, Sequences, FiniteSets, SequencesExt

CONSTANTS
    Terminals,   \* processes of the user
    Names,       \* the values of --session, "chat" (none given) among them
    Unclean,     \* those of Names with a character the file name replaces
    Chat,        \* the name of the default conversation
    NoFile, Cut, \* no such file; a file whose writing was cut off
    Over,        \* messages a conversation has before it is compacted (6)
    TailKept,    \* messages a compaction keeps (4)
    HeadPinned, Keep, \* agent.sliding.head and agent.sliding.keep
    MaxTurns,    \* bound on the turns
    MaxStarts,   \* bound on the commands started
    MaxClock     \* bound on the clock

LlmAssumption ==
    /\ Chat \in Names \ Unclean /\ Unclean \subseteq Names /\ NoFile # Cut
    /\ {Over, TailKept, HeadPinned, Keep, MaxTurns, MaxStarts, MaxClock} \subseteq Nat /\ TailKept <= Over

\* A file of the sessions directory: a conversation (at = 0), the archive of one with the
\* second of its archiving, or a trashed one.
Slots == [name : Names, at : 0..MaxClock, trash : BOOLEAN]
Active(n) == [name |-> n, at |-> 0, trash |-> FALSE]
Archive(n, now) == [name |-> n, at |-> now, trash |-> FALSE]

VARIABLES
    files,  \* what each file holds
    term,   \* each terminal: its command, the conversation it works on, what it loaded
            \* (base) and the turns it dropped on purpose (gone)
    turns,  \* turns begun
    starts, \* commands started
    clock   \* the second

vars == <<files, term, turns, starts, clock>>

Off == [at |-> "off", name |-> Chat, hist |-> <<>>, base |-> {}, gone |-> {}]

Message(who, n, tools) == [who |-> who, turn |-> n, tools |-> tools]
Note == Message("user", 0, FALSE)

\* The turns answered in a conversation.
Answered(hist) == { hist[i].turn : i \in { j \in DOMAIN hist : hist[j].who = "assistant" } }
InFile(f) == IF f \in {NoFile, Cut} THEN {} ELSE Answered(f)
OnDisk == UNION { InFile(files[s]) : s \in Slots }

\* loadSession: a missing or broken file leaves the history empty.
Loaded(s) == IF files[s] \in {NoFile, Cut} THEN <<>> ELSE files[s]

Init ==
    /\ files \in { [s \in Slots |-> IF s = Active(n) THEN <<Message("user", 1, FALSE),
                                                            Message("assistant", 1, FALSE)>>
                                    ELSE NoFile] : n \in Names }
    /\ term = [p \in Terminals |-> Off]
    /\ turns = 1 /\ starts = 0 /\ clock = 1

-----------------------------------------------------------------------------
(* The history a request is made with. *)

Newest(h, k) == SubSeq(h, Len(h) - k + 1, Len(h))

\* compactHistory: the old messages become one summary, if the model writes it.
Compacted(h) == IF Len(h) <= Over THEN h ELSE <<Note>> \o Newest(h, TailKept)

\* slidingTrim: [head][drop notice][tail].
Slid(h) ==
    LET head == IF HeadPinned < Len(h) THEN HeadPinned ELSE Len(h)
        tail == IF Keep < Len(h) - head THEN Keep ELSE Len(h) - head
    IN  IF Len(h) <= head + tail + 2 THEN h
        ELSE SubSeq(h, 1, head) \o <<Note>> \o Newest(h, tail)

\* Whether the conversation fills enough of the model's context is the texts' matter, the
\* mode the configuration's; a result that is no shorter is not taken.
Trims(h, modes) ==
    {h} \cup { t \in { IF m = "compact" THEN Compacted(h) ELSE Slid(h) : m \in modes } :
                   Len(h) > Over /\ Len(t) < Len(h) }

\* archiveSession: the file is renamed; with a name that is not clean the target's
\* directory does not exist, and the error is ignored.
Archived(n) ==
    IF files[Active(n)] = NoFile \/ n \in Unclean THEN files
    ELSE [files EXCEPT ![Archive(n, clock)] = files[Active(n)], ![Active(n)] = NoFile]

\* A command starts on a free terminal.
Starts(p) == term[p].at = "off" /\ starts < MaxStarts /\ starts' = starts + 1

\* --fresh archives and starts empty, otherwise the saved conversation is loaded.
Begin(p, n, fresh, at, hist) ==
    /\ files' = IF fresh THEN Archived(n) ELSE files
    /\ term' = [term EXCEPT ![p] = [at |-> at, name |-> n, hist |-> hist,
                                    base |-> InFile(files[Active(n)]),
                                    gone |-> InFile(files[Active(n)]) \ Answered(hist)]]

History(n, fresh) == IF fresh THEN <<>> ELSE Loaded(Active(n))

\* saveSession: the whole file is written over.
Save(p, hist) == files' = [files EXCEPT ![Active(term[p].name)] = hist]

-----------------------------------------------------------------------------
(* llm <prompt> and llm continue *)

\* One turn: the question joins the history, which is trimmed if it has grown too long,
\* and the request is sent.
Turn(p) ==
    \E n \in Names, fresh \in BOOLEAN :
        /\ Starts(p) /\ turns < MaxTurns
        /\ turns' = turns + 1
        /\ \E h \in Trims(Append(History(n, fresh), Message("user", turns + 1, FALSE)),
                          {"compact", "sliding"}) :
               Begin(p, n, fresh, "turn", h)
        /\ UNCHANGED clock

\* With --tools the turn is a run of the agent (AgentRun): it adds the question itself.
TurnTools(p) ==
    \E n \in Names, fresh \in BOOLEAN :
        /\ Starts(p) /\ turns < MaxTurns
        /\ turns' = turns + 1
        /\ Begin(p, n, fresh, "turn",
                 Append(History(n, fresh), Message("user", turns + 1, TRUE)))
        /\ UNCHANGED clock

\* The answer to the last question, after tool calls if there may be some.
Reply(h) ==
    LET q == h[Len(h)]
        a == Append(h, Message("assistant", q.turn, q.tools))
    IN  IF q.tools THEN {a, h \o <<Message("assistant", q.turn, TRUE), Message("tool", q.turn, TRUE),
                                   Message("assistant", q.turn, TRUE)>>}
        ELSE {a}

\* The answer comes and the conversation is saved.
TurnOk(p) ==
    /\ term[p].at = "turn"
    /\ \E h \in Reply(term[p].hist) : Save(p, h)
    /\ term' = [term EXCEPT ![p] = Off]
    /\ UNCHANGED <<turns, starts, clock>>

\* The request fails: nothing is saved.
TurnFails(p) ==
    /\ term[p].at = "turn"
    /\ term' = [term EXCEPT ![p] = Off]
    /\ UNCHANGED <<files, turns, starts, clock>>

-----------------------------------------------------------------------------
(* llm chat *)

ChatStarts(p) ==
    \E n \in Names, fresh \in BOOLEAN :
        /\ Starts(p)
        /\ Begin(p, n, fresh, "chat", History(n, fresh))
        /\ UNCHANGED <<turns, clock>>

\* A line is typed: the question joins the history, which may be compacted; with --tools the
\* run of the agent adds it.
ChatLine(p) ==
    /\ term[p].at = "chat" /\ turns < MaxTurns
    /\ turns' = turns + 1
    /\ \E tools \in BOOLEAN :
          LET asked == Append(term[p].hist, Message("user", turns + 1, tools))
          IN  \E h \in IF tools THEN {asked} ELSE Trims(asked, {"compact"}) :
                 term' = [term EXCEPT ![p].at = "line", ![p].hist = h,
                             ![p].gone = @ \cup (Answered(asked) \ Answered(h))]
    /\ UNCHANGED <<files, starts, clock>>

LineOk(p) ==
    /\ term[p].at = "line"
    /\ \E h \in Reply(term[p].hist) : term' = [term EXCEPT ![p].at = "chat", ![p].hist = h]
    /\ UNCHANGED <<files, turns, starts, clock>>

\* Seeded fault: a question without an answer stays in the history.
LineFailsKept(p) ==
    /\ term[p].at = "line"
    /\ term' = [term EXCEPT ![p].at = "chat"]
    /\ UNCHANGED <<files, turns, starts, clock>>

\* The request fails: the question is taken back, but not what a run of the agent added.
LineFails(p) ==
    /\ term[p].at = "line"
    /\ LET h == term[p].hist
       IN  term' = [term EXCEPT ![p].at = "chat",
                                ![p].hist = IF h[Len(h)].tools THEN h ELSE Front(h)]
    /\ UNCHANGED <<files, turns, starts, clock>>

\* /clear
ChatClears(p) ==
    /\ term[p].at = "chat" /\ term[p].hist # <<>>
    /\ term' = [term EXCEPT ![p].hist = <<>>, ![p].gone = @ \cup Answered(term[p].hist)]
    /\ UNCHANGED <<files, turns, starts, clock>>

\* /exit or Ctrl+C: only now the conversation is saved.
ChatEnds(p) ==
    /\ term[p].at = "chat"
    /\ Save(p, term[p].hist)
    /\ term' = [term EXCEPT ![p] = Off]
    /\ UNCHANGED <<turns, starts, clock>>

-----------------------------------------------------------------------------
(* llm sessions, llm resume, and what happens to a process *)

\* Seeded fault: the removed conversation is deleted.
RemoveForGood(p) ==
    \E s \in Slots :
        /\ Starts(p) /\ ~ s.trash /\ files[s] # NoFile
        /\ files' = [files EXCEPT ![s] = NoFile]
        /\ UNCHANGED <<term, turns, clock>>

\* llm sessions rm: the file moves to the trash; with a name that is not clean it stays
\* where it is, whatever the command says.
RemoveSession(p) ==
    \E s \in Slots :
        /\ Starts(p) /\ ~ s.trash /\ files[s] # NoFile /\ s.name \notin Unclean
        /\ files' = [files EXCEPT ![[s EXCEPT !.trash = TRUE, !.at = clock]] = files[s],
                                  ![s] = NoFile]
        /\ UNCHANGED <<term, turns, clock>>

\* Seeded fault: the conversation in use is copied over without being archived.
ResumeOver(p) ==
    \E s \in Slots :
        /\ Starts(p) /\ ~ s.trash /\ files[s] # NoFile /\ s # Active(Chat)
        /\ files' = [files EXCEPT ![Active(Chat)] = files[s]]
        /\ UNCHANGED <<term, turns, clock>>

\* llm resume: the default conversation is archived and a copy of the chosen one takes its
\* place.  With a message a turn follows.
Resume(p) ==
    \E s \in Slots :
        /\ Starts(p) /\ ~ s.trash /\ files[s] # NoFile /\ s # Active(Chat)
        /\ files' = [Archived(Chat) EXCEPT ![Active(Chat)] = Archived(Chat)[s]]
        /\ UNCHANGED <<term, turns, clock>>

\* The process is killed; while it writes, the file is left cut off.
Killed(p) ==
    /\ term[p].at # "off"
    /\ \/ UNCHANGED files
       \/ term[p].at = "chat" /\ Save(p, Cut)
    /\ term' = [term EXCEPT ![p] = Off]
    /\ UNCHANGED <<turns, starts, clock>>

Tick ==
    /\ clock < MaxClock /\ clock' = clock + 1
    /\ UNCHANGED <<files, term, turns, starts>>

\* cmdLlm: the subcommands.
Command(p) ==
    \/ Turn(p) \/ TurnTools(p) \/ TurnOk(p) \/ TurnFails(p)
    \/ ChatStarts(p) \/ ChatLine(p) \/ LineOk(p) \/ LineFails(p) \/ ChatClears(p) \/ ChatEnds(p)
    \/ RemoveSession(p) \/ Resume(p)

Next == Tick \/ \E p \in Terminals : Command(p) \/ Killed(p)

Spec == Init /\ [][Next]_vars

-----------------------------------------------------------------------------
(* Properties. *)

Messages == [who : {"user", "assistant", "tool"}, turn : 0..MaxTurns, tools : BOOLEAN]

\* Type invariant.
TypeOK ==
    /\ \A s \in Slots : files[s] \in {NoFile, Cut} \/ files[s] \in Seq(Messages)
    /\ \A p \in Terminals :
          /\ term[p].at \in {"off", "turn", "chat", "line"} /\ term[p].name \in Names
          /\ term[p].hist \in Seq(Messages)
          /\ term[p].base \cup term[p].gone \subseteq 1..MaxTurns
    /\ turns \in 0..MaxTurns /\ starts \in 0..MaxStarts /\ clock \in 0..MaxClock

Alternating(h) ==
    (\A i \in DOMAIN h : ~ h[i].tools) =>
        \A i \in DOMAIN h : (h[i].who = "user") = (i % 2 = 1)

\* Where no tools were used, questions and answers alternate in every conversation that is
\* saved, from a question to an answer, and every request ends with its question: whatever
\* failed, was cleared, compacted, archived or cut off before.
TurnsAlternate ==
    /\ \A s \in Slots : files[s] \notin {NoFile, Cut} => Alternating(files[s])
    /\ \A p \in Terminals :
          /\ Alternating(term[p].hist)
          /\ (term[p].at \in {"turn", "line"}) => term[p].hist[Len(term[p].hist)].who = "user"

Lost == OnDisk \ UNION { InFile(files'[s]) : s \in Slots }

\* "never destroy, archive": a turn that was answered and saved leaves the disk only when a
\* process writes over it that had not loaded it, that dropped it from its own history (by
\* /clear or a compaction), or that was killed while it wrote; or when two archives of one
\* conversation are made in the same second.
NeverDestroyed ==
    Lost # {} =>
        \/ \E p \in Terminals :
              /\ term[p].at \in {"turn", "chat"} /\ term'[p] = Off
              /\ \/ files'[Active(term[p].name)] = Cut
                 \/ \A t \in Lost : t \notin term[p].base \/ t \in term[p].gone
        \/ \E s \in Slots : s.at = clock /\ files[s] # NoFile /\ files'[s] # files[s]

=============================================================================
