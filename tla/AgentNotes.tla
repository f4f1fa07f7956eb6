----------------------------- MODULE AgentNotes -----------------------------
(***************************************************************************)
(* The agent's notes (notesTool, applyNotesOp and splitEntries of           *)
(* src/agent_tools_state.cpp): a file of entries, changed by batches of     *)
(* add, replace and remove, within a budget.                                *)
(*                                                                         *)
(* The entries are joined by a separator of four bytes and split after      *)
(* three of them: with every reading each entry but the first grows by a    *)
(* line break, and one more entry appears that holds nothing else.  An      *)
(* entry is its text and the line breaks before it.                         *)
(***************************************************************************)
EXTENDS Integers, Sequences, FiniteSets, SequencesExt

CONSTANTS
    Runs,          \* the agents that may work in this directory at once
    Idle,          \* an agent without a batch under way
    Torn,          \* a temporary file that is being written
    Texts,         \* what notes say
    Twice,         \* texts in which their own words occur twice
    Budget,        \* bytes of the file (2200, or 1375 for the user's)
    MaxBatches     \* bound on the batches

NotesAssumption == Budget \in Nat /\ MaxBatches \in Nat /\ Twice \subseteq Texts

Blank == "blank"
Separator == 2     \* bytes of a separator, a text having one (the code's has four)

VARIABLES
    file,       \* MEMORY.md
    tmp,        \* MEMORY.md.tmp
    run,        \* each agent: what it is about to write
    wanted,     \* the notes the accepted batches amount to
    overlap,    \* two agents wrote at once
    batches     \* batches so far

vars == <<file, tmp, run, wanted, overlap, batches>>

Note(t, pad) == [text |-> t, pad |-> pad]

Size(entries) ==
    FoldLeft(LAMBDA n, e : n + e.pad + Separator + (IF e.text = Blank THEN 0 ELSE 1), 0, entries)

\* splitEntries, of what join wrote.
Split(entries) ==
    IF entries = <<>> THEN <<>>
    ELSE [i \in DOMAIN entries |-> Note(entries[i].text, IF i = 1 THEN entries[1].pad ELSE entries[i].pad + 1)]
         \o <<Note(Blank, 1)>>

NotesIn(entries) == { e.text : e \in ToSet(entries) } \ {Blank}

\* An operation names the notes it means by words of theirs.
Ops == [action : {"add"}, text : Texts, old : {Blank}]
       \cup [action : {"replace"}, text : Texts \cup {Blank}, old : Texts]
       \cup [action : {"remove"}, text : {Blank}, old : Texts]

-----------------------------------------------------------------------------
(* applyNotesOp: the entries, or nothing when the operation is refused. *)

Refused == <<Note(Blank, -1)>>

\* Only a note that stands first is recognised: the others have got their line breaks.
Add(entries, t) ==
    IF Note(t, 0) \in ToSet(Split(entries)) THEN entries ELSE Append(Split(entries), Note(t, 0))

\* Every note that holds the words is replaced.
Put(entries, old, t) ==
    IF old \notin NotesIn(entries) \/ old \in Twice THEN Refused
    ELSE [i \in DOMAIN Split(entries) |->
              IF Split(entries)[i].text = old THEN Note(t, 0) ELSE Split(entries)[i]]

\* Seeded fault: the note that was removed leaves its line breaks.
TakeText(entries, old) ==
    IF old \notin NotesIn(entries) \/ old \in Twice THEN Refused
    ELSE [i \in DOMAIN Split(entries) |->
              IF Split(entries)[i].text = old THEN Note(old, 0) ELSE Split(entries)[i]]

\* Entries without a byte go with it.
Take(entries, old) ==
    IF Put(entries, old, Blank) = Refused THEN Refused
    ELSE SelectSeq(Put(entries, old, Blank), LAMBDA e : e # Note(Blank, 0))

Apply(entries, op) ==
    CASE op.action = "add"     -> Add(entries, op.text)
      [] op.action = "replace" -> Put(entries, op.old, op.text)
      [] op.action = "remove"  -> Take(entries, op.old)

\* A batch works on what the operation before it left; one refused, or over the budget, ends
\* it.
Batch(entries, ops) ==
    FoldLeft(LAMBDA es, op :
                 IF es = Refused \/ Apply(es, op) = Refused \/ Size(Apply(es, op)) > Budget
                 THEN Refused ELSE Apply(es, op),
             entries, ops)

\* What an operation is meant to do.
Meant(notes, op) ==
    CASE op.action = "add"     -> notes \cup {op.text}
      [] op.action = "replace" -> (notes \ {op.old}) \cup ({op.text} \ {Blank})
      [] op.action = "remove"  -> notes \ {op.old}

-----------------------------------------------------------------------------
Init ==
    /\ file = <<>> /\ tmp = <<>> /\ run = [a \in Runs |-> Idle]
    /\ wanted = {} /\ overlap = FALSE /\ batches = 0

Alone(a) == \A b \in Runs \ {a} : run[b] = Idle

\* Seeded fault: the operations before a refused one are kept.
CallPartly(a) ==
    \E ops \in SeqOf(Ops, 2) \ {<<>>} :
        /\ run[a] = Idle /\ batches < MaxBatches
        /\ batches' = batches + 1
        /\ LET first == Batch(file, <<ops[1]>>)
               all   == Batch(file, ops)
           IN  run' = [run EXCEPT ![a] =
                   IF first = Refused THEN Idle
                   ELSE [at |-> "open", to |-> "tmp", entries |-> IF all = Refused THEN first ELSE all,
                         wants |-> IF all = Refused THEN wanted ELSE FoldLeft(Meant, wanted, ops)]]
        /\ overlap' = (overlap \/ ~ Alone(a))
        /\ UNCHANGED <<file, tmp, wanted>>

\* A call: the file is read and the batch applied in memory; a refused one writes nothing.
Call(a) ==
    \E ops \in SeqOf(Ops, 2) \ {<<>>} :
        /\ run[a] = Idle /\ batches < MaxBatches
        /\ batches' = batches + 1
        /\ run' = [run EXCEPT ![a] =
               IF Batch(file, ops) = Refused THEN Idle
               ELSE [at |-> "open", to |-> "tmp", entries |-> Batch(file, ops),
                     wants |-> FoldLeft(Meant, wanted, ops)]]
        /\ overlap' = (overlap \/ (~ Alone(a) /\ Batch(file, ops) # Refused))
        /\ UNCHANGED <<file, tmp, wanted>>

At(a, step) == run[a] # Idle /\ run[a].at = step

\* The temporary file has one name for every agent.
Open(a) ==
    /\ At(a, "open")
    /\ tmp' = Torn
    /\ run' = [run EXCEPT ![a].at = "write"]
    /\ UNCHANGED <<file, wanted, overlap, batches>>

\* What was opened may have been renamed since, or replaced.
Write(a) ==
    /\ At(a, "write")
    /\ tmp'  = IF run[a].to = "tmp" THEN run[a].entries ELSE tmp
    /\ file' = IF run[a].to = "file" THEN run[a].entries ELSE file
    /\ run' = [run EXCEPT ![a].at = "rename"]
    /\ UNCHANGED <<wanted, overlap, batches>>

\* Where an open file is after another agent's rename.
Moved(r) ==
    IF r = Idle \/ r.at = "open" THEN r
    ELSE [r EXCEPT !.to = IF @ = "tmp" THEN "file" ELSE "gone"]

\* The rename fails when another agent has renamed the file already.
Rename(a) ==
    /\ At(a, "rename")
    /\ IF tmp = <<>> THEN /\ UNCHANGED <<file, tmp>>
                         /\ run' = [run EXCEPT ![a] = Idle]
       ELSE /\ file' = IF tmp = Torn THEN <<>> ELSE tmp
            /\ tmp' = <<>>
            /\ run' = [b \in Runs |-> IF b = a THEN Idle ELSE Moved(run[b])]
    /\ wanted' = IF overlap THEN NotesIn(file') ELSE run[a].wants
    /\ overlap' = (overlap /\ ~ Alone(a))
    /\ UNCHANGED batches

\* The agent is killed in the middle of it.
Killed(a) ==
    /\ run[a] # Idle
    /\ run' = [run EXCEPT ![a] = Idle]
    /\ overlap' = (overlap /\ ~ Alone(a))
    /\ wanted' = IF overlap THEN NotesIn(file) ELSE wanted
    /\ UNCHANGED <<file, tmp, batches>>

Next == \E a \in Runs : Call(a) \/ Open(a) \/ Write(a) \/ Rename(a) \/ Killed(a)

Spec == Init /\ [][Next]_vars

-----------------------------------------------------------------------------
(* Properties. *)

Entries == [text : Texts \cup {Blank}, pad : Nat]

\* Type invariant.
TypeOK ==
    /\ file \in Seq(Entries) /\ tmp \in Seq(Entries) \cup {Torn}
    /\ \A a \in Runs : run[a] = Idle \/ /\ run[a].at \in {"open", "write", "rename"}
                                        /\ run[a].to \in {"tmp", "file", "gone"}
                                        /\ run[a].entries \in Seq(Entries)
    /\ wanted \subseteq Texts /\ overlap \in BOOLEAN /\ batches \in 0..MaxBatches

\* The notes are those the accepted batches amount to - a refused batch changed nothing, and
\* no agent's death tore the file - within the budget, as long as no two agents wrote at once.
NotesKept == Size(file) <= Budget /\ (~ overlap => NotesIn(file) = wanted)

=============================================================================
