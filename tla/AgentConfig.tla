---------------------------- MODULE AgentConfig -----------------------------
(***************************************************************************)
(* The settings of the agent: agent.json, shared by everything the user     *)
(* runs, the settings in each directory's database, the environment's keys  *)
(* and the flags; the commands of the ASCII interface that change them      *)
(* (src/ascii_ui_agent_repl.cpp), the setup at the first start of the TUI   *)
(* (lib/tui/agent_setup.cpp), and the four ways a run comes by its settings. *)
(*                                                                         *)
(* agent.json is read and written whole, and emptied before it is written:  *)
(* a terminal killed in between leaves no settings in it.  An entry of a    *)
(* list is plain or holds a comma, at which the database cuts it.           *)
(***************************************************************************)
EXTENDS Integers, FiniteSets

CONSTANTS
    Terminals,       \* each in a directory of its own
    Idle,            \* a terminal without a command under way
    NoFile,          \* agent.json is missing, empty or broken
    Values,          \* what the user types as endpoint, model, key or proxy
    MaxCommands      \* bound on the commands

ConfigAssumption == "" \notin Values /\ MaxCommands \in Nat

\* llmPresets: each name stands for its endpoint and its model as well.
Presets == {"openai", "anthropic", "groq"}
Wire(name) == IF name = "anthropic" THEN "anthropic" ELSE "openai"

Lists == {"allow", "deny", "rules", "mcp"}
Entries == {"plain", "a,b"}

\* loadCsv: an entry is cut at its comma.  The halves of a prefix are prefixes, a half of a
\* rule is none, and of a server the name and half of its command remain.
Pieces(list, e) ==
    IF e = "plain" THEN {e}
    ELSE CASE list \in {"allow", "deny"} -> {"a", "b"}
           [] list = "mcp" -> {"a"}
           [] list = "rules" -> {}

Fresh == [provider |-> "openai", endpoint |-> "", model |-> "", key |-> "", trust |-> "ask",
          proxy |-> "", sandbox |-> "off", allow |-> {}, deny |-> {}, rules |-> {}, mcp |-> {}]

Fields == DOMAIN Fresh

VARIABLES
    file,     \* agent.json
    db,       \* each directory's database
    env,      \* the providers whose key is exported
    term,     \* each terminal: what it is about to do with agent.json
    last,     \* what was last written to agent.json
    issued    \* commands so far

vars == <<file, db, env, term, last, issued>>

Init ==
    /\ file = NoFile /\ last = NoFile /\ issued = 0
    /\ db = [p \in Terminals |-> Fresh]
    /\ env \in SUBSET {"openai", "anthropic"}
    /\ term = [p \in Terminals |-> Idle]

-----------------------------------------------------------------------------
(* Where a run's settings come from. *)

FromDb(p) ==
    [f \in Fields |-> IF f \in Lists THEN UNION { Pieces(f, e) : e \in db[p][f] } ELSE db[p][f]]

WithEnv(c) ==
    IF c.key = "" /\ Wire(c.provider) \in env THEN [c EXCEPT !.key = "exported"] ELSE c

WithModel(c) == IF c.model = "" THEN [c EXCEPT !.model = Wire(c.provider)] ELSE c

\* loadAgentConfig: the file replaces every setting; the lists are not merged.
Overlay(c) == IF file = NoFile THEN c ELSE file

\* Seeded fault: the database comes after the file.
ReplDbWins(p) ==
    LET c == Overlay(WithModel(WithEnv(FromDb(p))))
    IN  [c EXCEPT !.trust = db[p].trust]

\* agent in the ASCII interface: the environment's key comes before the file.
Repl(p) == Overlay(WithModel(WithEnv(FromDb(p))))

\* Flags replace what they name.
Flagged(c, flags) == [f \in Fields |-> IF f \in DOMAIN flags THEN flags[f] ELSE c[f]]

\* agent-code: the flags come after the file, the environment's key after the flags.
Code(p, flags) ==
    WithModel(WithEnv(Flagged(Overlay([FromDb(p) EXCEPT !.rules = {}, !.mcp = {}, !.proxy = "",
                                                        !.sandbox = "off"]), flags)))

\* /agent-code in the TUI: the file, or the defaults, and the environment's key.
CodeTui == WithEnv(Overlay(Fresh))

\* applyDefaults (agent, llm): the file fills what no flag sets, then the preset of the
\* provider's name what is left, then the environment.
Matrix(flags) ==
    LET filled == Flagged(Overlay([Fresh EXCEPT !.provider = ""]), flags)
        named  == IF filled.provider = "" THEN "openai" ELSE filled.provider
    IN  WithEnv([filled EXCEPT
            !.provider = Wire(named),
            !.endpoint = IF @ # "" THEN @ ELSE IF named \in Presets THEN named ELSE Wire(named),
            !.model    = IF @ # "" THEN @ ELSE IF named \in Presets THEN named ELSE Wire(named)])

-----------------------------------------------------------------------------
(* The commands.  A command loads the settings, changes some, writes them to its database   *)
(* and then all of them to agent.json.                                                      *)

Starts(p, change, stored) ==
    /\ term[p] = Idle /\ issued < MaxCommands
    /\ issued' = issued + 1
    /\ term' = [term EXCEPT ![p] = [step |-> "empty", cfg |-> change, seen |-> file,
                                    sets |-> stored]]
    /\ db' = [db EXCEPT ![p] = [f \in Fields |-> IF f \in stored THEN change[f] ELSE @[f]]]
    /\ UNCHANGED <<file, env, last>>

\* agent trust, agent sandbox
SetTrust(p) ==
    \E v \in {"allow", "ask", "deny"} : Starts(p, [Repl(p) EXCEPT !.trust = v], {"trust"})
SetSandbox(p) ==
    \E v \in {"off", "bwrap"} : Starts(p, [Repl(p) EXCEPT !.sandbox = v], {"sandbox"})
\* agent proxy; off is no proxy
SetProxy(p) ==
    \E v \in Values \cup {""} : Starts(p, [Repl(p) EXCEPT !.proxy = v], {"proxy"})

\* agent allow, agent deny
Prefix(p) ==
    \E list \in {"allow", "deny"}, e \in Entries :
        Starts(p, [Repl(p) EXCEPT ![list] = @ \cup {e}], {list})
\* agent permit
Permit(p) ==
    \E e \in Entries : Starts(p, [Repl(p) EXCEPT !.rules = @ \cup {e}], {"rules"})
\* agent mcp add, agent mcp del
Mcp(p) ==
    \E e \in Entries, add \in BOOLEAN :
        Starts(p, [Repl(p) EXCEPT !.mcp = IF add THEN @ \cup {e} ELSE @ \ {e}], {"mcp"})

\* agent config: the name of a preset sets its endpoint and model as well.
Config(p) ==
    \/ \E name \in Presets :
          Starts(p, [Repl(p) EXCEPT !.provider = Wire(name), !.endpoint = name, !.model = name],
                 {"provider", "endpoint", "model"})
    \/ \E v \in Values : Starts(p, [Repl(p) EXCEPT !.provider = v], {"provider"})
    \/ \E f \in {"endpoint", "model", "key"}, v \in Values : Starts(p, [Repl(p) EXCEPT ![f] = v], {f})

\* agent reasoning: written with the rest, where there is no place for it.
Reasoning(p) == Starts(p, Repl(p), {})

-----------------------------------------------------------------------------
(* The setup of the TUI. *)

\* The TUI starts without a key from the file or the environment.
SetupStarts(p) ==
    /\ term[p] = Idle /\ issued < MaxCommands
    /\ Matrix(<<>>).key = ""
    /\ issued' = issued + 1
    /\ term' = [term EXCEPT ![p] = [step |-> "preset", cfg |-> Fresh, seen |-> file, sets |-> Fields]]
    /\ UNCHANGED <<file, db, env, last>>

\* The steps of the dialog, and the one that follows each.
AfterStep == [preset |-> "endpoint", endpoint |-> "model", model |-> "key", key |-> "proxy",
              proxy |-> "empty"]

InSetup(p) == term[p] # Idle /\ term[p].step \in DOMAIN AfterStep

\* An answer; an empty one keeps what the preset gave, a custom endpoint being openai's.
Answers(p) ==
    LET t == term[p]
        answers == CASE t.step = "preset" ->
                           { [t.cfg EXCEPT !.provider = Wire(n), !.endpoint = n, !.model = n] : n \in Presets }
                           \cup {t.cfg}
                     [] t.step = "endpoint" ->
                           { [t.cfg EXCEPT !.endpoint = v] : v \in Values }
                           \cup {[t.cfg EXCEPT !.endpoint = IF @ = "" THEN "openai" ELSE @]}
                     [] t.step = "model" -> {t.cfg} \cup { [t.cfg EXCEPT !.model = v] : v \in Values }
                     [] t.step = "key"   -> {t.cfg} \cup { [t.cfg EXCEPT !.key = v] : v \in Values }
                     [] t.step = "proxy" -> {t.cfg} \cup { [t.cfg EXCEPT !.proxy = v] : v \in Values }
    IN  \E c \in answers : term' = [term EXCEPT ![p] = [t EXCEPT !.step = AfterStep[t.step], !.cfg = c]]

Answer(p) == InSetup(p) /\ Answers(p) /\ UNCHANGED <<file, db, env, last, issued>>

\* Esc, or an unknown number: nothing is written.
Cancel(p) ==
    /\ InSetup(p)
    /\ term' = [term EXCEPT ![p] = Idle]
    /\ UNCHANGED <<file, db, env, last, issued>>

-----------------------------------------------------------------------------
(* saveAgentConfig. *)

At(p, step) == term[p] # Idle /\ term[p].step = step

EmptyFile(p) ==
    /\ At(p, "empty")
    /\ file' = NoFile
    /\ term' = [term EXCEPT ![p].step = "write"]
    /\ UNCHANGED <<db, env, last, issued>>

\* Seeded fault: the rules are not written.
WriteNoRules(p) ==
    /\ At(p, "write")
    /\ file' = [term[p].cfg EXCEPT !.rules = {}]
    /\ last' = file'
    /\ term' = [term EXCEPT ![p] = Idle]
    /\ UNCHANGED <<db, env, issued>>

WriteFile(p) ==
    /\ At(p, "write")
    /\ file' = term[p].cfg
    /\ last' = file'
    /\ term' = [term EXCEPT ![p] = Idle]
    /\ UNCHANGED <<db, env, issued>>

Killed(p) ==
    /\ term[p] # Idle
    /\ term' = [term EXCEPT ![p] = Idle]
    /\ UNCHANGED <<file, db, env, last, issued>>

Next ==
    \E p \in Terminals :
        \/ SetTrust(p) \/ SetSandbox(p) \/ SetProxy(p) \/ Prefix(p) \/ Permit(p) \/ Mcp(p)
        \/ Config(p) \/ Reasoning(p)
        \/ SetupStarts(p) \/ Answer(p) \/ Cancel(p)
        \/ EmptyFile(p) \/ WriteFile(p) \/ Killed(p)

Spec == Init /\ [][Next]_vars

-----------------------------------------------------------------------------
(* Properties. *)

Settings ==
    [provider : {"openai", "anthropic"} \cup Values, endpoint : Presets \cup Values \cup {""},
     model : Presets \cup Values \cup {""}, key : Values \cup {"", "exported"},
     trust : {"allow", "ask", "deny"}, proxy : Values \cup {""}, sandbox : {"off", "bwrap"},
     allow : SUBSET {"plain", "a,b", "a", "b"}, deny : SUBSET {"plain", "a,b", "a", "b"},
     rules : SUBSET Entries, mcp : SUBSET {"plain", "a,b", "a"}]

\* Type invariant.
TypeOK ==
    /\ file \in Settings \cup {NoFile} /\ last \in Settings \cup {NoFile}
    /\ \A p \in Terminals :
          /\ db[p] \in Settings
          /\ term[p] = Idle \/ /\ term[p].cfg \in Settings /\ term[p].sets \subseteq Fields
                               /\ term[p].step \in DOMAIN AfterStep \cup {"empty", "write"}
    /\ env \subseteq {"openai", "anthropic"} /\ issued \in 0..MaxCommands

\* Of settings used and settings stored: where something is stored it is used.
Uses(used, stored) ==
    /\ Wire(used.provider) = Wire(stored.provider)
    /\ \A f \in Fields \ {"provider"} :
          f \in Lists \/ stored[f] # "" => used[f] = stored[f]

\* agent.json, when it can be read, is what every run goes by, whatever the databases hold:
\* where it says something, the four ways agree with it and with each other, a flag changes
\* only the setting it names, and a key that is set nowhere is taken from the environment -
\* but in the ASCII interface, where the file's empty one comes last.
OneTruth ==
    file # NoFile =>
        /\ \A p \in Terminals :
              /\ Uses(Repl(p), file) /\ Uses(Code(p, <<>>), file)
              /\ \A v \in Values : \A f \in {"endpoint", "model", "key"} :
                    /\ Uses(Code(p, [g \in {f} |-> v]), [file EXCEPT ![f] = v])
                    /\ Uses(Matrix([g \in {f} |-> v]), [file EXCEPT ![f] = v])
              /\ (file.key = "" /\ Wire(file.provider) \in env) =>
                    {Code(p, <<>>).key, CodeTui.key, Matrix(<<>>).key} = {"exported"}
        /\ Uses(CodeTui, file) /\ Uses(Matrix(<<>>), file)

\* A write leaves in agent.json what its command put in the database, and changes nothing
\* else, unless agent.json was written by another since it was loaded, or could not be read
\* then; and the setup replaces a key only if that was
\* stored after the setup began.
SettingsKept ==
    \A p \in Terminals :
        (At(p, "write") /\ file' # file /\ term'[p] = Idle /\ last # NoFile) =>
            LET t == term[p]
            IN  /\ t.sets # Fields => \A f \in t.sets : file'[f] = db[p][f]
                /\ t.seen = last => \A f \in Fields \ t.sets : file'[f] = last[f]
                /\ (last.key # "" /\ t.seen = last /\ file'.key # last.key) => t.sets = {"key"}

=============================================================================
