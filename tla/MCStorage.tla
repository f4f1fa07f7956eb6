------------------------------ MODULE MCStorage -------------------------------
(*****************************************************************************)
(* What the program keeps, part by part, checked side by side: the store of  *)
(* session keys, the conversations of `llm` and of `agent`, and the agent's  *)
(* scheduled prompts, standing goal, settings, notes and policy, the local   *)
(* API server, the verification of devices, the stored logins, the sending   *)
(* of files, the pages of a room's history, the agent's tools for files, and *)
(* documents kept by the server. The parts share no state: a behaviour moves *)
(* one of them, chosen at the start; the others stand still at 0.            *)
(*****************************************************************************)
EXTENDS Integers, Sequences, FiniteSets

CONSTANTS
    Rooms, Own, Foreign, RoomOf(_), RotateAfter,            \* KeyStore
    Terminals, Names, Unclean, Chat, NoFile, Cut, Over, TailKept, HeadPinned, Keep,
    MaxTurns, MaxStarts, LlmClock,                          \* LlmSessions
    Tabs, Main, Saves, Last, Outside, KeepTail, Calls, MaxRuns, MaxAnswers, MaxCommands,
                                                            \* AgentSessions
    Idle, Delay, Date, Marks, Fallback, Horizon, MaxJobs, MaxChecks,      \* AgentCron
    Goals, Subgoals, NoGoal, MaxGoalCommands,               \* AgentGoal
    Values, MaxConfigCommands,                              \* AgentConfig
    Runs, Torn, Texts, Twice, Budget, MaxBatches,           \* AgentNotes
    Commands, Files, PlanFile, Dangerous, Prefixes, Globs, RuleTools, MaxChanges, \* AgentPolicy
    MaxClients, MaxFrames,                                  \* ApiServer
    Txns,                                                   \* SasVerify
    Procs, MaxLogins, MaxBegun,                             \* Accounts
    Sizes, Chunks, SendPresets, MaxSends,                       \* FileSend
    MaxHeld, Times, People, Limits, Filters, Given,             \* ViewHistory
    Paths, Disks, NoText, Bodies, Parts, ReadLimit,         \* FileTools
    Devices, Members, Founder, Pinnable, MaxOrders,         \* SharedState
    r1, r2

VARIABLES
    part,    \* the part that moves
    file,  \* of keys, config, notes
    term,  \* of llm, config
    run,  \* of sessions, notes
    issued,  \* of sessions, goal, config
    encrypted, out, inb, recent, made, backup, used, rotated,  \* KeyStore
    files, turns, starts, clock,  \* LlmSessions
    hist, tab, saved, dir, answers, runs, left,  \* AgentSessions
    jobs, check, estop, now, added, ran, excused, removed, checks,  \* AgentCron
    goal, asks, judged,  \* AgentGoal
    db, env, last,  \* AgentConfig
    tmp, wanted, overlap, batches,  \* AgentNotes
    cfg, live, stop, changes,  \* AgentPolicy
    running, owner, asked, worker, bus, lock, frames, published, received,
    answered, taken, beside,  \* ApiServer
    way, syncing, txn, offered, sas, waiting, sasConfirm, sasCancel,
    verified, said, stops,  \* SasVerify
    core, conf, table, proc, logins, begun, newest, stale, partial, torn,  \* Accounts
    assembles, secret, send, uploads, events, marked, sends,  \* FileSend
    stored, filters, view, walk,  \* ViewHistory
    disk, call,  \* FileTools
    kind, user, content, under, ordered  \* SharedState

K    == INSTANCE KeyStore
Llm  == INSTANCE LlmSessions WITH MaxClock <- LlmClock
S    == INSTANCE AgentSessions
J    == INSTANCE AgentCron
G    == INSTANCE AgentGoal WITH MaxCommands <- MaxGoalCommands
Conf == INSTANCE AgentConfig WITH MaxCommands <- MaxConfigCommands
N    == INSTANCE AgentNotes
P    == INSTANCE AgentPolicy
Api  == INSTANCE ApiServer
Sas  == INSTANCE SasVerify
Acc  == INSTANCE Accounts
F    == INSTANCE FileSend
V    == INSTANCE ViewHistory
T    == INSTANCE FileTools
D    == INSTANCE SharedState

ASSUME StorageAssumption ==
    /\ K!KeyAssumption
    /\ Llm!LlmAssumption
    /\ S!SessionsAssumption
    /\ J!CronAssumption
    /\ G!GoalAssumption
    /\ Conf!ConfigAssumption
    /\ N!NotesAssumption
    /\ P!PolicyAssumption
    /\ Api!ServerAssumption
    /\ Sas!SasAssumption
    /\ Acc!AccountsAssumption
    /\ F!FileAssumption
    /\ V!ViewAssumption
    /\ T!FileToolsAssumption
    /\ D!SharedAssumption

-----------------------------------------------------------------------------
\* Two terminals, processes, devices, ... are alike: in every state all may change places.
Alike == {Own, Terminals, Tabs, Goals, Runs, Txns, Procs, Devices, Pinnable}
Partner(x) == CHOOSE y \in UNION {alike \in Alike : x \in alike} : y # x
Symmetry == {[x \in UNION Alike |-> IF change THEN Partner(x) ELSE x] : change \in BOOLEAN}

\* The foreign session belongs to the first room.
MCRoomOf(s) == r1

\* A prefix of every command, one that begins a question about a file too, and the globs
\* of one command, of one file and of everything.
MCPrefixes == {Commands, {CHOOSE k \in Commands \ Dangerous : TRUE} \cup ({"read"} \X Files)}
MCGlobs == {{CHOOSE k \in Commands \ Dangerous : TRUE, PlanFile}, Commands \cup Files}

\* No filter; a list of the room before a general one; somebody hidden.
MCFilters ==
    LET some == CHOOSE p \in People : TRUE IN
    {[room |-> {}, general |-> {}, hide |-> {}],
     [room |-> {some}, general |-> People \ {some}, hide |-> {}],
     [room |-> {}, general |-> {}, hide |-> {some}]}
MCGiven == {{}, {CHOOSE p \in People : TRUE}}
MCLimits == {-1, 1}

\* Lines of a patch, and files with an old text once, twice, and in overlapping places.
MCParts == {<<>>, <<<<"x">>>>, <<<<"x", "x">>>>, <<<<"z">>>>, <<<<"x">>, <<"y">>>>}
MCBodies == {<<>>, <<<<"x">>>>}
MCDisks ==
    LET texts == {NoText, <<"x", "x", "x", "\n">>, <<"x", "\n", "y">>, <<"y", "x", "\n">>}
        path == CHOOSE q \in Paths : TRUE IN
    {d \in [Paths -> texts] : \A q \in Paths \ {path} : d[q] \in {NoText, <<"y", "x", "\n">>}}

-----------------------------------------------------------------------------
keysVars == <<encrypted, out, inb, recent, made, backup, used, rotated>>
llmVars == <<files, turns, starts, clock>>
sessionsVars == <<hist, tab, saved, dir, answers, runs, left>>
cronVars == <<jobs, check, estop, now, added, ran, excused, removed, checks>>
goalVars == <<goal, asks, judged>>
configVars == <<db, env, last>>
notesVars == <<tmp, wanted, overlap, batches>>
policyVars == <<cfg, live, stop, changes>>
apiVars == <<running, owner, asked, worker, bus, lock, frames, published, received, answered,
             taken, beside>>
sasVars == <<way, syncing, txn, offered, sas, waiting, sasConfirm, sasCancel, verified, said,
             stops>>
accVars == <<core, conf, table, proc, logins, begun, newest, stale, partial, torn>>
sendVars == <<assembles, secret, send, uploads, events, marked, sends>>
viewVars == <<stored, filters, view, walk>>
filesVars == <<disk, call>>
sharedVars == <<kind, user, content, under, ordered>>
vars == <<part, file, term, run, issued, keysVars, llmVars, sessionsVars, cronVars, goalVars,
          configVars, notesVars, policyVars, apiVars, sasVars, accVars, sendVars, viewVars,
          filesVars, sharedVars>>

\* The parts that stand still.
NoK == encrypted = 0 /\ out = 0 /\ inb = 0 /\ recent = 0 /\ made = 0 /\ backup = 0 /\ used = 0
       /\ rotated = 0
NoLlm == files = 0 /\ turns = 0 /\ starts = 0 /\ clock = 0
NoS == hist = 0 /\ tab = 0 /\ saved = 0 /\ dir = 0 /\ answers = 0 /\ runs = 0 /\ left = 0
NoJ == jobs = 0 /\ check = 0 /\ estop = 0 /\ now = 0 /\ added = 0 /\ ran = 0 /\ excused = 0
       /\ removed = 0 /\ checks = 0
NoG == goal = 0 /\ asks = 0 /\ judged = 0
NoConf == db = 0 /\ env = 0 /\ last = 0
NoN == tmp = 0 /\ wanted = 0 /\ overlap = 0 /\ batches = 0
NoP == cfg = 0 /\ live = 0 /\ stop = 0 /\ changes = 0
NoApi == running = 0 /\ owner = 0 /\ asked = 0 /\ worker = 0 /\ bus = 0 /\ lock = 0 /\ frames = 0
         /\ published = 0 /\ received = 0 /\ answered = 0 /\ taken = 0 /\ beside = 0
NoSas == way = 0 /\ syncing = 0 /\ txn = 0 /\ offered = 0 /\ sas = 0 /\ waiting = 0 /\ sasConfirm = 0
         /\ sasCancel = 0 /\ verified = 0 /\ said = 0 /\ stops = 0
NoAcc == core = 0 /\ conf = 0 /\ table = 0 /\ proc = 0 /\ logins = 0 /\ begun = 0 /\ newest = 0
         /\ stale = 0 /\ partial = 0 /\ torn = 0
NoF == assembles = 0 /\ secret = 0 /\ send = 0 /\ uploads = 0 /\ events = 0 /\ marked = 0
       /\ sends = 0
NoV == stored = 0 /\ filters = 0 /\ view = 0 /\ walk = 0
NoT == disk = 0 /\ call = 0
NoD == kind = 0 /\ user = 0 /\ content = 0 /\ under = 0 /\ ordered = 0

Init ==
    \/ /\ part = "keys" /\ K!Init
       /\ term = 0 /\ run = 0 /\ issued = 0 /\ NoLlm /\ NoS /\ NoJ /\ NoG /\ NoConf /\ NoN /\
          NoP /\ NoApi /\ NoSas /\ NoAcc /\ NoF /\ NoV /\ NoT /\ NoD
    \/ /\ part = "llm" /\ Llm!Init
       /\ file = 0 /\ run = 0 /\ issued = 0 /\ NoK /\ NoS /\ NoJ /\ NoG /\ NoConf /\ NoN /\ NoP
          /\ NoApi /\ NoSas /\ NoAcc /\ NoF /\ NoV /\ NoT /\ NoD
    \/ /\ part = "sessions" /\ S!Init
       /\ file = 0 /\ term = 0 /\ NoK /\ NoLlm /\ NoJ /\ NoG /\ NoConf /\ NoN /\ NoP /\ NoApi
          /\ NoSas /\ NoAcc /\ NoF /\ NoV /\ NoT /\ NoD
    \/ /\ part = "cron" /\ J!Init
       /\ file = 0 /\ term = 0 /\ run = 0 /\ issued = 0 /\ NoK /\ NoLlm /\ NoS /\ NoG /\ NoConf /\
          NoN /\ NoP /\ NoApi /\ NoSas /\ NoAcc /\ NoF /\ NoV /\ NoT /\ NoD
    \/ /\ part = "goal" /\ G!Init
       /\ file = 0 /\ term = 0 /\ run = 0 /\ NoK /\ NoLlm /\ NoS /\ NoJ /\ NoConf /\ NoN /\ NoP
          /\ NoApi /\ NoSas /\ NoAcc /\ NoF /\ NoV /\ NoT /\ NoD
    \/ /\ part = "config" /\ Conf!Init
       /\ run = 0 /\ NoK /\ NoLlm /\ NoS /\ NoJ /\ NoG /\ NoN /\ NoP /\ NoApi /\ NoSas /\
          NoAcc /\ NoF /\ NoV /\ NoT /\ NoD
    \/ /\ part = "notes" /\ N!Init
       /\ term = 0 /\ issued = 0 /\ NoK /\ NoLlm /\ NoS /\ NoJ /\ NoG /\ NoConf /\ NoP /\
          NoApi /\ NoSas /\ NoAcc /\ NoF /\ NoV /\ NoT /\ NoD
    \/ /\ part = "policy" /\ P!Init
       /\ file = 0 /\ term = 0 /\ run = 0 /\ issued = 0 /\ NoK /\ NoLlm /\ NoS /\ NoJ /\ NoG /\
          NoConf /\ NoN /\ NoApi /\ NoSas /\ NoAcc /\ NoF /\ NoV /\ NoT /\ NoD
    \/ /\ part = "api" /\ Api!Init
       /\ file = 0 /\ term = 0 /\ run = 0 /\ issued = 0 /\ NoK /\ NoLlm /\ NoS /\ NoJ /\ NoG /\
          NoConf /\ NoN /\ NoP /\ NoSas /\ NoAcc /\ NoF /\ NoV /\ NoT /\ NoD
    \/ /\ part = "sas" /\ Sas!Init
       /\ file = 0 /\ term = 0 /\ run = 0 /\ issued = 0 /\ NoK /\ NoLlm /\ NoS /\ NoJ /\ NoG /\
          NoConf /\ NoN /\ NoP /\ NoApi /\ NoAcc /\ NoF /\ NoV /\ NoT /\ NoD
    \/ /\ part = "acc" /\ Acc!Init
       /\ file = 0 /\ term = 0 /\ run = 0 /\ issued = 0 /\ NoK /\ NoLlm /\ NoS /\ NoJ /\ NoG /\
          NoConf /\ NoN /\ NoP /\ NoApi /\ NoSas /\ NoF /\ NoV /\ NoT /\ NoD
    \/ /\ part = "send" /\ F!Init
       /\ file = 0 /\ term = 0 /\ run = 0 /\ issued = 0 /\ NoK /\ NoLlm /\ NoS /\ NoJ /\ NoG /\
          NoConf /\ NoN /\ NoP /\ NoApi /\ NoSas /\ NoAcc /\ NoV /\ NoT /\ NoD
    \/ /\ part = "view" /\ V!Init
       /\ file = 0 /\ term = 0 /\ run = 0 /\ issued = 0 /\ NoK /\ NoLlm /\ NoS /\ NoJ /\ NoG /\
          NoConf /\ NoN /\ NoP /\ NoApi /\ NoSas /\ NoAcc /\ NoF /\ NoT /\ NoD
    \/ /\ part = "files" /\ T!Init
       /\ file = 0 /\ term = 0 /\ run = 0 /\ issued = 0 /\ NoK /\ NoLlm /\ NoS /\ NoJ /\ NoG /\
          NoConf /\ NoN /\ NoP /\ NoApi /\ NoSas /\ NoAcc /\ NoF /\ NoV /\ NoD
    \/ /\ part = "shared" /\ D!Init
       /\ file = 0 /\ term = 0 /\ run = 0 /\ issued = 0 /\ NoK /\ NoLlm /\ NoS /\ NoJ /\ NoG /\
          NoConf /\ NoN /\ NoP /\ NoApi /\ NoSas /\ NoAcc /\ NoF /\ NoV /\ NoT

Next ==
    /\ UNCHANGED part
    /\ \/ /\ part = "keys" /\ K!Next
          /\ UNCHANGED <<term, run, issued, llmVars, sessionsVars, cronVars, goalVars,
                     configVars, notesVars, policyVars, apiVars, sasVars, accVars, sendVars,
                     viewVars, filesVars, sharedVars>>
       \/ /\ part = "llm" /\ Llm!Next
          /\ UNCHANGED <<file, run, issued, keysVars, sessionsVars, cronVars, goalVars,
                     configVars, notesVars, policyVars, apiVars, sasVars, accVars, sendVars,
                     viewVars, filesVars, sharedVars>>
       \/ /\ part = "sessions" /\ S!Next
          /\ UNCHANGED <<file, term, keysVars, llmVars, cronVars, goalVars, configVars,
                     notesVars, policyVars, apiVars, sasVars, accVars, sendVars, viewVars,
                     filesVars, sharedVars>>
       \/ /\ part = "cron" /\ J!Next
          /\ UNCHANGED <<file, term, run, issued, keysVars, llmVars, sessionsVars, goalVars,
                     configVars, notesVars, policyVars, apiVars, sasVars, accVars, sendVars,
                     viewVars, filesVars, sharedVars>>
       \/ /\ part = "goal" /\ G!Next
          /\ UNCHANGED <<file, term, run, keysVars, llmVars, sessionsVars, cronVars, configVars,
                     notesVars, policyVars, apiVars, sasVars, accVars, sendVars, viewVars,
                     filesVars, sharedVars>>
       \/ /\ part = "config" /\ Conf!Next
          /\ UNCHANGED <<run, keysVars, llmVars, sessionsVars, cronVars, goalVars, notesVars,
                     policyVars, apiVars, sasVars, accVars, sendVars, viewVars, filesVars,
                     sharedVars>>
       \/ /\ part = "notes" /\ N!Next
          /\ UNCHANGED <<term, issued, keysVars, llmVars, sessionsVars, cronVars, goalVars,
                     configVars, policyVars, apiVars, sasVars, accVars, sendVars, viewVars,
                     filesVars, sharedVars>>
       \/ /\ part = "policy" /\ P!Next
          /\ UNCHANGED <<file, term, run, issued, keysVars, llmVars, sessionsVars, cronVars,
                     goalVars, configVars, notesVars, apiVars, sasVars, accVars, sendVars,
                     viewVars, filesVars, sharedVars>>
       \/ /\ part = "api" /\ Api!Next
          /\ UNCHANGED <<file, term, run, issued, keysVars, llmVars, sessionsVars, cronVars,
                     goalVars, configVars, notesVars, policyVars, sasVars, accVars, sendVars,
                     viewVars, filesVars, sharedVars>>
       \/ /\ part = "sas" /\ Sas!Next
          /\ UNCHANGED <<file, term, run, issued, keysVars, llmVars, sessionsVars, cronVars,
                     goalVars, configVars, notesVars, policyVars, apiVars, accVars, sendVars,
                     viewVars, filesVars, sharedVars>>
       \/ /\ part = "acc" /\ Acc!Next
          /\ UNCHANGED <<file, term, run, issued, keysVars, llmVars, sessionsVars, cronVars,
                     goalVars, configVars, notesVars, policyVars, apiVars, sasVars, sendVars,
                     viewVars, filesVars, sharedVars>>
       \/ /\ part = "send" /\ F!Next
          /\ UNCHANGED <<file, term, run, issued, keysVars, llmVars, sessionsVars, cronVars,
                     goalVars, configVars, notesVars, policyVars, apiVars, sasVars, accVars,
                     viewVars, filesVars, sharedVars>>
       \/ /\ part = "view" /\ V!Next
          /\ UNCHANGED <<file, term, run, issued, keysVars, llmVars, sessionsVars, cronVars,
                     goalVars, configVars, notesVars, policyVars, apiVars, sasVars, accVars,
                     sendVars, filesVars, sharedVars>>
       \/ /\ part = "files" /\ T!Next
          /\ UNCHANGED <<file, term, run, issued, keysVars, llmVars, sessionsVars, cronVars,
                     goalVars, configVars, notesVars, policyVars, apiVars, sasVars, accVars,
                     sendVars, viewVars, sharedVars>>
       \/ /\ part = "shared" /\ D!Next
          /\ UNCHANGED <<file, term, run, issued, keysVars, llmVars, sessionsVars, cronVars,
                     goalVars, configVars, notesVars, policyVars, apiVars, sasVars, accVars,
                     sendVars, viewVars, filesVars>>

Spec == Init /\ [][Next]_vars

-----------------------------------------------------------------------------
\* Each part that moves keeps its shape.
TypeOK ==
    /\ part = "keys" => K!TypeOK
    /\ part = "llm" => Llm!TypeOK
    /\ part = "sessions" => S!TypeOK
    /\ part = "cron" => J!TypeOK
    /\ part = "goal" => G!TypeOK
    /\ part = "config" => Conf!TypeOK
    /\ part = "notes" => N!TypeOK
    /\ part = "policy" => P!TypeOK
    /\ part = "api" => Api!TypeOK
    /\ part = "sas" => Sas!TypeOK
    /\ part = "acc" => Acc!TypeOK
    /\ part = "send" => F!TypeOK
    /\ part = "view" => V!TypeOK
    /\ part = "files" => T!TypeOK
    /\ part = "shared" => D!TypeOK

\* What is stored fits together.  KeyStore: no two messages are encrypted with
\* the same session and index, no session encrypts more messages than the limit, and an
\* entry is filed under the id it belongs to, or was rotated.  LlmSessions: questions and
\* answers alternate in every conversation.  AgentSessions: no conversation holds a call
\* without its results.  AgentGoal: a goal shown as achieved was judged to be.  AgentConfig: whatever
\* the databases hold, every run goes by agent.json.  AgentNotes: the notes are those the
\* accepted batches amount to.  AgentPolicy: whatever a run calls, nothing runs against the
\* policy it was launched with.  ApiServer: subscribers see one order, the bus holds living
\* sessions, and threads keep to their own connections - but for the named exceptions.  SasVerify: a device is verified by a yes to its
\* own verification, what is given up is told, and a run is served by the sync loop.  Accounts: a command
\* acts as one login, the last one, unless processes came between each other's steps.  FileSend:
\* an event names the file its run uploaded, under the key it carries.  ViewHistory: following
\* the older hints shows every message, and the newer hint leads back.  FileTools: a file is
\* edited as asked or stays, patches do what they say, and paging through a file shows it all.
StoreConsistent ==
    /\ part = "keys" => K!NoIndexTwice /\ K!RotatesInTime /\ K!FiledUnderItsId
    /\ part = "llm" => Llm!TurnsAlternate
    /\ part = "sessions" => S!ToolsPaired
    /\ part = "goal" => G!AchievedWasJudged
    /\ part = "config" => Conf!OneTruth
    /\ part = "notes" => N!NotesKept
    /\ part = "policy" => P!NothingAgainstPolicy
    /\ part = "api" => Api!SubscribersAgree /\ Api!BusHoldsLiving /\ Api!OwnConnection
    /\ part = "sas" => Sas!VerifiedAsConfirmed /\ Sas!GivenUpIsTold /\ Sas!SyncServesRuns
    /\ part = "acc" => Acc!OneIdentity /\ Acc!LatestSession /\ Acc!StoresAgree
    /\ part = "send" => F!NamesItsFile
    /\ part = "view" => V!WalkShowsAll /\ V!BackAgain
    /\ part = "files" => T!EditAsPromised /\ T!PatchAsWritten /\ T!PagesShowAll

\* What is stored is not lost again.  KeyStore: no encryption, decryption
\* or backup costs a key, and an import finds every session of the export again.
\* LlmSessions: an answered turn leaves the disk only where a process overwrites what it had
\* not loaded, or dropped on purpose.  AgentSessions: switching back to a tab shows what it
\* was left with.  AgentCron: a job leaves or comes back only by a command, or under a check
\* that had loaded the file before.  AgentGoal: likewise the goal.
\* AgentConfig: a command changes the settings it names and no other.  SharedState: likewise
\* what the server keeps, and a room keeps somebody who may change its levels - but for
\* devices between each other's steps and the commands named there.
NothingLost ==
    [][/\ part = "keys" => K!KeysKept /\ K!ImportFinds
       /\ part = "llm" => Llm!NeverDestroyed
       /\ part = "sessions" => S!SwitchBackShows
       /\ part = "cron" => J!JobsKept
       /\ part = "goal" => G!GoalKept
       /\ part = "config" => Conf!SettingsKept
       /\ part = "shared" => D!OnlyTheNamed /\ D!StaysGoverned]_vars

\* AgentCron: a job runs once for each moment it is due at, and a check leaves none due that
\* it ran - but for a date, which stays due, for checks that overlapped, and for one that was
\* killed before it wrote the file.
JobsRunOnce ==
    [][part = "cron" => J!OncePerMoment /\ J!CheckSettles]_vars

\* AgentPolicy: a command decides the calls it names and no others, and a run keeps its
\* mode and the settings it was launched with, its subagents included.
PolicyDecides ==
    [][part = "policy" => P!CommandsDecide /\ P!PlansToTheEnd]_vars

=============================================================================
