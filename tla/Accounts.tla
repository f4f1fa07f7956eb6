------------------------------ MODULE Accounts ------------------------------
(***************************************************************************)
(* Which login the commands act as.  The program keeps the session in four  *)
(* places: session.db for the commands built on progressive-core,           *)
(* config.json, the account table of matrixcli.db for the older commands,   *)
(* and that of the chat's own database, which no other program reads and    *)
(* which is left out here.  The ways to log in (src/cmd_serve_login.cpp,    *)
(* src/demo_tui.cpp, src/bridge_commands.cpp, lib/api/handler.cpp) write    *)
(* different ones of them, one after the other, and other processes read    *)
(* and write them in between.                                               *)
(*                                                                         *)
(* A login is a number; whatever the server gave for it - homeserver, user, *)
(* token, device - carries that number, and 0 is what is not set.           *)
(***************************************************************************)
EXTENDS Integers, Sequences, FiniteSets

CONSTANTS
    Procs,          \* processes
    MaxLogins,      \* bound on the logins that succeed
    MaxBegun        \* bound on the processes begun

AccountsAssumption == IsFiniteSet(Procs) /\ {MaxLogins, MaxBegun} \subseteq Nat

Keys == <<"homeserver_url", "user_id", "access_token", "device_id">>
KeySet == { Keys[i] : i \in 1..Len(Keys) }

VARIABLES
    core,       \* session.db: the login and its device
    conf,       \* config.json: the login and its device
    table,      \* the account table of matrixcli.db
    proc,       \* the processes
    logins,     \* logins that succeeded
    begun,      \* processes begun
    newest,     \* the last login the commands of the core were given
    stale,      \* a process wrote back a session it had loaded before that
    partial,    \* not every store was given the last login
    torn        \* the account is half written

history == <<newest, stale, partial, torn>>
accountsVars == <<core, conf, table, proc, logins, begun, newest, stale, partial, torn>>

None == [n |-> 0, device |-> 0]
NoProc == [at |-> "none", todo |-> <<>>, acc |-> None, key |-> 1, got |-> [k \in KeySet |-> 0],
           old |-> FALSE, beside |-> FALSE, alone |-> FALSE]

Places == {"none", "steps", "edit", "serve", "reading", "acting"}

TypeOK ==
    /\ {core.n, conf.n, logins, newest} \subseteq 0..MaxLogins /\ {stale, partial} \subseteq BOOLEAN
    /\ table \in [KeySet -> 0..MaxLogins] /\ torn \in BOOLEAN
    /\ \A p \in Procs : proc[p].at \in Places /\ proc[p].key \in 1..(Len(Keys) + 1)
    /\ begun \in 0..MaxBegun

Init ==
    /\ core = None /\ conf = None /\ table = [k \in KeySet |-> 0]
    /\ proc = [p \in Procs |-> NoProc] /\ logins = 0 /\ begun = 0
    /\ newest = 0 /\ stale = FALSE /\ partial = FALSE /\ torn = FALSE

-----------------------------------------------------------------------------
(* Logging in.  A login that fails has written nothing. *)

\* A process begins; whether it is alone until it ends is remembered.
Begins(p, new) ==
    /\ proc[p].at = "none" /\ begun < MaxBegun /\ begun' = begun + 1
    /\ proc' = [q \in Procs |->
                   IF q = p THEN [new EXCEPT !.alone = \A r \in Procs : proc[r] = NoProc]
                   ELSE [proc[q] EXCEPT !.alone = FALSE]]

\* The login succeeds: what it stores from here on, and the device the server named for it.
Login(p, todo, named) ==
    /\ logins < MaxLogins /\ logins' = logins + 1
    /\ Begins(p, [NoProc EXCEPT !.at = "steps", !.todo = todo,
                      !.acc = [n |-> logins + 1, device |-> IF named THEN logins + 1 ELSE 0]])
    /\ UNCHANGED <<core, conf, table, history>>

\* Seeded fault: the older commands are not told.
LoginAccessTokenCore(p) ==
    \E named \in BOOLEAN : Login(p, <<"core", "config", "boot", "all">>, named)

\* An existing token: whoami need not name the device.
LoginAccessToken(p) ==
    \E named \in BOOLEAN : Login(p, <<"core", "config", "main", "boot", "all">>, named)

LoginSso(p) == Login(p, <<"core", "config", "boot">>, TRUE)

\* With or without MAS.
LoginPassword(p) == Login(p, <<"core", "config", "boot">>, TRUE)

Register(p) == Login(p, <<"core", "config", "boot">>, TRUE)

\* The transitional client's login by token, and the setup wizard.
LoginToken(p) == Login(p, <<"config", "main">>, TRUE)

Setup(p) == Login(p, <<"config", "main">>, TRUE)

\* The chat's login screen.
LoginTui(p) == Login(p, <<"config">>, TRUE)

-----------------------------------------------------------------------------
(* What a process writes. *)

At(p, step) == proc[p].at = "steps" /\ proc[p].todo # <<>> /\ Head(proc[p].todo) = step
Behind(p) == [proc[p] EXCEPT !.todo = Tail(@)]

\* The other processes that had loaded the session before it was replaced.
Outdated(m, p) == [q \in Procs |-> IF q # p /\ m[q].acc # None THEN [m[q] EXCEPT !.old = TRUE] ELSE m[q]]

\* persistSession after a login.
PersistLogin(p) ==
    /\ At(p, "core")
    /\ core' = proc[p].acc /\ newest' = proc[p].acc.n /\ stale' = FALSE /\ partial' = TRUE
    /\ proc' = Outdated([proc EXCEPT ![p] = [Behind(p) EXCEPT !.old = FALSE]], p)
    /\ UNCHANGED <<conf, table, logins, begun, torn>>

\* Config::set for the four, and one save.
SaveConfig(p) ==
    /\ At(p, "config")
    /\ conf' = proc[p].acc /\ partial' = TRUE
    /\ proc' = [proc EXCEPT ![p] = Behind(p)]
    /\ UNCHANGED <<core, table, logins, begun, newest, stale, torn>>

\* Seeded fault: what is empty is not stored.
ValueOrKept(p, k) ==
    IF k = "device_id" THEN IF proc[p].acc.device = 0 THEN table[k] ELSE proc[p].acc.device
    ELSE proc[p].acc.n

Value(p, k) == IF k = "device_id" THEN proc[p].acc.device ELSE proc[p].acc.n

\* Those that have read or written a part of the account.
Midway(q) == proc[q].at = "reading" \/ (At(q, "main") /\ proc[q].key > 1)

\* saveAccount: a statement for each key (and one that empties next_batch), each for itself.
SaveAccount(p) ==
    LET k == Keys[proc[p].key]
        over == proc[p].key = Len(Keys)
    IN  /\ At(p, "main")
        /\ table' = [table EXCEPT ![k] = Value(p, k)]
        /\ torn' = (~ over \/ proc[p].beside)
        /\ partial' = TRUE
        /\ proc' = [q \in Procs |->
                       IF q = p THEN IF over THEN Behind(p) ELSE [proc[p] EXCEPT !.key = @ + 1]
                       ELSE IF Midway(q) THEN [proc[q] EXCEPT !.beside = TRUE] ELSE proc[q]]
        /\ UNCHANGED <<core, conf, logins, begun, newest, stale>>

\* bootstrap: a session without a device is given a made-up one, and whatever the process
\* has loaded is written back.
Bootstrap(p) ==
    LET device == IF proc[p].acc.device = 0 THEN - proc[p].acc.n ELSE proc[p].acc.device
        acc == [proc[p].acc EXCEPT !.device = device]
    IN  /\ At(p, "boot")
        /\ core' = acc /\ stale' = (stale \/ proc[p].old)
        /\ proc' = [proc EXCEPT ![p] = [Behind(p) EXCEPT !.acc = acc]]
        /\ UNCHANGED <<conf, table, logins, begun, newest, partial, torn>>

ServeBegins(p) ==
    /\ At(p, "serve") /\ proc' = [proc EXCEPT ![p].at = "serve"]
    /\ UNCHANGED <<core, conf, table, logins, begun, history>>

\* The end of the steps; those of a login with a token went through every store.
Finish(p) ==
    /\ proc[p].at = "steps" /\ proc[p].todo \in {<<>>, <<"all">>}
    /\ partial' = (partial /\ ~ (proc[p].todo = <<"all">> /\ proc[p].alone))
    /\ proc' = [proc EXCEPT ![p] = NoProc]
    /\ UNCHANGED <<core, conf, table, logins, begun, newest, stale, torn>>

-----------------------------------------------------------------------------
(* Other processes. *)

\* A command that loads the session and brings up encryption, to serve or not.
LoadSession(p, todo) ==
    /\ core.n # 0 /\ Begins(p, [NoProc EXCEPT !.at = "steps", !.todo = todo, !.acc = core])
    /\ UNCHANGED <<core, conf, table, logins, history>>

CoreCommand(p) == LoadSession(p, <<"boot">>)
Serve(p) == LoadSession(p, <<"boot", "serve">>)

\* Seeded fault: the device of the session before is kept.
ServeLoginKeepsDevice(p) ==
    /\ proc[p].at = "serve" /\ logins < MaxLogins /\ logins' = logins + 1
    /\ core' = [n |-> logins + 1, device |-> proc[p].acc.device]
    /\ newest' = logins + 1 /\ stale' = FALSE /\ partial' = TRUE
    /\ proc' = Outdated([proc EXCEPT ![p].acc = core', ![p].old = FALSE], p)
    /\ UNCHANGED <<conf, table, begun, torn>>

\* A login through the server that is running; its own session is replaced.
ServeLogin(p) ==
    /\ proc[p].at = "serve" /\ logins < MaxLogins /\ logins' = logins + 1
    /\ core' = [n |-> logins + 1, device |-> logins + 1]
    /\ newest' = logins + 1 /\ stale' = FALSE /\ partial' = TRUE
    /\ proc' = Outdated([proc EXCEPT ![p].acc = core', ![p].old = FALSE], p)
    /\ UNCHANGED <<conf, table, begun, torn>>

\* A command that changes a setting loads config.json, and later writes all of it.
LoadConfig(p) ==
    /\ Begins(p, [NoProc EXCEPT !.at = "edit", !.acc = conf])
    /\ UNCHANGED <<core, conf, table, logins, history>>

SaveSetting(p) ==
    /\ proc[p].at = "edit"
    /\ conf' = proc[p].acc /\ partial' = (partial \/ conf # proc[p].acc)
    /\ proc' = [proc EXCEPT ![p] = NoProc]
    /\ UNCHANGED <<core, table, logins, begun, newest, stale, torn>>

\* An older command reads the account, key by key, and acts as what it read.
LegacyCommand(p) ==
    /\ Begins(p, [NoProc EXCEPT !.at = "reading"])
    /\ UNCHANGED <<core, conf, table, logins, history>>

LoadAccount(p) ==
    LET k == Keys[proc[p].key]
        next == [proc[p] EXCEPT !.got[k] = table[k], !.key = @ + 1, !.beside = @ \/ torn]
    IN  /\ proc[p].at = "reading"
        /\ proc' = [proc EXCEPT ![p] = IF proc[p].key = Len(Keys) THEN [next EXCEPT !.at = "acting"]
                                       ELSE next]
        /\ UNCHANGED <<core, conf, table, logins, begun, history>>

\* A process ends, or is killed between any two of its steps.
Ends(p) ==
    /\ proc[p].at # "none" /\ proc' = [proc EXCEPT ![p] = NoProc]
    /\ UNCHANGED <<core, conf, table, logins, begun, history>>

-----------------------------------------------------------------------------
Next ==
    \E p \in Procs :
        \/ LoginAccessToken(p) \/ LoginSso(p) \/ LoginPassword(p) \/ Register(p)
        \/ LoginToken(p) \/ Setup(p) \/ LoginTui(p)
        \/ PersistLogin(p) \/ SaveConfig(p) \/ SaveAccount(p)
        \/ Bootstrap(p) \/ ServeBegins(p) \/ Finish(p)
        \/ CoreCommand(p) \/ Serve(p) \/ ServeLogin(p)
        \/ LoadConfig(p) \/ SaveSetting(p) \/ LegacyCommand(p) \/ LoadAccount(p) \/ Ends(p)

-----------------------------------------------------------------------------
\* Whom `status` names: the session, else the account table, else config.json.
StatusNames ==
    IF core.n # 0 THEN core.n
    ELSE IF table["access_token"] # 0 THEN table["user_id"] ELSE conf.n

LoggedIn(a) == a["access_token"] # 0

\* An older command acts with the homeserver, the token, the user and the device of one
\* login, unless it read an account that was being written, or was left half written.
OneIdentity ==
    \A p \in Procs :
        LET got == proc[p].got IN
        proc[p].at = "acting" /\ LoggedIn(got) /\ ~ proc[p].beside =>
            /\ got["homeserver_url"] = got["access_token"] /\ got["user_id"] = got["access_token"]
            /\ got["device_id"] \in {0, got["access_token"]}

\* The commands of the core act as the last login they were given, with its device or one
\* made up for it, unless a process wrote back a session it had loaded before.
LatestSession ==
    ~ stale => core.n = newest /\ core.device \in {core.n, - core.n, 0}

\* After a login with an access token that no other process came beside, and until the next
\* login, every store holds that login and `status` names it.
StoresAgree ==
    ~ partial =>
        /\ conf.n = core.n /\ \A k \in {"homeserver_url", "user_id", "access_token"} :
                                   table[k] = core.n
        /\ StatusNames = newest
=============================================================================
