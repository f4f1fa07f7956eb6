---------------------------- MODULE OfflineCache ----------------------------
(***************************************************************************)
(* The offline cache, matrixcli.db, as `serve` and `sync` fill it from the *)
(* replies of the sync engine: pcore::feedCache (pcore.cpp) over the       *)
(* tables of lib/database/db.cpp.                                          *)
(*                                                                         *)
(* feedCache works a reply off in the order of the code - the events that  *)
(* did not decrypt before, the rooms with their timelines, the invitations *)
(* - and each insert commits on its own, so the process may end between    *)
(* any two of them.  The list of events that wait for their key lives in   *)
(* memory only.  The engine (vendored) is external: it hands over replies  *)
(* in the order of the stream and imports room keys at its own pace.       *)
(***************************************************************************)
EXTENDS Integers, Sequences, FiniteSets, SequencesExt, FiniteSetsExt

CONSTANTS
    Msgs,          \* the encrypted messages the room will carry
    MaxName,       \* how often the room may be renamed
    MaxClock,      \* bound of the clock that dates invitations
    PendingLimit,  \* how many undecrypted events are remembered (4000 in the code)
    MaxRestart     \* bound on ends of the process

CacheAssumption ==
    /\ MaxName \in Nat /\ MaxClock \in Nat /\ MaxRestart \in Nat
    /\ PendingLimit \in Nat \ {0}
    /\ IsFiniteSet(Msgs)

VARIABLES
    \* matrixcli.db, for one room
    row,       \* the room's name in `rooms`: a version, Fallback, Local or NoRow
    stored,    \* per message its content in `events`: "absent", "raw", "text"
    members,   \* the m.room.member events about the user in `events`
    \* the process
    pending,   \* pendingTimelineDecrypts()
    work,      \* what is left of the reply feedCache works on
    \* the server and the engine
    name,      \* how often the room has been renamed
    fed,       \* the name version of the last reply that carried one
    sent,      \* the messages of the room, in order
    pos,       \* how many of them the engine has handed over
    keys,      \* messages whose room key the engine has imported
    status,    \* the user's membership: "none", "invite", "join"
    told,      \* what the last reply said of it
    clock,
    \* history
    restarts,  \* ends of the process so far
    forgotten, \* messages dropped from `pending`, or from a reply, by an end or the limit
    seenName   \* the name the last upsert should show

vars == <<row, stored, members, pending, work, name, fed, sent, pos, keys,
          status, told, clock, restarts, forgotten, seenName>>

db     == <<row, stored, members>>
server == <<name, sent, keys, status>>
hist   == <<restarts, forgotten>>

NoRow    == -3
Fallback == -2      \* the room id stands in for the name (pcore) or "" (db.cpp)
Local    == -1      \* a name the user typed (`roomname`)

Member == [membership : {"invite", "join"}, keyed : BOOLEAN, ts : 0..MaxClock]

Init ==
    /\ row = NoRow
    /\ stored = [m \in Msgs |-> "absent"]
    /\ members = {}
    /\ pending = {}
    /\ work = <<>>
    /\ name = 0 /\ fed = -1
    /\ sent = <<>> /\ pos = 0
    /\ keys = {}
    /\ status = "none" /\ told = "none"
    /\ clock = 0
    /\ restarts = 0
    /\ forgotten = {}
    /\ seenName = NoRow

-----------------------------------------------------------------------------
(* The tables. *)

\* openInvites(userId) for the room: an invite event that names the user in its
\* state_key, and no later join event that does.
OpenInvites ==
    { i \in members :
        /\ i.membership = "invite" /\ i.keyed
        /\ ~ \E j \in members : /\ j.membership = "join" /\ j.keyed
                                /\ j.ts > i.ts }

\* Seeded fault: the invitation is dated past the moment it was seen.
StoreInviteLater(t) ==
    members' = { e \in members : e.membership # "invite" } \cup
               {[membership |-> "invite", keyed |-> TRUE, ts |-> t + 1]}

\* insertEvent with the id "$invite_<room>": INSERT OR REPLACE, one row per room.
StoreInvite(t) ==
    members' = { e \in members : e.membership # "invite" } \cup
               {[membership |-> "invite", keyed |-> TRUE, ts |-> t]}

\* insertEvent of a message; decrypted or as it came.
Content(m) == IF m \in keys THEN "text" ELSE "raw"

-----------------------------------------------------------------------------
(* The server and the engine. *)

Rename ==
    /\ name < MaxName
    /\ name' = name + 1
    /\ UNCHANGED <<db, pending, work, fed, sent, pos, keys, status, told, clock, hist, seenName>>

Post(m) ==
    /\ m \notin Range(sent)
    /\ sent' = Append(sent, m)
    /\ UNCHANGED <<db, pending, work, name, fed, pos, keys, status, told, clock, hist, seenName>>

\* The room key of a message arrives and the engine imports it.
ImportKey(m) ==
    /\ m \in Range(sent) \ keys
    /\ keys' = keys \cup {m}
    /\ UNCHANGED <<db, pending, work, name, fed, sent, pos, status, told, clock, hist, seenName>>

Invite ==
    /\ status = "none"
    /\ status' = "invite"
    /\ UNCHANGED <<db, pending, work, name, fed, sent, pos, keys, told, clock, hist, seenName>>

\* The user joins, with this program or another one.
Join ==
    /\ status = "invite"
    /\ status' = "join"
    /\ UNCHANGED <<db, pending, work, name, fed, sent, pos, keys, told, clock, hist, seenName>>

Tick ==
    /\ clock < MaxClock
    /\ clock' = clock + 1
    /\ UNCHANGED <<db, server, pending, work, fed, pos, told, hist, seenName>>

-----------------------------------------------------------------------------
(* feedCache, one insert at a time. *)

Retries == SetToSeq({ [do |-> "retry", msg |-> m] : m \in pending })

\* Seeded fault: a reply that renames the room has its timeline dropped.
ReplySkips ==
    /\ work = <<>> /\ status = "join"
    /\ work' = Retries \o <<[do |-> "room", name |-> name]>>
    /\ pos' = Len(sent) /\ fed' = name /\ told' = status
    /\ UNCHANGED <<db, server, pending, clock, hist, seenName>>

\* A reply: the state that changed, the next messages, the join if it is new, and
\* the invitation as long as it is open (the server reports it again and again).
Reply ==
    /\ work = <<>>
    /\ \E n \in pos..Len(sent), full \in BOOLEAN :
        LET carries == full \/ name # fed
            joined  == status = "join"
            news    == [ i \in 1..(n - pos) |-> [do |-> "event", msg |-> sent[pos + i]] ]
        IN  /\ work' = Retries
                   \o (IF joined
                       THEN <<[do |-> "room", name |-> IF carries THEN name ELSE Fallback]>>
                       ELSE <<>>)
                   \o (IF joined /\ told # "join" THEN <<[do |-> "join"]>> ELSE <<>>)
                   \o (IF joined THEN news ELSE <<>>)
                   \o (IF status = "invite" THEN <<[do |-> "invite", name |-> name]>> ELSE <<>>)
            /\ work' # <<>>
            /\ IF joined THEN /\ pos' = n
                              /\ fed' = name
                         ELSE UNCHANGED <<pos, fed>>
            /\ told' = status
    /\ UNCHANGED <<db, server, pending, clock, hist, seenName>>

\* Seeded fault: the event is tried again with the key of another message.
FeedRetryOtherKey ==
    /\ work # <<>> /\ Head(work).do = "retry"
    /\ LET m == Head(work).msg
       IN  IF \E o \in keys : o # m /\ m \in keys
           THEN /\ stored' = [stored EXCEPT ![m] = "text"]
                /\ pending' = pending \ {m}
           ELSE UNCHANGED <<stored, pending>>
    /\ work' = Tail(work)
    /\ UNCHANGED <<row, members, server, fed, pos, told, clock, hist, seenName>>

\* An event that did not decrypt is tried again: stored anew and taken off the list
\* when its key is there, else kept.
FeedRetry ==
    /\ work # <<>> /\ Head(work).do = "retry"
    /\ LET m == Head(work).msg
       IN  IF m \in keys
           THEN /\ stored' = [stored EXCEPT ![m] = "text"]
                /\ pending' = pending \ {m}
           ELSE UNCHANGED <<stored, pending>>
    /\ work' = Tail(work)
    /\ UNCHANGED <<row, members, server, fed, pos, told, clock, hist, seenName>>

\* Seeded fault: INSERT OR IGNORE keeps the row that is there.
FeedRoomIgnores ==
    /\ work # <<>> /\ Head(work).do = "room"
    /\ row' = IF row = NoRow THEN Head(work).name ELSE row
    /\ seenName' = Head(work).name
    /\ work' = Tail(work)
    /\ UNCHANGED <<stored, members, pending, server, fed, pos, told, clock, hist>>

\* upsertRoom: INSERT OR REPLACE, with the room id for a name the reply leaves out.
FeedRoom ==
    /\ work # <<>> /\ Head(work).do = "room"
    /\ row' = Head(work).name
    /\ seenName' = Head(work).name
    /\ work' = Tail(work)
    /\ UNCHANGED <<stored, members, pending, server, fed, pos, told, clock, hist>>

\* Seeded fault: the event is stored but not remembered.
FeedEventForgets ==
    /\ work # <<>> /\ Head(work).do = "event"
    /\ stored' = [stored EXCEPT ![Head(work).msg] = Content(Head(work).msg)]
    /\ work' = Tail(work)
    /\ UNCHANGED <<row, members, pending, server, fed, pos, told, clock, hist, seenName>>

\* Seeded fault: the event is stored as it came even when it decrypts.
FeedEventCipher ==
    /\ work # <<>> /\ Head(work).do = "event"
    /\ LET m == Head(work).msg
       IN  /\ stored' = [stored EXCEPT ![m] = "raw"]
           /\ pending' = pending \cup {m}
           /\ forgotten' = forgotten \ {m}
    /\ work' = Tail(work)
    /\ UNCHANGED <<row, members, server, fed, pos, told, clock, restarts, seenName>>

\* A timeline message: stored as text when it decrypts, else stored as it came and
\* remembered; a list over the limit is cleared as a whole.
FeedEvent ==
    /\ work # <<>> /\ Head(work).do = "event"
    /\ LET m == Head(work).msg
           list == IF m \in keys THEN pending ELSE pending \cup {m}
           over == Cardinality(list) > PendingLimit
       IN  /\ stored' = [stored EXCEPT ![m] = Content(m)]
           /\ pending' = IF over THEN {} ELSE list
           /\ forgotten' = (forgotten \ {m}) \cup (IF over THEN list ELSE {})
    /\ work' = Tail(work)
    /\ UNCHANGED <<row, members, server, fed, pos, told, clock, restarts, seenName>>

\* The user's join is a timeline event like others: stored without its state_key.
FeedJoin ==
    /\ work # <<>> /\ Head(work).do = "join"
    /\ members' = members \cup {[membership |-> "join", keyed |-> FALSE, ts |-> clock]}
    /\ work' = Tail(work)
    /\ UNCHANGED <<row, stored, pending, server, fed, pos, told, clock, hist, seenName>>

\* Seeded fault: the invitation is dated at each report.
FeedInviteAgain ==
    /\ work # <<>> /\ Head(work).do = "invite"
    /\ row' = Head(work).name
    /\ seenName' = Head(work).name
    /\ StoreInvite(clock)
    /\ work' = Tail(work)
    /\ UNCHANGED <<stored, pending, server, fed, pos, told, clock, hist>>

\* An invitation: the room's row, and the invite event dated now unless an open one
\* is known.
FeedInvite ==
    /\ work # <<>> /\ Head(work).do = "invite"
    /\ row' = Head(work).name
    /\ seenName' = Head(work).name
    /\ IF OpenInvites = {} THEN StoreInvite(clock) ELSE UNCHANGED members
    /\ work' = Tail(work)
    /\ UNCHANGED <<stored, pending, server, fed, pos, told, clock, hist>>

-----------------------------------------------------------------------------
(* The user's commands and the end of the process. *)

\* `roomname <room> <name>` of the ASCII interface: upsertRoom with the typed name.
LocalName ==
    /\ row \notin {NoRow, Local}
    /\ row' = Local
    /\ seenName' = Local
    /\ UNCHANGED <<stored, members, pending, work, server, fed, pos, told, clock, hist>>

\* The `setup` wizard's first sync: upsertRoom of a reply that carries the whole state.
SetupSync ==
    /\ status = "join"
    /\ row' = name
    /\ seenName' = name
    /\ UNCHANGED <<stored, members, pending, work, server, fed, pos, told, clock, hist>>

\* The process ends, at any point of feedCache (`sync` ends after one reply).  The
\* list is gone; from where the engine asks again is its own, so any earlier place.
End ==
    /\ restarts < MaxRestart
    /\ \E n \in 0..pos : pos' = n
    /\ restarts' = restarts + 1
    /\ forgotten' = forgotten \cup pending
                      \cup { work[i].msg : i \in { j \in DOMAIN work : work[j].do = "event" } }
    /\ pending' = {}
    /\ work' = <<>>
    /\ UNCHANGED <<db, server, fed, told, clock, seenName>>

Feed == FeedRetry \/ FeedRoom \/ FeedEvent \/ FeedJoin \/ FeedInvite

Next ==
    \/ Rename \/ Invite \/ Join \/ Tick
    \/ \E m \in Msgs : Post(m) \/ ImportKey(m)
    \/ Reply \/ Feed
    \/ LocalName \/ SetupSync \/ End

\* The engine polls for ever and works each reply off; keys are sent by other
\* clients, which owe nothing.
Fairness == WF_vars(Reply) /\ WF_vars(Feed)

Spec == Init /\ [][Next]_vars
LiveSpec == Spec /\ Fairness

-----------------------------------------------------------------------------
\* The rows, the remembered events and the reply in work keep their shape.
TypeOK ==
    /\ row \in NoRow..MaxName
    /\ stored \in [Msgs -> {"absent", "raw", "text"}]
    /\ members \subseteq Member
    /\ pending \subseteq Msgs
    /\ name \in 0..MaxName /\ fed \in -1..MaxName
    /\ Range(sent) \subseteq Msgs
    /\ pos \in 0..Len(sent)
    /\ keys \subseteq Msgs
    /\ forgotten \subseteq Msgs
    /\ status \in {"none", "invite", "join"} /\ told \in {"none", "invite", "join"}

\* An event the cache shows undecrypted is on the list that tries it again, unless
\* the list was lost: by its limit, or with the process that kept it in memory.
RawIsRemembered ==
    \A m \in Msgs : stored[m] = "raw" => m \in pending \cup forgotten

\* Every message handed over is in the cache, still to be stored, or was in a reply
\* cut off by the end of the process: no retry, room or invitation drops one.
HandedOverIsStored ==
    \A i \in 1..pos :
        \/ stored[sent[i]] # "absent"
        \/ \E k \in DOMAIN work : work[k] = [do |-> "event", msg |-> sent[i]]
        \/ sent[i] \in forgotten

\* The list of rooms never shows a name that has been replaced: it shows the one of
\* the last reply or command, or stands in the room id.
NoStaleName ==
    row \in {seenName, Fallback, NoRow}

\* The date of an invitation is the moment the client first saw it: neither another
\* report nor a restart moves it (the comment at pcore.cpp:192).
InviteKept == \A i \in OpenInvites : i \in OpenInvites' \/ status = "join"

\* The same of every step.
InviteDateKept == [][InviteKept]_vars

\* A text once decrypted is never overwritten by the undecrypted event.
TextKept == \A m \in Msgs : stored[m] = "text" => stored'[m] = "text"

\* The same of every step.
TextStays == [][TextKept]_vars

\* With its key at hand an event still on the list becomes readable, or the
\* process ends before the next reply.
RawBecomesText ==
    \A m \in Msgs :
        (m \in pending /\ m \in keys) ~> (stored[m] = "text" \/ m \in forgotten)

\* db.hpp:64 - an open invite is one "with no later join".  The join reaches the
\* cache, but as an event without state_key, which no query finds.
NoInviteAfterJoin ==
    (\E j \in members : j.membership = "join") /\ work = <<>> => OpenInvites = {}

=============================================================================
