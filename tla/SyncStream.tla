----------------------------- MODULE SyncStream -----------------------------
(***************************************************************************)
(* The receiving side of the Matrix client (client_sync.cpp): one thread   *)
(* polls /sync, moves next_batch on, and then works through the reply: the *)
(* to-device events first, which carry the Megolm sessions, then the       *)
(* timeline, whose events are decrypted, written to the events table and   *)
(* handed to the callback.  An exception anywhere drops the rest of the    *)
(* reply; the process may be killed at any point, and only the database    *)
(* survives it.                                                            *)
(*                                                                         *)
(* The server's stream is one sequence of room events and to-device        *)
(* events; a token is a position in it.  Positions stand for event ids.    *)
(***************************************************************************)
EXTENDS Integers, Sequences, FiniteSets, SequencesExt

CONSTANTS
    Sessions,       \* the Megolm sessions of the room's senders
    Limit,          \* the timeline events a reply holds at most
    MaxStream,      \* how long the stream grows
    MaxRuns         \* how often the client is started

SyncAssumption ==
    /\ Limit \in Nat \ {0}
    /\ MaxStream \in Nat
    /\ MaxRuns \in Nat \ {0}

VARIABLES
    stream,         \* the server: what it has for this user
    born,           \* the server: the stream's length when this device logged in
    pc,             \* where the sync thread is
    token,          \* Impl::next_batch
    keys,           \* sr.to_device, what is left of it
    todo,           \* the timeline events of sr, what is left of them
    known,          \* CryptoManager::_inboundMegolm
    rows,           \* the events table: what is stored of each event
    shown,          \* the room events given to the callback in this run, in order
    missed,         \* what this run has passed over for good
    reply,          \* for each event, the token of the reply that brought it
    runs            \* how often the client was started

server == <<stream, born>>
history == <<shown, missed, reply, runs>>
vars == <<stream, born, pc, token, keys, todo, known, rows,
          shown, missed, reply, runs>>

\* An m.room_key event sent in the clear or inside an Olm message, and a room
\* event that is plain or encrypted with a session.
Items == [type : {"key", "olm", "encrypted"}, session : Sessions]
            \union [type : {"plain"}, session : {0}]

NoToken == -1
Positions == 1 .. MaxStream
IsKey(p) == stream[p].type \in {"key", "olm"}

TypeOK ==
    /\ stream \in Seq(Items) /\ Len(stream) <= MaxStream
    /\ born \in 0 .. Len(stream)
    /\ pc \in {"top", "poll", "keys", "insert", "event", "sleep", "down"}
    /\ token \in NoToken .. Len(stream)
    /\ keys \in Seq(Positions)
    /\ todo \in Seq(Positions)
    /\ known \subseteq Sessions
    /\ rows \in [Positions -> {"absent", "cipher", "clear"}]
    /\ shown \in Seq(Positions)
    /\ missed \subseteq Positions
    /\ reply \in [Positions -> 0 .. MaxStream]
    /\ runs \in 1 .. MaxRuns

Init ==
    /\ stream = <<>>
    /\ born = 0
    /\ pc = "top"
    /\ token = NoToken
    /\ keys = <<>>
    /\ todo = <<>>
    /\ known = {}
    /\ rows = [p \in Positions |-> "absent"]
    /\ shown = <<>>
    /\ missed = {}
    /\ reply = [p \in Positions |-> 0]
    /\ runs = 1

-----------------------------------------------------------------------------
(* The server.                                                             *)

Post(item) ==
    /\ Len(stream) < MaxStream
    /\ stream' = Append(stream, item)
    /\ UNCHANGED <<born, pc, token, keys, todo, known, rows, history>>

\* The members of S in order.
Ascending(S) ==
    CHOOSE s \in [1 .. Cardinality(S) -> S] :
        /\ ToSet(s) = S
        /\ \A i, j \in DOMAIN s : i < j => s[i] < s[j]

\* The room events between two tokens, and the last Limit of them.
RoomEvents(from, to) == {p \in from + 1 .. to : ~IsKey(p)}
Window(from, to) ==
    {p \in RoomEvents(from, to) :
        Cardinality({q \in RoomEvents(from, to) : q >= p}) <= Limit}

\* A device is sent the to-device events addressed to it since its login.
DeviceEvents(from, to) == {p \in from + 1 .. to : IsKey(p) /\ p > born}

-----------------------------------------------------------------------------
(* The sync thread.                                                        *)

LoopTop ==
    /\ pc = "top"
    /\ pc' = "poll"
    /\ UNCHANGED <<server, token, keys, todo, known, rows, history>>

Since == IF token = NoToken THEN 0 ELSE token

\* Seeded fault: the rooms are handled before the to-device events.
GoOnRoomsFirst(ks, es) ==
    pc' = IF es # <<>> THEN "insert" ELSE IF ks # <<>> THEN "keys" ELSE "top"

\* What is left to do with the reply decides where the thread goes: the loop
\* over to_device comes before the one over the rooms.
GoOn(ks, es) ==
    pc' = IF ks # <<>> THEN "keys" ELSE IF es # <<>> THEN "insert" ELSE "top"

\* Seeded fault: next_batch is one too far.
PollOkPastEnd(to) ==
    /\ pc = "poll"
    /\ to \in Since .. Len(stream)
    /\ token' = to + 1
    /\ keys' = Ascending(DeviceEvents(Since, to))
    /\ todo' = Ascending(Window(Since, to))
    /\ missed' = missed \union (RoomEvents(Since, to) \ Window(Since, to))
    /\ GoOn(keys', todo')
    /\ UNCHANGED <<server, known, rows, shown, reply, runs>>

\* Seeded fault: a reply starts with the event the token stands for.
PollOkOverlaps(to) ==
    /\ pc = "poll"
    /\ to \in Since .. Len(stream)
    /\ token' = to
    /\ keys' = Ascending(DeviceEvents(Since, to))
    /\ todo' = Ascending(Window(IF Since > 0 THEN Since - 1 ELSE 0, to))
    /\ missed' = missed \union (RoomEvents(Since, to) \ Window(Since, to))
    /\ GoOn(keys', todo')
    /\ UNCHANGED <<server, known, rows, shown, reply, runs>>

\* syncOnce: the reply tells all there is up to some position the stream had
\* while the request was under way; next_batch is set before anything of the
\* reply is handled.  A first sync without token starts with the last events of
\* the room, and so does a reply that would hold more than Limit of them.
PollOk(to) ==
    /\ pc = "poll"
    /\ to \in Since .. Len(stream)
    /\ token' = to
    /\ keys' = Ascending(DeviceEvents(Since, to))
    /\ todo' = Ascending(Window(Since, to))
    /\ missed' = missed \union (RoomEvents(Since, to) \ Window(Since, to))
    /\ GoOn(keys', todo')
    /\ UNCHANGED <<server, known, rows, shown, reply, runs>>

\* Seeded fault: next_batch is set before the status of the reply is looked at.
PollFailsAdvances ==
    /\ pc = "poll"
    /\ pc' = "sleep"
    /\ token' = Len(stream)
    /\ UNCHANGED <<server, keys, todo, known, rows, history>>

PollFails ==
    /\ pc = "poll"
    /\ pc' = "sleep"
    /\ UNCHANGED <<server, token, keys, todo, known, rows, history>>

\* Only an m.room_key event is looked into; a key that cannot be imported is
\* logged and passed over.
HandleKey ==
    /\ pc = "keys"
    /\ \/ /\ known' = IF stream[Head(keys)].type = "key"
                      THEN known \union {stream[Head(keys)].session}
                      ELSE known
          /\ UNCHANGED missed
       \/ /\ stream[Head(keys)].type = "key"
          /\ missed' = missed \union {Head(keys)}
          /\ UNCHANGED known
    /\ keys' = Tail(keys)
    /\ GoOn(keys', todo)
    /\ UNCHANGED <<server, token, todo, rows, shown, reply, runs>>

Readable(p) == stream[p].type = "plain" \/ stream[p].session \in known

\* decryptMegolm and insertEvent; an event that cannot be decrypted is stored as
\* it came.
Insert ==
    /\ pc = "insert"
    /\ rows' = [rows EXCEPT ![Head(todo)] =
                    IF Readable(Head(todo)) THEN "clear" ELSE "cipher"]
    /\ reply' = [reply EXCEPT ![Head(todo)] = token]
    /\ pc' = "event"
    /\ UNCHANGED <<server, token, keys, todo, known, shown, missed, runs>>

HandleEvent ==
    /\ pc = "event"
    /\ shown' = Append(shown, Head(todo))
    /\ todo' = Tail(todo)
    /\ GoOn(keys, todo')
    /\ UNCHANGED <<server, token, keys, known, rows, missed, reply, runs>>

\* An event of an unexpected shape throws, in the callback or before it; a key
\* may have been imported by then.
Throws ==
    /\ pc \in {"keys", "insert", "event"}
    /\ missed' = missed \union ToSet(keys) \union ToSet(todo)
    /\ keys' = <<>>
    /\ todo' = <<>>
    /\ pc' = "sleep"
    /\ \/ UNCHANGED known
       \/ /\ pc = "keys"
          /\ stream[Head(keys)].type = "key"
          /\ known' = known \union {stream[Head(keys)].session}
    /\ UNCHANGED <<server, token, rows, shown, reply, runs>>

\* Seeded fault: an exception ends the loop.
WakeNever == pc = "sleep" /\ FALSE /\ UNCHANGED vars

Wake ==
    /\ pc = "sleep"
    /\ pc' = "top"
    /\ UNCHANGED <<server, token, keys, todo, known, rows, history>>

-----------------------------------------------------------------------------
(* The process.                                                            *)

\* It ends or is killed; what was in memory is gone.
Crash ==
    /\ pc # "down"
    /\ pc' = "down"
    /\ token' = NoToken
    /\ keys' = <<>>
    /\ todo' = <<>>
    /\ known' = {}
    /\ shown' = <<>>
    /\ missed' = {}
    /\ reply' = [p \in Positions |-> 0]
    /\ UNCHANGED <<server, rows, runs>>

\* cmdTUI logs in as a new device with a fresh CryptoManager; the stored
\* next_batch is not read back.
Login ==
    /\ pc = "down"
    /\ runs < MaxRuns
    /\ runs' = runs + 1
    /\ born' = Len(stream)
    /\ pc' = "top"
    /\ UNCHANGED <<stream, token, keys, todo, known, rows, shown, missed, reply>>

-----------------------------------------------------------------------------
SyncThread ==
    \/ LoopTop
    \/ \E to \in 0 .. MaxStream : PollOk(to)
    \/ PollFails \/ HandleKey \/ Insert \/ HandleEvent \/ Throws \/ Wake

Next ==
    \/ \E item \in Items : Post(item)
    \/ SyncThread
    \/ Crash
    \/ Login

Spec == Init /\ [][Next]_vars

\* The thread does not stop, and the server is reached again and again, with a
\* reply that tells all it has.
Fairness ==
    /\ WF_vars(SyncThread)
    /\ SF_vars(PollOk(Len(stream)))

FairSpec == Spec /\ Fairness

-----------------------------------------------------------------------------
(* Properties.                                                             *)

\* Nothing between the start and next_batch is lost without a reason: it was
\* given to the callback, is still to be handled, or was passed over because the
\* server cut the reply or an exception dropped the rest of one.  next_batch
\* moves before the work is done, so this is not said by any single step.
NothingSkipped ==
    \A p \in 1 .. Len(stream) :
        p <= token /\ ~IsKey(p)
            => p \in ToSet(shown) \union ToSet(todo) \union missed

\* In one run the callback sees each room event once and in stream order,
\* whatever polls fail, replies are dropped or events arrive meanwhile.
ShownOnceInOrder ==
    \A i, j \in 1 .. Len(shown) : i < j => shown[i] < shown[j]

\* Room events and their session may come in one reply in either order: if an
\* event was stored as ciphertext in this run, its key came in a later reply or
\* was dropped with one.
KeyInTimeDecrypts ==
    \A p, q \in 1 .. Len(stream) :
        /\ reply[p] > 0 /\ rows[p] = "cipher"
        /\ stream[q] = [type |-> "key", session |-> stream[p].session]
        /\ born < q /\ q <= reply[p]
        => q \in missed

\* As long as the process runs, every event of the stream is handled or passed
\* over in the end.
EventuallyHandled ==
    \A p \in Positions :
        p <= Len(stream) ~> (pc = "down" \/ (p <= token /\ p \notin ToSet(todo)))

\* "Handle to-device events (m.room_key, m.room.encrypted Olm)": a session key
\* that was handled is known.
SessionsOfHandledKeys ==
    \A p \in 1 .. Len(stream) :
        IsKey(p) /\ born < p /\ p <= token /\ p \notin ToSet(keys) \union missed
            => stream[p].session \in known
=============================================================================
