------------------------------- MODULE UiRooms -------------------------------
(***************************************************************************)
(* The room on the screen of the ASCII interface (`progressive-cli ui`):   *)
(* the commands that open a room, move inside it and write to it, the       *)
(* panels they fill, and the cache they read while another process of the   *)
(* user (serve, the TUI) goes on storing what the sync brings               *)
(* (src/ascii_ui_repl_a.cpp, ascii_ui_repl_g.cpp, ascii_ui_helpers.cpp,    *)
(* ascii_ui_rooms.cpp over lib/database/db.cpp).                           *)
(*                                                                         *)
(* The interface never hears of a change: it shows copies it read at the    *)
(* last command that read them, each command a different set of copies.     *)
(***************************************************************************)
EXTENDS Integers, Sequences, FiniteSets, SequencesExt

CONSTANTS
    ByName,      \* the rooms of the account, in the order of their names
    Raw,         \* a room text that names no room
    None,        \* "": no room, no event
    Limit,       \* events a room is opened with (--limit; 300 by default)
    Wide,        \* events a room is opened with after a far goto (5000)
    Scan,        \* newest events looked through for threads and pins (300)
    Caches,      \* bound: what the cache may hold when the interface starts
    MaxEvents,   \* bound on the events stored
    MaxCommands  \* bound on the commands typed

AllRooms == Range(ByName)

RoomsAssumption ==
    /\ Raw \notin AllRooms /\ None \notin AllRooms /\ None # Raw
    /\ {Limit, Wide, Scan, MaxEvents, MaxCommands} \subseteq Nat \ {0} /\ Limit <= Wide
    /\ \A log \in Caches : Len(log) <= MaxEvents

VARIABLES
    db,        \* the cache: the events by their timestamps (log), the rooms with a row
               \* (known) and with a space in it (tagged), the read markers (read)
    ui,        \* what the interface holds (UiState)
    own,       \* history: the events this interface wrote
    byJump,    \* history: `jump` filled the message window last
    unsorted,  \* history: the room list was re-read and not sorted
    commands   \* commands typed so far

vars == <<db, ui, own, byJump, unsorted, commands>>

Kinds == {"text", "thread", "pins", "power", "tombstone"}

-----------------------------------------------------------------------------
(* Reading the cache. *)

Chronological(d, r) == SelectSeq(d.log, LAMBDA e : e.room = r)

\* getEvents(r, n): the newest n, newest first.
Newest(d, r, n) ==
    LET all == Reverse(Chronological(d, r))
    IN  SubSeq(all, 1, IF Len(all) < n THEN Len(all) ELSE n)

Ids(events) == [i \in DOMAIN events |-> events[i].id]
Stored(id) == \E i \in DOMAIN db.log : db.log[i].id = id
Event(d, id) == d.log[CHOOSE i \in DOMAIN d.log : d.log[i].id = id]

\* roomLastTs: the newest message, or whatever is newest.
LastTs(d, r) ==
    LET mine == { i \in DOMAIN d.log : d.log[i].room = r }
        texts == { i \in mine : d.log[i].kind \in {"text", "thread"} }
        top(S) == CHOOSE i \in S : \A j \in S : j <= i
    IN  IF texts # {} THEN top(texts) ELSE IF mine # {} THEN top(mine) ELSE 0

\* sortRoomsByActivity: the starred rooms first, then by activity.
Sorted(d, list, starred) ==
    LET before(a, b) == IF (a \in starred) # (b \in starred) THEN a \in starred
                        ELSE LastTs(d, a) > LastTs(d, b)
    IN  SortSeq(list, before)

\* listRooms(): the rows by name.
ListRooms(rows) == SelectSeq(ByName, LAMBDA r : r \in rows)

\* A query is a room's id, a text that is a part of every room's name and id, a text
\* no room has, or nothing.
Queries == AllRooms \cup {"part", Raw, None}

\* The loops of the commands: the first room of the list that contains the text (the
\* empty text is in all of them), the text itself when none does.
FirstMatch(list, q) ==
    IF q \in {"part", None}
    THEN IF list = <<>> THEN (IF q = None THEN None ELSE Raw) ELSE list[1]
    ELSE q

\* matchRoomInCache: nothing for the empty text and when no room of the list matches.
MatchInCache(list, q) ==
    CASE q = "part" /\ list # <<>> -> list[1]
      [] q \in Range(list)         -> q
      [] OTHER                     -> None

\* pinnedIds: the newest pin list within reach.
PinsOf(d, r) ==
    LET lists == SelectSeq(Newest(d, r, Scan), LAMBDA e : e.kind = "pins")
    IN  IF lists = <<>> THEN {} ELSE lists[1].ref

\* Threads of a room, newest root first: the events others of the same window name.
Roots(r) ==
    LET window == Newest(db, r, Scan)
    IN  Ids(SelectSeq(window, LAMBDA e :
              \E i \in DOMAIN window : window[i].kind = "thread"
                                       /\ window[i].ref = e.id))
Replies(r, root) ==
    Ids(SelectSeq(Newest(db, r, Scan), LAMBDA e : e.kind = "thread" /\ e.ref = root))

\* tombstoneSuccessor: the oldest tombstone of the window.
Successor(msgs) ==
    LET stones == SelectSeq(msgs, LAMBDA id : Event(db, id).kind = "tombstone")
    IN  IF stones = <<>> THEN None ELSE Event(db, stones[1]).ref

-----------------------------------------------------------------------------
(* Opening. *)

Closed == [cur |-> None, msgs |-> <<>>, marker |-> None, pins |-> {}, senders |-> {},
           levels |-> None, focus |-> None, wide |-> FALSE, panel |-> "members",
           thrRoom |-> None, thrRoot |-> None, thrReplies |-> <<>>,
           list |-> <<>>, starred |-> {}]

\* Which power-levels event the interface ends with: the newest of the window, else the
\* oldest of the room, else the one it had of the room before.
Levels(d, u, r, msgs) ==
    LET power(s) == SelectSeq(s, LAMBDA e : e.kind = "power")
        window == power([i \in DOMAIN msgs |-> Event(d, msgs[i])])
        all == power(Chronological(d, r))
    IN  CASE window # <<>> -> Last(window).id
          [] window = <<>> /\ all # <<>> -> all[1].id
          [] OTHER -> u.levels

\* Seeded fault: the pins and the marker are left as they were.
LoadMessagesOnly(d, u, q) ==
    LET r == IF q = None /\ u.list # <<>> THEN u.list[1] ELSE MatchInCache(u.list, q)
        msgs == Reverse(Ids(Newest(d, r, IF u.wide THEN Wide ELSE Limit)))
    IN  IF r = None
        THEN [u EXCEPT !.cur = None, !.msgs = <<>>, !.senders = {}]
        ELSE [u EXCEPT !.cur = r, !.msgs = msgs,
                       !.senders = { Event(d, msgs[i]).by : i \in DOMAIN msgs },
                       !.levels = Levels(d, u, r, msgs)]

\* loadRoomIntoStateImpl.  When nothing matches, only the messages and the members go.
Load(d, u, q) ==
    LET r == IF q = None /\ u.list # <<>> THEN u.list[1] ELSE MatchInCache(u.list, q)
        msgs == Reverse(Ids(Newest(d, r, IF u.wide THEN Wide ELSE Limit)))
    IN  IF r = None
        THEN [u EXCEPT !.cur = None, !.msgs = <<>>, !.senders = {}]
        ELSE [u EXCEPT !.cur = r, !.msgs = msgs, !.marker = d.read[r],
                       !.pins = PinsOf(d, r),
                       !.senders = { Event(d, msgs[i]).by : i \in DOMAIN msgs },
                       !.levels = Levels(d, u, r, msgs)]

Init ==
    /\ db \in [log : Caches, known : {AllRooms, {Last(ByName)}}, tagged : SUBSET AllRooms,
               read : {[r \in AllRooms |-> None]}]
    /\ db.tagged = db.known
    /\ commands = 0
    /\ ui = Load(db, [Closed EXCEPT !.list = ListRooms(db.known)], None)
    /\ own = {}
    /\ byJump = FALSE
    /\ unsorted = FALSE

ReadsOnly == UNCHANGED <<db, own>>

Open(q) ==
    /\ ui' = Load(db, ui, IF q = None THEN ui.cur ELSE q)
    /\ byJump' = FALSE
    /\ ReadsOnly /\ UNCHANGED unsorted

\* rooms: the rows again, sorted, and the room again.
RoomsCmd ==
    LET list == Sorted(db, ListRooms(db.known), ui.starred)
    IN  /\ ui' = Load(db, [ui EXCEPT !.list = list], ui.cur)
        /\ byJump' = FALSE
        /\ unsorted' = FALSE
        /\ ReadsOnly

\* create-room and create-space: the server makes the room, its row comes with the sync;
\* the rows are read again and left in the order of their names.
CreateRoom ==
    /\ ui' = [ui EXCEPT !.list = ListRooms(db.known)]
    /\ unsorted' = TRUE
    /\ ReadsOnly /\ UNCHANGED byJump

\* account: the rows again, unsorted, and the first room.
Account ==
    /\ ui' = Load(db, [ui EXCEPT !.list = ListRooms(db.known)], None)
    /\ byJump' = FALSE
    /\ unsorted' = TRUE
    /\ ReadsOnly

\* jump <room> <date>: the events from a day on.  The walk over the server's history ends
\* in the order of time; the one over the cache is reversed twice and ends newest first.
\* The members, the pins and the marker stay those of the room before.
Jump(q, server) ==
    LET r == FirstMatch(ui.list, q)
    IN  /\ \E from \in 1..(Len(db.log) + 1) :
             LET days == SelectSeq(SubSeq(db.log, from, Len(db.log)), LAMBDA e : e.room = r)
             IN  ui' = [ui EXCEPT !.cur = r,
                                  !.msgs = IF server THEN Ids(days)
                                           ELSE Reverse(Ids(days))]
        /\ byJump' = TRUE
        /\ ReadsOnly /\ UNCHANGED unsorted

\* Seeded fault: the viewport moves to the event and the room is left as it is.
GotoInPlace(id) ==
    /\ Stored(id)
    /\ ui' = [ui EXCEPT !.focus = id]
    /\ ReadsOnly /\ UNCHANGED <<byJump, unsorted>>

\* goto <event>: its room is opened when another one is, and opened wider when the event
\* is older than the window; the wider window stays.
Goto(id) ==
    LET room == Event(db, id).room
        near == IF ui.cur # room THEN Load(db, ui, room) ELSE ui
        there == id \in Range(near.msgs)
        far == Load(db, [near EXCEPT !.wide = TRUE], room)
        found == there \/ id \in Range(far.msgs)
        view == IF there THEN near ELSE far
    IN  /\ Stored(id)
        /\ ui' = IF found THEN [view EXCEPT !.focus = id] ELSE view
        /\ byJump' = (byJump /\ view = ui)
        /\ ReadsOnly /\ UNCHANGED unsorted

\* goto lastread: the marker the room was opened with.
GotoLastRead == ui.marker # None /\ Goto(ui.marker)

\* goto successor: the room a tombstone of the window names.
GotoSuccessor ==
    LET next == Successor(ui.msgs)
    IN  /\ next # None
        /\ ui' = Load(db, ui, next)
        /\ byJump' = FALSE
        /\ ReadsOnly /\ UNCHANGED unsorted

\* newest: the viewport goes back to the end.
NewestCmd ==
    /\ ui' = [ui EXCEPT !.focus = None]
    /\ ReadsOnly /\ UNCHANGED <<byJump, unsorted>>

-----------------------------------------------------------------------------
(* The right panel. *)

\* thread off, threads, and thread [<room>]: the members, the threads of all rooms, the
\* threads of one.
Panel(q) ==
    /\ \/ ui' = [ui EXCEPT !.panel = "members"]
       \/ ui' = [ui EXCEPT !.panel = "threads",
                           !.thrRoom = FirstMatch(ui.list, IF q = None THEN ui.cur ELSE q)]
    /\ ReadsOnly /\ UNCHANGED <<byJump, unsorted>>

\* Seeded fault: the replies are those of the thread with that number in the open room.
ThreadOpenCurrent(q, n) ==
    LET r == FirstMatch(ui.list, IF q = None THEN ui.cur ELSE q)
    IN  /\ n \in DOMAIN Roots(r) /\ n \in DOMAIN Roots(ui.cur)
        /\ ui' = [ui EXCEPT !.panel = "thread", !.thrRoom = r, !.thrRoot = Roots(r)[n],
                            !.thrReplies = Replies(ui.cur, Roots(ui.cur)[n])]
        /\ ReadsOnly /\ UNCHANGED <<byJump, unsorted>>

\* thread [<room>] <n>: the n-th thread; a number with no thread changes nothing.
ThreadOpen(q, n) ==
    LET r == FirstMatch(ui.list, IF q = None THEN ui.cur ELSE q)
        roots == Roots(r)
    IN  /\ n \in DOMAIN roots
        /\ ui' = [ui EXCEPT !.panel = "thread", !.thrRoom = r, !.thrRoot = roots[n],
                            !.thrReplies = Replies(r, roots[n])]
        /\ ReadsOnly /\ UNCHANGED <<byJump, unsorted>>

-----------------------------------------------------------------------------
(* Writing to the cache. *)

NewId == Len(db.log) + 1   \* event ids carry the clock; no event is ever deleted here
With(room, kind, by, ref) ==
    [db EXCEPT !.log = Append(@, [id |-> NewId, room |-> room, kind |-> kind, by |-> by,
                                  ref |-> ref])]
Space == Len(db.log) < MaxEvents

\* Seeded fault: the text is stored and the view is read before it is.
SendBefore(q) ==
    LET r == IF q = "part" THEN Raw ELSE q
    IN  /\ Space /\ q # None
        /\ db' = With(r, "text", "me", None)
        /\ ui' = IF r = ui.cur THEN Load(db, ui, r) ELSE ui
        /\ byJump' = (byJump /\ r # ui.cur)
        /\ own' = own \cup {NewId}
        /\ UNCHANGED unsorted

\* send <room> <text>: the room by its whole id or name, or the text itself as a room;
\* the view is read again when it shows that room.
Send(q) ==
    LET r == IF q = "part" THEN Raw ELSE q
    IN  /\ Space /\ q # None
        /\ db' = With(r, "text", "me", None)
        /\ ui' = IF r = ui.cur THEN Load(db', ui, r) ELSE ui
        /\ byJump' = (byJump /\ r # ui.cur)
        /\ own' = own \cup {NewId}
        /\ UNCHANGED unsorted

\* attach <room> <file> [--thread <root>] without a session: a local file event in the
\* first room that matches, and the open room again.
Attach(q, root) ==
    LET r == FirstMatch(ui.list, q)
    IN  /\ Space /\ q # None
        /\ db' = With(r, IF root = None THEN "text" ELSE "thread", "me", root)
        /\ ui' = Load(db', ui, ui.cur)
        /\ byJump' = FALSE
        /\ own' = own \cup {NewId}
        /\ UNCHANGED unsorted

\* reply and react to the message at <HH:MM> of <[nick]>, which must be in the window
\* ("thread <HH:MM>" goes to the branch of the right panel instead).
ReplyRef(target) ==
    /\ Space /\ target \in Range(ui.msgs)
    /\ db' = With(ui.cur, "text", "me", None)
    /\ ui' = Load(db', ui, ui.cur)
    /\ byJump' = FALSE
    /\ own' = own \cup {NewId}
    /\ UNCHANGED unsorted

\* pin <HH:MM> <[nick]>: a pin list of this event alone is stored; the view adds it to the
\* pins it shows and reads nothing.
PinRef(target) ==
    /\ Space /\ target \in Range(ui.msgs)
    /\ db' = With(ui.cur, "pins", "me", {target})
    /\ ui' = [ui EXCEPT !.pins = @ \cup {target}]
    /\ own' = own \cup {NewId}
    /\ UNCHANGED <<byJump, unsorted>>

\* power <room> <user|default> <level>: the room's newest power-levels event is stored
\* again with the time of now, or a first one is made.
Power(q) ==
    LET r == FirstMatch(ui.list, q)
        old == SelectSeq(Newest(db, r, Wide), LAMBDA e : e.kind = "power")
        moved == Append(SelectSeq(db.log, LAMBDA e : e.id # old[1].id), old[1])
    IN  /\ q # None
        /\ IF old # <<>> THEN db' = [db EXCEPT !.log = moved] /\ own' = own
           ELSE Space /\ db' = With(r, "power", "me", None) /\ own' = own \cup {NewId}
        /\ ui' = Load(db', ui, ui.cur)
        /\ byJump' = FALSE
        /\ UNCHANGED unsorted

\* Seeded fault: the star is stored and the list keeps its order.
StarLater(q, on) ==
    LET r == FirstMatch(ui.list, q)
        starred == IF on THEN ui.starred \cup {r} ELSE ui.starred \ {r}
    IN  /\ q # None
        /\ ui' = [ui EXCEPT !.starred = starred]
        /\ ReadsOnly /\ UNCHANGED <<byJump, unsorted>>

\* star <room> on|off: the list is sorted on the spot.
Star(q, on) ==
    LET r == FirstMatch(ui.list, q)
        starred == IF on THEN ui.starred \cup {r} ELSE ui.starred \ {r}
    IN  /\ q # None
        /\ ui' = [ui EXCEPT !.starred = starred, !.list = Sorted(db, @, starred)]
        /\ unsorted' = FALSE
        /\ ReadsOnly /\ UNCHANGED byJump

\* Seeded fault: a row is written for a text that names no room as well.
RoomNameAny(q) ==
    LET r == FirstMatch(ui.list, q)
        rows == [db EXCEPT !.known = @ \cup {r}, !.tagged = @ \ {r}]
    IN  /\ q # None
        /\ db' = rows
        /\ ui' = Load(rows, [ui EXCEPT !.list = Sorted(rows, ListRooms(rows.known),
                                                        ui.starred)], ui.cur)
        /\ byJump' = FALSE
        /\ unsorted' = FALSE
        /\ UNCHANGED own

\* roomname and topic: the row of a listed room is written anew from the columns the
\* command knows, and the one that names the space is not among them.
RoomName(q) ==
    LET r == FirstMatch(ui.list, q)
        rows == IF r \in Range(ui.list)
                THEN [db EXCEPT !.known = @ \cup {r}, !.tagged = @ \ {r}] ELSE db
    IN  /\ q # None
        /\ db' = rows
        /\ ui' = Load(rows, [ui EXCEPT !.list = Sorted(rows, ListRooms(rows.known),
                                                        ui.starred)], ui.cur)
        /\ byJump' = FALSE
        /\ unsorted' = FALSE
        /\ UNCHANGED own

-----------------------------------------------------------------------------
(* The other process that fills the cache. *)

Refs(kind) ==
    CASE kind = "pins" -> { {e.id} : e \in Range(db.log) }
      [] kind = "thread" -> { e.id : e \in Range(db.log) }
      [] kind = "tombstone" -> AllRooms
      [] OTHER -> {None}

\* The sync stores an event, a room's row with its space, a read marker.
Arrive(r, kind) ==
    /\ Space /\ r \in db.known
    /\ \E ref \in Refs(kind) : db' = With(r, kind, "them", ref)
    /\ UNCHANGED <<ui, own, byJump, unsorted>>
Joined(r) ==
    /\ r \notin db.known
    /\ db' = [db EXCEPT !.known = @ \cup {r}, !.tagged = @ \cup {r}]
    /\ UNCHANGED <<ui, own, byJump, unsorted>>
MarkRead(r) ==
    /\ Chronological(db, r) # <<>> /\ db.read[r] # Newest(db, r, 1)[1].id
    /\ db' = [db EXCEPT !.read[r] = Newest(db, r, 1)[1].id]
    /\ UNCHANGED <<ui, own, byJump, unsorted>>

Command ==
    \/ \E q \in Queries :
          \/ Open(q) \/ Panel(q) \/ Power(q) \/ RoomName(q)
          \/ Jump(q, TRUE) \/ Jump(q, FALSE)
          \/ Star(q, TRUE) \/ Star(q, FALSE)
          \/ Send(q)
          \/ \E n \in 1..MaxEvents : ThreadOpen(q, n)
          \/ \E root \in { e.id : e \in Range(db.log) } \cup {None} : Attach(q, root)
    \/ RoomsCmd \/ CreateRoom \/ Account \/ GotoLastRead \/ GotoSuccessor \/ NewestCmd
    \/ \E id \in 1..MaxEvents : Goto(id) \/ ReplyRef(id) \/ PinRef(id)
Sync == \E r \in AllRooms : (\E kind \in Kinds : Arrive(r, kind)) \/ Joined(r) \/ MarkRead(r)

Next ==
    \/ commands < MaxCommands /\ commands' = commands + 1 /\ Command
    \/ Sync /\ UNCHANGED commands

Spec == Init /\ [][Next]_vars

-----------------------------------------------------------------------------
(* Properties. *)

Shown == Range(ui.msgs)

\* The stored rows, events and markers, and what the interface holds of them.
TypeOK ==
    /\ db.tagged \subseteq db.known /\ db.known \subseteq AllRooms
    /\ Len(db.log) <= MaxEvents
    /\ { e.id : e \in Range(db.log) } = 1..Len(db.log)
    /\ Shown \subseteq 1..Len(db.log)
    /\ ui.cur \in AllRooms \cup {Raw, None}
    /\ Range(ui.list) \subseteq db.known
    /\ ui.panel \in {"members", "threads", "thread"}

\* Unless `jump` filled the window or nothing matched, all that is shown of the room is of
\* one room: the messages, their senders, the pins, and the marker goto lastread follows.
ShownTogether ==
    (~ byJump /\ ui.cur # None) =>
        /\ \A id \in Shown : Event(db, id).room = ui.cur
        /\ ui.senders = { Event(db, id).by : id \in Shown }
        /\ ui.marker # None => Event(db, ui.marker).room = ui.cur
        /\ \A id \in ui.pins :
              id \in Shown \/ \E e \in Range(db.log) :
                  e.kind = "pins" /\ e.room = ui.cur /\ id \in e.ref

\* What the user wrote into the room on the screen is on the screen, unless a jump turned
\* the window away, newer events pushed it out, or it is a pin.
OwnEventsShown ==
    \A id \in own :
        LET e == Event(db, id)
            after == { i \in DOMAIN db.log : db.log[i].room = e.room /\ db.log[i] # e
                         /\ \E j \in 1..(i - 1) : db.log[j] = e }
        IN  (e.room = ui.cur /\ ~ byJump /\ e.kind # "pins") =>
                id \in Shown \/ Cardinality(after) >= Limit

\* The thread of the right panel, whatever room is open beside it, is a thread of its
\* room, and every reply under the root answers that root.
ThreadPanelFits ==
    ui.panel = "thread" =>
        /\ Event(db, ui.thrRoot).room = ui.thrRoom
        /\ ui.thrReplies # <<>>
        /\ \A id \in Range(ui.thrReplies) :
              /\ Event(db, id).room = ui.thrRoom
              /\ Event(db, id).ref = ui.thrRoot

\* Starred rooms are on top of the list from the star on, through new activity and
\* renames, until a command reads the rows again without sorting them.
StarredFirst ==
    ~ unsorted =>
        \A i, j \in DOMAIN ui.list :
            (ui.list[i] \notin ui.starred /\ ui.list[j] \in ui.starred) => j < i

\* The viewport is only ever put on an event the window holds, in the room it shows.
FocusFollows ==
    (ui'.focus # ui.focus /\ ui'.focus # None) =>
            /\ ui'.focus \in Range(ui'.msgs)
            /\ Event(db, ui'.focus).room = ui'.cur

\* The same of every step.
FocusInWindow == [][FocusFollows]_vars

\* The window is in the order of time, as the drawing of the chat takes it to be.
MessagesInOrder ==
    \A i, j \in DOMAIN ui.msgs :
        i < j => \E k, l \in DOMAIN db.log :
                     k < l /\ db.log[k].id = ui.msgs[i] /\ db.log[l].id = ui.msgs[j]

=============================================================================
