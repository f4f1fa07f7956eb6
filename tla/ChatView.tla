------------------------------ MODULE ChatView ------------------------------
(***************************************************************************)
(* The chat of the terminal interface (lib/tui/chat_view.cpp), as the       *)
(* start, the callbacks and the events of src/demo_tui.cpp and              *)
(* src/cmd_tui_events.cpp use it.  The interface's thread draws and takes   *)
(* keys; the sync thread and detached ones add to what it shows, under the  *)
(* view's lock.  Drawing takes the lock once for each panel, and clears     *)
(* _needsRedraw before it reads anything.                                   *)
(*                                                                         *)
(* Nothing sets is_thread_root and nothing calls setMembers: 't' opens no   *)
(* thread, so a reply is kept where it is never shown, and the member list  *)
(* is the line "(sync first)".  The composer is kept as its length and its  *)
(* cursor, the search box as the length of its query.                       *)
(***************************************************************************)
EXTENDS Integers, Sequences

CONSTANTS
    RoomIds,        \* the rooms there may be, in the order they come
    Old,            \* events of the first room loaded from the database
    Starts,         \* its read marker (0: none), and whether the user was invited to it
    Cap, Trim,      \* messages kept of a room (1000), and dropped beyond that (200)
    RoomLines, MessageLines,    \* lines of the two panels
    Page,           \* half the height of the terminal
    MaxInputs       \* bound on the keys and the events

ChatAssumption ==
    /\ Len(RoomIds) >= 2 /\ RoomIds \in Seq({ RoomIds[i] : i \in DOMAIN RoomIds })
    /\ {MaxInputs, Cap} \subseteq Nat /\ {Old, RoomLines, MessageLines, Page} \subseteq Nat \ {0}
    /\ Starts \subseteq (0..Old) \X BOOLEAN /\ Trim \in 1..Cap

VARIABLES
    loop,       \* where the interface's thread is
    view,       \* what only that thread changes, but for the scroll of a trimmed room
    roomList,      \* _rooms: the id, and whether the label is more than that
    messages,   \* _messages: of a room and a thread (0: none)
    unread,     \* _unreadCounts
    typing,     \* _typingUsers: the rooms somebody types in
    redraw,     \* _needsRedraw
    screen,     \* what the terminal shows
    handling,   \* the event the sync thread is at
    came,       \* where the messages that came were put, in their order
    replaced,   \* rooms whose messages a search has replaced
    inputs      \* keys and events so far

vars == <<loop, view, roomList, messages, unread, typing, redraw, screen, handling, came,
          replaced, inputs>>

RoomSet == { RoomIds[i] : i \in DOMAIN RoomIds }
Nothing == [kind |-> "none", room |-> RoomIds[1], of |-> 0]
Blank == [typing |-> FALSE, rooms |-> <<>>, messages |-> <<>>,
          bottom |-> [box |-> FALSE, query |-> 0, input |-> 0, cursor |-> 0, focus |-> "input"]]

Entry(n, id, kind) == [n |-> n, id |-> id, kind |-> kind, read |-> FALSE]
AtLeast(x, y) == IF x > y THEN x ELSE y
AtMost(x, y) == IF x < y THEN x ELSE y

TypeOK ==
    /\ loop \in {"top", "left", "right", "key", "paging", "searching", "gone"}
    /\ view.active \in RoomSet /\ view.focus \in {"input", "rooms", "search"}
    /\ view.pane \in {"rooms", "members"} /\ {view.box, view.help, redraw} \subseteq BOOLEAN
    /\ {view.input, view.cursor, view.query, view.roomScroll, view.msgScroll} \subseteq Int
    /\ \A i \in DOMAIN roomList : roomList[i].id \in RoomSet
    /\ unread \in [RoomSet -> Nat] /\ typing \subseteq RoomSet /\ replaced \subseteq RoomSet
    /\ DOMAIN messages \subseteq RoomSet \X {0, 1}

-----------------------------------------------------------------------------
(* The start: rooms and history come from the database, the last room with its first event. *)

\* getEvents gives the newest first; the last-read line is put behind the message read,
\* and a remembered invitation in front of all.
History(marker, invited) ==
    LET events == [i \in 1..Old |-> Entry(Old + 1 - i, Old + 1 - i, "text")]
        at == Old + 1 - marker
        notice == <<Entry(0, 0, "notice")>>
    IN  (IF invited THEN notice ELSE <<>>)
        \o (IF marker = 0 THEN events
            ELSE SubSeq(events, 1, at) \o notice \o SubSeq(events, at + 1, Old))

Init ==
    /\ loop = "top" /\ redraw = TRUE /\ screen = Blank
    /\ view = [active |-> RoomIds[1], roomScroll |-> 0, msgScroll |-> 0, input |-> 0, cursor |-> 0,
               focus |-> "input", box |-> FALSE, query |-> 0, pane |-> "rooms", help |-> FALSE]
    /\ roomList = [i \in 1..(Len(RoomIds) - 1) |-> [id |-> RoomIds[i], named |-> TRUE]]
    /\ \E start \in Starts : messages = [key \in {<<RoomIds[1], 0>>} |-> History(start[1], start[2])]
    /\ unread = [r \in RoomSet |-> 0] /\ typing = {}
    /\ handling = Nothing /\ came = [i \in 1..Old |-> <<RoomIds[1], 0>>] /\ replaced = {}
    /\ inputs = 0

-----------------------------------------------------------------------------
(* What the threads call, each under the lock, which a page of history holds while it is   *)
(* asked for.                                                                              *)

Free == loop # "paging"

\* Seeded fault: the newest room is listed first.
AddRoomFirst(r) ==
    LET new == [id |-> r, named |-> FALSE]
    IN  roomList' = <<new>> \o SelectSeq(roomList, LAMBDA x : x.id # r)

\* addRoom: a room that is listed already loses the name it came with.
AddRoom(r) ==
    LET new == [id |-> r, named |-> FALSE]
        at == { i \in DOMAIN roomList : roomList[i].id = r }
    IN  roomList' = IF at = {} THEN Append(roomList, new)
                 ELSE [i \in DOMAIN roomList |-> IF i \in at THEN new ELSE roomList[i]]

KeyOf(r, thread) == <<r, thread>>
Held(key) == IF key \in DOMAIN messages THEN messages[key] ELSE <<>>
Put(key, rows) ==
    [k \in DOMAIN messages \cup {key} |-> IF k = key THEN rows ELSE messages[k]]

\* Seeded fault: the newest are dropped.
KeptNewest(all) == IF Len(all) > Cap THEN SubSeq(all, 1, Len(all) - Trim) ELSE all

\* A room keeps its last messages.
Kept(all) == IF Len(all) > Cap THEN SubSeq(all, Trim + 1, Len(all)) ELSE all

\* addMessage.  A trim moves the scroll of whatever room is on the screen.
AddMessage(r, thread, id, kind) ==
    LET n == Len(came) + 1
        key == KeyOf(r, thread)
        all == Append(Held(key), Entry(n, IF id = 0 THEN n ELSE id, kind))
    IN  /\ messages' = Put(key, Kept(all))
        /\ view' = IF Len(all) > Cap THEN [view EXCEPT !.msgScroll = AtLeast(0, @ - Trim)] ELSE view
        /\ unread' = IF r # view.active /\ kind # "notice" THEN [unread EXCEPT ![r] = @ + 1]
                     ELSE unread
        /\ redraw' = TRUE
        /\ came' = Append(came, key)

\* setReceipts marks a message that is loaded.
Read(r, id) ==
    LET key == KeyOf(r, 0)
        at == { i \in DOMAIN Held(key) : messages[key][i].id = id }
        first == CHOOSE i \in at : \A j \in at : i <= j
    IN  messages' = IF at = {} THEN messages ELSE [messages EXCEPT ![key][first].read = TRUE]

-----------------------------------------------------------------------------
(* The sync thread (tuiHandleEvent) and the detached threads. *)

EventKinds == {"text", "notice", "reply", "redaction", "receipt", "typing", "quiet"}

\* An event comes; its room is listed.
Event(kind, r, of) ==
    /\ Free /\ handling = Nothing /\ inputs < MaxInputs
    /\ AddRoom(r) /\ redraw' = TRUE
    /\ handling' = [kind |-> kind, room |-> r, of |-> of]
    /\ inputs' = inputs + 1
    /\ UNCHANGED <<loop, view, messages, unread, typing, screen, came, replaced>>

\* Edits, redactions and polls become messages of their own.  Any other event only
\* lists its room, as a receipt for a message that is not loaded does.
Handle ==
    /\ Free /\ handling # Nothing
    /\ handling' = Nothing /\ redraw' = TRUE
    /\ \/ /\ handling.kind \in {"text", "notice"}
          /\ AddMessage(handling.room, 0, 0, handling.kind)
          /\ UNCHANGED typing
       \/ /\ handling.kind = "reply"
          /\ AddMessage(handling.room, 1, 0, "text")
          /\ UNCHANGED typing
       \/ /\ handling.kind = "redaction"
          /\ AddMessage(handling.room, 0, handling.of, "redaction")
          /\ UNCHANGED typing
       \/ /\ handling.kind = "receipt"
          /\ Read(handling.room, handling.of)
          /\ UNCHANGED <<view, unread, typing, came>>
       \/ /\ handling.kind \in {"typing", "quiet"}
          /\ typing' = IF handling.kind = "typing" THEN typing \cup {handling.room}
                       ELSE typing \ {handling.room}
          /\ UNCHANGED <<view, messages, unread, came>>
    /\ UNCHANGED <<loop, roomList, screen, replaced, inputs>>

\* An agent, a verification or a link preview posts into the room it was started in.
Post(r, kind) ==
    /\ Free /\ inputs < MaxInputs
    /\ AddMessage(r, 0, 0, kind)
    /\ inputs' = inputs + 1
    /\ UNCHANGED <<loop, roomList, typing, screen, handling, replaced>>

-----------------------------------------------------------------------------
(* Drawing. *)

StatusNow == view.active \in typing

ListScroll == AtLeast(0, AtMost(view.roomScroll, Len(roomList) - RoomLines))
RoomsFrom(scroll) ==
    IF view.pane = "members" THEN <<>>
    ELSE [i \in 1..AtMost(RoomLines, Len(roomList) - scroll) |->
              LET room == roomList[scroll + i]
              IN  [room |-> room, unread |-> unread[room.id], active |-> room.id = view.active]]

\* The newest first; a scroll past the oldest goes back to the last page.
MessageScroll ==
    LET total == Len(Held(KeyOf(view.active, 0)))
    IN  IF KeyOf(view.active, 0) \notin DOMAIN messages THEN view.msgScroll
        ELSE AtLeast(0, IF view.msgScroll >= total THEN total - MessageLines ELSE view.msgScroll)
MessagesFrom(scroll) ==
    LET all == Held(KeyOf(view.active, 0))
        lines == AtMost(MessageLines, AtLeast(0, Len(all) - scroll))
    IN  [i \in 1..lines |-> all[Len(all) + 1 - scroll - i]]

BottomNow == [box |-> view.box, query |-> view.query, input |-> view.input,
              cursor |-> view.cursor, focus |-> view.focus]

Stay == UNCHANGED <<roomList, messages, unread, typing, handling, came, replaced, inputs>>

\* The top of the loop: Ctrl+C, the help, or a frame.
Interrupted ==
    /\ loop = "top" /\ loop' = "gone"
    /\ Stay /\ UNCHANGED <<view, redraw, screen>>

\* The help covers the screen until a key is pressed, and leaves it blank.
Help ==
    /\ loop = "top" /\ view.help
    /\ view' = [view EXCEPT !.help = FALSE]
    /\ redraw' = TRUE /\ screen' = Blank
    /\ Stay /\ UNCHANGED loop

Draw ==
    /\ loop = "top" /\ ~ view.help
    /\ loop' = IF redraw THEN "left" ELSE "key"
    /\ redraw' = FALSE
    /\ Stay /\ UNCHANGED <<view, screen>>

\* The status line and the left panel.
DrawLeft ==
    /\ loop = "left" /\ loop' = "right"
    /\ view' = IF view.pane = "rooms" THEN [view EXCEPT !.roomScroll = ListScroll] ELSE view
    /\ screen' = [screen EXCEPT !.typing = StatusNow, !.rooms = RoomsFrom(ListScroll)]
    /\ Stay /\ UNCHANGED redraw

\* Seeded fault: the scroll is drawn as it is.
DrawRightUnclamped ==
    /\ loop = "right" /\ loop' = "key"
    /\ screen' = [screen EXCEPT !.messages = MessagesFrom(view.msgScroll), !.bottom = BottomNow]
    /\ Stay /\ UNCHANGED <<view, redraw>>

\* Seeded fault: the flag is cleared once the frame is drawn.
DrawRightLate ==
    /\ loop = "right" /\ loop' = "key"
    /\ view' = [view EXCEPT !.msgScroll = MessageScroll]
    /\ screen' = [screen EXCEPT !.messages = MessagesFrom(MessageScroll), !.bottom = BottomNow]
    /\ redraw' = FALSE
    /\ Stay

\* The messages, and the line below them, which only this thread changes.
DrawRight ==
    /\ loop = "right" /\ loop' = "key"
    /\ view' = [view EXCEPT !.msgScroll = MessageScroll]
    /\ screen' = [screen EXCEPT !.messages = MessagesFrom(MessageScroll), !.bottom = BottomNow]
    /\ Stay /\ UNCHANGED redraw

-----------------------------------------------------------------------------
(* Keys. *)

\* A key was pressed; the loop starts again.
Pressed ==
    /\ loop = "key" /\ inputs < MaxInputs
    /\ inputs' = inputs + 1
    /\ UNCHANGED <<roomList, typing, screen, handling>>
Redrawn == loop' = "top" /\ redraw' = TRUE /\ UNCHANGED <<messages, came, replaced>>
Only == Redrawn /\ UNCHANGED unread

NoKey ==
    /\ loop = "key" /\ loop' = "top"
    /\ Stay /\ UNCHANGED <<view, redraw, screen>>

\* Seeded fault: what was unread stays counted.
OpenUnread(i) ==
    /\ i \in DOMAIN roomList
    /\ view' = [view EXCEPT !.active = roomList[i].id, !.msgScroll = 0]
    /\ Redrawn /\ UNCHANGED unread

\* A room is opened and counts as read.  _roomSwitchCb is not set.
Open(i) ==
    /\ i \in DOMAIN roomList
    /\ view' = [view EXCEPT !.active = roomList[i].id, !.msgScroll = 0]
    /\ unread' = [unread EXCEPT ![roomList[i].id] = 0]
    /\ Redrawn

\* A click in the list, also below its last line and on the list of members; the focus
\* stays.
Click(line) ==
    /\ Pressed /\ Open(view.roomScroll + line)

\* A click elsewhere: the composer has the focus, also while the search box is in its place.
ClickElsewhere ==
    /\ Pressed /\ view' = [view EXCEPT !.focus = "input"] /\ Only

\* Wheel up goes to newer messages, wheel down to older.
Wheel(down) ==
    /\ Pressed /\ (down \/ view.msgScroll > 0)
    /\ view' = [view EXCEPT !.msgScroll = IF down THEN @ + 1 ELSE @ - 1]
    /\ Only

InComposer == Pressed /\ view.focus = "input"

\* Enter: the composer is emptied.  A command goes to TuiAgents and others, a message to
\* TuiOutbox; the offline agent mode posts it.
Send ==
    /\ InComposer /\ view.input > 0 /\ loop' = "top" /\ UNCHANGED replaced
    /\ LET emptied == [view EXCEPT !.input = 0, !.cursor = 0]
           key == KeyOf(view.active, 0)
           n == Len(came) + 1
           all == Append(Held(key), Entry(n, n, "text"))
       IN  \/ view' = emptied /\ UNCHANGED <<messages, came>>
           \/ /\ messages' = Put(key, Kept(all)) /\ came' = Append(came, key)
              /\ view' = IF Len(all) > Cap THEN [emptied EXCEPT !.msgScroll = AtLeast(0, @ - Trim)]
                         ELSE emptied
    /\ redraw' = TRUE /\ UNCHANGED unread

\* Backspace.
Erase ==
    /\ InComposer /\ view.cursor > 0
    /\ view' = [view EXCEPT !.input = @ - 1, !.cursor = @ - 1]
    /\ Only

\* Del.
Delete ==
    /\ InComposer /\ view.cursor < view.input
    /\ view' = [view EXCEPT !.input = @ - 1]
    /\ Only

\* Seeded fault: End goes behind the last letter.
MoveBehind(to) ==
    /\ InComposer /\ to \in {0, view.cursor - 1, view.cursor + 1, view.input} \cap (0..view.input)
    /\ view' = [view EXCEPT !.cursor = IF to = view.input THEN to + 1 ELSE to]
    /\ Only

\* Left, Right, Home and End.
Move(to) ==
    /\ InComposer /\ to \in {0, view.cursor - 1, view.cursor + 1, view.input} \cap (0..view.input)
    /\ view' = [view EXCEPT !.cursor = to]
    /\ Only

\* A letter at the cursor; a q goes to the end, m and t are never typed.
Letter ==
    /\ InComposer
    /\ view' = [view EXCEPT !.input = @ + 1, !.cursor = @ + 1]
    /\ Only

\* Up: an older message; at the oldest the server is asked for more, under the lock.
Up ==
    /\ InComposer
    /\ view' = [view EXCEPT !.msgScroll = @ + 1]
    /\ LET key == KeyOf(view.active, 0)
       IN  loop' = IF key \in DOMAIN messages /\ view.msgScroll + 1 >= Len(messages[key])
                   THEN "paging" ELSE "top"
    /\ redraw' = (loop' = "top" \/ redraw)
    /\ UNCHANGED <<messages, unread, came, replaced>>

\* The answer or a failure: the events are dropped.
Paged ==
    /\ loop = "paging" /\ loop' = "top" /\ redraw' = TRUE
    /\ Stay /\ UNCHANGED <<view, screen>>

\* Down, and the pages: PgDn goes to older messages, PgUp to newer.
Scroll(by) ==
    /\ InComposer
    /\ view' = [view EXCEPT !.msgScroll = AtLeast(0, @ + by)]
    /\ Only

\* q with nothing typed, or in the list.
Quit ==
    /\ Pressed /\ ((view.focus = "input" /\ view.input = 0) \/ view.focus = "rooms")
    /\ loop' = "gone"
    /\ UNCHANGED <<view, redraw, messages, unread, came, replaced>>

\* Tab.
Focus ==
    /\ Pressed /\ view.focus # "search"
    /\ view' = [view EXCEPT !.focus = IF @ = "input" THEN "rooms" ELSE "input"]
    /\ Only

\* m, whatever is typed.
Pane ==
    /\ Pressed /\ view.focus # "search"
    /\ view' = [view EXCEPT !.pane = IF @ = "rooms" THEN "members" ELSE "rooms"]
    /\ Only

\* Up, Down, j and k in the list.
ScrollRooms(by) ==
    /\ Pressed /\ view.focus = "rooms" /\ view.roomScroll + by \in 0..(Len(roomList) - 1)
    /\ view' = [view EXCEPT !.roomScroll = @ + by]
    /\ Only

\* Enter or space in the list: the first line's room, whichever is highlighted.
Enter == Pressed /\ view.focus = "rooms" /\ Open(view.roomScroll + 1)

HelpKey ==
    /\ Pressed /\ view.focus = "rooms"
    /\ view' = [view EXCEPT !.help = TRUE]
    /\ Only

\* Ctrl+F opens the box; it closes one only after a click elsewhere.
SearchKey ==
    /\ InComposer
    /\ view' = IF view.box THEN [view EXCEPT !.box = FALSE]
               ELSE [view EXCEPT !.box = TRUE, !.focus = "search", !.query = 0]
    /\ Only

InSearch == Pressed /\ view.focus = "search"

Query(by) ==
    /\ InSearch /\ view.query + by >= 0
    /\ view' = [view EXCEPT !.query = @ + by]
    /\ Only

Escape ==
    /\ InSearch
    /\ view' = [view EXCEPT !.box = FALSE, !.focus = "input", !.query = 0]
    /\ Only

\* The box closes; an empty query changes the status line only.
Search ==
    /\ InSearch
    /\ view' = [view EXCEPT !.box = FALSE, !.focus = "input"]
    /\ loop' = IF view.query > 0 THEN "searching" ELSE "top"
    /\ redraw' = TRUE
    /\ UNCHANGED <<messages, unread, came, replaced>>

\* The database is read without the lock, then the room's messages are replaced by what was
\* found in it, the newest first, under a line that says how many.
Found ==
    /\ loop = "searching" /\ loop' = "top" /\ redraw' = TRUE
    /\ \E hits \in 0..Len(came) : \E newest \in [1..hits -> DOMAIN came] :
           LET rows == [i \in 1..hits |-> Entry(newest[i], newest[i], "text")]
               all == IF hits = 0 THEN <<>> ELSE <<Entry(0, 0, "notice")>> \o rows
           IN  /\ \A i \in 1..hits : came[newest[i]][1] = view.active
               /\ \A i, j \in 1..hits : i < j => newest[j] < newest[i]
               /\ messages' = Put(KeyOf(view.active, 0), all)
    /\ view' = [view EXCEPT !.msgScroll = 0]
    /\ replaced' = replaced \cup {view.active}
    /\ UNCHANGED <<roomList, unread, typing, screen, handling, came, inputs>>

-----------------------------------------------------------------------------
Listed == { roomList[i].id : i \in DOMAIN roomList }

Others ==
    \/ \E kind \in EventKinds, r \in RoomSet, of \in 1..AtLeast(1, Len(came)) :
           (kind \in {"redaction", "receipt"} \/ of = 1) /\ Event(kind, r, of)
    \/ Handle
    \/ \E r \in Listed, kind \in {"text", "notice"} : Post(r, kind)

Drawing == Interrupted \/ Help \/ Draw \/ DrawLeft \/ DrawRight

Keys ==
    \/ NoKey \/ ClickElsewhere \/ Send \/ Erase \/ Delete \/ Letter \/ Up \/ Paged \/ Quit \/ Focus
    \/ Pane \/ Enter \/ HelpKey \/ SearchKey \/ Escape \/ Search \/ Found
    \/ \E line \in 1..(RoomLines + 2) : Click(line)
    \/ \E down \in BOOLEAN : Wheel(down)
    \/ \E to \in 0..view.input : Move(to)
    \/ \E by \in {-1, Page, -Page} : Scroll(by)
    \/ \E by \in {1, -1} : ScrollRooms(by) \/ Query(by)

Next == Others \/ Drawing \/ Keys

-----------------------------------------------------------------------------
\* While a key is awaited, the terminal shows what the view holds, or another frame is
\* due: no change of another thread falls between the clearing of the flag and the reading.
ScreenFollows ==
    loop = "key" /\ ~ redraw =>
        screen = [typing |-> StatusNow, rooms |-> RoomsFrom(view.roomScroll),
                  messages |-> MessagesFrom(view.msgScroll), bottom |-> BottomNow]

\* However far it is scrolled, a room with messages is not drawn empty.
NeverEmpty == loop = "key" /\ Held(KeyOf(view.active, 0)) # <<>> => screen.messages # <<>> \/ redraw

\* What came for a room is kept in the order it came, behind the history: of what is not
\* held any more all that came later is, and a full room of it; searches replace it.
KeptInOrder ==
    \A key \in DOMAIN messages :
        LET rows == messages[key]
        IN  key[1] \notin replaced \/ key[2] # 0 =>
            /\ \A i, j \in DOMAIN rows : i < j /\ rows[i].n > Old => rows[i].n < rows[j].n
            /\ \A i \in DOMAIN rows : rows[i].n > Old => came[rows[i].n] = key
            /\ \A n \in DOMAIN came :
                  n > Old /\ came[n] = key =>
                      \/ \E i \in DOMAIN rows : rows[i].n = n
                      \/ Len(rows) >= Cap + 1 - Trim /\ \A i \in DOMAIN rows : rows[i].n > n

\* Nothing of the open room is unread.
UnreadElsewhere == unread[view.active] = 0

\* The cursor is in the text: a key never erases what is not there.
CursorInside == view.cursor \in 0..view.input

\* A click opens the room drawn in the line that is clicked.
ClickOpensLine ==
    \A line \in 1..RoomLines :
        Click(line) /\ line \in DOMAIN screen.rooms => view'.active = screen.rooms[line].room.id
=============================================================================
