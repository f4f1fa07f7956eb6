------------------------------- MODULE UiFrame -------------------------------
(***************************************************************************)
(* One frame of the ASCII interface: which rows the three panels have and   *)
(* which of them the window shows, as the commands scroll it, open rooms,   *)
(* filter the list and jump to events (src/ascii_ui.cpp drawFrameImpl,      *)
(* ascii_ui_draw.cpp, ascii_ui_draw_center.cpp).  A row is what it is about *)
(* ("day", "row" ...) with the number of the event or thread; its text is   *)
(* left out, but for how many rows it wraps to.                             *)
(***************************************************************************)
EXTENDS Integers, Sequences, FiniteSets, SequencesExt

CONSTANTS
    Rooms,       \* the rooms that are no spaces
    Spaces,      \* the spaces, in the order of the room list
    SpaceOf(_),  \* the space in a room's row: one of Spaces or another text
    Timelines,   \* bound: the messages a room is opened with
    Corners,     \* bound: the notifications remembered
    Heights,     \* bound: rows of the window
    Counts,      \* bound: numbers of members and of threads
    Lead,        \* rows left above an event that is jumped to (12 in the code)
    MaxScroll,   \* bound on the offset a user reaches row by row
    MaxCommands  \* bound on the commands typed

VARIABLES
    st,     \* the state a frame is drawn from (UiState)
    rows,   \* rows of the body: terminal height - 5, or the setting `rows`
    typed   \* commands typed so far

vars == <<st, rows, typed>>

FrameAssumption ==
    /\ Lead \in Nat /\ MaxScroll \in Nat \ {0}
    /\ Heights \subseteq Nat \ {0} /\ Counts \subseteq Nat
    /\ \A r \in Rooms : r \notin Range(Spaces)

\* 1 << 30, the offset of `newest`.
Far == 1000000

AtLeast(a, b) == IF a >= b THEN a ELSE b
AtMost(a, b)  == IF a <= b THEN a ELSE b
Row(what, n)  == <<[what |-> what, n |-> n]>>
Block(what, n) == [k \in 1..n |-> [what |-> what, n |-> k]]
OneIf(condition, what, n) == IF condition THEN Row(what, n) ELSE <<>>

-----------------------------------------------------------------------------
(* The centre panel.  An event has its day, its kind, the line breaks of its *)
(* text, the quotes above it (a chain of at most three) and the rows its     *)
(* text wraps to.                                                            *)

\* Events that leave no row: state events, reactions, receipts; member events with the
\* joins off.
Hidden(u, e) == e.kind = "state" \/ (e.kind = "member" /\ ~ u.joins)

NewDay(msgs, i) == i = 1 \/ msgs[i].day # msgs[i - 1].day

\* One dim row with the members and one with the threads, when the right panel is closed
\* for few members; then the pins and the successor.
Banners(u) ==
    OneIf(u.horiz /\ u.members > 0, "members", 0)
    \o OneIf(u.horiz /\ u.members > 0 /\ u.bottom /\ u.threads > 0, "threads", 0)
    \o OneIf(~ u.mobile /\ u.pins, "pins", 0)
    \o OneIf(~ u.mobile /\ \E i \in DOMAIN u.msgs : u.msgs[i].kind = "tombstone",
             "successor", 0)

\* The text of an event, wrapped; a tombstone is one row.
RenderRow(e, i) ==
    IF e.kind = "tombstone" THEN Row("row", i) ELSE [k \in 1..e.rows |-> [what |-> "row", n |-> i]]

\* An event's rows: the day before it when it is the first of that day, the bar of the
\* event jumped to, the divider of the last one read, the event itself.
EventRows(u, i) ==
    OneIf(NewDay(u.msgs, i) /\ u.dateSep, "day", u.msgs[i].day)
    \o OneIf(u.focus = i, "focus", i)
    \o OneIf(u.marker = i, "read", i)
    \o (IF Hidden(u, u.msgs[i]) THEN <<>> ELSE RenderRow(u.msgs[i], i))

CenterRows(u) == Banners(u) \o FlattenSeq([i \in DOMAIN u.msgs |-> EventRows(u, i)])

\* Seeded fault: the separators of the days are not counted.
RowIndexOfNoDays(u, id) ==
    LET before[i \in 0..Len(u.msgs)] ==
            IF i = 0 THEN 0
            ELSE before[i - 1] + 1 + u.msgs[i].breaks + u.msgs[i].quotes
    IN  before[id - 1]

\* centerRowIndexOfImpl: the rows before an event, as goto counts them.
RowIndexOf(u, id) ==
    LET day(i) == IF NewDay(u.msgs, i) THEN 1 ELSE 0
        before[i \in 0..Len(u.msgs)] ==
            IF i = 0 THEN 0
            ELSE before[i - 1] + day(i) + 1 + u.msgs[i].breaks + u.msgs[i].quotes
    IN  before[id - 1] + day(id)

-----------------------------------------------------------------------------
(* The right panel. *)

\* Seeded fault: the members keep their rows.
MembersAndThreadsUncapped(u, h) ==
    LET want == AtMost(u.threads, AtLeast(1, h \div 5))
        window == AtLeast(want, h - u.members - 1)
        first == AtMost(AtLeast(0, u.threadsScroll), AtLeast(0, u.threads - window))
    IN  Block("member", u.members)
        \o Row("separator", 0)
        \o [k \in 1..AtMost(window, u.threads - first) |->
              [what |-> "thread", n |-> first + k]]

\* The members, then a window with the room's threads at the bottom.
MembersAndThreads(u, h) ==
    IF ~ u.bottom \/ u.threads = 0 THEN Block("member", u.members)
    ELSE LET want == AtMost(u.threads, AtLeast(1, h \div 5))
             cap == AtLeast(0, h - want - 1)
             window == AtLeast(1, h - u.members - 1)
             first == AtMost(AtLeast(0, u.threadsScroll), AtLeast(0, u.threads - window))
         IN  Block("member", AtMost(u.members, cap))
             \o Row("separator", 0)
             \o [k \in 1..AtMost(window, u.threads - first) |->
                   [what |-> "thread", n |-> first + k]]

\* The thread roots of a room, numbered.
ThreadList(u) == IF u.threads = 0 THEN Row("none", 0) ELSE Block("thread", u.threads)

\* One thread: its rows, and below them, if there is space, some of the other threads and
\* some of the members.
OneThread(u, h) ==
    LET self == IF u.thread = 0 THEN Row("none", 0) ELSE Block("reply", u.thread)
        others == AtLeast(0, u.threads - 1)
        free == h - Len(self)
        some == IF free > 3 /\ others > 0
                THEN Row("separator", 0) \o Block("thread", AtMost(others, AtLeast(1, free \div 3)))
                ELSE <<>>
        left == free - Len(some)
        people == IF left > 2 /\ u.members > 0
                  THEN Row("separator", 0) \o Block("member", AtMost(u.members, left - 1))
                  ELSE <<>>
    IN  IF Len(self) < h THEN self \o some \o people ELSE self

\* Threads of all rooms, at most three of each: here the rooms have as many as this one.
AllThreads(u) ==
    IF u.threads = 0 THEN Row("none", 0)
    ELSE Block("thread", Cardinality(Rooms) * AtMost(u.threads, 3))

\* The agent's model, goal and the rows of its last 24 messages.
AgentRows(u) == Row("model", 0) \o OneIf(u.thread > 0, "goal", 0) \o Block("reply", u.thread)

\* Seeded fault: an entry that does not fit is written all the same.
CornerOverfull(notes, free) ==
    Row("corner", 0) \o FlattenSeq([i \in DOMAIN notes |->
        Block("note", 1 + notes[i].wraps + (IF notes[i].preview THEN 1 ELSE 0))])

\* The recent notifications in what is left of the right panel, if that is two rows.  An
\* entry takes a row, or one more for each row its head wraps to, and one for its preview
\* while there is plenty of space; the first that does not fit ends the list.
Corner(notes, free) ==
    LET step[i \in 0..Len(notes)] ==
          IF i = 0 THEN [shown |-> 0, squeezed |-> FALSE, over |-> FALSE]
          ELSE LET was == step[i - 1]
                   n == notes[i]
                   two == ~ was.squeezed /\ n.preview /\ was.shown + 2 < free /\ was.shown < 8
                   need == 1 + n.wraps + (IF two THEN 1 ELSE 0)
               IN  IF was.over \/ was.shown >= free - 1 \/ was.shown + need > free - 1
                   THEN [was EXCEPT !.over = TRUE]
                   ELSE [was EXCEPT !.shown = @ + need,
                                    !.squeezed = @ \/ (n.preview /\ ~ two)]
    IN  IF free < 2 THEN <<>>
        ELSE Row("corner", 0) \o (IF notes = <<>> THEN Row("no note", 0)
                                  ELSE Block("note", step[Len(notes)].shown))

RightRows(u, h) ==
    LET panel == CASE u.panel = 0 -> MembersAndThreads(u, h)
                   [] u.panel = 1 -> ThreadList(u)
                   [] u.panel = 2 -> OneThread(u, h)
                   [] u.panel = 3 -> AllThreads(u)
                   [] u.panel = 4 -> AgentRows(u)
    IN  IF u.mobile \/ ~ u.showNotes THEN panel ELSE panel \o Corner(u.notes, h - Len(panel))

-----------------------------------------------------------------------------
(* The left panel. *)

\* The rooms of the frame: not a space, not hidden, in the chosen space, matching the
\* filter.
Visible(u) ==
    { r \in Rooms : /\ r \notin u.hidden
                    /\ u.space # "all" => SpaceOf(r) = u.space
                    /\ u.filtered => r \in u.filter }

\* The rows of some rooms, in any fixed order.
RoomRows(set) == [i \in 1..Cardinality(set) |-> [what |-> "room", n |-> SetToSeq(set)[i]]]

\* Seeded fault: a room whose space is not in the list is left out.
LeftRowsListedOnly(u) ==
    LET rest == Visible(u) \ u.invited
        in(s) == { r \in rest : SpaceOf(r) = s }
    IN  FlattenSeq([i \in DOMAIN Spaces |->
              IF in(Spaces[i]) = {} THEN <<>> ELSE Row("space", Spaces[i]) \o RoomRows(in(Spaces[i]))])

\* The invited rooms, then each space that has rooms, then the rooms of no listed space.
LeftRows(u) ==
    LET invites == Visible(u) \cap u.invited
        rest == Visible(u) \ u.invited
        in(s) == { r \in rest : SpaceOf(r) = s }
        none == { r \in rest : SpaceOf(r) \notin Range(Spaces) }
        sections == FlattenSeq([i \in DOMAIN Spaces |->
            IF in(Spaces[i]) = {} THEN <<>>
            ELSE Row("space", Spaces[i]) \o RoomRows(in(Spaces[i]))])
    IN  (IF invites = {} THEN <<>> ELSE Row("invites", 0) \o RoomRows(invites))
        \o sections
        \o OneIf(sections # <<>> /\ none # {}, "no space", 0)
        \o RoomRows(none)

\* The rooms of the phone: each with a row for its last message (all have one here).
PhoneRooms(u) ==
    LET invites == Visible(u) \cap u.invited
        listed(set) == FlattenSeq([i \in 1..Cardinality(set) |->
                          Row("room", SetToSeq(set)[i]) \o Row("last", SetToSeq(set)[i])])
    IN  (IF invites = {} THEN <<>>
         ELSE Row("invites", 0) \o listed(invites) \o Row("rooms", 0))
        \o listed(Visible(u) \ u.invited)

-----------------------------------------------------------------------------
(* The window. *)

\* contentRowsImpl.
ContentRows(u) ==
    AtLeast(Cardinality(Rooms) + Len(Spaces), AtLeast(Len(u.msgs), u.members))

\* The bottom row has the offset -1 of its panel.
Clamped(offset, length, h) ==
    LET max == AtLeast(0, length - h)
    IN  IF offset < 0 THEN AtLeast(0, max + offset + 1) ELSE AtMost(offset, max)

\* Seeded fault: only the counts of rooms, messages and members bound the window.
DesktopTopByCounts(u, h) == Clamped(u.scroll, ContentRows(u), h)

\* The first row of the chat: the window runs over the longest of the panels.
DesktopTop(u, h) ==
    LET length == IF u.filtered THEN Cardinality(Visible(u)) ELSE ContentRows(u)
    IN  Clamped(u.scroll,
                AtLeast(length, AtLeast(Len(CenterRows(u)), Len(RightRows(u, h)))), h)

\* The one pane of the phone, and its first row, which has no lower bound.
PhoneStream(u, h) ==
    CASE u.tab = 0 -> PhoneRooms(u)
      [] u.tab = 1 -> OneIf(u.dateSep, "title", 0) \o CenterRows(u)
      [] u.tab = 2 -> RightRows(u, h)
PhoneTop(u, h) == AtMost(u.scroll, AtLeast(0, Len(PhoneStream(u, h)) - h))

Window(seq, top, h) == SubSeq(seq, top + 1, AtMost(top + h, Len(seq)))

\* What the frame shows of each panel.  `only` draws one of them, with its own offset.
Frame(u, h) ==
    IF u.mobile
    THEN [left |-> <<>>, right |-> <<>>, center |-> Window(PhoneStream(u, h), PhoneTop(u, h), h)]
    ELSE LET left == LeftRows(u)
             right == RightRows(u, h)
             all == [left |-> Window(left, Clamped(u.leftScroll, Len(left), h), h),
                     center |-> Window(CenterRows(u), DesktopTop(u, h), h),
                     right |-> Window(right, Clamped(u.rightScroll, Len(right), h), h)]
         IN  CASE u.only = 0 -> all
               [] u.only = 1 -> [all EXCEPT !.center = <<>>, !.right = <<>>]
               [] u.only = 2 -> [all EXCEPT !.left = <<>>, !.right = <<>>]
               [] u.only = 3 -> [all EXCEPT !.left = <<>>, !.center = <<>>]
-----------------------------------------------------------------------------
(* Commands.  Each ends with a frame drawn from the new state.             *)

Init ==
    /\ rows \in Heights /\ typed = 0
    /\ \E t \in Timelines, m, c \in Counts, i \in SUBSET Rooms, h \in BOOLEAN :
        st = [msgs |-> t, marker |-> 0, focus |-> 0, pins |-> FALSE, dateSep |-> TRUE,
              joins |-> TRUE, horiz |-> h, members |-> m, threads |-> c, bottom |-> TRUE,
              thread |-> 0, panel |-> 0, only |-> 0, mobile |-> FALSE, tab |-> 0,
              scroll |-> 0, leftScroll |-> 0, rightScroll |-> 0, threadsScroll |-> 0,
              notes |-> <<>>, showNotes |-> TRUE, invited |-> i, hidden |-> {},
              space |-> "all", filtered |-> FALSE, filter |-> {}]

Near(n) == -MaxScroll <= n /\ n <= MaxScroll

\* up, down and scroll <n>, from wherever the offset stands, which no frame corrects.
ScrollBy(n) ==
    /\ Near(st.scroll + n) \/ Near(st.scroll + n - Far)
    /\ st' = [st EXCEPT !.scroll = @ + n]
    /\ UNCHANGED rows

\* top, bottom and newest.
ScrollTo ==
    /\ \/ st' = [st EXCEPT !.scroll = 0]
       \/ st' = [st EXCEPT !.scroll = ContentRows(st)]
       \/ st' = [st EXCEPT !.scroll = Far, !.focus = 0, !.tab = IF st.mobile THEN 1 ELSE @]
    /\ UNCHANGED rows

\* --scroll-left, --scroll-right and --scroll-threads, of a single frame.
ScrollPanel(l, r, t) ==
    /\ st' = [st EXCEPT !.leftScroll = l, !.rightScroll = r, !.threadsScroll = t]
    /\ UNCHANGED rows

\* Seeded fault: the event jumped to is kept.
OpenKeepsFocus ==
    /\ \E t \in Timelines, m, c \in Counts, p \in BOOLEAN :
        \E mark \in {0, Len(t)} :
            st' = [st EXCEPT !.msgs = t, !.marker = mark, !.pins = p, !.members = m,
                             !.threads = c, !.scroll = 0,
                             !.tab = IF st.mobile THEN 1 ELSE @]
    /\ UNCHANGED rows

\* A room is read into the state: its messages, the last read one, its pins, members and
\* threads; the offset is 0.
Open ==
    /\ \E t \in Timelines, m, c \in Counts, p \in BOOLEAN :
        \E mark \in {0, Len(t)} :
            st' = [st EXCEPT !.msgs = t, !.marker = mark, !.pins = p, !.members = m,
                             !.threads = c, !.focus = 0, !.scroll = 0,
                             !.tab = IF st.mobile THEN 1 ELSE @]
    /\ UNCHANGED rows

\* goto <event>, with the event in the window.
Goto(id) ==
    /\ id \in DOMAIN st.msgs
    /\ st' = [st EXCEPT !.focus = id, !.scroll = AtLeast(0, RowIndexOf(st, id) - Lead),
                        !.tab = IF st.mobile THEN 1 ELSE @]
    /\ UNCHANGED rows

\* Which panel is on the right, with how many rows of its thread.
RightPanel(p, n) ==
    /\ st' = [st EXCEPT !.panel = p, !.thread = n]
    /\ UNCHANGED rows

\* only, joins, threads bottom, notifications and the date separators.
Look ==
    /\ \/ \E k \in 0..3 : st' = [st EXCEPT !.only = k]
       \/ st' = [st EXCEPT !.joins = ~ @]
       \/ st' = [st EXCEPT !.bottom = ~ @]
       \/ st' = [st EXCEPT !.showNotes = ~ @]
       \/ st' = [st EXCEPT !.dateSep = ~ @]
    /\ UNCHANGED rows

\* filter <text>: the rooms whose name contains it; filter alone shows all.
Filter ==
    /\ \/ \E f \in SUBSET Rooms : st' = [st EXCEPT !.filtered = TRUE, !.filter = f, !.scroll = 0]
       \/ st' = [st EXCEPT !.filtered = FALSE, !.filter = {}, !.scroll = 0]
    /\ UNCHANGED rows

\* space <name>: two branches of the dispatcher answer, the one chooses the space, the
\* other looks for its name among the rooms; "all" takes both back.
Space ==
    /\ \/ \E s \in Range(Spaces), f \in SUBSET Rooms :
            st' = [st EXCEPT !.space = s, !.filtered = TRUE, !.filter = f,
                             !.scroll = 0]
       \/ st' = [st EXCEPT !.space = "all", !.filtered = FALSE, !.filter = {}, !.scroll = 0]
    /\ UNCHANGED rows

\* hide <room> [<seconds>], and the end of that time.
Hide(r) ==
    /\ \/ st' = [st EXCEPT !.hidden = @ \cup {r}]
       \/ st' = [st EXCEPT !.hidden = @ \ {r}]
    /\ UNCHANGED rows

\* mobile on|off, and the tabs of the phone.
Mobile ==
    /\ \/ \E on \in BOOLEAN : st' = [st EXCEPT !.mobile = on, !.scroll = 0]
       \/ st.mobile /\ \E t \in 0..2 : st' = [st EXCEPT !.tab = t, !.scroll = 0]
    /\ UNCHANGED rows

\* rows <n>.
RowsCmd ==
    /\ rows' \in Heights
    /\ st' = [st EXCEPT !.scroll = 0]

\* The terminal is resized, or the notifications change, between two commands.
Resize  == rows' \in Heights /\ UNCHANGED st
Notify  == /\ \E n \in Corners : st' = [st EXCEPT !.notes = n]
           /\ UNCHANGED rows

Command ==
    \/ \E n \in {-5, -1, 1, 5} : ScrollBy(n)
    \/ ScrollTo
    \/ \E l, r \in {0, -1, 2}, t \in {0, 1} : ScrollPanel(l, r, t)
    \/ Open \/ Look \/ Filter \/ Space \/ Mobile \/ RowsCmd \/ Resize \/ Notify
    \/ \E id \in DOMAIN st.msgs : Goto(id)
    \/ \E p \in 0..4, n \in Counts : RightPanel(p, n)
    \/ \E r \in Rooms : Hide(r)

Next == typed < MaxCommands /\ typed' = typed + 1 /\ Command

Spec == Init /\ [][Next]_vars

-----------------------------------------------------------------------------
(* Properties. *)

Now == Frame(st, rows)

\* The shape of the state.
TypeOK ==
    /\ rows \in Heights
    /\ st.msgs \in Timelines /\ st.focus \in 0..Len(st.msgs) /\ st.marker \in 0..Len(st.msgs)
    /\ Near(st.scroll) \/ Near(st.scroll - Far) \/ st.scroll \in 0..(MaxScroll + 5)
    /\ st.panel \in 0..4 /\ st.only \in 0..3 /\ st.tab \in 0..2
    /\ st.hidden \subseteq Rooms /\ st.invited \subseteq Rooms

\* Three columns: whatever was scrolled, resized or switched since, the window starts in
\* the content, and when the chat is longer than the window and no other panel is longer
\* than the chat, every row of the window shows a row of the chat, after `newest` the
\* last ones.
ChatFillsWindow ==
    ~ st.mobile =>
        LET top == DesktopTop(st, rows)
            n == Len(CenterRows(st))
        IN  /\ top >= 0
            /\ (n >= rows /\ n >= ContentRows(st) /\ n >= Len(RightRows(st, rows)))
                   => /\ top + rows <= n
                      /\ st.scroll = Far => top + rows = n

\* The member list with the threads under it fits the window as soon as that has two rows,
\* unless the members alone are too many; with threads, at least one of them is shown.
RightPanelFits ==
    (st.panel = 0 /\ rows >= 2) =>
        LET right == MembersAndThreads(st, rows)
            threads == { i \in DOMAIN right : right[i].what = "thread" }
        IN  /\ (st.members <= rows \/ (st.bottom /\ st.threads > 0)) => Len(right) <= rows
            /\ (st.bottom /\ st.threads > 0) => threads # {}

\* A panel that fits the window still fits with the notifications in its corner.
CornerFits ==
    LET bare == RightRows([st EXCEPT !.showNotes = FALSE], rows)
    IN  Len(bare) <= rows => Len(RightRows(st, rows)) <= rows

\* Every room that is not hidden or filtered away has one row in the list, an invitation
\* under the header of the invitations, another room under its space's, and a header is
\* only there with rooms below it.
EveryRoomOnce ==
    LET left == LeftRows(st)
        roomAt == { i \in DOMAIN left : left[i].what = "room" }
        head(i) == CHOOSE j \in 0..i : /\ j = 0 \/ left[j].what # "room"
                                       /\ \A k \in (j + 1)..i : left[k].what = "room"
    IN  /\ { left[i].n : i \in roomAt } = Visible(st)
        /\ Cardinality(roomAt) = Cardinality(Visible(st))
        /\ \A i \in roomAt :
              LET h == IF head(i) = 0 THEN [what |-> "no space", n |-> 0] ELSE left[head(i)]
              IN  CASE h.what = "invites" -> left[i].n \in st.invited
                                              \/ SpaceOf(left[i].n) \notin Range(Spaces)
                    [] h.what = "space" -> SpaceOf(left[i].n) = h.n
                    [] h.what = "no space" -> SpaceOf(left[i].n) \notin Range(Spaces)
        /\ \A i \in DOMAIN left : left[i].what # "room" =>
              i < Len(left) /\ left[i + 1].what = "room"

\* The timeline is one a row is counted for as goto counts it: nothing above it, nothing
\* hidden, and each event as many rows as line breaks and quotes.
Plain ==
    /\ Banners(st) = <<>> /\ st.dateSep /\ st.marker = 0
    /\ \A i \in DOMAIN st.msgs :
          LET e == st.msgs[i]
          IN  ~ Hidden(st, e) /\ e.kind # "tombstone" /\ e.rows = 1 + e.breaks + e.quotes

\* On a plain timeline a jump shows the event it jumps to, in every window with more rows
\* than the lead.
JumpShows ==
    \A id \in DOMAIN st.msgs :
          (Goto(id) /\ Plain /\ ~ st.mobile /\ st.only \in {0, 2} /\ rows > Lead + 1) =>
              \E i \in DOMAIN Frame(st', rows).center :
                  Frame(st', rows).center[i] = [what |-> "row", n |-> id]

\* The same of every step.
JumpShowsEvent == [][JumpShows]_vars

=============================================================================
