--------------------------------- MODULE MCUi ---------------------------------
(*****************************************************************************)
(* Parts of the interfaces checked side by side: of the ASCII interface its  *)
(* settings, the room it shows, the widths of its columns, the rows of its   *)
(* frame and the rows of a text; and the chat and the agents of the terminal *)
(* interface. The parts share no state: a behaviour moves one of them,       *)
(* chosen at the start; the others stand still at 0.                         *)
(*****************************************************************************)
EXTENDS Integers, Sequences, FiniteSets

CONSTANTS
    Procs, Names, FlagsTried,                                       \* UiSettings
    ByName, Raw, None, Limit, Wide, Scan, Caches, MaxEvents,        \* UiRooms
    Widths, PanelWidths, RuleValues, RowWidths,                     \* PanelLayout
    Rooms, Spaces, SpaceOf(_), Timelines, Corners, Heights, Counts, Lead, MaxScroll,
                                                                    \* UiFrame
    First, Width, MaxRead,                                          \* WrapText
    MaxRuns, MaxIterations, MaxKeys,                                \* TuiAgents
    RoomIds, Old, Starts, Cap, Trim, RoomLines, MessageLines, Page, MaxInputs,  \* ChatView
    MaxCommands,                                                    \* of all commands
    a, b, r1, sp

VARIABLES
    part,    \* the part that moves
    db,  \* of settings, room
    commands,  \* of settings, room
    lists, fld, mine, up, chosen, listed, crowded,  \* UiSettings
    ui, own, byJump, unsorted,  \* UiRooms
    W, s,  \* PanelLayout
    st, rows, typed,  \* UiFrame
    lines, cur, word, read, length, split,  \* WrapText
    runs, busy, esc, quit, chat, sent, session, keys, refused,  \* TuiAgents
    loop, view, roomList, messages, unread, typing, redraw, screen,
    handling, came, replaced, inputs  \* ChatView

Settings == INSTANCE UiSettings
Room     == INSTANCE UiRooms
Layout   == INSTANCE PanelLayout
Frame    == INSTANCE UiFrame
Wrap     == INSTANCE WrapText
Agents   == INSTANCE TuiAgents
Chat     == INSTANCE ChatView

ASSUME UiAssumption ==
    /\ Settings!SettingsAssumption
    /\ Room!RoomsAssumption
    /\ Layout!LayoutAssumption
    /\ Frame!FrameAssumption
    /\ Wrap!WrapAssumption
    /\ Agents!TuiAgentsAssumption
    /\ Chat!ChatAssumption

-----------------------------------------------------------------------------
(* Values of the constants. *)

\* The two interfaces of UiSettings are alike.
Other(x) == CHOOSE y \in Procs : y # x
Symmetry == {[x \in Procs |-> IF change THEN Other(x) ELSE x] : change \in BOOLEAN}

Two == <<a, b>>
ChatRooms == <<"room", "other">>
ChatStarts == { <<1, TRUE>> }

Stored(id, room, kind, ref) ==
    [id |-> id, room |-> room, kind |-> kind, by |-> "them", ref |-> ref]

\* A thread in each room, a thread beside a room with nothing in it, pins, a power level
\* and a tombstone.
Start ==
    { <<Stored(1, a, "text", None), Stored(2, b, "text", None), Stored(3, a, "thread", 1),
        Stored(4, b, "thread", 2)>>,
      <<Stored(1, b, "text", None), Stored(2, b, "thread", 1), Stored(3, b, "text", None)>>,
      <<Stored(1, b, "text", None), Stored(2, a, "text", None), Stored(3, a, "pins", {2})>>,
      <<Stored(1, a, "power", None), Stored(2, a, "tombstone", b),
        Stored(3, b, "text", None)>> }

PanelSizes == {-1, 40}

MCSpaceOf(r) == IF r = r1 THEN sp ELSE "other"
MCSpaces == <<sp>>

Drawn(day, kind, breaks, quotes, n) ==
    [day |-> day, kind |-> kind, breaks |-> breaks, quotes |-> quotes, rows |-> n]

MCTimelines ==
    { <<Drawn(1, "text", 0, 0, 1), Drawn(1, "text", 1, 0, 2), Drawn(2, "text", 0, 1, 2)>>,
      <<Drawn(1, "text", 0, 0, 3), Drawn(1, "state", 0, 0, 1), Drawn(2, "member", 0, 0, 1),
        Drawn(2, "tombstone", 0, 0, 1)>> }

Note(wraps, preview) == [wraps |-> wraps, preview |-> preview]

MCCorners ==
    { <<>>, <<Note(0, TRUE), Note(1, TRUE)>>,
      <<Note(2, TRUE), Note(0, FALSE), Note(0, TRUE)>> }

-----------------------------------------------------------------------------
settingsVars == <<lists, fld, mine, up, chosen, listed, crowded>>
roomVars == <<ui, own, byJump, unsorted>>
layoutVars == <<W, s>>
frameVars == <<st, rows, typed>>
wrapVars == <<lines, cur, word, read, length, split>>
agentsVars == <<runs, busy, esc, quit, chat, sent, session, keys, refused>>
chatVars == <<loop, view, roomList, messages, unread, typing, redraw, screen, handling, came,
             replaced, inputs>>
vars == <<part, db, commands, settingsVars, roomVars, layoutVars, frameVars, wrapVars, agentsVars, chatVars>>

\* The parts that stand still.
NoSettings == lists = 0 /\ fld = 0 /\ mine = 0 /\ up = 0 /\ chosen = 0 /\ listed = 0 /\ crowded = 0
NoRoom == ui = 0 /\ own = 0 /\ byJump = 0 /\ unsorted = 0
NoLayout == W = 0 /\ s = 0
NoFrame == st = 0 /\ rows = 0 /\ typed = 0
NoWrap == lines = 0 /\ cur = 0 /\ word = 0 /\ read = 0 /\ length = 0 /\ split = 0
NoAgents == runs = 0 /\ busy = 0 /\ esc = 0 /\ quit = 0 /\ chat = 0 /\ sent = 0 /\ session = 0 /\ keys = 0
            /\ refused = 0
NoChat == loop = 0 /\ view = 0 /\ roomList = 0 /\ messages = 0 /\ unread = 0 /\ typing = 0
          /\ redraw = 0 /\ screen = 0 /\ handling = 0 /\ came = 0 /\ replaced = 0 /\ inputs = 0

Init ==
    \/ /\ part = "settings" /\ Settings!Init
       /\ NoRoom /\ NoLayout /\ NoFrame /\ NoWrap /\ NoAgents /\ NoChat
    \/ /\ part = "room" /\ Room!Init
       /\ NoSettings /\ NoLayout /\ NoFrame /\ NoWrap /\ NoAgents /\ NoChat
    \/ /\ part = "layout" /\ Layout!Init
       /\ db = 0 /\ commands = 0 /\ NoSettings /\ NoRoom /\ NoFrame /\ NoWrap /\ NoAgents /\
          NoChat
    \/ /\ part = "frame" /\ Frame!Init
       /\ db = 0 /\ commands = 0 /\ NoSettings /\ NoRoom /\ NoLayout /\ NoWrap /\ NoAgents /\
          NoChat
    \/ /\ part = "wrap" /\ Wrap!Init
       /\ db = 0 /\ commands = 0 /\ NoSettings /\ NoRoom /\ NoLayout /\ NoFrame /\ NoAgents /\
          NoChat
    \/ /\ part = "agents" /\ Agents!Init
       /\ db = 0 /\ commands = 0 /\ NoSettings /\ NoRoom /\ NoLayout /\ NoFrame /\ NoWrap /\
          NoChat
    \/ /\ part = "chat" /\ Chat!Init
       /\ db = 0 /\ commands = 0 /\ NoSettings /\ NoRoom /\ NoLayout /\ NoFrame /\ NoWrap /\
          NoAgents

Next ==
    /\ UNCHANGED part
    /\ \/ /\ part = "settings" /\ Settings!Next
          /\ UNCHANGED <<roomVars, layoutVars, frameVars, wrapVars, agentsVars, chatVars>>
       \/ /\ part = "room" /\ Room!Next
          /\ UNCHANGED <<settingsVars, layoutVars, frameVars, wrapVars, agentsVars, chatVars>>
       \/ /\ part = "layout" /\ Layout!Next
          /\ UNCHANGED <<db, commands, settingsVars, roomVars, frameVars, wrapVars, agentsVars,
                     chatVars>>
       \/ /\ part = "frame" /\ Frame!Next
          /\ UNCHANGED <<db, commands, settingsVars, roomVars, layoutVars, wrapVars, agentsVars,
                     chatVars>>
       \/ /\ part = "wrap" /\ Wrap!Next
          /\ UNCHANGED <<db, commands, settingsVars, roomVars, layoutVars, frameVars,
                     agentsVars, chatVars>>
       \/ /\ part = "agents" /\ Agents!Next
          /\ UNCHANGED <<db, commands, settingsVars, roomVars, layoutVars, frameVars, wrapVars,
                     chatVars>>
       \/ /\ part = "chat" /\ Chat!Next
          /\ UNCHANGED <<db, commands, settingsVars, roomVars, layoutVars, frameVars, wrapVars,
                     agentsVars>>

Spec == Init /\ [][Next]_vars

-----------------------------------------------------------------------------
\* Each part that moves keeps its shape.
TypeOK ==
    /\ part = "settings" => Settings!TypeOK
    /\ part = "room" => Room!TypeOK
    /\ part = "layout" => Layout!TypeOK
    /\ part = "frame" => Frame!TypeOK
    /\ part = "wrap" => Wrap!TypeOK
    /\ part = "agents" => Agents!TypeOK
    /\ part = "chat" => Chat!TypeOK

\* UiSettings: a start shows every setting as it was last chosen.
RestoredAtStart == [][part = "settings" => Settings!StartRestores]_vars

\* What is shown belongs together.  UiSettings: a list holds what the commands put in and
\* did not take out.  UiRooms: all that is shown of the room is of one room, what the user
\* wrote into it is on the screen, the thread in the right panel is of that room and holds
\* the replies of its root, and starred rooms stay on top of a sorted list.  TuiAgents: two
\* agents of one kind run only where a command was refused, and what a run was told it sent,
\* it sent.  ChatView: the terminal shows what the chat holds, a room with messages is never
\* empty and keeps them in their order, and nothing of the open room is unread.
ShownTogether ==
    /\ part = "settings" => Settings!ListsAddUp
    /\ part = "room" => /\ Room!ShownTogether /\ Room!OwnEventsShown
                        /\ Room!ThreadPanelFits /\ Room!StarredFirst
    /\ part = "agents" => Agents!OneOfAKind /\ Agents!ToldIsSent
    /\ part = "chat" => /\ Chat!ScreenFollows /\ Chat!NeverEmpty
                        /\ Chat!KeptInOrder /\ Chat!UnreadElsewhere

\* UiRooms: the viewport is only put on an event of the window; UiFrame: on a plain
\* timeline a jump shows the event it jumps to; ChatView: a click opens the room drawn in
\* that line.
JumpShowsEvent ==
    [][/\ part = "room" => Room!FocusFollows
       /\ part = "frame" => Frame!JumpShows
       /\ part = "chat" => Chat!ClickOpensLine]_vars

\* TuiAgents: after an Esc no run asks the model again, unless another was started since.
StopsWhenTold == [][part = "agents" => Agents!EscStops]_vars

\* Everything drawn fits.  PanelLayout: the columns fit the terminal, the chat keeps its 30
\* and none is negative.  UiFrame: the window shows rows of the chat, the last ones after
\* `newest`; the members with the threads under them fit it, also with the notifications in
\* the corner; every visible room has one row, under its own header.
\* ChatView: the cursor is in the text.
FrameFits ==
    /\ part = "layout" => Layout!LayoutFits /\ Layout!ChatUsable /\ Layout!WidthsNatural
    /\ part = "frame" => /\ Frame!ChatFillsWindow /\ Frame!RightPanelFits
                         /\ Frame!CornerFits /\ Frame!EveryRoomOnce
    /\ part = "chat" => Chat!CursorInside

\* WrapText: every letter is in a row once, no row is empty or too wide, and only a word as
\* wide as a row is cut.
TextKept == part = "wrap" => Wrap!LettersKept /\ Wrap!RowsFit /\ Wrap!WordsWhole

=============================================================================
