---------------------------- MODULE ViewHistory ----------------------------
(***************************************************************************)
(* `view`: reading a room's history page by page (cmdView in                *)
(* src/cmd_view_attach.cpp on Database::getEvents in lib/database/db.cpp).  *)
(* A page is cut to the limit by the database and only then thinned by the  *)
(* filters; the line above it names the commands that show what is older    *)
(* and what is newer.  The user follows those lines while messages arrive.  *)
(* A message is [id, time, who]; which of those of one time come first in a *)
(* page is the database's choice.                                           *)
(***************************************************************************)
EXTENDS Integers, FiniteSets

CONSTANTS
    MaxHeld,            \* bound on the messages
    Times, People,      \* times and senders
    Limits,             \* limits of a page; -1 is "all"
    Filters,            \* settings of config.json, as records of sets of People
    Given               \* the --senders of one command

ViewAssumption == MaxHeld \in Nat /\ Times \subseteq Int /\ Limits \subseteq Int

VARIABLES
    stored,     \* the room's messages in the database
    filters,    \* the filters of config.json
    view,       \* the page on the screen, with its command's options and its two hints
    walk        \* what following the older hints has shown since the first page

viewVars == <<stored, filters, view, walk>>

Messages == [id : 1..MaxHeld, time : Times, who : People]
NoWalk == [seen |-> {}, start |-> {}, times |-> {}, thinned |-> FALSE, before |-> {}]
NoPage == [page |-> {}, limit |-> 0, senders |-> {}, free |-> FALSE, kind |-> "none",
           older |-> FALSE, newer |-> FALSE]

TypeOK ==
    /\ stored \subseteq Messages /\ filters \in Filters
    /\ view.page \subseteq stored /\ view.kind \in {"none", "first", "older", "newer"}
    /\ walk.seen \subseteq stored /\ walk.before \subseteq stored /\ walk.times \subseteq Times

\* Messages are numbered as they were stored.
Init ==
    /\ \E held \in 0..MaxHeld : \E f \in [1..held -> Times \X People] :
          /\ \A i \in 2..held : f[i - 1][1] <= f[i][1]
          /\ stored = {[id |-> i, time |-> f[i][1], who |-> f[i][2]] : i \in 1..held}
    /\ filters \in Filters /\ view = NoPage /\ walk = NoWalk

-----------------------------------------------------------------------------
\* Seeded fault: the newest ones, also after an anchor.
WindowsNewest(within, limit, upwards) ==
    {w \in SUBSET within :
        /\ Cardinality(w) = IF limit > 0 /\ limit < Cardinality(within) THEN limit
                            ELSE Cardinality(within)
        /\ \A m \in w, n \in within \ w : m.time >= n.time}

\* getEvents: the oldest ones after an anchor, the newest ones otherwise.
Windows(within, limit, upwards) ==
    {w \in SUBSET within :
        /\ Cardinality(w) = IF limit > 0 /\ limit < Cardinality(within) THEN limit
                            ELSE Cardinality(within)
        /\ \A m \in w, n \in within \ w : IF upwards THEN m.time <= n.time ELSE m.time >= n.time}

\* --senders goes before the room's list and that before the general one; whom any list
\* hides stays hidden.  --no-filter leaves --senders alone.
Passes(m, senders, free) ==
    LET wanted == CASE senders # {} \/ free -> senders
                    [] filters.room # {} -> filters.room
                    [] OTHER -> filters.general
    IN (wanted = {} \/ m.who \in wanted) /\ (free \/ m.who \notin filters.hide)

Kept(w, senders, free) == {m \in w : Passes(m, senders, free)}

\* Seeded fault: a full page is taken for the last one.
FullIsLast(page, limit) == Cardinality(page) > limit

\* A full page is taken for a sign of more.
Full(page, limit) == Cardinality(page) >= limit

\* What the page and its hints are; a page without messages has none.
Shown(page, limit, senders, free, kind) ==
    [page |-> page, limit |-> limit, senders |-> senders, free |-> free, kind |-> kind,
     older |-> page # {} /\ (kind = "newer" \/ Full(page, limit)),
     newer |-> page # {} /\ (kind = "older" \/ (kind = "newer" /\ Full(page, limit)))]

Oldest(page) == CHOOSE t \in {m.time : m \in page} : \A m \in page : t <= m.time
Newest(page) == CHOOSE t \in {m.time : m \in page} : \A m \in page : t >= m.time

\* view <room> <limit>: the newest messages.
First(limit, senders, free) ==
    \E w \in Windows(stored, limit, FALSE) :
        LET page == Kept(w, senders, free) IN
        /\ view' = Shown(page, limit, senders, free, "first")
        /\ walk' = [seen |-> page, start |-> stored, times |-> {}, before |-> {},
                    thinned |-> page # w]
        /\ UNCHANGED <<stored, filters>>

\* view --before: those strictly older than the page's first.
Older ==
    /\ view.older
    /\ \E w \in Windows({m \in stored : m.time < Oldest(view.page)}, view.limit, FALSE) :
        LET page == Kept(w, view.senders, view.free) IN
        /\ view' = Shown(page, view.limit, view.senders, view.free, "older")
        /\ walk' = [walk EXCEPT !.seen = @ \cup page, !.times = @ \cup {Oldest(view.page)},
                                !.before = view.page, !.thinned = @ \/ page # w]
        /\ UNCHANGED <<stored, filters>>

\* view --from: those strictly newer than the page's last.
Newer ==
    /\ view.newer
    /\ \E w \in Windows({m \in stored : m.time > Newest(view.page)}, view.limit, TRUE) :
        LET page == Kept(w, view.senders, view.free) IN
        /\ view' = Shown(page, view.limit, view.senders, view.free, "newer")
        /\ walk' = [NoWalk EXCEPT !.before = IF view.kind = "older" THEN walk.before ELSE {},
                                  !.thinned = page # w \/ walk.thinned]
        /\ UNCHANGED <<stored, filters>>

\* A sync stores a message; it need not be the newest.
Arrive(m) ==
    /\ m.id = Cardinality(stored) + 1
    /\ stored' = stored \cup {m} /\ UNCHANGED <<filters, view, walk>>

-----------------------------------------------------------------------------
Next ==
    \/ \E limit \in Limits, senders \in Given, free \in BOOLEAN : First(limit, senders, free)
    \/ Older \/ Newer
    \/ \E m \in Messages : Arrive(m)

-----------------------------------------------------------------------------
\* Who follows the older hints until none is left has been shown every message that was there
\* at the beginning and passes the filters - but for those of the very time of a page's
\* first, and unless the filters took something from a page, which then counts as the last.
WalkShowsAll ==
    view.kind \in {"first", "older"} /\ ~ view.older /\ ~ walk.thinned =>
        \A m \in walk.start : m \in walk.seen \/ m.time \in walk.times

\* Back from an older page by its newer hint, the page one came from is there again - but for
\* what has arrived at its times since or shared them unseen.
BackAgain ==
    view.kind = "newer" /\ ~ walk.thinned /\ walk.before # {} =>
        \/ walk.before \subseteq view.page
        \/ \E m \in view.page \ walk.before : m.time <= Newest(walk.before)
=============================================================================
