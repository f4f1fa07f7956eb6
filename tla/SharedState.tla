---------------------------- MODULE SharedState ----------------------------
(***************************************************************************)
(* Documents the homeserver keeps and commands change by reading them,      *)
(* changing what they read and writing all of it back: the power levels of  *)
(* a room (`power set|user|event|reset` in src/room_commands.cpp, /op and   *)
(* /deop), its pinned messages (/pin, /unpin) and the list of ignored users *)
(* (/ignore, /unignore; lib/matrix/client_sync.cpp).  Nothing tells the     *)
(* server which version a writing was made from, so devices may write over  *)
(* each other, and a reading or a writing may fail.                         *)
(*                                                                         *)
(* A behaviour looks at one of the documents.  The levels are a partial     *)
(* function: of members, and of "rule", the level it takes to change them.  *)
(***************************************************************************)
EXTENDS Integers, Sequences

CONSTANTS
    Devices,    \* programs that run commands
    Members,    \* users; of the room, or to be ignored
    Founder,    \* who made the room
    Pinnable,   \* messages
    MaxOrders   \* bound on the commands

SharedAssumption == Founder \in Members /\ MaxOrders \in Nat

VARIABLES
    kind,       \* the document: "levels", "pins" or "ignored"
    user,       \* the user of each device
    content,    \* what the server holds: [there, has]
    under,      \* the commands under way, with what they read
    ordered     \* commands so far

sharedVars == <<kind, user, content, under, ordered>>

Grades == {0, 50, 100}
Nothing == IF kind = "ignored" THEN {} ELSE <<>>

Orders ==
    CASE kind = "levels" ->
             [op : {"power"}, key : Members \cup {"rule"}, to : Grades] \cup
             [op : {"op"}, key : Members, to : {0, 100}] \cup
             [op : {"reset"}, key : {"rule"}, to : {100}]
      [] kind = "pins" -> [op : {"pin", "unpin"}, key : Pinnable]
      [] kind = "ignored" -> [op : {"ignore", "unignore"}, key : Members]

Shapes ==
    CASE kind = "levels" -> UNION {[keys -> Grades] : keys \in SUBSET (Members \cup {"rule"})}
      [] kind = "pins" -> UNION {[1..n -> Pinnable] : n \in 0..MaxOrders}
      [] kind = "ignored" -> SUBSET Members

TypeOK ==
    /\ user \in [Devices -> Members] /\ content.has \in Shapes /\ ordered \in 0..MaxOrders
    /\ \A w \in under : w.dev \in Devices /\ w.order \in Orders /\ w.read.has \in Shapes
    /\ \A v, w \in under : v.dev = w.dev => v = w

\* The room was made with levels, or has none; everything else begins empty.
Init ==
    /\ kind \in {"levels", "pins", "ignored"} /\ user \in [Devices -> Members]
    /\ kind = "ignored" => \A d, e \in Devices : user[d] = user[e]
    /\ content = [there |-> FALSE, has |-> Nothing] \/
       (kind = "levels" /\ content = [there |-> TRUE, has |-> [m \in {Founder} |-> 100]])
    /\ under = {} /\ ordered = 0

-----------------------------------------------------------------------------
\* What the server allows (room version rules of Matrix).
Level(u, c) ==
    IF u \in DOMAIN c.has THEN c.has[u] ELSE IF ~ c.there /\ u = Founder THEN 100 ELSE 0
Rule(c) == IF ~ c.there THEN 0 ELSE IF "rule" \in DOMAIN c.has THEN c.has["rule"] ELSE 50

\* Nobody changes a level above its own, gives a higher one, or touches another's equal one.
Allows(u, new) ==
    kind = "levels" /\ content.there =>
        LET own == Level(u, content)
            Same(k) == /\ (k \in DOMAIN content.has) = (k \in DOMAIN new)
                       /\ k \in DOMAIN new => new[k] = content.has[k] IN
        /\ own >= Rule(content)
        /\ \A k \in DOMAIN content.has \cup DOMAIN new :
              \/ Same(k)
              \/ /\ k \in DOMAIN new => new[k] <= own
                 /\ k \in DOMAIN content.has =>
                       content.has[k] < own \/ (content.has[k] = own /\ k \in {u, "rule"})

-----------------------------------------------------------------------------
\* Seeded fault: /op and /pin go on, too, from nothing.
GoesOnAlways(order) == TRUE

\* A reading that fails counts as an empty document for `power` and /ignore; it throws in the
\* others, or ends them.
GoesOn(order) == order.op \in {"power", "reset", "ignore"}

\* There is no event to unpin from, no list to unignore in.
NothingToDo(order) == ~ content.there /\ order.op \in {"unpin", "unignore"}

\* The first request of a command: the document is read, or the reading fails.
Ask(d, order) ==
    /\ \A w \in under : w.dev # d
    /\ ordered < MaxOrders /\ ordered' = ordered + 1
    /\ \E failed \in BOOLEAN :
          LET w == [dev |-> d, order |-> order, failed |-> failed, stale |-> FALSE,
                    read |-> IF failed THEN [there |-> FALSE, has |-> Nothing] ELSE content] IN
          under' = IF (IF failed THEN GoesOn(order) ELSE ~ NothingToDo(order))
                   THEN under \cup {w} ELSE under
    /\ UNCHANGED <<kind, user, content>>

With(f, key, value) == [k \in DOMAIN f \cup {key} |-> IF k = key THEN value ELSE f[k]]

\* Seeded fault: /op writes levels of its own into any room.
ChangedAnew(order, read) ==
    CASE order.op = "power" -> With(read.has, order.key, order.to)
      [] order.op = "op" -> With(With(<<>>, "rule", 100), order.key, order.to)
      [] order.op = "reset" -> With(<<>>, "rule", 100)
      [] order.op = "pin" -> Append(read.has, order.key)
      [] order.op = "unpin" -> LET Other(m) == m # order.key IN SelectSeq(read.has, Other)
      [] order.op = "ignore" -> read.has \cup {order.key}
      [] order.op = "unignore" -> read.has \ {order.key}

\* What is written back.  /op makes a document of its own for a room that has none; `reset`
\* sets the recommended ones, which name no member.
Changed(order, read) ==
    CASE order.op = "power" -> With(read.has, order.key, order.to)
      [] order.op = "op" ->
             With(IF read.has = <<>> THEN With(<<>>, "rule", 100) ELSE read.has, order.key, order.to)
      [] order.op = "reset" -> With(<<>>, "rule", 100)
      [] order.op = "pin" -> Append(read.has, order.key)
      [] order.op = "unpin" -> LET Other(m) == m # order.key IN SelectSeq(read.has, Other)
      [] order.op = "ignore" -> read.has \cup {order.key}
      [] order.op = "unignore" -> read.has \ {order.key}

\* The second request: the server takes it, whether the answer arrives or not.
Put(w) ==
    /\ Allows(user[w.dev], Changed(w.order, w.read))
    /\ content' = [there |-> TRUE, has |-> Changed(w.order, w.read)]
    /\ under' = {[v EXCEPT !.stale = TRUE] : v \in under \ {w}}
    /\ UNCHANGED <<kind, user, ordered>>

\* The request does not get there, or is refused.
PutFails(w) == under' = under \ {w} /\ UNCHANGED <<kind, user, content, ordered>>

Next ==
    \/ \E d \in Devices, order \in Orders : Ask(d, order)
    \/ \E w \in under : Put(w) \/ PutFails(w)

-----------------------------------------------------------------------------
\* The document without what an order names.
Rest(has, key) ==
    CASE kind = "levels" -> [k \in DOMAIN has \ {key} |-> has[k]]
      [] kind = "pins" -> LET Other(m) == m # key IN SelectSeq(has, Other)
      [] kind = "ignored" -> has \ {key}

Written == CHOOSE w \in under : \A v \in under' : v.dev # w.dev

\* A command changes the level, the pin or the entry it names and nothing else, unless
\* another device wrote in between, or it is `power` or /ignore and went on after a reading
\* that failed (room_commands.cpp:221, client_sync.cpp:374).  `reset` forgets all members,
\* and the first levels of a room bring a rule.
OnlyTheNamed ==
    content' # content =>
        \/ Rest(content'.has, Written.order.key) = Rest(content.has, Written.order.key)
        \/ Written.stale \/ Written.order.op = "reset"
        \/ Written.failed /\ Written.order.op \in {"power", "ignore"}
        \/ Written.order.op = "op" /\ ~ content.there

Governed(c) == \E m \in Members : Level(m, c) >= Rule(c)

\* Somebody may still change the levels of a room, unless the last one steps down, a device
\* writes over what another wrote in between, or a command writes levels it has not read: the
\* room had none, the reading failed, or it is `reset`, which names no member.
StaysGoverned ==
    kind = "levels" /\ Governed(content) /\ ~ Governed(content)' =>
        \/ Written.order.key = user[Written.dev] \/ Written.stale
        \/ Written.order.op = "reset" \/ ~ Written.read.there
=============================================================================
