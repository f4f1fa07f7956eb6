----------------------------- MODULE UiSettings -----------------------------
(***************************************************************************)
(* The settings of the ASCII interface (`progressive-cli ui`): what a      *)
(* running interface shows (the fields of UiState), what the table         *)
(* `settings` of matrixcli.db keeps, the commands that write both and the  *)
(* start that reads them back (src/ascii_settings.cpp, ascii_ui_repl*.cpp, *)
(* lib/database/db.cpp).  Several interfaces may run on one database.      *)
(*                                                                         *)
(* A command reaches the first dispatcher that knows its name, so some     *)
(* branches of the code are never reached: "panel auto" is taken by the    *)
(* branch of "panel <left|right>", "names" by the one of the sender names. *)
(***************************************************************************)
EXTENDS Integers, Sequences

CONSTANTS
    Procs,        \* interfaces that may run at the same time
    Names,        \* rooms or users that the list settings name
    FlagsTried,   \* bound: the command-line flags a start may carry, one at a time
    MaxCommands   \* bound on the commands given


VARIABLES
    db,        \* the stored text of each key, "" when it was never written
    lists,     \* the stored list of each list key
    fld,       \* per interface: the value each field has
    mine,      \* per interface: the list each list field has
    up,        \* the interfaces that run
    chosen,    \* history: the value last chosen by a command, per key
    listed,    \* history: the list the commands given so far amount to
    crowded,   \* history: two interfaces ran at the same time
    commands   \* commands given so far

vars == <<db, lists, fld, mine, up, chosen, listed, crowded, commands>>

\* Switches read back as on only by "1", and those read back as on unless "0".
OnByOne  == {"time_full", "ids", "images", "marker_col", "mobile", "clock12h"}
OnUnless == {"emoji", "room_names", "show_invites", "show_invites_legend",
             "show_notifications", "room_invite_mark", "names", "receipts", "joins",
             "links", "threads_bottom"}
Switches == OnByOne \cup OnUnless

\* Settings with more values; the first of them is what a fresh database gives.
Values(k) ==
    CASE k = "time_side"    -> <<"left", "right">>
      [] k = "msg_line"     -> <<"inline", "newline">>
      [] k = "members_mode" -> <<"0", "1", "2">>
      [] k = "rows"         -> <<"0", "30", "-3">>
      [] k = "via_limit"    -> <<"3", "0", "7">>
      [] k = "tz_offset"    -> <<"0", "-3">>
      [] k \in {"panel_left", "panel_right"} -> <<"-1", "0", "40">>
      [] OTHER              -> <<"", "min:80", "pct:40">>   \* panel_rule_*
Choices == {"time_side", "msg_line", "members_mode", "rows", "via_limit", "tz_offset",
            "panel_left", "panel_right", "panel_rule_left", "panel_rule_center",
            "panel_rule_right"}
Keys == Switches \cup Choices

\* Lists saved whole, entries separated by commas: rooms, readers, per-user values.
Lists == {"muted", "starred", "receipts_hide", "user_colors", "room_nicks", "widths"}

Elements(seq) == { seq[i] : i \in DOMAIN seq }
ValuesOf(k) == IF k \in Switches THEN {"1", "0"} ELSE Elements(Values(k))

-----------------------------------------------------------------------------
(* Reading back. *)

\* Seeded fault: a key that was never written leaves the field empty.
ReadTextRaw(k, text) ==
    CASE k \in OnByOne  -> IF text = "1" THEN "1" ELSE "0"
      [] k \in OnUnless -> IF text # "0" THEN "1" ELSE "0"
      [] OTHER -> text

\* The value a field takes from the stored text: a switch by its rule, a number or a
\* word by itself, `rows` never below 0.
ReadText(k, text) ==
    CASE k \in OnByOne  -> IF text = "1" THEN "1" ELSE "0"
      [] k \in OnUnless -> IF text # "0" THEN "1" ELSE "0"
      [] k = "rows" /\ text = "-3" -> "0"
      [] OTHER -> IF text = "" THEN Values(k)[1] ELSE text

Defaults == [k \in Keys |-> ReadText(k, "")]

\* What a value shows: a negative number of rows is the automatic height as well.
Shows(k, v) == IF k = "rows" /\ v = "-3" THEN "0" ELSE v

Init ==
    /\ db = [k \in Keys |-> ""]
    /\ lists = [l \in Lists |-> {}]
    /\ fld = [p \in Procs |-> Defaults]
    /\ mine = [p \in Procs |-> [l \in Lists |-> {}]]
    /\ up = {}
    /\ chosen = Defaults
    /\ listed = [l \in Lists |-> {}]
    /\ crowded = FALSE
    /\ commands = 0

\* The fields a flag of the command line sets for this process only.
FlagValue(flag) ==
    CASE flag = "ids" -> [key |-> "ids", value |-> "1"]
      [] flag = "time-full" -> [key |-> "time_full", value |-> "1"]
      [] flag = "no-emoji" -> [key |-> "emoji", value |-> "0"]
      [] flag = "room-aliases" -> [key |-> "room_names", value |-> "0"]
      [] flag = "panel-left" -> [key |-> "panel_left", value |-> "40"]
      [] flag = "members" -> [key |-> "members_mode", value |-> "2"]
      [] flag = "rows" -> [key |-> "rows", value |-> "30"]
      [] flag = "narrow" -> [key |-> "mobile", value |-> "1"]   \* under 60 columns
Flags == {"ids", "time-full", "no-emoji", "room-aliases", "panel-left", "members",
          "rows", "narrow"}

SettingsAssumption == MaxCommands \in Nat /\ FlagsTried \subseteq Flags

\* cmdAsciiUi: every field is read from the database, then the terminal's width and
\* the flags have their say.
AsStored == [k \in Keys |-> ReadText(k, db[k])]

Start(p) ==
    /\ p \notin up
    /\ \E shown \in {AsStored} \cup
                    { [AsStored EXCEPT ![FlagValue(f).key] = FlagValue(f).value] : f \in FlagsTried } :
        fld' = [fld EXCEPT ![p] = shown]
    /\ mine' = [mine EXCEPT ![p] = lists]
    /\ up' = up \cup {p}
    /\ crowded' = (crowded \/ up # {})
    /\ UNCHANGED <<db, lists, chosen, listed, commands>>

\* quit, end of input or Ctrl+C: nothing is written on the way out.
Quit(p) ==
    /\ p \in up
    /\ up' = up \ {p}
    /\ crowded' = (crowded /\ up' # {})
    /\ listed' = IF up' = {} THEN lists ELSE listed
    /\ fld' = [fld EXCEPT ![p] = Defaults]
    /\ mine' = [mine EXCEPT ![p] = [l \in Lists |-> {}]]
    /\ UNCHANGED <<db, lists, chosen, commands>>

-----------------------------------------------------------------------------
(* Commands. *)

Count == commands < MaxCommands /\ commands' = commands + 1

\* The field changes and is stored under the key, nothing else is.
Set(p, k, v) ==
    /\ p \in up /\ Count
    /\ fld' = [fld EXCEPT ![p][k] = v]
    /\ db' = [db EXCEPT ![k] = v]
    /\ chosen' = [chosen EXCEPT ![k] = Shows(k, v)]
    /\ UNCHANGED <<lists, mine, up, listed, crowded>>

\* Seeded fault: the shared helper stores the text under another key.
DisplayElsewhere(p) ==
    \E v \in {"1", "0"} :
      \/ Set(p, "names", v)
      \/ /\ p \in up /\ Count
         /\ fld' = [fld EXCEPT ![p]["receipts"] = v]
         /\ db' = [db EXCEPT !["names"] = v]
         /\ chosen' = [chosen EXCEPT !["receipts"] = v]
         /\ UNCHANGED <<lists, mine, up, listed, crowded>>

\* names, receipts [show], joins, links, clock (ascii_settings.cpp).
Display(p) ==
    \E k \in {"names", "receipts", "joins", "links", "clock12h"}, v \in {"1", "0"} :
        Set(p, k, v)

\* "receipts current" and "receipts all" show the receipts, but what they store under
\* receipts_mode nobody reads, and `receipts` keeps its text.
ReceiptsMode(p) ==
    /\ p \in up /\ Count
    /\ fld' = [fld EXCEPT ![p]["receipts"] = "1"]
    /\ UNCHANGED <<db, lists, mine, up, chosen, listed, crowded>>

\* marker, and aliases: "names" never comes this far, so nothing brings the names of
\* the rooms back but a flag that the next start forgets.
RoomList(p) ==
    \/ \E v \in {"1", "0"} : Set(p, "marker_col", v)
    \/ Set(p, "room_names", "0")

\* mobile and rows.
Layout(p) ==
    \/ \E v \in {"1", "0"} : Set(p, "mobile", v)
    \/ \E v \in ValuesOf("rows") : Set(p, "rows", v)

\* emoji, invites, invites legend, notifications, images, ids, time, threads bottom and
\* invite mark.
Marks(p) ==
    \E k \in {"emoji", "show_invites", "show_invites_legend", "show_notifications",
              "images", "ids", "time_full", "threads_bottom", "room_invite_mark"},
       v \in {"1", "0"} : Set(p, k, v)

\* timeside and msgline.
Lines(p) ==
    \E k \in {"time_side", "msg_line"} : \E v \in ValuesOf(k) : Set(p, k, v)

\* members <layout>, panel <left|right> and panel rule.
Panels(p) ==
    \E k \in {"members_mode", "panel_left", "panel_right", "panel_rule_left",
              "panel_rule_center", "panel_rule_right"} :
        \E v \in ValuesOf(k) : Set(p, k, v)

\* via and timezone.
Numbers(p) ==
    \E k \in {"via_limit", "tz_offset"} : \E v \in ValuesOf(k) : Set(p, k, v)

\* Seeded fault: unmuting writes the list before the entry is taken out.
StoreListEarly(p, l, own) ==
    /\ p \in up /\ Count
    /\ mine' = [mine EXCEPT ![p][l] = own]
    /\ lists' = [lists EXCEPT ![l] = mine[p][l] \cup own]
    /\ listed' = [listed EXCEPT ![l] = IF own \subseteq mine[p][l]
                                       THEN @ \ (mine[p][l] \ own) ELSE @ \cup own]
    /\ UNCHANGED <<db, fld, up, chosen, crowded>>

\* A list command changes the interface's own copy and stores the whole of it.
StoreList(p, l, own) ==
    /\ p \in up /\ Count
    /\ mine' = [mine EXCEPT ![p][l] = own]
    /\ lists' = [lists EXCEPT ![l] = own]
    /\ listed' = [listed EXCEPT ![l] = IF own \subseteq mine[p][l]
                                       THEN @ \ (mine[p][l] \ own) ELSE @ \cup own]
    /\ UNCHANGED <<db, fld, up, chosen, crowded>>

\* mute, star, color, nick and widths: one entry more, or one less where the command
\* has an "off"; a nick is only ever replaced.
ListEntry(p) ==
    \E l \in Lists \ {"receipts_hide"}, n \in Names :
      \/ StoreList(p, l, mine[p][l] \cup {n})
      \/ l \in {"muted", "starred", "user_colors"} /\ StoreList(p, l, mine[p][l] \ {n})

\* receipts hide <user> | off, and widths reset: one more, or the whole list cleared.
ClearableList(p) ==
    \/ \E n \in Names : StoreList(p, "receipts_hide", mine[p]["receipts_hide"] \cup {n})
    \/ \E l \in {"receipts_hide", "widths"} : StoreList(p, l, {})

Next ==
    \E p \in Procs :
        \/ Start(p) \/ Quit(p)
        \/ Display(p) \/ ReceiptsMode(p) \/ RoomList(p) \/ Layout(p) \/ Marks(p)
        \/ Lines(p) \/ Panels(p) \/ Numbers(p) \/ ListEntry(p) \/ ClearableList(p)

Spec == Init /\ [][Next]_vars

-----------------------------------------------------------------------------
\* Every field holds a value of its setting and every key a text one of its commands
\* writes.
TypeOK ==
    /\ \A k \in Keys : db[k] \in ValuesOf(k) \cup {""}
    /\ \A p \in Procs, k \in Keys : fld[p][k] \in ValuesOf(k)
    /\ \A l \in Lists : lists[l] \subseteq Names /\ listed[l] \subseteq Names
    /\ \A p \in Procs, l \in Lists : mine[p][l] \subseteq Names
    /\ up \subseteq Procs
    /\ commands \in 0..MaxCommands

\* A start shows every setting as it was last chosen, by whichever interface, over any
\* number of restarts: what a command writes is what the start reads, under the same
\* key and with the same default.  Only a flag or a narrow terminal overrides it, each
\* its one field with its one value, and the next start knows nothing of it.
StartRestores ==
    \A p \in Procs :
          p \in up' \ up =>
              \E f \in Flags : \A k \in Keys :
                  \/ Shows(k, fld[p][k]') = chosen[k]
                  \/ k = FlagValue(f).key /\ fld[p][k]' = FlagValue(f).value

\* The same of every step.
RestoredAtStart == [][StartRestores]_vars

\* As long as no two interfaces run at once, a list has exactly the entries the commands
\* put in and did not take out.  (Two at once overwrite each other's lists.)
ListsAddUp ==
    ~ crowded => \A l \in Lists : lists[l] = listed[l]

=============================================================================
