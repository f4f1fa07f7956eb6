----------------------------- MODULE PanelLayout -----------------------------
(***************************************************************************)
(* The widths of the three panels of the ASCII interface: the rooms on the *)
(* left, the chat, the members or threads on the right                     *)
(* (computePanelLayout, parsePanelRule and panelRuleFromTokens of           *)
(* src/ascii_ui.cpp and the commands that change what they compute from).  *)
(***************************************************************************)
EXTENDS Integers

CONSTANTS
    Widths,      \* terminal widths tried
    PanelWidths, \* fixed widths tried; -1 is automatic, 0 is off
    RuleValues,  \* numbers tried in a rule
    RowWidths    \* widths of the longest room row and member row

LayoutAssumption ==
    /\ Widths \subseteq Nat \ {0, 1} /\ RowWidths \subseteq Nat
    /\ PanelWidths \subseteq Nat \cup {-1} /\ RuleValues \subseteq Nat \ {0}
    /\ -1 \in PanelWidths /\ RowWidths # {}

VARIABLES
    W,     \* columns of the terminal
    s      \* the settings and contents the layout reads (UiState)

vars == <<W, s>>

Maximum(a, b) == IF a >= b THEN a ELSE b
Minimum(a, b) == IF a <= b THEN a ELSE b

Off == [kind |-> "off", val |-> 0]
\* panelRuleFromTokens and parsePanelRule: only positive numbers, a percentage to 100.
Rule(kind, n) == IF kind = "pct" THEN [kind |-> kind, val |-> Minimum(100, n)]
                 ELSE [kind |-> kind, val |-> n]
Rules == {Off} \cup { Rule(kind, n) : kind \in {"min", "max", "pct"}, n \in RuleValues }
AllRules == [kind : {"off", "min", "max", "pct"}, val : Nat]

\* Few members go into a row of the chat and free the right panel.
Horizontal(v) ==
    ~ v.mobile /\ v.members /\ (v.mode = 1 \/ (v.mode = 0 /\ v.few))

\* A panel rule replaces, raises or lowers the width of its panel.
Ruled(width, rule, cols) ==
    CASE rule.kind = "pct" -> (cols * rule.val) \div 100
      [] rule.kind = "min" -> Maximum(width, rule.val)
      [] rule.kind = "max" -> Minimum(width, rule.val)
      [] OTHER -> width

\* The left panel before the squeeze: fixed, a fifth, or as wide as its longest row.
BaseLeft(v, cols) ==
    LET set == IF v.left >= 0 THEN v.left ELSE Maximum(22, cols \div 5)
        fit == Maximum(24, Minimum(72, v.longestRoom + 2))
    IN  Ruled(IF v.auto THEN fit ELSE set, v.ruleLeft, cols)

\* Seeded fault: a share of the terminal is taken of what the other panel leaves.
BaseRightOfRest(v, cols) ==
    LET set == IF v.right >= 0 THEN v.right ELSE Maximum(16, cols \div 6)
    IN  Ruled(set, v.ruleRight, cols - 2 * v.left)

\* The right panel before the squeeze: fixed, a sixth, as wide as its longest row up to a
\* cap, or nothing when the members are a row of the chat.
BaseRight(v, cols) ==
    LET set == IF v.right >= 0 THEN v.right ELSE Maximum(16, cols \div 6)
        cap == Minimum(40, Maximum(24, cols \div 3))
        fit == IF Horizontal(v) THEN 0 ELSE Maximum(10, Minimum(cap, v.longestMember + 3))
    IN  Ruled(IF v.auto THEN fit ELSE set, v.ruleRight, cols)

\* Seeded fault: the left panel is squeezed and the right one never.
SqueezedLeftOnly(left, right, v, cols) ==
    LET floor == IF v.ruleCenter.kind = "min" THEN Maximum(30, v.ruleCenter.val) ELSE 30
        l == IF cols - left - right - 2 < floor
             THEN Maximum(24, cols - right - 2 - floor) ELSE left
    IN  [left |-> l, right |-> right, center |-> Maximum(20, cols - l - right - 2)]

\* The chat keeps 30 columns: first the left panel gives way, down to 24, then the right
\* one, down to 10.  A panel that is narrower than that, or off, is brought up to it.
Squeezed(left, right, v, cols) ==
    LET floor == IF v.ruleCenter.kind = "min" THEN Maximum(30, v.ruleCenter.val) ELSE 30
        l == IF cols - left - right - 2 < floor
             THEN Maximum(24, cols - right - 2 - floor) ELSE left
        r == IF cols - l - right - 2 < floor
             THEN Maximum(10, cols - l - 2 - floor) ELSE right
    IN  [left |-> l, right |-> r, center |-> Maximum(20, cols - l - r - 2)]

\* A rule of the chat grows it to its target out of what the panels have above 24 and 10.
Grown(p, target) ==
    LET need == target - p.center
        give == Minimum(need, Maximum(0, p.left - 24))
        more == Minimum(need - give, Maximum(0, p.right - 10))
    IN  IF need <= 0 THEN p
        ELSE [left |-> p.left - give, right |-> p.right - more,
              center |-> p.center + give + more]

\* Seeded fault: the rule of the chat is applied without taking from the panels.
CentredByForce(p, v, cols) ==
    LET rule == v.ruleCenter
        target == IF rule.kind = "pct" THEN (cols * rule.val) \div 100 ELSE rule.val
    IN  IF rule.kind \in {"pct", "min"} THEN [p EXCEPT !.center = target] ELSE p

\* The rule of the chat: grown to its target, cut to it (a percentage, a maximum).
Centred(p, v, cols) ==
    LET rule == v.ruleCenter
        target == IF rule.kind = "pct" THEN (cols * rule.val) \div 100 ELSE rule.val
        g == Grown(p, target)
    IN  CASE rule.kind = "pct" -> [g EXCEPT !.center = Minimum(g.center, target)]
          [] rule.kind = "min" -> g
          [] rule.kind = "max" -> [p EXCEPT !.center = Minimum(p.center, rule.val)]
          [] OTHER -> p

\* computePanelLayout: the chat is capped at 120 columns, unless a percentage is asked for.
Layout(v, cols) ==
    LET p == Centred(Squeezed(BaseLeft(v, cols), BaseRight(v, cols), v, cols), v, cols)
        cap == IF v.mobile THEN cols - 2 ELSE 120
    IN  IF v.ruleCenter.kind = "pct" THEN p ELSE [p EXCEPT !.center = Minimum(p.center, cap)]

Settings == [left : PanelWidths, right : PanelWidths, ruleLeft : Rules, ruleCenter : Rules,
             ruleRight : Rules, auto : BOOLEAN, mode : 0..2, few : BOOLEAN,
             members : BOOLEAN, mobile : BOOLEAN, longestRoom : RowWidths,
             longestMember : RowWidths]

Init ==
    /\ W \in Widths
    /\ s = [left |-> -1, right |-> -1, ruleLeft |-> Off, ruleCenter |-> Off,
            ruleRight |-> Off, auto |-> FALSE, mode |-> 0, few |-> TRUE, members |-> TRUE,
            mobile |-> FALSE, longestRoom |-> CHOOSE w \in RowWidths : TRUE,
            longestMember |-> CHOOSE w \in RowWidths : TRUE]

Resize(w) == W' = w /\ UNCHANGED s

\* Seeded fault: a width with a minus is taken as it is.
PanelCmdSigned ==
    /\ \E w \in PanelWidths : s' = [s EXCEPT !.left = -w] \/ s' = [s EXCEPT !.right = -w]
    /\ UNCHANGED W

\* panel left|right <n|off|auto>; panel auto is taken by the same branch and never seen.
PanelCmd ==
    /\ \E w \in PanelWidths : s' = [s EXCEPT !.left = w] \/ s' = [s EXCEPT !.right = w]
    /\ UNCHANGED W
\* panel rule <left|center|right> <min N|max N|N%|off>.
PanelRuleCmd ==
    /\ \E rule \in Rules : \/ s' = [s EXCEPT !.ruleLeft = rule]
                           \/ s' = [s EXCEPT !.ruleCenter = rule]
                           \/ s' = [s EXCEPT !.ruleRight = rule]
    /\ UNCHANGED W
\* members <auto|top|right>, thread (another right panel), the start's --auto-panels.
MembersCmd ==
    /\ \/ \E m \in 0..2 : s' = [s EXCEPT !.mode = m]
       \/ s' = [s EXCEPT !.members = ~ @]
       \/ s' = [s EXCEPT !.auto = ~ @]
    /\ UNCHANGED W
\* Another room, or new rows: other widths to fit.
Contents ==
    /\ \E few \in BOOLEAN, room \in RowWidths, member \in RowWidths :
          s' = [s EXCEPT !.few = few, !.longestRoom = room, !.longestMember = member]
    /\ UNCHANGED W

Next == (\E w \in Widths : Resize(w)) \/ PanelCmd \/ PanelRuleCmd \/ MembersCmd \/ Contents

Spec == Init /\ [][Next]_vars

-----------------------------------------------------------------------------
Now == Layout(s, W)

\* The settings are ones the commands can make.
TypeOK == W \in Widths /\ s \in Settings

\* Whatever is set, on a terminal of 56 columns or more (below 60 the start chooses the
\* stacked layout) the panels and the two pipes between them fit its width.
LayoutFits ==
    W >= 56 => Now.left + Now.right + Now.center + 2 <= W

\* The chat keeps its 30 columns on a terminal of 66 or more, unless a rule of the chat
\* itself asks for less.
ChatUsable ==
    (W >= 66 /\ s.ruleCenter.kind \in {"off", "min"}) => Now.center >= 30

\* No width is negative.
WidthsNatural == Now.left >= 0 /\ Now.right >= 0 /\ Now.center >= 0

\* A panel that is switched off takes no columns.
OffStaysOff ==
    /\ (s.left = 0 /\ ~ s.auto) => Now.left = 0
    /\ (s.right = 0 /\ ~ s.auto) => Now.right = 0

=============================================================================
