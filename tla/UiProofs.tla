------------------------------- MODULE UiProofs -------------------------------
(***************************************************************************)
(* Five parts of the interfaces, for every value of the constants.  The     *)
(* widths of the panels, for every terminal, every fixed width, every rule   *)
(* and every content: they are computed by stages, and the argument follows  *)
(* them.  The rows wrapTextImpl makes, for every text and every pair of      *)
(* widths: made letter by letter, so the argument is an induction over the   *)
(* steps.  The settings, for any number of commands and starts of two        *)
(* interfaces over one database.  The agents of the terminal interface, for  *)
(* any number of runs, keys and iterations.  And its chat, for any rooms,    *)
(* any number of messages and any sizes of the panels.                       *)
(***************************************************************************)
EXTENDS MCUi, WellFoundedInduction, TLAPS

-----------------------------------------------------------------------------
(* The panels. *)

\* A share of the terminal: `n percent` is a natural number of columns.
LEMMA Share ==
    ASSUME NEW cols \in Nat, NEW p \in Nat
    PROVE  (cols * p) \div 100 \in Nat
  <1>1. cols * p \in Nat
    OBVIOUS
  <1> QED
    BY <1>1

\* A rule as the commands make it: its number is a natural one.
RuleType == { r \in [kind : {"off", "min", "max", "pct"}, val : Nat] : TRUE }

\* The settings, as widely as the layout needs them.
AnySettings == [left : Int, right : Int, ruleLeft : RuleType, ruleCenter : RuleType,
         ruleRight : RuleType, auto : BOOLEAN, mode : 0..2, few : BOOLEAN,
         members : BOOLEAN, mobile : BOOLEAN, longestRoom : Nat, longestMember : Nat]

\* A rule leaves a panel a natural width.
LEMMA RuledNat ==
    ASSUME NEW width \in Nat, NEW rule \in RuleType, NEW cols \in Nat
    PROVE  Layout!Ruled(width, rule, cols) \in Nat
  <1>1. (cols * rule.val) \div 100 \in Nat
    BY Share DEF RuleType
  <1> QED
    BY <1>1 DEF Layout!Ruled, RuleType, Layout!Maximum, Layout!Minimum

\* Before the squeeze both panels have natural widths.
LEMMA BaseNat ==
    ASSUME NEW v \in AnySettings, NEW cols \in Nat
    PROVE  Layout!BaseLeft(v, cols) \in Nat /\ Layout!BaseRight(v, cols) \in Nat
  <1>1. v.ruleLeft \in RuleType /\ v.ruleRight \in RuleType /\ v.left \in Int /\ v.right \in Int
        /\ v.longestRoom \in Nat /\ v.longestMember \in Nat
    BY DEF AnySettings
  <1> DEFINE setL == IF v.left >= 0 THEN v.left ELSE Layout!Maximum(22, cols \div 5)
             fitL == Layout!Maximum(24, Layout!Minimum(72, v.longestRoom + 2))
             setR == IF v.right >= 0 THEN v.right ELSE Layout!Maximum(16, cols \div 6)
             cap == Layout!Minimum(40, Layout!Maximum(24, cols \div 3))
             fitR == IF Layout!Horizontal(v) THEN 0
                     ELSE Layout!Maximum(10, Layout!Minimum(cap, v.longestMember + 3))
  <1>2. setL \in Nat /\ fitL \in Nat
    BY <1>1 DEF Layout!Maximum, Layout!Minimum
  <1>3. setR \in Nat /\ fitR \in Nat
    BY <1>1 DEF Layout!Maximum, Layout!Minimum
  <1>4. Layout!BaseLeft(v, cols) = Layout!Ruled(IF v.auto THEN fitL ELSE setL, v.ruleLeft, cols)
    BY DEF Layout!BaseLeft
  <1>5. Layout!BaseRight(v, cols) = Layout!Ruled(IF v.auto THEN fitR ELSE setR, v.ruleRight, cols)
    BY DEF Layout!BaseRight
  <1>6. (IF v.auto THEN fitL ELSE setL) \in Nat /\ (IF v.auto THEN fitR ELSE setR) \in Nat
    BY <1>2, <1>3
  <1> HIDE DEF setL, fitL, setR, cap, fitR
  <1> QED
    BY <1>1, <1>4, <1>5, <1>6, RuledNat

\* What the squeeze makes of any two widths.
Fitting(p, cols) ==
    /\ p.left \in Nat /\ p.right \in Nat /\ p.center \in Nat
    /\ cols >= 56 => p.left + p.right + p.center + 2 <= cols

\* The squeeze makes any two widths fit, and leaves the chat its 30 columns.
LEMMA SqueezedFits ==
    ASSUME NEW v \in AnySettings, NEW cols \in Nat, NEW l \in Nat, NEW r \in Nat
    PROVE  /\ Fitting(Layout!Squeezed(l, r, v, cols), cols)
           /\ cols >= 66 => Layout!Squeezed(l, r, v, cols).center >= 30
  <1> DEFINE floor == IF v.ruleCenter.kind = "min" THEN Layout!Maximum(30, v.ruleCenter.val) ELSE 30
             l2 == IF cols - l - r - 2 < floor
                   THEN Layout!Maximum(24, cols - r - 2 - floor) ELSE l
             r2 == IF cols - l2 - r - 2 < floor
                   THEN Layout!Maximum(10, cols - l2 - 2 - floor) ELSE r
             c2 == Layout!Maximum(20, cols - l2 - r2 - 2)
  <1>1. v.ruleCenter.val \in Nat
    BY DEF AnySettings, RuleType
  <1>2. floor \in Nat /\ floor >= 30
    BY <1>1 DEF Layout!Maximum
  <1>3. Layout!Squeezed(l, r, v, cols) = [left |-> l2, right |-> r2, center |-> c2]
    BY DEF Layout!Squeezed
  <1> HIDE DEF floor
  <1>4. l2 \in Nat /\ (cols - l - r - 2 < floor => l2 >= 24)
        /\ (cols - l2 - r - 2 >= floor \/ l2 = 24)
    BY <1>2 DEF Layout!Maximum
  <1> HIDE DEF l2
  <1>5. r2 \in Nat /\ (cols - l2 - r2 - 2 >= floor \/ (r2 = 10 /\ l2 = 24))
    BY <1>2, <1>4 DEF Layout!Maximum
  <1> HIDE DEF r2
  <1>6. /\ c2 \in Nat
        /\ cols >= 56 => l2 + r2 + c2 + 2 <= cols
        /\ cols >= 66 => c2 >= 30
    BY <1>2, <1>4, <1>5 DEF Layout!Maximum
  <1> HIDE DEF c2
  <1> QED
    BY <1>3, <1>4, <1>5, <1>6 DEF Fitting
\* Growing the chat takes from the panels what it gives.
LEMMA GrownFits ==
    ASSUME NEW cols \in Nat, NEW p \in [left : Nat, right : Nat, center : Nat],
           Fitting(p, cols), NEW target \in Nat
    PROVE  /\ Layout!Grown(p, target) \in [left : Nat, right : Nat, center : Nat]
           /\ Fitting(Layout!Grown(p, target), cols)
           /\ Layout!Grown(p, target).center >= p.center
  BY DEF Layout!Grown, Fitting, Layout!Maximum, Layout!Minimum

\* The rule of the chat keeps the panels on the terminal, and only a percentage or a
\* maximum makes the chat narrower.
LEMMA CentredFits ==
    ASSUME NEW v \in AnySettings, NEW cols \in Nat,
           NEW p \in [left : Nat, right : Nat, center : Nat],
           Fitting(p, cols)
    PROVE  /\ Layout!Centred(p, v, cols) \in [left : Nat, right : Nat, center : Nat]
           /\ Fitting(Layout!Centred(p, v, cols), cols)
           /\ v.ruleCenter.kind \in {"off", "min"} => Layout!Centred(p, v, cols).center >= p.center
  <1> DEFINE rule == v.ruleCenter
             target == IF rule.kind = "pct" THEN (cols * rule.val) \div 100 ELSE rule.val
             g == Layout!Grown(p, target)
  <1>1. rule.val \in Nat /\ rule.kind \in {"off", "min", "max", "pct"}
    BY DEF AnySettings, RuleType
  <1>2. target \in Nat
    BY <1>1, Share
  <1>3. /\ g \in [left : Nat, right : Nat, center : Nat]
        /\ Fitting(g, cols) /\ g.center >= p.center
    <2> HIDE DEF target
    <2> QED
      BY <1>2, GrownFits
  <1>4. Layout!Centred(p, v, cols) =
          CASE rule.kind = "pct" -> [g EXCEPT !.center = Layout!Minimum(g.center, target)]
          [] rule.kind = "min" -> g
          [] rule.kind = "max" -> [p EXCEPT !.center = Layout!Minimum(p.center, rule.val)]
          [] OTHER -> p
    BY DEF Layout!Centred
  <1> HIDE DEF target, g
  <1>5. CASE rule.kind = "pct"
    <2>1. Layout!Centred(p, v, cols) = [g EXCEPT !.center = Layout!Minimum(g.center, target)]
      BY <1>4, <1>5
    <2>2. Layout!Minimum(g.center, target) \in Nat /\ Layout!Minimum(g.center, target) <= g.center
      BY <1>2, <1>3 DEF Layout!Minimum
    <2> QED
      BY <2>1, <2>2, <1>3, <1>5 DEF Fitting
  <1>6. CASE rule.kind = "min"
    BY <1>3, <1>4, <1>6
  <1>7. CASE rule.kind = "max"
    <2>1. Layout!Centred(p, v, cols) = [p EXCEPT !.center = Layout!Minimum(p.center, rule.val)]
      BY <1>4, <1>7
    <2>2. /\ Layout!Minimum(p.center, rule.val) \in Nat
          /\ Layout!Minimum(p.center, rule.val) <= p.center
      BY <1>1 DEF Layout!Minimum
    <2> QED
      BY <2>1, <2>2, <1>7 DEF Fitting
  <1>8. CASE rule.kind = "off"
    <2>1. Layout!Centred(p, v, cols) = p
      BY <1>4, <1>8
    <2> QED
      BY <2>1
  <1> QED
    BY <1>1, <1>5, <1>6, <1>7, <1>8

\* The whole layout: whatever is set, the panels fit a terminal of 56 columns, the chat
\* has 30 columns on one of 66, and no width is negative.
THEOREM LayoutOfAnySettings ==
    ASSUME NEW v \in AnySettings, NEW cols \in Nat, cols >= 2
    PROVE  /\ Fitting(Layout!Layout(v, cols), cols)
           /\ (cols >= 66 /\ v.ruleCenter.kind \in {"off", "min"}) =>
                 Layout!Layout(v, cols).center >= 30
  <1> DEFINE q == Layout!Squeezed(Layout!BaseLeft(v, cols), Layout!BaseRight(v, cols), v, cols)
             p == Layout!Centred(q, v, cols)
             cap == IF v.mobile THEN cols - 2 ELSE 120
  <1>1. Layout!BaseLeft(v, cols) \in Nat /\ Layout!BaseRight(v, cols) \in Nat
    BY BaseNat
  <1>2. Fitting(q, cols) /\ (cols >= 66 => q.center >= 30)
    BY <1>1, SqueezedFits
  <1>3. q \in [left : Nat, right : Nat, center : Nat]
    BY <1>2 DEF Layout!Squeezed, Fitting
  <1> HIDE DEF q
  <1>4. /\ p \in [left : Nat, right : Nat, center : Nat]
        /\ Fitting(p, cols)
        /\ v.ruleCenter.kind \in {"off", "min"} => p.center >= q.center
    BY <1>2, <1>3, CentredFits
  <1>5. Layout!Layout(v, cols) = IF v.ruleCenter.kind = "pct" THEN p
                          ELSE [p EXCEPT !.center = Layout!Minimum(p.center, cap)]
    BY DEF Layout!Layout, q
  <1> HIDE DEF p
  <1>6. CASE v.ruleCenter.kind = "pct"
    BY <1>4, <1>5, <1>6
  <1>7. CASE v.ruleCenter.kind # "pct"
    <2>1. Layout!Layout(v, cols) = [p EXCEPT !.center = Layout!Minimum(p.center, cap)]
      BY <1>5, <1>7
    <2>2. Layout!Minimum(p.center, cap) \in Int /\ Layout!Minimum(p.center, cap) <= p.center
      BY <1>4 DEF Layout!Minimum, cap
    <2> QED
      BY <2>1, <2>2, <1>2, <1>4 DEF Fitting, Layout!Minimum, cap
  <1> QED
    BY <1>6, <1>7

-----------------------------------------------------------------------------
(* The settings the commands make. *)

\* The rules the commands make are rules.
LEMMA RulesTyped ==
    ASSUME Layout!LayoutAssumption
    PROVE  Layout!Off \in Layout!Rules /\ Layout!Rules \subseteq RuleType
  <1>1. \A kind \in {"min", "max", "pct"}, n \in RuleValues : Layout!Rule(kind, n) \in RuleType
    BY DEF Layout!LayoutAssumption, Layout!Rule, RuleType, Layout!Minimum
  <1> QED
    BY <1>1 DEF Layout!Rules, Layout!Off, RuleType

\* The settings the commands make are settings the layout is made for.
LEMMA SettingsTyped ==
    ASSUME Layout!LayoutAssumption
    PROVE  Layout!Settings \subseteq AnySettings
  <1>1. /\ PanelWidths \subseteq Int /\ Layout!Rules \subseteq RuleType /\ RowWidths \subseteq Nat
    BY RulesTyped DEF Layout!LayoutAssumption
  <1> HIDE DEF Layout!Rules, RuleType
  <1> QED
    BY <1>1 DEF Layout!Settings, AnySettings

\* A start has the widths left to the program and no rule.
LEMMA LayoutBegins == Layout!Init => Layout!TypeOK
<1> SUFFICES ASSUME Layout!Init PROVE Layout!TypeOK
  OBVIOUS
<1>1. /\ Layout!LayoutAssumption
      /\ RowWidths # {} /\ -1 \in PanelWidths
  BY UiAssumption DEF Layout!LayoutAssumption
<1>2. (CHOOSE w \in RowWidths : TRUE) \in RowWidths
  BY <1>1
<1> QED
  BY <1>1, <1>2, RulesTyped DEF Layout!Init, Layout!TypeOK, Layout!Settings

\* Every command leaves settings the layout is made for, whatever widths, rules and
\* contents are tried.
LEMMA LayoutStep ==
    ASSUME Layout!TypeOK, Layout!Next
    PROVE  Layout!TypeOK'
  <1>1. CASE \E w \in Widths : Layout!Resize(w)
      BY <1>1 DEF Layout!TypeOK, Layout!Resize
  <1>2. CASE Layout!PanelCmd
      <2> PICK w \in PanelWidths : s' = [s EXCEPT !.left = w] \/ s' = [s EXCEPT !.right = w]
        BY <1>2 DEF Layout!PanelCmd
      <2>1. [s EXCEPT !.left = w] \in Layout!Settings /\ [s EXCEPT !.right = w] \in Layout!Settings
        BY DEF Layout!TypeOK, Layout!Settings
      <2> QED
        BY <1>2, <2>1 DEF Layout!TypeOK, Layout!PanelCmd
  <1>3. CASE Layout!PanelRuleCmd
      <2> PICK rule \in Layout!Rules : \/ s' = [s EXCEPT !.ruleLeft = rule]
                                \/ s' = [s EXCEPT !.ruleCenter = rule]
                                \/ s' = [s EXCEPT !.ruleRight = rule]
        BY <1>3 DEF Layout!PanelRuleCmd
      <2>1. /\ [s EXCEPT !.ruleLeft = rule] \in Layout!Settings
            /\ [s EXCEPT !.ruleCenter = rule] \in Layout!Settings
            /\ [s EXCEPT !.ruleRight = rule] \in Layout!Settings
        BY DEF Layout!TypeOK, Layout!Settings
      <2> QED
        BY <1>3, <2>1 DEF Layout!TypeOK, Layout!PanelRuleCmd
  <1>4. CASE Layout!MembersCmd
      <2>1. /\ \A m \in 0..2 : [s EXCEPT !.mode = m] \in Layout!Settings
            /\ [s EXCEPT !.members = ~ @] \in Layout!Settings
            /\ [s EXCEPT !.auto = ~ @] \in Layout!Settings
        BY DEF Layout!TypeOK, Layout!Settings
      <2> QED
        BY <1>4, <2>1 DEF Layout!TypeOK, Layout!MembersCmd
  <1>5. CASE Layout!Contents
      <2> PICK few \in BOOLEAN, room \in RowWidths, member \in RowWidths :
            s' = [s EXCEPT !.few = few, !.longestRoom = room, !.longestMember = member]
        BY <1>5 DEF Layout!Contents
      <2> DEFINE s1 == [s EXCEPT !.few = few]
                 s2 == [s1 EXCEPT !.longestRoom = room]
                 s3 == [s2 EXCEPT !.longestMember = member]
      <2>1. s1 \in Layout!Settings
        BY DEF Layout!TypeOK, Layout!Settings
      <2>2. s2 \in Layout!Settings
        <3> HIDE DEF s1
        <3> QED
          BY <2>1 DEF Layout!Settings
      <2>3. s3 \in Layout!Settings
        <3> HIDE DEF s2
        <3> QED
          BY <2>2 DEF Layout!Settings
      <2>4. s' = s3
        BY Zenon
      <2> QED
        BY <1>5, <2>3, <2>4 DEF Layout!TypeOK, Layout!Contents
<1> QED
  BY <1>1, <1>2, <1>3, <1>4, <1>5 DEF Layout!Next

\* Settings like these make a layout that fits.
LEMMA LayoutOfItsSettings ==
    Layout!TypeOK => Layout!LayoutFits /\ Layout!ChatUsable /\ Layout!WidthsNatural
<1> SUFFICES ASSUME Layout!TypeOK
             PROVE  Layout!LayoutFits /\ Layout!ChatUsable /\ Layout!WidthsNatural
  OBVIOUS
<1>0. Layout!LayoutAssumption
  BY UiAssumption
<1>1. s \in AnySettings
  BY <1>0, SettingsTyped DEF Layout!TypeOK
<1>2. W \in Nat /\ W >= 2
  BY <1>0 DEF Layout!TypeOK, Layout!LayoutAssumption
<1>3. /\ Fitting(Layout!Now, W)
      /\ (W >= 66 /\ s.ruleCenter.kind \in {"off", "min"}) => Layout!Now.center >= 30
  BY <1>1, <1>2, LayoutOfAnySettings DEF Layout!Now
<1> QED
  BY <1>3 DEF Fitting, Layout!LayoutFits, Layout!ChatUsable, Layout!WidthsNatural

-----------------------------------------------------------------------------
(* Letters of a list of rows.  Wrap!Kept is a recursive function, so first: *)
(* there is exactly one such function, and one more row adds its letters.   *)

\* f grows by the letters of the first n rows of q.
Grows(q, n, f) == f[0] = 0 /\ \A i \in 1 .. n : f[i] = f[i - 1] + q[i].letters

\* f adds up the letters of the first n rows of q.
Adds(q, n, f) == f \in [0 .. n -> Nat] /\ Grows(q, n, f)

\* q and k begin with the same n rows.
SameRows(q, k, n) == \A i \in 1 .. n : q[i] = k[i]

\* The equation of the recursive function in Wrap!Kept.
IsSum(q, f) == f = [i \in 0 .. Len(q) |-> IF i = 0 THEN 0 ELSE f[i - 1] + q[i].letters]

\* The letters of q.
Letters(q) == (CHOOSE f : IsSum(q, f))[Len(q)]

\* A shorter sum is the start of a longer one, by least counterexample.
LEMMA SumsAgree ==
    ASSUME NEW q, NEW k, NEW n \in Nat, NEW f, NEW g,
           Grows(q, n, f), Grows(k, n, g), SameRows(q, k, n)
    PROVE  \A i \in 0 .. n : f[i] = g[i]
<1> DEFINE Bad == {i \in Nat : i <= n /\ f[i] # g[i]}
<1>1. ASSUME Bad # {} PROVE FALSE
  <2>1. PICK m \in Bad : \A y \in Bad : <<y, m>> \notin OpToRel(<, Nat)
    BY <1>1, NatLessThanWellFounded, WFMin
  <2>2. \A y \in Bad : ~(y < m)
    BY <2>1 DEF OpToRel
  <2>3. m \in 1 .. n /\ m - 1 \in Nat /\ m - 1 < m /\ m - 1 <= n
    BY DEF Grows
  <2>4. f[m - 1] = g[m - 1]
    BY <2>2, <2>3
  <2> QED
    BY <2>3, <2>4 DEF Grows, SameRows
<1> QED
  BY <1>1

\* The letters of the first rows of a list can be added up.
LEMMA SumExists ==
    ASSUME NEW q \in Seq(Wrap!Row)
    PROVE  \A n \in 0 .. Len(q) : \E f : Adds(q, n, f)
<1> DEFINE Bad == {n \in Nat : n <= Len(q) /\ ~ \E f : Adds(q, n, f)}
<1>1. ASSUME Bad # {} PROVE FALSE
  <2>1. PICK n \in Bad : \A y \in Bad : <<y, n>> \notin OpToRel(<, Nat)
    BY <1>1, NatLessThanWellFounded, WFMin
  <2>2. \A y \in Bad : ~(y < n)
    BY <2>1 DEF OpToRel
  <2>3. CASE n = 0
    <3>1. Adds(q, 0, [i \in 0 .. 0 |-> 0])
      BY DEF Adds, Grows
    <3> QED
      BY <2>3, <3>1
  <2>4. CASE n # 0
    <3>1. n - 1 \in Nat /\ n - 1 < n /\ n - 1 <= Len(q) /\ n \in 1 .. Len(q)
      BY <2>4
    <3>2. PICK f : Adds(q, n - 1, f)
      BY <2>2, <3>1
    <3>3. q[n].letters \in Nat
      <4>1. q[n] \in Wrap!Row
        BY <3>1
      <4> QED
        BY <4>1 DEF Wrap!Row
    <3> DEFINE g == [i \in 0 .. n |-> IF i = n THEN f[n - 1] + q[n].letters ELSE f[i]]
    <3>4. f[n - 1] \in Nat /\ \A i \in 0 .. n - 1 : f[i] \in Nat
      <4>1. f \in [0 .. n - 1 -> Nat]
        BY <3>2 DEF Adds, Grows
      <4>2. n - 1 \in 0 .. n - 1
        BY <3>1
      <4> QED
        BY <4>1, <4>2
    <3>5. g \in [0 .. n -> Nat]
      BY <3>1, <3>3, <3>4
    <3>6. g[0] = 0
      BY <3>1, <3>2 DEF Adds, Grows
    <3>7. \A i \in 1 .. n : g[i] = g[i - 1] + q[i].letters
      <4> TAKE i \in 1 .. n
      <4>1. i - 1 \in 0 .. n - 1 /\ i - 1 # n /\ g[i - 1] = f[i - 1]
        OBVIOUS
      <4>2. CASE i = n
        BY <4>1, <4>2
      <4>3. CASE i # n
        <5>1. i \in 1 .. n - 1
          BY <4>3
        <5>2. f[i] = f[i - 1] + q[i].letters
          BY <3>2, <5>1 DEF Adds, Grows
        <5> QED
          BY <4>1, <4>3, <5>2
      <4> QED
        BY <4>2, <4>3
    <3> HIDE DEF g
    <3> QED
      BY <3>5, <3>6, <3>7 DEF Adds, Grows
  <2> QED
    BY <2>3, <2>4
<1> QED
  BY <1>1

\* The recursive function of Wrap!Kept is that sum.
LEMMA LettersOf ==
    ASSUME NEW q \in Seq(Wrap!Row), NEW f, Adds(q, Len(q), f)
    PROVE  Letters(q) = f[Len(q)]
<1> DEFINE g == CHOOSE h : IsSum(q, h)
<1>0. Len(q) \in Nat
  OBVIOUS
<1>1. IsSum(q, f)
  <2>1. f = [i \in 0 .. Len(q) |-> f[i]]
    BY DEF Adds, Grows
  <2>2. \A i \in 0 .. Len(q) : f[i] = IF i = 0 THEN 0 ELSE f[i - 1] + q[i].letters
    BY DEF Adds, Grows
  <2> QED
    BY <2>1, <2>2, Zenon DEF IsSum
<1>2. IsSum(q, g)
  BY <1>1
<1>3. Letters(q) = g[Len(q)]
  BY DEF Letters
<1> HIDE DEF g
<1>4. Grows(q, Len(q), g)
  <2> DEFINE e == [i \in 0 .. Len(q) |-> IF i = 0 THEN 0 ELSE g[i - 1] + q[i].letters]
  <2>1. g = e
    BY <1>2 DEF IsSum
  <2>2. e[0] = 0 /\ \A i \in 1 .. Len(q) : e[i] = g[i - 1] + q[i].letters
    BY <1>0
  <2> HIDE DEF e
  <2> QED
    BY <2>1, <2>2 DEF Grows
<1>5. \A i \in 0 .. Len(q) : f[i] = g[i]
  <2>1. Grows(q, Len(q), f) /\ SameRows(q, q, Len(q))
    BY DEF Adds, SameRows
  <2> QED
    BY <1>0, <1>4, <2>1, SumsAgree
<1> QED
  BY <1>0, <1>3, <1>5

\* No rows, no letters; one more row, its letters more.
LEMMA LettersAdd ==
    /\ Letters(<<>>) = 0
    /\ \A q \in Seq(Wrap!Row) : Letters(q) \in Nat
    /\ \A q \in Seq(Wrap!Row), row \in Wrap!Row :
          Letters(Append(q, row)) = Letters(q) + row.letters
<1>1. Letters(<<>>) = 0
  <2> DEFINE k == <<>>
  <2>1. k \in Seq(Wrap!Row) /\ Len(k) = 0 /\ 0 \in 0 .. 0
    OBVIOUS
  <2> HIDE DEF k
  <2>2. PICK f : Adds(k, 0, f)
    BY <2>1, SumExists
  <2>3. Letters(k) = f[0]
    BY <2>1, <2>2, LettersOf
  <2>4. f[0] = 0
    BY <2>2 DEF Adds, Grows
  <2> QED
    BY <2>3, <2>4 DEF k
<1>2. ASSUME NEW q \in Seq(Wrap!Row) PROVE Letters(q) \in Nat
  <2>1. Len(q) \in Nat /\ Len(q) \in 0 .. Len(q)
    OBVIOUS
  <2>2. PICK f : Adds(q, Len(q), f)
    BY <2>1, SumExists
  <2>3. Letters(q) = f[Len(q)]
    BY <2>2, LettersOf
  <2>4. f \in [0 .. Len(q) -> Nat]
    BY <2>2 DEF Adds, Grows
  <2> QED
    BY <2>1, <2>3, <2>4
<1>3. ASSUME NEW q \in Seq(Wrap!Row), NEW row \in Wrap!Row
      PROVE  Letters(Append(q, row)) = Letters(q) + row.letters
  <2> DEFINE k == Append(q, row)
             n == Len(q)
  <2>1. /\ k \in Seq(Wrap!Row) /\ n \in Nat /\ Len(k) = n + 1
        /\ k[n + 1] = row /\ \A i \in 1 .. n : k[i] = q[i]
    OBVIOUS
  <2> HIDE DEF k
  <2>2. PICK f : Adds(q, n, f)
    <3>1. n \in 0 .. Len(q)
      OBVIOUS
    <3> QED
      BY <3>1, SumExists
  <2>3. PICK g : Adds(k, n + 1, g)
    <3>1. n + 1 \in 0 .. Len(k)
      BY <2>1
    <3> QED
      BY <2>1, <3>1, SumExists
  <2>4. \A i \in 0 .. n : f[i] = g[i]
    <3>1. Grows(q, n, f) /\ Grows(k, n, g) /\ SameRows(q, k, n)
      BY <2>1, <2>2, <2>3 DEF Adds, Grows, SameRows
    <3> HIDE DEF n
    <3> QED
      BY <2>1, <3>1, SumsAgree
  <2>5. g[n + 1] = g[n] + row.letters
    <3>1. n + 1 \in 1 .. n + 1 /\ (n + 1) - 1 = n
      BY <2>1
    <3> QED
      BY <2>1, <2>3, <3>1 DEF Adds, Grows
  <2>6. Letters(q) = f[n] /\ Letters(k) = g[n + 1]
    BY <2>1, <2>2, <2>3, LettersOf
  <2>7. f[n] = g[n]
    BY <2>1, <2>4
  <2> QED
    BY <2>5, <2>6, <2>7 DEF k
<1> QED
  BY <1>1, <1>2, <1>3

-----------------------------------------------------------------------------
(* The rows of a text. *)

\* Nothing in work, no letters in work.
NoLetters == /\ cur.n = 0 => cur.letters = 0
             /\ word.n = 0 => word.letters = 0

\* The letters are where they are counted, whatever the widths.
LettersInv == Wrap!TypeOK /\ NoLetters /\ Wrap!LettersKept /\ Wrap!WordsWhole

\* Wrap!LettersKept, with the letters of any list of rows.
LEMMA KeptIsLetters ==
    /\ Wrap!LettersKept <=> Letters(lines) + cur.letters + word.letters = read
    /\ Wrap!LettersKept' <=> Letters(lines') + cur'.letters + word'.letters = read'
  BY Zenon DEF Wrap!LettersKept, Wrap!Kept, Letters, IsSum

\* A row with a word after it has the letters of both.
LEMMA JoinedAdds ==
    ASSUME NEW row \in Wrap!Row, NEW w \in Wrap!Word
    PROVE  /\ Wrap!Joined(row, w) \in Wrap!Row
           /\ Wrap!Joined(row, w).letters = row.letters + w.letters
           /\ Wrap!Joined(row, w).n = 0 => row.n = 0 /\ w.n = 0
<1> DEFINE blank == IF row.n > 0 /\ ~ w.lead THEN 1 ELSE 0
           j == [n |-> row.n + blank + w.n, cells |-> row.cells + blank + w.cells,
                 letters |-> row.letters + w.letters]
<1>1. Wrap!Joined(row, w) = j
  BY DEF Wrap!Joined
<1>2. blank \in Nat
  OBVIOUS
<1> HIDE DEF blank
<1>3. /\ row.n \in Nat /\ row.cells \in Nat /\ row.letters \in Nat
      /\ w.n \in Nat /\ w.cells \in Nat /\ w.letters \in Nat
  BY DEF Wrap!Row, Wrap!Word
<1>4. j \in Wrap!Row
  BY <1>2, <1>3 DEF Wrap!Row
<1> QED
  BY <1>1, <1>2, <1>3, <1>4

\* Nothing in work is typed and holds nothing.
LEMMA Nothings ==
    /\ Wrap!NoRow \in Wrap!Row /\ Wrap!NoRow.n = 0 /\ Wrap!NoRow.letters = 0
    /\ Wrap!NoRow.cells = 0
    /\ Wrap!NoWord \in Wrap!Word /\ Wrap!NoWord.letters = 0 /\ Wrap!NoWord.cells = 0
    /\ Wrap!Blank \in Wrap!Word /\ Wrap!Blank.letters = 0 /\ Wrap!Blank.cells = 1
    /\ Wrap!Blank.n = 1
  BY DEF Wrap!NoRow, Wrap!NoWord, Wrap!Blank, Wrap!Row, Wrap!Word

\* A flush loses no letter.
LEMMA FlushKeeps ==
    ASSUME NEW done \in Seq(Wrap!Row), NEW row \in Wrap!Row, NEW w \in Wrap!Word,
           row.n = 0 => row.letters = 0, w.n = 0 => w.letters = 0
    PROVE  LET f == Wrap!FlushWord(done, row, w)
           IN  /\ f.lines \in Seq(Wrap!Row) /\ f.cur \in Wrap!Row
               /\ f.cur.n = 0 => f.cur.letters = 0
               /\ Letters(f.lines) + f.cur.letters
                  = Letters(done) + row.letters + w.letters
<1> DEFINE f == Wrap!FlushWord(done, row, w)
<1>0. /\ row.letters \in Nat /\ w.letters \in Nat /\ row.n \in Nat /\ w.n \in Nat
      /\ Letters(done) \in Nat
  BY LettersAdd DEF Wrap!Row, Wrap!Word
<1>1. CASE w.n = 0
  <2>1. f = [lines |-> done, cur |-> row]
    BY <1>1 DEF Wrap!FlushWord
  <2> QED
    BY <1>0, <1>1, <2>1
<1>2. CASE w.n # 0 /\ Wrap!Overflows(done, row, w)
  <2>1. f = [lines |-> Append(done, row), cur |-> Wrap!Joined(Wrap!NoRow, w)]
    BY <1>2 DEF Wrap!FlushWord
  <2>2. /\ Wrap!Joined(Wrap!NoRow, w) \in Wrap!Row
        /\ Wrap!Joined(Wrap!NoRow, w).letters = Wrap!NoRow.letters + w.letters
        /\ Wrap!Joined(Wrap!NoRow, w).n # 0
    BY <1>2, Nothings, JoinedAdds
  <2>3. Letters(Append(done, row)) = Letters(done) + row.letters
    BY LettersAdd
  <2>4. Append(done, row) \in Seq(Wrap!Row)
    OBVIOUS
  <2>5. /\ f.lines = Append(done, row)
        /\ f.cur = Wrap!Joined(Wrap!NoRow, w)
    BY <2>1
  <2> QED
    BY <1>0, <2>2, <2>3, <2>4, <2>5, Nothings
<1>3. CASE w.n # 0 /\ ~ Wrap!Overflows(done, row, w)
  <2>1. f = [lines |-> done, cur |-> Wrap!Joined(row, w)]
    BY <1>3 DEF Wrap!FlushWord
  <2>2. /\ Wrap!Joined(row, w) \in Wrap!Row
        /\ Wrap!Joined(row, w).letters = row.letters + w.letters
        /\ Wrap!Joined(row, w).n # 0
    BY <1>3, JoinedAdds
  <2>3. f.lines = done /\ f.cur = Wrap!Joined(row, w)
    BY <2>1
  <2>4. Letters(done) + (row.letters + w.letters) = Letters(done) + row.letters + w.letters
    BY <1>0
  <2>5. Letters(f.lines) + f.cur.letters = Letters(done) + (row.letters + w.letters)
    BY <2>2, <2>3
  <2> QED
    BY <2>2, <2>3, <2>4, <2>5
<1> QED
  BY <1>1, <1>2, <1>3

\* Nor does a push.
LEMMA PushKeeps ==
    ASSUME NEW f, f.lines \in Seq(Wrap!Row), f.cur \in Wrap!Row,
           f.cur.n = 0 => f.cur.letters = 0
    PROVE  /\ Wrap!Push(f) \in Seq(Wrap!Row)
           /\ Letters(Wrap!Push(f)) = Letters(f.lines) + f.cur.letters
<1>0. f.cur.n \in Nat /\ f.cur.letters \in Nat /\ Letters(f.lines) \in Nat
  BY LettersAdd DEF Wrap!Row
<1>1. CASE f.cur.n > 0
  <2>1. Wrap!Push(f) = Append(f.lines, f.cur)
    BY <1>1 DEF Wrap!Push
  <2>2. Letters(Append(f.lines, f.cur)) = Letters(f.lines) + f.cur.letters
    BY LettersAdd
  <2> QED
    BY <2>1, <2>2
<1>2. CASE ~ f.cur.n > 0
  <2>1. Wrap!Push(f) = f.lines
    BY <1>2 DEF Wrap!Push
  <2> QED
    BY <1>0, <1>2, <2>1
<1> QED
  BY <1>1, <1>2

\* The word with one more letter.
LEMMA LongerWord ==
    ASSUME NEW w \in Wrap!Word, NEW c \in {1, 2}
    PROVE  LET longer == [w EXCEPT !.n = @ + 1, !.cells = @ + c, !.letters = @ + 1]
           IN  /\ longer \in Wrap!Word /\ longer.n = w.n + 1
               /\ longer.cells = w.cells + c /\ longer.letters = w.letters + 1
<1> DEFINE longer == [w EXCEPT !.n = @ + 1, !.cells = @ + c, !.letters = @ + 1]
<1>0. c \in Nat
  OBVIOUS
<1> DEFINE w1 == [w EXCEPT !.n = @ + 1]
           w2 == [w1 EXCEPT !.cells = @ + c]
           w3 == [w2 EXCEPT !.letters = @ + 1]
<1>1. w1 \in Wrap!Word /\ w1.n = w.n + 1 /\ w1.cells = w.cells /\ w1.letters = w.letters
  BY DEF Wrap!Word
<1>2. w2 \in Wrap!Word /\ w2.n = w.n + 1 /\ w2.cells = w.cells + c /\ w2.letters = w.letters
  <2> HIDE DEF w1
  <2> QED
    BY <1>0, <1>1 DEF Wrap!Word
<1>3. /\ w3 \in Wrap!Word /\ w3.n = w.n + 1 /\ w3.cells = w.cells + c
      /\ w3.letters = w.letters + 1
  <2> HIDE DEF w2
  <2> QED
    BY <1>2 DEF Wrap!Word
<1>4. longer = w3
  BY Zenon
<1> QED
  BY <1>3, <1>4

\* A text begins with no rows.
LEMMA WrapBegins ==
    ASSUME Wrap!Init
    PROVE  LettersInv /\ Wrap!RowsFit
<1>1. /\ lines = <<>> /\ cur = Wrap!NoRow /\ word = Wrap!NoWord
      /\ read = 0 /\ length = 0 /\ split = FALSE
  BY DEF Wrap!Init
<1>2. lines \in Seq(Wrap!Row) /\ DOMAIN lines = {}
  BY <1>1
<1>3. Wrap!TypeOK
  BY <1>1, <1>2, Nothings DEF Wrap!TypeOK
<1>4. NoLetters
  BY <1>1, Nothings DEF NoLetters
<1>5. Wrap!LettersKept
  <2>1. Letters(lines) = 0 /\ cur.letters = 0 /\ word.letters = 0 /\ read = 0
    BY <1>1, Nothings, LettersAdd
  <2> QED
    BY <2>1, KeptIsLetters
<1>6. Wrap!WordsWhole
  BY <1>1 DEF Wrap!WordsWhole
<1>7. Wrap!RowsFit
  BY <1>2 DEF Wrap!RowsFit
<1> QED
  BY <1>3, <1>4, <1>5, <1>6, <1>7 DEF LettersInv

\* What the invariant says, unfolded.
LEMMA LettersFacts ==
    ASSUME LettersInv
    PROVE  /\ lines \in Seq(Wrap!Row) /\ cur \in Wrap!Row /\ word \in Wrap!Word
           /\ read \in Nat /\ length \in Nat /\ split \in BOOLEAN
           /\ cur.letters \in Nat /\ word.letters \in Nat /\ word.cells \in Nat
           /\ word.n \in Nat /\ cur.n \in Nat /\ Letters(lines) \in Nat
           /\ (cur.n = 0 => cur.letters = 0) /\ (word.n = 0 => word.letters = 0)
           /\ Letters(lines) + cur.letters + word.letters = read
<1>1. /\ lines \in Seq(Wrap!Row) /\ cur \in Wrap!Row /\ word \in Wrap!Word
      /\ read \in Nat /\ length \in Nat /\ split \in BOOLEAN
  BY DEF LettersInv, Wrap!TypeOK
<1>2. /\ cur.letters \in Nat /\ word.letters \in Nat /\ word.cells \in Nat
      /\ word.n \in Nat /\ cur.n \in Nat /\ Letters(lines) \in Nat
  BY <1>1, LettersAdd DEF Wrap!Row, Wrap!Word
<1>3. (cur.n = 0 => cur.letters = 0) /\ (word.n = 0 => word.letters = 0)
  BY DEF LettersInv, NoLetters
<1>4. Letters(lines) + cur.letters + word.letters = read
  BY KeptIsLetters DEF LettersInv
<1> QED
  BY <1>1, <1>2, <1>3, <1>4

\* The invariant of the next state, from its parts.
LEMMA LettersNext ==
    ASSUME lines' \in Seq(Wrap!Row), cur' \in Wrap!Row, word' \in Wrap!Word,
           read' \in Nat, length' \in Nat, split' \in BOOLEAN,
           cur'.n = 0 => cur'.letters = 0, word'.n = 0 => word'.letters = 0,
           Letters(lines') + cur'.letters + word'.letters = read',
           Wrap!WordsWhole'
    PROVE  LettersInv'
<1>1. Wrap!TypeOK'
  BY Zenon DEF Wrap!TypeOK
<1>2. NoLetters'
  BY DEF NoLetters
<1>3. Wrap!LettersKept'
  BY KeptIsLetters
<1> QED
  BY <1>1, <1>2, <1>3 DEF LettersInv

\* One more letter: it is in the word in work, or in the rows the full word ends.
LEMMA LetterStays ==
    ASSUME LettersInv, NEW c \in {1, 2}, Wrap!Letter(c)
    PROVE  LettersInv'
<1>0. /\ lines \in Seq(Wrap!Row) /\ cur \in Wrap!Row /\ word \in Wrap!Word
      /\ read \in Nat /\ length \in Nat /\ split \in BOOLEAN
      /\ cur.letters \in Nat /\ word.letters \in Nat /\ word.cells \in Nat
      /\ word.n \in Nat /\ cur.n \in Nat /\ Letters(lines) \in Nat
      /\ (cur.n = 0 => cur.letters = 0) /\ (word.n = 0 => word.letters = 0)
      /\ Letters(lines) + cur.letters + word.letters = read
  BY LettersFacts
<1> DEFINE longer == [word EXCEPT !.n = @ + 1, !.cells = @ + c, !.letters = @ + 1]
           f == Wrap!FlushWord(lines, cur, longer)
<1>1. /\ longer \in Wrap!Word /\ longer.n = word.n + 1
      /\ longer.cells = word.cells + c /\ longer.letters = word.letters + 1
  BY <1>0, LongerWord
<1>2. /\ read' = read + 1 /\ length' = length + 1
      /\ IF longer.cells >= Wrap!LineWidth(lines)
         THEN /\ lines' = Wrap!Push(f) /\ cur' = Wrap!NoRow /\ word' = Wrap!NoWord
              /\ split' = (split \/ longer.cells < Width)
         ELSE word' = longer /\ UNCHANGED <<lines, cur, split>>
  BY DEF Wrap!Letter, Wrap!More
<1> HIDE DEF longer
<1>3. longer.n # 0 /\ longer.letters \in Nat /\ longer.cells \in Nat
  <2>1. longer.letters \in Nat /\ longer.cells \in Nat
    BY <1>1 DEF Wrap!Word
  <2>2. word.n \in Nat /\ longer.n = word.n + 1
    BY <1>0, <1>1
  <2> QED
    BY <2>1, <2>2
<1>9. /\ read' = read + 1 /\ longer.letters = word.letters + 1
      /\ Letters(lines) \in Nat /\ cur.letters \in Nat /\ word.letters \in Nat
      /\ read \in Nat /\ Letters(lines) + cur.letters + word.letters = read
  BY <1>0, <1>1, <1>2
<1>4. read' \in Nat /\ length' \in Nat
  BY <1>0, <1>2
<1>5. CASE longer.cells >= Wrap!LineWidth(lines)
  <2>1. /\ lines' = Wrap!Push(f) /\ cur' = Wrap!NoRow /\ word' = Wrap!NoWord
        /\ split' = (split \/ longer.cells < Width)
    BY <1>2, <1>5
  <2>2. /\ f.lines \in Seq(Wrap!Row) /\ f.cur \in Wrap!Row
        /\ f.cur.n = 0 => f.cur.letters = 0
        /\ Letters(f.lines) + f.cur.letters
           = Letters(lines) + cur.letters + longer.letters
    BY <1>0, <1>1, <1>3, FlushKeeps
  <2> HIDE DEF f
  <2>3. /\ Wrap!Push(f) \in Seq(Wrap!Row)
        /\ Letters(Wrap!Push(f)) = Letters(f.lines) + f.cur.letters
    BY <2>2, PushKeeps
  <2>4. Letters(lines') + cur'.letters + word'.letters = read'
    <3>1. Letters(lines') = Letters(lines) + cur.letters + longer.letters
      BY <2>1, <2>2, <2>3
    <3>2. cur'.letters = 0 /\ word'.letters = 0
      BY <2>1, Nothings
    <3> QED
      BY <1>9, <3>1, <3>2
  <2>5. Wrap!WordsWhole'
    <3>1. First >= Width => ~ (longer.cells < Width)
      <4>1. First \in Nat /\ Width \in Nat
        BY UiAssumption DEF Wrap!WrapAssumption
      <4> QED
        BY <1>3, <1>5, <4>1 DEF Wrap!LineWidth
    <3>2. First >= Width => ~ split
      BY DEF LettersInv, Wrap!WordsWhole
    <3> QED
      BY <2>1, <3>1, <3>2, Zenon DEF Wrap!WordsWhole
  <2>6. split' \in BOOLEAN
    BY <2>1, Zenon
  <2>7. lines' \in Seq(Wrap!Row) /\ cur' \in Wrap!Row /\ word' \in Wrap!Word
    BY <2>1, <2>3, Nothings
  <2>8. (cur'.n = 0 => cur'.letters = 0) /\ (word'.n = 0 => word'.letters = 0)
    BY <2>1, Nothings
  <2> QED
    BY <1>4, <2>4, <2>5, <2>6, <2>7, <2>8, LettersNext
<1>6. CASE ~ longer.cells >= Wrap!LineWidth(lines)
  <2>1. word' = longer /\ lines' = lines /\ cur' = cur /\ split' = split
    BY <1>2, <1>6
  <2>2. Letters(lines') + cur'.letters + word'.letters = read'
    <3>1. /\ Letters(lines') = Letters(lines) /\ cur'.letters = cur.letters
          /\ word'.letters = word.letters + 1
      BY <1>9, <2>1
    <3> QED
      BY <1>9, <3>1
  <2>3. Wrap!WordsWhole'
    BY <2>1 DEF LettersInv, Wrap!WordsWhole
  <2>4. (cur'.n = 0 => cur'.letters = 0) /\ (word'.n = 0 => word'.letters = 0)
    BY <1>0, <1>3, <2>1
  <2>5. lines' \in Seq(Wrap!Row) /\ cur' \in Wrap!Row /\ word' \in Wrap!Word
    BY <1>0, <1>1, <2>1
  <2>6. split' \in BOOLEAN
    BY <1>0, <2>1
  <2> QED
    BY <1>4, <2>2, <2>3, <2>4, <2>5, <2>6, LettersNext
<1> QED
  BY <1>5, <1>6

\* What a blank and a line break do, without their conditions.
LEMMA SpaceOrBreak ==
    ASSUME Wrap!Space \/ Wrap!Break
    PROVE  LET f == Wrap!FlushWord(lines, cur, word)
           IN  /\ length' = length + 1 /\ read' = read /\ split' = split
               /\ \/ lines' = Wrap!Push(f) /\ cur' = Wrap!NoRow /\ word' = Wrap!NoWord
                  \/ lines' = f.lines /\ cur' = f.cur /\ word' = Wrap!Blank
                  \/ /\ cur.n = 0 /\ word.n = 0
                     /\ lines' = lines /\ cur' = cur /\ word' = Wrap!Blank
<1> DEFINE f == Wrap!FlushWord(lines, cur, word)
<1>1. CASE Wrap!Space
  BY <1>1 DEF Wrap!Space, Wrap!More
<1>2. CASE Wrap!Break
  BY <1>2 DEF Wrap!Break, Wrap!More
<1> QED
  BY <1>1, <1>2

\* A blank or a line break moves letters between the word, the row and the rows.
LEMMA SpaceStays ==
    ASSUME LettersInv, Wrap!Space \/ Wrap!Break
    PROVE  LettersInv'
<1>0. /\ lines \in Seq(Wrap!Row) /\ cur \in Wrap!Row /\ word \in Wrap!Word
      /\ read \in Nat /\ length \in Nat /\ split \in BOOLEAN
      /\ cur.letters \in Nat /\ word.letters \in Nat /\ word.cells \in Nat
      /\ word.n \in Nat /\ cur.n \in Nat /\ Letters(lines) \in Nat
      /\ (cur.n = 0 => cur.letters = 0) /\ (word.n = 0 => word.letters = 0)
      /\ Letters(lines) + cur.letters + word.letters = read
  BY LettersFacts
<1> DEFINE f == Wrap!FlushWord(lines, cur, word)
<1>1. /\ length' = length + 1 /\ read' = read /\ split' = split
      /\ \/ lines' = Wrap!Push(f) /\ cur' = Wrap!NoRow /\ word' = Wrap!NoWord
         \/ lines' = f.lines /\ cur' = f.cur /\ word' = Wrap!Blank
         \/ /\ cur.n = 0 /\ word.n = 0
            /\ lines' = lines /\ cur' = cur /\ word' = Wrap!Blank
  BY SpaceOrBreak
<1>2. /\ f.lines \in Seq(Wrap!Row) /\ f.cur \in Wrap!Row
      /\ f.cur.n = 0 => f.cur.letters = 0
      /\ Letters(f.lines) + f.cur.letters = Letters(lines) + cur.letters + word.letters
  BY <1>0, FlushKeeps
<1> HIDE DEF f
<1>3. /\ Wrap!Push(f) \in Seq(Wrap!Row)
      /\ Letters(Wrap!Push(f)) = Letters(f.lines) + f.cur.letters
  BY <1>2, PushKeeps
<1>4. read' \in Nat /\ length' \in Nat
  BY <1>0, <1>1
<1>5. split' \in BOOLEAN
  BY <1>0, <1>1
<1>6. Wrap!WordsWhole'
  BY <1>1 DEF LettersInv, Wrap!WordsWhole
<1>7. lines' \in Seq(Wrap!Row) /\ cur' \in Wrap!Row /\ word' \in Wrap!Word
  BY <1>0, <1>1, <1>2, <1>3, Nothings
<1>8. (cur'.n = 0 => cur'.letters = 0) /\ (word'.n = 0 => word'.letters = 0)
  BY <1>0, <1>1, <1>2, Nothings
<1>9. Letters(lines') + cur'.letters + word'.letters = read'
  <2>1. f.cur.letters \in Nat /\ Letters(f.lines) \in Nat
    BY <1>2, LettersAdd DEF Wrap!Row
  <2>2. CASE lines' = Wrap!Push(f) /\ cur' = Wrap!NoRow /\ word' = Wrap!NoWord
    BY <1>0, <1>1, <1>2, <1>3, <2>1, <2>2, Nothings
  <2>3. CASE lines' = f.lines /\ cur' = f.cur /\ word' = Wrap!Blank
    BY <1>0, <1>1, <1>2, <2>1, <2>3, Nothings
  <2>4. CASE cur.n = 0 /\ word.n = 0 /\ lines' = lines /\ cur' = cur /\ word' = Wrap!Blank
    BY <1>0, <1>1, <2>4, Nothings
  <2> QED
    BY <1>1, <2>2, <2>3, <2>4
<1> QED
  BY <1>4, <1>5, <1>6, <1>7, <1>8, <1>9, LettersNext

\* A colour is no letter.
LEMMA ColourStays ==
    ASSUME LettersInv, Wrap!Escape
    PROVE  LettersInv'
<1>0. /\ lines \in Seq(Wrap!Row) /\ cur \in Wrap!Row /\ word \in Wrap!Word
      /\ read \in Nat /\ length \in Nat /\ split \in BOOLEAN
      /\ cur.letters \in Nat /\ word.letters \in Nat
      /\ word.n \in Nat /\ cur.n \in Nat /\ Letters(lines) \in Nat
      /\ (cur.n = 0 => cur.letters = 0) /\ (word.n = 0 => word.letters = 0)
      /\ Letters(lines) + cur.letters + word.letters = read
  BY LettersFacts
<1> DEFINE longer == [word EXCEPT !.n = @ + 1]
<1>9. longer \in Wrap!Word /\ longer.letters = word.letters /\ longer.n = word.n + 1
  BY <1>0, SMTT(30) DEF Wrap!Word
<1>1. /\ longer \in Wrap!Word /\ longer.letters = word.letters /\ longer.n # 0
  <2> HIDE DEF longer
  <2> QED
    BY <1>0, <1>9
<1>2. /\ word' = longer /\ length' = length + 1
      /\ lines' = lines /\ cur' = cur /\ read' = read /\ split' = split
  BY DEF Wrap!Escape, Wrap!More
<1> HIDE DEF longer
<1>3. Wrap!WordsWhole'
  BY <1>2 DEF LettersInv, Wrap!WordsWhole
<1>4. Letters(lines') + cur'.letters + word'.letters = read'
  BY <1>0, <1>1, <1>2
<1>5. lines' \in Seq(Wrap!Row) /\ cur' \in Wrap!Row /\ word' \in Wrap!Word
  BY <1>0, <1>1, <1>2
<1>6. read' \in Nat /\ length' \in Nat
  BY <1>0, <1>2
<1>7. (cur'.n = 0 => cur'.letters = 0) /\ (word'.n = 0 => word'.letters = 0)
  BY <1>0, <1>1, <1>2
<1>8. split' \in BOOLEAN
  BY <1>0, <1>2
<1> QED
  BY <1>3, <1>4, <1>5, <1>6, <1>7, <1>8, LettersNext

\* Every step keeps every letter.
LEMMA WrapStep ==
    ASSUME LettersInv, Wrap!Next
    PROVE  LettersInv'
  BY LetterStays, SpaceStays, ColourStays DEF Wrap!Next

-----------------------------------------------------------------------------
(* The widths of the rows. *)

\* A row that may be finished as it is.
Good(row) == row \in Wrap!Row /\ row.cells <= Wrap!Wider + 1


\* Neither the row in work nor the word in work has outgrown the wider row.
Narrow == /\ cur.cells <= Wrap!Wider /\ word.cells <= Wrap!Wider - 1
          /\ cur.n = 0 => cur.cells = 0

\* What is finished fits, and what is in work will.
RowsInv == Wrap!RowsFit /\ Narrow

\* Every row may be as wide as the wider row.
LEMMA WiderTyped ==
    /\ Wrap!Wider \in Nat
    /\ \A done : Wrap!LineWidth(done) \in Nat /\ Wrap!LineWidth(done) <= Wrap!Wider
  BY UiAssumption DEF Wrap!WrapAssumption, Wrap!Wider, Wrap!LineWidth

\* The rows so far, with one more good row that is not empty.
LEMMA AppendFits ==
    ASSUME NEW done \in Seq(Wrap!Row), NEW row, Good(row), row.n > 0,
           \A i \in DOMAIN done : done[i].n > 0 /\ done[i].cells <= Wrap!Wider + 1
    PROVE  /\ Append(done, row) \in Seq(Wrap!Row)
           /\ \A i \in DOMAIN Append(done, row) :
                 Append(done, row)[i].n > 0 /\ Append(done, row)[i].cells <= Wrap!Wider + 1
  BY DEF Good

\* What a flush leaves: good rows, and a row in work that is at most as wide as the word
\* or the wider row.
LEMMA FlushFits ==
    ASSUME NEW done \in Seq(Wrap!Row), NEW row \in Wrap!Row, NEW w \in Wrap!Word,
           row.cells <= Wrap!Wider, row.n = 0 => row.cells = 0,
           \A i \in DOMAIN done : done[i].n > 0 /\ done[i].cells <= Wrap!Wider + 1
    PROVE  LET f == Wrap!FlushWord(done, row, w)
           IN  /\ f.lines \in Seq(Wrap!Row) /\ f.cur \in Wrap!Row
               /\ \A i \in DOMAIN f.lines : f.lines[i].n > 0 /\ f.lines[i].cells <= Wrap!Wider + 1
               /\ f.cur.cells <= Wrap!Wider \/ f.cur.cells <= w.cells
               /\ f.cur.n = 0 => f.cur.cells = 0
  <1>1. Wrap!Joined(row, w) \in Wrap!Row /\ Wrap!Joined(Wrap!NoRow, w) \in Wrap!Row
    <2>1. Wrap!NoRow \in Wrap!Row
      BY DEF Wrap!NoRow, Wrap!Row
    <2>2. \A r \in Wrap!Row : Wrap!Joined(r, w) \in Wrap!Row
      BY SMTT(30) DEF Wrap!Joined, Wrap!Row, Wrap!Word
    <2> QED
      BY <2>1, <2>2
  <1>5. w.n # 0 => Wrap!Joined(row, w).n # 0 /\ Wrap!Joined(Wrap!NoRow, w).n # 0
    BY DEF Wrap!Joined, Wrap!Row, Wrap!Word, Wrap!NoRow
  <1>2. CASE w.n = 0
    BY <1>2 DEF Wrap!FlushWord
  <1>3. CASE w.n # 0 /\ Wrap!Overflows(done, row, w)
    <2>1. Wrap!FlushWord(done, row, w) =
             [lines |-> Append(done, row), cur |-> Wrap!Joined(Wrap!NoRow, w)]
      BY <1>3 DEF Wrap!FlushWord
    <2>2. row.n > 0 /\ Good(row)
      BY <1>3, WiderTyped DEF Wrap!Overflows, Good, Wrap!Row
    <2>3. Wrap!Joined(Wrap!NoRow, w).cells <= w.cells
      BY DEF Wrap!Joined, Wrap!NoRow, Wrap!Word
    <2> QED
      BY <1>1, <1>3, <1>5, <2>1, <2>2, <2>3, AppendFits
  <1>4. CASE w.n # 0 /\ ~ Wrap!Overflows(done, row, w)
    <2>1. Wrap!FlushWord(done, row, w) = [lines |-> done, cur |-> Wrap!Joined(row, w)]
      BY <1>4 DEF Wrap!FlushWord
    <2>2. CASE row.n > 0
      <3>1. Wrap!Joined(row, w).cells <= Wrap!LineWidth(done)
        BY <1>4, <2>2, WiderTyped DEF Wrap!Overflows, Wrap!Joined, Wrap!Row, Wrap!Word
      <3> QED
        BY <1>1, <1>4, <1>5, <2>1, <3>1, WiderTyped DEF Wrap!Row
    <2>3. CASE ~ row.n > 0
      <3>1. Wrap!Joined(row, w).cells = w.cells
        BY <2>3 DEF Wrap!Joined, Wrap!Row, Wrap!Word
      <3> QED
        BY <1>1, <1>4, <1>5, <2>1, <3>1 DEF Wrap!Word
    <2> QED
      BY <2>2, <2>3
  <1> QED
    BY <1>2, <1>3, <1>4

\* The row in work, pushed behind them when there is one.
LEMMA PushFits ==
    ASSUME NEW f, f.lines \in Seq(Wrap!Row), f.cur \in Wrap!Row, f.cur.cells <= Wrap!Wider + 1,
           \A i \in DOMAIN f.lines : f.lines[i].n > 0 /\ f.lines[i].cells <= Wrap!Wider + 1
    PROVE  /\ Wrap!Push(f) \in Seq(Wrap!Row)
           /\ \A i \in DOMAIN Wrap!Push(f) :
                 Wrap!Push(f)[i].n > 0 /\ Wrap!Push(f)[i].cells <= Wrap!Wider + 1
  <1>1. CASE f.cur.n > 0
    BY <1>1, AppendFits DEF Wrap!Push, Good
  <1>2. CASE ~ f.cur.n > 0
    BY <1>2 DEF Wrap!Push
  <1> QED
    BY <1>1, <1>2


\* A text begins with nothing in work.
LEMMA RowsBegin ==
    ASSUME Wrap!Init, Wrap!Wider >= 2
    PROVE  RowsInv
<1>1. cur = Wrap!NoRow /\ word = Wrap!NoWord
  BY DEF Wrap!Init
<1>2. Narrow
  BY <1>1, Nothings, WiderTyped DEF Narrow
<1> QED
  BY <1>2, WrapBegins DEF RowsInv

\* What the invariant says, unfolded.
LEMMA RowsFacts ==
    ASSUME LettersInv, RowsInv, Wrap!Wider >= 2
    PROVE  /\ lines \in Seq(Wrap!Row) /\ cur \in Wrap!Row /\ word \in Wrap!Word
           /\ cur.cells \in Nat /\ word.cells \in Nat
           /\ \A i \in DOMAIN lines : lines[i].n > 0 /\ lines[i].cells <= Wrap!Wider + 1
           /\ cur.cells <= Wrap!Wider /\ word.cells <= Wrap!Wider - 1
           /\ (cur.n = 0 => cur.cells = 0)
           /\ Wrap!Wider \in Nat /\ Wrap!Wider >= 2
<1>1. lines \in Seq(Wrap!Row) /\ cur \in Wrap!Row /\ word \in Wrap!Word
  BY LettersFacts
<1>2. cur.cells \in Nat /\ word.cells \in Nat
  BY <1>1 DEF Wrap!Row, Wrap!Word
<1> QED
  BY <1>1, <1>2, WiderTyped DEF RowsInv, Wrap!RowsFit, Narrow

\* The wider row stays the wider row.
LEMMA RowsNext ==
    ASSUME \A i \in DOMAIN lines' : lines'[i].n > 0 /\ lines'[i].cells <= Wrap!Wider + 1,
           cur'.cells <= Wrap!Wider, word'.cells <= Wrap!Wider - 1,
           cur'.n = 0 => cur'.cells = 0
    PROVE  RowsInv'
  BY DEF RowsInv, Wrap!RowsFit, Narrow, Wrap!Wider

\* A letter is at most half too wide.
LEMMA LetterFits ==
    ASSUME LettersInv, RowsInv, Wrap!Wider >= 2, NEW c \in {1, 2}, Wrap!Letter(c)
    PROVE  RowsInv'
<1>0. /\ lines \in Seq(Wrap!Row) /\ cur \in Wrap!Row /\ word \in Wrap!Word
      /\ cur.cells \in Nat /\ word.cells \in Nat
      /\ \A i \in DOMAIN lines : lines[i].n > 0 /\ lines[i].cells <= Wrap!Wider + 1
      /\ cur.cells <= Wrap!Wider /\ word.cells <= Wrap!Wider - 1
      /\ (cur.n = 0 => cur.cells = 0)
      /\ Wrap!Wider \in Nat /\ Wrap!Wider >= 2
  BY RowsFacts
<1> DEFINE longer == [word EXCEPT !.n = @ + 1, !.cells = @ + c, !.letters = @ + 1]
           f == Wrap!FlushWord(lines, cur, longer)
<1>1. longer \in Wrap!Word /\ longer.cells = word.cells + c
  BY <1>0, LongerWord
<1>2. \/ /\ longer.cells >= Wrap!LineWidth(lines)
         /\ lines' = Wrap!Push(f) /\ cur' = Wrap!NoRow /\ word' = Wrap!NoWord
      \/ /\ ~ longer.cells >= Wrap!LineWidth(lines)
         /\ word' = longer /\ lines' = lines /\ cur' = cur
  BY DEF Wrap!Letter
<1> HIDE DEF longer
<1>3. longer.cells \in Nat /\ longer.cells <= Wrap!Wider + 1
  <2>1. c \in Nat /\ c <= 2
    OBVIOUS
  <2> QED
    BY <1>0, <1>1, <2>1
<1>4. CASE lines' = Wrap!Push(f) /\ cur' = Wrap!NoRow /\ word' = Wrap!NoWord
  <2>1. /\ f.lines \in Seq(Wrap!Row) /\ f.cur \in Wrap!Row
        /\ \A i \in DOMAIN f.lines : f.lines[i].n > 0 /\ f.lines[i].cells <= Wrap!Wider + 1
        /\ f.cur.cells <= Wrap!Wider \/ f.cur.cells <= longer.cells
    BY <1>0, <1>1, FlushFits
  <2> HIDE DEF f
  <2>2. f.cur.cells <= Wrap!Wider + 1
    <3>1. f.cur.cells \in Nat
      BY <2>1 DEF Wrap!Row
    <3> QED
      BY <1>0, <1>3, <2>1, <3>1
  <2>3. \A i \in DOMAIN Wrap!Push(f) :
           Wrap!Push(f)[i].n > 0 /\ Wrap!Push(f)[i].cells <= Wrap!Wider + 1
    BY <2>1, <2>2, PushFits
  <2>4. cur'.cells = 0 /\ word'.cells = 0
    BY <1>4, Nothings
  <2> QED
    BY <1>0, <1>4, <2>3, <2>4, RowsNext
<1>5. CASE /\ ~ longer.cells >= Wrap!LineWidth(lines)
           /\ word' = longer /\ lines' = lines /\ cur' = cur
  <2>1. word'.cells <= Wrap!Wider - 1
    BY <1>0, <1>3, <1>5, WiderTyped
  <2> QED
    BY <1>0, <1>5, <2>1, RowsNext
<1> QED
  BY <1>2, <1>4, <1>5

\* A blank needs one cell, a line break none.
LEMMA SpaceFits ==
    ASSUME LettersInv, RowsInv, Wrap!Wider >= 2, Wrap!Space \/ Wrap!Break
    PROVE  RowsInv'
<1>0. /\ lines \in Seq(Wrap!Row) /\ cur \in Wrap!Row /\ word \in Wrap!Word
      /\ cur.cells \in Nat /\ word.cells \in Nat
      /\ \A i \in DOMAIN lines : lines[i].n > 0 /\ lines[i].cells <= Wrap!Wider + 1
      /\ cur.cells <= Wrap!Wider /\ word.cells <= Wrap!Wider - 1
      /\ (cur.n = 0 => cur.cells = 0)
      /\ Wrap!Wider \in Nat /\ Wrap!Wider >= 2
  BY RowsFacts
<1> DEFINE f == Wrap!FlushWord(lines, cur, word)
<1>1. \/ lines' = Wrap!Push(f) /\ cur' = Wrap!NoRow /\ word' = Wrap!NoWord
      \/ lines' = f.lines /\ cur' = f.cur /\ word' = Wrap!Blank
      \/ lines' = lines /\ cur' = cur /\ word' = Wrap!Blank
  BY SpaceOrBreak
<1>2. /\ f.lines \in Seq(Wrap!Row) /\ f.cur \in Wrap!Row
      /\ \A i \in DOMAIN f.lines : f.lines[i].n > 0 /\ f.lines[i].cells <= Wrap!Wider + 1
      /\ f.cur.cells <= Wrap!Wider \/ f.cur.cells <= word.cells
      /\ f.cur.n = 0 => f.cur.cells = 0
  BY <1>0, FlushFits
<1> HIDE DEF f
<1>3. f.cur.cells <= Wrap!Wider /\ f.cur.cells <= Wrap!Wider + 1
  <2>1. f.cur.cells \in Nat
    BY <1>2 DEF Wrap!Row
  <2> QED
    BY <1>0, <1>2, <2>1
<1>4. \A i \in DOMAIN Wrap!Push(f) :
         Wrap!Push(f)[i].n > 0 /\ Wrap!Push(f)[i].cells <= Wrap!Wider + 1
  BY <1>2, <1>3, PushFits
<1>5. 0 <= Wrap!Wider - 1 /\ 1 <= Wrap!Wider - 1 /\ 0 <= Wrap!Wider
  BY <1>0
<1>6. CASE lines' = Wrap!Push(f) /\ cur' = Wrap!NoRow /\ word' = Wrap!NoWord
  <2>1. cur'.cells = 0 /\ word'.cells = 0
    BY <1>6, Nothings
  <2> QED
    BY <1>4, <1>5, <1>6, <2>1, RowsNext
<1>7. CASE lines' = f.lines /\ cur' = f.cur /\ word' = Wrap!Blank
  <2>1. word'.cells = 1
    BY <1>7, Nothings
  <2> QED
    BY <1>2, <1>3, <1>5, <1>7, <2>1, RowsNext
<1>8. CASE lines' = lines /\ cur' = cur /\ word' = Wrap!Blank
  <2>1. word'.cells = 1
    BY <1>8, Nothings
  <2> QED
    BY <1>0, <1>5, <1>8, <2>1, RowsNext
<1> QED
  BY <1>1, <1>6, <1>7, <1>8

\* A colour has no cells.
LEMMA ColourFits ==
    ASSUME LettersInv, RowsInv, Wrap!Wider >= 2, Wrap!Escape
    PROVE  RowsInv'
<1>1. [word EXCEPT !.n = @ + 1].cells = word.cells
  BY RowsFacts DEF Wrap!Word
<1>2. word' = [word EXCEPT !.n = @ + 1] /\ lines' = lines /\ cur' = cur
  BY DEF Wrap!Escape
<1> QED
  BY <1>1, <1>2, RowsFacts, RowsNext

\* Every step leaves rows that fit.
LEMMA RowsStep ==
    ASSUME LettersInv, RowsInv, Wrap!Wider >= 2, Wrap!Next
    PROVE  RowsInv'
  BY LetterFits, SpaceFits, ColourFits DEF Wrap!Next

-----------------------------------------------------------------------------
(* The settings of the ASCII interface. *)

\* The elements of the short tuples of values.
LEMMA ElementsOfTwo ==
    ASSUME NEW x, NEW y
    PROVE  Settings!Elements(<<x, y>>) = {x, y}
  BY DEF Settings!Elements

LEMMA ElementsOfThree ==
    ASSUME NEW x, NEW y, NEW z
    PROVE  Settings!Elements(<<x, y, z>>) = {x, y, z}
  BY DEF Settings!Elements

LEMMA FirstOfTwo ==
    ASSUME NEW t, NEW x, NEW y, t = <<x, y>>
    PROVE  t[1] = x
  OBVIOUS

LEMMA FirstOfThree ==
    ASSUME NEW t, NEW x, NEW y, NEW z, t = <<x, y, z>>
    PROVE  t[1] = x
  OBVIOUS

\* The values of every setting, by the kind of the setting.
LEMMA SwitchValues ==
    ASSUME NEW k \in Settings!Switches
    PROVE  /\ Settings!ValuesOf(k) = {"0", "1"}
           /\ \A text : Settings!ReadText(k, text) \in {"0", "1"}
           /\ \A v \in {"0", "1"} : Settings!ReadText(k, v) = v
           /\ k # "rows"
  BY DEF Settings!ValuesOf, Settings!Switches, Settings!OnByOne, Settings!OnUnless, Settings!ReadText

LEMMA ChoiceValues ==
    /\ Settings!Values("time_side") = <<"left", "right">>
    /\ Settings!Values("msg_line") = <<"inline", "newline">>
    /\ Settings!Values("members_mode") = <<"0", "1", "2">>
    /\ Settings!Values("rows") = <<"0", "30", "-3">>
    /\ Settings!Values("via_limit") = <<"3", "0", "7">>
    /\ Settings!Values("tz_offset") = <<"0", "-3">>
    /\ Settings!Values("panel_left") = <<"-1", "0", "40">>
    /\ Settings!Values("panel_right") = <<"-1", "0", "40">>
    /\ Settings!Values("panel_rule_left") = <<"", "min:80", "pct:40">>
    /\ Settings!Values("panel_rule_center") = <<"", "min:80", "pct:40">>
    /\ Settings!Values("panel_rule_right") = <<"", "min:80", "pct:40">>
  BY DEF Settings!Values

LEMMA ChoiceElements ==
    ASSUME NEW k \in Settings!Choices
    PROVE  /\ k \notin Settings!OnByOne /\ k \notin Settings!OnUnless /\ k \notin Settings!Switches
           /\ Settings!ValuesOf(k) = Settings!Elements(Settings!Values(k))
<1>1. k \notin Settings!OnByOne /\ k \notin Settings!OnUnless /\ k \notin Settings!Switches
  BY DEF Settings!Choices, Settings!OnByOne, Settings!OnUnless, Settings!Switches
<1> QED
  BY <1>1 DEF Settings!ValuesOf

\* What the values of a setting keep: read back they show what they showed, and so does a
\* key that was never written.
ReadsBack(k) ==
    /\ \A v \in Settings!ValuesOf(k) :
          /\ Settings!ReadText(k, v) \in Settings!ValuesOf(k)
          /\ Settings!Shows(k, Settings!ReadText(k, v)) = Settings!Shows(k, v)
    /\ Settings!ReadText(k, "") \in Settings!ValuesOf(k)
    /\ Settings!Shows(k, Settings!ReadText(k, "")) = Settings!ReadText(k, "")

LEMMA SwitchReadsBack ==
    ASSUME NEW k \in Settings!Switches
    PROVE  ReadsBack(k)
  BY SwitchValues DEF ReadsBack, Settings!Shows

LEMMA ChoiceReadsBack ==
    ASSUME NEW k \in Settings!Choices
    PROVE  ReadsBack(k)
<1>1. k \notin Settings!OnByOne /\ k \notin Settings!OnUnless /\ k \notin Settings!Switches
  BY ChoiceElements
<1>2. Settings!ValuesOf(k) = Settings!Elements(Settings!Values(k))
  BY ChoiceElements
<1>3. \A text : Settings!ReadText(k, text) =
            IF k = "rows" /\ text = "-3" THEN "0"
            ELSE IF text = "" THEN Settings!Values(k)[1] ELSE text
  BY <1>1 DEF Settings!ReadText
<1>4. ASSUME NEW x, NEW y, x # "", y # "", Settings!Values(k) = <<x, y>>, k # "rows"
      PROVE  ReadsBack(k)
  <2>1. Settings!ValuesOf(k) = {x, y}
    BY <1>2, <1>4, ElementsOfTwo
  <2>2. Settings!Values(k)[1] = x
    BY <1>4, FirstOfTwo
  <2> QED
    BY <1>3, <1>4, <2>1, <2>2 DEF ReadsBack, Settings!Shows
<1>5. ASSUME NEW x, NEW y, NEW z, y # "", z # "", Settings!Values(k) = <<x, y, z>>, k # "rows"
      PROVE  ReadsBack(k)
  <2>1. Settings!ValuesOf(k) = {x, y, z}
    BY <1>2, <1>5, ElementsOfThree
  <2>2. Settings!Values(k)[1] = x
    BY <1>5, FirstOfThree
  <2> QED
    BY <1>3, <1>5, <2>1, <2>2 DEF ReadsBack, Settings!Shows
<1>6. CASE k = "rows"
  <2>1. Settings!Values(k) = <<"0", "30", "-3">>
    BY <1>6, ChoiceValues
  <2>2. Settings!ValuesOf(k) = {"0", "30", "-3"}
    BY <1>2, <2>1, ElementsOfThree
  <2>3. Settings!Values(k)[1] = "0"
    BY <2>1
  <2> QED
    BY <1>3, <1>6, <2>2, <2>3 DEF ReadsBack, Settings!Shows
<1>7. CASE k \in {"time_side", "msg_line", "tz_offset"}
  <2>1. \/ Settings!Values(k) = <<"left", "right">> \/ Settings!Values(k) = <<"inline", "newline">>
        \/ Settings!Values(k) = <<"0", "-3">>
    BY <1>7, ChoiceValues
  <2> QED
    BY <1>4, <1>7, <2>1
<1>8. CASE k \in {"members_mode", "via_limit", "panel_left", "panel_right", "panel_rule_left",
                  "panel_rule_center", "panel_rule_right"}
  <2>1. \/ Settings!Values(k) = <<"0", "1", "2">> \/ Settings!Values(k) = <<"3", "0", "7">>
        \/ Settings!Values(k) = <<"-1", "0", "40">> \/ Settings!Values(k) = <<"", "min:80", "pct:40">>
    BY <1>8, ChoiceValues
  <2> QED
    BY <1>5, <1>8, <2>1
<1> QED
  BY <1>6, <1>7, <1>8 DEF Settings!Choices

LEMMA EveryKeyReadsBack == \A k \in Settings!Keys : ReadsBack(k)
  BY SwitchReadsBack, ChoiceReadsBack DEF Settings!Keys

\* A key and one of its values.
IsSetting(k, v) == k \in Settings!Keys /\ v \in Settings!ValuesOf(k)

LEMMA SwitchIsSetting ==
    ASSUME NEW k \in Settings!Switches, NEW v \in {"0", "1"}
    PROVE  IsSetting(k, v)
<1>1. k \in Settings!Keys
  BY DEF Settings!Keys
<1>2. v \in Settings!ValuesOf(k)
  BY SwitchValues
<1> QED
  BY <1>1, <1>2 DEF IsSetting

LEMMA ChoiceIsSetting ==
    ASSUME NEW k \in Settings!Choices, NEW v, NEW x, NEW y, NEW z,
           Settings!Values(k) = <<x, y, z>>, v \in {x, y, z}
    PROVE  IsSetting(k, v)
<1>1. Settings!ValuesOf(k) = {x, y, z}
  BY ChoiceElements, ElementsOfThree
<1> QED
  BY <1>1 DEF IsSetting, Settings!Keys

\* The flags set values of their settings.
LEMMA FlagValues ==
    ASSUME NEW f \in Settings!Flags
    PROVE  IsSetting(Settings!FlagValue(f).key, Settings!FlagValue(f).value)
<1> DEFINE k == Settings!FlagValue(f).key
           v == Settings!FlagValue(f).value
<1>1. CASE f \in {"ids", "time-full", "no-emoji", "room-aliases", "narrow"}
  <2>1. k \in {"ids", "time_full", "emoji", "room_names", "mobile"} /\ v \in {"0", "1"}
    BY <1>1 DEF Settings!FlagValue
  <2>2. k \in Settings!Switches
    BY <2>1 DEF Settings!Switches, Settings!OnByOne, Settings!OnUnless
  <2> HIDE DEF k, v
  <2>3. IsSetting(k, v)
    BY <2>1, <2>2, SwitchIsSetting
  <2> QED
    BY <2>3 DEF k, v
<1>2. CASE f = "panel-left"
  <2>1. k = "panel_left" /\ v = "40"
    BY <1>2 DEF Settings!FlagValue
  <2> HIDE DEF k, v
  <2>2. k \in Settings!Choices /\ Settings!Values(k) = <<"-1", "0", "40">>
    BY <2>1, ChoiceValues DEF Settings!Choices
  <2>3. IsSetting(k, v)
    BY <2>1, <2>2, ChoiceIsSetting
  <2> QED
    BY <2>3 DEF k, v
<1>3. CASE f = "members"
  <2>1. k = "members_mode" /\ v = "2"
    BY <1>3 DEF Settings!FlagValue
  <2> HIDE DEF k, v
  <2>2. k \in Settings!Choices /\ Settings!Values(k) = <<"0", "1", "2">>
    BY <2>1, ChoiceValues DEF Settings!Choices
  <2>3. IsSetting(k, v)
    BY <2>1, <2>2, ChoiceIsSetting
  <2> QED
    BY <2>3 DEF k, v
<1>4. CASE f = "rows"
  <2>1. k = "rows" /\ v = "30"
    BY <1>4 DEF Settings!FlagValue
  <2> HIDE DEF k, v
  <2>2. k \in Settings!Choices /\ Settings!Values(k) = <<"0", "30", "-3">>
    BY <2>1, ChoiceValues DEF Settings!Choices
  <2>3. IsSetting(k, v)
    BY <2>1, <2>2, ChoiceIsSetting
  <2> QED
    BY <2>3 DEF k, v
<1> QED
  BY <1>1, <1>2, <1>3, <1>4 DEF Settings!Flags

\* Any text a key may hold.
Texts == {""} \cup UNION { Settings!ValuesOf(k) : k \in Settings!Keys }

SettingsShape ==
    /\ db \in [Settings!Keys -> Texts] /\ chosen \in [Settings!Keys -> Texts]
    /\ fld \in [Procs -> [Settings!Keys -> Texts]]
    /\ lists \in [Settings!Lists -> SUBSET Names] /\ listed \in [Settings!Lists -> SUBSET Names]
    /\ mine \in [Procs -> [Settings!Lists -> SUBSET Names]]
    /\ up \subseteq Procs /\ crowded \in BOOLEAN /\ commands \in 0..MaxCommands
    /\ \A k \in Settings!Keys : db[k] \in Settings!ValuesOf(k) \cup {""}
    /\ \A p \in Procs, k \in Settings!Keys : fld[p][k] \in Settings!ValuesOf(k)

\* What a start would show is what was last chosen.
KeptAsChosen ==
    \A k \in Settings!Keys : Settings!Shows(k, Settings!ReadText(k, db[k])) = chosen[k]

\* An interface that runs alone holds the stored lists, and they are the listed ones.
OwnLists ==
    ~ crowded => /\ lists = listed
                 /\ \A p, q \in up : p = q
                 /\ \A p \in up : mine[p] = lists

SettingsInv == SettingsShape /\ KeptAsChosen /\ OwnLists

LEMMA ValuesAreTexts ==
    ASSUME NEW k \in Settings!Keys, NEW v \in Settings!ValuesOf(k)
    PROVE  v \in Texts
  BY DEF Texts

LEMMA ShownAreValues ==
    ASSUME NEW k \in Settings!Keys, NEW v \in Settings!ValuesOf(k)
    PROVE  Settings!Shows(k, v) \in Settings!ValuesOf(k)
<1>1. CASE k = "rows"
  <2>1. Settings!Values("rows") = <<"0", "30", "-3">> /\ k \in Settings!Choices
    BY <1>1, ChoiceValues DEF Settings!Choices
  <2>2. Settings!ValuesOf(k) = {"0", "30", "-3"}
    BY <1>1, <2>1, ChoiceElements, ElementsOfThree
  <2> QED
    BY <2>2 DEF Settings!Shows
<1>2. CASE k # "rows"
  BY <1>2 DEF Settings!Shows
<1> QED
  BY <1>1, <1>2

\* The values a fresh database gives.
LEMMA DefaultValues ==
    /\ Settings!Defaults \in [Settings!Keys -> Texts]
    /\ \A k \in Settings!Keys : /\ Settings!Defaults[k] = Settings!ReadText(k, "")
                                /\ Settings!Defaults[k] \in Settings!ValuesOf(k)
<1>1. \A k \in Settings!Keys : Settings!ReadText(k, "") \in Settings!ValuesOf(k)
  BY EveryKeyReadsBack DEF ReadsBack
<1> QED
  BY <1>1, ValuesAreTexts DEF Settings!Defaults

LEMMA SettingNumbers == MaxCommands \in Nat /\ FlagsTried \subseteq Settings!Flags
  BY UiAssumption DEF UiAssumption, Settings!SettingsAssumption

LEMMA SettingsBegin == Settings!Init => SettingsInv
<1> SUFFICES ASSUME Settings!Init PROVE SettingsInv
  OBVIOUS
<1>1. SettingsShape
  <2>1. "" \in Texts
    BY DEF Texts
  <2>2. 0 \in 0..MaxCommands
    BY SettingNumbers
  <2>3. /\ db = [k \in Settings!Keys |-> ""] /\ lists = [l \in Settings!Lists |-> {}]
        /\ fld = [p \in Procs |-> Settings!Defaults]
        /\ mine = [p \in Procs |-> [l \in Settings!Lists |-> {}]]
        /\ up = {} /\ chosen = Settings!Defaults /\ listed = [l \in Settings!Lists |-> {}]
        /\ crowded = FALSE /\ commands = 0
    BY DEF Settings!Init
  <2>4. db \in [Settings!Keys -> Texts]
    BY <2>1, <2>3
  <2>5. fld \in [Procs -> [Settings!Keys -> Texts]] /\ chosen \in [Settings!Keys -> Texts]
    BY <2>3, DefaultValues
  <2>6. /\ lists \in [Settings!Lists -> SUBSET Names] /\ listed \in [Settings!Lists -> SUBSET Names]
        /\ mine \in [Procs -> [Settings!Lists -> SUBSET Names]]
    BY <2>3
  <2>7. /\ \A k \in Settings!Keys : db[k] \in Settings!ValuesOf(k) \cup {""}
        /\ \A p \in Procs, k \in Settings!Keys : fld[p][k] \in Settings!ValuesOf(k)
    BY <2>3, DefaultValues
  <2> QED
    BY <2>2, <2>3, <2>4, <2>5, <2>6, <2>7 DEF SettingsShape
<1>2. KeptAsChosen
  <2>1. \A k \in Settings!Keys : db[k] = "" /\ chosen[k] = Settings!ReadText(k, "")
    BY DefaultValues DEF Settings!Init
  <2>2. \A k \in Settings!Keys :
            Settings!Shows(k, Settings!ReadText(k, "")) = Settings!ReadText(k, "")
    BY EveryKeyReadsBack DEF ReadsBack
  <2> QED
    BY <2>1, <2>2 DEF KeptAsChosen
<1>3. OwnLists
  BY DEF Settings!Init, OwnLists
<1> QED
  BY <1>1, <1>2, <1>3 DEF SettingsInv

\* A value that is chosen is stored under its key.
LEMMA SetKeeps ==
    ASSUME SettingsInv, NEW p \in Procs, NEW k \in Settings!Keys, NEW v \in Settings!ValuesOf(k),
           Settings!Set(p, k, v)
    PROVE  SettingsInv' /\ up' = up
<1>1. /\ p \in up /\ commands < MaxCommands /\ commands' = commands + 1
      /\ fld' = [fld EXCEPT ![p][k] = v] /\ db' = [db EXCEPT ![k] = v]
      /\ chosen' = [chosen EXCEPT ![k] = Settings!Shows(k, v)]
      /\ lists' = lists /\ mine' = mine /\ up' = up /\ listed' = listed /\ crowded' = crowded
  BY DEF Settings!Set, Settings!Count
<1>2. v \in Texts /\ Settings!Shows(k, v) \in Texts
  BY ValuesAreTexts, ShownAreValues
<1>3. SettingsShape /\ KeptAsChosen /\ OwnLists
  BY DEF SettingsInv
<1>4. SettingsShape'
  <2>1. db' \in [Settings!Keys -> Texts] /\ chosen' \in [Settings!Keys -> Texts]
    BY <1>1, <1>2, <1>3 DEF SettingsShape
  <2>2. fld' \in [Procs -> [Settings!Keys -> Texts]]
    BY <1>1, <1>2, <1>3 DEF SettingsShape
  <2>3. \A c \in Settings!Keys : db'[c] \in Settings!ValuesOf(c) \cup {""}
    BY <1>1, <1>3 DEF SettingsShape
  <2>4. \A q \in Procs, c \in Settings!Keys :
            fld'[q][c] = IF q = p /\ c = k THEN v ELSE fld[q][c]
    BY <1>1, <1>3 DEF SettingsShape
  <2>5. \A q \in Procs, c \in Settings!Keys : fld'[q][c] \in Settings!ValuesOf(c)
    BY <1>3, <2>4 DEF SettingsShape
  <2>6. commands' \in 0..MaxCommands
    <3>1. commands \in 0..MaxCommands /\ commands < MaxCommands /\ commands' = commands + 1
      BY <1>1, <1>3 DEF SettingsShape
    <3> QED
      BY <3>1, SettingNumbers
  <2> QED
    BY <1>1, <1>3, <2>1, <2>2, <2>3, <2>5, <2>6 DEF SettingsShape
<1>5. KeptAsChosen'
  <2>1. ASSUME NEW c \in Settings!Keys
        PROVE  Settings!Shows(c, Settings!ReadText(c, db'[c])) = chosen'[c]
    <3>1. CASE c = k
      <4>1. db'[c] = v /\ chosen'[c] = Settings!Shows(k, v)
        BY <1>1, <1>3, <3>1 DEF SettingsShape
      <4>2. Settings!Shows(k, Settings!ReadText(k, v)) = Settings!Shows(k, v)
        BY EveryKeyReadsBack DEF ReadsBack
      <4> QED
        BY <3>1, <4>1, <4>2
    <3>2. CASE c # k
      <4>1. db'[c] = db[c] /\ chosen'[c] = chosen[c]
        BY <1>1, <1>3, <3>2 DEF SettingsShape
      <4> QED
        BY <1>3, <4>1 DEF KeptAsChosen
    <3> QED
      BY <3>1, <3>2
  <2> QED
    BY <2>1 DEF KeptAsChosen
<1>6. OwnLists'
  BY <1>1, <1>3 DEF OwnLists
<1> QED
  BY <1>1, <1>4, <1>5, <1>6 DEF SettingsInv

\* A list that grows or shrinks is stored whole.
LEMMA StoreListKeeps ==
    ASSUME SettingsInv, NEW p \in Procs, NEW l \in Settings!Lists, NEW ours \in SUBSET Names,
           ours \subseteq mine[p][l] \/ mine[p][l] \subseteq ours,
           Settings!StoreList(p, l, ours)
    PROVE  SettingsInv' /\ up' = up
<1>1. /\ p \in up /\ commands < MaxCommands /\ commands' = commands + 1
      /\ mine' = [mine EXCEPT ![p][l] = ours] /\ lists' = [lists EXCEPT ![l] = ours]
      /\ listed' = [listed EXCEPT ![l] = IF ours \subseteq mine[p][l]
                                         THEN @ \ (mine[p][l] \ ours) ELSE @ \cup ours]
      /\ db' = db /\ fld' = fld /\ up' = up /\ chosen' = chosen /\ crowded' = crowded
  BY DEF Settings!StoreList, Settings!Count
<1>2. SettingsShape /\ KeptAsChosen /\ OwnLists
  BY DEF SettingsInv
<1> DEFINE left == IF ours \subseteq mine[p][l] THEN listed[l] \ (mine[p][l] \ ours)
                   ELSE listed[l] \cup ours
<1>3. left \in SUBSET Names
  BY <1>2 DEF SettingsShape
<1>4. listed' = [listed EXCEPT ![l] = left]
  BY <1>1, <1>2 DEF SettingsShape
<1>5. ~ crowded => left = ours
  BY <1>1, <1>2 DEF OwnLists
<1> HIDE DEF left
<1>6. SettingsShape'
  <2>1. /\ lists' \in [Settings!Lists -> SUBSET Names] /\ listed' \in [Settings!Lists -> SUBSET Names]
        /\ mine' \in [Procs -> [Settings!Lists -> SUBSET Names]]
    BY <1>1, <1>2, <1>3, <1>4 DEF SettingsShape
  <2>2. commands' \in 0..MaxCommands
    <3>1. commands \in 0..MaxCommands /\ commands < MaxCommands /\ commands' = commands + 1
      BY <1>1, <1>2 DEF SettingsShape
    <3> QED
      BY <3>1, SettingNumbers
  <2> QED
    BY <1>1, <1>2, <2>1, <2>2 DEF SettingsShape
<1>7. KeptAsChosen'
  BY <1>1, <1>2 DEF KeptAsChosen
<1>8. OwnLists'
  <2>1. SUFFICES ASSUME ~ crowded
                 PROVE  /\ lists' = listed' /\ \A q \in up : mine'[q] = lists'
                        /\ \A q, r \in up : q = r
    BY <1>1 DEF OwnLists
  <2>2. /\ lists = listed /\ mine[p] = lists /\ \A q, r \in up : q = r
    BY <1>1, <1>2, <2>1 DEF OwnLists
  <2>3. lists' = listed'
    BY <1>1, <1>4, <1>5, <2>1, <2>2
  <2>4. mine'[p] = [mine[p] EXCEPT ![l] = ours]
    BY <1>1, <1>2 DEF SettingsShape
  <2>5. mine'[p] = lists'
    BY <1>1, <2>2, <2>4
  <2> QED
    BY <1>1, <2>2, <2>3, <2>5
<1> QED
  BY <1>1, <1>6, <1>7, <1>8 DEF SettingsInv

\* A start reads everything back; a flag sets its one field.
LEMMA StartKeeps ==
    ASSUME SettingsInv, NEW p \in Procs, Settings!Start(p)
    PROVE  SettingsInv' /\ Settings!StartRestores
<1>0. SettingsShape /\ KeptAsChosen /\ OwnLists
  BY DEF SettingsInv
<1>1. PICK shown \in {Settings!AsStored} \cup
                     { [Settings!AsStored EXCEPT ![Settings!FlagValue(f).key] = Settings!FlagValue(f).value] :
                       f \in FlagsTried } :
          fld' = [fld EXCEPT ![p] = shown]
  BY DEF Settings!Start
<1>2. /\ p \notin up /\ mine' = [mine EXCEPT ![p] = lists] /\ up' = up \cup {p}
      /\ crowded' = (crowded \/ up # {})
      /\ db' = db /\ lists' = lists /\ chosen' = chosen /\ listed' = listed /\ commands' = commands
  BY DEF Settings!Start
<1>3. /\ Settings!AsStored \in [Settings!Keys -> Texts]
      /\ \A k \in Settings!Keys : /\ Settings!AsStored[k] \in Settings!ValuesOf(k)
                                  /\ Settings!Shows(k, Settings!AsStored[k]) = chosen[k]
  <2>1. ASSUME NEW k \in Settings!Keys
        PROVE  Settings!ReadText(k, db[k]) \in Settings!ValuesOf(k)
    BY <1>0, EveryKeyReadsBack DEF SettingsShape, ReadsBack
  <2>2. \A k \in Settings!Keys : Settings!AsStored[k] = Settings!ReadText(k, db[k])
    BY DEF Settings!AsStored
  <2>3. \A k \in Settings!Keys : Settings!Shows(k, Settings!AsStored[k]) = chosen[k]
    BY <1>0, <2>2 DEF KeptAsChosen
  <2>4. Settings!AsStored \in [Settings!Keys -> Texts]
    BY <2>1, ValuesAreTexts DEF Settings!AsStored
  <2> QED
    BY <2>1, <2>2, <2>3, <2>4
<1>4. PICK f \in Settings!Flags :
          /\ shown \in [Settings!Keys -> Texts]
          /\ \A k \in Settings!Keys :
                /\ shown[k] \in Settings!ValuesOf(k)
                /\ \/ Settings!Shows(k, shown[k]) = chosen[k]
                   \/ k = Settings!FlagValue(f).key /\ shown[k] = Settings!FlagValue(f).value
  <2>1. CASE shown = Settings!AsStored
    <3>1. "ids" \in Settings!Flags
      BY DEF Settings!Flags
    <3> QED
      BY <1>3, <2>1, <3>1
  <2>2. CASE shown # Settings!AsStored
    <3>1. PICK f \in FlagsTried :
              shown = [Settings!AsStored EXCEPT ![Settings!FlagValue(f).key] = Settings!FlagValue(f).value]
      BY <1>1, <2>2
    <3>2. f \in Settings!Flags
      BY SettingNumbers
    <3> DEFINE key == Settings!FlagValue(f).key
               val == Settings!FlagValue(f).value
    <3>3. key \in Settings!Keys /\ val \in Settings!ValuesOf(key) /\ val \in Texts
      BY <3>2, FlagValues, ValuesAreTexts DEF IsSetting
    <3>4. shown = [Settings!AsStored EXCEPT ![key] = val]
      BY <3>1
    <3> HIDE DEF key, val
    <3>5. /\ shown \in [Settings!Keys -> Texts]
          /\ \A k \in Settings!Keys : shown[k] = IF k = key THEN val ELSE Settings!AsStored[k]
      BY <1>3, <3>3, <3>4
    <3>6. \A k \in Settings!Keys :
                /\ shown[k] \in Settings!ValuesOf(k)
                /\ Settings!Shows(k, shown[k]) = chosen[k] \/ (k = key /\ shown[k] = val)
      BY <1>3, <3>3, <3>5
    <3> QED
      BY <3>2, <3>5, <3>6 DEF key, val
  <2> QED
    BY <2>1, <2>2
<1>5. fld' \in [Procs -> [Settings!Keys -> Texts]] /\ fld'[p] = shown
      /\ \A q \in Procs \ {p} : fld'[q] = fld[q]
  BY <1>0, <1>1, <1>4 DEF SettingsShape
<1>6. mine' \in [Procs -> [Settings!Lists -> SUBSET Names]] /\ mine'[p] = lists
      /\ \A q \in Procs \ {p} : mine'[q] = mine[q]
  BY <1>0, <1>2 DEF SettingsShape
<1>7. SettingsShape'
  <2>1. \A q \in Procs, k \in Settings!Keys : fld'[q][k] \in Settings!ValuesOf(k)
    BY <1>0, <1>4, <1>5 DEF SettingsShape
  <2>2. crowded' \in BOOLEAN
    BY <1>2
  <2>3. up' \subseteq Procs
    BY <1>0, <1>2 DEF SettingsShape
  <2> QED
    BY <1>0, <1>2, <1>5, <1>6, <2>1, <2>2, <2>3 DEF SettingsShape
<1>8. KeptAsChosen'
  BY <1>0, <1>2 DEF KeptAsChosen
<1>9. OwnLists'
  <2>1. SUFFICES ASSUME ~ crowded'
                 PROVE  /\ lists' = listed' /\ \A q, r \in up' : q = r
                        /\ \A q \in up' : mine'[q] = lists'
    BY DEF OwnLists
  <2>2. up = {} /\ ~ crowded
    BY <1>2, <2>1
  <2>3. up' = {p}
    BY <1>2, <2>2
  <2>4. lists = listed
    BY <1>0, <2>2 DEF OwnLists
  <2> QED
    BY <1>2, <1>6, <2>3, <2>4
<1>10. Settings!StartRestores
  <2> SUFFICES ASSUME NEW q \in Procs, q \in up' \ up
               PROVE  \E g \in Settings!Flags : \A k \in Settings!Keys :
                          \/ Settings!Shows(k, fld'[q][k]) = chosen[k]
                          \/ k = Settings!FlagValue(g).key /\ fld'[q][k] = Settings!FlagValue(g).value
    BY DEF Settings!StartRestores
  <2>1. q = p
    BY <1>2
  <2> QED
    BY <1>4, <1>5, <2>1
<1> QED
  BY <1>7, <1>8, <1>9, <1>10 DEF SettingsInv

\* An interface that goes takes nothing along; the last one leaves what is stored.
LEMMA LeaveKeeps ==
    ASSUME SettingsInv, NEW p \in Procs, Settings!Quit(p)
    PROVE  SettingsInv' /\ up' \subseteq up
<1>0. SettingsShape /\ KeptAsChosen /\ OwnLists
  BY DEF SettingsInv
<1>1. /\ p \in up /\ up' = up \ {p} /\ crowded' = (crowded /\ up' # {})
      /\ listed' = IF up' = {} THEN lists ELSE listed
      /\ fld' = [fld EXCEPT ![p] = Settings!Defaults]
      /\ mine' = [mine EXCEPT ![p] = [l \in Settings!Lists |-> {}]]
      /\ db' = db /\ lists' = lists /\ chosen' = chosen /\ commands' = commands
  BY DEF Settings!Quit
<1>2. fld' \in [Procs -> [Settings!Keys -> Texts]] /\ fld'[p] = Settings!Defaults
      /\ \A q \in Procs \ {p} : fld'[q] = fld[q]
  BY <1>0, <1>1, DefaultValues DEF SettingsShape
<1>3. [l \in Settings!Lists |-> {}] \in [Settings!Lists -> SUBSET Names]
  OBVIOUS
<1>4. mine' \in [Procs -> [Settings!Lists -> SUBSET Names]]
      /\ \A q \in Procs \ {p} : mine'[q] = mine[q]
  BY <1>0, <1>1, <1>3 DEF SettingsShape
<1>5. SettingsShape'
  <2>1. \A q \in Procs, k \in Settings!Keys : fld'[q][k] \in Settings!ValuesOf(k)
    BY <1>0, <1>2, DefaultValues DEF SettingsShape
  <2>2. crowded' \in BOOLEAN
    BY <1>1
  <2>3. up' \subseteq Procs
    BY <1>0, <1>1 DEF SettingsShape
  <2>4. listed' \in [Settings!Lists -> SUBSET Names]
    BY <1>0, <1>1 DEF SettingsShape
  <2> QED
    BY <1>0, <1>1, <1>2, <1>4, <2>1, <2>2, <2>3, <2>4 DEF SettingsShape
<1>6. KeptAsChosen'
  BY <1>0, <1>1 DEF KeptAsChosen
<1>7. OwnLists'
  <2>1. CASE up' = {}
    BY <1>1, <2>1 DEF OwnLists
  <2>2. CASE up' # {}
    <3>1. crowded' = crowded /\ listed' = listed
      <4>1. crowded \in BOOLEAN
        BY <1>0 DEF SettingsShape
      <4> QED
        BY <1>1, <2>2, <4>1, Zenon
    <3>2. up' \subseteq up /\ p \notin up' /\ up' \subseteq Procs
      BY <1>0, <1>1 DEF SettingsShape
    <3> QED
      BY <1>0, <1>1, <1>4, <3>1, <3>2 DEF OwnLists
  <2> QED
    BY <2>1, <2>2
<1> QED
  BY <1>1, <1>5, <1>6, <1>7 DEF SettingsInv

\* "receipts current" changes the field alone.
LEMMA ReceiptsKeeps ==
    ASSUME SettingsInv, NEW p \in Procs, Settings!ReceiptsMode(p)
    PROVE  SettingsInv' /\ up' = up
<1>0. SettingsShape /\ KeptAsChosen /\ OwnLists
  BY DEF SettingsInv
<1>1. /\ commands < MaxCommands /\ commands' = commands + 1
      /\ fld' = [fld EXCEPT ![p]["receipts"] = "1"]
      /\ db' = db /\ lists' = lists /\ mine' = mine /\ up' = up /\ chosen' = chosen
      /\ listed' = listed /\ crowded' = crowded
  BY DEF Settings!ReceiptsMode, Settings!Count
<1>2. PICK k \in Settings!Switches, v \in {"0", "1"} : fld' = [fld EXCEPT ![p][k] = v]
  <2>1. "receipts" \in Settings!Switches
    BY DEF Settings!Switches, Settings!OnUnless
  <2> QED
    BY <1>1, <2>1
<1>3. k \in Settings!Keys /\ v \in Settings!ValuesOf(k) /\ v \in Texts
  BY SwitchIsSetting, ValuesAreTexts DEF IsSetting
<1>4. SettingsShape'
  <2>1. fld' \in [Procs -> [Settings!Keys -> Texts]]
    BY <1>0, <1>2, <1>3 DEF SettingsShape
  <2>2. \A q \in Procs, c \in Settings!Keys :
            fld'[q][c] = IF q = p /\ c = k THEN v ELSE fld[q][c]
    BY <1>0, <1>2, <1>3 DEF SettingsShape
  <2>3. \A q \in Procs, c \in Settings!Keys : fld'[q][c] \in Settings!ValuesOf(c)
    BY <1>0, <1>3, <2>2 DEF SettingsShape
  <2>4. commands' \in 0..MaxCommands
    <3>1. commands \in 0..MaxCommands /\ commands < MaxCommands /\ commands' = commands + 1
      BY <1>0, <1>1 DEF SettingsShape
    <3> QED
      BY <3>1, SettingNumbers
  <2> QED
    BY <1>0, <1>1, <2>1, <2>3, <2>4 DEF SettingsShape
<1>5. KeptAsChosen' /\ OwnLists'
  BY <1>0, <1>1 DEF KeptAsChosen, OwnLists
<1> QED
  BY <1>1, <1>4, <1>5 DEF SettingsInv

\* Every command that sets a value sets one of its setting.
LEMMA CommandsSetValues ==
    ASSUME NEW p \in Procs,
           \/ Settings!Display(p) \/ Settings!RoomList(p) \/ Settings!Layout(p) \/ Settings!Marks(p)
           \/ Settings!Lines(p) \/ Settings!Panels(p) \/ Settings!Numbers(p)
    PROVE  \E k \in Settings!Keys : \E v \in Settings!ValuesOf(k) : Settings!Set(p, k, v)
<1>1. ASSUME NEW k \in Settings!Switches, NEW v \in {"1", "0"}, Settings!Set(p, k, v)
      PROVE  \E c \in Settings!Keys : \E x \in Settings!ValuesOf(c) : Settings!Set(p, c, x)
  BY <1>1, SwitchIsSetting DEF IsSetting
<1>2. ASSUME NEW k \in Settings!Choices, NEW v \in Settings!ValuesOf(k), Settings!Set(p, k, v)
      PROVE  \E c \in Settings!Keys : \E x \in Settings!ValuesOf(c) : Settings!Set(p, c, x)
  BY <1>2 DEF Settings!Keys
<1>3. CASE Settings!Display(p)
  <2>1. PICK k \in {"names", "receipts", "joins", "links", "clock12h"}, v \in {"1", "0"} :
            Settings!Set(p, k, v)
    BY <1>3 DEF Settings!Display
  <2>2. k \in Settings!Switches
    BY DEF Settings!Switches, Settings!OnByOne, Settings!OnUnless
  <2> QED
    BY <1>1, <2>1, <2>2
<1>4. CASE Settings!Marks(p)
  <2>1. PICK k \in {"emoji", "show_invites", "show_invites_legend", "show_notifications",
                    "images", "ids", "time_full", "threads_bottom", "room_invite_mark"},
             v \in {"1", "0"} : Settings!Set(p, k, v)
    BY <1>4 DEF Settings!Marks
  <2>2. k \in Settings!Switches
    BY DEF Settings!Switches, Settings!OnByOne, Settings!OnUnless
  <2> QED
    BY <1>1, <2>1, <2>2
<1>5. CASE Settings!RoomList(p)
  <2>1. \E k \in {"marker_col", "room_names"}, v \in {"1", "0"} : Settings!Set(p, k, v)
    BY <1>5 DEF Settings!RoomList
  <2>2. {"marker_col", "room_names"} \subseteq Settings!Switches
    BY DEF Settings!Switches, Settings!OnByOne, Settings!OnUnless
  <2> QED
    BY <1>1, <2>1, <2>2
<1>6. CASE Settings!Layout(p)
  <2>1. \/ \E v \in {"1", "0"} : Settings!Set(p, "mobile", v)
        \/ \E v \in Settings!ValuesOf("rows") : Settings!Set(p, "rows", v)
    BY <1>6 DEF Settings!Layout
  <2>2. "mobile" \in Settings!Switches /\ "rows" \in Settings!Choices
    BY DEF Settings!Switches, Settings!OnByOne, Settings!Choices
  <2> QED
    BY <1>1, <1>2, <2>1, <2>2
<1>7. CASE Settings!Lines(p) \/ Settings!Panels(p) \/ Settings!Numbers(p)
  <2>1. \E k \in {"time_side", "msg_line", "members_mode", "panel_left", "panel_right",
                  "panel_rule_left", "panel_rule_center", "panel_rule_right", "via_limit",
                  "tz_offset"} : \E v \in Settings!ValuesOf(k) : Settings!Set(p, k, v)
    BY <1>7 DEF Settings!Lines, Settings!Panels, Settings!Numbers
  <2>2. {"time_side", "msg_line", "members_mode", "panel_left", "panel_right", "panel_rule_left",
         "panel_rule_center", "panel_rule_right", "via_limit", "tz_offset"} \subseteq Settings!Choices
    BY DEF Settings!Choices
  <2> QED
    BY <1>2, <2>1, <2>2
<1> QED
  BY <1>3, <1>4, <1>5, <1>6, <1>7

\* A command on a list adds entries or takes some out.
LEMMA CommandsStoreLists ==
    ASSUME SettingsInv, NEW p \in Procs, Settings!ListEntry(p) \/ Settings!ClearableList(p)
    PROVE  SettingsInv' /\ up' = up
<1>1. \A l \in Settings!Lists : mine[p][l] \in SUBSET Names
  BY DEF SettingsInv, SettingsShape
<1>2. {"receipts_hide", "widths"} \subseteq Settings!Lists
  BY DEF Settings!Lists
<1>3. ASSUME NEW l \in Settings!Lists, NEW n \in Names,
             \/ Settings!StoreList(p, l, mine[p][l] \cup {n})
             \/ Settings!StoreList(p, l, mine[p][l] \ {n})
             \/ Settings!StoreList(p, l, {})
      PROVE  SettingsInv' /\ up' = up
  <2>1. /\ mine[p][l] \cup {n} \in SUBSET Names /\ mine[p][l] \ {n} \in SUBSET Names
        /\ {} \in SUBSET Names /\ {} \subseteq mine[p][l]
        /\ mine[p][l] \subseteq mine[p][l] \cup {n} /\ mine[p][l] \ {n} \subseteq mine[p][l]
    BY <1>1
  <2> QED
    BY <1>3, <2>1, StoreListKeeps
<1>4. ASSUME NEW l \in Settings!Lists, Settings!StoreList(p, l, {})
      PROVE  SettingsInv' /\ up' = up
  <2>1. {} \in SUBSET Names /\ {} \subseteq mine[p][l]
    OBVIOUS
  <2> QED
    BY <1>4, <2>1, StoreListKeeps
<1>5. CASE Settings!ListEntry(p)
  BY <1>3, <1>5 DEF Settings!ListEntry
<1>6. CASE Settings!ClearableList(p)
  BY <1>2, <1>3, <1>4, <1>6 DEF Settings!ClearableList
<1> QED
  BY <1>5, <1>6

\* Every step keeps the settings, and a start restores them.
LEMMA SettingsStep ==
    ASSUME SettingsInv, Settings!Next
    PROVE  SettingsInv' /\ Settings!StartRestores
<1>1. ASSUME up' \subseteq up PROVE Settings!StartRestores
  BY <1>1 DEF Settings!StartRestores
<1>2. PICK p \in Procs :
        \/ Settings!Start(p) \/ Settings!Quit(p)
        \/ Settings!Display(p) \/ Settings!ReceiptsMode(p) \/ Settings!RoomList(p)
        \/ Settings!Layout(p) \/ Settings!Marks(p) \/ Settings!Lines(p) \/ Settings!Panels(p)
        \/ Settings!Numbers(p) \/ Settings!ListEntry(p) \/ Settings!ClearableList(p)
  BY DEF Settings!Next
<1>3. CASE Settings!Start(p)
  BY <1>3, StartKeeps
<1>4. CASE Settings!Quit(p)
  BY <1>1, <1>4, LeaveKeeps
<1>5. CASE Settings!ReceiptsMode(p)
  BY <1>1, <1>5, ReceiptsKeeps
<1>6. CASE Settings!ListEntry(p) \/ Settings!ClearableList(p)
  BY <1>1, <1>6, CommandsStoreLists
<1>7. CASE \/ Settings!Display(p) \/ Settings!RoomList(p) \/ Settings!Layout(p) \/ Settings!Marks(p)
           \/ Settings!Lines(p) \/ Settings!Panels(p) \/ Settings!Numbers(p)
  BY <1>1, <1>7, CommandsSetValues, SetKeeps
<1> QED
  BY <1>2, <1>3, <1>4, <1>5, <1>6, <1>7

\* What stays as it is stays right.
LEMMA SettingsStay ==
    ASSUME SettingsInv, UNCHANGED <<db, commands, settingsVars>>
    PROVE  SettingsInv' /\ Settings!StartRestores
<1>1. /\ db' = db /\ commands' = commands /\ lists' = lists /\ fld' = fld /\ mine' = mine
      /\ up' = up /\ chosen' = chosen /\ listed' = listed /\ crowded' = crowded
  BY DEF settingsVars
<1>2. SettingsShape' /\ KeptAsChosen' /\ OwnLists'
  BY <1>1 DEF SettingsInv, SettingsShape, KeptAsChosen, OwnLists
<1>3. Settings!StartRestores
  BY <1>1 DEF Settings!StartRestores
<1> QED
  BY <1>2, <1>3 DEF SettingsInv

\* The shape the runs check, and the lists.
LEMMA SettingsAreTyped ==
    ASSUME SettingsInv
    PROVE  Settings!TypeOK /\ Settings!ListsAddUp
  BY DEF SettingsInv, SettingsShape, OwnLists, Settings!TypeOK, Settings!ListsAddUp

-----------------------------------------------------------------------------
(* The agents of the terminal interface. *)

\* What a tool of a run did, and a run's thread.
Deeds == {"room", "message"} \X (Agents!Ids \X (1..MaxIterations))
RunType == [kind : Agents!Kinds, at : {"top", "asked", "tool", "ended"},
            iteration : 0..MaxIterations, told : SUBSET Deeds, stop : BOOLEAN]

\* What a run keeps to itself: it asks only below its limit, a tool belongs to an answer,
\* and a question of /llm is never followed by another.
RunKeeps(r) ==
    /\ r.at = "asked" => r.iteration < MaxIterations
    /\ r.at = "tool" => r.iteration >= 1
    /\ r.at \in {"top", "tool"} => r.kind \in Agents!Guarded

AgentsShape ==
    /\ runs \in Seq(RunType) /\ Len(runs) <= MaxRuns
    /\ busy \in [Agents!Guarded -> BOOLEAN] /\ refused \in [Agents!Guarded -> BOOLEAN]
    /\ esc \in BOOLEAN /\ quit \in BOOLEAN /\ session \in BOOLEAN /\ keys \in 0..MaxKeys
    /\ chat \in [Agents!Ids -> 0..1] /\ sent \subseteq Deeds
    /\ \A i \in DOMAIN runs : RunKeeps(runs[i])

\* Two runs of a kind, or one whose flag is free, only after a refusal.
OneLives ==
    \A k \in Agents!Guarded :
        /\ \A i, j \in Agents!Live(k) : i # j => refused[k]
        /\ (Agents!Live(k) # {} /\ ~ busy[k]) => refused[k]

\* A run told to stop was told by an Esc that nobody took back, and has its answers.
StopsAndAnswers ==
    /\ \A i \in DOMAIN runs : runs[i].stop => esc
    /\ \A i \in Agents!Ids :
          chat[i] = IF i \in DOMAIN runs /\ runs[i].at = "ended" THEN 1 ELSE 0

AgentsInv == AgentsShape /\ OneLives /\ StopsAndAnswers /\ Agents!ToldIsSent

LEMMA AgentNumbers == MaxRuns \in Nat /\ MaxKeys \in Nat /\ MaxIterations \in Nat /\ MaxIterations > 0
  BY UiAssumption DEF UiAssumption, Agents!TuiAgentsAssumption

\* A run that starts.
LEMMA StartedRun ==
    ASSUME NEW k \in Agents!Kinds
    PROVE  Agents!Started(k) \in RunType /\ RunKeeps(Agents!Started(k))
  BY AgentNumbers DEF Agents!Started, RunType, RunKeeps, Agents!Kinds, Agents!Guarded

LEMMA AgentsBegin == Agents!Init => AgentsInv
<1> SUFFICES ASSUME Agents!Init PROVE AgentsInv
  OBVIOUS
<1>1. runs = <<>> /\ runs \in Seq(RunType) /\ Len(runs) = 0 /\ DOMAIN runs = {}
  BY DEF Agents!Init
<1>2. AgentsShape
  <2>1. Len(runs) <= MaxRuns /\ keys \in 0..MaxKeys
    BY <1>1, AgentNumbers DEF Agents!Init
  <2>2. \A i \in DOMAIN runs : RunKeeps(runs[i])
    BY <1>1
  <2>3. sent \subseteq Deeds /\ chat \in [Agents!Ids -> 0..1]
    BY DEF Agents!Init
  <2>4. /\ esc \in BOOLEAN /\ quit \in BOOLEAN /\ session \in BOOLEAN
        /\ busy \in [Agents!Guarded -> BOOLEAN] /\ refused \in [Agents!Guarded -> BOOLEAN]
    BY DEF Agents!Init
  <2> QED
    BY <1>1, <2>1, <2>2, <2>3, <2>4 DEF AgentsShape
<1>3. \A k : Agents!Live(k) = {}
  BY <1>1 DEF Agents!Live
<1>4. OneLives
  BY <1>3 DEF OneLives
<1>5. StopsAndAnswers
  BY <1>1 DEF StopsAndAnswers, Agents!Init
<1>6. Agents!ToldIsSent
  BY <1>1 DEF Agents!ToldIsSent, Agents!Init
<1> QED
  BY <1>2, <1>4, <1>5, <1>6 DEF AgentsInv

\* A run one step further: where it is then, whether by an answer more, what it was told.
Further(r, place, more, did) ==
    [kind |-> r.kind, at |-> place, iteration |-> r.iteration + more, told |-> did,
     stop |-> r.stop]
Advances(i, place, more, did) ==
    /\ i \in DOMAIN runs /\ runs[i].at # "ended"
    /\ place \in {"top", "asked", "tool", "ended"} /\ more \in {0, 1} /\ did \in SUBSET Deeds
    /\ runs[i].iteration + more <= MaxIterations /\ RunKeeps(Further(runs[i], place, more, did))
    /\ runs' = [runs EXCEPT ![i] = Further(runs[i], place, more, did)]


\* What an assignment to some of its fields makes of a run.
LEMMA FieldsOf ==
    ASSUME NEW r \in RunType
    PROVE  /\ r = [kind |-> r.kind, at |-> r.at, iteration |-> r.iteration, told |-> r.told,
                   stop |-> r.stop]
           /\ r.iteration + 0 = r.iteration
  BY AgentNumbers DEF RunType

LEMMA FurtherAt ==
    ASSUME NEW r \in RunType, NEW place
    PROVE  [r EXCEPT !.at = place] = Further(r, place, 0, r.told)
<1>1. [r EXCEPT !.at = place] = [kind |-> r.kind, at |-> place, iteration |-> r.iteration,
                                 told |-> r.told, stop |-> r.stop]
  BY FieldsOf
<1> QED
  BY <1>1, FieldsOf DEF Further

LEMMA FurtherTold ==
    ASSUME NEW r \in RunType, NEW place, NEW did
    PROVE  [r EXCEPT !.at = place, !.told = did] = Further(r, place, 0, did)
<1> DEFINE q == [r EXCEPT !.at = place]
<1>1. [r EXCEPT !.at = place, !.told = did] = [q EXCEPT !.told = did]
  BY Zenon
<1>2. q = Further(r, place, 0, r.told)
  BY FurtherAt
<1> HIDE DEF q
<1>3. [q EXCEPT !.told = did] = Further(r, place, 0, did)
  BY <1>2 DEF Further
<1> QED
  BY <1>1, <1>3

LEMMA FurtherAnswer ==
    ASSUME NEW r \in RunType, NEW place
    PROVE  [r EXCEPT !.at = place, !.iteration = @ + 1] = Further(r, place, 1, r.told)
<1> DEFINE q == [r EXCEPT !.at = place]
<1>1. [r EXCEPT !.at = place, !.iteration = @ + 1] = [q EXCEPT !.iteration = r.iteration + 1]
  BY Zenon
<1>2. q = Further(r, place, 0, r.told)
  BY FurtherAt
<1> HIDE DEF q
<1>3. [q EXCEPT !.iteration = r.iteration + 1] = Further(r, place, 1, r.told)
  BY <1>2 DEF Further
<1> QED
  BY <1>1, <1>3

\* Every run is of a sequence of MaxRuns at most.
LEMMA RunPlaces ==
    ASSUME AgentsShape
    PROVE  /\ DOMAIN runs = 1..Len(runs) /\ Len(runs) \in Nat
           /\ \A i \in DOMAIN runs : i \in Agents!Ids /\ runs[i] \in RunType /\ RunKeeps(runs[i])
<1>1. runs \in Seq(RunType) /\ Len(runs) <= MaxRuns
  BY DEF AgentsShape
<1>2. DOMAIN runs = 1..Len(runs) /\ Len(runs) \in Nat
  BY <1>1
<1>3. \A i \in DOMAIN runs : i \in Agents!Ids
  BY <1>1, <1>2, AgentNumbers DEF Agents!Ids
<1> QED
  BY <1>1, <1>2, <1>3 DEF AgentsShape

\* A run more.
LEMMA RunsAppended ==
    ASSUME AgentsShape, NEW rest \in Seq(RunType), Len(rest) = Len(runs), Len(runs) < MaxRuns,
           \A i \in DOMAIN rest : RunKeeps(rest[i]),
           NEW k \in Agents!Kinds, runs' = Append(rest, Agents!Started(k))
    PROVE  /\ runs' \in Seq(RunType) /\ Len(runs') <= MaxRuns /\ Len(runs') = Len(runs) + 1
           /\ DOMAIN runs' = 1..(Len(runs) + 1)
           /\ \A i \in DOMAIN runs : i \in DOMAIN rest /\ i \in DOMAIN runs' /\ runs'[i] = rest[i]
           /\ runs'[Len(runs) + 1] = Agents!Started(k)
           /\ \A i \in DOMAIN runs' : RunKeeps(runs'[i])
<1> DEFINE new == Agents!Started(k)
<1>1. new \in RunType /\ RunKeeps(new)
  BY StartedRun
<1>2. DOMAIN rest = 1..Len(runs) /\ DOMAIN runs = 1..Len(runs) /\ Len(runs) \in Nat
  BY RunPlaces
<1> HIDE DEF new
<1>3. runs' = Append(rest, new)
  BY DEF new
<1>4. /\ runs' \in Seq(RunType) /\ Len(runs') = Len(runs) + 1
      /\ \A i \in 1..Len(runs) : runs'[i] = rest[i]
      /\ runs'[Len(runs) + 1] = new
  BY <1>1, <1>2, <1>3
<1>5. DOMAIN runs' = 1..(Len(runs) + 1)
  BY <1>4
<1>6. \A i \in DOMAIN runs' : RunKeeps(runs'[i])
  BY <1>1, <1>2, <1>4, <1>5
<1> QED
  BY <1>2, <1>4, <1>5, <1>6, AgentNumbers DEF new

\* The runs, but for who is to stop.
ButStops(rest) ==
    /\ rest \in Seq(RunType) /\ Len(rest) = Len(runs) /\ DOMAIN rest = DOMAIN runs
    /\ \A i \in DOMAIN rest :
          /\ RunKeeps(rest[i]) /\ rest[i].kind = runs[i].kind /\ rest[i].at = runs[i].at
          /\ rest[i].told = runs[i].told

\* A launch tells all to go on, an Esc tells the agents to stop.
LEMMA StopsSet ==
    ASSUME AgentsShape, NEW mark \in [DOMAIN runs -> BOOLEAN],
           NEW rest, rest = [i \in DOMAIN runs |-> [runs[i] EXCEPT !.stop = mark[i]]]
    PROVE  ButStops(rest) /\ \A i \in DOMAIN runs : rest[i].stop = mark[i]
<1>1. DOMAIN runs = 1..Len(runs) /\ Len(runs) \in Nat
  BY RunPlaces
<1>2. ASSUME NEW i \in DOMAIN runs
      PROVE  /\ rest[i] \in RunType /\ RunKeeps(rest[i]) /\ rest[i].kind = runs[i].kind
             /\ rest[i].at = runs[i].at /\ rest[i].told = runs[i].told
             /\ rest[i].stop = mark[i]
  <2>1. runs[i] \in RunType /\ RunKeeps(runs[i]) /\ mark[i] \in BOOLEAN
    BY RunPlaces
  <2>2. rest[i] = [runs[i] EXCEPT !.stop = mark[i]]
    OBVIOUS
  <2>3. /\ rest[i] \in RunType /\ rest[i].kind = runs[i].kind
        /\ rest[i].at = runs[i].at /\ rest[i].told = runs[i].told
        /\ rest[i].iteration = runs[i].iteration
    BY <2>1, <2>2 DEF RunType
  <2>4. rest[i].stop = mark[i]
    BY <2>1, <2>2 DEF RunType
  <2>5. RunKeeps(rest[i])
    BY <2>1, <2>3 DEF RunKeeps
  <2> QED
    BY <2>3, <2>4, <2>5
<1>3. DOMAIN rest = 1..Len(runs) /\ \A i \in 1..Len(runs) : rest[i] \in RunType
  BY <1>1, <1>2
<1>4. rest \in [1..Len(runs) -> RunType]
  BY <1>1, <1>3
<1>5. rest \in Seq(RunType) /\ Len(rest) = Len(runs)
  BY <1>1, <1>4
<1> QED
  BY <1>1, <1>2, <1>3, <1>5 DEF ButStops

\* One run a step further.
LEMMA RunAdvanced ==
    ASSUME AgentsShape, NEW i \in DOMAIN runs,
           NEW place, NEW more, NEW did, Advances(i, place, more, did)
    PROVE  /\ runs' \in Seq(RunType) /\ Len(runs') = Len(runs) /\ DOMAIN runs' = DOMAIN runs
           /\ runs'[i].at = place /\ runs'[i].kind = runs[i].kind /\ runs'[i].told = did
           /\ runs'[i].stop = runs[i].stop
           /\ \A j \in DOMAIN runs : j # i => runs'[j] = runs[j]
           /\ \A j \in DOMAIN runs' : RunKeeps(runs'[j])
<1>1. /\ DOMAIN runs = 1..Len(runs) /\ Len(runs) \in Nat /\ runs \in Seq(RunType)
      /\ runs[i] \in RunType
  BY RunPlaces DEF AgentsShape
<1> DEFINE r == Further(runs[i], place, more, did)
<1>2. r \in RunType /\ r.at = place /\ r.kind = runs[i].kind /\ r.told = did /\ r.stop = runs[i].stop
  <2> DEFINE old == runs[i]
  <2>1. old \in RunType /\ old.iteration \in 0..MaxIterations
    BY <1>1 DEF RunType
  <2>2. old.iteration + more \in 0..MaxIterations
    BY <2>1, AgentNumbers DEF Advances
  <2>3. old.kind \in Agents!Kinds /\ old.stop \in BOOLEAN
    BY <2>1 DEF RunType
  <2> QED
    BY <2>2, <2>3 DEF RunType, Further, Advances
<1>3. /\ DOMAIN runs' = DOMAIN runs /\ runs'[i] = r
      /\ \A j \in DOMAIN runs : j # i => runs'[j] = runs[j]
  BY DEF Advances
<1>4. runs' \in Seq(RunType) /\ Len(runs') = Len(runs)
  <2> HIDE DEF r
  <2>1. runs' = [runs EXCEPT ![i] = r]
    BY DEF Advances, r
  <2> QED
    BY <1>1, <1>2, <2>1
<1>5. \A j \in DOMAIN runs' : RunKeeps(runs'[j])
  BY <1>3, RunPlaces DEF Advances
<1> QED
  BY <1>2, <1>3, <1>4, <1>5

\* What the actions of a run do to it.
LEMMA Moves ==
    ASSUME AgentsShape, NEW i \in Agents!Ids,
           \/ Agents!Ask(i) \/ Agents!CallsTool(i) \/ Agents!ReadTool(i) \/ Agents!SendTool(i)
           \/ Agents!DirectTool(i)
    PROVE  /\ \E place \in {"top", "asked", "tool"}, more \in {0, 1}, did \in SUBSET Deeds :
                 /\ Advances(i, place, more, did) /\ runs[i].told \subseteq did
                 /\ did \subseteq runs[i].told \cup sent'
                 /\ place = "asked" => ~ esc
           /\ sent \subseteq sent' /\ sent' \subseteq Deeds /\ (sent' # sent => session)
           /\ UNCHANGED <<busy, esc, quit, chat, session, keys, refused>>
<1> DEFINE old == runs[i]
<1>1. /\ i \in DOMAIN runs /\ old \in RunType /\ RunKeeps(old) /\ runs \in Seq(RunType)
      /\ old.told \in SUBSET Deeds /\ old.iteration \in Nat /\ sent \subseteq Deeds
      /\ old.iteration <= MaxIterations
  <2>1. i \in DOMAIN runs
    BY DEF Agents!Ask, Agents!CallsTool, Agents!ReadTool, Agents!SendTool, Agents!DirectTool, Agents!At
  <2> QED
    BY <2>1, RunPlaces, AgentNumbers DEF AgentsShape, RunType
<1>0. old = [kind |-> old.kind, at |-> old.at, iteration |-> old.iteration, told |-> old.told,
             stop |-> old.stop]
  BY <1>1 DEF RunType
<1>2. ASSUME old.at = "tool"
      PROVE  \A what \in {"room", "message"} : <<what, Agents!Call(i)>> \in Deeds
  BY <1>1, <1>2, AgentNumbers DEF Agents!Call, RunKeeps, Deeds
<1>3. CASE Agents!Ask(i)
  <2>1. old.at = "top" /\ runs' = [runs EXCEPT ![i].at = "asked"] /\ old.iteration < MaxIterations /\ ~ esc
    BY <1>3 DEF Agents!Ask, Agents!At
  <2>2. runs' = [runs EXCEPT ![i] = Further(old, "asked", 0, old.told)]
    BY <1>1, <2>1, FurtherAt
  <2>3. RunKeeps(Further(old, "asked", 0, old.told)) /\ old.iteration + 0 <= MaxIterations
    BY <1>1, <2>1, AgentNumbers DEF Further, RunKeeps
  <2>4. Advances(i, "asked", 0, old.told)
    <3>1. i \in DOMAIN runs /\ old.at # "ended" /\ old.told \in SUBSET Deeds
      BY <1>1, <2>1
    <3> QED
      BY <3>1, <2>2, <2>3 DEF Advances
  <2>5. sent' = sent /\ UNCHANGED <<busy, esc, quit, chat, session, keys, refused>>
    BY <1>3 DEF Agents!Ask
  <2> QED
    BY <1>1, <2>1, <2>4, <2>5
<1>4. CASE Agents!CallsTool(i)
  <2>1. /\ old.at = "asked" /\ old.kind # "llm"
        /\ runs' = [runs EXCEPT ![i].at = "tool", ![i].iteration = @ + 1]
    BY <1>4 DEF Agents!CallsTool, Agents!At
  <2>2. runs' = [runs EXCEPT ![i] = Further(old, "tool", 1, old.told)]
    <3>1. runs' = [runs EXCEPT ![i] = [old EXCEPT !.at = "tool", !.iteration = @ + 1]]
      BY <1>1, <2>1
    <3> QED
      BY <1>1, <3>1, FurtherAnswer
  <2>3. RunKeeps(Further(old, "tool", 1, old.told))
    BY <1>1, <2>1, AgentNumbers DEF Further, RunKeeps, RunType, Agents!Kinds, Agents!Guarded
  <2>4. old.iteration + 1 <= MaxIterations
    BY <1>1, <2>1, AgentNumbers DEF RunKeeps
  <2>5. sent' = sent /\ UNCHANGED <<busy, esc, quit, chat, session, keys, refused>>
    BY <1>4 DEF Agents!CallsTool
  <2>6. Advances(i, "tool", 1, old.told)
    <3>1. i \in DOMAIN runs /\ old.at # "ended" /\ old.told \in SUBSET Deeds
      BY <1>1, <2>1
    <3> QED
      BY <3>1, <2>2, <2>3, <2>4 DEF Advances
  <2> QED
    BY <1>1, <2>5, <2>6
<1>5. ASSUME old.at = "tool", NEW did \in SUBSET Deeds,
             runs' = [runs EXCEPT ![i] = [old EXCEPT !.at = "top", !.told = did]]
      PROVE  Advances(i, "top", 0, did)
  <2>5. [old EXCEPT !.at = "top", !.told = did] = Further(old, "top", 0, did)
    <3>1. old \in RunType
      BY <1>1
    <3> QED
      BY <3>1, FurtherTold
  <2>1. runs' = [runs EXCEPT ![i] = Further(old, "top", 0, did)]
    BY <1>5, <2>5
  <2>2. old.kind \in Agents!Guarded
    BY <1>1, <1>5 DEF RunKeeps
  <2>3. RunKeeps(Further(old, "top", 0, did))
    BY <2>2 DEF Further, RunKeeps
  <2>4. old.iteration + 0 <= MaxIterations /\ i \in DOMAIN runs /\ old.at # "ended"
    BY <1>1, <1>5
  <2> QED
    BY <2>1, <2>3, <2>4 DEF Advances
<1>6. CASE Agents!ReadTool(i)
  <2>1. old.at = "tool" /\ runs' = [runs EXCEPT ![i].at = "top"]
    BY <1>6 DEF Agents!ReadTool, Agents!At
  <2>2. runs' = [runs EXCEPT ![i] = [old EXCEPT !.at = "top", !.told = old.told]]
    BY <1>1, <2>1 DEF RunType
  <2>4. Advances(i, "top", 0, old.told)
    BY <1>1, <2>1, <2>2, <1>5
  <2>5. sent' = sent /\ UNCHANGED <<busy, esc, quit, chat, session, keys, refused>>
    BY <1>6 DEF Agents!ReadTool
  <2> QED
    BY <1>1, <2>4, <2>5
<1>7. CASE Agents!SendTool(i)
  <2> DEFINE deed == <<"message", Agents!Call(i)>>
  <2>1. PICK obeyed \in BOOLEAN : \E ok \in BOOLEAN :
            /\ Agents!At(i, "tool") /\ (ok => obeyed) /\ ((obeyed \/ ok) => session)
            /\ sent' = IF obeyed THEN sent \cup {deed} ELSE sent
            /\ runs' = [runs EXCEPT ![i].at = "top",
                            ![i].told = IF ok THEN @ \cup {deed} ELSE @]
            /\ UNCHANGED <<busy, esc, quit, chat, session, keys, refused>>
    BY <1>7 DEF Agents!SendTool
  <2>2. PICK ok \in BOOLEAN :
            /\ Agents!At(i, "tool") /\ (ok => obeyed) /\ ((obeyed \/ ok) => session)
            /\ sent' = IF obeyed THEN sent \cup {deed} ELSE sent
            /\ runs' = [runs EXCEPT ![i].at = "top",
                            ![i].told = IF ok THEN @ \cup {deed} ELSE @]
            /\ UNCHANGED <<busy, esc, quit, chat, session, keys, refused>>
    BY <2>1
  <2>3. old.at = "tool" /\ deed \in Deeds
    BY <1>2, <2>2 DEF Agents!At
  <2> DEFINE did == IF ok THEN old.told \cup {deed} ELSE old.told
  <2> HIDE DEF deed
  <2>4. did \in SUBSET Deeds /\ old.told \subseteq did
    BY <1>1, <2>3
  <2>5. did \subseteq old.told \cup sent' /\ sent \subseteq sent' /\ sent' \subseteq Deeds
    BY <1>1, <2>2, <2>3
  <2>6. runs' = [runs EXCEPT ![i] = [old EXCEPT !.at = "top", !.told = did]]
    BY <1>1, <2>2 DEF RunType
  <2>7. Advances(i, "top", 0, did)
    <3> HIDE DEF did
    <3> QED
      BY <2>3, <2>4, <2>6, <1>5
  <2> QED
    BY <2>2, <2>4, <2>5, <2>7
<1>8. CASE Agents!DirectTool(i)
  <2> DEFINE there == <<"room", Agents!Call(i)>>
             deed == <<"message", Agents!Call(i)>>
  <2>1. PICK room \in BOOLEAN : \E message \in BOOLEAN :
            /\ Agents!At(i, "tool") /\ session /\ (message => room)
            /\ sent' = sent \cup (IF room THEN {there} ELSE {}) \cup (IF message THEN {deed} ELSE {})
            /\ runs' = [runs EXCEPT ![i].at = "top",
                            ![i].told = IF message THEN @ \cup {there, deed} ELSE @]
            /\ UNCHANGED <<busy, esc, quit, chat, session, keys, refused>>
    BY <1>8 DEF Agents!DirectTool
  <2>2. PICK message \in BOOLEAN :
            /\ Agents!At(i, "tool") /\ session /\ (message => room)
            /\ sent' = sent \cup (IF room THEN {there} ELSE {}) \cup (IF message THEN {deed} ELSE {})
            /\ runs' = [runs EXCEPT ![i].at = "top",
                            ![i].told = IF message THEN @ \cup {there, deed} ELSE @]
            /\ UNCHANGED <<busy, esc, quit, chat, session, keys, refused>>
    BY <2>1
  <2>3. old.at = "tool" /\ deed \in Deeds /\ there \in Deeds
    BY <1>2, <2>2 DEF Agents!At
  <2> DEFINE did == IF message THEN old.told \cup {there, deed} ELSE old.told
  <2> HIDE DEF deed, there
  <2>4. did \in SUBSET Deeds /\ old.told \subseteq did
    BY <1>1, <2>3
  <2>5. did \subseteq old.told \cup sent' /\ sent \subseteq sent' /\ sent' \subseteq Deeds
    BY <1>1, <2>2, <2>3
  <2>6. runs' = [runs EXCEPT ![i] = [old EXCEPT !.at = "top", !.told = did]]
    BY <1>1, <2>2 DEF RunType
  <2>7. Advances(i, "top", 0, did)
    <3> HIDE DEF did
    <3> QED
      BY <2>3, <2>4, <2>6, <1>5
  <2> QED
    BY <2>2, <2>4, <2>5, <2>7
<1> QED
  BY <1>3, <1>4, <1>6, <1>7, <1>8

\* How a run ends.
LEMMA Endings ==
    ASSUME AgentsShape, NEW i \in Agents!Ids,
           Agents!Stops(i) \/ Agents!Fails(i) \/ Agents!FinalAnswer(i)
    PROVE  /\ \E more \in {0, 1} : Advances(i, "ended", more, runs[i].told)
           /\ Agents!Ends(i) /\ UNCHANGED <<esc, quit, sent, session, keys>>
<1> DEFINE old == runs[i]
<1>0. /\ i \in DOMAIN runs /\ old.at \in {"top", "asked"} /\ Agents!Ends(i)
      /\ UNCHANGED <<esc, quit, sent, session, keys>>
  BY DEF Agents!Stops, Agents!Fails, Agents!FinalAnswer, Agents!At
<1>1. /\ old \in RunType /\ RunKeeps(old)
      /\ old.told \in SUBSET Deeds /\ old.iteration \in Nat /\ old.iteration <= MaxIterations
  BY <1>0, RunPlaces, AgentNumbers DEF RunType
<1>2. \A more : RunKeeps(Further(old, "ended", more, old.told))
  BY DEF RunKeeps, Further
<1>3. CASE Agents!Stops(i) \/ Agents!Fails(i)
  <2>1. runs' = [runs EXCEPT ![i].at = "ended"]
    BY <1>3 DEF Agents!Stops, Agents!Fails
  <2>2. runs' = [runs EXCEPT ![i] = Further(old, "ended", 0, old.told)]
    BY <1>0, <1>1, <2>1, FurtherAt
  <2>3. old.iteration + 0 <= MaxIterations /\ old.at # "ended"
    BY <1>0, <1>1
  <2>4. Advances(i, "ended", 0, old.told)
    BY <1>0, <1>1, <1>2, <2>2, <2>3 DEF Advances
  <2> QED
    BY <1>0, <2>4
<1>4. CASE Agents!FinalAnswer(i)
  <2>1. old.at = "asked" /\ runs' = [runs EXCEPT ![i].at = "ended", ![i].iteration = @ + 1]
    BY <1>4 DEF Agents!FinalAnswer, Agents!At
  <2>2. runs' = [runs EXCEPT ![i] = Further(old, "ended", 1, old.told)]
    <3>1. runs' = [runs EXCEPT ![i] = [old EXCEPT !.at = "ended", !.iteration = @ + 1]]
      BY <1>0, <1>1, <2>1
    <3> QED
      BY <1>1, <3>1, FurtherAnswer
  <2>3. old.iteration + 1 <= MaxIterations
    BY <1>1, <2>1, AgentNumbers DEF RunKeeps
  <2>4. Advances(i, "ended", 1, old.told)
    BY <1>0, <1>1, <1>2, <2>2, <2>3, <2>1 DEF Advances
  <2> QED
    BY <1>0, <2>4
<1> QED
  BY <1>3, <1>4

\* Which runs go on after a step of one.
LEMMA LiveAfter ==
    ASSUME AgentsShape, NEW i \in DOMAIN runs, NEW place, NEW more, NEW did,
           Advances(i, place, more, did), NEW k
    PROVE  Agents!Live(k)' = IF place = "ended" THEN Agents!Live(k) \ {i} ELSE Agents!Live(k)
<1>1. /\ DOMAIN runs' = DOMAIN runs /\ runs'[i].at = place /\ runs'[i].kind = runs[i].kind
      /\ \A j \in DOMAIN runs : j # i => runs'[j] = runs[j]
  BY RunAdvanced
<1>2. runs[i].at # "ended"
  BY DEF Advances
<1>3. Agents!Live(k)' = { j \in DOMAIN runs : runs'[j].kind = k /\ runs'[j].at # "ended" }
  BY <1>1 DEF Agents!Live
<1>4. \A j \in DOMAIN runs : (runs'[j].kind = k /\ runs'[j].at # "ended") <=>
        j \in (IF place = "ended" THEN Agents!Live(k) \ {i} ELSE Agents!Live(k))
  <2> TAKE j \in DOMAIN runs
  <2>1. j \in Agents!Live(k) <=> runs[j].kind = k /\ runs[j].at # "ended"
    BY DEF Agents!Live
  <2> QED
    BY <1>1, <1>2, <2>1
<1>5. Agents!Live(k) \subseteq DOMAIN runs
  BY DEF Agents!Live
<1> QED
  BY <1>3, <1>4, <1>5

\* The shape, after a step of a run.
LEMMA ShapeAdvanced ==
    ASSUME AgentsShape, NEW i \in Agents!Ids, NEW place, NEW more, NEW did,
           Advances(i, place, more, did),
           sent' \subseteq Deeds, UNCHANGED <<esc, quit, session, keys>>,
           busy' \in [Agents!Guarded -> BOOLEAN], refused' \in [Agents!Guarded -> BOOLEAN],
           chat' \in [Agents!Ids -> 0..1]
    PROVE  AgentsShape'
<1>1. i \in DOMAIN runs
  BY DEF Advances
<1>2. /\ runs' \in Seq(RunType) /\ Len(runs') = Len(runs) /\ DOMAIN runs' = DOMAIN runs
      /\ \A j \in DOMAIN runs' : RunKeeps(runs'[j])
  BY <1>1, RunAdvanced
<1>3. Len(runs') <= MaxRuns
  BY <1>2 DEF AgentsShape
<1>4. esc' \in BOOLEAN /\ quit' \in BOOLEAN /\ session' \in BOOLEAN /\ keys' \in 0..MaxKeys
  BY DEF AgentsShape
<1> QED
  BY <1>2, <1>3, <1>4 DEF AgentsShape

\* A step within a run, and the end of one, keep all of it.
LEMMA MoveKeeps ==
    ASSUME AgentsInv, NEW i \in Agents!Ids,
           \/ Agents!Ask(i) \/ Agents!CallsTool(i) \/ Agents!ReadTool(i) \/ Agents!SendTool(i)
           \/ Agents!DirectTool(i)
    PROVE  AgentsInv' /\ Agents!EscStops
<1>0. AgentsShape /\ OneLives /\ StopsAndAnswers /\ Agents!ToldIsSent
  BY DEF AgentsInv
<1>1. PICK place \in {"top", "asked", "tool"} : \E more \in {0, 1}, did \in SUBSET Deeds :
          /\ Advances(i, place, more, did) /\ runs[i].told \subseteq did
          /\ did \subseteq runs[i].told \cup sent' /\ (place = "asked" => ~ esc)
  BY <1>0, Moves
<1>2. PICK more \in {0, 1}, did \in SUBSET Deeds :
          /\ Advances(i, place, more, did) /\ runs[i].told \subseteq did
          /\ did \subseteq runs[i].told \cup sent' /\ (place = "asked" => ~ esc)
  BY <1>1
<1>3. /\ sent \subseteq sent' /\ sent' \subseteq Deeds /\ (sent' # sent => session)
      /\ busy' = busy /\ esc' = esc /\ quit' = quit /\ chat' = chat /\ session' = session
      /\ keys' = keys /\ refused' = refused
  BY <1>0, Moves
<1>4. i \in DOMAIN runs /\ runs[i].at # "ended"
  BY <1>2 DEF Advances
<1>5. /\ DOMAIN runs' = DOMAIN runs
      /\ runs'[i].at = place /\ runs'[i].told = did /\ runs'[i].stop = runs[i].stop
      /\ \A j \in DOMAIN runs : j # i => runs'[j] = runs[j]
  BY <1>0, <1>2, <1>4, RunAdvanced
<1>6. AgentsShape'
  <2>1. /\ busy' \in [Agents!Guarded -> BOOLEAN] /\ refused' \in [Agents!Guarded -> BOOLEAN]
        /\ chat' \in [Agents!Ids -> 0..1]
    BY <1>0, <1>3 DEF AgentsShape
  <2> QED
    BY <1>0, <1>2, <1>3, <2>1, ShapeAdvanced
<1>7. OneLives'
  <2>1. \A k : Agents!Live(k)' = Agents!Live(k)
    BY <1>0, <1>1, <1>2, <1>4, LiveAfter
  <2> QED
    BY <1>0, <1>3, <2>1 DEF OneLives
<1>8. StopsAndAnswers'
  <2>1. \A j \in DOMAIN runs' : runs'[j].stop => esc'
    BY <1>0, <1>3, <1>4, <1>5 DEF StopsAndAnswers
  <2>2. \A j \in Agents!Ids : chat'[j] = IF j \in DOMAIN runs' /\ runs'[j].at = "ended" THEN 1 ELSE 0
    BY <1>0, <1>1, <1>3, <1>4, <1>5 DEF StopsAndAnswers
  <2> QED
    BY <2>1, <2>2 DEF StopsAndAnswers
<1>9. Agents!ToldIsSent'
  <2>1. \A j \in DOMAIN runs' : runs'[j].told \subseteq sent'
    BY <1>0, <1>2, <1>3, <1>4, <1>5 DEF Agents!ToldIsSent
  <2>2. sent' # {} => session'
    BY <1>0, <1>3 DEF Agents!ToldIsSent
  <2> QED
    BY <2>1, <2>2 DEF Agents!ToldIsSent
<1>10. Agents!EscStops
  <2>1. ASSUME NEW j \in DOMAIN runs', Agents!At(j, "top"), runs[j].stop
        PROVE  runs'[j].at # "asked"
    <3>1. esc /\ runs[j].at = "top"
      BY <1>0, <1>5, <2>1 DEF StopsAndAnswers, Agents!At
    <3> QED
      BY <1>2, <1>5, <3>1
  <2>2. \A j \in DOMAIN runs' : chat'[j] = IF runs'[j].at = "ended" THEN 1 ELSE 0
    BY <1>0, <1>5, <1>8, RunPlaces DEF StopsAndAnswers
  <2> QED
    BY <2>1, <2>2 DEF Agents!EscStops
<1> QED
  BY <1>6, <1>7, <1>8, <1>9, <1>10 DEF AgentsInv

LEMMA EndKeeps ==
    ASSUME AgentsInv, NEW i \in Agents!Ids,
           Agents!Stops(i) \/ Agents!Fails(i) \/ Agents!FinalAnswer(i)
    PROVE  AgentsInv' /\ Agents!EscStops
<1>0. AgentsShape /\ OneLives /\ StopsAndAnswers /\ Agents!ToldIsSent
  BY DEF AgentsInv
<1>1. PICK more \in {0, 1} : Advances(i, "ended", more, runs[i].told)
  BY <1>0, Endings
<1>2. /\ Agents!Ends(i)
      /\ esc' = esc /\ quit' = quit /\ sent' = sent /\ session' = session /\ keys' = keys
  BY <1>0, Endings
<1>3. i \in DOMAIN runs /\ runs[i].at # "ended"
  BY <1>1 DEF Advances
<1>4. /\ DOMAIN runs' = DOMAIN runs
      /\ runs'[i].at = "ended" /\ runs'[i].told = runs[i].told /\ runs'[i].stop = runs[i].stop
      /\ \A j \in DOMAIN runs : j # i => runs'[j] = runs[j]
  BY <1>0, <1>1, <1>3, RunAdvanced
<1>5. chat[i] = 0 /\ chat \in [Agents!Ids -> 0..1] /\ chat' = [chat EXCEPT ![i] = 1]
  <2>1. chat[i] = 0
    BY <1>0, <1>3 DEF StopsAndAnswers
  <2>2. chat' = [chat EXCEPT ![i] = chat[i] + 1]
    BY <1>2 DEF Agents!Ends
  <2>3. chat[i] + 1 = 1
    BY <2>1
  <2> QED
    BY <1>0, <2>1, <2>2, <2>3 DEF AgentsShape
<1>6. chat' \in [Agents!Ids -> 0..1] /\ chat'[i] = 1 /\ \A j \in Agents!Ids : j # i => chat'[j] = chat[j]
  BY <1>5
<1>7. /\ busy' \in [Agents!Guarded -> BOOLEAN] /\ refused' \in [Agents!Guarded -> BOOLEAN]
      /\ \A k \in Agents!Guarded : k # runs[i].kind => busy'[k] = busy[k] /\ refused'[k] = refused[k]
      /\ \A k \in Agents!Guarded : (k = runs[i].kind /\ Agents!Live(k) # {i}) => refused'[k] = refused[k]
  <2>1. busy \in [Agents!Guarded -> BOOLEAN] /\ refused \in [Agents!Guarded -> BOOLEAN]
    BY <1>0 DEF AgentsShape
  <2>2. /\ busy' = IF runs[i].kind \in Agents!Guarded THEN [busy EXCEPT ![runs[i].kind] = FALSE] ELSE busy
        /\ refused' = IF runs[i].kind \in Agents!Guarded /\ Agents!Live(runs[i].kind) = {i}
                      THEN [refused EXCEPT ![runs[i].kind] = FALSE] ELSE refused
    BY <1>2 DEF Agents!Ends
  <2>3. busy' \in [Agents!Guarded -> BOOLEAN] /\ refused' \in [Agents!Guarded -> BOOLEAN]
    BY <2>1, <2>2
  <2>4. \A k \in Agents!Guarded : k # runs[i].kind => busy'[k] = busy[k] /\ refused'[k] = refused[k]
    BY <2>1, <2>2
  <2>5. \A k \in Agents!Guarded : (k = runs[i].kind /\ Agents!Live(k) # {i}) => refused'[k] = refused[k]
    BY <2>2
  <2> QED
    BY <2>3, <2>4, <2>5
<1>8. AgentsShape'
  <2>1. sent' \subseteq Deeds
    BY <1>0, <1>2 DEF AgentsShape
  <2> QED
    BY <1>0, <1>1, <1>2, <1>6, <1>7, <2>1, ShapeAdvanced
<1>9. OneLives'
  <2>1. \A k : Agents!Live(k)' = Agents!Live(k) \ {i}
    BY <1>0, <1>1, <1>3, LiveAfter
  <2>2. \A k : i \in Agents!Live(k) <=> k = runs[i].kind
    BY <1>3 DEF Agents!Live
  <2>3. ASSUME NEW k \in Agents!Guarded
        PROVE  /\ \A m, j \in Agents!Live(k)' : m # j => refused'[k]
               /\ (Agents!Live(k)' # {} /\ ~ busy'[k]) => refused'[k]
    <3>1. CASE k # runs[i].kind
      BY <1>0, <1>7, <2>1, <2>2, <3>1 DEF OneLives
    <3>2. CASE k = runs[i].kind /\ Agents!Live(k) = {i}
      BY <2>1, <3>2
    <3>3. CASE k = runs[i].kind /\ Agents!Live(k) # {i}
      <4>1. i \in Agents!Live(k) /\ refused'[k] = refused[k]
        BY <1>7, <2>2, <3>3
      <4>2. PICK j \in Agents!Live(k) : j # i
        BY <3>3, <4>1
      <4>3. refused[k]
        BY <1>0, <4>1, <4>2 DEF OneLives
      <4> QED
        BY <4>1, <4>3
    <3> QED
      BY <3>1, <3>2, <3>3
  <2> QED
    BY <2>3 DEF OneLives
<1>10. StopsAndAnswers'
  <2>1. \A j \in DOMAIN runs' : runs'[j].stop => esc'
    BY <1>0, <1>2, <1>3, <1>4 DEF StopsAndAnswers
  <2>2. \A j \in Agents!Ids : chat'[j] = IF j \in DOMAIN runs' /\ runs'[j].at = "ended" THEN 1 ELSE 0
    BY <1>0, <1>3, <1>4, <1>6 DEF StopsAndAnswers
  <2> QED
    BY <2>1, <2>2 DEF StopsAndAnswers
<1>11. Agents!ToldIsSent'
  BY <1>0, <1>2, <1>3, <1>4 DEF Agents!ToldIsSent
<1>12. Agents!EscStops
  <2>1. \A j \in DOMAIN runs' : Agents!At(j, "top") => runs'[j].at # "asked"
    BY <1>4 DEF Agents!At
  <2>2. \A j \in DOMAIN runs' : chat'[j] = IF runs'[j].at = "ended" THEN 1 ELSE 0
    BY <1>0, <1>4, <1>10, RunPlaces DEF StopsAndAnswers
  <2> QED
    BY <2>1, <2>2 DEF Agents!EscStops
<1> QED
  BY <1>8, <1>9, <1>10, <1>11, <1>12 DEF AgentsInv

\* A run more keeps all of it, once its kind is free.
LEMMA OneMore ==
    ASSUME AgentsInv, NEW rest, ButStops(rest), NEW k \in Agents!Kinds, Len(runs) < MaxRuns,
           runs' = Append(rest, Agents!Started(k)),
           \A i \in DOMAIN runs : rest[i].stop => (runs[i].stop /\ esc'),
           busy' \in [Agents!Guarded -> BOOLEAN], esc' \in BOOLEAN,
           \A x \in Agents!Guarded \ {k} : busy'[x] = busy[x],
           k \in Agents!Guarded => ~ busy[k] /\ busy'[k],
           UNCHANGED <<quit, chat, sent, session, keys, refused>>
    PROVE  AgentsInv' /\ Agents!EscStops
<1> DEFINE at == Len(runs) + 1
<1>0. AgentsShape /\ OneLives /\ StopsAndAnswers /\ Agents!ToldIsSent
  BY DEF AgentsInv
<1>1. /\ rest \in Seq(RunType) /\ Len(rest) = Len(runs) /\ DOMAIN rest = DOMAIN runs
      /\ \A i \in DOMAIN rest :
            /\ RunKeeps(rest[i]) /\ rest[i].kind = runs[i].kind /\ rest[i].at = runs[i].at
            /\ rest[i].told = runs[i].told
  BY DEF ButStops
<1>2. /\ runs' \in Seq(RunType) /\ Len(runs') <= MaxRuns
      /\ DOMAIN runs' = 1..at
      /\ \A i \in DOMAIN runs : i \in DOMAIN runs' /\ runs'[i] = rest[i]
      /\ runs'[at] = Agents!Started(k)
      /\ \A i \in DOMAIN runs' : RunKeeps(runs'[i])
  BY <1>0, <1>1, RunsAppended
<1>3. /\ DOMAIN runs = 1..Len(runs) /\ Len(runs) \in Nat /\ at \in Agents!Ids /\ at \notin DOMAIN runs
      /\ \A i \in DOMAIN runs : i \in Agents!Ids
  BY <1>0, RunPlaces, AgentNumbers DEF Agents!Ids
<1>4. \A i \in DOMAIN runs' : i = at \/ i \in DOMAIN runs
  BY <1>2, <1>3
<1>5. /\ runs'[at].kind = k /\ runs'[at].at # "ended" /\ runs'[at].told = {} /\ ~ runs'[at].stop
  BY <1>2 DEF Agents!Started
<1>6. /\ quit' = quit /\ chat' = chat /\ sent' = sent /\ session' = session /\ keys' = keys
      /\ refused' = refused
  OBVIOUS
<1> HIDE DEF at
<1>7. AgentsShape'
  BY <1>0, <1>2, <1>6 DEF AgentsShape
<1>8. OneLives'
  <2>1. \A i \in DOMAIN runs : runs'[i].kind = runs[i].kind /\ runs'[i].at = runs[i].at
    BY <1>1, <1>2
  <2>2. \A x, i : i \in Agents!Live(x)' <=> i \in Agents!Live(x) \/ (i = at /\ x = k)
    <3>1. \A x, i : i \in Agents!Live(x)' <=>
              i \in DOMAIN runs' /\ runs'[i].kind = x /\ runs'[i].at # "ended"
      BY DEF Agents!Live
    <3>2. \A x, i : i \in Agents!Live(x) <=>
              i \in DOMAIN runs /\ runs[i].kind = x /\ runs[i].at # "ended"
      BY DEF Agents!Live
    <3>3. at \in DOMAIN runs'
      BY <1>2, <1>3 DEF at
    <3> QED
      BY <1>2, <1>3, <1>4, <1>5, <2>1, <3>1, <3>2, <3>3
  <2>3. ASSUME NEW x \in Agents!Guarded
        PROVE  /\ \A i, j \in Agents!Live(x)' : i # j => refused'[x]
               /\ (Agents!Live(x)' # {} /\ ~ busy'[x]) => refused'[x]
    <3>1. CASE x # k
      <4>3. \A i : i \in Agents!Live(x)' <=> i \in Agents!Live(x)
        BY <2>2, <3>1, Zenon
      <4>1. Agents!Live(x)' = Agents!Live(x)
        BY <4>3
      <4>2. busy'[x] = busy[x] /\ refused'[x] = refused[x]
        BY <1>6, <3>1
      <4> QED
        BY <1>0, <4>1, <4>2 DEF OneLives
    <3>2. CASE x = k
      <4>1. busy'[k] /\ ~ busy[k] /\ refused' = refused
        BY <1>6, <3>2
      <4>2. Agents!Live(k) # {} => refused[k]
        BY <1>0, <4>1, <3>2 DEF OneLives
      <4>3. \A i, j \in Agents!Live(k)' : i # j => i \in Agents!Live(k) \/ j \in Agents!Live(k)
        BY <2>2
      <4>6. refused'[k] = refused[k]
        BY <4>1
      <4>7. \A i, j \in Agents!Live(k)' : i # j => refused'[k]
        BY <4>2, <4>3, <4>6, Zenon
      <4>4. \A i, j \in Agents!Live(x)' : i # j => refused'[x]
        BY <3>2, <4>7
      <4>5. busy'[x]
        BY <3>2, <4>1
      <4> QED
        BY <4>4, <4>5
    <3> QED
      BY <3>1, <3>2
  <2> QED
    BY <2>3 DEF OneLives
<1>9. StopsAndAnswers'
  <2>1. \A i \in DOMAIN runs' : runs'[i].stop => esc'
    BY <1>2, <1>4, <1>5
  <2>2. \A i \in Agents!Ids : chat'[i] = IF i \in DOMAIN runs' /\ runs'[i].at = "ended" THEN 1 ELSE 0
    BY <1>0, <1>1, <1>2, <1>3, <1>4, <1>5, <1>6 DEF StopsAndAnswers
  <2> QED
    BY <2>1, <2>2 DEF StopsAndAnswers
<1>10. Agents!ToldIsSent'
  BY <1>0, <1>1, <1>2, <1>4, <1>5, <1>6 DEF Agents!ToldIsSent
<1>11. Agents!EscStops
  <2>1. ASSUME NEW i \in DOMAIN runs', Agents!At(i, "top") PROVE runs'[i].at # "asked"
    BY <1>1, <1>2, <2>1 DEF Agents!At
  <2>2. \A i \in DOMAIN runs' : chat'[i] = IF runs'[i].at = "ended" THEN 1 ELSE 0
    BY <1>3, <1>4, <1>9 DEF StopsAndAnswers
  <2> QED
    BY <2>1, <2>2 DEF Agents!EscStops
<1> QED
  BY <1>7, <1>8, <1>9, <1>10, <1>11 DEF AgentsInv

LEMMA LaunchKeeps ==
    ASSUME AgentsInv, (\E k \in Agents!Guarded : Agents!Launch(k)) \/ Agents!LaunchLlm
    PROVE  AgentsInv' /\ Agents!EscStops
<1>0. /\ AgentsShape /\ busy \in [Agents!Guarded -> BOOLEAN] /\ esc \in BOOLEAN
      /\ \A i \in DOMAIN runs : runs[i].stop => esc
  BY DEF AgentsInv, AgentsShape, StopsAndAnswers
<1>1. ASSUME NEW k \in Agents!Guarded, Agents!Launch(k) PROVE AgentsInv' /\ Agents!EscStops
  <2> DEFINE rest == [i \in DOMAIN runs |-> [runs[i] EXCEPT !.stop = FALSE]]
             mark == [i \in DOMAIN runs |-> FALSE]
  <2>1. rest = [i \in DOMAIN runs |-> [runs[i] EXCEPT !.stop = mark[i]]]
    OBVIOUS
  <2>2. mark \in [DOMAIN runs -> BOOLEAN] /\ \A i \in DOMAIN runs : ~ mark[i]
    OBVIOUS
  <2>3. /\ Len(runs) < MaxRuns /\ runs' = Append(rest, Agents!Started(k)) /\ ~ busy[k]
        /\ busy' = [busy EXCEPT ![k] = TRUE] /\ esc' = FALSE
        /\ UNCHANGED <<quit, chat, sent, session, keys, refused>>
    BY <1>1 DEF Agents!Launch
  <2> HIDE DEF rest, mark
  <2>4. ButStops(rest) /\ \A i \in DOMAIN runs : ~ rest[i].stop
    BY <1>0, <2>1, <2>2, StopsSet
  <2>5. /\ busy' \in [Agents!Guarded -> BOOLEAN] /\ busy'[k]
        /\ \A x \in Agents!Guarded \ {k} : busy'[x] = busy[x]
    BY <1>0, <2>3
  <2>6. k \in Agents!Kinds
    BY DEF Agents!Kinds, Agents!Guarded
  <2> QED
    BY <2>3, <2>4, <2>5, <2>6, OneMore
<1>2. CASE Agents!LaunchLlm
  <2>1. /\ Len(runs) < MaxRuns /\ runs' = Append(runs, Agents!Started("llm"))
        /\ busy' = busy /\ esc' = esc /\ UNCHANGED <<quit, chat, sent, session, keys, refused>>
    BY <1>2 DEF Agents!LaunchLlm
  <2>2. ButStops(runs)
    BY <1>0 DEF ButStops, AgentsShape
  <2>3. "llm" \in Agents!Kinds /\ "llm" \notin Agents!Guarded
    BY DEF Agents!Kinds, Agents!Guarded
  <2>4. \A i \in DOMAIN runs : runs[i].stop => (runs[i].stop /\ esc')
    BY <1>0, <2>1
  <2> QED
    BY <1>0, <2>1, <2>2, <2>3, <2>4, OneMore
<1> QED
  BY <1>1, <1>2

\* An Esc, a refusal and Ctrl+C.
LEMMA EscKeeps ==
    ASSUME AgentsInv, Agents!Esc
    PROVE  AgentsInv' /\ Agents!EscStops
<1> DEFINE mark == [i \in DOMAIN runs |-> runs[i].kind \in Agents!Guarded]
<1>0. AgentsShape /\ OneLives /\ StopsAndAnswers /\ Agents!ToldIsSent
  BY DEF AgentsInv
<1>1. /\ keys < MaxKeys /\ keys' = keys + 1 /\ esc' = TRUE
      /\ runs' = [i \in DOMAIN runs |-> [runs[i] EXCEPT !.stop = mark[i]]]
      /\ busy' = busy /\ quit' = quit /\ chat' = chat /\ sent' = sent /\ session' = session
      /\ refused' = refused
  BY DEF Agents!Esc
<1>2. mark \in [DOMAIN runs -> BOOLEAN]
  OBVIOUS
<1> HIDE DEF mark
<1>3. ButStops(runs')
  BY <1>0, <1>1, <1>2, StopsSet
<1>4. /\ runs' \in Seq(RunType) /\ Len(runs') = Len(runs) /\ DOMAIN runs' = DOMAIN runs
      /\ \A i \in DOMAIN runs' :
            /\ RunKeeps(runs'[i]) /\ runs'[i].kind = runs[i].kind /\ runs'[i].at = runs[i].at
            /\ runs'[i].told = runs[i].told
  BY <1>3 DEF ButStops
<1>5. AgentsShape'
  <2>1. keys' \in 0..MaxKeys
    BY <1>0, <1>1, AgentNumbers DEF AgentsShape
  <2>2. Len(runs') <= MaxRuns
    BY <1>0, <1>4 DEF AgentsShape
  <2> QED
    BY <1>0, <1>1, <1>4, <2>1, <2>2 DEF AgentsShape
<1>6. \A k : Agents!Live(k)' = Agents!Live(k)
  BY <1>4 DEF Agents!Live
<1>7. OneLives'
  BY <1>0, <1>1, <1>6 DEF OneLives
<1>8. StopsAndAnswers'
  BY <1>0, <1>1, <1>4 DEF StopsAndAnswers
<1>9. Agents!ToldIsSent'
  BY <1>0, <1>1, <1>4 DEF Agents!ToldIsSent
<1>10. Agents!EscStops
  BY <1>0, <1>4, <1>8, RunPlaces DEF Agents!EscStops, Agents!At, StopsAndAnswers
<1> QED
  BY <1>5, <1>7, <1>8, <1>9, <1>10 DEF AgentsInv

LEMMA RefuseKeeps ==
    ASSUME AgentsInv, NEW k \in Agents!Guarded, Agents!Refuse(k)
    PROVE  AgentsInv' /\ Agents!EscStops
<1>0. AgentsShape /\ OneLives /\ StopsAndAnswers /\ Agents!ToldIsSent
  BY DEF AgentsInv
<1>1. /\ busy' = [busy EXCEPT ![k] = FALSE]
      /\ refused' = [refused EXCEPT ![k] = Agents!Live(k) # {}]
      /\ runs' = runs /\ esc' = esc /\ quit' = quit /\ chat' = chat /\ sent' = sent
      /\ session' = session /\ keys' = keys
  BY DEF Agents!Refuse
<1>2. /\ busy' \in [Agents!Guarded -> BOOLEAN] /\ refused' \in [Agents!Guarded -> BOOLEAN]
      /\ ~ busy'[k] /\ (refused'[k] <=> Agents!Live(k) # {})
      /\ \A x \in Agents!Guarded : x # k => busy'[x] = busy[x] /\ refused'[x] = refused[x]
  BY <1>0, <1>1 DEF AgentsShape
<1>3. AgentsShape'
  BY <1>0, <1>1, <1>2 DEF AgentsShape
<1>4. \A x : Agents!Live(x)' = Agents!Live(x)
  BY <1>1 DEF Agents!Live
<1>5. OneLives'
  <2>1. ASSUME NEW x \in Agents!Guarded
        PROVE  /\ \A i, j \in Agents!Live(x)' : i # j => refused'[x]
               /\ (Agents!Live(x)' # {} /\ ~ busy'[x]) => refused'[x]
    <3>1. CASE x = k
      BY <1>2, <1>4, <3>1
    <3>2. CASE x # k
      BY <1>0, <1>2, <1>4, <3>2 DEF OneLives
    <3> QED
      BY <3>1, <3>2
  <2> QED
    BY <2>1 DEF OneLives
<1>6. StopsAndAnswers' /\ Agents!ToldIsSent'
  BY <1>0, <1>1 DEF StopsAndAnswers, Agents!ToldIsSent
<1>7. Agents!EscStops
  BY <1>0, <1>1, RunPlaces DEF Agents!EscStops, Agents!At, StopsAndAnswers
<1> QED
  BY <1>3, <1>5, <1>6, <1>7 DEF AgentsInv

LEMMA QuitKeeps ==
    ASSUME AgentsInv, Agents!Quit \/ UNCHANGED agentsVars
    PROVE  AgentsInv' /\ (Agents!Quit => Agents!EscStops)
<1>0. AgentsShape /\ OneLives /\ StopsAndAnswers /\ Agents!ToldIsSent
  BY DEF AgentsInv
<1>1. /\ (quit' = TRUE \/ quit' = quit)
      /\ runs' = runs /\ esc' = esc /\ chat' = chat /\ sent' = sent /\ busy' = busy
      /\ refused' = refused /\ session' = session /\ keys' = keys
  BY DEF Agents!Quit, agentsVars
<1>2. AgentsShape'
  BY <1>0, <1>1 DEF AgentsShape
<1>3. \A x : Agents!Live(x)' = Agents!Live(x)
  BY <1>1 DEF Agents!Live
<1>4. OneLives' /\ StopsAndAnswers' /\ Agents!ToldIsSent'
  BY <1>0, <1>1, <1>3 DEF OneLives, StopsAndAnswers, Agents!ToldIsSent
<1>5. Agents!EscStops
  BY <1>0, <1>1, RunPlaces DEF Agents!EscStops, Agents!At, StopsAndAnswers
<1> QED
  BY <1>2, <1>4, <1>5 DEF AgentsInv

\* Every step.
LEMMA AgentsStep ==
    ASSUME AgentsInv, Agents!Next \/ UNCHANGED agentsVars
    PROVE  AgentsInv' /\ (Agents!Next => Agents!EscStops)
<1>1. CASE UNCHANGED agentsVars
  <2>1. AgentsInv'
    BY <1>1, QuitKeeps
  <2>2. Agents!EscStops
    BY <1>1, RunPlaces DEF Agents!EscStops, Agents!At, StopsAndAnswers, AgentsInv, agentsVars
  <2> QED
    BY <2>1, <2>2
<1>2. CASE Agents!Next
  <2>1. CASE \E k \in Agents!Guarded : Agents!Launch(k)
    BY <2>1, LaunchKeeps
  <2>2. CASE \E k \in Agents!Guarded : Agents!Refuse(k)
    BY <2>2, RefuseKeeps
  <2>3. CASE Agents!LaunchLlm \/ Agents!Esc \/ Agents!Quit
    BY <2>3, LaunchKeeps, EscKeeps, QuitKeeps
  <2>4. ASSUME NEW i \in Agents!Ids, Agents!RunStep(i) PROVE AgentsInv' /\ Agents!EscStops
    <3>1. \/ Agents!Stops(i) \/ Agents!Fails(i) \/ Agents!FinalAnswer(i)
          \/ Agents!Ask(i) \/ Agents!CallsTool(i) \/ Agents!ReadTool(i) \/ Agents!SendTool(i)
          \/ Agents!DirectTool(i)
      BY <2>4 DEF Agents!RunStep
    <3> QED
      BY <3>1, MoveKeeps, EndKeeps
  <2> QED
    BY <1>2, <2>1, <2>2, <2>3, <2>4 DEF Agents!Next
<1> QED
  BY <1>1, <1>2

\* Of a kind that nobody was refused, at most one goes on.
LEMMA OneOfAKindHolds ==
    ASSUME AgentsInv
    PROVE  Agents!OneOfAKind
  BY DEF AgentsInv, OneLives, Agents!OneOfAKind

\* The shape the runs check.
LEMMA AgentsTyped ==
    ASSUME AgentsInv
    PROVE  Agents!TypeOK
<1>1. AgentsShape
  BY DEF AgentsInv
<1>2. \A i \in DOMAIN runs : runs[i] \in RunType
  BY <1>1, RunPlaces
<1>3. chat \in [Agents!Ids -> 0..2]
  <2>1. chat \in [Agents!Ids -> 0..1] /\ \A i \in 0..1 : i \in 0..2
    BY <1>1 DEF AgentsShape
  <2> QED
    BY <2>1
<1>4. {esc, quit, session} \subseteq BOOLEAN
  BY <1>1 DEF AgentsShape
<1>5. ASSUME NEW i \in DOMAIN runs
      PROVE  /\ runs[i].kind \in Agents!Kinds /\ runs[i].at \in {"top", "asked", "tool", "ended"}
             /\ runs[i].iteration \in 0..MaxIterations /\ runs[i].stop \in BOOLEAN
             /\ runs[i].told \subseteq Deeds
  BY <1>2 DEF RunType
<1> QED
  BY <1>1, <1>3, <1>4, <1>5 DEF Agents!TypeOK, AgentsShape, Deeds

-----------------------------------------------------------------------------
(* The chat of the terminal interface. *)

\* What the interface's thread holds, a row of the chat, a row of the list, an event.
ViewType == [active : Chat!RoomSet, roomScroll : Int, msgScroll : Int, input : Nat, cursor : Nat,
             focus : {"input", "rooms", "search"}, box : BOOLEAN, query : Int,
             pane : {"rooms", "members"}, help : BOOLEAN]
EntryType == [n : Nat, id : Nat, kind : {"text", "notice", "redaction"}, read : BOOLEAN]
RoomType == [id : Chat!RoomSet, named : BOOLEAN]
EventType == [kind : Chat!EventKinds \cup {"none"}, room : Chat!RoomSet, of : Nat]
ChatKeys == Chat!RoomSet \X {0, 1}

IsScreen(x) == \E at, list, text, line :
    x = [typing |-> at, rooms |-> list, messages |-> text, bottom |-> line]

ChatShape ==
    /\ loop \in {"top", "left", "right", "key", "paging", "searching", "gone"}
    /\ view \in ViewType /\ view.cursor <= view.input /\ redraw \in BOOLEAN
    /\ roomList \in Seq(RoomType) /\ unread \in [Chat!RoomSet -> Nat]
    /\ typing \subseteq Chat!RoomSet /\ replaced \subseteq Chat!RoomSet
    /\ DOMAIN messages \subseteq ChatKeys
    /\ \A key \in DOMAIN messages : messages[key] \in Seq(EntryType)
    /\ came \in Seq(ChatKeys) /\ Len(came) >= Old
    /\ handling \in EventType /\ IsScreen(screen)

\* The rows of a room over what came: in order, behind the history; and whatever is not
\* held any more was dropped by a room that was full of later ones.
InOrder(all, log, key) ==
    /\ \A i, j \in 1..Len(all) : i < j /\ all[i].n > Old => all[i].n < all[j].n
    /\ \A i \in 1..Len(all) : all[i].n <= Len(log) /\ (all[i].n > Old => log[all[i].n] = key)
    /\ \A n \in 1..Len(log) :
          n > Old /\ log[n] = key =>
              \/ \E i \in 1..Len(all) : all[i].n = n
              \/ Len(all) >= Cap + 1 - Trim /\ \A i \in 1..Len(all) : all[i].n > n

RowsKept ==
    \A key \in ChatKeys :
        key[1] \notin replaced \/ key[2] # 0 => InOrder(Chat!Held(key), came, key)

\* The lines of the list are the rooms they were drawn for: rooms are only added behind
\* them, and only drawing and the keys move the scroll.
LinesDrawn ==
    loop \in {"right", "key"} \/ (loop = "top" /\ ~ redraw) =>
        \A line \in DOMAIN screen.rooms :
            /\ view.roomScroll + line \in 1..Len(roomList)
            /\ roomList[view.roomScroll + line].id = screen.rooms[line].room.id

\* What is drawn is what there is, or another frame is due: the left half once it is drawn,
\* the right half until the next frame.
LeftDrawn ==
    loop \in {"right", "key", "top"} /\ ~ redraw =>
        screen.typing = Chat!StatusNow /\ screen.rooms = Chat!RoomsFrom(view.roomScroll)

RightDrawn ==
    loop \in {"key", "top"} /\ ~ redraw =>
        /\ screen.messages = Chat!MessagesFrom(view.msgScroll) /\ screen.bottom = Chat!BottomNow
        /\ Chat!Held(Chat!KeyOf(view.active, 0)) # <<>> =>
              view.msgScroll \in 0..(Len(Chat!Held(Chat!KeyOf(view.active, 0))) - 1)

ChatInv ==
    /\ ChatShape /\ Chat!UnreadElsewhere /\ RowsKept
    /\ LinesDrawn /\ LeftDrawn /\ RightDrawn

LEMMA ChatNumbers ==
    /\ Cap \in Nat /\ Trim \in Nat /\ Trim >= 1 /\ Trim <= Cap /\ Old \in Nat /\ Old >= 1
    /\ RoomLines \in Nat /\ RoomLines >= 1 /\ MessageLines \in Nat /\ MessageLines >= 1
    /\ Page \in Nat /\ MaxInputs \in Nat
    /\ RoomIds \in Seq(Chat!RoomSet) /\ Len(RoomIds) >= 2
    /\ Starts \subseteq (0..Old) \X BOOLEAN
  BY UiAssumption DEF UiAssumption, Chat!ChatAssumption, Chat!RoomSet

\* A message more, and the oldest dropped from a room that is full.
LEMMA KeptType ==
    ASSUME NEW all \in Seq(EntryType)
    PROVE  /\ Chat!Kept(all) \in Seq(EntryType)
           /\ Len(all) > Cap =>
                 /\ Len(Chat!Kept(all)) = Len(all) - Trim
                 /\ \A i \in 1..(Len(all) - Trim) : Chat!Kept(all)[i] = all[i + Trim]
           /\ Len(all) <= Cap => Chat!Kept(all) = all
<1>1. CASE Len(all) > Cap
  <2>1. Chat!Kept(all) = SubSeq(all, Trim + 1, Len(all))
    BY <1>1 DEF Chat!Kept
  <2>2. Trim + 1 <= Len(all) /\ Trim + 1 \in Nat /\ Len(all) \in Nat
    BY <1>1, ChatNumbers
  <2>3. SubSeq(all, Trim + 1, Len(all)) \in Seq(EntryType)
    BY <2>2, ChatNumbers
  <2>4. Len(SubSeq(all, Trim + 1, Len(all))) = Len(all) - Trim
    BY <2>2, ChatNumbers
  <2>5. \A i \in 1..(Len(all) - Trim) : SubSeq(all, Trim + 1, Len(all))[i] = all[i + Trim]
    BY <2>2, ChatNumbers
  <2> QED
    BY <1>1, <2>1, <2>3, <2>4, <2>5, ChatNumbers
<1>2. CASE ~ Len(all) > Cap
  BY <1>2, ChatNumbers DEF Chat!Kept
<1> QED
  BY <1>1, <1>2

LEMMA InOrderKept ==
    ASSUME NEW all \in Seq(EntryType), NEW log \in Seq(ChatKeys), NEW key \in ChatKeys,
           InOrder(all, log, key)
    PROVE  InOrder(Chat!Kept(all), log, key)
<1>1. CASE Len(all) <= Cap
  BY <1>1, KeptType
<1>2. CASE Len(all) > Cap
  <2> DEFINE rest == Chat!Kept(all)
  <2>1. /\ rest \in Seq(EntryType) /\ Len(rest) = Len(all) - Trim
        /\ \A i \in 1..(Len(all) - Trim) : rest[i] = all[i + Trim]
    BY <1>2, KeptType
  <2>2. Len(all) \in Nat /\ Len(all) > Cap /\ Len(rest) >= Cap + 1 - Trim
    BY <1>2, <2>1, ChatNumbers
  <2>3. \A i \in 1..Len(rest) : i + Trim \in 1..Len(all) /\ rest[i] = all[i + Trim]
    BY <2>1, <2>2, ChatNumbers
  <2> HIDE DEF rest
  <2>4. \A i \in 1..Len(all) : all[i].n \in Nat
    <3>1. \A i \in 1..Len(all) : all[i] \in EntryType
      OBVIOUS
    <3> QED
      BY <3>1 DEF EntryType
  <2>5. \A i, j \in 1..Len(rest) : i < j /\ rest[i].n > Old => rest[i].n < rest[j].n
    <3> SUFFICES ASSUME NEW i \in 1..Len(rest), NEW j \in 1..Len(rest), i < j, rest[i].n > Old
                 PROVE  rest[i].n < rest[j].n
      OBVIOUS
    <3>1. /\ i + Trim \in 1..Len(all) /\ j + Trim \in 1..Len(all) /\ i + Trim < j + Trim
          /\ rest[i] = all[i + Trim] /\ rest[j] = all[j + Trim]
      BY <2>3, ChatNumbers
    <3> QED
      BY <3>1 DEF InOrder
  <2>6. \A i \in 1..Len(rest) :
            rest[i].n <= Len(log) /\ (rest[i].n > Old => log[rest[i].n] = key)
    BY <2>3 DEF InOrder
  <2>7. ASSUME NEW n \in 1..Len(log), n > Old, log[n] = key
        PROVE  \/ \E i \in 1..Len(rest) : rest[i].n = n
               \/ Len(rest) >= Cap + 1 - Trim /\ \A i \in 1..Len(rest) : rest[i].n > n
    <3>1. CASE \A i \in 1..Len(all) : all[i].n > n
      BY <2>2, <2>3, <3>1
    <3>2. ASSUME NEW k \in 1..Len(all), all[k].n = n
          PROVE  \/ \E i \in 1..Len(rest) : rest[i].n = n
                 \/ Len(rest) >= Cap + 1 - Trim /\ \A i \in 1..Len(rest) : rest[i].n > n
      <4>1. CASE k > Trim
        <5>1. k - Trim \in 1..Len(rest) /\ (k - Trim) + Trim = k
          BY <2>1, <2>2, <4>1, ChatNumbers
        <5>2. rest[k - Trim] = all[k]
          BY <2>3, <5>1
        <5> QED
          BY <3>2, <5>1, <5>2
      <4>2. CASE k <= Trim
        <5>1. ASSUME NEW i \in 1..Len(rest) PROVE rest[i].n > n
          <6>1. i + Trim \in 1..Len(all) /\ k < i + Trim /\ rest[i] = all[i + Trim]
            BY <2>3, <4>2, ChatNumbers
          <6>2. all[k].n < all[i + Trim].n
            BY <2>7, <3>2, <6>1 DEF InOrder
          <6> QED
            BY <2>4, <3>2, <6>1, <6>2
        <5> QED
          BY <2>2, <5>1
      <4> QED
        BY <4>1, <4>2, ChatNumbers
    <3> QED
      BY <2>7, <3>1, <3>2 DEF InOrder
  <2> QED
    BY <2>5, <2>6, <2>7 DEF InOrder, rest
<1> QED
  BY <1>1, <1>2, ChatNumbers

LEMMA InOrderAppended ==
    ASSUME NEW all \in Seq(EntryType), NEW log \in Seq(ChatKeys), NEW key \in ChatKeys,
           InOrder(all, log, key), NEW e \in EntryType, e.n = Len(log) + 1
    PROVE  InOrder(Append(all, e), Append(log, key), key)
<1> DEFINE more == Append(all, e)
           later == Append(log, key)
<1>1. /\ Len(all) \in Nat /\ Len(log) \in Nat /\ Len(more) = Len(all) + 1 /\ Len(later) = Len(log) + 1
      /\ \A i \in 1..Len(all) : more[i] = all[i]
      /\ more[Len(all) + 1] = e
      /\ \A n \in 1..Len(log) : later[n] = log[n]
      /\ later[Len(log) + 1] = key
  OBVIOUS
<1>2. \A i \in 1..Len(all) : all[i].n \in Nat
  <2>1. \A i \in 1..Len(all) : all[i] \in EntryType
    OBVIOUS
  <2> QED
    BY <2>1 DEF EntryType
<1> HIDE DEF more, later
<1>3. \A i \in 1..Len(more) : (i \in 1..Len(all) /\ more[i] = all[i]) \/ (i = Len(all) + 1 /\ more[i] = e)
  BY <1>1
<1>4. \A i, j \in 1..Len(more) : i < j /\ more[i].n > Old => more[i].n < more[j].n
  <2> SUFFICES ASSUME NEW i \in 1..Len(more), NEW j \in 1..Len(more), i < j, more[i].n > Old
               PROVE  more[i].n < more[j].n
    OBVIOUS
  <2>1. i \in 1..Len(all) /\ more[i] = all[i] /\ all[i].n <= Len(log) /\ all[i].n \in Nat
    BY <1>1, <1>2, <1>3 DEF InOrder
  <2>2. CASE j = Len(all) + 1
    BY <1>1, <2>1, <2>2
  <2>3. CASE j \in 1..Len(all)
    BY <1>1, <2>1, <2>3 DEF InOrder
  <2> QED
    BY <1>3, <2>2, <2>3
<1>5. \A i \in 1..Len(more) :
          more[i].n <= Len(later) /\ (more[i].n > Old => later[more[i].n] = key)
  <2> SUFFICES ASSUME NEW i \in 1..Len(more)
               PROVE  more[i].n <= Len(later) /\ (more[i].n > Old => later[more[i].n] = key)
    OBVIOUS
  <2>1. CASE i = Len(all) + 1
    BY <1>1, <2>1
  <2>2. CASE i \in 1..Len(all)
    <3>1. more[i].n = all[i].n /\ all[i].n <= Len(log) /\ all[i].n \in Nat
          /\ (all[i].n > Old => log[all[i].n] = key)
      BY <1>1, <1>2, <2>2 DEF InOrder
    <3>2. all[i].n > Old => all[i].n \in 1..Len(log)
      BY <3>1, ChatNumbers
    <3> QED
      BY <1>1, <3>1, <3>2
  <2> QED
    BY <1>3, <2>1, <2>2
<1>6. ASSUME NEW n \in 1..Len(later), n > Old, later[n] = key
      PROVE  \/ \E i \in 1..Len(more) : more[i].n = n
             \/ Len(more) >= Cap + 1 - Trim /\ \A i \in 1..Len(more) : more[i].n > n
  <2>1. CASE n = Len(log) + 1
    BY <1>1, <2>1
  <2>2. CASE n \in 1..Len(log)
    <3>1. log[n] = key
      BY <1>1, <1>6, <2>2
    <3>2. CASE \E i \in 1..Len(all) : all[i].n = n
      BY <1>1, <3>2
    <3>3. CASE Len(all) >= Cap + 1 - Trim /\ \A i \in 1..Len(all) : all[i].n > n
      <4>1. \A i \in 1..Len(more) : more[i].n > n
        BY <1>1, <1>3, <2>2, <3>3
      <4>2. Len(more) >= Cap + 1 - Trim
        BY <1>1, <3>3, ChatNumbers
      <4> QED
        BY <4>1, <4>2
    <3> QED
      BY <1>6, <2>2, <3>1, <3>2, <3>3 DEF InOrder
  <2> QED
    BY <1>1, <2>1, <2>2
<1> QED
  BY <1>4, <1>5, <1>6 DEF InOrder, more, later

\* What comes for another room changes nothing.
LEMMA InOrderBeside ==
    ASSUME NEW all \in Seq(EntryType), NEW log \in Seq(ChatKeys), NEW key \in ChatKeys,
           InOrder(all, log, key), NEW other \in ChatKeys, other # key
    PROVE  InOrder(all, Append(log, other), key)
<1> DEFINE later == Append(log, other)
<1>1. /\ Len(log) \in Nat /\ Len(later) = Len(log) + 1
      /\ \A n \in 1..Len(log) : later[n] = log[n]
      /\ later[Len(log) + 1] = other
  OBVIOUS
<1>2. \A i \in 1..Len(all) : all[i].n \in Nat
  <2>1. \A i \in 1..Len(all) : all[i] \in EntryType
    OBVIOUS
  <2> QED
    BY <2>1 DEF EntryType
<1> HIDE DEF later
<1>3. \A i \in 1..Len(all) : all[i].n <= Len(later) /\ (all[i].n > Old => later[all[i].n] = key)
  <2> SUFFICES ASSUME NEW i \in 1..Len(all)
               PROVE  all[i].n <= Len(later) /\ (all[i].n > Old => later[all[i].n] = key)
    OBVIOUS
  <2>1. all[i].n <= Len(log) /\ all[i].n \in Nat /\ (all[i].n > Old => log[all[i].n] = key)
    BY <1>2 DEF InOrder
  <2>2. all[i].n > Old => all[i].n \in 1..Len(log)
    BY <2>1, ChatNumbers
  <2> QED
    BY <1>1, <2>1, <2>2
<1>4. \A n \in 1..Len(later) : later[n] = key => n \in 1..Len(log) /\ log[n] = key
  BY <1>1
<1> QED
  BY <1>3, <1>4 DEF InOrder, later

\* A mark on a row moves nothing.
LEMMA InOrderMarked ==
    ASSUME NEW all \in Seq(EntryType), NEW log \in Seq(ChatKeys), NEW key \in ChatKeys,
           InOrder(all, log, key), NEW at \in 1..Len(all)
    PROVE  /\ [all EXCEPT ![at].read = TRUE] \in Seq(EntryType)
           /\ Len([all EXCEPT ![at].read = TRUE]) = Len(all)
           /\ InOrder([all EXCEPT ![at].read = TRUE], log, key)
<1> DEFINE marked == [all EXCEPT ![at].read = TRUE]
           row == [all[at] EXCEPT !.read = TRUE]
<1>1. all[at] \in EntryType
  OBVIOUS
<1>2. row \in EntryType /\ row.n = all[at].n
  BY <1>1 DEF EntryType
<1>3. marked = [all EXCEPT ![at] = row]
  OBVIOUS
<1> HIDE DEF marked, row
<1>4. marked \in Seq(EntryType) /\ Len(marked) = Len(all)
      /\ \A i \in 1..Len(all) : marked[i] = IF i = at THEN row ELSE all[i]
  BY <1>2, <1>3
<1>5. \A i \in 1..Len(all) : marked[i].n = all[i].n
  BY <1>2, <1>4
<1>6. InOrder(marked, log, key)
  BY <1>4, <1>5 DEF InOrder
<1> QED
  BY <1>4, <1>6 DEF marked

\* What is held of every room, as a sequence of rows.
LEMMA HeldRows ==
    ASSUME ChatShape
    PROVE  \A key : Chat!Held(key) \in Seq(EntryType)
<1> SUFFICES ASSUME NEW key PROVE Chat!Held(key) \in Seq(EntryType)
  OBVIOUS
<1>1. CASE key \in DOMAIN messages
  BY <1>1 DEF ChatShape, Chat!Held
<1>2. CASE key \notin DOMAIN messages
  <2>1. << >> \in Seq(EntryType)
    OBVIOUS
  <2> QED
    BY <1>2, <2>1 DEF Chat!Held
<1> QED
  BY <1>1, <1>2

\* The rows of one room are replaced.
LEMMA PutRows ==
    ASSUME ChatShape, NEW key \in ChatKeys, NEW all \in Seq(EntryType),
           messages' = Chat!Put(key, all)
    PROVE  /\ DOMAIN messages' \subseteq ChatKeys
           /\ \A k \in DOMAIN messages' : messages'[k] \in Seq(EntryType)
           /\ \A k : Chat!Held(k)' = IF k = key THEN all ELSE Chat!Held(k)
<1>1. /\ DOMAIN messages' = DOMAIN messages \cup {key}
      /\ \A k \in DOMAIN messages \cup {key} : messages'[k] = IF k = key THEN all ELSE messages[k]
  BY DEF Chat!Put
<1>2. \A k : Chat!Held(k)' = IF k \in DOMAIN messages' THEN messages'[k] ELSE << >>
  BY DEF Chat!Held
<1>3. \A k : Chat!Held(k) = IF k \in DOMAIN messages THEN messages[k] ELSE << >>
  BY DEF Chat!Held
<1>4. \A k : Chat!Held(k)' = IF k = key THEN all ELSE Chat!Held(k)
  BY <1>1, <1>2, <1>3
<1> QED
  BY <1>1, <1>4 DEF ChatShape

\* A message comes.
LEMMA RowsAdded ==
    ASSUME ChatShape, RowsKept, NEW key \in ChatKeys, NEW e \in EntryType, e.n = Len(came) + 1,
           messages' = Chat!Put(key, Chat!Kept(Append(Chat!Held(key), e))),
           came' = Append(came, key), replaced' = replaced
    PROVE  /\ RowsKept' /\ DOMAIN messages' \subseteq ChatKeys
           /\ \A k \in DOMAIN messages' : messages'[k] \in Seq(EntryType)
           /\ came' \in Seq(ChatKeys) /\ Len(came') >= Old
<1> DEFINE all == Append(Chat!Held(key), e)
<1>1. Chat!Held(key) \in Seq(EntryType) /\ all \in Seq(EntryType)
  BY HeldRows
<1>2. Chat!Kept(all) \in Seq(EntryType)
  BY <1>1, KeptType
<1>3. /\ DOMAIN messages' \subseteq ChatKeys
      /\ \A k \in DOMAIN messages' : messages'[k] \in Seq(EntryType)
      /\ \A k : Chat!Held(k)' = IF k = key THEN Chat!Kept(all) ELSE Chat!Held(k)
  BY <1>2, PutRows
<1>4. came \in Seq(ChatKeys) /\ Len(came) >= Old
  BY DEF ChatShape
<1>5. came' \in Seq(ChatKeys) /\ Len(came') >= Old
  BY <1>4, ChatNumbers
<1>6. ASSUME NEW k \in ChatKeys, k[1] \notin replaced \/ k[2] # 0
      PROVE  InOrder(Chat!Held(k)', came', k)
  <2>1. InOrder(Chat!Held(k), came, k)
    BY <1>6 DEF RowsKept
  <2>2. CASE k = key
    <3>1. InOrder(all, came', k)
      BY <1>1, <1>4, <2>1, <2>2, InOrderAppended
    <3>2. InOrder(Chat!Kept(all), came', k)
      BY <1>1, <1>5, <3>1, InOrderKept
    <3> QED
      BY <1>3, <2>2, <3>2
  <2>3. CASE k # key
    <3>1. InOrder(Chat!Held(k), came', k)
      BY <1>4, <2>1, <2>3, HeldRows, InOrderBeside
    <3> QED
      BY <1>3, <2>3, <3>1
  <2> QED
    BY <2>2, <2>3
<1> QED
  BY <1>3, <1>5, <1>6 DEF RowsKept

\* A set of naturals that is not empty has a least element.
LEMMA FirstPlace ==
    ASSUME NEW places \in SUBSET Nat, places # {}
    PROVE  \E x \in places : \A y \in places : x <= y
<1>1. PICK x \in places : \A y \in places : <<y, x>> \notin OpToRel(<, Nat)
  BY NatLessThanWellFounded, WFMin
<1>2. \A y \in places : ~ (y < x)
  BY <1>1 DEF OpToRel
<1> QED
  BY <1>2

\* A receipt marks one row of a room.
LEMMA RowsRead ==
    ASSUME ChatShape, RowsKept, NEW r \in Chat!RoomSet, NEW id, Chat!Read(r, id),
           came' = came, replaced' = replaced
    PROVE  /\ RowsKept' /\ DOMAIN messages' \subseteq ChatKeys
           /\ \A k \in DOMAIN messages' : messages'[k] \in Seq(EntryType)
<1> DEFINE key == Chat!KeyOf(r, 0)
           held == Chat!Held(key)
           at == { i \in DOMAIN held : messages[key][i].id = id }
           first == CHOOSE i \in at : \A j \in at : i <= j
<1>1. messages' = IF at = {} THEN messages ELSE [messages EXCEPT ![key][first].read = TRUE]
  BY Zenon DEF Chat!Read
<1>2. key \in ChatKeys
  BY DEF Chat!KeyOf, ChatKeys
<1>3. held \in Seq(EntryType)
  BY HeldRows
<1>4. CASE at = {}
  <2>1. messages' = messages
    BY <1>1, <1>4
  <2> QED
    BY <2>1 DEF RowsKept, ChatShape, Chat!Held
<1>5. CASE at # {}
  <2>1. DOMAIN held = 1..Len(held)
    BY <1>3
  <2>2. first \in at
    <3>1. at \in SUBSET Nat
      BY <2>1
    <3>2. \E x \in at : \A y \in at : x <= y
      BY <1>5, <3>1, FirstPlace
    <3> HIDE DEF at
    <3> QED
      BY <3>2
  <2>3. first \in 1..Len(held)
    BY <2>1, <2>2
  <2>4. key \in DOMAIN messages /\ held = messages[key]
    <3>1. held # << >>
      BY <1>3, <2>3
    <3> QED
      BY <3>1, Zenon DEF Chat!Held
  <2> HIDE DEF at, first
  <2>5. messages' = [messages EXCEPT ![key] = [messages[key] EXCEPT ![first].read = TRUE]]
    BY <1>1, <1>5
  <2> HIDE DEF held, key
  <2>6. [held EXCEPT ![first].read = TRUE] \in Seq(EntryType)
    <3>1. [held EXCEPT ![first].read = TRUE] =
              [held EXCEPT ![first] = [held[first] EXCEPT !.read = TRUE]]
      OBVIOUS
    <3>2. held[first] \in EntryType
      BY <1>3, <2>3
    <3>3. [held[first] EXCEPT !.read = TRUE] \in EntryType
      BY <3>2 DEF EntryType
    <3> QED
      BY <1>3, <2>3, <3>1, <3>3
  <2> DEFINE marked == [held EXCEPT ![first].read = TRUE]
  <2>7. messages' = [messages EXCEPT ![key] = marked]
    BY <2>4, <2>5
  <2>8. marked \in Seq(EntryType)
    BY <2>6
  <2> HIDE DEF marked
  <2>9. /\ DOMAIN messages' = DOMAIN messages
        /\ \A k \in DOMAIN messages : messages'[k] = IF k = key THEN marked ELSE messages[k]
    BY <2>4, <2>7
  <2>10. \A k : Chat!Held(k)' = IF k = key THEN marked ELSE Chat!Held(k)
    <3>1. \A k : Chat!Held(k)' = IF k \in DOMAIN messages' THEN messages'[k] ELSE << >>
      BY DEF Chat!Held
    <3>2. \A k : Chat!Held(k) = IF k \in DOMAIN messages THEN messages[k] ELSE << >>
      BY DEF Chat!Held
    <3> QED
      BY <2>4, <2>9, <3>1, <3>2
  <2>11. ASSUME NEW k \in ChatKeys, k[1] \notin replaced \/ k[2] # 0
         PROVE  InOrder(Chat!Held(k)', came, k)
    <3>1. InOrder(Chat!Held(k), came, k)
      BY <2>11 DEF RowsKept
    <3>2. CASE k = key
      <4>1. came \in Seq(ChatKeys) /\ InOrder(held, came, k)
        BY <3>1, <3>2 DEF ChatShape, held
      <4>2. InOrder(marked, came, k)
        BY <1>3, <2>3, <4>1, InOrderMarked DEF marked
      <4> QED
        BY <2>10, <3>2, <4>2
    <3>3. CASE k # key
      BY <2>10, <3>1, <3>3
    <3> QED
      BY <3>2, <3>3
  <2>12. RowsKept'
    BY <2>11 DEF RowsKept
  <2> QED
    BY <2>8, <2>9, <2>12 DEF ChatShape
<1> QED
  BY <1>4, <1>5

\* The rows of the history.
OldType == { e \in EntryType : e.n <= Old }

LEMMA HistoryRows ==
    ASSUME NEW marker \in 0..Old, NEW invited \in BOOLEAN
    PROVE  Chat!History(marker, invited) \in Seq(OldType)
<1> DEFINE events == [i \in 1..Old |-> Chat!Entry(Old + 1 - i, Old + 1 - i, "text")]
           notice == <<Chat!Entry(0, 0, "notice")>>
           at == Old + 1 - marker
<1>1. \A i \in 1..Old : Chat!Entry(Old + 1 - i, Old + 1 - i, "text") \in OldType
  BY ChatNumbers DEF Chat!Entry, OldType, EntryType
<1>2. events \in Seq(OldType) /\ Len(events) = Old
  <2> DEFINE row(i) == Chat!Entry(Old + 1 - i, Old + 1 - i, "text")
  <2>1. \A i \in 1..Old : row(i) \in OldType
    BY <1>1
  <2>2. Old \in Nat
    BY ChatNumbers
  <2> HIDE DEF row
  <2>3. [i \in 1..Old |-> row(i)] \in Seq(OldType) /\ Len([i \in 1..Old |-> row(i)]) = Old
    BY <2>1, <2>2
  <2> QED
    BY <2>3 DEF row
<1>3. Chat!Entry(0, 0, "notice") \in OldType
  BY ChatNumbers DEF Chat!Entry, OldType, EntryType
<1>4. notice \in Seq(OldType) /\ << >> \in Seq(OldType)
  BY <1>3
<1>5. marker # 0 => /\ SubSeq(events, 1, at) \in Seq(OldType)
                    /\ SubSeq(events, at + 1, Old) \in Seq(OldType)
  <2> HIDE DEF events
  <2>1. marker # 0 => at \in 1..Old /\ at + 1 \in 1..(Old + 1)
    BY ChatNumbers
  <2> HIDE DEF at
  <2> QED
    BY <1>2, <2>1, ChatNumbers
<1>6. Chat!History(marker, invited) =
        (IF invited THEN notice ELSE << >>)
        \o (IF marker = 0 THEN events
            ELSE SubSeq(events, 1, at) \o notice \o SubSeq(events, at + 1, Old))
  BY DEF Chat!History
<1> HIDE DEF events, notice, at
<1>7. marker # 0 => SubSeq(events, 1, at) \o notice \o SubSeq(events, at + 1, Old) \in Seq(OldType)
  BY <1>4, <1>5
<1>8. (IF invited THEN notice ELSE << >>) \in Seq(OldType)
  BY <1>4
<1>9. (IF marker = 0 THEN events
            ELSE SubSeq(events, 1, at) \o notice \o SubSeq(events, at + 1, Old)) \in Seq(OldType)
  BY <1>2, <1>7
<1> QED
  BY <1>6, <1>8, <1>9

\* At the start nothing has come but the history.
LEMMA ChatBegins == Chat!Init => ChatInv
<1> SUFFICES ASSUME Chat!Init PROVE ChatInv
  OBVIOUS
<1>1. /\ loop = "top" /\ redraw = TRUE /\ screen = Chat!Blank
      /\ view = [active |-> RoomIds[1], roomScroll |-> 0, msgScroll |-> 0, input |-> 0, cursor |-> 0,
               focus |-> "input", box |-> FALSE, query |-> 0, pane |-> "rooms", help |-> FALSE]
      /\ roomList = [i \in 1..(Len(RoomIds) - 1) |-> [id |-> RoomIds[i], named |-> TRUE]]
      /\ unread = [r \in Chat!RoomSet |-> 0] /\ typing = {}
      /\ handling = Chat!Nothing /\ came = [i \in 1..Old |-> <<RoomIds[1], 0>>] /\ replaced = {}
  BY DEF Chat!Init
<1>2. PICK start \in Starts :
          messages = [key \in {<<RoomIds[1], 0>>} |-> Chat!History(start[1], start[2])]
  BY DEF Chat!Init
<1>3. \A i \in 1..Len(RoomIds) : RoomIds[i] \in Chat!RoomSet
  BY ChatNumbers
<1>4. RoomIds[1] \in Chat!RoomSet
  BY <1>3, ChatNumbers
<1>5. Chat!History(start[1], start[2]) \in Seq(OldType)
  <2>1. start[1] \in 0..Old /\ start[2] \in BOOLEAN
    BY ChatNumbers
  <2> QED
    BY <2>1, HistoryRows
<1> DEFINE old == Chat!History(start[1], start[2])
<1> HIDE DEF old
<1>6. /\ old \in Seq(EntryType) /\ \A i \in 1..Len(old) : old[i].n <= Old /\ old[i].n \in Nat
  <2>1. old \in Seq(OldType)
    BY <1>5 DEF old
  <2>2. \A e \in OldType : e \in EntryType
    BY DEF OldType
  <2>3. \A i \in 1..Len(old) : old[i] \in OldType
    BY <2>1
  <2>4. old \in Seq(EntryType)
    <3>1. Len(old) \in Nat /\ DOMAIN old = 1..Len(old) /\ old = [i \in 1..Len(old) |-> old[i]]
      BY <2>1
    <3>2. \A i \in 1..Len(old) : old[i] \in EntryType
      BY <2>2, <2>3
    <3> QED
      BY <3>1, <3>2
  <2>5. \A e \in OldType : e.n <= Old /\ e.n \in Nat
    BY DEF OldType, EntryType
  <2> QED
    BY <2>3, <2>4, <2>5
<1>7. DOMAIN messages = {<<RoomIds[1], 0>>} /\ messages[<<RoomIds[1], 0>>] = old
  <2>1. messages = [key \in {<<RoomIds[1], 0>>} |-> old]
    BY <1>2 DEF old
  <2> DEFINE first == <<RoomIds[1], 0>>
  <2>2. messages = [key \in {first} |-> old]
    BY <2>1
  <2> HIDE DEF first
  <2>3. DOMAIN messages = {first} /\ messages[first] = old
    BY <2>2
  <2> QED
    BY <2>3 DEF first
<1>8. came \in Seq(ChatKeys) /\ Len(came) = Old
  <2> DEFINE first == <<RoomIds[1], 0>>
  <2>1. first \in ChatKeys
    BY <1>4 DEF ChatKeys
  <2>2. came = [i \in 1..Old |-> first] /\ Old \in Nat
    BY <1>1, ChatNumbers
  <2> HIDE DEF first
  <2> QED
    BY <2>1, <2>2
<1>9. ChatShape
  <2>1. view \in ViewType /\ view.cursor <= view.input
    BY <1>1, <1>4 DEF ViewType
  <2>2. roomList \in Seq(RoomType)
    <3>1. Len(RoomIds) - 1 \in Nat
      BY ChatNumbers
    <3>2. \A i \in 1..(Len(RoomIds) - 1) : [id |-> RoomIds[i], named |-> TRUE] \in RoomType
      BY <1>3, ChatNumbers DEF RoomType
    <3> QED
      BY <1>1, <3>1, <3>2
  <2>3. handling \in EventType
    BY <1>1, <1>4 DEF Chat!Nothing, EventType
  <2>4. IsScreen(screen)
    BY <1>1 DEF Chat!Blank, IsScreen
  <2>5. DOMAIN messages \subseteq ChatKeys /\ \A key \in DOMAIN messages : messages[key] \in Seq(EntryType)
    BY <1>4, <1>6, <1>7 DEF ChatKeys
  <2>6. unread \in [Chat!RoomSet -> Nat] /\ typing \subseteq Chat!RoomSet /\ replaced \subseteq Chat!RoomSet
    BY <1>1
  <2>7. Len(came) >= Old
    BY <1>8, ChatNumbers
  <2> QED
    BY <1>1, <1>8, <2>1, <2>2, <2>3, <2>4, <2>5, <2>6, <2>7 DEF ChatShape
<1>10. Chat!UnreadElsewhere
  BY <1>1, <1>4 DEF Chat!UnreadElsewhere
<1>11. RowsKept
  <2>1. ASSUME NEW key \in ChatKeys PROVE InOrder(Chat!Held(key), came, key)
    <3>1. CASE Chat!Held(key) = old
      BY <1>6, <1>8, <3>1, ChatNumbers DEF InOrder
    <3>2. CASE Chat!Held(key) = << >>
      <4>1. Len(Chat!Held(key)) = 0
        BY <3>2
      <4>2. \A n \in 1..Len(came) : ~ (n > Old)
        BY <1>8, ChatNumbers
      <4> QED
        BY <4>1, <4>2, ChatNumbers DEF InOrder
    <3> QED
      BY <1>7, <3>1, <3>2 DEF Chat!Held
  <2> QED
    BY <2>1 DEF RowsKept
<1>12. LinesDrawn /\ LeftDrawn /\ RightDrawn
  <2>1. loop \notin {"right", "key"}
    BY <1>1
  <2>2. redraw
    BY <1>1, Zenon
  <2> QED
    BY <2>1, <2>2, Zenon DEF LinesDrawn, LeftDrawn, RightDrawn
<1> QED
  BY <1>9, <1>10, <1>11, <1>12 DEF ChatInv

-----------------------------------------------------------------------------
\* A frame is due, or is not what the thread is at: nothing is said of the screen.
LEMMA FrameDue ==
    ASSUME loop' \in {"left", "paging", "searching", "gone"} \/ (loop' = "top" /\ redraw')
    PROVE  LinesDrawn' /\ LeftDrawn' /\ RightDrawn'
<1>1. loop' \notin {"right", "key"}
  OBVIOUS
<1>2. ~ (loop' = "top" /\ ~ redraw')
  OBVIOUS
<1>3. ~ (loop' \in {"right", "key", "top"} /\ ~ redraw') /\ ~ (loop' \in {"key", "top"} /\ ~ redraw')
  BY <1>1, <1>2
<1> QED
  BY <1>1, <1>2, <1>3, Zenon DEF LinesDrawn, LeftDrawn, RightDrawn

\* Another thread asks for a frame: the lines on the screen are still those of their rooms.
LEMMA LinesStay ==
    ASSUME LinesDrawn, loop' = loop, redraw', screen' = screen,
           view'.roomScroll = view.roomScroll, roomList \in Seq(RoomType),
           Len(roomList') \in Nat, Len(roomList') >= Len(roomList),
           \A i \in 1..Len(roomList) : roomList'[i].id = roomList[i].id
    PROVE  LinesDrawn' /\ LeftDrawn' /\ RightDrawn'
<1>1. ~ (loop' \in {"right", "key", "top"} /\ ~ redraw') /\ ~ (loop' \in {"key", "top"} /\ ~ redraw')
  OBVIOUS
<1>2. LeftDrawn' /\ RightDrawn'
  BY <1>1, Zenon DEF LeftDrawn, RightDrawn
<1>3. ASSUME loop \in {"right", "key"}, NEW line \in DOMAIN screen.rooms
      PROVE  /\ view.roomScroll + line \in 1..Len(roomList')
             /\ roomList'[view.roomScroll + line].id = screen.rooms[line].room.id
  <2>1. /\ view.roomScroll + line \in 1..Len(roomList)
        /\ roomList[view.roomScroll + line].id = screen.rooms[line].room.id
    BY <1>3, Zenon DEF LinesDrawn
  <2>2. Len(roomList) \in Nat
    OBVIOUS
  <2> QED
    BY <2>1, <2>2
<1>4. loop' \in {"right", "key"} \/ (loop' = "top" /\ ~ redraw') => loop \in {"right", "key"}
  OBVIOUS
<1> QED
  BY <1>2, <1>3, <1>4, Zenon DEF LinesDrawn

\* A room is listed behind the others, or in its old place.
LEMMA RoomListed ==
    ASSUME roomList \in Seq(RoomType), NEW r \in Chat!RoomSet, Chat!AddRoom(r)
    PROVE  /\ roomList' \in Seq(RoomType)
           /\ Len(roomList') \in Nat /\ Len(roomList') >= Len(roomList)
           /\ \A i \in 1..Len(roomList) : roomList'[i].id = roomList[i].id
<1> DEFINE new == [id |-> r, named |-> FALSE]
           at == { i \in DOMAIN roomList : roomList[i].id = r }
<1>1. roomList' = IF at = {} THEN Append(roomList, new)
                  ELSE [i \in DOMAIN roomList |-> IF i \in at THEN new ELSE roomList[i]]
  BY DEF Chat!AddRoom
<1>2. new \in RoomType /\ new.id = r
  BY DEF RoomType
<1>3. \A i \in at : i \in 1..Len(roomList) /\ roomList[i].id = r
  OBVIOUS
<1>4. DOMAIN roomList = 1..Len(roomList) /\ Len(roomList) \in Nat
      /\ \A i \in 1..Len(roomList) : roomList[i] \in RoomType
  OBVIOUS
<1> HIDE DEF new, at
<1>5. CASE at = {}
  BY <1>1, <1>2, <1>4, <1>5
<1>6. CASE at # {}
  <2>1. roomList' = [i \in 1..Len(roomList) |-> IF i \in at THEN new ELSE roomList[i]]
    BY <1>1, <1>4, <1>6
  <2>2. \A i \in 1..Len(roomList) : (IF i \in at THEN new ELSE roomList[i]) \in RoomType
    BY <1>2, <1>4
  <2>3. roomList' \in Seq(RoomType) /\ Len(roomList') = Len(roomList)
    BY <1>4, <2>1, <2>2
  <2> QED
    BY <1>2, <1>3, <1>4, <2>1, <2>3
<1> QED
  BY <1>5, <1>6

\* addMessage, whoever calls it.
LEMMA MessageAdded ==
    ASSUME ChatInv, NEW r \in Chat!RoomSet, NEW thread \in {0, 1}, NEW id \in Nat,
           NEW kind \in {"text", "notice", "redaction"}, Chat!AddMessage(r, thread, id, kind),
           replaced' = replaced
    PROVE  /\ RowsKept' /\ DOMAIN messages' \subseteq ChatKeys
           /\ \A k \in DOMAIN messages' : messages'[k] \in Seq(EntryType)
           /\ came' \in Seq(ChatKeys) /\ Len(came') >= Old
           /\ view' \in ViewType /\ view'.active = view.active /\ view'.input = view.input
           /\ view'.cursor = view.cursor /\ view'.roomScroll = view.roomScroll
           /\ unread' \in [Chat!RoomSet -> Nat] /\ Chat!UnreadElsewhere'
           /\ redraw' = TRUE
<1> DEFINE n == Len(came) + 1
           key == Chat!KeyOf(r, thread)
           e == Chat!Entry(n, IF id = 0 THEN n ELSE id, kind)
           all == Append(Chat!Held(key), e)
           back == Chat!AtLeast(0, view.msgScroll - Trim)
<1>1. /\ messages' = Chat!Put(key, Chat!Kept(all))
      /\ view' = IF Len(all) > Cap THEN [view EXCEPT !.msgScroll = back] ELSE view
      /\ unread' = IF r # view.active /\ kind # "notice" THEN [unread EXCEPT ![r] = @ + 1]
                   ELSE unread
      /\ redraw' = TRUE /\ came' = Append(came, key)
  BY DEF Chat!AddMessage
<1>2. ChatShape /\ RowsKept /\ unread[view.active] = 0 /\ came \in Seq(ChatKeys) /\ view \in ViewType
      /\ unread \in [Chat!RoomSet -> Nat]
  BY DEF ChatInv, ChatShape, Chat!UnreadElsewhere
<1>3. key \in ChatKeys
  BY DEF Chat!KeyOf, ChatKeys
<1>4. e \in EntryType /\ e.n = n
  BY <1>2 DEF Chat!Entry, EntryType
<1> HIDE DEF key, e
<1>5. /\ RowsKept' /\ DOMAIN messages' \subseteq ChatKeys
      /\ \A k \in DOMAIN messages' : messages'[k] \in Seq(EntryType)
      /\ came' \in Seq(ChatKeys) /\ Len(came') >= Old
  BY <1>1, <1>2, <1>3, <1>4, RowsAdded
<1>6. /\ view' \in ViewType /\ view'.active = view.active /\ view'.input = view.input
      /\ view'.cursor = view.cursor /\ view'.roomScroll = view.roomScroll
  <2>1. back \in Int
    BY <1>2, ChatNumbers DEF ViewType, Chat!AtLeast
  <2> HIDE DEF back, all
  <2>2. [view EXCEPT !.msgScroll = back] \in ViewType
    BY <1>2, <2>1 DEF ViewType
  <2> DEFINE moved == [view EXCEPT !.msgScroll = back]
  <2>3. /\ moved.active = view.active /\ moved.input = view.input
        /\ moved.cursor = view.cursor /\ moved.roomScroll = view.roomScroll
    BY <1>2 DEF ViewType
  <2>4. view' = moved \/ view' = view
    BY <1>1
  <2> HIDE DEF moved
  <2> QED
    BY <1>2, <2>2, <2>3, <2>4 DEF moved
<1>7. unread' \in [Chat!RoomSet -> Nat] /\ Chat!UnreadElsewhere'
  <2>1. view.active \in Chat!RoomSet
    BY <1>2 DEF ViewType
  <2>2. unread' = unread \/ (r # view.active /\ unread' = [unread EXCEPT ![r] = @ + 1])
    BY <1>1
  <2>3. unread' \in [Chat!RoomSet -> Nat] /\ unread'[view.active] = 0
    BY <1>2, <2>1, <2>2
  <2> QED
    BY <1>6, <2>3 DEF Chat!UnreadElsewhere
<1> QED
  BY <1>1, <1>5, <1>6, <1>7

\* An event comes: its room is listed.
LEMMA EventKeeps ==
    ASSUME ChatInv, NEW kind \in Chat!EventKinds, NEW r \in Chat!RoomSet, NEW of \in Nat,
           Chat!Event(kind, r, of)
    PROVE  ChatInv'
<1>1. /\ Chat!AddRoom(r) /\ redraw' = TRUE
      /\ handling' = [kind |-> kind, room |-> r, of |-> of]
      /\ loop' = loop /\ view' = view /\ messages' = messages /\ unread' = unread
      /\ typing' = typing /\ screen' = screen /\ came' = came /\ replaced' = replaced
  BY DEF Chat!Event
<1>2. ChatShape /\ RowsKept /\ LinesDrawn /\ Chat!UnreadElsewhere
  BY DEF ChatInv
<1>3. /\ roomList' \in Seq(RoomType)
      /\ Len(roomList') \in Nat /\ Len(roomList') >= Len(roomList)
      /\ \A i \in 1..Len(roomList) : roomList'[i].id = roomList[i].id
  BY <1>1, <1>2, RoomListed DEF ChatShape
<1>4. LinesDrawn' /\ LeftDrawn' /\ RightDrawn'
  <2>1. redraw' /\ view'.roomScroll = view.roomScroll
    BY <1>1, Zenon
  <2> QED
    BY <1>1, <1>2, <1>3, <2>1, LinesStay DEF ChatShape
<1>5. handling' \in EventType
  BY <1>1 DEF EventType
<1>6. ChatShape'
  BY <1>1, <1>2, <1>3, <1>5 DEF ChatShape
<1>7. RowsKept' /\ Chat!UnreadElsewhere'
  BY <1>1, <1>2 DEF RowsKept, Chat!UnreadElsewhere, Chat!Held
<1> QED
  BY <1>4, <1>6, <1>7 DEF ChatInv

\* A message comes, from whatever thread, while the interface's thread is where it is.
LEMMA MessageKeeps ==
    ASSUME ChatInv, NEW r \in Chat!RoomSet, NEW thread \in {0, 1}, NEW id \in Nat,
           NEW kind \in {"text", "notice", "redaction"}, Chat!AddMessage(r, thread, id, kind),
           loop' = loop, roomList' = roomList, typing' = typing, screen' = screen,
           replaced' = replaced, handling' \in EventType
    PROVE  ChatInv'
<1>1. /\ RowsKept' /\ DOMAIN messages' \subseteq ChatKeys
      /\ \A k \in DOMAIN messages' : messages'[k] \in Seq(EntryType)
      /\ came' \in Seq(ChatKeys) /\ Len(came') >= Old
      /\ view' \in ViewType /\ view'.active = view.active /\ view'.input = view.input
      /\ view'.cursor = view.cursor /\ view'.roomScroll = view.roomScroll
      /\ unread' \in [Chat!RoomSet -> Nat] /\ Chat!UnreadElsewhere'
      /\ redraw' = TRUE
  BY MessageAdded
<1>2. ChatShape /\ LinesDrawn
  BY DEF ChatInv
<1>3. LinesDrawn' /\ LeftDrawn' /\ RightDrawn'
  <2>1. redraw' /\ view'.roomScroll = view.roomScroll /\ screen' = screen /\ loop' = loop
    BY <1>1, Zenon
  <2>2. /\ roomList \in Seq(RoomType)
        /\ Len(roomList') \in Nat /\ Len(roomList') >= Len(roomList)
        /\ \A i \in 1..Len(roomList) : roomList'[i].id = roomList[i].id
    BY <1>2 DEF ChatShape
  <2> QED
    BY <1>2, <2>1, <2>2, LinesStay
<1>4. ChatShape'
  <2>1. redraw' \in BOOLEAN
    BY <1>1, Zenon
  <2>2. view'.cursor <= view'.input
    BY <1>1, <1>2 DEF ChatShape
  <2> QED
    BY <1>1, <1>2, <2>1, <2>2 DEF ChatShape
<1> QED
  BY <1>1, <1>3, <1>4 DEF ChatInv

LEMMA HandleKeeps == ASSUME ChatInv, Chat!Handle PROVE ChatInv'
<1>1. /\ handling # Chat!Nothing /\ handling' = Chat!Nothing /\ redraw' = TRUE
      /\ loop' = loop /\ roomList' = roomList /\ screen' = screen /\ replaced' = replaced
  BY DEF Chat!Handle
<1>2. /\ ChatShape /\ handling.room \in Chat!RoomSet /\ handling.of \in Nat
      /\ handling.kind \in Chat!EventKinds \cup {"none"}
  BY DEF ChatInv, ChatShape, EventType
<1>3. Chat!Nothing \in EventType
  <2>1. RoomIds[1] \in Chat!RoomSet
    BY ChatNumbers
  <2> QED
    BY <2>1 DEF Chat!Nothing, EventType
<1> DEFINE room == handling.room
           of == handling.of
           kind == handling.kind
<1>4. \/ kind \in {"text", "notice"} /\ Chat!AddMessage(room, 0, 0, kind) /\ typing' = typing
      \/ Chat!AddMessage(room, 1, 0, "text") /\ typing' = typing
      \/ Chat!AddMessage(room, 0, of, "redaction") /\ typing' = typing
      \/ /\ Chat!Read(room, of) /\ view' = view /\ unread' = unread /\ typing' = typing
         /\ came' = came
      \/ /\ typing' = typing \cup {room} \/ typing' = typing \ {room}
         /\ view' = view /\ messages' = messages /\ unread' = unread /\ came' = came
  <2>1. kind = "typing" => (IF kind = "typing" THEN typing \cup {room} ELSE typing \ {room}) = typing \cup {room}
    OBVIOUS
  <2>2. kind # "typing" => (IF kind = "typing" THEN typing \cup {room} ELSE typing \ {room}) = typing \ {room}
    OBVIOUS
  <2> QED
    BY <2>1, <2>2, Zenon DEF Chat!Handle
<1> HIDE DEF room, of, kind
<1>5. room \in Chat!RoomSet /\ of \in Nat
  BY <1>2 DEF room, of
<1>6. CASE kind \in {"text", "notice"} /\ Chat!AddMessage(room, 0, 0, kind) /\ typing' = typing
  <2>1. kind \in {"text", "notice", "redaction"} /\ 0 \in {0, 1} /\ 0 \in Nat
    BY <1>6
  <2> QED
    BY <1>1, <1>3, <1>5, <1>6, <2>1, MessageKeeps
<1>7. CASE Chat!AddMessage(room, 1, 0, "text") /\ typing' = typing
  <2>1. "text" \in {"text", "notice", "redaction"} /\ 1 \in {0, 1} /\ 0 \in Nat
    OBVIOUS
  <2> QED
    BY <1>1, <1>3, <1>5, <1>7, <2>1, MessageKeeps
<1>8. CASE Chat!AddMessage(room, 0, of, "redaction") /\ typing' = typing
  <2>1. "redaction" \in {"text", "notice", "redaction"} /\ 0 \in {0, 1}
    OBVIOUS
  <2> QED
    BY <1>1, <1>3, <1>5, <1>8, <2>1, MessageKeeps
<1>9. ASSUME typing' \subseteq Chat!RoomSet, view' = view, unread' = unread, came' = came,
             RowsKept', DOMAIN messages' \subseteq ChatKeys,
             \A k \in DOMAIN messages' : messages'[k] \in Seq(EntryType)
      PROVE  ChatInv'
  <2>1. LinesDrawn /\ Chat!UnreadElsewhere
    BY DEF ChatInv
  <2>2. LinesDrawn' /\ LeftDrawn' /\ RightDrawn'
    <3>1. redraw' /\ view'.roomScroll = view.roomScroll /\ screen' = screen /\ loop' = loop
      BY <1>1, <1>9, Zenon
    <3>2. /\ roomList \in Seq(RoomType)
          /\ Len(roomList') \in Nat /\ Len(roomList') >= Len(roomList)
          /\ \A i \in 1..Len(roomList) : roomList'[i].id = roomList[i].id
      BY <1>1, <1>2 DEF ChatShape
    <3> QED
      BY <2>1, <3>1, <3>2, LinesStay
  <2>3. redraw' \in BOOLEAN
    BY <1>1, Zenon
  <2>4. ChatShape'
    BY <1>1, <1>2, <1>3, <1>9, <2>3 DEF ChatShape
  <2>5. Chat!UnreadElsewhere'
    BY <1>9, <2>1 DEF Chat!UnreadElsewhere
  <2> QED
    BY <1>9, <2>2, <2>4, <2>5 DEF ChatInv
<1>10. CASE /\ Chat!Read(room, of) /\ view' = view /\ unread' = unread /\ typing' = typing
            /\ came' = came
  <2>1. RowsKept /\ typing' \subseteq Chat!RoomSet
    BY <1>2, <1>10 DEF ChatInv, ChatShape
  <2>2. /\ RowsKept' /\ DOMAIN messages' \subseteq ChatKeys
        /\ \A k \in DOMAIN messages' : messages'[k] \in Seq(EntryType)
    BY <1>1, <1>2, <1>5, <1>10, <2>1, RowsRead
  <2> QED
    BY <1>9, <1>10, <2>1, <2>2
<1>11. CASE /\ typing' = typing \cup {room} \/ typing' = typing \ {room}
            /\ view' = view /\ messages' = messages /\ unread' = unread /\ came' = came
  <2>1. typing' \subseteq Chat!RoomSet
    BY <1>2, <1>5, <1>11 DEF ChatShape
  <2>2. RowsKept'
    BY <1>1, <1>11 DEF ChatInv, RowsKept, Chat!Held
  <2> QED
    BY <1>2, <1>9, <1>11, <2>1, <2>2 DEF ChatShape
<1> QED
  BY <1>4, <1>6, <1>7, <1>8, <1>10, <1>11

LEMMA PostKeeps ==
    ASSUME ChatInv, NEW r \in Chat!RoomSet, NEW kind \in {"text", "notice"}, Chat!Post(r, kind)
    PROVE  ChatInv'
<1>1. /\ Chat!AddMessage(r, 0, 0, kind)
      /\ loop' = loop /\ roomList' = roomList /\ typing' = typing /\ screen' = screen
      /\ handling' = handling /\ replaced' = replaced
  BY DEF Chat!Post
<1>2. kind \in {"text", "notice", "redaction"} /\ 0 \in {0, 1} /\ 0 \in Nat
  OBVIOUS
<1>3. handling' \in EventType
  BY <1>1 DEF ChatInv, ChatShape
<1> QED
  BY <1>1, <1>2, <1>3, MessageKeeps

-----------------------------------------------------------------------------
(* Drawing, and the keys. *)

\* Steps of the interface's thread that only draw, or wait.
StillThere == UNCHANGED <<roomList, messages, unread, typing, handling, came, replaced>>

\* They keep what is held.
LEMMA HeldStays ==
    ASSUME ChatInv, StillThere, view' \in ViewType, view'.cursor <= view'.input,
           view'.active = view.active
    PROVE  RowsKept' /\ Chat!UnreadElsewhere' /\ \A key : Chat!Held(key)' = Chat!Held(key)
<1>1. \A key : Chat!Held(key)' = Chat!Held(key)
  BY DEF StillThere, Chat!Held
<1>2. RowsKept'
  BY <1>1 DEF StillThere, ChatInv, RowsKept
<1>3. Chat!UnreadElsewhere'
  BY DEF StillThere, ChatInv, Chat!UnreadElsewhere
<1> QED
  BY <1>1, <1>2, <1>3

LEMMA ShapeStays ==
    ASSUME ChatInv, StillThere, view' \in ViewType, view'.cursor <= view'.input,
           loop' \in {"top", "left", "right", "key", "paging", "searching", "gone"},
           redraw' \in BOOLEAN, IsScreen(screen')
    PROVE  ChatShape'
BY DEF StillThere, ChatInv, ChatShape, IsScreen

\* A key, or the end of a pause: the loop starts again with a frame, leaves, or asks.
LEMMA KeyKeeps ==
    ASSUME ChatInv, StillThere, view' \in ViewType, view'.cursor <= view'.input,
           view'.active = view.active, screen' = screen \/ screen' = Chat!Blank,
           loop' \in {"paging", "searching", "gone"} \/ (loop' = "top" /\ redraw'),
           redraw' \in BOOLEAN
    PROVE  ChatInv'
<1>1. LinesDrawn' /\ LeftDrawn' /\ RightDrawn'
  BY FrameDue
<1>2. IsScreen(screen')
  <2>1. IsScreen(screen) /\ IsScreen(Chat!Blank)
    <3>1. IsScreen(screen)
      BY DEF ChatInv, ChatShape
    <3>2. IsScreen(Chat!Blank)
      BY DEF Chat!Blank, IsScreen
    <3> QED
      BY <3>1, <3>2
  <2> QED
    BY <2>1
<1>3. ChatShape'
  BY <1>2, ShapeStays
<1> QED
  BY <1>1, <1>3, HeldStays DEF ChatInv

LEMMA InterruptedKeeps == ASSUME ChatInv, Chat!Interrupted PROVE ChatInv'
<1>1. loop' = "gone" /\ StillThere /\ view' = view /\ redraw' = redraw /\ screen' = screen
  BY DEF Chat!Interrupted, Chat!Stay, StillThere
<1>2. view \in ViewType /\ view.cursor <= view.input /\ redraw \in BOOLEAN
  BY DEF ChatInv, ChatShape
<1> QED
  BY <1>1, <1>2, KeyKeeps

LEMMA HelpKeeps == ASSUME ChatInv, Chat!Help PROVE ChatInv'
<1>1. /\ loop' = loop /\ loop = "top" /\ StillThere /\ view' = [view EXCEPT !.help = FALSE]
      /\ redraw' = TRUE /\ screen' = Chat!Blank
  BY DEF Chat!Help, Chat!Stay, StillThere
<1>2. view \in ViewType /\ view.cursor <= view.input
  BY DEF ChatInv, ChatShape
<1>3. /\ view' \in ViewType /\ view'.cursor = view.cursor /\ view'.input = view.input
      /\ view'.active = view.active
  BY <1>1, <1>2 DEF ViewType
<1>4. redraw' /\ redraw' \in BOOLEAN
  BY <1>1, Zenon
<1> QED
  BY <1>1, <1>2, <1>3, <1>4, KeyKeeps

LEMMA DrawKeeps == ASSUME ChatInv, Chat!Draw PROVE ChatInv'
<1>1. /\ loop = "top" /\ StillThere /\ view' = view /\ screen' = screen
  BY DEF Chat!Draw, Chat!Stay, StillThere
<1>2. redraw' = FALSE /\ loop' = IF redraw THEN "left" ELSE "key"
  BY Zenon DEF Chat!Draw
<1>3. ChatShape /\ LinesDrawn /\ LeftDrawn /\ RightDrawn
  BY DEF ChatInv
<1>4. view \in ViewType /\ view.cursor <= view.input /\ redraw' \in BOOLEAN /\ IsScreen(screen)
      /\ redraw \in BOOLEAN
  <2>1. redraw' \in BOOLEAN
    BY <1>2, Zenon
  <2> QED
    BY <1>3, <2>1 DEF ChatShape
<1>5. (redraw /\ loop' = "left") \/ (~ redraw /\ loop' = "key")
  BY <1>2, <1>4, Zenon
<1>6. ChatShape'
  <2>1. loop' \in {"top", "left", "right", "key", "paging", "searching", "gone"}
    BY <1>5
  <2>2. IsScreen(screen')
    BY <1>1, <1>4 DEF IsScreen
  <2> QED
    BY <1>1, <1>4, <2>1, <2>2, ShapeStays
<1>7. LinesDrawn' /\ LeftDrawn' /\ RightDrawn'
  <2>1. CASE redraw /\ loop' = "left"
    BY <2>1, FrameDue
  <2>2. CASE ~ redraw /\ loop' = "key"
    <3>1. /\ \A line \in DOMAIN screen.rooms :
                /\ view.roomScroll + line \in 1..Len(roomList)
                /\ roomList[view.roomScroll + line].id = screen.rooms[line].room.id
      BY <1>1, <1>3, <2>2, Zenon DEF LinesDrawn
    <3>2. LinesDrawn'
      BY <1>1, <3>1, Zenon DEF LinesDrawn, StillThere
    <3>3. loop \in {"right", "key", "top"} /\ loop \in {"key", "top"}
      BY <1>1
    <3>4. screen.typing = Chat!StatusNow /\ screen.rooms = Chat!RoomsFrom(view.roomScroll)
      BY <1>3, <2>2, <3>3, Zenon DEF LeftDrawn
    <3>5. LeftDrawn'
      BY <1>1, <3>4 DEF LeftDrawn, StillThere, Chat!StatusNow, Chat!RoomsFrom
    <3>6. /\ screen.messages = Chat!MessagesFrom(view.msgScroll) /\ screen.bottom = Chat!BottomNow
          /\ Chat!Held(Chat!KeyOf(view.active, 0)) # <<>> =>
                view.msgScroll \in 0..(Len(Chat!Held(Chat!KeyOf(view.active, 0))) - 1)
      BY <1>3, <2>2, <3>3, Zenon DEF RightDrawn
    <3>7. RightDrawn'
      BY <1>1, <3>6 DEF RightDrawn, StillThere, Chat!MessagesFrom, Chat!BottomNow, Chat!Held, Chat!KeyOf
    <3> QED
      BY <3>2, <3>5, <3>7
  <2> QED
    BY <1>5, <2>1, <2>2
<1>8. RowsKept' /\ Chat!UnreadElsewhere'
  BY <1>1, <1>4, HeldStays
<1> QED
  BY <1>6, <1>7, <1>8 DEF ChatInv

\* The list is scrolled back to where it has lines.
LEMMA ListLines ==
    ASSUME ChatShape
    PROVE  /\ Chat!ListScroll \in Int
           /\ \A line \in DOMAIN Chat!RoomsFrom(Chat!ListScroll) :
                  /\ view.pane = "rooms"
                  /\ Chat!ListScroll + line \in 1..Len(roomList)
                  /\ Chat!RoomsFrom(Chat!ListScroll)[line].room = roomList[Chat!ListScroll + line]
<1>1. roomList \in Seq(RoomType) /\ Len(roomList) \in Nat /\ view.roomScroll \in Int
      /\ view.pane \in {"rooms", "members"}
  BY DEF ChatShape, ViewType
<1>2. Chat!ListScroll \in Nat
  BY <1>1, ChatNumbers DEF Chat!ListScroll, Chat!AtLeast, Chat!AtMost
<1> DEFINE at == Chat!ListScroll
           list == Chat!RoomsFrom(at)
           many == Chat!AtMost(RoomLines, Len(roomList) - at)
<1>3. many \in Int /\ many <= Len(roomList) - at
  BY <1>1, <1>2, ChatNumbers DEF Chat!AtMost
<1>4. CASE view.pane = "members"
  <2>1. list = << >>
    BY <1>4 DEF Chat!RoomsFrom
  <2> HIDE DEF list
  <2>2. DOMAIN list = {}
    BY <2>1
  <2> QED
    BY <1>2, <2>2 DEF list
<1>5. CASE view.pane # "members"
  <2>1. list = [i \in 1..many |->
                  [room |-> roomList[at + i], unread |-> unread[roomList[at + i].id],
                   active |-> roomList[at + i].id = view.active]]
    BY <1>5, Zenon DEF Chat!RoomsFrom
  <2> HIDE DEF list, at, many
  <2>2. DOMAIN list = 1..many /\ \A i \in 1..many : list[i].room = roomList[at + i]
    BY <2>1
  <2>3. \A i \in 1..many : at + i \in 1..Len(roomList)
    BY <1>1, <1>2, <1>3 DEF at
  <2>4. view.pane = "rooms"
    BY <1>1, <1>5
  <2> QED
    BY <1>2, <2>2, <2>3, <2>4 DEF list, at
<1> QED
  BY <1>4, <1>5

LEMMA DrawLeftKeeps == ASSUME ChatInv, Chat!DrawLeft PROVE ChatInv'
<1> DEFINE list == Chat!RoomsFrom(Chat!ListScroll)
<1>1. /\ loop = "left" /\ loop' = "right" /\ StillThere /\ redraw' = redraw
      /\ view' = IF view.pane = "rooms" THEN [view EXCEPT !.roomScroll = Chat!ListScroll] ELSE view
      /\ screen' = [screen EXCEPT !.typing = Chat!StatusNow, !.rooms = list]
  BY DEF Chat!DrawLeft, Chat!Stay, StillThere
<1>2. ChatShape /\ view \in ViewType /\ view.cursor <= view.input /\ IsScreen(screen)
      /\ view.pane \in {"rooms", "members"} /\ redraw \in BOOLEAN
  BY DEF ChatInv, ChatShape, ViewType
<1>3. Chat!ListScroll \in Int
  BY <1>2, ListLines
<1>4. /\ view' \in ViewType /\ view'.cursor = view.cursor /\ view'.input = view.input
      /\ view'.active = view.active /\ view'.pane = view.pane
      /\ view.pane = "rooms" => view'.roomScroll = Chat!ListScroll
  <2> DEFINE at == Chat!ListScroll
             moved == [view EXCEPT !.roomScroll = at]
  <2>1. at \in Int
    BY <1>3
  <2> HIDE DEF at
  <2>2. /\ moved \in ViewType /\ moved.cursor = view.cursor /\ moved.input = view.input
        /\ moved.active = view.active /\ moved.pane = view.pane /\ moved.roomScroll = at
    BY <1>2, <2>1 DEF ViewType
  <2>3. (view.pane = "rooms" /\ view' = moved) \/ (view.pane # "rooms" /\ view' = view)
    BY <1>1 DEF at
  <2> HIDE DEF moved
  <2> QED
    BY <1>2, <2>2, <2>3 DEF at
<1>5. /\ screen'.typing = Chat!StatusNow /\ screen'.rooms = list /\ IsScreen(screen')
  <2>1. PICK typ, rms, txt, lin :
            screen = [typing |-> typ, rooms |-> rms, messages |-> txt, bottom |-> lin]
    BY <1>2 DEF IsScreen
  <2> DEFINE now == Chat!StatusNow
  <2> HIDE DEF now, list
  <2>2. screen' = [screen EXCEPT !.typing = now, !.rooms = list]
    BY <1>1 DEF now
  <2>3. screen' = [typing |-> now, rooms |-> list, messages |-> txt, bottom |-> lin]
    BY <2>1, <2>2
  <2>4. screen'.typing = now /\ screen'.rooms = list
    BY <2>3
  <2>5. IsScreen(screen')
    BY <2>3, Zenon DEF IsScreen
  <2> QED
    BY <2>4, <2>5 DEF now
<1>6. ChatShape'
  BY <1>1, <1>2, <1>4, <1>5, ShapeStays
<1>7. RowsKept' /\ Chat!UnreadElsewhere'
  BY <1>1, <1>2, <1>4, HeldStays
<1>8. LinesDrawn'
  <2>1. ASSUME NEW line \in DOMAIN screen'.rooms
        PROVE  /\ view'.roomScroll + line \in 1..Len(roomList')
               /\ roomList'[view'.roomScroll + line].id = screen'.rooms[line].room.id
    <3>1. line \in DOMAIN list
      BY <1>5, <2>1
    <3>2. /\ view.pane = "rooms" /\ Chat!ListScroll + line \in 1..Len(roomList)
          /\ list[line].room = roomList[Chat!ListScroll + line]
      BY <1>2, <3>1, ListLines
    <3>3. view'.roomScroll = Chat!ListScroll /\ roomList' = roomList
      BY <1>1, <1>4, <3>2 DEF StillThere
    <3> HIDE DEF list
    <3> QED
      BY <1>5, <3>2, <3>3, Zenon
  <2> QED
    BY <2>1, Zenon DEF LinesDrawn
<1>9. LeftDrawn'
  <2>1. Chat!StatusNow' = Chat!StatusNow
    BY <1>1, <1>4 DEF Chat!StatusNow, StillThere
  <2>2. Chat!RoomsFrom(view.roomScroll)' = list
    <3>1. CASE view.pane = "members"
      BY <1>4, <3>1 DEF Chat!RoomsFrom
    <3>2. CASE view.pane = "rooms"
      BY <1>1, <1>4, <3>2 DEF Chat!RoomsFrom, StillThere, Chat!AtMost
    <3> QED
      BY <1>2, <3>1, <3>2
  <2> HIDE DEF list
  <2>3. screen'.typing = Chat!StatusNow' /\ screen'.rooms = Chat!RoomsFrom(view.roomScroll)'
    BY <1>5, <2>1, <2>2, Zenon
  <2> QED
    BY <2>3, Zenon DEF LeftDrawn
<1>10. RightDrawn'
  BY <1>1 DEF RightDrawn
<1> QED
  BY <1>6, <1>7, <1>8, <1>9, <1>10 DEF ChatInv

\* A scroll past the oldest message goes back to one.
LEMMA ScrollFits ==
    ASSUME ChatShape
    PROVE  /\ Chat!MessageScroll \in Int
           /\ Chat!Held(Chat!KeyOf(view.active, 0)) # <<>> =>
                 Chat!MessageScroll \in 0..(Len(Chat!Held(Chat!KeyOf(view.active, 0))) - 1)
<1> DEFINE key == Chat!KeyOf(view.active, 0)
           all == Chat!Held(key)
<1>1. view.msgScroll \in Int /\ all \in Seq(EntryType) /\ Len(all) \in Nat
  BY HeldRows DEF ChatShape, ViewType
<1>2. all # << >> => key \in DOMAIN messages /\ Len(all) >= 1
  <2>1. key \notin DOMAIN messages => all = << >>
    BY Zenon DEF Chat!Held
  <2> HIDE DEF all, key
  <2> QED
    BY <1>1, <2>1
<1>3. Chat!MessageScroll =
          IF key \notin DOMAIN messages THEN view.msgScroll
          ELSE Chat!AtLeast(0, IF view.msgScroll >= Len(all) THEN Len(all) - MessageLines
                               ELSE view.msgScroll)
  BY Zenon DEF Chat!MessageScroll
<1> HIDE DEF all, key
<1>4. Chat!MessageScroll \in Int
  BY <1>1, <1>3, ChatNumbers DEF Chat!AtLeast
<1>5. all # << >> => Chat!MessageScroll \in 0..(Len(all) - 1)
  BY <1>1, <1>2, <1>3, ChatNumbers DEF Chat!AtLeast
<1> QED
  BY <1>4, <1>5 DEF all, key

LEMMA DrawRightKeeps == ASSUME ChatInv, Chat!DrawRight PROVE ChatInv'
<1> DEFINE at == Chat!MessageScroll
           text == Chat!MessagesFrom(at)
           line == Chat!BottomNow
<1>1. /\ loop = "right" /\ loop' = "key" /\ StillThere /\ redraw' = redraw
      /\ view' = [view EXCEPT !.msgScroll = at]
      /\ screen' = [screen EXCEPT !.messages = text, !.bottom = line]
  BY DEF Chat!DrawRight, Chat!Stay, StillThere
<1>2. ChatShape /\ LinesDrawn /\ LeftDrawn /\ view \in ViewType /\ view.cursor <= view.input
      /\ IsScreen(screen) /\ redraw \in BOOLEAN
  BY DEF ChatInv, ChatShape, ViewType
<1>3. at \in Int
  BY <1>2, ScrollFits
<1>4. /\ view' \in ViewType /\ view'.cursor = view.cursor /\ view'.input = view.input
      /\ view'.active = view.active /\ view'.pane = view.pane /\ view'.roomScroll = view.roomScroll
      /\ view'.box = view.box /\ view'.query = view.query /\ view'.focus = view.focus
      /\ view'.msgScroll = at
  <2> HIDE DEF at
  <2>1. view' = [view EXCEPT !.msgScroll = at] /\ at \in Int
    BY <1>1, <1>3
  <2> QED
    BY <1>2, <2>1 DEF ViewType
<1>5. /\ screen'.typing = screen.typing /\ screen'.rooms = screen.rooms /\ IsScreen(screen')
      /\ screen'.messages = text /\ screen'.bottom = line
  <2>1. PICK typ, rms, txt, lin :
            screen = [typing |-> typ, rooms |-> rms, messages |-> txt, bottom |-> lin]
    BY <1>2 DEF IsScreen
  <2> HIDE DEF text, line
  <2>2. screen' = [screen EXCEPT !.messages = text, !.bottom = line]
    BY <1>1
  <2>3. screen' = [typing |-> typ, rooms |-> rms, messages |-> text, bottom |-> line]
    BY <2>1, <2>2
  <2>4. screen'.typing = typ /\ screen'.rooms = rms /\ screen'.messages = text /\ screen'.bottom = line
    BY <2>3
  <2>5. screen.typing = typ /\ screen.rooms = rms
    BY <2>1
  <2>6. IsScreen(screen')
    BY <2>3, Zenon DEF IsScreen
  <2> QED
    BY <2>4, <2>5, <2>6
<1>6. ChatShape'
  BY <1>1, <1>2, <1>4, <1>5, ShapeStays
<1>7. RowsKept' /\ Chat!UnreadElsewhere' /\ \A key : Chat!Held(key)' = Chat!Held(key)
  BY <1>1, <1>2, <1>4, HeldStays
<1>8. LinesDrawn'
  <2>1. \A l \in DOMAIN screen.rooms :
            /\ view.roomScroll + l \in 1..Len(roomList)
            /\ roomList[view.roomScroll + l].id = screen.rooms[l].room.id
    <3>1. loop \in {"right", "key"}
      BY <1>1
    <3> QED
      BY <1>2, <3>1, Zenon DEF LinesDrawn
  <2>2. screen'.rooms = screen.rooms /\ view'.roomScroll = view.roomScroll /\ roomList' = roomList
    BY <1>1, <1>4, <1>5 DEF StillThere
  <2> QED
    BY <2>1, <2>2, Zenon DEF LinesDrawn
<1>9. LeftDrawn'
  <2>1. ~ redraw => screen.typing = Chat!StatusNow /\ screen.rooms = Chat!RoomsFrom(view.roomScroll)
    <3>1. loop \in {"right", "key", "top"}
      BY <1>1
    <3> QED
      BY <1>2, <3>1, Zenon DEF LeftDrawn
  <2>2. Chat!StatusNow' = Chat!StatusNow
    BY <1>1, <1>4 DEF Chat!StatusNow, StillThere
  <2>3. Chat!RoomsFrom(view.roomScroll)' = Chat!RoomsFrom(view.roomScroll)
    BY <1>1, <1>4 DEF Chat!RoomsFrom, StillThere
  <2> QED
    BY <1>1, <1>5, <2>1, <2>2, <2>3, Zenon DEF LeftDrawn
<1>10. RightDrawn'
  <2>1. Chat!KeyOf(view.active, 0)' = Chat!KeyOf(view.active, 0)
    BY <1>4 DEF Chat!KeyOf
  <2>2. Chat!Held(Chat!KeyOf(view.active, 0))' = Chat!Held(Chat!KeyOf(view.active, 0))
    BY <1>7, <2>1, Zenon
  <2>3. Chat!MessagesFrom(view.msgScroll)' = text
    BY <1>4, <2>2 DEF Chat!MessagesFrom
  <2>4. Chat!BottomNow' = line
    BY <1>4 DEF Chat!BottomNow
  <2>5. Chat!Held(Chat!KeyOf(view.active, 0)) # <<>> =>
                 at \in 0..(Len(Chat!Held(Chat!KeyOf(view.active, 0))) - 1)
    BY <1>2, ScrollFits
  <2> HIDE DEF at, text, line
  <2> QED
    BY <1>4, <1>5, <2>2, <2>3, <2>4, <2>5, Zenon DEF RightDrawn
<1> QED
  BY <1>6, <1>7, <1>8, <1>9, <1>10 DEF ChatInv

\* No key came: the loop starts again, with what is drawn.
LEMMA NoKeyKeeps == ASSUME ChatInv, Chat!NoKey PROVE ChatInv'
<1>1. /\ loop = "key" /\ loop' = "top" /\ StillThere /\ redraw' = redraw /\ view' = view
      /\ screen' = screen
  BY DEF Chat!NoKey, Chat!Stay, StillThere
<1>2. ChatShape /\ LinesDrawn /\ LeftDrawn /\ RightDrawn /\ view \in ViewType
      /\ view.cursor <= view.input /\ IsScreen(screen) /\ redraw \in BOOLEAN
  BY DEF ChatInv, ChatShape
<1>3. ChatShape'
  <2>1. IsScreen(screen')
    BY <1>1, <1>2 DEF IsScreen
  <2> QED
    BY <1>1, <1>2, <2>1, ShapeStays
<1>4. RowsKept' /\ Chat!UnreadElsewhere' /\ \A key : Chat!Held(key)' = Chat!Held(key)
  BY <1>1, <1>2, HeldStays
<1>5. LinesDrawn'
  <2>1. \A l \in DOMAIN screen.rooms :
            /\ view.roomScroll + l \in 1..Len(roomList)
            /\ roomList[view.roomScroll + l].id = screen.rooms[l].room.id
    <3>1. loop \in {"right", "key"}
      BY <1>1
    <3> QED
      BY <1>2, <3>1, Zenon DEF LinesDrawn
  <2> QED
    BY <1>1, <2>1, Zenon DEF LinesDrawn, StillThere
<1>6. LeftDrawn'
  <2>1. ~ redraw => screen.typing = Chat!StatusNow /\ screen.rooms = Chat!RoomsFrom(view.roomScroll)
    <3>1. loop \in {"right", "key", "top"}
      BY <1>1
    <3> QED
      BY <1>2, <3>1, Zenon DEF LeftDrawn
  <2>2. Chat!StatusNow' = Chat!StatusNow
    BY <1>1 DEF Chat!StatusNow, StillThere
  <2>3. Chat!RoomsFrom(view.roomScroll)' = Chat!RoomsFrom(view.roomScroll)
    BY <1>1 DEF Chat!RoomsFrom, StillThere
  <2> QED
    BY <1>1, <2>1, <2>2, <2>3, Zenon DEF LeftDrawn
<1>7. RightDrawn'
  <2>1. ~ redraw =>
            /\ screen.messages = Chat!MessagesFrom(view.msgScroll) /\ screen.bottom = Chat!BottomNow
            /\ Chat!Held(Chat!KeyOf(view.active, 0)) # <<>> =>
                  view.msgScroll \in 0..(Len(Chat!Held(Chat!KeyOf(view.active, 0))) - 1)
    <3>1. loop \in {"key", "top"}
      BY <1>1
    <3> QED
      BY <1>2, <3>1, Zenon DEF RightDrawn
  <2>2. Chat!KeyOf(view.active, 0)' = Chat!KeyOf(view.active, 0)
    BY <1>1 DEF Chat!KeyOf
  <2>3. Chat!Held(Chat!KeyOf(view.active, 0))' = Chat!Held(Chat!KeyOf(view.active, 0))
    BY <1>4, <2>2, Zenon
  <2>4. Chat!MessagesFrom(view.msgScroll)' = Chat!MessagesFrom(view.msgScroll)
    BY <1>1, <2>3 DEF Chat!MessagesFrom
  <2>5. Chat!BottomNow' = Chat!BottomNow
    BY <1>1 DEF Chat!BottomNow
  <2> QED
    BY <1>1, <2>1, <2>3, <2>4, <2>5, Zenon DEF RightDrawn
<1> QED
  BY <1>3, <1>4, <1>5, <1>6, <1>7 DEF ChatInv

\* What a key does that only moves the view.
LEMMA PressedStays ==
    ASSUME ChatInv, Chat!Pressed, Chat!Only
    PROVE  StillThere /\ loop' = "top" /\ redraw' /\ redraw' \in BOOLEAN /\ screen' = screen
<1>1. redraw' /\ redraw' \in BOOLEAN
  BY Zenon DEF Chat!Only, Chat!Redrawn
<1> QED
  BY <1>1 DEF Chat!Pressed, Chat!Only, Chat!Redrawn, StillThere

LEMMA OnlyKeeps ==
    ASSUME ChatInv, Chat!Pressed, Chat!Only, view' \in ViewType, view'.cursor <= view'.input,
           view'.active = view.active
    PROVE  ChatInv'
BY PressedStays, KeyKeeps

LEMMA ViewNumbers ==
    ASSUME ChatInv
    PROVE  /\ view \in ViewType /\ view.cursor <= view.input /\ view.cursor \in Nat
           /\ view.input \in Nat /\ {view.roomScroll, view.msgScroll, view.query} \subseteq Int
           /\ view.active \in Chat!RoomSet /\ redraw \in BOOLEAN
BY DEF ChatInv, ChatShape, ViewType

\* The search box opens or closes.
LEMMA BoxSet ==
    ASSUME NEW v \in ViewType, NEW box \in BOOLEAN, NEW focus \in {"input", "rooms", "search"}
    PROVE  /\ [v EXCEPT !.box = box, !.focus = focus, !.query = 0] \in ViewType
           /\ [v EXCEPT !.box = box, !.focus = focus, !.query = 0].cursor = v.cursor
           /\ [v EXCEPT !.box = box, !.focus = focus, !.query = 0].input = v.input
           /\ [v EXCEPT !.box = box, !.focus = focus, !.query = 0].active = v.active
<1> DEFINE x == [v EXCEPT !.box = box]
           y == [x EXCEPT !.focus = focus]
           z == [y EXCEPT !.query = 0]
<1>1. [v EXCEPT !.box = box, !.focus = focus, !.query = 0] = z
  BY DEF ViewType
<1>2. x \in ViewType /\ x.cursor = v.cursor /\ x.input = v.input /\ x.active = v.active
  BY DEF ViewType
<1> HIDE DEF x
<1>3. y \in ViewType /\ y.cursor = v.cursor /\ y.input = v.input /\ y.active = v.active
  BY <1>2 DEF ViewType
<1> HIDE DEF y
<1>4. z \in ViewType /\ z.cursor = v.cursor /\ z.input = v.input /\ z.active = v.active
  BY <1>3 DEF ViewType
<1> HIDE DEF z
<1> QED
  BY <1>1, <1>4

\* The keys that only move the view.
LEMMA MovingKeeps ==
    ASSUME ChatInv,
           \/ Chat!ClickElsewhere \/ Chat!Erase \/ Chat!Delete \/ Chat!Letter \/ Chat!Focus
           \/ Chat!Pane \/ Chat!HelpKey \/ Chat!SearchKey \/ Chat!Escape
           \/ \E down \in BOOLEAN : Chat!Wheel(down)
           \/ \E to \in 0..view.input : Chat!Move(to)
           \/ \E by \in {-1, Page, -Page} : Chat!Scroll(by)
           \/ \E by \in {1, -1} : Chat!ScrollRooms(by) \/ Chat!Query(by)
    PROVE  ChatInv'
<1>1. /\ view \in ViewType /\ view.cursor <= view.input /\ view.cursor \in Nat
      /\ view.input \in Nat /\ {view.roomScroll, view.msgScroll, view.query} \subseteq Int
  BY ViewNumbers
<1>2. CASE Chat!ClickElsewhere
  <2>1. Chat!Pressed /\ Chat!Only /\ view' = [view EXCEPT !.focus = "input"]
    BY <1>2 DEF Chat!ClickElsewhere
  <2>2. view' \in ViewType /\ view'.cursor <= view'.input /\ view'.active = view.active
    BY <1>1, <2>1 DEF ViewType
  <2> QED
    BY <2>1, <2>2, OnlyKeeps
<1>3. CASE Chat!Erase
  <2>1. /\ Chat!Pressed /\ Chat!Only /\ view.cursor > 0
        /\ view' = [view EXCEPT !.input = @ - 1, !.cursor = @ - 1]
    BY <1>3 DEF Chat!Erase, Chat!InComposer
  <2> DEFINE q == [view EXCEPT !.input = view.input - 1]
  <2>2. q \in ViewType /\ q.cursor = view.cursor /\ q.input = view.input - 1 /\ q.active = view.active
    BY <1>1, <2>1 DEF ViewType
  <2>3. view' = [q EXCEPT !.cursor = q.cursor - 1]
    BY <1>1, <2>1 DEF ViewType
  <2> HIDE DEF q
  <2>4. view' \in ViewType /\ view'.cursor <= view'.input /\ view'.active = view.active
    BY <1>1, <2>1, <2>2, <2>3 DEF ViewType
  <2> QED
    BY <2>1, <2>4, OnlyKeeps
<1>4. CASE Chat!Delete
  <2>1. /\ Chat!Pressed /\ Chat!Only /\ view.cursor < view.input
        /\ view' = [view EXCEPT !.input = @ - 1]
    BY <1>4 DEF Chat!Delete, Chat!InComposer
  <2>2. view' \in ViewType /\ view'.cursor <= view'.input /\ view'.active = view.active
    BY <1>1, <2>1 DEF ViewType
  <2> QED
    BY <2>1, <2>2, OnlyKeeps
<1>5. CASE Chat!Letter
  <2>1. /\ Chat!Pressed /\ Chat!Only
        /\ view' = [view EXCEPT !.input = @ + 1, !.cursor = @ + 1]
    BY <1>5 DEF Chat!Letter, Chat!InComposer
  <2> DEFINE q == [view EXCEPT !.input = view.input + 1]
  <2>2. q \in ViewType /\ q.cursor = view.cursor /\ q.input = view.input + 1 /\ q.active = view.active
    BY <1>1, <2>1 DEF ViewType
  <2>3. view' = [q EXCEPT !.cursor = q.cursor + 1]
    BY <1>1, <2>1 DEF ViewType
  <2> HIDE DEF q
  <2>4. view' \in ViewType /\ view'.cursor <= view'.input /\ view'.active = view.active
    BY <1>1, <2>1, <2>2, <2>3 DEF ViewType
  <2> QED
    BY <2>1, <2>4, OnlyKeeps
<1>6. CASE Chat!Focus
  <2>1. /\ Chat!Pressed /\ Chat!Only
        /\ view' = [view EXCEPT !.focus = IF @ = "input" THEN "rooms" ELSE "input"]
    BY <1>6 DEF Chat!Focus
  <2>2. view' \in ViewType /\ view'.cursor <= view'.input /\ view'.active = view.active
    BY <1>1, <2>1 DEF ViewType
  <2> QED
    BY <2>1, <2>2, OnlyKeeps
<1>7. CASE Chat!Pane
  <2>1. /\ Chat!Pressed /\ Chat!Only
        /\ view' = [view EXCEPT !.pane = IF @ = "rooms" THEN "members" ELSE "rooms"]
    BY <1>7 DEF Chat!Pane
  <2>2. view' \in ViewType /\ view'.cursor <= view'.input /\ view'.active = view.active
    BY <1>1, <2>1 DEF ViewType
  <2> QED
    BY <2>1, <2>2, OnlyKeeps
<1>8. CASE Chat!HelpKey
  <2>1. Chat!Pressed /\ Chat!Only /\ view' = [view EXCEPT !.help = TRUE]
    BY <1>8 DEF Chat!HelpKey
  <2>2. view' \in ViewType /\ view'.cursor <= view'.input /\ view'.active = view.active
    BY <1>1, <2>1 DEF ViewType
  <2> QED
    BY <2>1, <2>2, OnlyKeeps
<1>9. CASE Chat!SearchKey
  <2>1. /\ Chat!Pressed /\ Chat!Only
        /\ \/ view' = [view EXCEPT !.box = FALSE]
           \/ view' = [view EXCEPT !.box = TRUE, !.focus = "search", !.query = 0]
    BY <1>9, Zenon DEF Chat!SearchKey, Chat!InComposer
  <2>2. CASE view' = [view EXCEPT !.box = FALSE]
    <3>1. view' \in ViewType /\ view'.cursor <= view'.input /\ view'.active = view.active
      BY <1>1, <2>2 DEF ViewType
    <3> QED
      BY <2>1, <3>1, OnlyKeeps
  <2>3. CASE view' = [view EXCEPT !.box = TRUE, !.focus = "search", !.query = 0]
    <3> DEFINE q == [view EXCEPT !.box = TRUE, !.focus = "search", !.query = 0]
    <3>2. /\ q \in ViewType /\ q.cursor = view.cursor /\ q.input = view.input
          /\ q.active = view.active
      BY <1>1, BoxSet
    <3> HIDE DEF q
    <3>3. view' = q
      BY <2>3, Zenon DEF q
    <3>1. view' \in ViewType /\ view'.cursor <= view'.input /\ view'.active = view.active
      BY <1>1, <3>2, <3>3
    <3> QED
      BY <2>1, <3>1, OnlyKeeps
  <2> QED
    BY <2>1, <2>2, <2>3
<1>10. CASE Chat!Escape
  <2>1. /\ Chat!Pressed /\ Chat!Only
        /\ view' = [view EXCEPT !.box = FALSE, !.focus = "input", !.query = 0]
    BY <1>10 DEF Chat!Escape, Chat!InSearch
  <2> DEFINE q == [view EXCEPT !.box = FALSE, !.focus = "input", !.query = 0]
  <2>3. /\ q \in ViewType /\ q.cursor = view.cursor /\ q.input = view.input
        /\ q.active = view.active
    BY <1>1, BoxSet
  <2> HIDE DEF q
  <2>4. view' = q
    BY <2>1, Zenon DEF q
  <2>2. view' \in ViewType /\ view'.cursor <= view'.input /\ view'.active = view.active
    BY <1>1, <2>3, <2>4
  <2> QED
    BY <2>1, <2>2, OnlyKeeps
<1>11. ASSUME NEW down \in BOOLEAN, Chat!Wheel(down) PROVE ChatInv'
  <2>1. /\ Chat!Pressed /\ Chat!Only
        /\ \/ view' = [view EXCEPT !.msgScroll = @ + 1]
           \/ view' = [view EXCEPT !.msgScroll = @ - 1]
    BY <1>11, Zenon DEF Chat!Wheel
  <2>2. view' \in ViewType /\ view'.cursor <= view'.input /\ view'.active = view.active
    BY <1>1, <2>1 DEF ViewType
  <2> QED
    BY <2>1, <2>2, OnlyKeeps
<1>12. ASSUME NEW to \in 0..view.input, Chat!Move(to) PROVE ChatInv'
  <2>1. Chat!Pressed /\ Chat!Only /\ view' = [view EXCEPT !.cursor = to]
    BY <1>12 DEF Chat!Move, Chat!InComposer
  <2>2. view' \in ViewType /\ view'.cursor <= view'.input /\ view'.active = view.active
    BY <1>1, <2>1 DEF ViewType
  <2> QED
    BY <2>1, <2>2, OnlyKeeps
<1>13. ASSUME NEW by \in {-1, Page, -Page}, Chat!Scroll(by) PROVE ChatInv'
  <2>1. Chat!Pressed /\ Chat!Only /\ view' = [view EXCEPT !.msgScroll = Chat!AtLeast(0, @ + by)]
    BY <1>13 DEF Chat!Scroll, Chat!InComposer
  <2>2. by \in Int
    BY ChatNumbers
  <2>3. Chat!AtLeast(0, view.msgScroll + by) \in Int
    BY <1>1, <2>2 DEF Chat!AtLeast
  <2>4. view' \in ViewType /\ view'.cursor <= view'.input /\ view'.active = view.active
    BY <1>1, <2>1, <2>3 DEF ViewType
  <2> QED
    BY <2>1, <2>4, OnlyKeeps
<1>14. ASSUME NEW by \in {1, -1}, Chat!ScrollRooms(by) PROVE ChatInv'
  <2>1. Chat!Pressed /\ Chat!Only /\ view' = [view EXCEPT !.roomScroll = @ + by]
    BY <1>14 DEF Chat!ScrollRooms
  <2>2. view' \in ViewType /\ view'.cursor <= view'.input /\ view'.active = view.active
    BY <1>1, <2>1 DEF ViewType
  <2> QED
    BY <2>1, <2>2, OnlyKeeps
<1>15. ASSUME NEW by \in {1, -1}, Chat!Query(by) PROVE ChatInv'
  <2>1. Chat!Pressed /\ Chat!Only /\ view' = [view EXCEPT !.query = @ + by]
    BY <1>15 DEF Chat!Query, Chat!InSearch
  <2>2. view' \in ViewType /\ view'.cursor <= view'.input /\ view'.active = view.active
    BY <1>1, <2>1 DEF ViewType
  <2> QED
    BY <2>1, <2>2, OnlyKeeps
<1> QED
  BY <1>2, <1>3, <1>4, <1>5, <1>6, <1>7, <1>8, <1>9, <1>10, <1>11, <1>12, <1>13, <1>14, <1>15

\* What a key that asks for something leaves: paging and searching come back with a frame.
LEMMA AskingKeeps ==
    ASSUME ChatInv, Chat!Up \/ Chat!Paged \/ Chat!Search \/ Chat!Quit
    PROVE  ChatInv'
<1>1. /\ view \in ViewType /\ view.cursor <= view.input /\ view.msgScroll \in Int
      /\ redraw \in BOOLEAN
  BY ViewNumbers
<1>2. CASE Chat!Up
  <2>1. /\ StillThere /\ screen' = screen
        /\ view' = [view EXCEPT !.msgScroll = @ + 1]
        /\ loop' = IF Chat!KeyOf(view.active, 0) \in DOMAIN messages
                      /\ view.msgScroll + 1 >= Len(messages[Chat!KeyOf(view.active, 0)])
                   THEN "paging" ELSE "top"
    BY <1>2 DEF Chat!Up, Chat!InComposer, Chat!Pressed, StillThere
  <2>2. redraw' = (loop' = "top" \/ redraw)
    BY <1>2, Zenon DEF Chat!Up
  <2>3. view' \in ViewType /\ view'.cursor <= view'.input /\ view'.active = view.active
    BY <1>1, <2>1 DEF ViewType
  <2>4. (loop' = "top" => redraw') /\ redraw' \in BOOLEAN
    BY <2>2, Zenon
  <2>5. loop' = "paging" \/ loop' = "top"
    BY <2>1, Zenon
  <2>6. loop' \in {"paging", "searching", "gone"} \/ (loop' = "top" /\ redraw')
    BY <2>4, <2>5
  <2> QED
    BY <2>1, <2>3, <2>4, <2>6, KeyKeeps
<1>3. CASE Chat!Paged
  <2>1. StillThere /\ screen' = screen /\ view' = view /\ loop' = "top"
    BY <1>3 DEF Chat!Paged, Chat!Stay, StillThere
  <2>2. redraw' /\ redraw' \in BOOLEAN
    BY <1>3, Zenon DEF Chat!Paged
  <2> QED
    BY <1>1, <2>1, <2>2, KeyKeeps
<1>4. CASE Chat!Search
  <2>1. /\ StillThere /\ screen' = screen
        /\ view' = [view EXCEPT !.box = FALSE, !.focus = "input"]
        /\ loop' \in {"searching", "top"}
    BY <1>4 DEF Chat!Search, Chat!InSearch, Chat!Pressed, StillThere
  <2>2. redraw' /\ redraw' \in BOOLEAN
    BY <1>4, Zenon DEF Chat!Search
  <2> DEFINE q == [view EXCEPT !.box = FALSE]
  <2>3. /\ q \in ViewType /\ q.cursor = view.cursor /\ q.input = view.input
        /\ q.active = view.active
    BY <1>1 DEF ViewType
  <2>4. view' = [q EXCEPT !.focus = "input"]
    BY <2>1
  <2> HIDE DEF q
  <2>5. view' \in ViewType /\ view'.cursor <= view'.input /\ view'.active = view.active
    BY <1>1, <2>3, <2>4 DEF ViewType
  <2>6. loop' \in {"paging", "searching", "gone"} \/ (loop' = "top" /\ redraw')
    BY <2>1, <2>2
  <2> QED
    BY <2>1, <2>2, <2>5, <2>6, KeyKeeps
<1>5. CASE Chat!Quit
  <2>1. StillThere /\ screen' = screen /\ view' = view /\ loop' = "gone" /\ redraw' = redraw
    BY <1>5 DEF Chat!Quit, Chat!Pressed, StillThere
  <2>2. redraw' \in BOOLEAN
    BY <1>1, <2>1
  <2> QED
    BY <1>1, <2>1, <2>2, KeyKeeps
<1> QED
  BY <1>2, <1>3, <1>4, <1>5

\* A room is opened.
LEMMA OpenKeeps ==
    ASSUME ChatInv, NEW i, Chat!Pressed, Chat!Open(i)
    PROVE  ChatInv' /\ i \in 1..Len(roomList) /\ view'.active = roomList[i].id
<1> DEFINE r == roomList[i].id
<1>1. /\ i \in DOMAIN roomList
      /\ view' = [view EXCEPT !.active = r, !.msgScroll = 0]
      /\ unread' = [unread EXCEPT ![r] = 0]
      /\ loop' = "top" /\ messages' = messages /\ came' = came /\ replaced' = replaced
      /\ roomList' = roomList /\ typing' = typing /\ screen' = screen /\ handling' = handling
  BY DEF Chat!Open, Chat!Redrawn, Chat!Pressed
<1>2. redraw' /\ redraw' \in BOOLEAN
  BY Zenon DEF Chat!Open, Chat!Redrawn
<1>3. ChatShape /\ RowsKept /\ view \in ViewType /\ view.cursor <= view.input
      /\ unread \in [Chat!RoomSet -> Nat] /\ roomList \in Seq(RoomType)
  BY DEF ChatInv, ChatShape
<1>4. i \in 1..Len(roomList) /\ r \in Chat!RoomSet
  <2>1. DOMAIN roomList = 1..Len(roomList)
    BY <1>3
  <2>2. roomList[i] \in RoomType
    BY <1>1, <1>3, <2>1
  <2> QED
    BY <1>1, <2>1, <2>2 DEF RoomType
<1> HIDE DEF r
<1>5. /\ view' \in ViewType /\ view'.cursor = view.cursor /\ view'.input = view.input
      /\ view'.active = r
  <2> DEFINE q == [view EXCEPT !.active = r]
  <2>1. q \in ViewType /\ q.cursor = view.cursor /\ q.input = view.input /\ q.active = r
    BY <1>3, <1>4 DEF ViewType
  <2>2. view' = [q EXCEPT !.msgScroll = 0]
    BY <1>1
  <2> HIDE DEF q
  <2> QED
    BY <2>1, <2>2 DEF ViewType
<1>6. unread' \in [Chat!RoomSet -> Nat] /\ unread'[r] = 0
  BY <1>1, <1>3, <1>4
<1>7. LinesDrawn' /\ LeftDrawn' /\ RightDrawn'
  BY <1>1, <1>2, FrameDue
<1>8. ChatShape'
  BY <1>1, <1>2, <1>3, <1>5, <1>6 DEF ChatShape, IsScreen
<1>9. RowsKept' /\ Chat!UnreadElsewhere'
  BY <1>1, <1>3, <1>5, <1>6 DEF RowsKept, Chat!Held, Chat!UnreadElsewhere
<1> QED
  BY <1>4, <1>5, <1>7, <1>8, <1>9 DEF ChatInv, r

LEMMA SendKeeps == ASSUME ChatInv, Chat!Send PROVE ChatInv'
<1> DEFINE emptied == [view EXCEPT !.input = 0, !.cursor = 0]
           key == Chat!KeyOf(view.active, 0)
           n == Len(came) + 1
           e == Chat!Entry(n, n, "text")
           all == Append(Chat!Held(key), e)
           back == Chat!AtLeast(0, view.msgScroll - Trim)
<1>1. /\ loop' = "top" /\ replaced' = replaced /\ unread' = unread
      /\ roomList' = roomList /\ typing' = typing /\ screen' = screen /\ handling' = handling
  BY DEF Chat!Send, Chat!InComposer, Chat!Pressed
<1>2. redraw' /\ redraw' \in BOOLEAN
  BY Zenon DEF Chat!Send
<1>3. ChatShape /\ RowsKept /\ view \in ViewType /\ came \in Seq(ChatKeys) /\ Len(came) \in Nat
      /\ view.active \in Chat!RoomSet /\ view.msgScroll \in Int
  BY DEF ChatInv, ChatShape, ViewType
<1>4. /\ emptied \in ViewType /\ emptied.cursor = 0 /\ emptied.input = 0
      /\ emptied.active = view.active /\ emptied.msgScroll = view.msgScroll
  <2> DEFINE q == [view EXCEPT !.input = 0]
  <2>1. q \in ViewType /\ q.input = 0 /\ q.active = view.active /\ q.msgScroll = view.msgScroll
    BY <1>3 DEF ViewType
  <2>2. emptied = [q EXCEPT !.cursor = 0]
    OBVIOUS
  <2> HIDE DEF q, emptied
  <2> QED
    BY <2>1, <2>2 DEF ViewType
<1>5. \/ view' = emptied /\ messages' = messages /\ came' = came
      \/ /\ messages' = Chat!Put(key, Chat!Kept(all)) /\ came' = Append(came, key)
         /\ \/ view' = [emptied EXCEPT !.msgScroll = Chat!AtLeast(0, @ - Trim)]
            \/ view' = emptied
  BY DEF Chat!Send
<1>6. back \in Int
  BY <1>3, ChatNumbers DEF Chat!AtLeast
<1> HIDE DEF back
<1>7. /\ [emptied EXCEPT !.msgScroll = Chat!AtLeast(0, @ - Trim)] = [emptied EXCEPT !.msgScroll = back]
  <2> HIDE DEF emptied
  <2> QED
    BY <1>3, <1>4, Zenon DEF back
<1>8. /\ view' \in ViewType /\ view'.cursor <= view'.input /\ view'.active = view.active
  <2> HIDE DEF emptied
  <2>1. view' = emptied \/ view' = [emptied EXCEPT !.msgScroll = back]
    BY <1>5, <1>7, Zenon
  <2>2. CASE view' = emptied
    BY <1>4, <2>2
  <2>3. CASE view' = [emptied EXCEPT !.msgScroll = back]
    BY <1>4, <1>6, <2>3 DEF ViewType
  <2> QED
    BY <2>1, <2>2, <2>3
<1> HIDE DEF emptied
<1>9. /\ RowsKept' /\ DOMAIN messages' \subseteq ChatKeys
      /\ \A k \in DOMAIN messages' : messages'[k] \in Seq(EntryType)
      /\ came' \in Seq(ChatKeys) /\ Len(came') >= Old
  <2>1. CASE messages' = messages /\ came' = came
    BY <1>1, <1>3, <2>1 DEF RowsKept, Chat!Held, ChatShape
  <2>2. CASE messages' = Chat!Put(key, Chat!Kept(all)) /\ came' = Append(came, key)
    <3>1. key \in ChatKeys
      BY <1>3 DEF Chat!KeyOf, ChatKeys
    <3>2. e \in EntryType /\ e.n = n
      BY <1>3 DEF Chat!Entry, EntryType
    <3> HIDE DEF key, e
    <3> QED
      BY <1>1, <1>3, <2>2, <3>1, <3>2, RowsAdded
  <2> QED
    BY <1>5, <2>1, <2>2
<1>10. LinesDrawn' /\ LeftDrawn' /\ RightDrawn'
  BY <1>1, <1>2, FrameDue
<1>11. ChatShape'
  BY <1>1, <1>2, <1>3, <1>8, <1>9 DEF ChatShape, IsScreen
<1>12. Chat!UnreadElsewhere'
  BY <1>1, <1>8 DEF ChatInv, Chat!UnreadElsewhere
<1> QED
  BY <1>9, <1>10, <1>11, <1>12 DEF ChatInv

\* A search comes back: the room's rows are what was found.
LEMMA FoundKeeps == ASSUME ChatInv, Chat!Found PROVE ChatInv'
<1>1. /\ loop' = "top" /\ view' = [view EXCEPT !.msgScroll = 0]
      /\ replaced' = replaced \cup {view.active}
      /\ roomList' = roomList /\ unread' = unread /\ typing' = typing /\ screen' = screen
      /\ handling' = handling /\ came' = came
  BY DEF Chat!Found
<1>2. redraw' /\ redraw' \in BOOLEAN
  BY Zenon DEF Chat!Found
<1>3. ChatShape /\ RowsKept /\ view \in ViewType /\ came \in Seq(ChatKeys) /\ Len(came) \in Nat
      /\ view.active \in Chat!RoomSet /\ view.cursor <= view.input
  BY DEF ChatInv, ChatShape, ViewType
<1>4. PICK hits \in 0..Len(came) : \E newest \in [1..hits -> DOMAIN came] :
          messages' = Chat!Put(Chat!KeyOf(view.active, 0),
              IF hits = 0 THEN <<>>
              ELSE <<Chat!Entry(0, 0, "notice")>>
                   \o [i \in 1..hits |-> Chat!Entry(newest[i], newest[i], "text")])
  BY DEF Chat!Found
<1>5. PICK newest \in [1..hits -> DOMAIN came] :
          messages' = Chat!Put(Chat!KeyOf(view.active, 0),
              IF hits = 0 THEN <<>>
              ELSE <<Chat!Entry(0, 0, "notice")>>
                   \o [i \in 1..hits |-> Chat!Entry(newest[i], newest[i], "text")])
  BY <1>4
<1> DEFINE key == Chat!KeyOf(view.active, 0)
           notice == <<Chat!Entry(0, 0, "notice")>>
           found == [i \in 1..hits |-> Chat!Entry(newest[i], newest[i], "text")]
           all == IF hits = 0 THEN <<>> ELSE notice \o found
<1>6. messages' = Chat!Put(key, all)
  BY <1>5
<1>7. key \in ChatKeys
  BY <1>3 DEF Chat!KeyOf, ChatKeys
<1>8. all \in Seq(EntryType)
  <2>1. Chat!Entry(0, 0, "notice") \in EntryType
    BY DEF Chat!Entry, EntryType
  <2>2. notice \in Seq(EntryType) /\ << >> \in Seq(EntryType)
    BY <2>1
  <2>3. hits \in Nat /\ \A i \in 1..hits : newest[i] \in Nat
    <3>1. DOMAIN came = 1..Len(came)
      BY <1>3
    <3> QED
      BY <1>3, <3>1
  <2>4. \A i \in 1..hits : Chat!Entry(newest[i], newest[i], "text") \in EntryType
    BY <2>3 DEF Chat!Entry, EntryType
  <2>5. found \in Seq(EntryType)
    BY <2>3, <2>4
  <2> HIDE DEF notice, found
  <2> QED
    BY <2>2, <2>5
<1> HIDE DEF key, all
<1>9. /\ DOMAIN messages' \subseteq ChatKeys
      /\ \A k \in DOMAIN messages' : messages'[k] \in Seq(EntryType)
      /\ \A k : Chat!Held(k)' = IF k = key THEN all ELSE Chat!Held(k)
  BY <1>3, <1>6, <1>7, <1>8, PutRows
<1>10. RowsKept'
  <2>1. key[1] = view.active /\ key[2] = 0
    BY DEF key, Chat!KeyOf
  <2>2. ASSUME NEW k \in ChatKeys, k[1] \notin replaced' \/ k[2] # 0
        PROVE  InOrder(Chat!Held(k)', came', k)
    <3>1. k # key /\ (k[1] \notin replaced \/ k[2] # 0)
      BY <1>1, <2>1, <2>2
    <3>2. InOrder(Chat!Held(k), came, k)
      BY <1>3, <3>1 DEF RowsKept
    <3> QED
      BY <1>1, <1>9, <3>1, <3>2
  <2> QED
    BY <2>2 DEF RowsKept
<1>11. /\ view' \in ViewType /\ view'.cursor <= view'.input /\ view'.active = view.active
  <2>1. view' = [view EXCEPT !.msgScroll = 0] /\ view \in ViewType /\ view.cursor <= view.input
    BY <1>1, <1>3
  <2> QED
    BY <2>1 DEF ViewType
<1>12. LinesDrawn' /\ LeftDrawn' /\ RightDrawn'
  BY <1>1, <1>2, FrameDue
<1>13. ChatShape'
  <2>1. replaced' \subseteq Chat!RoomSet
    BY <1>1, <1>3 DEF ChatShape
  <2> QED
    BY <1>1, <1>2, <1>3, <1>9, <1>11, <2>1 DEF ChatShape, IsScreen
<1>14. Chat!UnreadElsewhere'
  BY <1>1, <1>11 DEF ChatInv, Chat!UnreadElsewhere
<1> QED
  BY <1>10, <1>12, <1>13, <1>14 DEF ChatInv

-----------------------------------------------------------------------------
\* A click opens the room drawn in its line.
LEMMA ClicksOpen == ASSUME ChatInv PROVE Chat!ClickOpensLine
<1> SUFFICES ASSUME NEW line \in 1..RoomLines, Chat!Click(line), line \in DOMAIN screen.rooms
             PROVE  view'.active = screen.rooms[line].room.id
  BY DEF Chat!ClickOpensLine
<1>1. Chat!Pressed /\ Chat!Open(view.roomScroll + line) /\ loop = "key"
  BY DEF Chat!Click, Chat!Pressed
<1>2. view'.active = roomList[view.roomScroll + line].id
  BY <1>1, OpenKeeps
<1>3. roomList[view.roomScroll + line].id = screen.rooms[line].room.id
  <2>1. LinesDrawn /\ loop \in {"right", "key"}
    BY <1>1 DEF ChatInv
  <2> QED
    BY <2>1, Zenon DEF LinesDrawn
<1> QED
  BY <1>2, <1>3

LEMMA ChatStep == ASSUME ChatInv, Chat!Next PROVE ChatInv'
<1>1. /\ came \in Seq(ChatKeys) /\ Len(came) \in Nat /\ roomList \in Seq(RoomType)
  BY DEF ChatInv, ChatShape
<1>2. ASSUME Chat!Others PROVE ChatInv'
  <2>1. ASSUME NEW kind \in Chat!EventKinds, NEW r \in Chat!RoomSet,
               NEW of \in 1..Chat!AtLeast(1, Len(came)), Chat!Event(kind, r, of)
        PROVE  ChatInv'
    <3>1. of \in Nat
      OBVIOUS
    <3> QED
      BY <2>1, <3>1, EventKeeps
  <2>2. ASSUME NEW r \in Chat!Listed, NEW kind \in {"text", "notice"}, Chat!Post(r, kind)
        PROVE  ChatInv'
    <3>1. r \in Chat!RoomSet
      <4>1. DOMAIN roomList = 1..Len(roomList) /\ \A i \in 1..Len(roomList) : roomList[i] \in RoomType
        BY <1>1
      <4>2. \A x \in RoomType : x.id \in Chat!RoomSet
        BY DEF RoomType
      <4> QED
        BY <4>1, <4>2 DEF Chat!Listed
    <3> QED
      BY <2>2, <3>1, PostKeeps
  <2> QED
    BY <1>2, <2>1, <2>2, HandleKeeps DEF Chat!Others
<1>3. ASSUME Chat!Drawing PROVE ChatInv'
  BY <1>3, InterruptedKeeps, HelpKeeps, DrawKeeps, DrawLeftKeeps, DrawRightKeeps DEF Chat!Drawing
<1>4. ASSUME Chat!Keys PROVE ChatInv'
  <2>1. ASSUME NEW line \in 1..(RoomLines + 2), Chat!Click(line) PROVE ChatInv'
    BY <2>1, OpenKeeps DEF Chat!Click
  <2>2. ASSUME Chat!Enter PROVE ChatInv'
    BY <2>2, OpenKeeps DEF Chat!Enter
  <2> QED
    BY <1>4, <2>1, <2>2, NoKeyKeeps, MovingKeeps, AskingKeeps, SendKeeps, FoundKeeps DEF Chat!Keys
<1> QED
  BY <1>2, <1>3, <1>4 DEF Chat!Next

LEMMA ChatStays == ASSUME ChatInv, UNCHANGED chatVars PROVE ChatInv'
<1>1. /\ loop' = loop /\ view' = view /\ roomList' = roomList /\ messages' = messages
      /\ unread' = unread /\ typing' = typing /\ redraw' = redraw /\ screen' = screen
      /\ handling' = handling /\ came' = came /\ replaced' = replaced
  BY DEF chatVars
<1>2. ChatShape'
  BY <1>1 DEF ChatInv, ChatShape, IsScreen
<1>3. RowsKept' /\ Chat!UnreadElsewhere'
  BY <1>1 DEF ChatInv, RowsKept, Chat!UnreadElsewhere, Chat!Held
<1>4. LinesDrawn'
  BY <1>1, Zenon DEF ChatInv, LinesDrawn
<1>5. LeftDrawn'
  <2>1. Chat!StatusNow' = Chat!StatusNow
    BY <1>1 DEF Chat!StatusNow
  <2>2. Chat!RoomsFrom(view.roomScroll)' = Chat!RoomsFrom(view.roomScroll)
    BY <1>1 DEF Chat!RoomsFrom
  <2> QED
    BY <1>1, <2>1, <2>2, Zenon DEF ChatInv, LeftDrawn
<1>6. RightDrawn'
  <2>1. Chat!Held(Chat!KeyOf(view.active, 0))' = Chat!Held(Chat!KeyOf(view.active, 0))
    BY <1>1 DEF Chat!KeyOf, Chat!Held
  <2>2. Chat!MessagesFrom(view.msgScroll)' = Chat!MessagesFrom(view.msgScroll)
    BY <1>1, <2>1 DEF Chat!MessagesFrom
  <2>3. Chat!BottomNow' = Chat!BottomNow
    BY <1>1 DEF Chat!BottomNow
  <2> QED
    BY <1>1, <2>1, <2>2, <2>3, Zenon DEF ChatInv, RightDrawn
<1> QED
  BY <1>2, <1>3, <1>4, <1>5, <1>6 DEF ChatInv

\* What the invariant says of what is shown.
LEMMA ChatHolds ==
    ASSUME ChatInv
    PROVE  /\ Chat!TypeOK /\ Chat!ScreenFollows /\ Chat!NeverEmpty /\ Chat!KeptInOrder
           /\ Chat!UnreadElsewhere /\ Chat!CursorInside
<1>1. ChatShape /\ LeftDrawn /\ RightDrawn /\ RowsKept
  BY DEF ChatInv
<1>2. Chat!CursorInside
  BY ViewNumbers DEF Chat!CursorInside
<1>3. Chat!TypeOK
  <2>1. \A i \in DOMAIN roomList : roomList[i].id \in Chat!RoomSet
    <3>1. DOMAIN roomList = 1..Len(roomList) /\ \A i \in 1..Len(roomList) : roomList[i] \in RoomType
      BY <1>1 DEF ChatShape
    <3> QED
      BY <3>1 DEF RoomType
  <2>2. /\ view.active \in Chat!RoomSet /\ view.focus \in {"input", "rooms", "search"}
        /\ view.pane \in {"rooms", "members"} /\ view.box \in BOOLEAN /\ view.help \in BOOLEAN
        /\ {view.input, view.cursor, view.query, view.roomScroll, view.msgScroll} \subseteq Int
    BY <1>1 DEF ChatShape, ViewType
  <2>3. {view.box, view.help, redraw} \subseteq BOOLEAN
    <3>1. redraw \in BOOLEAN
      BY <1>1 DEF ChatShape
    <3> QED
      BY <2>2, <3>1, Zenon
  <2> QED
    BY <1>1, <2>1, <2>2, <2>3, Zenon DEF ChatShape, Chat!TypeOK, ChatKeys
<1>4. ASSUME loop = "key", ~ redraw
      PROVE  /\ screen.typing = Chat!StatusNow /\ screen.rooms = Chat!RoomsFrom(view.roomScroll)
             /\ screen.messages = Chat!MessagesFrom(view.msgScroll) /\ screen.bottom = Chat!BottomNow
             /\ Chat!Held(Chat!KeyOf(view.active, 0)) # <<>> =>
                   view.msgScroll \in 0..(Len(Chat!Held(Chat!KeyOf(view.active, 0))) - 1)
  <2>1. loop \in {"right", "key", "top"} /\ loop \in {"key", "top"}
    BY <1>4
  <2> QED
    BY <1>1, <1>4, <2>1, Zenon DEF LeftDrawn, RightDrawn
<1>5. Chat!ScreenFollows
  <2> SUFFICES ASSUME loop = "key", ~ redraw
               PROVE  screen = [typing |-> Chat!StatusNow, rooms |-> Chat!RoomsFrom(view.roomScroll),
                                messages |-> Chat!MessagesFrom(view.msgScroll),
                                bottom |-> Chat!BottomNow]
    BY Zenon DEF Chat!ScreenFollows
  <2> DEFINE now == Chat!StatusNow
             list == Chat!RoomsFrom(view.roomScroll)
             text == Chat!MessagesFrom(view.msgScroll)
             line == Chat!BottomNow
  <2>1. screen.typing = now /\ screen.rooms = list /\ screen.messages = text /\ screen.bottom = line
    BY <1>4
  <2>2. PICK typ, rms, txt, lin :
            screen = [typing |-> typ, rooms |-> rms, messages |-> txt, bottom |-> lin]
    BY <1>1 DEF ChatShape, IsScreen
  <2> HIDE DEF now, list, text, line
  <2>3. screen.typing = typ /\ screen.rooms = rms /\ screen.messages = txt /\ screen.bottom = lin
    BY <2>2
  <2>4. screen = [typing |-> now, rooms |-> list, messages |-> text, bottom |-> line]
    BY <2>1, <2>2, <2>3
  <2> QED
    BY <2>4 DEF now, list, text, line
<1>6. Chat!NeverEmpty
  <2> DEFINE key == Chat!KeyOf(view.active, 0)
             all == Chat!Held(key)
             many == Chat!AtMost(MessageLines, Chat!AtLeast(0, Len(all) - view.msgScroll))
             text == [i \in 1..many |-> all[Len(all) + 1 - view.msgScroll - i]]
  <2> SUFFICES ASSUME loop = "key", all # << >>, ~ redraw PROVE screen.messages # << >>
    BY Zenon DEF Chat!NeverEmpty
  <2>1. screen.messages = text /\ view.msgScroll \in 0..(Len(all) - 1)
    BY <1>4 DEF Chat!MessagesFrom
  <2>2. all \in Seq(EntryType) /\ Len(all) \in Nat
    BY <1>1, HeldRows
  <2> HIDE DEF all
  <2>3. many >= 1 /\ many \in Int
    BY <2>1, <2>2, ChatNumbers DEF Chat!AtMost, Chat!AtLeast
  <2> HIDE DEF many
  <2>4. DOMAIN text = 1..many /\ 1 \in 1..many
    BY <2>3
  <2> HIDE DEF text
  <2>5. text # << >>
    <3>1. 1 \in DOMAIN text
      BY <2>4
    <3>2. 1 \notin DOMAIN << >>
      OBVIOUS
    <3> QED
      BY <3>1, <3>2, Zenon
  <2> QED
    BY <2>1, <2>5
<1>7. Chat!KeptInOrder
  <2> SUFFICES ASSUME NEW key \in DOMAIN messages, key[1] \notin replaced \/ key[2] # 0
               PROVE  /\ \A i, j \in DOMAIN messages[key] :
                            i < j /\ messages[key][i].n > Old => messages[key][i].n < messages[key][j].n
                      /\ \A i \in DOMAIN messages[key] :
                            messages[key][i].n > Old => came[messages[key][i].n] = key
                      /\ \A n \in DOMAIN came :
                            n > Old /\ came[n] = key =>
                               \/ \E i \in DOMAIN messages[key] : messages[key][i].n = n
                               \/ /\ Len(messages[key]) >= Cap + 1 - Trim
                                  /\ \A i \in DOMAIN messages[key] : messages[key][i].n > n
    BY Zenon DEF Chat!KeptInOrder
  <2>1. key \in ChatKeys /\ Chat!Held(key) = messages[key] /\ messages[key] \in Seq(EntryType)
    BY <1>1 DEF ChatShape, Chat!Held
  <2>2. InOrder(messages[key], came, key)
    BY <1>1, <2>1 DEF RowsKept
  <2>3. DOMAIN messages[key] = 1..Len(messages[key]) /\ DOMAIN came = 1..Len(came)
    BY <1>1, <2>1 DEF ChatShape
  <2> QED
    BY <2>2, <2>3, Zenon DEF InOrder
<1> QED
  BY <1>2, <1>3, <1>5, <1>6, <1>7 DEF ChatInv

-----------------------------------------------------------------------------
(* The parts together. *)

\* The inductive invariant of the five parts.  The widths of the panels are a function of
\* the settings, so the shape of these is all it takes; the rows need the two parts in
\* work: no letters where nothing is, and neither wider than the wider row.  The settings
\* need what each interface shows tied to what was chosen and stored; the agents what the
\* threads under way may still do; the chat what of the screen is drawn already.
UiInv ==
    /\ part = "layout" => Layout!TypeOK
    /\ part = "wrap" => LettersInv
    /\ (part = "wrap" /\ Wrap!Wider >= 2) => RowsInv
    /\ part = "settings" => SettingsInv
    /\ part = "agents" => AgentsInv
    /\ part = "chat" => ChatInv

\* What a step that leaves a part alone keeps of it.
LEMMA LayoutStays ==
    ASSUME Layout!TypeOK, UNCHANGED layoutVars
    PROVE  Layout!TypeOK'
  BY DEF Layout!TypeOK, layoutVars

\* A step that leaves the rows alone keeps their letters.
LEMMA WrapStays ==
    ASSUME LettersInv, UNCHANGED wrapVars
    PROVE  LettersInv'
<1>1. /\ lines' = lines /\ cur' = cur /\ word' = word /\ read' = read
      /\ length' = length /\ split' = split
  BY DEF wrapVars
<1>2. Wrap!TypeOK' /\ NoLetters' /\ Wrap!WordsWhole'
  BY <1>1 DEF LettersInv, Wrap!TypeOK, NoLetters, Wrap!WordsWhole
<1>3. Wrap!LettersKept'
  BY <1>1, KeptIsLetters DEF LettersInv
<1> QED
  BY <1>2, <1>3 DEF LettersInv

\* And their widths.
LEMMA RowsStay ==
    ASSUME RowsInv, UNCHANGED wrapVars
    PROVE  RowsInv'
  BY DEF RowsInv, Wrap!RowsFit, Narrow, Wrap!Wider, wrapVars

\* Whatever is set and whatever text is read, each part is as it should be.
LEMMA UiInvHolds == Spec => []UiInv
<1>1. Init => UiInv
  <2> SUFFICES ASSUME Init PROVE UiInv
    OBVIOUS
  <2>1. part = "layout" => Layout!Init
    BY DEF Init
  <2>2. part = "wrap" => Wrap!Init
    BY DEF Init
  <2>3. part = "settings" => Settings!Init
    BY DEF Init
  <2>4. part = "agents" => Agents!Init
    BY DEF Init
  <2>5. part = "chat" => Chat!Init
    BY DEF Init
  <2> QED
    BY <2>1, <2>2, <2>3, <2>4, <2>5, LayoutBegins, WrapBegins, RowsBegin, SettingsBegin,
       AgentsBegin, ChatBegins, Zenon DEF UiInv
<1>2. UiInv /\ [Next]_vars => UiInv'
  <2> SUFFICES ASSUME UiInv, [Next]_vars PROVE UiInv'
    OBVIOUS
  <2>1. part' = part
    BY DEF Next, vars
  <2>2. part = "layout" => Layout!Next \/ UNCHANGED layoutVars
    BY DEF Next, vars
  <2>3. part = "wrap" => Wrap!Next \/ UNCHANGED wrapVars
    BY DEF Next, vars
  <2>4. CASE part = "layout"
    BY <2>1, <2>2, <2>4, LayoutStep, LayoutStays DEF UiInv
  <2>5. CASE part = "wrap"
    <3>1. LettersInv'
      BY <2>3, <2>5, WrapStep, WrapStays DEF UiInv
    <3>2. Wrap!Wider' = Wrap!Wider
      BY DEF Wrap!Wider
    <3>3. Wrap!Wider >= 2 => RowsInv'
      BY <2>3, <2>5, RowsStep, RowsStay DEF UiInv
    <3> QED
      BY <2>1, <2>5, <3>1, <3>2, <3>3 DEF UiInv
  <2>6. CASE part = "settings"
    <3>1. Settings!Next \/ UNCHANGED <<db, commands, settingsVars>>
      BY <2>6 DEF Next, vars
    <3>2. SettingsInv'
      BY <2>6, <3>1, SettingsStep, SettingsStay DEF UiInv
    <3> QED
      BY <2>1, <2>6, <3>2 DEF UiInv
  <2>7. CASE part = "agents"
    <3>1. Agents!Next \/ UNCHANGED agentsVars
      BY <2>7 DEF Next, vars
    <3>2. AgentsInv'
      BY <2>7, <3>1, AgentsStep DEF UiInv
    <3> QED
      BY <2>1, <2>7, <3>2 DEF UiInv
  <2>8. CASE part = "chat"
    <3>1. Chat!Next \/ UNCHANGED chatVars
      BY <2>8 DEF Next, vars
    <3>2. ChatInv'
      BY <2>8, <3>1, ChatStep, ChatStays DEF UiInv
    <3> QED
      BY <2>1, <2>8, <3>2 DEF UiInv
  <2> QED
    BY <2>1, <2>4, <2>5, <2>6, <2>7, <2>8 DEF UiInv
<1> QED
  BY <1>1, <1>2, PTL DEF Spec

\* Whatever fixed widths, rules and contents the commands set, the panels fit a terminal of
\* 56 columns, the chat has its 30 columns on one of 66 unless a rule of the chat asks for
\* less, and no panel has a negative width: the layout's part of FrameFits.
THEOREM PanelsFit == Spec => [](part = "layout" => FrameFits)
<1>1. UiInv => (part = "layout" => FrameFits)
  BY LayoutOfItsSettings DEF UiInv, FrameFits
<1> QED
  BY <1>1, UiInvHolds, PTL

\* Every letter of every text is in a row or in the word in work, once, whatever the widths;
\* and when the first row is the widest, only a word that fills a row of its own is cut.
THEOREM EveryLetterOnce ==
    Spec => [](part = "wrap" => Wrap!LettersKept /\ Wrap!WordsWhole)
<1>1. UiInv => (part = "wrap" => Wrap!LettersKept /\ Wrap!WordsWhole)
  BY DEF UiInv, LettersInv
<1> QED
  BY <1>1, UiInvHolds, PTL

\* The whole of TextKept for rows of two cells or more (a double-width letter after a blank
\* does not fit into one): the letters, the words, no row empty and none too wide.
THEOREM TextStaysWhole ==
    ASSUME Wrap!Wider >= 2
    PROVE  Spec => []TextKept
<1>1. UiInv => TextKept
  BY DEF UiInv, LettersInv, RowsInv, TextKept
<1> QED
  BY <1>1, UiInvHolds, PTL

\* Each start of an ASCII interface shows every setting as it was last chosen, by whichever of
\* the two it was, but for what a flag of the command line set.
THEOREM SettingsAreRestored == Spec => RestoredAtStart
<1>1. UiInv /\ [Next]_vars => [part = "settings" => Settings!StartRestores]_vars
  <2> SUFFICES ASSUME UiInv, Next, part = "settings" PROVE Settings!StartRestores
    OBVIOUS
  <2>1. Settings!Next
    BY DEF Next
  <2> QED
    BY <2>1, SettingsStep DEF UiInv
<1> QED
  BY <1>1, UiInvHolds, PTL DEF Spec, RestoredAtStart

\* After an Esc no run of an agent asks the model again, unless another was started since.
THEOREM EscIsHeeded == Spec => StopsWhenTold
<1>1. UiInv /\ [Next]_vars => [part = "agents" => Agents!EscStops]_vars
  <2> SUFFICES ASSUME UiInv, Next, part = "agents" PROVE Agents!EscStops
    OBVIOUS
  <2>1. Agents!Next
    BY DEF Next
  <2> QED
    BY <2>1, AgentsStep DEF UiInv
<1> QED
  BY <1>1, UiInvHolds, PTL DEF Spec, StopsWhenTold

\* The parts of ShownTogether but the room's: the lists of settings hold what the commands
\* put in and did not take out; two agents of one kind run only where a command was refused,
\* and what a run was told it sent, it sent; and whatever the sync thread and the agents add
\* between two of its steps, the terminal shows what the chat holds, keeps the messages of
\* a room in their order and counts none of the open room as unread.
THEOREM ShownBelongsTogether ==
    Spec => [](part \in {"settings", "agents", "chat"} => ShownTogether)
<1>1. UiInv => (part \in {"settings", "agents", "chat"} => ShownTogether)
  <2> SUFFICES ASSUME UiInv, part \in {"settings", "agents", "chat"} PROVE ShownTogether
    OBVIOUS
  <2>1. part = "settings" => Settings!ListsAddUp
    BY SettingsAreTyped DEF UiInv
  <2>2. part = "agents" => Agents!OneOfAKind /\ Agents!ToldIsSent
    BY OneOfAKindHolds DEF UiInv, AgentsInv
  <2>3. part = "chat" => Chat!ScreenFollows /\ Chat!NeverEmpty /\ Chat!KeptInOrder /\ Chat!UnreadElsewhere
    BY ChatHolds DEF UiInv
  <2>4. part # "room"
    OBVIOUS
  <2> QED
    BY <2>1, <2>2, <2>3, <2>4, Zenon DEF ShownTogether
<1> QED
  BY <1>1, UiInvHolds, PTL

\* A click opens the room drawn in the line that is clicked, though rooms are listed and the
\* list is scrolled between the drawing and the click: the chat's part of JumpShowsEvent.
THEOREM ClickOpensWhatIsDrawn == Spec => [][part = "chat" => Chat!ClickOpensLine]_vars
<1>1. UiInv /\ [Next]_vars => [part = "chat" => Chat!ClickOpensLine]_vars
  BY ClicksOpen DEF UiInv
<1> QED
  BY <1>1, UiInvHolds, PTL DEF Spec

\* The cursor of the chat is in the text: the chat's part of FrameFits.
THEOREM CursorInText == Spec => [](part = "chat" => FrameFits)
<1>1. UiInv => (part = "chat" => FrameFits)
  <2> SUFFICES ASSUME UiInv, part = "chat" PROVE FrameFits
    OBVIOUS
  <2>1. Chat!CursorInside
    BY ChatHolds DEF UiInv
  <2>2. part # "layout" /\ part # "frame"
    OBVIOUS
  <2> QED
    BY <2>1, <2>2, Zenon DEF FrameFits
<1> QED
  BY <1>1, UiInvHolds, PTL

\* The settings, the panels, the rows and the words, the agents and the chat keep their shape.
THEOREM PartsTyped == Spec => [](part \in {"layout", "wrap", "settings", "agents", "chat"} => TypeOK)
<1>1. UiInv => (part \in {"layout", "wrap", "settings", "agents", "chat"} => TypeOK)
  <2> SUFFICES ASSUME UiInv, part \in {"layout", "wrap", "settings", "agents", "chat"} PROVE TypeOK
    OBVIOUS
  <2>1. part = "layout" => Layout!TypeOK
    BY DEF UiInv
  <2>2. part = "wrap" => Wrap!TypeOK
    BY DEF UiInv, LettersInv
  <2>3. part = "settings" => Settings!TypeOK
    BY SettingsAreTyped DEF UiInv
  <2>4. part = "agents" => Agents!TypeOK
    BY AgentsTyped DEF UiInv
  <2>5. part = "chat" => Chat!TypeOK
    BY ChatHolds DEF UiInv
  <2>6. part # "room" /\ part # "frame"
    OBVIOUS
  <2> QED
    BY <2>1, <2>2, <2>3, <2>4, <2>5, <2>6, Zenon DEF TypeOK
<1> QED
  BY <1>1, UiInvHolds, PTL
=============================================================================
