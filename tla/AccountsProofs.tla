---------------------------- MODULE AccountsProofs ----------------------------
(***************************************************************************)
(* Proofs about the stored logins, for any number of processes and logins. *)
(* Processes log in, load, write back and read between each other's steps; *)
(* the invariant says of each process what it still has to do, in the one  *)
(* order every process does it, and what of its session the stores hold.   *)
(***************************************************************************)
EXTENDS MCStorage, FiniteSetTheorems, TLAPS

-----------------------------------------------------------------------------
\* What a process still has to do, in the order every process does it.
Steps == {"core", "config", "main", "boot", "all", "serve"}
\* The place of a step among them, what is due, and that it is in order.
Rank(step) == CASE step = "core" -> 1 [] step = "config" -> 2 [] step = "main" -> 3
                [] step = "boot" -> 4 [] OTHER -> 5
Due(todo, step) == \E i \in 1 .. Len(todo) : todo[i] = step
InOrder(todo) == \A i, j \in 1 .. Len(todo) : i < j => Rank(todo[i]) < Rank(todo[j])

\* The first of the steps due is done, and the rest stays due in its order.
LEMMA NextStep ==
  ASSUME NEW todo \in Seq(Steps), todo # <<>>, InOrder(todo)
  PROVE  /\ Tail(todo) \in Seq(Steps) /\ InOrder(Tail(todo)) /\ Head(todo) \in Steps
         /\ \A step : Due(todo, step) <=> step = Head(todo) \/ Due(Tail(todo), step)
         /\ \A step : Due(Tail(todo), step) => Rank(Head(todo)) < Rank(step)
<1>1. Len(todo) \in Nat \ {0} /\ Head(todo) = todo[1] /\ Len(Tail(todo)) = Len(todo) - 1
  OBVIOUS
<1>2. \A i \in 1 .. Len(todo) - 1 : Tail(todo)[i] = todo[i + 1]
  BY <1>1
<1>3. Tail(todo) \in Seq(Steps) /\ Head(todo) \in Steps
  BY <1>1
<1> DEFINE n == Len(todo)
           rest == Tail(todo)
<1>4. Len(rest) = n - 1 /\ \A i \in 1 .. n - 1 : rest[i] = todo[i + 1]
  BY <1>1, <1>2
<1> HIDE DEF rest, n
<1>5. n \in Nat \ {0} /\ n = Len(todo) /\ rest = Tail(todo)
  BY <1>1 DEF n, rest
<1>6. InOrder(rest)
  <2> SUFFICES ASSUME NEW i \in 1 .. Len(rest), NEW j \in 1 .. Len(rest), i < j
               PROVE  Rank(rest[i]) < Rank(rest[j])
    BY DEF InOrder
  <2>1. rest[i] = todo[i + 1] /\ rest[j] = todo[j + 1]
    BY <1>4, <1>5
  <2>2. i + 1 \in 1 .. Len(todo) /\ j + 1 \in 1 .. Len(todo) /\ i + 1 < j + 1
    BY <1>4, <1>5
  <2> QED
    BY <2>1, <2>2 DEF InOrder
<1>7. ASSUME NEW step, Due(rest, step)
      PROVE  Due(todo, step) /\ Rank(Head(todo)) < Rank(step)
  <2>1. PICK i \in 1 .. Len(rest) : rest[i] = step
    BY <1>7 DEF Due
  <2>2. i + 1 \in 1 .. Len(todo) /\ 1 \in 1 .. Len(todo) /\ 1 < i + 1 /\ todo[i + 1] = step
    BY <1>4, <1>5, <2>1
  <2> QED
    BY <1>1, <2>2 DEF Due, InOrder
<1>8. ASSUME NEW step, Due(todo, step)
      PROVE  step = Head(todo) \/ Due(rest, step)
  <2>1. PICK i \in 1 .. Len(todo) : todo[i] = step
    BY <1>8 DEF Due
  <2>2. CASE i = 1
    BY <1>1, <2>1, <2>2
  <2>3. CASE i # 1
    <3>1. i - 1 \in 1 .. Len(rest) /\ rest[i - 1] = step
      BY <1>4, <1>5, <2>1, <2>3
    <3> QED
      BY <3>1 DEF Due
  <2> QED
    BY <2>2, <2>3
<1>9. Due(todo, Head(todo))
  BY <1>1 DEF Due
<1> QED
  BY <1>3, <1>5, <1>6, <1>7, <1>8, <1>9

\* What the ways to log in, and the other commands, have to do.
LEMMA Begun ==
  /\ \A todo \in {<<"core", "config", "main", "boot", "all">>, <<"core", "config", "boot">>,
                  <<"config", "main">>, <<"config">>, <<"boot">>, <<"boot", "serve">>, <<>>} :
        todo \in Seq(Steps) /\ InOrder(todo)
  /\ \A step : Due(<<"core", "config", "main", "boot", "all">>, step)
                 <=> step \in {"core", "config", "main", "boot", "all"}
  /\ \A step : Due(<<"core", "config", "boot">>, step) <=> step \in {"core", "config", "boot"}
  /\ \A step : Due(<<"config", "main">>, step) <=> step \in {"config", "main"}
  /\ \A step : Due(<<"config">>, step) <=> step = "config"
  /\ \A step : Due(<<"boot">>, step) <=> step = "boot"
  /\ \A step : Due(<<"boot", "serve">>, step) <=> step \in {"boot", "serve"}
  /\ \A step : Due(<<"all">>, step) <=> step = "all"
  /\ \A step : ~Due(<<>>, step)
<1>1. \A todo \in {<<"core", "config", "main", "boot", "all">>, <<"core", "config", "boot">>,
                   <<"config", "main">>, <<"config">>, <<"boot">>, <<"boot", "serve">>, <<>>} :
        todo \in Seq(Steps) /\ InOrder(todo)
  <2>1. /\ Rank("core") = 1 /\ Rank("config") = 2 /\ Rank("main") = 3 /\ Rank("boot") = 4
        /\ Rank("all") = 5 /\ Rank("serve") = 5
    BY DEF Rank
  <2>2. /\ <<"core", "config", "main", "boot", "all">> \in Seq(Steps)
        /\ InOrder(<<"core", "config", "main", "boot", "all">>)
    <3> DEFINE todo == <<"core", "config", "main", "boot", "all">>
    <3>1. Len(todo) = 5 /\ 1 .. 5 = {1, 2, 3, 4, 5}
           /\ todo[1] = "core" /\ todo[2] = "config" /\ todo[3] = "main" /\ todo[4] = "boot"
           /\ todo[5] = "all"
      OBVIOUS
    <3>2. todo \in Seq(Steps)
      BY DEF Steps
    <3> HIDE DEF todo
    <3>3. InOrder(todo)
      BY <2>1, <3>1 DEF InOrder
    <3> QED
      BY <3>2, <3>3 DEF todo
  <2>3. <<"core", "config", "boot">> \in Seq(Steps) /\ InOrder(<<"core", "config", "boot">>)
    <3> DEFINE todo == <<"core", "config", "boot">>
    <3>1. Len(todo) = 3 /\ 1 .. 3 = {1, 2, 3}
           /\ todo[1] = "core" /\ todo[2] = "config" /\ todo[3] = "boot"
      OBVIOUS
    <3>2. todo \in Seq(Steps)
      BY DEF Steps
    <3> HIDE DEF todo
    <3>3. InOrder(todo)
      BY <2>1, <3>1 DEF InOrder
    <3> QED
      BY <3>2, <3>3 DEF todo
  <2>4. <<"config", "main">> \in Seq(Steps) /\ InOrder(<<"config", "main">>)
    <3> DEFINE todo == <<"config", "main">>
    <3>1. Len(todo) = 2 /\ 1 .. 2 = {1, 2}
           /\ todo[1] = "config" /\ todo[2] = "main"
      OBVIOUS
    <3>2. todo \in Seq(Steps)
      BY DEF Steps
    <3> HIDE DEF todo
    <3>3. InOrder(todo)
      BY <2>1, <3>1 DEF InOrder
    <3> QED
      BY <3>2, <3>3 DEF todo
  <2>5. <<"boot", "serve">> \in Seq(Steps) /\ InOrder(<<"boot", "serve">>)
    <3> DEFINE todo == <<"boot", "serve">>
    <3>1. Len(todo) = 2 /\ 1 .. 2 = {1, 2}
           /\ todo[1] = "boot" /\ todo[2] = "serve"
      OBVIOUS
    <3>2. todo \in Seq(Steps)
      BY DEF Steps
    <3> HIDE DEF todo
    <3>3. InOrder(todo)
      BY <2>1, <3>1 DEF InOrder
    <3> QED
      BY <3>2, <3>3 DEF todo
  <2>6. \A step \in Steps : <<step>> \in Seq(Steps) /\ InOrder(<<step>>)
    BY DEF InOrder
  <2>7. <<>> \in Seq(Steps) /\ InOrder(<<>>)
    BY DEF InOrder
  <2> QED
    BY <2>2, <2>3, <2>4, <2>5, <2>6, <2>7 DEF Steps
<1>2. \A step : Due(<<"core", "config", "main", "boot", "all">>, step)
                 <=> step \in {"core", "config", "main", "boot", "all"}
  <2> DEFINE todo == <<"core", "config", "main", "boot", "all">>
  <2>1. /\ Len(todo) = 5 /\ 1 .. 5 = {1, 2, 3, 4, 5} /\ todo[1] = "core" /\ todo[2] = "config"
        /\ todo[3] = "main" /\ todo[4] = "boot" /\ todo[5] = "all"
    OBVIOUS
  <2> HIDE DEF todo
  <2> QED
    BY <2>1 DEF Due
<1>3. \A step : Due(<<"core", "config", "boot">>, step) <=> step \in {"core", "config", "boot"}
  <2> DEFINE todo == <<"core", "config", "boot">>
  <2>1. /\ Len(todo) = 3 /\ 1 .. 3 = {1, 2, 3} /\ todo[1] = "core" /\ todo[2] = "config"
        /\ todo[3] = "boot"
    OBVIOUS
  <2> HIDE DEF todo
  <2> QED
    BY <2>1 DEF Due
<1>4. \A step : Due(<<"config", "main">>, step) <=> step \in {"config", "main"}
  <2> DEFINE todo == <<"config", "main">>
  <2>1. Len(todo) = 2 /\ 1 .. 2 = {1, 2} /\ todo[1] = "config" /\ todo[2] = "main"
    OBVIOUS
  <2> HIDE DEF todo
  <2> QED
    BY <2>1 DEF Due
<1>5. \A step : Due(<<"boot", "serve">>, step) <=> step \in {"boot", "serve"}
  <2> DEFINE todo == <<"boot", "serve">>
  <2>1. Len(todo) = 2 /\ 1 .. 2 = {1, 2} /\ todo[1] = "boot" /\ todo[2] = "serve"
    OBVIOUS
  <2> HIDE DEF todo
  <2> QED
    BY <2>1 DEF Due
<1>6. \A step : Due(<<"config">>, step) <=> step = "config"
  <2> DEFINE todo == <<"config">>
  <2>1. Len(todo) = 1 /\ 1 .. 1 = {1} /\ todo[1] = "config"
    OBVIOUS
  <2> HIDE DEF todo
  <2> QED
    BY <2>1 DEF Due
<1>7. \A step : Due(<<"boot">>, step) <=> step = "boot"
  <2> DEFINE todo == <<"boot">>
  <2>1. Len(todo) = 1 /\ 1 .. 1 = {1} /\ todo[1] = "boot"
    OBVIOUS
  <2> HIDE DEF todo
  <2> QED
    BY <2>1 DEF Due
<1>8. \A step : Due(<<"all">>, step) <=> step = "all"
  <2> DEFINE todo == <<"all">>
  <2>1. Len(todo) = 1 /\ 1 .. 1 = {1} /\ todo[1] = "all"
    OBVIOUS
  <2> HIDE DEF todo
  <2> QED
    BY <2>1 DEF Due
<1>9. \A step : ~Due(<<>>, step)
  <2> DEFINE todo == <<>>
  <2>1. Len(todo) = 0 /\ 1 .. 0 = {}
    OBVIOUS
  <2> HIDE DEF todo
  <2> QED
    BY <2>1 DEF Due
<1> QED
  BY <1>1, <1>2, <1>3, <1>4, <1>5, <1>6, <1>7, <1>8, <1>9

\* The four keys of a login, in the order they are read.
LEMMA AccountKeys ==
  /\ Len(Acc!Keys) = 4 /\ Acc!Keys[1] = "homeserver_url" /\ Acc!Keys[2] = "user_id"
  /\ Acc!Keys[3] = "access_token" /\ Acc!Keys[4] = "device_id"
  /\ Acc!KeySet = {"homeserver_url", "user_id", "access_token", "device_id"}
  /\ \A i \in 1 .. 4 : Acc!Keys[i] \in Acc!KeySet
<1>1. /\ Len(Acc!Keys) = 4 /\ Acc!Keys[1] = "homeserver_url" /\ Acc!Keys[2] = "user_id"
      /\ Acc!Keys[3] = "access_token" /\ Acc!Keys[4] = "device_id"
  BY DEF Acc!Keys
<1>2. Acc!KeySet = {Acc!Keys[i] : i \in 1 .. 4}
  BY <1>1, Zenon DEF Acc!KeySet
<1> QED
  BY <1>1, <1>2

\* A session and its device, which the server named, or which was made up, or which is not known.
Session == [n : 0 .. MaxLogins, device : Int]
\* The number of a device the server named or the client made up.
Made(a) == a.device \in {a.n, - a.n, 0}

\* An account of one login.
Whole(a) ==
    /\ a["homeserver_url"] = a["access_token"] /\ a["user_id"] = a["access_token"]
    /\ a["device_id"] \in {0, a["access_token"]}

\* A process, whatever it does.
Process == [at : Acc!Places, todo : Seq(Steps), acc : Session, key : 1 .. 5,
            got : [Acc!KeySet -> 0 .. MaxLogins], old : BOOLEAN, beside : BOOLEAN, alone : BOOLEAN]

\* What the stores and the processes are made of.
AccTypes ==
    /\ core \in Session /\ conf \in Session /\ table \in [Acc!KeySet -> 0 .. MaxLogins]
    /\ proc \in [Procs -> Process] /\ logins \in 0 .. MaxLogins /\ begun \in 0 .. MaxBegun
    /\ newest \in 0 .. MaxLogins /\ stale \in BOOLEAN /\ partial \in BOOLEAN /\ torn \in BOOLEAN

\* The session a process will write back, once it has stored its own: the newest one, or it
\* is known to be old.
WritesOK(p) ==
    /\ InOrder(proc[p].todo) /\ Made(proc[p].acc)
    /\ proc[p].at = "none" => proc[p] = Acc!NoProc
    /\ proc[p].at \notin {"steps", "serve"} => proc[p].todo = <<>>
    /\ proc[p].todo # <<>> => proc[p].acc.n # 0
    /\ proc[p].at = "steps" /\ Due(proc[p].todo, "boot") /\ ~Due(proc[p].todo, "core") =>
            /\ stale \/ proc[p].old \/ proc[p].acc.n = newest
            /\ partial \/ proc[p].acc.n = core.n

\* What a process has written of the account is there, unless another wrote beside it.
MainOK(p) ==
    proc[p].at = "steps" /\ Due(proc[p].todo, "main") =>
        /\ proc[p].acc.device \in {0, proc[p].acc.n} /\ proc[p].key \in 1 .. 4
        /\ Head(proc[p].todo) # "main" => proc[p].key = 1
        /\ Head(proc[p].todo) = "main" /\ ~proc[p].beside =>
              \A j \in 1 .. proc[p].key - 1 : table[Acc!Keys[j]] = Acc!Value(p, Acc!Keys[j])

\* Likewise what a process has read of it.
ReadOK(p) ==
    /\ proc[p].at = "reading" =>
            /\ proc[p].key \in 1 .. 4
            /\ ~proc[p].beside /\ proc[p].key > 1 =>
                  /\ ~torn
                  /\ \A j \in 1 .. proc[p].key - 1 : proc[p].got[Acc!Keys[j]] = table[Acc!Keys[j]]
    /\ proc[p].at = "acting" /\ ~proc[p].beside => Whole(proc[p].got)

\* A login with a token that nobody came beside has stored what it has gone through.
AloneOK(p) ==
    proc[p].alone =>
        /\ \A q \in Procs : q # p => proc[q] = Acc!NoProc
        /\ proc[p].at = "steps" => ~proc[p].beside
        /\ proc[p].at = "steps" /\ Due(proc[p].todo, "all") =>
              /\ Due(proc[p].todo, "core") \/ (core.n = proc[p].acc.n /\ newest = proc[p].acc.n)
              /\ Due(proc[p].todo, "config") \/ conf.n = proc[p].acc.n
              /\ \/ Due(proc[p].todo, "main")
                 \/ \A k \in {"homeserver_url", "user_id", "access_token"} :
                       table[k] = proc[p].acc.n

\* The stores: an account table that no writers met in is of one login.
StoresOK ==
    /\ Made(core) /\ Made(conf)
    /\ ~torn => Whole(table)
    /\ Acc!LatestSession
    /\ Acc!StoresAgree

\* The inductive invariant of the logins.
AccInv ==
    /\ AccTypes
    /\ StoresOK
    /\ \A p \in Procs : WritesOK(p) /\ MainOK(p) /\ ReadOK(p) /\ AloneOK(p)

\* Logins and starts are bounded by numbers.
LEMMA AccConstants == MaxLogins \in Nat /\ MaxBegun \in Nat
BY StorageAssumption DEF Acc!AccountsAssumption

\* What is proved of the logins follows from the invariant.
LEMMA AccConsistent ==
  ASSUME AccInv
  PROVE  Acc!OneIdentity /\ Acc!LatestSession /\ Acc!StoresAgree /\ Acc!TypeOK
<1>1. Acc!OneIdentity
  BY DEF AccInv, ReadOK, Whole, Acc!OneIdentity
<1>2. Acc!TypeOK
  <2>1. {core.n, conf.n, logins, newest} \subseteq 0 .. MaxLogins
    BY DEF AccInv, AccTypes, Session
  <2>2. stale \in BOOLEAN /\ partial \in BOOLEAN /\ torn \in BOOLEAN
    BY DEF AccInv, AccTypes
  <2>3. \A p \in Procs : proc[p].at \in Acc!Places /\ proc[p].key \in 1 .. 5
    BY DEF AccInv, AccTypes, Process
  <2>4. table \in [Acc!KeySet -> 0 .. MaxLogins] /\ begun \in 0 .. MaxBegun
    BY DEF AccInv, AccTypes
  <2>5. Len(Acc!Keys) + 1 = 5
    BY AccountKeys
  <2> QED
    BY <2>1, <2>2, <2>3, <2>4, <2>5, Zenon DEF Acc!TypeOK
<1> QED
  BY <1>1, <1>2 DEF AccInv, StoresOK

\* Nothing is left to show of a process that is not there.
LEMMA NoneOK ==
  ASSUME NEW p \in Procs, proc[p] = Acc!NoProc
  PROVE  WritesOK(p) /\ MainOK(p) /\ ReadOK(p) /\ AloneOK(p)
<1>1. /\ proc[p].at = "none" /\ proc[p].todo = <<>> /\ ~proc[p].alone
      /\ proc[p].acc.n = 0 /\ proc[p].acc.device = 0
  BY DEF Acc!NoProc, Acc!None
<1>2. InOrder(<<>>)
  BY Begun
<1> QED
  BY <1>1, <1>2 DEF WritesOK, MainOK, ReadOK, AloneOK, Made

\* A process that does nothing has its shape.
LEMMA NoProcTyped == Acc!NoProc \in Process /\ Acc!None \in Session
<1>1. Acc!None \in Session
  BY AccConstants DEF Acc!None, Session
<1>2. [k \in Acc!KeySet |-> 0] \in [Acc!KeySet -> 0 .. MaxLogins]
  BY AccConstants
<1>3. <<>> \in Seq(Steps) /\ "none" \in Acc!Places /\ 1 \in 1 .. 5
  BY DEF Acc!Places
<1> QED
  BY <1>1, <1>2, <1>3, Zenon DEF Acc!NoProc, Process

\* At the start nobody is logged in and no process runs.
LEMMA AccBegins ==
  ASSUME Acc!Init
  PROVE  AccInv
<1>1. \A p \in Procs : proc[p] = Acc!NoProc
  BY DEF Acc!Init
<1>2. table \in [Acc!KeySet -> 0 .. MaxLogins] /\ \A k \in Acc!KeySet : table[k] = 0
  BY AccConstants DEF Acc!Init
<1>3. AccTypes
  <2>1. /\ core \in Session /\ conf \in Session /\ proc \in [Procs -> Process]
        /\ logins = 0 /\ begun = 0 /\ newest = 0
    BY NoProcTyped DEF Acc!Init
  <2>2. stale \in BOOLEAN /\ partial \in BOOLEAN /\ torn \in BOOLEAN
    BY DEF Acc!Init
  <2>3. logins \in 0 .. MaxLogins /\ begun \in 0 .. MaxBegun /\ newest \in 0 .. MaxLogins
    BY <2>1, AccConstants
  <2> QED
    BY <1>2, <2>1, <2>2, <2>3, Zenon DEF AccTypes
<1>4. core.n = 0 /\ core.device = 0 /\ conf.n = 0 /\ conf.device = 0 /\ newest = 0
  BY DEF Acc!Init, Acc!None
<1>5. \A k \in {"homeserver_url", "user_id", "access_token", "device_id"} : table[k] = 0
  BY <1>2, AccountKeys
<1>6. StoresOK
  BY <1>4, <1>5 DEF StoresOK, Made, Whole, Acc!LatestSession, Acc!StoresAgree,
     Acc!StatusNames
<1> QED
  BY <1>1, <1>3, <1>6, NoneOK DEF AccInv

\* A process that moves was there, so that no other is alone.
LEMMA NobodyElse ==
  ASSUME AccInv, NEW p \in Procs, proc[p].at # "none"
  PROVE  \A q \in Procs : q # p => ~proc[q].alone
BY DEF AccInv, AloneOK, Acc!NoProc

\* Another process than the one that moves: what it has to do and has read stays, and is
\* right still, unless it is marked.
LEMMA OtherStays ==
  ASSUME AccInv, NEW q \in Procs, proc'[q] \in Process, ~proc'[q].alone,
         proc'[q].at = proc[q].at, proc'[q].todo = proc[q].todo, proc'[q].acc = proc[q].acc,
         proc'[q].key = proc[q].key, proc'[q].got = proc[q].got,
         proc[q].at = "none" => proc'[q] = Acc!NoProc,
         proc[q].old => proc'[q].old, proc[q].beside => proc'[q].beside,
         \/ (stale => stale') /\ newest' = newest
         \/ proc'[q].old
         \/ proc[q].acc.n = 0,
         \/ partial'
         \/ ~partial /\ core'.n = core.n
         \/ proc[q].at = "none",
         \/ table' = table /\ torn' = torn
         \/ Acc!Midway(q) => proc'[q].beside
  PROVE  WritesOK(q)' /\ MainOK(q)' /\ ReadOK(q)' /\ AloneOK(q)'
<1>1. WritesOK(q) /\ MainOK(q) /\ ReadOK(q)
  BY DEF AccInv
<1>2. WritesOK(q)'
  <2>1. /\ InOrder(proc'[q].todo) /\ Made(proc'[q].acc)
        /\ proc'[q].at = "none" => proc'[q] = Acc!NoProc
        /\ proc'[q].at \notin {"steps", "serve"} => proc'[q].todo = <<>>
        /\ proc'[q].todo # <<>> => proc'[q].acc.n # 0
    BY <1>1 DEF WritesOK
  <2>2. ASSUME proc'[q].at = "steps", Due(proc'[q].todo, "boot"),
               ~Due(proc'[q].todo, "core")
        PROVE  /\ stale' \/ proc'[q].old \/ proc'[q].acc.n = newest'
               /\ partial' \/ proc'[q].acc.n = core'.n
    <3>1. /\ stale \/ proc[q].old \/ proc[q].acc.n = newest
          /\ partial \/ proc[q].acc.n = core.n
      BY <1>1, <2>2 DEF WritesOK
    <3>2. proc[q].acc.n # 0
      BY <1>1, <2>2, Begun DEF WritesOK
    <3> QED
      BY <2>2, <3>1, <3>2
  <2> QED
    BY <2>1, <2>2 DEF WritesOK
<1>3. MainOK(q)'
  <2> SUFFICES ASSUME proc'[q].at = "steps", Due(proc'[q].todo, "main")
               PROVE  MainOK(q)'
    BY DEF MainOK
  <2>1. /\ proc[q].acc.device \in {0, proc[q].acc.n} /\ proc[q].key \in 1 .. 4
        /\ Head(proc[q].todo) # "main" => proc[q].key = 1
        /\ Head(proc[q].todo) = "main" /\ ~proc[q].beside =>
              \A j \in 1 .. proc[q].key - 1 :
                 table[Acc!Keys[j]] = Acc!Value(q, Acc!Keys[j])
    BY <1>1 DEF MainOK
  <2>2. \A k : Acc!Value(q, k)' = Acc!Value(q, k)
    BY DEF Acc!Value
  <2>3. ASSUME Head(proc'[q].todo) = "main", ~proc'[q].beside,
               NEW j \in 1 .. proc'[q].key - 1
        PROVE  table'[Acc!Keys[j]] = Acc!Value(q, Acc!Keys[j])'
    <3>1. table' = table \/ ~Acc!Midway(q)
      BY <2>3
    <3>2. proc[q].todo # <<>>
      BY Begun
    <3>3. proc[q].key > 1
      BY <2>1, <2>3
    <3> QED
      BY <2>1, <2>2, <2>3, <3>1, <3>2, <3>3 DEF Acc!Midway, Acc!At
  <2> QED
    BY <2>1, <2>3 DEF MainOK
<1>4. ReadOK(q)'
  BY <1>1 DEF ReadOK, Acc!Midway
<1>5. AloneOK(q)'
  BY DEF AloneOK
<1> QED
  BY <1>2, <1>3, <1>4, <1>5

\* The process that moves, p, is as it should be, and the others are.
LEMMA AccKept ==
  ASSUME AccInv, NEW p \in Procs, AccTypes', StoresOK',
         WritesOK(p)' /\ MainOK(p)' /\ ReadOK(p)' /\ AloneOK(p)',
         \A q \in Procs : q # p => WritesOK(q)' /\ MainOK(q)' /\ ReadOK(q)' /\ AloneOK(q)'
  PROVE  AccInv'
BY DEF AccInv

\* When p alone is changed, the others need only what the stores tell them.
LEMMA OnlyOne ==
  ASSUME AccInv, NEW p \in Procs, proc[p].at # "none", NEW s \in Process,
         proc' = [proc EXCEPT ![p] = s],
         (stale => stale') /\ newest' = newest, table' = table /\ torn' = torn,
         \/ partial'
         \/ ~partial /\ core'.n = core.n
         \/ \A q \in Procs : q # p => proc[q] = Acc!NoProc
  PROVE  /\ proc' \in [Procs -> Process] /\ proc'[p] = s
         /\ \A q \in Procs : q # p => WritesOK(q)' /\ MainOK(q)' /\ ReadOK(q)' /\ AloneOK(q)'
<1>1. proc \in [Procs -> Process]
  BY DEF AccInv, AccTypes
<1>2. proc' \in [Procs -> Process] /\ proc'[p] = s
  BY <1>1
<1>3. ASSUME NEW q \in Procs, q # p
      PROVE  WritesOK(q)' /\ MainOK(q)' /\ ReadOK(q)' /\ AloneOK(q)'
  <2>1. proc'[q] = proc[q] /\ proc[q] \in Process /\ ~proc[q].alone
    BY <1>1, <1>3, NobodyElse
  <2>2. proc[q].at = "none" => proc'[q] = Acc!NoProc
    BY <2>1 DEF AccInv, WritesOK
  <2>3. \/ partial'
        \/ ~partial /\ core'.n = core.n
        \/ proc[q].at = "none"
    BY <1>3 DEF Acc!NoProc
  <2> QED
    BY <2>1, <2>2, <2>3, OtherStays
<1> QED
  BY <1>2, <1>3

\* Nor of one that is gone.
LEMMA GoneOK ==
  ASSUME NEW p \in Procs, proc'[p] = Acc!NoProc
  PROVE  WritesOK(p)' /\ MainOK(p)' /\ ReadOK(p)' /\ AloneOK(p)'
<1>1. /\ proc'[p].at = "none" /\ proc'[p].todo = <<>> /\ ~proc'[p].alone
      /\ proc'[p].acc.n = 0 /\ proc'[p].acc.device = 0
  BY DEF Acc!NoProc, Acc!None
<1>2. InOrder(<<>>)
  BY Begun
<1> QED
  BY <1>1, <1>2 DEF WritesOK, MainOK, ReadOK, AloneOK, Made

\* A process that is gone leaves the others as they are.
LEMMA Gone ==
  ASSUME AccInv, NEW p \in Procs, proc[p].at # "none",
         proc' = [proc EXCEPT ![p] = Acc!NoProc],
         core' = core, conf' \in Session, table' = table, logins' = logins, begun' = begun,
         newest' = newest, stale' = stale, partial' \in BOOLEAN, torn' = torn, StoresOK',
         \/ partial'
         \/ ~partial /\ core'.n = core.n
         \/ \A q \in Procs : q # p => proc[q] = Acc!NoProc
  PROVE  AccInv'
<1>1. /\ proc' \in [Procs -> Process] /\ proc'[p] = Acc!NoProc
      /\ \A q \in Procs : q # p => WritesOK(q)' /\ MainOK(q)' /\ ReadOK(q)' /\ AloneOK(q)'
  BY OnlyOne, NoProcTyped
<1>2. AccTypes'
  <2>1. AccTypes
    BY DEF AccInv
  <2> QED
    BY <1>1, <2>1, Zenon DEF AccTypes
<1>3. WritesOK(p)' /\ MainOK(p)' /\ ReadOK(p)' /\ AloneOK(p)'
  BY <1>1, GoneOK
<1> QED
  BY <1>1, <1>2, <1>3, AccKept

\* A process ends.
LEMMA EndsKeeps ==
  ASSUME AccInv, NEW p \in Procs,
         Acc!Ends(p) \/ Acc!Finish(p) \/ Acc!SaveSetting(p)
  PROVE  AccInv'
<1>1. /\ proc' = [proc EXCEPT ![p] = Acc!NoProc] /\ proc[p].at # "none"
      /\ core' = core /\ table' = table /\ logins' = logins /\ begun' = begun
      /\ newest' = newest /\ stale' = stale /\ torn' = torn
  BY DEF Acc!Ends, Acc!Finish, Acc!SaveSetting, Acc!history
<1>2. /\ AccTypes /\ StoresOK /\ WritesOK(p) /\ AloneOK(p) /\ proc[p] \in Process
  BY DEF AccInv, AccTypes
<1>3. conf' \in Session /\ Made(conf') /\ partial' \in BOOLEAN
  BY <1>2 DEF Acc!Ends, Acc!Finish, Acc!SaveSetting, Acc!history, AccTypes, StoresOK,
     WritesOK, Process
<1>4. CASE Acc!Ends(p) \/ Acc!SaveSetting(p)
  <2>1. partial' \/ (~partial /\ conf' = conf)
    BY <1>4 DEF Acc!Ends, Acc!SaveSetting, Acc!history
  <2>2. partial' \/ (~partial /\ core'.n = core.n)
    BY <1>1, <2>1
  <2>3. Acc!StoresAgree'
    BY <1>1, <1>2, <2>1 DEF StoresOK, Acc!StoresAgree, Acc!StatusNames
  <2>4. StoresOK'
    BY <1>1, <1>2, <1>3, <2>3 DEF StoresOK, Acc!LatestSession, Made, Whole
  <2> QED
    BY <1>1, <1>2, <1>3, <2>2, <2>4, Gone
<1>5. CASE Acc!Finish(p)
  <2>1. /\ conf' = conf
        /\ partial' = (partial /\ ~(proc[p].todo = <<"all">> /\ proc[p].alone))
    BY <1>5 DEF Acc!Finish
  <2>2. CASE proc[p].todo = <<"all">> /\ proc[p].alone
    <3>1. /\ core.n = proc[p].acc.n /\ newest = proc[p].acc.n /\ conf.n = proc[p].acc.n
          /\ \A k \in {"homeserver_url", "user_id", "access_token"} : table[k] = proc[p].acc.n
          /\ proc[p].acc.n # 0 /\ \A q \in Procs : q # p => proc[q] = Acc!NoProc
      BY <1>2, <1>5, <2>2, Begun DEF AloneOK, WritesOK, Acc!Finish
    <3>2. Acc!StoresAgree'
      BY <1>1, <2>1, <3>1 DEF Acc!StoresAgree, Acc!StatusNames
    <3>3. StoresOK'
      BY <1>1, <1>2, <1>3, <3>2 DEF StoresOK, Acc!LatestSession, Made, Whole
    <3> QED
      BY <1>1, <1>2, <1>3, <3>1, <3>3, Gone
  <2>3. CASE partial' = partial
    <3>1. Acc!StoresAgree'
      BY <1>1, <1>2, <2>1, <2>3 DEF StoresOK, Acc!StoresAgree, Acc!StatusNames
    <3>2. StoresOK'
      BY <1>1, <1>2, <1>3, <3>1 DEF StoresOK, Acc!LatestSession, Made, Whole
    <3>3. partial' \/ (~partial /\ core'.n = core.n)
      BY <1>1, <1>2, <2>3 DEF AccTypes
    <3> QED
      BY <1>1, <1>2, <1>3, <3>2, <3>3, Gone
  <2> QED
    BY <1>2, <2>1, <2>2, <2>3 DEF AccTypes
<1> QED
  BY <1>4, <1>5

\* A process that does the first of its steps has the rest before it.
LEMMA OneStep ==
  ASSUME AccInv, NEW p \in Procs, NEW step, Acc!At(p, step)
  PROVE  /\ Tail(proc[p].todo) \in Seq(Steps) /\ InOrder(Tail(proc[p].todo))
         /\ \A x : Due(proc[p].todo, x) <=> x = step \/ Due(Tail(proc[p].todo), x)
         /\ \A x : Due(Tail(proc[p].todo), x) => Rank(step) < Rank(x)
         /\ proc[p].at = "steps" /\ proc[p].acc.n # 0 /\ Made(proc[p].acc)
         /\ Due(proc[p].todo, step) /\ Head(proc[p].todo) = step
         /\ proc[p] \in Process /\ proc[p].todo # <<>>
<1>1. proc[p] \in Process /\ proc[p].todo \in Seq(Steps) /\ WritesOK(p)
  BY DEF AccInv, AccTypes, Process
<1>2. InOrder(proc[p].todo) /\ proc[p].todo # <<>> /\ Head(proc[p].todo) = step
  BY <1>1 DEF WritesOK, Acc!At
<1>3. proc[p].at = "steps" /\ proc[p].acc.n # 0 /\ Made(proc[p].acc)
  BY <1>1, <1>2 DEF WritesOK, Acc!At
<1> QED
  BY <1>1, <1>2, <1>3, NextStep

\* What a process is when it has done the step.
LEMMA StepBehind ==
  ASSUME AccInv, NEW p \in Procs, NEW step, Acc!At(p, step)
  PROVE  /\ Acc!Behind(p) \in Process
         /\ Acc!Behind(p).todo = Tail(proc[p].todo)
         /\ \A f \in {"at", "acc", "key", "got", "old", "beside", "alone"} :
               Acc!Behind(p)[f] = proc[p][f]
<1>1. proc[p] \in Process /\ Tail(proc[p].todo) \in Seq(Steps)
  BY OneStep
<1> QED
  BY <1>1 DEF Acc!Behind, Process

\* config.json has the login, and the account and the session still may not.
LEMMA SaveConfigKeeps ==
  ASSUME AccInv, NEW p \in Procs, Acc!SaveConfig(p)
  PROVE  AccInv'
<1> DEFINE s == Acc!Behind(p)
           rest == Tail(proc[p].todo)
<1>1. /\ Acc!At(p, "config") /\ conf' = proc[p].acc /\ partial' = TRUE
      /\ proc' = [proc EXCEPT ![p] = s]
      /\ core' = core /\ table' = table /\ logins' = logins /\ begun' = begun
      /\ newest' = newest /\ stale' = stale /\ torn' = torn
  BY DEF Acc!SaveConfig
<1>2. /\ rest \in Seq(Steps) /\ InOrder(rest)
      /\ \A x : Due(proc[p].todo, x) <=> x = "config" \/ Due(rest, x)
      /\ proc[p].at = "steps" /\ proc[p].acc.n # 0 /\ Made(proc[p].acc)
      /\ Head(proc[p].todo) = "config" /\ proc[p] \in Process
  BY <1>1, OneStep
<1>3. /\ s \in Process /\ s.todo = rest /\ s.at = "steps" /\ s.acc = proc[p].acc
      /\ s.key = proc[p].key /\ s.got = proc[p].got /\ s.old = proc[p].old
      /\ s.beside = proc[p].beside /\ s.alone = proc[p].alone
  BY <1>1, <1>2, StepBehind
<1> HIDE DEF s, rest
<1>4. /\ proc' \in [Procs -> Process] /\ proc'[p] = s
      /\ \A q \in Procs : q # p => WritesOK(q)' /\ MainOK(q)' /\ ReadOK(q)' /\ AloneOK(q)'
      /\ \A q \in Procs : q # p => proc'[q] = proc[q]
  BY <1>1, <1>2, <1>3, OnlyOne
<1>5. AccTypes'
  <2>1. AccTypes /\ conf' \in Session /\ partial' \in BOOLEAN
    BY <1>1, <1>2 DEF AccInv, Process
  <2> QED
    BY <1>1, <1>4, <2>1, Zenon DEF AccTypes
<1>6. StoresOK'
  BY <1>1, <1>2 DEF AccInv, StoresOK, Made, Whole, Acc!LatestSession, Acc!StoresAgree
<1>7. WritesOK(p)'
  <2>1. /\ WritesOK(p) /\ Made(s.acc) /\ InOrder(s.todo) /\ s.acc.n # 0
        /\ Due(s.todo, "boot") => Due(proc[p].todo, "boot")
        /\ ~Due(s.todo, "core") => ~Due(proc[p].todo, "core")
    BY <1>2, <1>3 DEF AccInv
  <2> QED
    BY <1>1, <1>2, <1>3, <1>4, <2>1 DEF WritesOK
<1>8. MainOK(p)'
  <2>1. MainOK(p) /\ (Due(s.todo, "main") => Due(proc[p].todo, "main"))
    BY <1>2, <1>3 DEF AccInv
  <2> QED
    BY <1>1, <1>2, <1>3, <1>4, <2>1 DEF MainOK
<1>9. ReadOK(p)' /\ AloneOK(p)'
  <2>1. AloneOK(p)
    BY DEF AccInv
  <2> QED
    BY <1>1, <1>2, <1>3, <1>4, <2>1 DEF ReadOK, AloneOK
<1> QED
  BY <1>4, <1>5, <1>6, <1>7, <1>8, <1>9, AccKept

\* A session is replaced: the other processes that had loaded one write back an old one.
LEMMA OthersOutdated ==
  ASSUME AccInv, NEW p \in Procs, proc[p].at # "none", NEW m \in [Procs -> Process],
         \A q \in Procs : q # p => m[q] = proc[q],
         proc' = Acc!Outdated(m, p), partial', table' = table /\ torn' = torn
  PROVE  /\ proc' \in [Procs -> Process] /\ proc'[p] = m[p]
         /\ \A q \in Procs : q # p => WritesOK(q)' /\ MainOK(q)' /\ ReadOK(q)' /\ AloneOK(q)'
         /\ \A q \in Procs : q # p => (proc[q] = Acc!NoProc => proc'[q] = Acc!NoProc)
<1>1. ASSUME NEW q \in Procs
      PROVE  [m[q] EXCEPT !.old = TRUE] \in Process
  BY DEF Process
<1>2. /\ proc' \in [Procs -> Process] /\ proc'[p] = m[p]
      /\ \A q \in Procs : q # p =>
            proc'[q] = IF proc[q].acc # Acc!None THEN [proc[q] EXCEPT !.old = TRUE] ELSE proc[q]
  BY <1>1 DEF Acc!Outdated
<1>3. ASSUME NEW q \in Procs, q # p
      PROVE  /\ WritesOK(q)' /\ MainOK(q)' /\ ReadOK(q)' /\ AloneOK(q)'
             /\ proc[q] = Acc!NoProc => proc'[q] = Acc!NoProc
  <2>1. proc[q] \in Process /\ ~proc[q].alone
    BY <1>3, NobodyElse DEF AccInv, AccTypes
  <2>2. proc[q].at = "none" => proc[q] = Acc!NoProc
    BY DEF AccInv, WritesOK
  <2>3. Acc!NoProc.acc = Acc!None /\ Acc!None.n = 0
    BY DEF Acc!NoProc, Acc!None
  <2>4. CASE proc[q].acc = Acc!None
    <3>1. proc'[q] = proc[q]
      BY <1>2, <1>3, <2>4
    <3> QED
      BY <2>1, <2>2, <2>3, <2>4, <3>1, OtherStays
  <2>5. CASE proc[q].acc # Acc!None
    <3>1. proc'[q] = [proc[q] EXCEPT !.old = TRUE]
      BY <1>2, <1>3, <2>5
    <3>2. /\ proc'[q] \in Process /\ ~proc'[q].alone /\ proc'[q].old
          /\ proc'[q].at = proc[q].at /\ proc'[q].todo = proc[q].todo
          /\ proc'[q].acc = proc[q].acc /\ proc'[q].key = proc[q].key
          /\ proc'[q].got = proc[q].got /\ proc'[q].beside = proc[q].beside
      BY <1>2, <2>1, <3>1 DEF Process
    <3>3. proc[q].at # "none"
      BY <2>2, <2>3, <2>5
    <3> QED
      BY <2>3, <2>5, <3>2, <3>3, OtherStays
  <2> QED
    BY <2>4, <2>5
<1> QED
  BY <1>2, <1>3

\* session.db has the login.
LEMMA PersistLoginKeeps ==
  ASSUME AccInv, NEW p \in Procs, Acc!PersistLogin(p)
  PROVE  AccInv'
<1> DEFINE b == Acc!Behind(p)
           s == [Acc!Behind(p) EXCEPT !.old = FALSE]
           m == [proc EXCEPT ![p] = s]
           rest == Tail(proc[p].todo)
<1>1. /\ Acc!At(p, "core") /\ core' = proc[p].acc /\ newest' = proc[p].acc.n
      /\ stale' = FALSE /\ partial' = TRUE /\ proc' = Acc!Outdated(m, p)
      /\ conf' = conf /\ table' = table /\ logins' = logins /\ begun' = begun
      /\ torn' = torn
  BY DEF Acc!PersistLogin
<1>2. /\ rest \in Seq(Steps) /\ InOrder(rest)
      /\ \A x : Due(proc[p].todo, x) <=> x = "core" \/ Due(rest, x)
      /\ proc[p].at = "steps" /\ proc[p].acc.n # 0 /\ Made(proc[p].acc)
      /\ Head(proc[p].todo) = "core" /\ proc[p] \in Process
  BY <1>1, OneStep
<1>3. /\ s \in Process /\ s.todo = rest /\ s.at = "steps" /\ s.acc = proc[p].acc
      /\ s.key = proc[p].key /\ s.got = proc[p].got /\ s.old = FALSE
      /\ s.beside = proc[p].beside /\ s.alone = proc[p].alone
  <2>1. /\ b \in Process /\ b.todo = rest /\ b.at = "steps" /\ b.acc = proc[p].acc
        /\ b.key = proc[p].key /\ b.got = proc[p].got
        /\ b.beside = proc[p].beside /\ b.alone = proc[p].alone
    BY <1>1, <1>2, StepBehind
  <2>2. s = [b EXCEPT !.old = FALSE]
    OBVIOUS
  <2> HIDE DEF b, s, rest
  <2> QED
    BY <2>1, <2>2 DEF Process
<1>4. m \in [Procs -> Process] /\ m[p] = s /\ \A q \in Procs : q # p => m[q] = proc[q]
  <2>1. proc \in [Procs -> Process]
    BY DEF AccInv, AccTypes
  <2> HIDE DEF s
  <2> QED
    BY <1>3, <2>1
<1> HIDE DEF b, s, m, rest
<1>5. /\ proc' \in [Procs -> Process] /\ proc'[p] = s
      /\ \A q \in Procs : q # p => WritesOK(q)' /\ MainOK(q)' /\ ReadOK(q)' /\ AloneOK(q)'
      /\ \A q \in Procs : q # p => (proc[q] = Acc!NoProc => proc'[q] = Acc!NoProc)
  BY <1>1, <1>2, <1>4, OthersOutdated
<1>6. AccTypes'
  <2>1. /\ AccTypes /\ core' \in Session /\ newest' \in 0 .. MaxLogins
        /\ stale' \in BOOLEAN /\ partial' \in BOOLEAN
    BY <1>1, <1>2 DEF AccInv, Process, Session
  <2> QED
    BY <1>1, <1>5, <2>1, Zenon DEF AccTypes
<1>7. StoresOK'
  BY <1>1, <1>2 DEF AccInv, StoresOK, Made, Whole, Acc!LatestSession, Acc!StoresAgree
<1>8. WritesOK(p)'
  BY <1>1, <1>2, <1>3, <1>5 DEF WritesOK
<1>9. MainOK(p)'
  <2>1. MainOK(p) /\ (Due(s.todo, "main") => Due(proc[p].todo, "main"))
    BY <1>2, <1>3 DEF AccInv
  <2> QED
    BY <1>1, <1>2, <1>3, <1>5, <2>1 DEF MainOK
<1>10. ReadOK(p)' /\ AloneOK(p)'
  <2>1. AloneOK(p)
    BY DEF AccInv
  <2> QED
    BY <1>1, <1>2, <1>3, <1>5, <2>1 DEF ReadOK, AloneOK
<1> QED
  BY <1>5, <1>6, <1>7, <1>8, <1>9, <1>10, AccKept

\* The session gets its device and is written back.
LEMMA BootstrapKeeps ==
  ASSUME AccInv, NEW p \in Procs, Acc!Bootstrap(p)
  PROVE  AccInv'
<1> DEFINE b == Acc!Behind(p)
           rest == Tail(proc[p].todo)
<1>1. PICK acc : /\ acc = [proc[p].acc EXCEPT !.device =
                             IF proc[p].acc.device = 0 THEN - proc[p].acc.n ELSE proc[p].acc.device]
                 /\ Acc!At(p, "boot") /\ core' = acc /\ stale' = (stale \/ proc[p].old)
                 /\ proc' = [proc EXCEPT ![p] = [b EXCEPT !.acc = acc]]
                 /\ conf' = conf /\ table' = table /\ logins' = logins /\ begun' = begun
                 /\ newest' = newest /\ partial' = partial /\ torn' = torn
  BY DEF Acc!Bootstrap
<1>2. /\ rest \in Seq(Steps) /\ InOrder(rest)
      /\ \A x : Due(proc[p].todo, x) <=> x = "boot" \/ Due(rest, x)
      /\ \A x : Due(rest, x) => Rank("boot") < Rank(x)
      /\ proc[p].at = "steps" /\ proc[p].acc.n # 0 /\ Made(proc[p].acc)
      /\ Head(proc[p].todo) = "boot" /\ proc[p] \in Process
  BY <1>1, OneStep
<1>3. acc \in Session /\ acc.n = proc[p].acc.n /\ Made(acc)
  <2>1. proc[p].acc \in Session
    BY <1>2 DEF Process
  <2> QED
    BY <1>1, <1>2, <2>1 DEF Session, Made
<1> DEFINE s == [b EXCEPT !.acc = acc]
<1>4. /\ s \in Process /\ s.todo = rest /\ s.at = "steps" /\ s.acc = acc
      /\ s.key = proc[p].key /\ s.got = proc[p].got /\ s.old = proc[p].old
      /\ s.beside = proc[p].beside /\ s.alone = proc[p].alone
  <2>1. /\ b \in Process /\ b.todo = rest /\ b.at = "steps"
        /\ b.key = proc[p].key /\ b.got = proc[p].got /\ b.old = proc[p].old
        /\ b.beside = proc[p].beside /\ b.alone = proc[p].alone
    BY <1>1, <1>2, StepBehind
  <2>2. s = [b EXCEPT !.acc = acc]
    OBVIOUS
  <2> HIDE DEF b, s, rest
  <2> QED
    BY <1>3, <2>1, <2>2 DEF Process
<1>5. Rank("boot") = 4 /\ Rank("main") = 3 /\ Rank("core") = 1 /\ Rank("config") = 2
  BY DEF Rank
<1>6. /\ ~Due(rest, "main") /\ ~Due(rest, "boot") /\ ~Due(rest, "core")
      /\ ~Due(rest, "config") /\ Due(proc[p].todo, "boot")
  BY <1>2, <1>5
<1>7. /\ stale \/ proc[p].old \/ proc[p].acc.n = newest
      /\ partial \/ proc[p].acc.n = core.n
  BY <1>2, <1>6 DEF AccInv, WritesOK
<1> HIDE DEF b, s, rest
<1>8. /\ proc' \in [Procs -> Process] /\ proc'[p] = s
      /\ \A q \in Procs : q # p => WritesOK(q)' /\ MainOK(q)' /\ ReadOK(q)' /\ AloneOK(q)'
      /\ \A q \in Procs : q # p => proc'[q] = proc[q]
  <2>1. proc' = [proc EXCEPT ![p] = s]
    BY <1>1 DEF s
  <2>2. partial' \/ (~partial /\ core'.n = core.n)
    BY <1>1, <1>3, <1>7
  <2>3. (stale => stale') /\ newest' = newest /\ table' = table /\ torn' = torn
    BY <1>1
  <2>4. proc[p].at # "none" /\ s \in Process
    BY <1>2, <1>4
  <2>5. /\ proc' \in [Procs -> Process] /\ proc'[p] = s
        /\ \A q \in Procs : q # p => WritesOK(q)' /\ MainOK(q)' /\ ReadOK(q)' /\ AloneOK(q)'
    BY <2>1, <2>2, <2>3, <2>4, OnlyOne
  <2> QED
    BY <2>1, <2>5 DEF AccInv, AccTypes
<1>9. AccTypes'
  <2>1. AccTypes /\ core' \in Session /\ stale' \in BOOLEAN
    BY <1>1, <1>3 DEF AccInv
  <2> QED
    BY <1>1, <1>8, <2>1, Zenon DEF AccTypes
<1>10. StoresOK'
  <2>1. Acc!LatestSession'
    <3>1. ~stale' => core'.n = newest'
      BY <1>1, <1>3, <1>7
    <3>2. core'.device \in {core'.n, - core'.n, 0}
      BY <1>1, <1>3 DEF Made
    <3> QED
      BY <3>1, <3>2 DEF Acc!LatestSession
  <2>2. Acc!StoresAgree'
    <3>1. ~partial' => core'.n = core.n /\ Acc!StoresAgree
      BY <1>1, <1>3, <1>7 DEF AccInv, StoresOK
    <3> QED
      BY <1>1, <3>1 DEF Acc!StoresAgree, Acc!StatusNames
  <2> QED
    BY <1>1, <1>3, <2>1, <2>2 DEF AccInv, StoresOK, Made, Whole
<1>11. WritesOK(p)'
  BY <1>2, <1>3, <1>4, <1>6, <1>8 DEF WritesOK
<1>12. MainOK(p)' /\ ReadOK(p)'
  BY <1>4, <1>6, <1>8 DEF MainOK, ReadOK
<1>13. AloneOK(p)'
  <2>1. AloneOK(p) /\ (Due(rest, "all") => Due(proc[p].todo, "all"))
    BY <1>2 DEF AccInv
  <2>2. ~Due(proc[p].todo, "core") /\ ~Due(proc[p].todo, "config") /\ ~Due(proc[p].todo, "main")
    BY <1>2, <1>6
  <2> QED
    BY <1>1, <1>2, <1>3, <1>4, <1>8, <2>1, <2>2 DEF AloneOK
<1> QED
  BY <1>8, <1>9, <1>10, <1>11, <1>12, <1>13, AccKept

\* A server begins to serve: what it had to do is done.
LEMMA ServeBeginsKeeps ==
  ASSUME AccInv, NEW p \in Procs, Acc!ServeBegins(p)
  PROVE  AccInv'
<1> DEFINE s == [proc[p] EXCEPT !.at = "serve"]
<1>1. /\ Acc!At(p, "serve") /\ proc' = [proc EXCEPT ![p] = s]
      /\ core' = core /\ conf' = conf /\ table' = table /\ logins' = logins /\ begun' = begun
      /\ newest' = newest /\ stale' = stale /\ partial' = partial /\ torn' = torn
  BY DEF Acc!ServeBegins, Acc!history
<1>2. /\ proc[p] \in Process /\ proc[p].at = "steps" /\ WritesOK(p) /\ AloneOK(p)
      /\ proc[p].acc.n # 0 /\ AccTypes /\ StoresOK
  BY <1>1, OneStep DEF AccInv
<1>3. /\ s \in Process /\ s.at = "serve" /\ s.todo = proc[p].todo /\ s.acc = proc[p].acc
      /\ s.alone = proc[p].alone
  BY <1>2 DEF Process, Acc!Places
<1> HIDE DEF s
<1>4. partial' \/ (~partial /\ core'.n = core.n)
  BY <1>1, <1>2 DEF AccTypes
<1>5. /\ proc' \in [Procs -> Process] /\ proc'[p] = s
      /\ \A q \in Procs : q # p => WritesOK(q)' /\ MainOK(q)' /\ ReadOK(q)' /\ AloneOK(q)'
      /\ \A q \in Procs : q # p => proc'[q] = proc[q]
  <2>1. /\ proc' \in [Procs -> Process] /\ proc'[p] = s
        /\ \A q \in Procs : q # p => WritesOK(q)' /\ MainOK(q)' /\ ReadOK(q)' /\ AloneOK(q)'
    BY <1>1, <1>2, <1>3, <1>4, OnlyOne
  <2> QED
    BY <1>1, <2>1 DEF AccInv, AccTypes
<1>6. AccTypes'
  BY <1>1, <1>2, <1>5, Zenon DEF AccTypes
<1>7. StoresOK'
  BY <1>1, <1>2 DEF StoresOK, Made, Whole, Acc!LatestSession, Acc!StoresAgree,
     Acc!StatusNames
<1>8. WritesOK(p)' /\ MainOK(p)' /\ ReadOK(p)' /\ AloneOK(p)'
  BY <1>2, <1>3, <1>5 DEF WritesOK, MainOK, ReadOK, AloneOK
<1> QED
  BY <1>5, <1>6, <1>7, <1>8, AccKept

\* A login through the server replaces its session.
LEMMA ServeLoginKeeps ==
  ASSUME AccInv, NEW p \in Procs, Acc!ServeLogin(p)
  PROVE  AccInv'
<1> DEFINE s == [proc[p] EXCEPT !.acc = core', !.old = FALSE]
           m == [proc EXCEPT ![p] = s]
<1>1. /\ proc[p].at = "serve" /\ logins < MaxLogins /\ logins' = logins + 1
      /\ core' = [n |-> logins + 1, device |-> logins + 1]
      /\ newest' = logins + 1 /\ stale' = FALSE /\ partial' = TRUE
      /\ conf' = conf /\ table' = table /\ begun' = begun /\ torn' = torn
  BY DEF Acc!ServeLogin
<1>2. /\ AccTypes /\ StoresOK /\ WritesOK(p) /\ AloneOK(p) /\ proc[p] \in Process
      /\ proc \in [Procs -> Process]
  BY DEF AccInv, AccTypes
<1>3. /\ logins + 1 \in 1 .. MaxLogins /\ core' \in Session /\ Made(core')
      /\ core'.n = logins + 1 /\ core'.n # 0
  <2>1. logins \in 0 .. MaxLogins
    BY <1>2 DEF AccTypes
  <2>2. logins + 1 \in 1 .. MaxLogins
    BY <1>1, <2>1, AccConstants
  <2> QED
    BY <1>1, <2>2 DEF Session, Made
<1>4. /\ s \in Process /\ s.at = "serve" /\ s.todo = proc[p].todo /\ s.acc = core'
      /\ s.alone = proc[p].alone
  BY <1>1, <1>2, <1>3 DEF Process
<1>5. proc' = Acc!Outdated(m, p)
  <2>1. proc' = Acc!Outdated([proc EXCEPT ![p].acc = core', ![p].old = FALSE], p)
    BY DEF Acc!ServeLogin
  <2>2. [proc EXCEPT ![p].acc = core', ![p].old = FALSE] = m
    BY <1>2
  <2> QED
    BY <2>1, <2>2
<1>6. m \in [Procs -> Process] /\ m[p] = s /\ \A q \in Procs : q # p => m[q] = proc[q]
  <2> HIDE DEF s
  <2> QED
    BY <1>2, <1>4
<1> HIDE DEF s, m
<1>7. /\ proc' \in [Procs -> Process] /\ proc'[p] = s
      /\ \A q \in Procs : q # p => WritesOK(q)' /\ MainOK(q)' /\ ReadOK(q)' /\ AloneOK(q)'
      /\ \A q \in Procs : q # p => (proc[q] = Acc!NoProc => proc'[q] = Acc!NoProc)
  BY <1>1, <1>5, <1>6, OthersOutdated
<1>8. AccTypes'
  <2>1. logins' \in 0 .. MaxLogins /\ newest' \in 0 .. MaxLogins
    BY <1>1, <1>3
  <2>2. stale' \in BOOLEAN /\ partial' \in BOOLEAN
    BY <1>1
  <2> QED
    BY <1>1, <1>2, <1>3, <1>7, <2>1, <2>2, Zenon DEF AccTypes
<1>9. StoresOK'
  BY <1>1, <1>2, <1>3 DEF StoresOK, Made, Whole, Acc!LatestSession, Acc!StoresAgree
<1>10. WritesOK(p)' /\ MainOK(p)' /\ ReadOK(p)' /\ AloneOK(p)'
  BY <1>2, <1>3, <1>4, <1>7 DEF WritesOK, MainOK, ReadOK, AloneOK
<1> QED
  BY <1>7, <1>8, <1>9, <1>10, AccKept

\* A key of the account is written; those who are reading or writing it are beside that.
LEMMA SaveAccountKeeps ==
  ASSUME AccInv, NEW p \in Procs, Acc!SaveAccount(p)
  PROVE  AccInv'
<1> DEFINE key == proc[p].key
           k == Acc!Keys[key]
           b == Acc!Behind(p)
           n == [proc[p] EXCEPT !.key = @ + 1]
           s == IF key = 4 THEN b ELSE n
           rest == Tail(proc[p].todo)
           aside(q) == [proc[q] EXCEPT !.beside = TRUE]
<1>1. /\ Acc!At(p, "main") /\ table' = [table EXCEPT ![k] = Acc!Value(p, k)]
      /\ torn' = (key # 4 \/ proc[p].beside) /\ partial' = TRUE
      /\ proc' = [q \in Procs |-> IF q = p THEN s
                                  ELSE IF Acc!Midway(q) THEN aside(q) ELSE proc[q]]
      /\ core' = core /\ conf' = conf /\ logins' = logins /\ begun' = begun
      /\ newest' = newest /\ stale' = stale
  <2>1. Len(Acc!Keys) = 4
    BY AccountKeys
  <2> HIDE DEF b
  <2> QED
    BY <2>1 DEF Acc!SaveAccount, b
<1>2. /\ rest \in Seq(Steps) /\ InOrder(rest)
      /\ \A x : Due(proc[p].todo, x) <=> x = "main" \/ Due(rest, x)
      /\ \A x : Due(rest, x) => Rank("main") < Rank(x)
      /\ proc[p].at = "steps" /\ proc[p].acc.n # 0 /\ Made(proc[p].acc)
      /\ Head(proc[p].todo) = "main" /\ proc[p] \in Process /\ proc[p].todo # <<>>
      /\ Due(proc[p].todo, "main")
  BY <1>1, OneStep
<1>3. /\ AccTypes /\ StoresOK /\ WritesOK(p) /\ AloneOK(p) /\ MainOK(p)
      /\ proc \in [Procs -> Process] /\ proc[p].acc \in Session
  BY <1>2 DEF AccInv, AccTypes, Process
<1>4. /\ key \in 1 .. 4 /\ proc[p].acc.device \in {0, proc[p].acc.n}
      /\ ~proc[p].beside =>
            \A j \in 1 .. key - 1 : table[Acc!Keys[j]] = Acc!Value(p, Acc!Keys[j])
  BY <1>2, <1>3 DEF MainOK
<1>5. /\ k \in Acc!KeySet /\ \A j \in 1 .. 4 : Acc!Value(p, Acc!Keys[j]) \in 0 .. MaxLogins
      /\ Acc!Value(p, k) \in 0 .. MaxLogins
  <2>1. proc[p].acc.n \in 0 .. MaxLogins /\ proc[p].acc.device \in 0 .. MaxLogins
    BY <1>3, <1>4, AccConstants DEF Session
  <2>2. \A x : Acc!Value(p, x) \in 0 .. MaxLogins
    BY <2>1 DEF Acc!Value
  <2> QED
    BY <1>4, <2>2, AccountKeys
<1>6. /\ s \in Process /\ s.at = "steps" /\ s.acc = proc[p].acc /\ s.old = proc[p].old
      /\ s.beside = proc[p].beside /\ s.alone = proc[p].alone
      /\ key = 4 => s.todo = rest
      /\ key # 4 => s.todo = proc[p].todo /\ s.key = key + 1
  <2>1. /\ b \in Process /\ b.todo = rest /\ b.at = "steps" /\ b.acc = proc[p].acc
        /\ b.old = proc[p].old /\ b.beside = proc[p].beside /\ b.alone = proc[p].alone
    BY <1>1, <1>2, StepBehind
  <2>2. ASSUME key # 4
        PROVE  /\ n \in Process /\ n.todo = proc[p].todo /\ n.at = "steps" /\ n.acc = proc[p].acc
               /\ n.key = key + 1 /\ n.old = proc[p].old /\ n.beside = proc[p].beside
               /\ n.alone = proc[p].alone
    <3>1. key + 1 \in 1 .. 5
      BY <1>4
    <3> QED
      BY <1>2, <3>1 DEF Process
  <2> HIDE DEF b, n, key
  <2> QED
    BY <2>1, <2>2
<1>7. \A q \in Procs : /\ aside(q) \in Process /\ aside(q).beside
                       /\ aside(q).at = proc[q].at /\ aside(q).todo = proc[q].todo
                       /\ aside(q).acc = proc[q].acc /\ aside(q).key = proc[q].key
                       /\ aside(q).got = proc[q].got /\ aside(q).old = proc[q].old
                       /\ aside(q).alone = proc[q].alone
  BY <1>3 DEF Process
<1> HIDE DEF key, k, b, n, s, rest, aside
<1>8. /\ proc' \in [Procs -> Process] /\ proc'[p] = s
      /\ \A q \in Procs : q # p =>
            proc'[q] = IF Acc!Midway(q) THEN aside(q) ELSE proc[q]
  BY <1>1, <1>3, <1>6, <1>7
<1>9. ASSUME NEW q \in Procs, q # p
      PROVE  /\ WritesOK(q)' /\ MainOK(q)' /\ ReadOK(q)' /\ AloneOK(q)'
             /\ proc[q] = Acc!NoProc => proc'[q] = Acc!NoProc
  <2>1. proc[q] \in Process /\ ~proc[q].alone
    BY <1>2, <1>3, <1>9, NobodyElse
  <2>2. proc[q].at = "none" => proc[q] = Acc!NoProc
    BY DEF AccInv, WritesOK
  <2>3. proc[q].at = "none" => ~Acc!Midway(q)
    BY DEF Acc!Midway, Acc!At
  <2>4. CASE Acc!Midway(q)
    <3>1. proc'[q] = aside(q)
      BY <1>8, <1>9, <2>4
    <3> QED
      BY <1>1, <1>7, <2>1, <2>3, <2>4, <3>1, OtherStays DEF Acc!NoProc
  <2>5. CASE ~Acc!Midway(q)
    <3>1. proc'[q] = proc[q]
      BY <1>8, <1>9, <2>5
    <3> QED
      BY <1>1, <2>1, <2>2, <2>5, <3>1, OtherStays
  <2> QED
    BY <2>4, <2>5
<1>10. table' \in [Acc!KeySet -> 0 .. MaxLogins] /\ table'[k] = Acc!Value(p, k)
       /\ \A x \in Acc!KeySet : x # k => table'[x] = table[x]
  BY <1>1, <1>3, <1>5 DEF AccTypes
<1>11. \A x : Acc!Value(p, x)' = Acc!Value(p, x)
  BY <1>6, <1>8 DEF Acc!Value
<1>12. /\ \A x \in {"homeserver_url", "user_id", "access_token"} :
             Acc!Value(p, x) = proc[p].acc.n
       /\ Acc!Value(p, "device_id") = proc[p].acc.device
  BY DEF Acc!Value
<1>13. \A i, j \in 1 .. 4 : i # j => Acc!Keys[i] # Acc!Keys[j]
  BY AccountKeys
<1>14. ~proc[p].beside =>
          \A j \in 1 .. key : table'[Acc!Keys[j]] = Acc!Value(p, Acc!Keys[j])
  <2> SUFFICES ASSUME ~proc[p].beside, NEW j \in 1 .. key
               PROVE  table'[Acc!Keys[j]] = Acc!Value(p, Acc!Keys[j])
    OBVIOUS
  <2>1. CASE j = key
    BY <1>10, <2>1 DEF k
  <2>2. CASE j # key
    <3>1. j \in 1 .. key - 1 /\ j \in 1 .. 4
      BY <1>4, <2>2
    <3>2. Acc!Keys[j] \in Acc!KeySet /\ Acc!Keys[j] # k
      BY <1>4, <1>13, <2>2, <3>1, AccountKeys DEF k
    <3> QED
      BY <1>4, <1>10, <3>1, <3>2
  <2> QED
    BY <2>1, <2>2
<1>15. key = 4 /\ ~proc[p].beside =>
          /\ \A x \in {"homeserver_url", "user_id", "access_token"} : table'[x] = proc[p].acc.n
          /\ table'["device_id"] = proc[p].acc.device
  BY <1>12, <1>14, AccountKeys
<1>16. AccTypes'
  <2>1. torn' \in BOOLEAN /\ partial' \in BOOLEAN
    BY <1>1
  <2> QED
    BY <1>1, <1>3, <1>8, <1>10, <2>1, Zenon DEF AccTypes
<1>17. StoresOK'
  <2>1. ~torn' => Whole(table')
    BY <1>1, <1>4, <1>15 DEF Whole
  <2>2. Made(core') /\ Made(conf') /\ Acc!LatestSession' /\ Acc!StoresAgree'
    BY <1>1, <1>3 DEF StoresOK, Made, Acc!LatestSession, Acc!StoresAgree
  <2> QED
    BY <2>1, <2>2 DEF StoresOK, Whole
<1>18. Rank("main") = 3 /\ Rank("core") = 1 /\ Rank("config") = 2
  BY DEF Rank
<1>19. ~Due(rest, "main") /\ ~Due(rest, "core") /\ ~Due(rest, "config")
  BY <1>2, <1>18
<1>20. ~Due(proc[p].todo, "core") /\ ~Due(proc[p].todo, "config")
  BY <1>2, <1>19
<1>21. CASE key = 4
  <2>1. WritesOK(p)'
    BY <1>1, <1>2, <1>3, <1>6, <1>8, <1>20, <1>21 DEF WritesOK
  <2>2. MainOK(p)' /\ ReadOK(p)'
    BY <1>6, <1>8, <1>19, <1>21 DEF MainOK, ReadOK
  <2>3. AloneOK(p)'
    <3>1. Due(rest, "all") => Due(proc[p].todo, "all")
      BY <1>2
    <3> QED
      BY <1>1, <1>3, <1>6, <1>8, <1>9, <1>15, <1>20, <1>21, <3>1, <1>2 DEF AloneOK
  <2> QED
    BY <1>8, <1>9, <1>16, <1>17, <2>1, <2>2, <2>3, AccKept
<1>22. CASE key # 4
  <2>1. WritesOK(p)'
    BY <1>1, <1>2, <1>3, <1>6, <1>8, <1>20, <1>22 DEF WritesOK
  <2>2. MainOK(p)'
    <3>1. key + 1 \in 1 .. 4 /\ 1 .. (key + 1) - 1 = 1 .. key
      BY <1>4, <1>22
    <3>2. s.todo = proc[p].todo /\ s.key = key + 1
      BY <1>6, <1>22
    <3> QED
      BY <1>2, <1>4, <1>6, <1>8, <1>11, <1>14, <3>1, <3>2 DEF MainOK
  <2>3. ReadOK(p)' /\ AloneOK(p)'
    BY <1>1, <1>2, <1>3, <1>6, <1>8, <1>9, <1>20, <1>22 DEF ReadOK, AloneOK
  <2> QED
    BY <1>8, <1>9, <1>16, <1>17, <2>1, <2>2, <2>3, AccKept
<1> QED
  BY <1>21, <1>22

\* A key of the account is read.
LEMMA LoadAccountKeeps ==
  ASSUME AccInv, NEW p \in Procs, Acc!LoadAccount(p)
  PROVE  AccInv'
<1> DEFINE key == proc[p].key
           k == Acc!Keys[key]
           s == [at |-> IF key = 4 THEN "acting" ELSE "reading", todo |-> proc[p].todo,
                 acc |-> proc[p].acc, key |-> key + 1, got |-> [proc[p].got EXCEPT ![k] = table[k]],
                 old |-> proc[p].old, beside |-> proc[p].beside \/ torn,
                 alone |-> proc[p].alone]
<1>1. /\ proc[p].at = "reading"
      /\ core' = core /\ conf' = conf /\ table' = table /\ logins' = logins /\ begun' = begun
      /\ newest' = newest /\ stale' = stale /\ partial' = partial /\ torn' = torn
  BY DEF Acc!LoadAccount, Acc!history
<1>2. /\ AccTypes /\ StoresOK /\ WritesOK(p) /\ AloneOK(p) /\ ReadOK(p)
      /\ proc \in [Procs -> Process] /\ proc[p] \in Process
  BY DEF AccInv, AccTypes
<1>3. key \in 1 .. 4 /\ k \in Acc!KeySet /\ proc[p].todo = <<>>
  BY <1>1, <1>2, AccountKeys DEF ReadOK, WritesOK
<1>4. /\ s \in Process /\ s.at = (IF key = 4 THEN "acting" ELSE "reading") /\ s.todo = <<>>
      /\ s.todo = proc[p].todo
      /\ s.key = key + 1 /\ s.acc = proc[p].acc /\ s.beside = (proc[p].beside \/ torn)
      /\ s.got = [proc[p].got EXCEPT ![k] = table[k]] /\ s.alone = proc[p].alone
      /\ s.old = proc[p].old
  <2>1. [proc[p].got EXCEPT ![k] = table[k]] \in [Acc!KeySet -> 0 .. MaxLogins]
    BY <1>2, <1>3 DEF Process, AccTypes
  <2>2. key + 1 \in 1 .. 5 /\ (IF key = 4 THEN "acting" ELSE "reading") \in Acc!Places
    BY <1>3 DEF Acc!Places
  <2>3. (proc[p].beside \/ torn) \in BOOLEAN
    OBVIOUS
  <2>4. proc[p].todo \in Seq(Steps) /\ proc[p].acc \in Session /\ proc[p].old \in BOOLEAN
        /\ proc[p].alone \in BOOLEAN
    BY <1>2 DEF Process
  <2>5. s \in Process
    BY <2>1, <2>2, <2>3, <2>4, Zenon DEF Process
  <2> QED
    BY <1>3, <2>5
<1>5. proc' = [proc EXCEPT ![p] = s]
  <2> DEFINE next == [proc[p] EXCEPT !.got[k] = table[k], !.key = @ + 1, !.beside = @ \/ torn]
             ended == [next EXCEPT !.at = "acting"]
  <2>1. proc' = [proc EXCEPT ![p] = IF key = 4 THEN ended ELSE next]
    BY AccountKeys DEF Acc!LoadAccount
  <2>2. /\ next.todo = proc[p].todo /\ next.acc = proc[p].acc /\ next.key = key + 1
        /\ next.got = [proc[p].got EXCEPT ![k] = table[k]] /\ next.at = "reading"
        /\ next.old = proc[p].old /\ next.beside = (proc[p].beside \/ torn)
        /\ next.alone = proc[p].alone
    BY <1>1, <1>2, <1>3 DEF Process
  <2>3. next \in Process
    <3> HIDE DEF key, k
    <3>1. [proc[p].got EXCEPT ![k] = table[k]] \in [Acc!KeySet -> 0 .. MaxLogins]
      BY <1>2, <1>3 DEF Process, AccTypes
    <3>2. key + 1 \in 1 .. 5
      BY <1>3
    <3>3. (proc[p].beside \/ torn) \in BOOLEAN
      OBVIOUS
    <3> QED
      BY <1>2, <3>1, <3>2, <3>3 DEF Process, key
  <2> HIDE DEF next
  <2>4. /\ ended \in Process /\ ended.at = "acting"
        /\ ended.todo = next.todo /\ ended.acc = next.acc /\ ended.key = next.key
        /\ ended.got = next.got /\ ended.old = next.old /\ ended.beside = next.beside
        /\ ended.alone = next.alone
    BY <2>3 DEF Process, Acc!Places
  <2>5. ASSUME NEW x \in Process, NEW y \in Process, x.at = y.at, x.todo = y.todo,
               x.acc = y.acc, x.key = y.key, x.got = y.got, x.old = y.old,
               x.beside = y.beside, x.alone = y.alone
        PROVE  x = y
    BY <2>5 DEF Process
  <2> HIDE DEF ended
  <2>6. s = IF key = 4 THEN ended ELSE next
    <3> HIDE DEF key, k, s
    <3>1. CASE key = 4
      <4>1. ended = s
        BY <1>4, <2>2, <2>4, <2>5, <3>1
      <4> QED
        BY <3>1, <4>1
    <3>2. CASE key # 4
      <4>1. next = s
        BY <1>4, <2>2, <2>3, <2>5, <3>2
      <4> QED
        BY <3>2, <4>1
    <3> QED
      BY <3>1, <3>2
  <2> QED
    BY <2>1, <2>6, Zenon
<1>6. /\ s.got \in [Acc!KeySet -> 0 .. MaxLogins] /\ s.got[k] = table[k]
      /\ \A x \in Acc!KeySet : x # k => s.got[x] = proc[p].got[x]
  BY <1>2, <1>3, <1>4 DEF Process
<1> HIDE DEF key, k, s
<1>7. partial' \/ (~partial /\ core'.n = core.n)
  BY <1>1, <1>2 DEF AccTypes
<1>8. /\ proc' \in [Procs -> Process] /\ proc'[p] = s
      /\ \A q \in Procs : q # p => WritesOK(q)' /\ MainOK(q)' /\ ReadOK(q)' /\ AloneOK(q)'
  BY <1>1, <1>5, <1>4, <1>7, OnlyOne
<1>9. \A q \in Procs : q # p => proc'[q] = proc[q]
  BY <1>2, <1>5
<1>10. AccTypes'
  BY <1>1, <1>2, <1>8, Zenon DEF AccTypes
<1>11. StoresOK'
  BY <1>1, <1>2 DEF StoresOK, Made, Whole, Acc!LatestSession, Acc!StoresAgree,
     Acc!StatusNames
<1>12. WritesOK(p)' /\ MainOK(p)' /\ AloneOK(p)'
  <2>1. s.at # "steps" /\ s.at # "none"
    BY <1>4
  <2>2. InOrder(s.todo) /\ Made(s.acc)
    BY <1>2, <1>3, <1>4 DEF WritesOK
  <2> QED
    BY <1>2, <1>4, <1>8, <1>9, <2>1, <2>2 DEF WritesOK, MainOK, AloneOK
<1>13. ReadOK(p)'
  <2> SUFFICES ASSUME ~proc[p].beside, ~torn
               PROVE  /\ \A j \in 1 .. key : s.got[Acc!Keys[j]] = table[Acc!Keys[j]]
                      /\ key = 4 => Whole(s.got)
    <3>1. key # 4 => key + 1 \in 1 .. 4
      BY <1>3
    <3>2. 1 .. (key + 1) - 1 = 1 .. key
      BY <1>3
    <3> QED
      BY <1>1, <1>4, <1>8, <3>1, <3>2 DEF ReadOK
  <2>1. \A j \in 1 .. key - 1 : proc[p].got[Acc!Keys[j]] = table[Acc!Keys[j]]
    BY <1>1, <1>2, <1>3 DEF ReadOK, key
  <2>2. ASSUME NEW j \in 1 .. key PROVE s.got[Acc!Keys[j]] = table[Acc!Keys[j]]
    <3>1. CASE j = key
      BY <1>6, <3>1 DEF k
    <3>2. CASE j # key
      <4>1. j \in 1 .. key - 1 /\ Acc!Keys[j] \in Acc!KeySet
        BY <1>3, <3>2, AccountKeys
      <4> QED
        BY <1>6, <2>1, <4>1
    <3> QED
      BY <3>1, <3>2
  <2>3. ASSUME key = 4 PROVE Whole(s.got)
    <3>1. /\ s.got["homeserver_url"] = table["homeserver_url"]
          /\ s.got["user_id"] = table["user_id"]
          /\ s.got["access_token"] = table["access_token"]
          /\ s.got["device_id"] = table["device_id"]
      BY <2>2, <2>3, AccountKeys
    <3> QED
      BY <1>2, <3>1 DEF StoresOK, Whole
  <2> QED
    BY <2>2, <2>3
<1> QED
  BY <1>8, <1>10, <1>11, <1>12, <1>13, AccKept

\* A process begins, and nobody is alone any longer but perhaps it.
LEMMA BeginsKeeps ==
  ASSUME AccInv, NEW p \in Procs, NEW new \in Process, Acc!Begins(p, new),
         core' = core, conf' = conf, table' = table, newest' = newest, stale' = stale,
         partial' = partial, torn' = torn, logins' \in 0 .. MaxLogins,
         InOrder(new.todo), Made(new.acc), new.at \in {"steps", "edit", "reading"},
         new.key = 1, ~new.beside,
         new.at # "steps" => new.todo = <<>>,
         new.todo # <<>> => new.acc.n # 0,
         Due(new.todo, "core") \/ ((stale \/ new.acc.n = newest) /\ (partial \/ new.acc.n = core.n))
           \/ ~Due(new.todo, "boot"),
         Due(new.todo, "main") => new.acc.device \in {0, new.acc.n},
         Due(new.todo, "all") => /\ Due(new.todo, "core") /\ Due(new.todo, "config")
                                 /\ Due(new.todo, "main")
  PROVE  AccInv'
<1> DEFINE s == [new EXCEPT !.alone = \A r \in Procs : proc[r] = Acc!NoProc]
           o(q) == [proc[q] EXCEPT !.alone = FALSE]
<1>1. /\ proc[p].at = "none" /\ begun < MaxBegun /\ begun' = begun + 1
      /\ proc' = [q \in Procs |-> IF q = p THEN s ELSE o(q)]
  BY DEF Acc!Begins
<1>2. AccTypes /\ StoresOK /\ proc \in [Procs -> Process] /\ begun' \in 0 .. MaxBegun
  BY <1>1, AccConstants DEF AccInv, AccTypes
<1>3. /\ s \in Process /\ s.at = new.at /\ s.todo = new.todo /\ s.acc = new.acc
      /\ s.key = 1 /\ ~s.beside /\ (s.alone => \A r \in Procs : proc[r] = Acc!NoProc)
  BY DEF Process
<1>4. \A q \in Procs : /\ o(q) \in Process /\ ~o(q).alone
                       /\ o(q).at = proc[q].at /\ o(q).todo = proc[q].todo
                       /\ o(q).acc = proc[q].acc /\ o(q).key = proc[q].key
                       /\ o(q).got = proc[q].got /\ o(q).old = proc[q].old
                       /\ o(q).beside = proc[q].beside
  BY <1>2 DEF Process
<1>5. \A q \in Procs : proc[q] = Acc!NoProc => o(q) = Acc!NoProc
  <2>1. Acc!NoProc.alone = FALSE
    BY DEF Acc!NoProc
  <2>2. ASSUME NEW x \in Process, x.alone = FALSE
        PROVE  [x EXCEPT !.alone = FALSE] = x
    BY <2>2 DEF Process
  <2> QED
    BY <1>2, <2>1, <2>2
<1> HIDE DEF s, o
<1>6. /\ proc' \in [Procs -> Process] /\ proc'[p] = s
      /\ \A q \in Procs : q # p => proc'[q] = o(q)
  BY <1>1, <1>3, <1>4
<1>7. partial' \/ (~partial /\ core'.n = core.n)
  BY <1>2 DEF AccTypes
<1>8. ASSUME NEW q \in Procs, q # p
      PROVE  WritesOK(q)' /\ MainOK(q)' /\ ReadOK(q)' /\ AloneOK(q)'
  <2>1. proc'[q] = o(q)
    BY <1>6, <1>8
  <2>2. proc[q].at = "none" => proc'[q] = Acc!NoProc
    BY <1>5, <2>1 DEF AccInv, WritesOK
  <2> QED
    BY <1>4, <1>7, <2>1, <2>2, OtherStays
<1>9. AccTypes'
  BY <1>2, <1>6, Zenon DEF AccTypes
<1>10. StoresOK'
  BY <1>2 DEF StoresOK, Made, Whole, Acc!LatestSession, Acc!StoresAgree, Acc!StatusNames
<1>11. WritesOK(p)'
  <2>1. /\ proc'[p].at = new.at /\ proc'[p].todo = new.todo /\ proc'[p].acc = new.acc
    BY <1>3, <1>6
  <2>2. \/ Due(new.todo, "core")
        \/ (stale' \/ new.acc.n = newest') /\ (partial' \/ new.acc.n = core'.n)
        \/ ~Due(new.todo, "boot")
    BY Zenon
  <2>3. Made(new.acc) /\ InOrder(new.todo)
    OBVIOUS
  <2> QED
    BY <2>1, <2>2, <2>3 DEF WritesOK
<1>12. MainOK(p)'
  <2>1. proc'[p].key = 1 /\ 1 \in 1 .. 4 /\ 1 .. 1 - 1 = {}
    BY <1>3, <1>6
  <2>2. Due(proc'[p].todo, "main") => proc'[p].acc.device \in {0, proc'[p].acc.n}
    BY <1>3, <1>6
  <2> QED
    BY <2>1, <2>2 DEF MainOK
<1>13. ReadOK(p)'
  BY <1>3, <1>6 DEF ReadOK
<1>14. AloneOK(p)'
  BY <1>3, <1>5, <1>6 DEF AloneOK
<1> QED
  BY <1>8, <1>9, <1>10, <1>11, <1>12, <1>13, <1>14, AccKept

\* A command that loads the session, or config.json, or is about to read the account.
LEMMA CommandKeeps ==
  ASSUME AccInv, NEW p \in Procs,
         \/ Acc!CoreCommand(p)
         \/ Acc!Serve(p)
         \/ Acc!LoadConfig(p)
         \/ Acc!LegacyCommand(p)
  PROVE  AccInv'
<1>1. /\ AccTypes /\ StoresOK /\ core \in Session /\ conf \in Session
      /\ logins \in 0 .. MaxLogins
  BY DEF AccInv, AccTypes
<1>2. /\ Made(core) /\ Made(conf) /\ Made(Acc!None)
      /\ stale \/ core.n = newest
  BY <1>1 DEF StoresOK, Acc!LatestSession, Made, Acc!None
<1>3. Acc!NoProc \in Process /\ Acc!None \in Session
  BY NoProcTyped
<1>4. /\ Acc!NoProc.key = 1 /\ ~Acc!NoProc.beside /\ Acc!NoProc.todo = <<>>
      /\ Acc!NoProc.acc = Acc!None /\ Acc!None.n = 0
  BY DEF Acc!NoProc, Acc!None
<1>5. /\ {"steps", "edit", "reading"} \subseteq Acc!Places
      /\ <<"boot">> \in Seq(Steps) /\ <<"boot", "serve">> \in Seq(Steps)
  BY Begun DEF Acc!Places
<1>6. CASE Acc!LoadConfig(p)
  <2> DEFINE new == [Acc!NoProc EXCEPT !.at = "edit", !.acc = conf]
  <2>1. /\ new \in Process /\ new.at = "edit" /\ new.todo = <<>> /\ new.acc = conf
        /\ new.key = 1 /\ ~new.beside
    BY <1>1, <1>3, <1>4, <1>5 DEF Process
  <2>2. /\ Acc!Begins(p, new) /\ core' = core /\ conf' = conf /\ table' = table
        /\ logins' = logins /\ newest' = newest /\ stale' = stale /\ partial' = partial
        /\ torn' = torn
    BY <1>6 DEF Acc!LoadConfig, Acc!history
  <2> HIDE DEF new
  <2> QED
    BY <1>1, <1>2, <2>1, <2>2, Begun, BeginsKeeps
<1>7. CASE Acc!LegacyCommand(p)
  <2> DEFINE new == [Acc!NoProc EXCEPT !.at = "reading"]
  <2>1. /\ new \in Process /\ new.at = "reading" /\ new.todo = <<>> /\ new.acc = Acc!None
        /\ new.key = 1 /\ ~new.beside
    BY <1>1, <1>3, <1>4, <1>5 DEF Process
  <2>2. /\ Acc!Begins(p, new) /\ core' = core /\ conf' = conf /\ table' = table
        /\ logins' = logins /\ newest' = newest /\ stale' = stale /\ partial' = partial
        /\ torn' = torn
    BY <1>7 DEF Acc!LegacyCommand, Acc!history
  <2> HIDE DEF new
  <2> QED
    BY <1>1, <1>2, <2>1, <2>2, Begun, BeginsKeeps
<1>8. CASE Acc!CoreCommand(p) \/ Acc!Serve(p)
  <2>1. PICK todo \in {<<"boot">>, <<"boot", "serve">>} : Acc!LoadSession(p, todo)
    BY <1>8 DEF Acc!CoreCommand, Acc!Serve
  <2> DEFINE new == [Acc!NoProc EXCEPT !.at = "steps", !.todo = todo, !.acc = core]
  <2>2. todo \in Seq(Steps) /\ InOrder(todo) /\ ~Due(todo, "main") /\ ~Due(todo, "all")
    <3>1. CASE todo = <<"boot">>
      BY <1>5, <3>1, Begun
    <3>2. CASE todo = <<"boot", "serve">>
      BY <1>5, <3>2, Begun
    <3> QED
      BY <3>1, <3>2
  <2>3. /\ new \in Process /\ new.at = "steps" /\ new.todo = todo /\ new.acc = core
        /\ new.key = 1 /\ ~new.beside
    <3> HIDE DEF Acc!NoProc
    <3> QED
      BY <1>1, <1>3, <1>4, <1>5, <2>2 DEF Process
  <2>4. /\ Acc!Begins(p, new) /\ core' = core /\ conf' = conf /\ table' = table
        /\ logins' = logins /\ newest' = newest /\ stale' = stale /\ partial' = partial
        /\ torn' = torn /\ core.n # 0
    BY <2>1 DEF Acc!LoadSession, Acc!history
  <2> HIDE DEF new
  <2>5. (stale \/ new.acc.n = newest) /\ (partial \/ new.acc.n = core.n)
    BY <1>2, <2>3
  <2> QED
    BY <1>1, <1>2, <2>2, <2>3, <2>4, <2>5, BeginsKeeps
<1> QED
  BY <1>6, <1>7, <1>8

\* A login succeeds; what it has to store differs.
LEMMA LoginKeeps ==
  ASSUME AccInv, NEW p \in Procs, NEW named \in BOOLEAN,
         NEW todo \in {<<"core", "config", "main", "boot", "all">>,
                       <<"core", "config", "boot">>, <<"config", "main">>, <<"config">>},
         Acc!Login(p, todo, named)
  PROVE  AccInv'
<1> DEFINE acc == [n |-> logins + 1, device |-> IF named THEN logins + 1 ELSE 0]
           new == [Acc!NoProc EXCEPT !.at = "steps", !.todo = todo, !.acc = acc]
<1>1. /\ Acc!Begins(p, new) /\ core' = core /\ conf' = conf /\ table' = table
      /\ logins < MaxLogins /\ logins' = logins + 1
      /\ newest' = newest /\ stale' = stale /\ partial' = partial /\ torn' = torn
  BY DEF Acc!Login, Acc!history
<1>2. logins \in 0 .. MaxLogins
  BY DEF AccInv, AccTypes
<1>3. logins + 1 \in 0 .. MaxLogins /\ logins + 1 # 0
  BY <1>1, <1>2, AccConstants
<1>4. /\ acc \in Session /\ acc.n # 0 /\ acc.device \in {0, acc.n} /\ Made(acc)
  BY <1>3 DEF Session, Made
<1>5. /\ todo \in Seq(Steps) /\ InOrder(todo)
      /\ Due(todo, "all") => Due(todo, "core") /\ Due(todo, "config") /\ Due(todo, "main")
      /\ Due(todo, "boot") => Due(todo, "core")
  <2>1. CASE todo = <<"core", "config", "main", "boot", "all">>
    BY <2>1, Begun
  <2>2. CASE todo = <<"core", "config", "boot">>
    BY <2>2, Begun
  <2>3. CASE todo = <<"config", "main">>
    BY <2>3, Begun
  <2>4. CASE todo = <<"config">>
    BY <2>4, Begun
  <2> QED
    BY <2>1, <2>2, <2>3, <2>4
<1>6. /\ new \in Process /\ new.at = "steps" /\ new.todo = todo /\ new.acc = acc
      /\ new.key = 1 /\ ~new.beside
  <2> HIDE DEF acc
  <2>1. Acc!NoProc \in Process /\ Acc!NoProc.key = 1 /\ ~Acc!NoProc.beside
    BY NoProcTyped DEF Acc!NoProc
  <2> QED
    BY <1>4, <1>5, <2>1 DEF Process, Acc!Places
<1> HIDE DEF acc, new
<1>7. logins' \in 0 .. MaxLogins
  BY <1>1, <1>3
<1>8. new.at \in {"steps", "edit", "reading"} /\ new.at = "steps"
  BY <1>6
<1>9. Due(new.todo, "core") \/ ~Due(new.todo, "boot")
  BY <1>5, <1>6
<1> QED
  BY <1>1, <1>4, <1>5, <1>6, <1>7, <1>8, <1>9, BeginsKeeps

\* Whatever the processes do.
LEMMA AccStep ==
  ASSUME AccInv, Acc!Next
  PROVE  AccInv'
<1> PICK p \in Procs :
      \/ Acc!LoginAccessToken(p) \/ Acc!LoginSso(p) \/ Acc!LoginPassword(p) \/ Acc!Register(p)
      \/ Acc!LoginToken(p) \/ Acc!Setup(p) \/ Acc!LoginTui(p)
      \/ Acc!PersistLogin(p) \/ Acc!SaveConfig(p) \/ Acc!SaveAccount(p)
      \/ Acc!Bootstrap(p) \/ Acc!ServeBegins(p) \/ Acc!Finish(p)
      \/ Acc!CoreCommand(p) \/ Acc!Serve(p) \/ Acc!ServeLogin(p)
      \/ Acc!LoadConfig(p) \/ Acc!SaveSetting(p) \/ Acc!LegacyCommand(p) \/ Acc!LoadAccount(p)
      \/ Acc!Ends(p)
  BY DEF Acc!Next
<1>1. CASE \/ Acc!LoginAccessToken(p) \/ Acc!LoginSso(p) \/ Acc!LoginPassword(p)
           \/ Acc!Register(p) \/ Acc!LoginToken(p) \/ Acc!Setup(p) \/ Acc!LoginTui(p)
  <2>1. \E named \in BOOLEAN,
           todo \in {<<"core", "config", "main", "boot", "all">>, <<"core", "config", "boot">>,
                     <<"config", "main">>, <<"config">>} : Acc!Login(p, todo, named)
    BY <1>1, Zenon DEF Acc!LoginAccessToken, Acc!LoginSso, Acc!LoginPassword, Acc!Register,
       Acc!LoginToken, Acc!Setup, Acc!LoginTui
  <2> QED
    BY <2>1, LoginKeeps
<1>2. CASE Acc!PersistLogin(p) \/ Acc!SaveConfig(p) \/ Acc!SaveAccount(p)
  BY <1>2, PersistLoginKeeps, SaveConfigKeeps, SaveAccountKeeps
<1>3. CASE Acc!Bootstrap(p) \/ Acc!ServeBegins(p) \/ Acc!ServeLogin(p) \/ Acc!LoadAccount(p)
  BY <1>3, BootstrapKeeps, ServeBeginsKeeps, ServeLoginKeeps, LoadAccountKeeps
<1>4. CASE Acc!Finish(p) \/ Acc!SaveSetting(p) \/ Acc!Ends(p)
  BY <1>4, EndsKeeps
<1>5. CASE Acc!CoreCommand(p) \/ Acc!Serve(p) \/ Acc!LoadConfig(p) \/ Acc!LegacyCommand(p)
  BY <1>5, CommandKeeps
<1> QED
  BY <1>1, <1>2, <1>3, <1>4, <1>5

\* Nothing moves the logins but their own steps.
LEMMA AccStays ==
  ASSUME AccInv, UNCHANGED accVars
  PROVE  AccInv'
<1>1. /\ core' = core /\ conf' = conf /\ table' = table /\ proc' = proc /\ logins' = logins
      /\ begun' = begun /\ newest' = newest /\ stale' = stale /\ partial' = partial
      /\ torn' = torn
  BY DEF accVars
<1>2. AccTypes' /\ StoresOK'
  BY <1>1 DEF AccInv, AccTypes, StoresOK, Acc!LatestSession, Acc!StoresAgree, Acc!StatusNames
<1>3. \A p \in Procs : WritesOK(p)' /\ MainOK(p)' /\ ReadOK(p)' /\ AloneOK(p)'
  BY <1>1, ZenonT(60) DEF AccInv, WritesOK, MainOK, ReadOK, AloneOK, Acc!Value
<1> QED
  BY <1>2, <1>3 DEF AccInv

-----------------------------------------------------------------------------
(* In the behaviours of all the parts.                                     *)

\* The inductive invariant, while the part is the logins.
LoginsInv == part = "acc" => AccInv

\* The stored logins are as they should be, whatever the processes do.
THEOREM LoginsInvHolds == Spec => []LoginsInv
<1>1. Init => LoginsInv
  BY AccBegins DEF Init, LoginsInv
<1>2. LoginsInv /\ [Next]_vars => LoginsInv'
  <2> SUFFICES ASSUME LoginsInv, [Next]_vars
               PROVE  LoginsInv'
    OBVIOUS
  <2>1. CASE UNCHANGED vars
    <3>1. UNCHANGED part /\ UNCHANGED accVars
      BY <2>1 DEF vars
    <3> QED
      BY <3>1, AccStays DEF LoginsInv
  <2>2. CASE Next
    <3>1. UNCHANGED part /\ (part = "acc" => Acc!Next)
      BY <2>2 DEF Next
    <3> QED
      BY <3>1, AccStep DEF LoginsInv
  <2> QED
    BY <2>1, <2>2
<1> QED
  BY <1>1, <1>2, PTL DEF Spec

\* An older command acts with the homeserver, the token, the user and the device of one
\* login unless it read beside a writer; the commands of the core act as the last login
\* unless an old session was written back; and after a login with a token that nobody came
\* beside every store names it - for any number of processes, killed anywhere.
THEOREM LoginsAgree == Spec => [](part = "acc" => StoreConsistent)
<1>1. LoginsInv /\ part = "acc" => StoreConsistent
  BY AccConsistent DEF LoginsInv, StoreConsistent
<1> QED
  BY <1>1, LoginsInvHolds, PTL

\* The stores and the processes keep their types.
THEOREM LoginsTyped == Spec => [](part = "acc" => TypeOK)
<1>1. LoginsInv /\ part = "acc" => TypeOK
  BY AccConsistent DEF LoginsInv, TypeOK
<1> QED
  BY <1>1, LoginsInvHolds, PTL

=============================================================================
