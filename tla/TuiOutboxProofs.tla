-------------------------- MODULE TuiOutboxProofs ---------------------------
(***************************************************************************)
(* Proofs about TuiOutbox for every number of rooms, messages, retries and *)
(* events of a reply: the queue that the two threads share stays           *)
(* consistent, and the outbox keeps the promise of Outbox.                 *)
(***************************************************************************)
EXTENDS TuiOutbox, SequenceTheorems, FiniteSetTheorems, WellFoundedInduction, TLAPS

\* What an entry of a room's queue is: a message and its counted failures.
QEntry == Messages \X (0 .. MaxRetry)

-----------------------------------------------------------------------------
(* The inductive invariant.                                                *)

\* No two entries of the queue q are for the same message.
NoTwin(q) ==
    \A r, s \in Rooms : \A i \in 1 .. Len(q[r]) : \A j \in 1 .. Len(q[s]) :
        q[r][i][1] = q[s][j][1] => r = s /\ i = j

\* The failures counted in the entries of q are the requests tried[m] made for
\* their messages; one more is on its way for the entry at a.
Counted(q, tried, a) ==
    \A r \in Rooms : \A i \in 1 .. Len(q[r]) :
        tried[q[r][i][1]] = 1 + q[r][i][2] + (IF a = <<r, i>> THEN 1 ELSE 0)

\* QueueKeepsOrder, of the queue q.
Ordered(q) ==
    \A r \in Rooms : \A i, j \in 1 .. Len(q[r]) :
        i < j => q[r][i][1] < q[r][j][1] /\ q[r][i][2] >= q[r][j][2]

\* A pass over q that has come to position i of room r has failed for every
\* entry it left behind in that room, so those have one failure more.
Ahead(q, r, i) ==
    \A k, j \in 1 .. Len(q[r]) : k < i /\ i <= j => q[r][k][2] > q[r][j][2]

InQueue(q, m) == \E r \in Rooms : \E i \in 1 .. Len(q[r]) : q[r][i][1] = m

InCallback == ui \in {"send", "typing", "queueing"}

\* The message in the send callback is the newest one, tried once so far.
UiInv ==
    /\ InCallback => /\ hand.msg \in Messages /\ hand.room \in Rooms
                     /\ hand.msg = composed
                     /\ attempts[hand.msg] = 1
    /\ ~InCallback => hand = Nobody
    /\ ui = "gone" => sync = "ended"

\* The sync thread stands at an entry exactly while it holds the lock.
SyncInv ==
    /\ sync = "flush" => /\ at[1] \in Rooms /\ at[2] \in 1 .. Len(queue[at[1]])
                         /\ Ahead(queue, at[1], at[2])
    /\ sync # "flush" => at = Nowhere
    /\ sync \in {"event", "flush", "show"} => left > 0

\* Where each message is.
Placed ==
    \A m \in Messages :
        /\ m > composed => outcome[m] = "open" /\ ~InQueue(queue, m)
        /\ hand.msg = m => outcome[m] = "open" /\ ~InQueue(queue, m)
        /\ InQueue(queue, m) => outcome[m] = "open"
        /\ m <= composed =>
                InQueue(queue, m) \/ hand.msg = m \/ outcome[m] # "open"

IInv ==
    /\ TypeOK
    /\ UiInv
    /\ SyncInv
    /\ NoTwin(queue)
    /\ Counted(queue, attempts, at)
    /\ Ordered(queue)
    /\ Placed

-----------------------------------------------------------------------------
(* The queue's operators.                                                  *)

\* A set of naturals that is not empty has a least element.
LEMMA LeastNatural ==
  ASSUME NEW T \in SUBSET Nat, T # {}
  PROVE  \E x \in T : \A y \in T : x <= y
<1>1. PICK x \in T : \A y \in T : <<y, x>> \notin OpToRel(<, Nat)
  BY NatLessThanWellFounded, WFMin
<1>2. \A y \in T : ~(y < x)
  BY <1>1 DEF OpToRel
<1> QED
  BY <1>2

\* An entry read from a queue.
LEMMA EntryRead ==
  ASSUME NEW q \in [Rooms -> Seq(QEntry)], NEW r \in Rooms,
         NEW i \in 1 .. Len(q[r])
  PROVE  /\ q[r] \in Seq(QEntry) /\ Len(q[r]) \in Nat
         /\ q[r][i] \in QEntry
         /\ q[r][i][1] \in Messages /\ q[r][i][1] \in Nat
         /\ q[r][i][2] \in 0 .. MaxRetry
<1>1. q[r] \in Seq(QEntry)
  OBVIOUS
<1>2. Len(q[r]) \in Nat
  BY <1>1, LenProperties
<1>3. q[r][i] \in QEntry
  BY <1>1, ElementOfSeq
<1> QED
  BY <1>1, <1>2, <1>3, OutboxAssumption DEF QEntry, Messages

\* Erasing an entry moves those behind it up by one.
LEMMA Erased ==
  ASSUME NEW S, NEW s \in Seq(S), NEW i \in 1 .. Len(s)
  PROVE  /\ RemoveAt(s, i) \in Seq(S)
         /\ Len(RemoveAt(s, i)) = Len(s) - 1
         /\ \A k \in 1 .. Len(s) - 1 :
                RemoveAt(s, i)[k] = IF k < i THEN s[k] ELSE s[k + 1]
<1>1. Len(s) \in Nat /\ \A k \in 1 .. Len(s) : s[k] \in S
  BY LenProperties, ElementOfSeq
<1> DEFINE a == SubSeq(s, 1, i - 1)
           b == SubSeq(s, i + 1, Len(s))
<1>2. /\ a \in Seq(S) /\ Len(a) = i - 1
      /\ \A k \in 1 .. i - 1 : a[k] = s[k]
  <2>1. /\ a \in Seq(S) /\ Len(a) = (IF 1 <= i - 1 THEN (i - 1) - 1 + 1 ELSE 0)
        /\ \A k \in 1 .. (i - 1) - 1 + 1 : a[k] = s[1 + k - 1]
    <3>1. \A k \in 1 .. i - 1 : s[k] \in S
      BY <1>1
    <3>2. 1 \in Int /\ i - 1 \in Int
      OBVIOUS
    <3> QED
      BY <3>1, <3>2, SubSeqProperties
  <2> QED
    BY <2>1, <1>1
<1>3. /\ b \in Seq(S) /\ Len(b) = Len(s) - i
      /\ \A k \in 1 .. Len(s) - i : b[k] = s[i + k]
  <2>1. /\ b \in Seq(S)
        /\ Len(b) = (IF i + 1 <= Len(s) THEN Len(s) - (i + 1) + 1 ELSE 0)
        /\ \A k \in 1 .. Len(s) - (i + 1) + 1 : b[k] = s[(i + 1) + k - 1]
    <3>1. \A k \in i + 1 .. Len(s) : s[k] \in S
      BY <1>1
    <3>2. i + 1 \in Int /\ Len(s) \in Int
      BY <1>1
    <3> QED
      BY <3>1, <3>2, SubSeqProperties
  <2> QED
    BY <2>1, <1>1
<1>4. RemoveAt(s, i) = a \o b
  BY DEF RemoveAt
<1>5. /\ a \o b \in Seq(S)
      /\ Len(a \o b) = Len(a) + Len(b)
      /\ \A k \in 1 .. Len(a) + Len(b) :
            (a \o b)[k] = IF k <= Len(a) THEN a[k] ELSE b[k - Len(a)]
  <2> HIDE DEF a, b
  <2> QED
    BY <1>2, <1>3, ConcatProperties
<1> HIDE DEF a, b
<1>6. \A k \in 1 .. Len(s) - 1 :
         (a \o b)[k] = IF k < i THEN s[k] ELSE s[k + 1]
  <2> SUFFICES ASSUME NEW k \in 1 .. Len(s) - 1
               PROVE  (a \o b)[k] = IF k < i THEN s[k] ELSE s[k + 1]
    OBVIOUS
  <2>1. k \in 1 .. Len(a) + Len(b)
    BY <1>1, <1>2, <1>3
  <2>2. CASE k < i
    <3>1. k <= Len(a) /\ k \in 1 .. i - 1
      BY <1>1, <1>2, <2>2
    <3> QED
      BY <1>2, <1>5, <2>1, <2>2, <3>1
  <2>3. CASE ~(k < i)
    <3>1. ~(k <= Len(a)) /\ k - Len(a) \in 1 .. Len(s) - i
      BY <1>1, <1>2, <2>3
    <3>2. i + (k - Len(a)) = k + 1
      BY <1>1, <1>2
    <3> QED
      BY <1>3, <1>5, <2>1, <2>3, <3>1, <3>2
  <2> QED
    BY <2>2, <2>3
<1> QED
  BY <1>1, <1>2, <1>3, <1>4, <1>5, <1>6

\* The pass over the queue goes on at the position it has come to, or else at
\* the first entry of a later room.
LEMMA NextEntry ==
  ASSUME NEW q \in [Rooms -> Seq(QEntry)], NEW r \in Rooms,
         NEW i \in 1 .. Len(q[r]) + 1, From(q, r, i) # {}
  PROVE  \E s \in Rooms : \E j \in 1 .. Len(q[s]) :
            /\ Least(From(q, r, i)) = <<s, j>>
            /\ (s = r /\ j = i) \/ (s > r /\ j = 1)
<1> DEFINE F == From(q, r, i)
<1>1. \A s \in Rooms : s \in Nat /\ Len(q[s]) \in Nat
  BY LenProperties, OutboxAssumption DEF Rooms
<1>2. \A s \in Rooms : \A j \in 1 .. Len(q[s]) :
         <<s, j>> \in F <=> s > r \/ (s = r /\ j >= i)
  BY DEF From
<1>3. \A e \in F : \E s \in Rooms : \E j \in 1 .. Len(q[s]) : e = <<s, j>>
  BY DEF From
<1> HIDE DEF F
<1> DEFINE Before(e, f) == e[1] < f[1] \/ (e[1] = f[1] /\ e[2] <= f[2])
<1>4. ASSUME NEW s \in Rooms, NEW j \in 1 .. Len(q[s]), <<s, j>> \in F,
             \A f \in F : Before(<<s, j>>, f)
      PROVE  Least(F) = <<s, j>>
  <2>1. \A e \in F : (\A f \in F : Before(e, f)) => e = <<s, j>>
    <3> SUFFICES ASSUME NEW e \in F, \A f \in F : Before(e, f)
                 PROVE  e = <<s, j>>
      OBVIOUS
    <3>1. PICK t \in Rooms : \E k \in 1 .. Len(q[t]) : e = <<t, k>>
      BY <1>3
    <3>2. PICK k \in 1 .. Len(q[t]) : e = <<t, k>>
      BY <3>1
    <3>3. Before(<<s, j>>, <<t, k>>) /\ Before(<<t, k>>, <<s, j>>)
      BY <1>4, <3>2
    <3> QED
      BY <3>2, <3>3, <1>1
  <2> QED
    BY <1>4, <2>1 DEF Least
<1>5. CASE i <= Len(q[r])
  <2>1. <<r, i>> \in F
    BY <1>1, <1>2, <1>5
  <2>2. \A f \in F : Before(<<r, i>>, f)
    BY <1>1, <1>2, <1>3
  <2> QED
    BY <1>1, <1>4, <1>5, <2>1, <2>2 DEF F
<1>6. CASE ~(i <= Len(q[r]))
  <2> DEFINE T == {s \in Rooms : s > r /\ Len(q[s]) > 0}
  <2>1. T # {}
    <3>1. PICK e \in F : TRUE
      BY DEF F
    <3>2. PICK s \in Rooms : \E j \in 1 .. Len(q[s]) : e = <<s, j>>
      BY <1>3
    <3>3. PICK j \in 1 .. Len(q[s]) : e = <<s, j>>
      BY <3>2
    <3> QED
      BY <3>3, <1>1, <1>2, <1>6
  <2>2. PICK s \in T : \A t \in T : s <= t
    <3>1. T \in SUBSET Nat
      BY <1>1
    <3> QED
      BY <2>1, <3>1, LeastNatural
  <2>3. 1 \in 1 .. Len(q[s]) /\ <<s, 1>> \in F
    BY <1>1, <1>2
  <2>4. \A f \in F : Before(<<s, 1>>, f)
    <3> SUFFICES ASSUME NEW f \in F PROVE Before(<<s, 1>>, f)
      OBVIOUS
    <3>1. PICK t \in Rooms : \E k \in 1 .. Len(q[t]) : f = <<t, k>>
      BY <1>3
    <3>2. PICK k \in 1 .. Len(q[t]) : f = <<t, k>>
      BY <3>1
    <3>3. t \in T
      BY <1>1, <1>2, <1>6, <3>2
    <3> QED
      BY <1>1, <2>2, <3>2, <3>3
  <2> QED
    BY <1>4, <2>2, <2>3, <2>4 DEF F
<1> QED
  BY <1>5, <1>6

\* What FlushFrom does to a queue whose counters agree with the requests: it
\* comes to one entry and makes one request for it, or it leaves the queue.
LEMMA FlushFromCounts ==
  ASSUME attempts \in [Messages -> 0 .. MaxRetry + 2],
         NEW q \in [Rooms -> Seq(QEntry)],
         NEW r \in Rooms, NEW i \in 1 .. Len(q[r]) + 1,
         NoTwin(q), Counted(q, attempts, Nowhere), Ahead(q, r, i),
         FlushFrom(q, r, i)
  PROVE  \/ /\ queue' = q /\ sync' = "show" /\ at' = Nowhere
            /\ attempts' = attempts
            /\ Counted(q, attempts', at')
         \/ \E s \in Rooms : \E j \in 1 .. Len(q[s]) :
            /\ queue' = q /\ sync' = "flush" /\ at' = <<s, j>>
            /\ Ahead(q, s, j)
            /\ q[s][j][1] \in Messages
            /\ attempts[q[s][j][1]] \in 1 .. MaxRetry + 1
            /\ attempts' = [attempts EXCEPT ![q[s][j][1]] = @ + 1]
            /\ Counted(q, attempts', at')
<1>1. CASE From(q, r, i) = {}
  <2>1. queue' = q /\ sync' = "show" /\ at' = Nowhere /\ attempts' = attempts
    BY <1>1 DEF FlushFrom
  <2> QED
    BY <2>1
<1>2. CASE From(q, r, i) # {}
  <2>0. PICK s \in Rooms : \E j \in 1 .. Len(q[s]) :
            /\ Least(From(q, r, i)) = <<s, j>>
            /\ (s = r /\ j = i) \/ (s > r /\ j = 1)
    BY <1>2, NextEntry
  <2>1. PICK j \in 1 .. Len(q[s]) :
            /\ Least(From(q, r, i)) = <<s, j>>
            /\ (s = r /\ j = i) \/ (s > r /\ j = 1)
    BY <2>0
  <2>2. /\ queue' = q /\ sync' = "flush" /\ at' = <<s, j>>
        /\ attempts' = [attempts EXCEPT ![q[at'[1]][at'[2]][1]] = @ + 1]
    BY <1>2, <2>1 DEF FlushFrom
  <2> DEFINE n == q[s][j][1]
  <2>3. n \in Messages /\ q[s][j][2] \in 0 .. MaxRetry /\ Len(q[s]) \in Nat
    BY EntryRead
  <2>4. attempts' = [attempts EXCEPT ![n] = @ + 1]
    BY <2>2
  <2>5. attempts[n] = 1 + q[s][j][2]
    <3>1. <<s, j>> # Nowhere
      BY OutboxAssumption DEF Nowhere, Rooms
    <3> QED
      BY <3>1, <2>3 DEF Counted
  <2>6. attempts[n] \in 1 .. MaxRetry + 1
    BY <2>3, <2>5, OutboxAssumption, SMTT(30)
  <2>7. Ahead(q, s, j)
    <3>1. CASE s = r /\ j = i
      BY <3>1
    <3>2. CASE j = 1
      BY <3>2 DEF Ahead
    <3> QED
      BY <2>1, <3>1, <3>2
  <2>8. Counted(q, attempts', at')
    <3> SUFFICES ASSUME NEW t \in Rooms, NEW k \in 1 .. Len(q[t])
                 PROVE  attempts'[q[t][k][1]] =
                            1 + q[t][k][2] + (IF at' = <<t, k>> THEN 1 ELSE 0)
      BY DEF Counted
    <3>1. q[t][k][1] \in Messages /\ q[t][k][2] \in 0 .. MaxRetry
      BY EntryRead
    <3>2. attempts[q[t][k][1]] = 1 + q[t][k][2]
      <4>1. <<t, k>> # Nowhere
        BY OutboxAssumption DEF Nowhere, Rooms
      <4> QED
        BY <4>1, <3>1 DEF Counted
    <3>3. CASE t = s /\ k = j
      BY <2>2, <2>3, <2>4, <2>5, <3>1, <3>3
    <3>4. CASE ~(t = s /\ k = j)
      <4>1. q[t][k][1] # n
        BY <3>4 DEF NoTwin
      <4>2. at' # <<t, k>>
        BY <2>2, <3>4
      <4>3. attempts'[q[t][k][1]] = attempts[q[t][k][1]]
        BY <2>3, <2>4, <3>1, <4>1
      <4> QED
        BY <3>1, <3>2, <4>2, <4>3
    <3> QED
      BY <3>3, <3>4
  <2> HIDE DEF n
  <2>9. n = q[s][j][1]
    BY DEF n
  <2> QED
    BY <2>2, <2>3, <2>4, <2>6, <2>7, <2>8, <2>9
<1> QED
  BY <1>1, <1>2

-----------------------------------------------------------------------------
(* Type correctness and the invariant, action by action.                   *)

\* One part of a pass over the queue: the queue becomes q, where some messages
\* may have left it, each settled; then the pass goes on from position i of
\* room r.
LEMMA PassKeeps ==
  ASSUME IInv, sync \in {"event", "flush"},
         NEW q \in [Rooms -> Seq(QEntry)],
         NEW r \in Rooms, NEW i \in 1 .. Len(q[r]) + 1,
         NoTwin(q), Ordered(q), Counted(q, attempts, Nowhere), Ahead(q, r, i),
         FlushFrom(q, r, i),
         UNCHANGED <<ui, hand, left, syncing, composed, accepted>>,
         outcome' \in [Messages -> {"open", "confirmed", "abandoned"}],
         \A m \in Messages :
            /\ InQueue(q, m) => InQueue(queue, m) /\ outcome'[m] = outcome[m]
            /\ InQueue(queue, m) /\ ~InQueue(q, m) => outcome'[m] # "open"
            /\ ~InQueue(queue, m) => outcome'[m] = outcome[m]
  PROVE  IInv'
<1>1. attempts \in [Messages -> 0 .. MaxRetry + 2]
  BY DEF IInv, TypeOK
<1>2. \/ /\ queue' = q /\ sync' = "show" /\ at' = Nowhere
         /\ attempts' = attempts
         /\ Counted(q, attempts', at')
      \/ \E s \in Rooms : \E j \in 1 .. Len(q[s]) :
         /\ queue' = q /\ sync' = "flush" /\ at' = <<s, j>>
         /\ Ahead(q, s, j)
         /\ q[s][j][1] \in Messages
         /\ attempts[q[s][j][1]] \in 1 .. MaxRetry + 1
         /\ attempts' = [attempts EXCEPT ![q[s][j][1]] = @ + 1]
         /\ Counted(q, attempts', at')
  BY <1>1, FlushFromCounts
<1>3. queue' = q /\ sync' \in {"show", "flush"} /\ Counted(q, attempts', at')
  BY <1>2
<1>4. TypeOK'
  <2>1. queue' \in [Rooms -> Seq(Messages \X (0 .. MaxRetry))]
    BY <1>3 DEF QEntry
  <2>2. at' \in (0 .. NumRooms) \X Nat
    <3>1. Nowhere \in (0 .. NumRooms) \X Nat
      BY OutboxAssumption DEF Nowhere
    <3>2. ASSUME NEW s \in Rooms, NEW j \in 1 .. Len(q[s])
          PROVE  <<s, j>> \in (0 .. NumRooms) \X Nat
      BY EntryRead, OutboxAssumption DEF Rooms
    <3> QED
      BY <1>2, <3>1, <3>2
  <2>3. attempts' \in [Messages -> 0 .. MaxRetry + 2]
    <3>1. ASSUME NEW n \in Messages, attempts[n] \in 1 .. MaxRetry + 1
          PROVE  [attempts EXCEPT ![n] = @ + 1] \in [Messages -> 0 .. MaxRetry + 2]
      <4>1. attempts[n] + 1 \in 0 .. MaxRetry + 2
        BY <3>1, OutboxAssumption
      <4> QED
        BY <1>1, <4>1
    <3> QED
      BY <1>1, <1>2, <3>1
  <2> QED
    BY <1>3, <2>1, <2>2, <2>3 DEF IInv, TypeOK
<1>5. UiInv'
  <2>1. hand' = hand /\ ui' = ui /\ composed' = composed
    OBVIOUS
  <2>2. ui # "gone"
    BY DEF IInv, UiInv
  <2>3. CASE InCallback
    <3>1. hand.msg \in Messages /\ hand.room \in Rooms /\ hand.msg = composed
          /\ attempts[hand.msg] = 1
      BY <2>3 DEF IInv, UiInv
    <3>2. ~InQueue(queue, hand.msg)
      BY <3>1 DEF IInv, Placed
    <3>3. ~InQueue(q, hand.msg)
      BY <3>1, <3>2
    <3>4. attempts'[hand.msg] = 1
      <4>1. ASSUME NEW s \in Rooms, NEW j \in 1 .. Len(q[s])
            PROVE  q[s][j][1] # hand.msg
        BY <3>3 DEF InQueue
      <4> QED
        BY <1>1, <1>2, <3>1, <4>1
    <3> QED
      BY <2>1, <2>2, <2>3, <3>1, <3>4 DEF UiInv, InCallback
  <2>4. CASE ~InCallback
    BY <2>1, <2>2, <2>4 DEF IInv, UiInv, InCallback
  <2> QED
    BY <2>3, <2>4
<1>6. SyncInv'
  <2>1. left' > 0
    BY DEF IInv, SyncInv
  <2>2. ASSUME NEW s \in Rooms, NEW j \in 1 .. Len(q[s]), at' = <<s, j>>,
               Ahead(q, s, j)
        PROVE  /\ at'[1] \in Rooms /\ at'[2] \in 1 .. Len(q[at'[1]])
               /\ Ahead(q, at'[1], at'[2])
    BY <2>2
  <2>3. sync' = "flush" => /\ at'[1] \in Rooms /\ at'[2] \in 1 .. Len(q[at'[1]])
                           /\ Ahead(q, at'[1], at'[2])
    BY <1>2, <2>2
  <2>4. sync' # "flush" => at' = Nowhere
    BY <1>2
  <2> QED
    BY <1>3, <2>1, <2>3, <2>4 DEF SyncInv, Ahead
<1>7. NoTwin(queue)' /\ Counted(queue, attempts, at)' /\ Ordered(queue)'
  BY <1>3, SMTT(30) DEF NoTwin, Counted, Ordered
<1>8. Placed'
  <2> SUFFICES ASSUME NEW m \in Messages
               PROVE  /\ m > composed => outcome'[m] = "open" /\ ~InQueue(q, m)
                      /\ hand.msg = m => outcome'[m] = "open" /\ ~InQueue(q, m)
                      /\ InQueue(q, m) => outcome'[m] = "open"
                      /\ m <= composed =>
                            InQueue(q, m) \/ hand.msg = m \/ outcome'[m] # "open"
    <3>1. hand' = hand /\ composed' = composed /\ queue' = q
      BY <1>3
    <3>2. \A m \in Messages : InQueue(queue', m) <=> InQueue(q, m)
      BY <3>1
    <3>3. \A m \in Messages : InQueue(queue, m)' <=> InQueue(queue', m)
      BY DEF InQueue
    <3> QED
      BY <3>1, <3>2, <3>3 DEF Placed
  <2>1. /\ m > composed => outcome[m] = "open" /\ ~InQueue(queue, m)
        /\ hand.msg = m => outcome[m] = "open" /\ ~InQueue(queue, m)
        /\ InQueue(queue, m) => outcome[m] = "open"
        /\ m <= composed =>
                InQueue(queue, m) \/ hand.msg = m \/ outcome[m] # "open"
    BY DEF IInv, Placed
  <2>2. /\ InQueue(q, m) => InQueue(queue, m) /\ outcome'[m] = outcome[m]
        /\ InQueue(queue, m) /\ ~InQueue(q, m) => outcome'[m] # "open"
        /\ ~InQueue(queue, m) => outcome'[m] = outcome[m]
    OBVIOUS
  <2> QED
    BY <2>1, <2>2
<1> QED
  BY <1>4, <1>5, <1>6, <1>7, <1>8 DEF IInv

\* The entry the sync thread is sending.
LEMMA EntryInFlight ==
  ASSUME IInv, sync = "flush"
  PROVE  /\ at[1] \in Rooms /\ at[2] \in 1 .. Len(queue[at[1]])
         /\ at = <<at[1], at[2]>> /\ at[1] \in Nat /\ at[2] \in Nat
         /\ queue \in [Rooms -> Seq(QEntry)]
         /\ Entry \in QEntry /\ Entry[1] \in Messages
         /\ Entry[2] \in 0 .. MaxRetry
         /\ outcome[Entry[1]] = "open"
         /\ attempts[Entry[1]] = 2 + Entry[2]
         /\ Entry[1] <= composed /\ hand.msg # Entry[1]
         /\ ui # "gone"
<1>1. /\ at[1] \in Rooms /\ at[2] \in 1 .. Len(queue[at[1]])
      /\ at = <<at[1], at[2]>> /\ at[1] \in Nat /\ at[2] \in Nat
      /\ queue \in [Rooms -> Seq(QEntry)]
  BY OutboxAssumption DEF IInv, TypeOK, SyncInv, QEntry, Rooms
<1>2. Entry \in QEntry /\ Entry[1] \in Messages /\ Entry[2] \in 0 .. MaxRetry
  BY <1>1, EntryRead DEF Entry
<1>3. InQueue(queue, Entry[1])
  BY <1>1 DEF InQueue, Entry
<1>4. Entry[1] \in Nat /\ composed \in Nat
  BY <1>2, OutboxAssumption DEF IInv, TypeOK, Messages
<1>5. outcome[Entry[1]] = "open" /\ Entry[1] <= composed /\ hand.msg # Entry[1]
  BY <1>2, <1>3, <1>4 DEF IInv, Placed
<1>6. attempts[Entry[1]] = 1 + Entry[2] + 1
  <2>1. attempts[queue[at[1]][at[2]][1]] = 1 + queue[at[1]][at[2]][2]
            + (IF at = <<at[1], at[2]>> THEN 1 ELSE 0)
    BY <1>1 DEF IInv, Counted
  <2> QED
    BY <1>1, <2>1 DEF Entry
<1>7. attempts[Entry[1]] = 2 + Entry[2]
  BY <1>2, <1>6, OutboxAssumption
<1> QED
  BY <1>1, <1>2, <1>5, <1>7 DEF IInv, UiInv

\* The queue once the entry being sent is erased: what is behind it moves up,
\* its message is in no other entry, and the rest is as it was.
LEMMA WithoutEntryKeeps ==
  ASSUME IInv, sync = "flush"
  PROVE  /\ WithoutEntry \in [Rooms -> Seq(QEntry)]
         /\ at[2] \in 1 .. Len(WithoutEntry[at[1]]) + 1
         /\ NoTwin(WithoutEntry)
         /\ Ordered(WithoutEntry)
         /\ Counted(WithoutEntry, attempts, Nowhere)
         /\ Ahead(WithoutEntry, at[1], at[2])
         /\ \A m \in Messages :
                InQueue(WithoutEntry, m) <=> InQueue(queue, m) /\ m # Entry[1]
<1> DEFINE r == at[1]
           i == at[2]
           q == WithoutEntry
           Old(s, k) == IF s = r /\ k >= i THEN k + 1 ELSE k
<1>1. /\ r \in Rooms /\ i \in 1 .. Len(queue[r])
      /\ at = <<r, i>> /\ r \in Nat /\ i \in Nat
      /\ queue \in [Rooms -> Seq(QEntry)]
  BY EntryInFlight
<1>2. /\ RemoveAt(queue[r], i) \in Seq(QEntry)
      /\ Len(RemoveAt(queue[r], i)) = Len(queue[r]) - 1
      /\ \A k \in 1 .. Len(queue[r]) - 1 :
            RemoveAt(queue[r], i)[k] =
                IF k < i THEN queue[r][k] ELSE queue[r][k + 1]
  BY <1>1, Erased
<1>3. q \in [Rooms -> Seq(QEntry)]
  BY <1>1, <1>2 DEF WithoutEntry
<1>4. \A s \in Rooms : Len(queue[s]) \in Nat /\ Len(q[s]) \in Nat
  BY <1>1, <1>3, LenProperties
<1>5. Len(q[r]) = Len(queue[r]) - 1
  BY <1>1, <1>2 DEF WithoutEntry
<1>6. i \in 1 .. Len(q[r]) + 1
  BY <1>1, <1>4, <1>5
<1>7. ASSUME NEW s \in Rooms, NEW k \in 1 .. Len(q[s])
      PROVE  /\ Old(s, k) \in 1 .. Len(queue[s])
             /\ q[s][k] = queue[s][Old(s, k)]
             /\ <<s, Old(s, k)>> # at
  <2>1. CASE s = r
    <3>1. k \in 1 .. Len(queue[r]) - 1
      BY <1>5, <2>1
    <3>2. q[s][k] = IF k < i THEN queue[r][k] ELSE queue[r][k + 1]
      BY <1>1, <1>2, <2>1, <3>1 DEF WithoutEntry
    <3>3. k + 1 \in 1 .. Len(queue[r]) /\ k \in 1 .. Len(queue[r])
      BY <1>1, <1>4, <3>1
    <3> QED
      BY <1>1, <2>1, <3>2, <3>3
  <2>2. CASE s # r
    <3>1. q[s] = queue[s]
      BY <1>1, <2>2 DEF WithoutEntry
    <3> QED
      BY <1>1, <2>2, <3>1
  <2> QED
    BY <2>1, <2>2
<1>8. ASSUME NEW s \in Rooms, NEW k \in 1 .. Len(queue[s]), <<s, k>> # at
      PROVE  \E p \in 1 .. Len(q[s]) : q[s][p] = queue[s][k]
  <2>1. CASE s = r
    <3>1. k # i
      BY <1>1, <1>8, <2>1
    <3>2. CASE k < i
      <4>1. k \in 1 .. Len(q[s]) /\ k \in 1 .. Len(queue[r]) - 1
        BY <1>1, <1>4, <1>5, <2>1, <3>2
      <4> QED
        BY <1>1, <1>2, <2>1, <3>2, <4>1 DEF WithoutEntry
    <3>3. CASE k > i
      <4>1. /\ k - 1 \in 1 .. Len(q[s]) /\ k - 1 \in 1 .. Len(queue[r]) - 1
            /\ ~(k - 1 < i) /\ (k - 1) + 1 = k
        BY <1>1, <1>4, <1>5, <2>1, <3>3
      <4>2. q[s][k - 1] = queue[r][(k - 1) + 1]
        BY <1>1, <1>2, <2>1, <4>1 DEF WithoutEntry
      <4> QED
        BY <2>1, <4>1, <4>2
    <3> QED
      BY <1>1, <3>1, <3>2, <3>3
  <2>2. CASE s # r
    BY <1>1, <2>2 DEF WithoutEntry
  <2> QED
    BY <2>1, <2>2
<1> HIDE DEF q
<1>9. NoTwin(q)
  <2> SUFFICES ASSUME NEW s \in Rooms, NEW t \in Rooms,
                      NEW j \in 1 .. Len(q[s]), NEW k \in 1 .. Len(q[t]),
                      q[s][j][1] = q[t][k][1]
               PROVE  s = t /\ j = k
    BY DEF NoTwin
  <2>1. s = t /\ Old(s, j) = Old(t, k)
    <3>1. NoTwin(queue)
      BY DEF IInv
    <3>2. /\ Old(s, j) \in 1 .. Len(queue[s]) /\ q[s][j] = queue[s][Old(s, j)]
          /\ Old(t, k) \in 1 .. Len(queue[t]) /\ q[t][k] = queue[t][Old(t, k)]
      BY <1>7
    <3> HIDE DEF Old
    <3> QED
      BY <3>1, <3>2 DEF NoTwin
  <2> QED
    BY <1>1, <1>4, <2>1
<1>10. Ordered(q)
  <2> SUFFICES ASSUME NEW s \in Rooms,
                      NEW j \in 1 .. Len(q[s]), NEW k \in 1 .. Len(q[s]), j < k
               PROVE  q[s][j][1] < q[s][k][1] /\ q[s][j][2] >= q[s][k][2]
    BY DEF Ordered
  <2>1. Old(s, j) < Old(s, k)
    BY <1>1, <1>4
  <2>2. Ordered(queue)
    BY DEF IInv
  <2> HIDE DEF Old
  <2> QED
    BY <1>7, <2>1, <2>2 DEF Ordered
<1>11. Counted(q, attempts, Nowhere)
  <2> SUFFICES ASSUME NEW s \in Rooms, NEW k \in 1 .. Len(q[s])
               PROVE  attempts[q[s][k][1]] =
                        1 + q[s][k][2] + (IF Nowhere = <<s, k>> THEN 1 ELSE 0)
    BY DEF Counted
  <2>1. Nowhere # <<s, k>>
    BY OutboxAssumption DEF Nowhere, Rooms
  <2>2. Counted(queue, attempts, at)
    BY DEF IInv
  <2>3. at # <<s, Old(s, k)>>
    BY <1>7
  <2> HIDE DEF Old
  <2> QED
    BY <1>7, <2>1, <2>2, <2>3 DEF Counted
<1>12. Ahead(q, r, i)
  <2> SUFFICES ASSUME NEW k \in 1 .. Len(q[r]), NEW j \in 1 .. Len(q[r]),
                      k < i, i <= j
               PROVE  q[r][k][2] > q[r][j][2]
    BY DEF Ahead
  <2>1. Ahead(queue, r, i)
    BY DEF IInv, SyncInv
  <2>2. Old(r, k) < i /\ i <= Old(r, j)
    BY <1>1, <1>4
  <2>3. /\ Old(r, k) \in 1 .. Len(queue[r]) /\ q[r][k] = queue[r][Old(r, k)]
        /\ Old(r, j) \in 1 .. Len(queue[r]) /\ q[r][j] = queue[r][Old(r, j)]
    BY <1>1, <1>7
  <2> HIDE DEF Old, r, i
  <2> QED
    BY <2>1, <2>2, <2>3 DEF Ahead
<1>13. ASSUME NEW m \in Messages
       PROVE  InQueue(q, m) <=> InQueue(queue, m) /\ m # Entry[1]
  <2>1. ASSUME InQueue(q, m)
        PROVE  InQueue(queue, m) /\ m # Entry[1]
    <3>1. PICK s \in Rooms : \E k \in 1 .. Len(q[s]) : q[s][k][1] = m
      BY <2>1 DEF InQueue
    <3>2. PICK k \in 1 .. Len(q[s]) : q[s][k][1] = m
      BY <3>1
    <3>3. /\ Old(s, k) \in 1 .. Len(queue[s]) /\ queue[s][Old(s, k)][1] = m
          /\ <<s, Old(s, k)>> # at
      BY <1>7, <3>2
    <3>4. NoTwin(queue)
      BY DEF IInv
    <3> HIDE DEF Old
    <3>5. m # Entry[1]
      BY <1>1, <3>3, <3>4 DEF NoTwin, Entry
    <3> QED
      BY <3>3, <3>5 DEF InQueue
  <2>2. ASSUME InQueue(queue, m), m # Entry[1]
        PROVE  InQueue(q, m)
    <3>1. PICK s \in Rooms : \E k \in 1 .. Len(queue[s]) : queue[s][k][1] = m
      BY <2>2 DEF InQueue
    <3>2. PICK k \in 1 .. Len(queue[s]) : queue[s][k][1] = m
      BY <3>1
    <3>3. <<s, k>> # at
      BY <2>2, <3>2 DEF Entry
    <3> QED
      BY <1>8, <3>2, <3>3 DEF InQueue
  <2> QED
    BY <2>1, <2>2
<1> QED
  BY <1>3, <1>6, <1>9, <1>10, <1>11, <1>12, <1>13 DEF q

\* The queue once the entry being sent has failed and stays.
FailedEntry == [queue EXCEPT ![at[1]][at[2]][2] = @ + 1]

\* Only that entry's failures change, and what precedes it in its room has
\* still failed no less often.
LEMMA FailedEntryKeeps ==
  ASSUME IInv, sync = "flush", Entry[2] + 1 <= MaxRetry
  PROVE  /\ FailedEntry \in [Rooms -> Seq(QEntry)]
         /\ at[2] + 1 \in 1 .. Len(FailedEntry[at[1]]) + 1
         /\ NoTwin(FailedEntry)
         /\ Ordered(FailedEntry)
         /\ Counted(FailedEntry, attempts, Nowhere)
         /\ Ahead(FailedEntry, at[1], at[2] + 1)
         /\ \A m \in Messages : InQueue(FailedEntry, m) <=> InQueue(queue, m)
<1> DEFINE r == at[1]
           i == at[2]
           q == FailedEntry
           e == <<Entry[1], Entry[2] + 1>>
<1>1. /\ r \in Rooms /\ i \in 1 .. Len(queue[r])
      /\ at = <<r, i>> /\ r \in Nat /\ i \in Nat
      /\ queue \in [Rooms -> Seq(QEntry)]
      /\ Entry \in QEntry /\ Entry[1] \in Messages /\ Entry[2] \in 0 .. MaxRetry
  BY EntryInFlight
<1>2. e \in QEntry
  BY <1>1, OutboxAssumption DEF QEntry
<1>3. [Entry EXCEPT ![2] = @ + 1] = e
  BY <1>1 DEF QEntry
<1>4. q = [queue EXCEPT ![r] = [queue[r] EXCEPT ![i] = e]]
  BY <1>1, <1>3 DEF FailedEntry, Entry
<1>5. queue[r] \in Seq(QEntry)
  BY <1>1
<1>6. /\ [queue[r] EXCEPT ![i] = e] \in Seq(QEntry)
      /\ Len([queue[r] EXCEPT ![i] = e]) = Len(queue[r])
      /\ \A k \in 1 .. Len(queue[r]) :
            [queue[r] EXCEPT ![i] = e][k] = IF k = i THEN e ELSE queue[r][k]
  BY <1>1, <1>2, <1>5, ExceptSeq
<1> HIDE DEF e, q
<1>7. q \in [Rooms -> Seq(QEntry)]
  BY <1>1, <1>4, <1>6
<1>8. ASSUME NEW s \in Rooms
      PROVE  /\ Len(q[s]) = Len(queue[s]) /\ Len(q[s]) \in Nat
             /\ \A k \in 1 .. Len(q[s]) :
                    q[s][k] = IF <<s, k>> = at THEN e ELSE queue[s][k]
  <2>1. Len(q[s]) \in Nat
    BY <1>7, LenProperties
  <2>2. CASE s = r
    BY <1>1, <1>4, <1>6, <2>1, <2>2
  <2>3. CASE s # r
    BY <1>1, <1>4, <2>1, <2>3
  <2> QED
    BY <2>2, <2>3
<1>9. ASSUME NEW s \in Rooms, NEW k \in 1 .. Len(q[s])
      PROVE  /\ k \in 1 .. Len(queue[s])
             /\ q[s][k][1] = queue[s][k][1]
             /\ q[s][k][2] = queue[s][k][2] + (IF <<s, k>> = at THEN 1 ELSE 0)
             /\ queue[s][k][1] \in Nat /\ queue[s][k][1] \in Messages
             /\ queue[s][k][2] \in 0 .. MaxRetry
             /\ Len(queue[s]) \in Nat
  <2>1. k \in 1 .. Len(queue[s])
    BY <1>8
  <2>2. /\ queue[s][k][1] \in Nat /\ queue[s][k][1] \in Messages
        /\ queue[s][k][2] \in 0 .. MaxRetry /\ Len(queue[s]) \in Nat
    BY <1>1, <2>1, EntryRead
  <2>3. CASE <<s, k>> = at
    <3>1. s = r /\ k = i /\ q[s][k] = e
      BY <1>1, <1>8, <2>3
    <3>2. queue[s][k] = Entry
      BY <3>1 DEF Entry
    <3> QED
      BY <2>1, <2>2, <2>3, <3>1, <3>2 DEF e
  <2>4. CASE <<s, k>> # at
    <3>1. q[s][k] = queue[s][k]
      BY <1>8, <2>4
    <3> QED
      BY <2>1, <2>2, <2>4, <3>1, OutboxAssumption
  <2> QED
    BY <2>3, <2>4
<1>10. i + 1 \in 1 .. Len(q[r]) + 1
  BY <1>1, <1>8
<1>11. NoTwin(q)
  <2>1. NoTwin(queue)
    BY DEF IInv
  <2> QED
    BY <1>9, <2>1 DEF NoTwin
<1>12. Ordered(q)
  <2> SUFFICES ASSUME NEW s \in Rooms,
                      NEW j \in 1 .. Len(q[s]), NEW k \in 1 .. Len(q[s]), j < k
               PROVE  q[s][j][1] < q[s][k][1] /\ q[s][j][2] >= q[s][k][2]
    BY DEF Ordered
  <2>1. /\ j \in 1 .. Len(queue[s]) /\ k \in 1 .. Len(queue[s])
        /\ q[s][j][1] = queue[s][j][1] /\ q[s][k][1] = queue[s][k][1]
        /\ q[s][j][2] = queue[s][j][2] + (IF <<s, j>> = at THEN 1 ELSE 0)
        /\ q[s][k][2] = queue[s][k][2] + (IF <<s, k>> = at THEN 1 ELSE 0)
        /\ queue[s][j][2] \in 0 .. MaxRetry /\ queue[s][k][2] \in 0 .. MaxRetry
    BY <1>9
  <2>2. queue[s][j][1] < queue[s][k][1] /\ queue[s][j][2] >= queue[s][k][2]
    <3>1. Ordered(queue)
      BY DEF IInv
    <3> QED
      BY <2>1, <3>1 DEF Ordered
  <2>3. CASE <<s, k>> = at
    <3>1. s = r /\ k = i /\ j < i /\ i <= k /\ <<s, j>> # at
      BY <1>1, <2>3
    <3>2. queue[s][j][2] > queue[s][k][2]
      <4>1. Ahead(queue, r, i)
        BY DEF IInv, SyncInv
      <4> HIDE DEF r, i
      <4> QED
        BY <2>1, <3>1, <4>1 DEF Ahead
    <3> QED
      BY <2>1, <2>2, <2>3, <3>1, <3>2, OutboxAssumption, SMTT(30)
  <2>4. CASE <<s, k>> # at
    BY <2>1, <2>2, <2>4, OutboxAssumption
  <2> QED
    BY <2>3, <2>4
<1>13. Counted(q, attempts, Nowhere)
  <2> SUFFICES ASSUME NEW s \in Rooms, NEW k \in 1 .. Len(q[s])
               PROVE  attempts[q[s][k][1]] =
                        1 + q[s][k][2] + (IF Nowhere = <<s, k>> THEN 1 ELSE 0)
    BY DEF Counted
  <2>1. Nowhere # <<s, k>>
    BY OutboxAssumption DEF Nowhere, Rooms
  <2>2. Counted(queue, attempts, at)
    BY DEF IInv
  <2>3. attempts[queue[s][k][1]] =
            1 + queue[s][k][2] + (IF at = <<s, k>> THEN 1 ELSE 0)
    BY <1>9, <2>2 DEF Counted
  <2> QED
    BY <1>9, <2>1, <2>3, OutboxAssumption, SMTT(30)
<1>14. Ahead(q, r, i + 1)
  <2> SUFFICES ASSUME NEW k \in 1 .. Len(q[r]), NEW j \in 1 .. Len(q[r]),
                      k < i + 1, i + 1 <= j
               PROVE  q[r][k][2] > q[r][j][2]
    BY DEF Ahead
  <2>1. /\ k \in 1 .. Len(queue[r]) /\ j \in 1 .. Len(queue[r])
        /\ q[r][k][2] = queue[r][k][2] + (IF <<r, k>> = at THEN 1 ELSE 0)
        /\ q[r][j][2] = queue[r][j][2] + (IF <<r, j>> = at THEN 1 ELSE 0)
        /\ queue[r][k][2] \in 0 .. MaxRetry /\ queue[r][j][2] \in 0 .. MaxRetry
    BY <1>1, <1>9
  <2>2. k <= i /\ i <= j /\ k < j /\ <<r, j>> # at
    BY <1>1
  <2>3. CASE k = i
    <3>1. queue[r][k][2] >= queue[r][j][2]
      <4>1. Ordered(queue)
        BY DEF IInv
      <4> QED
        BY <1>1, <2>1, <2>2, <4>1 DEF Ordered
    <3> QED
      BY <1>1, <2>1, <2>2, <2>3, <3>1, OutboxAssumption, SMTT(30)
  <2>4. CASE k # i
    <3>1. k < i /\ <<r, k>> # at
      BY <1>1, <2>2, <2>4
    <3>2. queue[r][k][2] > queue[r][j][2]
      <4>1. Ahead(queue, r, i)
        BY DEF IInv, SyncInv
      <4> HIDE DEF r, i
      <4> QED
        BY <2>1, <2>2, <3>1, <4>1 DEF Ahead
    <3> QED
      BY <2>1, <2>2, <3>1, <3>2, OutboxAssumption, SMTT(30)
  <2> QED
    BY <2>3, <2>4
<1>15. \A m \in Messages : InQueue(q, m) <=> InQueue(queue, m)
  BY <1>8, <1>9, SMTT(30) DEF InQueue
<1> QED
  BY <1>7, <1>10, <1>11, <1>12, <1>13, <1>14, <1>15 DEF q

\* An entry that leaves the queue, settled in one way or the other.
LEMMA SettledKeeps ==
  ASSUME IInv, sync = "flush", FlushFrom(WithoutEntry, at[1], at[2]),
         NEW how \in {"confirmed", "abandoned"},
         outcome' = [outcome EXCEPT ![Entry[1]] = how],
         UNCHANGED <<ui, hand, left, syncing, composed, accepted>>
  PROVE  IInv'
<1>1. at[1] \in Rooms /\ Entry[1] \in Messages
  BY EntryInFlight
<1>2. outcome \in [Messages -> {"open", "confirmed", "abandoned"}]
  BY DEF IInv, TypeOK
<1>3. outcome' \in [Messages -> {"open", "confirmed", "abandoned"}]
  BY <1>1, <1>2
<1>4. InQueue(queue, Entry[1])
  BY EntryInFlight DEF InQueue, Entry
<1>5. \A m \in Messages :
            /\ InQueue(WithoutEntry, m) => InQueue(queue, m) /\ outcome'[m] = outcome[m]
            /\ InQueue(queue, m) /\ ~InQueue(WithoutEntry, m) => outcome'[m] # "open"
            /\ ~InQueue(queue, m) => outcome'[m] = outcome[m]
  <2> SUFFICES ASSUME NEW m \in Messages
               PROVE  /\ InQueue(WithoutEntry, m) =>
                            InQueue(queue, m) /\ outcome'[m] = outcome[m]
                      /\ InQueue(queue, m) /\ ~InQueue(WithoutEntry, m) =>
                            outcome'[m] # "open"
                      /\ ~InQueue(queue, m) => outcome'[m] = outcome[m]
    OBVIOUS
  <2>1. InQueue(WithoutEntry, m) <=> InQueue(queue, m) /\ m # Entry[1]
    BY WithoutEntryKeeps
  <2>2. outcome'[m] = IF m = Entry[1] THEN how ELSE outcome[m]
    BY <1>1, <1>2
  <2> QED
    BY <1>4, <2>1, <2>2
<1>6. /\ WithoutEntry \in [Rooms -> Seq(QEntry)]
      /\ at[2] \in 1 .. Len(WithoutEntry[at[1]]) + 1
      /\ NoTwin(WithoutEntry) /\ Ordered(WithoutEntry)
      /\ Counted(WithoutEntry, attempts, Nowhere)
      /\ Ahead(WithoutEntry, at[1], at[2])
  BY WithoutEntryKeeps
<1>7. sync \in {"event", "flush"}
  OBVIOUS
<1> DEFINE q == WithoutEntry
           r == at[1]
           i == at[2]
<1>8. q \in [Rooms -> Seq(QEntry)] /\ r \in Rooms /\ i \in 1 .. Len(q[r]) + 1
  BY <1>1, <1>6
<1>9. /\ NoTwin(q) /\ Ordered(q) /\ Counted(q, attempts, Nowhere) /\ Ahead(q, r, i)
      /\ FlushFrom(q, r, i)
  BY <1>6
<1>10. \A m \in Messages :
            /\ InQueue(q, m) => InQueue(queue, m) /\ outcome'[m] = outcome[m]
            /\ InQueue(queue, m) /\ ~InQueue(q, m) => outcome'[m] # "open"
            /\ ~InQueue(queue, m) => outcome'[m] = outcome[m]
  BY <1>5
<1> HIDE DEF q, r, i
<1> QED
  BY <1>3, <1>7, <1>8, <1>9, <1>10, PassKeeps

LEMMA FlushOkKeepsInv == ASSUME IInv, FlushOk PROVE IInv'
BY SettledKeeps DEF FlushOk

LEMMA FlushFailsKeepsInv == ASSUME IInv, FlushFails PROVE IInv'
<1>1. sync = "flush" /\ UNCHANGED <<ui, hand, left, syncing, composed, accepted>>
  BY DEF FlushFails
<1>2. CASE /\ FlushFrom(WithoutEntry, at[1], at[2])
           /\ outcome' = [outcome EXCEPT ![Entry[1]] = "abandoned"]
  BY <1>1, <1>2, SettledKeeps
<1>3. CASE /\ Entry[2] + 1 <= MaxRetry
           /\ FlushFrom(FailedEntry, at[1], at[2] + 1)
           /\ outcome' = outcome
  <2> DEFINE q == FailedEntry
             r == at[1]
             i == at[2] + 1
  <2>1. /\ q \in [Rooms -> Seq(QEntry)] /\ r \in Rooms /\ i \in 1 .. Len(q[r]) + 1
        /\ NoTwin(q) /\ Ordered(q) /\ Counted(q, attempts, Nowhere)
        /\ Ahead(q, r, i) /\ FlushFrom(q, r, i)
    BY <1>1, <1>3, FailedEntryKeeps, EntryInFlight
  <2>2. \A m \in Messages : InQueue(q, m) <=> InQueue(queue, m)
    BY <1>1, <1>3, FailedEntryKeeps
  <2> HIDE DEF q, r, i
  <2>3. \A m \in Messages :
            /\ InQueue(q, m) => InQueue(queue, m) /\ outcome'[m] = outcome[m]
            /\ InQueue(queue, m) /\ ~InQueue(q, m) => outcome'[m] # "open"
            /\ ~InQueue(queue, m) => outcome'[m] = outcome[m]
    BY <1>3, <2>2
  <2>4. outcome' \in [Messages -> {"open", "confirmed", "abandoned"}]
    BY <1>3 DEF IInv, TypeOK
  <2>5. sync \in {"event", "flush"}
    BY <1>1
  <2> QED
    BY <1>1, <2>1, <2>3, <2>4, <2>5, PassKeeps
<1> QED
  BY <1>2, <1>3 DEF FlushFails, FailedEntry

LEMMA StartFlushKeepsInv == ASSUME IInv, StartFlush PROVE IInv'
<1>1. /\ sync = "event" /\ FlushFrom(queue, 1, 1)
      /\ UNCHANGED <<ui, hand, left, syncing, composed, accepted>>
      /\ outcome' = outcome
  BY DEF StartFlush
<1>2. queue \in [Rooms -> Seq(QEntry)] /\ 1 \in Rooms
  BY OutboxAssumption DEF IInv, TypeOK, QEntry, Rooms
<1>3. 1 \in 1 .. Len(queue[1]) + 1 /\ Ahead(queue, 1, 1)
  BY <1>2, LenProperties DEF Ahead
<1>4. NoTwin(queue) /\ Ordered(queue) /\ Counted(queue, attempts, Nowhere)
  BY <1>1 DEF IInv, SyncInv
<1>5. outcome' \in [Messages -> {"open", "confirmed", "abandoned"}]
  BY <1>1 DEF IInv, TypeOK
<1> DEFINE r == 1
           i == 1
<1>6. /\ r \in Rooms /\ i \in 1 .. Len(queue[r]) + 1
      /\ Ahead(queue, r, i) /\ FlushFrom(queue, r, i)
  BY <1>1, <1>2, <1>3
<1> HIDE DEF r, i
<1> QED
  BY <1>1, <1>2, <1>4, <1>5, <1>6, PassKeeps

\* A new message goes into the send callback; its room's queue is not touched.
LEMMA ComposeKeepsInv ==
  ASSUME IInv, NEW r \in Rooms, Compose(r)
  PROVE  IInv'
<1> DEFINE n == composed + 1
<1>1. /\ ui = "idle" /\ composed < MaxMessages /\ composed' = n
      /\ ui' = "send" /\ hand' = [msg |-> n, room |-> r]
      /\ attempts' = [attempts EXCEPT ![n] = 1]
      /\ queue' = queue /\ sync' = sync /\ at' = at /\ left' = left
      /\ syncing' = syncing /\ accepted' = accepted /\ outcome' = outcome
  BY DEF Compose
<1>2. composed \in Nat /\ n \in Messages /\ n \in 0 .. MaxMessages /\ n > composed
      /\ \A m \in Messages : m \in Nat
  BY <1>1, OutboxAssumption DEF IInv, TypeOK, Messages
<1>3. ~InQueue(queue, n) /\ outcome[n] = "open"
  BY <1>2 DEF IInv, Placed
<1>4. /\ attempts' \in [Messages -> 0 .. MaxRetry + 2]
      /\ attempts'[n] = 1
      /\ \A m \in Messages : m # n => attempts'[m] = attempts[m]
  BY <1>1, <1>2, OutboxAssumption DEF IInv, TypeOK
<1> HIDE DEF n
<1>5. TypeOK'
  <2>1. hand' \in [msg : 0 .. MaxMessages, room : 0 .. NumRooms]
    BY <1>1, <1>2, OutboxAssumption DEF Rooms
  <2> QED
    BY <1>1, <1>2, <1>4, <2>1 DEF IInv, TypeOK
<1>6. UiInv'
  BY <1>1, <1>2, <1>4 DEF UiInv, InCallback
<1>7. SyncInv' /\ NoTwin(queue)' /\ Ordered(queue)'
  BY <1>1 DEF IInv, SyncInv, NoTwin, Ordered, Ahead
<1>8. Counted(queue, attempts, at)'
  <2> SUFFICES ASSUME NEW s \in Rooms, NEW k \in 1 .. Len(queue[s])
               PROVE  attempts'[queue[s][k][1]] =
                        1 + queue[s][k][2] + (IF at = <<s, k>> THEN 1 ELSE 0)
    BY <1>1 DEF Counted
  <2>1. queue[s][k][1] # n
    BY <1>3 DEF InQueue
  <2>2. queue[s][k][1] \in Messages
    BY EntryRead DEF IInv, TypeOK, QEntry
  <2> QED
    BY <1>4, <2>1, <2>2 DEF IInv, Counted
<1>9. Placed'
  <2> SUFFICES ASSUME NEW m \in Messages
               PROVE  /\ m > n => outcome[m] = "open" /\ ~InQueue(queue, m)
                      /\ n = m => outcome[m] = "open" /\ ~InQueue(queue, m)
                      /\ InQueue(queue, m) => outcome[m] = "open"
                      /\ m <= n =>
                            InQueue(queue, m) \/ n = m \/ outcome[m] # "open"
    BY <1>1 DEF Placed, InQueue
  <2>1. /\ m > composed => outcome[m] = "open" /\ ~InQueue(queue, m)
        /\ InQueue(queue, m) => outcome[m] = "open"
        /\ m <= composed =>
                InQueue(queue, m) \/ hand.msg = m \/ outcome[m] # "open"
    BY DEF IInv, Placed
  <2>2. hand.msg # m
    BY <1>1, <1>2, OutboxAssumption DEF IInv, UiInv, InCallback, Nobody, Messages
  <2> QED
    BY <1>2, <1>3, <2>1, <2>2 DEF n
<1> QED
  BY <1>5, <1>6, <1>7, <1>8, <1>9 DEF IInv

\* The callback returns without an exception.
LEMMA CallbackReturnsKeepsInv ==
  ASSUME IInv, ui \in {"send", "typing"}, CallbackReturns,
         UNCHANGED <<queue, sync, at, left, syncing, composed, attempts, accepted>>
  PROVE  IInv'
<1>1. /\ ui' = "idle" /\ hand' = Nobody
      /\ outcome' = [outcome EXCEPT ![hand.msg] = "confirmed"]
      /\ queue' = queue /\ sync' = sync /\ at' = at /\ left' = left
      /\ syncing' = syncing /\ accepted' = accepted /\ attempts' = attempts
      /\ composed' = composed
  BY DEF CallbackReturns
<1>2. /\ hand.msg \in Messages /\ hand.msg = composed
      /\ \A m \in Messages : m \in Nat /\ m > 0
      /\ composed \in Nat
  BY OutboxAssumption DEF IInv, UiInv, InCallback, TypeOK, Messages
<1>3. TypeOK'
  <2>1. Nobody \in [msg : 0 .. MaxMessages, room : 0 .. NumRooms]
    BY OutboxAssumption DEF Nobody
  <2> QED
    BY <1>1, <1>2, <2>1 DEF IInv, TypeOK
<1>4. UiInv' /\ SyncInv' /\ NoTwin(queue)' /\ Ordered(queue)'
      /\ Counted(queue, attempts, at)'
  BY <1>1, SMTT(30) DEF IInv, UiInv, InCallback, SyncInv, NoTwin, Ordered, Ahead, Counted
<1>5. Placed'
  <2> SUFFICES ASSUME NEW m \in Messages
               PROVE  /\ m > composed => outcome'[m] = "open" /\ ~InQueue(queue, m)
                      /\ InQueue(queue, m) => outcome'[m] = "open"
                      /\ m <= composed => InQueue(queue, m) \/ outcome'[m] # "open"
    <3>1. \A x \in Messages : Nobody.msg # x
      BY <1>2 DEF Nobody
    <3> QED
      BY <1>1, <3>1 DEF Placed, InQueue
  <2>1. /\ m > composed => outcome[m] = "open" /\ ~InQueue(queue, m)
        /\ hand.msg = m => ~InQueue(queue, m)
        /\ InQueue(queue, m) => outcome[m] = "open"
        /\ m <= composed =>
                InQueue(queue, m) \/ hand.msg = m \/ outcome[m] # "open"
    BY DEF IInv, Placed
  <2>2. outcome'[m] = IF m = hand.msg THEN "confirmed" ELSE outcome[m]
    BY <1>1, <1>2 DEF IInv, TypeOK
  <2> QED
    BY <1>2, <2>1, <2>2
<1> QED
  BY <1>3, <1>4, <1>5 DEF IInv

\* The failed message goes to the end of its room's queue; every message queued
\* there is older, and none has been sent by a pass that is still under way.
LEMMA EnqueueKeepsInv ==
  ASSUME IInv, Enqueue
  PROVE  IInv'
<1> DEFINE r == hand.room
           n == hand.msg
           e == <<n, 0>>
<1>1. /\ ui = "queueing" /\ sync # "flush"
      /\ queue' = [queue EXCEPT ![r] = Append(@, e)]
      /\ ui' = "idle" /\ hand' = Nobody
      /\ sync' = sync /\ at' = at /\ left' = left /\ syncing' = syncing
      /\ composed' = composed /\ attempts' = attempts /\ accepted' = accepted
      /\ outcome' = outcome
  BY DEF Enqueue
<1>2. /\ n \in Messages /\ r \in Rooms /\ n = composed /\ attempts[n] = 1
      /\ at = Nowhere /\ queue \in [Rooms -> Seq(QEntry)]
      /\ \A m \in Messages : m \in Nat /\ m > 0
  BY <1>1, OutboxAssumption, SMTT(30)
     DEF IInv, UiInv, SyncInv, InCallback, TypeOK, QEntry, Messages
<1>3. outcome[n] = "open" /\ ~InQueue(queue, n)
  BY <1>2 DEF IInv, Placed
<1>4. e \in QEntry /\ e[1] = n /\ e[2] = 0
  BY <1>2, OutboxAssumption DEF QEntry
<1>5. /\ Append(queue[r], e) \in Seq(QEntry)
      /\ Len(Append(queue[r], e)) = Len(queue[r]) + 1
      /\ \A k \in 1 .. Len(queue[r]) : Append(queue[r], e)[k] = queue[r][k]
      /\ Append(queue[r], e)[Len(queue[r]) + 1] = e
  BY <1>2, <1>4, AppendProperties
<1>6. queue' \in [Rooms -> Seq(QEntry)]
  BY <1>1, <1>2, <1>5
<1> HIDE DEF e, n, r
<1>7. \A s \in Rooms : Len(queue[s]) \in Nat /\ Len(queue'[s]) \in Nat
  BY <1>2, <1>6, LenProperties
<1>8. ASSUME NEW s \in Rooms, NEW k \in 1 .. Len(queue'[s])
      PROVE  \/ /\ k \in 1 .. Len(queue[s]) /\ queue'[s][k] = queue[s][k]
                /\ queue[s][k][1] \in Messages /\ queue[s][k][1] < n
                /\ queue[s][k][2] \in 0 .. MaxRetry
             \/ s = r /\ k = Len(queue[s]) + 1 /\ queue'[s][k] = e
  <2>1. ASSUME k \in 1 .. Len(queue[s])
        PROVE  /\ queue[s][k][1] \in Messages /\ queue[s][k][1] < n
               /\ queue[s][k][2] \in 0 .. MaxRetry
    <3>1. queue[s][k][1] \in Messages /\ queue[s][k][2] \in 0 .. MaxRetry
      BY <1>2, <2>1, EntryRead
    <3>2. InQueue(queue, queue[s][k][1])
      BY <2>1 DEF InQueue
    <3>3. ~(queue[s][k][1] > composed)
      BY <3>1, <3>2 DEF IInv, Placed
    <3>4. queue[s][k][1] # n
      BY <1>3, <3>2
    <3> QED
      BY <1>2, <3>1, <3>3, <3>4
  <2>2. CASE s = r
    <3>1. queue'[s] = Append(queue[r], e)
      BY <1>1, <1>2, <2>2
    <3>2. k \in 1 .. Len(queue[s]) \/ k = Len(queue[s]) + 1
      BY <1>5, <1>7, <2>2, <3>1
    <3> QED
      BY <1>5, <2>1, <2>2, <3>1, <3>2
  <2>3. CASE s # r
    <3>1. queue'[s] = queue[s]
      BY <1>1, <1>2, <2>3
    <3> QED
      BY <2>1, <2>3, <3>1
  <2> QED
    BY <2>2, <2>3
<1>9. \A m \in Messages : InQueue(queue', m) <=> InQueue(queue, m) \/ m = n
  <2>1. \A s \in Rooms : \A k \in 1 .. Len(queue[s]) :
            k \in 1 .. Len(queue'[s]) /\ queue'[s][k] = queue[s][k]
    BY <1>1, <1>2, <1>5, <1>7
  <2>2. /\ Len(queue[r]) + 1 \in 1 .. Len(queue'[r])
        /\ queue'[r][Len(queue[r]) + 1] = e
    BY <1>1, <1>2, <1>5, <1>7
  <2> SUFFICES ASSUME NEW m \in Messages
               PROVE  InQueue(queue', m) <=> InQueue(queue, m) \/ m = n
    OBVIOUS
  <2>3. InQueue(queue', m) => InQueue(queue, m) \/ m = n
    <3>1. ASSUME NEW s \in Rooms, NEW k \in 1 .. Len(queue'[s]),
                 queue'[s][k][1] = m
          PROVE  InQueue(queue, m) \/ m = n
      BY <1>4, <1>8, <3>1 DEF InQueue
    <3> QED
      BY <3>1 DEF InQueue
  <2>4. InQueue(queue, m) => InQueue(queue', m)
    BY <2>1 DEF InQueue
  <2>5. m = n => InQueue(queue', m)
    BY <1>2, <1>4, <2>2 DEF InQueue
  <2> QED
    BY <2>3, <2>4, <2>5
<1>10. TypeOK'
  <2>1. Nobody \in [msg : 0 .. MaxMessages, room : 0 .. NumRooms]
    BY OutboxAssumption DEF Nobody
  <2> QED
    BY <1>1, <1>6, <2>1 DEF IInv, TypeOK, QEntry
<1>11. UiInv' /\ SyncInv'
  BY <1>1 DEF IInv, UiInv, InCallback, SyncInv
<1>12. NoTwin(queue')
  <2> SUFFICES ASSUME NEW s \in Rooms, NEW t \in Rooms,
                      NEW j \in 1 .. Len(queue'[s]), NEW k \in 1 .. Len(queue'[t]),
                      queue'[s][j][1] = queue'[t][k][1]
               PROVE  s = t /\ j = k
    BY DEF NoTwin
  <2>1. NoTwin(queue)
    BY DEF IInv
  <2>2. ~(n < n)
    BY <1>2
  <2>3. \/ j \in 1 .. Len(queue[s]) /\ queue'[s][j] = queue[s][j] /\ queue[s][j][1] < n
        \/ s = r /\ j = Len(queue[s]) + 1 /\ queue'[s][j][1] = n
    BY <1>4, <1>8
  <2>4. \/ k \in 1 .. Len(queue[t]) /\ queue'[t][k] = queue[t][k] /\ queue[t][k][1] < n
        \/ t = r /\ k = Len(queue[t]) + 1 /\ queue'[t][k][1] = n
    BY <1>4, <1>8
  <2>5. CASE j \in 1 .. Len(queue[s]) /\ k \in 1 .. Len(queue[t])
    <3>1. queue[s][j][1] = queue[t][k][1]
      BY <1>7, <2>3, <2>4, <2>5, SMTT(30)
    <3> QED
      BY <2>1, <2>5, <3>1 DEF NoTwin
  <2>6. CASE ~(j \in 1 .. Len(queue[s]) /\ k \in 1 .. Len(queue[t]))
    BY <2>2, <2>3, <2>4, <2>6
  <2> QED
    BY <2>5, <2>6
<1>13. Counted(queue', attempts', at')
  <2> SUFFICES ASSUME NEW s \in Rooms, NEW k \in 1 .. Len(queue'[s])
               PROVE  attempts[queue'[s][k][1]] =
                        1 + queue'[s][k][2] + (IF Nowhere = <<s, k>> THEN 1 ELSE 0)
    BY <1>1, <1>2 DEF Counted
  <2>1. Nowhere # <<s, k>>
    BY OutboxAssumption DEF Nowhere, Rooms
  <2>2. Counted(queue, attempts, Nowhere)
    BY <1>2 DEF IInv
  <2> QED
    BY <1>2, <1>4, <1>8, <2>1, <2>2 DEF Counted
<1>14. Ordered(queue')
  <2> SUFFICES ASSUME NEW s \in Rooms, NEW j \in 1 .. Len(queue'[s]),
                      NEW k \in 1 .. Len(queue'[s]), j < k
               PROVE  /\ queue'[s][j][1] < queue'[s][k][1]
                      /\ queue'[s][j][2] >= queue'[s][k][2]
    BY DEF Ordered
  <2>1. Ordered(queue)
    BY DEF IInv
  <2>2. j \in 1 .. Len(queue[s])
    BY <1>7, <1>8
  <2>3. queue'[s][j] = queue[s][j] /\ queue[s][j][1] < n /\ queue[s][j][2] >= 0
    BY <1>7, <1>8, <2>2, OutboxAssumption
  <2> QED
    BY <1>4, <1>8, <2>1, <2>2, <2>3 DEF Ordered
<1>15. Placed'
  <2> SUFFICES ASSUME NEW m \in Messages
               PROVE  /\ m > composed => outcome[m] = "open" /\ ~InQueue(queue', m)
                      /\ InQueue(queue', m) => outcome[m] = "open"
                      /\ m <= composed => InQueue(queue', m) \/ outcome[m] # "open"
    <3>3. \A x \in Messages : InQueue(queue, x)' <=> InQueue(queue', x)
      BY DEF InQueue
    <3>4. \A x \in Messages : Nobody.msg # x
      BY <1>2 DEF Nobody
    <3> QED
      BY <1>1, <3>3, <3>4 DEF Placed
  <2>1. /\ m > composed => outcome[m] = "open" /\ ~InQueue(queue, m)
        /\ n = m => outcome[m] = "open" /\ ~InQueue(queue, m)
        /\ InQueue(queue, m) => outcome[m] = "open"
        /\ m <= composed =>
                InQueue(queue, m) \/ n = m \/ outcome[m] # "open"
    BY DEF IInv, Placed, n
  <2> QED
    BY <1>2, <1>9, <2>1
<1>16. NoTwin(queue)' /\ Counted(queue, attempts, at)' /\ Ordered(queue)'
  BY <1>12, <1>13, <1>14 DEF NoTwin, Counted, Ordered
<1> QED
  BY <1>10, <1>11, <1>15, <1>16 DEF IInv

\* The steps of the UI thread that only move it.
LEMMA UiMovesKeepInv ==
  ASSUME IInv, SendFails \/ TypingFails \/ Leave \/ Join
               \/ (/\ ui = "send" /\ ui' = "typing"
                   /\ UNCHANGED <<hand, queue, sync, at, left, syncing, composed,
                                  attempts, accepted, outcome>>)
  PROVE  IInv'
<1>1. /\ hand' = hand /\ queue' = queue /\ sync' = sync /\ at' = at /\ left' = left
      /\ composed' = composed /\ attempts' = attempts /\ accepted' = accepted
      /\ outcome' = outcome /\ syncing' \in BOOLEAN
  BY DEF IInv, TypeOK, SendFails, TypingFails, Leave, Join
<1>2. /\ ui' \in {"idle", "send", "typing", "queueing", "joining", "gone"}
      /\ InCallback' = InCallback
      /\ ui' = "gone" => sync = "ended"
  BY DEF SendFails, TypingFails, Leave, Join, InCallback
<1>3. TypeOK'
  BY <1>1, <1>2 DEF IInv, TypeOK
<1>4. UiInv'
  BY <1>1, <1>2 DEF IInv, UiInv
<1>5. SyncInv' /\ NoTwin(queue)' /\ Counted(queue, attempts, at)' /\ Ordered(queue)'
  BY <1>1 DEF IInv, SyncInv, NoTwin, Counted, Ordered, Ahead
<1>6. Placed'
  BY <1>1 DEF IInv, Placed, InQueue
<1> QED
  BY <1>3, <1>4, <1>5, <1>6 DEF IInv

\* The steps of the sync thread outside the queue.
LEMMA SyncMovesKeepInv ==
  ASSUME IInv,
         LoopTop \/ PollOk \/ PollFails \/ NextEvent \/ Show \/ Throws \/ Wake
  PROVE  IInv'
<1>1. /\ ui' = ui /\ hand' = hand /\ queue' = queue /\ at' = at
      /\ syncing' = syncing /\ composed' = composed /\ attempts' = attempts
      /\ accepted' = accepted /\ outcome' = outcome
  BY DEF LoopTop, PollOk, PollFails, NextEvent, Show, Throws, Wake
<1>2. /\ sync # "flush" /\ sync' # "flush" /\ sync # "ended"
      /\ sync' \in {"top", "poll", "received", "event", "sleep", "ended"}
  BY DEF IInv, TypeOK, LoopTop, PollOk, PollFails, NextEvent, Show, Throws, Wake
<1>3. left' \in 0 .. MaxBatch /\ (sync' = "event" => left' > 0)
  <2>1. left \in 0 .. MaxBatch /\ (sync = "show" => left > 0)
    BY DEF IInv, TypeOK, SyncInv
  <2>2. CASE LoopTop \/ PollFails \/ Throws \/ Wake
    BY <2>1, <2>2, OutboxAssumption DEF LoopTop, PollFails, Throws, Wake
  <2>3. CASE PollOk
    BY <2>3 DEF PollOk
  <2>4. CASE NextEvent
    BY <2>1, <2>4, OutboxAssumption DEF NextEvent
  <2>5. CASE Show
    BY <2>1, <2>5, OutboxAssumption DEF Show
  <2> QED
    BY <2>2, <2>3, <2>4, <2>5
<1>4. TypeOK'
  BY <1>1, <1>2, <1>3 DEF IInv, TypeOK
<1>5. UiInv'
  BY <1>1, <1>2 DEF IInv, UiInv, InCallback
<1>6. SyncInv'
  BY <1>1, <1>2, <1>3 DEF IInv, SyncInv
<1>7. NoTwin(queue)' /\ Counted(queue, attempts, at)' /\ Ordered(queue)' /\ Placed'
  BY <1>1 DEF IInv, NoTwin, Counted, Ordered, Placed, InQueue
<1> QED
  BY <1>4, <1>5, <1>6, <1>7 DEF IInv

\* What the server takes changes nothing in the client.
LEMMA AcceptKeepsInv ==
  ASSUME IInv, NEW m \in Messages, NEW k \in 1 .. MaxRetry + 2, Accept(m, k)
  PROVE  IInv'
<1>1. /\ ui' = ui /\ hand' = hand /\ queue' = queue /\ sync' = sync /\ at' = at
      /\ left' = left /\ syncing' = syncing /\ composed' = composed
      /\ attempts' = attempts /\ outcome' = outcome
      /\ accepted' = [accepted EXCEPT ![m] = @ \union {k}]
  BY DEF Accept, program
<1>2. accepted' \in [Messages -> SUBSET (1 .. MaxRetry + 2)]
  BY <1>1 DEF IInv, TypeOK
<1>3. TypeOK'
  BY <1>1, <1>2 DEF IInv, TypeOK
<1>4. UiInv' /\ SyncInv'
  BY <1>1 DEF IInv, UiInv, InCallback, SyncInv, Ahead
<1>5. NoTwin(queue)' /\ Counted(queue, attempts, at)' /\ Ordered(queue)' /\ Placed'
  BY <1>1 DEF IInv, NoTwin, Counted, Ordered, Placed, InQueue
<1> QED
  BY <1>3, <1>4, <1>5 DEF IInv

LEMMA InitIInv == Init => IInv
<1> SUFFICES ASSUME Init PROVE IInv
  OBVIOUS
<1>1. TypeOK
  <2>1. /\ Nobody \in [msg : 0 .. MaxMessages, room : 0 .. NumRooms]
        /\ Nowhere \in (0 .. NumRooms) \X Nat
        /\ 0 \in 0 .. MaxBatch /\ 0 \in 0 .. MaxMessages /\ 0 \in 0 .. MaxRetry + 2
    BY OutboxAssumption DEF Nobody, Nowhere
  <2>2. queue \in [Rooms -> Seq(Messages \X (0 .. MaxRetry))]
    BY DEF Init
  <2>3. /\ attempts \in [Messages -> 0 .. MaxRetry + 2]
        /\ accepted \in [Messages -> SUBSET (1 .. MaxRetry + 2)]
        /\ outcome \in [Messages -> {"open", "confirmed", "abandoned"}]
    BY <2>1 DEF Init
  <2> QED
    BY <2>1, <2>2, <2>3 DEF Init, TypeOK
<1>2. UiInv /\ SyncInv
  BY DEF Init, UiInv, InCallback, SyncInv
<1>3. \A r \in Rooms : queue[r] = <<>> /\ Len(queue[r]) = 0
  BY DEF Init
<1>4. NoTwin(queue) /\ Counted(queue, attempts, at) /\ Ordered(queue)
  BY <1>3 DEF NoTwin, Counted, Ordered
<1>5. \A m \in Messages : ~InQueue(queue, m)
  BY <1>3 DEF InQueue
<1>6. Placed
  <2>1. \A m \in Messages : outcome[m] = "open" /\ hand.msg # m /\ ~(m <= composed)
    BY OutboxAssumption DEF Init, Nobody, Messages
  <2> QED
    BY <1>5, <2>1 DEF Placed
<1> QED
  BY <1>1, <1>2, <1>4, <1>6 DEF IInv

LEMMA NextIInv == IInv /\ [Next]_vars => IInv'
<1> SUFFICES ASSUME IInv, [Next]_vars PROVE IInv'
  OBVIOUS
<1>1. ASSUME NEW r \in Rooms, Compose(r) PROVE IInv'
  BY <1>1, ComposeKeepsInv
<1>2. CASE SendOk
  <2>1. CASE CallbackReturns
    BY <1>2, <2>1, CallbackReturnsKeepsInv DEF SendOk
  <2>2. CASE ui' = "typing" /\ UNCHANGED <<hand, outcome>>
    BY <1>2, <2>2, UiMovesKeepInv DEF SendOk
  <2> QED
    BY <1>2, <2>1, <2>2 DEF SendOk
<1>3. CASE TypingOk
  BY <1>3, CallbackReturnsKeepsInv DEF TypingOk
<1>4. CASE SendFails \/ TypingFails \/ Leave \/ Join
  BY <1>4, UiMovesKeepInv
<1>5. CASE Enqueue
  BY <1>5, EnqueueKeepsInv
<1>6. CASE LoopTop \/ PollOk \/ PollFails \/ NextEvent \/ Show \/ Throws \/ Wake
  BY <1>6, SyncMovesKeepInv
<1>7. CASE StartFlush
  BY <1>7, StartFlushKeepsInv
<1>8. CASE FlushOk
  BY <1>8, FlushOkKeepsInv
<1>9. CASE FlushFails
  BY <1>9, FlushFailsKeepsInv
<1>10. ASSUME NEW m \in Messages, NEW k \in 1 .. MaxRetry + 2, Accept(m, k)
       PROVE  IInv'
  BY <1>10, AcceptKeepsInv
<1>11. CASE UNCHANGED vars
  BY <1>11, SMTT(30) DEF vars, IInv, TypeOK, UiInv, InCallback, SyncInv, NoTwin, Counted,
               Ordered, Ahead, Placed, InQueue
<1> QED
  BY <1>1, <1>2, <1>3, <1>4, <1>5, <1>6, <1>7, <1>8, <1>9, <1>10, <1>11
     DEF Next, SyncThread

LEMMA Invariance == Spec => []IInv
BY InitIInv, NextIInv, PTL DEF Spec

-----------------------------------------------------------------------------
(* What the invariant says of the queue.                                   *)

\* A message is in one entry or in none.
LEMMA OneEntry ==
  ASSUME IInv, NEW m \in Messages
  PROVE  Cardinality(Entries(m)) = IF InQueue(queue, m) THEN 1 ELSE 0
<1>1. \A e : e \in Entries(m) <=>
            \E r \in Rooms : \E i \in 1 .. Len(queue[r]) :
                e = <<r, i>> /\ queue[r][i][1] = m
  BY DEF Entries
<1>2. CASE ~InQueue(queue, m)
  <2>1. Entries(m) = {}
    BY <1>1, <1>2 DEF InQueue
  <2> QED
    BY <1>2, <2>1, FS_EmptySet
<1>3. CASE InQueue(queue, m)
  <2>1. PICK r \in Rooms : \E i \in 1 .. Len(queue[r]) : queue[r][i][1] = m
    BY <1>3 DEF InQueue
  <2>2. PICK i \in 1 .. Len(queue[r]) : queue[r][i][1] = m
    BY <2>1
  <2>3. NoTwin(queue)
    BY DEF IInv
  <2>4. Entries(m) = {<<r, i>>}
    <3>1. <<r, i>> \in Entries(m)
      BY <1>1, <2>2
    <3>2. ASSUME NEW e \in Entries(m) PROVE e = <<r, i>>
      <4>1. PICK s \in Rooms : \E j \in 1 .. Len(queue[s]) :
                e = <<s, j>> /\ queue[s][j][1] = m
        BY <1>1
      <4>2. PICK j \in 1 .. Len(queue[s]) : e = <<s, j>> /\ queue[s][j][1] = m
        BY <4>1
      <4>3. s = r /\ j = i
        BY <2>2, <2>3, <4>2 DEF NoTwin
      <4> QED
        BY <4>2, <4>3
    <3> QED
      BY <3>1, <3>2
  <2> QED
    BY <1>3, <2>4, FS_Singleton
<1> QED
  BY <1>2, <1>3

\* The queue the two threads share is consistent in every reachable state:
\* each message typed is in exactly one place, the failures counted in an entry
\* are the requests made for it, and each room keeps the order of typing.
THEOREM QueueStaysConsistent == Spec => []QueueConsistent
<1>1. IInv => QueueConsistent
  <2> SUFFICES ASSUME IInv PROVE QueueConsistent
    OBVIOUS
  <2>1. Accounted
    <3> SUFFICES ASSUME NEW m \in Messages
                 PROVE  Cardinality(Entries(m))
                            + (IF hand.msg = m THEN 1 ELSE 0)
                            + (IF outcome[m] # "open" THEN 1 ELSE 0)
                        = IF m <= composed THEN 1 ELSE 0
      BY DEF Accounted
    <3>1. Cardinality(Entries(m)) = IF InQueue(queue, m) THEN 1 ELSE 0
      BY OneEntry
    <3>2. /\ m > composed => outcome[m] = "open" /\ ~InQueue(queue, m)
          /\ hand.msg = m => outcome[m] = "open" /\ ~InQueue(queue, m)
          /\ InQueue(queue, m) => outcome[m] = "open"
          /\ m <= composed =>
                InQueue(queue, m) \/ hand.msg = m \/ outcome[m] # "open"
      BY DEF IInv, Placed
    <3>3. m \in Nat /\ m > 0 /\ composed \in Nat
      BY OutboxAssumption DEF IInv, TypeOK, Messages
    <3>4. hand.msg = m => m <= composed
      BY <3>3, OutboxAssumption DEF IInv, UiInv, Nobody
    <3> QED
      BY <3>1, <3>2, <3>3, <3>4
  <2>2. FailuresCountRequests /\ QueueKeepsOrder
    BY DEF IInv, Counted, FailuresCountRequests, Ordered, QueueKeepsOrder
  <2> QED
    BY <2>1, <2>2 DEF IInv, QueueConsistent
<1> QED
  BY <1>1, Invariance, PTL

-----------------------------------------------------------------------------
(* The refinement of Outbox.                                               *)

\* The typing notice is sent only after the message's request was answered.
TypingInv == ui = "typing" => Answered(hand.msg)

LEMMA TypingInvariance == Spec => []TypingInv
<1>1. Init => TypingInv
  BY DEF Init, TypingInv
<1>2. ASSUME IInv, IInv', TypingInv, [Next]_vars
      PROVE  TypingInv'
  <2> SUFFICES ASSUME ui' = "typing"
               PROVE  attempts'[hand'.msg] \in accepted'[hand'.msg]
    BY DEF TypingInv, Answered
  <2>1. /\ hand' = hand /\ ui \in {"send", "typing"}
        /\ ui = "typing" \/ Answered(hand.msg)
    <3>1. CASE UNCHANGED vars
      BY <3>1 DEF vars
    <3>2. CASE SendOk
      BY <3>2 DEF SendOk, CallbackReturns
    <3>3. CASE SyncThread
      BY <3>3 DEF SyncThread, LoopTop, PollOk, PollFails, NextEvent, StartFlush,
                  FlushOk, FlushFails, Show, Throws, Wake
    <3>4. ASSUME NEW m \in Messages, NEW k \in 1 .. MaxRetry + 2, Accept(m, k)
          PROVE  hand' = hand /\ ui' = ui
      BY <3>4 DEF Accept, program
    <3>5. ~(\E r \in Rooms : Compose(r)) /\ ~SendFails /\ ~TypingOk
          /\ ~TypingFails /\ ~Enqueue /\ ~Leave /\ ~Join
      BY DEF Compose, SendFails, TypingOk, CallbackReturns, TypingFails, Enqueue,
             Leave, Join
    <3> QED
      BY <1>2, <3>1, <3>2, <3>3, <3>4, <3>5 DEF Next
  <2>2. /\ hand.msg \in Messages
        /\ attempts[hand.msg] = 1 /\ attempts'[hand'.msg] = 1
    BY <1>2, <2>1 DEF IInv, UiInv, InCallback
  <2>3. accepted[hand.msg] \subseteq accepted'[hand.msg]
    <3>1. ASSUME NEW m \in Messages, NEW k \in 1 .. MaxRetry + 2, Accept(m, k)
          PROVE  accepted[hand.msg] \subseteq accepted'[hand.msg]
      BY <1>2, <2>2, <3>1 DEF Accept, IInv, TypeOK
    <3>2. CASE accepted' = accepted
      BY <3>2
    <3>3. \/ accepted' = accepted
          \/ \E m \in Messages : \E k \in 1 .. MaxRetry + 2 : Accept(m, k)
      BY <1>2 DEF Next, vars, SyncThread, Compose, SendOk, SendFails, TypingOk,
                  TypingFails, Enqueue, Leave, Join, LoopTop, PollOk, PollFails,
                  NextEvent, StartFlush, FlushOk, FlushFails, Show, Throws, Wake
    <3> QED
      BY <3>1, <3>2, <3>3
  <2> QED
    BY <1>2, <2>1, <2>2, <2>3 DEF TypingInv, Answered
<1> QED
  BY <1>1, <1>2, Invariance, PTL DEF Spec

\* A message that the callback or the queue holds is pending.
LEMMA Pending ==
  ASSUME NEW m \in Messages, outcome[m] = "open", m <= composed, ui # "gone",
         TypeOK
  PROVE  status[m] = "pending"
<1>1. ~(m > composed)
  BY OutboxAssumption DEF TypeOK, Messages
<1> QED
  BY <1>1 DEF status, Status

\* A step that settles one open message, and nothing else the status is about.
LEMMA SettlingStep ==
  ASSUME TypeOK, ui # "gone", ui' # "gone", composed' = composed,
         NEW n \in Messages, NEW how \in {"confirmed", "abandoned"},
         outcome' = [outcome EXCEPT ![n] = how]
  PROVE  status' = [status EXCEPT ![n] = how]
<1>1. ASSUME NEW m \in Messages
      PROVE  Status(m)' = IF m = n THEN how ELSE Status(m)
  <2>1. outcome'[m] = IF m = n THEN how ELSE outcome[m]
    BY DEF TypeOK
  <2> QED
    BY <2>1 DEF Status
<1> QED
  BY <1>1 DEF status

\* A step that leaves alone what the status is about.
LEMMA SameStatus ==
  ASSUME outcome' = outcome, composed' = composed,
         (ui = "gone") <=> (ui' = "gone")
  PROVE  status' = status
BY DEF status, Status

\* What a pass over the queue does to the number of requests.
LEMMA PassTries ==
  ASSUME attempts \in [Messages -> 0 .. MaxRetry + 2],
         NEW q \in [Rooms -> Seq(QEntry)],
         NEW r \in Rooms, NEW i \in 1 .. Len(q[r]) + 1,
         NoTwin(q), Counted(q, attempts, Nowhere), Ahead(q, r, i),
         FlushFrom(q, r, i)
  PROVE  \/ attempts' = attempts
         \/ \E n \in Messages :
                /\ InQueue(q, n)
                /\ attempts[n] \in 1 .. MaxRetry + 1
                /\ attempts' = [attempts EXCEPT ![n] = @ + 1]
<1>1. \/ attempts' = attempts
      \/ \E s \in Rooms : \E j \in 1 .. Len(q[s]) :
         /\ q[s][j][1] \in Messages
         /\ attempts[q[s][j][1]] \in 1 .. MaxRetry + 1
         /\ attempts' = [attempts EXCEPT ![q[s][j][1]] = @ + 1]
  BY FlushFromCounts
<1>2. ASSUME NEW s \in Rooms, NEW j \in 1 .. Len(q[s])
      PROVE  InQueue(q, q[s][j][1])
  BY DEF InQueue
<1> QED
  BY <1>1, <1>2

\* A message n is tried again, or none is, while some message is settled.
LEMMA ProgressRefines ==
  ASSUME \/ \E m \in Messages : \E how \in {"confirmed", "abandoned"} :
                /\ status[m] = "pending"
                /\ \/ how = "confirmed" /\ attempts[m] \in accepted[m]
                   \/ how = "abandoned" /\ attempts[m] = MaxRetry + 2
                /\ status' = [status EXCEPT ![m] = how]
         \/ status' = status,
         \/ \E n \in Messages :
                /\ status'[n] = "pending"
                /\ attempts[n] \in 1 .. (MaxRetry + 2) - 1
                /\ attempts' = [attempts EXCEPT ![n] = @ + 1]
         \/ attempts' = attempts,
         accepted' = accepted
  PROVE  Promise!Progress
<1>1. ASSUME NEW m \in Messages, NEW how \in {"confirmed", "abandoned"},
             status[m] = "pending",
             \/ how = "confirmed" /\ attempts[m] \in accepted[m]
             \/ how = "abandoned" /\ attempts[m] = MaxRetry + 2,
             status' = [status EXCEPT ![m] = how]
      PROVE  status[m] = "pending" /\ Promise!Settle(m)
  BY <1>1 DEF Promise!Settle
<1>2. \/ \E m \in Messages : status[m] = "pending" /\ Promise!Settle(m)
      \/ status' = status
  BY <1>1
<1> QED
  BY <1>2 DEF Promise!Progress

\* A flush step is one Progress step: the entry in flight is settled or not,
\* and the request for the next entry, if any, is one more try of its message.
LEMMA FlushRefines ==
  ASSUME IInv, IInv', StartFlush \/ FlushOk \/ FlushFails
  PROVE  Promise!Progress
<1>1. /\ ui' = ui /\ composed' = composed /\ accepted' = accepted
      /\ sync \in {"event", "flush"} /\ ui # "gone" /\ TypeOK /\ TypeOK'
  BY DEF IInv, UiInv, StartFlush, FlushOk, FlushFails
<1>2. attempts \in [Messages -> 0 .. MaxRetry + 2]
  BY DEF IInv, TypeOK
<1>3. \/ attempts' = attempts
      \/ \E n \in Messages :
            /\ status'[n] = "pending"
            /\ attempts[n] \in 1 .. (MaxRetry + 2) - 1
            /\ attempts' = [attempts EXCEPT ![n] = @ + 1]
  <2>1. \E q \in [Rooms -> Seq(QEntry)] : \E r \in Rooms :
          \E i \in 1 .. Len(q[r]) + 1 :
            /\ NoTwin(q) /\ Counted(q, attempts, Nowhere) /\ Ahead(q, r, i)
            /\ FlushFrom(q, r, i)
    <3>1. CASE StartFlush
      <4>0. 1 \in Rooms
        BY OutboxAssumption DEF Rooms
      <4>1. queue \in [Rooms -> Seq(QEntry)] /\ 1 \in Rooms
        BY <4>0 DEF IInv, TypeOK, QEntry
      <4>2. 1 \in 1 .. Len(queue[1]) + 1 /\ Ahead(queue, 1, 1)
        BY <4>1, LenProperties DEF Ahead
      <4>3. NoTwin(queue) /\ Counted(queue, attempts, Nowhere) /\ FlushFrom(queue, 1, 1)
        BY <3>1 DEF StartFlush, IInv, SyncInv
      <4> QED
        BY <4>1, <4>2, <4>3
    <3>2. CASE sync = "flush" /\ FlushFrom(WithoutEntry, at[1], at[2])
      BY <3>2, WithoutEntryKeeps, EntryInFlight
    <3>3. CASE /\ sync = "flush" /\ Entry[2] + 1 <= MaxRetry
               /\ FlushFrom(FailedEntry, at[1], at[2] + 1)
      BY <3>3, FailedEntryKeeps, EntryInFlight
    <3> QED
      BY <3>1, <3>2, <3>3 DEF FlushOk, FlushFails, FailedEntry
  <2>2. \/ attempts' = attempts
        \/ \E q \in [Rooms -> Seq(QEntry)] : \E n \in Messages :
                /\ \E r \in Rooms : \E i \in 1 .. Len(q[r]) + 1 : FlushFrom(q, r, i)
                /\ InQueue(q, n)
                /\ attempts[n] \in 1 .. MaxRetry + 1
                /\ attempts' = [attempts EXCEPT ![n] = @ + 1]
    BY <1>2, <2>1, PassTries
  <2>3. ASSUME NEW q \in [Rooms -> Seq(QEntry)], NEW n \in Messages,
               \E r \in Rooms : \E i \in 1 .. Len(q[r]) + 1 : FlushFrom(q, r, i),
               InQueue(q, n)
        PROVE  status'[n] = "pending"
    <3>1. queue' = q
      BY <2>3 DEF FlushFrom
    <3>2. InQueue(queue, n)'
      BY <2>3, <3>1 DEF InQueue
    <3>3. outcome'[n] = "open" /\ ~(n > composed')
      BY <3>2 DEF IInv, Placed
    <3> QED
      BY <1>1, <3>3 DEF status, Status
  <2>4. 1 .. MaxRetry + 1 = 1 .. (MaxRetry + 2) - 1
    BY OutboxAssumption
  <2> QED
    BY <2>2, <2>3, <2>4
<1>4. \/ \E m \in Messages : \E how \in {"confirmed", "abandoned"} :
            /\ status[m] = "pending"
            /\ \/ how = "confirmed" /\ attempts[m] \in accepted[m]
               \/ how = "abandoned" /\ attempts[m] = MaxRetry + 2
            /\ status' = [status EXCEPT ![m] = how]
      \/ status' = status
  <2>1. CASE outcome' = outcome
    BY <1>1, <2>1, SameStatus
  <2>2. ASSUME sync = "flush", NEW how \in {"confirmed", "abandoned"},
               outcome' = [outcome EXCEPT ![Entry[1]] = how]
        PROVE  /\ Entry[1] \in Messages
               /\ status[Entry[1]] = "pending"
               /\ status' = [status EXCEPT ![Entry[1]] = how]
    <3>1. /\ Entry[1] \in Messages /\ outcome[Entry[1]] = "open"
          /\ Entry[1] <= composed
      BY <2>2, EntryInFlight
    <3> QED
      BY <1>1, <2>2, <3>1, Pending, SettlingStep
  <2>3. CASE FlushOk
    <3>1. /\ sync = "flush" /\ attempts[Entry[1]] \in accepted[Entry[1]]
          /\ outcome' = [outcome EXCEPT ![Entry[1]] = "confirmed"]
      BY <2>3 DEF FlushOk, Answered
    <3> QED
      BY <2>2, <3>1
  <2>4. CASE FlushFails /\ outcome' # outcome
    <3>1. /\ sync = "flush" /\ Entry[2] + 1 > MaxRetry
          /\ outcome' = [outcome EXCEPT ![Entry[1]] = "abandoned"]
      BY <2>4 DEF FlushFails
    <3>2. attempts[Entry[1]] = MaxRetry + 2
      <4>1. Entry[2] \in 0 .. MaxRetry /\ attempts[Entry[1]] = 2 + Entry[2]
        BY <3>1, EntryInFlight
      <4> QED
        BY <3>1, <4>1, OutboxAssumption
    <3> QED
      BY <2>2, <3>1, <3>2
  <2> QED
    BY <2>1, <2>3, <2>4 DEF StartFlush
<1> QED
  BY <1>1, <1>3, <1>4, ProgressRefines

\* The callback confirms its message by a request the server took.
LEMMA ReturnRefines ==
  ASSUME IInv, TypingInv, SendOk \/ TypingOk, CallbackReturns
  PROVE  Promise!Progress
<1>1. /\ ui \in {"send", "typing"} /\ ui' = "idle" /\ composed' = composed
      /\ attempts' = attempts /\ accepted' = accepted
      /\ attempts[hand.msg] \in accepted[hand.msg]
      /\ outcome' = [outcome EXCEPT ![hand.msg] = "confirmed"]
  BY DEF SendOk, TypingOk, CallbackReturns, TypingInv, Answered
<1>2. /\ hand.msg \in Messages /\ hand.msg = composed /\ TypeOK
      /\ outcome[hand.msg] = "open" /\ hand.msg <= composed
  BY <1>1, OutboxAssumption, SMTT(30) DEF IInv, UiInv, InCallback, Placed, TypeOK, Messages
<1>3. status[hand.msg] = "pending"
  BY <1>1, <1>2, Pending
<1>4. status' = [status EXCEPT ![hand.msg] = "confirmed"]
  BY <1>1, <1>2, SettlingStep
<1> QED
  BY <1>1, <1>2, <1>3, <1>4, ProgressRefines

\* Typing a message hands it over.
LEMMA ComposeRefines ==
  ASSUME IInv, NEW r \in Rooms, Compose(r)
  PROVE  Promise!Submit(composed + 1) /\ composed + 1 \in Messages
<1> DEFINE n == composed + 1
<1>1. /\ ui = "idle" /\ ui' = "send" /\ composed' = n /\ composed < MaxMessages
      /\ outcome' = outcome /\ accepted' = accepted
      /\ attempts' = [attempts EXCEPT ![n] = 1]
  BY DEF Compose
<1>2. composed \in Nat /\ n \in Messages /\ \A m \in Messages : m \in Nat
  BY <1>1, OutboxAssumption DEF IInv, TypeOK, Messages
<1>3. outcome[n] = "open"
  BY <1>2 DEF IInv, Placed
<1>4. status[n] = "new"
  BY <1>2, <1>3 DEF status, Status
<1>5. status' = [status EXCEPT ![n] = "pending"]
  <2>1. ASSUME NEW m \in Messages
        PROVE  Status(m)' = IF m = n THEN "pending" ELSE Status(m)
    BY <1>1, <1>2, <1>3 DEF Status
  <2> QED
    BY <2>1 DEF status
<1> QED
  BY <1>1, <1>2, <1>4, <1>5 DEF Promise!Submit

\* The program ends, and with it what was pending.
LEMMA JoinRefines ==
  ASSUME IInv, Join
  PROVE  Promise!Quit
<1>1. /\ ui = "joining" /\ ui' = "gone" /\ composed' = composed
      /\ outcome' = outcome /\ attempts' = attempts /\ accepted' = accepted
  BY DEF Join
<1>2. ASSUME NEW m \in Messages
      PROVE  Status(m)' = IF Status(m) = "pending" THEN "lost" ELSE Status(m)
  <2>1. outcome[m] \in {"open", "confirmed", "abandoned"}
    BY DEF IInv, TypeOK
  <2> QED
    BY <1>1, <2>1 DEF Status
<1>3. status' = [m \in Messages |->
            IF status[m] = "pending" THEN "lost" ELSE status[m]]
  BY <1>2 DEF status
<1> QED
  BY <1>1, <1>3 DEF Promise!Quit

\* The steps Outbox does not see.
LEMMA StutterRefines ==
  ASSUME \/ SendOk /\ ui' = "typing"
         \/ SendFails \/ TypingFails \/ Enqueue \/ Leave
         \/ LoopTop \/ PollOk \/ PollFails \/ NextEvent \/ Show \/ Throws \/ Wake
         \/ UNCHANGED vars
  PROVE  UNCHANGED Promise!vars
<1>1. /\ composed' = composed /\ attempts' = attempts /\ accepted' = accepted
      /\ outcome' = outcome
      /\ (ui = "gone") <=> (ui' = "gone")
  BY DEF SendOk, CallbackReturns, SendFails, TypingFails, Enqueue, Leave, LoopTop,
         PollOk, PollFails, NextEvent, Show, Throws, Wake, vars
<1>2. status' = status
  BY <1>1, SameStatus
<1> QED
  BY <1>1, <1>2 DEF Promise!vars

\* Every step of the outbox is a step of Outbox, or changes nothing there.
LEMMA StepRefines ==
  ASSUME IInv, IInv', TypingInv, [Next]_vars
  PROVE  [Promise!Next]_Promise!vars
<1>1. ASSUME NEW r \in Rooms, Compose(r) PROVE Promise!Next
  BY <1>1, ComposeRefines DEF Promise!Next
<1>2. CASE (SendOk \/ TypingOk) /\ CallbackReturns
  BY <1>2, ReturnRefines DEF Promise!Next
<1>3. CASE StartFlush \/ FlushOk \/ FlushFails
  BY <1>3, FlushRefines DEF Promise!Next
<1>4. CASE Join
  BY <1>4, JoinRefines DEF Promise!Next
<1>5. ASSUME NEW m \in Messages, NEW k \in 1 .. MaxRetry + 2, Accept(m, k)
      PROVE  Promise!Next
  <2>1. /\ composed' = composed /\ attempts' = attempts /\ outcome' = outcome
        /\ ui' = ui
        /\ k \in 1 .. attempts[m] /\ k \notin accepted[m]
        /\ accepted' = [accepted EXCEPT ![m] = @ \union {k}]
    BY <1>5 DEF Accept, program
  <2>2. status' = status
    BY <2>1, SameStatus
  <2>3. Promise!Accept(m, k)
    BY <2>1, <2>2 DEF Promise!Accept
  <2> QED
    BY <2>3 DEF Promise!Next
<1>6. CASE \/ SendOk /\ ui' = "typing"
           \/ SendFails \/ TypingFails \/ Enqueue \/ Leave
           \/ LoopTop \/ PollOk \/ PollFails \/ NextEvent \/ Show \/ Throws \/ Wake
           \/ UNCHANGED vars
  BY <1>6, StutterRefines
<1>7. SendOk => (SendOk /\ CallbackReturns) \/ (SendOk /\ ui' = "typing")
  BY DEF SendOk
<1>8. TypingOk => TypingOk /\ CallbackReturns
  BY DEF TypingOk
<1> QED
  BY <1>1, <1>2, <1>3, <1>4, <1>5, <1>6, <1>7, <1>8 DEF Next, SyncThread

\* The outbox with its two threads, its queue and its lock does what Outbox
\* promises: a message is confirmed only by a request the server took, is never
\* tried again afterwards, is given up only when every retry was spent, and is
\* lost only with the end of the program.
THEOREM OutboxKeepsPromise == Spec => ImplementsOutbox
<1>1. Init => Promise!Init
  <2> SUFFICES ASSUME Init PROVE Promise!Init
    OBVIOUS
  <2>1. ASSUME NEW m \in Messages PROVE Status(m) = "new"
    <3>1. m > 0 /\ outcome[m] = "open" /\ composed = 0
      BY OutboxAssumption DEF Init, Messages
    <3> QED
      BY <3>1 DEF Status
  <2> QED
    BY <2>1 DEF Init, Promise!Init, status
<1>2. IInv /\ IInv' /\ TypingInv /\ [Next]_vars => [Promise!Next]_Promise!vars
  BY StepRefines
<1> QED
  BY <1>1, <1>2, Invariance, TypingInvariance, PTL
     DEF Spec, ImplementsOutbox, Promise!Spec
=============================================================================
