----------------------------- MODULE SyncProofs ------------------------------
(***************************************************************************)
(* Proofs about what the client takes from the server, for any length of   *)
(* the stream, any reply limit and any number of messages, renames and     *)
(* restarts: the stream of the sync loop and the offline cache.            *)
(***************************************************************************)
EXTENDS MCSync, SequenceTheorems, FiniteSetTheorems, WellFoundedInduction, TLAPS

-----------------------------------------------------------------------------
(* The reply of a sync in order.                                           *)

\* The instance's operators are those of the library.
LEMMA StreamCardinality == \A S : Stream!Cardinality(S) = Cardinality(S)
BY Zenon DEF Stream!Cardinality, Cardinality

\* A sequence that lists the set S in order.
Lists(s, S) ==
    /\ s \in [1 .. Cardinality(S) -> S]
    /\ Stream!ToSet(s) = S
    /\ \A i, j \in DOMAIN s : i < j => s[i] < s[j]

\* The largest number of a set that may be listed is put behind the rest.
LEMMA ListedOneMore ==
  ASSUME NEW n \in Nat, NEW S \in SUBSET (1 .. n + 1), n + 1 \in S,
         IsFiniteSet(S \ {n + 1}), NEW s, Lists(s, S \ {n + 1})
  PROVE  \E t : Lists(t, S)
<1> DEFINE R == S \ {n + 1}
           c == Cardinality(R)
           t == [i \in 1 .. c + 1 |-> IF i = c + 1 THEN n + 1 ELSE s[i]]
<1>1. c \in Nat /\ S = R \cup {n + 1} /\ n + 1 \notin R
  BY FS_CardinalityType
<1>2. Cardinality(S) = c + 1
  BY <1>1, FS_AddElement
<1>3. /\ s \in [1 .. c -> R] /\ {s[i] : i \in 1 .. c} = R
      /\ \A i, j \in 1 .. c : i < j => s[i] < s[j]
  BY DEF Lists, Stream!ToSet
<1>4. \A i \in 1 .. c : s[i] \in 1 .. n
  <2>1. R \subseteq 1 .. n
    OBVIOUS
  <2> HIDE DEF R, c
  <2> QED
    BY <1>3, <2>1
<1> HIDE DEF R, c
<1>5. t \in [1 .. c + 1 -> S]
  BY <1>1, <1>3
<1>6. {t[i] : i \in 1 .. c + 1} = S
  <2>1. \A x \in R : \E i \in 1 .. c : s[i] = x
    BY <1>3
  <2>2. ASSUME NEW x \in R PROVE \E i \in 1 .. c + 1 : t[i] = x
    <3>1. PICK i \in 1 .. c : s[i] = x
      BY <2>1
    <3>2. i \in 1 .. c + 1 /\ i # c + 1
      BY <1>1
    <3> QED
      BY <3>1, <3>2
  <2>3. c + 1 \in 1 .. c + 1 /\ t[c + 1] = n + 1
    BY <1>1
  <2> QED
    <3>1. {t[i] : i \in 1 .. c + 1} \subseteq S
      BY <1>5
    <3>2. \A x \in S : \E i \in 1 .. c + 1 : t[i] = x
      BY <1>1, <2>2, <2>3
    <3> HIDE DEF t
    <3> QED
      BY <3>1, <3>2
<1>7. ASSUME NEW i \in 1 .. c + 1, NEW j \in 1 .. c + 1, i < j PROVE t[i] < t[j]
  <2>1. i \in 1 .. c /\ i # c + 1
    BY <1>1, <1>7
  <2>2. CASE j = c + 1
    BY <1>4, <2>1, <2>2
  <2>3. CASE j # c + 1
    <3>1. j \in 1 .. c
      BY <1>1, <2>3
    <3> QED
      BY <1>3, <1>7, <2>1, <2>3, <3>1
  <2> QED
    BY <2>2, <2>3
<1>8. Lists(t, S)
  BY <1>2, <1>5, <1>6, <1>7 DEF Lists, Stream!ToSet
<1> QED
  BY <1>8

\* Every finite set of positive numbers can be listed in order: a least bound below
\* which one could not would have a smaller one.
LEMMA ListExists ==
  ASSUME NEW m \in Nat, NEW S \in SUBSET (1 .. m)
  PROVE  \E s : Lists(s, S)
<1> DEFINE Bad == {n \in Nat : \E T \in SUBSET (1 .. n) : ~ \E s : Lists(s, T)}
<1>1. ASSUME Bad # {} PROVE FALSE
  <2>1. PICK n \in Bad : \A y \in Bad : <<y, n>> \notin OpToRel(<, Nat)
    BY <1>1, NatLessThanWellFounded, WFMin
  <2>2. \A y \in Bad : ~(y < n)
    BY <2>1 DEF OpToRel
  <2>3. PICK T \in SUBSET (1 .. n) : ~ \E s : Lists(s, T)
    OBVIOUS
  <2>4. CASE n = 0
    <3>1. T = {}
      BY <2>4
    <3>2. Lists(<<>>, {})
      BY FS_EmptySet DEF Lists, Stream!ToSet
    <3> QED
      BY <2>3, <3>1, <3>2
  <2>5. CASE n # 0
    <3>1. n - 1 \in Nat /\ n - 1 < n /\ (n - 1) + 1 = n
      BY <2>5
    <3>2. \A U \in SUBSET (1 .. n - 1) : \E s : Lists(s, U)
      BY <2>2, <3>1
    <3>3. T \ {n} \in SUBSET (1 .. n - 1)
      BY <3>1
    <3>4. PICK s : Lists(s, T \ {n})
      BY <3>2, <3>3
    <3>5. IsFiniteSet(T \ {n})
      <4>1. IsFiniteSet(1 .. n - 1)
        BY <3>1, FS_Interval
      <4> QED
        BY <3>3, <4>1, FS_Subset
    <3>6. CASE n \in T
      BY <2>3, <3>1, <3>4, <3>5, <3>6, ListedOneMore
    <3>7. CASE n \notin T
      <4>1. T \ {n} = T
        BY <3>7
      <4> QED
        BY <2>3, <3>4, <4>1
    <3> QED
      BY <3>6, <3>7
  <2> QED
    BY <2>4, <2>5
<1> QED
  BY <1>1

\* So the operator that lists a set does.
LEMMA AscendingLists ==
  ASSUME NEW m \in Nat, NEW S \in SUBSET (1 .. m)
  PROVE  /\ Stream!Ascending(S) \in Seq(S)
         /\ Stream!ToSet(Stream!Ascending(S)) = S
         /\ \A i, j \in 1 .. Len(Stream!Ascending(S)) :
                i < j => Stream!Ascending(S)[i] < Stream!Ascending(S)[j]
<1> DEFINE a == Stream!Ascending(S)
<1>1. PICK s : Lists(s, S)
  BY ListExists
<1>2. Lists(a, S)
  <2>1. a = CHOOSE t : Lists(t, S)
    BY StreamCardinality, Zenon DEF Lists, Stream!Ascending
  <2> QED
    BY <1>1, <2>1
<1>3. Cardinality(S) \in Nat
  <2>1. IsFiniteSet(1 .. m)
    BY FS_Interval
  <2>2. IsFiniteSet(S)
    BY <2>1, FS_Subset
  <2> QED
    BY <2>2, FS_CardinalityType
<1> HIDE DEF a
<1>4. a \in Seq(S) /\ Len(a) = Cardinality(S) /\ DOMAIN a = 1 .. Len(a)
  BY <1>2, <1>3 DEF Lists
<1> QED
  BY <1>2, <1>4 DEF Lists, a

-----------------------------------------------------------------------------
(* The stream of the sync loop.                                            *)

\* The events in s, in order, are none behind t.
Rising(s, t) ==
    /\ \A i, j \in 1 .. Len(s) : i < j => s[i] < s[j]
    /\ \A i \in 1 .. Len(s) : s[i] <= t

\* What is left of the reply, by the place of the thread.
LeftOver ==
    /\ pc = "keys" => keys # <<>>
    /\ pc \in {"insert", "event"} => keys = <<>> /\ todo # <<>>
    /\ pc \in {"top", "poll", "sleep", "down"} => keys = <<>> /\ todo = <<>>
    /\ pc = "down" =>
        /\ token = Stream!NoToken /\ known = {} /\ shown = <<>> /\ missed = {}
        /\ reply = [p \in Stream!Positions |-> 0]

\* What was shown and what is still to be are in the order of the stream.
InOrder ==
    /\ Rising(shown, token) /\ Rising(todo, token) /\ Rising(keys, token)
    /\ \A i \in 1 .. Len(shown), j \in 1 .. Len(todo) : shown[i] < todo[j]

\* A key that the token has passed is known, missed or still to be looked into.
KeysAreKnown ==
    \A q \in 1 .. Len(stream) :
        stream[q].type = "key" /\ born < q /\ q <= token =>
            \/ q \in missed \union Stream!ToSet(keys)
            \/ stream[q].session \in known

\* Only events the token has passed have come in a reply.
RepliesPassed ==
    \A p \in Stream!Positions : reply[p] > 0 => p <= token /\ reply[p] <= token

StreamInv ==
    /\ Stream!TypeOK
    /\ LeftOver
    /\ InOrder
    /\ KeysAreKnown
    /\ RepliesPassed
    /\ Stream!NothingSkipped
    /\ Stream!KeyInTimeDecrypts

LEMMA StreamConstants ==
  Limit \in Nat \ {0} /\ MaxStream \in Nat /\ MaxRuns \in Nat \ {0}
BY SyncAssumption DEF Stream!SyncAssumption

\* The thread moves and touches nothing else.
LEMMA StreamMoves ==
  ASSUME StreamInv, Stream!LoopTop \/ Stream!PollFails \/ Stream!Wake
  PROVE  StreamInv'
<1>1. /\ pc \in {"top", "poll", "sleep"} /\ pc' \in {"top", "poll", "sleep"}
      /\ stream' = stream /\ born' = born /\ token' = token /\ keys' = keys
      /\ todo' = todo /\ known' = known /\ rows' = rows /\ shown' = shown
      /\ missed' = missed /\ reply' = reply /\ runs' = runs
  BY DEF Stream!LoopTop, Stream!PollFails, Stream!Wake, Stream!server, Stream!history
<1>2. Stream!TypeOK' /\ LeftOver'
  BY <1>1 DEF StreamInv, Stream!TypeOK, LeftOver
<1>3. InOrder' /\ KeysAreKnown' /\ RepliesPassed'
  BY <1>1 DEF StreamInv, InOrder, Rising, KeysAreKnown, RepliesPassed
<1>4. Stream!NothingSkipped' /\ Stream!KeyInTimeDecrypts'
  BY <1>1 DEF StreamInv, Stream!NothingSkipped, Stream!KeyInTimeDecrypts, Stream!IsKey
<1> QED
  BY <1>2, <1>3, <1>4 DEF StreamInv

\* The server has one event more, which no token has passed.
LEMMA PostKeeps ==
  ASSUME StreamInv, NEW item \in Stream!Items, Stream!Post(item)
  PROVE  StreamInv'
<1>1. /\ pc' = pc /\ born' = born /\ token' = token /\ keys' = keys
      /\ todo' = todo /\ known' = known /\ rows' = rows /\ shown' = shown
      /\ missed' = missed /\ reply' = reply /\ runs' = runs
      /\ stream' = Append(stream, item) /\ Len(stream) < MaxStream
  BY DEF Stream!Post, Stream!history
<1>2. /\ stream \in Seq(Stream!Items) /\ Len(stream) \in Nat
      /\ token \in -1 .. Len(stream) /\ born \in 0 .. Len(stream)
      /\ reply \in [Stream!Positions -> 0 .. MaxStream]
  BY DEF StreamInv, Stream!TypeOK, Stream!NoToken
<1>3. /\ stream' \in Seq(Stream!Items) /\ Len(stream') = Len(stream) + 1
      /\ \A p \in 1 .. Len(stream) : stream'[p] = stream[p]
  BY <1>1, <1>2
<1>4. Stream!TypeOK'
  <2>1. token' \in -1 .. Len(stream') /\ born' \in 0 .. Len(stream')
        /\ Len(stream') <= MaxStream
    BY <1>1, <1>2, <1>3, StreamConstants
  <2> QED
    BY <1>1, <1>3, <2>1 DEF StreamInv, Stream!TypeOK, Stream!NoToken, Stream!Positions
<1>5. LeftOver' /\ InOrder' /\ RepliesPassed'
  BY <1>1 DEF StreamInv, LeftOver, InOrder, Rising, RepliesPassed
<1>6. KeysAreKnown'
  <2> SUFFICES ASSUME NEW q \in 1 .. Len(stream'), stream'[q].type = "key",
                      born < q, q <= token
               PROVE  \/ q \in missed \union Stream!ToSet(keys)
                      \/ stream'[q].session \in known
    BY <1>1 DEF KeysAreKnown
  <2>1. q \in 1 .. Len(stream)
    BY <1>2, <1>3
  <2> QED
    BY <1>3, <2>1 DEF StreamInv, KeysAreKnown
<1>7. Stream!NothingSkipped'
  <2> SUFFICES ASSUME NEW p \in 1 .. Len(stream'), p <= token, ~Stream!IsKey(p)'
               PROVE  p \in Stream!ToSet(shown) \union Stream!ToSet(todo) \union missed
    BY <1>1 DEF Stream!NothingSkipped
  <2>1. p \in 1 .. Len(stream)
    BY <1>2, <1>3
  <2>2. ~Stream!IsKey(p)
    BY <1>3, <2>1 DEF Stream!IsKey
  <2> QED
    BY <2>1, <2>2 DEF StreamInv, Stream!NothingSkipped
<1>8. Stream!KeyInTimeDecrypts'
  <2> SUFFICES ASSUME NEW p \in 1 .. Len(stream'), NEW q \in 1 .. Len(stream'),
                      reply[p] > 0, rows[p] = "cipher",
                      stream'[q] = [type |-> "key", session |-> stream'[p].session],
                      born < q, q <= reply[p]
               PROVE  q \in missed
    BY <1>1 DEF Stream!KeyInTimeDecrypts
  <2>1. Len(stream') <= MaxStream
    BY <1>4 DEF Stream!TypeOK
  <2>2. p \in Stream!Positions /\ q \in Stream!Positions
    BY <1>2, <1>3, <2>1, StreamConstants DEF Stream!Positions
  <2>3. p <= token /\ reply[p] <= token /\ reply[p] \in Nat
    BY <1>2, <2>2 DEF StreamInv, RepliesPassed
  <2>4. p \in 1 .. Len(stream) /\ q \in 1 .. Len(stream)
    BY <1>2, <1>3, <2>3
  <2> QED
    BY <1>3, <2>4 DEF StreamInv, Stream!KeyInTimeDecrypts
<1> QED
  BY <1>4, <1>5, <1>6, <1>7, <1>8 DEF StreamInv

\* The first of a list, and the rest.
LEMMA FirstAndRest ==
  ASSUME NEW S, NEW s \in Seq(S), s # <<>>
  PROVE  /\ Head(s) = s[1] /\ Head(s) \in S /\ 1 \in 1 .. Len(s)
         /\ Tail(s) \in Seq(S) /\ Len(s) \in Nat /\ Len(Tail(s)) = Len(s) - 1
         /\ \A i \in 1 .. Len(Tail(s)) : i + 1 \in 1 .. Len(s) /\ Tail(s)[i] = s[i + 1]
         /\ Stream!ToSet(s) = {Head(s)} \union Stream!ToSet(Tail(s))
<1>1. /\ Head(s) = s[1] /\ Head(s) \in S /\ 1 \in 1 .. Len(s) /\ Len(s) \in Nat
      /\ Tail(s) \in Seq(S) /\ Len(Tail(s)) = Len(s) - 1
      /\ \A i \in 1 .. Len(Tail(s)) : i + 1 \in 1 .. Len(s) /\ Tail(s)[i] = s[i + 1]
  OBVIOUS
<1>2. /\ Stream!ToSet(s) = {s[i] : i \in 1 .. Len(s)}
      /\ Stream!ToSet(Tail(s)) = {Tail(s)[i] : i \in 1 .. Len(Tail(s))}
  <2>1. DOMAIN s = 1 .. Len(s) /\ DOMAIN Tail(s) = 1 .. Len(Tail(s))
    BY <1>1
  <2> QED
    BY <2>1, Zenon DEF Stream!ToSet
<1>3. ASSUME NEW x \in Stream!ToSet(s), x # Head(s)
      PROVE  x \in Stream!ToSet(Tail(s))
  <2>1. PICK i \in 1 .. Len(s) : s[i] = x
    BY <1>2
  <2>2. i # 1
    BY <1>1, <1>3, <2>1
  <2>3. i - 1 \in 1 .. Len(Tail(s)) /\ (i - 1) + 1 = i
    BY <1>1, <2>2
  <2> QED
    BY <1>1, <1>2, <2>1, <2>3
<1>4. Head(s) \in Stream!ToSet(s) /\ Stream!ToSet(Tail(s)) \subseteq Stream!ToSet(s)
  BY <1>1, <1>2
<1> QED
  BY <1>1, <1>3, <1>4

LEMMA ListOfMore ==
  ASSUME NEW A, NEW B, A \subseteq B, NEW s \in Seq(A)
  PROVE  s \in Seq(B) /\ \A i \in 1 .. Len(s) : s[i] \in A
<1>1. Len(s) \in Nat /\ s \in [1 .. Len(s) -> A]
  BY LenProperties
<1>2. s \in [1 .. Len(s) -> B]
  BY <1>1
<1> QED
  BY <1>1, <1>2, SeqDef

\* What is left of an ordered list is ordered.
LEMMA RisingRest ==
  ASSUME NEW s \in Seq(Stream!Positions), s # <<>>, NEW t, Rising(s, t)
  PROVE  Rising(Tail(s), t)
<1>1. /\ Len(s) \in Nat /\ Len(Tail(s)) = Len(s) - 1
      /\ \A i \in 1 .. Len(Tail(s)) : i + 1 \in 1 .. Len(s) /\ Tail(s)[i] = s[i + 1]
  BY FirstAndRest
<1> QED
  BY <1>1 DEF Rising

\* A reply has come: next_batch stands at its end, and all of it is still to do.
LEMMA PollOkKeeps ==
  ASSUME StreamInv, NEW to, Stream!PollOk(to)
  PROVE  StreamInv'
<1> DEFINE from == Stream!Since
           S == Stream!DeviceEvents(from, to)
           W == Stream!Window(from, to)
<1>1. /\ pc = "poll" /\ to \in from .. Len(stream) /\ token' = to
      /\ keys' = Stream!Ascending(S) /\ todo' = Stream!Ascending(W)
      /\ missed' = missed \union (Stream!RoomEvents(from, to) \ W)
      /\ pc' = IF keys' # <<>> THEN "keys" ELSE IF todo' # <<>> THEN "insert" ELSE "top"
      /\ stream' = stream /\ born' = born /\ known' = known /\ rows' = rows
      /\ shown' = shown /\ reply' = reply /\ runs' = runs
  BY DEF Stream!PollOk, Stream!GoOn, Stream!server
<1>2. /\ stream \in Seq(Stream!Items) /\ Len(stream) \in Nat /\ Len(stream) <= MaxStream
      /\ token \in -1 .. Len(stream) /\ keys = <<>> /\ todo = <<>>
      /\ shown \in Seq(Stream!Positions) /\ missed \subseteq Stream!Positions
  BY <1>1 DEF StreamInv, Stream!TypeOK, LeftOver, Stream!NoToken
<1>3. /\ from \in 0 .. Len(stream) /\ token <= from /\ from <= to /\ to \in 0 .. Len(stream)
      /\ \A p \in Nat \ {0} : p <= from => p <= token
  BY <1>1, <1>2 DEF Stream!Since, Stream!NoToken
<1>4. /\ S = {p \in from + 1 .. to : Stream!IsKey(p) /\ p > born}
      /\ Stream!RoomEvents(from, to) = {p \in from + 1 .. to : ~Stream!IsKey(p)}
      /\ W \subseteq Stream!RoomEvents(from, to)
  BY DEF Stream!DeviceEvents, Stream!RoomEvents, Stream!Window
<1> HIDE DEF from, S, W
<1>5. /\ S \in SUBSET (1 .. MaxStream) /\ W \in SUBSET (1 .. MaxStream)
      /\ S \subseteq from + 1 .. to /\ W \subseteq from + 1 .. to
      /\ Stream!RoomEvents(from, to) \subseteq Stream!Positions
  BY <1>2, <1>3, <1>4, StreamConstants DEF Stream!Positions
<1>6. /\ keys' \in Seq(S) /\ Stream!ToSet(keys') = S
      /\ \A i, j \in 1 .. Len(keys') : i < j => keys'[i] < keys'[j]
  BY <1>1, <1>5, AscendingLists, StreamConstants
<1>7. /\ todo' \in Seq(W) /\ Stream!ToSet(todo') = W
      /\ \A i, j \in 1 .. Len(todo') : i < j => todo'[i] < todo'[j]
  BY <1>1, <1>5, AscendingLists, StreamConstants
<1>8. Stream!TypeOK'
  <2>1. keys' \in Seq(Stream!Positions) /\ todo' \in Seq(Stream!Positions)
    BY <1>5, <1>6, <1>7, ListOfMore DEF Stream!Positions
  <2>2. token' \in Stream!NoToken .. Len(stream')
    BY <1>1, <1>2, <1>3 DEF Stream!NoToken
  <2>3. missed' \subseteq Stream!Positions
    BY <1>1, <1>2, <1>5
  <2>4. pc' \in {"top", "keys", "insert"}
    BY <1>1
  <2> QED
    BY <1>1, <2>1, <2>2, <2>3, <2>4 DEF StreamInv, Stream!TypeOK, Stream!Positions
<1>9. LeftOver'
  BY <1>1 DEF LeftOver
<1>10. InOrder'
  <2>1. \A i \in 1 .. Len(keys') : keys'[i] \in from + 1 .. to
    BY <1>5, <1>6, ListOfMore
  <2>2. \A j \in 1 .. Len(todo') : todo'[j] \in from + 1 .. to
    BY <1>5, <1>7, ListOfMore
  <2>3. Rising(keys', to) /\ Rising(todo', to)
    BY <1>3, <1>6, <1>7, <2>1, <2>2 DEF Rising
  <2>4. \A i \in 1 .. Len(shown) : shown[i] \in Nat /\ shown[i] <= token
    BY <1>2, StreamConstants DEF StreamInv, InOrder, Rising, Stream!Positions
  <2>5. Rising(shown, to)
    BY <1>2, <1>3, <2>4 DEF StreamInv, InOrder, Rising
  <2>6. \A i \in 1 .. Len(shown), j \in 1 .. Len(todo') : shown[i] < todo'[j]
    BY <1>2, <1>3, <2>2, <2>4
  <2> QED
    BY <1>1, <2>3, <2>5, <2>6 DEF InOrder
<1>11. KeysAreKnown'
  <2> SUFFICES ASSUME NEW q \in 1 .. Len(stream), stream[q].type = "key",
                      born < q, q <= to
               PROVE  \/ q \in missed' \union S
                      \/ stream[q].session \in known
    BY <1>1, <1>6 DEF KeysAreKnown
  <2>1. CASE q <= from
    <3>1. q <= token
      BY <1>2, <1>3, <2>1
    <3>2. q \in missed \/ stream[q].session \in known
      BY <1>2, <3>1 DEF StreamInv, KeysAreKnown, Stream!ToSet
    <3> QED
      BY <1>1, <3>2
  <2>2. CASE ~(q <= from)
    <3>1. q \in from + 1 .. to
      BY <1>2, <1>3, <2>2
    <3> QED
      BY <1>4, <3>1 DEF Stream!IsKey, StreamInv, Stream!TypeOK
  <2> QED
    BY <2>1, <2>2
<1>12. Stream!NothingSkipped'
  <2> SUFFICES ASSUME NEW p \in 1 .. Len(stream), p <= to, ~Stream!IsKey(p)
               PROVE  p \in Stream!ToSet(shown) \union W \union missed'
    BY <1>1, <1>7 DEF Stream!NothingSkipped, Stream!IsKey
  <2>1. CASE p <= from
    <3>1. p <= token
      BY <1>2, <1>3, <2>1
    <3>2. p \in Stream!ToSet(shown) \union missed
      BY <1>2, <3>1 DEF StreamInv, Stream!NothingSkipped, Stream!ToSet
    <3> QED
      BY <1>1, <3>2
  <2>2. CASE ~(p <= from)
    <3>1. p \in from + 1 .. to
      BY <1>2, <1>3, <2>2
    <3> QED
      BY <1>1, <1>4, <3>1
  <2> QED
    BY <2>1, <2>2
<1>13. RepliesPassed'
  <2> SUFFICES ASSUME NEW p \in Stream!Positions, reply[p] > 0
               PROVE  p <= to /\ reply[p] <= to
    BY <1>1 DEF RepliesPassed
  <2>1. p <= token /\ reply[p] <= token /\ p \in Nat /\ reply[p] \in Nat
    BY DEF StreamInv, RepliesPassed, Stream!TypeOK, Stream!Positions
  <2> QED
    BY <1>2, <1>3, <2>1
<1>14. Stream!KeyInTimeDecrypts'
  BY <1>1 DEF StreamInv, Stream!KeyInTimeDecrypts
<1> QED
  BY <1>8, <1>9, <1>10, <1>11, <1>12, <1>13, <1>14 DEF StreamInv

\* What the first of the to-device events is.
LEMMA FirstKey ==
  ASSUME StreamInv, keys # <<>>
  PROVE  /\ Head(keys) \in Stream!Positions /\ Head(keys) \in 1 .. Len(stream)
         /\ stream[Head(keys)] \in Stream!Items
         /\ stream[Head(keys)].type = "key" => stream[Head(keys)].session \in Sessions
         /\ Tail(keys) \in Seq(Stream!Positions) /\ Rising(Tail(keys), token)
         /\ Stream!ToSet(keys) = {Head(keys)} \union Stream!ToSet(Tail(keys))
<1>1. /\ stream \in Seq(Stream!Items) /\ Len(stream) \in Nat
      /\ token \in -1 .. Len(stream) /\ keys \in Seq(Stream!Positions)
      /\ Rising(keys, token)
  BY DEF StreamInv, Stream!TypeOK, Stream!NoToken, InOrder
<1>2. /\ Head(keys) = keys[1] /\ Head(keys) \in Stream!Positions /\ 1 \in 1 .. Len(keys)
      /\ Tail(keys) \in Seq(Stream!Positions)
      /\ Stream!ToSet(keys) = {Head(keys)} \union Stream!ToSet(Tail(keys))
  BY <1>1, FirstAndRest
<1>3. Head(keys) <= token
  BY <1>1, <1>2 DEF Rising
<1>4. Head(keys) \in 1 .. Len(stream)
  BY <1>1, <1>2, <1>3, StreamConstants DEF Stream!Positions
<1>5. stream[Head(keys)] \in Stream!Items
  BY <1>1, <1>4
<1>6. stream[Head(keys)].type = "key" => stream[Head(keys)].session \in Sessions
  BY <1>5 DEF Stream!Items
<1> QED
  BY <1>1, <1>2, <1>4, <1>5, <1>6, RisingRest

\* A to-device event was looked into: its key is known, or missed for good.
LEMMA HandleKeyKeeps ==
  ASSUME StreamInv, Stream!HandleKey
  PROVE  StreamInv'
<1> DEFINE k == Head(keys)
<1>1. /\ pc = "keys" /\ keys' = Tail(keys) /\ todo' = todo
      /\ pc' = IF keys' # <<>> THEN "keys" ELSE IF todo # <<>> THEN "insert" ELSE "top"
      /\ stream' = stream /\ born' = born /\ token' = token /\ rows' = rows
      /\ shown' = shown /\ reply' = reply /\ runs' = runs
  BY DEF Stream!HandleKey, Stream!GoOn, Stream!server
<1>2. \/ known' = (IF stream[k].type = "key" THEN known \union {stream[k].session}
                   ELSE known) /\ missed' = missed
      \/ stream[k].type = "key" /\ missed' = missed \union {k} /\ known' = known
  BY DEF Stream!HandleKey
<1>3. keys # <<>>
  BY <1>1 DEF StreamInv, LeftOver
<1>4. /\ k \in Stream!Positions /\ k \in 1 .. Len(stream)
      /\ stream[k].type = "key" => stream[k].session \in Sessions
      /\ Tail(keys) \in Seq(Stream!Positions) /\ Rising(Tail(keys), token)
      /\ Stream!ToSet(keys) = {k} \union Stream!ToSet(Tail(keys))
  BY <1>3, FirstKey
<1> HIDE DEF k
<1>5. /\ known \subseteq known' /\ missed \subseteq missed'
      /\ known' \subseteq Sessions /\ missed' \subseteq Stream!Positions
      /\ stream[k].type = "key" => k \in missed' \/ stream[k].session \in known'
  BY <1>2, <1>4 DEF StreamInv, Stream!TypeOK
<1>6. Stream!TypeOK'
  BY <1>1, <1>4, <1>5 DEF StreamInv, Stream!TypeOK, Stream!Positions
<1>7. LeftOver' /\ RepliesPassed'
  BY <1>1 DEF StreamInv, LeftOver, RepliesPassed
<1>8. InOrder'
  BY <1>1, <1>4 DEF StreamInv, InOrder, Rising
<1>9. KeysAreKnown'
  <2> SUFFICES ASSUME NEW q \in 1 .. Len(stream), stream[q].type = "key",
                      born < q, q <= token
               PROVE  \/ q \in missed' \union Stream!ToSet(Tail(keys))
                      \/ stream[q].session \in known'
    BY <1>1 DEF KeysAreKnown
  <2>1. \/ q \in missed \union Stream!ToSet(keys)
        \/ stream[q].session \in known
    BY DEF StreamInv, KeysAreKnown
  <2> QED
    BY <1>4, <1>5, <2>1
<1>10. Stream!NothingSkipped'
  BY <1>1, <1>5 DEF StreamInv, Stream!NothingSkipped, Stream!IsKey
<1>11. Stream!KeyInTimeDecrypts'
  BY <1>1, <1>5 DEF StreamInv, Stream!KeyInTimeDecrypts
<1> QED
  BY <1>6, <1>7, <1>8, <1>9, <1>10, <1>11 DEF StreamInv

\* What the first of the room events is.
LEMMA FirstEvent ==
  ASSUME StreamInv, todo # <<>>
  PROVE  /\ Head(todo) = todo[1] /\ Head(todo) \in Stream!Positions
         /\ Head(todo) \in 1 .. Len(stream) /\ Head(todo) <= token
         /\ Tail(todo) \in Seq(Stream!Positions) /\ Rising(Tail(todo), token)
         /\ \A j \in 1 .. Len(Tail(todo)) : Head(todo) < Tail(todo)[j]
         /\ \A i \in 1 .. Len(shown) : shown[i] < Head(todo)
         /\ \A i \in 1 .. Len(shown), j \in 1 .. Len(Tail(todo)) :
                shown[i] < Tail(todo)[j]
         /\ Stream!ToSet(todo) = {Head(todo)} \union Stream!ToSet(Tail(todo))
<1>1. /\ Len(stream) \in Nat /\ token \in -1 .. Len(stream)
      /\ todo \in Seq(Stream!Positions) /\ Rising(todo, token)
      /\ \A i \in 1 .. Len(shown), j \in 1 .. Len(todo) : shown[i] < todo[j]
  BY DEF StreamInv, Stream!TypeOK, Stream!NoToken, InOrder
<1>2. /\ Head(todo) = todo[1] /\ Head(todo) \in Stream!Positions /\ 1 \in 1 .. Len(todo)
      /\ Tail(todo) \in Seq(Stream!Positions)
      /\ Len(todo) \in Nat /\ Len(Tail(todo)) = Len(todo) - 1
      /\ \A i \in 1 .. Len(Tail(todo)) :
             i + 1 \in 1 .. Len(todo) /\ Tail(todo)[i] = todo[i + 1]
      /\ Stream!ToSet(todo) = {Head(todo)} \union Stream!ToSet(Tail(todo))
  BY <1>1, FirstAndRest
<1>3. Head(todo) <= token
  BY <1>1, <1>2 DEF Rising
<1>4. Head(todo) \in 1 .. Len(stream)
  BY <1>1, <1>2, <1>3, StreamConstants DEF Stream!Positions
<1>5. \A j \in 1 .. Len(Tail(todo)) : Head(todo) < Tail(todo)[j]
  BY <1>1, <1>2 DEF Rising
<1>6. /\ \A i \in 1 .. Len(shown) : shown[i] < Head(todo)
      /\ \A i \in 1 .. Len(shown), j \in 1 .. Len(Tail(todo)) :
             shown[i] < Tail(todo)[j]
  BY <1>1, <1>2
<1>7. Rising(Tail(todo), token)
  BY <1>1, <1>2, RisingRest
<1> QED
  BY <1>2, <1>3, <1>4, <1>5, <1>6, <1>7

\* An event is stored, readable or not: all keys of its reply were looked into.
LEMMA InsertKeeps ==
  ASSUME StreamInv, Stream!Insert
  PROVE  StreamInv'
<1> DEFINE e == Head(todo)
<1>1. /\ pc = "insert" /\ pc' = "event" /\ reply' = [reply EXCEPT ![e] = token]
      /\ rows' = [rows EXCEPT ![e] = IF Stream!Readable(e) THEN "clear" ELSE "cipher"]
      /\ stream' = stream /\ born' = born /\ token' = token /\ keys' = keys
      /\ todo' = todo /\ known' = known /\ shown' = shown /\ missed' = missed
      /\ runs' = runs
  BY DEF Stream!Insert, Stream!server
<1>2. keys = <<>> /\ todo # <<>>
  BY <1>1 DEF StreamInv, LeftOver
<1>3. e \in Stream!Positions /\ e \in 1 .. Len(stream) /\ e <= token
  BY <1>2, FirstEvent
<1> HIDE DEF e
<1>4. /\ stream \in Seq(Stream!Items) /\ Len(stream) \in Nat /\ Len(stream) <= MaxStream
      /\ token \in -1 .. Len(stream)
      /\ reply \in [Stream!Positions -> 0 .. MaxStream]
      /\ rows \in [Stream!Positions -> {"absent", "cipher", "clear"}]
  BY DEF StreamInv, Stream!TypeOK, Stream!NoToken
<1>5. token \in 0 .. MaxStream /\ token \in 1 .. Len(stream)
  BY <1>3, <1>4, StreamConstants
<1>6. Stream!TypeOK'
  <2>1. reply' \in [Stream!Positions -> 0 .. MaxStream]
    BY <1>1, <1>4, <1>5
  <2>2. rows' \in [Stream!Positions -> {"absent", "cipher", "clear"}]
    BY <1>1, <1>4
  <2> QED
    BY <1>1, <2>1, <2>2 DEF StreamInv, Stream!TypeOK, Stream!Positions
<1>7. LeftOver' /\ InOrder' /\ KeysAreKnown'
  BY <1>1, <1>2 DEF StreamInv, LeftOver, InOrder, Rising, KeysAreKnown
<1>8. RepliesPassed'
  BY <1>1, <1>3, <1>4, <1>5 DEF StreamInv, RepliesPassed
<1>9. Stream!NothingSkipped'
  BY <1>1 DEF StreamInv, Stream!NothingSkipped, Stream!IsKey
<1>10. Stream!KeyInTimeDecrypts'
  <2> SUFFICES ASSUME NEW p \in 1 .. Len(stream), NEW q \in 1 .. Len(stream),
                      reply'[p] > 0, rows'[p] = "cipher",
                      stream[q] = [type |-> "key", session |-> stream[p].session],
                      born < q, q <= reply'[p]
               PROVE  q \in missed
    BY <1>1 DEF Stream!KeyInTimeDecrypts
  <2>0. p \in Stream!Positions
    BY <1>4, StreamConstants DEF Stream!Positions
  <2>1. CASE p = e
    <3>1. reply'[p] = token /\ ~Stream!Readable(e)
      BY <1>1, <1>3, <1>4, <2>1
    <3>2. stream[q].type = "key" /\ stream[q].session = stream[p].session
      OBVIOUS
    <3>3. q \in missed \/ stream[p].session \in known
      BY <1>2, <3>1, <3>2 DEF StreamInv, KeysAreKnown, Stream!ToSet
    <3> QED
      BY <2>1, <3>1, <3>3 DEF Stream!Readable
  <2>2. CASE p # e
    <3>1. reply'[p] = reply[p] /\ rows'[p] = rows[p]
      BY <1>1, <1>4, <2>0, <2>2
    <3> QED
      BY <3>1 DEF StreamInv, Stream!KeyInTimeDecrypts
  <2> QED
    BY <2>1, <2>2
<1> QED
  BY <1>6, <1>7, <1>8, <1>9, <1>10 DEF StreamInv

\* An event is given to the callback: behind all that were before it.
LEMMA HandleEventKeeps ==
  ASSUME StreamInv, Stream!HandleEvent
  PROVE  StreamInv'
<1> DEFINE e == Head(todo)
           rest == Tail(todo)
<1>1. /\ pc = "event" /\ shown' = Append(shown, e) /\ todo' = rest
      /\ pc' = IF keys # <<>> THEN "keys" ELSE IF rest # <<>> THEN "insert" ELSE "top"
      /\ stream' = stream /\ born' = born /\ token' = token /\ keys' = keys
      /\ known' = known /\ rows' = rows /\ missed' = missed /\ reply' = reply
      /\ runs' = runs
  BY DEF Stream!HandleEvent, Stream!GoOn, Stream!server
<1>2. keys = <<>> /\ todo # <<>>
  BY <1>1 DEF StreamInv, LeftOver
<1>3. /\ e \in Stream!Positions /\ e \in 1 .. Len(stream) /\ e <= token
      /\ rest \in Seq(Stream!Positions) /\ Rising(rest, token)
      /\ \A j \in 1 .. Len(rest) : e < rest[j]
      /\ \A i \in 1 .. Len(shown) : shown[i] < e
      /\ \A i \in 1 .. Len(shown), j \in 1 .. Len(rest) : shown[i] < rest[j]
      /\ Stream!ToSet(todo) = {e} \union Stream!ToSet(rest)
  BY <1>2, FirstEvent
<1> HIDE DEF e, rest
<1>4. shown \in Seq(Stream!Positions) /\ Len(shown) \in Nat
  BY DEF StreamInv, Stream!TypeOK
<1>5. /\ shown' \in Seq(Stream!Positions) /\ Len(shown') = Len(shown) + 1
      /\ shown'[Len(shown) + 1] = e
      /\ \A i \in 1 .. Len(shown) : shown'[i] = shown[i]
      /\ \A i \in 1 .. Len(shown') : i = Len(shown) + 1 \/ i \in 1 .. Len(shown)
  BY <1>1, <1>3, <1>4
<1>6. Stream!TypeOK'
  BY <1>1, <1>3, <1>5 DEF StreamInv, Stream!TypeOK, Stream!Positions
<1>7. LeftOver'
  BY <1>1, <1>2 DEF LeftOver
<1>8. InOrder'
  <2>1. Rising(shown, token)
    BY DEF StreamInv, InOrder
  <2>2. \A i, j \in 1 .. Len(shown') : i < j => shown'[i] < shown'[j]
    BY <1>3, <1>4, <1>5, <2>1 DEF Rising
  <2>3. \A i \in 1 .. Len(shown') : shown'[i] <= token
    BY <1>3, <1>4, <1>5, <2>1 DEF Rising
  <2>4. \A i \in 1 .. Len(shown'), j \in 1 .. Len(rest) : shown'[i] < rest[j]
    BY <1>3, <1>4, <1>5
  <2>5. Rising(shown', token)
    BY <2>2, <2>3 DEF Rising
  <2> QED
    BY <1>1, <1>3, <2>4, <2>5 DEF StreamInv, InOrder, Rising
<1>9. KeysAreKnown' /\ RepliesPassed'
  BY <1>1 DEF StreamInv, KeysAreKnown, RepliesPassed
<1>10. Stream!NothingSkipped'
  <2>1. \A x \in Stream!ToSet(shown) : x \in Stream!ToSet(shown')
    <3>1. DOMAIN shown = 1 .. Len(shown) /\ DOMAIN shown' = 1 .. Len(shown')
      BY <1>4, <1>5
    <3>2. 1 .. Len(shown) \subseteq 1 .. Len(shown')
      BY <1>4, <1>5
    <3> QED
      BY <1>5, <3>1, <3>2 DEF Stream!ToSet
  <2>2. e \in Stream!ToSet(shown')
    <3>1. DOMAIN shown' = 1 .. Len(shown')
      BY <1>5
    <3>2. Len(shown) + 1 \in 1 .. Len(shown')
      BY <1>4, <1>5
    <3> QED
      BY <1>5, <3>1, <3>2 DEF Stream!ToSet
  <2> SUFFICES ASSUME NEW p \in 1 .. Len(stream), p <= token, ~Stream!IsKey(p)
               PROVE  p \in Stream!ToSet(shown') \union Stream!ToSet(rest) \union missed
    BY <1>1 DEF Stream!NothingSkipped, Stream!IsKey
  <2>3. p \in Stream!ToSet(shown) \union Stream!ToSet(todo) \union missed
    BY DEF StreamInv, Stream!NothingSkipped
  <2> QED
    BY <1>3, <2>1, <2>2, <2>3
<1>11. Stream!KeyInTimeDecrypts'
  BY <1>1 DEF StreamInv, Stream!KeyInTimeDecrypts
<1> QED
  BY <1>6, <1>7, <1>8, <1>9, <1>10, <1>11 DEF StreamInv

\* An exception: what was left of the reply is missed.
LEMMA ThrowsKeeps ==
  ASSUME StreamInv, Stream!Throws
  PROVE  StreamInv'
<1>1. /\ pc' = "sleep" /\ keys' = <<>> /\ todo' = <<>>
      /\ missed' = missed \union Stream!ToSet(keys) \union Stream!ToSet(todo)
      /\ stream' = stream /\ born' = born /\ token' = token /\ rows' = rows
      /\ shown' = shown /\ reply' = reply /\ runs' = runs
  BY DEF Stream!Throws, Stream!server
<1>2. known \subseteq known' /\ known' \subseteq Sessions
  <2>1. CASE known' = known
    BY <2>1 DEF StreamInv, Stream!TypeOK
  <2>2. CASE /\ pc = "keys" /\ stream[Head(keys)].type = "key"
             /\ known' = known \union {stream[Head(keys)].session}
    <3>1. keys # <<>>
      BY <2>2 DEF StreamInv, LeftOver
    <3>2. stream[Head(keys)].session \in Sessions
      BY <2>2, <3>1, FirstKey
    <3> QED
      BY <2>2, <3>2 DEF StreamInv, Stream!TypeOK
  <2> QED
    BY <2>1, <2>2 DEF Stream!Throws
<1>3. keys \in Seq(Stream!Positions) /\ todo \in Seq(Stream!Positions)
  BY DEF StreamInv, Stream!TypeOK
<1>4. /\ Stream!ToSet(keys) \subseteq Stream!Positions
      /\ Stream!ToSet(todo) \subseteq Stream!Positions
  BY <1>3 DEF Stream!ToSet
<1>5. Stream!TypeOK'
  <2>1. missed' \subseteq Stream!Positions
    BY <1>1, <1>4 DEF StreamInv, Stream!TypeOK
  <2> QED
    BY <1>1, <1>2, <2>1 DEF StreamInv, Stream!TypeOK, Stream!Positions
<1>6. LeftOver' /\ InOrder' /\ RepliesPassed'
  BY <1>1 DEF StreamInv, LeftOver, InOrder, Rising, RepliesPassed
<1>7. KeysAreKnown'
  <2> SUFFICES ASSUME NEW q \in 1 .. Len(stream), stream[q].type = "key",
                      born < q, q <= token
               PROVE  q \in missed' \/ stream[q].session \in known'
    BY <1>1 DEF KeysAreKnown
  <2>1. \/ q \in missed \union Stream!ToSet(keys)
        \/ stream[q].session \in known
    BY DEF StreamInv, KeysAreKnown
  <2> QED
    BY <1>1, <1>2, <2>1
<1>8. Stream!NothingSkipped'
  <2> SUFFICES ASSUME NEW p \in 1 .. Len(stream), p <= token, ~Stream!IsKey(p)
               PROVE  p \in Stream!ToSet(shown) \union missed'
    BY <1>1 DEF Stream!NothingSkipped, Stream!IsKey
  <2>1. p \in Stream!ToSet(shown) \union Stream!ToSet(todo) \union missed
    BY DEF StreamInv, Stream!NothingSkipped
  <2> QED
    BY <1>1, <2>1
<1>9. Stream!KeyInTimeDecrypts'
  BY <1>1 DEF StreamInv, Stream!KeyInTimeDecrypts
<1> QED
  BY <1>5, <1>6, <1>7, <1>8, <1>9 DEF StreamInv

\* The process ends, and a new device logs in: no token, nothing in memory.
LEMMA RestartKeeps ==
  ASSUME StreamInv, Stream!Crash \/ Stream!Login
  PROVE  StreamInv'
<1>0. /\ Len(stream) \in Nat /\ stream \in Seq(Stream!Items)
      /\ token \in -1 .. Len(stream) /\ runs \in 1 .. MaxRuns
      /\ 0 \in 0 .. MaxStream
  BY StreamConstants DEF StreamInv, Stream!TypeOK, Stream!NoToken
<1>1. CASE Stream!Crash
  <2>1. /\ pc' = "down" /\ token' = -1 /\ keys' = <<>> /\ todo' = <<>>
        /\ known' = {} /\ shown' = <<>> /\ missed' = {}
        /\ reply' = [p \in Stream!Positions |-> 0]
        /\ stream' = stream /\ born' = born /\ rows' = rows /\ runs' = runs
    BY <1>1 DEF Stream!Crash, Stream!server, Stream!NoToken
  <2>2. -1 \in Stream!NoToken .. Len(stream)
    BY <1>0 DEF Stream!NoToken
  <2>3. Stream!TypeOK'
    BY <1>0, <2>1, <2>2 DEF StreamInv, Stream!TypeOK, Stream!Positions, Stream!NoToken
  <2>4. LeftOver' /\ InOrder' /\ RepliesPassed'
    BY <2>1 DEF LeftOver, InOrder, Rising, RepliesPassed, Stream!NoToken, Stream!Positions
  <2>5. KeysAreKnown' /\ Stream!NothingSkipped'
    BY <1>0, <2>1 DEF KeysAreKnown, Stream!NothingSkipped
  <2>6. Stream!KeyInTimeDecrypts'
    <3>1. \A p \in 1 .. Len(stream) : p \in Stream!Positions
      BY <1>0, StreamConstants DEF StreamInv, Stream!TypeOK, Stream!Positions
    <3> QED
      BY <2>1, <3>1 DEF Stream!KeyInTimeDecrypts
  <2> QED
    BY <2>3, <2>4, <2>5, <2>6 DEF StreamInv
<1>2. CASE Stream!Login
  <2>1. /\ pc = "down" /\ pc' = "top" /\ born' = Len(stream) /\ runs < MaxRuns
        /\ runs' = runs + 1
        /\ stream' = stream /\ token' = token /\ keys' = keys /\ todo' = todo
        /\ known' = known /\ rows' = rows /\ shown' = shown /\ missed' = missed
        /\ reply' = reply
    BY <1>2 DEF Stream!Login
  <2>2. /\ token = -1 /\ keys = <<>> /\ todo = <<>> /\ shown = <<>>
        /\ \A p \in Stream!Positions : reply[p] = 0
    BY <2>1 DEF StreamInv, LeftOver, Stream!NoToken
  <2>3. Stream!TypeOK'
    <3>1. runs' \in 1 .. MaxRuns /\ born' \in 0 .. Len(stream')
      BY <1>0, <2>1, StreamConstants
    <3> QED
      BY <2>1, <3>1 DEF StreamInv, Stream!TypeOK, Stream!Positions
  <2>4. LeftOver' /\ InOrder' /\ RepliesPassed'
    BY <2>1, <2>2 DEF StreamInv, LeftOver, InOrder, Rising, RepliesPassed
  <2>5. KeysAreKnown' /\ Stream!NothingSkipped'
    BY <1>0, <2>1, <2>2 DEF KeysAreKnown, Stream!NothingSkipped
  <2>6. Stream!KeyInTimeDecrypts'
    <3>1. \A p \in 1 .. Len(stream) : p \in Stream!Positions
      BY <1>0, StreamConstants DEF StreamInv, Stream!TypeOK, Stream!Positions
    <3> QED
      BY <2>1, <2>2, <3>1 DEF Stream!KeyInTimeDecrypts
  <2> QED
    BY <2>3, <2>4, <2>5, <2>6 DEF StreamInv
<1> QED
  BY <1>1, <1>2

\* It holds at the start.
LEMMA StreamBegins ==
  ASSUME Stream!Init
  PROVE  StreamInv
<1>1. /\ stream = <<>> /\ born = 0 /\ pc = "top" /\ token = -1 /\ keys = <<>>
      /\ todo = <<>> /\ known = {} /\ rows = [p \in Stream!Positions |-> "absent"]
      /\ shown = <<>> /\ missed = {} /\ reply = [p \in Stream!Positions |-> 0]
      /\ runs = 1
  BY DEF Stream!Init, Stream!NoToken
<1>2. Stream!TypeOK
  <2>1. 0 \in 0 .. MaxStream /\ 1 \in 1 .. MaxRuns
    BY StreamConstants
  <2> QED
    BY <1>1, <2>1, StreamConstants DEF Stream!TypeOK, Stream!NoToken
<1>3. LeftOver /\ InOrder /\ RepliesPassed
  BY <1>1 DEF LeftOver, InOrder, Rising, RepliesPassed
<1>4. KeysAreKnown /\ Stream!NothingSkipped /\ Stream!KeyInTimeDecrypts
  BY <1>1 DEF KeysAreKnown, Stream!NothingSkipped, Stream!KeyInTimeDecrypts
<1> QED
  BY <1>2, <1>3, <1>4 DEF StreamInv

\* And every step keeps it.
LEMMA StreamStep ==
  ASSUME StreamInv, Stream!Next
  PROVE  StreamInv'
<1>1. ASSUME NEW item \in Stream!Items, Stream!Post(item) PROVE StreamInv'
  BY <1>1, PostKeeps
<1>2. CASE Stream!LoopTop \/ Stream!PollFails \/ Stream!Wake
  BY <1>2, StreamMoves
<1>3. ASSUME NEW to, Stream!PollOk(to) PROVE StreamInv'
  BY <1>3, PollOkKeeps
<1>4. CASE Stream!HandleKey
  BY <1>4, HandleKeyKeeps
<1>5. CASE Stream!Insert
  BY <1>5, InsertKeeps
<1>6. CASE Stream!HandleEvent
  BY <1>6, HandleEventKeeps
<1>7. CASE Stream!Throws
  BY <1>7, ThrowsKeeps
<1>8. CASE Stream!Crash \/ Stream!Login
  BY <1>8, RestartKeeps
<1> QED
  BY <1>1, <1>2, <1>3, <1>4, <1>5, <1>6, <1>7, <1>8 DEF Stream!Next, Stream!SyncThread

-----------------------------------------------------------------------------
(* The offline cache.                                                      *)

\* What a reply is worked off in.
Piece ==
    [do : {"retry", "event"}, msg : Msgs]
        \union [do : {"room", "invite"}, name : {Cache!Fallback} \union 0 .. MaxName]
        \union [do : {"join"}]

CacheTypes ==
    /\ Cache!TypeOK
    /\ work \in Seq(Piece)
    /\ sent \in Seq(Msgs)
    /\ clock \in 0 .. MaxClock

\* A message that is stored as text has its key; keys do not go.
TextHasKey == \A m \in Msgs : stored[m] = "text" => m \in keys

CacheInv ==
    /\ CacheTypes
    /\ TextHasKey
    /\ Cache!RawIsRemembered
    /\ Cache!HandedOverIsStored
    /\ Cache!NoStaleName

\* The bounds are numbers.
LEMMA CacheConstants ==
  /\ MaxName \in Nat /\ MaxClock \in Nat /\ IsFiniteSet(Msgs)
  /\ \A n \in 0 .. MaxName : n \in Nat
<1>1. \A S : Cache!IsFiniteSet(S) = IsFiniteSet(S)
  BY Zenon DEF Cache!IsFiniteSet, IsFiniteSet
<1> QED
  BY <1>1, SyncAssumption DEF Cache!CacheAssumption

\* A finite set as a sequence, in some order.
LEMMA SetAsSeq ==
  ASSUME NEW S, IsFiniteSet(S)
  PROVE  Cache!SetToSeq(S) \in Seq(S)
<1> DEFINE n == Cardinality(S)
<1>1. n \in Nat /\ ExistsBijection(1 .. n, S)
  BY FS_CardinalityType
<1>2. PICK f \in [1 .. n -> S] : IsInjective(f)
  BY <1>1 DEF ExistsBijection, Bijection, Injection
<1>3. Cache!IsInjective(f)
  BY <1>2, Zenon DEF IsInjective, Cache!IsInjective
<1>4. Cache!Cardinality(S) = n
  BY Zenon DEF Cache!Cardinality, Cardinality
<1> HIDE DEF n
<1>5. Cache!SetToSeq(S) = CHOOSE g \in [1 .. n -> S] : Cache!IsInjective(g)
  BY <1>4, Zenon DEF Cache!SetToSeq
<1>6. Cache!SetToSeq(S) \in [1 .. n -> S]
  BY <1>2, <1>3, <1>5
<1> QED
  BY <1>1, <1>6, SeqDef

\* The members of a sequence.
In(s) == {s[i] : i \in 1 .. Len(s)}

\* Of two sequences put together they are those of either.
LEMMA InBoth ==
  ASSUME NEW S, NEW s \in Seq(S), NEW t \in Seq(S)
  PROVE  s \o t \in Seq(S) /\ In(s \o t) = In(s) \union In(t)
<1>1. /\ s \o t \in Seq(S) /\ Len(s \o t) = Len(s) + Len(t)
      /\ Len(s) \in Nat /\ Len(t) \in Nat
  OBVIOUS
<1>2. \A i \in 1 .. Len(s \o t) :
          (s \o t)[i] = IF i <= Len(s) THEN s[i] ELSE t[i - Len(s)]
  BY ConcatProperties
<1> DEFINE u == s \o t
<1> HIDE DEF u
<1>3. ASSUME NEW i \in 1 .. Len(u) PROVE u[i] \in In(s) \union In(t)
  <2>1. CASE i <= Len(s)
    <3>1. i \in 1 .. Len(s) /\ u[i] = s[i]
      BY <1>1, <1>2, <2>1 DEF u
    <3> QED
      BY <3>1 DEF In
  <2>2. CASE ~(i <= Len(s))
    <3>1. i - Len(s) \in 1 .. Len(t) /\ u[i] = t[i - Len(s)]
      BY <1>1, <1>2, <2>2 DEF u
    <3> QED
      BY <3>1 DEF In
  <2> QED
    BY <2>1, <2>2
<1>4. ASSUME NEW i \in 1 .. Len(s) PROVE s[i] \in In(u)
  <2>1. i \in 1 .. Len(u) /\ u[i] = s[i]
    BY <1>1, <1>2 DEF u
  <2> QED
    BY <2>1 DEF In
<1>5. ASSUME NEW i \in 1 .. Len(t) PROVE t[i] \in In(u)
  <2>1. /\ i + Len(s) \in 1 .. Len(u) /\ ~(i + Len(s) <= Len(s))
        /\ (i + Len(s)) - Len(s) = i
    BY <1>1 DEF u
  <2>2. u[i + Len(s)] = t[i]
    BY <1>2, <2>1 DEF u
  <2> QED
    BY <2>1, <2>2 DEF In
<1>6. In(u) \subseteq In(s) \union In(t)
  BY <1>3 DEF In
<1>7. In(s) \subseteq In(u) /\ In(t) \subseteq In(u)
  BY <1>4, <1>5 DEF In
<1> QED
  BY <1>1, <1>6, <1>7 DEF u

\* The same, with the whole by its name.
LEMMA InJoined ==
  ASSUME NEW S, NEW s, NEW t, NEW u, s \in Seq(S), t \in Seq(S), u = s \o t
  PROVE  u \in Seq(S) /\ In(s) \subseteq In(u) /\ In(t) \subseteq In(u)
BY InBoth

\* By places of the sequence as well.
LEMMA InDomain ==
  ASSUME NEW S, NEW s \in Seq(S)
  PROVE  In(s) = {s[k] : k \in DOMAIN s} /\ In(s) \subseteq S
<1>1. DOMAIN s = 1 .. Len(s) /\ \A k \in 1 .. Len(s) : s[k] \in S
  OBVIOUS
<1>2. In(s) = {s[k] : k \in DOMAIN s}
  BY <1>1, Zenon DEF In
<1>3. In(s) \subseteq S
  BY <1>1, Zenon DEF In
<1> QED
  BY <1>2, <1>3

\* A message that was handed over and is still to be stored.
Due(m) == [do |-> "event", msg |-> m]

\* The piece feedCache takes next.
LEMMA FirstPiece ==
  ASSUME CacheTypes, work # <<>>
  PROVE  /\ Head(work) \in Piece /\ Tail(work) \in Seq(Piece)
         /\ In(work) = {Head(work)} \union In(Tail(work))
         /\ Head(work).do \in {"retry", "event"} => Head(work).msg \in Msgs
         /\ Head(work).do = "event" => Head(work) = Due(Head(work).msg)
         /\ Head(work).do \in {"room", "invite"} =>
                Head(work).name \in {Cache!Fallback} \union 0 .. MaxName
         /\ Head(work).do # "event" => \A m \in Msgs : Head(work) # Due(m)
<1>1. work \in Seq(Piece)
  BY DEF CacheTypes
<1>2. /\ Head(work) \in Piece /\ Tail(work) \in Seq(Piece)
      /\ Stream!ToSet(work) = {Head(work)} \union Stream!ToSet(Tail(work))
  BY <1>1, FirstAndRest
<1>3. In(work) = {Head(work)} \union In(Tail(work))
  BY <1>1, <1>2, InDomain, Zenon DEF Stream!ToSet
<1>4. \A x \in Piece :
        /\ x.do \in {"retry", "event"} => x.msg \in Msgs
        /\ x.do = "event" => x = Due(x.msg)
        /\ x.do \in {"room", "invite"} => x.name \in {Cache!Fallback} \union 0 .. MaxName
        /\ x.do # "event" => \A m \in Msgs : x # Due(m)
  BY DEF Piece, Due
<1> QED
  BY <1>2, <1>3, <1>4

\* What HandedOverIsStored says, by the members of the reply in work.
LEMMA HandedOverIn ==
  ASSUME work \in Seq(Piece)
  PROVE  Cache!HandedOverIsStored <=>
            \A i \in 1 .. pos : \/ stored[sent[i]] # "absent"
                                \/ Due(sent[i]) \in In(work)
                                \/ sent[i] \in forgotten
<1>1. In(work) = {work[k] : k \in DOMAIN work}
  BY InDomain
<1>2. \A x : (\E k \in DOMAIN work : work[k] = x) <=> x \in In(work)
  BY <1>1, Zenon
<1> QED
  BY <1>2, Zenon DEF Cache!HandedOverIsStored, Due

\* The same of the next state.
LEMMA HandedOverInNext ==
  ASSUME work' \in Seq(Piece)
  PROVE  Cache!HandedOverIsStored' <=>
            \A i \in 1 .. pos' : \/ stored'[sent'[i]] # "absent"
                                 \/ Due(sent'[i]) \in In(work')
                                 \/ sent'[i] \in forgotten'
<1>1. In(work') = {work'[k] : k \in DOMAIN work'}
  BY InDomain
<1>2. \A x : (\E k \in DOMAIN work' : work'[k] = x) <=> x \in In(work')
  BY <1>1, Zenon
<1> QED
  BY <1>2, Zenon DEF Cache!HandedOverIsStored, Due

\* The server, the keys and the clock move; the cache does not.
LEMMA OutsideKeeps ==
  ASSUME CacheInv,
         \/ Cache!Rename \/ Cache!Invite \/ Cache!Join \/ Cache!Tick
         \/ \E m \in Msgs : Cache!Post(m) \/ Cache!ImportKey(m)
  PROVE  CacheInv'
<1>1. /\ row' = row /\ stored' = stored /\ members' = members /\ pending' = pending
      /\ work' = work /\ fed' = fed /\ pos' = pos /\ told' = told
      /\ forgotten' = forgotten /\ seenName' = seenName
      /\ keys \subseteq keys'
  BY DEF Cache!Rename, Cache!Invite, Cache!Join, Cache!Tick, Cache!Post, Cache!ImportKey,
         Cache!db, Cache!hist, Cache!server
<1>2. /\ sent \in Seq(Msgs) /\ pos \in 0 .. Len(sent) /\ Len(sent) \in Nat
      /\ clock \in 0 .. MaxClock /\ name \in 0 .. MaxName /\ keys \subseteq Msgs
      /\ status \in {"none", "invite", "join"}
  BY DEF CacheInv, CacheTypes, Cache!TypeOK
<1>3. sent' = sent \/ \E m \in Msgs : sent' = Append(sent, m)
  BY DEF Cache!Rename, Cache!Invite, Cache!Join, Cache!Tick, Cache!Post, Cache!ImportKey,
         Cache!server
<1>4. /\ sent' \in Seq(Msgs) /\ pos \in 0 .. Len(sent')
      /\ \A i \in 1 .. pos : sent'[i] = sent[i]
  BY <1>2, <1>3
<1>5. clock' \in 0 .. MaxClock /\ name' \in 0 .. MaxName
      /\ status' \in {"none", "invite", "join"}
  BY <1>2, CacheConstants
  DEF Cache!Rename, Cache!Invite, Cache!Join, Cache!Tick, Cache!Post, Cache!ImportKey,
      Cache!server
<1>6. keys' \subseteq Msgs
  <2>1. Cache!Range(sent) \subseteq Msgs
    BY DEF CacheInv, CacheTypes, Cache!TypeOK
  <2> QED
    BY <1>2, <2>1
    DEF Cache!Rename, Cache!Invite, Cache!Join, Cache!Tick, Cache!Post, Cache!ImportKey,
        Cache!server
<1>7. Cache!Range(sent') \subseteq Msgs
  BY <1>4 DEF Cache!Range
<1>8. CacheTypes'
  BY <1>1, <1>4, <1>5, <1>6, <1>7 DEF CacheInv, CacheTypes, Cache!TypeOK, Piece,
     Cache!Member, Cache!NoRow, Cache!Fallback
<1>9. TextHasKey' /\ Cache!RawIsRemembered' /\ Cache!NoStaleName'
  BY <1>1 DEF CacheInv, TextHasKey, Cache!RawIsRemembered, Cache!NoStaleName,
     Cache!NoRow, Cache!Fallback
<1>10. Cache!HandedOverIsStored'
  BY <1>1, <1>4 DEF CacheInv, Cache!HandedOverIsStored
<1> QED
  BY <1>8, <1>9, <1>10 DEF CacheInv

\* The events to try again, as the first pieces of a reply.
LEMMA RetriesArePieces ==
  ASSUME CacheTypes
  PROVE  Cache!Retries \in Seq(Piece)
<1> DEFINE S == {[do |-> "retry", msg |-> m] : m \in pending}
           f == [m \in pending |-> [do |-> "retry", msg |-> m]]
<1>1. pending \subseteq Msgs
  BY DEF CacheTypes, Cache!TypeOK
<1>2. IsFiniteSet(pending)
  BY <1>1, CacheConstants, FS_Subset
<1>3. f \in Surjection(pending, S)
  BY DEF Surjection
<1>4. IsFiniteSet(S)
  <2> HIDE DEF f, S
  <2> QED
    BY <1>2, <1>3, FS_Surjection
<1>5. S \subseteq Piece
  BY <1>1 DEF Piece
<1> HIDE DEF S
<1>6. Cache!SetToSeq(S) \in Seq(S)
  BY <1>4, SetAsSeq
<1>7. Cache!SetToSeq(S) \in Seq(Piece)
  BY <1>5, <1>6
<1> QED
  BY <1>7, Zenon DEF Cache!Retries, S

\* The pieces a reply is made of.
LEMMA PieceKinds ==
  /\ \A m \in Msgs : Due(m) \in Piece
  /\ \A n \in {Cache!Fallback} \union 0 .. MaxName :
        [do |-> "room", name |-> n] \in Piece /\ [do |-> "invite", name |-> n] \in Piece
  /\ [do |-> "join"] \in Piece
BY DEF Piece, Due

\* A reply: whatever it hands over is in the work that it makes.
LEMMA ReplyKeeps ==
  ASSUME CacheInv, Cache!Reply
  PROVE  CacheInv'
<1>1. /\ row' = row /\ stored' = stored /\ members' = members /\ pending' = pending
      /\ name' = name /\ sent' = sent /\ keys' = keys /\ status' = status
      /\ clock' = clock /\ forgotten' = forgotten /\ seenName' = seenName
      /\ told' = status /\ work = <<>>
  BY DEF Cache!Reply, Cache!db, Cache!server, Cache!hist
<1>2. /\ sent \in Seq(Msgs) /\ pos \in 0 .. Len(sent) /\ Len(sent) \in Nat
      /\ name \in 0 .. MaxName /\ fed \in -1 .. MaxName
      /\ status \in {"none", "invite", "join"}
  BY DEF CacheInv, CacheTypes, Cache!TypeOK
<1>3. PICK n \in pos .. Len(sent), full \in BOOLEAN :
        LET carries == full \/ name # fed
            joined  == status = "join"
            news    == [i \in 1 .. (n - pos) |-> [do |-> "event", msg |-> sent[pos + i]]]
        IN  /\ work' = Cache!Retries
                   \o (IF joined
                       THEN <<[do |-> "room", name |-> IF carries THEN name
                                                       ELSE Cache!Fallback]>>
                       ELSE <<>>)
                   \o (IF joined /\ told # "join" THEN <<[do |-> "join"]>> ELSE <<>>)
                   \o (IF joined THEN news ELSE <<>>)
                   \o (IF status = "invite" THEN <<[do |-> "invite", name |-> name]>>
                       ELSE <<>>)
            /\ work' # <<>>
            /\ IF joined THEN pos' = n /\ fed' = name ELSE UNCHANGED <<pos, fed>>
  BY DEF Cache!Reply
<1> DEFINE joined == status = "join"
           news == [i \in 1 .. (n - pos) |-> [do |-> "event", msg |-> sent[pos + i]]]
           title == IF full \/ name # fed THEN name ELSE Cache!Fallback
           room == IF joined THEN <<[do |-> "room", name |-> title]>> ELSE <<>>
           join == IF joined /\ told # "join" THEN <<[do |-> "join"]>> ELSE <<>>
           events == IF joined THEN news ELSE <<>>
           invite == IF status = "invite" THEN <<[do |-> "invite", name |-> name]>>
                     ELSE <<>>
<1>4. /\ work' = Cache!Retries \o room \o join \o events \o invite
      /\ IF joined THEN pos' = n /\ fed' = name ELSE pos' = pos /\ fed' = fed
  BY <1>3
<1>5. /\ n \in Nat /\ n - pos \in Nat /\ pos \in Nat /\ n <= Len(sent) /\ pos <= n
      /\ \A i \in 1 .. (n - pos) : pos + i \in 1 .. Len(sent)
  BY <1>2
<1>6. news \in Seq(Piece) /\ Len(news) = n - pos
      /\ \A i \in 1 .. (n - pos) : news[i] = Due(sent[pos + i])
  <2>1. \A i \in 1 .. (n - pos) : sent[pos + i] \in Msgs
    BY <1>2, <1>5
  <2>2. \A i \in 1 .. (n - pos) : [do |-> "event", msg |-> sent[pos + i]] \in Piece
    BY <2>1, PieceKinds DEF Due
  <2>3. news \in [1 .. (n - pos) -> Piece]
    BY <2>2
  <2> QED
    BY <1>5, <2>3 DEF Due
<1>7. /\ room \in Seq(Piece) /\ join \in Seq(Piece) /\ invite \in Seq(Piece)
      /\ events \in Seq(Piece)
  <2>1. <<>> \in Seq(Piece) /\ \A x \in Piece : <<x>> \in Seq(Piece)
    OBVIOUS
  <2>2. title \in {Cache!Fallback} \union 0 .. MaxName
    BY <1>2
  <2> HIDE DEF title, news
  <2> QED
    BY <1>2, <1>6, <2>1, <2>2, PieceKinds
<1>8. Cache!Retries \in Seq(Piece)
  BY RetriesArePieces DEF CacheInv
<1> HIDE DEF title, news, room, join, events, invite
<1>9. work' \in Seq(Piece) /\ In(events) \subseteq In(work')
  <2> DEFINE before == Cache!Retries \o room \o join
             upto == before \o events
  <2>1. Cache!Retries \o room \in Seq(Piece)
    BY <1>7, <1>8, InBoth
  <2>2. before \in Seq(Piece)
    BY <1>7, <2>1, InBoth
  <2>3. work' = upto \o invite
    BY <1>4
  <2> HIDE DEF before
  <2>4. upto \in Seq(Piece) /\ In(events) \subseteq In(upto)
    BY <1>7, <2>2, InJoined
  <2> HIDE DEF upto
  <2>5. work' \in Seq(Piece) /\ In(upto) \subseteq In(work')
    BY <1>7, <2>3, <2>4, InJoined
  <2> QED
    BY <2>4, <2>5
<1>10. pos' \in 0 .. Len(sent) /\ fed' \in -1 .. MaxName
  BY <1>2, <1>4, <1>5, CacheConstants
<1>11. CacheTypes'
  BY <1>1, <1>2, <1>9, <1>10 DEF CacheInv, CacheTypes, Cache!TypeOK, Piece,
     Cache!Member, Cache!NoRow, Cache!Fallback
<1>12. TextHasKey' /\ Cache!RawIsRemembered' /\ Cache!NoStaleName'
  BY <1>1 DEF CacheInv, TextHasKey, Cache!RawIsRemembered, Cache!NoStaleName,
     Cache!NoRow, Cache!Fallback
<1>13. Cache!HandedOverIsStored'
  <2>1. \A i \in 1 .. pos : stored[sent[i]] # "absent" \/ sent[i] \in forgotten
    BY <1>1 DEF CacheInv, Cache!HandedOverIsStored
  <2>2. ASSUME joined, NEW i \in 1 .. n, i \notin 1 .. pos
        PROVE  Due(sent[i]) \in In(work')
    <3>1. i - pos \in 1 .. (n - pos) /\ pos + (i - pos) = i
      BY <1>5, <2>2
    <3>2. news[i - pos] = Due(sent[i]) /\ i - pos \in 1 .. Len(news)
      BY <1>6, <3>1
    <3>3. Due(sent[i]) \in In(news)
      BY <3>2 DEF In
    <3> QED
      BY <1>9, <2>2, <3>3 DEF events
  <2>3. \A i \in 1 .. pos' : \/ stored[sent[i]] # "absent"
                             \/ Due(sent[i]) \in In(work')
                             \/ sent[i] \in forgotten
    <3>1. CASE joined
      BY <1>4, <2>1, <2>2, <3>1
    <3>2. CASE ~joined
      BY <1>4, <2>1, <3>2
    <3> QED
      BY <3>1, <3>2
  <2> QED
    BY <1>1, <1>9, <2>3, HandedOverInNext
<1> QED
  BY <1>11, <1>12, <1>13 DEF CacheInv

\* A step of feedCache that stores no message takes none off the work either.
LEMMA HandedOverStays ==
  ASSUME CacheInv, work # <<>>, work' = Tail(work), sent' = sent, pos' = pos,
         Head(work).do # "event", forgotten' = forgotten,
         \A m \in Msgs : stored[m] # "absent" => stored'[m] # "absent"
  PROVE  Cache!HandedOverIsStored'
<1>1. /\ work \in Seq(Piece) /\ work' \in Seq(Piece)
      /\ In(work) = {Head(work)} \union In(work')
      /\ \A m \in Msgs : Head(work) # Due(m)
  BY FirstPiece DEF CacheInv, CacheTypes
<1>2. \A i \in 1 .. pos : sent[i] \in Msgs
  BY DEF CacheInv, CacheTypes, Cache!TypeOK
<1>3. \A i \in 1 .. pos : \/ stored[sent[i]] # "absent"
                          \/ Due(sent[i]) \in In(work)
                          \/ sent[i] \in forgotten
  BY <1>1, HandedOverIn DEF CacheInv
<1>4. \A i \in 1 .. pos' : \/ stored'[sent'[i]] # "absent"
                           \/ Due(sent'[i]) \in In(work')
                           \/ sent'[i] \in forgotten'
  BY <1>1, <1>2, <1>3
<1> QED
  BY <1>1, <1>4, HandedOverInNext

\* The names, the join and the invitation: only the row or the members change.
LEMMA FeedRowKeeps ==
  ASSUME CacheInv, Cache!FeedRoom \/ Cache!FeedJoin \/ Cache!FeedInvite
  PROVE  CacheInv'
<1>1. /\ stored' = stored /\ pending' = pending /\ name' = name /\ sent' = sent
      /\ keys' = keys /\ status' = status /\ fed' = fed /\ pos' = pos /\ told' = told
      /\ clock' = clock /\ forgotten' = forgotten
      /\ work # <<>> /\ work' = Tail(work)
      /\ \/ /\ Head(work).do \in {"room", "invite"}
            /\ row' = Head(work).name /\ seenName' = Head(work).name
         \/ Head(work).do = "join" /\ row' = row /\ seenName' = seenName
  BY DEF Cache!FeedRoom, Cache!FeedJoin, Cache!FeedInvite, Cache!server, Cache!hist
<1>2. /\ work' \in Seq(Piece)
      /\ Head(work).do \in {"room", "invite"} =>
            Head(work).name \in {Cache!Fallback} \union 0 .. MaxName
  BY <1>1, FirstPiece DEF CacheInv
<1>3. clock \in 0 .. MaxClock /\ members \subseteq Cache!Member /\ row \in -3 .. MaxName
  BY DEF CacheInv, CacheTypes, Cache!TypeOK, Cache!NoRow
<1>4. row' \in -3 .. MaxName
  BY <1>1, <1>2, <1>3, CacheConstants DEF Cache!Fallback
<1>5. members' \subseteq Cache!Member
  <2>1. /\ [membership |-> "join", keyed |-> FALSE, ts |-> clock] \in Cache!Member
        /\ [membership |-> "invite", keyed |-> TRUE, ts |-> clock] \in Cache!Member
    BY <1>3 DEF Cache!Member
  <2>2. \/ members' = members
        \/ members' = members \union {[membership |-> "join", keyed |-> FALSE, ts |-> clock]}
        \/ members' = {e \in members : e.membership # "invite"}
                         \union {[membership |-> "invite", keyed |-> TRUE, ts |-> clock]}
    BY DEF Cache!FeedRoom, Cache!FeedJoin, Cache!FeedInvite, Cache!StoreInvite
  <2> QED
    BY <1>3, <2>1, <2>2
<1>6. CacheTypes'
  BY <1>1, <1>2, <1>4, <1>5 DEF CacheInv, CacheTypes, Cache!TypeOK, Piece,
     Cache!Member, Cache!NoRow, Cache!Fallback
<1>7. TextHasKey' /\ Cache!RawIsRemembered' /\ Cache!NoStaleName'
  BY <1>1 DEF CacheInv, TextHasKey, Cache!RawIsRemembered, Cache!NoStaleName,
     Cache!NoRow, Cache!Fallback
<1>8. Cache!HandedOverIsStored'
  BY <1>1, HandedOverStays
<1> QED
  BY <1>6, <1>7, <1>8 DEF CacheInv

\* An event is tried again: it becomes text with its key, and stays on the list without.
LEMMA FeedRetryKeeps ==
  ASSUME CacheInv, Cache!FeedRetry
  PROVE  CacheInv'
<1> DEFINE m == Head(work).msg
<1>1. /\ row' = row /\ members' = members /\ name' = name /\ sent' = sent
      /\ keys' = keys /\ status' = status /\ fed' = fed /\ pos' = pos /\ told' = told
      /\ clock' = clock /\ forgotten' = forgotten /\ seenName' = seenName
      /\ work # <<>> /\ work' = Tail(work) /\ Head(work).do = "retry"
      /\ \/ /\ m \in keys /\ stored' = [stored EXCEPT ![m] = "text"]
            /\ pending' = pending \ {m}
         \/ stored' = stored /\ pending' = pending
  BY DEF Cache!FeedRetry, Cache!server, Cache!hist
<1>2. work' \in Seq(Piece) /\ m \in Msgs
  BY <1>1, FirstPiece DEF CacheInv
<1> HIDE DEF m
<1>3. /\ stored \in [Msgs -> {"absent", "raw", "text"}] /\ pending \subseteq Msgs
      /\ clock \in 0 .. MaxClock
  BY DEF CacheInv, CacheTypes, Cache!TypeOK
<1>4. /\ stored' \in [Msgs -> {"absent", "raw", "text"}] /\ pending' \subseteq Msgs
      /\ \A x \in Msgs : stored'[x] = stored[x] \/ (stored'[x] = "text" /\ x \in keys)
      /\ \A x \in Msgs : x \in pending => x \in pending' \/ stored'[x] = "text"
  BY <1>1, <1>2, <1>3
<1>5. CacheTypes'
  BY <1>1, <1>2, <1>4 DEF CacheInv, CacheTypes, Cache!TypeOK, Piece,
     Cache!Member, Cache!NoRow, Cache!Fallback
<1>6. TextHasKey' /\ Cache!RawIsRemembered' /\ Cache!NoStaleName'
  BY <1>1, <1>4 DEF CacheInv, TextHasKey, Cache!RawIsRemembered, Cache!NoStaleName,
     Cache!NoRow, Cache!Fallback
<1>7. Cache!HandedOverIsStored'
  BY <1>1, <1>4, HandedOverStays
<1> QED
  BY <1>5, <1>6, <1>7 DEF CacheInv

\* A message is stored: as text, or remembered, or forgotten with the list.
LEMMA FeedEventKeeps ==
  ASSUME CacheInv, Cache!FeedEvent
  PROVE  CacheInv'
<1> DEFINE m == Head(work).msg
           list == IF m \in keys THEN pending ELSE pending \union {m}
           over == Cache!Cardinality(list) > PendingLimit
<1>1. /\ row' = row /\ members' = members /\ name' = name /\ sent' = sent
      /\ keys' = keys /\ status' = status /\ fed' = fed /\ pos' = pos /\ told' = told
      /\ clock' = clock /\ seenName' = seenName
      /\ work # <<>> /\ work' = Tail(work) /\ Head(work).do = "event"
      /\ stored' = [stored EXCEPT ![m] = IF m \in keys THEN "text" ELSE "raw"]
      /\ pending' = IF over THEN {} ELSE list
      /\ forgotten' = (forgotten \ {m}) \union (IF over THEN list ELSE {})
  BY DEF Cache!FeedEvent, Cache!server, Cache!Content
<1>2. /\ work \in Seq(Piece) /\ work' \in Seq(Piece) /\ m \in Msgs
      /\ In(work) = {Due(m)} \union In(work')
  BY <1>1, FirstPiece DEF CacheInv, CacheTypes
<1> HIDE DEF m, over
<1>3. /\ stored \in [Msgs -> {"absent", "raw", "text"}] /\ pending \subseteq Msgs
      /\ clock \in 0 .. MaxClock /\ forgotten \subseteq Msgs
      /\ \A i \in 1 .. pos : sent[i] \in Msgs
  BY DEF CacheInv, CacheTypes, Cache!TypeOK
<1>4. /\ stored' \in [Msgs -> {"absent", "raw", "text"}] /\ pending' \subseteq Msgs
      /\ forgotten' \subseteq Msgs
  BY <1>1, <1>2, <1>3
<1>5. /\ stored'[m] # "absent"
      /\ stored'[m] = "text" => m \in keys
      /\ stored'[m] = "raw" => m \in list
      /\ \A x \in Msgs : x # m => stored'[x] = stored[x]
  BY <1>1, <1>2, <1>3
<1>6. /\ list \subseteq pending' \union forgotten' /\ pending \subseteq list
      /\ \A x \in Msgs : x # m /\ x \in forgotten => x \in forgotten'
  BY <1>1
<1>7. CacheTypes'
  BY <1>1, <1>2, <1>4 DEF CacheInv, CacheTypes, Cache!TypeOK, Piece,
     Cache!Member, Cache!NoRow, Cache!Fallback
<1> HIDE DEF list
<1>8. TextHasKey'
  BY <1>1, <1>5 DEF CacheInv, TextHasKey
<1>9. Cache!RawIsRemembered'
  <2> SUFFICES ASSUME NEW x \in Msgs, stored'[x] = "raw"
               PROVE  x \in pending' \union forgotten'
    BY DEF Cache!RawIsRemembered
  <2> QED
    BY <1>5, <1>6 DEF CacheInv, Cache!RawIsRemembered
<1>10. Cache!NoStaleName'
  BY <1>1 DEF CacheInv, Cache!NoStaleName, Cache!NoRow, Cache!Fallback
<1>11. Cache!HandedOverIsStored'
  <2>1. \A i \in 1 .. pos : \/ stored[sent[i]] # "absent"
                            \/ Due(sent[i]) \in In(work)
                            \/ sent[i] \in forgotten
    BY <1>2, HandedOverIn DEF CacheInv
  <2>2. \A x \in Msgs : Due(x) = Due(m) => x = m
    BY DEF Due
  <2>3. \A i \in 1 .. pos : \/ stored'[sent[i]] # "absent"
                            \/ Due(sent[i]) \in In(work')
                            \/ sent[i] \in forgotten'
    BY <1>2, <1>3, <1>5, <1>6, <2>1, <2>2
  <2> QED
    BY <1>1, <1>2, <2>3, HandedOverInNext
<1> QED
  BY <1>7, <1>8, <1>9, <1>10, <1>11 DEF CacheInv

\* A name typed by the user, or taken from a whole reply, is shown until the next.
LEMMA NamedKeeps ==
  ASSUME CacheInv, Cache!LocalName \/ Cache!SetupSync
  PROVE  CacheInv'
<1>1. /\ stored' = stored /\ members' = members /\ pending' = pending /\ name' = name
      /\ sent' = sent /\ keys' = keys /\ status' = status /\ fed' = fed /\ pos' = pos
      /\ told' = told /\ clock' = clock /\ forgotten' = forgotten /\ work' = work
      /\ row' \in {-1, name} /\ seenName' = row'
  BY DEF Cache!LocalName, Cache!SetupSync, Cache!server, Cache!hist, Cache!Local
<1>2. row' \in -3 .. MaxName
  BY <1>1, CacheConstants DEF CacheInv, CacheTypes, Cache!TypeOK
<1>3. CacheTypes'
  BY <1>1, <1>2 DEF CacheInv, CacheTypes, Cache!TypeOK, Piece, Cache!Member,
     Cache!NoRow, Cache!Fallback
<1>4. TextHasKey' /\ Cache!RawIsRemembered' /\ Cache!NoStaleName'
      /\ Cache!HandedOverIsStored'
  BY <1>1 DEF CacheInv, TextHasKey, Cache!RawIsRemembered, Cache!NoStaleName,
     Cache!NoRow, Cache!Fallback, Cache!HandedOverIsStored
<1> QED
  BY <1>3, <1>4 DEF CacheInv

\* The end of the process: what was left of the reply, and the list, are forgotten.
LEMMA EndKeeps ==
  ASSUME CacheInv, Cache!End
  PROVE  CacheInv'
<1> DEFINE cut == {work[i].msg : i \in {j \in DOMAIN work : work[j].do = "event"}}
<1>1. /\ row' = row /\ stored' = stored /\ members' = members /\ name' = name
      /\ sent' = sent /\ keys' = keys /\ status' = status /\ fed' = fed
      /\ told' = told /\ clock' = clock /\ seenName' = seenName
      /\ pending' = {} /\ work' = <<>> /\ pos' \in 0 .. pos
      /\ forgotten' = forgotten \union pending \union cut
  BY DEF Cache!End, Cache!db, Cache!server
<1>2. work \in Seq(Piece) /\ DOMAIN work = 1 .. Len(work)
      /\ \A k \in DOMAIN work : work[k] \in Piece
  BY DEF CacheInv, CacheTypes
<1>3. \A x \in Piece : x.do = "event" => x.msg \in Msgs
  BY DEF Piece
<1>4. cut \subseteq Msgs
  BY <1>2, <1>3
<1>5. \A m : (\E k \in DOMAIN work : work[k] = Due(m)) => m \in cut
  BY DEF Due
<1> HIDE DEF cut
<1>6. /\ pending \subseteq Msgs /\ forgotten \subseteq Msgs /\ pos \in 0 .. Len(sent)
      /\ Len(sent) \in Nat /\ sent \in Seq(Msgs)
  BY DEF CacheInv, CacheTypes, Cache!TypeOK
<1>7. pos' \in 0 .. Len(sent) /\ 1 .. pos' \subseteq 1 .. pos
  BY <1>1, <1>6
<1>8. work' \in Seq(Piece) /\ forgotten' \subseteq Msgs /\ pending' \subseteq Msgs
  BY <1>1, <1>4, <1>6
<1>9. CacheTypes'
  BY <1>1, <1>7, <1>8 DEF CacheInv, CacheTypes, Cache!TypeOK, Piece, Cache!Member,
     Cache!NoRow, Cache!Fallback
<1>10. TextHasKey' /\ Cache!RawIsRemembered' /\ Cache!NoStaleName'
  BY <1>1 DEF CacheInv, TextHasKey, Cache!RawIsRemembered, Cache!NoStaleName,
     Cache!NoRow, Cache!Fallback
<1>11. Cache!HandedOverIsStored'
  <2>1. \A i \in 1 .. pos : stored[sent[i]] # "absent" \/ sent[i] \in cut \union forgotten
    BY <1>5, Zenon DEF CacheInv, Cache!HandedOverIsStored, Due
  <2> QED
    BY <1>1, <1>7, <2>1 DEF Cache!HandedOverIsStored
<1> QED
  BY <1>9, <1>10, <1>11 DEF CacheInv

\* It holds at the start.
LEMMA CacheBegins ==
  ASSUME Cache!Init
  PROVE  CacheInv
<1>1. /\ row = -3 /\ stored = [m \in Msgs |-> "absent"] /\ members = {} /\ pending = {}
      /\ work = <<>> /\ name = 0 /\ fed = -1 /\ sent = <<>> /\ pos = 0 /\ keys = {}
      /\ status = "none" /\ told = "none" /\ clock = 0 /\ forgotten = {}
      /\ seenName = -3
  BY DEF Cache!Init, Cache!NoRow
<1>2. Cache!Range(sent) \subseteq Msgs
  BY <1>1 DEF Cache!Range
<1>3. row \in -3 .. MaxName /\ name \in 0 .. MaxName /\ fed \in -1 .. MaxName
      /\ clock \in 0 .. MaxClock /\ pos \in 0 .. Len(sent)
  BY <1>1, CacheConstants
<1>4. CacheTypes
  BY <1>1, <1>2, <1>3 DEF CacheTypes, Cache!TypeOK, Cache!NoRow
<1>5. TextHasKey /\ Cache!RawIsRemembered /\ Cache!NoStaleName
      /\ Cache!HandedOverIsStored
  BY <1>1 DEF TextHasKey, Cache!RawIsRemembered, Cache!NoStaleName, Cache!NoRow,
     Cache!HandedOverIsStored
<1> QED
  BY <1>4, <1>5 DEF CacheInv

\* And every step keeps it.
LEMMA CacheStep ==
  ASSUME CacheInv, Cache!Next
  PROVE  CacheInv'
<1>1. CASE \/ Cache!Rename \/ Cache!Invite \/ Cache!Join \/ Cache!Tick
           \/ \E m \in Msgs : Cache!Post(m) \/ Cache!ImportKey(m)
  BY <1>1, OutsideKeeps
<1>2. CASE Cache!Reply
  BY <1>2, ReplyKeeps
<1>3. CASE Cache!FeedRetry
  BY <1>3, FeedRetryKeeps
<1>4. CASE Cache!FeedRoom \/ Cache!FeedJoin \/ Cache!FeedInvite
  BY <1>4, FeedRowKeeps
<1>5. CASE Cache!FeedEvent
  BY <1>5, FeedEventKeeps
<1>6. CASE Cache!LocalName \/ Cache!SetupSync
  BY <1>6, NamedKeeps
<1>7. CASE Cache!End
  BY <1>7, EndKeeps
<1> QED
  BY <1>1, <1>2, <1>3, <1>4, <1>5, <1>6, <1>7 DEF Cache!Next, Cache!Feed

-----------------------------------------------------------------------------
(* Side by side.                                                           *)

SyncInv ==
    /\ part = "stream" => StreamInv
    /\ part = "cache" => CacheInv

\* One of the parts begins.
LEMMA SyncBegins ==
  ASSUME Init
  PROVE  SyncInv
BY StreamBegins, CacheBegins DEF Init, SyncInv

\* Nothing happens to a part that stands still.
LEMMA StreamStays ==
  ASSUME StreamInv, UNCHANGED vars
  PROVE  StreamInv'
<1>1. /\ keys' = keys /\ stream' = stream /\ born' = born /\ pc' = pc /\ token' = token
      /\ todo' = todo /\ known' = known /\ rows' = rows /\ shown' = shown
      /\ missed' = missed /\ reply' = reply /\ runs' = runs
  BY DEF vars, streamVars
<1>2. Stream!TypeOK' /\ LeftOver' /\ InOrder' /\ KeysAreKnown'
  BY <1>1 DEF StreamInv, Stream!TypeOK, LeftOver, InOrder, Rising, KeysAreKnown,
     Stream!Positions
<1>3. RepliesPassed' /\ Stream!NothingSkipped' /\ Stream!KeyInTimeDecrypts'
  BY <1>1 DEF StreamInv, RepliesPassed, Stream!NothingSkipped, Stream!IsKey,
     Stream!KeyInTimeDecrypts
<1> QED
  BY <1>2, <1>3 DEF StreamInv

\* Nor to the other.
LEMMA CacheStays ==
  ASSUME CacheInv, UNCHANGED vars
  PROVE  CacheInv'
<1>1. /\ row' = row /\ stored' = stored /\ members' = members /\ pending' = pending
      /\ work' = work /\ name' = name /\ fed' = fed /\ sent' = sent /\ pos' = pos
      /\ keys' = keys /\ status' = status /\ told' = told /\ clock' = clock
      /\ forgotten' = forgotten /\ seenName' = seenName
  BY DEF vars, cacheVars
<1>2. CacheTypes'
  BY <1>1 DEF CacheInv, CacheTypes, Cache!TypeOK, Piece, Cache!Member, Cache!NoRow,
     Cache!Fallback
<1>3. TextHasKey' /\ Cache!RawIsRemembered' /\ Cache!NoStaleName'
      /\ Cache!HandedOverIsStored'
  BY <1>1 DEF CacheInv, TextHasKey, Cache!RawIsRemembered, Cache!NoStaleName,
     Cache!NoRow, Cache!Fallback, Cache!HandedOverIsStored
<1> QED
  BY <1>2, <1>3 DEF CacheInv

\* One part moves and keeps its invariant.
LEMMA SyncStep ==
  ASSUME SyncInv, [Next]_vars
  PROVE  SyncInv'
<1>1. CASE UNCHANGED vars
  <2>1. part' = part
    BY <1>1 DEF vars
  <2> QED
    BY <1>1, <2>1, StreamStays, CacheStays DEF SyncInv
<1>2. CASE part = "stream" /\ Stream!Next /\ part' = part
  BY <1>2, StreamStep DEF SyncInv
<1>3. CASE part = "cache" /\ Cache!Next /\ part' = part
  BY <1>3, CacheStep DEF SyncInv
<1>4. CASE part = "http" /\ part' = part
  BY <1>4 DEF SyncInv
<1> QED
  BY <1>1, <1>2, <1>3, <1>4 DEF Next

\* Whatever the server sends and whenever the process ends, both parts are as they should be.
THEOREM SyncInvHolds == Spec => []SyncInv
<1>1. Init => SyncInv
  BY SyncBegins
<1>2. SyncInv /\ [Next]_vars => SyncInv'
  BY SyncStep
<1> QED
  BY <1>1, <1>2, PTL DEF Spec

\* An event is stored as ciphertext only when no reply up to its own has brought the
\* process its key - the keys of a reply come to the crypto engine before the reply's
\* events are looked at - or when the key's own handling was cut off by an exception.
THEOREM KeysComeFirst == Spec => []KeyInTimeDecrypts
<1>1. SyncInv => KeyInTimeDecrypts
  BY DEF SyncInv, StreamInv, KeyInTimeDecrypts
<1> QED
  BY <1>1, SyncInvHolds, PTL

\* One step of the cache: a text stays a text, an open invitation stays as dated.
LEMMA CacheKeeps ==
  ASSUME CacheInv, Cache!Next
  PROVE  Cache!TextKept /\ Cache!InviteKept
<1>1. stored \in [Msgs -> {"absent", "raw", "text"}] /\ TextHasKey
  BY DEF CacheInv, CacheTypes, Cache!TypeOK
<1>2. Cache!TextKept
  <2>1. CASE Cache!FeedRetry
    <3>1. stored' = stored \/ \E m : stored' = [stored EXCEPT ![m] = "text"]
      BY <2>1 DEF Cache!FeedRetry
    <3> QED
      BY <1>1, <3>1 DEF Cache!TextKept
  <2>2. CASE Cache!FeedEvent
    <3>1. \E m : stored' = [stored EXCEPT ![m] = Cache!Content(m)]
      BY <2>2 DEF Cache!FeedEvent
    <3> QED
      BY <1>1, <3>1 DEF Cache!TextKept, Cache!Content, TextHasKey
  <2>3. CASE stored' = stored
    BY <2>3 DEF Cache!TextKept
  <2> QED
    BY <2>1, <2>2, <2>3
    DEF Cache!Next, Cache!Feed, Cache!Rename, Cache!Invite, Cache!Join, Cache!Tick,
        Cache!Post, Cache!ImportKey, Cache!Reply, Cache!FeedRoom, Cache!FeedJoin,
        Cache!FeedInvite, Cache!LocalName, Cache!SetupSync, Cache!End, Cache!db
<1>3. Cache!InviteKept
  <2>1. CASE members' = members
    BY <2>1 DEF Cache!InviteKept, Cache!OpenInvites
  <2>2. CASE Cache!FeedJoin
    BY <2>2 DEF Cache!FeedJoin, Cache!InviteKept, Cache!OpenInvites
  <2>3. CASE Cache!OpenInvites = {}
    BY <2>3 DEF Cache!InviteKept
  <2> QED
    BY <2>1, <2>2, <2>3
    DEF Cache!Next, Cache!Feed, Cache!Rename, Cache!Invite, Cache!Join, Cache!Tick,
        Cache!Post, Cache!ImportKey, Cache!Reply, Cache!FeedRetry, Cache!FeedRoom,
        Cache!FeedEvent, Cache!FeedInvite, Cache!LocalName, Cache!SetupSync, Cache!End,
        Cache!db
<1> QED
  BY <1>2, <1>3

\* No step of the cache - another report of an invitation, a reply worked through, an
\* end of the process - moves the date of an open invitation, nor overwrites a text that
\* was once decrypted.
THEOREM CacheIsKept == Spec => CacheKept
<1>1. SyncInv /\ [Next]_vars
         => [part = "cache" => Cache!InviteKept /\ Cache!TextKept]_vars
  <2> SUFFICES ASSUME SyncInv, Next, part = "cache"
               PROVE  Cache!InviteKept /\ Cache!TextKept
    OBVIOUS
  <2>1. Cache!Next /\ CacheInv
    BY DEF Next, SyncInv
  <2> QED
    BY <2>1, CacheKeeps
<1> QED
  BY <1>1, SyncInvHolds, PTL DEF Spec, CacheKept

\* What a model's answer over HTTP adds to the three properties below, a decoder run over
\* the response symbol by symbol, is left to the model checker; the stream of the sync
\* loop and the offline cache are proved.

\* Every reply, however it is cut, however often the process ends and logs in anew, and
\* whatever throws, the variables of the sync thread and of the cache keep their types.
THEOREM StreamAndCacheTyped == Spec => [](part # "http" => TypeOK)
<1>1. SyncInv /\ part # "http" => TypeOK
  BY DEF SyncInv, StreamInv, CacheInv, CacheTypes, TypeOK
<1> QED
  BY <1>1, SyncInvHolds, PTL

\* Every event before the thread's next_batch was given to the callback, is still to be
\* handled, or was passed over by an exception or a limited reply; every event cached
\* undecrypted is on the list of those to try again, and every message handed over is in
\* the cache or in the work still to be done, or the process that held it has ended.
THEOREM NothingIsSkipped == Spec => [](part # "http" => NothingSkipped)
<1>1. SyncInv /\ part # "http" => NothingSkipped
  BY DEF SyncInv, StreamInv, CacheInv, NothingSkipped
<1> QED
  BY <1>1, SyncInvHolds, PTL

\* The events given to the callback are in the order of the stream and each is given once.
LEMMA InOrderIsShown ==
  ASSUME StreamInv
  PROVE  Stream!ShownOnceInOrder
BY DEF StreamInv, InOrder, Rising, Stream!ShownOnceInOrder, Stream!TypeOK

\* In one run the callback sees each event once and in stream order, and the room list
\* never shows a name that was replaced.
THEOREM ShownOnce == Spec => [](part # "http" => ShownInOrder)
<1>1. SyncInv /\ part # "http" => ShownInOrder
  BY InOrderIsShown DEF SyncInv, CacheInv, ShownInOrder
<1> QED
  BY <1>1, SyncInvHolds, PTL
=============================================================================
