---------------------------- MODULE StorageProofs -----------------------------
(***************************************************************************)
(* Proofs about what the program keeps, for any number of rooms, sessions, *)
(* commands and processes, part by part.                                   *)
(***************************************************************************)
EXTENDS MCStorage, FiniteSetTheorems, SequenceTheorems, WellFoundedInduction, TLAPS

-----------------------------------------------------------------------------
(* The store of session keys.                                              *)

\* An outbound session, or that there is none.
Outbound == [sid : Own \cup {"none"}, next : 0 .. RotateAfter]

\* The session of a room is one that was created, has room for a message, and was used
\* below its next index only; and no two rooms share one.
CurrentOK ==
    /\ \A r \in Rooms : out[r] # K!NoSession =>
            /\ out[r].sid \in made
            /\ out[r].next < RotateAfter
            /\ \A u \in used : u[1] = out[r].sid => u[2] < out[r].next
    /\ \A r, q \in Rooms : out[r].sid = out[q].sid /\ r # q => out[r] = K!NoSession

\* The inductive invariant of the sessions: the one of a room is its own and was used below
\* its next index only, and an entry is filed under the id it belongs to.
KeyInv ==
    /\ out \in [Rooms -> Outbound]
    /\ \A r \in Rooms : out[r].sid = "none" => out[r] = K!NoSession
    /\ DOMAIN inb \subseteq K!Key /\ \A k \in DOMAIN inb : inb[k] \in K!Entry
    /\ made \subseteq Own
    /\ file \in [Rooms -> SUBSET K!Entry]
    /\ used \subseteq made \X (0 .. RotateAfter - 1)
    /\ CurrentOK
    /\ K!FiledUnderItsId

\* A session is rotated after some messages, and the ids of the sessions are apart.
LEMMA KeyConstants ==
  /\ RotateAfter \in Nat \ {0} /\ Own \cap Foreign = {} /\ "none" \notin Own
  /\ \A f \in Foreign : RoomOf(f) \in Rooms
BY StorageAssumption DEF K!KeyAssumption

\* What is proved of the store follows from the invariant.
LEMMA KeysConsistent ==
  ASSUME KeyInv
  PROVE  K!NoIndexTwice /\ K!RotatesInTime /\ K!FiledUnderItsId
<1>1. K!RotatesInTime
  BY KeyConstants DEF KeyInv, K!RotatesInTime
<1>2. K!NoIndexTwice
  <2>1. ASSUME NEW r \in Rooms, out[r] # K!NoSession, <<out[r].sid, out[r].next>> \in used
        PROVE  FALSE
    <3>1. out[r].next \in 0 .. RotateAfter /\ out[r].next < out[r].next
      BY <2>1 DEF KeyInv, CurrentOK, Outbound
    <3> QED
      BY <3>1, KeyConstants
  <2> QED
    BY <2>1 DEF KeyInv, CurrentOK, K!NoIndexTwice
<1> QED
  BY <1>1, <1>2 DEF KeyInv

\* Sessions of an export, or one that another device shares, are filed under their ids.
LEMMA ReceivedFiled ==
  ASSUME KeyInv, NEW X \in SUBSET K!Entry, inb' = K!Received(X), rotated' = rotated
  PROVE  /\ DOMAIN inb' \subseteq K!Key /\ \A k \in DOMAIN inb' : inb'[k] \in K!Entry
         /\ K!FiledUnderItsId'
         /\ \A x \in X : /\ K!ById(x.sid) \in DOMAIN inb'
                         /\ \E y \in X : y.sid = x.sid /\ inb'[K!ById(x.sid)].first = y.first
<1> DEFINE ids == {K!ById(x.sid) : x \in X}
           pick(s) == CHOOSE x \in {y \in X : y.sid = s} : TRUE
<1>1. inb' = [k \in ids \cup DOMAIN inb |->
                IF k \in ids
                THEN [room |-> pick(k.sid).room, sid |-> k.sid, first |-> pick(k.sid).first]
                ELSE inb[k]]
  BY DEF K!Received
<1>2. \A k \in ids : /\ k.by = "id" /\ k.sid \in K!Sessions
                     /\ pick(k.sid) \in X /\ pick(k.sid).sid = k.sid
  BY DEF K!Entry, K!ById
<1>3. \A x \in X : K!ById(x.sid) \in ids /\ K!ById(x.sid).sid = x.sid
  BY DEF K!ById
<1>4. ids \subseteq K!Key
  BY DEF K!Entry, K!Key, K!ById
<1> HIDE DEF ids, pick
<1>5. DOMAIN inb' \subseteq K!Key
  BY <1>1, <1>4 DEF KeyInv
<1>6. \A k \in ids : /\ inb'[k].sid = k.sid /\ inb'[k] \in K!Entry
                     /\ inb'[k].first = pick(k.sid).first
  BY <1>1, <1>2 DEF K!Entry
<1>7. \A k \in DOMAIN inb' : k \in ids \/ (k \in DOMAIN inb /\ inb'[k] = inb[k])
  BY <1>1
<1>8. \A k \in DOMAIN inb' : inb'[k] \in K!Entry
  BY <1>6, <1>7 DEF KeyInv
<1>9. K!FiledUnderItsId'
  BY <1>2, <1>6, <1>7 DEF KeyInv, K!FiledUnderItsId
<1>10. ids \subseteq DOMAIN inb'
  BY <1>1
<1> QED
  BY <1>2, <1>3, <1>5, <1>6, <1>8, <1>9, <1>10

\* A new store holds no session.
LEMMA KeyBegins ==
  ASSUME K!Init
  PROVE  KeyInv
<1>1. /\ out = [r \in Rooms |-> K!NoSession] /\ inb = <<>> /\ made = {} /\ used = {}
      /\ file = [r \in Rooms |-> {}]
  BY DEF K!Init
<1>2. K!NoSession \in Outbound
  BY KeyConstants DEF K!NoSession, Outbound
<1>3. DOMAIN inb = {}
  BY <1>1
<1> QED
  BY <1>1, <1>2, <1>3 DEF KeyInv, CurrentOK, K!FiledUnderItsId, K!NoSession

\* A step that leaves the outbound sessions alone.
LEMMA CurrentStays ==
  ASSUME KeyInv, out' = out, made' = made, used' = used
  PROVE  /\ out' \in [Rooms -> Outbound] /\ made' \subseteq Own
         /\ \A r \in Rooms : out'[r].sid = "none" => out'[r] = K!NoSession
         /\ used' \subseteq made' \X (0 .. RotateAfter - 1)
         /\ CurrentOK'
BY DEF KeyInv, CurrentOK, K!NoSession

\* A step that leaves the inbound ones alone.
LEMMA FiledStays ==
  ASSUME KeyInv, inb' = inb, rotated \subseteq rotated'
  PROVE  /\ DOMAIN inb' \subseteq K!Key /\ \A k \in DOMAIN inb' : inb'[k] \in K!Entry
         /\ K!FiledUnderItsId'
BY DEF KeyInv, K!FiledUnderItsId, K!Key, K!Entry

\* A room's session is discarded, for none or for one that was never used.
LEMMA Replaced ==
  ASSUME KeyInv, NEW r \in Rooms, NEW s,
         \/ s = K!NoSession /\ made' = made
         \/ /\ s.sid \in Own \ made /\ s.next = 0 /\ s \in Outbound
            /\ made' = made \cup {s.sid},
         out' = [out EXCEPT ![r] = s], used' = used
  PROVE  /\ out' \in [Rooms -> Outbound] /\ made' \subseteq Own
         /\ \A q \in Rooms : out'[q].sid = "none" => out'[q] = K!NoSession
         /\ used' \subseteq made' \X (0 .. RotateAfter - 1)
         /\ CurrentOK'
<1>1. /\ s \in Outbound /\ made \subseteq made' /\ made' \subseteq Own
      /\ s.sid = "none" => s = K!NoSession
  BY KeyConstants DEF KeyInv, K!NoSession, Outbound
<1>2. /\ out \in [Rooms -> Outbound] /\ out'[r] = s
      /\ \A q \in Rooms : q # r => out'[q] = out[q]
      /\ out' \in [Rooms -> Outbound]
  BY <1>1 DEF KeyInv
<1>3. \A q \in Rooms : out'[q].sid = "none" => out'[q] = K!NoSession
  BY <1>1, <1>2 DEF KeyInv
<1>4. used' \subseteq made' \X (0 .. RotateAfter - 1)
  BY <1>1 DEF KeyInv
<1>5. \A u \in used : u[1] \in made
  BY DEF KeyInv
<1>6. \A q \in Rooms : out'[q] # K!NoSession =>
            /\ out'[q].sid \in made'
            /\ out'[q].next < RotateAfter
            /\ \A u \in used : u[1] = out'[q].sid => u[2] < out'[q].next
  <2> TAKE q \in Rooms
  <2>1. CASE q = r
    BY <1>1, <1>2, <1>5, <2>1, KeyConstants
  <2>2. CASE q # r
    BY <1>1, <1>2, <2>2 DEF KeyInv, CurrentOK
  <2> QED
    BY <2>1, <2>2
<1>7. \A p, q \in Rooms : out'[p].sid = out'[q].sid /\ p # q => out'[p] = K!NoSession
  <2>1. \A q \in Rooms : out[q].sid \in made \/ out[q] = K!NoSession
    BY DEF KeyInv, CurrentOK
  <2>2. ASSUME NEW q \in Rooms, q # r, out'[r].sid = out'[q].sid
        PROVE  out'[r] = K!NoSession /\ out'[q] = K!NoSession
    <3>1. out'[q] = out[q] /\ out'[r] = s
      BY <1>2, <2>2
    <3>2. s.sid \notin made
      BY KeyConstants DEF KeyInv, K!NoSession
    <3>3. out[q] = K!NoSession
      BY <2>1, <2>2, <3>1, <3>2
    <3> QED
      BY <1>1, <2>2, <3>1, <3>3 DEF K!NoSession
  <2>3. ASSUME NEW p \in Rooms, NEW q \in Rooms, p # q, p # r, q # r,
               out'[p].sid = out'[q].sid
        PROVE  out'[p] = K!NoSession
    BY <1>2, <2>3 DEF KeyInv, CurrentOK
  <2> QED
    BY <2>2, <2>3
<1> QED
  BY <1>1, <1>2, <1>3, <1>4, <1>6, <1>7 DEF CurrentOK

\* One message: the session's next index, and then a new session if that was the last.
LEMMA EncryptKeeps ==
  ASSUME KeyInv, NEW r \in Rooms, K!Encrypt(r)
  PROVE  KeyInv'
<1>1. PICK s \in Own \cup {"none"}, t \in Own \cup {"none"}, filed \in BOOLEAN :
        LET fresh == out[r] = K!NoSession
            cur   == IF fresh THEN [sid |-> s, next |-> 0] ELSE out[r]
            full  == cur.next + 1 = RotateAfter
            k     == [by |-> "key", sid |-> cur.sid]
        IN  /\ IF fresh THEN s \in Own \ made ELSE s = "none"
            /\ IF full THEN t \in Own \ (made \cup {s}) ELSE t = "none"
            /\ filed => full
            /\ used' = used \cup {<<cur.sid, cur.next>>}
            /\ out' = IF full THEN K!NewSession(r, t)
                              ELSE [out EXCEPT ![r] = [cur EXCEPT !.next = @ + 1]]
            /\ made' = made \cup ({s, t} \cap Own)
            /\ rotated' = IF full THEN rotated \cup {cur.sid} ELSE rotated
            /\ inb' = IF filed
                      THEN K!Put(inb, k, [room |-> r, sid |-> cur.sid,
                                          first |-> RotateAfter])
                      ELSE inb
  BY ZenonT(60) DEF K!Encrypt
<1> DEFINE cur == IF out[r] = K!NoSession THEN [sid |-> s, next |-> 0] ELSE out[r]
           full == cur.next + 1 = RotateAfter
           k == [by |-> "key", sid |-> cur.sid]
           then == IF full THEN [sid |-> t, next |-> 0] ELSE [cur EXCEPT !.next = @ + 1]
<1>2. /\ out[r] = K!NoSession => s \in Own \ made
      /\ out[r] # K!NoSession => s = "none"
      /\ full => t \in Own \ (made \cup {s})
      /\ ~full => t = "none"
      /\ filed => full
      /\ used' = used \cup {<<cur.sid, cur.next>>}
      /\ out' = [out EXCEPT ![r] = then]
      /\ made' = made \cup ({s, t} \cap Own)
      /\ rotated' = IF full THEN rotated \cup {cur.sid} ELSE rotated
      /\ inb' = IF filed THEN K!Put(inb, k, [room |-> r, sid |-> cur.sid,
                                             first |-> RotateAfter])
                ELSE inb
  BY <1>1 DEF K!NewSession
<1> HIDE DEF full, then
<1>3. /\ \A q \in Rooms : out[q] \in Outbound /\ (out[q].sid \in made \/ out[q] = K!NoSession)
      /\ \A u \in used : u[1] \in made /\ u[2] \in 0 .. RotateAfter - 1
      /\ made \subseteq Own /\ made \subseteq made' /\ made' \subseteq Own
  BY <1>2 DEF KeyInv, CurrentOK
<1>4. /\ cur.sid \in Own /\ cur.sid \in made' /\ cur.next \in Nat
      /\ cur = [sid |-> cur.sid, next |-> cur.next]
      /\ cur.next < RotateAfter
      /\ \A u \in used : u[1] = cur.sid => u[2] < cur.next
      /\ \A q \in Rooms : q # r => out[q] = K!NoSession \/ out[q].sid # cur.sid
      /\ full => cur.sid # t /\ t \in Own /\ t \notin made /\ t \in made'
  <2>1. CASE out[r] = K!NoSession
    <3>1. cur = [sid |-> s, next |-> 0] /\ s \in Own \ made /\ s \in made'
      BY <1>2, <2>1
    <3> HIDE DEF cur
    <3> QED
      BY <1>2, <1>3, <3>1, KeyConstants
  <2>2. CASE out[r] # K!NoSession
    <3>1. cur = out[r] /\ out[r] \in Outbound /\ out[r].sid \in made
      BY <1>3, <2>2
    <3>2. /\ out[r].next < RotateAfter
          /\ \A u \in used : u[1] = out[r].sid => u[2] < out[r].next
          /\ \A q \in Rooms : q # r => out[q] = K!NoSession \/ out[q].sid # out[r].sid
      BY <2>2 DEF KeyInv, CurrentOK
    <3>3. /\ out[r].next \in Nat
          /\ out[r] = [sid |-> out[r].sid, next |-> out[r].next]
      BY <3>1, KeyConstants DEF Outbound
    <3> HIDE DEF cur
    <3> QED
      BY <1>2, <1>3, <3>1, <3>2, <3>3
  <2> QED
    BY <2>1, <2>2
<1> HIDE DEF cur
<1>5. /\ then \in Outbound /\ then.sid \in made' /\ then.next < RotateAfter
      /\ \A u \in used' : u[1] = then.sid => u[2] < then.next
      /\ \A q \in Rooms : q # r => out[q] = K!NoSession \/ out[q].sid # then.sid
  <2>1. CASE full
    <3>1. then = [sid |-> t, next |-> 0]
      BY <2>1 DEF then
    <3> QED
      BY <1>2, <1>3, <1>4, <2>1, <3>1, KeyConstants DEF Outbound
  <2>2. CASE ~full
    <3>1. then = [sid |-> cur.sid, next |-> cur.next + 1]
      BY <1>4, <2>2 DEF then
    <3>2. cur.next + 1 < RotateAfter
      BY <1>4, <2>2, KeyConstants DEF full
    <3>3. \A u \in used' : u[1] = cur.sid => u[2] < cur.next + 1
      BY <1>2, <1>3, <1>4, KeyConstants
    <3> QED
      BY <1>4, <3>1, <3>2, <3>3, KeyConstants DEF Outbound
  <2> QED
    BY <2>1, <2>2
<1>6. /\ out \in [Rooms -> Outbound] /\ out'[r] = then
      /\ \A q \in Rooms : q # r => out'[q] = out[q]
      /\ out' \in [Rooms -> Outbound]
  BY <1>2, <1>5 DEF KeyInv
<1>7. \A q \in Rooms : out'[q].sid = "none" => out'[q] = K!NoSession
  <2>1. then.sid # "none"
    BY <1>3, <1>5, KeyConstants
  <2> QED
    BY <1>6, <2>1 DEF KeyInv
<1>8. used' \subseteq made' \X (0 .. RotateAfter - 1)
  <2>1. cur.next \in 0 .. RotateAfter - 1
    BY <1>4, KeyConstants
  <2> QED
    BY <1>2, <1>3, <1>4, <2>1 DEF KeyInv
<1>9. CurrentOK'
  <2>1. \A q \in Rooms : out'[q] # K!NoSession =>
            /\ out'[q].sid \in made'
            /\ out'[q].next < RotateAfter
            /\ \A u \in used' : u[1] = out'[q].sid => u[2] < out'[q].next
    <3> TAKE q \in Rooms
    <3>1. CASE q = r
      BY <1>5, <1>6, <3>1
    <3>2. CASE q # r
      <4>1. out'[q] = out[q]
        BY <1>6, <3>2
      <4>2. out[q] # K!NoSession => out[q].sid # cur.sid
        BY <1>4, <3>2
      <4> QED
        BY <1>2, <1>3, <4>1, <4>2 DEF KeyInv, CurrentOK
    <3> QED
      BY <3>1, <3>2
  <2>2. \A p, q \in Rooms : out'[p].sid = out'[q].sid /\ p # q => out'[p] = K!NoSession
    <3>1. ASSUME NEW q \in Rooms, q # r PROVE out'[q].sid # then.sid
      <4>1. out'[q] = out[q] /\ (out[q] = K!NoSession \/ out[q].sid # then.sid)
        BY <1>5, <1>6, <3>1
      <4> QED
        BY <1>3, <1>5, <4>1, KeyConstants DEF K!NoSession
    <3>2. ASSUME NEW p \in Rooms, NEW q \in Rooms, p # q, p # r, q # r,
                 out'[p].sid = out'[q].sid
          PROVE  out'[p] = K!NoSession
      BY <1>6, <3>2 DEF KeyInv, CurrentOK
    <3> QED
      BY <1>6, <3>1, <3>2
  <2> QED
    BY <2>1, <2>2 DEF CurrentOK
<1>10. /\ DOMAIN inb' \subseteq K!Key /\ \A j \in DOMAIN inb' : inb'[j] \in K!Entry
       /\ K!FiledUnderItsId'
  <2>1. CASE ~filed
    <3>1. inb' = inb /\ rotated \subseteq rotated'
      BY <1>2, <2>1
    <3> QED
      BY <3>1, FiledStays
  <2>2. CASE filed
    <3> DEFINE e == [room |-> r, sid |-> cur.sid, first |-> RotateAfter]
    <3>1. /\ inb' = [j \in DOMAIN inb \cup {k} |-> IF j = k THEN e ELSE inb[j]]
          /\ rotated' = rotated \cup {cur.sid}
      BY <1>2, <2>2 DEF K!Put
    <3>2. k \in K!Key /\ e \in K!Entry /\ e.sid = k.sid /\ k.sid \in rotated'
      BY <1>4, <3>1, KeyConstants DEF K!Key, K!Entry, K!Sessions, K!Index
    <3> HIDE DEF k, e
    <3> QED
      BY <3>1, <3>2 DEF KeyInv, K!FiledUnderItsId
  <2> QED
    BY <2>1, <2>2
<1>11. file' = file
  BY DEF K!Encrypt
<1> QED
  BY <1>3, <1>6, <1>7, <1>8, <1>9, <1>10, <1>11 DEF KeyInv, K!Entry

\* A session is discarded for a new one; rooms are marked, cleared, exported, imported.
LEMMA StoreKeeps ==
  ASSUME KeyInv, NEW r \in Rooms,
         \/ K!EnableEncryption(r) \/ K!RoomEncrypted(r) \/ K!ClearRoom(r)
         \/ K!ExportRoomKeys(r) \/ K!ImportRoomKeys(r)
  PROVE  KeyInv'
<1>1. CASE K!EnableEncryption(r)
  <2>1. /\ inb' = inb /\ rotated' = rotated /\ file' = file /\ used' = used
        /\ \/ \E s \in Own \ made : /\ out' = [out EXCEPT ![r] = [sid |-> s, next |-> 0]]
                                    /\ made' = made \cup {s}
           \/ out' = out /\ made' = made
    BY <1>1 DEF K!EnableEncryption, K!NewSession
  <2>2. CASE out' = out /\ made' = made
    BY <2>1, <2>2, CurrentStays, FiledStays DEF KeyInv, K!Entry
  <2>3. CASE \E s \in Own \ made : /\ out' = [out EXCEPT ![r] = [sid |-> s, next |-> 0]]
                                   /\ made' = made \cup {s}
    <3>1. PICK s \in Own \ made : /\ out' = [out EXCEPT ![r] = [sid |-> s, next |-> 0]]
                                  /\ made' = made \cup {s}
      BY <2>3
    <3> DEFINE new == [sid |-> s, next |-> 0]
    <3>2. new.sid \in Own \ made /\ new.next = 0 /\ new \in Outbound /\ new.sid = s
      BY KeyConstants DEF Outbound
    <3> HIDE DEF new
    <3>3. out' = [out EXCEPT ![r] = new] /\ made' = made \cup {new.sid}
      BY <3>1, <3>2 DEF new
    <3> QED
      BY <2>1, <3>2, <3>3, Replaced, FiledStays DEF KeyInv, K!Entry
  <2> QED
    BY <2>1, <2>2, <2>3
<1>2. CASE K!RoomEncrypted(r) \/ K!ExportRoomKeys(r)
  <2>1. /\ inb' = inb /\ rotated' = rotated /\ used' = used /\ out' = out /\ made' = made
        /\ file' = file \/ file' = [file EXCEPT ![r] = K!Exported(r)]
    BY <1>2 DEF K!RoomEncrypted, K!ExportRoomKeys
  <2>2. K!Exported(r) \subseteq K!Entry
    BY DEF K!Exported, KeyInv, K!Entry
  <2>3. file' \in [Rooms -> SUBSET K!Entry]
    BY <2>1, <2>2 DEF KeyInv
  <2> QED
    BY <2>1, <2>3, CurrentStays, FiledStays DEF KeyInv, K!Entry
<1>3. CASE K!ClearRoom(r)
  <2>1. /\ inb' = [k \in {j \in DOMAIN inb : inb[j].room # r} |-> inb[k]]
        /\ out' = [out EXCEPT ![r] = K!NoSession]
        /\ made' = made /\ used' = used /\ file' = file /\ rotated' = rotated
    BY <1>3 DEF K!ClearRoom
  <2>2. /\ DOMAIN inb' \subseteq K!Key /\ \A k \in DOMAIN inb' : inb'[k] \in K!Entry
        /\ K!FiledUnderItsId'
    BY <2>1 DEF KeyInv, K!FiledUnderItsId
  <2> QED
    BY <2>1, <2>2, Replaced DEF KeyInv, K!Entry
<1>4. CASE K!ImportRoomKeys(r)
  <2>1. /\ inb' = K!Received(file[r]) /\ rotated' = rotated /\ used' = used
        /\ out' = out /\ made' = made /\ file' = file
    BY <1>4 DEF K!ImportRoomKeys
  <2>2. file[r] \in SUBSET K!Entry
    BY DEF KeyInv
  <2>3. /\ DOMAIN inb' \subseteq K!Key /\ \A k \in DOMAIN inb' : inb'[k] \in K!Entry
        /\ K!FiledUnderItsId'
    BY <2>1, <2>2, ReceivedFiled
  <2> QED
    BY <2>1, <2>3, CurrentStays DEF KeyInv, K!Entry
<1> QED
  BY <1>1, <1>2, <1>3, <1>4

\* Every operation on the sessions keeps them as they should be.
LEMMA KeyStep ==
  ASSUME KeyInv, K!Next
  PROVE  KeyInv'
<1>1. ASSUME NEW r \in Rooms, K!Encrypt(r) PROVE KeyInv'
  BY <1>1, EncryptKeeps
<1>2. ASSUME NEW r \in Rooms,
             \/ K!EnableEncryption(r) \/ K!RoomEncrypted(r) \/ K!ClearRoom(r)
             \/ K!ExportRoomKeys(r) \/ K!ImportRoomKeys(r)
      PROVE  KeyInv'
  BY <1>2, StoreKeeps
<1>3. ASSUME NEW f \in Foreign, NEW i \in K!Index, K!Receive(f, i) PROVE KeyInv'
  <2> DEFINE X == {[room |-> RoomOf(f), sid |-> f, first |-> i]}
  <2>1. /\ inb' = K!Received(X) /\ rotated' = rotated /\ used' = used
        /\ out' = out /\ made' = made /\ file' = file
    BY <1>3 DEF K!Receive
  <2>2. X \in SUBSET K!Entry
    BY KeyConstants DEF K!Entry, K!Sessions
  <2> HIDE DEF X
  <2>3. /\ DOMAIN inb' \subseteq K!Key /\ \A k \in DOMAIN inb' : inb'[k] \in K!Entry
        /\ K!FiledUnderItsId'
    BY <2>1, <2>2, ReceivedFiled
  <2> QED
    BY <2>1, <2>3, CurrentStays DEF KeyInv, K!Entry
<1>4. CASE (\E k \in DOMAIN inb : K!Decrypt(k)) \/ K!UploadKeyBackup \/ K!RestoreKeyBackup
  <2>1. /\ inb' = inb /\ rotated' = rotated /\ used' = used
        /\ out' = out /\ made' = made /\ file' = file
    BY <1>4 DEF K!Decrypt, K!UploadKeyBackup, K!RestoreKeyBackup, K!vars
  <2> QED
    BY <2>1, CurrentStays, FiledStays DEF KeyInv, K!Entry
<1>5. CASE K!ClearAll
  <2>1. /\ inb' = <<>> /\ out' = [r \in Rooms |-> K!NoSession] /\ rotated' = rotated
        /\ used' = used /\ made' = made /\ file' = file
    BY <1>5 DEF K!ClearAll
  <2>2. K!NoSession \in Outbound
    BY KeyConstants DEF K!NoSession, Outbound
  <2>3. DOMAIN inb' = {}
    BY <2>1
  <2>4. CurrentOK'
    BY <2>1 DEF CurrentOK, K!NoSession
  <2> QED
    BY <2>1, <2>2, <2>3, <2>4 DEF KeyInv, K!FiledUnderItsId, K!NoSession, K!Entry
<1> QED
  BY <1>1, <1>2, <1>3, <1>4, <1>5 DEF K!Next

\* No step costs a key but those that replace or clear it, and an import finds them all.
LEMMA KeysAreKept ==
  ASSUME KeyInv, K!Next
  PROVE  K!KeysKept /\ K!ImportFinds
<1>1. K!KeysKept
  <2> SUFFICES ASSUME NEW s \in K!Sessions, NEW i \in K!Index,
                      K!CanDecrypt(s, i), ~K!CanDecrypt(s, i)'
               PROVE  \/ \E f \in Foreign, j \in K!Index : K!Receive(f, j)
                      \/ \E r \in Rooms : K!ImportRoomKeys(r) \/ K!ClearRoom(r)
                      \/ K!ClearAll
    BY DEF K!KeysKept
  <2>1. inb' # inb
    BY DEF K!CanDecrypt, K!ById
  <2>2. ASSUME NEW r \in Rooms, K!Encrypt(r) PROVE FALSE
    <3>1. PICK e, x : inb' = K!Put(inb, [by |-> "key", sid |-> x], e)
      BY <2>1, <2>2 DEF K!Encrypt
    <3>2. K!ById(s) # [by |-> "key", sid |-> x]
      BY DEF K!ById
    <3>3. \A k \in DOMAIN inb : k # [by |-> "key", sid |-> x] =>
              k \in DOMAIN inb' /\ inb'[k] = inb[k]
      BY <3>1 DEF K!Put
    <3> QED
      BY <3>2, <3>3 DEF K!CanDecrypt, K!ById
  <2> QED
    BY <2>1, <2>2 DEF K!Next, K!EnableEncryption, K!RoomEncrypted, K!ExportRoomKeys,
       K!Decrypt, K!UploadKeyBackup, K!RestoreKeyBackup, K!vars
<1>2. K!ImportFinds
  <2> SUFFICES ASSUME NEW r \in Rooms, K!ImportRoomKeys(r), NEW x \in file[r]
               PROVE  \E y \in file[r] : y.sid = x.sid /\ K!CanDecrypt(x.sid, y.first)'
    BY DEF K!ImportFinds
  <2>1. /\ inb' = K!Received(file[r]) /\ rotated' = rotated
        /\ file[r] \in SUBSET K!Entry
    BY DEF K!ImportRoomKeys, KeyInv
  <2>2. PICK y \in file[r] : /\ K!ById(x.sid) \in DOMAIN inb'
                             /\ y.sid = x.sid /\ inb'[K!ById(x.sid)].first = y.first
    BY <2>1, ReceivedFiled
  <2>3. y.first \in Int
    BY <2>1, KeyConstants DEF K!Entry, K!Index
  <2> QED
    BY <2>2, <2>3 DEF K!CanDecrypt, K!ById
<1> QED
  BY <1>1, <1>2

\* A step of another part leaves the sessions alone.
LEMMA KeysStay ==
  ASSUME KeyInv,
         UNCHANGED <<file, encrypted, out, inb, recent, made, backup, used, rotated>>
  PROVE  KeyInv'
BY CurrentStays, FiledStays DEF KeyInv, K!Entry

-----------------------------------------------------------------------------
(* The policy of the agent's tools.                                        *)

\* The plan is a file, and what is dangerous is a command.
LEMMA PolicyConstants ==
  /\ PlanFile \in Files /\ Dangerous \subseteq Commands
  /\ MaxChanges \in Nat
BY StorageAssumption DEF P!PolicyAssumption

\* A run that was launched.
Launched == [on : {TRUE}, cfg : P!Settings, plan : BOOLEAN, dialog : BOOLEAN,
             types : Seq({"agent", "general", "explore"}), session : SUBSET P!Questions]

\* The inductive invariant of the policy: settings of the commands, and a run that was
\* launched with some.
PolicyInv ==
    /\ cfg \in P!Settings /\ changes \in 0 .. MaxChanges /\ stop \in {"no", "esc", "ctrl-c"}
    /\ live = P!NoRun \/ live \in Launched

\* What the run and the settings are made of, from the invariant.
LEMMA PolicyTyped ==
  ASSUME PolicyInv
  PROVE  P!TypeOK
<1>1. CASE live = P!NoRun
  BY <1>1 DEF PolicyInv, P!TypeOK, P!NoRun
<1>2. CASE live \in Launched
  BY <1>2 DEF PolicyInv, P!TypeOK, Launched
<1> QED
  BY <1>1, <1>2 DEF PolicyInv

\* A set of indexes that is not empty has a greatest.
LEMMA GreatestIndex ==
  ASSUME NEW n \in Nat, NEW hits \in SUBSET (1 .. n), hits # {}
  PROVE  \E x \in hits : \A y \in hits : x >= y
<1> DEFINE rest == {n - x : x \in hits}
<1>1. \A x \in hits : n - x \in Nat
  OBVIOUS
<1>2. rest \in SUBSET Nat /\ rest # {}
  BY <1>1, Zenon
<1> HIDE DEF rest
<1>3. PICK z \in rest : \A y \in rest : <<y, z>> \notin OpToRel(<, Nat)
  BY <1>2, NatLessThanWellFounded, WFMin
<1>4. \A y \in rest : ~(y < z)
  BY <1>2, <1>3 DEF OpToRel
<1>5. PICK x \in hits : z = n - x
  BY DEF rest
<1>6. \A y \in hits : ~(n - y < n - x)
  BY <1>4, <1>5 DEF rest
<1>7. \A y \in hits : x >= y
  BY <1>6
<1> QED
  BY <1>7

\* A greatest index is the maximum.
LEMMA GreatestIsMax ==
  ASSUME NEW hits \in SUBSET Nat, NEW i \in hits, \A j \in hits : j <= i
  PROVE  P!Max(hits) = i
<1>1. \E x \in hits : \A y \in hits : x >= y
  BY Z3
<1>2. P!Max(hits) \in hits /\ \A y \in hits : P!Max(hits) >= y
  BY <1>1, Zenon DEF P!Max
<1>3. P!Max(hits) >= i /\ P!Max(hits) <= i /\ P!Max(hits) \in Nat
  BY <1>2
<1> QED
  BY <1>3, Z3

\* The last rule that speaks of a call decides it, if no prefix does.
LEMMA LastRuleDecides ==
  ASSUME NEW c \in P!Settings, NEW tool, NEW s, NEW i \in DOMAIN c.rules,
         c.rules[i].tool \in {"*", tool}, s \in c.rules[i].glob,
         \A j \in DOMAIN c.rules :
            j > i => ~(c.rules[j].tool \in {"*", tool} /\ s \in c.rules[j].glob)
  PROVE  P!CheckPermission(c, tool, s) = c.rules[i].action
<1>1. DOMAIN c.rules = 1 .. Len(c.rules) /\ Len(c.rules) \in Nat
  BY DEF P!Settings
<1> DEFINE hits == P!Matching(c, tool, s)
<1>2. hits \in SUBSET Nat /\ i \in hits /\ \A j \in hits : j <= i
  BY <1>1 DEF P!Matching
<1>3. P!Max(hits) = i
  BY <1>2, GreatestIsMax
<1> QED
  BY <1>2, <1>3, Zenon DEF P!CheckPermission

\* The settings a start finds have no rules, and nothing was called.
LEMMA PolicyBegins ==
  ASSUME P!Init
  PROVE  PolicyInv
BY PolicyConstants DEF P!Init, PolicyInv, P!Settings, P!Decisions, P!Rules

\* A step of a run keeps the mode and the settings of the run.
LEMMA RunKeeps ==
  ASSUME PolicyInv,
         \/ \E k \in P!ToolCalls : P!Call(k)
         \/ \E type \in {"general", "explore"} : P!Task(type)
         \/ P!TaskEnds
  PROVE  /\ live' \in Launched /\ live'.plan = live.plan /\ live'.cfg = live.cfg
         /\ cfg' = cfg /\ stop' = stop /\ changes' = changes
<1>1. live \in Launched
  BY DEF PolicyInv, P!NoRun, P!Call, P!Task, P!TaskEnds
<1>2. CASE \E k \in P!ToolCalls : P!Call(k)
  <2>1. PICK k \in P!ToolCalls : P!Call(k)
    BY <1>2
  <2>2. k.tool # "patch"
    BY <2>1 DEF P!Call, P!Decision, P!CommandTools, P!FileTools
  <2>3. P!Question(k) \in P!Questions
    BY <2>2 DEF P!ToolCalls, P!Question, P!Questions, P!CommandTools, P!FileTools
  <2> QED
    BY <1>1, <2>1, <2>3 DEF P!Call, Launched
<1>3. CASE \E type \in {"general", "explore"} : P!Task(type)
  <2>1. PICK type \in {"general", "explore"} : P!Task(type)
    BY <1>3
  <2>2. live.types \in Seq({"agent", "general", "explore"})
    BY <1>1 DEF Launched
  <2>3. Append(live.types, type) \in Seq({"agent", "general", "explore"})
    BY <2>2
  <2> QED
    BY <1>1, <2>1, <2>3 DEF P!Task, Launched
<1>4. CASE P!TaskEnds
  <2>1. <<"agent">> \in Seq({"agent", "general", "explore"})
    OBVIOUS
  <2> QED
    BY <1>1, <1>4, <2>1 DEF P!TaskEnds, Launched
<1> QED
  BY <1>2, <1>3, <1>4

\* Every command and every call keep the policy as it should be.
LEMMA PolicyStep ==
  ASSUME PolicyInv, P!Next
  PROVE  PolicyInv'
<1>1. CASE \E v \in P!Decisions : P!Trust(v)
  BY <1>1, PolicyConstants DEF PolicyInv, P!Trust, P!Change, P!Settings
<1>2. CASE \E p \in Prefixes : P!Allow(p) \/ P!Deny(p)
  BY <1>2, PolicyConstants DEF PolicyInv, P!Allow, P!Deny, P!Change, P!Settings
<1>3. CASE \E r \in P!Rules : P!Permit(r)
  <2>1. PICK r \in P!Rules : P!Permit(r)
    BY <1>3
  <2>2. cfg.rules \in Seq(P!Rules)
    BY DEF PolicyInv, P!Settings
  <2>3. Append(cfg.rules, r) \in Seq(P!Rules)
    BY <2>2
  <2>4. cfg' \in P!Settings
    BY <2>1, <2>3 DEF PolicyInv, P!Permit, P!Settings
  <2> QED
    BY <2>1, <2>4, PolicyConstants DEF PolicyInv, P!Permit, P!Change
<1>4. CASE \E plan \in BOOLEAN, dialog \in BOOLEAN : P!Launch(plan, dialog)
  <2>1. <<"agent">> \in Seq({"agent", "general", "explore"})
    OBVIOUS
  <2> QED
    BY <1>4, <2>1 DEF PolicyInv, P!Launch, Launched
<1>5. CASE P!Ends \/ \E how \in {"esc", "ctrl-c"} : P!Interrupt(how)
  BY <1>5 DEF PolicyInv, P!Ends, P!Interrupt
<1> QED
  BY <1>1, <1>2, <1>3, <1>4, <1>5, RunKeeps DEF P!Next, PolicyInv

\* A run keeps the mode and the settings it was launched with.
LEMMA RunStays ==
  ASSUME PolicyInv, P!Next
  PROVE  P!PlansToTheEnd
BY RunKeeps DEF P!Next, P!PlansToTheEnd, P!Trust, P!Allow, P!Deny, P!Permit, P!Change,
   P!Launch, P!Ends, P!NoRun, P!Interrupt

\* The decision on a call, by the prefixes and by the last rule that speaks of it.
LEMMA DecisionIs ==
  ASSUME NEW c, NEW k \in P!ToolCalls, NEW tool,
         tool = IF k.tool = "process" THEN "shell" ELSE k.tool,
         NEW rule, rule = P!CheckPermission(c, tool, k.subject)
  PROVE  /\ k.tool = "patch" \/ k.tool \in P!CommandTools \/ k.tool \in P!FileTools
         /\ k.tool = "patch" => P!Decision(c, k) = "allow"
         /\ k.tool \in P!FileTools => P!Decision(c, k) = rule
         /\ k.tool \in P!CommandTools =>
                P!Decision(c, k) = IF \E p \in c.deny : k.subject \in p THEN "deny"
                                   ELSE IF \E p \in c.allow : k.subject \in p THEN "allow"
                                   ELSE IF rule # "allow" THEN rule ELSE c.trust
<1>1. k.tool = "patch" \/ k.tool \in P!CommandTools \/ k.tool \in P!FileTools
  BY DEF P!ToolCalls
<1>2. k.tool = "patch" => P!Decision(c, k) = "allow"
  BY DEF P!Decision, P!CommandTools, P!FileTools
<1>3. ASSUME k.tool \in P!FileTools PROVE P!Decision(c, k) = rule
  <2>1. tool = k.tool /\ k.tool \notin P!CommandTools
    BY <1>3 DEF P!CommandTools, P!FileTools
  <2>2. P!Decision(c, k) = P!CheckPermission(c, k.tool, k.subject)
    BY <1>3, <2>1 DEF P!Decision
  <2> QED
    BY <2>1, <2>2
<1>4. ASSUME k.tool \in P!CommandTools
      PROVE  P!Decision(c, k) = IF \E p \in c.deny : k.subject \in p THEN "deny"
                                ELSE IF \E p \in c.allow : k.subject \in p THEN "allow"
                                ELSE IF rule # "allow" THEN rule ELSE c.trust
  <2>1. tool = "shell"
    BY <1>4 DEF P!CommandTools
  <2>2. P!Decision(c, k) = P!CheckTrust(c, k.subject)
    BY <1>4 DEF P!Decision, P!CommandTools, P!FileTools
  <2>3. rule = P!CheckPermission(c, "shell", k.subject)
    BY <2>1, Zenon
  <2>4. CASE \E p \in c.deny : k.subject \in p
    BY <2>2, <2>4, Zenon DEF P!CheckTrust
  <2>5. CASE ~(\E p \in c.deny : k.subject \in p) /\ \E p \in c.allow : k.subject \in p
    BY <2>2, <2>5, Zenon DEF P!CheckTrust
  <2>6. CASE /\ ~(\E p \in c.deny : k.subject \in p) /\ ~\E p \in c.allow : k.subject \in p
             /\ rule # "allow"
    BY <2>2, <2>3, <2>6, Zenon DEF P!CheckTrust
  <2>7. CASE /\ ~(\E p \in c.deny : k.subject \in p) /\ ~\E p \in c.allow : k.subject \in p
             /\ rule = "allow"
    BY <2>2, <2>3, <2>7, Zenon DEF P!CheckTrust
  <2> QED
    BY <2>4, <2>5, <2>6, <2>7
<1> QED
  BY <1>1, <1>2, <1>3, <1>4

\* What is carried out follows the policy.
LEMMA CarriedFollows ==
  ASSUME P!TypeOK
  PROVE  P!NothingAgainstPolicy
<1> SUFFICES ASSUME live.on, NEW k \in P!ToolCalls, NEW a \in P!Answers, P!Carried(k, a)
             PROVE  /\ P!Begins({Dangerous} \cup live.cfg.deny, k) = FALSE
                    /\ \/ k.tool = "patch" \/ P!Begins(live.cfg.allow, k)
                       \/ ~P!RuledLast(live.cfg, k, "deny")
                    /\ \/ k.tool = "patch" \/ P!Approved(k) \/ (live.dialog /\ a # "n")
                       \/ /\ ~P!RuledLast(live.cfg, k, "ask")
                          /\ k.tool \in P!CommandTools => live.cfg.trust = "allow"
                    /\ live.plan => k.tool = "read" \/ k.subject = PlanFile
  BY DEF P!NothingAgainstPolicy
<1> DEFINE c == live.cfg
           d == P!Decision(c, k)
           tool == IF k.tool = "process" THEN "shell" ELSE k.tool
           rule == P!CheckPermission(c, tool, k.subject)
<1>1. ~P!Barred(k) /\ (d = "allow" \/ (d = "ask" /\ P!Consented(k, a)))
  BY DEF P!Carried
<1>2. c \in P!Settings
  BY DEF P!TypeOK
<1>3. \A action \in {"deny", "ask"} : P!RuledLast(c, k, action) => rule = action
  BY <1>2, LastRuleDecides, ZenonT(60) DEF P!RuledLast
<1>4. k.tool = "patch" \/ k.tool \in P!CommandTools \/ k.tool \in P!FileTools
  BY DecisionIs
<1>5. k.tool \in P!CommandTools =>
        d = IF \E p \in c.deny : k.subject \in p THEN "deny"
            ELSE IF \E p \in c.allow : k.subject \in p THEN "allow"
            ELSE IF rule # "allow" THEN rule ELSE c.trust
  BY DecisionIs
<1>6. k.tool \in P!FileTools => d = rule
  BY DecisionIs
<1> HIDE DEF d, rule, tool
<1>7. P!Begins({Dangerous} \cup c.deny, k) = FALSE
  BY <1>1, <1>5 DEF P!Begins, P!Barred
<1>8. \/ k.tool = "patch" \/ P!Begins(c.allow, k) \/ ~P!RuledLast(c, k, "deny")
  BY <1>1, <1>3, <1>4, <1>5, <1>6 DEF P!Begins
<1>9. \/ k.tool = "patch" \/ P!Approved(k) \/ (live.dialog /\ a # "n")
      \/ /\ ~P!RuledLast(c, k, "ask")
         /\ k.tool \in P!CommandTools => c.trust = "allow"
  <2>1. CASE d = "ask"
    BY <1>1, <2>1 DEF P!Consented
  <2>2. CASE d = "allow" /\ k.tool \in P!FileTools
    BY <1>3, <1>6, <2>2 DEF P!CommandTools, P!FileTools
  <2>3. CASE d = "allow" /\ k.tool \in P!CommandTools
    <3>1. CASE \E p \in c.allow : k.subject \in p
      BY <2>3, <3>1 DEF P!Approved, P!Question
    <3>2. CASE ~\E p \in c.allow : k.subject \in p
      BY <1>3, <1>5, <2>3, <3>2
    <3> QED
      BY <3>1, <3>2
  <2> QED
    BY <1>1, <1>4, <2>1, <2>2, <2>3
<1>10. live.plan => k.tool = "read" \/ k.subject = PlanFile
  BY <1>1 DEF P!Barred
<1> QED
  BY <1>7, <1>8, <1>9, <1>10

\* Settings that differ in the rules' absence only are decided by the same rule.
LEMMA SameRule ==
  ASSUME NEW c, NEW b, b.rules = c.rules, NEW tool, NEW s
  PROVE  P!CheckPermission(b, tool, s) = P!CheckPermission(c, tool, s)
<1>1. P!Matching(b, tool, s) = P!Matching(c, tool, s)
  BY DEF P!Matching
<1> QED
  BY <1>1, Zenon DEF P!CheckPermission

\* A rule added at the end decides what it speaks of, and nothing else.
LEMMA AddedRule ==
  ASSUME NEW c \in P!Settings, NEW b, NEW r \in P!Rules, b.rules = Append(c.rules, r),
         NEW tool, NEW s
  PROVE  P!CheckPermission(b, tool, s) =
           IF r.tool \in {"*", tool} /\ s \in r.glob THEN r.action
           ELSE P!CheckPermission(c, tool, s)
<1> DEFINE n == Len(c.rules)
           Speaks(q) == q.tool \in {"*", tool} /\ s \in q.glob
<1>1. n \in Nat /\ DOMAIN c.rules = 1 .. n /\ c.rules \in Seq(P!Rules)
  BY DEF P!Settings
<1>2. /\ DOMAIN b.rules = 1 .. n + 1 /\ b.rules[n + 1] = r
      /\ \A i \in 1 .. n : b.rules[i] = c.rules[i]
  BY <1>1
<1> HIDE DEF n
<1>3. P!Matching(c, tool, s) = {i \in 1 .. n : Speaks(c.rules[i])}
  BY <1>1, Zenon DEF P!Matching
<1>4. P!Matching(b, tool, s) = {i \in 1 .. n + 1 : Speaks(b.rules[i])}
  BY <1>2, Zenon DEF P!Matching
<1>5. CASE Speaks(r)
  <2> DEFINE hits == P!Matching(b, tool, s)
  <2>1. hits \in SUBSET Nat /\ n + 1 \in hits /\ \A j \in hits : j <= n + 1
    BY <1>1, <1>2, <1>4, <1>5
  <2>2. P!Max(hits) = n + 1
    BY <2>1, GreatestIsMax
  <2>3. P!CheckPermission(b, tool, s) = b.rules[P!Max(hits)].action
    BY <2>1, Zenon DEF P!CheckPermission
  <2> QED
    BY <1>2, <1>5, <2>2, <2>3
<1>6. CASE ~Speaks(r)
  <2> DEFINE hits == P!Matching(c, tool, s)
  <2>1. P!Matching(b, tool, s) = hits
    BY <1>1, <1>2, <1>3, <1>4, <1>6
  <2>2. CASE hits = {}
    BY <1>6, <2>1, <2>2 DEF P!CheckPermission
  <2>3. CASE hits # {}
    <3>1. \E x \in hits : \A y \in hits : x >= y
      <4>1. hits \in SUBSET (1 .. n)
        BY <1>3
      <4> HIDE DEF hits
      <4> QED
        BY <1>1, <2>3, <4>1, GreatestIndex
    <3> HIDE DEF hits
    <3>2. P!Max(hits) \in hits
      BY <3>1, Zenon DEF P!Max
    <3>3. P!Max(hits) \in 1 .. n
      BY <1>3, <3>2 DEF hits
    <3>4. b.rules[P!Max(hits)] = c.rules[P!Max(hits)]
      BY <1>2, <3>3
    <3> QED
      BY <1>6, <2>1, <2>3, <3>4 DEF P!CheckPermission, hits
  <2> QED
    BY <2>2, <2>3
<1> QED
  BY <1>5, <1>6

\* A command of the user decides what it names.
LEMMA CommandDecides ==
  ASSUME P!TypeOK, P!Next
  PROVE  P!CommandsDecide
<1>1. CASE cfg' = cfg
  BY <1>1 DEF P!CommandsDecide
<1>2. cfg \in P!Settings /\ Len(cfg.rules) \in Nat /\ cfg.rules \in Seq(P!Rules)
  BY DEF P!TypeOK, P!Settings
<1> DEFINE Tool(k) == IF k.tool = "process" THEN "shell" ELSE k.tool
           Rule(c, k) == P!CheckPermission(c, Tool(k), k.subject)
<1>3. CASE cfg'.rules = cfg.rules /\ cfg' # cfg
  <2>0. ~(Len(cfg'.rules) > Len(cfg.rules))
    BY <1>2, <1>3
  <2> SUFFICES ASSUME NEW k \in P!ToolCalls
               PROVE  LET was == P!Decision(cfg, k)
                          is == P!Decision(cfg', k)
                          prefixed == P!Begins(cfg.deny \cup cfg.allow, k) IN
                      /\ cfg'.deny # cfg.deny =>
                            is = IF P!Begins(cfg'.deny, k) THEN "deny" ELSE was
                      /\ cfg'.allow # cfg.allow =>
                            is = IF P!Begins(cfg'.allow \ cfg.allow, k) /\ ~P!Begins(cfg.deny, k)
                                 THEN "allow" ELSE was
                      /\ cfg'.trust # cfg.trust =>
                            (is # was => k.tool \in P!CommandTools /\ ~prefixed /\ is = cfg'.trust)
    BY <2>0, Zenon DEF P!CommandsDecide
  <2>1. Rule(cfg', k) = Rule(cfg, k)
    BY <1>3, SameRule
  <2> DEFINE rule == Rule(cfg, k)
  <2>2. /\ k.tool = "patch" \/ k.tool \in P!CommandTools \/ k.tool \in P!FileTools
        /\ k.tool \in P!CommandTools => k.tool # "patch" /\ k.tool \notin P!FileTools
    BY DecisionIs DEF P!CommandTools, P!FileTools
  <2>3. \A c \in {cfg, cfg'} :
          /\ k.tool = "patch" => P!Decision(c, k) = "allow"
          /\ k.tool \in P!FileTools => P!Decision(c, k) = rule
          /\ k.tool \in P!CommandTools =>
                P!Decision(c, k) = IF \E p \in c.deny : k.subject \in p THEN "deny"
                                   ELSE IF \E p \in c.allow : k.subject \in p THEN "allow"
                                   ELSE IF rule # "allow" THEN rule ELSE c.trust
    BY <2>1, DecisionIs
  <2> HIDE DEF rule, Rule, Tool
  <2>4. CASE \E v \in P!Decisions : P!Trust(v)
    <3>1. cfg'.deny = cfg.deny /\ cfg'.allow = cfg.allow
      BY <1>2, <2>4 DEF P!Trust, P!Settings
    <3> QED
      BY <2>2, <2>3, <3>1 DEF P!Begins
  <2>5. CASE \E p \in Prefixes : P!Allow(p)
    <3>1. PICK p \in Prefixes : cfg' = [cfg EXCEPT !.allow = @ \cup {p}]
      BY <2>5 DEF P!Allow
    <3>2. cfg'.deny = cfg.deny /\ cfg'.trust = cfg.trust /\ cfg'.allow = cfg.allow \cup {p}
      BY <1>2, <3>1 DEF P!Settings
    <3> QED
      BY <2>2, <2>3, <3>2 DEF P!Begins
  <2>6. CASE \E p \in Prefixes : P!Deny(p)
    <3>1. PICK p \in Prefixes : cfg' = [cfg EXCEPT !.deny = @ \cup {p}]
      BY <2>6 DEF P!Deny
    <3>2. cfg'.allow = cfg.allow /\ cfg'.trust = cfg.trust /\ cfg'.deny = cfg.deny \cup {p}
      BY <1>2, <3>1 DEF P!Settings
    <3> QED
      BY <2>2, <2>3, <3>2 DEF P!Begins
  <2>7. CASE \E r \in P!Rules : P!Permit(r)
    <3>1. PICK r \in P!Rules : cfg'.rules = Append(cfg.rules, r)
      BY <1>2, <2>7 DEF P!Permit, P!Settings
    <3>2. Len(cfg'.rules) = Len(cfg.rules) + 1
      BY <1>2, <3>1
    <3> QED
      BY <1>2, <1>3, <3>2
  <2> QED
    BY <1>3, <2>4, <2>5, <2>6, <2>7 DEF P!Next, P!Launch, P!Call, P!Task, P!TaskEnds,
       P!Ends, P!Interrupt
<1>4. CASE \E r \in P!Rules : P!Permit(r)
  <2>1. PICK r \in P!Rules : P!Permit(r)
    BY <1>4
  <2>2. /\ cfg'.deny = cfg.deny /\ cfg'.allow = cfg.allow /\ cfg'.trust = cfg.trust
        /\ cfg'.rules = Append(cfg.rules, r)
    BY <1>2, <2>1 DEF P!Permit, P!Settings
  <2>3. cfg'.rules[Len(cfg'.rules)] = r
    BY <1>2, <2>2
  <2> SUFFICES ASSUME NEW k \in P!ToolCalls
               PROVE  LET was == P!Decision(cfg, k)
                          is == P!Decision(cfg', k)
                          prefixed == P!Begins(cfg.deny \cup cfg.allow, k)
                          spoken == /\ r.tool \in {"*", Tool(k)} /\ k.subject \in r.glob
                                    /\ k.tool # "patch" IN
                      is = IF ~spoken \/ prefixed THEN was
                           ELSE IF k.tool \in P!CommandTools /\ r.action = "allow"
                                THEN cfg.trust ELSE r.action
    BY <2>2, <2>3 DEF P!CommandsDecide
  <2> DEFINE old == Rule(cfg, k)
             new == Rule(cfg', k)
  <2>4. new = IF r.tool \in {"*", Tool(k)} /\ k.subject \in r.glob THEN r.action ELSE old
    BY <1>2, <2>2, AddedRule, SMTT(30)
  <2>5. /\ k.tool = "patch" \/ k.tool \in P!CommandTools \/ k.tool \in P!FileTools
        /\ k.tool \in P!CommandTools => k.tool # "patch" /\ k.tool \notin P!FileTools
        /\ k.tool \in P!FileTools => k.tool # "patch"
    BY DecisionIs DEF P!CommandTools, P!FileTools
  <2>6. /\ k.tool = "patch" => P!Decision(cfg, k) = "allow"
        /\ k.tool \in P!FileTools => P!Decision(cfg, k) = old
        /\ k.tool \in P!CommandTools =>
              P!Decision(cfg, k) = IF \E p \in cfg.deny : k.subject \in p THEN "deny"
                                   ELSE IF \E p \in cfg.allow : k.subject \in p THEN "allow"
                                   ELSE IF old # "allow" THEN old ELSE cfg.trust
    BY DecisionIs
  <2>7. /\ k.tool = "patch" => P!Decision(cfg', k) = "allow"
        /\ k.tool \in P!FileTools => P!Decision(cfg', k) = new
        /\ k.tool \in P!CommandTools =>
              P!Decision(cfg', k) = IF \E p \in cfg.deny : k.subject \in p THEN "deny"
                                    ELSE IF \E p \in cfg.allow : k.subject \in p THEN "allow"
                                    ELSE IF new # "allow" THEN new ELSE cfg.trust
    BY <2>2, DecisionIs
  <2> HIDE DEF old, new, Rule, Tool
  <2> QED
    BY <2>4, <2>5, <2>6, <2>7 DEF P!Begins
<1> QED
  BY <1>1, <1>3, <1>4 DEF P!Next, P!Trust, P!Allow, P!Deny, P!Launch, P!Call, P!Task, P!TaskEnds,
     P!Ends, P!Interrupt, P!TypeOK, P!Settings

\* Nothing moves the policy but its own steps.
LEMMA PolicyStays ==
  ASSUME PolicyInv, UNCHANGED policyVars
  PROVE  PolicyInv'
BY DEF PolicyInv, policyVars

-----------------------------------------------------------------------------
(* The standing goal.                                                      *)

\* What is checked is a goal, and an achieved one was judged to be.
GoalInv ==
    /\ G!TypeOK
    /\ G!AchievedWasJudged
    /\ \A p \in Terminals : asks[p].what = "check" => asks[p].goal.text # NoGoal

\* No goal is none of the goals.
LEMMA GoalConstants == NoGoal \notin Goals /\ MaxGoalCommands \in Nat
BY StorageAssumption DEF G!GoalAssumption

\* A start finds no goal and has asked nothing.
LEMMA GoalBegins ==
  ASSUME G!Init
  PROVE  GoalInv
BY GoalConstants DEF G!Init, GoalInv, G!TypeOK, G!AchievedWasJudged, G!Empty, G!Quiet,
   G!GoalStates

\* A command writes the goal, or sends it to the model.
LEMMA GoalCommanded ==
  ASSUME GoalInv, NEW p \in Terminals, G!Command(p)
  PROVE  issued' \in 0 .. MaxGoalCommands /\ issued' # issued
BY GoalConstants DEF GoalInv, G!TypeOK, G!Command

\* The goal of now is changed, not judged.
LEMMA GoalChanged ==
  ASSUME GoalInv, goal' \in G!GoalStates,
         ~goal'.achieved \/ (goal'.text = goal.text /\ goal'.achieved = goal.achieved),
         issued' \in 0 .. MaxGoalCommands, asks' = asks, judged' = judged
  PROVE  GoalInv'
BY DEF GoalInv, G!TypeOK, G!AchievedWasJudged

\* A terminal asks, or has its answer.
LEMMA GoalAsked ==
  ASSUME GoalInv, NEW p \in Terminals, NEW g \in G!GoalStates,
         NEW what \in {"nothing", "draft", "check"},
         asks' = [asks EXCEPT ![p] = [what |-> what, goal |-> g]],
         what = "check" => g.text # NoGoal,
         goal' \in G!GoalStates, judged' \subseteq Goals, goal'.achieved => goal'.text \in judged',
         issued' \in 0 .. MaxGoalCommands
  PROVE  GoalInv'
<1>1. /\ asks' \in [Terminals -> [what : {"nothing", "draft", "check"}, goal : G!GoalStates]]
      /\ asks'[p] = [what |-> what, goal |-> g]
      /\ \A q \in Terminals : q # p => asks'[q] = asks[q]
  BY DEF GoalInv, G!TypeOK
<1> QED
  BY <1>1 DEF GoalInv, G!TypeOK, G!AchievedWasJudged

\* Every command and every answer of the model keep the goal as it should be.
LEMMA GoalStep ==
  ASSUME GoalInv, G!Next
  PROVE  GoalInv'
<1> USE GoalConstants
<1> PICK p \in Terminals :
        \/ G!Set(p) \/ G!Draft(p) \/ G!Drafted(p) \/ G!Mark(p) \/ G!Subgoal(p)
        \/ G!Check(p) \/ G!GateFails(p) \/ G!VerdictDone(p) \/ G!VerdictOther(p)
  BY DEF G!Next
<1>1. /\ goal \in G!GoalStates /\ judged \subseteq Goals /\ issued \in 0 .. MaxGoalCommands
      /\ goal.achieved => goal.text \in judged
      /\ asks[p] \in [what : {"nothing", "draft", "check"}, goal : G!GoalStates]
      /\ asks[p].what = "check" => asks[p].goal.text # NoGoal
      /\ G!Empty \in G!GoalStates
  BY DEF GoalInv, G!TypeOK, G!AchievedWasJudged, G!Empty, G!GoalStates
<1>2. CASE G!Set(p)
  <2>1. goal' \in G!GoalStates /\ ~goal'.achieved
    BY <1>1, <1>2, ZenonT(60) DEF G!Set, G!GoalStates
  <2> QED
    BY <1>2, <2>1, GoalCommanded, GoalChanged DEF G!Set
<1>3. CASE G!Mark(p) \/ G!Subgoal(p)
  <2>1. \/ goal' = G!Empty
        \/ \E f \in {TRUE, FALSE} : goal' = [goal EXCEPT !.paused = f]
        \/ goal' = [goal EXCEPT !.gate = TRUE]
        \/ \E s \in SUBSET Subgoals : goal' = [goal EXCEPT !.subgoals = s]
    <3>1. goal.subgoals \subseteq Subgoals
      BY <1>1 DEF G!GoalStates
    <3> QED
      BY <1>3, <3>1 DEF G!Mark, G!Subgoal
  <2>2. /\ goal' \in G!GoalStates
        /\ ~goal'.achieved \/ (goal'.text = goal.text /\ goal'.achieved = goal.achieved)
    BY <1>1, <2>1, ZenonT(60) DEF G!GoalStates, G!Empty
  <2> QED
    BY <1>3, <2>2, GoalCommanded, GoalChanged DEF G!Mark, G!Subgoal
<1>4. CASE G!Draft(p)
  <2>1. PICK g \in Goals :
          asks' = [asks EXCEPT ![p] = [what |-> "draft", goal |-> [goal EXCEPT !.text = g]]]
    BY <1>4 DEF G!Draft
  <2>2. [goal EXCEPT !.text = g] \in G!GoalStates
    BY <1>1 DEF G!GoalStates
  <2> QED
    BY <1>1, <1>4, <2>1, <2>2, GoalCommanded, GoalAsked, ZenonT(60) DEF G!Draft
<1>5. CASE G!Check(p)
  BY <1>1, <1>5, GoalCommanded, GoalAsked DEF G!Check
<1>6. CASE G!Drafted(p)
  <2>1. goal' \in G!GoalStates /\ ~goal'.achieved
    BY <1>1, <1>6 DEF G!Drafted, G!GoalStates
  <2>2. /\ asks' = [asks EXCEPT ![p] = [what |-> "nothing", goal |-> G!Empty]]
        /\ judged' = judged /\ issued' = issued
    BY <1>6 DEF G!Drafted, G!Quiet
  <2> QED
    BY <1>1, <2>1, <2>2, GoalAsked
<1>7. CASE G!GateFails(p) \/ G!VerdictOther(p)
  BY <1>1, <1>7, GoalAsked DEF G!GateFails, G!VerdictOther, G!Quiet
<1>8. CASE G!VerdictDone(p)
  <2>1. goal' \in G!GoalStates /\ goal'.text = asks[p].goal.text
    BY <1>1, <1>8 DEF G!VerdictDone, G!GoalStates
  <2>2. asks[p].goal.text \in Goals
    BY <1>1, <1>8 DEF G!VerdictDone, G!GoalStates
  <2>3. /\ asks' = [asks EXCEPT ![p] = [what |-> "nothing", goal |-> G!Empty]]
        /\ judged' = judged \cup {asks[p].goal.text} /\ issued' = issued
    BY <1>8 DEF G!VerdictDone, G!Quiet
  <2> QED
    BY <1>1, <2>1, <2>2, <2>3, GoalAsked
<1> QED
  BY <1>2, <1>3, <1>4, <1>5, <1>6, <1>7, <1>8

\* Without a command only a draft and a verdict write the goal.
LEMMA GoalIsKept ==
  ASSUME GoalInv, G!Next
  PROVE  G!GoalKept
<1> PICK p \in Terminals :
        \/ G!Set(p) \/ G!Draft(p) \/ G!Drafted(p) \/ G!Mark(p) \/ G!Subgoal(p)
        \/ G!Check(p) \/ G!GateFails(p) \/ G!VerdictDone(p) \/ G!VerdictOther(p)
  BY DEF G!Next
<1>1. CASE G!Command(p)
  BY <1>1, GoalCommanded DEF G!GoalKept
<1>2. asks \in [Terminals -> [what : {"nothing", "draft", "check"}, goal : G!GoalStates]]
  BY DEF GoalInv, G!TypeOK
<1>3. CASE G!Drafted(p)
  BY <1>2, <1>3 DEF G!GoalKept, G!Drafted
<1>4. CASE G!VerdictDone(p)
  <2>1. asks[p].goal \in G!GoalStates
    BY <1>2
  <2>2. goal'.achieved
    BY <1>4, <2>1 DEF G!VerdictDone, G!GoalStates
  <2> QED
    BY <1>2, <1>4, <2>2 DEF G!GoalKept, G!VerdictDone
<1>5. CASE G!GateFails(p) \/ G!VerdictOther(p)
  BY <1>5 DEF G!GoalKept, G!GateFails, G!VerdictOther
<1> QED
  BY <1>1, <1>3, <1>4, <1>5 DEF G!Set, G!Draft, G!Mark, G!Subgoal, G!Check

\* Nothing moves the goal but its own steps.
LEMMA GoalStays ==
  ASSUME GoalInv, UNCHANGED <<goal, asks, judged, issued>>
  PROVE  GoalInv'
BY DEF GoalInv, G!TypeOK, G!AchievedWasJudged

-----------------------------------------------------------------------------
(* The verification of devices.                                            *)

\* A verification as the devices know it, and as the run that waits for it.
Transaction == [state : Sas!TxnStates, old : BOOLEAN, ours : BOOLEAN,
                told : SUBSET {"m.user", "m.timeout"}]
SasRun == [at : Sas!Places, confirmed : BOOLEAN, rc : {0, 1}]

\* A run and its transaction: what the run was told is what it answers, our side of the
\* transaction is there only after a yes, and a run that ended without one left it closed.
RunOK(t) ==
    /\ sas[t].at = "none" =>
            /\ ~sas[t].confirmed /\ said[t] = {} /\ sas[t].rc = 1
            /\ way # "verify-wait" => txn[t].state = "none"
    /\ sas[t].at = "confirm" => ~sas[t].confirmed
    /\ sas[t].at \in {"loop", "confirm"} /\ ~sas[t].confirmed =>
            IF way = "chat"
            THEN ("yes" \in said[t] <=> sasConfirm) /\ ("no" \in said[t] <=> sasCancel)
            ELSE said[t] = {}
    /\ sas[t].at = "ended" /\ ~sas[t].confirmed =>
            txn[t].state \in Sas!Closed \/ (way # "verify-wait" /\ txn[t].state = "none")
    /\ sas[t].confirmed => said[t] = {"yes"}
    /\ txn[t].state = "done" => txn[t].ours
    /\ txn[t].ours \/ sas[t].rc = 0 \/ t \in verified => sas[t].confirmed

\* What the verifications are made of.
SasTypes ==
    /\ way \in Sas!Ways /\ syncing \in BOOLEAN /\ waiting \in BOOLEAN
    /\ sasConfirm \in BOOLEAN /\ sasCancel \in BOOLEAN
    /\ txn \in [Txns -> Transaction] /\ sas \in [Txns -> SasRun]
    /\ offered \in Seq(Txns) /\ verified \subseteq Txns /\ stops \in Nat
    /\ said \in [Txns -> SUBSET {"yes", "no"}]

\* But for the chat, a process has one run, and that ends with the sync loop.
SyncOK ==
    /\ waiting => way = "verify-wait" /\ syncing /\ \A t \in Txns : sas[t].at = "none"
    /\ way # "chat" => \A t, u \in Txns : sas[t].at # "none" /\ sas[u].at # "none" => t = u
    /\ \A t \in Txns : sas[t].at \in {"loop", "confirm"} => syncing \/ (way = "chat" /\ stops > 0)

\* The inductive invariant of the verifications.
SasInv == SasTypes /\ SyncOK /\ \A t \in Txns : RunOK(t)

\* What is proved of verification follows from the invariant.
LEMMA SasConsistent ==
  ASSUME SasInv
  PROVE  Sas!VerifiedAsConfirmed /\ Sas!GivenUpIsTold /\ Sas!SyncServesRuns /\ Sas!TypeOK
<1>1. Sas!VerifiedAsConfirmed /\ Sas!GivenUpIsTold
  BY DEF SasInv, SasTypes, RunOK, Sas!VerifiedAsConfirmed, Sas!GivenUpIsTold, Sas!Closed
<1>2. Sas!SyncServesRuns
  BY DEF SasInv, SyncOK, Sas!SyncServesRuns, Sas!Running
<1>3. Sas!TypeOK
  BY DEF SasInv, SasTypes, Transaction, SasRun, Sas!TypeOK
<1> QED
  BY <1>1, <1>2, <1>3

\* At the start nobody verifies anything.
LEMMA SasBegins ==
  ASSUME Sas!Init
  PROVE  SasInv
<1>1. \A t \in Txns : /\ txn[t] = [state |-> "none", old |-> FALSE, ours |-> FALSE, told |-> {}]
                      /\ sas[t] = [at |-> "none", confirmed |-> FALSE, rc |-> 1]
                      /\ said[t] = {}
  BY DEF Sas!Init
<1>2. SasTypes
  <2>1. /\ syncing \in BOOLEAN /\ waiting \in BOOLEAN
        /\ sasConfirm \in BOOLEAN /\ sasCancel \in BOOLEAN
    BY Zenon DEF Sas!Init
  <2>2. [state |-> "none", old |-> FALSE, ours |-> FALSE, told |-> {}] \in Transaction
    BY DEF Transaction, Sas!TxnStates
  <2>3. [at |-> "none", confirmed |-> FALSE, rc |-> 1] \in SasRun
    BY DEF SasRun, Sas!Places
  <2>4. txn \in [Txns -> Transaction] /\ sas \in [Txns -> SasRun]
    BY <2>2, <2>3, Zenon DEF Sas!Init
  <2>5. /\ way \in Sas!Ways /\ offered \in Seq(Txns) /\ verified \subseteq Txns /\ stops \in Nat
        /\ said \in [Txns -> SUBSET {"yes", "no"}]
    BY DEF Sas!Init
  <2> QED
    BY <2>1, <2>4, <2>5, Zenon DEF SasTypes
<1>3. SyncOK
  BY <1>1 DEF Sas!Init, SyncOK
<1>4. verified = {}
  BY DEF Sas!Init
<1>5. \A t \in Txns : RunOK(t)
  BY <1>1, <1>4 DEF RunOK
<1> QED
  BY <1>2, <1>3, <1>5 DEF SasInv

\* The other side's messages: only a transaction changes.
LEMMA TxnStep ==
  ASSUME SasInv, NEW t \in Txns, Sas!Incoming(t) \/ Sas!PeerSteps(t) \/ Sas!PeerCancels(t)
  PROVE  SasInv'
<1>1. /\ way' = way /\ syncing' = syncing /\ sas' = sas /\ waiting' = waiting
      /\ verified' = verified
      /\ said' = said /\ stops' = stops /\ sasConfirm' = sasConfirm /\ sasCancel' = sasCancel
  BY DEF Sas!Incoming, Sas!PeerSteps, Sas!PeerCancels, Sas!NoRunChanges, Sas!flags
<1>2. offered' \in Seq(Txns)
  <2>1. offered \in Seq(Txns) /\ Append(offered, t) \in Seq(Txns)
    BY DEF SasInv, SasTypes
  <2> QED
    BY <2>1 DEF Sas!Incoming, Sas!PeerSteps, Sas!PeerCancels
<1>3. txn \in [Txns -> Transaction] /\ txn[t] \in Transaction
  BY DEF SasInv, SasTypes
<1>4. PICK s \in Sas!TxnStates :
          /\ \/ txn' = [txn EXCEPT ![t].state = s]
             \/ \E old \in BOOLEAN : txn' = [txn EXCEPT ![t].state = s, ![t].old = old]
          /\ s = "done" => txn[t].ours
          /\ txn[t].state = "none" => way = "verify-wait"
          /\ txn[t].state \notin Sas!Closed
  <2>1. CASE Sas!Incoming(t)
    BY <2>1 DEF Sas!Incoming, Sas!TxnStates, Sas!Closed
  <2>2. CASE Sas!PeerSteps(t)
    BY <2>2 DEF Sas!PeerSteps, Sas!TxnStates, Sas!Closed
  <2>3. CASE Sas!PeerCancels(t)
    BY <2>3 DEF Sas!PeerCancels, Sas!TxnStates, Sas!Closed
  <2> QED
    BY <2>1, <2>2, <2>3
<1>5. /\ txn' \in [Txns -> Transaction]
      /\ \A u \in Txns : u # t => txn'[u] = txn[u]
      /\ txn'[t].state = s /\ txn'[t].ours = txn[t].ours
  BY <1>3, <1>4 DEF Transaction
<1>6. ASSUME NEW u \in Txns PROVE RunOK(u)'
  <2>1. CASE u = t
    <3>1. RunOK(t)
      BY DEF SasInv
    <3> QED
      BY <1>1, <1>4, <1>5, <2>1, <3>1 DEF RunOK
  <2>2. CASE u # t
    <3>1. RunOK(u) /\ txn'[u] = txn[u]
      BY <1>5, <2>2 DEF SasInv
    <3> QED
      BY <1>1, <3>1 DEF RunOK
  <2> QED
    BY <2>1, <2>2
<1> QED
  BY <1>1, <1>2, <1>5, <1>6 DEF SasInv, SasTypes, SyncOK

\* A step of one run.
LEMMA OneRun ==
  ASSUME SasInv, NEW t \in Txns, NEW x \in Transaction, NEW y \in SasRun,
         NEW z \in SUBSET {"yes", "no"},
         way' = way, sasConfirm' = sasConfirm, sasCancel' = sasCancel, offered' = offered,
         waiting' \in BOOLEAN, syncing' \in BOOLEAN, stops' \in Nat,
         txn' = [txn EXCEPT ![t] = x], sas' = [sas EXCEPT ![t] = y],
         said' = [said EXCEPT ![t] = z], verified' \in {verified, verified \cup {t}},
         txn'[t] = x /\ sas'[t] = y /\ said'[t] = z => RunOK(t)', SyncOK'
  PROVE  SasInv'
<1>1. /\ txn' \in [Txns -> Transaction] /\ sas' \in [Txns -> SasRun]
      /\ said' \in [Txns -> SUBSET {"yes", "no"}]
      /\ txn'[t] = x /\ sas'[t] = y /\ said'[t] = z
      /\ \A u \in Txns : u # t => txn'[u] = txn[u] /\ sas'[u] = sas[u] /\ said'[u] = said[u]
  BY DEF SasInv, SasTypes
<1>2. RunOK(t)'
  BY <1>1
<1>3. ASSUME NEW u \in Txns, u # t PROVE RunOK(u)'
  <2>1. RunOK(u) /\ txn'[u] = txn[u] /\ sas'[u] = sas[u] /\ said'[u] = said[u]
    BY <1>1, <1>3 DEF SasInv
  <2>2. u \in verified' => u \in verified
    BY <1>3
  <2> QED
    BY <2>1, <2>2 DEF RunOK
<1> QED
  BY <1>1, <1>2, <1>3 DEF SasInv, SasTypes

\* The run of a process that takes no part in the chat, or a run of the chat, moves on.
LEMMA SyncGoesOn ==
  ASSUME SasInv, NEW t \in Txns, NEW y \in SasRun, sas' = [sas EXCEPT ![t] = y], way' = way,
         sas[t].at # "none", y.at # "none",
         waiting' = waiting,
         \/ /\ syncing' = syncing /\ stops' = stops
            /\ y.at \in {"loop", "confirm"} => sas[t].at \in {"loop", "confirm"}
         \/ /\ stops' = stops + 1 /\ y.at \notin {"loop", "confirm"}
  PROVE  SyncOK'
<1>1. /\ sas'[t] = y /\ \A u \in Txns : u # t => sas'[u] = sas[u]
      /\ stops \in Nat
  BY DEF SasInv, SasTypes
<1>2. ~waiting
  BY DEF SasInv, SyncOK
<1>3. way # "chat" => \A u \in Txns : u # t => sas[u].at = "none"
  BY DEF SasInv, SyncOK
<1>4. stops' > 0 \/ stops' = stops
  BY <1>1
<1> QED
  BY <1>1, <1>2, <1>3, <1>4 DEF SasInv, SyncOK

\* A verification begins.
LEMMA VerifyStep ==
  ASSUME SasInv, NEW t \in Txns, Sas!Verify(t)
  PROVE  SasInv'
<1>1. /\ txn \in [Txns -> Transaction] /\ sas \in [Txns -> SasRun] /\ stops \in Nat
      /\ said \in [Txns -> SUBSET {"yes", "no"}] /\ syncing \in BOOLEAN
      /\ waiting \in BOOLEAN /\ RunOK(t) /\ ~waiting
  BY DEF SasInv, SasTypes, SyncOK, Sas!Verify
<1> DEFINE x == [txn[t] EXCEPT !.state = "requested"]
           y(at) == [sas[t] EXCEPT !.at = at]
<1>2. /\ x \in Transaction /\ x.state = "requested" /\ x.ours = txn[t].ours
      /\ \A at \in {"loop", "ended"} : y(at) \in SasRun /\ y(at).at = at /\ y(at).rc = sas[t].rc
                                     /\ y(at).confirmed = sas[t].confirmed
  <2>1. txn[t] \in Transaction /\ sas[t] \in SasRun
    BY <1>1
  <2>2. x \in Transaction /\ x.state = "requested" /\ x.ours = txn[t].ours
    BY <2>1 DEF Transaction, Sas!TxnStates
  <2>3. ASSUME NEW at \in {"loop", "ended"}
        PROVE  /\ y(at) \in SasRun /\ y(at).at = at /\ y(at).rc = sas[t].rc
               /\ y(at).confirmed = sas[t].confirmed
    BY <2>1 DEF SasRun, Sas!Places
  <2> QED
    BY <2>2, <2>3
<1>3. /\ way = "verify" /\ \A u \in Txns : sas[u].at = "none"
      /\ way' = way /\ offered' = offered /\ waiting' = waiting /\ sasConfirm' = sasConfirm
      /\ sasCancel' = sasCancel /\ verified' = verified /\ said' = said
      /\ said' = [said EXCEPT ![t] = said[t]]
  BY <1>1 DEF Sas!Verify, Sas!flags
<1> HIDE DEF x, y
<1>4. CASE /\ sas' = [sas EXCEPT ![t] = y("loop")] /\ syncing' = TRUE
           /\ txn' = [txn EXCEPT ![t] = x] /\ stops' = stops
  <2>1. SyncOK'
    BY <1>1, <1>2, <1>3, <1>4 DEF SyncOK
  <2>2. sas'[t] = y("loop") /\ txn'[t] = x /\ said'[t] = said[t] => RunOK(t)'
    BY <1>1, <1>2, <1>3, <1>4 DEF RunOK
  <2> QED
    BY <1>1, <1>2, <1>3, <1>4, <2>1, <2>2, OneRun
<1>5. CASE /\ sas' = [sas EXCEPT ![t] = y("ended")] /\ txn' = txn
           /\ \/ syncing' = syncing /\ stops' = stops
              \/ syncing' = FALSE /\ stops' = stops + 1
  <2>1. SyncOK'
    BY <1>1, <1>2, <1>3, <1>5 DEF SyncOK
  <2>2. sas'[t] = y("ended") /\ txn'[t] = txn[t] /\ said'[t] = said[t] => RunOK(t)'
    BY <1>1, <1>2, <1>3, <1>5 DEF RunOK
  <2>3. txn' = [txn EXCEPT ![t] = txn[t]] /\ txn[t] \in Transaction
    BY <1>1, <1>5
  <2>4. stops' \in Nat
    BY <1>1, <1>5
  <2>5. syncing' \in BOOLEAN
    BY <1>1, <1>5, Zenon
  <2>6. sas' = [sas EXCEPT ![t] = y("ended")]
    BY <1>5
  <2> QED
    BY <1>1, <1>2, <1>3, <2>1, <2>2, <2>3, <2>4, <2>5, <2>6, OneRun
<1> QED
  BY <1>4, <1>5 DEF Sas!Verify, Sas!Starts, x, y

\* /verify: the flags and what was said go back for the runs that are undecided.
LEMMA SlashVerifyStep ==
  ASSUME SasInv, NEW t \in Txns, Sas!SlashVerify(t)
  PROVE  SasInv'
<1>1. /\ txn \in [Txns -> Transaction] /\ sas \in [Txns -> SasRun] /\ stops \in Nat
      /\ said \in [Txns -> SUBSET {"yes", "no"}] /\ syncing \in BOOLEAN
      /\ way = "chat" /\ sas[t].at = "none" /\ ~waiting
  BY DEF SasInv, SasTypes, SyncOK, Sas!SlashVerify
<1>2. /\ way' = way /\ offered' = offered /\ waiting' = waiting /\ verified' = verified
      /\ sasConfirm' = FALSE /\ sasCancel' = FALSE
      /\ said' = [u \in Txns |-> IF u \in Sas!Undecided THEN {} ELSE said[u]]
  BY DEF Sas!SlashVerify
<1>3. said' \in [Txns -> SUBSET {"yes", "no"}]
  BY <1>1, <1>2
<1>4. /\ \/ txn' = txn \/ txn' = [txn EXCEPT ![t].state = "requested"]
      /\ \/ sas' = [sas EXCEPT ![t].at = "loop"] /\ syncing' = TRUE /\ stops' = stops
         \/ /\ sas' = [sas EXCEPT ![t].at = "ended"]
            /\ syncing' = syncing /\ stops' = stops /\ txn' = txn
         \/ sas' = [sas EXCEPT ![t].at = "ended"] /\ stops' = stops + 1 /\ txn' = txn
  BY DEF Sas!SlashVerify, Sas!Starts
<1>5. /\ \A u \in Txns : u # t => txn'[u] = txn[u] /\ sas'[u] = sas[u]
      /\ sas'[t].at \in {"loop", "ended"} /\ sas'[t].rc = sas[t].rc
      /\ sas'[t].confirmed = sas[t].confirmed
      /\ txn'[t].ours = txn[t].ours
      /\ txn'[t].state = txn[t].state \/ (txn'[t].state = "requested" /\ sas'[t].at = "loop")
  <2>1. txn[t] \in Transaction /\ sas[t] \in SasRun
    BY <1>1
  <2>2. CASE txn' = txn
    BY <1>1, <1>4, <2>1, <2>2 DEF SasRun
  <2>3. CASE txn' = [txn EXCEPT ![t].state = "requested"] /\ sas' = [sas EXCEPT ![t].at = "loop"]
    BY <1>1, <2>1, <2>3 DEF SasRun, Transaction
  <2> QED
    BY <1>4, <2>2, <2>3
<1>6. txn' \in [Txns -> Transaction]
  BY <1>1, <1>4 DEF Transaction, Sas!TxnStates
<1>7. sas' \in [Txns -> SasRun]
  BY <1>1, <1>4 DEF SasRun, Sas!Places
<1>8. stops' \in Nat
  BY <1>1, <1>4
<1>9. syncing' \in BOOLEAN
  BY <1>1, Zenon DEF Sas!SlashVerify, Sas!Starts
<1>10. \A u \in Txns :
          u \in Sas!Undecided <=> sas[u].at \in {"loop", "confirm"} /\ ~sas[u].confirmed
  BY DEF Sas!Undecided, Sas!Running
<1>11. ASSUME NEW u \in Txns PROVE RunOK(u)'
  <2>1. RunOK(u) /\ said'[u] = IF u \in Sas!Undecided THEN {} ELSE said[u]
    BY <1>2 DEF SasInv
  <2>2. CASE u = t
    BY <1>1, <1>2, <1>5, <1>10, <2>1, <2>2 DEF RunOK
  <2>3. CASE u # t
    BY <1>1, <1>2, <1>5, <1>10, <2>1, <2>3 DEF RunOK
  <2> QED
    BY <2>2, <2>3
<1>12. SyncOK'
  <2>1. \A u \in Txns : sas[u].at \in {"loop", "confirm"} => syncing \/ stops > 0
    BY <1>1 DEF SasInv, SyncOK
  <2>2. \/ syncing' = TRUE
        \/ /\ stops' > 0 \/ (syncing' = syncing /\ stops' = stops)
           /\ sas'[t].at = "ended"
    <3>1. stops + 1 > 0
      BY <1>1
    <3>2. sas' = [sas EXCEPT ![t].at = "ended"] => sas'[t].at = "ended"
      BY <1>1 DEF SasRun
    <3> QED
      BY <1>4, <3>1, <3>2
  <2>3. \A u \in Txns : sas'[u].at \in {"loop", "confirm"} => syncing' \/ stops' > 0
    BY <1>5, <2>1, <2>2
  <2> QED
    BY <1>1, <1>2, <2>3 DEF SyncOK
<1> QED
  BY <1>1, <1>2, <1>3, <1>6, <1>7, <1>8, <1>9, <1>11, <1>12 DEF SasInv, SasTypes

\* An answer in the chat is heard by the runs that are undecided.
LEMMA HearStep ==
  ASSUME SasInv, Sas!SlashConfirm \/ Sas!SlashCancel
  PROVE  SasInv'
<1>1. PICK word \in {"yes", "no"} :
        /\ said' = [u \in Txns |-> IF u \in Sas!Undecided THEN said[u] \cup {word} ELSE said[u]]
        /\ sasConfirm' = (sasConfirm \/ word = "yes") /\ sasCancel' = (sasCancel \/ word = "no")
  BY DEF SasInv, SasTypes, Sas!SlashConfirm, Sas!SlashCancel, Sas!Hear
<1>2. /\ way = "chat" /\ way' = way /\ syncing' = syncing /\ txn' = txn /\ offered' = offered
      /\ sas' = sas /\ waiting' = waiting /\ verified' = verified /\ stops' = stops
  BY DEF Sas!SlashConfirm, Sas!SlashCancel
<1>3. said' \in [Txns -> SUBSET {"yes", "no"}]
  BY <1>1 DEF SasInv, SasTypes
<1>4. \A u \in Txns : u \in Sas!Undecided <=> sas[u].at \in {"loop", "confirm"} /\ ~sas[u].confirmed
  BY DEF Sas!Undecided, Sas!Running
<1>5. ASSUME NEW u \in Txns PROVE RunOK(u)'
  <2>1. RunOK(u) /\ said'[u] = IF u \in Sas!Undecided THEN said[u] \cup {word} ELSE said[u]
    BY <1>1 DEF SasInv
  <2> QED
    BY <1>1, <1>2, <1>4, <2>1 DEF RunOK
<1>6. SyncOK'
  BY <1>2 DEF SasInv, SyncOK
<1>7. sasConfirm' \in BOOLEAN /\ sasCancel' \in BOOLEAN
  BY <1>1, Zenon
<1> QED
  BY <1>2, <1>3, <1>5, <1>6, <1>7 DEF SasInv, SasTypes

\* What a run says, and what becomes of its transaction.
LEMMA Answers ==
  ASSUME SasInv, NEW t \in Txns
  PROVE  /\ txn[t] \in Transaction /\ sas[t] \in SasRun /\ said[t] \in SUBSET {"yes", "no"}
         /\ RunOK(t) /\ txn \in [Txns -> Transaction] /\ sas \in [Txns -> SasRun]
         /\ said \in [Txns -> SUBSET {"yes", "no"}] /\ stops \in Nat
         /\ syncing \in BOOLEAN /\ waiting \in BOOLEAN
         /\ said = [said EXCEPT ![t] = said[t]] /\ txn = [txn EXCEPT ![t] = txn[t]]
BY DEF SasInv, SasTypes

\* The run's next place, its word and its transaction, the sync loop as it was.
LEMMA RunMoves ==
  ASSUME SasInv, NEW t \in Txns, NEW x \in Transaction, NEW y \in SasRun,
         NEW z \in SUBSET {"yes", "no"},
         way' = way, sasConfirm' = sasConfirm, sasCancel' = sasCancel, offered' = offered,
         waiting' = waiting, syncing' = syncing, stops' = stops,
         sas[t].at \in {"loop", "confirm"}, y.at # "none",
         txn' = [txn EXCEPT ![t] = x], sas' = [sas EXCEPT ![t] = y],
         said' = [said EXCEPT ![t] = z], verified' \in {verified, verified \cup {t}},
         txn'[t] = x /\ sas'[t] = y /\ said'[t] = z => RunOK(t)'
  PROVE  SasInv'
<1>1. waiting' \in BOOLEAN /\ syncing' \in BOOLEAN /\ stops' \in Nat
  BY Answers
<1>2. SyncOK'
  BY SyncGoesOn
<1> QED
  BY <1>1, <1>2, OneRun

\* A yes.
LEMMA AcceptStep ==
  ASSUME SasInv, NEW t \in Txns, Sas!Accept(t), sas[t].at \in {"loop", "confirm"},
         sas[t].confirmed => FALSE,
         way' = way, sasConfirm' = sasConfirm, sasCancel' = sasCancel, offered' = offered,
         waiting' = waiting, syncing' = syncing, stops' = stops, verified' = verified,
         NEW z \in SUBSET {"yes", "no"}, said' = [said EXCEPT ![t] = z], z = {"yes"}
  PROVE  SasInv'
<1> DEFINE x == [txn[t] EXCEPT !.ours = @ \/ txn[t].state \notin Sas!Closed]
           y == [sas[t] EXCEPT !.confirmed = TRUE, !.at = "loop"]
<1>1. txn' = [txn EXCEPT ![t] = x] /\ sas' = [sas EXCEPT ![t] = y]
  BY Answers DEF Sas!Accept, Sas!Matched
<1>2. txn[t] \in Transaction /\ sas[t] \in SasRun /\ RunOK(t)
  BY Answers
<1>3. x.ours \in BOOLEAN
  BY <1>2, Zenon DEF Transaction
<1>4. x \in Transaction /\ x.state = txn[t].state /\ (txn[t].ours => x.ours)
  BY <1>2 DEF Transaction
<1>5. y \in SasRun /\ y.at = "loop" /\ y.confirmed
  BY <1>2 DEF SasRun, Sas!Places
<1> HIDE DEF x, y
<1>6. txn'[t] = x /\ sas'[t] = y /\ said'[t] = z => RunOK(t)'
  BY <1>2, <1>4, <1>5 DEF RunOK
<1> QED
  BY <1>1, <1>4, <1>5, <1>6, RunMoves

\* A no, or an end.
LEMMA DeclineStep ==
  ASSUME SasInv, NEW t \in Txns, Sas!Decline(t), sas[t].at = "confirm",
         way' = way, sasConfirm' = sasConfirm, sasCancel' = sasCancel, offered' = offered,
         waiting' = waiting, syncing' = syncing, stops' = stops, verified' = verified,
         NEW z \in SUBSET {"yes", "no"}, said' = [said EXCEPT ![t] = z]
  PROVE  SasInv'
<1> DEFINE x == [txn[t] EXCEPT !.told = @ \cup {"m.user"},
                               !.state = IF txn[t].state \in Sas!Closed THEN @ ELSE "cancelled"]
           y == [sas[t] EXCEPT !.at = "leaving"]
<1>1. txn' = [txn EXCEPT ![t] = x] /\ sas' = [sas EXCEPT ![t] = y]
  BY Answers DEF Sas!Decline, Sas!Cancelled
<1>2. txn[t] \in Transaction /\ sas[t] \in SasRun /\ RunOK(t)
  BY Answers
<1>3. x \in Transaction /\ x.ours = txn[t].ours /\ x.state \in {txn[t].state, "cancelled"}
  BY <1>2 DEF Transaction, Sas!TxnStates
<1>4. y \in SasRun /\ y.at = "leaving" /\ y.confirmed = sas[t].confirmed /\ y.rc = sas[t].rc
  BY <1>2 DEF SasRun, Sas!Places
<1> HIDE DEF x, y
<1>5. txn'[t] = x /\ sas'[t] = y /\ said'[t] = z => RunOK(t)'
  BY <1>2, <1>3, <1>4 DEF RunOK
<1> QED
  BY <1>1, <1>3, <1>4, <1>5, RunMoves

\* The user answers, or what the chat took for the answer is found.
LEMMA AnswerStep ==
  ASSUME SasInv, NEW t \in Txns, Sas!Answered(t) \/ Sas!Answer(t)
  PROVE  SasInv'
<1>1. /\ way' = way /\ sasConfirm' = sasConfirm /\ sasCancel' = sasCancel /\ offered' = offered
      /\ waiting' = waiting /\ syncing' = syncing /\ stops' = stops /\ verified' = verified
      /\ sas[t].at = "confirm"
  BY DEF Sas!Answered, Sas!Answer, Sas!flags
<1>2. RunOK(t) /\ ~sas[t].confirmed /\ said[t] \in SUBSET {"yes", "no"}
  BY <1>1, Answers DEF RunOK
<1>3. CASE Sas!Accept(t)
  <2>1. PICK z \in SUBSET {"yes", "no"} : said' = [said EXCEPT ![t] = z] /\ z = {"yes"}
    <3>1. CASE Sas!Answered(t)
      <4>1. said[t] \cup {"yes"} = {"yes"}
        BY <1>1, <1>2, <3>1 DEF RunOK, Sas!Answered
      <4>2. said' = [said EXCEPT ![t] = @ \cup {"yes"}]
        BY <1>2, <1>3, <3>1, Answers DEF Sas!Answered, Sas!Accept, Sas!Decline, SasRun
      <4> QED
        BY <4>1, <4>2
    <3>2. CASE Sas!Answer(t)
      <4>1. way = "chat" /\ said' = said
        BY <3>2 DEF Sas!Answer
      <4>2. ~Sas!Decline(t)
        BY <1>3, Answers DEF Sas!Accept, Sas!Decline, SasRun
      <4>3. sasConfirm /\ ~sasCancel
        BY <3>2, <4>2 DEF Sas!Answer
      <4>4. said[t] = {"yes"}
        BY <1>1, <1>2, <4>1, <4>3 DEF RunOK
      <4> QED
        BY <4>1, <4>4, Answers
    <3> QED
      BY <3>1, <3>2
  <2> QED
    BY <1>1, <1>2, <1>3, <2>1, AcceptStep
<1>4. CASE Sas!Decline(t)
  <2>1. \E z \in SUBSET {"yes", "no"} : said' = [said EXCEPT ![t] = z]
    <3>1. said' \in {said, [said EXCEPT ![t] = @ \cup {"no"}], [said EXCEPT ![t] = @ \cup {"yes"}]}
      BY DEF Sas!Answered, Sas!Answer
    <3>2. /\ said[t] \cup {"no"} \in SUBSET {"yes", "no"}
          /\ said[t] \cup {"yes"} \in SUBSET {"yes", "no"}
          /\ said = [said EXCEPT ![t] = said[t]]
      BY <1>2, Answers
    <3> QED
      BY <1>2, <3>1, <3>2
  <2> QED
    BY <1>1, <1>4, <2>1, DeclineStep
<1> QED
  BY <1>3, <1>4 DEF Sas!Answered, Sas!Answer

\* A verification comes to the emoji.
LEMMA CompareStep ==
  ASSUME SasInv, NEW t \in Txns, Sas!Compare(t)
  PROVE  SasInv'
<1>1. /\ way' = way /\ sasConfirm' = sasConfirm /\ sasCancel' = sasCancel /\ offered' = offered
      /\ waiting' = waiting /\ syncing' = syncing /\ stops' = stops /\ verified' = verified
      /\ sas[t].at = "loop" /\ ~sas[t].confirmed
  BY DEF Sas!Compare, Sas!flags
<1>2. /\ RunOK(t) /\ sas[t] \in SasRun /\ txn[t] \in Transaction
      /\ said[t] \in SUBSET {"yes", "no"}
      /\ sas \in [Txns -> SasRun]
  BY Answers
<1>3. CASE sas' = [sas EXCEPT ![t].at = "confirm"] /\ txn' = txn /\ said' = said
  <2> DEFINE y == [sas[t] EXCEPT !.at = "confirm"]
  <2>1. sas' = [sas EXCEPT ![t] = y]
    BY <1>2, <1>3
  <2>2. y \in SasRun /\ y.at = "confirm" /\ y.confirmed = sas[t].confirmed /\ y.rc = sas[t].rc
    BY <1>2 DEF SasRun, Sas!Places
  <2> HIDE DEF y
  <2>3. txn' = [txn EXCEPT ![t] = txn[t]] /\ said' = [said EXCEPT ![t] = said[t]]
    BY <1>3, Answers
  <2>4. sas'[t] = y => RunOK(t)'
    BY <1>1, <1>2, <1>3, <2>2 DEF RunOK
  <2> QED
    BY <1>1, <1>2, <2>1, <2>2, <2>3, <2>4, RunMoves
<1>4. CASE /\ way # "chat"
           /\ sas' = [sas EXCEPT ![t].confirmed = TRUE] /\ txn' = Sas!Matched(txn, t)
           /\ said' = [said EXCEPT ![t] = @ \cup {"yes"}]
  <2>1. Sas!Accept(t)
    <3>1. [sas EXCEPT ![t].confirmed = TRUE] = [sas EXCEPT ![t].confirmed = TRUE, ![t].at = "loop"]
      BY <1>1, <1>2 DEF SasRun
    <3> QED
      BY <1>4, <3>1 DEF Sas!Accept
  <2>2. said' = [said EXCEPT ![t] = {"yes"}]
    <3>1. said[t] = {}
      BY <1>1, <1>2, <1>4 DEF RunOK
    <3> QED
      BY <1>4, <3>1
  <2> QED
    BY <1>1, <2>1, <2>2, AcceptStep
<1> QED
  BY <1>3, <1>4 DEF Sas!Compare

\* A verification that is over leaves the loop, or stores the device before it does.
LEMMA LeaveStep ==
  ASSUME SasInv, NEW t \in Txns, Sas!Leave(t) \/ Sas!Store(t)
  PROVE  SasInv'
<1>1. /\ way' = way /\ sasConfirm' = sasConfirm /\ sasCancel' = sasCancel /\ offered' = offered
      /\ waiting' = waiting /\ syncing' = syncing /\ stops' = stops /\ sas[t].at = "loop"
      /\ txn' = txn /\ said' = said
  BY DEF Sas!Leave, Sas!Store, Sas!flags
<1>2. /\ RunOK(t) /\ sas[t] \in SasRun /\ txn[t] \in Transaction
      /\ said[t] \in SUBSET {"yes", "no"}
      /\ txn' = [txn EXCEPT ![t] = txn[t]] /\ said' = [said EXCEPT ![t] = said[t]]
  BY <1>1, Answers
<1>3. CASE Sas!Leave(t)
  <2> DEFINE y == [sas[t] EXCEPT !.at = "leaving"]
  <2>1. sas' = [sas EXCEPT ![t] = y] /\ verified' = verified
    BY <1>3 DEF Sas!Leave
  <2>2. y \in SasRun /\ y.at = "leaving" /\ y.confirmed = sas[t].confirmed /\ y.rc = sas[t].rc
    BY <1>2 DEF SasRun, Sas!Places
  <2> HIDE DEF y
  <2>3. sas'[t] = y => RunOK(t)'
    BY <1>1, <1>2, <2>1, <2>2 DEF RunOK
  <2> QED
    BY <1>1, <1>2, <2>1, <2>2, <2>3, RunMoves, ZenonT(60)
<1>4. CASE Sas!Store(t)
  <2> DEFINE y == [sas[t] EXCEPT !.rc = 0, !.at = "leaving"]
  <2>1. /\ sas' = [sas EXCEPT ![t] = y] /\ verified' = verified \cup {t}
        /\ txn[t].state = "done"
    BY <1>4 DEF Sas!Store
  <2>2. y \in SasRun /\ y.at = "leaving" /\ y.confirmed = sas[t].confirmed
    BY <1>2 DEF SasRun, Sas!Places
  <2> HIDE DEF y
  <2>3. sas'[t] = y => RunOK(t)'
    BY <1>1, <1>2, <2>1, <2>2 DEF RunOK
  <2> QED
    BY <1>1, <1>2, <2>1, <2>2, <2>3, RunMoves, ZenonT(60)
<1> QED
  BY <1>3, <1>4

\* The end of a run that was not confirmed tells the other side.
LEMMA RunEnds ==
  ASSUME SasInv, NEW t \in Txns, Sas!End(t)
  PROVE  SasInv'
<1>1. /\ way' = way /\ sasConfirm' = sasConfirm /\ sasCancel' = sasCancel /\ offered' = offered
      /\ waiting' = waiting /\ syncing' = FALSE /\ stops' = stops + 1 /\ sas[t].at = "leaving"
      /\ verified' = verified /\ said' = said
  BY DEF Sas!End, Sas!flags
<1>2. /\ RunOK(t) /\ sas[t] \in SasRun /\ txn[t] \in Transaction
      /\ said[t] \in SUBSET {"yes", "no"} /\ stops \in Nat /\ waiting \in BOOLEAN
      /\ txn = [txn EXCEPT ![t] = txn[t]] /\ said' = [said EXCEPT ![t] = said[t]]
  BY <1>1, Answers
<1> DEFINE y == [sas[t] EXCEPT !.at = "ended"]
<1>3. sas' = [sas EXCEPT ![t] = y]
  BY DEF Sas!End
<1>4. y \in SasRun /\ y.at = "ended" /\ y.confirmed = sas[t].confirmed /\ y.rc = sas[t].rc
  BY <1>2 DEF SasRun, Sas!Places
<1> HIDE DEF y
<1>5. PICK x \in Transaction :
        /\ txn' = [txn EXCEPT ![t] = x]
        /\ x.ours = txn[t].ours /\ x.state \in {txn[t].state, "cancelled"}
        /\ ~sas[t].confirmed => x.state \in Sas!Closed
  <2>1. CASE sas[t].rc # 0 /\ ~sas[t].confirmed
    <3>1. PICK code \in {"m.user", "m.timeout"} : txn' = Sas!Cancelled(txn, t, code)
      BY <2>1 DEF Sas!End
    <3> DEFINE x == [txn[t] EXCEPT !.told = @ \cup {code},
                                   !.state = IF txn[t].state \in Sas!Closed THEN @ ELSE "cancelled"]
    <3>2. txn' = [txn EXCEPT ![t] = x]
      BY <3>1, Answers DEF Sas!Cancelled
    <3>3. /\ x \in Transaction /\ x.ours = txn[t].ours /\ x.state \in {txn[t].state, "cancelled"}
          /\ x.state \in Sas!Closed
      BY <1>2 DEF Transaction, Sas!TxnStates, Sas!Closed
    <3> QED
      BY <3>2, <3>3
  <2>2. CASE sas[t].rc = 0 \/ sas[t].confirmed
    <3>1. sas[t].confirmed /\ txn' = txn
      BY <1>2, <2>2 DEF RunOK, Sas!End
    <3> QED
      BY <1>2, <3>1
  <2> QED
    BY <2>1, <2>2
<1>6. sas'[t] = y /\ txn'[t] = x /\ said'[t] = said[t] => RunOK(t)'
  BY <1>1, <1>2, <1>4, <1>5 DEF RunOK
<1>7. SyncOK'
  BY <1>1, <1>3, <1>4, SyncGoesOn
<1>8. syncing' \in BOOLEAN /\ waiting' \in BOOLEAN
  BY <1>1, <1>2, Zenon
<1>9. stops' \in Nat
  BY <1>1, <1>2
<1> QED
  BY <1>1, <1>2, <1>3, <1>4, <1>5, <1>6, <1>7, <1>8, <1>9, OneRun

\* verify-wait takes a request, or gives up.
LEMMA TakeStep ==
  ASSUME SasInv, Sas!Take
  PROVE  SasInv'
<1>1. /\ waiting /\ way = "verify-wait" /\ syncing /\ \A u \in Txns : sas[u].at = "none"
      /\ waiting' = FALSE /\ way' = way /\ sasConfirm' = sasConfirm /\ sasCancel' = sasCancel
      /\ offered' = offered /\ syncing' = syncing /\ stops' = stops /\ verified' = verified
      /\ said' = said /\ txn' = txn /\ offered \in Seq(Txns)
  BY DEF SasInv, SasTypes, SyncOK, Sas!Take, Sas!flags
<1>2. PICK t \in Txns : sas' = [sas EXCEPT ![t].at = "loop"]
  <2>1. PICK i \in 1 .. Len(offered) : sas' = [sas EXCEPT ![offered[i]].at = "loop"]
    BY DEF Sas!Take
  <2>2. offered[i] \in Txns
    BY <1>1, <2>1
  <2> QED
    BY <2>1, <2>2
<1>3. /\ RunOK(t) /\ sas[t] \in SasRun /\ txn[t] \in Transaction
      /\ said[t] \in SUBSET {"yes", "no"} /\ stops \in Nat /\ syncing \in BOOLEAN
      /\ txn' = [txn EXCEPT ![t] = txn[t]] /\ said' = [said EXCEPT ![t] = said[t]]
      /\ sas \in [Txns -> SasRun]
  BY <1>1, Answers
<1> DEFINE y == [sas[t] EXCEPT !.at = "loop"]
<1>4. sas' = [sas EXCEPT ![t] = y]
  BY <1>2
<1>5. y \in SasRun /\ y.at = "loop" /\ y.confirmed = sas[t].confirmed /\ y.rc = sas[t].rc
  BY <1>3 DEF SasRun, Sas!Places
<1> HIDE DEF y
<1>6. sas'[t] = y => RunOK(t)'
  BY <1>1, <1>3, <1>5 DEF RunOK
<1>7. SyncOK'
  BY <1>1, <1>3, <1>4 DEF SyncOK
<1>8. waiting' \in BOOLEAN /\ syncing' \in BOOLEAN
  BY <1>1, <1>3, Zenon
<1>9. stops' \in Nat
  BY <1>1, <1>3
<1>10. /\ way' = way /\ sasConfirm' = sasConfirm /\ sasCancel' = sasCancel
       /\ offered' = offered /\ verified' = verified
  BY <1>1
<1> QED
  BY <1>3, <1>4, <1>5, <1>6, <1>7, <1>8, <1>9, <1>10, OneRun

\* Waiting in vain ends with the sync loop.
LEMMA VainStep ==
  ASSUME SasInv, Sas!WaitedInVain
  PROVE  SasInv'
<1>1. /\ way' = way /\ sasConfirm' = sasConfirm /\ sasCancel' = sasCancel /\ offered' = offered
      /\ waiting' = FALSE /\ syncing' = FALSE /\ stops' = stops + 1 /\ verified' = verified
      /\ said' = said /\ txn' = txn /\ sas' = sas /\ waiting
  BY DEF Sas!WaitedInVain, Sas!flags
<1>2. \A t \in Txns : RunOK(t)'
  BY <1>1 DEF SasInv, RunOK
<1>3. SyncOK'
  BY <1>1 DEF SasInv, SyncOK
<1>4. waiting' \in BOOLEAN /\ syncing' \in BOOLEAN
  BY <1>1, Zenon
<1>5. stops' \in Nat
  BY <1>1 DEF SasInv, SasTypes
<1> QED
  BY <1>1, <1>2, <1>3, <1>4, <1>5 DEF SasInv, SasTypes

\* Every step of the devices and the users keeps the verifications as they should be.
LEMMA SasStep ==
  ASSUME SasInv, Sas!Next
  PROVE  SasInv'
BY TakeStep, VainStep, HearStep, TxnStep, VerifyStep, SlashVerifyStep, LeaveStep, CompareStep,
   AnswerStep, RunEnds DEF Sas!Next

\* Nothing moves a verification but its own steps.
LEMMA SasStays ==
  ASSUME SasInv, UNCHANGED sasVars
  PROVE  SasInv'
BY DEF SasInv, SasTypes, SyncOK, RunOK, sasVars

-----------------------------------------------------------------------------
(* The scheduled prompts.                                                  *)

CronTypes ==
    /\ jobs \in Seq(J!Jobs) /\ estop \in BOOLEAN /\ now \in Nat /\ now <= Horizon
    /\ added \in Nat /\ added <= MaxJobs /\ checks \in Nat /\ checks <= MaxChecks
    /\ check \in [Terminals -> J!Checks \cup {Idle}]
    /\ excused \subseteq 1..MaxJobs /\ removed \subseteq 1..MaxJobs

\* No job stands in a file, or what was loaded of it, twice; each was added.
OfTheAdded(js) ==
    /\ \A i \in 1..Len(js) : js[i].serial <= added
    /\ \A i, k \in 1..Len(js) : js[i].serial = js[k].serial => i = k

\* A check is at a job of its own; it runs one that was due.
CheckOK(c) ==
    /\ OfTheAdded(c.jobs)
    /\ c.at >= 1 /\ c.at <= Len(c.jobs) + 1
    /\ c.running => c.any /\ c.at <= Len(c.jobs) /\ c.jobs[c.at].next <= c.now

\* The job is in what the terminal's check has loaded.
Loaded(p, n) == ~ J!Free(p) /\ \E i \in 1..Len(check[p].jobs) : check[p].jobs[i].serial = n

\* What a check that alone has loaded a job holds of it is later than every run of it, but
\* for the run that is under way.
LaterThere(p) ==
    ~ J!Free(p) =>
        \A i \in 1..Len(check[p].jobs) :
            LET job == check[p].jobs[i]
            IN  \A m \in Nat :
                    (job.spec # "date" /\ job.serial \notin excused /\ <<job.serial, m>> \in ran) =>
                        m < job.next \/ (check[p].running /\ i = check[p].at /\ m = job.next)

\* And what the file holds of it, but while a check that has run something is to write it.
LaterInFile ==
    \A i \in 1..Len(jobs) : \A m \in Nat :
        (jobs[i].spec # "date" /\ jobs[i].serial \notin excused /\ <<jobs[i].serial, m>> \in ran) =>
            m < jobs[i].next \/ \E p \in Terminals : Loaded(p, jobs[i].serial) /\ check[p].any

CronInv ==
    /\ CronTypes /\ OfTheAdded(jobs)
    /\ ran \subseteq (1..added) \X Nat
    /\ \A p \in Terminals : ~ J!Free(p) => CheckOK(check[p])
    /\ \A n \in 1..MaxJobs : n \notin excused =>
          \A p, q \in Terminals : Loaded(p, n) /\ Loaded(q, n) => p = q
    /\ \A p \in Terminals : LaterThere(p)
    /\ LaterInFile

\* A duration is not nothing, and a terminal without a check is no check.
LEMMA CronConstants ==
  /\ Delay \in Nat /\ Delay > 0 /\ Date \in Nat /\ Fallback \in Nat /\ Fallback > 0
  /\ Horizon \in Nat /\ MaxJobs \in Nat /\ MaxChecks \in Nat
  /\ Marks \in SUBSET Nat /\ Idle \notin J!Checks
BY StorageAssumption DEF J!CronAssumption

\* A set of moments that is not empty has a first.
LEMMA FirstMoment ==
  ASSUME NEW L \in SUBSET Nat, L # {}
  PROVE  \E m \in L : \A n \in L : m <= n
<1>1. PICK m \in L : \A n \in L : <<n, m>> \notin OpToRel(<, Nat)
  BY NatLessThanWellFounded, WFMin
<1>2. \A n \in L : ~(n < m)
  BY <1>1 DEF OpToRel
<1> QED
  BY <1>2

\* What a job is made of.
LEMMA JobTyped ==
  ASSUME NEW job \in J!Jobs
  PROVE  /\ job.serial \in 1..MaxJobs /\ job.serial \in Nat /\ job.next \in Nat
         /\ job.spec \in J!Specs
BY CronConstants DEF J!Jobs

\* What the jobs of a file are made of.
LEMMA JobsTyped ==
  ASSUME NEW js \in Seq(J!Jobs)
  PROVE  /\ Len(js) \in Nat /\ DOMAIN js = 1..Len(js)
         /\ \A i \in 1..Len(js) : /\ js[i] \in J!Jobs /\ js[i].serial \in 1..MaxJobs
                                  /\ js[i].serial \in Nat /\ js[i].next \in Nat
                                  /\ js[i].spec \in J!Specs
<1>1. Len(js) \in Nat /\ DOMAIN js = 1..Len(js) /\ \A i \in 1..Len(js) : js[i] \in J!Jobs
  OBVIOUS
<1> QED
  BY <1>1, JobTyped

\* What a check is made of.
LEMMA CheckMade ==
  ASSUME NEW c \in J!Checks
  PROVE  /\ c.jobs \in Seq(J!Jobs) /\ c.at \in Nat /\ c.now \in Nat /\ c.any \in BOOLEAN
         /\ c.running \in BOOLEAN /\ Len(c.jobs) \in Nat
BY DEF J!Checks

\* A check with other jobs is otherwise the same.
LEMMA OtherJobs ==
  ASSUME NEW c \in J!Checks, NEW js
  PROVE  [c EXCEPT !.jobs = js]
            = [jobs |-> js, at |-> c.at, now |-> c.now, any |-> c.any, running |-> c.running]
BY DEF J!Checks

\* The next moment of a schedule is later than now, but for a date; or there is none.
LEMMA NextIsLater ==
  ASSUME NEW t \in Nat, NEW spec \in J!Specs
  PROVE  /\ J!NextRun(spec, t) \in Int
         /\ spec # "date" => J!NextRun(spec, t) > t \/ J!NextRun(spec, t) = -1
         /\ J!NextRun(spec, t) >= 0 => J!NextRun(spec, t) \in Nat
<1> DEFINE later == {m \in Marks : m > t}
<1>1. J!NextMatch(t) \in Int /\ (J!NextMatch(t) > t \/ J!NextMatch(t) = -1)
  <2>1. CASE later = {}
    BY <2>1 DEF J!NextMatch
  <2>2. CASE later # {}
    <3>1. later \in SUBSET Nat
      BY CronConstants
    <3>2. J!NextMatch(t) = CHOOSE m \in later : \A n \in later : m <= n
      BY <2>2 DEF J!NextMatch
    <3>3. \E m \in later : \A n \in later : m <= n
      BY <2>2, <3>1, FirstMoment
    <3>4. J!NextMatch(t) \in later
      BY <3>2, <3>3
    <3> QED
      BY <3>1, <3>4
  <2> QED
    BY <2>1, <2>2
<1>2. CASE spec = "cron"
  BY <1>1, <1>2 DEF J!NextRun
<1>3. CASE spec = "date"
  BY <1>3, CronConstants DEF J!NextRun
<1>4. CASE spec = "every"
  BY <1>4, CronConstants DEF J!NextRun
<1> QED
  BY <1>2, <1>3, <1>4 DEF J!Specs

\* What a check is made of, from the invariant.
LEMMA CheckTyped ==
  ASSUME CronInv, NEW p \in Terminals
  PROVE  /\ J!Free(p) \/ (check[p] \in J!Checks /\ CheckOK(check[p]) /\ LaterThere(p))
         /\ check[p] \in J!Checks => ~ J!Free(p)
         /\ check \in [Terminals -> J!Checks \cup {Idle}]
BY CronConstants DEF CronInv, CronTypes, J!Free

\* In the beginning no job is stored and no check runs.
LEMMA CronBegins ==
  ASSUME J!Init
  PROVE  CronInv
<1>1. CronTypes
  <2>1. jobs \in Seq(J!Jobs)
    BY DEF J!Init
  <2>2. check \in [Terminals -> J!Checks \cup {Idle}]
    BY DEF J!Init
  <2>3. now <= Horizon /\ added <= MaxJobs /\ checks <= MaxChecks
    BY CronConstants DEF J!Init
  <2> QED
    BY <2>1, <2>2, <2>3 DEF J!Init, CronTypes
<1>2. Len(jobs) = 0
  BY DEF J!Init
<1>3. \A p \in Terminals : J!Free(p)
  BY DEF J!Init, J!Free
<1> QED
  BY <1>1, <1>2, <1>3 DEF CronInv, OfTheAdded, LaterThere, LaterInFile, Loaded, J!Init

\* A check goes on over its jobs: what it runs is of those, and its jobs are as they should be.
LEMMA OneCheck ==
  ASSUME CronInv, NEW p \in Terminals, NEW d \in J!Checks, ~ J!Free(p),
         check' = [check EXCEPT ![p] = d],
         UNCHANGED <<jobs, estop, now, added, excused, removed, checks>>,
         Len(d.jobs) = Len(check[p].jobs),
         \A i \in 1..Len(d.jobs) : d.jobs[i].serial = check[p].jobs[i].serial,
         check[p].any => d.any, d.at >= 1, d.at <= Len(d.jobs) + 1,
         d.running => d.any /\ d.at <= Len(d.jobs) /\ d.jobs[d.at].next <= d.now,
         ran \subseteq ran', ran' \subseteq (1..added) \X Nat,
         \A n \in 1..MaxJobs : \A m \in Nat :
            <<n, m>> \in ran' /\ <<n, m>> \notin ran => d.any /\ Loaded(p, n),
         LaterThere(p)'
  PROVE  CronInv'
<1>1. /\ check'[p] = d /\ check' \in [Terminals -> J!Checks \cup {Idle}]
      /\ \A q \in Terminals : q # p => check'[q] = check[q]
  BY CheckTyped
<1>2. /\ \A q \in Terminals : J!Free(q)' <=> J!Free(q)
      /\ d # Idle
  BY <1>1, CronConstants DEF J!Free
<1>3. ASSUME NEW q \in Terminals, NEW n PROVE Loaded(q, n)' <=> Loaded(q, n)
  <2>1. CASE q = p
    BY <1>1, <1>2, <2>1 DEF Loaded
  <2>2. CASE q # p
    BY <1>1, <1>2, <2>2 DEF Loaded
  <2> QED
    BY <2>1, <2>2
<1>4. CronTypes'
  BY <1>1 DEF CronInv, CronTypes
<1>5. OfTheAdded(jobs)' /\ ran' \subseteq (1..added') \X Nat
  BY DEF CronInv, OfTheAdded
<1>6. ASSUME NEW q \in Terminals, ~ J!Free(q)' PROVE CheckOK(check[q])'
  <2>1. CheckOK(check[q])
    BY <1>2, <1>6 DEF CronInv
  <2>2. CASE q = p
    BY <1>1, <2>1, <2>2 DEF CheckOK, OfTheAdded
  <2>3. CASE q # p
    BY <1>1, <2>1, <2>3 DEF CheckOK, OfTheAdded
  <2> QED
    BY <2>2, <2>3
<1>7. \A n \in 1..MaxJobs : n \notin excused' =>
         \A q, r \in Terminals : Loaded(q, n)' /\ Loaded(r, n)' => q = r
  BY <1>3 DEF CronInv
<1>8. ASSUME NEW q \in Terminals, q # p PROVE LaterThere(q)'
  <2> SUFFICES ASSUME ~ J!Free(q)', NEW i \in 1..Len(check[q].jobs), NEW m \in Nat,
                      check[q].jobs[i].spec # "date", check[q].jobs[i].serial \notin excused,
                      <<check[q].jobs[i].serial, m>> \in ran'
               PROVE  \/ m < check[q].jobs[i].next
                      \/ check[q].running /\ i = check[q].at /\ m = check[q].jobs[i].next
    BY <1>1, <1>8 DEF LaterThere
  <2>1. /\ ~ J!Free(q) /\ check[q] \in J!Checks /\ LaterThere(q)
    BY <1>2, CheckTyped
  <2>2. check[q].jobs[i] \in J!Jobs
    BY <2>1 DEF J!Checks
  <2>3. check[q].jobs[i].serial \in 1..MaxJobs /\ Loaded(q, check[q].jobs[i].serial)
    BY <2>1, <2>2 DEF Loaded, J!Jobs
  <2>4. <<check[q].jobs[i].serial, m>> \in ran
    BY <1>8, <2>3 DEF CronInv
  <2> QED
    BY <2>1, <2>4 DEF LaterThere
<1>9. LaterInFile'
  <2> SUFFICES ASSUME NEW i \in 1..Len(jobs), NEW m \in Nat,
                      jobs[i].spec # "date", jobs[i].serial \notin excused,
                      <<jobs[i].serial, m>> \in ran'
               PROVE  \/ m < jobs[i].next
                      \/ \E q \in Terminals : Loaded(q, jobs[i].serial)' /\ check'[q].any
    BY DEF LaterInFile
  <2>1. jobs[i].serial \in 1..MaxJobs
    BY JobsTyped DEF CronInv, CronTypes
  <2>2. CASE <<jobs[i].serial, m>> \in ran
    <3>1. CASE m < jobs[i].next
      BY <3>1
    <3>2. CASE \E q \in Terminals : Loaded(q, jobs[i].serial) /\ check[q].any
      BY <1>1, <1>3, <3>2
    <3> QED
      BY <2>2, <3>1, <3>2 DEF CronInv, LaterInFile
  <2>3. CASE <<jobs[i].serial, m>> \notin ran
    BY <1>1, <1>3, <2>1, <2>3
  <2> QED
    BY <2>2, <2>3
<1>10. \A q \in Terminals : LaterThere(q)'
  BY <1>8
<1> QED
  BY <1>4, <1>5, <1>6, <1>7, <1>9, <1>10 DEF CronInv

\* A job that is not yet due is passed over.
LEMMA SkipStep ==
  ASSUME CronInv, NEW p \in Terminals, J!Skip(p)
  PROVE  CronInv'
<1> DEFINE d == [check[p] EXCEPT !.at = @ + 1]
<1>1. /\ check[p] \in J!Checks /\ CheckOK(check[p]) /\ LaterThere(p) /\ ~ J!Free(p)
      /\ check \in [Terminals -> J!Checks \cup {Idle}]
  BY CheckTyped DEF J!Skip
<1>2. /\ check' = [check EXCEPT ![p] = d] /\ check[p].at <= Len(check[p].jobs)
      /\ ~ check[p].running
      /\ UNCHANGED <<jobs, estop, now, added, ran, excused, removed, checks>>
  BY DEF J!Skip
<1>3. /\ d \in J!Checks /\ d.jobs = check[p].jobs /\ d.at = check[p].at + 1 /\ d.now = check[p].now
      /\ d.any = check[p].any /\ d.running = check[p].running
  BY <1>1 DEF J!Checks
<1> HIDE DEF d
<1>4. check'[p] = d
  BY <1>1, <1>2
<1>5. LaterThere(p)'
  BY <1>1, <1>2, <1>3, <1>4 DEF LaterThere
<1>6. Len(d.jobs) \in Nat /\ check[p].at \in Nat
  BY <1>1, <1>3 DEF J!Checks
<1>7. d.at >= 1 /\ d.at <= Len(d.jobs) + 1
  BY <1>1, <1>2, <1>3, <1>6 DEF CheckOK
<1> QED
  BY <1>1, <1>2, <1>3, <1>5, <1>7, OneCheck DEF CronInv

\* A job that is due is run, for a moment it has not run for; or the e-stop ends the check.
LEMMA RunStep ==
  ASSUME CronInv, NEW p \in Terminals, J!RunJob(p)
  PROVE  CronInv'
<1> DEFINE stopped == [check[p] EXCEPT !.at = Len(check[p].jobs) + 1]
           started == [check[p] EXCEPT !.running = TRUE, !.any = TRUE]
           job == check[p].jobs[check[p].at]
<1>1. /\ check[p] \in J!Checks /\ CheckOK(check[p]) /\ LaterThere(p) /\ ~ J!Free(p)
      /\ check \in [Terminals -> J!Checks \cup {Idle}]
  BY CheckTyped DEF J!RunJob
<1>2. /\ check[p].at <= Len(check[p].jobs) /\ ~ check[p].running /\ job.next <= check[p].now
      /\ UNCHANGED <<jobs, estop, now, added, excused, removed, checks>>
  BY DEF J!RunJob, J!Current
<1>3. /\ Len(check[p].jobs) \in Nat /\ check[p].at \in 1..Len(check[p].jobs) /\ job \in J!Jobs
      /\ job.serial \in 1..MaxJobs /\ job.next \in Nat
  <2>1. Len(check[p].jobs) \in Nat /\ check[p].at \in 1..Len(check[p].jobs)
    BY <1>1, <1>2 DEF CheckOK, J!Checks
  <2>2. job \in J!Jobs
    BY <1>1, <2>1 DEF J!Checks
  <2> QED
    BY <2>1, <2>2 DEF J!Jobs
<1>4. CASE estop
  <2>1. /\ check' = [check EXCEPT ![p] = stopped] /\ ran' = ran
    BY <1>4 DEF J!RunJob
  <2>2. /\ stopped \in J!Checks /\ stopped.jobs = check[p].jobs
        /\ stopped.at = Len(check[p].jobs) + 1 /\ stopped.now = check[p].now
        /\ stopped.any = check[p].any /\ stopped.running = check[p].running
    BY <1>1, <1>3 DEF J!Checks
  <2> HIDE DEF stopped
  <2>3. check'[p] = stopped
    BY <1>1, <2>1
  <2>4. LaterThere(p)'
    BY <1>1, <1>2, <2>1, <2>2, <2>3 DEF LaterThere
  <2>5. stopped.at >= 1 /\ stopped.at <= Len(stopped.jobs) + 1
    BY <1>3, <2>2
  <2> QED
    BY <1>1, <1>2, <2>1, <2>2, <2>4, <2>5, OneCheck DEF CronInv
<1>5. CASE ~ estop
  <2>1. /\ check' = [check EXCEPT ![p] = started]
        /\ ran' = ran \cup {<<job.serial, job.next>>}
    <3>1. check' = [check EXCEPT ![p].running = TRUE, ![p].any = TRUE]
      BY <1>5 DEF J!RunJob
    <3>2. check[p].running = check[p].running
      OBVIOUS
    <3> QED
      BY <1>1, <1>5, <3>1 DEF J!RunJob, J!Current
  <2>2. /\ started \in J!Checks /\ started.jobs = check[p].jobs
        /\ started.at = check[p].at /\ started.now = check[p].now
        /\ started.any = TRUE /\ started.running = TRUE
    BY <1>1, <1>3 DEF J!Checks
  <2> HIDE DEF started
  <2>3. check'[p] = started
    BY <1>1, <2>1
  <2>4. LaterThere(p)'
    <3> SUFFICES ASSUME NEW i \in 1..Len(check[p].jobs), NEW m \in Nat,
                        check[p].jobs[i].spec # "date", check[p].jobs[i].serial \notin excused,
                        <<check[p].jobs[i].serial, m>> \in ran'
                 PROVE  \/ m < check[p].jobs[i].next
                        \/ i = check[p].at /\ m = check[p].jobs[i].next
      BY <1>2, <2>2, <2>3 DEF LaterThere
    <3>1. CASE <<check[p].jobs[i].serial, m>> \in ran
      BY <1>1, <1>2, <3>1 DEF LaterThere
    <3>2. CASE <<check[p].jobs[i].serial, m>> = <<job.serial, job.next>>
      <4>1. check[p].jobs[i].serial = job.serial /\ m = job.next
        BY <3>2
      <4>2. i = check[p].at
        BY <1>1, <1>3, <4>1 DEF CheckOK, OfTheAdded
      <4> QED
        BY <4>1, <4>2
    <3> QED
      BY <2>1, <3>1, <3>2
  <2>5. job.serial \in 1..added
    <3>1. job.serial <= added
      BY <1>1, <1>3 DEF CheckOK, OfTheAdded
    <3> QED
      BY <1>3, <3>1 DEF CronInv, CronTypes
  <2>6. ran \subseteq ran' /\ ran' \subseteq (1..added) \X Nat
    BY <1>3, <2>1, <2>5 DEF CronInv
  <2>7. ASSUME NEW n \in 1..MaxJobs, NEW m \in Nat, <<n, m>> \in ran', <<n, m>> \notin ran
        PROVE  Loaded(p, n)
    <3>1. n = job.serial
      BY <2>1, <2>7
    <3> QED
      BY <1>1, <1>3, <3>1 DEF Loaded
  <2>8. started.at >= 1 /\ started.at <= Len(started.jobs) + 1
    BY <1>3, <2>2
  <2> QED
    BY <1>1, <1>2, <1>3, <2>1, <2>2, <2>4, <2>6, <2>7, <2>8, OneCheck
<1> QED
  BY <1>4, <1>5

\* A job whose run is over gets a later moment.
LEMMA DoneStep ==
  ASSUME CronInv, NEW p \in Terminals, J!JobDone(p)
  PROVE  CronInv'
<1> DEFINE c == check[p]
           job == c.jobs[c.at]
           next == J!NextRun(job.spec, c.now)
           after == IF next < 0 THEN c.now + Fallback ELSE next
           js == [c.jobs EXCEPT ![c.at] = [job EXCEPT !.next = after]]
           d == [jobs |-> js, at |-> c.at + 1, now |-> c.now, any |-> c.any, running |-> FALSE]
<1>1. /\ c \in J!Checks /\ CheckOK(c) /\ LaterThere(p) /\ ~ J!Free(p)
      /\ check \in [Terminals -> J!Checks \cup {Idle}]
  BY CheckTyped DEF J!JobDone
<1>2. /\ c.running
      /\ UNCHANGED <<jobs, estop, now, added, ran, excused, removed, checks>>
  BY DEF J!JobDone
<1>3. /\ c.jobs \in Seq(J!Jobs) /\ Len(c.jobs) \in Nat /\ c.at \in 1..Len(c.jobs) /\ c.any
      /\ c.now \in Nat /\ c.at \in DOMAIN c.jobs /\ job.next <= c.now
  <2>1. c.jobs \in Seq(J!Jobs) /\ Len(c.jobs) \in Nat /\ c.at \in 1..Len(c.jobs) /\ c.any /\ c.now \in Nat
    BY <1>1, <1>2 DEF CheckOK, J!Checks
  <2>2. job.next <= c.now
    BY <1>1, <1>2 DEF CheckOK
  <2> QED
    BY <2>1, <2>2
<1>4. /\ job \in J!Jobs /\ job.serial \in 1..MaxJobs /\ job.next \in Nat /\ job.spec \in J!Specs
  BY <1>3, JobsTyped
<1>5. after \in Nat /\ (job.spec # "date" => after > c.now)
  <2>1. /\ next \in Int /\ (job.spec # "date" => next > c.now \/ next = -1)
        /\ (next >= 0 => next \in Nat)
    BY <1>3, <1>4, NextIsLater
  <2> HIDE DEF next
  <2>2. c.now \in Nat /\ Fallback \in Nat /\ Fallback > 0
    BY <1>3, CronConstants
  <2> QED
    BY <2>1, <2>2
<1>6. check' = [check EXCEPT ![p] = d]
  <2>1. check' = [check EXCEPT ![p].running = FALSE, ![p].at = @ + 1, ![p].jobs[c.at].next = after]
    BY DEF J!JobDone, J!Current
  <2> DEFINE e1 == [c EXCEPT !.running = FALSE]
             e2 == [e1 EXCEPT !.at = @ + 1]
             e3 == [e2 EXCEPT !.jobs = js]
             f1 == [check EXCEPT ![p] = e1]
             f2 == [check EXCEPT ![p] = e2]
  <2>2. /\ e1 \in J!Checks /\ e1.jobs = c.jobs /\ e1.at = c.at /\ e1.now = c.now /\ e1.any = c.any
        /\ e1.running = FALSE
    BY <1>1 DEF J!Checks
  <2>3. /\ e2.jobs = c.jobs /\ e2.at = c.at + 1 /\ e2.now = c.now /\ e2.any = c.any
        /\ e2.running = FALSE /\ e2 \in J!Checks
    <3> HIDE DEF e1
    <3> QED
      BY <2>2 DEF J!Checks
  <2>4. f1[p] = e1 /\ f2[p] = e2 /\ f2 \in [Terminals -> J!Checks \cup {Idle}]
        /\ f1 \in [Terminals -> J!Checks \cup {Idle}]
    BY <1>1, <2>2, <2>3
  <2>5. check' = [[[check EXCEPT ![p].running = FALSE] EXCEPT ![p].at = @ + 1]
                     EXCEPT ![p].jobs[c.at].next = after]
    BY <2>1, Zenon
  <2>6. [check EXCEPT ![p].running = FALSE] = f1
    BY <1>1
  <2>7. [f1 EXCEPT ![p].at = @ + 1] = f2
    <3>1. [f1 EXCEPT ![p].at = @ + 1] = [f1 EXCEPT ![p] = e2]
      BY <2>4
    <3> QED
      BY <1>1, <3>1
  <2>8. [f2 EXCEPT ![p].jobs[c.at].next = after] = [f2 EXCEPT ![p] = [f2[p] EXCEPT !.jobs[c.at].next = after]]
    BY <2>4
  <2>9. [e2 EXCEPT !.jobs[c.at].next = after] = e3
    BY <2>3 DEF J!Checks
  <2>10. e3 = d
    <3> HIDE DEF e2, js
    <3>1. e3 = [jobs |-> js, at |-> e2.at, now |-> e2.now, any |-> e2.any, running |-> e2.running]
      BY <2>3, OtherJobs
    <3> QED
      BY <2>3, <3>1, Zenon
  <2> HIDE DEF e1, e2, e3, after, js, d
  <2>11. check' = [f2 EXCEPT ![p] = d]
    BY <2>4, <2>5, <2>6, <2>7, <2>8, <2>9, <2>10, Zenon
  <2> QED
    BY <1>1, <2>11
<1> HIDE DEF after
<1>7. [job EXCEPT !.next = after] \in J!Jobs /\ [job EXCEPT !.next = after].serial = job.serial
      /\ [job EXCEPT !.next = after].spec = job.spec /\ [job EXCEPT !.next = after].next = after
  BY <1>4, <1>5 DEF J!Jobs
<1>8. /\ js \in Seq(J!Jobs) /\ Len(js) = Len(c.jobs)
      /\ js[c.at] = [job EXCEPT !.next = after]
      /\ \A i \in 1..Len(c.jobs) : i # c.at => js[i] = c.jobs[i]
  BY <1>3, <1>7
<1> HIDE DEF js
<1>9. /\ d \in J!Checks /\ d.jobs = js /\ d.at = c.at + 1 /\ d.now = c.now
      /\ d.any = c.any /\ d.running = FALSE
  BY <1>1, <1>3, <1>8 DEF J!Checks
<1> HIDE DEF d
<1>10. check'[p] = d
  BY <1>1, <1>6
<1>11. \A i \in 1..Len(js) : js[i].serial = c.jobs[i].serial
  BY <1>7, <1>8
<1>12. LaterThere(p)'
  <2> SUFFICES ASSUME NEW i \in 1..Len(js), NEW m \in Nat,
                      js[i].spec # "date", js[i].serial \notin excused,
                      <<js[i].serial, m>> \in ran
               PROVE  m < js[i].next
    BY <1>2, <1>9, <1>10 DEF LaterThere
  <2>1. CASE i = c.at
    <3>1. <<job.serial, m>> \in ran /\ job.serial \notin excused /\ job.spec # "date"
      BY <1>7, <1>8, <2>1
    <3>2. m <= job.next
      <4>1. m < job.next \/ m = job.next
        BY <1>1, <1>3, <3>1 DEF LaterThere
      <4> HIDE DEF c, job
      <4> QED
        BY <1>4, <4>1
    <3>3. js[i].next = after
      BY <1>7, <1>8, <2>1
    <3>4. after > c.now /\ after \in Nat /\ job.next <= c.now /\ c.now \in Nat /\ job.next \in Nat
      BY <1>3, <1>4, <1>5, <3>1
    <3> HIDE DEF c, job
    <3> QED
      BY <3>2, <3>3, <3>4
  <2>2. CASE i # c.at
    BY <1>1, <1>8, <2>2 DEF LaterThere
  <2> QED
    BY <2>1, <2>2
<1>13. d.at >= 1 /\ d.at <= Len(d.jobs) + 1
  BY <1>3, <1>8, <1>9
<1> QED
  BY <1>1, <1>2, <1>3, <1>6, <1>8, <1>9, <1>11, <1>12, <1>13, OneCheck DEF CronInv

\* A new job has not run.
LEMMA AddStep ==
  ASSUME CronInv, NEW p \in Terminals, J!AddJob(p)
  PROVE  CronInv'
<1>1. PICK spec \in J!Specs :
        /\ added < MaxJobs /\ J!NextRun(spec, now) >= 0 /\ added' = added + 1
        /\ jobs' = Append(jobs, [id |-> <<now, Len(jobs)>>, serial |-> added + 1,
                                 spec |-> spec, next |-> J!NextRun(spec, now)])
        /\ UNCHANGED <<check, estop, now, ran, excused, removed, checks>>
  BY DEF J!AddJob
<1> DEFINE job == [id |-> <<now, Len(jobs)>>, serial |-> added + 1,
                   spec |-> spec, next |-> J!NextRun(spec, now)]
<1>2. /\ jobs \in Seq(J!Jobs) /\ now \in Nat /\ added \in Nat /\ Len(jobs) \in Nat
      /\ MaxJobs \in Nat /\ checks \in Nat
  BY CronConstants DEF CronInv, CronTypes
<1>3. job \in J!Jobs /\ job.serial = added + 1
  <2>1. J!NextRun(spec, now) \in Nat
    BY <1>1, <1>2, NextIsLater
  <2>2. <<now, Len(jobs)>> \in Seq(Nat)
    BY <1>2
  <2>3. added + 1 \in 1..MaxJobs
    BY <1>1, <1>2
  <2> QED
    BY <2>1, <2>2, <2>3 DEF J!Jobs
<1> HIDE DEF job
<1>4. /\ jobs' \in Seq(J!Jobs) /\ Len(jobs') = Len(jobs) + 1
      /\ \A i \in 1..Len(jobs) : jobs'[i] = jobs[i]
      /\ jobs'[Len(jobs) + 1] = job
  <2>1. jobs' = Append(jobs, job)
    BY <1>1 DEF job
  <2> QED
    BY <1>2, <1>3, <2>1
<1>5. \A i \in 1..Len(jobs') : i \in 1..Len(jobs) \/ i = Len(jobs) + 1
  BY <1>2, <1>4
<1>6. \A i \in 1..Len(jobs) : jobs[i].serial \in 1..MaxJobs /\ jobs[i].serial <= added
  BY <1>2, JobsTyped DEF CronInv, OfTheAdded
<1>7. OfTheAdded(jobs)'
  <2>1. ASSUME NEW i \in 1..Len(jobs') PROVE jobs'[i].serial <= added'
    <3>1. CASE i \in 1..Len(jobs)
      BY <1>1, <1>2, <1>4, <1>6, <3>1
    <3>2. CASE i = Len(jobs) + 1
      BY <1>1, <1>2, <1>3, <1>4, <3>2
    <3> QED
      BY <1>5, <3>1, <3>2
  <2>2. ASSUME NEW i \in 1..Len(jobs'), NEW n \in 1..Len(jobs'),
               jobs'[i].serial = jobs'[n].serial
        PROVE  i = n
    <3>1. CASE i \in 1..Len(jobs) /\ n \in 1..Len(jobs)
      BY <1>4, <2>2, <3>1 DEF CronInv, OfTheAdded
    <3>2. \A x \in 1..Len(jobs) : jobs'[x].serial # added + 1
      BY <1>2, <1>4, <1>6
    <3>3. jobs'[Len(jobs) + 1].serial = added + 1
      BY <1>3, <1>4
    <3> QED
      BY <1>5, <2>2, <3>1, <3>2, <3>3
  <2> QED
    BY <2>1, <2>2 DEF OfTheAdded
<1>8. ASSUME NEW q \in Terminals, ~ J!Free(q)' PROVE CheckOK(check[q])'
  <2>1. CheckOK(check[q]) /\ check[q] \in J!Checks
    BY <1>1, <1>8, CheckTyped DEF J!Free
  <2>2. \A i \in 1..Len(check[q].jobs) :
           check[q].jobs[i].serial \in Nat /\ check[q].jobs[i].serial <= added
    <3>1. check[q].jobs \in Seq(J!Jobs)
      BY <2>1, CheckMade
    <3> QED
      BY <2>1, <3>1, JobsTyped DEF CheckOK, OfTheAdded
  <2>3. \A i \in 1..Len(check[q].jobs) : check[q].jobs[i].serial <= added'
    BY <1>1, <1>2, <2>2
  <2>4. OfTheAdded(check[q].jobs)'
    BY <1>1, <2>1, <2>3 DEF CheckOK, OfTheAdded
  <2> QED
    BY <1>1, <2>1, <2>4 DEF CheckOK
<1>9. ran' \subseteq (1..added') \X Nat
  BY <1>1, <1>2 DEF CronInv
<1>10. LaterInFile'
  <2> SUFFICES ASSUME NEW i \in 1..Len(jobs'), NEW m \in Nat,
                      jobs'[i].spec # "date", jobs'[i].serial \notin excused,
                      <<jobs'[i].serial, m>> \in ran
               PROVE  \/ m < jobs'[i].next
                      \/ \E q \in Terminals : Loaded(q, jobs'[i].serial) /\ check[q].any
    BY <1>1 DEF LaterInFile, Loaded, J!Free
  <2>1. CASE i \in 1..Len(jobs)
    BY <1>4, <2>1 DEF CronInv, LaterInFile
  <2>2. CASE i = Len(jobs) + 1
    <3>1. added + 1 \in 1..added
      BY <1>3, <1>4, <2>2 DEF CronInv
    <3> QED
      BY <1>2, <3>1
  <2> QED
    BY <1>5, <2>1, <2>2
<1>11. CronTypes'
  <2>1. added' \in Nat /\ added' <= MaxJobs
    BY <1>1, <1>2
  <2> QED
    BY <1>1, <1>4, <2>1 DEF CronInv, CronTypes
<1>12. /\ check' = check /\ excused' = excused /\ ran' = ran
  BY <1>1
<1>13. \A q \in Terminals : LaterThere(q)'
  <2>1. \A q \in Terminals : LaterThere(q)
    BY DEF CronInv
  <2> QED
    BY <1>12, <2>1 DEF LaterThere, J!Free
<1>14. \A n \in 1..MaxJobs : n \notin excused' =>
             \A q, r \in Terminals : Loaded(q, n)' /\ Loaded(r, n)' => q = r
  BY <1>12 DEF CronInv, Loaded, J!Free
<1> QED
  BY <1>7, <1>8, <1>9, <1>10, <1>11, <1>13, <1>14 DEF CronInv

\* Some jobs go; the others stay as they were.
LEMMA RemoveStep ==
  ASSUME CronInv, NEW p \in Terminals, J!RemoveJob(p)
  PROVE  CronInv'
<1>1. PICK name :
        \E n \in 0..Len(jobs) : \E kept \in [1..n -> DOMAIN jobs] :
           /\ \A i, x \in 1..n : i < x => kept[i] < kept[x]
           /\ jobs' = [i \in 1..n |-> jobs[kept[i]]]
           /\ removed' = removed \cup {j.serial : j \in J!Named(name)}
           /\ UNCHANGED <<check, estop, now, added, ran, excused, checks>>
  BY DEF J!RemoveJob
<1>2. PICK n \in 0..Len(jobs) : \E kept \in [1..n -> DOMAIN jobs] :
           /\ \A i, x \in 1..n : i < x => kept[i] < kept[x]
           /\ jobs' = [i \in 1..n |-> jobs[kept[i]]]
           /\ removed' = removed \cup {j.serial : j \in J!Named(name)}
           /\ UNCHANGED <<check, estop, now, added, ran, excused, checks>>
  BY <1>1
<1>3. PICK kept \in [1..n -> DOMAIN jobs] :
           /\ \A i, x \in 1..n : i < x => kept[i] < kept[x]
           /\ jobs' = [i \in 1..n |-> jobs[kept[i]]]
           /\ removed' = removed \cup {j.serial : j \in J!Named(name)}
           /\ UNCHANGED <<check, estop, now, added, ran, excused, checks>>
  BY <1>2
<1>4. jobs \in Seq(J!Jobs) /\ Len(jobs) \in Nat /\ DOMAIN jobs = 1..Len(jobs) /\ n \in Nat
  BY DEF CronInv, CronTypes
<1>5. \A i \in 1..n : kept[i] \in 1..Len(jobs) /\ jobs[kept[i]] \in J!Jobs
  BY <1>4
<1>6. /\ jobs' \in Seq(J!Jobs) /\ Len(jobs') = n
      /\ \A i \in 1..n : jobs'[i] = jobs[kept[i]]
  BY <1>3, <1>4, <1>5
<1>7. \A i, x \in 1..n : kept[i] = kept[x] => i = x
  <2> SUFFICES ASSUME NEW i \in 1..n, NEW x \in 1..n, kept[i] = kept[x], i # x PROVE FALSE
    OBVIOUS
  <2>1. i < x \/ x < i
    BY <1>4
  <2>2. kept[i] < kept[x] \/ kept[x] < kept[i]
    BY <1>3, <2>1
  <2> QED
    BY <1>4, <1>5, <2>2
<1>8. OfTheAdded(jobs)'
  BY <1>3, <1>5, <1>6, <1>7 DEF CronInv, OfTheAdded
<1>9. LaterInFile'
  <2> SUFFICES ASSUME NEW i \in 1..n, NEW m \in Nat,
                      jobs'[i].spec # "date", jobs'[i].serial \notin excused,
                      <<jobs'[i].serial, m>> \in ran
               PROVE  \/ m < jobs'[i].next
                      \/ \E q \in Terminals : Loaded(q, jobs'[i].serial) /\ check[q].any
    BY <1>3, <1>6 DEF LaterInFile, Loaded, J!Free
  <2>1. jobs'[i] = jobs[kept[i]] /\ kept[i] \in 1..Len(jobs)
    BY <1>5, <1>6
  <2> QED
    BY <2>1 DEF CronInv, LaterInFile
<1>10. removed' \subseteq 1..MaxJobs
  <2>1. \A j \in J!Named(name) : j.serial \in 1..MaxJobs
    BY <1>4, JobsTyped DEF J!Named, J!ToSet
  <2> QED
    BY <1>3, <2>1 DEF CronInv, CronTypes
<1>11. CronTypes'
  BY <1>3, <1>6, <1>10 DEF CronInv, CronTypes
<1>12. /\ check' = check /\ excused' = excused /\ ran' = ran /\ added' = added
  BY <1>3
<1>13. \A q \in Terminals : LaterThere(q)'
  <2>1. \A q \in Terminals : LaterThere(q)
    BY DEF CronInv
  <2> QED
    BY <1>12, <2>1 DEF LaterThere, J!Free
<1>14. \A s \in 1..MaxJobs : s \notin excused' =>
             \A q, r \in Terminals : Loaded(q, s)' /\ Loaded(r, s)' => q = r
  BY <1>12 DEF CronInv, Loaded, J!Free
<1>15. \A q \in Terminals : ~ J!Free(q)' => CheckOK(check[q])'
  BY <1>12 DEF CronInv, J!Free, CheckOK, OfTheAdded
<1>16. ran' \subseteq (1..added') \X Nat
  BY <1>12 DEF CronInv
<1> QED
  BY <1>8, <1>9, <1>11, <1>13, <1>14, <1>15, <1>16 DEF CronInv

\* The serials of what is loaded or stored.
LEMMA SerialsOf ==
  ASSUME NEW js \in Seq(J!Jobs)
  PROVE  /\ {j.serial : j \in J!ToSet(js)} = {js[i].serial : i \in 1..Len(js)}
         /\ {js[i].serial : i \in 1..Len(js)} \subseteq 1..MaxJobs
<1>1. DOMAIN js = 1..Len(js) /\ \A i \in 1..Len(js) : js[i] \in J!Jobs
  OBVIOUS
<1>2. J!ToSet(js) = {js[i] : i \in 1..Len(js)}
  BY <1>1 DEF J!ToSet
<1>3. \A i \in 1..Len(js) : js[i].serial \in 1..MaxJobs
  BY <1>1 DEF J!Jobs
<1> QED
  BY <1>2, <1>3, Zenon

\* What is under way is what some check has loaded.
LEMMA UnderWayIsLoaded ==
  ASSUME CronInv, NEW q \in Terminals, NEW n, Loaded(q, n)
  PROVE  n \in J!UnderWay
<1>1. ~ J!Free(q) /\ check[q].jobs \in Seq(J!Jobs)
  BY CheckTyped DEF Loaded, J!Checks
<1>2. n \in {j.serial : j \in J!ToSet(check[q].jobs)}
  BY <1>1, SerialsOf DEF Loaded
<1> QED
  BY <1>1, <1>2 DEF J!UnderWay

\* A check loads the file; what another has loaded may now run twice.
LEMMA StartStep ==
  ASSUME CronInv, NEW p \in Terminals, J!CheckStarts(p)
  PROVE  CronInv'
<1> DEFINE d == [jobs |-> jobs, at |-> 1, now |-> now, any |-> FALSE, running |-> FALSE]
<1>1. /\ J!Free(p) /\ checks < MaxChecks /\ checks' = checks + 1
      /\ check' = [check EXCEPT ![p] = d]
      /\ excused' = excused \cup (J!UnderWay \cap {j.serial : j \in J!ToSet(jobs)})
      /\ UNCHANGED <<jobs, estop, now, added, ran, removed>>
  BY DEF J!CheckStarts
<1>2. /\ jobs \in Seq(J!Jobs) /\ now \in Nat /\ Len(jobs) \in Nat
      /\ check \in [Terminals -> J!Checks \cup {Idle}]
  BY DEF CronInv, CronTypes
<1>3. d \in J!Checks /\ d # Idle
  <2>1. d \in J!Checks
    BY <1>2 DEF J!Checks
  <2> QED
    BY <2>1, CronConstants
<1>4. /\ d.jobs = jobs /\ d.at = 1 /\ d.now = now /\ d.any = FALSE /\ d.running = FALSE
  OBVIOUS
<1> HIDE DEF d
<1>5. /\ check'[p] = d /\ check' \in [Terminals -> J!Checks \cup {Idle}]
      /\ \A q \in Terminals : q # p => check'[q] = check[q]
  BY <1>1, <1>2, <1>3
<1>6. /\ \A q \in Terminals : q # p => (J!Free(q)' <=> J!Free(q))
      /\ ~ J!Free(p)'
  BY <1>3, <1>5 DEF J!Free
<1>7. /\ \A q \in Terminals : \A n : q # p => (Loaded(q, n)' <=> Loaded(q, n))
      /\ \A n : ~ Loaded(p, n)
      /\ \A n : Loaded(p, n)' <=> \E i \in 1..Len(jobs) : jobs[i].serial = n
  BY <1>1, <1>4, <1>5, <1>6 DEF Loaded
<1>8. /\ excused \subseteq excused'
      /\ \A n : n \in J!UnderWay /\ (\E i \in 1..Len(jobs) : jobs[i].serial = n) => n \in excused'
      /\ excused' \subseteq 1..MaxJobs
  BY <1>1, <1>2, SerialsOf DEF CronInv, CronTypes
<1>9. CronTypes'
  <2>1. checks' \in Nat /\ checks' <= MaxChecks
    BY <1>1, CronConstants DEF CronInv, CronTypes
  <2> QED
    BY <1>1, <1>5, <1>8, <2>1 DEF CronInv, CronTypes
<1>10. OfTheAdded(jobs)' /\ ran' \subseteq (1..added') \X Nat
  BY <1>1 DEF CronInv, OfTheAdded
<1>11. ASSUME NEW q \in Terminals, ~ J!Free(q)' PROVE CheckOK(check[q])'
  <2>1. CASE q = p
    <3>1. d.at >= 1 /\ d.at <= Len(d.jobs) + 1
      BY <1>2, <1>4
    <3>2. check'[p].jobs = jobs /\ check'[p].at = d.at
      BY <1>4, <1>5
    <3>3. OfTheAdded(check[p].jobs)'
      BY <1>1, <3>2 DEF CronInv, OfTheAdded
    <3> QED
      BY <1>4, <1>5, <2>1, <3>1, <3>3 DEF CheckOK
  <2>2. CASE q # p
    <3>1. CheckOK(check[q])
      BY <1>6, <1>11, <2>2 DEF CronInv
    <3> QED
      BY <1>1, <1>5, <2>2, <3>1 DEF CheckOK, OfTheAdded
  <2> QED
    BY <2>1, <2>2
<1>12. ASSUME NEW n \in 1..MaxJobs, n \notin excused', NEW q \in Terminals, NEW r \in Terminals,
              Loaded(q, n)', Loaded(r, n)'
       PROVE  q = r
  <2>1. CASE q # p /\ r # p
    BY <1>7, <1>8, <1>12, <2>1 DEF CronInv
  <2>2. \A s \in Terminals : s # p => ~ (Loaded(s, n)' /\ Loaded(p, n)')
    BY <1>7, <1>8, <1>12, UnderWayIsLoaded
  <2> QED
    BY <1>12, <2>1, <2>2
<1>13. ASSUME NEW q \in Terminals PROVE LaterThere(q)'
  <2>1. CASE q = p
    <3> SUFFICES ASSUME NEW i \in 1..Len(jobs), NEW m \in Nat,
                        jobs[i].spec # "date", jobs[i].serial \notin excused',
                        <<jobs[i].serial, m>> \in ran
                 PROVE  m < jobs[i].next
      BY <1>1, <1>4, <1>5, <2>1 DEF LaterThere
    <3>1. jobs[i].serial \notin excused /\ jobs[i].serial \notin J!UnderWay
      BY <1>8
    <3>2. \A r \in Terminals : ~ Loaded(r, jobs[i].serial)
      BY <3>1, UnderWayIsLoaded
    <3> QED
      BY <3>1, <3>2 DEF CronInv, LaterInFile
  <2>2. CASE q # p
    <3>1. LaterThere(q)
      BY DEF CronInv
    <3> QED
      BY <1>1, <1>5, <1>6, <1>8, <2>2, <3>1 DEF LaterThere
  <2> QED
    BY <2>1, <2>2
<1>14. LaterInFile'
  <2> SUFFICES ASSUME NEW i \in 1..Len(jobs), NEW m \in Nat,
                      jobs[i].spec # "date", jobs[i].serial \notin excused',
                      <<jobs[i].serial, m>> \in ran
               PROVE  \/ m < jobs[i].next
                      \/ \E q \in Terminals : Loaded(q, jobs[i].serial)' /\ check'[q].any
    BY <1>1 DEF LaterInFile
  <2>1. CASE m < jobs[i].next
    BY <2>1
  <2>2. CASE \E q \in Terminals : Loaded(q, jobs[i].serial) /\ check[q].any
    <3>1. PICK q \in Terminals : Loaded(q, jobs[i].serial) /\ check[q].any
      BY <2>2
    <3>2. q # p
      BY <1>7, <3>1
    <3>3. Loaded(q, jobs[i].serial)' /\ check'[q].any
      BY <1>1, <1>5, <1>7, <3>1, <3>2
    <3> QED
      BY <3>3
  <2> QED
    BY <1>8, <2>1, <2>2 DEF CronInv, LaterInFile
<1> QED
  BY <1>9, <1>10, <1>11, <1>12, <1>13, <1>14 DEF CronInv

\* A terminal is done with its check, or killed: what the file holds is as it should be.
LEMMA CheckGone ==
  ASSUME CronInv, NEW p \in Terminals, ~ J!Free(p), check' = [check EXCEPT ![p] = Idle],
         UNCHANGED <<estop, now, added, ran, removed, checks>>,
         jobs' \in Seq(J!Jobs), OfTheAdded(jobs)', excused \subseteq excused',
         excused' \subseteq 1..MaxJobs, LaterInFile'
  PROVE  CronInv'
<1>1. /\ check'[p] = Idle /\ check' \in [Terminals -> J!Checks \cup {Idle}]
      /\ \A q \in Terminals : q # p => check'[q] = check[q]
  BY CheckTyped
<1>2. \A q \in Terminals : ~ J!Free(q)' => ~ J!Free(q) /\ q # p /\ check'[q] = check[q]
  BY <1>1 DEF J!Free
<1>3. CronTypes'
  BY <1>1 DEF CronInv, CronTypes
<1>4. \A q \in Terminals : ~ J!Free(q)' => CheckOK(check[q])'
  BY <1>2 DEF CronInv, CheckOK, OfTheAdded
<1>5. \A n \in 1..MaxJobs : n \notin excused' =>
         \A q, r \in Terminals : Loaded(q, n)' /\ Loaded(r, n)' => q = r
  BY <1>2 DEF CronInv, Loaded
<1>6. ASSUME NEW q \in Terminals PROVE LaterThere(q)'
  <2>1. LaterThere(q)
    BY DEF CronInv
  <2>2. \A n : n \notin excused' => n \notin excused
    OBVIOUS
  <2>3. CASE J!Free(q)'
    BY <2>3 DEF LaterThere
  <2>4. CASE ~ J!Free(q)'
    <3>1. check'[q] = check[q] /\ ~ J!Free(q) /\ ran' = ran
      BY <1>2, <2>4
    <3> QED
      BY <2>1, <2>2, <3>1 DEF LaterThere
  <2> QED
    BY <2>3, <2>4
<1>7. ran' \subseteq (1..added') \X Nat
  BY DEF CronInv
<1> QED
  BY <1>3, <1>4, <1>5, <1>6, <1>7 DEF CronInv

\* What another terminal has loaded stays loaded.
LEMMA OthersStay ==
  ASSUME CronInv, NEW p \in Terminals, check' = [check EXCEPT ![p] = Idle],
         NEW q \in Terminals, q # p, NEW n, Loaded(q, n), check[q].any
  PROVE  Loaded(q, n)' /\ check'[q].any
BY CheckTyped DEF Loaded, J!Free

\* A check that ran something writes what it holds: later than every run.
LEMMA EndStep ==
  ASSUME CronInv, NEW p \in Terminals, J!CheckEnds(p)
  PROVE  CronInv'
<1>1. /\ check[p] \in J!Checks /\ CheckOK(check[p]) /\ LaterThere(p) /\ ~ J!Free(p)
  BY CheckTyped DEF J!CheckEnds
<1>2. /\ check' = [check EXCEPT ![p] = Idle] /\ check[p].at > Len(check[p].jobs)
      /\ jobs' = IF check[p].any THEN check[p].jobs ELSE jobs
      /\ UNCHANGED <<estop, now, added, ran, excused, removed, checks>>
  BY DEF J!CheckEnds
<1>3. ~ check[p].running
  <2>1. Len(check[p].jobs) \in Nat /\ check[p].at \in Nat
    BY <1>1 DEF J!Checks
  <2> QED
    BY <1>1, <1>2, <2>1 DEF CheckOK
<1>4. CASE check[p].any
  <2>1. jobs' = check[p].jobs
    BY <1>2, <1>4
  <2>2. jobs' \in Seq(J!Jobs) /\ OfTheAdded(jobs)'
    BY <1>1, <1>2, <2>1 DEF CheckOK, OfTheAdded, J!Checks
  <2>3. LaterInFile'
    BY <1>1, <1>2, <1>3, <2>1 DEF LaterInFile, LaterThere
  <2>4. excused' = excused /\ excused' \subseteq 1..MaxJobs
    BY <1>2 DEF CronInv, CronTypes
  <2> QED
    BY <1>1, <1>2, <2>2, <2>3, <2>4, CheckGone
<1>5. CASE ~ check[p].any
  <2>1. jobs' = jobs
    BY <1>2, <1>5
  <2>2. jobs' \in Seq(J!Jobs) /\ OfTheAdded(jobs)'
    BY <1>2, <2>1 DEF CronInv, CronTypes, OfTheAdded
  <2>3. LaterInFile'
    <3> SUFFICES ASSUME NEW i \in 1..Len(jobs), NEW m \in Nat,
                        jobs[i].spec # "date", jobs[i].serial \notin excused,
                        <<jobs[i].serial, m>> \in ran
                 PROVE  \/ m < jobs[i].next
                        \/ \E q \in Terminals : Loaded(q, jobs[i].serial)' /\ check'[q].any
      BY <1>2, <2>1 DEF LaterInFile
    <3>1. CASE m < jobs[i].next
      BY <3>1
    <3>2. CASE \E q \in Terminals : Loaded(q, jobs[i].serial) /\ check[q].any
      <4>1. PICK q \in Terminals : Loaded(q, jobs[i].serial) /\ check[q].any
        BY <3>2
      <4>2. q # p
        BY <1>5, <4>1
      <4>3. Loaded(q, jobs[i].serial)' /\ check'[q].any
        BY <1>2, <2>1, <4>1, <4>2, OthersStay
      <4> QED
        BY <4>3
    <3> QED
      BY <3>1, <3>2 DEF CronInv, LaterInFile
  <2>4. excused' = excused /\ excused' \subseteq 1..MaxJobs
    BY <1>2 DEF CronInv, CronTypes
  <2> QED
    BY <1>1, <1>2, <2>2, <2>3, <2>4, CheckGone
<1> QED
  BY <1>4, <1>5

\* The jobs of a check that was killed may run again.
LEMMA KillStep ==
  ASSUME CronInv, NEW p \in Terminals, J!Killed(p)
  PROVE  CronInv'
<1>1. /\ check[p] \in J!Checks /\ ~ J!Free(p) /\ check[p].jobs \in Seq(J!Jobs)
  BY CheckTyped DEF J!Killed, J!Checks
<1>2. /\ check' = [check EXCEPT ![p] = Idle] /\ jobs' = jobs
      /\ excused' = excused \cup {j.serial : j \in J!ToSet(check[p].jobs)}
      /\ UNCHANGED <<estop, now, added, ran, removed, checks>>
  BY DEF J!Killed
<1>3. /\ \A n : Loaded(p, n) => n \in excused'
      /\ excused \subseteq excused' /\ excused' \subseteq 1..MaxJobs
  <2> DEFINE theirs == {check[p].jobs[i].serial : i \in 1..Len(check[p].jobs)}
  <2>1. {j.serial : j \in J!ToSet(check[p].jobs)} = theirs /\ theirs \subseteq 1..MaxJobs
    BY <1>1, SerialsOf
  <2>2. \A n : Loaded(p, n) => n \in theirs
    BY DEF Loaded
  <2> HIDE DEF theirs
  <2>3. excused \subseteq 1..MaxJobs
    BY DEF CronInv, CronTypes
  <2> QED
    BY <1>2, <2>1, <2>2, <2>3
<1>4. jobs' \in Seq(J!Jobs) /\ OfTheAdded(jobs)'
  BY <1>2 DEF CronInv, CronTypes, OfTheAdded
<1>5. LaterInFile'
  <2> SUFFICES ASSUME NEW i \in 1..Len(jobs), NEW m \in Nat,
                      jobs[i].spec # "date", jobs[i].serial \notin excused',
                      <<jobs[i].serial, m>> \in ran
               PROVE  \/ m < jobs[i].next
                      \/ \E q \in Terminals : Loaded(q, jobs[i].serial)' /\ check'[q].any
    BY <1>2 DEF LaterInFile
  <2>1. CASE m < jobs[i].next
    BY <2>1
  <2>2. CASE \E q \in Terminals : Loaded(q, jobs[i].serial) /\ check[q].any
    <3>1. PICK q \in Terminals : Loaded(q, jobs[i].serial) /\ check[q].any
      BY <2>2
    <3>2. q # p
      BY <1>3, <3>1
    <3> QED
      BY <1>2, <3>1, <3>2, OthersStay
  <2> QED
    BY <1>3, <2>1, <2>2 DEF CronInv, LaterInFile
<1> QED
  BY <1>1, <1>2, <1>3, <1>4, <1>5, CheckGone

\* Every step of the clock and of the terminals keeps the scheduled prompts as they should be.
LEMMA CronStep ==
  ASSUME CronInv, J!Next
  PROVE  CronInv'
<1>1. ASSUME UNCHANGED <<jobs, check, added, ran, excused, removed, checks>>,
             now' \in Nat, now' <= Horizon, estop' \in BOOLEAN
      PROVE  CronInv'
  <2>1. CronTypes'
    BY <1>1 DEF CronInv, CronTypes
  <2> QED
    BY <1>1, <2>1 DEF CronInv, OfTheAdded, CheckOK, LaterThere, LaterInFile, Loaded, J!Free
<1>2. CASE J!Tick
  <2>1. now' \in Nat /\ now' <= Horizon /\ estop' = estop
    BY <1>2, CronConstants DEF J!Tick, CronInv, CronTypes
  <2>2. estop' \in BOOLEAN
    BY <2>1, Zenon DEF CronInv, CronTypes
  <2> QED
    BY <1>1, <1>2, <2>1, <2>2 DEF J!Tick
<1>3. ASSUME NEW p \in Terminals, J!EStop(p) PROVE CronInv'
  <2>1. estop' \in BOOLEAN
    BY <1>3, Zenon DEF J!EStop
  <2>2. now' \in Nat /\ now' <= Horizon
    BY <1>3 DEF J!EStop, CronInv, CronTypes
  <2> QED
    BY <1>1, <1>3, <2>1, <2>2 DEF J!EStop
<1> QED
  BY <1>2, <1>3, AddStep, RemoveStep, KillStep, StartStep, SkipStep, RunStep, DoneStep, EndStep
     DEF J!Next

\* Nothing moves a scheduled prompt but the steps of its own.
LEMMA CronStays ==
  ASSUME CronInv, UNCHANGED cronVars
  PROVE  CronInv'
BY DEF CronInv, CronTypes, OfTheAdded, CheckOK, LaterThere, LaterInFile, Loaded, J!Free, cronVars

\* What the jobs and the checks are made of, from the invariant.
LEMMA CronTyped ==
  ASSUME CronInv
  PROVE  J!TypeOK
<1>1. /\ now \in 0..Horizon /\ added \in 0..MaxJobs /\ checks \in 0..MaxChecks
  BY CronConstants DEF CronInv, CronTypes
<1>2. ASSUME NEW p \in Terminals, ~ J!Free(p)
      PROVE  /\ check[p] \in J!Checks /\ check[p].at \in 1..Len(check[p].jobs) + 1
             /\ check[p].running => check[p].any
  <2>1. check[p] \in J!Checks /\ CheckOK(check[p])
    BY <1>2, CheckTyped
  <2>2. check[p].at \in Nat /\ Len(check[p].jobs) \in Nat
    BY <2>1 DEF J!Checks
  <2> QED
    BY <2>1, <2>2 DEF CheckOK
<1> QED
  BY <1>1, <1>2 DEF CronInv, CronTypes, J!TypeOK

\* No job runs twice for one moment, and a check that ran something leaves none that is due.
LEMMA NoJobTwice ==
  ASSUME CronInv
  PROVE  J!OncePerMoment /\ J!CheckSettles
<1>1. ASSUME NEW p \in Terminals, J!RunJob(p),
             J!Current(check[p]).spec # "date", J!Current(check[p]).serial \notin excused,
             <<J!Current(check[p]).serial, J!Current(check[p]).next>> \in ran
      PROVE  FALSE
  <2>1. /\ check[p] \in J!Checks /\ CheckOK(check[p]) /\ LaterThere(p) /\ ~ J!Free(p)
        /\ check[p].at <= Len(check[p].jobs) /\ ~ check[p].running
    BY <1>1, CheckTyped DEF J!RunJob
  <2>2. check[p].at \in 1..Len(check[p].jobs)
    BY <2>1, CheckMade DEF CheckOK
  <2>3. check[p].jobs[check[p].at].next \in Nat
    BY <2>1, <2>2, CheckMade, JobsTyped
  <2> QED
    BY <1>1, <2>1, <2>2, <2>3 DEF LaterThere, J!Current
<1>2. ASSUME NEW p \in Terminals, J!CheckEnds(p), check[p].any, NEW j \in J!ToSet(jobs'),
             j.spec # "date", <<j.serial, j.next>> \in ran, j.serial \notin excused
      PROVE  FALSE
  <2>1. /\ check[p] \in J!Checks /\ CheckOK(check[p]) /\ LaterThere(p) /\ ~ J!Free(p)
        /\ check[p].at > Len(check[p].jobs) /\ jobs' = check[p].jobs
    BY <1>2, CheckTyped DEF J!CheckEnds
  <2>2. check[p].jobs \in Seq(J!Jobs) /\ Len(check[p].jobs) \in Nat /\ check[p].at \in Nat
    BY <2>1 DEF J!Checks
  <2>3. ~ check[p].running
    BY <2>1, <2>2 DEF CheckOK
  <2>4. PICK i \in 1..Len(check[p].jobs) : j = check[p].jobs[i]
    <3>1. DOMAIN check[p].jobs = 1..Len(check[p].jobs)
      BY <2>2, JobsTyped
    <3> QED
      BY <1>2, <2>1, <3>1 DEF J!ToSet
  <2>5. check[p].jobs[i].next \in Nat
    BY <2>2, <2>4, JobsTyped
  <2> QED
    BY <1>2, <2>1, <2>3, <2>4, <2>5 DEF LaterThere
<1> QED
  BY <1>1, <1>2 DEF J!OncePerMoment, J!CheckSettles

\* A job goes by `remove` or under a check that did not know it, and comes back by a check.
LEMMA JobsAreKept ==
  ASSUME CronInv, J!Next
  PROVE  J!JobsKept
<1>1. ASSUME jobs' = jobs PROVE J!JobsKept
  BY <1>1 DEF J!JobsKept, J!Serials
<1>2. ASSUME NEW p \in Terminals, J!AddJob(p) PROVE J!JobsKept
  <2>1. PICK job : jobs' = Append(jobs, job) /\ job.serial = added + 1
    <3>1. PICK spec \in J!Specs :
            jobs' = Append(jobs, [id |-> <<now, Len(jobs)>>, serial |-> added + 1,
                                  spec |-> spec, next |-> J!NextRun(spec, now)])
      BY <1>2 DEF J!AddJob
    <3> QED
      BY <3>1
  <2>2. jobs \in Seq(J!Jobs) /\ added \in Nat
    BY DEF CronInv, CronTypes
  <2>3. J!ToSet(jobs') = J!ToSet(jobs) \cup {job}
    BY <2>1, <2>2 DEF J!ToSet
  <2> QED
    BY <2>1, <2>2, <2>3 DEF J!JobsKept, J!Serials
<1>3. ASSUME NEW p \in Terminals, J!RemoveJob(p) PROVE J!JobsKept
  <2>1. PICK name \in {j.id : j \in J!ToSet(jobs)}, n \in 0..Len(jobs) :
          \E kept \in [1..n -> DOMAIN jobs] :
             /\ J!Free(p)
             /\ {kept[i] : i \in 1..n} = {i \in DOMAIN jobs : jobs[i].id # name}
             /\ \A i, k \in 1..n : i < k => kept[i] < kept[k]
             /\ jobs' = [i \in 1..n |-> jobs[kept[i]]]
             /\ removed' = removed \cup {j.serial : j \in J!Named(name)}
             /\ UNCHANGED <<check, estop, now, added, ran, excused, checks>>
    BY <1>3, Zenon DEF J!RemoveJob
  <2>3. PICK kept \in [1..n -> DOMAIN jobs] :
             /\ {kept[i] : i \in 1..n} = {i \in DOMAIN jobs : jobs[i].id # name}
             /\ jobs' = [i \in 1..n |-> jobs[kept[i]]]
             /\ removed' = removed \cup {j.serial : j \in J!Named(name)}
    BY <2>1, Zenon
  <2>4. DOMAIN jobs' = 1..n /\ \A i \in 1..n : jobs'[i] = jobs[kept[i]] /\ kept[i] \in DOMAIN jobs
    BY <2>3
  <2>5. J!ToSet(jobs') \subseteq J!ToSet(jobs)
    BY <2>4 DEF J!ToSet
  <2>6. ASSUME NEW j \in J!ToSet(jobs) PROVE j \in J!ToSet(jobs') \/ j \in J!Named(name)
    <3>1. PICK i \in DOMAIN jobs : j = jobs[i]
      BY DEF J!ToSet
    <3>2. CASE jobs[i].id = name
      BY <3>1, <3>2 DEF J!Named
    <3>3. CASE jobs[i].id # name
      <4>1. PICK x \in 1..n : i = kept[x]
        BY <2>3, <3>3
      <4> QED
        BY <2>4, <3>1, <4>1 DEF J!ToSet
    <3> QED
      BY <3>2, <3>3
  <2> QED
    BY <2>3, <2>5, <2>6, Zenon DEF J!JobsKept, J!Serials
<1>4. ASSUME NEW p \in Terminals, J!CheckEnds(p) PROVE J!JobsKept
  <2>1. jobs' = jobs \/ (check[p].any /\ jobs' = check[p].jobs)
    BY <1>4 DEF J!CheckEnds
  <2>2. CASE check[p].any /\ jobs' = check[p].jobs
    BY <1>4, <2>2, Zenon DEF J!JobsKept, J!Serials
  <2> QED
    BY <1>1, <2>1, <2>2
<1> QED
  BY <1>1, <1>2, <1>3, <1>4 DEF J!Next, J!Tick, J!EStop, J!Killed, J!CheckStarts, J!Skip,
     J!RunJob, J!JobDone

-----------------------------------------------------------------------------
(* The conversations of the agent.                                         *)

\* What the constants of the conversations are.
LEMMA SessionsConstants ==
  /\ Last \in Saves /\ Calls \in SUBSET Nat /\ KeepTail \in Nat
  /\ MaxRuns \in Nat /\ MaxAnswers \in Nat /\ MaxCommands \in Nat
  /\ \A t \in Tabs : Outside # <<"tab", t>>
BY StorageAssumption DEF S!SessionsAssumption

\* What the messages of a conversation are made of.
LEMMA MessagesTyped ==
  ASSUME NEW h \in S!Histories
  PROVE  /\ Len(h) \in Nat /\ DOMAIN h = 1..Len(h)
         /\ \A i \in 1..Len(h) : /\ h[i] \in S!Messages /\ h[i].n \in Nat
                                 /\ h[i].who \in {"user", "assistant", "tool", "note"}
                                 /\ h[i].who # "assistant" => h[i].n = 0
<1>1. Len(h) \in Nat /\ DOMAIN h = 1..Len(h) /\ \A i \in 1..Len(h) : h[i] \in S!Messages
  BY DEF S!Histories
<1>2. ASSUME NEW m \in S!Messages
      PROVE  /\ m.n \in Nat /\ m.who \in {"user", "assistant", "tool", "note"}
             /\ m.who # "assistant" => m.n = 0
  <2> DEFINE numbers == Calls \cup {0}
  <2>1. \A x \in numbers : x \in Nat
    BY SessionsConstants
  <2>2. \/ m \in [who : {"user", "tool", "note"}, n : {0}]
        \/ m \in [who : {"assistant"}, n : numbers]
    BY DEF S!Messages
  <2> HIDE DEF numbers
  <2>3. CASE m \in [who : {"user", "tool", "note"}, n : {0}]
    BY <2>3
  <2>4. CASE m \in [who : {"assistant"}, n : numbers]
    <3>1. m.who = "assistant" /\ m.n \in numbers
      BY <2>4
    <3>2. m.n \in Nat
      BY <2>1, <3>1, Zenon
    <3> QED
      BY <3>1, <3>2
  <2> QED
    BY <2>2, <2>3, <2>4
<1> QED
  BY <1>1, <1>2

\* Calls have their results behind them, and results their calls before them.
Followed(h) ==
    \A i \in 1..Len(h) : \A k \in 1..h[i].n : i + k <= Len(h) /\ h[i + k].who = "tool"
Preceded(h) ==
    \A i \in 1..Len(h) : h[i].who = "tool" =>
        \/ \E j \in 1..(i - 1) : j + h[j].n >= i
        \/ \A j \in 1..(i - 1) : h[j].who \in {"tool", "note"}

\* The two say what it is for calls and results to be paired.
LEMMA PairedIs ==
  ASSUME NEW h \in S!Histories
  PROVE  S!Paired(h) <=> Followed(h) /\ Preceded(h)
<1>1. Len(h) \in Nat /\ DOMAIN h = 1..Len(h) /\ \A i \in 1..Len(h) : h[i].n \in Nat
  BY MessagesTyped
<1>2. \A i \in 1..Len(h) : \A k \in 1..h[i].n : (i + k \in 1..Len(h)) <=> i + k <= Len(h)
  BY <1>1
<1> QED
  BY <1>1, <1>2 DEF S!Paired, Followed, Preceded

\* The end of a paired conversation is paired.
LEMMA EndPaired ==
  ASSUME NEW h \in S!Histories, S!Paired(h), NEW a \in Nat, a >= 1, a <= Len(h) + 1,
         NEW q \in S!Histories, Len(q) = Len(h) - a + 1,
         \A i \in 1..Len(q) : q[i] = h[a - 1 + i]
  PROVE  S!Paired(q)
<1>1. /\ Len(h) \in Nat /\ Len(q) \in Nat /\ Followed(h) /\ Preceded(h)
      /\ \A i \in 1..Len(h) : h[i].n \in Nat
      /\ \A i \in 1..Len(q) : a - 1 + i \in 1..Len(h) /\ a - 1 + i \in Nat
  BY MessagesTyped, PairedIs
<1>2. ASSUME NEW i \in 1..Len(q), NEW k \in 1..q[i].n
      PROVE  i + k <= Len(q) /\ q[i + k].who = "tool"
  <2>1. (a - 1 + i) + k <= Len(h) /\ h[(a - 1 + i) + k].who = "tool"
    BY <1>1 DEF Followed
  <2>2. k \in Nat /\ k >= 1
    BY <1>1
  <2>3. i + k <= Len(q) /\ i + k >= 1 /\ i + k \in 1..Len(q)
    BY <1>1, <2>1, <2>2
  <2>4. a - 1 + (i + k) = (a - 1 + i) + k
    BY <2>2
  <2> QED
    BY <2>1, <2>3, <2>4
<1>3. ASSUME NEW i \in 1..Len(q), q[i].who = "tool"
      PROVE  \/ \E j \in 1..(i - 1) : j + q[j].n >= i
             \/ \A j \in 1..(i - 1) : q[j].who \in {"tool", "note"}
  <2> DEFINE p == a - 1 + i
  <2>1. p \in 1..Len(h) /\ h[p].who = "tool"
    BY <1>1, <1>3
  <2>2. CASE \A j \in 1..(p - 1) : h[j].who \in {"tool", "note"}
    <3>1. \A j \in 1..(i - 1) : j \in 1..Len(q) /\ a - 1 + j \in 1..(p - 1)
      BY <1>1
    <3> QED
      BY <2>2, <3>1
  <2>3. ASSUME NEW j \in 1..(p - 1), j + h[j].n >= p
        PROVE  \/ \E x \in 1..(i - 1) : x + q[x].n >= i
               \/ \A x \in 1..(i - 1) : q[x].who \in {"tool", "note"}
    <3>1. CASE j >= a
      <4>1. j - a + 1 \in 1..(i - 1) /\ j - a + 1 \in 1..Len(q) /\ a - 1 + (j - a + 1) = j
        <5>1. j \in Nat /\ j <= (a - 1 + i) - 1 /\ i <= Len(q)
          BY <1>1
        <5> HIDE DEF p
        <5> QED
          BY <1>1, <3>1, <5>1
      <4>2. q[j - a + 1] = h[j] /\ j \in 1..Len(h)
        BY <1>1, <2>1, <4>1
      <4>3. PICK n \in Nat : n = h[j].n
        BY <1>1, <4>2
      <4>4. (j - a + 1) + n >= i
        <5>1. j + n >= a - 1 + i
          BY <2>3, <4>3
        <5> QED
          BY <1>1, <5>1
      <4>5. (j - a + 1) + q[j - a + 1].n >= i
        BY <4>2, <4>3, <4>4
      <4> QED
        BY <4>1, <4>5
    <3>2. CASE j < a
      <4>1. ASSUME NEW x \in 1..(i - 1) PROVE q[x].who = "tool"
        <5>1. x \in 1..Len(q) /\ q[x] = h[a - 1 + x] /\ j \in 1..Len(h) /\ h[j].n \in Nat
          BY <1>1, <2>1
        <5>2. (a - 1 + x) - j \in 1..h[j].n
          BY <1>1, <2>3, <3>2, <5>1
        <5>3. h[j + ((a - 1 + x) - j)].who = "tool"
          BY <1>1, <5>1, <5>2 DEF Followed
        <5>4. j + ((a - 1 + x) - j) = a - 1 + x
          OBVIOUS
        <5> QED
          BY <5>1, <5>3, <5>4
      <4> QED
        BY <4>1
    <3> QED
      BY <3>1, <3>2
  <2> QED
    BY <1>1, <2>1, <2>2, <2>3 DEF Preceded
<1> QED
  BY <1>2, <1>3, PairedIs DEF Followed, Preceded

\* So it is behind a note.
LEMMA NotedPaired ==
  ASSUME NEW q \in S!Histories, S!Paired(q), NEW r \in S!Histories, Len(r) = Len(q) + 1,
         r[1] = S!Note, \A i \in 1..Len(q) : r[i + 1] = q[i]
  PROVE  S!Paired(r)
<1>1. /\ Len(q) \in Nat /\ Followed(q) /\ Preceded(q) /\ \A i \in 1..Len(q) : q[i].n \in Nat
      /\ \A i \in 1..Len(r) : i = 1 \/ (i - 1 \in 1..Len(q) /\ r[i] = q[i - 1])
  <2>1. Len(q) \in Nat /\ Followed(q) /\ Preceded(q) /\ \A i \in 1..Len(q) : q[i].n \in Nat
    BY MessagesTyped, PairedIs
  <2>2. ASSUME NEW i \in 1..Len(r), i # 1 PROVE i - 1 \in 1..Len(q) /\ r[i] = q[i - 1]
    <3>1. i - 1 \in 1..Len(q) /\ (i - 1) + 1 = i
      BY <2>1, <2>2
    <3> QED
      BY <3>1
  <2> QED
    BY <2>1, <2>2
<1>2. r[1].n = 0 /\ r[1].who = "note"
  BY DEF S!Note
<1>3. ASSUME NEW i \in 1..Len(r), NEW k \in 1..r[i].n
      PROVE  i + k <= Len(r) /\ r[i + k].who = "tool"
  <2>1. i # 1
    BY <1>2
  <2>2. i - 1 \in 1..Len(q) /\ r[i] = q[i - 1]
    BY <1>1, <2>1
  <2>3. (i - 1) + k <= Len(q) /\ q[(i - 1) + k].who = "tool" /\ k >= 1 /\ k \in Nat
    <3>1. k \in 1..q[i - 1].n /\ q[i - 1].n \in Nat
      BY <1>1, <2>2
    <3>2. (i - 1) + k <= Len(q) /\ q[(i - 1) + k].who = "tool"
      BY <1>1, <2>2, <3>1 DEF Followed
    <3> QED
      BY <3>1, <3>2
  <2>4. (i - 1) + k \in 1..Len(q) /\ ((i - 1) + k) + 1 = i + k
    BY <2>2, <2>3
  <2> QED
    BY <2>3, <2>4
<1>4. ASSUME NEW i \in 1..Len(r), r[i].who = "tool"
      PROVE  \/ \E j \in 1..(i - 1) : j + r[j].n >= i
             \/ \A j \in 1..(i - 1) : r[j].who \in {"tool", "note"}
  <2>1. i # 1
    BY <1>2, <1>4
  <2>2. i - 1 \in 1..Len(q) /\ q[i - 1].who = "tool"
    BY <1>1, <1>4, <2>1
  <2>3. ASSUME NEW j \in 1..((i - 1) - 1), j + q[j].n >= i - 1
        PROVE  \E x \in 1..(i - 1) : x + r[x].n >= i
    <3>1. j \in 1..Len(q) /\ j + 1 \in 1..(i - 1) /\ r[j + 1] = q[j] /\ q[j].n \in Nat
      BY <1>1, <2>2
    <3>2. (j + 1) + q[j].n >= i
      BY <2>3, <3>1
    <3> QED
      BY <3>1, <3>2
  <2>4. ASSUME \A j \in 1..((i - 1) - 1) : q[j].who \in {"tool", "note"}
        PROVE  \A j \in 1..(i - 1) : r[j].who \in {"tool", "note"}
    <3>1. ASSUME NEW j \in 1..(i - 1), j # 1 PROVE j - 1 \in 1..((i - 1) - 1) /\ r[j] = q[j - 1]
      BY <1>1, <3>1
    <3> QED
      BY <1>2, <2>4, <3>1
  <2> QED
    BY <1>1, <2>2, <2>3, <2>4 DEF Preceded
<1> QED
  BY <1>3, <1>4, PairedIs DEF Followed, Preceded

\* What comes before a question or a note is paired.
LEMMA StartPaired ==
  ASSUME NEW h \in S!Histories, S!Paired(h), NEW z \in Nat, z <= Len(h),
         z = Len(h) \/ h[z + 1].who \in {"user", "note"},
         NEW q \in S!Histories, Len(q) = z, \A i \in 1..z : q[i] = h[i]
  PROVE  S!Paired(q)
<1>1. /\ Len(h) \in Nat /\ Followed(h) /\ Preceded(h) /\ \A i \in 1..Len(h) : h[i].n \in Nat
  BY MessagesTyped, PairedIs
<1>2. ASSUME NEW i \in 1..z, NEW k \in 1..q[i].n
      PROVE  i + k <= z /\ q[i + k].who = "tool"
  <2>1. i \in 1..Len(h) /\ q[i] = h[i] /\ k \in Nat /\ k >= 1
    BY <1>1
  <2>2. i + k <= Len(h) /\ h[i + k].who = "tool"
    BY <1>1, <2>1 DEF Followed
  <2>3. i + k <= z
    <3> SUFFICES ASSUME i + k > z PROVE FALSE
      BY <2>1
    <3>1. z # Len(h) /\ h[z + 1].who \in {"user", "note"}
      BY <1>1, <2>1, <2>2
    <3>2. (z + 1) - i \in 1..h[i].n
      BY <1>1, <2>1
    <3>3. h[i + ((z + 1) - i)].who = "tool"
      BY <1>1, <2>1, <3>2 DEF Followed
    <3>4. i + ((z + 1) - i) = z + 1
      OBVIOUS
    <3> QED
      BY <3>1, <3>3, <3>4
  <2>4. i + k \in 1..z
    BY <2>1, <2>3
  <2> QED
    BY <2>2, <2>3, <2>4
<1>3. ASSUME NEW i \in 1..z, q[i].who = "tool"
      PROVE  \/ \E j \in 1..(i - 1) : j + q[j].n >= i
             \/ \A j \in 1..(i - 1) : q[j].who \in {"tool", "note"}
  <2>1. i \in 1..Len(h) /\ h[i].who = "tool" /\ \A j \in 1..(i - 1) : q[j] = h[j]
    BY <1>1, <1>3
  <2> QED
    BY <1>1, <2>1 DEF Preceded
<1> QED
  BY <1>2, <1>3, PairedIs DEF Followed, Preceded

\* A message without calls, or calls with their results, may follow.
LEMMA MorePaired ==
  ASSUME NEW h \in S!Histories, S!Paired(h), NEW n \in Nat, NEW q \in S!Histories,
         Len(q) = Len(h) + 1 + n, \A i \in 1..Len(h) : q[i] = h[i],
         q[Len(h) + 1].n = n, q[Len(h) + 1].who # "tool",
         \A k \in 1..n : q[Len(h) + 1 + k] = S!Result
  PROVE  S!Paired(q)
<1> DEFINE z == Len(h) + 1
<1>1. /\ Len(h) \in Nat /\ Followed(h) /\ Preceded(h) /\ \A i \in 1..Len(h) : h[i].n \in Nat
  BY MessagesTyped, PairedIs
<1>2. \A k \in 1..n : q[z + k].who = "tool" /\ q[z + k].n = 0
  <2>1. S!Result.who = "tool" /\ S!Result.n = 0
    BY DEF S!Result
  <2> QED
    BY <2>1
<1>3. \A i \in 1..Len(q) : i \in 1..Len(h) \/ i = z \/ (i - z \in 1..n /\ z + (i - z) = i)
  BY <1>1
<1> HIDE DEF z
<1>4. z = Len(h) + 1 /\ q[z].n = n /\ q[z].who # "tool" /\ Len(q) = z + n /\ z \in Nat
  BY <1>1 DEF z
<1>5. ASSUME NEW i \in 1..Len(q), NEW k \in 1..q[i].n
      PROVE  i + k <= Len(q) /\ q[i + k].who = "tool"
  <2>1. CASE i \in 1..Len(h)
    <3>1. q[i] = h[i] /\ h[i].n \in Nat
      BY <1>1, <2>1
    <3>2. i + k <= Len(h) /\ h[i + k].who = "tool" /\ k >= 1 /\ k \in Nat
      BY <1>1, <2>1, <3>1 DEF Followed
    <3>3. i + k \in 1..Len(h)
      BY <2>1, <3>2
    <3> QED
      BY <1>1, <1>4, <3>2, <3>3
  <2>2. CASE i = z
    <3>1. k \in 1..n /\ z + k <= z + n
      BY <1>4, <2>2
    <3> QED
      BY <1>2, <1>4, <2>2, <3>1
  <2>3. CASE i - z \in 1..n /\ z + (i - z) = i
    <3>1. q[i].n = 0
      BY <1>2, <2>3
    <3> QED
      BY <3>1
  <2> QED
    BY <1>3, <2>1, <2>2, <2>3
<1>6. ASSUME NEW i \in 1..Len(q), q[i].who = "tool"
      PROVE  \/ \E j \in 1..(i - 1) : j + q[j].n >= i
             \/ \A j \in 1..(i - 1) : q[j].who \in {"tool", "note"}
  <2>1. CASE i \in 1..Len(h)
    <3>1. h[i].who = "tool" /\ \A j \in 1..(i - 1) : q[j] = h[j]
      BY <1>1, <1>6, <2>1
    <3> QED
      BY <1>1, <2>1, <3>1 DEF Preceded
  <2>2. CASE i = z
    BY <1>4, <1>6, <2>2
  <2>3. CASE i - z \in 1..n
    <3>1. z \in 1..(i - 1) /\ z + q[z].n >= i
      BY <1>4, <2>3
    <3> QED
      BY <3>1
  <2> QED
    BY <1>3, <2>1, <2>2, <2>3
<1> QED
  BY <1>5, <1>6, PairedIs DEF Followed, Preceded

\* The messages that are made are messages.
LEMMA MessagesMade ==
  /\ S!User \in S!Messages /\ S!Note \in S!Messages /\ S!Text \in S!Messages
  /\ S!Result \in S!Messages /\ \A n \in Calls : S!Asks(n) \in S!Messages
  /\ \A m \in {S!User, S!Note, S!Text} : m.n = 0 /\ m.who # "tool"
  /\ \A n \in Calls : S!Asks(n).n = n /\ S!Asks(n).who = "assistant"
<1>1. /\ S!User \in S!Messages /\ S!Note \in S!Messages /\ S!Text \in S!Messages
      /\ S!Result \in S!Messages
  BY DEF S!User, S!Note, S!Text, S!Result, S!Messages
<1>2. \A n \in Calls : S!Asks(n) \in S!Messages
  <2> SUFFICES ASSUME NEW n \in Calls PROVE S!Asks(n) \in S!Messages
    OBVIOUS
  <2> DEFINE numbers == Calls \cup {0}
  <2>1. n \in numbers
    OBVIOUS
  <2> HIDE DEF numbers
  <2>2. [who |-> "assistant", n |-> n] \in [who : {"assistant"}, n : numbers]
    BY <2>1
  <2> QED
    BY <2>2 DEF S!Asks, S!Messages, numbers
<1>3. \A m \in {S!User, S!Note, S!Text} : m.n = 0 /\ m.who # "tool"
  BY DEF S!User, S!Note, S!Text
<1>4. \A n \in Calls : S!Asks(n).n = n /\ S!Asks(n).who = "assistant"
  BY DEF S!Asks
<1> QED
  BY <1>1, <1>2, <1>3, <1>4

\* A conversation without messages.
LEMMA NothingPaired == << >> \in S!Histories /\ S!Paired(<< >>)
<1>1. << >> \in S!Histories /\ DOMAIN << >> = {}
  BY DEF S!Histories
<1> QED
  BY <1>1 DEF S!Paired

\* A question or an answer without calls joins the conversation.
LEMMA OneMorePaired ==
  ASSUME NEW h \in S!Histories, S!Paired(h), NEW m \in S!Messages, m.n = 0, m.who # "tool"
  PROVE  Append(h, m) \in S!Histories /\ S!Paired(Append(h, m))
<1> DEFINE q == Append(h, m)
<1>1. /\ Len(h) \in Nat /\ q \in S!Histories /\ Len(q) = Len(h) + 1 /\ q[Len(h) + 1] = m
      /\ \A i \in 1..Len(h) : q[i] = h[i]
  BY DEF S!Histories
<1> HIDE DEF q
<1>2. Len(q) = Len(h) + 1 + 0 /\ \A k \in 1..0 : q[Len(h) + 1 + k] = S!Result
  BY <1>1
<1>3. S!Paired(q)
  BY <1>1, <1>2, MorePaired
<1> QED
  BY <1>1, <1>3 DEF q

\* A sequence behind one element.
LEMMA OneBefore ==
  ASSUME NEW Items, NEW m \in Items, NEW q \in Seq(Items)
  PROVE  /\ <<m>> \o q \in Seq(Items) /\ Len(<<m>> \o q) = Len(q) + 1 /\ (<<m>> \o q)[1] = m
         /\ \A i \in 1..Len(q) : (<<m>> \o q)[i + 1] = q[i]
<1> DEFINE one == <<m>>
<1>1. one \in Seq(Items) /\ Len(one) = 1 /\ one[1] = m /\ Len(q) \in Nat
  OBVIOUS
<1> HIDE DEF one
<1>2. /\ one \o q \in Seq(Items) /\ Len(one \o q) = Len(one) + Len(q)
      /\ \A i \in 1..(Len(one) + Len(q)) :
            (one \o q)[i] = IF i <= Len(one) THEN one[i] ELSE q[i - Len(one)]
  BY <1>1, ConcatProperties, Zenon
<1>3. (one \o q)[1] = m
  BY <1>1, <1>2
<1>4. ASSUME NEW i \in 1..Len(q) PROVE (one \o q)[1 + i] = q[i]
  <2>1. 1 + i \in 1..(Len(one) + Len(q)) /\ (1 + i) - Len(one) = i /\ ~ (1 + i <= Len(one))
    BY <1>1
  <2> QED
    BY <1>2, <2>1
<1>5. \A i \in 1..Len(q) : i + 1 = 1 + i
  OBVIOUS
<1> QED
  BY <1>1, <1>2, <1>3, <1>4, <1>5 DEF one

\* The end of a conversation, and behind a note.
LEMMA EndIsPaired ==
  ASSUME NEW h \in S!Histories, S!Paired(h), NEW a \in Nat, a >= 1, a <= Len(h) + 1
  PROVE  /\ SubSeq(h, a, Len(h)) \in S!Histories /\ S!Paired(SubSeq(h, a, Len(h)))
         /\ <<S!Note>> \o SubSeq(h, a, Len(h)) \in S!Histories
         /\ S!Paired(<<S!Note>> \o SubSeq(h, a, Len(h)))
<1> DEFINE q == SubSeq(h, a, Len(h))
           r == <<S!Note>> \o q
<1>1. Len(h) \in Nat /\ \A i \in 1..Len(h) : h[i] \in S!Messages
  BY MessagesTyped
<1>2. /\ q \in S!Histories /\ Len(q) = Len(h) - a + 1
      /\ \A i \in 1..Len(q) : q[i] = h[a - 1 + i]
  <2>1. \A i \in a..Len(h) : h[i] \in S!Messages
    BY <1>1
  <2>2. q \in Seq(S!Messages) /\ Len(q) = Len(h) - a + 1
    BY <1>1, <2>1 DEF S!Histories
  <2>3. ASSUME NEW i \in 1..Len(q) PROVE q[i] = h[a - 1 + i]
    <3>1. q[i] = h[a + i - 1]
      BY <1>1, <2>2 DEF S!Histories
    <3>2. a + i - 1 = a - 1 + i
      BY <2>2
    <3> QED
      BY <3>1, <3>2
  <2> QED
    BY <2>2, <2>3 DEF S!Histories
<1>3. S!Paired(q)
  BY <1>2, EndPaired
<1> HIDE DEF q
<1>4. /\ r \in S!Histories /\ Len(r) = Len(q) + 1 /\ r[1] = S!Note
      /\ \A i \in 1..Len(q) : r[i + 1] = q[i]
  <2>1. q \in Seq(S!Messages) /\ S!Note \in S!Messages
    BY <1>2, MessagesMade DEF S!Histories
  <2> DEFINE m == S!Note
  <2> HIDE DEF m
  <2>2. m \in S!Messages
    BY <2>1 DEF m
  <2>3. /\ <<m>> \o q \in Seq(S!Messages) /\ Len(<<m>> \o q) = Len(q) + 1 /\ (<<m>> \o q)[1] = m
        /\ \A i \in 1..Len(q) : (<<m>> \o q)[i + 1] = q[i]
    <3> DEFINE items == S!Messages
    <3>1. q \in Seq(items) /\ m \in items
      BY <2>1, <2>2
    <3> HIDE DEF items
    <3>2. /\ <<m>> \o q \in Seq(items) /\ Len(<<m>> \o q) = Len(q) + 1 /\ (<<m>> \o q)[1] = m
          /\ \A i \in 1..Len(q) : (<<m>> \o q)[i + 1] = q[i]
      BY <3>1, OneBefore
    <3> QED
      BY <3>2 DEF items
  <2> QED
    BY <2>3 DEF m, S!Histories
<1> HIDE DEF r
<1>5. S!Paired(r)
  BY <1>2, <1>3, <1>4, NotedPaired
<1> QED
  BY <1>2, <1>3, <1>4, <1>5 DEF q, r

\* The beginning of a conversation, up to a question or a note.
LEMMA StartIsPaired ==
  ASSUME NEW h \in S!Histories, S!Paired(h), NEW i \in S!UserAt(h)
  PROVE  /\ SubSeq(h, 1, i - 1) \in S!Histories /\ S!Paired(SubSeq(h, 1, i - 1))
         /\ i \in 1..Len(h) /\ h[i] \in S!Messages /\ h[i].n = 0 /\ h[i].who # "tool"
<1> DEFINE q == SubSeq(h, 1, i - 1)
<1>1. /\ Len(h) \in Nat /\ i \in 1..Len(h) /\ \A k \in 1..Len(h) : h[k] \in S!Messages
      /\ h[i].who \in {"user", "note"} /\ h[i].n = 0
  BY MessagesTyped DEF S!UserAt
<1>2. q \in S!Histories /\ Len(q) = i - 1 /\ \A k \in 1..(i - 1) : q[k] = h[k]
  <2>1. \A k \in 1..(i - 1) : h[k] \in S!Messages
    BY <1>1
  <2> QED
    BY <1>1, <2>1 DEF S!Histories
<1> HIDE DEF q
<1>3. i - 1 \in Nat /\ i - 1 <= Len(h) /\ (i - 1) + 1 = i
  BY <1>1
<1>4. S!Paired(q)
  BY <1>1, <1>2, <1>3, StartPaired
<1> QED
  BY <1>1, <1>2, <1>4 DEF q

\* An answer with calls and their results joins the conversation, or what is left of it.
LEMMA CallsPaired ==
  ASSUME NEW h \in S!Histories, S!Paired(h), NEW n \in Calls,
         NEW t \in {Append(h, S!Asks(n))} \cup S!Compacted(Append(h, S!Asks(n)))
  PROVE  LET q == t \o [i \in 1..n |-> S!Result]
         IN  q \in S!Histories /\ S!Paired(q)
<1> DEFINE opened == Append(h, S!Asks(n))
           results == [i \in 1..n |-> S!Result]
           full == opened \o results
           kept == IF KeepTail < Len(opened) THEN KeepTail ELSE Len(opened)
           a == Len(opened) - kept + 1
           end == SubSeq(full, a, Len(full))
<1>1. n \in Nat /\ Len(h) \in Nat /\ S!Asks(n) \in S!Messages /\ S!Result \in S!Messages
  BY SessionsConstants, MessagesMade, MessagesTyped
<1>2. /\ opened \in S!Histories /\ Len(opened) = Len(h) + 1 /\ opened[Len(h) + 1] = S!Asks(n)
      /\ \A i \in 1..Len(h) : opened[i] = h[i]
  BY <1>1 DEF S!Histories
<1>3. results \in S!Histories /\ Len(results) = n /\ \A i \in 1..n : results[i] = S!Result
  BY <1>1 DEF S!Histories
<1> HIDE DEF opened, results
<1>4. /\ full \in S!Histories /\ Len(full) = Len(h) + 1 + n
      /\ \A i \in 1..Len(opened) : full[i] = opened[i]
      /\ \A i \in 1..n : full[Len(opened) + i] = results[i]
  BY <1>1, <1>2, <1>3 DEF S!Histories
<1>5. S!Paired(full)
  <2>1. \A i \in 1..Len(h) : full[i] = h[i]
    BY <1>1, <1>2, <1>4
  <2>2. full[Len(h) + 1] = S!Asks(n)
    BY <1>1, <1>2, <1>4
  <2>3. \A k \in 1..n : full[Len(h) + 1 + k] = S!Result
    BY <1>2, <1>3, <1>4
  <2>4. S!Asks(n).n = n /\ S!Asks(n).who # "tool"
    BY MessagesMade
  <2> HIDE DEF full
  <2> QED
    BY <1>1, <1>4, <2>1, <2>2, <2>3, <2>4, MorePaired
<1>6. kept \in Nat /\ kept <= Len(opened) /\ a \in Nat /\ a >= 1 /\ a <= Len(full) + 1 /\ a <= Len(opened) + 1
  <2>1. KeepTail \in Nat /\ Len(opened) \in Nat /\ Len(full) = Len(opened) + n
    BY <1>1, <1>2, <1>4, SessionsConstants
  <2> HIDE DEF full
  <2>2. kept \in Nat /\ kept <= Len(opened)
    BY <2>1
  <2> HIDE DEF kept
  <2> QED
    BY <1>1, <2>1, <2>2
<1>7. /\ end \in S!Histories /\ S!Paired(end)
      /\ <<S!Note>> \o end \in S!Histories /\ S!Paired(<<S!Note>> \o end)
  <2> HIDE DEF full, a
  <2> QED
    BY <1>4, <1>5, <1>6, EndIsPaired
<1>8. t = opened \/ t = S!Newest(opened, kept) \/ t = <<S!Note>> \o S!Newest(opened, kept)
  BY DEF S!Compacted, opened
<1>9. S!Newest(opened, kept) \o results = end
  <2> DEFINE tail == S!Newest(opened, kept)
             both == tail \o results
  <2>1. tail \in S!Histories /\ Len(tail) = kept /\ \A i \in 1..kept : tail[i] = opened[a - 1 + i]
    <3>1. Len(opened) \in Nat /\ \A i \in 1..Len(opened) : opened[i] \in S!Messages
      BY <1>2, MessagesTyped
    <3> HIDE DEF kept
    <3>2. \A i \in a..Len(opened) : opened[i] \in S!Messages
      BY <1>6, <3>1
    <3>3. tail = SubSeq(opened, a, Len(opened))
      BY DEF S!Newest
    <3>4. tail \in Seq(S!Messages) /\ Len(tail) = kept
      BY <1>2, <1>6, <3>1, <3>2, <3>3 DEF S!Histories
    <3>5. ASSUME NEW i \in 1..kept PROVE tail[i] = opened[a - 1 + i]
      <4>1. tail[i] = opened[a + i - 1]
        BY <1>2, <1>6, <3>1, <3>3, <3>4 DEF S!Histories
      <4>2. a + i - 1 = a - 1 + i
        BY <1>6
      <4> QED
        BY <4>1, <4>2
    <3> QED
      BY <3>4, <3>5 DEF S!Histories
  <2> HIDE DEF tail, kept
  <2>2. /\ both \in S!Histories /\ Len(both) = kept + n
        /\ \A i \in 1..kept : both[i] = tail[i]
        /\ \A i \in 1..n : both[kept + i] = results[i]
    <3>1. tail \in Seq(S!Messages) /\ Len(tail) = kept
      BY <2>1 DEF S!Histories
    <3>2. results \in Seq(S!Messages) /\ Len(results) = n
      BY <1>3 DEF S!Histories
    <3>3. both \in Seq(S!Messages) /\ Len(both) = kept + n
      BY <3>1, <3>2
    <3>4. ASSUME NEW i \in 1..kept PROVE both[i] = tail[i]
      BY <1>6, <3>1, <3>2
    <3>5. ASSUME NEW i \in 1..n PROVE both[kept + i] = results[i]
      BY <1>1, <1>6, <3>1, <3>2
    <3> QED
      BY <3>3, <3>4, <3>5 DEF S!Histories
  <2> HIDE DEF both
  <2>3. /\ end \in Seq(S!Messages) /\ Len(end) = Len(full) - a + 1
        /\ \A i \in 1..Len(end) : end[i] = full[a - 1 + i]
    <3>1. Len(full) \in Nat /\ \A i \in 1..Len(full) : full[i] \in S!Messages
      BY <1>4, MessagesTyped
    <3> HIDE DEF full, a
    <3>2. Len(end) = Len(full) - a + 1
      BY <1>4, <1>6, <3>1 DEF S!Histories
    <3>3. ASSUME NEW i \in 1..Len(end) PROVE end[i] = full[a - 1 + i]
      <4>1. end[i] = full[a + i - 1]
        BY <1>4, <1>6, <3>1, <3>2 DEF S!Histories
      <4>2. a + i - 1 = a - 1 + i
        BY <1>6, <3>1, <3>2
      <4> QED
        BY <4>1, <4>2
    <3> QED
      BY <1>7, <3>2, <3>3 DEF S!Histories
  <2>4. Len(end) = kept + n
    BY <1>1, <1>2, <1>4, <1>6, <2>3
  <2> HIDE DEF end
  <2>5. ASSUME NEW i \in 1..(kept + n) PROVE both[i] = end[i]
    <3>1. CASE i \in 1..kept
      <4>1. a - 1 + i \in 1..Len(opened) /\ a - 1 + kept = Len(opened)
        BY <1>1, <1>2, <1>6, <3>1
      <4>2. end[i] = full[a - 1 + i] /\ full[a - 1 + i] = opened[a - 1 + i]
        BY <1>4, <2>3, <2>4, <4>1
      <4> QED
        BY <2>1, <2>2, <3>1, <4>2
    <3>2. CASE i \notin 1..kept
      <4>1. i - kept \in 1..n /\ kept + (i - kept) = i /\ a - 1 + i = Len(opened) + (i - kept)
        BY <1>1, <1>2, <1>6, <3>2
      <4>2. both[i] = results[i - kept]
        BY <2>2, <4>1
      <4>3. end[i] = full[Len(opened) + (i - kept)]
        BY <2>3, <2>4, <4>1
      <4> QED
        BY <1>4, <4>1, <4>2, <4>3
    <3> QED
      BY <3>1, <3>2
  <2>6. both = end
    BY <2>2, <2>3, <2>4, <2>5 DEF S!Histories
  <2> QED
    BY <2>6 DEF both, tail
<1>10. (<<S!Note>> \o S!Newest(opened, kept)) \o results = <<S!Note>> \o (S!Newest(opened, kept) \o results)
  OBVIOUS
<1> HIDE DEF end, kept, a, full
<1>11. t \o results \in S!Histories /\ S!Paired(t \o results)
  <2>1. CASE t = opened
    BY <1>4, <1>5, <2>1 DEF full
  <2>2. CASE t = S!Newest(opened, kept)
    BY <1>7, <1>9, <2>2
  <2>3. CASE t = <<S!Note>> \o S!Newest(opened, kept)
    BY <1>7, <1>9, <1>10, <2>3
  <2> QED
    BY <1>8, <2>1, <2>2, <2>3
<1> QED
  BY <1>11 DEF results

\* The conversations there can be: each call with its results, each result behind its call.
Conversations == { h \in S!Histories : S!Paired(h) }
Stored == Conversations \cup {NoFile}

\* A conversation begins empty and grows by messages without calls.
LEMMA ConversationsGrow ==
  /\ << >> \in Conversations
  /\ \A h \in Conversations :
        Append(h, S!User) \in Conversations /\ Append(h, S!Text) \in Conversations
<1>1. << >> \in Conversations
  BY NothingPaired DEF Conversations
<1>2. ASSUME NEW h \in Conversations, NEW m \in {S!User, S!Text}
      PROVE  Append(h, m) \in Conversations
  <2>1. m \in S!Messages /\ m.n = 0 /\ m.who # "tool"
    BY MessagesMade
  <2>2. h \in S!Histories /\ S!Paired(h)
    BY DEF Conversations
  <2>3. Append(h, m) \in S!Histories /\ S!Paired(Append(h, m))
    BY <2>1, <2>2, OneMorePaired
  <2> QED
    BY <2>3 DEF Conversations
<1> QED
  BY <1>1, <1>2

\* The place of a question is one, if there are that many.
LEMMA PlaceOfQuestion ==
  ASSUME NEW h, NEW k
  PROVE  S!FromEnd(h, k) = 0 \/ S!FromEnd(h, k) \in S!UserAt(h)
<1> DEFINE places == { i \in S!UserAt(h) : S!Cardinality({ j \in S!UserAt(h) : j >= i }) = k }
<1>1. S!FromEnd(h, k) = IF places = {} THEN 0 ELSE CHOOSE i \in places : TRUE
  BY DEF S!FromEnd
<1>2. \A i \in places : i \in S!UserAt(h)
  OBVIOUS
<1> HIDE DEF places
<1>3. places # {} => (CHOOSE i \in places : TRUE) \in places
  OBVIOUS
<1> QED
  BY <1>1, <1>2, <1>3

\* What is cut off before a question, or kept from some place on.
LEMMA ConversationsCut ==
  ASSUME NEW h \in Conversations
  PROVE  /\ \A i \in S!UserAt(h) :
               /\ SubSeq(h, 1, i - 1) \in Conversations
               /\ Append(SubSeq(h, 1, i - 1), h[i]) \in Conversations
         /\ \A a \in 1..(Len(h) + 1) : <<S!Note>> \o SubSeq(h, a, Len(h)) \in Conversations
         /\ S!UserAt(h) \subseteq 1..Len(h) /\ Len(h) \in Nat
<1>1. h \in S!Histories /\ S!Paired(h) /\ Len(h) \in Nat
  BY MessagesTyped DEF Conversations
<1>2. ASSUME NEW i \in S!UserAt(h)
      PROVE  /\ SubSeq(h, 1, i - 1) \in Conversations
             /\ Append(SubSeq(h, 1, i - 1), h[i]) \in Conversations
             /\ i \in 1..Len(h)
  <2>1. /\ SubSeq(h, 1, i - 1) \in S!Histories /\ S!Paired(SubSeq(h, 1, i - 1))
        /\ i \in 1..Len(h) /\ h[i] \in S!Messages /\ h[i].n = 0 /\ h[i].who # "tool"
    BY <1>1, StartIsPaired
  <2> DEFINE q == SubSeq(h, 1, i - 1)
             m == h[i]
  <2>2. q \in S!Histories /\ S!Paired(q) /\ m \in S!Messages /\ m.n = 0 /\ m.who # "tool"
    BY <2>1
  <2> HIDE DEF q, m
  <2>3. Append(q, m) \in S!Histories /\ S!Paired(Append(q, m))
    BY <2>2, OneMorePaired
  <2> QED
    BY <2>1, <2>3 DEF q, m, Conversations
<1>3. ASSUME NEW a \in 1..(Len(h) + 1)
      PROVE  <<S!Note>> \o SubSeq(h, a, Len(h)) \in Conversations
  <2>1. a \in Nat /\ a >= 1 /\ a <= Len(h) + 1
    BY <1>1
  <2> QED
    BY <1>1, <2>1, EndIsPaired DEF Conversations
<1> QED
  BY <1>1, <1>2, <1>3

\* An answer with its calls and their results.
LEMMA ConversationsCalled ==
  ASSUME NEW h \in Conversations, NEW n \in Calls,
         NEW t \in {Append(h, S!Asks(n))} \cup S!Compacted(Append(h, S!Asks(n)))
  PROVE  t \o [i \in 1..n |-> S!Result] \in Conversations
<1>1. h \in S!Histories /\ S!Paired(h)
  BY DEF Conversations
<1> QED
  BY <1>1, CallsPaired DEF Conversations

\* What a run counts, and what the files hold: a tab that was left by a switch is saved.
RunTyped ==
    /\ run \in {"none", "once", "loop"} /\ answers \in 0..MaxAnswers /\ runs \in 0..MaxRuns
    /\ issued \in 0..MaxCommands
FilesTyped ==
    /\ dir \in BOOLEAN /\ saved \in [S!Slots -> Stored] /\ left \in [Tabs -> Stored]
    /\ \A t \in Tabs : left[t] # NoFile => saved[<<"tab", t>>] = left[t]
SessInv == hist \in Conversations /\ tab \in Tabs \cup {Main} /\ FilesTyped /\ RunTyped

\* The files of the tabs, of the saved conversations and of the export are different ones.
LEMMA SlotsMade ==
  /\ \A t \in Tabs : <<"tab", t>> \in S!Slots /\ <<"tab", t>> # Outside
  /\ \A t, u \in Tabs : <<"tab", t>> = <<"tab", u>> => t = u
  /\ \A s \in Saves : <<"saved", s>> \in S!Slots
  /\ \A t \in Tabs, s \in Saves : <<"tab", t>> # <<"saved", s>>
  /\ Outside \in S!Slots
BY SessionsConstants DEF S!Slots

\* A file that is written holds what was written; the others stay.
LEMMA FileWritten ==
  ASSUME saved \in [S!Slots -> Stored], NEW slot \in S!Slots, NEW h \in Conversations
  PROVE  /\ [saved EXCEPT ![slot] = h] \in [S!Slots -> Stored]
         /\ \A s \in S!Slots \ {slot} : [saved EXCEPT ![slot] = h][s] = saved[s]
         /\ [saved EXCEPT ![slot] = h][slot] = h
BY DEF Stored

\* A file that is read is a conversation, or what was in memory.
LEMMA FileLoaded ==
  ASSUME saved \in [S!Slots -> Stored], NEW slot \in S!Slots, NEW h \in Conversations
  PROVE  S!Loaded(slot, h) \in Conversations
BY DEF S!Loaded, Stored

\* A save or an export changes no file of a tab.
LEMMA NotATab ==
  ASSUME FilesTyped, NEW slot \in S!Slots, NEW h \in Conversations,
         \A t \in Tabs : <<"tab", t>> # slot,
         saved' \in {saved, [saved EXCEPT ![slot] = h]}, dir' \in BOOLEAN, left' = left
  PROVE  FilesTyped'
<1>1. /\ saved \in [S!Slots -> Stored]
      /\ \A t \in Tabs : left[t] # NoFile => saved[<<"tab", t>>] = left[t]
  BY DEF FilesTyped
<1>2. saved' \in [S!Slots -> Stored] /\ \A s \in S!Slots \ {slot} : saved'[s] = saved[s]
  BY <1>1, FileWritten
<1>3. \A t \in Tabs : saved'[<<"tab", t>>] = saved[<<"tab", t>>]
  BY <1>2, SlotsMade
<1> QED
  BY <1>1, <1>2, <1>3 DEF FilesTyped

\* A command counts as one, and no run goes on.
LEMMA CommandCounted ==
  ASSUME RunTyped, S!Command, UNCHANGED <<run, answers, runs>>
  PROVE  RunTyped'
BY SessionsConstants DEF RunTyped, S!Command

\* The last conversation is there, or there is none.
LEMMA SessionsBegin ==
  ASSUME S!Init
  PROVE  SessInv
<1>1. <<S!User, S!Text>> \in Conversations
  <2> DEFINE a == S!User
             b == S!Text
             h == <<a, b>>
  <2>1. a \in S!Messages /\ b \in S!Messages
    BY MessagesMade
  <2>2. a.n = 0 /\ b.n = 0 /\ a.who # "tool" /\ b.who # "tool"
    BY MessagesMade
  <2> HIDE DEF a, b
  <2>3. h \in S!Histories /\ DOMAIN h = 1..2 /\ h[1] = a /\ h[2] = b
    BY <2>1 DEF S!Histories
  <2> HIDE DEF h
  <2>4. \A i \in DOMAIN h : h[i].n = 0 /\ h[i].who # "tool"
    BY <2>2, <2>3
  <2>5. S!Paired(h)
    BY <2>4 DEF S!Paired
  <2> QED
    BY <2>3, <2>5 DEF Conversations, h, a, b
<1> DEFINE slot == <<"saved", Last>>
           first == <<S!User, S!Text>>
<1>2. slot \in S!Slots
  BY SessionsConstants, SlotsMade
<1>3. /\ saved = [s \in S!Slots |-> IF s = slot /\ dir THEN first ELSE NoFile]
      /\ hist = S!Loaded(slot, << >>) /\ tab = Main /\ dir \in BOOLEAN
      /\ left = [t \in Tabs |-> NoFile]
      /\ run = "none" /\ answers = 0 /\ runs = 0 /\ issued = 0
  BY DEF S!Init
<1>4. saved \in [S!Slots -> Stored]
  <2> HIDE DEF slot, first
  <2>1. first \in Stored /\ NoFile \in Stored
    BY <1>1 DEF Stored, first
  <2> QED
    BY <1>3, <2>1
<1>5. hist \in Conversations
  <2> HIDE DEF slot
  <2> QED
    BY <1>2, <1>3, <1>4, ConversationsGrow, FileLoaded
<1>6. left \in [Tabs -> Stored] /\ \A t \in Tabs : left[t] = NoFile
  BY <1>3 DEF Stored
<1>7. RunTyped
  BY <1>3, SessionsConstants DEF RunTyped
<1> QED
  BY <1>3, <1>4, <1>5, <1>6, <1>7 DEF SessInv, FilesTyped

\* `sessions new` and `sessions switch`.
LEMMA TabStep ==
  ASSUME SessInv, S!NewTab \/ S!Switch
  PROVE  SessInv'
<1>1. /\ saved \in [S!Slots -> Stored] /\ left \in [Tabs -> Stored] /\ RunTyped
      /\ hist \in Conversations /\ tab \in Tabs \cup {Main} /\ dir \in BOOLEAN
      /\ \A t \in Tabs : left[t] # NoFile => saved[<<"tab", t>>] = left[t]
  BY DEF SessInv, FilesTyped
<1>2. NoFile \in Stored /\ \A h \in Conversations : h \in Stored
  BY DEF Stored
<1>3. CASE S!NewTab
  <2>1. PICK t \in Tabs :
           /\ S!Command
           /\ saved' = S!Written(<<"tab", t>>, <<>>, dir)
           /\ tab' = t
           /\ left' = [left EXCEPT ![t] = NoFile]
           /\ UNCHANGED <<hist, dir, run, answers, runs>>
    BY <1>3, Zenon DEF S!NewTab
  <2> DEFINE slot == <<"tab", t>>
  <2>2. slot \in S!Slots /\ \A u \in Tabs : u # t => <<"tab", u>> \in S!Slots \ {slot}
    BY SlotsMade
  <2>3. saved' \in [S!Slots -> Stored] /\ \A s \in S!Slots \ {slot} : saved'[s] = saved[s]
    <3> DEFINE h == << >>
    <3>1. saved' \in {saved, [saved EXCEPT ![slot] = h]} /\ h \in Conversations
      BY <2>1, ConversationsGrow DEF S!Written
    <3> HIDE DEF slot, h
    <3> QED
      BY <1>1, <2>2, <3>1, FileWritten
  <2> HIDE DEF slot
  <2>4. /\ left' \in [Tabs -> Stored] /\ left'[t] = NoFile
        /\ \A u \in Tabs : u # t => left'[u] = left[u]
    BY <1>1, <1>2, <2>1
  <2>5. ASSUME NEW u \in Tabs, left'[u] # NoFile PROVE saved'[<<"tab", u>>] = left'[u]
    <3>1. u # t /\ left'[u] = left[u]
      BY <2>4, <2>5
    <3>2. saved'[<<"tab", u>>] = saved[<<"tab", u>>]
      BY <2>2, <2>3, <3>1
    <3> QED
      BY <1>1, <2>5, <3>1, <3>2
  <2>6. RunTyped'
    BY <1>1, <2>1, CommandCounted
  <2>7. hist' \in Conversations /\ tab' \in Tabs \cup {Main} /\ dir' \in BOOLEAN
    BY <1>1, <2>1
  <2> QED
    BY <2>3, <2>4, <2>5, <2>6, <2>7 DEF SessInv, FilesTyped
<1>4. CASE S!Switch
  <2>1. PICK t \in Tabs :
           /\ S!Command
           /\ saved' = IF tab = Main THEN saved ELSE S!Written(<<"tab", tab>>, hist, dir)
           /\ hist' = IF saved'[<<"tab", t>>] = NoFile THEN <<>> ELSE saved'[<<"tab", t>>]
           /\ tab' = t
           /\ left' = IF tab = Main \/ ~dir THEN left ELSE [left EXCEPT ![tab] = hist]
           /\ UNCHANGED <<dir, run, answers, runs>>
    BY <1>4, Zenon DEF S!Switch
  <2>2. /\ saved' \in [S!Slots -> Stored] /\ left' \in [Tabs -> Stored]
        /\ \A u \in Tabs : left'[u] # NoFile => saved'[<<"tab", u>>] = left'[u]
    <3>1. CASE tab = Main \/ ~ dir
      <4>1. left' = left
        BY <2>1, <3>1
      <4>2. saved' = saved
        <5>1. CASE tab = Main
          BY <2>1, <5>1
        <5>2. CASE tab # Main
          <6> DEFINE slot == <<"tab", tab>>
          <6>1. slot \in S!Slots /\ slot # Outside /\ ~ dir
            BY <1>1, <3>1, <5>2, SlotsMade
          <6> QED
            BY <2>1, <5>2, <6>1 DEF S!Written
        <5> QED
          BY <5>1, <5>2
      <4> QED
        BY <1>1, <4>1, <4>2
    <3>2. CASE tab # Main /\ dir
      <4> DEFINE slot == <<"tab", tab>>
      <4>1. /\ slot \in S!Slots /\ tab \in Tabs
            /\ \A u \in Tabs : u # tab => <<"tab", u>> \in S!Slots \ {slot}
        BY <1>1, <3>2, SlotsMade
      <4>2. saved' = [saved EXCEPT ![slot] = hist] /\ left' = [left EXCEPT ![tab] = hist]
        BY <2>1, <3>2 DEF S!Written
      <4> HIDE DEF slot
      <4>3. /\ saved' \in [S!Slots -> Stored] /\ saved'[slot] = hist
            /\ \A s \in S!Slots \ {slot} : saved'[s] = saved[s]
        BY <1>1, <4>1, <4>2, FileWritten
      <4>4. /\ left' \in [Tabs -> Stored] /\ left'[tab] = hist
            /\ \A u \in Tabs : u # tab => left'[u] = left[u]
        BY <1>1, <1>2, <4>1, <4>2
      <4>5. ASSUME NEW u \in Tabs, left'[u] # NoFile PROVE saved'[<<"tab", u>>] = left'[u]
        <5>1. CASE u = tab
          BY <4>3, <4>4, <5>1 DEF slot
        <5>2. CASE u # tab
          <6>1. left'[u] = left[u] /\ saved'[<<"tab", u>>] = saved[<<"tab", u>>]
            BY <4>1, <4>3, <4>4, <5>2
          <6> QED
            BY <1>1, <4>5, <6>1
        <5> QED
          BY <5>1, <5>2
      <4> QED
        BY <4>3, <4>4, <4>5
    <3> QED
      BY <3>1, <3>2
  <2>3. hist' \in Conversations
    <3>1. <<"tab", t>> \in S!Slots
      BY SlotsMade
    <3>2. saved'[<<"tab", t>>] \in Stored
      BY <2>2, <3>1
    <3> QED
      BY <2>1, <3>2, ConversationsGrow DEF Stored
  <2>4. RunTyped'
    BY <1>1, <2>1, CommandCounted
  <2>5. tab' \in Tabs \cup {Main} /\ dir' \in BOOLEAN
    BY <1>1, <2>1
  <2> QED
    BY <2>2, <2>3, <2>4, <2>5 DEF SessInv, FilesTyped
<1> QED
  BY <1>3, <1>4

\* `session save`, `load`, `export` and `import`, and a start of the interface.
LEMMA FileStep ==
  ASSUME SessInv, S!SaveAs \/ S!LoadFrom \/ S!Export \/ S!Import \/ S!Restart
  PROVE  SessInv'
<1>1. /\ saved \in [S!Slots -> Stored] /\ RunTyped /\ FilesTyped
      /\ hist \in Conversations /\ tab \in Tabs \cup {Main} /\ dir \in BOOLEAN
  BY DEF SessInv, FilesTyped
<1>2. ASSUME UNCHANGED <<saved, dir, left>> PROVE FilesTyped'
  BY <1>1, <1>2 DEF FilesTyped
<1>3. CASE S!SaveAs
  <2>1. PICK s \in Saves :
           /\ S!Command
           /\ dir' = TRUE
           /\ saved' = S!Written(<<"saved", s>>, hist, TRUE)
           /\ UNCHANGED <<hist, tab, run, answers, runs, left>>
    BY <1>3, Zenon DEF S!SaveAs
  <2> DEFINE slot == <<"saved", s>>
  <2>2. slot \in S!Slots /\ \A t \in Tabs : <<"tab", t>> # slot
    BY SlotsMade
  <2>3. saved' = [saved EXCEPT ![slot] = hist]
    BY <2>1 DEF S!Written
  <2> HIDE DEF slot
  <2>4. FilesTyped'
    BY <1>1, <2>1, <2>2, <2>3, NotATab
  <2> QED
    BY <1>1, <2>1, <2>4, CommandCounted DEF SessInv
<1>4. CASE S!LoadFrom
  <2>1. PICK s \in Saves :
           /\ S!Command
           /\ hist' = S!Loaded(<<"saved", s>>, hist)
           /\ UNCHANGED <<tab, saved, dir, run, answers, runs, left>>
    BY <1>4, Zenon DEF S!LoadFrom
  <2>2. <<"saved", s>> \in S!Slots
    BY SlotsMade
  <2>3. hist' \in Conversations
    BY <1>1, <2>1, <2>2, FileLoaded
  <2> QED
    BY <1>1, <1>2, <2>1, <2>3, CommandCounted DEF SessInv
<1>5. CASE S!Export
  <2>1. /\ S!Command /\ saved' = S!Written(Outside, hist, dir)
        /\ UNCHANGED <<hist, tab, dir, run, answers, runs, left>>
    BY <1>5 DEF S!Export
  <2>2. Outside \in S!Slots /\ \A t \in Tabs : <<"tab", t>> # Outside
    BY SlotsMade
  <2>3. saved' = [saved EXCEPT ![Outside] = hist]
    BY <2>1 DEF S!Written
  <2>4. FilesTyped'
    BY <1>1, <2>1, <2>2, <2>3, NotATab
  <2> QED
    BY <1>1, <2>1, <2>4, CommandCounted DEF SessInv
<1>6. CASE S!Import
  <2>1. PICK s \in Saves :
           /\ S!Command /\ saved[Outside] # NoFile
           /\ hist' = saved[Outside]
           /\ dir' = TRUE
           /\ saved' = S!Written(<<"saved", s>>, saved[Outside], TRUE)
           /\ UNCHANGED <<tab, run, answers, runs, left>>
    BY <1>6, Zenon DEF S!Import
  <2> DEFINE slot == <<"saved", s>>
  <2>2. slot \in S!Slots /\ \A t \in Tabs : <<"tab", t>> # slot
    BY SlotsMade
  <2>3. saved[Outside] \in Conversations
    BY <1>1, <2>1, SlotsMade DEF Stored
  <2>4. saved' = [saved EXCEPT ![slot] = saved[Outside]]
    BY <2>1 DEF S!Written
  <2> HIDE DEF slot
  <2>5. FilesTyped'
    BY <1>1, <2>1, <2>2, <2>3, <2>4, NotATab
  <2> QED
    BY <1>1, <2>1, <2>3, <2>5, CommandCounted DEF SessInv
<1>7. CASE S!Restart
  <2>1. /\ S!Command /\ hist' = S!Loaded(<<"saved", Last>>, <<>>) /\ tab' = Main
        /\ UNCHANGED <<saved, dir, run, answers, runs, left>>
    BY <1>7 DEF S!Restart
  <2>2. <<"saved", Last>> \in S!Slots
    BY SlotsMade, SessionsConstants
  <2>3. hist' \in Conversations
    BY <1>1, <2>1, <2>2, FileLoaded, ConversationsGrow
  <2> QED
    BY <1>1, <1>2, <2>1, <2>3, CommandCounted DEF SessInv
<1> QED
  BY <1>3, <1>4, <1>5, <1>6, <1>7

\* Numbers have a least one.
LEMMA LeastOfNumbers ==
  ASSUME NEW X \in SUBSET Nat, X # {}
  PROVE  \E x \in X : \A y \in X : x <= y
<1>1. PICK x \in X : \A y \in X : <<y, x>> \notin OpToRel(<, Nat)
  BY NatLessThanWellFounded, WFMin
<1>2. \A y \in X : ~ (y < x)
  BY <1>1 DEF OpToRel
<1> QED
  BY <1>2

\* The commands that cut the conversation, and those that only print.
LEMMA CutStep ==
  ASSUME SessInv, S!CompactHere \/ S!Undo \/ S!Edit \/ S!Reset \/ S!Prints
  PROVE  SessInv'
<1>1. RunTyped /\ FilesTyped /\ hist \in Conversations /\ tab \in Tabs \cup {Main}
  BY DEF SessInv
<1>2. ASSUME S!Command, UNCHANGED <<tab, saved, dir, run, answers, runs, left>>,
             hist' \in Conversations
      PROVE  SessInv'
  <2>1. FilesTyped'
    BY <1>1, <1>2 DEF FilesTyped
  <2>2. RunTyped'
    BY <1>1, <1>2, CommandCounted
  <2> QED
    BY <1>1, <1>2, <2>1, <2>2 DEF SessInv
<1>3. CASE S!CompactHere
  <2>1. PICK k \in {1, 2} :
           /\ S!Command
           /\ hist' = <<S!Note>> \o SubSeq(hist,
                 IF S!FromEnd(hist, k) # 0 THEN S!FromEnd(hist, k)
                 ELSE IF S!UserAt(hist) = {} THEN Len(hist) + 1
                 ELSE CHOOSE i \in S!UserAt(hist) : \A j \in S!UserAt(hist) : i <= j, Len(hist))
           /\ UNCHANGED <<tab, saved, dir, run, answers, runs, left>>
    BY <1>3, Zenon DEF S!CompactHere
  <2> DEFINE least == CHOOSE i \in S!UserAt(hist) : \A j \in S!UserAt(hist) : i <= j
             first == IF S!FromEnd(hist, k) # 0 THEN S!FromEnd(hist, k)
                      ELSE IF S!UserAt(hist) = {} THEN Len(hist) + 1 ELSE least
  <2>2. S!UserAt(hist) \subseteq 1..Len(hist) /\ Len(hist) \in Nat
    BY <1>1, ConversationsCut
  <2>3. S!UserAt(hist) # {} => least \in S!UserAt(hist)
    <3>1. ASSUME S!UserAt(hist) # {}
          PROVE  \E i \in S!UserAt(hist) : \A j \in S!UserAt(hist) : i <= j
      <4>1. S!UserAt(hist) \subseteq Nat
        BY <2>2
      <4> QED
        BY <3>1, <4>1, LeastOfNumbers
    <3> QED
      BY <3>1
  <2> HIDE DEF least
  <2>4. first \in 1..(Len(hist) + 1)
    <3>1. S!FromEnd(hist, k) = 0 \/ S!FromEnd(hist, k) \in S!UserAt(hist)
      BY PlaceOfQuestion
    <3>2. \A i \in S!UserAt(hist) : i \in 1..(Len(hist) + 1)
      BY <2>2
    <3>3. Len(hist) + 1 \in 1..(Len(hist) + 1)
      BY <2>2
    <3> QED
      BY <2>3, <3>1, <3>2, <3>3
  <2>5. hist' = <<S!Note>> \o SubSeq(hist, first, Len(hist))
    BY <2>1 DEF least
  <2> HIDE DEF first
  <2>6. hist' \in Conversations
    BY <1>1, <2>4, <2>5, ConversationsCut
  <2> QED
    BY <1>2, <2>1, <2>6
<1>4. CASE S!Undo
  <2>1. PICK k \in {1, 2} :
           /\ S!Command
           /\ hist' = SubSeq(hist, 1, IF S!FromEnd(hist, k) = 0 THEN 0 ELSE S!FromEnd(hist, k) - 1)
           /\ UNCHANGED <<tab, saved, dir, run, answers, runs, left>>
    BY <1>4, Zenon DEF S!Undo
  <2>2. hist' \in Conversations
    <3>1. CASE S!FromEnd(hist, k) = 0
      <4>1. hist \in Seq(S!Messages)
        BY <1>1 DEF Conversations, S!Histories
      <4>2. SubSeq(hist, 1, 0) = << >>
        BY <4>1
      <4> QED
        BY <2>1, <3>1, <4>2, ConversationsGrow
    <3>2. CASE S!FromEnd(hist, k) # 0
      <4>1. S!FromEnd(hist, k) \in S!UserAt(hist)
        BY <3>2, PlaceOfQuestion
      <4>2. hist' = SubSeq(hist, 1, S!FromEnd(hist, k) - 1)
        BY <2>1, <3>2
      <4> QED
        BY <1>1, <4>1, <4>2, ConversationsCut
    <3> QED
      BY <3>1, <3>2
  <2> QED
    BY <1>2, <2>1, <2>2
<1>5. CASE S!Edit
  <2>1. PICK k \in {1, 2} :
           /\ S!Command
           /\ S!FromEnd(hist, k) # 0
           /\ hist' = Append(SubSeq(hist, 1, S!FromEnd(hist, k) - 1), hist[S!FromEnd(hist, k)])
           /\ UNCHANGED <<tab, saved, dir, run, answers, runs, left>>
    BY <1>5, Zenon DEF S!Edit
  <2>2. S!FromEnd(hist, k) \in S!UserAt(hist)
    BY <2>1, PlaceOfQuestion
  <2>3. hist' \in Conversations
    BY <1>1, <2>1, <2>2, ConversationsCut
  <2> QED
    BY <1>2, <2>1, <2>3
<1>6. CASE S!Reset
  BY <1>1, <1>2, <1>6, ConversationsGrow DEF S!Reset
<1>7. CASE S!Prints
  BY <1>1, <1>2, <1>7 DEF S!Prints
<1> QED
  BY <1>3, <1>4, <1>5, <1>6, <1>7

\* A run: its question, its answers and its end.
LEMMA TalkStep ==
  ASSUME SessInv, S!Prompt \/ S!AnswerCalls \/ S!RunEnds
  PROVE  SessInv'
<1>1. RunTyped /\ FilesTyped /\ hist \in Conversations /\ tab \in Tabs \cup {Main}
  BY DEF SessInv
<1>2. ASSUME UNCHANGED <<saved, dir, left>> PROVE FilesTyped'
  BY <1>1, <1>2 DEF FilesTyped
<1>3. CASE S!Prompt
  <2>1. /\ runs < MaxRuns /\ runs' = runs + 1 /\ answers' = 0 /\ run' \in {"once", "loop"}
        /\ hist' = Append(hist, S!User) /\ UNCHANGED <<tab, saved, dir, left, issued>>
    BY <1>3 DEF S!Prompt
  <2>2. RunTyped'
    BY <1>1, <2>1, SessionsConstants DEF RunTyped
  <2>3. hist' \in Conversations
    BY <1>1, <2>1, ConversationsGrow
  <2> QED
    BY <1>1, <1>2, <2>1, <2>2, <2>3 DEF SessInv
<1>4. CASE S!AnswerCalls
  <2>1. PICK n \in Calls :
           /\ run # "none" /\ answers < MaxAnswers
           /\ answers' = answers + 1
           /\ \E h \in {Append(hist, S!Asks(n))} \cup S!Compacted(Append(hist, S!Asks(n))) :
                  hist' = h \o [i \in 1..n |-> S!Result]
           /\ UNCHANGED <<tab, saved, dir, run, runs, left, issued>>
    BY <1>4, Zenon DEF S!AnswerCalls
  <2>2. RunTyped'
    BY <1>1, <2>1, SessionsConstants DEF RunTyped
  <2>3. PICK h \in {Append(hist, S!Asks(n))} \cup S!Compacted(Append(hist, S!Asks(n))) :
           hist' = h \o [i \in 1..n |-> S!Result]
    BY <2>1
  <2>4. hist' \in Conversations
    BY <1>1, <2>3, ConversationsCalled
  <2> QED
    BY <1>1, <1>2, <2>1, <2>2, <2>4 DEF SessInv
<1>5. CASE S!RunEnds
  <2>1. PICK h \in {hist, Append(hist, S!Text)} :
           /\ run # "none"
           /\ run' = "none"
           /\ hist' = h
           /\ dir' = (dir \/ run = "once")
           /\ saved' = IF run = "once" THEN S!Written(<<"saved", Last>>, h, TRUE) ELSE saved
           /\ UNCHANGED <<tab, answers, runs, left, issued>>
    BY <1>5, Zenon DEF S!RunEnds
  <2>2. h \in Conversations
    BY <1>1, ConversationsGrow
  <2>3. RunTyped'
    BY <1>1, <2>1 DEF RunTyped
  <2>4. dir' \in BOOLEAN
    BY <2>1, Zenon
  <2>5. FilesTyped'
    <3>1. CASE run = "once"
      <4> DEFINE slot == <<"saved", Last>>
      <4>1. slot \in S!Slots /\ \A t \in Tabs : <<"tab", t>> # slot
        BY SlotsMade, SessionsConstants
      <4>2. saved' = [saved EXCEPT ![slot] = h]
        BY <2>1, <3>1 DEF S!Written
      <4> HIDE DEF slot
      <4> QED
        BY <1>1, <2>1, <2>2, <2>4, <4>1, <4>2, NotATab
    <3>2. CASE run # "once"
      <4>1. dir' = dir
        BY <1>1, <2>1, <3>2, Zenon DEF FilesTyped
      <4> QED
        BY <1>2, <2>1, <3>2, <4>1
    <3> QED
      BY <3>1, <3>2
  <2> QED
    BY <1>1, <2>1, <2>2, <2>3, <2>5 DEF SessInv
<1> QED
  BY <1>3, <1>4, <1>5

\* No command and no run leaves a call without its results, in memory or in a file.
LEMMA SessionsStep ==
  ASSUME SessInv, S!Next
  PROVE  SessInv'
BY TabStep, FileStep, CutStep, TalkStep DEF S!Next

\* And while others move, everything stays.
LEMMA SessionsStay ==
  ASSUME SessInv, UNCHANGED sessionsVars, UNCHANGED <<run, issued>>
  PROVE  SessInv'
BY DEF SessInv, RunTyped, FilesTyped, sessionsVars

\* The conversations have their types, and calls and results belong together.
LEMMA SessionsFit ==
  ASSUME SessInv
  PROVE  S!TypeOK /\ S!ToolsPaired
<1>1. /\ hist \in Conversations /\ saved \in [S!Slots -> Stored] /\ left \in [Tabs -> Stored]
      /\ tab \in Tabs \cup {Main} /\ dir \in BOOLEAN /\ RunTyped
  BY DEF SessInv, FilesTyped
<1>2. /\ \A h \in Conversations : h \in S!Histories /\ S!Paired(h)
      /\ \A h \in Stored : h \in S!Histories \cup {NoFile} /\ (h # NoFile => S!Paired(h))
  BY DEF Conversations, Stored
<1>3. S!TypeOK
  BY <1>1, <1>2 DEF S!TypeOK, RunTyped
<1>4. S!ToolsPaired
  BY <1>1, <1>2 DEF S!ToolsPaired
<1> QED
  BY <1>3, <1>4

\* A tab shows what it was left with.
LEMMA SwitchShows ==
  ASSUME SessInv, S!Next
  PROVE  S!SwitchBackShows
<1> SUFFICES ASSUME NEW t \in Tabs, S!Switch, tab' = t, t # tab, left[t] # NoFile
             PROVE  hist' = left[t]
  BY DEF S!SwitchBackShows
<1>1. /\ saved \in [S!Slots -> Stored] /\ hist \in Conversations /\ tab \in Tabs \cup {Main}
      /\ saved[<<"tab", t>>] = left[t]
  BY DEF SessInv, FilesTyped
<1>2. PICK u \in Tabs :
         /\ S!Command
         /\ saved' = IF tab = Main THEN saved ELSE S!Written(<<"tab", tab>>, hist, dir)
         /\ hist' = IF saved'[<<"tab", u>>] = NoFile THEN <<>> ELSE saved'[<<"tab", u>>]
         /\ tab' = u
         /\ left' = IF tab = Main \/ ~dir THEN left ELSE [left EXCEPT ![tab] = hist]
         /\ UNCHANGED <<dir, run, answers, runs>>
  BY Zenon DEF S!Switch
<1>3. saved'[<<"tab", t>>] = left[t]
  <2>1. CASE tab = Main
    BY <1>1, <1>2, <2>1
  <2>2. CASE tab # Main
    <3> DEFINE slot == <<"tab", tab>>
    <3>1. slot \in S!Slots /\ <<"tab", t>> \in S!Slots \ {slot}
      BY <1>1, <2>2, SlotsMade
    <3>2. saved' \in {saved, [saved EXCEPT ![slot] = hist]}
      BY <1>2, <2>2 DEF S!Written
    <3> HIDE DEF slot
    <3>3. \A s \in S!Slots \ {slot} : saved'[s] = saved[s]
      BY <1>1, <3>1, <3>2, FileWritten
    <3> QED
      BY <1>1, <3>1, <3>3
  <2> QED
    BY <2>1, <2>2
<1> QED
  BY <1>2, <1>3

-----------------------------------------------------------------------------
(* Side by side.                                                           *)

\* The inductive invariant: of the part that moves.
StorageInv ==
    /\ part = "keys" => KeyInv
    /\ part = "policy" => PolicyInv
    /\ part = "goal" => GoalInv
    /\ part = "sas" => SasInv
    /\ part = "cron" => CronInv
    /\ part = "sessions" => SessInv

\* One of the parts begins.
LEMMA StorageBegins ==
  ASSUME Init
  PROVE  StorageInv
BY KeyBegins, PolicyBegins, GoalBegins, SasBegins, CronBegins, SessionsBegin
   DEF Init, StorageInv

\* One part moves and keeps its invariant; the others stand still.
LEMMA StorageStep ==
  ASSUME StorageInv, [Next]_vars
  PROVE  StorageInv'
<1>1. CASE UNCHANGED vars
  <2>1. /\ UNCHANGED part
        /\ UNCHANGED <<file, encrypted, out, inb, recent, made, backup, used, rotated>>
        /\ UNCHANGED policyVars /\ UNCHANGED <<goal, asks, judged, issued>>
        /\ UNCHANGED sasVars /\ UNCHANGED cronVars
        /\ UNCHANGED sessionsVars /\ UNCHANGED <<run, issued>>
    BY <1>1 DEF vars, keysVars, goalVars
  <2> QED
    BY <2>1, KeysStay, PolicyStays, GoalStays, SasStays, CronStays, SessionsStay
       DEF StorageInv
<1>2. CASE Next
  <2>1. UNCHANGED part
    BY <1>2 DEF Next
  <2>2. /\ part = "keys" => K!Next
        /\ part = "policy" => P!Next
        /\ part = "goal" => G!Next
        /\ part = "sas" => Sas!Next
        /\ part = "cron" => J!Next
        /\ part = "sessions" => S!Next
    BY <1>2 DEF Next
  <2> QED
    BY <2>1, <2>2, KeyStep, PolicyStep, GoalStep, SasStep, CronStep, SessionsStep
       DEF StorageInv
<1> QED
  BY <1>1, <1>2

\* Whatever the commands, the devices and the processes do, each part is as it should be.
THEOREM StorageInvHolds == Spec => []StorageInv
<1>1. Init => StorageInv
  BY StorageBegins
<1>2. StorageInv /\ [Next]_vars => StorageInv'
  BY StorageStep
<1> QED
  BY <1>1, <1>2, PTL DEF Spec

\* Of what is stored, for any number of sessions, rooms, commands and devices: no two
\* messages are encrypted with the same session and index and none beyond the limit, and an
\* entry is filed under the id it belongs to; a goal shown as achieved was judged to be;
\* nothing a run calls goes against the policy it was launched with; a device is verified by
\* a yes to its own verification, and what is given up is told; no conversation, in memory or in
\* a file, holds a call without its results or a result without its call.
THEOREM StoresFitTogether ==
  Spec => [](part \in {"keys", "policy", "goal", "sas", "sessions"} => StoreConsistent)
<1>1. ASSUME StorageInv, part \in {"keys", "policy", "goal", "sas", "sessions"}
      PROVE  StoreConsistent
  <2>1. CASE part = "keys"
    BY <1>1, <2>1, KeysConsistent DEF StorageInv, StoreConsistent
  <2>2. CASE part = "policy"
    BY <1>1, <2>2, PolicyTyped, CarriedFollows DEF StorageInv, StoreConsistent
  <2>3. CASE part = "goal"
    BY <1>1, <2>3 DEF StorageInv, GoalInv, StoreConsistent
  <2>4. CASE part = "sas"
    BY <1>1, <2>4, SasConsistent DEF StorageInv, StoreConsistent
  <2>5. CASE part = "sessions"
    BY <1>1, <2>5, SessionsFit DEF StorageInv, StoreConsistent
  <2> QED
    BY <1>1, <2>1, <2>2, <2>3, <2>4, <2>5
<1> QED
  BY <1>1, StorageInvHolds, PTL

\* The settings and the run of the agent, the goal, the verifications, the scheduled
\* prompts with their checks, and the conversations keep their types.
THEOREM StoresTyped == Spec => [](part \in {"policy", "goal", "sas", "cron", "sessions"} => TypeOK)
<1>1. ASSUME StorageInv, part \in {"policy", "goal", "sas", "cron", "sessions"}
      PROVE  TypeOK
  <2>1. CASE part = "policy"
    BY <1>1, <2>1, PolicyTyped DEF StorageInv, TypeOK
  <2>2. CASE part = "goal"
    BY <1>1, <2>2 DEF StorageInv, GoalInv, TypeOK
  <2>3. CASE part = "sas"
    BY <1>1, <2>3, SasConsistent DEF StorageInv, TypeOK
  <2>4. CASE part = "cron"
    BY <1>1, <2>4, CronTyped DEF StorageInv, TypeOK
  <2>5. CASE part = "sessions"
    BY <1>1, <2>5, SessionsFit DEF StorageInv, TypeOK
  <2> QED
    BY <1>1, <2>1, <2>2, <2>3, <2>4, <2>5
<1> QED
  BY <1>1, StorageInvHolds, PTL

\* A command of the user decides the calls it names and no others, whatever rules stood
\* before; a run keeps its mode and the settings it was launched with.
THEOREM CommandsAndPlansHold == Spec => PolicyDecides
<1>1. StorageInv /\ [Next]_vars
         => [part = "policy" => P!CommandsDecide /\ P!PlansToTheEnd]_vars
  <2> SUFFICES ASSUME StorageInv, Next, part = "policy"
               PROVE  P!CommandsDecide /\ P!PlansToTheEnd
    OBVIOUS
  <2>1. P!Next /\ PolicyInv
    BY DEF Next, StorageInv
  <2> QED
    BY <2>1, PolicyTyped, CommandDecides, RunStays
<1> QED
  BY <1>1, StorageInvHolds, PTL DEF Spec, PolicyDecides

\* Whatever the terminals do at a time, and whenever one is killed: no job runs twice for one
\* moment, and a check that ran something leaves none of it due; but dates, and jobs that two
\* checks had loaded at once or that a killed check had loaded.
THEOREM PromptsRunOnce == Spec => JobsRunOnce
<1>1. StorageInv /\ [Next]_vars => [part = "cron" => J!OncePerMoment /\ J!CheckSettles]_vars
  <2> SUFFICES ASSUME StorageInv, Next, part = "cron"
               PROVE  J!OncePerMoment /\ J!CheckSettles
    OBVIOUS
  <2>1. CronInv
    BY DEF StorageInv
  <2> QED
    BY <2>1, NoJobTwice
<1> QED
  BY <1>1, StorageInvHolds, PTL DEF Spec, JobsRunOnce

\* No step costs a key but those that replace or clear it, and an import finds every
\* session of the export; the goal changes by a command, a draft that arrives and a verdict;
\* a job leaves the file by `remove` or under a check that did not know it, and comes back
\* by a check alone; a tab that is switched to shows what it was left with.
THEOREM StoresAreKept ==
  Spec => [][/\ part = "keys" => K!KeysKept /\ K!ImportFinds
             /\ part = "goal" => G!GoalKept
             /\ part = "sessions" => S!SwitchBackShows
             /\ part = "cron" => J!JobsKept]_vars
<1>1. StorageInv /\ [Next]_vars
         => [/\ part = "keys" => K!KeysKept /\ K!ImportFinds
             /\ part = "goal" => G!GoalKept
             /\ part = "sessions" => S!SwitchBackShows
             /\ part = "cron" => J!JobsKept]_vars
  <2> SUFFICES ASSUME StorageInv, Next
               PROVE  /\ part = "keys" => K!KeysKept /\ K!ImportFinds
                      /\ part = "goal" => G!GoalKept
                      /\ part = "sessions" => S!SwitchBackShows
                      /\ part = "cron" => J!JobsKept
    OBVIOUS
  <2>1. ASSUME part = "keys" PROVE K!KeysKept /\ K!ImportFinds
    BY <2>1, KeysAreKept DEF Next, StorageInv
  <2>2. ASSUME part = "goal" PROVE G!GoalKept
    BY <2>2, GoalIsKept DEF Next, StorageInv
  <2>3. ASSUME part = "cron" PROVE J!JobsKept
    BY <2>3, JobsAreKept DEF Next, StorageInv
  <2>4. ASSUME part = "sessions" PROVE S!SwitchBackShows
    BY <2>4, SwitchShows DEF Next, StorageInv
  <2> QED
    BY <2>1, <2>2, <2>3, <2>4
<1> QED
  BY <1>1, StorageInvHolds, PTL DEF Spec

=============================================================================
