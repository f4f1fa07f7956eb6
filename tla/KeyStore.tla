------------------------------ MODULE KeyStore ------------------------------
(***************************************************************************)
(* The Megolm half of the crypto manager, lib/e2ee/crypto.cpp, with its    *)
(* users in lib/matrix/client.cpp: the outbound session of each room and   *)
(* its rotation, the inbound sessions and the key they are filed under,    *)
(* export, import and the key backup.                                      *)
(*                                                                         *)
(* A session is its id and the first index its holder can decrypt; the     *)
(* ratchet itself is libolm's (external).  Any call into libolm may throw. *)
(***************************************************************************)
EXTENDS Integers, Sequences, FiniteSets, SequencesExt

CONSTANTS
    Rooms,
    Own,           \* ids of the sessions this device may create
    Foreign,       \* ids of the sessions of other devices
    RoomOf(_),     \* the room of a foreign session
    RotateAfter    \* messages per outbound session (100 in the code)

KeyAssumption ==
    /\ RotateAfter \in Nat \ {0}
    /\ Own \cap Foreign = {} /\ "none" \notin Own
    /\ \A f \in Foreign : RoomOf(f) \in Rooms

VARIABLES
    encrypted,  \* impl->encrypted_rooms
    out,        \* _outboundMegolm: per room [sid, next], or NoSession
    inb,        \* _inboundMegolm: entries by the key they are filed under
    recent,     \* the keys of `inb`, the one used last at the end (lastReceivedTs)
    made,       \* own sessions created so far
    backup,     \* the sessions on the server: [room, sid, first]
    file,       \* what exportRoomKeys returned last, per room
    used,       \* history: pairs (session, index) a message was encrypted with
    rotated     \* history: own sessions that were rotated away

vars == <<encrypted, out, inb, recent, made, backup, file, used, rotated>>

NoSession == [sid |-> "none", next |-> 0]
Index     == 0..RotateAfter
Sessions  == Own \cup Foreign

\* An entry is filed under a session id, or - own ones, by rotation - under the text
\* of the session key.
Key   == [by : {"id", "key"}, sid : Sessions]
Entry == [room : Rooms, sid : Sessions, first : Index]
ById(s) == [by |-> "id", sid |-> s]

Init ==
    /\ encrypted = {}
    /\ out = [r \in Rooms |-> NoSession]
    /\ inb = <<>>
    /\ recent = <<>>
    /\ made = {}
    /\ backup = {}
    /\ file = [r \in Rooms |-> {}]
    /\ used = {}
    /\ rotated = {}

-----------------------------------------------------------------------------
(* Helpers. *)

\* _inboundMegolm[k] = e, with lastReceivedTs set to now.
Put(map, k, e) == [j \in DOMAIN map \cup {k} |-> IF j = k THEN e ELSE map[j]]

Touch(seq, k) ==
    LET other(j) == j # k
    IN  Append(SelectSeq(seq, other), k)

\* decryptMegolm's choice for an event that names no session: the room's session
\* used last.
Best(r) ==
    LET of(k) == inb[k].room = r
    IN  Last(SelectSeq(recent, of))

Exported(r) ==
    { [room |-> r, sid |-> inb[k].sid, first |-> inb[k].first] :
        k \in { j \in DOMAIN inb : inb[j].room = r } }

\* Seeded fault: a session that is in the store already is not replaced.
ReceivedKeepsOld(sessions) ==
    LET firsts(s) == { x \in sessions : x.sid = s }
        pick(s)   == CHOOSE x \in firsts(s) : TRUE
    IN  inb @@ [ k \in { ById(x.sid) : x \in sessions } |->
                   [room |-> pick(k.sid).room, sid |-> k.sid, first |-> pick(k.sid).first] ]

\* receiveMegolmSession of each session of an export that libolm takes: the entry is
\* replaced, whatever index the old one began at, and filed under the session's id.
Received(sessions) ==
    LET firsts(s) == { x \in sessions : x.sid = s }
        pick(s)   == CHOOSE x \in firsts(s) : TRUE
        keys      == { ById(x.sid) : x \in sessions }
    IN  [ k \in keys \cup DOMAIN inb |->
            IF k \in keys
            THEN [room |-> pick(k.sid).room, sid |-> k.sid, first |-> pick(k.sid).first]
            ELSE inb[k] ]

Recency(sessions) ==
    LET keys == { ById(x.sid) : x \in sessions }
        old(k) == k \notin keys
    IN  SelectSeq(recent, old) \o SetToSeq(keys)

\* A message (session, index) this device can decrypt when the event names its session.
CanDecrypt(s, i) ==
    ById(s) \in DOMAIN inb /\ inb[ById(s)].first <= i

-----------------------------------------------------------------------------
(* Outbound: startMegolmOutbound, encryptMegolm, enableEncryption. *)

\* A new session replaces the room's.
NewSession(r, s) == [out EXCEPT ![r] = [sid |-> s, next |-> 0]]

\* Seeded fault: the replaced session's id is kept with the index set back.
EncryptStaleId(r) ==
    /\ r \in encrypted
    /\ \E s \in Own :
        LET cur == IF out[r] = NoSession THEN [sid |-> s, next |-> 0] ELSE out[r]
            full == cur.next + 1 >= RotateAfter
        IN  /\ out[r] = NoSession => s \notin made
            /\ used' = used \cup {<<cur.sid, cur.next>>}
            /\ out' = [out EXCEPT ![r] = [cur EXCEPT !.next = IF full THEN 0 ELSE @ + 1]]
            /\ made' = made \cup {cur.sid}
    /\ UNCHANGED <<encrypted, inb, recent, backup, file, rotated>>

\* Seeded fault: the session is rotated one message late.
EncryptLate(r) ==
    /\ r \in encrypted
    /\ \E s \in Own \ made :
        LET cur == IF out[r] = NoSession THEN [sid |-> s, next |-> 0] ELSE out[r]
        IN  /\ used' = used \cup {<<cur.sid, cur.next>>}
            /\ out' = [out EXCEPT ![r] = IF cur.next >= RotateAfter
                                         THEN [sid |-> s, next |-> 0]
                                         ELSE [cur EXCEPT !.next = @ + 1]]
            /\ made' = made \cup {out'[r].sid, cur.sid}
    /\ UNCHANGED <<encrypted, inb, recent, backup, file, rotated>>

\* Seeded fault: rotation throws the room's inbound sessions away with the outbound.
EncryptClears(r) ==
    /\ r \in encrypted /\ out[r] # NoSession
    /\ used' = used \cup {<<out[r].sid, out[r].next>>}
    /\ inb' = [ k \in { j \in DOMAIN inb : inb[j].room # r } |-> inb[k] ]
    /\ recent' = SelectSeq(recent, LAMBDA k : inb[k].room # r)
    /\ out' = [out EXCEPT ![r] = NoSession]
    /\ UNCHANGED <<encrypted, made, backup, file, rotated>>

\* sendMessage in a room known to be encrypted: one message with the room's session,
\* which is created if there is none and rotated when its index reaches a multiple of
\* RotateAfter.  A rotated session is filed as inbound under the text of its session
\* key, from its present index on - if libolm takes it.
Encrypt(r) ==
    /\ r \in encrypted
    /\ \E s \in Own \cup {"none"}, t \in Own \cup {"none"}, taken \in BOOLEAN :
        LET fresh == out[r] = NoSession
            cur   == IF fresh THEN [sid |-> s, next |-> 0] ELSE out[r]
            full  == cur.next + 1 = RotateAfter
            k     == [by |-> "key", sid |-> cur.sid]
        IN  /\ IF fresh THEN s \in Own \ made ELSE s = "none"
            /\ IF full THEN t \in Own \ (made \cup {s}) ELSE t = "none"
            /\ taken => full
            /\ used' = used \cup {<<cur.sid, cur.next>>}
            /\ out' = IF full THEN NewSession(r, t)
                              ELSE [out EXCEPT ![r] = [cur EXCEPT !.next = @ + 1]]
            /\ made' = made \cup ({s, t} \cap Own)
            /\ rotated' = IF full THEN rotated \cup {cur.sid} ELSE rotated
            /\ inb' = IF taken
                      THEN Put(inb, k, [room |-> r, sid |-> cur.sid, first |-> RotateAfter])
                      ELSE inb
            /\ recent' = IF taken THEN Touch(recent, k) ELSE recent
    /\ UNCHANGED <<encrypted, backup, file>>

\* enableEncryption, also behind /discardsession: the room is marked and a new outbound
\* session started; what libolm throws is swallowed.
EnableEncryption(r) ==
    /\ encrypted' = encrypted \cup {r}
    /\ \/ \E s \in Own \ made : /\ out' = NewSession(r, s)
                                /\ made' = made \cup {s}
       \/ UNCHANGED <<out, made>>
    /\ UNCHANGED <<inb, recent, backup, file, used, rotated>>

\* The sync loop sees an m.room.encryption state event.
RoomEncrypted(r) ==
    /\ encrypted' = encrypted \cup {r}
    /\ UNCHANGED <<out, inb, recent, made, backup, file, used, rotated>>

-----------------------------------------------------------------------------
(* Inbound: receiveMegolmSession, decryptMegolm, clearRoom, clearAll. *)

\* Another device shares a session from index i on.
Receive(f, i) ==
    /\ inb' = Received({[room |-> RoomOf(f), sid |-> f, first |-> i]})
    /\ recent' = Touch(recent, ById(f))
    /\ UNCHANGED <<encrypted, out, made, backup, file, used, rotated>>

\* decryptMegolm with the event's session id, or without one: only the entry's
\* bookkeeping changes, also when the message does not decrypt.
Decrypt(k) ==
    /\ k \in DOMAIN inb
    /\ k.by = "id" \/ k = Best(inb[k].room)
    /\ recent' = Touch(recent, k)
    /\ UNCHANGED <<encrypted, out, inb, made, backup, file, used, rotated>>

\* Seeded fault: the entries go, and the order they were used in stays.
ClearRoomKeepsOrder(r) ==
    /\ inb' = [ k \in { j \in DOMAIN inb : inb[j].room # r } |-> inb[k] ]
    /\ out' = [out EXCEPT ![r] = NoSession]
    /\ UNCHANGED <<encrypted, recent, made, backup, file, used, rotated>>

ClearRoom(r) ==
    /\ inb' = [ k \in { j \in DOMAIN inb : inb[j].room # r } |-> inb[k] ]
    /\ recent' = SelectSeq(recent, LAMBDA k : inb[k].room # r)
    /\ out' = [out EXCEPT ![r] = NoSession]
    /\ UNCHANGED <<encrypted, made, backup, file, used, rotated>>

ClearAll ==
    /\ inb' = <<>>
    /\ recent' = <<>>
    /\ out' = [r \in Rooms |-> NoSession]
    /\ UNCHANGED <<encrypted, made, backup, file, used, rotated>>

-----------------------------------------------------------------------------
(* Export, import and the backup. *)

ExportRoomKeys(r) ==
    /\ file' = [file EXCEPT ![r] = Exported(r)]
    /\ UNCHANGED <<encrypted, out, inb, recent, made, backup, used, rotated>>

\* Seeded fault: a session is filed under the text of its key, not under its id.
ImportRoomKeysByKey(r) ==
    /\ file[r] # {}
    /\ inb' = [ k \in { [by |-> "key", sid |-> x.sid] : x \in file[r] } |->
                  [room |-> r, sid |-> k.sid, first |-> 0] ] @@ inb
    /\ recent' = SelectSeq(recent, LAMBDA k : k \notin DOMAIN inb')
                   \o SetToSeq(DOMAIN inb')
    /\ UNCHANGED <<encrypted, out, made, backup, file, used, rotated>>

\* importRoomKeys of what exportRoomKeys gave.
ImportRoomKeys(r) ==
    /\ file[r] # {}
    /\ inb' = Received(file[r])
    /\ recent' = Recency(file[r])
    /\ UNCHANGED <<encrypted, out, made, backup, file, used, rotated>>

\* Client::uploadKeyBackup: the exports of the rooms known to be encrypted replace what
\* the server holds of them.
UploadKeyBackup ==
    /\ backup' = { b \in backup : b.room \notin encrypted }
                   \cup UNION { Exported(r) : r \in encrypted }
    /\ UNCHANGED <<encrypted, out, inb, recent, made, file, used, rotated>>

\* Client::restoreKeyBackup: hands importRoomKeys the room's part of the reply, which
\* has no "rooms" of its own, so each call returns at once.
RestoreKeyBackup ==
    /\ backup # {}
    /\ UNCHANGED vars

Next ==
    \/ \E r \in Rooms : \/ Encrypt(r) \/ EnableEncryption(r) \/ RoomEncrypted(r)
                        \/ ClearRoom(r) \/ ExportRoomKeys(r) \/ ImportRoomKeys(r)
    \/ \E f \in Foreign, i \in Index : Receive(f, i)
    \/ \E k \in DOMAIN inb : Decrypt(k)
    \/ ClearAll \/ UploadKeyBackup \/ RestoreKeyBackup

Spec == Init /\ [][Next]_vars

-----------------------------------------------------------------------------
\* The entries keep their shape, and the order of use names each of them once.
TypeOK ==
    /\ encrypted \subseteq Rooms
    /\ \A r \in Rooms : out[r] = NoSession \/ (out[r].sid \in Own /\ out[r].next \in Index)
    /\ DOMAIN inb \subseteq Key /\ \A k \in DOMAIN inb : inb[k] \in Entry
    /\ Range(recent) = DOMAIN inb /\ IsInjective(recent)
    /\ made \subseteq Own
    /\ backup \subseteq Entry
    /\ \A r \in Rooms : file[r] \subseteq Entry

\* No two messages are encrypted with the same session and index, over rotations,
\* discarded sessions, cleared rooms and rooms that share nothing but the manager.
NoIndexTwice ==
    /\ \A r \in Rooms : out[r] # NoSession => <<out[r].sid, out[r].next>> \notin used
    /\ \A r, q \in Rooms : out[r].sid = out[q].sid /\ r # q => out[r] = NoSession

\* A session never encrypts more than RotateAfter messages (the comment at
\* crypto.cpp:297).
RotatesInTime ==
    \A u \in used : u[2] < RotateAfter

\* The number of entries of one session is at most two: the one its readers look for,
\* and the one rotation filed under the session key.  The entry under the id, if any,
\* belongs to the session of that id.
FiledUnderItsId ==
    \A k \in DOMAIN inb : /\ inb[k].sid = k.sid
                          /\ k.by = "key" => k.sid \in rotated

\* An import finds every session of the export again under its id, from the index the
\* export began at - also the rotated ones, which were filed under their key before.
ImportFinds ==
    \A r \in Rooms :
          ImportRoomKeys(r) =>
              \A x \in file[r] : \E y \in file[r] :
                  y.sid = x.sid /\ CanDecrypt(x.sid, y.first)'

\* The same of every step.
ImportFindsAll == [][ImportFinds]_vars

\* A message that could be decrypted stays so, unless its session is received or
\* imported again from a later index, or the room is cleared: no encryption, rotation,
\* decryption or backup costs a key.
KeysKept ==
    \A s \in Sessions, i \in Index :
          CanDecrypt(s, i) /\ ~ CanDecrypt(s, i)' =>
              \/ \E f \in Foreign, j \in Index : Receive(f, j)
              \/ \E r \in Rooms : ImportRoomKeys(r) \/ ClearRoom(r)
              \/ ClearAll

\* The same of every step.
KeysStay == [][KeysKept]_vars

=============================================================================
