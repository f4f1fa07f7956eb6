------------------------------ MODULE FileSend ------------------------------
(***************************************************************************)
(* `attach`: sending a file to a room (cmdAttachFile in                     *)
(* src/cmd_view_attach.cpp, the content of the event in src/media_send.cpp, *)
(* the upload in parts in lib/matrix/client_sync.cpp).  Whether the room is *)
(* encrypted is looked up once; the file is uploaded as it is, then for an  *)
(* encrypted room encrypted and uploaded again; the key of the room is      *)
(* offered to its members; the event names the upload.  Any request may     *)
(* fail, which ends the run, and the user may run it again.                 *)
(*                                                                         *)
(* Media servers are taken to be of two kinds: those that make every        *)
(* request an upload of its own, and those that put the parts of a file     *)
(* together under an upload id.                                             *)
(***************************************************************************)
EXTENDS Integers, Sequences

CONSTANTS
    Sizes,          \* sizes of the file
    Chunks,         \* values of --chunks
    SendPresets,    \* the presets of the event: "original", "compact", "full"
    MaxSends        \* bound on the runs

FileAssumption == Sizes \subseteq Nat \ {0} /\ Chunks \subseteq Nat /\ MaxSends \in Nat

VARIABLES
    assembles,  \* the kind of the media server
    secret,     \* the room is encrypted
    send,       \* the run
    uploads,    \* what the media server holds
    events,     \* what the room was sent
    marked,     \* markRoomKeyShared: the key counts as shared
    sends       \* runs so far

fileVars == <<assembles, secret, send, uploads, events, marked, sends>>

NoSend ==
    [at |-> "idle", size |-> 0, pieces |-> 0, preset |-> "", secret |-> FALSE, key |-> 0,
     from |-> 0, id |-> FALSE, url |-> 0]

Places == {"idle", "upload", "part", "share", "send"}

TypeOK ==
    /\ {assembles, secret, marked} \subseteq BOOLEAN /\ sends \in 0..MaxSends
    /\ send.at \in Places /\ send.url \in 0..Len(uploads) /\ send.key \in 0..sends
    /\ \A i \in 1..Len(uploads) : uploads[i].first \in Nat /\ uploads[i].bytes \in Nat
    /\ \A e \in events : e.url \in 0..Len(uploads)

Init ==
    /\ assembles \in BOOLEAN /\ secret \in BOOLEAN
    /\ send = NoSend /\ uploads = <<>> /\ events = {} /\ marked = FALSE /\ sends = 0

-----------------------------------------------------------------------------
Standing == UNCHANGED <<assembles, secret, uploads, events, marked, sends>>

\* The file is read, the preset and the encryption of the room are looked up.
Attach(size, pieces, preset) ==
    /\ send = NoSend /\ sends < MaxSends /\ sends' = sends + 1
    /\ send' = [NoSend EXCEPT !.at = IF pieces > 1 THEN "part" ELSE "upload", !.size = size,
                            !.pieces = pieces, !.preset = preset, !.secret = secret]
    /\ UNCHANGED <<assembles, secret, uploads, events, marked>>

\* Somebody turns encryption on.
EncryptRoom == secret' = TRUE /\ UNCHANGED <<assembles, send, uploads, events, marked, sends>>

\* Any request may fail.
Fails == send # NoSend /\ send' = NoSend /\ Standing

Stored(first, bytes) == Append(uploads, [first |-> first, bytes |-> bytes, key |-> send.key])

\* Seeded fault: the second upload's address is not taken.
UploadedKeeps(run) ==
    IF run.secret /\ run.key = 0
    THEN [run EXCEPT !.key = sends, !.url = Len(uploads) + 1, !.from = 0, !.id = FALSE,
                     !.at = IF run.pieces > 1 THEN "part" ELSE "upload"]
    ELSE [run EXCEPT !.url = IF run.key = 0 THEN Len(uploads) + 1 ELSE @,
                     !.at = IF run.secret THEN "share" ELSE "send"]

\* The file is there.  For an encrypted room it is encrypted now, with a new key.
Uploaded(run) ==
    IF run.secret /\ run.key = 0
    THEN [run EXCEPT !.key = sends, !.url = Len(uploads) + 1, !.from = 0, !.id = FALSE,
                     !.at = IF run.pieces > 1 THEN "part" ELSE "upload"]
    ELSE [run EXCEPT !.url = Len(uploads) + 1, !.at = IF run.secret THEN "share" ELSE "send"]

Upload ==
    /\ send.at = "upload"
    /\ uploads' = Stored(0, send.size) /\ send' = Uploaded(send)
    /\ UNCHANGED <<assembles, secret, events, marked, sends>>

Per == (send.size + send.pieces - 1) \div send.pieces
End == IF send.from + Per < send.size THEN send.from + Per ELSE send.size

\* Seeded fault: a part that is too short is taken to be the whole, whoever answers.
PostPartGuesses ==
    /\ send.at = "part" /\ ~ send.id
    /\ uploads' = Stored(0, End) /\ send' = Uploaded(send)
    /\ UNCHANGED <<assembles, secret, events, marked, sends>>

\* The first address is taken for the file's.  A server that assembles gives one after the
\* last part only; to continue under an upload id the request goes to a path that does not
\* exist, as the file's name, which would open the query, is left out.
PostPart ==
    /\ send.at = "part" /\ ~ send.id
    /\ \/ /\ ~ assembles \/ End = send.size
          /\ uploads' = Stored(send.from, End - send.from) /\ send' = Uploaded(send)
       \/ /\ assembles /\ End < send.size
          /\ send' = [send EXCEPT !.id = TRUE, !.from = End] /\ UNCHANGED uploads
    /\ UNCHANGED <<assembles, secret, events, marked, sends>>

\* The key of the room is offered once; that it did not arrive is only said.
ShareKey ==
    /\ send.at = "share" /\ send' = [send EXCEPT !.at = "send"]
    /\ marked' = TRUE
    /\ UNCHANGED <<assembles, secret, uploads, events, sends>>

\* Seeded fault: the address is left out of both kinds of compact events.
ContentBare(run) ==
    [secret |-> run.secret, key |-> run.key, size |-> run.size, pieces |-> run.pieces,
     preset |-> run.preset, url |-> IF run.preset = "compact" THEN 0 ELSE run.url]

\* plainContent and encryptedContent: a compact plain event does not name its upload.
Content(run) ==
    [secret |-> run.secret, key |-> run.key, size |-> run.size, pieces |-> run.pieces,
     preset |-> run.preset,
     url |-> IF run.preset = "compact" /\ ~ run.secret THEN 0 ELSE run.url]

\* The room gets the event, whether its answer comes back or not.
Send ==
    /\ send.at = "send"
    /\ events' = events \cup {Content(send)} /\ send' = NoSend
    /\ UNCHANGED <<assembles, secret, uploads, marked, sends>>

-----------------------------------------------------------------------------
Next ==
    \/ \E size \in Sizes, pieces \in Chunks, preset \in SendPresets : Attach(size, pieces, preset)
    \/ EncryptRoom \/ Fails \/ Upload \/ PostPart \/ ShareKey \/ Send

-----------------------------------------------------------------------------
\* An event names an upload of its own run, encrypted with the key the event carries exactly
\* if the event is one for an encrypted room; the upload is the whole file, unless it was
\* sent in parts to a server that takes each for an upload of its own.  Only a compact plain
\* event names none.
NamesItsFile ==
    \A e \in events :
        IF e.url = 0 THEN e.preset = "compact" /\ ~ e.secret
        ELSE LET u == uploads[e.url] IN
             /\ u.key = e.key /\ e.secret = (e.key # 0)
             /\ u.bytes = e.size \/ (e.pieces > 1 /\ ~ assembles)
             /\ u.first = 0 /\ u.bytes <= e.size
=============================================================================
