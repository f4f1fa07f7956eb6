-------------------------------- MODULE MCSync --------------------------------
(*****************************************************************************)
(* What the client takes from the server, part by part, checked side by      *)
(* side: the stream of the sync loop, the offline cache with its restarts,   *)
(* and a model's answer over HTTP. The parts share no state: a behaviour     *)
(* moves one of them, chosen at the start; the others stand still at 0.      *)
(*****************************************************************************)
EXTENDS Integers, Sequences, FiniteSets

CONSTANTS
    Sessions, Limit, MaxStream, MaxRuns,                    \* SyncStream
    Msgs, MaxName, MaxClock, PendingLimit, MaxRestart,      \* OfflineCache
    MaxChunks, MaxRead, MaxAttempts                         \* HttpStream

VARIABLES
    part,    \* the part that moves
    keys,  \* of stream, cache
    pending,  \* of cache, http
    pos,  \* of cache, http
    stream, born, pc, token, todo, known, rows, shown, missed, reply, runs,  \* SyncStream
    row, stored, members, work, name, fed, sent, status, told, clock,
    restarts, forgotten, seenName,  \* OfflineCache
    resp, phase, sock, remain, delivered, llm, agent, abort, attempts,
    answer  \* HttpStream

Stream == INSTANCE SyncStream
Cache  == INSTANCE OfflineCache
H      == INSTANCE HttpStream

ASSUME SyncAssumption ==
    /\ Stream!SyncAssumption
    /\ Cache!CacheAssumption
    /\ H!HttpAssumption

-----------------------------------------------------------------------------
streamVars == <<stream, born, pc, token, todo, known, rows, shown, missed, reply, runs>>
cacheVars == <<row, stored, members, work, name, fed, sent, status, told, clock, restarts,
             forgotten, seenName>>
httpVars == <<resp, phase, sock, remain, delivered, llm, agent, abort, attempts, answer>>
vars == <<part, keys, pending, pos, streamVars, cacheVars, httpVars>>

\* The parts that stand still.
NoStream == stream = 0 /\ born = 0 /\ pc = 0 /\ token = 0 /\ todo = 0 /\ known = 0 /\ rows = 0
            /\ shown = 0 /\ missed = 0 /\ reply = 0 /\ runs = 0
NoCache == row = 0 /\ stored = 0 /\ members = 0 /\ work = 0 /\ name = 0 /\ fed = 0 /\ sent = 0
           /\ status = 0 /\ told = 0 /\ clock = 0 /\ restarts = 0 /\ forgotten = 0 /\ seenName = 0
NoH == resp = 0 /\ phase = 0 /\ sock = 0 /\ remain = 0 /\ delivered = 0 /\ llm = 0 /\ agent = 0
       /\ abort = 0 /\ attempts = 0 /\ answer = 0

Init ==
    \/ /\ part = "stream" /\ Stream!Init
       /\ pending = 0 /\ pos = 0 /\ NoCache /\ NoH
    \/ /\ part = "cache" /\ Cache!Init
       /\ NoStream /\ NoH
    \/ /\ part = "http" /\ H!Init
       /\ keys = 0 /\ NoStream /\ NoCache

Next ==
    /\ UNCHANGED part
    /\ \/ /\ part = "stream" /\ Stream!Next
          /\ UNCHANGED <<pending, pos, cacheVars, httpVars>>
       \/ /\ part = "cache" /\ Cache!Next
          /\ UNCHANGED <<streamVars, httpVars>>
       \/ /\ part = "http" /\ H!Next
          /\ UNCHANGED <<keys, streamVars, cacheVars>>

\* The thread does not stop and the server is reached again and again (SyncStream!Fairness);
\* the engine's replies are fetched and worked through (OfflineCache!Fairness).
Fairness ==
    /\ WF_vars(part = "stream" /\ Stream!SyncThread /\ UNCHANGED <<part, pending, pos, cacheVars, httpVars>>)
    /\ SF_vars(part = "stream" /\ Stream!PollOk(Len(stream)) /\ UNCHANGED <<part, pending, pos, cacheVars, httpVars>>)
    /\ WF_vars(part = "cache" /\ Cache!Reply /\ UNCHANGED <<part, streamVars, httpVars>>)
    /\ WF_vars(part = "cache" /\ Cache!Feed /\ UNCHANGED <<part, streamVars, httpVars>>)

Spec == Init /\ [][Next]_vars
FairSpec == Spec /\ Fairness

-----------------------------------------------------------------------------
\* Each part that moves keeps its shape.
TypeOK ==
    /\ part = "stream" => Stream!TypeOK
    /\ part = "cache" => Cache!TypeOK
    /\ part = "http" => H!TypeOK

\* Nothing the server sent is lost without a reason.  SyncStream: an event before next_batch
\* was given to the callback, is still to be handled, or was passed over.  OfflineCache: an
\* event stored undecrypted is on the list of those to try again, and a message handed over
\* is stored or still to be.  HttpStream: what is handed on is what a decoder of the whole
\* response makes of what was read, however it was cut; no part of an answer is taken for
\* it; and no socket is left.
NothingSkipped ==
    /\ part = "stream" => Stream!NothingSkipped
    /\ part = "cache" => Cache!RawIsRemembered /\ Cache!HandedOverIsStored
    /\ part = "http" => H!SplitsDoNotMatter /\ H!AnswerIsWhole /\ H!NoSocketLeft

\* SyncStream: in one run the callback sees each room event once and in stream order.
\* OfflineCache: the room list never shows a name that has been replaced.  HttpStream: the readers have the events that were
\* sent, in order, and at the end all of them.
ShownInOrder ==
    /\ part = "stream" => Stream!ShownOnceInOrder
    /\ part = "cache" => Cache!NoStaleName
    /\ part = "http" => H!EventsInOrder

\* SyncStream: an event stored as ciphertext had no key in time.
KeyInTimeDecrypts == part = "stream" => Stream!KeyInTimeDecrypts

\* OfflineCache: an invitation keeps the date it was first seen at, and a decrypted text is
\* never overwritten.
CacheKept == [][part = "cache" => Cache!InviteKept /\ Cache!TextKept]_vars

\* SyncStream: as long as the process runs, every event of the stream is handled or passed
\* over in the end.  OfflineCache: with its key at hand an event becomes readable.
EventuallyHandled ==
    /\ \A p \in 1..MaxStream :
           (part = "stream" /\ p <= Len(stream)) ~>
           (part = "stream" => pc = "down" \/ (p <= token /\ p \notin Stream!ToSet(todo)))
    /\ \A m \in Msgs :
           (part = "cache" /\ m \in pending /\ m \in keys) ~>
           (part = "cache" => stored[m] = "text" \/ m \in forgotten)

\* "Handle to-device events (m.room_key, m.room.encrypted Olm)" (SyncStream).
SessionsOfHandledKeys == part = "stream" => Stream!SessionsOfHandledKeys

=============================================================================
