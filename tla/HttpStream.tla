----------------------------- MODULE HttpStream -----------------------------
(***************************************************************************)
(* A model's answer over HTTP: Client::streamPost and parseHttpResponse of  *)
(* lib/http/http.cpp, the readers of its event stream (SseEventAssembler of *)
(* lib/util/llm_sse.cpp for `llm`, feedOpenAiSse for the agent) and what    *)
(* agenttools::run takes for an answer.                                     *)
(*                                                                         *)
(* The response is a sequence of symbols that the socket hands over in      *)
(* pieces of any length: "cr" and "lf" are characters, every other symbol   *)
(* a piece of a line without one.  Both readers listen to the same stream.  *)
(***************************************************************************)
EXTENDS Integers, SequencesExt, FiniteSetsExt

CONSTANTS
    MaxChunks,   \* bound: chunks the body is sent in
    MaxRead,     \* bound: symbols of a read that does not take all there is
    MaxAttempts  \* the 3 of "attempts < 3"

HttpAssumption == MaxChunks \in Nat \ {0} /\ MaxRead \in Nat \ {0} /\ MaxAttempts \in Nat \ {0}

VARIABLES
    resp,       \* the response the server sends
    phase,      \* where streamPost, and then run, stands
    sock,       \* whether a socket is open
    pos,        \* symbols read
    pending,    \* decPending
    remain,     \* dataRemain, 0 outside a chunk
    delivered,  \* what onChunk was given
    llm, agent, \* the readers
    abort,      \* Esc or Ctrl+C was pressed
    attempts,   \* further requests
    answer      \* what the turn goes on with

vars == <<resp, phase, sock, pos, pending, remain, delivered, llm, agent, abort, attempts, answer>>

-----------------------------------------------------------------------------
(* What servers send.                                                      *)

CRLF == <<"cr", "lf">>
Digits == <<"1", "2", "3", "4", "5", "6", "7", "8", "9", "10">>

\* Two events, the first in two pieces, and the end; or a plain document.
Stream == <<"a", "b", "lf", "lf", "c", "lf", "lf", "[DONE]", "lf", "lf">>
Sent == << <<"a", "b">>, <<"c">> >>
Document == <<"{", "}">>

Body(r) == IF r.plain THEN Document ELSE Stream

\* The ways to cut a body into chunks.
Cuts(n) == {c \in SUBSET (1..(n - 1)) : Cardinality(c) < MaxChunks}

Chunk(r, from, to) == <<Digits[to - from]>> \o CRLF \o SubSeq(Body(r), from + 1, to) \o CRLF

\* A chunked body: its chunks, and one of length 0.
Framed(r) ==
    LET ends == SetToSortSeq(r.cuts \cup {Len(Body(r))}, <)
        parts == [i \in DOMAIN ends |-> Chunk(r, IF i = 1 THEN 0 ELSE ends[i - 1], ends[i])] IN
    FlattenSeq(parts) \o <<"0">> \o CRLF \o CRLF

\* Transfer-Encoding may come first or last, or in another case, which is not recognised.
HeaderLines(r) ==
    CASE r.te = "first" -> <<"te", "other">>
      [] r.te = "last" -> <<"other", "te">>
      [] OTHER -> <<"other">>

Wire(r) ==
    <<"status">> \o CRLF \o FlattenSeq([i \in DOMAIN HeaderLines(r) |-> <<HeaderLines(r)[i]>> \o CRLF])
        \o CRLF \o IF r.te = "none" THEN Body(r) ELSE Framed(r)

Responses ==
    {r \in [ok : BOOLEAN, plain : BOOLEAN, te : {"first", "last", "lower", "none"},
            cuts : Cuts(Len(Stream))] :
        /\ r.te = "none" => r.cuts = {}
        /\ r.plain => r.cuts \subseteq {1}
        /\ ~r.ok => r.plain /\ r.cuts = {}}

-----------------------------------------------------------------------------
(* The whole response at once: parseHttpResponse, used by doRequest.       *)

\* Where the first of these pieces begins at or after a place, 0 if nowhere.
Find(s, piece, from) ==
    LET at == {i \in from..(Len(s) - Len(piece) + 1) : SubSeq(s, i, i + Len(piece) - 1) = piece} IN
    IF at = {} THEN 0 ELSE Min(at)

SizeOf(line) == IF Len(line) = 1 /\ line[1] \in ToSet(Digits) THEN CHOOSE n \in DOMAIN Digits : Digits[n] = line[1] ELSE 0

HeaderEnd(s) == Find(s, CRLF \o CRLF, 1)

\* The header lines of a block, without the status line.
Headers(s) == SelectSeq(SubSeq(s, 2, HeaderEnd(s)), LAMBDA x : x \notin {"cr", "lf"})

\* The chunks that are there whole, up to the first line that is no size, or 0.
Dechunked(s) ==
    LET From[p \in 1..(Len(s) + 2)] ==
            LET nl == IF p > Len(s) THEN 0 ELSE Find(s, CRLF, p)
                n == IF nl = 0 THEN 0 ELSE SizeOf(SubSeq(s, p, nl - 1)) IN
            IF n = 0 \/ nl + 1 + n > Len(s) THEN <<>>
            ELSE SubSeq(s, nl + 2, nl + 1 + n) \o From[Min({nl + n + 4, Len(s) + 2})]
    IN From[1]

\* The header block ends before the last line's own CRLF, so the last header is dropped.
Whole(s) ==
    IF HeaderEnd(s) = 0 THEN <<>>
    ELSE LET body == SubSeq(s, HeaderEnd(s) + 4, Len(s)) IN
         IF "te" \in ToSet(Front(Headers(s))) THEN Dechunked(body) ELSE body

-----------------------------------------------------------------------------
(* The readers, symbol by symbol; a line ends with "lf".                   *)

NoCr(line) == IF line # <<>> /\ line[Len(line)] = "cr" THEN Front(line) ELSE line

\* SseEventAssembler: a blank line ends an event.
LlmSymbol(s, x) ==
    IF x # "lf" THEN [s EXCEPT !.line = Append(@, x)]
    ELSE IF NoCr(s.line) # <<>> THEN [s EXCEPT !.line = <<>>, !.event = @ \o NoCr(s.line)]
    ELSE [s EXCEPT !.line = <<>>, !.event = <<>>,
                   !.got = IF s.event \in {<<>>, <<"[DONE]">>} THEN @ ELSE Append(@, s.event)]

\* Seeded fault: the end of the chunk ends the line.
AgentSymbolNoWait(s, x) ==
    LET line == NoCr(s.line) IN
    IF x # "lf" THEN [s EXCEPT !.line = <<x>>, !.raw = Append(@, x)]
    ELSE [s EXCEPT !.line = <<>>, !.raw = Append(@, x),
                   !.done = @ \/ line = <<"[DONE]">>,
                   !.got = IF line \in ToSet(Sent) THEN Append(@, line) ELSE @]

\* feedOpenAiSse: every line is an event of its own; one that does not parse is passed over.
AgentSymbol(s, x) ==
    LET line == NoCr(s.line) IN
    IF x # "lf" THEN [s EXCEPT !.line = Append(@, x), !.raw = Append(@, x)]
    ELSE [s EXCEPT !.line = <<>>, !.raw = Append(@, x),
                   !.done = @ \/ line = <<"[DONE]">>,
                   !.got = IF line \in ToSet(Sent) THEN Append(@, line) ELSE @]

OnChunk(data) ==
    /\ delivered' = delivered \o data
    /\ llm' = FoldLeft(LlmSymbol, llm, data)
    /\ agent' = FoldLeft(AgentSymbol, agent, data)

-----------------------------------------------------------------------------
(* streamPost.                                                             *)

Init ==
    /\ resp \in Responses
    /\ phase = "connect" /\ sock = FALSE /\ pos = 0 /\ pending = <<>> /\ remain = 0 /\ delivered = <<>>
    /\ llm = [line |-> <<>>, event |-> <<>>, got |-> <<>>]
    /\ agent = [line |-> <<>>, raw |-> <<>>, got |-> <<>>, done |-> FALSE]
    /\ abort = FALSE /\ attempts = 0 /\ answer = "none"

read == <<pos, pending, remain, delivered, llm, agent>>

Connect ==
    /\ phase = "connect"
    /\ \/ phase' = "proxy" /\ sock' = TRUE
       \/ phase' = "closed" /\ UNCHANGED sock
    /\ UNCHANGED <<resp, read, abort, attempts, answer>>

\* Seeded fault: a failed handshake leaves the socket.
SetUpLeaks ==
    /\ phase \in {"proxy", "tls", "send"}
    /\ \/ phase' = (CASE phase = "proxy" -> "tls" [] phase = "tls" -> "send" [] OTHER -> "read")
          /\ UNCHANGED sock
       \/ phase' = "closed" /\ sock' = (phase = "tls")
    /\ UNCHANGED <<resp, read, abort, attempts, answer>>

\* The proxy's handshake, TLS and sending the request: each may fail, and then the socket is closed.
SetUp ==
    /\ phase \in {"proxy", "tls", "send"}
    /\ \/ phase' = (CASE phase = "proxy" -> "tls" [] phase = "tls" -> "send" [] OTHER -> "read")
          /\ UNCHANGED sock
       \/ phase' = "closed" /\ sock' = FALSE
    /\ UNCHANGED <<resp, read, abort, attempts, answer>>

HeadersDone == HeaderEnd(SubSeq(Wire(resp), 1, pos)) # 0
IsChunked == "te" \in ToSet(HeaderLines(resp))

\* readSome: a piece of the response, looked at by feed once the header block is there.
Read ==
    LET wire == Wire(resp)
        left == Len(wire) - pos IN
    \E n \in {k \in 1..left : k <= MaxRead \/ k = left} :
        /\ phase = "read" /\ ~abort
        /\ pos' = pos + n
        /\ LET end == HeaderEnd(SubSeq(wire, 1, pos + n))
               fresh == SubSeq(wire, Max({pos + 1, end + 4}), pos + n) IN
           IF end = 0 THEN UNCHANGED <<phase, pending>>
           ELSE phase' = "feed" /\ pending' = pending \o fresh
        /\ UNCHANGED <<resp, sock, remain, delivered, llm, agent, abort, attempts, answer>>

FeedPlain ==
    /\ phase = "feed" /\ ~IsChunked
    /\ OnChunk(pending) /\ pending' = <<>> /\ phase' = "read"
    /\ UNCHANGED <<resp, sock, pos, remain, abort, attempts, answer>>

\* The line with a chunk's length; an empty one is what follows the chunk before.
FeedSize ==
    /\ phase = "feed" /\ IsChunked /\ remain = 0
    /\ LET nl == Find(pending, CRLF, 1)
           line == SubSeq(pending, 1, nl - 1)
           rest == SubSeq(pending, nl + 2, Len(pending)) IN
       /\ nl # 0
       /\ remain' = SizeOf(line)
       /\ phase' = IF line = <<>> \/ SizeOf(line) # 0 THEN "feed" ELSE "read"
       /\ pending' = IF line = <<"0">> THEN <<>> ELSE rest
    /\ UNCHANGED <<resp, sock, pos, delivered, llm, agent, abort, attempts, answer>>

\* Seeded fault: what follows a chunk is taken to be there with it.
FeedDataSkips ==
    /\ phase = "feed" /\ remain # 0 /\ Len(pending) >= remain
    /\ OnChunk(SubSeq(pending, 1, remain))
    /\ pending' = SubSeq(pending, remain + 3, Len(pending)) /\ remain' = 0
    /\ UNCHANGED <<resp, phase, sock, pos, abort, attempts, answer>>

\* A chunk is handed on when all of it has come.
FeedData ==
    /\ phase = "feed" /\ remain # 0 /\ Len(pending) >= remain
    /\ OnChunk(SubSeq(pending, 1, remain))
    /\ pending' = SubSeq(pending, remain + 1, Len(pending)) /\ remain' = 0
    /\ UNCHANGED <<resp, phase, sock, pos, abort, attempts, answer>>

FeedWaits ==
    /\ phase = "feed" /\ IsChunked
    /\ IF remain = 0 THEN Find(pending, CRLF, 1) = 0 ELSE Len(pending) < remain
    /\ phase' = "read"
    /\ UNCHANGED <<resp, sock, read, abort, attempts, answer>>

\* The server closes the connection, nothing comes for too long, or the user stopped.
Close ==
    /\ phase = "read" /\ phase' = "closed" /\ sock' = FALSE
    /\ UNCHANGED <<resp, read, abort, attempts, answer>>

Abort ==
    /\ phase \in {"read", "feed"} /\ ~abort /\ abort' = TRUE
    /\ UNCHANGED <<resp, phase, sock, read, attempts, answer>>

-----------------------------------------------------------------------------
(* What the agent's turn makes of it.                                      *)

StatusOk == resp.ok /\ HeadersDone

\* Seeded fault: what came counts, whether or not the end did.
TakeAnyStream ==
    /\ phase = "closed" /\ phase' = "over"
    /\ StatusOk /\ agent.got # <<>>
    /\ answer' = IF abort THEN "interrupted" ELSE "streamed"
    /\ UNCHANGED <<resp, sock, read, abort, attempts>>

\* The stream counts only with its end; a server that does not stream has sent a document.
TakeStream ==
    /\ phase = "closed" /\ phase' = "over"
    /\ \/ abort /\ answer' = "interrupted"
       \/ ~abort /\ StatusOk /\ agent.done /\ agent.got # <<>> /\ answer' = "streamed"
       \/ ~abort /\ StatusOk /\ agent.raw = Document /\ answer' = "plain"
    /\ UNCHANGED <<resp, sock, read, abort, attempts>>

\* Otherwise the model is asked again, without a stream.
AskAgain ==
    /\ phase = "closed" /\ ~abort
    /\ ~(StatusOk /\ agent.done /\ agent.got # <<>>) /\ ~(StatusOk /\ agent.raw = Document)
    /\ phase' = "again"
    /\ UNCHANGED <<resp, sock, read, abort, attempts, answer>>

Documents == {r \in Responses : r.plain /\ r.ok}

\* Such a response may be cut anywhere, too; then it does not parse.
Again ==
    /\ phase = "again" /\ phase' = "over"
    /\ \E r \in Documents :
        \E n \in 0..Len(Wire(r)) :
            answer' = IF Whole(SubSeq(Wire(r), 1, n)) = Document THEN "plain" ELSE "error"
    /\ UNCHANGED <<resp, sock, read, abort, attempts>>

\* A server that is busy is asked up to MaxAttempts times; another refusal is an error.
AgainRefused ==
    /\ phase = "again"
    /\ \E busy \in BOOLEAN :
        IF busy /\ attempts + 1 < MaxAttempts
        THEN attempts' = attempts + 1 /\ UNCHANGED <<phase, answer>>
        ELSE phase' = "over" /\ answer' = "error" /\ UNCHANGED attempts
    /\ UNCHANGED <<resp, sock, read, abort>>

Next ==
    \/ Connect \/ SetUp \/ Read \/ FeedPlain \/ FeedSize \/ FeedData \/ FeedWaits \/ Close \/ Abort
    \/ TakeStream \/ AskAgain \/ Again \/ AgainRefused

Spec == Init /\ [][Next]_vars

-----------------------------------------------------------------------------
(* Properties. *)

\* Type invariant.
TypeOK ==
    /\ resp \in Responses
    /\ phase \in {"connect", "proxy", "tls", "send", "read", "feed", "closed", "again", "over"}
    /\ sock \in BOOLEAN /\ abort \in BOOLEAN
    /\ pos \in 0..Len(Wire(resp)) /\ remain \in 0..Len(Digits)
    /\ attempts \in 0..(MaxAttempts - 1)
    /\ answer \in {"none", "streamed", "plain", "interrupted", "error"}

\* However the response was cut into reads, what was handed on is what the decoder of whole
\* responses makes of the part that was read - but for an encoding named in the last header,
\* which that decoder does not see.
SplitsDoNotMatter ==
    (phase \in {"read", "closed"} /\ resp.te # "last") =>
        delivered = Whole(SubSeq(Wire(resp), 1, pos))

\* Where the encoding is recognised both readers have the events that were sent, in order, and
\* all of them once the whole response is read.
EventsInOrder ==
    (resp.te # "lower" /\ ~resp.plain) =>
        /\ IsPrefix(llm.got, Sent) /\ IsPrefix(agent.got, Sent)
        /\ (phase = "read" /\ pos = Len(Wire(resp))) =>
            llm.got = Sent /\ agent.got = Sent /\ agent.done

\* The agent goes on with no part of an answer, whenever the connection broke.
AnswerIsWhole ==
    (answer = "streamed" /\ resp.te # "lower") => agent.got = Sent

\* However the request ended, its socket is closed.
NoSocketLeft == phase \in {"closed", "again", "over"} => ~sock

=============================================================================
