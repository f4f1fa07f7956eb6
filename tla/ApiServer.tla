----------------------------- MODULE ApiServer ------------------------------
(***************************************************************************)
(* The local API server (lib/api/server.cpp) with its WebSocket sessions    *)
(* and its event bus (lib/api/websocket.cpp).  Each connection has a        *)
(* detached thread; what a thread sends, reads or closes, it does to        *)
(* whatever connection its descriptor is the number of at that moment.  A   *)
(* session's destructor closes the descriptor, and the thread then closes   *)
(* it once more.                                                            *)
(*                                                                         *)
(* Requests, answered and frames are kept as what the server makes of them.  *)
(* The bus holds pointers into the stacks of the threads; a send through    *)
(* one that is stale may go to any descriptor or to none.                   *)
(***************************************************************************)
EXTENDS Integers, Sequences, FiniteSets, SequencesExt

CONSTANTS
    MaxClients,     \* bound on the connections
    MaxFrames       \* bound on the frames read

ServerAssumption == {MaxClients, MaxFrames} \subseteq Nat

Clients == 1..MaxClients

VARIABLES
    running,    \* _running
    owner,      \* the connection a descriptor refers to (0: none)
    asked,      \* connections whose request nobody has read
    worker,     \* handleClient's threads
    bus,        \* EventBus::_sessions: whose session
    lock,       \* who holds EventBus::_mutex (0: nobody)
    frames,     \* frames read so far
    published,  \* messages broadcast so far
    received,   \* the messages each connection was sent
    answered,   \* whose request was answered to whom
    taken,      \* connections another thread has closed
    beside      \* connections accepted while a thread stood between its two closes

serverVars == <<running, owner, asked, worker>>
busVars == <<bus, lock, frames, published, received>>
seen == <<answered, taken, beside>>
apiServerVars == <<running, owner, asked, worker, bus, lock, frames, published, received,
                   answered, taken, beside>>

\* The states of a thread whose session exists, and those of one that serves it.
Open == {"handshake", "subscribe", "read", "publish", "throw", "sending", "unsubscribe", "destroy"}
Places == Open \cup {"none", "recv", "answer", "close", "again", "gone"}

NoWorker == [at |-> "none", fd |-> 0, of |-> 0, open |-> TRUE, rest |-> <<>>, msg |-> 0, threw |-> FALSE]

TypeOK ==
    /\ owner \in [Clients -> 0..MaxClients] /\ asked \subseteq Clients /\ lock \in 0..MaxClients
    /\ \A c \in Clients : worker[c].at \in Places /\ worker[c].fd \in 0..MaxClients
    /\ bus \in Seq(Clients) /\ frames \in 0..MaxFrames /\ published \in 0..MaxFrames
    /\ answered \subseteq Clients \X Clients /\ taken \subseteq Clients /\ beside \subseteq Clients

Init ==
    /\ running = TRUE /\ owner = [f \in Clients |-> 0] /\ asked = {}
    /\ worker = [c \in Clients |-> NoWorker]
    /\ bus = <<>> /\ lock = 0 /\ frames = 0 /\ published = 0 /\ received = [c \in Clients |-> <<>>]
    /\ answered = {} /\ taken = {} /\ beside = {}

-----------------------------------------------------------------------------
(* Accepting. *)

Ended(c) == worker[c].at = "again" /\ worker[c].of # 0

\* A connection gets the lowest descriptor that is free, and a thread.
Accept(c) ==
    /\ running /\ worker[c].at = "none" /\ \A d \in 1..(c - 1) : worker[d].at # "none"
    /\ LET fd == CHOOSE f \in Clients : owner[f] = 0 /\ \A g \in 1..(f - 1) : owner[g] # 0
       IN  /\ owner' = [owner EXCEPT ![fd] = c]
           /\ worker' = [worker EXCEPT ![c].at = "recv", ![c].fd = fd]
    /\ asked' = asked \cup {c}
    /\ beside' = IF \E d \in Clients : Ended(d) THEN beside \cup {c} ELSE beside
    /\ UNCHANGED <<running, busVars, answered, taken>>

\* stop: the listening socket is closed; the threads go on.
Stop ==
    /\ running /\ running' = FALSE
    /\ UNCHANGED <<owner, asked, worker, busVars, seen>>

-----------------------------------------------------------------------------
(* A thread up to its answer. *)

At(c, place) == worker[c].at = place
Go(c, place) == worker' = [worker EXCEPT ![c].at = place]
Peer(c) == owner[worker[c].fd]

\* The head of a request comes, or nothing: the connection was closed.
Recv(c) ==
    /\ At(c, "recv")
    /\ \/ /\ Peer(c) \in asked
          /\ asked' = asked \ {Peer(c)}
          /\ \E kind \in {"answer", "handshake"} :
                 worker' = [worker EXCEPT ![c].at = kind, ![c].of = Peer(c)]
       \/ Go(c, "close") /\ asked' = asked \ {Peer(c)}
    /\ UNCHANGED <<running, owner, busVars, seen>>

\* parseRequest, the handler that was found or a 404, or a 500.
Answer(c) ==
    /\ At(c, "answer") /\ Go(c, "close")
    /\ answered' = IF Peer(c) = 0 THEN answered ELSE answered \cup {<<worker[c].of, Peer(c)>>}
    /\ UNCHANGED <<running, owner, asked, busVars, taken, beside>>

\* close: of the connection the number stands for now.
Close(c) ==
    /\ owner' = [owner EXCEPT ![worker[c].fd] = 0]
    /\ taken' = IF Peer(c) \in {0, c} THEN taken ELSE taken \cup {Peer(c)}

\* Seeded fault: every thread closes twice.
CloseTwice(c) ==
    /\ At(c, "close") /\ Close(c) /\ worker' = [worker EXCEPT ![c].at = "again", ![c].of = 0]
    /\ UNCHANGED <<running, asked, busVars, answered, beside>>

CloseConnection(c) ==
    /\ At(c, "close") /\ Close(c) /\ Go(c, "gone")
    /\ UNCHANGED <<running, asked, busVars, answered, beside>>

-----------------------------------------------------------------------------
(* A WebSocket session. *)

\* Without a key, or when the answer cannot be sent, the session ends.
Handshake(c) ==
    /\ At(c, "handshake") /\ \E next \in {"subscribe", "destroy"} : Go(c, next)
    /\ UNCHANGED <<running, owner, asked, busVars, seen>>

Subscribe(c) ==
    /\ At(c, "subscribe") /\ lock = 0
    /\ bus' = Append(bus, c) /\ Go(c, "read")
    /\ UNCHANGED <<running, owner, asked, lock, frames, published, received, seen>>

\* Seeded fault: a ping ends the session at once.
FrameLeaves(c) ==
    /\ At(c, "read") /\ frames < MaxFrames /\ frames' = frames + 1
    /\ \E next \in {"publish", "throw", "unsubscribe", "destroy"} : Go(c, next)
    /\ UNCHANGED <<running, owner, asked, bus, lock, published, received, seen>>

\* A whole text is published; one that is not UTF-8 cannot be dumped.  A ping is answered
\* and a part of a message dropped, and both end the session.
Frame(c) ==
    /\ At(c, "read") /\ frames < MaxFrames /\ frames' = frames + 1
    /\ \E next \in {"publish", "throw", "unsubscribe"} : Go(c, next)
    /\ UNCHANGED <<running, owner, asked, bus, lock, published, received, seen>>

\* A close, a frame above the limit, or the end of the connection.
EndOfFrames(c) ==
    /\ At(c, "read")
    /\ worker' = [worker EXCEPT ![c].at = "unsubscribe", ![c].open = FALSE]
    /\ UNCHANGED <<running, owner, asked, busVars, seen>>

\* Seeded fault: the sessions are copied under the lock, and sent to without it.
BroadcastUnlocked(c) ==
    /\ At(c, "publish") /\ lock = 0
    /\ published' = published + 1
    /\ worker' = [worker EXCEPT ![c].at = "sending", ![c].rest = bus, ![c].msg = published + 1]
    /\ UNCHANGED <<running, owner, asked, lock, bus, frames, received, seen>>

\* broadcast takes the lock and keeps it until the last session has the message.
Broadcast(c) ==
    /\ At(c, "publish") /\ lock = 0
    /\ lock' = c /\ published' = published + 1
    /\ worker' = [worker EXCEPT ![c].at = "sending", ![c].rest = bus, ![c].msg = published + 1]
    /\ UNCHANGED <<running, owner, asked, bus, frames, received, seen>>

\* The exception leaves the session subscribed.
Throw(c) ==
    /\ At(c, "throw") /\ lock = 0
    /\ worker' = [worker EXCEPT ![c].at = "destroy", ![c].threw = TRUE]
    /\ UNCHANGED <<running, owner, asked, busVars, seen>>

\* Through a stale pointer the message goes anywhere.
Targets(s) ==
    IF worker[s].at \notin Open THEN {0} \cup { owner[f] : f \in Clients }
    ELSE IF worker[s].open THEN {Peer(s)} ELSE {0}

SendOne(c) ==
    /\ At(c, "sending") /\ worker[c].rest # <<>>
    /\ \E d \in Targets(Head(worker[c].rest)) :
           received' = IF d = 0 THEN received ELSE [received EXCEPT ![d] = Append(@, worker[c].msg)]
    /\ worker' = [worker EXCEPT ![c].rest = Tail(@)]
    /\ UNCHANGED <<running, owner, asked, bus, lock, frames, published, seen>>

Sent(c) ==
    /\ At(c, "sending") /\ worker[c].rest = <<>>
    /\ lock' = 0 /\ Go(c, "read")
    /\ UNCHANGED <<running, owner, asked, bus, frames, published, received, seen>>

Unsubscribe(c) ==
    /\ At(c, "unsubscribe") /\ lock = 0
    /\ bus' = SelectSeq(bus, LAMBDA s : s # c) /\ Go(c, "destroy")
    /\ UNCHANGED <<running, owner, asked, lock, frames, published, received, seen>>

\* ~WebSocketSession.
Destroy(c) ==
    /\ At(c, "destroy") /\ Close(c) /\ Go(c, "again")
    /\ UNCHANGED <<running, asked, busVars, answered, beside>>

\* handleClient's own shutdown and close.
CloseAgain(c) ==
    /\ At(c, "again") /\ Close(c) /\ Go(c, "gone")
    /\ UNCHANGED <<running, asked, busVars, answered, beside>>

-----------------------------------------------------------------------------
Session(c) ==
    \/ Handshake(c) \/ Subscribe(c) \/ Frame(c) \/ EndOfFrames(c) \/ Broadcast(c) \/ Throw(c)
    \/ SendOne(c) \/ Sent(c) \/ Unsubscribe(c) \/ Destroy(c) \/ CloseAgain(c)

Next ==
    \/ Stop
    \/ \E c \in Clients : Accept(c) \/ Recv(c) \/ Answer(c) \/ CloseConnection(c) \/ Session(c)

-----------------------------------------------------------------------------
InOrder(ms) == \A i \in 1..(Len(ms) - 1) : ms[i + 1] = ms[i] + 1

\* Every subscriber is sent the messages in the one order they were published in, with no
\* gap, whatever the threads do beside each other; but for descriptors that changed hands
\* and sessions a thread left behind.
SubscribersAgree ==
    taken = {} /\ (\A c \in Clients : ~ worker[c].threw) => \A c \in Clients : InOrder(received[c])

\* The bus points to a session that is gone only where a text could not be dumped: then the
\* thread leaves without unsubscribing, and nothing else does.
BusHoldsLiving == \A c \in ToSet(bus) : worker[c].at \in Open \/ worker[c].threw

\* A connection is closed by another's thread only when it was accepted between the two
\* closes of a session, or by one that lost its descriptor so; and an answer goes to its
\* asker unless that happened.
OwnConnection ==
    /\ taken # {} => beside # {}
    /\ \A pair \in answered : pair[1] = pair[2] \/ taken # {}
=============================================================================
