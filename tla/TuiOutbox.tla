----------------------------- MODULE TuiOutbox ------------------------------
(***************************************************************************)
(* The outbox of the terminal client (demo_tui.cpp, cmd_tui_events.cpp):   *)
(* the UI thread sends what the user types and queues what could not be    *)
(* sent; the sync thread of Client::startSync tries the whole queue again  *)
(* in front of every event of a /sync reply, holding g_queueMutex across   *)
(* the requests.  Leaving the client joins the sync thread.                *)
(*                                                                         *)
(* Each request carries a transaction id of its own, so the server takes   *)
(* every request as a new message: accepted[m] is the set of the requests  *)
(* for m it took, numbered in the order they were made.  A request may be  *)
(* taken after the client stopped waiting for it.                          *)
(***************************************************************************)
EXTENDS Naturals, Sequences, FiniteSets, SequencesExt

CONSTANTS
    NumRooms,       \* the rooms, visited in the order of the map
    MaxMessages,    \* how many messages the user types
    MaxRetry,       \* the 5 of "it->second > 5"
    MaxBatch        \* the events of the largest /sync reply

ASSUME OutboxAssumption ==
    /\ NumRooms \in Nat \ {0}
    /\ MaxMessages \in Nat
    /\ MaxRetry \in Nat
    /\ MaxBatch \in Nat

VARIABLES
    ui,             \* where the UI thread is
    hand,           \* the message in its send callback and that message's room
    queue,          \* g_msgQueue: for each room the <<message, failures>> pairs
    sync,           \* where the sync thread is
    at,             \* <<room, index>> of the entry it is sending, under the lock
    left,           \* events of the current reply still to be handled
    syncing,        \* Impl::syncing
    composed,       \* how many messages were typed so far
    attempts,       \* the requests made for each message
    accepted,       \* the ones the server took
    outcome         \* what the client believes of each message

program == <<ui, hand, queue, sync, at, left, syncing>>
vars == <<ui, hand, queue, sync, at, left, syncing,
          composed, attempts, accepted, outcome>>

Rooms == 1 .. NumRooms
Messages == 1 .. MaxMessages
Nobody == [msg |-> 0, room |-> 0]
Nowhere == <<0, 0>>

TypeOK ==
    /\ ui \in {"idle", "send", "typing", "queueing", "joining", "gone"}
    /\ hand \in [msg : 0 .. MaxMessages, room : 0 .. NumRooms]
    /\ queue \in [Rooms -> Seq(Messages \X (0 .. MaxRetry))]
    /\ sync \in {"top", "poll", "received", "event", "flush", "show", "sleep",
                 "ended"}
    /\ at \in (0 .. NumRooms) \X Nat
    /\ left \in 0 .. MaxBatch
    /\ syncing \in BOOLEAN
    /\ composed \in 0 .. MaxMessages
    /\ attempts \in [Messages -> 0 .. MaxRetry + 2]
    /\ accepted \in [Messages -> SUBSET (1 .. MaxRetry + 2)]
    /\ outcome \in [Messages -> {"open", "confirmed", "abandoned"}]

Init ==
    /\ ui = "idle"
    /\ hand = Nobody
    /\ queue = [r \in Rooms |-> <<>>]
    /\ sync = "top"
    /\ at = Nowhere
    /\ left = 0
    /\ syncing = TRUE
    /\ composed = 0
    /\ attempts = [m \in Messages |-> 0]
    /\ accepted = [m \in Messages |-> {}]
    /\ outcome = [m \in Messages |-> "open"]

-----------------------------------------------------------------------------
(* The server.                                                             *)

\* The request that is on its way, or one nobody waits for any more, is taken.
Accept(m, k) ==
    /\ k \in 1 .. attempts[m]
    /\ k \notin accepted[m]
    /\ accepted' = [accepted EXCEPT ![m] = @ \union {k}]
    /\ UNCHANGED <<program, composed, attempts, outcome>>

Answered(m) == attempts[m] \in accepted[m]

-----------------------------------------------------------------------------
(* The UI thread: the send callback of ChatView and the end of cmdTUI.     *)

Compose(r) ==
    /\ ui = "idle"
    /\ composed < MaxMessages
    /\ composed' = composed + 1
    /\ ui' = "send"
    /\ hand' = [msg |-> composed + 1, room |-> r]
    /\ attempts' = [attempts EXCEPT ![composed + 1] = 1]
    /\ UNCHANGED <<queue, sync, at, left, syncing, accepted, outcome>>

CallbackReturns ==
    /\ ui' = "idle"
    /\ hand' = Nobody
    /\ outcome' = [outcome EXCEPT ![hand.msg] = "confirmed"]

\* sendTextMessage returned; the typing notice follows unless it is disabled.
SendOk ==
    /\ ui = "send"
    /\ Answered(hand.msg)
    /\ \/ CallbackReturns
       \/ ui' = "typing" /\ UNCHANGED <<hand, outcome>>
    /\ UNCHANGED <<queue, sync, at, left, syncing, composed, attempts, accepted>>

\* An error, a timeout or an unreadable reply.
SendFails ==
    /\ ui = "send"
    /\ ui' = "queueing"
    /\ UNCHANGED <<hand, queue, sync, at, left, syncing, composed, attempts,
                   accepted, outcome>>

TypingOk ==
    /\ ui = "typing"
    /\ CallbackReturns
    /\ UNCHANGED <<queue, sync, at, left, syncing, composed, attempts, accepted>>

\* sendTyping is in the same try block as sendTextMessage.
TypingFails ==
    /\ ui = "typing"
    /\ ui' = "queueing"
    /\ UNCHANGED <<hand, queue, sync, at, left, syncing, composed, attempts,
                   accepted, outcome>>

\* Seeded fault: the entry starts with a failure already counted.
EnqueueCounted ==
    /\ ui = "queueing"
    /\ sync # "flush"
    /\ queue' = [queue EXCEPT ![hand.room] = Append(@, <<hand.msg, 1>>)]
    /\ ui' = "idle"
    /\ hand' = Nobody
    /\ UNCHANGED <<sync, at, left, syncing, composed, attempts, accepted, outcome>>

\* Seeded fault: the newest failure is queued in front of the older ones.
EnqueueFirst ==
    /\ ui = "queueing"
    /\ sync # "flush"
    /\ queue' = [queue EXCEPT ![hand.room] = <<<<hand.msg, 0>>>> \o @]
    /\ ui' = "idle"
    /\ hand' = Nobody
    /\ UNCHANGED <<sync, at, left, syncing, composed, attempts, accepted, outcome>>

\* The catch block; it waits while the sync thread holds g_queueMutex.
Enqueue ==
    /\ ui = "queueing"
    /\ sync # "flush"
    /\ queue' = [queue EXCEPT ![hand.room] = Append(@, <<hand.msg, 0>>)]
    /\ ui' = "idle"
    /\ hand' = Nobody
    /\ UNCHANGED <<sync, at, left, syncing, composed, attempts, accepted, outcome>>

\* ChatView::run returned: stopSync.
Leave ==
    /\ ui = "idle"
    /\ ui' = "joining"
    /\ syncing' = FALSE
    /\ UNCHANGED <<hand, queue, sync, at, left, composed, attempts, accepted,
                   outcome>>

Join ==
    /\ ui = "joining"
    /\ sync = "ended"
    /\ ui' = "gone"
    /\ UNCHANGED <<hand, queue, sync, at, left, syncing, composed, attempts,
                   accepted, outcome>>

-----------------------------------------------------------------------------
(* The sync thread: the loop of startSync with tuiHandleEvent as onEvent.  *)

\* Seeded fault: the loop does not look at syncing.
LoopTopForEver ==
    /\ sync = "top"
    /\ sync' = "poll"
    /\ UNCHANGED <<ui, hand, queue, at, left, syncing, composed, attempts,
                   accepted, outcome>>

LoopTop ==
    /\ sync = "top"
    /\ sync' = IF syncing THEN "poll" ELSE "ended"
    /\ UNCHANGED <<ui, hand, queue, at, left, syncing, composed, attempts,
                   accepted, outcome>>

PollOk ==
    /\ sync = "poll"
    /\ sync' = "received"
    /\ left' \in 0 .. MaxBatch
    /\ UNCHANGED <<ui, hand, queue, at, syncing, composed, attempts, accepted,
                   outcome>>

PollFails ==
    /\ sync = "poll"
    /\ sync' = "sleep"
    /\ UNCHANGED <<ui, hand, queue, at, left, syncing, composed, attempts,
                   accepted, outcome>>

NextEvent ==
    /\ sync = "received"
    /\ sync' = IF left = 0 THEN "top" ELSE "event"
    /\ UNCHANGED <<ui, hand, queue, at, left, syncing, composed, attempts,
                   accepted, outcome>>

\* The entries of q from position i of room r on, in the order of the loops.
From(q, r, i) ==
    {e \in UNION {{s} \X (1 .. Len(q[s])) : s \in Rooms} :
        e[1] > r \/ (e[1] = r /\ e[2] >= i)}

Least(E) ==
    CHOOSE e \in E : \A f \in E : e[1] < f[1] \/ (e[1] = f[1] /\ e[2] <= f[2])

\* Go on to the next entry with a request for it, or release the lock.
FlushFrom(q, r, i) ==
    /\ queue' = q
    /\ \/ /\ From(q, r, i) = {}
          /\ sync' = "show"
          /\ at' = Nowhere
          /\ UNCHANGED attempts
       \/ /\ From(q, r, i) # {}
          /\ sync' = "flush"
          /\ at' = Least(From(q, r, i))
          /\ attempts' = [attempts EXCEPT ![q[at'[1]][at'[2]][1]] = @ + 1]

\* Seeded fault: only one room's queue is tried again.
StartFlushOneRoom ==
    /\ sync = "event"
    /\ FlushFrom(queue, NumRooms, 1)
    /\ UNCHANGED <<ui, hand, left, syncing, composed, accepted, outcome>>

StartFlush ==
    /\ sync = "event"
    /\ FlushFrom(queue, 1, 1)
    /\ UNCHANGED <<ui, hand, left, syncing, composed, accepted, outcome>>

Entry == queue[at[1]][at[2]]
WithoutEntry == [queue EXCEPT ![at[1]] = RemoveAt(@, at[2])]

\* Seeded fault: the sent entry is not erased.
FlushOkKeeps ==
    /\ sync = "flush"
    /\ Answered(Entry[1])
    /\ FlushFrom(queue, at[1], at[2] + 1)
    /\ outcome' = [outcome EXCEPT ![Entry[1]] = "confirmed"]
    /\ UNCHANGED <<ui, hand, left, syncing, composed, accepted>>

FlushOk ==
    /\ sync = "flush"
    /\ Answered(Entry[1])
    /\ FlushFrom(WithoutEntry, at[1], at[2])
    /\ outcome' = [outcome EXCEPT ![Entry[1]] = "confirmed"]
    /\ UNCHANGED <<ui, hand, left, syncing, composed, accepted>>

\* Seeded fault: the limit is compared with the count before this failure.
FlushFailsLate ==
    /\ sync = "flush"
    /\ \/ /\ Entry[2] > MaxRetry
          /\ FlushFrom(WithoutEntry, at[1], at[2])
          /\ outcome' = [outcome EXCEPT ![Entry[1]] = "abandoned"]
       \/ /\ Entry[2] <= MaxRetry
          /\ FlushFrom([queue EXCEPT ![at[1]][at[2]][2] = @ + 1],
                       at[1], at[2] + 1)
          /\ UNCHANGED outcome
    /\ UNCHANGED <<ui, hand, left, syncing, composed, accepted>>

\* Seeded fault: the last retry is not made.
FlushFailsEarly ==
    /\ sync = "flush"
    /\ \/ /\ Entry[2] + 1 >= MaxRetry
          /\ FlushFrom(WithoutEntry, at[1], at[2])
          /\ outcome' = [outcome EXCEPT ![Entry[1]] = "abandoned"]
       \/ /\ Entry[2] + 1 < MaxRetry
          /\ FlushFrom([queue EXCEPT ![at[1]][at[2]][2] = @ + 1],
                       at[1], at[2] + 1)
          /\ UNCHANGED outcome
    /\ UNCHANGED <<ui, hand, left, syncing, composed, accepted>>

\* Seeded fault: a request without an answer has no timeout.
FlushFailsUnlessSilent ==
    /\ sync = "flush"
    /\ Answered(Entry[1])
    /\ \/ /\ Entry[2] + 1 > MaxRetry
          /\ FlushFrom(WithoutEntry, at[1], at[2])
          /\ outcome' = [outcome EXCEPT ![Entry[1]] = "abandoned"]
       \/ /\ Entry[2] + 1 <= MaxRetry
          /\ FlushFrom([queue EXCEPT ![at[1]][at[2]][2] = @ + 1],
                       at[1], at[2] + 1)
          /\ UNCHANGED outcome
    /\ UNCHANGED <<ui, hand, left, syncing, composed, accepted>>

FlushFails ==
    /\ sync = "flush"
    /\ \/ /\ Entry[2] + 1 > MaxRetry
          /\ FlushFrom(WithoutEntry, at[1], at[2])
          /\ outcome' = [outcome EXCEPT ![Entry[1]] = "abandoned"]
       \/ /\ Entry[2] + 1 <= MaxRetry
          /\ FlushFrom([queue EXCEPT ![at[1]][at[2]][2] = @ + 1],
                       at[1], at[2] + 1)
          /\ UNCHANGED outcome
    /\ UNCHANGED <<ui, hand, left, syncing, composed, accepted>>

\* The rest of tuiHandleEvent, up to the next event of the reply.
Show ==
    /\ sync = "show"
    /\ left' = left - 1
    /\ sync' = IF left = 1 THEN "top" ELSE "event"
    /\ UNCHANGED <<ui, hand, queue, at, syncing, composed, attempts, accepted,
                   outcome>>

\* An exception, in the handler or before it, drops the rest of the reply.
Throws ==
    /\ sync \in {"received", "show"}
    /\ sync' = "sleep"
    /\ left' = 0
    /\ UNCHANGED <<ui, hand, queue, at, syncing, composed, attempts, accepted,
                   outcome>>

Wake ==
    /\ sync = "sleep"
    /\ sync' = "top"
    /\ UNCHANGED <<ui, hand, queue, at, left, syncing, composed, attempts,
                   accepted, outcome>>

-----------------------------------------------------------------------------
SyncThread ==
    \/ LoopTop \/ PollOk \/ PollFails \/ NextEvent \/ StartFlush
    \/ FlushOk \/ FlushFails \/ Show \/ Throws \/ Wake

Next ==
    \/ \E r \in Rooms : Compose(r)
    \/ SendOk \/ SendFails \/ TypingOk \/ TypingFails \/ Enqueue
    \/ Leave \/ Join
    \/ SyncThread
    \/ \E m \in Messages : \E k \in 1 .. MaxRetry + 2 : Accept(m, k)

Spec == Init /\ [][Next]_vars

\* Every request ends, by an answer or by its timeout, so neither thread stays
\* in one.  The queue's mutex is free whenever the sync thread waits for its
\* next reply, which it does again and again, so the UI thread gets it in the
\* end; this is strong fairness, for the mutex is taken again for each event.
Fairness ==
    /\ WF_vars(SyncThread)
    /\ WF_vars(SendOk \/ SendFails)
    /\ WF_vars(TypingOk \/ TypingFails)
    /\ SF_vars(Enqueue)
    /\ WF_vars(Join)

FairSpec == Spec /\ Fairness

-----------------------------------------------------------------------------
(* Properties.                                                             *)

Entries(m) ==
    {e \in UNION {{r} \X (1 .. Len(queue[r])) : r \in Rooms} :
        queue[e[1]][e[2]][1] = m}
Queued(m) == Entries(m) # {}

\* Every message typed so far is in exactly one place: in the send callback, in
\* one entry of one room's queue, or settled.  It is what keeps a message from
\* being dropped or queued twice between the two threads.
Accounted ==
    \A m \in Messages :
        LET held == IF hand.msg = m THEN 1 ELSE 0
            settled == IF outcome[m] # "open" THEN 1 ELSE 0
        IN  Cardinality(Entries(m)) + held + settled
                = IF m <= composed THEN 1 ELSE 0

\* The failures counted in an entry are the requests made for it: one by the
\* callback, one per failure, and one more while the entry is being sent.  The
\* limit of the retries means something only if the two never drift apart.
FailuresCountRequests ==
    \A r \in Rooms : \A i \in 1 .. Len(queue[r]) :
        attempts[queue[r][i][1]]
            = 1 + queue[r][i][2] + (IF at = <<r, i>> THEN 1 ELSE 0)

\* Each room's queue keeps the order of typing, although entries leave it from
\* the middle while later ones are pushed by the other thread; and no entry has
\* failed more often than one before it.
QueueKeepsOrder ==
    \A r \in Rooms : \A i, j \in 1 .. Len(queue[r]) :
        i < j => /\ queue[r][i][1] < queue[r][j][1]
                 /\ queue[r][i][2] >= queue[r][j][2]

\* The queue between the two threads is consistent in all three ways, and well typed.
QueueConsistent == TypeOK /\ Accounted /\ FailuresCountRequests /\ QueueKeepsOrder

\* The outbox does what Outbox promises: confirmed only by a request the server
\* took, never tried again afterwards, given up only when every retry is spent,
\* lost only with the end of the program.
Status(m) ==
    IF outcome[m] # "open" THEN outcome[m]
    ELSE IF m > composed THEN "new"
    ELSE IF ui = "gone" THEN "lost" ELSE "pending"

status == [m \in Messages |-> Status(m)]

Promise == INSTANCE Outbox WITH MaxAttempts <- MaxRetry + 2

ImplementsOutbox == Promise!Spec

\* The send callback returns, although its catch block waits for a mutex that
\* the other thread holds across network requests; and leaving the client ends,
\* although stopSync joins a thread that may be anywhere in a reply or in the queue.
WaitsEnd ==
    /\ ui \in {"send", "typing", "queueing"} ~> ui = "idle"
    /\ ui = "joining" ~> ui = "gone"

\* As long as events keep arriving, a queued message is sent or given up.
QueueDrains ==
    \A m \in Messages : []<>(sync = "show") => (Queued(m) ~> ~Queued(m))
=============================================================================
