------------------------------ MODULE TtysServer ------------------------------
(***************************************************************************)
(* The remote ASCII-UI server, `serve --ttys`: class TtysApi               *)
(* (src/server/ttys.cpp) called by the detached handler threads of         *)
(* api::Server (lib/api/server.cpp), one auto-sync thread per session, and *)
(* the shutdown of cmdServe (src/cmd_serve_login.cpp).                     *)
(*                                                                         *)
(* A request is a handler thread.  What a request carries besides its kind *)
(* and its session (terminal size, proxy, input line) does not reach the   *)
(* state modelled here; events of the homeserver are counted.              *)
(***************************************************************************)
EXTENDS Integers

CONSTANTS
  Requests,   \* handler threads
  Sessions,   \* session ids
  None,       \* no session, no thread
  Dtor,       \* the thread that runs ~TtysApi
  MaxEvents   \* bound: events a session's client ever receives

ASSUME NamesAssumption ==
  /\ None \notin Requests /\ None \notin Sessions
  /\ Dtor \notin Requests /\ Dtor # None
ASSUME EventsAssumption == MaxEvents \in Nat

VARIABLES
  \* TtysApi
  mu,           \* holder of _mu
  exists,       \* _sessions has the id
  lastSession,  \* _lastSession
  \* TtysSession
  syncing,      \* syncing
  wants,        \* wantsAutoSync
  auto,         \* the auto-sync thread
  token,        \* next_batch of the session's client
  cache,        \* what dbi holds
  shown,        \* what st.rooms and st.messages were last loaded with
  \* the handler threads and the destructor
  phase, kind, sess,
  dtor,
  \* history
  fresh,        \* a pass on the request's session ended since it got _mu
  told          \* the request's reply claims that a pass was done

apiVars == <<mu, exists, lastSession>>
syncVars == <<syncing, token, cache, fresh>>
autoVars == <<wants, auto>>
requestVars == <<phase, kind, sess, told>>
vars == <<apiVars, syncVars, autoVars, requestVars, shown, dtor>>

Kinds == {"register", "session", "once", "auto", "off", "sync"}

\* A handler is off, talking to the homeserver (register), waiting for _mu, or
\* somewhere in the critical section.
Inside == {"locked", "await", "reset", "begin", "pass", "render"}
Phases == {"off", "http", "lock"} \cup Inside

AutoPhases == {"none", "top", "begin", "pass", "sleep", "exited"}

TypeOK ==
  /\ mu \in Requests \cup {Dtor, None}
  /\ exists \in [Sessions -> BOOLEAN]
  /\ lastSession \in Sessions \cup {None}
  /\ syncing \in [Sessions -> BOOLEAN]
  /\ wants \in [Sessions -> BOOLEAN]
  /\ auto \in [Sessions -> AutoPhases]
  /\ token \in [Sessions -> Nat]
  /\ cache \in [Sessions -> Nat]
  /\ shown \in [Sessions -> Nat]
  /\ phase \in [Requests -> Phases]
  /\ kind \in [Requests -> Kinds]
  /\ sess \in [Requests -> Sessions]
  /\ dtor \in {"none", "lock", "join", "gone"}
  /\ fresh \in [Requests -> BOOLEAN]
  /\ told \in [Requests -> BOOLEAN]

Init ==
  /\ mu = None
  /\ exists = [s \in Sessions |-> FALSE]
  /\ lastSession = None
  /\ syncing = [s \in Sessions |-> FALSE]
  /\ wants = [s \in Sessions |-> FALSE]
  /\ auto = [s \in Sessions |-> "none"]
  /\ token = [s \in Sessions |-> 0]
  /\ cache = [s \in Sessions |-> 0]
  /\ shown = [s \in Sessions |-> 0]
  /\ phase = [r \in Requests |-> "off"]
  /\ kind \in [Requests -> {"off"}]
  /\ sess \in {[r \in Requests |-> s] : s \in Sessions}
  /\ dtor = "none"
  /\ fresh = [r \in Requests |-> FALSE]
  /\ told = [r \in Requests |-> FALSE]

Goto(r, p) == phase' = [phase EXCEPT ![r] = p]

\* The requests of session s that are inside the critical section.
InsideOf(s) == {r \in Requests : sess[r] = s /\ phase[r] \in Inside}

-----------------------------------------------------------------------------
(* runSyncPass(s), run by a handler or by the auto-sync thread of s *)

\* if (syncing.exchange(true)) return;  the flag is TRUE in both cases, and
\* the pass is entered only by the thread that changed it.
TryEnterPass(s) == syncing' = [syncing EXCEPT ![s] = TRUE]

\* Seeded faults: the flag is left set when syncOnce() throws; the token goes back.
LeavePassKeepsFlag(s) ==
  /\ \/ syncing' = [syncing EXCEPT ![s] = FALSE] /\ UNCHANGED token
     \/ UNCHANGED <<syncing, token>>
  /\ fresh' = [r \in Requests |-> fresh[r] \/ r \in InsideOf(s)]
  /\ UNCHANGED cache

LeavePassLosesToken(s) ==
  /\ syncing' = [syncing EXCEPT ![s] = FALSE]
  /\ token' = [token EXCEPT ![s] = @ - 1]
  /\ fresh' = [r \in Requests |-> fresh[r] \/ r \in InsideOf(s)]
  /\ UNCHANGED cache

\* syncOnce() answered, with an event or with none, or threw (the error is kept
\* in syncError); the response is discarded, so the cache stays as it is;
\* syncing = false.
LeavePass(s) ==
  /\ syncing' = [syncing EXCEPT ![s] = FALSE]
  /\ \/ token[s] < MaxEvents /\ token' = [token EXCEPT ![s] = @ + 1]
     \/ UNCHANGED token
  /\ fresh' = [r \in Requests |-> fresh[r] \/ r \in InsideOf(s)]
  /\ UNCHANGED cache

-----------------------------------------------------------------------------
(* The handlers *)

\* api::Server hands a request to a detached thread.  /register talks to the
\* homeserver before it takes _mu.
Arrive(r, k, s) ==
  /\ phase[r] = "off"
  /\ dtor = "none"
  /\ kind' = [kind EXCEPT ![r] = k]
  /\ sess' = [sess EXCEPT ![r] = s]
  /\ told' = [told EXCEPT ![r] = FALSE]
  /\ Goto(r, IF k = "register" THEN "http" ELSE "lock")
  /\ UNCHANGED <<apiVars, syncVars, autoVars, shown, dtor>>

\* handleRegister: the homeserver made the account, or the request fails.
Registered(r) ==
  /\ phase[r] = "http"
  /\ \/ Goto(r, "lock")
     \/ Goto(r, "off")
  /\ UNCHANGED <<apiVars, syncVars, autoVars, kind, sess, told, shown, dtor>>

\* std::lock_guard on _mu.
Lock(r) ==
  /\ phase[r] = "lock"
  /\ mu = None
  /\ dtor # "gone"
  /\ mu' = r
  /\ fresh' = [fresh EXCEPT ![r] = FALSE]
  /\ Goto(r, "locked")
  /\ UNCHANGED <<exists, lastSession, syncing, token, cache,
                 autoVars, kind, sess, told, shown, dtor>>

\* createOrGetSession under _mu: an existing session is returned as it is; a
\* new one is entered and becomes _lastSession.
Join(r) ==
  /\ phase[r] = "locked"
  /\ kind[r] \in {"register", "session"}
  /\ exists' = [exists EXCEPT ![sess[r]] = TRUE]
  /\ lastSession' = IF exists[sess[r]] THEN lastSession ELSE sess[r]
  /\ mu' = None
  /\ Goto(r, "off")
  /\ UNCHANGED <<syncVars, autoVars, kind, sess, told, shown, dtor>>

\* There is no such session, or it could not be made (no account in the
\* request, no cache): an error reply.
NoSession(r) ==
  /\ phase[r] = "locked"
  /\ ~exists[sess[r]]
  /\ mu' = None
  /\ Goto(r, "off")
  /\ UNCHANGED <<exists, lastSession, syncVars, autoVars, kind, sess,
                 told, shown, dtor>>

Found(r, k) == phase[r] = "locked" /\ kind[r] = k /\ exists[sess[r]]

\* handleRender, sync = "once": the first syncing.exchange(true).
RenderOnce(r) ==
  /\ Found(r, "once")
  /\ TryEnterPass(sess[r])
  /\ Goto(r, IF syncing[sess[r]] THEN "await" ELSE "reset")
  /\ UNCHANGED <<apiVars, token, cache, fresh, autoVars, kind, sess, told,
                 shown, dtor>>

\* ... it was FALSE: put it back, and call runSyncPass.
RenderReset(r) ==
  /\ phase[r] = "reset"
  /\ syncing' = [syncing EXCEPT ![sess[r]] = FALSE]
  /\ Goto(r, "begin")
  /\ UNCHANGED <<apiVars, token, cache, fresh, autoVars, kind, sess, told,
                 shown, dtor>>

\* ... it was TRUE: while (syncing.load()) sleep_for(100ms), holding _mu.
RenderAwait(r) ==
  /\ phase[r] = "await"
  /\ ~syncing[sess[r]]
  /\ Goto(r, "render")
  /\ UNCHANGED <<apiVars, syncVars, autoVars, kind, sess, told, shown, dtor>>

\* handleRender, sync = "auto": start the session's thread unless it runs.
RenderAuto(r) ==
  /\ Found(r, "auto")
  /\ IF auto[sess[r]] = "none"
       THEN /\ wants' = [wants EXCEPT ![sess[r]] = TRUE]
            /\ auto' = [auto EXCEPT ![sess[r]] = "top"]
       ELSE UNCHANGED autoVars
  /\ Goto(r, "render")
  /\ UNCHANGED <<apiVars, syncVars, kind, sess, told, shown, dtor>>

\* handleRender with "off", handleInput, handleSync: straight to their work.
RenderOffOrSync(r) ==
  /\ \/ Found(r, "off") /\ Goto(r, "render")
     \/ Found(r, "sync") /\ Goto(r, "begin")
  /\ UNCHANGED <<apiVars, syncVars, autoVars, kind, sess, told, shown, dtor>>

\* Seeded fault: a pass is entered whatever the flag was.
RequestEnterPassAlways(r) ==
  /\ phase[r] = "begin"
  /\ TryEnterPass(sess[r])
  /\ Goto(r, "pass")
  /\ UNCHANGED <<apiVars, token, cache, fresh, autoVars, kind, sess, told,
                 shown, dtor>>

RequestEnterPass(r) ==
  /\ phase[r] = "begin"
  /\ TryEnterPass(sess[r])
  /\ Goto(r, IF syncing[sess[r]] THEN "render" ELSE "pass")
  /\ UNCHANGED <<apiVars, token, cache, fresh, autoVars, kind, sess, told,
                 shown, dtor>>

\* Seeded fault: the handler tries again until the pass brings something.
RequestLeavePassRetries(r) ==
  /\ phase[r] = "pass"
  /\ LeavePass(sess[r])
  /\ Goto(r, IF token' = token THEN "begin" ELSE "render")
  /\ UNCHANGED <<apiVars, autoVars, kind, sess, told, shown, dtor>>

RequestLeavePass(r) ==
  /\ phase[r] = "pass"
  /\ LeavePass(sess[r])
  /\ Goto(r, "render")
  /\ UNCHANGED <<apiVars, autoVars, kind, sess, told, shown, dtor>>

\* Seeded fault: /sync answers "synced": true whatever the flag is.
AnswerSynced(r) ==
  /\ phase[r] = "render"
  /\ IF kind[r] = "sync"
       THEN UNCHANGED shown
       ELSE shown' = [shown EXCEPT ![sess[r]] = cache[sess[r]]]
  /\ told' = [told EXCEPT ![r] = kind[r] = "sync"]
  /\ mu' = None
  /\ Goto(r, "off")
  /\ UNCHANGED <<exists, lastSession, syncVars, autoVars, kind, sess, dtor>>

\* The reply.  A frame is drawn from the cache; /sync answers
\* "synced": !syncing.  The lock goes with the handler's scope.
Answer(r) ==
  /\ phase[r] = "render"
  /\ IF kind[r] = "sync"
       THEN UNCHANGED shown
       ELSE shown' = [shown EXCEPT ![sess[r]] = cache[sess[r]]]
  /\ told' = [told EXCEPT ![r] = kind[r] = "sync" /\ ~syncing[sess[r]]]
  /\ mu' = None
  /\ Goto(r, "off")
  /\ UNCHANGED <<exists, lastSession, syncVars, autoVars, kind, sess, dtor>>

-----------------------------------------------------------------------------
(* The auto-sync thread of s: while (wants) { runSyncPass; sleep 2 s } *)

AutoGoto(s, p) == auto' = [auto EXCEPT ![s] = p]

\* Seeded fault: the thread does not look at wantsAutoSync.
AutoTopForEver(s) ==
  /\ auto[s] = "top"
  /\ AutoGoto(s, "begin")
  /\ UNCHANGED <<apiVars, syncVars, wants, requestVars, shown, dtor>>

AutoTop(s) ==
  /\ auto[s] = "top"
  /\ AutoGoto(s, IF wants[s] THEN "begin" ELSE "exited")
  /\ UNCHANGED <<apiVars, syncVars, wants, requestVars, shown, dtor>>

AutoEnterPass(s) ==
  /\ auto[s] = "begin"
  /\ TryEnterPass(s)
  /\ AutoGoto(s, IF syncing[s] THEN "sleep" ELSE "pass")
  /\ UNCHANGED <<apiVars, token, cache, fresh, wants, requestVars, shown,
                 dtor>>

AutoLeavePass(s) ==
  /\ auto[s] = "pass"
  /\ LeavePass(s)
  /\ AutoGoto(s, "sleep")
  /\ UNCHANGED <<apiVars, wants, requestVars, shown, dtor>>

AutoSleep(s) ==
  /\ auto[s] = "sleep"
  /\ AutoGoto(s, "top")
  /\ UNCHANGED <<apiVars, syncVars, wants, requestVars, shown, dtor>>

-----------------------------------------------------------------------------
(* Shutdown: api_server.stop() joins the accept thread, not the handlers;
   then ~TtysApi runs *)

Stop ==
  /\ dtor = "none"
  /\ dtor' = "lock"
  /\ UNCHANGED <<apiVars, syncVars, autoVars, requestVars, shown>>

\* ~TtysApi takes _mu.  It visits the sessions one by one: wantsAutoSync is
\* cleared for a session when the threads of those before it are joined; the
\* order is not fixed here.
DtorLock ==
  /\ dtor = "lock"
  /\ mu = None
  /\ mu' = Dtor
  /\ dtor' = "join"
  /\ UNCHANGED <<exists, lastSession, syncVars, autoVars, requestVars, shown>>

Joinable(s) == auto[s] # "none"

DtorVisit(s) ==
  /\ dtor = "join"
  /\ wants[s]
  /\ \A u \in Sessions : Joinable(u) /\ ~wants[u] => auto[u] = "exited"
  /\ wants' = [wants EXCEPT ![s] = FALSE]
  /\ UNCHANGED <<apiVars, syncVars, auto, requestVars, shown, dtor>>

\* Seeded fault: the threads are told to stop and not joined.
DtorDoneUnjoined ==
  /\ dtor = "join"
  /\ \A s \in Sessions : ~wants[s]
  /\ dtor' = "gone"
  /\ mu' = None
  /\ UNCHANGED <<exists, lastSession, syncVars, autoVars, requestVars, shown>>

\* Every thread is joined and the sessions go away.
DtorDone ==
  /\ dtor = "join"
  /\ \A s \in Sessions : Joinable(s) => auto[s] = "exited"
  /\ dtor' = "gone"
  /\ mu' = None
  /\ UNCHANGED <<exists, lastSession, syncVars, autoVars, requestVars, shown>>

-----------------------------------------------------------------------------
\* What a handler does with _mu in hand, but for the wait of RenderAwait.
HandlerStep(r) ==
  \/ Join(r) \/ NoSession(r) \/ RenderOnce(r) \/ RenderReset(r) \/ RenderAuto(r)
  \/ RenderOffOrSync(r) \/ RequestEnterPass(r) \/ RequestLeavePass(r) \/ Answer(r)

RequestStep(r) ==
  Registered(r) \/ Lock(r) \/ HandlerStep(r) \/ RenderAwait(r)

AutoStep(s) == AutoTop(s) \/ AutoEnterPass(s) \/ AutoLeavePass(s) \/ AutoSleep(s)

DtorStep == DtorLock \/ DtorDone \/ \E s \in Sessions : DtorVisit(s)

Next ==
  \/ \E r \in Requests : RequestStep(r)
  \/ \E r \in Requests, k \in Kinds, s \in Sessions : Arrive(r, k, s)
  \/ \E s \in Sessions : AutoStep(s)
  \/ Stop \/ DtorStep

Spec == Init /\ [][Next]_vars

\* Threads run; HTTP calls end by their timeout.  std::mutex is not fair, but a
\* thread that keeps asking for a mutex that keeps being released gets it
\* (strong fairness).  The auto thread leaves `syncing` FALSE for 2 s between
\* passes and RenderAwait looks every 100 ms, so it does not miss it for ever
\* (strong fairness again).
Fairness ==
  /\ \A r \in Requests : /\ WF_vars(Registered(r)) /\ WF_vars(HandlerStep(r))
                         /\ SF_vars(Lock(r)) /\ SF_vars(RenderAwait(r))
  /\ \A s \in Sessions : WF_vars(AutoStep(s))
  /\ SF_vars(DtorLock)
  /\ WF_vars(DtorDone \/ \E s \in Sessions : DtorVisit(s))

FairSpec == Spec /\ Fairness

-----------------------------------------------------------------------------
(* Properties *)

\* At most one thread is inside syncOnce() of a session's client (its
\* next_batch is not locked), although handlers and the auto thread start
\* passes, and handleRender sets and clears the flag outside runSyncPass.
OnePassAtATime ==
  \A s \in Sessions :
    /\ \A r, q \in {h \in Requests : sess[h] = s /\ phase[h] = "pass"} : r = q
    /\ auto[s] = "pass" => \A r \in Requests : ~(sess[r] = s /\ phase[r] = "pass")

\* The flag is never left behind: it is TRUE only while a thread is between
\* setting and clearing it, so no later pass is skipped, and no render waits,
\* for a pass that does not exist.
SyncingHasAnOwner ==
  \A s \in Sessions :
    syncing[s] => \/ auto[s] = "pass"
                  \/ \E r \in Requests : sess[r] = s /\ phase[r] \in {"reset", "pass"}

\* A "synced": true reply is true: a pass on that session ended after the
\* request took the lock, even when the request's own pass was skipped because
\* the auto thread's was in flight.
SyncedMeansAPassEnded ==
  \A r \in Requests : told[r] => fresh[r]

\* When the sessions are destroyed no thread is inside one of them: the auto
\* threads are joined and handlers that hold _mu were waited for.
NothingRunsInDestroyedSessions ==
  dtor = "gone" =>
    /\ \A s \in Sessions : auto[s] \in {"none", "exited"}
    /\ \A r \in Requests : phase[r] \notin Inside

\* Every request is answered, also the one that waits behind a render that
\* waits, under _mu, for a pass of the auto thread; unless the server is
\* destroyed first.  And the shutdown ends: ~TtysApi gets _mu and joins every auto
\* thread.
EveryWaitEnds ==
  /\ \A r \in Requests : (phase[r] # "off") ~> (phase[r] = "off" \/ dtor = "gone")
  /\ (dtor = "lock") ~> (dtor = "gone")

\* ttys.cpp:141, "Sync one pass over /sync, then re-stamp the UiState from the
\* cache": events whose token was consumed are in the cache frames are drawn from.
SyncedEventsAreCached == \A s \in Sessions : cache[s] = token[s]
===============================================================================
