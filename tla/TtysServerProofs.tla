-------------------------- MODULE TtysServerProofs --------------------------
(***************************************************************************)
(* Proofs about TtysServer for every number of handlers and sessions: type *)
(* correctness, mutual exclusion of the sync passes, that the flag always  *)
(* has an owner, that "synced": true is not a lie, and that the shutdown   *)
(* leaves no thread inside a destroyed session.                            *)
(***************************************************************************)
EXTENDS TtysServer, TLAPS

\* Every step is one of the named actions; the case split of the proofs below.
LEMMA NextCases ==
  ASSUME Next
  PROVE  \/ \E r \in Requests, k \in Kinds, s \in Sessions : Arrive(r, k, s)
         \/ \E r \in Requests :
              \/ Registered(r) \/ Lock(r) \/ Join(r) \/ NoSession(r)
              \/ RenderOnce(r) \/ RenderReset(r) \/ RenderAwait(r) \/ RenderAuto(r)
              \/ RenderOffOrSync(r) \/ RequestEnterPass(r) \/ RequestLeavePass(r)
              \/ Answer(r)
         \/ \E s \in Sessions :
              \/ AutoTop(s) \/ AutoEnterPass(s) \/ AutoLeavePass(s) \/ AutoSleep(s)
              \/ DtorVisit(s)
         \/ Stop \/ DtorLock \/ DtorDone
BY DEF Next, RequestStep, HandlerStep, AutoStep, DtorStep

\* What the strengthening adds to the properties.
\*  - _mu: who is inside the critical section holds it, and the destructor
\*    holds it while it joins;
\*  - the flag: it is TRUE while any thread is between setting and clearing it,
\*    and a handler there excludes the auto thread;
\*  - the reply of /sync: the handler draws its answer from a FALSE flag only
\*    after a pass it can count.
LockInv ==
  /\ \A r \in Requests : phase[r] \in Inside <=> mu = r
  /\ dtor = "join" <=> mu = Dtor

FlagInv ==
  /\ \A s \in Sessions : auto[s] = "pass" => syncing[s]
  /\ \A r \in Requests :
       phase[r] \in {"reset", "pass"} => syncing[sess[r]] /\ auto[sess[r]] # "pass"

ToldInv ==
  \A r \in Requests :
    /\ phase[r] \in {"await", "reset"} => kind[r] = "once"
    /\ phase[r] # "off" => ~told[r]
    /\ phase[r] = "render" /\ kind[r] = "sync" /\ ~syncing[sess[r]] => fresh[r]

IInv ==
  /\ TypeOK /\ LockInv
  /\ FlagInv /\ SyncingHasAnOwner
  /\ ToldInv /\ SyncedMeansAPassEnded
  /\ NothingRunsInDestroyedSessions

-----------------------------------------------------------------------------
\* One step keeps the shape of every variable.
LEMMA TypeStep == TypeOK /\ [Next]_vars => TypeOK'
<1> SUFFICES ASSUME TypeOK, [Next]_vars PROVE TypeOK'
  OBVIOUS
<1> USE DEF TypeOK, Phases, Inside, AutoPhases, Goto, apiVars, syncVars, autoVars,
            requestVars
<1>1. ASSUME NEW r \in Requests, NEW k \in Kinds, NEW s \in Sessions, Arrive(r, k, s) PROVE TypeOK'
  BY <1>1 DEF Arrive
<1>2. ASSUME NEW r \in Requests, Registered(r) PROVE TypeOK'
  BY <1>2 DEF Registered
<1>3. ASSUME NEW r \in Requests, Lock(r) PROVE TypeOK'
  BY <1>3 DEF Lock
<1>4. ASSUME NEW r \in Requests, Join(r) PROVE TypeOK'
  BY <1>4 DEF Join
<1>5. ASSUME NEW r \in Requests, NoSession(r) PROVE TypeOK'
  BY <1>5 DEF NoSession
<1>6. ASSUME NEW r \in Requests, RenderOnce(r) PROVE TypeOK'
  BY <1>6 DEF RenderOnce, Found, TryEnterPass
<1>7. ASSUME NEW r \in Requests, RenderReset(r) PROVE TypeOK'
  BY <1>7 DEF RenderReset
<1>8. ASSUME NEW r \in Requests, RenderAwait(r) PROVE TypeOK'
  BY <1>8 DEF RenderAwait
<1>9. ASSUME NEW r \in Requests, RenderAuto(r) PROVE TypeOK'
  BY <1>9 DEF RenderAuto, Found
<1>10. ASSUME NEW r \in Requests, RenderOffOrSync(r) PROVE TypeOK'
  BY <1>10 DEF RenderOffOrSync, Found
<1>11. ASSUME NEW r \in Requests, RequestEnterPass(r) PROVE TypeOK'
  BY <1>11 DEF RequestEnterPass, TryEnterPass
<1>12. ASSUME NEW r \in Requests, RequestLeavePass(r) PROVE TypeOK'
  BY <1>12 DEF RequestLeavePass, LeavePass, InsideOf
<1>13. ASSUME NEW r \in Requests, Answer(r) PROVE TypeOK'
  BY <1>13 DEF Answer
<1>14. ASSUME NEW s \in Sessions, AutoTop(s) PROVE TypeOK'
  BY <1>14 DEF AutoTop, AutoGoto
<1>15. ASSUME NEW s \in Sessions, AutoEnterPass(s) PROVE TypeOK'
  BY <1>15 DEF AutoEnterPass, TryEnterPass, AutoGoto
<1>16. ASSUME NEW s \in Sessions, AutoLeavePass(s) PROVE TypeOK'
  BY <1>16 DEF AutoLeavePass, LeavePass, InsideOf, AutoGoto
<1>17. ASSUME NEW s \in Sessions, AutoSleep(s) PROVE TypeOK'
  BY <1>17 DEF AutoSleep, AutoGoto
<1>18. CASE Stop
  BY <1>18 DEF Stop
<1>19. CASE DtorLock
  BY <1>19 DEF DtorLock, Joinable
<1>20. ASSUME NEW s \in Sessions, DtorVisit(s) PROVE TypeOK'
  BY <1>20 DEF DtorVisit, Joinable
<1>21. CASE DtorDone
  BY <1>21 DEF DtorDone, Joinable
<1>22. CASE UNCHANGED vars
  BY <1>22 DEF vars
<1>23. QED
  BY <1>1, <1>2, <1>3, <1>4, <1>5, <1>6, <1>7, <1>8, <1>9, <1>10, <1>11, <1>12, <1>13, <1>14, <1>15, <1>16, <1>17, <1>18, <1>19, <1>20, <1>21, <1>22, NextCases

\* Only the holder of _mu is inside the critical section.
LEMMA LockStep == TypeOK /\ LockInv /\ [Next]_vars => LockInv'
<1> SUFFICES ASSUME TypeOK, LockInv, [Next]_vars PROVE LockInv'
  OBVIOUS
<1> USE NamesAssumption DEF TypeOK, LockInv, Phases, Inside, Goto, apiVars, syncVars,
            autoVars, requestVars
<1>1. ASSUME NEW r \in Requests, NEW k \in Kinds, NEW s \in Sessions, Arrive(r, k, s) PROVE LockInv'
  BY <1>1 DEF Arrive
<1>2. ASSUME NEW r \in Requests, Registered(r) PROVE LockInv'
  BY <1>2 DEF Registered
<1>3. ASSUME NEW r \in Requests, Lock(r) PROVE LockInv'
  BY <1>3 DEF Lock
<1>4. ASSUME NEW r \in Requests, Join(r) PROVE LockInv'
  BY <1>4 DEF Join
<1>5. ASSUME NEW r \in Requests, NoSession(r) PROVE LockInv'
  BY <1>5 DEF NoSession
<1>6. ASSUME NEW r \in Requests, RenderOnce(r) PROVE LockInv'
  BY <1>6 DEF RenderOnce, Found, TryEnterPass
<1>7. ASSUME NEW r \in Requests, RenderReset(r) PROVE LockInv'
  BY <1>7 DEF RenderReset
<1>8. ASSUME NEW r \in Requests, RenderAwait(r) PROVE LockInv'
  BY <1>8 DEF RenderAwait
<1>9. ASSUME NEW r \in Requests, RenderAuto(r) PROVE LockInv'
  BY <1>9 DEF RenderAuto, Found
<1>10. ASSUME NEW r \in Requests, RenderOffOrSync(r) PROVE LockInv'
  BY <1>10 DEF RenderOffOrSync, Found
<1>11. ASSUME NEW r \in Requests, RequestEnterPass(r) PROVE LockInv'
  BY <1>11 DEF RequestEnterPass, TryEnterPass
<1>12. ASSUME NEW r \in Requests, RequestLeavePass(r) PROVE LockInv'
  BY <1>12 DEF RequestLeavePass, LeavePass, InsideOf
<1>13. ASSUME NEW r \in Requests, Answer(r) PROVE LockInv'
  BY <1>13 DEF Answer
<1>14. ASSUME NEW s \in Sessions, AutoTop(s) PROVE LockInv'
  BY <1>14 DEF AutoTop, AutoGoto
<1>15. ASSUME NEW s \in Sessions, AutoEnterPass(s) PROVE LockInv'
  BY <1>15 DEF AutoEnterPass, TryEnterPass, AutoGoto
<1>16. ASSUME NEW s \in Sessions, AutoLeavePass(s) PROVE LockInv'
  BY <1>16 DEF AutoLeavePass, LeavePass, InsideOf, AutoGoto
<1>17. ASSUME NEW s \in Sessions, AutoSleep(s) PROVE LockInv'
  BY <1>17 DEF AutoSleep, AutoGoto
<1>18. CASE Stop
  BY <1>18 DEF Stop
<1>19. CASE DtorLock
  BY <1>19 DEF DtorLock, Joinable
<1>20. ASSUME NEW s \in Sessions, DtorVisit(s) PROVE LockInv'
  BY <1>20 DEF DtorVisit, Joinable
<1>21. CASE DtorDone
  BY <1>21 DEF DtorDone, Joinable
<1>22. CASE UNCHANGED vars
  BY <1>22 DEF vars
<1>23. QED
  BY <1>1, <1>2, <1>3, <1>4, <1>5, <1>6, <1>7, <1>8, <1>9, <1>10, <1>11, <1>12, <1>13, <1>14, <1>15, <1>16, <1>17, <1>18, <1>19, <1>20, <1>21, <1>22, NextCases

\* The flag is TRUE exactly while one thread owns it.
LEMMA FlagStep == TypeOK /\ LockInv /\ FlagInv /\ SyncingHasAnOwner /\ [Next]_vars => (FlagInv /\ SyncingHasAnOwner)'
<1> SUFFICES ASSUME TypeOK, LockInv, FlagInv, SyncingHasAnOwner, [Next]_vars PROVE (FlagInv /\ SyncingHasAnOwner)'
  OBVIOUS
<1> USE NamesAssumption DEF TypeOK, LockInv, FlagInv, SyncingHasAnOwner, Phases, Inside, Goto, apiVars, syncVars,
            autoVars, requestVars
<1>1. ASSUME NEW r \in Requests, NEW k \in Kinds, NEW s \in Sessions, Arrive(r, k, s) PROVE (FlagInv /\ SyncingHasAnOwner)'
  BY <1>1 DEF Arrive
<1>2. ASSUME NEW r \in Requests, Registered(r) PROVE (FlagInv /\ SyncingHasAnOwner)'
  BY <1>2 DEF Registered
<1>3. ASSUME NEW r \in Requests, Lock(r) PROVE (FlagInv /\ SyncingHasAnOwner)'
  BY <1>3 DEF Lock
<1>4. ASSUME NEW r \in Requests, Join(r) PROVE (FlagInv /\ SyncingHasAnOwner)'
  BY <1>4 DEF Join
<1>5. ASSUME NEW r \in Requests, NoSession(r) PROVE (FlagInv /\ SyncingHasAnOwner)'
  BY <1>5 DEF NoSession
<1>6. ASSUME NEW r \in Requests, RenderOnce(r) PROVE (FlagInv /\ SyncingHasAnOwner)'
  BY <1>6 DEF RenderOnce, Found, TryEnterPass
<1>7. ASSUME NEW r \in Requests, RenderReset(r) PROVE (FlagInv /\ SyncingHasAnOwner)'
  BY <1>7 DEF RenderReset
<1>8. ASSUME NEW r \in Requests, RenderAwait(r) PROVE (FlagInv /\ SyncingHasAnOwner)'
  BY <1>8 DEF RenderAwait
<1>9. ASSUME NEW r \in Requests, RenderAuto(r) PROVE (FlagInv /\ SyncingHasAnOwner)'
  BY <1>9 DEF RenderAuto, Found
<1>10. ASSUME NEW r \in Requests, RenderOffOrSync(r) PROVE (FlagInv /\ SyncingHasAnOwner)'
  BY <1>10 DEF RenderOffOrSync, Found
<1>11. ASSUME NEW r \in Requests, RequestEnterPass(r) PROVE (FlagInv /\ SyncingHasAnOwner)'
  BY <1>11 DEF RequestEnterPass, TryEnterPass
<1>12. ASSUME NEW r \in Requests, RequestLeavePass(r) PROVE (FlagInv /\ SyncingHasAnOwner)'
  BY <1>12 DEF RequestLeavePass, LeavePass, InsideOf
<1>13. ASSUME NEW r \in Requests, Answer(r) PROVE (FlagInv /\ SyncingHasAnOwner)'
  BY <1>13 DEF Answer
<1>14. ASSUME NEW s \in Sessions, AutoTop(s) PROVE (FlagInv /\ SyncingHasAnOwner)'
  BY <1>14 DEF AutoTop, AutoGoto
<1>15. ASSUME NEW s \in Sessions, AutoEnterPass(s) PROVE (FlagInv /\ SyncingHasAnOwner)'
  BY <1>15 DEF AutoEnterPass, TryEnterPass, AutoGoto
<1>16. ASSUME NEW s \in Sessions, AutoLeavePass(s) PROVE (FlagInv /\ SyncingHasAnOwner)'
  BY <1>16 DEF AutoLeavePass, LeavePass, InsideOf, AutoGoto
<1>17. ASSUME NEW s \in Sessions, AutoSleep(s) PROVE (FlagInv /\ SyncingHasAnOwner)'
  BY <1>17 DEF AutoSleep, AutoGoto
<1>18. CASE Stop
  BY <1>18 DEF Stop
<1>19. CASE DtorLock
  BY <1>19 DEF DtorLock, Joinable
<1>20. ASSUME NEW s \in Sessions, DtorVisit(s) PROVE (FlagInv /\ SyncingHasAnOwner)'
  BY <1>20 DEF DtorVisit, Joinable
<1>21. CASE DtorDone
  BY <1>21 DEF DtorDone, Joinable
<1>22. CASE UNCHANGED vars
  BY <1>22 DEF vars
<1>23. QED
  BY <1>1, <1>2, <1>3, <1>4, <1>5, <1>6, <1>7, <1>8, <1>9, <1>10, <1>11, <1>12, <1>13, <1>14, <1>15, <1>16, <1>17, <1>18, <1>19, <1>20, <1>21, <1>22, NextCases

\* A reply of /sync tells the truth.
LEMMA ToldStep == TypeOK /\ LockInv /\ ToldInv /\ SyncedMeansAPassEnded /\ [Next]_vars => (ToldInv /\ SyncedMeansAPassEnded)'
<1> SUFFICES ASSUME TypeOK, LockInv, ToldInv, SyncedMeansAPassEnded, [Next]_vars PROVE (ToldInv /\ SyncedMeansAPassEnded)'
  OBVIOUS
<1> USE NamesAssumption DEF TypeOK, LockInv, ToldInv, SyncedMeansAPassEnded, Phases, Inside, Goto, apiVars, syncVars,
            autoVars, requestVars
<1>1. ASSUME NEW r \in Requests, NEW k \in Kinds, NEW s \in Sessions, Arrive(r, k, s) PROVE (ToldInv /\ SyncedMeansAPassEnded)'
  BY <1>1 DEF Arrive
<1>2. ASSUME NEW r \in Requests, Registered(r) PROVE (ToldInv /\ SyncedMeansAPassEnded)'
  BY <1>2 DEF Registered
<1>3. ASSUME NEW r \in Requests, Lock(r) PROVE (ToldInv /\ SyncedMeansAPassEnded)'
  BY <1>3 DEF Lock
<1>4. ASSUME NEW r \in Requests, Join(r) PROVE (ToldInv /\ SyncedMeansAPassEnded)'
  BY <1>4 DEF Join
<1>5. ASSUME NEW r \in Requests, NoSession(r) PROVE (ToldInv /\ SyncedMeansAPassEnded)'
  BY <1>5 DEF NoSession
<1>6. ASSUME NEW r \in Requests, RenderOnce(r) PROVE (ToldInv /\ SyncedMeansAPassEnded)'
  BY <1>6 DEF RenderOnce, Found, TryEnterPass
<1>7. ASSUME NEW r \in Requests, RenderReset(r) PROVE (ToldInv /\ SyncedMeansAPassEnded)'
  BY <1>7 DEF RenderReset
<1>8. ASSUME NEW r \in Requests, RenderAwait(r) PROVE (ToldInv /\ SyncedMeansAPassEnded)'
  BY <1>8 DEF RenderAwait
<1>9. ASSUME NEW r \in Requests, RenderAuto(r) PROVE (ToldInv /\ SyncedMeansAPassEnded)'
  BY <1>9 DEF RenderAuto, Found
<1>10. ASSUME NEW r \in Requests, RenderOffOrSync(r) PROVE (ToldInv /\ SyncedMeansAPassEnded)'
  BY <1>10 DEF RenderOffOrSync, Found
<1>11. ASSUME NEW r \in Requests, RequestEnterPass(r) PROVE (ToldInv /\ SyncedMeansAPassEnded)'
  BY <1>11 DEF RequestEnterPass, TryEnterPass
<1>12. ASSUME NEW r \in Requests, RequestLeavePass(r) PROVE (ToldInv /\ SyncedMeansAPassEnded)'
  BY <1>12 DEF RequestLeavePass, LeavePass, InsideOf
<1>13. ASSUME NEW r \in Requests, Answer(r) PROVE (ToldInv /\ SyncedMeansAPassEnded)'
  BY <1>13 DEF Answer
<1>14. ASSUME NEW s \in Sessions, AutoTop(s) PROVE (ToldInv /\ SyncedMeansAPassEnded)'
  BY <1>14 DEF AutoTop, AutoGoto
<1>15. ASSUME NEW s \in Sessions, AutoEnterPass(s) PROVE (ToldInv /\ SyncedMeansAPassEnded)'
  BY <1>15 DEF AutoEnterPass, TryEnterPass, AutoGoto
<1>16. ASSUME NEW s \in Sessions, AutoLeavePass(s) PROVE (ToldInv /\ SyncedMeansAPassEnded)'
  BY <1>16 DEF AutoLeavePass, LeavePass, InsideOf, AutoGoto
<1>17. ASSUME NEW s \in Sessions, AutoSleep(s) PROVE (ToldInv /\ SyncedMeansAPassEnded)'
  BY <1>17 DEF AutoSleep, AutoGoto
<1>18. CASE Stop
  BY <1>18 DEF Stop
<1>19. CASE DtorLock
  BY <1>19 DEF DtorLock, Joinable
<1>20. ASSUME NEW s \in Sessions, DtorVisit(s) PROVE (ToldInv /\ SyncedMeansAPassEnded)'
  BY <1>20 DEF DtorVisit, Joinable
<1>21. CASE DtorDone
  BY <1>21 DEF DtorDone, Joinable
<1>22. CASE UNCHANGED vars
  BY <1>22 DEF vars
<1>23. QED
  BY <1>1, <1>2, <1>3, <1>4, <1>5, <1>6, <1>7, <1>8, <1>9, <1>10, <1>11, <1>12, <1>13, <1>14, <1>15, <1>16, <1>17, <1>18, <1>19, <1>20, <1>21, <1>22, NextCases

\* Once the sessions are gone nobody gets into one.
LEMMA GoneStep == TypeOK /\ LockInv /\ NothingRunsInDestroyedSessions /\ [Next]_vars => NothingRunsInDestroyedSessions'
<1> SUFFICES ASSUME TypeOK, LockInv, NothingRunsInDestroyedSessions, [Next]_vars PROVE NothingRunsInDestroyedSessions'
  OBVIOUS
<1> USE NamesAssumption DEF TypeOK, LockInv, NothingRunsInDestroyedSessions, Phases, Inside, Goto, apiVars, syncVars,
            autoVars, requestVars
<1>1. ASSUME NEW r \in Requests, NEW k \in Kinds, NEW s \in Sessions, Arrive(r, k, s) PROVE NothingRunsInDestroyedSessions'
  BY <1>1 DEF Arrive
<1>2. ASSUME NEW r \in Requests, Registered(r) PROVE NothingRunsInDestroyedSessions'
  BY <1>2 DEF Registered
<1>3. ASSUME NEW r \in Requests, Lock(r) PROVE NothingRunsInDestroyedSessions'
  BY <1>3 DEF Lock
<1>4. ASSUME NEW r \in Requests, Join(r) PROVE NothingRunsInDestroyedSessions'
  BY <1>4 DEF Join
<1>5. ASSUME NEW r \in Requests, NoSession(r) PROVE NothingRunsInDestroyedSessions'
  BY <1>5 DEF NoSession
<1>6. ASSUME NEW r \in Requests, RenderOnce(r) PROVE NothingRunsInDestroyedSessions'
  BY <1>6 DEF RenderOnce, Found, TryEnterPass
<1>7. ASSUME NEW r \in Requests, RenderReset(r) PROVE NothingRunsInDestroyedSessions'
  BY <1>7 DEF RenderReset
<1>8. ASSUME NEW r \in Requests, RenderAwait(r) PROVE NothingRunsInDestroyedSessions'
  BY <1>8 DEF RenderAwait
<1>9. ASSUME NEW r \in Requests, RenderAuto(r) PROVE NothingRunsInDestroyedSessions'
  BY <1>9 DEF RenderAuto, Found
<1>10. ASSUME NEW r \in Requests, RenderOffOrSync(r) PROVE NothingRunsInDestroyedSessions'
  BY <1>10 DEF RenderOffOrSync, Found
<1>11. ASSUME NEW r \in Requests, RequestEnterPass(r) PROVE NothingRunsInDestroyedSessions'
  BY <1>11 DEF RequestEnterPass, TryEnterPass
<1>12. ASSUME NEW r \in Requests, RequestLeavePass(r) PROVE NothingRunsInDestroyedSessions'
  BY <1>12 DEF RequestLeavePass, LeavePass, InsideOf
<1>13. ASSUME NEW r \in Requests, Answer(r) PROVE NothingRunsInDestroyedSessions'
  BY <1>13 DEF Answer
<1>14. ASSUME NEW s \in Sessions, AutoTop(s) PROVE NothingRunsInDestroyedSessions'
  BY <1>14 DEF AutoTop, AutoGoto
<1>15. ASSUME NEW s \in Sessions, AutoEnterPass(s) PROVE NothingRunsInDestroyedSessions'
  BY <1>15 DEF AutoEnterPass, TryEnterPass, AutoGoto
<1>16. ASSUME NEW s \in Sessions, AutoLeavePass(s) PROVE NothingRunsInDestroyedSessions'
  BY <1>16 DEF AutoLeavePass, LeavePass, InsideOf, AutoGoto
<1>17. ASSUME NEW s \in Sessions, AutoSleep(s) PROVE NothingRunsInDestroyedSessions'
  BY <1>17 DEF AutoSleep, AutoGoto
<1>18. CASE Stop
  BY <1>18 DEF Stop
<1>19. CASE DtorLock
  BY <1>19 DEF DtorLock, Joinable
<1>20. ASSUME NEW s \in Sessions, DtorVisit(s) PROVE NothingRunsInDestroyedSessions'
  BY <1>20 DEF DtorVisit, Joinable
<1>21. CASE DtorDone
  BY <1>21 DEF DtorDone, Joinable
<1>22. CASE UNCHANGED vars
  BY <1>22 DEF vars
<1>23. QED
  BY <1>1, <1>2, <1>3, <1>4, <1>5, <1>6, <1>7, <1>8, <1>9, <1>10, <1>11, <1>12, <1>13, <1>14, <1>15, <1>16, <1>17, <1>18, <1>19, <1>20, <1>21, <1>22, NextCases

-----------------------------------------------------------------------------
\* The inductive invariant holds in every behaviour.
THEOREM Inductive == Spec => []IInv
<1>1. Init => IInv
  <2> SUFFICES ASSUME Init PROVE IInv
    OBVIOUS
  <2>1. TypeOK
    BY DEF Init, TypeOK, Phases, AutoPhases, Kinds
  <2>2. LockInv
    BY NamesAssumption DEF Init, LockInv, Inside
  <2>3. FlagInv /\ SyncingHasAnOwner
    BY DEF Init, FlagInv, SyncingHasAnOwner
  <2>4. ToldInv /\ SyncedMeansAPassEnded /\ NothingRunsInDestroyedSessions
    BY DEF Init, ToldInv, SyncedMeansAPassEnded, NothingRunsInDestroyedSessions
  <2>5. QED
    BY <2>1, <2>2, <2>3, <2>4 DEF IInv
<1>2. IInv /\ [Next]_vars => IInv'
  BY TypeStep, LockStep, FlagStep, ToldStep, GoneStep DEF IInv
<1>3. QED
  BY <1>1, <1>2, PTL DEF Spec

\* Type correctness.
THEOREM TypeCorrect == Spec => []TypeOK
<1>1. IInv => TypeOK
  BY DEF IInv
<1>2. QED
  BY <1>1, Inductive, PTL

\* Two threads are never inside syncOnce() of one session's client.
THEOREM PassesExclude == Spec => []OnePassAtATime
<1>1. IInv => OnePassAtATime
  BY DEF IInv, LockInv, FlagInv, OnePassAtATime, Inside
<1>2. QED
  BY <1>1, Inductive, PTL

\* The syncing flag is never left set without a thread that will clear it.
THEOREM FlagOwned == Spec => []SyncingHasAnOwner
<1>1. IInv => SyncingHasAnOwner
  BY DEF IInv
<1>2. QED
  BY <1>1, Inductive, PTL

\* "synced": true is answered only after a pass ended.
THEOREM SyncedIsTrue == Spec => []SyncedMeansAPassEnded
<1>1. IInv => SyncedMeansAPassEnded
  BY DEF IInv
<1>2. QED
  BY <1>1, Inductive, PTL

\* Destroyed sessions have no thread left inside.
THEOREM ShutdownLeavesNothing == Spec => []NothingRunsInDestroyedSessions
<1>1. IInv => NothingRunsInDestroyedSessions
  BY DEF IInv
<1>2. QED
  BY <1>1, Inductive, PTL
===============================================================================
