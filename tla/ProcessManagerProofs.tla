------------------------ MODULE ProcessManagerProofs ------------------------
(***************************************************************************)
(* Proofs about ProcessManager, for every number of turns and processes    *)
(* and every ring capacity: type correctness, the two invariants of the    *)
(* output ring, that an exit is published after the last byte, and, where  *)
(* one turn runs at a time, that no child outlives it and no descriptor    *)
(* leaks.                                                                  *)
(***************************************************************************)
EXTENDS ProcessManager, TLAPS

\* Every step is one of the named actions; the case split of the proofs below.
LEMMA NextCases ==
  ASSUME Next
  PROVE  \/ \E t \in Turns : \/ RequestTurn(t) \/ StartSubagent(t) \/ StartNumber(t)
                             \/ StartRegister(t) \/ SendWrite(t) \/ WaitOver(t)
                             \/ Reply(t) \/ EndRun(t) \/ CleanClose(t) \/ CleanDone(t)
         \/ \E t \in Turns, p \in Procs :
              \/ StartFork(t, p) \/ CleanSignal(t, p) \/ Poll(t, p) \/ Send(t, p)
              \/ Wait(t, p) \/ Kill(t, p)
         \/ \E p \in Procs :
              \/ ReaderRead(p) \/ ReaderEnd(p) \/ ReaderReap(p) \/ ReaderPublish(p)
              \/ ChildWrite(p) \/ ChildHangup(p) \/ ChildExit(p)
BY DEF Next, TurnStep, ReaderStep, ChildStep

\* Type correctness: every variable keeps the shape TypeOK gives it.
THEOREM TypeCorrect == Spec => []TypeOK
<1>1. Init => TypeOK
  <2> SUFFICES ASSUME Init PROVE TypeOK
    OBVIOUS
  <2>1. /\ busy \in BOOLEAN /\ seq \in Nat /\ mtx \in Turns \cup {Nobody}
        /\ pc \in [Turns -> Phases] /\ depth \in [Turns -> Nat]
        /\ cur \in [Turns -> Procs \cup {Nobody}] /\ num \in [Turns -> Nat]
    BY DEF Init, Phases
  <2>2. /\ idOf \in [Procs -> Nat] /\ size \in [Procs -> Nat]
        /\ consumed \in [Procs -> Nat] /\ pipe \in [Procs -> Nat]
        /\ total \in [Procs -> Nat] /\ seen \in [Procs -> Nat]
    BY DEF Init
  <2>3. /\ fdOpen \in [Procs -> BOOLEAN] /\ exited \in [Procs -> BOOLEAN]
        /\ killed \in [Procs -> BOOLEAN] /\ slaveOpen \in [Procs -> BOOLEAN]
        /\ signalled \in [Procs -> BOOLEAN]
    BY DEF Init
  <2>4. /\ reader \in [Procs -> {"none", "read", "reap", "publish", "done"}]
        /\ child \in [Procs -> {"none", "running", "dead", "reaped"}]
    BY DEF Init
  <2>5. QED
    BY <2>1, <2>2, <2>3, <2>4 DEF TypeOK
<1>2. TypeOK /\ [Next]_vars => TypeOK'
  <2> SUFFICES ASSUME TypeOK, [Next]_vars PROVE TypeOK'
    OBVIOUS
  <2> USE DEF TypeOK, Phases, Goto, Return, turnVars, managerVars, ringVars,
              flagVars, osVars
  <2>1. ASSUME NEW t \in Turns, RequestTurn(t) PROVE TypeOK'
    BY <2>1 DEF RequestTurn
  <2>2. ASSUME NEW t \in Turns, StartSubagent(t) PROVE TypeOK'
    BY <2>2 DEF StartSubagent
  <2>3. ASSUME NEW t \in Turns, StartNumber(t) PROVE TypeOK'
    BY <2>3 DEF StartNumber
  <2>4. ASSUME NEW t \in Turns, StartRegister(t) PROVE TypeOK'
    BY <2>4 DEF StartRegister, Insert
  <2>5. ASSUME NEW t \in Turns, SendWrite(t) \/ WaitOver(t) PROVE TypeOK'
    BY <2>5 DEF SendWrite, WaitOver
  <2>6. ASSUME NEW t \in Turns, Reply(t) PROVE TypeOK'
    BY <2>6 DEF Reply, Snapshot
  <2>7. ASSUME NEW t \in Turns, EndRun(t) PROVE TypeOK'
    BY <2>7 DEF EndRun
  <2>8. ASSUME NEW t \in Turns, CleanClose(t) PROVE TypeOK'
    BY <2>8 DEF CleanClose
  <2>9. ASSUME NEW t \in Turns, CleanDone(t) PROVE TypeOK'
    <3>1. CASE depth[t] > 0
      BY <2>9, <3>1 DEF CleanDone
    <3>2. CASE ~(depth[t] > 0)
      BY <2>9, <3>2 DEF CleanDone
    <3>3. QED
      BY <3>1, <3>2
  <2>10. ASSUME NEW t \in Turns, NEW p \in Procs, StartFork(t, p) PROVE TypeOK'
    BY <2>10 DEF StartFork
  <2>11. ASSUME NEW t \in Turns, NEW p \in Procs, CleanSignal(t, p) PROVE TypeOK'
    BY <2>11 DEF CleanSignal
  <2>12. ASSUME NEW t \in Turns, NEW p \in Procs,
                Poll(t, p) \/ Send(t, p) \/ Wait(t, p)
         PROVE TypeOK'
    BY <2>12 DEF Poll, Send, Wait, Find
  <2>13. ASSUME NEW t \in Turns, NEW p \in Procs, Kill(t, p) PROVE TypeOK'
    BY <2>13 DEF Kill, Find
  <2>14. ASSUME NEW p \in Procs, ReaderRead(p) PROVE TypeOK'
    BY <2>14, CapAssumption, ChunkAssumption DEF ReaderRead, AppendOutput
  <2>15. ASSUME NEW p \in Procs, ReaderEnd(p) \/ ReaderReap(p) \/ ReaderPublish(p)
         PROVE TypeOK'
    <3>1. CASE ReaderEnd(p)
      BY <3>1 DEF ReaderEnd
    <3>2. CASE ReaderReap(p)
      BY <3>2 DEF ReaderReap
    <3>3. CASE ReaderPublish(p)
      BY <3>3 DEF ReaderPublish
    <3> QED
      BY <2>15, <3>1, <3>2, <3>3
  <2>16. ASSUME NEW p \in Procs, ChildWrite(p) \/ ChildHangup(p) \/ ChildExit(p)
         PROVE TypeOK'
    <3>1. CASE ChildWrite(p)
      BY <3>1 DEF ChildWrite
    <3>2. CASE ChildHangup(p) \/ ChildExit(p)
      BY <3>2 DEF ChildHangup, ChildExit
    <3>3. QED
      BY <2>16, <3>1, <3>2
  <2>17. CASE UNCHANGED vars
    BY <2>17 DEF vars
  <2>18. QED
    BY <2>1, <2>2, <2>3, <2>4, <2>5, <2>6, <2>7, <2>8, <2>9, <2>10, <2>11,
       <2>12, <2>13, <2>14, <2>15, <2>16, <2>17, NextCases
<1>3. QED
  BY <1>1, <1>2, PTL DEF Spec

-----------------------------------------------------------------------------
(* The ring *)

\* The ring invariants need, besides themselves, that the ring never holds
\* more than was ever appended.
RingInv ==
  /\ ConsumedWithinRing
  /\ NothingDeliveredTwice
  /\ \A p \in Procs : size[p] <= total[p]

\* Only the reader's append and the snapshot touch the ring.
LEMMA RingSteps ==
  ASSUME [Next]_vars
  PROVE  \/ UNCHANGED ringVars
         \/ \E t \in Turns : Reply(t)
         \/ \E p \in Procs : ReaderRead(p)
<1> USE DEF turnVars, managerVars, flagVars, osVars
<1>1. CASE UNCHANGED vars
  BY <1>1 DEF vars
<1>2. CASE Next
  BY <1>2, NextCases, Zenon
     DEF RequestTurn, StartSubagent, StartNumber, StartRegister, SendWrite,
         WaitOver, EndRun, CleanClose, CleanDone, StartFork, CleanSignal, Poll,
         Send, Wait, Kill, ReaderEnd, ReaderReap, ReaderPublish,
         ChildWrite, ChildHangup, ChildExit
<1>3. QED
  BY <1>1, <1>2

\* An append that overflows the ring erases from the front, past bytes already
\* delivered or not, and keeps every index in range.
LEMMA AppendKeepsRing ==
  ASSUME TypeOK, RingInv, NEW p \in Procs, NEW n \in Nat, AppendOutput(p, n)
  PROVE  RingInv'
<1>1. \A q \in Procs : /\ size[q] \in Nat /\ total[q] \in Nat
                       /\ consumed[q] \in Nat /\ seen[q] \in Nat
  BY DEF TypeOK
<1>2. \A q \in Procs \ {p} : /\ total'[q] = total[q] /\ size'[q] = size[q]
                             /\ consumed'[q] = consumed[q] /\ seen'[q] = seen[q]
  BY DEF AppendOutput, TypeOK
<1>3. /\ total'[p] = total[p] + n
      /\ size'[p] = IF size[p] + n > Cap THEN Cap ELSE size[p] + n
      /\ consumed'[p] = consumed[p] /\ seen'[p] = seen[p]
  BY DEF AppendOutput, TypeOK
<1>4. consumed[p] <= size[p] /\ size[p] <= Cap /\ size[p] <= total[p]
      /\ seen[p] <= (total[p] - size[p]) + consumed[p]
  BY DEF RingInv, ConsumedWithinRing, NothingDeliveredTwice, Erased
<1>5. ASSUME NEW q \in Procs
      PROVE  /\ consumed'[q] <= size'[q] /\ size'[q] <= Cap
             /\ size'[q] <= total'[q]
             /\ seen'[q] <= (total'[q] - size'[q]) + consumed'[q]
  <2>1. CASE q = p
    BY <2>1, <1>1, <1>3, <1>4, CapAssumption
  <2>2. CASE q # p
    BY <2>2, <1>1, <1>2, CapAssumption
       DEF RingInv, ConsumedWithinRing, NothingDeliveredTwice, Erased
  <2>3. QED
    BY <2>1, <2>2
<1>6. QED
  BY <1>5 DEF RingInv, ConsumedWithinRing, NothingDeliveredTwice, Erased

\* A snapshot leaves the unread index at the end of the ring.
LEMMA SnapshotKeepsRing ==
  ASSUME TypeOK, RingInv, NEW p, Snapshot(p)
  PROVE  RingInv'
<1>1. \A q \in Procs : /\ size[q] \in Nat /\ total[q] \in Nat
                       /\ consumed[q] \in Nat /\ seen[q] \in Nat
                       /\ size'[q] = size[q] /\ total'[q] = total[q]
  BY DEF TypeOK, Snapshot
<1>2. ASSUME NEW q \in Procs
      PROVE  /\ consumed'[q] <= size'[q] /\ size'[q] <= Cap
             /\ size'[q] <= total'[q]
             /\ seen'[q] <= (total'[q] - size'[q]) + consumed'[q]
  <2>0. consumed[q] <= size[q] /\ size[q] <= Cap /\ size[q] <= total[q]
        /\ seen[q] <= (total[q] - size[q]) + consumed[q]
    BY DEF RingInv, ConsumedWithinRing, NothingDeliveredTwice, Erased
  <2>1. CASE q = p
    <3>1. consumed'[q] = size[q] /\ seen'[q] \in {total[q], seen[q]}
      BY <2>1 DEF Snapshot, TypeOK
    <3>2. QED
      BY <3>1, <2>0, <1>1, CapAssumption
  <2>2. CASE q # p
    <3>1. consumed'[q] = consumed[q] /\ seen'[q] = seen[q]
      BY <2>2 DEF Snapshot, TypeOK
    <3>2. QED
      BY <3>1, <2>0, <1>1
  <2>3. QED
    BY <2>1, <2>2
<1>3. QED
  BY <1>2 DEF RingInv, ConsumedWithinRing, NothingDeliveredTwice, Erased

\* The ring invariant of the process tool, for every capacity and read size.
THEOREM RingCorrect == Spec => []DeliveredOnce
<1>1. Init => RingInv
  BY CapAssumption
     DEF Init, RingInv, ConsumedWithinRing, NothingDeliveredTwice, Erased
<1>2. TypeOK /\ RingInv /\ [Next]_vars => RingInv'
  <2> SUFFICES ASSUME TypeOK, RingInv, [Next]_vars PROVE RingInv'
    OBVIOUS
  <2>1. CASE UNCHANGED ringVars
    BY <2>1 DEF ringVars, RingInv, ConsumedWithinRing, NothingDeliveredTwice, Erased
  <2>2. ASSUME NEW t \in Turns, Reply(t) PROVE RingInv'
    BY <2>2, SnapshotKeepsRing DEF Reply
  <2>3. ASSUME NEW p \in Procs, ReaderRead(p) PROVE RingInv'
    <3>1. PICK n \in 1 .. Chunk : AppendOutput(p, n)
      BY <2>3 DEF ReaderRead
    <3>2. n \in Nat
      BY ChunkAssumption
    <3>3. QED
      BY <3>1, <3>2, AppendKeepsRing
  <2>4. QED
    BY <2>1, <2>2, <2>3, RingSteps
<1>3. RingInv => DeliveredOnce
  BY DEF RingInv, DeliveredOnce
<1>4. QED
  BY <1>1, <1>2, <1>3, TypeCorrect, PTL DEF Spec

-----------------------------------------------------------------------------
(* No child outlives the turn, where turns do not overlap *)

\* The turn t is responsible for p: p was forked and is not in the map yet.
Unregistered(t, p) == pc[t] \in {"forked", "numbered"} /\ cur[t] = p

\* A living child is registered, or about to be, or has SIGKILL pending.
Accounted ==
  \A p \in Procs :
    child[p] = "running" =>
      signalled[p] \/ Registered(p) \/ \E t \in Turns : Unregistered(t, p)

\* Ids are handed out upwards, so that a new one displaces no entry.
IdsFresh ==
  /\ \A p \in Procs : idOf[p] <= seq
  /\ \A t \in Turns : pc[t] = "numbered" => num[t] = seq + 1

\* The exit is published for a reaped child only, so that the guard that
\* skips an exited process skips no living one.
ExitedIsReaped ==
  \A p \in Procs :
    exited[p] \/ reader[p] \in {"publish", "done"} => child[p] = "reaped"

\* Between the two halves of a cleanup step its process cannot be alive and
\* unsignalled; outside a turn the map is empty.
CleanupAccounted ==
  \A t \in Turns :
    /\ pc[t] = "closing" =>
         \A p \in Procs : cur[t] = p /\ child[p] = "running" => signalled[p]
    /\ pc[t] = "off" => \A p \in Procs : ~Registered(p)

OutliveInv == Accounted /\ IdsFresh /\ ExitedIsReaped /\ CleanupAccounted

OneTurnOnly == \A t, u \in Turns : t = u

\* One step per group of actions keeps OutliveInv.
LEMMA OutliveStep ==
  ASSUME OneTurnOnly, TypeOK, OutliveInv, [Next]_vars
  PROVE  OutliveInv'
<1> USE DEF TypeOK, Phases, OutliveInv, Accounted, IdsFresh, ExitedIsReaped,
            CleanupAccounted, Unregistered, Registered, OneTurnOnly, Goto, Return, turnVars,
            managerVars, ringVars, flagVars, osVars
<1>1. ASSUME NEW t \in Turns,
             \/ RequestTurn(t) \/ StartSubagent(t) \/ SendWrite(t) \/ WaitOver(t)
             \/ Reply(t) \/ EndRun(t)
      PROVE  OutliveInv'
  BY <1>1, OneTurnOnly
     DEF RequestTurn, StartSubagent, SendWrite, WaitOver, Reply, EndRun
<1>2. ASSUME NEW t \in Turns, StartNumber(t) PROVE OutliveInv'
  BY <1>2, OneTurnOnly DEF StartNumber
<1>3. ASSUME NEW t \in Turns, StartRegister(t) PROVE OutliveInv'
  <2> USE <1>3, OneTurnOnly DEF StartRegister, Insert
  <2>1. \A q \in Procs : idOf'[q] = IF q = cur[t] THEN num[t] ELSE idOf[q]
    OBVIOUS
  <2>2. seq' = seq + 1 /\ num[t] = seq + 1 /\ pc'[t] = "reply"
    OBVIOUS
  <2>3. IdsFresh'
    <3>1. \A q \in Procs : idOf'[q] <= seq'
      BY <2>1, <2>2
    <3>2. \A u \in Turns : pc'[u] # "numbered"
      BY <2>2
    <3>3. QED
      BY <3>1, <3>2
  <2>4. Accounted'
    BY <2>1, <2>2
  <2>5. ExitedIsReaped'
    <3>1. \A q \in Procs : reader'[q] = IF q = cur[t] THEN "read" ELSE reader[q]
      OBVIOUS
    <3>2. UNCHANGED <<exited, child>>
      OBVIOUS
    <3>3. QED
      BY <3>1, <3>2
  <2>6. CleanupAccounted'
    <3>1. \A u \in Turns : pc'[u] = "reply"
      BY <2>2
    <3>2. QED
      BY <3>1
  <2>7. QED
    BY <2>3, <2>4, <2>5, <2>6
<1>4. ASSUME NEW t \in Turns, CleanClose(t) PROVE OutliveInv'
  BY <1>4, OneTurnOnly DEF CleanClose
<1>5. ASSUME NEW t \in Turns, CleanDone(t) PROVE OutliveInv'
  BY <1>5, OneTurnOnly DEF CleanDone
<1>6. ASSUME NEW t \in Turns, NEW p \in Procs, StartFork(t, p) PROVE OutliveInv'
  <2> USE <1>6, OneTurnOnly DEF StartFork
  <2>1. pc'[t] = "forked" /\ cur'[t] = p
    OBVIOUS
  <2>2. \A q \in Procs \ {p} : child'[q] = child[q]
    OBVIOUS
  <2>3. Accounted'
    BY <2>1, <2>2
  <2>4. IdsFresh'
    BY <2>1
  <2>5. ExitedIsReaped'
    BY <2>2
  <2>6. CleanupAccounted'
    <3>1. \A u \in Turns : pc'[u] = "forked"
      BY <2>1
    <3>2. QED
      BY <3>1
  <2>7. QED
    BY <2>3, <2>4, <2>5, <2>6
<1>7. ASSUME NEW t \in Turns, NEW p \in Procs, CleanSignal(t, p) PROVE OutliveInv'
  <2> USE <1>7, OneTurnOnly DEF CleanSignal
  <2>1. /\ pc'[t] = "closing" /\ cur'[t] = p
        /\ signalled'[p] = (signalled[p] \/ ~exited[p])
    OBVIOUS
  <2>2. child[p] = "running" => signalled'[p]
    BY <2>1
  <2>3. \A q \in Procs : signalled[q] => signalled'[q]
    OBVIOUS
  <2>4. Accounted'
    BY <2>3
  <2>5. IdsFresh' /\ ExitedIsReaped'
    BY <2>1
  <2>6. CleanupAccounted'
    BY <2>1, <2>2
  <2>7. QED
    BY <2>4, <2>5, <2>6
<1>8. ASSUME NEW t \in Turns, NEW p \in Procs, 
             Poll(t, p) \/ Send(t, p) \/ Wait(t, p) \/ Kill(t, p)
      PROVE  OutliveInv'
  BY <1>8, OneTurnOnly DEF Poll, Send, Wait, Kill, Find
<1>9. ASSUME NEW p \in Procs,
             ReaderRead(p) \/ ReaderEnd(p) \/ ReaderReap(p) \/ ReaderPublish(p)
      PROVE  OutliveInv'
  BY <1>9 DEF ReaderRead, AppendOutput, ReaderEnd, ReaderReap, ReaderPublish
<1>10. ASSUME NEW p \in Procs, ChildWrite(p) \/ ChildHangup(p) \/ ChildExit(p)
       PROVE  OutliveInv'
  BY <1>10 DEF ChildWrite, ChildHangup, ChildExit
<1>11. CASE UNCHANGED vars
  BY <1>11 DEF vars
<1>12. QED
  BY <1>1, <1>2, <1>3, <1>4, <1>5, <1>6, <1>7, <1>8, <1>9, <1>10, <1>11, NextCases

\* Where turns never overlap, no child outlives its turn, for any number of
\* processes, nested runs and tool calls.
THEOREM NothingOutlives ==
  ASSUME OneTurnOnly
  PROVE  Spec => []NoProcessOutlivesTurn
<1>1. Init => OutliveInv
  BY DEF Init, OutliveInv, Accounted, IdsFresh, ExitedIsReaped,
         CleanupAccounted, Registered
<1>2. TypeOK /\ OutliveInv /\ [Next]_vars => OutliveInv'
  BY OneTurnOnly, OutliveStep
<1>3. OutliveInv => NoProcessOutlivesTurn
  BY TurnsAssumption
     DEF OutliveInv, Accounted, CleanupAccounted, NoProcessOutlivesTurn,
         Unregistered
<1>4. QED
  BY <1>1, <1>2, <1>3, TypeCorrect, PTL DEF Spec

-----------------------------------------------------------------------------
(* The exit is published after the last byte, with any number of turns *)

\* A process that was forked and not registered belongs to the turn that forked
\* it and to no other; nobody reads from it yet.
ForkOwned ==
  \A t \in Turns : pc[t] \in {"forked", "numbered"} =>
    /\ cur[t] \in Procs
    /\ child[cur[t]] # "none" /\ fdOpen[cur[t]] /\ reader[cur[t]] = "none"
    /\ \A u \in Turns :
         pc[u] \in {"forked", "numbered"} /\ cur[u] = cur[t] => u = t

\* A process that does not exist has no reader; one without a reader is not
\* registered, and no cleanup is about to close it.
ReaderFirst ==
  /\ \A p \in Procs : /\ child[p] = "none" => reader[p] = "none"
                      /\ reader[p] = "none" => ~Registered(p)
                      /\ exited[p] => reader[p] = "done"
  /\ \A t \in Turns : pc[t] = "closing" => reader[cur[t]] # "none"

\* While a process is registered its descriptor is closed by its own reader
\* only, at the very end; so a reader that stopped reading had seen the terminal
\* drained, with nobody left to write.
Drained ==
  \A p \in Procs : Registered(p) =>
    /\ fdOpen[p] \/ reader[p] = "done"
    /\ reader[p] \in {"reap", "publish", "done"} => pipe[p] = 0 /\ ~slaveOpen[p]

ExitInv == ForkOwned /\ ReaderFirst /\ Drained

LEMMA ExitStep ==
  ASSUME TypeOK, ExitInv, [Next]_vars
  PROVE  ExitInv'
<1> USE DEF TypeOK, Phases, ExitInv, ForkOwned, ReaderFirst, Drained, Registered,
            Goto, Return, turnVars, managerVars, ringVars, flagVars, osVars
<1>1. ASSUME NEW t \in Turns,
             RequestTurn(t) \/ StartSubagent(t) \/ SendWrite(t) \/ WaitOver(t)
             \/ Reply(t) \/ EndRun(t)
      PROVE  ExitInv'
  <2>1. CASE RequestTurn(t) \/ StartSubagent(t)
    BY <2>1 DEF RequestTurn, StartSubagent
  <2>2. CASE SendWrite(t) \/ WaitOver(t)
    BY <2>2 DEF SendWrite, WaitOver
  <2>3. CASE Reply(t) \/ EndRun(t)
    BY <2>3 DEF Reply, EndRun
  <2> QED
    BY <1>1, <2>1, <2>2, <2>3
<1>2. ASSUME NEW t \in Turns, StartNumber(t) PROVE ExitInv'
  BY <1>2 DEF StartNumber
<1>3. ASSUME NEW t \in Turns, StartRegister(t) PROVE ExitInv'
  <2> DEFINE p == cur[t]
  <2>1. /\ pc[t] = "numbered" /\ p \in Procs /\ child[p] # "none"
        /\ fdOpen[p] /\ reader[p] = "none" /\ ~exited[p]
    BY <1>3 DEF StartRegister
  <2>2. /\ pc' = [pc EXCEPT ![t] = "reply"] /\ cur' = cur
        /\ reader' = [reader EXCEPT ![p] = "read"]
        /\ UNCHANGED <<exited, fdOpen, child, pipe, slaveOpen>>
    BY <1>3 DEF StartRegister
  <2>3. \A q \in Procs : q # p => (idOf'[q] # 0 => idOf[q] # 0)
    BY <1>3 DEF StartRegister, Insert
  <2> HIDE DEF p
  <2>4. ForkOwned'
    <3> SUFFICES ASSUME NEW u \in Turns, pc'[u] \in {"forked", "numbered"}
                 PROVE  /\ cur[u] \in Procs
                        /\ child[cur[u]] # "none" /\ fdOpen[cur[u]]
                        /\ reader'[cur[u]] = "none"
                        /\ \A v \in Turns : pc'[v] \in {"forked", "numbered"}
                                            /\ cur[v] = cur[u] => v = u
      BY <2>2
    <3>1. u # t /\ pc[u] \in {"forked", "numbered"} /\ cur[u] # p
      BY <2>1, <2>2 DEF p
    <3>2. \A v \in Turns : pc'[v] \in {"forked", "numbered"} =>
                                pc[v] \in {"forked", "numbered"}
      BY <2>2
    <3> QED
      BY <2>2, <3>1, <3>2
  <2>5. ReaderFirst'
    <3>1. \A q \in Procs : reader'[q] = IF q = p THEN "read" ELSE reader[q]
      BY <2>1, <2>2
    <3>2. \A u \in Turns : pc'[u] = "closing" => pc[u] = "closing"
      BY <2>2
    <3>3. ASSUME NEW u \in Turns, pc'[u] = "closing"
          PROVE  reader'[cur'[u]] # "none"
      BY <2>2, <3>2, <3>3
    <3> QED
      BY <2>1, <2>2, <2>3, <3>1, <3>3
  <2>6. Drained'
    BY <2>1, <2>2, <2>3
  <2> QED
    BY <2>4, <2>5, <2>6
<1>4. ASSUME NEW t \in Turns, CleanClose(t) PROVE ExitInv'
  BY <1>4 DEF CleanClose
<1>5. ASSUME NEW t \in Turns, CleanDone(t) PROVE ExitInv'
  BY <1>5 DEF CleanDone
<1>6. ASSUME NEW t \in Turns, NEW p \in Procs, StartFork(t, p) PROVE ExitInv'
  <2>1. /\ child[p] = "none" /\ reader[p] = "none" /\ ~Registered(p) /\ ~exited[p]
        /\ child' = [child EXCEPT ![p] = "running"]
        /\ slaveOpen' = [slaveOpen EXCEPT ![p] = TRUE]
        /\ fdOpen' = [fdOpen EXCEPT ![p] = TRUE]
        /\ cur' = [cur EXCEPT ![t] = p]
        /\ pc' = [pc EXCEPT ![t] = "forked"]
        /\ UNCHANGED <<idOf, exited, reader, pipe>>
    BY <1>6 DEF StartFork
  <2>2. \A u \in Turns : pc[u] \in {"forked", "numbered"} => cur[u] # p
    BY <2>1
  <2>3. ForkOwned'
    BY <2>1, <2>2
  <2>4. ReaderFirst'
    BY <2>1
  <2>5. Drained'
    BY <2>1
  <2> QED
    BY <2>3, <2>4, <2>5
<1>7. ASSUME NEW t \in Turns, NEW p \in Procs, CleanSignal(t, p) PROVE ExitInv'
  BY <1>7 DEF CleanSignal
<1>8. ASSUME NEW t \in Turns, NEW p \in Procs,
             Poll(t, p) \/ Send(t, p) \/ Wait(t, p) \/ Kill(t, p)
      PROVE  ExitInv'
  BY <1>8 DEF Poll, Send, Wait, Kill, Find
<1>9. ASSUME NEW p \in Procs,
             ReaderRead(p) \/ ReaderEnd(p) \/ ReaderReap(p) \/ ReaderPublish(p)
      PROVE  ExitInv'
  <2>1. CASE ReaderRead(p)
    BY <2>1 DEF ReaderRead, AppendOutput
  <2>2. CASE ReaderEnd(p)
    BY <2>2 DEF ReaderEnd
  <2>3. CASE ReaderReap(p)
    BY <2>3 DEF ReaderReap
  <2>4. CASE ReaderPublish(p)
    BY <2>4 DEF ReaderPublish
  <2> QED
    BY <1>9, <2>1, <2>2, <2>3, <2>4
<1>10. ASSUME NEW p \in Procs, ChildWrite(p) \/ ChildHangup(p) \/ ChildExit(p)
       PROVE  ExitInv'
  <2>1. CASE ChildWrite(p)
    BY <2>1 DEF ChildWrite
  <2>2. CASE ChildHangup(p) \/ ChildExit(p)
    BY <2>2 DEF ChildHangup, ChildExit
  <2> QED
    BY <1>10, <2>1, <2>2
<1>11. CASE UNCHANGED vars
  BY <1>11 DEF vars
<1> QED
  BY <1>1, <1>2, <1>3, <1>4, <1>5, <1>6, <1>7, <1>8, <1>9, <1>10, <1>11, NextCases

\* A published exit is final: every byte of the child and of its descendants is
\* in the ring's history, whatever turns, nested runs and cleanups overlap.
THEOREM ExitIsLast == Spec => []ExitAfterLastByte
<1>1. Init => ExitInv
  BY DEF Init, ExitInv, ForkOwned, ReaderFirst, Drained, Registered
<1>2. TypeOK /\ ExitInv /\ [Next]_vars => ExitInv'
  BY ExitStep
<1>3. ExitInv => ExitAfterLastByte
  BY DEF ExitInv, ReaderFirst, Drained, ExitAfterLastByte
<1> QED
  BY <1>1, <1>2, <1>3, TypeCorrect, PTL DEF Spec

-----------------------------------------------------------------------------
(* No descriptor leaks, where turns do not overlap *)

\* Every open descriptor belongs to a registered process, or to one that its
\* turn is about to register; a reader that ended has closed its own.
OpenHeld ==
  \A p \in Procs :
    /\ fdOpen[p] => Registered(p) \/ \E t \in Turns : Unregistered(t, p)
    /\ reader[p] = "done" => ~fdOpen[p]

\* An id displaces no other entry of the map, because it is a fresh one.
LEMMA DescriptorStep ==
  ASSUME OneTurnOnly, TypeOK, IdsFresh, ExitInv, OpenHeld, [Next]_vars
  PROVE  OpenHeld'
<1> USE DEF TypeOK, Phases, OpenHeld, Unregistered, Registered,
            Goto, Return, turnVars, managerVars, ringVars, flagVars, osVars
<1>1. ASSUME NEW t \in Turns,
             \/ RequestTurn(t) \/ StartSubagent(t) \/ SendWrite(t) \/ WaitOver(t)
             \/ Reply(t) \/ EndRun(t) \/ StartNumber(t)
      PROVE  OpenHeld'
  BY <1>1
     DEF RequestTurn, StartSubagent, SendWrite, WaitOver, Reply, EndRun, StartNumber
<1>2. ASSUME NEW t \in Turns, StartRegister(t) PROVE OpenHeld'
  <2>1. /\ pc[t] = "numbered" /\ num[t] = seq + 1 /\ cur[t] \in Procs
        /\ \A p \in Procs : idOf[p] <= seq
    BY <1>2 DEF StartRegister, IdsFresh, ExitInv, ForkOwned
  <2>2. /\ \A q \in Procs : idOf'[q] = IF q = cur[t] THEN seq + 1 ELSE idOf[q]
        /\ fdOpen' = fdOpen
        /\ \A q \in Procs : reader'[q] = IF q = cur[t] THEN "read" ELSE reader[q]
    BY <1>2, <2>1 DEF StartRegister, Insert
  <2>3. \A p \in Procs : fdOpen[p] => Registered(p) \/ p = cur[t]
    BY <2>1, OneTurnOnly DEF OneTurnOnly
  <2> QED
    BY <2>1, <2>2, <2>3
<1>3. ASSUME NEW t \in Turns, CleanClose(t) PROVE OpenHeld'
  <2>1. /\ pc[t] = "closing" /\ fdOpen' = [fdOpen EXCEPT ![cur[t]] = FALSE]
        /\ idOf' = [idOf EXCEPT ![cur[t]] = 0] /\ reader' = reader
    BY <1>3 DEF CleanClose
  <2>2. \A p \in Procs : fdOpen[p] => Registered(p)
    BY <2>1, OneTurnOnly DEF OneTurnOnly
  <2> QED
    BY <2>1, <2>2
<1>4. ASSUME NEW t \in Turns, CleanDone(t) PROVE OpenHeld'
  BY <1>4 DEF CleanDone
<1>5. ASSUME NEW t \in Turns, NEW p \in Procs, StartFork(t, p) PROVE OpenHeld'
  <2>1. /\ child[p] = "none" /\ reader[p] = "none" /\ pc[t] = "idle"
    BY <1>5 DEF StartFork, ExitInv, ReaderFirst
  <2>2. /\ fdOpen' = [fdOpen EXCEPT ![p] = TRUE] /\ cur' = [cur EXCEPT ![t] = p]
        /\ pc' = [pc EXCEPT ![t] = "forked"] /\ idOf' = idOf /\ reader' = reader
    BY <1>5 DEF StartFork
  <2>3. \A q \in Procs : fdOpen[q] => Registered(q)
    BY <2>1, OneTurnOnly DEF OneTurnOnly
  <2> QED
    BY <2>1, <2>2, <2>3
<1>6. ASSUME NEW t \in Turns, NEW p \in Procs,
             CleanSignal(t, p) \/ Poll(t, p) \/ Send(t, p) \/ Wait(t, p) \/ Kill(t, p)
      PROVE  OpenHeld'
  BY <1>6 DEF CleanSignal, Poll, Send, Wait, Kill, Find
<1>7. ASSUME NEW p \in Procs,
             ReaderRead(p) \/ ReaderEnd(p) \/ ReaderReap(p) \/ ReaderPublish(p)
      PROVE  OpenHeld'
  BY <1>7 DEF ReaderRead, AppendOutput, ReaderEnd, ReaderReap, ReaderPublish
<1>8. ASSUME NEW p \in Procs, ChildWrite(p) \/ ChildHangup(p) \/ ChildExit(p)
      PROVE  OpenHeld'
  BY <1>8 DEF ChildWrite, ChildHangup, ChildExit
<1>9. CASE UNCHANGED vars
  BY <1>9 DEF vars
<1> QED
  BY <1>1, <1>2, <1>3, <1>4, <1>5, <1>6, <1>7, <1>8, <1>9, NextCases

\* Where turns never overlap, no pseudo-terminal stays open without a process
\* in the map, or about to be in it, whose reader will close it.
THEOREM NoDescriptorLeaks ==
  ASSUME OneTurnOnly
  PROVE  Spec => []DescriptorsAccountedFor
<1>1. Init => OpenHeld /\ OutliveInv /\ ExitInv
  BY DEF Init, OpenHeld, OutliveInv, Accounted, IdsFresh, ExitedIsReaped,
         CleanupAccounted, ExitInv, ForkOwned, ReaderFirst, Drained, Registered
<1>2. TypeOK /\ OpenHeld /\ OutliveInv /\ ExitInv /\ [Next]_vars
        => (OpenHeld /\ OutliveInv /\ ExitInv)'
  BY OneTurnOnly, OutliveStep, ExitStep, DescriptorStep DEF OutliveInv
<1>3. OpenHeld => DescriptorsAccountedFor
  BY DEF OpenHeld, DescriptorsAccountedFor, Unregistered
<1> QED
  BY <1>1, <1>2, <1>3, TypeCorrect, PTL DEF Spec
=============================================================================
