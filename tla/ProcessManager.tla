--------------------------- MODULE ProcessManager ---------------------------
(***************************************************************************)
(* The interactive process tool of the coding agent                        *)
(* (src/agent_tools_proc.cpp, class ProcessManager) together with the two  *)
(* places that drive it: the end-of-turn guard in agenttools::run()        *)
(* (src/agent_tools_run.cpp) and the "agent-code busy" gate of the TUI     *)
(* (src/cmd_tui_commands.cpp).                                             *)
(*                                                                         *)
(* A turn is one call of run().  It forks children on a pseudo-terminal,   *)
(* registers them, and talks to them with send/poll/wait/kill; each child  *)
(* has a detached reader thread that moves output into a capped ring.      *)
(* Bytes are counted, never spelled: byte number k of a child is the k-th  *)
(* byte its terminal ever carried, and the ring of p holds the bytes       *)
(* Erased(p)+1 .. total[p].                                                *)
(***************************************************************************)
EXTENDS Integers

CONSTANTS
  Turns,      \* threads that may execute run(); one in the CLI, more in the TUI
  Procs,      \* Proc objects, each used for one fork
  Nobody,     \* "no Proc" / "no turn"
  Cap,        \* capacity of the output ring (65536 in the code)
  Chunk,      \* most bytes one read() returns (4096 in the code)
  MaxNesting, \* bound: subagent runs nested in a turn ("task" tool calls)
  MaxOutput   \* bound: bytes a child ever writes

ASSUME CapAssumption == Cap \in Nat \ {0}
ASSUME ChunkAssumption == Chunk \in Nat \ {0}
ASSUME BoundsAssumption == MaxOutput \in Nat /\ MaxNesting \in Nat
ASSUME NobodyAssumption == Nobody \notin Procs /\ Nobody \notin Turns
ASSUME TurnsAssumption == Turns # {}

VARIABLES
  \* the gate and the turns
  busy,       \* agentCodeBusy
  pc,         \* where each turn is
  depth,      \* run() calls nested below the turn's own
  cur,        \* the Proc of the tool call the turn is executing
  num,        \* the value ++seq_ gave to the turn that is registering
  \* ProcessManager
  seq,        \* seq_
  idOf,       \* procs_, read backwards: the id a Proc is registered under, or 0
  mtx,        \* holder of mtx_ across several steps (cleanupAll), or Nobody
  \* Proc
  fdOpen,     \* masterFd >= 0
  size,       \* buffer.size()
  consumed,   \* consumed
  exited,     \* exited
  killed,     \* killed
  reader,     \* the detached reader thread of the Proc
  \* the operating system: the child, its terminal, the signals
  child,      \* none -> running -> dead -> reaped
  slaveOpen,  \* someone (the child or a descendant) still has the terminal open
  pipe,       \* bytes written by the child, not read yet
  signalled,  \* SIGKILL was sent
  \* history
  total,      \* bytes ever appended to the ring
  seen        \* number of the last byte handed to the agent

turnVars == <<busy, pc, depth, cur, num>>
managerVars == <<seq, idOf, mtx>>
ringVars == <<size, consumed, total, seen>>
flagVars == <<exited, killed, fdOpen, reader>>
osVars == <<child, slaveOpen, pipe, signalled>>
vars == <<turnVars, managerVars, ringVars, flagVars, osVars>>

Phases == {"off", "idle", "forked", "numbered", "sending", "waiting", "reply",
           "cleaning", "closing"}

TypeOK ==
  /\ busy \in BOOLEAN
  /\ pc \in [Turns -> Phases]
  /\ depth \in [Turns -> Nat]
  /\ cur \in [Turns -> Procs \cup {Nobody}]
  /\ num \in [Turns -> Nat]
  /\ seq \in Nat
  /\ idOf \in [Procs -> Nat]
  /\ mtx \in Turns \cup {Nobody}
  /\ fdOpen \in [Procs -> BOOLEAN]
  /\ size \in [Procs -> Nat]
  /\ consumed \in [Procs -> Nat]
  /\ exited \in [Procs -> BOOLEAN]
  /\ killed \in [Procs -> BOOLEAN]
  /\ reader \in [Procs -> {"none", "read", "reap", "publish", "done"}]
  /\ child \in [Procs -> {"none", "running", "dead", "reaped"}]
  /\ slaveOpen \in [Procs -> BOOLEAN]
  /\ pipe \in [Procs -> Nat]
  /\ signalled \in [Procs -> BOOLEAN]
  /\ total \in [Procs -> Nat]
  /\ seen \in [Procs -> Nat]

Init ==
  /\ busy = FALSE
  /\ pc = [t \in Turns |-> "off"]
  /\ depth = [t \in Turns |-> 0]
  /\ cur = [t \in Turns |-> Nobody]
  /\ num = [t \in Turns |-> 0]
  /\ seq = 0
  /\ idOf = [p \in Procs |-> 0]
  /\ mtx = Nobody
  /\ fdOpen = [p \in Procs |-> FALSE]
  /\ size = [p \in Procs |-> 0]
  /\ consumed = [p \in Procs |-> 0]
  /\ exited = [p \in Procs |-> FALSE]
  /\ killed = [p \in Procs |-> FALSE]
  /\ reader = [p \in Procs |-> "none"]
  /\ child = [p \in Procs |-> "none"]
  /\ slaveOpen = [p \in Procs |-> FALSE]
  /\ pipe = [p \in Procs |-> 0]
  /\ signalled = [p \in Procs |-> FALSE]
  /\ total = [p \in Procs |-> 0]
  /\ seen = [p \in Procs |-> 0]

-----------------------------------------------------------------------------
(* The ring *)

\* Bytes that buffer.erase(0, ..) has dropped from the front of p's ring.
Erased(p) == total[p] - size[p]

\* Seeded fault: an overflow empties the ring instead of trimming its front.
AppendOutputEmpties(p, n) ==
  /\ total' = [total EXCEPT ![p] = @ + n]
  /\ size' = [size EXCEPT ![p] = IF @ + n > Cap THEN n ELSE @ + n]
  /\ UNCHANGED <<consumed, seen>>

\* buffer.append(buf, n), then erase from the front down to Cap.
\* `consumed` is an index into the buffer and is left alone.
AppendOutput(p, n) ==
  /\ total' = [total EXCEPT ![p] = @ + n]
  /\ size' = [size EXCEPT ![p] = IF @ + n > Cap THEN Cap ELSE @ + n]
  /\ UNCHANGED <<consumed, seen>>

\* Seeded fault: the unread index is not moved.
SnapshotKeepsIndex(p) ==
  /\ seen' = [seen EXCEPT ![p] = IF consumed[p] < size[p] THEN total[p] ELSE @]
  /\ UNCHANGED <<size, total, consumed>>

\* snapshot(): hand out buffer.substr(consumed), then consumed = size.
Snapshot(p) ==
  /\ seen' = [seen EXCEPT ![p] = IF consumed[p] < size[p] THEN total[p] ELSE @]
  /\ consumed' = [consumed EXCEPT ![p] = size[p]]
  /\ UNCHANGED <<size, total>>

-----------------------------------------------------------------------------
(* The turns *)

Registered(p) == idOf[p] # 0

Goto(t, phase) == pc' = [pc EXCEPT ![t] = phase]

\* The call on cur[t] is over: its shared_ptr and locals are gone.
Return(t, phase) ==
  /\ Goto(t, phase)
  /\ cur' = [cur EXCEPT ![t] = Nobody]

\* procs_[id] = p: a Proc that had the id before is no longer in the map.
Insert(p, id) ==
  idOf' = [q \in Procs |-> IF q = p THEN id
                           ELSE IF idOf[q] = id THEN 0 ELSE idOf[q]]

\* "/agent-code": if (busy.exchange(true)) { refuse; busy = false; } else run.
RequestTurn(t) ==
  /\ pc[t] = "off"
  /\ busy' = ~busy
  /\ Goto(t, IF busy THEN "off" ELSE "idle")
  /\ UNCHANGED <<depth, cur, num, managerVars, ringVars, flagVars, osVars>>

\* The "task" tool: a nested run(), with a guard of its own.
StartSubagent(t) ==
  /\ pc[t] = "idle"
  /\ depth[t] < MaxNesting
  /\ depth' = [depth EXCEPT ![t] = @ + 1]
  /\ UNCHANGED <<busy, pc, cur, num, managerVars, ringVars, flagVars, osVars>>

\* start(): openpty, fork, and the construction of the Proc.
StartFork(t, p) ==
  /\ pc[t] = "idle"
  /\ child[p] = "none"
  /\ child' = [child EXCEPT ![p] = "running"]
  /\ slaveOpen' = [slaveOpen EXCEPT ![p] = TRUE]
  /\ fdOpen' = [fdOpen EXCEPT ![p] = TRUE]
  /\ cur' = [cur EXCEPT ![t] = p]
  /\ Goto(t, "forked")
  /\ UNCHANGED <<busy, depth, num, managerVars, ringVars, exited, killed,
                 reader, pipe, signalled>>

\* start(): ++seq_ is not guarded by mtx_; this is its load.
StartNumber(t) ==
  /\ pc[t] = "forked"
  /\ num' = [num EXCEPT ![t] = seq + 1]
  /\ Goto(t, "numbered")
  /\ UNCHANGED <<busy, depth, cur, managerVars, ringVars, flagVars, osVars>>

\* start(): the store of ++seq_, procs_[id] = p under mtx_, the reader thread.
StartRegister(t) ==
  /\ pc[t] = "numbered"
  /\ mtx = Nobody
  /\ seq' = num[t]
  /\ Insert(cur[t], num[t])
  /\ reader' = [reader EXCEPT ![cur[t]] = "read"]
  /\ num' = [num EXCEPT ![t] = 0]
  /\ Goto(t, "reply")
  /\ UNCHANGED <<busy, depth, cur, mtx, ringVars, exited, killed, fdOpen, osVars>>

\* find(id) for a tool call on p that goes on in phase `phase`.
Find(t, p, phase) ==
  /\ pc[t] = "idle"
  /\ mtx = Nobody
  /\ Registered(p)
  /\ cur' = [cur EXCEPT ![t] = p]
  /\ Goto(t, phase)
  /\ UNCHANGED <<busy, depth, num, managerVars>>

\* poll(): find, then the snapshot.
Poll(t, p) ==
  /\ Find(t, p, "reply")
  /\ UNCHANGED <<ringVars, flagVars, osVars>>

\* send(): the check under p->mtx ...
Send(t, p) ==
  /\ ~exited[p] /\ fdOpen[p]
  /\ Find(t, p, "sending")
  /\ UNCHANGED <<ringVars, flagVars, osVars>>

\* ... and the write() after it, which fails when the reader or cleanupAll
\* has closed the descriptor in between ("error: write failed").
SendWrite(t) ==
  /\ pc[t] = "sending"
  /\ IF fdOpen[cur[t]] THEN Goto(t, "reply") /\ UNCHANGED cur
                      ELSE Return(t, "idle")
  /\ UNCHANGED <<busy, depth, num, managerVars, ringVars, flagVars, osVars>>

\* wait(): polls `exited` every 100 ms ...
Wait(t, p) ==
  /\ Find(t, p, "waiting")
  /\ UNCHANGED <<ringVars, flagVars, osVars>>

\* ... until it is set or the timeout is over.
WaitOver(t) ==
  /\ pc[t] = "waiting"
  /\ Goto(t, "reply")
  /\ UNCHANGED <<busy, depth, cur, num, managerVars, ringVars, flagVars, osVars>>

\* kill(): SIGKILL unless the reader has published the exit.
Kill(t, p) ==
  /\ Find(t, p, "reply")
  /\ signalled' = [signalled EXCEPT ![p] = @ \/ ~exited[p]]
  /\ killed' = [killed EXCEPT ![p] = @ \/ ~exited[p]]
  /\ UNCHANGED <<ringVars, exited, fdOpen, reader, child, slaveOpen, pipe>>

\* The snapshot every call but list ends with.
Reply(t) ==
  /\ pc[t] = "reply"
  /\ Snapshot(cur[t])
  /\ Return(t, "idle")
  /\ UNCHANGED <<busy, depth, num, managerVars, flagVars, osVars>>

-----------------------------------------------------------------------------
(* The guard of run(): cleanupAll() on the way out of every run() *)

\* cleanupAll() takes mtx_ and keeps it until the registry is clear.
EndRun(t) ==
  /\ pc[t] = "idle"
  /\ mtx = Nobody
  /\ mtx' = t
  /\ Goto(t, "cleaning")
  /\ UNCHANGED <<busy, depth, cur, num, seq, idOf, ringVars, flagVars, osVars>>

\* Seeded fault: only a process whose terminal has ended is signalled.
CleanSignalSkips(t, p) ==
  /\ pc[t] = "cleaning"
  /\ Registered(p)
  /\ signalled' = [signalled EXCEPT ![p] = @ \/ reader[p] = "reap"]
  /\ cur' = [cur EXCEPT ![t] = p]
  /\ Goto(t, "closing")
  /\ UNCHANGED <<busy, depth, num, managerVars, ringVars, flagVars, child,
                 slaveOpen, pipe>>

\* cleanupAll(): `exited` is read without p->mtx.
CleanSignal(t, p) ==
  /\ pc[t] = "cleaning"
  /\ Registered(p)
  /\ signalled' = [signalled EXCEPT ![p] = @ \/ ~exited[p]]
  /\ cur' = [cur EXCEPT ![t] = p]
  /\ Goto(t, "closing")
  /\ UNCHANGED <<busy, depth, num, managerVars, ringVars, flagVars, child,
                 slaveOpen, pipe>>

\* cleanupAll(): close and masterFd = -1.  No one reads procs_ while mtx_ is
\* held, so the entry may go now as well as with procs_.clear().
CleanClose(t) ==
  /\ pc[t] = "closing"
  /\ fdOpen' = [fdOpen EXCEPT ![cur[t]] = FALSE]
  /\ idOf' = [idOf EXCEPT ![cur[t]] = 0]
  /\ Return(t, "cleaning")
  /\ UNCHANGED <<busy, depth, num, seq, mtx, ringVars, exited, killed, reader,
                 osVars>>

\* The run() returns: to the parent's "task" call, or out of the turn.
CleanDone(t) ==
  /\ pc[t] = "cleaning"
  /\ \A p \in Procs : ~Registered(p)
  /\ mtx' = Nobody
  /\ IF depth[t] > 0
       THEN /\ depth' = [depth EXCEPT ![t] = @ - 1]
            /\ Goto(t, "idle")
            /\ UNCHANGED busy
       ELSE /\ busy' = FALSE
            /\ Goto(t, "off")
            /\ UNCHANGED depth
  /\ UNCHANGED <<cur, num, seq, idOf, ringVars, flagVars, osVars>>

-----------------------------------------------------------------------------
(* The reader thread of p *)

\* Seeded fault: more bytes are taken than the terminal holds.
ReaderReadTooMany(p) ==
  /\ reader[p] = "read"
  /\ fdOpen[p]
  /\ \E n \in 1 .. Chunk :
       /\ pipe[p] > 0
       /\ pipe' = [pipe EXCEPT ![p] = @ - n]
       /\ AppendOutput(p, n)
  /\ UNCHANGED <<turnVars, managerVars, flagVars, child, slaveOpen, signalled>>

\* read() returned n > 0 bytes.
ReaderRead(p) ==
  /\ reader[p] = "read"
  /\ fdOpen[p]
  /\ \E n \in 1 .. Chunk :
       /\ n <= pipe[p]
       /\ pipe' = [pipe EXCEPT ![p] = @ - n]
       /\ AppendOutput(p, n)
  /\ UNCHANGED <<turnVars, managerVars, flagVars, child, slaveOpen, signalled>>

\* Seeded fault: EAGAIN is taken for the end of the output.
ReaderEndOnAgain(p) ==
  /\ reader[p] = "read"
  /\ ~fdOpen[p] \/ pipe[p] = 0
  /\ reader' = [reader EXCEPT ![p] = "reap"]
  /\ UNCHANGED <<turnVars, managerVars, ringVars, exited, killed, fdOpen, osVars>>

\* Seeded fault: EBADF is retried like EAGAIN.
ReaderEndOnHangupOnly(p) ==
  /\ reader[p] = "read"
  /\ pipe[p] = 0 /\ ~slaveOpen[p]
  /\ reader' = [reader EXCEPT ![p] = "reap"]
  /\ UNCHANGED <<turnVars, managerVars, ringVars, exited, killed, fdOpen, osVars>>

\* read() failed: the descriptor is closed (EBADF), or the terminal is
\* drained and nobody has its other end open (EIO).  A drained terminal with
\* an open other end is EAGAIN: sleep and try again, which changes nothing.
ReaderEnd(p) ==
  /\ reader[p] = "read"
  /\ ~fdOpen[p] \/ (pipe[p] = 0 /\ ~slaveOpen[p])
  /\ reader' = [reader EXCEPT ![p] = "reap"]
  /\ UNCHANGED <<turnVars, managerVars, ringVars, exited, killed, fdOpen, osVars>>

\* waitpid(): blocks until the child is dead; the pid is free after it.
ReaderReap(p) ==
  /\ reader[p] = "reap"
  /\ child[p] = "dead"
  /\ child' = [child EXCEPT ![p] = "reaped"]
  /\ reader' = [reader EXCEPT ![p] = "publish"]
  /\ UNCHANGED <<turnVars, managerVars, ringVars, exited, killed, fdOpen,
                 slaveOpen, pipe, signalled>>

\* Seeded fault: the reader forgets to close its descriptor.
ReaderPublishLeaks(p) ==
  /\ reader[p] = "publish"
  /\ exited' = [exited EXCEPT ![p] = TRUE]
  /\ reader' = [reader EXCEPT ![p] = "done"]
  /\ UNCHANGED <<turnVars, managerVars, ringVars, killed, fdOpen, osVars>>

\* Under p->mtx: exited = true, the exit code, close(masterFd).
ReaderPublish(p) ==
  /\ reader[p] = "publish"
  /\ exited' = [exited EXCEPT ![p] = TRUE]
  /\ fdOpen' = [fdOpen EXCEPT ![p] = FALSE]
  /\ reader' = [reader EXCEPT ![p] = "done"]
  /\ UNCHANGED <<turnVars, managerVars, ringVars, killed, osVars>>

-----------------------------------------------------------------------------
(* The operating system *)

\* The child, or a descendant that inherited the terminal, writes.
ChildWrite(p) ==
  /\ slaveOpen[p]
  /\ total[p] + pipe[p] < MaxOutput
  /\ pipe' = [pipe EXCEPT ![p] = @ + 1]
  /\ UNCHANGED <<turnVars, managerVars, ringVars, flagVars, child, slaveOpen,
                 signalled>>

\* The last holder of the terminal closes it; a living child may do so (it
\* turned into a daemon), and a descendant may keep it open after the child.
ChildHangup(p) ==
  /\ slaveOpen[p]
  /\ slaveOpen' = [slaveOpen EXCEPT ![p] = FALSE]
  /\ UNCHANGED <<turnVars, managerVars, ringVars, flagVars, child, pipe,
                 signalled>>

\* The child exits on its own.
ChildExit(p) ==
  /\ child[p] = "running"
  /\ child' = [child EXCEPT ![p] = "dead"]
  /\ UNCHANGED <<turnVars, managerVars, ringVars, flagVars, slaveOpen, pipe,
                 signalled>>

\* The child dies of the SIGKILL it was sent.
ChildKilled(p) == signalled[p] /\ ChildExit(p)

-----------------------------------------------------------------------------
TurnStep(t) ==
  \/ RequestTurn(t) \/ StartSubagent(t)
  \/ StartNumber(t) \/ StartRegister(t)
  \/ SendWrite(t) \/ WaitOver(t) \/ Reply(t)
  \/ EndRun(t) \/ CleanClose(t) \/ CleanDone(t)
  \/ \E p \in Procs : \/ StartFork(t, p) \/ CleanSignal(t, p)
                       \/ Poll(t, p) \/ Send(t, p) \/ Wait(t, p) \/ Kill(t, p)

ReaderStep(p) ==
  ReaderRead(p) \/ ReaderEnd(p) \/ ReaderReap(p) \/ ReaderPublish(p)

ChildStep(p) == ChildWrite(p) \/ ChildHangup(p) \/ ChildExit(p)

Next ==
  \/ \E t \in Turns : TurnStep(t)
  \/ \E p \in Procs : ReaderStep(p) \/ ChildStep(p)

Spec == Init /\ [][Next]_vars

\* Threads of the program that are past their last decision run on: the reader
\* is never blocked for ever by a lock (p->mtx is held for bounded work only),
\* a cleanup that has begun goes through the map, and the kernel delivers
\* SIGKILL.  Nothing is assumed of the model's tool calls or of the child.
Fairness ==
  /\ \A p \in Procs : WF_vars(ReaderStep(p)) /\ WF_vars(ChildKilled(p))
  /\ \A t \in Turns : /\ WF_vars(CleanClose(t) \/ CleanDone(t))
                       /\ WF_vars(\E p \in Procs : CleanSignal(t, p))

FairSpec == Spec /\ Fairness

-----------------------------------------------------------------------------
(* Properties *)

\* The unread index of snapshot() never passes the end of the ring, although
\* the reader erases from the front without touching it: buffer.substr would
\* throw std::out_of_range into the agent's turn.
ConsumedWithinRing ==
  \A p \in Procs : consumed[p] <= size[p] /\ size[p] <= Cap

\* No byte is handed to the agent twice: whatever a snapshot delivers next
\* starts after the last byte already delivered, across any number of ring
\* overflows between the calls.
NothingDeliveredTwice ==
  \A p \in Procs : seen[p] <= Erased(p) + consumed[p]

\* What the tool delivers: no index outside the ring, no byte twice.
DeliveredOnce == ConsumedWithinRing /\ NothingDeliveredTwice

\* "exited" is final: when the reader has published the exit, and the
\* descriptor was not closed under it by a cleanup, every byte the child and
\* its descendants wrote is in the ring's history and no more can come.
ExitAfterLastByte ==
  \A p \in Procs :
    exited[p] /\ Registered(p) => pipe[p] = 0 /\ ~slaveOpen[p]

\* "No background process outlives the turn" (agent_tools_run.cpp): when no
\* turn is running, every child that was ever forked is gone or has SIGKILL
\* pending, whichever tool calls, nested runs and exits came before.
NoProcessOutlivesTurn ==
  (\A t \in Turns : pc[t] = "off") =>
    \A p \in Procs : child[p] = "running" => signalled[p]

\* A registered process has a reader thread that can still reap it, and one
\* that left the registry has no descriptor open behind it: the pseudo-
\* terminals of a long session do not leak.
DescriptorsAccountedFor ==
  \A p \in Procs :
    fdOpen[p] => \/ Registered(p) /\ reader[p] # "done"
                 \/ \E t \in Turns : cur[t] = p /\ pc[t] \in {"forked", "numbered"}

\* Once a cleanup has signalled a child, its reader reaps it and ends, even
\* if a descendant keeps the terminal open: no zombie and no thread is left.
CleanedUpIsReaped ==
  \A p \in Procs :
    (signalled[p] /\ ~Registered(p)) ~> (child[p] = "reaped" /\ reader[p] = "done")

\* agent_tools_proc.cpp:277, "The NEW output since the last tool call": what
\* is in the ring and was never delivered is what the next snapshot delivers.
NewOutputIsDelivered ==
  \A p \in Procs :
    consumed[p] <= IF seen[p] > Erased(p) THEN seen[p] - Erased(p) ELSE 0
=============================================================================
