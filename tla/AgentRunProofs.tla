--------------------------- MODULE AgentRunProofs ---------------------------
(***************************************************************************)
(* Proofs about AgentRun for every set of tools, every policy and any      *)
(* number of iterations, calls, nested runs and kept messages: type        *)
(* correctness, that what was executed had been approved, that an          *)
(* interrupt stops the commands, that each call of each answer has its own *)
(* reply, and that a call repeated DoomLimit times in a row is refused.    *)
(***************************************************************************)
EXTENDS AgentRun, SequenceTheorems, FiniteSetTheorems, WellFoundedInduction, TLAPS

\* Every step is one of the named actions; the case split of the proofs below.
LEMMA NextCases ==
  ASSUME Next
  PROVE  \/ IterationStarts \/ RunStopped \/ IterationsUsedUp
         \/ RequestStopped \/ RequestFails \/ AnswerText
         \/ \E n \in 1 .. MaxCalls : \E calls \in [1 .. n -> Keys] : AnswerCalls(calls)
         \/ \E c \in 1 .. MaxCalls :
              /\ Running("workers") /\ c \in DOMAIN top.results
              /\ WorkerRuns(c) \/ \E v \in Verdicts : WorkerAnswered(c, v)
         \/ WorkersJoined \/ CallsDone \/ CallRefused \/ CallTaken \/ Execute
         \/ \E v \in Verdicts : UserAnswered(v)
         \/ ExecuteTask
         \/ \E how \in {"interrupt", "estop"} : Stop(how)
         \/ Resume \/ Over
BY DEF Next, TurnStep

-----------------------------------------------------------------------------
(* The stack of open runs.                                                 *)

\* The innermost run is a frame of the right shape.
LEMMA TopFrame ==
  ASSUME StackOK, stack # <<>>
  PROVE  /\ Len(stack) \in Nat \ {0}
         /\ top \in Frames /\ FrameOK(top) /\ top.at # "child"
<1>1. Len(stack) \in Nat \ {0}
  BY DEF StackOK
<1>2. top \in Frames
  BY <1>1 DEF StackOK, top
<1> QED
  BY <1>1, <1>2 DEF StackOK, top

\* Replacing the innermost run by a well-formed one that waits for no other
\* keeps the stack well formed.
LEMMA SetTopKeeps ==
  ASSUME StackOK, stack # <<>>, NEW f \in Frames, FrameOK(f), f.at # "child",
         SetTop(f)
  PROVE  StackOK'
<1>1. Len(stack) \in Nat \ {0}
  BY DEF StackOK
<1>2. /\ stack' \in Seq(Frames) /\ Len(stack') = Len(stack)
      /\ \A n \in 1 .. Len(stack) :
            stack'[n] = IF n = Len(stack) THEN f ELSE stack[n]
  BY <1>1 DEF StackOK, SetTop
<1>3. ASSUME NEW n \in 1 .. Len(stack')
      PROVE  FrameOK(stack'[n]) /\ ((stack'[n].at = "child") <=> (n < Len(stack')))
  <2>1. CASE n = Len(stack)
    BY <1>1, <1>2, <2>1
  <2>2. CASE n # Len(stack)
    BY <1>1, <1>2, <2>2 DEF StackOK
  <2> QED
    BY <2>1, <2>2
<1> QED
  BY <1>2, <1>3 DEF StackOK

\* A reply ends the call it belongs to.
LEMMA PushedFrame ==
  ASSUME NEW f \in Frames, FrameOK(f), f.at \in {"calls", "exec", "ask", "child"},
         f.ci <= Len(f.calls), NEW res \in Results
  PROVE  /\ Pushed(f, res) \in Frames
         /\ FrameOK(Pushed(f, res))
         /\ Pushed(f, res).at = "calls"
<1> DEFINE reply == Reply(f.iter, f.ci, f.calls[f.ci], res)
           next == f.ci + 1
           newer == Append(f.history, reply)
           g1 == [f EXCEPT !.at = "calls"]
           g2 == [g1 EXCEPT !.ci = next]
           g3 == [g2 EXCEPT !.history = newer]
<1>1. Pushed(f, res) = g3
  BY DEF Pushed
<1>2. f.calls[f.ci] \in Keys
  BY DEF Frames
<1>3. reply \in Messages
  BY <1>2 DEF Reply, Messages, Frames
<1>8. next \in Nat \ {0} /\ next <= Len(f.calls) + 1
  BY DEF Frames
<1>9. newer \in Seq(Messages)
  BY <1>3 DEF Frames
<1> HIDE DEF reply, next, newer
<1>4. /\ g1 \in Frames /\ g1.at = "calls" /\ g1.ci = f.ci
      /\ g1.history = f.history /\ g1.iter = f.iter /\ g1.limit = f.limit
      /\ g1.calls = f.calls /\ g1.results = f.results
  BY DEF Frames
<1> HIDE DEF g1
<1>5. /\ g2 \in Frames /\ g2.at = "calls" /\ g2.ci = next
      /\ g2.history = f.history /\ g2.iter = f.iter /\ g2.limit = f.limit
      /\ g2.calls = f.calls /\ g2.results = f.results
  BY <1>4, <1>8 DEF Frames
<1> HIDE DEF g2
<1>6. /\ g3 \in Frames /\ g3.at = "calls" /\ g3.ci = next
      /\ g3.iter = f.iter /\ g3.limit = f.limit
      /\ g3.calls = f.calls /\ g3.results = f.results
  BY <1>9, <1>5 DEF Frames
<1> HIDE DEF g3
<1>7. FrameOK(g3)
  BY <1>6, <1>8 DEF Frames, FrameOK
<1> QED
  BY <1>1, <1>6, <1>7

\* The doom-loop check only notes the call.
LEMMA TakenFrame ==
  ASSUME StackOK, Running("calls"), top.ci <= Len(top.calls)
  PROVE  /\ Taken(top) \in Frames /\ FrameOK(Taken(top))
         /\ Taken(top).at = "calls" /\ Taken(top).ci = top.ci
         /\ Taken(top).calls = top.calls /\ Taken(top).results = top.results
         /\ Repeats \in 0 .. DoomLimit
<1> DEFINE g1 == [top EXCEPT !.repeat = Repeats]
           g2 == [g1 EXCEPT !.lastTool = Call]
<1>1. top \in Frames /\ FrameOK(top) /\ top.at = "calls"
  BY TopFrame DEF Running
<1>2. Call \in Keys
  BY <1>1 DEF Call, Frames
<1>3. Repeats \in 0 .. DoomLimit
  BY <1>1, AgentAssumption DEF Repeats, Frames
<1>4. Taken(top) = g2
  BY DEF Taken
<1>5. /\ g1 \in Frames /\ g1.at = "calls" /\ g1.ci = top.ci
      /\ g1.iter = top.iter /\ g1.limit = top.limit
      /\ g1.calls = top.calls /\ g1.results = top.results
  BY <1>1, <1>3 DEF Frames
<1> HIDE DEF g1
<1>6. /\ g2 \in Frames /\ g2.at = "calls" /\ g2.ci = top.ci
      /\ g2.iter = top.iter /\ g2.limit = top.limit
      /\ g2.calls = top.calls /\ g2.results = top.results
  BY <1>2, <1>5 DEF Frames
<1> HIDE DEF g2
<1>7. FrameOK(g2)
  BY <1>1, <1>6 DEF Frames, FrameOK
<1> QED
  BY <1>3, <1>4, <1>6, <1>7

\* A run that returns leaves its caller, if there is one, with a reply.
LEMMA ReturnKeeps ==
  ASSUME StackOK, stack # <<>>, NEW how, Return(how),
         how \in {"ok", "error", "interrupted"},
         outcome \in {"running", "ok", "error", "interrupted"}
  PROVE  /\ StackOK'
         /\ outcome' \in {"running", "ok", "error", "interrupted"}
<1>1. Len(stack) \in Nat \ {0}
  BY DEF StackOK
<1>2. CASE Len(stack) = 1
  <2>1. stack' = <<>>
    BY <1>2 DEF Return
  <2> QED
    BY <1>2, <2>1 DEF Return, StackOK
<1>3. CASE Len(stack) # 1
  <2> DEFINE last == Len(stack) - 1
             res == IF how = "ok" THEN "done" ELSE "error"
             parent == stack[last]
             front == Front(stack)
  <2>1. last \in 1 .. Len(stack) /\ last < Len(stack) /\ last \in Nat \ {0}
    BY <1>1, <1>3
  <2>2. parent \in Frames /\ FrameOK(parent) /\ parent.at = "child"
    BY <2>1 DEF StackOK
  <2>3. parent.ci <= Len(parent.calls)
    BY <2>2 DEF FrameOK
  <2>4. /\ Pushed(parent, res) \in Frames /\ FrameOK(Pushed(parent, res))
        /\ Pushed(parent, res).at = "calls"
    <3>1. res \in Results
      BY DEF Results
    <3> QED
      BY <2>2, <2>3, <3>1, PushedFrame
  <2>5. /\ front \in Seq(Frames) /\ Len(front) = last
        /\ \A n \in 1 .. last : front[n] = stack[n]
    BY <1>1, <2>1 DEF StackOK, Front
  <2>7. stack' = [front EXCEPT ![last] = Pushed(parent, res)]
    BY <1>3, Zenon DEF Return
  <2> HIDE DEF front, parent, res
  <2>8. /\ stack' \in Seq(Frames) /\ Len(stack') = last
        /\ \A n \in 1 .. last :
              stack'[n] = IF n = last THEN Pushed(parent, res) ELSE stack[n]
    BY <2>1, <2>4, <2>5, <2>7
  <2>9. ASSUME NEW n \in 1 .. Len(stack')
        PROVE  FrameOK(stack'[n]) /\ ((stack'[n].at = "child") <=> (n < Len(stack')))
    <3>1. CASE n = last
      BY <2>1, <2>4, <2>8, <3>1
    <3>2. CASE n # last
      BY <1>1, <2>1, <2>8, <3>2 DEF StackOK
    <3> QED
      BY <3>1, <3>2
  <2>10. outcome' = outcome
    BY <1>3 DEF Return
  <2> QED
    BY <2>8, <2>9, <2>10 DEF StackOK
<1> QED
  BY <1>2, <1>3

\* The result of one read leaves the others and the place in the loop alone.
LEMMA ResultFrame ==
  ASSUME StackOK, Running("workers"), NEW c \in DOMAIN top.results,
         top.results[c] # "none",
         NEW res \in Results \union Unfinished, res # "none", SetResult(c, res)
  PROVE  StackOK'
<1> DEFINE newer == [top.results EXCEPT ![c] = res]
           f == [top EXCEPT !.results = newer]
<1>1. top \in Frames /\ FrameOK(top) /\ top.at = "workers" /\ stack # <<>>
  BY TopFrame DEF Running
<1>2. /\ newer \in Seq(Results \union Unfinished) /\ Len(newer) = Len(top.results)
      /\ \A d \in 1 .. Len(top.results) :
            newer[d] = IF d = c THEN res ELSE top.results[d]
  BY <1>1 DEF Frames
<1>3. SetTop(f)
  BY DEF SetResult
<1> HIDE DEF newer
<1>4. /\ f \in Frames /\ f.at = "workers" /\ f.ci = top.ci
      /\ f.iter = top.iter /\ f.limit = top.limit
      /\ f.calls = top.calls /\ f.results = newer
  BY <1>1, <1>2 DEF Frames
<1> HIDE DEF f
<1>5. FrameOK(f)
  BY <1>1, <1>2, <1>4 DEF Frames, FrameOK
<1> QED
  BY <1>1, <1>3, <1>4, <1>5, SetTopKeeps

\* Moving on in the loop, with nothing else changed.
LEMMA MoveFrame ==
  ASSUME NEW f \in Frames, FrameOK(f),
         NEW where \in {"top", "request", "calls", "exec", "ask", "child"},
         where \in {"exec", "ask", "child"} => f.ci <= Len(f.calls),
         \A c \in 1 .. Len(f.calls) : f.results[c] \notin {"running", "asking"}
  PROVE  /\ [f EXCEPT !.at = where] \in Frames
         /\ FrameOK([f EXCEPT !.at = where])
         /\ [f EXCEPT !.at = where].at = where
<1> DEFINE g == [f EXCEPT !.at = where]
<1>1. /\ g \in Frames /\ g.at = where /\ g.ci = f.ci
      /\ g.iter = f.iter /\ g.limit = f.limit
      /\ g.calls = f.calls /\ g.results = f.results
  BY DEF Frames
<1> HIDE DEF g
<1>2. FrameOK(g)
  BY <1>1 DEF Frames, FrameOK
<1> QED
  BY <1>1, <1>2 DEF g

\* Outside the threads of the reads, no result is unfinished.
LEMMA Finished ==
  ASSUME NEW f \in Frames, FrameOK(f), f.at # "workers"
  PROVE  /\ \A c \in 1 .. Len(f.calls) : f.results[c] \notin {"running", "asking"}
         /\ \A c \in 1 .. Len(f.calls) : f.calls[c] \in ReadOnly => f.results[c] \in Results
BY DEF Frames, FrameOK, Unfinished

LEMMA IterationKeeps == ASSUME StackOK, IterationStarts PROVE StackOK'
<1> DEFINE next == top.iter + 1
           g1 == [top EXCEPT !.at = "request"]
           g2 == [g1 EXCEPT !.iter = next]
<1>1. top \in Frames /\ FrameOK(top) /\ top.at = "top" /\ stack # <<>>
  BY TopFrame DEF IterationStarts, Running
<1>2. next \in Nat /\ next <= top.limit
  BY <1>1 DEF IterationStarts, Frames
<1>3. SetTop(g2)
  BY DEF IterationStarts
<1>4. /\ g1 \in Frames /\ FrameOK(g1) /\ g1.at = "request" /\ g1.limit = top.limit
  <2>1. /\ \A c \in 1 .. Len(top.calls) : top.results[c] \notin {"running", "asking"}
    BY <1>1, Finished
  <2> QED
    BY <1>1, <2>1, MoveFrame DEF Frames
<1> HIDE DEF next, g1
<1>5. /\ g2 \in Frames /\ g2.at = "request" /\ g2.ci = g1.ci
      /\ g2.iter = next /\ g2.limit = g1.limit
      /\ g2.calls = g1.calls /\ g2.results = g1.results
  BY <1>2, <1>4 DEF Frames
<1> HIDE DEF g2
<1>6. FrameOK(g2)
  BY <1>2, <1>4, <1>5 DEF Frames, FrameOK
<1> QED
  BY <1>1, <1>3, <1>5, <1>6, SetTopKeeps

\* A compacted history consists of messages of the old one.
LEMMA CompactedType ==
  ASSUME NEW h \in Seq(Messages)
  PROVE  Compacted(h) \in Seq(Messages)
BY AgentAssumption DEF Compacted, Newest

LEMMA AnswerKeeps ==
  ASSUME StackOK, NEW n \in 1 .. MaxCalls, NEW calls \in [1 .. n -> Keys],
         AnswerCalls(calls)
  PROVE  StackOK'
<1> DEFINE h == Append(top.history, Answer(top.iter, calls))
           results == [c \in 1 .. Len(calls) |->
                        IF calls[c] \in ReadOnly THEN "running" ELSE "none"]
           one == 1
<1>1. top \in Frames /\ FrameOK(top) /\ top.at = "request" /\ stack # <<>>
  BY TopFrame DEF AnswerCalls, Running
<1>2. calls \in Seq(Keys) /\ n \in Nat /\ Len(calls) = n
  BY AgentAssumption
<1>3. h \in Seq(Messages)
  <2>1. Answer(top.iter, calls) \in Messages
    BY <1>1, <1>2 DEF Answer, Messages, Frames
  <2> QED
    BY <1>1, <2>1 DEF Frames
<1>4. PICK newer \in {h, Compacted(h)} :
        SetTop([top EXCEPT !.at = "workers", !.history = newer, !.calls = calls,
                           !.ci = 1, !.results = results])
  BY DEF AnswerCalls
<1>5. newer \in Seq(Messages)
  BY <1>3, <1>4, CompactedType
<1>6. /\ results \in Seq(Results \union Unfinished) /\ Len(results) = Len(calls)
      /\ \A c \in 1 .. Len(calls) :
            results[c] = IF calls[c] \in ReadOnly THEN "running" ELSE "none"
  BY <1>2 DEF Unfinished
<1> DEFINE g1 == [top EXCEPT !.at = "workers"]
           g2 == [g1 EXCEPT !.history = newer]
           g3 == [g2 EXCEPT !.calls = calls]
           g4 == [g3 EXCEPT !.ci = one]
           g5 == [g4 EXCEPT !.results = results]
<1>7. SetTop(g5)
  BY <1>4
<1>14. one \in Nat \ {0}
  OBVIOUS
<1>15. one = 1
  OBVIOUS
<1> HIDE DEF results, h, one
<1>8. g1 \in Frames /\ g1.at = "workers" /\ g1.iter = top.iter /\ g1.limit = top.limit
  BY <1>1 DEF Frames
<1> HIDE DEF g1
<1>9. g2 \in Frames /\ g2.at = "workers" /\ g2.iter = top.iter /\ g2.limit = top.limit
  BY <1>5, <1>8 DEF Frames
<1> HIDE DEF g2
<1>10. /\ g3 \in Frames /\ g3.at = "workers" /\ g3.iter = top.iter
       /\ g3.limit = top.limit /\ g3.calls = calls
  BY <1>2, <1>9 DEF Frames
<1> HIDE DEF g3
<1>11. /\ g4 \in Frames /\ g4.at = "workers" /\ g4.iter = top.iter
       /\ g4.limit = top.limit /\ g4.calls = calls /\ g4.ci = one
  BY <1>10, <1>14 DEF Frames
<1> HIDE DEF g4
<1>12. /\ g5 \in Frames /\ g5.at = "workers" /\ g5.iter = top.iter
       /\ g5.limit = top.limit /\ g5.calls = calls /\ g5.ci = one
       /\ g5.results = results
  BY <1>6, <1>11 DEF Frames
<1> HIDE DEF g5
<1>13. FrameOK(g5)
  BY <1>1, <1>2, <1>6, <1>12, <1>15 DEF Frames, FrameOK
<1> QED
  BY <1>1, <1>7, <1>12, <1>13, SetTopKeeps

LEMMA JoinedKeeps == ASSUME StackOK, WorkersJoined \/ CallsDone PROVE StackOK'
<1>1. top \in Frames /\ FrameOK(top) /\ stack # <<>>
  BY TopFrame DEF WorkersJoined, CallsDone, Running
<1>2. CASE WorkersJoined
  <2>1. \A c \in 1 .. Len(top.calls) : top.results[c] \notin {"running", "asking"}
    BY <1>1, <1>2 DEF WorkersJoined, FrameOK, Frames
  <2>2. SetTop([top EXCEPT !.at = "calls"])
    BY <1>2 DEF WorkersJoined
  <2> QED
    BY <1>1, <2>1, <2>2, MoveFrame, SetTopKeeps
<1>3. CASE CallsDone
  <2>1. top.at = "calls" /\ SetTop([top EXCEPT !.at = "top"])
    BY <1>3 DEF CallsDone, Running
  <2>2. \A c \in 1 .. Len(top.calls) : top.results[c] \notin {"running", "asking"}
    BY <1>1, <2>1, Finished
  <2> QED
    BY <1>1, <2>1, <2>2, MoveFrame, SetTopKeeps
<1> QED
  BY <1>2, <1>3

LEMMA RefusedKeeps == ASSUME StackOK, CallRefused PROVE StackOK'
<1> DEFINE f == [top EXCEPT !.repeat = Repeats]
<1>1. top \in Frames /\ FrameOK(top) /\ top.at = "calls" /\ stack # <<>>
  BY TopFrame DEF CallRefused, Running
<1>2. Repeats \in 0 .. DoomLimit
  BY <1>1, TakenFrame DEF CallRefused
<1>3. /\ f \in Frames /\ f.at = "calls" /\ f.ci = top.ci
      /\ f.iter = top.iter /\ f.limit = top.limit
      /\ f.calls = top.calls /\ f.results = top.results
  BY <1>1, <1>2 DEF Frames
<1>4. top.ci <= Len(top.calls) /\ SetTop(Pushed(f, "refused"))
  BY DEF CallRefused
<1>5. "refused" \in Results
  BY DEF Results
<1> HIDE DEF f
<1>6. FrameOK(f)
  BY <1>1, <1>3 DEF Frames, FrameOK
<1> QED
  BY <1>1, <1>3, <1>4, <1>5, <1>6, PushedFrame, SetTopKeeps

LEMMA TakenKeeps == ASSUME StackOK, CallTaken PROVE StackOK'
<1> DEFINE f == Taken(top)
           res == top.results[top.ci]
<1>1. top \in Frames /\ FrameOK(top) /\ top.at = "calls" /\ stack # <<>>
  BY TopFrame DEF CallTaken, Running
<1>2. Running("calls") /\ top.ci <= Len(top.calls)
  BY DEF CallTaken
<1>3. /\ f \in Frames /\ FrameOK(f) /\ f.at = "calls" /\ f.ci = top.ci
      /\ f.calls = top.calls /\ f.results = top.results
  BY <1>2, TakenFrame
<1>4. SetTop(IF Call \in ReadOnly THEN Pushed(f, res) ELSE [f EXCEPT !.at = "exec"])
  BY DEF CallTaken
<1> HIDE DEF f
<1>5. CASE Call \in ReadOnly
  <2>1. top.ci \in 1 .. Len(top.calls)
    BY <1>1, <1>2 DEF Frames
  <2>2. res \in Results
    BY <1>1, <1>5, <2>1, Finished DEF Call
  <2> QED
    BY <1>1, <1>2, <1>3, <1>4, <1>5, <2>2, PushedFrame, SetTopKeeps
<1>6. CASE Call \notin ReadOnly
  <2>1. \A c \in 1 .. Len(f.calls) : f.results[c] \notin {"running", "asking"}
    BY <1>3, Finished
  <2>2. /\ [f EXCEPT !.at = "exec"] \in Frames
        /\ FrameOK([f EXCEPT !.at = "exec"])
        /\ [f EXCEPT !.at = "exec"].at = "exec"
    BY <1>2, <1>3, <2>1, MoveFrame
  <2> QED
    BY <1>1, <1>4, <1>6, <2>2, SetTopKeeps
<1> QED
  BY <1>5, <1>6

\* A call that is executed, asked about or answered.
LEMMA EndCall ==
  ASSUME StackOK, stack # <<>>, top.at \in {"exec", "ask"}, NEW res \in Results,
         SetTop(Pushed(top, res))
  PROVE  StackOK'
<1>1. top \in Frames /\ FrameOK(top) /\ top.ci <= Len(top.calls)
  BY TopFrame DEF FrameOK
<1> QED
  BY <1>1, PushedFrame, SetTopKeeps

LEMMA AskKeeps ==
  ASSUME StackOK, Running("exec"), SetTop([top EXCEPT !.at = "ask"])
  PROVE  StackOK'
<1>1. top \in Frames /\ FrameOK(top) /\ top.at = "exec" /\ stack # <<>>
  BY TopFrame DEF Running
<1>2. top.ci <= Len(top.calls)
  BY <1>1 DEF FrameOK
<1>3. \A c \in 1 .. Len(top.calls) : top.results[c] \notin {"running", "asking"}
  BY <1>1, Finished
<1> QED
  BY <1>1, <1>2, <1>3, MoveFrame, SetTopKeeps

LEMMA ExecuteKeeps == ASSUME StackOK, Execute PROVE StackOK'
<1>1. Running("exec") /\ stack # <<>> /\ top.at = "exec"
  BY DEF Execute, Running
<1>2. {"interrupted", "done", "denied"} \subseteq Results
  BY DEF Results
<1>3. CASE SetTop([top EXCEPT !.at = "ask"])
  BY <1>1, <1>3, AskKeeps
<1>4. CASE \E res \in {"interrupted", "done", "denied"} : SetTop(Pushed(top, res))
  BY <1>1, <1>2, <1>4, EndCall
<1> QED
  BY <1>3, <1>4 DEF Execute

LEMMA UserKeeps ==
  ASSUME StackOK, NEW v \in Verdicts, UserAnswered(v)
  PROVE  StackOK'
<1> DEFINE res == IF v = "decline" THEN "declined" ELSE "done"
<1>1. stack # <<>> /\ top.at = "ask" /\ SetTop(Pushed(top, res))
  BY DEF UserAnswered, Running
<1>2. res \in Results
  BY DEF Results
<1> QED
  BY <1>1, <1>2, EndCall

LEMMA TaskKeeps == ASSUME StackOK, ExecuteTask PROVE StackOK'
<1> DEFINE g == [top EXCEPT !.at = "child"]
           n == Len(stack)
           sub == SubLimit(top.limit)
<1>1. top \in Frames /\ FrameOK(top) /\ top.at = "exec" /\ stack # <<>>
  BY TopFrame DEF ExecuteTask, Running
<1>2. CASE SetTop(Pushed(top, "error"))
  <2>1. "error" \in Results
    BY DEF Results
  <2> QED
    BY <1>1, <1>2, <2>1, EndCall
<1>3. CASE stack' = Append([stack EXCEPT ![Len(stack)].at = "child"], Frame(sub))
  <2>1. n \in Nat \ {0}
    BY <1>1, TopFrame
  <2>2. g \in Frames /\ FrameOK(g) /\ g.at = "child"
    <3>1. top.ci <= Len(top.calls)
      BY <1>1 DEF FrameOK
    <3> QED
      BY <1>1, <3>1, Finished, MoveFrame
  <2>3. Frame(sub) \in Frames /\ FrameOK(Frame(sub)) /\ Frame(sub).at = "top"
    <3>1. sub \in Nat \ {0}
      BY <1>1, AgentAssumption DEF SubLimit, Frames
    <3>2. Prompt \in Messages
      BY DEF Messages
    <3> HIDE DEF sub
    <3>3. /\ <<Prompt>> \in Seq(Messages)
          /\ <<>> \in Seq(Keys) /\ <<>> \in Seq(Results \union Unfinished)
      BY <3>2
    <3>4. Frame(sub) \in Frames
      BY <3>1, <3>3, AgentAssumption DEF Frame, Frames
    <3>5. FrameOK(Frame(sub))
      BY <3>1 DEF Frame, FrameOK
    <3> QED
      BY <3>4, <3>5 DEF Frame
  <2>4. stack' = Append([stack EXCEPT ![n] = g], Frame(sub))
    BY <1>3 DEF top
  <2> HIDE DEF g, sub
  <2>5. /\ stack' \in Seq(Frames) /\ Len(stack') = n + 1
        /\ \A i \in 1 .. n + 1 :
              stack'[i] = IF i = n + 1 THEN Frame(sub) ELSE
                          IF i = n THEN g ELSE stack[i]
    BY <2>1, <2>2, <2>3, <2>4 DEF StackOK
  <2>6. ASSUME NEW i \in 1 .. Len(stack')
        PROVE  FrameOK(stack'[i]) /\ ((stack'[i].at = "child") <=> (i < Len(stack')))
    <3>1. CASE i = n + 1
      BY <2>1, <2>3, <2>5, <3>1
    <3>2. CASE i = n
      BY <2>1, <2>2, <2>5, <3>2
    <3>3. CASE i < n
      BY <2>1, <2>5, <3>3 DEF StackOK
    <3> QED
      BY <2>1, <2>5, <3>1, <3>2, <3>3
  <2> QED
    BY <2>5, <2>6 DEF StackOK
<1> QED
  BY <1>2, <1>3 DEF ExecuteTask

LEMMA WorkerKeeps ==
  ASSUME StackOK, Running("workers"), NEW c \in DOMAIN top.results,
         WorkerRuns(c) \/ \E v \in Verdicts : WorkerAnswered(c, v)
  PROVE  StackOK'
<1>1. /\ \E res \in {"asking", "done", "denied", "declined"} : SetResult(c, res)
      /\ top.results[c] # "none"
  BY DEF WorkerRuns, WorkerAnswered
<1>2. /\ {"asking", "done", "denied", "declined"} \subseteq Results \union Unfinished
      /\ "none" \notin {"asking", "done", "denied", "declined"}
  BY DEF Results, Unfinished
<1> QED
  BY <1>1, <1>2, ResultFrame

\* Every step keeps the open runs well formed.
LEMMA StackInvariant == ASSUME StackOK, [Next]_vars,
    outcome \in {"running", "ok", "error", "interrupted"}
  PROVE  StackOK' /\ outcome' \in {"running", "ok", "error", "interrupted"}
<1>1. CASE UNCHANGED vars
  BY <1>1 DEF vars, StackOK
<1>2. CASE IterationStarts
  BY <1>2, IterationKeeps DEF IterationStarts, control
<1>3. CASE RunStopped \/ RequestStopped
  BY <1>3, ReturnKeeps DEF RunStopped, RequestStopped, Running
<1>4. CASE IterationsUsedUp \/ RequestFails
  BY <1>4, ReturnKeeps DEF IterationsUsedUp, RequestFails, Running
<1>5. CASE AnswerText
  BY <1>5, ReturnKeeps DEF AnswerText, Running
<1>6. CASE \E n \in 1 .. MaxCalls : \E calls \in [1 .. n -> Keys] : AnswerCalls(calls)
  BY <1>6, AnswerKeeps DEF AnswerCalls
<1>7. CASE \E c \in 1 .. MaxCalls :
             /\ Running("workers") /\ c \in DOMAIN top.results
             /\ WorkerRuns(c) \/ \E v \in Verdicts : WorkerAnswered(c, v)
  BY <1>7, WorkerKeeps DEF WorkerRuns, WorkerAnswered, control
<1>8. CASE WorkersJoined \/ CallsDone
  BY <1>8, JoinedKeeps DEF WorkersJoined, CallsDone, control
<1>9. CASE CallRefused
  BY <1>9, RefusedKeeps DEF CallRefused, control
<1>10. CASE CallTaken
  BY <1>10, TakenKeeps DEF CallTaken, control
<1>11. CASE Execute
  BY <1>11, ExecuteKeeps DEF Execute, control
<1>12. CASE \E v \in Verdicts : UserAnswered(v)
  BY <1>12, UserKeeps DEF UserAnswered, control
<1>13. CASE ExecuteTask
  BY <1>13, TaskKeeps DEF ExecuteTask, control
<1>14. CASE (\E how \in {"interrupt", "estop"} : Stop(how)) \/ Resume
  BY <1>14 DEF Stop, Resume, StackOK
<1>15. CASE Over
  BY <1>1, <1>15 DEF Over
<1> QED
  BY <1>1, <1>2, <1>3, <1>4, <1>5, <1>6, <1>7, <1>8, <1>9, <1>10, <1>11,
     <1>12, <1>13, <1>14, <1>15, NextCases

-----------------------------------------------------------------------------
(* What was executed, and what the user had said of it.                    *)

\* What a step may do to the approvals and the executed calls: nothing, execute
\* one call the policy or an approval allows, or note an answer and execute
\* what it was given for.
Quiet == UNCHANGED <<consent, runs>>
Allowed(k) ==
    /\ MayRun(k) /\ UNCHANGED consent
    /\ runs' = [runs EXCEPT ![k] = @ + 1]
AskedAndSaid(k, v) ==
    /\ UserSays(k, v)
    /\ runs' = IF v = "decline" THEN runs ELSE [runs EXCEPT ![k] = @ + 1]

LEMMA CallIsKey ==
  ASSUME StackOK, stack # <<>>, top.at \in {"exec", "ask"}
  PROVE  Call \in Keys
<1>1. top \in Frames /\ FrameOK(top)
  BY TopFrame
<1>2. top.ci \in 1 .. Len(top.calls)
  BY <1>1 DEF FrameOK, Frames
<1> QED
  BY <1>1, <1>2 DEF Call, Frames

LEMMA ConsentCases ==
  ASSUME StackOK, [Next]_vars
  PROVE  Quiet \/ \E k \in Keys : Allowed(k) \/ \E v \in Verdicts : AskedAndSaid(k, v)
<1>1. CASE UNCHANGED vars
  BY <1>1 DEF vars, Quiet, consent
<1>2. CASE IterationStarts \/ RunStopped \/ IterationsUsedUp \/ RequestStopped
           \/ RequestFails \/ AnswerText \/ WorkersJoined \/ CallsDone
           \/ CallRefused \/ CallTaken \/ ExecuteTask \/ Resume \/ Over
           \/ \E how \in {"interrupt", "estop"} : Stop(how)
  BY <1>2 DEF IterationStarts, RunStopped, IterationsUsedUp, RequestStopped,
              RequestFails, AnswerText, WorkersJoined, CallsDone, CallRefused,
              CallTaken, ExecuteTask, Resume, Over, Stop, Quiet, consent, vars
<1>3. CASE \E n \in 1 .. MaxCalls : \E calls \in [1 .. n -> Keys] : AnswerCalls(calls)
  BY <1>3 DEF AnswerCalls, Quiet, consent
<1>4. ASSUME NEW c \in 1 .. MaxCalls, Running("workers"), c \in DOMAIN top.results,
             WorkerRuns(c) \/ \E v \in Verdicts : WorkerAnswered(c, v)
      PROVE  Quiet \/ \E k \in Keys : Allowed(k) \/ \E v \in Verdicts : AskedAndSaid(k, v)
  <2> DEFINE k == top.calls[c]
  <2>1. k \in Keys
    BY <1>4, TopFrame DEF Running, Frames, FrameOK
  <2>2. CASE WorkerRuns(c)
    <3>1. /\ UNCHANGED consent
          /\ Executed(k, IF MustAsk(k) THEN "asking" ELSE
                         IF MayRun(k) THEN "done" ELSE "denied")
      BY <2>2 DEF WorkerRuns
    <3>2. Quiet \/ Allowed(k)
      BY <3>1 DEF Executed, Quiet, Allowed, consent
    <3> QED
      BY <2>1, <3>2
  <2>3. ASSUME NEW v \in Verdicts, WorkerAnswered(c, v)
        PROVE  AskedAndSaid(k, v)
    BY <2>3 DEF WorkerAnswered, AskedAndSaid, Executed
  <2> QED
    BY <1>4, <2>1, <2>2, <2>3
<1>5. CASE Execute
  <2>1. Call \in Keys
    BY <1>5, CallIsKey DEF Execute, Running
  <2>2. Quiet \/ Allowed(Call)
    BY <1>5 DEF Execute, Executed, Quiet, Allowed, consent
  <2> QED
    BY <2>1, <2>2
<1>6. ASSUME NEW v \in Verdicts, UserAnswered(v)
      PROVE  Call \in Keys /\ AskedAndSaid(Call, v)
  <2>1. Call \in Keys
    BY <1>6, CallIsKey DEF UserAnswered, Running
  <2> QED
    BY <1>6, <2>1 DEF UserAnswered, AskedAndSaid, Executed
<1> QED
  BY <1>1, <1>2, <1>3, <1>4, <1>5, <1>6, NextCases

\* The types of the approvals and of the counts.
ConsentType ==
    /\ sessionApproved \subseteq Keys /\ runAllow \subseteq Keys
    /\ said \in [Keys -> [Verdicts -> Nat]]
    /\ runs \in [Keys -> Nat]

\* One answer more, and no other count changes.
LEMMA SaidMore ==
  ASSUME ConsentType, NEW k \in Keys, NEW v \in Verdicts, UserSays(k, v)
  PROVE  /\ said' \in [Keys -> [Verdicts -> Nat]]
         /\ \A j \in Keys : \A w \in Verdicts :
              said'[j][w] = IF j = k /\ w = v THEN said[j][w] + 1 ELSE said[j][w]
<1> DEFINE row == [said[k] EXCEPT ![v] = @ + 1]
<1>1. said' = [said EXCEPT ![k] = row]
  BY DEF UserSays
<1>2. /\ row \in [Verdicts -> Nat]
      /\ \A w \in Verdicts : row[w] = IF w = v THEN said[k][w] + 1 ELSE said[k][w]
  BY DEF ConsentType
<1> HIDE DEF row
<1> QED
  BY <1>1, <1>2 DEF ConsentType

LEMMA ConsentTypeKept ==
  ASSUME StackOK, ConsentType, [Next]_vars
  PROVE  ConsentType'
<1>1. CASE Quiet
  BY <1>1 DEF Quiet, consent, ConsentType
<1>2. ASSUME NEW k \in Keys, Allowed(k) PROVE ConsentType'
  BY <1>2 DEF Allowed, consent, ConsentType
<1>3. ASSUME NEW k \in Keys, NEW v \in Verdicts, AskedAndSaid(k, v)
      PROVE  ConsentType'
  <2>1. said' \in [Keys -> [Verdicts -> Nat]]
    BY <1>3, SaidMore DEF AskedAndSaid
  <2>2. sessionApproved' \subseteq Keys /\ runAllow' \subseteq Keys
    BY <1>3 DEF AskedAndSaid, UserSays, ConsentType
  <2>3. runs' \in [Keys -> Nat]
    BY <1>3 DEF AskedAndSaid, ConsentType
  <2> QED
    BY <2>1, <2>2, <2>3 DEF ConsentType
<1> QED
  BY <1>1, <1>2, <1>3, ConsentCases

\* Whatever the interleaving of threads, questions and nested runs, every
\* variable keeps its type and every open run the shape the loop relies on.
THEOREM TypeCorrect == Spec => []TypeOK
<1>1. Init => TypeOK
  <2>1. ASSUME Init PROVE StackOK
    <3>1. Prompt \in Messages
      BY DEF Messages
    <3>2. /\ <<Prompt>> \in Seq(Messages)
          /\ <<>> \in Seq(Keys) /\ <<>> \in Seq(Results \union Unfinished)
      BY <3>1
    <3>3. Frame(MaxIterations) \in Frames
      BY <3>2, AgentAssumption DEF Frame, Frames
    <3>4. FrameOK(Frame(MaxIterations)) /\ Frame(MaxIterations).at # "child"
      BY AgentAssumption DEF Frame, FrameOK
    <3>5. stack = <<Frame(MaxIterations)>>
      BY <2>1 DEF Init
    <3> QED
      BY <3>3, <3>4, <3>5 DEF StackOK
  <2> QED
    BY <2>1, AgentAssumption DEF Init, TypeOK
<1>2. TypeOK /\ [Next]_vars => TypeOK'
  <2> SUFFICES ASSUME TypeOK, [Next]_vars PROVE TypeOK'
    OBVIOUS
  <2>1. StackOK' /\ outcome' \in {"running", "ok", "error", "interrupted"}
    BY StackInvariant DEF TypeOK
  <2>2. ConsentType'
    BY ConsentTypeKept DEF TypeOK, ConsentType
  <2>3. stop' \in {"no", "interrupt", "estop"} /\ answers' \in 0 .. MaxAnswers
    <3>1. CASE UNCHANGED <<stop, answers>>
      BY <3>1 DEF TypeOK
    <3>2. CASE (\E how \in {"interrupt", "estop"} : Stop(how)) \/ Resume
      BY <3>2 DEF Stop, Resume, TypeOK
    <3>3. CASE \E n \in 1 .. MaxCalls : \E calls \in [1 .. n -> Keys] : AnswerCalls(calls)
      BY <3>3, AgentAssumption DEF AnswerCalls, TypeOK
    <3> QED
      BY <3>1, <3>2, <3>3, NextCases
      DEF IterationStarts, RunStopped, IterationsUsedUp, RequestStopped,
          RequestFails, AnswerText, WorkersJoined, CallsDone, CallRefused,
          CallTaken, Execute, ExecuteTask, UserAnswered, WorkerRuns,
          WorkerAnswered, Over, control, vars
  <2> QED
    BY <2>1, <2>2, <2>3 DEF TypeOK, ConsentType
<1> QED
  BY <1>1, <1>2, PTL DEF Spec

\* An approval that is kept was given.
ApprovalInv ==
    /\ \A k \in sessionApproved : said[k]["session"] > 0
    /\ \A p \in runAllow : said[p]["always"] > 0

\* No call the policy wants a question for is executed without the user's yes,
\* given for it, for the session or for ever, in any of the open runs or by any
\* of the threads that ask at the same time.
THEOREM RunsApproved == Spec => []RunsWereApproved
<1> DEFINE Inv == ApprovalInv /\ RunsWereApproved
<1>1. Init => Inv
  BY DEF Init, ApprovalInv, RunsWereApproved, Verdicts
<1>2. TypeOK /\ Inv /\ [Next]_vars => Inv'
  <2> SUFFICES ASSUME TypeOK, Inv, [Next]_vars PROVE Inv'
    OBVIOUS
  <2>1. StackOK /\ ConsentType
    BY DEF TypeOK, ConsentType
  <2>2. CASE Quiet
    BY <2>2 DEF Quiet, consent, ApprovalInv, RunsWereApproved
  <2>3. ASSUME NEW k \in Keys, Allowed(k) PROVE Inv'
    <3>1. ApprovalInv'
      BY <2>3 DEF Allowed, consent, ApprovalInv
    <3>2. CASE Verdict[k] = "allow"
      BY <2>1, <2>3, <3>1, <3>2 DEF Allowed, consent, ConsentType, RunsWereApproved
    <3>3. CASE Approved(k)
      <4>1. \/ said[k]["session"] > 0
            \/ \E p \in Keys : said[p]["always"] > 0 /\ k \in Covers[p]
        BY <2>1, <3>3 DEF Approved, ApprovalInv, ConsentType
      <4> QED
        BY <2>1, <2>3, <3>1, <4>1 DEF Allowed, consent, ConsentType, RunsWereApproved
    <3> QED
      BY <2>3, <3>1, <3>2, <3>3 DEF Allowed, MayRun
  <2>4. ASSUME NEW k \in Keys, NEW v \in Verdicts, AskedAndSaid(k, v) PROVE Inv'
    <3>1. \A j \in Keys : \A w \in Verdicts :
            /\ said[j][w] \in Nat
            /\ said'[j][w] = IF j = k /\ w = v THEN said[j][w] + 1 ELSE said[j][w]
      BY <2>1, <2>4, SaidMore DEF AskedAndSaid, ConsentType
    <3>2. /\ {"once", "session", "always"} \subseteq Verdicts
          /\ v \in {"decline", "once", "session", "always"}
      BY DEF Verdicts
    <3>3. ApprovalInv'
      BY <2>1, <2>4, <3>1, <3>2
      DEF AskedAndSaid, UserSays, ConsentType, ApprovalInv
    <3>4. ASSUME NEW j \in Keys, Verdict[j] = "ask",
                 ~(said'[j]["session"] > 0),
                 ~ \E p \in Keys : said'[p]["always"] > 0 /\ j \in Covers[p]
          PROVE  runs'[j] <= said'[j]["once"]
      <4>1. ~(said[j]["session"] > 0)
        BY <3>1, <3>2, <3>4
      <4>2. ~ \E p \in Keys : said[p]["always"] > 0 /\ j \in Covers[p]
        BY <3>1, <3>2, <3>4
      <4>3. runs[j] <= said[j]["once"]
        BY <3>4, <4>1, <4>2 DEF RunsWereApproved
      <4>4. CASE j # k \/ v = "decline"
        BY <2>1, <2>4, <3>1, <3>2, <4>3, <4>4 DEF AskedAndSaid, ConsentType
      <4>5. CASE j = k /\ v = "once"
        BY <2>1, <2>4, <3>1, <3>2, <4>3, <4>5 DEF AskedAndSaid, ConsentType
      <4>6. CASE j = k /\ v = "session"
        BY <3>1, <3>2, <3>4, <4>6
      <4>7. CASE j = k /\ v = "always"
        BY <3>1, <3>2, <3>4, <4>7, AgentAssumption
      <4> QED
        BY <3>2, <4>4, <4>5, <4>6, <4>7
    <3> QED
      BY <3>3, <3>4 DEF RunsWereApproved
  <2> QED
    BY <2>1, <2>2, <2>3, <2>4, ConsentCases
<1> QED
  BY <1>1, <1>2, TypeCorrect, PTL DEF Spec

\* After an interrupt no shell command is executed by any step, except for the
\* answer to a question that was already asked: the threads run reads only.
THEOREM InterruptHeeded == Spec => NoCommandAfterInterrupt
<1>1. TypeOK /\ [Next]_vars =>
        [\A k \in Shell : stop = "interrupt" /\ runs'[k] > runs[k] => Running("ask")]_vars
  <2> SUFFICES ASSUME TypeOK, [Next]_vars, NEW k \in Shell,
                      stop = "interrupt", runs'[k] > runs[k]
               PROVE  Running("ask")
    BY DEF vars
  <2>1. StackOK /\ runs[k] \in Nat /\ runs \in [Keys -> Nat]
    BY DEF TypeOK, Keys
  <2>2. runs' # runs
    BY <2>1
  <2>3. CASE UNCHANGED vars
    BY <2>2, <2>3 DEF vars
  <2>4. CASE IterationStarts \/ RunStopped \/ IterationsUsedUp \/ RequestStopped
             \/ RequestFails \/ AnswerText \/ WorkersJoined \/ CallsDone
             \/ CallRefused \/ CallTaken \/ ExecuteTask \/ Resume \/ Over
             \/ (\E how \in {"interrupt", "estop"} : Stop(how))
             \/ \E n \in 1 .. MaxCalls : \E calls \in [1 .. n -> Keys] : AnswerCalls(calls)
    BY <2>2, <2>4
    DEF IterationStarts, RunStopped, IterationsUsedUp, RequestStopped, RequestFails,
        AnswerText, WorkersJoined, CallsDone, CallRefused, CallTaken, ExecuteTask,
        Resume, Over, Stop, AnswerCalls, vars
  <2>5. ASSUME NEW c \in 1 .. MaxCalls, Running("workers"), c \in DOMAIN top.results,
               WorkerRuns(c) \/ \E v \in Verdicts : WorkerAnswered(c, v)
        PROVE  FALSE
    <3>1. top.calls[c] \in ReadOnly
      <4>1. top \in Frames /\ FrameOK(top)
        BY <2>1, <2>5, TopFrame DEF Running
      <4>2. c \in 1 .. Len(top.calls)
        BY <2>5, <4>1 DEF FrameOK, Frames
      <4>3. top.results[c] # "none"
        BY <2>5 DEF WorkerRuns, WorkerAnswered
      <4> QED
        BY <4>1, <4>2, <4>3 DEF FrameOK
    <3>2. top.calls[c] # k
      BY <3>1, AgentAssumption
    <3>3. runs'[k] = runs[k]
      BY <2>1, <2>5, <3>2 DEF WorkerRuns, WorkerAnswered, Executed, Keys
    <3> QED
      BY <2>1, <3>3
  <2>6. CASE Execute
    <3>1. Executed(Call, IF MayRun(Call) THEN "done" ELSE "denied") /\ Call \notin Shell
      BY <2>2, <2>6 DEF Execute
    <3>2. runs'[k] = runs[k]
      BY <2>1, <3>1 DEF Executed, Keys
    <3> QED
      BY <2>1, <3>2
  <2>7. CASE \E v \in Verdicts : UserAnswered(v)
    BY <2>7 DEF UserAnswered
  <2> QED
    BY <2>3, <2>4, <2>5, <2>6, <2>7, NextCases
<1> QED
  BY <1>1, TypeCorrect, PTL DEF Spec, NoCommandAfterInterrupt

-----------------------------------------------------------------------------
(* What the histories of the open runs hold.                               *)

\* The places of the answers with calls in a history.
Asked(h) == {i \in 1 .. Len(h) : h[i].role = "assistant"}

\* The first n calls of the answer at i have their replies behind it, in order.
Followed(h, i, n) ==
    /\ i + n <= Len(h)
    /\ \A j \in 1 .. n :
        /\ h[i + j].role = "tool"
        /\ h[i + j].iter = h[i].iter /\ h[i + j].call = j
        /\ h[i + j].key = h[i].calls[j]

\* Where the answer that is being worked off stands: its replies are behind it
\* and nothing else is.
Place(f) == Len(f.history) - (f.ci - 1)

Between == {"top", "request"}

\* The history as far as the answers go: the last answer is the frame's, and is
\* answered up to the present call, the others wholly.
Ledger(f) ==
    /\ f.at \in Between => f.ci > Len(f.calls)
    /\ f.calls = <<>> => Asked(f.history) = {}
    /\ f.calls # <<>> =>
        /\ Place(f) \in Asked(f.history)
        /\ f.history[Place(f)].calls = f.calls
        /\ f.at \notin Between => f.history[Place(f)].iter = f.iter
        /\ Followed(f.history, Place(f), f.ci - 1)
        /\ \A i \in Asked(f.history) : i # Place(f) =>
            i < Place(f) /\ Followed(f.history, i, Len(f.history[i].calls))

\* A call that was taken and has no reply yet.
Pending(f) == f.at \in {"exec", "ask", "child"}
Ahead(f) == IF Pending(f) THEN 1 ELSE 0

\* The count of repeated calls is that of the last replies with one key: the
\* call that was taken last is counted although its reply is not there yet.
Streak(f) ==
    /\ Pending(f) => /\ f.repeat \in 1 .. DoomLimit - 1
                     /\ f.lastTool = f.calls[f.ci]
    /\ f.repeat = 0 => Told(f.history) = {}
    /\ \A q \in Told(f.history) :
        LET row == Row(f.history, q, Len(f.history)) + Ahead(f) IN
        /\ row <= f.repeat => f.history[q].key = f.lastTool
        /\ row = f.repeat + 1 /\ f.repeat < DoomLimit => f.history[q].key # f.lastTool

\* No read was refused by its thread.
ReadsRan(f) == \A c \in 1 .. Len(f.results) : f.results[c] # "refused"

HistoryOK(f) ==
    /\ Ledger(f)
    /\ Streak(f)
    /\ RefusesRepeats(f.history)
    /\ ReadsRan(f)

HistoriesOK == \A n \in 1 .. Len(stack) : HistoryOK(stack[n])

-----------------------------------------------------------------------------
(* Counting the replies in a part of a history.                            *)

\* A set of naturals that is not empty has a least element.
LEMMA LeastNatural ==
  ASSUME NEW T \in SUBSET Nat, T # {}
  PROVE  \E x \in T : \A y \in T : x <= y
<1>1. PICK x \in T : \A y \in T : <<y, x>> \notin OpToRel(<, Nat)
  BY NatLessThanWellFounded, WFMin
<1>2. \A y \in T : ~(y < x)
  BY <1>1 DEF OpToRel
<1> QED
  BY <1>2

LEMMA RowFinite ==
  ASSUME NEW h, NEW q \in Int, NEW p \in Int
  PROVE  IsFiniteSet(Told(h) \intersect q .. p)
<1>1. IsFiniteSet(q .. p)
  BY FS_Interval
<1> QED
  BY <1>1, FS_Subset

LEMMA RowNat ==
  ASSUME NEW h, NEW q \in Int, NEW p \in Int
  PROVE  Row(h, q, p) \in Nat
BY RowFinite, FS_CardinalityType DEF Row

\* A message more at the end, and one less at the beginning.
LEMMA RowNext ==
  ASSUME NEW h, NEW q \in Int, NEW p \in Int, q <= p + 1
  PROVE  Row(h, q, p + 1) = Row(h, q, p) + (IF p + 1 \in Told(h) THEN 1 ELSE 0)
<1> DEFINE S == Told(h) \intersect q .. p
           T == Told(h) \intersect q .. p + 1
<1>1. IsFiniteSet(S) /\ Cardinality(S) \in Nat
  BY RowFinite, FS_CardinalityType
<1>2. CASE p + 1 \in Told(h)
  <2>1. T = S \cup {p + 1} /\ p + 1 \notin S
    BY <1>2
  <2> HIDE DEF S, T
  <2>2. Cardinality(T) = Cardinality(S) + 1
    BY <1>1, <2>1, FS_AddElement
  <2> QED
    BY <1>2, <2>2 DEF Row, S, T
<1>3. CASE p + 1 \notin Told(h)
  <2>1. T = S
    BY <1>3
  <2> QED
    BY <1>1, <1>3, <2>1 DEF Row
<1> QED
  BY <1>2, <1>3

LEMMA RowFirst ==
  ASSUME NEW h, NEW q \in Int, NEW p \in Int, q <= p
  PROVE  Row(h, q, p) = Row(h, q + 1, p) + (IF q \in Told(h) THEN 1 ELSE 0)
<1> DEFINE S == Told(h) \intersect q + 1 .. p
           T == Told(h) \intersect q .. p
<1>1. IsFiniteSet(S) /\ Cardinality(S) \in Nat
  <2>1. q + 1 \in Int
    OBVIOUS
  <2>2. IsFiniteSet(S)
    BY <2>1, RowFinite
  <2> QED
    BY <2>2, FS_CardinalityType
<1>2. CASE q \in Told(h)
  <2>1. T = S \cup {q} /\ q \notin S
    BY <1>2
  <2> HIDE DEF S, T
  <2>2. Cardinality(T) = Cardinality(S) + 1
    BY <1>1, <2>1, FS_AddElement
  <2> QED
    BY <1>2, <2>2 DEF Row, S, T
<1>3. CASE q \notin Told(h)
  <2>1. T = S
    BY <1>3
  <2> QED
    BY <1>1, <1>3, <2>1 DEF Row
<1> QED
  BY <1>2, <1>3

LEMMA RowEmpty ==
  ASSUME NEW h, NEW q \in Int, NEW p \in Int, q > p
  PROVE  Row(h, q, p) = 0
<1>1. Told(h) \intersect q .. p = {}
  OBVIOUS
<1> QED
  BY <1>1, FS_EmptySet DEF Row

LEMMA RowMonotone ==
  ASSUME NEW h, NEW q \in Int, NEW r \in Int, NEW p \in Int, q <= r
  PROVE  Row(h, r, p) <= Row(h, q, p)
<1> DEFINE S == Told(h) \intersect q .. p
           T == Told(h) \intersect r .. p
<1>1. IsFiniteSet(S)
  BY RowFinite
<1>2. T \subseteq S
  OBVIOUS
<1> HIDE DEF S, T
<1>3. Cardinality(T) <= Cardinality(S)
  BY <1>1, <1>2, FS_Subset
<1> QED
  BY <1>3 DEF Row, S, T

\* The count looks at the roles in the part only, wherever the part stands.
LEMMA RowMoved ==
  ASSUME NEW g, NEW h, NEW q \in Int, NEW p \in Int, NEW d \in Int,
         \A i \in q .. p : i \in Told(g) <=> i + d \in Told(h)
  PROVE  Row(g, q, p) = Row(h, q + d, p + d)
<1> DEFINE S == Told(g) \intersect q .. p
           T == Told(h) \intersect q + d .. p + d
           f == [i \in S |-> i + d]
<1>1. IsFiniteSet(S)
  BY RowFinite
<1>2. f \in Bijection(S, T)
  <2>1. f \in Injection(S, T)
    BY DEF Injection, IsInjective
  <2>2. \A j \in T : \E i \in S : f[i] = j
    <3> TAKE j \in T
    <3>1. j - d \in S /\ f[j - d] = j
      OBVIOUS
    <3> QED
      BY <3>1
  <2> QED
    BY <2>1, <2>2 DEF Bijection, Surjection, Injection
<1> HIDE DEF S, T, f
<1>3. ExistsBijection(S, T)
  BY <1>2 DEF ExistsBijection
<1>4. Cardinality(T) = Cardinality(S)
  BY <1>1, <1>3, FS_Bijection
<1> QED
  BY <1>4 DEF Row, S, T

\* Counting from the end reaches every number up to the whole.
LEMMA RowReached ==
  ASSUME NEW h, NEW p \in Nat, NEW n \in Nat \ {0}, n <= Row(h, 1, p)
  PROVE  \E q \in 1 .. p : q \in Told(h) /\ Row(h, q, p) = n
<1> DEFINE U == {q \in 1 .. p + 1 : Row(h, q, p) < n}
<1>1. \A q \in 1 .. p + 1 : Row(h, q, p) \in Nat
  BY RowNat
<1>2. p + 1 \in U
  BY RowEmpty
<1>3. PICK u \in U : \A v \in U : u <= v
  <2>1. U \in SUBSET Nat /\ U # {}
    BY <1>2
  <2> HIDE DEF U
  <2> QED
    BY <2>1, LeastNatural
<1> DEFINE q == u - 1
<1>4. u # 1
  BY <1>1
<1>5. q \in 1 .. p /\ q + 1 = u /\ q \notin U
  BY <1>3, <1>4
<1>6. Row(h, q, p) >= n
  BY <1>1, <1>5
<1>7. Row(h, q, p) = Row(h, q + 1, p) + (IF q \in Told(h) THEN 1 ELSE 0)
  BY <1>5, RowFirst
<1>8. q \in Told(h) /\ Row(h, q, p) = n
  BY <1>1, <1>5, <1>6, <1>7
<1> QED
  BY <1>5, <1>8

-----------------------------------------------------------------------------
(* One message more.                                                       *)

\* The parts of a frame.
LEMMA FrameParts ==
  ASSUME NEW f \in Frames
  PROVE  /\ f.history \in Seq(Messages) /\ Len(f.history) \in Nat
         /\ f.calls \in Seq(Keys) /\ Len(f.calls) \in Nat
         /\ f.results \in Seq(Results \union Unfinished) /\ Len(f.results) \in Nat
         /\ f.ci \in Nat \ {0} /\ f.iter \in Nat /\ f.repeat \in 0 .. DoomLimit
BY LenProperties DEF Frames

LEMMA Appended ==
  ASSUME NEW h \in Seq(Messages), NEW m \in Messages
  PROVE  /\ Append(h, m) \in Seq(Messages)
         /\ Len(Append(h, m)) = Len(h) + 1 /\ Len(h) \in Nat
         /\ \A i \in 1 .. Len(h) : Append(h, m)[i] = h[i]
         /\ Append(h, m)[Len(h) + 1] = m
BY AppendProperties, LenProperties

\* A reply counts in every part that ends with it, and changes no other.
LEMMA ReplyAdded ==
  ASSUME NEW h \in Seq(Messages), NEW m \in Messages, m.role = "tool"
  PROVE  /\ Told(Append(h, m)) = Told(h) \union {Len(h) + 1}
         /\ Asked(Append(h, m)) = Asked(h)
         /\ \A q, p \in 1 .. Len(h) : Row(Append(h, m), q, p) = Row(h, q, p)
         /\ \A q \in 1 .. Len(h) + 1 :
                Row(Append(h, m), q, Len(h) + 1) = Row(h, q, Len(h)) + 1
<1> DEFINE newer == Append(h, m)
           L == Len(h)
<1>1. /\ L \in Nat /\ Len(newer) = L + 1
      /\ \A i \in 1 .. L : newer[i] = h[i]
      /\ newer[L + 1] = m
  BY Appended
<1> HIDE DEF newer, L
<1>2. Told(newer) = Told(h) \union {L + 1} /\ Asked(newer) = Asked(h)
  BY <1>1 DEF Told, Asked, L
<1>3. ASSUME NEW q \in Int, NEW p \in Int, p <= L PROVE Row(newer, q, p) = Row(h, q, p)
  <2>1. Told(newer) \intersect q .. p = Told(h) \intersect q .. p
    BY <1>1, <1>2, <1>3
  <2> QED
    BY <2>1 DEF Row
<1>4. ASSUME NEW q \in 1 .. L + 1 PROVE Row(newer, q, L + 1) = Row(h, q, L) + 1
  <2>1. Row(newer, q, L + 1) = Row(newer, q, L) + 1
    BY <1>1, <1>2, RowNext
  <2> QED
    BY <1>1, <1>3, <2>1
<1> QED
  BY <1>1, <1>2, <1>3, <1>4 DEF newer, L

\* A reply stands in the part that begins with it.
LEMMA RowOfReply ==
  ASSUME NEW h \in Seq(Messages), NEW q \in Told(h)
  PROVE  Row(h, q, Len(h)) \in Nat \ {0}
<1>1. q \in 1 .. Len(h) /\ Len(h) \in Nat
  BY LenProperties DEF Told
<1>2. Row(h, q, Len(h)) = Row(h, q + 1, Len(h)) + 1
  BY <1>1, RowFirst
<1>3. Row(h, q + 1, Len(h)) \in Nat
  <2>1. q + 1 \in Int
    BY <1>1
  <2> QED
    BY <1>1, <2>1, RowNat
<1> QED
  BY <1>2, <1>3

\* What a reply does to the parts of its frame.
LEMMA PushedParts ==
  ASSUME NEW f \in Frames, FrameOK(f), f.ci <= Len(f.calls), NEW res \in Results
  PROVE  LET g == Pushed(f, res)
             m == Reply(f.iter, f.ci, f.calls[f.ci], res)
         IN  /\ m \in Messages
             /\ g.at = "calls" /\ g.ci = f.ci + 1 /\ g.history = Append(f.history, m)
             /\ g.calls = f.calls /\ g.results = f.results /\ g.iter = f.iter
             /\ g.lastTool = f.lastTool /\ g.repeat = f.repeat
<1> DEFINE m == Reply(f.iter, f.ci, f.calls[f.ci], res)
<1>1. f.calls[f.ci] \in Keys
  BY DEF Frames
<1>2. m \in Messages
  BY <1>1 DEF Reply, Messages, Frames
<1> HIDE DEF m
<1>3. DOMAIN f = {"at", "history", "limit", "iter", "calls", "ci", "results", "lastTool", "repeat"}
  BY DEF Frames
<1>4. Pushed(f, res) = [f EXCEPT !.at = "calls", !.ci = @ + 1, !.history = Append(@, m)]
  BY DEF Pushed, m
<1> QED
  BY <1>2, <1>3, <1>4 DEF m

-----------------------------------------------------------------------------
(* The steps of one run.                                                   *)

LEMMA PlaceSums ==
  ASSUME NEW L \in Nat, NEW c \in Nat \ {0}
  PROVE  /\ (L + 1) - ((c + 1) - 1) = L - (c - 1)
         /\ (L - (c - 1)) + (c - 1) = L
         /\ (L - (c - 1)) + c = L + 1
         /\ L - (c - 1) \in Int
OBVIOUS

\* A reply follows the replies before it.
LEMMA LedgerPushed ==
  ASSUME NEW f \in Frames, NEW g \in Frames, FrameOK(f), Ledger(f), f.at \notin Between,
         f.ci <= Len(f.calls), NEW res \in Results,
         LET m == Reply(f.iter, f.ci, f.calls[f.ci], res)
         IN  /\ m \in Messages
             /\ g.at = "calls" /\ g.ci = f.ci + 1 /\ g.history = Append(f.history, m)
             /\ g.calls = f.calls /\ g.iter = f.iter
  PROVE  Ledger(g)
<1> DEFINE m == Reply(f.iter, f.ci, f.calls[f.ci], res)
           h == f.history
           L == Len(f.history)
           newer == Append(h, m)
           P == Place(f)
<1>1. /\ h \in Seq(Messages) /\ L \in Nat /\ m \in Messages
      /\ f.ci \in Nat \ {0} /\ f.iter \in Nat /\ Len(f.calls) \in Nat
      /\ f.calls # <<>>
  BY FrameParts
<1>2. /\ m.role = "tool" /\ m.iter = f.iter /\ m.call = f.ci /\ m.key = f.calls[f.ci]
  BY DEF Reply
<1>3. /\ g.at = "calls" /\ g.ci = f.ci + 1 /\ g.history = newer
      /\ g.calls = f.calls /\ g.iter = f.iter
  OBVIOUS
<1> HIDE DEF m
<1>4. /\ Len(newer) = L + 1 /\ newer[L + 1] = m
      /\ \A i \in 1 .. L : newer[i] = h[i]
  BY <1>1, Appended
<1>5. Asked(newer) = Asked(h)
  BY <1>1, <1>2, ReplyAdded
<1> HIDE DEF newer
<1>6. /\ Place(g) = P /\ P = L - (f.ci - 1) /\ P \in Int
      /\ P + (f.ci - 1) = L /\ P + f.ci = L + 1
  <2>1. P = L - (f.ci - 1)
    BY DEF Place
  <2>2. Place(g) = (L + 1) - ((f.ci + 1) - 1)
    BY <1>3, <1>4 DEF Place
  <2> HIDE DEF P, L
  <2> QED
    BY <1>1, <2>1, <2>2, PlaceSums
<1>7. /\ P \in Asked(h) /\ P \in 1 .. L
      /\ h[P].calls = f.calls /\ h[P].iter = f.iter
      /\ Followed(h, P, f.ci - 1)
      /\ \A i \in Asked(h) : i # P => i < P /\ Followed(h, i, Len(h[i].calls))
  BY <1>1 DEF Ledger, Asked
<1> HIDE DEF P
<1>8. Followed(newer, P, f.ci)
  <2>1. newer[P] = h[P]
    BY <1>4, <1>7
  <2>2. ASSUME NEW j \in 1 .. f.ci
        PROVE  /\ newer[P + j].role = "tool"
               /\ newer[P + j].iter = h[P].iter /\ newer[P + j].call = j
               /\ newer[P + j].key = h[P].calls[j]
    <3>1. CASE j = f.ci
      <4>1. newer[P + j] = m
        BY <1>1, <1>4, <1>6, <3>1
      <4> QED
        BY <1>2, <1>7, <3>1, <4>1
    <3>2. CASE j # f.ci
      <4>1. j \in 1 .. f.ci - 1 /\ P + j \in 1 .. L
        <5> HIDE DEF L, h
        <5>1. j \in Nat /\ 1 <= j /\ j <= f.ci - 1 /\ P \in Nat /\ 1 <= P
          BY <1>1, <1>7, <3>2
        <5>2. P + j <= L
          BY <1>1, <1>6, <5>1
        <5> QED
          BY <1>1, <5>1, <5>2
      <4>2. newer[P + j] = h[P + j]
        BY <1>4, <4>1
      <4> QED
        BY <1>7, <4>1, <4>2 DEF Followed
    <3> QED
      BY <3>1, <3>2
  <2>3. P + f.ci <= Len(newer)
    BY <1>1, <1>4, <1>6
  <2> QED
    BY <2>1, <2>2, <2>3 DEF Followed
<1>9. ASSUME NEW i \in Asked(h), i # P
      PROVE  i < P /\ Followed(newer, i, Len(newer[i].calls))
  <2>1. i < P /\ i \in 1 .. L /\ Followed(h, i, Len(h[i].calls)) /\ newer[i] = h[i]
    BY <1>4, <1>7, <1>9 DEF Asked
  <2>2. ASSUME NEW j \in 1 .. Len(h[i].calls) PROVE newer[i + j] = h[i + j]
    <3>1. i + j \in 1 .. L
      BY <1>1, <2>1, <2>2 DEF Followed
    <3> QED
      BY <1>4, <3>1
  <2>3. i + Len(h[i].calls) <= Len(newer)
    BY <1>1, <1>4, <2>1 DEF Followed
  <2>4. Followed(newer, i, Len(h[i].calls))
    BY <2>1, <2>2, <2>3, ZenonT(30) DEF Followed
  <2> QED
    BY <2>1, <2>4
<1>10. newer[P] = h[P]
  BY <1>4, <1>7
<1>11. g.at \notin Between
  BY <1>3 DEF Between
<1>12. g.ci - 1 = f.ci
  BY <1>1, <1>3
<1> HIDE DEF h
<1> QED
  BY <1>1, <1>3, <1>5, <1>6, <1>7, <1>8, <1>9, <1>10, <1>11, <1>12 DEF Ledger

\* The reply to a call that was taken ends the row it was counted in, and is not
\* a refusal.
LEMMA StreakPushed ==
  ASSUME NEW f \in Frames, NEW g, Streak(f), RefusesRepeats(f.history),
         Pending(f), NEW res \in Results \ {"refused"},
         LET m == Reply(f.iter, f.ci, f.calls[f.ci], res)
         IN  /\ m \in Messages
             /\ g.at = "calls" /\ g.history = Append(f.history, m)
             /\ g.lastTool = f.lastTool /\ g.repeat = f.repeat
  PROVE  Streak(g) /\ RefusesRepeats(g.history)
<1> DEFINE m == Reply(f.iter, f.ci, f.calls[f.ci], res)
           h == f.history
           L == Len(f.history)
           newer == Append(h, m)
<1>1. /\ h \in Seq(Messages) /\ L \in Nat /\ m \in Messages
      /\ f.repeat \in 1 .. DoomLimit - 1 /\ f.lastTool = f.calls[f.ci]
      /\ DoomLimit \in Nat
  BY FrameParts, AgentAssumption DEF Streak
<1>2. m.role = "tool" /\ m.key = f.lastTool /\ m.res # "refused"
  BY <1>1 DEF Reply
<1>3. /\ g.at = "calls" /\ g.history = newer
      /\ g.lastTool = f.lastTool /\ g.repeat = f.repeat
  OBVIOUS
<1> HIDE DEF m
<1>4. /\ Len(newer) = L + 1 /\ newer[L + 1] = m
      /\ \A i \in 1 .. L : newer[i] = h[i]
  BY <1>1, Appended
<1>5. /\ Told(newer) = Told(h) \union {L + 1}
      /\ \A q, p \in 1 .. L : Row(newer, q, p) = Row(h, q, p)
      /\ \A q \in 1 .. L + 1 : Row(newer, q, L + 1) = Row(h, q, L) + 1
  BY <1>1, <1>2, ReplyAdded
<1> HIDE DEF newer
<1>6. Told(h) \subseteq 1 .. L
  BY DEF Told
<1>7. \A q \in Told(h) :
        /\ Row(h, q, L) + 1 <= f.repeat => h[q].key = f.lastTool
        /\ Row(h, q, L) + 1 = f.repeat + 1 => h[q].key # f.lastTool
  BY <1>1 DEF Streak, Ahead
<1>8. Row(newer, L + 1, L + 1) = 1
  <2>1. Row(h, L + 1, L) = 0
    BY <1>1, RowEmpty
  <2> QED
    BY <1>1, <1>5, <2>1
<1> HIDE DEF h, L
<1>9. Streak(g)
  <2>1. ASSUME NEW q \in Told(newer)
        PROVE  /\ Row(newer, q, Len(newer)) <= f.repeat => newer[q].key = f.lastTool
               /\ Row(newer, q, Len(newer)) = f.repeat + 1 => newer[q].key # f.lastTool
    <3>1. CASE q = L + 1
      BY <1>1, <1>2, <1>4, <1>8, <3>1
    <3>2. CASE q # L + 1
      <4>1. q \in Told(h) /\ q \in 1 .. L
        BY <1>5, <1>6, <3>2
      <4> QED
        BY <1>1, <1>4, <1>5, <1>7, <4>1
    <3> QED
      BY <3>1, <3>2
  <2>2. ~Pending(g) /\ Ahead(g) = 0
    BY <1>3 DEF Pending, Ahead
  <2>3. \A q \in Told(newer) : Row(newer, q, Len(newer)) \in Nat
    BY <1>1, <1>4, <1>5, <1>6, RowNat
  <2> QED
    BY <1>1, <1>3, <2>1, <2>2, <2>3 DEF Streak
<1>10. ASSUME NEW p \in Told(newer), Row(newer, 1, p) >= DoomLimit
       PROVE  (newer[p].res = "refused") <=>
                \A q \in Told(newer) :
                    q <= p /\ Row(newer, q, p) <= DoomLimit => newer[q].key = newer[p].key
  <2>1. CASE p = L + 1
    <3>1. Row(h, 1, L) + 1 >= DoomLimit /\ Row(h, 1, L) \in Nat
      BY <1>1, <1>5, <1>10, <2>1, RowNat
    <3>2. PICK q \in 1 .. L : q \in Told(h) /\ Row(h, q, L) = f.repeat
      <4>1. f.repeat \in Nat \ {0} /\ f.repeat <= Row(h, 1, L)
        BY <1>1, <3>1
      <4> QED
        BY <1>1, <4>1, RowReached
    <3>3. /\ q \in Told(newer) /\ q <= p /\ Row(newer, q, p) = f.repeat + 1
          /\ newer[q].key # f.lastTool
      BY <1>1, <1>4, <1>5, <1>7, <2>1, <3>2
    <3>4. f.repeat + 1 <= DoomLimit
      BY <1>1
    <3> QED
      BY <1>2, <1>4, <2>1, <3>3, <3>4
  <2>2. CASE p # L + 1
    <3>1. p \in Told(h) /\ p \in 1 .. L
      BY <1>5, <1>6, <2>2
    <3>2. Row(h, 1, p) >= DoomLimit
      BY <1>1, <1>5, <1>10, <3>1
    <3>3. (h[p].res = "refused") <=>
            \A q \in Told(h) : q <= p /\ Row(h, q, p) <= DoomLimit => h[q].key = h[p].key
      BY <3>1, <3>2 DEF RefusesRepeats, h
    <3>4. ASSUME NEW q \in Told(newer), q <= p
          PROVE  q \in Told(h) /\ newer[q] = h[q] /\ Row(newer, q, p) = Row(h, q, p)
      BY <1>1, <1>4, <1>5, <1>6, <3>1, <3>4
    <3>5. newer[p] = h[p] /\ Told(h) \subseteq Told(newer)
      BY <1>4, <1>5, <3>1
    <3> QED
      BY <3>3, <3>4, <3>5
  <2> QED
    BY <2>1, <2>2
<1> QED
  BY <1>3, <1>9, <1>10 DEF RefusesRepeats

\* A refusal ends a row of DoomLimit replies to one call.
LEMMA StreakRefused ==
  ASSUME NEW f \in Frames, NEW g, Streak(f), RefusesRepeats(f.history),
         f.at = "calls", f.calls[f.ci] = f.lastTool, f.repeat + 1 >= DoomLimit,
         LET m == Reply(f.iter, f.ci, f.calls[f.ci], "refused")
         IN  /\ m \in Messages
             /\ g.at = "calls" /\ g.history = Append(f.history, m)
             /\ g.lastTool = f.lastTool /\ g.repeat = DoomLimit
  PROVE  Streak(g) /\ RefusesRepeats(g.history)
<1> DEFINE m == Reply(f.iter, f.ci, f.calls[f.ci], "refused")
           h == f.history
           L == Len(f.history)
           newer == Append(h, m)
<1>1. /\ h \in Seq(Messages) /\ L \in Nat /\ m \in Messages
      /\ f.repeat \in 0 .. DoomLimit /\ DoomLimit \in Nat \ {0, 1}
  BY FrameParts, AgentAssumption
<1>2. m.role = "tool" /\ m.key = f.lastTool /\ m.res = "refused"
  BY DEF Reply
<1>3. /\ g.at = "calls" /\ g.history = newer
      /\ g.lastTool = f.lastTool /\ g.repeat = DoomLimit
  OBVIOUS
<1> HIDE DEF m
<1>4. /\ Len(newer) = L + 1 /\ newer[L + 1] = m
      /\ \A i \in 1 .. L : newer[i] = h[i]
  BY <1>1, Appended
<1>5. /\ Told(newer) = Told(h) \union {L + 1}
      /\ \A q, p \in 1 .. L : Row(newer, q, p) = Row(h, q, p)
      /\ \A q \in 1 .. L + 1 : Row(newer, q, L + 1) = Row(h, q, L) + 1
  BY <1>1, <1>2, ReplyAdded
<1> HIDE DEF newer
<1>6. Told(h) \subseteq 1 .. L
  BY DEF Told
<1>7. \A q \in Told(h) : Row(h, q, L) <= f.repeat => h[q].key = f.lastTool
  <2>1. Ahead(f) = 0
    BY DEF Ahead, Pending
  <2>2. \A q \in Told(h) : Row(h, q, L) \in Nat
    BY <1>1, <1>6, RowNat
  <2> QED
    BY <1>1, <2>1, <2>2 DEF Streak
<1> HIDE DEF h, L
\* every reply among the last DoomLimit has the key
<1>8. ASSUME NEW q \in Told(newer), Row(newer, q, L + 1) <= DoomLimit
      PROVE  newer[q].key = f.lastTool
  <2>1. CASE q = L + 1
    BY <1>2, <1>4, <2>1
  <2>2. CASE q # L + 1
    <3>1. q \in Told(h) /\ q \in 1 .. L
      BY <1>5, <1>6, <2>2
    <3>2. Row(h, q, L) \in Nat
      BY <1>1, <3>1, RowNat
    <3>3. Row(h, q, L) <= f.repeat
      BY <1>1, <1>5, <1>8, <3>1, <3>2
    <3> QED
      BY <1>4, <1>7, <3>1, <3>3
  <2> QED
    BY <2>1, <2>2
<1>9. Streak(g)
  <2>1. ~Pending(g) /\ Ahead(g) = 0
    BY <1>3 DEF Pending, Ahead
  <2>2. \A q \in Told(newer) : Row(newer, q, Len(newer)) \in Nat
    BY <1>1, <1>4, <1>5, <1>6, RowNat
  <2>3. ASSUME NEW q \in Told(newer), Row(newer, q, Len(newer)) + Ahead(g) <= DoomLimit
        PROVE  newer[q].key = f.lastTool
    <3>1. Row(newer, q, L + 1) <= DoomLimit
      BY <1>4, <2>1, <2>2, <2>3
    <3> QED
      BY <1>8, <3>1
  <2>4. DoomLimit # 0 /\ ~(DoomLimit < DoomLimit)
    BY <1>1
  <2> QED
    BY <1>3, <2>1, <2>3, <2>4 DEF Streak
<1>10. ASSUME NEW p \in Told(newer), Row(newer, 1, p) >= DoomLimit
       PROVE  (newer[p].res = "refused") <=>
                \A q \in Told(newer) :
                    q <= p /\ Row(newer, q, p) <= DoomLimit => newer[q].key = newer[p].key
  <2>1. CASE p = L + 1
    BY <1>2, <1>4, <1>8, <2>1
  <2>2. CASE p # L + 1
    <3>1. p \in Told(h) /\ p \in 1 .. L
      BY <1>5, <1>6, <2>2
    <3>2. Row(h, 1, p) >= DoomLimit
      BY <1>1, <1>5, <1>10, <3>1
    <3>3. (h[p].res = "refused") <=>
            \A q \in Told(h) : q <= p /\ Row(h, q, p) <= DoomLimit => h[q].key = h[p].key
      BY <3>1, <3>2 DEF RefusesRepeats, h
    <3>4. ASSUME NEW q \in Told(newer), q <= p
          PROVE  q \in Told(h) /\ newer[q] = h[q] /\ Row(newer, q, p) = Row(h, q, p)
      BY <1>1, <1>4, <1>5, <1>6, <3>1, <3>4
    <3>5. newer[p] = h[p] /\ Told(h) \subseteq Told(newer)
      BY <1>4, <1>5, <3>1
    <3> QED
      BY <3>3, <3>4, <3>5
  <2> QED
    BY <2>1, <2>2
<1> QED
  BY <1>3, <1>9, <1>10 DEF RefusesRepeats

\* Taking a call counts it, and what is taken is no third of its kind.
LEMMA StreakTaken ==
  ASSUME NEW f \in Frames, NEW g, Streak(f), f.at = "calls",
         LET k == f.calls[f.ci]
             r == IF k # f.lastTool THEN 1
                  ELSE IF f.repeat < DoomLimit THEN f.repeat + 1 ELSE DoomLimit
         IN  /\ ~(k = f.lastTool /\ r = DoomLimit)
             /\ g.at = "exec" /\ g.history = f.history
             /\ g.calls = f.calls /\ g.ci = f.ci
             /\ g.lastTool = k /\ g.repeat = r
  PROVE  Streak(g)
<1> DEFINE h == f.history
           L == Len(f.history)
           k == f.calls[f.ci]
           r == IF k # f.lastTool THEN 1
                ELSE IF f.repeat < DoomLimit THEN f.repeat + 1 ELSE DoomLimit
<1>1. /\ h \in Seq(Messages) /\ L \in Nat
      /\ f.repeat \in 0 .. DoomLimit /\ DoomLimit \in Nat \ {0, 1}
  BY FrameParts, AgentAssumption
<1>2. /\ g.at = "exec" /\ g.history = h /\ g.lastTool = k /\ g.repeat = r
      /\ g.calls[g.ci] = k
  OBVIOUS
<1>3. r \in 1 .. DoomLimit - 1
  BY <1>1
<1>4. Pending(g) /\ Ahead(g) = 1 /\ Ahead(f) = 0
  BY <1>2 DEF Pending, Ahead
<1>5. ASSUME NEW q \in Told(h)
      PROVE  /\ Row(h, q, L) + 1 <= r => h[q].key = k
             /\ Row(h, q, L) + 1 = r + 1 => h[q].key # k
  <2>1. Row(h, q, L) \in Nat \ {0}
    BY <1>1, RowOfReply
  <2>2. f.repeat # 0
    BY <1>5 DEF Streak
  <2>3. /\ Row(h, q, L) <= f.repeat => h[q].key = f.lastTool
        /\ Row(h, q, L) = f.repeat + 1 /\ f.repeat < DoomLimit => h[q].key # f.lastTool
    BY <1>4, <2>1 DEF Streak
  <2>4. CASE k # f.lastTool
    <3>1. r = 1
      BY <2>4
    <3> HIDE DEF r, h, L, k
    <3> QED
      BY <1>1, <2>1, <2>2, <2>3, <2>4, <3>1
  <2>5. CASE k = f.lastTool
    <3>1. r = f.repeat + 1 /\ f.repeat < DoomLimit
      BY <1>1, <1>3, <2>5
    <3> HIDE DEF r, h, L, k
    <3> QED
      BY <1>1, <2>1, <2>2, <2>3, <2>5, <3>1
  <2> QED
    BY <2>4, <2>5
<1>6. r # 0
  BY <1>3
<1> HIDE DEF r, k
<1> QED
  BY <1>2, <1>3, <1>4, <1>5, <1>6 DEF Streak

\* A step that changes neither the history nor the place in it.
LEMMA HistoryStays ==
  ASSUME NEW f \in Frames, NEW g \in Frames, FrameOK(f), HistoryOK(f),
         g.history = f.history, g.calls = f.calls, g.ci = f.ci,
         g.lastTool = f.lastTool, g.repeat = f.repeat,
         Pending(g) <=> Pending(f),
         g.at \in Between => f.at \in Between \/ f.ci > Len(f.calls),
         g.at \notin Between => f.at \notin Between /\ g.iter = f.iter,
         ReadsRan(g)
  PROVE  HistoryOK(g)
<1>1. Place(g) = Place(f)
  BY DEF Place
<1>2. Ledger(g)
  BY <1>1 DEF HistoryOK, Ledger
<1>3. Streak(g)
  BY DEF HistoryOK, Streak, Ahead
<1> QED
  BY <1>2, <1>3 DEF HistoryOK

\* A compaction keeps an end of the history, and at least its newest message.
LEMMA CompactedEnd ==
  ASSUME NEW h \in Seq(Messages), h # <<>>, NEW newer \in {h, Compacted(h)}
  PROVE  \E d \in Nat :
            /\ newer \in Seq(Messages) /\ Len(newer) \in Nat \ {0}
            /\ Len(h) = Len(newer) + d
            /\ \A i \in 1 .. Len(newer) : newer[i] = h[i + d]
<1>1. Len(h) \in Nat \ {0} /\ Keep \in Nat \ {0}
  BY AgentAssumption, LenProperties, EmptySeq
<1>2. CASE newer = h
  <2>1. 0 \in Nat /\ \A i \in 1 .. Len(h) : h[i] = h[i + 0]
    BY <1>1
  <2> QED
    BY <1>1, <1>2, <2>1
<1>3. CASE newer = Compacted(h) /\ Len(h) > Keep
  <2> DEFINE d == Len(h) - Keep
  <2>1. newer = SubSeq(h, d + 1, Len(h))
    BY <1>1, <1>3 DEF Compacted, Newest
  <2>2. d \in Nat /\ Len(h) = Keep + d /\ d + 1 \in Int
    BY <1>1, <1>3
  <2>3. /\ newer \in Seq(Messages) /\ Len(newer) = Keep
        /\ \A i \in 1 .. Keep : newer[i] = h[i + d]
    BY <1>1, <2>1, <2>2
  <2> HIDE DEF d
  <2> QED
    BY <1>1, <2>2, <2>3
<1>4. CASE newer = Compacted(h) /\ ~(Len(h) > Keep)
  <2>1. newer = h
    BY <1>1, <1>4 DEF Compacted, Newest
  <2> QED
    BY <1>2, <2>1
<1> QED
  BY <1>2, <1>3, <1>4

\* What becomes of a history that gets a new answer.
Grown(h, m) == {Append(h, m), Compacted(Append(h, m))}

\* newer is h without its first messages, with m at its end.
EndsWith(newer, h, m, d) ==
    /\ newer \in Seq(Messages) /\ Len(newer) \in Nat \ {0} /\ Len(h) \in Nat
    /\ Len(h) + 1 = Len(newer) + d
    /\ newer[Len(newer)] = m
    /\ \A i \in 1 .. Len(newer) - 1 : i + d \in 1 .. Len(h) /\ newer[i] = h[i + d]

\* A history that got a new answer ends with it, compacted or not, and what stands
\* before it is the end of the old one.
LEMMA AnswerAdded ==
  ASSUME NEW h \in Seq(Messages), NEW m \in Messages, NEW newer \in Grown(h, m)
  PROVE  \E d \in Nat : EndsWith(newer, h, m, d)
<1> DEFINE H == Append(h, m)
           L == Len(h)
           N == Len(newer)
<1>1. /\ H \in Seq(Messages) /\ Len(H) = L + 1 /\ H[L + 1] = m /\ L \in Nat
      /\ \A i \in 1 .. L : H[i] = h[i]
  BY Appended
<1>2. H # <<>>
  BY <1>1, EmptySeq
<1>3. newer \in {H, Compacted(H)}
  BY DEF Grown
<1> HIDE DEF H
<1>4. PICK d \in Nat :
        /\ newer \in Seq(Messages) /\ Len(newer) \in Nat \ {0}
        /\ Len(H) = Len(newer) + d
        /\ \A i \in 1 .. Len(newer) : newer[i] = H[i + d]
  BY <1>1, <1>2, <1>3, CompactedEnd
<1> HIDE DEF L, N
<1>5. L + 1 = N + d /\ N \in Nat \ {0} /\ newer[N] = m
  BY <1>1, <1>4 DEF N
<1>6. \A i \in 1 .. N - 1 : i + d \in 1 .. L /\ newer[i] = h[i + d]
  <2>1. TAKE i \in 1 .. N - 1
  <2>2. i \in 1 .. N /\ i + d \in 1 .. L
    BY <1>1, <1>5, <2>1
  <2> QED
    BY <1>1, <1>4, <2>2 DEF N
<1> QED
  BY <1>1, <1>4, <1>5, <1>6 DEF L, N, EndsWith

\* An answer with calls opens its own part of the ledger; what a compaction left
\* of the others is as it was.
LEMMA LedgerAsked ==
  ASSUME NEW f \in Frames, NEW g, FrameOK(f), Ledger(f), f.at = "request",
         NEW calls \in Seq(Keys), calls # <<>>,
         LET H == Append(f.history, Answer(f.iter, calls))
         IN  /\ Answer(f.iter, calls) \in Messages
             /\ g.history \in {H, Compacted(H)}
             /\ g.at = "workers" /\ g.calls = calls /\ g.ci = 1 /\ g.iter = f.iter
  PROVE  Ledger(g)
<1> DEFINE m == Answer(f.iter, calls)
           h == f.history
           L == Len(h)
           newer == g.history
           N == Len(newer)
           P == Place(f)
<1>1. h \in Seq(Messages) /\ m \in Messages /\ f.ci \in Nat \ {0} /\ Len(f.calls) \in Nat
  BY FrameParts
<1>2. m.role = "assistant" /\ m.iter = f.iter /\ m.calls = calls
  BY DEF Answer
<1>3. newer \in Grown(h, m)
  BY DEF Grown
<1> HIDE DEF m, newer
<1>4. PICK d \in Nat :
        /\ N \in Nat \ {0} /\ L \in Nat /\ L + 1 = N + d /\ newer[N] = m
        /\ \A i \in 1 .. N - 1 : i + d \in 1 .. L /\ newer[i] = h[i + d]
  <2> HIDE DEF h
  <2>1. \E d \in Nat : EndsWith(newer, h, m, d)
    BY <1>1, <1>3, AnswerAdded
  <2> QED
    BY <2>1 DEF EndsWith
<1>5. N \in Asked(newer)
  BY <1>2, <1>4 DEF Asked
<1>6. Place(g) = N
  BY <1>4 DEF Place, newer
<1>7. \A i \in Asked(h) : i \in 1 .. L /\ Followed(h, i, Len(h[i].calls))
  <2>1. TAKE i \in Asked(h)
  <2>2. f.calls # <<>>
    BY <2>1 DEF Ledger
  <2>3. CASE i = P
    <3>1. f.ci > Len(f.calls) /\ f.ci <= Len(f.calls) + 1
      BY DEF Ledger, FrameOK, Between
    <3>2. f.ci - 1 = Len(f.calls)
      BY <1>1, <3>1
    <3> QED
      BY <2>1, <2>2, <2>3, <3>2 DEF Ledger, Asked
  <2>4. CASE i # P
    BY <2>1, <2>2, <2>4 DEF Ledger, Asked
  <2> QED
    BY <2>3, <2>4
<1> HIDE DEF h, L, N, P
<1>8. ASSUME NEW i \in Asked(newer), i # N
      PROVE  i < N /\ Followed(newer, i, Len(newer[i].calls))
  <2>1. i \in 1 .. N /\ newer[i].role = "assistant"
    BY DEF Asked, N
  <2>2. i \in 1 .. N - 1 /\ i < N
    BY <1>4, <1>8, <2>1
  <2>3. newer[i] = h[i + d] /\ i + d \in 1 .. L /\ i + d \in Asked(h)
    BY <1>4, <2>1, <2>2 DEF Asked, L
  <2> DEFINE n == Len(h[i + d].calls)
  <2>4. Followed(h, i + d, n)
    BY <1>7, <2>3
  <2>5. n \in Nat
    <3>1. h[i + d] \in Messages /\ h[i + d].role = "assistant"
      BY <1>1, <2>1, <2>3 DEF L
    <3>2. h[i + d].calls \in Seq(Keys)
      BY <3>1 DEF Messages, Prompt
    <3> QED
      BY <3>2, LenProperties
  <2> HIDE DEF n
  <2>6. (i + d) + n <= L
    BY <2>4 DEF Followed, L
  <2>7. i + n <= N - 1
    BY <1>4, <2>2, <2>5, <2>6
  <2>8. ASSUME NEW j \in 1 .. n PROVE newer[i + j] = h[(i + d) + j]
    <3>1. i + j \in 1 .. N - 1 /\ (i + j) + d = (i + d) + j
      BY <1>4, <2>2, <2>5, <2>7, <2>8
    <3> QED
      BY <1>4, <3>1
  <2>9. ASSUME NEW j \in 1 .. n
        PROVE  /\ newer[i + j].role = "tool"
               /\ newer[i + j].iter = newer[i].iter /\ newer[i + j].call = j
               /\ newer[i + j].key = newer[i].calls[j]
    BY <2>3, <2>4, <2>8, <2>9 DEF Followed
  <2>10. n = Len(newer[i].calls) /\ i + n <= N
    BY <1>4, <2>2, <2>3, <2>5, <2>7 DEF n
  <2> QED
    BY <2>2, <2>9, <2>10 DEF Followed, N
<1>9. Followed(newer, N, 0)
  BY <1>4 DEF Followed, N
<1>10. /\ g.at \notin Between /\ g.ci - 1 = 0 /\ g.calls = calls /\ g.iter = f.iter
       /\ g.history = newer
  BY DEF Between, newer
<1> QED
  BY <1>2, <1>4, <1>5, <1>6, <1>8, <1>9, <1>10 DEF Ledger

\* The row of the last replies runs on over the answers; a compaction cuts it only
\* where it is longer than what was kept.
LEMMA StreakAsked ==
  ASSUME NEW f \in Frames, NEW g, Streak(f), RefusesRepeats(f.history), f.at = "request",
         NEW calls \in Seq(Keys),
         LET H == Append(f.history, Answer(f.iter, calls))
         IN  /\ Answer(f.iter, calls) \in Messages
             /\ g.history \in {H, Compacted(H)}
             /\ g.at = "workers" /\ g.lastTool = f.lastTool /\ g.repeat = f.repeat
  PROVE  Streak(g) /\ RefusesRepeats(g.history)
<1> DEFINE m == Answer(f.iter, calls)
           h == f.history
           L == Len(h)
           newer == g.history
           N == Len(newer)
<1>1. h \in Seq(Messages) /\ m \in Messages /\ DoomLimit \in Nat
  BY FrameParts, AgentAssumption
<1>2. m.role = "assistant"
  BY DEF Answer
<1>3. newer \in Grown(h, m)
  BY DEF Grown
<1> HIDE DEF m, newer
<1>4. PICK d \in Nat :
        /\ N \in Nat \ {0} /\ L \in Nat /\ L + 1 = N + d /\ newer[N] = m
        /\ \A i \in 1 .. N - 1 : i + d \in 1 .. L /\ newer[i] = h[i + d]
  <2> HIDE DEF h
  <2>1. \E d \in Nat : EndsWith(newer, h, m, d)
    BY <1>1, <1>3, AnswerAdded
  <2> QED
    BY <2>1 DEF EndsWith
<1>5. Told(h) \subseteq 1 .. L
  BY DEF Told
<1>6. Told(newer) \subseteq 1 .. N - 1
  <2>1. N \notin Told(newer)
    BY <1>2, <1>4 DEF Told
  <2>2. Told(newer) \subseteq 1 .. N
    BY DEF Told
  <2> HIDE DEF N
  <2> QED
    BY <1>4, <2>1, <2>2
<1>7. \A i \in 1 .. N - 1 : i \in Told(newer) <=> i + d \in Told(h)
  <2>1. TAKE i \in 1 .. N - 1
  <2>2. i \in 1 .. N /\ i + d \in 1 .. L /\ newer[i] = h[i + d]
    BY <1>4, <2>1
  <2> QED
    BY <2>2 DEF Told
<1>8. g.history = newer /\ g.lastTool = f.lastTool /\ g.repeat = f.repeat
  BY DEF newer
<1> HIDE DEF h, L, N
\* what is told in the new history was told in the old one, d places later
<1>9. \A q \in Told(newer) :
         /\ q \in 1 .. N - 1 /\ q + d \in Told(h) /\ q + d \in 1 .. L
         /\ newer[q] = h[q + d]
  BY <1>4, <1>6, <1>7
<1>10. \A q, p \in 1 .. N - 1 : Row(newer, q, p) = Row(h, q + d, p + d)
  <2>1. ASSUME NEW q \in 1 .. N - 1, NEW p \in 1 .. N - 1
        PROVE  Row(newer, q, p) = Row(h, q + d, p + d)
    <3>1. q \in Int /\ p \in Int /\ d \in Int /\ 1 <= q /\ p <= N - 1
      BY <1>4, <2>1
    <3>2. ASSUME NEW i \in q .. p PROVE i \in Told(newer) <=> i + d \in Told(h)
      <4>1. i \in 1 .. N - 1
        BY <1>4, <3>1, <3>2, SMTT(30)
      <4> QED
        BY <1>7, <4>1
    <3> QED
      BY <3>1, <3>2, RowMoved
  <2> QED
    BY <2>1
<1>11. Streak(g)
  <2>1. ~Pending(g) /\ Ahead(g) = 0 /\ Ahead(f) = 0
    BY DEF Pending, Ahead
  <2>2. ASSUME NEW q \in Told(newer)
        PROVE  Row(newer, q, N) = Row(h, q + d, L)
    <3>1. /\ q \in 1 .. N - 1 /\ N - 1 \in 1 .. N - 1 /\ (N - 1) + d = L
          /\ N - 1 \in Int /\ (N - 1) + 1 = N
      BY <1>4, <1>9, <2>2
    <3>2. Row(newer, q, N - 1) = Row(h, q + d, L)
      BY <1>10, <3>1
    <3>3. N \notin Told(newer)
      BY <1>4, <1>6
    <3>4. Row(newer, q, N) = Row(newer, q, N - 1) + 0
      BY <3>1, <3>3, RowNext
    <3>5. Row(newer, q, N - 1) \in Nat
      BY <3>1, RowNat
    <3> QED
      BY <3>2, <3>4, <3>5
  <2>3. f.repeat = 0 => Told(newer) = {}
    BY <1>9 DEF Streak, h
  <2>4. Streak(f) => \A q \in Told(h) :
          LET row == Row(h, q, L) + Ahead(f) IN
          /\ row <= f.repeat => h[q].key = f.lastTool
          /\ row = f.repeat + 1 /\ f.repeat < DoomLimit => h[q].key # f.lastTool
    BY DEF Streak, h, L
  <2>5. ASSUME NEW q \in Told(newer)
        PROVE LET row == Row(newer, q, N) + Ahead(g) IN
          /\ row <= g.repeat => newer[q].key = g.lastTool
          /\ row = g.repeat + 1 /\ g.repeat < DoomLimit => newer[q].key # g.lastTool
    BY <1>8, <1>9, <2>1, <2>2, <2>4
  <2> QED
    BY <1>8, <2>1, <2>3, <2>5 DEF Streak, N
<1>12. ASSUME NEW p \in Told(newer), Row(newer, 1, p) >= DoomLimit
       PROVE  (newer[p].res = "refused") <=>
                \A q \in Told(newer) :
                    q <= p /\ Row(newer, q, p) <= DoomLimit => newer[q].key = newer[p].key
  <2>1. /\ p \in 1 .. N - 1 /\ p + d \in Told(h) /\ p + d \in 1 .. L
        /\ newer[p] = h[p + d] /\ p \in Int /\ d \in Int
    BY <1>4, <1>9
  <2>2. Row(h, 1 + d, p + d) >= DoomLimit /\ Row(h, 1 + d, p + d) \in Nat
    <3>1. 1 \in 1 .. N - 1 /\ 1 + d \in Int /\ p + d \in Int
      BY <1>4, <2>1
    <3> QED
      BY <1>10, <1>12, <2>1, <3>1, RowNat
  <2>3. ASSUME NEW q \in Told(h), q <= p + d, Row(h, q, p + d) <= DoomLimit
        PROVE  q - d \in Told(newer) /\ q - d <= p /\ (q - d) + d = q
    <3>1. q \in 1 .. L /\ q \in Int /\ p + d \in Int
      BY <1>4, <1>5, <2>1, <2>3
    <3>2. CASE q <= d
      <4>1. Row(h, q, p + d) = Row(h, q + 1, p + d) + 1
        BY <2>3, <3>1, RowFirst
      <4>2. /\ q + 1 \in Int /\ 1 + d \in Int /\ q + 1 <= 1 + d
        BY <3>1, <3>2
      <4>3. Row(h, 1 + d, p + d) <= Row(h, q + 1, p + d)
        BY <3>1, <4>2, RowMonotone
      <4>4. Row(h, q + 1, p + d) \in Nat
        BY <3>1, <4>2, RowNat
      <4> QED
        BY <1>1, <2>2, <2>3, <4>1, <4>3, <4>4
    <3>3. CASE ~(q <= d)
      <4>1. q - d \in 1 .. N - 1 /\ (q - d) + d = q /\ q - d <= p
        BY <1>4, <2>1, <2>3, <3>1, <3>3
      <4> QED
        BY <1>7, <2>3, <4>1
    <3> QED
      BY <3>2, <3>3
  <2>4. Row(h, 1, p + d) >= DoomLimit
    <3>1. p + d \in Int /\ 1 + d \in Int /\ 1 <= 1 + d
      BY <2>1
    <3>2. Row(h, 1 + d, p + d) <= Row(h, 1, p + d) /\ Row(h, 1, p + d) \in Nat
      BY <3>1, RowMonotone, RowNat
    <3> QED
      BY <1>1, <2>2, <3>2
  <2>5. (h[p + d].res = "refused") <=>
          \A q \in Told(h) :
             q <= p + d /\ Row(h, q, p + d) <= DoomLimit => h[q].key = h[p + d].key
    BY <2>1, <2>4 DEF RefusesRepeats, h
  <2>6. ASSUME \A q \in Told(h) :
                 q <= p + d /\ Row(h, q, p + d) <= DoomLimit => h[q].key = h[p + d].key,
               NEW q \in Told(newer), q <= p, Row(newer, q, p) <= DoomLimit
        PROVE  newer[q].key = newer[p].key
    <3>1. /\ q \in 1 .. N - 1 /\ q + d \in Told(h) /\ newer[q] = h[q + d] /\ q + d <= p + d
      BY <1>9, <2>1, <2>6
    <3>2. Row(h, q + d, p + d) <= DoomLimit
      BY <1>10, <2>1, <2>6, <3>1
    <3> QED
      BY <2>1, <2>6, <3>1, <3>2
  <2>7. ASSUME \A q \in Told(newer) :
                 q <= p /\ Row(newer, q, p) <= DoomLimit => newer[q].key = newer[p].key,
               NEW q \in Told(h), q <= p + d, Row(h, q, p + d) <= DoomLimit
        PROVE  h[q].key = h[p + d].key
    <3>1. q - d \in Told(newer) /\ q - d <= p /\ (q - d) + d = q
      BY <2>3, <2>7
    <3>2. q - d \in 1 .. N - 1 /\ newer[q - d] = h[q]
      BY <1>9, <3>1
    <3>3. Row(newer, q - d, p) <= DoomLimit
      BY <1>10, <2>1, <2>7, <3>1, <3>2
    <3> QED
      BY <2>1, <2>7, <3>1, <3>2, <3>3
  <2> QED
    BY <2>1, <2>5, <2>6, <2>7
<1> QED
  BY <1>8, <1>11, <1>12 DEF RefusesRepeats

-----------------------------------------------------------------------------
(* The steps of the turn.                                                  *)

\* A run begins with the prompt, and nothing was asked or told.
LEMMA HistoryBegins ==
  ASSUME NEW limit PROVE HistoryOK(Frame(limit))
<1> DEFINE f == Frame(limit)
<1>1. /\ f.history = <<Prompt>> /\ f.at = "top" /\ f.calls = <<>> /\ f.ci = 1
      /\ f.results = <<>> /\ f.repeat = 0
  BY DEF Frame
<1>2. Told(<<Prompt>>) = {} /\ Asked(<<Prompt>>) = {}
  BY DEF Told, Asked, Prompt
<1> HIDE DEF f
<1>3. Ledger(f)
  BY <1>1, <1>2 DEF Ledger
<1>4. Streak(f)
  BY <1>1, <1>2 DEF Streak, Pending
<1>5. RefusesRepeats(f.history) /\ ReadsRan(f)
  BY <1>1, <1>2 DEF RefusesRepeats, ReadsRan
<1> QED
  BY <1>3, <1>4, <1>5 DEF HistoryOK, f

\* A call that was taken gets its reply.
LEMMA HistoryPushed ==
  ASSUME NEW f \in Frames, FrameOK(f), HistoryOK(f), Pending(f),
         NEW res \in Results \ {"refused"}, Pushed(f, res) \in Frames
  PROVE  HistoryOK(Pushed(f, res))
<1> DEFINE g == Pushed(f, res)
           m == Reply(f.iter, f.ci, f.calls[f.ci], res)
<1>1. f.ci <= Len(f.calls) /\ f.at \notin Between
  BY DEF FrameOK, Pending, Between
<1>2. /\ m \in Messages
      /\ g.at = "calls" /\ g.ci = f.ci + 1 /\ g.history = Append(f.history, m)
      /\ g.calls = f.calls /\ g.results = f.results /\ g.iter = f.iter
      /\ g.lastTool = f.lastTool /\ g.repeat = f.repeat
  BY <1>1, PushedParts
<1> HIDE DEF g
<1>3. Ledger(g)
  BY <1>1, <1>2, LedgerPushed DEF HistoryOK, g
<1>4. Streak(g) /\ RefusesRepeats(g.history)
  BY <1>2, StreakPushed DEF HistoryOK
<1>5. ReadsRan(g)
  BY <1>2 DEF ReadsRan, HistoryOK
<1> QED
  BY <1>3, <1>4, <1>5 DEF HistoryOK, g

LEMMA NewTop ==
  ASSUME StackOK, StackOK', stack # <<>>, NEW g, SetTop(g)
  PROVE  g \in Frames /\ FrameOK(g)
<1>1. Len(stack) \in Nat \ {0}
  BY DEF StackOK
<1>2. /\ Len(stack') = Len(stack) /\ stack'[Len(stack)] = g
  BY <1>1 DEF StackOK, SetTop
<1> QED
  BY <1>1, <1>2 DEF StackOK

LEMMA SetTopHistories ==
  ASSUME StackOK, stack # <<>>, HistoriesOK, NEW g, HistoryOK(g), SetTop(g)
  PROVE  HistoriesOK'
<1>1. Len(stack) \in Nat \ {0}
  BY DEF StackOK
<1>2. /\ Len(stack') = Len(stack)
      /\ \A n \in 1 .. Len(stack) :
            stack'[n] = IF n = Len(stack) THEN g ELSE stack[n]
  BY <1>1 DEF StackOK, SetTop
<1> QED
  BY <1>1, <1>2 DEF HistoriesOK

\* The innermost run and its history.
LEMMA TopHistory ==
  ASSUME StackOK, HistoriesOK, stack # <<>>
  PROVE  /\ top \in Frames /\ FrameOK(top) /\ HistoryOK(top)
         /\ DOMAIN top = {"at", "history", "limit", "iter", "calls", "ci",
                          "results", "lastTool", "repeat"}
<1>1. top \in Frames /\ FrameOK(top) /\ Len(stack) \in Nat \ {0}
  BY TopFrame
<1>2. HistoryOK(top)
  BY <1>1 DEF HistoriesOK, top
<1> QED
  BY <1>1, <1>2 DEF Frames

\* Moving on in the loop leaves the history alone.
LEMMA MovesKeepHistories ==
  ASSUME StackOK, StackOK', HistoriesOK,
         IterationStarts \/ WorkersJoined \/ CallsDone
  PROVE  HistoriesOK'
<1>1. stack # <<>>
  BY DEF IterationStarts, WorkersJoined, CallsDone, Running
<1>2. /\ top \in Frames /\ FrameOK(top) /\ HistoryOK(top)
      /\ DOMAIN top = {"at", "history", "limit", "iter", "calls", "ci",
                       "results", "lastTool", "repeat"}
  BY <1>1, TopHistory
<1>3. ReadsRan(top)
  BY <1>2 DEF HistoryOK
<1>4. CASE IterationStarts
  <2> DEFINE g == [top EXCEPT !.at = "request", !.iter = @ + 1]
  <2>1. top.at = "top" /\ SetTop(g)
    BY <1>4 DEF IterationStarts, Running
  <2>2. g \in Frames
    BY <1>1, <2>1, NewTop
  <2>3. /\ g.history = top.history /\ g.calls = top.calls /\ g.ci = top.ci
        /\ g.lastTool = top.lastTool /\ g.repeat = top.repeat
        /\ g.results = top.results /\ g.at = "request"
    BY <1>2
  <2> HIDE DEF g
  <2>4. HistoryOK(g)
    BY <1>2, <1>3, <2>1, <2>2, <2>3, HistoryStays DEF Pending, Between, ReadsRan
  <2> QED
    BY <1>1, <2>1, <2>4, SetTopHistories
<1>5. CASE WorkersJoined
  <2> DEFINE g == [top EXCEPT !.at = "calls"]
  <2>1. top.at = "workers" /\ SetTop(g)
    BY <1>5 DEF WorkersJoined, Running
  <2>2. g \in Frames
    BY <1>1, <2>1, NewTop
  <2>3. /\ g.history = top.history /\ g.calls = top.calls /\ g.ci = top.ci
        /\ g.lastTool = top.lastTool /\ g.repeat = top.repeat
        /\ g.results = top.results /\ g.at = "calls" /\ g.iter = top.iter
    BY <1>2
  <2> HIDE DEF g
  <2>4. HistoryOK(g)
    BY <1>2, <1>3, <2>1, <2>2, <2>3, HistoryStays DEF Pending, Between, ReadsRan
  <2> QED
    BY <1>1, <2>1, <2>4, SetTopHistories
<1>6. CASE CallsDone
  <2> DEFINE g == [top EXCEPT !.at = "top"]
  <2>1. top.at = "calls" /\ top.ci > Len(top.calls) /\ SetTop(g)
    BY <1>6 DEF CallsDone, Running
  <2>2. g \in Frames
    BY <1>1, <2>1, NewTop
  <2>3. /\ g.history = top.history /\ g.calls = top.calls /\ g.ci = top.ci
        /\ g.lastTool = top.lastTool /\ g.repeat = top.repeat
        /\ g.results = top.results /\ g.at = "top"
    BY <1>2
  <2> HIDE DEF g
  <2>4. HistoryOK(g)
    BY <1>2, <1>3, <2>1, <2>2, <2>3, HistoryStays DEF Pending, Between, ReadsRan
  <2> QED
    BY <1>1, <2>1, <2>4, SetTopHistories
<1> QED
  BY <1>4, <1>5, <1>6

\* The threads fill in the results of the reads, and refuse none.
LEMMA WorkersKeepHistories ==
  ASSUME StackOK, StackOK', HistoriesOK, Running("workers"),
         NEW c \in DOMAIN top.results,
         WorkerRuns(c) \/ \E v \in Verdicts : WorkerAnswered(c, v)
  PROVE  HistoriesOK'
<1>1. stack # <<>> /\ top.at = "workers"
  BY DEF Running
<1>2. /\ top \in Frames /\ FrameOK(top) /\ HistoryOK(top)
      /\ DOMAIN top = {"at", "history", "limit", "iter", "calls", "ci",
                       "results", "lastTool", "repeat"}
  BY <1>1, TopHistory
<1>3. PICK res \in {"asking", "done", "denied", "declined"} : SetResult(c, res)
  BY DEF WorkerRuns, WorkerAnswered
<1> DEFINE newer == [top.results EXCEPT ![c] = res]
           g == [top EXCEPT !.results = newer]
<1>4. SetTop(g)
  BY <1>3 DEF SetResult
<1>5. g \in Frames
  BY <1>1, <1>4, NewTop
<1>6. ASSUME NEW i \in 1 .. Len(newer) PROVE newer[i] # "refused"
  <2>1. i \in 1 .. Len(top.results) /\ newer[i] = IF i = c THEN res ELSE top.results[i]
    BY <1>2, <1>6 DEF Frames
  <2>2. top.results[i] # "refused"
    BY <1>2, <2>1 DEF HistoryOK, ReadsRan
  <2> QED
    BY <1>3, <2>1, <2>2
<1> HIDE DEF newer
<1>7. /\ g.history = top.history /\ g.calls = top.calls /\ g.ci = top.ci
      /\ g.lastTool = top.lastTool /\ g.repeat = top.repeat
      /\ g.results = newer /\ g.at = top.at /\ g.iter = top.iter
  BY <1>2
<1> HIDE DEF g
<1>8. HistoryOK(g)
  BY <1>1, <1>2, <1>5, <1>6, <1>7, HistoryStays DEF Pending, Between, ReadsRan
<1> QED
  BY <1>1, <1>4, <1>8, SetTopHistories

LEMMA AnswerKeepsHistories ==
  ASSUME StackOK, StackOK', HistoriesOK,
         NEW n \in 1 .. MaxCalls, NEW calls \in [1 .. n -> Keys], AnswerCalls(calls)
  PROVE  HistoriesOK'
<1>1. stack # <<>> /\ top.at = "request"
  BY DEF AnswerCalls, Running
<1>2. /\ top \in Frames /\ FrameOK(top) /\ HistoryOK(top)
      /\ DOMAIN top = {"at", "history", "limit", "iter", "calls", "ci",
                       "results", "lastTool", "repeat"}
  BY <1>1, TopHistory
<1>3. calls \in Seq(Keys) /\ Len(calls) = n /\ n \in Nat \ {0} /\ calls # <<>>
  BY AgentAssumption
<1> DEFINE m == Answer(top.iter, calls)
           h == Append(top.history, m)
           results == [c \in 1 .. Len(calls) |->
                        IF calls[c] \in ReadOnly THEN "running" ELSE "none"]
<1>4. m \in Messages
  BY <1>2, <1>3 DEF Answer, Messages, Frames
<1>5. PICK newer \in {h, Compacted(h)} :
        SetTop([top EXCEPT !.at = "workers", !.history = newer, !.calls = calls,
                           !.ci = 1, !.results = results])
  BY DEF AnswerCalls
<1>6. Len(results) = Len(calls) /\ \A c \in 1 .. Len(results) : results[c] # "refused"
  BY <1>3
<1> HIDE DEF results
<1> DEFINE g == [top EXCEPT !.at = "workers", !.history = newer, !.calls = calls,
                            !.ci = 1, !.results = results]
<1>7. /\ g.at = "workers" /\ g.history = newer /\ g.calls = calls /\ g.ci = 1
      /\ g.results = results /\ g.iter = top.iter
      /\ g.lastTool = top.lastTool /\ g.repeat = top.repeat
  BY <1>2
<1>8. SetTop(g)
  BY <1>5
<1> HIDE DEF g
<1>9. Ledger(g)
  BY <1>1, <1>2, <1>3, <1>4, <1>5, <1>7, LedgerAsked DEF HistoryOK
<1>10. Streak(g) /\ RefusesRepeats(g.history)
  BY <1>1, <1>2, <1>3, <1>4, <1>5, <1>7, StreakAsked DEF HistoryOK
<1>11. ReadsRan(g)
  BY <1>6, <1>7 DEF ReadsRan
<1> QED
  BY <1>1, <1>8, <1>9, <1>10, <1>11, SetTopHistories DEF HistoryOK

LEMMA RefusedKeepsHistories ==
  ASSUME StackOK, HistoriesOK, CallRefused
  PROVE  HistoriesOK'
<1> DEFINE f == [top EXCEPT !.repeat = Repeats]
           g == Pushed(f, "refused")
           m == Reply(top.iter, top.ci, top.calls[top.ci], "refused")
<1>1. stack # <<>> /\ top.at = "calls" /\ top.ci <= Len(top.calls) /\ Running("calls")
  BY DEF CallRefused, Running
<1>2. /\ top \in Frames /\ FrameOK(top) /\ HistoryOK(top)
      /\ DOMAIN top = {"at", "history", "limit", "iter", "calls", "ci",
                       "results", "lastTool", "repeat"}
  BY <1>1, TopHistory
<1>3. /\ Repeats = DoomLimit /\ Call = top.lastTool /\ SetTop(g)
  BY DEF CallRefused, Doomed
<1>4. top.repeat \in 0 .. DoomLimit /\ DoomLimit \in Nat \ {0, 1}
  BY <1>2, FrameParts, AgentAssumption
<1>5. top.repeat + 1 >= DoomLimit
  BY <1>3, <1>4 DEF Repeats
<1>6. /\ f \in Frames /\ f.at = "calls" /\ f.history = top.history
      /\ f.ci = top.ci /\ f.calls = top.calls /\ f.iter = top.iter
      /\ f.results = top.results /\ f.lastTool = top.lastTool
      /\ f.repeat = DoomLimit /\ f.limit = top.limit
  BY <1>1, <1>2, <1>3, <1>4, SMTT(30) DEF Frames
<1> HIDE DEF f
<1>7. FrameOK(f)
  BY <1>1, <1>2, <1>6 DEF FrameOK
<1>8. "refused" \in Results
  BY DEF Results
<1>9. /\ m \in Messages
      /\ g.at = "calls" /\ g.ci = top.ci + 1 /\ g.history = Append(top.history, m)
      /\ g.calls = top.calls /\ g.results = top.results /\ g.iter = top.iter
      /\ g.lastTool = top.lastTool /\ g.repeat = DoomLimit
  BY <1>1, <1>6, <1>7, <1>8, PushedParts
<1>10. g \in Frames
  <2>1. f.at \in {"calls", "exec", "ask", "child"} /\ f.ci <= Len(f.calls)
    BY <1>1, <1>6
  <2> QED
    BY <1>6, <1>7, <1>8, <2>1, PushedFrame
<1> HIDE DEF g
<1>11. Ledger(g)
  BY <1>1, <1>2, <1>8, <1>9, <1>10, LedgerPushed DEF HistoryOK, Between
<1>12. top.calls[top.ci] = top.lastTool
  BY <1>3 DEF Call
<1>13. Streak(g) /\ RefusesRepeats(g.history)
  BY <1>1, <1>2, <1>5, <1>9, <1>12, StreakRefused DEF HistoryOK
<1>14. ReadsRan(g)
  BY <1>2, <1>9 DEF ReadsRan, HistoryOK
<1> QED
  BY <1>1, <1>3, <1>11, <1>13, <1>14, SetTopHistories DEF HistoryOK

LEMMA TakenKeepsHistories ==
  ASSUME StackOK, StackOK', HistoriesOK, CallTaken
  PROVE  HistoriesOK'
<1> DEFINE t == Taken(top)
           f == [t EXCEPT !.at = "exec"]
           res == top.results[top.ci]
<1>1. stack # <<>> /\ top.at = "calls" /\ top.ci <= Len(top.calls) /\ Running("calls")
  BY DEF CallTaken, Running
<1>2. /\ top \in Frames /\ FrameOK(top) /\ HistoryOK(top)
      /\ DOMAIN top = {"at", "history", "limit", "iter", "calls", "ci",
                       "results", "lastTool", "repeat"}
  BY <1>1, TopHistory
<1>3. /\ t \in Frames /\ FrameOK(t)
      /\ t.history = top.history /\ t.ci = top.ci /\ t.calls = top.calls
      /\ t.iter = top.iter /\ t.results = top.results /\ t.limit = top.limit
      /\ t.lastTool = Call /\ t.repeat = Repeats /\ t.at = top.at
      /\ DOMAIN t = DOMAIN top
  BY <1>1, <1>2, TakenFrame DEF Taken
<1> HIDE DEF t
<1>4. /\ f \in Frames
      /\ f.history = top.history /\ f.ci = top.ci /\ f.calls = top.calls
      /\ f.iter = top.iter /\ f.results = top.results
      /\ f.lastTool = Call /\ f.repeat = Repeats /\ f.at = "exec" /\ f.limit = top.limit
  BY <1>2, <1>3 DEF Frames
<1> HIDE DEF f
<1>5. FrameOK(f)
  BY <1>1, <1>2, <1>4 DEF FrameOK
<1>6. Ledger(f)
  <2>1. Place(f) = Place(top)
    BY <1>4 DEF Place
  <2> QED
    BY <1>1, <1>2, <1>4, <2>1 DEF HistoryOK, Ledger, Between
<1>7. Streak(f)
  <2>1. ~(Call = top.lastTool /\ Repeats = DoomLimit)
    BY DEF CallTaken, Doomed
  <2> QED
    BY <1>1, <1>2, <1>4, <2>1, StreakTaken DEF HistoryOK, Repeats, Call
<1>8. HistoryOK(f)
  BY <1>2, <1>4, <1>6, <1>7 DEF HistoryOK, ReadsRan
<1>9. CASE Call \in ReadOnly
  <2>1. SetTop(Pushed(t, res))
    BY <1>9 DEF CallTaken, t
  <2>2. Pushed(t, res) = Pushed(f, res)
    BY <1>2, <1>3, <1>4 DEF Pushed, f
  <2>3. res \in Results \ {"refused"}
    <3>1. top.ci \in 1 .. Len(top.calls) /\ Len(top.results) = Len(top.calls)
      BY <1>1, <1>2 DEF FrameOK, Frames
    <3>2. res \in Results
      BY <1>1, <1>2, <1>9, <3>1, Finished DEF Call
    <3>3. res # "refused"
      BY <1>2, <3>1 DEF HistoryOK, ReadsRan
    <3> QED
      BY <3>2, <3>3
  <2>4. Pushed(f, res) \in Frames
    BY <1>1, <2>1, <2>2, NewTop
  <2>5. HistoryOK(Pushed(f, res))
    BY <1>4, <1>5, <1>8, <2>3, <2>4, HistoryPushed DEF Pending
  <2> QED
    BY <1>1, <2>1, <2>2, <2>5, SetTopHistories
<1>10. CASE Call \notin ReadOnly
  <2>1. SetTop(f)
    BY <1>10 DEF CallTaken, t, f
  <2> QED
    BY <1>1, <1>8, <2>1, SetTopHistories
<1> QED
  BY <1>9, <1>10

\* The results of a call that was executed, or could not be.
LEMMA PushKeepsHistories ==
  ASSUME StackOK, StackOK', HistoriesOK, stack # <<>>, top.at \in {"exec", "ask"},
         NEW res \in Results \ {"refused"}, SetTop(Pushed(top, res))
  PROVE  HistoriesOK'
<1>1. top \in Frames /\ FrameOK(top) /\ HistoryOK(top)
  BY TopHistory
<1>2. Pushed(top, res) \in Frames
  BY NewTop
<1>3. HistoryOK(Pushed(top, res))
  BY <1>1, <1>2, HistoryPushed DEF Pending
<1> QED
  BY <1>3, SetTopHistories

LEMMA ExecutionKeepsHistories ==
  ASSUME StackOK, StackOK', HistoriesOK,
         Execute \/ \E v \in Verdicts : UserAnswered(v)
  PROVE  HistoriesOK'
<1>1. stack # <<>> /\ top.at \in {"exec", "ask"}
  BY DEF Execute, UserAnswered, Running
<1>2. {"interrupted", "done", "denied", "declined"} \subseteq Results \ {"refused"}
  BY DEF Results
<1>3. CASE \E res \in {"interrupted", "done", "denied", "declined"} :
             SetTop(Pushed(top, res))
  BY <1>1, <1>2, <1>3, PushKeepsHistories
<1>4. CASE Running("exec") /\ SetTop([top EXCEPT !.at = "ask"])
  <2> DEFINE g == [top EXCEPT !.at = "ask"]
  <2>1. /\ top \in Frames /\ FrameOK(top) /\ HistoryOK(top)
        /\ DOMAIN top = {"at", "history", "limit", "iter", "calls", "ci",
                         "results", "lastTool", "repeat"}
    BY <1>1, TopHistory
  <2>2. top.at = "exec" /\ SetTop(g)
    BY <1>4 DEF Running
  <2>3. g \in Frames
    BY <1>1, <2>2, NewTop
  <2>4. /\ g.history = top.history /\ g.calls = top.calls /\ g.ci = top.ci
        /\ g.lastTool = top.lastTool /\ g.repeat = top.repeat
        /\ g.results = top.results /\ g.at = "ask" /\ g.iter = top.iter
    BY <2>1
  <2> HIDE DEF g
  <2>5. ReadsRan(g)
    BY <2>1, <2>4 DEF HistoryOK, ReadsRan
  <2>6. HistoryOK(g)
    BY <2>1, <2>2, <2>3, <2>4, <2>5, HistoryStays DEF Pending, Between
  <2> QED
    BY <1>1, <2>2, <2>6, SetTopHistories
<1>5. CASE Execute
  <2>1. \/ \E res \in {"interrupted", "done", "denied", "declined"} :
               SetTop(Pushed(top, res))
        \/ Running("exec") /\ SetTop([top EXCEPT !.at = "ask"])
    BY <1>5 DEF Execute
  <2> QED
    BY <1>3, <1>4, <2>1
<1>6. CASE \E v \in Verdicts : UserAnswered(v)
  BY <1>3, <1>6 DEF UserAnswered
<1> QED
  BY <1>5, <1>6

LEMMA TaskKeepsHistories ==
  ASSUME StackOK, StackOK', HistoriesOK, ExecuteTask
  PROVE  HistoriesOK'
<1>1. stack # <<>> /\ top.at = "exec"
  BY DEF ExecuteTask, Running
<1>2. /\ top \in Frames /\ FrameOK(top) /\ HistoryOK(top)
      /\ DOMAIN top = {"at", "history", "limit", "iter", "calls", "ci",
                       "results", "lastTool", "repeat"}
  BY <1>1, TopHistory
<1>3. CASE SetTop(Pushed(top, "error"))
  <2>1. "error" \in Results \ {"refused"}
    BY DEF Results
  <2> QED
    BY <1>1, <1>3, <2>1, PushKeepsHistories
<1>4. CASE stack' = Append([stack EXCEPT ![Len(stack)].at = "child"],
                           Frame(SubLimit(top.limit)))
  <2> DEFINE n == Len(stack)
             g == [top EXCEPT !.at = "child"]
             sub == Frame(SubLimit(top.limit))
             waiting == [stack EXCEPT ![n] = g]
  <2>1. n \in Nat \ {0} /\ stack \in Seq(Frames)
    BY <1>1 DEF StackOK
  <2>2. stack' = Append(waiting, sub)
    BY <1>4 DEF top
  <2>3. /\ g.history = top.history /\ g.calls = top.calls /\ g.ci = top.ci
        /\ g.lastTool = top.lastTool /\ g.repeat = top.repeat
        /\ g.results = top.results /\ g.at = "child" /\ g.iter = top.iter
        /\ g \in Frames
    BY <1>2 DEF Frames
  <2>4. HistoryOK(sub)
    BY HistoryBegins
  <2> HIDE DEF g, sub
  <2>5. ReadsRan(g)
    BY <1>2, <2>3 DEF HistoryOK, ReadsRan
  <2>6. HistoryOK(g)
    BY <1>1, <1>2, <2>3, <2>5, HistoryStays DEF Pending, Between
  <2>7. /\ waiting \in Seq(Frames) /\ Len(waiting) = n
        /\ \A i \in 1 .. n : waiting[i] = IF i = n THEN g ELSE stack[i]
    BY <2>1, <2>3
  <2> HIDE DEF n, waiting
  <2>8. /\ Len(stack') = n + 1
        /\ \A i \in 1 .. n + 1 : stack'[i] = IF i = n + 1 THEN sub ELSE waiting[i]
    BY <2>1, <2>2, <2>7
  <2>9. \A i \in 1 .. n : HistoryOK(stack[i])
    BY DEF HistoriesOK, n
  <2>10. ASSUME NEW i \in 1 .. n + 1 PROVE HistoryOK(stack'[i])
    <3>1. CASE i = n + 1
      BY <2>4, <2>8, <3>1
    <3>2. CASE i # n + 1
      <4>1. i \in 1 .. n
        BY <2>1, <3>2
      <4> QED
        BY <2>6, <2>7, <2>8, <2>9, <4>1
    <3> QED
      BY <3>1, <3>2
  <2> QED
    BY <2>8, <2>10 DEF HistoriesOK
<1> QED
  BY <1>3, <1>4 DEF ExecuteTask

LEMMA OneBefore ==
  ASSUME NEW n \in Nat \ {0}, n # 1
  PROVE  n - 1 \in 1 .. n /\ n - 1 \in Nat \ {0} /\ n - 1 < n
OBVIOUS

LEMMA ReturnKeepsHistories ==
  ASSUME StackOK, StackOK', HistoriesOK, stack # <<>>, NEW how, Return(how)
  PROVE  HistoriesOK'
<1>1. Len(stack) \in Nat \ {0}
  BY DEF StackOK
<1>2. CASE Len(stack) = 1
  <2>1. stack' = <<>>
    BY <1>2 DEF Return
  <2> QED
    BY <2>1 DEF HistoriesOK
<1>3. CASE Len(stack) # 1
  <2>0. /\ Len(stack) - 1 \in 1 .. Len(stack) /\ Len(stack) - 1 \in Nat \ {0}
        /\ Len(stack) - 1 < Len(stack)
    BY <1>1, <1>3, OneBefore, Zenon
  <2> DEFINE last == Len(stack) - 1
             res == IF how = "ok" THEN "done" ELSE "error"
             parent == stack[last]
             front == Front(stack)
  <2>1. last \in 1 .. Len(stack) /\ last < Len(stack) /\ last \in Nat \ {0}
    BY <2>0
  <2>2. parent \in Frames /\ FrameOK(parent) /\ parent.at = "child" /\ HistoryOK(parent)
    BY <2>1 DEF StackOK, HistoriesOK
  <2>3. res \in Results \ {"refused"}
    BY DEF Results
  <2>4. /\ front \in Seq(Frames) /\ Len(front) = last
        /\ \A n \in 1 .. last : front[n] = stack[n]
    BY <1>1, <2>1 DEF StackOK, Front
  <2>5. stack' = [front EXCEPT ![last] = Pushed(parent, res)]
    BY <1>3, Zenon DEF Return
  <2> HIDE DEF front, parent, res, last
  <2>6. /\ Len(stack') = last
        /\ \A n \in 1 .. last :
              stack'[n] = IF n = last THEN Pushed(parent, res) ELSE stack[n]
    BY <2>1, <2>4, <2>5
  <2>7. Pushed(parent, res) \in Frames
    BY <2>1, <2>6 DEF StackOK
  <2>8. HistoryOK(Pushed(parent, res))
    BY <2>2, <2>3, <2>7, HistoryPushed DEF Pending
  <2>9. \A n \in 1 .. last : HistoryOK(stack'[n])
    BY <2>1, <2>6, <2>8 DEF HistoriesOK
  <2> QED
    BY <2>6, <2>9 DEF HistoriesOK
<1> QED
  BY <1>2, <1>3

\* Every step keeps the histories of the open runs well kept.
LEMMA HistoryInvariant ==
  ASSUME StackOK, StackOK', HistoriesOK, [Next]_vars
  PROVE  HistoriesOK'
<1>1. CASE stack' = stack
  BY <1>1 DEF HistoriesOK
<1>2. CASE IterationStarts \/ WorkersJoined \/ CallsDone
  BY <1>2, MovesKeepHistories
<1>3. CASE RunStopped \/ IterationsUsedUp \/ RequestStopped \/ RequestFails \/ AnswerText
  BY <1>3, ReturnKeepsHistories
  DEF RunStopped, IterationsUsedUp, RequestStopped, RequestFails, AnswerText, Running
<1>4. CASE \E n \in 1 .. MaxCalls : \E calls \in [1 .. n -> Keys] : AnswerCalls(calls)
  BY <1>4, AnswerKeepsHistories
<1>5. CASE \E c \in 1 .. MaxCalls :
             /\ Running("workers") /\ c \in DOMAIN top.results
             /\ WorkerRuns(c) \/ \E v \in Verdicts : WorkerAnswered(c, v)
  BY <1>5, WorkersKeepHistories
<1>6. CASE CallRefused
  BY <1>6, RefusedKeepsHistories
<1>7. CASE CallTaken
  BY <1>7, TakenKeepsHistories
<1>8. CASE Execute \/ \E v \in Verdicts : UserAnswered(v)
  BY <1>8, ExecutionKeepsHistories
<1>9. CASE ExecuteTask
  BY <1>9, TaskKeepsHistories
<1>10. CASE (\E how \in {"interrupt", "estop"} : Stop(how)) \/ Resume \/ Over
            \/ UNCHANGED vars
  BY <1>1, <1>10 DEF Stop, Resume, Over, vars
<1> QED
  BY <1>2, <1>3, <1>4, <1>5, <1>6, <1>7, <1>8, <1>9, <1>10, NextCases

LEMMA HistoriesStayOK == Spec => [](StackOK /\ HistoriesOK)
<1>1. Init => HistoriesOK
  <2>1. ASSUME Init PROVE stack = <<Frame(MaxIterations)>>
    BY <2>1 DEF Init
  <2> QED
    BY <2>1, HistoryBegins DEF HistoriesOK
<1>2. TypeOK /\ TypeOK' /\ HistoriesOK /\ [Next]_vars => HistoriesOK'
  BY HistoryInvariant DEF TypeOK
<1>3. TypeOK => StackOK
  BY DEF TypeOK
<1> QED
  BY <1>1, <1>2, <1>3, TypeCorrect, PTL DEF Spec

\* Whatever the threads, refusals, questions, nested runs and compactions, the next
\* request is well formed: each call of each answer in it has its own reply, in
\* order and once.
THEOREM EachCallAnswered == Spec => []EveryCallAnswered
<1>1. StackOK /\ HistoriesOK => EveryCallAnswered
  <2> SUFFICES ASSUME StackOK, HistoriesOK, NEW n \in 1 .. Len(stack)
               PROVE  LET f == stack[n]
                          h == f.history
                          asked == {i \in 1 .. Len(h) : h[i].role = "assistant"}
                          replied(i) == IF i = Max(asked) THEN f.ci - 1
                                        ELSE Len(h[i].calls)
                      IN  /\ f.at \in {"top", "request"} => f.ci > Len(f.calls)
                          /\ f.calls # <<>> => asked # {} /\ h[Max(asked)].calls = f.calls
                          /\ \A i \in asked :
                              /\ i + replied(i) <= Len(h)
                              /\ i = Max(asked) => i + replied(i) = Len(h)
                              /\ \A j \in 1 .. replied(i) :
                                  /\ h[i + j].role = "tool"
                                  /\ h[i + j].iter = h[i].iter /\ h[i + j].call = j
                                  /\ h[i + j].key = h[i].calls[j]
    BY DEF EveryCallAnswered
  <2> DEFINE f == stack[n]
             h == f.history
             P == Place(f)
  <2>1. f \in Frames /\ FrameOK(f) /\ Ledger(f)
    BY DEF StackOK, HistoriesOK, HistoryOK
  <2>2. Len(h) \in Nat /\ f.ci \in Nat \ {0}
    BY <2>1, FrameParts
  <2> HIDE DEF f
  <2>3. Asked(h) = {i \in 1 .. Len(h) : h[i].role = "assistant"}
    BY DEF Asked
  <2>4. f.at \in {"top", "request"} => f.ci > Len(f.calls)
    BY <2>1 DEF Ledger, Between
  <2>5. CASE f.calls = <<>>
    <3>1. Asked(h) = {}
      BY <2>1, <2>5 DEF Ledger
    <3> QED
      BY <2>3, <2>4, <2>5, <3>1 DEF f
  <2>6. CASE f.calls # <<>>
    <3>1. /\ P \in Asked(h) /\ h[P].calls = f.calls
          /\ Followed(h, P, f.ci - 1)
          /\ \A i \in Asked(h) : i # P => i < P /\ Followed(h, i, Len(h[i].calls))
      BY <2>1, <2>6 DEF Ledger
    <3>2. P + (f.ci - 1) = Len(h) /\ P \in Int
      BY <2>2, PlaceSums DEF Place
    <3> HIDE DEF P
    <3>3. Max(Asked(h)) = P
      <4>1. Asked(h) \subseteq Int
        BY DEF Asked
      <4>2. \A y \in Asked(h) : P >= y
        BY <3>1, <3>2, <4>1
      <4>3. \A x \in Asked(h) : (\A y \in Asked(h) : x >= y) => x = P
        BY <3>1, <3>2, <4>1
      <4> QED
        BY <3>1, <4>2, <4>3 DEF Max
    <3> DEFINE replied(i) == IF i = P THEN f.ci - 1 ELSE Len(h[i].calls)
    <3>4. \A i \in Asked(h) : Followed(h, i, replied(i))
      BY <3>1
    <3>5. replied(P) = f.ci - 1
      OBVIOUS
    <3> HIDE DEF replied
    <3>6. \A i \in Asked(h) :
            /\ i + replied(i) <= Len(h)
            /\ i = P => i + replied(i) = Len(h)
            /\ \A j \in 1 .. replied(i) :
                /\ h[i + j].role = "tool"
                /\ h[i + j].iter = h[i].iter /\ h[i + j].call = j
                /\ h[i + j].key = h[i].calls[j]
      BY <3>2, <3>4, <3>5 DEF Followed
    <3>7. P = Max({i \in 1 .. Len(h) : h[i].role = "assistant"})
      BY <2>3, <3>3
    <3> DEFINE asked == {i \in 1 .. Len(h) : h[i].role = "assistant"}
    <3>8. asked # {} /\ h[P].calls = f.calls
      BY <2>3, <3>1
    <3>9. \A i \in asked :
            /\ i + replied(i) <= Len(h)
            /\ i = P => i + replied(i) = Len(h)
            /\ \A j \in 1 .. replied(i) :
                /\ h[i + j].role = "tool"
                /\ h[i + j].iter = h[i].iter /\ h[i + j].call = j
                /\ h[i + j].key = h[i].calls[j]
      BY <2>3, <3>6
    <3> QED
      BY <2>4, <3>7, <3>8, <3>9, Zenon DEF f, replied
  <2> QED
    BY <2>5, <2>6
<1> QED
  BY <1>1, HistoriesStayOK, PTL

\* A call that is made DoomLimit times in a row is refused, and nothing else is,
\* over the answers, threads, nested runs and compactions between them.
THEOREM RepeatsRefused == Spec => []IdenticalCallsAreRefused
<1>1. HistoriesOK => IdenticalCallsAreRefused
  BY DEF HistoriesOK, HistoryOK, IdenticalCallsAreRefused
<1> QED
  BY <1>1, HistoriesStayOK, PTL
=============================================================================
