------------------------------ MODULE AgentRun ------------------------------
(***************************************************************************)
(* One turn of the coding agent: agenttools::run and the tool calls it     *)
(* dispatches through executeTool (agent_tools_run.cpp).                   *)
(*                                                                         *)
(* A run asks the model, executes the calls of its answer and asks again,  *)
(* until the answer has no calls, the iterations are used up or the turn   *)
(* is interrupted.  The read-only calls of one answer run on threads of    *)
(* their own and are joined before the other calls run one after the       *)
(* other.  The "task" tool is a run inside the run, on the same thread:    *)
(* stack holds the open runs, the innermost last.                          *)
(*                                                                         *)
(* A call is known by its key, the tool's name with its arguments.         *)
(***************************************************************************)
EXTENDS Integers, FiniteSets, SequencesExt, FiniteSetsExt

CONSTANTS
    ReadOnly,       \* the keys of read-only calls, run in parallel
    Shell,          \* keys of shell commands, which look at the interrupt
    Files,          \* keys of the other tools that change something
    Tasks,          \* keys of the task tool
    Verdict,        \* what the trust policy says of a key: allow, ask or deny
    Covers,         \* the keys whose command starts with that of a key
    MaxIterations,  \* Config::maxIterations
    MinIterations,  \* the 3 of max(3, maxIterations - 2)
    MaxDepth,       \* Config::maxDepth
    DoomLimit,      \* the 3 of "++repeat >= 3"
    Keep,           \* the messages that survive a compaction, 6 in the code
    MaxCalls,       \* bound: calls in one answer
    MaxAnswers,     \* bound: answers with calls in the whole turn
    MaxOpen         \* bound: open runs, the innermost is asked for no task

Keys == ReadOnly \union Shell \union Files \union Tasks

ASSUME AgentAssumption ==
    /\ Verdict \in [Keys -> {"allow", "ask", "deny"}]
    /\ Covers \in [Keys -> SUBSET Keys]
    /\ \A k \in Keys : k \in Covers[k]
    /\ Shell \intersect (ReadOnly \union Tasks) = {}
    /\ MaxIterations \in Nat \ {0} /\ MinIterations \in Nat \ {0}
    /\ MaxDepth \in Nat /\ DoomLimit \in Nat \ {0, 1} /\ Keep \in Nat \ {0}
    /\ MaxCalls \in Nat \ {0} /\ MaxAnswers \in Nat /\ MaxOpen \in Nat \ {0}

VARIABLES
    stack,          \* the open runs
    sessionApproved,\* commands the user approved for the session ("a")
    runAllow,       \* commands approved for ever, as prefixes ("A")
    stop,           \* Esc or Ctrl+C, or the e-stop file
    outcome,        \* how the turn ended
    answers,        \* answers with calls so far
    said,           \* how often the user gave which answer for each key
    runs            \* how often a call with each key was executed

vars == <<stack, sessionApproved, runAllow, stop, outcome, answers, said, runs>>
control == <<stop, outcome, answers>>
consent == <<sessionApproved, runAllow, said>>

-----------------------------------------------------------------------------
(* The messages of a history and the frame of an open run.                 *)

NoKey == "none"
Prompt == [role |-> "user"]
Answer(i, calls) == [role |-> "assistant", iter |-> i, calls |-> calls]
Reply(i, ci, key, res) ==
    [role |-> "tool", iter |-> i, call |-> ci, key |-> key, res |-> res]

\* What a user may answer to a question.
Verdicts == {"decline", "once", "session", "always"}

Results == {"done", "refused", "denied", "declined", "interrupted", "error"}
Unfinished == {"none", "running", "asking"}

Messages ==
    {Prompt}
      \union [role : {"assistant"}, iter : Nat, calls : Seq(Keys)]
      \union [role : {"tool"}, iter : Nat, call : Nat, key : Keys, res : Results]

Frames ==
    [at : {"top", "request", "workers", "calls", "exec", "ask", "child"},
     history : Seq(Messages), limit : Nat \ {0}, iter : Nat,
     calls : Seq(Keys), ci : Nat \ {0},
     results : Seq(Results \union Unfinished),
     lastTool : Keys \union {NoKey}, repeat : 0 .. DoomLimit]

Frame(limit) ==
    [at |-> "top", history |-> <<Prompt>>, limit |-> limit, iter |-> 0,
     calls |-> <<>>, ci |-> 1, results |-> <<>>, lastTool |-> NoKey,
     repeat |-> 0]

top == stack[Len(stack)]
Running(where) == stack # <<>> /\ top.at = where
SetTop(f) == stack' = [stack EXCEPT ![Len(stack)] = f]
Call == top.calls[top.ci]

\* The reply of the current call, which ends it.
Pushed(f, res) ==
    [f EXCEPT !.at = "calls", !.ci = @ + 1,
              !.history = Append(@, Reply(f.iter, f.ci, f.calls[f.ci], res))]

\* A frame by itself: inside its iterations and its calls, with no read left
\* unfinished once they were joined.
FrameOK(f) ==
    /\ f.iter <= f.limit
    /\ Len(f.results) = Len(f.calls)
    /\ f.ci <= Len(f.calls) + 1
    /\ f.at \in {"exec", "ask", "child"} => f.ci <= Len(f.calls)
    /\ f.at = "workers" => f.ci = 1
    /\ \A c \in 1 .. Len(f.calls) :
        /\ f.calls[c] \in ReadOnly <=> f.results[c] # "none"
        /\ f.at # "workers" => f.results[c] \notin {"running", "asking"}

\* Every open run but the innermost waits for the run inside it.
StackOK ==
    /\ stack \in Seq(Frames)
    /\ \A n \in 1 .. Len(stack) :
        /\ FrameOK(stack[n])
        /\ (stack[n].at = "child") <=> (n < Len(stack))

TypeOK ==
    /\ StackOK
    /\ sessionApproved \subseteq Keys /\ runAllow \subseteq Keys
    /\ stop \in {"no", "interrupt", "estop"}
    /\ outcome \in {"running", "ok", "error", "interrupted"}
    /\ answers \in 0 .. MaxAnswers
    /\ said \in [Keys -> [Verdicts -> Nat]]
    /\ runs \in [Keys -> Nat]

Init ==
    /\ stack = <<Frame(MaxIterations)>>
    /\ sessionApproved = {}
    /\ runAllow = {}
    /\ stop = "no"
    /\ outcome = "running"
    /\ answers = 0
    /\ said = [k \in Keys |-> [v \in Verdicts |-> 0]]
    /\ runs = [k \in Keys |-> 0]

-----------------------------------------------------------------------------
(* The loop of run(): interrupts, the request and its answer.              *)

\* run() returns; a nested run's result is the reply of the task call.
Return(how) ==
    IF Len(stack) = 1
    THEN stack' = <<>> /\ outcome' = how
    ELSE /\ stack' = [Front(stack) EXCEPT ![Len(stack) - 1] =
               Pushed(stack[Len(stack) - 1], IF how = "ok" THEN "done" ELSE "error")]
         /\ UNCHANGED outcome

\* Seeded fault: "iter <= maxIterations".
IterationStartsOnceMore ==
    /\ Running("top")
    /\ top.iter <= top.limit
    /\ stop = "no"
    /\ SetTop([top EXCEPT !.at = "request", !.iter = @ + 1])
    /\ UNCHANGED <<control, consent, runs>>

IterationStarts ==
    /\ Running("top")
    /\ top.iter < top.limit
    /\ stop = "no"
    /\ SetTop([top EXCEPT !.at = "request", !.iter = @ + 1])
    /\ UNCHANGED <<control, consent, runs>>

RunStopped ==
    /\ Running("top")
    /\ top.iter < top.limit
    /\ stop # "no"
    /\ Return("interrupted")
    /\ UNCHANGED <<stop, answers, consent, runs>>

IterationsUsedUp ==
    /\ Running("top")
    /\ top.iter = top.limit
    /\ Return("error")
    /\ UNCHANGED <<stop, answers, consent, runs>>

\* A streamed request looks at the interrupt again when it ends; a plain one,
\* made when no tokens are wanted or the stream was cut, does not.
RequestStopped ==
    /\ Running("request")
    /\ stop = "interrupt"
    /\ Return("interrupted")
    /\ UNCHANGED <<stop, answers, consent, runs>>

\* Three attempts failed, or an answer was not JSON.
RequestFails ==
    /\ Running("request")
    /\ Return("error")
    /\ UNCHANGED <<stop, answers, consent, runs>>

AnswerText ==
    /\ Running("request")
    /\ Return("ok")
    /\ UNCHANGED <<stop, answers, consent, runs>>

Newest(h, n) == IF Len(h) <= n THEN h ELSE SubSeq(h, Len(h) - n + 1, Len(h))

\* Seeded fault: the compaction drops the newest message as well.
CompactedTooFar(h) == Newest(Front(h), Keep)

\* A history over the threshold is cut to its last messages.  The summary in
\* front of them, there unless its request failed, is a user's message like the
\* prompt and left out.
Compacted(h) == Newest(h, Keep)

AnswerCalls(calls) ==
    /\ Running("request")
    /\ answers < MaxAnswers
    /\ Len(stack) = MaxOpen => \A c \in DOMAIN calls : calls[c] \notin Tasks
    /\ answers' = answers + 1
    /\ LET h == Append(top.history, Answer(top.iter, calls)) IN
       \E newer \in {h, Compacted(h)} :
         SetTop([top EXCEPT
            !.at = "workers", !.history = newer, !.calls = calls, !.ci = 1,
            !.results = [c \in 1 .. Len(calls) |->
                IF calls[c] \in ReadOnly THEN "running" ELSE "none"]])
    /\ UNCHANGED <<stop, outcome, consent, runs>>

-----------------------------------------------------------------------------
(* Asking the user: verdictConfirm, shared by a run and the runs inside it, *)
(* since a nested run is given its parent's as the callback.               *)

Approved(k) ==
    k \in sessionApproved \/ \E p \in runAllow : k \in Covers[p]

MustAsk(k) == Verdict[k] = "ask" /\ ~Approved(k)
MayRun(k) == Verdict[k] = "allow" \/ (Verdict[k] = "ask" /\ Approved(k))

\* Seeded fault: an answer for this once is kept for the session.
UserSaysOnceKept(k, v) ==
    /\ said' = [said EXCEPT ![k][v] = @ + 1]
    /\ sessionApproved' = sessionApproved \union
                            (IF v \in {"once", "session"} THEN {k} ELSE {})
    /\ runAllow' = runAllow \union (IF v = "always" THEN {k} ELSE {})

UserSays(k, v) ==
    /\ said' = [said EXCEPT ![k][v] = @ + 1]
    /\ sessionApproved' = sessionApproved \union
                            (IF v = "session" THEN {k} ELSE {})
    /\ runAllow' = runAllow \union (IF v = "always" THEN {k} ELSE {})

Executed(k, res) ==
    runs' = IF res = "done" THEN [runs EXCEPT ![k] = @ + 1] ELSE runs

-----------------------------------------------------------------------------
(* The threads of the read-only calls.                                     *)

SetResult(c, res) == SetTop([top EXCEPT !.results[c] = res])

WorkerRuns(c) ==
    /\ Running("workers") /\ top.results[c] = "running"
    /\ LET k == top.calls[c]
           res == IF MustAsk(k) THEN "asking" ELSE
                  IF MayRun(k) THEN "done" ELSE "denied" IN
        SetResult(c, res) /\ Executed(k, res)
    /\ UNCHANGED <<control, consent>>

WorkerAnswered(c, v) ==
    /\ Running("workers") /\ top.results[c] = "asking"
    /\ UserSays(top.calls[c], v)
    /\ LET res == IF v = "decline" THEN "declined" ELSE "done" IN
        SetResult(c, res) /\ Executed(top.calls[c], res)
    /\ UNCHANGED control

WorkersJoined ==
    /\ Running("workers")
    /\ \A c \in DOMAIN top.results : top.results[c] \notin {"running", "asking"}
    /\ SetTop([top EXCEPT !.at = "calls"])
    /\ UNCHANGED <<control, consent, runs>>

-----------------------------------------------------------------------------
(* The calls of an answer in their order: the doom-loop check, and the     *)
(* execution of what was not read-only.                                    *)

\* How often the call was made in a row; more than DoomLimit is not told apart.
Repeats ==
    IF Call # top.lastTool THEN 1
    ELSE IF top.repeat < DoomLimit THEN top.repeat + 1 ELSE DoomLimit

Doomed == Call = top.lastTool /\ Repeats = DoomLimit

CallsDone ==
    /\ Running("calls") /\ top.ci > Len(top.calls)
    /\ SetTop([top EXCEPT !.at = "top"])
    /\ UNCHANGED <<control, consent, runs>>

\* Seeded fault: the loop goes on to the same call.
CallRefusedAgain ==
    /\ Running("calls") /\ top.ci <= Len(top.calls)
    /\ Doomed
    /\ SetTop([top EXCEPT !.repeat = Repeats])
    /\ UNCHANGED <<control, consent, runs>>

CallRefused ==
    /\ Running("calls") /\ top.ci <= Len(top.calls)
    /\ Doomed
    /\ SetTop(Pushed([top EXCEPT !.repeat = Repeats], "refused"))
    /\ UNCHANGED <<control, consent, runs>>

\* Seeded fault: the count of a new call starts at nothing.
TakenLate(f) ==
    [f EXCEPT !.repeat = IF Call = f.lastTool THEN Repeats ELSE 0,
              !.lastTool = Call]

Taken(f) == [f EXCEPT !.repeat = Repeats, !.lastTool = Call]

CallTaken ==
    /\ Running("calls") /\ top.ci <= Len(top.calls)
    /\ ~Doomed
    /\ SetTop(IF Call \in ReadOnly
              THEN Pushed(Taken(top), top.results[top.ci])
              ELSE [Taken(top) EXCEPT !.at = "exec"])
    /\ UNCHANGED <<control, consent, runs>>

\* Seeded fault: a command does not look at the interrupt.
ExecuteUnheeding ==
    /\ Running("exec") /\ Call \notin Tasks
    /\ IF MustAsk(Call)
       THEN SetTop([top EXCEPT !.at = "ask"]) /\ UNCHANGED runs
       ELSE LET res == IF MayRun(Call) THEN "done" ELSE "denied" IN
            SetTop(Pushed(top, res)) /\ Executed(Call, res)
    /\ UNCHANGED <<control, consent>>

\* A shell command is not started any more after an interrupt; the other tools
\* look only at the trust policy.
Execute ==
    /\ Running("exec") /\ Call \notin Tasks
    /\ IF Call \in Shell /\ stop = "interrupt"
       THEN SetTop(Pushed(top, "interrupted")) /\ UNCHANGED runs
       ELSE IF MustAsk(Call)
       THEN SetTop([top EXCEPT !.at = "ask"]) /\ UNCHANGED runs
       ELSE LET res == IF MayRun(Call) THEN "done" ELSE "denied" IN
            SetTop(Pushed(top, res)) /\ Executed(Call, res)
    /\ UNCHANGED <<control, consent>>

UserAnswered(v) ==
    /\ Running("ask")
    /\ UserSays(Call, v)
    /\ LET res == IF v = "decline" THEN "declined" ELSE "done" IN
        SetTop(Pushed(top, res)) /\ Executed(Call, res)
    /\ UNCHANGED control

\* The depth executeTool is given, by run() at every level.
Depth == 0

SubLimit(n) == IF n - 2 > MinIterations THEN n - 2 ELSE MinIterations

ExecuteTask ==
    /\ Running("exec") /\ Call \in Tasks
    /\ IF Depth >= MaxDepth
       THEN SetTop(Pushed(top, "error"))
       ELSE stack' = Append([stack EXCEPT ![Len(stack)].at = "child"],
                            Frame(SubLimit(top.limit)))
    /\ UNCHANGED <<control, consent, runs>>

-----------------------------------------------------------------------------
(* The user and the rest of the program.                                   *)

Stop(how) ==
    /\ stack # <<>> /\ stop = "no"
    /\ stop' = how
    /\ UNCHANGED <<stack, outcome, answers, consent, runs>>

\* "agent resume" removes the e-stop file.
Resume ==
    /\ stop = "estop"
    /\ stop' = "no"
    /\ UNCHANGED <<stack, outcome, answers, consent, runs>>

TurnStep ==
    \/ IterationStarts \/ RunStopped \/ IterationsUsedUp
    \/ RequestStopped \/ RequestFails \/ AnswerText
    \/ \E n \in 1 .. MaxCalls : \E calls \in [1 .. n -> Keys] : AnswerCalls(calls)
    \/ \E c \in 1 .. MaxCalls :
        /\ Running("workers") /\ c \in DOMAIN top.results
        /\ WorkerRuns(c) \/ \E v \in Verdicts : WorkerAnswered(c, v)
    \/ WorkersJoined \/ CallsDone \/ CallRefused \/ CallTaken \/ Execute
    \/ \E v \in Verdicts : UserAnswered(v)
    \/ ExecuteTask

Over == stack = <<>> /\ UNCHANGED vars

Next == TurnStep \/ (\E how \in {"interrupt", "estop"} : Stop(how)) \/ Resume \/ Over

Spec == Init /\ [][Next]_vars

\* The turn's threads are scheduled, a request ends (the HTTP client has a
\* timeout of 120 s), a tool ends (a shell command has a timeout) and the user
\* answers a question that is asked.
FairSpec == Spec /\ WF_vars(TurnStep)

-----------------------------------------------------------------------------
(* Properties.                                                             *)

\* What the next request carries is well formed: each call of each answer in
\* the history is followed by its own reply, in order and once - over the
\* parallel reads, refusals, declined calls, nested runs and compactions.
EveryCallAnswered ==
    \A n \in 1 .. Len(stack) :
      LET f == stack[n]
          h == f.history
          asked == {i \in 1 .. Len(h) : h[i].role = "assistant"}
          replied(i) == IF i = Max(asked) THEN f.ci - 1 ELSE Len(h[i].calls) IN
      /\ f.at \in {"top", "request"} => f.ci > Len(f.calls)
      /\ f.calls # <<>> => asked # {} /\ h[Max(asked)].calls = f.calls
      /\ \A i \in asked :
          /\ i + replied(i) <= Len(h)
          /\ i = Max(asked) => i + replied(i) = Len(h)
          /\ \A j \in 1 .. replied(i) :
              /\ h[i + j].role = "tool"
              /\ h[i + j].iter = h[i].iter /\ h[i + j].call = j
              /\ h[i + j].key = h[i].calls[j]

\* The places of the replies in h, and how many there are from q to p.
Told(h) == {i \in 1 .. Len(h) : h[i].role = "tool"}
Row(h, q, p) == Cardinality(Told(h) \intersect q .. p)

\* Of DoomLimit replies in a row to one and the same call the last is a refusal,
\* and nothing is refused unless it was repeated so often.
RefusesRepeats(h) ==
    \A p \in Told(h) : Row(h, 1, p) >= DoomLimit =>
        ((h[p].res = "refused") <=>
            \A q \in Told(h) : q <= p /\ Row(h, q, p) <= DoomLimit => h[q].key = h[p].key)

\* "the same tool+args three times in a row is a stuck agent": the third is
\* refused, and only it, across answers, threads, nested runs and compactions.
IdenticalCallsAreRefused ==
    \A n \in 1 .. Len(stack) : RefusesRepeats(stack[n].history)

\* A call the policy wants a question for was executed at most as often as the
\* user said yes to it, unless one answer was for the session or for ever: over
\* the threads that ask at the same time and the runs inside the run.
RunsWereApproved ==
    \A k \in Keys : Verdict[k] = "ask" =>
        \/ said[k]["session"] > 0
        \/ \E p \in Keys : said[p]["always"] > 0 /\ k \in Covers[p]
        \/ runs[k] <= said[k]["once"]

\* Once the turn was interrupted, no shell command is executed except one
\* whose question was already on the screen, in whatever run it is called.
NoCommandAfterInterrupt ==
    [][\A k \in Shell :
         stop = "interrupt" /\ runs'[k] > runs[k] => Running("ask")]_vars

\* An interrupted turn ends, whatever it was doing and however deep.
InterruptEndsTurn == (stop = "interrupt") ~> (outcome # "running")

\* Config::maxDepth: "subagent nesting limit".
DepthIsLimited == Len(stack) <= MaxDepth + 1
=============================================================================
