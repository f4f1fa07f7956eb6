----------------------------- MODULE TuiAgents ------------------------------
(***************************************************************************)
(* The agents of the terminal interface: /agent (launchMatrixAgent of       *)
(* src/demo_tui.cpp and run of src/matrix_agent.cpp), /agent-code and /llm  *)
(* (src/cmd_tui_commands.cpp).  Each runs on a detached thread; Esc sets    *)
(* one flag for all of them, which a launch takes back.                     *)
(*                                                                         *)
(* What a run of the coding agent does inside is AgentRun; here both agents *)
(* ask the model, use tools and ask again, and what the library does with   *)
(* an answer (progressive-core) is one of three outcomes.                   *)
(***************************************************************************)
EXTENDS Integers, Sequences

CONSTANTS
    MaxRuns,        \* bound on the runs
    MaxIterations,  \* answers a run may ask for
    MaxKeys         \* bound on the presses of Esc

TuiAgentsAssumption == {MaxRuns, MaxKeys} \subseteq Nat /\ MaxIterations \in Nat \ {0}

Kinds == {"agent", "code", "llm"}
Guarded == {"agent", "code"}      \* the kinds with a busy flag
Ids == 1..MaxRuns

VARIABLES
    runs,      \* the threads, in the order of their start
    busy,      \* agentBusy, agentCodeBusy
    esc,       \* g_agentInterrupt
    quit,      \* Ctrl+C: g_interrupted is false, the interface closes
    chat,      \* each run's answers in the chat
    sent,      \* what the tools did on the server: messages and rooms
    session,   \* the client is logged in
    keys,      \* presses of Esc so far
    refused    \* a command was refused as busy while the runs of its kind went on

vars == <<runs, busy, esc, quit, chat, sent, session, keys, refused>>

Init ==
    /\ runs = <<>> /\ busy = [k \in Guarded |-> FALSE]
    /\ esc = FALSE /\ quit = FALSE /\ chat = [i \in Ids |-> 0] /\ sent = {} /\ session \in BOOLEAN
    /\ keys = 0 /\ refused = [k \in Guarded |-> FALSE]

Live(k) == { i \in DOMAIN runs : runs[i].kind = k /\ runs[i].at # "ended" }
Started(k) == [kind |-> k, at |-> IF k = "llm" THEN "asked" ELSE "top", iteration |-> 0,
               told |-> {}, stop |-> FALSE]

-----------------------------------------------------------------------------
(* The interface's thread. *)

\* Seeded fault: the flag is set by the thread, once it runs.
LaunchLate(k) ==
    /\ ~ quit /\ Len(runs) < MaxRuns /\ k \in Guarded
    /\ ~ busy[k]
    /\ runs' = Append([i \in DOMAIN runs |-> [runs[i] EXCEPT !.stop = FALSE]], Started(k))
    /\ esc' = FALSE
    /\ UNCHANGED <<busy, quit, chat, sent, session, keys, refused>>

\* A run starts and takes back an Esc.
Launch(k) ==
    /\ ~ quit /\ Len(runs) < MaxRuns /\ k \in Guarded
    /\ ~ busy[k] /\ busy' = [busy EXCEPT ![k] = TRUE]
    /\ runs' = Append([i \in DOMAIN runs |-> [runs[i] EXCEPT !.stop = FALSE]], Started(k))
    /\ esc' = FALSE
    /\ UNCHANGED <<quit, chat, sent, session, keys, refused>>

\* "agent busy": the refused command frees the flag of the run that goes on.
Refuse(k) ==
    /\ ~ quit /\ k \in Guarded
    /\ busy[k] /\ busy' = [busy EXCEPT ![k] = FALSE]
    /\ refused' = [refused EXCEPT ![k] = Live(k) # {}]
    /\ UNCHANGED <<runs, esc, quit, chat, sent, session, keys>>

\* /llm: one request, as many at once as the user likes.
LaunchLlm ==
    /\ ~ quit /\ Len(runs) < MaxRuns
    /\ runs' = Append(runs, Started("llm"))
    /\ UNCHANGED <<busy, esc, quit, chat, sent, session, keys, refused>>

\* Esc concerns every agent that runs.
Esc ==
    /\ ~ quit /\ keys < MaxKeys /\ keys' = keys + 1
    /\ esc' = TRUE
    /\ runs' = [i \in DOMAIN runs |-> [runs[i] EXCEPT !.stop = runs[i].kind \in Guarded]]
    /\ UNCHANGED <<busy, quit, chat, sent, session, refused>>

Quit ==
    /\ ~ quit /\ quit' = TRUE
    /\ UNCHANGED <<runs, busy, esc, chat, sent, session, keys, refused>>

-----------------------------------------------------------------------------
(* A run's thread. *)

At(i, place) == i \in DOMAIN runs /\ runs[i].at = place

\* The last thing a run does: its answer, or its error, goes to the chat and the flag is
\* freed, whoever set it.
Ends(i) ==
    /\ chat' = [chat EXCEPT ![i] = @ + 1]
    /\ busy' = IF runs[i].kind \in Guarded THEN [busy EXCEPT ![runs[i].kind] = FALSE] ELSE busy
    /\ refused' = IF runs[i].kind \in Guarded /\ Live(runs[i].kind) = {i}
                  THEN [refused EXCEPT ![runs[i].kind] = FALSE] ELSE refused

\* Seeded fault: the run that obeys an Esc takes it back.
StopsAndForgets(i) ==
    /\ At(i, "top")
    /\ runs[i].iteration = MaxIterations \/ quit \/ esc
    /\ runs' = [runs EXCEPT ![i].at = "ended"]
    /\ esc' = FALSE
    /\ Ends(i)
    /\ UNCHANGED <<quit, sent, session, keys>>

\* Before each request: enough answers, Ctrl+C or Esc end the run.
Stops(i) ==
    /\ At(i, "top")
    /\ runs[i].iteration = MaxIterations \/ quit \/ esc
    /\ runs' = [runs EXCEPT ![i].at = "ended"]
    /\ Ends(i)
    /\ UNCHANGED <<esc, quit, sent, session, keys>>

Ask(i) ==
    /\ At(i, "top")
    /\ runs[i].iteration < MaxIterations /\ ~ quit /\ ~ esc
    /\ runs' = [runs EXCEPT ![i].at = "asked"]
    /\ UNCHANGED <<busy, esc, quit, chat, sent, session, keys, refused>>

\* llmCall: no answer (a failed request, no content, only reasoning, not JSON), or one.
Fails(i) ==
    /\ At(i, "asked")
    /\ runs' = [runs EXCEPT ![i].at = "ended"]
    /\ Ends(i)
    /\ UNCHANGED <<esc, quit, sent, session, keys>>

FinalAnswer(i) ==
    /\ At(i, "asked")
    /\ runs' = [runs EXCEPT ![i].at = "ended", ![i].iteration = @ + 1]
    /\ Ends(i)
    /\ UNCHANGED <<esc, quit, sent, session, keys>>

CallsTool(i) ==
    /\ At(i, "asked") /\ runs[i].kind # "llm"
    /\ runs' = [runs EXCEPT ![i].at = "tool", ![i].iteration = @ + 1]
    /\ UNCHANGED <<busy, esc, quit, chat, sent, session, keys, refused>>

\* A run and the answer of it that made the call.
Call(i) == <<i, runs[i].iteration>>

\* executeTool, for the tools that only read, and for arguments it cannot use.
ReadTool(i) ==
    /\ At(i, "tool")
    /\ runs' = [runs EXCEPT ![i].at = "top"]
    /\ UNCHANGED <<busy, esc, quit, chat, sent, session, keys, refused>>

\* send_message and the like: without a session nothing is sent; a request may have been
\* obeyed though its answer is an error.
SendTool(i) ==
    \E obeyed, ok \in BOOLEAN :
        /\ At(i, "tool")
        /\ ok => obeyed
        /\ (obeyed \/ ok) => session
        /\ sent' = IF obeyed THEN sent \cup {<<"message", Call(i)>>} ELSE sent
        /\ runs' = [runs EXCEPT ![i].at = "top",
                        ![i].told = IF ok THEN @ \cup {<<"message", Call(i)>>} ELSE @]
        /\ UNCHANGED <<busy, esc, quit, chat, session, keys, refused>>

\* Seeded fault: a room is taken for its message.
DirectToolRoomOnly(i) ==
    /\ At(i, "tool") /\ session
    /\ sent' = sent \cup {<<"room", Call(i)>>}
    /\ runs' = [runs EXCEPT ![i].at = "top",
                    ![i].told = @ \cup {<<"room", Call(i)>>, <<"message", Call(i)>>}]
    /\ UNCHANGED <<busy, esc, quit, chat, session, keys, refused>>

\* send_direct_message: a room first, then the message; the room stays when the message fails.
DirectTool(i) ==
    \E room, message \in BOOLEAN :
        /\ At(i, "tool") /\ session
        /\ message => room
        /\ sent' = sent \cup (IF room THEN {<<"room", Call(i)>>} ELSE {})
                        \cup (IF message THEN {<<"message", Call(i)>>} ELSE {})
        /\ runs' = [runs EXCEPT ![i].at = "top",
                        ![i].told = IF message THEN @ \cup {<<"room", Call(i)>>, <<"message", Call(i)>>}
                                    ELSE @]
        /\ UNCHANGED <<busy, esc, quit, chat, session, keys, refused>>

RunStep(i) ==
    \/ Stops(i) \/ Ask(i) \/ Fails(i) \/ FinalAnswer(i) \/ CallsTool(i)
    \/ ReadTool(i) \/ SendTool(i) \/ DirectTool(i)

Next ==
    \/ \E k \in Guarded : Launch(k) \/ Refuse(k)
    \/ LaunchLlm \/ Esc \/ Quit
    \/ \E i \in Ids : RunStep(i)

Spec == Init /\ [][Next]_vars

-----------------------------------------------------------------------------
(* Properties. *)

\* Type invariant.
TypeOK ==
    /\ \A i \in DOMAIN runs :
          /\ runs[i].kind \in Kinds /\ runs[i].at \in {"top", "asked", "tool", "ended"}
          /\ runs[i].iteration \in 0..MaxIterations /\ runs[i].stop \in BOOLEAN
          /\ runs[i].told \subseteq {"room", "message"} \X (Ids \X (1..MaxIterations))
    /\ Len(runs) <= MaxRuns
    /\ busy \in [Guarded -> BOOLEAN] /\ refused \in [Guarded -> BOOLEAN]
    /\ {esc, quit, session} \subseteq BOOLEAN /\ keys \in 0..MaxKeys
    /\ chat \in [Ids -> 0..2] /\ sent \subseteq {"room", "message"} \X (Ids \X (1..MaxIterations))

\* There are two runs of one kind at once only where a command was refused while one of them
\* went on.
OneOfAKind == \A k \in Guarded : \A i, j \in Live(k) : i # j => refused[k]

\* What a run was told it sent, it sent; and no run sends anything without a session.
ToldIsSent ==
    /\ \A i \in DOMAIN runs : runs[i].told \subseteq sent
    /\ sent # {} => session

\* Whoever was to stop at an Esc asks nothing more, unless another run was started after it;
\* and every run that ended has left one answer.
EscStops ==
    /\ \A i \in DOMAIN runs' : (At(i, "top") /\ runs[i].stop) => runs'[i].at # "asked"
    /\ \A i \in DOMAIN runs' :
          chat'[i] = IF runs'[i].at = "ended" THEN 1 ELSE 0

=============================================================================
