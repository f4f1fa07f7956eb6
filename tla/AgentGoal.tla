----------------------------- MODULE AgentGoal ------------------------------
(***************************************************************************)
(* The standing goal of the agent: `agent goal`, `agent subgoal` and the    *)
(* judge (src/ascii_ui_agent_repl.cpp, saveGoal, loadGoal, draftContract    *)
(* and judgeGoal of src/agent_tools_state.cpp).                             *)
(*                                                                         *)
(* Every command of a terminal loads .agent-goal.json and writes all of it. *)
(* Drafting a contract and judging wait for the model, and then write the   *)
(* goal they had loaded.                                                    *)
(***************************************************************************)
EXTENDS Integers, FiniteSets

CONSTANTS
    Terminals, Goals, Subgoals,
    NoGoal,          \* no text
    MaxCommands      \* bound on the commands

GoalAssumption == NoGoal \notin Goals /\ MaxCommands \in Nat

VARIABLES
    goal,     \* .agent-goal.json
    asks,     \* each terminal: what it asks the model, and the goal it had loaded
    judged,   \* the verdicts "done": which goal with which contract and subgoals
    issued    \* commands so far

vars == <<goal, asks, judged, issued>>

Empty == [text |-> NoGoal, contract |-> FALSE, subgoals |-> {}, gate |-> FALSE,
          paused |-> FALSE, achieved |-> FALSE]

Quiet == [what |-> "nothing", goal |-> Empty]

Init ==
    /\ goal = Empty /\ asks = [p \in Terminals |-> Quiet]
    /\ judged = {} /\ issued = 0

Command(p) == asks[p] = Quiet /\ issued < MaxCommands /\ issued' = issued + 1

\* Seeded fault: a new goal inherits the verdict.
SetInherits(p) ==
    \E g \in Goals :
        /\ Command(p)
        /\ goal' = [goal EXCEPT !.text = g, !.contract = FALSE, !.paused = FALSE]
        /\ UNCHANGED <<asks, judged>>

\* goal <text>: a new text without contract; subgoals and gate stay.
Set(p) ==
    \E g \in Goals :
        /\ Command(p)
        /\ goal' = [goal EXCEPT !.text = g, !.contract = FALSE, !.achieved = FALSE, !.paused = FALSE]
        /\ UNCHANGED <<asks, judged>>

\* goal draft: the model writes a contract, or fails to.
Draft(p) ==
    \E g \in Goals :
        /\ Command(p)
        /\ asks' = [asks EXCEPT ![p] = [what |-> "draft", goal |-> [goal EXCEPT !.text = g]]]
        /\ UNCHANGED <<goal, judged>>

Drafted(p) ==
    \E written \in BOOLEAN :
        /\ asks[p].what = "draft"
        /\ goal' = [asks[p].goal EXCEPT !.contract = written, !.achieved = FALSE, !.paused = FALSE]
        /\ asks' = [asks EXCEPT ![p] = Quiet]
        /\ UNCHANGED <<judged, issued>>

\* goal check: the gate's command runs first and may end it.
Check(p) ==
    /\ Command(p) /\ goal.text # NoGoal
    /\ asks' = [asks EXCEPT ![p] = [what |-> "check", goal |-> goal]]
    /\ UNCHANGED <<goal, judged>>

GateFails(p) ==
    /\ asks[p].what = "check" /\ asks[p].goal.gate
    /\ asks' = [asks EXCEPT ![p] = Quiet]
    /\ UNCHANGED <<goal, judged, issued>>

\* Seeded fault: the verdict is written into the goal of now.
VerdictOfNow(p) ==
    /\ asks[p].what = "check"
    /\ goal' = [goal EXCEPT !.achieved = TRUE]
    /\ judged' = judged \cup {asks[p].goal.text}
    /\ asks' = [asks EXCEPT ![p] = Quiet]
    /\ UNCHANGED issued

\* The verdict "done": the goal that was judged is written, achieved.
VerdictDone(p) ==
    /\ asks[p].what = "check"
    /\ goal' = [asks[p].goal EXCEPT !.achieved = TRUE]
    /\ judged' = judged \cup {asks[p].goal.text}
    /\ asks' = [asks EXCEPT ![p] = Quiet]
    /\ UNCHANGED issued

\* Seeded fault: the goal is written whatever the verdict.
VerdictWritten(p) ==
    /\ asks[p].what = "check"
    /\ goal' = asks[p].goal
    /\ asks' = [asks EXCEPT ![p] = Quiet]
    /\ UNCHANGED <<judged, issued>>

\* Not done, no verdict in the answer, or no answer: nothing is written.
VerdictOther(p) ==
    /\ asks[p].what = "check"
    /\ asks' = [asks EXCEPT ![p] = Quiet]
    /\ UNCHANGED <<goal, judged, issued>>

\* goal pause, resume, clear and gate.
Mark(p) ==
    /\ Command(p)
    /\ goal' \in { [goal EXCEPT !.paused = TRUE], [goal EXCEPT !.paused = FALSE], Empty,
                   [goal EXCEPT !.gate = TRUE] }
    /\ UNCHANGED <<asks, judged>>

\* subgoal <text>, remove and clear, of a goal; also of one that is achieved.
Subgoal(p) ==
    \E s \in Subgoals :
        /\ Command(p) /\ goal.text # NoGoal
        /\ goal' \in { [goal EXCEPT !.subgoals = @ \cup {s}], [goal EXCEPT !.subgoals = @ \ {s}],
                       [goal EXCEPT !.subgoals = {}] }
        /\ UNCHANGED <<asks, judged>>

Next ==
    \E p \in Terminals :
        \/ Set(p) \/ Draft(p) \/ Drafted(p) \/ Mark(p) \/ Subgoal(p)
        \/ Check(p) \/ GateFails(p) \/ VerdictDone(p) \/ VerdictOther(p)

Spec == Init /\ [][Next]_vars

-----------------------------------------------------------------------------
(* Properties. *)

GoalStates == [text : Goals \cup {NoGoal}, contract : BOOLEAN, subgoals : SUBSET Subgoals,
               gate : BOOLEAN, paused : BOOLEAN, achieved : BOOLEAN]

\* Type invariant.
TypeOK ==
    /\ goal \in GoalStates
    /\ asks \in [Terminals -> [what : {"nothing", "draft", "check"}, goal : GoalStates]]
    /\ judged \subseteq Goals /\ issued \in 0..MaxCommands

\* A goal that is shown as achieved was judged to be, whatever the terminals set, drafted and
\* judged meanwhile.
AchievedWasJudged == goal.achieved => goal.text \in judged

\* While a draft or a check waits for the model another terminal may set the goal: only a
\* draft, and a verdict that the goal is achieved, put back the one they had loaded.
GoalKept ==
    (goal' # goal /\ issued' = issued) =>
        \E p \in Terminals :
            /\ asks[p].what # "nothing" /\ asks'[p] = Quiet
            /\ asks[p].what = "draft" \/ goal'.achieved

=============================================================================
