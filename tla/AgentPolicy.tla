---------------------------- MODULE AgentPolicy -----------------------------
(***************************************************************************)
(* What the agent may do: the trust policy of its commands, the rules of    *)
(* its file tools and the plan mode (checkPermission, checkTrust of         *)
(* src/agent_tools_proc.cpp, executeTool of src/agent_tools_run.cpp, and    *)
(* the commands trust, allow, deny, permit, plan of                        *)
(* src/ascii_ui_agent_repl.cpp).                                           *)
(*                                                                         *)
(* A prefix stands for the set of questions to the user that begin with     *)
(* it, a glob for the set of subjects it matches.  A run works with a copy of the settings *)
(* it was launched with; the runs inside it inherit the copy.              *)
(***************************************************************************)
EXTENDS Integers, Sequences, FiniteSetsExt

CONSTANTS
    Commands, Files,  \* what tools are called with
    PlanFile,         \* the file a plan is written to
    Dangerous,        \* the commands of the hard line
    Prefixes, Globs,
    RuleTools,        \* bound: the tools the user writes rules for, "*" for all
    MaxChanges        \* bound: commands that change the settings

CommandTools == {"shell", "process"}
FileTools == {"read", "write", "edit"}

\* What the user is asked: whether to run a command, or whether a tool may have a file.
Questions == Commands \cup (FileTools \X Files)

PolicyAssumption ==
    /\ PlanFile \in Files /\ Dangerous \subseteq Commands
    /\ Prefixes \subseteq SUBSET Questions /\ Globs \subseteq SUBSET (Commands \cup Files)
    /\ RuleTools \subseteq CommandTools \cup FileTools \cup {"*"}
    /\ MaxChanges \in Nat

Decisions == {"deny", "ask", "allow"}
Rules == [tool : RuleTools, glob : Globs, action : Decisions]

\* A call, by its tool and the command or the file it is for.
ToolCalls == [tool : CommandTools, subject : Commands] \cup [tool : FileTools \cup {"patch"}, subject : Files]

Question(k) == IF k.tool \in CommandTools THEN k.subject ELSE <<k.tool, k.subject>>

\* The answers to a question: no, once, for the run ("A", which takes it for a prefix, besides).
Answers == {"n", "y", "a"}

VARIABLES
    cfg,      \* the settings: prefixes denied and allowed, rules, trust
    live,     \* the run in progress
    stop,     \* whether the user pressed Esc or Ctrl+C
    changes   \* commands so far

vars == <<cfg, live, stop, changes>>

NoRun == [on |-> FALSE]

\* Settings never changed, or with every prefix allowed already.
Init ==
    /\ \E allow \in {{}, Prefixes} :
        cfg = [deny |-> {}, allow |-> allow, rules |-> <<>>, trust |-> "ask"]
    /\ live = NoRun /\ stop = "no" /\ changes = 0

-----------------------------------------------------------------------------
(* The commands, given while no run holds the terminal.                    *)

Change == ~live.on /\ changes < MaxChanges /\ changes' = changes + 1 /\ UNCHANGED <<live, stop>>

\* agent trust <allow|ask|deny>
Trust(v) == Change /\ cfg' = [cfg EXCEPT !.trust = v]

\* agent allow <prefix>, agent deny <prefix>
Allow(p) == Change /\ cfg' = [cfg EXCEPT !.allow = @ \cup {p}]
Deny(p) == Change /\ cfg' = [cfg EXCEPT !.deny = @ \cup {p}]

\* Seeded fault: the rule is put in front.
PermitFirst(r) == Change /\ cfg' = [cfg EXCEPT !.rules = <<r>> \o @]

\* agent permit <tool> <glob> <action>
Permit(r) == Change /\ cfg' = [cfg EXCEPT !.rules = Append(@, r)]

-----------------------------------------------------------------------------
(* The decision on a call.                                                 *)

Matching(c, tool, s) ==
    {i \in DOMAIN c.rules : c.rules[i].tool \in {"*", tool} /\ s \in c.rules[i].glob}

\* The last rule that matches wins, and nothing is forbidden without one.
CheckPermission(c, tool, s) ==
    LET hits == Matching(c, tool, s) IN
    IF hits = {} THEN "allow" ELSE c.rules[Max(hits)].action

\* Seeded fault: the allowed prefixes come first.
CheckTrustAllowFirst(c, s) ==
    LET rule == CheckPermission(c, "shell", s) IN
    CASE \E p \in c.allow : s \in p -> "allow"
      [] \E p \in c.deny : s \in p -> "deny"
      [] OTHER -> IF rule # "allow" THEN rule ELSE c.trust

\* Denied prefixes, then allowed ones, then the rules for the shell, then the trust.
CheckTrust(c, s) ==
    LET rule == CheckPermission(c, "shell", s) IN
    IF \E p \in c.deny : s \in p THEN "deny"
    ELSE IF \E p \in c.allow : s \in p THEN "allow"
    ELSE IF rule # "allow" THEN rule ELSE c.trust

\* No rule is consulted for a patch.
Decision(c, k) ==
    CASE k.tool \in CommandTools -> CheckTrust(c, k.subject)
      [] k.tool \in FileTools -> CheckPermission(c, k.tool, k.subject)
      [] OTHER -> "allow"

\* Seeded fault: plan mode forgets to look at what is edited.
BarredNotEdit(k) ==
    \/ live.plan /\ k.tool \notin {"read", "edit"} /\ ~(k.tool = "write" /\ k.subject = PlanFile)
    \/ k.tool = "process" /\ live.types[Len(live.types)] = "explore"
    \/ k.tool \in CommandTools /\ k.subject \in Dangerous
    \/ k.tool \in CommandTools /\ stop = "ctrl-c"
    \/ k.tool = "shell" /\ stop = "esc"

\* What is refused before the policy is asked: in plan mode all that changes something but the
\* plan's file, processes of an explore subagent, the dangerous commands, and commands after an
\* interrupt, where `process` does not know of Esc.
Barred(k) ==
    \/ live.plan /\ k.tool # "read" /\ ~(k.tool \in FileTools /\ k.subject = PlanFile)
    \/ k.tool = "process" /\ live.types[Len(live.types)] = "explore"
    \/ k.tool \in CommandTools /\ k.subject \in Dangerous
    \/ k.tool \in CommandTools /\ stop = "ctrl-c"
    \/ k.tool = "shell" /\ stop = "esc"

\* verdictConfirm: what was approved for the run, what begins like an allowed prefix - the
\* question about a file too -, else the user; without a dialog the answer is no.
Approved(k) ==
    Question(k) \in live.session \/ \E p \in live.cfg.allow : Question(k) \in p
Consented(k, a) == Approved(k) \/ (live.dialog /\ a # "n")

\* executeTool: whether a call is carried out, were the user to answer so.
Carried(k, a) ==
    /\ ~Barred(k)
    /\ LET d == Decision(live.cfg, k) IN d = "allow" \/ (d = "ask" /\ Consented(k, a))

-----------------------------------------------------------------------------
(* A run and the runs inside it.                                           *)

\* agent <prompt>, agent plan <prompt>; a run in the TUI has no dialog.
Launch(plan, dialog) ==
    /\ ~live.on /\ stop = "no" /\ (plan => dialog)
    /\ live' = [on |-> TRUE, cfg |-> cfg, plan |-> plan, dialog |-> dialog,
                types |-> <<"agent">>, session |-> {}]
    /\ UNCHANGED <<cfg, stop, changes>>

\* A question whose answer is kept approves the same question again in this run.
Call(k) ==
    /\ live.on /\ live.session = {} /\ live.dialog
    /\ ~Barred(k) /\ Decision(live.cfg, k) = "ask" /\ ~Approved(k)
    /\ live' = [live EXCEPT !.session = {Question(k)}]
    /\ UNCHANGED <<cfg, stop, changes>>

\* Seeded fault: a subagent starts from the settings of the terminal.
TaskFresh(type) ==
    /\ live.on /\ Len(live.types) = 1
    /\ live' = [live EXCEPT !.types = Append(@, type), !.plan = FALSE]
    /\ UNCHANGED <<cfg, stop, changes>>

\* The task tool: a run inside the run, with its settings and mode.
Task(type) ==
    /\ live.on /\ Len(live.types) = 1
    /\ live' = [live EXCEPT !.types = Append(@, type)]
    /\ UNCHANGED <<cfg, stop, changes>>

TaskEnds ==
    /\ live.on /\ Len(live.types) = 2
    /\ live' = [live EXCEPT !.types = <<"agent">>]
    /\ UNCHANGED <<cfg, stop, changes>>

Interrupt(how) ==
    /\ live.on /\ stop = "no" /\ stop' = how
    /\ UNCHANGED <<cfg, live, changes>>

\* The run ends; its Esc is taken back.
Ends ==
    /\ live.on /\ Len(live.types) = 1
    /\ live' = NoRun /\ stop' = IF stop = "esc" THEN "no" ELSE stop
    /\ UNCHANGED <<cfg, changes>>

Next ==
    \/ \E v \in Decisions : Trust(v)
    \/ \E p \in Prefixes : Allow(p) \/ Deny(p)
    \/ \E r \in Rules : Permit(r)
    \/ \E plan \in BOOLEAN, dialog \in BOOLEAN : Launch(plan, dialog)
    \/ \E k \in ToolCalls : Call(k)
    \/ \E type \in {"general", "explore"} : Task(type)
    \/ TaskEnds \/ Ends
    \/ \E how \in {"esc", "ctrl-c"} : Interrupt(how)

Spec == Init /\ [][Next]_vars

-----------------------------------------------------------------------------
(* Properties. *)

Settings == [deny : SUBSET Prefixes, allow : SUBSET Prefixes, rules : Seq(Rules), trust : Decisions]

\* Type invariant.
TypeOK ==
    /\ cfg \in Settings /\ changes \in 0..MaxChanges /\ stop \in {"no", "esc", "ctrl-c"}
    /\ live.on =>
        /\ live.cfg \in Settings /\ live.plan \in BOOLEAN /\ live.dialog \in BOOLEAN
        /\ live.types \in Seq({"agent", "general", "explore"}) /\ live.session \subseteq Questions

Begins(prefixes, k) == k.tool \in CommandTools /\ \E p \in prefixes : k.subject \in p

\* A rule with that action speaks of the call, and no later one does.
RuledLast(c, k, action) ==
    LET tool == IF k.tool = "process" THEN "shell" ELSE k.tool
        Speaks(r) == r.tool \in {"*", tool} /\ k.subject \in r.glob IN
    \E i \in DOMAIN c.rules :
        /\ Speaks(c.rules[i]) /\ c.rules[i].action = action
        /\ \A j \in DOMAIN c.rules : j > i => ~Speaks(c.rules[j])

\* Whatever a run and the runs inside it call and whatever the user answers: nothing runs that
\* is dangerous, denied by a prefix or denied by the last rule that speaks of it; without the
\* user's word nothing runs that a rule or the trust wants asked, unless it begins like an
\* allowed prefix; and a run launched to plan changes the plan's file and nothing else.
NothingAgainstPolicy ==
    live.on =>
        \A k \in ToolCalls, a \in Answers :
            Carried(k, a) =>
                /\ Begins({Dangerous} \cup live.cfg.deny, k) = FALSE
                /\ \/ k.tool = "patch" \/ Begins(live.cfg.allow, k)
                   \/ ~RuledLast(live.cfg, k, "deny")
                /\ \/ k.tool = "patch" \/ Approved(k) \/ (live.dialog /\ a # "n")
                   \/ /\ ~RuledLast(live.cfg, k, "ask")
                      /\ k.tool \in CommandTools => live.cfg.trust = "allow"
                /\ live.plan => k.tool = "read" \/ k.subject = PlanFile

\* A run that was launched to plan goes on planning, its subagents included.
PlansToTheEnd == live.on /\ live'.on => live'.plan = live.plan /\ live'.cfg = live.cfg

\* A command decides what it names and nothing else, whatever was set before: a denied prefix
\* every command that begins with it, an allowed prefix all of them but the denied, a rule all
\* it speaks of that no prefix decides - where "allow" leaves a command to the trust -, and
\* the trust what nothing else decides.
CommandsDecide ==
    \A k \in ToolCalls :
        LET was == Decision(cfg, k)
            is == Decision(cfg', k)
            prefixed == Begins(cfg.deny \cup cfg.allow, k)
            r == cfg'.rules[Len(cfg'.rules)]
            tool == IF k.tool = "process" THEN "shell" ELSE k.tool
            spoken == r.tool \in {"*", tool} /\ k.subject \in r.glob /\ k.tool # "patch" IN
        /\ cfg'.deny # cfg.deny => is = IF Begins(cfg'.deny, k) THEN "deny" ELSE was
        /\ cfg'.allow # cfg.allow =>
            is = IF Begins(cfg'.allow \ cfg.allow, k) /\ ~Begins(cfg.deny, k) THEN "allow" ELSE was
        /\ Len(cfg'.rules) > Len(cfg.rules) =>
            is = IF ~spoken \/ prefixed THEN was
                 ELSE IF k.tool \in CommandTools /\ r.action = "allow" THEN cfg.trust ELSE r.action
        /\ cfg'.trust # cfg.trust =>
            (is # was => k.tool \in CommandTools /\ ~prefixed /\ is = cfg'.trust)

=============================================================================
