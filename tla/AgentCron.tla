----------------------------- MODULE AgentCron ------------------------------
(***************************************************************************)
(* The scheduled prompts of the agent: `agent cron add | remove | check`    *)
(* and the schedules they are written in (src/ascii_ui_agent_repl.cpp,      *)
(* nextRunFromSpec and the jobs file of src/agent_tools_state.cpp).         *)
(*                                                                         *)
(* Every command loads the whole file, and writes it back whole.  A check   *)
(* takes as long as the prompts it runs: meanwhile time passes, the e-stop  *)
(* may be engaged, another terminal in the same directory may write the     *)
(* file, or the process may be killed.  Times are in units of a second.     *)
(***************************************************************************)
EXTENDS Integers, Sequences, FiniteSets, FiniteSetsExt, SequencesExt

CONSTANTS
    Terminals,       \* the user's terminals in this directory
    Idle,            \* a terminal without a check
    Delay,           \* the duration of "every d" and of "d"
    Date,            \* the moment of a date
    Marks,           \* the moments a cron expression matches
    Fallback,        \* a day: when a schedule has no next moment
    Horizon,         \* bound on the clock
    MaxJobs, MaxChecks   \* bounds: jobs added, checks

\* "d" means the same as "every d": the job is armed again after its run.
Specs == {"every", "date", "cron"}

\* A job as it is stored; a check over the jobs it loaded.
Jobs == [id : Seq(Nat), serial : 1..MaxJobs, spec : Specs, next : Nat]
Checks == [jobs : Seq(Jobs), at : Nat, now : Nat, any : BOOLEAN, running : BOOLEAN]

CronAssumption ==
    /\ {Delay, Date, Fallback, Horizon, MaxJobs, MaxChecks} \subseteq Nat /\ Delay > 0 /\ Fallback > 0
    /\ Marks \subseteq Nat /\ IsFiniteSet(Marks) /\ Idle \notin Checks

VARIABLES
    jobs,      \* .agent-cron/jobs.json
    check,     \* each terminal: nothing, or its check
    estop,     \* .agent-estop exists
    now,       \* the clock
    added,     \* jobs added so far
    ran,       \* the runs so far: which job, for which moment
    excused,   \* jobs that may run again for a moment: a check over them was killed,
               \* or two overlapped
    removed,   \* jobs removed so far
    checks     \* checks so far

vars == <<jobs, check, estop, now, added, ran, excused, removed, checks>>

\* Seeded fault: the first match is taken, gone by or not.
FirstMatch(t) ==
    IF Marks = {} THEN -1 ELSE CHOOSE m \in Marks : \A k \in Marks : m <= k

\* nextCronRun: the first match after now, if there is one within two years.
NextMatch(t) ==
    LET later == { m \in Marks : m > t }
    IN  IF later = {} THEN -1 ELSE CHOOSE m \in later : \A k \in later : m <= k

\* nextRunFromSpec: a duration is counted from now; a date is the moment itself, gone by or
\* not.  -1 is a bad schedule.
NextRun(spec, t) ==
    CASE spec = "cron"  -> NextMatch(t)
      [] spec = "date"  -> Date
      [] spec = "every" -> t + Delay

Init ==
    /\ jobs = <<>> /\ check = [p \in Terminals |-> Idle] /\ estop = FALSE
    /\ now = 0 /\ added = 0 /\ ran = {} /\ excused = {} /\ removed = {} /\ checks = 0

\* A terminal takes commands while it runs no check.
Free(p) == check[p] = Idle

\* The job is filed under the second and the number of jobs; `serial` tells apart the jobs
\* that get the same name.
AddJob(p) ==
    \E spec \in Specs :
        /\ Free(p) /\ added < MaxJobs
        /\ NextRun(spec, now) >= 0
        /\ jobs' = Append(jobs, [id |-> <<now, Len(jobs)>>, serial |-> added + 1,
                                 spec |-> spec, next |-> NextRun(spec, now)])
        /\ added' = added + 1
        /\ UNCHANGED <<check, estop, now, ran, excused, removed, checks>>

Named(id) == { j \in ToSet(jobs) : j.id = id }

\* Every job of that name goes; the others keep their order.
RemoveJob(p) ==
    \E id \in { j.id : j \in ToSet(jobs) }, n \in 0..Len(jobs) : \E kept \in [1..n -> DOMAIN jobs] :
        /\ Free(p)
        /\ { kept[i] : i \in 1..n } = { i \in DOMAIN jobs : jobs[i].id # id }
        /\ \A i, k \in 1..n : i < k => kept[i] < kept[k]
        /\ jobs' = [i \in 1..n |-> jobs[kept[i]]]
        /\ removed' = removed \cup { j.serial : j \in Named(id) }
        /\ UNCHANGED <<check, estop, now, added, ran, excused, checks>>

\* Runs that may be repeated: they are under way, or unsaved, in some check.
UnderWay == UNION { IF Free(p) THEN {} ELSE { j.serial : j \in ToSet(check[p].jobs) } : p \in Terminals }

CheckStarts(p) ==
    /\ Free(p) /\ jobs # <<>> /\ checks < MaxChecks /\ checks' = checks + 1
    /\ check' = [check EXCEPT ![p] = [jobs |-> jobs, at |-> 1, now |-> now, any |-> FALSE,
                                      running |-> FALSE]]
    /\ excused' = excused \cup (UnderWay \cap { j.serial : j \in ToSet(jobs) })
    /\ UNCHANGED <<jobs, estop, now, added, ran, removed>>

Current(c) == c.jobs[c.at]

Skip(p) ==
    LET c == check[p]
    IN  /\ ~ Free(p) /\ c.at <= Len(c.jobs) /\ ~ c.running
        /\ Current(c).next > c.now
        /\ check' = [check EXCEPT ![p].at = @ + 1]
        /\ UNCHANGED <<jobs, estop, now, added, ran, excused, removed, checks>>

\* A due job is run, unless the e-stop is engaged: that ends the check.
RunJob(p) ==
    LET c == check[p]
    IN  /\ ~ Free(p) /\ c.at <= Len(c.jobs) /\ ~ c.running
        /\ Current(c).next <= c.now
        /\ IF estop THEN /\ check' = [check EXCEPT ![p].at = Len(c.jobs) + 1]
                         /\ UNCHANGED ran
           ELSE /\ check' = [check EXCEPT ![p].running = TRUE, ![p].any = TRUE]
                /\ ran' = ran \cup {<<Current(c).serial, Current(c).next>>}
        /\ UNCHANGED <<jobs, estop, now, added, excused, removed, checks>>

\* Seeded fault: what nextRunFromSpec says of an unusable schedule is stored.
JobDoneAnyTime(p) ==
    LET c == check[p]
    IN  /\ ~ Free(p) /\ c.running
        /\ check' = [check EXCEPT ![p].running = FALSE, ![p].at = @ + 1,
                        ![p].jobs[c.at].next = NextRun(Current(c).spec, c.now)]
        /\ UNCHANGED <<jobs, estop, now, added, ran, excused, removed, checks>>

\* The run is over: the job gets its next moment, counted from the start of the check.
JobDone(p) ==
    LET c == check[p]
        next == NextRun(Current(c).spec, c.now)
    IN  /\ ~ Free(p) /\ c.running
        /\ check' = [check EXCEPT ![p].running = FALSE, ![p].at = @ + 1,
                        ![p].jobs[c.at].next = IF next < 0 THEN c.now + Fallback ELSE next]
        /\ UNCHANGED <<jobs, estop, now, added, ran, excused, removed, checks>>

\* Seeded fault: a check that was stopped is not saved.
CheckEndsStopped(p) ==
    LET c == check[p]
    IN  /\ ~ Free(p) /\ c.at > Len(c.jobs)
        /\ jobs' = IF c.any /\ ~ estop THEN c.jobs ELSE jobs
        /\ check' = [check EXCEPT ![p] = Idle]
        /\ UNCHANGED <<estop, now, added, ran, excused, removed, checks>>

\* Only now the file is written, if any job was run.
CheckEnds(p) ==
    LET c == check[p]
    IN  /\ ~ Free(p) /\ c.at > Len(c.jobs)
        /\ jobs' = IF c.any THEN c.jobs ELSE jobs
        /\ check' = [check EXCEPT ![p] = Idle]
        /\ UNCHANGED <<estop, now, added, ran, excused, removed, checks>>

\* agent pause, agent resume
EStop(p) ==
    /\ Free(p)
    /\ estop' = ~ estop
    /\ UNCHANGED <<jobs, check, now, added, ran, excused, removed, checks>>

Killed(p) ==
    /\ ~ Free(p)
    /\ check' = [check EXCEPT ![p] = Idle]
    /\ excused' = excused \cup { j.serial : j \in ToSet(check[p].jobs) }
    /\ UNCHANGED <<jobs, estop, now, added, ran, removed, checks>>

Tick ==
    /\ now < Horizon /\ now' = now + 1
    /\ UNCHANGED <<jobs, check, estop, added, ran, excused, removed, checks>>

Next ==
    \/ Tick
    \/ \E p \in Terminals :
          \/ AddJob(p) \/ RemoveJob(p) \/ EStop(p) \/ Killed(p)
          \/ CheckStarts(p) \/ Skip(p) \/ RunJob(p) \/ JobDone(p) \/ CheckEnds(p)

Spec == Init /\ [][Next]_vars

-----------------------------------------------------------------------------
(* Properties. *)

\* Type invariant.
TypeOK ==
    /\ jobs \in Seq(Jobs)
    /\ \A p \in Terminals :
          Free(p) \/ /\ check[p] \in Checks /\ check[p].at \in 1..Len(check[p].jobs) + 1
                     /\ check[p].running => check[p].any
    /\ estop \in BOOLEAN /\ now \in 0..Horizon /\ added \in 0..MaxJobs /\ checks \in 0..MaxChecks
    /\ excused \cup removed \subseteq 1..MaxJobs

Serials(js) == { j.serial : j \in ToSet(js) }

\* A job leaves the file only by `remove`, or under a check that had loaded the file before
\* the job was added; what is not new comes back only by a check that had loaded it and ran.
JobsKept ==
    /\ \A n \in Serials(jobs) \ Serials(jobs') :
          \/ n \in removed'
          \/ \E p \in Terminals : CheckEnds(p) /\ n \notin Serials(check[p].jobs)
    /\ \A n \in Serials(jobs') \ Serials(jobs) :
          \/ n > added
          \/ \E p \in Terminals : CheckEnds(p) /\ check[p].any /\ n \in Serials(check[p].jobs)

\* No job runs twice for one moment, unless it is a date - due for ever once it is gone by -
\* or two checks overlapped, or a check was killed before it could write what it had run.
OncePerMoment ==
    \A p \in Terminals :
        LET job == Current(check[p])
        IN  (RunJob(p) /\ ~ estop /\ job.spec # "date" /\ job.serial \notin excused) =>
                <<job.serial, job.next>> \notin ran

\* A check leaves no job due that was run, also when the e-stop ended it, but dates; or a job
\* another check or a killed one has touched.
CheckSettles ==
    \A p \in Terminals :
        (CheckEnds(p) /\ check[p].any) =>
            \A j \in ToSet(jobs') :
                (j.spec # "date" /\ <<j.serial, j.next>> \in ran) =>
                    j.serial \in excused \/ j.next > check[p].now

=============================================================================
