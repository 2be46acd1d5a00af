------------------------------- MODULE Reminders -------------------------------
(***************************************************************************)
(* The daily reminder pass of one firm (backend/app/scheduler/reminders.py *)
(* and workers/scheduler_worker.py) next to the requests that change the   *)
(* deadlines and tasks it works on (api/deadlines.py, api/tasks.py).       *)
(*                                                                         *)
(* A pass reads the partners, then the confirmed deadlines, dispatches a   *)
(* message for each that is due, and does the same with the tasks.  It     *)
(* works on what it read.  Every dispatch is three steps: has the message  *)
(* been handled according to notifications_log, send it, log the attempt.  *)
(***************************************************************************)
EXTENDS Integers, FiniteSets

CONSTANTS
    Assignees,        \* users who are responsible for items
    Partners,         \* users with role partner_manager
    Deadlines,        \* ids of rows of table deadlines
    Tasks,            \* ids of rows of table tasks
    Suggestions,      \* some of the Deadlines: they exist as unconfirmed suggestions
    LeadPoints,       \* reminder_lead_points, in days
    EscalationDays,   \* ESCALATION_MAX_DAYS
    LastDay,          \* bound on the day
    MaxChanges,       \* bound on the requests that change items or users
    Passes,           \* processes that may run a pass: the worker, and --once
    NoDate            \* no day, no user, no item

People == Assignees \cup Partners
Items == Deadlines \cup Tasks
Days == 0 .. LastDay

ASSUME ItemsAssumption ==
    /\ Deadlines \cap Tasks = {} /\ Suggestions \subseteq Deadlines
    /\ LeadPoints \subseteq Nat /\ LastDay \in Nat /\ EscalationDays \in Nat /\ MaxChanges \in Nat
    /\ NoDate \notin Items \cup People \cup Int

VARIABLES
    today,         \* the day in Africa/Cairo
    due,           \* item -> due_date, NoDate while there is no such row
    responsible,   \* item -> responsible_user_id, assigned_to
    live,          \* deadlines that are confirmed, tasks that are open
    acknowledged,  \* deadlines with acknowledged_at
    activePeople,  \* users with status active
    log,           \* rows of notifications_log
    pass,          \* process -> the pass it runs
    firmInLog,     \* FALSE is the code: the INSERT into notifications_log leaves
                   \*   out firm_id, which is NOT NULL; TRUE gives it
    changes,       \* auxiliary: how many requests there have been
    attempts,      \* history: jobs that a pass has taken up
    tried,         \* history: process -> the jobs its running pass has taken up
    deaths,        \* auxiliary: how many passes have died
    overlapped     \* history: one pass began while another ran

itemVars == <<due, responsible, live, acknowledged>>
passHistories == <<deaths, overlapped>>
reminderVars ==
    <<today, itemVars, activePeople, log, pass, firmInLog, changes, attempts, tried, passHistories>>

Jobs == [item : Items, to : People, day : Days, lead : Nat, escalation : BOOLEAN, reachable : BOOLEAN]
NoJob == [item |-> NoDate]

(* What _already_handled compares: neither the day nor the due date.       *)
Key(job) == <<job.item, job.to, job.lead, job.escalation>>

Outcomes == {"sent", "failed", "skipped"}
PassSteps == {"idle", "deadlines", "dispatch deadlines", "tasks", "dispatch tasks"}
PassStates ==
    [step : PassSteps, day : Days \cup {NoDate}, partners : SUBSET Partners, jobs : SUBSET Jobs,
     job : Jobs \cup {NoJob}, status : Outcomes \cup {"none", "send"}]

NoPass == [step |-> "idle", day |-> NoDate, partners |-> {}, jobs |-> {}, job |-> NoJob, status |-> "none"]

ReminderTypeOK ==
    /\ today \in Days
    /\ due \in [Items -> Days \cup {NoDate}]
    /\ responsible \in [Items -> People \cup {NoDate}]
    /\ \A i \in Items : due[i] # NoDate => responsible[i] # NoDate
    /\ live \subseteq {i \in Items : due[i] # NoDate}
    /\ acknowledged \subseteq {d \in Deadlines : due[d] # NoDate}
    /\ activePeople \subseteq People
    /\ \A r \in log : r.job \in Jobs /\ r.status \in Outcomes
    /\ pass \in [Passes -> PassStates]
    /\ \A p \in Passes :
           /\ pass[p].status # "none" => pass[p].job \in Jobs
           /\ pass[p].step # "idle" => pass[p].day \in Days
    /\ firmInLog \in BOOLEAN /\ changes \in 0 .. MaxChanges
    /\ attempts \subseteq Jobs /\ tried \in [Passes -> SUBSET Jobs]
    /\ deaths \in Nat /\ overlapped \in BOOLEAN

ReminderInit ==
    /\ today = 0
    /\ due \in [Items -> Days \cup {NoDate}]
    /\ \A i \in Items : due[i] # NoDate <=> i \in Suggestions
    /\ responsible \in [Items -> Assignees \cup {NoDate}]
    /\ \A i \in Items : responsible[i] # NoDate <=> i \in Suggestions
    /\ live = {} /\ acknowledged = {}
    /\ activePeople = People
    /\ log = {}
    /\ pass = [p \in Passes |-> NoPass]
    /\ firmInLog \in BOOLEAN
    /\ changes = 0
    /\ attempts = {} /\ tried = [p \in Passes |-> {}]
    /\ deaths = 0 /\ overlapped = FALSE
-------------------------------------------------------------------------------
NewDay ==
    /\ today < LastDay
    /\ today' = today + 1
    /\ UNCHANGED <<itemVars, activePeople, log, pass, firmInLog, changes, attempts, tried, passHistories>>

ChangeRequest ==
    /\ changes < MaxChanges
    /\ changes' = changes + 1
    /\ UNCHANGED <<today, log, pass, firmInLog, attempts, tried, passHistories>>

(* update_user: partners deactivate and reactivate users.                  *)
SetActive(u) ==
    /\ activePeople' = IF u \in activePeople THEN activePeople \ {u} ELSE activePeople \cup {u}
    /\ UNCHANGED itemVars
    /\ ChangeRequest

ChangeItems == ChangeRequest /\ UNCHANGED activePeople

(* An id that nothing has named yet.                                       *)
Fresh(i) ==
    /\ due[i] = NoDate
    /\ \A job \in attempts \cup UNION {pass[p].jobs : p \in Passes} : job.item # i

(* create_deadline, create_task: general deadlines are born confirmed.     *)
CreateItem(i, u, day) ==
    /\ Fresh(i)
    /\ u \in activePeople
    /\ due' = [due EXCEPT ![i] = day]
    /\ responsible' = [responsible EXCEPT ![i] = u]
    /\ live' = live \cup {i}
    /\ UNCHANGED acknowledged
    /\ ChangeItems

(* update_deadline, update_task: the acknowledgement stays as it is.       *)
MoveItem(i, u, day) ==
    /\ due[i] # NoDate
    /\ u = responsible[i] \/ u \in activePeople
    /\ due' = [due EXCEPT ![i] = day]
    /\ responsible' = [responsible EXCEPT ![i] = u]
    /\ UNCHANGED <<live, acknowledged>>
    /\ ChangeItems

(* update_task: done, or open again.                                       *)
SetDone(t) ==
    /\ due[t] # NoDate
    /\ live' = IF t \in live THEN live \ {t} ELSE live \cup {t}
    /\ UNCHANGED <<due, responsible, acknowledged>>
    /\ ChangeItems

(* confirm_deadline                                                        *)
ConfirmDeadline(d) ==
    /\ due[d] # NoDate /\ d \notin live
    /\ live' = live \cup {d}
    /\ UNCHANGED <<due, responsible, acknowledged>>
    /\ ChangeItems

(* acknowledge_deadline                                                    *)
AcknowledgeDeadline(d) ==
    /\ due[d] # NoDate
    /\ acknowledged' = acknowledged \cup {d}
    /\ UNCHANGED <<due, responsible, live>>
    /\ ChangeItems

(* delete_deadline, delete_task.  With rows in notifications_log the       *)
(* foreign key's SET NULL fails its CHECK, and nothing is deleted.         *)
DeleteItem(i) ==
    /\ due[i] # NoDate /\ ~ \E r \in log : r.job.item = i
    /\ due' = [due EXCEPT ![i] = NoDate]
    /\ responsible' = [responsible EXCEPT ![i] = NoDate]
    /\ live' = live \ {i}
    /\ acknowledged' = acknowledged \ {i}
    /\ ChangeItems
-------------------------------------------------------------------------------
(* The pass of p comes to a state, perhaps with a job in hand.             *)
Run(p, state) ==
    /\ pass' = [pass EXCEPT ![p] = state]
    /\ tried' = [tried EXCEPT ![p] =
           IF state = NoPass THEN {} ELSE tried[p] \cup ({state.job} \ {NoJob})]
    /\ UNCHANGED <<today, itemVars, activePeople, firmInLog, changes>>

RunQuietly(p, state) == Run(p, state) /\ UNCHANGED <<log, attempts, passHistories>>

(* The pass of p, gone on to a step with the jobs it is left with.         *)
At(p, step, jobs, job, status) ==
    [step |-> step, day |-> pass[p].day, partners |-> pass[p].partners,
     jobs |-> jobs, job |-> job, status |-> status]

(* The day is fixed; active partners get the escalations.                  *)
BeginPass(p) ==
    /\ pass[p] = NoPass
    /\ Run(p, [step |-> "deadlines", day |-> today, partners |-> Partners \cap activePeople,
               jobs |-> {}, job |-> NoJob, status |-> "none"])
    /\ overlapped' = (overlapped \/ \E q \in Passes \ {p} : pass[q] # NoPass)
    /\ UNCHANGED <<log, attempts, deaths>>

(* Partners have been read before, and only the active ones.               *)
JobFor(p, i, u, escalation) ==
    [item |-> i, to |-> u, day |-> pass[p].day, lead |-> due[i] - pass[p].day,
     escalation |-> escalation, reachable |-> escalation \/ u \in activePeople]

(* matched_lead_point                                                      *)
Matches(p, i) == due[i] - pass[p].day \in LeadPoints

(* should_escalate                                                         *)
Escalates(p, d) == d \notin acknowledged /\ due[d] - pass[p].day \in 0 .. EscalationDays

RemindersOf(p, found) ==
    {JobFor(p, i, responsible[i], FALSE) : i \in {i \in found : Matches(p, i)}}

EscalationsOf(p, found) ==
    UNION {{JobFor(p, d, u, TRUE) : u \in pass[p].partners \ {responsible[d]}} :
           d \in {d \in found : Escalates(p, d)}}

(* Mutant: suggestions are taken for deadlines.                            *)
UnconfirmedToo == {d \in Deadlines : due[d] # NoDate}

ConfirmedDeadlines == {d \in Deadlines : due[d] # NoDate /\ d \in live}

OpenTasks == {t \in Tasks : due[t] # NoDate /\ t \in live}

ReadDeadlines(p) ==
    /\ pass[p].step = "deadlines"
    /\ RunQuietly(p, At(p, "dispatch deadlines",
                        RemindersOf(p, ConfirmedDeadlines) \cup EscalationsOf(p, ConfirmedDeadlines),
                        NoJob, "none"))

ReadTasks(p) ==
    /\ pass[p].step = "tasks"
    /\ RunQuietly(p, At(p, "dispatch tasks", RemindersOf(p, OpenTasks), NoJob, "none"))

Handled(job) == \E r \in log : Key(r.job) = Key(job) /\ r.status \in {"sent", "skipped"}

TakeUp(p, job) ==
    /\ Run(p, At(p, pass[p].step, pass[p].jobs \ {job}, job, IF job.reachable THEN "send" ELSE "skipped"))
    /\ attempts' = attempts \cup {job}
    /\ UNCHANGED <<log, passHistories>>

(* Mutant: what has been logged is not looked at.                          *)
TakeUnchecked(p) == \E job \in pass[p].jobs : pass[p].job = NoJob /\ TakeUp(p, job)

(* _dispatch begins; the responsible user's reminder comes before the      *)
(* escalations of the same deadline.                                       *)
TakeJob(p) ==
    \E job \in pass[p].jobs :
        /\ pass[p].job = NoJob
        /\ job.escalation => \A k \in pass[p].jobs : k.item = job.item => k.escalation
        /\ \/ Handled(job) /\ RunQuietly(p, At(p, pass[p].step, pass[p].jobs \ {job}, NoJob, "none"))
           \/ ~Handled(job) /\ TakeUp(p, job)

(* WahaError may mean that only the answer was lost.                       *)
SendJob(p) ==
    /\ pass[p].status = "send"
    /\ \E status \in {"sent", "failed"} :
           RunQuietly(p, At(p, pass[p].step, pass[p].jobs, pass[p].job, status))

Row(p) == [job |-> pass[p].job, status |-> pass[p].status]

Dispatched(p) == Run(p, At(p, pass[p].step, pass[p].jobs, NoJob, "none"))

(* Mutant: an error of the INSERT is caught, and the pass goes on.         *)
LogIfPossible(p) ==
    /\ pass[p].status \in Outcomes
    /\ log' = IF firmInLog /\ due[pass[p].job.item] # NoDate THEN log \cup {Row(p)} ELSE log
    /\ Dispatched(p)
    /\ UNCHANGED <<attempts, passHistories>>

(* _log_attempt: an error of the INSERT, for the missing firm_id or an     *)
(* item that has been deleted, ends the firm's pass.                       *)
LogJob(p) ==
    /\ pass[p].status \in Outcomes
    /\ IF firmInLog /\ due[pass[p].job.item] # NoDate
       THEN log' = log \cup {Row(p)} /\ Dispatched(p)
       ELSE UNCHANGED log /\ Run(p, NoPass)
    /\ UNCHANGED <<attempts, passHistories>>

(* Every job of this part of the pass has been dispatched.                 *)
NextPart(p) ==
    /\ pass[p].jobs = {} /\ pass[p].job = NoJob
    /\ \/ pass[p].step = "dispatch deadlines" /\ RunQuietly(p, At(p, "tasks", {}, NoJob, "none"))
       \/ pass[p].step = "dispatch tasks" /\ RunQuietly(p, NoPass)

(* The process dies.                                                       *)
PassDies(p) ==
    /\ pass[p] # NoPass
    /\ Run(p, NoPass)
    /\ deaths' = deaths + 1
    /\ UNCHANGED <<log, attempts, overlapped>>

ReminderNext ==
    \/ NewDay
    \/ \E u \in People : SetActive(u)
    \/ \E i \in Items, u \in Assignees, day \in Days : CreateItem(i, u, day) \/ MoveItem(i, u, day)
    \/ \E t \in Tasks : SetDone(t)
    \/ \E d \in Deadlines : ConfirmDeadline(d) \/ AcknowledgeDeadline(d)
    \/ \E i \in Items : DeleteItem(i)
    \/ \E p \in Passes :
           \/ BeginPass(p) \/ ReadDeadlines(p) \/ ReadTasks(p)
           \/ TakeJob(p) \/ SendJob(p) \/ LogJob(p) \/ NextPart(p) \/ PassDies(p)

ReminderSpec == ReminderInit /\ [][ReminderNext]_reminderVars
-------------------------------------------------------------------------------
(* A suggestion has no reminders until a lawyer confirms it (FR-029,       *)
(* reminders.py:429-447): no pass, whatever it read before, takes one up.  *)
InertUntilConfirmed ==
    \A job \in attempts :
        job.item \in Deadlines /\ due[job.item] # NoDate => job.item \in live

(* "A tuple already logged as sent or skipped is not re-attempted"         *)
(* (reminders.py:24), in later passes of the day or after a death, unless  *)
(* two processes have run a pass at the same time.                         *)
RepeatsNothing ==
    \A p \in Passes :
        pass[p].status = "send" /\ pass'[p].status \in {"sent", "failed"} /\ ~overlapped
        => ~Handled(pass[p].job)

HandledOnce == [][RepeatsNothing]_reminderVars

(* "Send one reminder and record exactly one notifications_log row"        *)
(* (reminders.py:263): behind a pass that goes on, every attempt it made   *)
(* has its row, sent, failed or skipped; the first that cannot be logged,  *)
(* for the firm_id that the INSERT leaves out or an item that was deleted  *)
(* meanwhile, is the last of the pass.                                     *)
LogKeepsUp ==
    \A p \in Passes : \A job \in tried[p] \ {pass[p].job} : \E r \in log : r.job = job
===============================================================================
