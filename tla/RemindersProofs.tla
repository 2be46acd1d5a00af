---------------------------- MODULE RemindersProofs ----------------------------
(***************************************************************************)
(* Theorems about the two parts of the daily pass, for any number of       *)
(* deadlines, tasks, hearings, users and processes: the reminders of       *)
(* deadlines and tasks (Reminders), and those of hearings                  *)
(* (HearingReminders).                                                     *)
(***************************************************************************)
EXTENDS Reminders, HearingReminders, TLAPS

-------------------------------------------------------------------------------
(***************************************************************************)
(*                    Reminders of deadlines and tasks                     *)
(***************************************************************************)
(* Requests and the calendar leave alone what passes do and have done.     *)
Elsewhere == UNCHANGED <<log, pass, firmInLog, attempts, tried, passHistories>>

(* No job is mistaken for the absence of one.                              *)
LEMMA JobsAreJobs == \A job \in Jobs : job # NoJob
BY ItemsAssumption DEF Jobs, NoJob

(* What At puts together.                                                  *)
LEMMA AtIs ==
    ASSUME ReminderTypeOK, NEW p \in Passes, NEW step \in PassSteps, NEW jobs \in SUBSET Jobs,
           NEW job \in Jobs \cup {NoJob}, NEW status \in Outcomes \cup {"none", "send"}
    PROVE  LET s == At(p, step, jobs, job, status) IN
           /\ s \in PassStates
           /\ s.step = step /\ s.day = pass[p].day /\ s.jobs = jobs /\ s.job = job /\ s.status = status
<1>1. pass[p] \in PassStates
  BY DEF ReminderTypeOK
<1>2. pass[p].day \in Days \cup {NoDate} /\ pass[p].partners \in SUBSET Partners
  BY <1>1 DEF PassStates
<1> QED
  BY <1>2 DEF At, PassStates

LEMMA NoPassIs ==
    /\ NoPass \in PassStates
    /\ NoPass.step = "idle" /\ NoPass.jobs = {} /\ NoPass.job = NoJob /\ NoPass.status = "none"
BY DEF NoPass, PassStates, PassSteps

(* A step of a process, to a well-formed state, keeps the types.           *)
LEMMA RunTypes ==
    ASSUME ReminderTypeOK, NEW p \in Passes, NEW s \in PassStates, Run(p, s),
           s.status # "none" => s.job \in Jobs,
           s.step # "idle" => s.day \in Days,
           \A r \in log' : r.job \in Jobs /\ r.status \in Outcomes,
           attempts' \subseteq Jobs, deaths' \in Nat, overlapped' \in BOOLEAN
    PROVE  ReminderTypeOK'
<1>1. pass' \in [Passes -> PassStates]
  BY DEF ReminderTypeOK, Run
<1>2. \A q \in Passes : pass'[q] = IF q = p THEN s ELSE pass[q]
  BY DEF ReminderTypeOK, Run
<1>3. \A q \in Passes :
          /\ pass'[q].status # "none" => pass'[q].job \in Jobs
          /\ pass'[q].step # "idle" => pass'[q].day \in Days
  BY <1>2 DEF ReminderTypeOK
<1>4. tried' \in [Passes -> SUBSET Jobs]
  <2>1. tried[p] \in SUBSET Jobs /\ {s.job} \ {NoJob} \in SUBSET Jobs
    BY DEF ReminderTypeOK, PassStates
  <2> QED
    BY <2>1 DEF ReminderTypeOK, Run
<1> QED
  BY <1>1, <1>3, <1>4 DEF ReminderTypeOK, Run, itemVars

(* The jobs a pass makes of live items are jobs for these items.           *)
LEMMA FoundJobs ==
    ASSUME ReminderTypeOK, NEW p \in Passes, pass[p].step # "idle",
           NEW found, found \subseteq {i \in Items : due[i] # NoDate}
    PROVE  /\ RemindersOf(p, found) \subseteq Jobs
           /\ EscalationsOf(p, found) \subseteq Jobs
           /\ \A job \in RemindersOf(p, found) \cup EscalationsOf(p, found) : job.item \in found
<1>1. pass[p].day \in Days /\ pass[p].partners \subseteq Partners
  BY DEF ReminderTypeOK, PassStates
<1>2. ASSUME NEW i \in found, NEW u \in People, NEW e \in BOOLEAN, due[i] - pass[p].day \in Nat
      PROVE  JobFor(p, i, u, e) \in Jobs
  <2>1. (e \/ u \in activePeople) \in BOOLEAN
    OBVIOUS
  <2> QED
    BY <1>1, <1>2, <2>1 DEF JobFor, Jobs
<1>3. ASSUME NEW i \in found, Matches(p, i)
      PROVE  JobFor(p, i, responsible[i], FALSE) \in Jobs
  <2>1. due[i] - pass[p].day \in Nat
    BY <1>3, ItemsAssumption DEF Matches
  <2>2. responsible[i] \in People
    BY DEF ReminderTypeOK
  <2> QED
    BY <1>2, <2>1, <2>2
<1>4. ASSUME NEW i \in found, Escalates(p, i), NEW u \in pass[p].partners
      PROVE  JobFor(p, i, u, TRUE) \in Jobs
  <2>1. due[i] - pass[p].day \in Nat
    BY <1>4, ItemsAssumption DEF Escalates
  <2>2. u \in People
    BY <1>1 DEF People
  <2> QED
    BY <1>2, <2>1, <2>2
<1>5. RemindersOf(p, found) \subseteq Jobs
  BY <1>3 DEF RemindersOf
<1>6. EscalationsOf(p, found) \subseteq Jobs
  <2> SUFFICES ASSUME NEW job \in EscalationsOf(p, found)
               PROVE  job \in Jobs
    OBVIOUS
  <2>1. PICK d \in {d \in found : Escalates(p, d)} :
            job \in {JobFor(p, d, u, TRUE) : u \in pass[p].partners \ {responsible[d]}}
    BY DEF EscalationsOf
  <2>2. PICK u \in pass[p].partners : job = JobFor(p, d, u, TRUE)
    BY <2>1
  <2> QED
    BY <1>4, <2>1, <2>2
<1>7. \A job \in RemindersOf(p, found) \cup EscalationsOf(p, found) : job.item \in found
  BY DEF RemindersOf, EscalationsOf, JobFor
<1> QED
  BY <1>5, <1>6, <1>7

(* What the pass is doing fits the job it has in hand.                     *)
PassInv ==
    \A p \in Passes :
        /\ pass[p].status = "none" => pass[p].job = NoJob
        /\ pass[p].step \in {"idle", "deadlines", "tasks"} => pass[p].status = "none"
        /\ pass[p].jobs # {} => pass[p].step \in {"dispatch deadlines", "dispatch tasks"}

(* What is waiting in a pass is as confirmed as what it has taken up.      *)
InertInv ==
    \A job \in attempts \cup UNION {pass[p].jobs : p \in Passes} :
        job.item \in Deadlines /\ due[job.item] # NoDate => job.item \in live

(* As long as no two passes ran at the same time, one of them at most is   *)
(* at work, and what it is about to send is not yet handled.               *)
AloneInv ==
    ~overlapped =>
        /\ \A p, q \in Passes : p = q \/ pass[p] = NoPass \/ pass[q] = NoPass
        /\ \A p \in Passes : pass[p].status = "send" => ~Handled(pass[p].job)

ReminderInv == ReminderTypeOK /\ PassInv /\ InertInv /\ AloneInv /\ LogKeepsUp

LEMMA ReminderInitially == ReminderInit => ReminderInv
<1> SUFFICES ASSUME ReminderInit
             PROVE  ReminderInv
  OBVIOUS
<1>1. \A p \in Passes : pass[p] = NoPass
  BY DEF ReminderInit
<1>2. ReminderTypeOK
  <2>1. pass \in [Passes -> PassStates]
    BY NoPassIs DEF ReminderInit
  <2>2. \A i \in Items : due[i] # NoDate => responsible[i] # NoDate
    BY DEF ReminderInit
  <2>3. responsible \in [Items -> People \cup {NoDate}]
    BY DEF ReminderInit, People
  <2>4. today \in Days /\ changes \in 0 .. MaxChanges
    BY ItemsAssumption DEF ReminderInit, Days
  <2> QED
    BY <1>1, <2>1, <2>2, <2>3, <2>4, NoPassIs DEF ReminderTypeOK, ReminderInit
<1>3. PassInv
  BY <1>1, NoPassIs DEF PassInv
<1>4. InertInv
  <2>1. UNION {pass[p].jobs : p \in Passes} = {}
    BY <1>1, NoPassIs
  <2> QED
    BY <2>1 DEF InertInv, ReminderInit
<1>5. AloneInv
  BY <1>1, NoPassIs DEF AloneInv
<1>6. LogKeepsUp
  BY DEF LogKeepsUp, ReminderInit
<1> QED
  BY <1>2, <1>3, <1>4, <1>5, <1>6 DEF ReminderInv

(* A request changes the types of nothing, drops no live deadline from the *)
(* table's view and confirms no job's item away.                           *)
LEMMA RequestsKeep ==
    ASSUME ReminderInv, Elsewhere, ReminderTypeOK',
           \A i \in Deadlines : due'[i] # NoDate /\ (due[i] # NoDate => i \in live) => i \in live'
    PROVE  ReminderInv'
<1>1. PassInv'
  BY DEF ReminderInv, PassInv, Elsewhere
<1>2. InertInv'
  BY DEF ReminderInv, InertInv, Elsewhere
<1>3. AloneInv'
  BY DEF ReminderInv, AloneInv, Elsewhere, passHistories, Handled
<1>4. LogKeepsUp'
  BY DEF ReminderInv, LogKeepsUp, Elsewhere
<1> QED
  BY <1>1, <1>2, <1>3, <1>4 DEF ReminderInv

(* Types of the tables after a request that writes at most one item.       *)
LEMMA RequestTypes ==
    ASSUME ReminderTypeOK, Elsewhere, today' \in Days, changes' \in 0 .. MaxChanges,
           activePeople' \subseteq People,
           due' \in [Items -> Days \cup {NoDate}],
           responsible' \in [Items -> People \cup {NoDate}],
           \A i \in Items : due'[i] # NoDate => responsible'[i] # NoDate,
           live' \subseteq {i \in Items : due'[i] # NoDate},
           acknowledged' \subseteq {d \in Deadlines : due'[d] # NoDate}
    PROVE  ReminderTypeOK'
BY DEF ReminderTypeOK, Elsewhere, passHistories

LEMMA RequestsStep ==
    ASSUME ReminderInv,
           \/ NewDay
           \/ \E u \in People : SetActive(u)
           \/ \E i \in Items, u \in Assignees, day \in Days : CreateItem(i, u, day) \/ MoveItem(i, u, day)
           \/ \E t \in Tasks : SetDone(t)
           \/ \E d \in Deadlines : ConfirmDeadline(d) \/ AcknowledgeDeadline(d)
           \/ \E i \in Items : DeleteItem(i)
    PROVE  ReminderInv'
<1> USE DEF ReminderInv
<1>1. CASE NewDay
  <2>1. Elsewhere /\ UNCHANGED <<due, responsible, live, acknowledged, activePeople>>
    BY <1>1 DEF NewDay, Elsewhere, itemVars
  <2>2. today' \in Days /\ changes' \in 0 .. MaxChanges
    BY <1>1, ItemsAssumption DEF NewDay, Days, ReminderTypeOK
  <2>3. ReminderTypeOK'
    BY <2>1, <2>2, RequestTypes DEF ReminderTypeOK
  <2> QED
    BY <2>1, <2>3, RequestsKeep
<1>2. ASSUME NEW u \in People, SetActive(u) PROVE ReminderInv'
  <2>1. Elsewhere /\ UNCHANGED <<due, responsible, live, acknowledged, today>>
    BY <1>2 DEF SetActive, ChangeRequest, Elsewhere, itemVars
  <2>2. activePeople' \subseteq People /\ changes' \in 0 .. MaxChanges
    BY <1>2, ItemsAssumption DEF SetActive, ChangeRequest, ReminderTypeOK
  <2>3. ReminderTypeOK'
    BY <2>1, <2>2, RequestTypes DEF ReminderTypeOK
  <2> QED
    BY <2>1, <2>3, RequestsKeep
<1>3. ASSUME ChangeItems
      PROVE  Elsewhere /\ UNCHANGED <<today, activePeople>> /\ changes' \in 0 .. MaxChanges
  BY <1>3, ItemsAssumption DEF ChangeItems, ChangeRequest, Elsewhere, ReminderTypeOK
<1>4. ASSUME NEW i \in Items, NEW u \in Assignees, NEW day \in Days, CreateItem(i, u, day)
      PROVE  ReminderInv'
  <2>1. Elsewhere /\ UNCHANGED <<today, activePeople>> /\ changes' \in 0 .. MaxChanges
    BY <1>3, <1>4 DEF CreateItem
  <2>2. /\ due' \in [Items -> Days \cup {NoDate}] /\ responsible' \in [Items -> People \cup {NoDate}]
        /\ \A k \in Items : due'[k] = IF k = i THEN day ELSE due[k]
        /\ \A k \in Items : responsible'[k] = IF k = i THEN u ELSE responsible[k]
    BY <1>4 DEF CreateItem, ReminderTypeOK, People
  <2>3. u # NoDate /\ day # NoDate
    BY ItemsAssumption DEF People, Days
  <2>4. ReminderTypeOK'
    <3>1. \A k \in Items : due'[k] # NoDate => responsible'[k] # NoDate
      BY <2>2, <2>3 DEF ReminderTypeOK
    <3>2. live' \subseteq {k \in Items : due'[k] # NoDate}
      BY <1>4, <2>2, <2>3 DEF CreateItem, ReminderTypeOK
    <3>3. acknowledged' \subseteq {d \in Deadlines : due'[d] # NoDate}
      BY <1>4, <2>2, <2>3 DEF CreateItem, ReminderTypeOK, Items
    <3> QED
      BY <2>1, <2>2, <3>1, <3>2, <3>3, RequestTypes DEF ReminderTypeOK
  <2>6. \A k \in Deadlines : due'[k] # NoDate /\ (due[k] # NoDate => k \in live) => k \in live'
    BY <1>4, <2>2 DEF CreateItem, Items
  <2> QED
    BY <2>1, <2>2, <2>4, <2>6, RequestsKeep
<1>5. ASSUME NEW i \in Items, NEW u \in Assignees, NEW day \in Days, MoveItem(i, u, day)
      PROVE  ReminderInv'
  <2>1. Elsewhere /\ UNCHANGED <<today, activePeople>> /\ changes' \in 0 .. MaxChanges
    BY <1>3, <1>5 DEF MoveItem
  <2>2. /\ due' \in [Items -> Days \cup {NoDate}] /\ responsible' \in [Items -> People \cup {NoDate}]
        /\ \A k \in Items : due'[k] = IF k = i THEN day ELSE due[k]
        /\ \A k \in Items : responsible'[k] = IF k = i THEN u ELSE responsible[k]
    BY <1>5 DEF MoveItem, ReminderTypeOK, People
  <2>3. u # NoDate /\ day # NoDate
    BY ItemsAssumption DEF People, Days
  <2>4. ReminderTypeOK'
    <3>1. \A k \in Items : due'[k] # NoDate => responsible'[k] # NoDate
      BY <2>2, <2>3 DEF ReminderTypeOK
    <3>2. live' \subseteq {k \in Items : due'[k] # NoDate}
      BY <1>5, <2>2, <2>3 DEF MoveItem, ReminderTypeOK
    <3>3. acknowledged' \subseteq {d \in Deadlines : due'[d] # NoDate}
      BY <1>5, <2>2, <2>3 DEF MoveItem, ReminderTypeOK, Items
    <3> QED
      BY <2>1, <2>2, <3>1, <3>2, <3>3, RequestTypes DEF ReminderTypeOK
  <2>5. \A k \in Deadlines : due'[k] # NoDate /\ (due[k] # NoDate => k \in live) => k \in live'
    BY <1>5, <2>2 DEF MoveItem, Items
  <2> QED
    BY <2>1, <2>4, <2>5, RequestsKeep
<1>6. ASSUME NEW i \in Items, DeleteItem(i) PROVE ReminderInv'
  <2>1. Elsewhere /\ UNCHANGED <<today, activePeople>> /\ changes' \in 0 .. MaxChanges
    BY <1>3, <1>6 DEF DeleteItem
  <2>2. /\ due' \in [Items -> Days \cup {NoDate}] /\ responsible' \in [Items -> People \cup {NoDate}]
        /\ \A k \in Items : due'[k] = IF k = i THEN NoDate ELSE due[k]
        /\ \A k \in Items : responsible'[k] = IF k = i THEN NoDate ELSE responsible[k]
    BY <1>6 DEF DeleteItem, ReminderTypeOK
  <2>3. ReminderTypeOK'
    <3>1. \A k \in Items : due'[k] # NoDate => responsible'[k] # NoDate
      BY <2>2 DEF ReminderTypeOK
    <3>2. live' \subseteq {k \in Items : due'[k] # NoDate}
      BY <1>6, <2>2 DEF DeleteItem, ReminderTypeOK
    <3>3. acknowledged' \subseteq {d \in Deadlines : due'[d] # NoDate}
      BY <1>6, <2>2 DEF DeleteItem, ReminderTypeOK, Items
    <3> QED
      BY <2>1, <2>2, <3>1, <3>2, <3>3, RequestTypes DEF ReminderTypeOK
  <2>4. \A k \in Deadlines : due'[k] # NoDate /\ (due[k] # NoDate => k \in live) => k \in live'
    BY <1>6, <2>2 DEF DeleteItem, Items
  <2> QED
    BY <2>1, <2>3, <2>4, RequestsKeep
<1>7. ASSUME NEW d \in Deadlines, ConfirmDeadline(d) \/ AcknowledgeDeadline(d) PROVE ReminderInv'
  <2>1. /\ Elsewhere /\ UNCHANGED <<today, activePeople, due, responsible>>
        /\ changes' \in 0 .. MaxChanges
    BY <1>3, <1>7 DEF ConfirmDeadline, AcknowledgeDeadline
  <2>2. /\ live \subseteq live' /\ live' \subseteq {k \in Items : due'[k] # NoDate}
        /\ acknowledged' \subseteq {k \in Deadlines : due'[k] # NoDate}
    BY <1>7 DEF ConfirmDeadline, AcknowledgeDeadline, ReminderTypeOK, Items
  <2>3. ReminderTypeOK'
    BY <2>1, <2>2, RequestTypes DEF ReminderTypeOK
  <2> QED
    BY <2>1, <2>2, <2>3, RequestsKeep
<1>8. ASSUME NEW t \in Tasks, SetDone(t) PROVE ReminderInv'
  <2>1. /\ Elsewhere /\ UNCHANGED <<today, activePeople, due, responsible, acknowledged>>
        /\ changes' \in 0 .. MaxChanges
    BY <1>3, <1>8 DEF SetDone
  <2>2. /\ live' \subseteq {k \in Items : due'[k] # NoDate}
        /\ \A k \in Deadlines : k \in live => k \in live'
    BY <1>8, ItemsAssumption DEF SetDone, ReminderTypeOK, Items
  <2>3. ReminderTypeOK'
    BY <2>1, <2>2, RequestTypes DEF ReminderTypeOK
  <2> QED
    BY <2>1, <2>2, <2>3, RequestsKeep
<1> QED
  BY <1>1, <1>2, <1>4, <1>5, <1>6, <1>7, <1>8

(* What the step of a process has to see to: its own state, the jobs it    *)
(* adds, and the job it puts down.                                         *)
LEMMA RunsKeep ==
    ASSUME ReminderInv, NEW p \in Passes, NEW s \in PassStates, Run(p, s),
           s.status # "none" => s.job \in Jobs,
           s.status = "none" => s.job = NoJob,
           s.step # "idle" => s.day \in Days,
           s.step \in {"idle", "deadlines", "tasks"} => s.status = "none",
           s.jobs # {} => s.step \in {"dispatch deadlines", "dispatch tasks"},
           \A r \in log' : r.job \in Jobs /\ r.status \in Outcomes,
           log \subseteq log', pass[p] = NoPass => log' = log,
           attempts \subseteq attempts', attempts' \subseteq attempts \cup {s.job}, attempts' \subseteq Jobs,
           deaths' \in Nat,
           \A job \in (attempts' \ attempts) \cup s.jobs :
               job.item \in Deadlines /\ due[job.item] # NoDate => job.item \in live,
           overlapped' \in BOOLEAN, overlapped => overlapped',
           pass[p] = NoPass /\ ~overlapped' => \A q \in Passes : pass[q] = NoPass,
           s.status = "send" /\ ~overlapped => ~ \E r \in log' : Key(r.job) = Key(s.job) /\ r.status \in {"sent", "skipped"},
           \/ s = NoPass \/ pass[p].job = NoJob \/ s.job = pass[p].job
           \/ \E r \in log' : r.job = pass[p].job
    PROVE  ReminderInv'
<1> USE DEF ReminderInv
<1>1. /\ \A q \in Passes : pass'[q] = IF q = p THEN s ELSE pass[q]
      /\ UNCHANGED <<today, due, responsible, live, acknowledged, activePeople, firmInLog, changes>>
  BY DEF ReminderTypeOK, Run, itemVars
<1>2. ReminderTypeOK'
  BY RunTypes
<1>3. PassInv'
  BY <1>1 DEF PassInv
<1>4. InertInv'
  <2> SUFFICES ASSUME NEW job \in attempts' \cup UNION {pass'[q].jobs : q \in Passes},
                      job.item \in Deadlines, due[job.item] # NoDate
               PROVE  job.item \in live
    BY <1>1 DEF InertInv
  <2>1. CASE job \in attempts'
    BY <2>1 DEF InertInv
  <2>2. CASE job \notin attempts'
    <3>1. PICK q \in Passes : job \in pass'[q].jobs
      BY <2>2
    <3>2. CASE q = p
      BY <1>1, <3>1, <3>2
    <3>3. CASE q # p
      <4>1. job \in pass[q].jobs
        BY <1>1, <3>1, <3>3
      <4> QED
        BY <4>1 DEF InertInv
    <3> QED
      BY <3>2, <3>3
  <2> QED
    BY <2>1, <2>2
<1>5. AloneInv'
  <2> SUFFICES ASSUME ~overlapped'
               PROVE  /\ \A q, r \in Passes : q = r \/ pass'[q] = NoPass \/ pass'[r] = NoPass
                      /\ \A q \in Passes : pass'[q].status = "send" => ~Handled(pass[q].job)'
    BY DEF AloneInv, Handled
  <2>1. ~overlapped
    OBVIOUS
  <2>2. \A q \in Passes \ {p} : pass[q] = NoPass
    BY <2>1 DEF AloneInv
  <2>3. \A q \in Passes \ {p} : pass'[q] = NoPass
    BY <1>1, <2>2
  <2>4. pass'[p] = s
    BY <1>1
  <2>5. ASSUME NEW q \in Passes, pass'[q].status = "send" PROVE ~Handled(pass[q].job)'
    <3>1. q = p
      BY <2>3, <2>5, NoPassIs
    <3> QED
      BY <2>1, <2>4, <2>5, <3>1 DEF Handled
  <2> QED
    BY <2>3, <2>5
<1>6. LogKeepsUp'
  <2> SUFFICES ASSUME NEW q \in Passes, NEW job \in tried'[q] \ {pass'[q].job}
               PROVE  \E r \in log' : r.job = job
    BY DEF LogKeepsUp
  <2>1. CASE q # p
    <3>1. tried'[q] = tried[q] /\ pass'[q] = pass[q]
      BY <1>1, <2>1 DEF Run, ReminderTypeOK
    <3> QED
      BY <3>1 DEF LogKeepsUp
  <2>2. CASE q = p
    <3>1. pass'[q] = s /\ s # NoPass /\ tried'[q] = tried[p] \cup ({s.job} \ {NoJob})
      BY <1>1, <2>2 DEF Run, ReminderTypeOK
    <3>2. job \in tried[p] /\ job # s.job /\ job \in Jobs
      BY <3>1 DEF ReminderTypeOK
    <3>3. CASE job = pass[p].job
      BY <3>1, <3>2, <3>3, JobsAreJobs
    <3>4. CASE job # pass[p].job
      BY <3>2, <3>4 DEF LogKeepsUp
    <3> QED
      BY <3>3, <3>4
  <2> QED
    BY <2>1, <2>2
<1> QED
  BY <1>2, <1>3, <1>4, <1>5, <1>6

(* A step that neither logs, nor takes up a job, nor changes process.      *)
LEMMA QuietRunsKeep ==
    ASSUME ReminderInv, NEW p \in Passes, NEW s \in PassStates, RunQuietly(p, s),
           s.job = pass[p].job, s.status = "none" <=> pass[p].status = "none",
           s.status = "send" => pass[p].status = "send",
           s.step # "idle" => s.day \in Days,
           s.step \in {"idle", "deadlines", "tasks"} => s.status = "none",
           s.jobs # {} => s.step \in {"dispatch deadlines", "dispatch tasks"},
           pass[p] # NoPass,
           \A job \in s.jobs : job.item \in Deadlines /\ due[job.item] # NoDate => job.item \in live
    PROVE  ReminderInv'
<1> USE DEF ReminderInv
<1>1. Run(p, s) /\ UNCHANGED <<log, attempts, deaths, overlapped>>
  BY DEF RunQuietly, passHistories
<1>2. /\ s.status # "none" => s.job \in Jobs
      /\ s.status = "none" => s.job = NoJob
  BY DEF ReminderTypeOK, PassInv
<1>3. s.status = "send" /\ ~overlapped
      => ~ \E r \in log' : Key(r.job) = Key(s.job) /\ r.status \in {"sent", "skipped"}
  BY <1>1 DEF AloneInv, Handled
<1>4. /\ \A r \in log' : r.job \in Jobs /\ r.status \in Outcomes
      /\ attempts' \subseteq Jobs /\ deaths' \in Nat /\ overlapped' \in BOOLEAN
  BY <1>1 DEF ReminderTypeOK
<1> QED
  BY <1>1, <1>2, <1>3, <1>4, RunsKeep

LEMMA BeginStep ==
    ASSUME ReminderInv, NEW p \in Passes, BeginPass(p)
    PROVE  ReminderInv'
<1> USE DEF ReminderInv
<1> DEFINE s == [step |-> "deadlines", day |-> today, partners |-> Partners \cap activePeople,
                 jobs |-> {}, job |-> NoJob, status |-> "none"]
<1>1. Run(p, s) /\ UNCHANGED <<log, attempts, deaths>> /\ pass[p] = NoPass
  BY DEF BeginPass
<1>2. s \in PassStates /\ s.day \in Days
  BY DEF PassStates, PassSteps, ReminderTypeOK
<1>3. /\ overlapped' \in BOOLEAN /\ (overlapped => overlapped')
      /\ ~overlapped' => \A q \in Passes : pass[q] = NoPass
  BY <1>1 DEF BeginPass, ReminderTypeOK
<1>4. /\ \A r \in log' : r.job \in Jobs /\ r.status \in Outcomes
      /\ attempts' \subseteq Jobs /\ deaths' \in Nat
  BY <1>1 DEF ReminderTypeOK
<1>5. pass[p].job = NoJob
  BY <1>1, NoPassIs
<1>6. /\ s.step = "deadlines" /\ s.jobs = {} /\ s.job = NoJob /\ s.status = "none"
  OBVIOUS
<1> HIDE DEF s
<1> QED
  BY <1>1, <1>2, <1>3, <1>4, <1>5, <1>6, RunsKeep

LEMMA ReadStep ==
    ASSUME ReminderInv, NEW p \in Passes, ReadDeadlines(p) \/ ReadTasks(p)
    PROVE  ReminderInv'
<1> USE DEF ReminderInv
<1>1. pass[p] # NoPass /\ pass[p].step # "idle" /\ pass[p].day \in Days
  BY NoPassIs DEF ReadDeadlines, ReadTasks, ReminderTypeOK
<1>2. pass[p].status = "none" /\ pass[p].job = NoJob
  BY DEF ReadDeadlines, ReadTasks, PassInv
<1>3. ASSUME NEW part \in {"dispatch deadlines", "dispatch tasks"}, NEW new \in SUBSET Jobs,
             RunQuietly(p, At(p, part, new, NoJob, "none")),
             \A job \in new : job.item \in Deadlines => job.item \in live
      PROVE  ReminderInv'
  <2> DEFINE s == At(p, part, new, NoJob, "none")
  <2>1. s \in PassStates /\ s.step = part /\ s.day = pass[p].day /\ s.jobs = new /\ s.job = NoJob /\ s.status = "none"
    <3>1. part \in PassSteps
      BY <1>3 DEF PassSteps
    <3>2. new \in SUBSET Jobs
      BY <1>3
    <3>3. s.step = part /\ s.day = pass[p].day /\ s.jobs = new /\ s.job = NoJob /\ s.status = "none"
      BY DEF At
    <3>4. NoJob \in Jobs \cup {NoJob} /\ "none" \in Outcomes \cup {"none", "send"}
      OBVIOUS
    <3>5. At(p, part, new, NoJob, "none") \in PassStates
      BY <3>1, <3>2, <3>4, AtIs
    <3> QED
      BY <3>3, <3>5
  <2>2. RunQuietly(p, s)
    BY <1>3
  <2> HIDE DEF s
  <2> QED
    BY <1>1, <1>2, <1>3, <2>1, <2>2, QuietRunsKeep
<1>4. CASE ReadDeadlines(p)
  <2>1. ConfirmedDeadlines \subseteq {i \in Items : due[i] # NoDate} /\ ConfirmedDeadlines \subseteq live
    BY DEF ConfirmedDeadlines, Items
  <2> DEFINE jobs == RemindersOf(p, ConfirmedDeadlines) \cup EscalationsOf(p, ConfirmedDeadlines)
  <2>2. jobs \in SUBSET Jobs /\ \A job \in jobs : job.item \in live
    BY <1>1, <2>1, FoundJobs
  <2> QED
    BY <1>3, <1>4, <2>2 DEF ReadDeadlines
<1>5. CASE ReadTasks(p)
  <2>1. OpenTasks \subseteq {i \in Items : due[i] # NoDate} /\ OpenTasks \subseteq live
    BY DEF OpenTasks, Items
  <2>2. RemindersOf(p, OpenTasks) \in SUBSET Jobs /\ \A job \in RemindersOf(p, OpenTasks) : job.item \in live
    BY <1>1, <2>1, FoundJobs
  <2> QED
    BY <1>3, <1>5, <2>2 DEF ReadTasks
<1> QED
  BY <1>4, <1>5

(* The parts of a pass that is at work.                                    *)
LEMMA PassParts ==
    ASSUME ReminderInv, NEW p \in Passes
    PROVE  /\ pass[p].step \in PassSteps /\ pass[p].jobs \in SUBSET Jobs
           /\ pass[p].job \in Jobs \cup {NoJob} /\ pass[p].status \in Outcomes \cup {"none", "send"}
           /\ \A job \in pass[p].jobs : job.item \in Deadlines /\ due[job.item] # NoDate => job.item \in live
BY DEF ReminderInv, ReminderTypeOK, PassStates, InertInv

LEMMA TakeStep ==
    ASSUME ReminderInv, NEW p \in Passes, TakeJob(p)
    PROVE  ReminderInv'
<1> USE DEF ReminderInv
<1>1. PICK job \in pass[p].jobs :
          /\ pass[p].job = NoJob
          /\ \/ Handled(job) /\ RunQuietly(p, At(p, pass[p].step, pass[p].jobs \ {job}, NoJob, "none"))
             \/ ~Handled(job) /\ TakeUp(p, job)
  BY DEF TakeJob
<1>2. pass[p].step # "idle" /\ pass[p] # NoPass /\ pass[p].day \in Days
  BY <1>1, NoPassIs DEF PassInv, ReminderTypeOK
<1>3. job \in Jobs
  BY <1>1, PassParts
<1>4. pass[p].status = "none"
  BY <1>1, JobsAreJobs DEF ReminderTypeOK
<1>5. pass[p].step \in {"dispatch deadlines", "dispatch tasks"}
  BY <1>1 DEF PassInv
<1>6. CASE RunQuietly(p, At(p, pass[p].step, pass[p].jobs \ {job}, NoJob, "none"))
  <2> DEFINE s == At(p, pass[p].step, pass[p].jobs \ {job}, NoJob, "none")
  <2>1. /\ s \in PassStates /\ s.step = pass[p].step /\ s.day = pass[p].day
        /\ s.jobs = pass[p].jobs \ {job} /\ s.job = NoJob /\ s.status = "none"
    BY PassParts, AtIs
  <2>2. RunQuietly(p, s)
    BY <1>6
  <2>3. \A k \in s.jobs : k.item \in Deadlines /\ due[k.item] # NoDate => k.item \in live
    BY <2>1, PassParts
  <2> HIDE DEF s
  <2> QED
    BY <1>1, <1>2, <1>4, <1>5, <2>1, <2>2, <2>3, QuietRunsKeep
<1>7. CASE ~Handled(job) /\ TakeUp(p, job)
  <2> DEFINE status == IF job.reachable THEN "send" ELSE "skipped"
             s == At(p, pass[p].step, pass[p].jobs \ {job}, job, status)
  <2>1. /\ s \in PassStates /\ s.step = pass[p].step /\ s.day = pass[p].day
        /\ s.jobs = pass[p].jobs \ {job} /\ s.job = job /\ s.status = status
    BY <1>3, PassParts, AtIs DEF Outcomes
  <2>2. Run(p, s) /\ attempts' = attempts \cup {job} /\ UNCHANGED <<log, deaths, overlapped>>
    BY <1>7 DEF TakeUp, passHistories
  <2>3. s.status # "none"
    BY <2>1
  <2>4. \A k \in (attempts' \ attempts) \cup s.jobs : k.item \in Deadlines /\ due[k.item] # NoDate => k.item \in live
    BY <2>1, <2>2, PassParts
  <2>5. ~ \E r \in log' : Key(r.job) = Key(s.job) /\ r.status \in {"sent", "skipped"}
    BY <1>7, <2>1, <2>2 DEF Handled
  <2>6. /\ \A r \in log' : r.job \in Jobs /\ r.status \in Outcomes
        /\ attempts' \subseteq Jobs /\ deaths' \in Nat /\ overlapped' \in BOOLEAN
    BY <1>3, <2>2 DEF ReminderTypeOK
  <2> HIDE DEF s, status
  <2> QED
    BY <1>1, <1>2, <1>3, <1>5, <2>1, <2>2, <2>3, <2>4, <2>5, <2>6, RunsKeep
<1> QED
  BY <1>1, <1>6, <1>7

LEMMA SendStep ==
    ASSUME ReminderInv, NEW p \in Passes, SendJob(p)
    PROVE  ReminderInv'
<1> USE DEF ReminderInv
<1>1. PICK status \in {"sent", "failed"} :
          RunQuietly(p, At(p, pass[p].step, pass[p].jobs, pass[p].job, status))
  BY DEF SendJob
<1>2. pass[p].status = "send" /\ pass[p] # NoPass
  BY NoPassIs DEF SendJob
<1>3. pass[p].step \notin {"idle", "deadlines", "tasks"} /\ pass[p].day \in Days
  BY <1>2 DEF PassInv, ReminderTypeOK
<1> DEFINE s == At(p, pass[p].step, pass[p].jobs, pass[p].job, status)
<1>4. /\ s \in PassStates /\ s.step = pass[p].step /\ s.day = pass[p].day
      /\ s.jobs = pass[p].jobs /\ s.job = pass[p].job /\ s.status = status
  BY PassParts, AtIs DEF Outcomes
<1>5. s.jobs # {} => s.step \in {"dispatch deadlines", "dispatch tasks"}
  BY <1>4 DEF PassInv
<1>6. RunQuietly(p, s)
  BY <1>1
<1> HIDE DEF s
<1> QED
  BY <1>2, <1>3, <1>4, <1>5, <1>6, PassParts, QuietRunsKeep

LEMMA LogStep ==
    ASSUME ReminderInv, NEW p \in Passes, LogJob(p)
    PROVE  ReminderInv'
<1> USE DEF ReminderInv
<1>1. pass[p].status \in Outcomes /\ UNCHANGED <<attempts, deaths, overlapped>>
  BY DEF LogJob, passHistories
<1>2. pass[p].job \in Jobs /\ pass[p] # NoPass
  BY <1>1, NoPassIs DEF ReminderTypeOK, Outcomes
<1>3. pass[p].step \notin {"idle", "deadlines", "tasks"} /\ pass[p].day \in Days
  BY <1>1 DEF PassInv, ReminderTypeOK, Outcomes
<1>4. /\ attempts' \subseteq Jobs /\ deaths' \in Nat /\ overlapped' \in BOOLEAN
  BY <1>1 DEF ReminderTypeOK
<1>5. CASE firmInLog /\ due[pass[p].job.item] # NoDate
  <2> DEFINE s == At(p, pass[p].step, pass[p].jobs, NoJob, "none")
  <2>1. Run(p, s) /\ log' = log \cup {Row(p)}
    BY <1>5 DEF LogJob, Dispatched
  <2>2. /\ s \in PassStates /\ s.step = pass[p].step /\ s.day = pass[p].day
        /\ s.jobs = pass[p].jobs /\ s.job = NoJob /\ s.status = "none"
    BY PassParts, AtIs
  <2>3. s.jobs # {} => s.step \in {"dispatch deadlines", "dispatch tasks"}
    BY <2>2 DEF PassInv
  <2>4. Row(p).job = pass[p].job /\ Row(p).status = pass[p].status
    BY DEF Row
  <2>5. /\ \A r \in log' : r.job \in Jobs /\ r.status \in Outcomes
        /\ \E r \in log' : r.job = pass[p].job
    BY <1>1, <1>2, <2>1, <2>4 DEF ReminderTypeOK
  <2> HIDE DEF s
  <2> QED
    BY <1>1, <1>2, <1>3, <1>4, <2>1, <2>2, <2>3, <2>5, PassParts, RunsKeep
<1>6. CASE ~(firmInLog /\ due[pass[p].job.item] # NoDate)
  <2>1. Run(p, NoPass) /\ log' = log
    BY <1>6 DEF LogJob
  <2>2. \A r \in log' : r.job \in Jobs /\ r.status \in Outcomes
    BY <2>1 DEF ReminderTypeOK
  <2> QED
    BY <1>1, <1>2, <1>4, <1>6, <2>1, <2>2, NoPassIs, RunsKeep
<1> QED
  BY <1>5, <1>6

LEMMA NextPartStep ==
    ASSUME ReminderInv, NEW p \in Passes, NextPart(p)
    PROVE  ReminderInv'
<1> USE DEF ReminderInv
<1>1. pass[p].jobs = {} /\ pass[p].job = NoJob /\ pass[p].step \in {"dispatch deadlines", "dispatch tasks"}
  BY DEF NextPart
<1>2. pass[p] # NoPass /\ pass[p].status = "none" /\ pass[p].day \in Days
  BY <1>1, NoPassIs, JobsAreJobs DEF ReminderTypeOK
<1>3. CASE RunQuietly(p, At(p, "tasks", {}, NoJob, "none"))
  <2> DEFINE s == At(p, "tasks", {}, NoJob, "none")
  <2>1. /\ s \in PassStates /\ s.step = "tasks" /\ s.day = pass[p].day
        /\ s.jobs = {} /\ s.job = NoJob /\ s.status = "none"
    <3>1. "tasks" \in PassSteps /\ {} \in SUBSET Jobs
      BY DEF PassSteps
    <3> QED
      BY <3>1, AtIs
  <2>2. RunQuietly(p, s)
    BY <1>3
  <2> HIDE DEF s
  <2> QED
    BY <1>1, <1>2, <2>1, <2>2, QuietRunsKeep
<1>4. CASE RunQuietly(p, NoPass)
  BY <1>1, <1>2, <1>4, NoPassIs, QuietRunsKeep
<1> QED
  BY <1>3, <1>4 DEF NextPart

LEMMA DeathStep ==
    ASSUME ReminderInv, NEW p \in Passes, PassDies(p)
    PROVE  ReminderInv'
<1> USE DEF ReminderInv
<1>1. /\ pass[p] # NoPass /\ Run(p, NoPass) /\ UNCHANGED <<log, attempts, overlapped>>
      /\ deaths' = deaths + 1
  BY DEF PassDies
<1>4. /\ \A r \in log' : r.job \in Jobs /\ r.status \in Outcomes
      /\ attempts' \subseteq Jobs /\ deaths' \in Nat /\ overlapped' \in BOOLEAN
  BY <1>1 DEF ReminderTypeOK
<1> QED
  BY <1>1, <1>4, NoPassIs, RunsKeep

LEMMA ReminderStep == ReminderInv /\ [ReminderNext]_reminderVars => ReminderInv'
<1> SUFFICES ASSUME ReminderInv, [ReminderNext]_reminderVars
             PROVE  ReminderInv'
  OBVIOUS
<1>1. CASE UNCHANGED reminderVars
  <2>1. UNCHANGED <<today, due, responsible, live, acknowledged, activePeople, log, pass, firmInLog,
                    changes, attempts, tried, deaths, overlapped>>
    BY <1>1 DEF reminderVars, itemVars, passHistories
  <2>2. ReminderTypeOK'
    BY <2>1 DEF ReminderInv, ReminderTypeOK
  <2>4. PassInv' /\ InertInv'
    BY <2>1 DEF ReminderInv, PassInv, InertInv
  <2>3. AloneInv' /\ LogKeepsUp'
    BY <2>1 DEF ReminderInv, AloneInv, LogKeepsUp, Handled
  <2> QED
    BY <2>2, <2>3, <2>4 DEF ReminderInv
<1>2. CASE \E p \in Passes :
               \/ BeginPass(p) \/ ReadDeadlines(p) \/ ReadTasks(p)
               \/ TakeJob(p) \/ SendJob(p) \/ LogJob(p) \/ NextPart(p) \/ PassDies(p)
  BY <1>2, BeginStep, ReadStep, TakeStep, SendStep, LogStep, NextPartStep, DeathStep
<1> QED
  BY <1>1, <1>2, RequestsStep DEF ReminderNext

LEMMA ReminderInvariant == ReminderSpec => []ReminderInv
BY ReminderInitially, ReminderStep, PTL DEF ReminderSpec

(* Items, the log and the passes keep their types.                         *)
THEOREM ReminderTypes == ReminderSpec => []ReminderTypeOK
<1>1. ReminderInv => ReminderTypeOK
  BY DEF ReminderInv
<1> QED
  BY <1>1, ReminderInvariant, PTL

(* A suggestion has no reminders until a lawyer confirms it (FR-029),      *)
(* although every pass works on what it read before.                       *)
THEOREM SuggestionsAreInert == ReminderSpec => []InertUntilConfirmed
<1>1. ReminderInv => InertUntilConfirmed
  BY DEF ReminderInv, InertInv, InertUntilConfirmed
<1> QED
  BY <1>1, ReminderInvariant, PTL

(* Whatever is sent, fails or is skipped, a pass has a row for each attempt *)
(* behind it: one that cannot be logged is the last (reminders.py:239-338, *)
(* 362-386).                                                               *)
THEOREM PassesLogBeforeTheyGoOn == ReminderSpec => []LogKeepsUp
<1>1. ReminderInv => LogKeepsUp
  BY DEF ReminderInv
<1> QED
  BY <1>1, ReminderInvariant, PTL

(* What was sent or skipped is not sent again by any later pass, as long   *)
(* as passes do not run at the same time (reminders.py:24).                *)
THEOREM HandledJobsStay == ReminderSpec => HandledOnce
<1>1. ReminderInv => RepeatsNothing
  BY DEF ReminderInv, AloneInv, RepeatsNothing
<1>2. ReminderInv /\ [ReminderNext]_reminderVars => [RepeatsNothing]_reminderVars
  BY <1>1
<1> QED
  BY <1>2, ReminderInvariant, PTL DEF ReminderSpec, HandledOnce
-------------------------------------------------------------------------------
(***************************************************************************)
(*                          Reminders of hearings                          *)
(***************************************************************************)
AtWork == {"take", "send", "flag", "log"}

(* A flag stands for a message of the day the hearing is on, unless the    *)
(* hearing has been put off.                                               *)
FlagInv ==
    /\ \A h \in Hearings \ putOff : \A l \in flags[h] : <<h, l, date[h]>> \in sent
    /\ hearingPass.step = "flag" => Message \in sent

(* What the pass has read is true of hearings that were not put off, and   *)
(* names each of them once.                                                *)
ReadInv ==
    /\ \A f \in hearingPass.found \cup {hearingPass.at} :
           f.id \in Hearings => date[f.id] \in {NoHearing, f.day} \/ f.id \in putOff
    /\ \A f, g \in hearingPass.found : f.id = g.id => f = g
    /\ \A f \in hearingPass.found : f.id # hearingPass.at.id
    /\ hearingPass.found # {} => hearingPass.step \in AtWork

(* A message that has gone has its flag, or is about to get it, or the     *)
(* worker could not know, or the hearing is gone.                          *)
SentInv ==
    \A h \in Hearings, l \in Leads, day \in HearingDays :
        <<h, l, day>> \in sent
        => \/ <<h, l>> \in unsure \/ l \in flags[h] \/ date[h] = NoHearing
           \/ hearingPass.step = "flag" /\ hearingPass.at.id = h /\ hearingPass.lead = l

(* What is still to be sent has not been sent knowingly.                   *)
ToSendInv ==
    \A f \in hearingPass.found \cup {hearingPass.at} :
        /\ f \in hearingPass.found \/ hearingPass.step = "send"
        /\ <<f.id, hearingPass.lead, f.day>> \in sent
        => <<f.id, hearingPass.lead>> \in unsure

HearingInv == HearingTypeOK /\ FlagInv /\ ReadInv /\ SentInv /\ ToSendInv

LEMMA NobodyIs == NobodyFound.id = NoHearing /\ \A f \in Found : f # NobodyFound /\ f.id \in Hearings /\ f.day \in HearingDays
BY HearingsAssumption DEF NobodyFound, Found

LEMMA PassAtIs ==
    ASSUME NEW step \in {"idle", "lead", "take", "send", "flag", "log", "release"},
           NEW leads \in SUBSET Leads, NEW lead \in Leads \cup {0}, NEW found \in SUBSET Found,
           NEW at \in Found \cup {NobodyFound}, NEW status \in {"none", "sent", "failed"}
    PROVE  LET s == PassAt(step, leads, lead, found, at, status) IN
           /\ s \in HearingPasses
           /\ s.step = step /\ s.leads = leads /\ s.lead = lead /\ s.found = found /\ s.at = at
           /\ s.status = status
BY DEF PassAt, HearingPasses

LEMMA NoHearingPassIs ==
    /\ NoHearingPass \in HearingPasses /\ NoHearingPass.step = "idle" /\ NoHearingPass.found = {}
    /\ NoHearingPass.at = NobodyFound /\ NoHearingPass.status = "none"
<1>1. {} \in SUBSET Leads /\ {} \in SUBSET Found
  OBVIOUS
<1> QED
  BY <1>1, PassAtIs DEF NoHearingPass

LEMMA HearingParts ==
    ASSUME HearingTypeOK
    PROVE  /\ hearingPass.step \in {"idle", "lead", "take", "send", "flag", "log", "release"}
           /\ hearingPass.leads \in SUBSET Leads /\ hearingPass.lead \in Leads \cup {0}
           /\ hearingPass.found \in SUBSET Found /\ hearingPass.at \in Found \cup {NobodyFound}
           /\ hearingPass.status \in {"none", "sent", "failed"}
BY DEF HearingTypeOK, HearingPasses

LEMMA HearingInitially == HearingInit => HearingInv
<1> SUFFICES ASSUME HearingInit PROVE HearingInv
  OBVIOUS
<1>1. HearingTypeOK
  <2>1. hearingDay \in HearingDays /\ edits \in 0 .. MaxEdits
    BY HearingsAssumption DEF HearingInit, HearingDays
  <2> QED
    BY <2>1, NoHearingPassIs DEF HearingInit, HearingTypeOK
<1>2. FlagInv /\ ReadInv /\ SentInv /\ ToSendInv
  BY NoHearingPassIs, NobodyIs, HearingsAssumption
  DEF HearingInit, FlagInv, ReadInv, SentInv, ToSendInv
<1> QED
  BY <1>1, <1>2 DEF HearingInv

(* Requests change one hearing, while the pass stands still.               *)
LEMMA EditsKeep ==
    ASSUME HearingInv, NEW h \in Hearings, Edit,
           NEW day \in HearingDays \cup {NoHearing}, date' = [date EXCEPT ![h] = day],
           scheduled' \subseteq {k \in Hearings : date'[k] # NoHearing},
           \/ flags' = flags /\ day # NoHearing
           \/ flags' = [flags EXCEPT ![h] = {}] /\ day = NoHearing,
           putOff \subseteq putOff', putOff' \subseteq Hearings,
           \/ day = date[h] \/ day = NoHearing
           \/ date[h] # NoHearing /\ h \in putOff'
           \/ /\ date[h] = NoHearing
              /\ \A s \in sent : s[1] # h
              /\ \A f \in hearingPass.found \cup {hearingPass.at} : f.id # h
    PROVE  HearingInv'
<1> USE DEF HearingInv
<1>1. /\ UNCHANGED <<hearingDay, hearingLog, hearingPass, firmInRow, sent, unsure>>
      /\ edits' \in 0 .. MaxEdits
  BY HearingsAssumption DEF Edit, HearingTypeOK
<1>2. /\ \A k \in Hearings : date'[k] = IF k = h THEN day ELSE date[k]
      /\ date' \in [Hearings -> HearingDays \cup {NoHearing}]
  BY DEF HearingTypeOK
<1>3. /\ \A k \in Hearings : flags'[k] = IF k = h /\ day = NoHearing THEN {} ELSE flags[k]
      /\ flags' \in [Hearings -> SUBSET Leads]
  BY DEF HearingTypeOK
<1>4. HearingTypeOK'
  BY <1>1, <1>2, <1>3 DEF HearingTypeOK
<1>5. FlagInv'
  <2>1. date[h] = NoHearing => flags[h] = {}
    BY DEF HearingTypeOK
  <2> QED
    BY <1>1, <1>2, <1>3, <2>1 DEF FlagInv, Message
<1>6. ReadInv'
  BY <1>1, <1>2 DEF ReadInv
<1>7. SentInv'
  <2> SUFFICES ASSUME NEW k \in Hearings, NEW l \in Leads, NEW d \in HearingDays, <<k, l, d>> \in sent
               PROVE  \/ <<k, l>> \in unsure \/ l \in flags'[k] \/ date'[k] = NoHearing
                      \/ hearingPass.step = "flag" /\ hearingPass.at.id = k /\ hearingPass.lead = l
    BY <1>1 DEF SentInv
  <2>1. \/ <<k, l>> \in unsure \/ l \in flags[k] \/ date[k] = NoHearing
        \/ hearingPass.step = "flag" /\ hearingPass.at.id = k /\ hearingPass.lead = l
    BY DEF SentInv
  <2>2. <<k, l, d>>[1] = k
    OBVIOUS
  <2>3. CASE k # h
    BY <1>2, <1>3, <2>1, <2>3
  <2>4. CASE k = h
    BY <1>2, <1>3, <2>1, <2>2, <2>4
  <2> QED
    BY <2>3, <2>4
<1>8. ToSendInv'
  BY <1>1 DEF ToSendInv
<1> QED
  BY <1>4, <1>5, <1>6, <1>7, <1>8

LEMMA EditStep ==
    ASSUME HearingInv, NEW h \in Hearings,
           \/ \E day \in HearingDays : CreateHearing(h, day) \/ PutOff(h, day)
           \/ SetScheduled(h) \/ DeleteHearing(h)
    PROVE  HearingInv'
<1> USE DEF HearingInv
<1>1. \A day \in HearingDays : day # NoHearing
  BY HearingsAssumption DEF HearingDays
<1>2. ASSUME NEW day \in HearingDays, CreateHearing(h, day) PROVE HearingInv'
  <2>1. scheduled' \subseteq {k \in Hearings : date'[k] # NoHearing}
    BY <1>1, <1>2 DEF CreateHearing, HearingTypeOK
  <2>2. putOff' = putOff /\ putOff' \subseteq Hearings
    BY <1>2 DEF CreateHearing, HearingTypeOK
  <2> QED
    BY <1>1, <1>2, <2>1, <2>2, EditsKeep DEF CreateHearing
<1>3. ASSUME NEW day \in HearingDays, PutOff(h, day) PROVE HearingInv'
  <2>1. scheduled' \subseteq {k \in Hearings : date'[k] # NoHearing}
    BY <1>1, <1>3 DEF PutOff, HearingTypeOK
  <2>2. putOff \subseteq putOff' /\ h \in putOff' /\ putOff' \subseteq Hearings
    BY <1>3 DEF PutOff, HearingTypeOK
  <2> QED
    BY <1>1, <1>3, <2>1, <2>2, EditsKeep DEF PutOff
<1>4. CASE SetScheduled(h)
  <2>1. date[h] \in HearingDays /\ date' = [date EXCEPT ![h] = date[h]]
    BY <1>4 DEF SetScheduled, HearingTypeOK
  <2>2. scheduled' \subseteq {k \in Hearings : date'[k] # NoHearing}
    BY <1>4 DEF SetScheduled, HearingTypeOK
  <2>3. putOff' = putOff /\ putOff' \subseteq Hearings /\ flags' = flags /\ Edit
    BY <1>4 DEF SetScheduled, HearingTypeOK
  <2> QED
    BY <1>1, <2>1, <2>2, <2>3, EditsKeep
<1>5. CASE DeleteHearing(h)
  <2>1. scheduled' \subseteq {k \in Hearings : date'[k] # NoHearing}
    BY <1>5 DEF DeleteHearing, HearingTypeOK
  <2>2. putOff' = putOff /\ putOff' \subseteq Hearings
    BY <1>5 DEF DeleteHearing, HearingTypeOK
  <2> QED
    BY <1>5, <2>1, <2>2, EditsKeep DEF DeleteHearing
<1> QED
  BY <1>2, <1>3, <1>4, <1>5

(* A step of the pass, to a state s that is well formed.                   *)
LEMMA GoesOn ==
    ASSUME HearingInv, NEW s \in HearingPasses, GoOn(s),
           s.step \in {"send", "flag", "log"} <=> s.at # NobodyFound,
           s.step \in AtWork => s.lead \in Leads,
           s.step = "log" => s.status # "none",
           flags' \in [Hearings -> SUBSET Leads],
           \A h \in Hearings : flags[h] \subseteq flags'[h] /\ (date[h] = NoHearing => flags'[h] = {}),
           hearingLog' \subseteq Hearings \X Leads \X {"sent", "failed"},
           sent \subseteq sent', sent' \subseteq Hearings \X Leads \X HearingDays,
           unsure \subseteq unsure', unsure' \subseteq Hearings \X Leads,
           \* flags
           \A h \in Hearings \ putOff : \A l \in flags'[h] \ flags[h] : <<h, l, date[h]>> \in sent',
           s.step = "flag" => <<s.at.id, s.lead, s.at.day>> \in sent',
           \* what was read
           \A f \in s.found \cup {s.at} :
               \/ f \in hearingPass.found \cup {hearingPass.at}
               \/ f.id \in Hearings => f.day = date[f.id],
           \A f, g \in s.found : f.id = g.id => f = g,
           \A f \in s.found : f.id # s.at.id,
           s.found # {} => s.step \in AtWork,
           \* what was sent
           \A h \in Hearings, l \in Leads, day \in HearingDays :
               /\ <<h, l, day>> \in sent'
               /\ \/ <<h, l, day>> \notin sent
                  \/ hearingPass.step = "flag" /\ hearingPass.at.id = h /\ hearingPass.lead = l
               => \/ <<h, l>> \in unsure' \/ l \in flags'[h] \/ date[h] = NoHearing
                  \/ s.step = "flag" /\ s.at.id = h /\ s.lead = l,
           \* what is to be sent
           \A f \in s.found \cup {s.at} :
               (f \in s.found \/ s.step = "send") /\ <<f.id, s.lead, f.day>> \in sent' => <<f.id, s.lead>> \in unsure'
    PROVE  HearingInv'
<1> USE DEF HearingInv
<1>1. hearingPass' = s /\ UNCHANGED <<hearingDay, date, scheduled, firmInRow, edits, putOff>>
  BY DEF GoOn
<1>2. HearingTypeOK'
  BY <1>1 DEF HearingTypeOK, AtWork
<1>3. FlagInv'
  <2>1. \A h \in Hearings \ putOff : \A l \in flags'[h] : <<h, l, date[h]>> \in sent'
    BY DEF FlagInv
  <2>2. s.step = "flag" => Message' \in sent'
    BY <1>1 DEF Message
  <2> QED
    BY <1>1, <2>1, <2>2 DEF FlagInv
<1>4. ReadInv'
  BY <1>1 DEF ReadInv
<1>5. SentInv'
  <2> SUFFICES ASSUME NEW h \in Hearings, NEW l \in Leads, NEW day \in HearingDays, <<h, l, day>> \in sent'
               PROVE  \/ <<h, l>> \in unsure' \/ l \in flags'[h] \/ date[h] = NoHearing
                      \/ s.step = "flag" /\ s.at.id = h /\ s.lead = l
    BY <1>1 DEF SentInv
  <2> QED
    BY DEF SentInv
<1>6. ToSendInv'
  BY <1>1 DEF ToSendInv
<1> QED
  BY <1>2, <1>3, <1>4, <1>5, <1>6

(* A step that sends nothing and sets no flag, to a state in which nothing *)
(* is in hand.                                                             *)
LEMMA GoesOnQuietly ==
    ASSUME HearingInv, NEW s \in HearingPasses, GoOn(s), UNCHANGED <<flags, sent>>,
           s.at = NobodyFound, s.step \in {"idle", "lead", "take", "release"},
           s.step = "take" => s.lead \in Leads,
           hearingLog' \subseteq Hearings \X Leads \X {"sent", "failed"},
           unsure \subseteq unsure', unsure' \subseteq Hearings \X Leads,
           hearingPass.step = "flag" => Reminder \in unsure',
           s.found # {} => s.step = "take",
           \A f \in s.found :
               \/ f \in hearingPass.found /\ s.lead = hearingPass.lead
               \/ /\ f.id \in Hearings /\ f.day = date[f.id]
                  /\ <<f.id, s.lead, f.day>> \in sent => <<f.id, s.lead>> \in unsure',
           \A f, g \in s.found : f.id = g.id => f = g
    PROVE  HearingInv'
<1> USE DEF HearingInv
<1>1. s.found \subseteq Found
  BY DEF HearingPasses
<1>2. \A f \in s.found : f.id # s.at.id
  BY <1>1, NobodyIs, HearingsAssumption
<1>3. \A f \in s.found \cup {s.at} :
          \/ f \in hearingPass.found \cup {hearingPass.at}
          \/ f.id \in Hearings => f.day = date[f.id]
  BY NobodyIs, HearingsAssumption
<1>4. \A h \in Hearings, l \in Leads, day \in HearingDays :
          /\ <<h, l, day>> \in sent'
          /\ \/ <<h, l, day>> \notin sent
             \/ hearingPass.step = "flag" /\ hearingPass.at.id = h /\ hearingPass.lead = l
          => <<h, l>> \in unsure'
  BY DEF Reminder
<1>5. \A f \in s.found \cup {s.at} :
          (f \in s.found \/ s.step = "send") /\ <<f.id, s.lead, f.day>> \in sent' => <<f.id, s.lead>> \in unsure'
  BY DEF ToSendInv
<1>6. /\ flags' \in [Hearings -> SUBSET Leads] /\ flags' = flags
      /\ \A h \in Hearings : date[h] = NoHearing => flags'[h] = {}
  BY DEF HearingTypeOK
<1>7. sent' = sent /\ sent' \subseteq Hearings \X Leads \X HearingDays
  BY DEF HearingTypeOK
<1>8. /\ s.step \in {"send", "flag", "log"} <=> s.at # NobodyFound
      /\ s.step \in AtWork => s.lead \in Leads
      /\ s.step \notin {"flag", "log", "send"}
      /\ s.found # {} => s.step \in AtWork
  BY DEF AtWork
<1>9. /\ \A h \in Hearings : flags[h] \subseteq flags'[h]
      /\ \A h \in Hearings \ putOff : \A l \in flags'[h] \ flags[h] : <<h, l, date[h]>> \in sent'
  BY <1>6
<1> QED
  BY <1>2, <1>3, <1>4, <1>5, <1>6, <1>7, <1>8, <1>9, GoesOn

LEMMA BeginHearingsStep == ASSUME HearingInv, BeginHearings PROVE HearingInv'
<1> USE DEF HearingInv
<1> DEFINE s == Left("lead", Leads, 0, {})
<1>1. s \in HearingPasses /\ s.step = "lead" /\ s.found = {} /\ s.at = NobodyFound
  <2>1. Leads \in SUBSET Leads /\ {} \in SUBSET Found
    OBVIOUS
  <2> QED
    BY <2>1, PassAtIs DEF Left
<1>2. GoOn(s) /\ UNCHANGED <<flags, hearingLog, sent, unsure>> /\ hearingPass.step = "idle"
  BY NoHearingPassIs DEF BeginHearings, GoOnQuietly
<1>3. /\ hearingLog' \subseteq Hearings \X Leads \X {"sent", "failed"}
      /\ unsure' \subseteq Hearings \X Leads
  BY <1>2 DEF HearingTypeOK
<1> HIDE DEF s
<1> QED
  BY <1>1, <1>2, <1>3, GoesOnQuietly

LEMMA ReadHearingsStep == ASSUME HearingInv, ReadHearings PROVE HearingInv'
<1> USE DEF HearingInv
<1>1. UNCHANGED <<flags, hearingLog, sent, unsure>> /\ hearingPass.step = "lead"
  BY DEF ReadHearings, GoOnQuietly
<1>2. /\ hearingLog' \subseteq Hearings \X Leads \X {"sent", "failed"}
      /\ unsure' \subseteq Hearings \X Leads
  BY <1>1 DEF HearingTypeOK
<1>3. CASE GoOnQuietly(Left("release", {}, hearingPass.lead, {}))
  <2> DEFINE s == Left("release", {}, hearingPass.lead, {})
  <2>1. s \in HearingPasses /\ s.step = "release" /\ s.found = {} /\ s.at = NobodyFound
    <3>1. {} \in SUBSET Leads /\ {} \in SUBSET Found
      OBVIOUS
    <3> QED
      BY <3>1, HearingParts, PassAtIs DEF Left
  <2>2. GoOn(s)
    BY <1>3 DEF GoOnQuietly
  <2> HIDE DEF s
  <2> QED
    BY <1>1, <1>2, <2>1, <2>2, GoesOnQuietly
<1>4. ASSUME NEW lead \in hearingPass.leads,
             GoOnQuietly(Left("take", hearingPass.leads \ {lead}, lead,
                              {[id |-> h, day |-> date[h]] : h \in Unflagged(lead)}))
      PROVE  HearingInv'
  <2> DEFINE found == {[id |-> h, day |-> date[h]] : h \in Unflagged(lead)}
             s == Left("take", hearingPass.leads \ {lead}, lead, found)
  <2>1. lead \in Leads /\ hearingPass.leads \ {lead} \in SUBSET Leads
    BY <1>4, HearingParts
  <2>2. \A h \in Unflagged(lead) : date[h] \in HearingDays
    BY <2>1 DEF Unflagged, Due, HearingTypeOK
  <2>3. /\ found \in SUBSET Found
        /\ \A f \in found : f.id \in Unflagged(lead) /\ f.day = date[f.id]
        /\ \A f, g \in found : f.id = g.id => f = g
    BY <2>2 DEF Found, Unflagged
  <2> HIDE DEF found
  <2>4. s \in HearingPasses /\ s.step = "take" /\ s.lead = lead /\ s.found = found /\ s.at = NobodyFound
    BY <2>1, <2>3, PassAtIs DEF Left
  <2>5. GoOn(s)
    BY <1>4 DEF GoOnQuietly, found
  <2>6. ASSUME NEW f \in found
        PROVE  /\ f.id \in Hearings /\ f.day = date[f.id]
               /\ <<f.id, lead, f.day>> \in sent => <<f.id, lead>> \in unsure
    <3>1. f.id \in Hearings /\ lead \notin flags[f.id] /\ f.day = date[f.id] /\ f.day \in HearingDays
      BY <2>2, <2>3 DEF Unflagged
    <3>2. date[f.id] # NoHearing
      BY <3>1, HearingsAssumption DEF HearingDays
    <3> QED
      BY <1>1, <2>1, <3>1, <3>2 DEF SentInv
  <2> HIDE DEF s
  <2> QED
    BY <1>1, <1>2, <2>1, <2>3, <2>4, <2>5, <2>6, GoesOnQuietly
<1> QED
  BY <1>3, <1>4 DEF ReadHearings

LEMMA TakeHearingStep == ASSUME HearingInv, TakeHearing PROVE HearingInv'
<1> USE DEF HearingInv
<1>1. UNCHANGED <<flags, hearingLog, sent, unsure>> /\ hearingPass.step = "take" /\ hearingPass.lead \in Leads
  BY DEF TakeHearing, GoOnQuietly, HearingTypeOK
<1>2. /\ hearingLog' \subseteq Hearings \X Leads \X {"sent", "failed"}
      /\ unsure' \subseteq Hearings \X Leads /\ sent' \subseteq Hearings \X Leads \X HearingDays
  BY <1>1 DEF HearingTypeOK
<1>3. CASE GoOnQuietly(Left("lead", hearingPass.leads, hearingPass.lead, {}))
  <2> DEFINE s == Left("lead", hearingPass.leads, hearingPass.lead, {})
  <2>1. s \in HearingPasses /\ s.step = "lead" /\ s.found = {} /\ s.at = NobodyFound
    <3>1. {} \in SUBSET Found
      OBVIOUS
    <3> QED
      BY <3>1, HearingParts, PassAtIs DEF Left
  <2>2. GoOn(s)
    BY <1>3 DEF GoOnQuietly
  <2> HIDE DEF s
  <2> QED
    BY <1>1, <1>2, <2>1, <2>2, GoesOnQuietly
<1>4. ASSUME NEW f \in hearingPass.found,
             GoOnQuietly(PassAt("send", hearingPass.leads, hearingPass.lead, hearingPass.found \ {f}, f, "none"))
      PROVE  HearingInv'
  <2> DEFINE s == PassAt("send", hearingPass.leads, hearingPass.lead, hearingPass.found \ {f}, f, "none")
  <2>1. f \in Found /\ hearingPass.found \ {f} \in SUBSET Found /\ f # NobodyFound
    BY <1>4, HearingParts, NobodyIs
  <2>2. /\ s \in HearingPasses /\ s.step = "send" /\ s.lead = hearingPass.lead /\ s.at = f
        /\ s.found = hearingPass.found \ {f}
    BY <2>1, HearingParts, PassAtIs
  <2>3. GoOn(s)
    BY <1>4 DEF GoOnQuietly
  <2>4. /\ \A g \in s.found \cup {s.at} : g \in hearingPass.found
        /\ \A g, k \in s.found : g.id = k.id => g = k
        /\ \A g \in s.found : g.id # s.at.id
    BY <1>4, <2>2 DEF ReadInv
  <2>5. \A g \in s.found \cup {s.at} : <<g.id, s.lead, g.day>> \in sent' => <<g.id, s.lead>> \in unsure'
    BY <1>1, <2>2, <2>4 DEF ToSendInv
  <2>6. /\ flags' \in [Hearings -> SUBSET Leads]
        /\ \A h \in Hearings : flags[h] = flags'[h] /\ (date[h] = NoHearing => flags'[h] = {})
    BY <1>1 DEF HearingTypeOK
  <2>7. s.step \in AtWork
    BY <2>2 DEF AtWork
  <2> HIDE DEF s
  <2> QED
    BY <1>1, <1>2, <2>1, <2>2, <2>3, <2>4, <2>5, <2>6, <2>7, GoesOn
<1> QED
  BY <1>3, <1>4 DEF TakeHearing

(* The hearing in hand, while there is one.                                *)
LEMMA HandIs ==
    ASSUME HearingInv, hearingPass.step \in {"send", "flag", "log"}
    PROVE  /\ hearingPass.at \in Found /\ hearingPass.at # NobodyFound /\ hearingPass.lead \in Leads
           /\ hearingPass.at.id \in Hearings /\ hearingPass.at.day \in HearingDays
           /\ Reminder \in Hearings \X Leads /\ Message \in Hearings \X Leads \X HearingDays
<1>1. /\ hearingPass.at \in Found /\ hearingPass.at # NobodyFound /\ hearingPass.lead \in Leads
  BY HearingParts DEF HearingInv, HearingTypeOK
<1> QED
  BY <1>1, NobodyIs DEF Reminder, Message

(* The same hearing in hand, one step on.                                  *)
LEMMA StaysInHand ==
    ASSUME HearingInv, hearingPass.step \in {"send", "flag"},
           NEW step \in {"flag", "log"}, NEW status \in {"sent", "failed"}, GoOn(InHand(step, status)),
           UNCHANGED hearingLog,
           flags' \in [Hearings -> SUBSET Leads],
           \A h \in Hearings : flags[h] \subseteq flags'[h] /\ (date[h] = NoHearing => flags'[h] = {}),
           \A h \in Hearings : \A l \in flags'[h] \ flags[h] :
               <<h, l>> = Reminder /\ hearingPass.step = "flag",
           sent \subseteq sent', sent' \subseteq sent \cup {Message}, step = "flag" => Message \in sent',
           unsure \subseteq unsure', unsure' \subseteq unsure \cup {Reminder},
           \/ step = "flag" \/ Reminder \in unsure' \/ hearingPass.lead \in flags'[hearingPass.at.id]
           \/ date[hearingPass.at.id] = NoHearing
           \/ sent' = sent /\ hearingPass.step = "send"
    PROVE  HearingInv'
<1> USE DEF HearingInv
<1> DEFINE s == InHand(step, status)
<1>1. /\ s \in HearingPasses /\ s.step = step /\ s.lead = hearingPass.lead /\ s.at = hearingPass.at
      /\ s.found = hearingPass.found /\ s.status = status
  BY HearingParts, PassAtIs DEF InHand
<1>2. GoOn(s)
  OBVIOUS
<1> HIDE DEF s
<1>3. sent' \subseteq Hearings \X Leads \X HearingDays /\ unsure' \subseteq Hearings \X Leads
  BY HandIs DEF HearingTypeOK
<1>4. ASSUME NEW h \in Hearings \ putOff, NEW l \in flags'[h] \ flags[h]
      PROVE  <<h, l, date[h]>> \in sent'
  <2>1. h = hearingPass.at.id /\ l = hearingPass.lead /\ hearingPass.step = "flag"
    BY <1>4 DEF Reminder
  <2>2. date[h] = hearingPass.at.day
    BY <1>4, <2>1 DEF ReadInv
  <2> QED
    BY <2>1, <2>2 DEF FlagInv, Message
<1>5. \A f \in s.found : f.id # s.at.id
  BY <1>1 DEF ReadInv
<1>6. \A h \in Hearings, l \in Leads, day \in HearingDays :
          /\ <<h, l, day>> \in sent'
          /\ \/ <<h, l, day>> \notin sent
             \/ hearingPass.step = "flag" /\ hearingPass.at.id = h /\ hearingPass.lead = l
          => \/ <<h, l>> \in unsure' \/ l \in flags'[h] \/ date[h] = NoHearing
             \/ s.step = "flag" /\ s.at.id = h /\ s.lead = l
  BY <1>1 DEF Message, Reminder
<1>7. \A f \in s.found \cup {s.at} :
          (f \in s.found \/ s.step = "send") /\ <<f.id, s.lead, f.day>> \in sent' => <<f.id, s.lead>> \in unsure'
  BY <1>1, <1>5 DEF ToSendInv, Message
<1>8. hearingLog' \subseteq Hearings \X Leads \X {"sent", "failed"}
  BY DEF HearingTypeOK
<1>9. /\ s.step \in AtWork /\ s.lead \in Leads /\ s.at # NobodyFound
      /\ s.step = "flag" => <<s.at.id, s.lead, s.at.day>> \in sent'
  BY <1>1, HandIs DEF AtWork, Message
<1>10. \A f, g \in s.found : f.id = g.id => f = g
  BY <1>1 DEF ReadInv
<1> QED
  BY <1>1, <1>2, <1>3, <1>4, <1>5, <1>6, <1>7, <1>8, <1>9, <1>10, GoesOn

LEMMA SendMessageStep == ASSUME HearingInv, SendMessage PROVE HearingInv'
<1> USE DEF HearingInv
<1>1. hearingPass.step = "send" /\ UNCHANGED <<flags, hearingLog>>
  BY DEF SendMessage
<1>2. /\ flags' \in [Hearings -> SUBSET Leads]
      /\ \A h \in Hearings : flags[h] = flags'[h] /\ (date[h] = NoHearing => flags'[h] = {})
  BY <1>1 DEF HearingTypeOK
<1>3. PICK step \in {"flag", "log"}, status \in {"sent", "failed"} :
          /\ GoOn(InHand(step, status))
          /\ sent' = sent \/ sent' = sent \cup {Message}
          /\ unsure' = unsure \/ unsure' = unsure \cup {Reminder}
          /\ step = "flag" => Message \in sent'
          /\ step = "flag" \/ Reminder \in unsure' \/ sent' = sent
  BY DEF SendMessage
<1> QED
  BY <1>1, <1>2, <1>3, StaysInHand

LEMMA SetFlagStep == ASSUME HearingInv, SetFlag PROVE HearingInv'
<1> USE DEF HearingInv
<1> DEFINE h0 == hearingPass.at.id
<1>1. hearingPass.step = "flag" /\ GoOn(InHand("log", "sent")) /\ UNCHANGED <<hearingLog, sent, unsure>>
  BY DEF SetFlag
<1>2. h0 \in Hearings /\ hearingPass.lead \in Leads
  BY <1>1, HandIs
<1>3. CASE date[h0] = NoHearing
  <2>1. flags' = flags
    BY <1>3 DEF SetFlag
  <2>2. /\ flags' \in [Hearings -> SUBSET Leads]
        /\ \A h \in Hearings : flags[h] = flags'[h] /\ (date[h] = NoHearing => flags'[h] = {})
    BY <2>1 DEF HearingTypeOK
  <2> QED
    BY <1>1, <1>3, <2>2, StaysInHand
<1>4. CASE date[h0] # NoHearing
  <2>1. flags' = [flags EXCEPT ![h0] = @ \cup {hearingPass.lead}]
    BY <1>4 DEF SetFlag
  <2>2. /\ flags' \in [Hearings -> SUBSET Leads]
        /\ \A h \in Hearings : flags'[h] = IF h = h0 THEN flags[h] \cup {hearingPass.lead} ELSE flags[h]
    BY <1>2, <2>1 DEF HearingTypeOK
  <2>3. /\ \A h \in Hearings : flags[h] \subseteq flags'[h] /\ (date[h] = NoHearing => flags'[h] = {})
        /\ hearingPass.lead \in flags'[h0]
    BY <1>2, <1>4, <2>2 DEF HearingTypeOK
  <2>4. \A h \in Hearings : \A l \in flags'[h] \ flags[h] : <<h, l>> = Reminder
    BY <2>2 DEF Reminder
  <2> QED
    BY <1>1, <2>2, <2>3, <2>4, StaysInHand
<1> QED
  BY <1>3, <1>4

LEMMA LogHearingStep == ASSUME HearingInv, LogHearing PROVE HearingInv'
<1> USE DEF HearingInv
<1>1. hearingPass.step = "log" /\ UNCHANGED <<flags, sent, unsure>>
  BY DEF LogHearing
<1>2. hearingPass.lead \in Leads /\ hearingPass.at.id \in Hearings /\ hearingPass.status \in {"sent", "failed"}
  BY <1>1, HandIs, HearingParts DEF HearingTypeOK
<1>3. unsure' \subseteq Hearings \X Leads
  BY <1>1 DEF HearingTypeOK
<1>4. CASE GoOn(Left("take", hearingPass.leads, hearingPass.lead, hearingPass.found))
           /\ hearingLog' = hearingLog \cup {<<hearingPass.at.id, hearingPass.lead, hearingPass.status>>}
  <2> DEFINE s == Left("take", hearingPass.leads, hearingPass.lead, hearingPass.found)
  <2>1. /\ s \in HearingPasses /\ s.step = "take" /\ s.lead = hearingPass.lead
        /\ s.found = hearingPass.found /\ s.at = NobodyFound
    BY HearingParts, PassAtIs DEF Left
  <2>2. GoOn(s)
    BY <1>4
  <2>3. hearingLog' \subseteq Hearings \X Leads \X {"sent", "failed"}
    BY <1>2, <1>4 DEF HearingTypeOK
  <2>4. \A f, g \in s.found : f.id = g.id => f = g
    BY <2>1 DEF ReadInv
  <2> HIDE DEF s
  <2> QED
    BY <1>1, <1>2, <1>3, <2>1, <2>2, <2>3, <2>4, GoesOnQuietly
<1>5. CASE hearingLog' = hearingLog /\ GoOn(NoHearingPass)
  <2>1. hearingLog' \subseteq Hearings \X Leads \X {"sent", "failed"}
    BY <1>5 DEF HearingTypeOK
  <2> QED
    BY <1>1, <1>3, <1>5, <2>1, NoHearingPassIs, GoesOnQuietly
<1> QED
  BY <1>4, <1>5 DEF LogHearing

LEMMA EndStep == ASSUME HearingInv, Release \/ WorkerDies PROVE HearingInv'
<1> USE DEF HearingInv
<1>1. GoOn(NoHearingPass) /\ UNCHANGED <<flags, hearingLog, sent>>
  BY DEF Release, WorkerDies, GoOnQuietly
<1>2. hearingPass.step = "flag" => Reminder \in Hearings \X Leads
  BY HandIs
<1>3. /\ unsure \subseteq unsure' /\ unsure' \subseteq Hearings \X Leads
      /\ hearingPass.step = "flag" => Reminder \in unsure'
  BY <1>2 DEF Release, WorkerDies, GoOnQuietly, HearingTypeOK
<1>4. hearingLog' \subseteq Hearings \X Leads \X {"sent", "failed"}
  BY <1>1 DEF HearingTypeOK
<1> QED
  BY <1>1, <1>3, <1>4, NoHearingPassIs, GoesOnQuietly

LEMMA HearingStep == HearingInv /\ [HearingNext]_hearingVars => HearingInv'
<1> SUFFICES ASSUME HearingInv, [HearingNext]_hearingVars PROVE HearingInv'
  OBVIOUS
<1>1. CASE UNCHANGED hearingVars
  BY <1>1 DEF hearingVars, HearingInv, HearingTypeOK, FlagInv, ReadInv, SentInv, ToSendInv, Message
<1>2. CASE NewHearingDay
  <2>1. UNCHANGED <<date, scheduled, flags, hearingLog, hearingPass, firmInRow, edits, sent, unsure, putOff>>
    BY <1>2 DEF NewHearingDay
  <2>2. hearingDay' \in HearingDays
    BY <1>2, HearingsAssumption DEF NewHearingDay, HearingDays, HearingInv, HearingTypeOK
  <2> QED
    BY <2>1, <2>2 DEF HearingInv, HearingTypeOK, FlagInv, ReadInv, SentInv, ToSendInv, Message
<1> QED
  BY <1>1, <1>2, EditStep, BeginHearingsStep, ReadHearingsStep, TakeHearingStep, SendMessageStep,
     SetFlagStep, LogHearingStep, EndStep
  DEF HearingNext

LEMMA HearingInvariant == HearingSpec => []HearingInv
BY HearingInitially, HearingStep, PTL DEF HearingSpec

(* Hearings, flags, the log and the pass keep their types.                 *)
THEOREM HearingTypes == HearingSpec => []HearingTypeOK
<1>1. HearingInv => HearingTypeOK
  BY DEF HearingInv
<1> QED
  BY <1>1, HearingInvariant, PTL

(* For every lead, a hearing that stays on its day is never left out, and  *)
(* no hearing has one day's reminder twice, wherever passes die and        *)
(* whatever rows are refused, unless the worker could not know that the    *)
(* message had gone (hearing_reminders.py:43, 64-105).                     *)
THEOREM HearingsAreRemindedOnce == HearingSpec => RemindedOnce
<1>1. ASSUME HearingInv, HearingNext PROVE LeavesNoneOut
  <2> USE DEF HearingInv
  <2> SUFFICES ASSUME NEW h \in Hearings \ putOff, hearingPass.step = "lead", hearingPass'.step = "take",
                      Due(h, hearingPass'.lead)
               PROVE  \/ \E f \in hearingPass'.found : f.id = h
                      \/ <<h, hearingPass'.lead, date[h]>> \in sent
    BY DEF LeavesNoneOut
  <2>1. ReadHearings
    BY <1>1, NoHearingPassIs
    DEF HearingNext, NewHearingDay, CreateHearing, PutOff, SetScheduled, DeleteHearing, Edit, BeginHearings,
        TakeHearing, SendMessage, SetFlag, LogHearing, Release, WorkerDies, GoOn
  <2>2. PICK lead \in hearingPass.leads :
            hearingPass' = Left("take", hearingPass.leads \ {lead}, lead,
                                {[id |-> k, day |-> date[k]] : k \in Unflagged(lead)})
    BY <2>1 DEF ReadHearings, GoOnQuietly, GoOn, Left, PassAt
  <2>3. /\ hearingPass'.lead = lead
        /\ hearingPass'.found = {[id |-> k, day |-> date[k]] : k \in Unflagged(lead)}
    BY <2>2 DEF Left, PassAt
  <2>4. CASE lead \notin flags[h]
    <3>1. h \in Unflagged(lead)
      BY <2>3, <2>4 DEF Unflagged
    <3>2. [id |-> h, day |-> date[h]] \in hearingPass'.found
      BY <2>3, <3>1
    <3> QED
      BY <3>2
  <2>5. CASE lead \in flags[h]
    BY <1>1, <2>3, <2>5 DEF FlagInv
  <2> QED
    BY <2>4, <2>5
<1>2. HearingInv => SendsOnce
  BY DEF HearingInv, ToSendInv, SendsOnce, Message, Reminder
<1>3. HearingInv /\ [HearingNext]_hearingVars => [LeavesNoneOut /\ SendsOnce]_hearingVars
  BY <1>1, <1>2
<1> QED
  BY <1>3, HearingInvariant, PTL DEF HearingSpec, RemindedOnce
===============================================================================
