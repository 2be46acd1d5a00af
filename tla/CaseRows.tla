-------------------------------- MODULE CaseRows --------------------------------
(***************************************************************************)
(* The pages of a case's deadlines and of its tasks.  The user chooses a   *)
(* case, the page loads it with its rows and its team, and every change    *)
(* that it hears of ends with another load.  A handler keeps the case of   *)
(* the render it was made in, nothing stops the user from choosing another *)
(* case meanwhile, and the page takes every answer it gets.                *)
(***************************************************************************)
EXTENDS Browser

CONSTANTS Cases, Rows, People,
          Team,        \* Team[c]: who is assigned to case c
          Me,          \* the user of the page
          Entitled,    \* the user is a manager (tasks), or one or a lawyer (deadlines)
          Tasks,       \* the page of tasks, not of deadlines
          MaxLoads,    \* bound on the loads in flight
          MaxChanges   \* bound on the changes in flight

VARIABLES
    chosen,      \* selectedCaseId, None for the empty choice
    detail,      \* the case the page holds: which one, and its rows; None for null
    waiting,     \* detailLoading
    error,       \* a load or a change failed and the page says so
    person,      \* who is responsible in the form
    saving,      \* creating
    loads,       \* loads in flight, oldest first
    changes,     \* changes in flight, oldest first
    rows,        \* the rows of the server
    unheard,     \* history: rows that were changed without an answer since the page last
                 \*   asked for a case
    overtaken,   \* history: a load was answered before an older one, or asked by an older
                 \*   choice, and the user has not chosen since with nothing in flight
    hasty        \* history: None, if the form's person was picked from the team of a case
                 \*   that was not chosen, and the rows that were given to such a person

rowVars == <<chosen, detail, waiting, error, person, saving, loads, changes, rows,
             unheard, overtaken, hasty>>

(* Two of a task's four statuses stand for all.                            *)
TaskStates == {"open", "done"}

States == IF Tasks THEN TaskStates ELSE {"suggested", "active", "acknowledged"}

RowType == [case : Cases, person : People, state : States]

ASSUME TeamsAssumption == \A c \in Cases : Team[c] \subseteq People
ASSUME NamesAssumption ==
    /\ None \notin Cases \cup People \cup Rows
    /\ Gone \notin RowType /\ None # Failed /\ {None, Refused} \cap {"made"} = {}

RowOf(c, p, s) == [case |-> c, person |-> p, state |-> s]

OfCase(c) == {r \in Rows : rows[r] # Gone /\ rows[r].case = c}

(* What /cases/{id} answers: the rows of the case as they are.             *)
Content(c) == [r \in OfCase(c) |-> rows[r]]

CaseLoad(c, answer, ends) == [case |-> c, answer |-> answer, ends |-> ends]

(* A change in flight: done is None until the server has acted.            *)
ChangeFor(act, r, c, p, done) == [act |-> act, row |-> r, case |-> c, person |-> p, done |-> done]

(* The options of the form's select are the team of the case the page      *)
(* holds, which need not be the chosen one.                                *)
Options == IF detail = None THEN {} ELSE Team[detail.case]

(* The table is on the page unless a case is being loaded.                 *)
Visible == IF chosen = None \/ waiting \/ detail = None THEN {} ELSE DOMAIN detail.rows
-------------------------------------------------------------------------------
RowsInit ==
    /\ chosen = None /\ detail = None /\ person = None
    /\ waiting = FALSE /\ error = FALSE /\ saving = FALSE
    /\ overtaken = FALSE /\ hasty = {} /\ unheard = {}
    /\ loads = <<>> /\ changes = <<>>
    /\ \E c \in Cases : \E p \in Team[c], s \in States, there \in SUBSET Rows :
           rows = [r \in Rows |-> IF r \in there THEN RowOf(c, p, s) ELSE Gone]

(* Mutant: nothing is asked while another load is on its way.              *)
LoadUnlessWaiting(c, ends) ==
    /\ Len(loads) < MaxLoads
    /\ loads' = IF waiting THEN loads ELSE Append(loads, CaseLoad(c, None, ends))
    /\ waiting' = TRUE /\ error' = FALSE /\ unheard' = {}

(* loadDetail: nothing is asked for the empty choice.                      *)
LoadDetail(c, ends) ==
    /\ Len(loads) < MaxLoads
    /\ loads' = Append(loads, CaseLoad(c, None, ends))
    /\ waiting' = TRUE /\ error' = FALSE /\ unheard' = {}

NothingInFlight == loads = <<>> /\ changes = <<>>

(* Mutant: the form is not reset.                                          *)
ChooseAndKeep(c) ==
    /\ c # chosen
    /\ chosen' = c
    /\ IF c = None THEN detail' = None /\ UNCHANGED <<loads, waiting, error, unheard>>
       ELSE LoadDetail(c, FALSE) /\ UNCHANGED detail
    /\ overtaken' = (overtaken /\ ~NothingInFlight)
    /\ UNCHANGED <<person, saving, changes, rows, hasty>>

(* The effect of another choice: load it, and reset the form.              *)
Choose(c) ==
    /\ c # chosen
    /\ chosen' = c
    /\ IF c = None THEN detail' = None /\ UNCHANGED <<loads, waiting, error, unheard>>
       ELSE LoadDetail(c, FALSE) /\ UNCHANGED detail
    /\ person' = None /\ hasty' = hasty \ {None}
    /\ overtaken' = (overtaken /\ ~NothingInFlight)
    /\ UNCHANGED <<saving, changes, rows>>

PickPerson(p) ==
    /\ chosen # None /\ (Tasks \/ Entitled)
    /\ p \in Options \ {person}
    /\ person' = p
    /\ hasty' = IF detail.case = chosen THEN hasty \ {None} ELSE hasty \cup {None}
    /\ UNCHANGED <<chosen, detail, waiting, error, saving, loads, changes, rows,
                   unheard, overtaken>>

AskFor(act, r, p) ==
    /\ Len(changes) < MaxChanges
    /\ changes' = Append(changes, ChangeFor(act, r, chosen, p, None))

(* onCreate, for a row that is free.  Its button is off while one is made, *)
(* and its select is required: its value has to be one of the options.     *)
Create(r) ==
    /\ chosen # None /\ person \in Options /\ ~saving
    /\ rows[r] = Gone /\ \A i \in DOMAIN changes : changes[i].row # r
    /\ AskFor("create", r, person)
    /\ saving' = TRUE
    /\ hasty' = IF None \in hasty THEN hasty \cup {r} ELSE hasty \ {r}
    /\ UNCHANGED <<chosen, detail, waiting, error, person, loads, rows, unheard, overtaken>>

(* What the user may do with a row: choose another status of a task, or    *)
(* delete it ...                                                           *)
TaskActs(row) ==
    IF Entitled \/ row.person = Me THEN (TaskStates \ {row.state}) \cup {"delete"} ELSE {}

(* ... and confirm, acknowledge or delete a deadline.                      *)
DeadlineActs(row) ==
    (CASE row.state = "suggested" -> {"confirm"}
       [] row.state = "active" -> {"acknowledge"}
       [] OTHER -> {}) \cup (IF Entitled THEN {"delete"} ELSE {})

(* A click on a row.  No button waits for an earlier click's answer.       *)
Click(r, act) ==
    /\ r \in Visible
    /\ act \in IF Tasks THEN TaskActs(detail.rows[r]) ELSE DeadlineActs(detail.rows[r])
    /\ AskFor(act, r, None)
    /\ UNCHANGED <<chosen, detail, waiting, error, person, saving, loads, rows,
                   unheard, overtaken, hasty>>
-------------------------------------------------------------------------------
(* The row after an act.                                                   *)
After(c) ==
    LET old == rows[c.row]
    IN  CASE c.act = "create" -> RowOf(c.case, c.person, IF Tasks THEN "open" ELSE "active")
          [] c.act = "delete" -> Gone
          [] c.act = "confirm" -> RowOf(old.case, old.person, "active")
          [] c.act = "acknowledge" -> RowOf(old.case, old.person, "acknowledged")
          [] OTHER -> RowOf(old.case, old.person, c.act)

Done(c, done) == ChangeFor(c.act, c.row, c.case, c.person, done)

(* The server acts or refuses, and its answer may be lost on the way,      *)
(* which the page cannot tell from a refusal.  The server asks no more of  *)
(* the responsible person than to be an active user.                       *)
AnswerChange(i) ==
    LET c == changes[i]
    IN  /\ c.done = None
        /\ \/ /\ (rows[c.row] = Gone) = (c.act = "create")
              /\ rows' = [rows EXCEPT ![c.row] = After(c)]
              /\ \/ changes' = [changes EXCEPT ![i] = Done(c, "made")] /\ UNCHANGED unheard
                 \/ /\ changes' = [changes EXCEPT ![i] = Done(c, Refused)]
                    /\ unheard' = unheard \cup {c.row}
           \/ /\ changes' = [changes EXCEPT ![i] = Done(c, Refused)]
              /\ UNCHANGED <<rows, unheard>>
    /\ UNCHANGED <<chosen, detail, waiting, error, person, saving, loads, overtaken, hasty>>

(* The page hears of a change: it loads the case of the click again, or    *)
(* says what went wrong (a refused creation says so in the form).          *)
HearChange(i) ==
    LET c == changes[i]
    IN  /\ c.done # None
        /\ changes' = RemoveAt(changes, i)
        /\ \/ /\ c.done = "made"
              /\ LoadDetail(c.case, c.act = "create")
              /\ overtaken' = (overtaken \/ c.case # chosen)
              /\ UNCHANGED saving
           \/ /\ c.done = Refused /\ c.act = "create"
              /\ saving' = FALSE
              /\ UNCHANGED <<loads, waiting, error, unheard, overtaken>>
           \/ /\ c.done = Refused /\ c.act # "create"
              /\ error' = TRUE
              /\ UNCHANGED <<loads, waiting, saving, unheard, overtaken>>
    /\ UNCHANGED <<chosen, detail, person, rows, hasty>>

ServerReads(i) ==
    /\ loads[i].answer = None
    /\ \E a \in {Content(loads[i].case), Failed} :
           loads' = [loads EXCEPT ![i] = CaseLoad(loads[i].case, a, loads[i].ends)]
    /\ UNCHANGED <<chosen, detail, waiting, error, person, saving, changes, rows,
                   unheard, overtaken, hasty>>

(* The answer is shown whatever is chosen by now; a failure leaves the     *)
(* page with the case it had.                                              *)
Arrive(i) ==
    LET l == loads[i]
    IN  /\ l.answer # None
        /\ loads' = RemoveAt(loads, i)
        /\ waiting' = FALSE
        /\ IF l.answer = Failed THEN error' = TRUE /\ UNCHANGED detail
           ELSE detail' = [case |-> l.case, rows |-> l.answer] /\ UNCHANGED error
        /\ saving' = (saving /\ ~l.ends)
        /\ overtaken' = (overtaken \/ i > 1)
    /\ UNCHANGED <<chosen, person, changes, rows, unheard, hasty>>

RowsNext ==
    \/ \E c \in Cases \cup {None} : Choose(c)
    \/ \E p \in People : PickPerson(p)
    \/ \E r \in Rows : Create(r)
    \/ \E r \in Rows, act \in TaskStates \cup {"confirm", "acknowledge", "delete"} : Click(r, act)
    \/ \E i \in DOMAIN changes : AnswerChange(i) \/ HearChange(i)
    \/ \E i \in DOMAIN loads : ServerReads(i) \/ Arrive(i)

RowsSpec == RowsInit /\ [][RowsNext]_rowVars
-------------------------------------------------------------------------------
RowsTypeOK ==
    /\ chosen \in Cases \cup {None} /\ person \in People \cup {None}
    /\ detail # None => detail.case \in Cases /\ \A r \in DOMAIN detail.rows : detail.rows[r] \in RowType
    /\ waiting \in BOOLEAN /\ error \in BOOLEAN /\ saving \in BOOLEAN
    /\ rows \in [Rows -> RowType \cup {Gone}]
    /\ hasty \subseteq Rows \cup {None} /\ unheard \subseteq Rows /\ overtaken \in BOOLEAN

(* The row of a table, and what a table shows of a case.                   *)
RowIn(table, r) == IF r \in DOMAIN table THEN table[r] ELSE Gone

ShowsAsIs(table, c) == \A r \in Rows \ unheard : RowIn(table, r) = RowIn(Content(c), r)

(* The case on the page is the chosen one, and its rows are as they are on *)
(* the server, once everything is answered, but for rows changed without   *)
(* an answer since the page asked last: unless an answer overtook an older *)
(* one, or a click made before the choice was answered after it.           *)
SettledPageIsChosenCase ==
    chosen # None /\ NothingInFlight /\ detail # None /\ ~error /\ ~overtaken =>
        detail.case = chosen /\ ShowsAsIs(detail.rows, chosen)

(* "case_assignments ... drives 'responsible lawyer' notifications"        *)
(* (spec.md:454): who a deadline or task is given to is on the team of its *)
(* case, although the page offers the team of the case it holds and the    *)
(* server asks for no more than an active user; but for the rows of people *)
(* picked in the time between the choice of a case and its arrival.        *)
ResponsibleOnTeam ==
    \A r \in Rows \ hasty : rows[r] # Gone => rows[r].person \in Team[rows[r].case]
===============================================================================
