------------------------------- MODULE MCFrontend -------------------------------
(***************************************************************************)
(* The forms, the settings, the lists, the deadlines, the tasks and the    *)
(* AI tools of the browser.  They share no state and are checked one at a  *)
(* time: a behaviour picks its scene, and within it the page, at the       *)
(* start; the variables of the others stay at a first state.  Deadlines    *)
(* and tasks are pages of one module and use the same variables.           *)
(***************************************************************************)
EXTENDS Forms, SettingsScreen, CaseRows, Tools, Screens, TLC

CONSTANTS a1, a2, b1, b2,     \* b1 belongs to a1, and b2 to a2
          d1, p1, p2, q1, q2

VARIABLE scene

Belonging == (a1 :> {b1}) @@ (a2 :> {b2})

TaskList == INSTANCE CaseRows WITH Tasks <- TRUE, Entitled <- FALSE
-------------------------------------------------------------------------------
FrontendInit ==
    /\ scene \in {"forms", "settings", "deadlines", "tasks", "tools", "lists"}
    /\ FormInit /\ (scene # "forms" => form = NewHearingForm)
    /\ SettingsInit /\ (scene # "settings" => \A s \in Secrets : secrets[s] = Blank)
    /\ IF scene = "tasks" THEN TaskList!RowsInit
       ELSE RowsInit /\ (scene # "deadlines" => \A r \in Rows : rows[r] = Gone)
    /\ ToolInit /\ (scene # "tools" => tool = DraftingTools /\ subject = a1)
    /\ Init /\ (scene # "lists" => page = WorkloadPage /\ key = p1)

FillForm ==
    scene = "forms" /\ FormNext /\ UNCHANGED <<scene, settingsVars, rowVars, toolVars, vars>>

Settle ==
    scene = "settings" /\ SettingsNext /\ UNCHANGED <<scene, formVars, rowVars, toolVars, vars>>

MindDeadlines ==
    scene = "deadlines" /\ RowsNext /\ UNCHANGED <<scene, formVars, settingsVars, toolVars, vars>>

MindTasks ==
    scene = "tasks" /\ TaskList!RowsNext /\ UNCHANGED <<scene, formVars, settingsVars, toolVars, vars>>

UseTool ==
    scene = "tools" /\ ToolNext /\ UNCHANGED <<scene, formVars, settingsVars, rowVars, vars>>

VisitList ==
    scene = "lists" /\ Next /\ UNCHANGED <<scene, formVars, settingsVars, rowVars, toolVars>>

FrontendNext == FillForm \/ Settle \/ MindDeadlines \/ MindTasks \/ UseTool \/ VisitList

FrontendSpec ==
    FrontendInit /\ [][FrontendNext]_<<scene, formVars, settingsVars, rowVars, toolVars, vars>>
===============================================================================
