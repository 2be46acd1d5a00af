-------------------------------- MODULE Screens --------------------------------
(***************************************************************************)
(* The pages of the browser that list rows of the server: a page asks for  *)
(* the rows under its key (the chosen filters, case or tab), takes over    *)
(* the answer when it comes, changes rows by further requests, and asks    *)
(* again.  Requests overlap and answers come in any order.  The pages      *)
(* differ in what they do about that, and each is a record below:          *)
(*   keys    "free" to change at any time, "locked" while an answer is     *)
(*           awaited, or "fixed" for the life of the page                  *)
(*   again   whether the same key may be asked for again: at "any" time,   *)
(*           when "idle", or "no"                                          *)
(*   late    an answer to an older question is "dropped" or "taken"        *)
(*   hides   whether rows cannot be clicked while an answer is awaited     *)
(*   empties whether a failed load leaves no rows                          *)
(*   opens   whether the page asks when it is opened                       *)
(*   after   what a change leads to: the page may "reload", "drop" the     *)
(*           row, "adopt" the answered row, "prepend" a created one, or    *)
(*           know no changes ("none")                                      *)
(*   busy    what a change in flight keeps from being clicked: the whole   *)
(*           "page", its row ("each"), its row as long as no other one is  *)
(*           clicked or answered ("row"), or nothing ("no")                *)
(* A row's content is a version, Gone when the row does not exist.         *)
(***************************************************************************)
EXTENDS Browser

CONSTANTS Keys,
          ListRows,      \* the rows a page may list
          MaxVersion,    \* bound on the changes of a row
          MaxAsked,      \* bound on the loads in flight
          MaxChanging    \* bound on the changes in flight

VARIABLES
    page,       \* the page's record
    key,        \* the chosen key
    shown,      \* what the page shows: rows and the key they were asked for
    loading,    \* the page waits for an answer (its loading flag)
    failed,     \* a load has failed since the page asked last
    asked,      \* loads in flight, in the order of their questions
    changing,   \* changes in flight, in the order of the clicks
    busyRow,    \* the row a page marks as being changed
    server,     \* the rows as they are
    missed,     \* history: rows that were changed without an answer since the page asked last
    disturbed   \* history: answers overtook one another, or loads and changes overlapped,
                \*   and the page has not asked since with nothing in flight

vars == <<page, key, shown, loading, failed, asked, changing, busyRow, server,
          missed, disturbed>>

Versions == 0..MaxVersion \cup {Gone}

ASSUME LimitsAssumption == MaxAsked \in Nat \ {0} /\ MaxChanging \in Nat
ASSUME VersionsAssumption ==
    MaxVersion \in Nat /\ Gone \notin Nat /\ {None, Refused} \cap Versions = {}
ASSUME AnswersAssumption ==
    None # Failed /\ {None, Failed} \cap [ListRows -> Versions] = {}

Plain == [keys |-> "fixed", again |-> "no", late |-> "taken", opens |-> TRUE, hides |-> TRUE,
          empties |-> FALSE, after |-> "none", busy |-> "no"]

(* The pages.                                                              *)
ContactsPage == [Plain EXCEPT !.keys = "free", !.again = "any"]

InvoicesPage == [Plain EXCEPT !.keys = "free"]

HearingsUpcoming == [Plain EXCEPT !.again = "any"]

HearingsAll == [Plain EXCEPT !.keys = "free", !.again = "any"]

TemplatesPage == [Plain EXCEPT !.keys = "free", !.after = "drop"]

DocumentTemplatesPage == [Plain EXCEPT !.hides = FALSE, !.after = "drop", !.busy = "row"]

ReferencesPage == [Plain EXCEPT !.opens = FALSE, !.keys = "locked", !.again = "idle"]

AppointmentsPage == [Plain EXCEPT !.keys = "free", !.after = "reload"]

AuditPage == [Plain EXCEPT !.keys = "free", !.again = "idle", !.empties = TRUE]

ActivityPage == [Plain EXCEPT !.keys = "free"]

CalendarPage == [Plain EXCEPT !.keys = "free", !.again = "any"]

AnalyticsPage == [Plain EXCEPT !.keys = "free"]

FinancialPage == [Plain EXCEPT !.keys = "locked", !.again = "idle"]

WorkloadPage == Plain

DailyReportPage == [Plain EXCEPT !.again = "any"]

DashboardPage == Plain

AiReviewPage == [Plain EXCEPT !.keys = "free", !.again = "any", !.hides = FALSE,
                              !.after = "adopt", !.busy = "each"]

KnowledgeSearchPage == [ReferencesPage EXCEPT !.empties = TRUE]

BillingPage == Plain

TimeEntriesPage == [Plain EXCEPT !.after = "reload"]

RatesPage == TimeEntriesPage

InvoiceDetailPage == TimeEntriesPage

CasesPage == [Plain EXCEPT !.after = "prepend", !.busy = "page"]

DocumentPage == [Plain EXCEPT !.keys = "free", !.late = "dropped"]

PortalDashboard == Plain

PortalDocuments == Plain

PortalCase == Plain

PortalMatters == Plain

PortalMatter == Plain

PortalInsights == Plain

ListPages == {
    ContactsPage, InvoicesPage, HearingsUpcoming, HearingsAll, TemplatesPage, DocumentTemplatesPage,
    ReferencesPage, AppointmentsPage, AuditPage, ActivityPage, CalendarPage, AnalyticsPage,
    FinancialPage, WorkloadPage, DailyReportPage, DashboardPage, AiReviewPage, KnowledgeSearchPage,
    BillingPage, TimeEntriesPage, RatesPage, InvoiceDetailPage, CasesPage, DocumentPage,
    PortalDashboard, PortalDocuments, PortalCase, PortalMatters, PortalMatter, PortalInsights}
-------------------------------------------------------------------------------
(* A load of the rows under a key; rows is None until the server has read  *)
(* them and Failed when it could not.  Only a live load's answer is used,  *)
(* and ends says whether a change is over with it.                         *)
LoadOf(k, rows, live, ends) == [key |-> k, rows |-> rows, live |-> live, ends |-> ends]

NewLoad(k, ends) == LoadOf(k, None, TRUE, ends)

Outdated(l) == LoadOf(l.key, l.rows, FALSE, l.ends)

(* A question after which the page takes no answer to the earlier ones if  *)
(* it is careful (a cancelled flag in the effect's closure).               *)
AskedWith(l) ==
    Append(IF page.late = "dropped" THEN [i \in DOMAIN asked |-> Outdated(asked[i])] ELSE asked, l)

(* A change by the handler of a row's button, which keeps the key of the   *)
(* render it was made in; made is None until the server has acted.         *)
ChangeOf(r, k, made) == [row |-> r, key |-> k, made |-> made]

Made(c) == c.made \notin {None, Refused}

(* A load whose answer the page will take, next to changes that it puts    *)
(* into the rows it has: which of them comes last is anybody's guess.      *)
Overlap(change) == change /\ page.after # "reload"
-------------------------------------------------------------------------------
Init ==
    /\ page \in ListPages /\ key \in Keys
    /\ shown = None /\ failed = FALSE
    /\ loading = page.opens
    /\ asked = IF page.opens THEN <<NewLoad(key, FALSE)>> ELSE <<>>
    /\ changing = <<>> /\ busyRow = None
    /\ server \in [ListRows -> IF page.after = "prepend" THEN {0, Gone} ELSE {0}]
    /\ missed = {} /\ disturbed = FALSE

Quiet == asked = <<>> /\ changing = <<>>

AskRows(l) ==
    /\ Len(asked) < MaxAsked
    /\ asked' = AskedWith(l)
    /\ loading' = TRUE /\ failed' = FALSE
    /\ missed' = {}

(* Mutant: the effect that loads does not depend on the key.               *)
SetKeyUnasked(k) ==
    /\ k # key
    /\ page.keys = "free" \/ (page.keys = "locked" /\ ~loading)
    /\ key' = k
    /\ UNCHANGED <<page, shown, loading, failed, asked, changing, busyRow, server, missed, disturbed>>

(* The user chooses other filters, another case or another tab.            *)
SetKey(k) ==
    /\ k # key
    /\ page.keys = "free" \/ (page.keys = "locked" /\ ~loading)
    /\ key' = k
    /\ AskRows(NewLoad(k, FALSE))
    /\ disturbed' = (~Quiet /\ (disturbed \/ changing # <<>>))
    /\ UNCHANGED <<page, shown, changing, busyRow, server>>

(* The user asks for the same rows again.                                  *)
Again ==
    /\ page.again = "any" \/ (page.again = "idle" /\ ~loading)
    /\ AskRows(NewLoad(key, FALSE))
    /\ disturbed' = (~Quiet /\ (disturbed \/ Overlap(changing # <<>>)))
    /\ UNCHANGED <<page, key, shown, changing, busyRow, server>>

Read(i) ==
    /\ asked[i].rows = None
    /\ \E answer \in {server, Failed} :
           asked' = [asked EXCEPT ![i] = LoadOf(asked[i].key, answer, asked[i].live, asked[i].ends)]
    /\ UNCHANGED <<page, key, shown, loading, failed, changing, busyRow, server, missed, disturbed>>

(* An answer to the question of an older render is dropped or taken.       *)
Deliver(i) ==
    /\ asked[i].rows # None
    /\ asked' = RemoveAt(asked, i)
    /\ IF ~asked[i].live THEN UNCHANGED <<shown, loading, failed>>
       ELSE /\ loading' = FALSE
            /\ IF asked[i].rows = Failed
               THEN /\ failed' = TRUE
                    /\ shown' = IF page.empties THEN None ELSE shown
               ELSE /\ shown' = [key |-> asked[i].key, rows |-> asked[i].rows]
                    /\ UNCHANGED failed
    /\ disturbed' = (disturbed \/ \E j \in 1..i - 1 : asked[j].live)
    /\ UNCHANGED <<page, key, changing, busyRow, server, missed>>

-------------------------------------------------------------------------------
Shows(r) == shown # None /\ shown.rows[r] # Gone

Clickable(r) ==
    CASE page.busy = "page" -> changing = <<>> /\ \A i \in DOMAIN asked : ~asked[i].ends
      [] page.busy = "each" -> \A i \in DOMAIN changing : changing[i].row # r
      [] page.busy = "row" -> busyRow # r
      [] OTHER -> TRUE

(* A click on a row, or on the form that creates one.  The handler keeps   *)
(* the key of the render it was made in.  ("each" is the mark of a card of *)
(* its own, which is lost when another key's rows are shown without it.    *)
(* The key that was chosen in between has disturbed the page.)             *)
Begin(r) ==
    /\ page.after # "none"
    /\ IF page.after = "prepend"
       THEN shown # None /\ server[r] = Gone /\ \A i \in DOMAIN changing : changing[i].row # r
       ELSE Shows(r) /\ (page.hides => ~loading)
    /\ Clickable(r)
    /\ Len(changing) < MaxChanging
    /\ changing' = Append(changing, ChangeOf(r, key, None))
    /\ busyRow' = IF page.busy = "row" THEN r ELSE busyRow
    /\ disturbed' = (disturbed \/ Overlap(\E i \in DOMAIN asked : asked[i].live))
    /\ UNCHANGED <<page, key, shown, loading, failed, asked, server, missed>>

Changed(r) ==
    CASE page.after = "drop" -> Gone
      [] page.after = "prepend" -> 0
      [] OTHER -> server[r] + 1

Answered(i, made) ==
    changing' = [changing EXCEPT ![i] = ChangeOf(changing[i].row, changing[i].key, made)]

(* The server makes the change, or refuses it.  The answer may be lost on  *)
(* its way, which the page cannot tell from a refusal.                     *)
Execute(i) ==
    LET r == changing[i].row
    IN  /\ changing[i].made = None
        /\ \/ /\ (server[r] = Gone) = (page.after = "prepend")
              /\ Changed(r) \in Versions
              /\ server' = [server EXCEPT ![r] = Changed(r)]
              /\ \/ Answered(i, Changed(r)) /\ UNCHANGED missed
                 \/ Answered(i, Refused) /\ missed' = missed \cup {r}
           \/ Answered(i, Refused) /\ UNCHANGED <<server, missed>>
        /\ UNCHANGED <<page, key, shown, loading, failed, asked, busyRow, disturbed>>

(* The page hears of it and reloads, or puts the row in its place.  After  *)
(* a refusal or a lost answer it shows an error, and does not ask.         *)
Finish(i) ==
    LET c == changing[i]
    IN  /\ c.made # None
        /\ changing' = RemoveAt(changing, i)
        /\ busyRow' = None
        /\ \/ ~Made(c) /\ UNCHANGED <<shown, loading, failed, asked, missed>>
           \/ /\ Made(c) /\ page.after = "reload"
              /\ AskRows(NewLoad(c.key, TRUE)) /\ UNCHANGED shown
           \/ /\ Made(c) /\ page.after # "reload"
              /\ shown' = IF shown = None THEN None
                         ELSE [key |-> shown.key, rows |-> [shown.rows EXCEPT ![c.row] = c.made]]
              /\ UNCHANGED <<loading, failed, asked, missed>>
        /\ UNCHANGED <<page, key, server, disturbed>>

Next ==
    \/ \E k \in Keys : SetKey(k)
    \/ Again
    \/ \E i \in DOMAIN asked : Read(i) \/ Deliver(i)
    \/ \E r \in ListRows : Begin(r)
    \/ \E i \in DOMAIN changing : Execute(i) \/ Finish(i)

Spec == Init /\ [][Next]_vars
-------------------------------------------------------------------------------
TypeOK ==
    /\ key \in Keys
    /\ shown = None \/ shown \in [key : Keys, rows : [ListRows -> Versions]]
    /\ loading \in BOOLEAN /\ failed \in BOOLEAN /\ disturbed \in BOOLEAN
    /\ Len(asked) <= MaxAsked /\ Len(changing) <= MaxChanging
    /\ \A i \in DOMAIN asked : asked[i].rows \in {None, Failed} \cup [ListRows -> Versions]
    /\ busyRow \in ListRows \cup {None}
    /\ server \in [ListRows -> Versions] /\ missed \subseteq ListRows

(* A page that waits for nothing and shows no failed load shows the rows   *)
(* of its key as they are, but for those changed without an answer since   *)
(* it asked last: unless answers overtook one another, or loads and        *)
(* changes overlapped, in a way the page does not guard against.  A page   *)
(* that drops late answers, or lets nobody choose while it waits, is never *)
(* disturbed by its loads, and a question that is asked alone puts any     *)
(* page right again.                                                       *)
QuietPageIsCurrent ==
    Quiet /\ ~failed /\ ~disturbed /\ shown # None =>
        shown.key = key /\ \A r \in ListRows \ missed : shown.rows[r] = server[r]
===============================================================================
