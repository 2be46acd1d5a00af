--------------------------------- MODULE Session ---------------------------------
(***************************************************************************)
(* Who is signed in.  The browser keeps one session, shared by its tabs;   *)
(* each tab keeps the user that /me told it of, in a context that lives    *)
(* until the tab loads anew.  A page is shown to the user of the context,  *)
(* its calls are made with the token of the session.                       *)
(***************************************************************************)
EXTENDS Browser

CONSTANTS Tabs, Accounts,
          RoleOf,       \* RoleOf[u]: the role of account u
          PageRoles,    \* the pages, each by the set of roles RequireRole is given
          MaxRefresh,   \* bound on the questions for /me a tab has in flight
          MaxActs       \* bound on signing in and out, and on (de)activations

(* The login page is for no role, where any other page is for some, and    *)
(* has no guard.                                                           *)
Login == {}

Dashboard == UNION PageRoles

ASSUME AccountsAssumption == Accounts \cap {None, Gone, Failed, Refused} = {}
ASSUME RefreshAssumption == MaxRefresh \in Nat \ {0}

VARIABLES
    session,     \* whose token the browser holds
    shownUser,   \* shownUser[t]: the tab's context
    loading,     \* loading[t]: before the tab's first answer
    location,    \* location[t]: Login, or the roles of the page it is on
    questions,   \* questions[t]: the questions for /me in flight
    signing,     \* signing[t]: the account the login form is signing in
    active,      \* the accounts that are active
    acts,
    overtaken    \* auxiliary: tabs whose session changed under them

sessionVars == <<session, shownUser, loading, location, questions, signing, active, acts, overtaken>>

(* A question for /me: before the session was read, with its token, or     *)
(* answered; login is waiting for it or not.                               *)
Question(login) == [token |-> None, answer |-> None, login |-> login]
Told(q, token, answer) == [token |-> token, answer |-> answer, login |-> q.login]

(* A document that is loaded anew asks for its user.                       *)
Fresh(t) ==
    /\ shownUser' = [shownUser EXCEPT ![t] = None]
    /\ loading' = [loading EXCEPT ![t] = TRUE]
    /\ questions' = [questions EXCEPT ![t] = <<Question(FALSE)>>]
    /\ signing' = [signing EXCEPT ![t] = None]
    /\ overtaken' = overtaken \ {t}

SessionInit ==
    /\ session \in Accounts \cup {None}
    /\ shownUser = [t \in Tabs |-> None] /\ loading = [t \in Tabs |-> TRUE]
    /\ location \in [Tabs -> PageRoles \cup {Login}]
    /\ questions = [t \in Tabs |-> <<Question(FALSE)>>]
    /\ signing = [t \in Tabs |-> None]
    /\ active = Accounts /\ acts = 0 /\ overtaken = {}

Act == acts < MaxActs /\ acts' = acts + 1

(* Every other tab, and every answer that is under way, is left behind by  *)
(* a change of the session.                                                *)
Hold(s, t) ==
    /\ session' = s
    /\ overtaken' = IF s = session THEN overtaken
                    ELSE overtaken \cup {u \in Tabs : u # t \/ questions[u] # <<>>}
-------------------------------------------------------------------------------
(* api: the token of the moment goes along.  Without a session the context *)
(* is emptied at once.                                                     *)
AskMe(t, i) ==
    /\ questions[t][i].token = None
    /\ questions' = [questions EXCEPT ![t][i] =
           IF session = None THEN Told(@, Gone, Gone) ELSE Told(@, session, None)]
    /\ UNCHANGED <<session, shownUser, loading, location, signing, active, acts, overtaken>>

(* /me: rejects an inactive user.                                          *)
AnswerMe(t, i) ==
    /\ questions[t][i].token # None /\ questions[t][i].answer = None
    /\ \E a \in {IF questions[t][i].token \in active THEN questions[t][i].token ELSE Refused, Failed} :
           questions' = [questions EXCEPT ![t][i] = Told(@, @.token, a)]
    /\ UNCHANGED <<session, shownUser, loading, location, signing, active, acts, overtaken>>

(* Mutant: a failure leaves the context its user.                          *)
ContextKept(t, answer) == IF answer \in Accounts THEN answer ELSE shownUser[t]

Context(t, answer) == IF answer \in Accounts THEN answer ELSE None

(* refresh: the context takes the user, or is emptied by any failure.  The *)
(* login form goes on to the dashboard as a new document, or says that it  *)
(* failed and keeps the session.                                           *)
HearMe(t, i) ==
    LET q == questions[t][i]
    IN  /\ q.answer # None
        /\ IF q.login /\ q.answer \in Accounts
           THEN /\ location' = [location EXCEPT ![t] = Dashboard]
                /\ Fresh(t)
           ELSE /\ shownUser' = [shownUser EXCEPT ![t] = Context(t, q.answer)]
                /\ loading' = [loading EXCEPT ![t] = FALSE]
                /\ questions' = [questions EXCEPT ![t] = RemoveAt(@, i)]
                /\ signing' = IF q.login THEN [signing EXCEPT ![t] = None] ELSE signing
                /\ UNCHANGED <<location, overtaken>>
        /\ UNCHANGED <<session, active, acts>>

(* The form of the login page, whose button is off while it is at work.    *)
SignIn(t, u) ==
    /\ location[t] = Login /\ signing[t] = None /\ Act
    /\ Len(questions[t]) < MaxRefresh
    /\ signing' = [signing EXCEPT ![t] = u]
    /\ UNCHANGED <<session, shownUser, loading, location, questions, active, overtaken>>

(* The right password brings a session, of an inactive account too.        *)
SignedIn(t) ==
    /\ signing[t] \notin {None, Gone}
    /\ \/ /\ Hold(signing[t], t)
          /\ questions' = [questions EXCEPT ![t] = Append(@, Question(TRUE))]
          /\ signing' = [signing EXCEPT ![t] = Gone]
       \/ /\ signing' = [signing EXCEPT ![t] = None]
          /\ UNCHANGED <<session, questions, overtaken>>
    /\ UNCHANGED <<shownUser, loading, location, active, acts>>

Shown(t) ==
    /\ location[t] # Login /\ ~loading[t]
    /\ shownUser[t] # None /\ RoleOf[shownUser[t]] \in location[t]

(* The button of AppNav.  The context keeps its user.                      *)
SignOut(t) ==
    /\ Shown(t) /\ Act
    /\ Hold(None, t)
    /\ location' = [location EXCEPT ![t] = Login]
    /\ UNCHANGED <<shownUser, loading, questions, signing, active>>

(* RequireRole's effect.                                                   *)
TurnAway(t) ==
    /\ location[t] # Login /\ ~loading[t] /\ ~Shown(t)
    /\ location' = [location EXCEPT ![t] = IF shownUser[t] = None THEN Login ELSE Dashboard]
    /\ UNCHANGED <<session, shownUser, loading, questions, signing, active, acts, overtaken>>

(* A link of AppNav, which has those of the user's role; the Back button   *)
(* and the page of the login, which have all.                              *)
GoTo(t, roles) ==
    /\ roles # location[t]
    /\ location' = [location EXCEPT ![t] = roles]
    /\ UNCHANGED <<session, shownUser, loading, questions, signing, active, acts, overtaken>>

LoadAnew(t) ==
    /\ questions[t] = <<>> /\ Fresh(t)
    /\ UNCHANGED <<session, location, active, acts>>

Activation(u) ==
    /\ Act
    /\ active' = IF u \in active THEN active \ {u} ELSE active \cup {u}
    /\ UNCHANGED <<session, shownUser, loading, location, questions, signing, overtaken>>

SessionNext ==
    \/ \E t \in Tabs :
           \/ \E i \in DOMAIN questions[t] : AskMe(t, i) \/ AnswerMe(t, i) \/ HearMe(t, i)
           \/ \E u \in Accounts : SignIn(t, u)
           \/ SignedIn(t) \/ SignOut(t) \/ TurnAway(t) \/ LoadAnew(t)
           \/ \E roles \in PageRoles \cup {Login} : GoTo(t, roles)
    \/ \E u \in Accounts : Activation(u)

SessionSpec == SessionInit /\ [][SessionNext]_sessionVars
-------------------------------------------------------------------------------
SessionTypeOK ==
    /\ session \in Accounts \cup {None}
    /\ shownUser \in [Tabs -> Accounts \cup {None}] /\ loading \in [Tabs -> BOOLEAN]
    /\ location \in [Tabs -> PageRoles \cup {Dashboard, Login}]
    /\ signing \in [Tabs -> Accounts \cup {None, Gone}]
    /\ active \subseteq Accounts /\ overtaken \subseteq Tabs
    /\ \A t \in Tabs : Len(questions[t]) <= MaxRefresh

(* A page that waits for no /me is shown to the user whose token its calls *)
(* carry, or they carry none (the way back to a page after signing out),   *)
(* or the tab was left behind by a change of the session: by another tab,  *)
(* or by an answer that was under way (rbac.tsx:28-44).                    *)
ShownToItsUser ==
    \A t \in Tabs :
        Shown(t) /\ questions[t] = <<>> /\ t \notin overtaken => session \in {shownUser[t], None}
===============================================================================
