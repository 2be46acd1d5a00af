---------------------------------- MODULE Forms ----------------------------------
(***************************************************************************)
(* The forms of the browser.  A form is filled from a row or starts empty, *)
(* is typed into, sent, and hears whether the server did it; while it is   *)
(* being sent the user may go on typing and, mostly, leave it.  The forms  *)
(* differ in what they do about that, and each is a record below:          *)
(*   creates it makes a row, where the others change one                   *)
(*   opens   the page "is" the form, or a "button" opens it                *)
(*   fills   when its fields are set: whenever the row is loaded ("load"), *)
(*           when it is opened ("open"), or "never"                        *)
(*   cancel  leaving the form "keeps" the fields, "resets" them to the     *)
(*           row, leaves the "page", or is not offered ("none")            *)
(*   while   whether the form can be left while it is being sent           *)
(*   done    what success leads to: to "leave" for another page, to load   *)
(*           the row again ("reload"), to put the answer in its place      *)
(*           ("adopt"), or to empty the fields ("clear")                   *)
(*   shuts   whether success closes the form                               *)
(*   frees   its button works again after every "answer", or after a       *)
(*           "refusal" only                                                *)
(*   anyway  whether it can be used although its row could not be loaded   *)
(*   removes whether the page can remove the "row", or "mark" it as no     *)
(*           longer active, or does "no" such thing                        *)
(*   blocks  whether a conflict keeps the form from being sent until it is *)
(*           changed                                                       *)
(* The content of all fields together is one value.                        *)
(***************************************************************************)
EXTENDS Browser

CONSTANTS Values, Empty, Nothing,
          MaxSends      \* bound on how often the form is sent

VARIABLES
    form,        \* the form's record
    row,         \* the row as the page has it; None without one
    field,       \* what the fields hold
    open,        \* the form is on the screen
    load,        \* the load in flight: None until it is read; Nothing without one
    call,        \* what is being sent: value, and answer when there is one; None
    conflict,    \* the value the page holds to be in conflict
    place,       \* the browser is "here", "leaving" or "gone"
    stored,      \* the row on the server
    made,        \* how many rows the form has created
    lost,        \* how many successes the page took for failures
    own,         \* what the fields may hold: the row, and what was typed or saved
    abandoned,   \* what the fields held was given up, or closed under the user
    sends,
    removal      \* the call that removes the row: "asked", "made", Refused; None

formVars == <<form, row, field, open, load, call, conflict, place, stored, made, lost, own,
              abandoned, sends, removal>>

(* An answer, a load and a row tell what they hold from what they lack.   *)
ASSUME FormAssumption ==
    /\ MaxSends \in Nat
    /\ {None, Nothing, Failed, Refused, Empty, Gone} \cap Values = {}
    /\ None \notin {Nothing, Failed, Refused} /\ Empty # Gone

-------------------------------------------------------------------------------
(* The forms.                                                              *)
Creating == [creates |-> TRUE, opens |-> "page", fills |-> "never", cancel |-> "page", while |-> TRUE,
             done |-> "leave", shuts |-> FALSE, frees |-> "answer", anyway |-> FALSE,
             blocks |-> FALSE, removes |-> "no"]

Editing == [creates |-> FALSE, opens |-> "button", fills |-> "load", cancel |-> "keeps", while |-> TRUE,
            done |-> "reload", shuts |-> TRUE, frees |-> "answer", anyway |-> FALSE,
             blocks |-> FALSE, removes |-> "no"]

NewHearingForm == [Creating EXCEPT !.cancel = "none", !.frees = "refusal"]

NewContactPage == Creating

NewTemplatePage == Creating

NewInvoicePage == Creating

SignupPage == [Creating EXCEPT !.cancel = "none", !.frees = "refusal"]

NewCaseForm == [Creating EXCEPT !.opens = "button", !.cancel = "keeps", !.done = "clear", !.shuts = TRUE]

NewAppointmentForm == [Creating EXCEPT !.cancel = "none", !.done = "clear", !.blocks = TRUE]

TimeEntryForm == NewCaseForm

PaymentForm == NewCaseForm

CreateUserModal == [NewCaseForm EXCEPT !.cancel = "resets", !.while = FALSE]

NewRateForm == [NewCaseForm EXCEPT !.fills = "open"]

RateForm == [Editing EXCEPT !.fills = "open"]

ContactDetailPage == [Editing EXCEPT !.cancel = "resets", !.done = "adopt", !.removes = "mark"]

TemplateDetailPage == [Editing EXCEPT !.removes = "row"]

HearingDetailPage == [Editing EXCEPT !.removes = "row"]

AppointmentDetailPage == [Editing EXCEPT !.removes = "row"]

TemplateEditorScreen == [Editing EXCEPT !.opens = "page", !.cancel = "none", !.done = "adopt", !.shuts = FALSE]

PortalProfilePage == [TemplateEditorScreen EXCEPT !.anyway = TRUE]

FormPages == {
    NewHearingForm, NewContactPage, NewTemplatePage, NewInvoicePage, SignupPage, NewCaseForm,
    NewAppointmentForm, TimeEntryForm, PaymentForm, CreateUserModal, NewRateForm, RateForm,
    ContactDetailPage, TemplateDetailPage, HearingDetailPage, AppointmentDetailPage,
    TemplateEditorScreen, PortalProfilePage}
-------------------------------------------------------------------------------
FormInit ==
    /\ form \in FormPages
    /\ stored \in IF form.creates THEN {Empty} ELSE Values
    /\ row = None /\ field = Empty /\ own = {Empty}
    /\ open = (form.opens = "page")
    /\ load = IF form.creates THEN Nothing ELSE None
    /\ call = None /\ conflict = None /\ place = "here"
    /\ made = 0 /\ lost = 0 /\ abandoned = FALSE /\ sends = 0
    /\ removal = None

Start == IF form.creates \/ row = None THEN Empty ELSE row

(* A page shows neither form nor button while it loads.                    *)
Ready == place # "gone" /\ (form.creates \/ (load = Nothing /\ (row # None \/ form.anyway)))
-------------------------------------------------------------------------------
ReadRow ==
    /\ load = None
    /\ load' \in {stored, Failed} \ {Gone}
    /\ UNCHANGED <<form, row, field, open, call, conflict, place, stored, made, lost, own, abandoned, sends, removal>>

(* The load fills the fields, open or not.                                 *)
TakeRow ==
    /\ load \notin {None, Nothing}
    /\ load' = Nothing
    /\ row' = IF load = Failed THEN row ELSE load
    /\ IF load # Failed /\ form.fills = "load"
       THEN field' = load /\ own' = {load} /\ abandoned' = FALSE
       ELSE UNCHANGED <<field, own, abandoned>>
    /\ UNCHANGED <<form, open, call, conflict, place, stored, made, lost, sends, removal>>

(* Mutant: the form opens with the fields it was left with.                *)
OpenUnfilled ==
    /\ Ready /\ ~open
    /\ open' = TRUE /\ own' = own \cup {Start}
    /\ UNCHANGED <<form, row, field, load, call, conflict, place, stored, made, lost, abandoned, sends, removal>>

Open ==
    /\ Ready /\ ~open
    /\ open' = TRUE /\ own' = own \cup {Start}
    /\ field' = IF form.fills = "open" THEN Start ELSE field
    /\ UNCHANGED <<form, row, load, call, conflict, place, stored, made, lost, abandoned, sends, removal>>

(* No field is disabled while the form is being sent.                      *)
Type(v) ==
    /\ Ready /\ open /\ v # field
    /\ field' = v /\ own' = own \cup {v}
    /\ conflict' = IF form.blocks THEN None ELSE conflict
    /\ UNCHANGED <<form, row, open, load, call, place, stored, made, lost, abandoned, sends, removal>>

(* The button that closes the form, or that goes back.                     *)
Cancel ==
    /\ Ready /\ open /\ form.cancel # "none" /\ (call = None \/ form.while)
    /\ \/ /\ form.cancel = "page" /\ place' = "leaving"
          /\ UNCHANGED <<open, field, own, abandoned>>
       \/ /\ form.cancel # "page" /\ open' = FALSE /\ own' = {}
          /\ field' = IF form.cancel = "resets" THEN Start ELSE field
          /\ abandoned' = (abandoned \/ (form.fills # "open" /\ (call # None \/ field' # Start)))
          /\ UNCHANGED place
    /\ UNCHANGED <<form, row, load, call, conflict, stored, made, lost, sends, removal>>

(* A navigation takes its time, and the page works until it is over.       *)
Leave ==
    /\ place = "leaving" /\ place' = "gone"
    /\ UNCHANGED <<form, row, field, open, load, call, conflict, stored, made, lost, own, abandoned, sends, removal>>

(* Mutant: the button works again after a success.                         *)
SendFreed ==
    /\ Ready /\ open /\ call = None /\ field # Empty
    /\ form.blocks => conflict = None
    /\ sends < MaxSends /\ sends' = sends + 1
    /\ call' = [value |-> field, answer |-> None]
    /\ UNCHANGED <<form, row, field, open, load, conflict, place, stored, made, lost, own, abandoned, removal>>

(* A required field that is empty keeps the form from being sent.          *)
Send ==
    /\ Ready /\ open /\ call = None /\ field # Empty
    /\ form.frees = "refusal" => made = lost
    /\ form.blocks => conflict = None
    /\ sends < MaxSends /\ sends' = sends + 1
    /\ call' = [value |-> field, answer |-> None]
    /\ UNCHANGED <<form, row, field, open, load, conflict, place, stored, made, lost, own, abandoned, removal>>

(* The server stores the value, refuses it, or stores it and its answer is *)
(* lost, which the page cannot tell from a refusal.                        *)
Store ==
    /\ call # None /\ call.answer = None
    /\ \/ /\ stored # Gone /\ stored' = call.value /\ made' = made + 1
          /\ \/ call' = [call EXCEPT !.answer = call.value] /\ UNCHANGED lost
             \/ call' = [call EXCEPT !.answer = Failed] /\ lost' = lost + 1
       \/ /\ call' = [call EXCEPT !.answer = Refused]
          /\ UNCHANGED <<stored, made, lost>>
    /\ UNCHANGED <<form, row, field, open, load, conflict, place, own, abandoned, sends, removal>>

(* Another user stores another value, or removes the row.                  *)
StoreElsewhere(v) ==
    /\ ~form.creates /\ v # stored /\ stored # Gone
    /\ stored' = v
    /\ UNCHANGED <<form, row, field, open, load, call, conflict, place, made, lost, own, abandoned, sends, removal>>

HearFailure ==
    /\ call # None /\ call.answer \in {Refused, Failed}
    /\ call' = None
    /\ conflict' = IF form.blocks /\ call.answer = Refused THEN call.value ELSE conflict
    /\ UNCHANGED <<form, row, field, open, load, place, stored, made, lost, own, abandoned, sends, removal>>

HearSuccess ==
    /\ call # None /\ call.answer \in Values
    /\ call' = None
    /\ open' = (open /\ ~form.shuts)
    /\ abandoned' = (abandoned \/ (form.shuts /\ form.fills # "open" /\ field # call.value))
    /\ row' = IF form.done = "adopt" THEN call.answer ELSE row
    /\ load' = IF form.done = "reload" THEN None ELSE load
    /\ place' = IF form.done = "leave" /\ place = "here" THEN "leaving" ELSE place
    /\ field' = IF form.done = "clear" THEN Empty ELSE field
    /\ own' = IF form.done = "clear" THEN {Empty} ELSE IF form.shuts THEN {call.value} ELSE own
    /\ UNCHANGED <<form, conflict, stored, made, lost, sends, removal>>

(* The button that removes the row, open form or not, sent form or not.    *)
AskRemoval ==
    /\ form.removes # "no" /\ Ready /\ removal = None
    /\ removal' = "asked"
    /\ UNCHANGED <<form, row, field, open, load, call, conflict, place, stored, made, lost, own, abandoned, sends>>

RemoveStored ==
    /\ removal = "asked"
    /\ \/ /\ stored # Gone /\ removal' = "made"
          /\ stored' = IF form.removes = "row" THEN Gone ELSE stored
       \/ removal' = Refused /\ UNCHANGED stored
    /\ UNCHANGED <<form, row, field, open, load, call, conflict, place, made, lost, own, abandoned, sends>>

HearRemoval ==
    /\ removal \in {"made", Refused}
    /\ removal' = None
    /\ place' = IF removal = "made" /\ place = "here" THEN "leaving" ELSE place
    /\ UNCHANGED <<form, row, field, open, load, call, conflict, stored, made, lost, own, abandoned, sends>>

FormNext ==
    \/ ReadRow \/ TakeRow \/ Open \/ Cancel \/ Leave \/ Send \/ Store \/ HearFailure \/ HearSuccess
    \/ AskRemoval \/ RemoveStored \/ HearRemoval
    \/ \E v \in Values : Type(v)
    \/ \E v \in Values \cup {Gone} : StoreElsewhere(v)

FormSpec == FormInit /\ [][FormNext]_formVars
-------------------------------------------------------------------------------
FormTypeOK ==
    /\ row \in Values \cup {None} /\ field \in Values \cup {Empty} /\ stored \in Values \cup {Empty, Gone}
    /\ removal \in {None, "asked", "made", Refused}
    /\ load \in Values \cup {None, Nothing, Failed}
    /\ call \in {None} \cup [value : Values, answer : Values \cup {None, Failed, Refused}]
    /\ open \in BOOLEAN /\ abandoned \in BOOLEAN /\ place \in {"here", "leaving", "gone"}
    /\ own \subseteq Values \cup {Empty}
    /\ {lost, made, sends} \subseteq 0..MaxSends /\ made <= sends

(* What is sent is what the form showed when it was opened or what was     *)
(* typed into it since, never the remains of an edit that was given up, as *)
(* long as no form that keeps its fields was left with any.  And "a        *)
(* booking conflict: another time must be chosen before saving"            *)
(* (appointments/page.tsx:73): what was refused is not sent again before   *)
(* the form was changed, whatever is typed while the answer is awaited.    *)
SendsOwnContent ==
    [][call = None /\ call' # None =>
           /\ ~abandoned => call'.value \in own
           /\ form.blocks => call'.value # conflict]_formVars

(* One form that stays blocked until its page is left creates one row, and *)
(* one more for each answer that was lost.                                 *)
CreatedOnce == form.creates /\ form.frees = "refusal" => made <= 1 + lost
===============================================================================
