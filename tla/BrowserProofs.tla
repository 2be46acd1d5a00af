----------------------------- MODULE BrowserProofs -----------------------------
(***************************************************************************)
(* Proofs about pages of the browser: the forms, for any set of values and *)
(* any number of times that any of the forms is sent; the screen of the    *)
(* settings; the tools and their conversations; the rows of a case         *)
(* (deadlines and tasks); and the pages that list, for any number of rows, *)
(* keys and requests in flight.                                            *)
(***************************************************************************)
EXTENDS Forms, SettingsScreen, Tools, CaseRows, Screens, TLAPS

(* What the argument needs to know of the forms.                           *)
Shape ==
    /\ form.creates \in BOOLEAN /\ form.shuts \in BOOLEAN /\ form.blocks \in BOOLEAN
    /\ form.creates => form.fills # "load" /\ form.done \notin {"adopt", "reload"}
    /\ ~form.creates => form.fills \in {"load", "open"}
    /\ form.done = "adopt" /\ ~form.shuts => form.opens = "page" /\ form.cancel = "none"

(* A new row is loaded from nowhere; one that exists has content.          *)
RowsApart ==
    /\ form.creates => load = Nothing /\ row = None
    /\ ~form.creates => stored # Empty

Pending == call # None /\ call.answer = None

(* While a form that only a refusal frees is sent, every row it has made   *)
(* was taken for a failure; every call may make one row.                   *)
CallsCounted ==
    /\ lost <= made /\ (Pending => made < sends)
    /\ form.frees = "refusal" => (Pending => made = lost) /\ made <= 1 + lost

(* An open form holds its own content; a closed one that is not filled     *)
(* when it opens holds that, or what it would be filled with.              *)
FieldsAreOwn ==
    /\ open /\ ~abandoned => field \in own
    /\ ~open /\ form.fills # "open" /\ ~abandoned => field \in own \cup {Start}
    /\ form.done = "adopt" /\ ~form.shuts => open

FormInv == FormTypeOK /\ Shape /\ RowsApart /\ CallsCounted /\ FieldsAreOwn
-------------------------------------------------------------------------------
(* The fields of a form that Shape is about.                               *)
Fields == {"creates", "opens", "fills", "cancel", "done", "shuts", "frees", "blocks"}

LEMMA CreatingFields ==
    /\ Fields \subseteq DOMAIN Creating
    /\ Creating.creates = TRUE /\ Creating.fills = "never" /\ Creating.done = "leave"
    /\ Creating.shuts = FALSE /\ Creating.blocks = FALSE
BY DEF Creating, Fields

LEMMA EditingFields ==
    /\ Fields \subseteq DOMAIN Editing
    /\ Editing.creates = FALSE /\ Editing.fills = "load" /\ Editing.done = "reload"
    /\ Editing.shuts = TRUE /\ Editing.blocks = FALSE
BY DEF Editing, Fields

LEMMA ShapeOfPages ==
    ASSUME form \in FormPages
    PROVE  Shape
<1>1. CASE form \in {NewHearingForm, NewContactPage, NewTemplatePage, NewInvoicePage, SignupPage,
                     NewAppointmentForm}
    BY <1>1, CreatingFields DEF Fields, Shape, NewHearingForm, NewContactPage, NewTemplatePage,
       NewInvoicePage, SignupPage, NewAppointmentForm
<1>2. CASE form \in {NewCaseForm, TimeEntryForm, PaymentForm, CreateUserModal, NewRateForm}
    BY <1>2, CreatingFields DEF Fields, Shape, NewCaseForm, TimeEntryForm, PaymentForm,
       CreateUserModal, NewRateForm
<1>3. CASE form \in {RateForm, ContactDetailPage, TemplateDetailPage, HearingDetailPage,
                     AppointmentDetailPage}
    BY <1>3, EditingFields DEF Fields, Shape, RateForm, ContactDetailPage, TemplateDetailPage,
       HearingDetailPage, AppointmentDetailPage
<1>4. CASE form \in {TemplateEditorScreen, PortalProfilePage}
    BY <1>4, EditingFields DEF Fields, Shape, TemplateEditorScreen, PortalProfilePage
<1> QED
    BY <1>1, <1>2, <1>3, <1>4 DEF FormPages

LEMMA FormInitInv == FormInit => FormInv
<1> SUFFICES ASSUME FormInit PROVE FormInv
    OBVIOUS
<1>1. Shape
    BY ShapeOfPages DEF FormInit
<1>2. form.done = "adopt" /\ ~form.shuts => open
    BY <1>1 DEF FormInit, Shape
<1>3. open \in BOOLEAN
    BY Zenon DEF FormInit
<1>4. stored \in Values \cup {Empty, Gone} /\ load \in Values \cup {None, Nothing, Failed}
    BY DEF FormInit
<1>5. FormTypeOK
  <2>1. abandoned \in BOOLEAN /\ place \in {"here", "leaving", "gone"}
    BY DEF FormInit
  <2>2. {lost, made, sends} \subseteq 0..MaxSends /\ made <= sends
    BY FormAssumption DEF FormInit
  <2>3. field \in Values \cup {Empty} /\ row \in Values \cup {None} /\ own \subseteq Values \cup {Empty}
    BY DEF FormInit
  <2>4. call = None /\ removal = None
    BY DEF FormInit
  <2> QED
    BY <1>3, <1>4, <2>1, <2>2, <2>3, <2>4 DEF FormTypeOK
<1>6. RowsApart /\ CallsCounted
    BY FormAssumption DEF FormInit, RowsApart, CallsCounted, Pending
<1>7. FieldsAreOwn
    BY <1>2 DEF FormInit, FieldsAreOwn, Start
<1> QED
    BY <1>1, <1>5, <1>6, <1>7 DEF FormInv

(* Nothing changes which form it is.                                       *)
LEMMA ShapeStays ==
    ASSUME Shape, form' = form
    PROVE  Shape'
BY DEF Shape

(* What does not touch the fields keeps them the form's own.               *)
LEMMA FieldsStay ==
    ASSUME FieldsAreOwn, UNCHANGED <<form, row, field, open, own, abandoned>>
    PROVE  FieldsAreOwn'
BY DEF FieldsAreOwn, Start

LEMMA CallsStay ==
    ASSUME CallsCounted, UNCHANGED <<form, call, made, lost, sends>>
    PROVE  CallsCounted'
BY DEF CallsCounted, Pending
-------------------------------------------------------------------------------
LEMMA ReadRowInv ==
    ASSUME FormInv, ReadRow
    PROVE  FormInv'
<1>1. Shape' /\ FieldsAreOwn' /\ CallsCounted'
    BY ShapeStays, FieldsStay, CallsStay DEF FormInv, ReadRow
<1>2. ~form.creates
    BY FormAssumption DEF FormInv, RowsApart, ReadRow
<1>3. FormTypeOK'
    BY <1>2, FormAssumption DEF FormInv, FormTypeOK, RowsApart, ReadRow
<1>4. RowsApart'
    BY <1>2 DEF FormInv, RowsApart, ReadRow
<1> QED
    BY <1>1, <1>3, <1>4 DEF FormInv

LEMMA TakeRowInv ==
    ASSUME FormInv, TakeRow
    PROVE  FormInv'
<1>1. Shape' /\ CallsCounted'
    BY ShapeStays, CallsStay DEF FormInv, TakeRow
<1>2. ~form.creates
    BY DEF FormInv, RowsApart, TakeRow
<1>3. load = Failed \/ load \in Values
    BY DEF FormInv, FormTypeOK, TakeRow
<1>4. FormTypeOK'
    BY <1>3, FormAssumption DEF FormInv, FormTypeOK, TakeRow
<1>5. RowsApart'
    BY <1>2 DEF FormInv, RowsApart, TakeRow
<1>6. FieldsAreOwn'
  <2>1. CASE load # Failed /\ form.fills = "load"
    BY <2>1 DEF FormInv, FieldsAreOwn, TakeRow
  <2>2. CASE load = Failed
    BY <2>2, FieldsStay DEF FormInv, TakeRow
  <2>3. CASE form.fills = "open"
    BY <2>3 DEF FormInv, FieldsAreOwn, TakeRow
  <2> QED
    BY <1>2, <2>1, <2>2, <2>3 DEF FormInv, Shape
<1> QED
    BY <1>1, <1>4, <1>5, <1>6 DEF FormInv

LEMMA StartTyped ==
    ASSUME FormTypeOK
    PROVE  Start \in Values \cup {Empty}
BY DEF FormTypeOK, Start

LEMMA OpenInv ==
    ASSUME FormInv, Open
    PROVE  FormInv'
<1>1. Shape' /\ CallsCounted'
    BY ShapeStays, CallsStay DEF FormInv, Open
<1>2. FormTypeOK'
    BY StartTyped DEF FormInv, FormTypeOK, Open
<1>3. RowsApart'
    BY DEF FormInv, RowsApart, Open
<1>4. FieldsAreOwn'
    BY DEF FormInv, FieldsAreOwn, Open
<1> QED
    BY <1>1, <1>2, <1>3, <1>4 DEF FormInv

LEMMA TypeInv ==
    ASSUME FormInv, NEW v \in Values, Type(v)
    PROVE  FormInv'
<1>1. Shape' /\ CallsCounted'
    BY ShapeStays, CallsStay DEF FormInv, Type
<1>2. FormTypeOK'
    BY DEF FormInv, FormTypeOK, Type
<1>3. RowsApart'
    BY DEF FormInv, RowsApart, Type
<1>4. FieldsAreOwn'
    BY DEF FormInv, FieldsAreOwn, Type
<1> QED
    BY <1>1, <1>2, <1>3, <1>4 DEF FormInv

LEMMA CancelInv ==
    ASSUME FormInv, Cancel
    PROVE  FormInv'
<1>1. Shape' /\ CallsCounted'
    BY ShapeStays, CallsStay DEF FormInv, Cancel
<1>2. FormTypeOK'
    BY StartTyped DEF FormInv, FormTypeOK, Cancel
<1>3. RowsApart'
    BY DEF FormInv, RowsApart, Cancel
<1>4. FieldsAreOwn'
  <2>1. CASE form.cancel = "page"
    BY <2>1, FieldsStay DEF FormInv, Cancel
  <2>2. CASE form.cancel # "page"
    <3>1. Start' = Start
        BY DEF Cancel, Start
    <3>2. ~open' /\ (~abandoned' /\ form.fills # "open" => field' = Start)
        BY <2>2 DEF Cancel, FormInv, FormTypeOK
    <3>3. ~(form.done = "adopt" /\ ~form.shuts)
        BY DEF Cancel, FormInv, Shape
    <3> QED
        BY <3>1, <3>2, <3>3 DEF FieldsAreOwn, Cancel
  <2> QED
    BY <2>1, <2>2
<1> QED
    BY <1>1, <1>2, <1>3, <1>4 DEF FormInv

LEMMA SendInv ==
    ASSUME FormInv, Send
    PROVE  FormInv'
<1>1. Shape' /\ FieldsAreOwn'
    BY ShapeStays, FieldsStay DEF FormInv, Send
<1>2. RowsApart'
    BY DEF FormInv, RowsApart, Send
<1>3. FormTypeOK'
    BY FormAssumption DEF FormInv, FormTypeOK, Send
<1>4. CallsCounted'
    BY FormAssumption DEF FormInv, FormTypeOK, CallsCounted, Pending, Send
<1> QED
    BY <1>1, <1>2, <1>3, <1>4 DEF FormInv

LEMMA StoreInv ==
    ASSUME FormInv, Store
    PROVE  FormInv'
<1>1. Shape' /\ FieldsAreOwn'
    BY ShapeStays, FieldsStay DEF FormInv, Store
<1>2. call \in [value : Values, answer : Values \cup {None, Failed, Refused}] /\ Pending
    BY DEF FormInv, FormTypeOK, Store, Pending
<1>3. RowsApart'
    BY <1>2, FormAssumption DEF FormInv, RowsApart, Store
<1>4. made < sends /\ made \in 0..MaxSends /\ lost \in 0..MaxSends /\ sends \in 0..MaxSends
    BY <1>2 DEF FormInv, FormTypeOK, CallsCounted
<1>5. CASE /\ stored' = call.value /\ made' = made + 1
           /\ call' = [call EXCEPT !.answer = call.value] /\ UNCHANGED lost
    <2>1. FormTypeOK'
        BY <1>2, <1>4, <1>5, FormAssumption DEF FormInv, FormTypeOK, Store
    <2>2. CallsCounted'
        BY <1>2, <1>4, <1>5, FormAssumption DEF FormInv, CallsCounted, Pending, Store
    <2> QED
        BY <1>1, <1>3, <2>1, <2>2 DEF FormInv
<1>6. CASE /\ stored' = call.value /\ made' = made + 1
           /\ call' = [call EXCEPT !.answer = Failed] /\ lost' = lost + 1
    <2>1. form.frees = "refusal" => made = lost
        BY <1>2 DEF FormInv, CallsCounted
    <2>2. lost <= made
        BY DEF FormInv, CallsCounted
    <2>3. FormTypeOK'
        BY <1>2, <1>4, <1>6, <2>2, FormAssumption DEF FormInv, FormTypeOK, Store
    <2>4. CallsCounted'
        BY <1>2, <1>4, <1>6, <2>1, <2>2, FormAssumption DEF FormInv, CallsCounted, Pending, Store
    <2> QED
        BY <1>1, <1>3, <2>3, <2>4 DEF FormInv
<1>7. CASE call' = [call EXCEPT !.answer = Refused] /\ UNCHANGED <<stored, made, lost>>
    <2>1. FormTypeOK'
        BY <1>2, <1>7, FormAssumption DEF FormInv, FormTypeOK, Store
    <2>2. CallsCounted'
        BY <1>2, <1>4, <1>7, FormAssumption DEF FormInv, CallsCounted, Pending, Store
    <2> QED
        BY <1>1, <1>3, <2>1, <2>2 DEF FormInv
<1> QED
    BY <1>5, <1>6, <1>7 DEF Store

LEMMA StoreElsewhereInv ==
    ASSUME FormInv, NEW v \in Values \cup {Gone}, StoreElsewhere(v)
    PROVE  FormInv'
<1>1. Shape' /\ FieldsAreOwn' /\ CallsCounted'
    BY ShapeStays, FieldsStay, CallsStay DEF FormInv, StoreElsewhere
<1>2. FormTypeOK' /\ RowsApart'
    BY FormAssumption DEF FormInv, FormTypeOK, RowsApart, StoreElsewhere
<1> QED
    BY <1>1, <1>2 DEF FormInv

LEMMA HearFailureInv ==
    ASSUME FormInv, HearFailure
    PROVE  FormInv'
<1>1. Shape' /\ FieldsAreOwn'
    BY ShapeStays, FieldsStay DEF FormInv, HearFailure
<1>2. FormTypeOK' /\ RowsApart' /\ CallsCounted'
    BY DEF FormInv, FormTypeOK, RowsApart, CallsCounted, Pending, HearFailure
<1> QED
    BY <1>1, <1>2 DEF FormInv

LEMMA HearSuccessInv ==
    ASSUME FormInv, HearSuccess
    PROVE  FormInv'
<1>1. Shape'
    BY ShapeStays DEF FormInv, HearSuccess
<1>2. call \in [value : Values, answer : Values \cup {None, Failed, Refused}] /\ call' = None
    BY DEF FormInv, FormTypeOK, HearSuccess
<1>3. CallsCounted'
    BY <1>2 DEF FormInv, CallsCounted, Pending, HearSuccess
<1>4. RowsApart'
    BY DEF FormInv, RowsApart, Shape, HearSuccess
<1>5. own' \subseteq Values \cup {Empty}
    BY <1>2 DEF FormInv, FormTypeOK, HearSuccess, Shape
<1>6. FormTypeOK'
    BY <1>2, <1>5 DEF FormInv, FormTypeOK, HearSuccess, Shape
<1>7. FieldsAreOwn'
  <2>1. CASE form.done = "clear"
    <3>1. field' = Empty /\ form' = form
        BY <2>1 DEF HearSuccess
    <3>2. own' = {Empty}
        BY <2>1 DEF HearSuccess
    <3> QED
        BY <2>1, <3>1, <3>2 DEF FieldsAreOwn
  <2>2. CASE form.done # "clear" /\ form.shuts
    BY <2>2 DEF FormInv, FormTypeOK, FieldsAreOwn, HearSuccess
  <2>3. CASE form.done # "clear" /\ ~form.shuts
    <3>1. open' = open /\ abandoned' = abandoned /\ own' = own /\ field' = field
        BY <2>3 DEF FormInv, FormTypeOK, HearSuccess
    <3>2. form.done # "adopt" => Start' = Start
        BY DEF HearSuccess, Start
    <3> QED
        BY <2>3, <3>1, <3>2 DEF FormInv, FieldsAreOwn, HearSuccess
  <2> QED
    BY <2>1, <2>2, <2>3
<1> QED
    BY <1>1, <1>3, <1>4, <1>6, <1>7 DEF FormInv

(* Leaving the page, and all that has to do with the removal of its row.   *)
LEMMA RemovalInv ==
    ASSUME FormInv, Leave \/ AskRemoval \/ RemoveStored \/ HearRemoval
    PROVE  FormInv'
<1>1. Shape' /\ FieldsAreOwn' /\ CallsCounted'
    BY ShapeStays, FieldsStay, CallsStay DEF FormInv, Leave, AskRemoval, RemoveStored, HearRemoval
<1>2. CASE Leave \/ AskRemoval \/ HearRemoval
    BY <1>1, <1>2 DEF FormInv, FormTypeOK, RowsApart, Leave, AskRemoval, HearRemoval
<1>3. CASE RemoveStored
    BY <1>1, <1>3, FormAssumption DEF FormInv, FormTypeOK, RowsApart, RemoveStored
<1> QED
    BY <1>2, <1>3

LEMMA FormNextInv == FormInv /\ [FormNext]_formVars => FormInv'
<1> SUFFICES ASSUME FormInv, [FormNext]_formVars PROVE FormInv'
    OBVIOUS
<1>1. CASE FormNext
    BY <1>1, ReadRowInv, TakeRowInv, OpenInv, TypeInv, CancelInv, SendInv, StoreInv,
       StoreElsewhereInv, HearFailureInv, HearSuccessInv, RemovalInv DEF FormNext
<1>2. CASE UNCHANGED formVars
    <2>1. Shape' /\ FieldsAreOwn' /\ CallsCounted'
        BY <1>2, ShapeStays, FieldsStay, CallsStay DEF FormInv, formVars
    <2> QED
        BY <1>2, <2>1 DEF FormInv, FormTypeOK, RowsApart, formVars
<1> QED
    BY <1>1, <1>2

LEMMA FormInvHolds == FormSpec => []FormInv
BY FormInitInv, FormNextInv, PTL DEF FormSpec
-------------------------------------------------------------------------------
(* The variables of every form stay in their types.                        *)
THEOREM FormTypeCorrect == FormSpec => []FormTypeOK
<1>1. FormInv => FormTypeOK
    BY DEF FormInv
<1> QED
    BY <1>1, FormInvHolds, PTL

(* A form whose button only a refusal frees (hearings/new, signup) creates *)
(* one row, and one more for each answer that got lost, however often it   *)
(* is sent.                                                                *)
THEOREM CreatesOnce == FormSpec => []CreatedOnce
<1>1. FormInv => CreatedOnce
    BY DEF FormInv, CallsCounted, CreatedOnce
<1> QED
    BY <1>1, FormInvHolds, PTL

(* What any of the pages sends is what its form was opened with or what    *)
(* was typed since, and never again what was refused as a conflict.        *)
THEOREM FormsSendOwnContent == FormSpec => SendsOwnContent
<1> DEFINE Step ==
        call = None /\ call' # None =>
            /\ ~abandoned => call'.value \in own
            /\ form.blocks => call'.value # conflict
<1>1. FormInv /\ [FormNext]_formVars => [Step]_formVars
  <2> SUFFICES ASSUME FormInv, FormNext, call = None, call' # None PROVE Step
    BY DEF formVars
  <2>1. Send
    BY DEF FormNext, ReadRow, TakeRow, Open, Type, Cancel, Leave, Store, StoreElsewhere, HearFailure,
           HearSuccess, AskRemoval, RemoveStored, HearRemoval
  <2>2. call'.value = field /\ open /\ field \in Values
    BY <2>1 DEF Send, FormInv, FormTypeOK
  <2> QED
    BY <2>1, <2>2, FormAssumption DEF Send, FormInv, FieldsAreOwn
<1> QED
    BY <1>1, FormInvHolds, PTL DEF FormSpec, SendsOwnContent
-------------------------------------------------------------------------------
(* The screen of the settings, for any secrets and any number of saves.    *)
StoredKeys == NewKeys \cup {Blank}

SettingsTypes ==
    /\ keys \in [Secrets -> StoredKeys \cup {Placeholder}] /\ typed \subseteq Secrets
    /\ secrets \in [Secrets -> StoredKeys] /\ secrets = kept
    /\ phase \in {"loading", "ready", "saving"} /\ (phase # "saving" => reply = None)

ShownSecret(s) == IF secrets[s] # Blank THEN Placeholder ELSE Blank

(* A field that was not typed into says whether its secret is set, unless  *)
(* the page has yet to hear what its save made of that.                    *)
FieldsTellStored ==
    /\ phase = "loading" => typed = {}
    /\ \A s \in typed : keys[s] # Placeholder
    /\ phase # "loading" /\ reply \in {None, Refused} => \A s \in Secrets \ typed : keys[s] = ShownSecret(s)
    /\ reply \notin {None, Refused} => reply = SetOf(secrets)

(* A save carries what was typed, and nothing else that the server lacks.  *)
BodyIsTyped ==
    phase = "saving" /\ reply = None =>
        \A s \in Secrets :
            /\ s \in body.typed => s \in DOMAIN body.secrets
            /\ s \in DOMAIN body.secrets => body.secrets[s] \in StoredKeys
            /\ s \in DOMAIN body.secrets \ body.typed => body.secrets[s] = secrets[s]
            /\ s \in body.typed => s \in typed

Honest == SettingsTypes /\ FieldsTellStored /\ BodyIsTyped

(* A page that has once missed a change stays blind.                       *)
SettingsInv == ~blind => Honest
-------------------------------------------------------------------------------
LEMMA SettingsInitInv == SettingsInit => SettingsInv
BY SettingsAssumption
DEF SettingsInit, SettingsInv, Honest, SettingsTypes, StoredKeys, FieldsTellStored, BodyIsTyped

LEMMA SentinelsShow ==
    ASSUME NEW s \in Secrets
    PROVE  Sentinels(SetOf(secrets))[s] = ShownSecret(s)
BY DEF Sentinels, SetOf, ShownSecret

LEMMA SentinelsTyped ==
    ASSUME NEW set
    PROVE  Sentinels(set) \in [Secrets -> StoredKeys \cup {Placeholder}]
BY DEF Sentinels, StoredKeys

LEMMA LoadInv ==
    ASSUME Honest, Load, ~blind'
    PROVE  Honest'
<1>1. keys' = Sentinels(SetOf(secrets)) /\ phase' = "ready" /\ reply = None
    BY DEF Load, Honest, SettingsTypes
<1>2. UNCHANGED <<typed, body, reply, secrets, kept>>
    BY DEF Load
<1>3. SettingsTypes'
    BY <1>1, <1>2, SentinelsTyped DEF Honest, SettingsTypes
<1>4. \A s \in Secrets : keys'[s] = ShownSecret(s)'
    BY <1>1, <1>2, SentinelsShow DEF ShownSecret
<1>5. typed' = {}
    BY <1>2 DEF Load, Honest, FieldsTellStored
<1>6. FieldsTellStored'
    BY <1>1, <1>2, <1>4, <1>5 DEF FieldsTellStored
<1>7. BodyIsTyped'
    BY <1>1 DEF BodyIsTyped
<1> QED
    BY <1>3, <1>6, <1>7 DEF Honest

LEMMA TypeKeyInv ==
    ASSUME Honest, NEW s \in Secrets, NEW k \in NewKeys \cup {Blank}, TypeKey(s, k)
    PROVE  Honest'
<1>1. SettingsTypes'
    BY DEF Honest, SettingsTypes, StoredKeys, TypeKey
<1>2. FieldsTellStored'
  <2>1. \A t \in typed' : keys'[t] # Placeholder
    BY SettingsAssumption DEF Honest, SettingsTypes, FieldsTellStored, TypeKey
  <2>2. \A t \in Secrets \ typed' : t \in Secrets \ typed /\ keys'[t] = keys[t] /\ ShownSecret(t)' = ShownSecret(t)
    BY DEF Honest, SettingsTypes, TypeKey, ShownSecret
  <2> QED
    BY <2>1, <2>2 DEF Honest, FieldsTellStored, TypeKey, SetOf
<1>3. BodyIsTyped'
    BY DEF Honest, BodyIsTyped, TypeKey
<1> QED
    BY <1>1, <1>2, <1>3 DEF Honest

LEMMA SaveInv ==
    ASSUME Honest, Save
    PROVE  Honest'
<1>1. SettingsTypes'
    BY DEF Honest, SettingsTypes, Save
<1>2. FieldsTellStored'
    BY DEF Honest, SettingsTypes, FieldsTellStored, Save, ShownSecret, SetOf
<1>3. BodyIsTyped'
  <2>1. /\ body'.typed = typed /\ DOMAIN body'.secrets = SentSecrets
        /\ \A s \in SentSecrets : body'.secrets[s] = keys[s]
    BY DEF Save
  <2>2. \A s \in Secrets \ typed : keys[s] = ShownSecret(s)
    BY DEF Honest, SettingsTypes, FieldsTellStored, Save
  <2>3. ASSUME NEW s \in Secrets
        PROVE  /\ s \in typed => s \in SentSecrets
               /\ s \in SentSecrets => keys[s] \in StoredKeys
               /\ s \in SentSecrets \ typed => keys[s] = secrets[s]
    BY <2>2 DEF Honest, SettingsTypes, FieldsTellStored, SentSecrets, ShownSecret
  <2> QED
    BY <2>1, <2>3 DEF BodyIsTyped, Save
<1> QED
    BY <1>1, <1>2, <1>3 DEF Honest

LEMMA UpdateInv ==
    ASSUME Honest, Update
    PROVE  Honest'
<1>1. CASE reply' = Refused /\ UNCHANGED <<secrets, firm, kept>>
  <2>1. SettingsTypes'
    BY <1>1 DEF Honest, SettingsTypes, Update
  <2>2. FieldsTellStored'
    BY <1>1 DEF Honest, FieldsTellStored, Update, ShownSecret
  <2>3. BodyIsTyped'
    BY <1>1, SettingsAssumption DEF BodyIsTyped
  <2> QED
    BY <2>1, <2>2, <2>3 DEF Honest
<1>2. CASE /\ secrets' = [s \in Secrets |->
                              IF s \in DOMAIN body.secrets /\ body.secrets[s] # Placeholder
                              THEN body.secrets[s] ELSE secrets[s]]
           /\ reply' \in {SetOf(secrets'), Refused}
           /\ kept' = [s \in Secrets |-> IF s \in body.typed THEN body.secrets[s] ELSE kept[s]]
  <2>1. reply' # None /\ (reply' # Refused => reply' = SetOf(secrets'))
    BY <1>2, SettingsAssumption DEF SetOf
  <2>2. ASSUME NEW s \in Secrets
        PROVE  /\ s \in body.typed => s \in DOMAIN body.secrets
               /\ s \in DOMAIN body.secrets => body.secrets[s] \in StoredKeys
               /\ s \in DOMAIN body.secrets \ body.typed => body.secrets[s] = secrets[s]
               /\ secrets[s] = kept[s] /\ secrets[s] \in StoredKeys /\ Placeholder \notin StoredKeys
    BY SettingsAssumption DEF Honest, BodyIsTyped, SettingsTypes, StoredKeys, Update
  <2>3. \A s \in Secrets : secrets'[s] = kept'[s] /\ secrets'[s] \in StoredKeys
    BY <1>2, <2>2
  <2>4. SettingsTypes'
    <3>1. secrets' = kept' /\ secrets' \in [Secrets -> StoredKeys]
        BY <1>2, <2>3
    <3> QED
        BY <3>1 DEF Honest, SettingsTypes, Update
  <2>5. FieldsTellStored'
    <3>1. (\A s \in Secrets : s \in body.typed => s \in typed) /\ phase = "saving" /\ reply = None
        BY DEF Honest, BodyIsTyped, Update
    <3>2. \A s \in Secrets \ typed : secrets'[s] = secrets[s]
        BY <1>2, <2>2, <3>1
    <3> QED
        BY <2>1, <3>1, <3>2 DEF Honest, FieldsTellStored, ShownSecret, Update
  <2>6. BodyIsTyped'
    BY <2>1 DEF BodyIsTyped
  <2> QED
    BY <2>4, <2>5, <2>6 DEF Honest
<1> QED
    BY <1>1, <1>2 DEF Update

LEMMA HearInv ==
    ASSUME Honest, Hear
    PROVE  Honest'
<1>1. phase' = "ready" /\ reply' = None /\ UNCHANGED <<secrets, kept>>
    BY DEF Hear
<1>2. CASE reply = Refused
  <2>1. UNCHANGED <<keys, typed>> /\ phase = "saving"
    BY <1>2, SettingsAssumption DEF Hear, Honest, SettingsTypes
  <2>2. SettingsTypes'
    BY <1>1, <2>1 DEF Honest, SettingsTypes
  <2>3. FieldsTellStored'
    BY <1>1, <1>2, <2>1 DEF Honest, FieldsTellStored, ShownSecret
  <2> QED
    BY <1>1, <2>2, <2>3 DEF Honest, BodyIsTyped
<1>3. CASE reply # Refused
  <2>1. keys' = Sentinels(SetOf(secrets)) /\ typed' = {}
    BY <1>3 DEF Hear, Refresh, Honest, FieldsTellStored
  <2>2. SettingsTypes'
    BY <1>1, <2>1, SentinelsTyped DEF Honest, SettingsTypes
  <2>3. \A s \in Secrets : keys'[s] = ShownSecret(s)'
    BY <1>1, <2>1, SentinelsShow DEF ShownSecret
  <2>4. FieldsTellStored'
    BY <1>1, <2>1, <2>3 DEF FieldsTellStored
  <2> QED
    BY <1>1, <2>2, <2>4 DEF Honest, BodyIsTyped
<1> QED
    BY <1>2, <1>3

LEMMA OthersInv ==
    ASSUME Honest, EditRest \/ Test \/ UNCHANGED settingsVars
    PROVE  Honest'
<1>1. UNCHANGED <<keys, typed, phase, body, reply, secrets, kept>>
    BY DEF EditRest, Test, settingsVars
<1>2. SettingsTypes' /\ BodyIsTyped'
    BY <1>1 DEF Honest, SettingsTypes, BodyIsTyped
<1>3. FieldsTellStored'
    BY <1>1 DEF Honest, FieldsTellStored, ShownSecret, SetOf
<1> QED
    BY <1>2, <1>3 DEF Honest

LEMMA SettingsNextInv == SettingsInv /\ [SettingsNext]_settingsVars => SettingsInv'
<1> SUFFICES ASSUME SettingsInv, [SettingsNext]_settingsVars, ~blind' PROVE Honest'
    BY DEF SettingsInv
<1>1. ~blind
    BY DEF SettingsNext, Load, EditRest, Save, Update, Hear, Test, TypeKey, SaveElsewhere, settingsVars
<1>2. Honest
    BY <1>1 DEF SettingsInv
<1>3. ASSUME NEW s \in Secrets, NEW k \in NewKeys \cup {Blank}, SaveElsewhere(s, k)
      PROVE  FALSE
    BY <1>3 DEF SaveElsewhere
<1> QED
    BY <1>2, <1>3, LoadInv, TypeKeyInv, SaveInv, UpdateInv, HearInv, OthersInv DEF SettingsNext

(* However often settings are saved, refused and typed into while an       *)
(* answer is awaited, a page that was loaded and is not overtaken by       *)
(* another manager changes the secrets it was given, and no other.         *)
THEOREM SecretsStay == SettingsSpec => []UntouchedSecretsStay
<1>1. SettingsInv => UntouchedSecretsStay
    BY DEF SettingsInv, Honest, SettingsTypes, UntouchedSecretsStay, SecretsChangeOnlyWhenTyped
<1> QED
    BY <1>1, SettingsInitInv, SettingsNextInv, PTL DEF SettingsSpec
-------------------------------------------------------------------------------
(* Sequences: what RemoveAt and a replacement leave.                       *)
LEMMA Concatenation ==
    ASSUME NEW S, NEW u \in Seq(S), NEW v \in Seq(S)
    PROVE  /\ u \o v \in Seq(S) /\ Len(u \o v) = Len(u) + Len(v)
           /\ \A k \in 1..Len(u) : (u \o v)[k] = u[k]
           /\ \A k \in 1..Len(v) : (u \o v)[Len(u) + k] = v[k]
OBVIOUS

(* A sequence without one of its elements.                                 *)
LEMMA Removal ==
    ASSUME NEW S, NEW s \in Seq(S), NEW i \in 1..Len(s)
    PROVE  /\ RemoveAt(s, i) \in Seq(S)
           /\ Len(RemoveAt(s, i)) = Len(s) - 1
           /\ \A k \in 1..Len(s) - 1 : RemoveAt(s, i)[k] = IF k < i THEN s[k] ELSE s[k + 1]
<1>1. SubSeq(s, 1, i - 1) \in Seq(S) /\ SubSeq(s, i + 1, Len(s)) \in Seq(S)
    OBVIOUS
<1>2. Len(SubSeq(s, 1, i - 1)) = i - 1 /\ Len(SubSeq(s, i + 1, Len(s))) = Len(s) - i
    OBVIOUS
<1>3. \A k \in 1..i - 1 : SubSeq(s, 1, i - 1)[k] = s[k]
    OBVIOUS
<1>4. \A k \in 1..Len(s) - i : SubSeq(s, i + 1, Len(s))[k] = s[k + i]
    OBVIOUS
<1> DEFINE a == SubSeq(s, 1, i - 1)
           b == SubSeq(s, i + 1, Len(s))
           r == a \o b
<1>5. r = RemoveAt(s, i)
    BY DEF RemoveAt
<1> HIDE DEF a, b
<1>6. /\ r \in Seq(S) /\ Len(r) = Len(a) + Len(b)
      /\ \A k \in 1..Len(a) : r[k] = a[k]
      /\ \A k \in 1..Len(b) : r[Len(a) + k] = b[k]
  <2>1. a \in Seq(S) /\ b \in Seq(S)
      BY <1>1 DEF a, b
  <2> QED
      BY <2>1, Concatenation
<1>7. Len(a) = i - 1 /\ Len(b) = Len(s) - i
    BY <1>2 DEF a, b
<1> HIDE DEF r
<1>8. /\ r \in Seq(S) /\ Len(r) = (i - 1) + (Len(s) - i)
      /\ \A k \in 1..i - 1 : r[k] = a[k]
      /\ \A k \in 1..Len(s) - i : r[(i - 1) + k] = b[k]
    BY <1>6, <1>7
<1>9. \A k \in 1..i - 1 : r[k] = s[k]
    BY <1>3, <1>8 DEF a
<1>10. \A k \in 1..Len(s) - i : r[(i - 1) + k] = s[k + i]
    BY <1>4, <1>8 DEF b
<1>11. ASSUME NEW k \in 1..Len(s) - 1
       PROVE  r[k] = IF k < i THEN s[k] ELSE s[k + 1]
  <2>1. CASE k < i
      BY <1>9, <2>1
  <2>2. CASE ~(k < i)
    <3>1. k - (i - 1) \in 1..Len(s) - i /\ (i - 1) + (k - (i - 1)) = k /\ k - (i - 1) + i = k + 1
        BY <2>2
    <3> QED
        BY <1>10, <2>2, <3>1
  <2> QED
      BY <2>1, <2>2
<1> QED
    BY <1>5, <1>8, <1>11

(* A sequence with another element in one of its places.                   *)
LEMMA Replacement ==
    ASSUME NEW S, NEW s \in Seq(S), NEW i \in 1..Len(s), NEW e \in S
    PROVE  /\ [s EXCEPT ![i] = e] \in Seq(S)
           /\ Len([s EXCEPT ![i] = e]) = Len(s)
           /\ \A k \in 1..Len(s) : [s EXCEPT ![i] = e][k] = IF k = i THEN e ELSE s[k]
OBVIOUS
-------------------------------------------------------------------------------
(* The tools.                                                              *)
Message == [by : {"user", "assistant"}, input : Inputs]

ToolTypes ==
    /\ subject \in Subjects /\ input \in Inputs \cup {None} /\ offered \subseteq Inputs
    /\ lists \in Seq(Subjects) /\ Len(lists) <= MaxLists
    /\ question # None => question.subject \in Subjects /\ question.input \in Inputs
    /\ outcome \in Outcome \cup {None, Failed}
    /\ talk \in Seq(Message)

(* While the user does not choose, the question is about what is chosen;   *)
(* what is on the page came from such a question, or was taken away.       *)
QuestionIsOfChoice ==
    question # None /\ ~switched =>
        question.subject = subject /\ (~tool.talks => question.input = input)

OutcomeIsKept ==
    outcome \in Outcome /\ ~switched =>
        /\ tool.wipes # "none" => outcome.subject = subject
        /\ tool.wipes = "both" => outcome.input = input

(* The conversation waits with its last question.                          *)
TalkWaits ==
    question # None /\ tool.talks =>
        talk # <<>> /\ talk[Len(talk)] = [by |-> "user", input |-> question.input]

(* While the list of the chosen case is awaited no document is picked.     *)
OfferIsOfChoice ==
    tool.lists /\ ~outrun =>
        /\ lists # <<>> => input = None /\ lists[Len(lists)] = subject
        /\ lists = <<>> => offered \subseteq InputsOf[subject] /\ input \in offered \cup {None}

ToolInv ==
    /\ tool.keeps => tool.wipes = "none"
    /\ ToolTypes /\ QuestionIsOfChoice /\ OutcomeIsKept
    /\ AnswersFollowQuestions /\ TalkWaits /\ OfferIsOfChoice
-------------------------------------------------------------------------------
LEMMA ToolShape ==
    ASSUME tool \in ToolPages
    PROVE  tool.keeps => tool.wipes = "none"
<1>1. DraftingTools.wipes = "subject" /\ DraftingTools.keeps = FALSE
    BY DEF DraftingTools
<1>2. ContractReview.keeps = FALSE
    BY DEF ContractReview, DraftingTools
<1>3. DocumentActions.wipes = "none" /\ ConflictCheck.wipes = "none" /\ AssistantScreen.wipes = "none"
    BY DEF DocumentActions, ConflictCheck, AssistantScreen, DraftingTools
<1> QED
    BY <1>1, <1>2, <1>3 DEF ToolPages

LEMMA ToolInitInv == ToolInit => ToolInv
<1> SUFFICES ASSUME ToolInit PROVE ToolInv
    OBVIOUS
<1>1. ToolTypes
    BY ToolsAssumption DEF ToolInit, ToolTypes
<1>2. QuestionIsOfChoice /\ OutcomeIsKept /\ AnswersFollowQuestions /\ TalkWaits
    BY ToolsAssumption DEF ToolInit, QuestionIsOfChoice, OutcomeIsKept, AnswersFollowQuestions, TalkWaits
<1>3. OfferIsOfChoice
    BY DEF ToolInit, OfferIsOfChoice
<1> QED
    BY <1>1, <1>2, <1>3, ToolShape DEF ToolInit, ToolInv

LEMMA ChooseSubjectInv ==
    ASSUME ToolInv, NEW s \in Subjects, ChooseSubject(s)
    PROVE  ToolInv'
<1>1. ToolTypes'
  <2>1. Append(lists, s) \in Seq(Subjects) /\ Len(Append(lists, s)) = Len(lists) + 1
      BY DEF ToolInv, ToolTypes
  <2>2. lists' \in Seq(Subjects) /\ Len(lists') <= MaxLists
      BY <2>1, ToolsAssumption DEF ToolInv, ToolTypes, ChooseSubject
  <2> QED
      BY <2>2 DEF ToolInv, ToolTypes, ChooseSubject
<1>2. QuestionIsOfChoice' /\ TalkWaits' /\ AnswersFollowQuestions'
    BY DEF ToolInv, QuestionIsOfChoice, TalkWaits, AnswersFollowQuestions, ChooseSubject, Switch
<1>3. OutcomeIsKept'
    BY ToolsAssumption DEF ToolInv, OutcomeIsKept, ChooseSubject, Switch
<1>4. OfferIsOfChoice'
    BY DEF ToolInv, ToolTypes, OfferIsOfChoice, ChooseSubject
<1> QED
    BY <1>1, <1>2, <1>3, <1>4 DEF ToolInv, ChooseSubject

LEMMA TakeListInv ==
    ASSUME ToolInv, NEW i \in DOMAIN lists, TakeList(i)
    PROVE  ToolInv'
<1>1. /\ lists' \in Seq(Subjects) /\ Len(lists') = Len(lists) - 1 /\ i \in 1..Len(lists)
      /\ \A k \in 1..Len(lists) - 1 : lists'[k] = IF k < i THEN lists[k] ELSE lists[k + 1]
    BY Removal DEF ToolInv, ToolTypes, TakeList
<1>2. lists[i] \in Subjects
    BY DEF ToolInv, ToolTypes
<1>3. ToolTypes'
  <2>1. Len(lists') <= MaxLists
      BY <1>1, ToolsAssumption DEF ToolInv, ToolTypes
  <2>2. offered' \subseteq Inputs
      BY <1>2, ToolsAssumption DEF TakeList
  <2> QED
      BY <1>1, <2>1, <2>2 DEF ToolInv, ToolTypes, TakeList
<1>4. QuestionIsOfChoice' /\ TalkWaits' /\ AnswersFollowQuestions' /\ OutcomeIsKept'
    BY DEF ToolInv, QuestionIsOfChoice, TalkWaits, AnswersFollowQuestions, OutcomeIsKept, TakeList
<1>5. OfferIsOfChoice'
  <2>0. (outrun' <=> outrun \/ i > 1) /\ UNCHANGED <<tool, input, subject>>
      BY DEF TakeList
  <2> SUFFICES ASSUME tool.lists, ~outrun, ~(i > 1)
               PROVE  /\ lists' # <<>> => input = None /\ lists'[Len(lists')] = subject
                      /\ lists' = <<>> => offered' \subseteq InputsOf[subject] /\ input \in offered' \cup {None}
      BY <2>0 DEF OfferIsOfChoice
  <2>1. input = None /\ lists[Len(lists)] = subject
      BY DEF ToolInv, OfferIsOfChoice
  <2>2. ASSUME lists' # <<>> PROVE lists'[Len(lists')] = subject
      BY <1>1, <2>1, <2>2
  <2>3. ASSUME lists' = <<>> PROVE lists[i] = subject
    <3>1. Len(lists) = 1 /\ i = 1
        BY <1>1, <2>3 DEF ToolInv, ToolTypes
    <3> QED
        BY <2>1, <3>1
  <2> QED
      BY <2>1, <2>2, <2>3 DEF TakeList
<1> QED
    BY <1>3, <1>4, <1>5 DEF ToolInv, TakeList

LEMMA ChooseInputInv ==
    ASSUME ToolInv, NEW x \in Inputs \cup {None}, ChooseInput(x)
    PROVE  ToolInv'
<1>1. ToolTypes'
    BY DEF ToolInv, ToolTypes, ChooseInput
<1>2. QuestionIsOfChoice' /\ TalkWaits' /\ AnswersFollowQuestions'
    BY DEF ToolInv, QuestionIsOfChoice, TalkWaits, AnswersFollowQuestions, ChooseInput, Switch
<1>3. OutcomeIsKept'
    BY ToolsAssumption DEF ToolInv, OutcomeIsKept, ChooseInput, Switch
<1>4. OfferIsOfChoice'
    BY DEF ToolInv, OfferIsOfChoice, ChooseInput
<1> QED
    BY <1>1, <1>2, <1>3, <1>4 DEF ToolInv, ChooseInput

(* Something was said: what is added to the conversation follows what was  *)
(* said before, or is a question.                                          *)
LEMMA Saying ==
    ASSUME ToolInv, NEW m \in Message, talk' = Append(talk, m),
           m.by = "assistant" => talk # <<>> /\ talk[Len(talk)] = [by |-> "user", input |-> m.input]
    PROVE  talk' \in Seq(Message) /\ AnswersFollowQuestions' /\ talk' # <<>> /\ talk'[Len(talk')] = m
<1>1. talk \in Seq(Message)
    BY DEF ToolInv, ToolTypes
<1>2. talk' \in Seq(Message) /\ Len(talk') = Len(talk) + 1 /\ talk'[Len(talk) + 1] = m
    BY <1>1
<1>3. \A k \in 1..Len(talk) : talk'[k] = talk[k]
    BY <1>1
<1>4. ASSUME NEW k \in 1..Len(talk'), talk'[k].by = "assistant"
      PROVE  k > 1 /\ talk'[k - 1] = [by |-> "user", input |-> talk'[k].input]
  <2>1. CASE k = Len(talk) + 1
      BY <1>1, <1>2, <1>3, <1>4, <2>1
  <2>2. CASE k # Len(talk) + 1
    <3>1. k \in 1..Len(talk) /\ talk[k].by = "assistant"
        BY <1>1, <1>2, <1>3, <1>4, <2>2
    <3>2. k > 1 /\ talk[k - 1] = [by |-> "user", input |-> talk[k].input]
        BY <1>1, <3>1 DEF ToolInv, AnswersFollowQuestions
    <3> QED
        BY <1>3, <3>1, <3>2
  <2> QED
      BY <2>1, <2>2
<1> QED
    BY <1>1, <1>2, <1>4 DEF AnswersFollowQuestions

LEMMA AskInv == ASSUME ToolInv, Ask PROVE ToolInv'
<1>1. input \in Inputs
    BY DEF Ask, ToolInv, ToolTypes
<1>2. question'.subject = subject /\ question'.input = input
    BY DEF Ask
<1>3. QuestionIsOfChoice'
    BY <1>2 DEF QuestionIsOfChoice, Ask
<1>4. OutcomeIsKept'
    BY ToolsAssumption DEF ToolInv, OutcomeIsKept, Ask
<1>5. OfferIsOfChoice'
    BY DEF ToolInv, OfferIsOfChoice, Ask
<1>6. talk' \in Seq(Message) /\ AnswersFollowQuestions' /\ TalkWaits'
  <2>1. CASE tool.talks
    <3>1. [by |-> "user", input |-> input] \in Message
        BY <1>1 DEF Message
    <3>2. talk' = Append(talk, [by |-> "user", input |-> input])
        BY <2>1 DEF Ask
    <3> QED
        BY <1>2, <3>1, <3>2, Saying DEF TalkWaits
  <2>2. CASE ~tool.talks
      BY <2>2 DEF Ask, ToolInv, ToolTypes, AnswersFollowQuestions, TalkWaits
  <2> QED
      BY <2>1, <2>2
<1>7. ToolTypes'
    BY <1>1, <1>2, <1>6 DEF ToolInv, ToolTypes, Ask
<1> QED
    BY <1>3, <1>4, <1>5, <1>6, <1>7 DEF ToolInv, Ask

LEMMA AnswerInv == ASSUME ToolInv, Answer PROVE ToolInv'
<1>1. question'.subject = question.subject /\ question'.input = question.input
    BY DEF Answer
<1> QED
    BY <1>1 DEF Answer, ToolInv, ToolTypes, QuestionIsOfChoice, OutcomeIsKept, AnswersFollowQuestions,
       TalkWaits, OfferIsOfChoice

LEMMA ShowInv == ASSUME ToolInv, Show PROVE ToolInv'
<1> DEFINE o == [subject |-> question.subject, input |-> question.input]
<1>1. o \in Outcome /\ o.subject = question.subject /\ o.input = question.input
    BY DEF ToolInv, ToolTypes, Show, Outcome
<1>2. outcome' \in {o, None, Failed} \/ (tool.keeps /\ outcome' = outcome)
    BY DEF Show
<1>3. tool.talks => outcome' = None
    BY DEF Show
<1> HIDE DEF o
<1>4. QuestionIsOfChoice' /\ TalkWaits'
    BY DEF QuestionIsOfChoice, TalkWaits, Show
<1>5. OutcomeIsKept'
    BY <1>1, <1>2, <1>3, ToolsAssumption DEF ToolInv, QuestionIsOfChoice, OutcomeIsKept, Show
<1>6. OfferIsOfChoice'
    BY DEF ToolInv, OfferIsOfChoice, Show
<1>7. talk' \in Seq(Message) /\ AnswersFollowQuestions'
  <2>1. CASE tool.talks /\ question.answered # Failed
    <3>1. [by |-> "assistant", input |-> question.input] \in Message
        BY DEF ToolInv, ToolTypes, Show, Message
    <3>2. talk' = Append(talk, [by |-> "assistant", input |-> question.input])
        BY <2>1 DEF Show
    <3>3. talk # <<>> /\ talk[Len(talk)] = [by |-> "user", input |-> question.input]
        BY <2>1 DEF ToolInv, TalkWaits, Show
    <3> QED
        BY <3>1, <3>2, <3>3, Saying
  <2>2. CASE ~(tool.talks /\ question.answered # Failed)
      BY <2>2 DEF Show, ToolInv, ToolTypes, AnswersFollowQuestions
  <2> QED
      BY <2>1, <2>2
<1>8. ToolTypes'
    BY <1>1, <1>2, <1>7 DEF ToolInv, ToolTypes, Show
<1> QED
    BY <1>4, <1>5, <1>6, <1>7, <1>8 DEF ToolInv, Show

LEMMA ToolNextInv == ToolInv /\ [ToolNext]_toolVars => ToolInv'
<1> SUFFICES ASSUME ToolInv, [ToolNext]_toolVars PROVE ToolInv'
    OBVIOUS
<1>1. CASE UNCHANGED toolVars
    BY <1>1 DEF toolVars, ToolInv, ToolTypes, QuestionIsOfChoice, OutcomeIsKept, AnswersFollowQuestions,
       TalkWaits, OfferIsOfChoice
<1> QED
    BY <1>1, ChooseSubjectInv, TakeListInv, ChooseInputInv, AskInv, AnswerInv, ShowInv DEF ToolNext

LEMMA ToolInvHolds == ToolSpec => []ToolInv
BY ToolInitInv, ToolNextInv, PTL DEF ToolSpec

(* The tools and conversations keep their types.                           *)
THEOREM ToolTyping == ToolSpec => []ToolTypeOK
<1>1. ToolInv => ToolTypeOK
    BY DEF ToolInv, ToolTypes, ToolTypeOK, Message
<1> QED
    BY <1>1, ToolInvHolds, PTL

(* Whatever is chosen, typed and asked, and whenever it is answered, what  *)
(* a page shows under its choice was asked for that choice, unless it was  *)
(* changed while the answer was awaited, and every answer of a             *)
(* conversation comes right after its own question.                        *)
THEOREM AnswersAreToTheirQuestions == ToolSpec => []ShowsWhatWasAsked
<1>1. ToolInv => ShowsWhatWasAsked
    BY DEF ToolInv, OutcomeIsKept, ShowsWhatWasAsked, OutcomeIsOfChoice, Displayed
<1> QED
    BY <1>1, ToolInvHolds, PTL

(* A question about a document goes with the document's own case, in       *)
(* whatever order cases are chosen, as long as the lists of their          *)
(* documents come in that order, and before a document is picked.          *)
THEOREM OwnCasesAreReviewed == ToolSpec => ReviewsOwnCase
<1>1. ToolInv /\ [ToolNext]_toolVars =>
          [tool.lists /\ question = None /\ question' # None /\ ~outrun
              => input \in InputsOf[subject]]_toolVars
  <2> SUFFICES ASSUME ToolInv, ToolNext, tool.lists, question = None, question' # None, ~outrun
               PROVE  input \in InputsOf[subject]
      OBVIOUS
  <2>1. Ask
      BY DEF ToolNext, ChooseSubject, TakeList, ChooseInput, Answer, Show
  <2> QED
      BY <2>1 DEF Ask, ToolInv, OfferIsOfChoice
<1> QED
    BY <1>1, ToolInvHolds, PTL DEF ToolSpec, ReviewsOwnCase
-------------------------------------------------------------------------------
(* The rows of a case.                                                     *)
Contents == UNION {[D -> RowType] : D \in SUBSET Rows}

CaseLoads == [case : Cases, answer : {None, Failed} \cup Contents, ends : BOOLEAN]

ActsOnRows ==
    {"create", "delete"} \cup IF Tasks THEN TaskStates ELSE {"confirm", "acknowledge"}

Changes == [act : ActsOnRows, row : Rows, case : Cases, person : People \cup {None},
            done : {None, Refused, "made"}]

RowTypes ==
    /\ chosen \in Cases \cup {None} /\ person \in People \cup {None}
    /\ detail = None \/ detail \in [case : Cases, rows : Contents]
    /\ waiting \in BOOLEAN /\ error \in BOOLEAN /\ saving \in BOOLEAN
    /\ rows \in [Rows -> RowType \cup {Gone}]
    /\ hasty \subseteq Rows \cup {None} /\ unheard \subseteq Rows /\ overtaken \in BOOLEAN
    /\ loads \in Seq(CaseLoads) /\ changes \in Seq(Changes)
    /\ \A i \in DOMAIN changes : changes[i].act = "create" => changes[i].person \in People

(* Whoever was not picked hastily is on the team, already in the form and  *)
(* on the way to the server.                                               *)
PickedFromTeam ==
    /\ None \notin hasty /\ person # None /\ chosen # None => person \in Team[chosen]
    /\ \A i \in DOMAIN changes :
           changes[i].act = "create" /\ changes[i].row \notin hasty =>
               changes[i].person \in Team[changes[i].case]

(* The last load asks for the chosen case, and will bring it as it is, but *)
(* for rows changed without an answer since, as long as no change is made  *)
(* that the page has not heard of, and so leads to another load.           *)
NoneMade == \A i \in DOMAIN changes : changes[i].done # "made"

LastLoadIsChosen ==
    chosen # None /\ ~overtaken /\ loads # <<>> =>
        /\ loads[Len(loads)].case = chosen
        /\ loads[Len(loads)].answer \in {None, Failed} \/ ~NoneMade
              \/ ShowsAsIs(loads[Len(loads)].answer, chosen)

PageIsChosen ==
    chosen # None /\ ~overtaken /\ loads = <<>> /\ detail # None /\ ~error =>
        detail.case = chosen /\ (NoneMade => ShowsAsIs(detail.rows, chosen))

RowsInv == RowTypes /\ ResponsibleOnTeam /\ PickedFromTeam /\ LastLoadIsChosen /\ PageIsChosen
-------------------------------------------------------------------------------
LEMMA Extension ==
    ASSUME NEW S, NEW s \in Seq(S), NEW e \in S
    PROVE  /\ Append(s, e) \in Seq(S) /\ Append(s, e) # <<>>
           /\ Len(Append(s, e)) = Len(s) + 1 /\ Append(s, e)[Len(s) + 1] = e
           /\ \A k \in 1..Len(s) : Append(s, e)[k] = s[k]
OBVIOUS

LEMMA RowsInitInv == RowsInit => RowsInv
<1> SUFFICES ASSUME RowsInit PROVE RowsInv
    OBVIOUS
<1>1. PICK c \in Cases : \E p \in Team[c], s \in States, there \in SUBSET Rows :
          rows = [r \in Rows |-> IF r \in there THEN RowOf(c, p, s) ELSE Gone]
    BY DEF RowsInit
<1>2. PICK p \in Team[c], s \in States, there \in SUBSET Rows :
          rows = [r \in Rows |-> IF r \in there THEN RowOf(c, p, s) ELSE Gone]
    BY <1>1
<1>3. RowOf(c, p, s) \in RowType /\ RowOf(c, p, s).person = p /\ RowOf(c, p, s).case = c
    BY TeamsAssumption DEF RowOf, RowType
<1>4. rows \in [Rows -> RowType \cup {Gone}]
    BY <1>2, <1>3
<1>5. RowTypes
  <2>1. changes = <<>> /\ loads = <<>> /\ hasty = {}
      BY DEF RowsInit
  <2>2. changes \in Seq(Changes) /\ loads \in Seq(CaseLoads) /\ DOMAIN changes = {}
      BY <2>1
  <2> QED
      BY <1>4, <2>1, <2>2 DEF RowsInit, RowTypes
<1>6. ResponsibleOnTeam
    BY <1>2, <1>3 DEF ResponsibleOnTeam
<1>7. PickedFromTeam /\ LastLoadIsChosen /\ PageIsChosen
    BY DEF RowsInit, PickedFromTeam, LastLoadIsChosen, PageIsChosen
<1> QED
    BY <1>5, <1>6, <1>7 DEF RowsInv

LEMMA ChangesTyped ==
    ASSUME RowTypes, NEW i \in DOMAIN changes
    PROVE  /\ changes[i] \in Changes /\ changes[i].row \in Rows /\ changes[i].row # None
           /\ changes[i].case \in Cases /\ changes[i].act \in ActsOnRows
<1>1. changes[i] \in Changes
    BY DEF RowTypes
<1> QED
    BY <1>1, NamesAssumption DEF Changes

(* A load is asked for: it is the last one, and has brought nothing yet.   *)
LEMMA Loading ==
    ASSUME RowTypes, NEW c \in Cases, NEW ends \in BOOLEAN, LoadDetail(c, ends)
    PROVE  /\ loads' \in Seq(CaseLoads) /\ loads' # <<>> /\ waiting' = TRUE /\ error' = FALSE
           /\ unheard' = {}
           /\ loads'[Len(loads')].case = c /\ loads'[Len(loads')].answer = None
<1>1. CaseLoad(c, None, ends) \in CaseLoads
    BY DEF CaseLoad, CaseLoads
<1>2. CaseLoad(c, None, ends).case = c /\ CaseLoad(c, None, ends).answer = None
    BY DEF CaseLoad
<1>3. loads \in Seq(CaseLoads) /\ loads' = Append(loads, CaseLoad(c, None, ends))
    BY DEF RowTypes, LoadDetail
<1>4. /\ loads' \in Seq(CaseLoads) /\ loads' # <<>> /\ Len(loads') = Len(loads) + 1
      /\ loads'[Len(loads) + 1] = CaseLoad(c, None, ends)
    BY <1>1, <1>3, Extension
<1> QED
    BY <1>2, <1>4 DEF LoadDetail

LEMMA ChooseInv ==
    ASSUME RowsInv, NEW c \in Cases \cup {None}, Choose(c)
    PROVE  RowsInv'
<1>1. ResponsibleOnTeam'
    BY NamesAssumption DEF Choose, RowsInv, ResponsibleOnTeam
<1>2. PickedFromTeam'
    BY ChangesTyped DEF Choose, RowsInv, PickedFromTeam
<1>3. CASE c = None
  <2>1. chosen' = None /\ detail' = None /\ UNCHANGED <<loads, waiting, error, unheard>>
      BY <1>3 DEF Choose
  <2>2. RowTypes'
      BY <2>1 DEF Choose, RowsInv, RowTypes
  <2>3. LastLoadIsChosen' /\ PageIsChosen'
      BY <2>1 DEF LastLoadIsChosen, PageIsChosen
  <2> QED
      BY <1>1, <1>2, <2>2, <2>3 DEF RowsInv
<1>4. CASE c # None
  <2>1. LoadDetail(c, FALSE) /\ detail' = detail /\ chosen' = c
      BY <1>4 DEF Choose
  <2>2. /\ loads' \in Seq(CaseLoads) /\ loads' # <<>> /\ waiting' = TRUE /\ error' = FALSE
        /\ unheard' = {}
        /\ loads'[Len(loads')].case = c /\ loads'[Len(loads')].answer = None
      BY <1>4, <2>1, Loading DEF RowsInv
  <2>3. RowTypes'
      BY <2>1, <2>2 DEF Choose, RowsInv, RowTypes
  <2>4. LastLoadIsChosen' /\ PageIsChosen'
      BY <2>1, <2>2 DEF LastLoadIsChosen, PageIsChosen
  <2> QED
      BY <1>1, <1>2, <2>3, <2>4 DEF RowsInv
<1> QED
    BY <1>3, <1>4

(* What the parts about the loads are made of.                             *)
LEMMA LoadsStay ==
    ASSUME RowsInv, UNCHANGED <<chosen, detail, loads, rows, unheard>>, overtaken => overtaken', error => error',
           NoneMade' => NoneMade
    PROVE  LastLoadIsChosen' /\ PageIsChosen'
BY DEF RowsInv, LastLoadIsChosen, PageIsChosen, ShowsAsIs, RowIn, Content, OfCase

LEMMA PickPersonInv ==
    ASSUME RowsInv, NEW p \in People, PickPerson(p)
    PROVE  RowsInv'
<1>1. UNCHANGED <<chosen, detail, waiting, error, saving, loads, changes, rows, unheard, overtaken>> /\ person' = p
    BY DEF PickPerson
<1>2. hasty' = IF detail.case = chosen THEN hasty \ {None} ELSE hasty \cup {None}
    BY DEF PickPerson
<1>3. p \in Team[detail.case]
    BY DEF PickPerson, Options
<1>4. RowTypes'
    BY <1>1, <1>2 DEF RowsInv, RowTypes
<1>5. ResponsibleOnTeam'
    BY <1>1, <1>2, NamesAssumption DEF RowsInv, ResponsibleOnTeam
<1>6. PickedFromTeam'
  <2>1. None \notin hasty' => detail.case = chosen
      BY <1>2
  <2>2. \A k \in DOMAIN changes : changes[k].row \notin hasty' => changes[k].row \notin hasty
      BY <1>2, ChangesTyped DEF RowsInv
  <2> QED
      BY <1>1, <1>3, <2>1, <2>2 DEF RowsInv, PickedFromTeam
<1>7. NoneMade' => NoneMade
    BY <1>1 DEF NoneMade
<1> QED
    BY <1>1, <1>4, <1>5, <1>6, <1>7, LoadsStay DEF RowsInv

(* A change is asked for by the form or by a row.                          *)
LEMMA Asking ==
    ASSUME RowTypes, NEW act \in ActsOnRows, NEW r \in Rows, NEW p \in People \cup {None},
           chosen # None, act = "create" => p \in People, AskFor(act, r, p)
    PROVE  /\ changes' \in Seq(Changes) /\ Len(changes') = Len(changes) + 1
           /\ \A k \in 1..Len(changes) : changes'[k] = changes[k]
           /\ changes'[Len(changes) + 1] = ChangeFor(act, r, chosen, p, None)
           /\ \A k \in DOMAIN changes' : changes'[k].act = "create" => changes'[k].person \in People
           /\ NoneMade' => NoneMade
<1> DEFINE e == ChangeFor(act, r, chosen, p, None)
<1>1. e \in Changes /\ e.act = act /\ e.person = p
    BY DEF ChangeFor, Changes, RowTypes
<1>2. changes \in Seq(Changes) /\ changes' = Append(changes, e)
    BY DEF RowTypes, AskFor
<1> HIDE DEF e
<1>3. /\ changes' \in Seq(Changes) /\ Len(changes') = Len(changes) + 1 /\ changes'[Len(changes) + 1] = e
      /\ \A k \in 1..Len(changes) : changes'[k] = changes[k]
    BY <1>1, <1>2, Extension
<1>4. \A k \in DOMAIN changes' : changes'[k].act = "create" => changes'[k].person \in People
    BY <1>1, <1>2, <1>3 DEF RowTypes
<1>5. NoneMade' => NoneMade
    BY <1>2, <1>3 DEF NoneMade
<1> QED
    BY <1>3, <1>4, <1>5 DEF e

LEMMA CreateInv ==
    ASSUME RowsInv, NEW r \in Rows, Create(r)
    PROVE  RowsInv'
<1>1. UNCHANGED <<chosen, detail, waiting, error, person, loads, rows, unheard, overtaken>> /\ saving' = TRUE
    BY DEF Create
<1>2. person \in Team[detail.case] /\ detail.case \in Cases /\ chosen # None
    BY DEF Create, Options, RowsInv, RowTypes
<1>3. person \in People /\ person # None
    BY <1>2, TeamsAssumption, NamesAssumption
<1>4. AskFor("create", r, person) /\ "create" \in ActsOnRows
    BY DEF Create, ActsOnRows
<1>5. /\ changes' \in Seq(Changes) /\ Len(changes') = Len(changes) + 1
      /\ \A k \in 1..Len(changes) : changes'[k] = changes[k]
      /\ changes'[Len(changes) + 1] = ChangeFor("create", r, chosen, person, None)
      /\ \A k \in DOMAIN changes' : changes'[k].act = "create" => changes'[k].person \in People
      /\ NoneMade' => NoneMade
    BY <1>2, <1>3, <1>4, Asking DEF RowsInv
<1>6. hasty' = IF None \in hasty THEN hasty \cup {r} ELSE hasty \ {r}
    BY DEF Create
<1>7. RowTypes'
    BY <1>1, <1>5, <1>6 DEF RowsInv, RowTypes
<1>8. rows[r] = Gone /\ \A k \in DOMAIN changes : changes[k].row # r
    BY DEF Create
<1>9. ResponsibleOnTeam'
    BY <1>1, <1>6, <1>8 DEF RowsInv, ResponsibleOnTeam
<1>10. PickedFromTeam'
  <2>1. ASSUME NEW k \in DOMAIN changes', changes'[k].act = "create", changes'[k].row \notin hasty'
        PROVE  changes'[k].person \in Team[changes'[k].case]
    <3>1. CASE k = Len(changes) + 1
      <4>1. changes'[k].row = r /\ changes'[k].person = person /\ changes'[k].case = chosen
          BY <1>5, <3>1 DEF ChangeFor
      <4>2. None \notin hasty
          BY <1>6, <2>1, <4>1
      <4> QED
          BY <1>2, <1>3, <4>1, <4>2 DEF RowsInv, PickedFromTeam
    <3>2. CASE k # Len(changes) + 1
      <4>1. k \in 1..Len(changes) /\ changes'[k] = changes[k]
          BY <1>5, <2>1, <3>2 DEF RowsInv, RowTypes
      <4>2. changes[k].row # r
          BY <1>8, <4>1 DEF RowsInv, RowTypes
      <4> QED
          BY <1>6, <2>1, <4>1, <4>2 DEF RowsInv, RowTypes, PickedFromTeam
    <3> QED
        BY <3>1, <3>2
  <2>2. None \notin hasty' => None \notin hasty
      BY <1>6, NamesAssumption
  <2> QED
      BY <1>1, <2>1, <2>2 DEF RowsInv, PickedFromTeam
<1> QED
    BY <1>1, <1>5, <1>7, <1>9, <1>10, LoadsStay DEF RowsInv

LEMMA ClickInv ==
    ASSUME RowsInv, NEW r \in Rows, NEW act, Click(r, act)
    PROVE  RowsInv'
<1>1. UNCHANGED <<chosen, detail, waiting, error, person, saving, loads, rows, unheard, overtaken, hasty>>
    BY DEF Click
<1>2. chosen # None /\ act \in ActsOnRows /\ act # "create"
    BY DEF Click, Visible, ActsOnRows, TaskActs, DeadlineActs, TaskStates
<1>3. AskFor(act, r, None)
    BY DEF Click
<1>4. /\ changes' \in Seq(Changes) /\ Len(changes') = Len(changes) + 1
      /\ \A k \in 1..Len(changes) : changes'[k] = changes[k]
      /\ changes'[Len(changes) + 1] = ChangeFor(act, r, chosen, None, None)
      /\ \A k \in DOMAIN changes' : changes'[k].act = "create" => changes'[k].person \in People
      /\ NoneMade' => NoneMade
    BY <1>2, <1>3, Asking DEF RowsInv
<1>5. RowTypes'
    BY <1>1, <1>4 DEF RowsInv, RowTypes
<1>6. ResponsibleOnTeam'
    BY <1>1 DEF RowsInv, ResponsibleOnTeam
<1>7. PickedFromTeam'
  <2>1. ASSUME NEW k \in DOMAIN changes', changes'[k].act = "create"
        PROVE  k \in DOMAIN changes /\ changes'[k] = changes[k]
    <3>1. ChangeFor(act, r, chosen, None, None).act = act
        BY DEF ChangeFor
    <3> QED
        BY <1>2, <1>4, <2>1, <3>1 DEF RowsInv, RowTypes
  <2> QED
      BY <1>1, <2>1 DEF RowsInv, PickedFromTeam
<1> QED
    BY <1>1, <1>4, <1>5, <1>6, <1>7, LoadsStay DEF RowsInv

(* The content of a case is made of rows.                                  *)
LEMMA ContentTyped ==
    ASSUME RowTypes, NEW c
    PROVE  Content(c) \in Contents
<1>1. OfCase(c) \in SUBSET Rows
    BY DEF OfCase
<1>2. Content(c) \in [OfCase(c) -> RowType]
    BY DEF Content, OfCase, RowTypes
<1> QED
    BY <1>1, <1>2 DEF Contents

(* Another answer for the change in place i.                               *)
LEMMA Answering ==
    ASSUME RowTypes, NEW i \in DOMAIN changes, NEW d \in {None, Refused, "made"},
           changes' = [changes EXCEPT ![i] = Done(changes[i], d)]
    PROVE  /\ changes' \in Seq(Changes) /\ DOMAIN changes' = DOMAIN changes
           /\ \A k \in DOMAIN changes :
                  /\ changes'[k].act = changes[k].act /\ changes'[k].row = changes[k].row
                  /\ changes'[k].case = changes[k].case /\ changes'[k].person = changes[k].person
                  /\ changes'[k].done = IF k = i THEN d ELSE changes[k].done
<1> DEFINE e == Done(changes[i], d)
<1>1. changes[i] \in Changes /\ changes \in Seq(Changes) /\ i \in 1..Len(changes)
    BY DEF RowTypes
<1>2. e \in Changes
    BY <1>1 DEF Done, ChangeFor, Changes
<1>3. /\ e.act = changes[i].act /\ e.row = changes[i].row /\ e.case = changes[i].case
      /\ e.person = changes[i].person /\ e.done = d
    BY DEF Done, ChangeFor
<1>4. changes' = [changes EXCEPT ![i] = e]
    OBVIOUS
<1> HIDE DEF e
<1>5. /\ changes' \in Seq(Changes) /\ Len(changes') = Len(changes)
      /\ \A k \in 1..Len(changes) : changes'[k] = IF k = i THEN e ELSE changes[k]
    BY <1>1, <1>2, <1>4, Replacement
<1> QED
    BY <1>1, <1>3, <1>5

(* The row after an act: a created one is the form's, the others keep      *)
(* their case and their person.                                            *)
LEMMA AfterTyped ==
    ASSUME RowTypes, NEW i \in DOMAIN changes, (rows[changes[i].row] = Gone) = (changes[i].act = "create")
    PROVE  /\ After(changes[i]) \in RowType \cup {Gone}
           /\ changes[i].act = "create" =>
                 /\ After(changes[i]).person = changes[i].person
                 /\ After(changes[i]).case = changes[i].case
           /\ changes[i].act # "create" /\ After(changes[i]) # Gone =>
                 /\ After(changes[i]).person = rows[changes[i].row].person
                 /\ After(changes[i]).case = rows[changes[i].row].case
<1> DEFINE c == changes[i]
           old == rows[c.row]
<1>1. c.row \in Rows /\ c.case \in Cases /\ c.act \in ActsOnRows
    BY ChangesTyped
<1>2. c.act = "create" => c.person \in People
    BY DEF RowTypes
<1>3. c.act # "create" => old \in RowType /\ old.case \in Cases /\ old.person \in People
    BY <1>1 DEF RowTypes, RowType
<1>4. ASSUME NEW d \in Cases, NEW p \in People, NEW s \in States
      PROVE  RowOf(d, p, s) \in RowType /\ RowOf(d, p, s).case = d /\ RowOf(d, p, s).person = p
    BY DEF RowOf, RowType
<1>5. c.act = "create" => After(c) = RowOf(c.case, c.person, IF Tasks THEN "open" ELSE "active")
    BY DEF After
<1>6. "open" \in TaskStates /\ (IF Tasks THEN "open" ELSE "active") \in States
    BY DEF States, TaskStates
<1>7. CASE c.act = "create"
    BY <1>1, <1>2, <1>4, <1>5, <1>6, <1>7
<1>8. CASE c.act # "create"
  <2>1. After(c) = Gone \/ \E s \in States : After(c) = RowOf(old.case, old.person, s)
      BY <1>1, <1>8 DEF After, ActsOnRows, States, TaskStates
  <2> QED
      BY <1>3, <1>4, <1>8, <2>1
<1> QED
    BY <1>7, <1>8

LEMMA AnswerChangeInv ==
    ASSUME RowsInv, NEW i \in DOMAIN changes, AnswerChange(i)
    PROVE  RowsInv'
<1>1. UNCHANGED <<chosen, detail, waiting, error, person, saving, loads, overtaken, hasty>>
    BY DEF AnswerChange
<1>2. PICK d \in {Refused, "made"} :
          /\ changes' = [changes EXCEPT ![i] = Done(changes[i], d)]
          /\ \/ d = Refused /\ UNCHANGED <<rows, unheard>>
             \/ /\ (rows[changes[i].row] = Gone) = (changes[i].act = "create")
                /\ rows' = [rows EXCEPT ![changes[i].row] = After(changes[i])]
                /\ \/ d = "made" /\ unheard' = unheard
                   \/ d = Refused /\ unheard' = unheard \cup {changes[i].row}
    BY NamesAssumption DEF AnswerChange
<1>3. /\ changes' \in Seq(Changes) /\ DOMAIN changes' = DOMAIN changes
      /\ \A k \in DOMAIN changes :
             /\ changes'[k].act = changes[k].act /\ changes'[k].row = changes[k].row
             /\ changes'[k].case = changes[k].case /\ changes'[k].person = changes[k].person
             /\ changes'[k].done = IF k = i THEN d ELSE changes[k].done
    BY <1>2, Answering DEF RowsInv
<1>4. changes[i].done = None
    BY DEF AnswerChange
<1>5. PickedFromTeam'
    BY <1>1, <1>3 DEF RowsInv, PickedFromTeam
<1>6. CASE UNCHANGED <<rows, unheard>> /\ d = Refused
  <2>1. RowTypes' /\ ResponsibleOnTeam'
      BY <1>1, <1>3, <1>6 DEF RowsInv, RowTypes, ResponsibleOnTeam
  <2>2. NoneMade' => NoneMade
      BY <1>3, <1>4, NamesAssumption DEF NoneMade
  <2> QED
      BY <1>1, <1>5, <1>6, <2>1, <2>2, LoadsStay DEF RowsInv
<1>7. CASE /\ (rows[changes[i].row] = Gone) = (changes[i].act = "create")
           /\ rows' = [rows EXCEPT ![changes[i].row] = After(changes[i])]
           /\ \/ d = "made" /\ unheard' = unheard
              \/ d = Refused /\ unheard' = unheard \cup {changes[i].row}
  <2>1. /\ After(changes[i]) \in RowType \cup {Gone}
        /\ changes[i].act = "create" =>
              /\ After(changes[i]).person = changes[i].person
              /\ After(changes[i]).case = changes[i].case
        /\ changes[i].act # "create" /\ After(changes[i]) # Gone =>
              /\ After(changes[i]).person = rows[changes[i].row].person
              /\ After(changes[i]).case = rows[changes[i].row].case
      BY <1>7, AfterTyped DEF RowsInv
  <2>2. changes[i].row \in Rows /\ rows \in [Rows -> RowType \cup {Gone}]
      BY ChangesTyped DEF RowsInv, RowTypes
  <2>3. rows' = [rows EXCEPT ![changes[i].row] = After(changes[i])]
      BY <1>7
  <2>4. RowTypes'
    <3>1. unheard' \subseteq Rows
        BY <1>7, <2>2 DEF RowsInv, RowTypes
    <3> QED
        BY <1>1, <1>3, <2>1, <2>2, <2>3, <3>1 DEF RowsInv, RowTypes
  <2>5. ResponsibleOnTeam'
    <3>1. ASSUME NEW r \in Rows \ hasty, rows'[r] # Gone
          PROVE  rows'[r].person \in Team[rows'[r].case]
      <4>1. CASE r # changes[i].row
          BY <2>2, <2>3, <3>1, <4>1 DEF RowsInv, ResponsibleOnTeam
      <4>2. CASE r = changes[i].row /\ changes[i].act = "create"
          BY <2>1, <2>2, <2>3, <4>2 DEF RowsInv, PickedFromTeam
      <4>3. CASE r = changes[i].row /\ changes[i].act # "create"
          BY <1>7, <2>1, <2>2, <2>3, <3>1, <4>3 DEF RowsInv, ResponsibleOnTeam
      <4> QED
          BY <4>1, <4>2, <4>3
    <3> QED
        BY <1>1, <3>1 DEF ResponsibleOnTeam
  <2>6. CASE d = "made"
    <3>1. ~NoneMade'
        BY <1>3, <2>6 DEF NoneMade
    <3>2. LastLoadIsChosen' /\ PageIsChosen'
        BY <1>1, <3>1 DEF RowsInv, LastLoadIsChosen, PageIsChosen
    <3> QED
        BY <1>5, <2>4, <2>5, <3>2 DEF RowsInv
  <2>7. CASE d = Refused /\ unheard' = unheard \cup {changes[i].row}
    <3>1. NoneMade' => NoneMade
        BY <1>3, <1>4, NamesAssumption DEF NoneMade
    <3>2. \A r \in Rows \ unheard' : r \notin unheard /\ rows'[r] = rows[r]
        BY <2>2, <2>3, <2>7
    <3>3. \A r \in Rows \ unheard' : RowIn(Content(chosen), r)' = RowIn(Content(chosen), r)
        BY <1>1, <3>2 DEF RowIn, Content, OfCase
    <3>4. ASSUME NEW table, ShowsAsIs(table, chosen)
          PROVE  \A r \in Rows \ unheard' : RowIn(table, r) = RowIn(Content(chosen), r)'
        BY <3>2, <3>3, <3>4 DEF ShowsAsIs
    <3>5. LastLoadIsChosen'
        BY <1>1, <3>1, <3>4 DEF RowsInv, LastLoadIsChosen, ShowsAsIs, RowIn
    <3>6. PageIsChosen'
        BY <1>1, <3>1, <3>4 DEF RowsInv, PageIsChosen, ShowsAsIs, RowIn
    <3> QED
        BY <1>5, <2>4, <2>5, <3>5, <3>6 DEF RowsInv
  <2> QED
      BY <1>7, <2>6, <2>7
<1> QED
    BY <1>2, <1>6, <1>7

LEMMA HearChangeInv ==
    ASSUME RowsInv, NEW i \in DOMAIN changes, HearChange(i)
    PROVE  RowsInv'
<1>1. UNCHANGED <<chosen, detail, person, rows, hasty>> /\ changes' = RemoveAt(changes, i)
    BY DEF HearChange
<1>2. changes \in Seq(Changes) /\ i \in 1..Len(changes)
    BY DEF RowsInv, RowTypes
<1>3. /\ changes' \in Seq(Changes) /\ Len(changes') = Len(changes) - 1
      /\ \A k \in 1..Len(changes) - 1 : changes'[k] = IF k < i THEN changes[k] ELSE changes[k + 1]
    BY <1>1, <1>2, Removal
<1>4. \A k \in DOMAIN changes' : \E m \in DOMAIN changes : changes'[k] = changes[m]
    BY <1>2, <1>3
<1>5. PickedFromTeam' /\ ResponsibleOnTeam'
    BY <1>1, <1>4 DEF RowsInv, PickedFromTeam, ResponsibleOnTeam
<1>6. \A k \in DOMAIN changes' : changes'[k].act = "create" => changes'[k].person \in People
    BY <1>4 DEF RowsInv, RowTypes
<1>7. CASE changes[i].done = "made"
  <2>1. LoadDetail(changes[i].case, changes[i].act = "create") /\ saving' = saving
        /\ overtaken' = (overtaken \/ changes[i].case # chosen)
      BY <1>7, NamesAssumption DEF HearChange
  <2>2. /\ loads' \in Seq(CaseLoads) /\ loads' # <<>> /\ waiting' = TRUE /\ error' = FALSE
        /\ unheard' = {}
        /\ loads'[Len(loads')].case = changes[i].case /\ loads'[Len(loads')].answer = None
      BY <2>1, Loading, ChangesTyped DEF RowsInv
  <2>3. RowTypes'
      BY <1>1, <1>3, <1>6, <2>1, <2>2 DEF RowsInv, RowTypes
  <2>4. LastLoadIsChosen' /\ PageIsChosen'
      BY <1>1, <2>1, <2>2 DEF LastLoadIsChosen, PageIsChosen
  <2> QED
      BY <1>5, <2>3, <2>4 DEF RowsInv
<1>8. CASE changes[i].done # "made"
  <2>1. \/ saving' = FALSE /\ UNCHANGED <<loads, waiting, error, unheard, overtaken>>
        \/ error' = TRUE /\ UNCHANGED <<loads, waiting, saving, unheard, overtaken>>
      BY <1>8 DEF HearChange
  <2>2. UNCHANGED <<loads, waiting, unheard, overtaken>> /\ saving' \in BOOLEAN /\ error' \in BOOLEAN
        /\ (error => error')
      BY <2>1 DEF RowsInv, RowTypes
  <2>3. RowTypes'
      BY <1>1, <1>3, <1>6, <2>2 DEF RowsInv, RowTypes
  <2>4. NoneMade' => NoneMade
    <3> SUFFICES ASSUME NoneMade', NEW m \in 1..Len(changes) PROVE changes[m].done # "made"
        BY <1>2 DEF NoneMade
    <3>1. CASE m < i
        BY <1>2, <1>3, <3>1 DEF NoneMade
    <3>2. CASE m = i
        BY <1>8, <3>2
    <3>3. CASE m > i
      <4>1. m - 1 \in 1..Len(changes) - 1 /\ changes'[m - 1] = changes[m]
          BY <1>2, <1>3, <3>3
      <4> QED
          BY <1>3, <4>1 DEF NoneMade
    <3> QED
        BY <1>2, <3>1, <3>2, <3>3
  <2> QED
      BY <1>1, <1>5, <2>2, <2>3, <2>4, LoadsStay DEF RowsInv
<1> QED
    BY <1>7, <1>8

LEMMA ServerReadsInv ==
    ASSUME RowsInv, NEW i \in DOMAIN loads, ServerReads(i)
    PROVE  RowsInv'
<1>1. UNCHANGED <<chosen, detail, waiting, error, person, saving, changes, rows, unheard, overtaken, hasty>>
    BY DEF ServerReads
<1>2. PICK a \in {Content(loads[i].case), Failed} :
          loads' = [loads EXCEPT ![i] = CaseLoad(loads[i].case, a, loads[i].ends)]
    BY DEF ServerReads
<1> DEFINE e == CaseLoad(loads[i].case, a, loads[i].ends)
<1>3. loads \in Seq(CaseLoads) /\ i \in 1..Len(loads) /\ loads[i] \in CaseLoads
    BY DEF RowsInv, RowTypes
<1>4. e \in CaseLoads
    BY <1>3, ContentTyped DEF CaseLoad, CaseLoads, RowsInv
<1>5. e.case = loads[i].case /\ e.answer = a
    BY DEF CaseLoad
<1>6. loads' = [loads EXCEPT ![i] = e]
    BY <1>2
<1> HIDE DEF e
<1>7. /\ loads' \in Seq(CaseLoads) /\ Len(loads') = Len(loads)
      /\ \A k \in 1..Len(loads) : loads'[k] = IF k = i THEN e ELSE loads[k]
    BY <1>3, <1>4, <1>6, Replacement
<1>8. RowTypes' /\ ResponsibleOnTeam' /\ PickedFromTeam'
    BY <1>1, <1>7 DEF RowsInv, RowTypes, ResponsibleOnTeam, PickedFromTeam
<1>9. Len(loads) \in 1..Len(loads) /\ loads # <<>> /\ loads' # <<>>
    BY <1>3, <1>7
<1>10. LastLoadIsChosen'
  <2> SUFFICES ASSUME chosen # None, ~overtaken
               PROVE  /\ loads'[Len(loads')].case = chosen
                      /\ loads'[Len(loads')].answer \in {None, Failed} \/ ~NoneMade
                            \/ ShowsAsIs(loads'[Len(loads')].answer, chosen)
      BY <1>1 DEF LastLoadIsChosen, NoneMade, ShowsAsIs, RowIn, Content, OfCase
  <2>1. /\ loads[Len(loads)].case = chosen
        /\ loads[Len(loads)].answer \in {None, Failed} \/ ~NoneMade
              \/ ShowsAsIs(loads[Len(loads)].answer, chosen)
      BY <1>9 DEF RowsInv, LastLoadIsChosen
  <2>2. ShowsAsIs(Content(chosen), chosen)
      BY DEF ShowsAsIs
  <2> QED
      BY <1>2, <1>5, <1>7, <1>9, <2>1, <2>2
<1>11. PageIsChosen'
    BY <1>9 DEF PageIsChosen
<1> QED
    BY <1>8, <1>10, <1>11 DEF RowsInv

LEMMA ArriveInv ==
    ASSUME RowsInv, NEW i \in DOMAIN loads, Arrive(i)
    PROVE  RowsInv'
<1>1. /\ UNCHANGED <<chosen, person, changes, rows, unheard, hasty>> /\ loads' = RemoveAt(loads, i)
      /\ overtaken' = (overtaken \/ i > 1) /\ loads[i].answer # None
      /\ waiting' = FALSE /\ saving' = (saving /\ ~loads[i].ends)
    BY DEF Arrive
<1>2. IF loads[i].answer = Failed THEN error' = TRUE /\ UNCHANGED detail
      ELSE detail' = [case |-> loads[i].case, rows |-> loads[i].answer] /\ UNCHANGED error
    BY DEF Arrive
<1>3. loads \in Seq(CaseLoads) /\ i \in 1..Len(loads) /\ loads[i] \in CaseLoads
    BY DEF RowsInv, RowTypes
<1>4. /\ loads' \in Seq(CaseLoads) /\ Len(loads') = Len(loads) - 1
      /\ \A k \in 1..Len(loads) - 1 : loads'[k] = IF k < i THEN loads[k] ELSE loads[k + 1]
    BY <1>1, <1>3, Removal
<1>5. detail' = None \/ detail' \in [case : Cases, rows : Contents]
    BY <1>1, <1>2, <1>3 DEF CaseLoads, RowsInv, RowTypes
<1>6. RowTypes' /\ ResponsibleOnTeam' /\ PickedFromTeam'
  <2>1. waiting' \in BOOLEAN /\ saving' \in BOOLEAN /\ error' \in BOOLEAN /\ overtaken' \in BOOLEAN
      BY <1>1, <1>2 DEF RowsInv, RowTypes
  <2> QED
      BY <1>1, <1>4, <1>5, <2>1 DEF RowsInv, RowTypes, ResponsibleOnTeam, PickedFromTeam
<1>7. ASSUME chosen # None, ~overtaken'
      PROVE  /\ i = 1 /\ ~overtaken /\ loads[Len(loads)].case = chosen
             /\ loads[Len(loads)].answer \in {None, Failed} \/ ~NoneMade
                   \/ ShowsAsIs(loads[Len(loads)].answer, chosen)
  <2>1. ~overtaken /\ ~(i > 1)
      BY <1>1, <1>7
  <2>2. i = 1 /\ loads # <<>>
      BY <1>3, <2>1
  <2> QED
      BY <1>7, <2>1, <2>2 DEF RowsInv, LastLoadIsChosen
<1>8. LastLoadIsChosen'
  <2> SUFFICES ASSUME chosen # None, ~overtaken', loads' # <<>>
               PROVE  /\ loads'[Len(loads')].case = chosen
                      /\ loads'[Len(loads')].answer \in {None, Failed} \/ ~NoneMade
                            \/ ShowsAsIs(loads'[Len(loads')].answer, chosen)
      BY <1>1 DEF LastLoadIsChosen, NoneMade, ShowsAsIs, RowIn, Content, OfCase
  <2>1. Len(loads') \in 1..Len(loads) - 1 /\ ~(Len(loads') < i)
      BY <1>3, <1>4, <1>7
  <2>2. loads'[Len(loads')] = loads[Len(loads)]
      BY <1>3, <1>4, <2>1
  <2> QED
      BY <1>7, <2>2
<1>9. PageIsChosen'
  <2> SUFFICES ASSUME chosen # None, ~overtaken', loads' = <<>>, detail' # None, ~error'
               PROVE  detail'.case = chosen /\ (NoneMade => ShowsAsIs(detail'.rows, chosen))
      BY <1>1 DEF PageIsChosen, NoneMade, ShowsAsIs, RowIn, Content, OfCase
  <2>1. i = Len(loads)
      BY <1>3, <1>4, <1>7
  <2>2. loads[i].answer \notin {None, Failed} /\ detail' = [case |-> loads[i].case, rows |-> loads[i].answer]
      BY <1>1, <1>2
  <2>3. detail'.case = loads[i].case /\ detail'.rows = loads[i].answer
      BY <2>2
  <2> QED
      BY <1>7, <2>1, <2>2, <2>3
<1> QED
    BY <1>6, <1>8, <1>9 DEF RowsInv

LEMMA RowsNextInv == RowsInv /\ [RowsNext]_rowVars => RowsInv'
<1> SUFFICES ASSUME RowsInv, [RowsNext]_rowVars PROVE RowsInv'
    OBVIOUS
<1>1. CASE UNCHANGED rowVars
  <2>1. UNCHANGED <<chosen, detail, waiting, error, person, saving, loads, changes, rows, unheard, overtaken, hasty>>
      BY <1>1 DEF rowVars
  <2>2. RowTypes' /\ ResponsibleOnTeam' /\ PickedFromTeam'
      BY <2>1 DEF RowsInv, RowTypes, ResponsibleOnTeam, PickedFromTeam
  <2>3. NoneMade' => NoneMade
      BY <2>1 DEF NoneMade
  <2> QED
      BY <2>1, <2>2, <2>3, LoadsStay DEF RowsInv
<1> QED
    BY <1>1, ChooseInv, PickPersonInv, CreateInv, ClickInv, AnswerChangeInv, HearChangeInv, ServerReadsInv,
       ArriveInv DEF RowsNext

LEMMA RowsInvHolds == RowsSpec => []RowsInv
BY RowsInitInv, RowsNextInv, PTL DEF RowsSpec

(* The pages of the rows of a case keep their types.                       *)
THEOREM RowsTyping == RowsSpec => []RowsTypeOK
<1>1. RowsInv => RowsTypeOK
  <2> SUFFICES ASSUME RowsInv, detail # None
               PROVE  detail.case \in Cases /\ \A r \in DOMAIN detail.rows : detail.rows[r] \in RowType
      BY DEF RowsInv, RowTypes, RowsTypeOK
  <2>1. detail.case \in Cases /\ detail.rows \in Contents
      BY DEF RowsInv, RowTypes
  <2> QED
      BY <2>1 DEF Contents
<1> QED
    BY <1>1, RowsInvHolds, PTL

(* However many cases, rows, loads and changes there are, a settled page   *)
(* shows the chosen case as it is, but for rows changed without an answer  *)
(* since it asked last, unless answers overtook one another.               *)
THEOREM SettledRowsAreOfChosenCase == RowsSpec => []SettledPageIsChosenCase
<1>1. RowsInv => SettledPageIsChosenCase
    BY DEF RowsInv, PageIsChosen, SettledPageIsChosenCase, NoneMade, NothingInFlight
<1> QED
    BY <1>1, RowsInvHolds, PTL

(* Deadlines and tasks are given to people on the team of their case, who  *)
(* ever is assigned to which, however requests are answered, unless the    *)
(* person was picked while the page still held another case.               *)
THEOREM ResponsibleAreOnTeam == RowsSpec => []ResponsibleOnTeam
<1>1. RowsInv => ResponsibleOnTeam
    BY DEF RowsInv
<1> QED
    BY <1>1, RowsInvHolds, PTL
-------------------------------------------------------------------------------
(* The lists.                                                              *)
Tables == [ListRows -> Versions]

ListLoads == [key : Keys, rows : {None, Failed} \cup Tables, live : BOOLEAN, ends : BOOLEAN]

ListChanges == [row : ListRows, key : Keys, made : {None, Refused} \cup Versions]

ListTypes ==
    /\ page.after \in {"none", "reload", "drop", "adopt", "prepend"}
    /\ page.after = "adopt" => page.busy = "each"
    /\ key \in Keys
    /\ shown = None \/ shown \in [key : Keys, rows : Tables]
    /\ loading \in BOOLEAN /\ failed \in BOOLEAN /\ disturbed \in BOOLEAN
    /\ asked \in Seq(ListLoads) /\ Len(asked) <= MaxAsked
    /\ changing \in Seq(ListChanges) /\ Len(changing) <= MaxChanging
    /\ busyRow \in ListRows \cup {None}
    /\ server \in Tables /\ missed \subseteq ListRows

(* A table is as the server's but for rows whose change the page has yet   *)
(* to hear of, or will never hear of.                                      *)
Fresh(table) ==
    \A r \in ListRows \ missed :
        table[r] = server[r] \/ \E i \in DOMAIN changing : Made(changing[i]) /\ changing[i].row = r

Live == \E i \in DOMAIN asked : asked[i].live

LiveAreLast == \A i, j \in DOMAIN asked : i < j /\ asked[i].live => asked[j].live

(* The last load is for the chosen key, and brings a fresh table ...       *)
LastIsFresh ==
    Live =>
        LET l == asked[Len(asked)]
        IN  l.key = key /\ (l.rows \in {None, Failed} \/ Fresh(l.rows))

(* ... and without one the table on the page is that of the key.           *)
ShownIsFresh == ~Live /\ ~failed /\ shown # None => shown.key = key /\ Fresh(shown.rows)

(* What the handlers keep is the chosen key, and a page that does not      *)
(* reload after a change has asked nothing that the change might miss.     *)
ChangesMeetNoLoad ==
    /\ \A i \in DOMAIN changing : changing[i].key = key
    /\ page.after = "none" => changing = <<>>
    /\ page.after # "reload" /\ changing # <<>> => ~Live

(* A page that adopts what is answered has one change of a row at a time.  *)
ChangesApart ==
    page.after = "adopt" =>
        \A i, j \in DOMAIN changing : changing[i].row = changing[j].row => i = j

(* What the page will put into its table is what the server has.           *)
ChangesStand ==
    /\ page.after \in {"drop", "prepend"} =>
          \A i \in DOMAIN changing :
              Made(changing[i]) => changing[i].made = IF page.after = "drop" THEN Gone ELSE 0
    /\ page.after # "reload" =>
          \A i \in DOMAIN changing : Made(changing[i]) => changing[i].made = server[changing[i].row]

Undisturbed == LastIsFresh /\ ShownIsFresh /\ ChangesMeetNoLoad /\ ChangesStand

ListInv == ListTypes /\ LiveAreLast /\ ChangesApart /\ (~disturbed => Undisturbed)
-------------------------------------------------------------------------------
Afters == {"none", "reload", "drop", "adopt", "prepend"}

LEMMA PlainFields ==
    /\ {"keys", "again", "late", "hides", "empties", "opens", "after", "busy"} \subseteq DOMAIN Plain
    /\ Plain.after = "none" /\ Plain.opens = TRUE
BY DEF Plain

LEMMA AftersOfPages ==
    ASSUME page \in ListPages
    PROVE  /\ page.after \in Afters /\ page.opens \in BOOLEAN
           /\ page.after = "adopt" => page.busy = "each"
<1>1. \A p \in {ContactsPage, InvoicesPage, HearingsUpcoming, HearingsAll, TemplatesPage,
                 DocumentTemplatesPage, ReferencesPage, AppointmentsPage} :
          p.after \in Afters \ {"adopt"} /\ p.opens \in BOOLEAN
    BY PlainFields DEF Afters, ContactsPage, InvoicesPage, HearingsUpcoming, HearingsAll, TemplatesPage,
       DocumentTemplatesPage, ReferencesPage, AppointmentsPage
<1>2. \A p \in {AuditPage, ActivityPage, CalendarPage, AnalyticsPage, FinancialPage, WorkloadPage,
                 DailyReportPage, DashboardPage} :
          p.after \in Afters \ {"adopt"} /\ p.opens \in BOOLEAN
    BY PlainFields DEF Afters, AuditPage, ActivityPage, CalendarPage, AnalyticsPage, FinancialPage,
       WorkloadPage, DailyReportPage, DashboardPage
<1>3. KnowledgeSearchPage.after = "none" /\ KnowledgeSearchPage.opens = FALSE
  <2>1. /\ ReferencesPage.after = "none" /\ ReferencesPage.opens = FALSE
        /\ {"empties", "opens", "after"} \subseteq DOMAIN ReferencesPage
      BY PlainFields DEF ReferencesPage
  <2> QED
      BY <2>1 DEF KnowledgeSearchPage
<1>4. \A p \in {BillingPage, TimeEntriesPage, RatesPage, InvoiceDetailPage, CasesPage, DocumentPage} :
          p.after \in Afters \ {"adopt"} /\ p.opens \in BOOLEAN
    BY PlainFields DEF Afters, BillingPage, TimeEntriesPage, RatesPage, InvoiceDetailPage, CasesPage,
       DocumentPage
<1>5. \A p \in {PortalDashboard, PortalDocuments, PortalCase, PortalMatters, PortalMatter, PortalInsights} :
          p.after \in Afters \ {"adopt"} /\ p.opens \in BOOLEAN
    BY PlainFields DEF Afters, PortalDashboard, PortalDocuments, PortalCase, PortalMatters, PortalMatter,
       PortalInsights
<1>6. AiReviewPage.after = "adopt" /\ AiReviewPage.busy = "each" /\ AiReviewPage.opens = TRUE
    BY PlainFields DEF AiReviewPage
<1>7. \/ page \in {ContactsPage, InvoicesPage, HearingsUpcoming, HearingsAll, TemplatesPage,
                   DocumentTemplatesPage, ReferencesPage, AppointmentsPage}
      \/ page \in {AuditPage, ActivityPage, CalendarPage, AnalyticsPage, FinancialPage, WorkloadPage,
                   DailyReportPage, DashboardPage}
      \/ page = KnowledgeSearchPage
      \/ page \in {BillingPage, TimeEntriesPage, RatesPage, InvoiceDetailPage, CasesPage, DocumentPage}
      \/ page \in {PortalDashboard, PortalDocuments, PortalCase, PortalMatters, PortalMatter, PortalInsights}
      \/ page = AiReviewPage
    BY DEF ListPages
<1>8. (page.after \in Afters \ {"adopt"} /\ page.opens \in BOOLEAN) \/ page = AiReviewPage
  <2>1. "none" \in Afters \ {"adopt"}
      BY DEF Afters
  <2> QED
      BY <1>1, <1>2, <1>3, <1>4, <1>5, <1>7, <2>1
<1>9. "adopt" \in Afters
    BY DEF Afters
<1> QED
    BY <1>6, <1>8, <1>9

LEMMA NewLoadTyped ==
    ASSUME NEW k \in Keys, NEW ends \in BOOLEAN
    PROVE  /\ NewLoad(k, ends) \in ListLoads
           /\ NewLoad(k, ends).key = k /\ NewLoad(k, ends).rows = None /\ NewLoad(k, ends).live = TRUE
BY DEF NewLoad, LoadOf, ListLoads

LEMMA ListInitInv == Init => ListInv
<1> SUFFICES ASSUME Init PROVE ListInv
    OBVIOUS
<1>1. page.after \in Afters /\ page.opens \in BOOLEAN /\ (page.after = "adopt" => page.busy = "each")
    BY AftersOfPages DEF Init
<1>2. key \in Keys /\ shown = None /\ failed = FALSE /\ disturbed = FALSE /\ changing = <<>>
      /\ missed = {}
    BY DEF Init
<1> DEFINE l == NewLoad(key, FALSE)
<1>3. l \in ListLoads /\ l.key = key /\ l.rows = None /\ l.live = TRUE
    BY <1>2, NewLoadTyped
<1>4. asked = <<l>> \/ asked = <<>>
    BY <1>1 DEF Init
<1> HIDE DEF l
<1>5. asked \in Seq(ListLoads) /\ Len(asked) \in {0, 1} /\ (Len(asked) = 1 => asked[1] = l)
  <2>1. <<l>> \in Seq(ListLoads) /\ Len(<<l>>) = 1 /\ <<l>>[1] = l
      BY <1>3
  <2>2. CASE asked = <<l>>
      BY <2>1, <2>2
  <2>3. CASE asked = <<>>
      BY <2>3
  <2> QED
      BY <1>4, <2>2, <2>3
<1>6. server \in Tables
  <2>1. {0, Gone} \subseteq Versions
      BY VersionsAssumption DEF Versions
  <2> QED
      BY <2>1 DEF Init, Tables
<1>7. ListTypes
  <2>1. changing \in Seq(ListChanges) /\ Len(changing) = 0
      BY <1>2
  <2>2. loading \in BOOLEAN /\ busyRow = None
      BY <1>1 DEF Init
  <2>3. Len(asked) <= MaxAsked /\ Len(changing) <= MaxChanging
      BY <1>5, <2>1, LimitsAssumption
  <2>4. shown = None /\ failed \in BOOLEAN /\ disturbed \in BOOLEAN
      BY <1>2
  <2> QED
      BY <1>1, <1>2, <1>5, <1>6, <2>1, <2>2, <2>3, <2>4 DEF ListTypes, Afters
<1>8. LiveAreLast
    BY <1>5 DEF LiveAreLast
<1>9. LastIsFresh /\ ShownIsFresh
    BY <1>2, <1>3, <1>5 DEF LastIsFresh, ShownIsFresh, Live
<1>10. ChangesMeetNoLoad /\ ChangesStand /\ ChangesApart
    BY <1>2 DEF ChangesMeetNoLoad, ChangesStand, ChangesApart
<1> QED
    BY <1>7, <1>8, <1>9, <1>10 DEF ListInv, Undisturbed

(* After a question the last load is the new one, and live.                *)
LEMMA Questioning ==
    ASSUME ListTypes, LiveAreLast, NEW k \in Keys, NEW ends \in BOOLEAN, AskRows(NewLoad(k, ends))
    PROVE  /\ asked' \in Seq(ListLoads) /\ asked' # <<>> /\ Len(asked') <= MaxAsked
           /\ loading' = TRUE /\ failed' = FALSE /\ missed' = {}
           /\ asked'[Len(asked')] = NewLoad(k, ends)
           /\ \A i, j \in DOMAIN asked' : i < j /\ asked'[i].live => asked'[j].live
           /\ \E i \in DOMAIN asked' : asked'[i].live
<1> DEFINE l == NewLoad(k, ends)
           old == IF page.late = "dropped" THEN [i \in DOMAIN asked |-> Outdated(asked[i])] ELSE asked
<1>1. l \in ListLoads /\ l.live = TRUE
    BY NewLoadTyped
<1>2. asked' = Append(old, l) /\ Len(asked) < MaxAsked /\ loading' = TRUE /\ failed' = FALSE
      /\ missed' = {}
    BY DEF AskRows, AskedWith
<1>3. asked \in Seq(ListLoads)
    BY DEF ListTypes
<1>4. ASSUME NEW m \in ListLoads PROVE Outdated(m) \in ListLoads /\ Outdated(m).live = FALSE
    BY DEF Outdated, LoadOf, ListLoads
<1>5. /\ old \in Seq(ListLoads) /\ Len(old) = Len(asked)
      /\ \A i, j \in 1..Len(asked) : i < j /\ old[i].live => old[j].live
  <2>1. CASE page.late = "dropped"
    <3>1. old = [i \in 1..Len(asked) |-> Outdated(asked[i])]
        BY <1>3, <2>1
    <3>2. \A i \in 1..Len(asked) : asked[i] \in ListLoads
        BY <1>3
    <3>3. \A i \in 1..Len(asked) : old[i] \in ListLoads /\ old[i].live = FALSE
        BY <1>4, <3>1, <3>2
    <3>4. Len(asked) \in Nat
        BY <1>3
    <3> HIDE DEF old
    <3>5. old \in Seq(ListLoads) /\ Len(old) = Len(asked)
      <4>1. [i \in 1..Len(asked) |-> old[i]] \in Seq(ListLoads)
          BY <3>3, <3>4
      <4> QED
          BY <3>1, <3>4, <4>1
    <3> QED
        BY <3>3, <3>5
  <2>2. CASE page.late # "dropped"
      BY <1>3, <2>2 DEF LiveAreLast
  <2> QED
      BY <2>1, <2>2
<1> HIDE DEF l, old
<1>6. /\ asked' \in Seq(ListLoads) /\ asked' # <<>> /\ Len(asked') = Len(old) + 1
      /\ asked'[Len(old) + 1] = l /\ \A i \in 1..Len(old) : asked'[i] = old[i]
    BY <1>1, <1>2, <1>5, Extension
<1>7. Len(asked') <= MaxAsked /\ asked'[Len(asked')] = l
    BY <1>2, <1>3, <1>5, <1>6, LimitsAssumption
<1>8. ASSUME NEW i \in DOMAIN asked', NEW j \in DOMAIN asked', i < j, asked'[i].live
      PROVE  asked'[j].live
  <2>1. i \in 1..Len(old) /\ Len(old) = Len(asked)
      BY <1>3, <1>5, <1>6, <1>8
  <2>2. CASE j = Len(old) + 1
      BY <1>1, <1>6, <2>2
  <2>3. CASE j # Len(old) + 1
    <3>1. j \in 1..Len(old)
        BY <1>3, <1>5, <1>6, <1>8, <2>3
    <3> QED
        BY <1>5, <1>6, <1>8, <2>1, <3>1
  <2> QED
      BY <2>2, <2>3
<1>9. \E i \in DOMAIN asked' : asked'[i].live
    BY <1>1, <1>5, <1>6, <1>7
<1> QED
    BY <1>2, <1>6, <1>7, <1>8, <1>9 DEF l

(* A question that is asked while nothing is under way, or of a page that  *)
(* was undisturbed, leaves the page undisturbed.                           *)
LEMMA AskingAnew ==
    ASSUME ListInv, NEW k \in Keys, NEW ends \in BOOLEAN, AskRows(NewLoad(k, ends)),
           UNCHANGED <<page, shown, server>>, key' \in Keys, disturbed' \in BOOLEAN,
           busyRow' \in ListRows \cup {None},
           changing' \in Seq(ListChanges), Len(changing') <= MaxChanging,
           ChangesApart', ~disturbed' => (k = key' /\ ChangesMeetNoLoad' /\ ChangesStand')
    PROVE  ListInv'
<1>1. key' \in Keys /\ ListTypes /\ LiveAreLast
    BY DEF ListInv
<1>2. /\ asked' \in Seq(ListLoads) /\ asked' # <<>> /\ Len(asked') <= MaxAsked
      /\ loading' = TRUE /\ failed' = FALSE /\ missed' = {}
      /\ asked'[Len(asked')] = NewLoad(k, ends)
      /\ \A i, j \in DOMAIN asked' : i < j /\ asked'[i].live => asked'[j].live
      /\ \E i \in DOMAIN asked' : asked'[i].live
    BY <1>1, Questioning
<1>3. ListTypes'
    BY <1>1, <1>2 DEF ListTypes
<1>4. LiveAreLast'
    BY <1>2 DEF LiveAreLast
<1>5. NewLoad(k, ends).key = k /\ NewLoad(k, ends).rows = None
    BY NewLoadTyped
<1>6. ShownIsFresh' /\ (k = key' => LastIsFresh')
    BY <1>2, <1>5 DEF LastIsFresh, ShownIsFresh, Live
<1> QED
    BY <1>3, <1>4, <1>6 DEF ListInv, Undisturbed

LEMMA SetKeyInv ==
    ASSUME ListInv, NEW k \in Keys, SetKey(k)
    PROVE  ListInv'
<1>1. /\ key' = k /\ AskRows(NewLoad(k, FALSE)) /\ UNCHANGED <<page, shown, changing, busyRow, server>>
      /\ disturbed' = (~Quiet /\ (disturbed \/ changing # <<>>))
    BY DEF SetKey
<1>2. changing' \in Seq(ListChanges) /\ Len(changing') <= MaxChanging /\ busyRow' \in ListRows \cup {None}
    BY <1>1 DEF ListInv, ListTypes
<1>3. ~disturbed' => changing = <<>>
    BY <1>1 DEF Quiet
<1>4. ~disturbed' => ChangesMeetNoLoad' /\ ChangesStand'
    BY <1>1, <1>3 DEF ChangesMeetNoLoad, ChangesStand
<1>5. key' \in Keys /\ disturbed' \in BOOLEAN
    BY <1>1
<1>6. ChangesApart'
    BY <1>1 DEF ListInv, ChangesApart
<1> QED
    BY <1>1, <1>2, <1>4, <1>5, <1>6, AskingAnew

LEMMA AgainInv == ASSUME ListInv, Again PROVE ListInv'
<1>1. /\ key' = key /\ AskRows(NewLoad(key, FALSE)) /\ UNCHANGED <<page, shown, changing, busyRow, server>>
      /\ disturbed' = (~Quiet /\ (disturbed \/ Overlap(changing # <<>>)))
    BY DEF Again
<1>2. /\ changing' \in Seq(ListChanges) /\ Len(changing') <= MaxChanging
      /\ busyRow' \in ListRows \cup {None} /\ key \in Keys
    BY <1>1 DEF ListInv, ListTypes
<1>3. ~disturbed' => changing = <<>> \/ ~disturbed
    BY <1>1 DEF Quiet
<1>4. ~disturbed' => ChangesStand'
  <2>1. changing = <<>> => ChangesStand'
      BY <1>1 DEF ChangesStand
  <2>2. ~disturbed => ChangesStand
      BY DEF ListInv, Undisturbed
  <2>3. ChangesStand => ChangesStand'
      BY <1>1 DEF ChangesStand
  <2> QED
      BY <1>3, <2>1, <2>2, <2>3
<1>5. ~disturbed' => ChangesMeetNoLoad'
  <2>1. ~disturbed' => changing = <<>> \/ (~disturbed /\ page.after = "reload")
      BY <1>1 DEF Quiet, Overlap
  <2>2. changing = <<>> => ChangesMeetNoLoad'
      BY <1>1 DEF ChangesMeetNoLoad
  <2>3. ~disturbed => \A i \in DOMAIN changing : changing[i].key = key
      BY DEF ListInv, Undisturbed, ChangesMeetNoLoad
  <2>4. ~disturbed /\ page.after = "reload" => ChangesMeetNoLoad'
      BY <1>1, <2>3 DEF ChangesMeetNoLoad
  <2> QED
      BY <2>1, <2>2, <2>4
<1>6. key' \in Keys /\ disturbed' \in BOOLEAN
    BY <1>1, <1>2
<1>7. ChangesApart'
    BY <1>1 DEF ListInv, ChangesApart
<1> QED
    BY <1>1, <1>2, <1>4, <1>5, <1>6, <1>7, AskingAnew

LEMMA ReadInv ==
    ASSUME ListInv, NEW i \in DOMAIN asked, Read(i)
    PROVE  ListInv'
<1>1. UNCHANGED <<page, key, shown, loading, failed, changing, busyRow, server, missed, disturbed>>
    BY DEF Read
<1>2. PICK answer \in {server, Failed} :
          asked' = [asked EXCEPT ![i] = LoadOf(asked[i].key, answer, asked[i].live, asked[i].ends)]
    BY DEF Read
<1> DEFINE l == LoadOf(asked[i].key, answer, asked[i].live, asked[i].ends)
<1>3. asked \in Seq(ListLoads) /\ i \in 1..Len(asked) /\ asked[i] \in ListLoads /\ server \in Tables
    BY DEF ListInv, ListTypes
<1>4. l \in ListLoads /\ l.key = asked[i].key /\ l.live = asked[i].live /\ l.rows \in {server, Failed}
    BY <1>3 DEF LoadOf, ListLoads
<1>5. asked' = [asked EXCEPT ![i] = l]
    BY <1>2
<1> HIDE DEF l
<1>6. /\ asked' \in Seq(ListLoads) /\ Len(asked') = Len(asked)
      /\ \A k \in 1..Len(asked) : asked'[k] = IF k = i THEN l ELSE asked[k]
    BY <1>3, <1>4, <1>5, Replacement
<1>7. \A k \in 1..Len(asked) : asked'[k].key = asked[k].key /\ asked'[k].live = asked[k].live
    BY <1>4, <1>6
<1>8. ListTypes'
    BY <1>1, <1>6 DEF ListInv, ListTypes
<1>9. LiveAreLast' /\ (Live' <=> Live)
    BY <1>3, <1>6, <1>7 DEF ListInv, LiveAreLast, Live
<1>10. ASSUME ~disturbed PROVE Undisturbed'
  <2>1. LastIsFresh'
    <3>1. Fresh(server)'
        BY <1>1 DEF Fresh
    <3> SUFFICES ASSUME Live
                 PROVE  /\ asked'[Len(asked)].key = key
                        /\ asked'[Len(asked)].rows \in {None, Failed} \/ Fresh(asked'[Len(asked)].rows)
        BY <1>1, <1>6, <1>9 DEF LastIsFresh, Fresh
    <3>2. /\ asked[Len(asked)].key = key
          /\ asked[Len(asked)].rows \in {None, Failed} \/ Fresh(asked[Len(asked)].rows)
        BY <1>10 DEF ListInv, Undisturbed, LastIsFresh
    <3>3. Len(asked) \in 1..Len(asked)
        BY <1>3
    <3>4. Fresh(server)
        BY DEF Fresh
    <3> QED
        BY <1>4, <1>6, <3>2, <3>3, <3>4
  <2>2. ShownIsFresh'
      BY <1>1, <1>9, <1>10 DEF ListInv, Undisturbed, ShownIsFresh, Fresh
  <2>3. ChangesMeetNoLoad' /\ ChangesStand'
      BY <1>1, <1>9, <1>10 DEF ListInv, Undisturbed, ChangesMeetNoLoad, ChangesStand
  <2> QED
      BY <2>1, <2>2, <2>3 DEF Undisturbed
<1> QED
    BY <1>1, <1>8, <1>9, <1>10 DEF ListInv, ChangesApart

LEMMA DeliverInv ==
    ASSUME ListInv, NEW i \in DOMAIN asked, Deliver(i)
    PROVE  ListInv'
<1>1. /\ UNCHANGED <<page, key, changing, busyRow, server, missed>> /\ asked' = RemoveAt(asked, i)
      /\ asked[i].rows # None
      /\ disturbed' = (disturbed \/ \E j \in 1..i - 1 : asked[j].live)
    BY DEF Deliver
<1>2. asked \in Seq(ListLoads) /\ i \in 1..Len(asked) /\ asked[i] \in ListLoads
    BY DEF ListInv, ListTypes
<1>3. /\ asked' \in Seq(ListLoads) /\ Len(asked') = Len(asked) - 1
      /\ \A k \in 1..Len(asked) - 1 : asked'[k] = IF k < i THEN asked[k] ELSE asked[k + 1]
    BY <1>1, <1>2, Removal
<1>4. \/ ~asked[i].live /\ UNCHANGED <<shown, loading, failed>>
      \/ /\ asked[i].live /\ asked[i].rows = Failed /\ loading' = FALSE /\ failed' = TRUE
         /\ shown' \in {None, shown}
      \/ /\ asked[i].live /\ asked[i].rows # Failed /\ loading' = FALSE /\ failed' = failed
         /\ shown' = [key |-> asked[i].key, rows |-> asked[i].rows]
    BY DEF Deliver
<1>5. ListTypes'
  <2>1. asked[i].rows # Failed => [key |-> asked[i].key, rows |-> asked[i].rows] \in [key : Keys, rows : Tables]
      BY <1>1, <1>2 DEF ListLoads
  <2>2. shown' = None \/ shown' \in [key : Keys, rows : Tables]
      BY <1>4, <2>1 DEF ListInv, ListTypes
  <2>3. loading' \in BOOLEAN /\ failed' \in BOOLEAN /\ disturbed' \in BOOLEAN
      BY <1>1, <1>4 DEF ListInv, ListTypes
  <2>4. Len(asked') <= MaxAsked
      BY <1>2, <1>3, LimitsAssumption DEF ListInv, ListTypes
  <2> QED
      BY <1>1, <1>3, <2>2, <2>3, <2>4 DEF ListInv, ListTypes
<1>6. LiveAreLast'
  <2> SUFFICES ASSUME NEW m \in 1..Len(asked) - 1, NEW n \in 1..Len(asked) - 1, m < n, asked'[m].live
               PROVE  asked'[n].live
      BY <1>2, <1>3 DEF LiveAreLast
  <2> DEFINE a == IF m < i THEN m ELSE m + 1
             b == IF n < i THEN n ELSE n + 1
  <2>1. a \in 1..Len(asked) /\ b \in 1..Len(asked) /\ a < b /\ asked'[m] = asked[a] /\ asked'[n] = asked[b]
      BY <1>2, <1>3
  <2> HIDE DEF a, b
  <2> QED
      BY <1>2, <2>1 DEF ListInv, LiveAreLast
<1>7. ASSUME ~disturbed' PROVE Undisturbed'
  <2>1. ~disturbed /\ \A j \in 1..i - 1 : ~asked[j].live
      BY <1>1, <1>7
  <2>2. Undisturbed
      BY <2>1 DEF ListInv
  <2>3. Live' => Live
      BY <1>2, <1>3 DEF Live
  <2>4. ChangesMeetNoLoad' /\ ChangesStand'
      BY <1>1, <2>2, <2>3 DEF Undisturbed, ChangesMeetNoLoad, ChangesStand
  <2>5. asked[i].live => Live
      BY DEF Live
  <2>6. CASE Live'
    <3>1. Len(asked) # i /\ Len(asked') \in 1..Len(asked) - 1 /\ ~(Len(asked') < i)
      <4>1. PICK k \in 1..Len(asked) - 1 : asked'[k].live
          BY <1>2, <1>3, <2>6 DEF Live
      <4>2. ~(k < i)
          BY <1>2, <1>3, <2>1, <4>1
      <4> QED
          BY <1>2, <1>3, <4>1, <4>2
    <3>2. asked'[Len(asked')] = asked[Len(asked)]
        BY <1>2, <1>3, <3>1
    <3>3. LastIsFresh'
        BY <1>1, <2>2, <2>3, <2>6, <3>2 DEF Undisturbed, LastIsFresh, Fresh
    <3>4. ShownIsFresh'
        BY <2>6 DEF ShownIsFresh
    <3> QED
        BY <2>4, <3>3, <3>4 DEF Undisturbed
  <2>7. CASE ~Live'
    <3>1. LastIsFresh'
        BY <2>7 DEF LastIsFresh
    <3>2. CASE ~asked[i].live
      <4>1. ~Live
        <5> SUFFICES ASSUME NEW k \in 1..Len(asked), asked[k].live PROVE FALSE
            BY <1>2 DEF Live
        <5>1. CASE k < i
            BY <2>1, <5>1, <1>2
        <5>2. CASE k > i
          <6>1. k - 1 \in 1..Len(asked) - 1 /\ asked'[k - 1] = asked[k]
              BY <1>2, <1>3, <5>2
          <6> QED
              BY <1>2, <1>3, <2>7, <6>1 DEF Live
        <5> QED
            BY <1>2, <3>2, <5>1, <5>2
      <4>2. UNCHANGED <<shown, failed>>
          BY <1>4, <3>2
      <4> QED
          BY <1>1, <2>2, <2>4, <3>1, <4>1, <4>2 DEF Undisturbed, ShownIsFresh, Fresh
    <3>3. CASE asked[i].live
      <4>1. i = Len(asked)
        <5> SUFFICES ASSUME i # Len(asked) PROVE FALSE
            OBVIOUS
        <5>1. asked[Len(asked)].live /\ Len(asked) - 1 \in 1..Len(asked) - 1
            BY <1>2, <3>3 DEF ListInv, LiveAreLast
        <5>2. asked'[Len(asked) - 1] = asked[Len(asked)]
            BY <1>2, <1>3, <5>1
        <5> QED
            BY <1>2, <1>3, <2>7, <5>1, <5>2 DEF Live
      <4>2. asked[i].key = key /\ (asked[i].rows \in {None, Failed} \/ Fresh(asked[i].rows))
          BY <2>2, <2>5, <3>3, <4>1 DEF Undisturbed, LastIsFresh
      <4>3. failed' \/ (shown'.key = key /\ Fresh(shown'.rows))
        <5>1. CASE asked[i].rows = Failed
            BY <1>4, <3>3, <5>1
        <5>2. CASE asked[i].rows # Failed
          <6>1. shown' = [key |-> asked[i].key, rows |-> asked[i].rows]
              BY <1>4, <3>3, <5>2
          <6>2. shown'.key = asked[i].key /\ shown'.rows = asked[i].rows
              BY <6>1
          <6> QED
              BY <1>1, <4>2, <5>2, <6>2
        <5> QED
            BY <5>1, <5>2
      <4>4. ShownIsFresh'
          BY <1>1, <4>3 DEF ShownIsFresh, Fresh
      <4> QED
          BY <2>4, <3>1, <4>4 DEF Undisturbed
    <3> QED
        BY <3>2, <3>3
  <2> QED
      BY <2>6, <2>7
<1> QED
    BY <1>1, <1>5, <1>6, <1>7 DEF ListInv, ChangesApart

LEMMA BeginInv ==
    ASSUME ListInv, NEW r \in ListRows, Begin(r)
    PROVE  ListInv'
<1> DEFINE c == ChangeOf(r, key, None)
<1>1. /\ UNCHANGED <<page, key, shown, loading, failed, asked, server, missed>> /\ page.after # "none"
      /\ changing' = Append(changing, c) /\ Len(changing) < MaxChanging
      /\ busyRow' \in {r, busyRow}
      /\ disturbed' = (disturbed \/ Overlap(\E i \in DOMAIN asked : asked[i].live))
    BY DEF Begin
<1>2. c \in ListChanges /\ c.row = r /\ c.key = key /\ ~Made(c)
    BY DEF ChangeOf, ListChanges, ListInv, ListTypes, Made
<1>3. changing \in Seq(ListChanges)
    BY DEF ListInv, ListTypes
<1> HIDE DEF c
<1>4. /\ changing' \in Seq(ListChanges) /\ Len(changing') = Len(changing) + 1
      /\ changing'[Len(changing) + 1] = c
      /\ \A k \in 1..Len(changing) : changing'[k] = changing[k]
    BY <1>1, <1>2, <1>3, Extension
<1>5. \A k \in DOMAIN changing' : Made(changing'[k]) => k \in DOMAIN changing
    BY <1>2, <1>3, <1>4
<1>6. ListTypes'
  <2>1. Len(changing') <= MaxChanging
      BY <1>1, <1>3, <1>4, LimitsAssumption
  <2>2. busyRow' \in ListRows \cup {None} /\ disturbed' \in BOOLEAN
      BY <1>1 DEF ListInv, ListTypes
  <2> QED
      BY <1>1, <1>4, <2>1, <2>2 DEF ListInv, ListTypes
<1>7. LiveAreLast'
    BY <1>1 DEF ListInv, LiveAreLast
<1>8. ASSUME ~disturbed' PROVE Undisturbed'
  <2>1. ~disturbed /\ (page.after # "reload" => ~Live)
      BY <1>1, <1>8 DEF Overlap, Live
  <2>2. Undisturbed
      BY <2>1 DEF ListInv
  <2>3. ASSUME NEW table, Fresh(table)
        PROVE  \A q \in ListRows \ missed :
                  table[q] = server[q] \/ \E i \in DOMAIN changing' : Made(changing'[i]) /\ changing'[i].row = q
    <3> SUFFICES ASSUME NEW q \in ListRows \ missed, table[q] # server[q]
                 PROVE  \E i \in DOMAIN changing' : Made(changing'[i]) /\ changing'[i].row = q
        OBVIOUS
    <3>1. PICK i \in DOMAIN changing : Made(changing[i]) /\ changing[i].row = q
        BY <2>3 DEF Fresh
    <3>2. i \in DOMAIN changing' /\ changing'[i] = changing[i]
        BY <1>3, <1>4, <3>1
    <3> QED
        BY <3>1, <3>2
  <2>4. LastIsFresh' /\ ShownIsFresh'
    <3>1. LastIsFresh /\ ShownIsFresh /\ (Live' <=> Live)
        BY <1>1, <2>2 DEF Undisturbed, Live
    <3> QED
        BY <1>1, <2>3, <3>1 DEF LastIsFresh, ShownIsFresh, Fresh
  <2>5. ChangesMeetNoLoad'
    <3>1. \A k \in DOMAIN changing' : changing'[k].key = key
        BY <1>2, <1>3, <1>4, <2>2 DEF Undisturbed, ChangesMeetNoLoad
    <3> QED
        BY <1>1, <2>1, <3>1 DEF ChangesMeetNoLoad, Live
  <2>6. ASSUME NEW k \in DOMAIN changing', Made(changing'[k])
        PROVE  k \in DOMAIN changing /\ Made(changing[k]) /\ changing'[k] = changing[k]
      BY <1>3, <1>4, <1>5, <2>6
  <2>7. ChangesStand'
      BY <1>1, <2>2, <2>6 DEF Undisturbed, ChangesStand
  <2> QED
      BY <2>4, <2>5, <2>7 DEF Undisturbed
<1>9. ChangesApart'
  <2> SUFFICES ASSUME page.after = "adopt",
                      NEW k \in 1..Len(changing) + 1, NEW m \in 1..Len(changing) + 1,
                      changing'[k].row = changing'[m].row, k < m
               PROVE  FALSE
      BY <1>1, <1>3, <1>4 DEF ChangesApart
  <2>1. page.busy = "each" /\ ChangesApart
      BY DEF ListInv, ListTypes
  <2>2. \A i \in DOMAIN changing : changing[i].row # r
      BY <2>1 DEF Begin, Clickable
  <2>3. k \in 1..Len(changing) /\ changing'[k] = changing[k]
      BY <1>3, <1>4
  <2>4. CASE m = Len(changing) + 1
      BY <1>2, <1>3, <1>4, <2>2, <2>3, <2>4
  <2>5. CASE m # Len(changing) + 1
    <3>1. m \in 1..Len(changing) /\ changing'[m] = changing[m]
        BY <1>3, <1>4, <2>5
    <3> QED
        BY <1>3, <2>1, <2>3, <3>1 DEF ChangesApart
  <2> QED
      BY <2>4, <2>5
<1> QED
    BY <1>6, <1>7, <1>8, <1>9 DEF ListInv

LEMMA ExecuteInv ==
    ASSUME ListInv, NEW i \in DOMAIN changing, Execute(i)
    PROVE  ListInv'
<1> DEFINE r == changing[i].row
<1>1. UNCHANGED <<page, key, shown, loading, failed, asked, busyRow, disturbed>> /\ changing[i].made = None
    BY DEF Execute
<1>2. PICK result \in Versions \cup {Refused} :
          /\ Answered(i, result)
          /\ \/ result = Refused /\ UNCHANGED <<server, missed>>
             \/ /\ (server[r] = Gone) = (page.after = "prepend")
                /\ Changed(r) \in Versions /\ server' = [server EXCEPT ![r] = Changed(r)]
                /\ \/ result = Changed(r) /\ missed' = missed
                   \/ result = Refused /\ missed' = missed \cup {r}
    BY DEF Execute
<1>3. /\ changing \in Seq(ListChanges) /\ i \in 1..Len(changing) /\ changing[i] \in ListChanges
      /\ r \in ListRows /\ server \in Tables
  <2>1. changing \in Seq(ListChanges) /\ i \in 1..Len(changing) /\ server \in Tables
      BY DEF ListInv, ListTypes
  <2>2. changing[i] \in ListChanges
      BY <2>1
  <2> QED
      BY <2>1, <2>2 DEF ListChanges
<1> DEFINE c == ChangeOf(r, changing[i].key, result)
<1>4. /\ c \in ListChanges /\ c.row = r /\ c.key = changing[i].key /\ c.made = result
      /\ (Made(c) <=> result # Refused)
    BY <1>3, VersionsAssumption DEF ChangeOf, ListChanges, Made
<1>5. changing' = [changing EXCEPT ![i] = c]
    BY <1>2 DEF Answered
<1>6. ~Made(changing[i])
    BY <1>1 DEF Made
<1> HIDE DEF c
<1>7. /\ changing' \in Seq(ListChanges) /\ Len(changing') = Len(changing) /\ DOMAIN changing' = DOMAIN changing
      /\ \A k \in DOMAIN changing : changing'[k] = IF k = i THEN c ELSE changing[k]
    BY <1>3, <1>4, <1>5, Replacement
<1>8. \A k \in DOMAIN changing : changing'[k].row = changing[k].row /\ changing'[k].key = changing[k].key
    BY <1>4, <1>7
<1>9. server' \in Tables /\ disturbed' \in BOOLEAN /\ missed' \subseteq ListRows /\ missed \subseteq missed'
    BY <1>1, <1>2, <1>3 DEF Tables, ListInv, ListTypes
<1>10. ListTypes' /\ LiveAreLast'
    BY <1>1, <1>7, <1>9 DEF ListInv, ListTypes, LiveAreLast
<1>11. ASSUME ~disturbed' PROVE Undisturbed'
  <2>1. ~disturbed
      BY <1>1, <1>11
  <2>2. Undisturbed
      BY <2>1 DEF ListInv
  <2>3. \A k \in DOMAIN changing : Made(changing[k]) => Made(changing'[k]) /\ changing'[k] = changing[k]
      BY <1>6, <1>7
  <2>4. ASSUME NEW table, Fresh(table)
        PROVE  \A q \in ListRows \ missed' :
                  table[q] = server'[q] \/ \E k \in DOMAIN changing' : Made(changing'[k]) /\ changing'[k].row = q
    <3> SUFFICES ASSUME NEW q \in ListRows \ missed', table[q] # server'[q]
                 PROVE  \E k \in DOMAIN changing' : Made(changing'[k]) /\ changing'[k].row = q
        OBVIOUS
    <3>1. CASE server'[q] = server[q]
      <4>1. PICK k \in DOMAIN changing : Made(changing[k]) /\ changing[k].row = q
          BY <1>9, <2>4, <3>1 DEF Fresh
      <4> QED
          BY <1>7, <2>3, <4>1
    <3>2. CASE server'[q] # server[q]
      <4>1. result # Refused /\ q = r
          BY <1>2, <1>3, <3>2, VersionsAssumption DEF Tables
      <4> QED
          BY <1>3, <1>4, <1>7, <4>1
    <3> QED
        BY <3>1, <3>2
  <2>5. LastIsFresh' /\ ShownIsFresh'
    <3>1. LastIsFresh /\ ShownIsFresh /\ (Live' <=> Live)
        BY <1>1, <2>2 DEF Undisturbed, Live
    <3> QED
        BY <1>1, <2>4, <3>1 DEF LastIsFresh, ShownIsFresh, Fresh
  <2>6. ChangesMeetNoLoad'
    <3>1. (changing' = <<>> <=> changing = <<>>) /\ (Live' <=> Live)
        BY <1>1, <1>3, <1>7 DEF Live
    <3> QED
        BY <1>1, <1>7, <1>8, <2>2, <3>1 DEF Undisturbed, ChangesMeetNoLoad
  <2>7. ChangesStand
      BY <2>2 DEF Undisturbed
  <2>8. ASSUME page.after \in {"drop", "prepend"}, NEW k \in DOMAIN changing, Made(changing'[k])
        PROVE  changing'[k].made = IF page.after = "drop" THEN Gone ELSE 0
    <3>1. CASE k = i
      <4>1. result # Refused /\ changing'[k].made = result
          BY <1>4, <1>7, <2>8, <3>1
      <4> QED
          BY <1>2, <2>8, <4>1 DEF Changed
    <3>2. CASE k # i
        BY <1>7, <2>7, <2>8, <3>2 DEF ChangesStand
    <3> QED
        BY <3>1, <3>2
  <2>9. ASSUME page.after # "reload", NEW k \in DOMAIN changing, Made(changing'[k])
        PROVE  changing'[k].made = server'[changing'[k].row]
    <3>1. CASE k = i
      <4>1. result # Refused /\ changing'[k].made = result /\ changing'[k].row = r
          BY <1>4, <1>7, <2>9, <3>1
      <4>2. server'[r] = result
          BY <1>2, <1>3, <4>1 DEF Tables
      <4> QED
          BY <4>1, <4>2
    <3>2. CASE k # i
      <4>1. Made(changing[k]) /\ changing'[k] = changing[k] /\ changing[k].made = server[changing[k].row]
          BY <1>7, <2>7, <2>9, <3>2 DEF ChangesStand
      <4>2. CASE server' = server
          BY <4>1, <4>2
      <4>3. CASE server' # server /\ changing[k].row # r
        <5>1. server' = [server EXCEPT ![r] = Changed(r)]
            BY <1>2, <4>3
        <5>2. server'[changing[k].row] = server[changing[k].row]
          <6>1. changing[k] \in ListChanges
              BY <1>3
          <6>2. changing[k].row \in ListRows
              BY <6>1 DEF ListChanges
          <6> QED
              BY <1>3, <4>3, <5>1, <6>2 DEF Tables
        <5> QED
            BY <4>1, <5>2
      <4>4. CASE server' # server /\ changing[k].row = r
        <5>1. page.after \in {"drop", "prepend"}
          <6>1. changing # <<>> /\ page.after \in {"none", "reload", "drop", "adopt", "prepend"}
              BY <1>3 DEF ListInv, ListTypes
          <6>2. page.after # "adopt"
              BY <1>3, <3>2, <4>4 DEF ListInv, ChangesApart
          <6> QED
              BY <2>2, <2>9, <6>1, <6>2 DEF Undisturbed, ChangesMeetNoLoad
        <5>2. changing[k].made = IF page.after = "drop" THEN Gone ELSE 0
            BY <2>7, <4>1, <5>1 DEF ChangesStand
        <5>3. (server[r] = Gone) = (page.after = "prepend") /\ Gone # 0
            BY <1>2, <4>4, VersionsAssumption
        <5> QED
            BY <4>1, <4>4, <5>1, <5>2, <5>3
      <4> QED
          BY <4>2, <4>3, <4>4
    <3> QED
        BY <3>1, <3>2
  <2>10. ChangesStand'
      BY <1>1, <1>7, <2>8, <2>9 DEF ChangesStand
  <2> QED
      BY <2>5, <2>6, <2>10 DEF Undisturbed
<1>12. ChangesApart'
    BY <1>1, <1>7, <1>8 DEF ListInv, ChangesApart
<1> QED
    BY <1>10, <1>11, <1>12 DEF ListInv
LEMMA FinishInv ==
    ASSUME ListInv, NEW i \in DOMAIN changing, Finish(i)
    PROVE  ListInv'
<1> DEFINE c == changing[i]
           was(k) == IF k < i THEN k ELSE k + 1
           is(k) == IF k < i THEN k ELSE k - 1
           left == 1..Len(changing) - 1
<1>1. /\ UNCHANGED <<page, key, server, disturbed>> /\ busyRow' = None /\ c.made # None
      /\ changing' = RemoveAt(changing, i)
    BY DEF Finish
<1>2. /\ changing \in Seq(ListChanges) /\ i \in 1..Len(changing) /\ Len(changing) <= MaxChanging
      /\ server \in Tables
    BY DEF ListInv, ListTypes
<1>3. c \in ListChanges
    BY <1>2
<1>4. c.row \in ListRows /\ c.key \in Keys /\ (Made(c) => c.made \in Versions)
    BY <1>3 DEF ListChanges, Made
<1>5. /\ changing' \in Seq(ListChanges) /\ Len(changing') = Len(changing) - 1 /\ DOMAIN changing' = left
      /\ \A k \in left : changing'[k] = IF k < i THEN changing[k] ELSE changing[k + 1]
  <2>1. /\ changing' \in Seq(ListChanges) /\ Len(changing') = Len(changing) - 1
        /\ \A k \in left : changing'[k] = IF k < i THEN changing[k] ELSE changing[k + 1]
      BY <1>1, <1>2, Removal
  <2> QED
      BY <2>1
<1>6. \A k \in left : was(k) \in 1..Len(changing) /\ was(k) # i /\ changing'[k] = changing[was(k)]
    BY <1>2, <1>5
<1>7. \A k \in 1..Len(changing) : k # i => is(k) \in left /\ was(is(k)) = k
    BY <1>2
<1>8. \A k, m \in left : k < m <=> was(k) < was(m)
    BY <1>2
<1> HIDE DEF was, is
<1>9. \A k \in 1..Len(changing) : k # i => is(k) \in left /\ changing'[is(k)] = changing[k]
    BY <1>6, <1>7
<1>10. Len(changing') <= MaxChanging /\ changing # <<>>
    BY <1>2, <1>5, LimitsAssumption
<1>11. disturbed' \in BOOLEAN
    BY <1>1 DEF ListInv, ListTypes
<1>12. ASSUME ~disturbed'
       PROVE  Undisturbed /\ ChangesStand'
  <2>1. Undisturbed
      BY <1>1, <1>12 DEF ListInv
  <2>2. \A k \in left : was(k) \in DOMAIN changing /\ changing'[k] = changing[was(k)]
      BY <1>2, <1>6
  <2>3. ChangesStand'
      BY <1>1, <1>5, <2>1, <2>2 DEF Undisturbed, ChangesStand
  <2> QED
      BY <2>1, <2>3
<1>13. ASSUME ~disturbed', Live' => Live PROVE ChangesMeetNoLoad'
  <2>1. ChangesMeetNoLoad
      BY <1>12, <1>13 DEF Undisturbed
  <2>2. page.after # "none" /\ (page.after # "reload" => ~Live)
      BY <1>10, <2>1 DEF ChangesMeetNoLoad
  <2>3. \A k \in left : changing'[k].key = key
      BY <1>2, <1>6, <2>1 DEF ChangesMeetNoLoad
  <2> QED
      BY <1>1, <1>5, <1>13, <2>2, <2>3 DEF ChangesMeetNoLoad
<1>14. ChangesApart'
  <2> SUFFICES ASSUME page.after = "adopt", NEW k \in left, NEW m \in left, changing'[k].row = changing'[m].row
               PROVE  k = m
      BY <1>1, <1>5 DEF ChangesApart
  <2>1. was(k) = was(m)
      BY <1>2, <1>6 DEF ListInv, ChangesApart
  <2> QED
      BY <1>2, <1>8, <2>1
<1>15. CASE Made(c) /\ page.after = "reload"
  <2>1. AskRows(NewLoad(c.key, TRUE)) /\ UNCHANGED shown
      BY <1>15 DEF Finish
  <2>2. ASSUME ~disturbed' PROVE c.key = key' /\ ChangesMeetNoLoad' /\ ChangesStand'
    <3>1. ChangesMeetNoLoad /\ ChangesStand'
        BY <1>12, <2>2 DEF Undisturbed
    <3>2. c.key = key /\ \A k \in left : changing'[k].key = key
        BY <1>2, <1>6, <3>1 DEF ChangesMeetNoLoad
    <3> QED
        BY <1>1, <1>5, <1>15, <3>1, <3>2 DEF ChangesMeetNoLoad
  <2>3. key' \in Keys /\ busyRow' \in ListRows \cup {None} /\ UNCHANGED <<page, shown, server>>
      BY <1>1, <2>1 DEF ListInv, ListTypes
  <2> QED
      BY <1>4, <1>5, <1>10, <1>11, <1>14, <2>1, <2>2, <2>3, AskingAnew
<1>16. CASE ~Made(c)
  <2>1. UNCHANGED <<shown, loading, failed, asked, missed>>
      BY <1>16 DEF Finish
  <2>2. ListTypes' /\ LiveAreLast' /\ (Live' <=> Live)
      BY <1>1, <1>2, <1>5, <1>10, <1>11, <2>1 DEF ListInv, ListTypes, LiveAreLast, Live
  <2>3. ASSUME ~disturbed' PROVE LastIsFresh' /\ ShownIsFresh'
    <3>1. LastIsFresh /\ ShownIsFresh
        BY <1>12, <2>3 DEF Undisturbed
    <3>2. ASSUME NEW table, Fresh(table), NEW r \in ListRows \ missed
          PROVE  table[r] = server'[r] \/ \E k \in DOMAIN changing' : Made(changing'[k]) /\ changing'[k].row = r
      <4>1. CASE table[r] = server[r]
          BY <1>1, <4>1
      <4>2. CASE table[r] # server[r]
        <5>1. PICK k \in 1..Len(changing) : Made(changing[k]) /\ changing[k].row = r
            BY <1>2, <3>2, <4>2 DEF Fresh
        <5>2. is(k) \in DOMAIN changing' /\ changing'[is(k)] = changing[k]
            BY <1>5, <1>9, <1>16, <5>1
        <5> QED
            BY <5>1, <5>2
      <4> QED
          BY <4>1, <4>2
    <3> QED
        BY <1>1, <2>1, <2>2, <3>1, <3>2 DEF LastIsFresh, ShownIsFresh, Fresh
  <2> QED
      BY <1>12, <1>13, <1>14, <2>2, <2>3 DEF ListInv, Undisturbed
<1>17. CASE Made(c) /\ page.after # "reload"
  <2>1. /\ UNCHANGED <<loading, failed, asked, missed>>
        /\ shown' = IF shown = None THEN None
                    ELSE [key |-> shown.key, rows |-> [shown.rows EXCEPT ![c.row] = c.made]]
      BY <1>17 DEF Finish
  <2>2. shown' = None \/ shown' \in [key : Keys, rows : Tables]
    <3>1. ASSUME shown # None PROVE [shown.rows EXCEPT ![c.row] = c.made] \in Tables /\ shown.key \in Keys
      <4>1. shown.rows \in Tables /\ shown.key \in Keys
          BY <3>1 DEF ListInv, ListTypes
      <4> QED
          BY <1>4, <1>17, <4>1 DEF Tables
    <3> QED
        BY <2>1, <3>1
  <2>3. ListTypes' /\ LiveAreLast' /\ (Live' <=> Live)
      BY <1>1, <1>2, <1>5, <1>10, <1>11, <2>1, <2>2 DEF ListInv, ListTypes, LiveAreLast, Live
  <2>4. ASSUME ~disturbed' PROVE LastIsFresh' /\ ShownIsFresh'
    <3>1. Undisturbed
        BY <1>12, <2>4
    <3>2. ~Live
        BY <1>10, <1>17, <3>1 DEF Undisturbed, ChangesMeetNoLoad
    <3>3. LastIsFresh'
        BY <2>3, <3>2 DEF LastIsFresh
    <3>4. ASSUME ~failed, shown # None
          PROVE  shown'.key = key' /\ Fresh(shown.rows)'
      <4>1. shown.key = key /\ Fresh(shown.rows) /\ shown.rows \in Tables
          BY <3>1, <3>2, <3>4 DEF Undisturbed, ShownIsFresh, ListInv, ListTypes
      <4>2. shown'.key = shown.key /\ shown'.rows = [shown.rows EXCEPT ![c.row] = c.made]
          BY <2>1, <3>4
      <4>3. ASSUME NEW r \in ListRows \ missed, shown'.rows[r] # server[r]
            PROVE  \E k \in DOMAIN changing' : Made(changing'[k]) /\ changing'[k].row = r
        <5>1. PICK k \in 1..Len(changing) : k # i /\ Made(changing[k]) /\ changing[k].row = r
          <6>1. r # c.row
            <7>1. c.made = server[c.row]
                BY <1>17, <3>1 DEF Undisturbed, ChangesStand
            <7> QED
                BY <1>4, <4>1, <4>2, <4>3, <7>1 DEF Tables
          <6>2. shown.rows[r] # server[r]
              BY <1>4, <4>1, <4>2, <4>3, <6>1 DEF Tables
          <6> QED
              BY <1>2, <4>1, <6>1, <6>2 DEF Fresh
        <5>2. is(k) \in DOMAIN changing' /\ changing'[is(k)] = changing[k]
            BY <1>5, <1>9, <5>1
        <5> QED
            BY <5>1, <5>2
      <4> QED
          BY <1>1, <2>1, <4>1, <4>2, <4>3 DEF Fresh
    <3>5. ShownIsFresh'
        BY <2>1, <3>4 DEF ShownIsFresh
    <3> QED
        BY <3>3, <3>5
  <2> QED
      BY <1>12, <1>13, <1>14, <2>3, <2>4 DEF ListInv, Undisturbed
<1> QED
    BY <1>15, <1>16, <1>17

LEMMA ListNextInv == ListInv /\ [Next]_vars => ListInv'
<1> SUFFICES ASSUME ListInv, [Next]_vars PROVE ListInv'
    OBVIOUS
<1>1. CASE UNCHANGED vars
    BY <1>1 DEF vars, ListInv, ChangesApart, ListTypes, LiveAreLast, Undisturbed, LastIsFresh, ShownIsFresh, Fresh, Live,
       ChangesMeetNoLoad, ChangesStand
<1> QED
    BY <1>1, SetKeyInv, AgainInv, ReadInv, DeliverInv, BeginInv, ExecuteInv, FinishInv DEF Next

LEMMA ListInvHolds == Spec => []ListInv
BY ListInitInv, ListNextInv, PTL DEF Spec

(* The lists keep their types, and their requests in flight stay within    *)
(* their bounds.                                                           *)
THEOREM ListTyping == Spec => []TypeOK
<1>1. ListInv => TypeOK
  <2> SUFFICES ASSUME ListInv PROVE TypeOK
      OBVIOUS
  <2>1. ASSUME NEW i \in DOMAIN asked PROVE asked[i].rows \in {None, Failed} \cup [ListRows -> Versions]
    <3>1. asked[i] \in ListLoads
        BY DEF ListInv, ListTypes
    <3> QED
        BY <3>1 DEF ListLoads, Tables
  <2> QED
      BY <2>1 DEF ListInv, ListTypes, TypeOK, Tables
<1> QED
    BY <1>1, ListInvHolds, PTL

(* However loads, changes and the user's choices cross, a page that waits  *)
(* for nothing and shows no failed load shows the rows of its key as the   *)
(* server has them, but for rows changed without an answer since it asked  *)
(* last: unless answers overtook one another, or loads and changes         *)
(* overlapped, in a way the page does not guard against, and it has not    *)
(* asked in peace since.  For any number of rows, of changes of a row and  *)
(* of requests in flight.                                                  *)
THEOREM QuietPagesAreCurrent == Spec => []QuietPageIsCurrent
<1>1. ListInv => QuietPageIsCurrent
  <2> SUFFICES ASSUME ListInv, Quiet, ~failed, ~disturbed, shown # None
               PROVE  shown.key = key /\ \A r \in ListRows \ missed : shown.rows[r] = server[r]
      BY DEF QuietPageIsCurrent
  <2>1. ShownIsFresh /\ ~Live /\ changing = <<>>
      BY DEF ListInv, Undisturbed, Quiet, Live
  <2>2. shown.key = key /\ Fresh(shown.rows)
      BY <2>1 DEF ShownIsFresh
  <2> QED
      BY <2>1, <2>2 DEF Fresh
<1> QED
    BY <1>1, ListInvHolds, PTL
===============================================================================
