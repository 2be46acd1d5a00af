---------------------------- MODULE HearingReminders ----------------------------
(***************************************************************************)
(* The hearings' part of the daily pass, and the release of stale          *)
(* check-outs that follows it (backend/app/scheduler/hearing_reminders.py, *)
(* workers/scheduler_worker.py), next to the requests that change hearings *)
(* (api/hearings.py).                                                      *)
(*                                                                         *)
(* A pass takes the leads from the largest down, reads for each of them    *)
(* the hearings on the day it leads to, and for every one of these sends,  *)
(* sets the hearing's flag, and logs.                                      *)
(***************************************************************************)
EXTENDS Integers, FiniteSets

CONSTANTS
    Hearings,         \* ids of hearings
    Leads,            \* configured leads that have a flag, in days
    LastHearingDay,   \* bound on the day
    MaxEdits,         \* bound on the requests that change hearings
    NoHearing         \* no hearing, no day

HearingDays == 0 .. LastHearingDay

ASSUME HearingsAssumption ==
    /\ Leads \subseteq Nat /\ LastHearingDay \in Nat /\ MaxEdits \in Nat
    /\ NoHearing \notin Hearings \cup Int

VARIABLES
    hearingDay,     \* today
    date,           \* hearing -> its day
    scheduled,      \* hearings with status scheduled and an active lawyer with a phone
    flags,          \* hearing -> leads whose reminder_sent is true
    hearingLog,     \* <<hearing, lead, status>> of the rows of notifications_log
    hearingPass,    \* what the worker does
    firmInRow,      \* FALSE is the code: the INSERT into notifications_log leaves
                    \*   out firm_id, which is NOT NULL; TRUE gives it
    edits,          \* auxiliary: how many requests there have been
    sent,           \* history: <<hearing, lead, day of the hearing>> of messages
    unsure,         \* history: <<hearing, lead>> of messages whose answer was lost, or
                    \*   with which the worker died before it set the flag
    putOff          \* history: hearings that have been given another day

hearingVars ==
    <<hearingDay, date, scheduled, flags, hearingLog, hearingPass, firmInRow, edits, sent, unsure, putOff>>

(* A hearing as the pass has read it.                                      *)
Found == [id : Hearings, day : HearingDays]
NobodyFound == [id |-> NoHearing, day |-> NoHearing]

(* The pass: the leads that are left, the lead and its hearings that are   *)
(* left, and the hearing in hand with the outcome of its message.          *)
PassAt(step, leads, lead, found, at, status) ==
    [step |-> step, leads |-> leads, lead |-> lead, found |-> found, at |-> at, status |-> status]

NoHearingPass == PassAt("idle", {}, 0, {}, NobodyFound, "none")

HearingPasses ==
    [step : {"idle", "lead", "take", "send", "flag", "log", "release"}, leads : SUBSET Leads,
     lead : Leads \cup {0}, found : SUBSET Found, at : Found \cup {NobodyFound},
     status : {"none", "sent", "failed"}]

HearingTypeOK ==
    /\ hearingDay \in HearingDays
    /\ date \in [Hearings -> HearingDays \cup {NoHearing}]
    /\ scheduled \subseteq {h \in Hearings : date[h] # NoHearing}
    /\ flags \in [Hearings -> SUBSET Leads]
    /\ \A h \in Hearings : date[h] = NoHearing => flags[h] = {}
    /\ hearingLog \subseteq Hearings \X Leads \X {"sent", "failed"}
    /\ hearingPass \in HearingPasses
    /\ hearingPass.step \in {"send", "flag", "log"} <=> hearingPass.at # NobodyFound
    /\ hearingPass.step \in {"take", "send", "flag", "log"} => hearingPass.lead \in Leads
    /\ hearingPass.step = "log" => hearingPass.status # "none"
    /\ firmInRow \in BOOLEAN /\ edits \in 0 .. MaxEdits
    /\ sent \subseteq Hearings \X Leads \X HearingDays
    /\ unsure \subseteq Hearings \X Leads
    /\ putOff \subseteq Hearings

HearingInit ==
    /\ hearingDay = 0
    /\ date = [h \in Hearings |-> NoHearing]
    /\ scheduled = {}
    /\ flags = [h \in Hearings |-> {}]
    /\ hearingLog = {}
    /\ hearingPass = NoHearingPass
    /\ firmInRow \in BOOLEAN
    /\ edits = 0
    /\ sent = {} /\ unsure = {} /\ putOff = {}
-------------------------------------------------------------------------------
(* The passes of two days do not overlap.                                  *)
NewHearingDay ==
    /\ hearingPass = NoHearingPass /\ hearingDay < LastHearingDay
    /\ hearingDay' = hearingDay + 1
    /\ UNCHANGED <<date, scheduled, flags, hearingLog, hearingPass, firmInRow, edits, sent, unsure, putOff>>

Edit ==
    /\ edits < MaxEdits
    /\ edits' = edits + 1
    /\ UNCHANGED <<hearingDay, hearingLog, hearingPass, firmInRow, sent, unsure>>

(* create_hearing; ids are never given twice.                              *)
CreateHearing(h, day) ==
    /\ date[h] = NoHearing
    /\ h \notin putOff
    /\ \A r \in hearingLog : r[1] # h
    /\ \A s \in sent : s[1] # h
    /\ \A f \in hearingPass.found \cup {hearingPass.at} : f.id # h
    /\ date' = [date EXCEPT ![h] = day]
    /\ scheduled' = scheduled \cup {h}
    /\ UNCHANGED <<flags, putOff>>
    /\ Edit

(* update_hearing: another day, which leaves the flags alone.              *)
PutOff(h, day) ==
    /\ date[h] # NoHearing /\ date[h] # day
    /\ date' = [date EXCEPT ![h] = day]
    /\ putOff' = putOff \cup {h}
    /\ UNCHANGED <<scheduled, flags>>
    /\ Edit

(* update_hearing: held, adjourned, cancelled, or scheduled again; or the  *)
(* lawyer is deactivated or taken back.                                    *)
SetScheduled(h) ==
    /\ date[h] # NoHearing
    /\ scheduled' = IF h \in scheduled THEN scheduled \ {h} ELSE scheduled \cup {h}
    /\ UNCHANGED <<date, flags, putOff>>
    /\ Edit

(* delete_hearing.  With rows in notifications_log the foreign key's SET   *)
(* NULL fails its CHECK, and nothing is deleted.                           *)
DeleteHearing(h) ==
    /\ date[h] # NoHearing /\ \A r \in hearingLog : r[1] # h
    /\ date' = [date EXCEPT ![h] = NoHearing]
    /\ scheduled' = scheduled \ {h}
    /\ flags' = [flags EXCEPT ![h] = {}]
    /\ UNCHANGED putOff
    /\ Edit
-------------------------------------------------------------------------------
GoOn(state) ==
    /\ hearingPass' = state
    /\ UNCHANGED <<hearingDay, date, scheduled, firmInRow, edits, putOff>>

GoOnQuietly(state) == GoOn(state) /\ UNCHANGED <<flags, hearingLog, sent, unsure>>

(* The same hearing in hand, at another step.                              *)
InHand(step, status) ==
    PassAt(step, hearingPass.leads, hearingPass.lead, hearingPass.found, hearingPass.at, status)

(* Nothing in hand, with some of the leads and hearings left.              *)
Left(step, leads, lead, found) == PassAt(step, leads, lead, found, NobodyFound, "none")

(* With a pass the deadlines' and tasks' reminders have been sent.         *)
BeginHearings ==
    /\ hearingPass = NoHearingPass
    /\ GoOnQuietly(Left("lead", Leads, 0, {}))

Due(h, lead) == h \in scheduled /\ date[h] = hearingDay + lead

(* Mutant: a flag stands for the leads below it.                           *)
UnflaggedFromHere(lead) == {h \in Hearings : Due(h, lead) /\ \A l \in flags[h] : l < lead}

Unflagged(lead) == {h \in Hearings : Due(h, lead) /\ lead \notin flags[h]}

(* The largest lead that is left.                                          *)
ReadHearings ==
    /\ hearingPass.step = "lead"
    /\ \/ /\ hearingPass.leads = {}
          /\ GoOnQuietly(Left("release", {}, hearingPass.lead, {}))
       \/ \E lead \in hearingPass.leads :
              /\ \A other \in hearingPass.leads : other <= lead
              /\ GoOnQuietly(Left("take", hearingPass.leads \ {lead}, lead,
                                   {[id |-> h, day |-> date[h]] : h \in Unflagged(lead)}))

TakeHearing ==
    /\ hearingPass.step = "take"
    /\ \/ /\ hearingPass.found = {}
          /\ GoOnQuietly(Left("lead", hearingPass.leads, hearingPass.lead, {}))
       \/ \E f \in hearingPass.found :
              GoOnQuietly(PassAt("send", hearingPass.leads, hearingPass.lead,
                                 hearingPass.found \ {f}, f, "none"))

Reminder == <<hearingPass.at.id, hearingPass.lead>>
Message == <<hearingPass.at.id, hearingPass.lead, hearingPass.at.day>>

(* WahaError may mean that only the answer was lost.                       *)
SendMessage ==
    /\ hearingPass.step = "send"
    /\ \/ sent' = sent \cup {Message} /\ UNCHANGED unsure /\ GoOn(InHand("flag", "sent"))
       \/ sent' = sent \cup {Message} /\ unsure' = unsure \cup {Reminder} /\ GoOn(InHand("log", "failed"))
       \/ UNCHANGED <<sent, unsure>> /\ GoOn(InHand("log", "failed"))
    /\ UNCHANGED <<flags, hearingLog>>

SetFlag ==
    /\ hearingPass.step = "flag"
    /\ flags' = IF date[hearingPass.at.id] = NoHearing THEN flags
                ELSE [flags EXCEPT ![hearingPass.at.id] = @ \cup {hearingPass.lead}]
    /\ GoOn(InHand("log", "sent"))
    /\ UNCHANGED <<hearingLog, sent, unsure>>

(* An error of the INSERT, for the missing firm_id or a hearing that has   *)
(* been deleted, ends the whole pass.                                      *)
LogHearing ==
    /\ hearingPass.step = "log"
    /\ IF firmInRow /\ date[hearingPass.at.id] # NoHearing
       THEN /\ hearingLog' = hearingLog \cup {<<hearingPass.at.id, hearingPass.lead, hearingPass.status>>}
            /\ GoOn(Left("take", hearingPass.leads, hearingPass.lead, hearingPass.found))
       ELSE UNCHANGED hearingLog /\ GoOn(NoHearingPass)
    /\ UNCHANGED <<flags, sent, unsure>>

(* release_stale_checkouts                                                 *)
Release ==
    /\ hearingPass.step = "release"
    /\ GoOnQuietly(NoHearingPass)

(* The worker dies.                                                        *)
WorkerDies ==
    /\ hearingPass # NoHearingPass
    /\ GoOn(NoHearingPass)
    /\ unsure' = IF hearingPass.step = "flag" THEN unsure \cup {Reminder} ELSE unsure
    /\ UNCHANGED <<flags, hearingLog, sent>>

HearingNext ==
    \/ NewHearingDay
    \/ \E h \in Hearings :
          \/ \E day \in HearingDays : CreateHearing(h, day) \/ PutOff(h, day)
          \/ SetScheduled(h) \/ DeleteHearing(h)
    \/ BeginHearings \/ ReadHearings \/ TakeHearing \/ SendMessage
    \/ SetFlag \/ LogHearing \/ Release \/ WorkerDies

HearingSpec == HearingInit /\ [][HearingNext]_hearingVars
-------------------------------------------------------------------------------
(* A pass that reads the hearings of a lead leaves none out that has not   *)
(* had the reminder of its day: "when the lead time is reached, a          *)
(* notification is sent to the assigned lawyer" (spec 002 US6); wherever   *)
(* passes die and whatever rows are refused, unless the hearing was put    *)
(* off, which leaves its flags set.                                        *)
LeavesNoneOut ==
    \A h \in Hearings \ putOff :
        hearingPass.step = "lead" /\ hearingPass'.step = "take" /\ Due(h, hearingPass'.lead)
        => \/ \E f \in hearingPass'.found : f.id = h
           \/ <<h, hearingPass'.lead, date[h]>> \in sent

(* "Idempotent: skips hearings already marked" (hearing_reminders.py:43):  *)
(* nobody gets the reminder of one day twice, however often the hearing is *)
(* put off and back, unless the worker could not know that it had gone.    *)
SendsOnce ==
    hearingPass.step = "send" /\ Message \in sent /\ hearingPass'.step \in {"flag", "log"}
    => Reminder \in unsure

(* For each of the leads a hearing has one reminder of its day.            *)
RemindedOnce == [][LeavesNoneOut /\ SendsOnce]_hearingVars
================================================================================
