---------------------------------- MODULE Tools ----------------------------------
(***************************************************************************)
(* The pages that put a question to the models or the registers and show   *)
(* what comes back.  A page has a subject (a tool, a case) and an input (a *)
(* document, a name, what was typed), asks about both, one question at a   *)
(* time, and lets the user go on choosing while it waits.  Each page is a  *)
(* record below:                                                           *)
(*   subjects  whether the subject can be changed                          *)
(*   lists     a change of subject empties the input and loads its inputs  *)
(*   wipes     another "subject" takes the outcome from the page, or       *)
(*             another subject or input does ("both"), or "none"           *)
(*   keeps     a new question leaves the earlier outcome until answered    *)
(*   marks     the outcome is shown only under the input it was asked for  *)
(*   talks     questions and answers are listed, the input is used up      *)
(***************************************************************************)
EXTENDS Browser

CONSTANTS Subjects, Inputs,
          InputsOf,     \* InputsOf[s]: the inputs that belong to subject s
          MaxLists,     \* bound on the lists in flight
          MaxTalk       \* bound on the questions of a conversation

VARIABLES
    tool,        \* the page's record
    subject, input,
    offered,     \* the inputs on offer
    lists,       \* the subjects whose lists are in flight
    question,    \* the call in flight: subject, input and answer
    outcome,     \* None, Failed, or what was asked
    talk,        \* the conversation, oldest first
    switched,    \* subject or input was changed while a question was in flight
    outrun       \* a list came before an older one, or an input was picked before the list

toolVars == <<tool, subject, input, offered, lists, question, outcome, talk, switched, outrun>>

Outcome == [subject : Subjects, input : Inputs]

ASSUME ToolsAssumption ==
    /\ MaxLists \in Nat \ {0}
    /\ {None, Failed} \cap Outcome = {}
    /\ \A s \in Subjects : InputsOf[s] \subseteq Inputs

(* The pages.                                                              *)
DraftingTools == [subjects |-> TRUE, lists |-> FALSE, wipes |-> "subject", keeps |-> FALSE,
                  marks |-> FALSE, talks |-> FALSE]

ContractReview == [DraftingTools EXCEPT !.lists = TRUE, !.wipes = "both"]

DocumentActions == [DraftingTools EXCEPT !.subjects = FALSE, !.wipes = "none"]

ConflictCheck == [DocumentActions EXCEPT !.keeps = TRUE, !.marks = TRUE]

AssistantScreen == [DraftingTools EXCEPT !.wipes = "none", !.talks = TRUE]

ToolPages == {DraftingTools, ContractReview, DocumentActions, ConflictCheck, AssistantScreen}
-------------------------------------------------------------------------------
ToolInit ==
    /\ tool \in ToolPages /\ subject \in Subjects /\ input = None
    /\ offered = IF tool.lists THEN {} ELSE Inputs
    /\ lists = IF tool.lists THEN <<subject>> ELSE <<>>
    /\ question = None /\ outcome = None /\ talk = <<>>
    /\ switched = FALSE /\ outrun = FALSE

Switch == switched' = (switched \/ question # None)

(* Mutant: outcome and document stay on the page.                          *)
ChooseSubjectOnly(s) ==
    /\ tool.subjects /\ s # subject
    /\ subject' = s
    /\ tool.lists => Len(lists) < MaxLists
    /\ lists' = IF tool.lists THEN Append(lists, s) ELSE lists
    /\ Switch
    /\ outrun' = (outrun /\ lists # <<>>)
    /\ UNCHANGED <<tool, input, offered, question, outcome, talk>>

(* Another tool or case.  Its documents are asked for, and the answer to   *)
(* the question before is not given up.                                    *)
ChooseSubject(s) ==
    /\ tool.subjects /\ s # subject
    /\ subject' = s
    /\ input' = IF tool.lists THEN None ELSE input
    /\ outcome' = IF tool.wipes = "none" THEN outcome ELSE None
    /\ tool.lists => Len(lists) < MaxLists
    /\ lists' = IF tool.lists THEN Append(lists, s) ELSE lists
    /\ Switch
    /\ outrun' = (outrun /\ lists # <<>>)
    /\ UNCHANGED <<tool, offered, question, talk>>

TakeList(i) ==
    /\ \E some \in {InputsOf[lists[i]], {}} : offered' = some
    /\ outrun' = (outrun \/ i > 1)
    /\ lists' = RemoveAt(lists, i)
    /\ UNCHANGED <<tool, subject, input, question, outcome, talk, switched>>

ChooseInput(x) ==
    /\ x \in offered \cup {None} /\ x # input
    /\ input' = x
    /\ outcome' = IF tool.wipes = "both" THEN None ELSE outcome
    /\ Switch
    /\ outrun' = (outrun \/ (x # None /\ lists # <<>>))
    /\ UNCHANGED <<tool, subject, offered, lists, question, talk>>

(* The button, and the Enter key of the conversation.                      *)
Ask ==
    /\ question = None /\ input # None
    /\ question' = [subject |-> subject, input |-> input, answered |-> None]
    /\ outcome' = IF tool.keeps THEN outcome ELSE None
    /\ IF tool.talks
       THEN /\ Len(talk) < 2 * MaxTalk
            /\ talk' = Append(talk, [by |-> "user", input |-> input])
            /\ input' = None
       ELSE UNCHANGED <<talk, input>>
    /\ switched' = FALSE
    /\ UNCHANGED <<tool, subject, offered, lists, outrun>>

(* What is found, or that nothing was; a failure ends the question too.    *)
Answer ==
    /\ question # None /\ question.answered = None
    /\ \E a \in {"found", Failed} : question' = [question EXCEPT !.answered = a]
    /\ UNCHANGED <<tool, subject, input, offered, lists, outcome, talk, switched, outrun>>

Show ==
    /\ question # None /\ question.answered # None
    /\ question' = None
    /\ LET found == question.answered # Failed
       IN  /\ outcome' = IF tool.talks THEN None
                       ELSE IF found THEN [subject |-> question.subject, input |-> question.input]
                       ELSE IF tool.keeps THEN outcome ELSE Failed
           /\ talk' = IF tool.talks /\ found
                      THEN Append(talk, [by |-> "assistant", input |-> question.input]) ELSE talk
    /\ UNCHANGED <<tool, subject, input, offered, lists, switched, outrun>>

ToolNext ==
    \/ \E s \in Subjects : ChooseSubject(s)
    \/ \E i \in DOMAIN lists : TakeList(i)
    \/ \E x \in Inputs \cup {None} : ChooseInput(x)
    \/ Ask \/ Answer \/ Show

ToolSpec == ToolInit /\ [][ToolNext]_toolVars
-------------------------------------------------------------------------------
ToolTypeOK ==
    /\ subject \in Subjects /\ input \in Inputs \cup {None} /\ offered \subseteq Inputs
    /\ lists \in Seq(Subjects) /\ Len(lists) <= MaxLists
    /\ question # None => question.subject \in Subjects /\ question.input \in Inputs
    /\ outcome \in Outcome \cup {None, Failed}
    /\ talk \in Seq([by : {"user", "assistant"}, input : Inputs])

(* What the page puts under the present choice without saying otherwise.   *)
Displayed ==
    IF outcome \in Outcome /\ (tool.marks => outcome.input = input) THEN outcome ELSE None

(* An analysis, a draft or a verdict on conflicts is shown under the tool, *)
(* the document or the name it was asked for, unless another was chosen    *)
(* while it was awaited (contract-review/page.tsx:88-101 and               *)
(* ConflictCheckPanel.tsx:50 take away what belongs to an earlier choice). *)
OutcomeIsOfChoice ==
    Displayed # None =>
        /\ ~switched /\ tool.wipes # "none" => Displayed.subject = subject
        /\ (~switched /\ tool.wipes = "both") \/ tool.marks => Displayed.input = input

(* The document under review belongs to the chosen case, unless the lists  *)
(* of two cases came in another order than they were asked for, or the     *)
(* document was picked before the list (contract-review/page.tsx:43-48).   *)
ReviewsOwnCase ==
    [][tool.lists /\ question = None /\ question' # None /\ ~outrun => input \in InputsOf[subject]]_toolVars

(* Every answer of the conversation follows its own question               *)
(* (assistant/page.tsx:62-94).                                             *)
AnswersFollowQuestions ==
    \A i \in DOMAIN talk :
        talk[i].by = "assistant" =>
            i > 1 /\ talk[i - 1] = [by |-> "user", input |-> talk[i].input]

(* Verdicts, drafts and answers appear under the case, tool or question    *)
(* they belong to, late answers included.                                  *)
ShowsWhatWasAsked == OutcomeIsOfChoice /\ AnswersFollowQuestions
===============================================================================
