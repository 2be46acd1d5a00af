---------------------------------- MODULE Pages ----------------------------------
(***************************************************************************)
(* Four pages with tables and copies of their own: the firm's users, the   *)
(* documents of a case, the case itself, and the panel of a document.      *)
(* They are never on the screen together and share no state: whatever      *)
(* comes between, each behaves as its own specification says.              *)
(***************************************************************************)
EXTENDS UsersScreen, DocumentsScreen, CaseScreen, DmsPanel

PagesSpec == UsersSpec /\ DocSpec /\ CaseSpec /\ DmsSpec

(* A page that waits for nothing shows what the server holds, whatever was *)
(* asked, changed and answered before, except where the module of the page *)
(* names an overlap the page does not guard against (the load and update   *)
(* handlers of users, cases/[id] and DmsControls), and but for what was    *)
(* changed without an answer.  The documents on the page are those of the  *)
(* chosen case, none of them final before it is (documents/page.tsx).      *)
SettledPagesAreCurrent ==
    /\ SettledTableIsCurrent
    /\ ListIsOfChosenCase /\ NeverAhead
    /\ SettledCaseIsCurrent
    /\ SettledPanelIsCurrent
===============================================================================
