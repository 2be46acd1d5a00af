---------------------------- MODULE VersionHistory ----------------------------
(***************************************************************************)
(* What the document store promises its users, with no lock, request or   *)
(* transaction in sight: every document has a history of stored files that *)
(* only ever grows at its end, a file enters a history once, and the file  *)
(* a reader is given (documents.file_path) is one of the history and never *)
(* moves back to an earlier one.  DocumentCheckout implements it.          *)
(***************************************************************************)
EXTENDS Integers, Sequences

CONSTANTS Documents,   \* the rows of table documents
          Files,       \* names of storage objects, one per upload
          Original     \* the object of the first upload, version 1

VARIABLES history,     \* document -> the files of its versions, oldest first
          current      \* document -> index in history of documents.file_path

vars == <<history, current>>

FilesOf(d) == {history[d][i] : i \in DOMAIN history[d]}

Init ==
    /\ history = [d \in Documents |-> <<Original>>]
    /\ current = [d \in Documents |-> 1]

(* A check-in puts a new file at the end; readers see it from then on, or  *)
(* keep the file they had.                                                 *)
CheckIn(d, f) ==
    /\ f \notin FilesOf(d)
    /\ history' = [history EXCEPT ![d] = Append(@, f)]
    /\ \E i \in {current[d], Len(history[d]) + 1} :
           current' = [current EXCEPT ![d] = i]

Next == \E d \in Documents, f \in Files : CheckIn(d, f)

Spec == Init /\ [][Next]_vars
===============================================================================
