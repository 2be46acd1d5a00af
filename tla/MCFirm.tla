--------------------------------- MODULE MCFirm ---------------------------------
(***************************************************************************)
(* What a firm has at the server: its subscription, its users, and the way *)
(* of its documents to an AI output.  The parts share no state and are     *)
(* checked one at a time: a behaviour picks its scene at the start.        *)
(*   payment     webhook requests, which may die between two statements    *)
(*   users       two requests at a time; calls fail and requests die       *)
(*   ingestion   two workers, which may die; chunking, the step inside it  *)
(*   review      the gate an output passes, with a user of each rank       *)
(* Two more scenes take the code as it stands, with its names out of scope.*)
(***************************************************************************)
EXTENDS Subscription, FirmUsers, ReviewGate, DocumentPipeline, TLC

CONSTANTS a1, a2, b1, b2, t1, t2, u1, m, l, p

VARIABLES
    scene,
    paragraphs, pieces, readPage, source, text, chars, page, offset, textChunks, done

chunkingVars == <<paragraphs, pieces, readPage, source, text, chars, page, offset, textChunks, done>>
pathVars == <<reviewVars, vars, chunkingVars>>

(* A founder, and two ids the provider may give to a second address.       *)
TwoAddresses == [a \in Ids |-> IF a \in Founders THEN 1 ELSE 2]

ReviewAsIs == INSTANCE ReviewGate WITH CreatorInScope <- FALSE

PipelineAsIs == INSTANCE DocumentPipeline WITH RowInScope <- FALSE

(* One short word, a long word and two that fill a piece to the brim but   *)
(* for the running count after a full piece, the same two by themselves,   *)
(* two sentences that do not fit together, one longer than a piece.        *)
FiveShapes == { <<<<1>>>>, <<<<5, 2, 2>>>>, <<<<2, 2>>>>, <<<<2>>, <<1, 2>>>>, <<<<3, 2>>, <<1>>>> }

Chunking == INSTANCE TextChunking WITH
    chunks <- textChunks, Blank <- 0, Target <- 5, Overlap <- 2,
    Shapes <- FiveShapes, Pages <- {1, 2}, MaxParagraphs <- 4

(* The documents to be chunked differ in the chunking scene only, and the  *)
(* team of the case in those of the review.                                *)
FirmInit ==
    /\ scene \in {"payment", "users", "review", "reviewAsIs", "ingestion", "ingestionAsIs", "chunking"}
    /\ PaymentInit /\ UsersInit
    /\ ReviewInit /\ Init /\ Chunking!Init
    /\ scene # "chunking" => paragraphs = <<>>
    /\ scene \notin {"review", "reviewAsIs"} => assigned = {}

Paying == scene = "payment" /\ PaymentNext /\ UNCHANGED <<scene, userVars, pathVars>>

(* A PATCH of a user names one field, so that each guard is met alone.     *)
Managing ==
    /\ scene = "users" /\ UsersNext
    /\ \A r \in Requests :
           request'[r].step = "update" => "none" \in {request'[r].role, request'[r].status}
    /\ UNCHANGED <<scene, paymentVars, pathVars>>

Reviewing ==
    /\ \/ scene = "review" /\ ReviewNext
       \/ scene = "reviewAsIs" /\ ReviewAsIs!ReviewNext
    /\ UNCHANGED <<scene, paymentVars, userVars, vars, chunkingVars>>

Ingesting ==
    /\ \/ scene = "ingestion" /\ Next
       \/ scene = "ingestionAsIs" /\ PipelineAsIs!Next
    /\ UNCHANGED <<scene, paymentVars, userVars, reviewVars, chunkingVars>>

Chunks ==
    /\ scene = "chunking" /\ Chunking!Next
    /\ UNCHANGED <<scene, paymentVars, userVars, reviewVars, vars>>

FirmNext == Paying \/ Managing \/ Reviewing \/ Ingesting \/ Chunks

FirmSpec == FirmInit /\ [][FirmNext]_<<scene, paymentVars, userVars, pathVars>>

(* The scenes share the values: firms, two of the ids and documents are a1 *)
(* and a2; orders, handlers, requests and workers are b1 and b2.  So one   *)
(* permutation serves all scenes, each of which is symmetric in both.      *)
Interchangeable == Permutations({a1, a2}) \cup Permutations({b1, b2})
-------------------------------------------------------------------------------
(* chunk_pages loses no character, however paragraphs are split and        *)
(* overlaps carried on, and no chunk outgrows its bound.                   *)
ChunksKeepText == Chunking!ChunksKeepText
===============================================================================
