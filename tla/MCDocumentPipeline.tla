-------------------------- MODULE MCDocumentPipeline --------------------------
(* One worker and one document for DocumentPipeline.                         *)
EXTENDS DocumentPipeline

CONSTANTS w1, d1
===============================================================================
