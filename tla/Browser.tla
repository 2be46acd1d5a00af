--------------------------------- MODULE Browser ---------------------------------
(***************************************************************************)
(* What the modules of the browser's pages have in common.  A page's call  *)
(* (lib/api.ts) is sent, acted on by the server, and heard of by the page, *)
(* in three steps with anything in between; many may be under way.  It     *)
(* comes back with what the server answers, or the page is told that it    *)
(* failed: Refused when the server did not do it, Failed when it may have. *)
(***************************************************************************)
EXTENDS Naturals, Sequences, SequencesExt

CONSTANTS
    None,      \* nothing: no choice, no answer yet, null
    Gone,      \* a row that does not exist
    Failed, Refused

ASSUME MarksAssumption ==
    /\ None \notin {Gone, Failed, Refused}
    /\ Gone \notin {Failed, Refused}
    /\ Failed # Refused
===============================================================================
