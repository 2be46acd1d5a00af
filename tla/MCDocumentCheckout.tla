-------------------------- MODULE MCDocumentCheckout --------------------------
(* One document of one case for DocumentCheckout, locks stale at once.      *)
EXTENDS DocumentCheckout, TLC

CONSTANTS m, l, s1, s2, f0, f1, f2

OneCase == [d \in Documents |-> CHOOSE c \in Cases : TRUE]
AtZero  == [f \in Firms |-> 0]

Interchangeable == Permutations(Sessions) \cup Permutations(Files \ {Original})
===============================================================================
