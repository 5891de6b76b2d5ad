--------------------------- MODULE DeferredKeysMC ---------------------------
(* Instances of DeferredKeys for TLC. *)
EXTENDS DeferredKeys

CONSTANTS c1, c2, c3

(* c1 and c2 are on the stack of one document, c3 is alone on another. *)
MCDocOf == [c \in Contexts |-> IF c \in {c1, c2} THEN 1 ELSE 2]
=============================================================================
