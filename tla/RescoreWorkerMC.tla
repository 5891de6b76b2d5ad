--------------------------- MODULE RescoreWorkerMC ---------------------------
(***************************************************************************)
(* Small instances of RescoreWorker for TLC: two models, as the server     *)
(* configures (one that favours speed, one that favours effect).           *)
(***************************************************************************)
EXTENDS RescoreWorker, TLC

CONSTANTS speed, effect, a1, a2, b1, s1, s2

TwoModels == {speed, effect}
ThreeKeys == {a1, a2, b1}
KeyModels == (a1 :> speed) @@ (a2 :> speed) @@ (b1 :> effect)
TwoSlots == {s1, s2}
=============================================================================
