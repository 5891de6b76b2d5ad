------------------------- MODULE WindowActivationMC -------------------------
(***************************************************************************)
(* Small instances of WindowActivation for TLC.                            *)
(***************************************************************************)
EXTENDS WindowActivation, TLC

CONSTANTS c1, c2

TwoClients == {c1, c2}
=============================================================================
