--------------------------- MODULE PipeRoutingMC ---------------------------
(***************************************************************************)
(* Small instances of PipeRouting for TLC.                                 *)
(***************************************************************************)
EXTENDS PipeRouting, TLC

CONSTANTS c1, c2

OneClient == {c1}
TwoClients == {c1, c2}

ClientSymmetry == Permutations(TwoClients)

(* The frames that move the route, and keys. *)
RouteFrames ==
    {"ClientActivated", "ClientSuspended", "ClientDeactivated", "KeyEvent"}

(* One implicit frame stands for both; suspensions are in RouteFrames.     *)
AllFrames == FrameNames \ {"FocusRestored", "ClientSuspended"}

(* What the client whose connection is replaced needs to send. *)
PageFrames == {"ClientActivated", "KeyEvent", "ShowCandidateWnd"}
=============================================================================
