-------------------------- MODULE StatsCollectorMC --------------------------
(* Instances of StatsCollector for TLC. *)
EXTENDS StatsCollector

CONSTANTS b1, b2

(* One callback can be in its loop while another gives its reference back. *)
TwoCallbacks == {b1, b2}
=============================================================================
