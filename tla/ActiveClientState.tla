------------------------- MODULE ActiveClientState -------------------------
(***************************************************************************)
(* The transition rules of FanyImeIpc::ActiveClientState                   *)
(* (server/src/ipc/active_client_state.h) as operators on its state, the   *)
(* record                                                                  *)
(*                                                                         *)
(*   [active        : the client that owns the route, or NoClient,         *)
(*    inactiveOwner : the client whose deactivation emptied the route,     *)
(*    epoch         : the number every change of the route advances].      *)
(*                                                                         *)
(* The 64-bit epoch wraps past zero after 2^64 transitions, which no run   *)
(* of the program reaches: it is a natural number here.  The operators     *)
(* are shared by the modules that model the users of the class.            *)
(***************************************************************************)
EXTENDS Naturals

CONSTANTS
    Clients,    \* ids of the TSF clients (PID << 32 | TID in the code)
    NoClient    \* client id zero

ASSUME ClientsAssumption == NoClient \notin Clients

RouteType ==
    [ active        : Clients \cup {NoClient},
      inactiveOwner : Clients \cup {NoClient},
      epoch         : Nat \ {0} ]

InitialRoute == [active |-> NoClient, inactiveOwner |-> NoClient, epoch |-> 1]

(* activate: the owner's own activation is not a transition. *)
Activated(r, c) ==
    IF r.active = c
      THEN r
      ELSE [active |-> c, inactiveOwner |-> NoClient, epoch |-> r.epoch + 1]

(* renew: a new focus session of the owner is a transition. *)
Renewed(r, c) ==
    [active |-> c, inactiveOwner |-> NoClient, epoch |-> r.epoch + 1]

(* Faulty variant: the epoch of the activation that ended is kept. *)
ReleasedKeepingEpoch(r) ==
    [active |-> NoClient, inactiveOwner |-> r.active, epoch |-> r.epoch]

(* What deactivate, deactivate_current and invalidate do to the owner. *)
Released(r) ==
    [active |-> NoClient, inactiveOwner |-> r.active, epoch |-> r.epoch + 1]

(* deactivate: only the owner gives the route up. *)
Deactivated(r, c) == IF r.active = c THEN Released(r) ELSE r

(* retire_for_terminal_deactivation: a foreground client empties the route *)
(* whoever owns it.                                                        *)
Retired(r, c) ==
    [active |-> NoClient, inactiveOwner |-> c, epoch |-> r.epoch + 1]

(* matches: client and epoch name the present state of the route; the     *)
(* client may be NoClient.                                                 *)
Matches(r, c, e) == r.active = c /\ r.epoch = e

(* invalidate: only the exact activation that saw its transport fail. *)
Invalidated(r, c, e) == IF Matches(r, c, e) THEN Released(r) ELSE r

(* terminal_deactivation_epoch without a transition of its own: the epoch *)
(* the client's own earlier deactivation left behind, 0 if it has been    *)
(* superseded.                                                            *)
TerminalEpoch(r, c) ==
    IF r.active = NoClient /\ r.inactiveOwner = c THEN r.epoch ELSE 0

=============================================================================
