----------------------------- MODULE RouteLease -----------------------------
(***************************************************************************)
(* What the server's routing promises to everything downstream of it: the  *)
(* input route is a lease held by at most one client, and every change of  *)
(* the holder, including a renewed or vacated lease, mints one new epoch.  *)
(* An epoch therefore names one state of the route for ever, and a piece   *)
(* of work stamped with an epoch can be recognised as stale.               *)
(* It abstracts server/src/ipc/active_client_state.h and every caller.     *)
(***************************************************************************)
EXTENDS Naturals

CONSTANTS Clients, NoClient

VARIABLES
    holder,   \* the client that holds the lease, or NoClient
    epoch     \* the lease's number

lease == <<holder, epoch>>

Init ==
    /\ holder = NoClient
    /\ epoch = 1

Grant(c) ==
    /\ holder' = c
    /\ epoch' = epoch + 1

Vacate ==
    /\ holder' = NoClient
    /\ epoch' = epoch + 1

Next == Vacate \/ \E c \in Clients : Grant(c)

Spec == Init /\ [][Next]_lease
=============================================================================
