-------------------------- MODULE WindowActivation --------------------------
(***************************************************************************)
(* How an activation of the route reaches the floating toolbar while the   *)
(* server is still creating its windows.                                   *)
(*                                                                         *)
(* The pipe server accepts clients before the candidate window exists.     *)
(* The worker looks at global_hwnd and either posts WM_IMEACTIVATE to it   *)
(* or sets g_deferred_client_activation; the UI thread creates the window, *)
(* publishes global_hwnd, replays a deferred activation and, when the      *)
(* toolbar window exists too, applies its visibility, which repairs a lost *)
(* activation from the route.  Worker and UI thread share no lock: every   *)
(* read or write of the two globals is a step here.                        *)
(* server/src/ipc/event_listener_worker.cpp, server/src/window/*.cpp       *)
(***************************************************************************)
EXTENDS ActiveClientState, Sequences

CONSTANT MaxMoves     \* bound: changes of the route

ASSUME MovesAssumption == MaxMoves \in Nat

TaskTypes == {"ClientActivated", "ClientSuspended", "ClientDeactivated"}
Task == [type : TaskTypes, client : Clients, epoch : Nat \ {0}]
NoTask == [type |-> "none", client |-> NoClient, epoch |-> 0]

VARIABLES
    route,      \* g_active_client_state
    terminal,   \* history: the route was last left for another input method
    pending,    \* the task each client's reader is about to enqueue
    queue,      \* taskQueue
    worker,     \* the worker thread
    deferred,   \* g_deferred_client_activation
    ui,         \* where the UI thread is
    mailbox,    \* lifecycle messages posted to the candidate window
    imeActive   \* g_is_ime_active: the toolbar may be shown

vars == <<route, terminal, pending, queue, worker, deferred, ui, mailbox,
          imeActive>>

UiPcs ==
    { "create",     \* before global_hwnd is published
      "replay",     \* in ReplayDeferredClientActivation
      "repost",     \* after the exchange, before the PostMessage
      "windows",    \* creating the other windows
      "loop" }      \* in the message loop

WorkerPcs ==
    { "idle",
      "run",        \* has a task that passed the staleness check
      "defer",      \* ClientActivated saw no window
      "cancelled" } \* ClientDeactivated has cleared the flag

TypeOK ==
    /\ route \in RouteType
    /\ terminal \in BOOLEAN
    /\ pending \in [Clients -> Task \cup {NoTask}]
    /\ queue \in Seq(Task)
    /\ worker \in [pc : WorkerPcs, task : Task \cup {NoTask}]
    /\ deferred \in BOOLEAN
    /\ ui \in UiPcs
    /\ mailbox \in Seq({"WM_IMEACTIVATE", "WM_IMEDEACTIVATE"})
    /\ ui = "create" => mailbox = <<>>   \* no window, nowhere to post to
    /\ imeActive \in BOOLEAN

Init ==
    /\ route = InitialRoute
    /\ terminal = FALSE
    /\ pending = [c \in Clients |-> NoTask]
    /\ queue = <<>>
    /\ worker = [pc |-> "idle", task |-> NoTask]
    /\ deferred = FALSE
    /\ ui = "create"
    /\ mailbox = <<>>
    /\ imeActive = FALSE

-----------------------------------------------------------------------------
(* The route (PipeRouting has the whole of it): a reader moves it, then    *)
(* enqueues the task.                                                      *)

(* The reader of client c has moved the route and will enqueue this task. *)
Owes(c, type, e) ==
    pending' = [pending EXCEPT ![c] = [type |-> type, client |-> c, epoch |-> e]]

Activate(c) ==
    /\ route.epoch <= MaxMoves
    /\ pending[c] = NoTask
    /\ route.active # c
    /\ route' = Activated(route, c)
    /\ terminal' = FALSE
    /\ Owes(c, "ClientActivated", route'.epoch)
    /\ UNCHANGED <<queue, worker, deferred, ui, mailbox, imeActive>>

Suspend(c) ==
    /\ route.epoch <= MaxMoves
    /\ pending[c] = NoTask
    /\ route.active = c
    /\ route' = Deactivated(route, c)
    /\ Owes(c, "ClientSuspended", route'.epoch)
    /\ UNCHANGED <<terminal, queue, worker, deferred, ui, mailbox, imeActive>>

(* The user switches to another input method: the owner deactivates, or    *)
(* the client whose suspension emptied the route follows it up.            *)
Deactivate(c) ==
    /\ route.epoch <= MaxMoves
    /\ pending[c] = NoTask
    /\ \/ /\ route.active = c
          /\ route' = Deactivated(route, c)
       \/ /\ TerminalEpoch(route, c) # 0
          /\ ~ terminal
          /\ UNCHANGED route
    /\ terminal' = TRUE
    /\ Owes(c, "ClientDeactivated", route'.epoch)
    /\ UNCHANGED <<queue, worker, deferred, ui, mailbox, imeActive>>

Enqueue(c) ==
    /\ pending[c] # NoTask
    /\ queue' = Append(queue, pending[c])
    /\ pending' = [pending EXCEPT ![c] = NoTask]
    /\ UNCHANGED <<route, terminal, worker, deferred, ui, mailbox, imeActive>>

-----------------------------------------------------------------------------
(* The worker thread. *)

IsCurrent(task) ==
    Matches(route,
            IF task.type = "ClientActivated" THEN task.client ELSE NoClient,
            task.epoch)

WorkerDone == worker' = [pc |-> "idle", task |-> NoTask]

Post(message) == mailbox' = Append(mailbox, message)

(* global_hwnd is set. *)
HasWindow == ui # "create"

Take ==
    /\ worker.pc = "idle"
    /\ queue # <<>>
    /\ queue' = Tail(queue)
    /\ worker' = IF IsCurrent(Head(queue))
                   THEN [pc |-> "run", task |-> Head(queue)]
                   ELSE worker
    /\ UNCHANGED <<route, terminal, pending, deferred, ui, mailbox, imeActive>>

(* Faulty variant: the message is posted whether or not there is a window. *)
PostAnyway ==
    /\ worker.pc = "run"
    /\ worker.task.type = "ClientActivated"
    /\ Post("WM_IMEACTIVATE")
    /\ WorkerDone
    /\ UNCHANGED <<route, terminal, pending, queue, deferred, ui, imeActive>>

(* ClientActivated looks at global_hwnd. *)
RunActivated ==
    /\ worker.pc = "run"
    /\ worker.task.type = "ClientActivated"
    /\ IF HasWindow
         THEN Post("WM_IMEACTIVATE") /\ WorkerDone
         ELSE worker' = [worker EXCEPT !.pc = "defer"] /\ UNCHANGED mailbox
    /\ UNCHANGED <<route, terminal, pending, queue, deferred, ui, imeActive>>

(* ClientActivated saw no window, and stores the flag. *)
Defer ==
    /\ worker.pc = "defer"
    /\ deferred' = TRUE
    /\ WorkerDone
    /\ UNCHANGED <<route, terminal, pending, queue, ui, mailbox, imeActive>>

(* ClientDeactivated cancels a deferred activation ... *)
RunDeactivated ==
    /\ worker.pc = "run"
    /\ worker.task.type = "ClientDeactivated"
    /\ deferred' = FALSE
    /\ worker' = [worker EXCEPT !.pc = "cancelled"]
    /\ UNCHANGED <<route, terminal, pending, queue, ui, mailbox, imeActive>>

(* ... and then looks at global_hwnd. *)
PostDeactivated ==
    /\ worker.pc = "cancelled"
    /\ IF HasWindow THEN Post("WM_IMEDEACTIVATE") ELSE UNCHANGED mailbox
    /\ WorkerDone
    /\ UNCHANGED <<route, terminal, pending, queue, deferred, ui, imeActive>>

(* ClientSuspended never changes the toolbar. *)
RunSuspended ==
    /\ worker.pc = "run"
    /\ worker.task.type = "ClientSuspended"
    /\ WorkerDone
    /\ UNCHANGED <<route, terminal, pending, queue, deferred, ui, mailbox,
                   imeActive>>

-----------------------------------------------------------------------------
(* The UI thread. *)

PublishWindow ==
    /\ ui = "create"
    /\ ui' = "replay"
    /\ UNCHANGED <<route, terminal, pending, queue, worker, deferred, mailbox,
                   imeActive>>

(* ReplayDeferredClientActivation: exchange the flag, then post. *)
ExchangeDeferred ==
    /\ ui = "replay"
    /\ deferred' = FALSE
    /\ ui' = IF deferred THEN "repost" ELSE "windows"
    /\ UNCHANGED <<route, terminal, pending, queue, worker, mailbox, imeActive>>

Replay ==
    /\ ui = "repost"
    /\ Post("WM_IMEACTIVATE")
    /\ ui' = "windows"
    /\ UNCHANGED <<route, terminal, pending, queue, worker, deferred, imeActive>>

(* Faulty variant: the toolbar believes the flag alone. *)
AsFlagged(flag) == imeActive' = flag

(* ApplyConfiguredFloatingToolbarVisibility: a live client alongside an    *)
(* inactive flag is repaired.                                              *)
Apply(flag) == imeActive' = (flag \/ route.active # NoClient)

(* The toolbar window exists: the apply with reason "startup". *)
Startup ==
    /\ ui = "windows"
    /\ ui' = "loop"
    /\ Apply(imeActive)
    /\ UNCHANGED <<route, terminal, pending, queue, worker, deferred, mailbox>>

HandleMessage ==
    /\ ui = "loop"
    /\ mailbox # <<>>
    /\ mailbox' = Tail(mailbox)
    /\ Apply(Head(mailbox) = "WM_IMEACTIVATE")
    /\ UNCHANGED <<route, terminal, pending, queue, worker, deferred, ui>>

(* Anything else that reconsiders the toolbar: a configuration change, the *)
(* page becoming ready, an input state change.                             *)
Reapply ==
    /\ ui = "loop"
    /\ Apply(imeActive)
    /\ UNCHANGED <<route, terminal, pending, queue, worker, deferred, ui,
                   mailbox>>

-----------------------------------------------------------------------------

WorkerStep ==
    \/ Take
    \/ RunActivated
    \/ Defer
    \/ RunDeactivated
    \/ PostDeactivated
    \/ RunSuspended

UiStep ==
    \/ PublishWindow
    \/ ExchangeDeferred
    \/ Replay
    \/ Startup
    \/ HandleMessage

Next ==
    \/ \E c \in Clients : Activate(c) \/ Suspend(c) \/ Deactivate(c) \/ Enqueue(c)
    \/ WorkerStep
    \/ UiStep
    \/ Reapply

Spec == Init /\ [][Next]_vars

(* Threads that have something to do are scheduled; clients do as they     *)
(* please.                                                                 *)
Fairness ==
    /\ \A c \in Clients : WF_vars(Enqueue(c))
    /\ WF_vars(WorkerStep)
    /\ WF_vars(UiStep)

FairSpec == Spec /\ Fairness
-----------------------------------------------------------------------------
(* Nothing is on its way to the toolbar any more. *)
Settled ==
    /\ \A c \in Clients : pending[c] = NoTask
    /\ queue = <<>>
    /\ worker.pc = "idle"
    /\ ui = "loop"
    /\ mailbox = <<>>

(* An activation that raced window creation is not lost: when everything   *)
(* has settled the toolbar is up for an active client, although the worker *)
(* may have deferred it after the UI thread had looked for it.             *)
ActivationKept == Settled /\ route.active # NoClient => imeActive

(* An active client is eventually shown, whatever the windows were doing   *)
(* when it activated, unless it leaves first.                              *)
ActivationReachesToolbar ==
    (route.active # NoClient) ~> (imeActive \/ route.active = NoClient)
=============================================================================
