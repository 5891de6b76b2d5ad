---------------------------- MODULE PipeRouting ----------------------------
(***************************************************************************)
(* How the server decides which TSF client it is talking to.               *)
(*                                                                         *)
(* Every TSF client (one per thread of a host process) connects three      *)
(* pipes: Main, which it writes, and the two reverse pipes Reply and       *)
(* Worker, which the server writes.  A reader thread per Main pipe and a   *)
(* monitor thread per reverse pipe change the registry of sessions and the *)
(* active client under g_pipe_clients_mutex, and enqueue tasks for the one *)
(* worker thread AFTER releasing it.  The worker rejects a task whose      *)
(* activation is no longer current, and runs it after the check.           *)
(*                                                                         *)
(* Every action below is one critical section of g_pipe_clients_mutex, one *)
(* append to the task queue, or one task of the worker; what two threads   *)
(* may do between two critical sections of a third is therefore explored.  *)
(* server/src/ipc/{ipc,event_listener_pipes,event_listener_worker}.cpp     *)
(***************************************************************************)
EXTENDS ActiveClientState, Sequences

CONSTANTS
    Frames,       \* the Main-pipe frames the clients send, a set of names
    MaxMains,     \* bound: Main connections a client opens
    MaxReverses,  \* bound: connections a client opens per reverse pipe
    MaxTokens,    \* bound: focus tokens a client mints
    MaxInputs     \* bound: frames, Aux messages and pipe failures

ASSUME BoundsAssumption ==
    /\ MaxMains \in Nat \ {0}
    /\ MaxReverses \in Nat
    /\ MaxTokens \in Nat
    /\ MaxInputs \in Nat

ImplicitFrames == {"KeyEvent", "FocusRestored"}
DeactivationFrames == {"ClientSuspended", "ClientDeactivated"}
PlainFrames == {"ShowCandidateWnd", "HideCandidateWnd", "StatusSnapshot"}
FrameNames ==
    {"ClientActivated"} \cup ImplicitFrames \cup DeactivationFrames
        \cup PlainFrames

ASSUME FramesAssumption == Frames \subseteq FrameNames

(* The task a frame becomes. *)
TaskOf ==
    [ ClientActivated   |-> "ClientActivated",
      ClientSuspended   |-> "ClientSuspended",
      ClientDeactivated |-> "ClientDeactivated",
      KeyEvent          |-> "ImeKeyEvent",
      FocusRestored     |-> "StatusSnapshot",
      StatusSnapshot    |-> "StatusSnapshot",
      ShowCandidateWnd  |-> "ShowCandidate",
      HideCandidateWnd  |-> "HideCandidate" ]

TaskTypes ==
    {"ClientActivated", "ClientSuspended", "ClientDeactivated",
     "ImeKeyEvent", "StatusSnapshot", "ShowCandidate", "HideCandidate"}

Task == [type : TaskTypes, client : Clients, epoch : Nat \ {0}]
NoTask == [type |-> "none", client |-> NoClient, epoch |-> 0]

Routes == {"Reply", "Worker"}
Mains == 1 .. MaxMains
Readers == Clients \X Mains

VARIABLES
    session,      \* g_pipe_clients
    route,        \* g_active_client_state
    lastReverse,  \* registration ids handed to each client's reverse pipes
    reader,       \* the reader thread of each Main connection
    posts,        \* tasks that other threads enqueue after unlocking
    aux,          \* the task the Aux thread is about to enqueue
    queue,        \* taskQueue
    worker,       \* the worker thread
    comp,         \* activations whose keys are in the composition
    toolbar,      \* the worker's last lifecycle message to the window showed it
    clientToken,  \* the last focus token each client minted
    inputs        \* frames, Aux messages and pipe failures so far

registry == <<session, route>>
vars == <<session, route, lastReverse, reader, posts, aux, queue, worker,
          comp, toolbar, clientToken, inputs>>

-----------------------------------------------------------------------------
(* The registry. *)

(* A registration id is 0 when the pipe is absent.  Ids are compared only   *)
(* within a client and a role, so each role counts its own.  A reverse pipe *)
(* is present, registered and ready together in every unlocked state.       *)
Session ==
    [ main          : Nat,
      reverse       : [Routes -> Nat],
      dirty         : SUBSET Routes,
      focusToken    : Nat,
      inactiveToken : Nat ]

EmptySession ==
    [ main          |-> 0,
      reverse       |-> [r \in Routes |-> 0],
      dirty         |-> {},
      focusToken    |-> 0,
      inactiveToken |-> 0 ]

(* A session without pipes is erased; the next pipe starts from an empty one. *)
Tidied(s) ==
    IF s.main = 0 /\ \A r \in Routes : s.reverse[r] = 0 THEN EmptySession ELSE s

(* Faulty variant: the token stays usable after its activation ended. *)
FocusCopied(s) == [s EXCEPT !.inactiveToken = s.focusToken]

(* The focus token of an activation that ends is kept for the Aux fallback. *)
FocusEnded(s) == [s EXCEPT !.inactiveToken = s.focusToken, !.focusToken = 0]

(* A reverse pipe is lost: its route stays dirty until it registers again. *)
Severed(s, r) ==
    [s EXCEPT !.reverse = [s.reverse EXCEPT ![r] = 0],
              !.dirty = s.dirty \cup {r}]

(* A reverse pipe registers with an id: its route is clean. *)
Connected(s, r, id) ==
    [s EXCEPT !.reverse = [s.reverse EXCEPT ![r] = id],
              !.dirty = s.dirty \ {r}]

(* Faulty variant: any connection of the client passes for the present one. *)
ConnectedSomehow(c, g) == session[c].main # 0

(* Main connection g is the one the client is registered with. *)
Registered(c, g) == session[c].main = g

(* Faulty variant: the Worker pipe is forgotten. *)
ReplyReady(c, g) ==
    /\ Registered(c, g)
    /\ session[c].reverse["Reply"] # 0
    /\ session[c].dirty = {}

(* The routeReady of ActivatePipeClient. *)
RouteReady(c, g) ==
    /\ Registered(c, g)
    /\ \A r \in Routes : session[c].reverse[r] # 0
    /\ session[c].dirty = {}

-----------------------------------------------------------------------------
(* The threads. *)

ReaderPcs ==
    { "off",          \* not connected yet
      "registered",   \* in RegisterMainPipeClient, its lock released
      "negotiate",    \* before NegotiateMainPipeClient
      "read",         \* blocked in ReadFile
      "handle",       \* has a frame and passed the registration check
      "resolve",      \* terminal deactivation: was not the owner
      "retire",       \* terminal deactivation: nor the last owner
      "announce",     \* before EnqueueTask(ClientActivated)
      "gate",         \* before IsActivePipeClient
      "post",         \* before EnqueueTask of the frame's own task
      "exit",         \* left the loop, before UnregisterPipeClientHandle
      "exitResolve",  \* unregistered, was not the owner
      "exitPost",     \* before EnqueueTask(ClientSuspended)
      "done" }

(* Where a reader holds an epoch it will enqueue, and where it holds a     *)
(* frame.                                                                  *)
PostPcs == {"registered", "announce", "post", "exitPost"}
FramePcs == {"handle", "resolve", "retire", "announce", "gate", "post"}

Reader ==
    { rd \in [pc : ReaderPcs, frame : FrameNames \cup {"none"},
              token : Nat, epoch : Nat] :
        /\ rd.pc \in PostPcs => rd.epoch # 0
        /\ rd.pc \in FramePcs => rd.frame # "none"
        /\ rd.pc = "handle" /\ rd.frame = "ClientActivated" => rd.token # 0 }

NewReader == [pc |-> "off", frame |-> "none", token |-> 0, epoch |-> 0]

At(c, g, pc) == reader[<<c, g>>].pc = pc

(* The thread has no activation to carry to its next step. *)
GoTo(c, g, pc) ==
    reader' = [reader EXCEPT ![<<c, g>>] = [NewReader EXCEPT !.pc = pc]]

(* The thread carries its frame and an epoch to its next step. *)
GoWith(c, g, pc, e) ==
    reader' = [reader EXCEPT ![<<c, g>>] = [@ EXCEPT !.pc = pc, !.epoch = e]]

NewTask(type, c, e) == [type |-> type, client |-> c, epoch |-> e]

(* The input budget: the outside world acts MaxInputs times. *)
CountInput ==
    /\ inputs < MaxInputs
    /\ inputs' = inputs + 1

(* Faulty variant: a task even when no activation ended. *)
InvalidationAlways(c, e) == {NewTask("ClientSuspended", c, e)}

(* EnqueuePipeSessionInvalidatedTask: nothing for epoch 0. *)
Invalidation(c, e) ==
    IF e = 0 THEN {} ELSE {NewTask("ClientSuspended", c, e)}

Enqueue(task) == queue' = Append(queue, task)

Init ==
    /\ session = [c \in Clients |-> EmptySession]
    /\ route = InitialRoute
    /\ lastReverse = [c \in Clients |-> [r \in Routes |-> 0]]
    /\ reader = [cg \in Readers |-> NewReader]
    /\ posts = {}
    /\ aux = {}
    /\ queue = <<>>
    /\ worker = [pc |-> "idle", task |-> NoTask]
    /\ comp = {}
    /\ toolbar = FALSE
    /\ clientToken = [c \in Clients |-> 0]
    /\ inputs = 0

-----------------------------------------------------------------------------
(* Connecting and losing pipes. *)

(* RegisterMainPipeClient: a new Main connection is a new logical session  *)
(* of its client; the route is taken from the old one.                     *)
RegisterMain(c, g) ==
    LET owner == route.active = c
        ended == IF owner THEN FocusEnded(session[c]) ELSE session[c]
    IN
    /\ At(c, g, "off")
    /\ \A h \in Mains : h < g => ~ At(c, h, "off")
    /\ session' = [session EXCEPT
                     ![c] = [ended EXCEPT !.main = g, !.focusToken = 0]]
    /\ route' = Deactivated(route, c)
    /\ IF owner THEN GoWith(c, g, "registered", route'.epoch)
                ELSE GoTo(c, g, "negotiate")
    /\ UNCHANGED <<lastReverse, posts, aux, queue, worker, comp, toolbar,
                   clientToken, inputs>>

(* The end of RegisterMainPipeClient, outside the lock, when it took the   *)
(* route: EnqueuePipeSessionInvalidatedTask.                               *)
PostSuperseded(c, g) ==
    /\ At(c, g, "registered")
    /\ Enqueue(NewTask("ClientSuspended", c, reader[<<c, g>>].epoch))
    /\ GoTo(c, g, "negotiate")
    /\ UNCHANGED <<session, route, lastReverse, posts, aux, worker, comp,
                   toolbar, clientToken, inputs>>

(* NegotiateMainPipeClient: an unversioned (legacy) hello needs no reverse *)
(* pipe; a versioned one is acknowledged on the reply pipe, whose write    *)
(* may fail.  A refused hello ends the thread.                             *)
Negotiate(c, g) ==
    /\ At(c, g, "negotiate")
    /\ \E legacy, accepted \in BOOLEAN :
         IF /\ accepted
            /\ Registered(c, g)
            /\ legacy \/ session[c].reverse["Reply"] # 0
           THEN GoTo(c, g, "read")
           ELSE GoTo(c, g, "exit")
    /\ UNCHANGED <<session, route, lastReverse, posts, aux, queue, worker,
                   comp, toolbar, clientToken, inputs>>

(* RegisterToTsfPipeClient and RegisterToTsfWorkerThreadPipeClient: the    *)
(* endpoint is replaced if PipeReady can be written to the new one.        *)
RegisterReverse(c, r) ==
    /\ lastReverse[c][r] < MaxReverses
    /\ lastReverse' = [lastReverse EXCEPT ![c][r] = @ + 1]
    /\ \/ session' =
            [session EXCEPT ![c] = Connected(@, r, lastReverse[c][r] + 1)]
       \/ session' = [session EXCEPT ![c] = Tidied(@)]
    /\ UNCHANGED <<route, reader, posts, aux, queue, worker, comp, toolbar,
                   clientToken, inputs>>

(* A reverse pipe's monitor sees it broken, or is replaced: the two reverse *)
(* branches of UnregisterPipeClientHandle.  Only the monitor of the present *)
(* registration changes the session; it enqueues after unlocking.           *)
UnregisterReverse(c, r, g) ==
    LET current == session[c].reverse[r] = g
        owner == current /\ route.active = c
        severed == IF current THEN Severed(session[c], r) ELSE session[c]
        ended == IF owner THEN FocusEnded(severed) ELSE severed
    IN
    /\ g \in 1 .. lastReverse[c][r]
    /\ session' = [session EXCEPT ![c] = Tidied(ended)]
    /\ route' = IF current THEN Deactivated(route, c) ELSE route
    /\ posts' = posts \cup Invalidation(c, IF owner THEN route'.epoch ELSE 0)
    /\ CountInput
    /\ UNCHANGED <<lastReverse, reader, aux, queue, worker, comp, toolbar,
                   clientToken>>

(* Any write to a Worker pipe that fails: the focus fence and the mode     *)
(* state a reader sends, the settings a monitor sends, a broadcast.  The   *)
(* activation of that client, whichever it is by now, loses its route.     *)
WorkerPipeWriteFails(c) ==
    LET owner == route.active = c
        severed == Severed(session[c], "Worker")
    IN
    /\ session[c].reverse["Worker"] # 0
    /\ session' = [session EXCEPT
                     ![c] = IF owner THEN FocusEnded(severed) ELSE severed]
    /\ route' = Invalidated(route, c, route.epoch)
    /\ posts' = posts \cup Invalidation(c, IF owner THEN route'.epoch ELSE 0)
    /\ CountInput
    /\ UNCHANGED <<lastReverse, reader, aux, queue, worker, comp, toolbar,
                   clientToken>>

(* A thread other than a reader and the worker enqueues its task. *)
PostInvalidated(task) ==
    /\ task \in posts
    /\ posts' = posts \ {task}
    /\ Enqueue(task)
    /\ UNCHANGED <<session, route, lastReverse, reader, aux, worker, comp,
                   toolbar, clientToken, inputs>>

-----------------------------------------------------------------------------
(* The reader thread of Main connection g of client c. *)

(* A well-formed frame arrives and the connection is still registered.     *)
(* ClientActivated carries a nonzero token: a new one when the client      *)
(* enters a focus session, the same one when it retries.                   *)
ReadFrame(c, g, f) ==
    /\ At(c, g, "read")
    /\ Registered(c, g)
    /\ CountInput
    /\ IF f = "ClientActivated"
         THEN \E token \in (1 .. MaxTokens)
                            \cap {clientToken[c], clientToken[c] + 1} :
                /\ clientToken' = [clientToken EXCEPT ![c] = token]
                /\ reader' = [reader EXCEPT
                                ![<<c, g>>] = [pc |-> "handle", frame |-> f,
                                               token |-> token, epoch |-> 0]]
         ELSE /\ reader' = [reader EXCEPT
                              ![<<c, g>>] = [pc |-> "handle", frame |-> f,
                                             token |-> 0, epoch |-> 0]]
              /\ UNCHANGED clientToken
    /\ UNCHANGED <<session, route, lastReverse, posts, aux, queue, worker,
                   comp, toolbar>>

(* ClientActivated: ActivatePipeClient with the frame's token.  It waits   *)
(* up to 100ms for the reverse pipes and gives up if they are not ready.   *)
ActivateExplicit(c, g) ==
    LET token == reader[<<c, g>>].token
        newFocus == session[c].focusToken # token
    IN
    /\ At(c, g, "handle")
    /\ reader[<<c, g>>].frame = "ClientActivated"
    /\ IF RouteReady(c, g)
         THEN /\ session' = [session EXCEPT
                               ![c] = [@ EXCEPT !.focusToken = token,
                                                !.inactiveToken = 0]]
              /\ route' = IF newFocus /\ route.active = c
                            THEN Renewed(route, c)
                            ELSE Activated(route, c)
              /\ IF route'.epoch # route.epoch
                   THEN GoWith(c, g, "announce", route'.epoch)
                   ELSE GoTo(c, g, "read")
         ELSE GoTo(c, g, "read") /\ UNCHANGED registry
    /\ UNCHANGED <<lastReverse, posts, aux, queue, worker, comp, toolbar,
                   clientToken, inputs>>

(* A key or FocusRestored: ActivatePipeClient reusing the session's token, *)
(* without waiting.  A client without a fenced session stays inactive.     *)
ActivateImplicit(c, g) ==
    /\ At(c, g, "handle")
    /\ reader[<<c, g>>].frame \in ImplicitFrames
    /\ IF RouteReady(c, g) /\ session[c].focusToken # 0
         THEN /\ session' = [session EXCEPT ![c].inactiveToken = 0]
              /\ route' = Activated(route, c)
              /\ GoWith(c, g,
                        IF route'.epoch # route.epoch
                          THEN "announce" ELSE "gate",
                        route'.epoch)
         ELSE GoTo(c, g, "read") /\ UNCHANGED registry
    /\ UNCHANGED <<lastReverse, posts, aux, queue, worker, comp, toolbar,
                   clientToken, inputs>>

(* Every other event: GetActivePipeClient. *)
Attribute(c, g) ==
    /\ At(c, g, "handle")
    /\ reader[<<c, g>>].frame \in PlainFrames
    /\ IF route.active = c
         THEN GoWith(c, g, "gate", route.epoch)
         ELSE GoTo(c, g, "read")
    /\ UNCHANGED <<session, route, lastReverse, posts, aux, queue, worker,
                   comp, toolbar, clientToken, inputs>>

(* EnqueueTask(ClientActivated) of an activation that changed the route. *)
Announce(c, g) ==
    LET rd == reader[<<c, g>>]
    IN
    /\ At(c, g, "announce")
    /\ Enqueue(NewTask("ClientActivated", c, rd.epoch))
    /\ IF rd.frame = "ClientActivated"
         THEN GoTo(c, g, "read")
         ELSE GoWith(c, g, "gate", rd.epoch)
    /\ UNCHANGED <<session, route, lastReverse, posts, aux, worker, comp,
                   toolbar, clientToken, inputs>>

(* IsActivePipeClient before the event is enqueued. *)
Gate(c, g) ==
    LET e == reader[<<c, g>>].epoch
    IN
    /\ At(c, g, "gate")
    /\ IF Matches(route, c, e) THEN GoWith(c, g, "post", e)
                               ELSE GoTo(c, g, "read")
    /\ UNCHANGED <<session, route, lastReverse, posts, aux, queue, worker,
                   comp, toolbar, clientToken, inputs>>

(* ClientSuspended and ClientDeactivated: DeactivatePipeClient. *)
DeactivateRoute(c, g) ==
    /\ At(c, g, "handle")
    /\ reader[<<c, g>>].frame \in DeactivationFrames
    /\ IF Registered(c, g) /\ route.active = c
         THEN /\ session' = [session EXCEPT ![c] = FocusEnded(@)]
              /\ route' = Deactivated(route, c)
              /\ GoWith(c, g, "post", route'.epoch)
         ELSE /\ UNCHANGED registry
              /\ IF reader[<<c, g>>].frame = "ClientDeactivated"
                   THEN GoWith(c, g, "resolve", 0)
                   ELSE GoTo(c, g, "read")
    /\ UNCHANGED <<lastReverse, posts, aux, queue, worker, comp, toolbar,
                   clientToken, inputs>>

(* ResolvePipeClientTerminalDeactivationEpoch *)
ResolveTerminal(c, g) ==
    LET e == TerminalEpoch(route, c)
    IN
    /\ At(c, g, "resolve")
    /\ GoWith(c, g, IF e # 0 THEN "post" ELSE "retire", e)
    /\ UNCHANGED <<session, route, lastReverse, posts, aux, queue, worker,
                   comp, toolbar, clientToken, inputs>>

(* IsForegroundInputThreadClient, then DeactivatePipeRouteForForegroundClient; *)
(* which client the user is looking at is the window system's.             *)
RetireRoute(c, g) ==
    /\ At(c, g, "retire")
    /\ \/ /\ Registered(c, g)
          /\ route' = Retired(route, c)
          /\ session' = [session EXCEPT
                           ![c] = IF @.focusToken # 0 THEN FocusEnded(@)
                                                      ELSE @]
          /\ GoWith(c, g, "post", route'.epoch)
       \/ /\ UNCHANGED registry
          /\ GoTo(c, g, "read")
    /\ UNCHANGED <<lastReverse, posts, aux, queue, worker, comp, toolbar,
                   clientToken, inputs>>

(* EnqueueTask of the frame's own task. *)
Post(c, g) ==
    LET rd == reader[<<c, g>>]
    IN
    /\ At(c, g, "post")
    /\ Enqueue(NewTask(TaskOf[rd.frame], c, rd.epoch))
    /\ GoTo(c, g, "read")
    /\ UNCHANGED <<session, route, lastReverse, posts, aux, worker, comp,
                   toolbar, clientToken, inputs>>

(* The Main branch of UnregisterPipeClientHandle: a replaced connection    *)
(* changes nothing.                                                        *)
UnregisterMain(c, g) ==
    LET current == Registered(c, g)
        owner == current /\ route.active = c
        ended == IF owner THEN FocusEnded(session[c]) ELSE session[c]
        gone == IF current THEN [ended EXCEPT !.main = 0, !.focusToken = 0]
                           ELSE ended
    IN
    /\ session' = [session EXCEPT ![c] = Tidied(gone)]
    /\ route' = IF current THEN Deactivated(route, c) ELSE route
    /\ IF owner THEN GoWith(c, g, "exitPost", route'.epoch)
       ELSE IF current THEN GoTo(c, g, "exitResolve")
       ELSE GoTo(c, g, "done")
    /\ UNCHANGED <<lastReverse, posts, aux, queue, worker, comp, toolbar,
                   clientToken>>

(* The loop ends: the hello was refused, the registration is not current   *)
(* when the next frame arrives, or the pipe breaks or carries a malformed  *)
(* frame.                                                                  *)
RefuseHello(c, g) ==
    /\ At(c, g, "exit")
    /\ UnregisterMain(c, g)
    /\ UNCHANGED inputs

FindSuperseded(c, g) ==
    /\ At(c, g, "read")
    /\ ~ Registered(c, g)
    /\ UnregisterMain(c, g)
    /\ UNCHANGED inputs

Disconnect(c, g) ==
    /\ At(c, g, "read")
    /\ Registered(c, g)
    /\ UnregisterMain(c, g)
    /\ CountInput

(* The thread's last look at the route: its client may have suspended. *)
ResolveExit(c, g) ==
    LET e == TerminalEpoch(route, c)
    IN
    /\ At(c, g, "exitResolve")
    /\ IF e # 0 THEN GoWith(c, g, "exitPost", e) ELSE GoTo(c, g, "done")
    /\ UNCHANGED <<session, route, lastReverse, posts, aux, queue, worker,
                   comp, toolbar, clientToken, inputs>>

PostExit(c, g) ==
    /\ At(c, g, "exitPost")
    /\ Enqueue(NewTask("ClientSuspended", c, reader[<<c, g>>].epoch))
    /\ GoTo(c, g, "done")
    /\ UNCHANGED <<session, route, lastReverse, posts, aux, worker, comp,
                   toolbar, clientToken, inputs>>

-----------------------------------------------------------------------------
(* The Aux thread: TerminalDeactivation|client|token, the fallback a client *)
(* uses when its Main-pipe write failed; it may arrive arbitrarily late.    *)

(* DeactivatePipeClientByFocusToken with                                   *)
(* CanApplyTerminalDeactivationFallback.                                   *)
AuxTerminal(c, token) ==
    LET inactive == TerminalEpoch(route, c)
        s == session[c]
    IN
    /\ aux = {}
    /\ token \in 1 .. clientToken[c]
    /\ \/ /\ route.active = c
          /\ s.focusToken = token
          /\ route' = Deactivated(route, c)
          /\ session' = [session EXCEPT ![c] = FocusEnded(@)]
          /\ aux' = {NewTask("ClientDeactivated", c, route'.epoch)}
       \/ /\ inactive # 0
          /\ s.inactiveToken = token
          /\ aux' = {NewTask("ClientDeactivated", c, inactive)}
          /\ UNCHANGED registry
    /\ CountInput
    /\ UNCHANGED <<lastReverse, reader, posts, queue, worker, comp, toolbar,
                   clientToken>>

PostAux(task) ==
    /\ task \in aux
    /\ aux' = {}
    /\ Enqueue(task)
    /\ UNCHANGED <<session, route, lastReverse, reader, posts, worker, comp,
                   toolbar, clientToken, inputs>>

-----------------------------------------------------------------------------
(* The worker thread. *)

LifecycleEnds == {"ClientDeactivated", "ClientSuspended"}

(* Faulty variants: lifecycle ends are never rejected; only they are; they *)
(* are checked like the tasks of an owner.                                 *)
IsCurrentUnlessEnd(task) ==
    task.type \in LifecycleEnds \/ Matches(route, task.client, task.epoch)

IsCurrentIfEnd(task) ==
    task.type \in LifecycleEnds => Matches(route, NoClient, task.epoch)

IsCurrentOwner(task) == Matches(route, task.client, task.epoch)

(* IsPipeActivationCurrent as the worker asks it: the end of an activation *)
(* is current while nobody owns the route.                                 *)
IsCurrent(task) ==
    Matches(route, IF task.type \in LifecycleEnds THEN NoClient ELSE task.client,
            task.epoch)

Idle == [pc |-> "idle", task |-> NoTask]

(* Dequeue and staleness check; only the worker removes from the queue. *)
Take ==
    /\ worker.pc = "idle"
    /\ queue # <<>>
    /\ queue' = Tail(queue)
    /\ worker' = IF IsCurrent(Head(queue))
                   THEN [pc |-> "run", task |-> Head(queue)]
                   ELSE worker
    /\ UNCHANGED <<session, route, lastReverse, reader, posts, aux, comp,
                   toolbar, clientToken, inputs>>

Running(type) == worker.pc = "run" /\ worker.task.type = type

(* ClientActivated: post WM_IMEACTIVATE, ClearState.  The window exists    *)
(* here; WindowActivation has the start of the server, when it may not.    *)
RunActivated ==
    /\ Running("ClientActivated")
    /\ toolbar' = TRUE
    /\ comp' = {}
    /\ worker' = Idle
    /\ UNCHANGED <<session, route, lastReverse, reader, posts, aux, queue,
                   clientToken, inputs>>

(* ClientDeactivated: post WM_IMEDEACTIVATE, ClearState. *)
RunDeactivated ==
    /\ Running("ClientDeactivated")
    /\ toolbar' = FALSE
    /\ comp' = {}
    /\ worker' = Idle
    /\ UNCHANGED <<session, route, lastReverse, reader, posts, aux, queue,
                   clientToken, inputs>>

(* ClientSuspended: ClearState, and no word to the toolbar. *)
RunSuspended ==
    /\ Running("ClientSuspended")
    /\ comp' = {}
    /\ worker' = Idle
    /\ UNCHANGED <<session, route, lastReverse, reader, posts, aux, queue,
                   toolbar, clientToken, inputs>>

(* HideCandidate: ClearState, unless it answers a commit this activation   *)
(* was pushed while typing on: the remainder of its composition stays.     *)
RunHide ==
    /\ Running("HideCandidate")
    /\ \/ comp' = {}
       \/ /\ <<worker.task.client, worker.task.epoch>> \in comp
          /\ UNCHANGED comp
    /\ worker' = Idle
    /\ UNCHANGED <<session, route, lastReverse, reader, posts, aux, queue,
                   toolbar, clientToken, inputs>>

(* StatusSnapshot: English mode ends the composition. *)
RunSnapshot ==
    /\ Running("StatusSnapshot")
    /\ comp' \in {comp, {}}
    /\ worker' = Idle
    /\ UNCHANGED <<session, route, lastReverse, reader, posts, aux, queue,
                   toolbar, clientToken, inputs>>

(* ShowCandidate publishes the page of the composition as it is. *)
RunShow ==
    /\ Running("ShowCandidate")
    /\ worker' = Idle
    /\ UNCHANGED <<session, route, lastReverse, reader, posts, aux, queue,
                   comp, toolbar, clientToken, inputs>>

(* HandleImeKey: the key enters the composition and a reply is sent, by    *)
(* SendToTsfClientViaNamedpipe, to the activation the key came from.  A    *)
(* reply that commits ends the composition; a reply that cannot be routed  *)
(* or written leaves it to the lifecycle task behind.  A key that edits    *)
(* nothing is not told apart from one that types.                          *)
RunKey ==
    LET c == worker.task.client
        e == worker.task.epoch
        typed == comp \cup {<<c, e>>}
        routable == Matches(route, c, e) /\ session[c].reverse["Reply"] # 0
    IN
    /\ Running("ImeKeyEvent")
    /\ \/ /\ routable
          /\ comp' \in {typed, {}}
          /\ worker' = Idle
          /\ UNCHANGED <<session, route, inputs>>
       \/ /\ routable
          /\ session' = [session EXCEPT
                           ![c] = FocusEnded(Severed(@, "Reply"))]
          /\ route' = Invalidated(route, c, e)
          /\ comp' = typed
          /\ worker' = [pc |-> "post",
                        task |-> NewTask("ClientSuspended", c, route'.epoch)]
          /\ CountInput
       \/ /\ ~ routable
          /\ comp' = typed
          /\ worker' = Idle
          /\ UNCHANGED <<session, route, inputs>>
    /\ UNCHANGED <<lastReverse, reader, posts, aux, queue, toolbar,
                   clientToken>>

(* The worker reports its own failed write. *)
PostWriteFailure ==
    /\ worker.pc = "post"
    /\ Enqueue(worker.task)
    /\ worker' = Idle
    /\ UNCHANGED <<session, route, lastReverse, reader, posts, aux, comp,
                   toolbar, clientToken, inputs>>

-----------------------------------------------------------------------------

ReaderStep(c, g) ==
    \/ PostSuperseded(c, g)
    \/ Negotiate(c, g)
    \/ ActivateExplicit(c, g)
    \/ ActivateImplicit(c, g)
    \/ Attribute(c, g)
    \/ Announce(c, g)
    \/ Gate(c, g)
    \/ DeactivateRoute(c, g)
    \/ ResolveTerminal(c, g)
    \/ RetireRoute(c, g)
    \/ Post(c, g)
    \/ RefuseHello(c, g)
    \/ ResolveExit(c, g)
    \/ PostExit(c, g)

WorkerStep ==
    \/ Take
    \/ RunActivated
    \/ RunDeactivated
    \/ RunSuspended
    \/ RunHide
    \/ RunSnapshot
    \/ RunShow
    \/ RunKey
    \/ PostWriteFailure

(* What the clients and the operating system do. *)
Environment ==
    \/ \E c \in Clients :
         \/ WorkerPipeWriteFails(c)
         \/ \E r \in Routes :
              \/ RegisterReverse(c, r)
              \/ \E g \in 1 .. MaxReverses : UnregisterReverse(c, r, g)
         \/ \E token \in 1 .. MaxTokens : AuxTerminal(c, token)
    \/ \E c \in Clients, g \in Mains :
         \/ RegisterMain(c, g)
         \/ FindSuperseded(c, g)
         \/ Disconnect(c, g)
         \/ \E f \in Frames : ReadFrame(c, g, f)

Next ==
    \/ Environment
    \/ \E c \in Clients, g \in Mains : ReaderStep(c, g)
    \/ \E task \in posts : PostInvalidated(task)
    \/ \E task \in aux : PostAux(task)
    \/ WorkerStep

Spec == Init /\ [][Next]_vars

(* The reader has a step of its own to take. *)
Busy(c, g) == reader[<<c, g>>].pc \notin {"off", "read", "exit", "done"}

(* Every server thread that has something to do is scheduled again: the    *)
(* weak fairness of ReaderStep, PostInvalidated, PostAux and WorkerStep.   *)
(* What enables each of them is spelled out, for TLC's sake; while it holds *)
(* only that step makes the change its second disjunct asks for.           *)
Fairness ==
    /\ \A cg \in Readers :
         \/ []<>~ Busy(cg[1], cg[2])
         \/ []<><<reader'[cg] # reader[cg]>>_vars
    /\ []<>(posts = {}) \/ []<><<~ (posts \subseteq posts')>>_vars
    /\ []<>(aux = {}) \/ []<><<~ (aux \subseteq aux')>>_vars
    /\ \/ []<>(queue = <<>> /\ worker = Idle)
       \/ []<><<worker' # worker \/ Len(queue') < Len(queue)>>_vars

FairSpec == Spec /\ Fairness
-----------------------------------------------------------------------------
(* What should hold. *)

TypeOK ==
    /\ session \in [Clients -> Session]
    /\ route \in RouteType
    /\ lastReverse \in [Clients -> [Routes -> Nat]]
    /\ reader \in [Readers -> Reader]
    /\ posts \subseteq Task
    /\ aux \subseteq Task
    /\ queue \in Seq(Task)
    /\ worker \in [pc : {"idle", "run", "post"}, task : Task \cup {NoTask}]
    /\ worker.pc # "idle" => worker.task \in Task
    /\ comp \subseteq Clients \X Nat
    /\ toolbar \in BOOLEAN
    /\ clientToken \in [Clients -> Nat]
    /\ inputs \in Nat

Complete(s) ==
    /\ s.main # 0
    /\ \A r \in Routes : s.reverse[r] # 0
    /\ s.dirty = {}
    /\ s.focusToken # 0

OneFocus(s) == s.focusToken # 0 => s.inactiveToken = 0 /\ s.main # 0

(* The active client can be answered: its Main connection is registered,   *)
(* both reverse pipes are up, none of its routes waits for a reconnect,    *)
(* and its focus session has a token TSF can acknowledge.  Nine critical   *)
(* sections of four kinds of threads break a pipe, replace it or give the  *)
(* route away; each must keep the registry and the active client in step.  *)
ActiveRouteComplete ==
    \A c \in Clients : route.active = c => Complete(session[c])

(* A session has one focus token at a time: what the Aux fallback can end  *)
(* is either the live focus session or the one that ended last, so a token *)
(* kept from an older session can never match once a new one begins.       *)
OneFocusSession == \A c \in Clients : OneFocus(session[c])

(* When the worker can still answer a key, the composition it answers from *)
(* holds keys of that key's own activation only: text typed into one       *)
(* client, or into an earlier focus session of the same client, is never   *)
(* committed into another.  The staleness check is not atomic with the     *)
(* task, so this rests on the order of ClientActivated and the keys.       *)
ReplyFromOwnKeys ==
    /\ Running("ImeKeyEvent")
    /\ Matches(route, worker.task.client, worker.task.epoch)
    => comp \subseteq {<<worker.task.client, worker.task.epoch>>}

(* The candidate page ShowCandidate publishes shows keys of its own        *)
(* activation only ("Activation replaces all composition/candidate state   *)
(* from the previous focus session", event_listener_worker.cpp).           *)
PageFromOwnKeys ==
    /\ Running("ShowCandidate")
    /\ Matches(route, worker.task.client, worker.task.epoch)
    => comp \subseteq {<<worker.task.client, worker.task.epoch>>}

(* No thread has anything left to do before the next input. *)
Quiescent ==
    /\ queue = <<>>
    /\ posts = {}
    /\ aux = {}
    /\ worker = Idle
    /\ \A cg \in Readers : reader[cg].pc \in {"off", "read", "done"}

(* Once the lifecycle tasks have drained, an active client has the toolbar *)
(* up and no composition of another activation is left behind, in whatever *)
(* order the tasks of racing clients were enqueued or rejected.            *)
SettledState ==
    Quiescent =>
      /\ route.active # NoClient => toolbar
      /\ comp \subseteq {<<route.active, route.epoch>>}

(* The end of a superseded Main connection changes nothing: only the       *)
(* reader of the registered connection moves the route or removes the      *)
(* registration, however late an old thread runs.                          *)
OnlyRegisteredReaderActs ==
    [][\A c \in Clients, g \in Mains :
         /\ reader'[<<c, g>>] # reader[<<c, g>>]
         /\ ~ At(c, g, "off")
         /\ session[c].main # g
         => UNCHANGED route /\ session'[c].main = session[c].main]_vars

(* The route implements the lease (RouteLease): its owner changes only     *)
(* together with a step of the epoch, and every such step mints exactly    *)
(* one.                                                                    *)
Lease == INSTANCE RouteLease WITH holder <- route.active, epoch <- route.epoch

ImplementsLease == Lease!Spec

(* An activation is eventually shown, unless it is superseded first. *)
ActivationShown ==
    \A c \in Clients : (route.active = c) ~> (toolbar \/ route.active # c)

(* A terminal deactivation that is on its way and still describes the      *)
(* route eventually hides the toolbar, unless a client takes the route.    *)
EndPending(e) ==
    \/ \E cg \in Readers :
         /\ reader[cg].pc = "post"
         /\ reader[cg].frame = "ClientDeactivated"
         /\ reader[cg].epoch = e
    \/ \E task \in aux : task.epoch = e
    \/ \E i \in 1 .. Len(queue) :
         queue[i].type = "ClientDeactivated" /\ queue[i].epoch = e
TerminalEndShown ==
    (EndPending(route.epoch) /\ route.active = NoClient)
      ~> (~ toolbar \/ route.active # NoClient)
=============================================================================
