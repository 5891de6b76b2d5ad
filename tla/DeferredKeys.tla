---------------------------- MODULE DeferredKeys ----------------------------
(***************************************************************************)
(* The queue of eaten keys of one TSF client, and the focus session and    *)
(* local reset that decide when a key may leave it.                        *)
(*                                                                         *)
(* A key the input method has eaten cannot be given back.  It is queued,   *)
(* becomes the one key in flight, and is carried by a posted request or by *)
(* an edit session that the host grants when it likes.  Meanwhile focus    *)
(* moves, the server dies, and a reset cancels the composition.            *)
(*                                                                         *)
(* The handlers run on one thread and call each other, so a handler is an  *)
(* operator from a state to the set of states it may leave: the state is   *)
(* one record.  Only the worker thread runs beside them; it touches the    *)
(* acknowledgement and the published worker handle.                        *)
(*                                                                         *)
(* windows/src/Key/KeyEventSink_DeferredKeys.cpp, Key/KeyEventSink.cpp,    *)
(* Key/KeyHandlerEditSession.cpp, IME/MetasequoiaIME*.cpp, IPC/Ipc.cpp     *)
(***************************************************************************)
EXTENDS Integers, Sequences, SequencesExt

CONSTANTS
    Contexts,     \* TSF contexts
    DocOf,        \* the document each context is on the stack of
    MaxQueue,     \* MAX_DEFERRED_KEY_DOWN_COUNT
    MaxKeys,      \* bound: keys queued
    MaxTroubles,  \* bound: focus changes (a return from TextInputHost
                  \* is one), compositions ended by the host,
                  \* server deaths, late echoes, refused or failed resets
    NoCtx

ASSUME ContextsAssumption == NoCtx \notin Contexts
ASSUME BoundsAssumption ==
    /\ MaxQueue \in Nat \ {0} /\ MaxKeys \in Nat
    /\ MaxTroubles \in Nat

Documents == { DocOf[c] : c \in Contexts }

Keys  == 1..MaxKeys        \* a key is its position in the order of typing
NoKey == 0
Offline == 0               \* origin of a composition begun in the offline lane

VARIABLE ime
vars == <<ime>>

Init == ime =
    [ fifo |-> <<>>,        \* _deferredKeyDowns: [key, kind, ctx]
      flight |-> NoKey,     \* _deferredKeyInFlight
      flightCtx |-> NoCtx,  \*   .context
      posted |-> FALSE,     \* _deferredKeyDrainPosted
      proj |-> FALSE,       \* _deferredKeyProjectionValid
      offline |-> FALSE,    \* _serverUnavailableFallbackActive
      asyncs |-> {},        \* _pendingAsyncKeyMessages
      sessions |-> <<>>,    \* edit sessions requested and not granted yet
      comp |-> NoCtx,       \* _pContext of _pComposition
      origin |-> Offline,   \* history: the focus token comp was begun under, or
                            \* handed over to by NewSession
      top |-> NoCtx,        \* top context of the focused document
      tops |-> [d \in Documents |-> CHOOSE c \in Contexts : DocOf[c] = d],
      connected |-> FALSE,  \* Global::g_connected
      lossTimer |-> FALSE,  \* TIMER_DEFERRED_FOCUS_LOSS, _focusLossDeferPending
      retry |-> FALSE,      \* TIMER_CONNECT_ALL_NAMEDPIPE
      mail |-> <<>>,        \* messages posted to _msgWndHandle
      expected |-> 0,       \* _expectedWorkerFocusToken
      acked |-> 0,          \* _acknowledgedWorkerFocusToken
      ready |-> FALSE,      \* _workerCommitReady
      minted |-> 0,         \* nextFocusSessionToken
      required |-> FALSE,   \* _activationRequired
      suspend |-> FALSE,    \* _focusResetPending
      pending |-> FALSE,    \* _localSessionResetPending
      resetToken |-> 0,     \* _localSessionResetToken
      queued |-> 0,         \* _queuedLocalResetToken, 0: none queued
      resync |-> 0,         \* _localResyncResetToken
      reply |-> "none",     \* hFromServerPipe
      worker |-> "none",    \* hToTsfWorkerThreadPipe
      main |-> "none",      \* hPipe
      published |-> FALSE,  \* _hToTsfWorkerThreadPipe is that handle
      pipeGen |-> 0,        \* _workerPipeGeneration
      echoes |-> <<>>,      \* FocusSessionReady tokens in the worker pipe
      checked |-> 0,        \* the token the worker thread is about to store
      server |-> TRUE,      \* external: the server runs
      typed |-> 0,          \* keys queued so far
      applied |-> <<>>,     \* history: keys applied, in order
      troubles |-> 0 ]

-----------------------------------------------------------------------------
(* Conditions. *)

Acknowledged(s) == s.expected # 0 /\ s.ready /\ s.acked = s.expected

(* _IsFocusSessionCurrent; NoCtx: any context. *)
FocusCurrent(s, token, ctx) ==
    /\ token # 0 /\ s.expected = token
    /\ s.connected /\ ~ s.pending
    /\ Acknowledged(s)
    /\ ctx \in {NoCtx, s.top}

Composing(s) == s.comp # NoCtx

Barrier(s) ==
    \/ s.pending \/ s.suspend \/ s.required \/ s.proj
    \/ s.fifo # <<>> \/ s.flight # NoKey
    \/ s.connected /\ ~ Acknowledged(s)

HasCapacity(s) == Len(s.fifo) + (IF s.flight = NoKey THEN 0 ELSE 1) < MaxQueue

InQueue(s) == { s.fifo[i].key : i \in DOMAIN s.fifo }
Waiting(s) == InQueue(s) \cup ({s.flight} \ {NoKey})

-----------------------------------------------------------------------------
(* Small steps the handlers share. *)

Post(s, message) == [s EXCEPT !.mail = Append(@, message)]

Message(kind) == [kind |-> kind, arg |-> 0]

Inbox(s, kind) == { m.arg : m \in { x \in ToSet(s.mail) : x.kind = kind } }

(* The composition epoch moves whenever the composition is replaced or ends: *)
(* what was captured under an epoch is out of date from then on.             *)
Outdated(x) == [x EXCEPT !.epoch = IF @ = "current" THEN "old" ELSE @]

SetComposition(s, ctx) ==
    IF ctx = s.comp THEN s
    ELSE [s EXCEPT !.comp = ctx,
                   !.origin = IF ctx = NoCtx \/ s.offline THEN Offline ELSE s.expected,
                   !.asyncs = { Outdated(r) : r \in @ },
                   !.sessions = [i \in DOMAIN @ |-> Outdated(@[i])]]

Schedule(s) ==
    IF s.fifo # <<>> /\ s.flight = NoKey /\ ~ s.posted
    THEN Post([s EXCEPT !.posted = TRUE], Message("drain"))
    ELSE s

TryLeave(s) ==
    IF ~ Composing(s) /\ Acknowledged(s) THEN [s EXCEPT !.offline = FALSE] ELSE s

(* _ClearDeferredKeyDowns.  The focus generation it advances is not kept:  *)
(* the queue is empty whenever it advances, so a queued key's is current.  *)
Clear(s) ==
    [s EXCEPT !.fifo = <<>>, !.flight = NoKey, !.flightCtx = NoCtx,
              !.posted = FALSE, !.proj = FALSE]

(* Mutant: the projection is kept. *)
ReleaseNoProjection(s) == s

ReleaseIdleProjection(s) ==
    IF s.fifo = <<>> /\ s.flight = NoKey /\ ~ s.pending
    THEN [s EXCEPT !.proj = FALSE]
    ELSE s

RequireActivation(s) ==
    [s EXCEPT !.required = TRUE, !.minted = @ + 1, !.expected = s.minted + 1,
              !.ready = FALSE, !.acked = 0]

BeginReset(s) == [s EXCEPT !.pending = TRUE, !.resetToken = @ + 1]

PostDirty(s) == Post(s, [kind |-> "dirty", arg |-> s.resetToken])

(* MarkNamedpipeSessionDirty *)
MarkDirty(s) ==
    LET r == [RequireActivation(s) EXCEPT !.reply = "none"]
    IN  IF r.pending THEN r ELSE PostDirty(BeginReset(r))

RequestReconnect(s) == Post(MarkDirty(s), Message("reconnect"))

(* _RequestLocalResync: the focus token is kept. *)
RequestResync(s) ==
    IF s.pending THEN s
    ELSE LET r == BeginReset(s)
         IN  PostDirty([r EXCEPT !.resync = r.resetToken])

(* _ResetSessionAfterFailure: whatever is queued was classified against    *)
(* the composition that is given up.                                       *)
ResetAfterFailure(s, kind) ==
    LET c == Clear(s)
        r == CASE kind = "transport" -> MarkDirty(c)
               [] kind = "resync"    -> RequestResync(c)
               [] kind = "offline"   -> c
    IN  TryLeave([r EXCEPT !.proj = kind # "offline" /\ r.pending])

(* Mutant: the context of the key in flight is left. *)
CompleteKeyKeepingContext(s, key) ==
    IF s.flight # key THEN s
    ELSE Schedule(TryLeave([s EXCEPT !.flight = NoKey, !.proj = @ /\ s.fifo # <<>>]))

(* Mutant: the next drain is not scheduled. *)
CompleteKeyAlone(s, key) ==
    IF s.flight # key THEN s
    ELSE TryLeave([s EXCEPT !.flight = NoKey, !.flightCtx = NoCtx, !.proj = @ /\ s.fifo # <<>>])

CompleteKey(s, key) ==
    IF s.flight # key THEN s
    ELSE Schedule(TryLeave(
           [s EXCEPT !.flight = NoKey, !.flightCtx = NoCtx,
                     !.proj = @ /\ s.fifo # <<>>]))

(* ResolveDeferredKeyFailure; language cycles are not among the keys. *)
FailureKind(s, reason) ==
    CASE reason = "superseded" -> "stale"
      [] reason = "transport"  -> "transport"
      [] reason = "host"       -> IF s.offline THEN "offline" ELSE "resync"

(* _FailDeferredKey *)
FailKey(s, key, reason) ==
    IF s.flight # key THEN s
    ELSE IF FailureKind(s, reason) = "stale" THEN CompleteKey(s, key)
    ELSE ResetAfterFailure(s, FailureKind(s, reason))

(* Mutant: the key of a dropped request stays in flight. *)
ClearRequestsOnly(s) == [s EXCEPT !.asyncs = {}]

(* _ClearPendingIpcRequests: a key carried by a request is retired. *)
ClearRequests(s) ==
    LET r == [s EXCEPT !.asyncs = {}]
    IN  IF \E x \in s.asyncs : x.key = s.flight THEN FailKey(r, s.flight, "superseded")
        ELSE r

-----------------------------------------------------------------------------
(* The transport.  An operator that may fail yields records [ok, st]. *)

Try(ok, s) == [ok |-> ok, st |-> s]

(* TryOpenClientPipe for the reply pipe: a stale handle is found by a probe, *)
(* a missing one opened.                                                     *)
OpenReply(s) ==
    LET r == IF s.reply = "dead" THEN MarkDirty(s) ELSE s
    IN  Try(s.reply = "ok" \/ s.server,
            IF r.reply = "none" /\ s.server THEN [r EXCEPT !.reply = "ok"] ELSE r)

(* The same for the worker pipe and PublishWorkerPipeHandleIfChanged: a     *)
(* handle the worker thread has let go is stale; a new endpoint needs a new *)
(* activation.                                                              *)
OpenWorker(s) ==
    LET stale == s.worker # "none" /\ ~ s.published
        r == IF stale THEN [MarkDirty(s) EXCEPT !.worker = "none"] ELSE s
    IN  IF r.worker # "none" THEN Try(TRUE, r)
        ELSE IF ~ s.server THEN Try(FALSE, r)
        ELSE Try(TRUE, [RequireActivation(r) EXCEPT
                           !.worker = "ok", !.published = TRUE, !.pipeGen = @ + 1,
                           !.echoes = <<>>])

OpenMain(s) ==
    IF s.main # "none" THEN Try(TRUE, s)
    ELSE Try(s.server, IF s.server THEN [s EXCEPT !.main = "ok"] ELSE s)

(* ConnectToAllNamedpipe: Main last. *)
ConnectToAll(s) ==
    LET reply == OpenReply(s)
        worker == OpenWorker(reply.st)
    IN  IF ~ reply.ok THEN reply
        ELSE IF ~ worker.ok THEN worker
        ELSE IF worker.st.pending THEN Try(FALSE, worker.st)
        ELSE OpenMain(worker.st)

(* The write of SendToNamedpipe: a dead Main is found by it. *)
WriteMain(s) ==
    LET r == OpenMain(s)
    IN  IF r.ok /\ r.st.main = "ok" THEN r
        ELSE Try(FALSE, RequestReconnect([s EXCEPT !.main = "none"]))

FlushSuspension(s) ==
    IF ~ s.suspend THEN Try(TRUE, s)
    ELSE LET r == WriteMain(s)
         IN  IF r.ok THEN Try(TRUE, [r.st EXCEPT !.suspend = FALSE]) ELSE r

(* ClientActivated, which the server echoes through the worker pipe. *)
SendActivated(s) ==
    IF ~ s.required THEN Try(TRUE, s)
    ELSE LET r == WriteMain(s)
         IN  IF r.ok
             THEN Try(TRUE, [r.st EXCEPT
                               !.required = FALSE,
                               !.echoes = IF s.worker = "ok" THEN Append(@, s.expected)
                                          ELSE @])
             ELSE r

(* notifyDisconnected of the worker thread. *)
Noticed(s) ==
    Post([s EXCEPT !.ready = FALSE, !.acked = 0, !.published = FALSE,
                   !.echoes = <<>>, !.checked = 0],
         [kind |-> "lost", arg |-> s.pipeGen])

(* The 150 ms wait for the echo, while the worker thread reads on.  When it *)
(* times out, the thread may have compared the token and not stored it yet. *)
AwaitEcho(s) ==
    LET comes == s.worker = "ok" /\ (s.checked = s.expected \/ Contains(s.echoes, s.expected))
        unheard == IF s.published /\ s.worker = "dead" THEN Noticed(s) ELSE s
        late == [s EXCEPT !.troubles = @ + 1]
        compared == [late EXCEPT !.echoes = <<>>, !.checked = s.expected]
    IN  IF Acknowledged(s) THEN {Try(TRUE, s)}
        ELSE IF ~ comes THEN {Try(FALSE, MarkDirty(unheard))}
        ELSE {Try(TRUE, [s EXCEPT !.acked = s.expected, !.ready = TRUE,
                                  !.echoes = <<>>, !.checked = 0])}
             \cup IF s.troubles < MaxTroubles
                  THEN { Try(FALSE, MarkDirty(t)) : t \in {late, compared} } ELSE {}

(* EnsureNamedpipeFocusSessionActivated *)
Ensure(s) ==
    LET connected == ConnectToAll(s)
        flushed == FlushSuspension(connected.st)
        activated == SendActivated(flushed.st)
    IN  IF s.pending THEN {Try(FALSE, s)}
        ELSE IF ~ connected.ok \/ connected.st.pending THEN {Try(FALSE, connected.st)}
        ELSE IF ~ flushed.ok THEN {flushed}
        ELSE IF ~ activated.ok THEN {activated}
        ELSE AwaitEcho(activated.st)

(* An ordinary packet: a key, or the clear after a resync. *)
SendPacket(s) ==
    UNION { IF e.ok THEN {WriteMain(e.st)} ELSE {e} : e \in Ensure(s) }

-----------------------------------------------------------------------------
(* The local reset: the old composition is cancelled before a key is sent. *)

(* _OnLocalSessionResetReleased *)
Released(s, token) ==
    IF token # s.resync THEN {ReleaseIdleProjection(s)}
    ELSE LET r == [s EXCEPT !.resync = 0]
         IN  IF FocusCurrent(r, r.expected, NoCtx)
             THEN { ReleaseIdleProjection(e.st) : e \in SendPacket(r) }
             ELSE {ReleaseIdleProjection(r)}

Reopen(s, token) ==
    { IF r.connected THEN Schedule(Post(r, Message("reconnect"))) ELSE r :
        r \in Released([s EXCEPT !.pending = FALSE], token) }

ArmRetry(s) == [s EXCEPT !.retry = @ \/ s.connected]

Session(kind, key, ctx, focus, epoch) ==
    [kind |-> kind, key |-> key, ctx |-> ctx, focus |-> focus, epoch |-> epoch]

Accepted(s, x) == [s EXCEPT !.sessions = Append(@, x)]

(* Mutant: the gate reopens as soon as the cancel has been accepted. *)
RequestResetAtOnce(s, preferred, token) ==
    LET r == ClearRequests([s EXCEPT !.ready = @ /\ token = s.resync])
        ctx == IF preferred # NoCtx THEN preferred ELSE r.comp
    IN  IF token = 0 \/ token # s.resetToken \/ ~ s.pending THEN {s}
        ELSE IF r.queued # 0 THEN {r}
        ELSE IF ~ Composing(r) THEN Reopen(r, token)
        ELSE Reopen(Accepted([r EXCEPT !.queued = token],
                             Session("reset", token, ctx, 0, "any")), token)

(* _RequestLocalSessionReset *)
RequestReset(s, preferred, token) ==
    LET r == ClearRequests([s EXCEPT !.ready = @ /\ token = s.resync])
        ctx == IF preferred # NoCtx THEN preferred ELSE r.comp
    IN  IF token = 0 \/ token # s.resetToken \/ ~ s.pending THEN {s}
        ELSE IF r.queued # 0 THEN {r}
        ELSE IF ~ Composing(r) THEN Reopen(r, token)
        ELSE {Accepted([r EXCEPT !.queued = token], Session("reset", token, ctx, 0, "any"))}
             \cup IF r.troubles < MaxTroubles THEN {ArmRetry([r EXCEPT !.troubles = @ + 1])} ELSE {}

(* _CompleteLocalSessionReset *)
CompleteReset(s, token) ==
    LET r == [s EXCEPT !.queued = 0]
    IN  IF s.queued # token THEN {s}
        ELSE IF r.pending /\ r.resetToken # token THEN RequestReset(r, NoCtx, r.resetToken)
        ELSE IF r.resetToken = token /\ ~ Composing(r) THEN Reopen(r, token)
        ELSE IF r.resetToken = token /\ r.pending THEN {ArmRetry(r)}
        ELSE {IF r.connected THEN Schedule(Post(r, Message("reconnect"))) ELSE r}

-----------------------------------------------------------------------------
(* Dispatching the key at the head of the queue. *)

(* RequestEditSession for a key: the host takes the session or refuses it. *)
RequestSession(s, x) == {Accepted(s, x), FailKey(s, x.key, "host")}

(* WM_Async... posted instead, for a key whose answer is waited for. *)
PostRequest(s, key) ==
    Post([s EXCEPT !.asyncs = @ \cup {[key |-> key, focus |-> s.expected, epoch |-> "current"]}],
         [kind |-> "async", arg |-> key])

(* _DispatchKeyDown of a key that has been classified. *)
DispatchOnline(s, k) ==
    {CompleteKey(s, k.key)}
    \cup UNION { IF ~ e.ok THEN {FailKey(e.st, k.key, "transport")}
                 ELSE {PostRequest(e.st, k.key)}
                      \cup RequestSession(e.st, Session("key", k.key, k.ctx, e.st.expected, "any")) :
                 e \in SendPacket(s) }

(* Nothing is sent in the offline lane; paging keys mean nothing there. *)
DispatchOffline(s, k) ==
    {CompleteKey(s, k.key)}
    \cup RequestSession(s, Session("key", k.key, k.ctx, s.expected, "any"))

Dispatch(s, k) ==
    IF ~ s.offline /\ ~ FocusCurrent(s, s.expected, k.ctx)
    THEN {FailKey(s, k.key, "superseded")}
    ELSE IF k.kind = "text"
    THEN RequestSession(s, Session("text", k.key, k.ctx, s.expected, "any"))
    ELSE IF s.offline THEN DispatchOffline(s, k)
    ELSE DispatchOnline(s, k)

(* Mutant: the newest key is taken. *)
TakeLast(s) ==
    [s EXCEPT !.fifo = Front(@), !.flight = Last(s.fifo).key, !.flightCtx = Last(s.fifo).ctx]

TakeHead(s) ==
    [s EXCEPT !.fifo = Tail(@), !.flight = Head(s.fifo).key, !.flightCtx = Head(s.fifo).ctx]

(* _NoteKeyEventIpcFailure: after some failures the server is launched and *)
(* the retry timer set.                                                    *)
NoteFailure(s) == {s, ArmRetry(s)}

(* _DrainOneDeferredKeyDown *)
Drain(s) ==
    LET r == [s EXCEPT !.posted = FALSE]
        lane == IF r.offline THEN NoteFailure(r)
                ELSE UNION { IF e.ok THEN {e.st}
                             ELSE NoteFailure([e.st EXCEPT !.offline = TRUE]) : e \in Ensure(r) }
    IN  IF r.flight # NoKey \/ r.fifo = <<>> \/ ~ r.connected THEN {r}
        ELSE IF r.pending THEN {Post(r, Message("reconnect"))}
        ELSE UNION { Dispatch(TakeHead(q), Head(q.fifo)) : q \in lane }

Enqueue(s, kind) ==
    [s EXCEPT !.typed = @ + 1, !.proj = TRUE,
              !.fifo = Append(@, [key |-> s.typed + 1, kind |-> kind, ctx |-> s.top])]

-----------------------------------------------------------------------------
(* Keys. *)

Become(states) == ime' \in states

(* OnKeyDown, nothing in the way: the queue is drained at once. *)
KeyHealthy ==
    /\ ime.top # NoCtx /\ ime.typed < MaxKeys
    /\ ~ Barrier(ime)
    /\ Become({ Schedule(r) : r \in Drain(Enqueue(ime, "key")) })

(* OnKeyDown behind the barrier. *)
KeyDeferred ==
    /\ ime.top # NoCtx /\ ime.typed < MaxKeys
    /\ Barrier(ime) /\ HasCapacity(ime)
    /\ \E kind \in {"key", "text"} :
        LET r == Schedule(Enqueue(ime, kind))
        IN  Become(RequestReset(r, r.top, IF r.pending THEN r.resetToken ELSE 0))

(* The queue is full: the key goes to the application, and nothing changes. *)
KeyRefused ==
    /\ ime.top # NoCtx
    /\ Barrier(ime) /\ ~ HasCapacity(ime)
    /\ UNCHANGED ime

-----------------------------------------------------------------------------
(* The window procedure: one posted message at a time. *)

Receive(kind, Handler(_, _)) ==
    /\ ime.mail # <<>> /\ Head(ime.mail).kind = kind
    /\ Become(Handler([ime EXCEPT !.mail = Tail(@)], Head(ime.mail).arg))

OnDrain(s, arg) == Drain(s)

OnConnect(s, arg) == {IF s.connected THEN Post(s, Message("reconnect")) ELSE s}

OnDisconnect(s, arg) ==
    {IF s.connected THEN s ELSE FlushSuspension([s EXCEPT !.retry = FALSE]).st}

(* A notice of an older registration must not tear down a newer one. *)
OnLost(s, gen) ==
    IF gen # s.pipeGen \/ s.worker = "none" \/ s.published THEN {s}
    ELSE LET r == ResetAfterFailure([s EXCEPT !.ready = FALSE], "transport")
         IN  {ArmRetry([r EXCEPT !.reply = "none", !.worker = "none", !.main = "none"])}

OnDirty(s, token) == RequestReset(s, NoCtx, token)

(* Mutant: a failed reconnect is not tried again. *)
OnReconnectOnce(s, arg) ==
    IF ~ s.connected THEN {s}
    ELSE { IF e.ok THEN Schedule(TryLeave([e.st EXCEPT !.retry = FALSE])) ELSE e.st :
           e \in Ensure(s) }

OnReconnect(s, arg) ==
    IF ~ s.connected THEN {s}
    ELSE { IF e.ok THEN Schedule(TryLeave([e.st EXCEPT !.retry = FALSE])) ELSE ArmRetry(e.st) :
           e \in Ensure(s) }

(* WM_Async...: the request is taken by its token; the context is the one  *)
(* that is on top now.                                                     *)
OnAsync(s, key) ==
    LET taken == { x \in s.asyncs : x.key = key }
        Handed(x) ==
            LET r == [s EXCEPT !.asyncs = @ \ {x}]
            IN  IF ~ FocusCurrent(r, x.focus, NoCtx) \/ x.epoch = "old"
                THEN {FailKey(r, key, "superseded")}
                ELSE IF r.top = NoCtx THEN {FailKey(r, key, "host")}
                ELSE RequestSession(r, Session("key", key, r.top, x.focus, x.epoch))
    IN  IF taken = {} THEN {s} ELSE UNION { Handed(x) : x \in taken }

Pump ==
    \/ Receive("drain", OnDrain)
    \/ Receive("connect", OnConnect)
    \/ Receive("disconnect", OnDisconnect)
    \/ Receive("lost", OnLost)
    \/ Receive("dirty", OnDirty)
    \/ Receive("reconnect", OnReconnect)
    \/ Receive("async", OnAsync)

(* A timer's message is made only when no message is posted. *)
NothingPosted == ime.mail = <<>>

(* TIMER_CONNECT_ALL_NAMEDPIPE: a pending reset first, then the transport. *)
OnRetry(s) ==
    LET Activate(r) ==
            { IF e.ok THEN Schedule([e.st EXCEPT !.retry = FALSE]) ELSE e.st : e \in Ensure(r) }
    IN  IF ~ s.connected THEN {[s EXCEPT !.retry = FALSE]}
        ELSE IF ~ s.pending THEN Activate(s)
        ELSE UNION { IF r.pending THEN {r} ELSE Activate(r) :
                     r \in RequestReset(s, NoCtx, s.resetToken) }

RetryDue == ime.retry /\ NothingPosted
Retry == RetryDue /\ Become(OnRetry(ime))

(* TIMER_DEFERRED_FOCUS_LOSS: focus did not come back. *)
LoseFocus ==
    /\ ime.lossTimer /\ NothingPosted
    /\ ime' = IF ~ ime.connected THEN [ime EXCEPT !.lossTimer = FALSE]
              ELSE Post([ime EXCEPT !.lossTimer = FALSE, !.connected = FALSE,
                                    !.suspend = TRUE, !.required = FALSE, !.reply = "none",
                                    !.expected = 0, !.ready = FALSE, !.acked = 0],
                        Message("disconnect"))

-----------------------------------------------------------------------------
(* The host grants the oldest edit session of a context. *)

Applied(s, x) ==
    { CompleteKey([SetComposition(s, c) EXCEPT !.applied = Append(@, x.key)], x.key) :
        c \in {NoCtx, IF Composing(s) THEN s.comp ELSE x.ctx} }

(* CKeyHandlerEditSession.  A commit whose reply does not come resets the  *)
(* transport.                                                              *)
RunKey(s, x) ==
    IF \/ ~ s.offline /\ ~ FocusCurrent(s, x.focus, x.ctx)
       \/ x.epoch = "old"
    THEN {FailKey(s, x.key, "superseded")}
    ELSE Applied(s, x)
         \cup {FailKey(s, x.key, "host")}
         \cup IF s.reply = "ok" \/ s.offline THEN {}
              ELSE {FailKey(RequestReconnect(s), x.key, "transport")}

(* CDeferredApplicationTextEditSession: it also asks whether its key is    *)
(* still the one in flight.                                                *)
RunText(s, x) ==
    IF s.flight = x.key /\ s.flightCtx = x.ctx /\ (s.offline \/ FocusCurrent(s, x.focus, x.ctx))
    THEN { CompleteKey([s EXCEPT !.applied = Append(@, x.key)], x.key),
           FailKey(s, x.key, "host") }
    ELSE {FailKey(s, x.key, "superseded")}

(* The cancel of a reset: it may fail in the handler. *)
RunReset(s, x) ==
    IF ~ (s.queued = x.key /\ s.pending /\ s.resetToken = x.key) THEN CompleteReset(s, x.key)
    ELSE CompleteReset(SetComposition(s, NoCtx), x.key)
         \cup IF s.troubles < MaxTroubles THEN CompleteReset([s EXCEPT !.troubles = @ + 1], x.key)
              ELSE {}

Grant ==
    \E i \in DOMAIN ime.sessions :
        LET x == ime.sessions[i]
            s == [ime EXCEPT !.sessions = RemoveAt(@, i)]
        IN  /\ \A j \in 1..(i-1) : ime.sessions[j].ctx # x.ctx
            /\ Become(CASE x.kind = "key"   -> RunKey(s, x)
                        [] x.kind = "text"  -> RunText(s, x)
                        [] x.kind = "reset" -> RunReset(s, x))

-----------------------------------------------------------------------------
(* The host moves focus. *)

MayMove == ime.troubles < MaxTroubles
Moved(s) == [s EXCEPT !.troubles = @ + 1]

(* A focus session begins.  A composition found alive is kept and belongs  *)
(* to the new session from now on: no reset cancels it, although the       *)
(* server begins the session with nothing composed.                        *)
NewSession(s) ==
    LET kept == Composing(s) /\ ~ s.pending /\ ~ s.offline
    IN  Post(RequireActivation(
               [s EXCEPT !.connected = TRUE,
                         !.origin = IF kept THEN s.minted + 1 ELSE @]),
             Message("connect"))

(* ITfThreadMgrEventSink::OnSetFocus with a document, the focused one     *)
(* included.  A return from TextInputHost (Win+.) begins a new             *)
(* session though the client is connected; hosted is the host's word for   *)
(* it (_focusLostToWindowsTextInputHost, or its window is in front).       *)
FocusDocument(d, hosted) ==
    LET away == [ime EXCEPT !.top = ime.tops[d]]
        free == ime.top = NoCtx /\ ~ hosted
        s == IF free THEN away ELSE Moved(away)
        r == IF Composing(s) /\ DocOf[s.comp] # d /\ ~ s.pending
             THEN ResetAfterFailure(s, "resync") ELSE s
        q == [r EXCEPT !.lossTimer = FALSE]
    IN  /\ free \/ MayMove
        /\ ime' = IF q.connected /\ ~ hosted THEN q ELSE NewSession(q)

(* ITfKeyEventSink::OnSetFocus in the foreground: keys may come before the *)
(* document does.                                                          *)
KeyFocus ==
    /\ MayMove /\ ~ ime.connected
    /\ ime' = NewSession(Moved(ime))

(* OnSetFocus without a document: the loss is deferred. *)
FocusNothing ==
    /\ MayMove /\ ime.top # NoCtx
    /\ ime' = [Moved(ime) EXCEPT !.top = NoCtx, !.lossTimer = @ \/ ime.connected]

(* OnPushContext, OnPopContext: another context of the focused document. *)
StackChange(c) ==
    /\ MayMove /\ ime.top # NoCtx
    /\ c # ime.top /\ DocOf[c] = DocOf[ime.top]
    /\ LET s == Moved([ime EXCEPT !.top = c, !.tops[DocOf[c]] = c])
           r == MarkDirty(Clear(s))
       IN  Become(RequestReset(r, IF Composing(ime) THEN ime.comp ELSE ime.top, r.resetToken))

(* OnEndEdit: the composition on screen has lost its property. *)
CompositionLost ==
    /\ MayMove /\ Composing(ime) /\ ~ ime.pending /\ ime.connected
    /\ ime' = ResetAfterFailure(Moved(ime), "resync")

(* OnCompositionTerminated: the host ends the composition, text and all. *)
HostEnds ==
    /\ MayMove /\ Composing(ime)
    /\ LET s == SetComposition(Moved(ime), NoCtx)
       IN  Become(IF s.connected THEN { e.st : e \in SendPacket(s) } ELSE {s})

-----------------------------------------------------------------------------
(* The worker thread and the server. *)

(* FocusSessionReady is compared ... *)
ReadEcho ==
    /\ ime.checked = 0 /\ ime.echoes # <<>> /\ ime.published
    /\ ime' = [ime EXCEPT !.echoes = Tail(@),
                          !.checked = IF Head(ime.echoes) = ime.expected THEN ime.expected ELSE 0]

(* ... and stored: the token may have been replaced in between. *)
StoreAck ==
    /\ ime.checked # 0
    /\ ime' = [ime EXCEPT !.acked = ime.checked, !.ready = TRUE, !.checked = 0]

NoticeLoss ==
    /\ ime.worker = "dead" /\ ime.published
    /\ ime' = Noticed(ime)

Dead(pipe) == IF pipe = "ok" THEN "dead" ELSE pipe

ServerDies ==
    /\ ime.server /\ ime.troubles < MaxTroubles
    /\ ime' = [ime EXCEPT !.server = FALSE, !.troubles = @ + 1,
                          !.reply = Dead(@), !.worker = Dead(@), !.main = Dead(@)]

ServerStarts == ~ ime.server /\ ime' = [ime EXCEPT !.server = TRUE]

Type == KeyHealthy \/ KeyDeferred \/ KeyRefused

Host ==
    \/ \E d \in Documents, hosted \in BOOLEAN : FocusDocument(d, hosted)
    \/ \E c \in Contexts : StackChange(c)
    \/ KeyFocus \/ FocusNothing \/ CompositionLost \/ HostEnds

Worker == ReadEcho \/ StoreAck \/ NoticeLoss

Next ==
    \/ Type \/ Pump \/ Retry \/ LoseFocus \/ Grant \/ Host \/ Worker
    \/ ServerDies \/ ServerStarts

(* The thread pumps its messages, the timer comes back, the host grants    *)
(* what it has accepted, a server that died is started again (the client   *)
(* itself launches one, NoteFailure).  Nothing is asked of the worker      *)
(* thread or of the host's focus.  The first three are WF_vars of their    *)
(* action with ENABLED <<A>>_vars written out: A is enabled, and the       *)
(* handler does not leave the state as it is.  A posted message is always  *)
(* consumed, a granted session gone.                                       *)
Fairness ==
    /\ []<>(ime.mail = <<>>) \/ []<><<Pump>>_vars
    /\ []<>(~ RetryDue \/ OnRetry(ime) = {ime}) \/ []<><<Retry>>_vars
    /\ []<>(ime.sessions = <<>>) \/ []<><<Grant>>_vars
    /\ WF_vars(ServerStarts)

Spec == Init /\ [][Next]_vars
FairSpec == Spec /\ Fairness

-----------------------------------------------------------------------------
(* Properties. *)

PipeState == {"none", "ok", "dead"}
Kinds == {"drain", "connect", "disconnect", "reconnect", "dirty", "lost", "async"}
Queueds == [key : Keys, kind : {"key", "text"}, ctx : Contexts]
Requests == [key : Keys, focus : Nat, epoch : {"current", "old"}]
Sessions == [kind : {"key", "text", "reset"}, key : Nat, ctx : Contexts, focus : Nat,
             epoch : {"any", "current", "old"}]

(* The record has its type, the queue its capacity, every pending request  *)
(* a key of its own; the key in flight and its context come and go         *)
(* together.                                                               *)
TypeOK ==
    /\ ime.fifo \in Seq(Queueds) /\ ime.flight \in {NoKey} \cup Keys
    /\ ime.flightCtx \in Contexts \cup {NoCtx}
    /\ ime.flight = NoKey <=> ime.flightCtx = NoCtx
    /\ Len(ime.fifo) + (IF ime.flight = NoKey THEN 0 ELSE 1) <= MaxQueue
    /\ {ime.posted, ime.proj, ime.offline, ime.connected, ime.lossTimer, ime.retry,
        ime.ready, ime.required, ime.suspend, ime.pending, ime.published, ime.server}
       \subseteq BOOLEAN
    /\ ime.asyncs \subseteq Requests
    /\ \A x, y \in ime.asyncs : x.key = y.key => x = y
    /\ ime.sessions \in Seq(Sessions)
    /\ {ime.comp, ime.top} \subseteq Contexts \cup {NoCtx}
    /\ \A d \in Documents : DocOf[ime.tops[d]] = d
    /\ ime.top # NoCtx => ime.top = ime.tops[DocOf[ime.top]]
    /\ ime.origin \in Nat
    /\ ime.mail \in Seq([kind : Kinds, arg : Nat])
    /\ {ime.reply, ime.worker, ime.main} \subseteq PipeState
    /\ ime.echoes \in Seq(Nat \ {0})
    /\ ime.applied \in Seq(Keys) /\ ime.typed \in 0..MaxKeys
    /\ {ime.expected, ime.acked, ime.checked, ime.resetToken, ime.queued, ime.resync,
        ime.pipeGen, ime.minted} \subseteq Nat
    /\ ime.troubles \in 0..MaxTroubles

(* While the reset gate is closed every key waits behind it, so something  *)
(* is always on its way that will open it: the message of the very reset,  *)
(* a cancel the host holds, or an attempt to reconnect.                    *)
GateAttended ==
    ime.pending /\ ime.connected =>
        \/ ime.resetToken \in Inbox(ime, "dirty")
        \/ ime.queued # 0
        \/ ime.retry
        \/ Inbox(ime, "reconnect") \cup Inbox(ime, "connect") # {}

(* What is in flight is carried by exactly one edit session or one posted  *)
(* request that is still in the table, and the cancel of a reset by one    *)
(* session: nothing waits for a carrier that does not exist.               *)
FlightCarried ==
    LET Carriers(k, kinds) ==
            { i \in DOMAIN ime.sessions : ime.sessions[i].key = k /\ ime.sessions[i].kind \in kinds }
        posted == { x \in ime.asyncs : x.key \in Inbox(ime, "async") }
    IN  /\ ime.flight # NoKey =>
            \/ /\ \E i \in DOMAIN ime.sessions : Carriers(ime.flight, {"key", "text"}) = {i}
               /\ \A x \in posted : x.key # ime.flight
            \/ /\ \E x \in posted : x.key = ime.flight
               /\ Carriers(ime.flight, {"key", "text"}) = {}
        /\ ime.queued # 0 => Carriers(ime.queued, {"reset"}) # {}

(* The projection that makes keys wait is retired with the last of them:   *)
(* once the gate has opened and nothing is queued, the next key must take  *)
(* the healthy path again.                                                 *)
ProjectionRetired == ime.proj => Waiting(ime) # {} \/ ime.pending

(* Keys take effect in the order they were typed: when a key has been      *)
(* applied, no earlier one still waits.                                    *)
NoOvertaking ==
    \A i \in DOMAIN ime.applied : \A k \in Waiting(ime) : k > ime.applied[i]

(* Keys are sent to the server into a composition of the session they are  *)
(* sent under: it was begun under that session's token, or it is the one   *)
(* OnSetFocus found alive and handed over to the session it began          *)
(* (NewSession).  Whatever else replaces the token, a broken pipe, a       *)
(* reopened endpoint, a failed write, closes the reset gate, and it opens  *)
(* when that composition is gone.                                          *)
SessionOwnsComposition ==
    ~ ime.offline /\ Composing(ime) /\ FocusCurrent(ime, ime.expected, NoCtx) =>
        ime.origin = ime.expected

(* Every eaten key settles, applied or dropped, or the client loses focus, *)
(* in whatever order focus moves and whenever the server dies.  Without a  *)
(* server to come back it would not hold: a drain that finds the client    *)
(* without focus is spent, and the retry timer posts another only when it  *)
(* reaches a server (WindowProc.cpp:460), whatever the offline lane.       *)
(* As a leads-to from Waiting(ime) # {} it says the same.                  *)
KeysSettle == []<>(Waiting(ime) = {} \/ ~ ime.connected)

Resting ==
    /\ ime.mail = <<>> /\ ime.sessions = <<>> /\ Waiting(ime) = {}
    /\ ~ ime.retry /\ ~ ime.lossTimer

(* The offline lane lasts "until its composition has been finalized"       *)
(* (KeyEventSink_DeferredKeys.cpp:1029): with the session established and  *)
(* nothing composing, the lane is left.                                    *)
OfflineLaneEnds ==
    Resting /\ ~ Composing(ime) /\ FocusCurrent(ime, ime.expected, NoCtx) => ~ ime.offline
=============================================================================
