---------------------------- MODULE RescoreWorker ----------------------------
(***************************************************************************)
(* The background rescoring of whole-sentence candidates.                  *)
(*                                                                         *)
(* A look-up that finds no order for its batch of candidates queues the    *)
(* batch and goes on with the static order; one of the execution slots     *)
(* scores it, stores the order and calls back, and the look-up is made     *)
(* again.  Each model has one pending job, the newest, and at most one     *)
(* running job.  Slots sleep on wake_, shutdown sleeps on idle_: who       *)
(* sleeps and who has been notified is part of the state, because a        *)
(* notification nobody waits for is lost.                                  *)
(* engine/neural/rescore_worker.cpp                                        *)
(***************************************************************************)
EXTENDS Integers, FiniteSets

CONSTANTS
    Models,       \* sentence models
    Keys,         \* batches of candidates with their context
    ModelOf,      \* the model a key begins with
    Slots,        \* execution slots (kWorkerCount threads)
    MaxResults,   \* kMaxResults
    MaxCallers,   \* bound: callers of order_for between unlock and notify_one
    NoKey

ASSUME KeysAssumption == ModelOf \in [Keys -> Models] /\ NoKey \notin Keys
ASSUME SlotsAssumption == IsFiniteSet(Slots)
ASSUME BoundsAssumption == MaxResults \in Nat /\ MaxCallers \in Nat

VARIABLES
    started,   \* threads_started_
    stopping,  \* stopping_
    pending,   \* pending_, the key of each model's job
    active,    \* active_keys_
    busy,      \* busy_workers_
    done,      \* the keys of done_
    ready,     \* ready_ is set
    slot,      \* what each execution slot does, and its local job.key
    notices,   \* callers that have queued a job and not notified yet
    stopper,   \* the thread in shutdown()
    queued,    \* history: each model's newest queued key nobody has scored
    relied     \* history: keys refused because they are being computed

vars == <<started, stopping, pending, active, busy, done, ready, slot,
          notices, stopper, queued, relied>>

Working ==
    { "score",      \* outside the lock, in rerank_order
      "call",       \* outside the lock, in the callback
      "release" }   \* about to give the slot back

SlotPcs == Working \cup
    { "none",       \* no thread yet
      "asleep",     \* in wake_.wait, not notified
      "awake",      \* about to take the lock and look
      "notify",     \* about to notify wake_ and idle_
      "exited" }

Slot == { x \in [pc : SlotPcs, key : Keys \cup {NoKey}] :
            (x.pc \in Working) <=> (x.key # NoKey) }

Idle(pc) == [pc |-> pc, key |-> NoKey]

TypeOK ==
    /\ started \in BOOLEAN /\ stopping \in BOOLEAN /\ ready \in BOOLEAN
    /\ pending \in [Models -> Keys \cup {NoKey}]
    /\ active \in [Models -> Keys \cup {NoKey}]
    /\ \A m \in Models : pending[m] # NoKey => ModelOf[pending[m]] = m
    /\ \A m \in Models : active[m] # NoKey => ModelOf[active[m]] = m
    /\ \A m \in Models : queued[m] # NoKey => ModelOf[queued[m]] = m
    /\ busy \in Nat
    /\ done \subseteq Keys
    /\ slot \in [Slots -> Slot]
    /\ notices \in 0..MaxCallers
    /\ stopper \in {"no", "asleep", "awake", "returned"}
    /\ queued \in [Models -> Keys \cup {NoKey}]
    /\ relied \subseteq Keys

NoJobs == [m \in Models |-> NoKey]

Init ==
    /\ started = FALSE /\ stopping = FALSE /\ ready = FALSE
    /\ pending = NoJobs
    /\ active = NoJobs
    /\ busy = 0
    /\ done = {}
    /\ slot = [s \in Slots |-> Idle("none")]
    /\ notices = 0
    /\ stopper = "no"
    /\ queued = NoJobs
    /\ relied = {}

-----------------------------------------------------------------------------
(* The callers' side. *)

(* std::notify_all on wake_. *)
AllWoken == [s \in Slots |-> IF slot[s].pc = "asleep" THEN Idle("awake") ELSE slot[s]]

(* ensure_threads *)
StartedThreads ==
    IF started THEN slot ELSE [s \in Slots |-> Idle("awake")]

(* set_ready_callback looks at nothing.  That it is not called once         *)
(* shutdown has begun is its caller's doing: the server sets the callback   *)
(* when it starts (main.cpp:182), on the thread that later ends the process *)
(* and runs shutdown from atexit (line 115).                                *)
SetReady ==
    /\ ~ stopping
    /\ ready' \in BOOLEAN
    /\ UNCHANGED <<started, stopping, pending, active, busy, done, slot,
                   notices, stopper, queued, relied>>

(* What was stored and queued means nothing any more: committed text, a    *)
(* new scheme, a new context.                                              *)
Clear ==
    /\ done' = {}
    /\ pending' = NoJobs
    /\ queued' = [m \in Models |-> IF queued[m] = pending[m] THEN NoKey ELSE queued[m]]
    /\ UNCHANGED <<started, stopping, active, busy, ready, slot, notices,
                   stopper, relied>>

(* Faulty variant: the pending job is dropped with the look-up. *)
AskRunningUnqueues(k) ==
    /\ ~ stopping
    /\ k \notin done
    /\ active[ModelOf[k]] = k
    /\ relied' = relied \cup {k}
    /\ pending' = [pending EXCEPT ![ModelOf[k]] = NoKey]
    /\ UNCHANGED <<started, stopping, active, busy, done, ready, slot,
                   notices, stopper, queued>>

(* order_for, when the very batch is being computed: nothing is queued and *)
(* the pending job, which may be newer, is left alone.                     *)
AskRunning(k) ==
    /\ ~ stopping
    /\ k \notin done
    /\ active[ModelOf[k]] = k
    /\ relied' = relied \cup {k}
    /\ UNCHANGED <<started, stopping, pending, active, busy, done, ready, slot,
                   notices, stopper, queued>>

(* Queue k in place of its model's pending job, and start the threads. *)
Queue(k) ==
    /\ pending' = [pending EXCEPT ![ModelOf[k]] = k]
    /\ queued' = [queued EXCEPT ![ModelOf[k]] = k]
    /\ slot' = StartedThreads
    /\ started' = TRUE
    /\ UNCHANGED <<stopping, active, busy, done, ready, stopper, relied>>

(* Faulty variant: no slot is notified. *)
AskAnewSilently(k) ==
    /\ ~ stopping
    /\ k \notin done
    /\ active[ModelOf[k]] # k
    /\ Queue(k)
    /\ UNCHANGED notices

(* order_for, when there is neither a result nor a run. *)
AskAnew(k) ==
    /\ ~ stopping
    /\ k \notin done
    /\ active[ModelOf[k]] # k
    /\ notices < MaxCallers
    /\ Queue(k)
    /\ notices' = notices + 1

(* Outside the lock: wake_.notify_one wakes one sleeper, if there is any.  *)
NotifyOne ==
    /\ notices > 0
    /\ notices' = notices - 1
    /\ IF \E s \in Slots : slot[s].pc = "asleep"
         THEN \E s \in Slots : /\ slot[s].pc = "asleep"
                               /\ slot' = [slot EXCEPT ![s] = Idle("awake")]
         ELSE UNCHANGED slot
    /\ UNCHANGED <<started, stopping, pending, active, busy, done, ready,
                   stopper, queued, relied>>

(* Faulty variant: the callback stays set. *)
ShutdownKeepsReady ==
    /\ started
    /\ stopper = "no"
    /\ stopping' = TRUE
    /\ pending' = NoJobs
    /\ queued' = NoJobs
    /\ relied' = {}
    /\ slot' = AllWoken
    /\ stopper' = IF busy = 0 THEN "returned" ELSE "asleep"
    /\ UNCHANGED <<started, active, busy, done, ready, notices>>

(* shutdown(), up to its wait: run by atexit, which ensure_threads armed.  *)
Shutdown ==
    /\ started
    /\ stopper = "no"
    /\ stopping' = TRUE
    /\ ready' = FALSE
    /\ pending' = NoJobs
    /\ queued' = NoJobs
    /\ relied' = {}
    /\ slot' = AllWoken
    /\ stopper' = IF busy = 0 THEN "returned" ELSE "asleep"
    /\ UNCHANGED <<started, active, busy, done, notices>>

(* idle_.wait looks again after a notification. *)
ShutdownLooks ==
    /\ stopper = "awake"
    /\ stopper' = IF busy = 0 THEN "returned" ELSE "asleep"
    /\ UNCHANGED <<started, stopping, pending, active, busy, done, ready, slot,
                   notices, queued, relied>>

-----------------------------------------------------------------------------
(* The execution slots: run(). *)

(* A model has a job waiting and none running. *)
Eligible(m) == pending[m] # NoKey /\ active[m] = NoKey

(* No work and no reason to stop: sleep on wake_. *)
Sleep(s) ==
    /\ slot[s].pc = "awake"
    /\ ~ stopping
    /\ \A m \in Models : ~ Eligible(m)
    /\ slot' = [slot EXCEPT ![s] = Idle("asleep")]
    /\ UNCHANGED <<started, stopping, pending, active, busy, done, ready,
                   notices, stopper, queued, relied>>

(* The standard allows a wait to end without a notification. *)
WakeSpuriously(s) ==
    /\ slot[s].pc = "asleep"
    /\ slot' = [slot EXCEPT ![s] = Idle("awake")]
    /\ UNCHANGED <<started, stopping, pending, active, busy, done, ready,
                   notices, stopper, queued, relied>>

Exit(s) ==
    /\ slot[s].pc = "awake"
    /\ stopping
    /\ slot' = [slot EXCEPT ![s] = Idle("exited")]
    /\ UNCHANGED <<started, stopping, pending, active, busy, done, ready,
                   notices, stopper, queued, relied>>

(* Take a job: the three lines between pending_.erase and ++busy_workers_. *)
Take(s, m) ==
    /\ slot[s].pc = "awake"
    /\ ~ stopping
    /\ Eligible(m)
    /\ slot' = [slot EXCEPT ![s] = [pc |-> "score", key |-> pending[m]]]
    /\ active' = [active EXCEPT ![m] = pending[m]]
    /\ pending' = [pending EXCEPT ![m] = NoKey]
    /\ busy' = busy + 1
    /\ UNCHANGED <<started, stopping, done, ready, notices, stopper, queued,
                   relied>>

(* Faulty variant: the credential is set before the line that throws. *)
TakeFailsCounted(s, m) ==
    /\ slot[s].pc = "awake"
    /\ ~ stopping
    /\ Eligible(m)
    /\ slot' = [slot EXCEPT ![s] = [pc |-> "release", key |-> pending[m]]]
    /\ queued' = [queued EXCEPT ![m] = NoKey]
    /\ pending' = [pending EXCEPT ![m] = NoKey]
    /\ UNCHANGED <<started, stopping, active, busy, done, ready, notices,
                   stopper, relied>>

(* active_keys_.emplace throws bad_alloc: the job is gone, and the slot    *)
(* was never counted.                                                      *)
TakeFails(s, m) ==
    /\ slot[s].pc = "awake"
    /\ ~ stopping
    /\ Eligible(m)
    /\ slot' = [slot EXCEPT ![s] = Idle("notify")]
    /\ queued' = [queued EXCEPT ![m] = NoKey]
    /\ pending' = [pending EXCEPT ![m] = NoKey]
    /\ UNCHANGED <<started, stopping, active, busy, done, ready, notices,
                   stopper, relied>>

(* A run has an outcome, a result or none: who waited for it waits no more. *)
Answered(k) ==
    /\ queued' = [queued EXCEPT ![ModelOf[k]] = IF @ = k THEN NoKey ELSE @]
    /\ relied' = relied \ {k}

(* rerank_order returned: the order is stored, the whole table dropped     *)
(* first when it is full, and the callback copied under the lock.          *)
Publish(s) ==
    /\ slot[s].pc = "score"
    /\ done' = (IF Cardinality(done) >= MaxResults THEN {} ELSE done)
                 \cup {slot[s].key}
    /\ slot' = [slot EXCEPT ![s].pc = IF ready THEN "call" ELSE "release"]
    /\ Answered(slot[s].key)
    /\ UNCHANGED <<started, stopping, pending, active, busy, ready, notices,
                   stopper>>

(* Faulty variant: the release is skipped by the exception. *)
ScoreThrowsPast(s) ==
    /\ slot[s].pc = "score"
    /\ slot' = [slot EXCEPT ![s] = Idle("notify")]
    /\ Answered(slot[s].key)
    /\ UNCHANGED <<started, stopping, pending, active, busy, done, ready,
                   notices, stopper>>

(* rerank_order threw: no result, and by intent no callback. *)
ScoreThrows(s) ==
    /\ slot[s].pc = "score"
    /\ slot' = [slot EXCEPT ![s].pc = "release"]
    /\ Answered(slot[s].key)
    /\ UNCHANGED <<started, stopping, pending, active, busy, done, ready,
                   notices, stopper>>

(* The callback returns or throws: both are swallowed. *)
CallbackEnds(s) ==
    /\ slot[s].pc = "call"
    /\ slot' = [slot EXCEPT ![s].pc = "release"]
    /\ UNCHANGED <<started, stopping, pending, active, busy, done, ready,
                   notices, stopper, queued, relied>>

Release(s) ==
    /\ slot[s].pc = "release"
    /\ active' = [active EXCEPT ![ModelOf[slot[s].key]] = NoKey]
    /\ busy' = busy - 1
    /\ slot' = [slot EXCEPT ![s] = Idle("notify")]
    /\ UNCHANGED <<started, stopping, pending, done, ready, notices, stopper,
                   queued, relied>>

(* Outside the lock: both condition variables, everyone. *)
NotifyAll(s) ==
    /\ slot[s].pc = "notify"
    /\ slot' = [AllWoken EXCEPT ![s] = Idle("awake")]
    /\ stopper' = IF stopper = "asleep" THEN "awake" ELSE stopper
    /\ UNCHANGED <<started, stopping, pending, active, busy, done, ready,
                   notices, queued, relied>>

-----------------------------------------------------------------------------
Call ==
    \/ SetReady
    \/ \E k \in Keys : AskRunning(k) \/ AskAnew(k)
    \/ NotifyOne
    \/ Shutdown
    \/ ShutdownLooks

Run(s) ==
    \/ Sleep(s)
    \/ WakeSpuriously(s)
    \/ Exit(s)
    \/ \E m \in Models : Take(s, m)
    \/ Publish(s)
    \/ CallbackEnds(s)
    \/ Release(s)
    \/ NotifyAll(s)

Fault(s) == ScoreThrows(s) \/ \E m \in Models : TakeFails(s, m)

Next == Call \/ Clear \/ \E s \in Slots : Run(s) \/ Fault(s)

Spec == Init /\ [][Next]_vars

(* The server, which never calls clear(), while nothing throws. *)
SmoothSpec == Init /\ [][Call \/ \E s \in Slots : Run(s)]_vars

SlotStep(s) ==
    \/ Sleep(s)
    \/ Exit(s)
    \/ \E m \in Models : Take(s, m)
    \/ Publish(s)
    \/ CallbackEnds(s)
    \/ Release(s)
    \/ NotifyAll(s)

(* The threads are scheduled, scoring and callbacks end, and a caller that *)
(* has left the lock notifies.  Nothing makes a user type, or a sleeper    *)
(* wake up without a notification.                                         *)
Fairness ==
    /\ \A s \in Slots : WF_vars(SlotStep(s))
    /\ WF_vars(NotifyOne)
    /\ WF_vars(ShutdownLooks)

FairSpec == Spec /\ Fairness

-----------------------------------------------------------------------------
(* The credential of a slot: busy_workers_ counts the slots that hold a    *)
(* job, and the table of running keys names each of those jobs once, on    *)
(* every path through run(), the throwing ones included.                   *)
SlotAccount ==
    /\ busy = Cardinality({s \in Slots : slot[s].pc \in Working})
    /\ \A s \in Slots :
         slot[s].pc \in Working => active[ModelOf[slot[s].key]] = slot[s].key
    /\ \A m \in Models :
         active[m] # NoKey =>
           \E s \in Slots : slot[s].pc \in Working /\ slot[s].key = active[m]
    /\ \A s, t \in Slots :
         slot[s].pc \in Working /\ slot[s].key = slot[t].key => s = t

(* A batch is never queued while it is being computed, and a batch that    *)
(* waits or is being scored has no result yet: the same batch is not       *)
(* scored twice for one result ("两张表不可能记着同一个模型同一批",        *)
(* rescore_worker.cpp, run; rescore_worker.h).                             *)
NoWastedWork ==
    /\ \A m \in Models :
         pending[m] # NoKey => pending[m] # active[m] /\ pending[m] \notin done
    /\ \A s \in Slots : slot[s].pc = "score" => slot[s].key \notin done

(* The newest request of a model that was queued stays queued until a slot *)
(* has it, and then until that slot has its outcome: no look-up for another *)
(* batch, no other model and no failing slot takes it away.                *)
QueuedKept ==
    \A m \in Models :
      queued[m] # NoKey =>
        \/ pending[m] = queued[m]
        \/ \E s \in Slots : slot[s] = [pc |-> "score", key |-> queued[m]]

(* When shutdown() has returned no slot touches a model or the callback's  *)
(* target, which are destroyed next.                                       *)
QuietAfterShutdown ==
    stopper = "returned" => \A s \in Slots : slot[s].pc \notin Working

(* From the moment shutdown() has the lock no callback begins.             *)
NoLateCallback ==
    [][stopping => \A s \in Slots : slot[s].pc # "call" => slot'[s].pc # "call"]_vars

(* When the user rests, everything queued is scored or lost to a failing   *)
(* allocation: no notification is lost between a caller that notifies one  *)
(* slot, a slot that looked too early and a slot that gives a model back.  *)
UserRests == <>[][ \A k \in Keys : ~ AskAnew(k) ]_vars
PendingServed == UserRests => <>[](\A m \in Models : pending[m] = NoKey)

(* shutdown() returns, whatever throws: it does not wait for a thread that *)
(* is gone, nor for a notification already sent.                           *)
ShutdownReturns == (stopper # "no") ~> (stopper = "returned")

(* "it will enter the table and call back by itself when it is done, so    *)
(* there is no need to queue another" (order_for, on a batch that is being *)
(* computed): the run a caller was told to rely on is still to publish.    *)
RelianceSound ==
    \A k \in relied : \E s \in Slots : slot[s] = [pc |-> "score", key |-> k]
=============================================================================
