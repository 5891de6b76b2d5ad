----------------------- MODULE WindowActivationProofs -----------------------
(***************************************************************************)
(* Theorems about WindowActivation, for any clients and any number of      *)
(* changes of the route.                                                   *)
(***************************************************************************)
EXTENDS WindowActivation, SequenceTheorems, TLAPS

Messages == {"WM_IMEACTIVATE", "WM_IMEDEACTIVATE"}

(* The Booleans and the rest of TypeOK, apart for the provers.             *)
Flags == terminal \in BOOLEAN /\ deferred \in BOOLEAN /\ imeActive \in BOOLEAN

Types ==
    /\ route \in RouteType
    /\ pending \in [Clients -> Task \cup {NoTask}]
    /\ queue \in Seq(Task)
    /\ worker \in [pc : WorkerPcs, task : Task \cup {NoTask}]
    /\ ui \in UiPcs
    /\ mailbox \in Seq(Messages)
    /\ ui = "create" => mailbox = <<>>

LEMMA TypeParts == TypeOK <=> Types /\ Flags
BY DEF TypeOK, Types, Flags, Messages

LEMMA RouteOps ==
    ASSUME NEW r \in RouteType, NEW c \in Clients
    PROVE  Activated(r, c) \in RouteType /\ Deactivated(r, c) \in RouteType
BY DEF RouteType, Activated, Deactivated, Released

LEMMA OwesTypes ==
    ASSUME Types, NEW c \in Clients, NEW type \in TaskTypes, NEW e \in Nat \ {0},
           Owes(c, type, e)
    PROVE  pending' \in [Clients -> Task \cup {NoTask}]
<1>1. [type |-> type, client |-> c, epoch |-> e] \in Task
  BY DEF Task
<1> QED
  BY <1>1 DEF Types, Owes

LEMMA ClientTypes ==
    ASSUME Types, NEW c \in Clients,
           \/ Activate(c)
           \/ Suspend(c)
           \/ Deactivate(c)
           \/ Enqueue(c)
    PROVE  Types'
<1>1. route' \in RouteType
  BY RouteOps DEF Types, Activate, Suspend, Deactivate, Enqueue
<1>2. route'.epoch \in Nat \ {0}
  BY <1>1 DEF RouteType
<1>3. CASE Activate(c) \/ Suspend(c) \/ Deactivate(c)
  <2>1. pending' \in [Clients -> Task \cup {NoTask}]
    BY <1>2, <1>3, OwesTypes DEF Activate, Suspend, Deactivate, TaskTypes
  <2> QED
    BY <1>1, <1>3, <2>1 DEF Types, Activate, Suspend, Deactivate
<1>4. CASE Enqueue(c)
  <2>1. pending[c] \in Task
    BY <1>4 DEF Types, Enqueue
  <2>2. queue' \in Seq(Task) /\ pending' \in [Clients -> Task \cup {NoTask}]
    BY <1>4, <2>1 DEF Types, Enqueue
  <2> QED
    BY <1>4, <2>2 DEF Types, Enqueue
<1> QED
  BY <1>3, <1>4

LEMMA PostTypes ==
    ASSUME Types, NEW m \in Messages, Post(m)
    PROVE  mailbox' \in Seq(Messages) /\ mailbox' # <<>>
BY DEF Types, Post

LEMMA Worker ==
    /\ NoTask \notin Task
    /\ [pc |-> "idle", task |-> NoTask] \in [pc : WorkerPcs, task : Task \cup {NoTask}]
BY DEF NoTask, Task, TaskTypes, WorkerPcs

LEMMA WorkerTypes ==
    ASSUME Types, WorkerStep
    PROVE  Types'
<1>1. CASE Take
  <2>1. queue' \in Seq(Task) /\ Head(queue) \in Task
    BY <1>1 DEF Types, Take
  <2>2. worker' \in [pc : WorkerPcs, task : Task \cup {NoTask}]
    BY <1>1, <2>1 DEF Types, Take, WorkerPcs
  <2> QED
    BY <1>1, <2>1, <2>2 DEF Types, Take
<1>2. CASE RunActivated
  <2>1. worker' \in [pc : WorkerPcs, task : Task \cup {NoTask}]
    BY <1>2, Worker DEF Types, RunActivated, WorkerDone, WorkerPcs
  <2>2. mailbox' \in Seq(Messages) /\ (ui = "create" => mailbox' = mailbox)
    BY <1>2, PostTypes DEF Types, RunActivated, HasWindow, Messages
  <2> QED
    BY <1>2, <2>1, <2>2 DEF Types, RunActivated
<1>3. CASE Defer \/ RunSuspended
  BY <1>3, Worker DEF Types, Defer, RunSuspended, WorkerDone
<1>4. CASE RunDeactivated
  BY <1>4 DEF Types, RunDeactivated, WorkerPcs
<1>5. CASE PostDeactivated
  <2>1. mailbox' \in Seq(Messages) /\ (ui = "create" => mailbox' = mailbox)
    BY <1>5, PostTypes DEF Types, PostDeactivated, HasWindow, Messages
  <2> QED
    BY <1>5, <2>1, Worker DEF Types, PostDeactivated, WorkerDone
<1> QED
  BY <1>1, <1>2, <1>3, <1>4, <1>5 DEF WorkerStep

LEMMA UiTypes ==
    ASSUME Types, UiStep \/ Reapply
    PROVE  Types'
<1>1. CASE PublishWindow \/ ExchangeDeferred \/ Startup \/ Reapply
  BY <1>1 DEF Types, PublishWindow, ExchangeDeferred, Startup, Reapply, UiPcs
<1>2. CASE Replay
  <2>1. mailbox' \in Seq(Messages)
    BY <1>2, PostTypes DEF Replay, Messages
  <2> QED
    BY <1>2, <2>1 DEF Types, Replay, UiPcs
<1>3. CASE HandleMessage
  <2>1. mailbox' \in Seq(Messages)
    BY <1>3 DEF Types, HandleMessage
  <2> QED
    BY <1>3, <2>1 DEF Types, HandleMessage
<1> QED
  BY <1>1, <1>2, <1>3 DEF UiStep

LEMMA FlagsStep ==
    ASSUME Flags, Next
    PROVE  Flags'
BY DEF Flags, Next, Activate, Suspend, Deactivate, Enqueue, WorkerStep, Take,
       RunActivated, Defer, RunDeactivated, PostDeactivated, RunSuspended, UiStep,
       PublishWindow, ExchangeDeferred, Replay, Startup, HandleMessage, Reapply, Apply

LEMMA TypesStep ==
    ASSUME Types, Next
    PROVE  Types'
BY ClientTypes, WorkerTypes, UiTypes DEF Next

-----------------------------------------------------------------------------
(* The activation of the route, as a task. *)

Current(task) == task.type = "ClientActivated" /\ IsCurrent(task)

(* A reader, the queue or the worker still has it to deliver.              *)
OnItsWay ==
    \/ \E c \in Clients : Current(pending[c])
    \/ \E i \in 1 .. Len(queue) : Current(queue[i])
    \/ worker.pc = "run" /\ Current(worker.task)

(* Once the windows exist, a toolbar that is down for an active client has  *)
(* a message or the activation itself to come.                             *)
Owed ==
    (ui = "loop" /\ mailbox = <<>> /\ route.active # NoClient /\ ~ imeActive)
      => OnItsWay

LEMMA OwedIsKept == ASSUME Owed PROVE ActivationKept
BY DEF Owed, OnItsWay, ActivationKept, Settled, Current, NoTask

LEMMA OwedByClients ==
    ASSUME Types, Owed, NEW c \in Clients,
           \/ Activate(c)
           \/ Suspend(c)
           \/ Deactivate(c)
           \/ Enqueue(c)
    PROVE  Owed'
<1>1. CASE Activate(c)
  <2> DEFINE t == [type |-> "ClientActivated", client |-> c, epoch |-> route'.epoch]
  <2>1. pending'[c] = t
    BY <1>1 DEF Activate, Owes, Types
  <2>2. route'.active = c
    BY <1>1 DEF Activate, Activated
  <2>3. Current(pending[c])'
    BY <2>1, <2>2 DEF Current, IsCurrent, Matches
  <2> QED
    BY <2>3 DEF Owed, OnItsWay
<1>2. CASE Suspend(c)
  <2>1. route'.active = NoClient
    BY <1>2 DEF Suspend, Deactivated, Released
  <2> QED
    BY <2>1 DEF Owed
<1>3. CASE Deactivate(c)
  <2>1. route'.active = NoClient
    BY <1>3 DEF Deactivate, Deactivated, Released, TerminalEpoch
  <2> QED
    BY <2>1 DEF Owed
<1>4. CASE Enqueue(c)
  <2>1. UNCHANGED <<route, worker, ui, mailbox, imeActive>>
    BY <1>4 DEF Enqueue
  <2>2. \A task : Current(task)' <=> Current(task)
    BY <2>1 DEF Current, IsCurrent
  <2>3. /\ queue' = Append(queue, pending[c]) /\ queue \in Seq(Task)
        /\ pending[c] \in Task
        /\ \A d \in Clients \ {c} : pending'[d] = pending[d]
    BY <1>4 DEF Enqueue, Types
  <2>4. ASSUME OnItsWay PROVE OnItsWay'
    <3>1. ASSUME NEW d \in Clients, Current(pending[d]) PROVE OnItsWay'
      <4>1. CASE d = c
        <5>1. Len(queue) + 1 \in 1 .. Len(queue') /\ queue'[Len(queue) + 1] = pending[c]
          BY <2>3
        <5>2. Current(queue'[Len(queue) + 1])
          BY <3>1, <4>1, <5>1
        <5> QED
          BY <2>1, <5>1, <5>2 DEF OnItsWay, Current, IsCurrent
      <4>2. CASE d # c
        BY <2>1, <2>3, <3>1, <4>2 DEF OnItsWay, Current, IsCurrent
      <4> QED
        BY <4>1, <4>2
    <3>2. ASSUME NEW i \in 1 .. Len(queue), Current(queue[i]) PROVE OnItsWay'
      <4>1. i \in 1 .. Len(queue') /\ queue'[i] = queue[i]
        BY <2>3
      <4> QED
        BY <2>1, <3>2, <4>1 DEF OnItsWay, Current, IsCurrent
    <3>3. ASSUME worker.pc = "run", Current(worker.task) PROVE OnItsWay'
      BY <2>1, <3>3 DEF OnItsWay, Current, IsCurrent
    <3> QED
      BY <2>4, <3>1, <3>2, <3>3 DEF OnItsWay
  <2> QED
    BY <2>1, <2>4 DEF Owed
<1> QED
  BY <1>1, <1>2, <1>3, <1>4

LEMMA OwedByWorker ==
    ASSUME Types, Owed, WorkerStep
    PROVE  Owed'
<1>1. UNCHANGED <<route, pending, ui, imeActive>>
  BY DEF WorkerStep, Take, RunActivated, Defer, RunDeactivated, PostDeactivated,
         RunSuspended
<1>2. ASSUME queue' = queue, ~ (worker.pc = "run" /\ Current(worker.task)),
             mailbox' = mailbox \/ mailbox' # <<>>
      PROVE  Owed'
  BY <1>1, <1>2 DEF Owed, OnItsWay, Current, IsCurrent
<1>3. CASE Take
  <2>1. /\ queue \in Seq(Task) /\ queue # <<>> /\ queue' = Tail(queue)
        /\ worker.pc = "idle" /\ mailbox' = mailbox
    BY <1>3 DEF Take, Types
  <2>2. ASSUME OnItsWay PROVE OnItsWay'
    <3>1. ASSUME NEW c \in Clients, Current(pending[c]) PROVE OnItsWay'
      BY <1>1, <3>1 DEF OnItsWay, Current, IsCurrent
    <3>2. ASSUME NEW i \in 1 .. Len(queue), Current(queue[i]) PROVE OnItsWay'
      <4>1. CASE i = 1
        <5>1. Head(queue) = queue[1]
          BY <2>1
        <5>2. IsCurrent(Head(queue)) /\ Current(Head(queue))
          BY <3>2, <4>1, <5>1 DEF Current
        <5>3. worker' = [pc |-> "run", task |-> Head(queue)]
          BY <1>3, <5>2 DEF Take
        <5> QED
          BY <1>1, <5>2, <5>3 DEF OnItsWay, Current, IsCurrent
      <4>2. CASE i # 1
        <5>1. i - 1 \in 1 .. Len(queue') /\ queue'[i - 1] = queue[i]
          BY <2>1, <4>2
        <5> QED
          BY <1>1, <3>2, <5>1 DEF OnItsWay, Current, IsCurrent
      <4> QED
        BY <4>1, <4>2
    <3> QED
      BY <2>1, <2>2, <3>1, <3>2 DEF OnItsWay
  <2> QED
    BY <1>1, <2>1, <2>2 DEF Owed
<1>4. CASE RunActivated
  <2>1. CASE ui = "loop"
    <3>1. mailbox' # <<>>
      BY <1>4, <2>1, PostTypes DEF RunActivated, HasWindow, Messages
    <3> QED
      BY <3>1 DEF Owed
  <2>2. CASE ui # "loop"
    BY <1>1, <2>2 DEF Owed
  <2> QED
    BY <2>1, <2>2
<1>5. CASE Defer
  BY <1>2, <1>5 DEF Defer
<1>6. CASE RunDeactivated \/ RunSuspended
  BY <1>2, <1>6 DEF RunDeactivated, RunSuspended, Current
<1>7. CASE PostDeactivated
  <2>1. mailbox' = mailbox \/ mailbox' # <<>>
    BY <1>7, PostTypes DEF PostDeactivated, Messages
  <2> QED
    BY <1>2, <1>7, <2>1 DEF PostDeactivated
<1> QED
  BY <1>3, <1>4, <1>5, <1>6, <1>7 DEF WorkerStep

LEMMA OwedByUi ==
    ASSUME Flags, UiStep \/ Reapply
    PROVE  Owed'
<1>1. CASE PublishWindow \/ ExchangeDeferred \/ Replay
  BY <1>1 DEF PublishWindow, ExchangeDeferred, Replay, Owed
<1>2. CASE Startup \/ HandleMessage \/ Reapply
  BY <1>2 DEF Startup, HandleMessage, Reapply, Apply, Owed
<1> QED
  BY <1>1, <1>2 DEF UiStep

-----------------------------------------------------------------------------
(* The inductive invariant.                                                *)
IInv == Types /\ Flags /\ Owed

LEMMA InitIInv == Init => IInv
<1> SUFFICES ASSUME Init PROVE IInv
  OBVIOUS
<1>1. Types
  BY ClientsAssumption, Worker
     DEF Init, Types, InitialRoute, RouteType, UiPcs, NoTask
<1>2. Flags /\ Owed
  BY DEF Init, Flags, Owed
<1> QED
  BY <1>1, <1>2 DEF IInv

LEMMA NextIInv == IInv /\ [Next]_vars => IInv'
<1> SUFFICES ASSUME IInv, [Next]_vars PROVE IInv'
  OBVIOUS
<1>1. Types /\ Flags /\ Owed
  BY DEF IInv
<1>2. CASE Next
  <2>1. Owed'
    BY <1>1, <1>2, OwedByClients, OwedByWorker, OwedByUi DEF Next
  <2> QED
    BY <1>1, <1>2, <2>1, TypesStep, FlagsStep DEF IInv
<1>3. CASE UNCHANGED vars
  <2>1. Types' /\ Flags'
    BY <1>1, <1>3 DEF Types, Flags, vars
  <2>2. Owed'
    BY <1>1, <1>3 DEF Owed, OnItsWay, Current, IsCurrent, vars
  <2> QED
    BY <2>1, <2>2 DEF IInv
<1> QED
  BY <1>2, <1>3

THEOREM Invariance == Spec => []IInv
BY InitIInv, NextIInv, PTL DEF Spec

(* Every variable has its type, and nothing is posted to the candidate      *)
(* window before it exists.                                                *)
THEOREM TypeCorrect == Spec => []TypeOK
<1>1. IInv => TypeOK
  BY TypeParts DEF IInv
<1> QED
  BY <1>1, Invariance, PTL

(* An activation that races the creation of the windows is not lost,        *)
(* whichever of the worker and the UI thread looks first and however many   *)
(* clients come and go meanwhile.                                          *)
THEOREM ActivationsAreKept == Spec => []ActivationKept
<1>1. IInv => ActivationKept
  BY OwedIsKept DEF IInv
<1> QED
  BY <1>1, Invariance, PTL
=============================================================================
