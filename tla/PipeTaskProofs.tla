-------------------------- MODULE PipeTaskProofs ---------------------------
(***************************************************************************)
(* ReplyFromOwnKeys and SettledState of PipeRouting, for any number of     *)
(* clients, connections and inputs.  A reader moves the route under the    *)
(* lock and enqueues after it; the staleness check and the task it admits  *)
(* are two steps.  What keeps the tasks in step with the route all the     *)
(* same is an order: the ClientActivated of an activation is enqueued      *)
(* before every key of it, and whatever the worker or the composition      *)
(* still holds of an earlier activation, that ClientActivated, or the end  *)
(* that emptied the route, is still to come and will clear it.             *)
(***************************************************************************)
EXTENDS PipeRoutingProofs

-----------------------------------------------------------------------------
(* The invariant.                                                          *)

(* What a reader may carry at the steps that lead to the queue. *)
FrameFits(pc, frame) ==
    /\ pc = "announce" => frame \in {"ClientActivated"} \cup ImplicitFrames
    /\ pc = "gate" => frame \in ImplicitFrames \cup PlainFrames
    /\ pc \in {"resolve", "retire"} => frame = "ClientDeactivated"
    /\ pc = "post" => frame # "ClientActivated"

(* It carries an announcement, or a key that is attributed already. *)
Carries(rd) ==
    \/ rd.pc = "announce"
    \/ rd.pc \in {"gate", "post"} /\ rd.frame = "KeyEvent"

(* With route r and sessions s: the reader cg has no epoch ahead of the    *)
(* route's, and carries the present one to an announcement or a key only   *)
(* if its connection is the registered one of the active client.           *)
Sound(cg, rd, r, s) ==
    /\ FrameFits(rd.pc, rd.frame)
    /\ rd.epoch <= r.epoch
    /\ Carries(rd) /\ rd.epoch = r.epoch
         => r.active = cg[1] /\ s[cg[1]].main = cg[2]

ReadersSound == \A cg \in Readers : Sound(cg, reader[cg], route, session)

(* No task is ahead of the route, and what threads other than readers      *)
(* enqueue are ends of activations.                                        *)
QueueStamped == \A i \in 1 .. Len(queue) : queue[i].epoch <= route.epoch
PendingStamped ==
    \A task \in posts \cup aux :
      task.epoch <= route.epoch /\ task.type \in LifecycleEnds
WorkerStamped ==
    /\ worker.task.epoch <= route.epoch
    /\ worker.pc = "post" => worker.task.type \in LifecycleEnds
Stamped == QueueStamped /\ PendingStamped /\ WorkerStamped

Announces(cg) == reader[cg].pc = "announce" /\ reader[cg].epoch = route.epoch
Announcing == \E cg \in Readers : Announces(cg)
Current(task, type) ==
    task.type = type /\ Matches(route, task.client, task.epoch)
Queued(type) == \E i \in 1 .. Len(queue) : Current(queue[i], type)
Runs(type) == worker.pc = "run" /\ Current(worker.task, type)

(* The announcement of the present activation comes before its keys. *)
KeysBehind ==
    /\ Announcing => ~ Queued("ImeKeyEvent") /\ ~ Runs("ImeKeyEvent")
    /\ \A i, j \in 1 .. Len(queue) :
         Current(queue[i], "ClientActivated") /\ Current(queue[j], "ImeKeyEvent")
           => i < j
    /\ Runs("ImeKeyEvent") => ~ Queued("ClientActivated")

(* While the composition holds foreign keys or the toolbar is down, or the *)
(* worker runs a stale key or deactivation, the ClientActivated that sets  *)
(* them right is still to come.                                            *)
Clearing == Announcing \/ Queued("ClientActivated")
OwnKeysOnly == comp \subseteq {<<route.active, route.epoch>>}
Settled == OwnKeysOnly /\ toolbar
OwnerServed ==
    route.active # NoClient =>
      /\ Settled \/ Clearing \/ Runs("ClientActivated")
      /\ Running("ImeKeyEvent") => Runs("ImeKeyEvent") \/ Clearing
      /\ Running("ClientDeactivated") => Clearing

(* The end of the activation that emptied the route is on its way to the   *)
(* queue, or in it; or the worker runs it.                                 *)
Ends(rd) ==
    \/ rd.pc \in {"registered", "exitPost"}
    \/ rd.pc = "post" /\ rd.frame \in DeactivationFrames
EndPosted ==
    \/ \E cg \in Readers : Ends(reader[cg]) /\ reader[cg].epoch = route.epoch
    \/ \E task \in posts \cup aux : task.epoch = route.epoch
    \/ worker.pc = "post" /\ worker.task.epoch = route.epoch
EndQueued ==
    \E i \in 1 .. Len(queue) :
      queue[i].type \in LifecycleEnds /\ queue[i].epoch = route.epoch
EndRuns ==
    /\ worker.pc = "run" /\ worker.task.type \in LifecycleEnds
    /\ worker.task.epoch = route.epoch
EndComing == EndPosted \/ EndQueued

(* Nobody's composition is empty, unless the end that clears it is coming. *)
NobodyServed ==
    route.active = NoClient =>
      /\ comp = {} \/ EndComing \/ EndRuns
      /\ Running("ImeKeyEvent") => EndComing
AuxSingle == \A t, u \in aux : t = u

IInv == ReadersSound /\ Stamped /\ KeysBehind /\ OwnerServed

LEMMA OwnReply == TypeOK /\ IInv => ReplyFromOwnKeys
<1> SUFFICES ASSUME TypeOK, IInv, Running("ImeKeyEvent"),
                    Matches(route, worker.task.client, worker.task.epoch)
             PROVE  comp \subseteq {<<worker.task.client, worker.task.epoch>>}
  BY DEF ReplyFromOwnKeys
<1>1. Runs("ImeKeyEvent") /\ ~ Runs("ClientActivated")
  BY DEF Running, Runs, Current
<1>2. ~ Announcing /\ ~ Queued("ClientActivated")
  BY <1>1 DEF IInv, KeysBehind
<1>3. route.active # NoClient
  BY ClientsAssumption DEF Running, TypeOK, Task, Matches
<1>4. OwnKeysOnly
  BY <1>1, <1>2, <1>3 DEF IInv, OwnerServed, Clearing, Settled
<1> QED
  BY <1>4 DEF OwnKeysOnly, Matches

LEMMA InitInv == Init => IInv
<1> SUFFICES ASSUME Init PROVE IInv
  OBVIOUS
<1>1. ReadersSound
  BY DEF Init, InitialRoute, NewReader, ReadersSound, Sound, FrameFits, Carries
<1>2. Stamped
  BY DEF Init, InitialRoute, NoTask, Stamped, QueueStamped, PendingStamped,
     WorkerStamped
<1>3. KeysBehind
  BY DEF Init, NewReader, KeysBehind, Announcing, Announces, Queued, Runs
<1>4. OwnerServed
  BY DEF Init, InitialRoute, OwnerServed
<1> QED
  BY <1>1, <1>2, <1>3, <1>4 DEF IInv

-----------------------------------------------------------------------------
(* What a step may do to the route: leave it, and with it the main         *)
(* connection of its owner, or mint an epoch.                              *)
RouteStays ==
    /\ route' = route
    /\ \A c \in Clients : route.active = c => session'[c].main = session[c].main
RouteMints == route'.epoch = route.epoch + 1
RouteStep == RouteStays \/ RouteMints

LEMMA RouteStepTypes ==
    ASSUME TypeOK, TypeOK', RouteStep
    PROVE  /\ route.epoch \in Nat /\ route'.epoch \in Nat
           /\ route.epoch <= route'.epoch
           /\ route' # route => route.epoch < route'.epoch
  BY DEF TypeOK, RouteType, RouteStep, RouteStays, RouteMints

(* A reader that does not move stays sound, one that moves must be.        *)
LEMMA ReaderStays ==
    ASSUME TypeOK, TypeOK', RouteStep, NEW cg \in Readers,
           Sound(cg, reader[cg], route, session), reader'[cg] = reader[cg]
    PROVE  Sound(cg, reader'[cg], route', session')
<1>1. reader[cg].epoch \in Nat /\ cg[1] \in Clients
  BY DEF TypeOK, Reader, Readers
<1>2. reader[cg].epoch <= route'.epoch
  BY <1>1, RouteStepTypes DEF Sound
<1>3. CASE RouteStays
  BY <1>1, <1>2, <1>3 DEF Sound, RouteStays
<1>4. CASE RouteMints
  <2>1. reader[cg].epoch # route'.epoch
    BY <1>1, <1>4, RouteStepTypes DEF Sound, RouteMints
  <2> QED
    BY <1>2, <2>1 DEF Sound
<1> QED
  BY <1>3, <1>4 DEF RouteStep

LEMMA ReadersKept ==
    ASSUME TypeOK, TypeOK', RouteStep, ReadersSound, NEW cg \in Readers,
           \A d \in Readers \ {cg} : reader'[d] = reader[d],
           Sound(cg, reader'[cg], route', session')
    PROVE  ReadersSound'
<1> SUFFICES ASSUME NEW d \in Readers
             PROVE  Sound(d, reader'[d], route', session')
  BY DEF ReadersSound, Sound, FrameFits, Carries
<1>1. CASE d = cg
  BY <1>1
<1>2. CASE d # cg
  BY <1>2, ReaderStays DEF ReadersSound
<1> QED
  BY <1>1, <1>2

LEMMA ReadersUntouched ==
    ASSUME TypeOK, TypeOK', RouteStep, ReadersSound, reader' = reader
    PROVE  ReadersSound'
<1> SUFFICES ASSUME NEW d \in Readers
             PROVE  Sound(d, reader'[d], route', session')
  BY DEF ReadersSound, Sound, FrameFits, Carries
<1> QED
  BY ReaderStays DEF ReadersSound

-----------------------------------------------------------------------------
(* The order of announcements and keys, by what a step does to the route,  *)
(* the queue, the worker and the composition.                              *)

LEMMA QueueTasks ==
    ASSUME TypeOK
    PROVE  /\ queue \in Seq(Task) /\ Len(queue) \in Nat
           /\ \A i \in 1 .. Len(queue) :
                queue[i].client \in Clients /\ queue[i].epoch \in Nat
<1>1. queue \in Seq(Task)
  BY DEF TypeOK
<1>2. Len(queue) \in Nat /\ \A i \in 1 .. Len(queue) : queue[i] \in Task
  BY <1>1
<1> QED
  BY <1>1, <1>2 DEF Task

(* While nobody owns the route no task of a client is current. *)
LEMMA NobodyActive ==
    ASSUME TypeOK', route'.active = NoClient
    PROVE  KeysBehind' /\ OwnerServed'
<1>1. \A i \in 1 .. Len(queue') : queue'[i].client # NoClient
  <2>1. queue' \in Seq(Task)
    BY DEF TypeOK
  <2>2. \A i \in 1 .. Len(queue') : queue'[i] \in Task
    BY <2>1
  <2> QED
    BY <2>2, ClientsAssumption DEF Task
<1>2. worker'.pc = "run" => worker'.task.client # NoClient
  BY ClientsAssumption DEF TypeOK, Task
<1>3. ~ Queued("ImeKeyEvent")' /\ ~ Queued("ClientActivated")'
  BY <1>1 DEF Queued, Current, Matches
<1>4. ~ Runs("ImeKeyEvent")' /\ ~ Runs("ClientActivated")'
  BY <1>2 DEF Runs, Current, Matches
<1>5. \A i \in 1 .. Len(queue') : ~ Current(queue[i], "ClientActivated")'
  BY <1>1 DEF Current, Matches
<1> QED
  BY <1>3, <1>4, <1>5 DEF KeysBehind, OwnerServed

(* A new activation has no task yet, and is about to announce itself. *)
LEMMA NewlyActive ==
    ASSUME TypeOK, Stamped, RouteMints, Announcing',
           queue' = queue, worker' = worker
    PROVE  KeysBehind' /\ OwnerServed'
<1>1. route.epoch \in Nat
  BY DEF TypeOK, RouteType
<1>2. \A i \in 1 .. Len(queue') : queue'[i].epoch # route'.epoch
  <2>1. \A i \in 1 .. Len(queue) :
          queue[i].epoch \in Nat /\ queue[i].epoch <= route.epoch
    BY QueueTasks DEF Stamped, QueueStamped
  <2> QED
    BY <1>1, <2>1 DEF RouteMints
<1>3. worker'.task.epoch # route'.epoch
  <2>1. worker.task.epoch \in Nat
    BY DEF TypeOK, Task, NoTask
  <2> QED
    BY <1>1, <2>1 DEF RouteMints, Stamped, WorkerStamped
<1>4. \A i \in 1 .. Len(queue') :
        ~ Matches(route', queue'[i].client, queue'[i].epoch)
  BY <1>2 DEF Matches
<1>5. KeysBehind'
  <2>1. ~ Queued("ImeKeyEvent")'
    BY <1>4 DEF Queued, Current
  <2>2. ~ Runs("ImeKeyEvent")'
    BY <1>3 DEF Runs, Current, Matches
  <2>3. \A i \in 1 .. Len(queue') : ~ Current(queue[i], "ClientActivated")'
    BY <1>4 DEF Current
  <2> QED
    BY <2>1, <2>2, <2>3 DEF KeysBehind
<1>6. OwnerServed'
  BY DEF OwnerServed, Clearing
<1> QED
  BY <1>5, <1>6

(* What neither the queue nor the worker sees. *)
LEMMA OrderUntouched ==
    ASSUME KeysBehind, OwnerServed, Announcing' = Announcing,
           route' = route, queue' = queue, worker' = worker, comp' = comp, toolbar' = toolbar
    PROVE  KeysBehind' /\ OwnerServed'
<1>1. Queued("ClientActivated")' = Queued("ClientActivated")
      /\ Queued("ImeKeyEvent")' = Queued("ImeKeyEvent")
  BY DEF Queued, Current
<1>2. Runs("ClientActivated")' = Runs("ClientActivated")
      /\ Runs("ImeKeyEvent")' = Runs("ImeKeyEvent")
  BY DEF Runs, Current
<1>3. KeysBehind'
  <2>1. \A i, j \in 1 .. Len(queue) :
          Current(queue[i], "ClientActivated")' = Current(queue[i], "ClientActivated")
          /\ Current(queue[j], "ImeKeyEvent")' = Current(queue[j], "ImeKeyEvent")
    BY DEF Current
  <2> QED
    BY <1>1, <1>2, <2>1 DEF KeysBehind
<1>4. Settled' = Settled /\ Clearing' = Clearing
  BY <1>1 DEF Settled, OwnKeysOnly, Clearing
<1>5. /\ Running("ImeKeyEvent")' = Running("ImeKeyEvent")
      /\ Running("ClientDeactivated")' = Running("ClientDeactivated")
  BY DEF Running
<1>6. OwnerServed'
  BY <1>2, <1>4, <1>5 DEF OwnerServed
<1> QED
  BY <1>3, <1>6

LEMMA Appended ==
    ASSUME TypeOK, NEW task, queue' = Append(queue, task)
    PROVE  /\ Len(queue') = Len(queue) + 1
           /\ \A i \in 1 .. Len(queue) : queue'[i] = queue[i]
           /\ queue'[Len(queue) + 1] = task
  BY QueueTasks

(* A task that neither announces the present activation nor is a key of an *)
(* activation that is still to be announced.                               *)
LEMMA OrderAppended ==
    ASSUME TypeOK, KeysBehind, OwnerServed, NEW task,
           queue' = Append(queue, task), ~ Current(task, "ClientActivated"),
           Current(task, "ImeKeyEvent") => ~ Announcing,
           Announcing' = Announcing, route' = route, comp' = comp, toolbar' = toolbar,
           \/ worker' = worker
           \/ worker.pc = "post" /\ worker' = Idle
    PROVE  KeysBehind' /\ OwnerServed'
<1> DEFINE n == Len(queue)
           Is(t, type) == t.type = type /\ Matches(route, t.client, t.epoch)
<1>n. n \in Nat
  BY QueueTasks
<1>a. /\ Len(queue') = n + 1
      /\ \A i \in 1 .. n : queue'[i] = queue[i]
      /\ queue'[n + 1] = task
  BY Appended
<1>1. Queued("ClientActivated")' <=> Queued("ClientActivated")
  <2>1. Queued("ClientActivated")' <=> \E i \in 1 .. n + 1 : Is(queue'[i], "ClientActivated")
    BY <1>a DEF Queued, Current
  <2>2. Queued("ClientActivated") <=> \E i \in 1 .. n : Is(queue[i], "ClientActivated")
    BY DEF Queued, Current
  <2>3. ~ Is(queue'[n + 1], "ClientActivated")
    BY <1>a DEF Current
  <2> HIDE DEF Is
  <2> QED
    BY <1>a, <1>n, <2>1, <2>2, <2>3
<1>2. Queued("ImeKeyEvent")' => Queued("ImeKeyEvent") \/ Current(task, "ImeKeyEvent")
  <2>1. Queued("ImeKeyEvent")' <=> \E i \in 1 .. n + 1 : Is(queue'[i], "ImeKeyEvent")
    BY <1>a DEF Queued, Current
  <2>2. Queued("ImeKeyEvent") <=> \E i \in 1 .. n : Is(queue[i], "ImeKeyEvent")
    BY DEF Queued, Current
  <2>3. Current(task, "ImeKeyEvent") <=> Is(queue'[n + 1], "ImeKeyEvent")
    BY <1>a DEF Current
  <2> HIDE DEF Is
  <2> QED
    BY <1>a, <1>n, <2>1, <2>2, <2>3
<1>3. /\ Runs("ClientActivated")' <=> Runs("ClientActivated")
      /\ Runs("ImeKeyEvent")' <=> Runs("ImeKeyEvent")
  BY DEF Runs, Current, Idle
<1>4. /\ Running("ImeKeyEvent")' <=> Running("ImeKeyEvent")
      /\ Running("ClientDeactivated")' <=> Running("ClientDeactivated")
  BY DEF Running, Idle
<1>5. ASSUME NEW i \in 1 .. n + 1, NEW j \in 1 .. n + 1,
             Current(queue[i], "ClientActivated")',
             Current(queue[j], "ImeKeyEvent")'
      PROVE  i < j
  <2>1. Is(queue'[i], "ClientActivated") /\ Is(queue'[j], "ImeKeyEvent")
    BY <1>5 DEF Current
  <2>2. i # n + 1
    BY <1>a, <2>1 DEF Current
  <2>3. i \in 1 .. n /\ Current(queue[i], "ClientActivated")
    BY <1>a, <1>n, <2>1, <2>2 DEF Current
  <2>4. CASE j = n + 1
    BY <1>n, <2>3, <2>4
  <2>5. CASE j # n + 1
    <3>1. j \in 1 .. n /\ Current(queue[j], "ImeKeyEvent")
      BY <1>a, <1>n, <2>1, <2>5 DEF Current
    <3> QED
      BY <2>3, <3>1 DEF KeysBehind
  <2> QED
    BY <2>4, <2>5
<1>6. KeysBehind'
  <2>1. Announcing' => ~ Queued("ImeKeyEvent")' /\ ~ Runs("ImeKeyEvent")'
    BY <1>2, <1>3 DEF KeysBehind
  <2>2. Runs("ImeKeyEvent")' => ~ Queued("ClientActivated")'
    BY <1>1, <1>3 DEF KeysBehind
  <2> QED
    BY <1>a, <1>5, <2>1, <2>2 DEF KeysBehind
<1>7. (Settled' <=> Settled) /\ (Clearing' <=> Clearing)
  BY <1>1 DEF Settled, OwnKeysOnly, Clearing
<1>8. OwnerServed'
  BY <1>3, <1>4, <1>7 DEF OwnerServed
<1> QED
  BY <1>6, <1>8

(* The announcement of the present activation, whose only announcer goes on. *)
LEMMA OrderAnnounced ==
    ASSUME TypeOK, KeysBehind, OwnerServed, NEW task,
           queue' = Append(queue, task), Current(task, "ClientActivated"),
           Announcing, ~ Announcing', route' = route, comp' = comp, toolbar' = toolbar,
           worker' = worker
    PROVE  KeysBehind' /\ OwnerServed'
<1> DEFINE n == Len(queue)
<1>n. n \in Nat
  BY QueueTasks
<1>a. /\ Len(queue') = n + 1
      /\ \A i \in 1 .. n : queue'[i] = queue[i]
      /\ queue'[n + 1] = task
  BY Appended
<1>1. \A j \in 1 .. n + 1 : ~ Current(queue[j], "ImeKeyEvent")'
  <2>1. \A j \in 1 .. n : ~ Current(queue[j], "ImeKeyEvent")
    BY DEF KeysBehind, Queued
  <2>2. ASSUME NEW j \in 1 .. n + 1, Current(queue[j], "ImeKeyEvent")'
        PROVE  FALSE
    <3>1. j # n + 1
      BY <1>a, <2>2 DEF Current
    <3>2. j \in 1 .. n
      BY <1>n, <3>1
    <3> QED
      BY <1>a, <2>1, <2>2, <3>2 DEF Current
  <2> QED
    BY <2>2
<1>2. ~ Runs("ImeKeyEvent")'
  BY DEF KeysBehind, Runs, Current
<1>3. KeysBehind'
  BY <1>a, <1>1, <1>2 DEF KeysBehind
<1>4. Queued("ClientActivated")'
  BY <1>a, <1>n DEF Queued, Current
<1> QED
  BY <1>3, <1>4 DEF OwnerServed, Clearing

LEMMA Dequeued ==
    ASSUME TypeOK, queue # <<>>, queue' = Tail(queue)
    PROVE  /\ Len(queue) \in Nat \ {0} /\ Len(queue') = Len(queue) - 1
           /\ \A i \in 1 .. Len(queue') :
                i + 1 \in 1 .. Len(queue) /\ queue'[i] = queue[i + 1]
           /\ Head(queue) = queue[1]
           /\ Head(queue) \in Task
<1>1. queue \in Seq(Task) /\ Len(queue) \in Nat
  BY QueueTasks
<1>2. Len(queue) # 0
  BY <1>1
<1>3. Len(queue') = Len(queue) - 1
  BY <1>1, <1>2
<1>4. Head(queue) = queue[1] /\ Head(queue) \in Task
  BY <1>1, <1>2
<1>5. \A i \in 1 .. Len(queue') :
        i + 1 \in 1 .. Len(queue) /\ queue'[i] = queue[i + 1]
  BY <1>1, <1>2, <1>3
<1> QED
  BY <1>1, <1>2, <1>3, <1>4, <1>5

(* The worker takes a task: an announcement takes over from its place in   *)
(* the queue, and a key that is current finds none.                        *)
LEMMA OrderTaken ==
    ASSUME TypeOK, KeysBehind, OwnerServed, Take
    PROVE  KeysBehind' /\ OwnerServed'
<1> DEFINE n == Len(queue)
           t == Head(queue)
<1>t. /\ worker.pc = "idle" /\ route' = route /\ comp' = comp /\ toolbar' = toolbar /\ reader' = reader
      /\ worker' = IF IsCurrent(t) THEN [pc |-> "run", task |-> t] ELSE worker
  BY DEF Take
<1>a. /\ n \in Nat \ {0} /\ Len(queue') = n - 1
      /\ \A i \in 1 .. n - 1 : i + 1 \in 1 .. n /\ queue'[i] = queue[i + 1]
      /\ t = queue[1] /\ t \in Task
  BY Dequeued DEF Take
<1>0. Announcing' <=> Announcing
  BY <1>t DEF Announcing, Announces
<1>1. \A type : \A i \in 1 .. n - 1 :
        (queue'[i].type = type /\ Matches(route', queue'[i].client, queue'[i].epoch))
          <=> Current(queue[i + 1], type)
  BY <1>a, <1>t DEF Current
<1>2. /\ Queued("ImeKeyEvent")' => Queued("ImeKeyEvent")
      /\ Queued("ClientActivated")'
           <=> \E i \in 1 .. n - 1 : Current(queue[i + 1], "ClientActivated")
  BY <1>a, <1>1 DEF Queued, Current
<1>3. \A type \in {"ClientActivated", "ImeKeyEvent"} :
        IsCurrent(t) /\ t.type = type <=> Current(t, type)
  BY DEF IsCurrent, Current, LifecycleEnds
<1>4. /\ Runs("ImeKeyEvent")' <=> Current(t, "ImeKeyEvent")
      /\ Runs("ClientActivated")' <=> Current(t, "ClientActivated")
      /\ Running("ImeKeyEvent")' <=> Current(t, "ImeKeyEvent")
  <2>1. CASE IsCurrent(t)
    <3>1. worker' = [pc |-> "run", task |-> t]
      BY <1>t, <2>1
    <3> HIDE DEF t
    <3>2. \A type : worker'.pc = "run" /\ worker'.task.type = type
                    /\ Matches(route', worker'.task.client, worker'.task.epoch)
                    <=> Current(t, type)
      BY <1>t, <3>1 DEF Current
    <3> QED
      BY <1>3, <2>1, <3>1, <3>2 DEF Runs, Running, Current
  <2>2. CASE ~ IsCurrent(t)
    <3>1. worker'.pc # "run"
      BY <1>t, <2>2
    <3> HIDE DEF t
    <3> QED
      BY <1>3, <2>2, <3>1 DEF Runs, Running, Current
  <2> QED
    BY <2>1, <2>2
<1>5. Queued("ClientActivated")
        => Current(t, "ClientActivated") \/ Queued("ClientActivated")'
  <2> SUFFICES ASSUME NEW i \in 1 .. n, Current(queue[i], "ClientActivated"), i # 1
               PROVE  \E k \in 1 .. n - 1 : Current(queue[k + 1], "ClientActivated")
    BY <1>2, <1>a DEF Queued
  <2>1. i - 1 \in 1 .. n - 1 /\ (i - 1) + 1 = i
    BY <1>a
  <2> QED
    BY <2>1
<1>6. Current(t, "ImeKeyEvent") =>
        ~ Announcing /\ ~ Queued("ClientActivated") /\ ~ Runs("ClientActivated")
  <2> SUFFICES ASSUME Current(queue[1], "ImeKeyEvent")
               PROVE  ~ Announcing /\ ~ Queued("ClientActivated")
    BY <1>a, <1>t DEF Runs
  <2>1. 1 \in 1 .. n
    BY <1>a
  <2>2. ~ Announcing
    BY <2>1 DEF KeysBehind, Queued
  <2>3. ~ Queued("ClientActivated")
    <3> SUFFICES ASSUME NEW i \in 1 .. n, Current(queue[i], "ClientActivated")
                 PROVE  FALSE
      BY DEF Queued
    <3>1. i < 1
      BY <2>1 DEF KeysBehind
    <3> QED
      BY <1>a, <3>1
  <2> QED
    BY <2>2, <2>3
<1>7. KeysBehind'
  <2>1. Announcing' => ~ Queued("ImeKeyEvent")' /\ ~ Runs("ImeKeyEvent")'
    BY <1>0, <1>2, <1>4, <1>6 DEF KeysBehind
  <2>2. Runs("ImeKeyEvent")' => ~ Queued("ClientActivated")'
    <3>1. Queued("ClientActivated")' => Queued("ClientActivated")
      BY <1>2, <1>a DEF Queued
    <3> QED
      BY <1>4, <1>6, <3>1
  <2>3. ASSUME NEW i \in 1 .. n - 1, NEW j \in 1 .. n - 1,
               Current(queue[i], "ClientActivated")',
               Current(queue[j], "ImeKeyEvent")'
        PROVE  i < j
    <3>1. /\ Current(queue[i + 1], "ClientActivated")
          /\ Current(queue[j + 1], "ImeKeyEvent")
      BY <1>1, <2>3 DEF Current
    <3>2. i + 1 \in 1 .. n /\ j + 1 \in 1 .. n
      BY <1>a
    <3>3. i + 1 < j + 1
      BY <3>1, <3>2 DEF KeysBehind
    <3> QED
      BY <1>a, <3>3
  <2> QED
    BY <1>a, <2>1, <2>2, <2>3 DEF KeysBehind
<1>8. OwnerServed'
  <2> SUFFICES ASSUME route.active # NoClient
               PROVE  /\ \/ Settled' \/ Clearing' \/ Runs("ClientActivated")'
                      /\ Running("ImeKeyEvent")' => Runs("ImeKeyEvent")'
                      /\ ~ Running("ClientDeactivated")'
    BY <1>t DEF OwnerServed
  <2>1. ~ Runs("ClientActivated")
    BY <1>t DEF Runs
  <2>2. Settled \/ Clearing
    BY <2>1 DEF OwnerServed
  <2>3. Settled' <=> Settled
    BY <1>t DEF Settled, OwnKeysOnly
  <2>4. Clearing => Clearing' \/ Runs("ClientActivated")'
    BY <1>0, <1>4, <1>5 DEF Clearing
  <2>5. ~ Running("ClientDeactivated")'
    <3>1. t.type = "ClientDeactivated" => ~ IsCurrent(t)
      BY DEF IsCurrent, LifecycleEnds, Matches
    <3>2. \/ worker' = worker
          \/ worker'.task.type = t.type /\ IsCurrent(t)
      BY <1>t
    <3> QED
      BY <1>t, <3>1, <3>2 DEF Running
  <2> QED
    BY <1>4, <2>2, <2>3, <2>4, <2>5
<1> QED
  BY <1>7, <1>8

(* The worker ends a task that cleared the composition, left it alone, or  *)
(* typed its key.                                                          *)
LEMMA OrderRun ==
    ASSUME TypeOK, KeysBehind, OwnerServed, worker.pc = "run",
           worker' = Idle, route' = route, reader' = reader, queue' = queue,
           \/ /\ worker.task.type = "ClientActivated"
              /\ comp' = {} /\ toolbar' = TRUE
           \/ worker.task.type = "ClientDeactivated"
           \/ /\ worker.task.type \notin {"ClientActivated", "ClientDeactivated"}
              /\ comp' \in {comp, {}} /\ toolbar' = toolbar
           \/ /\ Running("ImeKeyEvent") /\ toolbar' = toolbar
              /\ comp' = comp \cup {<<worker.task.client, worker.task.epoch>>}
    PROVE  KeysBehind' /\ OwnerServed'
<1>1. Announcing' <=> Announcing
  BY DEF Announcing, Announces
<1>2. /\ Queued("ImeKeyEvent")' <=> Queued("ImeKeyEvent")
      /\ Queued("ClientActivated")' <=> Queued("ClientActivated")
  BY DEF Queued, Current
<1>3. /\ ~ Runs("ImeKeyEvent")' /\ ~ Runs("ClientActivated")'
      /\ ~ Running("ImeKeyEvent")' /\ ~ Running("ClientDeactivated")'
  BY DEF Runs, Running, Idle
<1>4. KeysBehind'
  <2>1. \A i, j \in 1 .. Len(queue) :
          Current(queue[i], "ClientActivated")' = Current(queue[i], "ClientActivated")
          /\ Current(queue[j], "ImeKeyEvent")' = Current(queue[j], "ImeKeyEvent")
    BY DEF Current
  <2> QED
    BY <1>1, <1>2, <1>3, <2>1 DEF KeysBehind
<1>5. Clearing' <=> Clearing
  BY <1>1, <1>2 DEF Clearing
<1>6. ASSUME route.active # NoClient PROVE Settled' \/ Clearing
  <2>1. CASE /\ worker.task.type = "ClientActivated"
             /\ comp' = {} /\ toolbar' = TRUE
    BY <2>1 DEF Settled, OwnKeysOnly
  <2>2. CASE worker.task.type = "ClientDeactivated"
    BY <1>6, <2>2 DEF OwnerServed, Running
  <2>3. ASSUME worker.task.type # "ClientActivated"
        PROVE  Settled \/ Clearing
    <3>1. ~ Runs("ClientActivated")
      BY <2>3 DEF Runs, Current
    <3> QED
      BY <1>6, <3>1 DEF OwnerServed
  <2>4. CASE /\ worker.task.type \notin {"ClientActivated", "ClientDeactivated"}
             /\ comp' \in {comp, {}} /\ toolbar' = toolbar
    <3>1. OwnKeysOnly => OwnKeysOnly'
      BY <2>4 DEF OwnKeysOnly
    <3>2. Settled => Settled'
      BY <2>4, <3>1, Zenon DEF Settled
    <3> QED
      BY <2>3, <2>4, <3>2
  <2>5. CASE /\ Running("ImeKeyEvent") /\ toolbar' = toolbar
             /\ comp' = comp \cup {<<worker.task.client, worker.task.epoch>>}
    <3>1. Runs("ImeKeyEvent") \/ Clearing
      BY <1>6, <2>5 DEF OwnerServed
    <3>2. Settled \/ Clearing
      BY <2>3, <2>5 DEF Running
    <3>3. Runs("ImeKeyEvent") /\ OwnKeysOnly => OwnKeysOnly'
      BY <2>5 DEF Runs, Current, Matches, OwnKeysOnly
    <3>4. Runs("ImeKeyEvent") /\ Settled => Settled'
      BY <2>5, <3>3, Zenon DEF Settled
    <3> QED
      BY <3>1, <3>2, <3>4
  <2> QED
    BY <2>1, <2>2, <2>4, <2>5
<1>7. OwnerServed'
  BY <1>3, <1>5, <1>6 DEF OwnerServed
<1> QED
  BY <1>4, <1>7

-----------------------------------------------------------------------------
(* No task gets ahead of the route.                                        *)

LEMMA QueueKept ==
    ASSUME TypeOK, TypeOK', RouteStep, Stamped,
           \/ queue' = queue
           \/ queue # <<>> /\ queue' = Tail(queue)
           \/ \E task \in Task :
                task.epoch <= route'.epoch /\ queue' = Append(queue, task)
    PROVE  QueueStamped'
<1>t. /\ route.epoch \in Nat /\ route'.epoch \in Nat
      /\ route.epoch <= route'.epoch
  BY RouteStepTypes
<1>1. \A i \in 1 .. Len(queue) :
        queue[i].epoch \in Nat /\ queue[i].epoch <= route'.epoch
  <2>1. \A i \in 1 .. Len(queue) :
          queue[i].epoch \in Nat /\ queue[i].epoch <= route.epoch
    BY QueueTasks DEF Stamped, QueueStamped
  <2> QED
    BY <1>t, <2>1
<1>2. CASE queue' = queue
  BY <1>1, <1>2 DEF QueueStamped
<1>3. CASE queue # <<>> /\ queue' = Tail(queue)
  <2>1. \A i \in 1 .. Len(queue') :
          i + 1 \in 1 .. Len(queue) /\ queue'[i] = queue[i + 1]
    BY <1>3, Dequeued
  <2> QED
    BY <1>1, <2>1 DEF QueueStamped
<1>4. ASSUME NEW task \in Task, task.epoch <= route'.epoch,
             queue' = Append(queue, task)
      PROVE  QueueStamped'
  <2>1. /\ Len(queue') = Len(queue) + 1
        /\ \A i \in 1 .. Len(queue) : queue'[i] = queue[i]
        /\ queue'[Len(queue) + 1] = task
    BY <1>4, Appended
  <2>2. Len(queue) \in Nat
    BY QueueTasks
  <2>3. \A i \in 1 .. Len(queue') :
          i \in 1 .. Len(queue) \/ i = Len(queue) + 1
    BY <2>1, <2>2
  <2> QED
    BY <1>1, <1>4, <2>1, <2>3 DEF QueueStamped
<1> QED
  BY <1>2, <1>3, <1>4

LEMMA PendingKept ==
    ASSUME TypeOK, TypeOK', RouteStep, Stamped,
           \A task \in posts' \cup aux' :
             \/ task \in posts \cup aux
             \/ task.epoch = route'.epoch /\ task.type \in LifecycleEnds
    PROVE  PendingStamped'
<1>t. /\ route.epoch \in Nat /\ route'.epoch \in Nat
      /\ route.epoch <= route'.epoch
  BY RouteStepTypes
<1> SUFFICES ASSUME NEW task \in posts' \cup aux'
             PROVE  task.epoch <= route'.epoch /\ task.type \in LifecycleEnds
  BY DEF PendingStamped
<1>1. CASE task \in posts \cup aux
  <2>1. task.epoch \in Nat
    BY <1>1 DEF TypeOK, Task
  <2>2. task.epoch <= route.epoch /\ task.type \in LifecycleEnds
    BY <1>1 DEF Stamped, PendingStamped
  <2> QED
    BY <1>t, <2>1, <2>2
<1>2. CASE task \notin posts \cup aux
  BY <1>t, <1>2
<1> QED
  BY <1>1, <1>2

LEMMA WorkerKept ==
    ASSUME TypeOK, TypeOK', RouteStep, Stamped, worker' \in {worker, Idle}
    PROVE  WorkerStamped'
<1>t. /\ route.epoch \in Nat /\ route'.epoch \in Nat
      /\ route.epoch <= route'.epoch
  BY RouteStepTypes
<1>1. CASE worker' = worker
  <2>1. worker.task.epoch \in Nat
    BY DEF TypeOK, Task, NoTask
  <2> QED
    BY <1>t, <1>1, <2>1 DEF Stamped, WorkerStamped
<1>2. CASE worker' = Idle
  BY <1>t, <1>2 DEF Idle, NoTask, WorkerStamped
<1> QED
  BY <1>1, <1>2

-----------------------------------------------------------------------------
(* How readers and sessions move.                                          *)

LEMMA MainKept ==
    ASSUME NEW s \in Session
    PROVE  /\ FocusEnded(s).main = s.main
           /\ Tidied(s).main = s.main
           /\ \A r \in Routes : Severed(s, r).main = s.main
           /\ \A r \in Routes, id \in Nat : Connected(s, r, id).main = s.main
  BY DEF Session, FocusEnded, Tidied, EmptySession, Severed, Connected

(* A change of one session that keeps its main connection, or is not the   *)
(* owner's, leaves the owner registered.                                   *)
LEMMA RouteStaysIf ==
    ASSUME TypeOK, NEW c \in Clients, route' = route, NEW t,
           session' = [session EXCEPT ![c] = t],
           t.main = session[c].main \/ route.active # c
    PROVE  RouteStays
  BY DEF TypeOK, RouteStays

LEMMA AnnouncingKept ==
    ASSUME route' = route, NEW cg \in Readers,
           \A d \in Readers \ {cg} : reader'[d] = reader[d],
           ~ Announces(cg), ~ Announces(cg)'
    PROVE  Announcing' = Announcing
<1>1. \A d \in Readers :
        reader'[d].pc = "announce" /\ reader'[d].epoch = route'.epoch
          <=> Announces(d)
  BY DEF Announces
<1> QED
  BY <1>1 DEF Announcing, Announces

(* The reader that carries the present activation is the only one. *)
LEMMA OneCarrier ==
    ASSUME ReadersSound, NEW cg \in Readers, NEW d \in Readers, Announces(d),
           Carries(reader[cg]), reader[cg].epoch = route.epoch
    PROVE  d = cg
<1>1. /\ route.active = cg[1] /\ session[cg[1]].main = cg[2]
      /\ route.active = d[1] /\ session[d[1]].main = d[2]
  BY DEF ReadersSound, Sound, Announces, Carries
<1>2. cg = <<cg[1], cg[2]>> /\ d = <<d[1], d[2]>>
  BY DEF Readers
<1>3. cg[1] = d[1] /\ cg[2] = d[2]
  BY <1>1
<1> QED
  BY <1>2, <1>3

(* Where a reader carries nothing that could be misattributed. *)
BarePcs == ReaderPcs \ {"announce", "gate", "post", "resolve", "retire"}

LEMMA GoToSound ==
    ASSUME TypeOK, TypeOK', NEW c \in Clients, NEW g \in Mains,
           NEW pc \in BarePcs, GoTo(c, g, pc)
    PROVE  /\ <<c, g>> \in Readers
           /\ Sound(<<c, g>>, reader'[<<c, g>>], route', session')
           /\ \A d \in Readers \ {<<c, g>>} : reader'[d] = reader[d]
           /\ ~ Announces(<<c, g>>)'
<1>1. <<c, g>> \in Readers
  BY DEF Readers
<1>2. reader'[<<c, g>>] = [NewReader EXCEPT !.pc = pc]
  BY <1>1 DEF GoTo, TypeOK
<1>3. reader'[<<c, g>>].pc = pc /\ reader'[<<c, g>>].epoch = 0
  BY <1>2 DEF NewReader
<1>4. route'.epoch \in Nat
  BY DEF TypeOK, RouteType
<1>5. Sound(<<c, g>>, reader'[<<c, g>>], route', session')
  BY <1>3, <1>4 DEF Sound, FrameFits, Carries, BarePcs
<1>6. ~ Announces(<<c, g>>)'
  BY <1>3 DEF Announces, BarePcs
<1> QED
  BY <1>1, <1>5, <1>6 DEF GoTo, TypeOK

LEMMA GoWithSound ==
    ASSUME TypeOK, TypeOK', NEW c \in Clients, NEW g \in Mains,
           NEW pc \in ReaderPcs, NEW e \in Nat, GoWith(c, g, pc, e),
           e <= route'.epoch,
           FrameFits(pc, reader[<<c, g>>].frame),
           \/ pc \notin {"announce", "gate", "post"}
           \/ pc # "announce" /\ reader[<<c, g>>].frame # "KeyEvent"
           \/ e # route'.epoch
           \/ route'.active = c /\ session'[c].main = g
    PROVE  /\ <<c, g>> \in Readers
           /\ Sound(<<c, g>>, reader'[<<c, g>>], route', session')
           /\ \A d \in Readers \ {<<c, g>>} : reader'[d] = reader[d]
           /\ Announces(<<c, g>>)' <=> pc = "announce" /\ e = route'.epoch
<1>1. <<c, g>> \in Readers
  BY DEF Readers
<1>2. reader'[<<c, g>>] = [reader[<<c, g>>] EXCEPT !.pc = pc, !.epoch = e]
  BY <1>1 DEF GoWith, TypeOK
<1>3. /\ reader'[<<c, g>>].pc = pc /\ reader'[<<c, g>>].epoch = e
      /\ reader'[<<c, g>>].frame = reader[<<c, g>>].frame
  BY <1>1, <1>2 DEF TypeOK, Reader
<1>4. FrameFits(reader'[<<c, g>>].pc, reader'[<<c, g>>].frame)
  BY <1>3
<1>5. Sound(<<c, g>>, reader'[<<c, g>>], route', session')
  BY <1>3, <1>4 DEF Sound, Carries
<1>6. Announces(<<c, g>>)' <=> pc = "announce" /\ e = route'.epoch
  BY <1>3 DEF Announces
<1> QED
  BY <1>1, <1>5, <1>6 DEF GoWith, TypeOK

-----------------------------------------------------------------------------
(* The steps.                                                              *)

(* A step that leaves the route, or empties it. *)
RouteOrNone ==
    \/ route' = route
    \/ route'.active = NoClient /\ RouteMints

LEMMA RouteGivenUp ==
    ASSUME TypeOK, NEW c \in Clients
    PROVE  /\ route' = Deactivated(route, c) =>
                IF route.active = c
                  THEN route'.active = NoClient /\ RouteMints
                  ELSE route' = route
           /\ \A e : route' = Invalidated(route, c, e) =>
                IF Matches(route, c, e)
                  THEN route'.active = NoClient /\ RouteMints
                  ELSE route' = route
           /\ route' = Retired(route, c) => route'.active = NoClient /\ RouteMints
  BY DEF Deactivated, Invalidated, Released, Retired, Matches, RouteMints

(* What a step on pipes, route and readers alone has to keep. *)
LEMMA Bystander ==
    ASSUME TypeOK, TypeOK', IInv, RouteStep, RouteOrNone, ReadersSound',
           PendingStamped', queue' = queue, worker' = worker, comp' = comp, toolbar' = toolbar,
           route' = route => Announcing' = Announcing
    PROVE  IInv'
<1>1. QueueStamped' /\ WorkerStamped'
  BY QueueKept, WorkerKept DEF IInv
<1>2. CASE route' = route
  <2>1. KeysBehind' /\ OwnerServed'
    BY <1>2, OrderUntouched DEF IInv
  <2> QED
    BY <1>1, <2>1 DEF IInv, Stamped
<1>3. CASE route'.active = NoClient
  <2>1. KeysBehind' /\ OwnerServed'
    BY <1>3, NobodyActive
  <2> QED
    BY <1>1, <2>1 DEF IInv, Stamped
<1> QED
  BY <1>2, <1>3 DEF RouteOrNone

LEMMA RegisterMainKeeps ==
    ASSUME TypeOK, TypeOK', IInv, NEW c \in Clients, NEW g \in Mains,
           RegisterMain(c, g)
    PROVE  IInv'
<1> DEFINE cg == <<c, g>>
<1>1. RouteStep => PendingStamped'
  BY PendingKept DEF RegisterMain, IInv
<1>2. CASE route.active = c
  <2>1. route'.active = NoClient /\ RouteMints
    BY <1>2, RouteGivenUp DEF RegisterMain
  <2>2. RouteStep /\ RouteOrNone /\ route' # route
    BY <1>2, <2>1, ClientsAssumption DEF RouteStep, RouteOrNone
  <2>3. GoWith(c, g, "registered", route'.epoch)
    BY <1>2 DEF RegisterMain
  <2>4. /\ route'.epoch \in Nat
        /\ FrameFits("registered", reader[cg].frame)
    BY DEF TypeOK, RouteType, FrameFits
  <2>5. /\ cg \in Readers /\ Sound(cg, reader'[cg], route', session')
        /\ \A d \in Readers \ {cg} : reader'[d] = reader[d]
    BY <2>3, <2>4, GoWithSound DEF ReaderPcs
  <2>6. ReadersSound'
    BY <2>2, <2>5, ReadersKept DEF IInv
  <2> QED
    BY <1>1, <2>2, <2>6, Bystander DEF RegisterMain
<1>3. CASE route.active # c
  <2>1. route' = route
    BY <1>3, RouteGivenUp DEF RegisterMain
  <2>2. RouteStep /\ RouteOrNone
    <3>1. \E t : session' = [session EXCEPT ![c] = t]
      BY DEF RegisterMain
    <3>2. RouteStays
      BY <1>3, <2>1, <3>1, RouteStaysIf
    <3> QED
      BY <2>1, <3>2 DEF RouteStep, RouteOrNone
  <2>3. GoTo(c, g, "negotiate")
    BY <1>3 DEF RegisterMain
  <2>4. /\ cg \in Readers /\ Sound(cg, reader'[cg], route', session')
        /\ \A d \in Readers \ {cg} : reader'[d] = reader[d]
        /\ ~ Announces(cg)'
    BY <2>3, GoToSound DEF BarePcs, ReaderPcs
  <2>5. ReadersSound'
    BY <2>2, <2>4, ReadersKept DEF IInv
  <2>6. ~ Announces(cg)
    BY DEF Announces, RegisterMain, At
  <2>7. Announcing' = Announcing
    BY <2>1, <2>4, <2>6, AnnouncingKept
  <2> QED
    BY <1>1, <2>2, <2>5, <2>7, Bystander DEF RegisterMain
<1> QED
  BY <1>2, <1>3

(* The session of one client changes and keeps its main connection, and    *)
(* the route stays or is given up: no reader is concerned.                 *)
LEMMA SessionKeeps ==
    ASSUME TypeOK, TypeOK', IInv, NEW c \in Clients, NEW t,
           session' = [session EXCEPT ![c] = t], t.main = session[c].main,
           RouteOrNone, reader' = reader, queue' = queue, worker' = worker,
           comp' = comp, toolbar' = toolbar,
           \A task \in posts' \cup aux' :
             \/ task \in posts \cup aux
             \/ task.epoch = route'.epoch /\ task.type \in LifecycleEnds
    PROVE  IInv'
<1>1. RouteStep
  <2>1. CASE route' = route
    BY <2>1, RouteStaysIf DEF RouteStep
  <2>2. CASE RouteMints
    BY <2>2 DEF RouteStep
  <2> QED
    BY <2>1, <2>2 DEF RouteOrNone
<1>2. ReadersSound'
  BY <1>1, ReadersUntouched DEF IInv
<1>3. PendingStamped'
  BY <1>1, PendingKept DEF IInv
<1>4. route' = route => Announcing' = Announcing
  BY DEF Announcing, Announces
<1> QED
  BY <1>1, <1>2, <1>3, <1>4, Bystander

LEMMA ReversesKeep ==
    ASSUME TypeOK, TypeOK', IInv, NEW c \in Clients, NEW r \in Routes,
           NEW h \in Nat,
           \/ RegisterReverse(c, r)
           \/ UnregisterReverse(c, r, h)
           \/ WorkerPipeWriteFails(c)
    PROVE  IInv'
<1> DEFINE s == session[c]
<1>s. s \in Session
  BY DEF TypeOK
<1>1. CASE RegisterReverse(c, r)
  <2>1. lastReverse[c][r] + 1 \in Nat
    BY DEF TypeOK
  <2>2. PICK t : t.main = s.main /\ session' = [session EXCEPT ![c] = t]
    <3>1. \/ session' = [session EXCEPT
                           ![c] = Connected(s, r, lastReverse[c][r] + 1)]
          \/ session' = [session EXCEPT ![c] = Tidied(s)]
      BY <1>1 DEF RegisterReverse
    <3> QED
      BY <1>s, <2>1, <3>1, MainKept
  <2> QED
    BY <1>1, <2>2, SessionKeeps DEF RegisterReverse, RouteOrNone
<1>2. CASE UnregisterReverse(c, r, h)
  <2> DEFINE severed == IF s.reverse[r] = h THEN Severed(s, r) ELSE s
             ended == IF s.reverse[r] = h /\ route.active = c
                        THEN FocusEnded(severed) ELSE severed
             e == IF s.reverse[r] = h /\ route.active = c
                    THEN route'.epoch ELSE 0
  <2>1. /\ session' = [session EXCEPT ![c] = Tidied(ended)]
        /\ route' = IF s.reverse[r] = h THEN Deactivated(route, c) ELSE route
        /\ posts' = posts \cup Invalidation(c, e)
    BY <1>2 DEF UnregisterReverse
  <2>2. severed \in Session /\ severed.main = s.main
    BY <1>s, ReverseOps, MainKept
  <2>3. ended \in Session /\ ended.main = s.main
    <3> HIDE DEF severed
    <3> QED
      BY <2>2, SessionOps, MainKept
  <2>4. Tidied(ended).main = s.main
    <3> HIDE DEF ended
    <3> QED
      BY <2>3, MainKept
  <2>5. RouteOrNone
    BY <2>1, RouteGivenUp DEF RouteOrNone
  <2>6. \A task \in Invalidation(c, e) :
          task.epoch = route'.epoch /\ task.type \in LifecycleEnds
    BY DEF Invalidation, NewTask, LifecycleEnds
  <2> HIDE DEF ended, e
  <2>7. \A task \in posts' \cup aux' :
          \/ task \in posts \cup aux
          \/ task.epoch = route'.epoch /\ task.type \in LifecycleEnds
    BY <1>2, <2>1, <2>6 DEF UnregisterReverse
  <2> QED
    BY <1>2, <2>1, <2>4, <2>5, <2>7, SessionKeeps DEF UnregisterReverse
<1>3. CASE WorkerPipeWriteFails(c)
  <2> DEFINE t == IF route.active = c THEN FocusEnded(Severed(s, "Worker"))
                                      ELSE Severed(s, "Worker")
             e == IF route.active = c THEN route'.epoch ELSE 0
  <2>1. /\ session' = [session EXCEPT ![c] = t]
        /\ route' = Invalidated(route, c, route.epoch)
        /\ posts' = posts \cup Invalidation(c, e)
    BY <1>3 DEF WorkerPipeWriteFails
  <2>2. t.main = s.main
    BY <1>s, ReverseOps, MainKept DEF Routes
  <2>3. RouteOrNone
    BY <2>1, RouteGivenUp DEF RouteOrNone
  <2>4. \A task \in Invalidation(c, e) :
          task.epoch = route'.epoch /\ task.type \in LifecycleEnds
    BY DEF Invalidation, NewTask, LifecycleEnds
  <2> HIDE DEF t, e
  <2>5. \A task \in posts' \cup aux' :
          \/ task \in posts \cup aux
          \/ task.epoch = route'.epoch /\ task.type \in LifecycleEnds
    BY <1>3, <2>1, <2>4 DEF WorkerPipeWriteFails
  <2> QED
    BY <1>3, <2>1, <2>2, <2>3, <2>5, SessionKeeps DEF WorkerPipeWriteFails
<1> QED
  BY <1>1, <1>2, <1>3

LEMMA AuxKeeps ==
    ASSUME TypeOK, TypeOK', IInv, NEW c \in Clients,
           NEW token \in 1 .. MaxTokens, AuxTerminal(c, token)
    PROVE  IInv'
<1> DEFINE s == session[c]
<1>1. CASE /\ route.active = c
           /\ route' = Deactivated(route, c)
           /\ session' = [session EXCEPT ![c] = FocusEnded(s)]
           /\ aux' = {NewTask("ClientDeactivated", c, route'.epoch)}
  <2>1. FocusEnded(s).main = s.main
    BY MainKept DEF TypeOK
  <2>2. RouteOrNone
    BY <1>1, RouteGivenUp DEF RouteOrNone
  <2>3. \A task \in posts' \cup aux' :
          \/ task \in posts \cup aux
          \/ task.epoch = route'.epoch /\ task.type \in LifecycleEnds
    BY <1>1 DEF AuxTerminal, NewTask, LifecycleEnds
  <2> QED
    BY <1>1, <2>1, <2>2, <2>3, SessionKeeps DEF AuxTerminal
<1>2. CASE /\ TerminalEpoch(route, c) # 0
           /\ aux' = {NewTask("ClientDeactivated", c, TerminalEpoch(route, c))}
           /\ session' = session /\ route' = route
  <2>1. session' = [session EXCEPT ![c] = s]
    BY <1>2 DEF TypeOK
  <2>2. RouteOrNone
    BY <1>2 DEF RouteOrNone
  <2>3. \A task \in posts' \cup aux' :
          \/ task \in posts \cup aux
          \/ task.epoch = route'.epoch /\ task.type \in LifecycleEnds
    BY <1>2 DEF AuxTerminal, NewTask, LifecycleEnds, TerminalEpoch
  <2> QED
    BY <2>1, <2>2, <2>3, SessionKeeps DEF AuxTerminal
<1> QED
  BY <1>1, <1>2 DEF AuxTerminal, registry

(* A reader moves without enqueuing. *)
LEMMA ReaderKeeps ==
    ASSUME TypeOK, TypeOK', IInv, RouteStep, RouteOrNone, NEW cg \in Readers,
           \A d \in Readers \ {cg} : reader'[d] = reader[d],
           Sound(cg, reader'[cg], route', session'),
           route' = route => ~ Announces(cg) /\ ~ Announces(cg)',
           queue' = queue, worker' = worker, comp' = comp, toolbar' = toolbar,
           posts' = posts, aux' = aux
    PROVE  IInv'
<1>1. ReadersSound'
  BY ReadersKept DEF IInv
<1>2. PendingStamped'
  BY PendingKept DEF IInv
<1>3. route' = route => Announcing' = Announcing
  BY AnnouncingKept
<1> QED
  BY <1>1, <1>2, <1>3, Bystander

(* The steps of a reader between critical sections. *)
LEMMA LocalKeeps ==
    ASSUME TypeOK, TypeOK', IInv, NEW c \in Clients, NEW g \in Mains,
           \/ Negotiate(c, g)
           \/ \E f \in Frames : ReadFrame(c, g, f)
           \/ Attribute(c, g)
           \/ Gate(c, g)
           \/ ResolveTerminal(c, g)
           \/ ResolveExit(c, g)
    PROVE  IInv'
<1> DEFINE cg == <<c, g>>
           rd == reader[cg]
<1>u. /\ session' = session /\ route' = route /\ queue' = queue
      /\ worker' = worker /\ comp' = comp /\ toolbar' = toolbar /\ posts' = posts /\ aux' = aux
  BY DEF Negotiate, ReadFrame, Attribute, Gate, ResolveTerminal, ResolveExit
<1>n. ~ Announces(cg)
  BY DEF Announces, At, Negotiate, ReadFrame, Attribute, Gate,
     ResolveTerminal, ResolveExit
<1>r. /\ cg \in Readers /\ rd \in Reader /\ rd.epoch \in Nat
      /\ Sound(cg, rd, route, session)
      /\ route.epoch \in Nat
  BY DEF TypeOK, Reader, Readers, RouteType, IInv, ReadersSound
<1>k. ASSUME \A d \in Readers \ {cg} : reader'[d] = reader[d],
             Sound(cg, reader'[cg], route', session'), ~ Announces(cg)'
      PROVE  IInv'
  <2>1. RouteStep /\ RouteOrNone
    BY <1>u DEF RouteStep, RouteStays, RouteOrNone
  <2> QED
    BY <1>u, <1>n, <1>r, <1>k, <2>1, ReaderKeeps
<1>g. ASSUME NEW pc \in BarePcs, GoTo(c, g, pc) PROVE IInv'
  BY <1>g, <1>k, GoToSound
<1>w. ASSUME NEW pc \in ReaderPcs \ {"announce"}, NEW e \in Nat,
             GoWith(c, g, pc, e), e <= route.epoch, FrameFits(pc, rd.frame),
             \/ pc \notin {"gate", "post"}
             \/ rd.frame # "KeyEvent"
             \/ e # route.epoch
             \/ route.active = c /\ session[c].main = g
      PROVE  IInv'
  BY <1>w, <1>u, <1>k, GoWithSound
<1>p. {"read", "exit", "done"} \subseteq BarePcs
  BY DEF BarePcs, ReaderPcs
<1>1. CASE Negotiate(c, g)
  BY <1>1, <1>p, <1>g DEF Negotiate
<1>2. ASSUME NEW f \in Frames, ReadFrame(c, g, f) PROVE IInv'
  <2>1. PICK token :
          reader' = [reader EXCEPT ![cg] = [pc |-> "handle", frame |-> f,
                                            token |-> token, epoch |-> 0]]
    BY <1>2 DEF ReadFrame
  <2>2. reader'[cg].pc = "handle" /\ reader'[cg].epoch = 0
    BY <1>r, <2>1 DEF TypeOK
  <2>3. Sound(cg, reader'[cg], route', session')
    BY <1>r, <1>u, <2>2 DEF Sound, FrameFits, Carries
  <2>4. \A d \in Readers \ {cg} : reader'[d] = reader[d]
    BY <2>1 DEF TypeOK
  <2>5. ~ Announces(cg)'
    BY <2>2 DEF Announces
  <2> QED
    BY <1>k, <2>3, <2>4, <2>5
<1>3. CASE Attribute(c, g)
  <2>1. CASE route.active = c
    <3>1. GoWith(c, g, "gate", route.epoch) /\ rd.frame \in PlainFrames
      BY <1>3, <2>1 DEF Attribute
    <3>2. FrameFits("gate", rd.frame) /\ rd.frame # "KeyEvent"
      BY <3>1 DEF FrameFits, PlainFrames
    <3> QED
      BY <1>r, <1>w, <3>1, <3>2 DEF ReaderPcs
  <2>2. CASE route.active # c
    BY <1>3, <1>p, <1>g, <2>2 DEF Attribute
  <2> QED
    BY <2>1, <2>2
<1>4. CASE Gate(c, g)
  <2>1. CASE Matches(route, c, rd.epoch)
    <3>1. GoWith(c, g, "post", rd.epoch) /\ rd.pc = "gate"
      BY <1>4, <2>1 DEF Gate, At
    <3>2. FrameFits("post", rd.frame)
      <4>1. rd.frame \in ImplicitFrames \cup PlainFrames
        BY <1>r, <3>1 DEF Sound, FrameFits
      <4> QED
        BY <4>1 DEF FrameFits, ImplicitFrames, PlainFrames
    <3>3. rd.frame = "KeyEvent" => route.active = c /\ session[c].main = g
      BY <1>r, <2>1, <3>1 DEF Sound, Carries, Matches
    <3>4. rd.epoch <= route.epoch
      BY <1>r DEF Sound
    <3> QED
      BY <1>r, <1>w, <3>1, <3>2, <3>3, <3>4 DEF ReaderPcs
  <2>2. CASE ~ Matches(route, c, rd.epoch)
    BY <1>4, <1>p, <1>g, <2>2 DEF Gate
  <2> QED
    BY <2>1, <2>2
<1>5. CASE ResolveTerminal(c, g)
  <2> DEFINE e == TerminalEpoch(route, c)
  <2>1. e \in Nat /\ e <= route.epoch
    BY <1>r DEF TerminalEpoch
  <2>2. rd.frame = "ClientDeactivated"
    BY <1>5, <1>r DEF ResolveTerminal, At, Sound, FrameFits
  <2>3. /\ GoWith(c, g, "post", e) \/ GoWith(c, g, "retire", e)
        /\ FrameFits("post", rd.frame) /\ FrameFits("retire", rd.frame)
    BY <1>5, <2>2 DEF ResolveTerminal, FrameFits
  <2> HIDE DEF e
  <2> QED
    BY <1>w, <2>1, <2>2, <2>3 DEF ReaderPcs
<1>6. CASE ResolveExit(c, g)
  <2> DEFINE e == TerminalEpoch(route, c)
  <2>1. e \in Nat /\ e <= route.epoch
    BY <1>r DEF TerminalEpoch
  <2>2. GoWith(c, g, "exitPost", e) \/ GoTo(c, g, "done")
    BY <1>6 DEF ResolveExit
  <2>3. FrameFits("exitPost", rd.frame)
    BY DEF FrameFits
  <2> HIDE DEF e
  <2> QED
    BY <1>w, <1>g, <1>p, <2>1, <2>2, <2>3 DEF ReaderPcs
<1> QED
  BY <1>1, <1>2, <1>3, <1>4, <1>5, <1>6

(* A connection that is ready takes the route and goes on to announce it. *)
LEMMA GrantKeeps ==
    ASSUME TypeOK, TypeOK', IInv, NEW c \in Clients, NEW g \in Mains,
           RouteMints, route'.active = c, session'[c].main = g,
           GoWith(c, g, "announce", route'.epoch),
           reader[<<c, g>>].frame \in {"ClientActivated"} \cup ImplicitFrames,
           queue' = queue, worker' = worker, comp' = comp, toolbar' = toolbar,
           posts' = posts, aux' = aux
    PROVE  IInv'
<1> DEFINE cg == <<c, g>>
<1>1. RouteStep
  BY DEF RouteStep
<1>2. route'.epoch \in Nat
  BY DEF TypeOK, RouteType
<1>3. FrameFits("announce", reader[cg].frame)
  BY DEF FrameFits
<1>4. /\ cg \in Readers
      /\ Sound(cg, reader'[cg], route', session')
      /\ \A d \in Readers \ {cg} : reader'[d] = reader[d]
      /\ Announces(cg)'
  BY <1>2, <1>3, GoWithSound DEF ReaderPcs
<1>5. ReadersSound'
  BY <1>1, <1>4, ReadersKept DEF IInv
<1>6. QueueStamped' /\ PendingStamped' /\ WorkerStamped'
  BY <1>1, QueueKept, PendingKept, WorkerKept DEF IInv
<1>7. Announcing'
  BY <1>4 DEF Announcing
<1>8. KeysBehind' /\ OwnerServed'
  BY <1>7, NewlyActive DEF IInv
<1> QED
  BY <1>5, <1>6, <1>8 DEF IInv, Stamped

LEMMA ActivationsKeep ==
    ASSUME TypeOK, TypeOK', IInv, NEW c \in Clients, NEW g \in Mains,
           ActivateExplicit(c, g) \/ ActivateImplicit(c, g)
    PROVE  IInv'
<1> DEFINE cg == <<c, g>>
           s == session[c]
           rd == reader[cg]
<1>u. /\ queue' = queue /\ worker' = worker /\ comp' = comp /\ toolbar' = toolbar
      /\ posts' = posts /\ aux' = aux
  BY DEF ActivateExplicit, ActivateImplicit
<1>n. ~ Announces(cg)
  BY DEF Announces, At, ActivateExplicit, ActivateImplicit
<1>r. /\ cg \in Readers /\ s \in Session /\ session \in [Clients -> Session]
      /\ route.epoch \in Nat /\ route \in RouteType
  BY DEF TypeOK, Readers, RouteType
<1>m. /\ Activated(route, c).active = c
      /\ Activated(route, c) = route \/ Activated(route, c).epoch = route.epoch + 1
      /\ Renewed(route, c).active = c
      /\ Renewed(route, c).epoch = route.epoch + 1
  BY <1>r DEF Activated, Renewed
<1>k. ASSUME RouteStays, \A d \in Readers \ {cg} : reader'[d] = reader[d],
             Sound(cg, reader'[cg], route', session'), ~ Announces(cg)'
      PROVE  IInv'
  <2>1. RouteStep /\ RouteOrNone
    BY <1>k DEF RouteStep, RouteStays, RouteOrNone
  <2> QED
    BY <1>u, <1>n, <1>r, <1>k, <2>1, ReaderKeeps
<1>b. ASSUME RouteStays, GoTo(c, g, "read") PROVE IInv'
  <2>1. "read" \in BarePcs
    BY DEF BarePcs, ReaderPcs
  <2> QED
    BY <1>b, <1>k, <2>1, GoToSound
<1>s. ASSUME session' = session, route' = route PROVE RouteStays
  BY <1>s DEF RouteStays
<1>1. CASE ActivateExplicit(c, g)
  <2>1. CASE RouteReady(c, g)
    <3> DEFINE t == [s EXCEPT !.focusToken = rd.token, !.inactiveToken = 0]
    <3>1. /\ session' = [session EXCEPT ![c] = t]
          /\ route' \in {Renewed(route, c), Activated(route, c)}
          /\ IF route'.epoch # route.epoch
               THEN GoWith(c, g, "announce", route'.epoch)
               ELSE GoTo(c, g, "read")
          /\ rd.frame = "ClientActivated"
      BY <1>1, <2>1 DEF ActivateExplicit
    <3>2. t.main = s.main /\ s.main = g
      BY <1>r, <2>1 DEF RouteReady, Registered, Session
    <3> HIDE DEF t
    <3>3. session'[c].main = g
      BY <1>r, <3>1, <3>2
    <3>4. route'.active = c /\ (route' = route \/ RouteMints)
      BY <1>m, <3>1 DEF RouteMints
    <3>5. CASE route' = route
      <4>1. RouteStays
        BY <3>1, <3>2, <3>5, RouteStaysIf
      <4> QED
        BY <1>b, <3>1, <3>5, <4>1
    <3>6. CASE RouteMints
      <4>1. GoWith(c, g, "announce", route'.epoch)
        BY <1>r, <3>1, <3>6 DEF RouteMints
      <4> QED
        BY <1>u, <3>1, <3>3, <3>4, <3>6, <4>1, GrantKeeps
    <3> QED
      BY <3>4, <3>5, <3>6
  <2>2. CASE ~ RouteReady(c, g)
    BY <1>1, <1>s, <1>b, <2>2 DEF ActivateExplicit, registry
  <2> QED
    BY <2>1, <2>2
<1>2. CASE ActivateImplicit(c, g)
  <2> DEFINE ready == RouteReady(c, g) /\ s.focusToken # 0
  <2>1. CASE ready
    <3> DEFINE t == [s EXCEPT !.inactiveToken = 0]
    <3>1. /\ session' = [session EXCEPT ![c] = t]
          /\ route' = Activated(route, c)
          /\ GoWith(c, g, IF route'.epoch # route.epoch THEN "announce" ELSE "gate",
                    route'.epoch)
          /\ rd.frame \in ImplicitFrames
      BY <1>2, <2>1 DEF ActivateImplicit
    <3>2. t.main = s.main /\ s.main = g
      BY <1>r, <2>1 DEF RouteReady, Registered, Session
    <3> HIDE DEF t
    <3>3. session'[c].main = g
      BY <1>r, <3>1, <3>2
    <3>4. route'.active = c /\ (route' = route \/ RouteMints)
      BY <1>m, <3>1 DEF RouteMints
    <3>5. CASE route' = route
      <4>1. RouteStays
        BY <3>1, <3>2, <3>5, RouteStaysIf
      <4>2. GoWith(c, g, "gate", route.epoch)
        BY <3>1, <3>5
      <4>3. FrameFits("gate", rd.frame)
        BY <3>1 DEF FrameFits
      <4>4. route.epoch <= route'.epoch
        BY <1>r, <3>5
      <4>5. /\ Sound(cg, reader'[cg], route', session')
            /\ \A d \in Readers \ {cg} : reader'[d] = reader[d]
            /\ ~ Announces(cg)'
        BY <1>r, <3>3, <3>4, <4>2, <4>3, <4>4, GoWithSound DEF ReaderPcs
      <4> QED
        BY <1>k, <4>1, <4>5
    <3>6. CASE RouteMints
      <4>1. GoWith(c, g, "announce", route'.epoch)
        BY <1>r, <3>1, <3>6 DEF RouteMints
      <4> QED
        BY <1>u, <3>1, <3>3, <3>4, <3>6, <4>1, GrantKeeps
    <3> QED
      BY <3>4, <3>5, <3>6
  <2>2. CASE ~ ready
    BY <1>2, <1>s, <1>b, <2>2 DEF ActivateImplicit, registry
  <2> QED
    BY <2>1, <2>2
<1> QED
  BY <1>1, <1>2

(* A reader gives the route up, or leaves it as it is. *)
LEMMA DeactivationsKeep ==
    ASSUME TypeOK, TypeOK', IInv, NEW c \in Clients, NEW g \in Mains,
           DeactivateRoute(c, g) \/ RetireRoute(c, g)
    PROVE  IInv'
<1> DEFINE cg == <<c, g>>
           rd == reader[cg]
<1>u. /\ queue' = queue /\ worker' = worker /\ comp' = comp /\ toolbar' = toolbar
      /\ posts' = posts /\ aux' = aux
  BY DEF DeactivateRoute, RetireRoute
<1>n. ~ Announces(cg)
  BY DEF Announces, At, DeactivateRoute, RetireRoute
<1>r. /\ cg \in Readers /\ route'.epoch \in Nat
      /\ Sound(cg, rd, route, session)
  BY DEF TypeOK, Readers, RouteType, IInv, ReadersSound
<1>k. ASSUME RouteStep, RouteOrNone,
             \A d \in Readers \ {cg} : reader'[d] = reader[d],
             Sound(cg, reader'[cg], route', session'), ~ Announces(cg)'
      PROVE  IInv'
  BY <1>u, <1>n, <1>r, <1>k, ReaderKeeps
<1>s. ASSUME session' = session, route' = route PROVE RouteStep /\ RouteOrNone
  BY <1>s DEF RouteStep, RouteStays, RouteOrNone
<1>e. ASSUME route'.active = NoClient, RouteMints PROVE RouteStep /\ RouteOrNone
  BY <1>e DEF RouteStep, RouteOrNone
<1>b. ASSUME RouteStep, RouteOrNone, GoTo(c, g, "read") PROVE IInv'
  <2>1. "read" \in BarePcs
    BY DEF BarePcs, ReaderPcs
  <2> QED
    BY <1>b, <1>k, <2>1, GoToSound
<1>w. ASSUME RouteStep, RouteOrNone, NEW pc \in {"post", "resolve"}, NEW e \in Nat,
             GoWith(c, g, pc, e), e <= route'.epoch,
             FrameFits(pc, rd.frame), rd.frame # "KeyEvent"
      PROVE  IInv'
  BY <1>w, <1>k, GoWithSound DEF ReaderPcs
<1>1. CASE DeactivateRoute(c, g)
  <2>f. /\ rd.frame \in DeactivationFrames
        /\ FrameFits("post", rd.frame) /\ rd.frame # "KeyEvent"
    BY <1>1 DEF DeactivateRoute, DeactivationFrames, FrameFits
  <2>1. CASE Registered(c, g) /\ route.active = c
    <3>1. route' = Deactivated(route, c) /\ GoWith(c, g, "post", route'.epoch)
      BY <1>1, <2>1 DEF DeactivateRoute
    <3>2. RouteStep /\ RouteOrNone
      BY <1>e, <2>1, <3>1, RouteGivenUp
    <3> QED
      BY <1>r, <1>w, <2>f, <3>1, <3>2
  <2>2. CASE ~ (Registered(c, g) /\ route.active = c)
    <3>1. RouteStep /\ RouteOrNone
      BY <1>1, <1>s, <2>2 DEF DeactivateRoute, registry
    <3>2. CASE rd.frame = "ClientDeactivated"
      <4>1. GoWith(c, g, "resolve", 0) /\ FrameFits("resolve", rd.frame)
        BY <1>1, <2>2, <3>2 DEF DeactivateRoute, FrameFits
      <4> QED
        BY <1>r, <1>w, <2>f, <3>1, <4>1
    <3>3. CASE rd.frame # "ClientDeactivated"
      BY <1>1, <1>b, <2>2, <3>1, <3>3 DEF DeactivateRoute
    <3> QED
      BY <3>2, <3>3
  <2> QED
    BY <2>1, <2>2
<1>2. CASE RetireRoute(c, g)
  <2>1. rd.frame = "ClientDeactivated"
    BY <1>2, <1>r DEF RetireRoute, At, Sound, FrameFits
  <2>2. CASE route' = Retired(route, c) /\ GoWith(c, g, "post", route'.epoch)
    <3>1. RouteStep /\ RouteOrNone
      BY <1>e, <2>2, RouteGivenUp
    <3>2. FrameFits("post", rd.frame)
      BY <2>1 DEF FrameFits
    <3> QED
      BY <1>r, <1>w, <2>1, <2>2, <3>1, <3>2
  <2>3. CASE UNCHANGED registry /\ GoTo(c, g, "read")
    BY <1>s, <1>b, <2>3 DEF registry
  <2> QED
    BY <1>2, <2>2, <2>3 DEF RetireRoute
<1> QED
  BY <1>1, <1>2

(* The end of a connection: only the registered one of the active client   *)
(* gives the route up, and no other one unregisters the owner.             *)
LEMMA UnregisterKeeps ==
    ASSUME TypeOK, TypeOK', IInv, NEW c \in Clients, NEW g \in Mains,
           At(c, g, "exit") \/ At(c, g, "read"), UnregisterMain(c, g)
    PROVE  IInv'
<1> DEFINE cg == <<c, g>>
           rd == reader[cg]
           s == session[c]
           owner == Registered(c, g) /\ route.active = c
           ended == IF owner THEN FocusEnded(s) ELSE s
           gone == IF Registered(c, g)
                     THEN [ended EXCEPT !.main = 0, !.focusToken = 0]
                     ELSE ended
<1>u. /\ queue' = queue /\ worker' = worker /\ comp' = comp /\ toolbar' = toolbar
      /\ posts' = posts /\ aux' = aux
      /\ session' = [session EXCEPT ![c] = Tidied(gone)]
      /\ route' = IF Registered(c, g) THEN Deactivated(route, c) ELSE route
      /\ IF owner THEN GoWith(c, g, "exitPost", route'.epoch)
         ELSE IF Registered(c, g) THEN GoTo(c, g, "exitResolve")
         ELSE GoTo(c, g, "done")
  BY DEF UnregisterMain
<1>n. ~ Announces(cg)
  BY DEF Announces, At
<1>r. cg \in Readers /\ route'.epoch \in Nat /\ s \in Session
  BY DEF TypeOK, Readers, RouteType
<1>1. CASE owner
  <2>1. route'.active = NoClient /\ RouteMints
    BY <1>u, <1>1, RouteGivenUp
  <2>2. RouteStep /\ RouteOrNone
    BY <2>1 DEF RouteStep, RouteOrNone
  <2>3. GoWith(c, g, "exitPost", route'.epoch) /\ FrameFits("exitPost", rd.frame)
    BY <1>u, <1>1 DEF FrameFits
  <2>4. /\ Sound(cg, reader'[cg], route', session')
        /\ \A d \in Readers \ {cg} : reader'[d] = reader[d]
        /\ ~ Announces(cg)'
    BY <1>r, <2>3, GoWithSound DEF ReaderPcs
  <2> QED
    BY <1>u, <1>n, <1>r, <2>2, <2>4, ReaderKeeps
<1>2. CASE ~ owner
  <2>1. route' = route
    BY <1>u, <1>2, RouteGivenUp
  <2>2. RouteStays
    <3>1. CASE route.active # c
      <4> HIDE DEF gone
      <4> QED
        BY <1>u, <2>1, <3>1, RouteStaysIf
    <3>2. CASE ~ Registered(c, g)
      <4>1. Tidied(gone).main = s.main
        BY <1>r, <1>2, <3>2, MainKept
      <4> HIDE DEF gone
      <4> QED
        BY <1>u, <2>1, <4>1, RouteStaysIf
    <3> QED
      BY <1>2, <3>1, <3>2
  <2>3. RouteStep /\ RouteOrNone
    BY <2>1, <2>2 DEF RouteStep, RouteOrNone
  <2>4. PICK pc \in {"exitResolve", "done"} : GoTo(c, g, pc)
    BY <1>u, <1>2
  <2>5. pc \in BarePcs
    BY <2>4 DEF BarePcs, ReaderPcs
  <2>6. /\ Sound(cg, reader'[cg], route', session')
        /\ \A d \in Readers \ {cg} : reader'[d] = reader[d]
        /\ ~ Announces(cg)'
    BY <2>4, <2>5, GoToSound
  <2> QED
    BY <1>u, <1>n, <1>r, <2>3, <2>6, ReaderKeeps
<1> QED
  BY <1>1, <1>2

-----------------------------------------------------------------------------
(* The steps that enqueue.                                                 *)

LEMMA EnqueueKeeps ==
    ASSUME TypeOK, TypeOK', IInv, NEW task \in Task, Enqueue(task),
           task.epoch <= route.epoch, ~ Current(task, "ClientActivated"),
           Current(task, "ImeKeyEvent") => ~ Announcing,
           session' = session, route' = route, comp' = comp, toolbar' = toolbar,
           posts' \cup aux' \subseteq posts \cup aux, ReadersSound',
           Announcing' = Announcing,
           \/ worker' = worker
           \/ worker.pc = "post" /\ worker' = Idle
    PROVE  IInv'
<1>1. RouteStep
  BY DEF RouteStep, RouteStays
<1>2. QueueStamped' /\ PendingStamped' /\ WorkerStamped'
  BY <1>1, QueueKept, PendingKept, WorkerKept DEF IInv, Enqueue
<1>3. KeysBehind' /\ OwnerServed'
  BY OrderAppended DEF IInv, Enqueue
<1> QED
  BY <1>2, <1>3 DEF IInv, Stamped

(* A thread without a reader of its own enqueues the end of an activation. *)
LEMMA PostsKeep ==
    ASSUME TypeOK, TypeOK', IInv,
           \/ \E task \in posts : PostInvalidated(task)
           \/ \E task \in aux : PostAux(task)
           \/ PostWriteFailure
    PROVE  IInv'
<1>1. ReadersSound'
  <2>1. RouteStep /\ reader' = reader
    BY DEF RouteStep, RouteStays, PostInvalidated, PostAux, PostWriteFailure
  <2> QED
    BY <2>1, ReadersUntouched DEF IInv
<1>2. Announcing' = Announcing
  BY DEF Announcing, Announces, PostInvalidated, PostAux, PostWriteFailure
<1>3. ASSUME NEW task \in posts \cup aux
      PROVE  /\ task \in Task /\ task.epoch <= route.epoch
             /\ ~ Current(task, "ClientActivated")
             /\ ~ Current(task, "ImeKeyEvent")
  BY DEF TypeOK, IInv, Stamped, PendingStamped, Current, LifecycleEnds
<1>4. ASSUME NEW task \in posts, PostInvalidated(task) PROVE IInv'
  BY <1>1, <1>2, <1>3, <1>4, EnqueueKeeps DEF PostInvalidated
<1>5. ASSUME NEW task \in aux, PostAux(task) PROVE IInv'
  BY <1>1, <1>2, <1>3, <1>5, EnqueueKeeps DEF PostAux
<1>6. CASE PostWriteFailure
  <2>1. /\ worker.task \in Task /\ worker.task.epoch <= route.epoch
        /\ ~ Current(worker.task, "ClientActivated")
        /\ ~ Current(worker.task, "ImeKeyEvent")
    BY <1>6 DEF PostWriteFailure, TypeOK, IInv, Stamped, WorkerStamped,
       Current, LifecycleEnds
  <2> QED
    BY <1>1, <1>2, <1>6, <2>1, EnqueueKeeps DEF PostWriteFailure
<1> QED
  BY <1>4, <1>5, <1>6

LEMMA TaskOfFrameFits ==
    ASSUME NEW f \in FrameNames, f # "ClientActivated"
    PROVE  /\ TaskOf[f] # "ClientActivated"
           /\ TaskOf[f] = "ImeKeyEvent" => f = "KeyEvent"
  BY DEF FrameNames, ImplicitFrames, DeactivationFrames, PlainFrames, TaskOf

(* A reader enqueues the task of its frame or the end of an activation: a  *)
(* key only of an activation that it has announced itself, or that was     *)
(* announced before.                                                       *)
LEMMA ReaderPostsKeep ==
    ASSUME TypeOK, TypeOK', IInv, NEW c \in Clients, NEW g \in Mains,
           PostSuperseded(c, g) \/ Post(c, g) \/ PostExit(c, g)
    PROVE  IInv'
<1> DEFINE cg == <<c, g>>
           rd == reader[cg]
<1>u. /\ session' = session /\ route' = route /\ worker' = worker
      /\ comp' = comp /\ toolbar' = toolbar /\ posts' = posts /\ aux' = aux
  BY DEF PostSuperseded, Post, PostExit
<1>n. ~ Announces(cg)
  BY DEF Announces, At, PostSuperseded, Post, PostExit
<1>r. /\ cg \in Readers /\ rd \in Reader /\ rd.epoch \in Nat
      /\ Sound(cg, rd, route, session)
      /\ rd.pc \in {"registered", "post", "exitPost"}
      /\ rd.epoch # 0 /\ rd.epoch <= route.epoch
      /\ rd.pc = "post" => rd.frame \in FrameNames
  <2>1. /\ cg \in Readers /\ rd \in Reader /\ rd.epoch \in Nat
        /\ Sound(cg, rd, route, session)
    BY DEF TypeOK, Reader, Readers, IInv, ReadersSound
  <2>2. rd.pc \in {"registered", "post", "exitPost"}
    BY DEF PostSuperseded, Post, PostExit, At
  <2>3. rd.epoch # 0 /\ (rd.pc = "post" => rd.frame \in FrameNames)
    BY <2>1, <2>2 DEF Reader, PostPcs, FramePcs
  <2>4. rd.epoch <= route.epoch
    BY <2>1 DEF Sound
  <2> QED
    BY <2>1, <2>2, <2>3, <2>4
<1>1. PICK pc \in {"negotiate", "read", "done"} : GoTo(c, g, pc)
  BY DEF PostSuperseded, Post, PostExit
<1>2. /\ Sound(cg, reader'[cg], route', session')
      /\ \A d \in Readers \ {cg} : reader'[d] = reader[d]
      /\ ~ Announces(cg)'
  <2>1. pc \in BarePcs
    BY <1>1 DEF BarePcs, ReaderPcs
  <2> QED
    BY <1>1, <2>1, GoToSound
<1>3. ReadersSound'
  <2>1. RouteStep
    BY <1>u DEF RouteStep, RouteStays
  <2> QED
    BY <1>r, <1>2, <2>1, ReadersKept DEF IInv
<1>4. Announcing' = Announcing
  BY <1>u, <1>n, <1>r, <1>2, AnnouncingKept
<1>k. ASSUME NEW task \in Task, Enqueue(task), task.epoch = rd.epoch,
             ~ Current(task, "ClientActivated"),
             Current(task, "ImeKeyEvent") => ~ Announcing
      PROVE  IInv'
  BY <1>k, <1>u, <1>r, <1>3, <1>4, EnqueueKeeps
<1>5. CASE PostSuperseded(c, g) \/ PostExit(c, g)
  <2> DEFINE task == NewTask("ClientSuspended", c, rd.epoch)
  <2>1. task \in Task /\ Enqueue(task)
    BY <1>5, <1>r, TaskOps DEF PostSuperseded, PostExit, TaskTypes
  <2>2. /\ task.epoch = rd.epoch
        /\ ~ Current(task, "ClientActivated") /\ ~ Current(task, "ImeKeyEvent")
    BY DEF NewTask, Current
  <2> HIDE DEF task
  <2> QED
    BY <1>k, <2>1, <2>2
<1>6. CASE Post(c, g)
  <2> DEFINE task == NewTask(TaskOf[rd.frame], c, rd.epoch)
  <2>1. rd.pc = "post" /\ Enqueue(task)
    BY <1>6 DEF Post, At
  <2>2. rd.frame \in FrameNames /\ rd.frame # "ClientActivated"
    BY <1>r, <2>1 DEF Sound, FrameFits
  <2>3. task \in Task
    BY <1>r, <2>2, TaskOfFrame, TaskOps
  <2>4. task.epoch = rd.epoch /\ task.type = TaskOf[rd.frame] /\ task.client = c
    BY DEF NewTask
  <2> HIDE DEF task
  <2>5. ~ Current(task, "ClientActivated")
    BY <2>2, <2>4, TaskOfFrameFits DEF Current
  <2>6. ASSUME Current(task, "ImeKeyEvent"), Announcing PROVE FALSE
    <3>1. rd.frame = "KeyEvent" /\ rd.epoch = route.epoch
      BY <2>2, <2>4, <2>6, TaskOfFrameFits DEF Current, Matches
    <3>2. Carries(rd)
      BY <2>1, <3>1 DEF Carries
    <3>3. PICK d \in Readers : Announces(d)
      BY <2>6 DEF Announcing
    <3>4. d = cg
      BY <1>r, <3>1, <3>2, <3>3, OneCarrier DEF IInv
    <3> QED
      BY <1>n, <3>3, <3>4
  <2> QED
    BY <1>k, <2>1, <2>3, <2>4, <2>5, <2>6
<1> QED
  BY <1>5, <1>6

LEMMA AnnounceKeeps ==
    ASSUME TypeOK, TypeOK', IInv, NEW c \in Clients, NEW g \in Mains,
           Announce(c, g)
    PROVE  IInv'
<1> DEFINE cg == <<c, g>>
           rd == reader[cg]
           task == NewTask("ClientActivated", c, rd.epoch)
<1>u. /\ session' = session /\ route' = route /\ worker' = worker
      /\ comp' = comp /\ toolbar' = toolbar /\ posts' = posts /\ aux' = aux
      /\ Enqueue(task) /\ rd.pc = "announce"
  BY DEF Announce, At
<1>r. /\ cg \in Readers /\ rd \in Reader /\ rd.epoch \in Nat /\ rd.epoch # 0
      /\ Sound(cg, rd, route, session) /\ rd.epoch <= route.epoch
      /\ rd.frame \in {"ClientActivated"} \cup ImplicitFrames
  <2>1. /\ cg \in Readers /\ rd \in Reader /\ rd.epoch \in Nat
        /\ Sound(cg, rd, route, session)
    BY DEF TypeOK, Reader, Readers, IInv, ReadersSound
  <2>2. rd.epoch # 0
    BY <1>u, <2>1 DEF Reader, PostPcs
  <2> QED
    BY <1>u, <2>1, <2>2 DEF Sound, FrameFits
<1>t. /\ task \in Task /\ task.epoch = rd.epoch /\ task.type = "ClientActivated"
      /\ task.client = c
  BY <1>r, TaskOps DEF NewTask, TaskTypes
<1> HIDE DEF task
<1>1. /\ Sound(cg, reader'[cg], route', session')
      /\ \A d \in Readers \ {cg} : reader'[d] = reader[d]
      /\ ~ Announces(cg)'
  <2>1. CASE rd.frame = "ClientActivated"
    <3>1. GoTo(c, g, "read") /\ "read" \in BarePcs
      BY <2>1 DEF Announce, BarePcs, ReaderPcs
    <3> QED
      BY <3>1, GoToSound
  <2>2. CASE rd.frame # "ClientActivated"
    <3>1. GoWith(c, g, "gate", rd.epoch) /\ FrameFits("gate", rd.frame)
      BY <1>r, <2>2 DEF Announce, FrameFits
    <3>2. \/ rd.epoch # route'.epoch
          \/ route'.active = c /\ session'[c].main = g
      BY <1>u, <1>r DEF Sound, Carries
    <3>3. rd.epoch <= route'.epoch
      BY <1>u, <1>r
    <3> QED
      BY <1>r, <3>1, <3>2, <3>3, GoWithSound DEF ReaderPcs
  <2> QED
    BY <2>1, <2>2
<1>2. RouteStep
  BY <1>u DEF RouteStep, RouteStays
<1>3. ReadersSound'
  BY <1>r, <1>1, <1>2, ReadersKept DEF IInv
<1>4. CASE rd.epoch # route.epoch
  <2>1. ~ Announces(cg)
    BY <1>4 DEF Announces
  <2>2. Announcing' = Announcing
    BY <1>u, <1>r, <1>1, <2>1, AnnouncingKept
  <2>3. ~ Current(task, "ClientActivated") /\ ~ Current(task, "ImeKeyEvent")
    BY <1>4, <1>t DEF Current, Matches
  <2> QED
    BY <1>u, <1>r, <1>t, <1>3, <2>2, <2>3, EnqueueKeeps
<1>5. CASE rd.epoch = route.epoch
  <2>1. Announces(cg) /\ Announcing
    BY <1>u, <1>r, <1>5 DEF Announces, Announcing
  <2>2. ~ Announcing'
    <3> SUFFICES ASSUME NEW d \in Readers, reader'[d].pc = "announce",
                        reader'[d].epoch = route'.epoch
                 PROVE  FALSE
      BY DEF Announcing, Announces
    <3>1. d # cg
      BY <1>1 DEF Announces
    <3>2. Announces(d)
      BY <1>u, <1>1, <3>1 DEF Announces
    <3>3. Carries(rd)
      BY <1>u DEF Carries
    <3>4. d = cg
      BY <1>r, <1>5, <3>2, <3>3, OneCarrier DEF IInv
    <3> QED
      BY <3>1, <3>4
  <2>3. Current(task, "ClientActivated")
    <3>1. route.active = c
      BY <1>u, <1>r, <1>5 DEF Sound, Carries
    <3> QED
      BY <1>5, <1>t, <3>1 DEF Current, Matches
  <2>4. KeysBehind' /\ OwnerServed'
    BY <1>u, <2>1, <2>2, <2>3, OrderAnnounced DEF IInv, Enqueue
  <2>5. QueueStamped' /\ PendingStamped' /\ WorkerStamped'
    BY <1>u, <1>r, <1>t, <1>2, QueueKept, PendingKept, WorkerKept
       DEF IInv, Enqueue
  <2> QED
    BY <1>3, <2>4, <2>5 DEF IInv, Stamped
<1> QED
  BY <1>4, <1>5

-----------------------------------------------------------------------------
(* The worker.                                                             *)

LEMMA WorkerKeeps ==
    ASSUME TypeOK, TypeOK', IInv, WorkerStep
    PROVE  IInv'
<1>k. ASSUME RouteStep, reader' = reader,
             posts' = posts, aux' = aux, QueueStamped', WorkerStamped',
             KeysBehind' /\ OwnerServed'
      PROVE  IInv'
  <2>1. ReadersSound' /\ PendingStamped'
    BY <1>k, ReadersUntouched, PendingKept DEF IInv
  <2> QED
    BY <1>k, <2>1 DEF IInv, Stamped
<1>s. ASSUME session' = session, route' = route PROVE RouteStep
  BY <1>s DEF RouteStep, RouteStays
<1>1. CASE Take
  <2>1. RouteStep
    BY <1>1, <1>s DEF Take
  <2>2. QueueStamped'
    BY <1>1, <2>1, QueueKept DEF Take, IInv
  <2>3. WorkerStamped'
    <3>1. CASE IsCurrent(Head(queue))
      <4>1. worker' = [pc |-> "run", task |-> Head(queue)] /\ route' = route
        BY <1>1, <3>1 DEF Take
      <4>2. Head(queue).epoch = route.epoch
        BY <3>1 DEF IsCurrent, Matches
      <4>3. route.epoch \in Nat
        BY DEF TypeOK, RouteType
      <4> QED
        BY <4>1, <4>2, <4>3 DEF WorkerStamped
    <3>2. CASE ~ IsCurrent(Head(queue))
      <4>1. worker' = worker
        BY <1>1, <3>2 DEF Take
      <4> QED
        BY <2>1, <4>1, WorkerKept DEF IInv
    <3> QED
      BY <3>1, <3>2
  <2>4. KeysBehind' /\ OwnerServed'
    BY <1>1, OrderTaken DEF IInv
  <2> QED
    BY <1>1, <1>k, <2>1, <2>2, <2>3, <2>4 DEF Take
<1>r. ASSUME session' = session, route' = route, reader' = reader,
             queue' = queue, posts' = posts, aux' = aux,
             worker.pc = "run", worker' = Idle,
             \/ /\ worker.task.type = "ClientActivated"
                /\ comp' = {} /\ toolbar' = TRUE
             \/ worker.task.type = "ClientDeactivated"
             \/ /\ worker.task.type \notin {"ClientActivated", "ClientDeactivated"}
                /\ comp' \in {comp, {}} /\ toolbar' = toolbar
             \/ /\ Running("ImeKeyEvent") /\ toolbar' = toolbar
                /\ comp' = comp \cup {<<worker.task.client, worker.task.epoch>>}
      PROVE  IInv'
  <2>1. RouteStep
    BY <1>r, <1>s
  <2>2. QueueStamped' /\ WorkerStamped'
    BY <1>r, <2>1, QueueKept, WorkerKept DEF IInv
  <2>3. KeysBehind' /\ OwnerServed'
    BY <1>r, OrderRun DEF IInv
  <2> QED
    BY <1>r, <1>k, <2>1, <2>2, <2>3
<1>2. CASE RunActivated \/ RunDeactivated \/ RunSuspended
  BY <1>2, <1>r DEF RunActivated, RunDeactivated, RunSuspended, Running
<1>3. CASE RunHide \/ RunSnapshot \/ RunShow
  <2>1. /\ session' = session /\ route' = route /\ reader' = reader
        /\ queue' = queue /\ posts' = posts /\ aux' = aux
        /\ worker.pc = "run" /\ worker' = Idle
        /\ comp' \in {comp, {}} /\ toolbar' = toolbar
        /\ worker.task.type \notin {"ClientActivated", "ClientDeactivated"}
    BY <1>3 DEF RunHide, RunSnapshot, RunShow, Running
  <2> QED
    BY <1>r, <2>1
<1>4. CASE RunKey
  <2> DEFINE c == worker.task.client
             e == worker.task.epoch
             s == session[c]
  <2>t. /\ c \in Clients /\ worker.pc = "run" /\ Running("ImeKeyEvent")
        /\ s \in Session /\ session \in [Clients -> Session]
    BY <1>4 DEF RunKey, Running, TypeOK, Task
  <2>u. /\ reader' = reader /\ queue' = queue /\ posts' = posts /\ aux' = aux
    BY <1>4 DEF RunKey
  <2>1. CASE /\ session' = session /\ route' = route /\ worker' = Idle
             /\ comp' \in {comp \cup {<<c, e>>}, {}}
    <3>1. /\ worker.task.type \notin {"ClientActivated", "ClientDeactivated"}
          /\ toolbar' = toolbar
      BY <1>4, <2>t DEF RunKey, Running
    <3> QED
      BY <1>r, <2>t, <2>u, <2>1, <3>1
  <2>2. CASE /\ Matches(route, c, e)
             /\ route' = Invalidated(route, c, e)
             /\ worker' = [pc |-> "post",
                           task |-> NewTask("ClientSuspended", c, route'.epoch)]
    <3>1. route'.active = NoClient /\ RouteMints
      BY <2>t, <2>2, RouteGivenUp
    <3>2. RouteStep
      BY <3>1 DEF RouteStep
    <3>3. QueueStamped'
      BY <2>u, <3>2, QueueKept DEF IInv
    <3>4. WorkerStamped'
      <4>1. route'.epoch \in Nat
        BY DEF TypeOK, RouteType
      <4> QED
        BY <2>2, <4>1 DEF WorkerStamped, NewTask, LifecycleEnds
    <3>5. KeysBehind' /\ OwnerServed'
      BY <3>1, NobodyActive
    <3> QED
      BY <1>k, <2>u, <3>2, <3>3, <3>4, <3>5
  <2> QED
    BY <1>4, <2>1, <2>2 DEF RunKey
<1>5. CASE PostWriteFailure
  BY <1>5, PostsKeep
<1> QED
  BY <1>1, <1>2, <1>3, <1>4, <1>5 DEF WorkerStep

LEMMA NextKeeps ==
    ASSUME TypeOK, TypeOK', IInv, [Next]_vars
    PROVE  IInv'
<1>1. CASE Environment
  <2>1. ASSUME NEW c \in Clients, NEW r \in Routes,
               RegisterReverse(c, r) PROVE IInv'
    BY <2>1, MainsExist, ReversesKeep
  <2>2. ASSUME NEW c \in Clients, NEW r \in Routes, NEW h \in 1 .. MaxReverses,
               UnregisterReverse(c, r, h) PROVE IInv'
    BY <2>2, ReversesKeep, BoundsAssumption
  <2>3. ASSUME NEW c \in Clients, WorkerPipeWriteFails(c) PROVE IInv'
    BY <2>3, MainsExist, ReversesKeep
  <2>4. ASSUME NEW c \in Clients, NEW token \in 1 .. MaxTokens,
               AuxTerminal(c, token) PROVE IInv'
    BY <2>4, AuxKeeps
  <2>5. ASSUME NEW c \in Clients, NEW g \in Mains,
               RegisterMain(c, g) PROVE IInv'
    BY <2>5, RegisterMainKeeps
  <2>6. ASSUME NEW c \in Clients, NEW g \in Mains,
               FindSuperseded(c, g) \/ Disconnect(c, g) PROVE IInv'
    BY <2>6, UnregisterKeeps DEF FindSuperseded, Disconnect
  <2>7. ASSUME NEW c \in Clients, NEW g \in Mains, NEW f \in Frames,
               ReadFrame(c, g, f) PROVE IInv'
    BY <2>7, LocalKeeps
  <2> QED
    BY <1>1, <2>1, <2>2, <2>3, <2>4, <2>5, <2>6, <2>7 DEF Environment
<1>2. ASSUME NEW c \in Clients, NEW g \in Mains, ReaderStep(c, g)
      PROVE  IInv'
  <2>1. CASE \/ PostSuperseded(c, g) \/ Post(c, g) \/ PostExit(c, g)
    BY <2>1, ReaderPostsKeep
  <2>2. CASE \/ Negotiate(c, g) \/ Attribute(c, g) \/ Gate(c, g)
             \/ ResolveTerminal(c, g) \/ ResolveExit(c, g)
    BY <2>2, LocalKeeps
  <2>3. CASE ActivateExplicit(c, g) \/ ActivateImplicit(c, g)
    BY <2>3, ActivationsKeep
  <2>4. CASE DeactivateRoute(c, g) \/ RetireRoute(c, g)
    BY <2>4, DeactivationsKeep
  <2>5. CASE Announce(c, g)
    BY <2>5, AnnounceKeeps
  <2>6. CASE RefuseHello(c, g)
    BY <2>6, UnregisterKeeps DEF RefuseHello
  <2> QED
    BY <1>2, <2>1, <2>2, <2>3, <2>4, <2>5, <2>6 DEF ReaderStep
<1>3. CASE \/ \E task \in posts : PostInvalidated(task)
           \/ \E task \in aux : PostAux(task)
  BY <1>3, PostsKeep
<1>4. CASE WorkerStep
  BY <1>4, WorkerKeeps
<1>5. CASE UNCHANGED vars
  <2>1. /\ session' = session /\ route' = route /\ reader' = reader
        /\ posts' = posts /\ aux' = aux /\ queue' = queue
        /\ worker' = worker /\ comp' = comp /\ toolbar' = toolbar
    BY <1>5 DEF vars
  <2>2. RouteStep /\ RouteOrNone
    BY <2>1 DEF RouteStep, RouteStays, RouteOrNone
  <2>3. Announcing' = Announcing
    BY <2>1 DEF Announcing, Announces
  <2>4. ReadersSound' /\ PendingStamped'
    BY <2>1, <2>2, ReadersUntouched, PendingKept DEF IInv
  <2> QED
    BY <2>1, <2>2, <2>3, <2>4, Bystander
<1> QED
  BY <1>1, <1>2, <1>3, <1>4, <1>5 DEF Next

LEMMA InvCorrect == Spec => []IInv
<1>1. TypeOK /\ TypeOK' /\ IInv /\ [Next]_vars => IInv'
  BY NextKeeps
<1> QED
  BY <1>1, InitInv, TypeCorrect, PTL DEF Spec

(* For any number of clients, connections and inputs: when the worker can  *)
(* still answer a key, the composition holds keys of that key's activation *)
(* only, although no lock is held from the staleness check to the reply.   *)
THEOREM RepliesFromOwnKeys == Spec => []ReplyFromOwnKeys
  BY OwnReply, InvCorrect, TypeCorrect, PTL

-----------------------------------------------------------------------------
(* What is left behind when nobody owns the route.                         *)
EInv == NobodyServed /\ AuxSingle

LEMMA InitEnd == Init => EInv
  BY DEF Init, EInv, NobodyServed, Running, AuxSingle

LEMMA EndQueuedStays ==
    ASSUME TypeOK, route' = route,
           queue' = queue \/ \E task : queue' = Append(queue, task)
    PROVE  EndQueued => EndQueued'
<1>1. CASE queue' = queue
  BY <1>1 DEF EndQueued
<1>2. ASSUME NEW task, queue' = Append(queue, task), EndQueued
      PROVE  EndQueued'
  <2>1. PICK i \in 1 .. Len(queue) :
          queue[i].type \in LifecycleEnds /\ queue[i].epoch = route.epoch
    BY <1>2 DEF EndQueued
  <2>2. i \in 1 .. Len(queue') /\ queue'[i] = queue[i]
    BY <1>2, Appended, QueueTasks
  <2> QED
    BY <2>1, <2>2 DEF EndQueued
<1> QED
  BY <1>1, <1>2

LEMMA EndAppended ==
    ASSUME TypeOK, NEW task, queue' = Append(queue, task),
           task.type \in LifecycleEnds, task.epoch = route'.epoch
    PROVE  EndQueued'
<1>1. Len(queue') = Len(queue) + 1 /\ queue'[Len(queue) + 1] = task
  BY Appended
<1>2. Len(queue) + 1 \in 1 .. Len(queue')
  BY <1>1, QueueTasks
<1>3. queue'[Len(queue')] = task /\ Len(queue') \in 1 .. Len(queue')
  BY <1>1, <1>2
<1> QED
  BY <1>3 DEF EndQueued

(* The ways a step can leave it: with an owner, with a new end, or with    *)
(* the ends there were.                                                    *)
LEMMA EndNew ==
    ASSUME route'.active # NoClient \/ EndComing'
    PROVE  NobodyServed'
  BY DEF NobodyServed

LEMMA EndStays ==
    ASSUME route' = route, comp' = comp, NobodyServed, EndComing => EndComing',
           \/ worker' = worker
           \/ worker.pc = "post" /\ worker' = Idle
    PROVE  NobodyServed'
<1>1. (EndRuns' <=> EndRuns)
      /\ (Running("ImeKeyEvent")' <=> Running("ImeKeyEvent"))
  BY DEF EndRuns, Running, Idle
<1> QED
  BY <1>1 DEF NobodyServed

(* A step of a reader that carried no end, or of another thread. *)
LEMMA EndNotCarried ==
    ASSUME TypeOK, route' = route, comp' = comp, worker' = worker, NobodyServed,
           posts \subseteq posts', aux \subseteq aux',
           queue' = queue \/ \E task : queue' = Append(queue, task),
           \/ reader' = reader
           \/ \E cg \in Readers :
                /\ ~ Ends(reader[cg])
                /\ \A d \in Readers \ {cg} : reader'[d] = reader[d]
    PROVE  NobodyServed'
<1>1. EndQueued => EndQueued'
  BY EndQueuedStays
<1>2. ASSUME NEW cg \in Readers, Ends(reader[cg]), reader[cg].epoch = route.epoch
      PROVE  Ends(reader'[cg]) /\ reader'[cg].epoch = route'.epoch
  BY <1>2
<1>3. EndPosted => EndPosted'
  <2>1. CASE \E cg \in Readers : Ends(reader[cg]) /\ reader[cg].epoch = route.epoch
    <3>1. \E cg \in Readers : Ends(reader'[cg]) /\ reader'[cg].epoch = route'.epoch
      BY <1>2, <2>1
    <3> QED
      BY <3>1 DEF EndPosted, Ends
  <2>2. CASE \E task \in posts \cup aux : task.epoch = route.epoch
    <3>1. \E task \in posts' \cup aux' : task.epoch = route'.epoch
      BY <2>2
    <3> QED
      BY <3>1 DEF EndPosted
  <2>3. CASE worker.pc = "post" /\ worker.task.epoch = route.epoch
    BY <2>3 DEF EndPosted
  <2> QED
    BY <2>1, <2>2, <2>3 DEF EndPosted
<1>4. EndComing => EndComing'
  BY <1>1, <1>3 DEF EndComing
<1> QED
  BY <1>4, EndStays

LEMMA EndInHand ==
    ASSUME TypeOK, NEW c \in Clients, NEW g \in Mains, NEW pc \in ReaderPcs,
           GoWith(c, g, pc, route'.epoch),
           \/ pc \in {"registered", "exitPost"}
           \/ pc = "post" /\ reader[<<c, g>>].frame \in DeactivationFrames
    PROVE  EndComing'
<1>1. <<c, g>> \in Readers
  BY DEF Readers
<1>2. /\ reader'[<<c, g>>].pc = pc /\ reader'[<<c, g>>].epoch = route'.epoch
      /\ reader'[<<c, g>>].frame = reader[<<c, g>>].frame
  BY <1>1 DEF GoWith, TypeOK, Reader
<1>3. Ends(reader'[<<c, g>>])
  BY <1>2 DEF Ends
<1>4. EndPosted'
  BY <1>1, <1>2, <1>3 DEF EndPosted, Ends
<1> QED
  BY <1>4 DEF EndComing

LEMMA EndHandedOver ==
    ASSUME \E task \in posts' \cup aux' : task.epoch = route'.epoch
    PROVE  EndComing'
  BY DEF EndComing, EndPosted

LEMMA PipesEnd ==
    ASSUME TypeOK, TypeOK', EInv, NEW c \in Clients, NEW g \in Mains,
           NEW r \in Routes, NEW h \in Nat,
           \/ RegisterMain(c, g)
           \/ RegisterReverse(c, r)
           \/ UnregisterReverse(c, r, h)
           \/ WorkerPipeWriteFails(c)
    PROVE  EInv'
<1>a. AuxSingle'
  BY DEF EInv, AuxSingle, RegisterMain, RegisterReverse, UnregisterReverse,
     WorkerPipeWriteFails
<1>t. route'.epoch # 0 /\ <<c, g>> \in Readers
  BY DEF TypeOK, RouteType, Readers
<1>i. \A e : e # 0 => \E task \in Invalidation(c, e) : task.epoch = e
  BY DEF Invalidation, NewTask
<1>1. CASE RegisterMain(c, g)
  <2>1. CASE route.active = c
    <3>1. GoWith(c, g, "registered", route'.epoch)
      BY <1>1, <2>1 DEF RegisterMain
    <3>2. EndComing'
      BY <3>1, EndInHand DEF ReaderPcs
    <3> QED
      BY <1>a, <3>2, EndNew DEF EInv
  <2>2. CASE route.active # c
    <3>1. route' = route
      BY <1>1, <2>2, RouteGivenUp DEF RegisterMain
    <3>2. /\ ~ Ends(reader[<<c, g>>])
          /\ \A d \in Readers \ {<<c, g>>} : reader'[d] = reader[d]
      BY <1>1, <2>2 DEF RegisterMain, At, Ends, GoTo, TypeOK
    <3> QED
      BY <1>1, <1>a, <1>t, <3>1, <3>2, EndNotCarried DEF RegisterMain, EInv
  <2> QED
    BY <2>1, <2>2
<1>2. CASE RegisterReverse(c, r)
  BY <1>2, <1>a, EndNotCarried DEF RegisterReverse, EInv
<1>3. CASE UnregisterReverse(c, r, h)
  <2> DEFINE owner == session[c].reverse[r] = h /\ route.active = c
  <2>1. CASE owner
    <3>1. posts' = posts \cup Invalidation(c, route'.epoch)
      BY <1>3, <2>1 DEF UnregisterReverse
    <3>2. EndComing'
      BY <1>t, <1>i, <3>1, EndHandedOver
    <3> QED
      BY <1>a, <3>2, EndNew DEF EInv
  <2>2. CASE ~ owner
    <3>1. route' = route
      BY <1>3, <2>2, RouteGivenUp DEF UnregisterReverse
    <3> QED
      BY <1>3, <1>a, <3>1, EndNotCarried DEF UnregisterReverse, EInv
  <2> QED
    BY <2>1, <2>2
<1>4. CASE WorkerPipeWriteFails(c)
  <2>1. CASE route.active = c
    <3>1. posts' = posts \cup Invalidation(c, route'.epoch)
      BY <1>4, <2>1 DEF WorkerPipeWriteFails
    <3>2. EndComing'
      BY <1>t, <1>i, <3>1, EndHandedOver
    <3> QED
      BY <1>a, <3>2, EndNew DEF EInv
  <2>2. CASE route.active # c
    <3>1. route' = route
      BY <1>4, <2>2, RouteGivenUp DEF WorkerPipeWriteFails, Matches
    <3> QED
      BY <1>4, <1>a, <3>1, EndNotCarried DEF WorkerPipeWriteFails, EInv
  <2> QED
    BY <2>1, <2>2
<1> QED
  BY <1>1, <1>2, <1>3, <1>4

LEMMA AuxEnd ==
    ASSUME TypeOK, TypeOK', EInv, NEW c \in Clients,
           NEW token \in 1 .. MaxTokens, AuxTerminal(c, token)
    PROVE  EInv'
<1>1. \E e : aux' = {NewTask("ClientDeactivated", c, e)} /\ e = route'.epoch
  <2>1. CASE aux' = {NewTask("ClientDeactivated", c, route'.epoch)}
    BY <2>1
  <2>2. CASE /\ TerminalEpoch(route, c) # 0 /\ route' = route
             /\ aux' = {NewTask("ClientDeactivated", c, TerminalEpoch(route, c))}
    BY <2>2 DEF TerminalEpoch
  <2> QED
    BY <2>1, <2>2 DEF AuxTerminal, registry
<1>2. EndComing'
  <2>1. \E task \in aux' : task.epoch = route'.epoch
    BY <1>1 DEF NewTask
  <2> QED
    BY <2>1, EndHandedOver
<1>3. AuxSingle'
  BY <1>1 DEF AuxSingle
<1> QED
  BY <1>2, <1>3, EndNew DEF EInv

(* The steps of a reader that has no end to enqueue. *)
LEMMA ReadersEnd ==
    ASSUME TypeOK, TypeOK', IInv, EInv, NEW c \in Clients, NEW g \in Mains,
           \/ Negotiate(c, g)
           \/ \E f \in Frames : ReadFrame(c, g, f)
           \/ ActivateExplicit(c, g)
           \/ ActivateImplicit(c, g)
           \/ Attribute(c, g)
           \/ Announce(c, g)
           \/ Gate(c, g)
           \/ DeactivateRoute(c, g)
           \/ ResolveTerminal(c, g)
           \/ RetireRoute(c, g)
           \/ (At(c, g, "exit") \/ At(c, g, "read")) /\ UnregisterMain(c, g)
           \/ ResolveExit(c, g)
    PROVE  EInv'
<1> DEFINE cg == <<c, g>>
<1>u. /\ comp' = comp /\ worker' = worker /\ posts' = posts /\ aux' = aux
      /\ queue' = queue \/ \E task : queue' = Append(queue, task)
  BY DEF Negotiate, ReadFrame, ActivateExplicit, ActivateImplicit, Attribute,
     Announce, Gate, DeactivateRoute, ResolveTerminal, RetireRoute,
     UnregisterMain, ResolveExit, Enqueue
<1>a. AuxSingle'
  BY <1>u DEF EInv, AuxSingle
<1>n. ~ Ends(reader[cg]) /\ cg \in Readers
  BY DEF Negotiate, ReadFrame, ActivateExplicit, ActivateImplicit, Attribute,
     Announce, Gate, DeactivateRoute, ResolveTerminal, RetireRoute,
     ResolveExit, At, Ends, Readers
<1>d. \A d \in Readers \ {cg} : reader'[d] = reader[d]
  BY DEF Negotiate, ReadFrame, ActivateExplicit, ActivateImplicit, Attribute,
     Announce, Gate, DeactivateRoute, ResolveTerminal, RetireRoute,
     UnregisterMain, ResolveExit, GoTo, GoWith, TypeOK
<1>k. ASSUME route' = route PROVE EInv'
  BY <1>k, <1>u, <1>a, <1>n, <1>d, EndNotCarried DEF EInv
<1>e. ASSUME route'.active # NoClient \/ EndComing' PROVE EInv'
  BY <1>e, <1>a, EndNew DEF EInv
<1>1. CASE \/ Negotiate(c, g) \/ \E f \in Frames : ReadFrame(c, g, f)
           \/ Attribute(c, g) \/ Announce(c, g) \/ Gate(c, g)
           \/ ResolveTerminal(c, g) \/ ResolveExit(c, g)
  BY <1>1, <1>k DEF Negotiate, ReadFrame, Attribute, Announce, Gate,
     ResolveTerminal, ResolveExit
<1>2. CASE ActivateExplicit(c, g) \/ ActivateImplicit(c, g)
  <2>1. route' = route \/ route'.active = c
    BY <1>2 DEF ActivateExplicit, ActivateImplicit, registry, Activated, Renewed
  <2> QED
    BY <1>k, <1>e, <2>1, ClientsAssumption
<1>3. CASE DeactivateRoute(c, g)
  <2>1. \/ route' = route
        \/ /\ GoWith(c, g, "post", route'.epoch)
           /\ reader[cg].frame \in DeactivationFrames
    BY <1>3 DEF DeactivateRoute, registry
  <2> QED
    BY <1>k, <1>e, <2>1, EndInHand DEF ReaderPcs
<1>4. CASE RetireRoute(c, g)
  <2>1. reader[cg].frame \in DeactivationFrames
    BY <1>4, <1>n DEF IInv, ReadersSound, Sound, FrameFits, RetireRoute, At,
       DeactivationFrames
  <2>2. route' = route \/ GoWith(c, g, "post", route'.epoch)
    BY <1>4 DEF RetireRoute, registry
  <2> QED
    BY <1>k, <1>e, <2>1, <2>2, EndInHand DEF ReaderPcs
<1>5. CASE UnregisterMain(c, g)
  <2>1. CASE Registered(c, g) /\ route.active = c
    <3>1. GoWith(c, g, "exitPost", route'.epoch)
      BY <1>5, <2>1 DEF UnregisterMain
    <3> QED
      BY <1>e, <3>1, EndInHand DEF ReaderPcs
  <2>2. CASE ~ (Registered(c, g) /\ route.active = c)
    <3>1. route' = route
      BY <1>5, <2>2, RouteGivenUp DEF UnregisterMain
    <3> QED
      BY <1>k, <3>1
  <2> QED
    BY <2>1, <2>2
<1> QED
  BY <1>1, <1>2, <1>3, <1>4, <1>5

(* A thread enqueues the end that it carried; the others stay where they   *)
(* are.                                                                    *)
LEMMA PostersEnd ==
    ASSUME TypeOK, TypeOK', IInv, EInv,
           \/ \E task \in posts : PostInvalidated(task)
           \/ \E task \in aux : PostAux(task)
           \/ PostWriteFailure
    PROVE  EInv'
<1>u. /\ route' = route /\ comp' = comp /\ reader' = reader
      /\ \/ worker' = worker
         \/ worker.pc = "post" /\ worker' = Idle
  BY DEF PostInvalidated, PostAux, PostWriteFailure
<1>a. AuxSingle'
  BY DEF EInv, AuxSingle, PostInvalidated, PostAux, PostWriteFailure
<1>k. ASSUME NEW task, queue' = Append(queue, task), task.type \in LifecycleEnds,
             EndPosted => EndPosted' \/ task.epoch = route'.epoch
      PROVE  EInv'
  <2>1. EndQueued => EndQueued'
    BY <1>u, <1>k, EndQueuedStays
  <2>2. task.epoch = route'.epoch => EndQueued'
    BY <1>k, EndAppended
  <2>3. EndComing => EndComing'
    BY <1>k, <2>1, <2>2 DEF EndComing
  <2> QED
    BY <1>u, <1>a, <2>3, EndStays DEF EInv
<1>r. (\E cg \in Readers : Ends(reader[cg]) /\ reader[cg].epoch = route.epoch)
        => EndPosted'
  BY <1>u DEF EndPosted, Ends
<1>1. ASSUME NEW task \in posts, PostInvalidated(task) PROVE EInv'
  <2>1. task.type \in LifecycleEnds
    BY DEF IInv, Stamped, PendingStamped
  <2>2. /\ posts' = posts \ {task} /\ aux' = aux /\ worker' = worker
        /\ queue' = Append(queue, task)
    BY <1>1 DEF PostInvalidated, Enqueue
  <2>3. EndPosted => EndPosted' \/ task.epoch = route'.epoch
    BY <1>u, <1>r, <2>2 DEF EndPosted
  <2> QED
    BY <1>k, <2>1, <2>2, <2>3
<1>2. ASSUME NEW task \in aux, PostAux(task) PROVE EInv'
  <2>1. task.type \in LifecycleEnds
    BY DEF IInv, Stamped, PendingStamped
  <2>2. /\ posts' = posts /\ aux = {task} /\ worker' = worker
        /\ queue' = Append(queue, task)
    BY <1>2 DEF PostAux, Enqueue, EInv, AuxSingle
  <2>3. EndPosted => EndPosted' \/ task.epoch = route'.epoch
    BY <1>u, <1>r, <2>2 DEF EndPosted
  <2> QED
    BY <1>k, <2>1, <2>2, <2>3
<1>3. CASE PostWriteFailure
  <2>1. worker.task.type \in LifecycleEnds
    BY <1>3 DEF IInv, Stamped, WorkerStamped, PostWriteFailure
  <2>2. posts' = posts /\ aux' = aux /\ queue' = Append(queue, worker.task)
    BY <1>3 DEF PostWriteFailure, Enqueue
  <2>3. EndPosted => EndPosted' \/ worker.task.epoch = route'.epoch
    BY <1>u, <1>r, <2>2 DEF EndPosted
  <2> QED
    BY <1>k, <2>1, <2>2, <2>3
<1> QED
  BY <1>1, <1>2, <1>3

LEMMA ReaderPostsEnd ==
    ASSUME TypeOK, TypeOK', EInv, NEW c \in Clients, NEW g \in Mains,
           PostSuperseded(c, g) \/ Post(c, g) \/ PostExit(c, g)
    PROVE  EInv'
<1> DEFINE cg == <<c, g>>
           rd == reader[cg]
<1>u. /\ route' = route /\ comp' = comp /\ worker' = worker
      /\ posts' = posts /\ aux' = aux
  BY DEF PostSuperseded, Post, PostExit
<1>a. AuxSingle'
  BY <1>u DEF EInv, AuxSingle
<1>1. PICK type :
        /\ queue' = Append(queue, NewTask(type, c, rd.epoch))
        /\ Ends(rd) => type \in LifecycleEnds
  <2>1. CASE PostSuperseded(c, g) \/ PostExit(c, g)
    BY <2>1 DEF PostSuperseded, PostExit, Enqueue, LifecycleEnds
  <2>2. CASE Post(c, g)
    <3>1. queue' = Append(queue, NewTask(TaskOf[rd.frame], c, rd.epoch))
          /\ rd.pc = "post"
      BY <2>2 DEF Post, Enqueue, At
    <3>2. Ends(rd) => TaskOf[rd.frame] \in LifecycleEnds
      BY <3>1 DEF Ends, DeactivationFrames, TaskOf, LifecycleEnds
    <3> QED
      BY <3>1, <3>2
  <2> QED
    BY <2>1, <2>2
<1>2. EndQueued => EndQueued'
  BY <1>u, <1>1, EndQueuedStays
<1>3. Ends(rd) /\ rd.epoch = route.epoch => EndQueued'
  <2> DEFINE task == NewTask(type, c, rd.epoch)
  <2>1. /\ task.type = type /\ task.epoch = rd.epoch
        /\ queue' = Append(queue, task)
    BY <1>1 DEF NewTask
  <2> HIDE DEF task
  <2> QED
    BY <1>u, <1>1, <2>1, EndAppended
<1>4. EndPosted => EndPosted' \/ EndQueued'
  <2>1. \A d \in Readers : d # cg => reader'[d] = reader[d]
    BY DEF PostSuperseded, Post, PostExit, GoTo, TypeOK
  <2>2. ASSUME NEW d \in Readers, Ends(reader[d]), reader[d].epoch = route.epoch
        PROVE  EndPosted' \/ EndQueued'
    <3>1. CASE d = cg
      BY <1>3, <2>2, <3>1
    <3>2. CASE d # cg
      <4>1. Ends(reader'[d]) /\ reader'[d].epoch = route'.epoch
        BY <1>u, <2>1, <2>2, <3>2
      <4> QED
        BY <4>1 DEF EndPosted, Ends
    <3> QED
      BY <3>1, <3>2
  <2>3. (\E task \in posts \cup aux : task.epoch = route.epoch)
        \/ (worker.pc = "post" /\ worker.task.epoch = route.epoch)
        => EndPosted'
    BY <1>u DEF EndPosted
  <2> QED
    BY <2>2, <2>3 DEF EndPosted
<1>5. EndComing => EndComing'
  BY <1>2, <1>4 DEF EndComing
<1> QED
  BY <1>u, <1>a, <1>5, EndStays DEF EInv

LEMMA WorkerEnd ==
    ASSUME TypeOK, TypeOK', IInv, EInv, WorkerStep
    PROVE  EInv'
<1>a. AuxSingle'
  BY DEF EInv, AuxSingle, WorkerStep, Take, RunActivated, RunDeactivated,
     RunSuspended, RunHide, RunSnapshot, RunShow, RunKey, PostWriteFailure
<1>1. CASE Take
  <2>u. /\ route' = route /\ comp' = comp /\ reader' = reader
        /\ posts' = posts /\ aux' = aux /\ worker.pc = "idle"
        /\ worker' = IF IsCurrent(Head(queue))
                       THEN [pc |-> "run", task |-> Head(queue)] ELSE worker
    BY <1>1 DEF Take
  <2> SUFFICES ASSUME route.active = NoClient
               PROVE  /\ comp = {} \/ EndComing' \/ EndRuns'
                      /\ ~ Running("ImeKeyEvent")'
    BY <1>a, <2>u DEF EInv, NobodyServed
  <2>1. /\ Len(queue) \in Nat \ {0} /\ Len(queue') = Len(queue) - 1
        /\ \A i \in 1 .. Len(queue') : queue'[i] = queue[i + 1]
        /\ Head(queue) = queue[1] /\ Head(queue) \in Task
    BY <1>1, Dequeued DEF Take
  <2>2. ~ Running("ImeKeyEvent")'
    <3>1. Head(queue).client # NoClient
      BY <2>1, ClientsAssumption DEF Task
    <3>2. Head(queue).type = "ImeKeyEvent" => ~ IsCurrent(Head(queue))
      BY <3>1 DEF IsCurrent, LifecycleEnds, Matches
    <3>3. \/ worker' = worker
          \/ worker'.task = Head(queue) /\ IsCurrent(Head(queue))
      BY <2>u
    <3> QED
      BY <2>u, <3>2, <3>3 DEF Running
  <2>3. EndPosted => EndPosted'
    <3>1. (\E cg \in Readers : Ends(reader[cg]) /\ reader[cg].epoch = route.epoch)
            => EndPosted'
      BY <2>u DEF EndPosted, Ends
    <3> QED
      BY <2>u, <3>1 DEF EndPosted
  <2>4. EndQueued => EndQueued' \/ EndRuns'
    <3> SUFFICES ASSUME NEW i \in 1 .. Len(queue),
                        queue[i].type \in LifecycleEnds,
                        queue[i].epoch = route.epoch
                 PROVE  EndQueued' \/ EndRuns'
      BY DEF EndQueued
    <3>1. CASE i = 1
      <4>1. IsCurrent(Head(queue))
        BY <2>1, <3>1 DEF IsCurrent, Matches
      <4>2. worker' = [pc |-> "run", task |-> queue[1]]
        BY <2>u, <2>1, <4>1
      <4> QED
        BY <2>u, <3>1, <4>2 DEF EndRuns
    <3>2. CASE i # 1
      <4>1. i - 1 \in 1 .. Len(queue') /\ (i - 1) + 1 = i
        BY <2>1, <3>2
      <4>2. queue'[i - 1] = queue[i]
        BY <2>1, <4>1
      <4> QED
        BY <2>u, <4>1, <4>2 DEF EndQueued
    <3> QED
      BY <3>1, <3>2
  <2>5. comp = {} \/ EndComing
    BY <2>u DEF EInv, NobodyServed, EndRuns
  <2> QED
    BY <2>2, <2>3, <2>4, <2>5 DEF EndComing
<1>r. ASSUME route' = route, reader' = reader, posts' = posts, aux' = aux,
             queue' = queue, worker.pc = "run", worker' = Idle,
             \/ comp' = {}
             \/ comp' = comp /\ worker.task.type \notin LifecycleEnds
             \/ Running("ImeKeyEvent")
      PROVE  EInv'
  <2>1. (EndPosted' <=> EndPosted) /\ (EndQueued' <=> EndQueued)
    <3>1. EndQueued' <=> EndQueued
      BY <1>r DEF EndQueued
    <3>2. (\E cg \in Readers : Ends(reader[cg]) /\ reader[cg].epoch = route.epoch)'
          <=> (\E cg \in Readers : Ends(reader[cg]) /\ reader[cg].epoch = route.epoch)
      BY <1>r DEF Ends
    <3>3. EndPosted' <=> EndPosted
      BY <1>r, <3>2 DEF EndPosted, Idle
    <3> QED
      BY <3>1, <3>3
  <2>2. ~ Running("ImeKeyEvent")'
    BY <1>r DEF Running, Idle
  <2>3. worker.task.type \notin LifecycleEnds => ~ EndRuns
    BY DEF EndRuns
  <2>4. EndComing' <=> EndComing
    BY <2>1 DEF EndComing
  <2> QED
    BY <1>a, <1>r, <2>2, <2>3, <2>4 DEF EInv, NobodyServed
<1>2. CASE \/ RunActivated \/ RunDeactivated \/ RunSuspended
           \/ RunHide \/ RunSnapshot \/ RunShow
  <2>1. /\ route' = route /\ reader' = reader /\ posts' = posts /\ aux' = aux
        /\ queue' = queue /\ worker.pc = "run" /\ worker' = Idle
        /\ comp' = {} \/ (comp' = comp /\ worker.task.type \notin LifecycleEnds)
    BY <1>2 DEF RunActivated, RunDeactivated, RunSuspended, RunHide,
       RunSnapshot, RunShow, Running, LifecycleEnds
  <2> QED
    BY <1>r, <2>1
<1>3. CASE RunKey
  <2>u. /\ reader' = reader /\ posts' = posts /\ aux' = aux /\ queue' = queue
        /\ Running("ImeKeyEvent") /\ worker.pc = "run"
    BY <1>3 DEF RunKey, Running
  <2>1. CASE route' = route /\ worker' = Idle
    BY <1>r, <2>u, <2>1
  <2>2. CASE worker' = [pc |-> "post",
                        task |-> NewTask("ClientSuspended", worker.task.client,
                                         route'.epoch)]
    <3>1. EndPosted'
      BY <2>2 DEF EndPosted, NewTask
    <3> QED
      BY <1>a, <3>1, EndNew DEF EndComing, EInv
  <2> QED
    BY <1>3, <2>1, <2>2 DEF RunKey
<1>4. CASE PostWriteFailure
  BY <1>4, PostersEnd
<1> QED
  BY <1>1, <1>2, <1>3, <1>4 DEF WorkerStep

LEMMA NextEnd ==
    ASSUME TypeOK, TypeOK', IInv, EInv, [Next]_vars
    PROVE  EInv'
<1>1. CASE Environment
  <2>1. ASSUME NEW c \in Clients, NEW r \in Routes,
               RegisterReverse(c, r) PROVE EInv'
    BY <2>1, MainsExist, PipesEnd
  <2>2. ASSUME NEW c \in Clients, NEW r \in Routes, NEW h \in 1 .. MaxReverses,
               UnregisterReverse(c, r, h) PROVE EInv'
    BY <2>2, MainsExist, PipesEnd, BoundsAssumption
  <2>3. ASSUME NEW c \in Clients, WorkerPipeWriteFails(c) PROVE EInv'
    BY <2>3, MainsExist, PipesEnd
  <2>4. ASSUME NEW c \in Clients, NEW token \in 1 .. MaxTokens,
               AuxTerminal(c, token) PROVE EInv'
    BY <2>4, AuxEnd
  <2>5. ASSUME NEW c \in Clients, NEW g \in Mains,
               RegisterMain(c, g) PROVE EInv'
    BY <2>5, MainsExist, PipesEnd
  <2>6. ASSUME NEW c \in Clients, NEW g \in Mains,
               FindSuperseded(c, g) \/ Disconnect(c, g) PROVE EInv'
    BY <2>6, ReadersEnd DEF FindSuperseded, Disconnect
  <2>7. ASSUME NEW c \in Clients, NEW g \in Mains, NEW f \in Frames,
               ReadFrame(c, g, f) PROVE EInv'
    BY <2>7, ReadersEnd
  <2> QED
    BY <1>1, <2>1, <2>2, <2>3, <2>4, <2>5, <2>6, <2>7 DEF Environment
<1>2. ASSUME NEW c \in Clients, NEW g \in Mains, ReaderStep(c, g)
      PROVE  EInv'
  <2>1. CASE \/ PostSuperseded(c, g) \/ Post(c, g) \/ PostExit(c, g)
    BY <2>1, ReaderPostsEnd
  <2>2. CASE RefuseHello(c, g)
    BY <2>2, ReadersEnd DEF RefuseHello
  <2> QED
    BY <1>2, <2>1, <2>2, ReadersEnd DEF ReaderStep
<1>3. CASE \/ \E task \in posts : PostInvalidated(task)
           \/ \E task \in aux : PostAux(task)
  BY <1>3, PostersEnd
<1>4. CASE WorkerStep
  BY <1>4, WorkerEnd
<1>5. CASE UNCHANGED vars
  <2>1. /\ route' = route /\ reader' = reader /\ posts' = posts /\ aux' = aux
        /\ queue' = queue /\ worker' = worker /\ comp' = comp
    BY <1>5 DEF vars
  <2>2. NobodyServed'
    BY <2>1, EndNotCarried DEF EInv
  <2> QED
    BY <2>1, <2>2 DEF EInv, AuxSingle
<1> QED
  BY <1>1, <1>2, <1>3, <1>4, <1>5 DEF Next

LEMMA EndCorrect == Spec => []EInv
<1>1. TypeOK /\ TypeOK' /\ IInv /\ EInv /\ [Next]_vars => EInv'
  BY NextEnd
<1> QED
  BY <1>1, InitEnd, InvCorrect, TypeCorrect, PTL DEF Spec

LEMMA QuiescentSettled == IInv /\ EInv => SettledState
<1> SUFFICES ASSUME IInv, EInv, Quiescent
             PROVE  /\ route.active # NoClient => toolbar
                    /\ comp \subseteq {<<route.active, route.epoch>>}
  BY DEF SettledState
<1>1. /\ ~ Queued("ClientActivated") /\ ~ EndQueued
      /\ ~ Runs("ClientActivated") /\ ~ EndRuns
  BY DEF Quiescent, Idle, Queued, Runs, EndQueued, EndRuns
<1>2. ~ Announcing /\ ~ EndPosted
  BY DEF Quiescent, Idle, Announcing, Announces, EndPosted, Ends
<1>3. CASE route.active # NoClient
  <2>1. Settled
    BY <1>1, <1>2, <1>3 DEF IInv, OwnerServed, Clearing
  <2> QED
    BY <2>1 DEF Settled, OwnKeysOnly
<1>4. CASE route.active = NoClient
  BY <1>1, <1>2, <1>4 DEF EInv, NobodyServed, EndComing
<1> QED
  BY <1>3, <1>4

(* Whatever order racing clients' tasks were enqueued, rejected or run in: *)
(* once nothing is left to do, an active client has the toolbar, and the   *)
(* composition is the active client's or empty.                            *)
THEOREM RacesSettle == Spec => []SettledState
  BY QuiescentSettled, InvCorrect, EndCorrect, PTL

-----------------------------------------------------------------------------
(* Readers of replaced connections.                                        *)

LEMMA OldReaderStep ==
    ASSUME TypeOK, [Next]_vars, NEW c \in Clients, NEW g \in Mains,
           reader'[<<c, g>>] # reader[<<c, g>>], ~ At(c, g, "off"),
           ~ Registered(c, g)
    PROVE  route' = route /\ session'[c].main = session[c].main
<1>k. ASSUME NEW d \in Clients, NEW h \in Mains,
             \A x \in Readers \ {<<d, h>>} : reader'[x] = reader[x]
      PROVE  d = c /\ h = g
  <2>1. <<c, g>> \in Readers
    BY DEF Readers
  <2>2. <<c, g>> = <<d, h>>
    BY <1>k, <2>1
  <2> QED
    BY <2>2
<1>s. session[c] \in Session
  BY DEF TypeOK
<1>1. ASSUME NEW d \in Clients, NEW h \in Mains, RegisterMain(d, h) PROVE FALSE
  <2>1. \A x \in Readers \ {<<d, h>>} : reader'[x] = reader[x]
    BY <1>1 DEF RegisterMain, GoTo, GoWith, TypeOK
  <2>2. d = c /\ h = g
    BY <1>k, <2>1
  <2> QED
    BY <1>1, <2>2 DEF RegisterMain
<1>2. ASSUME NEW d \in Clients, NEW h \in Mains,
             \/ ReaderStep(d, h)
             \/ FindSuperseded(d, h) \/ Disconnect(d, h)
             \/ \E f \in Frames : ReadFrame(d, h, f)
      PROVE  d = c /\ h = g
  <2>1. CASE UnregisterMain(d, h)
    BY <1>k, <2>1 DEF UnregisterMain, GoTo, GoWith, TypeOK
  <2>2. ~ UnregisterMain(d, h) => \A x \in Readers \ {<<d, h>>} : reader'[x] = reader[x]
    BY <1>2 DEF ReaderStep, PostSuperseded, Negotiate, ActivateExplicit,
       ActivateImplicit, Attribute, Announce, Gate, DeactivateRoute,
       ResolveTerminal, RetireRoute, Post, RefuseHello, ResolveExit, PostExit,
       FindSuperseded, Disconnect, ReadFrame, GoTo, GoWith, TypeOK
  <2> QED
    BY <1>k, <2>1, <2>2
<1>3. CASE UnregisterMain(c, g)
  <2>1. route' = route /\ session' = [session EXCEPT ![c] = Tidied(session[c])]
    BY <1>3 DEF UnregisterMain
  <2> QED
    BY <1>s, <2>1, MainKept DEF TypeOK
<1>4. CASE ReaderStep(c, g) /\ ~ UnregisterMain(c, g)
  <2>1. CASE \/ ActivateExplicit(c, g) \/ ActivateImplicit(c, g)
             \/ DeactivateRoute(c, g) \/ RetireRoute(c, g)
    BY <2>1 DEF ActivateExplicit, ActivateImplicit, DeactivateRoute,
       RetireRoute, RouteReady, registry
  <2>2. CASE \/ PostSuperseded(c, g) \/ Negotiate(c, g) \/ Attribute(c, g)
             \/ Announce(c, g) \/ Gate(c, g) \/ ResolveTerminal(c, g)
             \/ Post(c, g) \/ ResolveExit(c, g) \/ PostExit(c, g)
    BY <2>2 DEF PostSuperseded, Negotiate, Attribute, Announce, Gate,
       ResolveTerminal, Post, ResolveExit, PostExit
  <2> QED
    BY <1>4, <2>1, <2>2 DEF ReaderStep, RefuseHello
<1>5. CASE FindSuperseded(c, g) \/ Disconnect(c, g)
  BY <1>3, <1>5 DEF FindSuperseded, Disconnect
<1>6. ASSUME NEW f \in Frames, ReadFrame(c, g, f) PROVE FALSE
  BY <1>6 DEF ReadFrame
<1>7. ASSUME reader' = reader PROVE FALSE
  BY <1>7
<1>8. CASE Environment
  <2>1. ASSUME NEW d \in Clients, NEW h \in Mains,
               FindSuperseded(d, h) \/ Disconnect(d, h)
        PROVE  route' = route /\ session'[c].main = session[c].main
    BY <1>2, <1>5, <2>1
  <2>2. ASSUME NEW d \in Clients, NEW h \in Mains, NEW f \in Frames,
               ReadFrame(d, h, f)
        PROVE  FALSE
    BY <1>2, <1>6, <2>2
  <2>3. ASSUME NEW d \in Clients,
               \/ WorkerPipeWriteFails(d)
               \/ \E r \in Routes :
                    \/ RegisterReverse(d, r)
                    \/ \E h \in 1 .. MaxReverses : UnregisterReverse(d, r, h)
               \/ \E token \in 1 .. MaxTokens : AuxTerminal(d, token)
        PROVE  FALSE
    BY <1>7, <2>3 DEF WorkerPipeWriteFails, RegisterReverse,
       UnregisterReverse, AuxTerminal
  <2> QED
    BY <1>1, <1>8, <2>1, <2>2, <2>3 DEF Environment
<1>9. ASSUME NEW d \in Clients, NEW h \in Mains, ReaderStep(d, h)
      PROVE  route' = route /\ session'[c].main = session[c].main
  <2>1. ReaderStep(c, g)
    BY <1>2, <1>9
  <2> QED
    BY <1>3, <1>4, <2>1
<1>10. CASE \/ \E task \in posts : PostInvalidated(task)
            \/ \E task \in aux : PostAux(task)
            \/ WorkerStep \/ UNCHANGED vars
  BY <1>7, <1>10 DEF PostInvalidated, PostAux, WorkerStep, Take,
     RunActivated, RunDeactivated, RunSuspended, RunHide, RunSnapshot,
     RunShow, RunKey, PostWriteFailure, vars
<1> QED
  BY <1>8, <1>9, <1>10 DEF Next

(* However late the reader of a replaced connection runs, it neither moves *)
(* the route nor removes the registration of the connection that replaced  *)
(* it.                                                                     *)
THEOREM OldReadersAreInert == Spec => OnlyRegisteredReaderActs
<1>1. TypeOK /\ [Next]_vars =>
        [\A c \in Clients, g \in Mains :
           /\ reader'[<<c, g>>] # reader[<<c, g>>]
           /\ ~ At(c, g, "off")
           /\ session[c].main # g
           => UNCHANGED route /\ session'[c].main = session[c].main]_vars
  BY OldReaderStep DEF Registered
<1> QED
  BY <1>1, TypeCorrect, PTL DEF Spec, OnlyRegisteredReaderActs
=============================================================================
