--------------------------- MODULE StatsCollector ---------------------------
(***************************************************************************)
(* Typing statistics: the lossy queue of a host process, the flush on a    *)
(* thread-pool callback, and the server's single pipe.                     *)
(*                                                                         *)
(* An event is its number in the order of capture.  Producers and          *)
(* callbacks share a lock; an action is one critical section, one attempt  *)
(* to send, or one frame handled by the server.                            *)
(*                                                                         *)
(* windows/src/Statistics/stats_collector.h, stats_collector.cpp,          *)
(* server/src/statistics/stats_pipe.cpp                                    *)
(***************************************************************************)
EXTENDS Integers, Sequences, FiniteSets

CONSTANTS
    Callbacks,   \* thread-pool callbacks that can run at once
    Capacity,    \* kCapacity
    MaxCounter,  \* UINT32_MAX
    MaxEvents,   \* bound: events captured
    MaxOutages   \* bound: server deaths, switch flips

ASSUME CallbacksAssumption == IsFiniteSet(Callbacks)
ASSUME CapacityAssumption ==
    /\ Capacity \in Nat \ {0}
    /\ MaxEvents \in Nat /\ MaxOutages \in Nat
ASSUME CounterAssumption == MaxCounter \in Nat /\ MaxEvents <= MaxCounter

VARIABLES
    queue,      \* g_queue
    lost,       \* its _droppedCount
    inFlight,   \* g_flushInFlight
    refs,       \* module references taken for callbacks
    cb,         \* per callback: program counter, batch, header.dropped_count
    refused,    \* history: the last submission to the pool failed
    heard,      \* Global::StatisticsEnabled
    captured,   \* events captured so far
    pipe,       \* the frame the server has not handled yet: none or one
    sent,       \* history: events in frames written
    told,       \* history: losses in frames written
    stored,     \* rows of stats.db, by event
    server,     \* external: the server runs
    switch,     \* GetConfiguredStatisticsEnabled
    outages

host == <<queue, lost, inFlight, refs, cb, refused, captured>>
wire == <<pipe, sent, told>>
outside == <<heard, stored, server, switch, outages>>
vars == <<host, wire, outside>>

Idle == [pc |-> "idle", batch |-> <<>>, dropped |-> 0]

Init ==
    /\ queue = <<>> /\ lost = 0
    /\ inFlight = FALSE /\ refs = 0
    /\ cb = [b \in Callbacks |-> Idle]
    /\ refused = FALSE
    /\ heard = TRUE /\ captured = 0
    /\ pipe = <<>> /\ sent = 0 /\ told = 0
    /\ stored = <<>>
    /\ server = TRUE /\ switch = TRUE /\ outages = 0

-----------------------------------------------------------------------------
(* StatsEventQueue. *)

(* AddDroppedCount saturates. *)
Saturated(n) == IF n > MaxCounter THEN MaxCounter ELSE n

(* Mutant: off by one. *)
PushPastCapacity(event) ==
    IF Len(queue) > Capacity
    THEN queue' = Append(Tail(queue), event) /\ lost' = Saturated(lost + 1)
    ELSE queue' = Append(queue, event) /\ lost' = lost

(* Push: a full queue gives up its oldest event. *)
Push(event) ==
    IF Len(queue) = Capacity
    THEN queue' = Append(Tail(queue), event) /\ lost' = Saturated(lost + 1)
    ELSE queue' = Append(queue, event) /\ lost' = lost

-----------------------------------------------------------------------------
(* QueueStatisticsEvent. *)

Capture ==
    /\ heard /\ captured < MaxEvents
    /\ captured' = captured + 1
    /\ Push(captured + 1)

(* A flush is under way and will find the event. *)
CaptureBehind ==
    /\ Capture /\ inFlight
    /\ UNCHANGED <<inFlight, refs, cb, refused, wire, outside>>

Submit(b) ==
    /\ Capture /\ ~ inFlight
    /\ cb[b].pc = "idle"
    /\ inFlight' = TRUE /\ refs' = refs + 1
    /\ cb' = [cb EXCEPT ![b].pc = "pop"]
    /\ refused' = FALSE
    /\ UNCHANGED <<wire, outside>>

(* Mutant: the reference taken for the callback is kept. *)
SubmitFailsHolding ==
    /\ Capture /\ ~ inFlight
    /\ refused' = TRUE /\ refs' = refs + 1
    /\ UNCHANGED <<inFlight, cb, wire, outside>>

(* TrySubmitThreadpoolCallback fails: the event waits for the next one. *)
SubmitFails ==
    /\ Capture /\ ~ inFlight
    /\ refused' = TRUE
    /\ UNCHANGED <<inFlight, refs, cb, wire, outside>>

-----------------------------------------------------------------------------
(* FlushStatisticsEvents. *)

(* A batch holds the whole queue.  Only a frame that will be sent takes the *)
(* counter along.                                                           *)
Pop(b) ==
    /\ cb[b].pc = "pop"
    /\ IF queue = <<>>
       THEN /\ cb' = [cb EXCEPT ![b] = [pc |-> "check", batch |-> <<>>, dropped |-> 0]]
            /\ UNCHANGED <<queue, lost>>
       ELSE /\ cb' = [cb EXCEPT ![b] = [pc |-> "send", batch |-> queue, dropped |-> lost]]
            /\ queue' = <<>> /\ lost' = 0
    /\ UNCHANGED <<inFlight, refs, refused, captured, wire, outside>>

(* SendStatsBatch finds the listener within its three attempts. *)
Send(b) ==
    /\ cb[b].pc = "send"
    /\ server /\ pipe = <<>>
    /\ pipe' = <<[events |-> cb[b].batch, dropped |-> cb[b].dropped]>>
    /\ sent' = sent + Len(cb[b].batch)
    /\ told' = told + cb[b].dropped
    /\ cb' = [cb EXCEPT ![b] = [pc |-> "check", batch |-> <<>>, dropped |-> 0]]
    /\ UNCHANGED <<queue, lost, inFlight, refs, refused, captured, outside>>

(* ... or does not, or another process has the only instance. *)
SendFails(b) ==
    /\ cb[b].pc = "send"
    /\ cb' = [cb EXCEPT ![b].pc = "return"]
    /\ UNCHANGED <<queue, lost, inFlight, refs, refused, captured, wire, outside>>

(* Mutant: the losses the failed frame was to report are forgotten. *)
ReturnBatchOnly(b) ==
    /\ cb[b].pc = "return"
    /\ lost' = Saturated(lost + Len(cb[b].batch))
    /\ cb' = [cb EXCEPT ![b] = [pc |-> "check", batch |-> <<>>, dropped |-> 0]]
    /\ UNCHANGED <<queue, inFlight, refs, refused, captured, wire, outside>>

(* The sum is formed in 32 bits. *)
Return(b) ==
    /\ cb[b].pc = "return"
    /\ lost' = Saturated(lost + ((cb[b].dropped + Len(cb[b].batch)) % (MaxCounter + 1)))
    /\ cb' = [cb EXCEPT ![b] = [pc |-> "check", batch |-> <<>>, dropped |-> 0]]
    /\ UNCHANGED <<queue, inFlight, refs, refused, captured, wire, outside>>

(* Mutant: the flag is cleared whatever was queued meanwhile. *)
CheckNothing(b) ==
    /\ cb[b].pc = "check"
    /\ inFlight' = FALSE
    /\ cb' = [cb EXCEPT ![b].pc = "release"]
    /\ UNCHANGED <<queue, lost, refs, refused, captured, wire, outside>>

(* Mutant: the flag is cleared, and the loop goes on. *)
CheckThenPop(b) ==
    /\ cb[b].pc = "check"
    /\ inFlight' = FALSE
    /\ cb' = [cb EXCEPT ![b].pc = IF queue = <<>> THEN "release" ELSE "pop"]
    /\ UNCHANGED <<queue, lost, refs, refused, captured, wire, outside>>

Check(b) ==
    /\ cb[b].pc = "check"
    /\ inFlight' = (queue # <<>>)
    /\ cb' = [cb EXCEPT ![b].pc = IF queue = <<>> THEN "release" ELSE "pop"]
    /\ UNCHANGED <<queue, lost, refs, refused, captured, wire, outside>>

(* DllRelease.  What the callback has left to do then, its return, is not  *)
(* a step of its own: ModuleHeld ends with the reference.                  *)
Release(b) ==
    /\ cb[b].pc = "release"
    /\ refs' = refs - 1
    /\ cb' = [cb EXCEPT ![b] = Idle]
    /\ UNCHANGED <<queue, lost, inFlight, refused, captured, wire, outside>>

Flush(b) ==
    Pop(b) \/ Send(b) \/ SendFails(b) \/ Return(b) \/ Check(b) \/ Release(b)

-----------------------------------------------------------------------------
(* The server. *)

(* ProcessStatsFrame: the rows are written in one transaction ... *)
Store ==
    /\ server /\ pipe # <<>> /\ switch
    /\ stored' = stored \o Head(pipe).events
    /\ pipe' = <<>>
    /\ UNCHANGED <<host, sent, told, heard, server, switch, outages>>

(* ... or not: recording is off, the database cannot be written, the frame *)
(* is not read in time.                                                    *)
Discard ==
    /\ pipe # <<>>
    /\ pipe' = <<>>
    /\ UNCHANGED <<host, sent, told, outside>>

ServerDies ==
    /\ server /\ outages < MaxOutages
    /\ server' = FALSE /\ outages' = outages + 1
    /\ pipe' = <<>>
    /\ UNCHANGED <<host, sent, told, heard, stored, switch>>

ServerStarts ==
    /\ ~ server
    /\ server' = TRUE
    /\ UNCHANGED <<host, wire, heard, stored, switch, outages>>

(* The settings page, and the broadcast that brings it to the host. *)
Flip ==
    /\ outages < MaxOutages
    /\ switch' = ~ switch /\ outages' = outages + 1
    /\ UNCHANGED <<host, wire, heard, stored, server>>

Hear ==
    /\ heard # switch
    /\ heard' = switch
    /\ UNCHANGED <<host, wire, stored, server, switch, outages>>

Next ==
    \/ CaptureBehind \/ SubmitFails
    \/ \E b \in Callbacks : Submit(b) \/ Flush(b)
    \/ Store \/ Discard \/ ServerDies \/ ServerStarts
    \/ Flip \/ Hear

Spec == Init /\ [][Next]_vars

-----------------------------------------------------------------------------
(* Properties. *)

Events == 1..MaxEvents
Pcs == {"idle", "pop", "send", "return", "check", "release"}

(* Only a callback that has a frame to send, or to give back, holds one. *)
CallbackOK(c) ==
    c.pc \in {"send", "return"} \/ (c.batch = <<>> /\ c.dropped = 0)

(* Types; the queue never exceeds its capacity, nor a batch (its buffer). *)
TypeOK ==
    /\ queue \in Seq(Nat) /\ Len(queue) <= Capacity
    /\ lost \in Nat /\ refs \in Int
    /\ {inFlight, refused, heard, server, switch} \subseteq BOOLEAN
    /\ cb \in [Callbacks -> [pc : Pcs, batch : Seq(Nat), dropped : Nat]]
    /\ \A b \in Callbacks : CallbackOK(cb[b]) /\ Len(cb[b].batch) <= Capacity
    /\ captured \in 0..MaxEvents /\ outages \in 0..MaxOutages
    /\ sent \in Nat /\ told \in Nat
    /\ stored \in Seq(Nat)
    /\ pipe \in Seq([events : Seq(Nat), dropped : Nat])

Looping == { b \in Callbacks : cb[b].pc \in {"pop", "send", "return", "check"} }

(* At most one callback takes from the queue, and the flag tells whether.  *)
(* The flag is cleared under the lock by the callback itself, which is     *)
(* then only to give its module reference back.                            *)
OneFlush ==
    /\ inFlight <=> Looping # {}
    /\ \A b, c \in Looping : b = c

(* The module is held once for every callback that still has code to run.  *)
ModuleHeld == refs = Cardinality({ b \in Callbacks : cb[b].pc # "idle" })

(* An event in the queue has a flush coming, or the pool refused the last. *)
QueueAttended == queue # <<>> => inFlight \/ refused

(* Every event captured is accounted for exactly once: it is queued, in a  *)
(* batch, in a frame that was written, or a loss; and a loss is still to   *)
(* be reported, in the header of a batch, or in a frame that was written.  *)
(* The counter is taken and given back in two critical sections, with      *)
(* producers evicting events in between.                                   *)
Settled == Len(queue) + lost + sent + told
Balanced ==
    /\ \A b \in Looping : captured = Settled + Len(cb[b].batch) + cb[b].dropped
    /\ Looping = {} => captured = Settled

(* What reaches the database, is on its way there and is still queued, in  *)
(* this order, is in the order of capture: no event is stored twice or     *)
(* after a later one, whatever fails.                                      *)
Increasing(s) == \A i, j \in DOMAIN s : i < j => s[i] < s[j]
OnTheWire == IF pipe = <<>> THEN <<>> ELSE Head(pipe).events
InOrder ==
    /\ Increasing(stored \o OnTheWire \o queue)
    /\ \A b \in Callbacks : Increasing(stored \o OnTheWire \o cb[b].batch \o queue)
=============================================================================
