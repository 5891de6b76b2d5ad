------------------------ MODULE StatsCollectorProofs ------------------------
(***************************************************************************)
(* Theorems about StatsCollector, for every number of callbacks, every     *)
(* capacity and every number of events the counter can hold.               *)
(***************************************************************************)
EXTENDS StatsCollector, FiniteSetTheorems, SequenceTheorems, TLAPS

CB == [pc : Pcs, batch : Seq(Nat), dropped : Nat]

(* The parts of TypeOK: the provers like their Booleans apart.             *)
Queued == queue \in Seq(Nat) /\ Len(queue) <= Capacity /\ lost \in Nat

Flags ==
    /\ inFlight \in BOOLEAN /\ refused \in BOOLEAN /\ heard \in BOOLEAN
    /\ server \in BOOLEAN /\ switch \in BOOLEAN

Held ==
    /\ cb \in [Callbacks -> CB]
    /\ \A b \in Callbacks : CallbackOK(cb[b]) /\ Len(cb[b].batch) <= Capacity

Counts ==
    /\ refs \in Int
    /\ captured \in 0..MaxEvents /\ outages \in 0..MaxOutages
    /\ sent \in Nat /\ told \in Nat

Server ==
    /\ stored \in Seq(Nat)
    /\ pipe \in Seq([events : Seq(Nat), dropped : Nat])

LEMMA TypeParts ==
    /\ TypeOK <=> Queued /\ Flags /\ Held /\ Counts /\ Server
    /\ TypeOK' <=> Queued' /\ Flags' /\ Held' /\ Counts' /\ Server'
<1>1. Flags <=> {inFlight, refused, heard, server, switch} \subseteq BOOLEAN
  BY DEF Flags
<1>2. Flags' <=> {inFlight', refused', heard', server', switch'} \subseteq BOOLEAN
  BY DEF Flags
<1> QED
  BY <1>1, <1>2, Zenon DEF TypeOK, Queued, Held, Counts, Server, CB

LEMMA Wrap == ASSUME NEW n \in Nat, NEW m \in Nat, n <= m PROVE n % (m + 1) = n
  OBVIOUS

(* A frame for the server or a queue that a frame emptied.                 *)
LEMMA Shapes ==
    /\ <<>> \in Seq(Nat) /\ Len(<<>>) = 0
    /\ \A s \in Seq(Nat) : Len(s) \in Nat
    /\ Idle \in CB /\ CallbackOK(Idle)
    /\ \A pc \in {"pop", "check", "release"} :
         /\ [pc |-> pc, batch |-> <<>>, dropped |-> 0] \in CB
         /\ CallbackOK([pc |-> pc, batch |-> <<>>, dropped |-> 0])
    /\ \A s \in Seq(Nat), n \in Nat, pc \in {"send", "return"} :
         /\ [pc |-> pc, batch |-> s, dropped |-> n] \in CB
         /\ CallbackOK([pc |-> pc, batch |-> s, dropped |-> n])
    /\ \A x \in CB : x = [pc |-> x.pc, batch |-> x.batch, dropped |-> x.dropped]
<1>1. <<>> \in Seq(Nat) /\ Len(<<>>) = 0
  OBVIOUS
<1>2. \A s \in Seq(Nat) : Len(s) \in Nat
  OBVIOUS
<1> QED
  BY <1>1, <1>2 DEF CB, CallbackOK, Idle, Pcs

(* One callback changes its state.                                         *)
LEMMA OneHeld ==
    ASSUME Held, NEW b \in Callbacks, NEW x \in CB, CallbackOK(x),
           Len(x.batch) <= Capacity, cb' = [cb EXCEPT ![b] = x]
    PROVE  Held'
<1>1. cb' \in [Callbacks -> CB]
  BY DEF Held
<1>2. ASSUME NEW c \in Callbacks
      PROVE  CallbackOK(cb'[c]) /\ Len(cb'[c].batch) <= Capacity
  <2>1. cb'[c] = x \/ cb'[c] = cb[c]
    BY DEF Held
  <2>2. CASE cb'[c] = x
    BY <2>2
  <2>3. CASE cb'[c] = cb[c]
    BY <2>3 DEF Held
  <2> QED
    BY <2>1, <2>2, <2>3
<1> QED
  BY <1>1, <1>2 DEF Held, CallbackOK

(* ... with nothing in hand, or with a frame.                               *)
LEMMA HeldEmpty ==
    ASSUME Held, NEW b \in Callbacks, NEW pc \in {"idle", "pop", "check", "release"},
           cb' = [cb EXCEPT ![b] = [pc |-> pc, batch |-> <<>>, dropped |-> 0]]
    PROVE  Held'
<1> DEFINE x == [pc |-> pc, batch |-> <<>>, dropped |-> 0]
<1>1. x \in CB
  BY Shapes DEF CB, Pcs
<1>2. CallbackOK(x) /\ Len(x.batch) <= Capacity
  BY Shapes, CapacityAssumption DEF CallbackOK
<1>3. cb' = [cb EXCEPT ![b] = x]
  OBVIOUS
<1> HIDE DEF x
<1> QED
  BY <1>1, <1>2, <1>3, OneHeld

LEMMA HeldFrame ==
    ASSUME Held, NEW b \in Callbacks, NEW pc \in {"send", "return"},
           NEW s \in Seq(Nat), NEW n \in Nat, Len(s) <= Capacity,
           cb' = [cb EXCEPT ![b] = [pc |-> pc, batch |-> s, dropped |-> n]]
    PROVE  Held'
<1> DEFINE x == [pc |-> pc, batch |-> s, dropped |-> n]
<1>1. x \in CB
  BY DEF CB, Pcs
<1>2. CallbackOK(x) /\ Len(x.batch) <= Capacity
  BY DEF CallbackOK
<1>3. cb' = [cb EXCEPT ![b] = x]
  OBVIOUS
<1> HIDE DEF x
<1> QED
  BY <1>1, <1>2, <1>3, OneHeld

(* A step of the program counter alone.                                    *)
LEMMA OnlyPc ==
    ASSUME Held, NEW b \in Callbacks, NEW pc
    PROVE  [cb EXCEPT ![b].pc = pc]
             = [cb EXCEPT ![b] = [pc |-> pc, batch |-> cb[b].batch,
                                  dropped |-> cb[b].dropped]]
<1>1. cb[b] \in CB
  BY DEF Held
<1>2. [cb[b] EXCEPT !.pc = pc]
        = [pc |-> pc, batch |-> cb[b].batch, dropped |-> cb[b].dropped]
  BY <1>1 DEF CB
<1> QED
  BY <1>2

(* Capture: one more event, and one more of them queued or lost.           *)
LEMMA Captured ==
    ASSUME TypeOK, Capture, lost <= captured
    PROVE  /\ Queued'
           /\ captured' = captured + 1 /\ captured' \in 0..MaxEvents
           /\ Len(queue') + lost' = Len(queue) + lost + 1
           /\ queue' # <<>>
<1> USE CapacityAssumption, CounterAssumption
<1>1. queue \in Seq(Nat) /\ lost \in Nat /\ captured \in Nat /\ Len(queue) \in Nat
  BY DEF TypeOK
<1>2. captured' = captured + 1 /\ captured' \in 0..MaxEvents
  BY <1>1 DEF Capture
<1>3. Saturated(lost + 1) = lost + 1
  BY <1>1 DEF Saturated, Capture
<1>4. CASE Len(queue) = Capacity
  <2>1. queue' = Append(Tail(queue), captured + 1) /\ lost' = lost + 1
    BY <1>3, <1>4 DEF Capture, Push
  <2>2. queue # <<>>
    BY <1>4, Shapes
  <2>3. Tail(queue) \in Seq(Nat) /\ Len(Tail(queue)) = Len(queue) - 1
    BY <1>1, <2>2
  <2>4. queue' \in Seq(Nat) /\ Len(queue') = Len(queue)
    BY <1>1, <2>1, <2>3
  <2>5. queue' # <<>>
    BY <1>4, <2>4, Shapes
  <2>6. Queued'
    BY <1>1, <1>4, <2>1, <2>4 DEF Queued
  <2> QED
    BY <1>1, <1>2, <2>1, <2>4, <2>5, <2>6
<1>5. CASE Len(queue) # Capacity
  <2>1. queue' = Append(queue, captured + 1) /\ lost' = lost
    BY <1>5 DEF Capture, Push
  <2>2. queue' \in Seq(Nat) /\ Len(queue') = Len(queue) + 1
    BY <1>1, <2>1
  <2>3. Len(queue) < Capacity
    BY <1>1, <1>5 DEF TypeOK
  <2>4. queue' # <<>>
    BY <1>1, <2>2, Shapes
  <2>5. Queued'
    BY <1>1, <2>1, <2>2, <2>3 DEF Queued
  <2> QED
    BY <1>1, <1>2, <2>1, <2>2, <2>4, <2>5
<1> QED
  BY <1>4, <1>5

(* No more is lost, or about to be reported, than was captured.            *)
LEMMA LossesBounded ==
    ASSUME TypeOK, Balanced
    PROVE  /\ lost <= captured
           /\ \A b \in Looping : cb[b].dropped + Len(cb[b].batch) <= captured
<1>1. /\ Len(queue) \in Nat /\ lost \in Nat /\ sent \in Nat /\ told \in Nat
      /\ captured \in Nat
  BY DEF TypeOK
<1>2. \A b \in Callbacks : Len(cb[b].batch) \in Nat /\ cb[b].dropped \in Nat
  BY Shapes DEF TypeOK
<1>3. Looping \subseteq Callbacks
  BY DEF Looping
<1>4. CASE Looping = {}
  BY <1>1, <1>4 DEF Balanced, Settled
<1>5. ASSUME NEW b \in Looping
      PROVE  lost <= captured /\ cb[b].dropped + Len(cb[b].batch) <= captured
  <2> DEFINE q == Len(queue)
             n == Len(cb[b].batch)
             d == cb[b].dropped
  <2>1. captured = q + lost + sent + told + n + d
    BY DEF Balanced, Settled
  <2>2. n \in Nat /\ d \in Nat
    BY <1>2, <1>3
  <2>3. q \in Nat
    BY <1>1
  <2> HIDE DEF q, n, d
  <2>4. lost <= captured /\ d + n <= captured
    BY <1>1, <2>1, <2>2, <2>3
  <2> QED
    BY <2>4 DEF n, d
<1> QED
  BY <1>4, <1>5

-----------------------------------------------------------------------------
(* Types. *)

LEMMA CaptureTypes ==
    ASSUME TypeOK, Balanced,
           \/ CaptureBehind
           \/ SubmitFails
           \/ \E b \in Callbacks : Submit(b)
    PROVE  TypeOK'
<1>1. Queued /\ Flags /\ Held /\ Counts /\ Server
  BY TypeParts
<1>2. Capture
  BY DEF CaptureBehind, SubmitFails, Submit
<1>3. Queued' /\ captured' \in 0..MaxEvents
  BY <1>2, LossesBounded, Captured
<1>4. CASE CaptureBehind \/ SubmitFails
  <2>1. Flags'
    BY <1>1, <1>4 DEF Flags, CaptureBehind, SubmitFails, outside
  <2>2. Held'
    BY <1>1, <1>4 DEF Held, CaptureBehind, SubmitFails, CallbackOK
  <2>3. Counts' /\ Server'
    BY <1>1, <1>3, <1>4
       DEF Counts, Server, CaptureBehind, SubmitFails, wire, outside
  <2> QED
    BY <1>3, <2>1, <2>2, <2>3, TypeParts
<1>5. ASSUME NEW b \in Callbacks, Submit(b) PROVE TypeOK'
  <2>1. Flags'
    BY <1>1, <1>5 DEF Flags, Submit, outside
  <2>2. cb[b].batch = <<>> /\ cb[b].dropped = 0 /\ cb[b] \in CB
    BY <1>1, <1>5 DEF Held, CallbackOK, Submit
  <2>3. cb' = [cb EXCEPT ![b] = [pc |-> "pop", batch |-> <<>>, dropped |-> 0]]
    <3>1. cb' = [cb EXCEPT ![b].pc = "pop"]
      BY <1>5 DEF Submit
    <3>2. [cb EXCEPT ![b].pc = "pop"]
            = [cb EXCEPT ![b] = [pc |-> "pop", batch |-> cb[b].batch,
                                 dropped |-> cb[b].dropped]]
      BY <1>1, OnlyPc
    <3> QED
      BY <2>2, <3>1, <3>2
  <2>4. Held'
    BY <1>1, <2>3, HeldEmpty
  <2>5. Counts' /\ Server'
    BY <1>1, <1>3, <1>5 DEF Counts, Server, Submit, wire, outside
  <2> QED
    BY <1>3, <2>1, <2>4, <2>5, TypeParts
<1> QED
  BY <1>4, <1>5

LEMMA FlushTypes ==
    ASSUME TypeOK, Balanced, NEW b \in Callbacks, Flush(b)
    PROVE  TypeOK'
<1> USE CapacityAssumption
<1>1. Queued /\ Flags /\ Held /\ Counts /\ Server
  BY TypeParts
<1>2. cb[b] \in CB /\ CallbackOK(cb[b]) /\ Len(cb[b].batch) <= Capacity
  BY <1>1 DEF Held
<1>3. cb[b].batch \in Seq(Nat) /\ cb[b].dropped \in Nat /\ Len(cb[b].batch) \in Nat
  BY <1>2, Shapes DEF CB
<1>4. Flags'
  BY <1>1 DEF Flags, Flush, Pop, Send, SendFails, Return, Check, Release, outside
<1>5. CASE Pop(b)
  <2>1. Queued' /\ Held'
    <3>1. CASE queue = <<>>
      <4>1. cb' = [cb EXCEPT ![b] = [pc |-> "check", batch |-> <<>>, dropped |-> 0]]
        BY <1>5, <3>1 DEF Pop
      <4>2. Queued'
        BY <1>1, <1>5, <3>1 DEF Pop, Queued
      <4> QED
        BY <1>1, <4>1, <4>2, HeldEmpty
    <3>2. CASE queue # <<>>
      <4>1. cb' = [cb EXCEPT ![b] = [pc |-> "send", batch |-> queue, dropped |-> lost]]
        BY <1>5, <3>2 DEF Pop
      <4>2. queue' = <<>> /\ lost' = 0
        BY <1>5, <3>2 DEF Pop
      <4>3. Queued'
        BY <4>2, Shapes DEF Queued
      <4>4. Held'
        BY <1>1, <4>1, HeldFrame DEF Queued
      <4> QED
        BY <4>3, <4>4
    <3> QED
      BY <3>1, <3>2
  <2>3. Counts' /\ Server'
    BY <1>1, <1>5 DEF Counts, Server, Pop, wire, outside
  <2> QED
    BY <1>4, <2>1, <2>3, TypeParts
<1>6. CASE Send(b)
  <2>1. Queued'
    BY <1>1, <1>6 DEF Queued, Send
  <2>2. Held'
    BY <1>1, <1>6, HeldEmpty DEF Send
  <2>3. Counts'
    BY <1>1, <1>3, <1>6 DEF Counts, Send, outside
  <2>4. Server'
    BY <1>1, <1>3, <1>6 DEF Server, Send, outside
  <2> QED
    BY <1>4, <2>1, <2>2, <2>3, <2>4, TypeParts
<1>7. CASE SendFails(b)
  <2>1. Held'
    <3>1. cb' = [cb EXCEPT ![b] = [pc |-> "return", batch |-> cb[b].batch,
                                   dropped |-> cb[b].dropped]]
      BY <1>1, <1>7, OnlyPc DEF SendFails
    <3> QED
      BY <1>1, <1>2, <1>3, <3>1, HeldFrame
  <2> QED
    BY <1>1, <1>4, <1>7, <2>1, TypeParts
       DEF Queued, Counts, Server, SendFails, wire, outside
<1>8. CASE Return(b)
  <2>1. Held'
    BY <1>1, <1>8, HeldEmpty DEF Return
  <2>2. b \in Looping /\ captured <= MaxEvents
    BY <1>1, <1>8 DEF Return, Looping, Counts
  <2>3. cb[b].dropped + Len(cb[b].batch) <= MaxCounter
    BY <1>1, <1>3, <2>2, LossesBounded, CounterAssumption DEF Counts
  <2>4. lost' \in Nat
    BY <1>1, <1>3, <1>8, <2>3, Wrap, CounterAssumption DEF Return, Saturated, Queued
  <2> QED
    BY <1>1, <1>4, <1>8, <2>1, <2>4, TypeParts
       DEF Queued, Counts, Server, Return, wire, outside
<1>9. CASE Check(b)
  <2>1. Held'
    <3>1. cb[b].batch = <<>> /\ cb[b].dropped = 0
      BY <1>2, <1>9 DEF CallbackOK, Check
    <3>2. PICK pc \in {"release", "pop"} :
            cb' = [cb EXCEPT ![b] = [pc |-> pc, batch |-> <<>>, dropped |-> 0]]
      BY <1>1, <1>9, <3>1, OnlyPc DEF Check
    <3> QED
      BY <1>1, <3>2, HeldEmpty
  <2> QED
    BY <1>1, <1>4, <1>9, <2>1, TypeParts
       DEF Queued, Counts, Server, Check, wire, outside
<1>10. CASE Release(b)
  <2>1. Held'
    BY <1>1, <1>10, HeldEmpty DEF Release, Idle
  <2> QED
    BY <1>1, <1>4, <1>10, <2>1, TypeParts
       DEF Queued, Counts, Server, Release, wire, outside
<1> QED
  BY <1>5, <1>6, <1>7, <1>8, <1>9, <1>10 DEF Flush

LEMMA OutsideTypes ==
    ASSUME TypeOK,
           Store \/ Discard \/ ServerDies \/ ServerStarts \/ Flip \/ Hear
    PROVE  TypeOK'
<1>1. Queued /\ Flags /\ Held /\ Counts /\ Server
  BY TypeParts
<1>2. UNCHANGED <<queue, lost, inFlight, refs, cb, refused, captured>>
  BY DEF Store, Discard, ServerDies, ServerStarts, Flip, Hear, host
<1>3. UNCHANGED <<sent, told>>
  BY DEF Store, Discard, ServerDies, ServerStarts, Flip, Hear, wire
<1>4. Queued' /\ Held'
  BY <1>1, <1>2 DEF Queued, Held, CallbackOK
<1>5. outages' \in 0..MaxOutages
  BY <1>1, CapacityAssumption
     DEF Counts, Store, Discard, ServerDies, ServerStarts, Flip, Hear, outside
<1>6. Counts'
  BY <1>1, <1>2, <1>3, <1>5 DEF Counts
<1>7. Flags'
  BY <1>1, <1>2
     DEF Flags, Store, Discard, ServerDies, ServerStarts, Flip, Hear, outside
<1>8. Server'
  <2>1. CASE Store
    <3>1. Head(pipe).events \in Seq(Nat)
      <4> DEFINE F == [events : Seq(Nat), dropped : Nat]
      <4>1. pipe \in Seq(F) /\ pipe # <<>>
        BY <1>1, <2>1 DEF Server, Store
      <4>2. Head(pipe) \in F
        <5> HIDE DEF F
        <5> QED  BY <4>1, HeadTailProperties
      <4> QED
        BY <4>2
    <3>2. stored' \in Seq(Nat)
      BY <1>1, <2>1, <3>1 DEF Server, Store
    <3>3. pipe' \in Seq([events : Seq(Nat), dropped : Nat])
      BY <2>1 DEF Store
    <3> QED
      BY <3>2, <3>3 DEF Server
  <2>2. CASE ~ Store
    <3>1. pipe' = pipe \/ pipe' = <<>>
      BY <2>2 DEF Discard, ServerDies, ServerStarts, Flip, Hear, wire
    <3>2. stored' = stored
      BY <2>2 DEF Discard, ServerDies, ServerStarts, Flip, Hear, outside
    <3>3. pipe' \in Seq([events : Seq(Nat), dropped : Nat])
      <4>1. CASE pipe' = pipe
        BY <1>1, <4>1 DEF Server
      <4>2. CASE pipe' = <<>>
        BY <4>2
      <4> QED
        BY <3>1, <4>1, <4>2
    <3> QED
      BY <1>1, <3>2, <3>3 DEF Server
  <2> QED
    BY <2>1, <2>2
<1> QED
  BY <1>4, <1>6, <1>7, <1>8, TypeParts

-----------------------------------------------------------------------------
(* One flush. *)

LoopPcs == {"pop", "send", "return", "check"}

(* The loop after one callback has changed its state.                       *)
LEMMA LoopingStep ==
    ASSUME Held, NEW b \in Callbacks, NEW x, cb' = [cb EXCEPT ![b] = x]
    PROVE  /\ cb'[b] = x
           /\ \A c \in Callbacks \ {b} : cb'[c] = cb[c]
           /\ x.pc \in LoopPcs => Looping' = Looping \cup {b}
           /\ x.pc \notin LoopPcs => Looping' = Looping \ {b}
<1>1. cb'[b] = x
  BY DEF Held
<1>2. \A c \in Callbacks \ {b} : cb'[c] = cb[c]
  BY DEF Held
<1>3. \A c \in Callbacks : c \in Looping' <=> cb'[c].pc \in LoopPcs
  BY DEF Looping, LoopPcs
<1>4. \A c \in Callbacks : c \in Looping <=> cb[c].pc \in LoopPcs
  BY DEF Looping, LoopPcs
<1>5. Looping \subseteq Callbacks /\ Looping' \subseteq Callbacks
  BY DEF Looping
<1>6. \A c \in Callbacks \ {b} : c \in Looping' <=> c \in Looping
  BY <1>2, <1>3, <1>4
<1>7. b \in Looping' <=> x.pc \in LoopPcs
  BY <1>1, <1>3
<1> QED
  BY <1>1, <1>2, <1>5, <1>6, <1>7

(* A step that leaves the callbacks alone leaves the loop alone.            *)
LEMMA LoopingSame ==
    ASSUME cb' = cb
    PROVE  Looping' = Looping
BY DEF Looping

(* Pop, Send, SendFails and Return go on in the loop ...                    *)
LEMMA GoesOn ==
    ASSUME Held, NEW b \in Callbacks,
           \/ Pop(b)
           \/ Send(b)
           \/ SendFails(b)
           \/ Return(b)
    PROVE  b \in Looping /\ Looping' = Looping /\ inFlight' = inFlight
<1>1. b \in Looping
  BY DEF Pop, Send, SendFails, Return, Looping
<1>2. inFlight' = inFlight
  BY DEF Pop, Send, SendFails, Return
<1>3. PICK x : x.pc \in LoopPcs /\ cb' = [cb EXCEPT ![b] = x]
  <2>1. CASE Pop(b) /\ queue = <<>>
    <3> WITNESS [pc |-> "check", batch |-> <<>>, dropped |-> 0]
    <3> QED  BY <2>1 DEF Pop, LoopPcs
  <2>2. CASE Pop(b) /\ queue # <<>>
    <3> WITNESS [pc |-> "send", batch |-> queue, dropped |-> lost]
    <3> QED  BY <2>2 DEF Pop, LoopPcs
  <2>3. CASE Send(b) \/ Return(b)
    <3> WITNESS [pc |-> "check", batch |-> <<>>, dropped |-> 0]
    <3> QED  BY <2>3 DEF Send, Return, LoopPcs
  <2>4. CASE SendFails(b)
    <3> DEFINE x == [pc |-> "return", batch |-> cb[b].batch, dropped |-> cb[b].dropped]
    <3>1. cb' = [cb EXCEPT ![b] = x]
      BY <2>4, OnlyPc DEF SendFails
    <3>2. x.pc \in LoopPcs
      BY DEF LoopPcs
    <3> HIDE DEF x
    <3> QED  BY <3>1, <3>2
  <2> QED
    BY <2>1, <2>2, <2>3, <2>4
<1>4. Looping' = Looping \cup {b}
  BY <1>3, LoopingStep
<1> QED
  BY <1>1, <1>2, <1>4

(* ... Check does so only if there is something left ...                    *)
LEMMA Checked ==
    ASSUME Held, NEW b \in Callbacks, Check(b)
    PROVE  /\ b \in Looping
           /\ cb[b].batch = <<>> /\ cb[b].dropped = 0
           /\ cb'[b].batch = <<>> /\ cb'[b].dropped = 0
           /\ queue # <<>> => Looping' = Looping /\ inFlight' = TRUE
           /\ queue = <<>> => Looping' = Looping \ {b} /\ inFlight' = FALSE
<1>1. b \in Looping
  BY DEF Check, Looping
<1>2. cb[b].batch = <<>> /\ cb[b].dropped = 0
  BY DEF Held, CallbackOK, Check
<1> DEFINE pc == IF queue = <<>> THEN "release" ELSE "pop"
           x == [pc |-> pc, batch |-> cb[b].batch, dropped |-> cb[b].dropped]
<1>3. cb' = [cb EXCEPT ![b] = x]
  BY OnlyPc DEF Check
<1>4. x.pc = pc /\ x.batch = <<>> /\ x.dropped = 0
  BY <1>2
<1>5. queue # <<>> => pc \in LoopPcs /\ inFlight' = TRUE
  BY DEF LoopPcs, Check
<1>6. queue = <<>> => pc \notin LoopPcs /\ inFlight' = FALSE
  BY DEF LoopPcs, Check
<1> HIDE DEF pc, x
<1>7. /\ cb'[b] = x
      /\ x.pc \in LoopPcs => Looping' = Looping \cup {b}
      /\ x.pc \notin LoopPcs => Looping' = Looping \ {b}
  BY <1>3, LoopingStep
<1> QED
  BY <1>1, <1>2, <1>4, <1>5, <1>6, <1>7

(* ... and Release is outside it.                                           *)
LEMMA Released ==
    ASSUME Held, NEW b \in Callbacks, Release(b)
    PROVE  /\ Looping' = Looping /\ b \notin Looping
           /\ \A c \in Looping : cb'[c] = cb[c]
           /\ inFlight' = inFlight
<1>1. b \notin Looping
  BY DEF Release, Looping
<1>2. cb' = [cb EXCEPT ![b] = Idle] /\ inFlight' = inFlight
  BY DEF Release
<1>3. Looping' = Looping \ {b}
  <2>1. Idle.pc \notin LoopPcs
    BY DEF Idle, LoopPcs
  <2> QED
    BY <1>2, <2>1, LoopingStep
<1>4. \A c \in Callbacks \ {b} : cb'[c] = cb[c]
  BY <1>2, LoopingStep
<1> QED
  BY <1>1, <1>2, <1>3, <1>4 DEF Looping

LEMMA Submitted ==
    ASSUME Held, OneFlush, NEW b \in Callbacks, Submit(b)
    PROVE  /\ Looping = {} /\ Looping' = {b}
           /\ cb'[b].batch = <<>> /\ cb'[b].dropped = 0
           /\ inFlight' = TRUE
<1>1. Looping = {} /\ inFlight' = TRUE
  BY DEF OneFlush, Submit
<1>2. cb[b].batch = <<>> /\ cb[b].dropped = 0
  BY DEF Held, CallbackOK, Submit
<1> DEFINE x == [pc |-> "pop", batch |-> cb[b].batch, dropped |-> cb[b].dropped]
<1>3. cb' = [cb EXCEPT ![b] = x]
  BY OnlyPc DEF Submit
<1>4. x.pc \in LoopPcs /\ x.batch = <<>> /\ x.dropped = 0
  BY <1>2 DEF LoopPcs
<1> HIDE DEF x
<1>5. cb'[b] = x /\ Looping' = Looping \cup {b}
  BY <1>3, <1>4, LoopingStep
<1> QED
  BY <1>1, <1>4, <1>5

(* The other steps do not touch the callbacks.                              *)
OtherStep ==
    \/ CaptureBehind \/ SubmitFails
    \/ Store \/ Discard \/ ServerDies \/ ServerStarts
    \/ Flip \/ Hear

LEMMA Others ==
    ASSUME OtherStep
    PROVE  cb' = cb /\ inFlight' = inFlight /\ refs' = refs
BY DEF OtherStep, CaptureBehind, SubmitFails, Store, Discard, ServerDies,
       ServerStarts, Flip, Hear, host, outside

LEMMA Steps ==
    ASSUME Next
    PROVE  OtherStep \/ \E b \in Callbacks : Submit(b) \/ Flush(b)
BY DEF Next, OtherStep

LEMMA FlushKeepsOne ==
    ASSUME Held, OneFlush, Next
    PROVE  OneFlush'
<1>1. CASE OtherStep
  BY <1>1, Others, LoopingSame DEF OneFlush
<1>2. ASSUME NEW b \in Callbacks, Submit(b) PROVE OneFlush'
  BY <1>2, Submitted DEF OneFlush
<1>3. ASSUME NEW b \in Callbacks, Flush(b) PROVE OneFlush'
  <2>1. CASE Pop(b) \/ Send(b) \/ SendFails(b) \/ Return(b)
    BY <2>1, GoesOn DEF OneFlush
  <2>2. CASE Check(b)
    <3>1. Looping = {b}
      BY <2>2, Checked DEF OneFlush
    <3> QED
      BY <2>2, <3>1, Checked DEF OneFlush
  <2>3. CASE Release(b)
    BY <2>3, Released DEF OneFlush
  <2> QED
    BY <1>3, <2>1, <2>2, <2>3 DEF Flush
<1> QED
  BY <1>1, <1>2, <1>3, Steps

LEMMA Attended ==
    ASSUME Held, QueueAttended, Next
    PROVE  QueueAttended'
<1>1. CASE OtherStep
  <2>1. CASE CaptureBehind
    BY <2>1 DEF CaptureBehind, QueueAttended
  <2>2. CASE SubmitFails
    BY <2>2 DEF SubmitFails, QueueAttended
  <2>3. CASE ~ (CaptureBehind \/ SubmitFails)
    BY <1>1, <2>3
       DEF OtherStep, Store, Discard, ServerDies, ServerStarts, Flip, Hear, host,
           outside, QueueAttended
  <2> QED
    BY <2>1, <2>2, <2>3
<1>2. ASSUME NEW b \in Callbacks, Submit(b) PROVE QueueAttended'
  BY <1>2 DEF Submit, QueueAttended
<1>3. ASSUME NEW b \in Callbacks, Flush(b) PROVE QueueAttended'
  BY <1>3
     DEF Flush, Pop, Send, SendFails, Return, Check, Release, QueueAttended
<1> QED
  BY <1>1, <1>2, <1>3, Steps

-----------------------------------------------------------------------------
(* The balance. *)

LEMMA Numbers ==
    ASSUME TypeOK
    PROVE  /\ captured \in Nat /\ captured <= MaxEvents
           /\ queue \in Seq(Nat) /\ Len(queue) \in Nat
           /\ lost \in Nat /\ sent \in Nat /\ told \in Nat
           /\ \A b \in Callbacks : Len(cb[b].batch) \in Nat /\ cb[b].dropped \in Nat
<1>1. Len(queue) \in Nat
  BY DEF TypeOK
<1>2. \A b \in Callbacks : cb[b].batch \in Seq(Nat) /\ cb[b].dropped \in Nat
  BY DEF TypeOK
<1>3. captured \in 0..MaxEvents /\ MaxEvents \in Nat
  BY CapacityAssumption DEF TypeOK
<1> QED
  BY <1>1, <1>2, <1>3, Shapes DEF TypeOK

LEMMA CaptureBalances ==
    ASSUME TypeOK, OneFlush, Balanced,
           \/ CaptureBehind
           \/ SubmitFails
           \/ \E b \in Callbacks : Submit(b)
    PROVE  Balanced'
<1>1. Capture
  BY DEF CaptureBehind, SubmitFails, Submit
<1>2. captured' = captured + 1
  BY <1>1, LossesBounded, Captured
<1>3. Len(queue') + lost' = Len(queue) + lost + 1
  BY <1>1, LossesBounded, Captured
<1>4. sent' = sent /\ told' = told
  BY DEF CaptureBehind, SubmitFails, Submit, wire
<1> DEFINE q == Len(queue)
           r == Len(queue')
           m == lost'
<1>5. q \in Nat /\ lost \in Nat /\ sent \in Nat /\ told \in Nat /\ captured \in Nat
  BY Numbers
<1>6. r \in Nat /\ m \in Nat
  BY <1>1, LossesBounded, Captured DEF Queued
<1>7. Looping \subseteq Callbacks
  BY DEF Looping
<1>8. CASE CaptureBehind \/ SubmitFails
  <2>1. cb' = cb /\ Looping' = Looping
    BY <1>8, LoopingSame DEF CaptureBehind, SubmitFails
  <2>2. ASSUME NEW c \in Looping
        PROVE  captured' = Settled' + Len(cb'[c].batch) + cb'[c].dropped
    <3> DEFINE n == Len(cb[c].batch)
               d == cb[c].dropped
    <3>1. n \in Nat /\ d \in Nat
      BY <1>7, Numbers
    <3>2. captured = q + lost + sent + told + n + d
      BY DEF Balanced, Settled
    <3>3. q + lost + 1 = r + m
      BY <1>3
    <3> HIDE DEF q, r, m, n, d
    <3>4. captured + 1 = r + m + sent + told + n + d
      BY <1>5, <1>6, <3>1, <3>2, <3>3
    <3> QED
      BY <1>2, <1>4, <2>1, <3>4 DEF Settled, r, m, n, d
  <2>3. ASSUME Looping = {} PROVE captured' = Settled'
    <3>1. captured = q + lost + sent + told
      BY <2>3 DEF Balanced, Settled
    <3>2. q + lost + 1 = r + m
      BY <1>3
    <3> HIDE DEF q, r, m
    <3>3. captured + 1 = r + m + sent + told
      BY <1>5, <1>6, <3>1, <3>2
    <3> QED
      BY <1>2, <1>4, <3>3 DEF Settled, r, m
  <2> QED
    BY <2>1, <2>2, <2>3 DEF Balanced
<1>9. ASSUME NEW b \in Callbacks, Submit(b) PROVE Balanced'
  <2>1. /\ Looping = {} /\ Looping' = {b}
        /\ cb'[b].batch = <<>> /\ cb'[b].dropped = 0
    BY <1>9, TypeParts, Submitted
  <2>2. captured = q + lost + sent + told
    BY <2>1 DEF Balanced, Settled
  <2>3. q + lost + 1 = r + m
    BY <1>3
  <2>4. captured + 1 = r + m + sent + told + 0 + 0
    <3> HIDE DEF q, r, m
    <3> QED  BY <1>5, <1>6, <2>2, <2>3
  <2> QED
    BY <1>2, <1>4, <2>1, <2>4, Shapes DEF Balanced, Settled
<1> QED
  BY <1>8, <1>9

LEMMA FlushBalances ==
    ASSUME TypeOK, OneFlush, Balanced, NEW b \in Callbacks, Flush(b)
    PROVE  Balanced'
<1> DEFINE q == Len(queue)
           n == Len(cb[b].batch)
           d == cb[b].dropped
<1>1. /\ q \in Nat /\ lost \in Nat /\ sent \in Nat /\ told \in Nat
      /\ n \in Nat /\ d \in Nat
      /\ captured \in Nat /\ captured <= MaxEvents
  BY Numbers
<1>2. Held
  BY TypeParts
<1>3. captured' = captured
  BY DEF Flush, Pop, Send, SendFails, Return, Check, Release
<1>4. ASSUME b \in Looping
      PROVE  Looping = {b} /\ captured = q + lost + sent + told + n + d
  BY <1>4 DEF OneFlush, Balanced, Settled
<1>5. ASSUME Looping' = {b},
             captured' = Len(queue') + lost' + sent' + told'
                           + Len(cb'[b].batch) + cb'[b].dropped
      PROVE  Balanced'
  BY <1>5 DEF Balanced, Settled
<1>6. CASE Pop(b)
  <2>1. /\ Looping' = {b}
        /\ captured = q + lost + sent + told + n + d
    BY <1>2, <1>4, <1>6, GoesOn
  <2>2. cb[b].batch = <<>> /\ d = 0
    BY <1>2, <1>6 DEF Held, CallbackOK, Pop
  <2>3. sent' = sent /\ told' = told
    BY <1>6 DEF Pop, wire
  <2>4. CASE queue = <<>>
    <3>1. cb'[b].batch = <<>> /\ cb'[b].dropped = 0
      BY <1>2, <1>6, <2>4 DEF Pop, Held
    <3>2. queue' = queue /\ lost' = lost
      BY <1>6, <2>4 DEF Pop
    <3> QED
      BY <1>3, <1>5, <2>1, <2>2, <2>3, <3>1, <3>2
  <2>5. CASE queue # <<>>
    <3>1. cb'[b].batch = queue /\ cb'[b].dropped = lost
      BY <1>2, <1>6, <2>5 DEF Pop, Held
    <3>2. Len(queue') = 0 /\ lost' = 0
      BY <1>6, <2>5, Shapes DEF Pop
    <3>3. n = 0
      BY <2>2, Shapes
    <3>4. captured = 0 + 0 + sent + told + q + lost
      <4> HIDE DEF q, n, d
      <4> QED  BY <1>1, <2>1, <2>2, <3>3
    <3> QED
      BY <1>3, <1>5, <2>1, <2>3, <3>1, <3>2, <3>4
  <2> QED
    BY <2>4, <2>5
<1>7. CASE Send(b)
  <2>1. /\ Looping' = {b}
        /\ captured = q + lost + sent + told + n + d
    BY <1>2, <1>4, <1>7, GoesOn
  <2>2. cb'[b].batch = <<>> /\ cb'[b].dropped = 0
    BY <1>2, <1>7 DEF Send, Held
  <2>3. queue' = queue /\ lost' = lost /\ sent' = sent + n /\ told' = told + d
    BY <1>7 DEF Send
  <2>4. captured = q + lost + (sent + n) + (told + d) + 0 + 0
    <3> HIDE DEF q, n, d
    <3> QED  BY <1>1, <2>1
  <2> QED
    BY <1>3, <1>5, <2>1, <2>2, <2>3, <2>4, Shapes
<1>8. CASE SendFails(b)
  <2>1. /\ Looping' = {b}
        /\ captured = q + lost + sent + told + n + d
    BY <1>2, <1>4, <1>8, GoesOn
  <2>2. cb'[b].batch = cb[b].batch /\ cb'[b].dropped = cb[b].dropped
    <3>1. cb' = [cb EXCEPT ![b] = [pc |-> "return", batch |-> cb[b].batch,
                                   dropped |-> cb[b].dropped]]
      BY <1>2, <1>8, OnlyPc DEF SendFails
    <3> QED
      BY <1>2, <3>1 DEF Held
  <2>3. queue' = queue /\ lost' = lost /\ sent' = sent /\ told' = told
    BY <1>8 DEF SendFails, wire
  <2> QED
    BY <1>3, <1>5, <2>1, <2>2, <2>3
<1>9. CASE Return(b)
  <2>1. /\ Looping' = {b}
        /\ captured = q + lost + sent + told + n + d
    BY <1>2, <1>4, <1>9, GoesOn
  <2>2. cb'[b].batch = <<>> /\ cb'[b].dropped = 0
    BY <1>2, <1>9 DEF Return, Held
  <2>3. queue' = queue /\ sent' = sent /\ told' = told
    BY <1>9 DEF Return, wire
  <2>4. lost' = lost + (d + n)
    <3>1. d + n <= MaxCounter /\ lost + (d + n) <= MaxCounter
      <4> HIDE DEF q, n, d
      <4> QED  BY <1>1, <2>1, CounterAssumption, CapacityAssumption
    <3>2. (d + n) % (MaxCounter + 1) = d + n
      <4> DEFINE k == d + n
      <4>1. k \in Nat /\ k <= MaxCounter /\ MaxCounter \in Nat
        BY <1>1, <3>1, CounterAssumption
      <4> HIDE DEF k
      <4>2. k % (MaxCounter + 1) = k
        BY <4>1, Wrap
      <4> QED
        BY <4>2 DEF k
    <3>3. lost' = Saturated(lost + ((d + n) % (MaxCounter + 1)))
      BY <1>9 DEF Return
    <3> HIDE DEF q, n, d
    <3> QED
      BY <1>1, <3>1, <3>2, <3>3, CounterAssumption DEF Saturated
  <2>5. captured = q + (lost + (d + n)) + sent + told + 0 + 0
    <3> HIDE DEF q, n, d
    <3> QED  BY <1>1, <2>1
  <2> QED
    BY <1>3, <1>5, <2>1, <2>2, <2>3, <2>4, <2>5, Shapes
<1>10. CASE Check(b)
  <2>1. /\ b \in Looping
        /\ cb[b].batch = <<>> /\ d = 0
        /\ cb'[b].batch = <<>> /\ cb'[b].dropped = 0
        /\ queue # <<>> => Looping' = Looping
        /\ queue = <<>> => Looping' = Looping \ {b}
    BY <1>2, <1>10, Checked
  <2>2. queue' = queue /\ lost' = lost /\ sent' = sent /\ told' = told
    BY <1>10 DEF Check, wire
  <2>3. Looping = {b} /\ captured = q + lost + sent + told + n + d
    BY <1>4, <2>1
  <2>4. CASE queue # <<>>
    BY <1>3, <1>5, <2>1, <2>2, <2>3, <2>4
  <2>5. CASE queue = <<>>
    <3>1. Looping' = {}
      BY <2>1, <2>3, <2>5
    <3>2. n = 0
      BY <2>1, Shapes
    <3>3. captured = q + lost + sent + told
      <4> HIDE DEF q, n, d
      <4> QED  BY <1>1, <2>1, <2>3, <3>2
    <3> QED
      BY <1>3, <2>2, <3>1, <3>3 DEF Balanced, Settled
  <2> QED
    BY <2>4, <2>5
<1>11. CASE Release(b)
  <2>1. Looping' = Looping /\ \A c \in Looping : cb'[c] = cb[c]
    BY <1>2, <1>11, Released
  <2>2. queue' = queue /\ lost' = lost /\ sent' = sent /\ told' = told
    BY <1>11 DEF Release, wire
  <2> QED
    BY <1>3, <2>1, <2>2 DEF Balanced, Settled
<1> QED
  BY <1>6, <1>7, <1>8, <1>9, <1>10, <1>11 DEF Flush

LEMMA OutsideBalances ==
    ASSUME Balanced,
           Store \/ Discard \/ ServerDies \/ ServerStarts \/ Flip \/ Hear
    PROVE  Balanced'
<1>1. /\ queue' = queue /\ lost' = lost /\ cb' = cb /\ captured' = captured
      /\ sent' = sent /\ told' = told
  BY DEF Store, Discard, ServerDies, ServerStarts, Flip, Hear, host, wire
<1>2. Looping' = Looping
  BY <1>1, LoopingSame
<1> QED
  BY <1>1, <1>2 DEF Balanced, Settled

-----------------------------------------------------------------------------
(* The module. *)

Running == { b \in Callbacks : cb[b].pc # "idle" }

LEMMA RunningFinite == IsFiniteSet(Running) /\ IsFiniteSet(Running')
BY CallbacksAssumption, FS_Subset DEF Running

(* A callback that goes on running leaves the count alone.                  *)
LEMMA StillRunning ==
    ASSUME Held, NEW b \in Callbacks, NEW x, cb[b].pc # "idle", x.pc # "idle",
           cb' = [cb EXCEPT ![b] = x]
    PROVE  Running' = Running
<1>1. \A c \in Callbacks : c \in Running' <=> c \in Running
  BY DEF Running, Held
<1> QED
  BY <1>1 DEF Running

LEMMA HoldsModule ==
    ASSUME TypeOK, OneFlush, ModuleHeld, Next
    PROVE  ModuleHeld'
<1>1. Held /\ refs \in Int
  BY TypeParts DEF Counts
<1>2. refs = Cardinality(Running)
  BY DEF ModuleHeld, Running
<1>3. ASSUME refs' = Cardinality(Running') PROVE ModuleHeld'
  BY <1>3 DEF ModuleHeld, Running
<1>4. CASE OtherStep
  <2>1. Running' = Running /\ refs' = refs
    BY <1>4, Others DEF Running
  <2> QED
    BY <1>2, <1>3, <2>1
<1>5. ASSUME NEW b \in Callbacks, Submit(b) PROVE ModuleHeld'
  <2>1. b \notin Running
    BY <1>5 DEF Submit, Running
  <2>2. Running' = Running \cup {b}
    <3>1. \A c \in Callbacks : c \in Running' <=> c \in Running \/ c = b
      <4>1. \A c \in Callbacks : cb'[c].pc = IF c = b THEN "pop" ELSE cb[c].pc
        <5>1. cb' = [cb EXCEPT ![b] = [pc |-> "pop", batch |-> cb[b].batch,
                                       dropped |-> cb[b].dropped]]
          BY <1>1, <1>5, OnlyPc DEF Submit
        <5> QED
          BY <1>1, <5>1 DEF Held
      <4> QED
        BY <4>1 DEF Running
    <3> QED
      BY <3>1 DEF Running
  <2>3. Cardinality(Running') = Cardinality(Running) + 1
    BY <2>1, <2>2, RunningFinite, FS_AddElement
  <2>4. refs' = refs + 1
    BY <1>5 DEF Submit
  <2> QED
    BY <1>2, <1>3, <2>3, <2>4
<1>6. ASSUME NEW b \in Callbacks, Flush(b) PROVE ModuleHeld'
  <2>1. CASE Pop(b) \/ Send(b) \/ SendFails(b) \/ Return(b) \/ Check(b)
    <3>1. refs' = refs
      BY <2>1 DEF Pop, Send, SendFails, Return, Check
    <3>2. cb[b].pc # "idle"
      BY <2>1 DEF Pop, Send, SendFails, Return, Check
    <3>3. \A c \in Callbacks : c # b => cb'[c] = cb[c]
      BY <1>1, <2>1 DEF Held, Pop, Send, SendFails, Return, Check
    <3>4. cb'[b].pc # "idle"
      <4>1. CASE Pop(b) \/ Send(b) \/ Return(b)
        BY <1>1, <4>1 DEF Held, Pop, Send, Return
      <4>2. ASSUME NEW pc, pc # "idle", cb' = [cb EXCEPT ![b].pc = pc]
            PROVE  cb'[b].pc # "idle"
        <5>1. cb' = [cb EXCEPT ![b] = [pc |-> pc, batch |-> cb[b].batch,
                                       dropped |-> cb[b].dropped]]
          BY <1>1, <4>2, OnlyPc
        <5> QED
          BY <1>1, <4>2, <5>1 DEF Held
      <4>3. CASE SendFails(b)
        BY <4>2, <4>3 DEF SendFails
      <4>4. CASE Check(b)
        <5>1. CASE queue = <<>>
          BY <4>2, <4>4, <5>1 DEF Check
        <5>2. CASE queue # <<>>
          BY <4>2, <4>4, <5>2 DEF Check
        <5> QED
          BY <5>1, <5>2
      <4> QED
        BY <2>1, <4>1, <4>3, <4>4
    <3>5. Running' = Running
      BY <3>2, <3>3, <3>4 DEF Running
    <3> QED
      BY <1>2, <1>3, <3>1, <3>5
  <2>2. CASE Release(b)
    <3>1. b \in Running
      BY <2>2 DEF Release, Running
    <3>2. Running' = Running \ {b}
      <4>1. \A c \in Callbacks : c \in Running' <=> c \in Running /\ c # b
        BY <1>1, <2>2 DEF Running, Held, Release, Idle
      <4> QED
        BY <4>1 DEF Running
    <3>3. Cardinality(Running') = Cardinality(Running) - 1
      BY <3>1, <3>2, RunningFinite, FS_RemoveElement
    <3>4. refs' = refs - 1
      BY <2>2 DEF Release
    <3> QED
      BY <1>2, <1>3, <3>3, <3>4
  <2> QED
    BY <1>6, <2>1, <2>2 DEF Flush
<1> QED
  BY <1>4, <1>5, <1>6, Steps

-----------------------------------------------------------------------------
(* The inductive invariant.                                                *)
IInv == TypeOK /\ OneFlush /\ QueueAttended /\ Balanced /\ ModuleHeld

LEMMA InitIInv == Init => IInv
<1> SUFFICES ASSUME Init PROVE IInv
  OBVIOUS
<1>1. cb = [b \in Callbacks |-> Idle] /\ Looping = {} /\ Running = {}
  BY DEF Init, Looping, Running, Idle
<1>2. Queued /\ Counts
  BY Shapes, CapacityAssumption DEF Init, Queued, Counts
<1>3. Flags
  BY DEF Init, Flags
<1>4. Held
  <2>1. Idle \in CB /\ CallbackOK(Idle) /\ Len(Idle.batch) <= Capacity
    BY Shapes, CapacityAssumption DEF Idle
  <2> QED
    BY <1>1, <2>1 DEF Held
<1>5. Server
  BY DEF Init, Server
<1>6. OneFlush /\ QueueAttended
  BY <1>1 DEF Init, OneFlush, QueueAttended
<1>7. Balanced
  BY <1>1, Shapes DEF Init, Balanced, Settled
<1>8. ModuleHeld
  BY <1>1, FS_EmptySet DEF Init, ModuleHeld, Running
<1> QED
  BY <1>2, <1>3, <1>4, <1>5, <1>6, <1>7, <1>8, TypeParts DEF IInv

LEMMA NextIInv == IInv /\ [Next]_vars => IInv'
<1> SUFFICES ASSUME IInv, [Next]_vars PROVE IInv'
  OBVIOUS
<1>1. TypeOK /\ OneFlush /\ QueueAttended /\ Balanced /\ ModuleHeld
  BY DEF IInv
<1>2. CASE Next
  <2>1. Held
    BY <1>1, TypeParts
  <2>2. OneFlush' /\ QueueAttended' /\ ModuleHeld'
    BY <1>1, <1>2, <2>1, FlushKeepsOne, Attended, HoldsModule
  <2>3. CASE CaptureBehind \/ SubmitFails \/ \E b \in Callbacks : Submit(b)
    BY <1>1, <2>2, <2>3, CaptureTypes, CaptureBalances DEF IInv
  <2>4. ASSUME NEW b \in Callbacks, Flush(b) PROVE IInv'
    BY <1>1, <2>2, <2>4, FlushTypes, FlushBalances DEF IInv
  <2>5. CASE Store \/ Discard \/ ServerDies \/ ServerStarts \/ Flip \/ Hear
    BY <1>1, <2>2, <2>5, OutsideTypes, OutsideBalances DEF IInv
  <2> QED
    BY <1>2, <2>3, <2>4, <2>5 DEF Next
<1>3. CASE UNCHANGED vars
  <2>1. TypeOK'
    BY <1>1, <1>3 DEF TypeOK, CallbackOK, vars, host, wire, outside
  <2>2. OneFlush' /\ QueueAttended' /\ Balanced'
    BY <1>1, <1>3
       DEF OneFlush, QueueAttended, Balanced, Looping, Settled, vars, host, wire,
           outside
  <2>3. ModuleHeld'
    BY <1>1, <1>3 DEF ModuleHeld, vars, host
  <2> QED
    BY <2>1, <2>2, <2>3 DEF IInv
<1> QED
  BY <1>2, <1>3

THEOREM Invariance == Spec => []IInv
BY InitIInv, NextIInv, PTL DEF Spec

(* Every variable has its type; the queue and a batch keep within the       *)
(* capacity, so that a batch fits the buffer of FlushStatisticsEvents.      *)
THEOREM TypeCorrect == Spec => []TypeOK
<1>1. IInv => TypeOK
  BY DEF IInv
<1> QED
  BY <1>1, Invariance, PTL

(* However many callbacks the pool runs at once, at most one of them is in  *)
(* the loop of FlushStatisticsEvents, and g_flushInFlight tells whether.    *)
THEOREM FlushesAreSingle == Spec => []OneFlush
<1>1. IInv => OneFlush
  BY DEF IInv
<1> QED
  BY <1>1, Invariance, PTL

(* QueueStatisticsEvent never leaves events behind with nobody to send them, *)
(* unless the pool refused the last submission.                             *)
THEOREM QueuesAreAttended == Spec => []QueueAttended
<1>1. IInv => QueueAttended
  BY DEF IInv
<1> QED
  BY <1>1, Invariance, PTL

(* Every event captured is in exactly one place or one count, through       *)
(* evictions, failed frames and the 32-bit sum of FlushStatisticsEvents.    *)
THEOREM EventsBalance == Spec => []Balanced
<1>1. IInv => Balanced
  BY DEF IInv
<1> QED
  BY <1>1, Invariance, PTL

(* The references DllAddRef took are those of the callbacks still running:   *)
(* the module can go when, and only when, the last of them has returned.    *)
THEOREM ReferencesCount == Spec => []ModuleHeld
<1>1. IInv => ModuleHeld
  BY DEF IInv
<1> QED
  BY <1>1, Invariance, PTL

-----------------------------------------------------------------------------
(* The order of capture.                                                    *)

Below(s, n) == \A i \in DOMAIN s : s[i] <= n
Ahead(s, t) == \A i \in DOMAIN s, j \in DOMAIN t : s[i] < t[j]

(* Joining, cutting and extending sequences of events.                      *)
LEMMA Nothing ==
    /\ Increasing(<<>>)
    /\ \A n : Below(<<>>, n)
    /\ \A s : Ahead(<<>>, s) /\ Ahead(s, <<>>)
<1>1. DOMAIN <<>> = {}
  OBVIOUS
<1> QED
  BY <1>1 DEF Increasing, Below, Ahead

LEMMA Joined ==
    ASSUME NEW s \in Seq(Nat), NEW t \in Seq(Nat)
    PROVE  /\ s \o t \in Seq(Nat)
           /\ \A i \in DOMAIN (s \o t) :
                \/ i \in DOMAIN s /\ (s \o t)[i] = s[i]
                \/ i - Len(s) \in DOMAIN t /\ (s \o t)[i] = t[i - Len(s)] /\ i > Len(s)
<1>1. Len(s) \in Nat /\ Len(t) \in Nat
  OBVIOUS
<1>2. s \o t \in Seq(Nat) /\ Len(s \o t) = Len(s) + Len(t)
  BY ConcatProperties
<1>3. DOMAIN (s \o t) = 1..(Len(s) + Len(t)) /\ DOMAIN s = 1..Len(s) /\ DOMAIN t = 1..Len(t)
  BY <1>2
<1>4. \A i \in 1..(Len(s) + Len(t)) :
        (s \o t)[i] = IF i <= Len(s) THEN s[i] ELSE t[i - Len(s)]
  BY ConcatProperties
<1> QED
  BY <1>1, <1>2, <1>3, <1>4

LEMMA JoinKeeps ==
    ASSUME NEW s \in Seq(Nat), NEW t \in Seq(Nat)
    PROVE  /\ Increasing(s) /\ Increasing(t) /\ Ahead(s, t) => Increasing(s \o t)
           /\ \A n : Below(s, n) /\ Below(t, n) => Below(s \o t, n)
           /\ \A u : Ahead(s, u) /\ Ahead(t, u) => Ahead(s \o t, u)
<1>1. ASSUME Increasing(s), Increasing(t), Ahead(s, t) PROVE Increasing(s \o t)
  <2>1. SUFFICES ASSUME NEW i \in DOMAIN (s \o t), NEW j \in DOMAIN (s \o t), i < j
                 PROVE  (s \o t)[i] < (s \o t)[j]
    BY DEF Increasing
  <2>2. CASE j \in DOMAIN s /\ (s \o t)[j] = s[j]
    <3>1. i \in DOMAIN s /\ (s \o t)[i] = s[i]
      BY <2>1, <2>2, Joined
    <3> QED
      BY <1>1, <2>1, <2>2, <3>1 DEF Increasing
  <2>3. CASE j - Len(s) \in DOMAIN t /\ (s \o t)[j] = t[j - Len(s)]
    <3>1. CASE i \in DOMAIN s /\ (s \o t)[i] = s[i]
      BY <1>1, <2>3, <3>1 DEF Ahead
    <3>2. CASE i - Len(s) \in DOMAIN t /\ (s \o t)[i] = t[i - Len(s)]
      <4>1. i \in Nat /\ j \in Nat /\ Len(s) \in Nat
        BY Joined
      <4>2. i - Len(s) < j - Len(s)
        BY <2>1, <4>1
      <4> QED
        BY <1>1, <2>3, <3>2, <4>2 DEF Increasing
    <3> QED
      BY <3>1, <3>2, Joined
  <2> QED
    BY <2>2, <2>3, Joined
<1>2. ASSUME NEW n, Below(s, n), Below(t, n) PROVE Below(s \o t, n)
  BY <1>2, Joined DEF Below
<1>3. ASSUME NEW u, Ahead(s, u), Ahead(t, u) PROVE Ahead(s \o t, u)
  BY <1>3, Joined DEF Ahead
<1> QED
  BY <1>1, <1>2, <1>3

LEMMA TailKeeps ==
    ASSUME NEW s \in Seq(Nat), s # <<>>
    PROVE  /\ Tail(s) \in Seq(Nat)
           /\ Increasing(s) => Increasing(Tail(s))
           /\ \A n : Below(s, n) => Below(Tail(s), n)
           /\ \A u : Ahead(u, s) => Ahead(u, Tail(s))
<1>1. Tail(s) \in Seq(Nat) /\ Len(s) \in Nat \ {0}
  BY EmptySeq
<1>2. \A i \in DOMAIN Tail(s) : i \in Nat /\ i + 1 \in DOMAIN s /\ Tail(s)[i] = s[i + 1]
  BY <1>1
<1>3. ASSUME Increasing(s) PROVE Increasing(Tail(s))
  BY <1>2, <1>3 DEF Increasing
<1>4. ASSUME NEW n, Below(s, n) PROVE Below(Tail(s), n)
  BY <1>2, <1>4 DEF Below
<1>5. ASSUME NEW u, Ahead(u, s) PROVE Ahead(u, Tail(s))
  BY <1>2, <1>5 DEF Ahead
<1> QED
  BY <1>1, <1>3, <1>4, <1>5

LEMMA AppendKeeps ==
    ASSUME NEW s \in Seq(Nat), NEW n \in Nat, Below(s, n)
    PROVE  /\ Increasing(s) => Increasing(Append(s, n + 1))
           /\ Below(Append(s, n + 1), n + 1)
           /\ \A u \in Seq(Nat) :
                Ahead(u, s) /\ Below(u, n) => Ahead(u, Append(s, n + 1))
<1> DEFINE t == Append(s, n + 1)
<1>1. Len(s) \in Nat /\ t \in Seq(Nat) /\ Len(t) = Len(s) + 1
  OBVIOUS
<1>2. \A i \in DOMAIN t : \/ i \in DOMAIN s /\ t[i] = s[i]
                          \/ i = Len(s) + 1 /\ t[i] = n + 1
  BY <1>1
<1>3. \A i \in DOMAIN s : i <= Len(s) /\ s[i] \in Nat
  BY <1>1
<1> HIDE DEF t
<1>4. ASSUME Increasing(s) PROVE Increasing(t)
  <2>1. SUFFICES ASSUME NEW i \in DOMAIN t, NEW j \in DOMAIN t, i < j
                 PROVE  t[i] < t[j]
    BY DEF Increasing
  <2>2. i \in Nat /\ j \in Nat
    BY <1>1
  <2>3. CASE j \in DOMAIN s /\ t[j] = s[j]
    <3>1. i \in DOMAIN s /\ t[i] = s[i]
      BY <1>1, <1>2, <1>3, <2>1, <2>2, <2>3
    <3> QED
      BY <1>4, <2>1, <2>3, <3>1 DEF Increasing
  <2>4. CASE j = Len(s) + 1 /\ t[j] = n + 1
    <3>1. i \in DOMAIN s /\ t[i] = s[i]
      BY <1>1, <1>2, <2>1, <2>2, <2>4
    <3> QED
      BY <1>3, <2>4, <3>1 DEF Below
  <2> QED
    BY <1>2, <2>3, <2>4
<1>5. Below(t, n + 1)
  <2>1. SUFFICES ASSUME NEW i \in DOMAIN t PROVE t[i] <= n + 1
    BY DEF Below
  <2> QED
    BY <1>2, <1>3 DEF Below
<1>6. ASSUME NEW u \in Seq(Nat), Ahead(u, s), Below(u, n) PROVE Ahead(u, t)
  <2>1. SUFFICES ASSUME NEW i \in DOMAIN u, NEW j \in DOMAIN t PROVE u[i] < t[j]
    BY DEF Ahead
  <2>2. u[i] \in Nat /\ u[i] <= n
    BY <1>6 DEF Below
  <2>3. CASE j \in DOMAIN s /\ t[j] = s[j]
    BY <1>6, <2>3 DEF Ahead
  <2>4. CASE t[j] = n + 1
    BY <2>2, <2>4
  <2> QED
    BY <1>2, <2>3, <2>4
<1> QED
  BY <1>4, <1>5, <1>6 DEF t

(* The pairwise order of what is stored, on the wire, in a batch and queued. *)
(* Nothing is later than the last event captured.                            *)
Delivered ==
    /\ Increasing(stored) /\ Below(stored, captured)
    /\ Increasing(OnTheWire) /\ Below(OnTheWire, captured)
    /\ Ahead(stored, OnTheWire)

Waiting ==
    /\ Increasing(queue) /\ Below(queue, captured)
    /\ Ahead(stored, queue) /\ Ahead(OnTheWire, queue)

(* What of a batch b holds; it need not be the only one.                     *)
InHand(s) ==
    /\ Increasing(s) /\ Below(s, captured)
    /\ Ahead(stored, s) /\ Ahead(OnTheWire, s) /\ Ahead(s, queue)

Ordered == Delivered /\ Waiting /\ \A b \in Callbacks : InHand(cb[b].batch)

LEMMA Wire ==
    ASSUME TypeOK
    PROVE  OnTheWire \in Seq(Nat)
<1> DEFINE F == [events : Seq(Nat), dropped : Nat]
<1>1. pipe \in Seq(F)
  BY DEF TypeOK
<1>2. ASSUME pipe # <<>> PROVE Head(pipe) \in F
  <2> HIDE DEF F
  <2> QED  BY <1>1, <1>2, HeadTailProperties
<1> QED
  BY <1>2 DEF OnTheWire

LEMMA OrderedIsInOrder ==
    ASSUME TypeOK, Ordered
    PROVE  InOrder
<1>1. stored \in Seq(Nat) /\ OnTheWire \in Seq(Nat) /\ queue \in Seq(Nat)
  BY Wire DEF TypeOK
<1> DEFINE s == stored \o OnTheWire
<1>2. s \in Seq(Nat) /\ Increasing(s)
  BY <1>1, JoinKeeps, Joined DEF Ordered, Delivered
<1>3. \A t : Ahead(stored, t) /\ Ahead(OnTheWire, t) => Ahead(s, t)
  BY <1>1, JoinKeeps
<1> HIDE DEF s
<1>4. Increasing(s \o queue)
  BY <1>1, <1>2, <1>3, JoinKeeps DEF Ordered, Waiting
<1>5. ASSUME NEW b \in Callbacks PROVE Increasing(s \o cb[b].batch \o queue)
  <2> DEFINE t == cb[b].batch
  <2>1. t \in Seq(Nat)
    BY DEF TypeOK
  <2>2. InHand(t)
    BY DEF Ordered
  <2> HIDE DEF t
  <2>3. s \o t \in Seq(Nat) /\ Increasing(s \o t)
    BY <1>2, <1>3, <2>1, <2>2, JoinKeeps, Joined DEF InHand
  <2>4. Ahead(s \o t, queue)
    BY <1>2, <1>3, <2>1, <2>2, JoinKeeps DEF InHand, Ordered, Waiting
  <2>5. Increasing((s \o t) \o queue)
    BY <1>1, <2>3, <2>4, JoinKeeps DEF Ordered, Waiting
  <2> QED
    BY <2>5 DEF t
<1> QED
  BY <1>4, <1>5 DEF InOrder, s

(* Capture: the new event goes behind every other.                          *)
LEMMA CaptureOrders ==
    ASSUME TypeOK, Ordered, Capture, UNCHANGED <<stored, pipe>>,
           \A b \in Callbacks : cb'[b].batch = cb[b].batch
    PROVE  Ordered'
<1>1. /\ stored \in Seq(Nat) /\ OnTheWire \in Seq(Nat) /\ queue \in Seq(Nat)
      /\ captured \in Nat
      /\ \A b \in Callbacks : cb[b].batch \in Seq(Nat)
  BY Wire, Numbers DEF TypeOK
<1>2. captured' = captured + 1 /\ stored' = stored /\ OnTheWire' = OnTheWire
  BY DEF Capture, OnTheWire
<1>3. PICK q \in Seq(Nat) :
        /\ queue' = Append(q, captured + 1)
        /\ Increasing(q) /\ Below(q, captured)
        /\ \A u : Ahead(u, queue) => Ahead(u, q)
  <2>1. CASE Len(queue) = Capacity
    <3>1. queue # <<>>
      BY <2>1, Shapes, CapacityAssumption
    <3>2. queue' = Append(Tail(queue), captured + 1)
      BY <2>1 DEF Capture, Push
    <3> QED
      BY <1>1, <3>1, <3>2, TailKeeps DEF Ordered, Waiting
  <2>2. CASE Len(queue) # Capacity
    <3>1. queue' = Append(queue, captured + 1)
      BY <2>2 DEF Capture, Push
    <3> QED
      BY <1>1, <3>1 DEF Ordered, Waiting
  <2> QED
    BY <2>1, <2>2
<1>4. Increasing(queue') /\ Below(queue', captured')
  BY <1>1, <1>2, <1>3, AppendKeeps
<1>5. \A u \in Seq(Nat) : Ahead(u, queue) /\ Below(u, captured) => Ahead(u, queue')
  BY <1>1, <1>3, AppendKeeps
<1>6. \A u \in Seq(Nat) : Below(u, captured) => Below(u, captured')
  <2>1. \A u \in Seq(Nat) : \A i \in DOMAIN u : u[i] \in Nat
    OBVIOUS
  <2> QED
    BY <1>1, <1>2, <2>1 DEF Below
<1>7. Delivered'
  <2>1. Below(stored, captured') /\ Below(OnTheWire, captured')
    BY <1>1, <1>6 DEF Ordered, Delivered
  <2> QED
    BY <1>2, <2>1 DEF Ordered, Delivered
<1>8. Waiting'
  BY <1>1, <1>2, <1>4, <1>5 DEF Ordered, Delivered, Waiting
<1>9. ASSUME NEW b \in Callbacks PROVE InHand(cb[b].batch)'
  <2> DEFINE t == cb[b].batch
  <2>1. cb'[b].batch = t /\ t \in Seq(Nat) /\ InHand(t)
    BY <1>1 DEF Ordered
  <2> HIDE DEF t
  <2>2. Below(t, captured') /\ Ahead(t, queue')
    BY <1>5, <1>6, <2>1 DEF InHand
  <2> QED
    BY <1>2, <2>1, <2>2 DEF InHand
<1> QED
  BY <1>7, <1>8, <1>9 DEF Ordered

(* A step of a program counter leaves every batch as it is.                 *)
LEMMA SameBatches ==
    ASSUME Held, NEW b \in Callbacks, NEW pc, cb' = [cb EXCEPT ![b].pc = pc]
    PROVE  \A c \in Callbacks : cb'[c].batch = cb[c].batch
<1> DEFINE x == [pc |-> pc, batch |-> cb[b].batch, dropped |-> cb[b].dropped]
<1>1. cb' = [cb EXCEPT ![b] = x]
  BY OnlyPc
<1>2. x.batch = cb[b].batch
  OBVIOUS
<1> HIDE DEF x
<1>3. cb'[b] = x /\ \A c \in Callbacks \ {b} : cb'[c] = cb[c]
  BY <1>1, LoopingStep
<1> QED
  BY <1>2, <1>3

(* The order does not change when nothing moves, or a batch is let go.      *)
LEMMA OrderedAgain ==
    ASSUME Ordered, UNCHANGED <<stored, pipe, queue, captured>>,
           \A b \in Callbacks : cb'[b].batch \in {cb[b].batch, <<>>}
    PROVE  Ordered'
<1>1. OnTheWire' = OnTheWire
  BY DEF OnTheWire
<1>2. Delivered' /\ Waiting'
  BY <1>1 DEF Ordered, Delivered, Waiting
<1>3. ASSUME NEW b \in Callbacks PROVE InHand(cb[b].batch)'
  <2> DEFINE t == cb'[b].batch
  <2>1. InHand(t)
    <3>1. InHand(cb[b].batch) /\ InHand(<<>>)
      BY Nothing DEF Ordered, InHand
    <3>2. t \in {cb[b].batch, <<>>}
      OBVIOUS
    <3> HIDE DEF t
    <3> QED
      BY <3>1, <3>2
  <2> QED
    BY <1>1, <2>1 DEF InHand
<1> QED
  BY <1>2, <1>3 DEF Ordered

LEMMA FlushOrders ==
    ASSUME TypeOK, OneFlush, Ordered, NEW b \in Callbacks, Flush(b)
    PROVE  Ordered'
<1>1. Held
  BY TypeParts
<1>2. CASE Pop(b) /\ queue # <<>>
  <2>1. /\ UNCHANGED <<stored, pipe, captured>> /\ queue' = <<>>
        /\ cb' = [cb EXCEPT ![b] = [pc |-> "send", batch |-> queue, dropped |-> lost]]
    BY <1>2 DEF Pop, wire, outside
  <2>2. OnTheWire' = OnTheWire
    BY <2>1 DEF OnTheWire
  <2>3. \A c \in Callbacks : cb'[c].batch \in {cb[c].batch, queue}
    BY <1>1, <2>1 DEF Held
  <2>4. Delivered' /\ Waiting'
    BY <2>1, <2>2, Nothing DEF Ordered, Delivered, Waiting
  <2>5. ASSUME NEW c \in Callbacks PROVE InHand(cb[c].batch)'
    <3> DEFINE t == cb'[c].batch
    <3>1. Increasing(t) /\ Below(t, captured) /\ Ahead(stored, t) /\ Ahead(OnTheWire, t)
      <4>1. InHand(cb[c].batch) /\ Waiting /\ t \in {cb[c].batch, queue}
        BY <2>3 DEF Ordered
      <4> HIDE DEF t
      <4> QED
        BY <4>1 DEF InHand, Waiting
    <3>2. Ahead(t, <<>>)
      BY Nothing
    <3> QED
      BY <2>1, <2>2, <3>1, <3>2 DEF InHand
  <2> QED
    BY <2>4, <2>5 DEF Ordered
<1>3. CASE Pop(b) /\ queue = <<>>
  <2>1. cb' = [cb EXCEPT ![b] = [pc |-> "check", batch |-> <<>>, dropped |-> 0]]
    BY <1>3 DEF Pop
  <2>2. \A c \in Callbacks : cb'[c].batch \in {cb[c].batch, <<>>}
    BY <1>1, <2>1 DEF Held
  <2> QED
    BY <1>3, <2>2, OrderedAgain DEF Pop, wire, outside
<1>4. CASE Send(b)
  <2> DEFINE t == cb[b].batch
  <2>1. /\ UNCHANGED <<stored, queue, captured>> /\ pipe = <<>>
        /\ pipe' = <<[events |-> t, dropped |-> cb[b].dropped]>>
        /\ cb' = [cb EXCEPT ![b] = [pc |-> "check", batch |-> <<>>, dropped |-> 0]]
    BY <1>4 DEF Send, outside
  <2>2. OnTheWire' = t
    BY <2>1 DEF OnTheWire
  <2>3. InHand(t)
    BY DEF Ordered
  <2>4. \A c \in Callbacks : cb'[c].batch = <<>>
    <3>1. b \in Looping
      BY <1>4 DEF Send, Looping
    <3>2. \A c \in Callbacks \ {b} : cb[c].batch = <<>>
      <4>1. \A c \in Callbacks \ {b} : cb[c].pc \notin {"send", "return"}
        BY <3>1 DEF OneFlush, Looping
      <4> QED
        BY <1>1, <4>1 DEF Held, CallbackOK
    <3> QED
      BY <1>1, <2>1, <3>2 DEF Held
  <2> HIDE DEF t
  <2>5. Delivered' /\ Waiting'
    BY <2>1, <2>2, <2>3 DEF InHand, Ordered, Delivered, Waiting
  <2>6. \A c \in Callbacks : InHand(cb[c].batch)'
    BY <2>4, Nothing DEF InHand
  <2> QED
    BY <2>5, <2>6 DEF Ordered
<1>5. CASE Return(b)
  <2>1. cb' = [cb EXCEPT ![b] = [pc |-> "check", batch |-> <<>>, dropped |-> 0]]
    BY <1>5 DEF Return
  <2>2. \A c \in Callbacks : cb'[c].batch \in {cb[c].batch, <<>>}
    BY <1>1, <2>1 DEF Held
  <2> QED
    BY <1>5, <2>2, OrderedAgain DEF Return, wire, outside
<1>6. CASE Release(b)
  <2>1. cb' = [cb EXCEPT ![b] = [pc |-> "idle", batch |-> <<>>, dropped |-> 0]]
    BY <1>6 DEF Release, Idle
  <2>2. \A c \in Callbacks : cb'[c].batch \in {cb[c].batch, <<>>}
    BY <1>1, <2>1 DEF Held
  <2> QED
    BY <1>6, <2>2, OrderedAgain DEF Release, wire, outside
<1>7. CASE SendFails(b) \/ Check(b)
  <2>1. \A c \in Callbacks : cb'[c].batch = cb[c].batch
    <3>1. CASE SendFails(b)
      BY <1>1, <3>1, SameBatches DEF SendFails
    <3>2. CASE Check(b)
      <4> DEFINE pc == IF queue = <<>> THEN "release" ELSE "pop"
      <4>1. cb' = [cb EXCEPT ![b].pc = pc]
        BY <3>2 DEF Check
      <4> HIDE DEF pc
      <4> QED
        BY <1>1, <4>1, SameBatches
    <3> QED
      BY <1>7, <3>1, <3>2
  <2>2. UNCHANGED <<stored, pipe, queue, captured>>
    BY <1>7 DEF SendFails, Check, wire, outside
  <2> QED
    BY <2>1, <2>2, OrderedAgain
<1> QED
  BY <1>2, <1>3, <1>4, <1>5, <1>6, <1>7 DEF Flush

LEMMA OutsideOrders ==
    ASSUME TypeOK, Ordered,
           Store \/ Discard \/ ServerDies \/ ServerStarts \/ Flip \/ Hear
    PROVE  Ordered'
<1>1. UNCHANGED <<queue, captured, cb>>
  BY DEF Store, Discard, ServerDies, ServerStarts, Flip, Hear, host
<1>2. CASE Store
  <2> DEFINE w == OnTheWire
  <2>1. stored' = stored \o w /\ OnTheWire' = <<>>
    BY <1>2 DEF Store, OnTheWire
  <2>2. stored \in Seq(Nat) /\ w \in Seq(Nat)
    BY Wire DEF TypeOK
  <2>3. /\ Increasing(stored) /\ Below(stored, captured)
        /\ Increasing(w) /\ Below(w, captured) /\ Ahead(stored, w)
    BY DEF Ordered, Delivered
  <2> HIDE DEF w
  <2>4. Increasing(stored \o w) /\ Below(stored \o w, captured)
    BY <2>2, <2>3, JoinKeeps
  <2>5. \A u : Ahead(stored, u) /\ Ahead(w, u) => Ahead(stored \o w, u)
    BY <2>2, JoinKeeps
  <2>6. Delivered'
    BY <1>1, <2>1, <2>4, Nothing DEF Delivered
  <2>7. Waiting'
    BY <1>1, <2>1, <2>5, Nothing DEF Ordered, Waiting, w
  <2>8. ASSUME NEW b \in Callbacks PROVE InHand(cb[b].batch)'
    <3>1. InHand(cb[b].batch)
      BY DEF Ordered
    <3> QED
      BY <1>1, <2>1, <2>5, <3>1, Nothing DEF InHand, w
  <2> QED
    BY <2>6, <2>7, <2>8 DEF Ordered
<1>3. CASE ~ Store
  <2>1. stored' = stored /\ (pipe' = pipe \/ pipe' = <<>>)
    BY <1>3 DEF Discard, ServerDies, ServerStarts, Flip, Hear, wire, outside
  <2>2. OnTheWire' \in {OnTheWire, <<>>}
    BY <2>1 DEF OnTheWire
  <2> DEFINE w == OnTheWire'
  <2>3. Increasing(w) /\ Below(w, captured) /\ Ahead(stored, w) /\ Ahead(w, queue)
    <3>1. /\ Increasing(OnTheWire) /\ Below(OnTheWire, captured)
          /\ Ahead(stored, OnTheWire) /\ Ahead(OnTheWire, queue)
      BY DEF Ordered, Delivered, Waiting
    <3>2. w \in {OnTheWire, <<>>}
      BY <2>2
    <3> HIDE DEF w
    <3> QED
      BY <3>1, <3>2, Nothing
  <2>4. Delivered' /\ Waiting'
    BY <1>1, <2>1, <2>3 DEF Ordered, Delivered, Waiting
  <2>5. ASSUME NEW b \in Callbacks PROVE InHand(cb[b].batch)'
    <3>1. InHand(cb[b].batch)
      BY DEF Ordered
    <3>2. Ahead(OnTheWire, cb[b].batch) => Ahead(w, cb[b].batch)
      <4>1. w \in {OnTheWire, <<>>}
        BY <2>2
      <4> HIDE DEF w
      <4> QED
        BY <4>1, Nothing
    <3> QED
      BY <1>1, <2>1, <3>1, <3>2 DEF InHand
  <2> QED
    BY <2>4, <2>5 DEF Ordered
<1> QED
  BY <1>2, <1>3

LEMMA NextOrders ==
    ASSUME TypeOK, OneFlush, Ordered, [Next]_vars
    PROVE  Ordered'
<1>1. CASE CaptureBehind \/ SubmitFails
  BY <1>1, CaptureOrders DEF CaptureBehind, SubmitFails, wire, outside
<1>2. ASSUME NEW b \in Callbacks, Submit(b) PROVE Ordered'
  <2>1. \A c \in Callbacks : cb'[c].batch = cb[c].batch
    BY <1>2, TypeParts, SameBatches DEF Submit
  <2> QED
    BY <1>2, <2>1, CaptureOrders DEF Submit, wire, outside
<1>3. ASSUME NEW b \in Callbacks, Flush(b) PROVE Ordered'
  BY <1>3, FlushOrders
<1>4. CASE Store \/ Discard \/ ServerDies \/ ServerStarts \/ Flip \/ Hear
  BY <1>4, OutsideOrders
<1>5. CASE UNCHANGED vars
  BY <1>5, OrderedAgain DEF vars, host, wire, outside
<1> QED
  BY <1>1, <1>2, <1>3, <1>4, <1>5 DEF Next

LEMMA InitOrdered == Init => Ordered
<1> SUFFICES ASSUME Init PROVE Ordered
  OBVIOUS
<1>1. stored = <<>> /\ queue = <<>> /\ OnTheWire = <<>>
  BY DEF Init, OnTheWire
<1>2. \A b \in Callbacks : cb[b].batch = <<>>
  BY DEF Init, Idle
<1> QED
  BY <1>1, <1>2, Nothing DEF Ordered, Delivered, Waiting, InHand

(* What the database holds, what is on its way there and what is still      *)
(* queued are, in this order, in the order of capture: through evictions,   *)
(* failed frames and restarts of the server, no event is stored twice or    *)
(* after a later one.                                                       *)
THEOREM EventsStayInOrder == Spec => []InOrder
<1>1. TypeOK /\ Ordered => InOrder
  BY OrderedIsInOrder
<1>2. TypeOK /\ OneFlush /\ Ordered /\ [Next]_vars => Ordered'
  BY NextOrders
<1> QED
  BY <1>1, <1>2, InitOrdered, TypeCorrect, FlushesAreSingle, PTL DEF Spec
=============================================================================
