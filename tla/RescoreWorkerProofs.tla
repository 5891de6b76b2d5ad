------------------------- MODULE RescoreWorkerProofs -------------------------
(***************************************************************************)
(* Theorems about RescoreWorker, for every set of models, batches and      *)
(* slots, every size of the result table and any number of callers.        *)
(***************************************************************************)
EXTENDS RescoreWorker, FiniteSetTheorems, TLAPS

(* What stopping and starting mean for the rest of the state.              *)
Stages ==
    /\ stopping <=> stopper # "no"
    /\ stopping => ~ ready /\ pending = NoJobs /\ queued = NoJobs
    /\ stopper = "returned" => busy = 0
    /\ ~ started => \A s \in Slots : slot[s] = Idle("none")

IInv ==
    /\ TypeOK
    /\ SlotAccount
    /\ NoWastedWork
    /\ QueuedKept
    /\ Stages

(* The parts of TypeOK: the provers like their Booleans apart.             *)
Flags == started \in BOOLEAN /\ stopping \in BOOLEAN /\ ready \in BOOLEAN

Tables ==
    /\ pending \in [Models -> Keys \cup {NoKey}]
    /\ active \in [Models -> Keys \cup {NoKey}]
    /\ queued \in [Models -> Keys \cup {NoKey}]
    /\ \A m \in Models : pending[m] # NoKey => ModelOf[pending[m]] = m
    /\ \A m \in Models : active[m] # NoKey => ModelOf[active[m]] = m
    /\ \A m \in Models : queued[m] # NoKey => ModelOf[queued[m]] = m

Others ==
    /\ busy \in Nat
    /\ done \subseteq Keys
    /\ slot \in [Slots -> Slot]
    /\ notices \in 0..MaxCallers
    /\ stopper \in {"no", "asleep", "awake", "returned"}
    /\ relied \subseteq Keys

LEMMA TypeParts ==
    /\ TypeOK <=> Flags /\ Tables /\ Others
    /\ TypeOK' <=> Flags' /\ Tables' /\ Others'
  BY DEF TypeOK, Flags, Tables, Others

Holders(f) == {s \in Slots : f[s].pc \in Working}

LEMMA HoldersFinite ==
    ASSUME NEW f
    PROVE  /\ IsFiniteSet(Holders(f))
           /\ Cardinality(Holders(f)) \in Nat
<1>1. IsFiniteSet(Holders(f))
  BY SlotsAssumption, FS_Subset DEF Holders
<1> QED
  BY <1>1, FS_CardinalityType

(* Nothing changes in the account when no slot takes or gives back a job.  *)
LEMMA SameHolders ==
    ASSUME NEW f, NEW g, \A s \in Slots : f[s].pc \in Working <=> g[s].pc \in Working
    PROVE  Holders(f) = Holders(g)
  BY DEF Holders

LEMMA OneMore ==
    ASSUME NEW f, NEW g, NEW s \in Slots,
           f[s].pc \notin Working, g[s].pc \in Working,
           \A t \in Slots \ {s} : g[t] = f[t]
    PROVE  Cardinality(Holders(g)) = Cardinality(Holders(f)) + 1
<1>1. Holders(g) = Holders(f) \cup {s} /\ s \notin Holders(f)
  BY DEF Holders
<1> QED
  BY <1>1, HoldersFinite, FS_AddElement

LEMMA OneLess ==
    ASSUME NEW f, NEW g, NEW s \in Slots,
           f[s].pc \in Working, g[s].pc \notin Working,
           \A t \in Slots \ {s} : g[t] = f[t]
    PROVE  Cardinality(Holders(g)) = Cardinality(Holders(f)) - 1
<1>1. Holders(f) = Holders(g) \cup {s} /\ s \notin Holders(g)
  BY DEF Holders
<1>2. Cardinality(Holders(f)) = Cardinality(Holders(g)) + 1
  BY <1>1, HoldersFinite, FS_AddElement
<1> QED
  BY <1>2, HoldersFinite

(* What one slot does to its own control state keeps the types.            *)
LEMMA SlotTypes ==
    /\ \A pc \in SlotPcs \ Working : Idle(pc) \in Slot
    /\ \A k \in Keys, pc \in Working : [pc |-> pc, key |-> k] \in Slot
    /\ \A x \in Slot, pc \in Working :
         x.pc \in Working => [x EXCEPT !.pc = pc] \in Slot
    /\ \A x \in Slot : x.pc \in Working => x.key \in Keys
  BY KeysAssumption DEF Slot, SlotPcs, Working, Idle

LEMMA Woken ==
    ASSUME TypeOK
    PROVE  /\ AllWoken \in [Slots -> Slot]
           /\ \A s \in Slots :
                \/ AllWoken[s] = slot[s]
                \/ slot[s].pc = "asleep" /\ AllWoken[s] = Idle("awake")
  BY SlotTypes DEF AllWoken, TypeOK, SlotPcs, Working

LEMMA InitInv == Init => IInv
<1> SUFFICES ASSUME Init PROVE IInv
  OBVIOUS
<1>1. \A s \in Slots : slot[s] = Idle("none") /\ slot[s].pc \notin Working
  BY DEF Init, Idle, Working
<1>2. TypeOK
  <2>1. Idle("none") \in Slot
    BY SlotTypes DEF SlotPcs, Working
  <2>2. NoJobs \in [Models -> Keys \cup {NoKey}] /\ \A m \in Models : NoJobs[m] = NoKey
    BY DEF NoJobs
  <2>3. slot \in [Slots -> Slot]
    BY <2>1 DEF Init
  <2>4. /\ pending \in [Models -> Keys \cup {NoKey}]
        /\ active \in [Models -> Keys \cup {NoKey}]
        /\ queued \in [Models -> Keys \cup {NoKey}]
        /\ \A m \in Models :
             pending[m] = NoKey /\ active[m] = NoKey /\ queued[m] = NoKey
    BY <2>2 DEF Init
  <2>5. started \in BOOLEAN /\ stopping \in BOOLEAN /\ ready \in BOOLEAN
    BY DEF Init
  <2>6. /\ busy \in Nat /\ notices \in 0..MaxCallers
        /\ done \subseteq Keys /\ relied \subseteq Keys
        /\ stopper \in {"no", "asleep", "awake", "returned"}
    BY BoundsAssumption DEF Init
  <2> QED
    BY <2>3, <2>4, <2>5, <2>6 DEF TypeOK
<1>3. Holders(slot) = {}
  BY <1>1 DEF Holders
<1>4. SlotAccount
  BY <1>1, <1>3, FS_EmptySet DEF Init, SlotAccount, NoJobs, Holders
<1>5. NoWastedWork /\ QueuedKept
  BY <1>1 DEF Init, NoWastedWork, QueuedKept, NoJobs, Working
<1>6. Stages
  BY <1>1 DEF Init, Stages, NoJobs
<1> QED
  BY <1>2, <1>4, <1>5, <1>6 DEF IInv

(***************************************************************************)
(* Steps that move no job: the slots may sleep, wake up or exit.           *)
(***************************************************************************)
LEMMA AccountKept ==
    ASSUME SlotAccount, UNCHANGED <<active, busy>>,
           slot' \in [Slots -> Slot],
           \A s \in Slots :
             slot'[s] = slot[s] \/ (slot[s].pc \notin Working /\ slot'[s].pc \notin Working)
    PROVE  SlotAccount'
<1>1. \A s \in Slots :
        /\ slot'[s].pc \in Working <=> slot[s].pc \in Working
        /\ slot[s].pc \in Working => slot'[s] = slot[s]
  OBVIOUS
<1>2. Holders(slot') = Holders(slot)
  BY <1>1, SameHolders
<1>3. \A s, t \in Slots :
        slot'[s].pc \in Working /\ slot'[s].key = slot'[t].key
          => slot[s].pc \in Working /\ slot[s].key = slot[t].key
  BY <1>1 DEF Slot
<1>4. busy' = Cardinality(Holders(slot'))
  BY <1>2 DEF SlotAccount, Holders
<1>5. \A s \in Slots :
        slot'[s].pc \in Working => active'[ModelOf[slot'[s].key]] = slot'[s].key
  BY <1>1 DEF SlotAccount
<1>6. \A m \in Models :
        active'[m] # NoKey =>
          \E s \in Slots : slot'[s].pc \in Working /\ slot'[s].key = active'[m]
  BY <1>1 DEF SlotAccount
<1>7. \A s, t \in Slots :
        slot'[s].pc \in Working /\ slot'[s].key = slot'[t].key => s = t
  BY <1>3 DEF SlotAccount
<1> QED
  BY <1>4, <1>5, <1>6, <1>7 DEF SlotAccount, Holders

LEMMA IdleSteps ==
    ASSUME IInv, UNCHANGED <<pending, active, busy, done, queued>>,
           slot' \in [Slots -> Slot],
           \A s \in Slots :
             slot'[s] = slot[s] \/ (slot[s].pc \notin Working /\ slot'[s].pc \notin Working)
    PROVE  SlotAccount' /\ NoWastedWork' /\ QueuedKept'
<1>1. \A s \in Slots :
        /\ slot'[s].pc \in Working <=> slot[s].pc \in Working
        /\ slot[s].pc \in Working => slot'[s] = slot[s]
  OBVIOUS
<1>2. SlotAccount'
  BY AccountKept DEF IInv
<1>3. \A s \in Slots : slot'[s].pc = "score" <=> slot[s].pc = "score"
  BY <1>1 DEF Working
<1>4. NoWastedWork'
  BY <1>1, <1>3 DEF IInv, NoWastedWork, Working
<1>5. QueuedKept'
  BY <1>1 DEF IInv, QueuedKept, Working
<1> QED
  BY <1>2, <1>4, <1>5

LEMMA QuietSteps ==
    ASSUME IInv,
           \/ SetReady
           \/ \E k \in Keys : AskRunning(k)
           \/ NotifyOne
           \/ ShutdownLooks
           \/ \E s \in Slots :
                Sleep(s) \/ WakeSpuriously(s) \/ Exit(s) \/ NotifyAll(s)
    PROVE  IInv'
<1>t. TypeOK
  BY DEF IInv
<1>1. UNCHANGED <<pending, active, busy, done, queued, started, stopping>>
  BY DEF SetReady, AskRunning, NotifyOne, ShutdownLooks, Sleep,
         WakeSpuriously, Exit, NotifyAll
<1>2. /\ slot' \in [Slots -> Slot]
      /\ \A s \in Slots :
           slot'[s] = slot[s] \/ (slot[s].pc \notin Working /\ slot'[s].pc \notin Working)
      /\ slot' # slot => \E s \in Slots : slot[s] # Idle("none")
  <2>s. slot \in [Slots -> Slot]
    BY <1>t DEF TypeOK
  <2>1. CASE slot' = slot
    BY <2>1, <2>s
  <2>2. CASE \E s \in Slots, pc \in SlotPcs \ Working :
               /\ slot[s].pc \notin Working /\ slot[s].pc # "none"
               /\ slot' = [slot EXCEPT ![s] = Idle(pc)]
    <3> PICK s \in Slots, pc \in SlotPcs \ Working :
               /\ slot[s].pc \notin Working /\ slot[s].pc # "none"
               /\ slot' = [slot EXCEPT ![s] = Idle(pc)]
      BY <2>2
    <3>1. Idle(pc) \in Slot /\ Idle(pc).pc = pc
      BY SlotTypes DEF Idle
    <3>2. slot' \in [Slots -> Slot] /\ slot'[s] = Idle(pc)
      BY <3>1, <2>s
    <3>3. \A t \in Slots \ {s} : slot'[t] = slot[t]
      BY <2>s
    <3> QED
      BY <3>1, <3>2, <3>3 DEF Idle
  <2>3. CASE \E s \in Slots : NotifyAll(s)
    <3> PICK s \in Slots : NotifyAll(s)
      BY <2>3
    <3>1. slot[s].pc = "notify" /\ slot' = [AllWoken EXCEPT ![s] = Idle("awake")]
      BY DEF NotifyAll
    <3>2. Idle("awake") \in Slot /\ Idle("awake").pc \notin Working
      BY SlotTypes DEF SlotPcs, Working, Idle
    <3>3. slot' \in [Slots -> Slot]
      BY <3>1, <3>2, <1>t, Woken
    <3>4. \A t \in Slots :
            \/ slot'[t] = slot[t]
            \/ slot[t].pc \notin Working /\ slot'[t].pc \notin Working
      <4> TAKE t \in Slots
      <4>1. CASE t = s
        BY <4>1, <3>1, <3>2, <1>t, Woken DEF Working
      <4>2. CASE t # s
        BY <4>2, <3>1, <3>2, <1>t, Woken DEF Working
      <4> QED
        BY <4>1, <4>2
    <3> QED
      BY <3>1, <3>3, <3>4 DEF Idle
  <2> QED
    BY <2>1, <2>2, <2>3 DEF SetReady, AskRunning, NotifyOne, ShutdownLooks,
       Sleep, WakeSpuriously, Exit, SlotPcs, Working
<1>3. SlotAccount' /\ NoWastedWork' /\ QueuedKept'
  BY <1>1, <1>2, IdleSteps
<1>4. /\ stopper' \in {"no", "asleep", "awake", "returned"}
      /\ stopper' # "no" <=> stopper # "no"
      /\ stopper' = "returned" => stopper = "returned" \/ busy = 0
      /\ stopping => ready' = ready
      /\ ready' \in BOOLEAN
      /\ notices' \in 0..MaxCallers
      /\ relied' \subseteq Keys
  BY <1>t, BoundsAssumption DEF TypeOK, SetReady, AskRunning, NotifyOne,
     ShutdownLooks, Sleep, WakeSpuriously, Exit, NotifyAll
<1>5. TypeOK'
  BY <1>t, <1>1, <1>2, <1>4 DEF TypeOK
<1>6. Stages'
  BY <1>t, <1>1, <1>2, <1>4 DEF IInv, Stages, NoJobs, TypeOK
<1> QED
  BY <1>3, <1>5, <1>6 DEF IInv
(***************************************************************************)
(* Steps of the callers.                                                   *)
(***************************************************************************)
LEMMA AskAnewStep ==
    ASSUME IInv, NEW k \in Keys, AskAnew(k)
    PROVE  IInv'
<1>t. TypeOK /\ ModelOf[k] \in Models /\ k # NoKey
  BY KeysAssumption DEF IInv
<1>1. /\ pending' = [pending EXCEPT ![ModelOf[k]] = k]
      /\ queued' = [queued EXCEPT ![ModelOf[k]] = k]
      /\ slot' = StartedThreads
      /\ started' = TRUE
      /\ ~ stopping
      /\ k \notin done /\ active[ModelOf[k]] # k
      /\ UNCHANGED <<stopping, active, busy, done, ready, stopper, relied>>
  BY DEF AskAnew, Queue
<1>2. /\ slot' \in [Slots -> Slot]
      /\ \A s \in Slots :
           slot'[s] = slot[s] \/ (slot[s].pc \notin Working /\ slot'[s].pc \notin Working)
  <2>1. CASE started
    BY <2>1, <1>1, <1>t DEF StartedThreads, TypeOK
  <2>2. CASE ~ started
    <3>1. \A s \in Slots : slot[s] = Idle("none")
      BY <2>2 DEF IInv, Stages
    <3>2. /\ Idle("awake") \in Slot
          /\ Idle("awake").pc \notin Working /\ Idle("none").pc \notin Working
      BY SlotTypes DEF SlotPcs, Working, Idle
    <3> QED
      BY <2>2, <1>1, <3>1, <3>2 DEF StartedThreads
  <2> QED
    BY <2>1, <2>2
<1>3. /\ \A s \in Slots :
           /\ slot'[s].pc \in Working <=> slot[s].pc \in Working
           /\ slot[s].pc \in Working => slot'[s] = slot[s]
      /\ \A s \in Slots : slot'[s].pc = "score" => slot'[s] = slot[s]
      /\ \A s \in Slots : slot[s].pc = "score" => slot'[s] = slot[s]
  BY <1>2 DEF Working
<1>4. SlotAccount'
  BY <1>1, <1>2, AccountKept DEF IInv
<1>5. NoWastedWork'
  BY <1>t, <1>1, <1>3 DEF IInv, NoWastedWork, TypeOK
<1>6. QueuedKept'
  BY <1>t, <1>1, <1>3 DEF IInv, QueuedKept, TypeOK
<1>7. TypeOK'
  <2> USE DEF Flags, Tables, Others
  <2>1. Flags'
    BY <1>t, <1>1, TypeParts
  <2>2. Tables'
    BY <1>t, <1>1, TypeParts
  <2>3. Others'
    BY <1>t, <1>1, <1>2, TypeParts, BoundsAssumption DEF AskAnew
  <2> QED
    BY <2>1, <2>2, <2>3, TypeParts
<1>8. Stages'
  BY <1>1 DEF IInv, Stages
<1> QED
  BY <1>4, <1>5, <1>6, <1>7, <1>8 DEF IInv

LEMMA ClearStep ==
    ASSUME IInv, Clear
    PROVE  IInv'
<1>t. TypeOK
  BY DEF IInv
<1>1. /\ done' = {} /\ pending' = NoJobs
      /\ queued' = [m \in Models |-> IF queued[m] = pending[m] THEN NoKey ELSE queued[m]]
      /\ UNCHANGED <<started, stopping, active, busy, ready, slot, notices,
                     stopper, relied>>
  BY DEF Clear
<1>2. \A m \in Models : pending'[m] = NoKey
  BY <1>1 DEF NoJobs
<1>3. TypeOK'
  <2> USE DEF Flags, Tables, Others
  <2>1. Flags'
    BY <1>t, <1>1, TypeParts
  <2>2. Tables'
    BY <1>t, <1>1, TypeParts DEF NoJobs
  <2>3. Others'
    BY <1>t, <1>1, TypeParts
  <2> QED
    BY <2>1, <2>2, <2>3, TypeParts
<1>4. SlotAccount'
  BY <1>1 DEF IInv, SlotAccount
<1>5. NoWastedWork'
  BY <1>1, <1>2 DEF NoWastedWork
<1>6. QueuedKept'
  <2> SUFFICES ASSUME NEW m \in Models, queued'[m] # NoKey
               PROVE  \E s \in Slots : slot'[s] = [pc |-> "score", key |-> queued'[m]]
    BY DEF QueuedKept
  <2>1. queued'[m] = queued[m] /\ pending[m] # queued[m] /\ queued[m] # NoKey
    BY <1>1
  <2> QED
    BY <2>1, <1>1 DEF IInv, QueuedKept
<1>7. Stages'
  <2>1. stopping => queued' = NoJobs
    BY <1>1 DEF IInv, Stages, NoJobs
  <2> QED
    BY <2>1, <1>1 DEF IInv, Stages
<1> QED
  BY <1>3, <1>4, <1>5, <1>6, <1>7 DEF IInv

LEMMA ShutdownStep ==
    ASSUME IInv, Shutdown
    PROVE  IInv'
<1>t. TypeOK
  BY DEF IInv
<1>1. /\ started /\ stopping' = TRUE /\ ready' = FALSE
      /\ pending' = NoJobs /\ queued' = NoJobs /\ relied' = {}
      /\ slot' = AllWoken
      /\ stopper' = IF busy = 0 THEN "returned" ELSE "asleep"
      /\ UNCHANGED <<started, active, busy, done, notices>>
  BY DEF Shutdown
<1>2. \A m \in Models : pending'[m] = NoKey /\ queued'[m] = NoKey
  BY <1>1 DEF NoJobs
<1>3. /\ slot' \in [Slots -> Slot]
      /\ \A s \in Slots :
           /\ slot'[s].pc \in Working <=> slot[s].pc \in Working
           /\ slot[s].pc \in Working => slot'[s] = slot[s]
  BY <1>t, <1>1, Woken DEF Working, Idle
<1>4. TypeOK'
  <2> USE DEF Flags, Tables, Others
  <2>1. Flags'
    BY <1>t, <1>1, TypeParts
  <2>2. Tables'
    BY <1>t, <1>1, TypeParts DEF NoJobs
  <2>3. Others'
    BY <1>t, <1>1, <1>3, TypeParts
  <2> QED
    BY <2>1, <2>2, <2>3, TypeParts
<1>5. SlotAccount'
  BY <1>1, <1>3, AccountKept DEF IInv
<1>6. NoWastedWork'
  BY <1>1, <1>2, <1>3 DEF IInv, NoWastedWork, Working
<1>7. QueuedKept'
  BY <1>2 DEF QueuedKept
<1>8. Stages'
  BY <1>1 DEF IInv, Stages
<1> QED
  BY <1>4, <1>5, <1>6, <1>7, <1>8 DEF IInv
(***************************************************************************)
(* Steps of a slot.                                                        *)
(***************************************************************************)
LEMMA TakeStep ==
    ASSUME IInv, NEW s \in Slots, NEW m \in Models, Take(s, m)
    PROVE  IInv'
<1> DEFINE k == pending[m]
<1>t. TypeOK /\ Flags /\ Tables /\ Others
  BY TypeParts DEF IInv
<1>1. /\ slot[s].pc = "awake" /\ ~ stopping
      /\ k # NoKey /\ active[m] = NoKey
      /\ slot' = [slot EXCEPT ![s] = [pc |-> "score", key |-> k]]
      /\ active' = [active EXCEPT ![m] = k]
      /\ pending' = [pending EXCEPT ![m] = NoKey]
      /\ busy' = busy + 1
      /\ UNCHANGED <<started, stopping, done, ready, notices, stopper, queued,
                     relied>>
  BY DEF Take, Eligible
<1>2. k \in Keys /\ ModelOf[k] = m
  BY <1>1, <1>t DEF Tables
<1>3. /\ slot' \in [Slots -> Slot]
      /\ slot'[s] = [pc |-> "score", key |-> k]
      /\ \A t \in Slots \ {s} : slot'[t] = slot[t]
      /\ slot[s].pc \notin Working /\ slot'[s].pc \in Working
  BY <1>1, <1>2, <1>t, SlotTypes DEF Others, Working
<1>4. TypeOK'
  <2>1. Flags'
    BY <1>1, <1>t DEF Flags
  <2>2. Tables'
    BY <1>1, <1>2, <1>t DEF Tables
  <2>3. Others'
    BY <1>1, <1>3, <1>t DEF Others
  <2> QED
    BY <2>1, <2>2, <2>3, TypeParts
<1>5. \A t \in Slots : slot[t].pc \in Working => slot[t].key # k
  BY <1>1, <1>2 DEF IInv, SlotAccount
<1>6. SlotAccount'
  <2>1. busy' = Cardinality(Holders(slot'))
    <3>1. Cardinality(Holders(slot')) = Cardinality(Holders(slot)) + 1
      BY <1>3, OneMore
    <3>2. busy = Cardinality(Holders(slot))
      BY DEF IInv, SlotAccount, Holders
    <3> QED
      BY <3>1, <3>2, <1>1
  <2>2. ASSUME NEW t \in Slots, slot'[t].pc \in Working
        PROVE  active'[ModelOf[slot'[t].key]] = slot'[t].key
    <3>1. CASE t = s
      BY <3>1, <1>1, <1>2, <1>3, <1>t DEF Tables
    <3>2. CASE t # s
      <4>1. /\ slot[t].key \in Keys
            /\ active[ModelOf[slot[t].key]] = slot[t].key
        BY <2>2, <3>2, <1>3, <1>t, SlotTypes DEF IInv, SlotAccount, Others
      <4>2. ModelOf[slot[t].key] # m
        BY <4>1, <1>1, KeysAssumption
      <4> QED
        BY <4>1, <4>2, <3>2, <1>1, <1>3, <1>t DEF Tables
    <3> QED
      BY <3>1, <3>2
  <2>3. ASSUME NEW n \in Models, active'[n] # NoKey
        PROVE  \E t \in Slots : slot'[t].pc \in Working /\ slot'[t].key = active'[n]
    <3>1. CASE n = m
      BY <3>1, <1>1, <1>3, <1>t DEF Tables
    <3>2. CASE n # m
      <4>1. active'[n] = active[n]
        BY <3>2, <1>1, <1>t DEF Tables
      <4>2. PICK t \in Slots : slot[t].pc \in Working /\ slot[t].key = active[n]
        BY <2>3, <4>1 DEF IInv, SlotAccount
      <4> QED
        BY <4>1, <4>2, <1>3
    <3> QED
      BY <3>1, <3>2
  <2>4. ASSUME NEW t \in Slots, NEW u \in Slots,
               slot'[t].pc \in Working, slot'[t].key = slot'[u].key
        PROVE  t = u
    <3>0. /\ slot'[t] \in Slot /\ slot'[u] \in Slot
      BY <1>3
    <3>1. slot'[t].key # NoKey
      BY <2>4, <3>0 DEF Slot
    <3>2. slot'[u].pc \in Working
      BY <2>4, <3>0, <3>1 DEF Slot
    <3> QED
      BY <2>4, <3>2, <1>3, <1>5 DEF IInv, SlotAccount
  <2> QED
    BY <2>1, <2>2, <2>3, <2>4 DEF SlotAccount, Holders
<1>7. NoWastedWork'
  <2>1. \A n \in Models :
          pending'[n] # NoKey => pending'[n] # active'[n] /\ pending'[n] \notin done'
    BY <1>1, <1>t DEF IInv, NoWastedWork, Tables
  <2>2. \A t \in Slots : slot'[t].pc = "score" => slot'[t].key \notin done'
    BY <1>1, <1>3 DEF IInv, NoWastedWork
  <2> QED
    BY <2>1, <2>2 DEF NoWastedWork
<1>8. QueuedKept'
  <2> SUFFICES ASSUME NEW n \in Models, queued'[n] # NoKey
               PROVE  \/ pending'[n] = queued'[n]
                      \/ \E t \in Slots : slot'[t] = [pc |-> "score", key |-> queued'[n]]
    BY DEF QueuedKept
  <2>1. CASE pending[n] = queued[n]
    BY <2>1, <1>1, <1>3, <1>t DEF Tables
  <2>2. CASE \E t \in Slots : slot[t] = [pc |-> "score", key |-> queued[n]]
    BY <2>2, <1>1, <1>3
  <2> QED
    BY <2>1, <2>2, <1>1 DEF IInv, QueuedKept
<1>9. Stages'
  <2>1. started
    BY <1>1 DEF IInv, Stages, Idle
  <2>2. stopper # "returned"
    BY <1>1 DEF IInv, Stages
  <2> QED
    BY <1>1, <2>1, <2>2 DEF IInv, Stages
<1> QED
  BY <1>4, <1>6, <1>7, <1>8, <1>9 DEF IInv

LEMMA TakeFailsStep ==
    ASSUME IInv, NEW s \in Slots, NEW m \in Models, TakeFails(s, m)
    PROVE  IInv'
<1>t. TypeOK /\ Flags /\ Tables /\ Others
  BY TypeParts DEF IInv
<1>1. /\ slot[s].pc = "awake" /\ ~ stopping
      /\ pending[m] # NoKey
      /\ slot' = [slot EXCEPT ![s] = Idle("notify")]
      /\ queued' = [queued EXCEPT ![m] = NoKey]
      /\ pending' = [pending EXCEPT ![m] = NoKey]
      /\ UNCHANGED <<started, stopping, active, busy, done, ready, notices,
                     stopper, relied>>
  BY DEF TakeFails, Eligible
<1>2. /\ slot' \in [Slots -> Slot]
      /\ slot'[s].pc \notin Working /\ slot[s].pc \notin Working
      /\ \A t \in Slots \ {s} : slot'[t] = slot[t]
  <2>1. Idle("notify") \in Slot /\ Idle("notify").pc = "notify"
    BY SlotTypes DEF SlotPcs, Working, Idle
  <2> QED
    BY <2>1, <1>1, <1>t DEF Others, Working
<1>3. TypeOK'
  <2>1. Flags'
    BY <1>1, <1>t DEF Flags
  <2>2. Tables'
    BY <1>1, <1>t DEF Tables
  <2>3. Others'
    BY <1>1, <1>2, <1>t DEF Others
  <2> QED
    BY <2>1, <2>2, <2>3, TypeParts
<1>4. SlotAccount'
  BY <1>1, <1>2, AccountKept DEF IInv
<1>5. NoWastedWork'
  BY <1>1, <1>2, <1>t DEF IInv, NoWastedWork, Tables, Working
<1>6. QueuedKept'
  <2> SUFFICES ASSUME NEW n \in Models, queued'[n] # NoKey
               PROVE  \/ pending'[n] = queued'[n]
                      \/ \E t \in Slots : slot'[t] = [pc |-> "score", key |-> queued'[n]]
    BY DEF QueuedKept
  <2>1. n # m /\ queued'[n] = queued[n] /\ pending'[n] = pending[n]
    BY <1>1, <1>t DEF Tables
  <2>2. CASE \E t \in Slots : slot[t] = [pc |-> "score", key |-> queued[n]]
    BY <2>1, <2>2, <1>2 DEF Working
  <2> QED
    BY <2>1, <2>2 DEF IInv, QueuedKept
<1>7. Stages'
  BY <1>1 DEF IInv, Stages, Idle
<1> QED
  BY <1>3, <1>4, <1>5, <1>6, <1>7 DEF IInv

(* A slot that holds a job goes on holding it, in another step.            *)
LEMMA HoldOn ==
    ASSUME IInv, NEW s \in Slots, NEW pc \in Working,
           slot[s].pc \in Working,
           slot' = [slot EXCEPT ![s].pc = pc],
           UNCHANGED <<active, busy>>
    PROVE  /\ slot' \in [Slots -> Slot]
           /\ slot'[s] = [pc |-> pc, key |-> slot[s].key]
           /\ slot[s].key \in Keys
           /\ \A t \in Slots \ {s} : slot'[t] = slot[t]
           /\ SlotAccount'
<1>t. slot \in [Slots -> Slot]
  BY DEF IInv, TypeOK
<1>1. slot[s] \in Slot /\ slot[s].key \in Keys
  BY <1>t, SlotTypes
<1>2. /\ slot' \in [Slots -> Slot]
      /\ slot'[s] = [pc |-> pc, key |-> slot[s].key]
      /\ \A t \in Slots \ {s} : slot'[t] = slot[t]
  <2>1. [slot[s] EXCEPT !.pc = pc] = [pc |-> pc, key |-> slot[s].key]
    BY <1>1 DEF Slot
  <2>2. [pc |-> pc, key |-> slot[s].key] \in Slot
    BY <1>1, SlotTypes
  <2> QED
    BY <2>1, <2>2, <1>t
<1>3. \A t \in Slots : /\ slot'[t].pc \in Working <=> slot[t].pc \in Working
                        /\ slot'[t].key = slot[t].key
  BY <1>2
<1>4. SlotAccount'
  <2>1. busy' = Cardinality(Holders(slot'))
    <3>1. Holders(slot') = Holders(slot)
      BY <1>3 DEF Holders
    <3>2. busy = Cardinality(Holders(slot))
      BY DEF IInv, SlotAccount, Holders
    <3> QED
      BY <3>1, <3>2
  <2>2. \A t \in Slots :
          slot'[t].pc \in Working => active'[ModelOf[slot'[t].key]] = slot'[t].key
    BY <1>3 DEF IInv, SlotAccount
  <2>3. \A m \in Models :
          active'[m] # NoKey =>
            \E t \in Slots : slot'[t].pc \in Working /\ slot'[t].key = active'[m]
    BY <1>3 DEF IInv, SlotAccount
  <2>4. \A t, u \in Slots :
          slot'[t].pc \in Working /\ slot'[t].key = slot'[u].key => t = u
    BY <1>3 DEF IInv, SlotAccount
  <2> QED
    BY <2>1, <2>2, <2>3, <2>4 DEF SlotAccount, Holders
<1> QED
  BY <1>1, <1>2, <1>4

(* A run has its outcome: whoever waited for another run still has it.      *)
LEMMA OutcomeKeepsQueued ==
    ASSUME IInv, NEW s \in Slots, slot[s].pc = "score",
           slot[s].key \in Keys,
           Answered(slot[s].key),
           pending' = pending,
           \A t \in Slots \ {s} : slot'[t] = slot[t]
    PROVE  /\ queued' \in [Models -> Keys \cup {NoKey}]
           /\ \A n \in Models : queued'[n] # NoKey => ModelOf[queued'[n]] = n
           /\ QueuedKept'
<1> DEFINE k == slot[s].key
<1>t. TypeOK /\ Tables /\ ModelOf[k] \in Models
  BY TypeParts, KeysAssumption DEF IInv
<1>1. /\ queued' \in [Models -> Keys \cup {NoKey}]
      /\ \A n \in Models : queued'[n] # NoKey => queued'[n] = queued[n]
      /\ \A n \in Models : queued'[n] # NoKey => ModelOf[queued'[n]] = n
      /\ queued'[ModelOf[k]] # k
  BY <1>t, KeysAssumption DEF Answered, Tables
<1>2. QueuedKept'
  <2> SUFFICES ASSUME NEW n \in Models, queued'[n] # NoKey
               PROVE  \/ pending[n] = queued[n]
                      \/ \E t \in Slots : slot'[t] = [pc |-> "score", key |-> queued[n]]
    BY <1>1 DEF QueuedKept
  <2>1. CASE pending[n] = queued[n]
    BY <2>1
  <2>2. CASE \E t \in Slots : slot[t] = [pc |-> "score", key |-> queued[n]]
    <3> PICK t \in Slots : slot[t] = [pc |-> "score", key |-> queued[n]]
      BY <2>2
    <3>1. t # s
      <4> SUFFICES ASSUME t = s PROVE FALSE
        OBVIOUS
      <4>1. queued[n] = k /\ queued'[n] = k
        BY <1>1
      <4>2. active[ModelOf[k]] = k /\ slot[s].pc \in Working
        BY DEF IInv, SlotAccount, Working
      <4>3. n # ModelOf[k]
        BY <4>1, <1>1
      <4> QED
        BY <4>1, <4>3, <1>t DEF IInv, Tables
    <3> QED
      BY <3>1
  <2> QED
    BY <2>1, <2>2, <1>1 DEF IInv, QueuedKept
<1> QED
  BY <1>1, <1>2

LEMMA PublishStep ==
    ASSUME IInv, NEW s \in Slots, Publish(s)
    PROVE  IInv'
<1> DEFINE k == slot[s].key
           pc == IF ready THEN "call" ELSE "release"
<1>t. TypeOK /\ Flags /\ Tables /\ Others
  BY TypeParts DEF IInv
<1>1. /\ slot[s].pc = "score"
      /\ done' = (IF Cardinality(done) >= MaxResults THEN {} ELSE done) \cup {k}
      /\ slot' = [slot EXCEPT ![s].pc = pc]
      /\ Answered(k)
      /\ UNCHANGED <<started, stopping, pending, active, busy, ready, notices,
                     stopper>>
  BY DEF Publish
<1>2. pc \in Working /\ slot[s].pc \in Working
  BY <1>1 DEF Working
<1>3. /\ slot' \in [Slots -> Slot] /\ k \in Keys
      /\ slot'[s] = [pc |-> pc, key |-> k]
      /\ \A t \in Slots \ {s} : slot'[t] = slot[t]
      /\ SlotAccount'
  BY <1>1, <1>2, HoldOn
<1>4. /\ queued' \in [Models -> Keys \cup {NoKey}]
      /\ \A n \in Models : queued'[n] # NoKey => ModelOf[queued'[n]] = n
      /\ QueuedKept'
  BY <1>1, <1>3, OutcomeKeepsQueued
<1>5. TypeOK'
  <2>1. Flags'
    BY <1>1, <1>t DEF Flags
  <2>2. Tables'
    BY <1>1, <1>4, <1>t DEF Tables
  <2>3. Others'
    BY <1>1, <1>3, <1>t DEF Others, Answered
  <2> QED
    BY <2>1, <2>2, <2>3, TypeParts
<1>6. done' \subseteq done \cup {k}
  BY <1>1
<1>7. NoWastedWork'
  <2>1. ASSUME NEW n \in Models, pending'[n] # NoKey
        PROVE  pending'[n] # active'[n] /\ pending'[n] \notin done'
    <3>1. pending[n] # active[n] /\ pending[n] \notin done /\ ModelOf[pending[n]] = n
      BY <2>1, <1>1, <1>t DEF IInv, NoWastedWork, Tables
    <3>2. active[ModelOf[k]] = k
      BY <1>2 DEF IInv, SlotAccount
    <3>3. pending[n] # k
      BY <3>1, <3>2
    <3> QED
      BY <3>1, <3>3, <1>1, <1>6
  <2>2. ASSUME NEW t \in Slots, slot'[t].pc = "score"
        PROVE  slot'[t].key \notin done'
    <3>1. t # s
      BY <2>2, <1>3
    <3>2. slot'[t] = slot[t] /\ slot[t].key \notin done
      BY <2>2, <3>1, <1>3 DEF IInv, NoWastedWork
    <3>3. slot[t].key # k
      BY <3>1, <1>2 DEF IInv, SlotAccount
    <3> QED
      BY <3>2, <3>3, <1>6
  <2> QED
    BY <2>1, <2>2 DEF NoWastedWork
<1>8. Stages'
  <2>1. stopping => queued' = NoJobs
    BY <1>1, <1>4 DEF IInv, Stages, NoJobs, Answered
  <2>2. started
    BY <1>1 DEF IInv, Stages, Idle
  <2> QED
    BY <1>1, <2>1, <2>2 DEF IInv, Stages
<1> QED
  BY <1>3, <1>4, <1>5, <1>7, <1>8 DEF IInv

LEMMA ScoreThrowsStep ==
    ASSUME IInv, NEW s \in Slots, ScoreThrows(s)
    PROVE  IInv'
<1> DEFINE k == slot[s].key
<1>t. TypeOK /\ Flags /\ Tables /\ Others
  BY TypeParts DEF IInv
<1>1. /\ slot[s].pc = "score"
      /\ slot' = [slot EXCEPT ![s].pc = "release"]
      /\ Answered(k)
      /\ UNCHANGED <<started, stopping, pending, active, busy, done, ready,
                     notices, stopper>>
  BY DEF ScoreThrows
<1>2. "release" \in Working /\ slot[s].pc \in Working
  BY <1>1 DEF Working
<1>3. /\ slot' \in [Slots -> Slot] /\ k \in Keys
      /\ slot'[s] = [pc |-> "release", key |-> k]
      /\ \A t \in Slots \ {s} : slot'[t] = slot[t]
      /\ SlotAccount'
  BY <1>1, <1>2, HoldOn
<1>4. /\ queued' \in [Models -> Keys \cup {NoKey}]
      /\ \A n \in Models : queued'[n] # NoKey => ModelOf[queued'[n]] = n
      /\ QueuedKept'
  BY <1>1, <1>3, OutcomeKeepsQueued
<1>5. TypeOK'
  <2>1. Flags'
    BY <1>1, <1>t DEF Flags
  <2>2. Tables'
    BY <1>1, <1>4, <1>t DEF Tables
  <2>3. Others'
    BY <1>1, <1>3, <1>t DEF Others, Answered
  <2> QED
    BY <2>1, <2>2, <2>3, TypeParts
<1>6. NoWastedWork'
  BY <1>1, <1>3 DEF IInv, NoWastedWork
<1>7. Stages'
  <2>1. stopping => queued' = NoJobs
    BY <1>1, <1>4 DEF IInv, Stages, NoJobs, Answered
  <2>2. started
    BY <1>1 DEF IInv, Stages, Idle
  <2> QED
    BY <1>1, <2>1, <2>2 DEF IInv, Stages
<1> QED
  BY <1>3, <1>4, <1>5, <1>6, <1>7 DEF IInv

LEMMA CallbackEndsStep ==
    ASSUME IInv, NEW s \in Slots, CallbackEnds(s)
    PROVE  IInv'
<1>t. TypeOK /\ Flags /\ Tables /\ Others
  BY TypeParts DEF IInv
<1>1. /\ slot[s].pc = "call"
      /\ slot' = [slot EXCEPT ![s].pc = "release"]
      /\ UNCHANGED <<started, stopping, pending, active, busy, done, ready,
                     notices, stopper, queued, relied>>
  BY DEF CallbackEnds
<1>2. "release" \in Working /\ slot[s].pc \in Working
  BY <1>1 DEF Working
<1>3. /\ slot' \in [Slots -> Slot]
      /\ slot'[s] = [pc |-> "release", key |-> slot[s].key]
      /\ \A t \in Slots \ {s} : slot'[t] = slot[t]
      /\ SlotAccount'
  BY <1>1, <1>2, HoldOn
<1>4. TypeOK'
  <2>1. Flags'
    BY <1>1, <1>t DEF Flags
  <2>2. Tables'
    BY <1>1, <1>t DEF Tables
  <2>3. Others'
    BY <1>1, <1>3, <1>t DEF Others
  <2> QED
    BY <2>1, <2>2, <2>3, TypeParts
<1>5. NoWastedWork'
  BY <1>1, <1>3 DEF IInv, NoWastedWork
<1>6. QueuedKept'
  BY <1>1, <1>3 DEF IInv, QueuedKept
<1>7. Stages'
  BY <1>1 DEF IInv, Stages, Idle
<1> QED
  BY <1>3, <1>4, <1>5, <1>6, <1>7 DEF IInv

LEMMA ReleaseStep ==
    ASSUME IInv, NEW s \in Slots, Release(s)
    PROVE  IInv'
<1> DEFINE k == slot[s].key
           m == ModelOf[k]
<1>t. TypeOK /\ Flags /\ Tables /\ Others
  BY TypeParts DEF IInv
<1>1. /\ slot[s].pc = "release"
      /\ active' = [active EXCEPT ![m] = NoKey]
      /\ busy' = busy - 1
      /\ slot' = [slot EXCEPT ![s] = Idle("notify")]
      /\ UNCHANGED <<started, stopping, pending, done, ready, notices, stopper,
                     queued, relied>>
  BY DEF Release
<1>2. slot[s].pc \in Working /\ k \in Keys /\ m \in Models /\ active[m] = k
  <2>1. slot[s].pc \in Working
    BY <1>1 DEF Working
  <2>2. k \in Keys
    BY <2>1, <1>t, SlotTypes DEF Others
  <2> QED
    BY <2>1, <2>2, KeysAssumption DEF IInv, SlotAccount
<1>3. /\ slot' \in [Slots -> Slot]
      /\ slot'[s] = Idle("notify") /\ slot'[s].pc \notin Working
      /\ slot'[s].pc # "score" /\ slot'[s].key = NoKey
      /\ \A t \in Slots \ {s} : slot'[t] = slot[t]
  <2>1. /\ Idle("notify") \in Slot /\ Idle("notify").pc = "notify"
        /\ Idle("notify").key = NoKey
    BY SlotTypes DEF SlotPcs, Working, Idle
  <2> QED
    BY <2>1, <1>1, <1>t DEF Others, Working
<1>4. busy' = Cardinality(Holders(slot')) /\ busy' \in Nat
  <2>1. Cardinality(Holders(slot')) = Cardinality(Holders(slot)) - 1
    BY <1>2, <1>3, OneLess
  <2>2. busy = Cardinality(Holders(slot))
    BY DEF IInv, SlotAccount, Holders
  <2> QED
    BY <2>1, <2>2, <1>1, HoldersFinite
<1>5. TypeOK'
  <2>1. Flags'
    BY <1>1, <1>t DEF Flags
  <2>2. Tables'
    BY <1>1, <1>2, <1>t DEF Tables
  <2>3. Others'
    BY <1>1, <1>3, <1>4, <1>t DEF Others
  <2> QED
    BY <2>1, <2>2, <2>3, TypeParts
<1>6. SlotAccount'
  <2>1. ASSUME NEW t \in Slots, slot'[t].pc \in Working
        PROVE  active'[ModelOf[slot'[t].key]] = slot'[t].key
    <3>1. t # s /\ slot'[t] = slot[t] /\ slot[t].key # k
      BY <2>1, <1>2, <1>3 DEF IInv, SlotAccount
    <3>2. slot[t].key \in Keys /\ active[ModelOf[slot[t].key]] = slot[t].key
      BY <2>1, <3>1, <1>t, SlotTypes DEF IInv, SlotAccount, Others
    <3>3. ModelOf[slot[t].key] # m /\ ModelOf[slot[t].key] \in Models
      BY <3>1, <3>2, <1>2, KeysAssumption
    <3> QED
      BY <3>1, <3>2, <3>3, <1>1, <1>t DEF Tables
  <2>2. ASSUME NEW n \in Models, active'[n] # NoKey
        PROVE  \E t \in Slots : slot'[t].pc \in Working /\ slot'[t].key = active'[n]
    <3>1. n # m /\ active'[n] = active[n]
      BY <2>2, <1>1, <1>2, <1>t DEF Tables
    <3>2. PICK t \in Slots : slot[t].pc \in Working /\ slot[t].key = active[n]
      BY <2>2, <3>1 DEF IInv, SlotAccount
    <3>3. t # s
      BY <2>2, <3>1, <3>2, <1>t DEF Tables
    <3> QED
      BY <3>1, <3>2, <3>3, <1>3
  <2>3. ASSUME NEW t \in Slots, NEW u \in Slots,
               slot'[t].pc \in Working, slot'[t].key = slot'[u].key
        PROVE  t = u
    <3>0. slot'[t] \in Slot /\ t # s /\ slot'[t] = slot[t]
      BY <2>3, <1>3
    <3>1. slot'[t].key # NoKey
      BY <2>3, <3>0 DEF Slot
    <3>2. u # s /\ slot'[u] = slot[u]
      BY <2>3, <3>1, <1>3
    <3> QED
      BY <2>3, <3>0, <3>2 DEF IInv, SlotAccount
  <2> QED
    BY <1>4, <2>1, <2>2, <2>3 DEF SlotAccount, Holders
<1>7. NoWastedWork'
  <2>1. \A n \in Models : pending'[n] # NoKey => pending'[n] # active'[n]
    BY <1>1, <1>2, <1>t DEF IInv, NoWastedWork, Tables
  <2> QED
    BY <2>1, <1>1, <1>3 DEF IInv, NoWastedWork
<1>8. QueuedKept'
  BY <1>1, <1>3 DEF IInv, QueuedKept
<1>9. Stages'
  <2>1. started
    BY <1>1 DEF IInv, Stages, Idle
  <2>2. busy # 0
    BY <1>1, <1>4, <1>t DEF Others
  <2> QED
    BY <1>1, <2>1, <2>2 DEF IInv, Stages
<1> QED
  BY <1>5, <1>6, <1>7, <1>8, <1>9 DEF IInv

(***************************************************************************)
(* The theorems.                                                           *)
(***************************************************************************)
LEMMA StepInv == IInv /\ [Next]_vars => IInv'
<1> SUFFICES ASSUME IInv, [Next]_vars PROVE IInv'
  OBVIOUS
<1>1. CASE UNCHANGED vars
  BY <1>1 DEF vars, IInv, TypeOK, SlotAccount, NoWastedWork, QueuedKept, Stages
<1>2. CASE Call
  BY <1>2, QuietSteps, AskAnewStep, ShutdownStep DEF Call
<1>3. CASE Clear
  BY <1>3, ClearStep
<1>4. CASE \E s \in Slots : Run(s)
  BY <1>4, QuietSteps, TakeStep, PublishStep, CallbackEndsStep, ReleaseStep DEF Run
<1>5. CASE \E s \in Slots : Fault(s)
  BY <1>5, ScoreThrowsStep, TakeFailsStep DEF Fault
<1> QED
  BY <1>1, <1>2, <1>3, <1>4, <1>5 DEF Next

LEMMA Invariance == Spec => []IInv
  BY InitInv, StepInv, PTL DEF Spec

(* Every value stays in its type: among others, busy_workers_ never goes   *)
(* below zero, whatever throws.                                            *)
THEOREM TypeCorrect == Spec => []TypeOK
  BY Invariance, PTL DEF IInv

(* busy_workers_ and active_keys_ account for the slots that hold a job.   *)
THEOREM SlotsAccounted == Spec => []SlotAccount
  BY Invariance, PTL DEF IInv

(* No batch is queued while it runs, and none is scored for a result that  *)
(* is there.                                                               *)
THEOREM WorkNotWasted == Spec => []NoWastedWork
  BY Invariance, PTL DEF IInv

(* The newest queued request of a model is kept until its outcome.         *)
THEOREM NewestKept == Spec => []QueuedKept
  BY Invariance, PTL DEF IInv

LEMMA QuietWhenStopped == IInv => QuietAfterShutdown
<1> SUFFICES ASSUME IInv, stopper = "returned", NEW s \in Slots, slot[s].pc \in Working
             PROVE  FALSE
  BY DEF QuietAfterShutdown
<1>1. Cardinality(Holders(slot)) = 0
  BY DEF IInv, Stages, SlotAccount, Holders
<1>2. Holders(slot) = {}
  BY <1>1, HoldersFinite, FS_EmptySet
<1> QED
  BY <1>2 DEF Holders

(* When shutdown() has returned no slot is scoring or calling back.        *)
THEOREM ShutdownIsQuiet == Spec => []QuietAfterShutdown
  BY Invariance, QuietWhenStopped, PTL

(* A callback begins only while the worker is not stopping.                *)
THEOREM CallbackBeforeStop == Spec => NoLateCallback
<1>1. ASSUME IInv, [Next]_vars, stopping, NEW s \in Slots,
             slot[s].pc # "call", slot'[s].pc = "call"
      PROVE  FALSE
  <2>1. ~ ready /\ pending = NoJobs /\ slot \in [Slots -> Slot]
    BY <1>1 DEF IInv, Stages, TypeOK
  <2>2. CASE UNCHANGED vars
    BY <2>2, <1>1 DEF vars
  <2>a. \A t \in Slots : AllWoken[t].pc = "call" => slot[t].pc = "call"
    BY DEF AllWoken, Idle
  <2>b. \A t \in Slots, pc \in SlotPcs \ Working :
          slot' = [slot EXCEPT ![t] = Idle(pc)] => FALSE
    BY <1>1, <2>1 DEF Idle, Working
  <2>c. \A t \in Slots, pc \in {"score", "release"} :
          slot' = [slot EXCEPT ![t].pc = pc] => FALSE
    BY <1>1, <2>1
  <2>d. slot' # slot /\ slot' # AllWoken
    BY <1>1, <2>a
  <2>3. CASE Call
    <3>1. CASE NotifyOne
      BY <3>1, <2>b, <2>d DEF NotifyOne, SlotPcs, Working
    <3>2. CASE SetReady \/ (\E k \in Keys : AskRunning(k)) \/ ShutdownLooks
      BY <3>2, <2>d DEF SetReady, AskRunning, ShutdownLooks
    <3>3. CASE (\E k \in Keys : AskAnew(k)) \/ Shutdown
      BY <3>3, <2>d, <1>1 DEF AskAnew, Shutdown
    <3> QED
      BY <2>3, <3>1, <3>2, <3>3 DEF Call
  <2>4. CASE Clear
    BY <2>4, <2>d DEF Clear
  <2>5. ASSUME NEW t \in Slots, Run(t)
        PROVE  FALSE
    <3>1. CASE Sleep(t) \/ WakeSpuriously(t) \/ Exit(t) \/ Release(t)
      BY <3>1, <2>b DEF Sleep, WakeSpuriously, Exit, Release, SlotPcs, Working
    <3>2. CASE Publish(t) \/ CallbackEnds(t)
      BY <3>2, <2>1, <2>c DEF Publish, CallbackEnds
    <3>3. CASE \E m \in Models : Take(t, m)
      BY <3>3, <1>1 DEF Take
    <3>4. CASE NotifyAll(t)
      <4>1. slot' = [AllWoken EXCEPT ![t] = Idle("awake")]
        BY <3>4 DEF NotifyAll
      <4>2. AllWoken = [x \in Slots |-> AllWoken[x]]
        BY DEF AllWoken
      <4> QED
        BY <4>1, <4>2, <2>a, <1>1 DEF Idle
    <3> QED
      BY <2>5, <3>1, <3>2, <3>3, <3>4 DEF Run
  <2>6. ASSUME NEW t \in Slots, Fault(t)
        PROVE  FALSE
    BY <2>6, <2>b, <2>c DEF Fault, ScoreThrows, TakeFails, SlotPcs, Working
  <2> QED
    BY <1>1, <2>2, <2>3, <2>4, <2>5, <2>6 DEF Next
<1>2. IInv /\ [Next]_vars
        => [stopping => \A s \in Slots : slot[s].pc # "call" => slot'[s].pc # "call"]_vars
  BY <1>1
<1> QED
  BY Invariance, <1>2, PTL DEF Spec, NoLateCallback
=============================================================================
