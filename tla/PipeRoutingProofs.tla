------------------------- MODULE PipeRoutingProofs -------------------------
(***************************************************************************)
(* Theorems about PipeRouting, for every set of clients and every bound.   *)
(***************************************************************************)
EXTENDS PipeRouting, TLAPS

(* The operators of ActiveClientState stay within the type of the route    *)
(* and never let the epoch go back.                                        *)
LEMMA RouteOps ==
    ASSUME NEW r \in RouteType, NEW c \in Clients
    PROVE  /\ Activated(r, c) \in RouteType
           /\ Renewed(r, c) \in RouteType
           /\ Released(r) \in RouteType
           /\ Deactivated(r, c) \in RouteType
           /\ Retired(r, c) \in RouteType
           /\ \A e : Invalidated(r, c, e) \in RouteType
           /\ TerminalEpoch(r, c) \in Nat
           /\ r.epoch \in Nat \ {0}
  BY DEF RouteType, Activated, Renewed, Released, Deactivated, Retired,
         Invalidated, TerminalEpoch

(* The operators on sessions return sessions. *)
LEMMA SessionOps ==
    ASSUME NEW s \in Session
    PROVE  /\ FocusEnded(s) \in Session
           /\ Tidied(s) \in Session
<1>1. EmptySession \in Session
  BY DEF EmptySession, Session
<1> QED
  BY <1>1 DEF FocusEnded, Tidied, Session

LEMMA ReverseOps ==
    ASSUME NEW s \in Session, NEW r \in Routes
    PROVE  /\ Severed(s, r) \in Session
           /\ \A id \in Nat : Connected(s, r, id) \in Session
  BY DEF Severed, Connected, Session

(* What a thread does to its own control state and to the queue keeps      *)
(* their types.                                                            *)
LEMMA ReaderOps ==
    ASSUME TypeOK, NEW c \in Clients, NEW g \in Mains,
           NEW pc \in ReaderPcs, NEW e \in Nat
    PROVE  /\ reader[<<c, g>>] \in Reader
           /\ GoTo(c, g, pc) /\ pc \notin PostPcs \cup FramePcs
                => reader' \in [Readers -> Reader]
           /\ /\ GoWith(c, g, pc, e)
              /\ pc # "handle"
              /\ pc \in PostPcs => e # 0
              /\ pc \in FramePcs => reader[<<c, g>>].frame # "none"
              => reader' \in [Readers -> Reader]
<1>1. <<c, g>> \in Readers /\ reader[<<c, g>>] \in Reader
  BY DEF TypeOK, Readers
<1>2. pc \notin PostPcs \cup FramePcs => [NewReader EXCEPT !.pc = pc] \in Reader
  BY DEF NewReader, Reader
<1>3. /\ pc # "handle"
      /\ pc \in PostPcs => e # 0
      /\ pc \in FramePcs => reader[<<c, g>>].frame # "none"
      => [reader[<<c, g>>] EXCEPT !.pc = pc, !.epoch = e] \in Reader
  BY <1>1 DEF Reader
<1> QED
  BY <1>1, <1>2, <1>3 DEF GoTo, GoWith, TypeOK

LEMMA EnqueueOps ==
    ASSUME TypeOK, NEW task \in Task, Enqueue(task)
    PROVE  queue' \in Seq(Task)
  BY DEF Enqueue, TypeOK

LEMMA TaskOps ==
    ASSUME NEW type \in TaskTypes, NEW c \in Clients, NEW e \in Nat
    PROVE  /\ e # 0 => NewTask(type, c, e) \in Task
           /\ Invalidation(c, e) \subseteq Task
  BY DEF NewTask, Invalidation, Task, TaskTypes

(* Every frame becomes a task of some type. *)
LEMMA TaskOfFrame ==
    ASSUME NEW f \in FrameNames
    PROVE  TaskOf[f] \in TaskTypes
  BY DEF FrameNames, ImplicitFrames, DeactivationFrames, PlainFrames,
         TaskOf, TaskTypes

LEMMA InitType == Init => TypeOK
<1> SUFFICES ASSUME Init PROVE TypeOK
  OBVIOUS
<1>1. session \in [Clients -> Session]
  <2>1. EmptySession \in Session
    BY DEF EmptySession, Session
  <2> QED
    BY <2>1 DEF Init
<1>2. route \in RouteType
  BY DEF Init, InitialRoute, RouteType
<1>3. reader \in [Readers -> Reader]
  BY DEF Init, NewReader, Reader, ReaderPcs, PostPcs, FramePcs
<1>4. worker \in [pc : {"idle", "run", "post"}, task : Task \cup {NoTask}]
  BY DEF Init
<1>5. worker.pc # "idle" => worker.task \in Task
  BY DEF Init
<1>6. queue \in Seq(Task)
  BY DEF Init
<1>7. lastReverse \in [Clients -> [Routes -> Nat]]
  BY DEF Init
<1>8. /\ posts \subseteq Task /\ aux \subseteq Task
      /\ comp \subseteq Clients \X Nat /\ toolbar \in BOOLEAN
      /\ clientToken \in [Clients -> Nat] /\ inputs \in Nat
  BY DEF Init
<1> QED
  BY <1>1, <1>2, <1>3, <1>4, <1>5, <1>6, <1>7, <1>8 DEF TypeOK

(***************************************************************************)
(* Type correctness of each action.                                        *)
(***************************************************************************)
LEMMA RegistryTypes ==
    ASSUME TypeOK, NEW c \in Clients, NEW g \in Mains, NEW r \in Routes,
           NEW h \in Nat,
           \/ RegisterMain(c, g)
           \/ RegisterReverse(c, r)
           \/ UnregisterReverse(c, r, h)
           \/ WorkerPipeWriteFails(c)
    PROVE  TypeOK'
<1> g \in Nat /\ session[c] \in Session /\ route \in RouteType
  BY BoundsAssumption DEF TypeOK, Mains
<1>1. CASE RegisterMain(c, g)
  <2>1. session' \in [Clients -> Session]
    <3>1. \A s \in Session : [s EXCEPT !.main = g, !.focusToken = 0] \in Session
      BY DEF Session
    <3> QED
      BY <1>1, <3>1, SessionOps DEF RegisterMain, TypeOK
  <2>2. route' \in RouteType /\ route'.epoch \in Nat \ {0}
    BY <1>1, RouteOps DEF RegisterMain, RouteType
  <2>3. reader' \in [Readers -> Reader]
    BY <1>1, <2>2, ReaderOps DEF RegisterMain, ReaderPcs, PostPcs, FramePcs
  <2> QED
    BY <1>1, <2>1, <2>2, <2>3 DEF RegisterMain, TypeOK
<1>2. CASE RegisterReverse(c, r)
  <2>1. /\ lastReverse[c][r] + 1 \in Nat
        /\ lastReverse' \in [Clients -> [Routes -> Nat]]
    BY <1>2 DEF RegisterReverse, TypeOK
  <2>2. session' \in [Clients -> Session]
    <3>1. /\ Connected(session[c], r, lastReverse[c][r] + 1) \in Session
          /\ Tidied(session[c]) \in Session
      BY <2>1, SessionOps, ReverseOps
    <3>2. \/ session' = [session EXCEPT
                ![c] = Connected(session[c], r, lastReverse[c][r] + 1)]
          \/ session' = [session EXCEPT ![c] = Tidied(session[c])]
      BY <1>2 DEF RegisterReverse
    <3> QED
      BY <3>1, <3>2 DEF TypeOK
  <2> QED
    BY <1>2, <2>1, <2>2 DEF RegisterReverse, TypeOK
<1>3. CASE UnregisterReverse(c, r, h)
  <2>1. session' \in [Clients -> Session]
    BY <1>3, SessionOps, ReverseOps DEF UnregisterReverse, TypeOK
  <2>2. route' \in RouteType /\ route'.epoch \in Nat
    BY <1>3, RouteOps DEF UnregisterReverse
  <2>3. posts' \subseteq Task
    BY <1>3, <2>2, TaskOps DEF UnregisterReverse, TypeOK, TaskTypes
  <2> QED
    BY <1>3, <2>1, <2>2, <2>3 DEF UnregisterReverse, CountInput, TypeOK
<1>4. CASE WorkerPipeWriteFails(c)
  <2>1. session' \in [Clients -> Session]
    BY <1>4, SessionOps, ReverseOps DEF WorkerPipeWriteFails, TypeOK, Routes
  <2>2. route' \in RouteType /\ route'.epoch \in Nat
    BY <1>4, RouteOps DEF WorkerPipeWriteFails, RouteType
  <2>3. posts' \subseteq Task
    BY <1>4, <2>2, TaskOps DEF WorkerPipeWriteFails, TypeOK, TaskTypes
  <2> QED
    BY <1>4, <2>1, <2>2, <2>3 DEF WorkerPipeWriteFails, CountInput, TypeOK
<1> QED
  BY <1>1, <1>2, <1>3, <1>4

LEMMA ReaderTypes ==
    ASSUME TypeOK, NEW c \in Clients, NEW g \in Mains,
           \/ PostSuperseded(c, g)
           \/ Negotiate(c, g)
           \/ \E f \in Frames : ReadFrame(c, g, f)
           \/ ActivateExplicit(c, g)
           \/ ActivateImplicit(c, g)
           \/ Attribute(c, g)
           \/ Announce(c, g)
           \/ Gate(c, g)
    PROVE  TypeOK'
<1> DEFINE rd == reader[<<c, g>>]
<1>r. /\ rd \in Reader /\ <<c, g>> \in Readers
      /\ rd.epoch \in Nat /\ rd.token \in Nat
      /\ rd.pc \in PostPcs => rd.epoch \in Nat \ {0}
      /\ rd.pc \in FramePcs => rd.frame \in FrameNames
  BY DEF TypeOK, Reader, Readers
<1>s. session[c] \in Session /\ route \in RouteType
      /\ route.epoch \in Nat \ {0}
  BY DEF TypeOK, RouteType
<1>1. CASE PostSuperseded(c, g)
  <2>1. NewTask("ClientSuspended", c, rd.epoch) \in Task
    BY <1>1, <1>r, TaskOps DEF PostSuperseded, At, PostPcs, TaskTypes
  <2>2. queue' \in Seq(Task)
    BY <1>1, <2>1, EnqueueOps DEF PostSuperseded
  <2>3. reader' \in [Readers -> Reader]
    BY <1>1, ReaderOps DEF PostSuperseded, ReaderPcs, PostPcs, FramePcs
  <2> QED
    BY <1>1, <2>2, <2>3 DEF PostSuperseded, TypeOK
<1>2. CASE Negotiate(c, g)
  <2>1. reader' \in [Readers -> Reader]
    BY <1>2, ReaderOps DEF Negotiate, ReaderPcs, PostPcs, FramePcs
  <2> QED
    BY <1>2, <2>1 DEF Negotiate, TypeOK
<1>3. ASSUME NEW f \in Frames, ReadFrame(c, g, f) PROVE TypeOK'
  <2>1. \A token \in Nat : (f = "ClientActivated" => token # 0) =>
          [pc |-> "handle", frame |-> f, token |-> token, epoch |-> 0] \in Reader
    BY FramesAssumption DEF Reader, ReaderPcs, PostPcs, FrameNames,
       ImplicitFrames, DeactivationFrames, PlainFrames
  <2>2. /\ reader' \in [Readers -> Reader]
        /\ clientToken' \in [Clients -> Nat]
    <3>1. CASE f = "ClientActivated"
      <4>1. PICK token \in Nat \ {0} :
              /\ clientToken' = [clientToken EXCEPT ![c] = token]
              /\ reader' = [reader EXCEPT
                              ![<<c, g>>] = [pc |-> "handle", frame |-> f,
                                             token |-> token, epoch |-> 0]]
        BY <1>3, <3>1, BoundsAssumption DEF ReadFrame
      <4> QED
        BY <2>1, <4>1 DEF TypeOK
    <3>2. CASE f # "ClientActivated"
      <4>1. /\ clientToken' = clientToken
            /\ reader' = [reader EXCEPT
                            ![<<c, g>>] = [pc |-> "handle", frame |-> f,
                                           token |-> 0, epoch |-> 0]]
        BY <1>3, <3>2 DEF ReadFrame
      <4> QED
        BY <2>1, <3>2, <4>1 DEF TypeOK
    <3> QED
      BY <3>1, <3>2
  <2> QED
    BY <1>3, <2>2 DEF ReadFrame, CountInput, TypeOK
<1>4. CASE ActivateExplicit(c, g)
  <2>1. route' \in RouteType
    BY <1>4, <1>s, RouteOps DEF ActivateExplicit, registry
  <2>2. session' \in [Clients -> Session]
    <3> DEFINE s == [session[c] EXCEPT !.focusToken = rd.token,
                                       !.inactiveToken = 0]
    <3>1. s \in Session
      BY <1>r, <1>s DEF Session
    <3>2. session' = session \/ session' = [session EXCEPT ![c] = s]
      BY <1>4 DEF ActivateExplicit, registry
    <3> QED
      BY <3>1, <3>2 DEF TypeOK
  <2>3. rd.frame # "none" /\ route'.epoch \in Nat \ {0}
    BY <1>4, <2>1 DEF ActivateExplicit, RouteType
  <2>4. reader' \in [Readers -> Reader]
    BY <1>4, <2>3, ReaderOps
       DEF ActivateExplicit, ReaderPcs, PostPcs, FramePcs
  <2> QED
    BY <1>4, <2>1, <2>2, <2>4 DEF ActivateExplicit, TypeOK
<1>5. CASE ActivateImplicit(c, g)
  <2>1. route' \in RouteType
    BY <1>5, <1>s, RouteOps DEF ActivateImplicit, registry
  <2>2. session' \in [Clients -> Session]
    <3>1. [session[c] EXCEPT !.inactiveToken = 0] \in Session
      BY <1>s DEF Session
    <3>2. \/ session' = session
          \/ session' = [session EXCEPT
                          ![c] = [session[c] EXCEPT !.inactiveToken = 0]]
      BY <1>5 DEF ActivateImplicit, registry
    <3> QED
      BY <3>1, <3>2 DEF TypeOK
  <2>3. rd.frame # "none" /\ route'.epoch \in Nat \ {0}
    BY <1>5, <1>r, <2>1 DEF ActivateImplicit, RouteType, At, FramePcs,
       ImplicitFrames
  <2>4. reader' \in [Readers -> Reader]
    BY <1>5, <2>3, ReaderOps
       DEF ActivateImplicit, ReaderPcs, PostPcs, FramePcs
  <2> QED
    BY <1>5, <2>1, <2>2, <2>4 DEF ActivateImplicit, TypeOK
<1>6. CASE Attribute(c, g)
  <2>1. rd.frame # "none"
    BY <1>6 DEF Attribute, PlainFrames
  <2>2. reader' \in [Readers -> Reader]
    BY <1>6, <1>s, <2>1, ReaderOps DEF Attribute, ReaderPcs, PostPcs, FramePcs
  <2> QED
    BY <1>6, <2>2 DEF Attribute, TypeOK
<1>7. CASE Announce(c, g)
  <2>1. rd.frame # "none" /\ rd.epoch # 0
    BY <1>7, <1>r DEF Announce, At, PostPcs, FramePcs, Reader
  <2>2. NewTask("ClientActivated", c, rd.epoch) \in Task
    BY <1>r, <2>1, TaskOps DEF TaskTypes
  <2>3. queue' \in Seq(Task)
    BY <1>7, <2>2, EnqueueOps DEF Announce
  <2>4. reader' \in [Readers -> Reader]
    BY <1>7, <1>r, <2>1, ReaderOps DEF Announce, ReaderPcs, PostPcs, FramePcs
  <2> QED
    BY <1>7, <2>3, <2>4 DEF Announce, TypeOK
<1>8. CASE Gate(c, g)
  <2>1. rd.frame # "none"
    BY <1>8, <1>r DEF Gate, At, FramePcs, Reader
  <2>2. reader' \in [Readers -> Reader]
    BY <1>8, <1>r, <1>s, <2>1, ReaderOps
       DEF Gate, Matches, ReaderPcs, PostPcs, FramePcs
  <2> QED
    BY <1>8, <2>2 DEF Gate, TypeOK
<1> QED
  BY <1>1, <1>2, <1>3, <1>4, <1>5, <1>6, <1>7, <1>8

LEMMA DeactivationTypes ==
    ASSUME TypeOK, NEW c \in Clients, NEW g \in Mains,
           \/ DeactivateRoute(c, g)
           \/ ResolveTerminal(c, g)
           \/ RetireRoute(c, g)
           \/ Post(c, g)
    PROVE  TypeOK'
<1> DEFINE rd == reader[<<c, g>>]
<1>r. /\ rd \in Reader
      /\ rd.epoch \in Nat
      /\ rd.pc \in PostPcs => rd.epoch \in Nat \ {0}
      /\ rd.pc \in FramePcs => rd.frame \in FrameNames /\ rd.frame # "none"
  BY DEF TypeOK, Reader, Readers
<1>s. session[c] \in Session /\ route \in RouteType
      /\ TerminalEpoch(route, c) \in Nat
  BY RouteOps DEF TypeOK
<1>1. CASE DeactivateRoute(c, g)
  <2>1. route' \in RouteType
    BY <1>1, <1>s, RouteOps DEF DeactivateRoute, registry
  <2>2. session' \in [Clients -> Session]
    BY <1>1, <1>s, SessionOps DEF DeactivateRoute, registry, TypeOK
  <2>3. rd.frame # "none" /\ route'.epoch \in Nat \ {0}
    BY <1>1, <1>r, <2>1 DEF DeactivateRoute, RouteType, At, FramePcs
  <2>4. reader' \in [Readers -> Reader]
    BY <1>1, <2>3, ReaderOps DEF DeactivateRoute, ReaderPcs, PostPcs, FramePcs
  <2> QED
    BY <1>1, <2>1, <2>2, <2>4 DEF DeactivateRoute, TypeOK
<1>2. CASE ResolveTerminal(c, g)
  <2>1. rd.frame # "none"
    BY <1>2, <1>r DEF ResolveTerminal, At, FramePcs
  <2>2. reader' \in [Readers -> Reader]
    BY <1>2, <1>s, <2>1, ReaderOps
       DEF ResolveTerminal, ReaderPcs, PostPcs, FramePcs
  <2> QED
    BY <1>2, <2>2 DEF ResolveTerminal, TypeOK
<1>3. CASE RetireRoute(c, g)
  <2>1. route' \in RouteType
    BY <1>3, <1>s, RouteOps DEF RetireRoute, registry
  <2>2. session' \in [Clients -> Session]
    BY <1>3, <1>s, SessionOps DEF RetireRoute, registry, TypeOK
  <2>3. rd.frame # "none" /\ route'.epoch \in Nat \ {0}
    BY <1>3, <1>r, <2>1 DEF RetireRoute, RouteType, At, FramePcs
  <2>4. reader' \in [Readers -> Reader]
    BY <1>3, <2>3, ReaderOps DEF RetireRoute, ReaderPcs, PostPcs, FramePcs
  <2> QED
    BY <1>3, <2>1, <2>2, <2>4 DEF RetireRoute, TypeOK
<1>4. CASE Post(c, g)
  <2>1. rd.frame \in FrameNames /\ rd.epoch \in Nat \ {0}
    BY <1>4, <1>r DEF Post, At, PostPcs, FramePcs
  <2>2. NewTask(TaskOf[rd.frame], c, rd.epoch) \in Task
    BY <2>1, TaskOfFrame, TaskOps
  <2>3. queue' \in Seq(Task)
    BY <1>4, <2>2, EnqueueOps DEF Post
  <2>4. reader' \in [Readers -> Reader]
    BY <1>4, ReaderOps DEF Post, ReaderPcs, PostPcs, FramePcs
  <2> QED
    BY <1>4, <2>3, <2>4 DEF Post, TypeOK
<1> QED
  BY <1>1, <1>2, <1>3, <1>4

LEMMA ExitTypes ==
    ASSUME TypeOK, NEW c \in Clients, NEW g \in Mains,
           \/ RefuseHello(c, g)
           \/ FindSuperseded(c, g)
           \/ Disconnect(c, g)
           \/ ResolveExit(c, g)
           \/ PostExit(c, g)
    PROVE  TypeOK'
<1> DEFINE rd == reader[<<c, g>>]
<1>s. /\ session[c] \in Session /\ route \in RouteType
      /\ TerminalEpoch(route, c) \in Nat /\ inputs \in Nat
      /\ rd \in Reader
  BY RouteOps DEF TypeOK, Readers
<1>1. ASSUME UnregisterMain(c, g), inputs' \in Nat
      PROVE  TypeOK'
  <2>1. route' \in RouteType
    BY <1>1, <1>s, RouteOps DEF UnregisterMain
  <2>2. session' \in [Clients -> Session]
    <3>1. \A s \in Session : [s EXCEPT !.main = 0, !.focusToken = 0] \in Session
      BY DEF Session
    <3> DEFINE ended == IF Registered(c, g) /\ route.active = c
                          THEN FocusEnded(session[c]) ELSE session[c]
               gone == IF Registered(c, g)
                         THEN [ended EXCEPT !.main = 0, !.focusToken = 0]
                         ELSE ended
    <3>2. ended \in Session
      BY <1>s, SessionOps
    <3>3. gone \in Session
      BY <3>1, <3>2
    <3>4. Tidied(gone) \in Session
      BY <3>3, SessionOps
    <3>5. session' = [session EXCEPT ![c] = Tidied(gone)]
      BY <1>1 DEF UnregisterMain
    <3> QED
      BY <3>4, <3>5 DEF TypeOK
  <2>3. route'.epoch \in Nat \ {0}
    BY <2>1 DEF RouteType
  <2>4. reader' \in [Readers -> Reader]
    BY <1>1, <2>3, ReaderOps DEF UnregisterMain, ReaderPcs, PostPcs, FramePcs
  <2> QED
    BY <1>1, <2>1, <2>2, <2>4 DEF UnregisterMain, TypeOK
<1>2. CASE RefuseHello(c, g)
  BY <1>1, <1>2, <1>s DEF RefuseHello
<1>3. CASE FindSuperseded(c, g)
  BY <1>1, <1>3, <1>s DEF FindSuperseded
<1>4. CASE Disconnect(c, g)
  BY <1>1, <1>4, <1>s DEF Disconnect, CountInput
<1>5. CASE ResolveExit(c, g)
  <2>1. reader' \in [Readers -> Reader]
    BY <1>5, <1>s, ReaderOps DEF ResolveExit, ReaderPcs, PostPcs, FramePcs
  <2> QED
    BY <1>5, <2>1 DEF ResolveExit, TypeOK
<1>6. CASE PostExit(c, g)
  <2>1. rd.epoch \in Nat \ {0}
    BY <1>6, <1>s DEF PostExit, At, PostPcs, Reader
  <2>2. NewTask("ClientSuspended", c, rd.epoch) \in Task
    BY <2>1, TaskOps DEF TaskTypes
  <2>3. queue' \in Seq(Task)
    BY <1>6, <2>2, EnqueueOps DEF PostExit
  <2>4. reader' \in [Readers -> Reader]
    BY <1>6, ReaderOps DEF PostExit, ReaderPcs, PostPcs, FramePcs
  <2> QED
    BY <1>6, <2>3, <2>4 DEF PostExit, TypeOK
<1> QED
  BY <1>2, <1>3, <1>4, <1>5, <1>6

LEMMA AuxTypes ==
    ASSUME TypeOK,
           \/ \E c \in Clients, token \in 1 .. MaxTokens : AuxTerminal(c, token)
           \/ \E task \in aux : PostAux(task)
           \/ \E task \in posts : PostInvalidated(task)
    PROVE  TypeOK'
<1>t. route \in RouteType /\ session \in [Clients -> Session]
  BY DEF TypeOK
<1>1. ASSUME NEW c \in Clients, NEW token \in 1 .. MaxTokens,
             AuxTerminal(c, token)
      PROVE  TypeOK'
  <2>0. \/ /\ route' = Deactivated(route, c)
           /\ session' = [session EXCEPT ![c] = FocusEnded(session[c])]
        \/ route' = route /\ session' = session
    BY <1>1 DEF AuxTerminal, registry
  <2>1. /\ route' \in RouteType
        /\ TerminalEpoch(route, c) \in Nat
    BY <1>t, <2>0, RouteOps
  <2>2. session' \in [Clients -> Session]
    BY <1>t, <2>0, SessionOps
  <2>3. aux' \subseteq Task
    BY <1>1, <2>1, TaskOps DEF AuxTerminal, RouteType, TaskTypes
  <2> QED
    BY <1>1, <2>1, <2>2, <2>3 DEF AuxTerminal, CountInput, TypeOK
<1>2. ASSUME NEW task \in aux, PostAux(task) PROVE TypeOK'
  <2>1. queue' \in Seq(Task)
    BY <1>2, EnqueueOps DEF PostAux, TypeOK
  <2> QED
    BY <1>2, <2>1 DEF PostAux, TypeOK
<1>3. ASSUME NEW task \in posts, PostInvalidated(task) PROVE TypeOK'
  <2>1. queue' \in Seq(Task)
    BY <1>3, EnqueueOps DEF PostInvalidated, TypeOK
  <2> QED
    BY <1>3, <2>1 DEF PostInvalidated, TypeOK
<1> QED
  BY <1>1, <1>2, <1>3

LEMMA WorkerTypes ==
    ASSUME TypeOK, WorkerStep
    PROVE  TypeOK'
<1>t. route \in RouteType /\ session \in [Clients -> Session]
  BY DEF TypeOK
<1>1. CASE Take
  <2>1. Head(queue) \in Task /\ Tail(queue) \in Seq(Task)
    BY <1>1 DEF Take, TypeOK
  <2>2. /\ worker' \in [pc : {"idle", "run", "post"}, task : Task \cup {NoTask}]
        /\ worker'.pc # "idle" => worker'.task \in Task
    BY <1>1, <2>1 DEF Take, TypeOK
  <2> QED
    BY <1>1, <2>1, <2>2 DEF Take, TypeOK
<1>2. ASSUME worker' = Idle, comp' \in {{}, comp}, toolbar' \in BOOLEAN,
             UNCHANGED <<session, route, lastReverse, reader, posts, aux,
                         queue, clientToken, inputs>>
      PROVE  TypeOK'
  BY <1>2 DEF Idle, TypeOK
<1>3. CASE RunKey
  <2> DEFINE c == worker.task.client
             e == worker.task.epoch
  <2>1. c \in Clients /\ e \in Nat
    BY <1>3 DEF RunKey, Running, TypeOK, Task
  <2>0. \/ /\ route' = Invalidated(route, c, e)
           /\ session' = [session EXCEPT
                            ![c] = FocusEnded(Severed(session[c], "Reply"))]
        \/ route' = route /\ session' = session
    BY <1>3 DEF RunKey
  <2>2. route' \in RouteType
    BY <1>t, <2>0, <2>1, RouteOps
  <2>3. session' \in [Clients -> Session]
    BY <1>t, <2>0, <2>1, SessionOps, ReverseOps DEF Routes
  <2>4. comp' \subseteq Clients \X Nat
    BY <1>3, <2>1 DEF RunKey, TypeOK
  <2>5. /\ worker' \in [pc : {"idle", "run", "post"}, task : Task \cup {NoTask}]
        /\ worker'.pc # "idle" => worker'.task \in Task
    BY <1>3, <2>1, <2>2, TaskOps DEF RunKey, Idle, RouteType, TaskTypes
  <2>6. inputs' \in Nat
    BY <1>3 DEF RunKey, CountInput, TypeOK
  <2> QED
    BY <1>3, <2>2, <2>3, <2>4, <2>5, <2>6 DEF RunKey, TypeOK
<1>4. CASE PostWriteFailure
  <2>1. queue' \in Seq(Task)
    BY <1>4, EnqueueOps DEF PostWriteFailure, TypeOK
  <2> QED
    BY <1>4, <2>1 DEF PostWriteFailure, Idle, TypeOK
<1> QED
  BY <1>1, <1>2, <1>3, <1>4
     DEF WorkerStep, RunActivated, RunDeactivated, RunSuspended, RunHide,
         RunSnapshot, RunShow, TypeOK

(* The parameters that an action of another thread does not have. *)
LEMMA MainsExist == 1 \in Mains /\ "Reply" \in Routes /\ 0 \in Nat
  BY BoundsAssumption DEF Mains, Routes

LEMMA NextType == TypeOK /\ [Next]_vars => TypeOK'
<1> SUFFICES ASSUME TypeOK, [Next]_vars PROVE TypeOK'
  OBVIOUS
<1>1. CASE Environment
  <2>1. ASSUME NEW c \in Clients, NEW r \in Routes,
               RegisterReverse(c, r) PROVE TypeOK'
    BY <2>1, MainsExist, RegistryTypes
  <2>2. ASSUME NEW c \in Clients, NEW r \in Routes, NEW h \in 1 .. MaxReverses,
               UnregisterReverse(c, r, h) PROVE TypeOK'
    BY <2>2, MainsExist, RegistryTypes, BoundsAssumption
  <2>3. ASSUME NEW c \in Clients, WorkerPipeWriteFails(c) PROVE TypeOK'
    BY <2>3, MainsExist, RegistryTypes DEF Routes
  <2>4. ASSUME NEW c \in Clients, NEW token \in 1 .. MaxTokens,
               AuxTerminal(c, token) PROVE TypeOK'
    BY <2>4, AuxTypes
  <2>5. ASSUME NEW c \in Clients, NEW g \in Mains,
               RegisterMain(c, g) PROVE TypeOK'
    BY <2>5, RegistryTypes DEF Routes
  <2>6. ASSUME NEW c \in Clients, NEW g \in Mains,
               FindSuperseded(c, g) \/ Disconnect(c, g) PROVE TypeOK'
    BY <2>6, ExitTypes
  <2>7. ASSUME NEW c \in Clients, NEW g \in Mains, NEW f \in Frames,
               ReadFrame(c, g, f) PROVE TypeOK'
    BY <2>7, ReaderTypes
  <2> QED
    BY <1>1, <2>1, <2>2, <2>3, <2>4, <2>5, <2>6, <2>7 DEF Environment
<1>2. ASSUME NEW c \in Clients, NEW g \in Mains, ReaderStep(c, g)
      PROVE  TypeOK'
  BY <1>2, ReaderTypes, DeactivationTypes, ExitTypes DEF ReaderStep
<1>3. ASSUME NEW task \in posts, PostInvalidated(task) PROVE TypeOK'
  BY <1>3, AuxTypes
<1>4. ASSUME NEW task \in aux, PostAux(task) PROVE TypeOK'
  BY <1>4, AuxTypes
<1>5. CASE WorkerStep
  BY <1>5, WorkerTypes
<1>6. CASE UNCHANGED vars
  BY <1>6 DEF vars, TypeOK
<1> QED
  BY <1>1, <1>2, <1>3, <1>4, <1>5, <1>6 DEF Next

(* PipeRouting is type-correct: in particular whatever any thread is about *)
(* to enqueue, and whatever the queue or the worker holds, names a client  *)
(* and a nonzero epoch, and a frame is attributed only after it was read.  *)
THEOREM TypeCorrect == Spec => []TypeOK
  BY InitType, NextType, PTL DEF Spec

(***************************************************************************)
(* The registry and the active client.  Each critical section touches the  *)
(* session of one client and moves the route in one of a few ways; what it *)
(* must leave behind is LeavesRegistry.                                    *)
(***************************************************************************)
RegistryInv == ActiveRouteComplete /\ OneFocusSession

LeavesRegistry(c) ==
    /\ \A d \in Clients \ {c} : session'[d] = session[d]
    /\ \/ route' = route
       \/ route'.active \in {c, NoClient} /\ route'.epoch = route.epoch + 1
    /\ route'.active = c => Complete(session'[c])
    /\ OneFocus(session'[c])

LEMMA RegistryKept ==
    ASSUME RegistryInv, NEW c \in Clients, LeavesRegistry(c)
    PROVE  RegistryInv'
<1>1. ASSUME NEW d \in Clients, route'.active = d
      PROVE  Complete(session'[d])
  BY <1>1, ClientsAssumption
     DEF RegistryInv, LeavesRegistry, ActiveRouteComplete, Complete
<1>2. \A d \in Clients : OneFocus(session'[d])
  BY DEF RegistryInv, LeavesRegistry, OneFocusSession, OneFocus
<1> QED
  BY <1>1, <1>2 DEF RegistryInv, ActiveRouteComplete, OneFocusSession, Complete,
     OneFocus

(* How an operation of ActiveClientState moves the route. *)
LEMMA RouteMoves ==
    ASSUME NEW r \in RouteType, NEW c \in Clients, NEW s
    PROVE  /\ s \in {Renewed(r, c), Retired(r, c)}
                => s.active \in {c, NoClient} /\ s.epoch = r.epoch + 1
           /\ s \in {Activated(r, c), Deactivated(r, c)}
                => \/ s = r
                   \/ s.active \in {c, NoClient} /\ s.epoch = r.epoch + 1
           /\ \A e : Invalidated(r, c, e) = r
                \/ /\ Invalidated(r, c, e).active = NoClient
                   /\ Invalidated(r, c, e).epoch = r.epoch + 1
           /\ Deactivated(r, c).active # c
           /\ Retired(r, c).active # c
           /\ Activated(r, c).active = c
           /\ Renewed(r, c).active = c
           /\ Invalidated(r, c, r.epoch).active # c
  BY ClientsAssumption
     DEF RouteType, Activated, Renewed, Released, Deactivated, Retired,
         Invalidated, Matches

(* What the operations on a session do to its completeness and its tokens. *)
LEMMA SessionMoves ==
    ASSUME NEW s \in Session, OneFocus(s)
    PROVE  /\ OneFocus(FocusEnded(s))
           /\ OneFocus(Tidied(s))
           /\ Complete(s) => Tidied(s) = s
  BY DEF Session, OneFocus, FocusEnded, Tidied, Complete, EmptySession

LEMMA ReverseMoves ==
    ASSUME NEW s \in Session, NEW r \in Routes, OneFocus(s)
    PROVE  /\ OneFocus(Severed(s, r))
           /\ OneFocus(FocusEnded(Severed(s, r)))
           /\ OneFocus(Tidied(Severed(s, r)))
           /\ OneFocus(Tidied(FocusEnded(Severed(s, r))))
           /\ \A id \in Nat : OneFocus(Connected(s, r, id))
           /\ Complete(s) => \A id \in Nat \ {0} : Complete(Connected(s, r, id))
  BY DEF Session, OneFocus, FocusEnded, Severed, Tidied, Connected, Complete,
     EmptySession

(* Facts about one client that every step below starts from. *)
LEMMA RegistryFacts ==
    ASSUME TypeOK, RegistryInv, NEW c \in Clients
    PROVE  /\ session \in [Clients -> Session]
           /\ session[c] \in Session
           /\ route \in RouteType
           /\ OneFocus(session[c])
           /\ route.active = c => Complete(session[c])
  BY DEF TypeOK, RegistryInv, ActiveRouteComplete, OneFocusSession

LEMMA PipesLeaveRegistry ==
    ASSUME TypeOK, RegistryInv, NEW c \in Clients, NEW g \in Mains,
           NEW r \in Routes, NEW h \in Nat \ {0},
           \/ RegisterMain(c, g)
           \/ RegisterReverse(c, r)
           \/ UnregisterReverse(c, r, h)
           \/ WorkerPipeWriteFails(c)
    PROVE  LeavesRegistry(c)
<1> DEFINE s == session[c]
<1>f. /\ session \in [Clients -> Session] /\ s \in Session
      /\ route \in RouteType /\ OneFocus(s)
      /\ route.active = c => Complete(s)
  BY RegistryFacts
<1>1. CASE RegisterMain(c, g)
  <2>1. /\ \A d \in Clients \ {c} : session'[d] = session[d]
        /\ session'[c].focusToken = 0
    BY <1>1, <1>f, SessionOps DEF RegisterMain, Session
  <2>2. route' = Deactivated(route, c)
    BY <1>1 DEF RegisterMain
  <2> QED
    BY <1>f, <2>1, <2>2, RouteMoves DEF LeavesRegistry, OneFocus
<1>2. CASE RegisterReverse(c, r)
  <2>1. lastReverse[c][r] + 1 \in Nat \ {0}
    BY DEF TypeOK
  <2>2. /\ route' = route
        /\ \/ session' = [session EXCEPT
                           ![c] = Connected(s, r, lastReverse[c][r] + 1)]
           \/ session' = [session EXCEPT ![c] = Tidied(s)]
    BY <1>2 DEF RegisterReverse
  <2> QED
    BY <1>f, <2>1, <2>2, SessionMoves, ReverseMoves DEF LeavesRegistry
<1>3. CASE UnregisterReverse(c, r, h)
  <2> DEFINE severed == IF s.reverse[r] = h THEN Severed(s, r) ELSE s
             ended == IF s.reverse[r] = h /\ route.active = c
                        THEN FocusEnded(severed) ELSE severed
  <2>1. /\ session' = [session EXCEPT ![c] = Tidied(ended)]
        /\ route' = IF s.reverse[r] = h THEN Deactivated(route, c) ELSE route
    BY <1>3 DEF UnregisterReverse
  <2>2. OneFocus(Tidied(ended))
    BY <1>f, SessionMoves, ReverseMoves
  <2>3. route'.active = c => Tidied(ended) = s /\ Complete(s)
    BY <1>f, <2>1, RouteMoves, SessionMoves, ReverseMoves
  <2> HIDE DEF ended
  <2> QED
    BY <1>f, <2>1, <2>2, <2>3, RouteMoves DEF LeavesRegistry
<1>4. CASE WorkerPipeWriteFails(c)
  <2>1. /\ session' = [session EXCEPT
              ![c] = IF route.active = c THEN FocusEnded(Severed(s, "Worker"))
                                         ELSE Severed(s, "Worker")]
        /\ route' = Invalidated(route, c, route.epoch)
    BY <1>4 DEF WorkerPipeWriteFails
  <2>2. OneFocus(session'[c]) /\ \A d \in Clients \ {c} : session'[d] = session[d]
    BY <1>f, <2>1, SessionMoves, ReverseMoves DEF Routes
  <2> QED
    BY <1>f, <2>1, <2>2, RouteMoves DEF LeavesRegistry
<1> QED
  BY <1>1, <1>2, <1>3, <1>4

LEMMA ReaderLeavesRegistry ==
    ASSUME TypeOK, RegistryInv, NEW c \in Clients, NEW g \in Mains,
           \/ ActivateExplicit(c, g)
           \/ ActivateImplicit(c, g)
           \/ DeactivateRoute(c, g)
           \/ RetireRoute(c, g)
           \/ UnregisterMain(c, g)
    PROVE  LeavesRegistry(c) \/ UNCHANGED <<session, route>>
<1> DEFINE s == session[c]
           rd == reader[<<c, g>>]
<1>f. /\ session \in [Clients -> Session] /\ s \in Session
      /\ route \in RouteType /\ OneFocus(s)
      /\ route.active = c => Complete(s)
      /\ rd \in Reader
  BY RegistryFacts DEF TypeOK, Readers
<1>u. ASSUME session' = session, route' = route
      PROVE  UNCHANGED <<session, route>>
  BY <1>u
<1>1. CASE ActivateExplicit(c, g)
  <2>1. CASE RouteReady(c, g)
    <3> DEFINE t == [s EXCEPT !.focusToken = rd.token, !.inactiveToken = 0]
    <3>1. /\ session' = [session EXCEPT ![c] = t]
          /\ route' \in {Renewed(route, c), Activated(route, c)}
      BY <1>1, <2>1 DEF ActivateExplicit
    <3>2. Complete(t) /\ OneFocus(t)
      <4>1. rd.token \in Nat \ {0}
        BY <1>1, <1>f DEF ActivateExplicit, At, Reader
      <4>2. g # 0
        BY BoundsAssumption DEF Mains
      <4> QED
        BY <1>f, <2>1, <4>1, <4>2
           DEF RouteReady, Registered, Complete, OneFocus, Session
    <3> HIDE DEF t
    <3> QED
      BY <1>f, <3>1, <3>2, RouteMoves DEF LeavesRegistry
  <2>2. CASE ~ RouteReady(c, g)
    BY <1>1, <1>u, <2>2 DEF ActivateExplicit, registry
  <2> QED
    BY <2>1, <2>2
<1>2. CASE ActivateImplicit(c, g)
  <2> DEFINE ready == RouteReady(c, g) /\ s.focusToken # 0
  <2>1. CASE ready
    <3> DEFINE t == [s EXCEPT !.inactiveToken = 0]
    <3>1. /\ session' = [session EXCEPT ![c] = t]
          /\ route' = Activated(route, c)
      BY <1>2, <2>1 DEF ActivateImplicit
    <3>2. Complete(t) /\ OneFocus(t)
      <4>1. g # 0
        BY BoundsAssumption DEF Mains
      <4> QED
        BY <1>f, <2>1, <4>1
           DEF RouteReady, Registered, Complete, OneFocus, Session
    <3> HIDE DEF t
    <3> QED
      BY <1>f, <3>1, <3>2, RouteMoves DEF LeavesRegistry
  <2>2. CASE ~ ready
    BY <1>2, <1>u, <2>2 DEF ActivateImplicit, registry
  <2> QED
    BY <2>1, <2>2
<1>3. CASE DeactivateRoute(c, g)
  <2>1. \/ /\ session' = [session EXCEPT ![c] = FocusEnded(s)]
           /\ route' = Deactivated(route, c)
        \/ session' = session /\ route' = route
    BY <1>3 DEF DeactivateRoute, registry
  <2> QED
    BY <1>f, <1>u, <2>1, RouteMoves, SessionMoves DEF LeavesRegistry
<1>4. CASE RetireRoute(c, g)
  <2>1. \/ /\ session' = [session EXCEPT ![c] = IF s.focusToken # 0
                                                  THEN FocusEnded(s) ELSE s]
           /\ route' = Retired(route, c)
        \/ session' = session /\ route' = route
    BY <1>4 DEF RetireRoute, registry
  <2> QED
    BY <1>f, <1>u, <2>1, RouteMoves, SessionMoves DEF LeavesRegistry
<1>5. CASE UnregisterMain(c, g)
  <2> DEFINE ended == IF Registered(c, g) /\ route.active = c
                        THEN FocusEnded(s) ELSE s
             gone == IF Registered(c, g)
                       THEN [ended EXCEPT !.main = 0, !.focusToken = 0]
                       ELSE ended
  <2>1. /\ session' = [session EXCEPT ![c] = Tidied(gone)]
        /\ route' = IF Registered(c, g) THEN Deactivated(route, c) ELSE route
    BY <1>5 DEF UnregisterMain
  <2>2. ended \in Session
    BY <1>f, SessionOps
  <2>3. CASE Registered(c, g)
    <3> HIDE DEF ended
    <3>1. gone.focusToken = 0
      BY <2>2, <2>3 DEF Session
    <3>2. OneFocus(Tidied(gone))
      BY <3>1 DEF OneFocus, Tidied, EmptySession
    <3> HIDE DEF gone
    <3> QED
      BY <1>f, <2>1, <2>3, <3>2, RouteMoves DEF LeavesRegistry
  <2>4. CASE ~ Registered(c, g)
    <3>1. gone = s
      BY <2>4
    <3>2. OneFocus(Tidied(s)) /\ (Complete(s) => Tidied(s) = s)
      BY <1>f, SessionMoves
    <3> HIDE DEF gone
    <3> QED
      BY <1>f, <2>1, <2>4, <3>1, <3>2 DEF LeavesRegistry
  <2> QED
    BY <2>3, <2>4
<1> QED
  BY <1>1, <1>2, <1>3, <1>4, <1>5

LEMMA OthersLeaveRegistry ==
    ASSUME TypeOK, RegistryInv, NEW c \in Clients
    PROVE  /\ \A token \in 1 .. MaxTokens :
                AuxTerminal(c, token)
                  => LeavesRegistry(c) \/ UNCHANGED <<session, route>>
           /\ RunKey /\ worker.task.client = c
                => LeavesRegistry(c) \/ UNCHANGED <<session, route>>
<1> DEFINE s == session[c]
<1>f. /\ session \in [Clients -> Session] /\ s \in Session
      /\ route \in RouteType /\ OneFocus(s)
  BY RegistryFacts
<1>1. ASSUME NEW token \in 1 .. MaxTokens, AuxTerminal(c, token)
      PROVE  LeavesRegistry(c) \/ UNCHANGED <<session, route>>
  <2>1. \/ /\ session' = [session EXCEPT ![c] = FocusEnded(s)]
           /\ route' = Deactivated(route, c)
        \/ session' = session /\ route' = route
    BY <1>1 DEF AuxTerminal, registry
  <2> QED
    BY <1>f, <2>1, RouteMoves, SessionMoves DEF LeavesRegistry
<1>2. ASSUME RunKey, worker.task.client = c
      PROVE  LeavesRegistry(c) \/ UNCHANGED <<session, route>>
  <2> DEFINE e == worker.task.epoch
  <2>1. \/ /\ Matches(route, c, e)
           /\ session' = [session EXCEPT ![c] = FocusEnded(Severed(s, "Reply"))]
           /\ route' = Invalidated(route, c, e)
        \/ session' = session /\ route' = route
    BY <1>2 DEF RunKey
  <2>2. Matches(route, c, e) => e = route.epoch
    BY DEF Matches
  <2> HIDE DEF e
  <2>3. OneFocus(FocusEnded(Severed(s, "Reply")))
    BY <1>f, ReverseMoves DEF Routes
  <2> QED
    BY <1>f, <2>1, <2>2, <2>3, RouteMoves DEF LeavesRegistry
<1> QED
  BY <1>1, <1>2

(* Every step leaves the registry in order, on account of one client.      *)
LEMMA NextRegistry ==
    ASSUME TypeOK, RegistryInv, [Next]_vars
    PROVE  (\E c \in Clients : LeavesRegistry(c)) \/ UNCHANGED <<session, route>>
<1>1. CASE Environment
  <2>1. ASSUME NEW c \in Clients, NEW r \in Routes, RegisterReverse(c, r)
        PROVE  LeavesRegistry(c)
    BY <2>1, MainsExist, PipesLeaveRegistry
  <2>2. ASSUME NEW c \in Clients, NEW r \in Routes, NEW h \in 1 .. MaxReverses,
               UnregisterReverse(c, r, h)
        PROVE  LeavesRegistry(c)
    BY <2>2, MainsExist, PipesLeaveRegistry, BoundsAssumption
  <2>3. ASSUME NEW c \in Clients, WorkerPipeWriteFails(c)
        PROVE  LeavesRegistry(c)
    BY <2>3, MainsExist, PipesLeaveRegistry
  <2>4. ASSUME NEW c \in Clients, NEW g \in Mains, RegisterMain(c, g)
        PROVE  LeavesRegistry(c)
    BY <2>4, MainsExist, PipesLeaveRegistry
  <2>5. ASSUME NEW c \in Clients, NEW g \in Mains,
               FindSuperseded(c, g) \/ Disconnect(c, g)
        PROVE  LeavesRegistry(c) \/ UNCHANGED <<session, route>>
    BY <2>5, ReaderLeavesRegistry DEF FindSuperseded, Disconnect
  <2>6. ASSUME NEW c \in Clients, NEW g \in Mains, NEW f \in Frames,
               ReadFrame(c, g, f)
        PROVE  UNCHANGED <<session, route>>
    BY <2>6 DEF ReadFrame
  <2> QED
    BY <1>1, <2>1, <2>2, <2>3, <2>4, <2>5, <2>6, OthersLeaveRegistry
       DEF Environment
<1>2. ASSUME NEW c \in Clients, NEW g \in Mains, ReaderStep(c, g)
      PROVE  LeavesRegistry(c) \/ UNCHANGED <<session, route>>
  <2>1. CASE \/ ActivateExplicit(c, g) \/ ActivateImplicit(c, g)
             \/ DeactivateRoute(c, g) \/ RetireRoute(c, g) \/ RefuseHello(c, g)
    BY <2>1, ReaderLeavesRegistry DEF RefuseHello
  <2>2. CASE \/ PostSuperseded(c, g) \/ Negotiate(c, g) \/ Attribute(c, g)
             \/ Announce(c, g) \/ Gate(c, g) \/ ResolveTerminal(c, g)
             \/ Post(c, g) \/ ResolveExit(c, g) \/ PostExit(c, g)
    BY <2>2 DEF PostSuperseded, Negotiate, Attribute, Announce, Gate,
       ResolveTerminal, Post, ResolveExit, PostExit
  <2> QED
    BY <1>2, <2>1, <2>2 DEF ReaderStep
<1>3. CASE WorkerStep
  <2>1. CASE RunKey
    <3>1. worker.task.client \in Clients
      BY <2>1 DEF RunKey, Running, TypeOK, Task
    <3> QED
      BY <2>1, <3>1, OthersLeaveRegistry
  <2>2. CASE \/ Take \/ RunActivated \/ RunDeactivated \/ RunSuspended
             \/ RunHide \/ RunSnapshot \/ RunShow \/ PostWriteFailure
    BY <2>2
       DEF Take, RunActivated, RunDeactivated, RunSuspended, RunHide,
           RunSnapshot, RunShow, PostWriteFailure
  <2> QED
    BY <1>3, <2>1, <2>2 DEF WorkerStep
<1>4. CASE (\E task \in posts : PostInvalidated(task))
           \/ (\E task \in aux : PostAux(task))
  BY <1>4 DEF PostInvalidated, PostAux
<1>5. CASE UNCHANGED vars
  BY <1>5 DEF vars
<1> QED
  BY <1>1, <1>2, <1>3, <1>4, <1>5 DEF Next

LEMMA InitRegistry == Init => RegistryInv
  BY ClientsAssumption
     DEF Init, InitialRoute, EmptySession, RegistryInv, ActiveRouteComplete,
         OneFocusSession, OneFocus

LEMMA NextRegistryInv ==
    TypeOK /\ RegistryInv /\ [Next]_vars => RegistryInv'
<1> SUFFICES ASSUME TypeOK, RegistryInv, [Next]_vars PROVE RegistryInv'
  OBVIOUS
<1>1. CASE UNCHANGED <<session, route>>
  BY <1>1 DEF RegistryInv, ActiveRouteComplete, OneFocusSession, Complete,
     OneFocus
<1> QED
  BY <1>1, NextRegistry, RegistryKept

LEMMA RegistryCorrect == Spec => []RegistryInv
<1>1. Init => RegistryInv
  BY InitRegistry
<1> QED
  BY <1>1, NextRegistryInv, TypeCorrect, PTL DEF Spec

(* The active client can always be answered: its Main and both reverse     *)
(* pipes are registered, none of its routes is dirty, and its focus        *)
(* session has a token; for any number of clients and reconnections.       *)
THEOREM ActiveComplete == Spec => []ActiveRouteComplete
<1>1. RegistryInv => ActiveRouteComplete
  BY DEF RegistryInv
<1> QED
  BY <1>1, RegistryCorrect, PTL

(* A session never holds a live focus token and an ended one together.     *)
THEOREM FocusOnce == Spec => []OneFocusSession
<1>1. RegistryInv => OneFocusSession
  BY DEF RegistryInv
<1> QED
  BY <1>1, RegistryCorrect, PTL

(* Everything the pipe threads and the worker do to the route is granting  *)
(* or vacating the lease, one epoch per change.                            *)
THEOREM LeaseRefined == Spec => ImplementsLease
<1>1. Init => Lease!Init
  BY DEF Init, InitialRoute, Lease!Init
<1>2. TypeOK /\ RegistryInv /\ [Next]_vars => [Lease!Next]_Lease!lease
  <2> SUFFICES ASSUME TypeOK, RegistryInv, [Next]_vars
               PROVE  [Lease!Next]_Lease!lease
    OBVIOUS
  <2>1. ASSUME NEW c \in Clients, LeavesRegistry(c)
        PROVE  [Lease!Next]_Lease!lease
    BY <2>1 DEF LeavesRegistry, Lease!Next, Lease!Grant, Lease!Vacate,
       Lease!lease
  <2>2. CASE UNCHANGED <<session, route>>
    BY <2>2 DEF Lease!lease
  <2> QED
    BY <2>1, <2>2, NextRegistry
<1> QED
  BY <1>1, <1>2, TypeCorrect, RegistryCorrect, PTL
     DEF Spec, ImplementsLease, Lease!Spec
=============================================================================
