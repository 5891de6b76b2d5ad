----------------------- MODULE DictionaryJournalProofs -----------------------
(***************************************************************************)
(* Theorems about DictionaryJournal, for any words, any number of          *)
(* operations and any number of crashes and failed commits.                *)
(***************************************************************************)
EXTENDS DictionaryJournal, TLAPS

(* The parts of TypeOK, and what the locks rest on: an operation is about  *)
(* words of one file.                                                      *)
Types ==
    /\ dict \in [Words -> DictRow]
    /\ journal \in [Words -> JournalRow]
    /\ thread \in [Threads -> Thread]
    /\ clock \in Nat
    /\ logged \subseteq 1 .. clock
    /\ seen \subseteq Words
    /\ removed \subseteq Words
    /\ overtaken \subseteq removed
    /\ ops \in Nat
    /\ faults \in Nat

Exclusive ==
    \A f \in Files : \A t, u \in Threads : Holds(t, f) /\ Holds(u, f) => t = u

(* A removal is of one word, learning of English ones, and the ranking     *)
(* that opens msime.db of others.                                          *)
Kinds ==
    \A t \in Threads :
      /\ thread[t].pc \in {"delete", "attached", "deleting", "second"}
           => \E w \in Words : thread[t].words = {w}
      /\ thread[t].pc \in {"commit", "update", "learn", "record", "unlearn"}
           => thread[t].words \subseteq English
      /\ thread[t].pc \in {"begin", "both", "commitMain"}
           => thread[t].words \cap English = {}

(* A weight on its way to a dictionary is in the journal already, the one  *)
(* of a word just inserted has been handed out.                            *)
Stamps ==
    \A t \in Threads :
      /\ thread[t].pc \in {"update", "commitMain"} => thread[t].ver \in logged
      /\ thread[t].pc = "record" => thread[t].ver \in 1 .. clock

LEMMA TypeParts == TypeOK <=> Types /\ Exclusive
BY DEF TypeOK, Types, Exclusive

LEMMA Rows ==
    ASSUME Types
    PROVE  /\ \A w \in Words : ShippedRow(w) \in DictRow /\ AbsentRow \in DictRow
           /\ IdleThread \in Thread
           /\ \A ws \in SUBSET Words, v \in Nat :
                /\ Upserted(ws, v) \in [Words -> JournalRow]
                /\ Deleted(ws) \in [Words -> JournalRow]
                /\ Reweighted(ws, v) \in [Words -> DictRow]
                /\ Without(ws) \in [Words -> DictRow]
<1>1. /\ \A w \in Words : ShippedRow(w) \in DictRow
      /\ AbsentRow \in DictRow
  BY DEF ShippedRow, AbsentRow, DictRow
<1>2. IdleThread \in Thread
  BY DEF IdleThread, Thread, Pcs
<1>3. ASSUME NEW ws \in SUBSET Words, NEW v \in Nat
      PROVE  /\ Upserted(ws, v) \in [Words -> JournalRow]
             /\ Deleted(ws) \in [Words -> JournalRow]
             /\ Reweighted(ws, v) \in [Words -> DictRow]
             /\ Without(ws) \in [Words -> DictRow]
  <2>1. Upserted(ws, v) \in [Words -> JournalRow]
    BY DEF Types, Upserted, JournalRow
  <2>2. Deleted(ws) \in [Words -> JournalRow]
    BY DEF Types, Deleted, JournalRow
  <2>3. Reweighted(ws, v) \in [Words -> DictRow]
    <3>1. [present |-> TRUE, ver |-> v, by |-> "rank"] \in DictRow
      BY DEF DictRow
    <3> QED
      BY <3>1 DEF Types, Reweighted
  <2>4. Without(ws) \in [Words -> DictRow]
    BY <1>1 DEF Types, Without
  <2> QED
    BY <2>1, <2>2, <2>3, <2>4
<1> QED
  BY <1>1, <1>2, <1>3

(* What every step does to the thread that takes it.                       *)
LEMMA GotoTypes ==
    ASSUME Types, NEW t \in Threads, NEW pc \in Pcs, Goto(t, pc)
    PROVE  thread' \in [Threads -> Thread]
BY DEF Types, Goto, Thread

LEMMA LeaveTypes ==
    ASSUME Types, NEW t \in Threads, Leave(t)
    PROVE  thread' \in [Threads -> Thread]
BY Rows DEF Types, Leave

LEMMA AcquireTypes ==
    ASSUME Types, NEW t \in Threads, NEW from, NEW to \in Pcs, Acquire(t, from, to)
    PROVE  Types'
<1>1. thread' \in [Threads -> Thread]
  BY GotoTypes DEF Acquire
<1> QED
  BY <1>1 DEF Types, Acquire, Local

LEMMA StartTypes ==
    ASSUME Types, NEW t \in Threads, NEW pc \in Pcs, NEW ws \in SUBSET Words,
           Start(t, pc, ws)
    PROVE  Types'
<1>1. thread' \in [Threads -> Thread]
  BY DEF Types, Start, Thread
<1>2. ops' \in Nat
  BY DEF Types, Start
<1> QED
  BY <1>1, <1>2 DEF Types, Start

LEMMA ThreadsAre == "worker" \in Threads /\ "writer" \in Threads
BY DEF Threads

LEMMA LocalTypes ==
    ASSUME Types, Local, thread' \in [Threads -> Thread]
    PROVE  Types'
BY DEF Types, Local

(* The two ends of CommitJournal.                                          *)
JournalRefused(t) ==
    CountFault /\ RollsBack(t) /\ UNCHANGED <<journal, logged>>

Journaled(t) ==
    /\ journal' = Upserted(thread[t].words, clock')
    /\ logged' = logged \cup {clock'}
    /\ thread' =
         [thread EXCEPT
            ![t].pc = IF @ = "commit" THEN "update" ELSE "commitMain",
            ![t].ver = clock']
    /\ faults' = faults

LEMMA JournalEnds ==
    ASSUME NEW t \in Threads, CommitJournal(t)
    PROVE  JournalRefused(t) \/ Journaled(t)
BY DEF CommitJournal, JournalRefused, Journaled

LEMMA TwoFields ==
    ASSUME NEW r \in Thread, NEW pc, NEW v
    PROVE  [r EXCEPT !.pc = pc, !.ver = v] = [pc |-> pc, words |-> r.words, ver |-> v]
<1> DEFINE y == [r EXCEPT !.pc = pc]
           z == [pc |-> pc, words |-> r.words, ver |-> r.ver]
<1>1. y = z
  BY DEF Thread
<1>2. [z EXCEPT !.ver = v] = [pc |-> pc, words |-> r.words, ver |-> v]
  OBVIOUS
<1>3. [r EXCEPT !.pc = pc, !.ver = v] = [y EXCEPT !.ver = v]
  OBVIOUS
<1> HIDE DEF y, z
<1> QED
  BY <1>1, <1>2, <1>3

LEMMA JournaledThread ==
    ASSUME Types, NEW t \in Threads, Journaled(t), clock' \in Nat
    PROVE  /\ thread' \in [Threads -> Thread]
           /\ thread'[t].words = thread[t].words /\ thread'[t].ver = clock'
           /\ thread[t].pc = "commit" => thread'[t].pc = "update"
           /\ thread[t].pc # "commit" => thread'[t].pc = "commitMain"
           /\ \A u \in Threads \ {t} : thread'[u] = thread[u]
<1> DEFINE pc == IF thread[t].pc = "commit" THEN "update" ELSE "commitMain"
           x == [pc |-> pc, words |-> thread[t].words, ver |-> clock']
<1>1. thread[t] \in Thread
  BY DEF Types
<1>2. thread' = [thread EXCEPT ![t] = x]
  <2>1. thread' = [thread EXCEPT ![t] = [thread[t] EXCEPT !.pc = pc, !.ver = clock']]
    BY DEF Journaled, Types
  <2>2. [thread[t] EXCEPT !.pc = pc, !.ver = clock'] = x
    <3> HIDE DEF pc
    <3> QED  BY <1>1, TwoFields
  <2> HIDE DEF pc, x
  <2> QED
    BY <2>1, <2>2
<1>3. x \in Thread
  BY <1>1 DEF Thread, Pcs
<1>4. thread'[t] = x /\ \A u \in Threads \ {t} : thread'[u] = thread[u]
  BY <1>2 DEF Types
<1>5. thread' \in [Threads -> Thread]
  <2> HIDE DEF x
  <2> QED  BY <1>2, <1>3 DEF Types
<1> QED
  BY <1>4, <1>5

LEMMA RankTypes ==
    ASSUME Types, NEW t \in Threads, RankStep(t)
    PROVE  Types'
<1>0. thread[t].words \in SUBSET Words /\ thread[t].ver \in Nat
  BY DEF Types, Thread
<1>1. CASE BeginRank(t) \/ BeginMain(t)
  BY <1>1, AcquireTypes DEF BeginRank, BeginMain, Pcs
<1>2. CASE NothingToRank(t) \/ RowMissing(t)
  BY <1>2, LeaveTypes, LocalTypes DEF NothingToRank, RowMissing
<1>3. CASE SeeRow(t) \/ OpenMain(t)
  <2>1. "commit" \in Pcs /\ "begin" \in Pcs
    BY DEF Pcs
  <2> QED
    BY <1>3, <2>1, GotoTypes, LeaveTypes, LocalTypes DEF SeeRow, OpenMain
<1>4. CASE CommitJournal(t)
  <2>1. clock' \in Nat /\ clock' = clock + 1
    BY <1>4 DEF Types, CommitJournal
  <2>2. clock' = clock + 1 /\ UNCHANGED <<dict, seen, removed, overtaken, ops>>
    BY <1>4 DEF CommitJournal
  <2>3. CASE JournalRefused(t)
    <3>1. thread' \in [Threads -> Thread] /\ faults' \in Nat
      BY <2>3, LeaveTypes DEF JournalRefused, RollsBack, CountFault, Types
    <3> QED
      BY <2>1, <2>2, <2>3, <3>1 DEF Types, JournalRefused
  <2>4. CASE Journaled(t)
    <3>1. thread' \in [Threads -> Thread]
      BY <2>1, <2>4, JournaledThread
    <3>2. journal' \in [Words -> JournalRow]
      BY <1>0, <2>1, <2>4, Rows DEF Journaled
    <3>3. logged' \subseteq 1 .. clock'
      BY <2>1, <2>2, <2>4 DEF Types, Journaled
    <3>4. faults' = faults
      BY <2>4 DEF Journaled
    <3> QED
      BY <2>1, <2>2, <3>1, <3>2, <3>3, <3>4 DEF Types
  <2> QED
    BY <1>4, <2>3, <2>4, JournalEnds
<1>5. CASE UpdateEnglish(t) \/ CommitMain(t)
  <2>1. dict' \in [Words -> DictRow]
    <3>1. dict' = Reweighted(thread[t].words, thread[t].ver) \/ dict' = dict
      BY <1>5 DEF UpdateEnglish, CommitMain
    <3>2. Reweighted(thread[t].words, thread[t].ver) \in [Words -> DictRow]
      BY <1>0, Rows
    <3>3. dict \in [Words -> DictRow]
      BY DEF Types
    <3> QED
      BY <3>1, <3>2, <3>3
  <2>2. thread' \in [Threads -> Thread]
    BY <1>5, LeaveTypes DEF UpdateEnglish, CommitMain
  <2>3. faults' \in Nat
    BY <1>5 DEF UpdateEnglish, CommitMain, CountFault, Types
  <2> QED
    BY <1>5, <2>1, <2>2, <2>3 DEF Types, UpdateEnglish, CommitMain
<1> QED
  BY <1>1, <1>2, <1>3, <1>4, <1>5 DEF RankStep

LEMMA DeleteTypes ==
    ASSUME Types, DeleteStep
    PROVE  Types'
<1> DEFINE ws == thread["worker"].words
<1>0. ws \in SUBSET Words /\ "worker" \in Threads
  BY ThreadsAre DEF Types, Thread
<1>1. CASE LockDictionary \/ LockJournal
  BY <1>0, <1>1, AcquireTypes DEF LockDictionary, LockJournal, Pcs
<1>2. CASE AbandonDelete
  <2>1. thread' \in [Threads -> Thread]
    BY <1>0, <1>2, LeaveTypes DEF AbandonDelete
  <2>2. faults' \in Nat
    BY <1>2 DEF AbandonDelete, CountFault, Types
  <2> QED
    BY <1>2, <2>1, <2>2 DEF Types, AbandonDelete
<1>3. CASE CommitFirst
  <2>1. thread' \in [Threads -> Thread]
    BY <1>0, <1>3, GotoTypes DEF CommitFirst, Pcs
  <2>2. dict' \in [Words -> DictRow] /\ journal' \in [Words -> JournalRow]
    BY <1>0, <1>3, Rows DEF CommitFirst, Types
  <2> QED
    BY <1>3, <2>1, <2>2 DEF Types, CommitFirst
<1>4. CASE CommitSecond
  <2>1. thread' \in [Threads -> Thread]
    BY <1>0, <1>4, LeaveTypes DEF CommitSecond
  <2>2. dict' \in [Words -> DictRow] /\ journal' \in [Words -> JournalRow]
    BY <1>0, <1>4, Rows DEF CommitSecond, Types
  <2>3. removed' \subseteq Words /\ overtaken' \subseteq removed'
    BY <1>0, <1>4 DEF CommitSecond, Types
  <2> QED
    BY <1>4, <2>1, <2>2, <2>3 DEF Types, CommitSecond
<1> QED
  BY <1>1, <1>2, <1>3, <1>4 DEF DeleteStep

LEMMA LearnTypes ==
    ASSUME Types, Stamps, LearnStep
    PROVE  Types'
<1> DEFINE ws == thread["writer"].words
           v == thread["writer"].ver
<1>0. ws \in SUBSET Words /\ v \in Nat /\ "writer" \in Threads
  BY ThreadsAre DEF Types, Thread
<1>1. CASE Insert /\ ws \subseteq Present
  <2>1. thread' \in [Threads -> Thread]
    BY <1>0, <1>1, LeaveTypes DEF Insert
  <2> QED
    BY <1>1, <2>1 DEF Types, Insert
<1>2. CASE Insert /\ ~ (ws \subseteq Present)
  <2>1. clock' = clock + 1 /\ clock' \in Nat
    BY <1>2 DEF Insert, Types
  <2>2. dict' \in [Words -> DictRow]
    <3>1. [present |-> TRUE, ver |-> clock', by |-> "learn"] \in DictRow
      BY <2>1 DEF DictRow
    <3> QED
      BY <1>2, <3>1 DEF Insert, Types
  <2>3. thread' \in [Threads -> Thread]
    BY <1>0, <1>2, <2>1 DEF Insert, Types, Thread, Pcs
  <2>4. /\ seen' \subseteq Words /\ removed' \subseteq Words
        /\ overtaken' \subseteq removed'
    BY <1>0, <1>2 DEF Insert, Types
  <2>5. logged' \subseteq 1 .. clock'
    BY <1>2, <2>1 DEF Insert, Types
  <2> QED
    BY <1>2, <2>1, <2>2, <2>3, <2>4, <2>5 DEF Types, Insert
<1>3. CASE Record
  <2>1. CASE Leave("writer") /\ logged' = logged \cup {v}
               /\ journal' = Upserted(ws, v) /\ UNCHANGED faults
               /\ overtaken' = overtaken \cup (ws \cap removed)
    <3>1. thread' \in [Threads -> Thread] /\ journal' \in [Words -> JournalRow]
      BY <1>0, <2>1, LeaveTypes, Rows
    <3>2. v \in 1 .. clock
      BY <1>0, <1>3 DEF Stamps, Record
    <3>3. logged' \subseteq 1 .. clock
      BY <2>1, <3>2 DEF Types
    <3>4. overtaken' \subseteq removed'
      BY <1>3, <2>1 DEF Types, Record
    <3> QED
      BY <1>3, <2>1, <3>1, <3>3, <3>4 DEF Types, Record
  <2>2. CASE /\ CountFault /\ Goto("writer", "unlearn")
             /\ UNCHANGED <<journal, logged, overtaken>>
    <3>1. thread' \in [Threads -> Thread]
      BY <1>0, <2>2, GotoTypes DEF Pcs
    <3>2. faults' \in Nat
      BY <2>2 DEF CountFault, Types
    <3> QED
      BY <1>3, <2>2, <3>1, <3>2 DEF Types, Record
  <2> QED
    BY <1>3, <2>1, <2>2 DEF Record
<1>4. CASE Unlearn
  <2>1. thread' \in [Threads -> Thread]
    BY <1>0, <1>4, LeaveTypes DEF Unlearn
  <2>2. dict' \in [Words -> DictRow] /\ faults' \in Nat
    BY <1>0, <1>4, Rows DEF Unlearn, CountFault, Types
  <2> QED
    BY <1>4, <2>1, <2>2 DEF Types, Unlearn
<1> QED
  BY <1>1, <1>2, <1>3, <1>4 DEF LearnStep

LEMMA CrashTypes == ASSUME Types, Crash PROVE Types'
<1>1. thread' \in [Threads -> Thread] /\ faults' \in Nat
  BY Rows DEF Crash, CountFault, Types
<1>2. seen' \subseteq Words
  BY DEF Crash, Present
<1> QED
  BY <1>1, <1>2 DEF Types, Crash

LEMMA ReplayedRow ==
    ASSUME Types, NEW w \in Words
    PROVE  /\ Replayed(w) \in DictRow
           /\ Replayed(w).by = "release"
           /\ journal[w].op = "none" => Replayed(w) = ShippedRow(w)
           /\ journal[w].op = "upsert"
                => Replayed(w).present /\ Replayed(w).ver = journal[w].ver
           /\ journal[w].op = "delete"
                => ~ Replayed(w).present /\ Replayed(w).ver = 0
<1>1. journal[w].op \in {"none", "upsert", "delete"} /\ journal[w].ver \in Nat
  BY DEF Types, JournalRow
<1> QED
  BY <1>1 DEF Replayed, ShippedRow, AbsentRow, DictRow

LEMMA UpgradeTypes == ASSUME Types, Upgrade PROVE Types'
<1>1. dict' \in [Words -> DictRow]
  BY ReplayedRow DEF Upgrade
<1>2. ops' \in Nat
  BY DEF Upgrade, Types
<1> QED
  BY <1>1, <1>2 DEF Types, Upgrade

(* An operation begins.                                                    *)
Begins ==
    \/ \E t \in Threads, w \in Words : StartRank(t, w)
    \/ \E w \in Words : StartDelete(w) \/ StartLearn(w)

Begun(t) ==
    /\ thread[t].pc = "idle"
    /\ \A u \in Threads \ {t} : thread'[u] = thread[u]
    /\ \/ thread'[t].pc = "rank"
       \/ thread'[t].pc = "delete" /\ \E w \in Words : thread'[t].words = {w}
       \/ thread'[t].pc = "learn" /\ thread'[t].words \subseteq English

LEMMA StartBegins ==
    ASSUME Types, Begins
    PROVE  /\ Types'
           /\ \E t \in Threads : Begun(t)
           /\ UNCHANGED <<dict, journal, clock, logged, seen, removed, overtaken, faults>>
<1>1. ASSUME NEW t \in Threads, NEW pc, NEW ws, Start(t, pc, ws)
      PROVE  /\ thread'[t].pc = pc /\ thread'[t].words = ws
             /\ thread[t].pc = "idle"
             /\ \A u \in Threads \ {t} : thread'[u] = thread[u]
             /\ UNCHANGED <<dict, journal, clock, logged, seen, removed, overtaken, faults>>
  BY <1>1 DEF Start, Types
<1>2. ASSUME NEW t \in Threads, NEW w \in Words, StartRank(t, w)
      PROVE  Types' /\ Begun(t)
             /\ UNCHANGED <<dict, journal, clock, logged, seen, removed, overtaken, faults>>
  <2>1. PICK ws \in RankedWith(w) : Start(t, "rank", ws)
    BY <1>2 DEF StartRank
  <2>2. ws \in SUBSET Words
    BY DEF RankedWith, Words
  <2>3. "rank" \in Pcs
    BY DEF Pcs
  <2> QED
    BY <1>1, <2>1, <2>2, <2>3, StartTypes DEF Begun
<1>3. ASSUME NEW w \in Words, StartDelete(w)
      PROVE  Types' /\ Begun("worker")
             /\ UNCHANGED <<dict, journal, clock, logged, seen, removed, overtaken, faults>>
  <2>1. Start("worker", "delete", {w}) /\ "delete" \in Pcs
    BY <1>3 DEF StartDelete, Pcs
  <2> QED
    BY <1>1, <2>1, StartTypes, ThreadsAre DEF Begun
<1>4. ASSUME NEW w \in Words, StartLearn(w)
      PROVE  Types' /\ Begun("writer")
             /\ UNCHANGED <<dict, journal, clock, logged, seen, removed, overtaken, faults>>
  <2>1. Start("writer", "learn", {w}) /\ "learn" \in Pcs /\ {w} \subseteq English
    BY <1>4 DEF StartLearn, Pcs
  <2> QED
    BY <1>1, <2>1, StartTypes, ThreadsAre DEF Begun
<1> QED
  BY <1>2, <1>3, <1>4, ThreadsAre DEF Begins

-----------------------------------------------------------------------------
(* Where an operation under way may go, and the lock it gets on the way.   *)

GoesTo(t, from, to) == thread[t].pc = from /\ thread'[t].pc = to

Moves(t) ==
    \/ GoesTo(t, "rank", "ranked") /\ Free("journal")
    \/ GoesTo(t, "ranked", "commit") /\ thread[t].words \subseteq English
    \/ GoesTo(t, "ranked", "begin") /\ thread[t].words \cap English = {}
    \/ GoesTo(t, "begin", "both") /\ Free("main")
    \/ GoesTo(t, "commit", "update")
    \/ GoesTo(t, "both", "commitMain")
    \/ /\ GoesTo(t, "delete", "attached")
       /\ \A w \in thread[t].words : Free(FileOf(w))
    \/ GoesTo(t, "attached", "deleting") /\ Free("journal")
    \/ GoesTo(t, "deleting", "second")
    \/ GoesTo(t, "learn", "record")
    \/ GoesTo(t, "record", "unlearn")

Transition(t) ==
    /\ \A u \in Threads \ {t} : thread'[u] = thread[u]
    /\ \/ thread'[t] = IdleThread
       \/ thread'[t].words = thread[t].words /\ Moves(t)

LEMMA GotoThread ==
    ASSUME Types, NEW t \in Threads, NEW pc, Goto(t, pc)
    PROVE  /\ thread'[t].pc = pc /\ thread'[t].words = thread[t].words
           /\ thread'[t].ver = thread[t].ver
           /\ \A u \in Threads \ {t} : thread'[u] = thread[u]
<1>1. thread[t] \in Thread
  BY DEF Types
<1> QED
  BY <1>1 DEF Goto, Types, Thread

LEMMA LeaveThread ==
    ASSUME Types, NEW t \in Threads, Leave(t)
    PROVE  Transition(t) /\ thread'[t] = IdleThread
BY DEF Leave, Types, Transition

LEMMA RankMoves ==
    ASSUME Types, NEW t \in Threads, RankStep(t)
    PROVE  Transition(t)
<1>1. CASE BeginRank(t)
  BY <1>1, GotoThread DEF BeginRank, Acquire, Wanted, Transition, Moves, GoesTo
<1>2. CASE BeginMain(t)
  BY <1>2, GotoThread DEF BeginMain, Acquire, Wanted, Transition, Moves, GoesTo
<1>3. CASE NothingToRank(t) \/ RowMissing(t)
  BY <1>3, LeaveThread DEF NothingToRank, RowMissing
<1>4. CASE SeeRow(t)
  <2>1. CASE RowsExist(t)
    BY <1>4, <2>1, GotoThread DEF SeeRow, Transition, Moves, GoesTo
  <2>2. CASE ~ RowsExist(t)
    BY <1>4, <2>2, LeaveThread DEF SeeRow
  <2> QED
    BY <2>1, <2>2
<1>5. CASE OpenMain(t)
  BY <1>5, GotoThread DEF OpenMain, Transition, Moves, GoesTo
<1>6. CASE CommitJournal(t)
  <2>1. clock' \in Nat /\ thread[t].pc \in {"commit", "both"}
    BY <1>6 DEF CommitJournal, Types
  <2>2. CASE Journaled(t)
    BY <2>1, <2>2, JournaledThread DEF Transition, Moves, GoesTo
  <2>3. CASE JournalRefused(t)
    BY <2>3, LeaveThread DEF JournalRefused, RollsBack
  <2> QED
    BY <1>6, <2>2, <2>3, JournalEnds
<1>7. CASE UpdateEnglish(t) \/ CommitMain(t)
  BY <1>7, LeaveThread DEF UpdateEnglish, CommitMain
<1> QED
  BY <1>1, <1>2, <1>3, <1>4, <1>5, <1>6, <1>7 DEF RankStep

LEMMA DeleteMoves ==
    ASSUME Types, DeleteStep
    PROVE  Transition("worker")
<1> USE ThreadsAre
<1>1. CASE LockDictionary
  <2>1. \A w \in thread["worker"].words : Free(FileOf(w))
    BY <1>1 DEF LockDictionary, Acquire, Wanted
  <2> QED
    BY <1>1, <2>1, GotoThread DEF LockDictionary, Acquire, Transition, Moves, GoesTo
<1>2. CASE LockJournal
  BY <1>2, GotoThread DEF LockJournal, Acquire, Wanted, Transition, Moves, GoesTo
<1>3. CASE AbandonDelete \/ CommitSecond
  BY <1>3, LeaveThread DEF AbandonDelete, CommitSecond
<1>4. CASE CommitFirst
  BY <1>4, GotoThread DEF CommitFirst, Transition, Moves, GoesTo
<1> QED
  BY <1>1, <1>2, <1>3, <1>4 DEF DeleteStep

(* The two ends of Insert.                                                 *)
LEMMA Inserted ==
    ASSUME Types, Insert, ~ (thread["writer"].words \subseteq Present)
    PROVE  /\ thread'["writer"].pc = "record"
           /\ thread'["writer"].words = thread["writer"].words
           /\ thread'["writer"].ver = clock'
           /\ \A u \in Threads \ {"writer"} : thread'[u] = thread[u]
<1>1. thread["writer"] \in Thread /\ "writer" \in Threads
  BY ThreadsAre DEF Types
<1>2. thread' = [thread EXCEPT !["writer"].pc = "record", !["writer"].ver = clock']
  BY DEF Insert
<1>3. [thread["writer"] EXCEPT !.pc = "record", !.ver = clock']
        = [pc |-> "record", words |-> thread["writer"].words, ver |-> clock']
  BY <1>1, TwoFields
<1> QED
  BY <1>1, <1>2, <1>3 DEF Types, Thread

LEMMA LearnMoves ==
    ASSUME Types, LearnStep
    PROVE  Transition("writer")
<1> USE ThreadsAre
<1>1. CASE Insert
  <2>1. CASE thread["writer"].words \subseteq Present
    BY <1>1, <2>1, LeaveThread DEF Insert
  <2>2. CASE ~ (thread["writer"].words \subseteq Present)
    BY <1>1, <2>2, Inserted DEF Insert, Transition, Moves, GoesTo
  <2> QED
    BY <2>1, <2>2
<1>2. CASE Record
  <2>1. CASE Leave("writer")
    BY <2>1, LeaveThread
  <2>2. CASE Goto("writer", "unlearn")
    BY <1>2, <2>2, GotoThread DEF Record, Transition, Moves, GoesTo
  <2> QED
    BY <1>2, <2>1, <2>2 DEF Record
<1>3. CASE Unlearn
  BY <1>3, LeaveThread DEF Unlearn
<1> QED
  BY <1>1, <1>2, <1>3 DEF LearnStep

LEMMA BusyMoves ==
    ASSUME Types, NEW t \in Threads, Busy(t)
    PROVE  Transition(t) /\ Types'
<1>1. CASE thread[t].pc = "record"
  <2>1. Goto(t, "unlearn") /\ Local /\ "unlearn" \in Pcs
    BY <1>1 DEF Busy, Pcs
  <2> QED
    BY <1>1, <2>1, GotoThread, GotoTypes, LocalTypes DEF Transition, Moves, GoesTo
<1>2. CASE thread[t].pc # "record"
  BY <1>2, LeaveThread, LeaveTypes, LocalTypes DEF Busy
<1> QED
  BY <1>1, <1>2

LEMMA StepMoves ==
    ASSUME Types, Stamps, NEW t \in Threads, ThreadStep(t)
    PROVE  Transition(t) /\ Types'
BY RankMoves, DeleteMoves, LearnMoves, BusyMoves, RankTypes, DeleteTypes,
   LearnTypes DEF ThreadStep

-----------------------------------------------------------------------------
(* One owner to a lock.                                                    *)

LEMMA OneOwner ==
    ASSUME Exclusive, NEW t \in Threads,
           \A u \in Threads \ {t} : thread'[u] = thread[u],
           \A f \in Files : Holds(t, f)' => Holds(t, f) \/ Free(f)
    PROVE  Exclusive'
<1>1. \A u \in Threads \ {t}, f \in Files : Holds(u, f)' <=> Holds(u, f)
  BY DEF Holds, Files
<1>2. ASSUME NEW f \in Files, NEW u \in Threads, NEW v \in Threads,
             Holds(u, f)', Holds(v, f)'
      PROVE  u = v
  BY <1>1, <1>2 DEF Exclusive, Free
<1> QED
  BY <1>2 DEF Exclusive

LEMMA MoveLocks ==
    ASSUME Kinds, NEW t \in Threads, thread'[t].words = thread[t].words, Moves(t),
           NEW f \in Files, Holds(t, f)'
    PROVE  Holds(t, f) \/ Free(f)
<1>1. CASE f = "journal"
  <2>1. thread'[t].pc \in {"ranked", "commit", "begin", "both", "deleting", "second"}
    BY <1>1 DEF Holds
  <2>2. \/ thread[t].pc \in {"ranked", "commit", "begin", "both", "deleting", "second"}
        \/ Free("journal")
    BY <2>1 DEF Moves, GoesTo
  <2> QED
    BY <1>1, <2>2 DEF Holds
<1>2. CASE f = "main"
  <2>1. CASE thread'[t].pc \in {"both", "commitMain"}
    <3>1. thread[t].pc = "both" \/ Free("main")
      BY <2>1 DEF Moves, GoesTo
    <3> QED
      BY <1>2, <3>1 DEF Holds
  <2>2. CASE thread'[t].pc \in {"attached", "deleting", "second"}
    <3>1. thread[t].words \cap English = {}
      BY <1>2, <2>2 DEF Holds
    <3>2. CASE thread[t].pc = "delete"
      <4>1. PICK w \in Words : thread[t].words = {w}
        BY <3>2 DEF Kinds
      <4>2. FileOf(w) = "main"
        BY <3>1, <4>1 DEF FileOf
      <4>3. \A x \in thread[t].words : Free(FileOf(x))
        BY <2>2, <3>2 DEF Moves, GoesTo
      <4>4. Free(FileOf(w))
        BY <4>1, <4>3
      <4> QED
        BY <1>2, <4>2, <4>4
    <3>3. CASE thread[t].pc # "delete"
      <4>1. thread[t].pc \in {"attached", "deleting", "second"}
        BY <2>2, <3>3 DEF Moves, GoesTo
      <4> QED
        BY <1>2, <3>1, <4>1 DEF Holds
    <3> QED
      BY <3>2, <3>3
  <2> QED
    BY <1>2, <2>1, <2>2 DEF Holds
<1>3. CASE f = "english"
  <2>1. /\ thread'[t].pc \in {"attached", "deleting", "second"}
        /\ thread[t].words \subseteq English
    BY <1>3 DEF Holds
  <2>2. CASE thread[t].pc = "delete"
    <3>1. PICK w \in Words : thread[t].words = {w}
      BY <2>2 DEF Kinds
    <3>2. FileOf(w) = "english"
      BY <2>1, <3>1 DEF FileOf
    <3>3. \A x \in thread[t].words : Free(FileOf(x))
      BY <2>1, <2>2 DEF Moves, GoesTo
    <3>4. Free(FileOf(w))
      BY <3>1, <3>3
    <3> QED
      BY <1>3, <3>2, <3>4
  <2>3. CASE thread[t].pc # "delete"
    <3>1. thread[t].pc \in {"attached", "deleting", "second"}
      BY <2>1, <2>3 DEF Moves, GoesTo
    <3> QED
      BY <1>3, <2>1, <3>1 DEF Holds
  <2> QED
    BY <2>2, <2>3
<1> QED
  BY <1>1, <1>2, <1>3 DEF Files

LEMMA TransitionKeeps ==
    ASSUME Kinds, Exclusive, NEW t \in Threads, Transition(t)
    PROVE  Kinds' /\ Exclusive'
<1>1. \A u \in Threads \ {t} : thread'[u] = thread[u]
  BY DEF Transition
<1>2. CASE thread'[t] = IdleThread
  <2>1. Kinds'
    BY <1>1, <1>2 DEF Kinds, IdleThread
  <2>2. thread'[t].pc = "idle"
    BY <1>2 DEF IdleThread
  <2>3. \A f \in Files : ~ Holds(t, f)'
    BY <2>2 DEF Holds, Files
  <2> QED
    BY <1>1, <2>1, <2>3, OneOwner
<1>3. CASE thread'[t].words = thread[t].words /\ Moves(t)
  <2>1. Kinds'
    BY <1>1, <1>3 DEF Kinds, Moves, GoesTo
  <2> QED
    BY <1>1, <1>3, <2>1, MoveLocks, OneOwner
<1> QED
  BY <1>2, <1>3 DEF Transition

LEMMA BegunKeeps ==
    ASSUME Kinds, Exclusive, NEW t \in Threads, Begun(t)
    PROVE  Kinds' /\ Exclusive'
<1>1. Kinds'
  BY DEF Kinds, Begun
<1>2. \A f \in Files : ~ Holds(t, f)'
  BY DEF Holds, Files, Begun
<1> QED
  BY <1>1, <1>2, OneOwner DEF Begun

LEMMA AllIdle ==
    ASSUME \A t \in Threads : thread'[t].pc = "idle"
    PROVE  Kinds' /\ Exclusive'
<1>1. \A t \in Threads, f \in Files : ~ Holds(t, f)'
  BY DEF Holds, Files
<1> QED
  BY <1>1 DEF Kinds, Exclusive

(* The steps of the system, as the rest of the proofs take them.           *)
LEMMA Cases ==
    ASSUME Next
    PROVE  Begins \/ (\E t \in Threads : ThreadStep(t)) \/ Crash \/ Upgrade
BY DEF Next, Begins

LEMMA TypesStep ==
    ASSUME Types, Kinds, Exclusive, Stamps, Next
    PROVE  Types' /\ Kinds' /\ Exclusive'
<1>1. CASE Begins
  BY <1>1, StartBegins, BegunKeeps
<1>2. ASSUME NEW t \in Threads, ThreadStep(t)
      PROVE  Types' /\ Kinds' /\ Exclusive'
  BY <1>2, StepMoves, TransitionKeeps
<1>3. CASE Crash
  <2>1. \A t \in Threads : thread'[t].pc = "idle"
    BY <1>3 DEF Crash, IdleThread
  <2> QED
    BY <1>3, <2>1, AllIdle, CrashTypes
<1>4. CASE Upgrade
  <2>1. \A t \in Threads : thread'[t].pc = "idle"
    BY <1>4 DEF Upgrade
  <2> QED
    BY <1>4, <2>1, AllIdle, UpgradeTypes
<1> QED
  BY <1>1, <1>2, <1>3, <1>4, Cases

-----------------------------------------------------------------------------
(* What a thread does to the rows: two writes of its own, a new word, or   *)
(* nothing.                                                                *)

Unwritten == UNCHANGED <<dict, journal, clock, logged, removed, overtaken>>

Plain(t) ==
    /\ Unwritten /\ thread[t].pc \notin {"commitMain", "second"}
    /\ faults' = faults
    /\ thread'[t].pc \notin {"update", "commitMain", "second", "record"}

LEMMA StepWrites ==
    ASSUME Types, NEW t \in Threads, ThreadStep(t)
    PROVE  \/ Plain(t)
           \/ CommitJournal(t) \/ UpdateEnglish(t) \/ CommitMain(t)
           \/ t = "worker" /\ (AbandonDelete \/ CommitFirst \/ CommitSecond)
           \/ t = "writer" /\ (Insert \/ Record \/ Unlearn)
<1>1. ASSUME Local, thread[t].pc \notin {"commitMain", "second"},
             thread'[t].pc \notin {"update", "commitMain", "second", "record"}
      PROVE  Plain(t)
  BY <1>1 DEF Local, Unwritten, Plain
<1>2. ASSUME NEW from, NEW to, Acquire(t, from, to),
             from \notin {"commitMain", "second"},
             to \notin {"update", "commitMain", "second", "record"}
      PROVE  Plain(t)
  <2>1. Local /\ thread[t].pc = from /\ thread'[t].pc = to
    BY <1>2, GotoThread DEF Acquire
  <2> QED
    BY <1>1, <1>2, <2>1
<1>3. CASE Busy(t)
  <2>1. Local /\ thread[t].pc \notin {"commitMain", "second"}
    BY <1>3 DEF Busy, TimesOut, Wanted
  <2>2. thread'[t].pc \in {"idle", "unlearn"}
    BY <1>3, GotoThread, LeaveThread DEF Busy, IdleThread
  <2> QED
    BY <1>1, <2>1, <2>2
<1>4. CASE RankStep(t)
  <2>1. CASE BeginRank(t) \/ BeginMain(t)
    BY <1>2, <2>1 DEF BeginRank, BeginMain
  <2>2. CASE NothingToRank(t) \/ RowMissing(t)
    BY <1>1, <2>2, LeaveThread DEF NothingToRank, RowMissing, IdleThread
  <2>3. CASE SeeRow(t) \/ OpenMain(t)
    <3>1. Local /\ thread[t].pc = "ranked"
      BY <2>3 DEF SeeRow, OpenMain
    <3>2. thread'[t].pc \in {"idle", "commit", "begin"}
      BY <2>3, GotoThread, LeaveThread DEF SeeRow, OpenMain, IdleThread
    <3> QED
      BY <1>1, <3>1, <3>2
  <2> QED
    BY <1>4, <2>1, <2>2, <2>3 DEF RankStep
<1>5. CASE t = "worker" /\ DeleteStep
  BY <1>2, <1>5 DEF DeleteStep, LockDictionary, LockJournal
<1>6. CASE t = "writer" /\ LearnStep
  BY <1>6 DEF LearnStep
<1> QED
  BY <1>3, <1>4, <1>5, <1>6 DEF ThreadStep

-----------------------------------------------------------------------------
(* Weights in the dictionary and in the journal.                           *)

(* The log and the clock grow.                                             *)
LEMMA LogGrows ==
    ASSUME Types, Next
    PROVE  logged \subseteq logged' /\ clock \in Nat /\ clock' \in Nat /\ clock <= clock'
<1>1. clock \in Nat
  BY DEF Types
<1>2. CASE Begins
  BY <1>1, <1>2, StartBegins
<1>3. CASE Crash \/ Upgrade
  BY <1>1, <1>3 DEF Crash, Upgrade
<1>4. ASSUME NEW t \in Threads, ThreadStep(t)
      PROVE  logged \subseteq logged' /\ clock' \in Nat /\ clock <= clock'
  <2>1. CASE Plain(t)
    BY <1>1, <2>1 DEF Plain, Unwritten
  <2>2. CASE CommitJournal(t)
    BY <1>1, <2>2 DEF CommitJournal
  <2>3. CASE UpdateEnglish(t) \/ CommitMain(t)
    BY <1>1, <2>3 DEF UpdateEnglish, CommitMain
  <2>4. CASE AbandonDelete \/ CommitFirst \/ CommitSecond
    BY <1>1, <2>4 DEF AbandonDelete, CommitFirst, CommitSecond
  <2>5. CASE Insert
    BY <1>1, <2>5 DEF Insert
  <2>6. CASE Record \/ Unlearn
    BY <1>1, <2>6 DEF Record, Unlearn
  <2> QED
    BY <1>4, <2>1, <2>2, <2>3, <2>4, <2>5, <2>6, StepWrites
<1> QED
  BY <1>1, <1>2, <1>3, <1>4, Cases

LEMMA StampsStep ==
    ASSUME Types, Stamps, Next
    PROVE  Stamps'
<1>1. logged \subseteq logged' /\ clock \in Nat /\ clock' \in Nat /\ clock <= clock'
  BY LogGrows
<1>2. ASSUME NEW t \in Threads, thread'[t] = thread[t]
      PROVE  /\ thread'[t].pc \in {"update", "commitMain"} => thread'[t].ver \in logged'
             /\ thread'[t].pc = "record" => thread'[t].ver \in 1 .. clock'
  BY <1>1, <1>2 DEF Stamps
<1>3. CASE Crash
  BY <1>3 DEF Crash, IdleThread, Stamps
<1>4. CASE Upgrade
  BY <1>2, <1>4 DEF Upgrade, Stamps
<1>5. ASSUME NEW t \in Threads, \A u \in Threads \ {t} : thread'[u] = thread[u],
             thread'[t].pc \in {"update", "commitMain"} => thread'[t].ver \in logged',
             thread'[t].pc = "record" => thread'[t].ver \in 1 .. clock'
      PROVE  Stamps'
  BY <1>2, <1>5 DEF Stamps
<1>6. CASE Begins
  <2>1. PICK t \in Threads : Begun(t)
    BY <1>6, StartBegins
  <2> QED
    BY <1>5, <2>1 DEF Begun
<1>7. ASSUME NEW t \in Threads, ThreadStep(t)
      PROVE  Stamps'
  <2>1. \A u \in Threads \ {t} : thread'[u] = thread[u]
    BY <1>7, StepMoves DEF Transition
  <2>2. CASE thread'[t].pc \notin {"update", "commitMain", "record"}
    BY <1>5, <2>1, <2>2
  <2>3. CASE CommitJournal(t) /\ thread'[t].pc \in {"update", "commitMain", "record"}
    <3>1. Journaled(t)
      <4>1. ~ JournalRefused(t)
        BY <2>3, LeaveThread DEF JournalRefused, RollsBack, IdleThread
      <4> QED
        BY <2>3, <4>1, JournalEnds
    <3>2. thread'[t].ver = clock' /\ thread'[t].pc \in {"update", "commitMain"}
      BY <1>1, <3>1, JournaledThread
    <3>3. clock' \in logged'
      BY <3>1 DEF Journaled
    <3> QED
      BY <1>5, <2>1, <3>2, <3>3
  <2>4. CASE t = "writer" /\ Insert /\ thread'[t].pc \in {"update", "commitMain", "record"}
    <3>1. ~ (thread["writer"].words \subseteq Present)
      BY <2>4, LeaveThread, ThreadsAre DEF Insert, IdleThread
    <3>2. thread'[t].pc = "record" /\ thread'[t].ver = clock'
      BY <2>4, <3>1, Inserted
    <3>3. clock' = clock + 1
      BY <2>4, <3>1 DEF Insert
    <3>4. clock' \in 1 .. clock'
      BY <1>1, <3>3
    <3> QED
      BY <1>5, <2>1, <3>2, <3>4
  <2>5. CASE \/ UpdateEnglish(t) \/ CommitMain(t)
             \/ t = "worker" /\ (AbandonDelete \/ CommitFirst \/ CommitSecond)
             \/ t = "writer" /\ (Record \/ Unlearn)
    <3>1. thread'[t].pc \in {"idle", "second", "unlearn"}
      BY <2>5, LeaveThread, GotoThread
         DEF UpdateEnglish, CommitMain, AbandonDelete, CommitFirst, CommitSecond,
             Record, Unlearn, IdleThread
    <3> QED
      BY <2>2, <3>1
  <2> QED
    BY <1>7, <2>2, <2>3, <2>4, <2>5, StepWrites DEF Plain
<1> QED
  BY <1>3, <1>4, <1>6, <1>7, Cases

LEMMA BoostStep ==
    ASSUME Types, Stamps, BoostJournaled, Next
    PROVE  BoostJournaled'
<1>1. logged \subseteq logged'
  BY LogGrows
<1>2. ASSUME \A w \in Words : \/ dict'[w] = dict[w]
                              \/ dict'[w].by # "rank"
                              \/ dict'[w].ver \in logged
      PROVE  BoostJournaled'
  BY <1>1, <1>2 DEF BoostJournaled
<1>3. CASE Begins
  BY <1>2, <1>3, StartBegins
<1>4. CASE Crash
  BY <1>2, <1>4 DEF Crash
<1>5. CASE Upgrade
  BY <1>2, <1>5, ReplayedRow DEF Upgrade
<1>6. ASSUME NEW t \in Threads, ThreadStep(t)
      PROVE  BoostJournaled'
  <2>1. CASE dict' = dict
    BY <1>2, <2>1
  <2>2. ASSUME NEW ws, dict' = Without(ws)
        PROVE  BoostJournaled'
    <3>1. AbsentRow.by = "release"
      BY DEF AbsentRow
    <3> QED
      BY <1>2, <2>2, <3>1 DEF Without
  <2>3. CASE UpdateEnglish(t) \/ CommitMain(t)
    <3>1. thread[t].ver \in logged
      BY <2>3 DEF UpdateEnglish, CommitMain, Stamps
    <3>2. dict' = Reweighted(thread[t].words, thread[t].ver) \/ dict' = dict
      BY <2>3 DEF UpdateEnglish, CommitMain
    <3>3. CASE dict' = Reweighted(thread[t].words, thread[t].ver)
      BY <1>2, <3>1, <3>3 DEF Reweighted
    <3> QED
      BY <2>1, <3>2, <3>3
  <2>4. CASE Insert
    <3>1. \A w \in Words : dict'[w] = dict[w] \/ dict'[w].by = "learn"
      BY <2>4 DEF Insert
    <3> QED
      BY <1>2, <3>1
  <2>5. CASE Plain(t) \/ CommitJournal(t) \/ AbandonDelete \/ Record
    BY <2>1, <2>5 DEF Plain, Unwritten, CommitJournal, AbandonDelete, Record
  <2>6. CASE CommitFirst \/ CommitSecond \/ Unlearn
    BY <2>1, <2>2, <2>6 DEF CommitFirst, CommitSecond, Unlearn
  <2> QED
    BY <1>6, <2>3, <2>4, <2>5, <2>6, StepWrites
<1> QED
  BY <1>3, <1>4, <1>5, <1>6, Cases

-----------------------------------------------------------------------------
(* Removed words. *)

Watched == removed \ (Pinyin \cup overtaken)

(* The journal says so too, and no ranking is about to write otherwise.    *)
Gone ==
    /\ \A w \in Watched : ~ dict[w].present /\ journal[w].op = "delete"
    /\ \A t \in Threads :
         thread[t].pc = "commit" => thread[t].words \cap Watched = {}

LEMMA GoneStep ==
    ASSUME Types, Kinds, Exclusive, Stamps, Gone, Next
    PROVE  Gone'
<1> USE WordsAssumption
<1>0. Watched \subseteq Words
  BY DEF Watched, Types
<1>1. ASSUME removed' = removed, overtaken' = overtaken,
             \A w \in Watched : ~ dict'[w].present /\ journal'[w].op = "delete",
             \A t \in Threads : \/ thread'[t] = thread[t]
                                \/ thread'[t].pc # "commit"
                                \/ thread'[t].words \cap Watched = {}
      PROVE  Gone'
  BY <1>1 DEF Gone, Watched
<1>2. CASE Begins
  <2>1. PICK t \in Threads : Begun(t)
    BY <1>2, StartBegins
  <2>2. \A u \in Threads : thread'[u] = thread[u] \/ thread'[u].pc # "commit"
    BY <2>1 DEF Begun
  <2> QED
    BY <1>1, <1>2, <2>2, StartBegins DEF Gone
<1>3. CASE Crash
  <2>1. \A u \in Threads : thread'[u].pc = "idle"
    BY <1>3 DEF Crash, IdleThread
  <2> QED
    BY <1>1, <1>3, <2>1 DEF Crash, Gone
<1>4. CASE Upgrade
  <2>1. \A w \in Watched : ~ dict'[w].present /\ journal'[w].op = "delete"
    BY <1>0, <1>4, ReplayedRow DEF Upgrade, Gone
  <2> QED
    BY <1>1, <1>4, <2>1 DEF Upgrade
<1>5. ASSUME NEW t \in Threads, ThreadStep(t)
      PROVE  Gone'
  <2>1. \A u \in Threads \ {t} : thread'[u] = thread[u]
    BY <1>5, StepMoves DEF Transition
  <2>2. ASSUME thread'[t] = IdleThread \/ thread'[t].pc \in {"second", "unlearn"}
        PROVE  thread'[t].pc # "commit"
    BY <2>2 DEF IdleThread
  <2>3. CASE Plain(t)
    <3>1. \/ thread'[t].pc # "commit"
          \/ thread'[t].words \cap Watched = {}
      <4>1. CASE SeeRow(t) /\ RowsExist(t)
        <5>1. thread'[t].words = thread[t].words
          BY <4>1, GotoThread DEF SeeRow
        <5>2. \A w \in thread[t].words \ Pinyin : dict[w].present
          BY <4>1 DEF RowsExist, Present
        <5>3. thread[t].words \cap Watched = {}
          BY <5>2 DEF Gone, Watched
        <5> QED
          BY <5>1, <5>3
      <4>2. CASE ~ (SeeRow(t) /\ RowsExist(t))
        <5>1. thread'[t].pc # "commit"
          <6>1. CASE thread'[t] = IdleThread
            BY <6>1 DEF IdleThread
          <6>2. CASE SeeRow(t)
            BY <4>2, <6>2, LeaveThread DEF SeeRow, IdleThread
          <6>3. CASE ~ SeeRow(t) /\ thread'[t].pc = "commit"
            <7>1. thread[t].pc = "ranked"
              BY <1>5, <6>3, StepMoves DEF Transition, Moves, GoesTo, IdleThread
            <7>2. NothingToRank(t) \/ OpenMain(t)
              BY <1>5, <6>3, <7>1
                 DEF ThreadStep, Busy, TimesOut, Wanted, RankStep, BeginRank,
                     BeginMain, Acquire, RowMissing, CommitJournal, UpdateEnglish,
                     CommitMain, DeleteStep, LockDictionary, LockJournal,
                     AbandonDelete, CommitFirst, CommitSecond, LearnStep, Insert,
                     Record, Unlearn
            <7>3. thread'[t].pc \in {"idle", "begin"}
              BY <7>2, LeaveThread, GotoThread DEF NothingToRank, OpenMain, IdleThread
            <7> QED
              BY <6>3, <7>3
          <6> QED
            BY <6>2, <6>3
        <5> QED
          BY <5>1
      <4> QED
        BY <4>1, <4>2
    <3> QED
      BY <1>1, <2>1, <2>3, <3>1 DEF Plain, Unwritten, Gone
  <2>4. CASE CommitJournal(t)
    <3>1. removed' = removed /\ overtaken' = overtaken /\ dict' = dict
      BY <2>4 DEF CommitJournal
    <3>2. thread'[t].pc # "commit"
      <4>1. clock' \in Nat
        BY <2>4 DEF CommitJournal, Types
      <4> QED
        BY <2>4, <4>1, JournalEnds, JournaledThread, LeaveThread
           DEF JournalRefused, RollsBack, IdleThread
    <3>3. thread[t].words \cap Watched = {}
      <4>1. CASE thread[t].pc = "commit"
        BY <4>1 DEF Gone
      <4>2. CASE thread[t].pc # "commit"
        <5>1. \A w \in thread[t].words \ Pinyin : dict[w].present
          BY <2>4, <4>2 DEF CommitJournal, RowsExist, Present
        <5> QED
          BY <5>1 DEF Gone, Watched
      <4> QED
        BY <4>1, <4>2
    <3>4. \A w \in Watched : journal'[w] = journal[w]
      <4>1. CASE JournalRefused(t)
        BY <4>1 DEF JournalRefused
      <4>2. CASE Journaled(t)
        BY <1>0, <3>3, <4>2 DEF Journaled, Upserted
      <4> QED
        BY <2>4, <4>1, <4>2, JournalEnds
    <3> QED
      BY <1>1, <2>1, <3>1, <3>2, <3>4 DEF Gone
  <2>5. CASE UpdateEnglish(t) \/ CommitMain(t)
    <3>1. removed' = removed /\ overtaken' = overtaken /\ journal' = journal
      BY <2>5 DEF UpdateEnglish, CommitMain
    <3>2. dict' = Reweighted(thread[t].words, thread[t].ver) \/ dict' = dict
      BY <2>5 DEF UpdateEnglish, CommitMain
    <3>3. \A w \in Watched : dict'[w] = dict[w]
      BY <1>0, <3>2 DEF Gone, Reweighted
    <3>4. thread'[t].pc # "commit"
      BY <2>2, <2>5, LeaveThread DEF UpdateEnglish, CommitMain
    <3> QED
      BY <1>1, <2>1, <3>1, <3>3, <3>4 DEF Gone
  <2>6. CASE t = "worker" /\ AbandonDelete
    <3>1. thread'[t].pc # "commit"
      BY <2>2, <2>6, LeaveThread DEF AbandonDelete
    <3> QED
      BY <1>1, <2>1, <2>6, <3>1 DEF AbandonDelete, Gone
  <2>7. CASE t = "worker" /\ CommitFirst
    <3>1. /\ removed' = removed /\ overtaken' = overtaken
          /\ thread'[t].pc = "second"
      BY <2>7, GotoThread DEF CommitFirst
    <3>2. \A w \in Watched : ~ dict'[w].present
      <4>1. dict' = dict \/ dict' = Without(thread["worker"].words)
        BY <2>7 DEF CommitFirst
      <4>2. ~ AbsentRow.present
        BY DEF AbsentRow
      <4> QED
        BY <1>0, <4>1, <4>2 DEF Gone, Without
    <3>3. \A w \in Watched : journal'[w].op = "delete"
      <4>1. journal' = journal \/ journal' = Deleted(thread["worker"].words)
        BY <2>7 DEF CommitFirst
      <4> QED
        BY <1>0, <4>1 DEF Gone, Deleted
    <3> QED
      BY <1>1, <2>1, <3>1, <3>2, <3>3
  <2>8. CASE t = "worker" /\ CommitSecond
    <3> DEFINE ws == thread["worker"].words
    <3>1. /\ dict' = Without(ws) /\ journal' = Deleted(ws)
          /\ removed' = removed \cup ws /\ overtaken' = overtaken \ ws
          /\ thread["worker"].pc = "second" /\ thread'["worker"].pc = "idle"
      BY <2>8, LeaveThread DEF CommitSecond, IdleThread
    <3>2. ws \subseteq Words
      BY ThreadsAre DEF Types, Thread
    <3>3. ASSUME NEW w \in Watched'
          PROVE  ~ dict'[w].present /\ journal'[w].op = "delete"
      <4>1. w \in Words /\ (w \in ws \/ w \in Watched)
        BY <1>0, <3>1, <3>2 DEF Watched
      <4>2. ~ AbsentRow.present
        BY DEF AbsentRow
      <4> QED
        BY <3>1, <4>1, <4>2 DEF Gone, Without, Deleted
    <3>4. ASSUME NEW u \in Threads, thread'[u].pc = "commit"
          PROVE  FALSE
      <4>1. u # "worker" /\ thread'[u] = thread[u]
        BY <2>1, <2>8, <3>1, <3>4
      <4>2. Holds(u, "journal") /\ Holds("worker", "journal") /\ "journal" \in Files
        BY <3>1, <3>4, <4>1 DEF Holds, Files
      <4> QED
        BY <4>1, <4>2, ThreadsAre DEF Exclusive
    <3> QED
      BY <3>3, <3>4 DEF Gone
  <2>9. CASE t = "writer" /\ Insert
    <3> DEFINE ws == thread["writer"].words
    <3>1. CASE ws \subseteq Present
      <4>1. thread'[t].pc # "commit"
        BY <2>2, <2>9, <3>1, LeaveThread DEF Insert
      <4> QED
        BY <1>1, <2>1, <2>9, <3>1, <4>1 DEF Insert, Gone
    <3>2. CASE ~ (ws \subseteq Present)
      <4>1. /\ removed' = removed \ ws /\ overtaken' = overtaken \ ws
            /\ journal' = journal
            /\ \A w \in Words \ ws : dict'[w] = dict[w]
        BY <2>9, <3>2 DEF Insert
      <4>2. Watched' = Watched \ ws
        BY <4>1 DEF Watched
      <4>3. thread'["writer"].pc = "record"
        BY <2>9, <3>2, Inserted
      <4>4. \A u \in Threads : thread'[u].pc = "commit"
                                 => thread'[u].words \cap Watched' = {}
        BY <2>1, <2>9, <4>2, <4>3 DEF Gone
      <4>5. \A w \in Watched' : ~ dict'[w].present /\ journal'[w].op = "delete"
        BY <1>0, <4>1, <4>2 DEF Gone
      <4> QED
        BY <4>4, <4>5 DEF Gone
    <3> QED
      BY <3>1, <3>2
  <2>10. CASE t = "writer" /\ Record
    <3> DEFINE ws == thread["writer"].words
    <3>1. removed' = removed /\ dict' = dict
      BY <2>10 DEF Record
    <3>2. thread'[t].pc # "commit"
      BY <2>2, <2>10, LeaveThread, GotoThread DEF Record
    <3>3. \/ /\ journal' = Upserted(ws, thread["writer"].ver)
             /\ overtaken' = overtaken \cup (ws \cap removed)
          \/ journal' = journal /\ overtaken' = overtaken
      BY <2>10 DEF Record
    <3>4. Watched' \subseteq Watched
      BY <3>1, <3>3 DEF Watched
    <3>5. \A w \in Watched' : journal'[w] = journal[w]
      BY <1>0, <3>1, <3>3, <3>4 DEF Upserted, Watched
    <3>6. \A w \in Watched' : ~ dict'[w].present /\ journal'[w].op = "delete"
      BY <3>1, <3>4, <3>5 DEF Gone
    <3>7. \A u \in Threads : thread'[u].pc = "commit"
                               => thread'[u].words \cap Watched' = {}
      BY <2>1, <3>2, <3>4 DEF Gone
    <3> QED
      BY <3>6, <3>7 DEF Gone
  <2>11. CASE t = "writer" /\ Unlearn
    <3>1. removed' = removed /\ overtaken' = overtaken /\ journal' = journal
      BY <2>11 DEF Unlearn
    <3>2. thread'[t].pc # "commit"
      BY <2>2, <2>11, LeaveThread DEF Unlearn
    <3>3. dict' = Without(thread["writer"].words) \/ dict' = dict
      BY <2>11 DEF Unlearn
    <3>4. ~ AbsentRow.present
      BY DEF AbsentRow
    <3>5. \A w \in Watched : ~ dict'[w].present
      BY <1>0, <3>3, <3>4 DEF Gone, Without
    <3> QED
      BY <1>1, <2>1, <3>1, <3>2, <3>5 DEF Gone
  <2> QED
    BY <1>5, <2>3, <2>4, <2>5, <2>6, <2>7, <2>8, <2>9, <2>10, <2>11, StepWrites
<1> QED
  BY <1>2, <1>3, <1>4, <1>5, Cases

-----------------------------------------------------------------------------
(* The wubi rows.                                                          *)

Agrees(w) ==
    /\ dict[w].present = Replayed(w).present
    /\ dict[w].ver = Replayed(w).ver

Journals(w, v) ==
    dict[w].present /\ journal[w].op = "upsert" /\ journal[w].ver = v

(* As long as nothing fails, a wubi row is as an upgrade would leave it, or *)
(* its new weight is in the journal and will be in the dictionary.         *)
Kept ==
    faults = 0 =>
      /\ \A w \in Wubi \ Committing : Agrees(w)
      /\ \A t \in Threads :
           thread[t].pc = "commitMain"
             => \A w \in thread[t].words \cap Wubi : Journals(w, thread[t].ver)

LEMMA KeptStep ==
    ASSUME Types, Kinds, Exclusive, Stamps, Kept, Next, faults' = 0
    PROVE  Kept'
<1> USE WordsAssumption
<1>0. /\ Wubi \subseteq Words /\ Wubi \cap English = {}
      /\ faults \in Nat /\ thread \in [Threads -> Thread]
  BY DEF Words, Types
<1>1. ASSUME faults = 0, NEW w \in Wubi, w \notin Committing PROVE Agrees(w)
  BY <1>1 DEF Kept
<1>2. ASSUME faults = 0, NEW t \in Threads, thread[t].pc = "commitMain",
             NEW w \in Wubi, w \in thread[t].words
      PROVE  Journals(w, thread[t].ver)
  BY <1>2 DEF Kept
(* A step that leaves the wubi rows alone, and no transaction half way.     *)
<1>3. ASSUME faults = 0,
             \A w \in Wubi : dict'[w] = dict[w] /\ journal'[w] = journal[w],
             \A u \in Threads : \/ thread'[u] = thread[u]
                                \/ /\ thread[u].pc \notin {"commitMain", "second"}
                                   /\ thread'[u].pc \notin {"commitMain", "second"}
                                \/ /\ thread[u].words \subseteq English
                                   /\ thread'[u].pc # "commitMain"
      PROVE  Kept'
  <2>1. ASSUME NEW w \in Wubi, w \in Committing PROVE w \in Committing'
    BY <1>0, <1>3, <2>1 DEF Committing
  <2>2. ASSUME NEW w \in Wubi \ Committing' PROVE Agrees(w)'
    <3>1. Agrees(w)
      BY <1>1, <1>3, <2>1, <2>2
    <3>2. dict'[w] = dict[w] /\ journal'[w] = journal[w]
      BY <1>3
    <3> QED
      BY <3>1, <3>2 DEF Agrees, Replayed, ShippedRow, AbsentRow
  <2>3. ASSUME NEW u \in Threads, thread'[u].pc = "commitMain",
               NEW w \in thread'[u].words \cap Wubi
        PROVE  Journals(w, thread[u].ver)' /\ thread'[u] = thread[u]
    <3>1. thread'[u] = thread[u]
      BY <1>3, <2>3
    <3>2. Journals(w, thread[u].ver)
      BY <1>2, <1>3, <2>3, <3>1
    <3>3. dict'[w] = dict[w] /\ journal'[w] = journal[w]
      BY <1>3
    <3> QED
      BY <3>1, <3>2, <3>3 DEF Journals
  <2> QED
    BY <2>2, <2>3 DEF Kept
<1>4. ASSUME NEW t \in Threads, Holds(t, "main"),
             NEW u \in Threads, thread[u].pc = "commitMain"
      PROVE  u = t
  BY <1>4 DEF Exclusive, Holds, Files
<1>5. CASE Begins
  <2>1. PICK t \in Threads : Begun(t)
    BY <1>5, StartBegins
  <2>2. \A u \in Threads : \/ thread'[u] = thread[u]
                           \/ /\ thread[u].pc \notin {"commitMain", "second"}
                              /\ thread'[u].pc \notin {"commitMain", "second"}
    BY <2>1 DEF Begun
  <2>3. UNCHANGED <<dict, journal, faults>>
    BY <1>5, StartBegins
  <2> QED
    BY <1>3, <2>2, <2>3
<1>6. CASE Crash
  BY <1>0, <1>6 DEF Crash, CountFault
<1>7. CASE Upgrade
  <2>1. \A u \in Threads : thread'[u].pc = "idle"
    BY <1>7 DEF Upgrade
  <2>2. \A w \in Wubi : Agrees(w)'
    BY <1>0, <1>7 DEF Upgrade, Agrees, Replayed, ShippedRow, AbsentRow
  <2> QED
    BY <2>1, <2>2 DEF Kept
<1>8. ASSUME NEW t \in Threads, ThreadStep(t)
      PROVE  Kept'
  <2>1. \A u \in Threads \ {t} : thread'[u] = thread[u]
    BY <1>8, StepMoves DEF Transition
  <2>2. ~ CountFault
    BY <1>0 DEF CountFault
  <2>3. CASE Plain(t)
    <3>1. thread'[t].pc \notin {"commitMain", "second"}
      BY <2>3 DEF Plain
    <3> QED
      BY <1>3, <2>1, <2>3, <3>1 DEF Plain, Unwritten
  <2>4. CASE CommitJournal(t)
    <3>1. Journaled(t) /\ faults = 0
      BY <2>2, <2>4, JournalEnds DEF JournalRefused, Journaled
    <3>2. /\ clock' \in Nat /\ dict' = dict
          /\ journal' = Upserted(thread[t].words, clock')
      BY <2>4, <3>1 DEF CommitJournal, Journaled, Types
    <3>3. CASE thread[t].pc = "commit"
      <4>1. thread[t].words \subseteq English
        BY <3>3 DEF Kinds
      <4>2. \A w \in Wubi : journal'[w] = journal[w]
        BY <1>0, <3>2, <4>1 DEF Upserted
      <4>3. thread'[t].pc = "update"
        BY <3>1, <3>2, <3>3, JournaledThread
      <4> QED
        BY <1>3, <2>1, <3>1, <3>2, <3>3, <4>2, <4>3
    <3>4. CASE thread[t].pc = "both" /\ RowsExist(t)
      <4>1. /\ thread'[t].pc = "commitMain" /\ thread'[t].ver = clock'
            /\ thread'[t].words = thread[t].words
        BY <3>1, <3>2, <3>4, JournaledThread
      <4>2. ASSUME NEW w \in Wubi \ Committing' PROVE Agrees(w)'
        <5>1. w \notin thread[t].words
          BY <4>1, <4>2 DEF Committing
        <5>2. w \notin Committing
          BY <2>1, <3>4, <4>2 DEF Committing
        <5>3. journal'[w] = journal[w] /\ Agrees(w)
          BY <1>0, <1>1, <3>1, <3>2, <5>1, <5>2 DEF Upserted
        <5> QED
          BY <3>2, <5>3 DEF Agrees, Replayed, ShippedRow, AbsentRow
      <4>3. ASSUME NEW u \in Threads, thread'[u].pc = "commitMain",
                   NEW w \in thread'[u].words \cap Wubi
            PROVE  Journals(w, thread[u].ver)'
        <5>1. u = t
          BY <1>4, <2>1, <3>4, <4>3 DEF Holds
        <5>2. w \in thread[t].words /\ thread'[u].ver = clock' /\ w \in Words
          BY <1>0, <4>1, <4>3, <5>1
        <5>3. dict[w].present
          BY <3>4, <4>3, <5>2 DEF RowsExist, Present
        <5>4. journal'[w] = [op |-> "upsert", ver |-> clock']
          BY <3>2, <5>2 DEF Upserted
        <5> QED
          BY <3>2, <5>2, <5>3, <5>4 DEF Journals
      <4> QED
        BY <4>2, <4>3 DEF Kept
    <3> QED
      BY <2>4, <3>3, <3>4 DEF CommitJournal
  <2>5. CASE UpdateEnglish(t)
    <3>1. /\ dict' = Reweighted(thread[t].words, thread[t].ver)
          /\ faults = 0 /\ journal' = journal
          /\ thread[t].pc = "update" /\ thread'[t].pc = "idle"
      BY <2>2, <2>5, LeaveThread DEF UpdateEnglish, IdleThread
    <3>2. thread[t].words \subseteq English
      BY <3>1 DEF Kinds
    <3>3. \A w \in Wubi : dict'[w] = dict[w]
      BY <1>0, <3>1, <3>2 DEF Reweighted
    <3> QED
      BY <1>3, <2>1, <3>1, <3>3
  <2>6. CASE CommitMain(t)
    <3>1. /\ dict' = Reweighted(thread[t].words, thread[t].ver)
          /\ faults = 0 /\ journal' = journal
          /\ thread[t].pc = "commitMain" /\ thread'[t].pc = "idle"
      BY <2>2, <2>6, LeaveThread DEF CommitMain, IdleThread
    <3>2. ASSUME NEW u \in Threads PROVE thread'[u].pc # "commitMain"
      BY <1>4, <2>1, <3>1 DEF Holds
    <3>3. ASSUME NEW w \in Wubi \ Committing' PROVE Agrees(w)'
      <4>1. CASE w \in thread[t].words
        <5>1. Journals(w, thread[t].ver)
          BY <1>2, <3>1, <4>1
        <5>2. dict'[w] = [present |-> TRUE, ver |-> thread[t].ver, by |-> "rank"]
          BY <1>0, <3>1, <4>1, <5>1 DEF Reweighted, Journals
        <5>3. journal'[w].op = "upsert" /\ journal'[w].ver = thread[t].ver
          BY <3>1, <5>1 DEF Journals
        <5>4. Replayed(w)' = [present |-> TRUE, ver |-> thread[t].ver, by |-> "release"]
          BY <5>3 DEF Replayed
        <5> QED
          BY <5>2, <5>4 DEF Agrees
      <4>2. CASE w \notin thread[t].words
        <5>1. w \notin Committing
          BY <2>1, <3>3, <4>2 DEF Committing
        <5>2. Agrees(w)
          BY <1>1, <3>1, <5>1
        <5>3. dict'[w] = dict[w] /\ journal'[w] = journal[w]
          BY <1>0, <3>1, <4>2 DEF Reweighted
        <5> QED
          BY <5>2, <5>3 DEF Agrees, Replayed, ShippedRow, AbsentRow
      <4> QED
        BY <4>1, <4>2
    <3> QED
      BY <3>2, <3>3 DEF Kept
  <2>7. CASE t = "worker" /\ AbandonDelete
    <3>1. /\ UNCHANGED <<dict, journal>> /\ faults = 0
          /\ thread[t].pc = "deleting" /\ thread'[t].pc = "idle"
      BY <2>2, <2>7, LeaveThread DEF AbandonDelete, IdleThread
    <3> QED
      BY <1>3, <2>1, <3>1
  <2>8. CASE t = "worker" /\ CommitFirst
    <3>1. /\ faults = 0 /\ thread[t].pc = "deleting"
          /\ thread'[t].pc = "second" /\ thread'[t].words = thread[t].words
          /\ dict' = dict \/ dict' = Without(thread[t].words)
          /\ journal' = journal \/ journal' = Deleted(thread[t].words)
      BY <2>8, GotoThread DEF CommitFirst
    <3>2. \A w \in Wubi : w \notin thread[t].words
                            => dict'[w] = dict[w] /\ journal'[w] = journal[w]
      BY <1>0, <3>1 DEF Without, Deleted
    <3>3. PICK x \in Words : thread[t].words = {x}
      BY <3>1 DEF Kinds
    <3>4. CASE x \in English
      <4>1. \A w \in Wubi : dict'[w] = dict[w] /\ journal'[w] = journal[w]
        BY <1>0, <3>2, <3>3, <3>4
      <4>2. thread[t].words \subseteq English
        BY <3>3, <3>4
      <4> QED
        BY <1>3, <2>1, <3>1, <4>1, <4>2
    <3>5. CASE x \notin English
      <4>1. ASSUME NEW u \in Threads PROVE thread'[u].pc # "commitMain"
        BY <1>4, <2>1, <3>1, <3>3, <3>5 DEF Holds
      <4>2. ASSUME NEW w \in Wubi \ Committing' PROVE Agrees(w)'
        <5>1. w \notin thread[t].words
          BY <3>1, <4>2 DEF Committing
        <5>2. w \notin Committing
          BY <2>1, <4>2, <5>1 DEF Committing
        <5>3. Agrees(w)
          BY <1>1, <3>1, <5>2
        <5> QED
          BY <3>2, <5>1, <5>3 DEF Agrees, Replayed, ShippedRow, AbsentRow
      <4> QED
        BY <4>1, <4>2 DEF Kept
    <3> QED
      BY <3>4, <3>5
  <2>9. CASE t = "worker" /\ CommitSecond
    <3>1. /\ faults = 0 /\ thread[t].pc = "second" /\ thread'[t].pc = "idle"
          /\ dict' = Without(thread[t].words)
          /\ journal' = Deleted(thread[t].words)
      BY <2>9, LeaveThread DEF CommitSecond, IdleThread
    <3>2. \A w \in Wubi : w \notin thread[t].words
                            => dict'[w] = dict[w] /\ journal'[w] = journal[w]
      BY <1>0, <3>1 DEF Without, Deleted
    <3>3. PICK x \in Words : thread[t].words = {x}
      BY <3>1 DEF Kinds
    <3>4. CASE x \in English
      <4>1. \A w \in Wubi : dict'[w] = dict[w] /\ journal'[w] = journal[w]
        BY <1>0, <3>2, <3>3, <3>4
      <4>2. thread[t].words \subseteq English
        BY <3>3, <3>4
      <4> QED
        BY <1>3, <2>1, <3>1, <4>1, <4>2
    <3>5. CASE x \notin English
      <4>1. ASSUME NEW u \in Threads PROVE thread'[u].pc # "commitMain"
        BY <1>4, <2>1, <3>1, <3>3, <3>5 DEF Holds
      <4>2. ASSUME NEW w \in Wubi \ Committing' PROVE Agrees(w)'
        <5>1. CASE w \in thread[t].words
          <6>1. dict'[w] = AbsentRow /\ journal'[w] = [op |-> "delete", ver |-> 0]
            BY <1>0, <3>1, <5>1 DEF Without, Deleted
          <6>2. Replayed(w)' = AbsentRow
            <7>1. journal'[w].op = "delete"
              BY <6>1
            <7> QED
              BY <7>1 DEF Replayed
          <6> QED
            BY <6>1, <6>2 DEF Agrees
        <5>2. CASE w \notin thread[t].words
          <6>1. w \notin Committing
            BY <2>1, <4>2, <5>2 DEF Committing
          <6>2. Agrees(w)
            BY <1>1, <3>1, <6>1
          <6> QED
            BY <3>2, <5>2, <6>2 DEF Agrees, Replayed, ShippedRow, AbsentRow
        <5> QED
          BY <5>1, <5>2
      <4> QED
        BY <4>1, <4>2 DEF Kept
    <3> QED
      BY <3>4, <3>5
  <2>10. CASE t = "writer" /\ (Insert \/ Record \/ Unlearn)
    <3> DEFINE ws == thread["writer"].words
    <3>1. ws \subseteq English /\ thread[t].pc \notin {"commitMain", "second"}
      BY <2>10, ThreadsAre DEF Kinds, Insert, Record, Unlearn
    <3>2. thread'[t].pc \in {"idle", "record", "unlearn"}
      BY <2>10, LeaveThread, GotoThread, Inserted DEF Insert, Record, Unlearn, IdleThread
    <3>3. faults = 0 /\ \A w \in Wubi : dict'[w] = dict[w] /\ journal'[w] = journal[w]
      <4>1. CASE Insert
        <5>1. journal' = journal /\ faults' = faults
          BY <4>1 DEF Insert
        <5>2. \A w \in Wubi : dict'[w] = dict[w]
          BY <1>0, <3>1, <4>1 DEF Insert
        <5> QED
          BY <5>1, <5>2
      <4>2. CASE Record
        <5>1. /\ journal' = Upserted(ws, thread["writer"].ver)
              /\ faults' = faults /\ dict' = dict
          BY <2>2, <4>2 DEF Record
        <5> QED
          BY <1>0, <3>1, <5>1 DEF Upserted
      <4>3. CASE Unlearn
        <5>1. dict' = Without(ws) /\ faults' = faults /\ journal' = journal
          BY <2>2, <4>3 DEF Unlearn
        <5> QED
          BY <1>0, <3>1, <5>1 DEF Without
      <4> QED
        BY <2>10, <4>1, <4>2, <4>3
    <3> QED
      BY <1>3, <2>1, <3>1, <3>2, <3>3
  <2> QED
    BY <1>8, <2>3, <2>4, <2>5, <2>6, <2>7, <2>8, <2>9, <2>10, StepWrites
<1> QED
  BY <1>5, <1>6, <1>7, <1>8, Cases

-----------------------------------------------------------------------------
(* The inductive invariant.                                                *)
IInv ==
    Types /\ Kinds /\ Exclusive /\ Stamps /\ BoostJournaled /\ Gone /\ Kept

LEMMA InitIInv == Init => IInv
<1> SUFFICES ASSUME Init PROVE IInv
  OBVIOUS
<1>1. \A t \in Threads : thread[t] = IdleThread /\ thread[t].pc = "idle"
  BY DEF Init, IdleThread
<1>2. Types
  <2>1. \A w \in Words : ShippedRow(w) \in DictRow
    BY DEF ShippedRow, DictRow
  <2>2. dict \in [Words -> DictRow]
    BY <2>1 DEF Init
  <2>3. journal \in [Words -> JournalRow]
    BY DEF Init, JournalRow
  <2>4. IdleThread \in Thread
    BY DEF IdleThread, Thread, Pcs
  <2>5. thread \in [Threads -> Thread]
    BY <2>4 DEF Init
  <2> QED
    BY <2>2, <2>3, <2>5, WordsAssumption DEF Types, Init
<1>3. Kinds /\ Stamps
  BY <1>1 DEF Kinds, Stamps
<1>4. Exclusive
  <2>1. \A t \in Threads, f \in Files : ~ Holds(t, f)
    BY <1>1 DEF Holds, Files
  <2> QED
    BY <2>1 DEF Exclusive
<1>5. BoostJournaled
  BY DEF BoostJournaled, Init, ShippedRow
<1>6. Gone
  BY <1>1 DEF Gone, Watched, Init
<1>7. Kept
  <2>1. \A w \in Words : journal[w].op = "none" /\ dict[w] = ShippedRow(w)
    BY DEF Init
  <2>2. \A w \in Wubi : Agrees(w)
    BY <1>2, <2>1, ReplayedRow DEF Agrees, Words
  <2> QED
    BY <1>1, <2>2 DEF Kept
<1> QED
  BY <1>2, <1>3, <1>4, <1>5, <1>6, <1>7 DEF IInv

LEMMA NextIInv == IInv /\ [Next]_vars => IInv'
<1> SUFFICES ASSUME IInv, [Next]_vars PROVE IInv'
  OBVIOUS
<1>1. Types /\ Kinds /\ Exclusive /\ Stamps /\ BoostJournaled /\ Gone /\ Kept
  BY DEF IInv
<1>2. CASE Next
  <2>1. Types' /\ Kinds' /\ Exclusive' /\ Stamps' /\ BoostJournaled' /\ Gone'
    BY <1>1, <1>2, TypesStep, StampsStep, BoostStep, GoneStep
  <2>2. Kept'
    <3>1. CASE faults' = 0
      BY <1>1, <1>2, <3>1, KeptStep
    <3>2. CASE faults' # 0
      BY <3>2 DEF Kept
    <3> QED
      BY <3>1, <3>2
  <2> QED
    BY <2>1, <2>2 DEF IInv
<1>3. CASE UNCHANGED vars
  <2>1. Types'
    BY <1>1, <1>3 DEF Types, vars
  <2>2. Kinds' /\ Stamps' /\ BoostJournaled' /\ Gone'
    BY <1>1, <1>3 DEF Kinds, Stamps, BoostJournaled, Gone, Watched, vars
  <2>3. Exclusive'
    <3>1. thread' = thread
      BY <1>3 DEF vars
    <3>2. \A t \in Threads, f \in Files : Holds(t, f)' <=> Holds(t, f)
      BY <3>1 DEF Holds, Files
    <3> QED
      BY <1>1, <3>2 DEF Exclusive
  <2>4. Kept'
    <3>1. dict' = dict /\ journal' = journal /\ thread' = thread /\ faults' = faults
      BY <1>3 DEF vars
    <3>2. Committing' = Committing
      BY <3>1 DEF Committing
    <3>3. \A w \in Words : Replayed(w)' = Replayed(w)
      BY <3>1 DEF Replayed, ShippedRow, AbsentRow
    <3>4. \A w \in Wubi : Agrees(w)' <=> Agrees(w)
      BY <3>1, <3>3 DEF Agrees, Words
    <3> QED
      BY <1>1, <3>1, <3>2, <3>4 DEF Kept, Journals
  <2> QED
    BY <2>1, <2>2, <2>3, <2>4 DEF IInv
<1> QED
  BY <1>2, <1>3

THEOREM Invariance == Spec => []IInv
BY InitIInv, NextIInv, PTL DEF Spec

(* Types; and although the ranking locks the journal before msime.db and    *)
(* the removal msime.db before the journal, no file has two writers.        *)
THEOREM TypeCorrect == Spec => []TypeOK
<1>1. IInv => TypeOK
  BY TypeParts DEF IInv
<1> QED
  BY <1>1, Invariance, PTL

(* adjust_candidate_ranking never shows a weight that the next upgrade      *)
(* would forget: after any crash, failed COMMIT or timeout, every weight    *)
(* ranked into a dictionary has been in the journal.                        *)
THEOREM BoostsAreJournaled == Spec => []BoostJournaled
<1>1. IInv => BoostJournaled
  BY DEF IInv
<1> QED
  BY <1>1, Invariance, PTL

(* delete_dictionary_candidate is final for the words whose update looks    *)
(* at sqlite3_changes, whatever was queued before it, failed or was         *)
(* replayed, unless record_user_insert of an entry made before the removal  *)
(* comes after it: only such a word (overtaken) can be back.                *)
THEOREM CheckedRemovalsAreFinal == Spec => []CheckedStaysRemoved
<1>1. IInv => CheckedStaysRemoved
  BY DEF IInv, Gone, Watched, CheckedStaysRemoved
<1> QED
  BY <1>1, Invariance, PTL

(* Replaying the journal into a fresh dictionary restores every wubi row as *)
(* the user has it, as long as no commit has failed and nothing crashed.    *)
THEOREM UpgradesKeep == Spec => []UpgradeKeeps
<1>1. IInv => UpgradeKeeps
  BY DEF IInv, Kept, Agrees, UpgradeKeeps
<1> QED
  BY <1>1, Invariance, PTL
==============================================================================
