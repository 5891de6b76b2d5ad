-------------------------- MODULE DictionaryJournal --------------------------
(***************************************************************************)
(* What the user taught the input method: the weights, words and removals  *)
(* written to the dictionaries (msime.db, english.db) and, so that they    *)
(* outlive the next dictionary, to the journal (msime_user.db).            *)
(*                                                                         *)
(* Two threads of the server write: the worker pins and removes            *)
(* candidates, the dictionary writer ranks what was picked and learns      *)
(* entered English words.  Each file has one write lock, waited for at     *)
(* most five seconds; a transaction over two files becomes durable in one  *)
(* file after the other.  An upgrade ships new dictionaries and replays    *)
(* the journal into them.                                                  *)
(* engine/user_dictionary/user_dictionary_journal.cpp                      *)
(***************************************************************************)
EXTENDS Integers

CONSTANTS
    English,    \* words of english.db, shipped or entered by the user
    Wubi,       \* words of msime.db ranked under their wubi code
    Pinyin,     \* words of msime.db ranked under their pinyin
    Shipped,    \* the words every release ships
    MaxOps,     \* bound: operations and upgrades
    MaxFaults   \* bound: crashes and failed commits

Words == English \cup Wubi \cup Pinyin

ASSUME WordsAssumption ==
    /\ English \cap (Wubi \cup Pinyin) = {}
    /\ Wubi \cap Pinyin = {}
    /\ Shipped \subseteq Words
    /\ Wubi \cup Pinyin \subseteq Shipped

ASSUME BudgetAssumption == MaxOps \in Nat /\ MaxFaults \in Nat

Threads == {"worker", "writer"}
Files == {"journal", "main", "english"}
FileOf(w) == IF w \in English THEN "english" ELSE "main"

VARIABLES
    dict,     \* the dictionary rows
    journal,  \* user_dictionary_operations
    thread,   \* the operation each thread is in
    clock,    \* stamps handed out, one for each new weight
    logged,   \* history: the stamps the journal has ever carried
    seen,     \* words a queued job or a page may still name
    removed,  \* history: words removed and not entered again since
    overtaken,\* history: removed words whose deletion the record of an
              \* earlier entry has overwritten in the journal since
    ops,      \* operations and upgrades so far
    faults    \* crashes and failed commits so far

vars ==
    <<dict, journal, thread, clock, logged, seen, removed, overtaken, ops,
      faults>>

(* A row carries the stamp of its weight, 0 for the weight it ships with. *)
DictRow == [present : BOOLEAN, ver : Nat, by : {"release", "rank", "learn"}]
JournalRow == [op : {"none", "upsert", "delete"}, ver : Nat]

ShippedRow(w) == [present |-> w \in Shipped, ver |-> 0, by |-> "release"]
AbsentRow == [present |-> FALSE, ver |-> 0, by |-> "release"]
Present == {w \in Words : dict[w].present}

Pcs ==
    { "idle",
      "rank",        \* waits for the journal
      "ranked",      \* has the journal
      "commit",      \* English: row seen, journal row written
      "update",      \* English: journal committed, waits for english.db
      "begin",       \* has the journal, waits for msime.db
      "both",        \* has the journal and msime.db
      "commitMain",  \* journal committed, has msime.db
      "delete",      \* waits for the dictionary
      "attached",    \* has the dictionary, waits for the journal
      "deleting",    \* has both
      "second",      \* has both, one of them is durable
      "learn",       \* waits for english.db
      "record",      \* word inserted, waits for the journal
      "unlearn" }    \* not recorded, waits for english.db

IdleThread == [pc |-> "idle", words |-> {}, ver |-> 0]

-----------------------------------------------------------------------------
(* Locks and rows. *)

(* The write locks the open transactions of thread t hold. *)
Holds(t, f) ==
    CASE f = "journal" ->
           thread[t].pc \in {"ranked", "commit", "begin", "both", "deleting",
                             "second"}
      [] f = "main" ->
           \/ thread[t].pc \in {"both", "commitMain"}
           \/ /\ thread[t].pc \in {"attached", "deleting", "second"}
              /\ thread[t].words \cap English = {}
      [] f = "english" ->
           /\ thread[t].pc \in {"attached", "deleting", "second"}
           /\ thread[t].words \subseteq English

(* Faulty variant: the journal is written without its lock. *)
FreeUnlessJournal(f) == f = "journal" \/ \A t \in Threads : ~ Holds(t, f)

Free(f) == \A t \in Threads : ~ Holds(t, f)

(* The lock thread t waits for, in a set. *)
Wanted(t) ==
    CASE thread[t].pc \in {"rank", "attached", "record"} -> {"journal"}
      [] thread[t].pc = "begin" -> {"main"}
      [] thread[t].pc \in {"update", "learn", "unlearn"} -> {"english"}
      [] thread[t].pc = "delete" -> {FileOf(w) : w \in thread[t].words}
      [] OTHER -> {}

Goto(t, pc) == thread' = [thread EXCEPT ![t].pc = pc]
Leave(t) == thread' = [thread EXCEPT ![t] = IdleThread]

(* A COMMIT or a statement that fails is a fault. *)
CountFault ==
    /\ faults < MaxFaults
    /\ faults' = faults + 1

Upserted(ws, v) ==
    [w \in Words |->
       IF w \in ws THEN [op |-> "upsert", ver |-> v] ELSE journal[w]]

Deleted(ws) ==
    [w \in Words |->
       IF w \in ws THEN [op |-> "delete", ver |-> 0] ELSE journal[w]]

(* UPDATE: rows that are not there stay away. *)
Reweighted(ws, v) ==
    [w \in Words |->
       IF w \in ws /\ dict[w].present
         THEN [present |-> TRUE, ver |-> v, by |-> "rank"] ELSE dict[w]]

Without(ws) ==
    [w \in Words |-> IF w \in ws THEN AbsentRow ELSE dict[w]]

(* The words w is ranked among: a rebalance moves its neighbours with it. *)
RankedWith(w) ==
    IF w \in English THEN {{w}}
    ELSE {ws \in SUBSET (seen \cap (IF w \in Wubi THEN Wubi ELSE Pinyin)) :
            w \in ws}

(* Faulty variant: no sqlite3_changes check. *)
RowsAssumed(t) == TRUE

(* Every row to be ranked is in the dictionary.  The English and the wubi  *)
(* update look; the pinyin one does not.                                   *)
RowsExist(t) == thread[t].words \ Pinyin \subseteq Present

Init ==
    /\ dict = [w \in Words |-> ShippedRow(w)]
    /\ journal = [w \in Words |-> [op |-> "none", ver |-> 0]]
    /\ thread = [t \in Threads |-> IdleThread]
    /\ clock = 0
    /\ logged = {}
    /\ seen = Shipped
    /\ removed = {}
    /\ overtaken = {}
    /\ ops = 0
    /\ faults = 0

-----------------------------------------------------------------------------
(* Waiting and giving up. *)

Start(t, pc, ws) ==
    /\ thread[t].pc = "idle"
    /\ ops < MaxOps
    /\ ops' = ops + 1
    /\ thread' = [thread EXCEPT ![t] = [pc |-> pc, words |-> ws, ver |-> 0]]
    /\ UNCHANGED <<dict, journal, clock, logged, seen, removed, overtaken,
                   faults>>

(* A step of thread t alone. *)
Local ==
    UNCHANGED <<dict, journal, clock, logged, seen, removed, overtaken, ops,
                faults>>

(* Faulty variant: no sqlite3_busy_timeout. *)
WaitsForever(t) == FALSE

(* The lock stays taken for five seconds. *)
TimesOut(t) == \E f \in Wanted(t) : ~ Free(f)

(* SQLITE_BUSY: the operation ends and its transactions are rolled back.   *)
(* A learned word that could not be recorded is taken back; one that could *)
(* not be taken back stays.                                                *)
Busy(t) ==
    /\ TimesOut(t)
    /\ IF thread[t].pc = "record" THEN Goto(t, "unlearn") ELSE Leave(t)
    /\ Local

(* Thread t gets the lock it waited for. *)
Acquire(t, from, to) ==
    /\ thread[t].pc = from
    /\ \A f \in Wanted(t) : Free(f)
    /\ Goto(t, to)
    /\ Local

-----------------------------------------------------------------------------
(* adjust_english_candidate_ranking and adjust_candidate_ranking. *)

(* The worker pins a candidate of its page; the dictionary writer ranks a  *)
(* pick that was queued with a copy of the page it was on.                 *)
StartRank(t, w) ==
    /\ w \in IF t = "worker" THEN Present ELSE seen
    /\ \E ws \in RankedWith(w) : Start(t, "rank", ws)

BeginRank(t) == Acquire(t, "rank", "ranked")

(* The pick only counts, or is first already: nothing to rank. *)
NothingToRank(t) ==
    /\ thread[t].pc = "ranked"
    /\ Leave(t)
    /\ Local

(* English: the row must be there before its weight is journaled. *)
SeeRow(t) ==
    /\ thread[t].pc = "ranked"
    /\ thread[t].words \subseteq English
    /\ IF RowsExist(t) THEN Goto(t, "commit") ELSE Leave(t)
    /\ Local

(* The others: msime.db joins the transaction. *)
OpenMain(t) ==
    /\ thread[t].pc = "ranked"
    /\ thread[t].words \cap English = {}
    /\ Goto(t, "begin")
    /\ Local

BeginMain(t) == Acquire(t, "begin", "both")

(* update_ranked_weight of every word; a row missing ends the ranking. *)
RowMissing(t) ==
    /\ thread[t].pc = "both"
    /\ ~ RowsExist(t)
    /\ Leave(t)
    /\ Local

(* Faulty variant: the result of the journal's COMMIT is not looked at. *)
GoesOn(t) == thread' = [thread EXCEPT ![t].pc = "update", ![t].ver = clock']

(* The journal's COMMIT failed: both transactions are rolled back. *)
RollsBack(t) == Leave(t)

(* COMMIT of the journal; the dictionary's own write follows. *)
CommitJournal(t) ==
    /\ \/ thread[t].pc = "commit"
       \/ thread[t].pc = "both" /\ RowsExist(t)
    /\ clock' = clock + 1
    /\ \/ /\ journal' = Upserted(thread[t].words, clock')
          /\ logged' = logged \cup {clock'}
          /\ thread' =
               [thread EXCEPT
                  ![t].pc = IF @ = "commit" THEN "update" ELSE "commitMain",
                  ![t].ver = clock']
          /\ UNCHANGED faults
       \/ /\ CountFault
          /\ RollsBack(t)
          /\ UNCHANGED <<journal, logged>>
    /\ UNCHANGED <<dict, seen, removed, overtaken, ops>>

(* English: the UPDATE, by itself.  A row that went away is not missed. *)
UpdateEnglish(t) ==
    /\ thread[t].pc = "update"
    /\ Free("english")
    /\ \/ /\ dict' = Reweighted(thread[t].words, thread[t].ver)
          /\ UNCHANGED faults
       \/ CountFault /\ UNCHANGED dict
    /\ Leave(t)
    /\ UNCHANGED <<journal, clock, logged, seen, removed, overtaken, ops>>

(* COMMIT of msime.db: a failure leaves the journal ahead. *)
CommitMain(t) ==
    /\ thread[t].pc = "commitMain"
    /\ \/ /\ dict' = Reweighted(thread[t].words, thread[t].ver)
          /\ UNCHANGED faults
       \/ CountFault /\ UNCHANGED dict
    /\ Leave(t)
    /\ UNCHANGED <<journal, clock, logged, seen, removed, overtaken, ops>>

-----------------------------------------------------------------------------
(* delete_dictionary_candidate. *)

StartDelete(w) == w \in Present /\ Start("worker", "delete", {w})

(* BEGIN IMMEDIATE locks the dictionary, then the attached journal. *)
LockDictionary == Acquire("worker", "delete", "attached")
LockJournal == Acquire("worker", "attached", "deleting")

(* A row already gone, or a COMMIT refused before anything is durable. *)
AbandonDelete ==
    /\ thread["worker"].pc = "deleting"
    /\ \/ ~ thread["worker"].words \subseteq Present /\ UNCHANGED faults
       \/ CountFault
    /\ Leave("worker")
    /\ UNCHANGED <<dict, journal, clock, logged, seen, removed, overtaken, ops>>

(* The files of one COMMIT become durable in turn.  A file in rollback     *)
(* mode (english.db, or an msime.db that could not be switched) does when  *)
(* its own journal file goes, after msime_user.db; an msime.db in WAL mode *)
(* before it.                                                              *)
CommitFirst ==
    LET ws == thread["worker"].words
    IN
    /\ thread["worker"].pc = "deleting"
    /\ ws \subseteq Present
    /\ \/ journal' = Deleted(ws) /\ UNCHANGED dict
       \/ /\ ws \cap English = {}
          /\ dict' = Without(ws)
          /\ UNCHANGED journal
    /\ Goto("worker", "second")
    /\ UNCHANGED <<clock, logged, seen, removed, overtaken, ops, faults>>

CommitSecond ==
    LET ws == thread["worker"].words
    IN
    /\ thread["worker"].pc = "second"
    /\ dict' = Without(ws)
    /\ journal' = Deleted(ws)
    /\ removed' = removed \cup ws
    /\ overtaken' = overtaken \ ws
    /\ Leave("worker")
    /\ UNCHANGED <<clock, logged, seen, ops, faults>>

-----------------------------------------------------------------------------
(* learn_entered_english_word. *)

StartLearn(w) == w \in English /\ Start("writer", "learn", {w})

(* INSERT OR IGNORE: a word already there is learned already. *)
Insert ==
    LET ws == thread["writer"].words
    IN
    /\ thread["writer"].pc = "learn"
    /\ Free("english")
    /\ IF ws \subseteq Present
         THEN /\ Leave("writer")
              /\ UNCHANGED <<dict, clock, seen, removed, overtaken>>
         ELSE /\ clock' = clock + 1
              /\ dict' = [w \in Words |->
                            IF w \in ws
                              THEN [present |-> TRUE, ver |-> clock',
                                    by |-> "learn"]
                              ELSE dict[w]]
              /\ seen' = seen \cup ws
              /\ removed' = removed \ ws
              /\ overtaken' = overtaken \ ws
              /\ thread' = [thread EXCEPT !["writer"].pc = "record",
                                          !["writer"].ver = clock']
    /\ UNCHANGED <<journal, logged, ops, faults>>

(* record_user_insert: the upsert overwrites whatever the journal says,    *)
(* the deletion of a word removed since it was inserted too.               *)
Record ==
    /\ thread["writer"].pc = "record"
    /\ \/ /\ Free("journal")
          /\ journal' = Upserted(thread["writer"].words, thread["writer"].ver)
          /\ logged' = logged \cup {thread["writer"].ver}
          /\ overtaken' = overtaken \cup (thread["writer"].words \cap removed)
          /\ Leave("writer")
          /\ UNCHANGED faults
       \/ /\ CountFault
          /\ Goto("writer", "unlearn")
          /\ UNCHANGED <<journal, logged, overtaken>>
    /\ UNCHANGED <<dict, clock, seen, removed, ops>>

(* "Do not leave an entry that cannot survive a dictionary upgrade." *)
Unlearn ==
    /\ thread["writer"].pc = "unlearn"
    /\ Free("english")
    /\ \/ dict' = Without(thread["writer"].words) /\ UNCHANGED faults
       \/ CountFault /\ UNCHANGED dict
    /\ Leave("writer")
    /\ UNCHANGED <<journal, clock, logged, seen, removed, overtaken, ops>>

-----------------------------------------------------------------------------
(* The end of the process and the next release. *)

(* The server dies: what was not durable is rolled back, jobs and pages    *)
(* are forgotten.                                                          *)
Crash ==
    /\ CountFault
    /\ thread' = [t \in Threads |-> IdleThread]
    /\ seen' = Present
    /\ UNCHANGED <<dict, journal, clock, logged, removed, overtaken, ops>>

(* replay: what the journal makes of the row a release ships.  An upsert   *)
(* inserts the row it does not find.                                       *)
Replayed(w) ==
    CASE journal[w].op = "none"   -> ShippedRow(w)
      [] journal[w].op = "upsert" -> [present |-> TRUE, ver |-> journal[w].ver,
                                      by |-> "release"]
      [] journal[w].op = "delete" -> AbsentRow

(* With the server stopped the installer replaces the dictionaries and     *)
(* replays the journal; it goes no further until the replay succeeds.      *)
Upgrade ==
    /\ \A t \in Threads : thread[t].pc = "idle"
    /\ ops < MaxOps
    /\ ops' = ops + 1
    /\ dict' = [w \in Words |-> Replayed(w)]
    /\ seen' = {w \in Words : Replayed(w).present}
    /\ UNCHANGED <<journal, thread, clock, logged, removed, overtaken, faults>>

RankStep(t) ==
    \/ BeginRank(t)
    \/ NothingToRank(t)
    \/ SeeRow(t)
    \/ OpenMain(t)
    \/ BeginMain(t)
    \/ RowMissing(t)
    \/ CommitJournal(t)
    \/ UpdateEnglish(t)
    \/ CommitMain(t)

DeleteStep ==
    \/ LockDictionary
    \/ LockJournal
    \/ AbandonDelete
    \/ CommitFirst
    \/ CommitSecond

LearnStep == Insert \/ Record \/ Unlearn

(* What an operation under way does next. *)
ThreadStep(t) ==
    \/ Busy(t)
    \/ RankStep(t)
    \/ t = "worker" /\ DeleteStep
    \/ t = "writer" /\ LearnStep

Next ==
    \/ \E t \in Threads : ThreadStep(t)
    \/ \E t \in Threads, w \in Words : StartRank(t, w)
    \/ \E w \in Words : StartDelete(w) \/ StartLearn(w)
    \/ Crash
    \/ Upgrade

Spec == Init /\ [][Next]_vars

(* Both threads are scheduled, and a lock is not waited for for ever. *)
Fairness == \A t \in Threads : WF_vars(ThreadStep(t))

FairSpec == Spec /\ Fairness
-----------------------------------------------------------------------------
(* What should hold. *)

Thread == [pc : Pcs, words : SUBSET Words, ver : Nat]

(* Types, and the write lock of a file has one owner. *)
TypeOK ==
    /\ dict \in [Words -> DictRow]
    /\ journal \in [Words -> JournalRow]
    /\ thread \in [Threads -> Thread]
    /\ clock \in Nat
    /\ logged \subseteq 1 .. clock
    /\ seen \subseteq Words
    /\ removed \subseteq Words
    /\ overtaken \subseteq removed
    /\ ops \in Nat
    /\ faults \in Nat
    /\ \A f \in Files : \A t, u \in Threads : Holds(t, f) /\ Holds(u, f) => t = u

(* A weight a dictionary shows has been in the journal, whatever failed and *)
(* whenever the process died: it is not silently lost at the next upgrade. *)
BoostJournaled ==
    \A w \in Words : dict[w].by = "rank" => dict[w].ver \in logged

(* The words whose row and journal a transaction is half way through. *)
Committing ==
    UNION {thread[t].words :
             t \in {u \in Threads : thread[u].pc \in {"commitMain", "second"}}}

(* Two files and two threads that lock them in opposite orders: as long as *)
(* nothing fails, an upgrade leaves every wubi row as the user has it.     *)
UpgradeKeeps ==
    faults = 0 =>
      \A w \in Wubi \ Committing :
        /\ dict[w].present = Replayed(w).present
        /\ dict[w].ver = Replayed(w).ver

(* "A later deletion must win over an earlier pin when the journal is      *)
(* replayed" (test_candidate_removal.cpp): whatever was queued, failed or  *)
(* upgraded since, a word the user removed does not come back.             *)
RemovedStaysRemoved == \A w \in removed : ~ dict[w].present

(* No queued ranking, failure, crash or replay brings a removed English or *)
(* wubi word back: their updates look for the row first.  With one         *)
(* exception: learn_entered_english_word inserts the word and then records *)
(* it, and a word removed between the two comes back with the next replay. *)
CheckedStaysRemoved ==
    \A w \in removed \ Pinyin : dict[w].present => w \in overtaken

(* Every operation ends: the ranking holds the journal and waits for the   *)
(* dictionary, the removal holds the dictionary and waits for the journal. *)
OperationsEnd ==
    \A t \in Threads : (thread[t].pc # "idle") ~> (thread[t].pc = "idle")
=============================================================================
