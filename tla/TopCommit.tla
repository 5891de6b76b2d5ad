----------------------------- MODULE TopCommit -----------------------------
(***************************************************************************)
(* Wubi codes that commit themselves.  The server commits a code the user  *)
(* has typed to its end and pushes the word to the client over the worker  *)
(* pipe, while the user types on: the client cuts the code off its own     *)
(* buffer and keeps the rest.  Ending the old composition makes the client *)
(* send a HideCandidateWnd, on which the server would clear the letters it *)
(* already holds for the next word; it counts its pushes so as not to.     *)
(*                                                                         *)
(* One activation of one client, whose user types letters only; mixed      *)
(* input is on and the preedit is the raw spelling, so that no key waits   *)
(* for a reply.  A letter is its number in the order of typing; what word  *)
(* a code commits is left out.                                             *)
(***************************************************************************)
EXTENDS Naturals, Sequences, FiniteSets

CONSTANTS
    CodeLength,    \* kWubiCompleteCodeLength
    MaxLetters     \* bound: letters the user types

ASSUME CodeAssumption == CodeLength \in Nat \ {0, 1}
ASSUME LettersAssumption == MaxLetters \in Nat

VARIABLES
    typed,      \* letters typed so far
    toServer,   \* Main pipe and worker queue: letters, and Hide
    comp,       \* server: the composition of the engine session
    pending,    \* server: g_topCommitPendingHides
    fresh,      \* server: the last push is at most kTopCommitHideSuppressMs old
    pushes,     \* worker pipe: CommitCandidateAndContinue frames on their way
    posted,     \* client: deliveries posted to the TSF thread, each with the
                \*   composition epoch it was stamped with
    lane,       \* client: edit sessions requested; the host grants them in order
    buffer,     \* client: the keystroke buffer; there is a composition iff
                \*   it is not empty
    epoch,      \* client: _compositionEpoch
    dropped,    \* history: deliveries that brought no hide
    late        \* history: hides handled after the limit, letters in hand

server == <<comp, pending, fresh>>
client == <<posted, lane, buffer, epoch>>
vars == <<typed, toServer, pushes, server, client, dropped, late>>

Hide == 0
Letters == 1..MaxLetters

LetterSession(l) == [kind |-> "letter", arg |-> l]
CommitSession(e) == [kind |-> "commit", arg |-> e]
CommitSessions == [kind : {"commit"}, arg : Nat]
Sessions == [kind : {"letter"}, arg : Letters] \cup CommitSessions

Composing == buffer # <<>>

Init ==
    /\ typed = 0
    /\ toServer = <<>>
    /\ comp = <<>>
    /\ pending = 0
    /\ fresh = FALSE
    /\ pushes = 0
    /\ posted = <<>>
    /\ lane = <<>>
    /\ buffer = <<>>
    /\ epoch = 1
    /\ dropped = 0
    /\ late = 0

-----------------------------------------------------------------------------
(* The client: the TSF thread of the application, and its IPC worker.      *)

(* OnKeyDown: the key is written to the Main pipe and its edit session     *)
(* requested; no epoch is asked of that session.                           *)
TypeLetter ==
    /\ typed < MaxLetters
    /\ typed' = typed + 1
    /\ toServer' = Append(toServer, typed + 1)
    /\ lane' = Append(lane, LetterSession(typed + 1))
    /\ UNCHANGED <<pushes, server, posted, buffer, epoch, dropped, late>>

(* _HandleCompositionInput: the first letter starts a composition, which   *)
(* takes a new epoch.                                                      *)
GrantLetter ==
    /\ lane # <<>>
    /\ Head(lane).kind = "letter"
    /\ lane' = Tail(lane)
    /\ buffer' = Append(buffer, Head(lane).arg)
    /\ epoch' = IF Composing THEN epoch ELSE epoch + 1
    /\ UNCHANGED <<typed, toServer, pushes, server, posted, dropped, late>>

(* The IPC worker stamps the delivery with the epoch of this moment.       *)
PostServerTextDelivery ==
    /\ pushes > 0
    /\ pushes' = pushes - 1
    /\ posted' = Append(posted, epoch)
    /\ UNCHANGED <<typed, toServer, server, lane, buffer, epoch, dropped, late>>

(* WM_CommitCandidateAndContinue: a delivery of another composition is     *)
(* dropped, any other asks for an edit session.                            *)
OnCommitMessage ==
    /\ posted # <<>>
    /\ posted' = Tail(posted)
    /\ \/ /\ Head(posted) = epoch
          /\ lane' = Append(lane, CommitSession(epoch))
          /\ UNCHANGED dropped
       \/ /\ Head(posted) # epoch
          /\ dropped' = dropped + 1
          /\ UNCHANGED lane
    /\ UNCHANGED <<typed, toServer, pushes, server, buffer, epoch, late>>

(* The letters past the code; the code is cut to what this process holds.  *)
Remainder ==
    IF Len(buffer) <= CodeLength
    THEN <<>>
    ELSE SubSeq(buffer, CodeLength + 1, Len(buffer))

(* Faulty variant: the remainder is replayed as if it had been typed.      *)
RemainderResent ==
    /\ buffer' = Remainder
    /\ epoch' = epoch + (IF Remainder = <<>> THEN 1 ELSE 2)
    /\ toServer' = Append(toServer, Hide) \o Remainder

(* _HandleCommitCandidateAndContinue in a composition: ending it hides the *)
(* candidates once and takes an epoch, restarting it with the remainder    *)
(* takes another; the replay of the remainder sends no key.                *)
HandleCommitCandidateAndContinue ==
    /\ buffer' = Remainder
    /\ epoch' = epoch + (IF Remainder = <<>> THEN 1 ELSE 2)
    /\ toServer' = Append(toServer, Hide)

(* The edit session asks for the epoch again.  Outside a composition the   *)
(* word is written as it is, and nothing is hidden.                        *)
GrantCommit ==
    /\ lane # <<>>
    /\ Head(lane).kind = "commit"
    /\ lane' = Tail(lane)
    /\ IF Head(lane).arg = epoch /\ Composing
       THEN HandleCommitCandidateAndContinue /\ UNCHANGED dropped
       ELSE dropped' = dropped + 1 /\ UNCHANGED <<toServer, buffer, epoch>>
    /\ UNCHANGED <<typed, pushes, server, posted, late>>

-----------------------------------------------------------------------------
(* The server: its worker thread, which runs the tasks of the queue.       *)

(* Faulty variant: the account is a mark, set again by a second push.      *)
PushMarked ==
    /\ pushes' = pushes + 1
    /\ pending' = 1
    /\ fresh' = TRUE

(* A push went out; the pushes of one activation add up.                   *)
NoteTopCommitPushed ==
    /\ pushes' = pushes + 1
    /\ pending' = pending + 1
    /\ fresh' = TRUE

(* Faulty variant: a hide falls through to the keys.                       *)
TakesAnyTask ==
    /\ toServer # <<>>
    /\ toServer' = Tail(toServer)
    /\ UNCHANGED <<typed, client, dropped, late>>

TakesLetter ==
    /\ toServer # <<>>
    /\ Head(toServer) # Hide
    /\ toServer' = Tail(toServer)
    /\ UNCHANGED <<typed, client, dropped, late>>

(* A letter that commits nothing: the code is not complete, or has several *)
(* candidates, or is none the table answers and goes on as a spelling.     *)
PlainLetter ==
    /\ TakesLetter
    /\ comp' = Append(comp, Head(toServer))
    /\ UNCHANGED <<pending, fresh, pushes>>

(* The last letter of a code with one candidate commits it.                *)
AutoCommit ==
    /\ TakesLetter
    /\ Len(comp) = CodeLength - 1
    /\ comp' = <<>>
    /\ NoteTopCommitPushed

(* A letter behind a complete code commits the code's first candidate and  *)
(* begins the next composition.                                            *)
TopCommit ==
    /\ TakesLetter
    /\ Len(comp) = CodeLength
    /\ comp' = <<Head(toServer)>>
    /\ NoteTopCommitPushed

(* Faulty variant: the hides of a push that found letters are not counted. *)
ConsumedByEmpty == IF pending = 0 \/ comp # <<>> THEN pending ELSE pending - 1

(* ConsumeTopCommitPendingHide: every hide takes an entry, in time or not. *)
ConsumedHides == IF pending = 0 THEN 0 ELSE pending - 1
PushedHide == pending > 0 /\ fresh

(* The task HideCandidate: a hide of a push leaves the letters alone, any  *)
(* other clears the session.                                               *)
HideCandidate ==
    /\ toServer # <<>>
    /\ Head(toServer) = Hide
    /\ toServer' = Tail(toServer)
    /\ pending' = ConsumedHides
    /\ comp' = IF PushedHide THEN comp ELSE <<>>
    /\ late' = IF ~fresh /\ comp # <<>> THEN late + 1 ELSE late
    /\ UNCHANGED <<typed, fresh, pushes, client, dropped>>

(* kTopCommitHideSuppressMs pass without another push.                     *)
LimitPasses ==
    /\ fresh
    /\ fresh' = FALSE
    /\ UNCHANGED <<typed, toServer, pushes, comp, pending, client, dropped, late>>

-----------------------------------------------------------------------------
Next ==
    \/ TypeLetter \/ GrantLetter
    \/ PostServerTextDelivery \/ OnCommitMessage \/ GrantCommit
    \/ PlainLetter \/ AutoCommit \/ TopCommit
    \/ HideCandidate \/ LimitPasses

Spec == Init /\ [][Next]_vars

-----------------------------------------------------------------------------
TypeOK ==
    /\ typed \in 0..MaxLetters
    /\ toServer \in Seq(Letters \cup {Hide})
    /\ comp \in Seq(Letters)
    /\ pending \in Nat
    /\ fresh \in BOOLEAN
    /\ pushes \in Nat
    /\ posted \in Seq(Nat)
    /\ lane \in Seq(Sessions)
    /\ buffer \in Seq(Letters)
    /\ epoch \in Nat
    /\ dropped \in Nat
    /\ late \in Nat

Positions(s, M) == {i \in DOMAIN s : s[i] \in M}
HidesUnderway == Cardinality(Positions(toServer, {Hide}))
CommitsRequested == Cardinality(Positions(lane, CommitSessions))

(* The server's account is exact: it holds one entry for every push whose  *)
(* hide it has not handled, wherever the push or the hide is, and one for  *)
(* every push the client dropped; nothing else is ever held against a hide *)
(* (event_listener_worker.cpp:180-202).                                    *)
HidesAccounted ==
    pending = pushes + Len(posted) + CommitsRequested + HidesUnderway + dropped

(* A hide handled within the limit takes no letter from the server's       *)
(* composition, however many pushes overtake each other and however far    *)
(* the user has typed on (event_listener_worker.cpp:288-307).              *)
RemainderKept == [][HideCandidate /\ fresh => comp' = comp]_vars

(* Both ends cut the same stream of keys at the same places: once nothing  *)
(* is on its way they hold the same letters, unless a delivery was dropped *)
(* or a hide came after the limit (event_listener_keys.cpp:1353-1356).     *)
Settled == toServer = <<>> /\ pushes = 0 /\ posted = <<>> /\ lane = <<>>
EndsAgree == Settled /\ dropped = 0 /\ late = 0 => buffer = comp
=============================================================================
