-------------------------- MODULE TopCommitProofs --------------------------
(***************************************************************************)
(* Theorems about TopCommit, for codes of every length and any number of   *)
(* letters.                                                                *)
(***************************************************************************)
EXTENDS TopCommit, FunctionTheorems, FiniteSetTheorems, SequenceTheorems, TLAPS

-----------------------------------------------------------------------------
(* Counting the entries of a sequence that lie in a set.                   *)

LEMMA PositionsFinite ==
    ASSUME NEW S, NEW s \in Seq(S), NEW M
    PROVE  IsFiniteSet(Positions(s, M)) /\ Cardinality(Positions(s, M)) \in Nat
<1>1. IsFiniteSet(1..Len(s))
  BY FS_Interval
<1>2. Positions(s, M) \subseteq 1..Len(s)
  BY DEF Positions
<1>3. IsFiniteSet(Positions(s, M))
  BY <1>1, <1>2, FS_Subset
<1> QED
  BY <1>3, FS_CardinalityType

LEMMA PositionsAppend ==
    ASSUME NEW S, NEW s \in Seq(S), NEW e \in S, NEW M
    PROVE  Cardinality(Positions(Append(s, e), M)) =
             Cardinality(Positions(s, M)) + (IF e \in M THEN 1 ELSE 0)
<1> DEFINE n == Len(s) + 1
<1>1. n \notin Positions(s, M)
  BY DEF Positions
<1>2. \A i \in DOMAIN Append(s, e) :
        Append(s, e)[i] = IF i = n THEN e ELSE s[i]
  OBVIOUS
<1>3. DOMAIN Append(s, e) = DOMAIN s \cup {n}
  OBVIOUS
<1>4. Positions(Append(s, e), M) =
        IF e \in M THEN Positions(s, M) \cup {n} ELSE Positions(s, M)
  BY <1>1, <1>2, <1>3 DEF Positions
<1>5. IsFiniteSet(Positions(s, M)) /\ Cardinality(Positions(s, M)) \in Nat
  BY PositionsFinite
<1>6. Cardinality(Positions(s, M) \cup {n}) = Cardinality(Positions(s, M)) + 1
  BY <1>1, <1>5, FS_AddElement
<1> QED
  BY <1>4, <1>5, <1>6

(* The tail holds the positions behind the first, each moved up by one.    *)
LEMMA PositionsTail ==
    ASSUME NEW S, NEW s \in Seq(S), s # <<>>, NEW M
    PROVE  Cardinality(Positions(s, M)) =
             Cardinality(Positions(Tail(s), M)) + (IF Head(s) \in M THEN 1 ELSE 0)
<1> DEFINE P == Positions(Tail(s), M)
           Q == Positions(s, M) \ {1}
           f == [i \in P |-> i + 1]
<1>1. Tail(s) \in Seq(S) /\ Len(Tail(s)) = Len(s) - 1 /\ Len(s) \in Nat \ {0}
  OBVIOUS
<1>2. \A i \in 1..(Len(s) - 1) : Tail(s)[i] = s[i + 1]
  OBVIOUS
<1>3. P = {i \in 1..(Len(s) - 1) : s[i + 1] \in M}
  BY <1>1, <1>2 DEF Positions
<1>4. Q = {i \in 2..Len(s) : s[i] \in M}
  BY <1>1 DEF Positions
<1>5. f \in Bijection(P, Q)
  <2>1. f \in [P -> Q]
    BY <1>1, <1>3, <1>4
  <2>2. \A a, b \in P : f[a] = f[b] => a = b
    BY <1>3
  <2>3. \A q \in Q : \E p \in P : f[p] = q
    <3> TAKE q \in Q
    <3>1. q - 1 \in P /\ f[q - 1] = q
      BY <1>1, <1>3, <1>4
    <3> QED
      BY <3>1
  <2> QED
    BY <2>1, <2>2, <2>3, Fun_IsBij
<1>6. IsFiniteSet(P) /\ Cardinality(P) \in Nat
  BY <1>1, PositionsFinite
<1>7. Cardinality(Q) = Cardinality(P)
  BY <1>5, <1>6, FS_Bijection DEF ExistsBijection
<1>8. IsFiniteSet(Positions(s, M)) /\ Cardinality(Positions(s, M)) \in Nat
  BY PositionsFinite
<1>9. 1 \in Positions(s, M) <=> Head(s) \in M
  BY <1>1 DEF Positions
<1>10. Cardinality(Q) = IF 1 \in Positions(s, M)
                          THEN Cardinality(Positions(s, M)) - 1
                          ELSE Cardinality(Positions(s, M))
  BY <1>8, FS_RemoveElement
<1> QED
  BY <1>6, <1>7, <1>8, <1>9, <1>10

-----------------------------------------------------------------------------
(* Type correctness.                                                       *)

LEMMA SessionTypes ==
    /\ \A l \in Letters : LetterSession(l) \in Sessions \ CommitSessions
    /\ \A e \in Nat : CommitSession(e) \in Sessions \cap CommitSessions
    /\ \A r \in Sessions : r \in CommitSessions <=> r.kind = "commit"
    /\ \A r \in Sessions : r.kind = "letter" => r.arg \in Letters
BY DEF LetterSession, CommitSession, Sessions, CommitSessions

LEMMA RemainderType ==
    ASSUME buffer \in Seq(Letters)
    PROVE  Remainder \in Seq(Letters)
<1>1. CASE Len(buffer) <= CodeLength
  BY <1>1 DEF Remainder
<1>2. CASE ~(Len(buffer) <= CodeLength)
  <2>1. \A i \in (CodeLength + 1)..Len(buffer) : i \in 1..Len(buffer)
    BY CodeAssumption
  <2>2. SubSeq(buffer, CodeLength + 1, Len(buffer)) \in Seq(Letters)
    BY <2>1, CodeAssumption, SubSeqProperties
  <2> QED
    BY <1>2, <2>2 DEF Remainder
<1> QED
  BY <1>1, <1>2

LEMMA RestOfSequence ==
    ASSUME NEW S, NEW s \in Seq(S), s # <<>>
    PROVE  Head(s) \in S /\ Tail(s) \in Seq(S)
OBVIOUS

LEMMA PushedAtEnd ==
    ASSUME NEW S, NEW s \in Seq(S), NEW e \in S
    PROVE  Append(s, e) \in Seq(S)
OBVIOUS

THEOREM TypeCorrect == Spec => []TypeOK
<1>1. Init => TypeOK
  <2> SUFFICES ASSUME Init PROVE TypeOK
    OBVIOUS
  <2>1. typed \in 0..MaxLetters
    BY LettersAssumption DEF Init
  <2>2. /\ toServer \in Seq(Letters \cup {Hide}) /\ comp \in Seq(Letters)
        /\ posted \in Seq(Nat) /\ lane \in Seq(Sessions) /\ buffer \in Seq(Letters)
    BY DEF Init
  <2>3. /\ pending \in Nat /\ pushes \in Nat /\ epoch \in Nat
        /\ dropped \in Nat /\ late \in Nat
    BY DEF Init
  <2>4. fresh \in BOOLEAN
    BY DEF Init
  <2> QED
    BY <2>1, <2>2, <2>3, <2>4 DEF TypeOK
<1>2. TypeOK /\ [Next]_vars => TypeOK'
  <2> SUFFICES ASSUME TypeOK, [Next]_vars PROVE TypeOK'
    OBVIOUS
  <2>1. CASE TypeLetter
    <3>1. typed + 1 \in Letters /\ typed + 1 \in 0..MaxLetters
      BY <2>1, LettersAssumption DEF TypeLetter, TypeOK, Letters
    <3>2. LetterSession(typed + 1) \in Sessions
      BY <3>1, SessionTypes
    <3>3. toServer' \in Seq(Letters \cup {Hide}) /\ lane' \in Seq(Sessions)
      BY <2>1, <3>1, <3>2, PushedAtEnd DEF TypeLetter, TypeOK
    <3> QED
      BY <2>1, <3>1, <3>3 DEF TypeLetter, TypeOK, server
  <2>2. CASE GrantLetter
    <3>1. Head(lane) \in Sessions /\ Tail(lane) \in Seq(Sessions)
      BY <2>2, RestOfSequence DEF GrantLetter, TypeOK
    <3>2. Append(buffer, Head(lane).arg) \in Seq(Letters)
      BY <2>2, <3>1, SessionTypes DEF GrantLetter, TypeOK
    <3>3. lane' \in Seq(Sessions) /\ buffer' \in Seq(Letters) /\ epoch' \in Nat
      BY <2>2, <3>1, <3>2 DEF GrantLetter, TypeOK
    <3> QED
      BY <2>2, <3>3 DEF GrantLetter, TypeOK, server
  <2>3. CASE PostServerTextDelivery
    <3>1. posted' \in Seq(Nat) /\ pushes' \in Nat
      BY <2>3, PushedAtEnd DEF PostServerTextDelivery, TypeOK
    <3> QED
      BY <2>3, <3>1 DEF PostServerTextDelivery, TypeOK, server
  <2>4. CASE OnCommitMessage
    <3>1. Tail(posted) \in Seq(Nat)
      BY <2>4, RestOfSequence DEF OnCommitMessage, TypeOK
    <3>2. Append(lane, CommitSession(epoch)) \in Seq(Sessions)
      BY SessionTypes DEF TypeOK
    <3>3. posted' \in Seq(Nat)
      BY <2>4, <3>1 DEF OnCommitMessage
    <3>4. lane' \in Seq(Sessions)
      BY <2>4, <3>2 DEF OnCommitMessage, TypeOK
    <3>5. dropped' \in Nat
      BY <2>4 DEF OnCommitMessage, TypeOK
    <3> QED
      BY <2>4, <3>3, <3>4, <3>5 DEF OnCommitMessage, TypeOK, server
  <2>5. CASE GrantCommit
    <3>1. Tail(lane) \in Seq(Sessions)
      BY <2>5, RestOfSequence DEF GrantCommit, TypeOK
    <3>2. Append(toServer, Hide) \in Seq(Letters \cup {Hide})
      BY PushedAtEnd DEF TypeOK
    <3>3. Remainder \in Seq(Letters)
      BY RemainderType DEF TypeOK
    <3>4. CASE HandleCommitCandidateAndContinue /\ UNCHANGED dropped
      <4>1. epoch' \in Nat
        BY <3>4 DEF HandleCommitCandidateAndContinue, TypeOK
      <4> QED
        BY <2>5, <3>1, <3>2, <3>3, <3>4, <4>1
        DEF GrantCommit, HandleCommitCandidateAndContinue, TypeOK, server
    <3>5. CASE dropped' = dropped + 1 /\ UNCHANGED <<toServer, buffer, epoch>>
      BY <2>5, <3>1, <3>5 DEF GrantCommit, TypeOK, server
    <3> QED
      BY <2>5, <3>4, <3>5 DEF GrantCommit
  <2>6. TakesLetter => /\ Head(toServer) \in Letters
                       /\ toServer' \in Seq(Letters \cup {Hide})
    BY RestOfSequence DEF TakesLetter, TypeOK
  <2>7. CASE PlainLetter
    <3>1. comp' \in Seq(Letters)
      BY <2>6, <2>7, PushedAtEnd DEF PlainLetter, TypeOK
    <3> QED
      BY <2>6, <2>7, <3>1 DEF PlainLetter, TakesLetter, TypeOK, client
  <2>8. NoteTopCommitPushed => pushes' \in Nat /\ pending' \in Nat /\ fresh' \in BOOLEAN
    BY DEF NoteTopCommitPushed, TypeOK
  <2>9. CASE AutoCommit
    <3>1. comp' \in Seq(Letters)
      BY <2>9 DEF AutoCommit
    <3> QED
      BY <2>6, <2>8, <2>9, <3>1 DEF AutoCommit, TakesLetter, TypeOK, client
  <2>10. CASE TopCommit
    <3>1. comp' \in Seq(Letters)
      BY <2>6, <2>10 DEF TopCommit
    <3> QED
      BY <2>6, <2>8, <2>10, <3>1 DEF TopCommit, TakesLetter, TypeOK, client
  <2>11. CASE HideCandidate
    <3>1. toServer' \in Seq(Letters \cup {Hide})
      BY <2>11, RestOfSequence DEF HideCandidate, TypeOK
    <3>2. comp' \in Seq(Letters)
      BY <2>11 DEF HideCandidate, TypeOK
    <3>3. pending' \in Nat /\ late' \in Nat
      BY <2>11 DEF HideCandidate, ConsumedHides, TypeOK
    <3> QED
      BY <2>11, <3>1, <3>2, <3>3 DEF HideCandidate, TypeOK, client
  <2>12. CASE LimitPasses
    BY <2>12 DEF LimitPasses, TypeOK, client
  <2>13. CASE UNCHANGED vars
    BY <2>13 DEF vars, TypeOK, server, client
  <2> QED
    BY <2>1, <2>2, <2>3, <2>4, <2>5, <2>7, <2>9, <2>10, <2>11, <2>12, <2>13
    DEF Next
<1> QED
  BY <1>1, <1>2, PTL DEF Spec

-----------------------------------------------------------------------------
(* The account of the pushes.                                              *)

(* The terms of the account are numbers.                                   *)
LEMMA AccountTypes ==
    ASSUME TypeOK
    PROVE  /\ HidesUnderway \in Nat
           /\ CommitsRequested \in Nat
           /\ Len(posted) \in Nat
BY PositionsFinite DEF TypeOK, HidesUnderway, CommitsRequested

(* A task put behind the others or taken from the head.                    *)
LEMMA HidesMove ==
    ASSUME TypeOK
    PROVE  /\ \A l \in Letters : toServer' = Append(toServer, l) =>
                 HidesUnderway' = HidesUnderway
           /\ toServer' = Append(toServer, Hide) => HidesUnderway' = HidesUnderway + 1
           /\ toServer # <<>> /\ toServer' = Tail(toServer) =>
                 HidesUnderway' = HidesUnderway - (IF Head(toServer) = Hide THEN 1 ELSE 0)
           /\ toServer' = toServer => HidesUnderway' = HidesUnderway
<1>1. toServer \in Seq(Letters \cup {Hide})
  BY DEF TypeOK
<1>2. HidesUnderway \in Nat
  BY AccountTypes
<1> DEFINE Counted(q) == Cardinality(Positions(q, {Hide}))
<1>3. HidesUnderway = Counted(toServer) /\ HidesUnderway' = Counted(toServer')
  BY DEF HidesUnderway, Positions, Hide
<1>4. \A l \in Letters : Counted(Append(toServer, l)) = Counted(toServer) + 0
  <2> TAKE l \in Letters
  <2>1. l \notin {Hide}
    BY LettersAssumption DEF Letters, Hide
  <2> QED
    BY <1>1, <2>1, PositionsAppend
<1>5. Counted(Append(toServer, Hide)) = Counted(toServer) + 1
  BY <1>1, PositionsAppend
<1>6. ASSUME toServer # <<>>
      PROVE  /\ Counted(Tail(toServer)) \in Nat
             /\ Counted(toServer) =
                  Counted(Tail(toServer)) + (IF Head(toServer) = Hide THEN 1 ELSE 0)
  <2>1. Counted(toServer) =
          Counted(Tail(toServer)) + (IF Head(toServer) \in {Hide} THEN 1 ELSE 0)
    BY <1>1, <1>6, PositionsTail
  <2>2. Counted(Tail(toServer)) \in Nat
    BY <1>1, <1>6, RestOfSequence, PositionsFinite
  <2> QED
    BY <2>1, <2>2
<1> HIDE DEF Counted
<1>7. \A l \in Letters : toServer' = Append(toServer, l) =>
        HidesUnderway' = HidesUnderway
  BY <1>2, <1>3, <1>4
<1>8. toServer' = Append(toServer, Hide) => HidesUnderway' = HidesUnderway + 1
  BY <1>3, <1>5
<1>9. toServer # <<>> /\ toServer' = Tail(toServer) =>
        HidesUnderway' = HidesUnderway - (IF Head(toServer) = Hide THEN 1 ELSE 0)
  BY <1>3, <1>6
<1>10. toServer' = toServer => HidesUnderway' = HidesUnderway
  BY <1>3
<1> QED
  BY <1>7, <1>8, <1>9, <1>10

(* An edit session asked for or granted.                                   *)
LEMMA CommitsMove ==
    ASSUME TypeOK
    PROVE  /\ \A l \in Letters : lane' = Append(lane, LetterSession(l)) =>
                 CommitsRequested' = CommitsRequested
           /\ lane' = Append(lane, CommitSession(epoch)) =>
                 CommitsRequested' = CommitsRequested + 1
           /\ lane # <<>> /\ lane' = Tail(lane) =>
                 CommitsRequested' =
                   CommitsRequested - (IF Head(lane).kind = "commit" THEN 1 ELSE 0)
           /\ lane' = lane => CommitsRequested' = CommitsRequested
<1>1. lane \in Seq(Sessions) /\ epoch \in Nat
  BY DEF TypeOK
<1>2. CommitsRequested \in Nat
  BY AccountTypes
<1> DEFINE Counted(s) == Cardinality(Positions(s, CommitSessions))
<1>3. CommitsRequested = Counted(lane) /\ CommitsRequested' = Counted(lane')
  BY DEF CommitsRequested, Positions, CommitSessions
<1>4. \A l \in Letters : Counted(Append(lane, LetterSession(l))) = Counted(lane) + 0
  <2> TAKE l \in Letters
  <2>1. LetterSession(l) \in Sessions /\ LetterSession(l) \notin CommitSessions
    BY SessionTypes
  <2> QED
    BY <1>1, <2>1, PositionsAppend
<1>5. Counted(Append(lane, CommitSession(epoch))) = Counted(lane) + 1
  <2>1. CommitSession(epoch) \in Sessions /\ CommitSession(epoch) \in CommitSessions
    BY <1>1, SessionTypes
  <2> QED
    BY <1>1, <2>1, PositionsAppend
<1>6. ASSUME lane # <<>>
      PROVE  /\ Counted(Tail(lane)) \in Nat
             /\ Counted(lane) =
                  Counted(Tail(lane)) + (IF Head(lane).kind = "commit" THEN 1 ELSE 0)
  <2>1. Head(lane) \in Sessions
    BY <1>1, <1>6, RestOfSequence
  <2>2. Head(lane) \in CommitSessions <=> Head(lane).kind = "commit"
    BY <2>1, SessionTypes
  <2>3. Counted(lane) =
          Counted(Tail(lane)) + (IF Head(lane) \in CommitSessions THEN 1 ELSE 0)
    BY <1>1, <1>6, PositionsTail
  <2>4. Counted(Tail(lane)) \in Nat
    BY <1>1, <1>6, RestOfSequence, PositionsFinite
  <2> QED
    BY <2>2, <2>3, <2>4
<1> HIDE DEF Counted
<1>7. \A l \in Letters : lane' = Append(lane, LetterSession(l)) =>
        CommitsRequested' = CommitsRequested
  BY <1>2, <1>3, <1>4
<1>8. lane' = Append(lane, CommitSession(epoch)) =>
        CommitsRequested' = CommitsRequested + 1
  BY <1>3, <1>5
<1>9. lane # <<>> /\ lane' = Tail(lane) =>
        CommitsRequested' =
          CommitsRequested - (IF Head(lane).kind = "commit" THEN 1 ELSE 0)
  BY <1>3, <1>6
<1>10. lane' = lane => CommitsRequested' = CommitsRequested
  BY <1>3
<1> QED
  BY <1>7, <1>8, <1>9, <1>10

(* The server's account is exact, for codes of any length and however many *)
(* pushes are in flight (event_listener_worker.cpp:180-202).               *)
THEOREM HidesAreAccounted == Spec => []HidesAccounted
<1>1. Init => HidesAccounted
  <2> SUFFICES ASSUME Init PROVE HidesAccounted
    OBVIOUS
  <2>1. Positions(<<>>, {Hide}) = {} /\ Positions(<<>>, CommitSessions) = {}
    BY DEF Positions
  <2>2. HidesUnderway = 0 /\ CommitsRequested = 0
    BY <2>1, FS_EmptySet DEF Init, HidesUnderway, CommitsRequested
  <2> QED
    BY <2>2 DEF Init, HidesAccounted
<1>2. TypeOK /\ TypeOK' /\ HidesAccounted /\ [Next]_vars => HidesAccounted'
  <2> SUFFICES ASSUME TypeOK, TypeOK', HidesAccounted, [Next]_vars
               PROVE  HidesAccounted'
    OBVIOUS
  <2>1. /\ HidesUnderway \in Nat /\ CommitsRequested \in Nat
        /\ pushes \in Nat /\ pending \in Nat /\ dropped \in Nat
        /\ posted \in Seq(Nat) /\ Len(posted) \in Nat
    BY AccountTypes DEF TypeOK
  <2>2. HidesUnderway' \in Nat /\ CommitsRequested' \in Nat
    <3>1. toServer' \in Seq(Letters \cup {Hide}) /\ lane' \in Seq(Sessions)
      BY DEF TypeOK, Sessions, CommitSessions, Letters, Hide
    <3>2. /\ Cardinality(Positions(toServer', {Hide})) \in Nat
          /\ Cardinality(Positions(lane', CommitSessions)) \in Nat
      BY <3>1, PositionsFinite
    <3> QED
      BY <3>2 DEF HidesUnderway, CommitsRequested, Positions, CommitSessions, Hide
  <2>3. CASE TypeLetter
    <3>1. typed + 1 \in Letters
      BY <2>3, LettersAssumption DEF TypeLetter, TypeOK, Letters
    <3>2. HidesUnderway' = HidesUnderway /\ CommitsRequested' = CommitsRequested
      BY <2>3, <3>1, HidesMove, CommitsMove DEF TypeLetter
    <3> QED
      BY <2>3, <3>2 DEF TypeLetter, HidesAccounted, server
  <2>4. CASE GrantLetter
    <3>1. HidesUnderway' = HidesUnderway /\ CommitsRequested' = CommitsRequested
      <4>1. Head(lane).kind # "commit" /\ lane # <<>> /\ lane' = Tail(lane)
        BY <2>4 DEF GrantLetter
      <4>2. CommitsRequested' = CommitsRequested - 0
        BY <4>1, CommitsMove
      <4>3. HidesUnderway' = HidesUnderway
        BY <2>4, HidesMove DEF GrantLetter
      <4> QED
        BY <2>1, <2>2, <4>2, <4>3
    <3> QED
      BY <2>4, <3>1 DEF GrantLetter, HidesAccounted, server
  <2>5. CASE PostServerTextDelivery
    <3>1. HidesUnderway' = HidesUnderway /\ CommitsRequested' = CommitsRequested
      BY <2>5, HidesMove, CommitsMove DEF PostServerTextDelivery
    <3>2. Len(posted') = Len(posted) + 1
      BY <2>1, <2>5 DEF PostServerTextDelivery
    <3> QED
      BY <2>1, <2>5, <3>1, <3>2 DEF PostServerTextDelivery, HidesAccounted, server
  <2>6. CASE OnCommitMessage
    <3>1. HidesUnderway' = HidesUnderway
      BY <2>6, HidesMove DEF OnCommitMessage
    <3>2. Len(posted') = Len(posted) - 1 /\ Len(posted') \in Nat
      BY <2>1, <2>6 DEF OnCommitMessage
    <3>3. \/ /\ CommitsRequested' = CommitsRequested + 1
             /\ dropped' = dropped
          \/ /\ CommitsRequested' = CommitsRequested
             /\ dropped' = dropped + 1
      BY <2>1, <2>6, CommitsMove DEF OnCommitMessage
    <3>4. pending' = pending /\ pushes' = pushes
      BY <2>6 DEF OnCommitMessage, server
    <3>5. CASE CommitsRequested' = CommitsRequested + 1 /\ dropped' = dropped
      BY <2>1, <3>1, <3>2, <3>4, <3>5 DEF HidesAccounted
    <3>6. CASE CommitsRequested' = CommitsRequested /\ dropped' = dropped + 1
      BY <2>1, <3>1, <3>2, <3>4, <3>6 DEF HidesAccounted
    <3> QED
      BY <3>3, <3>5, <3>6
  <2>7. CASE GrantCommit
    <3>1. CommitsRequested' = CommitsRequested - 1
      BY <2>7, CommitsMove DEF GrantCommit
    <3>2. \/ /\ HidesUnderway' = HidesUnderway + 1
             /\ dropped' = dropped
          \/ /\ HidesUnderway' = HidesUnderway
             /\ dropped' = dropped + 1
      BY <2>1, <2>7, HidesMove DEF GrantCommit, HandleCommitCandidateAndContinue
    <3>3. pending' = pending /\ pushes' = pushes /\ posted' = posted
      BY <2>7 DEF GrantCommit, server
    <3>4. dropped' \in Nat
      BY DEF TypeOK
    <3> QED
      BY <2>1, <2>2, <3>1, <3>2, <3>3, <3>4 DEF HidesAccounted
  <2>8. TakesLetter =>
          /\ HidesUnderway' = HidesUnderway /\ CommitsRequested' = CommitsRequested
          /\ UNCHANGED <<posted, dropped>>
    <3> SUFFICES ASSUME TakesLetter
                 PROVE  /\ HidesUnderway' = HidesUnderway
                        /\ CommitsRequested' = CommitsRequested
                        /\ UNCHANGED <<posted, dropped>>
      OBVIOUS
    <3>1. toServer # <<>> /\ toServer' = Tail(toServer) /\ Head(toServer) # Hide
      BY DEF TakesLetter
    <3>2. HidesUnderway' = HidesUnderway - 0
      BY <3>1, HidesMove
    <3>3. lane' = lane /\ UNCHANGED <<posted, dropped>>
      BY DEF TakesLetter, client
    <3>4. CommitsRequested' = CommitsRequested
      BY <3>3, CommitsMove
    <3> QED
      BY <2>1, <2>2, <3>2, <3>3, <3>4
  <2>9. CASE PlainLetter
    BY <2>8, <2>9 DEF PlainLetter, HidesAccounted
  <2>10. CASE AutoCommit
    BY <2>1, <2>2, <2>8, <2>10 DEF AutoCommit, NoteTopCommitPushed, HidesAccounted
  <2>11. CASE TopCommit
    BY <2>1, <2>2, <2>8, <2>11 DEF TopCommit, NoteTopCommitPushed, HidesAccounted
  <2>12. CASE HideCandidate
    <3>1. HidesUnderway' = HidesUnderway - 1 /\ CommitsRequested' = CommitsRequested
      BY <2>12, HidesMove, CommitsMove DEF HideCandidate, client
    <3>2. /\ pushes' = pushes /\ posted' = posted /\ dropped' = dropped
          /\ pending' = ConsumedHides
      BY <2>12 DEF HideCandidate, client
    <3>3. Len(posted') \in Nat
      BY <2>1, <3>2
    <3> QED
      BY <2>1, <2>2, <3>1, <3>2, <3>3 DEF ConsumedHides, HidesAccounted
  <2>13. CASE LimitPasses
    <3>1. HidesUnderway' = HidesUnderway /\ CommitsRequested' = CommitsRequested
      BY <2>13, HidesMove, CommitsMove DEF LimitPasses, client
    <3> QED
      BY <2>13, <3>1 DEF LimitPasses, HidesAccounted, client
  <2>14. CASE UNCHANGED vars
    <3>1. HidesUnderway' = HidesUnderway /\ CommitsRequested' = CommitsRequested
      BY <2>14, HidesMove, CommitsMove DEF vars, client
    <3> QED
      BY <2>14, <3>1 DEF vars, HidesAccounted, client, server
  <2> QED
    BY <2>3, <2>4, <2>5, <2>6, <2>7, <2>9, <2>10, <2>11, <2>12, <2>13, <2>14
    DEF Next
<1> QED
  BY <1>1, <1>2, TypeCorrect, PTL DEF Spec

(* A hide handled within the limit always finds an entry of the account,   *)
(* so it leaves the letters of the next word alone                         *)
(* (event_listener_worker.cpp:288-307).                                    *)
THEOREM RemaindersKept == Spec => RemainderKept
<1>1. TypeOK /\ HidesAccounted /\ [Next]_vars
        => [HideCandidate /\ fresh => comp' = comp]_vars
  <2> SUFFICES ASSUME TypeOK, HidesAccounted, HideCandidate, fresh
               PROVE  comp' = comp
    OBVIOUS
  <2>1. /\ HidesUnderway \in Nat /\ CommitsRequested \in Nat /\ Len(posted) \in Nat
        /\ pushes \in Nat /\ pending \in Nat /\ dropped \in Nat
    BY AccountTypes DEF TypeOK
  <2>2. HidesUnderway >= 1
    <3>1. toServer \in Seq(Letters \cup {Hide}) /\ toServer # <<>> /\ Head(toServer) = Hide
      BY DEF TypeOK, HideCandidate
    <3>2. Tail(toServer) \in Seq(Letters \cup {Hide})
      BY <3>1
    <3>3. Cardinality(Positions(Tail(toServer), {Hide})) \in Nat
      BY <3>2, PositionsFinite
    <3>4. HidesUnderway = Cardinality(Positions(Tail(toServer), {Hide})) + 1
      BY <3>1, PositionsTail DEF HidesUnderway
    <3> QED
      BY <3>3, <3>4
  <2>3. PushedHide
    BY <2>1, <2>2 DEF HidesAccounted, PushedHide
  <2> QED
    BY <2>3 DEF HideCandidate
<1> QED
  BY <1>1, TypeCorrect, HidesAreAccounted, PTL DEF Spec, RemainderKept

-----------------------------------------------------------------------------
(* One stream of letters.                                                  *)

(* Letters up to T were typed; q still brings those behind S, in order.    *)
Stream(q, S, T) ==
    /\ S <= T
    /\ \A i \in DOMAIN q : q[i] # Hide => S < q[i] /\ q[i] <= T
    /\ \A i, j \in DOMAIN q : i < j /\ q[i] # Hide /\ q[j] # Hide => q[i] < q[j]
    /\ \A n \in (S + 1)..T : \E i \in DOMAIN q : q[i] = n

LEMMA StreamEmpty ==
    ASSUME NEW S \in Nat, NEW T \in Nat
    PROVE  /\ Stream(<<>>, S, T) => S = T
           /\ Stream(<<>>, S, S)
<1>1. DOMAIN <<>> = {}
  OBVIOUS
<1>2. ASSUME Stream(<<>>, S, T) PROVE S = T
  <2>1. (S + 1)..T = {}
    BY <1>1, <1>2 DEF Stream
  <2> QED
    BY <1>2, <2>1 DEF Stream
<1> QED
  BY <1>1, <1>2 DEF Stream

LEMMA StreamGrows ==
    ASSUME NEW q \in Seq(Nat), NEW S \in Nat, NEW T \in Nat, Stream(q, S, T)
    PROVE  /\ Stream(Append(q, T + 1), S, T + 1)
           /\ Stream(Append(q, Hide), S, T)
<1>1. ASSUME NEW e \in Nat
      PROVE  /\ DOMAIN Append(q, e) = DOMAIN q \cup {Len(q) + 1}
             /\ Append(q, e)[Len(q) + 1] = e
             /\ \A i \in DOMAIN q : Append(q, e)[i] = q[i]
  OBVIOUS
<1>2. \A i \in DOMAIN q : i \in Nat /\ i < Len(q) + 1 /\ q[i] \in Nat
  OBVIOUS
<1>3. Len(q) \in Nat /\ Hide \in Nat
  BY DEF Hide
<1>4. Stream(Append(q, T + 1), S, T + 1)
  <2> DEFINE r == Append(q, T + 1)
  <2>1. /\ DOMAIN r = DOMAIN q \cup {Len(q) + 1} /\ r[Len(q) + 1] = T + 1
        /\ \A i \in DOMAIN q : r[i] = q[i]
    BY <1>1
  <2> HIDE DEF r
  <2>2. \A i \in DOMAIN r : r[i] # Hide => S < r[i] /\ r[i] <= T + 1
    BY <1>2, <2>1 DEF Stream
  <2>3. \A i, j \in DOMAIN r : i < j /\ r[i] # Hide /\ r[j] # Hide => r[i] < r[j]
    BY <1>2, <1>3, <2>1 DEF Stream
  <2>4. \A n \in (S + 1)..(T + 1) : \E i \in DOMAIN r : r[i] = n
    <3> TAKE n \in (S + 1)..(T + 1)
    <3>1. CASE n = T + 1
      BY <2>1, <3>1
    <3>2. CASE n \in (S + 1)..T
      BY <2>1, <3>2 DEF Stream
    <3> QED
      BY <3>1, <3>2
  <2> QED
    BY <2>2, <2>3, <2>4 DEF Stream, r
<1>5. Stream(Append(q, Hide), S, T)
  <2> DEFINE r == Append(q, Hide)
  <2>1. /\ DOMAIN r = DOMAIN q \cup {Len(q) + 1} /\ r[Len(q) + 1] = Hide
        /\ \A i \in DOMAIN q : r[i] = q[i]
    BY <1>1, <1>3
  <2> HIDE DEF r
  <2>2. \A n \in (S + 1)..T : \E i \in DOMAIN r : r[i] = n
    BY <2>1 DEF Stream
  <2>3. \A i \in DOMAIN r : r[i] # Hide => i \in DOMAIN q /\ r[i] = q[i]
    BY <2>1
  <2> QED
    BY <2>2, <2>3 DEF Stream, r
<1> QED
  BY <1>4, <1>5

LEMMA StreamMoves ==
    ASSUME NEW q \in Seq(Nat), NEW S \in Nat, NEW T \in Nat, Stream(q, S, T), q # <<>>
    PROVE  /\ Head(q) = Hide => Stream(Tail(q), S, T)
           /\ Head(q) # Hide => Head(q) = S + 1 /\ Stream(Tail(q), S + 1, T)
<1> DEFINE r == Tail(q)
<1>1. Len(q) \in Nat \ {0} /\ DOMAIN q = 1..Len(q) /\ Head(q) = q[1]
  BY EmptySeq
<1>2. /\ DOMAIN r = 1..(Len(q) - 1)
      /\ \A i \in 1..(Len(q) - 1) : r[i] = q[i + 1]
  BY <1>1
<1>3. \A i \in DOMAIN r : i \in Nat /\ i + 1 \in DOMAIN q /\ r[i] = q[i + 1]
  BY <1>1, <1>2
<1>4. \A i \in DOMAIN q : i # 1 => i - 1 \in DOMAIN r /\ r[i - 1] = q[i]
  BY <1>1, <1>2
<1>5. \A i \in DOMAIN q : i \in Nat /\ q[i] \in Nat
  OBVIOUS
<1> HIDE DEF r
<1>6. \A i, j \in DOMAIN r : i < j /\ r[i] # Hide /\ r[j] # Hide => r[i] < r[j]
  BY <1>3 DEF Stream
<1>7. ASSUME Head(q) = Hide PROVE Stream(r, S, T)
  <2>1. \A i \in DOMAIN r : r[i] # Hide => S < r[i] /\ r[i] <= T
    BY <1>3 DEF Stream
  <2>2. \A n \in (S + 1)..T : \E i \in DOMAIN r : r[i] = n
    <3> TAKE n \in (S + 1)..T
    <3>1. PICK i \in DOMAIN q : q[i] = n
      BY DEF Stream
    <3>2. i # 1
      BY <1>1, <1>7, <3>1 DEF Hide
    <3> QED
      BY <1>4, <3>1, <3>2
  <2> QED
    BY <1>6, <2>1, <2>2 DEF Stream
<1>8. ASSUME Head(q) # Hide PROVE Head(q) = S + 1 /\ Stream(r, S + 1, T)
  <2>1. 1 \in DOMAIN q /\ S < q[1] /\ q[1] <= T
    BY <1>1, <1>8 DEF Stream
  <2>2. q[1] = S + 1
    <3>1. S + 1 \in (S + 1)..T
      BY <1>5, <2>1
    <3>2. PICK i \in DOMAIN q : q[i] = S + 1
      BY <3>1 DEF Stream
    <3>3. q[i] # Hide /\ q[1] # Hide
      BY <1>1, <1>8, <3>2 DEF Hide
    <3>4. i = 1 \/ q[1] < q[i]
      BY <1>5, <2>1, <3>3 DEF Stream
    <3> QED
      BY <1>5, <2>1, <3>2, <3>4
  <2>3. \A i \in DOMAIN r : r[i] # Hide => S + 1 < r[i] /\ r[i] <= T
    <3> TAKE i \in DOMAIN r
    <3> HAVE r[i] # Hide
    <3>1. i + 1 \in DOMAIN q /\ r[i] = q[i + 1] /\ 1 < i + 1
      BY <1>1, <1>2
    <3>2. q[1] < q[i + 1] /\ q[i + 1] <= T
      BY <1>1, <1>8, <2>1, <3>1 DEF Stream
    <3> QED
      BY <2>2, <3>1, <3>2
  <2>4. \A n \in (S + 2)..T : \E i \in DOMAIN r : r[i] = n
    <3> TAKE n \in (S + 2)..T
    <3>1. PICK i \in DOMAIN q : q[i] = n
      BY DEF Stream
    <3>2. i # 1
      BY <2>2, <3>1
    <3> QED
      BY <1>4, <3>1, <3>2
  <2>5. S + 1 <= T /\ (S + 1) + 1 = S + 2
    BY <1>5, <2>1, <2>2
  <2> QED
    BY <1>1, <1>6, <2>2, <2>3, <2>4, <2>5 DEF Stream
<1> QED
  BY <1>7, <1>8 DEF r

(* The letters that n complete codes take up.                               *)
Cut(n) == n * CodeLength

LEMMA Cutting ==
    /\ \A n \in Nat : Cut(n) \in Nat /\ Cut(n + 1) = Cut(n) + CodeLength
    /\ \A n, m \in Nat : n <= m => Cut(n) <= Cut(m)
    /\ CodeLength \in Nat /\ CodeLength > 1
<1>1. CodeLength \in Nat /\ CodeLength > 1
  BY CodeAssumption
<1>2. \A n \in Nat : Cut(n) \in Nat /\ Cut(n + 1) = Cut(n) + CodeLength
  BY <1>1, SMTT(30) DEF Cut
<1>3. \A n, m \in Nat : n <= m => Cut(n) <= Cut(m)
  <2> TAKE n, m \in Nat
  <2> HAVE n <= m
  <2>1. Cut(m) = Cut(n) + (m - n) * CodeLength
    BY <1>1, SMTT(30) DEF Cut
  <2>2. (m - n) * CodeLength >= 0
    BY <1>1, SMTT(30)
  <2>3. (m - n) * CodeLength \in Int
    BY <1>1
  <2> DEFINE d == (m - n) * CodeLength
  <2>4. Cut(m) = Cut(n) + d /\ d >= 0 /\ d \in Int /\ Cut(n) \in Nat
    BY <1>2, <2>1, <2>2, <2>3
  <2> HIDE DEF d
  <2> QED
    BY <2>4
<1> QED
  BY <1>1, <1>2, <1>3

(* An end that has cut k codes off the stream holds the letters s behind    *)
(* them, and q brings the rest of the letters up to T.                      *)
End(k, s, q, T) ==
    /\ \A i \in DOMAIN s : s[i] = Cut(k) + i
    /\ Stream(q, Cut(k) + Len(s), T)

LEMMA EndGrows ==
    ASSUME NEW k \in Nat, NEW s \in Seq(Nat), NEW q \in Seq(Nat), NEW T \in Nat,
           End(k, s, q, T)
    PROVE  /\ End(k, s, Append(q, T + 1), T + 1)
           /\ End(k, s, Append(q, Hide), T)
<1> DEFINE S == Cut(k) + Len(s)
<1>1. Cut(k) \in Nat
  BY Cutting
<1>2. Len(s) \in Nat
  OBVIOUS
<1>3. S \in Nat /\ Stream(q, S, T)
  BY <1>1, <1>2 DEF End
<1>4. \A i \in DOMAIN s : s[i] = Cut(k) + i
  BY DEF End
<1>5. Stream(Append(q, T + 1), S, T + 1) /\ Stream(Append(q, Hide), S, T)
  <2> HIDE DEF S
  <2> QED  BY <1>3, StreamGrows
<1> QED
  BY <1>4, <1>5 DEF End

LEMMA EndTakes ==
    ASSUME NEW k \in Nat, NEW s \in Seq(Nat), NEW q \in Seq(Nat), NEW T \in Nat,
           End(k, s, q, T), q # <<>>
    PROVE  /\ Head(q) = Hide => End(k, s, Tail(q), T)
           /\ Head(q) # Hide => End(k, Append(s, Head(q)), Tail(q), T)
<1> DEFINE S == Cut(k) + Len(s)
           h == Head(q)
           r == Append(s, h)
<1>1. S \in Nat /\ Cut(k) \in Nat /\ Len(s) \in Nat
  <2>1. Cut(k) \in Nat
    BY Cutting
  <2>2. Len(s) \in Nat
    OBVIOUS
  <2> QED
    BY <2>1, <2>2
<1>2. Stream(q, S, T)
  BY DEF End
<1>3. h = Hide => End(k, s, Tail(q), T)
  <2> HIDE DEF S
  <2>1. h = Hide => Stream(Tail(q), S, T)
    BY <1>1, <1>2, StreamMoves
  <2> QED
    BY <2>1 DEF End, S
<1>4. ASSUME h # Hide PROVE End(k, r, Tail(q), T)
  <2>1. h = S + 1 /\ Stream(Tail(q), S + 1, T)
    <3> HIDE DEF S
    <3> QED
      BY <1>1, <1>2, <1>4, StreamMoves
  <2> HIDE DEF h
  <2>2. h \in Nat
    BY <1>1, <2>1
  <2>3. /\ Len(r) = Len(s) + 1 /\ DOMAIN r = DOMAIN s \cup {Len(s) + 1}
        /\ r[Len(s) + 1] = h /\ \A i \in DOMAIN s : r[i] = s[i]
    BY <2>2
  <2> HIDE DEF r
  <2>4. \A i \in DOMAIN r : r[i] = Cut(k) + i
    <3>1. \A i \in DOMAIN s : s[i] = Cut(k) + i
      BY DEF End
    <3>2. h = Cut(k) + (Len(s) + 1)
      BY <1>1, <2>1
    <3> QED
      BY <2>3, <3>1, <3>2
  <2>5. Cut(k) + Len(r) = S + 1
    BY <1>1, <2>3
  <2> QED
    BY <2>1, <2>4, <2>5 DEF End
<1> QED
  BY <1>3, <1>4

(* Both ends cut a code as Remainder does.                                  *)
Past(s) ==
    IF Len(s) <= CodeLength THEN <<>> ELSE SubSeq(s, CodeLength + 1, Len(s))

LEMMA EndCuts ==
    ASSUME NEW k \in Nat, NEW s \in Seq(Nat), NEW q \in Seq(Nat), NEW T \in Nat,
           End(k, s, q, T), Len(s) >= CodeLength
    PROVE  End(k + 1, Past(s), q, T)
<1>1. /\ Cut(k) \in Nat /\ Cut(k + 1) = Cut(k) + CodeLength /\ CodeLength \in Nat
      /\ CodeLength > 1 /\ Len(s) \in Nat
  BY Cutting
<1>2. \A i \in 1..Len(s) : s[i] = Cut(k) + i
  BY DEF End
<1>3. /\ Len(Past(s)) = Len(s) - CodeLength
      /\ DOMAIN Past(s) = 1..(Len(s) - CodeLength)
      /\ \A i \in 1..(Len(s) - CodeLength) : Past(s)[i] = s[CodeLength + i]
  <2>1. CASE Len(s) = CodeLength
    <3>1. Past(s) = <<>> /\ Len(s) - CodeLength = 0
      BY <1>1, <2>1 DEF Past
    <3>2. 1..0 = {}
      OBVIOUS
    <3> QED
      BY <3>1, <3>2
  <2>2. CASE Len(s) > CodeLength
    <3> DEFINE a == CodeLength + 1
               z == Len(s)
    <3>1. \A i \in a..z : i \in 1..Len(s)
      BY <1>1
    <3>2. a \in 1..(Len(s) + 1) /\ z \in 0..Len(s) /\ a <= z
      BY <1>1, <2>2
    <3>3. Past(s) = SubSeq(s, a, z)
      BY <1>1, <2>2 DEF Past
    <3>4. /\ Len(SubSeq(s, a, z)) = z - a + 1
          /\ SubSeq(s, a, z) \in Seq(Nat)
          /\ \A i \in 1..(z - a + 1) : SubSeq(s, a, z)[i] = s[a + i - 1]
      BY <1>1, <3>1, <3>2, SubSeqProperties
    <3>5. z - a + 1 = Len(s) - CodeLength
      BY <1>1
    <3>6. \A i \in 1..(Len(s) - CodeLength) : a + i - 1 = CodeLength + i
      BY <1>1
    <3> HIDE DEF a, z
    <3> QED
      BY <3>3, <3>4, <3>5, <3>6
  <2> QED
    BY <1>1, <2>1, <2>2
<1>4. \A i \in DOMAIN Past(s) : Past(s)[i] = Cut(k + 1) + i
  <2> TAKE i \in DOMAIN Past(s)
  <2>1. i \in 1..(Len(s) - CodeLength) /\ Past(s)[i] = s[CodeLength + i]
    BY <1>3
  <2>2. CodeLength + i \in 1..Len(s)
    <3> DEFINE z == Len(s)
    <3>1. i \in 1..(z - CodeLength) /\ z \in Nat
      BY <1>1, <2>1
    <3> HIDE DEF z
    <3>2. CodeLength + i \in 1..z
      BY <1>1, <3>1
    <3> QED
      BY <3>2 DEF z
  <2>3. s[CodeLength + i] = Cut(k) + (CodeLength + i)
    BY <1>2, <2>2
  <2> QED
    BY <1>1, <2>1, <2>3
<1>5. Cut(k + 1) + Len(Past(s)) = Cut(k) + Len(s)
  BY <1>1, <1>3
<1> QED
  BY <1>4, <1>5 DEF End

(* Two ends that have cut the same codes and wait for nothing hold the same. *)
LEMMA EndsMeet ==
    ASSUME NEW k \in Nat, NEW s \in Seq(Nat), NEW r \in Seq(Nat), NEW T \in Nat,
           End(k, s, <<>>, T), End(k, r, <<>>, T)
    PROVE  s = r
<1>1. Cut(k) \in Nat
  BY Cutting
<1>2. Len(s) \in Nat /\ Len(r) \in Nat
  OBVIOUS
<1> DEFINE a == Cut(k) + Len(s)
           b == Cut(k) + Len(r)
<1>3. a \in Nat /\ b \in Nat /\ Stream(<<>>, a, T) /\ Stream(<<>>, b, T)
  BY <1>1, <1>2 DEF End
<1>4. a = T /\ b = T
  <2> HIDE DEF a, b
  <2> QED  BY <1>3, StreamEmpty
<1>5. Len(s) = Len(r)
  BY <1>1, <1>2, <1>4
<1>6. \A i \in 1..Len(s) : s[i] = r[i]
  BY <1>5 DEF End
<1> QED
  BY <1>5, <1>6, SeqEqual

-----------------------------------------------------------------------------
(* The edit sessions: the letters among them, and the codes cut so far.    *)

KeysOf(l) == [i \in DOMAIN l |-> IF l[i].kind = "letter" THEN l[i].arg ELSE Hide]
KeyOf(r) == IF r.kind = "letter" THEN r.arg ELSE Hide
CodesOf(r) == IF r.kind = "commit" THEN 1 ELSE 0

LEMMA KeysOfLane ==
    ASSUME NEW l \in Seq(Sessions)
    PROVE  /\ KeysOf(l) \in Seq(Nat)
           /\ l # <<>> => /\ KeysOf(l) # <<>>
                          /\ Head(KeysOf(l)) = KeyOf(Head(l))
                          /\ KeysOf(Tail(l)) = Tail(KeysOf(l))
           /\ \A r \in Sessions : KeysOf(Append(l, r)) = Append(KeysOf(l), KeyOf(r))
<1>1. \A r \in Sessions : KeyOf(r) \in Nat
  BY SessionTypes DEF KeyOf, Hide, Letters
<1>2. /\ Len(l) \in Nat /\ DOMAIN l = 1..Len(l)
      /\ \A i \in DOMAIN l : l[i] \in Sessions
  OBVIOUS
<1>3. KeysOf(l) = [i \in 1..Len(l) |-> KeyOf(l[i])]
  BY <1>2 DEF KeysOf, KeyOf
<1>4. KeysOf(l) \in Seq(Nat) /\ Len(KeysOf(l)) = Len(l)
  BY <1>1, <1>2, <1>3
<1>5. ASSUME l # <<>>
      PROVE  /\ KeysOf(l) # <<>>
             /\ Head(KeysOf(l)) = KeyOf(Head(l))
             /\ KeysOf(Tail(l)) = Tail(KeysOf(l))
  <2>1. Len(l) # 0
    BY <1>5
  <2>2. KeysOf(l) # <<>>
    BY <1>2, <1>4, <2>1
  <2>3. Head(KeysOf(l)) = KeyOf(Head(l))
    BY <1>2, <1>3, <1>4, <2>1
  <2> DEFINE t == Tail(l)
             u == Tail(KeysOf(l))
  <2>4. t \in Seq(Sessions) /\ Len(t) = Len(l) - 1 /\ DOMAIN t = 1..(Len(l) - 1)
    BY <1>2, <1>5, <2>1
  <2>5. \A i \in 1..(Len(l) - 1) : t[i] = l[i + 1]
    BY <1>5
  <2>6. u \in Seq(Nat) /\ Len(u) = Len(l) - 1
    BY <1>2, <1>4, <2>2
  <2>7. \A i \in 1..(Len(l) - 1) : u[i] = KeysOf(l)[i + 1]
    BY <1>4, <2>2
  <2>8. \A i \in 1..(Len(l) - 1) : KeysOf(l)[i + 1] = KeyOf(l[i + 1])
    BY <1>2, <1>3
  <2> HIDE DEF t, u
  <2>9. KeysOf(t) = [i \in 1..(Len(l) - 1) |-> KeyOf(t[i])]
    BY <2>4 DEF KeysOf, KeyOf
  <2>10. KeysOf(t) \in Seq(Nat) /\ Len(KeysOf(t)) = Len(l) - 1
    <3>1. \A i \in 1..(Len(l) - 1) : KeyOf(t[i]) \in Nat
      BY <1>1, <2>4
    <3>2. Len(l) - 1 \in Nat
      BY <1>2, <2>1
    <3> QED
      BY <2>9, <3>1, <3>2
  <2>11. \A i \in 1..(Len(l) - 1) : KeysOf(t)[i] = u[i]
    BY <2>5, <2>7, <2>8, <2>9
  <2>12. KeysOf(t) = u
    BY <2>6, <2>10, <2>11, SeqEqual
  <2> QED
    BY <2>2, <2>3, <2>12 DEF t, u
<1>6. ASSUME NEW r \in Sessions
      PROVE  KeysOf(Append(l, r)) = Append(KeysOf(l), KeyOf(r))
  <2> DEFINE t == Append(l, r)
             u == Append(KeysOf(l), KeyOf(r))
             n == Len(l) + 1
  <2>1. /\ t \in Seq(Sessions) /\ Len(t) = n /\ DOMAIN t = 1..n /\ t[n] = r
        /\ \A i \in 1..Len(l) : t[i] = l[i]
    BY <1>2
  <2>2. /\ u \in Seq(Nat) /\ Len(u) = n /\ u[n] = KeyOf(r)
        /\ \A i \in 1..Len(l) : u[i] = KeysOf(l)[i]
    BY <1>1, <1>4
  <2> HIDE DEF t, u
  <2>3. KeysOf(t) = [i \in 1..n |-> KeyOf(t[i])]
    BY <2>1 DEF KeysOf, KeyOf
  <2>4. KeysOf(t) \in Seq(Nat) /\ Len(KeysOf(t)) = n
    <3>1. \A i \in 1..n : KeyOf(t[i]) \in Nat
      BY <1>1, <2>1
    <3>2. n \in Nat
      BY <1>2
    <3> QED
      BY <2>3, <3>1, <3>2
  <2>5. \A i \in 1..n : KeysOf(t)[i] = u[i]
    <3> TAKE i \in 1..n
    <3>1. CASE i = n
      BY <2>1, <2>2, <2>3, <3>1
    <3>2. CASE i \in 1..Len(l)
      BY <1>3, <2>1, <2>2, <2>3, <3>2
    <3> QED
      BY <1>2, <3>1, <3>2
  <2>6. KeysOf(t) = u
    BY <2>2, <2>4, <2>5, SeqEqual
  <2> QED
    BY <2>6 DEF t, u
<1> QED
  BY <1>4, <1>5, <1>6

(* m[i] is how many codes the client will have cut before the i-th session  *)
(* of l; a letter lies behind the codes cut before it.                      *)
Marks(m, l) ==
    /\ m \in Seq(Nat) /\ Len(m) = Len(l) + 1
    /\ \A i \in DOMAIN l : m[i + 1] = m[i] + CodesOf(l[i])
    /\ \A i, j \in DOMAIN m : i <= j => m[i] <= m[j]
    /\ \A i \in DOMAIN l : KeyOf(l[i]) # Hide => Cut(m[i]) < KeyOf(l[i])

LEMMA MarksBasics ==
    ASSUME NEW l \in Seq(Sessions), NEW m, Marks(m, l)
    PROVE  /\ m \in Seq(Nat) /\ Len(m) = Len(l) + 1
           /\ 1 \in DOMAIN m /\ Len(m) \in DOMAIN m
           /\ m[1] \in Nat /\ m[Len(m)] \in Nat /\ m[1] <= m[Len(m)]
           /\ DOMAIN m = 1..(Len(l) + 1) /\ DOMAIN l = 1..Len(l)
<1>1. Len(l) \in Nat /\ DOMAIN l = 1..Len(l)
  OBVIOUS
<1>2. m \in Seq(Nat) /\ Len(m) = Len(l) + 1
  BY DEF Marks
<1>3. DOMAIN m = 1..(Len(l) + 1)
  BY <1>2
<1>4. 1 \in DOMAIN m /\ Len(m) \in DOMAIN m /\ 1 <= Len(m)
  BY <1>1, <1>2, <1>3
<1>5. m[1] \in Nat /\ m[Len(m)] \in Nat
  BY <1>2, <1>4
<1>6. m[1] <= m[Len(m)]
  BY <1>4 DEF Marks
<1> QED
  BY <1>1, <1>2, <1>3, <1>4, <1>5, <1>6

LEMMA MarksGrow ==
    ASSUME NEW l \in Seq(Sessions), NEW m, Marks(m, l), NEW r \in Sessions,
           KeyOf(r) # Hide => Cut(m[Len(m)]) < KeyOf(r)
    PROVE  \E n : /\ Marks(n, Append(l, r))
                  /\ n[1] = m[1] /\ n[Len(n)] = m[Len(m)] + CodesOf(r)
<1> DEFINE z == Len(l)
           e == m[Len(m)] + CodesOf(r)
           n == Append(m, e)
           t == Append(l, r)
<1>1. /\ m \in Seq(Nat) /\ Len(m) = z + 1 /\ DOMAIN m = 1..(z + 1)
      /\ z \in Nat /\ m[z + 1] \in Nat /\ DOMAIN l = 1..z
  BY MarksBasics
<1>2. CodesOf(r) \in Nat
  BY DEF CodesOf
<1>3. e \in Nat /\ m[z + 1] <= e
  BY <1>1, <1>2
<1>4. /\ n \in Seq(Nat) /\ Len(n) = z + 2 /\ DOMAIN n = 1..(z + 2) /\ n[z + 2] = e
      /\ \A i \in 1..(z + 1) : n[i] = m[i]
  BY <1>1, <1>3
<1>5. /\ t \in Seq(Sessions) /\ Len(t) = z + 1 /\ DOMAIN t = 1..(z + 1) /\ t[z + 1] = r
      /\ \A i \in 1..z : t[i] = l[i]
  BY <1>1
<1>6. e = m[z + 1] + CodesOf(r)
  BY <1>1
<1> HIDE DEF z, e, n, t
<1>7. \A i \in DOMAIN t : n[i + 1] = n[i] + CodesOf(t[i])
  <2> TAKE i \in DOMAIN t
  <2>1. CASE i = z + 1
    BY <1>1, <1>4, <1>5, <1>6, <2>1
  <2>2. CASE i \in 1..z
    <3>1. m[i + 1] = m[i] + CodesOf(l[i])
      BY <1>1, <2>2 DEF Marks
    <3> QED
      BY <1>1, <1>4, <1>5, <2>2, <3>1
  <2> QED
    BY <1>1, <1>5, <2>1, <2>2
<1>8. \A i, j \in DOMAIN n : i <= j => n[i] <= n[j]
  <2> TAKE i, j \in DOMAIN n
  <2> HAVE i <= j
  <2>1. CASE j = z + 2 /\ i = z + 2
    BY <1>3, <1>4, <2>1
  <2>2. CASE j = z + 2 /\ i \in 1..(z + 1)
    <3>1. m[i] <= m[z + 1]
      BY <1>1, <2>2 DEF Marks
    <3>2. m[i] \in Nat
      BY <1>1, <2>2
    <3> QED
      BY <1>1, <1>3, <1>4, <2>2, <3>1, <3>2
  <2>3. CASE j \in 1..(z + 1)
    <3>1. i \in 1..(z + 1)
      BY <1>1, <1>4, <2>3
    <3>2. m[i] <= m[j]
      BY <1>1, <2>3, <3>1 DEF Marks
    <3> QED
      BY <1>4, <2>3, <3>1, <3>2
  <2> QED
    BY <1>1, <1>4, <2>1, <2>2, <2>3
<1>9. \A i \in DOMAIN t : KeyOf(t[i]) # Hide => Cut(n[i]) < KeyOf(t[i])
  <2> TAKE i \in DOMAIN t
  <2>1. CASE i = z + 1
    BY <1>1, <1>4, <1>5, <2>1
  <2>2. CASE i \in 1..z
    <3>1. KeyOf(l[i]) # Hide => Cut(m[i]) < KeyOf(l[i])
      BY <1>1, <2>2 DEF Marks
    <3> QED
      BY <1>1, <1>4, <1>5, <2>2, <3>1
  <2> QED
    BY <1>1, <1>5, <2>1, <2>2
<1>10. Marks(n, t)
  BY <1>1, <1>4, <1>5, <1>7, <1>8, <1>9 DEF Marks
<1>11. n[1] = m[1] /\ n[Len(n)] = e
  BY <1>1, <1>4
<1> QED
  BY <1>10, <1>11 DEF e, t

LEMMA MarksMove ==
    ASSUME NEW l \in Seq(Sessions), NEW m, Marks(m, l), l # <<>>
    PROVE  \E n : /\ Marks(n, Tail(l))
                  /\ n[1] = m[1] + CodesOf(Head(l)) /\ n[Len(n)] = m[Len(m)]
<1> DEFINE z == Len(l) - 1
           n == Tail(m)
           t == Tail(l)
<1>1. /\ m \in Seq(Nat) /\ Len(m) = z + 2 /\ DOMAIN m = 1..(z + 2)
      /\ DOMAIN l = 1..(z + 1) /\ z \in Nat
  <2>1. Len(l) \in Nat \ {0}
    BY EmptySeq
  <2> QED
    BY <2>1, MarksBasics
<1>2. /\ n \in Seq(Nat) /\ Len(n) = z + 1 /\ DOMAIN n = 1..(z + 1)
      /\ \A i \in 1..(z + 1) : n[i] = m[i + 1]
  <2>1. m # <<>>
    BY <1>1
  <2>2. n \in Seq(Nat) /\ Len(n) = Len(m) - 1
    BY <1>1, <2>1
  <2>3. \A i \in 1..(Len(m) - 1) : n[i] = m[i + 1]
    BY <1>1, <2>1
  <2>4. Len(m) - 1 = z + 1
    BY <1>1
  <2> HIDE DEF z, n
  <2>5. DOMAIN n = 1..(z + 1)
    BY <2>2, <2>4
  <2> QED
    BY <2>2, <2>3, <2>4, <2>5
<1>3. /\ t \in Seq(Sessions) /\ Len(t) = z /\ DOMAIN t = 1..z
      /\ \A i \in 1..z : t[i] = l[i + 1]
  <2>1. t \in Seq(Sessions) /\ Len(t) = z
    OBVIOUS
  <2>2. \A i \in 1..z : t[i] = l[i + 1]
    OBVIOUS
  <2> QED
    BY <2>1, <2>2
<1>4. Head(l) = l[1]
  OBVIOUS
<1> HIDE DEF z, n, t
<1>5. \A i \in DOMAIN t : n[i + 1] = n[i] + CodesOf(t[i])
  <2> TAKE i \in DOMAIN t
  <2>1. i + 1 \in DOMAIN l /\ i \in 1..(z + 1) /\ i + 1 \in 1..(z + 1) /\ i \in 1..z
    BY <1>1, <1>3
  <2>2. m[(i + 1) + 1] = m[i + 1] + CodesOf(l[i + 1])
    BY <2>1 DEF Marks
  <2> QED
    BY <1>2, <1>3, <2>1, <2>2
<1>6. \A i, j \in DOMAIN n : i <= j => n[i] <= n[j]
  <2> TAKE i, j \in DOMAIN n
  <2> HAVE i <= j
  <2>1. i \in 1..(z + 1) /\ j \in 1..(z + 1)
    BY <1>2
  <2>2. i + 1 \in 1..(z + 2) /\ j + 1 \in 1..(z + 2) /\ i + 1 <= j + 1
    BY <1>1, <2>1
  <2>3. m[i + 1] <= m[j + 1]
    BY <1>1, <2>2 DEF Marks
  <2> QED
    BY <1>2, <2>1, <2>3
<1>7. \A i \in DOMAIN t : KeyOf(t[i]) # Hide => Cut(n[i]) < KeyOf(t[i])
  <2> TAKE i \in DOMAIN t
  <2>1. i + 1 \in DOMAIN l /\ i \in 1..(z + 1) /\ i \in 1..z
    BY <1>1, <1>3
  <2>2. KeyOf(l[i + 1]) # Hide => Cut(m[i + 1]) < KeyOf(l[i + 1])
    BY <2>1 DEF Marks
  <2> QED
    BY <1>2, <1>3, <2>1, <2>2
<1>8. Marks(n, t)
  BY <1>1, <1>2, <1>3, <1>5, <1>6, <1>7 DEF Marks
<1>9. n[1] = m[1] + CodesOf(Head(l))
  <2>1. 1 \in DOMAIN l
    BY <1>1
  <2>2. m[1 + 1] = m[1] + CodesOf(l[1])
    BY <2>1 DEF Marks
  <2> QED
    BY <1>1, <1>2, <1>4, <2>2
<1>10. n[Len(n)] = m[Len(m)]
  BY <1>1, <1>2
<1> QED
  BY <1>8, <1>9, <1>10 DEF t

-----------------------------------------------------------------------------
(* Both ends on the one stream.                                            *)

(* The codes the server has cut: those of the commits the client has asked  *)
(* for, and of the pushes on their way to it.                               *)
CodesPushed(m) == m[Len(m)] + pushes + Len(posted)

Aligned(m) ==
    /\ Marks(m, lane)
    /\ End(CodesPushed(m), comp, toServer, typed)
    /\ End(m[1], buffer, KeysOf(lane), typed)

(* As long as no delivery was dropped and no hide came late.                *)
InStep == dropped = 0 /\ late = 0 => \E m : Aligned(m)

LEMMA Streams ==
    ASSUME TypeOK
    PROVE  /\ toServer \in Seq(Nat) /\ comp \in Seq(Nat) /\ buffer \in Seq(Nat)
           /\ lane \in Seq(Sessions) /\ KeysOf(lane) \in Seq(Nat)
           /\ typed \in Nat /\ pushes \in Nat /\ posted \in Seq(Nat)
           /\ Len(posted) \in Nat /\ dropped \in Nat /\ late \in Nat
<1>1. \A l \in Letters : l \in Nat /\ l # Hide
  BY LettersAssumption DEF Letters, Hide
<1>2. Hide \in Nat
  BY DEF Hide
<1>3. toServer \in Seq(Nat)
  <2>1. toServer \in Seq(Letters \cup {Hide})
    BY DEF TypeOK
  <2>2. \A i \in 1..Len(toServer) : toServer[i] \in Nat
    BY <1>1, <1>2, <2>1
  <2> QED
    BY <2>1, <2>2
<1>4. comp \in Seq(Nat) /\ buffer \in Seq(Nat)
  <2>1. comp \in Seq(Letters) /\ buffer \in Seq(Letters)
    BY DEF TypeOK
  <2>2. /\ \A i \in 1..Len(comp) : comp[i] \in Nat
        /\ \A i \in 1..Len(buffer) : buffer[i] \in Nat
    BY <1>1, <2>1
  <2> QED
    BY <2>1, <2>2
<1>5. /\ lane \in Seq(Sessions)
      /\ pushes \in Nat /\ posted \in Seq(Nat) /\ dropped \in Nat /\ late \in Nat
  BY DEF TypeOK
<1>6. typed \in Nat
  BY LettersAssumption DEF TypeOK
<1>7. KeysOf(lane) \in Seq(Nat)
  BY <1>5, KeysOfLane
<1>8. Len(posted) \in Nat
  BY <1>5
<1> QED
  BY <1>3, <1>4, <1>5, <1>6, <1>7, <1>8

(* The client cuts no code the server has not, and the server none that was *)
(* not typed.                                                               *)
LEMMA CutsFollow ==
    ASSUME TypeOK, NEW m, Aligned(m)
    PROVE  /\ m[1] \in Nat /\ m[Len(m)] \in Nat /\ CodesPushed(m) \in Nat
           /\ m[Len(m)] <= CodesPushed(m)
           /\ Cut(m[Len(m)]) <= typed
<1>1. lane \in Seq(Sessions) /\ Marks(m, lane)
  BY Streams DEF Aligned
<1>2. m[1] \in Nat /\ m[Len(m)] \in Nat
  BY <1>1, MarksBasics
<1>3. pushes \in Nat /\ Len(posted) \in Nat /\ typed \in Nat
  BY Streams
<1>4. CodesPushed(m) \in Nat /\ m[Len(m)] <= CodesPushed(m)
  BY <1>2, <1>3 DEF CodesPushed
<1> DEFINE k == CodesPushed(m)
           a == Cut(m[Len(m)])
           b == Cut(k)
           n == Len(comp)
<1>5. a \in Nat /\ b \in Nat
  BY <1>2, <1>4, Cutting
<1>6. a <= b
  BY <1>2, <1>4, Cutting
<1>7. b + n <= typed
  BY DEF Aligned, End, Stream
<1>8. n \in Nat
  <2>1. comp \in Seq(Nat)
    BY Streams
  <2> QED
    BY <2>1
<1>9. a <= typed
  <2> HIDE DEF a, b, n, k
  <2> QED
    BY <1>3, <1>5, <1>6, <1>7, <1>8
<1> QED
  BY <1>2, <1>4, <1>9

LEMMA TypeLetterAligns ==
    ASSUME TypeOK, NEW m, Aligned(m), TypeLetter
    PROVE  \E n : Aligned(n)'
<1> DEFINE r == LetterSession(typed + 1)
<1>1. /\ typed' = typed + 1 /\ toServer' = Append(toServer, typed + 1)
      /\ lane' = Append(lane, r)
      /\ pushes' = pushes /\ posted' = posted /\ comp' = comp /\ buffer' = buffer
  BY DEF TypeLetter, server
<1>2. typed + 1 \in Letters /\ typed + 1 # Hide
  BY LettersAssumption DEF TypeLetter, TypeOK, Letters, Hide
<1>3. r \in Sessions /\ KeyOf(r) = typed + 1 /\ CodesOf(r) = 0
  BY <1>2, SessionTypes DEF LetterSession, KeyOf, CodesOf
<1>4. lane \in Seq(Sessions) /\ Marks(m, lane)
  BY Streams DEF Aligned
<1>5. Cut(m[Len(m)]) < KeyOf(r)
  <2>1. Cut(m[Len(m)]) \in Nat /\ Cut(m[Len(m)]) <= typed /\ typed \in Nat
    BY CutsFollow, Cutting, Streams
  <2> QED
    BY <1>3, <2>1
<1> HIDE DEF r
<1>6. PICK n : /\ Marks(n, lane')
               /\ n[1] = m[1] /\ n[Len(n)] = m[Len(m)] + 0
  BY <1>1, <1>3, <1>4, <1>5, MarksGrow
<1>7. n[Len(n)] = m[Len(m)]
  BY <1>6, CutsFollow
<1>8. End(CodesPushed(m), comp, toServer', typed')
  <2>1. End(CodesPushed(m), comp, toServer, typed)
    BY DEF Aligned
  <2> QED
    BY <1>1, <2>1, CutsFollow, Streams, EndGrows
<1>9. End(m[1], buffer, KeysOf(lane'), typed')
  <2>1. KeysOf(lane') = Append(KeysOf(lane), typed + 1)
    BY <1>1, <1>3, <1>4, KeysOfLane
  <2>2. End(m[1], buffer, KeysOf(lane), typed)
    BY DEF Aligned
  <2> QED
    BY <1>1, <2>1, <2>2, CutsFollow, Streams, EndGrows
<1>10. CodesPushed(n)' = CodesPushed(m)
  BY <1>1, <1>7 DEF CodesPushed
<1>11. KeysOf(lane)' = KeysOf(lane')
  OBVIOUS
<1> QED
  BY <1>1, <1>6, <1>8, <1>9, <1>10, <1>11 DEF Aligned

LEMMA GrantLetterAligns ==
    ASSUME TypeOK, NEW m, Aligned(m), GrantLetter
    PROVE  \E n : Aligned(n)'
<1> DEFINE r == Head(lane)
<1>1. /\ lane # <<>> /\ r.kind = "letter" /\ lane' = Tail(lane)
      /\ buffer' = Append(buffer, r.arg)
      /\ UNCHANGED <<typed, toServer, pushes, comp, posted>>
  BY DEF GrantLetter, server
<1>2. lane \in Seq(Sessions) /\ Marks(m, lane)
  BY Streams DEF Aligned
<1>3. r \in Sessions
  BY <1>1, <1>2, RestOfSequence
<1>4. KeyOf(r) = r.arg /\ KeyOf(r) # Hide /\ CodesOf(r) = 0
  BY <1>1, <1>3, SessionTypes, LettersAssumption DEF KeyOf, CodesOf, Letters, Hide
<1> HIDE DEF r
<1>5. PICK n : /\ Marks(n, lane')
               /\ n[1] = m[1] + 0 /\ n[Len(n)] = m[Len(m)]
  BY <1>1, <1>2, <1>4, MarksMove DEF r
<1>6. n[1] = m[1]
  BY <1>5, CutsFollow
<1>7. End(m[1], buffer', KeysOf(lane'), typed)
  <2>1. /\ KeysOf(lane) # <<>> /\ Head(KeysOf(lane)) = KeyOf(r)
        /\ KeysOf(lane') = Tail(KeysOf(lane))
    BY <1>1, <1>2, KeysOfLane DEF r
  <2>2. End(m[1], buffer, KeysOf(lane), typed)
    BY DEF Aligned
  <2> QED
    BY <1>1, <1>4, <2>1, <2>2, CutsFollow, Streams, EndTakes
<1>8. End(CodesPushed(n)', comp', toServer', typed')
  BY <1>1, <1>5 DEF Aligned, CodesPushed
<1> QED
  BY <1>1, <1>5, <1>6, <1>7, <1>8 DEF Aligned

LEMMA DeliveryAligns ==
    ASSUME TypeOK, NEW m, Aligned(m),
           PostServerTextDelivery \/ OnCommitMessage, dropped' = dropped
    PROVE  \E n : Aligned(n)'
<1>1. /\ posted \in Seq(Nat) /\ Len(posted) \in Nat /\ pushes \in Nat
      /\ lane \in Seq(Sessions) /\ Marks(m, lane) /\ epoch \in Nat /\ dropped \in Nat
  BY Streams DEF Aligned, TypeOK
<1>2. UNCHANGED <<typed, toServer, comp, buffer>>
  BY DEF PostServerTextDelivery, OnCommitMessage, server
<1>3. CASE PostServerTextDelivery
  <2>1. pushes' = pushes - 1 /\ Len(posted') = Len(posted) + 1 /\ lane' = lane
    BY <1>1, <1>3 DEF PostServerTextDelivery
  <2>2. CodesPushed(m)' = CodesPushed(m)
    <3>1. m[Len(m)] \in Nat
      BY CutsFollow
    <3> QED
      BY <1>1, <2>1, <3>1 DEF CodesPushed
  <2>3. Aligned(m)'
    BY <1>2, <2>1, <2>2 DEF Aligned
  <2> QED
    BY <2>3
<1>4. CASE OnCommitMessage
  <2> DEFINE r == CommitSession(epoch)
  <2>1. /\ Len(posted') = Len(posted) - 1 /\ pushes' = pushes
        /\ lane' = Append(lane, r)
    BY <1>1, <1>4 DEF OnCommitMessage
  <2>2. r \in Sessions /\ KeyOf(r) = Hide /\ CodesOf(r) = 1
    BY <1>1, SessionTypes DEF CommitSession, KeyOf, CodesOf
  <2> HIDE DEF r
  <2>3. PICK n : /\ Marks(n, lane')
                 /\ n[1] = m[1] /\ n[Len(n)] = m[Len(m)] + 1
    BY <1>1, <2>1, <2>2, MarksGrow
  <2>4. CodesPushed(n)' = CodesPushed(m)
    <3>1. m[Len(m)] \in Nat
      BY CutsFollow
    <3> QED
      BY <1>1, <2>1, <2>3, <3>1 DEF CodesPushed
  <2>5. End(m[1], buffer, KeysOf(lane'), typed)
    <3>1. KeysOf(lane') = Append(KeysOf(lane), Hide)
      BY <1>1, <2>1, <2>2, KeysOfLane
    <3>2. End(m[1], buffer, KeysOf(lane), typed)
      BY DEF Aligned
    <3> QED
      BY <3>1, <3>2, CutsFollow, Streams, EndGrows
  <2> QED
    BY <1>2, <2>3, <2>4, <2>5 DEF Aligned
<1> QED
  BY <1>3, <1>4

(* A commit that is granted finds the whole of its code in the buffer: the  *)
(* letters behind it in the lane are those of later codes.                  *)
LEMMA CodeIsHere ==
    ASSUME TypeOK, NEW m, Aligned(m), lane # <<>>, Head(lane).kind = "commit"
    PROVE  Len(buffer) >= CodeLength
<1> DEFINE g == Cut(m[1]) + Len(buffer)
           z == Len(lane)
           q == KeysOf(lane)
<1>1. /\ lane \in Seq(Sessions) /\ Marks(m, lane) /\ typed \in Nat
      /\ buffer \in Seq(Nat)
  BY Streams DEF Aligned
<1>2. /\ z \in Nat \ {0} /\ DOMAIN lane = 1..z /\ DOMAIN m = 1..(z + 1)
      /\ m \in Seq(Nat) /\ Len(m) = z + 1
  <2>1. z \in Nat \ {0}
    BY <1>1, EmptySeq
  <2> QED
    BY <1>1, <2>1, MarksBasics
<1>3. CodesOf(lane[1]) = 1 /\ KeyOf(lane[1]) = Hide
  BY <1>1 DEF CodesOf, KeyOf
<1>4. m[2] = m[1] + 1 /\ m[1] \in Nat
  <2>1. 1 \in DOMAIN lane
    BY <1>2
  <2>2. m[1 + 1] = m[1] + CodesOf(lane[1])
    BY <1>1, <2>1 DEF Marks
  <2> QED
    BY <1>3, <2>2, CutsFollow
<1>5. Cut(m[2]) = Cut(m[1]) + CodeLength /\ Cut(m[1]) \in Nat /\ Cut(m[2]) \in Nat
  <2>1. m[2] \in Nat
    BY <1>4
  <2>2. Cut(m[2]) \in Nat /\ Cut(m[1]) \in Nat
    BY <1>4, <2>1, Cutting
  <2>3. Cut(m[1] + 1) = Cut(m[1]) + CodeLength
    BY <1>4, Cutting
  <2> QED
    BY <1>4, <2>2, <2>3
<1>6. g \in Nat
  BY <1>1, <1>5
<1>7. Cut(m[2]) <= typed
  <2>1. 2 \in DOMAIN m /\ Len(m) \in DOMAIN m /\ 2 <= Len(m)
    BY <1>2
  <2>2. m[2] <= m[Len(m)]
    BY <1>1, <2>1 DEF Marks
  <2>3. m[2] \in Nat /\ m[Len(m)] \in Nat
    BY <1>4, CutsFollow
  <2>4. Cut(m[2]) <= Cut(m[Len(m)]) /\ Cut(m[Len(m)]) \in Nat
    BY <2>2, <2>3, Cutting
  <2>5. Cut(m[Len(m)]) <= typed
    BY CutsFollow
  <2> QED
    BY <1>1, <1>5, <2>4, <2>5
<1>8. Stream(q, g, typed)
  BY DEF Aligned, End
<1>9. \A i \in DOMAIN q : i \in 1..z /\ q[i] = KeyOf(lane[i])
  BY <1>2 DEF KeysOf, KeyOf
<1> HIDE DEF g, z, q
<1>10. ASSUME g < Cut(m[2]) PROVE FALSE
  <2>1. g + 1 \in (g + 1)..typed
    BY <1>1, <1>5, <1>6, <1>7, <1>10
  <2>2. PICK i \in DOMAIN q : q[i] = g + 1
    BY <1>8, <2>1 DEF Stream
  <2>3. i \in 1..z /\ KeyOf(lane[i]) = g + 1
    BY <1>9, <2>2
  <2>4. KeyOf(lane[i]) # Hide
    BY <1>6, <2>3 DEF Hide
  <2>5. i # 1
    BY <1>3, <2>4
  <2>6. 2 \in DOMAIN m /\ i \in DOMAIN m /\ 2 <= i
    BY <1>2, <2>3, <2>5
  <2>7. m[2] <= m[i] /\ m[2] \in Nat /\ m[i] \in Nat
    <3>1. m[2] <= m[i]
      BY <1>1, <2>6 DEF Marks
    <3>2. m[2] \in Nat /\ m[i] \in Nat
      BY <1>2, <2>6
    <3> QED
      BY <3>1, <3>2
  <2>8. Cut(m[2]) <= Cut(m[i]) /\ Cut(m[i]) \in Nat
    BY <2>7, Cutting
  <2>9. Cut(m[i]) < g + 1
    BY <1>1, <1>2, <2>3, <2>4 DEF Marks
  <2> QED
    BY <1>5, <1>6, <1>10, <2>8, <2>9
<1>11. Cut(m[1]) + CodeLength <= g
  BY <1>5, <1>6, <1>10
<1> DEFINE a == Cut(m[1])
           n == Len(buffer)
<1>12. a \in Nat /\ n \in Nat /\ CodeLength \in Nat /\ a + CodeLength <= a + n
  <2>1. n \in Nat
    BY <1>1
  <2> QED
    BY <1>5, <1>11, <2>1, CodeAssumption DEF g
<1> HIDE DEF a, n
<1>13. n >= CodeLength
  BY <1>12
<1> QED
  BY <1>13 DEF n

LEMMA GrantCommitAligns ==
    ASSUME TypeOK, NEW m, Aligned(m), GrantCommit, dropped' = dropped
    PROVE  \E n : Aligned(n)'
<1> DEFINE r == Head(lane)
<1>1. lane # <<>> /\ r.kind = "commit" /\ lane' = Tail(lane)
  BY DEF GrantCommit
<1>2. /\ buffer' = Past(buffer) /\ toServer' = Append(toServer, Hide)
      /\ UNCHANGED <<typed, pushes, comp, posted>>
  <2>1. dropped' # dropped + 1
    BY Streams
  <2> QED
    BY <2>1 DEF GrantCommit, HandleCommitCandidateAndContinue, Remainder, Past, server
<1>3. lane \in Seq(Sessions) /\ Marks(m, lane)
  BY Streams DEF Aligned
<1>4. KeyOf(r) = Hide /\ CodesOf(r) = 1
  BY <1>1 DEF KeyOf, CodesOf
<1>5. PICK n : /\ Marks(n, lane')
               /\ n[1] = m[1] + 1 /\ n[Len(n)] = m[Len(m)]
  BY <1>1, <1>3, <1>4, MarksMove
<1>6. End(m[1] + 1, buffer', KeysOf(lane'), typed)
  <2>1. /\ KeysOf(lane) # <<>> /\ Head(KeysOf(lane)) = Hide
        /\ KeysOf(lane') = Tail(KeysOf(lane))
    BY <1>1, <1>3, <1>4, KeysOfLane
  <2>2. End(m[1], buffer, KeysOf(lane), typed)
    BY DEF Aligned
  <2>3. End(m[1], buffer, KeysOf(lane'), typed)
    BY <2>1, <2>2, CutsFollow, Streams, EndTakes
  <2>4. KeysOf(lane') \in Seq(Nat)
    <3>1. lane' \in Seq(Sessions)
      BY <1>1, <1>3
    <3> QED
      BY <3>1, KeysOfLane
  <2>5. Len(buffer) >= CodeLength
    BY <1>1, CodeIsHere
  <2> QED
    BY <1>2, <2>3, <2>4, <2>5, CutsFollow, Streams, EndCuts
<1>7. End(CodesPushed(m), comp, toServer', typed)
  <2>1. End(CodesPushed(m), comp, toServer, typed)
    BY DEF Aligned
  <2> QED
    BY <1>2, <2>1, CutsFollow, Streams, EndGrows
<1>8. CodesPushed(n)' = CodesPushed(m)
  BY <1>2, <1>5 DEF CodesPushed
<1> QED
  BY <1>2, <1>5, <1>6, <1>7, <1>8 DEF Aligned

(* A letter taken by the server joins its composition; a push cuts a code.  *)
LEMMA ServerLetterAligns ==
    ASSUME TypeOK, NEW m, Aligned(m), PlainLetter \/ AutoCommit \/ TopCommit
    PROVE  \E n : Aligned(n)'
<1> DEFINE k == CodesPushed(m)
           h == Head(toServer)
           q == Tail(toServer)
<1>1. /\ toServer # <<>> /\ h # Hide /\ toServer' = q
      /\ UNCHANGED <<typed, posted, lane, buffer>>
  BY DEF PlainLetter, AutoCommit, TopCommit, TakesLetter, client
<1>2. /\ k \in Nat /\ m[Len(m)] \in Nat /\ toServer \in Seq(Nat) /\ comp \in Seq(Nat)
      /\ typed \in Nat /\ pushes \in Nat /\ Len(posted) \in Nat
  BY CutsFollow, Streams
<1>3. h \in Nat /\ q \in Seq(Nat)
  BY <1>1, <1>2
<1>4. End(k, comp, toServer, typed)
  BY DEF Aligned
<1>5. CodeLength \in Nat /\ CodeLength > 1
  BY CodeAssumption
<1>6. ASSUME NEW s, NEW d \in {0, 1},
             comp' = s, pushes' = pushes + d, End(k + d, s, q, typed)
      PROVE  Aligned(m)'
  <2>1. CodesPushed(m)' = k + d
    <3>1. CodesPushed(m)' = m[Len(m)] + (pushes + d) + Len(posted)
      BY <1>1, <1>6 DEF CodesPushed
    <3>2. k = m[Len(m)] + pushes + Len(posted)
      BY DEF CodesPushed
    <3> DEFINE a == m[Len(m)]
               b == Len(posted)
    <3>3. a \in Nat /\ b \in Nat /\ d \in Nat
      BY <1>2
    <3> HIDE DEF a, b, k
    <3>4. a + (pushes + d) + b = (a + pushes + b) + d
      BY <1>2, <3>3
    <3> QED
      BY <3>1, <3>2, <3>4 DEF a, b
  <2> QED
    BY <1>1, <1>6, <2>1 DEF Aligned
<1>7. CASE PlainLetter
  <2>1. comp' = Append(comp, h) /\ pushes' = pushes + 0
    BY <1>2, <1>7 DEF PlainLetter
  <2>2. End(k + 0, Append(comp, h), q, typed)
    <3>1. End(k, Append(comp, h), q, typed)
      BY <1>1, <1>2, <1>4, EndTakes
    <3>2. k + 0 = k
      BY <1>2
    <3> QED
      BY <3>1, <3>2
  <2> QED
    BY <1>6, <2>1, <2>2
<1>8. CASE AutoCommit
  <2> DEFINE s == Append(comp, h)
  <2>1. comp' = <<>> /\ pushes' = pushes + 1 /\ Len(comp) = CodeLength - 1
    BY <1>8 DEF AutoCommit, NoteTopCommitPushed
  <2>2. s \in Seq(Nat) /\ Len(s) = CodeLength
    BY <1>2, <1>3, <1>5, <2>1
  <2>3. End(k, s, q, typed)
    BY <1>1, <1>2, <1>4, EndTakes
  <2>4. Past(s) = <<>>
    BY <1>5, <2>2 DEF Past
  <2> HIDE DEF s, k, q
  <2>5. Len(s) >= CodeLength
    BY <1>5, <2>2
  <2>6. End(k + 1, <<>>, q, typed)
    BY <1>2, <1>3, <2>2, <2>3, <2>4, <2>5, EndCuts
  <2> QED
    BY <1>6, <2>1, <2>6
<1>9. CASE TopCommit
  <2>1. comp' = <<h>> /\ pushes' = pushes + 1 /\ Len(comp) = CodeLength
    BY <1>9 DEF TopCommit, NoteTopCommitPushed
  <2>2. Past(comp) = <<>> /\ Len(comp) >= CodeLength
    BY <1>5, <2>1 DEF Past
  <2>3. End(k + 1, <<>>, toServer, typed)
    <3> HIDE DEF k
    <3> QED
      BY <1>2, <1>4, <2>2, EndCuts
  <2>4. <<>> \in Seq(Nat) /\ k + 1 \in Nat /\ Append(<<>>, h) = <<h>>
    BY <1>2, <1>3
  <2>5. End(k + 1, Append(<<>>, h), q, typed)
    <3> DEFINE j == k + 1
               e == <<>>
    <3>1. j \in Nat /\ e \in Seq(Nat) /\ End(j, e, toServer, typed)
      BY <2>3, <2>4
    <3> HIDE DEF j, e
    <3>2. End(j, Append(e, h), q, typed)
      BY <1>1, <1>2, <3>1, EndTakes
    <3> QED
      BY <3>2 DEF j, e
  <2>6. End(k + 1, <<h>>, q, typed)
    BY <2>4, <2>5
  <2> QED
    BY <1>6, <2>1, <2>6
<1> QED
  BY <1>7, <1>8, <1>9

(* A hide behind which the account holds an entry takes letters only if it  *)
(* is late.                                                                 *)
LEMMA HideAligns ==
    ASSUME TypeOK, HidesAccounted, NEW m, Aligned(m), HideCandidate, late' = late
    PROVE  Aligned(m)'
<1>1. /\ toServer # <<>> /\ Head(toServer) = Hide /\ toServer' = Tail(toServer)
      /\ UNCHANGED <<typed, pushes, posted, lane, buffer>>
  BY DEF HideCandidate, client
<1>2. pending > 0
  <2>1. Cardinality(Positions(Tail(toServer), {Hide})) \in Nat
    <3>1. Tail(toServer) \in Seq(Nat)
      BY <1>1, Streams
    <3> QED
      BY <3>1, PositionsFinite
  <2>2. HidesUnderway = Cardinality(Positions(Tail(toServer), {Hide})) + 1
    BY <1>1, Streams, PositionsTail DEF HidesUnderway
  <2>3. HidesUnderway >= 1 /\ HidesUnderway \in Nat
    BY <2>1, <2>2
  <2> QED
    BY <2>3, AccountTypes, Streams DEF HidesAccounted
<1>3. comp' = comp
  <2>1. CASE fresh
    BY <1>2, <2>1 DEF HideCandidate, PushedHide
  <2>2. CASE ~ fresh
    <3>1. comp = <<>>
      BY <2>2, Streams DEF HideCandidate
    <3> QED
      BY <3>1 DEF HideCandidate
  <2> QED
    BY <2>1, <2>2 DEF TypeOK
<1>4. End(CodesPushed(m), comp, Tail(toServer), typed)
  <2>1. End(CodesPushed(m), comp, toServer, typed)
    BY DEF Aligned
  <2> QED
    BY <1>1, <2>1, CutsFollow, Streams, EndTakes
<1>5. CodesPushed(m)' = CodesPushed(m)
  BY <1>1 DEF CodesPushed
<1> QED
  BY <1>1, <1>3, <1>4, <1>5 DEF Aligned

LEMMA NextInStep ==
    ASSUME TypeOK, HidesAccounted, InStep, [Next]_vars
    PROVE  InStep'
<1> SUFFICES ASSUME dropped' = 0, late' = 0
             PROVE  \E n : Aligned(n)'
  BY DEF InStep
<1>1. dropped = 0 /\ late = 0
  <2>1. /\ dropped' \in {dropped, dropped + 1} /\ late' \in {late, late + 1}
    BY DEF Next, TypeLetter, GrantLetter, PostServerTextDelivery, OnCommitMessage,
           GrantCommit, HandleCommitCandidateAndContinue, PlainLetter, AutoCommit,
           TopCommit, TakesLetter, HideCandidate, LimitPasses, vars
  <2>2. dropped \in Nat /\ late \in Nat
    BY Streams
  <2> QED
    BY <2>1, <2>2
<1>2. PICK m : Aligned(m)
  BY <1>1 DEF InStep
<1>3. CASE TypeLetter
  BY <1>2, <1>3, TypeLetterAligns
<1>4. CASE GrantLetter
  BY <1>2, <1>4, GrantLetterAligns
<1>5. CASE PostServerTextDelivery \/ OnCommitMessage
  BY <1>1, <1>2, <1>5, DeliveryAligns
<1>6. CASE GrantCommit
  BY <1>1, <1>2, <1>6, GrantCommitAligns
<1>7. CASE PlainLetter \/ AutoCommit \/ TopCommit
  BY <1>2, <1>7, ServerLetterAligns
<1>8. CASE HideCandidate
  BY <1>1, <1>2, <1>8, HideAligns
<1>9. CASE LimitPasses \/ UNCHANGED vars
  <2>1. UNCHANGED <<typed, toServer, comp, pushes, posted, lane, buffer>>
    BY <1>9 DEF LimitPasses, client, server, vars
  <2>2. CodesPushed(m)' = CodesPushed(m)
    BY <2>1 DEF CodesPushed
  <2>3. Aligned(m)'
    BY <1>2, <2>1, <2>2 DEF Aligned
  <2> QED
    BY <2>3
<1> QED
  BY <1>3, <1>4, <1>5, <1>6, <1>7, <1>8, <1>9 DEF Next

LEMMA InitInStep == Init => InStep
<1> SUFFICES ASSUME Init PROVE InStep
  OBVIOUS
<1> DEFINE m == <<0>>
<1>1. /\ toServer = <<>> /\ comp = <<>> /\ buffer = <<>> /\ lane = <<>> /\ posted = <<>>
      /\ typed = 0 /\ pushes = 0
  BY DEF Init
<1>2. m \in Seq(Nat) /\ Len(m) = 1 /\ m[1] = 0
  OBVIOUS
<1>3. /\ DOMAIN <<>> = {} /\ Len(<<>>) = 0
  OBVIOUS
<1> HIDE DEF m
<1>4. DOMAIN m = {1}
  BY <1>2
<1>5. Marks(m, lane)
  BY <1>1, <1>2, <1>3, <1>4 DEF Marks
<1>6. KeysOf(lane) = <<>>
  BY <1>1, <1>3 DEF KeysOf
<1>7. Cut(0) = 0
  BY CodeAssumption DEF Cut
<1>8. End(0, <<>>, <<>>, 0)
  BY <1>3, <1>7, StreamEmpty DEF End
<1>9. CodesPushed(m) = 0
  BY <1>1, <1>2, <1>3 DEF CodesPushed
<1>10. Aligned(m)
  BY <1>1, <1>2, <1>5, <1>6, <1>8, <1>9 DEF Aligned
<1> QED
  BY <1>10 DEF InStep

(* The server cuts a code when it pushes, the client when the edit session  *)
(* is granted, with letters, pushes and hides crossing on the way: once     *)
(* everything has arrived both hold the same letters, unless a delivery was *)
(* dropped or a hide came after the limit                                   *)
(* (event_listener_keys.cpp:1353-1356).                                     *)
THEOREM BothEndsAgree == Spec => []EndsAgree
<1>1. TypeOK /\ InStep => EndsAgree
  <2> SUFFICES ASSUME TypeOK, InStep, Settled, dropped = 0, late = 0
               PROVE  buffer = comp
    BY DEF EndsAgree
  <2>1. PICK m : Aligned(m)
    BY DEF InStep
  <2>2. toServer = <<>> /\ pushes = 0 /\ posted = <<>> /\ lane = <<>>
    BY DEF Settled
  <2>3. DOMAIN <<>> = {} /\ Len(<<>>) = 0
    OBVIOUS
  <2>4. KeysOf(lane) = <<>>
    BY <2>2, <2>3 DEF KeysOf
  <2>5. m[1] \in Nat /\ Len(m) = 1
    BY <2>1, <2>2, <2>3, CutsFollow DEF Aligned, Marks
  <2>6. CodesPushed(m) = m[1]
    BY <2>2, <2>3, <2>5 DEF CodesPushed
  <2>7. End(m[1], comp, <<>>, typed) /\ End(m[1], buffer, <<>>, typed)
    BY <2>1, <2>2, <2>4, <2>6 DEF Aligned
  <2> QED
    BY <2>5, <2>7, Streams, EndsMeet
<1>2. TypeOK /\ HidesAccounted /\ InStep /\ [Next]_vars => InStep'
  BY NextInStep
<1> QED
  BY <1>1, <1>2, InitInStep, TypeCorrect, HidesAreAccounted, PTL DEF Spec
=============================================================================
