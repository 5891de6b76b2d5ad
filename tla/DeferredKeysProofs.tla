------------------------- MODULE DeferredKeysProofs -------------------------
(***************************************************************************)
(* TypeOK, NoOvertaking, ProjectionRetired, GateAttended, FlightCarried    *)
(* and SessionOwnsComposition of DeferredKeys, for any contexts, documents *)
(* and bounds.  A handler is a composition of operators on one record, so  *)
(* the lemmas follow the operators: what the transport may touch (Wire),   *)
(* what each operator on keys and resets keeps (Tame), and what it may do  *)
(* to the session that owns the composition (Firm).  Some parts of the     *)
(* invariant are broken in the middle of a handler; what holds there is    *)
(* stated beside them.                                                     *)
(***************************************************************************)
EXTENDS DeferredKeys, SequenceTheorems, TLAPS

-----------------------------------------------------------------------------
(* The record. *)

Fields ==
    {"fifo", "flight", "flightCtx", "posted", "proj", "offline", "asyncs",
     "sessions", "comp", "origin", "top", "tops", "connected", "lossTimer",
     "retry", "mail", "expected", "acked", "ready", "minted", "required",
     "suspend", "pending", "resetToken", "queued", "resync", "reply", "worker",
     "main", "published", "pipeGen", "echoes", "checked", "server", "typed",
     "applied", "troubles"}

Shape(s) == s = [f \in Fields |-> s[f]]

Letters == [kind : Kinds, arg : Nat]

(* The fields that the transport writes. *)
Wired(s) ==
    /\ s.mail \in Seq(Letters)
    /\ s.expected \in Nat /\ s.acked \in Nat /\ s.checked \in Nat
    /\ s.minted \in Nat /\ s.resetToken \in Nat /\ s.resync \in Nat
    /\ s.pipeGen \in Nat
    /\ s.ready \in BOOLEAN /\ s.required \in BOOLEAN /\ s.suspend \in BOOLEAN
    /\ s.pending \in BOOLEAN /\ s.published \in BOOLEAN
    /\ s.reply \in PipeState /\ s.worker \in PipeState /\ s.main \in PipeState
    /\ s.echoes \in Seq(Nat \ {0})
    /\ s.troubles \in 0..MaxTroubles
    /\ s.required => s.expected # 0
    /\ s.pending => s.resetToken # 0

(* The fields it leaves alone. *)
SameKeys(s, r) ==
    /\ r.fifo = s.fifo /\ r.flight = s.flight /\ r.flightCtx = s.flightCtx
    /\ r.asyncs = s.asyncs /\ r.sessions = s.sessions
    /\ r.typed = s.typed /\ r.applied = s.applied

SameHost(s, r) ==
    /\ r.comp = s.comp /\ r.origin = s.origin /\ r.top = s.top /\ r.tops = s.tops
    /\ r.connected = s.connected /\ r.lossTimer = s.lossTimer
    /\ r.offline = s.offline

SameRest(s, r) ==
    /\ r.posted = s.posted /\ r.proj = s.proj /\ r.retry = s.retry
    /\ r.queued = s.queued /\ r.server = s.server

Same(s, r) == SameKeys(s, r) /\ SameHost(s, r) /\ SameRest(s, r)

(* What it posts: a reset it begins is announced in the mailbox. *)
MailGrows(s, r) ==
    /\ \A kind \in Kinds : Inbox(s, kind) \subseteq Inbox(r, kind)
    /\ Inbox(r, "async") = Inbox(s, "async")

Follows(s, r) ==
    /\ s.pending => r.pending
    /\ r.pending => \/ s.pending /\ r.resetToken = s.resetToken
                    \/ r.resetToken \in Inbox(r, "dirty")

Wire(s, r) ==
    /\ Shape(r) /\ Wired(r)
    /\ Same(s, r) /\ MailGrows(s, r) /\ Follows(s, r)

(* A wire step is one that writes only what the transport writes. *)
LEMMA WireStays ==
  ASSUME NEW s, Shape(s), Wired(s)
  PROVE  Wire(s, s)
BY DEF Wire, Same, SameKeys, SameHost, SameRest, MailGrows, Follows

(* Wire steps compose. *)
LEMMA WireTwice ==
  ASSUME NEW s, NEW r, NEW q, Wire(s, r), Wire(r, q)
  PROVE  Wire(s, q)
<1>1. Same(s, q)
  BY DEF Wire, Same, SameKeys, SameHost, SameRest
<1>2. MailGrows(s, q)
  BY DEF Wire, MailGrows
<1>3. Follows(s, q)
  <2>1. "dirty" \in Kinds
    BY DEF Kinds
  <2>2. Inbox(r, "dirty") \subseteq Inbox(q, "dirty")
    BY <2>1 DEF Wire, MailGrows
  <2> QED
    BY <2>2 DEF Wire, Follows
<1> QED
  BY <1>1, <1>2, <1>3 DEF Wire

(* A posted message is in the inbox of its kind. *)
LEMMA Posting ==
  ASSUME NEW s, Shape(s), s.mail \in Seq(Letters), NEW m \in Letters
  PROVE  /\ Shape(Post(s, m))
         /\ Post(s, m).mail \in Seq(Letters)
         /\ \A kind \in Kinds :
              Inbox(Post(s, m), kind) =
                Inbox(s, kind) \cup (IF m.kind = kind THEN {m.arg} ELSE {})
<1>1. Shape(Post(s, m))
  BY DEF Shape, Post
<1>2. Post(s, m).mail = Append(s.mail, m)
  BY DEF Shape, Fields, Post
<1>3. ToSet(Append(s.mail, m)) = ToSet(s.mail) \cup {m}
  BY DEF ToSet
<1> QED
  BY <1>1, <1>2, <1>3 DEF Inbox, Letters

LEMMA MailFixed ==
  ASSUME NEW s, NEW r, r.mail = s.mail
  PROVE  MailGrows(s, r) /\ \A kind : Inbox(r, kind) = Inbox(s, kind)
BY DEF MailGrows, Inbox

LEMMA RequireActivationWires ==
  ASSUME NEW s, Shape(s), Wired(s)
  PROVE  Wire(s, RequireActivation(s))
<1> DEFINE r == RequireActivation(s)
<1>1. Shape(r)
  BY DEF Shape, RequireActivation
<1>2. Wired(r) /\ r.mail = s.mail /\ Follows(s, r)
  BY DEF Shape, Fields, RequireActivation, Wired, Follows
<1>3. Same(s, r)
  BY DEF Shape, Fields, RequireActivation, Same, SameKeys, SameHost, SameRest
<1> QED
  BY <1>1, <1>2, <1>3, MailFixed DEF Wire

-----------------------------------------------------------------------------
(* The transport. *)

(* A write to fields of the transport that posts nothing. *)
LEMMA QuietWire ==
  ASSUME NEW s, NEW r, Shape(r), Wired(r), Same(s, r),
         r.mail = s.mail, r.pending = s.pending, r.resetToken = s.resetToken
  PROVE  Wire(s, r)
<1>1. MailGrows(s, r)
  BY MailFixed
<1>2. Follows(s, r)
  BY DEF Follows
<1> QED
  BY <1>1, <1>2 DEF Wire

(* A message other than a request may be posted by the transport. *)
LEMMA PostWires ==
  ASSUME NEW s, Shape(s), Wired(s), NEW m \in Letters, m.kind # "async"
  PROVE  Wire(s, Post(s, m))
<1> DEFINE r == Post(s, m)
<1>1. Shape(r) /\ r.mail \in Seq(Letters)
  BY Posting DEF Wired
<1>2. Same(s, r) /\ r.pending = s.pending /\ r.resetToken = s.resetToken
  BY DEF Shape, Fields, Post, Same, SameKeys, SameHost, SameRest
<1>3. Wired(r)
  BY <1>1 DEF Shape, Fields, Post, Wired
<1>4. MailGrows(s, r)
  <2>1. \A kind \in Kinds :
          Inbox(r, kind) = Inbox(s, kind) \cup (IF m.kind = kind THEN {m.arg} ELSE {})
    BY Posting DEF Wired
  <2>2. "async" \in Kinds
    BY DEF Kinds
  <2>3. Inbox(r, "async") = Inbox(s, "async") \cup {}
    BY <2>1, <2>2
  <2> HIDE DEF r
  <2> QED
    BY <2>1, <2>3 DEF MailGrows
<1>5. Follows(s, r)
  BY <1>2 DEF Follows
<1> QED
  BY <1>1, <1>2, <1>3, <1>4, <1>5 DEF Wire

LEMMA MessageIsLetter ==
  ASSUME NEW kind \in Kinds
  PROVE  Message(kind) \in Letters /\ Message(kind).kind = kind /\ Message(kind).arg = 0
BY DEF Message, Letters

LEMMA PostKeeps ==
  ASSUME NEW s, Shape(s), NEW m
  PROVE  /\ Post(s, m).pending = s.pending
         /\ Post(s, m).resetToken = s.resetToken
BY DEF Shape, Fields, Post

(* The dirty message carries the token of the reset it announces. *)
LEMMA ResetAnnounced ==
  ASSUME NEW s, NEW r, Shape(r), Wired(r), Same(s, r), r.mail = s.mail, ~ s.pending
  PROVE  Wire(s, PostDirty(r))
<1> DEFINE m == [kind |-> "dirty", arg |-> r.resetToken]
           q == Post(r, m)
<1>1. m \in Letters /\ m.kind = "dirty" /\ m.arg = r.resetToken /\ "dirty" \in Kinds
  BY DEF Letters, Kinds, Wired
<1>2. Wire(r, q)
  BY <1>1, PostWires
<1>3. q.resetToken = r.resetToken /\ q.resetToken \in Inbox(q, "dirty")
  <2>1. Inbox(q, "dirty") = Inbox(r, "dirty") \cup {r.resetToken}
    BY <1>1, Posting DEF Wired
  <2>2. q.resetToken = r.resetToken
    BY DEF Shape, Fields, Post
  <2> QED
    BY <2>1, <2>2
<1>4. MailGrows(s, q)
  BY <1>2, MailFixed DEF Wire, MailGrows
<1>5. Same(s, q)
  BY <1>2 DEF Wire, Same, SameKeys, SameHost, SameRest
<1> QED
  BY <1>2, <1>3, <1>4, <1>5 DEF Wire, Follows, PostDirty

LEMMA BeginsReset ==
  ASSUME NEW s, Shape(s), Wired(s)
  PROVE  Shape(BeginReset(s)) /\ Wired(BeginReset(s))
<1> DEFINE r == BeginReset(s)
<1>1. Shape(r) /\ r.pending \in BOOLEAN
  BY DEF Shape, Fields, BeginReset
<1>3. r.resetToken = s.resetToken + 1
  BY DEF Shape, Fields, BeginReset
<1>4. r.resetToken \in Nat /\ r.resetToken # 0
  <2> HIDE DEF r
  <2> QED
    BY <1>3 DEF Wired
<1>2. /\ r.mail = s.mail /\ r.expected = s.expected /\ r.acked = s.acked
      /\ r.checked = s.checked /\ r.minted = s.minted /\ r.resync = s.resync
      /\ r.pipeGen = s.pipeGen /\ r.ready = s.ready /\ r.required = s.required
      /\ r.suspend = s.suspend /\ r.published = s.published /\ r.reply = s.reply
      /\ r.worker = s.worker /\ r.main = s.main /\ r.echoes = s.echoes
      /\ r.troubles = s.troubles
  BY DEF Shape, Fields, BeginReset
<1>5. Wired(r)
  <2> HIDE DEF r
  <2> QED
    BY <1>1, <1>2, <1>4 DEF Wired
<1> QED
  BY <1>1, <1>5

LEMMA MarkDirtyWires ==
  ASSUME NEW s, Shape(s), Wired(s)
  PROVE  Wire(s, MarkDirty(s)) /\ MarkDirty(s).pending
<1> DEFINE a == RequireActivation(s)
           r == [a EXCEPT !.reply = "none"]
           b == BeginReset(r)
<1>1. Wire(s, a) /\ a.mail = s.mail /\ a.pending = s.pending
  BY RequireActivationWires DEF Shape, Fields, RequireActivation
<1>2. Shape(r) /\ Wired(r) /\ Same(s, r) /\ r.mail = s.mail
      /\ r.pending = s.pending /\ r.resetToken = a.resetToken
  <2>1. Shape(a) /\ Wired(a) /\ Same(s, a)
    BY <1>1 DEF Wire
  <2>2. Shape(r)
    BY <2>1 DEF Shape
  <2>3. Wired(r) /\ r.mail = a.mail /\ r.pending = a.pending /\ r.resetToken = a.resetToken
    BY <2>1 DEF Shape, Fields, Wired, PipeState
  <2>4. Same(a, r)
    BY <2>1 DEF Shape, Fields, Same, SameKeys, SameHost, SameRest
  <2> HIDE DEF a, r
  <2> QED
    BY <1>1, <2>1, <2>2, <2>3, <2>4 DEF Same, SameKeys, SameHost, SameRest
<1>3. MarkDirty(s) = IF r.pending THEN r ELSE PostDirty(b)
  BY DEF MarkDirty
<1>4. a.resetToken = s.resetToken
  BY DEF Shape, Fields, RequireActivation
<1> HIDE DEF a, r
<1>5. CASE r.pending
  BY <1>2, <1>3, <1>4, <1>5, QuietWire
<1>6. CASE ~ r.pending
  <2>1. Shape(b) /\ b.mail = r.mail /\ b.pending
    BY <1>2 DEF Shape, Fields, BeginReset
  <2>2. Wired(b)
    BY <1>2, BeginsReset
  <2>3. Same(s, b)
    BY <1>2 DEF Shape, Fields, BeginReset, Same, SameKeys, SameHost, SameRest
  <2>4. Wire(s, PostDirty(b))
    BY <1>2, <1>6, <2>1, <2>2, <2>3, ResetAnnounced
  <2>5. PostDirty(b).pending
    BY <2>1, PostKeeps DEF PostDirty
  <2> QED
    BY <1>3, <1>6, <2>4, <2>5
<1> QED
  BY <1>5, <1>6

LEMMA RequestReconnectWires ==
  ASSUME NEW s, Shape(s), Wired(s)
  PROVE  Wire(s, RequestReconnect(s)) /\ RequestReconnect(s).pending
<1>1. Wire(s, MarkDirty(s)) /\ MarkDirty(s).pending
  BY MarkDirtyWires
<1>2. Message("reconnect") \in Letters /\ Message("reconnect").kind = "reconnect"
  BY MessageIsLetter DEF Kinds
<1>3. Wire(MarkDirty(s), RequestReconnect(s))
  BY <1>1, <1>2, PostWires DEF Wire, RequestReconnect
<1> QED
  BY <1>1, <1>3, WireTwice DEF Wire, Follows

LEMMA RequestResyncWires ==
  ASSUME NEW s, Shape(s), Wired(s)
  PROVE  Wire(s, RequestResync(s)) /\ RequestResync(s).pending
<1> DEFINE r == BeginReset(s)
           b == [r EXCEPT !.resync = r.resetToken]
<1>1. CASE s.pending
  BY <1>1, WireStays DEF RequestResync
<1>2. CASE ~ s.pending
  <2>1. Shape(b) /\ b.mail = s.mail /\ b.pending
    BY DEF Shape, Fields, BeginReset
  <2>2. Wired(b)
    <3>0. b.resync = r.resetToken
      BY DEF Shape, Fields, BeginReset
    <3>1. Shape(r) /\ Wired(r) /\ r.resetToken \in Nat
      BY BeginsReset DEF Wired
    <3> HIDE DEF r
    <3> QED
      BY <3>1 DEF Shape, Fields, Wired
  <2>3. Same(s, b)
    BY DEF Shape, Fields, BeginReset, Same, SameKeys, SameHost, SameRest
  <2>4. Wire(s, PostDirty(b))
    BY <1>2, <2>1, <2>2, <2>3, ResetAnnounced
  <2>5. PostDirty(b).pending
    BY <2>1, PostKeeps DEF PostDirty
  <2> QED
    BY <1>2, <2>4, <2>5 DEF RequestResync
<1> QED
  BY <1>1, <1>2

(* The single writes of the transport. *)
LEMMA Plugs ==
  ASSUME NEW s, Shape(s), Wired(s), NEW v \in PipeState
  PROVE  /\ Wire(s, [s EXCEPT !.reply = v])
         /\ Wire(s, [s EXCEPT !.worker = v])
         /\ Wire(s, [s EXCEPT !.main = v])
         /\ Wire(s, [s EXCEPT !.suspend = FALSE])
<1>1. Wire(s, [s EXCEPT !.reply = v])
  <2> DEFINE r == [s EXCEPT !.reply = v]
  <2>1. Shape(r)
    BY DEF Shape
  <2>2. Wired(r) /\ r.mail = s.mail /\ r.pending = s.pending /\ r.resetToken = s.resetToken
    BY DEF Shape, Fields, Wired
  <2>3. Same(s, r)
    BY DEF Shape, Fields, Same, SameKeys, SameHost, SameRest
  <2> HIDE DEF r
  <2>4. Wire(s, r)
    BY <2>1, <2>2, <2>3, QuietWire
  <2> QED
    BY <2>4 DEF r
<1>2. Wire(s, [s EXCEPT !.worker = v])
  <2> DEFINE r == [s EXCEPT !.worker = v]
  <2>1. Shape(r)
    BY DEF Shape
  <2>2. Wired(r) /\ r.mail = s.mail /\ r.pending = s.pending /\ r.resetToken = s.resetToken
    BY DEF Shape, Fields, Wired
  <2>3. Same(s, r)
    BY DEF Shape, Fields, Same, SameKeys, SameHost, SameRest
  <2> HIDE DEF r
  <2>4. Wire(s, r)
    BY <2>1, <2>2, <2>3, QuietWire
  <2> QED
    BY <2>4 DEF r
<1>3. Wire(s, [s EXCEPT !.main = v])
  <2> DEFINE r == [s EXCEPT !.main = v]
  <2>1. Shape(r)
    BY DEF Shape
  <2>2. Wired(r) /\ r.mail = s.mail /\ r.pending = s.pending /\ r.resetToken = s.resetToken
    BY DEF Shape, Fields, Wired
  <2>3. Same(s, r)
    BY DEF Shape, Fields, Same, SameKeys, SameHost, SameRest
  <2> HIDE DEF r
  <2>4. Wire(s, r)
    BY <2>1, <2>2, <2>3, QuietWire
  <2> QED
    BY <2>4 DEF r
<1>4. Wire(s, [s EXCEPT !.suspend = FALSE])
  <2> DEFINE r == [s EXCEPT !.suspend = FALSE]
  <2>1. Shape(r)
    BY DEF Shape
  <2>2. Wired(r) /\ r.mail = s.mail /\ r.pending = s.pending /\ r.resetToken = s.resetToken
    BY DEF Shape, Fields, Wired
  <2>3. Same(s, r)
    BY DEF Shape, Fields, Same, SameKeys, SameHost, SameRest
  <2> HIDE DEF r
  <2>4. Wire(s, r)
    BY <2>1, <2>2, <2>3, QuietWire
  <2> QED
    BY <2>4 DEF r
<1> QED
  BY <1>1, <1>2, <1>3, <1>4

LEMMA TryFields ==
  ASSUME NEW ok, NEW s
  PROVE  Try(ok, s).st = s
BY DEF Try

LEMMA OpenReplyWires ==
  ASSUME NEW s, Shape(s), Wired(s)
  PROVE  Wire(s, OpenReply(s).st)
<1> DEFINE r == IF s.reply = "dead" THEN MarkDirty(s) ELSE s
           q == IF r.reply = "none" /\ s.server THEN [r EXCEPT !.reply = "ok"] ELSE r
<1>1. Wire(s, r)
  BY MarkDirtyWires, WireStays
<1>2. OpenReply(s).st = q
  BY TryFields DEF OpenReply
<1>3. Wire(r, q)
  <2> HIDE DEF r
  <2>1. Shape(r) /\ Wired(r) /\ "ok" \in PipeState
    BY <1>1 DEF Wire, PipeState
  <2> QED
    BY <2>1, Plugs, WireStays
<1> HIDE DEF r, q
<1> QED
  BY <1>1, <1>2, <1>3, WireTwice

LEMMA OpenWorkerWires ==
  ASSUME NEW s, Shape(s), Wired(s)
  PROVE  Wire(s, OpenWorker(s).st)
<1> DEFINE stale == s.worker # "none" /\ ~ s.published
           d == [MarkDirty(s) EXCEPT !.worker = "none"]
           r == IF stale THEN d ELSE s
           a == RequireActivation(r)
           w == [a EXCEPT !.worker = "ok", !.published = TRUE, !.pipeGen = @ + 1, !.echoes = <<>>]
<1>1. Wire(s, r)
  <2>1. Wire(s, MarkDirty(s))
    BY MarkDirtyWires
  <2>2. Wire(MarkDirty(s), d)
    BY <2>1, Plugs DEF Wire, PipeState
  <2> QED
    BY <2>1, <2>2, WireTwice, WireStays
<1>2. OpenWorker(s).st = r \/ OpenWorker(s).st = w
  <2>1. OpenWorker(s) = IF r.worker # "none" THEN Try(TRUE, r)
                        ELSE IF ~ s.server THEN Try(FALSE, r) ELSE Try(TRUE, w)
    BY DEF OpenWorker
  <2> HIDE DEF r, w
  <2>2. /\ Try(TRUE, r).st = r /\ Try(FALSE, r).st = r
        /\ Try(TRUE, w).st = w
    BY DEF Try
  <2> QED
    BY <2>1, <2>2
<1>3. Wire(r, w)
  <2> HIDE DEF r
  <2>1. Wire(r, a)
    BY <1>1, RequireActivationWires DEF Wire
  <2> HIDE DEF a
  <2>2. Shape(a) /\ Wired(a)
    BY <2>1 DEF Wire
  <2>3. Shape(w)
    BY <2>2 DEF Shape
  <2>4. Wired(w) /\ w.mail = a.mail /\ w.pending = a.pending /\ w.resetToken = a.resetToken
    <3>1. w.pipeGen = a.pipeGen + 1 /\ a.pipeGen \in Nat
      BY <2>2 DEF Shape, Fields, Wired
    <3>2. <<>> \in Seq(Nat \ {0})
      OBVIOUS
    <3> QED
      <4>1. /\ w.echoes = <<>> /\ w.worker \in PipeState /\ w.published \in BOOLEAN
            /\ w.pipeGen \in Nat
        BY <2>2, <3>1 DEF Shape, Fields, PipeState
      <4>2. /\ w.mail = a.mail /\ w.expected = a.expected /\ w.acked = a.acked
            /\ w.checked = a.checked /\ w.minted = a.minted /\ w.resync = a.resync
            /\ w.ready = a.ready /\ w.required = a.required
            /\ w.suspend = a.suspend /\ w.reply = a.reply
            /\ w.main = a.main /\ w.troubles = a.troubles
            /\ w.pending = a.pending /\ w.resetToken = a.resetToken
        BY <2>2 DEF Shape, Fields
      <4> HIDE DEF w
      <4> QED
        BY <2>2, <3>2, <4>1, <4>2 DEF Wired
  <2>5. Same(a, w)
    BY <2>2 DEF Shape, Fields, Same, SameKeys, SameHost, SameRest
  <2>6. Wire(a, w)
    BY <2>3, <2>4, <2>5, QuietWire
  <2> HIDE DEF w
  <2> QED
    BY <2>1, <2>6, WireTwice
<1> HIDE DEF r, w
<1> QED
  BY <1>1, <1>2, <1>3, WireTwice

LEMMA OpenMainWires ==
  ASSUME NEW s, Shape(s), Wired(s)
  PROVE  Wire(s, OpenMain(s).st) /\ OpenMain(s).st.pending = s.pending
<1> DEFINE m == [s EXCEPT !.main = "ok"]
<1>1. OpenMain(s).st = s \/ OpenMain(s).st = m
  <2>1. CASE s.main # "none"
    BY <2>1 DEF OpenMain, Try
  <2>2. CASE s.main = "none"
    <3>1. OpenMain(s) = Try(s.server, IF s.server THEN m ELSE s)
      BY <2>2 DEF OpenMain
    <3>2. OpenMain(s).st = IF s.server THEN m ELSE s
      BY <3>1, TryFields
    <3> QED
      BY <3>2
  <2> QED
    BY <2>1, <2>2
<1>2. Wire(s, m)
  BY Plugs DEF PipeState
<1>3. m.pending = s.pending
  BY DEF Shape, Fields
<1> HIDE DEF m
<1> QED
  BY <1>1, <1>2, <1>3, WireStays

LEMMA ConnectToAllWires ==
  ASSUME NEW s, Shape(s), Wired(s)
  PROVE  Wire(s, ConnectToAll(s).st)
<1> DEFINE a == OpenReply(s).st
           b == OpenWorker(a).st
           c == OpenMain(b).st
<1>1. Wire(s, a)
  BY OpenReplyWires
<1>2. Wire(s, b)
  <2> HIDE DEF a
  <2> QED
    BY <1>1, OpenWorkerWires, WireTwice DEF Wire
<1>3. Wire(s, c)
  <2> HIDE DEF b
  <2> QED
    BY <1>2, OpenMainWires, WireTwice DEF Wire
<1>4. ConnectToAll(s).st \in {a, b, c}
  BY TryFields DEF ConnectToAll
<1> HIDE DEF a, b, c
<1> QED
  BY <1>1, <1>2, <1>3, <1>4

LEMMA WriteMainWires ==
  ASSUME NEW s, Shape(s), Wired(s)
  PROVE  /\ Wire(s, WriteMain(s).st)
         /\ WriteMain(s).ok => WriteMain(s).st.pending = s.pending
<1> DEFINE r == OpenMain(s)
           n == [s EXCEPT !.main = "none"]
           q == RequestReconnect(n)
<1>1. Wire(s, r.st) /\ r.st.pending = s.pending
  BY OpenMainWires
<1>2. Wire(s, n)
  BY Plugs DEF PipeState
<1>3. Wire(s, q)
  <2> HIDE DEF n
  <2> QED
    BY <1>2, RequestReconnectWires, WireTwice DEF Wire
<1>4. /\ WriteMain(s).st \in {r.st, q}
      /\ WriteMain(s).ok => WriteMain(s).st = r.st
  <2>1. WriteMain(s) = r \/ WriteMain(s) = Try(FALSE, q)
    BY DEF WriteMain
  <2> HIDE DEF q, r
  <2>2. Try(FALSE, q).ok = FALSE /\ Try(FALSE, q).st = q
    BY DEF Try
  <2> QED
    BY <2>1, <2>2
<1> HIDE DEF r, q
<1> QED
  BY <1>1, <1>3, <1>4

LEMMA FlushSuspensionWires ==
  ASSUME NEW s, Shape(s), Wired(s)
  PROVE  /\ Wire(s, FlushSuspension(s).st)
         /\ FlushSuspension(s).ok => FlushSuspension(s).st.pending = s.pending
<1> DEFINE r == WriteMain(s)
           q == [r.st EXCEPT !.suspend = FALSE]
<1>1. Wire(s, r.st) /\ (r.ok => r.st.pending = s.pending)
  BY WriteMainWires
<1>2. FlushSuspension(s) = IF ~ s.suspend THEN Try(TRUE, s)
                           ELSE IF r.ok THEN Try(TRUE, q) ELSE r
  BY DEF FlushSuspension
<1> HIDE DEF r
<1>3. Wire(r.st, q) /\ q.pending = r.st.pending
  <2>1. Shape(r.st) /\ Wired(r.st)
    BY <1>1 DEF Wire
  <2> QED
    BY <2>1, Plugs DEF Shape, Fields, PipeState
<1> HIDE DEF q
<1>4. Wire(s, q)
  BY <1>1, <1>3, WireTwice
<1>5. /\ Try(TRUE, s).st = s /\ Try(TRUE, s).ok
      /\ Try(TRUE, q).st = q /\ Try(TRUE, q).ok
  BY DEF Try
<1> QED
  BY <1>1, <1>2, <1>3, <1>4, <1>5, WireStays

LEMMA SendActivatedWires ==
  ASSUME NEW s, Shape(s), Wired(s)
  PROVE  /\ Wire(s, SendActivated(s).st)
         /\ SendActivated(s).ok => SendActivated(s).st.pending = s.pending
<1> DEFINE r == WriteMain(s)
           q == [r.st EXCEPT !.required = FALSE,
                             !.echoes = IF s.worker = "ok" THEN Append(@, s.expected) ELSE @]
<1>1. Wire(s, r.st) /\ (r.ok => r.st.pending = s.pending)
  BY WriteMainWires
<1>2. SendActivated(s) = IF ~ s.required THEN Try(TRUE, s)
                         ELSE IF r.ok THEN Try(TRUE, q) ELSE r
  BY DEF SendActivated
<1> HIDE DEF r
<1>3. s.required => Wire(r.st, q) /\ q.pending = r.st.pending
  <2>1. Shape(r.st) /\ Wired(r.st)
    BY <1>1 DEF Wire
  <2>2. Shape(q)
    BY <2>1 DEF Shape
  <2>3. /\ q.echoes = (IF s.worker = "ok" THEN Append(r.st.echoes, s.expected) ELSE r.st.echoes)
        /\ q.required = FALSE
    BY <2>1 DEF Shape, Fields
  <2>4. Same(r.st, q)
    BY <2>1 DEF Shape, Fields, Same, SameKeys, SameHost, SameRest
  <2>5. /\ q.mail = r.st.mail /\ q.expected = r.st.expected /\ q.acked = r.st.acked
        /\ q.checked = r.st.checked /\ q.minted = r.st.minted /\ q.resync = r.st.resync
        /\ q.ready = r.st.ready /\ q.published = r.st.published
        /\ q.suspend = r.st.suspend /\ q.reply = r.st.reply /\ q.worker = r.st.worker
        /\ q.main = r.st.main /\ q.troubles = r.st.troubles /\ q.pipeGen = r.st.pipeGen
        /\ q.pending = r.st.pending /\ q.resetToken = r.st.resetToken
    BY <2>1 DEF Shape, Fields
  <2>6. ASSUME s.required PROVE Wired(q)
    <3> HIDE DEF q
    <3>1. s.expected \in Nat \ {0} /\ r.st.echoes \in Seq(Nat \ {0})
      BY <2>1, <2>6 DEF Wired
    <3>2. q.echoes \in Seq(Nat \ {0})
      BY <2>3, <3>1
    <3> QED
      BY <2>1, <2>3, <2>5, <3>2 DEF Wired
  <2> HIDE DEF q
  <2> QED
    BY <2>2, <2>4, <2>5, <2>6, QuietWire
<1> HIDE DEF q
<1>4. s.required => Wire(s, q)
  BY <1>1, <1>3, WireTwice
<1>5. /\ Try(TRUE, s).st = s /\ Try(TRUE, s).ok
      /\ Try(TRUE, q).st = q /\ Try(TRUE, q).ok
  BY DEF Try
<1> QED
  BY <1>1, <1>2, <1>3, <1>4, <1>5, WireStays

LEMMA NoticedWires ==
  ASSUME NEW s, Shape(s), Wired(s)
  PROVE  Wire(s, Noticed(s))
<1> DEFINE r == [s EXCEPT !.ready = FALSE, !.acked = 0, !.published = FALSE,
                          !.echoes = <<>>, !.checked = 0]
           m == [kind |-> "lost", arg |-> s.pipeGen]
<1>1. Shape(r)
  BY DEF Shape
<1>2. /\ r.ready \in BOOLEAN /\ r.acked = 0 /\ r.published \in BOOLEAN
      /\ r.echoes = <<>> /\ r.checked = 0
      /\ r.mail = s.mail /\ r.expected = s.expected /\ r.minted = s.minted
      /\ r.resync = s.resync /\ r.pipeGen = s.pipeGen /\ r.required = s.required
      /\ r.suspend = s.suspend /\ r.reply = s.reply /\ r.worker = s.worker
      /\ r.main = s.main /\ r.troubles = s.troubles
      /\ r.pending = s.pending /\ r.resetToken = s.resetToken
  BY DEF Shape, Fields
<1>3. Same(s, r)
  BY DEF Shape, Fields, Same, SameKeys, SameHost, SameRest
<1>4. m \in Letters /\ m.kind # "async"
  BY DEF Letters, Kinds, Wired
<1>5. Noticed(s) = Post(r, m)
  BY DEF Noticed
<1> HIDE DEF r, m
<1>6. Wired(r)
  <2>1. <<>> \in Seq(Nat \ {0})
    OBVIOUS
  <2> QED
    BY <1>2, <2>1 DEF Wired
<1>7. Wire(s, r)
  BY <1>1, <1>2, <1>3, <1>6, QuietWire
<1>8. Wire(r, Post(r, m))
  BY <1>1, <1>4, <1>6, PostWires
<1> QED
  BY <1>5, <1>7, <1>8, WireTwice

LEMMA AwaitEchoWires ==
  ASSUME NEW s, Shape(s), Wired(s), NEW e \in AwaitEcho(s)
  PROVE  /\ Wire(s, e.st)
         /\ e.ok => e.st.pending = s.pending
<1> DEFINE unheard == IF s.published /\ s.worker = "dead" THEN Noticed(s) ELSE s
           late == [s EXCEPT !.troubles = @ + 1]
           compared == [late EXCEPT !.echoes = <<>>, !.checked = s.expected]
           heard == [s EXCEPT !.acked = s.expected, !.ready = TRUE,
                              !.echoes = <<>>, !.checked = 0]
<1>1. Wire(s, MarkDirty(unheard))
  <2>1. Wire(s, unheard)
    BY NoticedWires, WireStays
  <2> HIDE DEF unheard
  <2> QED
    BY <2>1, MarkDirtyWires, WireTwice DEF Wire
<1>2. Wire(s, heard) /\ heard.pending = s.pending
  <2>1. Shape(heard) /\ Same(s, heard)
    <3>1. Shape(heard)
      BY DEF Shape
    <3>2. Same(s, heard)
      BY DEF Shape, Fields, Same, SameKeys, SameHost, SameRest
    <3> QED
      BY <3>1, <3>2
  <2>2. /\ heard.ready \in BOOLEAN /\ heard.acked = s.expected /\ heard.published = s.published
        /\ heard.echoes = <<>> /\ heard.checked = 0
        /\ heard.mail = s.mail /\ heard.expected = s.expected /\ heard.minted = s.minted
        /\ heard.resync = s.resync /\ heard.pipeGen = s.pipeGen
        /\ heard.required = s.required /\ heard.suspend = s.suspend
        /\ heard.reply = s.reply /\ heard.worker = s.worker
        /\ heard.main = s.main /\ heard.troubles = s.troubles
        /\ heard.pending = s.pending /\ heard.resetToken = s.resetToken
    BY DEF Shape, Fields
  <2> HIDE DEF heard
  <2>3. Wired(heard)
    <3>1. <<>> \in Seq(Nat \ {0})
      OBVIOUS
    <3> QED
      BY <2>2, <3>1 DEF Wired
  <2> QED
    BY <2>1, <2>2, <2>3, QuietWire
<1>3. ASSUME s.troubles < MaxTroubles
      PROVE  Wire(s, MarkDirty(late)) /\ Wire(s, MarkDirty(compared))
  <2>1. Shape(late) /\ Same(s, late) /\ Shape(compared) /\ Same(s, compared)
    <3>1. Shape(late)
      BY DEF Shape
    <3>2. Same(s, late)
      BY DEF Shape, Fields, Same, SameKeys, SameHost, SameRest
    <3>3. Shape(compared)
      BY DEF Shape
    <3>4. Same(s, compared)
      BY DEF Shape, Fields, Same, SameKeys, SameHost, SameRest
    <3> QED
      BY <3>1, <3>2, <3>3, <3>4
  <2>2. /\ late.troubles = s.troubles + 1 /\ late.ready = s.ready /\ late.acked = s.acked
        /\ late.published = s.published /\ late.echoes = s.echoes
        /\ late.checked = s.checked
        /\ late.mail = s.mail /\ late.expected = s.expected /\ late.minted = s.minted
        /\ late.resync = s.resync /\ late.pipeGen = s.pipeGen
        /\ late.required = s.required /\ late.suspend = s.suspend
        /\ late.reply = s.reply /\ late.worker = s.worker /\ late.main = s.main
        /\ late.pending = s.pending /\ late.resetToken = s.resetToken
    BY DEF Shape, Fields
  <2>3. /\ compared.echoes = <<>> /\ compared.checked = s.expected
        /\ compared.troubles = late.troubles /\ compared.ready = s.ready
        /\ compared.acked = s.acked /\ compared.published = s.published
        /\ compared.mail = s.mail /\ compared.expected = s.expected
        /\ compared.minted = s.minted /\ compared.resync = s.resync
        /\ compared.pipeGen = s.pipeGen /\ compared.required = s.required
        /\ compared.suspend = s.suspend /\ compared.reply = s.reply
        /\ compared.worker = s.worker /\ compared.main = s.main
        /\ compared.pending = s.pending /\ compared.resetToken = s.resetToken
    BY DEF Shape, Fields
  <2> HIDE DEF late, compared
  <2>4. s.troubles + 1 \in 0..MaxTroubles
    BY <1>3, BoundsAssumption DEF Wired
  <2>5. Wired(late) /\ Wired(compared)
    <3>1. <<>> \in Seq(Nat \ {0})
      OBVIOUS
    <3>2. Wired(late)
      BY <2>2, <2>4 DEF Wired
    <3>3. Wired(compared)
      BY <2>2, <2>3, <2>4, <3>1 DEF Wired
    <3> QED
      BY <3>2, <3>3
  <2>6. Wire(s, late) /\ Wire(s, compared)
    BY <2>1, <2>2, <2>3, <2>5, QuietWire
  <2> QED
    BY <2>6, MarkDirtyWires, WireTwice DEF Wire
<1>4. \/ e = Try(TRUE, s) \/ e = Try(FALSE, MarkDirty(unheard)) \/ e = Try(TRUE, heard)
      \/ s.troubles < MaxTroubles /\ \E t \in {late, compared} : e = Try(FALSE, MarkDirty(t))
  BY Zenon DEF AwaitEcho
<1> HIDE DEF unheard, late, compared, heard
<1>5. /\ Try(TRUE, s).st = s /\ Try(TRUE, heard).st = heard
      /\ Try(FALSE, MarkDirty(unheard)).st = MarkDirty(unheard)
      /\ ~ Try(FALSE, MarkDirty(unheard)).ok
      /\ \A t : Try(FALSE, MarkDirty(t)).st = MarkDirty(t) /\ ~ Try(FALSE, MarkDirty(t)).ok
  BY DEF Try
<1> QED
  BY <1>1, <1>2, <1>3, <1>4, <1>5, WireStays

(* Only a session that is not being reset is activated. *)
LEMMA EnsureWires ==
  ASSUME NEW s, Shape(s), Wired(s), NEW e \in Ensure(s)
  PROVE  /\ Wire(s, e.st)
         /\ e.ok => ~ e.st.pending
<1> DEFINE c == ConnectToAll(s)
           f == FlushSuspension(c.st)
           a == SendActivated(f.st)
<1>1. Wire(s, c.st)
  BY ConnectToAllWires
<1>2. /\ Wire(s, f.st)
      /\ f.ok => f.st.pending = c.st.pending
  <2> HIDE DEF c
  <2> QED
    BY <1>1, FlushSuspensionWires, WireTwice DEF Wire
<1>3. /\ Wire(s, a.st)
      /\ a.ok => a.st.pending = f.st.pending
  <2> HIDE DEF f
  <2> QED
    BY <1>2, SendActivatedWires, WireTwice DEF Wire
<1>4. \A x \in AwaitEcho(a.st) : Wire(s, x.st) /\ (x.ok => x.st.pending = a.st.pending)
  <2> HIDE DEF a
  <2> QED
    BY <1>3, AwaitEchoWires, WireTwice DEF Wire
<1>5. Ensure(s) = IF s.pending THEN {Try(FALSE, s)}
                  ELSE IF ~ c.ok \/ c.st.pending THEN {Try(FALSE, c.st)}
                  ELSE IF ~ f.ok THEN {f}
                  ELSE IF ~ a.ok THEN {a}
                  ELSE AwaitEcho(a.st)
  BY DEF Ensure
<1> HIDE DEF c, f, a
<1>6. \A x : Try(FALSE, x).st = x /\ ~ Try(FALSE, x).ok
  BY DEF Try
<1> QED
  BY <1>1, <1>2, <1>3, <1>4, <1>5, <1>6, WireStays

LEMMA SendPacketWires ==
  ASSUME NEW s, Shape(s), Wired(s), NEW e \in SendPacket(s)
  PROVE  Wire(s, e.st)
<1>1. PICK x \in Ensure(s) : e \in (IF x.ok THEN {WriteMain(x.st)} ELSE {x})
  BY DEF SendPacket
<1>2. Wire(s, x.st)
  BY EnsureWires
<1>3. Wire(x.st, WriteMain(x.st).st)
  BY <1>2, WriteMainWires DEF Wire
<1> QED
  BY <1>1, <1>2, <1>3, WireTwice

-----------------------------------------------------------------------------
(* What handlers do to the keys besides taking and carrying them: they      *)
(* retire the key in flight, or drop the queue, or drop requests.           *)

Boolean(s) ==
    /\ s.posted \in BOOLEAN /\ s.proj \in BOOLEAN /\ s.retry \in BOOLEAN
    /\ s.offline \in BOOLEAN

Base(s) == Shape(s) /\ Wired(s) /\ Boolean(s)

Sheds(s, r) ==
    /\ r.typed = s.typed /\ r.applied = s.applied /\ r.sessions = s.sessions
    /\ r.fifo = s.fifo \/ r.fifo = <<>>
    /\ \/ r.flight = s.flight /\ r.flightCtx = s.flightCtx
       \/ r.flight = NoKey /\ r.flightCtx = NoCtx
    /\ r.asyncs \subseteq s.asyncs
    /\ r.flight # NoKey => \A x \in s.asyncs : x.key = r.flight => x \in r.asyncs

Projected(s) == s.proj => s.fifo # <<>> \/ s.flight # NoKey \/ s.pending

Tame(s, r) ==
    /\ Base(r) /\ Sheds(s, r) /\ MailGrows(s, r) /\ Follows(s, r)
    /\ r.comp = s.comp /\ r.origin = s.origin /\ r.top = s.top /\ r.tops = s.tops
    /\ r.connected = s.connected /\ r.lossTimer = s.lossTimer
    /\ r.queued = s.queued /\ r.server = s.server
    /\ s.retry => r.retry
    /\ Projected(s) => Projected(r)

LEMMA ShedsTwice ==
  ASSUME NEW s, NEW r, NEW q, Sheds(s, r), Sheds(r, q)
  PROVE  Sheds(s, q)
BY DEF Sheds

LEMMA FollowsTwice ==
  ASSUME NEW s, NEW r, NEW q, MailGrows(s, r), MailGrows(r, q),
         Follows(s, r), Follows(r, q)
  PROVE  MailGrows(s, q) /\ Follows(s, q)
<1>1. MailGrows(s, q)
  BY DEF MailGrows
<1>2. Inbox(r, "dirty") \subseteq Inbox(q, "dirty")
  BY DEF MailGrows, Kinds
<1> QED
  BY <1>1, <1>2 DEF Follows

LEMMA TameTwice ==
  ASSUME NEW s, NEW r, NEW q, Tame(s, r), Tame(r, q)
  PROVE  Tame(s, q)
<1>1. Sheds(s, q)
  BY ShedsTwice DEF Tame
<1>2. MailGrows(s, q) /\ Follows(s, q)
  BY FollowsTwice DEF Tame
<1> QED
  BY <1>1, <1>2 DEF Tame

LEMMA WireTame ==
  ASSUME NEW s, NEW r, Base(s), Wire(s, r)
  PROVE  Tame(s, r)
<1>1. Sheds(s, r)
  BY DEF Wire, Same, SameKeys, Sheds
<1>2. Base(r)
  BY DEF Base, Boolean, Wire, Same, SameHost, SameRest
<1>3. Projected(s) => Projected(r)
  BY DEF Wire, Same, SameKeys, SameRest, Follows, Projected
<1> QED
  BY <1>1, <1>2, <1>3 DEF Tame, Wire, Same, SameHost, SameRest

LEMMA TameStays ==
  ASSUME NEW s, Base(s)
  PROVE  Tame(s, s)
BY WireStays, WireTame DEF Base

(* A write that leaves the transport alone. *)
SameWires(s, r) ==
    /\ r.mail = s.mail /\ r.expected = s.expected /\ r.acked = s.acked
    /\ r.checked = s.checked /\ r.minted = s.minted /\ r.resync = s.resync
    /\ r.ready = s.ready /\ r.required = s.required /\ r.published = s.published
    /\ r.suspend = s.suspend /\ r.reply = s.reply /\ r.worker = s.worker
    /\ r.main = s.main /\ r.troubles = s.troubles /\ r.pipeGen = s.pipeGen
    /\ r.echoes = s.echoes
    /\ r.pending = s.pending /\ r.resetToken = s.resetToken

SameSite(s, r) ==
    /\ r.comp = s.comp /\ r.origin = s.origin /\ r.top = s.top /\ r.tops = s.tops
    /\ r.connected = s.connected /\ r.lossTimer = s.lossTimer
    /\ r.queued = s.queued /\ r.server = s.server

LEMMA LocalTame ==
  ASSUME NEW s, NEW r, Base(s), Shape(r), Boolean(r), SameWires(s, r), SameSite(s, r),
         Sheds(s, r), s.retry => r.retry, Projected(s) => Projected(r)
  PROVE  Tame(s, r)
<1>1. Wired(r)
  BY DEF Base, Wired, SameWires
<1>2. MailGrows(s, r)
  BY MailFixed DEF SameWires
<1>3. Follows(s, r)
  BY DEF SameWires, Follows
<1> QED
  BY <1>1, <1>2, <1>3 DEF Tame, Base, SameSite

LEMMA ScheduleTame ==
  ASSUME NEW s, Base(s)
  PROVE  Tame(s, Schedule(s))
<1> DEFINE r == [s EXCEPT !.posted = TRUE]
           m == Message("drain")
<1>1. m \in Letters /\ m.kind # "async"
  BY MessageIsLetter DEF Kinds
<1>2. Tame(s, r)
  <2>1. Shape(r) /\ Boolean(r)
    BY DEF Base, Shape, Fields, Boolean
  <2>2. SameWires(s, r) /\ SameSite(s, r)
    BY DEF Base, Shape, Fields, SameWires, SameSite
  <2>3. Sheds(s, r) /\ (s.retry => r.retry) /\ (Projected(s) => Projected(r))
    BY DEF Base, Shape, Fields, Sheds, Projected
  <2> HIDE DEF r
  <2> QED
    BY <2>1, <2>2, <2>3, LocalTame
<1>3. Schedule(s) = s \/ Schedule(s) = Post(r, m)
  BY DEF Schedule
<1> HIDE DEF r, m
<1>4. Tame(r, Post(r, m))
  BY <1>1, <1>2, PostWires, WireTame DEF Tame, Base
<1> QED
  BY <1>2, <1>3, <1>4, TameTwice, TameStays

LEMMA TryLeaveTame ==
  ASSUME NEW s, Base(s)
  PROVE  Tame(s, TryLeave(s))
<1> DEFINE r == [s EXCEPT !.offline = FALSE]
<1>1. Shape(r) /\ Boolean(r)
  BY DEF Base, Shape, Fields, Boolean
<1>2. SameWires(s, r) /\ SameSite(s, r)
  BY DEF Base, Shape, Fields, SameWires, SameSite
<1>3. Sheds(s, r) /\ (s.retry => r.retry) /\ (Projected(s) => Projected(r))
  BY DEF Base, Shape, Fields, Sheds, Projected
<1>4. TryLeave(s) = s \/ TryLeave(s) = r
  BY DEF TryLeave
<1> HIDE DEF r
<1> QED
  BY <1>1, <1>2, <1>3, <1>4, LocalTame, TameStays

LEMMA ArmRetryTame ==
  ASSUME NEW s, Base(s), s.connected \in BOOLEAN
  PROVE  Tame(s, ArmRetry(s)) /\ (s.connected => ArmRetry(s).retry)
<1> DEFINE r == ArmRetry(s)
<1>1. Shape(r) /\ Boolean(r)
  BY DEF Base, Shape, Fields, Boolean, ArmRetry
<1>2. SameWires(s, r) /\ SameSite(s, r)
  BY DEF Base, Shape, Fields, SameWires, SameSite, ArmRetry
<1>3. Sheds(s, r) /\ (s.retry => r.retry) /\ (Projected(s) => Projected(r))
      /\ (s.connected => r.retry)
  BY DEF Base, Shape, Fields, Sheds, Projected, ArmRetry
<1> HIDE DEF r
<1>4. Tame(s, r)
  BY <1>1, <1>2, <1>3, LocalTame
<1> QED
  BY <1>3, <1>4 DEF r

LEMMA ClearTame ==
  ASSUME NEW s, Base(s)
  PROVE  Tame(s, Clear(s)) /\ Clear(s).flight = NoKey
<1> DEFINE r == Clear(s)
<1>1. Shape(r) /\ Boolean(r)
  <2>1. Shape(r)
    BY DEF Base, Shape, Clear
  <2>2. /\ r.proj = FALSE /\ r.posted = FALSE /\ r.retry = s.retry
        /\ r.offline = s.offline
    BY DEF Base, Shape, Fields, Clear
  <2> HIDE DEF r
  <2> QED
    BY <2>1, <2>2 DEF Base, Boolean
<1>2. SameWires(s, r) /\ SameSite(s, r)
  BY DEF Base, Shape, Fields, SameWires, SameSite, Clear
<1>3. Sheds(s, r) /\ (s.retry => r.retry) /\ (Projected(s) => Projected(r))
      /\ r.flight = NoKey
  BY DEF Base, Shape, Fields, Sheds, Projected, Clear
<1> HIDE DEF r
<1>4. Tame(s, r)
  BY <1>1, <1>2, <1>3, LocalTame
<1> QED
  BY <1>3, <1>4 DEF r

LEMMA ProjectionWrite ==
  ASSUME NEW s, Base(s), NEW v \in BOOLEAN,
         v => s.fifo # <<>> \/ s.flight # NoKey \/ s.pending
  PROVE  LET r == [s EXCEPT !.proj = v]
         IN  Tame(s, r) /\ r.flight = s.flight
<1> DEFINE r == [s EXCEPT !.proj = v]
<1>1. Shape(r) /\ Boolean(r)
  <2>1. Shape(r)
    BY DEF Base, Shape
  <2>2. /\ r.proj = v /\ r.posted = s.posted /\ r.retry = s.retry
        /\ r.offline = s.offline
    BY DEF Base, Shape, Fields
  <2> HIDE DEF r
  <2> QED
    BY <2>1, <2>2 DEF Base, Boolean
<1>2. SameWires(s, r) /\ SameSite(s, r)
  BY DEF Base, Shape, Fields, SameWires, SameSite
<1>3. Sheds(s, r) /\ (s.retry => r.retry) /\ Projected(r) /\ r.flight = s.flight
  BY DEF Base, Shape, Fields, Sheds, Projected
<1> HIDE DEF r
<1>4. Tame(s, r)
  BY <1>1, <1>2, <1>3, LocalTame
<1> QED
  BY <1>3, <1>4 DEF r

ResetKinds == {"transport", "resync", "offline"}

LEMMA ResetAfterFailureTame ==
  ASSUME NEW s, Base(s), NEW kind \in ResetKinds
  PROVE  /\ Tame(s, ResetAfterFailure(s, kind))
         /\ ResetAfterFailure(s, kind).flight = NoKey
<1> DEFINE c == Clear(s)
           r == CASE kind = "transport" -> MarkDirty(c)
                  [] kind = "resync"    -> RequestResync(c)
                  [] kind = "offline"   -> c
           v == kind # "offline" /\ r.pending
           q == [r EXCEPT !.proj = v]
<1>1. Tame(s, c) /\ c.flight = NoKey
  BY ClearTame
<1>2. Tame(c, r)
  <2> HIDE DEF c
  <2>1. r \in {MarkDirty(c), RequestResync(c), c}
    BY DEF ResetKinds
  <2> HIDE DEF r
  <2>2. Base(c) /\ Shape(c) /\ Wired(c)
    BY <1>1 DEF Tame, Base
  <2> QED
    BY <2>1, <2>2, MarkDirtyWires, RequestResyncWires, WireTame, TameStays
<1>3. ResetAfterFailure(s, kind) = TryLeave(q)
  BY DEF ResetAfterFailure
<1> HIDE DEF c, r
<1>4. Tame(s, r) /\ r.flight = NoKey
  BY <1>1, <1>2, TameTwice DEF Tame, Sheds
<1>5. Tame(r, q) /\ q.flight = r.flight
  <2>1. v \in BOOLEAN /\ (v => r.pending)
    OBVIOUS
  <2>2. Base(r)
    BY <1>4 DEF Tame
  <2> HIDE DEF v
  <2> QED
    BY <2>1, <2>2, ProjectionWrite
<1> HIDE DEF q
<1>6. Tame(q, TryLeave(q))
  BY <1>5, TryLeaveTame DEF Tame
<1> QED
  BY <1>3, <1>4, <1>5, <1>6, TameTwice DEF Tame, Sheds

(* A key completed is no longer in flight. *)
LEMMA CompleteKeyTame ==
  ASSUME NEW s, Base(s), NEW key
  PROVE  /\ Tame(s, CompleteKey(s, key))
         /\ \/ s.flight # key /\ CompleteKey(s, key) = s
            \/ CompleteKey(s, key).flight = NoKey
<1> DEFINE v == s.proj /\ s.fifo # <<>>
           r == [s EXCEPT !.flight = NoKey, !.flightCtx = NoCtx, !.proj = v]
<1>1. CompleteKey(s, key) = IF s.flight # key THEN s ELSE Schedule(TryLeave(r))
  BY DEF CompleteKey
<1>2. v \in BOOLEAN
  OBVIOUS
<1>3. Tame(s, r) /\ r.flight = NoKey
  <2> HIDE DEF v
  <2>1. Shape(r) /\ Boolean(r)
    BY <1>2 DEF Base, Shape, Fields, Boolean
  <2>2. SameWires(s, r) /\ SameSite(s, r)
    BY DEF Base, Shape, Fields, SameWires, SameSite
  <2>3. Sheds(s, r) /\ (s.retry => r.retry) /\ r.flight = NoKey /\ r.proj = v /\ r.fifo = s.fifo
    BY DEF Base, Shape, Fields, Sheds
  <2>4. Projected(r)
    <3> HIDE DEF r
    <3> QED
      BY <2>3 DEF Projected, v
  <2> HIDE DEF r
  <2> QED
    BY <2>1, <2>2, <2>3, <2>4, LocalTame
<1> HIDE DEF r
<1>4. Tame(r, TryLeave(r))
  BY <1>3, TryLeaveTame DEF Tame
<1>5. Tame(TryLeave(r), Schedule(TryLeave(r)))
  BY <1>4, ScheduleTame DEF Tame
<1>6. Tame(r, Schedule(TryLeave(r)))
  BY <1>4, <1>5, TameTwice
<1>7. Schedule(TryLeave(r)).flight = NoKey
  BY <1>3, <1>6 DEF Tame, Sheds
<1> QED
  BY <1>1, <1>3, <1>6, <1>7, TameTwice, TameStays

Reasons == {"superseded", "transport", "host"}

LEMMA FailKeyTame ==
  ASSUME NEW s, Base(s), NEW key, NEW reason \in Reasons
  PROVE  /\ Tame(s, FailKey(s, key, reason))
         /\ \/ s.flight # key /\ FailKey(s, key, reason) = s
            \/ FailKey(s, key, reason).flight = NoKey
<1> DEFINE kind == FailureKind(s, reason)
<1>1. kind = "stale" \/ kind \in ResetKinds
  BY DEF FailureKind, Reasons, ResetKinds
<1>2. FailKey(s, key, reason) =
        IF s.flight # key THEN s
        ELSE IF kind = "stale" THEN CompleteKey(s, key) ELSE ResetAfterFailure(s, kind)
  BY DEF FailKey
<1> HIDE DEF kind
<1> QED
  BY <1>1, <1>2, CompleteKeyTame, ResetAfterFailureTame, TameStays

(* Requests are dropped together with the key one of them carries. *)
LEMMA ClearRequestsTame ==
  ASSUME NEW s, Base(s)
  PROVE  Tame(s, ClearRequests(s))
<1> DEFINE r == [s EXCEPT !.asyncs = {}]
           q == FailKey(r, s.flight, "superseded")
<1>1. /\ Shape(r) /\ Boolean(r) /\ SameWires(s, r) /\ SameSite(s, r)
      /\ (s.retry => r.retry) /\ (Projected(s) => Projected(r))
  <2>1. Shape(r) /\ Boolean(r)
    BY DEF Base, Shape, Fields, Boolean
  <2>2. SameWires(s, r) /\ SameSite(s, r)
    BY DEF Base, Shape, Fields, SameWires, SameSite
  <2>3. (s.retry => r.retry) /\ (Projected(s) => Projected(r))
    BY DEF Base, Shape, Fields, Projected
  <2> QED
    BY <2>1, <2>2, <2>3
<1>2. /\ r.typed = s.typed /\ r.applied = s.applied /\ r.sessions = s.sessions
      /\ r.fifo = s.fifo /\ r.flight = s.flight /\ r.flightCtx = s.flightCtx
      /\ r.asyncs = {}
  BY DEF Base, Shape, Fields
<1>3. ClearRequests(s) = IF \E x \in s.asyncs : x.key = s.flight THEN q ELSE r
  BY DEF ClearRequests
<1>4. Base(r)
  <2> HIDE DEF r
  <2> QED
    BY <1>1 DEF Base, Wired, SameWires
<1> HIDE DEF r
<1>5. CASE ~ \E x \in s.asyncs : x.key = s.flight
  <2>1. Sheds(s, r)
    BY <1>2, <1>5 DEF Sheds
  <2> QED
    BY <1>1, <1>3, <1>5, <2>1, LocalTame
<1>6. CASE \E x \in s.asyncs : x.key = s.flight
  <2>1. Tame(r, q) /\ q.flight = NoKey
    BY <1>2, <1>4, FailKeyTame DEF Reasons
  <2> HIDE DEF q
  <2>2. Sheds(s, q)
    BY <1>2, <2>1 DEF Tame, Sheds
  <2>3. MailGrows(s, q) /\ Follows(s, q)
    <3>1. MailGrows(s, r)
      BY <1>1, MailFixed DEF SameWires
    <3>2. Follows(s, r)
      BY <1>1 DEF SameWires, Follows
    <3> QED
      BY <2>1, <3>1, <3>2, FollowsTwice DEF Tame
  <2>4. Tame(s, q)
    BY <1>1, <2>1, <2>2, <2>3 DEF Tame, SameSite
  <2> QED
    BY <1>3, <1>6, <2>4
<1> QED
  BY <1>5, <1>6

LEMMA ReleaseIdleProjectionTame ==
  ASSUME NEW s, Base(s)
  PROVE  Tame(s, ReleaseIdleProjection(s)) /\ Projected(ReleaseIdleProjection(s))
<1> DEFINE r == [s EXCEPT !.proj = FALSE]
<1>1. Tame(s, r) /\ Projected(r)
  <2>1. Tame(s, r)
    BY ProjectionWrite
  <2>2. Projected(r)
    BY DEF Base, Shape, Fields, Projected
  <2> QED
    BY <2>1, <2>2
<1>2. ReleaseIdleProjection(s) =
        IF s.fifo = <<>> /\ s.flight = NoKey /\ ~ s.pending THEN r ELSE s
  BY DEF ReleaseIdleProjection
<1> HIDE DEF r
<1> QED
  BY <1>1, <1>2, TameStays DEF Projected

-----------------------------------------------------------------------------
(* The invariant. *)

CarriesKey(x) == x.kind \in {"key", "text"}

KeyTyped(s) ==
    /\ s.fifo \in Seq(Queueds)
    /\ s.flight \in {NoKey} \cup Keys /\ s.flightCtx \in Contexts \cup {NoCtx}
    /\ s.flight = NoKey <=> s.flightCtx = NoCtx
    /\ s.asyncs \subseteq Requests
    /\ \A x, y \in s.asyncs : x.key = y.key => x = y
    /\ s.sessions \in Seq(Sessions)
    /\ \A i \in DOMAIN s.sessions : CarriesKey(s.sessions[i]) => s.sessions[i].key \in Keys
    /\ s.typed \in 0..MaxKeys /\ s.applied \in Seq(Keys)

HostTyped(s) ==
    /\ s.comp \in Contexts \cup {NoCtx} /\ s.top \in Contexts \cup {NoCtx}
    /\ s.tops \in [Documents -> Contexts]
    /\ \A d \in Documents : DocOf[s.tops[d]] = d
    /\ s.top # NoCtx => s.top = s.tops[DocOf[s.top]]
    /\ s.origin \in Nat
    /\ s.connected \in BOOLEAN /\ s.lossTimer \in BOOLEAN
    /\ s.queued \in Nat /\ s.server \in BOOLEAN

Room(s) == Len(s.fifo) + (IF s.flight = NoKey THEN 0 ELSE 1) <= MaxQueue

(* A key that was typed, and before every key in the queue. *)
Spent(s, k) == k <= s.typed /\ \A i \in DOMAIN s.fifo : k < s.fifo[i].key

(* It is not younger than the key in flight either. *)
Settling(s, k) == Spent(s, k) /\ (s.flight # NoKey => k <= s.flight)

Ordered(s) ==
    /\ \A i, j \in DOMAIN s.fifo : i < j => s.fifo[i].key < s.fifo[j].key
    /\ \A i \in DOMAIN s.fifo : s.fifo[i].key <= s.typed
    /\ Spent(s, s.flight)
    /\ \A i \in DOMAIN s.sessions :
         CarriesKey(s.sessions[i]) => Settling(s, s.sessions[i].key)
    /\ \A x \in s.asyncs : Settling(s, x.key)

Behind(s) ==
    \A i \in DOMAIN s.applied :
      Spent(s, s.applied[i]) /\ (s.flight # NoKey => s.applied[i] < s.flight)

Typed(s) == Base(s) /\ KeyTyped(s) /\ HostTyped(s) /\ Room(s)
Sound(s) == Typed(s) /\ Ordered(s) /\ Behind(s)

(* The parts of FlightCarried. *)
Bears(s, k, i) == s.sessions[i].key = k /\ CarriesKey(s.sessions[i])
InSession(s, k) == \E i \in DOMAIN s.sessions : Bears(s, k, i)
InOneSession(s, k) ==
    \A i, j \in DOMAIN s.sessions : Bears(s, k, i) /\ Bears(s, k, j) => i = j
InPost(s, k) == \E x \in s.asyncs : x.key = k /\ k \in Inbox(s, "async")

FlightHeld(s) ==
    s.flight # NoKey =>
      \/ InSession(s, s.flight) /\ InOneSession(s, s.flight) /\ ~ InPost(s, s.flight)
      \/ ~ InSession(s, s.flight) /\ InPost(s, s.flight)

Cancels(s, token) ==
    \E i \in DOMAIN s.sessions : s.sessions[i].key = token /\ s.sessions[i].kind = "reset"
ResetHeld(s) == s.queued # 0 => Cancels(s, s.queued)

Gate(s) ==
    s.pending /\ s.connected =>
        \/ s.resetToken \in Inbox(s, "dirty")
        \/ s.queued # 0
        \/ s.retry
        \/ Inbox(s, "reconnect") \cup Inbox(s, "connect") # {}

Held(s) == Sound(s) /\ FlightHeld(s) /\ ResetHeld(s) /\ Projected(s)
Full(s) == Held(s) /\ Gate(s)
IInv == Full(ime)

(* What holds of the key k while it passes from one carrier to another. *)
HeldBut(s, k) == s.flight # k => FlightHeld(s)
Free(s, k) == s.flight = k => ~ InSession(s, k) /\ \A x \in s.asyncs : x.key # k

(* A step that is tame but for the gate and the projection. *)
Loose(s, r) ==
    /\ Base(r) /\ Sheds(s, r) /\ MailGrows(s, r)
    /\ r.comp = s.comp /\ r.origin = s.origin /\ r.top = s.top /\ r.tops = s.tops
    /\ r.connected = s.connected /\ r.lossTimer = s.lossTimer
    /\ r.queued = s.queued /\ r.server = s.server
    /\ s.retry => r.retry

LEMMA TameLoose ==
  ASSUME NEW s, NEW r, Tame(s, r)
  PROVE  Loose(s, r)
BY DEF Tame, Loose

LEMMA LooseTwice ==
  ASSUME NEW s, NEW r, NEW q, Loose(s, r), Loose(r, q)
  PROVE  Loose(s, q)
<1>1. Sheds(s, q)
  BY ShedsTwice DEF Loose
<1>2. MailGrows(s, q)
  BY DEF Loose, MailGrows
<1> QED
  BY <1>1, <1>2 DEF Loose

LEMMA LooseTyped ==
  ASSUME NEW s, NEW r, Typed(s), Loose(s, r)
  PROVE  Typed(r)
<1>1. KeyTyped(r)
  <2>1. <<>> \in Seq(Queueds)
    OBVIOUS
  <2> QED
    BY <2>1 DEF Typed, KeyTyped, Loose, Sheds
<1>2. HostTyped(r)
  BY DEF Typed, HostTyped, Loose
<1>3. Room(r)
  <2>1. Len(r.fifo) <= Len(s.fifo) /\ Len(r.fifo) \in Nat /\ Len(s.fifo) \in Nat
    <3>1. s.fifo \in Seq(Queueds) /\ Len(<<>>) = 0
      BY DEF Typed, KeyTyped
    <3> QED
      BY <3>1 DEF Loose, Sheds
  <2> DEFINE W(x) == IF x.flight = NoKey THEN 0 ELSE 1
  <2>2. W(r) <= W(s) /\ W(r) \in {0, 1} /\ W(s) \in {0, 1}
    BY DEF Loose, Sheds
  <2>3. Len(s.fifo) + W(s) <= MaxQueue
    BY DEF Typed, Room
  <2> HIDE DEF W
  <2>4. Len(r.fifo) + W(r) <= MaxQueue
    BY <2>1, <2>2, <2>3, BoundsAssumption
  <2> QED
    BY <2>4 DEF W, Room
<1> QED
  BY <1>1, <1>2, <1>3 DEF Typed, Loose

LEMMA LooseSpent ==
  ASSUME NEW s, NEW r, Sheds(s, r), NEW k
  PROVE  /\ Spent(s, k) => Spent(r, k)
         /\ Settling(s, k) => Settling(r, k)
<1>1. Spent(s, k) => Spent(r, k)
  BY DEF Sheds, Spent
<1> QED
  BY <1>1 DEF Sheds, Settling

LEMMA LooseOrdered ==
  ASSUME NEW s, NEW r, Typed(s), Ordered(s), Sheds(s, r)
  PROVE  Ordered(r)
<1>1. /\ \A i, j \in DOMAIN r.fifo : i < j => r.fifo[i].key < r.fifo[j].key
      /\ \A i \in DOMAIN r.fifo : r.fifo[i].key <= r.typed
  BY DEF Sheds, Ordered
<1>2. Spent(r, r.flight)
  <2>1. CASE r.flight = s.flight
    BY <2>1, LooseSpent DEF Ordered
  <2>2. CASE r.flight = NoKey
    <3>1. \A i \in DOMAIN s.fifo : s.fifo[i].key \in Nat \ {0}
      <4>1. \A i \in DOMAIN s.fifo : s.fifo[i] \in Queueds
        BY DEF Typed, KeyTyped
      <4>2. \A x \in Queueds : x.key \in 1..MaxKeys
        BY DEF Queueds, Keys
      <4> QED
        BY <4>1, <4>2, BoundsAssumption
    <3>2. r.typed = s.typed /\ (r.fifo = s.fifo \/ r.fifo = <<>>)
      BY DEF Sheds
    <3> QED
      BY <2>2, <3>1, <3>2, BoundsAssumption DEF Typed, KeyTyped, Spent, NoKey
  <2> QED
    BY <2>1, <2>2 DEF Sheds
<1>3. \A i \in DOMAIN r.sessions :
        CarriesKey(r.sessions[i]) => Settling(r, r.sessions[i].key)
  BY LooseSpent DEF Sheds, Ordered
<1>4. \A x \in r.asyncs : Settling(r, x.key)
  BY LooseSpent DEF Sheds, Ordered
<1> QED
  BY <1>1, <1>2, <1>3, <1>4 DEF Ordered

LEMMA LooseBehind ==
  ASSUME NEW s, NEW r, Behind(s), Sheds(s, r)
  PROVE  Behind(r)
BY LooseSpent DEF Behind, Sheds

LEMMA LooseSound ==
  ASSUME NEW s, NEW r, Sound(s), Loose(s, r)
  PROVE  Sound(r)
BY LooseTyped, LooseOrdered, LooseBehind DEF Sound, Loose

LEMMA LooseHeld ==
  ASSUME NEW s, NEW r, Loose(s, r)
  PROVE  /\ FlightHeld(s) => FlightHeld(r)
         /\ ResetHeld(s) => ResetHeld(r)
         /\ \A k : HeldBut(s, k) => HeldBut(r, k) \/ r.flight = NoKey
         /\ \A k : Free(s, k) /\ k # NoKey => Free(r, k)
<1>1. /\ Inbox(r, "async") = Inbox(s, "async") /\ r.sessions = s.sessions
      /\ r.flight = s.flight \/ r.flight = NoKey
  BY DEF Loose, Sheds, MailGrows
<1>2. \A k : /\ InSession(r, k) = InSession(s, k)
             /\ InOneSession(r, k) = InOneSession(s, k)
  BY <1>1 DEF InSession, InOneSession, Bears
<1>3. r.flight # NoKey => InPost(r, r.flight) = InPost(s, r.flight)
  BY <1>1 DEF InPost, Loose, Sheds
<1>4. FlightHeld(s) => FlightHeld(r)
  BY <1>1, <1>2, <1>3 DEF FlightHeld
<1>5. ResetHeld(s) => ResetHeld(r)
  BY <1>1 DEF ResetHeld, Cancels, Loose
<1>6. \A k : HeldBut(s, k) => HeldBut(r, k) \/ r.flight = NoKey
  BY <1>1, <1>4 DEF HeldBut
<1>7. \A k : Free(s, k) /\ k # NoKey => Free(r, k)
  BY <1>1, <1>2 DEF Free, Loose, Sheds
<1> QED
  BY <1>4, <1>5, <1>6, <1>7

LEMMA TameGate ==
  ASSUME NEW s, NEW r, Tame(s, r), Gate(s)
  PROVE  Gate(r)
<1>1. /\ Inbox(s, "dirty") \subseteq Inbox(r, "dirty")
      /\ Inbox(s, "reconnect") \subseteq Inbox(r, "reconnect")
      /\ Inbox(s, "connect") \subseteq Inbox(r, "connect")
  BY DEF Tame, MailGrows, Kinds
<1> QED
  BY <1>1 DEF Tame, Follows, Gate

LEMMA TameHeld ==
  ASSUME NEW s, NEW r, Tame(s, r), Held(s)
  PROVE  Held(r)
BY TameLoose, LooseSound, LooseHeld DEF Held, Tame

LEMMA TameFull ==
  ASSUME NEW s, NEW r, Tame(s, r), Full(s)
  PROVE  Full(r)
BY TameHeld, TameGate DEF Full

-----------------------------------------------------------------------------
(* The local reset. *)

(* What follows the opening of the gate is announced if it closes again. *)
Opens(s, r) ==
    Loose(s, r) /\ Projected(r) /\ (r.pending => r.resetToken \in Inbox(r, "dirty"))

LEMMA OpensGate ==
  ASSUME NEW s, NEW r, Opens(s, r)
  PROVE  Gate(r)
BY DEF Opens, Gate

LEMMA TameOpens ==
  ASSUME NEW s, NEW r, NEW q, Opens(s, r), Tame(r, q)
  PROVE  Opens(s, q)
<1>1. Loose(s, q) /\ Projected(q)
  BY TameLoose, LooseTwice DEF Opens, Tame
<1>2. Inbox(r, "dirty") \subseteq Inbox(q, "dirty")
  BY DEF Tame, MailGrows, Kinds
<1> QED
  BY <1>1, <1>2 DEF Opens, Tame, Follows

LEMMA ReleasedTame ==
  ASSUME NEW s, Base(s), NEW token, NEW e \in Released(s, token)
  PROVE  Tame(s, e) /\ Projected(e)
<1> DEFINE r == [s EXCEPT !.resync = 0]
<1>1. Tame(s, r)
  <2>1. Shape(r)
    BY DEF Base, Shape
  <2>2. Wired(r) /\ r.mail = s.mail /\ r.pending = s.pending /\ r.resetToken = s.resetToken
    BY DEF Base, Shape, Fields, Wired
  <2>3. Same(s, r)
    BY DEF Base, Shape, Fields, Same, SameKeys, SameHost, SameRest
  <2> HIDE DEF r
  <2> QED
    BY <2>1, <2>2, <2>3, QuietWire, WireTame
<1>2. \/ e = ReleaseIdleProjection(s)
      \/ e = ReleaseIdleProjection(r)
      \/ \E x \in SendPacket(r) : e = ReleaseIdleProjection(x.st)
  BY Zenon DEF Released
<1> HIDE DEF r
<1>3. Base(r)
  BY <1>1 DEF Tame
<1>4. ASSUME NEW x \in SendPacket(r) PROVE Tame(r, x.st)
  BY <1>3, <1>4, SendPacketWires, WireTame DEF Base
<1>5. CASE e = ReleaseIdleProjection(s)
  BY <1>5, ReleaseIdleProjectionTame
<1>6. CASE e = ReleaseIdleProjection(r)
  BY <1>1, <1>3, <1>6, ReleaseIdleProjectionTame, TameTwice
<1>7. ASSUME NEW x \in SendPacket(r), e = ReleaseIdleProjection(x.st)
      PROVE  Tame(s, e) /\ Projected(e)
  <2>1. Tame(s, x.st) /\ Base(x.st)
    BY <1>1, <1>4, TameTwice DEF Tame
  <2> QED
    BY <1>7, <2>1, ReleaseIdleProjectionTame, TameTwice
<1> QED
  BY <1>2, <1>5, <1>6, <1>7

LEMMA ReopenOpens ==
  ASSUME NEW s, Base(s), NEW token, NEW e \in Reopen(s, token)
  PROVE  Opens(s, e)
<1> DEFINE o == [s EXCEPT !.pending = FALSE]
           m == Message("reconnect")
<1>1. Loose(s, o) /\ ~ o.pending
  <2>1. Shape(o)
    BY DEF Base, Shape
  <2>2. o.pending = FALSE
    BY DEF Base, Shape, Fields
  <2>3. Wired(o)
    BY DEF Base, Shape, Fields, Wired
  <2>4. Boolean(o)
    BY DEF Base, Shape, Fields, Boolean
  <2>5. Sheds(s, o)
    BY DEF Base, Shape, Fields, Sheds
  <2>6. o.mail = s.mail
    BY DEF Base, Shape, Fields
  <2>7. SameSite(s, o) /\ (s.retry => o.retry)
    BY DEF Base, Shape, Fields, SameSite
  <2>8. MailGrows(s, o)
    BY <2>6, MailFixed
  <2> HIDE DEF o
  <2> QED
    BY <2>1, <2>2, <2>3, <2>4, <2>5, <2>7, <2>8 DEF Loose, Base, SameSite
<1>2. PICK x \in Released(o, token) :
        e = (IF x.connected THEN Schedule(Post(x, m)) ELSE x)
  BY Zenon DEF Reopen
<1> HIDE DEF o
<1>3. Tame(o, x) /\ Projected(x)
  BY <1>1, ReleasedTame DEF Loose
<1>4. Opens(s, x)
  <2>1. Loose(s, x)
    BY <1>1, <1>3, TameLoose, LooseTwice
  <2> QED
    BY <1>1, <1>3, <2>1 DEF Opens, Tame, Follows
<1>5. m \in Letters /\ m.kind # "async"
  BY MessageIsLetter DEF Kinds
<1> HIDE DEF m
<1>6. Base(x)
  BY <1>3 DEF Tame
<1>7. Tame(x, Post(x, m))
  BY <1>5, <1>6, PostWires, WireTame DEF Base
<1>8. Tame(Post(x, m), Schedule(Post(x, m)))
  BY <1>7, ScheduleTame DEF Tame
<1> QED
  BY <1>2, <1>4, <1>7, <1>8, TameOpens

LEMMA OpensFull ==
  ASSUME NEW s, NEW r, Sound(s), FlightHeld(s), ResetHeld(s), Opens(s, r)
  PROVE  Full(r)
BY LooseSound, LooseHeld, OpensGate DEF Full, Held, Opens

(* The cancel is asked for. *)
LEMMA CancelAccepted ==
  ASSUME NEW s, Held(s), NEW token \in Nat \ {0}, NEW ctx \in Contexts
  PROVE  Full(Accepted([s EXCEPT !.queued = token], Session("reset", token, ctx, 0, "any")))
<1> DEFINE x == Session("reset", token, ctx, 0, "any")
           n == Len(s.sessions) + 1
           r == Accepted([s EXCEPT !.queued = token], x)
<1>0. Sound(s) /\ Base(s) /\ s.sessions \in Seq(Sessions)
  BY DEF Held, Sound, Typed, KeyTyped
<1>1. x \in Sessions /\ x.key = token /\ x.kind = "reset" /\ ~ CarriesKey(x)
  BY DEF Session, Sessions, CarriesKey
<1>2. r.sessions = Append(s.sessions, x) /\ r.queued = token
  BY <1>0 DEF Base, Shape, Fields, Accepted
<1>3. Shape(r)
  BY <1>0 DEF Base, Shape, Accepted
<1>4. SameWires(s, r)
  BY <1>0 DEF Base, Shape, Fields, Accepted, SameWires
<1>5. /\ r.fifo = s.fifo /\ r.flight = s.flight /\ r.flightCtx = s.flightCtx
      /\ r.asyncs = s.asyncs /\ r.typed = s.typed /\ r.applied = s.applied
      /\ r.comp = s.comp /\ r.origin = s.origin /\ r.top = s.top /\ r.tops = s.tops
      /\ r.connected = s.connected /\ r.lossTimer = s.lossTimer
      /\ r.offline = s.offline
      /\ r.posted = s.posted /\ r.proj = s.proj /\ r.retry = s.retry
      /\ r.server = s.server
  BY <1>0 DEF Base, Shape, Fields, Accepted
<1> HIDE DEF x, r
<1>6. Base(r)
  BY <1>0, <1>3, <1>4, <1>5 DEF Base, Wired, Boolean, SameWires
<1>7. /\ r.sessions \in Seq(Sessions) /\ DOMAIN r.sessions = DOMAIN s.sessions \cup {n}
      /\ r.sessions[n] = x
      /\ n \notin DOMAIN s.sessions
      /\ \A i \in DOMAIN s.sessions : r.sessions[i] = s.sessions[i]
  BY <1>0, <1>1, <1>2
<1>8. Typed(r)
  <2>1. KeyTyped(r)
    BY <1>0, <1>1, <1>5, <1>7 DEF Sound, Typed, KeyTyped
  <2>2. HostTyped(r)
    BY <1>0, <1>2, <1>5 DEF Sound, Typed, HostTyped
  <2>3. Room(r)
    BY <1>0, <1>5 DEF Sound, Typed, Room
  <2> QED
    BY <1>6, <2>1, <2>2, <2>3 DEF Typed
<1>9. \A k : /\ Spent(r, k) = Spent(s, k) /\ Settling(r, k) = Settling(s, k)
             /\ \A i \in DOMAIN r.sessions : Bears(r, k, i) <=> i \in DOMAIN s.sessions /\ Bears(s, k, i)
  BY <1>1, <1>5, <1>7 DEF Spent, Settling, Bears
<1>10. Ordered(r)
  BY <1>0, <1>1, <1>5, <1>7, <1>9 DEF Sound, Ordered
<1>11. Behind(r)
  BY <1>0, <1>5, <1>9 DEF Sound, Behind
<1>12. FlightHeld(r)
  <2>1. Inbox(r, "async") = Inbox(s, "async")
    BY <1>4, MailFixed DEF SameWires
  <2>2. \A k : /\ InSession(r, k) = InSession(s, k) /\ InOneSession(r, k) = InOneSession(s, k)
               /\ InPost(r, k) = InPost(s, k)
    BY <1>5, <1>7, <1>9, <2>1 DEF InSession, InOneSession, InPost
  <2> QED
    BY <1>5, <2>2 DEF Held, FlightHeld
<1>13. ResetHeld(r)
  BY <1>1, <1>2, <1>7 DEF ResetHeld, Cancels
<1>14. Projected(r)
  BY <1>4, <1>5 DEF Held, Projected, SameWires
<1>15. Gate(r)
  BY <1>2 DEF Gate
<1>16. Full(r)
  BY <1>8, <1>10, <1>11, <1>12, <1>13, <1>14, <1>15 DEF Full, Held, Sound
<1> QED
  BY <1>16 DEF r, x

(* One more of the counted troubles. *)
LEMMA TroubleTame ==
  ASSUME NEW s, Base(s), s.troubles < MaxTroubles
  PROVE  Tame(s, [s EXCEPT !.troubles = @ + 1])
<1> DEFINE r == [s EXCEPT !.troubles = @ + 1]
<1>1. Shape(r) /\ r.troubles = s.troubles + 1
  BY DEF Base, Shape, Fields
<1>2. /\ r.mail = s.mail /\ r.expected = s.expected /\ r.acked = s.acked
      /\ r.checked = s.checked /\ r.minted = s.minted /\ r.resync = s.resync
      /\ r.ready = s.ready /\ r.required = s.required /\ r.published = s.published
      /\ r.suspend = s.suspend /\ r.reply = s.reply /\ r.worker = s.worker
      /\ r.main = s.main /\ r.pipeGen = s.pipeGen /\ r.echoes = s.echoes
      /\ r.pending = s.pending /\ r.resetToken = s.resetToken
  BY DEF Base, Shape, Fields
<1>3. Same(s, r)
  BY DEF Base, Shape, Fields, Same, SameKeys, SameHost, SameRest
<1> HIDE DEF r
<1>4. s.troubles + 1 \in 0..MaxTroubles
  BY BoundsAssumption DEF Base, Wired
<1>5. Wired(r)
  BY <1>1, <1>2, <1>4 DEF Base, Wired
<1>6. Tame(s, r)
  BY <1>1, <1>2, <1>3, <1>5, QuietWire, WireTame
<1> QED
  BY <1>6 DEF r

LEMMA RequestResetFull ==
  ASSUME NEW s, Held(s), NEW preferred \in Contexts \cup {NoCtx}, NEW token \in Nat,
         Gate(s) \/ (token = s.resetToken /\ token # 0),
         NEW e \in RequestReset(s, preferred, token)
  PROVE  Full(e)
<1> DEFINE v == s.ready /\ token = s.resync
           a == [s EXCEPT !.ready = v]
           r == ClearRequests(a)
           ctx == IF preferred # NoCtx THEN preferred ELSE r.comp
           t == [r EXCEPT !.troubles = @ + 1]
<1>0. Base(s) /\ Sound(s) /\ Typed(s)
  BY DEF Held, Sound, Typed
<1>1. Tame(s, a)
  <2>0. v \in BOOLEAN
    OBVIOUS
  <2> HIDE DEF v
  <2>1. Shape(a) /\ a.ready = v
    BY <1>0 DEF Base, Shape, Fields
  <2>2. /\ a.mail = s.mail /\ a.expected = s.expected /\ a.acked = s.acked
        /\ a.checked = s.checked /\ a.minted = s.minted /\ a.resync = s.resync
        /\ a.required = s.required /\ a.published = s.published
        /\ a.suspend = s.suspend /\ a.reply = s.reply /\ a.worker = s.worker
        /\ a.main = s.main /\ a.pipeGen = s.pipeGen /\ a.echoes = s.echoes
        /\ a.pending = s.pending /\ a.resetToken = s.resetToken
        /\ a.troubles = s.troubles
    BY <1>0 DEF Base, Shape, Fields
  <2>3. Same(s, a)
    BY <1>0 DEF Base, Shape, Fields, Same, SameKeys, SameHost, SameRest
  <2> HIDE DEF a
  <2>4. Wired(a)
    BY <1>0, <2>0, <2>1, <2>2 DEF Base, Wired
  <2> QED
    BY <1>0, <2>1, <2>2, <2>3, <2>4, QuietWire, WireTame
<1>2. e \in (IF token = 0 \/ token # s.resetToken \/ ~ s.pending THEN {s}
             ELSE IF r.queued # 0 THEN {r}
             ELSE IF ~ Composing(r) THEN Reopen(r, token)
             ELSE {Accepted([r EXCEPT !.queued = token], Session("reset", token, ctx, 0, "any"))}
                  \cup IF r.troubles < MaxTroubles THEN {ArmRetry(t)} ELSE {})
  BY DEF RequestReset
<1> HIDE DEF a
<1>3. Tame(s, r)
  BY <1>1, ClearRequestsTame, TameTwice DEF Tame
<1> HIDE DEF r
<1>4. Held(r) /\ Base(r)
  BY <1>3, TameHeld DEF Tame
<1>5. CASE token = 0 \/ token # s.resetToken \/ ~ s.pending
  BY <1>2, <1>5 DEF Full, Gate
<1>6. CASE ~ (token = 0 \/ token # s.resetToken \/ ~ s.pending) /\ r.queued # 0
  BY <1>2, <1>4, <1>6 DEF Full, Gate
<1>7. ASSUME ~ (token = 0 \/ token # s.resetToken \/ ~ s.pending), r.queued = 0, ~ Composing(r)
      PROVE  Full(e)
  <2>1. e \in Reopen(r, token)
    BY <1>2, <1>7
  <2> QED
    BY <1>4, <2>1, ReopenOpens, OpensFull DEF Held
<1>8. ASSUME ~ (token = 0 \/ token # s.resetToken \/ ~ s.pending), r.queued = 0, Composing(r)
      PROVE  Full(e)
  <2>1. ctx \in Contexts
    BY <1>4, <1>8 DEF Composing, Held, Sound, Typed, HostTyped
  <2>2. CASE e = Accepted([r EXCEPT !.queued = token], Session("reset", token, ctx, 0, "any"))
    <3> HIDE DEF ctx
    <3> QED
      BY <1>4, <1>8, <2>1, <2>2, CancelAccepted
  <2>3. CASE r.troubles < MaxTroubles /\ e = ArmRetry(t)
    <3>1. Tame(r, t)
      BY <1>4, <2>3, TroubleTame
    <3>2. Held(t)
      BY <1>4, <3>1, TameHeld
    <3> HIDE DEF t
    <3>3. Base(t) /\ t.connected \in BOOLEAN
      BY <3>2 DEF Held, Sound, Typed, HostTyped
    <3>4. Tame(t, e) /\ (t.connected => e.retry)
      BY <2>3, <3>3, ArmRetryTame
    <3>5. Held(e) /\ e.connected = t.connected
      BY <3>2, <3>4, TameHeld DEF Tame
    <3> QED
      BY <3>4, <3>5 DEF Full, Gate
  <2> QED
    BY <1>2, <1>8, <2>2, <2>3
<1> QED
  BY <1>5, <1>6, <1>7, <1>8

(* The cancel has run: the token is no longer queued. *)
LEMMA CompleteResetFull ==
  ASSUME NEW s, Sound(s), FlightHeld(s), Projected(s), NEW token \in Nat,
         s.queued # token => ResetHeld(s) /\ Gate(s),
         NEW e \in CompleteReset(s, token)
  PROVE  Full(e)
<1> DEFINE r == [s EXCEPT !.queued = 0]
           m == Message("reconnect")
<1>0. Base(s) /\ Typed(s)
  BY DEF Sound, Typed
<1>1. e \in (IF s.queued # token THEN {s}
             ELSE IF r.pending /\ r.resetToken # token THEN RequestReset(r, NoCtx, r.resetToken)
             ELSE IF r.resetToken = token /\ ~ Composing(r) THEN Reopen(r, token)
             ELSE IF r.resetToken = token /\ r.pending THEN {ArmRetry(r)}
             ELSE {IF r.connected THEN Schedule(Post(r, m)) ELSE r})
  BY DEF CompleteReset
<1>2. Held(r) /\ Base(r)
  <2>1. Shape(r) /\ r.queued = 0
    BY <1>0 DEF Base, Shape, Fields
  <2>2. SameWires(s, r)
    BY <1>0 DEF Base, Shape, Fields, SameWires
  <2>3. /\ r.fifo = s.fifo /\ r.flight = s.flight /\ r.flightCtx = s.flightCtx
        /\ r.asyncs = s.asyncs /\ r.typed = s.typed /\ r.applied = s.applied
        /\ r.sessions = s.sessions
        /\ r.comp = s.comp /\ r.origin = s.origin /\ r.top = s.top /\ r.tops = s.tops
        /\ r.connected = s.connected /\ r.lossTimer = s.lossTimer
        /\ r.offline = s.offline
        /\ r.posted = s.posted /\ r.proj = s.proj /\ r.retry = s.retry
        /\ r.server = s.server
    BY <1>0 DEF Base, Shape, Fields
  <2> HIDE DEF r
  <2>4. Base(r)
    BY <1>0, <2>1, <2>2, <2>3 DEF Base, Wired, Boolean, SameWires
  <2>5. Typed(r)
    <3>1. KeyTyped(r)
      BY <1>0, <2>3 DEF Typed, KeyTyped
    <3>2. HostTyped(r)
      BY <1>0, <2>1, <2>3 DEF Typed, HostTyped
    <3>3. Room(r)
      BY <1>0, <2>3 DEF Typed, Room
    <3> QED
      BY <2>4, <3>1, <3>2, <3>3 DEF Typed
  <2>6. Sheds(s, r)
    BY <2>3 DEF Sheds
  <2>7. Sound(r)
    BY <1>0, <2>5, <2>6, LooseOrdered, LooseBehind DEF Sound
  <2>8. Inbox(r, "async") = Inbox(s, "async")
    BY <2>2, MailFixed DEF SameWires
  <2>9. FlightHeld(r)
    BY <2>3, <2>8 DEF FlightHeld, InSession, InOneSession, InPost, Bears
  <2>10. Projected(r) /\ ResetHeld(r)
    BY <2>1, <2>2, <2>3 DEF Projected, ResetHeld, SameWires
  <2> QED
    BY <2>4, <2>7, <2>9, <2>10 DEF Held
<1> HIDE DEF r
<1>3. CASE s.queued # token
  BY <1>1, <1>3 DEF Full, Held
<1>4. ASSUME s.queued = token, r.pending, r.resetToken # token PROVE Full(e)
  <2>1. r.resetToken \in Nat \ {0}
    BY <1>2, <1>4 DEF Base, Wired
  <2>2. e \in RequestReset(r, NoCtx, r.resetToken)
    BY <1>1, <1>4
  <2> QED
    BY <1>2, <2>1, <2>2, RequestResetFull
<1>5. ASSUME s.queued = token, ~ (r.pending /\ r.resetToken # token) PROVE Full(e)
  <2>1. CASE r.resetToken = token /\ ~ Composing(r)
    <3>1. e \in Reopen(r, token)
      BY <1>1, <1>5, <2>1
    <3> QED
      BY <1>2, <3>1, ReopenOpens, OpensFull DEF Held
  <2>2. CASE ~ (r.resetToken = token /\ ~ Composing(r)) /\ r.resetToken = token /\ r.pending
    <3>1. e = ArmRetry(r)
      BY <1>1, <1>5, <2>2
    <3>2. r.connected \in BOOLEAN
      BY <1>2 DEF Held, Sound, Typed, HostTyped
    <3>3. Tame(r, e) /\ (r.connected => e.retry)
      BY <1>2, <3>1, <3>2, ArmRetryTame
    <3>4. Held(e) /\ e.connected = r.connected
      BY <1>2, <3>3, TameHeld DEF Tame
    <3> QED
      BY <3>3, <3>4 DEF Full, Gate
  <2>3. CASE /\ ~ (r.resetToken = token /\ ~ Composing(r))
             /\ ~ (r.resetToken = token /\ r.pending)
    <3>1. ~ r.pending /\ Full(r)
      BY <1>2, <1>5, <2>3 DEF Full, Gate
    <3>2. e = r \/ e = Schedule(Post(r, m))
      BY <1>1, <1>5, <2>3
    <3>3. m \in Letters /\ m.kind # "async"
      BY MessageIsLetter DEF Kinds
    <3> HIDE DEF m
    <3>4. Tame(r, Post(r, m))
      BY <1>2, <3>3, PostWires, WireTame DEF Base
    <3>5. Tame(Post(r, m), Schedule(Post(r, m)))
      BY <3>4, ScheduleTame DEF Tame
    <3> QED
      BY <3>1, <3>2, <3>4, <3>5, TameFull
  <2> QED
    BY <2>1, <2>2, <2>3
<1> QED
  BY <1>3, <1>4, <1>5

-----------------------------------------------------------------------------
(* A key on its way from one carrier to the next. *)

Mid(s, k) ==
    /\ Sound(s) /\ HeldBut(s, k) /\ ResetHeld(s) /\ Projected(s) /\ Gate(s)

LEMMA MidTame ==
  ASSUME NEW s, NEW r, NEW k, Mid(s, k), Tame(s, r)
  PROVE  Mid(r, k)
<1>1. Sound(r) /\ ResetHeld(r)
  BY TameLoose, LooseSound, LooseHeld DEF Mid
<1>2. HeldBut(r, k)
  BY TameLoose, LooseHeld DEF Mid, HeldBut, FlightHeld
<1> QED
  BY <1>1, <1>2, TameGate DEF Mid, Tame

LEMMA MidBase ==
  ASSUME NEW s, NEW k, Mid(s, k)
  PROVE  Base(s) /\ Typed(s) /\ KeyTyped(s) /\ HostTyped(s) /\ Ordered(s) /\ Behind(s)
BY DEF Mid, Sound, Typed

LEMMA MidFull ==
  ASSUME NEW s
  PROVE  /\ Full(s) => \A k : Mid(s, k)
         /\ \A k : Mid(s, k) /\ (s.flight # k \/ s.flight = NoKey) => Full(s)
BY DEF Full, Held, Mid, HeldBut, FlightHeld

LEMMA FailMid ==
  ASSUME NEW s, NEW k, Mid(s, k), NEW reason \in Reasons
  PROVE  Full(FailKey(s, k, reason))
BY MidBase, FailKeyTame, MidTame, MidFull

LEMMA CompleteMid ==
  ASSUME NEW s, NEW k, Mid(s, k)
  PROVE  Full(CompleteKey(s, k))
BY MidBase, CompleteKeyTame, MidTame, MidFull

(* An edit session takes the key. *)
LEMMA KeyAccepted ==
  ASSUME NEW s, NEW k \in Keys, Mid(s, k), Free(s, k), Settling(s, k),
         NEW x \in Sessions, x.key = k, CarriesKey(x)
  PROVE  Full(Accepted(s, x))
<1> DEFINE n == Len(s.sessions) + 1
           r == Accepted(s, x)
<1>0. Base(s) /\ s.sessions \in Seq(Sessions)
  BY MidBase DEF KeyTyped
<1>1. r.sessions = Append(s.sessions, x) /\ Shape(r)
  BY <1>0 DEF Base, Shape, Fields, Accepted
<1>2. SameWires(s, r)
  BY <1>0 DEF Base, Shape, Fields, Accepted, SameWires
<1>3. /\ r.fifo = s.fifo /\ r.flight = s.flight /\ r.flightCtx = s.flightCtx
      /\ r.asyncs = s.asyncs /\ r.typed = s.typed /\ r.applied = s.applied
      /\ r.comp = s.comp /\ r.origin = s.origin /\ r.top = s.top /\ r.tops = s.tops
      /\ r.connected = s.connected /\ r.lossTimer = s.lossTimer
      /\ r.offline = s.offline /\ r.queued = s.queued
      /\ r.posted = s.posted /\ r.proj = s.proj /\ r.retry = s.retry
      /\ r.server = s.server
  BY <1>0 DEF Base, Shape, Fields, Accepted
<1> HIDE DEF r
<1>4. Base(r)
  BY <1>0, <1>1, <1>2, <1>3 DEF Base, Wired, Boolean, SameWires
<1>5. /\ r.sessions \in Seq(Sessions) /\ DOMAIN r.sessions = DOMAIN s.sessions \cup {n}
      /\ r.sessions[n] = x
      /\ n \notin DOMAIN s.sessions
      /\ \A i \in DOMAIN s.sessions : r.sessions[i] = s.sessions[i]
  BY <1>0, <1>1
<1>6. Typed(r)
  <2>1. KeyTyped(r)
    BY <1>3, <1>5, MidBase DEF KeyTyped
  <2>2. HostTyped(r)
    BY <1>3, MidBase DEF HostTyped
  <2>3. Room(r)
    BY <1>3, MidBase DEF Typed, Room
  <2> QED
    BY <1>4, <2>1, <2>2, <2>3 DEF Typed
<1>7. \A j : Spent(r, j) = Spent(s, j) /\ Settling(r, j) = Settling(s, j)
  BY <1>3 DEF Spent, Settling
<1>8. Ordered(r)
  BY <1>3, <1>5, <1>7, MidBase DEF Ordered
<1>9. Behind(r)
  BY <1>3, <1>7, MidBase DEF Behind
<1>10. /\ \A j, i : i \in DOMAIN s.sessions => Bears(r, j, i) = Bears(s, j, i)
       /\ \A j : Bears(r, j, n) <=> j = k
  BY <1>5 DEF Bears
<1>11. FlightHeld(r)
  <2>1. \A j : InPost(r, j) = InPost(s, j)
    BY <1>2, <1>3, MailFixed DEF InPost, SameWires
  <2>2. ASSUME s.flight # NoKey, s.flight = k
        PROVE  InSession(r, k) /\ InOneSession(r, k) /\ ~ InPost(r, k)
    <3>1. ~ InSession(s, k) /\ ~ InPost(s, k)
      BY <2>2 DEF Free, InPost
    <3>2. \A i \in DOMAIN r.sessions : Bears(r, k, i) <=> i = n
      BY <1>5, <1>10, <3>1 DEF InSession
    <3> QED
      BY <1>5, <2>1, <3>1, <3>2 DEF InSession, InOneSession
  <2>3. ASSUME NEW j, j # k
        PROVE  InSession(r, j) = InSession(s, j) /\ InOneSession(r, j) = InOneSession(s, j)
    BY <1>5, <1>10, <2>3 DEF InSession, InOneSession
  <2> QED
    BY <1>3, <2>1, <2>2, <2>3 DEF FlightHeld, Mid, HeldBut
<1>12. ResetHeld(r)
  BY <1>3, <1>5 DEF Mid, ResetHeld, Cancels
<1>13. Projected(r)
  BY <1>2, <1>3 DEF Mid, Projected, SameWires
<1>14. Gate(r)
  BY <1>2, <1>3, MailFixed DEF Mid, Gate, SameWires
<1>15. Full(r)
  BY <1>6, <1>8, <1>9, <1>11, <1>12, <1>13, <1>14 DEF Full, Held, Sound
<1> QED
  BY <1>15 DEF r

LEMMA RequestSessionFull ==
  ASSUME NEW s, NEW k \in Keys, Mid(s, k), Free(s, k), Settling(s, k),
         NEW x \in Sessions, x.key = k, CarriesKey(x),
         NEW e \in RequestSession(s, x)
  PROVE  Full(e)
BY KeyAccepted, FailMid DEF RequestSession, Reasons

(* A posted request takes the key. *)
LEMMA RequestPosted ==
  ASSUME NEW s, NEW k \in Keys, Mid(s, k), Free(s, k), s.flight = k
  PROVE  Full(PostRequest(s, k))
<1> DEFINE x == [key |-> k, focus |-> s.expected, epoch |-> "current"]
           a == [s EXCEPT !.asyncs = @ \cup {x}]
           m == [kind |-> "async", arg |-> k]
           r == Post(a, m)
<1>0. Base(s) /\ s.expected \in Nat
  BY MidBase DEF Base, Wired
<1>1. x \in Requests /\ x.key = k
  BY <1>0 DEF Requests
<1>2. m \in Letters /\ m.kind = "async" /\ m.arg = k
  BY BoundsAssumption DEF Letters, Kinds, Keys
<1>3. PostRequest(s, k) = r
  BY DEF PostRequest
<1>4. Shape(a) /\ a.asyncs = s.asyncs \cup {x} /\ a.mail = s.mail
  BY <1>0 DEF Base, Shape, Fields
<1>5. /\ r.expected = s.expected /\ r.acked = s.acked
      /\ r.checked = s.checked /\ r.minted = s.minted /\ r.resync = s.resync
      /\ r.ready = s.ready /\ r.required = s.required /\ r.published = s.published
      /\ r.suspend = s.suspend /\ r.reply = s.reply /\ r.worker = s.worker
      /\ r.main = s.main /\ r.troubles = s.troubles /\ r.pipeGen = s.pipeGen
      /\ r.echoes = s.echoes
      /\ r.pending = s.pending /\ r.resetToken = s.resetToken
  BY <1>0 DEF Base, Shape, Fields, Post
<1>6. /\ r.fifo = s.fifo /\ r.flight = s.flight /\ r.flightCtx = s.flightCtx
      /\ r.sessions = s.sessions /\ r.typed = s.typed /\ r.applied = s.applied
      /\ r.comp = s.comp /\ r.origin = s.origin /\ r.top = s.top /\ r.tops = s.tops
      /\ r.connected = s.connected /\ r.lossTimer = s.lossTimer
      /\ r.offline = s.offline /\ r.queued = s.queued
      /\ r.posted = s.posted /\ r.proj = s.proj /\ r.retry = s.retry
      /\ r.server = s.server /\ r.asyncs = s.asyncs \cup {x}
  BY <1>0 DEF Base, Shape, Fields, Post
<1> HIDE DEF a, x, m
<1>7. /\ Shape(r) /\ r.mail \in Seq(Letters)
      /\ \A kind \in Kinds :
           Inbox(r, kind) = Inbox(a, kind) \cup (IF m.kind = kind THEN {m.arg} ELSE {})
  BY <1>0, <1>2, <1>4, Posting DEF Base, Wired
<1> HIDE DEF r
<1>8. /\ Inbox(r, "async") = Inbox(s, "async") \cup {k}
      /\ \A kind \in Kinds : Inbox(s, kind) \subseteq Inbox(r, kind)
  <2>1. "async" \in Kinds
    BY DEF Kinds
  <2>2. \A kind : Inbox(a, kind) = Inbox(s, kind)
    BY <1>4, MailFixed
  <2> QED
    BY <1>2, <1>7, <2>1, <2>2
<1>9. Base(r)
  BY <1>0, <1>5, <1>6, <1>7 DEF Base, Wired, Boolean
<1>10. Typed(r)
  <2>1. KeyTyped(r)
    BY <1>1, <1>6, MidBase DEF KeyTyped, Free
  <2>2. HostTyped(r)
    BY <1>6, MidBase DEF HostTyped
  <2>3. Room(r)
    BY <1>6, MidBase DEF Typed, Room
  <2> QED
    BY <1>9, <2>1, <2>2, <2>3 DEF Typed
<1>11. \A j : Spent(r, j) = Spent(s, j) /\ Settling(r, j) = Settling(s, j)
  BY <1>6 DEF Spent, Settling
<1>12. Ordered(r)
  <2>1. Settling(s, k)
    BY MidBase, BoundsAssumption DEF Ordered, Settling, Keys
  <2> QED
    BY <1>1, <1>6, <1>11, <2>1, MidBase DEF Ordered
<1>13. Behind(r)
  BY <1>6, <1>11, MidBase DEF Behind
<1>14. FlightHeld(r)
  <2>1. ~ InSession(r, k)
    BY <1>6 DEF Free, InSession, Bears
  <2>2. InPost(r, k)
    BY <1>1, <1>6, <1>8 DEF InPost
  <2> QED
    BY <1>6, <2>1, <2>2 DEF FlightHeld
<1>15. ResetHeld(r)
  BY <1>6 DEF Mid, ResetHeld, Cancels
<1>16. Projected(r)
  BY <1>5, <1>6 DEF Mid, Projected
<1>17. Gate(r)
  <2>1. /\ Inbox(s, "dirty") \subseteq Inbox(r, "dirty")
        /\ Inbox(s, "reconnect") \subseteq Inbox(r, "reconnect")
        /\ Inbox(s, "connect") \subseteq Inbox(r, "connect")
    BY <1>8 DEF Kinds
  <2> QED
    BY <1>5, <1>6, <2>1 DEF Mid, Gate
<1> QED
  BY <1>3, <1>10, <1>12, <1>13, <1>14, <1>15, <1>16, <1>17 DEF Full, Held, Sound

(* Replacing the composition outdates what was captured under it, and       *)
(* moves no key.                                                            *)
LEMMA SetCompositionKeeps ==
  ASSUME NEW s, Sound(s), NEW ctx \in Contexts \cup {NoCtx}
  PROVE  LET r == SetComposition(s, ctx)
         IN  /\ Sound(r)
             /\ FlightHeld(s) => FlightHeld(r)
             /\ ResetHeld(s) => ResetHeld(r)
             /\ Projected(s) => Projected(r)
             /\ Gate(s) => Gate(r)
             /\ r.flight = s.flight /\ r.queued = s.queued
             /\ \A j : Settling(s, j) => Settling(r, j)
<1> DEFINE r == [s EXCEPT
                   !.comp = ctx,
                   !.origin = IF ctx = NoCtx \/ s.offline THEN Offline ELSE s.expected,
                   !.asyncs = { Outdated(x) : x \in @ },
                   !.sessions = [i \in DOMAIN @ |-> Outdated(@[i])]]
<1>0. Base(s) /\ KeyTyped(s) /\ HostTyped(s) /\ Room(s) /\ Ordered(s) /\ Behind(s)
  BY DEF Sound, Typed
<1>1. SetComposition(s, ctx) = IF ctx = s.comp THEN s ELSE r
  BY DEF SetComposition
<1>2. /\ Shape(r)
      /\ r.comp = ctx
      /\ r.origin = (IF ctx = NoCtx \/ s.offline THEN Offline ELSE s.expected)
      /\ r.asyncs = { Outdated(x) : x \in s.asyncs }
      /\ r.sessions = [i \in DOMAIN s.sessions |-> Outdated(s.sessions[i])]
  <2>1. Shape(r)
    BY <1>0 DEF Base, Shape
  <2> QED
    BY <1>0, <2>1 DEF Base, Shape, Fields
<1>3. SameWires(s, r)
  BY <1>0 DEF Base, Shape, Fields, SameWires
<1>4. /\ r.fifo = s.fifo /\ r.flight = s.flight /\ r.flightCtx = s.flightCtx
      /\ r.typed = s.typed /\ r.applied = s.applied
      /\ r.top = s.top /\ r.tops = s.tops
      /\ r.connected = s.connected /\ r.lossTimer = s.lossTimer
      /\ r.offline = s.offline /\ r.queued = s.queued
      /\ r.posted = s.posted /\ r.proj = s.proj /\ r.retry = s.retry
      /\ r.server = s.server
  BY <1>0 DEF Base, Shape, Fields
<1> HIDE DEF r
<1>5. Base(r)
  BY <1>0, <1>2, <1>3, <1>4 DEF Base, Wired, Boolean, SameWires
<1>6. ASSUME NEW x \in Requests
      PROVE  Outdated(x) \in Requests /\ Outdated(x).key = x.key
  BY DEF Requests, Outdated
<1>7. ASSUME NEW x \in Sessions
      PROVE  Outdated(x) \in Sessions /\ Outdated(x).key = x.key /\ Outdated(x).kind = x.kind
  BY DEF Sessions, Outdated
<1>8. /\ r.sessions \in Seq(Sessions) /\ DOMAIN r.sessions = DOMAIN s.sessions
      /\ \A i \in DOMAIN s.sessions :
           r.sessions[i].key = s.sessions[i].key /\ r.sessions[i].kind = s.sessions[i].kind
  <2>1. PICK n \in Nat : s.sessions \in [1..n -> Sessions]
    BY <1>0, SeqDef DEF KeyTyped
  <2>2. r.sessions \in [1..n -> Sessions]
    BY <1>2, <1>7, <2>1
  <2>3. r.sessions \in Seq(Sessions)
    BY <2>2, SeqDef
  <2> QED
    BY <1>2, <1>7, <2>1, <2>3
<1>9. /\ r.asyncs \subseteq Requests
      /\ \A x \in r.asyncs : \E y \in s.asyncs : x = Outdated(y) /\ x.key = y.key
      /\ \A y \in s.asyncs : \E x \in r.asyncs : x.key = y.key
  BY <1>0, <1>2, <1>6 DEF KeyTyped
<1>10. Typed(r)
  <2>1. KeyTyped(r)
    <3>1. \A x, y \in r.asyncs : x.key = y.key => x = y
      BY <1>0, <1>9 DEF KeyTyped
    <3>2. \A i \in DOMAIN r.sessions : CarriesKey(r.sessions[i]) => r.sessions[i].key \in Keys
      BY <1>0, <1>8 DEF KeyTyped, CarriesKey
    <3> QED
      BY <1>0, <1>4, <1>8, <1>9, <3>1, <3>2 DEF KeyTyped
  <2>2. HostTyped(r)
    BY <1>0, <1>2, <1>4 DEF HostTyped, Base, Wired, Offline
  <2>3. Room(r)
    BY <1>0, <1>4 DEF Room
  <2> QED
    BY <1>5, <2>1, <2>2, <2>3 DEF Typed
<1>11. \A j : Spent(r, j) = Spent(s, j) /\ Settling(r, j) = Settling(s, j)
  BY <1>4 DEF Spent, Settling
<1>12. Ordered(r)
  BY <1>0, <1>4, <1>8, <1>9, <1>11 DEF Ordered, CarriesKey
<1>13. Behind(r)
  BY <1>0, <1>4, <1>11 DEF Behind
<1>14. FlightHeld(s) => FlightHeld(r)
  <2>1. Inbox(r, "async") = Inbox(s, "async")
    BY <1>3, MailFixed DEF SameWires
  <2>2. \A j : InPost(r, j) = InPost(s, j)
    BY <1>9, <2>1 DEF InPost
  <2>3. \A j, i : i \in DOMAIN s.sessions => Bears(r, j, i) = Bears(s, j, i)
    BY <1>8 DEF Bears, CarriesKey
  <2>4. \A j : InSession(r, j) = InSession(s, j) /\ InOneSession(r, j) = InOneSession(s, j)
    BY <1>8, <2>3 DEF InSession, InOneSession
  <2> QED
    BY <1>4, <2>2, <2>4 DEF FlightHeld
<1>15. ResetHeld(s) => ResetHeld(r)
  BY <1>4, <1>8 DEF ResetHeld, Cancels
<1>16. Projected(s) => Projected(r)
  BY <1>3, <1>4 DEF Projected, SameWires
<1>17. Gate(s) => Gate(r)
  BY <1>3, <1>4, MailFixed DEF Gate, SameWires
<1>18. Sound(r)
  BY <1>10, <1>12, <1>13 DEF Sound
<1> QED
  BY <1>1, <1>4, <1>11, <1>14, <1>15, <1>16, <1>17, <1>18

LEMMA SetCompositionMid ==
  ASSUME NEW s, NEW k, Mid(s, k), NEW ctx \in Contexts \cup {NoCtx}
  PROVE  /\ Mid(SetComposition(s, ctx), k)
         /\ \A j : Settling(s, j) => Settling(SetComposition(s, ctx), j)
BY SetCompositionKeeps DEF Mid, HeldBut

(* A key takes effect and is completed. *)
LEMMA KeyApplied ==
  ASSUME NEW s, NEW k \in Keys, Mid(s, k), Settling(s, k)
  PROVE  Full(CompleteKey([s EXCEPT !.applied = Append(@, k)], k))
<1> DEFINE a == [s EXCEPT !.applied = Append(@, k)]
           r == CompleteKey(a, k)
<1>0. Base(s) /\ KeyTyped(s) /\ HostTyped(s) /\ Room(s) /\ Ordered(s) /\ Behind(s)
  BY MidBase DEF Typed
<1>1. /\ Shape(a) /\ SameWires(s, a)
      /\ a.applied = Append(s.applied, k)
  <2>1. Shape(a)
    BY <1>0 DEF Base, Shape
  <2>2. SameWires(s, a)
    BY <1>0 DEF Base, Shape, Fields, SameWires
  <2> QED
    BY <1>0, <2>1, <2>2 DEF Base, Shape, Fields
<1>2. /\ a.fifo = s.fifo /\ a.flight = s.flight /\ a.flightCtx = s.flightCtx
      /\ a.asyncs = s.asyncs /\ a.typed = s.typed /\ a.sessions = s.sessions
      /\ a.comp = s.comp /\ a.origin = s.origin /\ a.top = s.top /\ a.tops = s.tops
      /\ a.connected = s.connected /\ a.lossTimer = s.lossTimer
      /\ a.offline = s.offline /\ a.queued = s.queued
      /\ a.posted = s.posted /\ a.proj = s.proj /\ a.retry = s.retry
      /\ a.server = s.server
  BY <1>0 DEF Base, Shape, Fields
<1> HIDE DEF a
<1>3. Base(a)
  BY <1>0, <1>1, <1>2 DEF Base, Wired, Boolean, SameWires
<1>4. Typed(a)
  <2>1. KeyTyped(a)
    <3>1. a.applied \in Seq(Keys)
      BY <1>0, <1>1 DEF KeyTyped
    <3> QED
      BY <1>0, <1>2, <3>1 DEF KeyTyped
  <2>2. HostTyped(a)
    BY <1>0, <1>2 DEF HostTyped
  <2>3. Room(a)
    BY <1>0, <1>2 DEF Room
  <2> QED
    BY <1>3, <2>1, <2>2, <2>3 DEF Typed
<1>5. \A j : Spent(a, j) = Spent(s, j) /\ Settling(a, j) = Settling(s, j)
  BY <1>2 DEF Spent, Settling
<1>6. Ordered(a)
  BY <1>0, <1>2, <1>5 DEF Ordered
<1>7. HeldBut(a, k) /\ ResetHeld(a) /\ Projected(a) /\ Gate(a)
  <2>1. \A kind : Inbox(a, kind) = Inbox(s, kind)
    BY <1>1, MailFixed DEF SameWires
  <2>2. FlightHeld(s) => FlightHeld(a)
    BY <1>2, <2>1 DEF FlightHeld, InSession, InOneSession, InPost, Bears
  <2>3. ResetHeld(a)
    BY <1>2 DEF Mid, ResetHeld, Cancels
  <2>4. Projected(a)
    BY <1>1, <1>2 DEF Mid, Projected, SameWires
  <2>5. Gate(a)
    BY <1>1, <1>2, <2>1 DEF Mid, Gate, SameWires
  <2> QED
    BY <1>2, <2>2, <2>3, <2>4, <2>5 DEF Mid, HeldBut
<1>8. /\ Tame(a, r)
      /\ \/ a.flight # k /\ r = a
         \/ r.flight = NoKey
  BY <1>3, CompleteKeyTame
<1> HIDE DEF r
<1>9. Typed(r) /\ Ordered(r)
  BY <1>4, <1>6, <1>8, TameLoose, LooseTyped, LooseOrdered DEF Loose
<1>10. Behind(r)
  <2>1. ASSUME NEW i \in DOMAIN a.applied
        PROVE  /\ Spent(a, a.applied[i])
               /\ a.flight # NoKey /\ a.flight # k => a.applied[i] < a.flight
    <3>1. CASE i \in DOMAIN s.applied
      <4>1. a.applied[i] = s.applied[i]
        BY <1>0, <1>1, <3>1 DEF KeyTyped
      <4> QED
        BY <1>0, <1>2, <1>5, <3>1, <4>1 DEF Behind
    <3>2. CASE i \notin DOMAIN s.applied
      <4>1. a.applied[i] = k
        BY <1>0, <1>1, <3>2 DEF KeyTyped
      <4>2. a.flight # NoKey => a.flight \in Keys
        BY <1>0, <1>2 DEF KeyTyped
      <4> QED
        BY <1>2, <1>5, <4>1, <4>2, BoundsAssumption DEF Settling, Keys
    <3> QED
      BY <3>1, <3>2
  <2>2. Sheds(a, r)
    BY <1>8 DEF Tame
  <2>3. \A j : Spent(a, j) => Spent(r, j)
    BY <2>2, LooseSpent
  <2> QED
    BY <1>8, <2>1, <2>2, <2>3 DEF Behind, Sheds
<1>11. FlightHeld(r) /\ ResetHeld(r)
  BY <1>7, <1>8, TameLoose, LooseHeld DEF HeldBut, FlightHeld
<1>12. Projected(r) /\ Gate(r)
  BY <1>7, <1>8, TameGate DEF Tame
<1>13. Full(r)
  BY <1>9, <1>10, <1>11, <1>12 DEF Full, Held, Sound
<1> QED
  BY <1>13 DEF r, a

-----------------------------------------------------------------------------
(* The queue. *)

LEMMA Enqueued ==
  ASSUME NEW s, Full(s), s.top # NoCtx, s.typed < MaxKeys, HasCapacity(s),
         NEW kind \in {"key", "text"}
  PROVE  Full(Enqueue(s, kind))
<1> DEFINE x == [key |-> s.typed + 1, kind |-> kind, ctx |-> s.top]
           n == Len(s.fifo) + 1
           r == Enqueue(s, kind)
<1>0. Base(s) /\ KeyTyped(s) /\ HostTyped(s) /\ Room(s) /\ Ordered(s) /\ Behind(s)
  BY DEF Full, Held, Sound, Typed
<1>1. /\ Shape(r) /\ r.typed = s.typed + 1 /\ r.proj = TRUE
      /\ r.fifo = Append(s.fifo, x)
  <2>1. Shape(r)
    BY <1>0 DEF Base, Shape, Enqueue
  <2> QED
    BY <1>0, <2>1 DEF Base, Shape, Fields, Enqueue
<1>2. SameWires(s, r)
  BY <1>0 DEF Base, Shape, Fields, SameWires, Enqueue
<1>3. /\ r.flight = s.flight /\ r.flightCtx = s.flightCtx
      /\ r.asyncs = s.asyncs /\ r.sessions = s.sessions /\ r.applied = s.applied
      /\ r.comp = s.comp /\ r.origin = s.origin /\ r.top = s.top /\ r.tops = s.tops
      /\ r.connected = s.connected /\ r.lossTimer = s.lossTimer
      /\ r.offline = s.offline /\ r.queued = s.queued
      /\ r.posted = s.posted /\ r.retry = s.retry /\ r.server = s.server
  BY <1>0 DEF Base, Shape, Fields, Enqueue
<1>4. s.typed + 1 \in Keys /\ s.typed \in Nat /\ s.typed + 1 \in 0..MaxKeys
  BY <1>0, BoundsAssumption DEF KeyTyped, Keys
<1>5. x \in Queueds /\ x.key = s.typed + 1
  BY <1>0, <1>4 DEF Queueds, HostTyped
<1> HIDE DEF r, x
<1>6. Base(r)
  BY <1>0, <1>1, <1>2, <1>3 DEF Base, Wired, Boolean, SameWires
<1>7. /\ r.fifo \in Seq(Queueds) /\ DOMAIN r.fifo = DOMAIN s.fifo \cup {n}
      /\ r.fifo[n] = x /\ Len(r.fifo) = n /\ n \notin DOMAIN s.fifo
      /\ \A i \in DOMAIN s.fifo : r.fifo[i] = s.fifo[i] /\ i < n
  BY <1>0, <1>1, <1>5 DEF KeyTyped
<1>8. Typed(r)
  <2>1. KeyTyped(r)
    BY <1>0, <1>1, <1>3, <1>4, <1>7 DEF KeyTyped
  <2>2. HostTyped(r)
    BY <1>0, <1>3 DEF HostTyped
  <2>3. Room(r)
    <3>1. Len(s.fifo) \in Nat
      BY <1>0 DEF KeyTyped
    <3> DEFINE w == IF s.flight = NoKey THEN 0 ELSE 1
    <3>2. Len(s.fifo) + w < MaxQueue /\ w \in Nat
      BY DEF HasCapacity
    <3>3. Len(r.fifo) + w <= MaxQueue
      <4> HIDE DEF w
      <4> QED
        BY <1>7, <3>1, <3>2, BoundsAssumption
    <3> QED
      BY <1>3, <3>3 DEF Room
  <2> QED
    BY <1>6, <2>1, <2>2, <2>3 DEF Typed
<1>9. ASSUME NEW j \in Int PROVE Spent(s, j) => Spent(r, j)
  BY <1>1, <1>4, <1>5, <1>7 DEF Spent
<1>10. ASSUME NEW j \in Int PROVE Settling(s, j) => Settling(r, j)
  BY <1>3, <1>9 DEF Settling
<1>11. Ordered(r)
  <2>0. /\ \A i \in DOMAIN s.fifo : s.fifo[i].key \in Int
        /\ s.flight \in Int
        /\ \A i \in DOMAIN s.sessions : CarriesKey(s.sessions[i]) => s.sessions[i].key \in Int
        /\ \A y \in s.asyncs : y.key \in Int
    <3>1. Keys \subseteq Int /\ NoKey \in Int
      BY BoundsAssumption DEF Keys, NoKey
    <3>2. \A i \in DOMAIN s.fifo : s.fifo[i] \in Queueds
      BY <1>0 DEF KeyTyped
    <3> QED
      BY <1>0, <3>1, <3>2 DEF KeyTyped, Queueds, Requests
  <2>1. \A i, j \in DOMAIN r.fifo : i < j => r.fifo[i].key < r.fifo[j].key
    <3>1. ASSUME NEW i \in DOMAIN r.fifo, NEW j \in DOMAIN r.fifo, i < j
          PROVE  r.fifo[i].key < r.fifo[j].key
      <4>1. i \in DOMAIN s.fifo
        BY <1>0, <1>7, <3>1 DEF KeyTyped
      <4>2. CASE j \in DOMAIN s.fifo
        BY <1>0, <1>7, <3>1, <4>1, <4>2 DEF Ordered
      <4>3. CASE j = n
        <5>1. s.fifo[i].key <= s.typed
          BY <1>0, <4>1 DEF Ordered
        <5> QED
          BY <1>4, <1>5, <1>7, <2>0, <4>1, <4>3, <5>1
      <4> QED
        BY <1>7, <4>2, <4>3
    <3> QED
      BY <3>1
  <2>2. \A i \in DOMAIN r.fifo : r.fifo[i].key <= r.typed
    BY <1>0, <1>1, <1>4, <1>5, <1>7, <2>0 DEF Ordered
  <2>3. Spent(r, r.flight)
    BY <1>0, <1>3, <1>9, <2>0 DEF Ordered
  <2>4. \A i \in DOMAIN r.sessions :
          CarriesKey(r.sessions[i]) => Settling(r, r.sessions[i].key)
    BY <1>0, <1>3, <1>10, <2>0 DEF Ordered
  <2>5. \A y \in r.asyncs : Settling(r, y.key)
    BY <1>0, <1>3, <1>10, <2>0 DEF Ordered
  <2> QED
    BY <2>1, <2>2, <2>3, <2>4, <2>5 DEF Ordered
<1>12. Behind(r)
  <2>1. \A i \in DOMAIN s.applied : s.applied[i] \in Int
    BY <1>0, BoundsAssumption DEF KeyTyped, Keys
  <2> QED
    BY <1>0, <1>3, <1>9, <2>1 DEF Behind
<1>13. \A kind2 : Inbox(r, kind2) = Inbox(s, kind2)
  BY <1>2, MailFixed DEF SameWires
<1>14. FlightHeld(r) /\ ResetHeld(r)
  BY <1>3, <1>13
     DEF Full, Held, FlightHeld, InSession, InOneSession, InPost, Bears, ResetHeld, Cancels
<1>15. Projected(r)
  BY <1>7 DEF Projected
<1>16. Gate(r)
  BY <1>2, <1>3, <1>13 DEF Full, Gate, SameWires
<1>17. Full(r)
  BY <1>8, <1>11, <1>12, <1>14, <1>15, <1>16 DEF Full, Held, Sound
<1> QED
  BY <1>17 DEF r

(* The head of the queue becomes the key in flight; nothing carries it yet. *)
LEMMA HeadTaken ==
  ASSUME NEW s, Full(s), s.flight = NoKey, s.fifo # <<>>
  PROVE  LET r == TakeHead(s)
             k == Head(s.fifo)
         IN  /\ Mid(r, k.key) /\ Free(r, k.key) /\ r.flight = k.key
             /\ k \in Queueds /\ k.key \in Keys /\ Settling(r, k.key)
<1> DEFINE r == TakeHead(s)
           k == Head(s.fifo)
<1>0. Base(s) /\ KeyTyped(s) /\ HostTyped(s) /\ Room(s) /\ Ordered(s) /\ Behind(s)
  BY DEF Full, Held, Sound, Typed
<1>1. /\ Shape(r) /\ r.fifo = Tail(s.fifo) /\ r.flight = k.key /\ r.flightCtx = k.ctx
  <2>1. Shape(r)
    BY <1>0 DEF Base, Shape, TakeHead
  <2> QED
    BY <1>0, <2>1 DEF Base, Shape, Fields, TakeHead
<1>2. SameWires(s, r)
  BY <1>0 DEF Base, Shape, Fields, SameWires, TakeHead
<1>3. /\ r.typed = s.typed /\ r.proj = s.proj
      /\ r.asyncs = s.asyncs /\ r.sessions = s.sessions /\ r.applied = s.applied
      /\ r.comp = s.comp /\ r.origin = s.origin /\ r.top = s.top /\ r.tops = s.tops
      /\ r.connected = s.connected /\ r.lossTimer = s.lossTimer
      /\ r.offline = s.offline /\ r.queued = s.queued
      /\ r.posted = s.posted /\ r.retry = s.retry /\ r.server = s.server
  BY <1>0 DEF Base, Shape, Fields, TakeHead
<1>4. /\ k \in Queueds /\ k = s.fifo[1] /\ 1 \in DOMAIN s.fifo
      /\ Tail(s.fifo) \in Seq(Queueds) /\ Len(Tail(s.fifo)) = Len(s.fifo) - 1
      /\ Len(s.fifo) \in Nat
      /\ \A i \in DOMAIN Tail(s.fifo) :
           /\ i \in Nat /\ 1 < i + 1 /\ i + 1 \in DOMAIN s.fifo
           /\ Tail(s.fifo)[i] = s.fifo[i + 1]
  BY <1>0 DEF KeyTyped
<1>5. k.key \in Keys /\ k.ctx \in Contexts /\ k.key # NoKey /\ k.ctx # NoCtx
  BY <1>4, BoundsAssumption, ContextsAssumption DEF Queueds, Keys, NoKey
<1> HIDE DEF r, k
<1>6. Base(r)
  BY <1>0, <1>1, <1>2, <1>3 DEF Base, Wired, Boolean, SameWires
<1>7. Typed(r)
  <2>1. KeyTyped(r)
    BY <1>0, <1>1, <1>3, <1>4, <1>5 DEF KeyTyped
  <2>2. HostTyped(r)
    BY <1>0, <1>3 DEF HostTyped
  <2>3. Room(r)
    BY <1>0, <1>1, <1>4, <1>5, BoundsAssumption DEF Room
  <2> QED
    BY <1>6, <2>1, <2>2, <2>3 DEF Typed
<1>8. ASSUME NEW j, Spent(s, j) PROVE Spent(r, j) /\ j < k.key
  BY <1>1, <1>3, <1>4, <1>8 DEF Spent
<1>9. Spent(r, k.key) /\ Settling(r, k.key)
  <2>1. \A i \in DOMAIN r.fifo : k.key < r.fifo[i].key
    BY <1>0, <1>1, <1>4 DEF Ordered
  <2>2. k.key <= r.typed
    BY <1>0, <1>3, <1>4 DEF Ordered
  <2> QED
    BY <1>1, <1>5, <2>1, <2>2, BoundsAssumption DEF Spent, Settling, Keys
<1>10. ASSUME NEW j \in Keys, Settling(s, j) PROVE Settling(r, j) /\ j # k.key
  BY <1>1, <1>5, <1>8, <1>10, BoundsAssumption DEF Settling, Keys
<1>11. Ordered(r)
  <2>1. /\ \A i, j \in DOMAIN r.fifo : i < j => r.fifo[i].key < r.fifo[j].key
        /\ \A i \in DOMAIN r.fifo : r.fifo[i].key <= r.typed
    BY <1>0, <1>1, <1>3, <1>4 DEF Ordered
  <2>2. \A i \in DOMAIN r.sessions :
          CarriesKey(r.sessions[i]) => Settling(r, r.sessions[i].key)
    BY <1>0, <1>3, <1>10 DEF Ordered, KeyTyped
  <2>3. \A y \in r.asyncs : Settling(r, y.key)
    BY <1>0, <1>3, <1>10 DEF Ordered, KeyTyped, Requests
  <2> QED
    BY <1>1, <1>9, <2>1, <2>2, <2>3 DEF Ordered
<1>12. Behind(r)
  BY <1>0, <1>1, <1>3, <1>8 DEF Behind
<1>13. Free(r, k.key)
  BY <1>0, <1>1, <1>3, <1>10
     DEF Free, InSession, Bears, Ordered, KeyTyped, Requests
<1>14. \A kind : Inbox(r, kind) = Inbox(s, kind)
  BY <1>2, MailFixed DEF SameWires
<1>15. HeldBut(r, k.key) /\ ResetHeld(r) /\ Projected(r) /\ Gate(r)
  <2>1. ResetHeld(r)
    BY <1>3 DEF Full, Held, ResetHeld, Cancels
  <2>2. Gate(r)
    BY <1>2, <1>3, <1>14 DEF Full, Gate, SameWires
  <2> QED
    BY <1>1, <1>5, <2>1, <2>2 DEF HeldBut, Projected
<1>16. Mid(r, k.key)
  BY <1>7, <1>11, <1>12, <1>15 DEF Mid, Sound
<1> QED
  BY <1>1, <1>4, <1>5, <1>9, <1>13, <1>16 DEF r, k

LEMMA DispatchFull ==
  ASSUME NEW s, NEW k \in Queueds, Mid(s, k.key), Free(s, k.key), s.flight = k.key,
         k.key \in Keys, Settling(s, k.key), NEW e \in Dispatch(s, k)
  PROVE  Full(e)
<1> DEFINE Key(r) == Session("key", k.key, k.ctx, r.expected, "any")
           text == Session("text", k.key, k.ctx, s.expected, "any")
<1>1. ASSUME NEW r, Base(r)
      PROVE  Key(r) \in Sessions /\ Key(r).key = k.key /\ CarriesKey(Key(r))
  <2>1. r.expected \in Nat /\ k.key \in Nat /\ k.ctx \in Contexts
    BY <1>1, BoundsAssumption DEF Base, Wired, Queueds, Keys
  <2> QED
    BY <2>1 DEF Session, Sessions, CarriesKey
<1>2. text \in Sessions /\ text.key = k.key /\ CarriesKey(text)
  <2>1. s.expected \in Nat /\ k.key \in Nat /\ k.ctx \in Contexts
    BY MidBase, BoundsAssumption DEF Base, Wired, Queueds, Keys
  <2> QED
    BY <2>1 DEF Session, Sessions, CarriesKey
<1>3. \/ e = FailKey(s, k.key, "superseded")
      \/ e \in RequestSession(s, text)
      \/ e \in DispatchOffline(s, k)
      \/ e \in DispatchOnline(s, k)
  BY DEF Dispatch
<1> HIDE DEF Key, text
<1>4. CASE e = FailKey(s, k.key, "superseded")
  BY <1>4, FailMid DEF Reasons
<1>5. CASE e \in RequestSession(s, text)
  BY <1>2, <1>5, RequestSessionFull
<1>6. CASE e \in DispatchOffline(s, k)
  <2>1. e = CompleteKey(s, k.key) \/ e \in RequestSession(s, Key(s))
    BY <1>6 DEF DispatchOffline, Key
  <2> QED
    BY <1>1, <2>1, CompleteMid, RequestSessionFull, MidBase
<1>7. CASE e \in DispatchOnline(s, k)
  <2>1. \/ e = CompleteKey(s, k.key)
        \/ \E x \in SendPacket(s) :
             \/ e = FailKey(x.st, k.key, "transport")
             \/ e = PostRequest(x.st, k.key)
             \/ e \in RequestSession(x.st, Key(x.st))
    BY <1>7 DEF DispatchOnline, Key
  <2>2. ASSUME NEW x \in SendPacket(s)
        PROVE  /\ Mid(x.st, k.key) /\ Free(x.st, k.key) /\ Settling(x.st, k.key)
               /\ x.st.flight = k.key /\ Base(x.st)
    <3>1. Wire(s, x.st)
      BY <2>2, SendPacketWires, MidBase DEF Base
    <3>2. Tame(s, x.st)
      BY <3>1, WireTame, MidBase
    <3>3. x.st.flight = k.key
      BY <3>1 DEF Wire, Same, SameKeys
    <3>4. k.key # NoKey
      BY BoundsAssumption DEF Keys, NoKey
    <3> QED
      BY <3>2, <3>3, <3>4, MidTame, TameLoose, LooseHeld, LooseSpent DEF Tame
  <2> QED
    BY <1>1, <2>1, <2>2, CompleteMid, FailMid, RequestPosted, RequestSessionFull DEF Reasons
<1> QED
  BY <1>3, <1>4, <1>5, <1>6, <1>7

LEMMA DrainFull ==
  ASSUME NEW s, Full(s), NEW e \in Drain(s)
  PROVE  Full(e)
<1> DEFINE r == [s EXCEPT !.posted = FALSE]
           m == Message("reconnect")
           Lane(q) == Tame(r, q) /\ q.fifo = r.fifo /\ q.flight = r.flight
<1>0. Base(s)
  BY DEF Full, Held, Sound, Typed
<1>1. Tame(s, r)
  <2>1. Shape(r) /\ Boolean(r)
    BY <1>0 DEF Base, Shape, Fields, Boolean
  <2>2. SameWires(s, r) /\ SameSite(s, r)
    BY <1>0 DEF Base, Shape, Fields, SameWires, SameSite
  <2>3. Sheds(s, r) /\ (s.retry => r.retry) /\ (Projected(s) => Projected(r))
    BY <1>0 DEF Base, Shape, Fields, Sheds, Projected
  <2> HIDE DEF r
  <2> QED
    BY <1>0, <2>1, <2>2, <2>3, LocalTame
<1>2. \/ e = r
      \/ e = Post(r, m)
      \/ /\ ~ (r.flight # NoKey \/ r.fifo = <<>> \/ ~ r.connected)
         /\ \E q : /\ \/ r.offline /\ q \in NoteFailure(r)
                      \/ \E x \in Ensure(r) :
                           \/ q = x.st
                           \/ q \in NoteFailure([x.st EXCEPT !.offline = TRUE])
                   /\ e \in Dispatch(TakeHead(q), Head(q.fifo))
  BY Zenon DEF Drain
<1> HIDE DEF r
<1>3. Full(r) /\ Base(r)
  BY <1>1, TameFull DEF Tame
<1>4. CASE e = r
  BY <1>3, <1>4
<1>5. CASE e = Post(r, m)
  <2>1. m \in Letters /\ m.kind # "async"
    BY MessageIsLetter DEF Kinds
  <2>2. Tame(r, Post(r, m))
    BY <1>3, <2>1, PostWires, WireTame DEF Base
  <2> QED
    BY <1>3, <1>5, <2>2, TameFull
<1>6. ASSUME NEW q, Lane(q), NEW x \in NoteFailure(q) PROVE Lane(x)
  <2>1. x = q \/ x = ArmRetry(q)
    BY <1>6 DEF NoteFailure
  <2>2. Base(q) /\ q.connected \in BOOLEAN
    BY <1>3, <1>6 DEF Tame, Full, Held, Sound, Typed, HostTyped
  <2>3. ArmRetry(q).fifo = q.fifo /\ ArmRetry(q).flight = q.flight
    BY <2>2 DEF Base, Shape, Fields, ArmRetry
  <2> QED
    BY <1>6, <2>1, <2>2, <2>3, ArmRetryTame, TameTwice
<1>7. ASSUME NEW x \in Ensure(r)
      PROVE  Lane(x.st) /\ Lane([x.st EXCEPT !.offline = TRUE])
  <2> DEFINE o == [x.st EXCEPT !.offline = TRUE]
  <2>1. Wire(r, x.st)
    BY <1>3, <1>7, EnsureWires DEF Base
  <2>2. Lane(x.st)
    BY <1>3, <2>1, WireTame DEF Wire, Same, SameKeys
  <2>3. Base(x.st)
    BY <2>2 DEF Tame
  <2>4. Shape(o) /\ Boolean(o)
    BY <2>3 DEF Base, Shape, Fields, Boolean
  <2>5. SameWires(x.st, o) /\ SameSite(x.st, o)
    BY <2>3 DEF Base, Shape, Fields, SameWires, SameSite
  <2>6. /\ Sheds(x.st, o) /\ (x.st.retry => o.retry)
        /\ (Projected(x.st) => Projected(o))
        /\ o.fifo = x.st.fifo /\ o.flight = x.st.flight
    BY <2>3 DEF Base, Shape, Fields, Sheds, Projected
  <2> HIDE DEF o
  <2>7. Lane(o)
    BY <2>2, <2>3, <2>4, <2>5, <2>6, LocalTame, TameTwice
  <2> QED
    BY <2>2, <2>7 DEF o
<1>8. Lane(r)
  BY <1>3, TameStays
<1>9. ASSUME NEW q, Lane(q), r.flight = NoKey, r.fifo # <<>>,
             e \in Dispatch(TakeHead(q), Head(q.fifo))
      PROVE  Full(e)
  <2>1. Full(q)
    BY <1>3, <1>9, TameFull
  <2> QED
    BY <1>9, <2>1, HeadTaken, DispatchFull
<1> HIDE DEF Lane
<1> QED
  BY <1>2, <1>4, <1>5, <1>6, <1>7, <1>8, <1>9

-----------------------------------------------------------------------------
(* The message queue of the thread. *)

Popped(s) == [s EXCEPT !.mail = Tail(@)]

(* Taking the head of the mailbox takes one message of its kind. *)
LEMMA Pops ==
  ASSUME NEW s, Full(s), s.mail # <<>>
  PROVE  LET r == Popped(s)
             m == Head(s.mail)
         IN  /\ m \in Letters /\ m.arg \in Inbox(s, m.kind)
             /\ Sound(r) /\ ResetHeld(r) /\ Projected(r)
             /\ SameKeys(s, r) /\ SameHost(s, r) /\ SameRest(s, r)
             /\ r.pending = s.pending /\ r.resetToken = s.resetToken
             /\ \A kind \in Kinds :
                  /\ Inbox(r, kind) \subseteq Inbox(s, kind)
                  /\ Inbox(s, kind) \subseteq
                       Inbox(r, kind) \cup (IF m.kind = kind THEN {m.arg} ELSE {})
<1> DEFINE r == Popped(s)
           m == Head(s.mail)
<1>0. Base(s) /\ KeyTyped(s) /\ HostTyped(s) /\ Room(s) /\ Ordered(s) /\ Behind(s)
  BY DEF Full, Held, Sound, Typed
<1>1. /\ s.mail \in Seq(Letters) /\ m \in Letters /\ Tail(s.mail) \in Seq(Letters)
      /\ ToSet(s.mail) = {m} \cup ToSet(Tail(s.mail))
  <2>1. s.mail \in Seq(Letters)
    BY <1>0 DEF Base, Wired
  <2>2. /\ m = s.mail[1] /\ 1 \in DOMAIN s.mail
        /\ \A i \in DOMAIN Tail(s.mail) : i + 1 \in DOMAIN s.mail /\ Tail(s.mail)[i] = s.mail[i + 1]
        /\ \A i \in DOMAIN s.mail : i # 1 => i - 1 \in DOMAIN Tail(s.mail) /\ Tail(s.mail)[i - 1] = s.mail[i]
    BY <2>1
  <2> HIDE DEF m
  <2>3. ToSet(s.mail) = {m} \cup ToSet(Tail(s.mail))
    BY <2>2 DEF ToSet
  <2> QED
    BY <2>1, <2>2, <2>3
<1>2. Shape(r) /\ r.mail = Tail(s.mail)
  <2>1. Shape(r)
    BY <1>0 DEF Base, Shape, Popped
  <2> QED
    BY <1>0, <2>1 DEF Base, Shape, Fields, Popped
<1>3. /\ r.expected = s.expected /\ r.acked = s.acked
      /\ r.checked = s.checked /\ r.minted = s.minted /\ r.resync = s.resync
      /\ r.ready = s.ready /\ r.required = s.required /\ r.published = s.published
      /\ r.suspend = s.suspend /\ r.reply = s.reply /\ r.worker = s.worker
      /\ r.main = s.main /\ r.troubles = s.troubles /\ r.pipeGen = s.pipeGen
      /\ r.echoes = s.echoes
      /\ r.pending = s.pending /\ r.resetToken = s.resetToken
  BY <1>0 DEF Base, Shape, Fields, Popped
<1>4. SameKeys(s, r) /\ SameHost(s, r) /\ SameRest(s, r)
  BY <1>0 DEF Base, Shape, Fields, Popped, SameKeys, SameHost, SameRest
<1> HIDE DEF r, m
<1>5. Base(r)
  BY <1>0, <1>1, <1>2, <1>3, <1>4 DEF Base, Wired, Boolean, SameHost, SameRest
<1>6. Typed(r)
  <2>1. KeyTyped(r)
    BY <1>0, <1>4 DEF KeyTyped, SameKeys
  <2>2. HostTyped(r)
    BY <1>0, <1>4 DEF HostTyped, SameHost, SameRest
  <2>3. Room(r)
    BY <1>0, <1>4 DEF Room, SameKeys
  <2> QED
    BY <1>5, <2>1, <2>2, <2>3 DEF Typed
<1>7. Sheds(s, r)
  BY <1>4 DEF SameKeys, Sheds
<1>8. Sound(r)
  BY <1>0, <1>6, <1>7, LooseOrdered, LooseBehind DEF Sound, Typed
<1>9. ResetHeld(r) /\ Projected(r)
  BY <1>3, <1>4 DEF Full, Held, ResetHeld, Cancels, Projected, SameKeys, SameRest
<1>10. \A kind \in Kinds :
         /\ Inbox(r, kind) \subseteq Inbox(s, kind)
         /\ Inbox(s, kind) \subseteq
              Inbox(r, kind) \cup (IF m.kind = kind THEN {m.arg} ELSE {})
  BY <1>1, <1>2 DEF Inbox
<1>11. m.arg \in Inbox(s, m.kind)
  BY <1>1 DEF Inbox
<1> QED
  BY <1>1, <1>3, <1>4, <1>8, <1>9, <1>10, <1>11 DEF r, m

(* Only a request carries a key, and only three kinds attend the gate. *)
LEMMA PopsHeld ==
  ASSUME NEW s, Full(s), s.mail # <<>>, Head(s.mail).kind # "async"
  PROVE  Held(Popped(s))
<1> DEFINE r == Popped(s)
<1>1. /\ Sound(r) /\ ResetHeld(r) /\ Projected(r) /\ SameKeys(s, r)
      /\ Inbox(r, "async") = Inbox(s, "async")
  <2> DEFINE m == Head(s.mail)
  <2>1. /\ Sound(r) /\ ResetHeld(r) /\ Projected(r) /\ SameKeys(s, r)
        /\ \A kind \in Kinds :
             /\ Inbox(r, kind) \subseteq Inbox(s, kind)
             /\ Inbox(s, kind) \subseteq
                  Inbox(r, kind) \cup (IF m.kind = kind THEN {m.arg} ELSE {})
    BY Pops
  <2>2. "async" \in Kinds /\ m.kind # "async"
    BY DEF Kinds
  <2> HIDE DEF m, r
  <2>3. Inbox(s, "async") \subseteq Inbox(r, "async") \cup {}
    BY <2>1, <2>2
  <2> QED
    BY <2>1, <2>2, <2>3
<1> HIDE DEF r
<1>2. FlightHeld(r)
  BY <1>1 DEF Full, Held, FlightHeld, InSession, InOneSession, InPost, Bears, SameKeys
<1>3. Held(r)
  BY <1>1, <1>2 DEF Held
<1> QED
  BY <1>3 DEF r

LEMMA PopsGate ==
  ASSUME NEW s, Full(s), s.mail # <<>>,
         ~ /\ Head(s.mail).kind = "dirty"
           /\ s.pending /\ Head(s.mail).arg = s.resetToken,
         Head(s.mail).kind \notin {"reconnect", "connect"}
  PROVE  Gate(Popped(s))
<1> DEFINE r == Popped(s)
           m == Head(s.mail)
<1>1. /\ SameHost(s, r) /\ SameRest(s, r)
      /\ r.pending = s.pending /\ r.resetToken = s.resetToken
  BY Pops
<1>2. \A kind \in Kinds :
        Inbox(s, kind) \subseteq
          Inbox(r, kind) \cup (IF m.kind = kind THEN {m.arg} ELSE {})
  BY Pops
<1> HIDE DEF r
<1>3. /\ Inbox(s, "reconnect") \subseteq Inbox(r, "reconnect")
      /\ Inbox(s, "connect") \subseteq Inbox(r, "connect")
      /\ s.pending /\ s.resetToken \in Inbox(s, "dirty") => s.resetToken \in Inbox(r, "dirty")
  BY <1>2 DEF Kinds
<1>4. Gate(r)
  BY <1>1, <1>3 DEF Full, Gate, SameHost, SameRest
<1> QED
  BY <1>4 DEF r

LEMMA PopsFull ==
  ASSUME NEW s, Full(s), s.mail # <<>>,
         Head(s.mail).kind \in {"drain", "disconnect", "lost"}
  PROVE  Full(Popped(s))
BY PopsHeld, PopsGate DEF Full

-----------------------------------------------------------------------------
(* The handlers of messages and timers. *)

LEMMA ConnectFull ==
  ASSUME NEW s, Full(s), s.mail # <<>>, Head(s.mail).kind = "connect",
         NEW arg, NEW e \in OnConnect(Popped(s), arg)
  PROVE  Full(e)
<1> DEFINE r == Popped(s)
           m == Message("reconnect")
           p == Post(r, m)
<1>1. Held(r)
  BY PopsHeld
<1>2. e = IF r.connected THEN p ELSE r
  BY DEF OnConnect
<1>3. m \in Letters /\ m.kind = "reconnect" /\ "reconnect" \in Kinds
  BY MessageIsLetter DEF Kinds
<1> HIDE DEF r, m
<1>4. Base(r)
  BY <1>1 DEF Held, Sound, Typed
<1>5. Held(p) /\ m.arg \in Inbox(p, "reconnect")
  <2>1. Tame(r, p)
    BY <1>3, <1>4, PostWires, WireTame DEF Base
  <2>2. Inbox(p, "reconnect") = Inbox(r, "reconnect") \cup {m.arg}
    BY <1>3, <1>4, Posting DEF Base, Wired
  <2> QED
    BY <1>1, <2>1, <2>2, TameHeld
<1> HIDE DEF p
<1> QED
  BY <1>1, <1>2, <1>5 DEF Full, Gate

(* Without focus nothing needs the retry timer. *)
LEMMA RetryStopped ==
  ASSUME NEW s, Held(s), ~ s.connected \/ ~ s.pending
  PROVE  Full([s EXCEPT !.retry = FALSE])
<1> DEFINE r == [s EXCEPT !.retry = FALSE]
<1>0. Base(s) /\ KeyTyped(s) /\ HostTyped(s) /\ Room(s) /\ Ordered(s) /\ Behind(s)
  BY DEF Held, Sound, Typed
<1>1. Shape(r) /\ Boolean(r)
  <2>1. Shape(r)
    BY <1>0 DEF Base, Shape
  <2>2. /\ r.proj = s.proj /\ r.posted = s.posted /\ r.offline = s.offline
        /\ r.retry = FALSE
    BY <1>0 DEF Base, Shape, Fields
  <2> HIDE DEF r
  <2> QED
    BY <1>0, <2>1, <2>2 DEF Base, Boolean
<1>2. SameWires(s, r)
  BY <1>0 DEF Base, Shape, Fields, SameWires
<1>3. SameKeys(s, r) /\ SameHost(s, r)
      /\ r.posted = s.posted /\ r.proj = s.proj /\ r.queued = s.queued /\ r.server = s.server
  BY <1>0 DEF Base, Shape, Fields, SameKeys, SameHost
<1> HIDE DEF r
<1>4. Base(r)
  BY <1>0, <1>1, <1>2 DEF Base, Wired, SameWires
<1>5. Typed(r)
  <2>1. KeyTyped(r)
    BY <1>0, <1>3 DEF KeyTyped, SameKeys
  <2>2. HostTyped(r)
    BY <1>0, <1>3 DEF HostTyped, SameHost
  <2>3. Room(r)
    BY <1>0, <1>3 DEF Room, SameKeys
  <2> QED
    BY <1>4, <2>1, <2>2, <2>3 DEF Typed
<1>6. Sound(r)
  <2>1. Sheds(s, r)
    BY <1>3 DEF SameKeys, Sheds
  <2> QED
    BY <1>0, <1>5, <2>1, LooseOrdered, LooseBehind DEF Sound, Typed
<1>7. FlightHeld(r) /\ ResetHeld(r) /\ Projected(r)
  <2>1. Inbox(r, "async") = Inbox(s, "async")
    BY <1>2, MailFixed DEF SameWires
  <2> QED
    BY <1>2, <1>3, <2>1 DEF Held, FlightHeld, InSession, InOneSession, InPost, Bears,
       ResetHeld, Cancels, Projected, SameKeys, SameWires
<1>8. Gate(r)
  BY <1>2, <1>3 DEF Gate, SameHost, SameWires
<1>9. Full(r)
  BY <1>6, <1>7, <1>8 DEF Full, Held
<1> QED
  BY <1>9 DEF r

LEMMA DisconnectFull ==
  ASSUME NEW s, Full(s), NEW arg, NEW e \in OnDisconnect(s, arg)
  PROVE  Full(e)
<1> DEFINE r == [s EXCEPT !.retry = FALSE]
<1>1. e = IF s.connected THEN s ELSE FlushSuspension(r).st
  BY DEF OnDisconnect
<1>2. CASE s.connected
  BY <1>1, <1>2
<1>3. CASE ~ s.connected
  <2>1. Full(r)
    BY <1>3, RetryStopped DEF Full
  <2> HIDE DEF r
  <2>2. Base(r)
    BY <2>1 DEF Full, Held, Sound, Typed
  <2>3. Tame(r, FlushSuspension(r).st)
    BY <2>2, FlushSuspensionWires, WireTame DEF Base
  <2> QED
    BY <1>1, <1>3, <2>1, <2>3, TameFull
<1> QED
  BY <1>2, <1>3

LEMMA LostFull ==
  ASSUME NEW s, Full(s), NEW gen, NEW e \in OnLost(s, gen)
  PROVE  Full(e)
<1> DEFINE a == [s EXCEPT !.ready = FALSE]
           r == ResetAfterFailure(a, "transport")
           b == [r EXCEPT !.reply = "none"]
           c == [b EXCEPT !.worker = "none"]
           d == [c EXCEPT !.main = "none"]
           q == [r EXCEPT !.reply = "none", !.worker = "none", !.main = "none"]
<1>0. Base(s)
  BY DEF Full, Held, Sound, Typed
<1>1. e = s \/ e = ArmRetry(q)
  BY DEF OnLost
<1>2. Tame(s, a)
  <2>1. Shape(a)
    BY <1>0 DEF Base, Shape
  <2>2. Wired(a) /\ a.mail = s.mail /\ a.pending = s.pending /\ a.resetToken = s.resetToken
    BY <1>0 DEF Base, Shape, Fields, Wired
  <2>3. Same(s, a)
    BY <1>0 DEF Base, Shape, Fields, Same, SameKeys, SameHost, SameRest
  <2> HIDE DEF a
  <2> QED
    BY <1>0, <2>1, <2>2, <2>3, QuietWire, WireTame
<1> HIDE DEF a
<1>3. Tame(a, r)
  BY <1>2, ResetAfterFailureTame DEF Tame, ResetKinds
<1> HIDE DEF r
<1>4. Base(r) /\ "none" \in PipeState
  BY <1>3 DEF Tame, PipeState
<1>5. q = d
  BY <1>4 DEF Base, Shape, Fields
<1>6. Tame(r, b) /\ Base(b)
  <2>1. Wire(r, b)
    BY <1>4, Plugs DEF Base
  <2> HIDE DEF b
  <2> QED
    BY <1>4, <2>1, WireTame DEF Tame
<1> HIDE DEF b
<1>7. Tame(b, c) /\ Base(c)
  BY <1>4, <1>6, Plugs, WireTame DEF Base, Tame
<1> HIDE DEF c
<1>8. Tame(c, d) /\ Base(d)
  BY <1>4, <1>7, Plugs, WireTame DEF Base, Tame
<1> HIDE DEF d, q
<1>9. Full(d)
  BY <1>2, <1>3, <1>6, <1>7, <1>8, TameFull
<1>10. Full(ArmRetry(d))
  BY <1>8, <1>9, ArmRetryTame, TameFull DEF Full, Held, Sound, Typed, HostTyped
<1> QED
  BY <1>1, <1>5, <1>10

LEMMA DirtyFull ==
  ASSUME NEW s, Full(s), s.mail # <<>>, Head(s.mail).kind = "dirty",
         NEW e \in OnDirty(Popped(s), Head(s.mail).arg)
  PROVE  Full(e)
<1> DEFINE r == Popped(s)
           m == Head(s.mail)
<1>1. Held(r)
  BY PopsHeld
<1>2. /\ r.pending = s.pending /\ r.resetToken = s.resetToken /\ m.arg \in Nat
      /\ s.pending => s.resetToken # 0
  <2>1. m \in Letters /\ r.pending = s.pending /\ r.resetToken = s.resetToken
    BY Pops
  <2> HIDE DEF m, r
  <2> QED
    BY <2>1 DEF Letters, Full, Held, Sound, Typed, Base, Wired
<1>3. Gate(r) \/ (s.pending /\ m.arg = s.resetToken)
  BY PopsGate
<1>4. e \in RequestReset(r, NoCtx, m.arg)
  BY DEF OnDirty
<1> HIDE DEF r, m
<1> QED
  BY <1>1, <1>2, <1>3, <1>4, RequestResetFull

LEMMA ReconnectFull ==
  ASSUME NEW s, Full(s), s.mail # <<>>, Head(s.mail).kind = "reconnect",
         NEW arg, NEW e \in OnReconnect(Popped(s), arg)
  PROVE  Full(e)
<1> DEFINE r == Popped(s)
           Off(x) == [x EXCEPT !.retry = FALSE]
<1>1. Held(r) /\ Base(r)
  BY PopsHeld DEF Held, Sound, Typed
<1>2. \/ ~ r.connected /\ e = r
      \/ \E x \in Ensure(r) :
           e = IF x.ok THEN Schedule(TryLeave(Off(x.st))) ELSE ArmRetry(x.st)
  BY DEF OnReconnect
<1> HIDE DEF r
<1>3. CASE ~ r.connected /\ e = r
  BY <1>1, <1>3 DEF Full, Gate
<1>4. ASSUME NEW x \in Ensure(r),
             e = IF x.ok THEN Schedule(TryLeave(Off(x.st))) ELSE ArmRetry(x.st)
      PROVE  Full(e)
  <2>1. Tame(r, x.st) /\ (x.ok => ~ x.st.pending)
    BY <1>1, <1>4, EnsureWires, WireTame DEF Base
  <2>2. Held(x.st) /\ Base(x.st) /\ x.st.connected \in BOOLEAN
    BY <1>1, <2>1, TameHeld DEF Held, Sound, Typed, HostTyped
  <2>3. CASE x.ok
    <3>1. Full(Off(x.st))
      BY <2>1, <2>2, <2>3, RetryStopped
    <3> HIDE DEF Off
    <3>2. Base(Off(x.st))
      BY <3>1 DEF Full, Held, Sound, Typed
    <3>3. Tame(Off(x.st), TryLeave(Off(x.st)))
      BY <3>2, TryLeaveTame
    <3>4. Tame(TryLeave(Off(x.st)), Schedule(TryLeave(Off(x.st))))
      BY <3>3, ScheduleTame DEF Tame
    <3> QED
      BY <1>4, <2>3, <3>1, <3>3, <3>4, TameFull
  <2>4. CASE ~ x.ok
    <3>1. Tame(x.st, ArmRetry(x.st)) /\ (x.st.connected => ArmRetry(x.st).retry)
      BY <2>2, ArmRetryTame
    <3>2. Held(ArmRetry(x.st)) /\ ArmRetry(x.st).connected = x.st.connected
      BY <2>2, <3>1, TameHeld DEF Tame
    <3> QED
      BY <1>4, <2>4, <3>1, <3>2 DEF Full, Gate
  <2> QED
    BY <2>3, <2>4
<1> QED
  BY <1>2, <1>3, <1>4

(* The retry timer settles a pending reset first. *)
LEMMA RetryFull ==
  ASSUME NEW s, Full(s), NEW e \in OnRetry(s)
  PROVE  Full(e)
<1> DEFINE Off(x) == [x EXCEPT !.retry = FALSE]
           Activated(r) == \E x \in Ensure(r) : e = IF x.ok THEN Schedule(Off(x.st)) ELSE x.st
<1>1. \/ ~ s.connected /\ e = Off(s)
      \/ s.connected /\ ~ s.pending /\ Activated(s)
      \/ s.pending /\ \E r \in RequestReset(s, NoCtx, s.resetToken) : e = r \/ Activated(r)
  BY DEF OnRetry
<1>2. ASSUME NEW r, Full(r), Activated(r) PROVE Full(e)
  <2>0. Base(r)
    BY <1>2 DEF Full, Held, Sound, Typed
  <2>1. PICK x \in Ensure(r) : e = IF x.ok THEN Schedule(Off(x.st)) ELSE x.st
    BY <1>2
  <2>2. Tame(r, x.st) /\ (x.ok => ~ x.st.pending)
    BY <2>0, EnsureWires, WireTame DEF Base
  <2>3. Full(x.st)
    BY <1>2, <2>2, TameFull
  <2>4. CASE x.ok
    <3>1. Full(Off(x.st))
      BY <2>2, <2>3, <2>4, RetryStopped DEF Full
    <3> HIDE DEF Off
    <3>2. Tame(Off(x.st), Schedule(Off(x.st)))
      BY <3>1, ScheduleTame DEF Full, Held, Sound, Typed
    <3> QED
      BY <2>1, <2>4, <3>1, <3>2, TameFull
  <2> QED
    BY <2>1, <2>3, <2>4
<1>3. CASE ~ s.connected /\ e = Off(s)
  BY <1>3, RetryStopped DEF Full
<1> HIDE DEF Activated, Off
<1>4. ASSUME NEW r \in RequestReset(s, NoCtx, s.resetToken), e = r \/ Activated(r)
      PROVE  Full(e)
  <2>1. s.resetToken \in Nat /\ Held(s) /\ Gate(s)
    BY DEF Full, Held, Sound, Typed, Base, Wired
  <2>2. Full(r)
    BY <1>4, <2>1, RequestResetFull
  <2> QED
    BY <1>2, <1>4, <2>2
<1> QED
  BY <1>1, <1>2, <1>3, <1>4

(* A request handled is no longer in the table: its key goes on or fails.   *)
LEMMA AsyncFull ==
  ASSUME NEW s, Full(s), s.mail # <<>>, Head(s.mail).kind = "async",
         NEW e \in OnAsync(Popped(s), Head(s.mail).arg)
  PROVE  Full(e)
<1> DEFINE r == Popped(s)
           m == Head(s.mail)
           key == m.arg
           Without(x) == [r EXCEPT !.asyncs = @ \ {x}]
           Next1(x) == Session("key", key, Without(x).top, x.focus, x.epoch)
<1>0. KeyTyped(s) /\ Ordered(s) /\ FlightHeld(s)
  BY DEF Full, Held, Sound, Typed
<1>1. /\ Sound(r) /\ ResetHeld(r) /\ Projected(r) /\ Gate(r)
      /\ SameKeys(s, r) /\ key \in Inbox(s, "async")
      /\ Inbox(r, "async") \subseteq Inbox(s, "async")
      /\ Inbox(s, "async") \subseteq Inbox(r, "async") \cup {key}
  <2>1. "async" \in Kinds
    BY DEF Kinds
  <2>2. Gate(r)
    BY PopsGate
  <2>3. /\ Sound(r) /\ ResetHeld(r) /\ Projected(r) /\ SameKeys(s, r)
        /\ m.arg \in Inbox(s, m.kind)
        /\ \A kind \in Kinds :
             /\ Inbox(r, kind) \subseteq Inbox(s, kind)
             /\ Inbox(s, kind) \subseteq
                  Inbox(r, kind) \cup (IF m.kind = kind THEN {m.arg} ELSE {})
    BY Pops
  <2>4. m.kind = "async"
    OBVIOUS
  <2> HIDE DEF m, r
  <2> QED
    BY <2>1, <2>2, <2>3, <2>4
<1>2. \/ (~ \E x \in r.asyncs : x.key = key) /\ e = r
      \/ \E x \in r.asyncs :
           /\ x.key = key
           /\ \/ e = FailKey(Without(x), key, "superseded")
              \/ e = FailKey(Without(x), key, "host")
              \/ Without(x).top # NoCtx /\ e \in RequestSession(Without(x), Next1(x))
  BY Zenon DEF OnAsync
<1> HIDE DEF r, m, key, Next1
<1>3. CASE (~ \E x \in r.asyncs : x.key = key) /\ e = r
  <2>1. \A j : InPost(r, j) = InPost(s, j)
    BY <1>1, <1>3 DEF InPost, SameKeys
  <2>2. FlightHeld(r)
    BY <1>0, <1>1, <2>1 DEF FlightHeld, InSession, InOneSession, Bears, SameKeys
  <2> QED
    BY <1>1, <1>3, <2>2 DEF Full, Held
<1>4. ASSUME NEW x \in r.asyncs, x.key = key
      PROVE  /\ Mid(Without(x), key) /\ Free(Without(x), key) /\ Settling(Without(x), key)
             /\ key \in Keys /\ x \in Requests /\ HostTyped(Without(x))
  <2> DEFINE a == Without(x)
  <2>0. Base(r) /\ KeyTyped(r) /\ HostTyped(r) /\ Room(r) /\ Ordered(r) /\ Behind(r)
    BY <1>1 DEF Sound, Typed
  <2>1. Shape(a) /\ a.asyncs = r.asyncs \ {x}
    <3>1. Shape(a)
      BY <2>0 DEF Base, Shape
    <3> QED
      BY <2>0, <3>1 DEF Base, Shape, Fields
  <2>2. SameWires(r, a)
    BY <2>0 DEF Base, Shape, Fields, SameWires
  <2>3. /\ a.fifo = r.fifo /\ a.flight = r.flight /\ a.flightCtx = r.flightCtx
        /\ a.sessions = r.sessions /\ a.typed = r.typed /\ a.applied = r.applied
        /\ SameHost(r, a) /\ SameRest(r, a)
    BY <2>0 DEF Base, Shape, Fields, SameHost, SameRest
  <2> HIDE DEF Without
  <2>4. Base(a)
    BY <2>0, <2>1, <2>2, <2>3 DEF Base, Wired, Boolean, SameWires, SameHost, SameRest
  <2>5. Typed(a)
    <3>1. KeyTyped(a)
      BY <2>0, <2>1, <2>3 DEF KeyTyped
    <3>2. HostTyped(a)
      BY <2>0, <2>3 DEF HostTyped, SameHost, SameRest
    <3>3. Room(a)
      BY <2>0, <2>3 DEF Room
    <3> QED
      BY <2>4, <3>1, <3>2, <3>3 DEF Typed
  <2>6. \A j : Spent(a, j) = Spent(r, j) /\ Settling(a, j) = Settling(r, j)
    BY <2>3 DEF Spent, Settling
  <2>7. Ordered(a) /\ Behind(a)
    BY <2>0, <2>1, <2>3, <2>6 DEF Ordered, Behind
  <2>8. Settling(a, key) /\ key \in Keys /\ x \in Requests
    BY <1>4, <2>0, <2>6 DEF Ordered, KeyTyped, Requests
  <2>9. Inbox(a, "async") = Inbox(r, "async")
    BY <2>2, MailFixed DEF SameWires
  <2>10. \A j : /\ InSession(a, j) = InSession(s, j)
                /\ InOneSession(a, j) = InOneSession(s, j)
                /\ j # key => InPost(a, j) = InPost(s, j)
    BY <1>1, <1>4, <2>1, <2>3, <2>9 DEF InSession, InOneSession, InPost, Bears, SameKeys
  <2>11. HeldBut(a, key)
    BY <1>0, <1>1, <2>3, <2>10 DEF HeldBut, FlightHeld, SameKeys
  <2>12. Free(a, key)
    <3>1. \A y \in a.asyncs : y.key # key
      BY <1>4, <2>0, <2>1 DEF KeyTyped
    <3>2. InPost(s, key)
      BY <1>1, <1>4 DEF InPost, SameKeys
    <3>3. key # NoKey
      BY <2>8, BoundsAssumption DEF Keys, NoKey
    <3>4. a.flight = key => ~ InSession(a, key)
      BY <1>0, <1>1, <2>3, <2>10, <3>2, <3>3 DEF FlightHeld, SameKeys
    <3> QED
      BY <3>1, <3>4 DEF Free
  <2>13. ResetHeld(a) /\ Projected(a) /\ Gate(a)
    <3>1. \A kind : Inbox(a, kind) = Inbox(r, kind)
      BY <2>2, MailFixed DEF SameWires
    <3> QED
      BY <1>1, <2>2, <2>3, <3>1
         DEF ResetHeld, Cancels, Projected, Gate, SameWires, SameHost, SameRest
  <2> QED
    BY <2>5, <2>7, <2>8, <2>11, <2>12, <2>13 DEF Mid, Sound, Typed
<1> HIDE DEF Without
<1>5. ASSUME NEW x \in r.asyncs, x.key = key, Without(x).top # NoCtx
      PROVE  Next1(x) \in Sessions /\ Next1(x).key = key /\ CarriesKey(Next1(x))
  <2>1. key \in Nat /\ Without(x).top \in Contexts /\ x \in Requests
    BY <1>4, <1>5, BoundsAssumption DEF HostTyped, Keys
  <2> QED
    BY <2>1 DEF Next1, Session, Sessions, Requests, CarriesKey
<1> QED
  BY <1>2, <1>3, <1>4, <1>5, FailMid, RequestSessionFull DEF Reasons

-----------------------------------------------------------------------------
(* The edit sessions. *)

(* Where the entries of a sequence go when one is taken out. *)
Shifted(i, j) == IF j < i THEN j ELSE j + 1

LEMMA Removed ==
  ASSUME NEW S, NEW q \in Seq(S), NEW i \in DOMAIN q
  PROVE  LET t == RemoveAt(q, i)
         IN  /\ t \in Seq(S)
             /\ \A j \in DOMAIN t :
                  /\ Shifted(i, j) \in DOMAIN q /\ Shifted(i, j) # i
                  /\ t[j] = q[Shifted(i, j)]
             /\ \A k \in DOMAIN q : k # i => \E j \in DOMAIN t : k = Shifted(i, j)
             /\ \A j, k \in DOMAIN t : Shifted(i, j) = Shifted(i, k) => j = k
<1> DEFINE a == SubSeq(q, 1, i - 1)
           b == SubSeq(q, i + 1, Len(q))
           t == RemoveAt(q, i)
<1>1. i \in Int /\ Len(q) \in Nat /\ 1 <= i /\ i <= Len(q) /\ DOMAIN q = 1..Len(q)
  OBVIOUS
<1>2. a \in Seq(S) /\ Len(a) = i - 1 /\ \A j \in 1..(i - 1) : a[j] = q[j]
  BY <1>1
<1>3. b \in Seq(S) /\ Len(b) = Len(q) - i /\ \A j \in 1..(Len(q) - i) : b[j] = q[i + j]
  BY <1>1
<1>4. t = a \o b
  BY DEF RemoveAt
<1> HIDE DEF a, b, t
<1>5. /\ t \in Seq(S) /\ Len(t) = Len(q) - 1 /\ DOMAIN t = 1..(Len(q) - 1)
      /\ \A j \in DOMAIN t : t[j] = IF j <= i - 1 THEN a[j] ELSE b[j - (i - 1)]
  <2>0. a \in Seq(S) /\ b \in Seq(S)
    BY <1>2, <1>3
  <2>1. t \in Seq(S) /\ Len(t) = Len(a) + Len(b)
    BY <1>4, <2>0, ConcatProperties
  <2>2. Len(t) = Len(q) - 1
    BY <1>1, <1>2, <1>3, <2>1
  <2>3. DOMAIN t = 1..Len(t)
    BY <2>1
  <2>4. \A j \in 1..(Len(a) + Len(b)) :
          t[j] = IF j <= Len(a) THEN a[j] ELSE b[j - Len(a)]
    BY <1>4, <2>0, ConcatProperties
  <2> QED
    BY <1>2, <2>1, <2>2, <2>3, <2>4
<1>6. ASSUME NEW j \in DOMAIN t
      PROVE  /\ Shifted(i, j) \in DOMAIN q /\ Shifted(i, j) # i
             /\ t[j] = q[Shifted(i, j)]
  <2>1. CASE j < i
    BY <1>1, <1>2, <1>5, <2>1 DEF Shifted
  <2>2. CASE ~ (j < i)
    <3>1. /\ j \in Int /\ j - (i - 1) \in 1..(Len(q) - i) /\ i + (j - (i - 1)) = j + 1
          /\ j + 1 \in DOMAIN q /\ j + 1 # i
      BY <1>1, <1>5, <2>2
    <3>2. t[j] = b[j - (i - 1)]
      BY <1>1, <1>5, <2>2, <3>1
    <3> QED
      BY <1>3, <2>2, <3>1, <3>2 DEF Shifted
  <2> QED
    BY <2>1, <2>2
<1>7. ASSUME NEW k \in DOMAIN q, k # i
      PROVE  \E j \in DOMAIN t : k = Shifted(i, j)
  <2>1. CASE k < i
    <3>1. k \in DOMAIN t /\ k = Shifted(i, k)
      BY <1>1, <1>5, <2>1 DEF Shifted
    <3> QED
      BY <3>1
  <2>2. CASE ~ (k < i)
    <3>1. k - 1 \in DOMAIN t /\ k = Shifted(i, k - 1)
      BY <1>1, <1>5, <1>7, <2>2 DEF Shifted
    <3> QED
      BY <3>1
  <2> QED
    BY <2>1, <2>2
<1>8. \A j, k \in DOMAIN t : Shifted(i, j) = Shifted(i, k) => j = k
  BY <1>1, <1>5 DEF Shifted
<1> QED
  BY <1>5, <1>6, <1>7, <1>8 DEF t

Granted(s, i) == [s EXCEPT !.sessions = RemoveAt(@, i)]

(* A granted session is gone; the others carry what they carried. *)
LEMMA GrantedKeeps ==
  ASSUME NEW s, Full(s), NEW i \in DOMAIN s.sessions
  PROVE  LET r == Granted(s, i)
             x == s.sessions[i]
         IN  /\ x \in Sessions
             /\ Sound(r) /\ Projected(r) /\ Gate(r)
             /\ CarriesKey(x) => Mid(r, x.key) /\ x.key \in Keys /\ Settling(r, x.key)
             /\ ~ CarriesKey(x) => FlightHeld(r)
             /\ r.queued # x.key => ResetHeld(r)
<1> DEFINE r == Granted(s, i)
           x == s.sessions[i]
<1>0. Base(s) /\ KeyTyped(s) /\ HostTyped(s) /\ Room(s) /\ Ordered(s) /\ Behind(s)
  BY DEF Full, Held, Sound, Typed
<1>1. /\ Shape(r) /\ r.sessions = RemoveAt(s.sessions, i)
  <2>1. Shape(r)
    BY <1>0 DEF Base, Shape, Granted
  <2> QED
    BY <1>0, <2>1 DEF Base, Shape, Fields, Granted
<1>2. SameWires(s, r)
  BY <1>0 DEF Base, Shape, Fields, SameWires, Granted
<1>3. /\ r.fifo = s.fifo /\ r.flight = s.flight /\ r.flightCtx = s.flightCtx
      /\ r.asyncs = s.asyncs /\ r.typed = s.typed /\ r.applied = s.applied
      /\ SameHost(s, r) /\ SameRest(s, r)
  BY <1>0 DEF Base, Shape, Fields, SameHost, SameRest, Granted
<1>4. x \in Sessions /\ s.sessions \in Seq(Sessions)
  BY <1>0 DEF KeyTyped
<1> HIDE DEF r
<1>5. /\ r.sessions \in Seq(Sessions)
      /\ \A j \in DOMAIN r.sessions :
           /\ Shifted(i, j) \in DOMAIN s.sessions /\ Shifted(i, j) # i
           /\ r.sessions[j] = s.sessions[Shifted(i, j)]
      /\ \A k \in DOMAIN s.sessions : k # i => \E j \in DOMAIN r.sessions : k = Shifted(i, j)
      /\ \A j, k \in DOMAIN r.sessions : Shifted(i, j) = Shifted(i, k) => j = k
  BY <1>1, <1>4, Removed
<1>6. Base(r)
  BY <1>0, <1>1, <1>2, <1>3 DEF Base, Wired, Boolean, SameWires, SameHost, SameRest
<1>7. Typed(r)
  <2>1. KeyTyped(r)
    BY <1>0, <1>3, <1>5 DEF KeyTyped
  <2>2. HostTyped(r)
    BY <1>0, <1>3 DEF HostTyped, SameHost, SameRest
  <2>3. Room(r)
    BY <1>0, <1>3 DEF Room
  <2> QED
    BY <1>6, <2>1, <2>2, <2>3 DEF Typed
<1>8. \A j : Spent(r, j) = Spent(s, j) /\ Settling(r, j) = Settling(s, j)
  BY <1>3 DEF Spent, Settling
<1>9. Ordered(r) /\ Behind(r)
  BY <1>0, <1>3, <1>5, <1>8 DEF Ordered, Behind
<1>10. \A kind : Inbox(r, kind) = Inbox(s, kind)
  BY <1>2, MailFixed DEF SameWires
<1>11. ASSUME NEW k, k # x.key \/ ~ CarriesKey(x)
       PROVE  /\ InSession(r, k) <=> InSession(s, k)
              /\ InOneSession(r, k) <=> InOneSession(s, k)
  <2>1. ~ Bears(s, k, i)
    BY <1>11 DEF Bears
  <2>2. \A j \in DOMAIN r.sessions : Bears(r, k, j) = Bears(s, k, Shifted(i, j))
    BY <1>5 DEF Bears
  <2>3. InSession(r, k) <=> InSession(s, k)
    BY <1>5, <2>1, <2>2 DEF InSession
  <2>4. InOneSession(r, k) => InOneSession(s, k)
    BY <1>5, <2>1, <2>2 DEF InOneSession
  <2>5. InOneSession(s, k) => InOneSession(r, k)
    BY <1>5, <2>2 DEF InOneSession
  <2> QED
    BY <2>3, <2>4, <2>5
<1>12. (s.flight # x.key \/ ~ CarriesKey(x)) => FlightHeld(r)
  BY <1>3, <1>10, <1>11 DEF Full, Held, FlightHeld, InPost
<1>13. r.queued # x.key \/ x.kind # "reset" => ResetHeld(r)
  <2>1. ASSUME r.queued # x.key \/ x.kind # "reset", r.queued # 0
        PROVE  Cancels(r, r.queued)
    <3>1. PICK k \in DOMAIN s.sessions :
            s.sessions[k].key = r.queued /\ s.sessions[k].kind = "reset"
      BY <1>3, <2>1 DEF Full, Held, ResetHeld, Cancels, SameRest
    <3>2. k # i
      BY <2>1, <3>1
    <3> QED
      BY <1>5, <3>1, <3>2 DEF Cancels
  <2> QED
    BY <2>1 DEF ResetHeld
<1>14. Projected(r) /\ Gate(r)
  BY <1>2, <1>3, <1>10 DEF Full, Held, Projected, Gate, SameWires, SameHost, SameRest
<1>15. CarriesKey(x) => x.kind # "reset" /\ x.key \in Keys /\ Settling(r, x.key)
  BY <1>0, <1>8 DEF CarriesKey, Ordered, KeyTyped
<1> HIDE DEF x
<1>16. CarriesKey(x) => Mid(r, x.key)
  BY <1>3, <1>7, <1>9, <1>12, <1>13, <1>14, <1>15 DEF Mid, Sound, HeldBut
<1> QED
  BY <1>4, <1>7, <1>9, <1>12, <1>13, <1>14, <1>15, <1>16 DEF Sound, r, x

LEMMA KeyGranted ==
  ASSUME NEW s, NEW x \in Sessions, x.key \in Keys,
         Mid(s, x.key), Settling(s, x.key), NEW e \in RunKey(s, x)
  PROVE  Full(e)
<1>1. ASSUME NEW reason \in Reasons
      PROVE  Full(FailKey(s, x.key, reason))
  BY <1>1, FailMid
<1>2. ASSUME NEW y \in Applied(s, x)
      PROVE  Full(y)
  <2>1. PICK c \in {NoCtx, IF Composing(s) THEN s.comp ELSE x.ctx} :
          y = CompleteKey([SetComposition(s, c) EXCEPT !.applied = Append(@, x.key)], x.key)
    BY <1>2 DEF Applied
  <2>2. c \in Contexts \cup {NoCtx}
    BY <2>1, MidBase DEF HostTyped, Sessions
  <2> QED
    BY <2>1, <2>2, SetCompositionMid, KeyApplied
<1>3. Full(FailKey(RequestReconnect(s), x.key, "transport"))
  <2>1. Base(s)
    BY MidBase
  <2>2. Tame(s, RequestReconnect(s))
    BY <2>1, RequestReconnectWires, WireTame DEF Base
  <2> QED
    BY <2>2, MidTame, FailMid DEF Reasons
<1> QED
  BY <1>1, <1>2, <1>3 DEF RunKey, Reasons

LEMMA TextGranted ==
  ASSUME NEW s, NEW x \in Sessions, x.key \in Keys,
         Mid(s, x.key), Settling(s, x.key), NEW e \in RunText(s, x)
  PROVE  Full(e)
BY FailMid, KeyApplied DEF RunText, Reasons

(* The cancel of a reset is no longer with the host, so until its          *)
(* completion nothing may be said of the gate.                             *)
LEMMA ResetGranted ==
  ASSUME NEW s, NEW x \in Sessions, Sound(s), FlightHeld(s), Projected(s), Gate(s),
         s.queued # x.key => ResetHeld(s), NEW e \in RunReset(s, x)
  PROVE  Full(e)
<1>1. x.key \in Nat
  BY DEF Sessions
<1>2. ASSUME NEW y \in CompleteReset(s, x.key)
      PROVE  Full(y)
  BY <1>1, <1>2, CompleteResetFull
<1>3. ASSUME s.queued = x.key, NEW y \in CompleteReset(SetComposition(s, NoCtx), x.key)
      PROVE  Full(y)
  <2> DEFINE r == SetComposition(s, NoCtx)
  <2>1. Sound(r) /\ FlightHeld(r) /\ Projected(r) /\ r.queued = s.queued
    BY SetCompositionKeeps
  <2> HIDE DEF r
  <2>2. y \in CompleteReset(r, x.key)
    BY <1>3 DEF r
  <2> QED
    BY <1>1, <1>3, <2>1, <2>2, CompleteResetFull
<1>4. ASSUME s.queued = x.key, s.troubles < MaxTroubles,
             NEW y \in CompleteReset([s EXCEPT !.troubles = @ + 1], x.key)
      PROVE  Full(y)
  <2> DEFINE r == [s EXCEPT !.troubles = @ + 1]
  <2>1. Tame(s, r)
    BY <1>4, TroubleTame DEF Sound, Typed
  <2> HIDE DEF r
  <2>2. Sound(r) /\ FlightHeld(r) /\ Projected(r) /\ r.queued = s.queued
    BY <2>1, TameLoose, LooseSound, LooseHeld DEF Tame
  <2>3. y \in CompleteReset(r, x.key)
    BY <1>4 DEF r
  <2> QED
    BY <1>1, <1>4, <2>2, <2>3, CompleteResetFull
<1> QED
  BY <1>2, <1>3, <1>4 DEF RunReset

LEMMA GrantFull ==
  ASSUME Full(ime), Grant
  PROVE  Full(ime')
<1>1. PICK i \in DOMAIN ime.sessions :
        LET x == ime.sessions[i]
            s == Granted(ime, i)
        IN  ime' \in CASE x.kind = "key"   -> RunKey(s, x)
                       [] x.kind = "text"  -> RunText(s, x)
                       [] x.kind = "reset" -> RunReset(s, x)
  BY DEF Grant, Become, Granted
<1> DEFINE x == ime.sessions[i]
           s == Granted(ime, i)
<1>2. /\ x \in Sessions
      /\ Sound(s) /\ Projected(s) /\ Gate(s)
      /\ CarriesKey(x) => Mid(s, x.key) /\ x.key \in Keys /\ Settling(s, x.key)
      /\ ~ CarriesKey(x) => FlightHeld(s)
      /\ s.queued # x.key => ResetHeld(s)
  BY GrantedKeeps
<1>3. /\ x.kind = "key" => ime' \in RunKey(s, x)
      /\ x.kind = "text" => ime' \in RunText(s, x)
      /\ x.kind = "reset" => ime' \in RunReset(s, x)
  BY <1>1
<1> HIDE DEF x, s
<1>4. x.kind \in {"key", "text", "reset"}
  BY <1>2 DEF Sessions
<1>5. CASE x.kind = "key"
  BY <1>2, <1>3, <1>5, KeyGranted DEF CarriesKey
<1>6. CASE x.kind = "text"
  BY <1>2, <1>3, <1>6, TextGranted DEF CarriesKey
<1>7. CASE x.kind = "reset"
  BY <1>2, <1>3, <1>7, ResetGranted DEF CarriesKey
<1> QED
  BY <1>4, <1>5, <1>6, <1>7

-----------------------------------------------------------------------------
(* Keys and messages. *)

LEMMA ScheduledFull ==
  ASSUME NEW s, Full(s)
  PROVE  Full(Schedule(s))
BY ScheduleTame, TameFull DEF Full, Held, Sound, Typed

LEMMA TypeFull ==
  ASSUME Full(ime), Type
  PROVE  Full(ime')
<1>1. CASE KeyHealthy
  <2> DEFINE s == Enqueue(ime, "key")
  <2>1. HasCapacity(ime)
    <3>1. ime.fifo = <<>> /\ ime.flight = NoKey
      BY <1>1 DEF KeyHealthy, Barrier
    <3>2. Len(ime.fifo) = 0
      BY <3>1
    <3> QED
      BY <3>1, <3>2, BoundsAssumption DEF HasCapacity
  <2>2. Full(s)
    BY <1>1, <2>1, Enqueued DEF KeyHealthy
  <2>3. PICK r \in Drain(s) : ime' = Schedule(r)
    BY <1>1 DEF KeyHealthy, Become
  <2> HIDE DEF s
  <2> QED
    BY <2>2, <2>3, DrainFull, ScheduledFull
<1>2. CASE KeyDeferred
  <2>1. PICK kind \in {"key", "text"} :
          LET r == Schedule(Enqueue(ime, kind))
          IN  ime' \in RequestReset(r, r.top, IF r.pending THEN r.resetToken ELSE 0)
    BY <1>2 DEF KeyDeferred, Become
  <2> DEFINE r == Schedule(Enqueue(ime, kind))
  <2>2. Full(r)
    BY <1>2, Enqueued, ScheduledFull DEF KeyDeferred
  <2>3. ime' \in RequestReset(r, r.top, IF r.pending THEN r.resetToken ELSE 0)
    BY <2>1
  <2> HIDE DEF r
  <2>4. Held(r) /\ Gate(r) /\ r.top \in Contexts \cup {NoCtx} /\ r.resetToken \in Nat
    BY <2>2 DEF Full, Held, Sound, Typed, HostTyped, Base, Wired
  <2> QED
    BY <2>3, <2>4, RequestResetFull
<1>3. CASE KeyRefused
  BY <1>3 DEF KeyRefused
<1> QED
  BY <1>1, <1>2, <1>3 DEF Type

LEMMA PumpFull ==
  ASSUME Full(ime), Pump
  PROVE  Full(ime')
<1> DEFINE m == Head(ime.mail)
           s == Popped(ime)
<1>1. ime.mail # <<>>
  BY DEF Pump, Receive
<1>2. \/ m.kind = "drain" /\ ime' \in OnDrain(s, m.arg)
      \/ m.kind = "connect" /\ ime' \in OnConnect(s, m.arg)
      \/ m.kind = "disconnect" /\ ime' \in OnDisconnect(s, m.arg)
      \/ m.kind = "lost" /\ ime' \in OnLost(s, m.arg)
      \/ m.kind = "dirty" /\ ime' \in OnDirty(s, m.arg)
      \/ m.kind = "reconnect" /\ ime' \in OnReconnect(s, m.arg)
      \/ m.kind = "async" /\ ime' \in OnAsync(s, m.arg)
  BY DEF Pump, Receive, Become, Popped
<1>3. CASE m.kind = "drain" /\ ime' \in OnDrain(s, m.arg)
  BY <1>1, <1>3, PopsFull, DrainFull DEF OnDrain
<1>4. CASE m.kind = "connect" /\ ime' \in OnConnect(s, m.arg)
  BY <1>1, <1>4, ConnectFull
<1>5. CASE m.kind = "disconnect" /\ ime' \in OnDisconnect(s, m.arg)
  BY <1>1, <1>5, PopsFull, DisconnectFull
<1>6. CASE m.kind = "lost" /\ ime' \in OnLost(s, m.arg)
  BY <1>1, <1>6, PopsFull, LostFull
<1>7. CASE m.kind = "dirty" /\ ime' \in OnDirty(s, m.arg)
  BY <1>1, <1>7, DirtyFull
<1>8. CASE m.kind = "reconnect" /\ ime' \in OnReconnect(s, m.arg)
  BY <1>1, <1>8, ReconnectFull
<1>9. CASE m.kind = "async" /\ ime' \in OnAsync(s, m.arg)
  BY <1>1, <1>9, AsyncFull
<1> QED
  BY <1>2, <1>3, <1>4, <1>5, <1>6, <1>7, <1>8, <1>9

-----------------------------------------------------------------------------
(* The host, the worker thread and the server. *)

(* A write beside the keys keeps what holds of them. *)
LEMMA Rewritten ==
  ASSUME NEW s, NEW r, Held(s), Base(r), HostTyped(r), SameKeys(s, r),
         r.mail = s.mail, r.pending = s.pending, r.proj = s.proj, r.queued = s.queued
  PROVE  /\ Held(r)
         /\ Gate(s) /\ (r.connected => s.connected) /\ r.retry = s.retry
              /\ r.resetToken = s.resetToken => Full(r)
<1>1. \A kind : Inbox(r, kind) = Inbox(s, kind)
  BY MailFixed
<1>2. Sound(r)
  <2>1. \A k : (Spent(r, k) <=> Spent(s, k)) /\ (Settling(r, k) <=> Settling(s, k))
    BY DEF SameKeys, Spent, Settling
  <2>2. KeyTyped(r) /\ Room(r)
    BY DEF Held, Sound, Typed, KeyTyped, Room, SameKeys
  <2>3. Ordered(r) /\ Behind(r)
    BY <2>1 DEF Held, Sound, Ordered, Behind, SameKeys
  <2> QED
    BY <2>2, <2>3 DEF Sound, Typed
<1>3. FlightHeld(r)
  BY <1>1 DEF Held, FlightHeld, InSession, InOneSession, InPost, Bears, SameKeys
<1>4. ResetHeld(r) /\ Projected(r)
  BY DEF Held, ResetHeld, Cancels, Projected, SameKeys
<1> QED
  BY <1>1, <1>2, <1>3, <1>4 DEF Held, Full, Gate

(* A write of the transport is a step of its own for the worker thread. *)
LEMMA WireFull ==
  ASSUME NEW s, NEW r, Full(s), Wire(s, r)
  PROVE  Full(r)
BY WireTame, TameFull DEF Full, Held, Sound, Typed

LEMMA MovedFull ==
  ASSUME NEW s, Full(s), s.troubles < MaxTroubles
  PROVE  Full(Moved(s))
BY TroubleTame, TameFull DEF Full, Held, Sound, Typed, Moved

(* A focus session begins: its message opens the gate. *)
LEMMA NewSessionFull ==
  ASSUME NEW q, Full(q)
  PROVE  Full(NewSession(q))
<1> DEFINE kept == Composing(q) /\ ~ q.pending /\ ~ q.offline
           origin == IF kept THEN q.minted + 1 ELSE q.origin
           c == [q EXCEPT !.connected = TRUE, !.origin = origin]
<1>1. NewSession(q) = Post(RequireActivation(c), Message("connect"))
  BY DEF NewSession
<1>2. Held(c)
  <2>0. Base(q) /\ HostTyped(q) /\ Held(q)
    BY DEF Full, Held, Sound, Typed
  <2>1. origin \in Nat
    BY <2>0 DEF HostTyped, Base, Wired
  <2> HIDE DEF origin
  <2>2. Base(c) /\ c.mail = q.mail /\ c.pending = q.pending
        /\ c.proj = q.proj /\ c.queued = q.queued
    BY <2>0 DEF Base, Shape, Fields, Wired, Boolean
  <2>3. SameKeys(q, c)
    BY <2>0 DEF Base, Shape, Fields, SameKeys
  <2>4. HostTyped(c)
    BY <2>0, <2>1 DEF Base, Shape, Fields, HostTyped
  <2> HIDE DEF c
  <2> QED
    BY <2>0, <2>2, <2>3, <2>4, Rewritten
<1> HIDE DEF c
<1>3. Full(Post(RequireActivation(c), Message("connect")))
  <2> DEFINE a == RequireActivation(c)
             p == Post(a, Message("connect"))
  <2>0. Base(c)
    BY <1>2 DEF Held, Sound, Typed
  <2>1. Wire(c, a)
    BY <2>0, RequireActivationWires DEF Base
  <2> HIDE DEF a
  <2>2. Message("connect") \in Letters /\ Message("connect").kind = "connect"
        /\ Message("connect").arg = 0 /\ "connect" \in Kinds
    BY MessageIsLetter DEF Kinds
  <2>3. Wire(a, p)
    BY <2>1, <2>2, PostWires DEF Wire
  <2>4. Held(p)
    BY <1>2, <2>0, <2>1, <2>3, WireTwice, WireTame, TameHeld
  <2>5. 0 \in Inbox(p, "connect")
    BY <2>1, <2>2, Posting DEF Wire, Wired
  <2> HIDE DEF p
  <2>6. Full(p)
    BY <2>4, <2>5 DEF Full, Gate
  <2> QED
    BY <2>6 DEF p, a
<1> QED
  BY <1>1, <1>3

LEMMA FocusDocumentFull ==
  ASSUME Full(ime), NEW d \in Documents, NEW hosted \in BOOLEAN,
         FocusDocument(d, hosted)
  PROVE  Full(ime')
<1> DEFINE away == [ime EXCEPT !.top = ime.tops[d]]
           free == ime.top = NoCtx /\ ~ hosted
           s == IF free THEN away ELSE Moved(away)
           r == IF Composing(s) /\ DocOf[s.comp] # d /\ ~ s.pending
                THEN ResetAfterFailure(s, "resync") ELSE s
           q == [r EXCEPT !.lossTimer = FALSE]
<1>0. Base(ime) /\ HostTyped(ime) /\ Held(ime)
  BY DEF Full, Held, Sound, Typed
<1>1. Full(away) /\ away.troubles = ime.troubles
  <2>1. Base(away) /\ away.mail = ime.mail /\ away.pending = ime.pending
        /\ away.proj = ime.proj /\ away.queued = ime.queued /\ away.retry = ime.retry
        /\ away.connected = ime.connected /\ away.resetToken = ime.resetToken
        /\ away.troubles = ime.troubles
    BY <1>0 DEF Base, Shape, Fields, Wired, Boolean
  <2>2. SameKeys(ime, away)
    BY <1>0 DEF Base, Shape, Fields, SameKeys
  <2>3. HostTyped(away)
    BY <1>0 DEF Base, Shape, Fields, HostTyped
  <2> HIDE DEF away
  <2> QED
    BY <1>0, <2>1, <2>2, <2>3, Rewritten DEF Full
<1>2. /\ free \/ MayMove
      /\ ime' = IF q.connected /\ ~ hosted THEN q ELSE NewSession(q)
  BY DEF FocusDocument
<1> HIDE DEF away
<1>3. Full(s)
  BY <1>1, <1>2, MovedFull DEF MayMove
<1> HIDE DEF s
<1>4. Full(r)
  BY <1>3, ResetAfterFailureTame, TameFull DEF Full, Held, Sound, Typed, ResetKinds
<1> HIDE DEF r
<1>5. Full(q)
  <2>0. Base(r) /\ HostTyped(r) /\ Held(r)
    BY <1>4 DEF Full, Held, Sound, Typed
  <2>1. Base(q) /\ q.mail = r.mail /\ q.pending = r.pending
        /\ q.proj = r.proj /\ q.queued = r.queued /\ q.retry = r.retry
        /\ q.connected = r.connected /\ q.resetToken = r.resetToken
    BY <2>0 DEF Base, Shape, Fields, Wired, Boolean
  <2>2. SameKeys(r, q)
    BY <2>0 DEF Base, Shape, Fields, SameKeys
  <2>3. HostTyped(q)
    BY <2>0 DEF Base, Shape, Fields, HostTyped
  <2> HIDE DEF q
  <2> QED
    BY <1>4, <2>0, <2>1, <2>2, <2>3, Rewritten DEF Full
<1> HIDE DEF q
<1> QED
  BY <1>2, <1>5, NewSessionFull

LEMMA KeyFocusFull ==
  ASSUME Full(ime), KeyFocus
  PROVE  Full(ime')
BY MovedFull, NewSessionFull DEF KeyFocus, MayMove

LEMMA FocusNothingFull ==
  ASSUME Full(ime), FocusNothing
  PROVE  Full(ime')
<1> DEFINE s == Moved(ime)
           r == [s EXCEPT !.top = NoCtx, !.lossTimer = @ \/ ime.connected]
<1>1. Full(s)
  BY MovedFull DEF FocusNothing, MayMove
<1>2. ime' = r
  BY DEF FocusNothing
<1>3. ime.connected \in BOOLEAN
  BY DEF Full, Held, Sound, Typed, HostTyped
<1> HIDE DEF s
<1>4. Base(s) /\ HostTyped(s) /\ Held(s)
  BY <1>1 DEF Full, Held, Sound, Typed
<1>5. Base(r) /\ r.mail = s.mail /\ r.pending = s.pending
      /\ r.proj = s.proj /\ r.queued = s.queued /\ r.retry = s.retry
      /\ r.connected = s.connected /\ r.resetToken = s.resetToken
  <2>1. Shape(r)
    BY <1>4 DEF Base, Shape
  <2>2. SameWires(s, r) /\ r.posted = s.posted /\ r.offline = s.offline
        /\ r.proj = s.proj /\ r.queued = s.queued /\ r.retry = s.retry
        /\ r.connected = s.connected
    BY <1>4 DEF Base, Shape, Fields, SameWires
  <2> HIDE DEF r
  <2> QED
    BY <1>4, <2>1, <2>2 DEF Base, Wired, Boolean, SameWires
<1>6. SameKeys(s, r)
  BY <1>4 DEF Base, Shape, Fields, SameKeys
<1>7. HostTyped(r)
  BY <1>3, <1>4 DEF Base, Shape, Fields, HostTyped
<1> HIDE DEF r
<1> QED
  BY <1>1, <1>2, <1>4, <1>5, <1>6, <1>7, Rewritten DEF Full

LEMMA StackChangeFull ==
  ASSUME Full(ime), NEW c \in Contexts, StackChange(c)
  PROVE  Full(ime')
<1> DEFINE a == [ime EXCEPT !.top = c, !.tops[DocOf[c]] = c]
           r == MarkDirty(Clear(Moved(a)))
           preferred == IF Composing(ime) THEN ime.comp ELSE ime.top
<1>0. Base(ime) /\ HostTyped(ime) /\ Held(ime)
  BY DEF Full, Held, Sound, Typed
<1>1. ime.troubles < MaxTroubles /\ ime' \in RequestReset(r, preferred, r.resetToken)
  BY DEF StackChange, Become, MayMove
<1>2. preferred \in Contexts \cup {NoCtx}
  BY <1>0 DEF HostTyped
<1>3. Full(a) /\ a.troubles = ime.troubles
  <2>1. Base(a) /\ a.mail = ime.mail /\ a.pending = ime.pending
        /\ a.proj = ime.proj /\ a.queued = ime.queued /\ a.retry = ime.retry
        /\ a.connected = ime.connected /\ a.resetToken = ime.resetToken
        /\ a.troubles = ime.troubles
    BY <1>0 DEF Base, Shape, Fields, Wired, Boolean
  <2>2. SameKeys(ime, a)
    BY <1>0 DEF Base, Shape, Fields, SameKeys
  <2>3. /\ a.comp = ime.comp /\ a.top = c /\ a.origin = ime.origin
        /\ a.tops = [ime.tops EXCEPT ![DocOf[c]] = c]
        /\ a.lossTimer = ime.lossTimer /\ a.server = ime.server
    BY <1>0 DEF Base, Shape, Fields
  <2> HIDE DEF a
  <2>4. DocOf[c] \in Documents
    BY DEF Documents
  <2>5. /\ a.tops \in [Documents -> Contexts]
        /\ \A d \in Documents : DocOf[a.tops[d]] = d
        /\ a.top = a.tops[DocOf[a.top]]
    BY <1>0, <2>3, <2>4 DEF HostTyped
  <2>6. HostTyped(a)
    BY <1>0, <2>1, <2>3, <2>5 DEF HostTyped
  <2> QED
    BY <1>0, <2>1, <2>2, <2>6, Rewritten DEF Full
<1> HIDE DEF a, preferred
<1>4. Full(Moved(a))
  BY <1>1, <1>3, MovedFull
<1>5. Full(r)
  <2>1. Full(Clear(Moved(a)))
    BY <1>4, ClearTame, TameFull DEF Full, Held, Sound, Typed
  <2>2. Wire(Clear(Moved(a)), r)
    BY <2>1, MarkDirtyWires DEF Full, Held, Sound, Typed, Base
  <2> HIDE DEF r
  <2> QED
    BY <2>1, <2>2, WireFull
<1> HIDE DEF r
<1>6. Held(r) /\ Gate(r) /\ r.resetToken \in Nat
  BY <1>5 DEF Full, Held, Sound, Typed, Base, Wired
<1> QED
  BY <1>1, <1>2, <1>6, RequestResetFull

LEMMA CompositionLostFull ==
  ASSUME Full(ime), CompositionLost
  PROVE  Full(ime')
<1>1. Full(Moved(ime))
  BY MovedFull DEF CompositionLost, MayMove
<1>2. ime' = ResetAfterFailure(Moved(ime), "resync")
  BY DEF CompositionLost
<1> QED
  BY <1>1, <1>2, ResetAfterFailureTame, TameFull
     DEF Full, Held, Sound, Typed, ResetKinds

LEMMA HostEndsFull ==
  ASSUME Full(ime), HostEnds
  PROVE  Full(ime')
<1> DEFINE s == SetComposition(Moved(ime), NoCtx)
<1>1. Full(s)
  <2>1. Full(Moved(ime))
    BY MovedFull DEF HostEnds, MayMove
  <2> QED
    BY <2>1, SetCompositionKeeps DEF Full, Held
<1>2. ime' = s \/ \E e \in SendPacket(s) : ime' = e.st
  BY DEF HostEnds, Become
<1> HIDE DEF s
<1>3. ASSUME NEW e \in SendPacket(s)
      PROVE  Full(e.st)
  BY <1>1, SendPacketWires, WireFull DEF Full, Held, Sound, Typed, Base
<1> QED
  BY <1>1, <1>2, <1>3

LEMMA HostFull ==
  ASSUME Full(ime), Host
  PROVE  Full(ime')
BY FocusDocumentFull, KeyFocusFull, FocusNothingFull, StackChangeFull, CompositionLostFull, HostEndsFull
   DEF Host

LEMMA LoseFocusFull ==
  ASSUME Full(ime), LoseFocus
  PROVE  Full(ime')
<1> DEFINE a == [ime EXCEPT !.lossTimer = FALSE]
           r == [ime EXCEPT !.lossTimer = FALSE, !.connected = FALSE,
                            !.suspend = TRUE, !.required = FALSE, !.reply = "none",
                            !.expected = 0, !.ready = FALSE, !.acked = 0]
<1>0. Base(ime) /\ HostTyped(ime) /\ Held(ime)
  BY DEF Full, Held, Sound, Typed
<1>1. ime' = IF ~ ime.connected THEN a ELSE Post(r, Message("disconnect"))
  BY DEF LoseFocus
<1>2. Full(a)
  <2>1. Base(a) /\ a.mail = ime.mail /\ a.pending = ime.pending
        /\ a.proj = ime.proj /\ a.queued = ime.queued /\ a.retry = ime.retry
        /\ a.connected = ime.connected /\ a.resetToken = ime.resetToken
    BY <1>0 DEF Base, Shape, Fields, Wired, Boolean
  <2>2. SameKeys(ime, a)
    BY <1>0 DEF Base, Shape, Fields, SameKeys
  <2>3. HostTyped(a)
    BY <1>0 DEF Base, Shape, Fields, HostTyped
  <2> HIDE DEF a
  <2> QED
    BY <1>0, <2>1, <2>2, <2>3, Rewritten DEF Full
<1>3. Full(Post(r, Message("disconnect")))
  <2>1. Base(r) /\ r.mail = ime.mail /\ r.pending = ime.pending
        /\ r.proj = ime.proj /\ r.queued = ime.queued
        /\ ~ r.connected
    <3>1. Shape(r)
      BY <1>0 DEF Base, Shape
    <3>2. /\ r.mail = ime.mail /\ r.checked = ime.checked /\ r.minted = ime.minted
          /\ r.resync = ime.resync /\ r.published = ime.published
          /\ r.pipeGen = ime.pipeGen /\ r.echoes = ime.echoes
          /\ r.worker = ime.worker /\ r.main = ime.main /\ r.troubles = ime.troubles
          /\ r.pending = ime.pending /\ r.resetToken = ime.resetToken
          /\ r.posted = ime.posted /\ r.offline = ime.offline
          /\ r.proj = ime.proj /\ r.queued = ime.queued /\ r.retry = ime.retry
      BY <1>0 DEF Base, Shape, Fields
    <3>3. /\ r.suspend \in BOOLEAN /\ r.required \in BOOLEAN /\ r.ready \in BOOLEAN
          /\ ~ r.required /\ r.reply = "none" /\ r.expected = 0 /\ r.acked = 0
          /\ ~ r.connected
      BY <1>0 DEF Base, Shape, Fields
    <3> HIDE DEF r
    <3> QED
      BY <1>0, <3>1, <3>2, <3>3 DEF Base, Wired, Boolean, PipeState
  <2>2. SameKeys(ime, r)
    BY <1>0 DEF Base, Shape, Fields, SameKeys
  <2>3. HostTyped(r)
    BY <1>0 DEF Base, Shape, Fields, HostTyped
  <2> HIDE DEF r
  <2>4. Full(r)
    BY <1>0, <2>1, <2>2, <2>3, Rewritten DEF Full, Gate
  <2>5. Message("disconnect") \in Letters /\ Message("disconnect").kind = "disconnect"
    BY MessageIsLetter DEF Kinds
  <2>6. Wire(r, Post(r, Message("disconnect")))
    BY <2>1, <2>5, PostWires DEF Base
  <2> QED
    BY <2>4, <2>6, WireFull
<1> QED
  BY <1>1, <1>2, <1>3

LEMMA WorkerFull ==
  ASSUME Full(ime), Worker
  PROVE  Full(ime')
<1>0. Base(ime)
  BY DEF Full, Held, Sound, Typed
<1>1. CASE ReadEcho
  <2> DEFINE r == [ime EXCEPT !.echoes = Tail(@),
                     !.checked = IF Head(ime.echoes) = ime.expected THEN ime.expected ELSE 0]
  <2>1. ime' = r /\ ime.echoes # <<>>
    BY <1>1 DEF ReadEcho
  <2>0. Shape(r)
    BY <1>0 DEF Base, Shape
  <2>2. Same(ime, r)
    BY <1>0 DEF Base, Shape, Fields, Same, SameKeys, SameHost, SameRest
  <2>3. Wired(r) /\ r.mail = ime.mail /\ r.pending = ime.pending
        /\ r.resetToken = ime.resetToken
    <3>1. Tail(ime.echoes) \in Seq(Nat \ {0})
      BY <1>0, <2>1 DEF Base, Wired
    <3> QED
      BY <1>0, <3>1 DEF Base, Shape, Fields, Wired
  <2> HIDE DEF r
  <2> QED
    BY <2>0, <2>1, <2>2, <2>3, QuietWire, WireFull
<1>2. CASE StoreAck
  <2> DEFINE r == [ime EXCEPT !.acked = ime.checked, !.ready = TRUE, !.checked = 0]
  <2>1. ime' = r
    BY <1>2 DEF StoreAck
  <2>0. Shape(r)
    BY <1>0 DEF Base, Shape
  <2>2. Same(ime, r)
    BY <1>0 DEF Base, Shape, Fields, Same, SameKeys, SameHost, SameRest
  <2>3. Wired(r) /\ r.mail = ime.mail /\ r.pending = ime.pending
        /\ r.resetToken = ime.resetToken
    BY <1>0 DEF Base, Shape, Fields, Wired
  <2> HIDE DEF r
  <2> QED
    BY <2>0, <2>1, <2>2, <2>3, QuietWire, WireFull
<1>3. CASE NoticeLoss
  BY <1>0, <1>3, NoticedWires, WireFull DEF NoticeLoss, Base
<1> QED
  BY <1>1, <1>2, <1>3 DEF Worker

LEMMA ServerFull ==
  ASSUME Full(ime), ServerDies \/ ServerStarts
  PROVE  Full(ime')
<1>0. Base(ime) /\ HostTyped(ime) /\ Held(ime)
  BY DEF Full, Held, Sound, Typed
<1>1. CASE ServerDies
  <2> DEFINE r == [ime EXCEPT !.server = FALSE, !.troubles = @ + 1,
                     !.reply = Dead(@), !.worker = Dead(@), !.main = Dead(@)]
  <2>1. ime' = r /\ ime.troubles < MaxTroubles
    BY <1>1 DEF ServerDies
  <2>2. Base(r) /\ r.mail = ime.mail /\ r.pending = ime.pending
        /\ r.proj = ime.proj /\ r.queued = ime.queued /\ r.retry = ime.retry
        /\ r.connected = ime.connected /\ r.resetToken = ime.resetToken
    <3>0. Shape(r)
      BY <1>0 DEF Base, Shape
    <3>1. Boolean(r)
      BY <1>0 DEF Base, Shape, Fields, Boolean
    <3>2. /\ r.mail = ime.mail /\ r.expected = ime.expected /\ r.acked = ime.acked
          /\ r.checked = ime.checked /\ r.minted = ime.minted /\ r.resync = ime.resync
          /\ r.ready = ime.ready /\ r.required = ime.required
          /\ r.published = ime.published /\ r.suspend = ime.suspend
          /\ r.pipeGen = ime.pipeGen /\ r.echoes = ime.echoes
          /\ r.pending = ime.pending /\ r.resetToken = ime.resetToken
          /\ r.proj = ime.proj /\ r.queued = ime.queued /\ r.retry = ime.retry
          /\ r.connected = ime.connected
      BY <1>0 DEF Base, Shape, Fields
    <3>3. /\ r.reply = Dead(ime.reply) /\ r.worker = Dead(ime.worker)
          /\ r.main = Dead(ime.main) /\ r.troubles = ime.troubles + 1
      BY <1>0 DEF Base, Shape, Fields
    <3>4. r.troubles \in 0..MaxTroubles
      <4> HIDE DEF r
      <4> QED
        BY <1>0, <2>1, <3>3, BoundsAssumption DEF Base, Wired
    <3> HIDE DEF r
    <3>5. \A pipe \in PipeState : Dead(pipe) \in PipeState
      BY DEF Dead, PipeState
    <3>6. Wired(r)
      BY <1>0, <3>2, <3>3, <3>4, <3>5 DEF Base, Wired
    <3> QED
      BY <3>0, <3>1, <3>2, <3>6 DEF Base
  <2>3. SameKeys(ime, r)
    BY <1>0 DEF Base, Shape, Fields, SameKeys
  <2>4. HostTyped(r)
    BY <1>0 DEF Base, Shape, Fields, HostTyped
  <2> HIDE DEF r
  <2> QED
    BY <1>0, <2>1, <2>2, <2>3, <2>4, Rewritten DEF Full
<1>2. CASE ServerStarts
  <2> DEFINE r == [ime EXCEPT !.server = TRUE]
  <2>1. ime' = r
    BY <1>2 DEF ServerStarts
  <2>2. Base(r) /\ r.mail = ime.mail /\ r.pending = ime.pending
        /\ r.proj = ime.proj /\ r.queued = ime.queued /\ r.retry = ime.retry
        /\ r.connected = ime.connected /\ r.resetToken = ime.resetToken
    BY <1>0 DEF Base, Shape, Fields, Wired, Boolean
  <2>3. SameKeys(ime, r)
    BY <1>0 DEF Base, Shape, Fields, SameKeys
  <2>4. HostTyped(r)
    BY <1>0 DEF Base, Shape, Fields, HostTyped
  <2> HIDE DEF r
  <2> QED
    BY <1>0, <2>1, <2>2, <2>3, <2>4, Rewritten DEF Full
<1> QED
  BY <1>1, <1>2

-----------------------------------------------------------------------------
(* The invariant. *)

LEMMA Initially ==
  ASSUME Init
  PROVE  IInv
<1>1. Shape(ime)
  BY DEF Init, Shape, Fields
<1>2. /\ ime.fifo = <<>> /\ ime.flight = NoKey /\ ime.flightCtx = NoCtx
      /\ ~ ime.posted /\ ~ ime.proj /\ ~ ime.offline /\ ime.asyncs = {}
      /\ ime.posted \in BOOLEAN /\ ime.proj \in BOOLEAN /\ ime.offline \in BOOLEAN
      /\ ime.sessions = <<>> /\ ime.comp = NoCtx /\ ime.origin = Offline
      /\ ime.top = NoCtx /\ ime.connected \in BOOLEAN /\ ime.lossTimer \in BOOLEAN
      /\ ime.retry \in BOOLEAN /\ ime.mail = <<>> /\ ime.expected = 0 /\ ime.acked = 0
  BY DEF Init
<1>3. /\ ime.ready \in BOOLEAN /\ ime.minted = 0 /\ ime.required \in BOOLEAN
      /\ ~ ime.required /\ ~ ime.pending
      /\ ime.suspend \in BOOLEAN /\ ime.pending \in BOOLEAN /\ ime.resetToken = 0
      /\ ime.queued = 0 /\ ime.resync = 0 /\ ime.reply = "none" /\ ime.worker = "none"
      /\ ime.main = "none" /\ ime.published \in BOOLEAN /\ ime.pipeGen = 0
      /\ ime.echoes = <<>> /\ ime.checked = 0 /\ ime.server \in BOOLEAN
      /\ ime.typed = 0 /\ ime.applied = <<>> /\ ime.troubles = 0
  BY DEF Init
<1>4. ime.tops \in [Documents -> Contexts] /\ \A d \in Documents : DocOf[ime.tops[d]] = d
  <2>1. \A d \in Documents : \E c \in Contexts : DocOf[c] = d
    BY DEF Documents
  <2>2. ime.tops = [d \in Documents |-> CHOOSE c \in Contexts : DocOf[c] = d]
    BY DEF Init
  <2> QED
    BY <2>1, <2>2
<1>5. Base(ime)
  <2>1. Wired(ime)
    BY <1>2, <1>3, BoundsAssumption DEF Wired, PipeState
  <2> QED
    BY <1>1, <1>2, <2>1 DEF Base, Boolean
<1>6. KeyTyped(ime) /\ Room(ime)
  BY <1>2, <1>3, BoundsAssumption DEF KeyTyped, Room
<1>7. HostTyped(ime)
  BY <1>2, <1>3, <1>4 DEF HostTyped, Offline
<1>8. Ordered(ime) /\ Behind(ime)
  BY <1>2, <1>3 DEF Ordered, Behind, Spent, NoKey
<1> QED
  BY <1>2, <1>3, <1>5, <1>6, <1>7, <1>8
     DEF IInv, Full, Held, Sound, Typed, FlightHeld, ResetHeld, Projected, Gate

LEMMA NextKeeps ==
  ASSUME IInv, [Next]_vars
  PROVE  IInv'
<1> USE DEF IInv
<1>1. CASE Type
  BY <1>1, TypeFull
<1>2. CASE Pump
  BY <1>2, PumpFull
<1>3. CASE Retry
  BY <1>3, RetryFull DEF Retry, Become
<1>4. CASE LoseFocus
  BY <1>4, LoseFocusFull
<1>5. CASE Grant
  BY <1>5, GrantFull
<1>6. CASE Host
  BY <1>6, HostFull
<1>7. CASE Worker
  BY <1>7, WorkerFull
<1>8. CASE ServerDies \/ ServerStarts
  BY <1>8, ServerFull
<1>9. CASE UNCHANGED vars
  BY <1>9 DEF vars
<1> QED
  BY <1>1, <1>2, <1>3, <1>4, <1>5, <1>6, <1>7, <1>8, <1>9 DEF Next

LEMMA Invariance == Spec => []IInv
<1>1. Init => IInv
  BY Initially
<1>2. IInv /\ [Next]_vars => IInv'
  BY NextKeeps
<1> QED
  BY <1>1, <1>2, PTL DEF Spec

(* Every handler leaves the record well typed, the queue within its        *)
(* capacity (MAX_DEFERRED_KEY_DOWN_COUNT counts the key in flight), and    *)
(* every pending request with a key of its own.                            *)
THEOREM TypeCorrect == Spec => []TypeOK
<1>1. IInv => TypeOK
  <2> SUFFICES ASSUME IInv PROVE TypeOK
    OBVIOUS
  <2>1. Base(ime) /\ KeyTyped(ime) /\ HostTyped(ime) /\ Room(ime)
    BY DEF IInv, Full, Held, Sound, Typed
  <2> QED
    BY <2>1 DEF TypeOK, Base, Boolean, KeyTyped, HostTyped, Room, Wired, Letters
<1> QED
  BY <1>1, Invariance, PTL

(* Whatever focus, the host and the server do, no key takes effect while   *)
(* an earlier one still waits in the queue or in flight.                   *)
THEOREM KeysInOrder == Spec => []NoOvertaking
<1>1. IInv => NoOvertaking
  <2> SUFFICES ASSUME IInv, NEW i \in DOMAIN ime.applied, NEW k \in Waiting(ime)
               PROVE  k > ime.applied[i]
    BY DEF NoOvertaking
  <2>1. Behind(ime) /\ KeyTyped(ime)
    BY DEF IInv, Full, Held, Sound, Typed
  <2>2. Spent(ime, ime.applied[i]) /\ (ime.flight # NoKey => ime.applied[i] < ime.flight)
    BY <2>1 DEF Behind
  <2>3. ime.applied[i] \in Nat
    BY <2>1, BoundsAssumption DEF KeyTyped, Keys
  <2>4. CASE k \in InQueue(ime)
    <3>1. PICK j \in DOMAIN ime.fifo : k = ime.fifo[j].key
      BY <2>4 DEF InQueue
    <3>2. ime.fifo[j] \in Queueds /\ ime.applied[i] < ime.fifo[j].key
      BY <2>1, <2>2 DEF KeyTyped, Spent
    <3>3. ime.fifo[j].key \in Nat
      BY <3>2, BoundsAssumption DEF Queueds, Keys
    <3> QED
      BY <2>3, <3>1, <3>2, <3>3
  <2>5. CASE k = ime.flight /\ ime.flight # NoKey
    <3>1. k \in Nat
      BY <2>1, <2>5, BoundsAssumption DEF KeyTyped, Keys
    <3> QED
      BY <2>2, <2>3, <2>5, <3>1
  <2> QED
    BY <2>4, <2>5 DEF Waiting
<1> QED
  BY <1>1, Invariance, PTL

(* The projection that makes the next key wait never outlives the keys and *)
(* the gate it was set for.                                                *)
THEOREM ProjectionsRetire == Spec => []ProjectionRetired
<1>1. IInv => ProjectionRetired
  <2> SUFFICES ASSUME IInv, ime.proj, ~ ime.pending PROVE Waiting(ime) # {}
    BY DEF ProjectionRetired
  <2>1. Projected(ime) /\ KeyTyped(ime)
    BY DEF IInv, Full, Held, Sound, Typed
  <2>2. CASE ime.flight # NoKey
    BY <2>2 DEF Waiting
  <2>3. CASE ime.fifo # <<>>
    <3>1. 1 \in DOMAIN ime.fifo
      BY <2>1, <2>3 DEF KeyTyped
    <3> QED
      BY <3>1 DEF Waiting, InQueue
  <2> QED
    BY <2>1, <2>2, <2>3 DEF Projected
<1> QED
  BY <1>1, Invariance, PTL

(* While the reset gate of a focused client is closed, a message, a cancel *)
(* or a timer that opens it is on its way.                                 *)
THEOREM GatesAreAttended == Spec => []GateAttended
<1>1. IInv => GateAttended
  BY DEF IInv, Full, Gate, GateAttended
<1> QED
  BY <1>1, Invariance, PTL

(* The key in flight has exactly one carrier, and a queued cancel has one. *)
THEOREM FlightsAreCarried == Spec => []FlightCarried
<1>1. IInv => FlightCarried
  <2> SUFFICES ASSUME IInv PROVE FlightCarried
    OBVIOUS
  <2> DEFINE Carriers(k, kinds) ==
               { i \in DOMAIN ime.sessions :
                   ime.sessions[i].key = k /\ ime.sessions[i].kind \in kinds }
             posted == { x \in ime.asyncs : x.key \in Inbox(ime, "async") }
             f == ime.flight
  <2>1. FlightHeld(ime) /\ ResetHeld(ime)
    BY DEF IInv, Full, Held
  <2>2. \A i : i \in Carriers(f, {"key", "text"}) <=> i \in DOMAIN ime.sessions /\ Bears(ime, f, i)
    BY DEF Bears, CarriesKey
  <2>3. InPost(ime, f) <=> \E x \in posted : x.key = f
    BY DEF InPost
  <2> HIDE DEF posted, Carriers
  <2>4. InSession(ime, f) /\ InOneSession(ime, f) =>
          \E i \in DOMAIN ime.sessions : Carriers(f, {"key", "text"}) = {i}
    BY <2>2 DEF InSession, InOneSession
  <2>5. ~ InSession(ime, f) => Carriers(f, {"key", "text"}) = {}
    BY <2>2 DEF InSession
  <2>6. f # NoKey =>
          \/ /\ \E i \in DOMAIN ime.sessions : Carriers(f, {"key", "text"}) = {i}
             /\ \A x \in posted : x.key # f
          \/ /\ \E x \in posted : x.key = f
             /\ Carriers(f, {"key", "text"}) = {}
    BY <2>1, <2>3, <2>4, <2>5 DEF FlightHeld
  <2>7. ime.queued # 0 => Carriers(ime.queued, {"reset"}) # {}
    BY <2>1 DEF ResetHeld, Cancels, Carriers
  <2> QED
    BY <2>6, <2>7 DEF FlightCarried, Carriers, posted
<1> QED
  BY <1>1, Invariance, PTL

-----------------------------------------------------------------------------
(* The session that owns the composition.  An acknowledgement, stored, in   *)
(* the worker thread's hand or in the pipe, belongs to the published worker *)
(* endpoint; and while nothing is wrong with a composition of the focused   *)
(* client, its token cannot be replaced without closing the reset gate.     *)

Linked(s) ==
    /\ s.worker = "ok" => s.published
    /\ s.published => s.worker # "none"
    /\ s.acked # 0 => s.published
    /\ s.checked # 0 => s.published
    /\ s.echoes # <<>> => s.published

Owned(s) ==
    Composing(s) /\ ~ s.offline /\ ~ s.pending =>
        /\ s.worker # "none"
        /\ s.connected => s.origin = s.expected

Owning(s) == Shape(s) /\ Linked(s) /\ Owned(s)

(* A step that may replace the token, but only behind a closed gate or      *)
(* where there was no worker endpoint.                                      *)
Firm(s, r) ==
    /\ Shape(r)
    /\ r.comp = s.comp /\ r.origin = s.origin /\ r.connected = s.connected
    /\ s.pending => r.pending
    /\ Composing(s) /\ s.offline => r.offline
    /\ ~ r.pending /\ s.worker # "none" => r.worker # "none" /\ r.expected = s.expected
    /\ Linked(s) => Linked(r)

(* A step that writes none of what Owning reads. *)
Aside(s, r) ==
    /\ Shape(r)
    /\ r.comp = s.comp /\ r.origin = s.origin /\ r.connected = s.connected
    /\ r.pending = s.pending /\ r.offline = s.offline /\ r.expected = s.expected
    /\ r.worker = s.worker /\ r.published = s.published /\ r.acked = s.acked
    /\ r.checked = s.checked /\ r.echoes = s.echoes

LEMMA AsideFirm ==
  ASSUME NEW s, NEW r, Aside(s, r)
  PROVE  Firm(s, r) /\ (Linked(s) => Linked(r)) /\ (Owned(s) => Owned(r))
BY DEF Aside, Firm, Linked, Owned, Composing

LEMMA AsideTwice ==
  ASSUME NEW s, NEW r, NEW q, Aside(s, r), Aside(r, q)
  PROVE  Aside(s, q)
BY DEF Aside

LEMMA FirmStays ==
  ASSUME NEW s, Shape(s)
  PROVE  Firm(s, s) /\ Aside(s, s)
BY DEF Firm, Aside

LEMMA FirmTwice ==
  ASSUME NEW s, NEW r, NEW q, Firm(s, r), Firm(r, q)
  PROVE  Firm(s, q)
BY DEF Firm, Composing

LEMMA FirmOwning ==
  ASSUME NEW s, NEW r, Owning(s), Firm(s, r)
  PROVE  Owning(r)
BY DEF Owning, Owned, Firm, Composing

(* The writes of the handlers that have nothing to do with the session. *)
LEMMA PostAside ==
  ASSUME NEW s, Shape(s), NEW m
  PROVE  Aside(s, Post(s, m))
<1>1. Shape(Post(s, m))
  BY DEF Shape, Post
<1> QED
  BY <1>1 DEF Shape, Fields, Aside, Post

LEMMA ScheduleAside ==
  ASSUME NEW s, Shape(s)
  PROVE  Aside(s, Schedule(s))
<1> DEFINE r == [s EXCEPT !.posted = TRUE]
<1>1. Aside(s, r)
  <2>1. Shape(r)
    BY DEF Shape
  <2> QED
    BY <2>1 DEF Shape, Fields, Aside
<1>2. Schedule(s) = s \/ Schedule(s) = Post(r, Message("drain"))
  BY DEF Schedule
<1> HIDE DEF r
<1>3. Aside(r, Post(r, Message("drain")))
  BY <1>1, PostAside DEF Aside
<1> QED
  BY <1>1, <1>2, <1>3, AsideTwice, FirmStays

LEMMA ClearAside ==
  ASSUME NEW s, Shape(s)
  PROVE  Aside(s, Clear(s))
<1>1. Shape(Clear(s))
  BY DEF Shape, Clear
<1> QED
  BY <1>1 DEF Shape, Fields, Aside, Clear

LEMMA WritesAside ==
  ASSUME NEW s, Shape(s), NEW v, NEW w, NEW k
  PROVE  /\ Aside(s, [s EXCEPT !.proj = v])
         /\ Aside(s, [s EXCEPT !.retry = v])
         /\ Aside(s, [s EXCEPT !.reply = v])
         /\ Aside(s, [s EXCEPT !.main = v])
         /\ Aside(s, [s EXCEPT !.suspend = v])
         /\ Aside(s, [s EXCEPT !.ready = v])
         /\ Aside(s, [s EXCEPT !.asyncs = v])
         /\ Aside(s, [s EXCEPT !.sessions = v])
         /\ Aside(s, [s EXCEPT !.mail = v])
         /\ Aside(s, [s EXCEPT !.queued = v])
         /\ Aside(s, [s EXCEPT !.resync = v])
         /\ Aside(s, [s EXCEPT !.posted = v])
         /\ Aside(s, [s EXCEPT !.lossTimer = v])
         /\ Aside(s, [s EXCEPT !.applied = v])
         /\ Aside(s, [s EXCEPT !.troubles = v])
         /\ Aside(s, [s EXCEPT !.flight = k, !.flightCtx = w, !.proj = v])
         /\ Aside(s, [s EXCEPT !.fifo = v, !.flight = k, !.flightCtx = w])
         /\ Aside(s, [s EXCEPT !.typed = k, !.proj = w, !.fifo = v])
<1>1. Aside(s, [s EXCEPT !.proj = v])
  <2>1. Shape([s EXCEPT !.proj = v])
    BY DEF Shape
  <2> QED
    BY <2>1 DEF Shape, Fields, Aside
<1>2. Aside(s, [s EXCEPT !.retry = v])
  <2>1. Shape([s EXCEPT !.retry = v])
    BY DEF Shape
  <2> QED
    BY <2>1 DEF Shape, Fields, Aside
<1>3. Aside(s, [s EXCEPT !.reply = v])
  <2>1. Shape([s EXCEPT !.reply = v])
    BY DEF Shape
  <2> QED
    BY <2>1 DEF Shape, Fields, Aside
<1>4. Aside(s, [s EXCEPT !.main = v])
  <2>1. Shape([s EXCEPT !.main = v])
    BY DEF Shape
  <2> QED
    BY <2>1 DEF Shape, Fields, Aside
<1>5. Aside(s, [s EXCEPT !.suspend = v])
  <2>1. Shape([s EXCEPT !.suspend = v])
    BY DEF Shape
  <2> QED
    BY <2>1 DEF Shape, Fields, Aside
<1>6. Aside(s, [s EXCEPT !.ready = v])
  <2>1. Shape([s EXCEPT !.ready = v])
    BY DEF Shape
  <2> QED
    BY <2>1 DEF Shape, Fields, Aside
<1>7. Aside(s, [s EXCEPT !.asyncs = v])
  <2>1. Shape([s EXCEPT !.asyncs = v])
    BY DEF Shape
  <2> QED
    BY <2>1 DEF Shape, Fields, Aside
<1>8. Aside(s, [s EXCEPT !.sessions = v])
  <2>1. Shape([s EXCEPT !.sessions = v])
    BY DEF Shape
  <2> QED
    BY <2>1 DEF Shape, Fields, Aside
<1>9. Aside(s, [s EXCEPT !.mail = v])
  <2>1. Shape([s EXCEPT !.mail = v])
    BY DEF Shape
  <2> QED
    BY <2>1 DEF Shape, Fields, Aside
<1>10. Aside(s, [s EXCEPT !.queued = v])
  <2>1. Shape([s EXCEPT !.queued = v])
    BY DEF Shape
  <2> QED
    BY <2>1 DEF Shape, Fields, Aside
<1>11. Aside(s, [s EXCEPT !.resync = v])
  <2>1. Shape([s EXCEPT !.resync = v])
    BY DEF Shape
  <2> QED
    BY <2>1 DEF Shape, Fields, Aside
<1>12. Aside(s, [s EXCEPT !.posted = v])
  <2>1. Shape([s EXCEPT !.posted = v])
    BY DEF Shape
  <2> QED
    BY <2>1 DEF Shape, Fields, Aside
<1>13. Aside(s, [s EXCEPT !.lossTimer = v])
  <2>1. Shape([s EXCEPT !.lossTimer = v])
    BY DEF Shape
  <2> QED
    BY <2>1 DEF Shape, Fields, Aside
<1>14. Aside(s, [s EXCEPT !.applied = v])
  <2>1. Shape([s EXCEPT !.applied = v])
    BY DEF Shape
  <2> QED
    BY <2>1 DEF Shape, Fields, Aside
<1>15. Aside(s, [s EXCEPT !.troubles = v])
  <2>1. Shape([s EXCEPT !.troubles = v])
    BY DEF Shape
  <2> QED
    BY <2>1 DEF Shape, Fields, Aside
<1>16. Aside(s, [s EXCEPT !.flight = k, !.flightCtx = w, !.proj = v])
  <2>1. Shape([s EXCEPT !.flight = k, !.flightCtx = w, !.proj = v])
    BY DEF Shape
  <2> QED
    BY <2>1 DEF Shape, Fields, Aside
<1>17. Aside(s, [s EXCEPT !.fifo = v, !.flight = k, !.flightCtx = w])
  <2>1. Shape([s EXCEPT !.fifo = v, !.flight = k, !.flightCtx = w])
    BY DEF Shape
  <2> QED
    BY <2>1 DEF Shape, Fields, Aside
<1>18. Aside(s, [s EXCEPT !.typed = k, !.proj = w, !.fifo = v])
  <2>1. Shape([s EXCEPT !.typed = k, !.proj = w, !.fifo = v])
    BY DEF Shape
  <2> QED
    BY <2>1 DEF Shape, Fields, Aside
<1> QED
  BY <1>1, <1>2, <1>3, <1>4, <1>5, <1>6, <1>7, <1>8, <1>9, <1>10, <1>11, <1>12, <1>13, <1>14, <1>15, <1>16, <1>17, <1>18

(* The offline lane is left only when nothing is composed. *)
LEMMA TryLeaveFirm ==
  ASSUME NEW s, Shape(s)
  PROVE  LET r == TryLeave(s)
         IN  Firm(s, r) /\ r.pending = s.pending /\ r.published = s.published
<1> DEFINE r == [s EXCEPT !.offline = FALSE]
<1>1. Shape(r)
  BY DEF Shape
<1>2. /\ r.comp = s.comp /\ r.origin = s.origin /\ r.connected = s.connected
      /\ r.pending = s.pending /\ r.expected = s.expected /\ r.worker = s.worker
      /\ r.published = s.published /\ r.acked = s.acked /\ r.checked = s.checked
      /\ r.echoes = s.echoes
  BY DEF Shape, Fields
<1>3. (Composing(s) => TryLeave(s) = s) /\ TryLeave(s) \in {s, r}
  <2>1. TryLeave(s) = IF ~ Composing(s) /\ Acknowledged(s) THEN r ELSE s
    BY DEF TryLeave
  <2> HIDE DEF r
  <2> QED
    BY <2>1
<1> HIDE DEF r
<1>4. ~ Composing(s) => Firm(s, r)
  BY <1>1, <1>2 DEF Firm, Linked
<1>5. CASE TryLeave(s) = s
  BY <1>5, FirmStays
<1>6. CASE ~ Composing(s) /\ TryLeave(s) = r
  BY <1>2, <1>4, <1>6
<1> QED
  BY <1>3, <1>5, <1>6

(* The transport.  A new token closes the gate, unless there is no worker   *)
(* endpoint for the old one to belong to.                                   *)
LEMMA NewToken ==
  ASSUME NEW s, Shape(s)
  PROVE  LET r == RequireActivation(s)
         IN  /\ Shape(r) /\ r.comp = s.comp /\ r.origin = s.origin
             /\ r.connected = s.connected /\ r.pending = s.pending
             /\ r.offline = s.offline /\ r.worker = s.worker
             /\ r.published = s.published /\ r.acked = 0
             /\ r.checked = s.checked /\ r.echoes = s.echoes
             /\ r.expected = s.minted + 1
<1>1. Shape(RequireActivation(s))
  BY DEF Shape, RequireActivation
<1> QED
  BY <1>1 DEF Shape, Fields, RequireActivation

LEMMA ClosesGate ==
  ASSUME NEW s, Shape(s)
  PROVE  LET r == BeginReset(s)
         IN  /\ Shape(r) /\ r.comp = s.comp /\ r.origin = s.origin
             /\ r.connected = s.connected /\ r.pending /\ r.offline = s.offline
             /\ r.expected = s.expected /\ r.worker = s.worker
             /\ r.published = s.published /\ r.acked = s.acked
             /\ r.checked = s.checked /\ r.echoes = s.echoes
<1>1. Shape(BeginReset(s))
  BY DEF Shape, BeginReset
<1> QED
  BY <1>1 DEF Shape, Fields, BeginReset

LEMMA MarkDirtyFirm ==
  ASSUME NEW s, Shape(s)
  PROVE  LET r == MarkDirty(s)
         IN  /\ Firm(s, r) /\ r.pending
             /\ r.published = s.published /\ r.worker = s.worker
<1> DEFINE a == RequireActivation(s)
           r == [a EXCEPT !.reply = "none"]
           b == BeginReset(r)
           p == PostDirty(b)
<1>1. /\ Shape(a) /\ a.comp = s.comp /\ a.origin = s.origin
      /\ a.connected = s.connected /\ a.pending = s.pending
      /\ a.offline = s.offline /\ a.worker = s.worker
      /\ a.published = s.published /\ a.acked = 0
      /\ a.checked = s.checked /\ a.echoes = s.echoes
  BY NewToken
<1>2. MarkDirty(s) = IF r.pending THEN r ELSE p
  BY DEF MarkDirty
<1> HIDE DEF a
<1>3. Aside(a, r)
  BY <1>1, WritesAside
<1> HIDE DEF r
<1>4. /\ Shape(b) /\ b.comp = r.comp /\ b.origin = r.origin
      /\ b.connected = r.connected /\ b.pending /\ b.offline = r.offline
      /\ b.expected = r.expected /\ b.worker = r.worker
      /\ b.published = r.published /\ b.acked = r.acked
      /\ b.checked = r.checked /\ b.echoes = r.echoes
  BY <1>3, ClosesGate DEF Aside
<1> HIDE DEF b
<1>5. Aside(b, p)
  BY <1>4, PostAside DEF PostDirty
<1> HIDE DEF p
<1>6. /\ r.pending => Firm(s, r) /\ r.published = s.published /\ r.worker = s.worker
      /\ ~ r.pending => Firm(s, p) /\ p.pending /\ p.published = s.published
                        /\ p.worker = s.worker
  <2>1. Linked(s) => Linked(r) /\ Linked(p)
    BY <1>1, <1>3, <1>4, <1>5 DEF Aside, Linked
  <2> QED
    BY <1>1, <1>3, <1>4, <1>5, <2>1 DEF Firm, Aside
<1> QED
  BY <1>2, <1>6

LEMMA RequestReconnectFirm ==
  ASSUME NEW s, Shape(s)
  PROVE  Firm(s, RequestReconnect(s))
<1> DEFINE r == MarkDirty(s)
<1>1. Firm(s, r)
  BY MarkDirtyFirm
<1> HIDE DEF r
<1>2. Firm(r, Post(r, Message("reconnect")))
  BY <1>1, PostAside, AsideFirm DEF Firm
<1>3. RequestReconnect(s) = Post(r, Message("reconnect"))
  BY DEF RequestReconnect, r
<1> QED
  BY <1>1, <1>2, <1>3, FirmTwice

LEMMA RequestResyncFirm ==
  ASSUME NEW s, Shape(s)
  PROVE  Firm(s, RequestResync(s)) /\ RequestResync(s).pending
<1> DEFINE r == BeginReset(s)
           q == [r EXCEPT !.resync = r.resetToken]
           p == PostDirty(q)
<1>1. RequestResync(s) = IF s.pending THEN s ELSE p
  BY DEF RequestResync
<1>2. Firm(s, r) /\ r.pending
  <2> HIDE DEF r
  <2>1. /\ Shape(r) /\ r.comp = s.comp /\ r.origin = s.origin
        /\ r.connected = s.connected /\ r.pending /\ r.offline = s.offline
        /\ r.expected = s.expected /\ r.worker = s.worker
        /\ r.published = s.published /\ r.acked = s.acked
        /\ r.checked = s.checked /\ r.echoes = s.echoes
    BY ClosesGate DEF r
  <2> QED
    BY <2>1 DEF Firm, Linked
<1> HIDE DEF r
<1>3. Aside(r, q)
  BY <1>2, WritesAside DEF Firm
<1> HIDE DEF q
<1>4. Aside(q, p)
  BY <1>3, PostAside DEF PostDirty, Aside
<1> HIDE DEF p
<1>5. Firm(s, p) /\ p.pending
  BY <1>2, <1>3, <1>4, AsideFirm, FirmTwice DEF Aside
<1> QED
  BY <1>1, <1>5, FirmStays

LEMMA OpenReplyFirm ==
  ASSUME NEW s, Shape(s)
  PROVE  Firm(s, OpenReply(s).st)
<1> DEFINE r == IF s.reply = "dead" THEN MarkDirty(s) ELSE s
           q == IF r.reply = "none" /\ s.server THEN [r EXCEPT !.reply = "ok"] ELSE r
<1>1. OpenReply(s).st = q
  BY TryFields DEF OpenReply
<1>2. Firm(s, r)
  BY MarkDirtyFirm, FirmStays
<1> HIDE DEF r
<1>3. Firm(r, q)
  BY <1>2, WritesAside, AsideFirm, FirmStays DEF Firm
<1> HIDE DEF q
<1> QED
  BY <1>1, <1>2, <1>3, FirmTwice

(* A worker handle that was let go is replaced behind the gate; the first   *)
(* one is opened with a token of its own.                                   *)
LEMMA OpenWorkerFirm ==
  ASSUME NEW s, Shape(s)
  PROVE  Firm(s, OpenWorker(s).st)
<1> DEFINE stale == s.worker # "none" /\ ~ s.published
           m == MarkDirty(s)
           d == [m EXCEPT !.worker = "none"]
           r == IF stale THEN d ELSE s
           a == RequireActivation(r)
           w == [a EXCEPT !.worker = "ok", !.published = TRUE, !.pipeGen = @ + 1,
                          !.echoes = <<>>]
<1>1. OpenWorker(s).st = r \/ (r.worker = "none" /\ OpenWorker(s).st = w)
  <2>1. OpenWorker(s) = IF r.worker # "none" THEN Try(TRUE, r)
                        ELSE IF ~ s.server THEN Try(FALSE, r) ELSE Try(TRUE, w)
    BY DEF OpenWorker
  <2> HIDE DEF r, w
  <2>2. /\ Try(TRUE, r).st = r /\ Try(FALSE, r).st = r
        /\ Try(TRUE, w).st = w
    BY DEF Try
  <2> QED
    BY <2>1, <2>2
<1>2. Firm(s, m) /\ m.pending /\ m.published = s.published
  BY MarkDirtyFirm
<1> HIDE DEF m
<1>3. /\ Shape(d) /\ d.comp = m.comp /\ d.origin = m.origin
      /\ d.connected = m.connected /\ d.pending /\ d.offline = m.offline
      /\ d.worker = "none" /\ d.published = m.published /\ d.acked = m.acked
      /\ d.checked = m.checked /\ d.echoes = m.echoes
  <2>1. Shape(m)
    BY <1>2 DEF Firm
  <2>2. Shape(d)
    BY <2>1 DEF Shape
  <2> QED
    BY <1>2, <2>1, <2>2 DEF Shape, Fields
<1> HIDE DEF d
<1>4. stale => Firm(s, d) /\ d.pending
  <2>1. stale /\ Linked(s) => Linked(d)
    BY <1>2, <1>3 DEF Firm, Linked
  <2> QED
    BY <1>2, <1>3, <2>1 DEF Firm
<1>5. Firm(s, r) /\ (r.worker = "none" => r.pending \/ s.worker = "none")
  BY <1>4, FirmStays
<1> HIDE DEF r
<1>6. ASSUME r.worker = "none" PROVE Firm(s, w)
  <2>1. /\ Shape(a) /\ a.comp = r.comp /\ a.origin = r.origin
        /\ a.connected = r.connected /\ a.pending = r.pending
        /\ a.offline = r.offline
    BY <1>5, NewToken DEF Firm
  <2> HIDE DEF a
  <2>2. Shape(w)
    BY <2>1 DEF Shape
  <2>3. /\ w.comp = a.comp /\ w.origin = a.origin /\ w.connected = a.connected
        /\ w.pending = a.pending /\ w.offline = a.offline
        /\ w.worker = "ok" /\ w.published
    BY <2>1 DEF Shape, Fields
  <2> HIDE DEF w
  <2>4. Linked(w)
    BY <2>3 DEF Linked
  <2> QED
    BY <1>5, <1>6, <2>1, <2>2, <2>3, <2>4 DEF Firm
<1> HIDE DEF w
<1> QED
  BY <1>1, <1>5, <1>6

LEMMA OpenMainAside ==
  ASSUME NEW s, Shape(s)
  PROVE  Aside(s, OpenMain(s).st)
<1> DEFINE m == [s EXCEPT !.main = "ok"]
<1>1. OpenMain(s) = IF s.main # "none" THEN Try(TRUE, s)
                    ELSE Try(s.server, IF s.server THEN m ELSE s)
  BY DEF OpenMain
<1>2. Aside(s, m)
  BY WritesAside
<1> HIDE DEF m
<1>3. OpenMain(s).st \in {s, m}
  BY <1>1, TryFields
<1> QED
  BY <1>2, <1>3, FirmStays

LEMMA ConnectToAllFirm ==
  ASSUME NEW s, Shape(s)
  PROVE  Firm(s, ConnectToAll(s).st)
<1> DEFINE a == OpenReply(s).st
           b == OpenWorker(a).st
           c == OpenMain(b).st
<1>1. Firm(s, a)
  BY OpenReplyFirm
<1>2. Firm(s, b)
  <2> HIDE DEF a
  <2> QED
    BY <1>1, OpenWorkerFirm, FirmTwice DEF Firm
<1>3. Firm(s, c)
  <2> HIDE DEF b
  <2>1. Firm(b, c)
    BY <1>2, OpenMainAside, AsideFirm DEF Firm
  <2> HIDE DEF c
  <2> QED
    BY <1>2, <2>1, FirmTwice
<1>4. ConnectToAll(s).st \in {a, b, c}
  BY TryFields DEF ConnectToAll
<1> HIDE DEF a, b, c
<1> QED
  BY <1>1, <1>2, <1>3, <1>4

LEMMA WriteMainFirm ==
  ASSUME NEW s, Shape(s)
  PROVE  LET r == WriteMain(s)
         IN  Firm(s, r.st) /\ (r.ok => Aside(s, r.st))
<1> DEFINE r == OpenMain(s)
           n == [s EXCEPT !.main = "none"]
           q == RequestReconnect(n)
<1>1. Aside(s, r.st) /\ Firm(s, r.st)
  BY OpenMainAside, AsideFirm
<1>2. Aside(s, n)
  BY WritesAside
<1> HIDE DEF n
<1>3. Firm(s, q)
  BY <1>2, AsideFirm, RequestReconnectFirm, FirmTwice DEF Aside
<1>4. WriteMain(s) = r \/ WriteMain(s) = Try(FALSE, q)
  BY DEF WriteMain, n
<1> HIDE DEF q, r
<1>5. Try(FALSE, q).ok = FALSE /\ Try(FALSE, q).st = q
  BY DEF Try
<1> QED
  BY <1>1, <1>3, <1>4, <1>5

LEMMA FlushSuspensionFirm ==
  ASSUME NEW s, Shape(s)
  PROVE  Firm(s, FlushSuspension(s).st)
<1> DEFINE r == WriteMain(s)
           q == [r.st EXCEPT !.suspend = FALSE]
<1>1. Firm(s, r.st)
  BY WriteMainFirm
<1>2. FlushSuspension(s) = IF ~ s.suspend THEN Try(TRUE, s)
                           ELSE IF r.ok THEN Try(TRUE, q) ELSE r
  BY DEF FlushSuspension
<1> HIDE DEF r
<1>3. Firm(r.st, q)
  BY <1>1, WritesAside, AsideFirm DEF Firm
<1> HIDE DEF q
<1>4. FlushSuspension(s).st \in {s, q, r.st}
  BY <1>2, TryFields
<1> QED
  BY <1>1, <1>3, <1>4, FirmTwice, FirmStays

(* The activation is echoed through the endpoint that is published. *)
LEMMA SendActivatedFirm ==
  ASSUME NEW s, Shape(s)
  PROVE  Firm(s, SendActivated(s).st)
<1> DEFINE r == WriteMain(s)
           q == [r.st EXCEPT !.required = FALSE,
                             !.echoes = IF s.worker = "ok" THEN Append(@, s.expected) ELSE @]
<1>1. Firm(s, r.st) /\ (r.ok => Aside(s, r.st))
  BY WriteMainFirm
<1>2. SendActivated(s) = IF ~ s.required THEN Try(TRUE, s)
                         ELSE IF r.ok THEN Try(TRUE, q) ELSE r
  BY DEF SendActivated
<1> HIDE DEF r
<1>3. ASSUME r.ok PROVE Firm(s, q)
  <2>1. Aside(s, r.st)
    BY <1>1, <1>3
  <2>2. Shape(r.st)
    BY <2>1 DEF Aside
  <2>3. Shape(q)
    BY <2>2 DEF Shape
  <2>4. /\ q.comp = r.st.comp /\ q.origin = r.st.origin /\ q.connected = r.st.connected
        /\ q.pending = r.st.pending /\ q.offline = r.st.offline
        /\ q.expected = r.st.expected /\ q.worker = r.st.worker
        /\ q.published = r.st.published /\ q.acked = r.st.acked
        /\ q.checked = r.st.checked
        /\ s.worker # "ok" => q.echoes = r.st.echoes
    BY <2>2 DEF Shape, Fields
  <2> HIDE DEF q
  <2>5. Linked(s) => Linked(q)
    BY <2>1, <2>4 DEF Aside, Linked
  <2> QED
    BY <2>1, <2>3, <2>4, <2>5 DEF Aside, Firm
<1> HIDE DEF q
<1>4. SendActivated(s).st \in {s, r.st} \/ (r.ok /\ SendActivated(s).st = q)
  BY <1>2, TryFields
<1> QED
  BY <1>1, <1>3, <1>4, FirmStays

(* The worker thread lets go of a dead endpoint, and of its answers. *)
LEMMA NoticedFirm ==
  ASSUME NEW s, Shape(s), s.worker # "ok"
  PROVE  Firm(s, Noticed(s))
<1> DEFINE r == [s EXCEPT !.ready = FALSE, !.acked = 0, !.published = FALSE,
                          !.echoes = <<>>, !.checked = 0]
           m == [kind |-> "lost", arg |-> s.pipeGen]
<1>1. Shape(r)
  BY DEF Shape
<1>2. /\ r.comp = s.comp /\ r.origin = s.origin /\ r.connected = s.connected
      /\ r.pending = s.pending /\ r.offline = s.offline /\ r.expected = s.expected
      /\ r.worker = s.worker /\ ~ r.published /\ r.acked = 0
      /\ r.checked = 0 /\ r.echoes = <<>>
  BY DEF Shape, Fields
<1>3. Noticed(s) = Post(r, m)
  BY DEF Noticed
<1> HIDE DEF r, m
<1>4. Linked(r)
  BY <1>2 DEF Linked
<1>5. Firm(s, r)
  BY <1>1, <1>2, <1>4 DEF Firm
<1>6. Firm(r, Post(r, m))
  BY <1>1, PostAside, AsideFirm
<1> QED
  BY <1>3, <1>5, <1>6, FirmTwice

LEMMA AwaitEchoFirm ==
  ASSUME NEW s, Shape(s), NEW e \in AwaitEcho(s)
  PROVE  Firm(s, e.st)
<1> DEFINE comes == s.worker = "ok" /\ (s.checked = s.expected \/ Contains(s.echoes, s.expected))
           unheard == IF s.published /\ s.worker = "dead" THEN Noticed(s) ELSE s
           late == [s EXCEPT !.troubles = @ + 1]
           compared == [late EXCEPT !.echoes = <<>>, !.checked = s.expected]
           heard == [s EXCEPT !.acked = s.expected, !.ready = TRUE,
                              !.echoes = <<>>, !.checked = 0]
<1>1. Firm(s, MarkDirty(unheard))
  <2>1. Firm(s, unheard)
    BY NoticedFirm, FirmStays
  <2> HIDE DEF unheard
  <2> QED
    BY <2>1, MarkDirtyFirm, FirmTwice DEF Firm
<1>2. s.worker = "ok" => Firm(s, heard)
  <2>1. Shape(heard)
    BY DEF Shape
  <2>2. /\ heard.comp = s.comp /\ heard.origin = s.origin /\ heard.connected = s.connected
        /\ heard.pending = s.pending /\ heard.offline = s.offline
        /\ heard.expected = s.expected /\ heard.worker = s.worker
        /\ heard.published = s.published /\ heard.checked = 0 /\ heard.echoes = <<>>
    BY DEF Shape, Fields
  <2> HIDE DEF heard
  <2>3. s.worker = "ok" /\ Linked(s) => Linked(heard)
    BY <2>2 DEF Linked
  <2> QED
    BY <2>1, <2>2, <2>3 DEF Firm
<1>3. Aside(s, late)
  BY WritesAside
<1> HIDE DEF late
<1>4. s.worker = "ok" => Firm(s, compared)
  <2>1. Shape(late)
    BY <1>3 DEF Aside
  <2>2. Shape(compared)
    BY <2>1 DEF Shape
  <2>3. /\ compared.comp = late.comp /\ compared.origin = late.origin
        /\ compared.connected = late.connected
        /\ compared.pending = late.pending /\ compared.offline = late.offline
        /\ compared.expected = late.expected /\ compared.worker = late.worker
        /\ compared.published = late.published /\ compared.acked = late.acked
        /\ compared.echoes = <<>>
    BY <2>1 DEF Shape, Fields
  <2> HIDE DEF compared
  <2>4. s.worker = "ok" /\ Linked(s) => Linked(compared)
    BY <1>3, <2>3 DEF Aside, Linked
  <2> QED
    BY <1>3, <2>2, <2>3, <2>4 DEF Aside, Firm
<1>5. \/ e = Try(TRUE, s) \/ e = Try(FALSE, MarkDirty(unheard))
      \/ comes /\ e = Try(TRUE, heard)
      \/ comes /\ \E t \in {late, compared} : e = Try(FALSE, MarkDirty(t))
  BY Zenon DEF AwaitEcho, late
<1>6. comes => s.worker = "ok"
  OBVIOUS
<1> HIDE DEF comes, unheard, compared, heard
<1>7. s.worker = "ok" => Firm(s, MarkDirty(late)) /\ Firm(s, MarkDirty(compared))
  <2>1. Firm(s, late)
    BY <1>3, AsideFirm
  <2> QED
    BY <1>4, <2>1, MarkDirtyFirm, FirmTwice DEF Firm
<1>8. /\ Try(TRUE, s).st = s /\ Try(TRUE, heard).st = heard
      /\ \A t : Try(FALSE, t).st = t
  BY DEF Try
<1>9. CASE comes /\ \E t \in {late, compared} : e = Try(FALSE, MarkDirty(t))
  <2>1. Firm(s, MarkDirty(late)) /\ Firm(s, MarkDirty(compared))
    BY <1>6, <1>7, <1>9
  <2> QED
    BY <1>8, <1>9, <2>1
<1> QED
  BY <1>1, <1>2, <1>5, <1>6, <1>8, <1>9, FirmStays

LEMMA EnsureFirm ==
  ASSUME NEW s, Shape(s), NEW e \in Ensure(s)
  PROVE  Firm(s, e.st)
<1> DEFINE c == ConnectToAll(s)
           f == FlushSuspension(c.st)
           a == SendActivated(f.st)
<1>1. Firm(s, c.st)
  BY ConnectToAllFirm
<1>2. Firm(s, f.st)
  <2> HIDE DEF c
  <2> QED
    BY <1>1, FlushSuspensionFirm, FirmTwice DEF Firm
<1>3. Firm(s, a.st)
  <2> HIDE DEF f
  <2> QED
    BY <1>2, SendActivatedFirm, FirmTwice DEF Firm
<1>4. \A x \in AwaitEcho(a.st) : Firm(s, x.st)
  <2> HIDE DEF a
  <2> QED
    BY <1>3, AwaitEchoFirm, FirmTwice DEF Firm
<1>5. Ensure(s) = IF s.pending THEN {Try(FALSE, s)}
                  ELSE IF ~ c.ok \/ c.st.pending THEN {Try(FALSE, c.st)}
                  ELSE IF ~ f.ok THEN {f}
                  ELSE IF ~ a.ok THEN {a}
                  ELSE AwaitEcho(a.st)
  BY DEF Ensure
<1> HIDE DEF c, f, a
<1>6. \A x : Try(FALSE, x).st = x
  BY DEF Try
<1> QED
  BY <1>1, <1>2, <1>3, <1>4, <1>5, <1>6, FirmStays

LEMMA SendPacketFirm ==
  ASSUME NEW s, Shape(s), NEW e \in SendPacket(s)
  PROVE  Firm(s, e.st)
<1>1. PICK x \in Ensure(s) : e \in (IF x.ok THEN {WriteMain(x.st)} ELSE {x})
  BY DEF SendPacket
<1>2. Firm(s, x.st)
  BY EnsureFirm
<1>3. Firm(x.st, WriteMain(x.st).st)
  BY <1>2, WriteMainFirm DEF Firm
<1> QED
  BY <1>1, <1>2, <1>3, FirmTwice

(* The handlers of keys and of the reset. *)
LEMMA ResetAfterFailureFirm ==
  ASSUME NEW s, Shape(s), NEW kind \in ResetKinds
  PROVE  LET r == ResetAfterFailure(s, kind)
         IN  Firm(s, r) /\ (kind = "transport" => r.pending /\ r.published = s.published)
<1> DEFINE c == Clear(s)
           r == CASE kind = "transport" -> MarkDirty(c)
                  [] kind = "resync"    -> RequestResync(c)
                  [] kind = "offline"   -> c
           q == [r EXCEPT !.proj = kind # "offline" /\ r.pending]
<1>1. ResetAfterFailure(s, kind) = TryLeave(q)
  BY DEF ResetAfterFailure
<1>2. Aside(s, c) /\ Shape(c)
  BY ClearAside DEF Aside
<1> HIDE DEF c
<1>3. /\ Firm(c, r)
      /\ kind = "transport" => r.pending /\ r.published = c.published
  BY <1>2, MarkDirtyFirm, RequestResyncFirm, FirmStays DEF ResetKinds
<1> HIDE DEF r
<1>4. Aside(r, q)
  BY <1>3, WritesAside DEF Firm
<1> HIDE DEF q
<1>5. Firm(q, TryLeave(q)) /\ TryLeave(q).pending = q.pending
      /\ TryLeave(q).published = q.published
  BY <1>4, TryLeaveFirm DEF Aside
<1> DEFINE w == TryLeave(q)
<1> HIDE DEF w
<1>6. Firm(s, c) /\ Firm(r, q) /\ Firm(q, w)
  BY <1>2, <1>4, <1>5, AsideFirm DEF w
<1>7. Firm(s, w)
  BY <1>3, <1>6, FirmTwice
<1>8. kind = "transport" => w.pending /\ w.published = s.published
  BY <1>2, <1>3, <1>4, <1>5 DEF Aside, w
<1> QED
  BY <1>1, <1>7, <1>8 DEF w

LEMMA CompleteKeyFirm ==
  ASSUME NEW s, Shape(s), NEW key
  PROVE  Firm(s, CompleteKey(s, key))
<1> DEFINE r == [s EXCEPT !.flight = NoKey, !.flightCtx = NoCtx, !.proj = @ /\ s.fifo # <<>>]
           t == TryLeave(r)
<1>1. CompleteKey(s, key) = IF s.flight # key THEN s ELSE Schedule(t)
  BY DEF CompleteKey
<1>2. Aside(s, r)
  BY WritesAside
<1> HIDE DEF r
<1>3. Firm(r, t)
  BY <1>2, TryLeaveFirm DEF Aside
<1> HIDE DEF t
<1>4. Firm(t, Schedule(t))
  BY <1>3, ScheduleAside, AsideFirm DEF Firm
<1>5. Firm(s, Schedule(t))
  BY <1>2, <1>3, <1>4, AsideFirm, FirmTwice
<1> QED
  BY <1>1, <1>5, FirmStays

LEMMA FailKeyFirm ==
  ASSUME NEW s, Shape(s), NEW key, NEW reason \in Reasons
  PROVE  Firm(s, FailKey(s, key, reason))
<1> DEFINE kind == FailureKind(s, reason)
<1>1. kind = "stale" \/ kind \in ResetKinds
  BY DEF FailureKind, Reasons, ResetKinds
<1>2. FailKey(s, key, reason) =
        IF s.flight # key THEN s
        ELSE IF kind = "stale" THEN CompleteKey(s, key)
        ELSE ResetAfterFailure(s, kind)
  BY DEF FailKey
<1> HIDE DEF kind
<1> QED
  BY <1>1, <1>2, CompleteKeyFirm, ResetAfterFailureFirm, FirmStays

LEMMA ClearRequestsFirm ==
  ASSUME NEW s, Shape(s)
  PROVE  Firm(s, ClearRequests(s))
<1> DEFINE r == [s EXCEPT !.asyncs = {}]
           f == FailKey(r, s.flight, "superseded")
<1>1. Aside(s, r)
  BY WritesAside
<1>2. ClearRequests(s) = r \/ ClearRequests(s) = f
  BY DEF ClearRequests
<1> HIDE DEF r
<1>3. Firm(r, f)
  BY <1>1, FailKeyFirm DEF Aside, Reasons
<1> HIDE DEF f
<1> QED
  BY <1>1, <1>2, <1>3, AsideFirm, FirmTwice

LEMMA ReleaseIdleAside ==
  ASSUME NEW s, Shape(s)
  PROVE  Aside(s, ReleaseIdleProjection(s))
BY WritesAside, FirmStays DEF ReleaseIdleProjection

LEMMA ReleasedFirm ==
  ASSUME NEW s, Shape(s), NEW token, NEW q \in Released(s, token)
  PROVE  Firm(s, q)
<1> DEFINE r == [s EXCEPT !.resync = 0]
<1>1. Aside(s, r)
  BY WritesAside
<1>2. \/ q = ReleaseIdleProjection(s) \/ q = ReleaseIdleProjection(r)
      \/ \E e \in SendPacket(r) : q = ReleaseIdleProjection(e.st)
  BY Zenon DEF Released
<1> HIDE DEF r
<1>3. Firm(s, ReleaseIdleProjection(s)) /\ Firm(s, ReleaseIdleProjection(r))
  BY <1>1, ReleaseIdleAside, AsideFirm, FirmTwice DEF Aside
<1>4. ASSUME NEW e \in SendPacket(r)
      PROVE  Firm(s, ReleaseIdleProjection(e.st))
  <2>1. Firm(r, e.st)
    BY <1>1, SendPacketFirm DEF Aside
  <2>2. Firm(e.st, ReleaseIdleProjection(e.st))
    BY <2>1, ReleaseIdleAside, AsideFirm DEF Firm
  <2> QED
    BY <1>1, <2>1, <2>2, AsideFirm, FirmTwice
<1> QED
  BY <1>2, <1>3, <1>4

(* The gate is opened when nothing is composed any more. *)
LEMMA ReopenOwning ==
  ASSUME NEW s, Shape(s), Linked(s), ~ Composing(s), NEW token, NEW q \in Reopen(s, token)
  PROVE  Owning(q)
<1> DEFINE t == [s EXCEPT !.pending = FALSE]
<1>1. Owning(t)
  <2>1. Shape(t)
    BY DEF Shape
  <2>2. /\ t.comp = s.comp /\ t.worker = s.worker /\ t.published = s.published
        /\ t.acked = s.acked /\ t.checked = s.checked /\ t.echoes = s.echoes
    BY DEF Shape, Fields
  <2> HIDE DEF t
  <2> QED
    BY <2>1, <2>2 DEF Owning, Linked, Owned, Composing
<1>2. PICK r \in Released(t, token) :
        q = IF r.connected THEN Schedule(Post(r, Message("reconnect"))) ELSE r
  BY DEF Reopen
<1> HIDE DEF t
<1>3. Owning(r)
  BY <1>1, ReleasedFirm, FirmOwning DEF Owning
<1> DEFINE p == Post(r, Message("reconnect"))
<1>4. Aside(r, p)
  BY <1>3, PostAside DEF Owning
<1> HIDE DEF p
<1>5. Aside(p, Schedule(p))
  BY <1>4, ScheduleAside DEF Aside
<1>6. Owning(Schedule(p))
  BY <1>3, <1>4, <1>5, AsideFirm, FirmOwning
<1> QED
  BY <1>2, <1>3, <1>6 DEF p

LEMMA ArmRetryAside ==
  ASSUME NEW s, Shape(s)
  PROVE  Aside(s, ArmRetry(s))
BY WritesAside DEF ArmRetry

LEMMA AcceptedAside ==
  ASSUME NEW s, Shape(s), NEW x
  PROVE  Aside(s, Accepted(s, x))
BY WritesAside DEF Accepted

LEMMA RequestResetOwning ==
  ASSUME NEW s, Owning(s), NEW preferred, NEW token,
         NEW q \in RequestReset(s, preferred, token)
  PROVE  Owning(q)
<1> DEFINE n == [s EXCEPT !.ready = @ /\ token = s.resync]
           r == ClearRequests(n)
           ctx == IF preferred # NoCtx THEN preferred ELSE r.comp
           x == Session("reset", token, ctx, 0, "any")
           u == [r EXCEPT !.queued = token]
           v == [r EXCEPT !.troubles = @ + 1]
<1>1. \/ q = s \/ q = r \/ q = Accepted(u, x) \/ q = ArmRetry(v)
      \/ (~ Composing(r) /\ q \in Reopen(r, token))
  BY Zenon DEF RequestReset
<1>2. Aside(s, n)
  BY WritesAside DEF Owning
<1> HIDE DEF n
<1>3. Firm(n, r)
  BY <1>2, ClearRequestsFirm DEF Aside
<1> HIDE DEF r
<1>4. Owning(r) /\ Shape(r) /\ Linked(r)
  BY <1>2, <1>3, AsideFirm, FirmOwning DEF Owning
<1>5. Aside(r, u) /\ Aside(r, v)
  BY <1>4, WritesAside
<1> HIDE DEF u, v, x
<1>6. Aside(u, Accepted(u, x)) /\ Aside(v, ArmRetry(v))
  BY <1>5, AcceptedAside, ArmRetryAside DEF Aside
<1>7. Owning(Accepted(u, x)) /\ Owning(ArmRetry(v))
  BY <1>4, <1>5, <1>6, AsideFirm, FirmOwning
<1> QED
  BY <1>1, <1>4, <1>7, ReopenOwning

LEMMA CompleteResetOwning ==
  ASSUME NEW s, Owning(s), NEW token, NEW q \in CompleteReset(s, token)
  PROVE  Owning(q)
<1> DEFINE r == [s EXCEPT !.queued = 0]
           p == Post(r, Message("reconnect"))
<1>1. \/ q = s \/ q \in RequestReset(r, NoCtx, r.resetToken)
      \/ (~ Composing(r) /\ q \in Reopen(r, token))
      \/ q = ArmRetry(r) \/ q = Schedule(p) \/ q = r
  BY Zenon DEF CompleteReset
<1>2. Aside(s, r)
  BY WritesAside DEF Owning
<1> HIDE DEF r
<1>3. Owning(r) /\ Shape(r) /\ Linked(r)
  BY <1>2, AsideFirm, FirmOwning DEF Owning
<1>4. Aside(r, p) /\ Aside(r, ArmRetry(r))
  BY <1>3, PostAside, ArmRetryAside
<1> HIDE DEF p
<1>5. Aside(p, Schedule(p))
  BY <1>4, ScheduleAside DEF Aside
<1>6. Owning(ArmRetry(r)) /\ Owning(Schedule(p))
  BY <1>3, <1>4, <1>5, AsideFirm, FirmOwning
<1> QED
  BY <1>1, <1>3, <1>6, ReopenOwning, RequestResetOwning

(* Dispatching a key. *)
LEMMA RequestSessionFirm ==
  ASSUME NEW s, Shape(s), NEW x, NEW q \in RequestSession(s, x)
  PROVE  Firm(s, q)
BY AcceptedAside, AsideFirm, FailKeyFirm DEF RequestSession, Reasons

LEMMA PostRequestAside ==
  ASSUME NEW s, Shape(s), NEW key
  PROVE  Aside(s, PostRequest(s, key))
<1> DEFINE r == [s EXCEPT !.asyncs = @ \cup {[key |-> key, focus |-> s.expected,
                                              epoch |-> "current"]}]
           m == [kind |-> "async", arg |-> key]
<1>1. Aside(s, r)
  BY WritesAside
<1>2. PostRequest(s, key) = Post(r, m)
  BY DEF PostRequest
<1> HIDE DEF r, m
<1>3. Aside(r, Post(r, m))
  BY <1>1, PostAside DEF Aside
<1> QED
  BY <1>1, <1>2, <1>3, AsideTwice

LEMMA DispatchFirm ==
  ASSUME NEW s, Shape(s), NEW k, NEW q \in Dispatch(s, k)
  PROVE  Firm(s, q)
<1> DEFINE Key(r) == Session("key", k.key, k.ctx, r.expected, "any")
           text == Session("text", k.key, k.ctx, s.expected, "any")
<1>1. \/ q = FailKey(s, k.key, "superseded")
      \/ q = CompleteKey(s, k.key)
      \/ q \in RequestSession(s, text)
      \/ q \in RequestSession(s, Key(s))
      \/ \E e \in SendPacket(s) :
           \/ q = FailKey(e.st, k.key, "transport")
           \/ q = PostRequest(e.st, k.key)
           \/ q \in RequestSession(e.st, Key(e.st))
  <2>1. \/ q = FailKey(s, k.key, "superseded")
        \/ q \in RequestSession(s, text)
        \/ q \in DispatchOffline(s, k)
        \/ q \in DispatchOnline(s, k)
    BY DEF Dispatch
  <2> QED
    BY <2>1 DEF DispatchOffline, DispatchOnline, Key
<1> HIDE DEF Key, text
<1>2. ASSUME NEW e \in SendPacket(s)
      PROVE  /\ Firm(s, FailKey(e.st, k.key, "transport"))
             /\ Firm(s, PostRequest(e.st, k.key))
             /\ \A p \in RequestSession(e.st, Key(e.st)) : Firm(s, p)
  <2>1. Firm(s, e.st) /\ Shape(e.st)
    BY SendPacketFirm DEF Firm
  <2>2. Firm(e.st, FailKey(e.st, k.key, "transport"))
    BY <2>1, FailKeyFirm DEF Reasons
  <2>3. Firm(e.st, PostRequest(e.st, k.key))
    BY <2>1, PostRequestAside, AsideFirm
  <2>4. \A p \in RequestSession(e.st, Key(e.st)) : Firm(e.st, p)
    BY <2>1, RequestSessionFirm
  <2> QED
    BY <2>1, <2>2, <2>3, <2>4, FirmTwice
<1> QED
  BY <1>1, <1>2, FailKeyFirm, CompleteKeyFirm, RequestSessionFirm DEF Reasons

(* A drain may enter the offline lane, whose composition nobody else owns. *)
LEMMA DrainOwning ==
  ASSUME NEW s, Owning(s), NEW p \in Drain(s)
  PROVE  Owning(p)
<1> DEFINE r == [s EXCEPT !.posted = FALSE]
           lane == IF r.offline THEN NoteFailure(r)
                   ELSE UNION { IF e.ok THEN {e.st}
                                ELSE NoteFailure([e.st EXCEPT !.offline = TRUE]) : e \in Ensure(r) }
           m == Message("reconnect")
<1>1. \/ p \in {r, Post(r, m)} \/ \E q \in lane : p \in Dispatch(TakeHead(q), Head(q.fifo))
  BY Zenon DEF Drain
<1>2. Aside(s, r)
  BY WritesAside DEF Owning
<1>3. \A q \in lane : \/ q \in NoteFailure(r)
                      \/ \E e \in Ensure(r) : q = e.st \/ q \in NoteFailure([e.st EXCEPT !.offline = TRUE])
  OBVIOUS
<1> HIDE DEF r, lane
<1>4. Owning(r) /\ Shape(r)
  BY <1>2, AsideFirm, FirmOwning DEF Aside
<1>5. ASSUME NEW q, Owning(q) PROVE \A x \in NoteFailure(q) : Owning(x)
  BY <1>5, ArmRetryAside, AsideFirm, FirmOwning DEF NoteFailure, Owning
<1>6. ASSUME NEW e \in Ensure(r) PROVE Owning(e.st) /\ Owning([e.st EXCEPT !.offline = TRUE])
  <2> DEFINE o == [e.st EXCEPT !.offline = TRUE]
  <2>1. Owning(e.st) /\ Shape(e.st)
    BY <1>4, EnsureFirm, FirmOwning DEF Owning
  <2>2. Shape(o)
    BY <2>1 DEF Shape
  <2>3. /\ o.offline /\ o.worker = e.st.worker /\ o.published = e.st.published
        /\ o.acked = e.st.acked /\ o.checked = e.st.checked /\ o.echoes = e.st.echoes
    BY <2>1 DEF Shape, Fields
  <2> HIDE DEF o
  <2>4. Owning(o)
    BY <2>1, <2>2, <2>3 DEF Owning, Linked, Owned
  <2> QED
    BY <2>1, <2>4 DEF o
<1>7. ASSUME NEW q \in lane PROVE Owning(q)
  BY <1>3, <1>4, <1>5, <1>6
<1>8. ASSUME NEW q \in lane, p \in Dispatch(TakeHead(q), Head(q.fifo))
      PROVE  Owning(p)
  <2> DEFINE t == TakeHead(q)
  <2>1. Aside(q, t)
    BY <1>7, WritesAside DEF Owning, TakeHead
  <2> HIDE DEF t
  <2>2. Firm(t, p)
    BY <1>8, <2>1, DispatchFirm DEF Aside, t
  <2> QED
    BY <1>7, <2>1, <2>2, AsideFirm, FirmOwning
<1>9. Owning(Post(r, m))
  BY <1>4, PostAside, AsideFirm, FirmOwning
<1> QED
  BY <1>1, <1>4, <1>8, <1>9

LEMMA EnqueueAside ==
  ASSUME NEW s, Shape(s), NEW kind
  PROVE  Aside(s, Enqueue(s, kind))
BY WritesAside DEF Enqueue

LEMMA TypeOwning ==
  ASSUME Owning(ime), Type
  PROVE  Owning(ime')
<1>0. ASSUME NEW s, Owning(s) PROVE Owning(Schedule(s))
  BY <1>0, ScheduleAside, AsideFirm, FirmOwning DEF Owning
<1>1. ASSUME NEW kind PROVE Owning(Enqueue(ime, kind))
  BY EnqueueAside, AsideFirm, FirmOwning DEF Owning
<1>2. CASE KeyHealthy
  <2>1. PICK r \in Drain(Enqueue(ime, "key")) : ime' = Schedule(r)
    BY <1>2 DEF KeyHealthy, Become
  <2> QED
    BY <1>0, <1>1, <2>1, DrainOwning
<1>3. CASE KeyDeferred
  <2>1. PICK kind \in {"key", "text"} :
          LET r == Schedule(Enqueue(ime, kind))
          IN  ime' \in RequestReset(r, r.top, IF r.pending THEN r.resetToken ELSE 0)
    BY <1>3 DEF KeyDeferred, Become
  <2> DEFINE r == Schedule(Enqueue(ime, kind))
  <2>2. Owning(r)
    BY <1>0, <1>1
  <2>3. ime' \in RequestReset(r, r.top, IF r.pending THEN r.resetToken ELSE 0)
    BY <2>1
  <2> HIDE DEF r
  <2> QED
    BY <2>2, <2>3, RequestResetOwning
<1>4. CASE KeyRefused
  BY <1>4 DEF KeyRefused
<1> QED
  BY <1>2, <1>3, <1>4 DEF Type

(* The messages and the timers. *)
LEMMA AsideOwning ==
  ASSUME NEW s, NEW r, Owning(s), Aside(s, r)
  PROVE  Owning(r)
BY AsideFirm, FirmOwning

LEMMA DisconnectOwning ==
  ASSUME NEW s, Owning(s), NEW arg, NEW q \in OnDisconnect(s, arg)
  PROVE  Owning(q)
<1> DEFINE r == [s EXCEPT !.retry = FALSE]
<1>1. q = s \/ q = FlushSuspension(r).st
  BY DEF OnDisconnect
<1>2. Aside(s, r)
  BY WritesAside DEF Owning
<1> HIDE DEF r
<1>3. Owning(r) /\ Shape(r)
  BY <1>2, AsideOwning DEF Aside
<1> QED
  BY <1>1, <1>3, FlushSuspensionFirm, FirmOwning

(* The loss of the endpoint closes the gate over the composition. *)
LEMMA LostOwning ==
  ASSUME NEW s, Owning(s), NEW gen, NEW q \in OnLost(s, gen)
  PROVE  Owning(q)
<1> DEFINE n == [s EXCEPT !.ready = FALSE]
           r == ResetAfterFailure(n, "transport")
           t == [r EXCEPT !.reply = "none", !.worker = "none", !.main = "none"]
<1>1. q = s \/ (~ s.published /\ q = ArmRetry(t))
  BY DEF OnLost
<1>2. Aside(s, n)
  BY WritesAside DEF Owning
<1> HIDE DEF n
<1>3. Firm(n, r) /\ r.pending /\ r.published = n.published
  BY <1>2, ResetAfterFailureFirm DEF Aside, ResetKinds
<1> HIDE DEF r
<1>4. Owning(r) /\ Shape(r)
  BY <1>2, <1>3, AsideOwning, FirmOwning DEF Firm
<1>5. ASSUME ~ s.published PROVE Owning(t)
  <2>1. Shape(t)
    BY <1>4 DEF Shape
  <2>2. /\ t.pending = r.pending /\ t.worker = "none" /\ t.published = r.published
        /\ t.acked = r.acked /\ t.checked = r.checked /\ t.echoes = r.echoes
    BY <1>4 DEF Shape, Fields
  <2> HIDE DEF t
  <2>3. Linked(t)
    BY <1>2, <1>3, <1>4, <1>5, <2>2 DEF Owning, Linked, Aside
  <2> QED
    BY <1>3, <2>1, <2>2, <2>3 DEF Owning, Owned
<1> HIDE DEF t
<1>6. ~ s.published => Owning(ArmRetry(t))
  BY <1>5, ArmRetryAside, AsideOwning DEF Owning
<1> QED
  BY <1>1, <1>6

(* What a reconnection does once it has been answered. *)
LEMMA EnsureOwning ==
  ASSUME NEW s, Owning(s), NEW e \in Ensure(s)
  PROVE  LET r == [e.st EXCEPT !.retry = FALSE]
         IN  /\ Owning(e.st) /\ Owning(Schedule(r)) /\ Owning(Schedule(TryLeave(r)))
             /\ Owning(ArmRetry(e.st))
<1> DEFINE r == [e.st EXCEPT !.retry = FALSE]
           t == TryLeave(r)
<1>1. Owning(e.st) /\ Shape(e.st)
  BY EnsureFirm, FirmOwning DEF Owning
<1>2. Aside(e.st, r)
  BY <1>1, WritesAside
<1> HIDE DEF r
<1>3. Owning(r) /\ Shape(r)
  BY <1>1, <1>2, AsideOwning DEF Aside
<1>4. Owning(t) /\ Shape(t)
  BY <1>3, TryLeaveFirm, FirmOwning DEF Firm
<1> HIDE DEF t
<1>5. Owning(Schedule(r)) /\ Owning(Schedule(t))
  BY <1>3, <1>4, ScheduleAside, AsideOwning
<1>6. Owning(ArmRetry(e.st))
  BY <1>1, ArmRetryAside, AsideOwning
<1> QED
  BY <1>1, <1>5, <1>6 DEF r, t

LEMMA ReconnectOwning ==
  ASSUME NEW s, Owning(s), NEW arg, NEW q \in OnReconnect(s, arg)
  PROVE  Owning(q)
<1>1. \/ q = s
      \/ \E e \in Ensure(s) : \/ q = Schedule(TryLeave([e.st EXCEPT !.retry = FALSE]))
                              \/ q = ArmRetry(e.st)
  BY DEF OnReconnect
<1> QED
  BY <1>1, EnsureOwning

LEMMA AsyncOwning ==
  ASSUME NEW s, Owning(s), NEW key, NEW q \in OnAsync(s, key)
  PROVE  Owning(q)
<1> DEFINE Without(x) == [s EXCEPT !.asyncs = @ \ {x}]
           Carrier(x) == Session("key", key, Without(x).top, x.focus, x.epoch)
<1>1. \/ q = s
      \/ \E x \in s.asyncs :
           \/ q = FailKey(Without(x), key, "superseded")
           \/ q = FailKey(Without(x), key, "host")
           \/ q \in RequestSession(Without(x), Carrier(x))
  BY DEF OnAsync
<1>2. \A x : Aside(s, Without(x))
  BY WritesAside DEF Owning
<1> HIDE DEF Without, Carrier
<1>3. \A x : Owning(Without(x)) /\ Shape(Without(x))
  BY <1>2, AsideOwning DEF Aside
<1>4. ASSUME NEW x \in s.asyncs
      PROVE  /\ Owning(FailKey(Without(x), key, "superseded"))
             /\ Owning(FailKey(Without(x), key, "host"))
             /\ \A p \in RequestSession(Without(x), Carrier(x)) : Owning(p)
  BY <1>3, FailKeyFirm, RequestSessionFirm, FirmOwning DEF Reasons
<1> QED
  BY <1>1, <1>4

LEMMA PumpOwning ==
  ASSUME Owning(ime), Pump
  PROVE  Owning(ime')
<1> DEFINE m == Head(ime.mail)
           s == Popped(ime)
<1>1. \/ ime' \in OnDrain(s, m.arg)
      \/ ime' \in OnConnect(s, m.arg)
      \/ ime' \in OnDisconnect(s, m.arg)
      \/ ime' \in OnLost(s, m.arg)
      \/ ime' \in OnDirty(s, m.arg)
      \/ ime' \in OnReconnect(s, m.arg)
      \/ ime' \in OnAsync(s, m.arg)
  BY DEF Pump, Receive, Become, Popped
<1>2. Owning(s)
  BY WritesAside, AsideOwning DEF Popped, Owning
<1> HIDE DEF m, s
<1>3. CASE ime' \in OnConnect(s, m.arg)
  BY <1>2, <1>3, PostAside, AsideOwning DEF OnConnect, Owning
<1>4. CASE ime' \in OnDrain(s, m.arg) \/ ime' \in OnDirty(s, m.arg)
  BY <1>2, <1>4, DrainOwning, RequestResetOwning DEF OnDrain, OnDirty
<1> QED
  BY <1>1, <1>2, <1>3, <1>4, DisconnectOwning, LostOwning, ReconnectOwning, AsyncOwning

LEMMA RetryOwning ==
  ASSUME Owning(ime), Retry
  PROVE  Owning(ime')
<1> DEFINE n == [ime EXCEPT !.retry = FALSE]
           Activate(r) == { IF e.ok THEN Schedule([e.st EXCEPT !.retry = FALSE]) ELSE e.st :
                            e \in Ensure(r) }
<1>1. \/ ime' = n \/ ime' \in Activate(ime)
      \/ \E r \in RequestReset(ime, NoCtx, ime.resetToken) : ime' = r \/ ime' \in Activate(r)
  <2>1. OnRetry(ime) = IF ~ ime.connected THEN {n}
                       ELSE IF ~ ime.pending THEN Activate(ime)
                       ELSE UNION { IF r.pending THEN {r} ELSE Activate(r) :
                                    r \in RequestReset(ime, NoCtx, ime.resetToken) }
    BY DEF OnRetry
  <2> HIDE DEF n, Activate
  <2> QED
    BY <2>1 DEF Retry, Become
<1>2. Owning(n)
  BY WritesAside, AsideOwning DEF Owning
<1>3. ASSUME NEW r, Owning(r) PROVE \A q \in Activate(r) : Owning(q)
  BY <1>3, EnsureOwning
<1> HIDE DEF n, Activate
<1>4. \A r \in RequestReset(ime, NoCtx, ime.resetToken) : Owning(r)
  BY RequestResetOwning
<1> QED
  BY <1>1, <1>2, <1>3, <1>4

(* Without focus nothing is sent to the server. *)
LEMMA LoseFocusOwning ==
  ASSUME Owning(ime), LoseFocus
  PROVE  Owning(ime')
<1> DEFINE n == [ime EXCEPT !.lossTimer = FALSE]
           a == [ime EXCEPT !.lossTimer = FALSE, !.connected = FALSE,
                            !.suspend = TRUE, !.required = FALSE, !.reply = "none",
                            !.expected = 0, !.ready = FALSE, !.acked = 0]
           m == Message("disconnect")
<1>1. ime' = n \/ ime' = Post(a, m)
  BY DEF LoseFocus
<1>2. Owning(n)
  BY WritesAside, AsideOwning DEF Owning
<1>3. Shape(ime)
  BY DEF Owning
<1>4. Shape(a)
  BY <1>3 DEF Shape
<1>5. /\ ~ a.connected /\ a.worker = ime.worker /\ a.published = ime.published
      /\ a.acked = 0 /\ a.checked = ime.checked /\ a.echoes = ime.echoes
      /\ a.comp = ime.comp /\ a.offline = ime.offline /\ a.pending = ime.pending
  BY <1>3 DEF Shape, Fields
<1> HIDE DEF n, a, m
<1>6. Owning(a)
  BY <1>4, <1>5 DEF Owning, Linked, Owned, Composing
<1>7. Owning(Post(a, m))
  BY <1>4, <1>6, PostAside, AsideOwning
<1> QED
  BY <1>1, <1>2, <1>7

-----------------------------------------------------------------------------
(* The granted sessions, the host, the worker thread and the server. *)

LEMMA SetCompositionOwning ==
  ASSUME NEW s, Owning(s), NEW ctx,
         \/ ctx = NoCtx \/ ctx = s.comp \/ s.offline
         \/ s.worker # "none"
  PROVE  Owning(SetComposition(s, ctx)) /\ (ctx = NoCtx => ~ Composing(SetComposition(s, ctx)))
<1> DEFINE r == [s EXCEPT !.comp = ctx,
                   !.origin = IF ctx = NoCtx \/ s.offline THEN Offline ELSE s.expected,
                   !.asyncs = { Outdated(x) : x \in @ },
                   !.sessions = [i \in DOMAIN @ |-> Outdated(@[i])]]
<1>1. SetComposition(s, ctx) = IF ctx = s.comp THEN s ELSE r
  BY DEF SetComposition
<1>2. Shape(s)
  BY DEF Owning
<1>3. Shape(r)
  BY <1>2 DEF Shape
<1>4. /\ r.comp = ctx /\ r.origin = (IF ctx = NoCtx \/ s.offline THEN Offline ELSE s.expected)
      /\ r.connected = s.connected /\ r.pending = s.pending /\ r.offline = s.offline
      /\ r.expected = s.expected /\ r.worker = s.worker /\ r.published = s.published
      /\ r.acked = s.acked /\ r.checked = s.checked /\ r.echoes = s.echoes
  BY <1>2 DEF Shape, Fields
<1> HIDE DEF r
<1>5. ctx # s.comp => Owning(r)
  BY <1>3, <1>4 DEF Owning, Linked, Owned, Composing
<1> QED
  BY <1>1, <1>4, <1>5 DEF Composing

LEMMA TroubleOwning ==
  ASSUME NEW s, Owning(s)
  PROVE  Owning(Moved(s))
<1> DEFINE r == [s EXCEPT !.troubles = @ + 1]
<1>1. Shape(s)
  BY DEF Owning
<1>2. Aside(s, r)
  BY <1>1, WritesAside
<1>3. Moved(s) = r
  BY DEF Moved
<1> HIDE DEF r
<1> QED
  BY <1>2, <1>3, AsideOwning

LEMMA AppliedOwning ==
  ASSUME NEW s, Owning(s), NEW v
  PROVE  Owning([s EXCEPT !.applied = v])
BY WritesAside, AsideOwning DEF Owning

(* A key starts a composition in the offline lane, or under a token that    *)
(* has been acknowledged through the published endpoint.                    *)
LEMMA RunKeyOwning ==
  ASSUME NEW s, Owning(s), NEW x, NEW q \in RunKey(s, x)
  PROVE  Owning(q)
<1> DEFINE Begun(c) == [SetComposition(s, c) EXCEPT !.applied = Append(@, x.key)]
<1>1. \/ q = FailKey(s, x.key, "superseded")
      \/ (s.offline \/ FocusCurrent(s, x.focus, x.ctx)) /\ q \in Applied(s, x)
      \/ q = FailKey(s, x.key, "host")
      \/ q = FailKey(RequestReconnect(s), x.key, "transport")
  BY DEF RunKey
<1>2. CASE (s.offline \/ FocusCurrent(s, x.focus, x.ctx)) /\ q \in Applied(s, x)
  <2>1. PICK c : q = CompleteKey(Begun(c), x.key)
    BY <1>2 DEF Applied
  <2>2. s.offline \/ s.worker # "none"
    BY <1>2 DEF FocusCurrent, Acknowledged, Owning, Linked
  <2>3. Owning(Begun(c))
    <3>1. Owning(SetComposition(s, c))
      BY <2>2, SetCompositionOwning
    <3> QED
      BY <3>1, AppliedOwning
  <2> HIDE DEF Begun
  <2> QED
    BY <2>1, <2>3, CompleteKeyFirm, FirmOwning DEF Owning
<1>3. Owning(RequestReconnect(s)) /\ Shape(RequestReconnect(s))
  BY RequestReconnectFirm, FirmOwning DEF Owning, Firm
<1> QED
  BY <1>1, <1>2, <1>3, FailKeyFirm, FirmOwning DEF Owning, Reasons

LEMMA RunTextOwning ==
  ASSUME NEW s, Owning(s), NEW x, NEW q \in RunText(s, x)
  PROVE  Owning(q)
<1> DEFINE r == [s EXCEPT !.applied = Append(@, x.key)]
<1>1. \/ q = CompleteKey(r, x.key)
      \/ q = FailKey(s, x.key, "host") \/ q = FailKey(s, x.key, "superseded")
  BY DEF RunText
<1>2. Owning(r)
  BY AppliedOwning
<1> HIDE DEF r
<1> QED
  BY <1>1, <1>2, CompleteKeyFirm, FailKeyFirm, FirmOwning DEF Owning, Reasons

LEMMA RunResetOwning ==
  ASSUME NEW s, Owning(s), NEW x, NEW q \in RunReset(s, x)
  PROVE  Owning(q)
<1> DEFINE t == [s EXCEPT !.troubles = @ + 1]
<1>1. \/ q \in CompleteReset(s, x.key)
      \/ q \in CompleteReset(SetComposition(s, NoCtx), x.key)
      \/ q \in CompleteReset(t, x.key)
  BY DEF RunReset
<1>2. Owning(t)
  BY TroubleOwning DEF Moved
<1>3. Owning(SetComposition(s, NoCtx))
  BY SetCompositionOwning
<1> HIDE DEF t
<1> QED
  BY <1>1, <1>2, <1>3, CompleteResetOwning

LEMMA GrantOwning ==
  ASSUME Owning(ime), ime.sessions \in Seq(Sessions), Grant
  PROVE  Owning(ime')
<1>1. PICK i \in DOMAIN ime.sessions :
        LET x == ime.sessions[i]
            s == Granted(ime, i)
        IN  ime' \in CASE x.kind = "key"   -> RunKey(s, x)
                       [] x.kind = "text"  -> RunText(s, x)
                       [] x.kind = "reset" -> RunReset(s, x)
  BY DEF Grant, Become, Granted
<1> DEFINE x == ime.sessions[i]
           s == Granted(ime, i)
<1>2. /\ x.kind = "key" => ime' \in RunKey(s, x)
      /\ x.kind = "text" => ime' \in RunText(s, x)
      /\ x.kind = "reset" => ime' \in RunReset(s, x)
  BY <1>1
<1>3. Owning(s)
  BY WritesAside, AsideOwning DEF Granted, Owning
<1>4. x.kind \in {"key", "text", "reset"}
  <2>1. x \in Sessions
    OBVIOUS
  <2> QED
    BY <2>1 DEF Sessions
<1> HIDE DEF x, s
<1> QED
  BY <1>2, <1>3, <1>4, RunKeyOwning, RunTextOwning, RunResetOwning

(* A composition found alive is handed over to the session that begins. *)
LEMMA NewSessionOwning ==
  ASSUME NEW q, Owning(q)
  PROVE  Owning(NewSession(q))
<1> DEFINE kept == Composing(q) /\ ~ q.pending /\ ~ q.offline
           origin == IF kept THEN q.minted + 1 ELSE q.origin
           c == [q EXCEPT !.connected = TRUE, !.origin = origin]
           a == RequireActivation(c)
           m == Message("connect")
<1>0. Shape(q)
  BY DEF Owning
<1>1. NewSession(q) = Post(a, m)
  BY DEF NewSession
<1>2. kept => origin = q.minted + 1
  OBVIOUS
<1>3. /\ Shape(c) /\ c.comp = q.comp /\ c.origin = origin /\ c.pending = q.pending
      /\ c.offline = q.offline /\ c.worker = q.worker /\ c.published = q.published
      /\ c.checked = q.checked /\ c.echoes = q.echoes /\ c.minted = q.minted
  <2> HIDE DEF origin
  <2>1. Shape(c)
    BY <1>0 DEF Shape
  <2> QED
    BY <1>0, <2>1 DEF Shape, Fields
<1> HIDE DEF c, origin
<1>4. /\ Shape(a) /\ a.comp = c.comp /\ a.origin = c.origin
      /\ a.pending = c.pending /\ a.offline = c.offline /\ a.worker = c.worker
      /\ a.published = c.published /\ a.acked = 0
      /\ a.checked = c.checked /\ a.echoes = c.echoes
      /\ a.expected = c.minted + 1
  BY <1>3, NewToken
<1> HIDE DEF a, m
<1>5. Owning(a)
  BY <1>2, <1>3, <1>4 DEF Owning, Linked, Owned, Composing
<1> QED
  BY <1>1, <1>4, <1>5, PostAside, AsideOwning

LEMMA KeyFocusOwning ==
  ASSUME Owning(ime), KeyFocus
  PROVE  Owning(ime')
BY TroubleOwning, NewSessionOwning DEF KeyFocus

LEMMA FocusDocumentOwning ==
  ASSUME Owning(ime), NEW d \in Documents, NEW hosted \in BOOLEAN,
         FocusDocument(d, hosted)
  PROVE  Owning(ime')
<1> DEFINE away == [ime EXCEPT !.top = ime.tops[d]]
           free == ime.top = NoCtx /\ ~ hosted
           s == IF free THEN away ELSE Moved(away)
           r == IF Composing(s) /\ DocOf[s.comp] # d /\ ~ s.pending
                THEN ResetAfterFailure(s, "resync") ELSE s
           q == [r EXCEPT !.lossTimer = FALSE]
<1>1. ime' = q \/ ime' = NewSession(q)
  BY DEF FocusDocument
<1>2. Aside(ime, away)
  <2>1. Shape(ime)
    BY DEF Owning
  <2>2. Shape(away)
    BY <2>1 DEF Shape
  <2> QED
    BY <2>1, <2>2 DEF Shape, Fields, Aside
<1> HIDE DEF away
<1>3. Owning(s)
  BY <1>2, AsideOwning, TroubleOwning
<1> HIDE DEF s
<1>4. Owning(r)
  BY <1>3, ResetAfterFailureFirm, FirmOwning DEF ResetKinds, Owning
<1> HIDE DEF r
<1>5. Owning(q)
  BY <1>4, WritesAside, AsideOwning DEF Owning
<1> QED
  BY <1>1, <1>5, NewSessionOwning

LEMMA StackChangeOwning ==
  ASSUME Owning(ime), NEW c \in Contexts, StackChange(c)
  PROVE  Owning(ime')
<1> DEFINE a == [ime EXCEPT !.top = c, !.tops[DocOf[c]] = c]
           s == Moved(a)
           k == Clear(s)
           r == MarkDirty(k)
           preferred == IF Composing(ime) THEN ime.comp ELSE ime.top
<1>1. ime' \in RequestReset(r, preferred, r.resetToken)
  BY DEF StackChange, Become
<1>2. Aside(ime, a)
  <2>1. Shape(ime)
    BY DEF Owning
  <2>2. Shape(a)
    BY <2>1 DEF Shape
  <2> QED
    BY <2>1, <2>2 DEF Shape, Fields, Aside
<1> HIDE DEF a, preferred
<1>3. Owning(s)
  BY <1>2, AsideOwning, TroubleOwning
<1> HIDE DEF s
<1>4. Owning(k)
  BY <1>3, ClearAside, AsideOwning DEF Owning
<1> HIDE DEF k
<1>5. Owning(r)
  BY <1>4, MarkDirtyFirm, FirmOwning DEF Owning
<1> HIDE DEF r
<1> QED
  BY <1>1, <1>5, RequestResetOwning

LEMMA HostOwning ==
  ASSUME Owning(ime), Host
  PROVE  Owning(ime')
<1>1. Owning(Moved(ime))
  BY TroubleOwning
<1>2. CASE FocusNothing
  <2> DEFINE t == Moved(ime)
             r == [t EXCEPT !.top = NoCtx, !.lossTimer = @ \/ ime.connected]
  <2>1. ime' = r
    BY <1>2 DEF FocusNothing
  <2>2. Shape(t)
    BY <1>1 DEF Owning
  <2> HIDE DEF t
  <2>3. Shape(r)
    BY <2>2 DEF Shape
  <2>4. Aside(t, r)
    BY <2>2, <2>3 DEF Shape, Fields, Aside
  <2> QED
    BY <1>1, <2>1, <2>4, AsideOwning DEF t
<1>3. CASE CompositionLost
  <2>1. ime' = ResetAfterFailure(Moved(ime), "resync")
    BY <1>3 DEF CompositionLost
  <2> QED
    BY <1>1, <2>1, ResetAfterFailureFirm, FirmOwning DEF ResetKinds, Owning
<1>4. CASE HostEnds
  <2> DEFINE s == SetComposition(Moved(ime), NoCtx)
  <2>1. ime' = s \/ \E e \in SendPacket(s) : ime' = e.st
    BY <1>4 DEF HostEnds, Become
  <2>2. Owning(s) /\ Shape(s)
    BY <1>1, SetCompositionOwning DEF Owning
  <2> HIDE DEF s
  <2> QED
    BY <2>1, <2>2, SendPacketFirm, FirmOwning
<1> QED
  BY <1>2, <1>3, <1>4, FocusDocumentOwning, KeyFocusOwning,
     StackChangeOwning DEF Host

(* What is read from the pipe and stored came through the endpoint. *)
LEMMA WorkerOwning ==
  ASSUME Owning(ime), Worker
  PROVE  Owning(ime')
<1>0. Shape(ime) /\ Linked(ime) /\ Owned(ime)
  BY DEF Owning
<1>1. CASE ReadEcho
  <2> DEFINE v == IF Head(ime.echoes) = ime.expected THEN ime.expected ELSE 0
             r == [ime EXCEPT !.echoes = Tail(@), !.checked = v]
  <2>1. ime' = r /\ ime.published
    BY <1>1 DEF ReadEcho
  <2> HIDE DEF v
  <2>2. Shape(r)
    BY <1>0 DEF Shape
  <2>3. /\ r.comp = ime.comp /\ r.origin = ime.origin /\ r.connected = ime.connected
        /\ r.pending = ime.pending /\ r.offline = ime.offline /\ r.expected = ime.expected
        /\ r.worker = ime.worker /\ r.published = ime.published /\ r.acked = ime.acked
    BY <1>0 DEF Shape, Fields
  <2> HIDE DEF r
  <2>4. Owning(r)
    BY <1>0, <2>1, <2>2, <2>3 DEF Owning, Linked, Owned, Composing
  <2> QED
    BY <2>1, <2>4
<1>2. CASE StoreAck
  <2> DEFINE r == [ime EXCEPT !.acked = ime.checked, !.ready = TRUE, !.checked = 0]
  <2>1. ime' = r /\ ime.checked # 0
    BY <1>2 DEF StoreAck
  <2>2. Shape(r)
    BY <1>0 DEF Shape
  <2>3. /\ r.comp = ime.comp /\ r.origin = ime.origin /\ r.connected = ime.connected
        /\ r.pending = ime.pending /\ r.offline = ime.offline /\ r.expected = ime.expected
        /\ r.worker = ime.worker /\ r.published = ime.published /\ r.echoes = ime.echoes
        /\ r.checked = 0
    BY <1>0 DEF Shape, Fields
  <2> HIDE DEF r
  <2>4. Owning(r)
    BY <1>0, <2>1, <2>2, <2>3 DEF Owning, Linked, Owned, Composing
  <2> QED
    BY <2>1, <2>4
<1>3. CASE NoticeLoss
  <2>1. ime' = Noticed(ime) /\ ime.worker # "ok"
    BY <1>3 DEF NoticeLoss
  <2> QED
    BY <1>0, <2>1, NoticedFirm, FirmOwning
<1> QED
  BY <1>1, <1>2, <1>3 DEF Worker

LEMMA ServerOwning ==
  ASSUME Owning(ime), ServerDies \/ ServerStarts
  PROVE  Owning(ime')
<1>0. Shape(ime) /\ Linked(ime) /\ Owned(ime)
  BY DEF Owning
<1>1. CASE ServerDies
  <2> DEFINE w == Dead(ime.worker)
             r == [ime EXCEPT !.server = FALSE, !.troubles = @ + 1,
                              !.reply = Dead(@), !.worker = w, !.main = Dead(@)]
  <2>1. ime' = r
    BY <1>1 DEF ServerDies
  <2>2. w # "ok" /\ (w = "none" <=> ime.worker = "none")
    BY DEF Dead
  <2> HIDE DEF w
  <2>3. Shape(r)
    BY <1>0 DEF Shape
  <2>4. /\ r.comp = ime.comp /\ r.origin = ime.origin /\ r.connected = ime.connected
        /\ r.pending = ime.pending /\ r.offline = ime.offline /\ r.expected = ime.expected
        /\ r.worker = w /\ r.published = ime.published /\ r.acked = ime.acked
        /\ r.checked = ime.checked /\ r.echoes = ime.echoes
    BY <1>0 DEF Shape, Fields
  <2> HIDE DEF r
  <2>5. Owning(r)
    BY <1>0, <2>2, <2>3, <2>4 DEF Owning, Linked, Owned, Composing
  <2> QED
    BY <2>1, <2>5
<1>2. CASE ServerStarts
  <2> DEFINE r == [ime EXCEPT !.server = TRUE]
  <2>1. ime' = r
    BY <1>2 DEF ServerStarts
  <2>2. Shape(r)
    BY <1>0 DEF Shape
  <2>3. Aside(ime, r)
    BY <1>0, <2>2 DEF Shape, Fields, Aside
  <2> QED
    BY <2>1, <2>3, AsideOwning
<1> QED
  BY <1>1, <1>2

LEMMA NextOwning ==
  ASSUME IInv, Owning(ime), [Next]_vars
  PROVE  Owning(ime')
<1>1. ime.sessions \in Seq(Sessions)
  BY DEF IInv, Full, Held, Sound, Typed, KeyTyped
<1>2. CASE Grant
  BY <1>1, <1>2, GrantOwning
<1>3. CASE UNCHANGED vars
  BY <1>3 DEF vars
<1> QED
  BY <1>2, <1>3, TypeOwning, PumpOwning, RetryOwning, LoseFocusOwning, HostOwning,
     WorkerOwning, ServerOwning DEF Next

LEMMA OwningInvariant == Spec => []Owning(ime)
<1>1. Init => Owning(ime)
  <2> SUFFICES ASSUME Init PROVE Owning(ime)
    OBVIOUS
  <2>1. Shape(ime)
    BY DEF Init, Shape, Fields
  <2>2. /\ ime.comp = NoCtx /\ ime.worker = "none" /\ ~ ime.published
        /\ ime.acked = 0 /\ ime.checked = 0 /\ ime.echoes = <<>>
    BY DEF Init
  <2> QED
    BY <2>1, <2>2 DEF Owning, Linked, Owned, Composing
<1>2. IInv /\ Owning(ime) /\ [Next]_vars => Owning(ime)'
  BY NextOwning
<1> QED
  BY <1>1, <1>2, Invariance, PTL DEF Spec

(* A key is only ever sent into a composition of the session it is sent    *)
(* under, begun in it or handed over by OnSetFocus when the session began: *)
(* every other way a token is replaced closes the reset gate over the      *)
(* composition, and the gate opens when that composition is gone.          *)
THEOREM SessionsOwnCompositions == Spec => []SessionOwnsComposition
<1>1. Owning(ime) => SessionOwnsComposition
  BY DEF Owning, Owned, SessionOwnsComposition, FocusCurrent
<1> QED
  BY <1>1, OwningInvariant, PTL
=============================================================================
