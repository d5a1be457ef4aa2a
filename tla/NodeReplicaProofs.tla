------------------------- MODULE NodeReplicaProofs -------------------------
(***************************************************************************)
(* Proofs about NodeReplica, for batches, channels and bounds of any size: *)
(* the history the control plane shows grows at its end only, with each    *)
(* number once and none of them at the same time missing, and its          *)
(* watermark is one the node has reached.                                  *)
(***************************************************************************)
EXTENDS NodeReplica, TLAPS

View == [held : SUBSET Entry, cursor : Nat, seen : Nat, gaps : SUBSET Nat,
         lost : SUBSET Nat, parked : SUBSET Nat]

\* No number is used twice in a set of entries.
Functional(S) == \A e, f \in S : e.seq = f.seq => e = f

\* A batch holds entries with different numbers, within its bounds.
BatchOK(b) == Functional(b.entries) /\ \A e \in b.entries : b.from <= e.seq /\ e.seq <= b.last

\* An event holds such a batch, or a watermark the node has reached.
EventOK(ev, low) ==
  /\ ev.kind = "batch" => BatchOK(ev.batch)
  /\ ev.kind = "reclaimed" => ev.through <= low
EventsOK(q, low) == q \in Seq(Event) /\ \A i \in DOMAIN q : EventOK(q[i], low)

\* What a copy holds and misses lies before its cursor, and apart.
ViewOK(v) ==
  /\ Functional(v.held)
  /\ \A e \in v.held : e.seq <= v.cursor
  /\ \A s \in v.gaps \cup v.lost : s <= v.cursor /\ \A e \in v.held : e.seq # s

\* What v becomes is added at its end.
Grows(v, w) == \A e \in w.held \ v.held, f \in v.held : f.seq < e.seq

NodeType == /\ log \in [entries : SUBSET Entry, next : Nat \ {0}, low : Nat]
            /\ appended \in Nat /\ live \in BOOLEAN /\ asked \in Nat /\ parked \in SUBSET Nat
            /\ pending \in Batch
LinkType == /\ up \in BOOLEAN /\ lagged \in BOOLEAN /\ faults \in 0..MaxFaults
            /\ sync \in {"pull", "ask", "note", "done", "failed"}
            /\ answer \in [last : Nat, low : Nat]

\* The numbers of the log are used once and lie before the next one, also after a
\* restart that starts them over, and so do those of the batch to come.
LogInv     == Functional(log.entries) /\ \A e \in log.entries : e.seq < log.next
PendingInv == BatchOK(pending) /\ pending.last < log.next
EventsInv  == EventsOK(outbox, log.low) /\ EventsOK(wire, log.low) /\ EventsOK(stale, log.low)
LowInv     == answer.low <= log.low /\ view.seen <= log.low

\* The inductive invariant.
NodeInv == NodeType /\ LogInv /\ PendingInv
ViewInv == view \in View /\ ViewOK(view)
Inv     == NodeInv /\ LinkType /\ EventsInv /\ LowInv /\ ViewInv

-----------------------------------------------------------------------------
(* Sequences of events *)

\* Taking the first event off.
LEMMA TakenOK ==
  ASSUME NEW q, NEW low, EventsOK(q, low), q # <<>>
  PROVE  Head(q) \in Event /\ EventOK(Head(q), low) /\ EventsOK(Tail(q), low)
<1>1. q \in Seq(Event) /\ Len(q) \in Nat /\ Len(q) > 0 /\ Head(q) = q[1] /\ 1 \in DOMAIN q
  BY DEF EventsOK
<1>2. Tail(q) \in Seq(Event) /\ \A i \in DOMAIN Tail(q) : i + 1 \in DOMAIN q /\ Tail(q)[i] = q[i + 1]
  BY <1>1
<1> QED BY <1>1, <1>2 DEF EventsOK

\* Putting one at the end.
LEMMA AppendOK ==
  ASSUME NEW q, NEW low, NEW ev \in Event, EventsOK(q, low), EventOK(ev, low)
  PROVE  EventsOK(Append(q, ev), low)
BY DEF EventsOK

\* Putting two sequences together.
LEMMA ConcatOK ==
  ASSUME NEW p, NEW q, NEW low, EventsOK(p, low), EventsOK(q, low)
  PROVE  EventsOK(p \o q, low)
<1>1. p \in Seq(Event) /\ q \in Seq(Event) /\ p \o q \in Seq(Event)
  BY DEF EventsOK
<1>2. \A i \in DOMAIN (p \o q) :
        \/ i \in DOMAIN p /\ (p \o q)[i] = p[i]
        \/ i - Len(p) \in DOMAIN q /\ (p \o q)[i] = q[i - Len(p)]
  BY <1>1
<1> QED BY <1>1, <1>2 DEF EventsOK

\* Keeping the first k.
LEMMA PrefixOK ==
  ASSUME NEW q, NEW low, EventsOK(q, low), NEW k \in 0..Len(q)
  PROVE  EventsOK(SubSeq(q, 1, k), low)
<1>1. q \in Seq(Event)
  BY DEF EventsOK
<1>2. SubSeq(q, 1, k) \in Seq(Event)
      /\ \A i \in DOMAIN SubSeq(q, 1, k) : i \in DOMAIN q /\ SubSeq(q, 1, k)[i] = q[i]
  BY <1>1
<1> QED BY <1>1, <1>2 DEF EventsOK

\* No event, and one batch.
LEMMA EmptyOK == ASSUME NEW low PROVE EventsOK(<<>>, low)
BY DEF EventsOK
LEMMA OneBatchOK ==
  ASSUME NEW low, NEW b \in Batch, BatchOK(b)
  PROVE  EventsOK(<<Batched(b)>>, low)
<1>1. Batched(b) \in Event /\ Batched(b).kind = "batch" /\ Batched(b).batch = b
  BY DEF Batched, Event
<1>2. EventOK(Batched(b), low)
  BY <1>1 DEF EventOK
<1> QED BY <1>1, <1>2 DEF EventsOK

\* A watermark the node has passed stays passed.
LEMMA LowerOK ==
  ASSUME NEW q, NEW low \in Nat, NEW low2 \in Nat, low <= low2, EventsOK(q, low)
  PROVE  EventsOK(q, low2)
<1> SUFFICES ASSUME NEW i \in DOMAIN q PROVE EventOK(q[i], low2)
  BY DEF EventsOK
<1>1. q[i] \in Event /\ EventOK(q[i], low)
  BY DEF EventsOK
<1>2. q[i].kind = "reclaimed" => q[i].through \in Nat
  BY <1>1 DEF Event
<1> QED BY <1>1, <1>2 DEF EventOK

-----------------------------------------------------------------------------
(* The copy *)

\* A batch leaves a copy as it should be and adds to its end.
LEMMA NoteBatchOK ==
  ASSUME NEW v \in View, ViewOK(v), NEW b \in Batch, BatchOK(b)
  PROVE  /\ NoteBatch(v, b) \in View /\ ViewOK(NoteBatch(v, b)) /\ Grows(v, NoteBatch(v, b))
         /\ NoteBatch(v, b).seen = v.seen
<1> DEFINE w == NoteBatch(v, b)
<1>1. CASE b.entries = {}
  BY <1>1 DEF NoteBatch, Grows
<1>2. CASE b.entries # {}
  <2> DEFINE N == News(v, b.entries)
             G == Gap(v, b)
             S == Numbers(Strays(v, b.entries))
  <2>1. v.held \in SUBSET Entry /\ v.cursor \in Nat /\ v.seen \in Nat /\ v.gaps \in SUBSET Nat
        /\ v.lost \in SUBSET Nat /\ v.parked \in SUBSET Nat
        /\ b.entries \in SUBSET Entry /\ b.from \in Nat /\ b.last \in Nat
    BY DEF View, Batch
  <2>2. /\ w.held = v.held \cup N /\ w.cursor = Max2(v.cursor, b.last) /\ w.seen = v.seen
        /\ w.gaps \subseteq v.gaps \cup G /\ w.lost \subseteq v.lost \cup S \cup G
        /\ w.parked = v.parked
    BY <1>2 DEF NoteBatch, View
  <2>3. N \in SUBSET Entry /\ \A e \in N : e \in b.entries /\ e.seq \in Nat /\ e.seq > v.cursor
                                            /\ b.from <= e.seq /\ e.seq <= b.last
    BY <2>1 DEF News, BatchOK, Entry
  <2>4. S \in SUBSET Nat /\ \A s \in S : s <= v.cursor /\ \A e \in v.held : e.seq # s
    BY <2>1 DEF Numbers, Strays, Skipped, Entry
  <2>5. b.from <= b.last
    BY <1>2, <2>1 DEF BatchOK, Entry
  <2>6. G \in SUBSET Nat /\ \A s \in G : s > v.cursor /\ s < b.from /\ s <= b.last
    BY <2>1, <2>5 DEF Gap
  <2>7. w.cursor \in Nat /\ v.cursor <= w.cursor /\ b.last <= w.cursor
    BY <2>1, <2>2 DEF Max2
  <2>8. w \in View
    <3> DEFINE H == v.held \cup N
               P == v.gaps \cup (IF Gone(v, b) THEN {} ELSE G)
               L == v.lost \cup S \cup (IF Gone(v, b) THEN G ELSE {})
               C == Max2(v.cursor, b.last)
    <3>1. H \in SUBSET Entry /\ P \in SUBSET Nat /\ L \in SUBSET Nat /\ C \in Nat
      BY <2>1, <2>2, <2>3, <2>4, <2>6, <2>7
    <3>2. w = [v EXCEPT !.held = H, !.cursor = C, !.gaps = P, !.lost = L]
      BY <1>2, <2>1 DEF NoteBatch, View
    <3> HIDE DEF w, H, P, L, C
    <3> QED BY <3>1, <3>2 DEF View
  <2>9. Grows(v, w)
    BY <2>1, <2>2, <2>3 DEF Grows, ViewOK, Entry
  <2>10. Functional(w.held)
    BY <2>1, <2>2, <2>3 DEF Functional, ViewOK, BatchOK, Entry
  <2>11. \A e \in w.held : e.seq <= w.cursor
    BY <2>1, <2>2, <2>3, <2>7 DEF ViewOK, Entry
  <2>12. \A s \in w.gaps \cup w.lost : s <= w.cursor /\ \A e \in w.held : e.seq # s
    BY <2>1, <2>2, <2>3, <2>4, <2>6, <2>7 DEF ViewOK, Entry
  <2> QED BY <2>2, <2>8, <2>9, <2>10, <2>11, <2>12 DEF ViewOK
<1> QED BY <1>1, <1>2

\* A watermark does too, and is known from then on.
LEMMA NoteReclaimedOK ==
  ASSUME NEW v \in View, ViewOK(v), NEW n \in Nat
  PROVE  /\ NoteReclaimed(v, n) \in View /\ ViewOK(NoteReclaimed(v, n))
         /\ NoteReclaimed(v, n).held = v.held /\ NoteReclaimed(v, n).cursor = v.cursor
         /\ NoteReclaimed(v, n).seen = Max2(v.seen, n)
<1> DEFINE w == NoteReclaimed(v, n)
<1>1. v.seen \in Nat /\ v.gaps \in SUBSET Nat /\ v.lost \in SUBSET Nat /\ Max2(v.seen, n) \in Nat
  BY DEF View, Max2
<1>2. w = [v EXCEPT !.seen = Max2(v.seen, n),
                    !.gaps = {s \in v.gaps : s > Max2(v.seen, n)},
                    !.lost = v.lost \cup {s \in v.gaps : s <= Max2(v.seen, n)}]
  BY DEF NoteReclaimed, View
<1>3. w \in View /\ w.held = v.held /\ w.cursor = v.cursor /\ w.seen = Max2(v.seen, n)
      /\ w.gaps \cup w.lost = v.gaps \cup v.lost
  <2> DEFINE M == Max2(v.seen, n)
             P == {s \in v.gaps : s > M}
             L == v.lost \cup {s \in v.gaps : s <= M}
  <2>1. M \in Nat /\ P \in SUBSET Nat /\ L \in SUBSET Nat
    BY <1>1
  <2>2. P \cup L = v.gaps \cup v.lost
    BY <1>1, <2>1
  <2>3. w = [v EXCEPT !.seen = M, !.gaps = P, !.lost = L]
    BY <1>2
  <2> HIDE DEF w, M, P, L
  <2>4. w \in View /\ w.held = v.held /\ w.cursor = v.cursor /\ w.seen = M
        /\ w.gaps = P /\ w.lost = L
    BY <2>1, <2>3 DEF View
  <2> QED BY <2>2, <2>4 DEF M
<1> QED BY <1>3 DEF ViewOK

\* So does every event.
LEMMA NoteOK ==
  ASSUME NEW v \in View, ViewOK(v), NEW low \in Nat, v.seen <= low,
         NEW ev \in Event, EventOK(ev, low)
  PROVE  /\ Note(v, ev) \in View /\ ViewOK(Note(v, ev)) /\ Grows(v, Note(v, ev))
         /\ Note(v, ev).seen <= low
<1> DEFINE w == Note(v, ev)
<1>0. ev.kind \in {"batch", "reclaimed", "asked", "resolved"}
  BY DEF Event
<1>1. CASE ev.kind = "batch"
  <2>1. ev.batch \in Batch /\ BatchOK(ev.batch) /\ w = NoteBatch(v, ev.batch)
    BY <1>1 DEF Event, EventOK, Note
  <2> QED BY <2>1, NoteBatchOK
<1>2. CASE ev.kind = "reclaimed"
  <2>1. ev.through \in Nat /\ ev.through <= low /\ w = NoteReclaimed(v, ev.through)
    BY <1>2 DEF Event, EventOK, Note
  <2>2. w \in View /\ ViewOK(w) /\ w.held = v.held /\ w.seen = Max2(v.seen, ev.through)
    BY <2>1, NoteReclaimedOK
  <2> QED BY <2>1, <2>2 DEF Grows, Max2, View
<1>3. CASE ev.kind \in {"asked", "resolved"}
  <2>1. ev.req \in Nat
    BY <1>3 DEF Event
  <2>2. w \in View /\ w.held = v.held /\ w.cursor = v.cursor /\ w.seen = v.seen
        /\ w.gaps = v.gaps /\ w.lost = v.lost
    BY <1>3, <2>1 DEF Note, View
  <2> QED BY <2>2 DEF ViewOK, Grows
<1> QED BY <1>0, <1>1, <1>2, <1>3

-----------------------------------------------------------------------------
(* The node *)

\* Appending keeps the numbers apart.
LEMMA ExtendOK ==
  ASSUME NodeInv, NEW n \in Nat, Extend(n)
  PROVE  /\ log' \in [entries : SUBSET Entry, next : Nat \ {0}, low : Nat] /\ appended' \in Nat
         /\ LogInv' /\ log'.low = log.low /\ log'.next = log.next + n
<1>1. log.entries \in SUBSET Entry /\ log.next \in Nat \ {0} /\ log.low \in Nat /\ appended \in Nat
  BY DEF NodeInv, NodeType
<1>2. Fresh(n) \in SUBSET Entry /\ Functional(Fresh(n))
      /\ \A e \in Fresh(n) : log.next <= e.seq /\ e.seq < log.next + n
  BY <1>1 DEF Fresh, Entry, Functional
<1>3. log'.entries = log.entries \cup Fresh(n) /\ log'.next = log.next + n /\ log'.low = log.low
      /\ log' \in [entries : SUBSET Entry, next : Nat \ {0}, low : Nat]
  <2>1. log.entries \cup Fresh(n) \in SUBSET Entry /\ log.next + n \in Nat \ {0}
    BY <1>1, <1>2
  <2>2. log' = [log EXCEPT !.entries = log.entries \cup Fresh(n), !.next = log.next + n]
    BY DEF Extend
  <2> HIDE DEF Fresh
  <2> QED BY <2>1, <2>2 DEF NodeInv, NodeType
<1>4. LogInv'
  BY <1>1, <1>2, <1>3 DEF LogInv, NodeInv, Functional, Entry
<1> QED BY <1>1, <1>3, <1>4 DEF Extend

\* So does putting into the batch what has just been appended, whatever is dropped.
LEMMA EnqueueOK ==
  ASSUME NodeInv, NEW n \in Nat, Enqueue(n)
  PROVE  pending' \in Batch /\ BatchOK(pending') /\ pending'.last < log.next + n
<1>1. log.next \in Nat \ {0} /\ appended \in Nat /\ pending \in Batch /\ BatchOK(pending)
      /\ pending.last < log.next /\ pending.last \in Nat /\ pending.entries \in SUBSET Entry
  BY DEF NodeInv, NodeType, PendingInv, Batch
<1>2. Fresh(n) \in SUBSET Entry /\ Functional(Fresh(n))
      /\ \A e \in Fresh(n) : log.next <= e.seq /\ e.seq < log.next + n
  BY <1>1 DEF Fresh, Entry, Functional
<1>3. PICK cut \in Numbers(Joined(n)) :
        pending' = [from |-> cut, last |-> log.next + n - 1, entries |-> Kept(n, cut)]
  BY DEF Enqueue
<1>4. Joined(n) \in SUBSET Entry /\ Functional(Joined(n))
      /\ \A e \in Joined(n) : e.seq \in Nat /\ e.seq <= log.next + n - 1
  BY <1>1, <1>2 DEF Joined, Functional, BatchOK, Entry
<1>5. Kept(n, cut) \in SUBSET Entry /\ cut \in Nat /\ Kept(n, cut) \subseteq Joined(n)
      /\ \A e \in Kept(n, cut) : cut <= e.seq
  BY <1>3, <1>4 DEF Kept, Numbers
<1>6. log.next + n - 1 \in Nat
  BY <1>1
<1>7. pending' \in Batch
  BY <1>3, <1>5, <1>6 DEF Batch
<1>8. BatchOK(pending')
  BY <1>3, <1>4, <1>5 DEF BatchOK, Functional
<1> QED BY <1>1, <1>3, <1>7, <1>8

\* What may go into the outbox at once.
LEMMA TellOK ==
  ASSUME EventsInv, NEW ev \in Event, EventOK(ev, log.low), Tell(ev), log'.low = log.low
  PROVE  EventsOK(outbox', log'.low)
BY AppendOK DEF EventsInv, Tell

LEMMA RequestOK ==
  ASSUME NEW r \in Nat, NEW low
  PROVE  /\ Asked(r) \in Event /\ EventOK(Asked(r), low)
         /\ Resolved(r) \in Event /\ EventOK(Resolved(r), low)
BY DEF Asked, Resolved, Event, EventOK

\* A step of the node that reclaims nothing leaves the rest as it should be.
LEMMA NodeFrame ==
  ASSUME Inv, NodeInv', EventsOK(outbox', log'.low), log'.low = log.low,
         UNCHANGED <<up, wire, stale, lagged, plane>>, faults' \in 0..MaxFaults
  PROVE  Inv' /\ Grows(view, view')
<1>1. UNCHANGED <<up, wire, stale, lagged, sync, answer, view>>
  BY DEF plane
<1>2. ViewInv' /\ LinkType' /\ LowInv' /\ EventsInv'
  BY <1>1 DEF Inv, ViewInv, LinkType, LowInv, EventsInv
<1> QED BY <1>1, <1>2 DEF Inv, Grows

LEMMA RecordStep ==
  ASSUME Inv, NEW n \in Nat, NEW told \in BOOLEAN,
         \/ Record(n) \/ RecordAsk(n) \/ RecordDeath(n)
         \/ RecordAllow(n, told) \/ RecordFails(n, told)
  PROVE  Inv' /\ Grows(view, view')
<1>0. NodeInv /\ EventsInv /\ asked \in Nat /\ parked \in SUBSET Nat /\ live \in BOOLEAN
      /\ pending \in Batch /\ faults \in 0..MaxFaults /\ log.next \in Nat /\ pending.last \in Nat
      /\ EventsOK(outbox, log.low) /\ MaxFaults \in Nat
  BY NodeReplicaAssumption DEF Inv, NodeInv, NodeType, LinkType, EventsInv, Batch
<1>1. CASE Record(n)
  <2>1. Extend(n) /\ Enqueue(n) /\ UNCHANGED <<live, asked, parked, outbox, up, wire, stale, lagged, faults, plane>>
    BY <1>1 DEF Record, link
  <2>2. NodeInv' /\ log'.low = log.low
    BY <1>0, <2>1, ExtendOK, EnqueueOK DEF NodeInv, NodeType, PendingInv
  <2> QED BY <1>0, <2>1, <2>2, NodeFrame
<1>2. CASE RecordAsk(n)
  <2>1. Extend(n + 1) /\ Enqueue(n + 1) /\ Tell(Asked(asked + 1)) /\ asked' = asked + 1
        /\ parked' = parked \cup {asked + 1}
        /\ UNCHANGED <<live, up, wire, stale, lagged, faults, plane>>
    BY <1>2 DEF RecordAsk, link
  <2>2. n + 1 \in Nat /\ asked + 1 \in Nat
    BY <1>0
  <2>3. NodeInv' /\ log'.low = log.low
    BY <1>0, <2>1, <2>2, ExtendOK, EnqueueOK DEF NodeInv, NodeType, PendingInv
  <2>4. EventsOK(outbox', log'.low)
    BY <1>0, <2>1, <2>2, <2>3, TellOK, RequestOK
  <2> QED BY <1>0, <2>1, <2>3, <2>4, NodeFrame
<1>3. CASE RecordDeath(n)
  <2>1. Extend(n + 1) /\ Enqueue(n) /\ live' = FALSE
        /\ UNCHANGED <<asked, parked, outbox, up, wire, stale, lagged, faults, plane>>
    BY <1>3 DEF RecordDeath, link
  <2>2. NodeInv' /\ log'.low = log.low
    <3>1. n + 1 \in Nat
      OBVIOUS
    <3>2. log' \in [entries : SUBSET Entry, next : Nat \ {0}, low : Nat] /\ appended' \in Nat
          /\ LogInv' /\ log'.low = log.low /\ log'.next = log.next + (n + 1)
      BY <1>0, <2>1, <3>1, ExtendOK
    <3>3. pending' \in Batch /\ BatchOK(pending') /\ pending'.last < log.next + n
      BY <1>0, <2>1, EnqueueOK
    <3>4. pending'.last < log'.next
      BY <1>0, <3>2, <3>3 DEF Batch
    <3> QED BY <1>0, <2>1, <3>2, <3>3, <3>4 DEF NodeInv, NodeType, PendingInv
  <2> QED BY <1>0, <2>1, <2>2, NodeFrame
<1>4. CASE RecordAllow(n, told)
  <2> DEFINE k == IF told THEN n + 1 ELSE n + 2
  <2>1. Extend(k) /\ Enqueue(n + 1) /\ Tell(Resolved(asked + 1)) /\ asked' = asked + 1
        /\ UNCHANGED <<live, parked, up, wire, stale, lagged, faults, plane>>
    BY <1>4 DEF RecordAllow, link
  <2>2. n + 1 \in Nat /\ asked + 1 \in Nat /\ k \in Nat /\ n + 1 <= k
    BY <1>0
  <2> HIDE DEF k
  <2>3. NodeInv' /\ log'.low = log.low
    <3>2. log' \in [entries : SUBSET Entry, next : Nat \ {0}, low : Nat] /\ appended' \in Nat
          /\ LogInv' /\ log'.low = log.low /\ log'.next = log.next + k
      BY <1>0, <2>1, <2>2, ExtendOK
    <3>3. pending' \in Batch /\ BatchOK(pending') /\ pending'.last < log.next + (n + 1)
      BY <1>0, <2>1, <2>2, EnqueueOK
    <3>4. pending'.last < log'.next
      BY <1>0, <2>2, <3>2, <3>3 DEF Batch
    <3> QED BY <1>0, <2>1, <2>2, <3>2, <3>3, <3>4 DEF NodeInv, NodeType, PendingInv
  <2>4. EventsOK(outbox', log'.low)
    BY <1>0, <2>1, <2>2, <2>3, TellOK, RequestOK
  <2> QED BY <1>0, <2>1, <2>3, <2>4, NodeFrame
<1>5. CASE RecordFails(n, told)
  <2>1. Extend(n) /\ faults < MaxFaults /\ faults' = faults + 1
        /\ asked' = (IF told THEN asked + 1 ELSE asked)
        /\ parked' = (IF told THEN parked \cup {asked + 1} ELSE parked)
        /\ UNCHANGED <<live, pending, outbox, up, wire, stale, lagged, plane>>
    BY <1>5 DEF RecordFails
  <2>2. asked' \in Nat /\ parked' \in SUBSET Nat /\ faults' \in 0..MaxFaults
    BY <1>0, <2>1
  <2>3. NodeInv' /\ log'.low = log.low
    BY <1>0, <2>1, <2>2, ExtendOK DEF NodeInv, NodeType, PendingInv
  <2> QED BY <1>0, <2>1, <2>2, <2>3, NodeFrame
<1> QED BY <1>1, <1>2, <1>3, <1>4, <1>5

\* The operations of the control plane on the session append one entry at most.
LEMMA OperationStep ==
  ASSUME Inv, NEW r \in Nat, NEW told \in BOOLEAN,
         SetModeAuto \/ AnswerLate(r) \/ Answer(r, told) \/ Close
  PROVE  Inv' /\ Grows(view, view')
<1>0. NodeInv /\ EventsInv /\ NodeType /\ faults \in 0..MaxFaults
      /\ EventsOK(outbox, log.low) /\ parked \in SUBSET Nat
  BY DEF Inv, NodeInv, NodeType, LinkType, EventsInv
<1>1. UNCHANGED <<up, wire, stale, lagged, faults, plane, asked>>
  BY DEF SetModeAuto, AnswerLate, Answer, Close, link
<1>2. \/ Extend(1)
      \/ log' = log /\ appended' = appended
  BY DEF SetModeAuto, AnswerLate, Answer, Close
<1>3. /\ log' \in [entries : SUBSET Entry, next : Nat \ {0}, low : Nat] /\ appended' \in Nat
      /\ LogInv' /\ log'.low = log.low /\ log.next <= log'.next
  <2>1. CASE Extend(1)
    BY <1>0, <2>1, ExtendOK DEF NodeType
  <2>2. CASE log' = log /\ appended' = appended
    BY <1>0, <2>2 DEF NodeInv, NodeType, LogInv
  <2> QED BY <1>2, <2>1, <2>2
<1>4. pending' = pending \/ pending' = NoBatch
  BY DEF SetModeAuto, AnswerLate, Answer, Close
<1>5. pending' \in Batch /\ BatchOK(pending') /\ pending'.last < log'.next
  <2>1. NoBatch \in Batch /\ BatchOK(NoBatch) /\ NoBatch.last = 0
    BY DEF NoBatch, Batch, BatchOK, Functional
  <2>2. pending \in Batch /\ BatchOK(pending) /\ pending.last < log.next /\ pending.last \in Nat
        /\ log.next \in Nat
    BY <1>0 DEF NodeInv, NodeType, PendingInv, Batch
  <2> QED BY <1>3, <1>4, <2>1, <2>2
<1>6. live' \in BOOLEAN /\ parked' \in SUBSET Nat
  BY <1>0 DEF SetModeAuto, AnswerLate, Answer, Close, NodeType
<1>7. NodeInv'
  BY <1>0, <1>1, <1>3, <1>5, <1>6 DEF NodeInv, NodeType, PendingInv
<1>8. outbox' = outbox \/ Tell(Resolved(r))
  BY DEF SetModeAuto, AnswerLate, Answer, Close
<1>9. EventsOK(outbox', log'.low)
  BY <1>0, <1>3, <1>8, TellOK, RequestOK
<1> QED BY <1>0, <1>1, <1>3, <1>7, <1>9, NodeFrame

\* The watermark only rises, to a number that is then reported.
LEMMA SweepStep ==
  ASSUME Inv, Sweep
  PROVE  Inv' /\ Grows(view, view')
<1>0. /\ log \in [entries : SUBSET Entry, next : Nat \ {0}, low : Nat] /\ LogInv
      /\ answer.low \in Nat /\ view.seen \in Nat
      /\ EventsOK(outbox, log.low) /\ EventsOK(wire, log.low) /\ EventsOK(stale, log.low)
  BY DEF Inv, NodeInv, NodeType, LinkType, ViewInv, View, EventsInv
<1>1. PICK n \in Numbers(log.entries) :
        /\ log' = IF n <= log.low THEN log
                  ELSE [log EXCEPT !.entries = {e \in @ : e.seq > n}, !.low = n]
        /\ Tell(Reclaimed(n))
  BY DEF Sweep
<1>2. n \in Nat
  BY <1>0 DEF Numbers, Entry
<1>3. /\ log' \in [entries : SUBSET Entry, next : Nat \ {0}, low : Nat]
      /\ log'.entries \subseteq log.entries /\ log'.next = log.next
      /\ log.low <= log'.low /\ n <= log'.low
  <2>1. CASE n <= log.low
    BY <1>0, <1>1, <2>1
  <2>2. CASE ~(n <= log.low)
    <3> DEFINE kept == {e \in log.entries : e.seq > n}
    <3>1. kept \in SUBSET Entry /\ kept \subseteq log.entries /\ log.low \in Nat
      BY <1>0
    <3>2. log' = [log EXCEPT !.entries = kept, !.low = n]
      BY <1>1, <2>2
    <3> HIDE DEF kept
    <3>3. log' \in [entries : SUBSET Entry, next : Nat \ {0}, low : Nat]
          /\ log'.entries = kept /\ log'.next = log.next /\ log'.low = n
      BY <1>0, <1>2, <3>1, <3>2
    <3>4. log.low <= n
      BY <1>2, <2>2, <3>1
    <3> QED BY <1>2, <3>1, <3>3, <3>4
  <2> QED BY <2>1, <2>2
<1>4. UNCHANGED <<appended, live, asked, parked, pending, link, plane>>
  BY DEF Sweep
<1>5. NodeInv'
  BY <1>0, <1>3, <1>4 DEF Inv, NodeInv, NodeType, LogInv, PendingInv, Functional
<1>6. EventsOK(outbox, log'.low) /\ EventsOK(wire, log'.low) /\ EventsOK(stale, log'.low)
  BY <1>0, <1>3, LowerOK
<1>7. EventsOK(outbox', log'.low)
  <2>1. Reclaimed(n) \in Event /\ EventOK(Reclaimed(n), log'.low)
    BY <1>2, <1>3 DEF Reclaimed, Event, EventOK
  <2> QED BY <1>1, <1>6, <2>1, AppendOK DEF Tell
<1>8. UNCHANGED <<up, wire, stale, lagged, faults, sync, answer, view>>
  BY <1>4 DEF link, plane
<1>9. ViewInv' /\ LinkType' /\ EventsInv' /\ Grows(view, view')
  BY <1>6, <1>7, <1>8 DEF Inv, ViewInv, LinkType, EventsInv, Grows
<1>10. LowInv'
  BY <1>0, <1>3, <1>8 DEF Inv, LowInv
<1> QED BY <1>5, <1>9, <1>10 DEF Inv

\* What the node has gathered is put on the wire.
LEMMA DrainStep ==
  ASSUME Inv, NEW due \in BOOLEAN, Drain(due)
  PROVE  Inv' /\ Grows(view, view')
<1>0. /\ EventsOK(outbox, log.low) /\ EventsOK(wire, log.low) /\ EventsOK(stale, log.low)
      /\ pending \in Batch /\ BatchOK(pending) /\ log.next \in Nat \ {0}
  BY DEF Inv, NodeInv, NodeType, PendingInv, EventsInv
<1> DEFINE last == IF due THEN <<Batched(pending)>> ELSE <<>>
<1>2. EventsOK(last, log.low)
  BY <1>0, EmptyOK, OneBatchOK
<1>1. /\ wire' = (wire \o outbox) \o last /\ outbox' = <<>>
      /\ pending' = (IF due THEN NoBatch ELSE pending)
      /\ UNCHANGED <<log, appended, live, asked, parked, up, stale, lagged, faults, plane>>
  <2>1. wire \in Seq(Event) /\ outbox \in Seq(Event) /\ last \in Seq(Event)
    BY <1>0, <1>2 DEF EventsOK
  <2>2. wire' = wire \o outbox \o last /\ outbox' = <<>>
        /\ pending' = (IF due THEN NoBatch ELSE pending)
        /\ UNCHANGED <<log, appended, live, asked, parked, up, stale, lagged, faults, plane>>
    BY DEF Drain
  <2> QED BY <2>1, <2>2
<1> HIDE DEF last
<1>3. EventsOK(wire', log'.low) /\ EventsOK(outbox', log'.low) /\ EventsOK(stale', log'.low)
  BY <1>0, <1>1, <1>2, ConcatOK, EmptyOK
<1>4. NoBatch \in Batch /\ BatchOK(NoBatch) /\ NoBatch.last = 0
  BY DEF NoBatch, Batch, BatchOK, Functional
<1>5. pending' \in Batch /\ BatchOK(pending') /\ pending'.last < log'.next
  BY <1>0, <1>1, <1>4 DEF Inv, NodeInv, PendingInv
<1>6. NodeInv'
  BY <1>1, <1>5 DEF Inv, NodeInv, NodeType, LogInv, PendingInv
<1>7. UNCHANGED <<sync, answer, view>>
  BY <1>1 DEF plane
<1>8. ViewInv' /\ LinkType' /\ LowInv' /\ Grows(view, view')
  BY <1>1, <1>7 DEF Inv, ViewInv, LinkType, LowInv, Grows
<1> QED BY <1>3, <1>6, <1>8 DEF Inv, EventsInv

-----------------------------------------------------------------------------
(* The control plane *)

\* A step of the control plane that leaves the copy as it should be.
LEMMA PlaneFrame ==
  ASSUME Inv, UNCHANGED node, view' \in View, ViewOK(view'), view'.seen <= log.low,
         EventsOK(wire', log.low), EventsOK(stale', log.low), LinkType', answer'.low <= log.low
  PROVE  Inv'
<1>1. UNCHANGED <<log, appended, live, asked, parked, pending, outbox>>
  BY DEF node
<1>2. NodeInv'
  BY <1>1 DEF Inv, NodeInv, NodeType, LogInv, PendingInv
<1> QED BY <1>1, <1>2 DEF Inv, EventsInv, LowInv, ViewInv

\* The consumers of events.
LEMMA ConsumeStep ==
  ASSUME Inv, Consume \/ ConsumeStale \/ Lag
  PROVE  Inv' /\ Grows(view, view')
<1>0. /\ view \in View /\ ViewOK(view) /\ view.seen <= log.low /\ log.low \in Nat
      /\ EventsOK(wire, log.low) /\ EventsOK(stale, log.low)
      /\ LinkType /\ answer.low <= log.low
  BY DEF Inv, NodeInv, NodeType, ViewInv, LowInv, EventsInv
<1>1. CASE Consume
  <2>1. Head(wire) \in Event /\ EventOK(Head(wire), log.low) /\ EventsOK(Tail(wire), log.low)
    BY <1>0, <1>1, TakenOK DEF Consume
  <2>2. view' = Note(view, Head(wire)) /\ wire' = Tail(wire)
        /\ UNCHANGED <<node, up, stale, lagged, faults, sync, answer>>
    BY <1>1 DEF Consume
  <2>3. view' \in View /\ ViewOK(view') /\ Grows(view, view') /\ view'.seen <= log.low
    BY <1>0, <2>1, <2>2, NoteOK
  <2>4. LinkType'
    BY <1>0, <2>2 DEF LinkType
  <2> QED BY <1>0, <2>1, <2>2, <2>3, <2>4, PlaneFrame
<1>2. CASE ConsumeStale
  <2>1. Head(stale) \in Event /\ EventOK(Head(stale), log.low) /\ EventsOK(Tail(stale), log.low)
    BY <1>0, <1>2, TakenOK DEF ConsumeStale
  <2>2. view' = Note(view, Head(stale)) /\ stale' = Tail(stale)
        /\ UNCHANGED <<node, up, wire, lagged, faults, sync, answer>>
    BY <1>2 DEF ConsumeStale
  <2>3. view' \in View /\ ViewOK(view') /\ Grows(view, view') /\ view'.seen <= log.low
    BY <1>0, <2>1, <2>2, NoteOK
  <2>4. LinkType'
    BY <1>0, <2>2 DEF LinkType
  <2> QED BY <1>0, <2>1, <2>2, <2>3, <2>4, PlaneFrame
<1>3. CASE Lag
  <2>1. wire # <<>> /\ wire' = Tail(wire) /\ lagged' = TRUE /\ faults < MaxFaults
        /\ faults' = faults + 1 /\ UNCHANGED <<node, up, stale, sync, answer, view>>
    <3>1. Len(wire) > Capacity /\ Capacity \in Nat
      BY <1>3, NodeReplicaAssumption DEF Lag
    <3> QED BY <1>3, <3>1 DEF Lag, plane
  <2>2. EventsOK(wire', log.low)
    BY <1>0, <2>1, TakenOK
  <2>3. LinkType'
    BY <1>0, <2>1, NodeReplicaAssumption DEF LinkType
  <2>4. Inv'
    BY <1>0, <2>1, <2>2, <2>3, PlaneFrame
  <2> QED BY <2>1, <2>4 DEF Grows
<1> QED BY <1>1, <1>2, <1>3

\* The reconciliation: what is pulled is a batch, and the snapshot's watermark is true.
LEMMA ReconcileStep ==
  ASSUME Inv, Pull \/ PullFails \/ Snapshot \/ SnapshotFails \/ NoteSnapshot
  PROVE  Inv' /\ Grows(view, view')
<1>0. /\ view \in View /\ ViewOK(view) /\ view.seen <= log.low /\ view.seen \in Nat /\ view.cursor \in Nat
      /\ EventsOK(wire, log.low) /\ EventsOK(stale, log.low)
      /\ log \in [entries : SUBSET Entry, next : Nat \ {0}, low : Nat] /\ LogInv
      /\ LinkType /\ answer.low <= log.low /\ answer \in [last : Nat, low : Nat]
      /\ MaxFaults \in Nat
  BY NodeReplicaAssumption DEF Inv, NodeInv, NodeType, ViewInv, View, LowInv, EventsInv, LinkType
<1>1. CASE Pull
  <2>1. view' = NoteBatch(view, Pulled) /\ sync' = "ask" /\ lagged' = FALSE
        /\ UNCHANGED <<node, up, wire, stale, faults, answer>>
    BY <1>1 DEF Pull
  <2>2. Pulled \in Batch
    <3>1. {e \in log.entries : e.seq > view.cursor} \in SUBSET Entry
          /\ log.next - 1 \in Nat /\ view.cursor + 1 \in Nat
      BY <1>0
    <3> QED BY <3>1 DEF Pulled, Batch
  <2>3. BatchOK(Pulled)
    BY <1>0 DEF Pulled, BatchOK, LogInv, Functional, Entry
  <2>4. view' \in View /\ ViewOK(view') /\ Grows(view, view') /\ view'.seen <= log.low
    BY <1>0, <2>1, <2>2, <2>3, NoteBatchOK
  <2>5. LinkType'
    BY <1>0, <2>1 DEF LinkType
  <2> QED BY <1>0, <2>1, <2>4, <2>5, PlaneFrame
<1>2. CASE PullFails \/ SnapshotFails
  <2>1. UNCHANGED <<node, up, wire, stale, lagged, answer, view>> /\ sync' \in {"ask", "failed"}
        /\ faults' \in 0..MaxFaults
    BY <1>0, <1>2 DEF PullFails, SnapshotFails, LinkType, link
  <2>2. LinkType'
    BY <1>0, <2>1 DEF LinkType
  <2>3. Inv'
    BY <1>0, <2>1, <2>2, PlaneFrame
  <2> QED BY <2>1, <2>3 DEF Grows
<1>3. CASE Snapshot
  <2>1. UNCHANGED <<node, up, wire, stale, lagged, faults, view>> /\ sync' = "note"
        /\ answer' = [last |-> log.next - 1, low |-> log.low]
    BY <1>3 DEF Snapshot, link
  <2>2. answer' \in [last : Nat, low : Nat] /\ answer'.low <= log.low
    BY <1>0, <2>1
  <2>3. LinkType'
    BY <1>0, <2>1, <2>2 DEF LinkType
  <2>4. Inv'
    BY <1>0, <2>1, <2>2, <2>3, PlaneFrame
  <2> QED BY <2>1, <2>4 DEF Grows
<1>4. CASE NoteSnapshot
  <2> DEFINE w == NoteReclaimed(view, answer.low)
             cursor == Max2(w.cursor, answer.last)
  <2>1. view' = [w EXCEPT !.cursor = cursor] /\ sync' = "done" /\ answer' = NoAnswer
        /\ UNCHANGED <<node, up, wire, stale, lagged, faults>>
    BY <1>4 DEF NoteSnapshot, link
  <2>2. w \in View /\ ViewOK(w) /\ w.held = view.held /\ w.seen = Max2(view.seen, answer.low)
        /\ w.cursor = view.cursor
    BY <1>0, NoteReclaimedOK
  <2>3. cursor \in Nat /\ w.cursor <= cursor
    BY <1>0, <2>2 DEF Max2
  <2> HIDE DEF w, cursor
  <2>4. view' \in View /\ view'.held = w.held /\ view'.cursor = cursor /\ view'.seen = w.seen
        /\ view'.gaps = w.gaps /\ view'.lost = w.lost
    BY <2>1, <2>2, <2>3 DEF View
  <2>5. ViewOK(view')
    <3>1. w.cursor \in Nat /\ w.held \in SUBSET Entry /\ w.gaps \in SUBSET Nat /\ w.lost \in SUBSET Nat
      BY <2>2 DEF View
    <3> QED BY <2>2, <2>3, <2>4, <3>1 DEF ViewOK, Entry
  <2>6. view'.seen <= log.low
    BY <1>0, <2>2, <2>4 DEF Max2
  <2>7. NoAnswer \in [last : Nat, low : Nat] /\ NoAnswer.low <= log.low
    BY <1>0 DEF NoAnswer
  <2>8. LinkType'
    BY <1>0, <2>1, <2>7 DEF LinkType
  <2>9. Inv'
    BY <1>0, <2>1, <2>4, <2>5, <2>6, <2>7, <2>8, PlaneFrame
  <2> QED BY <2>2, <2>4, <2>9 DEF Grows
<1> QED BY <1>1, <1>2, <1>3, <1>4

\* Losing the link keeps a part of what was on its way.
LEMMA LoseOK ==
  ASSUME NEW low, EventsOK(wire, low), EventsOK(stale, low), NEW k \in 0..Len(wire), Lose(k)
  PROVE  EventsOK(wire', low) /\ EventsOK(stale', low)
BY PrefixOK, ConcatOK, EmptyOK DEF Lose

\* The link comes and goes, and either side restarts.
LEMMA LinkStep ==
  ASSUME Inv, LinkNext
  PROVE  Inv' /\ Grows(view, view')
<1>0. /\ view \in View /\ ViewOK(view) /\ view.seen <= log.low
      /\ EventsOK(outbox, log.low) /\ EventsOK(wire, log.low) /\ EventsOK(stale, log.low)
      /\ log \in [entries : SUBSET Entry, next : Nat \ {0}, low : Nat]
      /\ NodeInv /\ LinkType /\ answer.low <= log.low /\ MaxFaults \in Nat
  BY NodeReplicaAssumption DEF Inv, NodeInv, NodeType, ViewInv, LowInv, EventsInv
<1>1. CASE LoseLink
  <2>1. PICK k \in 0..Len(wire) : Lose(k)
    BY <1>1 DEF LoseLink
  <2>2. UNCHANGED <<node, lagged, sync, answer, view>> /\ up' = FALSE
        /\ faults < MaxFaults /\ faults' = faults + 1
    BY <1>1 DEF LoseLink, Lose, plane
  <2>3. EventsOK(wire', log.low) /\ EventsOK(stale', log.low)
    BY <1>0, <2>1, LoseOK
  <2>4. faults' \in 0..MaxFaults
    BY <1>0, <2>2 DEF LinkType
  <2>5. LinkType'
    BY <1>0, <2>2, <2>4, Zenon DEF LinkType
  <2>6. Inv'
    BY <1>0, <2>2, <2>3, <2>5, PlaneFrame
  <2> QED BY <2>2, <2>6 DEF Grows
<1>2. CASE Connect
  <2>1. UNCHANGED <<node, wire, stale, lagged, faults, answer, view>> /\ up' = TRUE /\ sync' = "pull"
    BY <1>2 DEF Connect
  <2>2. LinkType'
    BY <1>0, <2>1 DEF LinkType
  <2>3. Inv'
    BY <1>0, <2>1, <2>2, PlaneFrame
  <2> QED BY <2>1, <2>3 DEF Grows
<1>3. CASE CrashNode
  <2>1. PICK k \in 0..Len(wire) : Lose(k)
    BY <1>3 DEF CrashNode
  <2>2. PICK low \in Watermarks : RestartNode(low)
    BY <1>3 DEF CrashNode
  <2>3. /\ UNCHANGED <<appended, asked, lagged, sync, answer, view>> /\ up' = FALSE
        /\ faults < MaxFaults /\ faults' = faults + 1
        /\ log' = [log EXCEPT !.next = Reopened, !.low = low] /\ live' = FALSE /\ parked' = {}
        /\ pending' = NoBatch /\ outbox' = <<>>
    BY <1>3, <2>1, <2>2 DEF CrashNode, RestartNode, Lose, plane
  <2>4. Reopened \in Nat \ {0} /\ low \in Nat /\ log.low <= low /\ log.low \in Nat
    BY <1>0 DEF Reopened, Watermarks, Numbers, Entry
  <2>5. log' \in [entries : SUBSET Entry, next : Nat \ {0}, low : Nat]
        /\ log'.entries = log.entries /\ log'.next = Reopened /\ log'.low = low
    BY <1>0, <2>3, <2>4
  <2>6. LogInv'
    BY <1>0, <2>5 DEF NodeInv, LogInv, Functional, Reopened
  <2>7. NoBatch \in Batch /\ BatchOK(NoBatch) /\ NoBatch.last = 0
    BY DEF NoBatch, Batch, BatchOK, Functional
  <2>8. NodeInv'
    <3>1. PendingInv' /\ pending' \in Batch
      BY <2>3, <2>4, <2>5, <2>7 DEF PendingInv
    <3>2. appended' \in Nat /\ live' \in BOOLEAN /\ asked' \in Nat /\ parked' \in SUBSET Nat
      BY <1>0, <2>3, Zenon DEF NodeInv, NodeType
    <3> QED BY <2>5, <2>6, <3>1, <3>2 DEF NodeInv, NodeType
  <2>9. EventsInv'
    <3>1. EventsOK(wire, low) /\ EventsOK(stale, low)
      BY <1>0, <2>4, LowerOK
    <3> QED BY <2>1, <2>3, <2>5, <3>1, LoseOK, EmptyOK DEF EventsInv
  <2>10. ViewInv' /\ Grows(view, view')
    BY <1>0, <2>3 DEF ViewInv, Grows
  <2>11. LowInv'
    <3>1. answer.low \in Nat /\ view.seen \in Nat
      BY <1>0 DEF LinkType, View
    <3> QED BY <1>0, <2>3, <2>4, <2>5, <3>1 DEF LowInv
  <2>12. faults' \in 0..MaxFaults
    BY <1>0, <2>3 DEF LinkType
  <2>13. LinkType'
    BY <1>0, <2>3, <2>12, Zenon DEF LinkType
  <2> QED BY <2>8, <2>9, <2>10, <2>11, <2>13 DEF Inv
<1>4. CASE CrashPlane
  <2>1. UNCHANGED node /\ faults < MaxFaults /\ faults' = faults + 1 /\ up' = FALSE
        /\ wire' = <<>> /\ stale' = <<>> /\ lagged' = FALSE /\ sync' = "failed"
        /\ answer' = NoAnswer /\ view' = NewView
    BY <1>4 DEF CrashPlane
  <2>2. /\ NewView \in View /\ ViewOK(NewView) /\ NewView.seen <= log.low
        /\ NoAnswer \in [last : Nat, low : Nat] /\ NoAnswer.low <= log.low
    BY <1>0 DEF NewView, View, ViewOK, Functional, NoAnswer
  <2>3. faults' \in 0..MaxFaults
    BY <1>0, <2>1 DEF LinkType
  <2>4. LinkType'
    BY <2>1, <2>2, <2>3, Zenon DEF LinkType
  <2>5. Inv'
    BY <1>0, <2>1, <2>2, <2>4, EmptyOK, PlaneFrame
  <2> QED BY <2>1, <2>5 DEF Grows, NewView
<1> QED BY <1>1, <1>2, <1>3, <1>4 DEF LinkNext

-----------------------------------------------------------------------------
(* The theorems *)

LEMMA InitInv == Init => Inv
<1> SUFFICES ASSUME Init PROVE Inv
  OBVIOUS
<1>1. log = [entries |-> {[seq |-> i, id |-> i] : i \in 1..2}, next |-> 3, low |-> 0]
      /\ answer = NoAnswer /\ view = NewView /\ pending = NoBatch
      /\ outbox = <<>> /\ wire = <<>> /\ stale = <<>>
  BY DEF Init
<1>2. NodeType
  BY DEF Init, NodeType, Entry, NoBatch, Batch
<1>3. LogInv
  BY <1>1 DEF LogInv, Functional
<1>4. PendingInv
  BY <1>1 DEF PendingInv, NoBatch, BatchOK, Functional
<1>5. LinkType
  <2>1. 0 \in 0..MaxFaults /\ NoAnswer \in [last : Nat, low : Nat]
    BY NodeReplicaAssumption DEF NoAnswer
  <2> QED BY <2>1, Zenon DEF Init, LinkType
<1>6. EventsInv
  BY <1>1, EmptyOK DEF EventsInv
<1>7. LowInv /\ ViewInv
  BY <1>1 DEF LowInv, ViewInv, NoAnswer, NewView, View, ViewOK, Functional
<1> QED BY <1>2, <1>3, <1>4, <1>5, <1>6, <1>7 DEF Inv, NodeInv

LEMMA NextInv == Inv /\ [Next]_vars => Inv' /\ Grows(view, view')
<1> SUFFICES ASSUME Inv, [Next]_vars PROVE Inv' /\ Grows(view, view')
  OBVIOUS
<1>1. CASE UNCHANGED vars
  BY <1>1 DEF vars, node, link, plane, Inv, NodeInv, NodeType, LinkType, LogInv, PendingInv,
              EventsInv, LowInv, ViewInv, Grows
<1>2. CASE \E n \in 0..MaxEntries :
             \/ Record(n) \/ RecordAsk(n) \/ RecordDeath(n)
             \/ \E told \in BOOLEAN : RecordAllow(n, told) \/ RecordFails(n, told)
  <2>1. PICK n \in 0..MaxEntries :
             \/ Record(n) \/ RecordAsk(n) \/ RecordDeath(n)
             \/ \E told \in BOOLEAN : RecordAllow(n, told) \/ RecordFails(n, told)
    BY <1>2
  <2>2. PICK told \in BOOLEAN :
             \/ Record(n) \/ RecordAsk(n) \/ RecordDeath(n)
             \/ RecordAllow(n, told) \/ RecordFails(n, told)
    BY <2>1
  <2>3. n \in Nat
    OBVIOUS
  <2> QED BY <2>2, <2>3, RecordStep
<1>3. CASE \/ SetModeAuto \/ Close
           \/ \E r \in 1..MaxReqs : AnswerLate(r) \/ \E told \in BOOLEAN : Answer(r, told)
  <2>1. PICK r \in Nat, told \in BOOLEAN : SetModeAuto \/ AnswerLate(r) \/ Answer(r, told) \/ Close
    BY <1>3, 1..MaxReqs \subseteq Nat
  <2> QED BY <2>1, OperationStep
<1>4. CASE Sweep
  BY <1>4, SweepStep
<1>5. CASE \E due \in BOOLEAN : Drain(due)
  BY <1>5, DrainStep
<1>6. CASE PlaneNext
  BY <1>6, ConsumeStep, ReconcileStep DEF PlaneNext
<1>7. CASE LinkNext
  BY <1>7, LinkStep
<1> QED BY <1>1, <1>2, <1>3, <1>4, <1>5, <1>6, <1>7 DEF Next, NodeNext

\* The invariant says what the properties say.
LEMMA InvGives == Inv => TypeOK /\ ShownOnce /\ WatermarkIsTrue
<1> SUFFICES ASSUME Inv PROVE TypeOK /\ ShownOnce /\ WatermarkIsTrue
  OBVIOUS
<1>1. outbox \in Seq(Event) /\ wire \in Seq(Event) /\ stale \in Seq(Event)
  BY DEF Inv, EventsInv, EventsOK
<1>2. TypeOK
  BY <1>1 DEF Inv, NodeInv, NodeType, LinkType, ViewInv, View, TypeOK
<1>3. ShownOnce
  BY DEF Inv, ViewInv, ViewOK, Functional, ShownOnce, Numbers
<1>4. WatermarkIsTrue
  BY DEF Inv, LowInv, WatermarkIsTrue
<1> QED BY <1>2, <1>3, <1>4

LEMMA AlwaysInv == Spec => []Inv
BY InitInv, NextInv, PTL DEF Spec

\* Every reachable state is well typed.
THEOREM TypeCorrect == Spec => []TypeOK
BY AlwaysInv, InvGives, PTL

\* A number of the history is shown once, and is not at the same time reported missing
\* (RemoteSession::note_batch).
THEOREM NumbersShownOnce == Spec => []ShownOnce
BY AlwaysInv, InvGives, PTL

\* The history only grows at its end (RemoteSession::note_batch).
THEOREM HistoryGrowsAtEnd == Spec => GrowsAtEnd
<1>1. Inv /\ [Next]_vars =>
        [\A e \in view'.held \ view.held, f \in view.held : f.seq < e.seq]_vars
  BY NextInv DEF Grows
<1> QED BY <1>1, AlwaysInv, PTL DEF Spec, GrowsAtEnd

\* The control plane never takes for reclaimed what the node has not reclaimed
\* (RemoteSession::note_reclaimed, SessionLog::open).
THEOREM WatermarksTrue == Spec => []WatermarkIsTrue
BY AlwaysInv, InvGives, PTL

-----------------------------------------------------------------------------
(* What is on its way *)

\* The batches that are gathered, or sent and not yet consumed.
IsBatch(ev) == ev.kind = "batch"
Underway == {pending} \cup {wire[i].batch : i \in {j \in DOMAIN wire : IsBatch(wire[j])}}

\* Number s is beyond the cursor and will be accounted for: it is in a batch, or lies
\* before one and within none, so that a gap is seen.
Inside(s, b)  == b.from <= s /\ s <= b.last
Between(s, b) == s < b.from /\ \A c \in Underway : ~Inside(s, c)
OnItsWay(s) ==
  s > view.cursor /\ \E b \in Underway : s \in Numbers(b.entries) \/ Between(s, b)

\* Request r is shown or an event that shows it is waiting or on its way.
On(q, ev)      == \E i \in DOMAIN q : q[i] = ev
AskOnItsWay(r) ==
  \/ On(outbox, Asked(r)) \/ On(wire, Asked(r)) \/ On(stale, Asked(r))
  \/ r \in view.parked

\* Batches are not empty and go out in the order of their numbers.
Ahead(b, c) == b.last < c.from
OrderInv ==
  /\ pending = NoBatch \/ pending.entries # {}
  /\ \A i \in DOMAIN outbox : ~IsBatch(outbox[i])
  /\ \A i \in DOMAIN wire : IsBatch(wire[i]) =>
       /\ wire[i].batch.entries # {} /\ wire[i].batch.last < log.next
       /\ pending # NoBatch => Ahead(wire[i].batch, pending)
       /\ \A j \in DOMAIN wire :
            i < j /\ IsBatch(wire[j]) => Ahead(wire[i].batch, wire[j].batch)

\* An event on its way speaks of a request that was made, and of one that is settled
\* when it says so.
ReqFine(ev, made, waiting) ==
  /\ ev.kind \in {"asked", "resolved"} => ev.req <= made
  /\ ev.kind = "resolved" => ev.req \notin waiting
ReqOK(ev)  == ReqFine(ev, asked, parked)
ReqsOK(q) == \A i \in DOMAIN q : ReqOK(q[i])
ReqInv ==
  /\ \A r \in parked : r <= asked
  /\ ReqsOK(outbox) /\ ReqsOK(wire) /\ ReqsOK(stale)
  /\ faults = 0 => \A r \in parked : AskOnItsWay(r)

\* The link is steady and nothing of a lost one is left to be consumed.
Quiet == Steady /\ stale = <<>>

\* What is on its way on a quiet link stays so until it is shown or reported missing.
EntriesStay ==
  [][Quiet /\ Quiet' => \A s \in Nat : OnItsWay(s) => OnItsWay(s)' \/ Known(s)']_vars
\* What is shown or reported missing is not forgotten while the control plane runs.
KnownStays == [][view' # NewView => \A s \in Nat : Known(s) => Known(s)']_vars
\* Only a fault takes a request off its way while the agent waits for it ...
AsksStay == [][faults' = faults => \A r \in parked' : AskOnItsWay(r) => AskOnItsWay(r)']_vars
\* ... and without one every request the agent waits for is on its way or shown.
AsksComeThrough == faults = 0 => \A r \in parked : AskOnItsWay(r)

-----------------------------------------------------------------------------
(* The order of the batches *)

\* What is enqueued makes a batch that starts no earlier than the one before it, and at
\* or before which each of that one's entries is kept or lies.
LEMMA EnqueueMoves ==
  ASSUME Inv, OrderInv, NEW n \in Nat, Enqueue(n)
  PROVE  /\ pending' \in Batch /\ pending'.entries # {} /\ pending'.last < log.next + n
         /\ log.next <= pending'.from \/ (pending # NoBatch /\ pending.from <= pending'.from)
         /\ pending # NoBatch => pending.from <= pending'.from
         /\ \A e \in pending.entries : e \in pending'.entries \/ e.seq < pending'.from
<1>1. /\ log.next \in Nat /\ pending \in Batch /\ BatchOK(pending) /\ pending.last < log.next
      /\ pending.from \in Nat /\ pending.last \in Nat /\ pending.entries \in SUBSET Entry
      /\ pending # NoBatch => pending.entries # {}
  BY DEF Inv, NodeInv, NodeType, PendingInv, OrderInv, Batch
<1>2. pending' \in Batch /\ pending'.last < log.next + n
  BY EnqueueOK DEF Inv
<1>3. PICK cut \in Numbers(Joined(n)) :
        pending' = [from |-> cut, last |-> log.next + n - 1, entries |-> Kept(n, cut)]
  BY DEF Enqueue
<1>4. PICK e \in Joined(n) : cut = e.seq
  BY <1>3 DEF Numbers
<1>5. \A f \in Fresh(n) : f.seq \in Nat /\ log.next <= f.seq
  BY <1>1 DEF Fresh
<1>6. \A f \in pending.entries : f.seq \in Nat /\ pending.from <= f.seq /\ f.seq <= pending.last
  BY <1>1 DEF BatchOK, Entry
<1>7. cut \in Nat /\ (log.next <= cut \/ (pending.entries # {} /\ pending.from <= cut))
  BY <1>4, <1>5, <1>6 DEF Joined
<1>8. pending'.entries # {} /\ pending'.from = cut
  BY <1>3, <1>4, <1>7 DEF Kept
<1>9. pending # NoBatch => pending.from <= cut
  BY <1>1, <1>6, <1>7
<1>10. pending.entries # {} => pending # NoBatch
  BY DEF NoBatch
<1>11. \A f \in pending.entries : f \in pending'.entries \/ f.seq < cut
  BY <1>3, <1>6, <1>7 DEF Kept, Joined
<1> QED BY <1>2, <1>7, <1>8, <1>9, <1>10, <1>11

\* A step of the node that sends nothing keeps the order.
LEMMA NodeOrder ==
  ASSUME Inv, OrderInv, wire' = wire, log'.next \in Nat, log.next <= log'.next,
         outbox' = outbox \/ \E ev \in Event : ~IsBatch(ev) /\ Tell(ev),
         pending' = pending \/ pending' = NoBatch \/ \E n \in Nat : Enqueue(n)
  PROVE  OrderInv'
<1>1. /\ log.next \in Nat /\ pending \in Batch /\ pending.from \in Nat
      /\ outbox \in Seq(Event) /\ wire \in Seq(Event)
  BY DEF Inv, NodeInv, NodeType, EventsInv, EventsOK, Batch
<1>2. \A i \in DOMAIN wire : IsBatch(wire[i]) => wire[i].batch.last \in Nat
  BY <1>1 DEF Event, Batch, IsBatch
<1>3. \A i \in DOMAIN outbox' : ~IsBatch(outbox'[i])
  <2>1. CASE \E ev \in Event : ~IsBatch(ev) /\ Tell(ev)
    <3>1. PICK ev \in Event : ~IsBatch(ev) /\ outbox' = Append(outbox, ev)
      BY <2>1 DEF Tell
    <3>2. \A i \in DOMAIN outbox' : \/ i \in DOMAIN outbox /\ outbox'[i] = outbox[i]
                                    \/ outbox'[i] = ev
      BY <1>1, <3>1
    <3> QED BY <3>1, <3>2 DEF OrderInv
  <2> QED BY <2>1 DEF OrderInv
<1>4. pending' = NoBatch \/ pending'.entries # {}
  BY EnqueueMoves DEF OrderInv
<1>5. ASSUME NEW i \in DOMAIN wire, IsBatch(wire[i]), pending' # NoBatch
      PROVE  Ahead(wire[i].batch, pending')
  <2>1. CASE pending' = pending
    BY <1>5, <2>1 DEF OrderInv
  <2>2. CASE \E n \in Nat : Enqueue(n)
    <3>1. /\ pending' \in Batch
          /\ log.next <= pending'.from \/ (pending # NoBatch /\ pending.from <= pending'.from)
      BY <2>2, EnqueueMoves
    <3>2. /\ wire[i].batch.last < log.next
          /\ pending # NoBatch => wire[i].batch.last < pending.from
      BY <1>5 DEF OrderInv, Ahead
    <3> QED BY <1>1, <1>2, <1>5, <3>1, <3>2 DEF Ahead, Batch
  <2> QED BY <1>5, <2>1, <2>2
<1>6. \A i \in DOMAIN wire : IsBatch(wire[i]) => wire[i].batch.last < log'.next
  BY <1>1, <1>2 DEF OrderInv
<1> QED BY <1>3, <1>4, <1>5, <1>6 DEF OrderInv

\* Nothing on the wire is in order.
LEMMA LostOrder ==
  ASSUME OrderInv, wire' = <<>>, outbox' \in {outbox, <<>>}, pending' \in {pending, NoBatch}
  PROVE  OrderInv'
BY DEF OrderInv

\* What is sent comes after what was sent before.
LEMMA DrainOrder ==
  ASSUME Inv, OrderInv, NEW due \in BOOLEAN, Drain(due)
  PROVE  OrderInv'
<1>1. /\ wire \in Seq(Event) /\ outbox \in Seq(Event) /\ pending \in Batch
      /\ log.next \in Nat /\ pending.last < log.next
  BY DEF Inv, NodeInv, NodeType, PendingInv, EventsInv, EventsOK
<1> DEFINE last == IF due THEN <<Batched(pending)>> ELSE <<>>
<1>2. /\ wire' = wire \o outbox \o last /\ outbox' = <<>> /\ log' = log
      /\ pending' = (IF due THEN NoBatch ELSE pending) /\ (due => pending # NoBatch)
  BY DEF Drain
<1>3. last \in Seq(Event)
  <2>1. Batched(pending) \in Event
    BY <1>1 DEF Batched, Event
  <2> QED BY <2>1
<1> DEFINE n == Len(wire)
           m == Len(wire) + Len(outbox)
<1>4. n \in Nat /\ m \in Nat /\ n <= m
  BY <1>1
<1>5. ASSUME NEW i \in DOMAIN wire', IsBatch(wire'[i])
      PROVE  \/ i \in DOMAIN wire /\ wire'[i] = wire[i]
             \/ due /\ i = m + 1 /\ wire'[i].batch = pending
  <2> HIDE DEF last
  <2>1. \/ i \in DOMAIN wire /\ wire'[i] = wire[i]
        \/ i - n \in DOMAIN outbox /\ wire'[i] = outbox[i - n]
        \/ i - m \in DOMAIN last /\ wire'[i] = last[i - m]
    BY <1>1, <1>2, <1>3
  <2>2. ~(i - n \in DOMAIN outbox /\ wire'[i] = outbox[i - n])
    BY <1>5 DEF OrderInv
  <2>3. i \in Nat
    BY <1>1, <1>2, <1>3
  <2>4. CASE i - m \in DOMAIN last /\ wire'[i] = last[i - m]
    <3>1. due /\ i - m = 1 /\ last[i - m] = Batched(pending)
      BY <2>4 DEF last
    <3> QED BY <1>4, <2>3, <2>4, <3>1 DEF Batched
  <2> QED BY <2>1, <2>2, <2>4
<1>6. DOMAIN wire = 1..n
  BY <1>1
<1> HIDE DEF last, n, m
<1>7. \A i \in DOMAIN wire' : IsBatch(wire'[i]) =>
        wire'[i].batch.entries # {} /\ wire'[i].batch.last < log.next
  BY <1>1, <1>2, <1>5 DEF OrderInv
<1>8. \A i \in DOMAIN wire' : IsBatch(wire'[i]) /\ pending' # NoBatch =>
        Ahead(wire'[i].batch, pending')
  BY <1>2, <1>5 DEF OrderInv
<1>9. ASSUME NEW i \in DOMAIN wire', NEW j \in DOMAIN wire', i < j,
             IsBatch(wire'[i]), IsBatch(wire'[j])
      PROVE  Ahead(wire'[i].batch, wire'[j].batch)
  <2>1. i \in DOMAIN wire /\ wire'[i] = wire[i]
    <3>1. ~(i = m + 1)
      <4>1. j \in DOMAIN wire \/ j = m + 1
        BY <1>5, <1>9
      <4> QED BY <1>4, <1>6, <1>9, <4>1
    <3> QED BY <1>5, <1>9, <3>1
  <2>2. CASE j \in DOMAIN wire /\ wire'[j] = wire[j]
    BY <1>9, <2>1, <2>2 DEF OrderInv
  <2>3. CASE due /\ wire'[j].batch = pending
    BY <1>2, <1>9, <2>1, <2>3 DEF OrderInv
  <2> QED BY <1>5, <1>9, <2>2, <2>3
<1>10. pending' = NoBatch \/ pending'.entries # {}
  BY <1>2 DEF OrderInv
<1>11. \A i \in DOMAIN outbox' : ~IsBatch(outbox'[i])
  BY <1>2
<1> QED BY <1>2, <1>7, <1>8, <1>9, <1>10, <1>11 DEF OrderInv

\* Taking the first event off the wire keeps the order of the rest.
LEMMA TakenOrder ==
  ASSUME Inv, OrderInv, wire # <<>>, wire' = Tail(wire), UNCHANGED node
  PROVE  OrderInv'
<1>1. wire \in Seq(Event)
  BY DEF Inv, EventsInv, EventsOK
<1>2. \A i \in DOMAIN wire' : i \in Int /\ i + 1 \in DOMAIN wire /\ wire'[i] = wire[i + 1]
  BY <1>1
<1>3. UNCHANGED <<log, pending, outbox>>
  BY DEF node
<1>4. \A i \in DOMAIN wire' : IsBatch(wire'[i]) =>
       /\ wire'[i].batch.entries # {} /\ wire'[i].batch.last < log.next
       /\ pending # NoBatch => Ahead(wire'[i].batch, pending)
  BY <1>2 DEF OrderInv
<1>5. ASSUME NEW i \in DOMAIN wire', NEW j \in DOMAIN wire', i < j,
             IsBatch(wire'[i]), IsBatch(wire'[j])
      PROVE  Ahead(wire'[i].batch, wire'[j].batch)
  <2>1. /\ i + 1 \in DOMAIN wire /\ j + 1 \in DOMAIN wire /\ i + 1 < j + 1
        /\ wire'[i] = wire[i + 1] /\ wire'[j] = wire[j + 1]
    BY <1>2, <1>5
  <2> QED BY <1>5, <2>1 DEF OrderInv
<1> QED BY <1>3, <1>4, <1>5 DEF OrderInv

LEMMA NextOrder == Inv /\ OrderInv /\ [Next]_vars => OrderInv'
<1> SUFFICES ASSUME Inv, OrderInv, [Next]_vars PROVE OrderInv'
  OBVIOUS
<1>0. NodeInv /\ log.next \in Nat /\ asked \in Nat /\ log.entries \in SUBSET Entry
  BY DEF Inv, NodeInv, NodeType
<1>1. \A r \in Nat : Asked(r) \in Event /\ ~IsBatch(Asked(r)) /\ Resolved(r) \in Event
                      /\ ~IsBatch(Resolved(r)) /\ Reclaimed(r) \in Event /\ ~IsBatch(Reclaimed(r))
  BY DEF Asked, Resolved, Reclaimed, Event, IsBatch
<1>2. CASE \E n \in 0..MaxEntries :
             \/ Record(n) \/ RecordAsk(n) \/ RecordDeath(n)
             \/ \E told \in BOOLEAN : RecordAllow(n, told) \/ RecordFails(n, told)
  <2>1. PICK n \in 0..MaxEntries, told \in BOOLEAN :
             \/ Record(n) \/ RecordAsk(n) \/ RecordDeath(n)
             \/ RecordAllow(n, told) \/ RecordFails(n, told)
    BY <1>2
  <2>2. /\ n \in Nat /\ n + 1 \in Nat /\ n + 2 \in Nat /\ asked + 1 \in Nat
    BY <1>0
  <2>3. \E k \in Nat : Extend(k)
    BY <2>1, <2>2 DEF Record, RecordAsk, RecordDeath, RecordAllow, RecordFails
  <2>4. log'.next \in Nat /\ log.next <= log'.next
    BY <1>0, <2>3, ExtendOK
  <2>5. wire' = wire
    BY <2>1 DEF Record, RecordAsk, RecordDeath, RecordAllow, RecordFails, link
  <2>6. pending' = pending \/ \E k \in Nat : Enqueue(k)
    BY <2>1, <2>2 DEF Record, RecordAsk, RecordDeath, RecordAllow, RecordFails
  <2>7. outbox' = outbox \/ \E ev \in Event : ~IsBatch(ev) /\ Tell(ev)
    BY <1>1, <2>1, <2>2 DEF Record, RecordAsk, RecordDeath, RecordAllow, RecordFails
  <2> QED BY <2>4, <2>5, <2>6, <2>7, NodeOrder
<1>3. CASE \/ SetModeAuto \/ Close
           \/ \E r \in 1..MaxReqs : AnswerLate(r) \/ \E told \in BOOLEAN : Answer(r, told)
  <2>1. PICK r \in Nat, told \in BOOLEAN : SetModeAuto \/ AnswerLate(r) \/ Answer(r, told) \/ Close
    BY <1>3, 1..MaxReqs \subseteq Nat
  <2>2. Extend(1) \/ log' = log
    BY <2>1 DEF SetModeAuto, AnswerLate, Answer, Close
  <2>3. log'.next \in Nat /\ log.next <= log'.next
    BY <1>0, <2>2, ExtendOK
  <2>4. wire' = wire /\ (pending' = pending \/ pending' = NoBatch)
    BY <2>1 DEF SetModeAuto, AnswerLate, Answer, Close, link
  <2>5. outbox' = outbox \/ Tell(Resolved(r))
    BY <2>1 DEF SetModeAuto, AnswerLate, Answer, Close
  <2> QED BY <1>1, <2>3, <2>4, <2>5, NodeOrder
<1>4. CASE Sweep
  <2>1. PICK n \in Numbers(log.entries) :
          /\ log' = IF n <= log.low THEN log
                    ELSE [log EXCEPT !.entries = {e \in @ : e.seq > n}, !.low = n]
          /\ Tell(Reclaimed(n))
    BY <1>4 DEF Sweep
  <2>2. n \in Nat
    BY <1>0 DEF Numbers, Entry
  <2>3. log'.next = log.next
    BY <1>0, <2>1 DEF NodeInv, NodeType
  <2>4. wire' = wire /\ pending' = pending
    BY <1>4 DEF Sweep, link
  <2> QED BY <1>0, <1>1, <2>1, <2>2, <2>3, <2>4, NodeOrder
<1>5. CASE \E due \in BOOLEAN : Drain(due)
  BY <1>5, DrainOrder
<1>6. CASE Consume \/ Lag
  <2>1. wire # <<>> /\ wire' = Tail(wire) /\ UNCHANGED node
    <3>1. CASE Lag
      <4>1. Len(wire) > Capacity /\ Capacity \in Nat
        BY <3>1, NodeReplicaAssumption DEF Lag
      <4> QED BY <3>1, <4>1 DEF Lag
    <3> QED BY <1>6, <3>1 DEF Consume
  <2> QED BY <2>1, TakenOrder
<1>7. CASE UNCHANGED vars \/ ConsumeStale \/ Pull \/ PullFails \/ Snapshot \/ SnapshotFails
           \/ NoteSnapshot \/ Connect
  <2>1. UNCHANGED <<log, pending, outbox, wire>>
    BY <1>7 DEF vars, node, link, ConsumeStale, Pull, PullFails, Snapshot, SnapshotFails,
                NoteSnapshot, Connect
  <2> QED BY <2>1 DEF OrderInv
<1>8. CASE LoseLink \/ CrashNode \/ CrashPlane
  <2>1. wire' = <<>> /\ outbox' \in {outbox, <<>>} /\ pending' \in {pending, NoBatch}
    BY <1>8 DEF LoseLink, CrashNode, CrashPlane, Lose, RestartNode, node
  <2> QED BY <2>1, LostOrder
<1> QED
  BY <1>2, <1>3, <1>4, <1>5, <1>6, <1>7, <1>8 DEF Next, NodeNext, PlaneNext, LinkNext

LEMMA AlwaysOrder == Spec => []OrderInv
<1>1. Init => OrderInv
  BY DEF Init, OrderInv
<1> QED BY <1>1, NextOrder, AlwaysInv, PTL DEF Spec

-----------------------------------------------------------------------------
(* What is accounted for *)

Accounted(v) == Numbers(v.held) \cup v.gaps \cup v.lost

\* A batch accounts for its numbers, and for those between the cursor and its start.
LEMMA NoteBatchAccounts ==
  ASSUME NEW v \in View, NEW b \in Batch
  PROVE  LET w == NoteBatch(v, b) IN
         /\ Accounted(v) \subseteq Accounted(w)
         /\ b.entries # {} =>
              /\ w.cursor = Max2(v.cursor, b.last)
              /\ Numbers(b.entries) \subseteq Accounted(w)
              /\ \A s \in Nat : v.cursor < s /\ s < b.from => s \in Accounted(w)
<1> DEFINE w == NoteBatch(v, b)
<1>1. CASE b.entries = {}
  BY <1>1 DEF NoteBatch
<1>2. CASE b.entries # {}
  <2> DEFINE N == News(v, b.entries)
             G == Gap(v, b)
             S == Numbers(Strays(v, b.entries))
  <2>1. v.cursor \in Nat /\ b.entries \in SUBSET Entry /\ b.from \in Nat
    BY DEF View, Batch
  <2>2. /\ w.held = v.held \cup N /\ w.cursor = Max2(v.cursor, b.last)
        /\ w.gaps = v.gaps \cup (IF Gone(v, b) THEN {} ELSE G)
        /\ w.lost = v.lost \cup S \cup (IF Gone(v, b) THEN G ELSE {})
    BY <1>2 DEF NoteBatch, View
  <2>3. \A s \in Nat : v.cursor < s /\ s < b.from => s \in G
    BY <2>1 DEF Gap
  <2> HIDE DEF w, G
  <2>4. G \subseteq w.gaps \cup w.lost /\ v.gaps \subseteq w.gaps /\ v.lost \subseteq w.lost
    BY <2>2
  <2>5. \A e \in b.entries : e.seq \in Accounted(w)
    <3> SUFFICES ASSUME NEW e \in b.entries PROVE e.seq \in Accounted(w)
      OBVIOUS
    <3>1. CASE Skipped(v, e)
      BY <2>2, <3>1 DEF Skipped, Accounted, Numbers
    <3>2. CASE e \in N
      BY <2>2, <3>2 DEF Accounted, Numbers
    <3>3. CASE e \in Strays(v, b.entries)
      BY <2>2, <3>3 DEF Accounted, Numbers
    <3> QED BY <2>1, <3>1, <3>2, <3>3 DEF News, Strays, Entry
  <2>6. Numbers(b.entries) \subseteq Accounted(w)
    BY <2>5 DEF Numbers
  <2>7. Numbers(v.held) \subseteq Numbers(w.held)
    BY <2>2 DEF Numbers
  <2> QED BY <2>2, <2>3, <2>4, <2>6, <2>7 DEF Accounted, w
<1> QED BY <1>1, <1>2

\* A watermark moves numbers from the gaps to what is lost.
LEMMA NoteReclaimedAccounts ==
  ASSUME NEW v \in View, NEW n \in Nat
  PROVE  Accounted(NoteReclaimed(v, n)) = Accounted(v)
<1> DEFINE w == NoteReclaimed(v, n)
           M == Max2(v.seen, n)
<1>1. w.held = v.held /\ w.gaps = {s \in v.gaps : s > M}
      /\ w.lost = v.lost \cup {s \in v.gaps : s <= M}
  BY DEF NoteReclaimed, View
<1>2. M \in Nat /\ v.gaps \in SUBSET Nat
  BY DEF Max2, View
<1> HIDE DEF w, M
<1>3. w.gaps \cup w.lost = v.gaps \cup v.lost
  BY <1>1, <1>2
<1> QED BY <1>1, <1>3 DEF Accounted, w

LEMMA NoteAccounts ==
  ASSUME NEW v \in View, NEW ev \in Event
  PROVE  Accounted(v) \subseteq Accounted(Note(v, ev))
<1>1. CASE ev.kind = "batch"
  BY <1>1, NoteBatchAccounts DEF Event, Note
<1>2. CASE ev.kind = "reclaimed"
  BY <1>2, NoteReclaimedAccounts DEF Event, Note
<1>3. CASE ev.kind \in {"asked", "resolved"}
  BY <1>3 DEF Note, View, Accounted
<1> QED BY <1>1, <1>2, <1>3 DEF Event

\* No step but the restart of the control plane forgets a number.
LEMMA KnownStep ==
  ASSUME Inv, [Next]_vars, view' # NewView
  PROVE  \A s \in Nat : Known(s) => Known(s)'
<1> SUFFICES Accounted(view) \subseteq Accounted(view')
  BY DEF Known, Accounted
<1>0. /\ view \in View /\ wire \in Seq(Event) /\ stale \in Seq(Event)
      /\ log \in [entries : SUBSET Entry, next : Nat \ {0}, low : Nat]
      /\ answer \in [last : Nat, low : Nat]
  BY DEF Inv, NodeInv, NodeType, ViewInv, EventsInv, EventsOK, LinkType
<1>1. CASE view' = view
  BY <1>1
<1>2. CASE Consume
  BY <1>0, <1>2, NoteAccounts DEF Consume
<1>3. CASE ConsumeStale
  BY <1>0, <1>3, NoteAccounts DEF ConsumeStale
<1>4. CASE Pull
  <2>1. view.cursor + 1 \in Nat /\ log.next - 1 \in Nat
        /\ {e \in log.entries : e.seq > view.cursor} \in SUBSET Entry
    BY <1>0 DEF View
  <2>2. Pulled \in Batch
    BY <2>1 DEF Pulled, Batch
  <2> QED BY <1>0, <1>4, <2>2, NoteBatchAccounts DEF Pull
<1>5. CASE NoteSnapshot
  <2> DEFINE w == NoteReclaimed(view, answer.low)
  <2>1. view' = [w EXCEPT !.cursor = Max2(@, answer.last)] /\ answer.low \in Nat
    BY <1>0, <1>5 DEF NoteSnapshot
  <2>2. Accounted(w) = Accounted(view)
    BY <1>0, <2>1, NoteReclaimedAccounts
  <2>3. view'.held = w.held /\ view'.gaps = w.gaps /\ view'.lost = w.lost
    BY <1>0, <2>1 DEF NoteReclaimed, View
  <2> QED BY <2>2, <2>3 DEF Accounted
<1>6. view' = view \/ Consume \/ ConsumeStale \/ Pull \/ NoteSnapshot
  BY DEF Next, NodeNext, PlaneNext, LinkNext, vars, plane, Record, RecordAsk, RecordAllow,
         RecordDeath, RecordFails, SetModeAuto, AnswerLate, Answer, Close, Sweep, Drain, Lag,
         PullFails, Snapshot, SnapshotFails, LoseLink, Connect, CrashNode, CrashPlane
<1> QED BY <1>1, <1>2, <1>3, <1>4, <1>5, <1>6

\* What is shown or reported missing stays so while the control plane runs
\* (RemoteSession: nothing is taken out of the history, the gaps or what is unavailable
\* but what moves from the second to the third).
THEOREM NothingForgotten == Spec => KnownStays
<1>1. Inv /\ [Next]_vars => [view' # NewView => \A s \in Nat : Known(s) => Known(s)']_vars
  BY KnownStep
<1> QED BY <1>1, AlwaysInv, PTL DEF Spec, KnownStays

-----------------------------------------------------------------------------
(* Entries on their way *)

\* The batches underway are proper ones.
LEMMA UnderwayOK ==
  ASSUME Inv, NEW b \in Underway
  PROVE  b \in Batch /\ BatchOK(b)
<1>1. pending \in Batch /\ BatchOK(pending) /\ EventsOK(wire, log.low)
  BY DEF Inv, NodeInv, NodeType, PendingInv, EventsInv
<1>2. CASE b = pending
  BY <1>1, <1>2
<1>3. ASSUME NEW i \in DOMAIN wire, IsBatch(wire[i]), b = wire[i].batch
      PROVE  b \in Batch /\ BatchOK(b)
  <2>1. wire[i] \in Event /\ EventOK(wire[i], log.low)
    BY <1>1 DEF EventsOK
  <2> QED BY <1>3, <2>1 DEF EventOK, Event, IsBatch
<1> QED BY <1>2, <1>3 DEF Underway

\* No number is inside no batch.
LEMMA NoBatchIsEmpty ==
  ASSUME NEW s \in Nat, s > 0
  PROVE  ~Inside(s, NoBatch)
BY DEF Inside, NoBatch

\* What stays underway is on its way still.
LEMMA UnderwayStays ==
  ASSUME Inv, view' = view, Underway \subseteq Underway', Underway' \subseteq Underway \cup {NoBatch},
         NEW s \in Nat, OnItsWay(s)
  PROVE  OnItsWay(s)'
<1>1. s > view.cursor /\ s > 0
  BY DEF OnItsWay, Inv, ViewInv, View
<1>2. PICK b \in Underway : s \in Numbers(b.entries) \/ Between(s, b)
  BY DEF OnItsWay
<1>3. b \in Underway'
  BY <1>2
<1>4. Between(s, b) => s < b.from /\ \A c \in Underway' : ~Inside(s, c)
  BY <1>1, NoBatchIsEmpty DEF Between
<1> QED BY <1>1, <1>2, <1>3, <1>4 DEF OnItsWay, Between

\* What is gathered into a new batch and what falls out of it are on their way.
LEMMA EnqueueStays ==
  ASSUME Inv, OrderInv, NEW n \in Nat, Enqueue(n), wire' = wire, view' = view,
         NEW s \in Nat, OnItsWay(s)
  PROVE  OnItsWay(s)'
<1>0. /\ pending \in Batch /\ BatchOK(pending) /\ log.next \in Nat /\ wire \in Seq(Event)
      /\ pending.last < log.next /\ pending.from \in Nat /\ pending.last \in Nat
  BY DEF Inv, NodeInv, NodeType, PendingInv, EventsInv, EventsOK, Batch
<1> DEFINE sent == {wire[i].batch : i \in {j \in DOMAIN wire : IsBatch(wire[j])}}
<1>1. Underway = {pending} \cup sent /\ Underway' = {pending'} \cup sent
  BY DEF Underway
<1>2. /\ pending' \in Batch /\ pending'.from \in Nat
      /\ log.next <= pending'.from \/ (pending # NoBatch /\ pending.from <= pending'.from)
      /\ pending # NoBatch => pending.from <= pending'.from
      /\ \A e \in pending.entries : e \in pending'.entries \/ e.seq < pending'.from
  BY EnqueueMoves DEF Batch
<1>3. \A c \in sent : /\ c \in Batch /\ BatchOK(c) /\ c.entries # {} /\ c.last < log.next
                      /\ pending # NoBatch => c.last < pending.from
  BY <1>1, UnderwayOK DEF OrderInv, Ahead
<1> HIDE DEF sent
<1>4. \A c \in sent : c.from \in Nat /\ c.last \in Nat /\ c.from <= c.last
  BY <1>3 DEF Batch, BatchOK, Entry
<1>5. PICK b \in Underway : s \in Numbers(b.entries) \/ Between(s, b)
  BY DEF OnItsWay
<1>6. s > view'.cursor
  BY DEF OnItsWay
<1>7. CASE b \in sent /\ s \in Numbers(b.entries)
  BY <1>1, <1>6, <1>7 DEF OnItsWay
<1>8. CASE b \in sent /\ Between(s, b)
  <2>1. s < b.from /\ \A c \in sent : ~Inside(s, c)
    BY <1>1, <1>8 DEF Between
  <2>2. b.last < pending'.from
    BY <1>0, <1>2, <1>3, <1>4, <1>8
  <2>3. ~Inside(s, pending')
    BY <1>2, <1>4, <1>8, <2>1, <2>2 DEF Inside
  <2> QED BY <1>1, <1>6, <1>8, <2>1, <2>3 DEF OnItsWay, Between
<1>9. CASE b = pending /\ s \in Numbers(b.entries)
  <2>1. PICK e \in pending.entries : s = e.seq
    BY <1>9 DEF Numbers
  <2>2. CASE e \in pending'.entries
    BY <1>1, <1>6, <2>1, <2>2 DEF OnItsWay, Numbers
  <2>3. CASE s < pending'.from
    <3>1. pending # NoBatch /\ pending.from <= s
      BY <1>0, <2>1 DEF NoBatch, BatchOK
    <3>2. \A c \in sent : ~Inside(s, c)
      BY <1>0, <1>3, <1>4, <3>1 DEF Inside
    <3>3. ~Inside(s, pending')
      BY <1>2, <2>3 DEF Inside
    <3> QED BY <1>1, <1>6, <2>3, <3>2, <3>3 DEF OnItsWay, Between
  <2> QED BY <1>2, <2>1, <2>2, <2>3
<1>10. CASE b = pending /\ Between(s, b)
  <2>1. s < pending.from /\ \A c \in sent : ~Inside(s, c)
    BY <1>1, <1>10 DEF Between
  <2>2. pending # NoBatch
    BY <2>1 DEF NoBatch
  <2>3. s < pending'.from
    BY <1>0, <1>2, <2>1, <2>2
  <2>4. ~Inside(s, pending')
    BY <1>2, <2>3 DEF Inside
  <2> QED BY <1>1, <1>6, <2>1, <2>3, <2>4 DEF OnItsWay, Between
<1> QED BY <1>1, <1>5, <1>7, <1>8, <1>9, <1>10

\* A batch that is sent stays underway.
LEMMA DrainStays ==
  ASSUME Inv, OrderInv, NEW due \in BOOLEAN, Drain(due), NEW s \in Nat, OnItsWay(s)
  PROVE  OnItsWay(s)'
<1>1. /\ wire \in Seq(Event) /\ outbox \in Seq(Event) /\ pending \in Batch
  BY DEF Inv, NodeInv, NodeType, EventsInv, EventsOK
<1> DEFINE last == IF due THEN <<Batched(pending)>> ELSE <<>>
<1>2. /\ wire' = wire \o outbox \o last /\ pending' = (IF due THEN NoBatch ELSE pending)
      /\ view' = view
  BY DEF Drain, plane
<1>3. last \in Seq(Event)
  <2>1. Batched(pending) \in Event
    BY <1>1 DEF Batched, Event
  <2> QED BY <2>1
<1> DEFINE n == Len(wire)
           m == Len(wire) + Len(outbox)
<1> HIDE DEF last
<1>4. /\ \A i \in DOMAIN wire' :
           \/ i \in DOMAIN wire /\ wire'[i] = wire[i]
           \/ i - n \in DOMAIN outbox /\ wire'[i] = outbox[i - n]
           \/ i - m \in DOMAIN last /\ wire'[i] = last[i - m]
      /\ \A i \in DOMAIN wire : i \in DOMAIN wire' /\ wire'[i] = wire[i]
      /\ \A i \in DOMAIN last : m + i \in DOMAIN wire' /\ wire'[m + i] = last[i]
  <2>1. \A i \in DOMAIN wire' :
           \/ i \in DOMAIN wire /\ wire'[i] = wire[i]
           \/ i - n \in DOMAIN outbox /\ wire'[i] = outbox[i - n]
           \/ i - m \in DOMAIN last /\ wire'[i] = last[i - m]
    BY <1>1, <1>2, <1>3, SMTT(40)
  <2>2. \A i \in DOMAIN wire : i \in DOMAIN wire' /\ wire'[i] = wire[i]
    BY <1>1, <1>2, <1>3, SMTT(40)
  <2>3. \A i \in DOMAIN last : m + i \in DOMAIN wire' /\ wire'[m + i] = last[i]
    BY <1>1, <1>2, <1>3, SMTT(40)
  <2> QED BY <2>1, <2>2, <2>3
<1> HIDE DEF n, m
<1>5. \A i \in DOMAIN last : due /\ last[i] = Batched(pending)
  BY DEF last
<1>6. due => 1 \in DOMAIN last /\ last[1] = Batched(pending)
  BY DEF last
<1>7. IsBatch(Batched(pending)) /\ Batched(pending).batch = pending
  BY DEF Batched, IsBatch
<1>8. Underway' \subseteq Underway \cup {NoBatch}
  <2> SUFFICES ASSUME NEW i \in DOMAIN wire', IsBatch(wire'[i])
               PROVE  wire'[i].batch \in Underway
    BY <1>2 DEF Underway
  <2>1. ~(i - n \in DOMAIN outbox /\ wire'[i] = outbox[i - n])
    BY DEF OrderInv
  <2>2. CASE i \in DOMAIN wire /\ wire'[i] = wire[i]
    BY <2>2 DEF Underway
  <2>3. CASE i - m \in DOMAIN last /\ wire'[i] = last[i - m]
    BY <1>5, <1>7, <2>3 DEF Underway
  <2> QED BY <1>4, <2>1, <2>2, <2>3
<1>9. Underway \subseteq Underway'
  <2>1. pending \in Underway'
    <3>1. CASE due
      <4>1. m + 1 \in DOMAIN wire' /\ wire'[m + 1] = Batched(pending)
        BY <1>4, <1>6, <3>1
      <4> QED BY <1>7, <4>1 DEF Underway
    <3>2. CASE ~due
      BY <1>2, <3>2 DEF Underway
    <3> QED BY <3>1, <3>2
  <2>2. \A i \in DOMAIN wire : IsBatch(wire[i]) => wire[i].batch \in Underway'
    BY <1>4 DEF Underway
  <2> QED BY <2>1, <2>2 DEF Underway
<1> QED BY <1>2, <1>8, <1>9, UnderwayStays

\* A batch that is consumed accounts for its entries and for what lies before it, and
\* does not take the cursor beyond anything else that is on its way.
LEMMA ConsumeStays ==
  ASSUME Inv, OrderInv, Consume, NEW s \in Nat, OnItsWay(s)
  PROVE  OnItsWay(s)' \/ Known(s)'
<1>0. /\ view \in View /\ view.cursor \in Nat /\ EventsOK(wire, log.low) /\ wire \in Seq(Event)
      /\ s > view.cursor
  BY DEF Inv, ViewInv, View, EventsInv, EventsOK, OnItsWay
<1>1. /\ wire # <<>> /\ view' = Note(view, Head(wire)) /\ wire' = Tail(wire)
      /\ pending' = pending
  BY DEF Consume, node
<1>2. /\ Head(wire) \in Event /\ EventOK(Head(wire), log.low) /\ Head(wire) = wire[1]
      /\ 1 \in DOMAIN wire
  <2>1. Head(wire) \in Event /\ EventOK(Head(wire), log.low)
    BY <1>0, <1>1, TakenOK
  <2>2. Head(wire) = wire[1] /\ 1 \in DOMAIN wire
    BY <1>0, <1>1
  <2> QED BY <2>1, <2>2
<1>3. /\ \A i \in DOMAIN wire' : i + 1 \in DOMAIN wire /\ wire'[i] = wire[i + 1]
      /\ \A i \in DOMAIN wire : i = 1 \/ (1 < i /\ i - 1 \in DOMAIN wire' /\ wire'[i - 1] = wire[i])
  BY <1>0, <1>1
<1>4. Underway' \subseteq Underway
  BY <1>1, <1>3 DEF Underway
<1>5. PICK b \in Underway : s \in Numbers(b.entries) \/ Between(s, b)
  BY DEF OnItsWay
<1>6. CASE ~IsBatch(Head(wire))
  <2>1. view'.cursor = view.cursor
    <3>1. CASE Head(wire).kind = "reclaimed"
      BY <1>0, <1>1, <1>2, <3>1, NoteReclaimedOK DEF Note, Event, Inv, ViewInv
    <3>2. CASE Head(wire).kind \in {"asked", "resolved"}
      BY <1>0, <1>1, <1>2, <3>2 DEF Note, View
    <3> QED BY <1>2, <1>6, <3>1, <3>2 DEF Event, IsBatch
  <2>2. Underway \subseteq Underway'
    <3>1. \A i \in DOMAIN wire : IsBatch(wire[i]) => wire[i].batch \in Underway'
      BY <1>2, <1>3, <1>6 DEF Underway
    <3> QED BY <1>1, <3>1 DEF Underway
  <2> QED BY <1>0, <1>4, <1>5, <2>1, <2>2 DEF OnItsWay, Between
<1>7. CASE IsBatch(Head(wire))
  <2> DEFINE h == Head(wire).batch
  <2>1. h \in Underway /\ h \in Batch /\ BatchOK(h) /\ h.entries # {} /\ view' = NoteBatch(view, h)
        /\ h.from \in Nat /\ h.last \in Nat
    <3>1. h \in Underway /\ h.entries # {}
      BY <1>2, <1>7 DEF Underway, OrderInv
    <3>2. view' = NoteBatch(view, h)
      BY <1>1, <1>7 DEF Note, IsBatch
    <3> QED BY <3>1, <3>2, UnderwayOK DEF Batch
  <2> HIDE DEF h
  <2>2. /\ view'.cursor = Max2(view.cursor, h.last)
        /\ s \in Numbers(h.entries) => Known(s)'
        /\ s < h.from => Known(s)'
    BY <1>0, <2>1, NoteBatchAccounts DEF Known, Accounted
  <2>3. CASE b = h
    BY <1>5, <2>2, <2>3 DEF Between
  <2>4. CASE s < h.from
    BY <2>2, <2>4
  <2>5. CASE b # h /\ ~(s < h.from)
    <3>1. b \in Underway'
      <4>1. \A i \in DOMAIN wire : IsBatch(wire[i]) /\ i # 1 => wire[i].batch \in Underway'
        BY <1>3 DEF Underway
      <4> QED BY <1>1, <1>2, <2>5, <4>1 DEF Underway, h
    <3>2. ~Inside(s, h)
      <4>1. CASE Between(s, b)
        BY <2>1, <4>1 DEF Between
      <4>2. CASE s \in Numbers(b.entries)
        <5>1. b \in Batch /\ b.from \in Nat /\ b.from <= s
          BY <4>2, UnderwayOK DEF BatchOK, Numbers, Batch
        <5>2. h.last < b.from
          <6>1. CASE b = pending
            <7>1. pending # NoBatch
              BY <4>2, <6>1 DEF NoBatch, Numbers
            <7> QED BY <1>2, <1>7, <6>1, <7>1 DEF OrderInv, Ahead, h
          <6>2. CASE b # pending
            <7>1. PICK i \in DOMAIN wire : IsBatch(wire[i]) /\ b = wire[i].batch
              BY <6>2 DEF Underway
            <7>2. 1 < i
              BY <1>2, <1>3, <2>5, <7>1 DEF h
            <7> QED BY <1>2, <1>7, <7>1, <7>2 DEF OrderInv, Ahead, h
          <6> QED BY <6>1, <6>2
        <5> QED BY <2>1, <5>1, <5>2 DEF Inside
      <4> QED BY <1>5, <4>1, <4>2
    <3>3. s > view'.cursor
      BY <1>0, <2>1, <2>2, <2>5, <3>2 DEF Inside, Max2
    <3> QED BY <1>4, <1>5, <3>1, <3>3 DEF OnItsWay, Between
  <2> QED BY <2>3, <2>4, <2>5
<1> QED BY <1>6, <1>7

\* On a quiet link nothing else happens to what is on its way.
LEMMA StepStays ==
  ASSUME Inv, OrderInv, [Next]_vars, Quiet, Quiet', NEW s \in Nat, OnItsWay(s)
  PROVE  OnItsWay(s)' \/ Known(s)'
<1>0. /\ sync \in {"done", "failed"} /\ stale = <<>> /\ up' = TRUE /\ live' /\ ~lagged'
      /\ up \in BOOLEAN /\ up /\ sync' \in {"done", "failed"}
  BY DEF Quiet, Steady, Inv, LinkType
<1>1. ASSUME UNCHANGED <<pending, wire, view>>
      PROVE  OnItsWay(s)'
  BY <1>1 DEF OnItsWay, Underway, Between
<1>2. CASE \E n \in 0..MaxEntries :
             \/ Record(n) \/ RecordAsk(n) \/ RecordDeath(n)
             \/ \E told \in BOOLEAN : RecordAllow(n, told) \/ RecordFails(n, told)
  <2>1. PICK n \in 0..MaxEntries, told \in BOOLEAN :
             \/ Record(n) \/ RecordAsk(n) \/ RecordDeath(n)
             \/ RecordAllow(n, told) \/ RecordFails(n, told)
    BY <1>2
  <2>2. n \in Nat /\ n + 1 \in Nat
    OBVIOUS
  <2>3. wire' = wire /\ view' = view
    BY <2>1 DEF Record, RecordAsk, RecordDeath, RecordAllow, RecordFails, link, plane
  <2>4. pending' = pending \/ \E k \in Nat : Enqueue(k)
    BY <2>1, <2>2 DEF Record, RecordAsk, RecordDeath, RecordAllow, RecordFails
  <2> QED BY <1>1, <2>3, <2>4, EnqueueStays
<1>3. CASE \/ SetModeAuto \/ Close \/ Sweep
           \/ \E r \in 1..MaxReqs : AnswerLate(r) \/ \E told \in BOOLEAN : Answer(r, told)
  <2>1. ~Close
    BY <1>0 DEF Close
  <2>2. UNCHANGED <<pending, wire, view>>
    BY <1>3, <2>1 DEF SetModeAuto, Sweep, AnswerLate, Answer, link, plane
  <2> QED BY <1>1, <2>2
<1>4. CASE \E due \in BOOLEAN : Drain(due)
  BY <1>4, DrainStays
<1>5. CASE PlaneNext
  <2>1. Consume
    BY <1>0, <1>5 DEF PlaneNext, ConsumeStale, Lag, Pull, PullFails, Snapshot, SnapshotFails,
                      NoteSnapshot
  <2> QED BY <2>1, ConsumeStays
<1>6. ~LinkNext
  BY <1>0 DEF LinkNext, LoseLink, Lose, Connect, CrashNode, CrashPlane
<1>7. CASE UNCHANGED vars
  BY <1>1, <1>7 DEF vars, node, link, plane
<1> QED BY <1>2, <1>3, <1>4, <1>5, <1>6, <1>7 DEF Next, NodeNext

\* Every number beyond the cursor that is batched, or was dropped from the batch, stays on
\* its way until it is shown or reported missing (session.rs 20-23, note_batch), on a link
\* that stays up outside reconciliation.
THEOREM EntriesStayOnTheirWay == Spec => EntriesStay
<1>1. Inv /\ OrderInv /\ [Next]_vars =>
        [Quiet /\ Quiet' => \A s \in Nat : OnItsWay(s) => OnItsWay(s)' \/ Known(s)']_vars
  BY StepStays
<1> QED BY <1>1, AlwaysInv, AlwaysOrder, PTL DEF Spec, EntriesStay

-----------------------------------------------------------------------------
(* Requests on their way *)

LEMMA AppendOn ==
  ASSUME NEW S, NEW q \in Seq(S), NEW ev \in S
  PROVE  /\ On(Append(q, ev), ev)
         /\ \A x : On(q, x) => On(Append(q, ev), x)
         /\ \A i \in DOMAIN Append(q, ev) :
              (i \in DOMAIN q /\ Append(q, ev)[i] = q[i]) \/ Append(q, ev)[i] = ev
<1>1. Len(q) + 1 \in DOMAIN Append(q, ev) /\ Append(q, ev)[Len(q) + 1] = ev
  OBVIOUS
<1>2. \A i \in DOMAIN q : i \in DOMAIN Append(q, ev) /\ Append(q, ev)[i] = q[i]
  OBVIOUS
<1>3. \A i \in DOMAIN Append(q, ev) :
        (i \in DOMAIN q /\ Append(q, ev)[i] = q[i]) \/ Append(q, ev)[i] = ev
  OBVIOUS
<1> QED BY <1>1, <1>2, <1>3, Zenon DEF On

LEMMA ConcatOn ==
  ASSUME NEW S, NEW p \in Seq(S), NEW q \in Seq(S)
  PROVE  /\ \A x : On(p, x) \/ On(q, x) => On(p \o q, x)
         /\ ReqsOK(p) /\ ReqsOK(q) => ReqsOK(p \o q)
<1>1. \A i \in DOMAIN p : i \in DOMAIN (p \o q) /\ (p \o q)[i] = p[i]
  OBVIOUS
<1>2. \A i \in DOMAIN q : Len(p) + i \in DOMAIN (p \o q) /\ (p \o q)[Len(p) + i] = q[i]
  OBVIOUS
<1>3. \A i \in DOMAIN (p \o q) :
        \/ i \in DOMAIN p /\ (p \o q)[i] = p[i]
        \/ i - Len(p) \in DOMAIN q /\ (p \o q)[i] = q[i - Len(p)]
  OBVIOUS
<1>4. \A x : On(p, x) \/ On(q, x) => On(p \o q, x)
  BY <1>1, <1>2, Zenon DEF On
<1>5. ReqsOK(p) /\ ReqsOK(q) => ReqsOK(p \o q)
  BY <1>3, Zenon DEF ReqsOK
<1> QED BY <1>4, <1>5

LEMMA TailOn ==
  ASSUME NEW S, NEW q \in Seq(S), q # <<>>
  PROVE  /\ \A x : On(q, x) => x = Head(q) \/ On(Tail(q), x)
         /\ ReqsOK(q) => ReqOK(Head(q)) /\ ReqsOK(Tail(q))
<1>1. 1 \in DOMAIN q /\ Head(q) = q[1]
  OBVIOUS
<1>2. \A i \in DOMAIN Tail(q) : i + 1 \in DOMAIN q /\ Tail(q)[i] = q[i + 1]
  OBVIOUS
<1>3. \A i \in DOMAIN q : i = 1 \/ (i - 1 \in DOMAIN Tail(q) /\ Tail(q)[i - 1] = q[i])
  OBVIOUS
<1>4. \A x : On(q, x) => x = Head(q) \/ On(Tail(q), x)
  BY <1>1, <1>3, Zenon DEF On
<1>5. ReqsOK(q) => ReqOK(Head(q)) /\ ReqsOK(Tail(q))
  BY <1>1, <1>2 DEF ReqsOK
<1> QED BY <1>4, <1>5

\* Of a watermark or a batch the requests shown know nothing.
LEMMA NoteRequests ==
  ASSUME NEW v \in View, NEW ev \in Event
  PROVE  /\ ev.kind = "asked" => Note(v, ev).parked = v.parked \cup {ev.req}
         /\ ev.kind = "resolved" => Note(v, ev).parked = v.parked \ {ev.req}
         /\ ev.kind \in {"batch", "reclaimed"} => Note(v, ev).parked = v.parked
<1>1. CASE ev.kind = "batch"
  BY <1>1 DEF Note, NoteBatch, View
<1>2. CASE ev.kind = "reclaimed"
  BY <1>2 DEF Note, NoteReclaimed, View
<1>3. CASE ev.kind \in {"asked", "resolved"}
  BY <1>3 DEF Note, View
<1> QED BY <1>1, <1>2, <1>3 DEF Event

\* What a step has to do with the requests.
AsksKept == faults' = faults => \A r \in parked' : AskOnItsWay(r) => AskOnItsWay(r)'
NewAsksTold == faults' = faults => \A r \in parked' \ parked : AskOnItsWay(r)'
ReqsKept ==
  /\ \A r \in parked' : r <= asked'
  /\ ReqsOK(outbox)' /\ ReqsOK(wire)' /\ ReqsOK(stale)'

LEMMA ReqsFromKept ==
  ASSUME Inv, ReqInv, faults' \in {faults, faults + 1}, ReqsKept, AsksKept, NewAsksTold
  PROVE  ReqInv' /\ AsksKept
<1>1. faults \in Nat
  BY NodeReplicaAssumption DEF Inv, LinkType
<1>2. faults' = 0 => faults = 0 /\ faults' = faults
  BY <1>1
<1>3. faults' = 0 => \A r \in parked' : AskOnItsWay(r)'
  BY <1>2 DEF ReqInv, AsksKept, NewAsksTold
<1> QED BY <1>3 DEF ReqInv, ReqsKept

\* A step that leaves requests, events and copy alone, or lets the agent wait for fewer.
LEMMA ReqsFrame ==
  ASSUME Inv, ReqInv, UNCHANGED <<asked, outbox, wire, stale>>, view'.parked = view.parked,
         parked' \subseteq parked, faults' \in {faults, faults + 1}
  PROVE  ReqInv' /\ AsksKept
<1>1. ReqsKept
  BY DEF ReqInv, ReqsKept, ReqsOK, ReqOK, ReqFine
<1>2. AsksKept /\ NewAsksTold
  BY DEF AsksKept, NewAsksTold, AskOnItsWay
<1> QED BY <1>1, <1>2, ReqsFromKept

\* A step of the node that makes at most one request, settles any, and tells of it.
LEMMA ReqsTold ==
  ASSUME Inv, ReqInv, UNCHANGED <<wire, stale, view>>, faults' \in {faults, faults + 1},
         asked' = asked \/ asked' = asked + 1,
         parked' \subseteq parked \/ (asked' = asked + 1 /\ parked' = parked \cup {asked + 1}),
         outbox' = outbox \/ \E ev \in Event : Tell(ev) /\ ReqFine(ev, asked', parked'),
         NewAsksTold
  PROVE  ReqInv' /\ AsksKept
<1>0. /\ asked \in Nat /\ parked \in SUBSET Nat
      /\ outbox \in Seq(Event) /\ wire \in Seq(Event) /\ stale \in Seq(Event)
  BY DEF Inv, NodeInv, NodeType, EventsInv, EventsOK
<1>1. ASSUME NEW ev \in Event, ReqOK(ev)
      PROVE  ReqFine(ev, asked', parked')
  <2>1. ev.kind \in {"asked", "resolved"} => ev.req \in Nat /\ ev.req <= asked
    BY <1>1 DEF ReqOK, ReqFine, Event
  <2>2. ev.kind = "resolved" => ev.req \notin parked
    BY <1>1 DEF ReqOK, ReqFine
  <2> QED BY <1>0, <2>1, <2>2 DEF ReqFine
<1>2. \A r \in parked' : r <= asked'
  <2>1. \A r \in parked : r \in Nat /\ r <= asked
    BY <1>0 DEF ReqInv
  <2>2. \A r \in parked' : r \in parked \/ (r = asked + 1 /\ asked' = asked + 1)
    OBVIOUS
  <2>3. asked <= asked' /\ asked' \in Nat
    BY <1>0
  <2>4. ASSUME NEW r \in parked'
        PROVE  r <= asked'
    <3>1. CASE r \in parked
      BY <1>0, <2>1, <2>3, <3>1
    <3>2. CASE r = asked + 1 /\ asked' = asked + 1
      BY <1>0, <3>2
    <3> QED BY <2>2, <3>1, <3>2
  <2> QED BY <2>4
<1>3. ReqsOK(wire)' /\ ReqsOK(stale)'
  <2>1. /\ \A i \in DOMAIN wire : wire[i] \in Event /\ ReqOK(wire[i])
        /\ \A i \in DOMAIN stale : stale[i] \in Event /\ ReqOK(stale[i])
    BY <1>0 DEF ReqInv, ReqsOK
  <2>2. /\ \A i \in DOMAIN wire' : ReqFine(wire'[i], asked', parked')
        /\ \A i \in DOMAIN stale' : ReqFine(stale'[i], asked', parked')
    BY <1>1, <2>1
  <2> QED BY <2>2 DEF ReqsOK, ReqOK
<1>4. \A i \in DOMAIN outbox : ReqFine(outbox[i], asked', parked')
  <2>1. \A i \in DOMAIN outbox : outbox[i] \in Event /\ ReqOK(outbox[i])
    BY <1>0 DEF ReqInv, ReqsOK
  <2> QED BY <1>1, <2>1
<1>5. CASE outbox' = outbox
  <2>1. ReqsKept
    BY <1>2, <1>3, <1>4, <1>5 DEF ReqsKept, ReqsOK, ReqOK
  <2>2. AsksKept
    BY <1>5 DEF AsksKept, AskOnItsWay
  <2> QED BY <2>1, <2>2, ReqsFromKept
<1>6. CASE \E ev \in Event : Tell(ev) /\ ReqFine(ev, asked', parked')
  <2>0. PICK ev \in Event : Tell(ev) /\ ReqFine(ev, asked', parked')
    BY <1>6
  <2>1. outbox' = Append(outbox, ev)
    BY <2>0 DEF Tell
  <2>2. /\ \A x : On(outbox, x) => On(outbox', x)
        /\ \A i \in DOMAIN outbox' : (i \in DOMAIN outbox /\ outbox'[i] = outbox[i]) \/ outbox'[i] = ev
    <3>1. /\ \A x : On(outbox, x) => On(Append(outbox, ev), x)
          /\ \A i \in DOMAIN Append(outbox, ev) :
               (i \in DOMAIN outbox /\ Append(outbox, ev)[i] = outbox[i]) \/ Append(outbox, ev)[i] = ev
      BY <1>0, AppendOn
    <3> QED BY <2>1, <3>1, Zenon
  <2>3. ReqsOK(outbox)'
    <3> SUFFICES ASSUME NEW i \in DOMAIN outbox'
                 PROVE  ReqFine(outbox'[i], asked', parked')
      BY DEF ReqsOK, ReqOK
    <3> QED BY <1>4, <2>0, <2>2
  <2>4. ReqsKept
    BY <1>2, <1>3, <2>3 DEF ReqsKept
  <2>5. AsksKept
    BY <2>2 DEF AsksKept, AskOnItsWay
  <2> QED BY <2>4, <2>5, ReqsFromKept
<1> QED BY <1>5, <1>6

\* The agent's requests, those the mode allows and those that are decided.
LEMMA NodeReqs ==
  ASSUME Inv, ReqInv, NodeNext, \A due \in BOOLEAN : ~Drain(due)
  PROVE  ReqInv' /\ AsksKept
<1>0. /\ asked \in Nat /\ asked + 1 \in Nat /\ parked \in SUBSET Nat /\ outbox \in Seq(Event)
      /\ \A r \in parked : r <= asked
  BY DEF Inv, NodeInv, NodeType, ReqInv, EventsInv, EventsOK
<1>1. \A r \in Nat : Asked(r) \in Event /\ Resolved(r) \in Event
  BY DEF Asked, Resolved, Event
<1>2. ASSUME NEW n \in 0..MaxEntries, Record(n) \/ RecordDeath(n)
      PROVE  ReqInv' /\ AsksKept
  <2>1. UNCHANGED <<asked, parked, outbox, wire, stale, view, faults>>
    BY <1>2 DEF Record, RecordDeath, link, plane
  <2> QED BY <2>1, ReqsFrame
<1>3. ASSUME NEW n \in 0..MaxEntries, RecordAsk(n)
      PROVE  ReqInv' /\ AsksKept
  <2>1. UNCHANGED <<wire, stale, view, faults>> /\ asked' = asked + 1
        /\ parked' = parked \cup {asked + 1} /\ Tell(Asked(asked + 1))
    BY <1>3 DEF RecordAsk, link, plane
  <2>2. ReqFine(Asked(asked + 1), asked', parked')
    BY <1>0, <2>1 DEF ReqFine, Asked
  <2>3. On(outbox', Asked(asked + 1))
    BY <1>0, <1>1, <2>1, AppendOn DEF Tell
  <2>4. NewAsksTold
    BY <2>1, <2>3 DEF NewAsksTold, AskOnItsWay
  <2>5. Asked(asked + 1) \in Event
    BY <1>0, <1>1
  <2> QED BY <2>1, <2>2, <2>4, <2>5, ReqsTold
<1>4. ASSUME NEW n \in 0..MaxEntries, NEW told \in BOOLEAN, RecordAllow(n, told)
      PROVE  ReqInv' /\ AsksKept
  <2>1. UNCHANGED <<wire, stale, view, faults, parked>> /\ asked' = asked + 1
        /\ Tell(Resolved(asked + 1))
    BY <1>4 DEF RecordAllow, link, plane
  <2>2. ReqFine(Resolved(asked + 1), asked', parked')
    <3>1. asked + 1 \notin parked
      BY <1>0
    <3> QED BY <1>0, <2>1, <3>1 DEF ReqFine, Resolved
  <2>3. NewAsksTold
    BY <2>1 DEF NewAsksTold
  <2>4. Resolved(asked + 1) \in Event
    BY <1>0, <1>1
  <2> QED BY <2>1, <2>2, <2>3, <2>4, ReqsTold
<1>5. ASSUME NEW n \in 0..MaxEntries, NEW gate \in BOOLEAN, RecordFails(n, gate)
      PROVE  ReqInv' /\ AsksKept
  <2>1. /\ UNCHANGED <<outbox, wire, stale, view>> /\ faults' = faults + 1
        /\ asked' = (IF gate THEN asked + 1 ELSE asked)
        /\ parked' = (IF gate THEN parked \cup {asked + 1} ELSE parked)
    BY <1>5 DEF RecordFails, plane
  <2>2. NewAsksTold
    BY <2>1, NodeReplicaAssumption DEF NewAsksTold, Inv, LinkType
  <2> QED BY <2>1, <2>2, ReqsTold
<1>6. ASSUME NEW r \in Nat, SetModeAuto \/ Close \/ AnswerLate(r)
      PROVE  ReqInv' /\ AsksKept
  <2>1. UNCHANGED <<asked, parked, outbox, wire, stale, view, faults>>
    BY <1>6 DEF SetModeAuto, Close, AnswerLate, link, plane
  <2> QED BY <2>1, ReqsFrame
<1>7. ASSUME NEW r \in Nat, NEW told \in BOOLEAN, Answer(r, told)
      PROVE  ReqInv' /\ AsksKept
  <2>1. /\ UNCHANGED <<asked, wire, stale, view, faults>> /\ r \in parked /\ parked' = parked \ {r}
        /\ outbox' = outbox \/ Tell(Resolved(r))
    BY <1>7 DEF Answer, link, plane
  <2>2. ReqFine(Resolved(r), asked', parked')
    BY <1>0, <2>1 DEF ReqFine, Resolved
  <2>3. NewAsksTold
    BY <2>1 DEF NewAsksTold
  <2> QED BY <1>0, <1>1, <2>1, <2>2, <2>3, ReqsTold
<1>8. CASE Sweep
  <2>1. PICK n \in Numbers(log.entries) : Tell(Reclaimed(n))
    BY <1>8 DEF Sweep
  <2>2. UNCHANGED <<asked, parked, wire, stale, view, faults>>
    BY <1>8 DEF Sweep, link, plane
  <2>3. Reclaimed(n) \in Event /\ ReqFine(Reclaimed(n), asked', parked')
    <3>1. n \in Nat
      BY DEF Numbers, Entry, Inv, NodeInv, NodeType
    <3> QED BY <3>1 DEF Reclaimed, Event, ReqFine
  <2>4. NewAsksTold
    BY <2>2 DEF NewAsksTold
  <2> QED BY <2>1, <2>2, <2>3, <2>4, ReqsTold
<1>9. 1..MaxReqs \subseteq Nat
  OBVIOUS
<1> QED BY <1>2, <1>3, <1>4, <1>5, <1>6, <1>7, <1>8, <1>9 DEF NodeNext

\* What waits to be sent is sent.
LEMMA DrainReqs ==
  ASSUME Inv, ReqInv, NEW due \in BOOLEAN, Drain(due)
  PROVE  ReqInv' /\ AsksKept
<1>1. /\ wire \in Seq(Event) /\ outbox \in Seq(Event) /\ pending \in Batch
      /\ ReqsOK(wire) /\ ReqsOK(outbox) /\ ReqsOK(stale)
  BY DEF Inv, NodeInv, NodeType, EventsInv, EventsOK, ReqInv
<1> DEFINE last == IF due THEN <<Batched(pending)>> ELSE <<>>
<1>2. /\ wire' = wire \o outbox \o last /\ outbox' = <<>>
      /\ UNCHANGED <<asked, parked, stale, faults, view>>
  BY DEF Drain, plane
<1>3. last \in Seq(Event) /\ ReqsOK(last)
  <2>1. Batched(pending) \in Event /\ ReqOK(Batched(pending))
    BY <1>1 DEF Batched, Event, ReqOK, ReqFine
  <2> QED BY <2>1 DEF ReqsOK
<1> HIDE DEF last
<1>4. wire \o outbox \in Seq(Event)
  BY <1>1
<1>5. ReqsOK(wire \o outbox) /\ \A x : On(wire, x) \/ On(outbox, x) => On(wire \o outbox, x)
  BY <1>1, ConcatOn
<1>6. ReqsOK(wire') /\ \A x : On(wire \o outbox, x) => On(wire', x)
  BY <1>2, <1>3, <1>4, <1>5, ConcatOn
<1>7. ReqsKept
  <2>1. ReqsOK(wire)' /\ ReqsOK(outbox)' /\ ReqsOK(stale)'
    BY <1>1, <1>2, <1>6 DEF ReqsOK, ReqOK
  <2> QED BY <1>2, <2>1 DEF ReqsKept, ReqInv
<1>8. AsksKept
  BY <1>2, <1>5, <1>6 DEF AsksKept, AskOnItsWay
<1>9. NewAsksTold
  BY <1>2 DEF NewAsksTold
<1> QED BY <1>2, <1>7, <1>8, <1>9, ReqsFromKept

\* A request that is consumed is shown, and what is settled is not waited for.
LEMMA NoteReqs ==
  ASSUME Inv, ReqInv, NEW ev \in Event, ReqOK(ev), view' = Note(view, ev), parked' = parked,
         NEW r \in parked
  PROVE  /\ ev = Asked(r) => r \in view'.parked
         /\ r \in view.parked => r \in view'.parked
<1>1. view \in View
  BY DEF Inv, ViewInv
<1>2. ev = Asked(r) => r \in view'.parked
  BY <1>1, NoteRequests DEF Asked
<1>3. r \in view.parked => r \in view'.parked
  <2>1. ev.kind = "resolved" => ev.req # r
    BY DEF ReqOK, ReqFine
  <2> QED BY <1>1, <2>1, NoteRequests DEF Event
<1> QED BY <1>2, <1>3

LEMMA ConsumeReqs ==
  ASSUME Inv, ReqInv, Consume \/ ConsumeStale \/ Lag
  PROVE  ReqInv' /\ AsksKept
<1>0. /\ wire \in Seq(Event) /\ stale \in Seq(Event)
      /\ ReqsOK(wire) /\ ReqsOK(outbox) /\ ReqsOK(stale) /\ faults \in Nat
  BY NodeReplicaAssumption DEF Inv, LinkType, EventsInv, EventsOK, ReqInv
<1>1. CASE Consume
  <2>1. /\ wire # <<>> /\ view' = Note(view, Head(wire)) /\ wire' = Tail(wire)
        /\ UNCHANGED <<asked, parked, outbox, stale, faults>>
    BY <1>1 DEF Consume, node
  <2>2. /\ Head(wire) \in Event /\ ReqOK(Head(wire)) /\ ReqsOK(Tail(wire))
        /\ \A x : On(wire, x) => x = Head(wire) \/ On(Tail(wire), x)
    <3>1. Head(wire) \in Event
      BY <1>0, <2>1
    <3> QED BY <1>0, <2>1, <3>1, TailOn
  <2>3. ReqsKept
    BY <1>0, <2>1, <2>2 DEF ReqsKept, ReqInv, ReqsOK, ReqOK
  <2>4. AsksKept /\ NewAsksTold
    BY <2>1, <2>2, NoteReqs DEF AsksKept, NewAsksTold, AskOnItsWay
  <2> QED BY <2>1, <2>3, <2>4, ReqsFromKept
<1>2. CASE ConsumeStale
  <2>1. /\ stale # <<>> /\ view' = Note(view, Head(stale)) /\ stale' = Tail(stale)
        /\ UNCHANGED <<asked, parked, outbox, wire, faults>>
    BY <1>2 DEF ConsumeStale, node
  <2>2. /\ Head(stale) \in Event /\ ReqOK(Head(stale)) /\ ReqsOK(Tail(stale))
        /\ \A x : On(stale, x) => x = Head(stale) \/ On(Tail(stale), x)
    <3>1. Head(stale) \in Event
      BY <1>0, <2>1
    <3> QED BY <1>0, <2>1, <3>1, TailOn
  <2>3. ReqsKept
    BY <1>0, <2>1, <2>2 DEF ReqsKept, ReqInv, ReqsOK, ReqOK
  <2>4. AsksKept /\ NewAsksTold
    BY <2>1, <2>2, NoteReqs DEF AsksKept, NewAsksTold, AskOnItsWay
  <2> QED BY <2>1, <2>3, <2>4, ReqsFromKept
<1>3. CASE Lag
  <2>1. /\ wire # <<>> /\ wire' = Tail(wire) /\ faults' = faults + 1
        /\ UNCHANGED <<asked, parked, outbox, stale>>
    <3>1. Len(wire) > Capacity /\ Capacity \in Nat
      BY <1>3, NodeReplicaAssumption DEF Lag
    <3> QED BY <1>3, <3>1 DEF Lag, node
  <2>2. ReqsOK(Tail(wire))
    BY <1>0, <2>1, TailOn
  <2>3. ReqsKept
    BY <1>0, <2>1, <2>2 DEF ReqsKept, ReqInv, ReqsOK, ReqOK
  <2>4. AsksKept /\ NewAsksTold
    BY <1>0, <2>1 DEF AsksKept, NewAsksTold
  <2> QED BY <2>1, <2>3, <2>4, ReqsFromKept
<1> QED BY <1>1, <1>2, <1>3

LEMMA ReconcileReqs ==
  ASSUME Inv, ReqInv, Pull \/ PullFails \/ Snapshot \/ SnapshotFails \/ NoteSnapshot \/ Connect
  PROVE  ReqInv' /\ AsksKept
<1>0. view \in View
  BY DEF Inv, ViewInv
<1>1. UNCHANGED <<asked, parked, outbox, wire, stale, faults>>
  BY DEF Pull, PullFails, Snapshot, SnapshotFails, NoteSnapshot, Connect, node, link
<1>2. view'.parked = view.parked
  <2>1. NoteBatch(view, Pulled).parked = view.parked
    BY <1>0 DEF NoteBatch, View
  <2>2. [NoteReclaimed(view, answer.low) EXCEPT !.cursor = Max2(@, answer.last)].parked
          = view.parked
    BY <1>0 DEF NoteReclaimed, View
  <2> QED BY <2>1, <2>2 DEF Pull, PullFails, Snapshot, SnapshotFails, NoteSnapshot, Connect
<1> QED BY <1>1, <1>2, ReqsFrame

\* A fault may take requests off their way, and invents none.
LEMMA FaultReqs ==
  ASSUME Inv, ReqInv, LoseLink \/ CrashNode \/ CrashPlane
  PROVE  ReqInv' /\ AsksKept
<1>0. /\ wire \in Seq(Event) /\ stale \in Seq(Event)
      /\ ReqsOK(wire) /\ ReqsOK(outbox) /\ ReqsOK(stale) /\ faults \in Nat
  BY NodeReplicaAssumption DEF Inv, LinkType, EventsInv, EventsOK, ReqInv
<1>1. faults' = faults + 1 /\ asked' = asked /\ parked' \in {parked, {}}
  BY DEF LoseLink, CrashNode, CrashPlane, RestartNode, node
<1>2. outbox' \in {outbox, <<>>} /\ wire' = <<>>
  BY DEF LoseLink, CrashNode, CrashPlane, RestartNode, Lose, node
<1>3. stale' = <<>> \/ \E k \in 0..Len(wire) : stale' = stale \o SubSeq(wire, 1, k)
  BY DEF LoseLink, CrashNode, CrashPlane, Lose
<1>4. ReqsOK(<<>>)
  BY DEF ReqsOK
<1>5. ReqsOK(stale')
  <2>1. ASSUME NEW k \in 0..Len(wire)
        PROVE  ReqsOK(stale \o SubSeq(wire, 1, k))
    <3>1. SubSeq(wire, 1, k) \in Seq(Event)
          /\ \A i \in DOMAIN SubSeq(wire, 1, k) : i \in DOMAIN wire /\ SubSeq(wire, 1, k)[i] = wire[i]
      BY <1>0
    <3>2. ReqsOK(SubSeq(wire, 1, k))
      BY <1>0, <3>1, Zenon DEF ReqsOK
    <3> QED BY <1>0, <3>1, <3>2, ConcatOn
  <2> QED BY <1>3, <1>4, <2>1
<1>6. ReqsKept
  <2>1. \A r \in parked' : r <= asked'
    BY <1>1 DEF ReqInv
  <2>2. \A ev : ReqOK(ev) => ReqFine(ev, asked', parked')
    BY <1>1 DEF ReqOK, ReqFine
  <2> QED BY <1>0, <1>2, <1>4, <1>5, <2>1, <2>2 DEF ReqsKept, ReqsOK, ReqOK
<1>7. AsksKept /\ NewAsksTold
  BY <1>0, <1>1 DEF AsksKept, NewAsksTold
<1> QED BY <1>1, <1>6, <1>7, ReqsFromKept

LEMMA NextReqs == Inv /\ ReqInv /\ [Next]_vars => ReqInv' /\ AsksKept
<1> SUFFICES ASSUME Inv, ReqInv, [Next]_vars PROVE ReqInv' /\ AsksKept
  OBVIOUS
<1>1. CASE UNCHANGED vars
  <2>1. UNCHANGED <<asked, parked, outbox, wire, stale, view, faults>>
    BY <1>1 DEF vars, node, link, plane
  <2> QED BY <2>1, ReqsFrame
<1>2. CASE \E due \in BOOLEAN : Drain(due)
  BY <1>2, DrainReqs
<1>3. CASE NodeNext /\ \A due \in BOOLEAN : ~Drain(due)
  BY <1>3, NodeReqs
<1>4. CASE PlaneNext
  BY <1>4, ConsumeReqs, ReconcileReqs DEF PlaneNext
<1>5. CASE LinkNext
  BY <1>5, FaultReqs, ReconcileReqs DEF LinkNext
<1> QED BY <1>1, <1>2, <1>3, <1>4, <1>5 DEF Next

LEMMA AlwaysReqs == Spec => []ReqInv
<1>1. Init => ReqInv
  BY DEF Init, ReqInv, ReqsOK
<1>2. Inv /\ ReqInv /\ [Next]_vars => ReqInv'
  BY NextReqs
<1> QED BY <1>1, <1>2, AlwaysInv, PTL DEF Spec

\* A request the agent waits for is taken off its way by no step but a fault
\* (session.rs drain_events, note_event): it is sent, consumed and shown.
THEOREM RequestsStayOnTheirWay == Spec => AsksStay
<1>1. Inv /\ ReqInv /\ [Next]_vars =>
        [faults' = faults => \A r \in parked' : AskOnItsWay(r) => AskOnItsWay(r)']_vars
  BY NextReqs DEF AsksKept
<1> QED BY <1>1, AlwaysInv, AlwaysReqs, PTL DEF Spec, AsksStay

\* As long as there is no fault every request the agent waits for is on its way to the
\* control plane or shown (record_body_events, answer_approval): none is parked untold.
THEOREM RequestsComeThrough == Spec => []AsksComeThrough
<1>1. ReqInv => AsksComeThrough
  BY DEF ReqInv, AsksComeThrough
<1> QED BY <1>1, AlwaysReqs, PTL
=============================================================================
