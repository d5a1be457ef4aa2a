----------------------------- MODULE NodeReplica -----------------------------
(***************************************************************************)
(* One session on an execution node and the control plane's copy of it:    *)
(* the node's log and the batches it reports (sebas-node/src/log.rs,       *)
(* session.rs, link.rs), the link between the two, and the copy the        *)
(* control plane keeps and repairs after each reconnection                 *)
(* (src/node_link/driver.rs, projection.rs).                               *)
(*                                                                         *)
(* An entry is its sequence number and an id of its own, so that two       *)
(* entries with one number can be told apart; what an entry says is left   *)
(* out, and so are the phase of the session and its epoch, which no code   *)
(* but a test ever changes (SessionLog::reset has no other caller).        *)
(* A list of intervals (gaps, unavailable) is the set of its numbers, a    *)
(* list of entries in order of their numbers the set of its entries.       *)
(***************************************************************************)
EXTENDS Integers, Sequences, FiniteSets

CONSTANTS
  MaxBatch,    \* coalesce_max_entries: entries a batch may hold
  Capacity,    \* EVENT_CHANNEL_CAPACITY: events a slow consumer may leave waiting
  MaxEntries,  \* bound: entries ever appended
  MaxReqs,     \* bound: approval requests
  MaxFaults,   \* bound: lost links, restarts and lags together
  MaxWire,     \* bound: events waiting to be sent, or on their way
  MaxStale     \* bound: events of lost links waiting to be consumed

ASSUME NodeReplicaAssumption ==
  /\ MaxBatch \in Nat \ {0} /\ Capacity \in Nat /\ MaxWire \in Nat /\ MaxStale \in Nat
  /\ MaxEntries \in Nat /\ MaxEntries >= 2 /\ MaxReqs \in Nat /\ MaxFaults \in Nat

VARIABLES
  log,       \* the node's log: entries, the next number, the reclaimed watermark
  appended,  \* history: entries ever appended
  live,      \* the session has a body (an agent at work)
  asked,     \* approval requests ever made
  parked,    \* those the agent waits for
  pending,   \* the batch being coalesced
  outbox,    \* events to report at once
  up,        \* the link is connected
  wire,      \* events sent over it and not yet consumed
  stale,     \* events of lost links, still in the hands of their consumer
  sync,      \* where the reconciliation after the last connection stands
  answer,    \* the snapshot it has been answered
  view,      \* the control plane's copy
  lagged,    \* history: the consumer lost events since the last pull
  faults     \* faults so far

node   == <<log, appended, live, asked, parked, pending, outbox>>
link   == <<up, wire, stale, lagged, faults>>
plane  == <<sync, answer, view>>
vars   == <<node, link, plane>>

Entry      == [seq : Nat, id : Nat]
Batch      == [from : Nat, last : Nat, entries : SUBSET Entry]
NoBatch    == [from |-> 0, last |-> 0, entries |-> {}]
Numbers(S) == {e.seq : e \in S}
Event      == [kind : {"batch"}, batch : Batch]
         \cup [kind : {"reclaimed"}, through : Nat]
         \cup [kind : {"asked", "resolved"}, req : Nat]
Asked(r)       == [kind |-> "asked", req |-> r]
Resolved(r)    == [kind |-> "resolved", req |-> r]
Reclaimed(n)   == [kind |-> "reclaimed", through |-> n]
Batched(b)     == [kind |-> "batch", batch |-> b]
Tell(event)    == Len(outbox) + 1 < MaxWire /\ outbox' = Append(outbox, event)

-----------------------------------------------------------------------------
(* The node: the log and what is reported of it *)

\* The next n entries of the log, and their appending (append_at).
Fresh(n) == {[seq |-> log.next + i, id |-> appended + 1 + i] : i \in 0..(n - 1)}
Extend(n) ==
  /\ appended + n <= MaxEntries
  /\ appended' = appended + n
  /\ log' = [log EXCEPT !.entries = @ \cup Fresh(n), !.next = @ + n]

\* enqueue_batch, push_pending: n new entries join the pending batch, whose oldest
\* are dropped when it grows too large; the batch starts at the oldest one kept.
Joined(n)    == pending.entries \cup Fresh(n)
Kept(n, cut) == {e \in Joined(n) : e.seq >= cut}
CutAt(n, cut) ==
  /\ cut \in Numbers(Joined(n))
  /\ Cardinality(Kept(n, cut)) =
       IF Cardinality(Joined(n)) <= MaxBatch THEN Cardinality(Joined(n)) ELSE MaxBatch
\* Mutant: the batch goes on to start where it did before the oldest were dropped.
EnqueueAtOldStart(n) ==
  \E cut \in Numbers(Joined(n)) :
    /\ CutAt(n, cut)
    /\ pending' = [from |-> IF pending = NoBatch THEN log.next ELSE pending.from,
                   last |-> log.next + n - 1, entries |-> Kept(n, cut)]
Enqueue(n) ==
  \E cut \in Numbers(Joined(n)) :
    /\ CutAt(n, cut)
    /\ pending' = [from |-> cut, last |-> log.next + n - 1, entries |-> Kept(n, cut)]

\* record_body_events, on a prompt or a tick of the link: what the agent produced is
\* logged entry by entry, then reported as part of a batch.  It is output, or
Record(n) ==
  /\ up /\ live /\ n > 0 /\ Extend(n) /\ Enqueue(n)
  /\ UNCHANGED <<live, asked, parked, outbox, link, plane>>

\* ends at a gated action that waits for a decision of the control plane, or
RecordAsk(n) ==
  /\ up /\ live /\ asked < MaxReqs /\ Extend(n + 1) /\ Enqueue(n + 1)
  /\ asked' = asked + 1 /\ parked' = parked \cup {asked + 1} /\ Tell(Asked(asked + 1))
  /\ UNCHANGED <<live, link, plane>>

\* ends at one the session's mode allows, which is told to the agent (a failure to
\* do so is logged after the entries reported), or
RecordAllow(n, told) ==
  /\ up /\ live /\ asked < MaxReqs
  /\ Extend(IF told THEN n + 1 ELSE n + 2) /\ Enqueue(n + 1)
  /\ asked' = asked + 1 /\ Tell(Resolved(asked + 1))
  /\ UNCHANGED <<live, parked, link, plane>>

\* ends with the death of the agent (mark_exited), logged but not reported, or
RecordDeath(n) ==
  /\ up /\ live /\ n > 0 /\ Extend(n + 1) /\ Enqueue(n) /\ live' = FALSE
  /\ UNCHANGED <<asked, parked, outbox, link, plane>>

\* ends where the log cannot be written: what was logged before is not reported, and
\* a gated action that was to be logged may wait already.
RecordFails(n, gate) ==
  /\ up /\ live /\ (n > 0 \/ gate) /\ (gate => asked < MaxReqs)
  /\ faults < MaxFaults /\ faults' = faults + 1 /\ Extend(n)
  /\ asked'  = IF gate THEN asked + 1 ELSE asked
  /\ parked' = IF gate THEN parked \cup {asked + 1} ELSE parked
  /\ UNCHANGED <<live, pending, outbox, up, wire, stale, lagged, plane>>

\* set_mode: the control plane lets the session act unasked, which is logged only.
SetModeAuto ==
  /\ up /\ live /\ Extend(1)
  /\ UNCHANGED <<live, asked, parked, pending, outbox, link, plane>>

\* answer_approval, for a request the control plane shows: of a session without a
\* body the decision is logged and discarded; one that was decided already is
\* refused; otherwise the request is settled, and reported so if the agent is told.
AnswerLate(r) ==
  /\ up /\ r \in view.parked /\ ~live /\ Extend(1)
  /\ UNCHANGED <<live, asked, parked, pending, outbox, link, plane>>
Answer(r, told) ==
  /\ up /\ r \in view.parked /\ live /\ r \in parked /\ Extend(1)
  /\ parked' = parked \ {r}
  /\ IF told THEN Tell(Resolved(r)) ELSE UNCHANGED outbox
  /\ UNCHANGED <<live, asked, pending, link, plane>>

\* close, also of a session that has ended: the pending batch is dropped.
Close ==
  /\ up /\ (live \/ pending # NoBatch)
  /\ IF live THEN Extend(1) ELSE UNCHANGED <<log, appended>>
  /\ live' = FALSE /\ pending' = NoBatch
  /\ UNCHANGED <<asked, parked, outbox, link, plane>>

\* sweep_retention: the entries up to some number are old enough to be reclaimed
\* (reclaim_through), and the watermark is reported.
Sweep ==
  /\ \E n \in Numbers(log.entries) :
       /\ log' = IF n <= log.low THEN log
                 ELSE [log EXCEPT !.entries = {e \in @ : e.seq > n}, !.low = n]
       /\ Tell(Reclaimed(n))
  /\ UNCHANGED <<appended, live, asked, parked, pending, link, plane>>

\* A tick of the link: drain_events sends the outbox, then the pending batch if its
\* window has passed.
\* Mutant: what is to be reported at once is taken out, and only the batch is sent.
DrainBatchOnly(due) ==
  /\ up /\ (outbox # <<>> \/ due)
  /\ due => pending # NoBatch
  /\ Len(wire) + (IF due THEN 1 ELSE 0) <= MaxWire
  /\ wire' = wire \o (IF due THEN <<Batched(pending)>> ELSE <<>>)
  /\ outbox' = <<>> /\ pending' = IF due THEN NoBatch ELSE pending
  /\ UNCHANGED <<log, appended, live, asked, parked, up, stale, lagged, faults, plane>>
Drain(due) ==
  /\ up /\ (outbox # <<>> \/ due)
  /\ due => pending # NoBatch
  /\ Len(wire \o outbox) + (IF due THEN 1 ELSE 0) <= MaxWire
  /\ wire' = wire \o outbox \o (IF due THEN <<Batched(pending)>> ELSE <<>>)
  /\ outbox' = <<>> /\ pending' = IF due THEN NoBatch ELSE pending
  /\ UNCHANGED <<log, appended, live, asked, parked, up, stale, lagged, faults, plane>>

\* The node's daemon restarts (SessionLog::open, attach_orphan_logs): the log is read
\* back, its next number from the last entry there is; the agent is gone.  A restart in
\* the middle of reclaim_through finds the new watermark with the old entries.
\* Mutant: an empty log has no last entry to count on from.
ReopenedAtZero == IF log.entries = {} THEN 0 ELSE log.next
Reopened == IF log.entries = {} THEN 1 ELSE log.next
Watermarks == {log.low} \cup {n \in Numbers(log.entries) : n > log.low}
\* Mutant: the watermark is not read back.
RestartForgetful(low) ==
  /\ log' = [log EXCEPT !.next = Reopened, !.low = 0] /\ live' = FALSE /\ parked' = {}
  /\ pending' = NoBatch /\ outbox' = <<>>
RestartNode(low) ==
  /\ log' = [log EXCEPT !.next = Reopened, !.low = low] /\ live' = FALSE /\ parked' = {}
  /\ pending' = NoBatch /\ outbox' = <<>>

-----------------------------------------------------------------------------
(* The copy: what the control plane does with what it is told *)

NewView == [held |-> {}, cursor |-> 0, seen |-> 0, gaps |-> {}, lost |-> {}, parked |-> {}]
Max2(m, n) == IF m >= n THEN m ELSE n

\* note_batch: entries beyond the cursor are added; of those before it the ones held
\* are skipped and the others taken for lost.  A batch that starts beyond the next
\* number leaves a gap, which is lost if the watermark covers it.
Skipped(v, e)  == \E f \in v.held : f.seq = e.seq
News(v, S)     == {e \in S : ~Skipped(v, e) /\ e.seq > v.cursor}
Strays(v, S)   == {e \in S : ~Skipped(v, e) /\ e.seq <= v.cursor}
Gap(v, b)      == (v.cursor + 1)..(b.from - 1)
Gone(v, b)     == b.from - 1 <= v.seen
\* Mutant: what is not held is added wherever it belongs.
NoteAnyBatch(v, b) ==
  IF b.entries = {} THEN v
  ELSE [v EXCEPT
         !.held   = @ \cup {e \in b.entries : ~Skipped(v, e)},
         !.cursor = Max2(@, b.last),
         !.gaps   = @ \cup (IF Gone(v, b) THEN {} ELSE Gap(v, b)),
         !.lost   = @ \cup (IF Gone(v, b) THEN Gap(v, b) ELSE {})]
\* Mutant: what the cursor has passed is not looked for among the entries held.
NoteOldBatch(v, b) ==
  IF b.entries = {} THEN v
  ELSE [v EXCEPT
         !.held   = @ \cup {e \in b.entries : e.seq > v.cursor},
         !.cursor = Max2(@, b.last),
         !.gaps   = @ \cup (IF Gone(v, b) THEN {} ELSE Gap(v, b)),
         !.lost   = @ \cup Numbers({e \in b.entries : e.seq <= v.cursor})
                      \cup (IF Gone(v, b) THEN Gap(v, b) ELSE {})]
NoteBatch(v, b) ==
  IF b.entries = {} THEN v
  ELSE [v EXCEPT
         !.held   = @ \cup News(v, b.entries),
         !.cursor = Max2(@, b.last),
         !.gaps   = @ \cup (IF Gone(v, b) THEN {} ELSE Gap(v, b)),
         !.lost   = @ \cup Numbers(Strays(v, b.entries))
                      \cup (IF Gone(v, b) THEN Gap(v, b) ELSE {})]

\* note_reclaimed: gaps the watermark covers are lost.
NoteReclaimed(v, n) ==
  LET seen == Max2(v.seen, n)
  IN [v EXCEPT !.seen = seen,
               !.gaps = {s \in @ : s > seen},
               !.lost = @ \cup {s \in v.gaps : s <= seen}]

\* note_event
Note(v, event) ==
  CASE event.kind = "batch"     -> NoteBatch(v, event.batch)
    [] event.kind = "reclaimed" -> NoteReclaimed(v, event.through)
    [] event.kind = "asked"     -> [v EXCEPT !.parked = @ \cup {event.req}]
    [] event.kind = "resolved"  -> [v EXCEPT !.parked = @ \ {event.req}]

\* The consumer of the link's events, and that of a link that was lost meanwhile.
Consume ==
  /\ wire # <<>> /\ view' = Note(view, Head(wire)) /\ wire' = Tail(wire)
  /\ UNCHANGED <<node, up, stale, lagged, faults, sync, answer>>
ConsumeStale ==
  /\ stale # <<>> /\ view' = Note(view, Head(stale)) /\ stale' = Tail(stale)
  /\ UNCHANGED <<node, up, wire, lagged, faults, sync, answer>>

\* A consumer that falls behind loses the oldest events (RecvError::Lagged).
Lag ==
  /\ Len(wire) > Capacity /\ wire' = Tail(wire) /\ lagged' = TRUE
  /\ faults < MaxFaults /\ faults' = faults + 1
  /\ UNCHANGED <<node, up, stale, plane>>

\* observe_node after a connection: the entries beyond the cursor are pulled
\* (reconcile), then a snapshot is asked for and noted (note_snapshot), which takes
\* the cursor to the last number of the log.  Either request may fail, which does not
\* end the reconciliation.
Pulled == [from |-> view.cursor + 1, last |-> log.next - 1,
           entries |-> {e \in log.entries : e.seq > view.cursor}]
Pull ==
  /\ sync = "pull" /\ up
  /\ view' = NoteBatch(view, Pulled) /\ sync' = "ask" /\ lagged' = FALSE
  /\ UNCHANGED <<node, up, wire, stale, faults, answer>>
PullFails ==
  /\ sync = "pull" /\ sync' = "ask"
  /\ UNCHANGED <<node, link, answer, view>>
Snapshot ==
  /\ sync = "ask" /\ up
  /\ sync' = "note" /\ answer' = [last |-> log.next - 1, low |-> log.low]
  /\ UNCHANGED <<node, link, view>>
SnapshotFails ==
  /\ sync = "ask" /\ sync' = "failed"
  /\ UNCHANGED <<node, link, answer, view>>
NoAnswer == [last |-> 0, low |-> 0]
NoteSnapshot ==
  /\ sync = "note"
  /\ view' = [NoteReclaimed(view, answer.low) EXCEPT !.cursor = Max2(@, answer.last)]
  /\ sync' = "done" /\ answer' = NoAnswer
  /\ UNCHANGED <<node, link>>

-----------------------------------------------------------------------------
(* The link and the faults *)

\* The link is lost with the events that have not arrived; those that have are still
\* consumed.  A new one is accepted once the reconciliation of the last has ended
\* (handle_connection).
Lose(k) ==
  /\ Len(stale) + k <= MaxStale
  /\ up' = FALSE /\ stale' = stale \o SubSeq(wire, 1, k) /\ wire' = <<>>
LoseLink ==
  /\ up /\ faults < MaxFaults /\ faults' = faults + 1
  /\ \E k \in 0..Len(wire) : Lose(k)
  /\ UNCHANGED <<node, lagged, plane>>
Connect ==
  /\ ~up /\ sync \in {"done", "failed"}
  /\ up' = TRUE /\ sync' = "pull"
  /\ UNCHANGED <<node, wire, stale, lagged, faults, answer, view>>

CrashNode ==
  /\ faults < MaxFaults /\ faults' = faults + 1
  /\ (\E low \in Watermarks : RestartNode(low)) /\ \E k \in 0..Len(wire) : Lose(k)
  /\ UNCHANGED <<appended, asked, lagged, plane>>

\* The control plane restarts with an empty copy (RemoteProjection::new).
CrashPlane ==
  /\ faults < MaxFaults /\ faults' = faults + 1
  /\ up' = FALSE /\ wire' = <<>> /\ stale' = <<>> /\ lagged' = FALSE
  /\ sync' = "failed" /\ answer' = NoAnswer /\ view' = NewView
  /\ UNCHANGED node

-----------------------------------------------------------------------------
(* The specification *)

\* The session has just been spawned over the link: its first two entries say so and
\* are not reported.
Init ==
  /\ log = [entries |-> {[seq |-> i, id |-> i] : i \in 1..2}, next |-> 3, low |-> 0]
  /\ appended = 2 /\ live = TRUE /\ asked = 0 /\ parked = {}
  /\ pending = NoBatch /\ outbox = <<>>
  /\ up = TRUE /\ wire = <<>> /\ stale = <<>> /\ lagged = FALSE /\ faults = 0
  /\ sync = "done" /\ answer = NoAnswer /\ view = NewView

NodeNext ==
  \/ \E n \in 0..MaxEntries :
       \/ Record(n) \/ RecordAsk(n) \/ RecordDeath(n)
       \/ \E told \in BOOLEAN : RecordAllow(n, told) \/ RecordFails(n, told)
  \/ SetModeAuto \/ Close \/ Sweep
  \/ \E r \in 1..MaxReqs : AnswerLate(r) \/ \E told \in BOOLEAN : Answer(r, told)
  \/ \E due \in BOOLEAN : Drain(due)
PlaneNext ==
  Consume \/ ConsumeStale \/ Lag
  \/ Pull \/ PullFails \/ Snapshot \/ SnapshotFails \/ NoteSnapshot
LinkNext == LoseLink \/ Connect \/ CrashNode \/ CrashPlane
Next == NodeNext \/ PlaneNext \/ LinkNext

Spec == Init /\ [][Next]_vars

\* The tick of the link fires every 50 ms and a batch's window passes; the consumers
\* are tasks of their own, and requests that are not answered time out.
FairSpec ==
  /\ Spec
  /\ WF_vars(Drain(FALSE)) /\ WF_vars(Drain(TRUE))
  /\ WF_vars(Consume) /\ WF_vars(ConsumeStale)

-----------------------------------------------------------------------------
(* Properties *)

\* Every variable holds a value of its type.
TypeOK ==
  /\ log \in [entries : SUBSET Entry, next : Nat \ {0}, low : Nat]
  /\ appended \in Nat /\ live \in BOOLEAN /\ asked \in Nat /\ parked \in SUBSET Nat
  /\ pending \in Batch /\ outbox \in Seq(Event)
  /\ up \in BOOLEAN /\ wire \in Seq(Event) /\ stale \in Seq(Event)
  /\ lagged \in BOOLEAN /\ faults \in 0..MaxFaults
  /\ sync \in {"pull", "ask", "note", "done", "failed"}
  /\ answer \in [last : Nat, low : Nat]
  /\ view \in [held : SUBSET Entry, cursor : Nat, seen : Nat, gaps : SUBSET Nat,
               lost : SUBSET Nat, parked : SUBSET Nat]

\* A number of the history is shown once, and is not at the same time reported missing
\* (driver.rs 6-16), over any order of batches, pulls and snapshots, frames of lost
\* links that arrive late, and restarts.
ShownOnce ==
  /\ \A e, f \in view.held : e.seq = f.seq => e = f
  /\ Numbers(view.held) \cap (view.gaps \cup view.lost) = {}

\* The history only grows at its end (node-session-channel/spec.md: neither duplicate,
\* reorder, or split): whatever is shown new comes after all that was shown before.
GrowsAtEnd ==
  [][\A e \in view'.held \ view.held, f \in view.held : f.seq < e.seq]_vars

\* The control plane never takes for reclaimed what the node has not reclaimed, also
\* after a restart of the node: its watermark is at most the node's.
WatermarkIsTrue == view.seen <= log.low

\* What was put into a batch, beyond what the control plane has seen, is shown or
\* accounted for as missing in the end, even if it was dropped to keep the batch small
\* (session.rs 20-23), on a link that stays up outside reconciliation.
Steady == up /\ live /\ ~lagged /\ sync \in {"done", "failed"}
Known(s) == s \in Numbers(view.held) \cup view.gaps \cup view.lost
BatchArrives ==
  \A s \in 3..MaxEntries :
    s \in Numbers(pending.entries) /\ s > view.cursor ~> Known(s) \/ ~Steady

\* A request the agent waits for is shown in the end, on a link that stays up.
AskArrives ==
  \A r \in 1..MaxReqs :
    (\E i \in DOMAIN outbox : outbox[i] = Asked(r))
      ~> r \in view.parked \/ r \notin parked \/ ~Steady

=============================================================================
