--------------------------- MODULE SessionMapAccount ---------------------------
(***************************************************************************)
(* Proofs that the session map keeps account of every submission, for any  *)
(* number of keys, sessions and tasks.  The inductive invariant adds two   *)
(* things to the properties of SessionMap: the delivered ids are exactly   *)
(* the submissions started since the last clear, and a remove or a move    *)
(* that stands between its two critical sections looks for a submission    *)
(* which, if it still waits, waits in the turn queue.  The last two        *)
(* sections prove, each from an invariant of its own, that priority turns  *)
(* come first and that a spawn in flight has a task that will settle it.   *)
(***************************************************************************)
EXTENDS SessionMapProofs, FiniteSetTheorems

\* What is known of submission i of key k.
Settles(k, i) ==
  /\ fate[k][i] # "none" <=> i <= lastId[k]
  /\ fate[k][i] = "pending" <=> i \in PendingIds(k)
  /\ fate[k][i] = "started" <=> i \in delivered[k]

\* The places of key k, each with every submission once, and apart.
StagedOnce(k) == \A p, q \in DOMAIN staged[k] : staged[k][p] = staged[k][q] => p = q
QueuedOnce(k) == \A p, q \in DOMAIN queue[k] : queue[k][p].id = queue[k][q].id => p = q
PushedOnce(k) ==
  \A t, u \in Tasks : Pushing(t, k) /\ Pushing(u, k) /\ task[t].id = task[u].id => t = u
Apart(k) ==
  \A i \in Ids : /\ ~(i \in StagedIds(k) /\ i \in QueuedIds(k))
                 /\ ~(i \in PushingIds(k) /\ (i \in StagedIds(k) \/ i \in QueuedIds(k)))

KeyInv(k) ==
  /\ \A i \in Ids : Settles(k, i)
  /\ StagedOnce(k) /\ QueuedOnce(k) /\ PushedOnce(k) /\ Apart(k)

\* A remove or move between its two critical sections.
SeekInv(t) ==
  task[t].pc = "turns" =>
    /\ fate[task[t].key][task[t].id] # "none"
    /\ fate[task[t].key][task[t].id] = "pending" => task[t].id \in QueuedIds(task[t].key)

AccountInv == TypeOK /\ (\A k \in Keys : KeyInv(k)) /\ (\A t \in Tasks : SeekInv(t))

\* What a step may do to the fate of a submission: the relation SettledOnce boxes.
FateStep(k, i) ==
  \/ fate'[k][i] = fate[k][i]
  \/ fate[k][i] = "none" /\ fate'[k][i] = "pending"
  \/ fate[k][i] = "pending" /\ fate'[k][i] \in {"started", "removed", "dropped"}
  \/ fate[k][i] = "started" /\ fate'[k][i] = "ended"
FateSteps == \A k \in Keys, i \in Ids : FateStep(k, i)

\* What a step that concerns key k and task t leaves alone: the other keys' part
\* of the pending queues, and the other tasks.
OnlyKey(k, t) ==
  /\ \A j \in Keys \ {k} :
       /\ staged'[j] = staged[j] /\ queue'[j] = queue[j]
       /\ lastId'[j] = lastId[j] /\ delivered'[j] = delivered[j] /\ fate'[j] = fate[j]
  /\ \A u \in Tasks \ {t} : task'[u] = task[u]
  /\ task[t].pc = "push" => task[t].key = k
  /\ task'[t].pc = "push" => task'[t].key = k

-----------------------------------------------------------------------------
(* Frames *)

LEMMA PlacesType ==
  ASSUME TypeOK, NEW k \in Keys
  PROVE  StagedIds(k) \subseteq Ids /\ QueuedIds(k) \subseteq Ids /\ PushingIds(k) \subseteq Ids
<1>1. StagedIds(k) \subseteq Ids
  BY DEF TypeOK, StagedIds
<1>2. QueuedIds(k) \subseteq Ids
  <2>1. queue[k] \in Seq(Turns)
    BY DEF TypeOK
  <2>2. \A p \in DOMAIN queue[k] : queue[k][p] \in Turns
    BY <2>1
  <2> QED
    BY <2>2 DEF QueuedIds, Turns
<1>3. PushingIds(k) \subseteq Ids
  BY CallType DEF PushingIds, Pushing, CallOK
<1> QED
  BY <1>1, <1>2, <1>3

\* A key whose queues, ids and pushing tasks do not change keeps its account.
LEMMA KeyFrame ==
  ASSUME NEW k \in Keys, KeyInv(k),
         staged'[k] = staged[k], queue'[k] = queue[k], lastId'[k] = lastId[k],
         delivered'[k] = delivered[k], fate'[k] = fate[k],
         \A u \in Tasks : Pushing(u, k)' <=> Pushing(u, k),
         \A u \in Tasks : Pushing(u, k) => task'[u].id = task[u].id
  PROVE  KeyInv(k)'
<1>1. StagedIds(k)' = StagedIds(k) /\ QueuedIds(k)' = QueuedIds(k)
  BY DEF StagedIds, QueuedIds
<1>2. PushingIds(k)' = PushingIds(k)
  BY DEF PushingIds
<1>3. PendingIds(k)' = PendingIds(k)
  BY <1>1, <1>2 DEF PendingIds
<1>4. \A i \in Ids : Settles(k, i)'
  BY <1>3 DEF KeyInv, Settles
<1>5. StagedOnce(k)' /\ QueuedOnce(k)' /\ Apart(k)'
  BY <1>1, <1>2 DEF KeyInv, StagedOnce, QueuedOnce, Apart
<1>6. PushedOnce(k)'
  BY DEF KeyInv, PushedOnce
<1> QED
  BY <1>4, <1>5, <1>6 DEF KeyInv

\* A step that concerns key k and task t preserves the invariant if it keeps the
\* account of k and the search of t.
LEMMA StepFrame ==
  ASSUME AccountInv, TypeOK', NEW k \in Keys, NEW t \in Tasks, OnlyKey(k, t),
         KeyInv(k)', SeekInv(t)', \A i \in Ids : FateStep(k, i),
         \A i \in Ids : fate'[k][i] = "pending" /\ i \in QueuedIds(k) => i \in QueuedIds(k)'
  PROVE  AccountInv' /\ FateSteps
<1>1. ASSUME NEW j \in Keys, j # k PROVE KeyInv(j)'
  <2>1. \A u \in Tasks : Pushing(u, j)' <=> Pushing(u, j)
    BY <1>1 DEF OnlyKey, Pushing
  <2>2. \A u \in Tasks : Pushing(u, j) => task'[u].id = task[u].id
    BY <1>1 DEF OnlyKey, Pushing
  <2> QED
    BY <1>1, <2>1, <2>2, KeyFrame DEF OnlyKey, AccountInv
<1>2. FateSteps
  BY DEF OnlyKey, FateSteps, FateStep
<1>3. ASSUME NEW u \in Tasks, u # t PROVE SeekInv(u)'
  <2> SUFFICES ASSUME task[u].pc = "turns", task'[u] = task[u] PROVE SeekInv(u)'
    BY <1>3 DEF OnlyKey, SeekInv
  <2>1. PICK j \in Keys, i \in Ids : task[u].key = j /\ task[u].id = i
    BY CallType DEF AccountInv, CallOK
  <2>2. fate[j][i] # "none" /\ (fate[j][i] = "pending" => i \in QueuedIds(j))
    BY <2>1 DEF AccountInv, SeekInv
  <2>3. FateStep(j, i)
    BY <1>2 DEF FateSteps
  <2>4. fate'[j][i] # "none" /\ (fate'[j][i] = "pending" => i \in QueuedIds(j))
    BY <2>2, <2>3 DEF FateStep
  <2>5. fate'[j][i] = "pending" /\ i \in QueuedIds(j) => i \in QueuedIds(j)'
    BY DEF OnlyKey, QueuedIds
  <2>6. task'[u].key = j /\ task'[u].id = i
    BY <2>1
  <2> QED
    BY <2>4, <2>5, <2>6 DEF SeekInv, QueuedIds
<1> QED
  BY <1>1, <1>2, <1>3 DEF AccountInv

\* The step of task t neither is nor starts a push or a search.
Quiet(t) ==
  /\ \A u \in Tasks \ {t} : task'[u] = task[u]
  /\ task[t].pc # "push" /\ task'[t].pc \notin {"push", "turns"}

LEMMA QuietPushing ==
  ASSUME NEW t \in Tasks, \A u \in Tasks \ {t} : task'[u] = task[u],
         task[t].pc # "push", task'[t].pc # "push"
  PROVE  \A k \in Keys :
           /\ \A u \in Tasks : Pushing(u, k)' <=> Pushing(u, k)
           /\ \A u \in Tasks : Pushing(u, k) => task'[u].id = task[u].id
           /\ PushingIds(k)' = PushingIds(k)
           /\ PushedOnce(k) => PushedOnce(k)'
<1> SUFFICES ASSUME NEW k \in Keys
             PROVE  /\ \A u \in Tasks : Pushing(u, k)' <=> Pushing(u, k)
                    /\ \A u \in Tasks : Pushing(u, k) => task'[u].id = task[u].id
                    /\ PushingIds(k)' = PushingIds(k)
                    /\ PushedOnce(k) => PushedOnce(k)'
  OBVIOUS
<1>1. \A u \in Tasks : Pushing(u, k)' <=> Pushing(u, k)
  BY DEF Pushing
<1>2. \A u \in Tasks : Pushing(u, k) => task'[u].id = task[u].id
  BY DEF Pushing
<1>3. PushingIds(k)' = PushingIds(k)
  BY <1>1, <1>2 DEF PushingIds
<1>4. PushedOnce(k) => PushedOnce(k)'
  BY <1>1, <1>2 DEF PushedOnce
<1> QED
  BY <1>1, <1>2, <1>3, <1>4

\* A step of a call that leaves the queues, ids and fates alone.
LEMMA IdleStep ==
  ASSUME AccountInv, TypeOK', UNCHANGED pending, NEW t \in Tasks,
         \A u \in Tasks \ {t} : task'[u] = task[u],
         task[t].pc # "push", task'[t].pc # "push", SeekInv(t)'
  PROVE  AccountInv' /\ FateSteps
<1>1. ASSUME NEW k \in Keys PROVE KeyInv(k)'
  <2>1. /\ \A u \in Tasks : Pushing(u, k)' <=> Pushing(u, k)
        /\ \A u \in Tasks : Pushing(u, k) => task'[u].id = task[u].id
    BY QuietPushing
  <2> QED
    BY <2>1, KeyFrame DEF pending, AccountInv
<1>2. FateSteps
  BY DEF FateSteps, FateStep, pending
<1>3. ASSUME NEW u \in Tasks, u # t PROVE SeekInv(u)'
  BY <1>3 DEF SeekInv, QueuedIds, AccountInv, pending
<1> QED
  BY <1>1, <1>2, <1>3 DEF AccountInv

LEMMA SettledValue ==
  ASSUME TypeOK, NEW k \in Keys, NEW ids, NEW f, fate' = Settled(k, ids, f)
  PROVE  /\ \A j \in Keys \ {k} : fate'[j] = fate[j]
         /\ \A i \in Ids : fate'[k][i] = IF i \in ids THEN f ELSE fate[k][i]
  BY DEF TypeOK, Settled

-----------------------------------------------------------------------------
(* What a step does to the pending queues *)

\* The staging queue goes with its mapping: its submissions are dropped.
LEMMA DropStep ==
  ASSUME AccountInv, TypeOK', NEW k \in Keys, NEW t \in Tasks,
         DropStaged(k), UNCHANGED <<queue, lastId, delivered>>, Quiet(t)
  PROVE  AccountInv' /\ FateSteps
<1>1. KeyInv(k) /\ TypeOK
  BY DEF AccountInv
<1>2. /\ PushingIds(k)' = PushingIds(k) /\ PushedOnce(k)'
  BY <1>1, QuietPushing DEF Quiet, KeyInv
<1>3. /\ \A j \in Keys \ {k} : fate'[j] = fate[j]
      /\ \A i \in Ids : fate'[k][i] = IF i \in StagedIds(k) THEN "dropped" ELSE fate[k][i]
  BY <1>1, SettledValue DEF DropStaged
<1>4. staged' = [staged EXCEPT ![k] = <<>>] /\ staged'[k] = <<>>
  BY <1>1 DEF DropStaged, TypeOK
<1>5. StagedIds(k)' = {} /\ QueuedIds(k)' = QueuedIds(k)
  BY <1>4 DEF StagedIds, QueuedIds
<1>6. \A i \in Ids : Settles(k, i)'
  BY <1>1, <1>2, <1>3, <1>5 DEF KeyInv, Settles, PendingIds, Apart
<1>7. StagedOnce(k)' /\ QueuedOnce(k)' /\ Apart(k)'
  BY <1>1, <1>2, <1>4, <1>5 DEF KeyInv, StagedOnce, QueuedOnce, Apart
<1>8. OnlyKey(k, t)
  BY <1>1, <1>3, <1>4 DEF OnlyKey, Quiet, TypeOK
<1>9. \A i \in Ids : FateStep(k, i)
  BY <1>1, <1>3 DEF FateStep, KeyInv, Settles, PendingIds
<1>10. SeekInv(t)'
  BY DEF Quiet, SeekInv
<1> QED
  BY <1>2, <1>5, <1>6, <1>7, <1>8, <1>9, <1>10, StepFrame DEF KeyInv

\* The turn queue is cleared: its turns are dropped, the delivered ids forgotten.
LEMMA ClearStep ==
  ASSUME AccountInv, TypeOK', NEW k \in Keys, NEW t \in Tasks,
         ClearQueue(k), UNCHANGED <<staged, lastId>>, Quiet(t)
  PROVE  AccountInv' /\ FateSteps
<1>1. KeyInv(k) /\ TypeOK
  BY DEF AccountInv
<1>2. /\ PushingIds(k)' = PushingIds(k) /\ PushedOnce(k)'
  BY <1>1, QuietPushing DEF Quiet, KeyInv
<1>3. /\ \A j \in Keys \ {k} : fate'[j] = fate[j]
      /\ \A i \in Ids : fate'[k][i] = IF i \in QueuedIds(k) THEN "dropped"
                                      ELSE IF i \in delivered[k] THEN "ended" ELSE fate[k][i]
  BY <1>1 DEF ClearQueue, TypeOK
<1>4. /\ queue' = [queue EXCEPT ![k] = <<>>] /\ queue'[k] = <<>>
      /\ delivered' = [delivered EXCEPT ![k] = {}] /\ delivered'[k] = {}
  BY <1>1 DEF ClearQueue, TypeOK
<1>5. StagedIds(k)' = StagedIds(k) /\ QueuedIds(k)' = {}
  BY <1>4 DEF StagedIds, QueuedIds
<1>6. \A i \in Ids : Settles(k, i)'
  BY <1>1, <1>2, <1>3, <1>4, <1>5 DEF KeyInv, Settles, PendingIds, Apart
<1>7. StagedOnce(k)' /\ QueuedOnce(k)' /\ Apart(k)'
  BY <1>1, <1>2, <1>4, <1>5 DEF KeyInv, StagedOnce, QueuedOnce, Apart
<1>8. OnlyKey(k, t)
  BY <1>1, <1>3, <1>4 DEF OnlyKey, Quiet, TypeOK
<1>9. \A i \in Ids : FateStep(k, i)
  BY <1>1, <1>3 DEF FateStep, KeyInv, Settles, PendingIds
<1>10. SeekInv(t)'
  BY DEF Quiet, SeekInv
<1>11. \A i \in Ids : i \in QueuedIds(k) => fate'[k][i] # "pending"
  BY <1>3
<1> QED
  BY <1>2, <1>6, <1>7, <1>8, <1>9, <1>10, <1>11, StepFrame DEF KeyInv

\* The placeholder turns Active: what it staged is delivered as one turn.
LEMMA DeliverStep ==
  ASSUME AccountInv, TypeOK', NEW k \in Keys, NEW t \in Tasks,
         staged' = [staged EXCEPT ![k] = <<>>],
         delivered' = [delivered EXCEPT ![k] = @ \cup StagedIds(k)],
         fate' = Settled(k, StagedIds(k), "started"),
         UNCHANGED <<queue, lastId>>, Quiet(t)
  PROVE  AccountInv' /\ FateSteps
<1>1. KeyInv(k) /\ TypeOK
  BY DEF AccountInv
<1>2. /\ PushingIds(k)' = PushingIds(k) /\ PushedOnce(k)'
  BY <1>1, QuietPushing DEF Quiet, KeyInv
<1>3. /\ \A j \in Keys \ {k} : fate'[j] = fate[j]
      /\ \A i \in Ids : fate'[k][i] = IF i \in StagedIds(k) THEN "started" ELSE fate[k][i]
  BY <1>1, SettledValue
<1>4. staged'[k] = <<>> /\ delivered'[k] = delivered[k] \cup StagedIds(k)
  BY <1>1 DEF TypeOK
<1>5. StagedIds(k)' = {} /\ QueuedIds(k)' = QueuedIds(k)
  BY <1>4 DEF StagedIds, QueuedIds
<1>6. \A i \in Ids : Settles(k, i)'
  BY <1>1, <1>2, <1>3, <1>4, <1>5 DEF KeyInv, Settles, PendingIds, Apart
<1>7. StagedOnce(k)' /\ QueuedOnce(k)' /\ Apart(k)'
  BY <1>1, <1>2, <1>4, <1>5 DEF KeyInv, StagedOnce, QueuedOnce, Apart
<1>8. OnlyKey(k, t)
  BY <1>1, <1>3, <1>4 DEF OnlyKey, Quiet, TypeOK
<1>9. \A i \in Ids : FateStep(k, i)
  BY <1>1, <1>3 DEF FateStep, KeyInv, Settles, PendingIds
<1>10. SeekInv(t)'
  BY DEF Quiet, SeekInv
<1> QED
  BY <1>2, <1>5, <1>6, <1>7, <1>8, <1>9, <1>10, StepFrame DEF KeyInv

\* A text is staged under a fresh id.
LEMMA StageStep ==
  ASSUME AccountInv, TypeOK', NEW k \in UserKeys, NEW t \in Tasks, RouteStage(t, k)
  PROVE  AccountInv' /\ FateSteps
<1> DEFINE n == lastId[k] + 1
<1>1. KeyInv(k) /\ TypeOK /\ k \in Keys /\ Quiet(t)
  BY DEF AccountInv, Keys, RouteStage, Quiet
<1>2. /\ PushingIds(k)' = PushingIds(k) /\ PushedOnce(k)'
  BY <1>1, QuietPushing DEF Quiet, KeyInv
<1>3. n \in Ids /\ lastId[k] \in Nat /\ lastId'[k] = n /\ \A j \in Keys \ {k} : lastId'[j] = lastId[j]
  BY <1>1, ConstantsAssumption DEF RouteStage, TypeOK, Ids
<1>4. staged[k] \in Seq(Ids) /\ staged' = [staged EXCEPT ![k] = Append(@, n)]
  BY <1>1 DEF RouteStage, TypeOK
<1>5. fate' = Settled(k, {n}, "pending") /\ UNCHANGED <<queue, delivered>>
  BY DEF RouteStage
<1>6. fate[k][n] = "none"
  BY <1>1, <1>3 DEF KeyInv, Settles, Ids
<1> HIDE DEF n
<1>7. /\ \A j \in Keys \ {k} : fate'[j] = fate[j]
      /\ \A i \in Ids : fate'[k][i] = IF i = n THEN "pending" ELSE fate[k][i]
  BY <1>1, <1>5, SettledValue
<1>8. /\ staged'[k] \in Seq(Ids) /\ Len(staged'[k]) = Len(staged[k]) + 1
      /\ \A p \in 1..Len(staged[k]) : staged'[k][p] = staged[k][p]
      /\ staged'[k][Len(staged[k]) + 1] = n
  BY <1>1, <1>3, <1>4 DEF TypeOK
<1>9. StagedIds(k)' = StagedIds(k) \cup {n} /\ QueuedIds(k)' = QueuedIds(k)
  <2>1. StagedIds(k)' = StagedIds(k) \cup {n}
    BY <1>4, <1>8 DEF StagedIds
  <2> QED
    BY <1>5, <2>1 DEF QueuedIds
<1>10. n \notin PendingIds(k)
  BY <1>1, <1>3, <1>6 DEF KeyInv, Settles
<1>11. \A i \in Ids : i <= n <=> i <= lastId[k] \/ i = n
  BY <1>3 DEF Ids, n
<1>12. \A i \in Ids : Settles(k, i)'
  <2> SUFFICES ASSUME NEW i \in Ids PROVE Settles(k, i)'
    OBVIOUS
  <2>1. fate'[k][i] # "none" <=> i <= lastId'[k]
    BY <1>1, <1>3, <1>7, <1>11 DEF KeyInv, Settles
  <2>2. PendingIds(k)' = PendingIds(k) \cup {n}
    BY <1>2, <1>9 DEF PendingIds
  <2>3. fate'[k][i] = "pending" <=> i \in PendingIds(k)'
    BY <1>1, <1>7, <2>2 DEF KeyInv, Settles
  <2>4. fate'[k][i] = "started" <=> i \in delivered'[k]
    BY <1>1, <1>5, <1>6, <1>7 DEF KeyInv, Settles
  <2> QED
    BY <2>1, <2>3, <2>4 DEF Settles
<1>13. n \notin StagedIds(k)
  BY <1>10 DEF PendingIds
<1>14. StagedOnce(k)'
  BY <1>1, <1>4, <1>8, <1>13 DEF KeyInv, StagedOnce, StagedIds
<1>15. QueuedOnce(k)' /\ Apart(k)'
  BY <1>1, <1>2, <1>5, <1>9, <1>10 DEF KeyInv, QueuedOnce, Apart, PendingIds
<1>16. OnlyKey(k, t)
  BY <1>1, <1>3, <1>4, <1>5, <1>7 DEF OnlyKey, Quiet, TypeOK
<1>17. \A i \in Ids : FateStep(k, i)
  BY <1>6, <1>7 DEF FateStep
<1>18. SeekInv(t)'
  BY <1>1 DEF Quiet, SeekInv
<1> QED
  BY <1>1, <1>2, <1>9, <1>12, <1>14, <1>15, <1>16, <1>17, <1>18, StepFrame DEF KeyInv

-----------------------------------------------------------------------------
(* Removing from and inserting into the queues *)

\* r is q with its place p left out: the places of r are those of q but p.
Without(r, q, p) ==
  \E m \in [DOMAIN r -> DOMAIN q \ {p}] :
    /\ \A a \in DOMAIN r : r[a] = q[m[a]]
    /\ \A a, b \in DOMAIN r : m[a] = m[b] => a = b
    /\ \A c \in DOMAIN q \ {p} : \E a \in DOMAIN r : m[a] = c

LEMMA WithoutShift ==
  ASSUME NEW r, NEW q, NEW n \in Nat, NEW p \in 1..(n + 1),
         DOMAIN r = 1..n, DOMAIN q = 1..(n + 1),
         \A a \in 1..n : r[a] = IF a < p THEN q[a] ELSE q[a + 1]
  PROVE  Without(r, q, p)
<1> DEFINE m == [a \in 1..n |-> IF a < p THEN a ELSE a + 1]
<1>1. m \in [DOMAIN r -> DOMAIN q \ {p}]
  OBVIOUS
<1>2. \A a \in DOMAIN r : r[a] = q[m[a]]
  OBVIOUS
<1>3. \A a, b \in DOMAIN r : m[a] = m[b] => a = b
  OBVIOUS
<1>4. ASSUME NEW c \in DOMAIN q \ {p} PROVE \E a \in DOMAIN r : m[a] = c
  <2>1. CASE c < p
    <3>1. c \in 1..n /\ m[c] = c
      BY <2>1
    <3> QED
      BY <3>1
  <2>2. CASE ~(c < p)
    <3>1. c - 1 \in 1..n /\ m[c - 1] = c
      BY <2>2
    <3> QED
      BY <3>1
  <2> QED
    BY <2>1, <2>2
<1> HIDE DEF m
<1> QED
  BY <1>1, <1>2, <1>3, <1>4 DEF Without

LEMMA RemoveWithout ==
  ASSUME NEW S, NEW q \in Seq(S), NEW p \in 1..Len(q)
  PROVE  Without(RemoveAt(q, p), q, p)
<1>1. /\ RemoveAt(q, p) \in Seq(S) /\ Len(RemoveAt(q, p)) = Len(q) - 1
      /\ \A j \in 1..Len(q)-1 : RemoveAt(q, p)[j] = IF j < p THEN q[j] ELSE q[j + 1]
  BY RemoveAtType
<1> DEFINE r == RemoveAt(q, p)
           n == Len(q) - 1
<1> HIDE DEF r
<1>2. n \in Nat /\ p \in 1..(n + 1) /\ DOMAIN r = 1..n /\ DOMAIN q = 1..(n + 1)
  BY <1>1 DEF r
<1>3. \A a \in 1..n : r[a] = IF a < p THEN q[a] ELSE q[a + 1]
  BY <1>1 DEF r
<1> HIDE DEF n
<1>4. Without(r, q, p)
  BY <1>2, <1>3, WithoutShift
<1> QED
  BY <1>4 DEF r

LEMMA InsertWithout ==
  ASSUME NEW S, NEW q \in Seq(S), NEW e \in S, NEW p \in 1..(Len(q) + 1)
  PROVE  /\ p \in DOMAIN InsertAt(q, p, e) /\ InsertAt(q, p, e)[p] = e
         /\ Without(q, InsertAt(q, p, e), p)
<1> DEFINE r == InsertAt(q, p, e)
           n == Len(q)
<1>1. r \in Seq(S) /\ Len(r) = n + 1
  BY InsertAtType
<1>2. \A j \in 1..(n + 1) : r[j] = IF j < p THEN q[j] ELSE IF j = p THEN e ELSE q[j - 1]
  BY InsertAtType, SMTT(60)
<1> HIDE DEF r
<1>3. n \in Nat /\ p \in 1..(n + 1) /\ DOMAIN q = 1..n /\ DOMAIN r = 1..(n + 1)
  BY <1>1
<1>4. \A a \in 1..n : q[a] = IF a < p THEN r[a] ELSE r[a + 1]
  <2> SUFFICES ASSUME NEW a \in 1..n PROVE q[a] = IF a < p THEN r[a] ELSE r[a + 1]
    OBVIOUS
  <2>1. a \in 1..(n + 1) /\ a + 1 \in 1..(n + 1)
    BY <1>3
  <2> QED
    BY <1>2, <1>3, <2>1
<1>5. r[p] = e
  BY <1>2, <1>3
<1> HIDE DEF n
<1>6. Without(q, r, p)
  BY <1>3, <1>4, WithoutShift
<1> QED
  BY <1>3, <1>5, <1>6 DEF r

LEMMA TailWithout ==
  ASSUME NEW S, NEW q \in Seq(S), q # <<>>
  PROVE  Without(Tail(q), q, 1) /\ 1 \in DOMAIN q /\ q[1] = Head(q)
<1> DEFINE r == Tail(q)
           n == Len(q) - 1
<1>1. n \in Nat /\ DOMAIN r = 1..n /\ DOMAIN q = 1..(n + 1) /\ 1 \in 1..(n + 1)
  OBVIOUS
<1>2. \A a \in 1..n : r[a] = IF a < 1 THEN q[a] ELSE q[a + 1]
  OBVIOUS
<1> HIDE DEF r, n
<1>3. Without(r, q, 1)
  BY <1>1, <1>2, WithoutShift
<1> QED
  BY <1>1, <1>3 DEF r

LEMMA AppendWithout ==
  ASSUME NEW S, NEW q \in Seq(S), NEW e \in S
  PROVE  \E p \in DOMAIN Append(q, e) : Append(q, e)[p] = e /\ Without(q, Append(q, e), p)
<1> DEFINE r == Append(q, e)
           n == Len(q)
<1>1. n \in Nat /\ DOMAIN q = 1..n /\ DOMAIN r = 1..(n + 1) /\ n + 1 \in 1..(n + 1) /\ r[n + 1] = e
  OBVIOUS
<1>2. \A a \in 1..n : q[a] = IF a < n + 1 THEN r[a] ELSE r[a + 1]
  OBVIOUS
<1> HIDE DEF r, n
<1>3. Without(q, r, n + 1)
  BY <1>1, <1>2, WithoutShift
<1> QED
  BY <1>1, <1>3 DEF r

LEMMA ConsWithout ==
  ASSUME NEW S, NEW q \in Seq(S), NEW e \in S
  PROVE  \E p \in DOMAIN (<<e>> \o q) : (<<e>> \o q)[p] = e /\ Without(q, <<e>> \o q, p)
<1> DEFINE r == <<e>> \o q
           n == Len(q)
<1>1. n \in Nat /\ DOMAIN q = 1..n /\ DOMAIN r = 1..(n + 1) /\ 1 \in 1..(n + 1) /\ r[1] = e
  OBVIOUS
<1>2. \A a \in 1..n : q[a] = IF a < 1 THEN r[a] ELSE r[a + 1]
  OBVIOUS
<1> HIDE DEF r, n
<1>3. Without(q, r, 1)
  BY <1>1, <1>2, WithoutShift
<1> QED
  BY <1>1, <1>3 DEF r

Elems(q)  == {q[a] : a \in DOMAIN q}
ElemIds(q) == {q[a].id : a \in DOMAIN q}
Once(q)   == \A a, b \in DOMAIN q : q[a] = q[b] => a = b
OnceId(q) == \A a, b \in DOMAIN q : q[a].id = q[b].id => a = b

LEMMA WithoutElems ==
  ASSUME NEW r, NEW q, NEW p \in DOMAIN q, Without(r, q, p)
  PROVE  /\ Once(q) => Once(r) /\ Elems(r) = Elems(q) \ {q[p]}
         /\ Once(r) /\ q[p] \notin Elems(r) => Once(q) /\ Elems(q) = Elems(r) \cup {q[p]}
<1>1. PICK m \in [DOMAIN r -> DOMAIN q \ {p}] :
        /\ \A a \in DOMAIN r : r[a] = q[m[a]]
        /\ \A a, b \in DOMAIN r : m[a] = m[b] => a = b
        /\ \A c \in DOMAIN q \ {p} : \E a \in DOMAIN r : m[a] = c
  BY DEF Without
<1>2. \A a \in DOMAIN r : m[a] \in DOMAIN q \ {p}
  OBVIOUS
<1>3. ASSUME Once(q) PROVE Once(r) /\ Elems(r) = Elems(q) \ {q[p]}
  BY <1>1, <1>2, <1>3 DEF Once, Elems
<1>4. ASSUME Once(r), q[p] \notin Elems(r) PROVE Once(q) /\ Elems(q) = Elems(r) \cup {q[p]}
  BY <1>1, <1>2, <1>4 DEF Once, Elems
<1> QED
  BY <1>3, <1>4

LEMMA WithoutElemIds ==
  ASSUME NEW r, NEW q, NEW p \in DOMAIN q, Without(r, q, p)
  PROVE  /\ OnceId(q) => OnceId(r) /\ ElemIds(r) = ElemIds(q) \ {q[p].id}
         /\ OnceId(r) /\ q[p].id \notin ElemIds(r)
              => OnceId(q) /\ ElemIds(q) = ElemIds(r) \cup {q[p].id}
<1>1. PICK m \in [DOMAIN r -> DOMAIN q \ {p}] :
        /\ \A a \in DOMAIN r : r[a] = q[m[a]]
        /\ \A a, b \in DOMAIN r : m[a] = m[b] => a = b
        /\ \A c \in DOMAIN q \ {p} : \E a \in DOMAIN r : m[a] = c
  BY DEF Without
<1>2. \A a \in DOMAIN r : m[a] \in DOMAIN q \ {p}
  OBVIOUS
<1>3. ASSUME OnceId(q) PROVE OnceId(r) /\ ElemIds(r) = ElemIds(q) \ {q[p].id}
  BY <1>1, <1>2, <1>3 DEF OnceId, ElemIds
<1>4. ASSUME OnceId(r), q[p].id \notin ElemIds(r)
      PROVE  OnceId(q) /\ ElemIds(q) = ElemIds(r) \cup {q[p].id}
  BY <1>1, <1>2, <1>4 DEF OnceId, ElemIds
<1> QED
  BY <1>3, <1>4

-----------------------------------------------------------------------------
(* The operations on waiting submissions *)

LEMMA RemoveStagedStep ==
  ASSUME AccountInv, TypeOK', NEW k \in UserKeys, NEW t \in Tasks, NEW i \in Ids,
         RemoveStaged(t, k, i)
  PROVE  AccountInv' /\ FateSteps
<1>1. KeyInv(k) /\ TypeOK /\ k \in Keys /\ task[t].pc = "idle"
  BY DEF AccountInv, Keys, RemoveStaged
<1>2. CASE i \in StagedIds(k)
  <2> DEFINE p == CHOOSE q \in DOMAIN staged[k] : staged[k][q] = i
             r == RemoveAt(staged[k], p)
  <2>1. staged[k] \in Seq(Ids) /\ p \in DOMAIN staged[k] /\ p \in 1..Len(staged[k]) /\ staged[k][p] = i
    BY <1>1, <1>2 DEF StagedIds, TypeOK
  <2>2. staged' = [staged EXCEPT ![k] = r] /\ fate' = Settled(k, {i}, "removed")
        /\ UNCHANGED <<queue, lastId, delivered, task>>
    BY <1>2 DEF RemoveStaged
  <2>3. Without(r, staged[k], p)
    BY <2>1, RemoveWithout
  <2> HIDE DEF p, r
  <2>4. staged'[k] = r /\ \A j \in Keys \ {k} : staged'[j] = staged[j]
    BY <1>1, <2>2 DEF TypeOK
  <2>5. StagedOnce(k)' /\ StagedIds(k)' = StagedIds(k) \ {i}
    <3>1. Once(r) /\ Elems(r) = Elems(staged[k]) \ {i}
      BY <1>1, <2>1, <2>3, WithoutElems DEF KeyInv, StagedOnce, Once
    <3> QED
      BY <2>4, <3>1, SMTT(40) DEF StagedOnce, StagedIds, Once, Elems
  <2>6. /\ \A j \in Keys \ {k} : fate'[j] = fate[j]
        /\ \A x \in Ids : fate'[k][x] = IF x = i THEN "removed" ELSE fate[k][x]
    BY <1>1, <2>2, SettledValue, SMTT(40)
  <2>7. Quiet(t) /\ OnlyKey(k, t)
    BY <1>1, <2>2, <2>4, <2>6 DEF Quiet, OnlyKey
  <2>8. PushingIds(k)' = PushingIds(k) /\ PushedOnce(k)' /\ QueuedIds(k)' = QueuedIds(k)
    BY <1>1, <2>2, <2>7, QuietPushing DEF Quiet, KeyInv, QueuedIds
  <2>9. \A x \in Ids : Settles(k, x)'
    BY <1>1, <1>2, <2>2, <2>5, <2>6, <2>8, SMTT(40) DEF KeyInv, Settles, PendingIds, Apart
  <2>10. QueuedOnce(k)' /\ Apart(k)'
    BY <1>1, <2>2, <2>5, <2>8 DEF KeyInv, QueuedOnce, Apart
  <2>11. fate[k][i] = "pending"
    BY <1>1, <1>2 DEF KeyInv, Settles, PendingIds
  <2>12. (\A x \in Ids : FateStep(k, x)) /\ SeekInv(t)'
    BY <1>1, <2>2, <2>6, <2>11 DEF FateStep, SeekInv
  <2> QED
    BY <1>1, <2>5, <2>7, <2>8, <2>9, <2>10, <2>12, StepFrame DEF KeyInv
<1>3. CASE i \notin StagedIds(k)
  <2>1. Goto(t, [Idle EXCEPT !.pc = "turns", !.key = k, !.id = i]) /\ UNCHANGED pending
    BY <1>3 DEF RemoveStaged, pending
  <2>2. task'[t].pc = "turns" /\ task'[t].key = k /\ task'[t].id = i
        /\ \A u \in Tasks \ {t} : task'[u] = task[u]
    BY <1>1, <2>1 DEF Goto, TypeOK, Idle
  <2>3. fate[k][i] # "none" /\ (fate[k][i] = "pending" => i \in QueuedIds(k))
    BY <1>1, <1>3 DEF KeyInv, Settles, PendingIds, RemoveStaged
  <2>4. SeekInv(t)'
    BY <2>1, <2>2, <2>3 DEF SeekInv, QueuedIds, pending
  <2> QED
    BY <1>1, <2>1, <2>2, <2>4, IdleStep
<1> QED
  BY <1>2, <1>3

LEMMA MoveStagedStep ==
  ASSUME AccountInv, TypeOK', NEW k \in UserKeys, NEW t \in Tasks, NEW i \in Ids, NEW n \in Ids,
         MoveStaged(t, k, i, n)
  PROVE  AccountInv' /\ FateSteps
<1>1. KeyInv(k) /\ TypeOK /\ k \in Keys /\ task[t].pc = "idle"
  BY DEF AccountInv, Keys, MoveStaged
<1>2. CASE i \in StagedIds(k)
  <2> DEFINE p == CHOOSE q \in DOMAIN staged[k] : staged[k][q] = i
             r == RemoveAt(staged[k], p)
             z == InsertAt(r, n, i)
  <2>1. staged[k] \in Seq(Ids) /\ p \in DOMAIN staged[k] /\ p \in 1..Len(staged[k]) /\ staged[k][p] = i
    BY <1>1, <1>2 DEF StagedIds, TypeOK
  <2>2. staged' = [staged EXCEPT ![k] = z] /\ UNCHANGED <<queue, lastId, delivered, fate, task>>
        /\ n <= Len(staged[k])
    BY <1>2 DEF MoveStaged
  <2>3. Without(r, staged[k], p) /\ r \in Seq(Ids) /\ Len(r) = Len(staged[k]) - 1
    BY <2>1, RemoveWithout, RemoveAtType
  <2> HIDE DEF p, r
  <2>4. n \in 1..(Len(r) + 1)
    BY <2>1, <2>2, <2>3 DEF Ids
  <2>5. n \in DOMAIN z /\ z[n] = i /\ Without(r, z, n)
    BY <2>3, <2>4, InsertWithout
  <2> HIDE DEF z
  <2>6. staged'[k] = z /\ \A j \in Keys \ {k} : staged'[j] = staged[j]
    BY <1>1, <2>2 DEF TypeOK
  <2>7. StagedOnce(k)' /\ StagedIds(k)' = StagedIds(k)
    <3>1. Once(r) /\ Elems(r) = Elems(staged[k]) \ {i}
      BY <1>1, <2>1, <2>3, WithoutElems DEF KeyInv, StagedOnce, Once
    <3>2. Once(z) /\ Elems(z) = Elems(r) \cup {i}
      BY <2>5, <3>1, WithoutElems
    <3>3. i \in Elems(staged[k])
      BY <1>2 DEF StagedIds, Elems
    <3> QED
      BY <2>6, <3>1, <3>2, <3>3 DEF StagedOnce, StagedIds, Once, Elems
  <2>8. Quiet(t) /\ OnlyKey(k, t)
    BY <1>1, <2>2, <2>6 DEF Quiet, OnlyKey
  <2>9. PushingIds(k)' = PushingIds(k) /\ PushedOnce(k)' /\ QueuedIds(k)' = QueuedIds(k)
    BY <1>1, <2>2, <2>8, QuietPushing DEF Quiet, KeyInv, QueuedIds
  <2>10. \A x \in Ids : Settles(k, x)'
    BY <1>1, <2>2, <2>7, <2>9 DEF KeyInv, Settles, PendingIds
  <2>11. QueuedOnce(k)' /\ Apart(k)'
    BY <1>1, <2>2, <2>7, <2>9 DEF KeyInv, QueuedOnce, Apart
  <2>12. (\A x \in Ids : FateStep(k, x)) /\ SeekInv(t)'
    BY <1>1, <2>2 DEF FateStep, SeekInv
  <2> QED
    BY <1>1, <2>7, <2>8, <2>9, <2>10, <2>11, <2>12, StepFrame DEF KeyInv
<1>3. CASE i \notin StagedIds(k)
  <2>1. Goto(t, [Idle EXCEPT !.pc = "turns", !.key = k, !.id = i, !.to = n]) /\ UNCHANGED pending
    BY <1>3 DEF MoveStaged, pending
  <2>2. task'[t].pc = "turns" /\ task'[t].key = k /\ task'[t].id = i
        /\ \A u \in Tasks \ {t} : task'[u] = task[u]
    BY <1>1, <2>1 DEF Goto, TypeOK, Idle
  <2>3. fate[k][i] # "none" /\ (fate[k][i] = "pending" => i \in QueuedIds(k))
    BY <1>1, <1>3 DEF KeyInv, Settles, PendingIds, MoveStaged
  <2>4. SeekInv(t)'
    BY <2>1, <2>2, <2>3 DEF SeekInv, QueuedIds, pending
  <2> QED
    BY <1>1, <2>1, <2>2, <2>4, IdleStep
<1> QED
  BY <1>2, <1>3

\* Submission i leaves the turn queue of k and is settled with fate f.
LEMMA UnqueueStep ==
  ASSUME AccountInv, TypeOK', NEW k \in Keys, NEW t \in Tasks,
         NEW p \in DOMAIN queue[k], NEW r, Without(r, queue[k], p),
         queue' = [queue EXCEPT ![k] = r], UNCHANGED <<staged, lastId>>, Quiet(t),
         NEW i \in Ids, queue[k][p].id = i,
         \/ fate' = Settled(k, {i}, "removed") /\ UNCHANGED delivered
         \/ /\ fate' = Settled(k, {i}, "started")
            /\ delivered' = [delivered EXCEPT ![k] = delivered[k] \cup {i}]
  PROVE  AccountInv' /\ FateSteps
<1>1. KeyInv(k) /\ TypeOK
  BY DEF AccountInv
<1>2. queue'[k] = r /\ \A j \in Keys \ {k} : queue'[j] = queue[j] /\ delivered'[j] = delivered[j]
  BY <1>1 DEF TypeOK
<1>3. QueuedOnce(k)' /\ QueuedIds(k)' = QueuedIds(k) \ {i} /\ i \in QueuedIds(k)
  <2>1. OnceId(r) /\ ElemIds(r) = ElemIds(queue[k]) \ {i} /\ i \in ElemIds(queue[k])
    BY <1>1, WithoutElemIds DEF KeyInv, QueuedOnce, OnceId, ElemIds
  <2> QED
    BY <1>2, <2>1 DEF QueuedOnce, QueuedIds, OnceId, ElemIds
<1>4. /\ \A j \in Keys \ {k} : fate'[j] = fate[j]
      /\ \A x \in Ids \ {i} : fate'[k][x] = fate[k][x]
      /\ \/ fate'[k][i] = "removed" /\ delivered'[k] = delivered[k]
         \/ fate'[k][i] = "started" /\ delivered'[k] = delivered[k] \cup {i}
  <2>1. CASE fate' = Settled(k, {i}, "removed") /\ UNCHANGED delivered
    <3>1. /\ \A j \in Keys \ {k} : fate'[j] = fate[j]
          /\ \A x \in Ids : fate'[k][x] = IF x \in {i} THEN "removed" ELSE fate[k][x]
      BY <1>1, <2>1 DEF Settled, TypeOK
    <3> QED
      BY <2>1, <3>1
  <2>2. CASE /\ fate' = Settled(k, {i}, "started")
             /\ delivered' = [delivered EXCEPT ![k] = delivered[k] \cup {i}]
    <3>1. delivered'[k] = delivered[k] \cup {i}
      BY <1>1, <2>2 DEF TypeOK
    <3>2. /\ \A j \in Keys \ {k} : fate'[j] = fate[j]
          /\ \A x \in Ids : fate'[k][x] = IF x \in {i} THEN "started" ELSE fate[k][x]
      BY <1>1, <2>2 DEF Settled, TypeOK
    <3> QED
      BY <3>1, <3>2
  <2> QED
    BY <2>1, <2>2
<1>5. PushingIds(k)' = PushingIds(k) /\ PushedOnce(k)' /\ StagedIds(k)' = StagedIds(k)
  BY <1>1, QuietPushing DEF Quiet, KeyInv, StagedIds
<1>6. fate[k][i] = "pending"
  BY <1>1, <1>3 DEF KeyInv, Settles, PendingIds
<1>7. ASSUME NEW x \in Ids PROVE Settles(k, x)'
  <2>1. CASE x = i
    BY <1>1, <1>3, <1>4, <1>5, <1>6, <2>1 DEF KeyInv, Settles, PendingIds, Apart
  <2>2. CASE x # i
    BY <1>1, <1>3, <1>4, <1>5, <2>2 DEF KeyInv, Settles, PendingIds
  <2> QED
    BY <2>1, <2>2
<1>8. StagedOnce(k)' /\ Apart(k)'
  BY <1>1, <1>3, <1>5 DEF KeyInv, StagedOnce, Apart
<1>9. OnlyKey(k, t)
  BY <1>2, <1>4 DEF OnlyKey, Quiet
<1>10. ASSUME NEW x \in Ids PROVE FateStep(k, x)
  BY <1>4, <1>6 DEF FateStep
<1>11. SeekInv(t)'
  BY DEF Quiet, SeekInv
<1>12. \A x \in Ids : fate'[k][x] = "pending" /\ x \in QueuedIds(k) => x \in QueuedIds(k)'
  BY <1>3, <1>4
<1> QED
  BY <1>3, <1>5, <1>7, <1>8, <1>9, <1>10, <1>11, <1>12, StepFrame DEF KeyInv

LEMMA GotoIdle ==
  ASSUME TypeOK, NEW t \in Tasks, task[t].pc # "push", Goto(t, Idle)
  PROVE  Quiet(t)
  BY DEF TypeOK, Goto, Idle, Quiet

LEMMA PopNextStep ==
  ASSUME AccountInv, TypeOK', NEW t \in Tasks, PopNext(t)
  PROVE  AccountInv' /\ FateSteps
<1> DEFINE k == task[t].key
<1>1. TypeOK /\ Quiet(t) /\ k \in Keys
  BY CallType, GotoIdle DEF AccountInv, PopNext
<1>2. CASE queue[k] = <<>>
  <2>1. UNCHANGED pending /\ SeekInv(t)'
    BY <1>1, <1>2 DEF PopNext, pending, SeekInv, Quiet
  <2> QED
    BY <1>1, <2>1, IdleStep DEF Quiet
<1>3. CASE queue[k] # <<>>
  <2>1. queue[k] \in Seq(Turns)
    BY <1>1 DEF TypeOK
  <2>2. PICK j \in Keys : j = k
    BY <1>1
  <2>3. PICK i : i = Head(queue[j]).id
    OBVIOUS
  <2>4. /\ queue' = [queue EXCEPT ![j] = Tail(queue[j])]
        /\ fate' = Settled(j, {i}, "started")
        /\ delivered' = [delivered EXCEPT ![j] = delivered[j] \cup {i}]
        /\ UNCHANGED <<staged, lastId>>
    BY <1>3, <2>2, <2>3 DEF PopNext
  <2>5. /\ Without(Tail(queue[j]), queue[j], 1) /\ 1 \in DOMAIN queue[j]
        /\ queue[j][1].id = i /\ queue[j] \in Seq(Turns)
    BY <1>3, <2>1, <2>2, <2>3, TailWithout
  <2>6. i \in Ids
    <3>1. queue[j][1] \in Turns
      BY <2>5
    <3> QED
      BY <2>5, <3>1 DEF Turns
  <2> HIDE DEF k
  <2> QED
    BY <1>1, <2>4, <2>5, <2>6, UnqueueStep
<1> QED
  BY <1>2, <1>3

LEMMA RemoveQueuedStep ==
  ASSUME AccountInv, TypeOK', NEW t \in Tasks, RemoveQueued(t)
  PROVE  AccountInv' /\ FateSteps
<1>1. TypeOK /\ Quiet(t)
  BY GotoIdle DEF AccountInv, RemoveQueued
<1>2. PICK k \in Keys, i \in Ids : k = task[t].key /\ i = task[t].id
  BY <1>1, CallType DEF RemoveQueued, CallOK
<1>3. CASE i \notin QueuedIds(k)
  <2>1. UNCHANGED pending /\ SeekInv(t)'
    BY <1>1, <1>2, <1>3 DEF RemoveQueued, pending, SeekInv, Quiet
  <2> QED
    BY <1>1, <2>1, IdleStep DEF Quiet, RemoveQueued
<1>4. CASE i \in QueuedIds(k)
  <2>1. PICK p : p = Place(queue[k], i)
    OBVIOUS
  <2>2. queue[k] \in Seq(Turns) /\ p \in DOMAIN queue[k] /\ p \in 1..Len(queue[k]) /\ queue[k][p].id = i
    BY <1>1, <1>4, <2>1 DEF QueuedIds, Place, TypeOK
  <2>3. /\ queue' = [queue EXCEPT ![k] = RemoveAt(queue[k], p)]
        /\ fate' = Settled(k, {i}, "removed") /\ UNCHANGED <<staged, lastId, delivered>>
    BY <1>2, <1>4, <2>1 DEF RemoveQueued
  <2>4. Without(RemoveAt(queue[k], p), queue[k], p)
    BY <2>2, RemoveWithout
  <2> QED
    BY <1>1, <2>2, <2>3, <2>4, UnqueueStep
<1> QED
  BY <1>3, <1>4

LEMMA MoveQueuedStep ==
  ASSUME AccountInv, TypeOK', NEW t \in Tasks, MoveQueued(t)
  PROVE  AccountInv' /\ FateSteps
<1>1. TypeOK /\ Quiet(t)
  BY GotoIdle DEF AccountInv, MoveQueued
<1>2. PICK k \in Keys, i \in Ids, n \in Nat : k = task[t].key /\ i = task[t].id /\ n = task[t].to
  BY <1>1, CallType DEF MoveQueued, CallOK
<1>3. PICK p : p = Place(queue[k], i)
  OBVIOUS
<1> DEFINE r == RemoveAt(queue[k], p)
           turn == queue[k][p]
           z == InsertAt(r, n, turn)
<1>4. CASE i \in QueuedIds(k) /\ n <= Len(queue[k]) /\ MayMoveTo(r, turn, n)
  <2>1. queue[k] \in Seq(Turns) /\ p \in DOMAIN queue[k] /\ p \in 1..Len(queue[k]) /\ turn.id = i
    BY <1>1, <1>3, <1>4 DEF QueuedIds, Place, TypeOK
  <2>2. turn \in Turns
    BY <2>1
  <2>3. Without(r, queue[k], p) /\ r \in Seq(Turns) /\ Len(r) = Len(queue[k]) - 1
    BY <2>1, RemoveWithout, RemoveAtType
  <2>4. queue' = [queue EXCEPT ![k] = z] /\ UNCHANGED <<staged, lastId, delivered, fate>> /\ n > 0
    BY <1>2, <1>3, <1>4 DEF MoveQueued
  <2>5. KeyInv(k)
    BY DEF AccountInv
  <2>6. i \in ElemIds(queue[k])
    BY <1>4 DEF QueuedIds, ElemIds
  <2> HIDE DEF r
  <2>7. n \in 1..(Len(r) + 1)
    BY <1>4, <2>1, <2>3, <2>4
  <2> HIDE DEF turn
  <2>8. n \in DOMAIN z /\ z[n] = turn /\ Without(r, z, n)
    BY <2>2, <2>3, <2>7, InsertWithout
  <2> HIDE DEF z
  <2>9. queue'[k] = z /\ \A j \in Keys \ {k} : queue'[j] = queue[j]
    BY <1>1, <2>4 DEF TypeOK
  <2>10. QueuedOnce(k)' /\ QueuedIds(k)' = QueuedIds(k)
    <3>1. OnceId(r) /\ ElemIds(r) = ElemIds(queue[k]) \ {i}
      BY <2>1, <2>3, <2>5, WithoutElemIds DEF KeyInv, QueuedOnce, OnceId, turn
    <3>2. OnceId(z) /\ ElemIds(z) = ElemIds(r) \cup {i}
      BY <2>1, <2>8, <3>1, WithoutElemIds
    <3> QED
      BY <2>6, <2>9, <3>1, <3>2 DEF QueuedOnce, QueuedIds, OnceId, ElemIds
  <2>11. PushingIds(k)' = PushingIds(k) /\ PushedOnce(k)' /\ StagedIds(k)' = StagedIds(k)
    BY <1>1, <2>4, <2>5, QuietPushing DEF Quiet, KeyInv, StagedIds
  <2>12. \A x \in Ids : Settles(k, x)'
    BY <2>4, <2>5, <2>10, <2>11 DEF KeyInv, Settles, PendingIds
  <2>13. StagedOnce(k)' /\ Apart(k)'
    BY <2>4, <2>5, <2>10, <2>11 DEF KeyInv, StagedOnce, Apart
  <2>14. OnlyKey(k, t) /\ SeekInv(t)' /\ (\A x \in Ids : FateStep(k, x))
    BY <1>1, <2>4, <2>9 DEF OnlyKey, Quiet, SeekInv, FateStep
  <2> QED
    BY <2>10, <2>11, <2>12, <2>13, <2>14, StepFrame DEF KeyInv
<1>5. CASE ~(i \in QueuedIds(k) /\ n <= Len(queue[k]) /\ MayMoveTo(r, turn, n))
  <2>1. UNCHANGED pending /\ SeekInv(t)'
    BY <1>1, <1>2, <1>3, <1>5 DEF MoveQueued, pending, SeekInv, Quiet
  <2> QED
    BY <1>1, <2>1, IdleStep DEF Quiet, MoveQueued
<1> QED
  BY <1>4, <1>5

\* enqueue_turn gives the turn a fresh id, and is about to push it.
LEMMA EnqueueAllocStep ==
  ASSUME AccountInv, TypeOK', NEW t \in Tasks, NEW prio \in BOOLEAN, EnqueueAlloc(t, prio)
  PROVE  AccountInv' /\ FateSteps
<1>1. TypeOK /\ task[t].pc = "submit" /\ task[t] \in Calls
  BY CallType DEF AccountInv, EnqueueAlloc
<1>2. PICK k \in Keys : k = task[t].key
  BY <1>1, CallType
<1>3. PICK n : n = lastId[k] + 1
  OBVIOUS
<1>4. /\ lastId' = [lastId EXCEPT ![k] = n] /\ fate' = Settled(k, {n}, "pending")
      /\ task' = [task EXCEPT ![t] = [task[t] EXCEPT !.pc = "push", !.id = n, !.prio = prio]]
      /\ UNCHANGED <<staged, queue, delivered>> /\ lastId[k] < MaxId
  BY <1>2, <1>3 DEF EnqueueAlloc, Goto
<1>5. /\ task'[t].pc = "push" /\ task'[t].id = n /\ task'[t].key = k
      /\ \A u \in Tasks \ {t} : task'[u] = task[u]
  BY <1>1, <1>2, <1>4 DEF TypeOK, Calls
<1>6. n \in Ids /\ lastId[k] \in Nat /\ lastId'[k] = n /\ \A j \in Keys \ {k} : lastId'[j] = lastId[j]
  BY <1>1, <1>3, <1>4, ConstantsAssumption DEF TypeOK, Ids
<1>7. KeyInv(k) /\ fate[k][n] = "none"
  BY <1>3, <1>6 DEF AccountInv, KeyInv, Settles, Ids
<1>8. /\ \A j \in Keys \ {k} : fate'[j] = fate[j]
      /\ \A x \in Ids : fate'[k][x] = IF x \in {n} THEN "pending" ELSE fate[k][x]
  BY <1>1, <1>4 DEF Settled, TypeOK
<1>9. n \notin PendingIds(k)
  BY <1>6, <1>7 DEF KeyInv, Settles
<1>10. StagedIds(k)' = StagedIds(k) /\ QueuedIds(k)' = QueuedIds(k)
  BY <1>4 DEF StagedIds, QueuedIds
<1>11. \A u \in Tasks \ {t} : (Pushing(u, k)' <=> Pushing(u, k)) /\ task'[u].id = task[u].id
  BY <1>5 DEF Pushing
<1>12. Pushing(t, k)' /\ ~Pushing(t, k)
  BY <1>1, <1>5 DEF Pushing
<1>13. PushingIds(k)' = PushingIds(k) \cup {n}
  <2>1. ASSUME NEW x PROVE x \in PushingIds(k)' <=> x \in PushingIds(k) \cup {n}
    BY <1>5, <1>11, <1>12 DEF PushingIds
  <2> QED
    BY <2>1
<1>14. PushedOnce(k)'
  <2>1. \A u \in Tasks : Pushing(u, k) => task[u].id # n
    BY <1>9 DEF PendingIds, PushingIds
  <2> QED
    BY <1>5, <1>7, <1>11, <1>12, <2>1 DEF KeyInv, PushedOnce
<1>15. \A i \in Ids : i <= n <=> i <= lastId[k] \/ i = n
  BY <1>3, <1>6 DEF Ids
<1>16. ASSUME NEW i \in Ids PROVE Settles(k, i)'
  <2>1. fate'[k][i] # "none" <=> i <= lastId'[k]
    BY <1>6, <1>7, <1>8, <1>15 DEF KeyInv, Settles
  <2>2. PendingIds(k)' = PendingIds(k) \cup {n}
    BY <1>10, <1>13 DEF PendingIds
  <2>3. fate'[k][i] = "pending" <=> i \in PendingIds(k)'
    BY <1>7, <1>8, <2>2 DEF KeyInv, Settles
  <2>4. fate'[k][i] = "started" <=> i \in delivered'[k]
    BY <1>4, <1>7, <1>8 DEF KeyInv, Settles
  <2> QED
    BY <2>1, <2>3, <2>4 DEF Settles
<1>17. StagedOnce(k)' /\ QueuedOnce(k)' /\ Apart(k)'
  BY <1>4, <1>7, <1>9, <1>10, <1>13 DEF KeyInv, StagedOnce, QueuedOnce, Apart, PendingIds
<1>18. OnlyKey(k, t)
  BY <1>1, <1>4, <1>5, <1>6, <1>8 DEF OnlyKey
<1>19. SeekInv(t)' /\ \A x \in Ids : FateStep(k, x)
  BY <1>5, <1>7, <1>8 DEF SeekInv, FateStep
<1> QED
  BY <1>10, <1>14, <1>16, <1>17, <1>18, <1>19, StepFrame DEF KeyInv

\* ... and pushes it, at the front or at the back.
LEMMA EnqueuePushStep ==
  ASSUME AccountInv, TypeOK', NEW t \in Tasks, EnqueuePush(t)
  PROVE  AccountInv' /\ FateSteps
<1>1. TypeOK /\ task[t].pc = "push" /\ task[t] \in Calls
  BY CallType DEF AccountInv, EnqueuePush
<1>2. PICK k \in Keys, i \in Ids : k = task[t].key /\ i = task[t].id
  BY <1>1, CallType DEF CallOK
<1>3. PICK turn : turn = [id |-> task[t].id, prio |-> task[t].prio, for |-> task[t].sid]
  OBVIOUS
<1>4. turn \in Turns /\ turn.id = i
  BY <1>1, <1>2, <1>3, CallType DEF Turns
<1>5. PICK z : z = IF turn.prio THEN <<turn>> \o queue[k] ELSE Append(queue[k], turn)
  OBVIOUS
<1>6. /\ queue' = [queue EXCEPT ![k] = z] /\ task' = [task EXCEPT ![t] = Idle]
      /\ UNCHANGED <<staged, lastId, delivered, fate>>
  BY <1>2, <1>3, <1>5 DEF EnqueuePush, Goto
<1>7. PICK p \in DOMAIN z : z[p] = turn /\ Without(queue[k], z, p)
  <2>1. queue[k] \in Seq(Turns)
    BY <1>1 DEF TypeOK
  <2>2. CASE turn.prio
    BY <1>4, <1>5, <2>1, <2>2, ConsWithout
  <2>3. CASE ~turn.prio
    BY <1>4, <1>5, <2>1, <2>3, AppendWithout
  <2> QED
    BY <2>2, <2>3
<1>8. task'[t].pc = "idle" /\ \A u \in Tasks \ {t} : task'[u] = task[u]
  BY <1>1, <1>6 DEF TypeOK, Idle
<1>9. KeyInv(k) /\ Pushing(t, k) /\ i \in PushingIds(k)
  BY <1>1, <1>2 DEF AccountInv, Pushing, PushingIds
<1>10. i \notin StagedIds(k) /\ i \notin QueuedIds(k)
  BY <1>9 DEF KeyInv, Apart
<1>11. queue'[k] = z /\ \A j \in Keys \ {k} : queue'[j] = queue[j]
  BY <1>1, <1>6 DEF TypeOK
<1>12. QueuedOnce(k)' /\ QueuedIds(k)' = QueuedIds(k) \cup {i}
  <2>1. OnceId(z) /\ ElemIds(z) = ElemIds(queue[k]) \cup {i}
    BY <1>4, <1>7, <1>9, <1>10, WithoutElemIds DEF KeyInv, QueuedOnce, QueuedIds, OnceId, ElemIds
  <2> QED
    BY <1>11, <2>1, SMTT(40) DEF QueuedOnce, QueuedIds, OnceId, ElemIds
<1>13. \A u \in Tasks \ {t} : (Pushing(u, k)' <=> Pushing(u, k)) /\ task'[u].id = task[u].id
  BY <1>8 DEF Pushing
<1>14. ~Pushing(t, k)'
  BY <1>8 DEF Pushing
<1>15. \A u \in Tasks \ {t} : Pushing(u, k) => task[u].id # i
  BY <1>2, <1>9 DEF KeyInv, PushedOnce
<1>16. PushingIds(k)' = PushingIds(k) \ {i}
  <2>1. ASSUME NEW x PROVE x \in PushingIds(k)' <=> x \in PushingIds(k) \ {i}
    BY <1>2, <1>13, <1>14, <1>15 DEF PushingIds
  <2> QED
    BY <2>1
<1>17. PushedOnce(k)'
  BY <1>9, <1>13, <1>14 DEF KeyInv, PushedOnce
<1>18. StagedIds(k)' = StagedIds(k) /\ PendingIds(k)' = PendingIds(k)
  <2>1. StagedIds(k)' = StagedIds(k)
    BY <1>6 DEF StagedIds
  <2> QED
    BY <1>9, <1>12, <1>16, <2>1 DEF PendingIds
<1>19. \A x \in Ids : Settles(k, x)'
  BY <1>6, <1>9, <1>18 DEF KeyInv, Settles
<1>20. StagedOnce(k)' /\ Apart(k)'
  BY <1>6, <1>9, <1>10, <1>12, <1>16, <1>18 DEF KeyInv, StagedOnce, Apart
<1>21. OnlyKey(k, t)
  BY <1>2, <1>6, <1>8, <1>11 DEF OnlyKey
<1>22. SeekInv(t)' /\ \A x \in Ids : FateStep(k, x)
  BY <1>6, <1>8 DEF SeekInv, FateStep
<1> QED
  BY <1>12, <1>17, <1>19, <1>20, <1>21, <1>22, StepFrame DEF KeyInv

-----------------------------------------------------------------------------
(* The invariant *)

LEMMA FreshAccount ==
  ASSUME staged = [k \in Keys |-> <<>>], queue = [k \in Keys |-> <<>>],
         lastId = [k \in Keys |-> 0], delivered = [k \in Keys |-> {}],
         fate = [k \in Keys |-> [i \in Ids |-> "none"]], task = [t \in Tasks |-> Idle]
  PROVE  (\A k \in Keys : KeyInv(k)) /\ (\A t \in Tasks : SeekInv(t))
<1>1. ASSUME NEW k \in Keys PROVE KeyInv(k)
  <2>1. StagedIds(k) = {} /\ QueuedIds(k) = {} /\ PushingIds(k) = {} /\ PendingIds(k) = {}
    BY DEF StagedIds, QueuedIds, PushingIds, PendingIds, Pushing, Idle
  <2>2. \A i \in Ids : Settles(k, i)
    BY <2>1 DEF Settles, Ids
  <2>3. StagedOnce(k) /\ QueuedOnce(k) /\ PushedOnce(k) /\ Apart(k)
    BY <2>1 DEF StagedOnce, QueuedOnce, PushedOnce, Apart, Pushing, Idle
  <2> QED
    BY <2>2, <2>3 DEF KeyInv
<1>2. \A t \in Tasks : SeekInv(t)
  BY DEF SeekInv, Idle
<1> QED
  BY <1>1, <1>2

LEMMA InitAccount == Init => AccountInv
  BY InitType, FreshAccount DEF Init, AccountInv

LEMMA CrashAccount == ASSUME AccountInv, Crash PROVE AccountInv'
<1>1. TypeOK'
  BY CrashPreservesType DEF AccountInv
<1>2. ASSUME NEW k \in Keys PROVE KeyInv(k)'
  <2>1. StagedIds(k)' = {} /\ QueuedIds(k)' = {} /\ PushingIds(k)' = {} /\ PendingIds(k)' = {}
    BY DEF Crash, StagedIds, QueuedIds, PushingIds, PendingIds, Pushing, Idle
  <2>2. \A i \in Ids : Settles(k, i)'
    BY <2>1 DEF Crash, Settles, Ids
  <2>3. StagedOnce(k)' /\ QueuedOnce(k)' /\ PushedOnce(k)' /\ Apart(k)'
    BY <2>1 DEF Crash, StagedOnce, QueuedOnce, PushedOnce, Apart, Pushing, Idle
  <2> QED
    BY <2>2, <2>3 DEF KeyInv
<1>3. \A t \in Tasks : SeekInv(t)'
  BY DEF Crash, SeekInv, Idle
<1> QED
  BY <1>1, <1>2, <1>3 DEF AccountInv

LEMMA GotoQuiet ==
  ASSUME TypeOK, NEW t \in Tasks, NEW c, Goto(t, c), task[t].pc # "push",
         c.pc \notin {"push", "turns"}
  PROVE  Quiet(t)
  BY DEF TypeOK, Goto, Quiet

LEMMA QuietStep ==
  ASSUME AccountInv, TypeOK', NEW t \in Tasks, UNCHANGED pending, Quiet(t)
  PROVE  AccountInv' /\ FateSteps
<1>1. SeekInv(t)'
  BY DEF Quiet, SeekInv
<1> QED
  BY <1>1, IdleStep DEF Quiet

LEMMA CallAccount ==
  ASSUME AccountInv, NEW t \in Tasks, Call(t)
  PROVE  AccountInv' /\ FateSteps
<1>1. TypeOK /\ TypeOK' /\ UserKeys \subseteq Keys
  BY CallPreservesType DEF AccountInv, Keys
<1>2. PICK k \in UserKeys :
        \/ RouteNew(t, k) \/ RouteContinue(t, k) \/ RouteClaim(t, k) \/ RouteRetry(t, k)
        \/ RouteFirst(t, k) \/ ActivatePlaceholder(t, k) \/ RouteStage(t, k) \/ BeginSpawn(t, k)
        \/ \E aw \in BOOLEAN : CreateWeb(t, k, aw)
        \/ SetField(t, k) \/ DrainLookup(t, k) \/ Retire(t, k) \/ CloseRead(t, k)
        \/ \E s \in Sids : RestoreRead(t, k, s)
        \/ \E i \in Ids : RemoveStaged(t, k, i) \/ \E n \in Ids : MoveStaged(t, k, i, n)
  BY DEF Call
<1>3. k \in Keys
  BY <1>1
<1>4. ASSUME RouteNew(t, k) \/ RouteClaim(t, k) \/ RouteRetry(t, k) \/ ActivatePlaceholder(t, k)
      PROVE  AccountInv' /\ FateSteps
  <2>1. UNCHANGED pending /\ task[t].pc = "idle" /\ \E s : Goto(t, SpawnCall(k, s))
    BY <1>4 DEF RouteNew, RouteClaim, RouteRetry, ActivatePlaceholder
  <2>2. Quiet(t)
    BY <1>1, <2>1, GotoQuiet DEF SpawnCall, Idle
  <2> QED
    BY <1>1, <2>1, <2>2, QuietStep
<1>5. ASSUME RouteContinue(t, k) PROVE AccountInv' /\ FateSteps
  <2>1. Quiet(t)
    BY <1>1, <1>5, GotoQuiet DEF RouteContinue, Idle
  <2> QED
    BY <1>1, <1>5, <2>1, QuietStep DEF RouteContinue
<1>6. ASSUME RouteFirst(t, k) PROVE AccountInv' /\ FateSteps
  <2>1. Quiet(t)
    BY <1>1, <1>6, GotoQuiet DEF RouteFirst, SpawnCall, Idle
  <2> QED
    BY <1>1, <1>3, <1>6, <2>1, DropStep DEF RouteFirst
<1>7. ASSUME RouteStage(t, k) PROVE AccountInv' /\ FateSteps
  BY <1>1, <1>7, StageStep
<1>8. ASSUME BeginSpawn(t, k) PROVE AccountInv' /\ FateSteps
  <2>1. Quiet(t)
    BY <1>1, <1>8, GotoQuiet DEF BeginSpawn, SpawnCall, Idle
  <2> QED
    BY <1>1, <1>3, <1>8, <2>1, ClearStep DEF BeginSpawn
<1>9. ASSUME NEW aw \in BOOLEAN, CreateWeb(t, k, aw) PROVE AccountInv' /\ FateSteps
  <2>1. Quiet(t)
    BY <1>1, <1>9, GotoQuiet DEF CreateWeb, Idle
  <2> QED
    BY <1>1, <1>9, <2>1, QuietStep DEF CreateWeb
<1>10. ASSUME SetField(t, k) PROVE AccountInv' /\ FateSteps
  <2>1. Quiet(t)
    BY <1>1, <1>10, GotoQuiet DEF SetField, UpsertCall, Idle
  <2> QED
    BY <1>1, <1>10, <2>1, QuietStep DEF SetField
<1>11. ASSUME DrainLookup(t, k) PROVE AccountInv' /\ FateSteps
  <2>1. Quiet(t)
    BY <1>1, <1>11, GotoQuiet DEF DrainLookup, Idle
  <2> QED
    BY <1>1, <1>11, <2>1, QuietStep DEF DrainLookup
<1>12. ASSUME Retire(t, k) PROVE AccountInv' /\ FateSteps
  <2>1. Quiet(t)
    BY <1>1, <1>12, GotoQuiet DEF Retire, UpsertCall, Idle
  <2> QED
    BY <1>1, <1>3, <1>12, <2>1, ClearStep DEF Retire
<1>13. ASSUME CloseRead(t, k) PROVE AccountInv' /\ FateSteps
  <2>1. Quiet(t)
    BY <1>1, <1>13, GotoQuiet DEF CloseRead, Idle
  <2> QED
    BY <1>1, <1>13, <2>1, QuietStep DEF CloseRead
<1>14. ASSUME NEW s \in Sids, RestoreRead(t, k, s) PROVE AccountInv' /\ FateSteps
  <2>1. Quiet(t)
    BY <1>1, <1>14, GotoQuiet DEF RestoreRead, Idle
  <2> QED
    BY <1>1, <1>14, <2>1, QuietStep DEF RestoreRead
<1>15. ASSUME NEW i \in Ids, RemoveStaged(t, k, i) PROVE AccountInv' /\ FateSteps
  BY <1>1, <1>15, RemoveStagedStep
<1>16. ASSUME NEW i \in Ids, NEW n \in Ids, MoveStaged(t, k, i, n) PROVE AccountInv' /\ FateSteps
  BY <1>1, <1>16, MoveStagedStep
<1> QED
  BY <1>2, <1>4, <1>5, <1>6, <1>7, <1>8, <1>9, <1>10, <1>11, <1>12, <1>13, <1>14, <1>15, <1>16

LEMMA StepAccount ==
  ASSUME AccountInv, NEW t \in Tasks, Step(t)
  PROVE  AccountInv' /\ FateSteps
<1> DEFINE k == task[t].key
<1>1. TypeOK /\ TypeOK' /\ task[t] \in Calls /\ (task[t].pc # "idle" => k \in Keys)
  BY StepPreservesType, CallType DEF AccountInv
<1>2. \A pc \in Pcs : [task[t] EXCEPT !.pc = pc].pc = pc
  BY <1>1 DEF Calls
<1>3. Proceed(t).pc \in {"idle", "spawn", "activate"}
  BY <1>1 DEF Proceed, Idle, Calls
<1>4. ASSUME SetProject(t) PROVE AccountInv' /\ FateSteps
  <2>1. Quiet(t)
    BY <1>1, <1>3, <1>4, GotoQuiet DEF SetProject, Calls
  <2> QED
    BY <1>1, <1>4, <2>1, QuietStep DEF SetProject
<1>5. ASSUME NEW s \in Sids, SpawnFresh(t, s) PROVE AccountInv' /\ FateSteps
  <2>1. Quiet(t)
    BY <1>1, <1>5, GotoQuiet DEF SpawnFresh, Calls
  <2> QED
    BY <1>1, <1>5, <2>1, QuietStep DEF SpawnFresh
<1>6. ASSUME SpawnResumed(t) PROVE AccountInv' /\ FateSteps
  <2>1. Quiet(t)
    BY <1>1, <1>6, GotoQuiet DEF SpawnResumed, Calls
  <2> QED
    BY <1>1, <1>6, <2>1, QuietStep DEF SpawnResumed
<1>7. ASSUME FailSpawn(t) PROVE AccountInv' /\ FateSteps
  <2>1. Quiet(t) /\ k \in Keys /\ UNCHANGED <<queue, lastId, delivered>>
    BY <1>1, <1>7, GotoIdle DEF FailSpawn
  <2>2. CASE phase[k] = "Spawning"
    <3>1. DropStaged(k)
      BY <1>7, <2>2 DEF FailSpawn
    <3> HIDE DEF k
    <3> QED
      BY <1>1, <2>1, <3>1, DropStep
  <2>3. CASE phase[k] # "Spawning"
    <3>1. UNCHANGED pending
      BY <1>7, <2>3 DEF FailSpawn, pending
    <3> QED
      BY <1>1, <2>1, <3>1, QuietStep
  <2> QED
    BY <2>2, <2>3
<1>8. ASSUME PreserveClosed(t) PROVE AccountInv' /\ FateSteps
  <2>1. Quiet(t)
    BY <1>1, <1>8, GotoQuiet DEF PreserveClosed, Calls
  <2> QED
    BY <1>1, <1>8, <2>1, QuietStep DEF PreserveClosed
<1>9. ASSUME Activate(t) PROVE AccountInv' /\ FateSteps
  <2>1. Quiet(t)
    BY <1>1, <1>9, GotoQuiet DEF Activate, UpsertCall, Idle
  <2>2. /\ k \in Keys /\ staged' = [staged EXCEPT ![k] = <<>>]
        /\ delivered' = [delivered EXCEPT ![k] = @ \cup StagedIds(k)]
        /\ fate' = Settled(k, StagedIds(k), "started") /\ UNCHANGED <<queue, lastId>>
    BY <1>1, <1>9 DEF Activate
  <2> HIDE DEF k
  <2> QED
    BY <1>1, <2>1, <2>2, DeliverStep
<1>10. ASSUME SubmitDirect(t) PROVE AccountInv' /\ FateSteps
  <2>1. Quiet(t)
    BY <1>1, <1>10, GotoIdle DEF SubmitDirect
  <2> QED
    BY <1>1, <1>10, <2>1, QuietStep DEF SubmitDirect
<1>11. ASSUME NEW j \in Keys, CloseRemove(t, j) PROVE AccountInv' /\ FateSteps
  <2>1. Quiet(t)
    BY <1>1, <1>11, GotoQuiet DEF CloseRemove, Calls
  <2> QED
    BY <1>1, <1>11, <2>1, DropStep DEF CloseRemove
<1>12. ASSUME CloseNothing(t) PROVE AccountInv' /\ FateSteps
  <2>1. Quiet(t)
    BY <1>1, <1>12, GotoIdle DEF CloseNothing
  <2> QED
    BY <1>1, <1>12, <2>1, QuietStep DEF CloseNothing
<1>13. ASSUME CloseClear(t) PROVE AccountInv' /\ FateSteps
  <2>1. Quiet(t)
    BY <1>1, <1>13, GotoIdle DEF CloseClear
  <2>2. PICK a \in Keys : a = task[t].at
    BY <1>1, <1>13, CallType DEF CloseClear, CallOK
  <2> QED
    BY <1>1, <1>13, <2>1, <2>2, ClearStep DEF CloseClear
<1>14. ASSUME RestoreInsert(t) PROVE AccountInv' /\ FateSteps
  <2>1. k \in Keys /\ task[t].pc = "restore" /\ UNCHANGED <<queue, lastId, delivered>>
    BY <1>1, <1>14 DEF RestoreInsert
  <2>2. CASE phase[k] # "None" \/ HasRoom
    <3>1. DropStaged(k) /\ Goto(t, UpsertCall(k))
      BY <1>14, <2>2 DEF RestoreInsert
    <3>2. Quiet(t)
      BY <1>1, <2>1, <3>1, GotoQuiet DEF UpsertCall, Idle
    <3> HIDE DEF k
    <3> QED
      BY <1>1, <2>1, <3>1, <3>2, DropStep
  <2>3. CASE ~(phase[k] # "None" \/ HasRoom)
    <3>1. UNCHANGED pending /\ Goto(t, Idle)
      BY <1>14, <2>3 DEF RestoreInsert, pending
    <3>2. Quiet(t)
      BY <1>1, <2>1, <3>1, GotoIdle
    <3> QED
      BY <1>1, <3>1, <3>2, QuietStep
  <2> QED
    BY <2>2, <2>3
<1>15. ASSUME BuildRow(t) PROVE AccountInv' /\ FateSteps
  <2>1. Quiet(t)
    BY <1>1, <1>3, <1>15, GotoQuiet DEF BuildRow, Calls
  <2> QED
    BY <1>1, <1>15, <2>1, QuietStep DEF BuildRow
<1>16. ASSUME SaveRow(t) PROVE AccountInv' /\ FateSteps
  <2>1. [Proceed(t) EXCEPT !.row = NoRow].pc = Proceed(t).pc
    BY <1>1, ProceedType DEF RunningCalls, Calls
  <2>2. Quiet(t)
    BY <1>1, <1>3, <1>16, <2>1, GotoQuiet DEF SaveRow
  <2> QED
    BY <1>1, <1>16, <2>2, QuietStep DEF SaveRow
<1>17. ASSUME DeleteRow(t) PROVE AccountInv' /\ FateSteps
  <2>1. Quiet(t)
    BY <1>1, <1>17, GotoQuiet DEF DeleteRow, Calls
  <2> QED
    BY <1>1, <1>17, <2>1, QuietStep DEF DeleteRow
<1> QED
  BY <1>1, <1>4, <1>5, <1>6, <1>7, <1>8, <1>9, <1>10, <1>11, <1>12, <1>13, <1>14, <1>15, <1>16,
     <1>17, EnqueueAllocStep, EnqueuePushStep, PopNextStep, RemoveQueuedStep, MoveQueuedStep DEF Step

LEMMA NextAccount ==
  ASSUME AccountInv, [Next]_vars
  PROVE  AccountInv' /\ (crashes' = crashes => FateSteps)
<1>1. CASE Crash
  <2>1. crashes' # crashes
    BY <1>1 DEF Crash, AccountInv, TypeOK
  <2> QED
    BY <1>1, <2>1, CrashAccount
<1>2. ASSUME NEW t \in Tasks, Call(t) PROVE AccountInv' /\ FateSteps
  BY <1>2, CallAccount
<1>3. ASSUME NEW t \in Tasks, Step(t) PROVE AccountInv' /\ FateSteps
  BY <1>3, StepAccount
<1>4. CASE UNCHANGED vars
  <2>1. TypeOK'
    BY <1>4 DEF AccountInv, TypeOK, vars
  <2>2. ASSUME NEW k \in Keys PROVE KeyInv(k)'
    BY <1>4, KeyFrame DEF AccountInv, Pushing, vars
  <2>3. \A t \in Tasks : SeekInv(t)'
    BY <1>4 DEF AccountInv, SeekInv, QueuedIds, vars
  <2>4. FateSteps
    BY <1>4 DEF FateSteps, FateStep, vars
  <2> QED
    BY <2>1, <2>2, <2>3, <2>4 DEF AccountInv
<1> QED
  BY <1>1, <1>2, <1>3, <1>4 DEF Next

LEMMA AccountInvariant == Spec => []AccountInv
  BY InitAccount, NextAccount, PTL DEF Spec

\* No submission is lost: what has an id and is not settled is staged, queued or
\* about to be queued, whatever spawns, drains, moves, removals, closes and
\* restarts run against each other (state.rs 443-456).
LEMMA SubmissionsOutstanding == Spec => []OutstandingPlaced
<1>1. AccountInv => OutstandingPlaced
  <2> SUFFICES ASSUME AccountInv, NEW k \in Keys
               PROVE  /\ {i \in Ids : fate[k][i] # "none"} = 1..lastId[k]
                      /\ {i \in Ids : fate[k][i] = "pending"} = PendingIds(k)
    BY DEF OutstandingPlaced
  <2>1. \A i \in Ids : Settles(k, i)
    BY DEF AccountInv, KeyInv
  <2>2. lastId[k] \in 0..MaxId /\ PendingIds(k) \subseteq Ids
    BY PlacesType DEF AccountInv, TypeOK, PendingIds
  <2>3. 1..lastId[k] \subseteq Ids /\ \A i \in Ids : i <= lastId[k] <=> i \in 1..lastId[k]
    BY <2>2, ConstantsAssumption DEF Ids
  <2> QED
    BY <2>1, <2>2, <2>3 DEF Settles
<1> QED
  BY <1>1, AccountInvariant, PTL

\* No submission is doubled: it waits in one place, once, although the staging
\* queue and the turn queue share nothing but the counter (state.rs 449-451).
LEMMA SubmissionsOncePlaced == Spec => []OncePlaced
<1>1. AccountInv => OncePlaced
  <2> SUFFICES ASSUME AccountInv, NEW k \in Keys
               PROVE  /\ StagedOnce(k) /\ QueuedOnce(k) /\ PushedOnce(k)
                      /\ StagedIds(k) \cap QueuedIds(k) = {}
                      /\ PushingIds(k) \cap (StagedIds(k) \cup QueuedIds(k)) = {}
    BY DEF OncePlaced, StagedOnce, QueuedOnce, PushedOnce
  <2>1. KeyInv(k) /\ StagedIds(k) \subseteq Ids /\ PushingIds(k) \subseteq Ids
    BY PlacesType DEF AccountInv
  <2> QED
    BY <2>1 DEF KeyInv, Apart
<1> QED
  BY <1>1, AccountInvariant, PTL

-----------------------------------------------------------------------------
(* The priority turns come first *)

Ordered(q) == \A a, b \in DOMAIN q : a < b /\ q[b].prio => q[a].prio

LEMMA RemoveOrdered ==
  ASSUME NEW q \in Seq(Turns), NEW p \in 1..Len(q), Ordered(q)
  PROVE  Ordered(RemoveAt(q, p))
<1> DEFINE r == RemoveAt(q, p)
<1>1. /\ r \in Seq(Turns) /\ Len(r) = Len(q) - 1
      /\ \A j \in 1..Len(q)-1 : r[j] = IF j < p THEN q[j] ELSE q[j + 1]
  BY RemoveAtType
<1> HIDE DEF r
<1>2. ASSUME NEW a \in DOMAIN r, NEW b \in DOMAIN r, a < b, r[b].prio PROVE r[a].prio
  <2> DEFINE u == IF a < p THEN a ELSE a + 1
             v == IF b < p THEN b ELSE b + 1
  <2>1. u \in DOMAIN q /\ v \in DOMAIN q /\ u < v
    BY <1>1, <1>2
  <2>2. r[a] = q[u] /\ r[b] = q[v]
    BY <1>1, SMTT(40)
  <2> QED
    BY <1>2, <2>1, <2>2 DEF Ordered
<1> QED
  BY <1>2 DEF Ordered, r

\* In an ordered queue, PrioCount is the last place of a priority turn.
LEMMA PrioPlaces ==
  ASSUME NEW q \in Seq(Turns), Ordered(q), NEW n \in Nat
  PROVE  /\ n <= PrioCount(q) => \A p \in DOMAIN q : p <= n => q[p].prio
         /\ n >= PrioCount(q) => \A p \in DOMAIN q : p > n => ~q[p].prio
<1> DEFINE P == {p \in DOMAIN q : q[p].prio}
<1>1. IsFiniteSet(P) /\ P \subseteq 1..Len(q)
  <2>1. IsFiniteSet(1..Len(q)) /\ P \in SUBSET (1..Len(q))
    BY FS_Interval
  <2> QED
    BY <2>1, FS_Subset
<1>2. Cardinality(P) \in Nat /\ PrioCount(q) = Cardinality(P)
  BY <1>1, FS_CardinalityType DEF PrioCount
<1>3. ASSUME NEW p \in DOMAIN q, ~q[p].prio PROVE Cardinality(P) <= p - 1
  <2>1. P \in SUBSET (1..(p - 1))
    <3> SUFFICES ASSUME NEW b \in P, ~(b < p) PROVE FALSE
      OBVIOUS
    <3>1. p < b
      BY <1>3
    <3> QED
      BY <1>3, <3>1 DEF Ordered
  <2>2. IsFiniteSet(1..(p - 1)) /\ Cardinality(1..(p - 1)) = p - 1
    BY FS_Interval
  <2> QED
    BY <2>1, <2>2, FS_Subset
<1>4. ASSUME NEW p \in DOMAIN q, q[p].prio PROVE p <= Cardinality(P)
  <2>1. (1..p) \in SUBSET P
    BY <1>4 DEF Ordered
  <2>2. Cardinality(1..p) = p
    BY FS_Interval
  <2> QED
    BY <1>1, <2>1, <2>2, FS_Subset
<1> HIDE DEF P
<1> QED
  BY <1>2, <1>3, <1>4

LEMMA InsertOrdered ==
  ASSUME NEW q \in Seq(Turns), NEW e \in Turns, NEW n \in 1..(Len(q) + 1), Ordered(q),
         MayMoveTo(q, e, n)
  PROVE  Ordered(InsertAt(q, n, e))
<1> DEFINE r == InsertAt(q, n, e)
<1>1. r \in Seq(Turns) /\ Len(r) = Len(q) + 1
  BY InsertAtType
<1>2. \A j \in 1..(Len(q) + 1) : r[j] = IF j < n THEN q[j] ELSE IF j = n THEN e ELSE q[j - 1]
  BY InsertAtType, SMTT(120)
<1> HIDE DEF r
<1>3. IF e.prio THEN \A p \in DOMAIN q : p < n => q[p].prio
                ELSE \A p \in DOMAIN q : p >= n => ~q[p].prio
  <2>1. n - 1 \in Nat
    OBVIOUS
  <2> QED
    BY <2>1, PrioPlaces DEF MayMoveTo
<1>4. ASSUME NEW a \in DOMAIN r, NEW b \in DOMAIN r, a < b, r[b].prio PROVE r[a].prio
  <2>1. CASE a = n
    <3>1. b - 1 \in DOMAIN q /\ b - 1 >= n /\ r[b] = q[b - 1] /\ r[a] = e
      BY <1>1, <1>2, <1>4, <2>1
    <3> QED
      BY <1>3, <1>4, <3>1
  <2>2. CASE b = n
    <3>1. a \in DOMAIN q /\ a < n /\ r[a] = q[a] /\ r[b] = e
      BY <1>1, <1>2, <1>4, <2>2
    <3> QED
      BY <1>3, <1>4, <3>1
  <2>3. CASE a # n /\ b # n
    <3> DEFINE u == IF a < n THEN a ELSE a - 1
               v == IF b < n THEN b ELSE b - 1
    <3>1. u \in DOMAIN q /\ v \in DOMAIN q /\ u < v
      BY <1>1, <1>4, <2>3
    <3>2. r[a] = q[u] /\ r[b] = q[v]
      BY <1>1, <1>2, <2>3
    <3> QED
      BY <1>4, <3>1, <3>2 DEF Ordered
  <2> QED
    BY <2>1, <2>2, <2>3
<1> QED
  BY <1>4 DEF Ordered, r

\* What a step does to the queues.
LEMMA QueueSteps ==
  ASSUME TypeOK, NEW t \in Tasks, Call(t) \/ Step(t)
  PROVE  \/ UNCHANGED queue
         \/ \E k \in Keys : queue' = [queue EXCEPT ![k] = <<>>]
         \/ EnqueuePush(t) \/ PopNext(t) \/ RemoveQueued(t) \/ MoveQueued(t)
<1>1. ASSUME Call(t) PROVE UNCHANGED queue \/ \E k \in Keys : queue' = [queue EXCEPT ![k] = <<>>]
  <2>1. PICK k \in UserKeys :
          \/ RouteNew(t, k) \/ RouteContinue(t, k) \/ RouteClaim(t, k) \/ RouteRetry(t, k)
          \/ RouteFirst(t, k) \/ ActivatePlaceholder(t, k) \/ RouteStage(t, k) \/ BeginSpawn(t, k)
          \/ \E aw \in BOOLEAN : CreateWeb(t, k, aw)
          \/ SetField(t, k) \/ DrainLookup(t, k) \/ Retire(t, k) \/ CloseRead(t, k)
          \/ \E s \in Sids : RestoreRead(t, k, s)
          \/ \E i \in Ids : RemoveStaged(t, k, i) \/ \E n \in Ids : MoveStaged(t, k, i, n)
    BY <1>1 DEF Call
  <2>2. k \in Keys
    BY DEF Keys
  <2>3. CASE BeginSpawn(t, k) \/ Retire(t, k)
    BY <2>2, <2>3 DEF BeginSpawn, Retire, ClearQueue
  <2>4. CASE \/ RouteNew(t, k) \/ RouteContinue(t, k) \/ RouteClaim(t, k) \/ RouteRetry(t, k)
             \/ RouteFirst(t, k) \/ ActivatePlaceholder(t, k) \/ RouteStage(t, k)
    BY <2>4 DEF RouteNew, RouteContinue, RouteClaim, RouteRetry, RouteFirst, RouteStage,
       ActivatePlaceholder, pending
  <2>5. CASE \/ \E aw \in BOOLEAN : CreateWeb(t, k, aw)
             \/ SetField(t, k) \/ DrainLookup(t, k) \/ CloseRead(t, k)
             \/ \E s \in Sids : RestoreRead(t, k, s)
    BY <2>5 DEF CreateWeb, SetField, DrainLookup, CloseRead, RestoreRead, pending
  <2>6. CASE \E i \in Ids : RemoveStaged(t, k, i) \/ \E n \in Ids : MoveStaged(t, k, i, n)
    BY <2>6 DEF RemoveStaged, MoveStaged
  <2> QED
    BY <2>1, <2>3, <2>4, <2>5, <2>6
<1>2. ASSUME Step(t)
      PROVE  \/ UNCHANGED queue \/ CloseClear(t)
             \/ EnqueuePush(t) \/ PopNext(t) \/ RemoveQueued(t) \/ MoveQueued(t)
  BY <1>2 DEF Step, SetProject, SpawnFresh, SpawnResumed, FailSpawn, PreserveClosed, Activate,
     SubmitDirect, EnqueueAlloc, CloseRemove, CloseNothing, RestoreInsert, BuildRow, SaveRow,
     DeleteRow, DropStaged, pending
<1>3. ASSUME CloseClear(t) PROVE \E k \in Keys : queue' = [queue EXCEPT ![k] = <<>>]
  BY <1>3, CallType DEF CloseClear, CallOK, ClearQueue
<1> QED
  BY <1>1, <1>2, <1>3

LEMMA QueueOrdered ==
  ASSUME TypeOK, PriorityPrefix, NEW k \in Keys
  PROVE  queue[k] \in Seq(Turns) /\ Ordered(queue[k])
  BY DEF TypeOK, PriorityPrefix, Ordered

\* The queue of one key is replaced by an ordered one.
LEMMA OrderFrame ==
  ASSUME TypeOK, PriorityPrefix, NEW k \in Keys, NEW z, Ordered(z),
         queue' = [queue EXCEPT ![k] = z]
  PROVE  PriorityPrefix'
<1>1. \A j \in Keys : queue'[j] = IF j = k THEN z ELSE queue[j]
  BY DEF TypeOK
<1>2. \A j \in Keys : Ordered(queue'[j])
  BY <1>1, QueueOrdered
<1> QED
  BY <1>2 DEF PriorityPrefix, Ordered

LEMMA NextOrdered ==
  ASSUME TypeOK, PriorityPrefix, [Next]_vars
  PROVE  PriorityPrefix'
<1>1. ASSUME UNCHANGED queue PROVE PriorityPrefix'
  BY <1>1 DEF PriorityPrefix
<1>2. CASE Crash
  BY <1>2 DEF Crash, PriorityPrefix
<1>3. ASSUME NEW k \in Keys, queue' = [queue EXCEPT ![k] = <<>>] PROVE PriorityPrefix'
  <2>1. Ordered(<<>>)
    BY DEF Ordered
  <2> QED
    BY <1>3, <2>1, OrderFrame
<1>4. ASSUME NEW t \in Tasks, EnqueuePush(t) PROVE PriorityPrefix'
  <2>1. PICK k \in Keys : k = task[t].key
    BY <1>4, CallType DEF EnqueuePush
  <2>2. PICK turn : turn = [id |-> task[t].id, prio |-> task[t].prio, for |-> task[t].sid]
    OBVIOUS
  <2>3. PICK z : z = IF turn.prio THEN <<turn>> \o queue[k] ELSE Append(queue[k], turn)
    OBVIOUS
  <2>4. queue' = [queue EXCEPT ![k] = z]
    BY <1>4, <2>1, <2>2, <2>3 DEF EnqueuePush
  <2>5. queue[k] \in Seq(Turns) /\ Ordered(queue[k])
    BY QueueOrdered
  <2>6. CASE turn.prio
    <3>1. /\ DOMAIN z = 1..(Len(queue[k]) + 1) /\ z[1] = turn
          /\ \A a \in 2..(Len(queue[k]) + 1) : z[a] = queue[k][a - 1] /\ a - 1 \in DOMAIN queue[k]
      BY <2>3, <2>5, <2>6
    <3>2. \A a \in DOMAIN z : a = 1 \/ a \in 2..(Len(queue[k]) + 1)
      BY <2>5, <3>1
    <3>3. Ordered(z)
      BY <2>5, <2>6, <3>1, <3>2 DEF Ordered
    <3> QED
      BY <2>4, <3>3, OrderFrame
  <2>7. CASE ~turn.prio
    <3>1. /\ DOMAIN z = 1..(Len(queue[k]) + 1) /\ z[Len(queue[k]) + 1] = turn
          /\ \A a \in DOMAIN queue[k] : z[a] = queue[k][a]
      BY <2>3, <2>5, <2>7
    <3>2. \A a \in DOMAIN z : a = Len(queue[k]) + 1 \/ a \in DOMAIN queue[k]
      BY <2>5, <3>1
    <3>3. Ordered(z)
      BY <2>5, <2>7, <3>1, <3>2 DEF Ordered
    <3> QED
      BY <2>4, <3>3, OrderFrame
  <2> QED
    BY <2>6, <2>7
<1>5. ASSUME NEW t \in Tasks, PopNext(t) PROVE PriorityPrefix'
  <2>1. PICK k \in Keys : k = task[t].key
    BY <1>5, CallType DEF PopNext
  <2>2. CASE queue[k] # <<>>
    <3>1. queue' = [queue EXCEPT ![k] = Tail(queue[k])]
      BY <1>5, <2>1, <2>2 DEF PopNext
    <3>2. Ordered(Tail(queue[k]))
      <4>1. /\ DOMAIN Tail(queue[k]) = 1..(Len(queue[k]) - 1)
            /\ \A a \in 1..(Len(queue[k]) - 1) :
                 Tail(queue[k])[a] = queue[k][a + 1] /\ a + 1 \in DOMAIN queue[k]
        BY <2>2, QueueOrdered
      <4> QED
        BY <4>1, QueueOrdered DEF Ordered
    <3> QED
      BY <3>1, <3>2, OrderFrame
  <2> QED
    BY <1>1, <1>5, <2>1, <2>2 DEF PopNext
<1>6. ASSUME NEW t \in Tasks, RemoveQueued(t) PROVE PriorityPrefix'
  <2>1. PICK k \in Keys, i \in Ids : k = task[t].key /\ i = task[t].id
    BY <1>6, CallType DEF RemoveQueued, CallOK
  <2>2. PICK p : p = Place(queue[k], i)
    OBVIOUS
  <2>3. CASE i \in QueuedIds(k)
    <3>1. queue[k] \in Seq(Turns) /\ p \in 1..Len(queue[k])
      BY <2>2, <2>3 DEF QueuedIds, Place, TypeOK
    <3>2. queue' = [queue EXCEPT ![k] = RemoveAt(queue[k], p)]
      BY <1>6, <2>1, <2>2, <2>3 DEF RemoveQueued
    <3>3. Ordered(RemoveAt(queue[k], p))
      BY <3>1, RemoveOrdered, QueueOrdered
    <3> QED
      BY <3>2, <3>3, OrderFrame
  <2> QED
    BY <1>1, <1>6, <2>1, <2>3 DEF RemoveQueued
<1>7. ASSUME NEW t \in Tasks, MoveQueued(t) PROVE PriorityPrefix'
  <2>1. PICK k \in Keys, i \in Ids, n \in Nat :
          k = task[t].key /\ i = task[t].id /\ n = task[t].to /\ n > 0
    BY <1>7, CallType DEF MoveQueued, CallOK
  <2>2. PICK p : p = Place(queue[k], i)
    OBVIOUS
  <2> DEFINE r == RemoveAt(queue[k], p)
             turn == queue[k][p]
  <2>3. CASE i \in QueuedIds(k) /\ n <= Len(queue[k]) /\ MayMoveTo(r, turn, n)
    <3>1. queue[k] \in Seq(Turns) /\ p \in 1..Len(queue[k]) /\ turn \in Turns
      BY <2>2, <2>3 DEF QueuedIds, Place, TypeOK
    <3>2. queue' = [queue EXCEPT ![k] = InsertAt(r, n, turn)]
      BY <1>7, <2>1, <2>2, <2>3 DEF MoveQueued
    <3>3. r \in Seq(Turns) /\ Len(r) = Len(queue[k]) - 1 /\ Ordered(r)
      BY <3>1, RemoveAtType, RemoveOrdered, QueueOrdered
    <3> HIDE DEF r, turn
    <3>4. n \in 1..(Len(r) + 1)
      BY <2>1, <2>3, <3>1, <3>3
    <3>5. Ordered(InsertAt(r, n, turn))
      BY <2>3, <3>1, <3>3, <3>4, InsertOrdered
    <3> QED
      BY <3>2, <3>5, OrderFrame
  <2> QED
    BY <1>1, <1>7, <2>1, <2>2, <2>3 DEF MoveQueued
<1> QED
  BY <1>1, <1>2, <1>3, <1>4, <1>5, <1>6, <1>7, QueueSteps DEF Next, vars

\* The priority turns are a prefix of every queue: what a move may not do (MayMoveTo) is
\* exactly what would break it (state.rs 1313).
THEOREM PriorityComesFirst == Spec => []PriorityPrefix
<1>1. Init => PriorityPrefix
  BY DEF Init, PriorityPrefix
<1>2. TypeOK /\ PriorityPrefix /\ [Next]_vars => PriorityPrefix'
  BY NextOrdered
<1> QED
  BY <1>1, <1>2, TypeCorrect, PTL DEF Spec

\* No submission is lost, doubled, or put before one that takes precedence.
THEOREM SubmissionsAccounted == Spec => []Accounted
<1>1. OutstandingPlaced /\ OncePlaced /\ PriorityPrefix => Accounted
  BY DEF Accounted
<1> QED
  BY <1>1, SubmissionsOutstanding, SubmissionsOncePlaced, PriorityComesFirst, PTL

\* The answer of a remove or a move that finds nothing in either of its critical
\* sections is true when it is given (state.rs 1262-1271).
THEOREM AnswersAreTrue == Spec => []AnswerIsTrue
<1>1. AccountInv => AnswerIsTrue
  <2> SUFFICES ASSUME AccountInv, NEW t \in Tasks, task[t].pc = "turns",
                      task[t].id \notin QueuedIds(task[t].key)
               PROVE  /\ fate[task[t].key][task[t].id] # "pending"
                      /\ (fate[task[t].key][task[t].id] = "started")
                           <=> (task[t].id \in delivered[task[t].key])
    BY DEF AnswerIsTrue
  <2>1. PICK k \in Keys, i \in Ids : k = task[t].key /\ i = task[t].id
    BY CallType DEF AccountInv, CallOK
  <2> QED
    BY <2>1 DEF AccountInv, SeekInv, KeyInv, Settles
<1> QED
  BY <1>1, AccountInvariant, PTL

\* A submission is settled once: no step starts a turn again, or one that was
\* removed or dropped (state.rs 1168-1189, 1240-1273).
THEOREM SubmissionsSettledOnce == Spec => SettledOnce
<1> DEFINE Allowed == \A k \in Keys, i \in Ids :
             fate[k][i] # fate'[k][i] /\ crashes' = crashes =>
               \/ fate[k][i] = "none" /\ fate'[k][i] = "pending"
               \/ fate[k][i] = "pending" /\ fate'[k][i] \in {"started", "removed", "dropped"}
               \/ fate[k][i] = "started" /\ fate'[k][i] = "ended"
<1>1. AccountInv /\ [Next]_vars => [Allowed]_vars
  BY NextAccount DEF FateSteps, FateStep
<1> QED
  BY <1>1, AccountInvariant, PTL DEF Spec, SettledOnce

-----------------------------------------------------------------------------
(* A placeholder in flight has a task *)

InFlight(k) == phase[k] = "Spawning" /\ ~awaiting[k]
\* A call that spawns for key k, or will after a write.
Spawns(c, k) == c.key = k /\ (c.pc \in {"spawn", "archive", "activate"} \/ c.next \in {"spawn", "activate"})
\* Only a call that is writing has something to do after it.
WritesFirst(c) == c.next # "idle" => c.pc \in {"own", "build", "save"}

SpawnInv == TypeOK /\ (\A t \in Tasks : WritesFirst(task[t])) /\ SpawnHasTask

\* A step of task t that makes of its call c, and touches the mapping of key k alone, keeps
\* the invariant if t spawns for whatever it put in flight, and for what it did before.
LEMMA SpawnFrame ==
  ASSUME SpawnInv, TypeOK', NEW t \in Tasks, NEW k \in Keys, NEW c, Goto(t, c), WritesFirst(c),
         \A j \in Keys \ {k} : phase'[j] = phase[j] /\ awaiting'[j] = awaiting[j],
         InFlight(k)' => InFlight(k) \/ Spawns(c, k),
         \A j \in Keys : Spawns(task[t], j) /\ InFlight(j)' => Spawns(c, j)
  PROVE  SpawnInv'
<1>1. task'[t] = c /\ \A u \in Tasks \ {t} : task'[u] = task[u]
  BY DEF SpawnInv, TypeOK, Goto
<1>2. ASSUME NEW j \in Keys, InFlight(j)' PROVE \E u \in Tasks : Spawns(task'[u], j)
  <2>1. CASE Spawns(c, j)
    BY <1>1, <2>1
  <2>2. CASE ~Spawns(c, j)
    <3>1. InFlight(j)
      BY <1>2, <2>2 DEF InFlight
    <3>2. PICK u \in Tasks : Spawns(task[u], j)
      BY <3>1 DEF SpawnInv, SpawnHasTask, InFlight, Spawns
    <3>3. u # t
      BY <1>2, <2>2, <3>2
    <3> QED
      BY <1>1, <3>2, <3>3
  <2> QED
    BY <2>1, <2>2
<1>3. SpawnHasTask'
  BY <1>2 DEF SpawnHasTask, InFlight, Spawns
<1>4. \A u \in Tasks : WritesFirst(task'[u])
  BY <1>1 DEF SpawnInv
<1> QED
  BY <1>3, <1>4 DEF SpawnInv, WritesFirst

\* A step that changes no phase and has t go on to something that spawns as before.
LEMMA SpawnKept ==
  ASSUME SpawnInv, TypeOK', NEW t \in Tasks, NEW c, Goto(t, c), WritesFirst(c),
         UNCHANGED <<phase, awaiting>>, \A j \in Keys : Spawns(task[t], j) => Spawns(c, j)
  PROVE  SpawnInv'
<1>1. task'[t] = c /\ \A u \in Tasks \ {t} : task'[u] = task[u]
  BY DEF SpawnInv, TypeOK, Goto
<1>2. ASSUME NEW j \in Keys, InFlight(j) PROVE \E u \in Tasks : Spawns(task'[u], j)
  <2>1. PICK u \in Tasks : Spawns(task[u], j)
    BY <1>2 DEF SpawnInv, SpawnHasTask, InFlight, Spawns
  <2> QED
    BY <1>1, <2>1
<1>3. SpawnHasTask'
  BY <1>2 DEF SpawnHasTask, InFlight, Spawns
<1>4. \A u \in Tasks : WritesFirst(task'[u])
  BY <1>1 DEF SpawnInv
<1> QED
  BY <1>3, <1>4 DEF SpawnInv, WritesFirst

\* Neither the phases nor the calls change.
LEMMA SpawnStutter ==
  ASSUME SpawnInv, TypeOK', UNCHANGED <<phase, awaiting, task>>
  PROVE  SpawnInv'
  BY DEF SpawnInv, SpawnHasTask, WritesFirst

LEMMA IdleSpawns ==
  ASSUME NEW t \in Tasks, task[t].pc = "idle", SpawnInv
  PROVE  \A j \in Keys : ~Spawns(task[t], j)
  BY DEF SpawnInv, WritesFirst, Spawns

\* A free task starts a call that spawns nothing, and no phase changes.
LEMMA QuietCall ==
  ASSUME SpawnInv, TypeOK', NEW t \in Tasks, NEW c, task[t].pc = "idle", Goto(t, c),
         c.next = "idle", phase' = phase, awaiting' = awaiting
  PROVE  SpawnInv'
<1>1. WritesFirst(c)
  BY DEF WritesFirst
<1>2. \A j \in Keys : Spawns(task[t], j) => Spawns(c, j)
  BY IdleSpawns
<1> QED
  BY <1>1, <1>2, SpawnKept

LEMMA CallSpawns ==
  ASSUME SpawnInv, TypeOK', NEW t \in Tasks, Call(t)
  PROVE  SpawnInv'
<1>1. UserKeys \subseteq Keys /\ TypeOK
  BY DEF Keys, SpawnInv
<1>2. PICK k \in UserKeys :
        \/ RouteNew(t, k) \/ RouteContinue(t, k) \/ RouteClaim(t, k) \/ RouteRetry(t, k)
        \/ RouteFirst(t, k) \/ ActivatePlaceholder(t, k) \/ RouteStage(t, k) \/ BeginSpawn(t, k)
        \/ \E aw \in BOOLEAN : CreateWeb(t, k, aw)
        \/ SetField(t, k) \/ DrainLookup(t, k) \/ Retire(t, k) \/ CloseRead(t, k)
        \/ \E s \in Sids : RestoreRead(t, k, s)
        \/ \E i \in Ids : RemoveStaged(t, k, i) \/ \E n \in Ids : MoveStaged(t, k, i, n)
  BY DEF Call
<1>3. k \in Keys
  BY <1>1
<1>4. task[t].pc = "idle" => \A j \in Keys : ~Spawns(task[t], j)
  BY IdleSpawns
<1>5. ASSUME \/ RouteNew(t, k) \/ RouteClaim(t, k) \/ RouteRetry(t, k) \/ RouteFirst(t, k)
             \/ ActivatePlaceholder(t, k) \/ BeginSpawn(t, k)
      PROVE  SpawnInv'
  <2>1. task[t].pc = "idle" /\ Bind(k, "Spawning", NoSid, FALSE) /\ \E s : Goto(t, SpawnCall(k, s))
    BY <1>5 DEF RouteNew, RouteClaim, RouteRetry, RouteFirst, ActivatePlaceholder, BeginSpawn
  <2>2. PICK s : Goto(t, SpawnCall(k, s))
    BY <2>1
  <2>3. Spawns(SpawnCall(k, s), k) /\ WritesFirst(SpawnCall(k, s))
    BY DEF Spawns, SpawnCall, Idle, WritesFirst
  <2>4. \A j \in Keys \ {k} : phase'[j] = phase[j] /\ awaiting'[j] = awaiting[j]
    BY <1>1, <2>1 DEF Bind, TypeOK
  <2> QED
    BY <1>3, <1>4, <2>1, <2>2, <2>3, <2>4, SpawnFrame
<1>6. ASSUME NEW aw \in BOOLEAN, CreateWeb(t, k, aw) PROVE SpawnInv'
  <2> DEFINE c == [Idle EXCEPT !.pc = "own", !.key = k, !.at = k,
                               !.next = IF aw THEN "idle" ELSE "spawn"]
  <2>1. task[t].pc = "idle" /\ Bind(k, "Spawning", NoSid, aw) /\ Goto(t, c)
    BY <1>6 DEF CreateWeb
  <2>2. (~aw => Spawns(c, k)) /\ WritesFirst(c)
    BY DEF Spawns, Idle, WritesFirst
  <2>3. \A j \in Keys \ {k} : phase'[j] = phase[j] /\ awaiting'[j] = awaiting[j]
    BY <1>1, <2>1 DEF Bind, TypeOK
  <2>4. awaiting'[k] = aw
    BY <1>1, <1>3, <2>1 DEF Bind, TypeOK
  <2> HIDE DEF c
  <2>5. InFlight(k)' => InFlight(k) \/ Spawns(c, k)
    BY <2>2, <2>4 DEF InFlight
  <2> QED
    BY <1>3, <1>4, <2>1, <2>2, <2>3, <2>5, SpawnFrame
<1>7. ASSUME \/ RouteContinue(t, k) \/ SetField(t, k) \/ DrainLookup(t, k) \/ CloseRead(t, k)
             \/ \E s \in Sids : RestoreRead(t, k, s)
      PROVE  SpawnInv'
  <2>1. CASE RouteContinue(t, k)
    BY <2>1, QuietCall DEF RouteContinue, Idle, inner
  <2>2. CASE SetField(t, k)
    BY <2>2, QuietCall DEF SetField, UpsertCall, Idle, inner
  <2>3. CASE DrainLookup(t, k)
    BY <2>3, QuietCall DEF DrainLookup, Idle, inner
  <2>4. CASE CloseRead(t, k)
    BY <2>4, QuietCall DEF CloseRead, Idle, inner
  <2>5. CASE \E s \in Sids : RestoreRead(t, k, s)
    BY <2>5, QuietCall DEF RestoreRead, Idle, inner
  <2> QED
    BY <1>7, <2>1, <2>2, <2>3, <2>4, <2>5
<1>8. ASSUME Retire(t, k) PROVE SpawnInv'
  <2>1. task[t].pc = "idle" /\ Goto(t, UpsertCall(k)) /\ WritesFirst(UpsertCall(k))
    BY <1>8 DEF Retire, UpsertCall, Idle, WritesFirst
  <2>2. /\ phase'[k] = "Dormant"
        /\ \A j \in Keys \ {k} : phase'[j] = phase[j] /\ awaiting'[j] = awaiting[j]
    BY <1>1, <1>3, <1>8 DEF Retire, TypeOK
  <2> QED
    BY <1>3, <1>4, <2>1, <2>2, SpawnFrame DEF InFlight
<1>9. ASSUME RouteStage(t, k) PROVE SpawnInv'
  BY <1>9, SpawnStutter DEF RouteStage, inner
<1>10. ASSUME NEW i \in Ids, RemoveStaged(t, k, i) \/ \E n \in Ids : MoveStaged(t, k, i, n)
       PROVE  SpawnInv'
  <2>1. task[t].pc = "idle" /\ phase' = phase /\ awaiting' = awaiting
    BY <1>10 DEF RemoveStaged, MoveStaged, inner
  <2>2. CASE UNCHANGED task
    BY <2>1, <2>2, SpawnStutter
  <2>3. CASE Goto(t, [Idle EXCEPT !.pc = "turns", !.key = k, !.id = i])
    BY <2>1, <2>3, QuietCall DEF Idle
  <2>4. ASSUME NEW n \in Ids,
               Goto(t, [Idle EXCEPT !.pc = "turns", !.key = k, !.id = i, !.to = n])
        PROVE  SpawnInv'
    BY <2>1, <2>4, QuietCall DEF Idle
  <2> QED
    BY <1>10, <2>2, <2>3, <2>4 DEF RemoveStaged, MoveStaged
<1> QED
  BY <1>2, <1>5, <1>6, <1>7, <1>8, <1>9, <1>10

LEMMA StepSpawns ==
  ASSUME SpawnInv, TypeOK', NEW t \in Tasks, Step(t)
  PROVE  SpawnInv'
<1> DEFINE k == task[t].key
<1>1. /\ TypeOK /\ task[t] \in Calls /\ CallOK(task[t]) /\ WritesFirst(task[t])
      /\ task[t].pc # "idle" => k \in Keys
  BY CallType DEF SpawnInv
<1>2. WritesFirst(Idle) /\ \A j \in Keys : ~Spawns(Idle, j)
  BY DEF WritesFirst, Spawns, Idle
<1>3. WritesFirst(Proceed(t)) /\ \A j \in Keys :
        task[t].pc \in {"own", "build", "save"} /\ Spawns(task[t], j) => Spawns(Proceed(t), j)
  BY <1>1 DEF WritesFirst, Spawns, Proceed, Idle, Calls
<1>4. task[t].pc \in Pcs \ {"own", "build", "save"} => task[t].next = "idle"
  BY <1>1 DEF WritesFirst
<1>5. ASSUME SetProject(t) PROVE SpawnInv'
  <2>1. task[t].pc = "own" /\ UNCHANGED <<phase, awaiting>>
        /\ (Goto(t, Proceed(t)) \/ Goto(t, [task[t] EXCEPT !.pc = "build"]))
    BY <1>5 DEF SetProject
  <2>2. /\ WritesFirst([task[t] EXCEPT !.pc = "build"])
        /\ \A j \in Keys : Spawns(task[t], j) => Spawns([task[t] EXCEPT !.pc = "build"], j)
    BY <1>1, <2>1 DEF WritesFirst, Spawns, Calls
  <2> QED
    BY <1>3, <2>1, <2>2, SpawnKept
<1>6. ASSUME (\E s \in Sids : SpawnFresh(t, s)) \/ SpawnResumed(t) PROVE SpawnInv'
  <2>1. task[t].pc = "spawn" /\ phase' = phase /\ awaiting' = awaiting /\ task[t].next = "idle"
    BY <1>4, <1>6 DEF SpawnFresh, SpawnResumed, inner, Pcs
  <2>2. \E z, p : p \in {"activate", "archive"} /\ Goto(t, [task[t] EXCEPT !.sid = z, !.pc = p])
    BY <1>6 DEF SpawnFresh, SpawnResumed
  <2>3. PICK z, p : p \in {"activate", "archive"} /\ Goto(t, [task[t] EXCEPT !.sid = z, !.pc = p])
    BY <2>2
  <2> DEFINE c == [task[t] EXCEPT !.sid = z, !.pc = p]
  <2>4. c.pc = p /\ c.key = task[t].key /\ c.next = task[t].next
    BY <1>1 DEF Calls
  <2>5. Goto(t, c)
    BY <2>3
  <2> HIDE DEF c, k
  <2>6. WritesFirst(c) /\ \A j \in Keys : Spawns(task[t], j) => Spawns(c, j)
    BY <2>1, <2>3, <2>4 DEF WritesFirst, Spawns
  <2> QED
    BY <2>1, <2>5, <2>6, SpawnKept
<1>7. ASSUME FailSpawn(t) PROVE SpawnInv'
  <2>1. k \in Keys /\ task[t].pc \in {"spawn", "activate"} /\ Goto(t, Idle)
    BY <1>1, <1>7 DEF FailSpawn
  <2>2. task[t].next = "idle" /\ \A j \in Keys : Spawns(task[t], j) => j = k
    BY <1>4, <2>1 DEF Spawns, Pcs
  <2>3. /\ phase'[k] # "Spawning"
        /\ \A j \in Keys \ {k} : phase'[j] = phase[j] /\ awaiting'[j] = awaiting[j]
    <3>1. CASE phase[k] = "Spawning"
      BY <1>1, <1>7, <2>1, <3>1 DEF FailSpawn, Bind, TypeOK
    <3>2. CASE phase[k] # "Spawning"
      BY <1>7, <3>2 DEF FailSpawn
    <3> QED
      BY <3>1, <3>2
  <2> HIDE DEF k
  <2>4. PICK b \in Keys : b = k
    BY <2>1
  <2>5. ~InFlight(b)'
    BY <2>3, <2>4 DEF InFlight
  <2>6. \A j \in Keys : Spawns(task[t], j) /\ InFlight(j)' => Spawns(Idle, j)
    BY <2>2, <2>4, <2>5
  <2>7. \A j \in Keys \ {b} : phase'[j] = phase[j] /\ awaiting'[j] = awaiting[j]
    BY <2>3, <2>4
  <2> QED
    BY <1>2, <2>1, <2>5, <2>6, <2>7, SpawnFrame
<1>8. ASSUME PreserveClosed(t) PROVE SpawnInv'
  <2> DEFINE a == task[t].old
  <2>1. task[t].pc = "archive" /\ a \in Keys /\ k \in Keys
    BY <1>1, <1>8 DEF PreserveClosed, CallOK, Keys
  <2>2. \E c : Goto(t, c) /\ WritesFirst(c) /\ Spawns(c, k)
    <3>1. ASSUME NEW c, c = [task[t] EXCEPT !.pc = "activate"]
                        \/ c = [task[t] EXCEPT !.pc = "build", !.at = a, !.next = "activate"]
          PROVE  c \in Calls /\ WritesFirst(c) /\ Spawns(c, k)
      BY <1>1, <1>4, <2>1, <3>1 DEF Calls, WritesFirst, Spawns, Pcs
    <3> QED
      BY <1>8, <3>1 DEF PreserveClosed
  <2>3. \A j \in Keys : Spawns(task[t], j) => j = k
    BY DEF Spawns
  <2>4. /\ phase'[a] = "Spawning" => UNCHANGED <<phase, awaiting>>
        /\ \A j \in Keys \ {a} : phase'[j] = phase[j] /\ awaiting'[j] = awaiting[j]
    <3>1. CASE phase[a] = "None" /\ HasRoom
      BY <1>1, <1>8, <2>1, <3>1 DEF PreserveClosed, Bind, TypeOK
    <3>2. CASE ~(phase[a] = "None" /\ HasRoom)
      BY <1>8, <3>2 DEF PreserveClosed
    <3> QED
      BY <3>1, <3>2
  <2> HIDE DEF k, a
  <2>5. PICK b \in Keys :
          /\ InFlight(b)' => InFlight(b)
          /\ \A j \in Keys \ {b} : phase'[j] = phase[j] /\ awaiting'[j] = awaiting[j]
    <3>1. PICK b \in Keys : b = a
      BY <2>1
    <3>2. InFlight(b)' => InFlight(b)
      BY <2>4, <3>1 DEF InFlight
    <3> QED
      BY <2>4, <3>1, <3>2
  <2>6. PICK c : Goto(t, c) /\ WritesFirst(c) /\ Spawns(c, k)
    BY <2>2
  <2>7. \A j \in Keys : Spawns(task[t], j) /\ InFlight(j)' => Spawns(c, j)
    BY <2>3, <2>6
  <2> QED
    BY <2>5, <2>6, <2>7, SpawnFrame
<1>9. ASSUME Activate(t) PROVE SpawnInv'
  <2>1. k \in Keys /\ task[t].pc = "activate" /\ Goto(t, UpsertCall(k)) /\ WritesFirst(UpsertCall(k))
    BY <1>1, <1>9 DEF Activate, UpsertCall, Idle, WritesFirst
  <2>2. \A j \in Keys : Spawns(task[t], j) => j = k
    BY DEF Spawns
  <2>3. /\ phase'[k] = "Active"
        /\ \A j \in Keys \ {k} : phase'[j] = phase[j] /\ awaiting'[j] = awaiting[j]
    BY <1>1, <1>9, <2>1 DEF Activate, Bind, TypeOK
  <2> HIDE DEF k
  <2> QED
    BY <2>1, <2>2, <2>3, SpawnFrame DEF InFlight
<1>10. ASSUME \/ SubmitDirect(t) \/ EnqueuePush(t) \/ PopNext(t) \/ RemoveQueued(t)
              \/ MoveQueued(t) \/ CloseNothing(t) \/ CloseClear(t)
       PROVE  SpawnInv'
  <2>1. /\ Goto(t, Idle) /\ UNCHANGED <<phase, awaiting>>
        /\ task[t].pc \in {"submit", "push", "drain", "turns", "closing", "clear"}
    BY <1>10 DEF SubmitDirect, EnqueuePush, PopNext, RemoveQueued, MoveQueued, CloseNothing,
       CloseClear, inner
  <2>2. \A j \in Keys : ~Spawns(task[t], j)
    BY <1>4, <2>1 DEF Spawns, Pcs
  <2> QED
    BY <1>2, <2>1, <2>2, SpawnKept
<1>11. ASSUME NEW prio \in BOOLEAN, EnqueueAlloc(t, prio) PROVE SpawnInv'
  <2>1. /\ task[t].pc = "submit" /\ UNCHANGED <<phase, awaiting>>
        /\ \E n : Goto(t, [task[t] EXCEPT !.pc = "push", !.id = n, !.prio = prio])
    BY <1>11 DEF EnqueueAlloc, inner
  <2>2. PICK n : Goto(t, [task[t] EXCEPT !.pc = "push", !.id = n, !.prio = prio])
    BY <2>1
  <2>3. task[t].next = "idle" /\ WritesFirst([task[t] EXCEPT !.pc = "push", !.id = n, !.prio = prio])
    BY <1>1, <1>4, <2>1 DEF Calls, WritesFirst, Pcs
  <2>4. \A j \in Keys : ~Spawns(task[t], j)
    BY <2>1, <2>3 DEF Spawns
  <2> QED
    BY <2>1, <2>2, <2>3, <2>4, SpawnKept
<1>12. ASSUME NEW j \in Keys, CloseRemove(t, j) PROVE SpawnInv'
  <2>1. /\ task[t].pc = "closing" /\ Bind(j, "None", NoSid, FALSE)
        /\ Goto(t, [task[t] EXCEPT !.pc = "delete", !.at = j])
    BY <1>12 DEF CloseRemove
  <2>2. task[t].next = "idle" /\ WritesFirst([task[t] EXCEPT !.pc = "delete", !.at = j])
    BY <1>1, <1>4, <2>1 DEF Calls, WritesFirst, Pcs
  <2>3. \A i \in Keys : ~Spawns(task[t], i)
    BY <2>1, <2>2 DEF Spawns
  <2>4. /\ phase'[j] = "None"
        /\ \A i \in Keys \ {j} : phase'[i] = phase[i] /\ awaiting'[i] = awaiting[i]
    BY <1>1, <2>1 DEF Bind, TypeOK
  <2> QED
    BY <2>1, <2>2, <2>3, <2>4, SpawnFrame DEF InFlight
<1>13. ASSUME RestoreInsert(t) PROVE SpawnInv'
  <2>1. task[t].pc = "restore" /\ k \in Keys
    BY <1>1, <1>13 DEF RestoreInsert
  <2>2. \A j \in Keys : ~Spawns(task[t], j)
    BY <1>4, <2>1 DEF Spawns, Pcs
  <2>3. CASE phase[k] # "None" \/ HasRoom
    <3>1. Bind(k, "Dormant", task[t].old, FALSE) /\ Goto(t, UpsertCall(k)) /\ WritesFirst(UpsertCall(k))
      BY <1>13, <2>3 DEF RestoreInsert, WritesFirst, UpsertCall, Idle
    <3>2. /\ phase'[k] = "Dormant"
          /\ \A j \in Keys \ {k} : phase'[j] = phase[j] /\ awaiting'[j] = awaiting[j]
      BY <1>1, <2>1, <3>1 DEF Bind, TypeOK
    <3> HIDE DEF k
    <3> QED
      BY <2>1, <2>2, <3>1, <3>2, SpawnFrame DEF InFlight
  <2>4. CASE ~(phase[k] # "None" \/ HasRoom)
    <3>1. Goto(t, Idle) /\ UNCHANGED <<phase, awaiting>>
      BY <1>13, <2>4 DEF RestoreInsert, inner
    <3> QED
      BY <1>2, <2>2, <3>1, SpawnKept
  <2> QED
    BY <2>3, <2>4
<1>14. ASSUME BuildRow(t) PROVE SpawnInv'
  <2>1. PICK row \in Rows :
          /\ task[t].pc = "build" /\ UNCHANGED <<phase, awaiting>>
          /\ Goto(t, Proceed(t)) \/ Goto(t, [task[t] EXCEPT !.pc = "save", !.row = row])
    BY <1>1, <1>14, RowOfType DEF BuildRow, inner, CallOK
  <2>2. /\ WritesFirst([task[t] EXCEPT !.pc = "save", !.row = row])
        /\ \A j \in Keys : Spawns(task[t], j) => Spawns([task[t] EXCEPT !.pc = "save", !.row = row], j)
    BY <1>1, <2>1 DEF WritesFirst, Spawns, Calls
  <2> QED
    BY <1>3, <2>1, <2>2, SpawnKept
<1>15. ASSUME SaveRow(t) PROVE SpawnInv'
  <2> DEFINE p == Proceed(t)
  <2>1. /\ task[t].pc = "save" /\ UNCHANGED <<phase, awaiting>> /\ Goto(t, [p EXCEPT !.row = NoRow])
    BY <1>15 DEF SaveRow, inner
  <2>2. p \in Calls
    BY <1>1, ProceedType DEF RunningCalls
  <2>3. [p EXCEPT !.row = NoRow].pc = p.pc /\ [p EXCEPT !.row = NoRow].next = p.next
        /\ [p EXCEPT !.row = NoRow].key = p.key
    BY <2>2 DEF Calls
  <2>4. /\ WritesFirst([p EXCEPT !.row = NoRow])
        /\ \A j \in Keys : Spawns(task[t], j) => Spawns([p EXCEPT !.row = NoRow], j)
    BY <1>3, <2>1, <2>3 DEF WritesFirst, Spawns
  <2> QED
    BY <2>1, <2>4, SpawnKept
<1>16. ASSUME DeleteRow(t) PROVE SpawnInv'
  <2>1. /\ task[t].pc = "delete" /\ UNCHANGED <<phase, awaiting>>
        /\ Goto(t, [task[t] EXCEPT !.pc = "clear"])
    BY <1>16 DEF DeleteRow, inner
  <2>2. task[t].next = "idle" /\ WritesFirst([task[t] EXCEPT !.pc = "clear"])
    BY <1>1, <1>4, <2>1 DEF Calls, WritesFirst, Pcs
  <2>3. \A j \in Keys : ~Spawns(task[t], j)
    BY <2>1, <2>2 DEF Spawns
  <2> QED
    BY <2>1, <2>2, <2>3, SpawnKept
<1> HIDE DEF k
<1> QED
  BY <1>5, <1>6, <1>7, <1>8, <1>9, <1>10, <1>11, <1>12, <1>13, <1>14, <1>15, <1>16 DEF Step

LEMMA NextSpawns ==
  ASSUME SpawnInv, TypeOK', [Next]_vars
  PROVE  SpawnInv'
<1>1. CASE Crash
  <2>1. \A j \in Keys : ~InFlight(j)'
    BY <1>1 DEF Crash, InFlight, Restored, SpawnInv, TypeOK, NoRow
  <2>2. \A t \in Tasks : WritesFirst(task'[t])
    BY <1>1 DEF Crash, WritesFirst, Idle
  <2> QED
    BY <2>1, <2>2 DEF SpawnInv, SpawnHasTask, InFlight, WritesFirst
<1>2. CASE UNCHANGED vars
  BY <1>2, SpawnStutter DEF vars
<1> QED
  BY <1>1, <1>2, CallSpawns, StepSpawns DEF Next

\* A placeholder whose spawn is in flight has a task that will settle it, across closes,
\* retries and restarts, so that nothing staged waits for ever for nobody (session_boot.rs).
THEOREM SpawnsAreDriven == Spec => []SpawnHasTask
<1>1. Init => SpawnInv
  BY InitType DEF Init, SpawnInv, SpawnHasTask, WritesFirst, Idle
<1>2. SpawnInv /\ TypeOK' /\ [Next]_vars => SpawnInv'
  BY NextSpawns
<1>3. SpawnInv => SpawnHasTask
  BY DEF SpawnInv
<1> QED
  BY <1>1, <1>2, <1>3, TypeCorrect, PTL DEF Spec

=============================================================================
