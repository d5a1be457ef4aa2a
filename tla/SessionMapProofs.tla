--------------------------- MODULE SessionMapProofs ---------------------------
(***************************************************************************)
(* Proofs about SessionMap, for every set of keys, sessions and tasks and  *)
(* every value of the caps and bounds: types, and then what holds as long  *)
(* as the calls of the daemon come one at a time.                          *)
(***************************************************************************)
EXTENDS SessionMap, SequenceTheorems, TLAPS

-----------------------------------------------------------------------------
(* Types *)

LEMMA IdleType == Idle \in RunningCalls
  BY ConstantsAssumption DEF RunningCalls, Calls, CallOK, Pcs, Idle, SidsOrNone, Rows, NoRow

LEMMA SpawnCallType ==
  ASSUME NEW k \in Keys, NEW s \in SidsOrNone
  PROVE  SpawnCall(k, s) \in RunningCalls
  BY ConstantsAssumption
  DEF RunningCalls, Calls, CallOK, Pcs, Idle, SidsOrNone, Rows, NoRow, SpawnCall

LEMMA UpsertCallType == ASSUME NEW k \in Keys PROVE UpsertCall(k) \in RunningCalls
  BY ConstantsAssumption
  DEF RunningCalls, Calls, CallOK, Pcs, Idle, SidsOrNone, Rows, NoRow, UpsertCall

LEMMA ProceedType ==
  ASSUME TypeOK, NEW t \in Tasks
  PROVE  Proceed(t) \in RunningCalls
<1>1. task[t] \in Calls /\ CallOK(task[t])
  BY DEF TypeOK, RunningCalls
<1>2. CASE task[t].next = "idle"
  BY <1>2, IdleType DEF Proceed
<1>3. CASE task[t].next # "idle"
  <2>1. task[t].next \in {"spawn", "activate"} /\ task[t].key \in Keys
    BY <1>1, <1>3 DEF Calls, CallOK
  <2>2. Proceed(t) = [task[t] EXCEPT !.pc = task[t].next, !.next = "idle"]
    BY <1>3 DEF Proceed
  <2>3. Proceed(t) \in Calls
    BY <1>1, <2>1, <2>2 DEF Calls, Pcs
  <2>4. CallOK(Proceed(t))
    BY <1>1, <2>1, <2>2 DEF Calls, CallOK
  <2> QED
    BY <2>3, <2>4 DEF RunningCalls
<1> QED
  BY <1>2, <1>3

LEMMA GotoType ==
  ASSUME TypeOK, NEW t \in Tasks, NEW c \in RunningCalls, Goto(t, c)
  PROVE  task' \in [Tasks -> RunningCalls]
  BY DEF TypeOK, Goto

\* What the task of a call that runs is known to hold.
LEMMA CallType ==
  ASSUME TypeOK, NEW t \in Tasks
  PROVE  /\ task[t] \in Calls /\ CallOK(task[t])
         /\ task[t].pc # "idle" => task[t].key \in Keys
         /\ task[t].sid \in SidsOrNone /\ task[t].old \in SidsOrNone /\ task[t].row \in Rows
         /\ task[t].id \in Nat /\ task[t].to \in Nat /\ task[t].prio \in BOOLEAN
  BY DEF TypeOK, RunningCalls, Calls, CallOK

LEMMA RowOfType == ASSUME TypeOK, NEW k \in Keys PROVE RowOf(k) \in Rows
  BY DEF TypeOK, RowOf, NoRow, Rows, SidsOrNone

LEMMA SettledType ==
  ASSUME TypeOK, NEW k \in Keys, NEW ids, NEW f \in Fates
  PROVE  Settled(k, ids, f) \in [Keys -> [Ids -> Fates]]
  BY DEF TypeOK, Settled

LEMMA ClearQueueType ==
  ASSUME TypeOK, NEW k \in Keys, ClearQueue(k)
  PROVE  /\ queue' \in [Keys -> Seq(Turns)] /\ delivered' \in [Keys -> SUBSET Ids]
         /\ fate' \in [Keys -> [Ids -> Fates]]
<1>1. "dropped" \in Fates /\ "ended" \in Fates
  BY DEF Fates
<1> QED
  BY <1>1 DEF TypeOK, ClearQueue

\* The staging queue of a mapping that leaves its placeholder is empty.
LEMMA DropStagedType ==
  ASSUME TypeOK, NEW k \in Keys, DropStaged(k)
  PROVE  /\ staged' = [staged EXCEPT ![k] = <<>>]
         /\ staged' \in [Keys -> Seq(Ids)] /\ fate' \in [Keys -> [Ids -> Fates]]
<1>1. fate' \in [Keys -> [Ids -> Fates]]
  BY SettledType DEF DropStaged, Fates
<1> QED
  BY <1>1 DEF DropStaged, TypeOK

LEMMA RemoveAtType ==
  ASSUME NEW S, NEW q \in Seq(S), NEW p \in 1..Len(q)
  PROVE  /\ RemoveAt(q, p) \in Seq(S)
         /\ Len(RemoveAt(q, p)) = Len(q) - 1
         /\ \A j \in 1..Len(q)-1 : RemoveAt(q, p)[j] = IF j < p THEN q[j] ELSE q[j + 1]
<1> DEFINE a == SubSeq(q, 1, p - 1)
           b == SubSeq(q, p + 1, Len(q))
<1>1. a \in Seq(S) /\ Len(a) = p - 1 /\ \A j \in 1..(p - 1) : a[j] = q[j]
  BY SubSeqProperties
<1>2. b \in Seq(S) /\ Len(b) = Len(q) - p /\ \A j \in 1..(Len(q) - p) : b[j] = q[p + j]
  BY SubSeqProperties
<1>3. RemoveAt(q, p) = a \o b
  BY DEF RemoveAt
<1> HIDE DEF a, b
<1> QED
  BY <1>1, <1>2, <1>3, ConcatProperties, SMTT(40)

LEMMA InsertAtType ==
  ASSUME NEW S, NEW q \in Seq(S), NEW e \in S, NEW p \in 1..(Len(q) + 1)
  PROVE  /\ InsertAt(q, p, e) \in Seq(S)
         /\ Len(InsertAt(q, p, e)) = Len(q) + 1
         /\ \A j \in 1..Len(q)+1 :
              InsertAt(q, p, e)[j] = IF j < p THEN q[j] ELSE IF j = p THEN e ELSE q[j - 1]
<1> DEFINE a == SubSeq(q, 1, p - 1)
           b == SubSeq(q, p, Len(q))
<1>1. a \in Seq(S) /\ Len(a) = p - 1 /\ \A j \in 1..(p - 1) : a[j] = q[j]
  BY SubSeqProperties
<1>2. b \in Seq(S) /\ Len(b) = Len(q) - p + 1 /\ \A j \in 1..(Len(q) - p + 1) : b[j] = q[p + j - 1]
  BY SubSeqProperties
<1>3. InsertAt(q, p, e) = a \o <<e>> \o b
  BY DEF InsertAt
<1> HIDE DEF a, b
<1>4. a \o <<e>> \in Seq(S) /\ Len(a \o <<e>>) = p
      /\ \A j \in 1..p : (a \o <<e>>)[j] = IF j < p THEN q[j] ELSE e
  BY <1>1, ConcatProperties
<1> QED
  BY <1>2, <1>3, <1>4, ConcatProperties

LEMMA InitType == Init => TypeOK
  BY ConstantsAssumption, IdleType DEF Init, TypeOK, Phases, SidsOrNone, Turns, Rows, NoRow, Ids, Fates
\* A call of a free task preserves the types.
LEMMA CallPreservesType ==
  ASSUME TypeOK, NEW t \in Tasks, Call(t)
  PROVE  TypeOK'
<1> USE ConstantsAssumption DEF Keys
<1>1. PICK k \in UserKeys :
        \/ RouteNew(t, k) \/ RouteContinue(t, k) \/ RouteClaim(t, k) \/ RouteRetry(t, k)
        \/ RouteFirst(t, k) \/ ActivatePlaceholder(t, k) \/ RouteStage(t, k) \/ BeginSpawn(t, k)
        \/ \E aw \in BOOLEAN : CreateWeb(t, k, aw)
        \/ SetField(t, k) \/ DrainLookup(t, k) \/ Retire(t, k) \/ CloseRead(t, k)
        \/ \E s \in Sids : RestoreRead(t, k, s)
        \/ \E i \in Ids : RemoveStaged(t, k, i) \/ \E n \in Ids : MoveStaged(t, k, i, n)
  BY DEF Call
<1>2. k \in Keys /\ sid[k] \in SidsOrNone /\ NoSid \in SidsOrNone
  BY DEF TypeOK, SidsOrNone
<1>3. ASSUME RouteNew(t, k) PROVE TypeOK'
  <2>1. task' \in [Tasks -> RunningCalls]
    BY <1>2, <1>3, SpawnCallType, GotoType DEF RouteNew
  <2> QED
    BY <1>2, <1>3, <2>1 DEF TypeOK, RouteNew, Bind, pending, names, Phases
<1>4. ASSUME RouteContinue(t, k) PROVE TypeOK'
  <2>1. [Idle EXCEPT !.pc = "submit", !.key = k, !.sid = sid[k]] \in RunningCalls
    BY <1>2, IdleType DEF RunningCalls, Calls, CallOK, Pcs, Idle
  <2>2. task' \in [Tasks -> RunningCalls]
    BY <1>4, <2>1, GotoType DEF RouteContinue
  <2> QED
    BY <1>4, <2>2 DEF TypeOK, RouteContinue, inner, pending, names
<1>5. ASSUME RouteClaim(t, k) PROVE TypeOK'
  <2>1. task' \in [Tasks -> RunningCalls]
    BY <1>2, <1>5, SpawnCallType, GotoType DEF RouteClaim
  <2> QED
    BY <1>2, <1>5, <2>1 DEF TypeOK, RouteClaim, Bind, pending, names, Phases
<1>6. ASSUME RouteRetry(t, k) PROVE TypeOK'
  <2>1. task' \in [Tasks -> RunningCalls]
    BY <1>2, <1>6, SpawnCallType, GotoType DEF RouteRetry
  <2> QED
    BY <1>2, <1>6, <2>1 DEF TypeOK, RouteRetry, Bind, pending, names, Phases
<1>7. ASSUME RouteFirst(t, k) PROVE TypeOK'
  <2>1. task' \in [Tasks -> RunningCalls]
    BY <1>2, <1>7, SpawnCallType, GotoType DEF RouteFirst
  <2>2. staged' = [staged EXCEPT ![k] = <<>>] /\ fate' \in [Keys -> [Ids -> Fates]]
    BY <1>2, <1>7, DropStagedType DEF RouteFirst
  <2> QED
    BY <1>2, <1>7, <2>1, <2>2 DEF TypeOK, RouteFirst, Bind, names, Phases
<1>8. ASSUME ActivatePlaceholder(t, k) PROVE TypeOK'
  <2>1. task' \in [Tasks -> RunningCalls]
    BY <1>2, <1>8, SpawnCallType, GotoType DEF ActivatePlaceholder
  <2> QED
    BY <1>2, <1>8, <2>1 DEF TypeOK, ActivatePlaceholder, Bind, pending, names, Phases
<1>9. ASSUME RouteStage(t, k) PROVE TypeOK'
  <2>1. fate' \in [Keys -> [Ids -> Fates]]
    BY <1>2, <1>9, SettledType DEF RouteStage, Fates
  <2>2. lastId[k] \in Nat /\ lastId[k] + 1 \in Ids /\ lastId' \in [Keys -> 0..MaxId]
    BY <1>2, <1>9 DEF RouteStage, TypeOK, Ids
  <2>3. staged[k] \in Seq(Ids) /\ Append(staged[k], lastId[k] + 1) \in Seq(Ids)
        /\ Len(Append(staged[k], lastId[k] + 1)) = Len(staged[k]) + 1
    BY <1>2, <2>2 DEF TypeOK
  <2>4. staged' \in [Keys -> Seq(Ids)]
    BY <1>2, <1>9, <2>3 DEF TypeOK, RouteStage
  <2>5. \A j \in Keys : Len(staged'[j]) <= MaxPending
                       /\ (staged'[j] # <<>> => phase[j] = "Spawning" /\ ~awaiting[j])
    BY <1>2, <1>9, <2>3 DEF TypeOK, RouteStage
  <2> QED
    BY <1>9, <2>1, <2>2, <2>4, <2>5 DEF TypeOK, RouteStage, inner, names
<1>10. ASSUME BeginSpawn(t, k) PROVE TypeOK'
  <2>1. task' \in [Tasks -> RunningCalls]
    BY <1>2, <1>10, SpawnCallType, GotoType DEF BeginSpawn
  <2>2. /\ queue' \in [Keys -> Seq(Turns)] /\ delivered' \in [Keys -> SUBSET Ids]
        /\ fate' \in [Keys -> [Ids -> Fates]]
    BY <1>2, <1>10, ClearQueueType DEF BeginSpawn
  <2> QED
    BY <1>2, <1>10, <2>1, <2>2 DEF TypeOK, BeginSpawn, Bind, names, Phases
<1>11. ASSUME NEW aw \in BOOLEAN, CreateWeb(t, k, aw) PROVE TypeOK'
  <2>1. [Idle EXCEPT !.pc = "own", !.key = k, !.at = k,
                     !.next = IF aw THEN "idle" ELSE "spawn"] \in RunningCalls
    BY <1>2, IdleType DEF RunningCalls, Calls, CallOK, Pcs, Idle
  <2>2. task' \in [Tasks -> RunningCalls]
    BY <1>11, <2>1, GotoType DEF CreateWeb
  <2> QED
    BY <1>2, <1>11, <2>2 DEF TypeOK, CreateWeb, Bind, pending, Phases
<1>12. ASSUME SetField(t, k) PROVE TypeOK'
  <2>1. task' \in [Tasks -> RunningCalls]
    BY <1>2, <1>12, UpsertCallType, GotoType DEF SetField
  <2> QED
    BY <1>12, <2>1 DEF TypeOK, SetField, inner, pending, names
<1>13. ASSUME DrainLookup(t, k) PROVE TypeOK'
  <2>1. [Idle EXCEPT !.pc = "drain", !.key = k, !.sid = sid[k]] \in RunningCalls
    BY <1>2, IdleType DEF RunningCalls, Calls, CallOK, Pcs, Idle
  <2>2. task' \in [Tasks -> RunningCalls]
    BY <1>13, <2>1, GotoType DEF DrainLookup
  <2> QED
    BY <1>13, <2>2 DEF TypeOK, DrainLookup, inner, pending, names
<1>14. ASSUME Retire(t, k) PROVE TypeOK'
  <2>1. task' \in [Tasks -> RunningCalls]
    BY <1>2, <1>14, UpsertCallType, GotoType DEF Retire
  <2>2. /\ queue' \in [Keys -> Seq(Turns)] /\ delivered' \in [Keys -> SUBSET Ids]
        /\ fate' \in [Keys -> [Ids -> Fates]]
    BY <1>2, <1>14, ClearQueueType DEF Retire
  <2> QED
    BY <1>2, <1>14, <2>1, <2>2 DEF TypeOK, Retire, names, Phases
<1>15. ASSUME CloseRead(t, k) PROVE TypeOK'
  <2>1. [Idle EXCEPT !.pc = "closing", !.key = k, !.old = sid[k],
                     !.sid = IF phase[k] = "Active" THEN sid[k] ELSE NoSid] \in RunningCalls
    BY <1>2, IdleType DEF RunningCalls, Calls, CallOK, Pcs, Idle
  <2>2. task' \in [Tasks -> RunningCalls]
    BY <1>15, <2>1, GotoType DEF CloseRead
  <2> QED
    BY <1>15, <2>2 DEF TypeOK, CloseRead, inner, pending, names
<1>16. ASSUME NEW s \in Sids, RestoreRead(t, k, s) PROVE TypeOK'
  <2>1. [Idle EXCEPT !.pc = "restore", !.key = k, !.old = s] \in RunningCalls
    BY <1>2, IdleType DEF RunningCalls, Calls, CallOK, Pcs, Idle, SidsOrNone
  <2>2. task' \in [Tasks -> RunningCalls]
    BY <1>16, <2>1, GotoType DEF RestoreRead
  <2> QED
    BY <1>16, <2>2 DEF TypeOK, RestoreRead, inner, pending, names
<1>17. ASSUME NEW i \in Ids, RemoveStaged(t, k, i) PROVE TypeOK'
  <2> DEFINE p == CHOOSE q \in DOMAIN staged[k] : staged[k][q] = i
  <2>1. CASE i \in StagedIds(k)
    <3>1. staged[k] \in Seq(Ids) /\ p \in 1..Len(staged[k])
      BY <1>2, <2>1 DEF StagedIds, TypeOK
    <3>2. RemoveAt(staged[k], p) \in Seq(Ids) /\ Len(RemoveAt(staged[k], p)) = Len(staged[k]) - 1
      BY <3>1, RemoveAtType
    <3>3. staged' = [staged EXCEPT ![k] = RemoveAt(staged[k], p)] /\ UNCHANGED task
      BY <1>17, <2>1 DEF RemoveStaged
    <3>4. fate' \in [Keys -> [Ids -> Fates]]
      <4>1. fate' = Settled(k, {i}, "removed") /\ "removed" \in Fates
        BY <1>17, <2>1 DEF RemoveStaged, Fates
      <4> QED
        BY <1>2, <4>1, SettledType
    <3>5. staged[k] # <<>>
      BY <3>1
    <3> HIDE DEF p
    <3>6. staged' \in [Keys -> Seq(Ids)]
      BY <1>2, <3>2, <3>3 DEF TypeOK
    <3>7. \A j \in Keys : Len(staged'[j]) <= MaxPending
                         /\ (staged'[j] # <<>> => phase[j] = "Spawning" /\ ~awaiting[j])
      BY <1>2, <3>1, <3>2, <3>3, <3>5 DEF TypeOK
    <3> QED
      BY <1>17, <3>3, <3>4, <3>6, <3>7 DEF TypeOK, RemoveStaged, inner, names
  <2>2. CASE i \notin StagedIds(k)
    <3> DEFINE c == [Idle EXCEPT !.pc = "turns", !.key = k, !.id = i]
    <3>1. c \in RunningCalls
      <4>1. i \in Nat
        BY DEF Ids
      <4>2. c \in Calls
        BY <1>2, <4>1, IdleType DEF RunningCalls, Calls, Pcs, Idle
      <4>3. CallOK(c)
        BY <1>2 DEF CallOK, Idle
      <4> QED
        BY <4>2, <4>3 DEF RunningCalls
    <3>2. task' \in [Tasks -> RunningCalls]
      BY <1>17, <2>2, <3>1, GotoType DEF RemoveStaged
    <3> QED
      BY <1>17, <2>2, <3>2 DEF TypeOK, RemoveStaged, inner, names
  <2> QED
    BY <2>1, <2>2
<1>18. ASSUME NEW i \in Ids, NEW n \in Ids, MoveStaged(t, k, i, n) PROVE TypeOK'
  <2> DEFINE p == CHOOSE q \in DOMAIN staged[k] : staged[k][q] = i
             r == RemoveAt(staged[k], p)
  <2>1. CASE i \in StagedIds(k)
    <3>1. staged[k] \in Seq(Ids) /\ p \in 1..Len(staged[k])
      BY <1>2, <2>1 DEF StagedIds, TypeOK
    <3>2. r \in Seq(Ids) /\ Len(r) = Len(staged[k]) - 1
      BY <3>1, RemoveAtType
    <3>3. staged' = [staged EXCEPT ![k] = InsertAt(r, n, i)] /\ UNCHANGED task /\ n <= Len(staged[k])
      BY <1>18, <2>1 DEF MoveStaged
    <3>4. staged[k] # <<>>
      BY <3>1
    <3> HIDE DEF p, r
    <3>5. n \in 1..(Len(r) + 1)
      BY <3>1, <3>2, <3>3 DEF Ids
    <3>6. InsertAt(r, n, i) \in Seq(Ids) /\ Len(InsertAt(r, n, i)) = Len(staged[k])
      BY <3>1, <3>2, <3>5, InsertAtType
    <3>7. staged' \in [Keys -> Seq(Ids)]
      BY <1>2, <3>3, <3>6 DEF TypeOK
    <3>8. \A j \in Keys : Len(staged'[j]) <= MaxPending
                         /\ (staged'[j] # <<>> => phase[j] = "Spawning" /\ ~awaiting[j])
      BY <1>2, <3>3, <3>4, <3>6 DEF TypeOK
    <3> QED
      BY <1>18, <3>3, <3>7, <3>8 DEF TypeOK, MoveStaged, inner, names
  <2>2. CASE i \notin StagedIds(k)
    <3> DEFINE c == [Idle EXCEPT !.pc = "turns", !.key = k, !.id = i, !.to = n]
    <3>1. c \in RunningCalls
      <4>1. i \in Nat /\ n \in Nat
        BY DEF Ids
      <4>2. c \in Calls
        BY <1>2, <4>1, IdleType DEF RunningCalls, Calls, Pcs, Idle
      <4>3. CallOK(c)
        BY <1>2 DEF CallOK, Idle
      <4> QED
        BY <4>2, <4>3 DEF RunningCalls
    <3>2. task' \in [Tasks -> RunningCalls]
      BY <1>18, <2>2, <3>1, GotoType DEF MoveStaged
    <3> QED
      BY <1>18, <2>2, <3>2 DEF TypeOK, MoveStaged, inner, names
  <2> QED
    BY <2>1, <2>2
<1> QED
  BY <1>1, <1>3, <1>4, <1>5, <1>6, <1>7, <1>8, <1>9, <1>10, <1>11, <1>12, <1>13, <1>14,
     <1>15, <1>16, <1>17, <1>18

\* A step of a running call preserves the types.
LEMMA StepPreservesType ==
  ASSUME TypeOK, NEW t \in Tasks, Step(t)
  PROVE  TypeOK'
<1> DEFINE k == task[t].key
           a == task[t].at
<1>1. /\ task[t] \in Calls /\ CallOK(task[t]) /\ (task[t].pc # "idle" => k \in Keys)
      /\ task[t].sid \in SidsOrNone /\ task[t].old \in SidsOrNone /\ task[t].row \in Rows
      /\ task[t].id \in Nat /\ task[t].to \in Nat /\ task[t].prio \in BOOLEAN
  BY CallType
<1>2. NoSid \in SidsOrNone /\ Sids \subseteq Keys /\ Sids \subseteq SidsOrNone
  BY DEF SidsOrNone, Keys
<1>3. \A c \in RunningCalls : Goto(t, c) => task' \in [Tasks -> RunningCalls]
  BY GotoType
<1>4. Idle \in RunningCalls /\ Proceed(t) \in RunningCalls
  BY IdleType, ProceedType
<1>5. ASSUME SetProject(t) PROVE TypeOK'
  <2>1. [task[t] EXCEPT !.pc = "build"] \in RunningCalls
    BY <1>1, <1>5 DEF SetProject, RunningCalls, Calls, CallOK, Pcs
  <2>2. task' \in [Tasks -> RunningCalls]
    BY <1>3, <1>4, <1>5, <2>1 DEF SetProject
  <2> QED
    BY <1>5, <2>2 DEF TypeOK, SetProject, pending, names
<1>6. ASSUME NEW s \in Sids, SpawnFresh(t, s) PROVE TypeOK'
  <2> DEFINE c == [task[t] EXCEPT !.sid = s,
                                  !.pc = IF task[t].old = NoSid THEN "activate" ELSE "archive"]
  <2>1. c \in Calls
    BY <1>1, <1>2, <1>6 DEF SpawnFresh, Calls, Pcs
  <2>2. CallOK(c)
    BY <1>1, <1>2, <1>6 DEF SpawnFresh, CallOK, SidsOrNone, Calls
  <2>3. task' \in [Tasks -> RunningCalls]
    BY <1>3, <1>6, <2>1, <2>2 DEF SpawnFresh, RunningCalls
  <2> QED
    BY <1>6, <2>3 DEF TypeOK, SpawnFresh, inner, pending
<1>7. ASSUME SpawnResumed(t) PROVE TypeOK'
  <2> DEFINE c == [task[t] EXCEPT !.sid = task[t].old, !.pc = "activate"]
  <2>1. c \in Calls /\ CallOK(c)
    BY <1>1, <1>7 DEF SpawnResumed, Calls, Pcs, CallOK
  <2>2. task' \in [Tasks -> RunningCalls]
    BY <1>3, <1>7, <2>1 DEF SpawnResumed, RunningCalls
  <2> QED
    BY <1>7, <2>2 DEF TypeOK, SpawnResumed, inner, pending, names
<1>8. ASSUME FailSpawn(t) PROVE TypeOK'
  <2>1. k \in Keys
    BY <1>1, <1>8 DEF FailSpawn
  <2>2. task' \in [Tasks -> RunningCalls]
    BY <1>3, <1>4, <1>8 DEF FailSpawn
  <2>3. CASE phase[k] = "Spawning"
    <3>1. Bind(k, "SpawnFailed", NoSid, FALSE) /\ DropStaged(k)
      BY <1>8, <2>3 DEF FailSpawn
    <3>2. UNCHANGED <<owned, queue, lastId, delivered, rows, names>>
      BY <1>8 DEF FailSpawn
    <3> HIDE DEF k
    <3>3. phase' \in [Keys -> Phases] /\ sid' \in [Keys -> SidsOrNone] /\ awaiting' \in [Keys -> BOOLEAN]
      BY <1>2, <2>1, <3>1 DEF TypeOK, Bind, Phases
    <3>4. /\ staged' = [staged EXCEPT ![k] = <<>>]
          /\ staged' \in [Keys -> Seq(Ids)] /\ fate' \in [Keys -> [Ids -> Fates]]
      BY <2>1, <3>1, DropStagedType
    <3>5. \A j \in Keys : /\ Len(staged'[j]) <= MaxPending
                          /\ staged'[j] # <<>> => phase'[j] = "Spawning" /\ ~awaiting'[j]
      <4>1. \A j \in Keys \ {k} : phase'[j] = phase[j] /\ awaiting'[j] = awaiting[j]
        BY <3>1 DEF TypeOK, Bind
      <4> QED
        BY <2>1, <3>4, <4>1, ConstantsAssumption DEF TypeOK
    <3> QED
      BY <2>2, <3>2, <3>3, <3>4, <3>5 DEF TypeOK, names
  <2>4. CASE phase[k] # "Spawning"
    BY <1>8, <2>2, <2>4 DEF TypeOK, FailSpawn, names
  <2> QED
    BY <2>3, <2>4
<1>9. ASSUME PreserveClosed(t) PROVE TypeOK'
  <2> DEFINE o == task[t].old
  <2>1. o \in Sids /\ o \in Keys /\ k \in Keys
    BY <1>1, <1>2, <1>9 DEF PreserveClosed, CallOK
  <2>2. [task[t] EXCEPT !.pc = "build", !.at = o, !.next = "activate"] \in RunningCalls
    BY <1>1, <2>1 DEF RunningCalls, Calls, CallOK, Pcs
  <2>3. [task[t] EXCEPT !.pc = "activate"] \in RunningCalls
    BY <1>1, <2>1 DEF RunningCalls, Calls, CallOK, Pcs
  <2>4. task' \in [Tasks -> RunningCalls]
    BY <1>3, <1>9, <2>2, <2>3 DEF PreserveClosed
  <2>5. CASE phase[o] = "None" /\ HasRoom
    BY <1>2, <1>9, <2>1, <2>4, <2>5 DEF TypeOK, PreserveClosed, Bind, pending, names, Phases
  <2>6. CASE ~(phase[o] = "None" /\ HasRoom)
    BY <1>9, <2>4, <2>6 DEF TypeOK, PreserveClosed, pending, names
  <2> QED
    BY <2>5, <2>6
<1>10. ASSUME Activate(t) PROVE TypeOK'
  <2>1. k \in Keys
    BY <1>1, <1>10 DEF Activate
  <2>2. task' \in [Tasks -> RunningCalls]
    BY <1>3, <1>10, <2>1, UpsertCallType DEF Activate
  <2>3. fate' \in [Keys -> [Ids -> Fates]]
    BY <1>10, <2>1, SettledType DEF Activate, Fates
  <2>4. StagedIds(k) \subseteq Ids
    BY <2>1 DEF TypeOK, StagedIds
  <2> QED
    BY <1>1, <1>10, <2>1, <2>2, <2>3, <2>4, ConstantsAssumption DEF TypeOK, Activate, Bind, names, Phases
<1>11. ASSUME SubmitDirect(t) PROVE TypeOK'
  <2>1. task' \in [Tasks -> RunningCalls]
    BY <1>3, <1>4, <1>11 DEF SubmitDirect
  <2> QED
    BY <1>11, <2>1 DEF TypeOK, SubmitDirect, inner, pending, names
<1>12. ASSUME NEW prio \in BOOLEAN, EnqueueAlloc(t, prio) PROVE TypeOK'
  <2> DEFINE c == [task[t] EXCEPT !.pc = "push", !.id = lastId[k] + 1, !.prio = prio]
  <2>1. k \in Keys
    BY <1>1, <1>12 DEF EnqueueAlloc
  <2>2. lastId[k] + 1 \in Ids /\ lastId[k] + 1 \in Nat /\ lastId' \in [Keys -> 0..MaxId]
    BY <1>12, <2>1, ConstantsAssumption DEF EnqueueAlloc, TypeOK, Ids
  <2>3. c \in Calls
    BY <1>1, <2>2 DEF Calls, Pcs
  <2>4. CallOK(c)
    BY <1>1, <2>1, <2>2 DEF CallOK, Calls
  <2>5. task' \in [Tasks -> RunningCalls]
    BY <1>3, <1>12, <2>3, <2>4 DEF EnqueueAlloc, RunningCalls
  <2>6. fate' \in [Keys -> [Ids -> Fates]]
    BY <1>12, <2>1, SettledType DEF EnqueueAlloc, Fates
  <2> QED
    BY <1>12, <2>2, <2>5, <2>6 DEF TypeOK, EnqueueAlloc, inner, names
<1>13. ASSUME EnqueuePush(t) PROVE TypeOK'
  <2> DEFINE turn == [id |-> task[t].id, prio |-> task[t].prio, for |-> task[t].sid]
  <2>1. k \in Keys /\ turn \in Turns
    BY <1>1, <1>13 DEF EnqueuePush, CallOK, Turns
  <2>2. task' \in [Tasks -> RunningCalls]
    BY <1>3, <1>4, <1>13 DEF EnqueuePush
  <2> HIDE DEF turn
  <2>3. queue[k] \in Seq(Turns) /\ <<turn>> \o queue[k] \in Seq(Turns)
        /\ Append(queue[k], turn) \in Seq(Turns)
    BY <2>1 DEF TypeOK
  <2>4. queue' = [queue EXCEPT ![k] = IF turn.prio THEN <<turn>> \o queue[k] ELSE Append(queue[k], turn)]
    BY <1>13 DEF EnqueuePush, turn
  <2>5. queue' \in [Keys -> Seq(Turns)]
    BY <2>3, <2>4 DEF TypeOK
  <2> QED
    BY <1>13, <2>2, <2>5 DEF TypeOK, EnqueuePush, inner, names
<1>14. ASSUME PopNext(t) PROVE TypeOK'
  <2>1. k \in Keys
    BY <1>1, <1>14 DEF PopNext
  <2>2. task' \in [Tasks -> RunningCalls]
    BY <1>3, <1>4, <1>14 DEF PopNext
  <2>3. CASE queue[k] = <<>>
    BY <1>14, <2>2, <2>3 DEF TypeOK, PopNext, inner, names
  <2>4. CASE queue[k] # <<>>
    <3>1. queue[k] \in Seq(Turns) /\ Head(queue[k]) \in Turns /\ Tail(queue[k]) \in Seq(Turns)
      BY <2>1, <2>4, HeadTailProperties DEF TypeOK
    <3>2. Head(queue[k]).id \in Ids
      BY <3>1 DEF Turns
    <3>3. fate' \in [Keys -> [Ids -> Fates]]
      BY <1>14, <2>1, <2>4, SettledType DEF PopNext, Fates
    <3>4. queue' = [queue EXCEPT ![k] = Tail(queue[k])]
          /\ delivered' = [delivered EXCEPT ![k] = delivered[k] \cup {Head(queue[k]).id}]
      BY <1>14, <2>4 DEF PopNext
    <3>5. queue' \in [Keys -> Seq(Turns)] /\ delivered' \in [Keys -> SUBSET Ids]
      BY <2>1, <3>1, <3>2, <3>4 DEF TypeOK
    <3> QED
      BY <1>14, <2>2, <3>3, <3>5 DEF TypeOK, PopNext, inner, names
  <2> QED
    BY <2>3, <2>4
<1>15. ASSUME RemoveQueued(t) PROVE TypeOK'
  <2>1. k \in Keys
    BY <1>1, <1>15 DEF RemoveQueued
  <2>2. task' \in [Tasks -> RunningCalls]
    BY <1>3, <1>4, <1>15 DEF RemoveQueued
  <2>3. CASE task[t].id \notin QueuedIds(k)
    BY <1>15, <2>2, <2>3 DEF TypeOK, RemoveQueued, inner, names
  <2>4. CASE task[t].id \in QueuedIds(k)
    <3> DEFINE p == Place(queue[k], task[t].id)
    <3>1. queue[k] \in Seq(Turns) /\ p \in 1..Len(queue[k])
      BY <2>1, <2>4 DEF QueuedIds, Place, TypeOK
    <3>2. RemoveAt(queue[k], p) \in Seq(Turns)
      BY <3>1, RemoveAtType
    <3>3. queue' = [queue EXCEPT ![k] = RemoveAt(queue[k], p)]
          /\ fate' = Settled(k, {task[t].id}, "removed") /\ "removed" \in Fates
      BY <1>15, <2>4 DEF RemoveQueued, Fates
    <3>4. fate' \in [Keys -> [Ids -> Fates]]
      BY <2>1, <3>3, SettledType
    <3> QED
      BY <1>15, <2>1, <2>2, <3>2, <3>3, <3>4 DEF TypeOK, RemoveQueued, inner, names
  <2> QED
    BY <2>3, <2>4
<1>16. ASSUME MoveQueued(t) PROVE TypeOK'
  <2> DEFINE p == Place(queue[k], task[t].id)
             turn == queue[k][p]
             rest == RemoveAt(queue[k], p)
             n == task[t].to
             moves == task[t].id \in QueuedIds(k) /\ n <= Len(queue[k]) /\ MayMoveTo(rest, turn, n)
  <2>1. k \in Keys
    BY <1>1, <1>16 DEF MoveQueued
  <2>2. task' \in [Tasks -> RunningCalls]
    BY <1>3, <1>4, <1>16 DEF MoveQueued
  <2>3. CASE ~moves
    BY <1>16, <2>2, <2>3 DEF TypeOK, MoveQueued, inner, names
  <2>4. CASE moves
    <3>1. queue[k] \in Seq(Turns) /\ p \in 1..Len(queue[k])
      <4>1. queue[k] \in Seq(Turns) /\ \E j \in DOMAIN queue[k] : queue[k][j].id = task[t].id
        BY <2>1, <2>4 DEF QueuedIds, TypeOK
      <4>2. p \in DOMAIN queue[k]
        BY <4>1 DEF Place
      <4> HIDE DEF p
      <4> QED
        BY <4>1, <4>2
    <3>2. rest \in Seq(Turns) /\ Len(rest) = Len(queue[k]) - 1 /\ turn \in Turns
      BY <3>1, RemoveAtType
    <3>3. n \in 1..(Len(rest) + 1) /\ queue' = [queue EXCEPT ![k] = InsertAt(rest, n, turn)]
      BY <1>1, <1>16, <2>4, <3>1, <3>2 DEF MoveQueued
    <3> HIDE DEF p, turn, rest, n, moves
    <3>4. InsertAt(rest, n, turn) \in Seq(Turns)
      BY <3>2, <3>3, InsertAtType
    <3> QED
      BY <1>16, <2>1, <2>2, <3>3, <3>4 DEF TypeOK, MoveQueued, inner, names
  <2> QED
    BY <2>3, <2>4
<1>17. ASSUME NEW j \in Keys, CloseRemove(t, j) PROVE TypeOK'
  <2>1. [task[t] EXCEPT !.pc = "delete", !.at = j] \in RunningCalls
    BY <1>1, <1>17 DEF CloseRemove, RunningCalls, Calls, CallOK, Pcs
  <2>2. task' \in [Tasks -> RunningCalls]
    BY <1>3, <1>17, <2>1 DEF CloseRemove
  <2>3. staged' = [staged EXCEPT ![j] = <<>>] /\ fate' \in [Keys -> [Ids -> Fates]]
    BY <1>17, DropStagedType DEF CloseRemove
  <2> QED
    BY <1>2, <1>17, <2>2, <2>3, ConstantsAssumption DEF TypeOK, CloseRemove, Bind, names, Phases
<1>18. ASSUME CloseNothing(t) PROVE TypeOK'
  <2>1. task' \in [Tasks -> RunningCalls]
    BY <1>3, <1>4, <1>18 DEF CloseNothing
  <2> QED
    BY <1>1, <1>18, <2>1 DEF TypeOK, CloseNothing, inner, pending, SidsOrNone
<1>19. ASSUME CloseClear(t) PROVE TypeOK'
  <2>1. a \in Keys
    BY <1>1, <1>19 DEF CloseClear, CallOK
  <2>2. task' \in [Tasks -> RunningCalls]
    BY <1>3, <1>4, <1>19 DEF CloseClear
  <2>3. /\ queue' \in [Keys -> Seq(Turns)] /\ delivered' \in [Keys -> SUBSET Ids]
        /\ fate' \in [Keys -> [Ids -> Fates]]
    BY <1>19, <2>1, ClearQueueType DEF CloseClear
  <2> QED
    BY <1>1, <1>19, <2>2, <2>3 DEF TypeOK, CloseClear, inner, SidsOrNone
<1>20. ASSUME RestoreInsert(t) PROVE TypeOK'
  <2>1. k \in Keys /\ task[t].old \in SidsOrNone
    BY <1>1, <1>20 DEF RestoreInsert
  <2>2. task' \in [Tasks -> RunningCalls]
    BY <1>3, <1>4, <1>20, <2>1, UpsertCallType DEF RestoreInsert
  <2>3. CASE phase[k] # "None" \/ HasRoom
    <3>1. Bind(k, "Dormant", task[t].old, FALSE) /\ DropStaged(k)
      BY <1>20, <2>3 DEF RestoreInsert
    <3>2. owned' \in [Keys -> BOOLEAN] /\ closed' \subseteq Sids
      BY <1>20, <2>1, <2>3 DEF TypeOK, RestoreInsert
    <3>3. UNCHANGED <<queue, lastId, delivered, rows, minted, born, crashes>>
      BY <1>20 DEF RestoreInsert
    <3> HIDE DEF k
    <3>4. phase' \in [Keys -> Phases] /\ sid' \in [Keys -> SidsOrNone] /\ awaiting' \in [Keys -> BOOLEAN]
      BY <2>1, <3>1 DEF TypeOK, Bind, Phases
    <3>5. /\ staged' = [staged EXCEPT ![k] = <<>>]
          /\ staged' \in [Keys -> Seq(Ids)] /\ fate' \in [Keys -> [Ids -> Fates]]
      BY <2>1, <3>1, DropStagedType
    <3>6. \A j \in Keys : /\ Len(staged'[j]) <= MaxPending
                          /\ staged'[j] # <<>> => phase'[j] = "Spawning" /\ ~awaiting'[j]
      <4>1. \A j \in Keys \ {k} : phase'[j] = phase[j] /\ awaiting'[j] = awaiting[j]
        BY <3>1 DEF TypeOK, Bind
      <4> QED
        BY <2>1, <3>5, <4>1, ConstantsAssumption DEF TypeOK
    <3> QED
      BY <2>2, <3>2, <3>3, <3>4, <3>5, <3>6 DEF TypeOK
  <2>4. CASE ~(phase[k] # "None" \/ HasRoom)
    BY <1>20, <2>2, <2>4 DEF TypeOK, RestoreInsert, inner
  <2> QED
    BY <2>3, <2>4
<1>21. ASSUME BuildRow(t) PROVE TypeOK'
  <2>1. a \in Keys
    BY <1>1, <1>21 DEF BuildRow, CallOK
  <2>2. RowOf(a) \in Rows
    BY <2>1, RowOfType
  <2>3. [task[t] EXCEPT !.pc = "save", !.row = RowOf(a)] \in RunningCalls
    BY <1>1, <1>21, <2>2 DEF BuildRow, RunningCalls, Calls, CallOK, Pcs
  <2>4. task' \in [Tasks -> RunningCalls]
    BY <1>3, <1>4, <1>21, <2>3 DEF BuildRow
  <2> QED
    BY <1>21, <2>4 DEF TypeOK, BuildRow, inner, pending, names
<1>22. ASSUME SaveRow(t) PROVE TypeOK'
  <2>1. NoRow \in Rows
    BY <1>2 DEF NoRow, Rows
  <2>2. [Proceed(t) EXCEPT !.row = NoRow] \in RunningCalls
    BY <1>4, <2>1 DEF RunningCalls, Calls, CallOK
  <2>3. task' \in [Tasks -> RunningCalls]
    BY <1>3, <1>22, <2>2 DEF SaveRow
  <2> QED
    BY <1>1, <1>22, <2>3 DEF TypeOK, SaveRow, inner, pending, names
<1>23. ASSUME DeleteRow(t) PROVE TypeOK'
  <2>1. [task[t] EXCEPT !.pc = "clear"] \in RunningCalls
    BY <1>1, <1>23 DEF DeleteRow, RunningCalls, Calls, CallOK, Pcs
  <2>2. task' \in [Tasks -> RunningCalls]
    BY <1>3, <1>23, <2>1 DEF DeleteRow
  <2>3. NoRow \in Rows
    BY <1>2 DEF NoRow, Rows
  <2> QED
    BY <1>23, <2>2, <2>3 DEF TypeOK, DeleteRow, inner, pending, names
<1> QED
  BY <1>5, <1>6, <1>7, <1>8, <1>9, <1>10, <1>11, <1>12, <1>13, <1>14, <1>15, <1>16, <1>17,
     <1>18, <1>19, <1>20, <1>21, <1>22, <1>23 DEF Step

LEMMA CrashPreservesType == TypeOK /\ Crash => TypeOK'
<1> SUFFICES ASSUME TypeOK, Crash PROVE TypeOK'
  OBVIOUS
<1>1. \A r \in Rows : r.sid \in SidsOrNone /\ r.awaiting \in BOOLEAN /\ Restored(r) \in Phases
  BY DEF Rows, Restored, Phases
<1>2. task' \in [Tasks -> RunningCalls]
  BY IdleType DEF Crash
<1>3. phase' \in [Keys -> Phases] /\ sid' \in [Keys -> SidsOrNone] /\ awaiting' \in [Keys -> BOOLEAN]
  BY <1>1 DEF Crash, TypeOK
<1>4. fate' \in [Keys -> [Ids -> Fates]]
  BY DEF Crash, Fates
<1> QED
  BY <1>2, <1>3, <1>4, ConstantsAssumption DEF TypeOK, Crash

LEMMA NextType == TypeOK /\ [Next]_vars => TypeOK'
<1> SUFFICES ASSUME TypeOK, [Next]_vars PROVE TypeOK'
  OBVIOUS
<1>1. CASE Crash
  BY <1>1, CrashPreservesType
<1>2. ASSUME NEW t \in Tasks, Call(t) PROVE TypeOK'
  BY <1>2, CallPreservesType
<1>3. ASSUME NEW t \in Tasks, Step(t) PROVE TypeOK'
  BY <1>3, StepPreservesType
<1>4. CASE UNCHANGED vars
  BY <1>4 DEF TypeOK, vars
<1> QED
  BY <1>1, <1>2, <1>3, <1>4 DEF Next

\* Every reachable state is of its type: a call never writes an unbound key, an id
\* beyond the counter, or a staging queue above its cap (state.rs 443-456).
THEOREM TypeCorrect == Spec => []TypeOK
  BY InitType, NextType, PTL DEF Spec

-----------------------------------------------------------------------------
(* One call at a time *)

\* The row of key k is what a restart should find.
Stored(k) ==
  phase[k] \in {"None", "Active", "Dormant"} \/ awaiting[k] => rows[k] = RowOf(k)
\* What call c still does to the row and to the queue of key k.
Writes(c, k)  == c.at = k /\ c.pc \in {"own", "build", "save", "delete"}
Deletes(c, k) == c.at = k /\ c.pc = "delete"
Clears(c, k)  == c.at = k /\ c.pc \in {"delete", "clear"}

\* Key k, while t is the only task: its row is right or about to be written, a web key
\* without a project has none, and what is queued is for the session it is bound to.
KeyOK(t, k) ==
  /\ Stored(k) \/ Writes(task[t], k)
  /\ k \in Webs => owned[k] \/ rows[k] = NoRow \/ Deletes(task[t], k)
  /\ \/ queue[k] = <<>> \/ Clears(task[t], k)
     \/ phase[k] = "Active" /\ \A i \in DOMAIN queue[k] : queue[k][i].for = sid[k]
  /\ k \in Sids => phase[k] # "Active"
  /\ phase[k] \in {"Active", "Dormant"} => sid[k] # NoSid
  /\ awaiting[k] => phase[k] = "Spawning"

\* What call c read still holds: nobody else changes the map.
StandsAt(c) ==
  /\ c.pc # "idle" => c.key \in UserKeys
  /\ c.at \in UserKeys => c.at = c.key
  /\ c.pc \in {"own", "spawn", "archive", "activate"} \/ c.next # "idle"
       => phase[c.key] = "Spawning"
  /\ c.pc \in {"archive", "activate"} \/ c.next = "activate" => c.sid # NoSid
  /\ c.next # "idle" => c.pc \in {"own", "build", "save"}
  /\ c.pc = "build" => phase[c.at] # "None"
  /\ c.pc = "save" => c.row = RowOf(c.at) /\ c.row # NoRow
  /\ c.pc \in {"submit", "push", "drain"} => phase[c.key] = "Active" /\ c.sid = sid[c.key]
  /\ c.pc = "closing" =>
       /\ phase[c.key] # "None" /\ c.old = sid[c.key]
       /\ c.sid = IF phase[c.key] = "Active" THEN sid[c.key] ELSE NoSid
  /\ c.pc \in {"delete", "clear"} => c.at = c.key /\ phase[c.at] = "None" /\ sid[c.at] = NoSid
  /\ c.pc = "clear" => rows[c.at] = NoRow
  /\ c.pc = "restore" => phase[c.key] = "None" /\ c.old \in closed

\* Session s belongs to key k: by the map, by the store, or by the call of t.
Bound(t, k, s) ==
  \/ sid[k] = s \/ rows[k].sid = s
  \/ task[t].key = k /\ task[t].pc # "restore" /\ s \in {task[t].sid, task[t].old}

\* A session belongs to one user's key, and to none once it was closed.
BoundOK(t) ==
  /\ closed \subseteq minted
  /\ \A s \in Sids, k \in UserKeys :
       Bound(t, k, s) =>
         s \in minted \ closed /\ \A j \in UserKeys : Bound(t, j, s) => j = k

SerialInv(t) == StandsAt(task[t]) /\ BoundOK(t) /\ \A k \in Keys : KeyOK(t, k)

LEMMA OthersOK ==
  ASSUME NEW t \in Tasks, NEW k \in Keys, SerialInv(t), KeyOK(t, k)',
         \A j \in Keys \ {k} :
           /\ phase'[j] = phase[j] /\ sid'[j] = sid[j] /\ awaiting'[j] = awaiting[j]
           /\ owned'[j] = owned[j] /\ rows'[j] = rows[j] /\ queue'[j] = queue[j],
         task[t].pc \in {"own", "build", "save", "delete", "clear"} => task[t].at = k
  PROVE  \A j \in Keys : KeyOK(t, j)'
<1> SUFFICES ASSUME NEW j \in Keys \ {k} PROVE KeyOK(t, j)'
  OBVIOUS
<1>1. KeyOK(t, j) /\ ~Writes(task[t], j) /\ ~Deletes(task[t], j) /\ ~Clears(task[t], j)
  BY DEF SerialInv, Writes, Deletes, Clears
<1>2. Stored(j)'
  BY <1>1 DEF KeyOK, Stored, RowOf
<1> QED
  BY <1>1, <1>2 DEF KeyOK

LEMMA BoundKept ==
  ASSUME NEW t \in Tasks, BoundOK(t), closed' = closed, minted' = minted,
         \A j \in UserKeys, s \in Sids : Bound(t, j, s)' => Bound(t, j, s)
  PROVE  BoundOK(t)'
  BY DEF BoundOK

\* A free task begins to spawn on a placeholder.
LEMMA SpawnSerial ==
  ASSUME TypeOK, TypeOK', NEW t \in Tasks, Tasks = {t}, SerialInv(t), NEW k \in UserKeys,
         \/ RouteNew(t, k) \/ RouteClaim(t, k) \/ RouteRetry(t, k) \/ RouteFirst(t, k)
         \/ ActivatePlaceholder(t, k) \/ BeginSpawn(t, k)
  PROVE  SerialInv(t)'
<1>1. k \in Keys /\ k \notin Sids /\ NoKey \notin Keys /\ NoSid \notin Sids /\ task[t] \in Calls
  BY ConstantsAssumption, CallType DEF Keys
<1>2. PICK z \in {NoSid, sid[k]} : Goto(t, SpawnCall(k, z))
  BY DEF RouteNew, RouteClaim, RouteRetry, RouteFirst, ActivatePlaceholder, BeginSpawn
<1>3. /\ task'[t].pc = "spawn" /\ task'[t].key = k /\ task'[t].at = NoKey
      /\ task'[t].sid = NoSid /\ task'[t].old = z /\ task'[t].next = "idle"
  BY <1>2 DEF Goto, TypeOK, SpawnCall, Idle
<1>4. /\ task[t].pc = "idle" /\ Bind(k, "Spawning", NoSid, FALSE)
      /\ owned' = owned /\ rows' = rows /\ closed' = closed /\ minted' = minted
  BY DEF RouteNew, RouteClaim, RouteRetry, RouteFirst, ActivatePlaceholder, BeginSpawn, names
<1>5. /\ phase'[k] = "Spawning" /\ sid'[k] = NoSid /\ awaiting'[k] = FALSE
      /\ \A j \in Keys \ {k} :
           phase'[j] = phase[j] /\ sid'[j] = sid[j] /\ awaiting'[j] = awaiting[j]
  BY <1>1, <1>4 DEF Bind, TypeOK
<1>6. queue'[k] = <<>> /\ \A j \in Keys \ {k} : queue'[j] = queue[j]
  <2>1. CASE BeginSpawn(t, k)
    BY <1>1, <2>1 DEF BeginSpawn, ClearQueue, TypeOK
  <2>2. CASE ~BeginSpawn(t, k)
    <3>1. queue' = queue /\ phase[k] # "Active"
      BY <2>2 DEF RouteNew, RouteClaim, RouteRetry, RouteFirst, ActivatePlaceholder, pending
    <3>2. KeyOK(t, k) /\ ~Clears(task[t], k)
      BY <1>1, <1>4 DEF SerialInv, Clears
    <3> QED
      BY <3>1, <3>2 DEF KeyOK
  <2> QED
    BY <2>1, <2>2
<1>7. StandsAt(task[t])'
  BY <1>1, <1>3, <1>5 DEF StandsAt, Keys
<1>8. KeyOK(t, k)'
  <2>1. Stored(k)'
    BY <1>5 DEF Stored
  <2>2. k \in Webs => owned[k] \/ rows[k] = NoRow
    BY <1>1, <1>4 DEF SerialInv, KeyOK, Deletes
  <2> QED
    BY <1>1, <1>4, <1>5, <1>6, <2>1, <2>2 DEF KeyOK
<1>9. BoundOK(t)'
  <2>1. ASSUME NEW j \in UserKeys, NEW s \in Sids, Bound(t, j, s)' PROVE Bound(t, j, s)
    <3>1. j \in Keys
      BY DEF Keys
    <3> QED
      BY <1>1, <1>2, <1>3, <1>4, <1>5, <2>1, <3>1 DEF Bound
  <2> QED
    BY <1>4, <2>1, BoundKept DEF SerialInv
<1> QED
  BY <1>1, <1>4, <1>5, <1>6, <1>7, <1>8, <1>9, OthersOK DEF SerialInv

\* The task goes on with its call, and changes nothing but where it stands.
LEMMA MoveOnSerial ==
  ASSUME TypeOK, TypeOK', NEW t \in Tasks, Tasks = {t}, SerialInv(t),
         UNCHANGED <<phase, sid, awaiting, owned, rows, queue, closed, minted>>,
         StandsAt(task[t])',
         \A k \in Keys :
           /\ Writes(task[t], k) => Writes(task'[t], k) \/ Stored(k)
           /\ Deletes(task[t], k) => Deletes(task'[t], k)
           /\ Clears(task[t], k) => Clears(task'[t], k),
         \A k \in UserKeys, s \in Sids : Bound(t, k, s)' => Bound(t, k, s)
  PROVE  SerialInv(t)'
<1>1. BoundOK(t)'
  BY BoundKept DEF SerialInv
<1>2. ASSUME NEW k \in Keys PROVE KeyOK(t, k)'
  <2>1. KeyOK(t, k)
    BY DEF SerialInv
  <2>2. Stored(k) => Stored(k)'
    BY DEF Stored, RowOf
  <2> QED
    BY <2>1, <2>2 DEF KeyOK, Writes, Deletes, Clears
<1> QED
  BY <1>1, <1>2 DEF SerialInv

\* What the map says is not changed, and the queue of one Active key is.
LEMMA QueueSerial ==
  ASSUME TypeOK, TypeOK', NEW t \in Tasks, Tasks = {t}, SerialInv(t), NEW k \in UserKeys,
         task[t].key = k, task[t].pc \in {"push", "drain", "turns"}, Goto(t, Idle),
         UNCHANGED <<phase, sid, awaiting, owned, rows, closed, minted>>,
         \A j \in Keys \ {k} : queue'[j] = queue[j],
         \/ queue'[k] = <<>>
         \/ phase[k] = "Active" /\ \A i \in DOMAIN queue'[k] : queue'[k][i].for = sid[k]
  PROVE  SerialInv(t)'
<1>1. k \in Keys /\ k \notin Sids /\ NoKey \notin Keys /\ NoSid \notin Sids
  BY ConstantsAssumption DEF Keys
<1>2. task'[t] = Idle
  BY DEF Goto, TypeOK
<1>3. StandsAt(task[t])'
  BY <1>1, <1>2 DEF StandsAt, Idle, Keys
<1>4. KeyOK(t, k)'
  <2>1. KeyOK(t, k) /\ ~Writes(task[t], k) /\ ~Deletes(task[t], k)
    BY <1>1 DEF SerialInv, Writes, Deletes
  <2>2. Stored(k)'
    BY <2>1 DEF KeyOK, Stored, RowOf
  <2> QED
    BY <1>1, <2>1, <2>2 DEF KeyOK
<1>5. BoundOK(t)'
  <2>1. ASSUME NEW j \in UserKeys, NEW s \in Sids, Bound(t, j, s)' PROVE Bound(t, j, s)
    BY <1>1, <1>2, <2>1 DEF Bound, Idle, Keys
  <2> QED
    BY <2>1, BoundKept DEF SerialInv
<1> QED
  BY <1>1, <1>3, <1>4, <1>5, OthersOK DEF SerialInv

\* What is queued is for the session the key is bound to.
LEMMA QueuedFor ==
  ASSUME NEW t \in Tasks, SerialInv(t), NEW k \in UserKeys,
         task[t].pc \notin {"delete", "clear"}, queue[k] # <<>>
  PROVE  phase[k] = "Active" /\ \A i \in DOMAIN queue[k] : queue[k][i].for = sid[k]
  BY DEF SerialInv, KeyOK, Clears, Keys

LEMMA PushSerial ==
  ASSUME TypeOK, TypeOK', NEW t \in Tasks, Tasks = {t}, SerialInv(t), NEW k \in UserKeys,
         task[t].key = k, EnqueuePush(t)
  PROVE  SerialInv(t)'
<1> DEFINE turn == [id |-> task[t].id, prio |-> task[t].prio, for |-> task[t].sid]
<1>1. k \in Keys /\ queue[k] \in Seq(Turns) /\ task[t].pc = "push"
  BY DEF Keys, TypeOK, EnqueuePush
<1>2. phase[k] = "Active" /\ turn.for = sid[k]
  BY <1>1 DEF SerialInv, StandsAt
<1>3. \A i \in DOMAIN queue[k] : queue[k][i].for = sid[k]
  BY <1>1, QueuedFor
<1>4. /\ Goto(t, Idle)
      /\ UNCHANGED <<phase, sid, awaiting, owned, rows, closed, minted>>
      /\ queue' = [queue EXCEPT ![k] = IF turn.prio THEN <<turn>> \o @ ELSE Append(@, turn)]
  BY DEF EnqueuePush, inner, names
<1>5. queue'[k] \in {<<turn>> \o queue[k], Append(queue[k], turn)}
      /\ \A j \in Keys \ {k} : queue'[j] = queue[j]
  BY <1>1, <1>4 DEF TypeOK
<1>6. ASSUME NEW i \in DOMAIN queue'[k] PROVE queue'[k][i].for = sid[k]
  <2> HIDE DEF turn
  <2>1. CASE queue'[k] = <<turn>> \o queue[k]
    <3>1. i \in 1..(1 + Len(queue[k]))
      BY <1>1, <1>6, <2>1
    <3>2. queue'[k][i] = IF i = 1 THEN turn ELSE queue[k][i - 1]
      BY <1>1, <2>1, <3>1
    <3>3. i # 1 => i - 1 \in DOMAIN queue[k]
      BY <1>1, <3>1
    <3> QED
      BY <1>2, <1>3, <3>2, <3>3
  <2>2. CASE queue'[k] = Append(queue[k], turn)
    <3>1. i \in 1..(1 + Len(queue[k]))
      BY <1>1, <1>6, <2>2
    <3>2. queue'[k][i] = IF i = Len(queue[k]) + 1 THEN turn ELSE queue[k][i]
      BY <1>1, <2>2, <3>1
    <3>3. i # Len(queue[k]) + 1 => i \in DOMAIN queue[k]
      BY <1>1, <3>1
    <3> QED
      BY <1>2, <1>3, <3>2, <3>3
  <2> QED
    BY <1>5, <2>1, <2>2
<1> QED
  BY <1>1, <1>2, <1>4, <1>5, <1>6, QueueSerial

LEMMA PopSerial ==
  ASSUME TypeOK, TypeOK', NEW t \in Tasks, Tasks = {t}, SerialInv(t), NEW k \in UserKeys,
         task[t].key = k, PopNext(t)
  PROVE  SerialInv(t)'
<1>1. k \in Keys /\ queue[k] \in Seq(Turns) /\ task[t].pc = "drain"
  BY DEF Keys, TypeOK, PopNext
<1>2. /\ Goto(t, Idle) /\ UNCHANGED <<phase, sid, awaiting, owned, rows, closed, minted>>
      /\ queue' = IF queue[k] = <<>> THEN queue ELSE [queue EXCEPT ![k] = Tail(@)]
  BY DEF PopNext, inner, names
<1>3. CASE queue[k] = <<>>
  BY <1>1, <1>2, <1>3, QueueSerial
<1>4. CASE queue[k] # <<>>
  <2>1. phase[k] = "Active" /\ \A i \in DOMAIN queue[k] : queue[k][i].for = sid[k]
    BY <1>1, <1>4, QueuedFor
  <2>2. queue'[k] = Tail(queue[k]) /\ \A j \in Keys \ {k} : queue'[j] = queue[j]
    BY <1>1, <1>2, <1>4 DEF TypeOK
  <2>3. \A i \in DOMAIN queue'[k] : i + 1 \in DOMAIN queue[k] /\ queue'[k][i] = queue[k][i + 1]
    BY <1>1, <1>4, <2>2
  <2> QED
    BY <1>1, <1>2, <2>1, <2>2, <2>3, QueueSerial
<1> QED
  BY <1>3, <1>4

\* Place finds a turn that is queued.
LEMMA PlaceIn ==
  ASSUME TypeOK, NEW k \in Keys, NEW i \in QueuedIds(k)
  PROVE  Place(queue[k], i) \in 1..Len(queue[k])
<1>1. queue[k] \in Seq(Turns) /\ \E p \in DOMAIN queue[k] : queue[k][p].id = i
  BY DEF TypeOK, QueuedIds
<1> QED
  BY <1>1 DEF Place

LEMMA RemoveQueuedSerial ==
  ASSUME TypeOK, TypeOK', NEW t \in Tasks, Tasks = {t}, SerialInv(t), NEW k \in UserKeys,
         task[t].key = k, RemoveQueued(t)
  PROVE  SerialInv(t)'
<1> DEFINE i == task[t].id
           p == Place(queue[k], i)
<1>1. k \in Keys /\ queue[k] \in Seq(Turns) /\ task[t].pc = "turns"
  BY DEF Keys, TypeOK, RemoveQueued
<1>2. /\ Goto(t, Idle) /\ UNCHANGED <<phase, sid, awaiting, owned, rows, closed, minted>>
      /\ queue' = IF i \in QueuedIds(k) THEN [queue EXCEPT ![k] = RemoveAt(@, p)] ELSE queue
  BY DEF RemoveQueued, inner, names
<1>3. CASE i \notin QueuedIds(k)
  <2>1. queue' = queue
    BY <1>2, <1>3
  <2> QED
    BY <1>1, <1>2, <2>1, QueuedFor, QueueSerial
<1>4. CASE i \in QueuedIds(k)
  <2>1. p \in 1..Len(queue[k]) /\ queue[k] # <<>>
    BY <1>1, <1>4, PlaceIn
  <2>2. phase[k] = "Active" /\ \A j \in DOMAIN queue[k] : queue[k][j].for = sid[k]
    BY <1>1, <2>1, QueuedFor
  <2>3. queue'[k] = RemoveAt(queue[k], p) /\ \A j \in Keys \ {k} : queue'[j] = queue[j]
    BY <1>1, <1>2, <1>4 DEF TypeOK
  <2>4. \A j \in DOMAIN queue'[k] :
          \E b \in DOMAIN queue[k] : queue'[k][j] = queue[k][b]
    <3> HIDE DEF p
    <3>1. /\ RemoveAt(queue[k], p) \in Seq(Turns) /\ Len(RemoveAt(queue[k], p)) = Len(queue[k]) - 1
          /\ \A j \in 1..Len(queue[k])-1 :
               RemoveAt(queue[k], p)[j] = IF j < p THEN queue[k][j] ELSE queue[k][j + 1]
      BY <1>1, <2>1, RemoveAtType
    <3> QED
      BY <1>1, <2>1, <2>3, <3>1
  <2> QED
    BY <1>1, <1>2, <2>2, <2>3, <2>4, QueueSerial
<1> QED
  BY <1>3, <1>4

LEMMA MoveQueuedSerial ==
  ASSUME TypeOK, TypeOK', NEW t \in Tasks, Tasks = {t}, SerialInv(t), NEW k \in UserKeys,
         task[t].key = k, MoveQueued(t)
  PROVE  SerialInv(t)'
<1> DEFINE i == task[t].id
           n == task[t].to
           p == Place(queue[k], i)
           turn == queue[k][p]
           rest == RemoveAt(queue[k], p)
<1>1. k \in Keys /\ queue[k] \in Seq(Turns) /\ task[t].pc = "turns" /\ n \in Nat /\ n > 0
  BY CallType DEF Keys, TypeOK, MoveQueued, Calls
<1>2. /\ Goto(t, Idle) /\ UNCHANGED <<phase, sid, awaiting, owned, rows, closed, minted>>
      /\ \/ queue' = queue
         \/ /\ i \in QueuedIds(k) /\ n <= Len(queue[k])
            /\ queue' = [queue EXCEPT ![k] = InsertAt(rest, n, turn)]
  BY DEF MoveQueued, inner, names
<1>3. CASE queue' = queue
  BY <1>1, <1>2, <1>3, QueuedFor, QueueSerial
<1>4. CASE /\ i \in QueuedIds(k) /\ n <= Len(queue[k])
           /\ queue' = [queue EXCEPT ![k] = InsertAt(rest, n, turn)]
  <2>1. p \in 1..Len(queue[k]) /\ queue[k] # <<>>
    BY <1>1, <1>4, PlaceIn
  <2>2. phase[k] = "Active" /\ \A j \in DOMAIN queue[k] : queue[k][j].for = sid[k]
    BY <1>1, <2>1, QueuedFor
  <2>3. queue'[k] = InsertAt(rest, n, turn) /\ \A j \in Keys \ {k} : queue'[j] = queue[j]
    BY <1>1, <1>4 DEF TypeOK
  <2>4. \A j \in DOMAIN queue'[k] :
          \E b \in DOMAIN queue[k] : queue'[k][j] = queue[k][b]
    <3>1. /\ rest \in Seq(Turns) /\ Len(rest) = Len(queue[k]) - 1
          /\ \A j \in 1..Len(queue[k])-1 :
               rest[j] = IF j < p THEN queue[k][j] ELSE queue[k][j + 1]
      <4> HIDE DEF p
      <4> QED
        BY <1>1, <2>1, RemoveAtType
    <3>2. turn \in Turns /\ n \in 1..(Len(rest) + 1)
      BY <1>1, <1>4, <2>1, <3>1
    <3> HIDE DEF rest, turn, n, p
    <3>3. /\ InsertAt(rest, n, turn) \in Seq(Turns)
          /\ Len(InsertAt(rest, n, turn)) = Len(rest) + 1
          /\ \A j \in 1..Len(rest)+1 : InsertAt(rest, n, turn)[j] =
               IF j < n THEN rest[j] ELSE IF j = n THEN turn ELSE rest[j - 1]
      <4>1. rest \in Seq(Turns) /\ turn \in Turns /\ n \in 1..(Len(rest) + 1)
        BY <3>1, <3>2
      <4> QED
        BY <4>1, InsertAtType, SMTT(40)
    <3> TAKE j \in DOMAIN queue'[k]
    <3>4. j \in 1..Len(rest)+1
      BY <2>3, <3>3
    <3>5. turn = queue[k][p]
      BY DEF turn
    <3>6. Len(rest) \in Nat /\ DOMAIN rest = 1..Len(rest)
      BY <3>1
    <3>7. queue'[k][j] = turn \/ \E b \in DOMAIN rest : queue'[k][j] = rest[b]
      <4>1. queue'[k][j] = IF j < n THEN rest[j] ELSE IF j = n THEN turn ELSE rest[j - 1]
        BY <2>3, <3>3, <3>4
      <4>2. (j < n => j \in DOMAIN rest) /\ (j > n => j - 1 \in DOMAIN rest)
        BY <3>2, <3>4, <3>6
      <4>3. j \in Int /\ n \in Int
        BY <3>2, <3>4, <3>6
      <4>4. j < n \/ j = n \/ j > n
        BY <4>3
      <4>5. j < n => queue'[k][j] = rest[j]
        BY <4>1
      <4>6. j = n => queue'[k][j] = turn
        BY <4>1, <4>3
      <4>7. j > n => queue'[k][j] = rest[j - 1]
        BY <4>1, <4>3
      <4> QED
        BY <4>2, <4>4, <4>5, <4>6, <4>7
    <3> QED
      BY <1>1, <2>1, <3>1, <3>5, <3>7
  <2> QED
    BY <1>1, <1>2, <2>2, <2>3, <2>4, QueueSerial
<1> QED
  BY <1>2, <1>3, <1>4

LEMMA CreateSerial ==
  ASSUME TypeOK, TypeOK', NEW t \in Tasks, Tasks = {t}, SerialInv(t), NEW k \in UserKeys,
         NEW aw \in BOOLEAN, CreateWeb(t, k, aw)
  PROVE  SerialInv(t)'
<1>1. k \in Keys /\ k \notin Sids /\ NoKey \notin Keys /\ NoSid \notin Sids /\ task[t] \in Calls
  BY ConstantsAssumption, CallType DEF Keys
<1>2. /\ task'[t].pc = "own" /\ task'[t].key = k /\ task'[t].at = k
      /\ task'[t].sid = NoSid /\ task'[t].old = NoSid /\ task'[t].next \in {"idle", "spawn"}
  BY DEF CreateWeb, Goto, TypeOK, Idle
<1>3. /\ task[t].pc = "idle" /\ Bind(k, "Spawning", NoSid, aw) /\ phase[k] = "None"
      /\ owned' = owned /\ rows' = rows /\ queue' = queue /\ closed' = closed /\ minted' = minted
  BY DEF CreateWeb, pending
<1>4. /\ phase'[k] = "Spawning" /\ sid'[k] = NoSid
      /\ \A j \in Keys \ {k} :
           phase'[j] = phase[j] /\ sid'[j] = sid[j] /\ awaiting'[j] = awaiting[j]
  BY <1>1, <1>3 DEF Bind, TypeOK
<1>5. StandsAt(task[t])'
  BY <1>1, <1>2, <1>4 DEF StandsAt
<1>6. KeyOK(t, k)'
  <2>1. KeyOK(t, k) /\ ~Deletes(task[t], k) /\ ~Clears(task[t], k)
    BY <1>1, <1>3 DEF SerialInv, Deletes, Clears
  <2> QED
    BY <1>1, <1>2, <1>3, <1>4, <2>1 DEF KeyOK, Writes
<1>7. BoundOK(t)'
  <2>1. ASSUME NEW j \in UserKeys, NEW s \in Sids, Bound(t, j, s)' PROVE Bound(t, j, s)
    <3>1. j \in Keys
      BY DEF Keys
    <3> QED
      BY <1>1, <1>2, <1>3, <1>4, <2>1, <3>1 DEF Bound
  <2> QED
    BY <1>3, <2>1, BoundKept DEF SerialInv
<1> QED
  BY <1>1, <1>3, <1>4, <1>5, <1>6, <1>7, OthersOK DEF SerialInv

\* The child's death: the mapping is kept as a record, and its row about to be built.
LEMMA RetireSerial ==
  ASSUME TypeOK, TypeOK', NEW t \in Tasks, Tasks = {t}, SerialInv(t), NEW k \in UserKeys,
         Retire(t, k)
  PROVE  SerialInv(t)'
<1>1. k \in Keys /\ k \notin Sids /\ NoKey \notin Keys /\ NoSid \notin Sids /\ task[t] \in Calls
  BY ConstantsAssumption, CallType DEF Keys
<1>2. /\ task'[t].pc = "build" /\ task'[t].key = k /\ task'[t].at = k
      /\ task'[t].sid = NoSid /\ task'[t].old = NoSid /\ task'[t].next = "idle"
  BY DEF Retire, Goto, TypeOK, UpsertCall, Idle
<1>3. /\ task[t].pc = "idle" /\ phase[k] = "Active"
      /\ sid' = sid /\ awaiting' = awaiting /\ owned' = owned
      /\ rows' = rows /\ closed' = closed /\ minted' = minted
  BY DEF Retire, names
<1>4. /\ phase'[k] = "Dormant" /\ queue'[k] = <<>>
      /\ \A j \in Keys \ {k} : phase'[j] = phase[j] /\ queue'[j] = queue[j]
  BY <1>1 DEF Retire, ClearQueue, TypeOK
<1>5. StandsAt(task[t])'
  BY <1>1, <1>2, <1>4 DEF StandsAt
<1>6. KeyOK(t, k)'
  <2>1. KeyOK(t, k) /\ ~Deletes(task[t], k)
    BY <1>1, <1>3 DEF SerialInv, Deletes
  <2> QED
    BY <1>1, <1>2, <1>3, <1>4, <2>1 DEF KeyOK, Writes
<1>7. BoundOK(t)'
  <2>1. ASSUME NEW j \in UserKeys, NEW s \in Sids, Bound(t, j, s)' PROVE Bound(t, j, s)
    BY <1>1, <1>2, <1>3, <2>1 DEF Bound
  <2> QED
    BY <1>3, <2>1, BoundKept DEF SerialInv
<1> QED
  BY <1>1, <1>3, <1>4, <1>5, <1>6, <1>7, OthersOK DEF SerialInv

\* A free task reads the map, and begins a call that knows what it read.
LEMMA ReadSerial ==
  ASSUME TypeOK, TypeOK', NEW t \in Tasks, Tasks = {t}, SerialInv(t), task[t].pc = "idle",
         UNCHANGED <<phase, sid, awaiting, owned, rows, queue, closed, minted>>,
         StandsAt(task[t])',
         \A k \in UserKeys, s \in Sids : Bound(t, k, s)' => Bound(t, k, s)
  PROVE  SerialInv(t)'
<1>1. \A k \in Keys : ~Writes(task[t], k) /\ ~Deletes(task[t], k) /\ ~Clears(task[t], k)
  BY DEF Writes, Deletes, Clears
<1> QED
  BY <1>1, MoveOnSerial

LEMMA SerialStutter ==
  ASSUME NEW t \in Tasks, SerialInv(t),
         UNCHANGED <<phase, sid, awaiting, owned, rows, queue, closed, minted, task>>
  PROVE  SerialInv(t)'
<1>1. StandsAt(task[t])' /\ BoundOK(t)'
  BY DEF SerialInv, StandsAt, BoundOK, Bound, RowOf
<1>2. ASSUME NEW k \in Keys PROVE KeyOK(t, k)'
  BY DEF SerialInv, KeyOK, Stored, RowOf, Writes, Deletes, Clears
<1> QED
  BY <1>1, <1>2 DEF SerialInv

LEMMA CallSerial ==
  ASSUME TypeOK, TypeOK', NEW t \in Tasks, Tasks = {t}, SerialInv(t), Call(t)
  PROVE  SerialInv(t)'
<1>1. PICK k \in UserKeys :
        \/ RouteNew(t, k) \/ RouteContinue(t, k) \/ RouteClaim(t, k) \/ RouteRetry(t, k)
        \/ RouteFirst(t, k) \/ ActivatePlaceholder(t, k) \/ RouteStage(t, k) \/ BeginSpawn(t, k)
        \/ \E aw \in BOOLEAN : CreateWeb(t, k, aw)
        \/ SetField(t, k) \/ DrainLookup(t, k) \/ Retire(t, k) \/ CloseRead(t, k)
        \/ \E s \in Sids : RestoreRead(t, k, s)
        \/ \E i \in Ids : RemoveStaged(t, k, i) \/ \E n \in Ids : MoveStaged(t, k, i, n)
  BY DEF Call
<1>2. k \in Keys /\ k \notin Sids /\ NoKey \notin Keys /\ NoSid \notin Sids
  BY ConstantsAssumption DEF Keys
<1>3. CASE \/ RouteNew(t, k) \/ RouteClaim(t, k) \/ RouteRetry(t, k) \/ RouteFirst(t, k)
           \/ ActivatePlaceholder(t, k) \/ BeginSpawn(t, k)
  BY <1>3, SpawnSerial
<1>4. CASE \E aw \in BOOLEAN : CreateWeb(t, k, aw)
  BY <1>4, CreateSerial
<1>5. CASE Retire(t, k)
  BY <1>5, RetireSerial
<1>6. CASE RouteContinue(t, k) \/ DrainLookup(t, k)
  <2>1. /\ task'[t].pc \in {"submit", "drain"} /\ task'[t].key = k /\ task'[t].at = NoKey
        /\ task'[t].sid = sid[k] /\ task'[t].old = NoSid /\ task'[t].next = "idle"
    <3>1. CASE RouteContinue(t, k)
      BY <3>1 DEF RouteContinue, Goto, TypeOK, Idle
    <3>2. CASE DrainLookup(t, k)
      BY <3>2 DEF DrainLookup, Goto, TypeOK, Idle
    <3> QED
      BY <1>6, <3>1, <3>2
  <2>2. task[t].pc = "idle" /\ phase[k] = "Active"
        /\ UNCHANGED <<phase, sid, awaiting, owned, rows, queue, closed, minted>>
    BY <1>6 DEF RouteContinue, DrainLookup, inner, pending, names
  <2>3. StandsAt(task[t])'
    BY <1>2, <2>1, <2>2 DEF StandsAt, Keys
  <2>4. \A j \in UserKeys, s \in Sids : Bound(t, j, s)' => Bound(t, j, s)
    BY <1>2, <2>1, <2>2 DEF Bound
  <2> QED
    BY <2>2, <2>3, <2>4, ReadSerial
<1>7. CASE SetField(t, k)
  <2>1. /\ task'[t].pc = "build" /\ task'[t].key = k /\ task'[t].at = k
        /\ task'[t].sid = NoSid /\ task'[t].old = NoSid /\ task'[t].next = "idle"
    BY <1>7 DEF SetField, Goto, TypeOK, UpsertCall, Idle
  <2>2. task[t].pc = "idle" /\ phase[k] # "None"
        /\ UNCHANGED <<phase, sid, awaiting, owned, rows, queue, closed, minted>>
    BY <1>7 DEF SetField, inner, pending, names
  <2>3. StandsAt(task[t])'
    BY <1>2, <2>1, <2>2 DEF StandsAt, Keys
  <2>4. \A j \in UserKeys, s \in Sids : Bound(t, j, s)' => Bound(t, j, s)
    BY <1>2, <2>1, <2>2 DEF Bound
  <2> QED
    BY <2>2, <2>3, <2>4, ReadSerial
<1>8. CASE CloseRead(t, k)
  <2>1. /\ task'[t].pc = "closing" /\ task'[t].key = k /\ task'[t].at = NoKey
        /\ task'[t].old = sid[k] /\ task'[t].next = "idle"
        /\ task'[t].sid = IF phase[k] = "Active" THEN sid[k] ELSE NoSid
    BY <1>8 DEF CloseRead, Goto, TypeOK, Idle
  <2>2. task[t].pc = "idle" /\ phase[k] # "None"
        /\ UNCHANGED <<phase, sid, awaiting, owned, rows, queue, closed, minted>>
    BY <1>8 DEF CloseRead, inner, pending, names
  <2>3. StandsAt(task[t])'
    BY <1>2, <2>1, <2>2 DEF StandsAt, Keys
  <2>4. \A j \in UserKeys, s \in Sids : Bound(t, j, s)' => Bound(t, j, s)
    BY <1>2, <2>1, <2>2 DEF Bound
  <2> QED
    BY <2>2, <2>3, <2>4, ReadSerial
<1>9. ASSUME NEW s \in Sids, RestoreRead(t, k, s) PROVE SerialInv(t)'
  <2>1. /\ task'[t].pc = "restore" /\ task'[t].key = k /\ task'[t].at = NoKey
        /\ task'[t].old = s /\ task'[t].next = "idle"
    BY <1>9 DEF RestoreRead, Goto, TypeOK, Idle
  <2>2. task[t].pc = "idle" /\ phase[k] = "None" /\ s \in closed
        /\ UNCHANGED <<phase, sid, awaiting, owned, rows, queue, closed, minted>>
    BY <1>9 DEF RestoreRead, inner, pending, names
  <2>3. StandsAt(task[t])'
    BY <1>2, <2>1, <2>2 DEF StandsAt, Keys
  <2>4. \A j \in UserKeys, z \in Sids : Bound(t, j, z)' => Bound(t, j, z)
    BY <1>2, <2>1, <2>2 DEF Bound
  <2> QED
    BY <2>2, <2>3, <2>4, ReadSerial
<1>10. CASE RouteStage(t, k)
  BY <1>10, SerialStutter DEF RouteStage, inner, names
<1>11. ASSUME NEW i \in Ids, RemoveStaged(t, k, i) \/ \E n \in Ids : MoveStaged(t, k, i, n)
       PROVE  SerialInv(t)'
  <2>1. task[t].pc = "idle"
        /\ UNCHANGED <<phase, sid, awaiting, owned, rows, queue, closed, minted>>
    BY <1>11 DEF RemoveStaged, MoveStaged, inner, names
  <2>2. CASE UNCHANGED task
    BY <2>1, <2>2, SerialStutter
  <2>3. CASE task' # task
    <3>1. /\ task'[t].pc = "turns" /\ task'[t].key = k /\ task'[t].at = NoKey
          /\ task'[t].sid = NoSid /\ task'[t].old = NoSid /\ task'[t].next = "idle"
      <4>1. CASE RemoveStaged(t, k, i)
        <5>1. Goto(t, [Idle EXCEPT !.pc = "turns", !.key = k, !.id = i])
          BY <2>3, <4>1 DEF RemoveStaged
        <5> QED
          BY <5>1 DEF Goto, TypeOK, Idle
      <4>2. ASSUME NEW n \in Ids, MoveStaged(t, k, i, n)
            PROVE  /\ task'[t].pc = "turns" /\ task'[t].key = k /\ task'[t].at = NoKey
                   /\ task'[t].sid = NoSid /\ task'[t].old = NoSid /\ task'[t].next = "idle"
        <5>1. Goto(t, [Idle EXCEPT !.pc = "turns", !.key = k, !.id = i, !.to = n])
          BY <2>3, <4>2 DEF MoveStaged
        <5> QED
          BY <5>1 DEF Goto, TypeOK, Idle
      <4> QED
        BY <1>11, <4>1, <4>2
    <3>2. StandsAt(task[t])'
      BY <1>2, <3>1 DEF StandsAt, Keys
    <3>3. \A j \in UserKeys, s \in Sids : Bound(t, j, s)' => Bound(t, j, s)
      BY <1>2, <2>1, <3>1 DEF Bound
    <3> QED
      BY <2>1, <3>2, <3>3, ReadSerial
  <2> QED
    BY <2>2, <2>3
<1> QED
  BY <1>1, <1>3, <1>4, <1>5, <1>6, <1>7, <1>8, <1>9, <1>10, <1>11

LEMMA SetProjectSerial ==
  ASSUME TypeOK, TypeOK', NEW t \in Tasks, Tasks = {t}, SerialInv(t), NEW k \in UserKeys,
         task[t].key = k, SetProject(t)
  PROVE  SerialInv(t)'
<1>1. k \in Keys /\ k \notin Sids /\ NoKey \notin Keys /\ task[t] \in Calls
  BY ConstantsAssumption, CallType DEF Keys
<1>2. task[t].pc = "own" /\ task[t].at = k /\ phase[k] = "Spawning"
  BY CallType DEF SetProject, CallOK, SerialInv, StandsAt
<1>3. task'[t] = [task[t] EXCEPT !.pc = "build"]
      /\ UNCHANGED <<phase, sid, awaiting, rows, queue, closed, minted>>
      /\ owned'[k] = TRUE /\ \A j \in Keys \ {k} : owned'[j] = owned[j]
  BY <1>1, <1>2 DEF SetProject, Goto, TypeOK, pending, names
<1>4. /\ task'[t].pc = "build" /\ task'[t].key = k /\ task'[t].at = k
      /\ task'[t].sid = task[t].sid /\ task'[t].old = task[t].old /\ task'[t].next = task[t].next
  BY <1>1, <1>2, <1>3 DEF Calls
<1>5. StandsAt(task[t])'
  <2>1. task[t].next = "activate" => task[t].sid # NoSid
    BY DEF StandsAt, SerialInv
  <2> QED
    BY <1>1, <1>2, <1>3, <1>4, <2>1 DEF StandsAt
<1>6. KeyOK(t, k)'
  <2>1. KeyOK(t, k)
    BY <1>1 DEF SerialInv
  <2> QED
    BY <1>1, <1>2, <1>3, <1>4, <2>1 DEF KeyOK, Writes, Clears
<1>7. BoundOK(t)'
  <2>1. ASSUME NEW j \in UserKeys, NEW z \in Sids, Bound(t, j, z)' PROVE Bound(t, j, z)
    BY <1>2, <1>3, <1>4, <2>1 DEF Bound
  <2> QED
    BY <1>3, <2>1, BoundKept DEF SerialInv
<1> QED
  BY <1>1, <1>2, <1>3, <1>5, <1>6, <1>7, OthersOK DEF SerialInv

\* The child is up under a session id nobody knows yet.
LEMMA FreshSerial ==
  ASSUME TypeOK, TypeOK', NEW t \in Tasks, Tasks = {t}, SerialInv(t), NEW k \in UserKeys,
         task[t].key = k, NEW s \in Sids, SpawnFresh(t, s)
  PROVE  SerialInv(t)'
<1>1. k \in Keys /\ k \notin Sids /\ NoSid \notin Sids /\ NoKey \notin Keys /\ task[t] \in Calls
  BY ConstantsAssumption, CallType DEF Keys
<1>2. task[t].pc = "spawn" /\ phase[k] = "Spawning" /\ s \notin minted /\ task[t].next = "idle"
  BY DEF SpawnFresh, SerialInv, StandsAt
<1>3. UNCHANGED <<phase, sid, awaiting, owned, rows, queue, closed>>
      /\ minted' = minted \cup {s}
  BY DEF SpawnFresh, inner, pending
<1>4. /\ task'[t].pc \in {"archive", "activate"} /\ task'[t].key = k /\ task'[t].at = task[t].at
      /\ task'[t].sid = s /\ task'[t].old = task[t].old /\ task'[t].next = "idle"
  BY <1>1, <1>2 DEF SpawnFresh, Goto, TypeOK, Calls
<1>5. StandsAt(task[t])'
  BY <1>1, <1>2, <1>3, <1>4 DEF StandsAt, SerialInv
<1>6. KeyOK(t, k)'
  <2>1. KeyOK(t, k) /\ ~Writes(task[t], k) /\ ~Deletes(task[t], k) /\ ~Clears(task[t], k)
    BY <1>1, <1>2 DEF SerialInv, Writes, Deletes, Clears
  <2>2. Stored(k)'
    BY <1>3, <2>1 DEF KeyOK, Stored, RowOf
  <2> QED
    BY <1>3, <2>1, <2>2 DEF KeyOK
<1>7. BoundOK(t)'
  <2>1. BoundOK(t)
    BY DEF SerialInv
  <2>2. ASSUME NEW z \in Sids, NEW j \in UserKeys, Bound(t, j, z)'
        PROVE  IF z = s THEN j = k ELSE Bound(t, j, z)
    <3>1. CASE j = k
      BY <1>2, <1>3, <1>4, <2>2, <3>1 DEF Bound
    <3>2. CASE j # k
      <4>1. Bound(t, j, z)
        BY <1>3, <1>4, <2>2, <3>2 DEF Bound
      <4>2. z # s
        BY <1>2, <2>1, <4>1 DEF BoundOK
      <4> QED
        BY <4>1, <4>2
    <3> QED
      BY <3>1, <3>2
  <2>3. s \notin closed /\ closed' \subseteq minted'
    BY <1>2, <1>3, <2>1 DEF BoundOK
  <2> QED
    BY <1>3, <2>1, <2>2, <2>3 DEF BoundOK
<1> QED
  BY <1>1, <1>2, <1>3, <1>5, <1>6, <1>7, OthersOK DEF SerialInv

LEMMA ResumedSerial ==
  ASSUME TypeOK, TypeOK', NEW t \in Tasks, Tasks = {t}, SerialInv(t), NEW k \in UserKeys,
         task[t].key = k, SpawnResumed(t)
  PROVE  SerialInv(t)'
<1>1. k \in Keys /\ k \notin Sids /\ NoSid \notin Sids /\ NoKey \notin Keys /\ task[t] \in Calls
  BY ConstantsAssumption, CallType DEF Keys
<1>2. /\ task[t].pc = "spawn" /\ phase[k] = "Spawning" /\ task[t].next = "idle"
      /\ task[t].old # NoSid
      /\ UNCHANGED <<phase, sid, awaiting, owned, rows, queue, closed, minted>>
  BY DEF SpawnResumed, SerialInv, StandsAt, inner, pending, names
<1>3. /\ task'[t].pc = "activate" /\ task'[t].key = k /\ task'[t].at = task[t].at
      /\ task'[t].sid = task[t].old /\ task'[t].old = task[t].old /\ task'[t].next = "idle"
  BY <1>1, <1>2 DEF SpawnResumed, Goto, TypeOK, Calls
<1>4. StandsAt(task[t])'
  BY <1>1, <1>2, <1>3 DEF StandsAt, SerialInv
<1>5. \A j \in UserKeys, z \in Sids : Bound(t, j, z)' => Bound(t, j, z)
  BY <1>2, <1>3 DEF Bound
<1>6. \A j \in Keys : ~Writes(task[t], j) /\ ~Deletes(task[t], j) /\ ~Clears(task[t], j)
  BY <1>2 DEF Writes, Deletes, Clears
<1> QED
  BY <1>2, <1>4, <1>5, <1>6, MoveOnSerial

LEMMA FailSerial ==
  ASSUME TypeOK, TypeOK', NEW t \in Tasks, Tasks = {t}, SerialInv(t), NEW k \in UserKeys,
         task[t].key = k, FailSpawn(t)
  PROVE  SerialInv(t)'
<1>1. k \in Keys /\ k \notin Sids /\ NoSid \notin Sids /\ NoKey \notin Keys /\ task[t] \in Calls
  BY ConstantsAssumption, CallType DEF Keys
<1>2. task[t].pc \in {"spawn", "activate"} /\ phase[k] = "Spawning"
  BY DEF FailSpawn, SerialInv, StandsAt
<1>3. /\ Goto(t, Idle) /\ Bind(k, "SpawnFailed", NoSid, FALSE)
      /\ UNCHANGED <<owned, queue, rows, closed, minted>>
  BY <1>2 DEF FailSpawn, names
<1>4. /\ task'[t] = Idle
      /\ phase'[k] = "SpawnFailed" /\ sid'[k] = NoSid /\ awaiting'[k] = FALSE
      /\ \A j \in Keys \ {k} :
           phase'[j] = phase[j] /\ sid'[j] = sid[j] /\ awaiting'[j] = awaiting[j]
  BY <1>1, <1>3 DEF Bind, Goto, TypeOK
<1>5. StandsAt(task[t])'
  BY <1>1, <1>4 DEF StandsAt, Idle, Keys
<1>6. KeyOK(t, k)'
  <2>1. KeyOK(t, k) /\ ~Deletes(task[t], k) /\ ~Clears(task[t], k)
    BY <1>1, <1>2 DEF SerialInv, Deletes, Clears
  <2>2. queue[k] = <<>>
    BY <1>2, <2>1 DEF KeyOK
  <2> QED
    BY <1>1, <1>3, <1>4, <2>1, <2>2 DEF KeyOK, Stored
<1>7. BoundOK(t)'
  <2>1. ASSUME NEW j \in UserKeys, NEW z \in Sids, Bound(t, j, z)' PROVE Bound(t, j, z)
    BY <1>1, <1>3, <1>4, <2>1 DEF Bound, Idle, Keys
  <2> QED
    BY <1>3, <2>1, BoundKept DEF SerialInv
<1> QED
  BY <1>1, <1>2, <1>3, <1>4, <1>5, <1>6, <1>7, OthersOK DEF SerialInv

\* The record of the session that would not load has a key of its own.
LEMMA PreserveSerial ==
  ASSUME TypeOK, TypeOK', NEW t \in Tasks, Tasks = {t}, SerialInv(t), NEW k \in UserKeys,
         task[t].key = k, PreserveClosed(t)
  PROVE  SerialInv(t)'
<1>1. PICK a \in Sids : a = task[t].old
  BY CallType DEF PreserveClosed, CallOK
<1>2. /\ k \in Keys /\ k \notin Sids /\ NoSid \notin Sids /\ NoKey \notin Keys
      /\ task[t] \in Calls /\ a \in Keys /\ a # k /\ a \notin Webs /\ a \notin UserKeys
  BY ConstantsAssumption, CallType DEF Keys, UserKeys
<1>3. /\ task[t].pc = "archive" /\ phase[k] = "Spawning" /\ task[t].next = "idle"
      /\ task[t].sid # NoSid
      /\ UNCHANGED <<owned, rows, queue, closed, minted>>
  BY DEF PreserveClosed, SerialInv, StandsAt, pending, names
<1>4. \A j \in Keys : ~Writes(task[t], j) /\ ~Deletes(task[t], j) /\ ~Clears(task[t], j)
  BY <1>3 DEF Writes, Deletes, Clears
<1>5. CASE phase[a] = "None" /\ HasRoom
  <2>1. Bind(a, "Dormant", a, FALSE)
        /\ Goto(t, [task[t] EXCEPT !.pc = "build", !.at = a, !.next = "activate"])
    BY <1>1, <1>5 DEF PreserveClosed
  <2>2. /\ phase'[a] = "Dormant" /\ sid'[a] = a /\ awaiting'[a] = FALSE
        /\ \A j \in Keys \ {a} :
             phase'[j] = phase[j] /\ sid'[j] = sid[j] /\ awaiting'[j] = awaiting[j]
    BY <1>2, <2>1 DEF Bind, TypeOK
  <2>3. /\ task'[t].pc = "build" /\ task'[t].key = k /\ task'[t].at = a
        /\ task'[t].sid = task[t].sid /\ task'[t].old = task[t].old /\ task'[t].next = "activate"
    BY <1>2, <2>1 DEF Goto, TypeOK, Calls
  <2>4. StandsAt(task[t])'
    BY <1>2, <1>3, <2>2, <2>3 DEF StandsAt
  <2>5. KeyOK(t, a)'
    <3>1. KeyOK(t, a) /\ ~Clears(task[t], a)
      BY <1>2, <1>4 DEF SerialInv
    <3>2. queue[a] = <<>>
      BY <1>5, <3>1 DEF KeyOK
    <3> QED
      BY <1>2, <1>3, <2>2, <2>3, <3>2 DEF KeyOK, Writes
  <2>6. BoundOK(t)'
    <3>1. ASSUME NEW j \in UserKeys, NEW z \in Sids, Bound(t, j, z)' PROVE Bound(t, j, z)
      <4>1. j \in Keys \ {a}
        BY <1>2 DEF Keys
      <4> QED
        BY <1>3, <2>2, <2>3, <3>1, <4>1 DEF Bound
    <3> QED
      BY <1>3, <3>1, BoundKept DEF SerialInv
  <2> QED
    BY <1>2, <1>3, <2>2, <2>4, <2>5, <2>6, OthersOK DEF SerialInv
<1>6. CASE ~(phase[a] = "None" /\ HasRoom)
  <2>1. UNCHANGED <<phase, sid, awaiting>>
    BY <1>1, <1>6 DEF PreserveClosed
  <2>2. /\ \/ phase[a] = "None" /\ task'[t] = [task[t] EXCEPT !.pc = "activate"]
           \/ phase[a] # "None"
              /\ task'[t] = [task[t] EXCEPT !.pc = "build", !.at = a, !.next = "activate"]
    BY <1>1, <1>6 DEF PreserveClosed, Goto, TypeOK
  <2>3. /\ \/ task'[t].pc = "activate" /\ task'[t].at = task[t].at /\ task'[t].next = "idle"
           \/ task'[t].pc = "build" /\ task'[t].at = a /\ task'[t].next = "activate"
              /\ phase[a] # "None"
        /\ task'[t].sid = task[t].sid /\ task'[t].old = task[t].old /\ task'[t].key = k
    <3>1. CASE task'[t] = [task[t] EXCEPT !.pc = "activate"]
      BY <1>2, <1>3, <3>1 DEF Calls
    <3>2. CASE /\ phase[a] # "None"
               /\ task'[t] = [task[t] EXCEPT !.pc = "build", !.at = a, !.next = "activate"]
      BY <1>2, <3>2 DEF Calls
    <3> QED
      BY <2>2, <3>1, <3>2
  <2>4. StandsAt(task[t])'
    <3>1. task[t].at \in UserKeys => task[t].at = k
      BY DEF StandsAt, SerialInv
    <3>2. task'[t].at \in UserKeys => task'[t].at = k
      BY <1>2, <2>3, <3>1
    <3> QED
      BY <1>3, <2>1, <2>3, <3>2 DEF StandsAt
  <2>5. \A j \in UserKeys, z \in Sids : Bound(t, j, z)' => Bound(t, j, z)
    BY <1>3, <2>1, <2>3 DEF Bound
  <2> QED
    BY <1>3, <1>4, <2>1, <2>4, <2>5, MoveOnSerial
<1> QED
  BY <1>5, <1>6

LEMMA ActivateSerial ==
  ASSUME TypeOK, TypeOK', NEW t \in Tasks, Tasks = {t}, SerialInv(t), NEW k \in UserKeys,
         task[t].key = k, Activate(t)
  PROVE  SerialInv(t)'
<1>1. k \in Keys /\ k \notin Sids /\ NoSid \notin Sids /\ NoKey \notin Keys /\ task[t] \in Calls
  BY ConstantsAssumption, CallType DEF Keys
<1>2. task[t].pc = "activate" /\ phase[k] = "Spawning" /\ task[t].sid # NoSid
  BY DEF Activate, SerialInv, StandsAt
<1>3. /\ Goto(t, UpsertCall(k)) /\ Bind(k, "Active", task[t].sid, FALSE)
      /\ owned' = [owned EXCEPT ![k] = @ /\ phase[k] # "None"]
      /\ UNCHANGED <<queue, rows, closed, minted>>
  BY DEF Activate, names
<1>4. /\ phase'[k] = "Active" /\ sid'[k] = task[t].sid /\ awaiting'[k] = FALSE
      /\ \A j \in Keys \ {k} :
           phase'[j] = phase[j] /\ sid'[j] = sid[j] /\ awaiting'[j] = awaiting[j]
  BY <1>1, <1>3 DEF Bind, TypeOK
<1>5. \A j \in Keys : owned'[j] = owned[j]
  BY <1>1, <1>2, <1>3 DEF TypeOK
<1>6. /\ task'[t].pc = "build" /\ task'[t].key = k /\ task'[t].at = k
      /\ task'[t].sid = NoSid /\ task'[t].old = NoSid /\ task'[t].next = "idle"
  BY <1>1, <1>3 DEF Goto, TypeOK, UpsertCall, Idle
<1>7. StandsAt(task[t])'
  BY <1>1, <1>4, <1>6 DEF StandsAt
<1>8. KeyOK(t, k)'
  <2>1. KeyOK(t, k) /\ ~Deletes(task[t], k) /\ ~Clears(task[t], k)
    BY <1>1, <1>2 DEF SerialInv, Deletes, Clears
  <2>2. queue[k] = <<>>
    BY <1>2, <2>1 DEF KeyOK
  <2> QED
    BY <1>1, <1>2, <1>3, <1>4, <1>5, <1>6, <2>1, <2>2 DEF KeyOK, Writes
<1>9. BoundOK(t)'
  <2>1. ASSUME NEW j \in UserKeys, NEW z \in Sids, Bound(t, j, z)' PROVE Bound(t, j, z)
    BY <1>1, <1>2, <1>3, <1>4, <1>6, <2>1 DEF Bound, Keys
  <2> QED
    BY <1>3, <2>1, BoundKept DEF SerialInv
<1> QED
  BY <1>1, <1>2, <1>3, <1>4, <1>5, <1>7, <1>8, <1>9, OthersOK DEF SerialInv

LEMMA AllocSerial ==
  ASSUME TypeOK, TypeOK', NEW t \in Tasks, Tasks = {t}, SerialInv(t), NEW k \in UserKeys,
         task[t].key = k, NEW prio \in BOOLEAN, EnqueueAlloc(t, prio)
  PROVE  SerialInv(t)'
<1>1. k \in Keys /\ task[t] \in Calls /\ task[t].pc = "submit" /\ task[t].next = "idle"
  BY CallType DEF Keys, EnqueueAlloc, SerialInv, StandsAt
<1>2. UNCHANGED <<phase, sid, awaiting, owned, rows, queue, closed, minted>>
  BY DEF EnqueueAlloc, inner, names
<1>3. /\ task'[t].pc = "push" /\ task'[t].key = k /\ task'[t].at = task[t].at
      /\ task'[t].sid = task[t].sid /\ task'[t].old = task[t].old /\ task'[t].next = "idle"
  BY <1>1 DEF EnqueueAlloc, Goto, TypeOK, Calls
<1>4. StandsAt(task[t])'
  BY <1>1, <1>2, <1>3 DEF StandsAt, SerialInv
<1>5. \A j \in UserKeys, z \in Sids : Bound(t, j, z)' => Bound(t, j, z)
  BY <1>1, <1>2, <1>3 DEF Bound
<1>6. \A j \in Keys : ~Writes(task[t], j) /\ ~Deletes(task[t], j) /\ ~Clears(task[t], j)
  BY <1>1 DEF Writes, Deletes, Clears
<1> QED
  BY <1>2, <1>4, <1>5, <1>6, MoveOnSerial

\* A close removes the one mapping its session has.
LEMMA RemoveSerial ==
  ASSUME TypeOK, TypeOK', NEW t \in Tasks, Tasks = {t}, SerialInv(t), NEW k \in UserKeys,
         task[t].key = k, NEW j \in Keys, CloseRemove(t, j)
  PROVE  SerialInv(t)'
<1>1. k \in Keys /\ k \notin Sids /\ NoSid \notin Sids /\ NoKey \notin Keys /\ task[t] \in Calls
  BY ConstantsAssumption, CallType DEF Keys
<1>2. task[t].pc = "closing" /\ task[t].next = "idle" /\ task[t].sid \in SidsOrNone
  BY CallType DEF CloseRemove, SerialInv, StandsAt
<1>3. j = k
  <2>1. CASE task[t].sid = NoSid
    BY <2>1 DEF CloseRemove, Doomed
  <2>2. CASE task[t].sid # NoSid
    <3>1. phase[j] = "Active" /\ sid[j] = task[t].sid /\ task[t].sid \in Sids
      BY <1>2, <2>2 DEF CloseRemove, Doomed, ActiveKeys, SidsOrNone
    <3>2. j \in UserKeys
      BY <3>1 DEF SerialInv, KeyOK, Keys
    <3>3. Bound(t, j, task[t].sid) /\ Bound(t, k, task[t].sid)
      BY <1>2, <3>1 DEF Bound
    <3> QED
      BY <3>1, <3>2, <3>3 DEF SerialInv, BoundOK
  <2> QED
    BY <2>1, <2>2
<1>4. /\ Goto(t, [task[t] EXCEPT !.pc = "delete", !.at = k])
      /\ Bind(k, "None", NoSid, FALSE) /\ owned' = [owned EXCEPT ![k] = FALSE]
      /\ UNCHANGED <<queue, rows, closed, minted>>
  BY <1>3 DEF CloseRemove, names
<1>5. /\ phase'[k] = "None" /\ sid'[k] = NoSid /\ awaiting'[k] = FALSE
      /\ \A b \in Keys \ {k} : /\ phase'[b] = phase[b] /\ sid'[b] = sid[b]
                               /\ awaiting'[b] = awaiting[b] /\ owned'[b] = owned[b]
  BY <1>1, <1>4 DEF Bind, TypeOK
<1>6. /\ task'[t].pc = "delete" /\ task'[t].key = k /\ task'[t].at = k
      /\ task'[t].sid = task[t].sid /\ task'[t].old = task[t].old /\ task'[t].next = "idle"
  BY <1>1, <1>2, <1>4 DEF Goto, TypeOK, Calls
<1>7. StandsAt(task[t])'
  BY <1>1, <1>5, <1>6 DEF StandsAt
<1>8. KeyOK(t, k)'
  BY <1>1, <1>5, <1>6 DEF KeyOK, Writes, Deletes, Clears
<1>9. BoundOK(t)'
  <2>1. ASSUME NEW b \in UserKeys, NEW z \in Sids, Bound(t, b, z)' PROVE Bound(t, b, z)
    BY <1>1, <1>2, <1>4, <1>5, <1>6, <2>1 DEF Bound, Keys
  <2> QED
    BY <1>4, <2>1, BoundKept DEF SerialInv
<1> QED
  BY <1>1, <1>2, <1>4, <1>5, <1>7, <1>8, <1>9, OthersOK DEF SerialInv

\* Nobody else can have removed the mapping a close has read.
LEMMA NothingSerial ==
  ASSUME TypeOK, NEW t \in Tasks, Tasks = {t}, SerialInv(t), NEW k \in UserKeys,
         task[t].key = k, CloseNothing(t)
  PROVE  FALSE
<1>1. /\ task[t].pc = "closing" /\ Doomed(t) = {} /\ k \in Keys /\ phase[k] # "None"
      /\ task[t].sid = IF phase[k] = "Active" THEN sid[k] ELSE NoSid
  BY DEF CloseNothing, SerialInv, StandsAt, Keys
<1>2. k \in Doomed(t)
  BY <1>1 DEF Doomed, ActiveKeys, Mapped
<1> QED
  BY <1>1, <1>2

\* The close returns: its session is nobody's.
LEMMA ClearSerial ==
  ASSUME TypeOK, TypeOK', NEW t \in Tasks, Tasks = {t}, SerialInv(t), NEW k \in UserKeys,
         task[t].key = k, CloseClear(t)
  PROVE  SerialInv(t)'
<1>1. k \in Keys /\ k \notin Sids /\ NoSid \notin Sids /\ NoKey \notin Keys /\ task[t] \in Calls
  BY ConstantsAssumption, CallType DEF Keys
<1>2. /\ task[t].pc = "clear" /\ task[t].at = k /\ phase[k] = "None" /\ sid[k] = NoSid
      /\ rows[k] = NoRow
  BY DEF CloseClear, SerialInv, StandsAt
<1>3. /\ Goto(t, Idle) /\ ClearQueue(k) /\ closed' = closed \cup ({task[t].old} \ {NoSid})
      /\ UNCHANGED <<phase, sid, awaiting, owned, rows, minted>>
  BY <1>2 DEF CloseClear, inner
<1>4. task'[t] = Idle /\ queue'[k] = <<>> /\ \A j \in Keys \ {k} : queue'[j] = queue[j]
  BY <1>1, <1>3 DEF Goto, ClearQueue, TypeOK
<1>5. StandsAt(task[t])'
  BY <1>1, <1>4 DEF StandsAt, Idle, Keys
<1>6. KeyOK(t, k)'
  <2>1. KeyOK(t, k)
    BY <1>1 DEF SerialInv
  <2> QED
    BY <1>1, <1>2, <1>3, <1>4, <2>1 DEF KeyOK, Stored, RowOf
<1>7. BoundOK(t)'
  <2>1. BoundOK(t)
    BY DEF SerialInv
  <2>2. ASSUME NEW j \in UserKeys, NEW z \in Sids, Bound(t, j, z)'
        PROVE  Bound(t, j, z) /\ z # task[t].old
    <3>1. sid[j] = z \/ rows[j].sid = z
      BY <1>1, <1>3, <1>4, <2>2 DEF Bound, Idle, Keys
    <3>2. Bound(t, j, z) /\ j # k
      BY <1>1, <1>2, <3>1 DEF Bound, NoRow
    <3>3. task[t].old = z => Bound(t, k, z)
      BY <1>2 DEF Bound
    <3> QED
      BY <2>1, <3>2, <3>3 DEF BoundOK
  <2>3. task[t].old \in Sids => task[t].old \in minted
    BY <1>2, <2>1 DEF BoundOK, Bound
  <2>4. task[t].old \in SidsOrNone
    BY CallType
  <2> QED
    BY <1>3, <2>1, <2>2, <2>3, <2>4 DEF BoundOK, SidsOrNone
<1> QED
  BY <1>1, <1>2, <1>3, <1>4, <1>5, <1>6, <1>7, OthersOK DEF SerialInv

\* An archived session comes back to a key that is still free.
LEMMA RestoreSerial ==
  ASSUME TypeOK, TypeOK', NEW t \in Tasks, Tasks = {t}, SerialInv(t), NEW k \in UserKeys,
         task[t].key = k, RestoreInsert(t)
  PROVE  SerialInv(t)'
<1> DEFINE s == task[t].old
<1>1. /\ k \in Keys /\ k \notin Sids /\ NoSid \notin Sids /\ NoKey \notin Keys
      /\ task[t] \in Calls /\ s \in Sids
  BY ConstantsAssumption, CallType DEF Keys, RestoreInsert, CallOK
<1>2. task[t].pc = "restore" /\ phase[k] = "None" /\ s \in closed /\ task[t].next = "idle"
  BY DEF RestoreInsert, SerialInv, StandsAt
<1>3. UNCHANGED <<rows, queue, minted>>
  BY DEF RestoreInsert
<1>4. \A j \in Keys : ~Writes(task[t], j) /\ ~Deletes(task[t], j) /\ ~Clears(task[t], j)
  BY <1>2 DEF Writes, Deletes, Clears
<1>5. CASE HasRoom
  <2>1. /\ Bind(k, "Dormant", s, FALSE) /\ owned' = [owned EXCEPT ![k] = TRUE]
        /\ closed' = closed \ {s} /\ Goto(t, UpsertCall(k))
    BY <1>5 DEF RestoreInsert
  <2>2. /\ phase'[k] = "Dormant" /\ sid'[k] = s /\ awaiting'[k] = FALSE /\ owned'[k] = TRUE
        /\ \A j \in Keys \ {k} : /\ phase'[j] = phase[j] /\ sid'[j] = sid[j]
                                 /\ awaiting'[j] = awaiting[j] /\ owned'[j] = owned[j]
    BY <1>1, <2>1 DEF Bind, TypeOK
  <2>3. /\ task'[t].pc = "build" /\ task'[t].key = k /\ task'[t].at = k
        /\ task'[t].sid = NoSid /\ task'[t].old = NoSid /\ task'[t].next = "idle"
    BY <1>1, <2>1 DEF Goto, TypeOK, UpsertCall, Idle
  <2>4. StandsAt(task[t])'
    BY <1>1, <2>2, <2>3 DEF StandsAt
  <2>5. KeyOK(t, k)'
    <3>1. KeyOK(t, k) /\ ~Clears(task[t], k)
      BY <1>1, <1>4 DEF SerialInv
    <3>2. queue[k] = <<>>
      BY <1>2, <3>1 DEF KeyOK
    <3> QED
      BY <1>1, <1>3, <2>2, <2>3, <3>2 DEF KeyOK, Writes
  <2>6. BoundOK(t)'
    <3>1. BoundOK(t)
      BY DEF SerialInv
    <3>2. ASSUME NEW j \in UserKeys, NEW z \in Sids, Bound(t, j, z)'
          PROVE  IF z = s THEN j = k ELSE Bound(t, j, z)
      <4>1. CASE j = k /\ z # s
        BY <1>1, <1>3, <2>2, <2>3, <3>2, <4>1 DEF Bound
      <4>2. CASE j # k
        <5>1. Bound(t, j, z)
          BY <1>3, <2>2, <2>3, <3>2, <4>2 DEF Bound, Keys
        <5>2. z # s
          BY <1>2, <3>1, <5>1 DEF BoundOK
        <5> QED
          BY <5>1, <5>2
      <4> QED
        BY <4>1, <4>2
    <3> QED
      BY <1>2, <1>3, <2>1, <3>1, <3>2 DEF BoundOK
  <2> QED
    BY <1>1, <1>2, <1>3, <2>2, <2>4, <2>5, <2>6, OthersOK DEF SerialInv
<1>6. CASE ~HasRoom
  <2>1. task'[t] = Idle /\ UNCHANGED <<phase, sid, awaiting, owned, closed>>
    BY <1>2, <1>6 DEF RestoreInsert, inner, Goto, TypeOK
  <2>2. StandsAt(task[t])'
    BY <1>1, <2>1 DEF StandsAt, Idle, Keys
  <2>3. \A j \in UserKeys, z \in Sids : Bound(t, j, z)' => Bound(t, j, z)
    BY <1>1, <1>3, <2>1 DEF Bound, Idle, Keys
  <2> QED
    BY <1>3, <1>4, <2>1, <2>2, <2>3, MoveOnSerial
<1> QED
  BY <1>5, <1>6

\* A call whose write is done goes on to what follows it.
LEMMA ProceedFields ==
  ASSUME TypeOK, NEW t \in Tasks
  PROVE  \/ Proceed(t) = Idle /\ task[t].next = "idle"
         \/ /\ Proceed(t).pc = task[t].next /\ task[t].next \in {"spawn", "activate"}
            /\ Proceed(t).key = task[t].key /\ Proceed(t).at = task[t].at
            /\ Proceed(t).sid = task[t].sid /\ Proceed(t).old = task[t].old
            /\ Proceed(t).next = "idle"
  BY CallType DEF Proceed, Calls

LEMMA BuildSerial ==
  ASSUME TypeOK, TypeOK', NEW t \in Tasks, Tasks = {t}, SerialInv(t), NEW k \in UserKeys,
         task[t].key = k, BuildRow(t)
  PROVE  SerialInv(t)'
<1>1. /\ k \in Keys /\ k \notin Sids /\ NoSid \notin Sids /\ NoKey \notin Keys
      /\ task[t] \in Calls /\ task[t].pc = "build"
  BY ConstantsAssumption, CallType DEF Keys, BuildRow
<1>2. PICK a \in Keys : a = task[t].at
  BY <1>1, CallType DEF CallOK
<1>3. UNCHANGED <<phase, sid, awaiting, owned, rows, queue, closed, minted>>
  BY DEF BuildRow, inner, pending, names
<1>4. phase[a] # "None" /\ KeyOK(t, a) /\ ~Deletes(task[t], a)
  BY <1>1, <1>2 DEF SerialInv, StandsAt, Deletes
<1>5. CASE RowOf(a) = NoRow
  <2>1. task'[t] = Proceed(t)
    BY <1>2, <1>5 DEF BuildRow, Goto, TypeOK
  <2>2. Stored(a)
    <3>1. phase[a] \in {"Active", "Dormant"} \/ awaiting[a] => a \in Webs /\ ~owned[a]
      BY <1>4, <1>5 DEF KeyOK, RowOf, NoRow
    <3> QED
      BY <1>4, <1>5, <3>1 DEF Stored, KeyOK
  <2>3. StandsAt(task[t])'
    BY <1>1, <1>3, <2>1, ProceedFields DEF StandsAt, SerialInv, Idle, Keys
  <2>4. \A j \in UserKeys, z \in Sids : Bound(t, j, z)' => Bound(t, j, z)
    BY <1>1, <1>3, <2>1, ProceedFields DEF Bound, Idle, Keys
  <2>5. \A j \in Keys : /\ Writes(task[t], j) => j = a
                        /\ ~Deletes(task[t], j) /\ ~Clears(task[t], j)
    BY <1>1, <1>2 DEF Writes, Deletes, Clears
  <2> QED
    BY <1>3, <2>2, <2>3, <2>4, <2>5, MoveOnSerial
<1>6. CASE RowOf(a) # NoRow
  <2>1. task'[t] = [task[t] EXCEPT !.pc = "save", !.row = RowOf(a)]
    BY <1>2, <1>6 DEF BuildRow, Goto, TypeOK
  <2>2. /\ task'[t].pc = "save" /\ task'[t].key = k /\ task'[t].at = a
        /\ task'[t].sid = task[t].sid /\ task'[t].old = task[t].old
        /\ task'[t].next = task[t].next /\ task'[t].row = RowOf(a)
    BY <1>1, <1>2, <2>1 DEF Calls
  <2>3. RowOf(a)' = RowOf(a)
    BY <1>3 DEF RowOf
  <2>4. StandsAt(task[t])'
    BY <1>1, <1>2, <1>3, <1>6, <2>2, <2>3 DEF StandsAt, SerialInv
  <2>5. \A j \in UserKeys, z \in Sids : Bound(t, j, z)' => Bound(t, j, z)
    BY <1>1, <1>3, <2>2 DEF Bound
  <2>6. \A j \in Keys : /\ Writes(task[t], j) => Writes(task'[t], j)
                        /\ ~Deletes(task[t], j) /\ ~Clears(task[t], j)
    BY <1>1, <1>2, <2>2 DEF Writes, Deletes, Clears
  <2> QED
    BY <1>3, <2>4, <2>5, <2>6, MoveOnSerial
<1> QED
  BY <1>5, <1>6

LEMMA SaveSerial ==
  ASSUME TypeOK, TypeOK', NEW t \in Tasks, Tasks = {t}, SerialInv(t), NEW k \in UserKeys,
         task[t].key = k, SaveRow(t)
  PROVE  SerialInv(t)'
<1>1. /\ k \in Keys /\ k \notin Sids /\ NoSid \notin Sids /\ NoKey \notin Keys
      /\ task[t] \in Calls /\ task[t].pc = "save"
  BY ConstantsAssumption, CallType DEF Keys, SaveRow
<1>2. PICK a \in Keys : a = task[t].at
  BY <1>1, CallType DEF CallOK
<1>3. UNCHANGED <<phase, sid, awaiting, owned, queue, closed, minted>>
  BY DEF SaveRow, inner, pending, names
<1>4. /\ RowOf(a) # NoRow /\ rows'[a] = RowOf(a)
      /\ \A j \in Keys \ {a} : rows'[j] = rows[j]
  BY <1>1, <1>2 DEF SerialInv, StandsAt, SaveRow, TypeOK
<1>5. /\ KeyOK(t, a) /\ ~Deletes(task[t], a) /\ ~Clears(task[t], a)
      /\ a \in UserKeys => a = k
  BY <1>1, <1>2 DEF SerialInv, StandsAt, Deletes, Clears
<1>6. task'[t] = [Proceed(t) EXCEPT !.row = NoRow]
  BY DEF SaveRow, Goto, TypeOK
<1>7. \/ /\ task'[t].pc = "idle" /\ task'[t].key = NoKey /\ task'[t].at = NoKey
         /\ task'[t].sid = NoSid /\ task'[t].old = NoSid /\ task'[t].next = "idle"
      \/ /\ task'[t].pc = task[t].next /\ task[t].next \in {"spawn", "activate"}
         /\ task'[t].key = k /\ task'[t].at = a
         /\ task'[t].sid = task[t].sid /\ task'[t].old = task[t].old /\ task'[t].next = "idle"
  BY <1>1, <1>2, <1>6 DEF Proceed, Calls, Idle
<1>8. StandsAt(task[t])'
  BY <1>1, <1>2, <1>3, <1>5, <1>7 DEF StandsAt, SerialInv, Keys
<1>9. KeyOK(t, a)'
  <2>1. Stored(a)'
    BY <1>3, <1>4 DEF Stored, RowOf
  <2>2. a \in Webs => owned[a]
    BY <1>4 DEF RowOf
  <2> QED
    BY <1>3, <1>5, <2>1, <2>2 DEF KeyOK
<1>10. BoundOK(t)'
  <2>1. ASSUME NEW j \in UserKeys, NEW z \in Sids, Bound(t, j, z)' PROVE Bound(t, j, z)
    <3>1. j \in Keys
      BY DEF Keys
    <3>2. rows'[j].sid = z => sid[j] = z \/ rows[j].sid = z
      BY <1>4, <3>1 DEF RowOf, NoRow
    <3> QED
      BY <1>1, <1>3, <1>7, <2>1, <3>1, <3>2 DEF Bound
  <2> QED
    BY <1>3, <2>1, BoundKept DEF SerialInv
<1> QED
  BY <1>1, <1>2, <1>3, <1>4, <1>8, <1>9, <1>10, OthersOK DEF SerialInv

LEMMA DeleteSerial ==
  ASSUME TypeOK, TypeOK', NEW t \in Tasks, Tasks = {t}, SerialInv(t), NEW k \in UserKeys,
         task[t].key = k, DeleteRow(t)
  PROVE  SerialInv(t)'
<1>1. /\ k \in Keys /\ k \notin Sids /\ NoSid \notin Sids /\ task[t] \in Calls
      /\ task[t].pc = "delete" /\ task[t].at = k /\ phase[k] = "None" /\ sid[k] = NoSid
      /\ task[t].next = "idle"
  BY ConstantsAssumption, CallType DEF Keys, DeleteRow, SerialInv, StandsAt
<1>2. UNCHANGED <<phase, sid, awaiting, owned, queue, closed, minted>>
  BY DEF DeleteRow, inner, pending, names
<1>3. rows'[k] = NoRow /\ \A j \in Keys \ {k} : rows'[j] = rows[j]
  BY <1>1 DEF DeleteRow, TypeOK
<1>4. /\ task'[t].pc = "clear" /\ task'[t].key = k /\ task'[t].at = k
      /\ task'[t].sid = task[t].sid /\ task'[t].old = task[t].old /\ task'[t].next = "idle"
  BY <1>1 DEF DeleteRow, Goto, TypeOK, Calls
<1>5. StandsAt(task[t])'
  BY <1>1, <1>2, <1>3, <1>4 DEF StandsAt
<1>6. KeyOK(t, k)'
  <2>1. KeyOK(t, k)
    BY <1>1 DEF SerialInv
  <2> QED
    BY <1>1, <1>2, <1>3, <1>4, <2>1 DEF KeyOK, Stored, RowOf, Clears
<1>7. BoundOK(t)'
  <2>1. ASSUME NEW j \in UserKeys, NEW z \in Sids, Bound(t, j, z)' PROVE Bound(t, j, z)
    BY <1>1, <1>2, <1>3, <1>4, <2>1 DEF Bound, NoRow, Keys
  <2> QED
    BY <1>2, <2>1, BoundKept DEF SerialInv
<1> QED
  BY <1>1, <1>2, <1>3, <1>5, <1>6, <1>7, OthersOK DEF SerialInv

LEMMA StepSerial ==
  ASSUME TypeOK, TypeOK', NEW t \in Tasks, Tasks = {t}, SerialInv(t), Step(t)
  PROVE  SerialInv(t)'
<1>1. task[t].pc # "idle"
  BY DEF Step, SetProject, SpawnFresh, SpawnResumed, FailSpawn, PreserveClosed, Activate,
         SubmitDirect, EnqueueAlloc, EnqueuePush, PopNext, RemoveQueued, MoveQueued,
         CloseRemove, CloseNothing, CloseClear, RestoreInsert, BuildRow, SaveRow, DeleteRow
<1>2. PICK k \in UserKeys : task[t].key = k
  BY <1>1 DEF SerialInv, StandsAt
<1>3. CASE SetProject(t)
  BY <1>2, <1>3, SetProjectSerial
<1>4. CASE \E s \in Sids : SpawnFresh(t, s)
  BY <1>2, <1>4, FreshSerial
<1>5. CASE SpawnResumed(t)
  BY <1>2, <1>5, ResumedSerial
<1>6. CASE FailSpawn(t)
  BY <1>2, <1>6, FailSerial
<1>7. CASE PreserveClosed(t)
  BY <1>2, <1>7, PreserveSerial
<1>8. CASE Activate(t)
  BY <1>2, <1>8, ActivateSerial
<1>9. CASE SubmitDirect(t)
  <2>1. /\ task'[t] = Idle /\ task[t].pc = "submit"
        /\ UNCHANGED <<phase, sid, awaiting, owned, rows, queue, closed, minted>>
    BY <1>9 DEF SubmitDirect, Goto, TypeOK, inner, pending, names
  <2>2. NoKey \notin Keys /\ NoSid \notin Sids
    BY ConstantsAssumption DEF Keys
  <2>3. StandsAt(task[t])'
    BY <2>1, <2>2 DEF StandsAt, Idle, Keys
  <2>4. \A j \in UserKeys, z \in Sids : Bound(t, j, z)' => Bound(t, j, z)
    BY <2>1, <2>2 DEF Bound, Idle, Keys
  <2>5. \A j \in Keys : ~Writes(task[t], j) /\ ~Deletes(task[t], j) /\ ~Clears(task[t], j)
    BY <2>1 DEF Writes, Deletes, Clears
  <2> QED
    BY <2>1, <2>3, <2>4, <2>5, MoveOnSerial
<1>10. CASE \E prio \in BOOLEAN : EnqueueAlloc(t, prio)
  BY <1>2, <1>10, AllocSerial
<1>11. CASE EnqueuePush(t)
  BY <1>2, <1>11, PushSerial
<1>12. CASE PopNext(t)
  BY <1>2, <1>12, PopSerial
<1>13. CASE RemoveQueued(t)
  BY <1>2, <1>13, RemoveQueuedSerial
<1>14. CASE MoveQueued(t)
  BY <1>2, <1>14, MoveQueuedSerial
<1>15. CASE \E j \in Keys : CloseRemove(t, j)
  BY <1>2, <1>15, RemoveSerial
<1>16. CASE CloseNothing(t)
  BY <1>2, <1>16, NothingSerial
<1>17. CASE CloseClear(t)
  BY <1>2, <1>17, ClearSerial
<1>18. CASE RestoreInsert(t)
  BY <1>2, <1>18, RestoreSerial
<1>19. CASE BuildRow(t)
  BY <1>2, <1>19, BuildSerial
<1>20. CASE SaveRow(t)
  BY <1>2, <1>20, SaveSerial
<1>21. CASE DeleteRow(t)
  BY <1>2, <1>21, DeleteSerial
<1> QED
  BY <1>3, <1>4, <1>5, <1>6, <1>7, <1>8, <1>9, <1>10, <1>11, <1>12, <1>13, <1>14, <1>15,
     <1>16, <1>17, <1>18, <1>19, <1>20, <1>21, SMTT(40) DEF Step

\* A crash at any point of a call: what the rows give back is what they were.
LEMMA CrashSerial ==
  ASSUME TypeOK, TypeOK', NEW t \in Tasks, SerialInv(t), Crash
  PROVE  SerialInv(t)'
<1>1. NoKey \notin Keys /\ NoSid \notin Sids /\ Sids \cap Webs = {}
  BY ConstantsAssumption DEF Keys, UserKeys
<1>2. task'[t] = Idle /\ UNCHANGED <<rows, minted, closed>>
  BY DEF Crash
<1>3. StandsAt(task[t])'
  BY <1>1, <1>2 DEF StandsAt, Idle, Keys
<1>4. ASSUME NEW k \in Keys PROVE KeyOK(t, k)'
  <2>1. /\ phase'[k] = Restored(rows[k]) /\ sid'[k] = rows[k].sid
        /\ awaiting'[k] = rows[k].awaiting /\ queue'[k] = <<>>
        /\ owned'[k] = (k \in Webs /\ rows[k] # NoRow)
    BY DEF Crash
  <2>2. rows[k] \in Rows /\ rows[k] = [sid |-> rows[k].sid, awaiting |-> rows[k].awaiting]
    BY DEF TypeOK, Rows
  <2>3. CASE rows[k] = NoRow
    BY <1>2, <2>1, <2>3 DEF KeyOK, Stored, RowOf, Restored, NoRow
  <2>4. CASE rows[k] # NoRow
    <3>1. rows[k].awaiting = FALSE => rows[k].sid # NoSid
      BY <2>2, <2>4 DEF NoRow
    <3>2. phase'[k] = (IF rows[k].awaiting THEN "Spawning" ELSE "Dormant")
      BY <2>1, <2>4 DEF Restored
    <3>3. Stored(k)'
      BY <1>2, <2>1, <2>2, <2>4, <3>2 DEF Stored, RowOf, Rows
    <3> QED
      BY <1>2, <2>1, <2>2, <2>4, <3>1, <3>2, <3>3 DEF KeyOK, Rows
  <2> QED
    BY <2>3, <2>4
<1>5. BoundOK(t)'
  <2>1. ASSUME NEW j \in UserKeys, NEW z \in Sids, Bound(t, j, z)' PROVE Bound(t, j, z)
    <3>1. j \in Keys
      BY DEF Keys
    <3>2. sid'[j] = rows[j].sid
      BY <3>1 DEF Crash
    <3> QED
      BY <1>1, <1>2, <2>1, <3>1, <3>2 DEF Bound, Idle
  <2> QED
    BY <1>2, <2>1, BoundKept DEF SerialInv
<1> QED
  BY <1>3, <1>4, <1>5 DEF SerialInv

LEMMA InitSerial == ASSUME Init, NEW t \in Tasks PROVE SerialInv(t)
<1>1. NoKey \notin Keys /\ NoSid \notin Sids
  BY ConstantsAssumption DEF Keys
<1>2. task[t] = Idle
  BY DEF Init
<1>3. StandsAt(task[t])
  BY <1>1, <1>2 DEF StandsAt, Idle, Keys
<1>4. ASSUME NEW k \in Keys PROVE KeyOK(t, k)
  BY DEF Init, KeyOK, Stored, RowOf
<1>5. BoundOK(t)
  BY <1>1, <1>2 DEF Init, BoundOK, Bound, Idle, NoRow, Keys
<1> QED
  BY <1>3, <1>4, <1>5 DEF SerialInv

LEMMA NextSerial ==
  ASSUME NEW t \in Tasks, Tasks = {t}, TypeOK, SerialInv(t), [Next]_vars
  PROVE  SerialInv(t)'
<1>1. TypeOK'
  BY NextType
<1>2. CASE Crash
  BY <1>1, <1>2, CrashSerial
<1>3. CASE Call(t)
  BY <1>1, <1>3, CallSerial
<1>4. CASE Step(t)
  BY <1>1, <1>4, StepSerial
<1>5. CASE UNCHANGED vars
  BY <1>5, SerialStutter DEF vars
<1> QED
  BY <1>2, <1>3, <1>4, <1>5 DEF Next

LEMMA SerialInvariant ==
  ASSUME NEW t \in Tasks, Tasks = {t} PROVE Spec => [](TypeOK /\ SerialInv(t))
<1>1. Init => TypeOK /\ SerialInv(t)
  BY InitType, InitSerial
<1>2. TypeOK /\ SerialInv(t) /\ [Next]_vars => (TypeOK /\ SerialInv(t))'
  BY NextType, NextSerial
<1> QED
  BY <1>1, <1>2, PTL DEF Spec

\* A restart finds what the map holds (persist_upsert, persist_remove, restore_rows):
\* when the calls of the daemon come one after the other, whatever they are, in any
\* order, and with a crash at any point of any of them, the row of every key is the
\* row of its mapping as soon as no call is running.
THEOREM RowsMatchMap ==
  ASSUME NEW t \in Tasks, Tasks = {t} PROVE Spec => []RowsMatch
<1>1. TypeOK /\ SerialInv(t) => RowsMatch
  <2> SUFFICES ASSUME SerialInv(t), AllIdle, NEW k \in Keys PROVE Stored(k)
    BY DEF RowsMatch, Stored
  <2> QED
    BY DEF AllIdle, SerialInv, KeyOK, Writes
<1>2. Spec => [](TypeOK /\ SerialInv(t))
  BY SerialInvariant
<1> QED
  BY <1>1, <1>2, PTL

\* A close that has returned is final (web_close_session, engine/mod.rs 2703-2740): with one
\* call at a time no resume, retry, restore or restart binds its session to a user's key.
THEOREM ClosedSessionsUnbound ==
  ASSUME NEW t \in Tasks, Tasks = {t} PROVE Spec => []ClosedStaysClosed
<1>1. TypeOK /\ SerialInv(t) => ClosedStaysClosed
  <2> SUFFICES ASSUME TypeOK, SerialInv(t), NEW k \in UserKeys, sid[k] \in closed PROVE FALSE
    BY DEF ClosedStaysClosed
  <2>1. sid[k] \in Sids /\ Bound(t, k, sid[k])
    BY DEF TypeOK, Bound
  <2> QED
    BY <2>1 DEF SerialInv, BoundOK
<1>2. Spec => [](TypeOK /\ SerialInv(t))
  BY SerialInvariant
<1> QED
  BY <1>1, <1>2, PTL

\* A queued turn starts on the session it was submitted to (pop_next_turn, state.rs
\* 624-625): with one call at a time no close, death, replacement or resume of the
\* session leaves one of its turns to the session that follows it under the same key.
THEOREM TurnsKeepTheirSession ==
  ASSUME NEW c \in Tasks, Tasks = {c} PROVE Spec => NoCrossSessionDrain
<1> DEFINE Drains == \A t \in Tasks :
             task[t].pc = "drain" /\ task'[t].pc = "idle" /\ queue[task[t].key] # <<>> =>
               crashes' # crashes \/ Head(queue[task[t].key]).for = task[t].sid
<1>1. TypeOK /\ SerialInv(c) => Drains
  <2> SUFFICES ASSUME TypeOK, SerialInv(c), task[c].pc = "drain", queue[task[c].key] # <<>>
               PROVE  Head(queue[task[c].key]).for = task[c].sid
    OBVIOUS
  <2>1. PICK k \in UserKeys : task[c].key = k /\ task[c].sid = sid[k]
    BY DEF SerialInv, StandsAt
  <2>2. k \in Keys /\ queue[k] \in Seq(Turns) /\ queue[k] # <<>>
    BY <2>1 DEF Keys, TypeOK
  <2>3. \A i \in DOMAIN queue[k] : queue[k][i].for = sid[k]
    BY <2>2, QueuedFor
  <2>4. Head(queue[k]) = queue[k][1] /\ 1 \in DOMAIN queue[k]
    BY <2>2
  <2> QED
    BY <2>1, <2>3, <2>4
<1>2. TypeOK /\ SerialInv(c) => [Drains]_vars
  BY <1>1
<1>3. Spec => [](TypeOK /\ SerialInv(c))
  BY SerialInvariant
<1> QED
  BY <1>2, <1>3, PTL DEF NoCrossSessionDrain

=============================================================================
