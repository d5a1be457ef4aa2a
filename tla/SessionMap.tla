------------------------------ MODULE SessionMap ------------------------------
(***************************************************************************)
(* The session map of the dispatch engine, sebas-dispatch/src/state.rs:    *)
(* which session a chat key is bound to, the submissions waiting for it,   *)
(* and the row of the state store that outlives the daemon.                *)
(*                                                                         *)
(* The map is shared by every task of the daemon and guarded by separate   *)
(* locks: `inner` (the mappings), `turn_queue`, the id counter and the set *)
(* of delivered ids.  An operation that takes two of them one after the    *)
(* other, or that writes the store after it released them, is split here   *)
(* at exactly those points; what runs under one lock is one action.        *)
(*                                                                         *)
(* A task runs one call of the daemon (a text, a close, a spawn, the event *)
(* pump of a session ...) at a time; task[t].pc says where in the call it  *)
(* stands.  Texts, labels, models and times are left out.                  *)
(***************************************************************************)
EXTENDS Integers, FiniteSets, SequencesExt

CONSTANTS
  Chats,       \* keys of the chat channel, which need no project directory
  Webs,        \* keys minted by the web front end
  Sids,        \* session ids; each also names the archive key closed-<hash(sid)>
  NoKey,       \* the key field of a task that has none
  NoSid,       \* the absence of a session id
  Tasks,       \* concurrent tasks of the daemon
  MaxPending,  \* MAX_PENDING, the cap of the spawn-window staging queue
  Capacity,    \* the capacity of the map
  MaxId,       \* bound: submissions numbered per key and daemon run
  MaxCrash     \* bound: crashes of the daemon

UserKeys == Chats \cup Webs
Keys == UserKeys \cup Sids

ASSUME ConstantsAssumption ==
  /\ Chats \cap Webs = {} /\ UserKeys \cap Sids = {}
  /\ NoKey \notin Keys /\ NoSid \notin Keys
  /\ MaxPending \in Nat /\ Capacity \in Nat \ {0} /\ MaxId \in Nat /\ MaxCrash \in Nat
  /\ IsFiniteSet(Keys)

VARIABLES
  phase,      \* phase[k]: the MappingState of the key, "None" when it is unmapped
  sid,        \* sid[k]: the session id of an Active or Dormant mapping
  awaiting,   \* awaiting[k]: awaiting_first_prompt of a Spawning placeholder
  owned,      \* owned[k]: the mapping has its project_dir
  staged,     \* staged[k]: ids staged on a Spawning placeholder, in order
  queue,      \* queue[k]: the turn queue
  lastId,     \* lastId[k]: the id counter
  delivered,  \* delivered[k]: ids handed to a session since the last clear
  rows,       \* rows[k]: the row of the state store
  task,       \* task[t]: the call the task is running
  minted,     \* session ids ever created
  born,       \* web keys ever minted
  fate,       \* history: fate[k][i], what became of submission i
  closed,     \* history: sessions whose close has returned
  crashes     \* bound: crashes so far

inner   == <<phase, sid, awaiting, owned>>
pending == <<staged, queue, lastId, delivered, fate>>
names   == <<minted, born, closed, crashes>>
vars    == <<phase, sid, awaiting, owned, staged, queue, lastId, delivered,
             rows, task, minted, born, fate, closed, crashes>>

Ids    == 1..MaxId
Phases == {"None", "Spawning", "Active", "Dormant", "SpawnFailed"}
Fates  == {"none", "pending", "started", "ended", "removed", "dropped"}
SidsOrNone == Sids \cup {NoSid}
Turns  == [id : Ids, prio : BOOLEAN, for : SidsOrNone]
Rows   == [sid : SidsOrNone, awaiting : BOOLEAN]
NoRow  == [sid |-> NoSid, awaiting |-> FALSE]

Pcs    == {"idle", "submit", "push", "turns", "drain", "own", "spawn", "archive",
           "activate", "build", "save", "closing", "delete", "clear", "restore"}
Calls  == [pc : Pcs,
           key  : Keys \cup {NoKey},              \* the key the call is about
           at   : Keys \cup {NoKey},              \* the key whose row it writes
           sid  : SidsOrNone,                     \* the session it read or created
           old  : SidsOrNone,                     \* the session it resumes or closes
           id   : Nat, to : Nat, prio : BOOLEAN,  \* the submission, where it moves
           row  : Rows,                           \* the row built and not yet saved
           next : {"idle", "spawn", "activate"}]  \* what follows the write
\* What a call has read or been given by the time it stands at its pc.
CallOK(c) ==
  /\ c.pc # "idle" => c.key \in Keys
  /\ c.pc \in {"build", "save", "delete", "clear"} => c.at \in Keys
  /\ c.pc \in {"push", "turns"} => c.id \in Ids
  /\ c.pc \in {"archive", "restore"} => c.old \in Sids
  /\ c.pc = "own" => c.at = c.key
  /\ c.next # "idle" => c.key \in Keys
RunningCalls == {c \in Calls : CallOK(c)}
Idle   == [pc |-> "idle", key |-> NoKey, at |-> NoKey, sid |-> NoSid, old |-> NoSid,
           id |-> 0, to |-> 0, prio |-> FALSE, row |-> NoRow, next |-> "idle"]

-----------------------------------------------------------------------------
(* Reading the map *)

Mapped        == {k \in Keys : phase[k] # "None"}
HasRoom       == Cardinality(Mapped) < Capacity
ActiveKeys(s) == {k \in Keys : phase[k] = "Active" /\ sid[k] = s}

StagedIds(k)  == {staged[k][i] : i \in DOMAIN staged[k]}
QueuedIds(k)  == {queue[k][i].id : i \in DOMAIN queue[k]}
Pushing(t, k) == task[t].pc = "push" /\ task[t].key = k
PushingIds(k) == {task[t].id : t \in {u \in Tasks : Pushing(u, k)}}
PendingIds(k) == StagedIds(k) \cup QueuedIds(k) \cup PushingIds(k)
Place(q, i)   == CHOOSE p \in DOMAIN q : q[p].id = i
PrioCount(q)  == Cardinality({p \in DOMAIN q : q[p].prio})

\* session_map_row: what a mapping is stored as; NoRow when it must not be stored.
RowOf(k) ==
  IF \/ phase[k] \in {"None", "SpawnFailed"}
     \/ phase[k] = "Spawning" /\ ~awaiting[k]
     \/ k \in Webs /\ ~owned[k]
  THEN NoRow
  ELSE [sid |-> sid[k], awaiting |-> phase[k] = "Spawning"]

(* Writing it *)

Bind(k, ph, s, aw) ==
  /\ phase' = [phase EXCEPT ![k] = ph]
  /\ sid' = [sid EXCEPT ![k] = s]
  /\ awaiting' = [awaiting EXCEPT ![k] = aw]

\* The submissions `ids` of k are settled, all with the same fate.
Settled(k, ids, f) == [fate EXCEPT ![k] = [i \in Ids |-> IF i \in ids THEN f ELSE @[i]]]

\* The staging queue goes with the mapping it belongs to.
DropStaged(k) ==
  /\ staged' = [staged EXCEPT ![k] = <<>>]
  /\ fate' = Settled(k, StagedIds(k), "dropped")

\* clear_queue: the queued turns are dropped, the delivered ids forgotten.
ClearQueue(k) ==
  /\ queue' = [queue EXCEPT ![k] = <<>>]
  /\ delivered' = [delivered EXCEPT ![k] = {}]
  /\ fate' = [fate EXCEPT ![k] = [i \in Ids |->
       IF i \in QueuedIds(k) THEN "dropped" ELSE IF i \in delivered[k] THEN "ended" ELSE @[i]]]

Goto(t, call)   == task' = [task EXCEPT ![t] = call]
SpawnCall(k, s) == [Idle EXCEPT !.pc = "spawn", !.key = k, !.old = s]
UpsertCall(k)   == [Idle EXCEPT !.pc = "build", !.key = k, !.at = k]
Proceed(t)      == IF task[t].next = "idle" THEN Idle
                   ELSE [task[t] EXCEPT !.pc = task[t].next, !.next = "idle"]

-----------------------------------------------------------------------------
(* Routing a text, and focusing a session (route_text, route_activate) *)

\* An unknown key: a placeholder, and a spawn.  Also begin_spawn's Fresh arm.
RouteNew(t, k) ==
  /\ task[t].pc = "idle" /\ phase[k] = "None" /\ HasRoom
  /\ k \in Chats \cup born
  /\ Bind(k, "Spawning", NoSid, FALSE)
  /\ Goto(t, SpawnCall(k, NoSid))
  /\ UNCHANGED <<owned, pending, rows, names>>

\* Active: the text goes to submit_turn with the session id read here.
RouteContinue(t, k) ==
  /\ task[t].pc = "idle" /\ phase[k] = "Active"
  /\ Goto(t, [Idle EXCEPT !.pc = "submit", !.key = k, !.sid = sid[k]])
  /\ UNCHANGED <<inner, pending, rows, names>>

\* Dormant: the mapping is claimed for a resume of its session.
RouteClaim(t, k) ==
  /\ task[t].pc = "idle" /\ phase[k] = "Dormant"
  /\ Bind(k, "Spawning", NoSid, FALSE)
  /\ Goto(t, SpawnCall(k, sid[k]))
  /\ UNCHANGED <<owned, pending, rows, names>>

\* Mutant: the retry marks the mapping and starts no spawn.
RouteRetryNothing(t, k) ==
  /\ task[t].pc = "idle" /\ phase[k] = "SpawnFailed"
  /\ Bind(k, "Spawning", NoSid, FALSE)
  /\ UNCHANGED <<owned, pending, rows, task, names>>

\* SpawnFailed: a new message is the user's retry.
RouteRetry(t, k) ==
  /\ task[t].pc = "idle" /\ phase[k] = "SpawnFailed"
  /\ Bind(k, "Spawning", NoSid, FALSE)
  /\ Goto(t, SpawnCall(k, NoSid))
  /\ UNCHANGED <<owned, pending, rows, names>>

\* A 0-turn placeholder: the first message consumes its marker.
RouteFirst(t, k) ==
  /\ task[t].pc = "idle" /\ phase[k] = "Spawning" /\ awaiting[k]
  /\ Bind(k, "Spawning", NoSid, FALSE)
  /\ DropStaged(k)
  /\ Goto(t, SpawnCall(k, NoSid))
  /\ UNCHANGED <<owned, queue, lastId, delivered, rows, names>>

\* The same placeholder focused instead of written to: what is staged stays.
ActivatePlaceholder(t, k) ==
  /\ task[t].pc = "idle" /\ phase[k] = "Spawning" /\ awaiting[k]
  /\ Bind(k, "Spawning", NoSid, FALSE)
  /\ Goto(t, SpawnCall(k, NoSid))
  /\ UNCHANGED <<owned, pending, rows, names>>

\* Mutant: the cap is checked with <=.
RouteStageOverCap(t, k) ==
  /\ task[t].pc = "idle" /\ phase[k] = "Spawning" /\ ~awaiting[k]
  /\ Len(staged[k]) <= MaxPending /\ lastId[k] < MaxId
  /\ lastId' = [lastId EXCEPT ![k] = @ + 1]
  /\ staged' = [staged EXCEPT ![k] = Append(@, lastId[k] + 1)]
  /\ fate' = Settled(k, {lastId[k] + 1}, "pending")
  /\ UNCHANGED <<inner, queue, delivered, rows, task, names>>

\* A spawn in flight: the text is staged under a fresh id, below the cap.
RouteStage(t, k) ==
  /\ task[t].pc = "idle" /\ phase[k] = "Spawning" /\ ~awaiting[k]
  /\ Len(staged[k]) < MaxPending /\ lastId[k] < MaxId
  /\ lastId' = [lastId EXCEPT ![k] = @ + 1]
  /\ staged' = [staged EXCEPT ![k] = Append(@, lastId[k] + 1)]
  /\ fate' = Settled(k, {lastId[k] + 1}, "pending")
  /\ UNCHANGED <<inner, queue, delivered, rows, task, names>>

\* Mutant: the replaced session's queue is left for the new one.
BeginSpawnKeepsQueue(t, k) ==
  /\ task[t].pc = "idle" /\ k \in Chats
  /\ phase[k] \in {"Active", "Dormant", "SpawnFailed"}
  /\ Bind(k, "Spawning", NoSid, FALSE)
  /\ Goto(t, SpawnCall(k, NoSid))
  /\ UNCHANGED <<owned, pending, rows, names>>

\* `/new` over a mapping that is not Spawning: it is replaced.
BeginSpawn(t, k) ==
  /\ task[t].pc = "idle" /\ k \in Chats
  /\ phase[k] \in {"Active", "Dormant", "SpawnFailed"}
  /\ ClearQueue(k)
  /\ Bind(k, "Spawning", NoSid, FALSE)
  /\ Goto(t, SpawnCall(k, NoSid))
  /\ UNCHANGED <<owned, staged, lastId, rows, names>>

\* begin_spawn_with on a key just minted, with or without a first prompt; the
\* upsert it ends with stores nothing, as the mapping has no project yet.
CreateWeb(t, k, aw) ==
  /\ task[t].pc = "idle" /\ k \in Webs \ born /\ phase[k] = "None" /\ HasRoom
  /\ born' = born \cup {k}
  /\ Bind(k, "Spawning", NoSid, aw)
  /\ Goto(t, [Idle EXCEPT !.pc = "own", !.key = k, !.at = k,
                          !.next = IF aw THEN "idle" ELSE "spawn"])
  /\ UNCHANGED <<owned, pending, rows, minted, closed, crashes>>

\* set_project_dir, and then the upsert, unless the mapping is gone.
SetProject(t) ==
  LET k == task[t].key IN
  /\ task[t].pc = "own"
  /\ owned' = [owned EXCEPT ![k] = phase[k] # "None"]
  /\ Goto(t, IF phase[k] = "None" THEN Proceed(t) ELSE [task[t] EXCEPT !.pc = "build"])
  /\ UNCHANGED <<phase, sid, awaiting, pending, rows, names>>

\* The other setters (label, model, mode): they change data left out, and upsert.
SetField(t, k) ==
  /\ task[t].pc = "idle" /\ phase[k] # "None"
  /\ Goto(t, UpsertCall(k))
  /\ UNCHANGED <<inner, pending, rows, names>>

-----------------------------------------------------------------------------
(* The spawn task *)

\* The agent child is up under a new session id; a resume fell back to it.
SpawnFresh(t, s) ==
  /\ task[t].pc = "spawn" /\ s \in Sids \ minted
  /\ minted' = minted \cup {s}
  /\ Goto(t, [task[t] EXCEPT !.sid = s,
                             !.pc = IF task[t].old = NoSid THEN "activate" ELSE "archive"])
  /\ UNCHANGED <<inner, pending, rows, born, closed, crashes>>

\* The agent loaded the old conversation: it keeps its session id.
SpawnResumed(t) ==
  /\ task[t].pc = "spawn" /\ task[t].old # NoSid
  /\ Goto(t, [task[t] EXCEPT !.sid = task[t].old, !.pc = "activate"])
  /\ UNCHANGED <<inner, pending, rows, names>>

\* fail_spawn: a placeholder turns SpawnFailed; no other mapping is touched.
FailSpawn(t) ==
  LET k == task[t].key IN
  /\ task[t].pc \in {"spawn", "activate"}
  /\ Goto(t, Idle)
  /\ IF phase[k] = "Spawning"
     THEN Bind(k, "SpawnFailed", NoSid, FALSE) /\ DropStaged(k)
     ELSE UNCHANGED <<phase, sid, awaiting, staged, fate>>
  /\ UNCHANGED <<owned, queue, lastId, delivered, rows, names>>

\* preserve_closed_mapping: the session that would not load keeps a record.
PreserveClosed(t) ==
  LET a == task[t].old
      upsert == [task[t] EXCEPT !.pc = "build", !.at = a, !.next = "activate"] IN
  /\ task[t].pc = "archive"
  /\ IF phase[a] = "None" /\ HasRoom
     THEN Bind(a, "Dormant", a, FALSE)
     ELSE UNCHANGED <<phase, sid, awaiting>>
  /\ Goto(t, IF phase[a] = "None" /\ ~HasRoom
             THEN [task[t] EXCEPT !.pc = "activate"] ELSE upsert)
  /\ UNCHANGED <<owned, pending, rows, names>>

\* Mutant: the activated session is not stored.
ActivateUnsaved(t) ==
  LET k == task[t].key IN
  /\ task[t].pc = "activate"
  /\ Bind(k, "Active", task[t].sid, FALSE)
  /\ owned' = [owned EXCEPT ![k] = @ /\ phase[k] # "None"]
  /\ delivered' = [delivered EXCEPT ![k] = @ \cup StagedIds(k)]
  /\ fate' = Settled(k, StagedIds(k), "started")
  /\ staged' = [staged EXCEPT ![k] = <<>>]
  /\ Goto(t, Idle)
  /\ UNCHANGED <<queue, lastId, rows, names>>

\* activate: the mapping turns Active whatever it was; what was staged is handed
\* to the session.  A mapping that is gone is inserted again.
Activate(t) ==
  LET k == task[t].key IN
  /\ task[t].pc = "activate"
  /\ Bind(k, "Active", task[t].sid, FALSE)
  /\ owned' = [owned EXCEPT ![k] = @ /\ phase[k] # "None"]
  /\ delivered' = [delivered EXCEPT ![k] = @ \cup StagedIds(k)]
  /\ fate' = Settled(k, StagedIds(k), "started")
  /\ staged' = [staged EXCEPT ![k] = <<>>]
  /\ Goto(t, UpsertCall(k))
  /\ UNCHANGED <<queue, lastId, rows, names>>

-----------------------------------------------------------------------------
(* The turn queue *)

\* submit_turn found no turn in flight: the text starts one, without queueing.
SubmitDirect(t) ==
  /\ task[t].pc = "submit"
  /\ Goto(t, Idle)
  /\ UNCHANGED <<inner, pending, rows, names>>

\* Mutant: the id is read from the counter, which is not advanced with it.
EnqueueAllocStale(t, prio) ==
  LET k == task[t].key IN
  /\ task[t].pc = "submit" /\ lastId[k] < MaxId /\ lastId[k] > 0
  /\ fate' = Settled(k, {lastId[k]}, "pending")
  /\ Goto(t, [task[t] EXCEPT !.pc = "push", !.id = lastId[k], !.prio = prio])
  /\ UNCHANGED <<inner, staged, queue, lastId, delivered, rows, names>>

\* enqueue_turn: the id first, the queue after, each under its own lock.
EnqueueAlloc(t, prio) ==
  LET k == task[t].key IN
  /\ task[t].pc = "submit" /\ lastId[k] < MaxId
  /\ lastId' = [lastId EXCEPT ![k] = @ + 1]
  /\ fate' = Settled(k, {lastId[k] + 1}, "pending")
  /\ Goto(t, [task[t] EXCEPT !.pc = "push", !.id = lastId[k] + 1, !.prio = prio])
  /\ UNCHANGED <<inner, staged, queue, delivered, rows, names>>

EnqueuePush(t) ==
  LET k == task[t].key
      turn == [id |-> task[t].id, prio |-> task[t].prio, for |-> task[t].sid] IN
  /\ task[t].pc = "push"
  /\ queue' = [queue EXCEPT ![k] = IF turn.prio THEN <<turn>> \o @ ELSE Append(@, turn)]
  /\ Goto(t, Idle)
  /\ UNCHANGED <<inner, staged, lastId, delivered, fate, rows, names>>

\* The pump of a session saw its turn end and looks up the key to drain.
DrainLookup(t, k) ==
  /\ task[t].pc = "idle" /\ phase[k] = "Active"
  /\ Goto(t, [Idle EXCEPT !.pc = "drain", !.key = k, !.sid = sid[k]])
  /\ UNCHANGED <<inner, pending, rows, names>>

\* Mutant: the popped id is not recorded as delivered.
PopNextUnrecorded(t) ==
  LET k == task[t].key IN
  /\ task[t].pc = "drain" /\ queue[k] # <<>>
  /\ Goto(t, Idle)
  /\ queue' = [queue EXCEPT ![k] = Tail(@)]
  /\ fate' = Settled(k, {Head(queue[k]).id}, "started")
  /\ UNCHANGED <<inner, staged, lastId, delivered, rows, names>>

\* pop_next_turn, for the session the pump belongs to.
PopNext(t) ==
  LET k == task[t].key IN
  /\ task[t].pc = "drain"
  /\ Goto(t, Idle)
  /\ IF queue[k] = <<>>
     THEN UNCHANGED <<queue, delivered, fate>>
     ELSE /\ queue' = [queue EXCEPT ![k] = Tail(@)]
          /\ delivered' = [delivered EXCEPT ![k] = @ \cup {Head(queue[k]).id}]
          /\ fate' = Settled(k, {Head(queue[k]).id}, "started")
  /\ UNCHANGED <<inner, staged, lastId, rows, names>>

\* remove_pending and move_pending (n > 0: to place n) look at the staging queue
\* under `inner` first; a client names an id it was shown.
RemoveStaged(t, k, i) ==
  LET p == CHOOSE q \in DOMAIN staged[k] : staged[k][q] = i IN
  /\ task[t].pc = "idle" /\ fate[k][i] # "none" /\ i \notin PushingIds(k)
  /\ IF i \in StagedIds(k)
     THEN /\ staged' = [staged EXCEPT ![k] = RemoveAt(@, p)]
          /\ fate' = Settled(k, {i}, "removed")
          /\ UNCHANGED task
     ELSE /\ Goto(t, [Idle EXCEPT !.pc = "turns", !.key = k, !.id = i])
          /\ UNCHANGED <<staged, fate>>
  /\ UNCHANGED <<inner, queue, lastId, delivered, rows, names>>

MoveStaged(t, k, i, n) ==
  LET p == CHOOSE q \in DOMAIN staged[k] : staged[k][q] = i IN
  /\ task[t].pc = "idle" /\ fate[k][i] # "none" /\ i \notin PushingIds(k)
  /\ IF i \in StagedIds(k)
     THEN /\ n <= Len(staged[k])
          /\ staged' = [staged EXCEPT ![k] = InsertAt(RemoveAt(@, p), n, i)]
          /\ UNCHANGED task
     ELSE /\ Goto(t, [Idle EXCEPT !.pc = "turns", !.key = k, !.id = i, !.to = n])
          /\ UNCHANGED staged
  /\ UNCHANGED <<inner, queue, lastId, delivered, fate, rows, names>>

\* ... and at the turn queue afterwards.  An id in neither is refused.
RemoveQueued(t) ==
  LET k == task[t].key
      i == task[t].id IN
  /\ task[t].pc = "turns" /\ task[t].to = 0
  /\ Goto(t, Idle)
  /\ IF i \in QueuedIds(k)
     THEN /\ queue' = [queue EXCEPT ![k] = RemoveAt(@, Place(@, i))]
          /\ fate' = Settled(k, {i}, "removed")
     ELSE UNCHANGED <<queue, fate>>
  /\ UNCHANGED <<inner, staged, lastId, delivered, rows, names>>

\* A move that would break the prefix of the priority turns is refused.
MayMoveTo(rest, turn, n) ==
  IF turn.prio THEN n - 1 <= PrioCount(rest) ELSE n - 1 >= PrioCount(rest)

MoveQueued(t) ==
  LET k == task[t].key
      i == task[t].id
      n == task[t].to
      turn == queue[k][Place(queue[k], i)]
      rest == RemoveAt(queue[k], Place(queue[k], i)) IN
  /\ task[t].pc = "turns" /\ n > 0
  /\ Goto(t, Idle)
  /\ IF i \in QueuedIds(k) /\ n <= Len(queue[k]) /\ MayMoveTo(rest, turn, n)
     THEN queue' = [queue EXCEPT ![k] = InsertAt(rest, n, turn)]
     ELSE UNCHANGED queue
  /\ UNCHANGED <<inner, staged, lastId, delivered, fate, rows, names>>

-----------------------------------------------------------------------------
(* The end of a session *)

\* retire_to_record: the child of an Active session died.
Retire(t, k) ==
  /\ task[t].pc = "idle" /\ phase[k] = "Active"
  /\ phase' = [phase EXCEPT ![k] = "Dormant"]
  /\ ClearQueue(k)
  /\ Goto(t, UpsertCall(k))
  /\ UNCHANGED <<sid, awaiting, owned, staged, lastId, rows, names>>

\* web_close_session reads the mapping, kills the child, and only then removes.
CloseRead(t, k) ==
  /\ task[t].pc = "idle" /\ phase[k] # "None"
  /\ Goto(t, [Idle EXCEPT !.pc = "closing", !.key = k, !.old = sid[k],
                          !.sid = IF phase[k] = "Active" THEN sid[k] ELSE NoSid])
  /\ UNCHANGED <<inner, pending, rows, names>>

\* remove_by_session finds an Active mapping only; remove_by_key any mapping.
Doomed(t) == IF task[t].sid # NoSid THEN ActiveKeys(task[t].sid) ELSE {task[t].key} \cap Mapped

CloseRemove(t, k) ==
  /\ task[t].pc = "closing" /\ k \in Doomed(t)
  /\ Bind(k, "None", NoSid, FALSE)
  /\ owned' = [owned EXCEPT ![k] = FALSE]
  /\ DropStaged(k)
  /\ Goto(t, [task[t] EXCEPT !.pc = "delete", !.at = k])
  /\ UNCHANGED <<queue, lastId, delivered, rows, names>>

CloseNothing(t) ==
  /\ task[t].pc = "closing" /\ Doomed(t) = {}
  /\ closed' = closed \cup ({task[t].old} \ {NoSid})
  /\ Goto(t, Idle)
  /\ UNCHANGED <<inner, pending, rows, minted, born, crashes>>

CloseClear(t) ==
  /\ task[t].pc = "clear"
  /\ ClearQueue(task[t].at)
  /\ closed' = closed \cup ({task[t].old} \ {NoSid})
  /\ Goto(t, Idle)
  /\ UNCHANGED <<inner, staged, lastId, rows, minted, born, crashes>>

\* web_restore_session: an archived session comes back; the check that the key is
\* free and the insert are two critical sections.
RestoreRead(t, k, s) ==
  /\ task[t].pc = "idle" /\ k \in born /\ s \in closed /\ phase[k] = "None"
  /\ Goto(t, [Idle EXCEPT !.pc = "restore", !.key = k, !.old = s])
  /\ UNCHANGED <<inner, pending, rows, names>>

RestoreInsert(t) ==
  LET k == task[t].key IN
  /\ task[t].pc = "restore"
  /\ IF phase[k] # "None" \/ HasRoom
     THEN /\ Bind(k, "Dormant", task[t].old, FALSE)
          /\ owned' = [owned EXCEPT ![k] = TRUE]
          /\ DropStaged(k)
          /\ closed' = closed \ {task[t].old}
          /\ Goto(t, UpsertCall(k))
     ELSE Goto(t, Idle) /\ UNCHANGED <<inner, staged, fate, closed>>
  /\ UNCHANGED <<queue, lastId, delivered, rows, minted, born, crashes>>

-----------------------------------------------------------------------------
(* The store *)

\* persist_upsert: the row is built under the read lock and saved after it.
BuildRow(t) ==
  /\ task[t].pc = "build"
  /\ Goto(t, IF RowOf(task[t].at) = NoRow THEN Proceed(t)
             ELSE [task[t] EXCEPT !.pc = "save", !.row = RowOf(task[t].at)])
  /\ UNCHANGED <<inner, pending, rows, names>>

SaveRow(t) ==
  /\ task[t].pc = "save"
  /\ rows' = [rows EXCEPT ![task[t].at] = task[t].row]
  /\ Goto(t, [Proceed(t) EXCEPT !.row = NoRow])
  /\ UNCHANGED <<inner, pending, names>>

\* Mutant: the row outlives the mapping.
DeleteRowNot(t) ==
  /\ task[t].pc = "delete"
  /\ Goto(t, [task[t] EXCEPT !.pc = "clear"])
  /\ UNCHANGED <<inner, pending, rows, names>>

\* persist_remove, after the mapping is gone and before its queue is cleared.
DeleteRow(t) ==
  /\ task[t].pc = "delete"
  /\ rows' = [rows EXCEPT ![task[t].at] = NoRow]
  /\ Goto(t, [task[t] EXCEPT !.pc = "clear"])
  /\ UNCHANGED <<inner, pending, names>>

\* The daemon dies; the next one starts from the rows alone (restore_rows).
Restored(row) == IF row = NoRow THEN "None" ELSE IF row.awaiting THEN "Spawning" ELSE "Dormant"

Crash ==
  /\ crashes < MaxCrash /\ crashes' = crashes + 1
  /\ phase' = [k \in Keys |-> Restored(rows[k])]
  /\ sid' = [k \in Keys |-> rows[k].sid]
  /\ awaiting' = [k \in Keys |-> rows[k].awaiting]
  /\ owned' = [k \in Keys |-> k \in Webs /\ rows[k] # NoRow]
  /\ staged' = [k \in Keys |-> <<>>]
  /\ queue' = [k \in Keys |-> <<>>]
  /\ lastId' = [k \in Keys |-> 0]
  /\ delivered' = [k \in Keys |-> {}]
  /\ fate' = [k \in Keys |-> [i \in Ids |-> "none"]]
  /\ task' = [t \in Tasks |-> Idle]
  /\ UNCHANGED <<rows, minted, born, closed>>

-----------------------------------------------------------------------------

Init ==
  /\ phase = [k \in Keys |-> "None"]
  /\ sid = [k \in Keys |-> NoSid]
  /\ awaiting = [k \in Keys |-> FALSE]
  /\ owned = [k \in Keys |-> FALSE]
  /\ staged = [k \in Keys |-> <<>>]
  /\ queue = [k \in Keys |-> <<>>]
  /\ lastId = [k \in Keys |-> 0]
  /\ delivered = [k \in Keys |-> {}]
  /\ fate = [k \in Keys |-> [i \in Ids |-> "none"]]
  /\ rows = [k \in Keys |-> NoRow]
  /\ task = [t \in Tasks |-> Idle]
  /\ minted = {} /\ born = {} /\ closed = {} /\ crashes = 0

\* What a caller may start on a task that is free.
Call(t) ==
  \E k \in UserKeys :
    \/ RouteNew(t, k) \/ RouteContinue(t, k) \/ RouteClaim(t, k) \/ RouteRetry(t, k)
    \/ RouteFirst(t, k) \/ ActivatePlaceholder(t, k) \/ RouteStage(t, k) \/ BeginSpawn(t, k)
    \/ \E aw \in BOOLEAN : CreateWeb(t, k, aw)
    \/ SetField(t, k) \/ DrainLookup(t, k) \/ Retire(t, k) \/ CloseRead(t, k)
    \/ \E s \in Sids : RestoreRead(t, k, s)
    \/ \E i \in Ids : RemoveStaged(t, k, i) \/ \E n \in Ids : MoveStaged(t, k, i, n)

\* What the task does next in a call it has started.
Step(t) ==
  \/ SetProject(t) \/ (\E s \in Sids : SpawnFresh(t, s)) \/ SpawnResumed(t) \/ FailSpawn(t)
  \/ PreserveClosed(t) \/ Activate(t)
  \/ SubmitDirect(t) \/ (\E prio \in BOOLEAN : EnqueueAlloc(t, prio)) \/ EnqueuePush(t)
  \/ PopNext(t) \/ RemoveQueued(t) \/ MoveQueued(t)
  \/ (\E k \in Keys : CloseRemove(t, k)) \/ CloseNothing(t) \/ CloseClear(t)
  \/ RestoreInsert(t) \/ BuildRow(t) \/ SaveRow(t) \/ DeleteRow(t)

Next == Crash \/ \E t \in Tasks : Call(t) \/ Step(t)

Spec == Init /\ [][Next]_vars

-----------------------------------------------------------------------------
(* Properties *)

\* Every variable holds a value of its type (the structs of state.rs 13-103, 443-456),
\* and the staging queue, which only an in-flight placeholder has, keeps to its cap.
TypeOK ==
  /\ phase \in [Keys -> Phases]
  /\ sid \in [Keys -> SidsOrNone]
  /\ awaiting \in [Keys -> BOOLEAN] /\ owned \in [Keys -> BOOLEAN]
  /\ staged \in [Keys -> Seq(Ids)] /\ queue \in [Keys -> Seq(Turns)]
  /\ \A k \in Keys : /\ Len(staged[k]) <= MaxPending
                     /\ staged[k] # <<>> => phase[k] = "Spawning" /\ ~awaiting[k]
  /\ lastId \in [Keys -> 0..MaxId] /\ delivered \in [Keys -> SUBSET Ids]
  /\ rows \in [Keys -> Rows] /\ task \in [Tasks -> RunningCalls]
  /\ minted \subseteq Sids /\ born \subseteq Webs /\ closed \subseteq Sids
  /\ fate \in [Keys -> [Ids -> Fates]] /\ crashes \in 0..MaxCrash

\* No submission is lost or doubled, whatever the interleaving of spawns, drains, moves,
\* removals and teardowns: the ids given out are 1..lastId, those not yet settled are
\* exactly those staged, queued, or about to be pushed...
OutstandingPlaced ==
  \A k \in Keys :
    /\ {i \in Ids : fate[k][i] # "none"} = 1..lastId[k]
    /\ {i \in Ids : fate[k][i] = "pending"} = PendingIds(k)

\* ... and each of them waits in one place, once (state.rs 449-451: the two queues draw
\* from one counter whose lock is held with neither of theirs).
OncePlaced ==
  \A k \in Keys :
    /\ \A p, q \in DOMAIN staged[k] : staged[k][p] = staged[k][q] => p = q
    /\ \A p, q \in DOMAIN queue[k] : queue[k][p].id = queue[k][q].id => p = q
    /\ \A t, u \in Tasks : Pushing(t, k) /\ Pushing(u, k) /\ task[t].id = task[u].id => t = u
    /\ StagedIds(k) \cap QueuedIds(k) = {}
    /\ PushingIds(k) \cap (StagedIds(k) \cup QueuedIds(k)) = {}

\* The priority turns are a prefix of the queue after any mix of enqueues, moves,
\* removals and pops (state.rs 1277, "turn 组维持「优先项构成前缀」不变量").
PriorityPrefix ==
  \A k \in Keys : \A i, j \in DOMAIN queue[k] :
    i < j /\ queue[k][j].prio => queue[k][i].prio

\* No submission is lost, doubled, or put before one that takes precedence.
Accounted == OutstandingPlaced /\ OncePlaced /\ PriorityPrefix

\* A submission is settled once: no later operation on the key starts a turn a
\* second time, or starts one its user removed or was told was dropped.
SettledOnce ==
  [][\A k \in Keys, i \in Ids :
       fate[k][i] # fate'[k][i] /\ crashes' = crashes =>
         \/ fate[k][i] = "none" /\ fate'[k][i] = "pending"
         \/ fate[k][i] = "pending" /\ fate'[k][i] \in {"started", "removed", "dropped"}
         \/ fate[k][i] = "started" /\ fate'[k][i] = "ended"]_vars

\* A remove or move that finds nothing in either of its two critical sections
\* answers AlreadyStarted or Unknown from `delivered` (state.rs 1262-1271), and
\* that answer is the truth: the submission is not waiting somewhere else, and
\* one that a live session has started is never called unknown.
AnswerIsTrue ==
  \A t \in Tasks :
    task[t].pc = "turns" =>
      LET k == task[t].key
          i == task[t].id IN
      i \notin QueuedIds(k) => /\ fate[k][i] # "pending"
                              /\ (fate[k][i] = "started") <=> (i \in delivered[k])

\* A placeholder whose spawn is said to be in flight has a task that will turn it
\* Active or SpawnFailed, across closes, retries and restarts: no key is stuck in
\* Spawning, staging texts that nothing will ever drain.
SpawnHasTask ==
  \A k \in Keys :
    phase[k] = "Spawning" /\ ~awaiting[k] =>
      \E t \in Tasks :
        /\ task[t].key = k
        /\ task[t].pc \in {"spawn", "archive", "activate"} \/ task[t].next \in {"spawn", "activate"}

\* Once no call is running, what a restart would restore is what the map holds: a
\* session under its id, a 0-turn placeholder as one, and nothing for a key that
\* was closed.  In-flight and failed spawns keep the row from before.
AllIdle == \A t \in Tasks : task[t].pc = "idle"
RowsMatch ==
  AllIdle =>
    \A k \in Keys :
      phase[k] \in {"None", "Active", "Dormant"} \/ awaiting[k] => rows[k] = RowOf(k)

\* A queued turn is started on the session it was submitted to (state.rs 624-625,
\* "queued turns from the old session must not drain into the new one").
NoCrossSessionDrain ==
  [][\A t \in Tasks :
       task[t].pc = "drain" /\ task'[t].pc = "idle" /\ queue[task[t].key] # <<>> =>
         crashes' # crashes \/ Head(queue[task[t].key]).for = task[t].sid]_vars

\* A session whose close has returned is bound to no user's key any more.
ClosedStaysClosed == \A k \in UserKeys : phase[k] # "None" => sid[k] \notin closed

=============================================================================
