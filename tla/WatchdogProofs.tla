---------------------------- MODULE WatchdogProofs ----------------------------
(***************************************************************************)
(* Proofs about Watchdog, for every set of services and every value of the *)
(* limits.                                                                 *)
(***************************************************************************)
EXTENDS Watchdog, TLAPS

-----------------------------------------------------------------------------
(* The inductive invariant *)

\* The task has a child while it stands at the select!, and only then; the child it
\* has started is not reported as settled, and a disabled service is reported stopped.
ChildInv(s) ==
  /\ loop[s] = "up" <=> alive[s] # "none"
  /\ loop[s] = "up" => ~Settled(s)
  /\ loop[s] = "off" => snap[s].state = "Stopped"

\* The failed starts counted are among those that failed in a row, a task that goes
\* on has not counted MaxFails of them, and one that has given up has seen them all.
CountInv(s) ==
  /\ fails[s] <= streak[s]
  /\ loop[s] # "ended" => fails[s] < MaxFails \/ loop[s] = "killed"
  /\ loop[s] = "ended" /\ snap[s].state = "FailedStartup" => streak[s] = MaxFails

\* The parts of TypeOK that a step of a supervision task has to keep.
TaskType ==
  /\ loop \in [Services -> Loops] /\ desired \in [Services -> {"on", "off"}]
  /\ alive \in [Services -> {"none", "up", "dead", "dead75"}]
  /\ signal \in [Services -> BOOLEAN] /\ ready \in [Services -> BOOLEAN]
  /\ upgraded \in [Services -> BOOLEAN] /\ wanted \in [Services -> {"on", "off"}]
MailType ==
  /\ mail \in [Services -> Seq(Commands)] /\ \A s \in Services : Len(mail[s]) <= MailCap
CountType ==
  /\ fails \in [Services -> 0..MaxFails] /\ crashes \in [Services -> 0..MaxCrashes]
  /\ late \in [Services -> SUBSET Windows] /\ streak \in [Services -> 0..MaxFails]
DaemonType ==
  /\ op \in {"idle", "update", "rollback", "restart"}
  /\ binary \in {"initial", "new", "ready", "proven", "restored"} /\ since \in BOOLEAN
  /\ event \in BOOLEAN /\ main \in {"parked", "closing", "exited"} /\ untold \subseteq Services

Inv == /\ TypeOK
       /\ \A s \in Services : ChildInv(s) /\ CountInv(s)

-----------------------------------------------------------------------------

LEMMA TypeParts ==
  /\ TypeOK <=> /\ TaskType /\ MailType /\ CountType /\ DaemonType
               /\ snap \in [Services -> Snaps]
  /\ TypeOK' <=> /\ TaskType' /\ MailType' /\ CountType' /\ DaemonType'
                /\ snap' \in [Services -> Snaps]
  BY DEF TypeOK, TaskType, MailType, CountType, DaemonType

\* A service whose task stands where it stood, with the same child, state and counts.
LEMMA Frame ==
  ASSUME Inv, NEW t \in Services,
         loop'[t] = loop[t], alive'[t] = alive[t], snap'[t].state = snap[t].state,
         fails'[t] = fails[t], streak'[t] = streak[t]
  PROVE  ChildInv(t)' /\ CountInv(t)'
  BY DEF Inv, ChildInv, CountInv, Settled

LEMMA ReceiveType ==
  ASSUME MailType, NEW s \in Services, mail[s] # <<>>, Receive(s)
  PROVE  MailType'
<1>1. Tail(mail[s]) \in Seq(Commands) /\ Len(Tail(mail[s])) = Len(mail[s]) - 1
  BY DEF MailType
<1>2. mail' \in [Services -> Seq(Commands)]
  BY <1>1 DEF MailType, Receive
<1>3. ASSUME NEW t \in Services PROVE Len(mail'[t]) <= MailCap
  BY <1>1, <1>3, WatchdogAssumption DEF MailType, Receive
<1> QED
  BY <1>2, <1>3 DEF MailType

LEMMA SendType ==
  ASSUME MailType, NEW s \in Services, NEW c \in Commands, Send(s, c)
  PROVE  MailType'
<1>1. Append(mail[s], c) \in Seq(Commands) /\ Len(Append(mail[s], c)) = Len(mail[s]) + 1
  BY DEF MailType
<1>2. mail' \in [Services -> Seq(Commands)]
  BY <1>1 DEF MailType, Send
<1>3. ASSUME NEW t \in Services PROVE Len(mail'[t]) <= MailCap
  BY <1>1, <1>3, WatchdogAssumption DEF MailType, Send, HasRoom
<1> QED
  BY <1>2, <1>3 DEF MailType

LEMMA SnapType ==
  ASSUME snap \in [Services -> Snaps], NEW s \in Services, NEW r \in Snaps, Snap(s, r)
  PROVE  snap' \in [Services -> Snaps]
  BY DEF Snap

LEMMA LimitFacts == 0 \in 0..MaxFails /\ 1 \in 0..MaxFails /\ 0 \in 0..MaxCrashes
  BY WatchdogAssumption

\* A task that goes on can count one more failed start without passing the limit.
LEMMA FailedType ==
  ASSUME CountType, NEW s \in Services, CountInv(s), loop[s] \notin {"ended", "killed"}
  PROVE  Failed(s) \in 0..MaxFails
  BY WatchdogAssumption DEF CountType, CountInv, Failed

-----------------------------------------------------------------------------
(* One lemma per step of a supervision task, of its child and of the clock *)

LEMMA OffStartInv ==
  ASSUME Inv, NEW s \in Services, OffStart(s)
  PROVE  Inv'
<1>0. /\ TaskType /\ MailType /\ CountType /\ DaemonType /\ snap \in [Services -> Snaps]
      /\ ChildInv(s) /\ CountInv(s)
  BY TypeParts DEF Inv
<1>1. TaskType'
  BY <1>0 DEF TaskType, Loops, OffStart, Desire, At, child
<1>2. MailType'
  BY <1>0, ReceiveType DEF OffStart, Got
<1>3. CountType'
  BY <1>0, WatchdogAssumption DEF CountType, CountInv, Windows, OffStart, ForgetCrashes
<1>4. DaemonType'
  BY <1>0 DEF DaemonType, OffStart, exec, daemon
<1>5. snap' \in [Services -> Snaps]
  BY <1>0 DEF Snaps, States, OffStart, Snap
<1>6. ChildInv(s)'
  BY <1>0 DEF TaskType, ChildInv, Settled, OffStart, Snap, At, child
<1>7. CountInv(s)'
  BY <1>0, WatchdogAssumption
  DEF TaskType, CountType, ChildInv, CountInv, OffStart, Snap, At
<1>8. ASSUME NEW t \in Services, t # s PROVE ChildInv(t)' /\ CountInv(t)'
  BY <1>0, <1>8, Frame DEF TaskType, CountType, OffStart, Snap, At, child
<1> QED
  BY <1>1, <1>2, <1>3, <1>4, <1>5, <1>6, <1>7, <1>8, TypeParts DEF Inv

LEMMA OffStopInv ==
  ASSUME Inv, NEW s \in Services, OffStop(s)
  PROVE  Inv'
<1>0. /\ TaskType /\ MailType /\ CountType /\ DaemonType /\ snap \in [Services -> Snaps]
      /\ ChildInv(s) /\ CountInv(s)
  BY TypeParts DEF Inv
<1>1. TaskType'
  BY <1>0 DEF TaskType, Loops, OffStop, At, child
<1>2. MailType'
  BY <1>0, ReceiveType DEF OffStop, Got
<1>3. CountType'
  BY <1>0, WatchdogAssumption DEF CountType, CountInv, Windows, OffStop, count
<1>4. DaemonType'
  BY <1>0 DEF DaemonType, OffStop, exec, daemon
<1>5. snap' \in [Services -> Snaps]
  BY <1>0 DEF Snaps, States, OffStop
<1>6. ChildInv(s)'
  BY <1>0 DEF TaskType, ChildInv, Settled, OffStop, At, child
<1>7. CountInv(s)'
  BY <1>0, WatchdogAssumption
  DEF TaskType, CountType, ChildInv, CountInv, OffStop, At, count
<1>8. ASSUME NEW t \in Services, t # s PROVE ChildInv(t)' /\ CountInv(t)'
  BY <1>0, <1>8, Frame DEF TaskType, CountType, OffStop, At, child, count
<1> QED
  BY <1>1, <1>2, <1>3, <1>4, <1>5, <1>6, <1>7, <1>8, TypeParts DEF Inv

LEMMA DegradedStartInv ==
  ASSUME Inv, NEW s \in Services, DegradedStart(s)
  PROVE  Inv'
<1>0. /\ TaskType /\ MailType /\ CountType /\ DaemonType /\ snap \in [Services -> Snaps]
      /\ ChildInv(s) /\ CountInv(s)
  BY TypeParts DEF Inv
<1>1. TaskType'
  BY <1>0 DEF TaskType, Loops, DegradedStart, At, child
<1>2. MailType'
  BY <1>0, ReceiveType DEF DegradedStart, Got
<1>3. CountType'
  BY <1>0, WatchdogAssumption
  DEF CountType, CountInv, Windows, DegradedStart, ForgetCrashes
<1>4. DaemonType'
  BY <1>0 DEF DaemonType, DegradedStart, exec, daemon
<1>5. snap' \in [Services -> Snaps]
  BY <1>0 DEF Snaps, States, DegradedStart, Snap
<1>6. ChildInv(s)'
  BY <1>0 DEF TaskType, ChildInv, Settled, DegradedStart, Snap, At, child
<1>7. CountInv(s)'
  BY <1>0, WatchdogAssumption
  DEF TaskType, CountType, ChildInv, CountInv, DegradedStart, Snap, At
<1>8. ASSUME NEW t \in Services, t # s PROVE ChildInv(t)' /\ CountInv(t)'
  BY <1>0, <1>8, Frame DEF TaskType, CountType, DegradedStart, Snap, At, child
<1> QED
  BY <1>1, <1>2, <1>3, <1>4, <1>5, <1>6, <1>7, <1>8, TypeParts DEF Inv

LEMMA DegradedStopInv ==
  ASSUME Inv, NEW s \in Services, DegradedStop(s)
  PROVE  Inv'
<1>0. /\ TaskType /\ MailType /\ CountType /\ DaemonType /\ snap \in [Services -> Snaps]
      /\ ChildInv(s) /\ CountInv(s)
  BY TypeParts DEF Inv
<1>1. TaskType'
  BY <1>0 DEF TaskType, Loops, DegradedStop, Desire, At, child
<1>2. MailType'
  BY <1>0, ReceiveType DEF DegradedStop, Got
<1>3. CountType'
  BY <1>0, WatchdogAssumption DEF CountType, CountInv, Windows, DegradedStop, count
<1>4. DaemonType'
  BY <1>0 DEF DaemonType, DegradedStop, exec, daemon
<1>5. snap' \in [Services -> Snaps]
  BY <1>0 DEF Snaps, States, DegradedStop, Snap
<1>6. ChildInv(s)'
  BY <1>0 DEF TaskType, ChildInv, Settled, DegradedStop, Snap, At, child
<1>7. CountInv(s)'
  BY <1>0, WatchdogAssumption
  DEF TaskType, CountType, ChildInv, CountInv, DegradedStop, Snap, At, count
<1>8. ASSUME NEW t \in Services, t # s PROVE ChildInv(t)' /\ CountInv(t)'
  BY <1>0, <1>8, Frame DEF TaskType, CountType, DegradedStop, Snap, At, child, count
<1> QED
  BY <1>1, <1>2, <1>3, <1>4, <1>5, <1>6, <1>7, <1>8, TypeParts DEF Inv

LEMMA DegradedShutdownInv ==
  ASSUME Inv, NEW s \in Services, DegradedShutdown(s)
  PROVE  Inv'
<1>0. /\ TaskType /\ MailType /\ CountType /\ DaemonType /\ snap \in [Services -> Snaps]
      /\ ChildInv(s) /\ CountInv(s)
  BY TypeParts DEF Inv
<1>1. TaskType'
  BY <1>0 DEF TaskType, Loops, DegradedShutdown, At, child
<1>2. MailType'
  BY <1>0, ReceiveType DEF DegradedShutdown, Got
<1>3. CountType'
  BY <1>0, WatchdogAssumption DEF CountType, CountInv, Windows, DegradedShutdown, count
<1>4. DaemonType'
  BY <1>0 DEF DaemonType, DegradedShutdown, exec, daemon
<1>5. snap' \in [Services -> Snaps]
  BY <1>0 DEF Snaps, States, DegradedShutdown, Snap
<1>6. ChildInv(s)'
  BY <1>0 DEF TaskType, ChildInv, Settled, DegradedShutdown, Snap, At, child
<1>7. CountInv(s)'
  BY <1>0, WatchdogAssumption
  DEF TaskType, CountType, ChildInv, CountInv, DegradedShutdown, Snap, At, count
<1>8. ASSUME NEW t \in Services, t # s PROVE ChildInv(t)' /\ CountInv(t)'
  BY <1>0, <1>8, Frame DEF TaskType, CountType, DegradedShutdown, Snap, At, child, count
<1> QED
  BY <1>1, <1>2, <1>3, <1>4, <1>5, <1>6, <1>7, <1>8, TypeParts DEF Inv

LEMMA UpStartInv ==
  ASSUME Inv, NEW s \in Services, UpStart(s)
  PROVE  Inv'
<1>0. /\ TaskType /\ MailType /\ CountType /\ DaemonType /\ snap \in [Services -> Snaps]
      /\ ChildInv(s) /\ CountInv(s)
  BY TypeParts DEF Inv
<1>1. TaskType'
  BY <1>0 DEF TaskType, Loops, UpStart, child
<1>2. MailType'
  BY <1>0, ReceiveType DEF UpStart, Got
<1>3. CountType'
  BY <1>0, WatchdogAssumption DEF CountType, CountInv, Windows, UpStart, count
<1>4. DaemonType'
  BY <1>0 DEF DaemonType, UpStart, exec, daemon
<1>5. snap' \in [Services -> Snaps]
  BY <1>0 DEF Snaps, States, UpStart
<1>6. ChildInv(s)'
  BY <1>0 DEF TaskType, ChildInv, Settled, UpStart, child
<1>7. CountInv(s)'
  BY <1>0, WatchdogAssumption DEF TaskType, CountType, ChildInv, CountInv, UpStart, count
<1>8. ASSUME NEW t \in Services, t # s PROVE ChildInv(t)' /\ CountInv(t)'
  BY <1>0, <1>8, Frame DEF TaskType, CountType, UpStart, child, count
<1> QED
  BY <1>1, <1>2, <1>3, <1>4, <1>5, <1>6, <1>7, <1>8, TypeParts DEF Inv

LEMMA UpStopInv ==
  ASSUME Inv, NEW s \in Services, UpStop(s)
  PROVE  Inv'
<1>0. /\ TaskType /\ MailType /\ CountType /\ DaemonType /\ snap \in [Services -> Snaps]
      /\ ChildInv(s) /\ CountInv(s)
  BY TypeParts DEF Inv
<1>1. TaskType'
  BY <1>0 DEF TaskType, Loops, UpStop, Desire, NoChild, At
<1>2. MailType'
  BY <1>0, ReceiveType DEF UpStop, Got
<1>3. CountType'
  BY <1>0, WatchdogAssumption DEF CountType, CountInv, Windows, UpStop, count
<1>4. DaemonType'
  BY <1>0 DEF DaemonType, UpStop, exec, daemon
<1>5. snap' \in [Services -> Snaps]
  BY <1>0 DEF Snaps, States, UpStop, Snap
<1>6. ChildInv(s)'
  BY <1>0 DEF TaskType, ChildInv, Settled, UpStop, NoChild, Snap, At
<1>7. CountInv(s)'
  BY <1>0, WatchdogAssumption
  DEF TaskType, CountType, ChildInv, CountInv, UpStop, Snap, At, count
<1>8. ASSUME NEW t \in Services, t # s PROVE ChildInv(t)' /\ CountInv(t)'
  BY <1>0, <1>8, Frame DEF TaskType, CountType, UpStop, NoChild, Snap, At, count
<1> QED
  BY <1>1, <1>2, <1>3, <1>4, <1>5, <1>6, <1>7, <1>8, TypeParts DEF Inv

LEMMA UpRestartInv ==
  ASSUME Inv, NEW s \in Services, UpRestart(s)
  PROVE  Inv'
<1>0. /\ TaskType /\ MailType /\ CountType /\ DaemonType /\ snap \in [Services -> Snaps]
      /\ ChildInv(s) /\ CountInv(s)
  BY TypeParts DEF Inv
<1>1. TaskType'
  BY <1>0 DEF TaskType, Loops, UpRestart, NoChild, At
<1>2. MailType'
  BY <1>0, ReceiveType DEF UpRestart, Got
<1>3. CountType'
  BY <1>0, WatchdogAssumption DEF CountType, CountInv, Windows, UpRestart, ForgetCrashes
<1>4. DaemonType'
  BY <1>0 DEF DaemonType, UpRestart, exec, daemon
<1>5. snap' \in [Services -> Snaps]
  BY <1>0 DEF Snaps, States, UpRestart
<1>6. ChildInv(s)'
  BY <1>0 DEF TaskType, ChildInv, Settled, UpRestart, NoChild, At
<1>7. CountInv(s)'
  BY <1>0, WatchdogAssumption DEF TaskType, CountType, ChildInv, CountInv, UpRestart, At
<1>8. ASSUME NEW t \in Services, t # s PROVE ChildInv(t)' /\ CountInv(t)'
  BY <1>0, <1>8, Frame DEF TaskType, CountType, UpRestart, NoChild, At
<1> QED
  BY <1>1, <1>2, <1>3, <1>4, <1>5, <1>6, <1>7, <1>8, TypeParts DEF Inv

LEMMA UpShutdownInv ==
  ASSUME Inv, NEW s \in Services, UpShutdown(s)
  PROVE  Inv'
<1>0. /\ TaskType /\ MailType /\ CountType /\ DaemonType /\ snap \in [Services -> Snaps]
      /\ ChildInv(s) /\ CountInv(s)
  BY TypeParts DEF Inv
<1>1. TaskType'
  BY <1>0 DEF TaskType, Loops, UpShutdown, NoChild, At
<1>2. MailType'
  BY <1>0, ReceiveType DEF UpShutdown, Got
<1>3. CountType'
  BY <1>0, WatchdogAssumption DEF CountType, CountInv, Windows, UpShutdown, count
<1>4. DaemonType'
  BY <1>0 DEF DaemonType, UpShutdown, exec, daemon
<1>5. snap' \in [Services -> Snaps]
  BY <1>0 DEF Snaps, States, UpShutdown, Snap
<1>6. ChildInv(s)'
  BY <1>0 DEF TaskType, ChildInv, Settled, UpShutdown, NoChild, Snap, At
<1>7. CountInv(s)'
  BY <1>0, WatchdogAssumption
  DEF TaskType, CountType, ChildInv, CountInv, UpShutdown, Snap, At, count
<1>8. ASSUME NEW t \in Services, t # s PROVE ChildInv(t)' /\ CountInv(t)'
  BY <1>0, <1>8, Frame DEF TaskType, CountType, UpShutdown, NoChild, Snap, At, count
<1> QED
  BY <1>1, <1>2, <1>3, <1>4, <1>5, <1>6, <1>7, <1>8, TypeParts DEF Inv

LEMMA SpawnFailsInv ==
  ASSUME Inv, NEW s \in Services, SpawnFails(s)
  PROVE  Inv'
<1>0. /\ TaskType /\ MailType /\ CountType /\ DaemonType /\ snap \in [Services -> Snaps]
      /\ ChildInv(s) /\ CountInv(s)
  BY TypeParts DEF Inv
<1>1. TaskType'
  BY <1>0 DEF TaskType, Loops, SpawnFails, At, child
<1>2. MailType'
  BY <1>0 DEF MailType, SpawnFails
<1>3. CountType'
  BY <1>0, WatchdogAssumption
  DEF CountType, CountInv, Windows, SpawnFails, Failed, Longer, GivesUp
<1>4. DaemonType'
  BY <1>0 DEF DaemonType, SpawnFails, exec, daemon
<1>5. snap' \in [Services -> Snaps]
  <2> DEFINE r == [snap[s] EXCEPT !.failures = Failed(s),
                             !.state = IF GivesUp(s) THEN "FailedStartup" ELSE "Restarting"]
  <2>1. r \in Snaps
    BY <1>0, FailedType DEF SpawnFails, Snaps, States
  <2>2. Snap(s, r)
    BY DEF SpawnFails
  <2> QED
    BY <1>0, <2>1, <2>2, SnapType
<1>6. ChildInv(s)'
  BY <1>0 DEF TaskType, ChildInv, Settled, SpawnFails, Snap, At, child
<1>7. CountInv(s)'
  BY <1>0, WatchdogAssumption
  DEF TaskType, CountType, ChildInv, CountInv, SpawnFails, Failed, Longer, Snap, GivesUp, At
<1>8. ASSUME NEW t \in Services, t # s PROVE ChildInv(t)' /\ CountInv(t)'
  BY <1>0, <1>8, Frame DEF TaskType, CountType, SpawnFails, Longer, Snap, At, child
<1> QED
  BY <1>1, <1>2, <1>3, <1>4, <1>5, <1>6, <1>7, <1>8, TypeParts DEF Inv

LEMMA SpawnChildInv ==
  ASSUME Inv, NEW s \in Services, SpawnChild(s)
  PROVE  Inv'
<1>0. /\ TaskType /\ MailType /\ CountType /\ DaemonType /\ snap \in [Services -> Snaps]
      /\ ChildInv(s) /\ CountInv(s)
  BY TypeParts DEF Inv
<1>1. TaskType'
  BY <1>0 DEF TaskType, Loops, SpawnChild, At
<1>2. MailType'
  BY <1>0 DEF MailType, SpawnChild
<1>3. CountType'
  BY <1>0, WatchdogAssumption DEF CountType, CountInv, Windows, SpawnChild, ForgetFails
<1>4. DaemonType'
  BY <1>0 DEF DaemonType, SpawnChild, daemon
<1>5. snap' \in [Services -> Snaps]
  <2> DEFINE r == Spawned(s)
  <2>1. r \in Snaps
    BY <1>0, LimitFacts DEF SpawnChild, Snaps, States, Spawned
  <2>2. Snap(s, r)
    BY DEF SpawnChild
  <2> QED
    BY <1>0, <2>1, <2>2, SnapType
<1>6. ChildInv(s)'
  BY <1>0 DEF TaskType, ChildInv, Settled, SpawnChild, Snap, Spawned, At
<1>7. CountInv(s)'
  BY <1>0, WatchdogAssumption
  DEF TaskType, CountType, ChildInv, CountInv, SpawnChild, Snap, Spawned, ForgetFails, At
<1>8. ASSUME NEW t \in Services, t # s PROVE ChildInv(t)' /\ CountInv(t)'
  BY <1>0, <1>8, Frame DEF TaskType, CountType, SpawnChild, Snap, Spawned, ForgetFails, At
<1> QED
  BY <1>1, <1>2, <1>3, <1>4, <1>5, <1>6, <1>7, <1>8, TypeParts DEF Inv

LEMMA PauseEndsInv ==
  ASSUME Inv, NEW s \in Services, PauseEnds(s)
  PROVE  Inv'
<1>0. /\ TaskType /\ MailType /\ CountType /\ DaemonType /\ snap \in [Services -> Snaps]
      /\ ChildInv(s) /\ CountInv(s)
  BY TypeParts DEF Inv
<1>1. TaskType'
  BY <1>0 DEF TaskType, Loops, PauseEnds, At, child
<1>2. MailType'
  BY <1>0 DEF MailType, PauseEnds
<1>3. CountType'
  BY <1>0, WatchdogAssumption DEF CountType, CountInv, Windows, PauseEnds, count
<1>4. DaemonType'
  BY <1>0 DEF DaemonType, PauseEnds, exec, daemon
<1>5. snap' \in [Services -> Snaps]
  BY <1>0 DEF Snaps, States, PauseEnds
<1>6. ChildInv(s)'
  BY <1>0 DEF TaskType, ChildInv, Settled, PauseEnds, At, child
<1>7. CountInv(s)'
  BY <1>0, WatchdogAssumption
  DEF TaskType, CountType, ChildInv, CountInv, PauseEnds, At, count
<1>8. ASSUME NEW t \in Services, t # s PROVE ChildInv(t)' /\ CountInv(t)'
  BY <1>0, <1>8, Frame DEF TaskType, CountType, PauseEnds, At, child, count
<1> QED
  BY <1>1, <1>2, <1>3, <1>4, <1>5, <1>6, <1>7, <1>8, TypeParts DEF Inv

LEMMA SeeReadyInv ==
  ASSUME Inv, NEW s \in Services, SeeReady(s)
  PROVE  Inv'
<1>0. /\ TaskType /\ MailType /\ CountType /\ DaemonType /\ snap \in [Services -> Snaps]
      /\ ChildInv(s) /\ CountInv(s)
  BY TypeParts DEF Inv
<1>1. TaskType'
  BY <1>0 DEF TaskType, Loops, SeeReady
<1>2. MailType'
  BY <1>0 DEF MailType, SeeReady
<1>3. CountType'
  BY <1>0, WatchdogAssumption DEF CountType, CountInv, Windows, SeeReady, ForgetFails
<1>4. DaemonType'
  BY <1>0 DEF DaemonType, SeeReady, daemon
<1>5. snap' \in [Services -> Snaps]
  <2> DEFINE r == [snap[s] EXCEPT !.state = "Running", !.failures = 0]
  <2>1. r \in Snaps
    BY <1>0, LimitFacts DEF SeeReady, Snaps, States
  <2>2. Snap(s, r)
    BY DEF SeeReady
  <2> QED
    BY <1>0, <2>1, <2>2, SnapType
<1>6. ChildInv(s)'
  BY <1>0 DEF TaskType, ChildInv, Settled, SeeReady, Snap
<1>7. CountInv(s)'
  BY <1>0, WatchdogAssumption
  DEF TaskType, CountType, ChildInv, CountInv, SeeReady, Snap, ForgetFails
<1>8. ASSUME NEW t \in Services, t # s PROVE ChildInv(t)' /\ CountInv(t)'
  BY <1>0, <1>8, Frame DEF TaskType, CountType, SeeReady, Snap, ForgetFails
<1> QED
  BY <1>1, <1>2, <1>3, <1>4, <1>5, <1>6, <1>7, <1>8, TypeParts DEF Inv

LEMMA SeeUnreadyUpgradeInv ==
  ASSUME Inv, NEW s \in Services, SeeUnreadyUpgrade(s)
  PROVE  Inv'
<1>0. /\ TaskType /\ MailType /\ CountType /\ DaemonType /\ snap \in [Services -> Snaps]
      /\ ChildInv(s) /\ CountInv(s)
  BY TypeParts DEF Inv
<1>1. TaskType'
  BY <1>0 DEF TaskType, Loops, SeeUnreadyUpgrade, NoChild, At
<1>2. MailType'
  BY <1>0 DEF MailType, SeeUnreadyUpgrade
<1>3. CountType'
  BY <1>0, WatchdogAssumption DEF CountType, CountInv, Windows, SeeUnreadyUpgrade, count
<1>4. DaemonType'
  BY <1>0 DEF DaemonType, SeeUnreadyUpgrade, exec, daemon
<1>5. snap' \in [Services -> Snaps]
  BY <1>0 DEF Snaps, States, SeeUnreadyUpgrade, Snap
<1>6. ChildInv(s)'
  BY <1>0 DEF TaskType, ChildInv, Settled, SeeUnreadyUpgrade, NoChild, Snap, At
<1>7. CountInv(s)'
  BY <1>0, WatchdogAssumption
  DEF TaskType, CountType, ChildInv, CountInv, SeeUnreadyUpgrade, Snap, At, count
<1>8. ASSUME NEW t \in Services, t # s PROVE ChildInv(t)' /\ CountInv(t)'
  BY <1>0, <1>8, Frame
  DEF TaskType, CountType, SeeUnreadyUpgrade, NoChild, Snap, At, count
<1> QED
  BY <1>1, <1>2, <1>3, <1>4, <1>5, <1>6, <1>7, <1>8, TypeParts DEF Inv

LEMMA SeeBindFailedInv ==
  ASSUME Inv, NEW s \in Services, SeeBindFailed(s)
  PROVE  Inv'
<1>0. /\ TaskType /\ MailType /\ CountType /\ DaemonType /\ snap \in [Services -> Snaps]
      /\ ChildInv(s) /\ CountInv(s)
  BY TypeParts DEF Inv
<1>1. TaskType'
  BY <1>0 DEF TaskType, Loops, SeeBindFailed, NoChild, At
<1>2. MailType'
  BY <1>0 DEF MailType, SeeBindFailed
<1>3. CountType'
  BY <1>0, WatchdogAssumption DEF CountType, CountInv, Windows, SeeBindFailed, count
<1>4. DaemonType'
  BY <1>0 DEF DaemonType, SeeBindFailed, exec, daemon
<1>5. snap' \in [Services -> Snaps]
  BY <1>0 DEF Snaps, States, SeeBindFailed, Snap
<1>6. ChildInv(s)'
  BY <1>0 DEF TaskType, ChildInv, Settled, SeeBindFailed, NoChild, Snap, At
<1>7. CountInv(s)'
  BY <1>0, WatchdogAssumption
  DEF TaskType, CountType, ChildInv, CountInv, SeeBindFailed, Snap, At, count
<1>8. ASSUME NEW t \in Services, t # s PROVE ChildInv(t)' /\ CountInv(t)'
  BY <1>0, <1>8, Frame DEF TaskType, CountType, SeeBindFailed, NoChild, Snap, At, count
<1> QED
  BY <1>1, <1>2, <1>3, <1>4, <1>5, <1>6, <1>7, <1>8, TypeParts DEF Inv

LEMMA SeeCrashInv ==
  ASSUME Inv, NEW s \in Services, SeeCrash(s)
  PROVE  Inv'
<1>0. /\ TaskType /\ MailType /\ CountType /\ DaemonType /\ snap \in [Services -> Snaps]
      /\ ChildInv(s) /\ CountInv(s)
  BY TypeParts DEF Inv
<1>1. TaskType'
  BY <1>0 DEF TaskType, Loops, SeeCrash, NoChild, At, AfterCrash
<1>2. MailType'
  BY <1>0 DEF MailType, SeeCrash
<1>3. CountType'
  BY <1>0, WatchdogAssumption
  DEF CountType, CountInv, Windows, SeeCrash, GivesUp, Failed, Longer, Crashed
<1>4. DaemonType'
  BY <1>0 DEF DaemonType, SeeCrash, exec, daemon
<1>5. snap' \in [Services -> Snaps]
  <2>1. Failed(s) \in 0..MaxFails
    BY <1>0, FailedType DEF SeeCrash
  <2>2. PICK n \in 0..MaxFails, q \in States :
          Snap(s, [snap[s] EXCEPT !.pid = FALSE, !.failures = n, !.state = q])
    <3> DEFINE startFailed == ~Confirmed(s)
    <3>1. snap[s].failures \in 0..MaxFails
      BY <1>0 DEF Snaps
    <3>2. (IF startFailed THEN Failed(s) ELSE snap[s].failures) \in 0..MaxFails
      BY <2>1, <3>1
    <3>3. (IF startFailed /\ GivesUp(s) THEN "FailedStartup" ELSE "Restarting") \in States
      BY DEF States
    <3> QED
      BY <3>2, <3>3 DEF SeeCrash
  <2>3. [snap[s] EXCEPT !.pid = FALSE, !.failures = n, !.state = q] \in Snaps
    BY <1>0, <2>2 DEF Snaps
  <2> QED
    BY <1>0, <2>2, <2>3, SnapType
<1>6. ChildInv(s)'
  BY <1>0 DEF TaskType, ChildInv, Settled, SeeCrash, NoChild, Snap, At, AfterCrash
<1>7. CountInv(s)'
  BY <1>0, WatchdogAssumption
  DEF TaskType, CountType, ChildInv, CountInv, SeeCrash, Confirmed, GivesUp, Failed, Longer, Snap,
      At, AfterCrash
<1>8. ASSUME NEW t \in Services, t # s PROVE ChildInv(t)' /\ CountInv(t)'
  BY <1>0, <1>8, Frame DEF TaskType, CountType, SeeCrash, NoChild, Longer, Snap, At
<1> QED
  BY <1>1, <1>2, <1>3, <1>4, <1>5, <1>6, <1>7, <1>8, TypeParts DEF Inv

LEMMA RollBackInv ==
  ASSUME Inv, NEW s \in Services, RollBack(s)
  PROVE  Inv'
<1>0. /\ TaskType /\ MailType /\ CountType /\ DaemonType /\ snap \in [Services -> Snaps]
      /\ ChildInv(s) /\ CountInv(s)
  BY TypeParts DEF Inv
<1>1. TaskType'
  BY <1>0 DEF TaskType, Loops, RollBack, At, child
<1>2. MailType'
  BY <1>0 DEF MailType, RollBack
<1>3. CountType'
  BY <1>0, WatchdogAssumption DEF CountType, CountInv, Windows, RollBack, count
<1>4. DaemonType'
  BY <1>0 DEF DaemonType, RollBack, daemon
<1>5. snap' \in [Services -> Snaps]
  BY <1>0 DEF Snaps, States, RollBack
<1>6. ChildInv(s)'
  BY <1>0 DEF TaskType, ChildInv, Settled, RollBack, At, child
<1>7. CountInv(s)'
  BY <1>0, WatchdogAssumption
  DEF TaskType, CountType, ChildInv, CountInv, RollBack, At, count
<1>8. ASSUME NEW t \in Services, t # s PROVE ChildInv(t)' /\ CountInv(t)'
  BY <1>0, <1>8, Frame DEF TaskType, CountType, RollBack, At, child, count
<1> QED
  BY <1>1, <1>2, <1>3, <1>4, <1>5, <1>6, <1>7, <1>8, TypeParts DEF Inv

LEMMA RollBackFailsInv ==
  ASSUME Inv, NEW s \in Services, RollBackFails(s)
  PROVE  Inv'
<1>0. /\ TaskType /\ MailType /\ CountType /\ DaemonType /\ snap \in [Services -> Snaps]
      /\ ChildInv(s) /\ CountInv(s)
  BY TypeParts DEF Inv
<1>1. TaskType'
  BY <1>0 DEF TaskType, Loops, RollBackFails, At, child
<1>2. MailType'
  BY <1>0 DEF MailType, RollBackFails
<1>3. CountType'
  BY <1>0, WatchdogAssumption DEF CountType, CountInv, Windows, RollBackFails, count
<1>4. DaemonType'
  BY <1>0 DEF DaemonType, RollBackFails, exec
<1>5. snap' \in [Services -> Snaps]
  <2> DEFINE r == [snap[s] EXCEPT !.state = "FailedStartup", !.failures = 1]
  <2>1. r \in Snaps
    BY <1>0, LimitFacts DEF RollBackFails, Snaps, States
  <2>2. Snap(s, r)
    BY DEF RollBackFails
  <2> QED
    BY <1>0, <2>1, <2>2, SnapType
<1>6. ChildInv(s)'
  BY <1>0 DEF TaskType, ChildInv, Settled, RollBackFails, Snap, At, child
<1>7. CountInv(s)'
  BY <1>0, WatchdogAssumption
  DEF TaskType, CountType, ChildInv, CountInv, RollBackFails, Snap, At, count
<1>8. ASSUME NEW t \in Services, t # s PROVE ChildInv(t)' /\ CountInv(t)'
  BY <1>0, <1>8, Frame DEF TaskType, CountType, RollBackFails, Snap, At, child, count
<1> QED
  BY <1>1, <1>2, <1>3, <1>4, <1>5, <1>6, <1>7, <1>8, TypeParts DEF Inv

LEMMA HookedInv ==
  ASSUME Inv, NEW s \in Services, Hooked(s)
  PROVE  Inv'
<1>0. /\ TaskType /\ MailType /\ CountType /\ DaemonType /\ snap \in [Services -> Snaps]
      /\ ChildInv(s) /\ CountInv(s)
  BY TypeParts DEF Inv
<1>1. TaskType'
  BY <1>0 DEF TaskType, Loops, Hooked, At, child
<1>2. MailType'
  BY <1>0 DEF MailType, Hooked
<1>3. CountType'
  BY <1>0, WatchdogAssumption DEF CountType, CountInv, Windows, Hooked, count
<1>4. DaemonType'
  BY <1>0 DEF DaemonType, Hooked, exec, daemon
<1>5. snap' \in [Services -> Snaps]
  BY <1>0 DEF Snaps, States, Hooked, Snap
<1>6. ChildInv(s)'
  BY <1>0 DEF TaskType, ChildInv, Settled, Hooked, Snap, At, child
<1>7. CountInv(s)'
  BY <1>0, WatchdogAssumption
  DEF TaskType, CountType, ChildInv, CountInv, Hooked, Snap, At, count
<1>8. ASSUME NEW t \in Services, t # s PROVE ChildInv(t)' /\ CountInv(t)'
  BY <1>0, <1>8, Frame DEF TaskType, CountType, Hooked, Snap, At, child, count
<1> QED
  BY <1>1, <1>2, <1>3, <1>4, <1>5, <1>6, <1>7, <1>8, TypeParts DEF Inv

LEMMA ReportReadyInv ==
  ASSUME Inv, NEW s \in Services, ReportReady(s)
  PROVE  Inv'
<1>0. /\ TaskType /\ MailType /\ CountType /\ DaemonType /\ snap \in [Services -> Snaps]
      /\ ChildInv(s) /\ CountInv(s)
  BY TypeParts DEF Inv
<1>1. TaskType'
  BY <1>0 DEF TaskType, Loops, ReportReady
<1>2. MailType'
  BY <1>0 DEF MailType, ReportReady
<1>3. CountType'
  BY <1>0, WatchdogAssumption DEF CountType, CountInv, Windows, ReportReady, count
<1>4. DaemonType'
  BY <1>0 DEF DaemonType, ReportReady, exec, daemon
<1>5. snap' \in [Services -> Snaps]
  BY <1>0 DEF Snaps, States, ReportReady
<1>6. ChildInv(s)'
  BY <1>0 DEF TaskType, ChildInv, Settled, ReportReady
<1>7. CountInv(s)'
  BY <1>0, WatchdogAssumption
  DEF TaskType, CountType, ChildInv, CountInv, ReportReady, count
<1>8. ASSUME NEW t \in Services, t # s PROVE ChildInv(t)' /\ CountInv(t)'
  BY <1>0, <1>8, Frame DEF TaskType, CountType, ReportReady, count
<1> QED
  BY <1>1, <1>2, <1>3, <1>4, <1>5, <1>6, <1>7, <1>8, TypeParts DEF Inv

LEMMA ExitInv ==
  ASSUME Inv, NEW s \in Services, Exit(s)
  PROVE  Inv'
<1>0. /\ TaskType /\ MailType /\ CountType /\ DaemonType /\ snap \in [Services -> Snaps]
      /\ ChildInv(s) /\ CountInv(s)
  BY TypeParts DEF Inv
<1>1. TaskType'
  BY <1>0 DEF TaskType, Loops, Exit
<1>2. MailType'
  BY <1>0 DEF MailType, Exit
<1>3. CountType'
  BY <1>0, WatchdogAssumption DEF CountType, CountInv, Windows, Exit, count
<1>4. DaemonType'
  BY <1>0 DEF DaemonType, Exit, exec, daemon
<1>5. snap' \in [Services -> Snaps]
  BY <1>0 DEF Snaps, States, Exit
<1>6. ChildInv(s)'
  BY <1>0 DEF TaskType, ChildInv, Settled, Exit
<1>7. CountInv(s)'
  BY <1>0, WatchdogAssumption DEF TaskType, CountType, ChildInv, CountInv, Exit, count
<1>8. ASSUME NEW t \in Services, t # s PROVE ChildInv(t)' /\ CountInv(t)'
  BY <1>0, <1>8, Frame DEF TaskType, CountType, Exit, count
<1> QED
  BY <1>1, <1>2, <1>3, <1>4, <1>5, <1>6, <1>7, <1>8, TypeParts DEF Inv

LEMMA WindowPassesInv ==
  ASSUME Inv, NEW s \in Services, WindowPasses(s)
  PROVE  Inv'
<1>0. /\ TaskType /\ MailType /\ CountType /\ DaemonType /\ snap \in [Services -> Snaps]
      /\ ChildInv(s) /\ CountInv(s)
  BY TypeParts DEF Inv
<1>1. TaskType'
  BY <1>0 DEF TaskType, Loops, WindowPasses, child
<1>2. MailType'
  BY <1>0 DEF MailType, WindowPasses
<1>3. CountType'
  BY <1>0, WatchdogAssumption DEF CountType, CountInv, Windows, WindowPasses
<1>4. DaemonType'
  BY <1>0 DEF DaemonType, WindowPasses, exec, daemon
<1>5. snap' \in [Services -> Snaps]
  BY <1>0 DEF Snaps, States, WindowPasses
<1>6. ChildInv(s)'
  BY <1>0 DEF TaskType, ChildInv, Settled, WindowPasses, child
<1>7. CountInv(s)'
  BY <1>0, WatchdogAssumption DEF TaskType, CountType, ChildInv, CountInv, WindowPasses
<1>8. ASSUME NEW t \in Services, t # s PROVE ChildInv(t)' /\ CountInv(t)'
  BY <1>0, <1>8, Frame DEF TaskType, CountType, WindowPasses, child
<1> QED
  BY <1>1, <1>2, <1>3, <1>4, <1>5, <1>6, <1>7, <1>8, TypeParts DEF Inv

-----------------------------------------------------------------------------
(* Commands and the main task *)

\* Steps that change no task, child, state or count keep what is known of each service.
LEMMA QuietInv ==
  ASSUME Inv, UNCHANGED <<loop, desired, snap, child, count, upgraded>>,
         wanted' \in [Services -> {"on", "off"}], MailType', DaemonType'
  PROVE  Inv'
<1>1. TaskType /\ CountType /\ snap \in [Services -> Snaps]
  BY TypeParts DEF Inv
<1>2. TaskType' /\ CountType' /\ snap' \in [Services -> Snaps]
  BY <1>1 DEF TaskType, CountType, child, count
<1>3. ASSUME NEW t \in Services PROVE ChildInv(t)' /\ CountInv(t)'
  BY <1>3, Frame DEF child, count
<1> QED
  BY <1>2, <1>3, TypeParts DEF Inv

LEMMA SetDesiredInv ==
  ASSUME Inv, NEW s \in Services, NEW d \in {"on", "off"}, SetDesired(s, d)
  PROVE  Inv'
<1>1. TaskType /\ MailType /\ DaemonType
  BY TypeParts DEF Inv
<1>2. Command(IF d = "on" THEN "start" ELSE "stop", FALSE) \in Commands
  BY DEF Command, Commands, Kinds
<1>3. MailType'
  BY <1>1, <1>2, SendType DEF SetDesired
<1>4. DaemonType' /\ wanted' \in [Services -> {"on", "off"}]
  BY <1>1 DEF DaemonType, TaskType, SetDesired, exec, daemon
<1> QED
  BY <1>3, <1>4, QuietInv DEF SetDesired

LEMMA RestartInv ==
  ASSUME Inv, NEW s \in Services, Restart(s)
  PROVE  Inv'
<1>1. TaskType /\ MailType /\ DaemonType
  BY TypeParts DEF Inv
<1>2. Command("restart", FALSE) \in Commands
  BY DEF Command, Commands, Kinds
<1>3. MailType'
  BY <1>1, <1>2, SendType DEF Restart
<1>4. DaemonType' /\ wanted' \in [Services -> {"on", "off"}]
  BY <1>1 DEF DaemonType, TaskType, Restart, exec, daemon
<1> QED
  BY <1>3, <1>4, QuietInv DEF Restart

LEMMA TellShutdownInv ==
  ASSUME Inv, NEW s \in Services, TellShutdown(s)
  PROVE  Inv'
<1>1. TaskType /\ MailType /\ DaemonType
  BY TypeParts DEF Inv
<1>2. Command("shutdown", FALSE) \in Commands
  BY DEF Command, Commands, Kinds
<1>3. MailType'
  BY <1>1, <1>2, SendType DEF TellShutdown
<1>4. DaemonType' /\ wanted' \in [Services -> {"on", "off"}]
  BY <1>1 DEF DaemonType, TaskType, TellShutdown, exec
<1> QED
  BY <1>3, <1>4, QuietInv DEF TellShutdown

\* The executor's steps; a restart sent to a core that is not managed goes nowhere.
LEMMA ExecutorInv ==
  ASSUME Inv,
         (\E kind \in {"update", "rollback"} : Accept(kind))
           \/ Unchanged \/ Installed \/ RestartUpgraded
  PROVE  Inv'
<1>1. TaskType /\ MailType /\ DaemonType
  BY TypeParts DEF Inv
<1>2. MailType'
  <2>1. CASE RestartUpgraded /\ Core \in Services
    <3>1. Command("restart", TRUE) \in Commands
      BY DEF Command, Commands, Kinds
    <3> QED
      BY <1>1, <2>1, <3>1, SendType DEF RestartUpgraded
  <2>2. CASE RestartUpgraded /\ Core \notin Services
    <3>1. mail' = mail
      BY <1>1, <2>2 DEF MailType, RestartUpgraded, Send
    <3> QED
      BY <1>1, <3>1 DEF MailType
  <2>3. CASE ~RestartUpgraded
    BY <1>1, <2>3 DEF MailType, Accept, Unchanged, Installed
  <2> QED
    BY <2>1, <2>2, <2>3
<1>3. DaemonType' /\ wanted' \in [Services -> {"on", "off"}]
  BY <1>1 DEF DaemonType, TaskType, Accept, Unchanged, Installed, RestartUpgraded, daemon
<1>4. UNCHANGED <<loop, desired, snap, child, count, upgraded>>
  BY DEF Accept, Unchanged, Installed, RestartUpgraded
<1> QED
  BY <1>2, <1>3, <1>4, QuietInv

LEMMA StopAllInv == ASSUME Inv, StopAll PROVE Inv'
<1>1. TaskType /\ MailType /\ DaemonType
  BY TypeParts DEF Inv
<1>2. MailType' /\ DaemonType' /\ wanted' \in [Services -> {"on", "off"}]
  BY <1>1 DEF TaskType, MailType, DaemonType, StopAll, exec
<1> QED
  BY <1>2, QuietInv DEF StopAll

LEMMA EndInv == ASSUME Inv, End PROVE Inv'
<1>1. /\ TaskType /\ MailType /\ CountType /\ DaemonType /\ snap \in [Services -> Snaps]
      /\ \A s \in Services : CountInv(s)
  BY TypeParts DEF Inv
<1>2. TaskType' /\ MailType' /\ CountType' /\ DaemonType' /\ snap' \in [Services -> Snaps]
  BY <1>1, WatchdogAssumption
  DEF TaskType, MailType, CountType, DaemonType, Loops, End, count, exec
<1>3. ASSUME NEW s \in Services PROVE ChildInv(s)' /\ CountInv(s)'
  BY <1>1, <1>3 DEF ChildInv, CountInv, End, count
<1> QED
  BY <1>2, <1>3, TypeParts DEF Inv

-----------------------------------------------------------------------------
(* The mark of an upgrade *)

\* While the core has the binary it was delivered with, no restart of an upgrade is under
\* way: not in the executor, in a channel, with a task or as far as the hook.
Unmarked(s) ==
  loop[s] # "hook" /\ ~upgraded[s] /\ \A i \in 1..Len(mail[s]) : ~mail[s][i].upgrade
MarkInv == binary = "initial" => op # "restart" /\ \A s \in Services : Unmarked(s)

\* The delivered binary does not come back.
LEMMA InitialStays ==
  ASSUME [Next]_vars, binary' = "initial"
  PROVE  binary = "initial"
<1>1. ASSUME NEW s \in Services, Supervise(s)
      PROVE  binary = "initial"
  <2>1. ASSUME Take(s) \/ SeeExit(s) PROVE binary = "initial"
    BY <2>1 DEF Take, SeeExit, OffStart, OffStop, DegradedStart, DegradedStop, DegradedShutdown,
                UpStart, UpStop, UpRestart, UpShutdown, SeeUnreadyUpgrade, SeeBindFailed, SeeCrash, exec
  <2>2. ASSUME Go(s) \/ SeeReady(s) PROVE binary = "initial"
    BY <2>2 DEF Go, SeeReady, SpawnFails, SpawnChild, PauseEnds, RollBack, RollBackFails, Hooked, exec
  <2> QED BY <1>1, <2>1, <2>2 DEF Supervise
<1>2. ASSUME ~\E s \in Services : Supervise(s) PROVE binary = "initial"
  BY <1>2 DEF Next, SetDesired, Restart, Accept, Unchanged, Installed, RestartUpgraded, ReportReady,
              Exit, WindowPasses, StopAll, TellShutdown, End, exec, vars
<1> QED BY <1>1, <1>2

\* A channel that lost its first command, or got an unmarked one, is unmarked as before.
Calm(q) == \A i \in 1..Len(q) : ~q[i].upgrade
LEMMA CalmMail ==
  ASSUME NEW q \in Seq(Commands), Calm(q)
  PROVE  /\ q # <<>> => Calm(Tail(q)) /\ ~Head(q).upgrade
         /\ \A kind \in Kinds : Calm(Append(q, Command(kind, FALSE)))
         /\ Calm(<<>>)
<1>1. ASSUME q # <<>> PROVE Calm(Tail(q)) /\ ~Head(q).upgrade
  <2>1. Len(q) \in Nat \ {0} /\ Head(q) = q[1] /\ Len(Tail(q)) = Len(q) - 1
    BY <1>1
  <2>2. ASSUME NEW i \in 1..Len(Tail(q)) PROVE ~Tail(q)[i].upgrade
    <3>1. Tail(q)[i] = q[i + 1] /\ i + 1 \in 1..Len(q)
      BY <1>1, <2>1
    <3> QED BY <3>1 DEF Calm
  <2> QED BY <2>1, <2>2 DEF Calm
<1>2. ASSUME NEW c \in Commands, ~c.upgrade PROVE Calm(Append(q, c))
  <2>1. ASSUME NEW i \in 1..Len(Append(q, c)) PROVE ~Append(q, c)[i].upgrade
    <3>1. CASE i \in 1..Len(q)
      <4>1. Append(q, c)[i] = q[i]
        BY <3>1
      <4> QED BY <3>1, <4>1 DEF Calm
    <3>2. CASE i = Len(q) + 1
      <4>1. Append(q, c)[i] = c
        BY <3>2
      <4> QED BY <1>2, <4>1
    <3> QED BY <3>1, <3>2
  <2> QED BY <2>1 DEF Calm
<1>3. \A kind \in Kinds : Command(kind, FALSE) \in Commands /\ ~Command(kind, FALSE).upgrade
  BY DEF Command, Commands
<1>4. \A kind \in Kinds : Calm(Append(q, Command(kind, FALSE)))
  BY <1>2, <1>3
<1>5. Calm(<<>>)
  BY DEF Calm
<1> QED BY <1>1, <1>4, <1>5

\* What a step may do to a service whose core is the delivered one.
LEMMA MarkStep ==
  ASSUME Inv, MarkInv, [Next]_vars
  PROVE  MarkInv'
<1> SUFFICES ASSUME binary' = "initial" PROVE op' # "restart" /\ \A s \in Services : Unmarked(s)'
  BY DEF MarkInv
<1>1. op # "restart" /\ \A s \in Services : loop[s] # "hook" /\ ~upgraded[s] /\ Calm(mail[s])
  BY InitialStays DEF MarkInv, Unmarked, Calm
<1>2. /\ loop \in [Services -> Loops] /\ upgraded \in [Services -> BOOLEAN]
      /\ mail \in [Services -> Seq(Commands)]
  BY TypeParts DEF Inv, TaskType, MailType
<1> DEFINE Fine == /\ op' # "restart"
                   /\ \A s \in Services : loop'[s] # "hook" /\ ~upgraded'[s] /\ Calm(mail'[s])
<1>3. ASSUME Fine PROVE op' # "restart" /\ \A s \in Services : Unmarked(s)'
  BY <1>3 DEF Unmarked, Calm
<1>4. ASSUME NEW s \in Services, Receive(s), mail[s] # <<>>
      PROVE  \A t \in Services : Calm(mail'[t])
  BY <1>1, <1>2, <1>4, CalmMail DEF Receive
<1>5. ASSUME NEW s \in Services, NEW kind \in Kinds, Send(s, Command(kind, FALSE))
      PROVE  \A t \in Services : Calm(mail'[t])
  BY <1>1, <1>2, <1>5, CalmMail DEF Send
<1>6. ASSUME NEW s \in Services, Take(s) PROVE Fine
  <2>1. Receive(s) /\ mail[s] # <<>> /\ op' = op
    BY <1>6 DEF Take, Got, exec, OffStart, OffStop, DegradedStart, DegradedStop, DegradedShutdown,
                UpStart, UpStop, UpRestart, UpShutdown
  <2>2. ~Head(mail[s]).upgrade
    BY <1>1, <1>2, <2>1, CalmMail
  <2>3. \A t \in Services : loop'[t] # "hook"
    BY <1>1, <1>2, <1>6 DEF Take, At, OffStart, OffStop, DegradedStart, DegradedStop,
                DegradedShutdown, UpStart, UpStop, UpRestart, UpShutdown
  <2>4. \A t \in Services : ~upgraded'[t]
    BY <1>1, <1>2, <1>6, <2>2 DEF Take, OffStart, OffStop, DegradedStart, DegradedStop,
                DegradedShutdown, UpStart, UpStop, UpRestart, UpShutdown
  <2> QED BY <1>1, <1>4, <2>1, <2>3, <2>4
<1>7. ASSUME NEW s \in Services, SeeExit(s) PROVE Fine
  <2>1. mail' = mail /\ op' = op /\ ~SeeUnreadyUpgrade(s)
    BY <1>1, <1>7 DEF SeeExit, SeeUnreadyUpgrade, SeeBindFailed, SeeCrash, exec
  <2>2. \A t \in Services : loop'[t] # "hook" /\ ~upgraded'[t]
    BY <1>1, <1>2, <1>7, <2>1 DEF SeeExit, SeeBindFailed, SeeCrash, At, AfterCrash
  <2> QED BY <1>1, <2>1, <2>2
<1>8. ASSUME NEW s \in Services, Go(s) \/ SeeReady(s) PROVE Fine
  <2>1. mail' = mail /\ op' = op /\ upgraded' = upgraded
    BY <1>8 DEF Go, SeeReady, SpawnFails, SpawnChild, PauseEnds, RollBack, RollBackFails, Hooked, exec
  <2>2. \A t \in Services : loop'[t] # "hook"
    BY <1>1, <1>2, <1>8 DEF Go, SeeReady, SpawnFails, SpawnChild, PauseEnds, RollBack, RollBackFails,
                Hooked, At
  <2> QED BY <1>1, <2>1, <2>2
<1>9. ASSUME NEW s \in Services, ReportReady(s) \/ Exit(s) \/ WindowPasses(s) PROVE Fine
  BY <1>1, <1>9 DEF ReportReady, Exit, WindowPasses, exec
<1>10. ASSUME NEW s \in Services,
              (\E d \in {"on", "off"} : SetDesired(s, d)) \/ Restart(s) \/ TellShutdown(s)
       PROVE  Fine
  <2>1. \E kind \in Kinds : Send(s, Command(kind, FALSE))
    BY <1>10 DEF SetDesired, Restart, TellShutdown, Kinds
  <2>2. op' = op /\ loop' = loop /\ upgraded' = upgraded
    BY <1>10 DEF SetDesired, Restart, TellShutdown, exec
  <2> QED BY <1>1, <1>5, <2>1, <2>2
<1>11. CASE \/ \E kind \in {"update", "rollback"} : Accept(kind)
            \/ Unchanged \/ Installed \/ RestartUpgraded
  <2>1. ~Installed /\ ~RestartUpgraded
    BY <1>1 DEF Installed, RestartUpgraded
  <2>2. op' # "restart" /\ UNCHANGED <<loop, upgraded, mail>>
    BY <1>11, <2>1 DEF Accept, Unchanged
  <2> QED BY <1>1, <1>3, <2>2
<1>12. CASE StopAll
  BY <1>1, <1>3, <1>12 DEF StopAll, exec
<1>13. CASE End
  <2>1. \A t \in Services : loop'[t] # "hook" /\ mail'[t] = <<>>
    BY <1>13 DEF End
  <2>2. op' = op /\ upgraded' = upgraded
    BY <1>13 DEF End, exec
  <2> QED BY <1>1, <1>3, <2>1, <2>2 DEF Calm
<1>14. CASE UNCHANGED vars
  BY <1>1, <1>3, <1>14 DEF vars, exec
<1> QED
  BY <1>3, <1>6, <1>7, <1>8, <1>9, <1>10, <1>11, <1>12, <1>13, <1>14 DEF Next, Supervise

-----------------------------------------------------------------------------
(* The theorems *)

LEMMA InitInv == Init => Inv
<1> SUFFICES ASSUME Init PROVE Inv
  OBVIOUS
<1>1. PICK d \in [Services -> {"on", "off"}] :
        /\ desired = d /\ wanted = d
        /\ loop = [s \in Services |-> IF d[s] = "on" THEN "spawn" ELSE "off"]
        /\ snap = [s \in Services |-> [state |-> IF d[s] = "on" THEN "Starting" ELSE "Stopped",
                                       desired |-> d[s], pid |-> FALSE, failures |-> 0]]
  BY DEF Init
<1>2. TaskType
  BY <1>1 DEF Init, TaskType, Loops
<1>3. MailType /\ CountType /\ DaemonType
  <2>1. MailType
    BY WatchdogAssumption DEF Init, MailType
  <2>2. CountType
    BY LimitFacts DEF Init, CountType
  <2>3. DaemonType
    BY DEF Init, DaemonType
  <2> QED
    BY <2>1, <2>2, <2>3
<1>4. snap \in [Services -> Snaps]
  BY <1>1, LimitFacts DEF Snaps, States
<1>5. ASSUME NEW s \in Services PROVE ChildInv(s) /\ CountInv(s)
  BY <1>1, <1>5, WatchdogAssumption DEF Init, ChildInv, CountInv, Settled
<1> QED
  BY <1>2, <1>3, <1>4, <1>5, TypeParts DEF Inv

LEMMA NextInv == Inv /\ [Next]_vars => Inv'
<1> SUFFICES ASSUME Inv, [Next]_vars PROVE Inv'
  OBVIOUS
<1>1. ASSUME NEW s \in Services, Take(s) PROVE Inv'
  BY <1>1, OffStartInv, OffStopInv, DegradedStartInv, DegradedStopInv, DegradedShutdownInv,
     UpStartInv, UpStopInv, UpRestartInv, UpShutdownInv DEF Take
<1>2. ASSUME NEW s \in Services, SeeExit(s) PROVE Inv'
  BY <1>2, SeeUnreadyUpgradeInv, SeeBindFailedInv, SeeCrashInv DEF SeeExit
<1>3. ASSUME NEW s \in Services, Go(s) PROVE Inv'
  BY <1>3, SpawnFailsInv, SpawnChildInv, PauseEndsInv, RollBackInv, RollBackFailsInv,
     HookedInv DEF Go
<1>4. ASSUME NEW s \in Services, SeeReady(s) \/ ReportReady(s) \/ Exit(s) \/ WindowPasses(s)
      PROVE  Inv'
  BY <1>4, SeeReadyInv, ReportReadyInv, ExitInv, WindowPassesInv
<1>5. ASSUME NEW s \in Services,
             (\E d \in {"on", "off"} : SetDesired(s, d)) \/ Restart(s) \/ TellShutdown(s)
      PROVE  Inv'
  BY <1>5, SetDesiredInv, RestartInv, TellShutdownInv
<1>6. CASE \/ \E kind \in {"update", "rollback"} : Accept(kind)
           \/ Unchanged \/ Installed \/ RestartUpgraded
  BY <1>6, ExecutorInv
<1>7. CASE StopAll \/ End
  BY <1>7, StopAllInv, EndInv
<1>8. CASE UNCHANGED vars
  <2>1. UNCHANGED <<loop, desired, snap, child, count, upgraded, mail, exec, daemon, wanted>>
    BY <1>8 DEF vars
  <2>2. TaskType /\ MailType /\ DaemonType
    BY TypeParts DEF Inv
  <2>3. wanted' \in [Services -> {"on", "off"}] /\ MailType' /\ DaemonType'
    BY <2>1, <2>2 DEF TaskType, MailType, DaemonType, exec, daemon
  <2> QED
    BY <2>1, <2>3, QuietInv
<1> QED
  BY <1>1, <1>2, <1>3, <1>4, <1>5, <1>6, <1>7, <1>8 DEF Next, Supervise

\* The invariant holds throughout.
LEMMA SpecInv == Spec => []Inv
  BY InitInv, NextInv, PTL DEF Spec

\* Every reachable state is well typed: channels keep to their capacity and the
\* counters to their limits, for any services and limits.
THEOREM TypeCorrect == Spec => []TypeOK
<1>1. Inv => TypeOK
  BY DEF Inv
<1> QED
  BY SpecInv, <1>1, PTL

\* A service reported as settled has no running child, so what shutdown_all waits
\* for is that every child is down (services.rs 301-315).
THEOREM SettledAreDown == Spec => []SettledMeansDown
<1>1. Inv => SettledMeansDown
  BY DEF Inv, ChildInv, SettledMeansDown
<1> QED
  BY SpecInv, <1>1, PTL

\* A service is given up only after max_spawn_failures starts in a row have failed.
THEOREM GivenUpAtLimit == Spec => []GivesUpOnlyAtLimit
<1>1. Inv => GivesUpOnlyAtLimit
  BY DEF Inv, CountInv, GivesUpOnlyAtLimit
<1> QED
  BY SpecInv, <1>1, PTL

\* Only a binary that was installed is rolled back, however commands, starts and exits
\* follow each other.
THEOREM RollsBackInstalled == Spec => []RollsBackInstalledOnly
<1>1. Init => MarkInv
  BY DEF Init, MarkInv, Unmarked
<1>2. Inv /\ MarkInv /\ [Next]_vars => MarkInv'
  BY MarkStep
<1>3. Inv /\ MarkInv => RollsBackInstalledOnly
  BY DEF MarkInv, Unmarked, RollsBackInstalledOnly
<1> QED
  BY SpecInv, <1>1, <1>2, <1>3, PTL DEF Spec

-----------------------------------------------------------------------------
(* Commands *)

\* The task of service s still reads its commands.
Serves(s) == loop[s] \notin {"ended", "killed"}
Asks(c)   == IF c.kind = "stop" THEN "off" ELSE "on"
OnlyShutdownsAfter(s, i) ==
  \A j \in DOMAIN mail[s] : j > i => mail[s][j].kind = "shutdown"

\* What was asked of s last is its desired state, unless the command is still unread.
Heard(s) ==
  \/ wanted[s] = desired[s] /\ OnlyShutdownsAfter(s, 0)
  \/ \E i \in DOMAIN mail[s] :
       /\ mail[s][i].kind # "shutdown" /\ Asks(mail[s][i]) = wanted[s]
       /\ OnlyShutdownsAfter(s, i)
\* The task is where its desired state says.
Obeys(s) == loop[s] = "off" <=> desired[s] = "off"
Told(s)  == \E i \in DOMAIN mail[s] : mail[s][i].kind = "shutdown"

MailInv ==
  /\ Core \in Services => wanted[Core] = "on"
  /\ \A s \in Services : Serves(s) => Heard(s) /\ Obeys(s)
  /\ main = "closing" => \A s \in Services \ untold : Serves(s) => Told(s)

\* A task that has read its mail does what was last asked of it ...
DoesAsAsked ==
  \A s \in Services : Serves(s) /\ mail[s] = <<>> => (wanted[s] = "off" <=> loop[s] = "off")
\* ... and one that serves on while the watchdog closes has its shutdown to read.
ShutdownInMail ==
  main = "closing" => \A s \in Services \ untold : Serves(s) => Told(s)

LEMMA MailKept ==
  ASSUME NEW s \in Services,
         mail'[s] = mail[s], desired'[s] = desired[s], wanted'[s] = wanted[s]
  PROVE  (Heard(s) => Heard(s)') /\ (Told(s) => Told(s)')
  BY DEF Heard, Told, OnlyShutdownsAfter

\* A command read is obeyed at once, and what is behind it moves up.
LEMMA MailReceived ==
  ASSUME Inv, MailInv, NEW s \in Services, mail[s] # <<>>, Receive(s), Serves(s),
         wanted' = wanted, Head(mail[s]).kind # "shutdown", desired'[s] = Asks(Head(mail[s]))
  PROVE  Heard(s)' /\ (Told(s) => Told(s)')
<1>1. mail[s] \in Seq(Commands) /\ mail'[s] = Tail(mail[s])
  BY DEF Inv, TypeOK, Receive
<1>2. Heard(s) /\ Head(mail[s]) = mail[s][1] /\ DOMAIN mail[s] = 1..Len(mail[s]) /\ Len(mail[s]) \in Nat
  BY <1>1 DEF MailInv
<1>3. /\ DOMAIN mail'[s] = 1..(Len(mail[s]) - 1)
      /\ \A i \in DOMAIN mail'[s] : i + 1 \in DOMAIN mail[s] /\ mail'[s][i] = mail[s][i + 1]
  BY <1>1, <1>2
<1>4. PICK i \in DOMAIN mail[s] :
        /\ mail[s][i].kind # "shutdown" /\ Asks(mail[s][i]) = wanted[s]
        /\ OnlyShutdownsAfter(s, i)
  BY <1>1, <1>2 DEF Heard, OnlyShutdownsAfter
<1>5. Heard(s)'
  <2>1. CASE i = 1
    <3>1. wanted'[s] = desired'[s]
      BY <1>2, <1>4, <2>1
    <3>2. \A j \in DOMAIN mail'[s] : mail'[s][j].kind = "shutdown"
      BY <1>2, <1>3, <1>4, <2>1 DEF OnlyShutdownsAfter
    <3> QED
      BY <3>1, <3>2 DEF Heard, OnlyShutdownsAfter
  <2>2. CASE i # 1
    <3>0. i \in Int /\ (i - 1) + 1 = i /\ i - 1 \in DOMAIN mail'[s]
      BY <1>2, <1>3, <2>2
    <3>1. i - 1 \in DOMAIN mail'[s] /\ mail'[s][i - 1] = mail[s][i]
      BY <1>3, <3>0
    <3>2. \A j \in DOMAIN mail'[s] : j > i - 1 => mail'[s][j].kind = "shutdown"
      <4>1. ASSUME NEW j \in DOMAIN mail'[s], j > i - 1 PROVE j + 1 \in DOMAIN mail[s] /\ j + 1 > i
        BY <1>2, <1>3, <3>0, <4>1
      <4> QED
        BY <1>3, <1>4, <4>1 DEF OnlyShutdownsAfter
    <3> QED
      BY <1>4, <3>1, <3>2 DEF Heard, OnlyShutdownsAfter, Asks
  <2> QED
    BY <2>1, <2>2
<1>6. ASSUME Told(s) PROVE Told(s)'
  <2>1. PICK j \in DOMAIN mail[s] : mail[s][j].kind = "shutdown"
    BY <1>6 DEF Told
  <2>2. mail[s] # <<>> /\ j # 1
    BY <1>2, <2>1
  <2>3. j \in Int /\ (j - 1) + 1 = j /\ j - 1 \in DOMAIN mail'[s]
    BY <1>2, <1>3, <2>2
  <2>4. mail'[s][j - 1] = mail[s][j]
    BY <1>3, <2>3
  <2> QED
    BY <2>1, <2>3, <2>4 DEF Told
<1> QED
  BY <1>5, <1>6

\* A command sent is read in the end, or the task it is sent to has ended.
LEMMA MailSent ==
  ASSUME Inv, MailInv, NEW s \in Services, NEW c \in Commands, Send(s, c), Serves(s),
         desired' = desired,
         wanted'[s] = IF c.kind = "shutdown" THEN wanted[s] ELSE Asks(c)
  PROVE  Heard(s)' /\ (Told(s) \/ c.kind = "shutdown" => Told(s)')
<1>1. mail[s] \in Seq(Commands) /\ mail'[s] = Append(mail[s], c)
  BY DEF Inv, TypeOK, Send, Serves
<1>2. Heard(s) /\ DOMAIN mail[s] = 1..Len(mail[s]) /\ Len(mail[s]) \in Nat
  BY <1>1 DEF MailInv
<1> DEFINE n == Len(mail[s]) + 1
<1>3. /\ DOMAIN mail'[s] = 1..n /\ n \in DOMAIN mail'[s] /\ mail'[s][n] = c
      /\ \A i \in DOMAIN mail[s] : i \in DOMAIN mail'[s] /\ mail'[s][i] = mail[s][i]
      /\ \A i \in DOMAIN mail'[s] : i = n \/ i \in DOMAIN mail[s]
  BY <1>1, <1>2
<1>4. Told(s) \/ c.kind = "shutdown" => Told(s)'
  BY <1>3 DEF Told
<1>5. CASE c.kind = "shutdown"
  <2>1. ASSUME NEW i \in Int, OnlyShutdownsAfter(s, i) PROVE OnlyShutdownsAfter(s, i)'
    BY <1>3, <1>5, <2>1 DEF OnlyShutdownsAfter
  <2>2. 0 \in Int /\ \A i \in DOMAIN mail[s] : i \in Int
    BY <1>2
  <2> QED
    BY <1>2, <1>3, <1>4, <1>5, <2>1, <2>2 DEF Heard, Asks
<1>6. CASE c.kind # "shutdown"
  <2>1. \A j \in DOMAIN mail'[s] : ~(j > n)
    BY <1>2, <1>3
  <2>2. mail'[s][n] = c /\ wanted'[s] = Asks(c) /\ n \in DOMAIN mail'[s]
    BY <1>3, <1>6
  <2> HIDE DEF n
  <2> QED
    BY <1>4, <1>6, <2>1, <2>2 DEF Heard, OnlyShutdownsAfter, Asks
<1> QED
  BY <1>5, <1>6

\* The ways in which a step preserves the invariant: nothing is sent or read ...
LEMMA QuietMail ==
  ASSUME MailInv, NEW s \in Services,
         UNCHANGED <<mail, desired, wanted, main, untold>>,
         \A t \in Services \ {s} : loop'[t] = loop[t],
         Serves(s)' => Serves(s) /\ (loop'[s] = "off" <=> loop[s] = "off")
  PROVE  MailInv'
<1>1. \A t \in Services : Serves(t)' => Serves(t) /\ (Obeys(t) => Obeys(t)')
  BY DEF Serves, Obeys
<1> QED
  BY <1>1, MailKept DEF MailInv

\* ... the task of s reads a command, obeys it, or ends by it ...
LEMMA ReadMail ==
  ASSUME Inv, MailInv, NEW s \in Services,
         mail[s] # <<>>, Receive(s), Serves(s), wanted' = wanted, UNCHANGED <<main, untold>>,
         \A t \in Services \ {s} : loop'[t] = loop[t] /\ desired'[t] = desired[t],
         \/ ~Serves(s)'
         \/ /\ Head(mail[s]).kind # "shutdown" /\ desired'[s] = Asks(Head(mail[s]))
            /\ loop'[s] = "off" <=> desired'[s] = "off"
  PROVE  MailInv'
<1>1. ASSUME NEW t \in Services \ {s} PROVE /\ Serves(t)' => Serves(t)
                                           /\ (Heard(t) => Heard(t)') /\ (Told(t) => Told(t)')
                                           /\ (Obeys(t) => Obeys(t)')
  <2>1. mail'[t] = mail[t]
    BY DEF Inv, TypeOK, Receive
  <2> QED
    BY <2>1, MailKept DEF Serves, Obeys
<1>2. Serves(s)' => Heard(s)' /\ Obeys(s)' /\ (Told(s) => Told(s)')
  BY MailReceived DEF Obeys
<1> QED
  BY <1>1, <1>2 DEF MailInv

\* ... or somebody sends it one.
LEMMA SendMail ==
  ASSUME Inv, MailInv, NEW s \in Services, NEW c \in Commands, Send(s, c),
         UNCHANGED <<loop, desired, main>>,
         untold' = IF c.kind = "shutdown" THEN untold \ {s} ELSE untold,
         wanted' = [wanted EXCEPT ![s] = IF c.kind = "shutdown" THEN @ ELSE Asks(c)],
         s = Core => wanted'[s] = "on"
  PROVE  MailInv'
<1>1. /\ wanted'[s] = IF c.kind = "shutdown" THEN wanted[s] ELSE Asks(c)
      /\ \A t \in Services \ {s} : wanted'[t] = wanted[t]
  BY DEF Inv, TypeOK
<1>2. ASSUME NEW t \in Services \ {s} PROVE (Heard(t) => Heard(t)') /\ (Told(t) => Told(t)')
  <2>1. mail'[t] = mail[t]
    BY DEF Inv, TypeOK, Send
  <2> QED
    BY <1>1, <2>1, MailKept
<1>3. Serves(s) => Heard(s)' /\ (Told(s) \/ c.kind = "shutdown" => Told(s)')
  BY <1>1, MailSent
<1>4. \A t \in Services : Serves(t)' = Serves(t) /\ Obeys(t)' = Obeys(t)
  BY DEF Serves, Obeys
<1> QED
  BY <1>1, <1>2, <1>3, <1>4 DEF MailInv

LEMMA TakeMail ==
  ASSUME Inv, MailInv, NEW s \in Services, Take(s)
  PROVE  MailInv'
<1>1. /\ loop \in [Services -> Loops] /\ desired \in [Services -> {"on", "off"}]
      /\ mail \in [Services -> Seq(Commands)]
  BY DEF Inv, TypeOK
<1>2. /\ mail[s] # <<>> /\ Receive(s) /\ wanted' = wanted /\ UNCHANGED <<main, untold>>
      /\ Serves(s) /\ Head(mail[s]).kind \in Kinds
  BY DEF Take, OffStart, OffStop, DegradedStart, DegradedStop, DegradedShutdown, UpStart, UpStop,
         UpRestart, UpShutdown, Got, Serves, daemon, Kinds
<1>3. Obeys(s)
  BY <1>2 DEF MailInv
<1>4. CASE OffStart(s)
  BY <1>1, <1>2, <1>4, ReadMail DEF OffStart, Desire, At, Got, Asks
<1>5. CASE OffStop(s) \/ DegradedShutdown(s) \/ UpShutdown(s)
  BY <1>1, <1>2, <1>5, ReadMail DEF OffStop, DegradedShutdown, UpShutdown, At, Serves
<1>6. CASE DegradedStart(s) \/ UpRestart(s)
  BY <1>1, <1>2, <1>3, <1>6, ReadMail DEF DegradedStart, UpRestart, At, Got, Asks, Obeys
<1>7. CASE DegradedStop(s) \/ UpStop(s)
  BY <1>1, <1>2, <1>7, ReadMail DEF DegradedStop, UpStop, Desire, At, Got, Asks
<1>8. CASE UpStart(s)
  BY <1>1, <1>2, <1>3, <1>8, ReadMail DEF UpStart, Got, Asks, Obeys
<1> QED
  BY <1>4, <1>5, <1>6, <1>7, <1>8 DEF Take

LEMMA NextMail ==
  ASSUME Inv, MailInv, [Next]_vars
  PROVE  MailInv'
<1>1. loop \in [Services -> Loops] /\ (Core \in Services => wanted[Core] = "on")
  BY DEF Inv, TypeOK, MailInv
<1>2. ASSUME NEW s \in Services, Take(s) PROVE MailInv'
  BY <1>2, TakeMail
<1>3. ASSUME NEW s \in Services, SeeReady(s) \/ SeeExit(s) \/ Go(s) PROVE MailInv'
  <2>1. UNCHANGED <<mail, desired, wanted, main, untold>>
    BY <1>3 DEF SeeReady, SeeExit, SeeUnreadyUpgrade, SeeBindFailed, SeeCrash, Go, SpawnFails,
                SpawnChild, PauseEnds, RollBack, RollBackFails, Hooked, daemon
  <2>2. /\ \A t \in Services \ {s} : loop'[t] = loop[t]
        /\ Serves(s)' => Serves(s) /\ (loop'[s] = "off" <=> loop[s] = "off")
    <3>1. CASE SeeReady(s)
      BY <3>1 DEF SeeReady, Serves
    <3>2. PICK place \in Loops \ {"off"} :
            ~SeeReady(s) => At(s, place) /\ loop[s] # "off" /\ Serves(s)
      BY <1>3 DEF SeeExit, SeeUnreadyUpgrade, SeeBindFailed, SeeCrash, Go, SpawnFails, Serves,
                  SpawnChild, PauseEnds, RollBack, RollBackFails, Hooked, Loops, AfterCrash
    <3>3. CASE ~SeeReady(s)
      BY <1>1, <3>2, <3>3 DEF At
    <3> QED
      BY <3>1, <3>3
  <2> QED
    BY <2>1, <2>2, QuietMail
<1>4. ASSUME NEW s \in Services, ReportReady(s) \/ Exit(s) \/ WindowPasses(s) PROVE MailInv'
  BY <1>4, QuietMail DEF ReportReady, Exit, WindowPasses, daemon, Serves
<1>5. ASSUME NEW s \in Services, NEW d \in {"on", "off"}, SetDesired(s, d) PROVE MailInv'
  <2> DEFINE c == Command(IF d = "on" THEN "start" ELSE "stop", FALSE)
  <2>1. c \in Commands /\ c.kind # "shutdown" /\ Asks(c) = d
    BY DEF Command, Commands, Kinds, Asks
  <2>2. Send(s, c) /\ s # Core /\ wanted' = [wanted EXCEPT ![s] = d]
        /\ UNCHANGED <<loop, desired, main, untold>>
    BY <1>5 DEF SetDesired, daemon
  <2> HIDE DEF c
  <2> QED
    BY <2>1, <2>2, SendMail
<1>6. ASSUME NEW s \in Services, Restart(s) PROVE MailInv'
  <2> DEFINE c == Command("restart", FALSE)
  <2>1. c \in Commands /\ c.kind # "shutdown" /\ Asks(c) = "on"
    BY DEF Command, Commands, Kinds, Asks
  <2>2. Send(s, c) /\ wanted' = [wanted EXCEPT ![s] = "on"] /\ wanted'[s] = "on"
        /\ UNCHANGED <<loop, desired, main, untold>>
    BY <1>6 DEF Restart, daemon, Inv, TypeOK
  <2> HIDE DEF c
  <2> QED
    BY <2>1, <2>2, SendMail
<1>7. ASSUME NEW s \in Services, TellShutdown(s) PROVE MailInv'
  <2> DEFINE c == Command("shutdown", FALSE)
  <2>1. c \in Commands /\ c.kind = "shutdown"
    BY DEF Command, Commands, Kinds
  <2>2. Send(s, c) /\ wanted' = wanted /\ untold' = untold \ {s}
        /\ UNCHANGED <<loop, desired, main>>
    BY <1>7 DEF TellShutdown
  <2>3. wanted' = [wanted EXCEPT ![s] = IF c.kind = "shutdown" THEN @ ELSE Asks(c)]
        /\ (s = Core => wanted'[s] = "on")
    BY <1>1, <2>1, <2>2 DEF Inv, TypeOK
  <2> HIDE DEF c
  <2> QED
    BY <2>1, <2>2, <2>3, SendMail
<1>8. CASE RestartUpgraded /\ Core \in Services
  <2> DEFINE c == Command("restart", TRUE)
  <2>1. c \in Commands /\ c.kind # "shutdown" /\ Asks(c) = "on"
    BY DEF Command, Commands, Kinds, Asks
  <2>2. Send(Core, c) /\ wanted' = [wanted EXCEPT ![Core] = "on"] /\ wanted'[Core] = "on"
        /\ UNCHANGED <<loop, desired, main, untold>>
    BY <1>1, <1>8 DEF RestartUpgraded, daemon, Inv, TypeOK
  <2> HIDE DEF c
  <2> QED
    BY <1>8, <2>1, <2>2, SendMail
<1>9. CASE (\E kind \in {"update", "rollback"} : Accept(kind)) \/ Unchanged \/ Installed
           \/ UNCHANGED vars \/ (RestartUpgraded /\ Core \notin Services)
  <2>1. UNCHANGED <<mail, desired, wanted, loop, main, untold>>
    <3>1. CASE RestartUpgraded /\ Core \notin Services
      <4>1. mail \in [Services -> Seq(Commands)]
        BY DEF Inv, TypeOK
      <4>2. \A x : [mail EXCEPT ![Core] = x] = mail
        BY <3>1, <4>1
      <4> QED
        BY <3>1, <4>2 DEF RestartUpgraded, Send, daemon
    <3> QED
      BY <1>9, <3>1 DEF Accept, Unchanged, Installed, vars, daemon
  <2> QED
    BY <2>1, MailKept DEF MailInv, Serves, Obeys
<1>10. CASE StopAll
  BY <1>10, MailKept DEF StopAll, MailInv, Serves, Obeys
<1>11. CASE End
  BY <1>11 DEF End, MailInv, Serves
<1> QED
  BY <1>2, <1>3, <1>4, <1>5, <1>6, <1>7, <1>8, <1>9, <1>10, <1>11 DEF Next, Supervise

LEMMA MailInvariant == Spec => []MailInv
<1>1. Init => MailInv
  BY DEF Init, MailInv, Heard, Obeys, OnlyShutdownsAfter
<1> QED
  BY SpecInv, NextMail, <1>1, PTL DEF Spec

\* No command is lost or overtaken (supervisor.rs 475-507 and 570-592): whatever a
\* service has been told, while it crashed, cooled down, backed off or was rolled back, once
\* its task has read its mail the service is off if and only if a stop was the last.
THEOREM CommandsAreObeyed == Spec => []DoesAsAsked
<1>1. Inv /\ MailInv => DoesAsAsked
  <2> SUFFICES ASSUME Inv, MailInv, NEW s \in Services, Serves(s), mail[s] = <<>>
               PROVE  wanted[s] = "off" <=> loop[s] = "off"
    BY DEF DoesAsAsked
  <2>1. wanted[s] = desired[s]
    BY DEF MailInv, Heard
  <2> QED
    BY <2>1 DEF MailInv, Obeys
<1> QED
  BY SpecInv, MailInvariant, <1>1, PTL

\* shutdown_all reaches every task (services.rs 290-299): a task it has told and that serves
\* on has the shutdown in its mail, behind whatever was sent before it.
THEOREM ShutdownsAreDelivered == Spec => []ShutdownInMail
<1>1. MailInv => ShutdownInMail
  BY DEF MailInv, ShutdownInMail
<1> QED
  BY MailInvariant, <1>1, PTL
=============================================================================
