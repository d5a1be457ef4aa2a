------------------------------- MODULE Watchdog -------------------------------
(***************************************************************************)
(* The watchdog (`sebas run`): one supervision task per managed service    *)
(* (src/watchdog/supervisor.rs), the commands the control plane sends to   *)
(* them (services.rs, executor.rs), the roll-back hook of the core and the *)
(* main task that waits for a signal or a failed start (src/watchdog.rs).  *)
(*                                                                         *)
(* loop[s] says at which await the supervision task of s stands; a step    *)
(* is the code from one await to the next.  Only the core has a readiness  *)
(* handshake, and only the core is upgraded.  Times are left out: that the *)
(* window of a counter has passed is a step of its own, which only a       *)
(* service that has been up, off or degraded for long can take.            *)
(***************************************************************************)
EXTENDS Integers, Sequences

CONSTANTS
  Services,    \* the managed services
  Core,        \* the one with a readiness handshake, if it is among them
  MaxFails,    \* max_spawn_failures: failed starts in a row before giving up
  MaxCrashes,  \* MAX_CRASHES, the crashes tolerated before a cool-down
  MailCap      \* capacity of a supervision task's command channel

ASSUME WatchdogAssumption ==
  MaxFails \in Nat \ {0} /\ MaxCrashes \in Nat \ {0} /\ MailCap \in Nat \ {0}

VARIABLES
  loop,      \* loop[s]: where the supervision task stands
  desired,   \* desired[s]: its desired state, "on" or "off"
  snap,      \* snap[s]: the snapshot it publishes
  mail,      \* mail[s]: commands not yet received
  alive,     \* alive[s]: the child, "none", "up", "dead" or "dead75"
  signal,    \* signal[s]: the child has reported ready and it was not yet read
  ready,     \* ready[s]: received_ready of the current incarnation
  fails,     \* fails[s]: failed starts counted
  crashes,   \* crashes[s]: crashes counted
  late,      \* late[s]: the counters whose window has passed
  upgraded,  \* upgraded[s]: just_performed_update
  op,        \* the exclusive operation of the executor
  binary,    \* the binary installed for the core
  since,     \* whether the core's child was started after it was installed
  event,     \* a failed start reported on the channel the main task reads
  main,      \* the main task
  untold,    \* services that shutdown_all has yet to tell
  wanted,    \* history: wanted[s], what the last command sent asks for
  streak     \* history: streak[s], starts that failed since one succeeded

child  == <<alive, signal, ready>>
count  == <<fails, crashes, late, streak>>
exec   == <<op, binary, since>>
daemon == <<event, main, untold>>
vars   == <<loop, desired, snap, mail, child, count, upgraded, exec, daemon, wanted>>

Kinds    == {"start", "stop", "restart", "shutdown"}
Commands == [kind : Kinds, upgrade : BOOLEAN]
Command(kind, upgrade) == [kind |-> kind, upgrade |-> upgrade]
States   == {"Starting", "Running", "Restarting", "Stopped", "Degraded", "FailedStartup"}
Snaps    == [state : States, desired : {"on", "off"}, pid : BOOLEAN, failures : 0..MaxFails]
Windows  == {"fails", "crashes"}
\* "off" and "degraded" wait for a command only; "up" waits for a command, the
\* readiness signal or the end of the child; "backoff" and "cooldown" sleep.
Loops    == {"off", "degraded", "spawn", "up", "hook", "hooked", "backoff", "cooldown",
             "ended", "killed"}

Gated(s)     == s = Core
Confirmed(s) == ready[s] \/ ~Gated(s)     \* startup_confirmed
HasRoom(s)   == Len(mail[s]) < MailCap

\* The counts after one more failure: a count whose window has passed starts anew.
Failed(s)  == IF "fails" \in late[s] THEN 1 ELSE fails[s] + 1
Crashed(s) == IF "crashes" \in late[s] THEN 1 ELSE crashes[s] + 1
\* Mutant: one failure more is tolerated.
GivesUpAfter(s) == Failed(s) > MaxFails
GivesUp(s) == Failed(s) >= MaxFails   \* with this failure, SpawnFailureDecision::Terminal
Longer(s)  == [streak EXCEPT ![s] = IF @ < MaxFails THEN @ + 1 ELSE @]

Snap(s, fields)  == snap' = [snap EXCEPT ![s] = fields]
At(s, place)     == loop' = [loop EXCEPT ![s] = place]
Desire(s, d)     == desired' = [desired EXCEPT ![s] = d]
Receive(s)       == mail' = [mail EXCEPT ![s] = Tail(@)]
Got(s, kinds)    == mail[s] # <<>> /\ Head(mail[s]).kind \in kinds
NoChild(s)       == alive' = [alive EXCEPT ![s] = "none"] /\ UNCHANGED <<signal, ready>>
ForgetCrashes(s) == /\ crashes' = [crashes EXCEPT ![s] = 0]
                    /\ late' = [late EXCEPT ![s] = @ \ {"crashes"}]
\* Mutant: the failed starts are still counted after a start that succeeded.
ForgetFailsNot(s) == streak' = [streak EXCEPT ![s] = 0] /\ UNCHANGED <<fails, late>>
ForgetFails(s)   == /\ fails' = [fails EXCEPT ![s] = 0]
                    /\ late' = [late EXCEPT ![s] = @ \ {"fails"}]
                    /\ streak' = [streak EXCEPT ![s] = 0]

-----------------------------------------------------------------------------
(* The supervision task while there is no child *)

\* A disabled service: a start or a restart enables it.
OffStart(s) ==
  /\ loop[s] = "off" /\ Got(s, {"start", "restart"}) /\ Receive(s)
  /\ Desire(s, "on") /\ Snap(s, [snap[s] EXCEPT !.desired = "on"])
  /\ ForgetCrashes(s) /\ At(s, "spawn")
  /\ UNCHANGED <<child, fails, streak, upgraded, exec, daemon, wanted>>

\* ... and a stop ends the task, as a shutdown does.
OffStop(s) ==
  /\ loop[s] = "off" /\ Got(s, {"stop", "shutdown"}) /\ Receive(s)
  /\ At(s, "ended")
  /\ UNCHANGED <<desired, snap, child, count, upgraded, exec, daemon, wanted>>

DegradedStart(s) ==
  /\ loop[s] = "degraded" /\ Got(s, {"start", "restart"}) /\ Receive(s)
  /\ Snap(s, [snap[s] EXCEPT !.state = "Restarting"])
  /\ ForgetCrashes(s) /\ At(s, "spawn")
  /\ UNCHANGED <<desired, child, fails, streak, upgraded, exec, daemon, wanted>>

\* Mutant: the stop clears the degraded state and forgets the desired one.
DegradedStopForgets(s) ==
  /\ loop[s] = "degraded" /\ Got(s, {"stop"}) /\ Receive(s)
  /\ Snap(s, [snap[s] EXCEPT !.state = "Stopped"])
  /\ At(s, "spawn")
  /\ UNCHANGED <<desired, child, count, upgraded, exec, daemon, wanted>>

DegradedStop(s) ==
  /\ loop[s] = "degraded" /\ Got(s, {"stop"}) /\ Receive(s)
  /\ Desire(s, "off") /\ Snap(s, [snap[s] EXCEPT !.state = "Stopped"])
  /\ At(s, "off")
  /\ UNCHANGED <<child, count, upgraded, exec, daemon, wanted>>

DegradedShutdown(s) ==
  /\ loop[s] = "degraded" /\ Got(s, {"shutdown"}) /\ Receive(s)
  /\ Snap(s, [snap[s] EXCEPT !.state = "Stopped", !.pid = FALSE])
  /\ At(s, "ended")
  /\ UNCHANGED <<desired, child, count, upgraded, exec, daemon, wanted>>

\* The spawn fails: retry after a pause, or give up at the limit.  The failure goes
\* to a channel of the task's own (start_supervision), not to the main task's.
SpawnFails(s) ==
  /\ loop[s] = "spawn"
  /\ fails' = [fails EXCEPT ![s] = Failed(s)] /\ late' = [late EXCEPT ![s] = @ \ {"fails"}]
  /\ streak' = Longer(s)
  /\ Snap(s, [snap[s] EXCEPT !.failures = Failed(s),
                             !.state = IF GivesUp(s) THEN "FailedStartup" ELSE "Restarting"])
  /\ At(s, IF GivesUp(s) THEN "ended" ELSE "backoff")
  /\ UNCHANGED <<desired, mail, child, crashes, upgraded, exec, daemon, wanted>>

\* Mutant: an ungated child is not reported as running.
SpawnedUntold(s) ==
  IF Gated(s) THEN [snap[s] EXCEPT !.state = "Starting", !.pid = TRUE]
              ELSE [snap[s] EXCEPT !.pid = TRUE, !.failures = 0]

Spawned(s) ==
  IF Gated(s) THEN [snap[s] EXCEPT !.state = "Starting", !.pid = TRUE]
              ELSE [snap[s] EXCEPT !.state = "Running", !.pid = TRUE, !.failures = 0]

SpawnChild(s) ==
  /\ loop[s] = "spawn"
  /\ alive' = [alive EXCEPT ![s] = "up"]
  /\ signal' = [signal EXCEPT ![s] = FALSE] /\ ready' = [ready EXCEPT ![s] = FALSE]
  /\ since' = (since \/ s = Core)
  /\ Snap(s, Spawned(s))
  /\ IF Gated(s) THEN UNCHANGED <<fails, late, streak>> ELSE ForgetFails(s)
  /\ At(s, "up")
  /\ UNCHANGED <<desired, mail, crashes, upgraded, op, binary, daemon, wanted>>

\* The pause or the cool-down is over; commands sent meanwhile are still unread.
PauseEnds(s) ==
  /\ loop[s] \in {"backoff", "cooldown"} /\ At(s, "spawn")
  /\ UNCHANGED <<desired, snap, mail, child, count, upgraded, exec, daemon, wanted>>

-----------------------------------------------------------------------------
(* The supervision task while there is a child: select! over three branches *)

UpStart(s) ==
  /\ loop[s] = "up" /\ Got(s, {"start"}) /\ Receive(s)
  /\ UNCHANGED <<loop, desired, snap, child, count, upgraded, exec, daemon, wanted>>

UpStop(s) ==
  /\ loop[s] = "up" /\ Got(s, {"stop"}) /\ Receive(s)
  /\ Desire(s, "off") /\ NoChild(s)
  /\ Snap(s, [snap[s] EXCEPT !.state = "Stopped", !.desired = "off", !.pid = FALSE])
  /\ At(s, "off")
  /\ UNCHANGED <<count, upgraded, exec, daemon, wanted>>

UpRestart(s) ==
  /\ loop[s] = "up" /\ Got(s, {"restart"}) /\ Receive(s)
  /\ upgraded' = [upgraded EXCEPT ![s] = @ \/ Head(mail[s]).upgrade]
  /\ NoChild(s) /\ ForgetCrashes(s)
  /\ At(s, "spawn")
  /\ UNCHANGED <<desired, snap, fails, streak, exec, daemon, wanted>>

UpShutdown(s) ==
  /\ loop[s] = "up" /\ Got(s, {"shutdown"}) /\ Receive(s)
  /\ NoChild(s) /\ Snap(s, [snap[s] EXCEPT !.state = "Stopped", !.pid = FALSE])
  /\ At(s, "ended")
  /\ UNCHANGED <<desired, count, upgraded, exec, daemon, wanted>>

\* The readiness branch.  A new binary is "ready" if it got ready before the restart
\* that ends its upgrade, "proven" if after it.
SeeReady(s) ==
  /\ loop[s] = "up" /\ signal[s]
  /\ signal' = [signal EXCEPT ![s] = FALSE] /\ ready' = [ready EXCEPT ![s] = TRUE]
  /\ Snap(s, [snap[s] EXCEPT !.state = "Running", !.failures = 0])
  /\ ForgetFails(s)
  /\ binary' = IF ~since \/ binary \notin {"new", "ready"} THEN binary
                ELSE IF upgraded[s] THEN "proven" ELSE "ready"
  /\ UNCHANGED <<loop, desired, mail, alive, crashes, upgraded, op, since, daemon, wanted>>

\* The child of a service marked as upgraded exited without being ready.
SeeUnreadyUpgrade(s) ==
  /\ loop[s] = "up" /\ alive[s] \in {"dead", "dead75"} /\ upgraded[s] /\ ~ready[s]
  /\ NoChild(s) /\ Snap(s, [snap[s] EXCEPT !.pid = FALSE])
  /\ upgraded' = [upgraded EXCEPT ![s] = FALSE]
  /\ At(s, "hook")
  /\ UNCHANGED <<desired, mail, count, exec, daemon, wanted>>

\* Exit code 75: a port is taken; wait for a command.
SeeBindFailed(s) ==
  /\ loop[s] = "up" /\ alive[s] = "dead75" /\ ~(upgraded[s] /\ ~ready[s])
  /\ NoChild(s) /\ Snap(s, [snap[s] EXCEPT !.state = "Degraded", !.pid = FALSE])
  /\ upgraded' = [upgraded EXCEPT ![s] = FALSE]
  /\ At(s, "degraded")
  /\ UNCHANGED <<desired, mail, count, exec, daemon, wanted>>

\* Mutant: over the limit of crashes the task ends.
AfterCrashEnd(s) == IF Crashed(s) > MaxCrashes THEN "ended" ELSE "backoff"
AfterCrash(s)    == IF Crashed(s) > MaxCrashes THEN "cooldown" ELSE "backoff"

\* Any other exit.  Before the start was confirmed it counts as a failed start,
\* and may be one too many; it counts as a crash as well, and over the limit of
\* crashes the task cools down.
SeeCrash(s) ==
  LET startFailed == ~Confirmed(s)
      giveUp == startFailed /\ GivesUp(s) IN
  /\ loop[s] = "up" /\ alive[s] = "dead" /\ ~(upgraded[s] /\ ~ready[s])
  /\ NoChild(s) /\ upgraded' = [upgraded EXCEPT ![s] = FALSE]
  /\ IF startFailed
     THEN fails' = [fails EXCEPT ![s] = Failed(s)] /\ streak' = Longer(s)
     ELSE UNCHANGED <<fails, streak>>
  /\ crashes' = [crashes EXCEPT ![s] =
       IF giveUp THEN @ ELSE IF Crashed(s) > MaxCrashes THEN 0 ELSE Crashed(s)]
  /\ late' = [late EXCEPT ![s] = @ \ ((IF startFailed THEN {"fails"} ELSE {})
                                      \cup (IF giveUp THEN {} ELSE {"crashes"}))]
  /\ Snap(s, [snap[s] EXCEPT !.pid = FALSE,
                             !.failures = IF startFailed THEN Failed(s) ELSE @,
                             !.state = IF giveUp THEN "FailedStartup" ELSE "Restarting"])
  /\ At(s, IF giveUp THEN "ended" ELSE AfterCrash(s))
  /\ UNCHANGED <<desired, mail, exec, daemon, wanted>>

-----------------------------------------------------------------------------
(* The roll-back hook of the core *)

RollBack(s) ==
  /\ loop[s] = "hook" /\ binary' = "restored" /\ since' = FALSE
  /\ At(s, "hooked")
  /\ UNCHANGED <<desired, snap, mail, child, count, upgraded, op, daemon, wanted>>

\* No version to go back to, or the copy fails: this event does reach the main task.
RollBackFails(s) ==
  /\ loop[s] = "hook" /\ event' = TRUE
  /\ Snap(s, [snap[s] EXCEPT !.state = "FailedStartup", !.failures = 1])
  /\ At(s, "hooked")
  /\ UNCHANGED <<desired, mail, child, count, upgraded, exec, main, untold, wanted>>

\* Either way the task goes on as after a crash that does not count.
Hooked(s) ==
  /\ loop[s] = "hooked" /\ Snap(s, [snap[s] EXCEPT !.state = "Restarting"])
  /\ At(s, "backoff")
  /\ UNCHANGED <<desired, mail, child, count, upgraded, exec, daemon, wanted>>

-----------------------------------------------------------------------------
(* The child and the clock *)

ReportReady(s) ==
  /\ alive[s] = "up" /\ Gated(s) /\ ~ready[s] /\ ~signal[s]
  /\ signal' = [signal EXCEPT ![s] = TRUE]
  /\ UNCHANGED <<loop, desired, snap, mail, alive, ready, count, upgraded, exec, daemon, wanted>>

Exit(s) ==
  /\ alive[s] = "up"
  /\ \E how \in {"dead", "dead75"} : alive' = [alive EXCEPT ![s] = how]
  /\ UNCHANGED <<loop, desired, snap, mail, signal, ready, count, upgraded, exec, daemon, wanted>>

WindowPasses(s) ==
  /\ loop[s] \in {"up", "off", "degraded"} /\ late[s] # Windows
  /\ \E w \in SUBSET Windows : late' = [late EXCEPT ![s] = @ \cup w]
  /\ UNCHANGED <<loop, desired, snap, mail, child, fails, crashes, streak, upgraded, exec,
                 daemon, wanted>>

-----------------------------------------------------------------------------
(* Commands: send().await waits for room; a send to a task that has ended fails *)
(* and the failure is ignored.  The control plane serves until the daemon exits. *)

Send(s, c) ==
  /\ loop[s] = "ended" \/ HasRoom(s)
  /\ mail' = [mail EXCEPT ![s] = IF loop[s] = "ended" THEN @ ELSE Append(@, c)]

\* ServiceSet, which the control plane refuses for the core.
SetDesired(s, d) ==
  /\ main # "exited" /\ s # Core
  /\ Send(s, Command(IF d = "on" THEN "start" ELSE "stop", FALSE))
  /\ wanted' = [wanted EXCEPT ![s] = d]
  /\ UNCHANGED <<loop, desired, snap, child, count, upgraded, exec, daemon>>

\* Mutant: every restart is marked as an upgrade's.
RestartMarked(s) ==
  /\ main # "exited"
  /\ Send(s, Command("restart", TRUE))
  /\ wanted' = [wanted EXCEPT ![s] = "on"]
  /\ UNCHANGED <<loop, desired, snap, child, count, upgraded, exec, daemon>>

\* ServiceRestart, and for the core RestartCore.  RestartCore is refused while an
\* exclusive operation runs, but gives its slot back before it sends, so the command
\* may be sent whatever operation runs by then.
Restart(s) ==
  /\ main # "exited"
  /\ Send(s, Command("restart", FALSE))
  /\ wanted' = [wanted EXCEPT ![s] = "on"]
  /\ UNCHANGED <<loop, desired, snap, child, count, upgraded, exec, daemon>>

\* An update or a roll-back on request takes the exclusive slot ...
Accept(kind) ==
  /\ main # "exited" /\ Core \in Services /\ op = "idle" /\ op' = kind
  /\ UNCHANGED <<loop, desired, snap, mail, child, count, upgraded, binary, since, daemon, wanted>>

\* ... fails, or finds nothing newer ...
Unchanged ==
  /\ op \in {"update", "rollback"} /\ op' = "idle"
  /\ UNCHANGED <<loop, desired, snap, mail, child, count, upgraded, binary, since, daemon, wanted>>

\* ... or swaps the core's binary ...
Installed ==
  /\ op \in {"update", "rollback"}
  /\ binary' = IF op = "update" THEN "new" ELSE "restored"
  /\ op' = "restart" /\ since' = FALSE
  /\ UNCHANGED <<loop, desired, snap, mail, child, count, upgraded, daemon, wanted>>

\* ... and then restarts the core, marked as an upgrade in both cases.
RestartUpgraded ==
  /\ op = "restart" /\ op' = "idle"
  /\ Send(Core, Command("restart", TRUE))
  /\ UNCHANGED <<loop, desired, snap, child, count, upgraded, binary, since, daemon, wanted>>

-----------------------------------------------------------------------------
(* The main task *)

\* SIGINT or SIGTERM, or the event of a failed start: shutdown_all begins.
StopAll ==
  /\ main = "parked" /\ main' = "closing" /\ untold' = Services
  /\ UNCHANGED <<loop, desired, snap, mail, child, count, upgraded, exec, event, wanted>>

\* Mutant: a task that has ended is waited for like any other.
TellShutdownAll(s) ==
  /\ main = "closing" /\ s \in untold /\ loop[s] # "ended" /\ HasRoom(s)
  /\ untold' = untold \ {s}
  /\ mail' = [mail EXCEPT ![s] = Append(@, Command("shutdown", FALSE))]
  /\ UNCHANGED <<loop, desired, snap, child, count, upgraded, exec, event, main, wanted>>

TellShutdown(s) ==
  /\ main = "closing" /\ s \in untold /\ untold' = untold \ {s}
  /\ Send(s, Command("shutdown", FALSE))
  /\ UNCHANGED <<loop, desired, snap, child, count, upgraded, exec, event, main, wanted>>

Settled(s) == snap[s].state \in {"Stopped", "Degraded", "FailedStartup"}

\* All have settled, or ten seconds are over: the tasks are cancelled, and a child
\* that is left is killed with them.
End ==
  /\ main = "closing" /\ untold = {} /\ main' = "exited"
  /\ loop' = [s \in Services |-> "killed"] /\ mail' = [s \in Services |-> <<>>]
  /\ alive' = [s \in Services |-> "none"]
  /\ UNCHANGED <<desired, snap, signal, ready, count, upgraded, exec, event, untold, wanted>>

-----------------------------------------------------------------------------

Init ==
  /\ \E d \in [Services -> {"on", "off"}] :
       /\ Core \in Services => d[Core] = "on"
       /\ desired = d /\ wanted = d
       /\ loop = [s \in Services |-> IF d[s] = "on" THEN "spawn" ELSE "off"]
       /\ snap = [s \in Services |-> [state |-> IF d[s] = "on" THEN "Starting" ELSE "Stopped",
                                      desired |-> d[s], pid |-> FALSE, failures |-> 0]]
  /\ mail = [s \in Services |-> <<>>] /\ alive = [s \in Services |-> "none"]
  /\ signal = [s \in Services |-> FALSE] /\ ready = [s \in Services |-> FALSE]
  /\ fails = [s \in Services |-> 0] /\ crashes = [s \in Services |-> 0]
  /\ late = [s \in Services |-> {}] /\ streak = [s \in Services |-> 0]
  /\ upgraded = [s \in Services |-> FALSE]
  /\ op = "idle" /\ binary = "initial" /\ since = FALSE
  /\ event = FALSE /\ main = "parked" /\ untold = {}

Take(s) ==
  \/ OffStart(s) \/ OffStop(s)
  \/ DegradedStart(s) \/ DegradedStop(s) \/ DegradedShutdown(s)
  \/ UpStart(s) \/ UpStop(s) \/ UpRestart(s) \/ UpShutdown(s)
SeeExit(s) == SeeUnreadyUpgrade(s) \/ SeeBindFailed(s) \/ SeeCrash(s)
Go(s) ==
  SpawnFails(s) \/ SpawnChild(s) \/ PauseEnds(s) \/ RollBack(s) \/ RollBackFails(s) \/ Hooked(s)
Supervise(s) == Take(s) \/ SeeReady(s) \/ SeeExit(s) \/ Go(s)

Next ==
  \/ \E s \in Services :
       \/ Supervise(s) \/ ReportReady(s) \/ Exit(s) \/ WindowPasses(s)
       \/ (\E d \in {"on", "off"} : SetDesired(s, d)) \/ Restart(s) \/ TellShutdown(s)
  \/ (\E kind \in {"update", "rollback"} : Accept(kind))
  \/ Unchanged \/ Installed \/ RestartUpgraded
  \/ StopAll \/ End

Spec == Init /\ [][Next]_vars

\* The runtime polls every task that can go on.  select! picks among its ready
\* branches at random, so a branch that is ready time and again is taken: strong
\* fairness.  A sender that waits for room in a channel is served in its turn, hence
\* strong fairness for the main task's sends, which a user may outrun.  Nothing is
\* assumed of users, signals and children; an event of a failed start wakes the main
\* task.
FairSpec ==
  /\ Spec
  /\ \A s \in Services : /\ WF_vars(Go(s)) /\ SF_vars(Take(s))
                          /\ SF_vars(SeeReady(s)) /\ SF_vars(SeeExit(s))
                          /\ SF_vars(TellShutdown(s))
  /\ WF_vars(RestartUpgraded) /\ WF_vars(End) /\ WF_vars(event /\ StopAll)

-----------------------------------------------------------------------------
(* Properties *)

\* Every variable holds a value of its type, and the counters stay below their limits.
TypeOK ==
  /\ loop \in [Services -> Loops] /\ desired \in [Services -> {"on", "off"}]
  /\ snap \in [Services -> Snaps] /\ mail \in [Services -> Seq(Commands)]
  /\ \A s \in Services : Len(mail[s]) <= MailCap
  /\ alive \in [Services -> {"none", "up", "dead", "dead75"}]
  /\ signal \in [Services -> BOOLEAN] /\ ready \in [Services -> BOOLEAN]
  /\ fails \in [Services -> 0..MaxFails] /\ crashes \in [Services -> 0..MaxCrashes]
  /\ late \in [Services -> SUBSET Windows] /\ streak \in [Services -> 0..MaxFails]
  /\ upgraded \in [Services -> BOOLEAN] /\ wanted \in [Services -> {"on", "off"}]
  /\ op \in {"idle", "update", "rollback", "restart"}
  /\ binary \in {"initial", "new", "ready", "proven", "restored"} /\ since \in BOOLEAN
  /\ event \in BOOLEAN /\ main \in {"parked", "closing", "exited"} /\ untold \subseteq Services

\* A service reported as settled has no running child (services.rs 301-315): the main
\* task, which waits up to ten seconds for all to settle, does not take one for down
\* that it would then kill, over any mix of stops, restarts, crashes and roll-backs.
SettledMeansDown == \A s \in Services : Settled(s) => alive[s] # "up"

\* Supervision gives up a service only after MaxFails starts in a row have failed,
\* with none confirmed in between (supervisor.rs 198-255, 616 and 673): neither
\* crashes of a running service nor exits with code 75 add up to it.
GivesUpOnlyAtLimit ==
  \A s \in Services :
    loop[s] = "ended" /\ snap[s].state = "FailedStartup" => streak[s] = MaxFails

\* Supervision never ends because a child crashes (supervisor.rs 20 and 170: "watchdog
\* 绝不因 child 崩溃而退出"): a service that is wanted comes up again, unless it is
\* degraded, its starts failed to the limit, or the watchdog is shutting down.
Excused(s) == snap[s].state \in {"Degraded", "FailedStartup"} \/ main # "parked"
WantedComesUp ==
  \A s \in Services :
    wanted[s] = "on" /\ alive[s] = "none" ~> alive[s] = "up" \/ wanted[s] = "off" \/ Excused(s)

\* A stop is obeyed in the end, also by a service that crashes as fast as it starts
\* or is degraded, and no pending restart brings it up again afterwards.
StopObeyed ==
  \A s \in Services : <>[](wanted[s] = "off") => <>[](alive[s] # "up")

\* shutdown_all, which waits for room in every command channel without a time limit,
\* is never blocked for ever by a task that does not read.
ShutdownEnds == main = "closing" ~> main = "exited"

\* The automatic roll-back is for a binary that an upgrade or a roll-back installed
\* (watchdog/spec.md, New-binary auto-rollback): the mark of an upgrade, which travels
\* through the command channel and outlives starts and exits, never reaches a core that
\* still runs the binary it was delivered with.
RollsBackInstalledOnly == \A s \in Services : loop[s] = "hook" => binary # "initial"

=============================================================================
