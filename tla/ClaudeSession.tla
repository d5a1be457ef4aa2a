--------------------------- MODULE ClaudeSession ---------------------------
(***************************************************************************)
(* One agent session of the Claude driver, from its spawn to its end:      *)
(* SessionManager::spawn, kill and send (sebas-acp/src/claude/manager.rs)  *)
(* and the driver's loop, its hang detection, its cancel by respawn and    *)
(* its permission hooks (sebas-acp/src/claude/driver.rs).                  *)
(*                                                                         *)
(* The loop and the wrapper around it are one task, which a kill aborts;   *)
(* each permission hook is a task of its own (the SDK spawns one for every *)
(* consultation of the child), and the hooks share a flag and a map of     *)
(* parked answers with the loop and the manager. Of the child it is kept   *)
(* whether it runs, whether it has stopped to react, and how many prompts  *)
(* it has not finished; of time, whether the hang timeout has passed.      *)
(***************************************************************************)
EXTENDS Integers, Sequences, FiniteSets

CONSTANTS
  Tools,      \* the ids a child gives its tool calls, unique within a turn
  MaxPrompts, \* bound: prompts sent
  MaxCancels, \* bound: cancels sent
  MaxAsks     \* bound: consultations of the hook

ASSUME SessionAssumption ==
  MaxPrompts \in Nat /\ MaxCancels \in Nat /\ MaxAsks \in Nat

VARIABLES
  task,      \* run_task: where the loop or its wrapper is
  entry,     \* the session's entry of the manager's table: awaited, in or out
  expected,  \* expected_exit: the session was killed
  sent,      \* terminal_sent: the driver has sent a terminal error
  terminals, \* history: how many terminal errors were sent
  struck,    \* history: the kill met a running loop
  cmds,      \* the command channel
  child,     \* the child: it runs, it hangs, the prompts it has not finished
  active,    \* turn_active
  quiet,     \* last_activity is longer ago than the hang timeout
  stage,     \* hang_stage
  conn,      \* the connection: one more after every cancel
  seq,       \* hook_seq of the connection
  waiting,   \* waiting_permission of the connection
  slots,     \* pending_perms: the consultations that are parked
  waking,    \* consultations that have their decision, or lost their slot
  asked,     \* requests the user was shown, on more surfaces than one
  decided,   \* history: the answered request and the consultation it decided
  prompts, cancels, asks   \* how often each happened

table  == <<entry, expected>>
ends   == <<sent, terminals, struck>>
ladder == <<active, quiet, stage>>
hooks  == <<conn, seq, waiting, slots, waking, asked, decided, asks>>
sends  == <<cmds, prompts, cancels>>
vars   == <<task, table, ends, ladder, hooks, sends, child>>

Loop    == {"run", "heal", "grace"}
Places  == Loop \cup {"wrap", "tell", "leave", "gone"}
Ids     == Tools \X (0..MaxAsks)
Parks   == [conn : Nat \ {0}, id : Ids]
Child(up, turns) == [up |-> up, hung |-> FALSE, turns |-> turns]

At(place) == task = place
Works     == child.up /\ ~child.hung /\ child.turns > 0
Here(set) == {h \in set : h.conn = conn}

Init ==
  /\ task = "run" /\ entry = "awaited" /\ expected = FALSE
  /\ sent = FALSE /\ terminals = 0 /\ struck = FALSE
  /\ cmds = <<>> /\ prompts = 0 /\ cancels = 0 /\ child = Child(TRUE, 0)
  /\ active = FALSE /\ quiet = FALSE /\ stage = 0
  /\ conn = 1 /\ seq = 0 /\ waiting = FALSE /\ slots = {} /\ waking = {}
  /\ asked = {} /\ decided = {} /\ asks = 0

-----------------------------------------------------------------------------
(* The manager *)

\* The entry is inserted after the run task was spawned.
Insert ==
  /\ entry = "awaited" /\ entry' = "in"
  /\ UNCHANGED <<task, expected, ends, ladder, hooks, sends, child>>

\* The task is aborted where it next waits; a loop that saw its cancel signal first gets
\* to the wrapper.
Kill ==
  /\ entry = "in" /\ entry' = "out" /\ expected' = TRUE
  /\ struck' = (struck \/ task \in Loop) /\ child' = [child EXCEPT !.up = FALSE]
  /\ task' \in {"gone", IF task \in Loop THEN "wrap" ELSE task}
  /\ UNCHANGED <<sent, terminals, ladder, hooks, sends>>

\* A prompt and a cancel go through the command channel.
SendCmd(kind) ==
  /\ entry = "in" /\ task \in Loop /\ cmds' = Append(cmds, kind)
  /\ IF kind = "prompt" THEN prompts < MaxPrompts /\ prompts' = prompts + 1 /\ UNCHANGED cancels
     ELSE cancels < MaxCancels /\ cancels' = cancels + 1 /\ UNCHANGED prompts
  /\ UNCHANGED <<task, table, ends, ladder, hooks, child>>

\* An answer goes to whatever is parked under its request id, or nowhere;
\* it may come twice, from two surfaces.
Answer(r) ==
  /\ r \in asked /\ entry = "in"
  /\ LET parked == {h \in slots : h.id = r.id} IN
     /\ slots' = slots \ parked /\ waking' = waking \cup parked
     /\ decided' = decided \cup {[asked |-> r, hook |-> h] : h \in parked}
  /\ UNCHANGED <<task, table, ends, ladder, conn, seq, waiting, asked, asks, sends, child>>

-----------------------------------------------------------------------------
(* The end of the loop, and the wrapper *)

Ends(said) ==
  /\ task' = "wrap" /\ child' = Child(FALSE, 0)
  /\ terminals' = terminals + said /\ UNCHANGED <<table, struck, hooks>>
Terminal == Ends(1) /\ sent' = TRUE

\* Mutation: the wrapper leaves the report to the driver.
WrapSilently ==
  /\ At("wrap") /\ task' = "leave"
  /\ UNCHANGED <<table, ends, ladder, hooks, sends, child>>

Wrap ==
  /\ At("wrap") /\ task' = IF ~expected /\ ~sent THEN "tell" ELSE "leave"
  /\ UNCHANGED <<table, ends, ladder, hooks, sends, child>>
Tell ==
  /\ At("tell") /\ task' = "leave" /\ terminals' = terminals + 1
  /\ UNCHANGED <<table, sent, struck, ladder, hooks, sends, child>>
Leave ==
  /\ At("leave") /\ task' = "gone" /\ entry' = (IF entry = "in" THEN "out" ELSE entry)
  /\ UNCHANGED <<expected, ends, ladder, hooks, sends, child>>

-----------------------------------------------------------------------------
(* The loop: commands *)

Took(kind) == At("run") /\ cmds # <<>> /\ Head(cmds) = kind /\ cmds' = Tail(cmds)

\* The query fails, or a dead child is not noticed yet. The clock of the last activity
\* is left as it is.
TakePrompt ==
  /\ Took("prompt") /\ active' = TRUE
  /\ \/ /\ child' = (IF child.up THEN [child EXCEPT !.turns = @ + 1] ELSE child)
        /\ UNCHANGED <<task, table, ends, hooks>>
     \/ ~child.up /\ Terminal
  /\ UNCHANGED <<quiet, stage, prompts, cancels>>

\* handle_cancel: the child is interrupted and disconnected...
TakeCancel ==
  /\ Took("cancel") /\ UNCHANGED <<ladder, prompts, cancels>>
  /\ \/ /\ child.up /\ task' = "heal" /\ child' = Child(FALSE, 0)
        /\ UNCHANGED <<table, ends, hooks>>
     \/ (~child.up \/ child.hung) /\ Terminal

\* ...and one that resumes its conversation takes its place, with a driver of its own
\* but the same map of parked answers.
Heal ==
  /\ At("heal") /\ task' = "run" /\ child' = Child(TRUE, 0)
  /\ active' = FALSE /\ quiet' = FALSE /\ stage' = 0
  /\ conn' = conn + 1 /\ seq' = 0 /\ waiting' = FALSE
  /\ UNCHANGED <<table, ends, slots, waking, asked, decided, asks, sends>>
HealFails == At("heal") /\ Terminal /\ UNCHANGED <<ladder, sends>>

-----------------------------------------------------------------------------
(* The loop: the child's messages *)

Heard == quiet' = FALSE /\ stage' = 0

Speak ==
  /\ At("run") /\ Works /\ Heard
  /\ UNCHANGED <<task, table, ends, active, hooks, sends, child>>

\* A result, also a refusal, ends a turn.
Finish ==
  /\ At("run") /\ Works /\ Here(slots \cup waking) = {} /\ Heard /\ active' = FALSE
  /\ child' = [child EXCEPT !.turns = @ - 1]
  /\ UNCHANGED <<task, table, ends, hooks, sends>>

\* Any other failed result is a terminal error, which terminal_sent does not tell.
Fail ==
  /\ At("run") /\ Works /\ Heard /\ active' = FALSE /\ Ends(1)
  /\ UNCHANGED <<sent, sends>>

\* The output of a dead child ends, or is broken.
OutputEnds ==
  /\ At("run") /\ ~child.up /\ (Terminal \/ (Ends(0) /\ UNCHANGED sent))
  /\ UNCHANGED <<ladder, sends>>

-----------------------------------------------------------------------------
(* The loop: once a second, the probe and the hang detection *)

ProbeFails ==
  /\ At("run") /\ (~child.up \/ child.hung) /\ Terminal /\ UNCHANGED <<ladder, sends>>

\* Mutations: the ladder has no end; the interrupt counts as a sign of life.
ClimbOn ==
  /\ At("run") /\ child.up /\ ~waiting /\ quiet /\ active /\ stage < 4 /\ stage' = stage + 1
  /\ UNCHANGED <<task, table, ends, active, quiet, hooks, sends, child>>
ClimbHeard ==
  /\ At("run") /\ child.up /\ ~waiting /\ quiet /\ active /\ stage < 3
  /\ quiet' = FALSE /\ stage' = 0
  /\ UNCHANGED <<task, table, ends, active, hooks, sends, child>>

\* A silent child is interrupted...
Climb ==
  /\ At("run") /\ child.up /\ ~waiting /\ quiet /\ active /\ stage < 3 /\ stage' = stage + 1
  /\ UNCHANGED <<task, table, ends, active, quiet, hooks, sends, child>>

\* ...after three interrupts disconnected, and given up after a pause.
GiveUp ==
  /\ At("run") /\ child.up /\ ~waiting /\ stage >= 3 /\ task' = "grace"
  /\ child' = Child(FALSE, 0)
  /\ UNCHANGED <<table, ends, ladder, hooks, sends>>
GraceOver == At("grace") /\ Terminal /\ UNCHANGED <<ladder, sends>>

TimePasses ==
  /\ At("run") /\ ~quiet /\ quiet' = TRUE
  /\ UNCHANGED <<task, table, ends, active, stage, hooks, sends, child>>

-----------------------------------------------------------------------------
(* The permission hooks *)

\* Mutation: the id of a request is the tool's alone.
RequestIdBare(tool, n) == <<tool, 0>>
RequestId(tool, n) == <<tool, n>>

\* The child consults the hook: a slot is parked under the request's id, where another's
\* is replaced, hang detection is suspended, and the user is asked.
Ask(tool) ==
  /\ Works /\ task \in Loop /\ asks < MaxAsks /\ asks' = asks + 1 /\ seq' = seq + 1
  /\ LET new == [conn |-> conn, id |-> RequestId(tool, seq + 1)]
         old == {h \in slots : h.id = new.id}
     IN /\ slots' = (slots \ old) \cup {new} /\ waking' = waking \cup old
        /\ asked' = asked \cup {new}
  /\ waiting' = TRUE
  /\ UNCHANGED <<task, table, ends, ladder, conn, decided, sends, child>>

\* Mutation: the flag is left as it is.
WakeOnly(h) ==
  /\ h \in waking /\ waking' = waking \ {h}
  /\ UNCHANGED <<task, table, ends, ladder, conn, seq, waiting, slots, asked, decided, asks, sends, child>>

\* The consultation returns, and hang detection resumes.
Wake(h) ==
  /\ h \in waking /\ waking' = waking \ {h}
  /\ waiting' = (waiting /\ h.conn # conn)
  /\ UNCHANGED <<task, table, ends, ladder, conn, seq, slots, asked, decided, asks, sends, child>>

-----------------------------------------------------------------------------
(* The child *)

ChildDies ==
  /\ child.up /\ child' = [child EXCEPT !.up = FALSE]
  /\ UNCHANGED <<task, table, ends, ladder, hooks, sends>>
ChildHangs ==
  /\ Works /\ child' = [child EXCEPT !.hung = TRUE]
  /\ UNCHANGED <<task, table, ends, ladder, hooks, sends>>

-----------------------------------------------------------------------------
Manager == Insert \/ Kill \/ SendCmd("prompt") \/ SendCmd("cancel") \/ \E r \in asked : Answer(r)
Command == TakePrompt \/ TakeCancel \/ Heal \/ HealFails
Tick    == ProbeFails \/ Climb \/ GiveUp \/ GraceOver
Wrapper == Wrap \/ Tell \/ Leave
Hook    == \E h \in waking : Wake(h)
Message == Speak \/ Finish \/ Fail

Next == \/ Manager \/ Command \/ Message \/ OutputEnds \/ Tick \/ Wrapper \/ TimePasses
        \/ Hook \/ (\E tool \in Tools : Ask(tool)) \/ ChildDies \/ ChildHangs

Spec == Init /\ [][Next]_vars

\* The loop is polled for its commands and its clock, the wrapper is run to its end, time
\* passes, and a hook that has its decision returns. Nothing is assumed of the child and
\* of the users.
FairSpec ==
  Spec /\ WF_vars(Command) /\ WF_vars(OutputEnds \/ Tick) /\ WF_vars(Wrapper)
       /\ WF_vars(TimePasses) /\ WF_vars(Hook)

-----------------------------------------------------------------------------
(* Properties *)

\* Every part of the session holds values of its kind (SessionMeta, CcDriver).
TypeOK ==
  /\ task \in Places /\ entry \in {"awaited", "in", "out"}
  /\ expected \in BOOLEAN /\ sent \in BOOLEAN /\ struck \in BOOLEAN /\ terminals \in 0..2
  /\ cmds \in Seq({"prompt", "cancel"}) /\ prompts \in 0..MaxPrompts /\ cancels \in 0..MaxCancels
  /\ child \in [up : BOOLEAN, hung : BOOLEAN, turns : Nat]
  /\ active \in BOOLEAN /\ quiet \in BOOLEAN /\ stage \in 0..3
  /\ conn \in Nat \ {0} /\ seq \in 0..MaxAsks /\ asks \in 0..MaxAsks
  /\ waiting \in BOOLEAN /\ slots \subseteq Parks /\ waking \subseteq Parks /\ asked \subseteq Parks
  /\ decided \subseteq [asked : Parks, hook : Parks]

\* A session that ended without a kill has said so: the driver with a terminal error of
\* its own, or the wrapper in its place ("terminal-event guarantee" of the wrapper);
\* a kill that met a running driver is followed by no terminal error (acp-driver,
\* "Explicit kill does not emit terminal event").
DeadIsSaid == task \in {"leave", "gone"} /\ ~expected => terminals > 0
KilledIsSilent == struck => terminals = 0
EndIsSaid == DeadIsSaid /\ KilledIsSilent

\* Within a connection an answer decides the consultation whose request was answered,
\* and decides it once, whatever the order of the answers and however often the child
\* uses an id (the comment on hook_seq in permission_hook).
AnswersOwnRequest ==
  \A d \in decided :
    d.asked.conn = d.hook.conn => d.asked = d.hook /\ d.hook \notin slots

\* Hang detection is suspended only while a consultation waits or returns: no answer,
\* lost slot or cancel leaves it suspended (waiting_permission).
SuspendedByWait == waiting => Here(slots \cup waking) # {}

\* A child that stopped to react in a turn does not keep it: the turn is cancelled, or the
\* ladder ends the session, unless a consultation is left without an answer.
HungTurnEnds == (child.hung /\ active /\ At("run")) ~> (~At("run") \/ ~active \/ waiting)
=============================================================================
