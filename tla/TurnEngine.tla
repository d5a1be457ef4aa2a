----------------------------- MODULE TurnEngine -----------------------------
(***************************************************************************)
(* The turns of one session (sebas-dispatch/src/engine/mod.rs,             *)
(* acp_events.rs, stall.rs, card_state.rs; the pump of                     *)
(* src/session_boot.rs): texts that are submitted while a turn runs, the   *)
(* pump that applies what the agent reports, the watchdog that settles a   *)
(* silent turn, the operator who cancels, answers an approval or closes    *)
(* the session, and the agent's death.                                     *)
(*                                                                         *)
(* Each of them is a task of its own, and every table it reads or writes   *)
(* (card, queue, clock, parked approvals, transcript) has its own lock,    *)
(* held for one access: what happens between two accesses of a task is     *)
(* what this module is about, so a task has one action per access. Of a    *)
(* card its phase and its prompt are kept, of the transcript the prompts   *)
(* and the notices, of the driver the commands it still has to be handed,  *)
(* the prompts the agent works on and the events on the way back.          *)
(***************************************************************************)
EXTENDS Integers, Sequences, SequencesExt, FiniteSets

CONSTANTS
  Texts,      \* the texts users submit, each once
  Priority,   \* those submitted with /btw
  NoText,     \* no text
  IdleKill,   \* [acp.claude] idle_kill_secs is configured
  Closes,     \* the operator may close the session
  Timed,      \* [dispatch] turn_stall_timeout is not 0
  MaxAsks,    \* bound: approvals the agent asks for
  MaxCancels, \* bound: cancels
  MaxStrays,  \* bound: events that are not part of a turn
  MaxWire     \* bound: events on the way to the pump

ASSUME TurnAssumption ==
  /\ Priority \subseteq Texts /\ NoText \notin Texts
  /\ {"pump", "watch"} \cap Texts = {} /\ IsFiniteSet(Texts)
  /\ IdleKill \in BOOLEAN /\ Closes \in BOOLEAN /\ Timed \in BOOLEAN
  /\ MaxAsks \in Nat /\ MaxCancels \in Nat /\ MaxStrays \in Nat /\ MaxWire \in Nat

VARIABLES
  pc,        \* where each task is: the submission of a text, the pump, the watchdog
  held,      \* the text the pump and the watchdog took from the queue
  operator,  \* where the operator's request is, and the approval it answers
  card,      \* the session's card: its phase, and the prompt of its turn
  queue,     \* turn_queue of the session's key
  live,      \* the session's mapping is Active
  clock,     \* the stall clock: none, ticking or run out
  parked,    \* approvals registered as waiting for an answer
  prompts,   \* the transcript's prompts, in order
  told,      \* the transcript has an entry
  mark,      \* the turn the cancel mark names: its prompt's position, or 0
  stopped,   \* the turns whose transcript says that they were stopped
  given,     \* history: the prompts handed to the outbound pump, in order
  lost,      \* history: the texts a teardown took out of the queue
  asked,     \* history: the turns the operator cancelled
  outbox,    \* commands on their way to the driver
  agent,     \* the prompts the agent has and has not finished, in order
  blocked,   \* the approvals the agent waits for
  spoke,     \* the agent has reported something of its turn
  wire,      \* events on their way to the pump
  child,     \* the agent's process: up, dead, or gone without a word
  asks, cancels, strays   \* how often each happened

tasks  == <<pc, held, operator>>
turn   == <<card, clock, prompts, told>>
stops  == <<mark, stopped, asked>>
line   == <<queue, live, lost>>
driver == <<outbox, given>>
agents == <<agent, blocked, spoke, child, asks, strays>>
vars   == <<tasks, turn, stops, line, parked, driver, agents, wire, cancels>>

Tasks     == Texts \cup {"pump", "watch"}
Drainers  == {"pump", "watch"}
Phases    == {"seed", "working", "done", "failed"}
Absent    == [phase |-> "absent", prompt |-> NoText]
Card(phase, prompt) == [phase |-> phase, prompt |-> prompt]
At(task, place)     == pc[task] = place
Goto(task, place)   == pc' = [pc EXCEPT ![task] = place]
Carried(task)       == IF task \in Texts THEN task ELSE held[task]

\* CardStateMap::apply: a card that is not there is created, in SEED and without a
\* prompt, before it is changed.
Lazy              == IF card = Absent THEN Card("seed", NoText) ELSE card
Rephased(phase)   == card' = [Lazy EXCEPT !.phase = phase]
Terminal          == card.phase \in {"done", "failed"}
Unsettled(c)      == c.phase \in {"seed", "working"}
InFlight          == card.phase = "working" \/ (card.phase = "seed" /\ card.prompt # NoText)
Touch             == clock' = "ticking"

Command(kind, text, req) == [kind |-> kind, text |-> text, req |-> req]
Prompt(t)  == Command("prompt", t, 0)
Cancel     == Command("cancel", NoText, 0)
Reply(r)   == Command("reply", NoText, r)
Event(kind, req) == [kind |-> kind, req |-> req]

Init ==
  /\ pc = [task \in Tasks |-> IF task \in Texts THEN "new" ELSE "idle"]
  /\ held = [task \in Drainers |-> NoText] /\ operator = [at |-> "idle", req |-> 0]
  /\ card = Absent /\ clock = "none" /\ prompts = <<>> /\ told = FALSE
  /\ mark = 0 /\ stopped = {} /\ asked = {}
  /\ queue = <<>> /\ live = TRUE /\ lost = {} /\ parked = {}
  /\ outbox = <<>> /\ given = <<>>
  /\ agent = <<>> /\ blocked = {} /\ spoke = FALSE /\ child = "up" /\ asks = 0 /\ strays = 0
  /\ wire = <<>> /\ cancels = 0

-----------------------------------------------------------------------------
(* emit_turn_card, by whoever opens a turn *)

\* The card of the last turn is dropped...
DropCard(task) ==
  /\ At(task, "open") /\ Goto(task, "seed") /\ card' = Absent
  /\ UNCHANGED <<held, operator, clock, prompts, told, stops, line, parked, driver, agents, wire, cancels>>

\* Mutation: who finds a card there again leaves it at that.
SeedOrLeave(task) ==
  /\ At(task, "seed")
  /\ IF card = Absent
     THEN /\ card' = Card("seed", Carried(task)) /\ Touch /\ Goto(task, "send")
          /\ prompts' = Append(prompts, Carried(task)) /\ told' = TRUE
     ELSE UNCHANGED turn /\ Goto(task, IF task \in Texts THEN "sent" ELSE "idle")
  /\ UNCHANGED <<held, operator, stops, line, parked, driver, agents, wire, cancels>>

\* ...one with the new prompt is created unless there is one again (seed_card, which is
\* idempotent), and only then the clock restarts and the transcript has the prompt...
SeedCard(task) ==
  /\ At(task, "seed") /\ Goto(task, "send")
  /\ IF card = Absent
     THEN /\ card' = Card("seed", Carried(task)) /\ Touch
          /\ prompts' = Append(prompts, Carried(task)) /\ told' = TRUE
     ELSE UNCHANGED turn
  /\ UNCHANGED <<held, operator, stops, line, parked, driver, agents, wire, cancels>>

\* ...and the prompt is sent to the agent.
SendPrompt(task) ==
  /\ At(task, "send") /\ Goto(task, IF task \in Texts THEN "sent" ELSE "idle")
  /\ held' = [d \in Drainers |-> IF d = task THEN NoText ELSE held[d]]
  /\ outbox' = Append(outbox, Prompt(Carried(task))) /\ given' = Append(given, Carried(task))
  /\ UNCHANGED <<operator, turn, stops, line, parked, agents, wire, cancels>>

-----------------------------------------------------------------------------
(* A submission: route_text says Continue, then submit_turn *)

Route(t) ==
  /\ At(t, "new") /\ live /\ Goto(t, "look")
  /\ UNCHANGED <<held, operator, turn, stops, line, parked, driver, agents, wire, cancels>>

\* The one look at the card that decides.
LookAtCard(t) ==
  /\ At(t, "look") /\ Goto(t, IF InFlight THEN "hold" ELSE "flip")
  /\ UNCHANGED <<held, operator, turn, stops, line, parked, driver, agents, wire, cancels>>

\* A turn is in flight: the text waits in the queue (enqueue_turn).
EnqueueTurn(t) ==
  /\ At(t, "hold") /\ Goto(t, "queued")
  /\ queue' = IF t \in Priority THEN <<t>> \o queue ELSE Append(queue, t)
  /\ UNCHANGED <<held, operator, turn, stops, live, lost, parked, driver, agents, wire, cancels>>

\* None is: a settled card is taken back to WORKING, and the turn opened.
FlipCard(t) ==
  /\ At(t, "flip") /\ Goto(t, "open")
  /\ Rephased(IF Terminal THEN "working" ELSE Lazy.phase)
  /\ UNCHANGED <<held, operator, clock, prompts, told, stops, line, parked, driver, agents, wire, cancels>>

-----------------------------------------------------------------------------
(* drain_queue_if_terminal, by the pump and the watchdog *)

DrainLook(task) ==
  /\ At(task, "drain") /\ Goto(task, IF Terminal THEN "pop" ELSE "idle")
  /\ UNCHANGED <<held, operator, turn, stops, line, parked, driver, agents, wire, cancels>>

\* Mutation: a turn is opened although nothing waits.
PopAnyway(task) ==
  /\ At(task, "pop") /\ Goto(task, "open")
  /\ IF queue = <<>> THEN UNCHANGED <<held, queue>>
     ELSE queue' = Tail(queue) /\ held' = [held EXCEPT ![task] = Head(queue)]
  /\ UNCHANGED <<operator, turn, stops, live, lost, parked, driver, agents, wire, cancels>>

\* Mutation: the text stays in the queue.
PopPeeked(task) ==
  /\ At(task, "pop") /\ UNCHANGED queue
  /\ IF queue = <<>> THEN Goto(task, "idle") /\ UNCHANGED held
     ELSE Goto(task, "open") /\ held' = [held EXCEPT ![task] = Head(queue)]
  /\ UNCHANGED <<operator, turn, stops, live, lost, parked, driver, agents, wire, cancels>>

PopTurn(task) ==
  /\ At(task, "pop")
  /\ IF queue = <<>> THEN Goto(task, "idle") /\ UNCHANGED <<held, queue>>
     ELSE /\ Goto(task, "open") /\ queue' = Tail(queue)
          /\ held' = [held EXCEPT ![task] = Head(queue)]
  /\ UNCHANGED <<operator, turn, stops, live, lost, parked, driver, agents, wire, cancels>>

-----------------------------------------------------------------------------
(* The pump: what the agent reports, one event at a time *)

Took(kind) == At("pump", "idle") /\ wire # <<>> /\ Head(wire).kind = kind /\ wire' = Tail(wire)

\* Content of a turn (apply_event): SEED becomes WORKING.
PumpText ==
  /\ Took("text") /\ Touch /\ told' = TRUE
  /\ Rephased(IF Lazy.phase = "seed" THEN "working" ELSE Lazy.phase)
  /\ UNCHANGED <<tasks, prompts, stops, line, parked, driver, agents, cancels>>

\* A usage report or a command table: no phase changes, but there is a card.
PumpStray ==
  /\ Took("stray") /\ Touch /\ Rephased(Lazy.phase)
  /\ UNCHANGED <<tasks, prompts, told, stops, line, parked, driver, agents, cancels>>

\* The agent asks for an approval: it is registered, and waits.
PumpAsk ==
  /\ Took("ask") /\ Touch /\ parked' = parked \cup {Head(wire).req}
  /\ UNCHANGED <<tasks, card, prompts, told, stops, line, driver, agents, cancels>>

\* Mutation: whatever turn ends first is taken for the cancelled one.
FinishMarked ==
  /\ Took("fin") /\ Touch /\ Goto("pump", "settle")
  /\ mark' = 0 /\ stopped' = IF mark # 0 THEN stopped \cup {Len(prompts)} ELSE stopped
  /\ UNCHANGED <<held, operator, card, prompts, told, line, parked, driver, agents, asked, cancels>>

\* A turn ends. The cancel mark is consumed, and the turn is said to have been stopped
\* if the mark names it, that is, the last prompt of the transcript...
PumpFinished ==
  /\ Took("fin") /\ Touch /\ Goto("pump", "settle")
  /\ mark' = 0
  /\ stopped' = IF mark # 0 /\ mark = Len(prompts) THEN stopped \cup {mark} ELSE stopped
  /\ UNCHANGED <<held, operator, card, prompts, told, line, parked, driver, agents, asked, cancels>>

\* Mutation: nobody looks for the next turn.
SettleOnly ==
  /\ At("pump", "settle") /\ Rephased("done") /\ Goto("pump", "idle")
  /\ UNCHANGED <<held, operator, clock, prompts, told, stops, line, parked, driver, agents, wire, cancels>>

\* ...then the card is settled, and the next turn looked for.
PumpSettle ==
  /\ At("pump", "settle") /\ Rephased("done") /\ Goto("pump", IF live THEN "drain" ELSE "idle")
  /\ UNCHANGED <<held, operator, clock, prompts, told, stops, line, parked, driver, agents, wire, cancels>>

\* A model switch the agent refused settles whatever turn there is...
PumpRejected ==
  /\ Took("reject") /\ Touch /\ Goto("pump", "rejected")
  /\ Rephased(IF Unsettled(Lazy) THEN "done" ELSE card.phase)
  /\ UNCHANGED <<held, operator, prompts, told, stops, line, parked, driver, agents, cancels>>

\* ...and is then applied as the error it is.
PumpRejection ==
  /\ At("pump", "rejected") /\ Goto("pump", IF live THEN "drain" ELSE "idle")
  /\ Touch /\ told' = TRUE
  /\ Rephased(IF Lazy.phase = "seed" THEN "working" ELSE Lazy.phase)
  /\ UNCHANGED <<held, operator, prompts, stops, line, parked, driver, agents, wire, cancels>>

\* A terminal error: the card fails...
PumpTerminal ==
  /\ Took("term") /\ Touch /\ told' = TRUE /\ Rephased("failed")
  /\ Goto("pump", IF live THEN "retire" ELSE "clear")
  /\ UNCHANGED <<held, operator, prompts, stops, line, parked, driver, agents, cancels>>

\* ...the mapping becomes a record and its queue is dropped (retire_to_record)...
Teardown == lost' = (IF live THEN lost \cup ToSet(queue) ELSE lost)
            /\ queue' = (IF live THEN <<>> ELSE queue) /\ live' = FALSE
PumpRetire ==
  /\ At("pump", "retire") /\ Goto("pump", "clear") /\ Teardown
  /\ UNCHANGED <<held, operator, turn, stops, parked, driver, agents, wire, cancels>>

\* ...and the card, the clock and the approvals of the session go; the pump ends.
PumpClear ==
  /\ At("pump", "clear") /\ Goto("pump", "off")
  /\ card' = Absent /\ clock' = "none" /\ parked' = {}
  /\ UNCHANGED <<held, operator, prompts, told, stops, line, driver, agents, wire, cancels>>

\* The channel closes without a terminal error (finalize_dead_child): the card is
\* dropped; then it fails, if there is a mapping...
PumpClosed ==
  /\ At("pump", "idle") /\ wire = <<>> /\ child = "gone"
  /\ card' = Absent /\ Goto("pump", IF live THEN "blame" ELSE "off")
  /\ UNCHANGED <<held, operator, clock, prompts, told, stops, line, parked, driver, agents, wire, cancels>>
PumpBlame ==
  /\ At("pump", "blame") /\ Goto("pump", "bury")
  /\ Rephased(IF Unsettled(Lazy) THEN "failed" ELSE card.phase)
  /\ told' = (told \/ Unsettled(Lazy))
  /\ UNCHANGED <<held, operator, clock, prompts, stops, line, parked, driver, agents, wire, cancels>>

\* ...which becomes a record; the clock and the approvals go, the card stays.
PumpBury ==
  /\ At("pump", "bury") /\ Goto("pump", "off") /\ Teardown
  /\ clock' = "none" /\ parked' = {}
  /\ UNCHANGED <<held, operator, card, prompts, told, stops, driver, agents, wire, cancels>>

\* idle_kill_secs without an event: the child is killed, the card dropped, the pump ends.
PumpIdleKill ==
  /\ IdleKill /\ At("pump", "idle") /\ wire = <<>> /\ Goto("pump", "off")
  /\ card' = Absent /\ child' = (IF child = "up" THEN "gone" ELSE child)
  /\ agent' = <<>> /\ blocked' = {}
  /\ UNCHANGED <<held, operator, clock, prompts, told, stops, line, parked, driver, spoke, asks, strays, wire, cancels>>

-----------------------------------------------------------------------------
(* force_settle_stalled_turns *)

TimePasses ==
  /\ Timed /\ clock = "ticking" /\ clock' = "out"
  /\ UNCHANGED <<tasks, card, prompts, told, stops, line, parked, driver, agents, wire, cancels>>

WatchScan ==
  /\ Timed /\ At("watch", "idle") /\ clock = "out" /\ parked = {} /\ Goto("watch", "check")
  /\ UNCHANGED <<held, operator, turn, stops, line, parked, driver, agents, wire, cancels>>

\* No mapping, or no turn to settle: the clock goes. No transcript: it stays.
WatchCheck ==
  /\ At("watch", "check")
  /\ IF live /\ Unsettled(card)
     THEN Goto("watch", IF told THEN "settle" ELSE "idle") /\ UNCHANGED <<clock, parked>>
     ELSE Goto("watch", "idle") /\ clock' = "none" /\ parked' = {}
  /\ UNCHANGED <<held, operator, card, prompts, told, stops, line, driver, agents, wire, cancels>>

\* Mutation: only a turn that has shown something is settled.
WatchWorking ==
  /\ At("watch", "settle")
  /\ Rephased(IF Lazy.phase = "working" THEN "done" ELSE Lazy.phase)
  /\ Goto("watch", IF Lazy.phase = "working" THEN "forget" ELSE "idle")
  /\ UNCHANGED <<held, operator, clock, prompts, told, stops, line, parked, driver, agents, wire, cancels>>

WatchSettle ==
  /\ At("watch", "settle")
  /\ Rephased(IF Unsettled(Lazy) THEN "done" ELSE card.phase)
  /\ Goto("watch", IF Unsettled(Lazy) THEN "forget" ELSE "idle")
  /\ UNCHANGED <<held, operator, clock, prompts, told, stops, line, parked, driver, agents, wire, cancels>>

\* The clock and the approvals of the session go, and its queue is drained.
WatchForget ==
  /\ At("watch", "forget") /\ clock' = "none" /\ parked' = {}
  /\ Goto("watch", IF queue = <<>> THEN "idle" ELSE "drain")
  /\ UNCHANGED <<held, operator, card, prompts, told, stops, line, driver, agents, wire, cancels>>

-----------------------------------------------------------------------------
(* The operator *)

OperatorAt(place)      == operator.at = place
OperatorGoes(place, r) == operator' = [at |-> place, req |-> r]

\* web_cancel_session: only for a turn in flight or a parked approval...
CancelLook ==
  /\ OperatorAt("idle") /\ cancels < MaxCancels /\ cancels' = cancels + 1
  /\ live /\ (InFlight \/ parked # {})
  /\ OperatorGoes("mark", 0)
  /\ UNCHANGED <<pc, held, turn, stops, line, parked, driver, agents, wire>>

\* ...the current turn is marked, if there is one...
CancelMark ==
  /\ OperatorAt("mark") /\ OperatorGoes("cancel", 0)
  /\ mark' = (IF prompts = <<>> THEN mark ELSE Len(prompts))
  /\ asked' = (IF prompts = <<>> THEN asked ELSE asked \cup {Len(prompts)})
  /\ UNCHANGED <<pc, held, turn, stopped, line, parked, driver, agents, wire, cancels>>

\* ...the agent is told, and the approvals are released.
CancelSend ==
  /\ OperatorAt("cancel") /\ OperatorGoes("release", 0) /\ outbox' = Append(outbox, Cancel)
  /\ UNCHANGED <<pc, held, turn, stops, line, parked, given, agents, wire, cancels>>
CancelRelease ==
  /\ OperatorAt("release") /\ OperatorGoes("idle", 0) /\ parked' = {}
  /\ UNCHANGED <<pc, held, turn, stops, line, driver, agents, wire, cancels>>

\* An answer: only to an approval that is parked, and leaving unparks it (emit).
AnswerLook ==
  /\ OperatorAt("idle") /\ \E r \in parked : OperatorGoes("reply", r)
  /\ UNCHANGED <<pc, held, turn, stops, line, parked, driver, agents, wire, cancels>>
AnswerSend ==
  /\ OperatorAt("reply") /\ OperatorGoes("idle", 0)
  /\ parked' = parked \ {operator.req} /\ outbox' = Append(outbox, Reply(operator.req))
  /\ UNCHANGED <<pc, held, turn, stops, line, given, agents, wire, cancels>>

\* web_close_session: the child is killed and the session's tables are cleared, then the
\* mapping is removed with its queue.
CloseKill ==
  /\ Closes /\ OperatorAt("idle") /\ live /\ OperatorGoes("remove", 0)
  /\ child' = (IF child = "up" THEN "gone" ELSE child) /\ agent' = <<>> /\ blocked' = {}
  /\ card' = Absent /\ clock' = "none" /\ parked' = {} /\ prompts' = <<>> /\ told' = FALSE
  /\ UNCHANGED <<pc, held, stops, line, driver, spoke, asks, strays, wire, cancels>>
CloseRemove ==
  /\ OperatorAt("remove") /\ OperatorGoes("idle", 0) /\ Teardown
  /\ UNCHANGED <<pc, held, turn, stops, parked, driver, agents, wire, cancels>>

-----------------------------------------------------------------------------
(* The driver and its agent (sebas-acp/src/claude/manager.rs, driver.rs) *)

Report(kind, req) == Len(wire) < MaxWire /\ wire' = Append(wire, Event(kind, req))

\* SessionManager::send; nothing reaches an agent that is no more. A cancelled agent is
\* replaced, forgets every prompt it had, and reports the end of one turn.
Deliver ==
  /\ outbox # <<>> /\ outbox' = Tail(outbox)
  /\ LET c == Head(outbox) IN
     IF child # "up" THEN UNCHANGED <<agent, blocked, spoke, wire>>
     ELSE \/ /\ c.kind = "prompt" /\ agent' = Append(agent, c.text)
             /\ UNCHANGED <<blocked, spoke, wire>>
          \/ /\ c.kind = "reply" /\ blocked' = blocked \ {c.req}
             /\ UNCHANGED <<agent, spoke, wire>>
          \/ /\ c.kind = "cancel" /\ agent' = <<>> /\ blocked' = {} /\ spoke' = FALSE
             /\ Report("fin", 0)
  /\ UNCHANGED <<tasks, turn, stops, line, parked, given, child, asks, strays, cancels>>

Works == child = "up" /\ agent # <<>> /\ blocked = {}
AgentSpeaks ==
  /\ Works /\ ~spoke /\ spoke' = TRUE /\ Report("text", 0)
  /\ UNCHANGED <<tasks, turn, stops, line, parked, driver, agent, blocked, child, asks, strays, cancels>>
AgentAsks ==
  /\ Works /\ asks < MaxAsks /\ asks' = asks + 1 /\ blocked' = {asks + 1} /\ Report("ask", asks + 1)
  /\ UNCHANGED <<tasks, turn, stops, line, parked, driver, agent, spoke, child, strays, cancels>>
AgentFinishes ==
  /\ Works /\ agent' = Tail(agent) /\ spoke' = FALSE /\ Report("fin", 0)
  /\ UNCHANGED <<tasks, turn, stops, line, parked, driver, blocked, child, asks, strays, cancels>>

\* An event that belongs to no turn; a model switch that failed.
AgentStrays ==
  /\ child = "up" /\ strays < MaxStrays /\ strays' = strays + 1
  /\ \E kind \in {"stray", "reject"} : Report(kind, 0)
  /\ UNCHANGED <<tasks, turn, stops, line, parked, driver, agent, blocked, spoke, child, asks, cancels>>

\* The agent dies, with a terminal error or with its channel closed and nothing said.
AgentDies ==
  /\ child = "up" /\ agent' = <<>> /\ blocked' = {}
  /\ \/ child' = "dead" /\ Report("term", 0)
     \/ child' = "gone" /\ UNCHANGED wire
  /\ UNCHANGED <<tasks, turn, stops, line, parked, driver, spoke, asks, strays, cancels>>

-----------------------------------------------------------------------------
Open(task)   == DropCard(task) \/ SeedCard(task) \/ SendPrompt(task)
Decide(t)    == LookAtCard(t) \/ EnqueueTurn(t) \/ FlipCard(t) \/ Open(t)
Drain(task)  == DrainLook(task) \/ PopTurn(task) \/ Open(task)
Pump == \/ PumpText \/ PumpStray \/ PumpAsk \/ PumpFinished \/ PumpSettle \/ PumpRejected
        \/ PumpRejection \/ PumpTerminal \/ PumpRetire \/ PumpClear
        \/ PumpClosed \/ PumpBlame \/ PumpBury \/ Drain("pump")
Watch == WatchScan \/ WatchCheck \/ WatchSettle \/ WatchForget \/ Drain("watch")
Cancelling == CancelMark \/ CancelSend \/ CancelRelease
Operator   == CancelLook \/ Cancelling \/ AnswerLook \/ AnswerSend \/ CloseKill \/ CloseRemove
Agent      == AgentSpeaks \/ AgentAsks \/ AgentFinishes \/ AgentStrays \/ AgentDies

Next == \/ \E t \in Texts : Route(t) \/ Decide(t)
        \/ Pump \/ PumpIdleKill \/ TimePasses \/ Watch \/ Operator \/ Deliver \/ Agent

Spec == Init /\ [][Next]_vars

\* A task that runs is run on: the pump while there are events, the watchdog, a submission
\* that was routed, an operator's request that was begun, the outbound pump. The agent
\* finishes what it works on; that anybody submits, cancels, answers or closes is not
\* assumed.
FairSpec ==
  /\ Spec /\ \A t \in Texts : WF_vars(Decide(t))
  /\ WF_vars(Pump) /\ WF_vars(TimePasses) /\ WF_vars(Watch)
  /\ WF_vars(Cancelling \/ AnswerSend \/ CloseRemove) /\ WF_vars(Deliver) /\ WF_vars(AgentFinishes)

-----------------------------------------------------------------------------
(* Properties *)

TaskPlaces  == {"new", "look", "hold", "flip", "open", "seed", "send", "queued", "sent"}
DrainPlaces == {"idle", "drain", "pop", "open", "seed", "send"}
PumpPlaces  == DrainPlaces \cup {"settle", "rejected", "retire", "clear", "blame", "bury", "off"}
WatchPlaces == DrainPlaces \cup {"check", "settle", "forget"}
OperatorPlaces == {"idle", "mark", "cancel", "release", "reply", "remove"}
Commands == [kind : {"prompt", "cancel", "reply"}, text : Texts \cup {NoText}, req : Nat]
Events   == [kind : {"text", "stray", "ask", "fin", "reject", "term"}, req : Nat]

\* Every table holds values of its kind (the tables of DispatchHandle, SessionMap and
\* StallRegistry).
TypeOK ==
  /\ pc \in [Tasks -> TaskPlaces \cup PumpPlaces \cup WatchPlaces]
  /\ pc["pump"] \in PumpPlaces /\ pc["watch"] \in WatchPlaces
  /\ \A t \in Texts : pc[t] \in TaskPlaces
  /\ held \in [Drainers -> Texts \cup {NoText}]
  /\ operator \in [at : OperatorPlaces, req : Nat]
  /\ card \in [phase : Phases, prompt : Texts \cup {NoText}] \cup {Absent}
  /\ queue \in Seq(Texts) /\ given \in Seq(Texts) /\ prompts \in Seq(Texts) /\ agent \in Seq(Texts)
  /\ live \in BOOLEAN /\ told \in BOOLEAN /\ spoke \in BOOLEAN
  /\ clock \in {"none", "ticking", "out"} /\ child \in {"up", "dead", "gone"}
  /\ parked \subseteq Nat /\ blocked \subseteq Nat
  /\ mark \in Nat /\ stopped \subseteq Nat /\ asked \subseteq Nat
  /\ lost \subseteq Texts
  /\ outbox \in Seq(Commands) /\ wire \in Seq(Events)
  /\ asks \in Nat /\ cancels \in Nat /\ strays \in Nat

\* A text that was routed is in one place, whoever carries it: with its submission, in the
\* queue, with the pump or the watchdog after they took it, handed to the agent, or lost
\* with its session; and it was handed over at most once.
InHand(t) == {d \in Drainers : held[d] = t}
OnePlace ==
  /\ Cardinality(ToSet(queue)) = Len(queue) /\ Cardinality(ToSet(given)) = Len(given)
  /\ \A t \in Texts :
       LET places == {p \in {"queue", "given", "lost", "hand"} :
                        \/ p = "queue" /\ t \in ToSet(queue)
                        \/ p = "given" /\ t \in ToSet(given)
                        \/ p = "lost" /\ t \in lost
                        \/ p = "hand" /\ InHand(t) # {}}
       IN /\ Cardinality(InHand(t)) <= 1
          /\ Cardinality(places) = (IF pc[t] \in {"queued", "sent"} THEN 1 ELSE 0)
          /\ pc[t] = "sent" => t \in ToSet(given)

\* The transcript says that a turn was stopped only of a turn the operator cancelled: a
\* mark that outlived its turn (it was settled by the watchdog, or by a refused model)
\* does not fall on the next (mark_cancelled_turn, the Finished arm of apply_event).
StoppedWasCancelled == stopped \subseteq asked

\* A session whose pump has ended is no longer routed to (finalize_dead_child: "the next
\* message goes through Resume, instead of to a dead session's id").
DeathRetires == At("pump", "off") => ~live

\* A text that waits while the agent has a turn to finish leaves the queue: the end of
\* that turn, or of the one whose card was put over it, drains it; or the agent waits for
\* an approval (drain_queue_if_terminal after Finished).
QueuedTurnMoves ==
  \A t \in Texts : (t \in ToSet(queue) /\ agent # <<>>) ~> (t \notin ToSet(queue) \/ blocked # {})

\* A turn that was silent for too long does not stay as it is (force_settle_stalled_turns).
StalledTurnEnds ==
  (live /\ told /\ Unsettled(card) /\ clock = "out" /\ parked = {})
    ~> (~live \/ ~told \/ ~Unsettled(card) \/ clock # "out" \/ parked # {})

\* A text that waits in a live session leaves the queue, or the agent waits for an
\* approval: "Queued turns, if any, SHALL be drained to the still-live session for the
\* next round" (session-lifecycle).
QueuedTurnRuns ==
  \A t \in Texts : (t \in ToSet(queue) /\ live) ~> (t \notin ToSet(queue) \/ ~live \/ blocked # {})

\* The engine keeps the promise of TurnPromise, every text's way into the agent or out of
\* it, and does not keep a text in its hands.
Place(t) ==
  IF t \in ToSet(queue) THEN "line" ELSE IF t \in ToSet(given) THEN "given"
  ELSE IF t \in lost THEN "lost" ELSE IF pc[t] = "new" THEN "new" ELSE "held"
Promise == INSTANCE TurnPromise WITH place <- [t \in Texts |-> Place(t)], line <- queue
KeepsPromise == Promise!FairSpec
=============================================================================
