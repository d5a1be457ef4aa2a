------------------------ MODULE ClaudeSessionProofs ------------------------
(***************************************************************************)
(* Proofs about ClaudeSession, for any tools and bounds: a session that    *)
(* ended says so unless it was killed, a kill is silent, an answer decides *)
(* the request it was given to, hang detection is suspended no longer than *)
(* a consultation is open, and its ladder is climbed in silent turns only. *)
(***************************************************************************)
EXTENDS ClaudeSession, TLAPS

\* What is numbered in this connection was consulted in it, and its hook counts that.
Numbered(h) == h.conn < conn \/ (h.conn = conn /\ h.id[2] <= seq)
SeqInv ==
  /\ seq <= asks
  /\ \A h \in slots \cup waking \cup asked : Numbered(h)
  /\ \A d \in decided : Numbered(d.hook) /\ d.hook \notin slots /\ d.asked.id = d.hook.id

\* What has been said where: nothing by a running loop or after a kill that met one.
EndInv ==
  /\ task \in Loop => terminals = 0 /\ ~sent
  /\ task = "wrap" => terminals <= 1
  /\ task = "tell" => terminals <= 1 /\ ~struck
  /\ sent => terminals >= 1
  /\ struck => expected /\ task \notin Loop

\* The inductive invariant.
Inv == TypeOK /\ SeqInv /\ EndInv /\ DeadIsSaid /\ KilledIsSilent /\ SuspendedByWait

\* The steps that leave the hooks' state alone, and those that leave the end's.
Quiet ==
  \/ Insert \/ Kill \/ SendCmd("prompt") \/ SendCmd("cancel")
  \/ TakePrompt \/ TakeCancel \/ HealFails \/ Message \/ OutputEnds \/ Tick
  \/ Wrapper \/ TimePasses \/ ChildDies \/ ChildHangs
Lasting ==
  \/ SendCmd("prompt") \/ SendCmd("cancel") \/ (\E r \in asked : Answer(r))
  \/ Speak \/ Finish \/ Climb \/ TimePasses \/ Hook \/ (\E tool \in Tools : Ask(tool))
  \/ ChildDies \/ ChildHangs

-----------------------------------------------------------------------------
(* The hooks *)

\* The steps of the loop, the wrapper and the child do not touch the hooks.
LEMMA QuietKeepsHooks ==
  ASSUME Quiet
  PROVE  UNCHANGED hooks
<1>1. ASSUME Message \/ OutputEnds \/ Tick \/ Wrapper PROVE UNCHANGED hooks
  BY <1>1 DEF Message, Speak, Finish, Fail, OutputEnds, Tick, ProbeFails, Climb, GiveUp,
              GraceOver, Wrapper, Wrap, Tell, Leave, Ends, Terminal
<1>2. ASSUME TakePrompt \/ TakeCancel \/ HealFails PROVE UNCHANGED hooks
  BY <1>2 DEF TakePrompt, TakeCancel, HealFails, Ends, Terminal
<1>3. ASSUME Insert \/ Kill \/ SendCmd("prompt") \/ SendCmd("cancel") PROVE UNCHANGED hooks
  BY <1>3 DEF Insert, Kill, SendCmd
<1>4. ASSUME TimePasses \/ ChildDies \/ ChildHangs PROVE UNCHANGED hooks
  BY <1>4 DEF TimePasses, ChildDies, ChildHangs
<1> QED BY <1>1, <1>2, <1>3, <1>4 DEF Quiet

\* What the hooks' part of the invariant is about.
HooksOK ==
  /\ conn \in Nat \ {0} /\ seq \in 0..MaxAsks /\ asks \in 0..MaxAsks /\ waiting \in BOOLEAN
  /\ slots \subseteq Parks /\ waking \subseteq Parks /\ asked \subseteq Parks
  /\ decided \subseteq [asked : Parks, hook : Parks]

\* The request a consultation is parked under is not numbered before.
LEMMA NewRequest ==
  ASSUME HooksOK, SeqInv, NEW tool \in Tools, asks < MaxAsks,
         NEW new, new = [conn |-> conn, id |-> RequestId(tool, seq + 1)]
  PROVE  /\ new \in Parks /\ ~Numbered(new) /\ new.conn = conn
         /\ new.id[2] = seq + 1 /\ seq + 1 \in 0..MaxAsks /\ asks + 1 \in 0..MaxAsks
<1>1. seq + 1 \in 0..MaxAsks /\ asks + 1 \in 0..MaxAsks
  BY SessionAssumption DEF HooksOK, SeqInv
<1>2. new.conn = conn /\ new.id = <<tool, seq + 1>> /\ new.id \in Ids
  BY <1>1 DEF RequestId, Ids
<1>3. new \in Parks
  BY <1>2 DEF Parks, HooksOK
<1>4. new.id[2] = seq + 1
  BY <1>2
<1>5. ~Numbered(new)
  BY <1>2, <1>4 DEF Numbered, HooksOK
<1> QED BY <1>1, <1>2, <1>3, <1>4, <1>5

\* A consultation that is asked.
LEMMA AskStep ==
  ASSUME HooksOK, SeqInv, NEW tool \in Tools, Ask(tool)
  PROVE  HooksOK' /\ SeqInv' /\ SuspendedByWait'
<1>0. PICK new : new = [conn |-> conn, id |-> RequestId(tool, seq + 1)]
  OBVIOUS
<1> DEFINE old == {h \in slots : h.id = new.id}
<1>1. /\ slots' = (slots \ old) \cup {new} /\ waking' = waking \cup old
      /\ asked' = asked \cup {new} /\ waiting' = TRUE /\ seq' = seq + 1 /\ asks' = asks + 1
      /\ conn' = conn /\ decided' = decided /\ asks < MaxAsks
  BY <1>0 DEF Ask
<1>2. /\ new \in Parks /\ ~Numbered(new) /\ new.conn = conn
      /\ new.id[2] = seq + 1 /\ seq + 1 \in 0..MaxAsks /\ asks + 1 \in 0..MaxAsks
  BY <1>0, <1>1, NewRequest
<1>3. HooksOK'
  BY <1>1, <1>2 DEF HooksOK
<1>4. ASSUME NEW h \in Parks, Numbered(h) PROVE Numbered(h)' /\ h # new
  <2>1. h.id[2] \in Nat
    BY DEF Parks, Ids
  <2> QED BY <1>1, <1>2, <1>4, <2>1 DEF Numbered, HooksOK
<1>5. Numbered(new)'
  BY <1>1, <1>2 DEF Numbered
<1>6. ASSUME NEW h \in (slots \cup waking \cup asked)' PROVE Numbered(h)'
  <2>1. h = new \/ h \in slots \cup waking \cup asked
    BY <1>1
  <2>2. h \in slots \cup waking \cup asked => h \in Parks /\ Numbered(h)
    BY DEF HooksOK, SeqInv
  <2> QED BY <1>4, <1>5, <2>1, <2>2
<1>7. ASSUME NEW d \in decided'
      PROVE  Numbered(d.hook)' /\ d.hook \notin slots' /\ d.asked.id = d.hook.id
  <2>1. d \in decided /\ d.hook \in Parks
    BY <1>1 DEF HooksOK
  <2>2. Numbered(d.hook) /\ d.hook \notin slots /\ d.asked.id = d.hook.id
    BY <2>1 DEF SeqInv
  <2> QED BY <1>1, <1>4, <2>1, <2>2
<1>8. seq' <= asks'
  BY <1>1 DEF SeqInv, HooksOK
<1>9. new \in Here(slots \cup waking)'
  BY <1>1, <1>2 DEF Here
<1> QED BY <1>3, <1>6, <1>7, <1>8, <1>9 DEF SeqInv, SuspendedByWait

\* An answer wakes what is parked under its id.
LEMMA AnswerStep ==
  ASSUME HooksOK, SeqInv, SuspendedByWait, NEW r \in asked, Answer(r)
  PROVE  HooksOK' /\ SeqInv' /\ SuspendedByWait'
<1> DEFINE parked == {h \in slots : h.id = r.id}
<1>1. /\ slots' = slots \ parked /\ waking' = waking \cup parked
      /\ decided' = decided \cup {[asked |-> r, hook |-> h] : h \in parked}
      /\ UNCHANGED <<conn, seq, waiting, asked, asks>>
  BY DEF Answer
<1>2. \A h \in parked : h \in slots /\ h.id = r.id
  OBVIOUS
<1> HIDE DEF parked
<1>3. HooksOK'
  <2>1. slots' \subseteq Parks /\ waking' \subseteq Parks
    BY <1>1, <1>2 DEF HooksOK
  <2>2. \A h \in parked : [asked |-> r, hook |-> h] \in [asked : Parks, hook : Parks]
    BY <1>2 DEF HooksOK
  <2>3. decided' \subseteq [asked : Parks, hook : Parks]
    BY <1>1, <2>2 DEF HooksOK
  <2> QED BY <1>1, <2>1, <2>3 DEF HooksOK
<1>4. \A h : Numbered(h)' <=> Numbered(h)
  BY <1>1 DEF Numbered
<1>5. \A h \in (slots \cup waking \cup asked)' : Numbered(h)'
  BY <1>1, <1>2, <1>4 DEF SeqInv
<1>6. ASSUME NEW d \in decided'
      PROVE  Numbered(d.hook)' /\ d.hook \notin slots' /\ d.asked.id = d.hook.id
  <2>1. CASE d \in decided
    BY <2>1, <1>1, <1>4 DEF SeqInv
  <2>2. CASE \E h \in parked : d = [asked |-> r, hook |-> h]
    <3>1. PICK h \in parked : d = [asked |-> r, hook |-> h]
      BY <2>2
    <3>2. d.hook = h /\ d.asked = r
      BY <3>1
    <3> QED BY <3>2, <1>1, <1>2, <1>4 DEF SeqInv
  <2> QED BY <1>1, <2>1, <2>2
<1>7. (slots \cup waking)' = slots \cup waking
  BY <1>1, <1>2
<1>8. SuspendedByWait'
  BY <1>1, <1>7 DEF SuspendedByWait, Here
<1> QED BY <1>1, <1>3, <1>5, <1>6, <1>8 DEF SeqInv

\* A consultation that returns.
LEMMA WakeStep ==
  ASSUME HooksOK, SeqInv, SuspendedByWait, NEW h \in waking, Wake(h)
  PROVE  HooksOK' /\ SeqInv' /\ SuspendedByWait'
<1>1. /\ waking' = waking \ {h} /\ waiting' = (waiting /\ h.conn # conn)
      /\ UNCHANGED <<conn, seq, slots, asked, decided, asks>>
  BY DEF Wake
<1>2. HooksOK'
  BY <1>1 DEF HooksOK
<1>3. \A g : Numbered(g)' <=> Numbered(g)
  BY <1>1 DEF Numbered
<1>4. SeqInv'
  BY <1>1, <1>3 DEF SeqInv
<1>5. ASSUME waiting' PROVE Here(slots \cup waking)' # {}
  <2>1. waiting /\ h.conn # conn
    BY <1>5, <1>1
  <2>2. PICK g \in slots \cup waking : g.conn = conn
    BY <2>1 DEF SuspendedByWait, Here
  <2>3. g \in (slots \cup waking)' /\ g.conn = conn'
    BY <2>1, <2>2, <1>1
  <2> QED BY <2>3 DEF Here
<1> QED BY <1>2, <1>4, <1>5 DEF SuspendedByWait

\* A new connection numbers from the start, and waits for nobody.
LEMMA HealStep ==
  ASSUME HooksOK, SeqInv, Heal
  PROVE  HooksOK' /\ SeqInv' /\ SuspendedByWait'
<1>1. /\ conn' = conn + 1 /\ seq' = 0 /\ waiting' = FALSE
      /\ UNCHANGED <<slots, waking, asked, decided, asks>>
  BY DEF Heal
<1>2. HooksOK'
  <2>1. conn + 1 \in Nat \ {0} /\ 0 \in 0..MaxAsks
    BY SessionAssumption DEF HooksOK
  <2> QED BY <1>1, <2>1 DEF HooksOK
<1>3. \A g \in Parks : Numbered(g) => Numbered(g)'
  BY <1>1 DEF Numbered, HooksOK, Parks
<1>4. \A g \in (slots \cup waking \cup asked)' : Numbered(g)'
  BY <1>1, <1>3 DEF SeqInv, HooksOK
<1>5. ASSUME NEW d \in decided'
      PROVE  Numbered(d.hook)' /\ d.hook \notin slots' /\ d.asked.id = d.hook.id
  <2>1. d \in decided /\ d.hook \in Parks
    BY <1>1 DEF HooksOK
  <2> QED BY <2>1, <1>1, <1>3 DEF SeqInv
<1>6. seq' <= asks'
  BY <1>1 DEF HooksOK
<1> QED BY <1>1, <1>2, <1>4, <1>5, <1>6 DEF SeqInv, SuspendedByWait

\* Every step keeps the hooks' part of the invariant.
LEMMA HooksStep ==
  ASSUME HooksOK, SeqInv, SuspendedByWait, [Next]_vars
  PROVE  HooksOK' /\ SeqInv' /\ SuspendedByWait'
<1>1. ASSUME UNCHANGED hooks PROVE HooksOK' /\ SeqInv' /\ SuspendedByWait'
  BY <1>1 DEF hooks, HooksOK, SeqInv, Numbered, SuspendedByWait, Here
<1>2. CASE Quiet
  BY <1>1, <1>2, QuietKeepsHooks
<1>3. CASE \E tool \in Tools : Ask(tool)
  BY <1>3, AskStep
<1>4. CASE \E r \in asked : Answer(r)
  BY <1>4, AnswerStep
<1>5. CASE Hook
  BY <1>5, WakeStep DEF Hook
<1>6. CASE Heal
  BY <1>6, HealStep
<1>7. CASE UNCHANGED vars
  BY <1>1, <1>7 DEF vars, hooks
<1> QED BY <1>2, <1>3, <1>4, <1>5, <1>6, <1>7 DEF Next, Manager, Command, Quiet

-----------------------------------------------------------------------------
(* The end *)

\* What the end's part of the invariant is about.
EndOK ==
  /\ task \in Places /\ expected \in BOOLEAN /\ sent \in BOOLEAN /\ struck \in BOOLEAN
  /\ terminals \in 0..2 /\ entry \in {"awaited", "in", "out"}
EndHolds == EndOK /\ EndInv /\ DeadIsSaid /\ KilledIsSilent

\* The steps that neither end the loop nor follow its end.
LEMMA LastingKeepsEnd ==
  ASSUME EndHolds, Lasting
  PROVE  EndHolds'
<1>1. UNCHANGED <<task, table, ends>>
  BY DEF Lasting, SendCmd, Answer, Speak, Finish, Climb, TimePasses, Hook, Wake, Ask, ChildDies, ChildHangs
<1> QED BY <1>1 DEF table, ends, EndHolds, EndOK, EndInv, DeadIsSaid, KilledIsSilent

\* A loop that ends with one terminal error, or with none.
LEMMA EndsStep ==
  ASSUME EndHolds, task \in Loop, NEW said \in {0, 1}, Ends(said),
         UNCHANGED sent \/ (said = 1 /\ sent' = TRUE)
  PROVE  EndHolds'
<1>1. task' = "wrap" /\ terminals' = said /\ struck' = struck /\ expected' = expected /\ entry' = entry
  BY DEF Ends, table, EndHolds, EndOK, EndInv
<1>2. ~struck /\ ~sent
  BY DEF EndHolds, EndInv
<1>3. sent' \in BOOLEAN /\ (sent' => said = 1)
  <2>1. CASE UNCHANGED sent
    BY <2>1, <1>2 DEF EndHolds, EndOK
  <2>2. CASE said = 1 /\ sent' = TRUE
    BY <2>2
  <2> QED BY <2>1, <2>2
<1>4. EndOK'
  BY <1>1, <1>2, <1>3 DEF EndHolds, EndOK, Places
<1>5. EndInv'
  BY <1>1, <1>2, <1>3 DEF EndInv, Loop
<1> QED BY <1>1, <1>2, <1>4, <1>5 DEF EndHolds, DeadIsSaid, KilledIsSilent

\* A loop that moves to another of its places.
LEMMA LoopMoves ==
  ASSUME EndHolds, task \in Loop, task' \in Loop, UNCHANGED <<table, ends>>
  PROVE  EndHolds'
BY DEF EndHolds, EndOK, EndInv, DeadIsSaid, KilledIsSilent, Loop, Places, table, ends

\* The manager's two steps, and the wrapper's three.
LEMMA TableStep ==
  ASSUME EndHolds, Insert \/ Kill
  PROVE  EndHolds'
<1>1. CASE Insert
  BY <1>1 DEF Insert, EndHolds, EndOK, EndInv, DeadIsSaid, KilledIsSilent, ends
<1>2. CASE Kill
  <2>1. /\ entry' = "out" /\ expected' = TRUE /\ sent' = sent /\ terminals' = terminals
        /\ struck' = (struck \/ task \in Loop)
        /\ task' \in {"gone", IF task \in Loop THEN "wrap" ELSE task}
    BY <1>2 DEF Kill
  <2>2. task' \in Places /\ task' \notin Loop
    BY <2>1 DEF EndHolds, EndOK, Places, Loop
  <2>3. task' = "wrap" => terminals <= 1
    BY <2>1 DEF EndHolds, EndOK, EndInv
  <2>4. task' = "tell" => task = "tell"
    BY <2>1
  <2>5. struck' => terminals' = 0
    BY <2>1 DEF EndHolds, EndOK, EndInv, KilledIsSilent
  <2>6. task' = "tell" => terminals <= 1 /\ ~struck'
    BY <2>1, <2>4 DEF EndHolds, EndInv, Loop
  <2>7. EndInv'
    BY <2>1, <2>2, <2>3, <2>6 DEF EndHolds, EndInv
  <2>8. EndOK'
    BY <2>1, <2>2 DEF EndHolds, EndOK
  <2> QED BY <2>1, <2>5, <2>7, <2>8 DEF EndHolds, DeadIsSaid, KilledIsSilent
<1> QED BY <1>1, <1>2

LEMMA WrapperStep ==
  ASSUME EndHolds, Wrapper
  PROVE  EndHolds'
<1>1. CASE Wrap
  BY <1>1 DEF Wrap, At, EndHolds, EndOK, EndInv, DeadIsSaid, KilledIsSilent, Loop, Places, table, ends
<1>2. CASE Tell
  <2>1. /\ task = "tell" /\ task' = "leave" /\ terminals' = terminals + 1
        /\ UNCHANGED <<entry, expected, sent, struck>>
    BY <1>2 DEF Tell, At, table
  <2> QED BY <2>1 DEF EndHolds, EndOK, EndInv, DeadIsSaid, KilledIsSilent, Loop, Places
<1>3. CASE Leave
  <2>1. /\ task = "leave" /\ task' = "gone" /\ entry' \in {"awaited", "in", "out"}
        /\ UNCHANGED <<expected, sent, struck, terminals>>
    BY <1>3 DEF Leave, At, ends, EndHolds, EndOK
  <2> QED BY <2>1 DEF EndHolds, EndOK, EndInv, DeadIsSaid, KilledIsSilent, Loop, Places
<1> QED BY <1>1, <1>2, <1>3 DEF Wrapper

\* The loop's steps that end it, or may.
LEMMA LoopStep ==
  ASSUME EndHolds, TakePrompt \/ TakeCancel \/ Heal \/ HealFails \/ Fail \/ OutputEnds
                     \/ ProbeFails \/ GiveUp \/ GraceOver
  PROVE  EndHolds'
<1>1. ASSUME task \in Loop, Terminal PROVE EndHolds'
  BY <1>1, EndsStep DEF Terminal
<1>2. CASE TakePrompt
  <2>1. task \in Loop
    BY <1>2 DEF TakePrompt, Took, At, Loop
  <2>2. Terminal \/ UNCHANGED <<task, table, ends>>
    BY <1>2 DEF TakePrompt
  <2> QED BY <1>1, <2>1, <2>2, LoopMoves
<1>3. CASE TakeCancel
  <2>1. task \in Loop
    BY <1>3 DEF TakeCancel, Took, At, Loop
  <2>2. Terminal \/ (task' = "heal" /\ UNCHANGED <<table, ends>>)
    BY <1>3 DEF TakeCancel
  <2> QED BY <1>1, <2>1, <2>2, LoopMoves DEF Loop
<1>4. CASE Heal
  <2>1. task = "heal" /\ task' = "run" /\ UNCHANGED <<table, ends>>
    BY <1>4 DEF Heal, At
  <2> QED BY <2>1, LoopMoves DEF Loop
<1>5. CASE HealFails
  BY <1>1, <1>5 DEF HealFails, At, Loop
<1>6. CASE Fail
  <2>1. task \in Loop /\ Ends(1) /\ UNCHANGED sent
    BY <1>6 DEF Fail, At, Loop
  <2> QED BY <2>1, EndsStep
<1>7. CASE OutputEnds
  <2>1. task \in Loop
    BY <1>7 DEF OutputEnds, At, Loop
  <2>2. Terminal \/ (Ends(0) /\ UNCHANGED sent)
    BY <1>7 DEF OutputEnds
  <2> QED BY <1>1, <2>1, <2>2, EndsStep
<1>8. CASE ProbeFails
  BY <1>1, <1>8 DEF ProbeFails, At, Loop
<1>9. CASE GiveUp
  <2>1. task \in Loop /\ task' = "grace" /\ UNCHANGED <<table, ends>>
    BY <1>9 DEF GiveUp, At, Loop
  <2> QED BY <2>1, LoopMoves DEF Loop
<1>10. CASE GraceOver
  BY <1>1, <1>10 DEF GraceOver, At, Loop
<1> QED BY <1>2, <1>3, <1>4, <1>5, <1>6, <1>7, <1>8, <1>9, <1>10

\* Every step keeps the end's part of the invariant.
LEMMA EndStep ==
  ASSUME EndHolds, [Next]_vars
  PROVE  EndHolds'
<1>1. CASE Lasting
  BY <1>1, LastingKeepsEnd
<1>2. CASE Insert \/ Kill
  BY <1>2, TableStep
<1>3. CASE Wrapper
  BY <1>3, WrapperStep
<1>4. CASE TakePrompt \/ TakeCancel \/ Heal \/ HealFails \/ Fail \/ OutputEnds
           \/ ProbeFails \/ GiveUp \/ GraceOver
  BY <1>4, LoopStep
<1>5. CASE UNCHANGED vars
  BY <1>5 DEF vars, table, ends, EndHolds, EndOK, EndInv, DeadIsSaid, KilledIsSilent
<1> QED BY <1>1, <1>2, <1>3, <1>4, <1>5 DEF Next, Manager, Command, Message, Tick, Lasting

-----------------------------------------------------------------------------
(* The types of the rest *)

Children == [up : BOOLEAN, hung : BOOLEAN, turns : Nat]
RestOK ==
  /\ cmds \in Seq({"prompt", "cancel"}) /\ prompts \in 0..MaxPrompts /\ cancels \in 0..MaxCancels
  /\ child \in Children
  /\ active \in BOOLEAN /\ quiet \in BOOLEAN /\ stage \in 0..3

\* A child that starts or is gone, or is marked.
LEMMA ChildOK ==
  ASSUME child \in Children
  PROVE  /\ Child(FALSE, 0) \in Children /\ Child(TRUE, 0) \in Children
         /\ [child EXCEPT !.up = FALSE] \in Children
         /\ [child EXCEPT !.hung = TRUE] \in Children
<1>1. Child(FALSE, 0) \in Children /\ Child(TRUE, 0) \in Children
  BY DEF Child, Children
<1>2. [child EXCEPT !.up = FALSE] \in Children
  BY DEF Children
<1>3. [child EXCEPT !.hung = TRUE] \in Children
  BY DEF Children
<1> QED BY <1>1, <1>2, <1>3

\* A child that gets a prompt, or finishes one.
LEMMA TurnsOK ==
  ASSUME child \in Children
  PROVE  /\ [child EXCEPT !.turns = @ + 1] \in Children
         /\ child.turns > 0 => [child EXCEPT !.turns = @ - 1] \in Children
<1>0. child.turns \in Nat
  BY DEF Children
<1>1. [child EXCEPT !.turns = @ + 1] \in Children
  BY <1>0 DEF Children
<1>2. child.turns > 0 => [child EXCEPT !.turns = @ - 1] \in Children
  <2>1. child.turns > 0 => child.turns - 1 \in Nat
    BY <1>0
  <2> QED BY <2>1 DEF Children
<1> QED BY <1>1, <1>2

\* A command that is taken.
LEMMA TookOK ==
  ASSUME RestOK, NEW kind, Took(kind)
  PROVE  cmds' \in Seq({"prompt", "cancel"})
BY DEF RestOK, Took

\* Every step keeps the types of the rest.
LEMMA RestStep ==
  ASSUME RestOK, [Next]_vars
  PROVE  RestOK'
<1>0. /\ child \in Children /\ Child(FALSE, 0) \in Children /\ Child(TRUE, 0) \in Children
      /\ [child EXCEPT !.up = FALSE] \in Children /\ [child EXCEPT !.hung = TRUE] \in Children
      /\ [child EXCEPT !.turns = @ + 1] \in Children
      /\ child.turns > 0 => [child EXCEPT !.turns = @ - 1] \in Children
  BY ChildOK, TurnsOK DEF RestOK
<1>1. ASSUME NEW kind \in {"prompt", "cancel"}, SendCmd(kind) PROVE RestOK'
  <2>1. cmds' \in Seq({"prompt", "cancel"}) /\ UNCHANGED <<ladder, child>>
    BY <1>1 DEF SendCmd, RestOK
  <2>2. prompts' \in 0..MaxPrompts /\ cancels' \in 0..MaxCancels
    BY <1>1, SessionAssumption DEF SendCmd, RestOK
  <2> QED BY <2>1, <2>2 DEF RestOK, ladder
<1>2. CASE TakePrompt
  <2>1. cmds' \in Seq({"prompt", "cancel"}) /\ UNCHANGED <<quiet, stage, prompts, cancels>> /\ active' = TRUE
    BY <1>2, TookOK DEF TakePrompt
  <2>2. child' \in Children
    BY <1>0, <1>2 DEF TakePrompt, Terminal, Ends
  <2> QED BY <2>1, <2>2 DEF RestOK
<1>3. CASE TakeCancel
  <2>1. cmds' \in Seq({"prompt", "cancel"}) /\ UNCHANGED <<ladder, prompts, cancels>>
    BY <1>3, TookOK DEF TakeCancel
  <2>2. child' \in Children
    BY <1>0, <1>3 DEF TakeCancel, Terminal, Ends
  <2> QED BY <2>1, <2>2 DEF RestOK, ladder
<1>4. CASE Insert \/ Kill \/ (\E r \in asked : Answer(r)) \/ Hook \/ (\E tool \in Tools : Ask(tool)) \/ Wrapper
  <2>1. UNCHANGED <<ladder, sends>> /\ child' \in {child, [child EXCEPT !.up = FALSE]}
    BY <1>4 DEF Insert, Kill, Answer, Hook, Wake, Ask, Wrapper, Wrap, Tell, Leave
  <2> QED BY <1>0, <2>1 DEF RestOK, ladder, sends
<1>5. CASE Heal \/ HealFails
  <2>1. UNCHANGED sends /\ child' \in Children
    BY <1>0, <1>5 DEF Heal, HealFails, Terminal, Ends
  <2>2. active' \in BOOLEAN /\ quiet' \in BOOLEAN /\ stage' \in 0..3
    <3>1. CASE Heal
      <4>1. active' = FALSE /\ quiet' = FALSE /\ stage' = 0
        BY <3>1 DEF Heal
      <4>2. active' \in BOOLEAN /\ quiet' \in BOOLEAN
        BY <4>1, Zenon
      <4>3. stage' \in 0..3
        BY <4>1
      <4> QED BY <4>2, <4>3
    <3>2. CASE HealFails
      BY <3>2 DEF HealFails, ladder, RestOK
    <3> QED BY <1>5, <3>1, <3>2
  <2> QED BY <2>1, <2>2 DEF RestOK, sends
<1>6. CASE Message
  <2>1. UNCHANGED sends /\ active' \in BOOLEAN /\ quiet' \in BOOLEAN /\ stage' \in 0..3
    <3>1. UNCHANGED sends /\ active' \in {active, FALSE} /\ quiet' = FALSE /\ stage' = 0
      BY <1>6 DEF Message, Speak, Finish, Fail, Heard
    <3>2. active' \in BOOLEAN /\ quiet' \in BOOLEAN
      BY <3>1, Zenon DEF RestOK
    <3>3. stage' \in 0..3
      BY <3>1
    <3> QED BY <3>1, <3>2, <3>3
  <2>2. child' \in Children
    BY <1>0, <1>6 DEF Message, Speak, Finish, Fail, Works, Ends, RestOK
  <2> QED BY <2>1, <2>2 DEF RestOK, sends
<1>7. CASE OutputEnds \/ ProbeFails \/ GiveUp \/ GraceOver
  <2>1. UNCHANGED <<ladder, sends>> /\ child' \in Children
    BY <1>0, <1>7 DEF OutputEnds, ProbeFails, GiveUp, GraceOver, Terminal, Ends
  <2> QED BY <1>0, <2>1 DEF RestOK, ladder, sends
<1>8. CASE Climb
  BY <1>8 DEF Climb, RestOK, sends
<1>9. CASE TimePasses \/ ChildDies \/ ChildHangs
  <2>1. /\ UNCHANGED <<active, stage, sends>> /\ quiet' \in {quiet, TRUE}
        /\ child' \in Children
    BY <1>0, <1>9 DEF TimePasses, ChildDies, ChildHangs, RestOK, ladder
  <2> QED BY <2>1 DEF RestOK, sends
<1>10. CASE UNCHANGED vars
  BY <1>10 DEF vars, ladder, sends, RestOK
<1> QED BY <1>1, <1>2, <1>3, <1>4, <1>5, <1>6, <1>7, <1>8, <1>9, <1>10 DEF Next, Manager, Command, Tick

-----------------------------------------------------------------------------
(* The theorems *)

\* The inductive invariant holds.
THEOREM InvHolds == Spec => []Inv
<1>1. Init => Inv
  <2> SUFFICES ASSUME Init PROVE Inv
    OBVIOUS
  <2>1. HooksOK
    <3>1. 1 \in Nat \ {0} /\ 0 \in 0..MaxAsks
      BY SessionAssumption
    <3> QED BY <3>1 DEF Init, HooksOK
  <2>2. SeqInv /\ SuspendedByWait
    BY DEF Init, SeqInv, SuspendedByWait
  <2>3. EndOK
    <3>1. "run" \in Places
      BY DEF Places, Loop
    <3>2. task \in Places /\ entry \in {"awaited", "in", "out"} /\ terminals \in 0..2
      BY <3>1 DEF Init
    <3>3. expected \in BOOLEAN /\ sent \in BOOLEAN /\ struck \in BOOLEAN
      BY Zenon DEF Init
    <3> QED BY <3>2, <3>3 DEF EndOK
  <2>4. EndInv /\ DeadIsSaid /\ KilledIsSilent
    BY DEF Init, EndInv, DeadIsSaid, KilledIsSilent, Loop
  <2>5. RestOK
    <3>1. <<>> \in Seq({"prompt", "cancel"}) /\ 0 \in 0..MaxPrompts /\ 0 \in 0..MaxCancels
      BY SessionAssumption
    <3>2. Child(TRUE, 0) \in Children
      BY DEF Child, Children
    <3>3. cmds \in Seq({"prompt", "cancel"}) /\ prompts \in 0..MaxPrompts /\ cancels \in 0..MaxCancels
      BY <3>1 DEF Init
    <3>4. child \in Children
      BY <3>2 DEF Init
    <3>5. active \in BOOLEAN /\ quiet \in BOOLEAN /\ stage \in 0..3
      <4>1. active \in BOOLEAN /\ quiet \in BOOLEAN
        BY Zenon DEF Init
      <4>2. stage \in 0..3
        BY DEF Init
      <4> QED BY <4>1, <4>2
    <3> QED BY <3>3, <3>4, <3>5 DEF RestOK
  <2> QED BY <2>1, <2>2, <2>3, <2>4, <2>5 DEF Inv, TypeOK, HooksOK, EndOK, RestOK, Children
<1>2. Inv /\ [Next]_vars => Inv'
  <2> SUFFICES ASSUME Inv, [Next]_vars PROVE Inv'
    OBVIOUS
  <2>1. HooksOK /\ SeqInv /\ SuspendedByWait /\ EndHolds /\ RestOK
    BY DEF Inv, TypeOK, HooksOK, EndHolds, EndOK, RestOK, Children
  <2>2. HooksOK' /\ SeqInv' /\ SuspendedByWait'
    BY <2>1, HooksStep
  <2>3. EndHolds'
    BY <2>1, EndStep
  <2>4. RestOK'
    BY <2>1, RestStep
  <2> QED BY <2>2, <2>3, <2>4 DEF Inv, TypeOK, HooksOK, EndHolds, EndOK, RestOK, Children
<1> QED BY <1>1, <1>2, PTL DEF Spec

\* Every part of the session holds values of its kind.
THEOREM TypeCorrect == Spec => []TypeOK
<1>1. Inv => TypeOK
  BY DEF Inv
<1> QED BY <1>1, InvHolds, PTL

\* A session that ended without a kill has said so, and a kill that met a running driver
\* is followed by no terminal error.
THEOREM EndIsTold == Spec => []EndIsSaid
<1>1. Inv => EndIsSaid
  BY DEF Inv, EndIsSaid
<1> QED BY <1>1, InvHolds, PTL

\* Within a connection an answer decides the consultation whose request was answered, once.
THEOREM AnswersMeetRequests == Spec => []AnswersOwnRequest
<1>1. Inv => AnswersOwnRequest
  <2> SUFFICES ASSUME Inv, NEW d \in decided, d.asked.conn = d.hook.conn
               PROVE  d.asked = d.hook /\ d.hook \notin slots
    BY DEF AnswersOwnRequest
  <2>1. d.asked \in Parks /\ d.hook \in Parks
    BY DEF Inv, TypeOK
  <2>2. d.asked.id = d.hook.id /\ d.hook \notin slots
    BY DEF Inv, SeqInv
  <2> QED BY <2>1, <2>2 DEF Parks
<1> QED BY <1>1, InvHolds, PTL

\* Hang detection is suspended only while a consultation waits or returns.
THEOREM SuspensionEnds == Spec => []SuspendedByWait
<1>1. Inv => SuspendedByWait
  BY DEF Inv
<1> QED BY <1>1, InvHolds, PTL

-----------------------------------------------------------------------------
(* The ladder of hang detection *)

\* The branch that gives a child up looks at the stage and at the flag of the hooks only:
\* that there is a turn, and that nothing was heard, it takes from how the stage got there.
LadderInv == stage > 0 => active /\ quiet

\* The steps that leave the ladder alone.
Flat ==
  \/ Insert \/ Kill \/ SendCmd("prompt") \/ SendCmd("cancel") \/ (\E r \in asked : Answer(r))
  \/ TakeCancel \/ HealFails \/ OutputEnds \/ ProbeFails \/ GiveUp \/ GraceOver \/ Wrapper
  \/ Hook \/ (\E tool \in Tools : Ask(tool)) \/ ChildDies \/ ChildHangs

\* The ladder is the same after each of them.
LEMMA FlatKeepsLadder ==
  ASSUME Flat
  PROVE  UNCHANGED ladder
<1>1. ASSUME TakeCancel \/ HealFails \/ OutputEnds \/ ProbeFails \/ GiveUp \/ GraceOver \/ Wrapper
      PROVE  UNCHANGED ladder
  BY <1>1 DEF TakeCancel, HealFails, OutputEnds, ProbeFails, GiveUp, GraceOver, Wrapper, Wrap,
              Tell, Leave
<1>2. ASSUME Insert \/ Kill \/ SendCmd("prompt") \/ SendCmd("cancel") \/ (\E r \in asked : Answer(r))
      PROVE  UNCHANGED ladder
  BY <1>2 DEF Insert, Kill, SendCmd, Answer
<1>3. ASSUME Hook \/ (\E tool \in Tools : Ask(tool)) \/ ChildDies \/ ChildHangs
      PROVE  UNCHANGED ladder
  BY <1>3 DEF Hook, Wake, Ask, ChildDies, ChildHangs
<1> QED BY <1>1, <1>2, <1>3 DEF Flat

\* The steps that do move on it, and the way each of them moves.
LEMMA LadderMoves ==
  ASSUME [Next]_vars
  PROVE  \/ UNCHANGED ladder
         \/ TakePrompt /\ active' = TRUE /\ UNCHANGED <<quiet, stage>>
         \/ Heal /\ active' = FALSE /\ quiet' = FALSE /\ stage' = 0
         \/ Message /\ quiet' = FALSE /\ stage' = 0
         \/ Climb /\ quiet /\ active /\ stage' = stage + 1 /\ UNCHANGED <<active, quiet>>
         \/ TimePasses /\ quiet' = TRUE /\ UNCHANGED <<active, stage>>
<1>1. CASE Flat
  BY <1>1, FlatKeepsLadder
<1>2. CASE UNCHANGED vars
  BY <1>2 DEF vars, ladder
<1>3. CASE TakePrompt
  BY <1>3 DEF TakePrompt
<1>4. CASE Heal
  BY <1>4 DEF Heal
<1>5. CASE Message
  BY <1>5 DEF Message, Speak, Finish, Fail, Heard
<1>6. CASE Climb
  BY <1>6 DEF Climb
<1>7. CASE TimePasses
  BY <1>7 DEF TimePasses
<1> QED BY <1>1, <1>2, <1>3, <1>4, <1>5, <1>6, <1>7 DEF Next, Manager, Command, Tick, Flat

\* Whoever is on the ladder is in a turn and silent, after every step.
LEMMA LadderHolds == Spec => [](Inv /\ LadderInv)
<1>1. Init => LadderInv
  BY DEF Init, LadderInv
<1>2. Inv /\ LadderInv /\ [Next]_vars => LadderInv'
  <2> SUFFICES ASSUME LadderInv, [Next]_vars, Inv, stage' > 0
               PROVE  active' /\ quiet'
    BY DEF LadderInv
  <2>1. stage \in 0..3
    BY DEF Inv, TypeOK
  <2>2. CASE UNCHANGED ladder
    BY <2>2 DEF LadderInv, ladder
  <2>3. CASE active' = TRUE /\ UNCHANGED <<quiet, stage>>
    BY <2>3 DEF LadderInv
  <2>4. CASE Climb /\ quiet /\ active /\ stage' = stage + 1 /\ UNCHANGED <<active, quiet>>
    BY <2>4
  <2>5. CASE quiet' = TRUE /\ UNCHANGED <<active, stage>>
    BY <2>5 DEF LadderInv
  <2>6. stage' # 0
    BY <2>1
  <2> QED BY <2>2, <2>3, <2>4, <2>5, <2>6, LadderMoves
<1> QED BY <1>1, <1>2, InvHolds, PTL DEF Spec

\* A child is disconnected for its silence only in a turn, after three interrupts it did not
\* react to, and not while the hooks' flag says that it waits for the user: no prompt, answer
\* or cancel in between leads there (the tick of run_cc_driver).
THEOREM OnlySilentTurnsAreGivenUp ==
  Spec => [][task # "grace" /\ task' = "grace" => active /\ quiet /\ ~waiting /\ stage = 3]_vars
<1> DEFINE Given == task # "grace" /\ task' = "grace" => active /\ quiet /\ ~waiting /\ stage = 3
<1>1. Inv /\ LadderInv /\ [Next]_vars => [Given]_vars
  <2> SUFFICES ASSUME Inv, LadderInv, [Next]_vars, task # "grace", task' = "grace"
               PROVE  active /\ quiet /\ ~waiting /\ stage = 3
    OBVIOUS
  <2>1. GiveUp
    <3>1. ASSUME Quiet PROVE GiveUp
      BY <3>1 DEF Quiet, Insert, Kill, SendCmd, TakePrompt, TakeCancel, HealFails, Message, Speak,
         Finish, Fail, OutputEnds, Tick, ProbeFails, Climb, GraceOver, Wrapper, Wrap, Tell, Leave,
         TimePasses, ChildDies, ChildHangs, Terminal, Ends
    <3>2. ~Heal /\ ~Hook /\ ~(\E r \in asked : Answer(r)) /\ ~(\E tool \in Tools : Ask(tool))
      BY DEF Heal, Hook, Wake, Answer, Ask
    <3>3. Next
      BY DEF vars
    <3> QED BY <3>1, <3>2, <3>3 DEF Next, Manager, Command, Quiet
  <2>2. ~waiting /\ stage >= 3 /\ stage \in 0..3
    BY <2>1 DEF GiveUp, Inv, TypeOK
  <2>3. stage = 3 /\ stage > 0
    BY <2>2
  <2> QED BY <2>2, <2>3 DEF LadderInv
<1>2. Spec => [](Inv /\ LadderInv)
  BY LadderHolds
<1> QED BY <1>1, <1>2, PTL DEF Spec

\* What the ladder has counted of a child that stopped to react is not taken back while the
\* loop keeps that child: a prompt, an answer or a hook that returns does not give it a new
\* turn of silence (the safety part of HungTurnEnds).
THEOREM HungTurnsClimb ==
  Spec => [][child.hung /\ At("run") /\ child'.hung /\ task' = "run"
               => stage' >= stage /\ (active => active') /\ (quiet => quiet')]_vars
<1> DEFINE Climbs == child.hung /\ At("run") /\ child'.hung /\ task' = "run"
                       => stage' >= stage /\ (active => active') /\ (quiet => quiet')
<1>1. Inv /\ [Next]_vars => [Climbs]_vars
  <2> SUFFICES ASSUME Inv, [Next]_vars, child.hung, At("run"), child'.hung, task' = "run"
               PROVE  stage' >= stage /\ (active => active') /\ (quiet => quiet')
    OBVIOUS
  <2>1. stage \in 0..3
    BY DEF Inv, TypeOK
  <2>2. ~Heal
    BY DEF Heal, At
  <2>3. ~Message
    BY DEF Message, Speak, Finish, Fail, Works
  <2>4. CASE UNCHANGED ladder
    BY <2>1, <2>4 DEF ladder
  <2>5. CASE active' = TRUE /\ UNCHANGED <<quiet, stage>>
    BY <2>1, <2>5
  <2>6. CASE stage' = stage + 1 /\ UNCHANGED <<active, quiet>>
    BY <2>1, <2>6
  <2>7. CASE quiet' = TRUE /\ UNCHANGED <<active, stage>>
    BY <2>1, <2>7
  <2> QED BY <2>2, <2>3, <2>4, <2>5, <2>6, <2>7, LadderMoves
<1> QED BY <1>1, InvHolds, PTL DEF Spec
=============================================================================
