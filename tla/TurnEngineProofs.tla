-------------------------- MODULE TurnEngineProofs --------------------------
(***************************************************************************)
(* Proofs about TurnEngine, for any texts and bounds: a text is in one     *)
(* place, the engine's steps are steps of TurnPromise, only a cancelled    *)
(* turn is said to have been stopped, a session whose pump ended is no     *)
(* longer routed to unless it was killed for being idle, every table holds *)
(* values of its kind, and an agent at work has a pump that hears it.      *)
(***************************************************************************)
EXTENDS TurnEngine, FiniteSetTheorems, TLAPS

-----------------------------------------------------------------------------
(* Sequences without repetition *)

Distinct(s) == \A i, j \in 1..Len(s) : s[i] = s[j] => i = j

\* What an element at the end, at the front or taken off does to a sequence's elements.
LEMMA AppendSet ==
  ASSUME NEW S, NEW s \in Seq(S), NEW t \in S
  PROVE  /\ Append(s, t) \in Seq(S) /\ ToSet(Append(s, t)) = ToSet(s) \cup {t}
         /\ Distinct(s) /\ t \notin ToSet(s) => Distinct(Append(s, t))
<1>1. /\ Append(s, t) \in Seq(S) /\ Len(Append(s, t)) = Len(s) + 1
      /\ Append(s, t)[Len(s) + 1] = t
      /\ \A i \in 1..Len(s) : Append(s, t)[i] = s[i]
  OBVIOUS
<1>2. ToSet(Append(s, t)) = ToSet(s) \cup {t}
  BY <1>1 DEF ToSet
<1>3. ASSUME Distinct(s), t \notin ToSet(s) PROVE Distinct(Append(s, t))
  BY <1>1, <1>3 DEF Distinct, ToSet
<1> QED BY <1>1, <1>2, <1>3

LEMMA PushSet ==
  ASSUME NEW S, NEW s \in Seq(S), NEW t \in S
  PROVE  /\ <<t>> \o s \in Seq(S) /\ ToSet(<<t>> \o s) = ToSet(s) \cup {t}
         /\ Distinct(s) /\ t \notin ToSet(s) => Distinct(<<t>> \o s)
<1>1. /\ <<t>> \o s \in Seq(S) /\ Len(<<t>> \o s) = Len(s) + 1
      /\ (<<t>> \o s)[1] = t
      /\ \A i \in 2..(Len(s) + 1) : (<<t>> \o s)[i] = s[i - 1]
  OBVIOUS
<1>2. ToSet(<<t>> \o s) = ToSet(s) \cup {t}
  <2>1. ASSUME NEW i \in 1..(Len(s) + 1) PROVE (<<t>> \o s)[i] \in ToSet(s) \cup {t}
    BY <1>1 DEF ToSet
  <2>2. ASSUME NEW i \in 1..Len(s) PROVE s[i] = (<<t>> \o s)[i + 1] /\ i + 1 \in 1..(Len(s) + 1)
    BY <1>1
  <2>3. t = (<<t>> \o s)[1] /\ 1 \in 1..(Len(s) + 1)
    BY <1>1
  <2>4. DOMAIN (<<t>> \o s) = 1..(Len(s) + 1) /\ DOMAIN s = 1..Len(s)
    BY <1>1
  <2>5. ToSet(<<t>> \o s) \subseteq ToSet(s) \cup {t}
    BY <2>1, <2>4 DEF ToSet
  <2>6. ToSet(s) \subseteq ToSet(<<t>> \o s)
    BY <2>2, <2>4 DEF ToSet
  <2>7. t \in ToSet(<<t>> \o s)
    BY <2>3, <2>4 DEF ToSet
  <2> QED BY <2>5, <2>6, <2>7
<1>3. ASSUME Distinct(s), t \notin ToSet(s) PROVE Distinct(<<t>> \o s)
  BY <1>1, <1>3 DEF Distinct, ToSet
<1> QED BY <1>1, <1>2, <1>3

LEMMA PopSet ==
  ASSUME NEW S, NEW s \in Seq(S), s # <<>>, Distinct(s)
  PROVE  /\ Tail(s) \in Seq(S) /\ Head(s) \in S /\ Head(s) \in ToSet(s)
         /\ ToSet(Tail(s)) = ToSet(s) \ {Head(s)} /\ Distinct(Tail(s))
<1>1. /\ Tail(s) \in Seq(S) /\ Len(Tail(s)) = Len(s) - 1 /\ Len(s) \in Nat \ {0}
      /\ Head(s) = s[1] /\ Head(s) \in S
      /\ \A i \in 1..(Len(s) - 1) : Tail(s)[i] = s[i + 1]
  OBVIOUS
<1>2. ToSet(Tail(s)) = ToSet(s) \ {Head(s)}
  <2>1. ASSUME NEW i \in 1..(Len(s) - 1) PROVE Tail(s)[i] = s[i + 1] /\ i + 1 \in 1..Len(s) /\ s[i + 1] # s[1]
    BY <1>1 DEF Distinct
  <2>2. ASSUME NEW i \in 1..Len(s), s[i] # s[1] PROVE i - 1 \in 1..(Len(s) - 1) /\ s[i] = Tail(s)[i - 1]
    BY <1>1, <2>2
  <2>3. DOMAIN Tail(s) = 1..(Len(s) - 1) /\ DOMAIN s = 1..Len(s)
    BY <1>1
  <2>4. ASSUME NEW x \in ToSet(Tail(s)) PROVE x \in ToSet(s) \ {Head(s)}
    BY <1>1, <2>1, <2>3, <2>4 DEF ToSet
  <2>5. ASSUME NEW x \in ToSet(s), x # Head(s) PROVE x \in ToSet(Tail(s))
    <3>1. PICK i \in 1..Len(s) : s[i] = x
      BY <2>3 DEF ToSet
    <3>2. i - 1 \in 1..(Len(s) - 1) /\ Tail(s)[i - 1] = x
      BY <3>1, <2>2, <2>5, <1>1
    <3> QED BY <3>2, <2>3 DEF ToSet
  <2> QED BY <2>4, <2>5
<1>3. Distinct(Tail(s))
  BY <1>1 DEF Distinct
<1>4. Head(s) \in ToSet(s)
  BY <1>1 DEF ToSet
<1> QED BY <1>1, <1>2, <1>3, <1>4

\* Such a sequence is as long as the set of its elements is large.
LEMMA DistinctCard ==
  ASSUME NEW S, NEW s \in Seq(S), Distinct(s)
  PROVE  Cardinality(ToSet(s)) = Len(s)
<1>1. Len(s) \in Nat /\ DOMAIN s = 1..Len(s)
  OBVIOUS
<1>2. s \in Bijection(1..Len(s), ToSet(s))
  BY <1>1 DEF Bijection, Injection, Surjection, ToSet, Distinct, IsInjective
<1>3. ExistsBijection(1..Len(s), ToSet(s))
  BY <1>2 DEF ExistsBijection
<1> QED BY <1>1, <1>3, FS_CountingElements

\* The empty sequence.
LEMMA EmptySet == ToSet(<<>>) = {} /\ Distinct(<<>>)
BY DEF ToSet, Distinct

-----------------------------------------------------------------------------
(* What a step does to the texts *)

Early   == {"new", "look", "hold", "flip", "open", "seed", "send"}
Opening == {"open", "seed", "send"}

\* Where the texts are rests on these variables only, and is typed by them.
carried == <<pc, held, queue, given, lost>>
Typed ==
  /\ pc \in [Tasks -> TaskPlaces \cup PumpPlaces \cup WatchPlaces]
  /\ held \in [Drainers -> Texts \cup {NoText}]
  /\ queue \in Seq(Texts) /\ given \in Seq(Texts) /\ lost \subseteq Texts

\* A submission goes on with its text; the pump or the watchdog goes on, with a text or
\* without; the session is torn down.
TextMoves(t) ==
  /\ pc[t] \in Early /\ \E p \in Early \ {"new"} : pc' = [pc EXCEPT ![t] = p]
  /\ UNCHANGED <<held, queue, given, lost>>
DrainerMoves(d) ==
  /\ \E p \in PumpPlaces \cup WatchPlaces :
       Goto(d, p) /\ (p \in Opening <=> pc[d] \in Opening)
  /\ UNCHANGED <<held, queue, given, lost>>
TornDown ==
  /\ \/ pc' = pc
     \/ /\ pc["pump"] \notin Opening
        /\ \E p \in {"clear", "off"} : pc' = [pc EXCEPT !["pump"] = p]
  /\ Teardown /\ UNCHANGED <<held, given>>

TextStep == \E t \in Texts : TextMoves(t) \/ EnqueueTurn(t) \/ SendPrompt(t)
DrainStep ==
  \E d \in Drainers : DrainerMoves(d) \/ SendPrompt(d) \/ (queue # <<>> /\ PopTurn(d))

\* Texts and the tasks that drain are tasks, and different ones.
LEMMA Names == Drainers \subseteq Tasks /\ Texts \subseteq Tasks /\ Drainers \cap Texts = {}
BY TurnAssumption DEF Drainers, Tasks

\* The steps of a submission, of a task that drains, and of the session's end are such.
LEMMA SubmissionClass ==
  ASSUME Typed, NEW t \in Texts, Route(t) \/ Decide(t)
  PROVE  TextMoves(t) \/ EnqueueTurn(t) \/ SendPrompt(t)
BY DEF Decide, Open, Route, LookAtCard, FlipCard, DropCard, SeedCard, At, Goto, TextMoves,
  Early, line, driver

LEMMA DrainClass ==
  ASSUME Typed, NEW d \in Drainers, Drain(d)
  PROVE  DrainerMoves(d) \/ SendPrompt(d) \/ (queue # <<>> /\ PopTurn(d))
<1>1. CASE DrainLook(d)
  BY <1>1 DEF DrainLook, At, DrainerMoves, Opening, PumpPlaces, DrainPlaces, line, driver
<1>2. CASE PopTurn(d)
  BY <1>2 DEF PopTurn, At, DrainerMoves, Opening, PumpPlaces, DrainPlaces, line, driver
<1>3. CASE DropCard(d)
  BY <1>3 DEF DropCard, At, DrainerMoves, Opening, PumpPlaces, DrainPlaces, line, driver
<1>4. CASE SeedCard(d)
  BY <1>4 DEF SeedCard, At, DrainerMoves, Opening, PumpPlaces, DrainPlaces, line, driver
<1> QED BY <1>1, <1>2, <1>3, <1>4 DEF Drain, Open

LEMMA PumpClass ==
  ASSUME Typed, Pump \/ PumpIdleKill
  PROVE  DrainStep \/ TornDown \/ UNCHANGED carried
<1>1. CASE PumpFinished
  BY <1>1 DEF PumpFinished, Took, At, DrainStep, DrainerMoves, Drainers, Opening,
    PumpPlaces, DrainPlaces, stops, turn, line, driver
<1>2. CASE PumpSettle
  BY <1>2 DEF PumpSettle, Took, At, DrainStep, DrainerMoves, Drainers, Opening,
    PumpPlaces, DrainPlaces, stops, turn, line, driver
<1>3. CASE PumpRejected
  BY <1>3 DEF PumpRejected, Took, At, DrainStep, DrainerMoves, Drainers, Opening,
    PumpPlaces, DrainPlaces, stops, turn, line, driver
<1>4. CASE PumpRejection
  BY <1>4 DEF PumpRejection, Took, At, DrainStep, DrainerMoves, Drainers, Opening,
    PumpPlaces, DrainPlaces, stops, turn, line, driver
<1>5. CASE PumpTerminal
  BY <1>5 DEF PumpTerminal, Took, At, DrainStep, DrainerMoves, Drainers, Opening,
    PumpPlaces, DrainPlaces, stops, turn, line, driver
<1>6. CASE PumpClear
  BY <1>6 DEF PumpClear, Took, At, DrainStep, DrainerMoves, Drainers, Opening,
    PumpPlaces, DrainPlaces, stops, turn, line, driver
<1>7. CASE PumpClosed
  BY <1>7 DEF PumpClosed, Took, At, DrainStep, DrainerMoves, Drainers, Opening,
    PumpPlaces, DrainPlaces, stops, turn, line, driver
<1>8. CASE PumpBlame
  BY <1>8 DEF PumpBlame, Took, At, DrainStep, DrainerMoves, Drainers, Opening,
    PumpPlaces, DrainPlaces, stops, turn, line, driver
<1>9. CASE PumpIdleKill
  BY <1>9 DEF PumpIdleKill, Took, At, DrainStep, DrainerMoves, Drainers, Opening,
    PumpPlaces, DrainPlaces, stops, turn, line, driver
<1>10. CASE PumpText
  BY <1>10 DEF PumpText, carried, tasks, line, driver
<1>11. CASE PumpStray
  BY <1>11 DEF PumpStray, carried, tasks, line, driver
<1>12. CASE PumpAsk
  BY <1>12 DEF PumpAsk, carried, tasks, line, driver
<1>13. CASE PumpRetire
  BY <1>13 DEF PumpRetire, At, Goto, TornDown, Opening, driver
<1>14. CASE PumpBury
  BY <1>14 DEF PumpBury, At, Goto, TornDown, Opening, driver
<1>15. CASE Drain("pump")
  BY <1>15, DrainClass DEF DrainStep, Drainers
<1> QED BY <1>1, <1>2, <1>3, <1>4, <1>5, <1>6, <1>7, <1>8, <1>9, <1>10, <1>11, <1>12, <1>13, <1>14, <1>15 DEF Pump

LEMMA WatchClass ==
  ASSUME Typed, Watch
  PROVE  DrainStep
<1>1. CASE WatchScan
  BY <1>1 DEF WatchScan, At, DrainStep, DrainerMoves, Drainers, Opening,
    WatchPlaces, DrainPlaces, turn, line, driver
<1>2. CASE WatchCheck
  BY <1>2 DEF WatchCheck, At, DrainStep, DrainerMoves, Drainers, Opening,
    WatchPlaces, DrainPlaces, turn, line, driver
<1>3. CASE WatchSettle
  BY <1>3 DEF WatchSettle, At, DrainStep, DrainerMoves, Drainers, Opening,
    WatchPlaces, DrainPlaces, turn, line, driver
<1>4. CASE WatchForget
  BY <1>4 DEF WatchForget, At, DrainStep, DrainerMoves, Drainers, Opening,
    WatchPlaces, DrainPlaces, turn, line, driver
<1>5. CASE Drain("watch")
  BY <1>5, DrainClass DEF DrainStep, Drainers
<1> QED BY <1>1, <1>2, <1>3, <1>4, <1>5 DEF Watch

\* Nobody else moves a text, but for the operator who closes the session.
LEMMA OtherClass ==
  ASSUME Typed, TimePasses \/ Operator \/ Deliver \/ Agent
  PROVE  TornDown \/ UNCHANGED carried
<1>1. CASE CloseRemove
  BY <1>1 DEF CloseRemove, TornDown, driver
<1>2. CASE TimePasses \/ CancelLook \/ Cancelling
  BY <1>2 DEF TimePasses, CancelLook, Cancelling, CancelMark, CancelSend, CancelRelease, carried,
    tasks, line, driver
<1>3. CASE AnswerLook \/ AnswerSend \/ CloseKill
  BY <1>3 DEF AnswerLook, AnswerSend, CloseKill, carried, tasks, line, driver
<1>4. CASE Deliver
  BY <1>4 DEF Deliver, carried, tasks, line, driver
<1>5. CASE Agent
  BY <1>5 DEF Agent, AgentSpeaks, AgentAsks, AgentFinishes, AgentStrays, AgentDies, carried,
    tasks, line, driver
<1> QED BY <1>1, <1>2, <1>3, <1>4, <1>5 DEF Operator

\* Every step is of one of these kinds, or leaves the texts where they are.
LEMMA StepClass ==
  ASSUME Typed, [Next]_vars
  PROVE  TextStep \/ DrainStep \/ TornDown \/ UNCHANGED carried
<1>1. CASE UNCHANGED vars
  BY <1>1 DEF vars, carried, tasks, line, driver
<1>2. CASE Next
  BY <1>2, SubmissionClass, PumpClass, WatchClass, OtherClass DEF Next, TextStep
<1> QED BY <1>1, <1>2

-----------------------------------------------------------------------------
(* A text is in one place *)

\* Whom a text was taken by, and where texts are while they are with nobody.
Placed(t)  == t \in ToSet(queue) \/ t \in ToSet(given) \/ t \in lost
Carries(t) == \E d \in Drainers : held[d] = t

\* A task that drains holds a text while it opens the text's turn, and no two hold one.
HandInv ==
  /\ \A d \in Drainers : held[d] # NoText <=> pc[d] \in Opening
  /\ \A d, e \in Drainers : held[d] = held[e] /\ held[d] # NoText => d = e

\* The queue, the texts handed over, the lost ones and those in hand have none in common.
ApartInv ==
  /\ Distinct(queue) /\ Distinct(given)
  /\ ToSet(queue) \cap ToSet(given) = {} /\ ToSet(queue) \cap lost = {}
  /\ ToSet(given) \cap lost = {}
  /\ \A d \in Drainers : held[d] # NoText => ~Placed(held[d])

\* A submission has its text until it queued or sent it.
TextInv ==
  \A t \in Texts :
    /\ pc[t] \in Early => ~Placed(t) /\ ~Carries(t)
    /\ pc[t] = "sent" => t \in ToSet(given)
    /\ pc[t] = "queued" => Placed(t) \/ Carries(t)
    /\ pc[t] \in Early \cup {"queued", "sent"}

PlaceInv == Typed /\ HandInv /\ ApartInv /\ TextInv

\* Nobody has submitted anything.
LEMMA PlaceInit == ASSUME Init PROVE PlaceInv
<1>1. Typed
  <2>1. pc \in [Tasks -> TaskPlaces \cup PumpPlaces \cup WatchPlaces]
    BY DEF Init, Typed, Tasks, TaskPlaces, PumpPlaces, DrainPlaces
  <2>2. held \in [Drainers -> Texts \cup {NoText}]
    BY DEF Init
  <2> QED BY <2>1, <2>2 DEF Init, Typed
<1>2. HandInv
  BY Names DEF Init, HandInv, Opening, Tasks
<1>3. ApartInv
  BY EmptySet DEF Init, ApartInv
<1>4. TextInv
  BY EmptySet, Names, TurnAssumption DEF Init, TextInv, Early, Placed, Carries, Tasks
<1> QED BY <1>1, <1>2, <1>3, <1>4 DEF PlaceInv

\* A submission that goes on keeps its text.
LEMMA TextMovesPlace == ASSUME PlaceInv, NEW t \in Texts, TextMoves(t) PROVE PlaceInv'
<1>0. PICK p \in Early \ {"new"} : pc' = [pc EXCEPT ![t] = p]
  BY DEF TextMoves
<1>1. /\ pc'[t] = p /\ pc[t] \in Early
      /\ \A a \in Tasks \ {t} : pc'[a] = pc[a]
      /\ held' = held /\ queue' = queue /\ given' = given /\ lost' = lost
  BY <1>0, Names DEF TextMoves, PlaceInv, Typed
<1>2. Typed'
  BY <1>0, <1>1 DEF PlaceInv, Typed, Early, TaskPlaces
<1>3. HandInv'
  BY <1>1, Names DEF PlaceInv, HandInv
<1>4. ApartInv'
  BY <1>1 DEF PlaceInv, ApartInv, Placed
<1>5. TextInv'
  BY <1>1, <1>0, Names DEF PlaceInv, TextInv, Placed, Carries, Early
<1> QED BY <1>2, <1>3, <1>4, <1>5 DEF PlaceInv

\* A text that queues is in the queue, and was nowhere.
LEMMA EnqueuePlace == ASSUME PlaceInv, NEW t \in Texts, EnqueueTurn(t) PROVE PlaceInv'
<1>1. /\ pc'[t] = "queued" /\ pc[t] = "hold" /\ \A a \in Tasks \ {t} : pc'[a] = pc[a]
      /\ held' = held /\ given' = given /\ lost' = lost
      /\ pc' \in [Tasks -> TaskPlaces \cup PumpPlaces \cup WatchPlaces]
  BY Names DEF EnqueueTurn, At, Goto, PlaceInv, Typed, driver, TaskPlaces
<1>2. ~Placed(t) /\ ~Carries(t)
  BY <1>1 DEF PlaceInv, TextInv, Early
<1>3. queue' \in Seq(Texts) /\ ToSet(queue') = ToSet(queue) \cup {t} /\ Distinct(queue')
  <2>1. queue \in Seq(Texts) /\ Distinct(queue) /\ t \notin ToSet(queue)
    BY <1>2 DEF PlaceInv, Typed, ApartInv, Placed
  <2>2. queue' = <<t>> \o queue \/ queue' = Append(queue, t)
    BY DEF EnqueueTurn
  <2>3. CASE queue' = <<t>> \o queue
    BY <2>1, <2>3, PushSet
  <2>4. CASE queue' = Append(queue, t)
    BY <2>1, <2>4, AppendSet
  <2> QED BY <2>2, <2>3, <2>4
<1>4. Typed'
  BY <1>1, <1>3 DEF PlaceInv, Typed
<1>5. HandInv'
  BY <1>1, Names DEF PlaceInv, HandInv
<1>6. ApartInv'
  BY <1>1, <1>2, <1>3 DEF PlaceInv, ApartInv, Placed, Carries
<1>7. TextInv'
  BY <1>1, <1>2, <1>3, Names DEF PlaceInv, TextInv, Placed, Carries, Early
<1> QED BY <1>4, <1>5, <1>6, <1>7 DEF PlaceInv

\* Whoever hands a text over held it, and nobody holds it afterwards.
LEMMA SendDoes ==
  ASSUME PlaceInv, NEW a \in Tasks, SendPrompt(a)
  PROVE  /\ pc[a] = "send" /\ pc'[a] = (IF a \in Texts THEN "sent" ELSE "idle")
         /\ \A b \in Tasks \ {a} : pc'[b] = pc[b]
         /\ pc' \in [Tasks -> TaskPlaces \cup PumpPlaces \cup WatchPlaces]
         /\ held' \in [Drainers -> Texts \cup {NoText}]
         /\ \A d \in Drainers : held'[d] = (IF d = a THEN NoText ELSE held[d])
         /\ queue' = queue /\ lost' = lost
         /\ Carried(a) \in Texts /\ ~Placed(Carried(a))
         /\ pc[Carried(a)] \in {"send", "queued"}
         /\ a \in Texts => Carried(a) = a /\ ~Carries(a)
         /\ a \in Drainers => Carried(a) = held[a]
         /\ given' \in Seq(Texts) /\ ToSet(given') = ToSet(given) \cup {Carried(a)} /\ Distinct(given')
<1>1. /\ pc[a] = "send" /\ pc'[a] = (IF a \in Texts THEN "sent" ELSE "idle")
      /\ \A b \in Tasks \ {a} : pc'[b] = pc[b]
      /\ pc' \in [Tasks -> TaskPlaces \cup PumpPlaces \cup WatchPlaces]
      /\ queue' = queue /\ lost' = lost
  BY DEF SendPrompt, At, Goto, PlaceInv, Typed, TaskPlaces, PumpPlaces, DrainPlaces, line
<1>2. /\ held' \in [Drainers -> Texts \cup {NoText}]
      /\ \A d \in Drainers : held'[d] = (IF d = a THEN NoText ELSE held[d])
  BY DEF SendPrompt, PlaceInv, Typed
<1>3. CASE a \in Texts
  BY <1>1, <1>2, <1>3, Names, AppendSet DEF SendPrompt, Carried, PlaceInv, Typed, TextInv, Early,
    ApartInv, Placed
<1>4. CASE a \in Drainers
  <2>1. Carried(a) = held[a] /\ a \notin Texts
    BY <1>4, Names DEF Carried
  <2>2. held[a] \in Texts /\ ~Placed(held[a])
    BY <1>1, <1>4 DEF PlaceInv, Typed, HandInv, Opening, ApartInv
  <2>3. pc[held[a]] = "queued"
    BY <2>2, <1>4 DEF PlaceInv, TextInv, Placed, Carries
  <2>4. /\ given' = Append(given, held[a]) /\ given \in Seq(Texts) /\ Distinct(given)
        /\ held[a] \notin ToSet(given)
    BY <2>1, <2>2 DEF SendPrompt, PlaceInv, Typed, ApartInv, Placed
  <2>5. given' \in Seq(Texts) /\ ToSet(given') = ToSet(given) \cup {held[a]} /\ Distinct(given')
    BY <2>2, <2>4, AppendSet
  <2> QED BY <1>1, <1>2, <2>1, <2>2, <2>3, <2>5
<1> QED BY <1>1, <1>2, <1>3, <1>4 DEF Tasks, Drainers

\* A text that is handed over was held by whoever hands it over, and nowhere else.
LEMMA SendPlace == ASSUME PlaceInv, NEW a \in Tasks, SendPrompt(a) PROVE PlaceInv'
<1>1. a \in Texts \/ a \in Drainers
  BY DEF Tasks, Drainers
<1>2. Typed'
  BY SendDoes DEF PlaceInv, Typed
<1>3. HandInv'
  BY SendDoes, Names DEF PlaceInv, HandInv, Opening
<1>4. ApartInv'
  BY <1>1, SendDoes DEF PlaceInv, ApartInv, HandInv, Placed, Carries, Opening
<1>5. TextInv'
  <2> SUFFICES ASSUME NEW t \in Texts
      PROVE /\ pc'[t] \in Early => ~Placed(t)' /\ ~Carries(t)'
            /\ pc'[t] = "sent" => t \in ToSet(given')
            /\ pc'[t] = "queued" => Placed(t)' \/ Carries(t)'
            /\ pc'[t] \in Early \cup {"queued", "sent"}
    BY DEF TextInv
  <2>1. Placed(t)' <=> Placed(t) \/ t = Carried(a)
    BY SendDoes DEF Placed
  <2>2. t # Carried(a) => pc'[t] = pc[t] /\ (Carries(t)' <=> Carries(t))
    <3>1. t # Carried(a) => t # a
      BY SendDoes
    <3>2. t # NoText
      BY TurnAssumption
    <3>3. CASE a \in Texts
      BY <3>1, <3>3, SendDoes, Names DEF Carries
    <3>4. CASE a \in Drainers
      BY <3>1, <3>2, <3>4, SendDoes, Names DEF Carries
    <3> QED BY <1>1, <3>3, <3>4
  <2>3. t = Carried(a) => pc'[t] \in {"sent", "queued"} /\ t \in ToSet(given')
    <3>1. CASE a \in Texts
      BY <3>1, SendDoes
    <3>2. CASE a \in Drainers
      <4>1. a # t /\ t \in Tasks
        BY <3>2, Names
      <4>2. t = Carried(a) => pc[t] = "queued"
        BY <3>2, <4>1, SendDoes DEF PlaceInv, TextInv, Early, Carries
      <4> QED BY <4>1, <4>2, SendDoes
    <3> QED BY <1>1, <3>1, <3>2
  <2>4. t \in ToSet(given) => t \in ToSet(given')
    BY SendDoes
  <2> QED BY <2>1, <2>2, <2>3, <2>4 DEF PlaceInv, TextInv, Early
<1> QED BY <1>2, <1>3, <1>4, <1>5 DEF PlaceInv

\* A task that drains and goes on keeps the text it has.
LEMMA DrainerMovesPlace == ASSUME PlaceInv, NEW d \in Drainers, DrainerMoves(d) PROVE PlaceInv'
<1>0. PICK p \in PumpPlaces \cup WatchPlaces : Goto(d, p) /\ (p \in Opening <=> pc[d] \in Opening)
  BY DEF DrainerMoves
<1>1. /\ pc'[d] \in Opening <=> pc[d] \in Opening
      /\ \A a \in Tasks \ {d} : pc'[a] = pc[a]
      /\ held' = held /\ queue' = queue /\ given' = given /\ lost' = lost
  BY <1>0, Names DEF DrainerMoves, Goto, PlaceInv, Typed
<1>2. Typed'
  BY <1>0, <1>1 DEF PlaceInv, Typed, Goto
<1>3. HandInv'
  BY <1>1, Names DEF PlaceInv, HandInv
<1>4. ApartInv'
  BY <1>1 DEF PlaceInv, ApartInv, Placed
<1>5. TextInv'
  BY <1>1, Names DEF PlaceInv, TextInv, Placed, Carries
<1> QED BY <1>2, <1>3, <1>4, <1>5 DEF PlaceInv

\* Whoever takes the head of the queue holds it, and had no text before.
LEMMA PopDoes ==
  ASSUME PlaceInv, NEW d \in Drainers, queue # <<>>, PopTurn(d)
  PROVE  /\ pc[d] = "pop" /\ pc'[d] = "open" /\ \A a \in Tasks \ {d} : pc'[a] = pc[a]
         /\ pc' \in [Tasks -> TaskPlaces \cup PumpPlaces \cup WatchPlaces]
         /\ held' \in [Drainers -> Texts \cup {NoText}]
         /\ held'[d] = Head(queue) /\ \A e \in Drainers \ {d} : held'[e] = held[e]
         /\ given' = given /\ lost' = lost
         /\ Head(queue) \in Texts /\ Head(queue) \in ToSet(queue) /\ queue' = Tail(queue)
         /\ queue' \in Seq(Texts) /\ ToSet(queue') = ToSet(queue) \ {Head(queue)} /\ Distinct(queue')
<1>1. queue \in Seq(Texts) /\ Distinct(queue)
  BY DEF PlaceInv, Typed, ApartInv
<1>2. /\ Tail(queue) \in Seq(Texts) /\ Head(queue) \in Texts /\ Head(queue) \in ToSet(queue)
      /\ ToSet(Tail(queue)) = ToSet(queue) \ {Head(queue)} /\ Distinct(Tail(queue))
  BY <1>1, PopSet
<1>3. queue' = Tail(queue) /\ given' = given /\ lost' = lost
  BY DEF PopTurn, driver
<1>4. /\ pc[d] = "pop" /\ pc'[d] = "open" /\ \A a \in Tasks \ {d} : pc'[a] = pc[a]
      /\ pc' \in [Tasks -> TaskPlaces \cup PumpPlaces \cup WatchPlaces]
  BY Names DEF PopTurn, At, Goto, PlaceInv, Typed, TaskPlaces
<1>5. /\ held' \in [Drainers -> Texts \cup {NoText}]
      /\ held'[d] = Head(queue) /\ \A e \in Drainers \ {d} : held'[e] = held[e]
  BY <1>2 DEF PopTurn, PlaceInv, Typed
<1> QED BY <1>2, <1>3, <1>4, <1>5

\* A text taken from the queue is held by who took it.
LEMMA PopPlace == ASSUME PlaceInv, NEW d \in Drainers, queue # <<>>, PopTurn(d) PROVE PlaceInv'
<1>1. Typed'
  BY PopDoes DEF PlaceInv, Typed
<1>2. Head(queue) # NoText /\ \A e \in Drainers : held[e] # Head(queue)
  BY PopDoes, TurnAssumption DEF PlaceInv, ApartInv, Placed
<1>3. HandInv'
  <2>1. held'[d] # NoText /\ pc'[d] \in Opening
    BY PopDoes, <1>2 DEF Opening
  <2>2. ASSUME NEW e \in Drainers \ {d}
        PROVE held'[e] = held[e] /\ pc'[e] = pc[e] /\ held'[e] # held'[d]
    BY PopDoes, <1>2, Names
  <2> QED BY <2>1, <2>2 DEF PlaceInv, HandInv
<1>4. ApartInv'
  BY PopDoes, <1>2 DEF PlaceInv, ApartInv, Placed
<1>5. held[d] = NoText
  BY PopDoes DEF PlaceInv, HandInv, Opening
<1>6. TextInv'
  <2> SUFFICES ASSUME NEW t \in Texts
      PROVE /\ pc'[t] \in Early => ~Placed(t)' /\ ~Carries(t)'
            /\ pc'[t] = "sent" => t \in ToSet(given')
            /\ pc'[t] = "queued" => Placed(t)' \/ Carries(t)'
            /\ pc'[t] \in Early \cup {"queued", "sent"}
    BY DEF TextInv
  <2>1. pc'[t] = pc[t]
    BY PopDoes, Names
  <2>2. Placed(t) \/ Carries(t) <=> Placed(t)' \/ Carries(t)'
    BY PopDoes, <1>5, TurnAssumption DEF Placed, Carries
  <2> QED BY <2>1, <2>2, PopDoes DEF PlaceInv, TextInv
<1> QED BY <1>1, <1>3, <1>4, <1>6 DEF PlaceInv

\* A session that ends loses what waits, and nothing else.
LEMMA TornDoes ==
  ASSUME PlaceInv, TornDown
  PROVE  /\ \A t \in Texts : pc'[t] = pc[t]
         /\ \A d \in Drainers : pc'[d] \in Opening <=> pc[d] \in Opening
         /\ pc' \in [Tasks -> TaskPlaces \cup PumpPlaces \cup WatchPlaces]
         /\ held' = held /\ given' = given
         /\ \/ queue' = queue /\ lost' = lost
            \/ queue' = <<>> /\ ToSet(queue') = {} /\ lost' = lost \cup ToSet(queue)
<1>1. CASE pc' = pc
  BY <1>1, EmptySet DEF TornDown, Teardown, PlaceInv, Typed
<1>2. ASSUME NEW p \in {"clear", "off"}, pc["pump"] \notin Opening, pc' = [pc EXCEPT !["pump"] = p]
      PROVE  /\ \A t \in Texts : pc'[t] = pc[t]
             /\ \A d \in Drainers : pc'[d] \in Opening <=> pc[d] \in Opening
             /\ pc' \in [Tasks -> TaskPlaces \cup PumpPlaces \cup WatchPlaces]
  BY <1>2, Names DEF PlaceInv, Typed, Opening, PumpPlaces, Drainers
<1> QED BY <1>1, <1>2, EmptySet DEF TornDown, Teardown

\* What waited is lost, and was in no other place.
LEMMA TornPlace == ASSUME PlaceInv, TornDown PROVE PlaceInv'
<1>1. ToSet(queue) \subseteq Texts /\ <<>> \in Seq(Texts) /\ Distinct(<<>>)
  BY EmptySet DEF PlaceInv, Typed, ToSet
<1>2. Typed'
  BY <1>1, TornDoes DEF PlaceInv, Typed
<1>3. HandInv'
  BY TornDoes DEF PlaceInv, HandInv
<1>4. ApartInv'
  BY <1>1, TornDoes DEF PlaceInv, ApartInv, Placed
<1>5. TextInv'
  BY TornDoes DEF PlaceInv, TextInv, Placed, Carries
<1> QED BY <1>2, <1>3, <1>4, <1>5 DEF PlaceInv

\* Every step keeps a text in one place.
LEMMA PlaceNext == ASSUME PlaceInv, [Next]_vars PROVE PlaceInv'
<1>1. CASE UNCHANGED carried
  BY <1>1 DEF carried, PlaceInv, Typed, HandInv, ApartInv, TextInv, Placed, Carries
<1>2. CASE TextStep
  BY <1>2, TextMovesPlace, EnqueuePlace, SendPlace, Names DEF TextStep
<1>3. CASE DrainStep
  BY <1>3, DrainerMovesPlace, PopPlace, SendPlace, Names DEF DrainStep
<1>4. CASE TornDown
  BY <1>4, TornPlace
<1> QED BY <1>1, <1>2, <1>3, <1>4, StepClass DEF PlaceInv

\* A text is in one place in every state the engine reaches.
LEMMA PlaceHolds == Spec => []PlaceInv
BY PlaceInit, PlaceNext, PTL DEF Spec

\* What the invariant says of one text is what OnePlace counts.
LEMMA PlaceCounts == ASSUME PlaceInv PROVE OnePlace
<1>1. Cardinality(ToSet(queue)) = Len(queue) /\ Cardinality(ToSet(given)) = Len(given)
  BY DistinctCard DEF PlaceInv, Typed, ApartInv
<1>2. ASSUME NEW t \in Texts
      PROVE LET places == {p \in {"queue", "given", "lost", "hand"} :
                        \/ p = "queue" /\ t \in ToSet(queue)
                        \/ p = "given" /\ t \in ToSet(given)
                        \/ p = "lost" /\ t \in lost
                        \/ p = "hand" /\ InHand(t) # {}}
            IN /\ Cardinality(InHand(t)) <= 1
               /\ Cardinality(places) = (IF pc[t] \in {"queued", "sent"} THEN 1 ELSE 0)
               /\ pc[t] = "sent" => t \in ToSet(given)
  <2> DEFINE places == {p \in {"queue", "given", "lost", "hand"} :
                        \/ p = "queue" /\ t \in ToSet(queue)
                        \/ p = "given" /\ t \in ToSet(given)
                        \/ p = "lost" /\ t \in lost
                        \/ p = "hand" /\ InHand(t) # {}}
  <2>1. t # NoText
    BY TurnAssumption
  <2>2. InHand(t) # {} <=> Carries(t)
    BY DEF InHand, Carries
  <2>3. Cardinality(InHand(t)) <= 1
    <3>1. CASE InHand(t) = {}
      BY <3>1, FS_EmptySet
    <3>2. ASSUME NEW d \in InHand(t) PROVE Cardinality(InHand(t)) <= 1
      <4>1. InHand(t) = {d}
        BY <2>1, <3>2 DEF InHand, PlaceInv, HandInv
      <4> QED BY <4>1, FS_Singleton
    <3> QED BY <3>1, <3>2
  <2>4. CASE pc[t] \in Early
    <3>1. places = {}
      BY <2>2, <2>4 DEF PlaceInv, TextInv, Placed
    <3>2. pc[t] \notin {"queued", "sent"}
      BY <2>4 DEF Early
    <3> QED BY <2>3, <3>1, <3>2, FS_EmptySet
  <2>5. CASE pc[t] \in {"queued", "sent"}
    <3>1. Placed(t) \/ Carries(t)
      BY <2>5 DEF PlaceInv, TextInv, Placed
    <3>2. Carries(t) => ~Placed(t)
      BY <2>1 DEF Carries, PlaceInv, ApartInv
    <3>3. \E p \in {"queue", "given", "lost", "hand"} : places = {p}
      <4>1. CASE t \in ToSet(queue)
        BY <2>2, <3>2, <4>1 DEF PlaceInv, ApartInv, Placed
      <4>2. CASE t \in ToSet(given)
        BY <2>2, <3>2, <4>2 DEF PlaceInv, ApartInv, Placed
      <4>3. CASE t \in lost
        BY <2>2, <3>2, <4>3 DEF PlaceInv, ApartInv, Placed
      <4>4. CASE Carries(t)
        BY <2>2, <3>2, <4>4 DEF Placed
      <4> QED BY <3>1, <4>1, <4>2, <4>3, <4>4 DEF Placed
    <3>4. Cardinality(places) = 1
      <4>1. PICK p \in {"queue", "given", "lost", "hand"} : places = {p}
        BY <3>3
      <4> QED BY <4>1, FS_Singleton
    <3> QED BY <2>3, <2>5, <3>4 DEF PlaceInv, TextInv
  <2> QED BY <2>4, <2>5 DEF PlaceInv, TextInv
<1> QED BY <1>1, <1>2 DEF OnePlace

\* A routed text is with its submission, in the queue, with the pump or the watchdog,
\* handed over or lost with its session, and in one of these only (submit_turn,
\* enqueue_turn, drain_queue_if_terminal, retire_to_record).
THEOREM TextsInOnePlace == Spec => []OnePlace
BY PlaceHolds, PlaceCounts, PTL

-----------------------------------------------------------------------------
(* What the engine does to a text is what TurnPromise allows *)

place == [t \in Texts |-> Place(t)]

\* Where a text is, by what holds of it.
LEMMA PlaceIs ==
  ASSUME PlaceInv, NEW t \in Texts
  PROVE  /\ place[t] = "new" <=> pc[t] = "new"
         /\ place[t] = "line" <=> t \in ToSet(queue)
         /\ place[t] = "given" <=> t \in ToSet(given)
         /\ place[t] = "lost" <=> t \in lost
         /\ place[t] = "held" <=> pc[t] # "new" /\ ~Placed(t)
         /\ place[t] \in {"new", "held", "line", "given", "lost"}
<1>1. pc[t] = "new" => ~Placed(t)
  BY DEF PlaceInv, TextInv, Early
<1>2. ~(t \in ToSet(queue) /\ t \in ToSet(given)) /\ ~(t \in lost /\ t \in ToSet(queue))
      /\ ~(t \in lost /\ t \in ToSet(given))
  BY DEF PlaceInv, ApartInv
<1>3. place[t] = Place(t)
  BY DEF place
<1> QED BY <1>1, <1>2, <1>3 DEF Place, Placed

\* A step that moves one text from one place to another.
LEMMA OneMoves ==
  ASSUME NEW t \in Texts, NEW from, NEW to, place[t] = from, place'[t] = to,
         \A u \in Texts \ {t} : place'[u] = place[u]
  PROVE  Promise!Move(t, from, to)
<1>1. place' = [u \in Texts |-> place'[u]] /\ place = [u \in Texts |-> place[u]]
  BY DEF place
<1>2. place' = [place EXCEPT ![t] = to]
  BY <1>1
<1> QED BY <1>2 DEF Promise!Move, place

\* In the beginning every text is new, and the line is empty.
LEMMA PromiseInit == ASSUME Init PROVE Promise!Init
<1>1. PlaceInv
  BY PlaceInit
<1>2. \A t \in Texts : place[t] = "new"
  <2> SUFFICES ASSUME NEW t \in Texts PROVE place[t] = "new"
    OBVIOUS
  <2>1. pc[t] = "new"
    BY Names DEF Init
  <2> QED BY <1>1, <2>1, PlaceIs
<1>3. place = [t \in Texts |-> place[t]]
  BY DEF place
<1> QED BY <1>2, <1>3 DEF Promise!Init, place, Init

\* The steps of TurnPromise, in the engine's words.
PromiseStep == Promise!Next \/ (place' = place /\ queue' = queue)

\* A submission that goes on accepts its text, or does nothing to it.
LEMMA TextMovesPromise == ASSUME PlaceInv, PlaceInv', NEW t \in Texts, TextMoves(t) PROVE PromiseStep
<1>0. PICK p \in Early \ {"new"} : pc' = [pc EXCEPT ![t] = p]
  BY DEF TextMoves
<1>1. /\ pc'[t] # "new" /\ \A u \in Texts \ {t} : pc'[u] = pc[u]
      /\ queue' = queue /\ given' = given /\ lost' = lost
      /\ ~Placed(t)
  BY <1>0, Names DEF TextMoves, PlaceInv, Typed, TextInv
<1>2. \A u \in Texts \ {t} : place'[u] = place[u]
  BY <1>1 DEF place, Place
<1>3. place'[t] = "held"
  BY <1>1 DEF place, Place, Placed
<1>4. CASE pc[t] = "new"
  BY <1>1, <1>2, <1>3, <1>4, PlaceIs, OneMoves DEF PromiseStep, Promise!Next, Promise!Accept
<1>5. CASE pc[t] # "new"
  <2>1. \A u \in Texts : place'[u] = place[u]
    BY <1>1, <1>2, <1>3, <1>5, PlaceIs
  <2> QED BY <1>1, <2>1 DEF PromiseStep, place
<1> QED BY <1>4, <1>5

\* A text that queues is put in line.
LEMMA EnqueuePromise == ASSUME PlaceInv, PlaceInv', NEW t \in Texts, EnqueueTurn(t) PROVE PromiseStep
<1>1. /\ pc[t] = "hold" /\ pc'[t] = "queued" /\ \A u \in Texts \ {t} : pc'[u] = pc[u]
      /\ given' = given /\ lost' = lost
      /\ queue' = IF t \in Priority THEN <<t>> \o queue ELSE Append(queue, t)
  BY Names DEF EnqueueTurn, At, Goto, PlaceInv, Typed, driver
<1>2. queue \in Seq(Texts) /\ ToSet(queue') = ToSet(queue) \cup {t} /\ ~Placed(t)
  BY <1>1, AppendSet, PushSet DEF PlaceInv, Typed, TextInv, Early
<1>3. \A u \in Texts \ {t} : place'[u] = place[u]
  BY <1>1, <1>2 DEF place, Place
<1>4. place'[t] = "line"
  BY <1>2 DEF place, Place
<1>5. place[t] = "held"
  BY <1>1, <1>2, PlaceIs
<1>6. Promise!Move(t, "held", "line")
  BY <1>3, <1>4, <1>5, OneMoves
<1> QED BY <1>1, <1>6 DEF PromiseStep, Promise!Next, Promise!Wait

\* A text that is sent is given to the agent.
LEMMA SendPromise == ASSUME PlaceInv, PlaceInv', NEW a \in Tasks, SendPrompt(a) PROVE PromiseStep
<1>1. PICK t \in Texts : t = Carried(a)
  BY SendDoes
<1>2. /\ queue' = queue /\ lost' = lost /\ ToSet(given') = ToSet(given) \cup {t}
      /\ ~Placed(t) /\ pc[t] \in {"send", "queued"}
  BY <1>1, SendDoes
<1>3. ASSUME NEW u \in Texts PROVE pc'[u] = "new" <=> pc[u] = "new"
  BY SendDoes, Names
<1>4. \A u \in Texts \ {t} : place'[u] = place[u]
  BY <1>2, <1>3 DEF place, Place
<1>5. place'[t] = "given"
  BY <1>2 DEF place, Place, Placed
<1>6. place[t] = "held"
  BY <1>2, PlaceIs
<1>7. Promise!Move(t, "held", "given")
  BY <1>4, <1>5, <1>6, OneMoves
<1> QED BY <1>2, <1>7 DEF PromiseStep, Promise!Next, Promise!Give

\* A text taken from the queue is the head of the line.
LEMMA PopPromise == ASSUME PlaceInv, PlaceInv', NEW d \in Drainers, queue # <<>>, PopTurn(d) PROVE PromiseStep
<1>1. PICK t \in Texts : t = Head(queue)
  BY PopDoes
<1>2. /\ queue' = Tail(queue) /\ ToSet(queue') = ToSet(queue) \ {t} /\ t \in ToSet(queue)
      /\ given' = given /\ lost' = lost /\ \A u \in Texts : pc'[u] = pc[u]
  BY <1>1, PopDoes, Names
<1>3. \A u \in Texts \ {t} : place'[u] = place[u]
  BY <1>2 DEF place, Place
<1>4. place[t] = "line"
  BY <1>2, PlaceIs
<1>5. place'[t] = "held"
  BY <1>2 DEF place, Place, PlaceInv, ApartInv, TextInv, Early, Placed
<1>6. Promise!Move(t, "line", "held")
  BY <1>3, <1>4, <1>5, OneMoves
<1> QED BY <1>1, <1>2, <1>6 DEF PromiseStep, Promise!Next, Promise!TakeHead

\* The teardown ends the session, or finds nobody in line.
LEMMA TornPromise == ASSUME PlaceInv, PlaceInv', TornDown PROVE PromiseStep
<1>1. CASE queue' = queue /\ lost' = lost
  BY <1>1, TornDoes DEF PromiseStep, place, Place
<1>2. CASE queue' = <<>> /\ lost' = lost \cup ToSet(queue)
  <2>0. ToSet(queue') = {} /\ given' = given /\ \A t \in Texts : pc'[t] = pc[t]
    BY <1>2, TornDoes, EmptySet
  <2>1. \A t \in Texts : place'[t] = IF place[t] = "line" THEN "lost" ELSE place[t]
    <3> SUFFICES ASSUME NEW t \in Texts
        PROVE place'[t] = IF place[t] = "line" THEN "lost" ELSE place[t]
      OBVIOUS
    <3>1. CASE t \in ToSet(queue)
      BY <1>2, <2>0, <3>1, PlaceIs DEF place, Place, PlaceInv, ApartInv
    <3>2. CASE t \notin ToSet(queue)
      BY <1>2, <2>0, <3>2, PlaceIs DEF place, Place
    <3> QED BY <3>1, <3>2
  <2>2. CASE queue = <<>>
    <3>1. \A t \in Texts : place'[t] = place[t]
      BY <2>1, <2>2, EmptySet, PlaceIs
    <3> QED BY <1>2, <2>2, <3>1 DEF PromiseStep, place
  <2>3. CASE queue # <<>>
    <3>1. place' = [t \in Texts |-> IF place[t] = "line" THEN "lost" ELSE place[t]]
      BY <2>1 DEF place
    <3> QED BY <1>2, <2>3, <3>1 DEF PromiseStep, Promise!Next, Promise!EndSession, place
  <2> QED BY <2>2, <2>3
<1> QED BY <1>1, <1>2, TornDoes

\* Every step of the engine is one of TurnPromise, or changes neither place nor line.
LEMMA PromiseNext == ASSUME PlaceInv, PlaceInv', [Next]_vars PROVE PromiseStep
<1>1. CASE UNCHANGED carried
  BY <1>1 DEF carried, PromiseStep, place, Place
<1>2. CASE TextStep
  BY <1>2, TextMovesPromise, EnqueuePromise, SendPromise, Names DEF TextStep
<1>3. CASE DrainStep
  <2>1. ASSUME NEW d \in Drainers, DrainerMoves(d) PROVE PromiseStep
    <3>1. \A t \in Texts : pc'[t] = pc[t]
      BY <2>1, Names DEF DrainerMoves, Goto, PlaceInv, Typed
    <3> QED BY <2>1, <3>1 DEF DrainerMoves, PromiseStep, place, Place
  <2> QED BY <1>3, <2>1, PopPromise, SendPromise, Names DEF DrainStep
<1>4. CASE TornDown
  BY <1>4, TornPromise
<1> QED BY <1>1, <1>2, <1>3, <1>4, StepClass DEF PlaceInv

\* The engine keeps the promise about the texts: a text in its hands goes to the line or
\* to the agent, once; the line is left at its head only; and only the end of the session
\* takes a waiting text out without handing it over.
THEOREM EngineKeepsPromise == Spec => Promise!Spec
<1>1. PlaceInv /\ PlaceInv' /\ [Next]_vars => [Promise!Next]_<<[t \in Texts |-> Place(t)], queue>>
  BY PromiseNext DEF PromiseStep, place
<1> QED BY PromiseInit, PlaceHolds, <1>1, PTL DEF Spec, Promise!Spec

-----------------------------------------------------------------------------
(* Cancelled turns, and a session whose pump has ended *)

MarkInv == stopped \subseteq asked /\ (mark = 0 \/ mark \in asked)

\* A mark names a cancelled turn, and what it stops was marked.
LEMMA MarkNext == ASSUME MarkInv, [Next]_vars PROVE MarkInv'
<1>1. CASE UNCHANGED vars
  BY <1>1 DEF vars, stops, MarkInv
<1>2. CASE PumpFinished
  BY <1>2 DEF PumpFinished, MarkInv
<1>3. CASE CancelMark
  BY <1>3 DEF CancelMark, MarkInv
<1>4. CASE UNCHANGED stops
  BY <1>4 DEF stops, MarkInv
<1>5. [Next]_vars => UNCHANGED vars \/ PumpFinished \/ CancelMark \/ UNCHANGED stops
  <2>1. ASSUME NEW t \in Texts, Route(t) \/ LookAtCard(t) \/ EnqueueTurn(t) \/ FlipCard(t) PROVE UNCHANGED stops
    BY <2>1 DEF Route, LookAtCard, EnqueueTurn, FlipCard
  <2>2. ASSUME NEW a \in Tasks, Open(a) PROVE UNCHANGED stops
    BY <2>2 DEF Open, DropCard, SeedCard, SendPrompt
  <2>3. ASSUME NEW d \in Drainers, DrainLook(d) \/ PopTurn(d) PROVE UNCHANGED stops
    BY <2>3 DEF DrainLook, PopTurn
  <2>4. ASSUME PumpText \/ PumpStray \/ PumpAsk \/ PumpSettle \/ PumpRejected \/ PumpRejection \/ PumpTerminal
        PROVE UNCHANGED stops
    BY <2>4 DEF PumpText, PumpStray, PumpAsk, PumpSettle, PumpRejected, PumpRejection, PumpTerminal
  <2>5. ASSUME PumpRetire \/ PumpClear \/ PumpClosed \/ PumpBlame \/ PumpBury \/ PumpIdleKill
        PROVE UNCHANGED stops
    BY <2>5 DEF PumpRetire, PumpClear, PumpClosed, PumpBlame, PumpBury, PumpIdleKill
  <2>6. ASSUME WatchScan \/ WatchCheck \/ WatchSettle \/ WatchForget \/ TimePasses PROVE UNCHANGED stops
    BY <2>6 DEF WatchScan, WatchCheck, WatchSettle, WatchForget, TimePasses
  <2>7. ASSUME CancelLook \/ CancelSend \/ CancelRelease \/ AnswerLook \/ AnswerSend \/ CloseKill \/ CloseRemove
        PROVE UNCHANGED stops
    BY <2>7 DEF CancelLook, CancelSend, CancelRelease, AnswerLook, AnswerSend, CloseKill, CloseRemove
  <2>8. ASSUME Deliver \/ Agent PROVE UNCHANGED stops
    BY <2>8 DEF Deliver, Agent, AgentSpeaks, AgentAsks, AgentFinishes, AgentStrays, AgentDies
  <2>9. ASSUME NEW t \in Texts, Route(t) \/ Decide(t) PROVE UNCHANGED stops
    BY <2>1, <2>2, <2>9, Names DEF Decide
  <2>10. ASSUME NEW d \in Drainers, Drain(d) PROVE UNCHANGED stops
    BY <2>2, <2>3, <2>10, Names DEF Drain, Open
  <2> QED BY <2>4, <2>5, <2>6, <2>7, <2>8, <2>9, <2>10 DEF Next, Pump, Watch, Operator, Cancelling, Drainers
<1> QED BY <1>1, <1>2, <1>3, <1>4, <1>5

\* The transcript says that a turn was stopped only of one the operator cancelled
\* (mark_cancelled_turn, the Finished arm of apply_event).
THEOREM StoppedTurnsWereCancelled == Spec => []StoppedWasCancelled
<1>1. Init => MarkInv
  BY DEF Init, MarkInv
<1>2. MarkInv => StoppedWasCancelled
  BY DEF MarkInv, StoppedWasCancelled
<1> QED BY <1>1, <1>2, MarkNext, PTL DEF Spec
\* No step revives the session, and a step that ends the pump leaves it retired.
RetireStep ==
  /\ live' = live \/ ~live'
  /\ pc'["pump"] = pc["pump"] \/ pc'["pump"] \notin {"clear", "off"} \/ ~live'

LEMMA OffRetires ==
  ASSUME Typed, ~IdleKill, At("pump", "off") \/ At("pump", "clear") => ~live, [Next]_vars
  PROVE  RetireStep
<1>0. "pump" \in Tasks /\ "watch" \in Tasks \ {"pump"} /\ Texts \subseteq Tasks \ {"pump"}
      /\ pc \in [Tasks -> TaskPlaces \cup PumpPlaces \cup WatchPlaces]
  BY TurnAssumption DEF Tasks, Typed
<1>1. ASSUME NEW t \in Texts, Route(t) \/ Decide(t) PROVE RetireStep
  BY <1>0, <1>1 DEF Decide, Open, Route, LookAtCard, EnqueueTurn, FlipCard, DropCard, SeedCard,
    SendPrompt, Goto, line, RetireStep
<1>2. ASSUME NEW d \in Drainers, Drain(d) PROVE RetireStep
  <2>1. d \in Tasks /\ d \notin Texts
    BY Names
  <2>2. CASE DrainLook(d)
    BY <1>0, <2>1, <2>2 DEF DrainLook, Goto, line, RetireStep
  <2>3. CASE PopTurn(d)
    BY <1>0, <2>1, <2>3 DEF PopTurn, Goto, line, RetireStep
  <2>4. CASE DropCard(d) \/ SeedCard(d)
    BY <1>0, <2>1, <2>4 DEF DropCard, SeedCard, Goto, line, RetireStep
  <2>5. CASE SendPrompt(d)
    BY <1>0, <2>1, <2>5 DEF SendPrompt, Goto, line, RetireStep
  <2> QED BY <1>2, <2>2, <2>3, <2>4, <2>5 DEF Drain, Open
<1>3. CASE PumpText \/ PumpStray \/ PumpAsk
  BY <1>3 DEF PumpText, PumpStray, PumpAsk, tasks, line, RetireStep
<1>4. CASE PumpFinished \/ PumpSettle
  BY <1>0, <1>4 DEF PumpFinished, PumpSettle, Goto, line, RetireStep
<1>5. CASE PumpRejected \/ PumpRejection
  BY <1>0, <1>5 DEF PumpRejected, PumpRejection, Goto, line, RetireStep
<1>6. CASE PumpTerminal
  BY <1>0, <1>6 DEF PumpTerminal, Goto, line, RetireStep
<1>7. CASE PumpRetire \/ PumpBury
  BY <1>0, <1>7 DEF PumpRetire, PumpBury, Teardown, RetireStep
<1>8. CASE PumpClear
  BY <1>0, <1>8 DEF PumpClear, At, line, RetireStep
<1>9. CASE PumpClosed \/ PumpBlame
  BY <1>0, <1>9 DEF PumpClosed, PumpBlame, Goto, line, RetireStep
<1>10. CASE Watch
  <2>1. CASE WatchScan \/ WatchCheck
    BY <1>0, <2>1 DEF WatchScan, WatchCheck, Goto, line, RetireStep
  <2>2. CASE WatchSettle \/ WatchForget
    BY <1>0, <2>2 DEF WatchSettle, WatchForget, Goto, line, RetireStep
  <2> QED BY <1>2, <1>10, <2>1, <2>2 DEF Watch, Drainers
<1>11. CASE CloseRemove
  BY <1>11 DEF CloseRemove, Teardown, RetireStep
<1>12. CASE TimePasses \/ CancelLook \/ Cancelling
  BY <1>12 DEF TimePasses, CancelLook, Cancelling, CancelMark, CancelSend, CancelRelease, tasks,
    line, RetireStep
<1>13. CASE AnswerLook \/ AnswerSend \/ CloseKill
  BY <1>13 DEF AnswerLook, AnswerSend, CloseKill, line, RetireStep
<1>14. CASE Deliver
  BY <1>14 DEF Deliver, tasks, line, RetireStep
<1>15. CASE Agent
  BY <1>15 DEF Agent, AgentSpeaks, AgentAsks, AgentFinishes, AgentStrays, AgentDies, tasks, line,
    RetireStep
<1>16. CASE UNCHANGED vars
  BY <1>16 DEF vars, tasks, line, RetireStep
<1>17. ~PumpIdleKill
  BY DEF PumpIdleKill
<1> QED BY <1>1, <1>2, <1>3, <1>4, <1>5, <1>6, <1>7, <1>8, <1>9, <1>10, <1>11, <1>12, <1>13,
  <1>14, <1>15, <1>16, <1>17 DEF Next, Pump, Operator, Drainers

\* Without idle kills, a session whose pump has ended is no longer routed to
\* (finalize_dead_child, retire_to_record).
THEOREM DeadSessionsAreRetired == ASSUME ~IdleKill PROVE Spec => []DeathRetires
<1> DEFINE RetireInv == At("pump", "off") \/ At("pump", "clear") => ~live
<1>1. Init => RetireInv
  BY TurnAssumption DEF Init, At, Tasks
<1>2. PlaceInv /\ RetireInv /\ [Next]_vars => RetireInv'
  BY OffRetires DEF RetireStep, At, PlaceInv
<1>3. RetireInv => DeathRetires
  BY DEF DeathRetires
<1> QED BY <1>1, <1>2, <1>3, PlaceHolds, PTL DEF Spec
-----------------------------------------------------------------------------
(* Types *)

Cards == [phase : Phases, prompt : Texts \cup {NoText}]

PcType ==
  /\ pc \in [Tasks -> TaskPlaces \cup PumpPlaces \cup WatchPlaces]
  /\ pc["pump"] \in PumpPlaces /\ pc["watch"] \in WatchPlaces
  /\ \A t \in Texts : pc[t] \in TaskPlaces
TurnType ==
  /\ operator \in [at : OperatorPlaces, req : Nat]
  /\ card \in Cards \cup {Absent} /\ clock \in {"none", "ticking", "out"}
  /\ prompts \in Seq(Texts) /\ told \in BOOLEAN /\ live \in BOOLEAN
  /\ parked \subseteq Nat /\ mark \in Nat /\ stopped \subseteq Nat /\ asked \subseteq Nat
\* What is on its way to the driver: a prompt has a text.
Sent == {c \in Commands : c.kind = "prompt" => c.text \in Texts}
DriverType ==
  /\ outbox \in Seq(Sent) /\ wire \in Seq(Events) /\ agent \in Seq(Texts)
  /\ blocked \subseteq Nat /\ spoke \in BOOLEAN /\ child \in {"up", "dead", "gone"}
  /\ asks \in Nat /\ cancels \in Nat /\ strays \in Nat

\* A task that goes to a place of its kind.
LEMMA PcGoes ==
  ASSUME PcType, NEW a \in Tasks, NEW p, Goto(a, p),
         a \in Texts => p \in TaskPlaces, a = "pump" => p \in PumpPlaces,
         a = "watch" => p \in WatchPlaces
  PROVE  PcType'
BY TurnAssumption DEF PcType, Goto, Tasks

\* The pump and the watchdog are tasks, and no texts.
LEMMA TaskNames == "pump" \in Tasks /\ "watch" \in Tasks /\ Texts \subseteq Tasks
                   /\ "pump" \notin Texts /\ "watch" \notin Texts
BY TurnAssumption DEF Tasks

\* A task is always at a place of its kind.
LEMMA PcNext == ASSUME PcType, [Next]_vars PROVE PcType'
<1>1. ASSUME NEW a \in Tasks, Open(a) PROVE PcType'
  <2>1. \E p : Goto(a, p) /\ (a \in Texts => p \in TaskPlaces) /\ (a \notin Texts => p \in DrainPlaces)
    BY <1>1, TaskNames DEF Open, DropCard, SeedCard, SendPrompt, TaskPlaces, DrainPlaces
  <2> QED BY <2>1, PcGoes, TaskNames DEF PumpPlaces, WatchPlaces
<1>2. ASSUME NEW t \in Texts, Route(t) \/ Decide(t) PROVE PcType'
  <2>1. CASE Route(t) \/ LookAtCard(t) \/ EnqueueTurn(t) \/ FlipCard(t)
    <3>1. \E p \in TaskPlaces : Goto(t, p)
      BY <2>1 DEF Route, LookAtCard, EnqueueTurn, FlipCard, TaskPlaces
    <3> QED BY <3>1, PcGoes, TaskNames
  <2> QED BY <1>1, <1>2, <2>1, TaskNames DEF Decide
<1>3. ASSUME NEW d \in Drainers, Drain(d) PROVE PcType'
  <2>0. d \in Tasks /\ d \notin Texts
    BY TaskNames DEF Drainers
  <2>1. CASE DrainLook(d) \/ PopTurn(d)
    <3>1. \E p \in DrainPlaces : Goto(d, p)
      BY <2>1 DEF DrainLook, PopTurn, DrainPlaces
    <3> QED BY <2>0, <3>1, PcGoes DEF PumpPlaces, WatchPlaces
  <2> QED BY <1>1, <1>3, <2>0, <2>1 DEF Drain
<1>4. CASE UNCHANGED pc
  BY <1>4 DEF PcType
<1>5. ASSUME NEW p \in PumpPlaces, Goto("pump", p) PROVE PcType'
  BY <1>5, PcGoes, TaskNames
<1>6. CASE PumpFinished \/ PumpSettle \/ PumpRejected \/ PumpRejection \/ PumpTerminal
  BY <1>5, <1>6 DEF PumpFinished, PumpSettle, PumpRejected, PumpRejection, PumpTerminal, PumpPlaces,
    DrainPlaces
<1>7. CASE PumpRetire \/ PumpClear \/ PumpClosed \/ PumpBlame \/ PumpBury \/ PumpIdleKill
  BY <1>5, <1>7 DEF PumpRetire, PumpClear, PumpClosed, PumpBlame, PumpBury, PumpIdleKill, PumpPlaces
<1>8. CASE PumpText \/ PumpStray \/ PumpAsk
  BY <1>4, <1>8 DEF PumpText, PumpStray, PumpAsk, tasks
<1>9. CASE Watch
  <2>1. ASSUME NEW p \in WatchPlaces, Goto("watch", p) PROVE PcType'
    BY <2>1, PcGoes, TaskNames
  <2>2. CASE WatchScan \/ WatchCheck \/ WatchSettle \/ WatchForget
    BY <2>1, <2>2 DEF WatchScan, WatchCheck, WatchSettle, WatchForget, WatchPlaces, DrainPlaces
  <2> QED BY <1>3, <1>9, <2>2 DEF Watch, Drainers
<1>10. CASE TimePasses \/ Operator
  BY <1>4, <1>10 DEF TimePasses, Operator, Cancelling, CancelLook, CancelMark, CancelSend, CancelRelease,
    AnswerLook, AnswerSend, CloseKill, CloseRemove, tasks
<1>11. CASE Deliver \/ Agent
  BY <1>4, <1>11 DEF Deliver, Agent, AgentSpeaks, AgentAsks, AgentFinishes, AgentStrays, AgentDies, tasks
<1>12. CASE UNCHANGED vars
  BY <1>4, <1>12 DEF vars, tasks
<1> QED BY <1>2, <1>3, <1>6, <1>7, <1>8, <1>9, <1>10, <1>11, <1>12 DEF Next, Pump, Drainers

\* A change of phase leaves a card.
LEMMA RephasedOK ==
  ASSUME TurnType, NEW p, p \in Phases \/ (card # Absent /\ p = card.phase), Rephased(p)
  PROVE  card' \in Cards
BY DEF TurnType, Cards, Rephased, Lazy, Card, Phases

\* A card that is changed is there, or was created for it.
LEMMA LazyOK == ASSUME TurnType PROVE Lazy \in Cards /\ (card # Absent => Lazy = card)
BY DEF TurnType, Cards, Lazy, Card, Phases

\* Settling a card, or leaving a settled one as it is.
LEMMA SettledOK ==
  ASSUME TurnType, NEW p \in Phases
  PROVE  (IF Unsettled(Lazy) THEN p ELSE card.phase) \in Phases
BY DEF TurnType, Cards, Lazy, Card, Phases, Unsettled

\* Who opens a turn has its text.
LEMMA CarriedOK == ASSUME PlaceInv, NEW a \in Tasks, pc[a] \in Opening PROVE Carried(a) \in Texts
<1>1. CASE a \in Texts
  BY <1>1 DEF Carried
<1>2. CASE a \in Drainers /\ a \notin Texts
  BY <1>2 DEF Carried, PlaceInv, Typed, HandInv
<1> QED BY <1>1, <1>2 DEF Tasks, Drainers

\* The tables of the engine keep their types.
LEMMA TurnNext == ASSUME PlaceInv, TurnType, DriverType, [Next]_vars PROVE TurnType'
<1>1. ASSUME NEW a \in Tasks, Open(a) PROVE TurnType'
  <2>1. CASE DropCard(a)
    BY <2>1 DEF DropCard, TurnType, stops, line
  <2>2. CASE SeedCard(a)
    <3>1. Carried(a) \in Texts
      BY <2>2, CarriedOK DEF SeedCard, At, Opening
    <3>2. Card("seed", Carried(a)) \in Cards /\ Append(prompts, Carried(a)) \in Seq(Texts)
      BY <3>1 DEF Card, Cards, Phases, TurnType
    <3> QED BY <2>2, <3>2 DEF SeedCard, TurnType, Touch, turn, stops, line
  <2>3. CASE SendPrompt(a)
    BY <2>3 DEF SendPrompt, TurnType, turn, stops, line
  <2> QED BY <1>1, <2>1, <2>2, <2>3 DEF Open
<1>2. ASSUME NEW t \in Texts, Route(t) \/ Decide(t) PROVE TurnType'
  <2>1. CASE Route(t) \/ LookAtCard(t) \/ EnqueueTurn(t)
    BY <2>1 DEF Route, LookAtCard, EnqueueTurn, TurnType, turn, stops, line
  <2>2. CASE FlipCard(t)
    <3>1. card' \in Cards
      BY <2>2, RephasedOK, LazyOK DEF FlipCard, Phases, Cards
    <3> QED BY <2>2, <3>1 DEF FlipCard, TurnType, stops, line
  <2> QED BY <1>1, <1>2, <2>1, <2>2, TaskNames DEF Decide
<1>3. ASSUME NEW d \in Drainers, Drain(d) PROVE TurnType'
  <2>1. CASE DrainLook(d) \/ PopTurn(d)
    BY <2>1 DEF DrainLook, PopTurn, TurnType, turn, stops, line
  <2> QED BY <1>1, <1>3, <2>1, Names DEF Drain
<1>4. CASE PumpText
  <2>1. card' \in Cards
    BY <1>4, RephasedOK, LazyOK DEF PumpText, Phases, Cards, Unsettled
  <2> QED BY <1>4, <2>1 DEF PumpText, TurnType, Touch, tasks, turn, stops, line
<1>5. CASE PumpStray
  <2>1. card' \in Cards
    BY <1>5, RephasedOK, LazyOK DEF PumpStray, Phases, Cards, Unsettled
  <2> QED BY <1>5, <2>1 DEF PumpStray, TurnType, Touch, tasks, turn, stops, line
<1>6. CASE PumpSettle
  <2>1. card' \in Cards
    BY <1>6, RephasedOK, LazyOK DEF PumpSettle, Phases, Cards, Unsettled
  <2> QED BY <1>6, <2>1 DEF PumpSettle, TurnType, Touch, tasks, turn, stops, line
<1>7. CASE PumpRejected
  <2>1. card' \in Cards
    <3>1. "done" \in Phases /\ "failed" \in Phases
      BY DEF Phases
    <3> QED BY <1>7, <3>1, RephasedOK, SettledOK DEF PumpRejected
  <2> QED BY <1>7, <2>1 DEF PumpRejected, TurnType, Touch, tasks, turn, stops, line
<1>8. CASE PumpRejection
  <2>1. card' \in Cards
    BY <1>8, RephasedOK, LazyOK DEF PumpRejection, Phases, Cards, Unsettled
  <2> QED BY <1>8, <2>1 DEF PumpRejection, TurnType, Touch, tasks, turn, stops, line
<1>9. CASE PumpTerminal
  <2>1. card' \in Cards
    BY <1>9, RephasedOK, LazyOK DEF PumpTerminal, Phases, Cards, Unsettled
  <2> QED BY <1>9, <2>1 DEF PumpTerminal, TurnType, Touch, tasks, turn, stops, line
<1>10. CASE PumpBlame
  <2>1. card' \in Cards
    <3>1. "done" \in Phases /\ "failed" \in Phases
      BY DEF Phases
    <3> QED BY <1>10, <3>1, RephasedOK, SettledOK DEF PumpBlame
  <2> QED BY <1>10, <2>1 DEF PumpBlame, TurnType, Touch, tasks, turn, stops, line
<1>11. CASE WatchSettle
  <2>1. card' \in Cards
    <3>1. "done" \in Phases /\ "failed" \in Phases
      BY DEF Phases
    <3> QED BY <1>11, <3>1, RephasedOK, SettledOK DEF WatchSettle
  <2> QED BY <1>11, <2>1 DEF WatchSettle, TurnType, Touch, tasks, turn, stops, line
<1>12. CASE PumpAsk
  <2>1. wire # <<>> /\ parked' = parked \cup {Head(wire).req}
    BY <1>12 DEF PumpAsk, Took
  <2>2. Head(wire).req \in Nat
    <3>1. Head(wire) \in Events
      BY <2>1 DEF DriverType
    <3> QED BY <3>1 DEF Events
  <2> QED BY <1>12, <2>1, <2>2 DEF PumpAsk, TurnType, Touch, tasks, stops, line
<1>13. CASE PumpFinished
  BY <1>13 DEF PumpFinished, TurnType, Touch, line
<1>14. CASE PumpRetire \/ PumpClear \/ PumpClosed
  BY <1>14 DEF PumpRetire, PumpClear, PumpClosed, Teardown, TurnType, turn, stops, line
<1>15. CASE PumpBury \/ PumpIdleKill \/ TimePasses
  BY <1>15 DEF PumpBury, PumpIdleKill, TimePasses, Teardown, TurnType, tasks, stops, line
<1>16. CASE WatchScan \/ WatchCheck \/ WatchForget
  BY <1>16 DEF WatchScan, WatchCheck, WatchForget, TurnType, turn, stops, line
<1>17. CASE Operator
  <2>0. ASSUME NEW p \in OperatorPlaces, OperatorGoes(p, 0) PROVE operator' \in [at : OperatorPlaces, req : Nat]
    BY <2>0 DEF OperatorGoes
  <2>1. CASE CancelLook \/ CancelSend
    BY <2>0, <2>1 DEF CancelLook, CancelSend, OperatorPlaces, TurnType, turn, stops, line
  <2>6. CASE CancelRelease
    BY <2>0, <2>6 DEF CancelRelease, OperatorPlaces, TurnType, turn, stops, line
  <2>2. CASE CancelMark
    <3>1. Len(prompts) \in Nat
      BY DEF TurnType
    <3> QED BY <2>2, <3>1 DEF CancelMark, OperatorGoes, OperatorPlaces, TurnType, turn, line
  <2>3. CASE AnswerLook
    BY <2>3 DEF AnswerLook, OperatorGoes, OperatorPlaces, TurnType, turn, stops, line
  <2>4. CASE AnswerSend
    BY <2>4 DEF AnswerSend, OperatorGoes, OperatorPlaces, TurnType, turn, stops, line
  <2>5. CASE CloseKill
    <3>1. told' \in BOOLEAN
      BY <2>5, Zenon DEF CloseKill
    <3>2. prompts' = <<>> /\ <<>> \in Seq(Texts)
      BY <2>5 DEF CloseKill
    <3> QED BY <2>0, <2>5, <3>1, <3>2 DEF CloseKill, OperatorPlaces, TurnType, stops, line
  <2>7. CASE CloseRemove
    <3>1. live' \in BOOLEAN
      BY <2>7 DEF CloseRemove, Teardown
    <3> QED BY <2>0, <2>7, <3>1 DEF CloseRemove, OperatorPlaces, TurnType, turn, stops
  <2> QED BY <1>17, <2>1, <2>2, <2>3, <2>4, <2>5, <2>6, <2>7 DEF Operator, Cancelling
<1>18. CASE Deliver \/ Agent
  BY <1>18 DEF Deliver, Agent, AgentSpeaks, AgentAsks, AgentFinishes, AgentStrays, AgentDies, TurnType,
    tasks, turn, stops, line
<1>19. CASE UNCHANGED vars
  BY <1>19 DEF vars, TurnType, tasks, turn, stops, line
<1> QED BY <1>2, <1>3, <1>4, <1>5, <1>6, <1>7, <1>8, <1>9, <1>10, <1>11, <1>12, <1>13, <1>14, <1>15,
  <1>16, <1>17, <1>18, <1>19 DEF Next, Pump, Watch, Drainers

\* The driver and the wires keep theirs.
LEMMA DriverNext == ASSUME PlaceInv, TurnType, DriverType, [Next]_vars PROVE DriverType'
<1>1. ASSUME NEW a \in Tasks, Open(a) PROVE DriverType'
  <2>1. CASE DropCard(a) \/ SeedCard(a)
    BY <2>1 DEF DropCard, SeedCard, DriverType, driver, agents
  <2>2. CASE SendPrompt(a)
    <3>1. Carried(a) \in Texts
      BY <2>2, CarriedOK DEF SendPrompt, At, Opening
    <3>2. Prompt(Carried(a)) \in Sent
      BY <3>1 DEF Prompt, Command, Commands, Sent
    <3> QED BY <2>2, <3>2 DEF SendPrompt, DriverType, agents
  <2> QED BY <1>1, <2>1, <2>2 DEF Open
<1>2. ASSUME NEW t \in Texts, Route(t) \/ Decide(t) PROVE DriverType'
  <2>1. CASE Route(t) \/ LookAtCard(t) \/ EnqueueTurn(t) \/ FlipCard(t)
    BY <2>1 DEF Route, LookAtCard, EnqueueTurn, FlipCard, DriverType, driver, agents
  <2> QED BY <1>1, <1>2, <2>1, TaskNames DEF Decide
<1>3. ASSUME NEW d \in Drainers, Drain(d) PROVE DriverType'
  <2>1. CASE DrainLook(d) \/ PopTurn(d)
    BY <2>1 DEF DrainLook, PopTurn, DriverType, driver, agents
  <2> QED BY <1>1, <1>3, <2>1, Names DEF Drain
<1>4. ASSUME NEW kind, Took(kind) PROVE wire' \in Seq(Events)
  BY <1>4 DEF Took, DriverType
<1>5. CASE PumpText \/ PumpStray \/ PumpAsk \/ PumpFinished
  BY <1>4, <1>5 DEF PumpText, PumpStray, PumpAsk, PumpFinished, DriverType, driver, agents
<1>6. CASE PumpRejected \/ PumpTerminal
  BY <1>4, <1>6 DEF PumpRejected, PumpTerminal, DriverType, driver, agents
<1>7. CASE PumpSettle \/ PumpRejection \/ PumpRetire \/ PumpClear \/ PumpClosed \/ PumpBlame \/ PumpBury
  BY <1>7 DEF PumpSettle, PumpRejection, PumpRetire, PumpClear, PumpClosed, PumpBlame, PumpBury,
    DriverType, driver, agents
<1>8. CASE PumpIdleKill \/ TimePasses
  <2>1. CASE PumpIdleKill
    BY <2>1 DEF PumpIdleKill, DriverType, driver
  <2>2. CASE TimePasses
    BY <2>2 DEF TimePasses, DriverType, driver, agents
  <2> QED BY <1>8, <2>1, <2>2
<1>9. CASE WatchScan \/ WatchCheck \/ WatchSettle \/ WatchForget
  BY <1>9 DEF WatchScan, WatchCheck, WatchSettle, WatchForget, DriverType, driver, agents
<1>10. CASE Operator
  <2>1. CASE CancelLook
    BY <2>1 DEF CancelLook, DriverType, driver, agents
  <2>5. CASE CancelMark \/ CancelRelease \/ AnswerLook
    BY <2>5 DEF CancelMark, CancelRelease, AnswerLook, DriverType, driver, agents
  <2>2. CASE CancelSend
    <3>1. Cancel \in Sent
      BY DEF Cancel, Command, Commands, Sent
    <3> QED BY <2>2, <3>1 DEF CancelSend, DriverType, agents
  <2>3. CASE AnswerSend
    <3>1. Reply(operator.req) \in Sent
      BY DEF Reply, Command, Commands, Sent, TurnType
    <3> QED BY <2>3, <3>1 DEF AnswerSend, DriverType, agents
  <2>4. CASE CloseKill
    BY <2>4 DEF CloseKill, DriverType, driver
  <2>6. CASE CloseRemove
    BY <2>6 DEF CloseRemove, DriverType, driver, agents
  <2> QED BY <1>10, <2>1, <2>2, <2>3, <2>4, <2>5, <2>6 DEF Operator, Cancelling
<1>11. ASSUME NEW kind \in {"text", "stray", "ask", "fin", "reject", "term"}, NEW r \in Nat, Report(kind, r)
       PROVE wire' \in Seq(Events)
  <2>1. Event(kind, r) \in Events
    BY DEF Event, Events
  <2> QED BY <1>11, <2>1 DEF Report, DriverType
<1>12. CASE Deliver
  <2>1. outbox # <<>> /\ outbox' = Tail(outbox) /\ Head(outbox) \in Sent
    BY <1>12 DEF Deliver, DriverType
  <2>2. outbox' \in Seq(Sent)
    BY <2>1 DEF DriverType
  <2>3. CASE UNCHANGED <<agent, blocked, spoke, wire>>
    BY <1>12, <2>2, <2>3 DEF Deliver, DriverType
  <2>4. CASE Head(outbox).kind = "prompt" /\ agent' = Append(agent, Head(outbox).text)
             /\ UNCHANGED <<blocked, spoke, wire>>
    <3>1. Head(outbox).text \in Texts
      BY <2>1, <2>4 DEF Sent
    <3> QED BY <1>12, <2>2, <2>4, <3>1 DEF Deliver, DriverType
  <2>5. CASE blocked' = blocked \ {Head(outbox).req} /\ UNCHANGED <<agent, spoke, wire>>
    BY <1>12, <2>2, <2>5 DEF Deliver, DriverType
  <2>6. CASE agent' = <<>> /\ blocked' = {} /\ spoke' = FALSE /\ Report("fin", 0)
    <3>1. wire' \in Seq(Events)
      BY <1>11, <2>6
    <3>2. spoke' \in BOOLEAN
      BY <2>6, Zenon
    <3>3. <<>> \in Seq(Texts)
      OBVIOUS
    <3> QED BY <1>12, <2>2, <2>6, <3>1, <3>2, <3>3 DEF Deliver, DriverType
  <2> QED BY <1>12, <2>3, <2>4, <2>5, <2>6 DEF Deliver
<1>13. CASE AgentSpeaks
  BY <1>11, <1>13 DEF AgentSpeaks, DriverType, driver
<1>14. CASE AgentAsks
  <2>1. asks + 1 \in Nat
    BY DEF DriverType
  <2> QED BY <1>11, <1>14, <2>1 DEF AgentAsks, DriverType, driver
<1>15. CASE AgentFinishes
  <2>1. Tail(agent) \in Seq(Texts)
    BY <1>15 DEF AgentFinishes, Works, DriverType
  <2> QED BY <1>11, <1>15, <2>1 DEF AgentFinishes, DriverType, driver
<1>16. CASE AgentStrays
  BY <1>11, <1>16 DEF AgentStrays, DriverType, driver
<1>17. CASE AgentDies
  BY <1>11, <1>17 DEF AgentDies, DriverType, driver
<1>18. CASE UNCHANGED vars
  BY <1>18 DEF vars, DriverType, driver, agents
<1> QED BY <1>2, <1>3, <1>5, <1>6, <1>7, <1>8, <1>9, <1>10, <1>12, <1>13, <1>14, <1>15, <1>16, <1>17,
  <1>18 DEF Next, Pump, Watch, Agent, Drainers

\* Every table holds values of its kind, in every state the engine reaches.
THEOREM TypeCorrect == Spec => []TypeOK
<1> DEFINE Types == PcType /\ TurnType /\ DriverType
<1>1. Init => Types
  <2>1. Init => PcType
    BY TaskNames DEF Init, PcType, Tasks, TaskPlaces, PumpPlaces, WatchPlaces, DrainPlaces
  <2>2. Init => TurnType
    <3>1. Init => told \in BOOLEAN /\ live \in BOOLEAN
      BY DEF Init
    <3> QED BY <3>1 DEF Init, TurnType, OperatorPlaces
  <2>3. Init => DriverType
    <3>1. Init => spoke \in BOOLEAN
      BY DEF Init
    <3> QED BY <3>1 DEF Init, DriverType
  <2> QED BY <2>1, <2>2, <2>3
<1>2. PlaceInv /\ Types /\ [Next]_vars => Types'
  BY PcNext, TurnNext, DriverNext
<1>3. PlaceInv /\ Types => TypeOK
  <2>1. Seq(Sent) \subseteq Seq(Commands)
    BY DEF Sent
  <2> QED BY <2>1 DEF PlaceInv, Typed, PcType, TurnType, DriverType, Cards, TypeOK
<1> QED BY <1>1, <1>2, <1>3, PlaceHolds, PTL DEF Spec

-----------------------------------------------------------------------------
(* Who hears the agent *)

\* Where the pump comes back to its channel from, and whether a terminal error is in it.
Reading   == DrainPlaces \cup {"settle", "rejected"}
Reads     == pc["pump"] \in Reading
Reported  == \E i \in 1..Len(wire) : wire[i].kind = "term"

\* An agent that is up is read, one that is not has nothing to do; a terminal error is the
\* last that is heard of one that died, and is not missed by a pump that reads.
HearInv ==
  /\ child = "up" => Reads
  /\ child # "up" => agent = <<>>
  /\ \A i \in 1..Len(wire) : wire[i].kind = "term" => i = Len(wire) /\ child = "dead"
  /\ Reads /\ child = "dead" => Reported

\* What a step does to the channel and its two ends: nothing, the pump takes an event or
\* the last one, one end goes, the agent dies or reports, a command is handed over.
Stays  == UNCHANGED <<child, agent, wire>> /\ (Reads' <=> Reads)
Takes  == UNCHANGED <<child, agent>> /\ wire # <<>> /\ wire' = Tail(wire) /\ Head(wire).kind # "term" /\ Reads
Hears  == UNCHANGED <<child, agent>> /\ wire # <<>> /\ wire' = Tail(wire) /\ Head(wire).kind = "term" /\ ~Reads'
Stops  == /\ wire' = wire /\ child' # "up" /\ (child' = "dead" <=> child = "dead") /\ (Reads' => Reads)
          /\ agent' = <<>> \/ (child # "up" /\ agent' = agent)
Dies   == pc' = pc /\ child = "up" /\ child' = "dead" /\ agent' = <<>> /\ wire' = Append(wire, Event("term", 0))
Tells  == /\ pc' = pc /\ child = "up" /\ child' = "up"
          /\ \E kind \in {"text", "stray", "ask", "fin", "reject"}, req \in Nat : wire' = Append(wire, Event(kind, req))
Hands  == pc' = pc /\ UNCHANGED <<child, wire>> /\ (child # "up" => agent' = agent)
Hearing == Stays \/ (Takes /\ Reads') \/ Hears \/ Stops \/ Dies \/ Tells \/ Hands

\* A task that goes on, and reads before and after if it is the pump, changes nothing here.
LEMMA OthersStay ==
  ASSUME PcType, NEW a \in Tasks, NEW q, Goto(a, q), UNCHANGED <<child, agent, wire>>,
         a = "pump" => (q \in Reading <=> Reads)
  PROVE  Stays
BY TaskNames DEF PcType, Goto, Stays, Reads

\* Who opens a turn, drains, submits or watches is such a task.
LEMMA OpenStays ==
  ASSUME PcType, NEW a \in Tasks, Open(a)
  PROVE  Stays
<1>1. UNCHANGED <<child, agent, wire>>
  BY DEF Open, DropCard, SeedCard, SendPrompt, agents
<1>2. PICK q \in {"seed", "send", "sent", "idle"} :
        Goto(a, q) /\ (a \notin Texts => q # "sent") /\ pc[a] \in {"open", "seed", "send"}
  BY DEF Open, DropCard, SeedCard, SendPrompt, At
<1>3. a = "pump" => (q \in Reading /\ Reads)
  BY <1>2, TaskNames DEF Reading, Reads, DrainPlaces
<1> QED BY <1>1, <1>2, <1>3, OthersStay

LEMMA DrainStays ==
  ASSUME PcType, NEW a \in Drainers, Drain(a)
  PROVE  Stays
<1>0. a \in Tasks
  BY TaskNames DEF Drainers
<1>1. CASE DrainLook(a) \/ PopTurn(a)
  <2>1. UNCHANGED <<child, agent, wire>>
    BY <1>1 DEF DrainLook, PopTurn, agents
  <2>2. PICK q \in {"idle", "pop", "open"} : Goto(a, q) /\ pc[a] \in {"drain", "pop"}
    BY <1>1 DEF DrainLook, PopTurn, At
  <2>3. a = "pump" => (q \in Reading /\ Reads)
    BY <2>2 DEF Reading, Reads, DrainPlaces
  <2> QED BY <1>0, <2>1, <2>2, <2>3, OthersStay
<1> QED BY <1>0, <1>1, OpenStays DEF Drain

LEMMA SubmissionStays ==
  ASSUME PcType, NEW t \in Texts, Route(t) \/ Decide(t)
  PROVE  Stays
<1>0. t \in Tasks /\ t # "pump"
  BY TaskNames
<1>1. CASE Route(t) \/ LookAtCard(t) \/ EnqueueTurn(t) \/ FlipCard(t)
  <2>1. UNCHANGED <<child, agent, wire>> /\ \E q : Goto(t, q)
    BY <1>1 DEF Route, LookAtCard, EnqueueTurn, FlipCard, agents
  <2> QED BY <1>0, <2>1, OthersStay
<1> QED BY <1>0, <1>1, OpenStays DEF Decide

LEMMA WatchStays ==
  ASSUME PcType, Watch
  PROVE  Stays
<1>1. CASE WatchScan \/ WatchCheck \/ WatchSettle \/ WatchForget
  <2>1. UNCHANGED <<child, agent, wire>> /\ \E q : Goto("watch", q)
    BY <1>1 DEF WatchScan, WatchCheck, WatchSettle, WatchForget, agents
  <2> QED BY <2>1, OthersStay, TaskNames
<1> QED BY <1>1, DrainStays DEF Watch, Drainers

\* The steps of the pump.
LEMMA PumpHears ==
  ASSUME PcType, Pump \/ PumpIdleKill
  PROVE  Hearing
<1> DEFINE Goes(q) == Goto("pump", q)
<1>0. \A q : Goes(q) => pc'["pump"] = q
  BY TaskNames DEF PcType, Goto
<1> HIDE DEF Goes
<1>p. "idle" \in Reading /\ {"settle", "rejected", "drain"} \subseteq Reading
      /\ {"retire", "clear", "blame", "bury", "off"} \cap Reading = {}
  BY DEF Reading, DrainPlaces
<1>1. ASSUME NEW kind, Took(kind), kind # "term", UNCHANGED agents,
             pc' = pc \/ Goes("settle") \/ Goes("rejected")
      PROVE  Hearing
  BY <1>0, <1>p, <1>1 DEF Took, At, agents, Hearing, Takes, Reads
<1>2. CASE PumpText \/ PumpStray \/ PumpAsk
  BY <1>1, <1>2 DEF PumpText, PumpStray, PumpAsk, tasks
<1>3. CASE PumpFinished \/ PumpRejected
  BY <1>1, <1>3 DEF PumpFinished, PumpRejected, Goes
<1>4. CASE PumpTerminal
  <2>1. Took("term") /\ UNCHANGED agents /\ (Goes("retire") \/ Goes("clear"))
    BY <1>4 DEF PumpTerminal, Goes
  <2> QED BY <1>0, <1>p, <2>1 DEF Took, agents, Hearing, Hears, Reads
<1>5. CASE PumpSettle \/ PumpRejection
  <2>1. pc["pump"] \in {"settle", "rejected"} /\ (Goes("drain") \/ Goes("idle")) /\ UNCHANGED <<agents, wire>>
    BY <1>5 DEF PumpSettle, PumpRejection, At, Goes
  <2> QED BY <1>0, <1>p, <2>1 DEF agents, Hearing, Stays, Reads
<1>6. CASE PumpRetire \/ PumpClear \/ PumpBlame \/ PumpBury
  <2>1. /\ pc["pump"] \in {"retire", "clear", "blame", "bury"} /\ UNCHANGED <<agents, wire>>
        /\ Goes("clear") \/ Goes("off") \/ Goes("bury")
    BY <1>6 DEF PumpRetire, PumpClear, PumpBlame, PumpBury, At, Goes
  <2> QED BY <1>0, <1>p, <2>1 DEF agents, Hearing, Stays, Reads
<1>7. CASE PumpClosed
  <2>1. child = "gone" /\ UNCHANGED <<agents, wire>> /\ (Goes("blame") \/ Goes("off"))
    BY <1>7 DEF PumpClosed, Goes
  <2> QED BY <1>0, <1>p, <2>1 DEF agents, Hearing, Stops, Reads
<1>8. CASE PumpIdleKill
  <2>1. /\ child' = (IF child = "up" THEN "gone" ELSE child) /\ agent' = <<>> /\ wire' = wire
        /\ Goes("off")
    BY <1>8 DEF PumpIdleKill, Goes
  <2> QED BY <1>0, <1>p, <2>1 DEF Hearing, Stops, Reads
<1>9. CASE Drain("pump")
  BY <1>9, DrainStays DEF Drainers, Hearing
<1> QED BY <1>2, <1>3, <1>4, <1>5, <1>6, <1>7, <1>8, <1>9 DEF Pump

\* The steps of the agent, of its driver and of the operator.
LEMMA AgentHears ==
  ASSUME TypeOK, Deliver \/ Agent \/ Operator \/ TimePasses
  PROVE  Hearing
<1>1. ASSUME NEW kind \in {"text", "stray", "ask", "fin", "reject"}, NEW req \in Nat, Report(kind, req),
             child = "up", UNCHANGED <<pc, child>>
      PROVE  Hearing
  BY <1>1 DEF Report, Hearing, Tells
<1>2. CASE Deliver
  <2>1. UNCHANGED <<pc, child>>
    BY <1>2 DEF Deliver, tasks
  <2>2. CASE child # "up"
    BY <1>2, <2>1, <2>2 DEF Deliver, Hearing, Hands
  <2>3. CASE child = "up"
    <3>1. Report("fin", 0) \/ UNCHANGED wire
      BY <1>2, <2>3 DEF Deliver
    <3> QED BY <1>1, <2>1, <2>3, <3>1 DEF Hearing, Hands
  <2> QED BY <2>2, <2>3
<1>3. CASE AgentSpeaks \/ AgentAsks \/ AgentFinishes
  <2>1. asks + 1 \in Nat /\ 0 \in Nat
    BY DEF TypeOK
  <2> QED BY <1>1, <1>3, <2>1 DEF AgentSpeaks, AgentAsks, AgentFinishes, Works, tasks
<1>4. CASE AgentStrays
  BY <1>1, <1>4 DEF AgentStrays, tasks
<1>5. CASE AgentDies
  BY <1>5 DEF AgentDies, Report, tasks, Hearing, Dies, Stops, Reads
<1>6. CASE CloseKill
  BY <1>6 DEF CloseKill, Hearing, Stops, Reads
<1>7. CASE TimePasses \/ CancelLook \/ Cancelling \/ AnswerLook \/ AnswerSend \/ CloseRemove
  BY <1>7 DEF TimePasses, CancelLook, Cancelling, CancelMark, CancelSend, CancelRelease, AnswerLook,
     AnswerSend, CloseRemove, tasks, agents, Hearing, Stays, Reads
<1> QED BY <1>2, <1>3, <1>4, <1>5, <1>6, <1>7 DEF Agent, Operator

\* Every step does one of these things to the channel.
LEMMA NextHears ==
  ASSUME TypeOK, [Next]_vars
  PROVE  Hearing
<1>0. PcType
  BY DEF TypeOK, PcType
<1>1. CASE UNCHANGED vars
  BY <1>1 DEF vars, tasks, agents, Hearing, Stays, Reads
<1>2. CASE Next
  BY <1>0, <1>2, SubmissionStays, PumpHears, WatchStays, AgentHears DEF Next, Hearing
<1> QED BY <1>1, <1>2

\* What is left when the first event is taken, and what an event adds.
LEMMA TailReports ==
  ASSUME wire \in Seq(Events), wire # <<>>, wire' = Tail(wire)
  PROVE  /\ Len(wire') = Len(wire) - 1 /\ Len(wire) >= 1
         /\ \A i \in 1..Len(wire') : wire'[i] = wire[i + 1]
         /\ \A i \in 2..Len(wire) : wire[i] = wire'[i - 1]
         /\ Head(wire) = wire[1]
<1>1. Len(wire) \in Nat /\ Len(wire) >= 1
  OBVIOUS
<1> QED BY <1>1

LEMMA AppendReports ==
  ASSUME wire \in Seq(Events), NEW e, wire' = Append(wire, e)
  PROVE  /\ Len(wire') = Len(wire) + 1 /\ wire'[Len(wire) + 1] = e
         /\ \A i \in 1..Len(wire) : wire'[i] = wire[i]
OBVIOUS

\* And each of them keeps the invariant.
LEMMA HearStep ==
  ASSUME TypeOK, HearInv, Hearing
  PROVE  HearInv'
<1>0. wire \in Seq(Events) /\ Len(wire) \in Nat /\ child \in {"up", "dead", "gone"}
  BY DEF TypeOK
<1>1. CASE Stays
  BY <1>1 DEF Stays, HearInv, Reported
<1>2. CASE Stops
  <2>1. ~(child' = "up") /\ agent' = <<>>
    BY <1>2 DEF Stops, HearInv
  <2> QED BY <1>2, <2>1 DEF Stops, HearInv, Reported
<1>3. CASE Hands
  BY <1>3 DEF Hands, HearInv, Reported, Reads
<1>4. ASSUME wire # <<>>, wire' = Tail(wire), UNCHANGED <<child, agent>>
      PROVE  /\ \A i \in 1..Len(wire') : wire'[i].kind = "term" => i = Len(wire') /\ child' = "dead"
             /\ Reported /\ Head(wire).kind # "term" => Reported'
             /\ Head(wire).kind = "term" => child = "dead"
  <2>1. /\ Len(wire') = Len(wire) - 1 /\ Len(wire) >= 1
        /\ \A i \in 1..Len(wire') : wire'[i] = wire[i + 1]
        /\ \A i \in 2..Len(wire) : wire[i] = wire'[i - 1]
        /\ Head(wire) = wire[1]
    BY <1>0, <1>4, TailReports
  <2>2. ASSUME NEW i \in 1..Len(wire'), wire'[i].kind = "term" PROVE i = Len(wire') /\ child' = "dead"
    <3>1. i + 1 \in 1..Len(wire) /\ wire[i + 1].kind = "term"
      BY <1>0, <2>1, <2>2
    <3>2. i + 1 = Len(wire) /\ child = "dead"
      BY <3>1 DEF HearInv
    <3>3. i \in Int /\ i = Len(wire')
      BY <1>0, <2>1, <2>2, <3>2
    <3>4. child' = "dead"
      BY <1>4, <3>2
    <3> QED BY <3>3, <3>4
  <2>3. ASSUME Reported, Head(wire).kind # "term" PROVE Reported'
    <3>1. PICK i \in 1..Len(wire) : wire[i].kind = "term"
      BY <2>3 DEF Reported
    <3>2. i # 1
      BY <2>1, <2>3, <3>1
    <3>3. i - 1 \in 1..Len(wire') /\ wire'[i - 1] = wire[i]
      BY <1>0, <2>1, <3>2
    <3> QED BY <3>1, <3>3 DEF Reported
  <2>4. Head(wire).kind = "term" => child = "dead"
    <3>1. 1 \in 1..Len(wire)
      BY <1>0, <2>1
    <3> QED BY <2>1, <3>1 DEF HearInv
  <2> QED BY <2>2, <2>3, <2>4
<1>5. CASE Takes /\ Reads'
  BY <1>4, <1>5 DEF Takes, HearInv
<1>6. CASE Hears
  BY <1>4, <1>6 DEF Hears, HearInv
<1>7. ASSUME NEW e, wire' = Append(wire, e), child = "up"
      PROVE  /\ \A i \in 1..Len(wire') : wire'[i].kind = "term" => i = Len(wire') /\ e.kind = "term"
             /\ e.kind = "term" => Reported'
  <2>1. /\ Len(wire') = Len(wire) + 1 /\ wire'[Len(wire) + 1] = e
        /\ \A i \in 1..Len(wire) : wire'[i] = wire[i]
    BY <1>0, <1>7, AppendReports
  <2>2. ASSUME NEW i \in 1..Len(wire'), wire'[i].kind = "term" PROVE i = Len(wire') /\ e.kind = "term"
    <3>1. i \notin 1..Len(wire)
      BY <1>7, <2>1, <2>2 DEF HearInv
    <3>2. i = Len(wire) + 1
      BY <1>0, <2>1, <3>1
    <3> QED BY <2>1, <2>2, <3>2
  <2>3. e.kind = "term" => Reported'
    <3>1. Len(wire) + 1 \in 1..Len(wire')
      BY <1>0, <2>1
    <3> QED BY <2>1, <3>1 DEF Reported
  <2> QED BY <2>2, <2>3
<1>8. CASE Dies
  <2>1. Event("term", 0).kind = "term"
    BY DEF Event
  <2> QED BY <1>7, <1>8, <2>1 DEF Dies, HearInv, Reads
<1>9. CASE Tells
  <2>1. PICK kind \in {"text", "stray", "ask", "fin", "reject"}, req \in Nat : wire' = Append(wire, Event(kind, req))
    BY <1>9 DEF Tells
  <2>2. Event(kind, req).kind # "term"
    BY DEF Event
  <2> QED BY <1>7, <1>9, <2>1, <2>2 DEF Tells, HearInv, Reads
<1> QED BY <1>1, <1>2, <1>3, <1>5, <1>6, <1>8, <1>9 DEF Hearing

\* An agent with a prompt to work on has a pump that comes back to its channel, however the
\* operator, the watchdog and the submissions went on in between; and of one that died with
\* an error, the pump that still reads has that error before it, as the last event (run of
\* the outbound pump; the safety part of QueuedTurnMoves).
THEOREM AgentsAreHeard ==
  Spec => [](/\ agent # <<>> => child = "up" /\ Reads
             /\ Reads /\ child = "dead" => Reported
             /\ \A i \in 1..Len(wire) : wire[i].kind = "term" => i = Len(wire) /\ child = "dead")
<1> DEFINE Heard == /\ agent # <<>> => child = "up" /\ Reads
                    /\ Reads /\ child = "dead" => Reported
                    /\ \A i \in 1..Len(wire) : wire[i].kind = "term" => i = Len(wire) /\ child = "dead"
<1>1. Init => HearInv
  BY TaskNames DEF Init, HearInv, Reads, Reading, DrainPlaces
<1>2. TypeOK /\ HearInv /\ [Next]_vars => HearInv'
  BY NextHears, HearStep
<1>3. HearInv => Heard
  BY DEF HearInv
<1>4. Spec => []TypeOK
  BY TypeCorrect
<1> QED BY <1>1, <1>2, <1>3, <1>4, PTL DEF Spec
=============================================================================
