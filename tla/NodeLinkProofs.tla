--------------------------- MODULE NodeLinkProofs ---------------------------
(***************************************************************************)
(* Proofs about NodeLink, for any machines, tokens, connections and        *)
(* bounds: a join token gives one credential, the registry's file knows    *)
(* every credential a node has stored, a node that was accepted exits for  *)
(* a cause only, the tables keep no connection whose task has ended, and a *)
(* node that connects has its own answer, its end or its task before it.   *)
(***************************************************************************)
EXTENDS NodeLink, TLAPS

\* What the file knows as used the registry does, and a token that paired is known there.
UsedInv == disk.used \subseteq mem.used /\ \A p \in paired : p.token \in disk.used

\* The file is behind the registry, and no machine, task or answer is ahead of the file.
SecretInv ==
  /\ disk.secret <= mem.secret /\ mem.secret <= issued
  /\ \A m \in Machines : machine[m].cred <= disk.secret /\ machine[m].offer <= disk.secret
  /\ \A c \in Conns : conn[c].secret <= disk.secret

\* The registry and its file say "revoked" of a node that was.
StatusInv == (mem.status = "revoked" => revoked) /\ (disk.status = "revoked" => revoked)

\* A task that has read a hello has what the waiting machine sent.
HelloInv ==
  \A m \in Machines :
    machine[m].at = "wait" /\ conn[machine[m].conn].at = "hello"
      => /\ conn[machine[m].conn].token = machine[m].token
         /\ machine[m].token = NoToken => conn[machine[m].conn].secret = machine[m].cred

\* A machine that was accepted has no token left, and is rejected for a cause.
Cause(m) ==
  /\ machine[m].at = "idle" => machine[m].reply = "none"
  /\ machine[m].met => machine[m].token = NoToken
  /\ machine[m].at = "wait" /\ machine[m].met /\ machine[m].reply = "fatal"
       => revoked \/ machine[m].cred < issued
CauseInv == \A m \in Machines : Cause(m)

\* The inductive invariant.
Inv == /\ TypeOK /\ UsedInv /\ SecretInv /\ StatusInv /\ HelloInv /\ CauseInv
       /\ TokenOnce /\ TablesAreServed /\ ExitsForCause

MachineStep(m) == Start(m) \/ Client(m) \/ NotStored(m) \/ LinkLost(m) \/ NodeCrash(m)
TaskStep(c)    == Handshake(c) \/ TokenUnsaved(c) \/ Serve(c) \/ Closed(c)

-----------------------------------------------------------------------------
(* What the parts of an action do *)

\* A machine that leaves a connection is as before but for the connection and the answer.
LEMMA LeavesDoes ==
  ASSUME TypeOK, NEW m \in Machines, NEW place \in {"off", "idle", "down"}, Leaves(m, place)
  PROVE  /\ MachinesOK'
         /\ \A n \in Machines \ {m} : machine'[n] = machine[n]
         /\ machine'[m].at = place /\ machine'[m].token = machine[m].token
         /\ machine'[m].cred = machine[m].cred /\ machine'[m].met = machine[m].met
         /\ machine'[m].conn = NoConn /\ machine'[m].reply = "none" /\ machine'[m].offer = 0
BY DEF Leaves, Machine, TypeOK, MachinesOK

\* A machine that was accepted has the credential it was offered, or the one it had.
LEMMA UpDoes ==
  ASSUME TypeOK, NEW m \in Machines, machine[m].at = "wait", Up(m, NoToken)
  PROVE  /\ MachinesOK'
         /\ \A n \in Machines \ {m} : machine'[n] = machine[n]
         /\ machine'[m].at = "up" /\ machine'[m].token = NoToken
         /\ machine'[m].cred \in {machine[m].cred, machine[m].offer}
         /\ machine'[m].conn = machine[m].conn /\ machine'[m].reply = "none" /\ machine'[m].offer = 0
BY DEF Up, Credential, Machine, TypeOK, MachinesOK

\* An answer changes nothing but the answer.
LEMMA ReplyDoes ==
  ASSUME TypeOK, NEW c \in Conns, NEW r \in {"ok", "fatal", "later"}, Reply(c, r)
  PROVE  /\ MachinesOK'
         /\ \A m \in Machines :
              /\ machine'[m].at = machine[m].at /\ machine'[m].token = machine[m].token
              /\ machine'[m].cred = machine[m].cred /\ machine'[m].met = machine[m].met
              /\ machine'[m].conn = machine[m].conn
              /\ machine'[m].offer \in {machine[m].offer, conn[c].secret}
              /\ machine'[m].reply = IF machine[m].conn = c THEN r ELSE machine[m].reply
<1> DEFINE told(m) == IF machine[m].conn # c THEN machine[m]
                       ELSE [machine[m] EXCEPT !.reply = r, !.offer = conn[c].secret]
<1>1. machine' = [m \in Machines |-> told(m)]
  BY DEF Reply
<1>2. ASSUME NEW m \in Machines
      PROVE  /\ told(m) \in [at : {"off", "idle", "wait", "up", "down"}, token : Tokens \cup {NoToken},
                             cred : Nat, conn : Conns \cup {NoConn}, met : BOOLEAN,
                             reply : {"none", "ok", "fatal", "later"}, offer : Nat]
             /\ told(m).at = machine[m].at /\ told(m).token = machine[m].token
             /\ told(m).cred = machine[m].cred /\ told(m).met = machine[m].met
             /\ told(m).conn = machine[m].conn
             /\ told(m).offer \in {machine[m].offer, conn[c].secret}
             /\ told(m).reply = IF machine[m].conn = c THEN r ELSE machine[m].reply
  BY <1>2 DEF TypeOK, MachinesOK, TasksOK
<1> HIDE DEF told
<1> QED BY <1>1, <1>2 DEF TypeOK, MachinesOK

\* A task that ends has nothing left.
LEMMA EndDoes ==
  ASSUME TypeOK, NEW c \in Conns, End(c)
  PROVE  /\ TasksOK' /\ \A d \in Conns \ {c} : conn'[d] = conn[d]
         /\ conn'[c].at = "free" /\ conn'[c].secret = 0
BY DEF End, Free, Task, Places, TypeOK, TasksOK

\* A task that moves on keeps what it has.
LEMMA GotoDoes ==
  ASSUME TypeOK, NEW c \in Conns, NEW place \in Places, Goto(c, place)
  PROVE  /\ TasksOK' /\ \A d \in Conns \ {c} : conn'[d] = conn[d]
         /\ conn'[c].at = place /\ conn'[c].secret = conn[c].secret
         /\ conn'[c].token = conn[c].token
BY DEF Goto, TypeOK, TasksOK

\* The end of a connection is noted, and wakes its task.
LEMMA ClosedDoes ==
  ASSUME TypeOK, NEW c \in Conns, Closed(c)
  PROVE  /\ TasksOK' /\ \A d \in Conns \ {c} : conn'[d] = conn[d]
         /\ conn[c].at \in {"insert", "attach", "serve", "doze", "asleep"}
         /\ conn'[c].at \in {conn[c].at, "serve"} /\ (conn[c].at = "insert" => conn'[c].at = "insert")
         /\ conn'[c].secret = conn[c].secret /\ conn'[c].token = conn[c].token
         /\ UNCHANGED <<machine, registry, tables, operator, starts, unsaved>> /\ CountsOK'
<1>1. conn' = [conn EXCEPT ![c] = Woken(c)]
  BY DEF Closed
<1>2. conn[c] \in [at : Places, token : Tokens \cup {NoToken}, secret : Nat, closed : BOOLEAN]
  BY DEF TypeOK, TasksOK
<1>3. conn'[c] = Woken(c)
      /\ \A d \in Conns \ {c} : conn'[d] = conn[d]
  BY <1>1 DEF TypeOK, TasksOK
<1>s. "serve" \in Places /\ conn[c].at \in {"insert", "attach", "serve", "doze", "asleep"}
  BY DEF Places, Served, Closed
<1>4. /\ conn'[c] \in [at : Places, token : Tokens \cup {NoToken}, secret : Nat, closed : BOOLEAN]
      /\ conn'[c].at = IF conn[c].at = "asleep" THEN "serve" ELSE conn[c].at
      /\ conn'[c].secret = conn[c].secret /\ conn'[c].token = conn[c].token
  BY <1>2, <1>3, <1>s DEF Woken, At
<1>5. TasksOK'
  BY <1>1, <1>3, <1>4 DEF TypeOK, TasksOK
<1>6. conn'[c].at \in {conn[c].at, "serve"} /\ (conn[c].at = "insert" => conn'[c].at = "insert")
  BY <1>4
<1>7. UNCHANGED <<machine, registry, tables, operator, starts, unsaved>> /\ CountsOK'
  BY LinkAssumption DEF Closed, Fault, NoFault, TypeOK, CountsOK
<1> QED BY <1>3, <1>4, <1>5, <1>6, <1>7, <1>s

\* A pairing counts when it is saved.
LEMMA PairDoes ==
  ASSUME TypeOK, NEW c \in Conns, Pair(c)
  PROVE  /\ TasksOK' /\ MachinesOK' /\ RegistryOK' /\ \A d \in Conns \ {c} : conn'[d] = conn[d]
         /\ conn[c].at = "hello" /\ conn[c].token \in Tokens /\ conn[c].token \notin mem.used
         /\ issued' = issued + 1 /\ mem'.secret = issued + 1
         /\ mem'.used = mem.used \cup {conn[c].token} /\ disk'.used = mem'.used
         /\ mem'.status = "offline" /\ disk'.status \in {"offline", mem.status}
         /\ \/ /\ disk' = mem' /\ machine' = machine
               /\ conn'[c].at = "ack" /\ conn'[c].secret = issued + 1
               /\ paired' = paired \cup {[token |-> conn[c].token, secret |-> issued + 1]}
            \/ /\ disk'.secret = mem.secret /\ Reply(c, "later") /\ End(c) /\ paired' = paired
         /\ UNCHANGED <<tables, operator, starts, faults>>
         /\ unsaved' \in {unsaved, unsaved + 1} /\ CountsOK'
<1> DEFINE new == [used |-> Spent(c).used, secret |-> issued + 1, status |-> "offline"]
<1>1. /\ conn[c] \in [at : Places, token : Tokens \cup {NoToken}, secret : Nat, closed : BOOLEAN]
      /\ conn[c].at = "hello" /\ conn[c].token \in Tokens /\ conn[c].token \notin mem.used
  BY DEF Pair, At, Usable, TypeOK, TasksOK
<1>2. /\ new \in Registry /\ new.used = mem.used \cup {conn[c].token} /\ new.secret = issued + 1
      /\ new.status = "offline"
      /\ Spent(c) \in Registry /\ Spent(c).used = new.used /\ Spent(c).secret = mem.secret
      /\ Spent(c).status = mem.status
  BY <1>1 DEF Spent, TypeOK, RegistryOK, Registry, Statuses
<1>3. /\ issued' = issued + 1 /\ UNCHANGED <<tables, operator, starts>>
      /\ \/ /\ Saved(new) /\ UNCHANGED machine
            /\ conn' = [conn EXCEPT ![c] = Task("ack", conn[c].token, issued + 1)]
            /\ paired' = paired \cup {[token |-> conn[c].token, secret |-> issued + 1]}
         \/ /\ mem' = new /\ disk' = Spent(c) /\ Unsaved /\ Refuse(c, "later") /\ UNCHANGED paired
  BY DEF Pair
<1> HIDE DEF new
<1>4. CASE /\ Saved(new) /\ UNCHANGED machine
           /\ conn' = [conn EXCEPT ![c] = Task("ack", conn[c].token, issued + 1)]
           /\ paired' = paired \cup {[token |-> conn[c].token, secret |-> issued + 1]}
  <2>1. TasksOK' /\ conn'[c].at = "ack" /\ conn'[c].secret = issued + 1
        /\ \A d \in Conns \ {c} : conn'[d] = conn[d]
    BY <1>1, <1>4 DEF TypeOK, TasksOK, RegistryOK, Places, Task
  <2>2. RegistryOK'
    BY <1>1, <1>2, <1>3, <1>4 DEF TypeOK, RegistryOK, Saved
  <2>3. CountsOK' /\ UNCHANGED <<faults, unsaved>>
    BY <1>3, <1>4 DEF TypeOK, CountsOK, Saved, NoFault
  <2> QED BY <1>1, <1>2, <1>3, <1>4, <2>1, <2>2, <2>3 DEF Saved, TypeOK, MachinesOK
<1>5. CASE /\ mem' = new /\ disk' = Spent(c) /\ Unsaved /\ Refuse(c, "later") /\ UNCHANGED paired
  <2>1. Reply(c, "later") /\ End(c) /\ TasksOK' /\ MachinesOK'
        /\ \A d \in Conns \ {c} : conn'[d] = conn[d]
    BY <1>5, ReplyDoes, EndDoes DEF Refuse
  <2>2. RegistryOK'
    BY <1>2, <1>3, <1>5 DEF TypeOK, RegistryOK
  <2>3. CountsOK' /\ UNCHANGED faults /\ unsaved' = unsaved + 1
    BY <1>3, <1>5, LinkAssumption DEF TypeOK, CountsOK, Unsaved
  <2> QED BY <1>1, <1>2, <1>3, <1>5, <2>1, <2>2, <2>3
<1> QED BY <1>3, <1>4, <1>5

\* Types.
LEMMA TypeStep ==
  ASSUME TypeOK, [Next]_vars
  PROVE  TypeOK'
<1> USE LinkAssumption DEF TypeOK, MachinesOK, TasksOK, RegistryOK, Registry, TablesOK, OperatorOK, CountsOK, Statuses, Places, Served
<1>1. CASE Operator
  <2>1. CASE Revoke
    BY <2>1, SMTT(30) DEF Revoke, Saved, SaveFails, With, NoFault, Unsaved, registry, counts, tables, operator
  <2>2. ASSUME NEW k \in Tokens, IssueToken(k) PROVE TypeOK'
    BY <2>2, SMTT(30) DEF IssueToken, registry, counts, tables, operator
  <2>3. ASSUME NEW k \in Tokens, TokenExpires(k) PROVE TypeOK'
    BY <2>3, SMTT(30) DEF TokenExpires, registry, counts, tables, operator
  <2> QED BY <1>1, <2>1, <2>2, <2>3 DEF Operator
<1>2. CASE Restart
  BY <1>2, SMTT(30) DEF Restart, Fault, Free, Task, registry, counts, tables, operator
<1>3. ASSUME NEW m \in Machines, MachineStep(m) PROVE TypeOK'
  <2>1. CASE Start(m)
    BY <2>1, SMTT(30) DEF Start, Machine, registry, counts, tables, operator
  <2>2. CASE Dial(m)
    BY <2>2, SMTT(30) DEF Dial, At, Left, Task, Places, registry, counts, tables, operator
  <2>3. CASE Accepted(m)
    BY <2>3, UpDoes, SMTT(30) DEF Accepted, Told, registry, counts, tables, operator
  <2>4. CASE Refused(m)
    BY <2>4, LeavesDoes, SMTT(30) DEF Refused, Told, registry, counts, tables, operator
  <2>5. CASE Retry(m)
    BY <2>5, LeavesDoes, SMTT(30) DEF Retry, Told, At, registry, counts, tables, operator
  <2>6. CASE LinkEnds(m)
    BY <2>6, LeavesDoes, SMTT(30) DEF LinkEnds, At, registry, counts, tables, operator
  <2>7. CASE NotStored(m)
    BY <2>7, LeavesDoes, SMTT(30) DEF NotStored, Told, Unsaved, registry, counts, tables, operator
  <2>8. CASE LinkLost(m)
    BY <2>8, LeavesDoes, SMTT(30) DEF LinkLost, Fault, registry, counts, tables, operator
  <2>9. CASE NodeCrash(m)
    BY <2>9, LeavesDoes, SMTT(30) DEF NodeCrash, Fault, registry, counts, tables, operator
  <2> QED BY <1>3, <2>1, <2>2, <2>3, <2>4, <2>5, <2>6, <2>7, <2>8, <2>9 DEF MachineStep, Client
<1>4. ASSUME NEW c \in Conns, TaskStep(c) PROVE TypeOK'
  <2>1. CASE TokenRefused(c)
    BY <2>1, EndDoes, ReplyDoes, SMTT(30) DEF TokenRefused, At, Usable, Refuse, registry, counts, tables, operator
  <2>2. CASE PairRefused(c)
    BY <2>2, EndDoes, ReplyDoes, SMTT(30) DEF PairRefused, At, Usable, Refuse, Saved, Spent, NoFault, registry, counts, tables, operator
  <2>3. CASE Pair(c)
    BY <2>3, PairDoes, ReplyDoes, EndDoes, SMTT(30) DEF tables, operator
  <2>4. CASE Authenticate(c)
    BY <2>4, EndDoes, GotoDoes, ReplyDoes, SMTT(30) DEF Authenticate, At, Valid, Refuse, registry, counts, tables, operator
  <2>5. CASE Answer(c)
    BY <2>5, EndDoes, GotoDoes, ReplyDoes, SMTT(30) DEF Answer, At, Left, registry, counts, tables, operator
  <2>6. CASE TokenUnsaved(c)
    BY <2>6, EndDoes, ReplyDoes, SMTT(30) DEF TokenUnsaved, At, Usable, Refuse, SaveFails, Spent, Unsaved, registry, counts, tables, operator
  <2>7. CASE Online(c)
    BY <2>7, EndDoes, GotoDoes, SMTT(30) DEF Online, At, With, Saved, SaveFails, NoFault, Unsaved, registry, counts, tables, operator
  <2>8. CASE Insert(c)
    BY <2>8, GotoDoes, SMTT(30) DEF Insert, At, registry, counts, tables, operator
  <2>9. CASE Attach(c)
    BY <2>9, GotoDoes, SMTT(30) DEF Attach, At, registry, counts, tables, operator
  <2>10. CASE Look(c)
    BY <2>10, GotoDoes, SMTT(30) DEF Look, At, registry, counts, tables, operator
  <2>11. CASE Listen(c)
    BY <2>11, GotoDoes, SMTT(30) DEF Listen, At, registry, counts, tables, operator
  <2>12. CASE Offline(c)
    BY <2>12, EndDoes, GotoDoes, SMTT(30) DEF Offline, At, With, Saved, SaveFails, NoFault, Unsaved, registry, counts, tables, operator
  <2>13. CASE Remove(c)
    BY <2>13, GotoDoes, SMTT(30) DEF Remove, At, registry, counts, tables, operator
  <2>14. CASE Detach(c)
    BY <2>14, EndDoes, SMTT(30) DEF Detach, At, registry, counts, tables, operator
  <2>15. CASE Closed(c)
    BY <2>15, ClosedDoes, SMTT(30) DEF registry, tables, operator
  <2> QED BY <1>4, <2>1, <2>2, <2>3, <2>4, <2>5, <2>6, <2>7, <2>8, <2>9, <2>10, <2>11, <2>12, <2>13, <2>14, <2>15 DEF TaskStep, Handshake, Serve
<1>5. CASE UNCHANGED vars
  BY <1>5 DEF vars, registry, tables, operator, counts
<1> QED BY <1>1, <1>2, <1>3, <1>4, <1>5 DEF Next, MachineStep, TaskStep

\* A use of a token is saved before anything comes of it.
LEMMA UsedStep ==
  ASSUME TypeOK, UsedInv, [Next]_vars
  PROVE  UsedInv'
<1> USE LinkAssumption DEF UsedInv, TypeOK, TasksOK, RegistryOK, Registry
<1>1. CASE Operator
  <2>1. CASE Revoke
    BY <2>1, SMTT(30) DEF Revoke, Saved, SaveFails, With, NoFault, Unsaved, registry, counts, tables, operator
  <2>2. ASSUME NEW k \in Tokens, IssueToken(k) PROVE UsedInv'
    BY <2>2, SMTT(30) DEF IssueToken, registry, counts, tables, operator
  <2>3. ASSUME NEW k \in Tokens, TokenExpires(k) PROVE UsedInv'
    BY <2>3, SMTT(30) DEF TokenExpires, registry, counts, tables, operator
  <2> QED BY <1>1, <2>1, <2>2, <2>3 DEF Operator
<1>2. CASE Restart
  BY <1>2, SMTT(30) DEF Restart, Fault, Free, Task, registry, counts, tables, operator
<1>3. ASSUME NEW m \in Machines, MachineStep(m) PROVE UsedInv'
  BY <1>3 DEF MachineStep, Client, Start, Dial, Accepted, Refused, Retry, LinkEnds, NotStored,
     LinkLost, NodeCrash, registry, operator
<1>4. ASSUME NEW c \in Conns, TaskStep(c) PROVE UsedInv'
  <2>1. CASE PairRefused(c)
    BY <2>1, EndDoes, ReplyDoes, SMTT(30) DEF PairRefused, At, Usable, Refuse, Saved, Spent, NoFault, registry, counts, tables, operator
  <2>2. CASE Pair(c)
    BY <2>2, PairDoes, ReplyDoes, EndDoes, SMTT(30) DEF tables, operator
  <2>3. CASE TokenUnsaved(c)
    BY <2>3, EndDoes, ReplyDoes, SMTT(30) DEF TokenUnsaved, At, Usable, Refuse, SaveFails, Spent, Unsaved, registry, counts, tables, operator
  <2>4. CASE Online(c)
    BY <2>4, EndDoes, GotoDoes, SMTT(30) DEF Online, At, With, Saved, SaveFails, NoFault, Unsaved, registry, counts, tables, operator
  <2>5. CASE Offline(c)
    BY <2>5, EndDoes, GotoDoes, SMTT(30) DEF Offline, At, With, Saved, SaveFails, NoFault, Unsaved, registry, counts, tables, operator
  <2>9. CASE TokenRefused(c) \/ Authenticate(c) \/ Answer(c) \/ Insert(c) \/ Attach(c) \/ Look(c)
             \/ Listen(c) \/ Remove(c) \/ Detach(c) \/ Closed(c)
    BY <2>9 DEF TokenRefused, Authenticate, Answer, Insert, Attach, Look, Listen, Remove, Detach, Closed,
       registry, operator
  <2> QED BY <1>4, <2>1, <2>2, <2>3, <2>4, <2>5, <2>9 DEF TaskStep, Handshake, Serve
<1>5. CASE UNCHANGED vars
  BY <1>5 DEF vars, registry, tables, operator, counts
<1> QED BY <1>1, <1>2, <1>3, <1>4, <1>5 DEF Next, MachineStep, TaskStep

\* A credential is saved before it is given out.
LEMMA SecretStep ==
  ASSUME TypeOK, SecretInv, [Next]_vars
  PROVE  SecretInv'
<1> USE LinkAssumption DEF SecretInv, TypeOK, MachinesOK, TasksOK, RegistryOK, Registry, Places, Served
<1>1. CASE Operator
  <2>1. CASE Revoke
    BY <2>1, SMTT(30) DEF Revoke, Saved, SaveFails, With, NoFault, Unsaved, registry, counts, tables, operator
  <2>2. ASSUME NEW k \in Tokens, IssueToken(k) PROVE SecretInv'
    BY <2>2, SMTT(30) DEF IssueToken, registry, counts, tables, operator
  <2>3. ASSUME NEW k \in Tokens, TokenExpires(k) PROVE SecretInv'
    BY <2>3, SMTT(30) DEF TokenExpires, registry, counts, tables, operator
  <2> QED BY <1>1, <2>1, <2>2, <2>3 DEF Operator
<1>2. CASE Restart
  BY <1>2, SMTT(30) DEF Restart, Fault, Free, Task, registry, counts, tables, operator
<1>3. ASSUME NEW m \in Machines, MachineStep(m) PROVE SecretInv'
  <2>1. CASE Start(m)
    BY <2>1, SMTT(30) DEF Start, Machine, registry, counts, tables, operator
  <2>2. CASE Dial(m)
    BY <2>2, SMTT(30) DEF Dial, At, Left, Task, Places, registry, counts, tables, operator
  <2>3. CASE Accepted(m)
    BY <2>3, UpDoes, SMTT(30) DEF Accepted, Told, registry, counts, tables, operator
  <2>4. CASE Refused(m)
    BY <2>4, LeavesDoes, SMTT(30) DEF Refused, Told, registry, counts, tables, operator
  <2>5. CASE Retry(m)
    BY <2>5, LeavesDoes, SMTT(30) DEF Retry, Told, At, registry, counts, tables, operator
  <2>6. CASE LinkEnds(m)
    BY <2>6, LeavesDoes, SMTT(30) DEF LinkEnds, At, registry, counts, tables, operator
  <2>7. CASE NotStored(m)
    BY <2>7, LeavesDoes, SMTT(30) DEF NotStored, Told, Unsaved, registry, counts, tables, operator
  <2>8. CASE LinkLost(m)
    BY <2>8, LeavesDoes, SMTT(30) DEF LinkLost, Fault, registry, counts, tables, operator
  <2>9. CASE NodeCrash(m)
    BY <2>9, LeavesDoes, SMTT(30) DEF NodeCrash, Fault, registry, counts, tables, operator
  <2> QED BY <1>3, <2>1, <2>2, <2>3, <2>4, <2>5, <2>6, <2>7, <2>8, <2>9 DEF MachineStep, Client
<1>4. ASSUME NEW c \in Conns, TaskStep(c) PROVE SecretInv'
  <2>1. CASE TokenRefused(c)
    BY <2>1, EndDoes, ReplyDoes, SMTT(30) DEF TokenRefused, At, Usable, Refuse, registry, counts, tables, operator
  <2>2. CASE PairRefused(c)
    BY <2>2, EndDoes, ReplyDoes, SMTT(120) DEF PairRefused, At, Usable, Refuse, Saved, Spent, NoFault, registry, counts, tables, operator
  <2>3. CASE Pair(c)
    <3>1. disk.secret <= disk'.secret /\ disk'.secret <= mem'.secret /\ mem'.secret <= issued'
          /\ disk.secret \in Nat /\ disk'.secret \in Nat
      BY <2>3, PairDoes, ReplyDoes, EndDoes, SMTT(30) DEF tables, operator
    <3>2. ASSUME NEW m \in Machines
          PROVE  machine'[m].cred <= disk'.secret /\ machine'[m].offer <= disk'.secret
      <4>1. CASE machine' = machine
        BY <3>1, <4>1
      <4>2. CASE Reply(c, "later")
        BY <3>1, <4>2, ReplyDoes
      <4> QED BY <2>3, <4>1, <4>2, PairDoes
    <3>3. ASSUME NEW d \in Conns PROVE conn'[d].secret <= disk'.secret
      BY <3>1, <2>3, PairDoes, ReplyDoes, EndDoes, SMTT(30) DEF tables, operator
    <3> QED BY <3>1, <3>2, <3>3
  <2>4. CASE Authenticate(c)
    BY <2>4, EndDoes, GotoDoes, ReplyDoes, SMTT(30) DEF Authenticate, At, Valid, Refuse, registry, counts, tables, operator
  <2>5. CASE Answer(c)
    <3>1. disk.secret <= disk'.secret /\ disk'.secret <= mem'.secret /\ mem'.secret <= issued'
          /\ disk.secret \in Nat /\ disk'.secret \in Nat
      BY <2>5, EndDoes, GotoDoes, ReplyDoes, SMTT(30) DEF Answer, At, Left, registry, counts, tables, operator
    <3>2. ASSUME NEW m \in Machines
          PROVE  machine'[m].cred <= disk'.secret /\ machine'[m].offer <= disk'.secret
      BY <3>1, <2>5, EndDoes, GotoDoes, ReplyDoes, SMTT(30) DEF Answer, At, Left, registry, counts, tables, operator
    <3>3. ASSUME NEW d \in Conns PROVE conn'[d].secret <= disk'.secret
      BY <3>1, <2>5, EndDoes, GotoDoes, ReplyDoes, SMTT(30) DEF Answer, At, Left, registry, counts, tables, operator
    <3> QED BY <3>1, <3>2, <3>3
  <2>6. CASE TokenUnsaved(c)
    <3>1. disk.secret <= disk'.secret /\ disk'.secret <= mem'.secret /\ mem'.secret <= issued'
          /\ disk.secret \in Nat /\ disk'.secret \in Nat
      BY <2>6, EndDoes, ReplyDoes, SMTT(30) DEF TokenUnsaved, At, Usable, Refuse, SaveFails, Spent, Unsaved, registry, counts, tables, operator
    <3>2. ASSUME NEW m \in Machines
          PROVE  machine'[m].cred <= disk'.secret /\ machine'[m].offer <= disk'.secret
      BY <3>1, <2>6, EndDoes, ReplyDoes, SMTT(30) DEF TokenUnsaved, At, Usable, Refuse, SaveFails, Spent, Unsaved, registry, counts, tables, operator
    <3>3. ASSUME NEW d \in Conns PROVE conn'[d].secret <= disk'.secret
      BY <3>1, <2>6, EndDoes, ReplyDoes, SMTT(30) DEF TokenUnsaved, At, Usable, Refuse, SaveFails, Spent, Unsaved, registry, counts, tables, operator
    <3> QED BY <3>1, <3>2, <3>3
  <2>7. CASE Online(c)
    BY <2>7, EndDoes, GotoDoes, SMTT(30) DEF Online, At, With, Saved, SaveFails, NoFault, Unsaved, registry, counts, tables, operator
  <2>8. CASE Insert(c)
    BY <2>8, GotoDoes, SMTT(30) DEF Insert, At, registry, counts, tables, operator
  <2>9. CASE Attach(c)
    BY <2>9, GotoDoes, SMTT(30) DEF Attach, At, registry, counts, tables, operator
  <2>10. CASE Look(c)
    BY <2>10, GotoDoes, SMTT(30) DEF Look, At, registry, counts, tables, operator
  <2>11. CASE Listen(c)
    BY <2>11, GotoDoes, SMTT(30) DEF Listen, At, registry, counts, tables, operator
  <2>12. CASE Offline(c)
    BY <2>12, EndDoes, GotoDoes, SMTT(30) DEF Offline, At, With, Saved, SaveFails, NoFault, Unsaved, registry, counts, tables, operator
  <2>13. CASE Remove(c)
    BY <2>13, GotoDoes, SMTT(30) DEF Remove, At, registry, counts, tables, operator
  <2>14. CASE Detach(c)
    BY <2>14, EndDoes, SMTT(30) DEF Detach, At, registry, counts, tables, operator
  <2>15. CASE Closed(c)
    BY <2>15, ClosedDoes, SMTT(30) DEF registry, tables, operator
  <2> QED BY <1>4, <2>1, <2>2, <2>3, <2>4, <2>5, <2>6, <2>7, <2>8, <2>9, <2>10, <2>11, <2>12, <2>13, <2>14, <2>15 DEF TaskStep, Handshake, Serve
<1>5. CASE UNCHANGED vars
  BY <1>5 DEF vars, registry, tables, operator, counts
<1> QED BY <1>1, <1>2, <1>3, <1>4, <1>5 DEF Next, MachineStep, TaskStep

\* Only a revocation says that the node is revoked.
LEMMA StatusStep ==
  ASSUME TypeOK, StatusInv, [Next]_vars
  PROVE  StatusInv'
<1> USE LinkAssumption DEF StatusInv, TypeOK, TasksOK, RegistryOK, Registry, OperatorOK
<1>1. CASE Operator
  <2>1. CASE Revoke
    BY <2>1, SMTT(30) DEF Revoke, Saved, SaveFails, With, NoFault, Unsaved, registry, counts, tables, operator
  <2>2. ASSUME NEW k \in Tokens, IssueToken(k) PROVE StatusInv'
    BY <2>2, SMTT(30) DEF IssueToken, registry, counts, tables, operator
  <2>3. ASSUME NEW k \in Tokens, TokenExpires(k) PROVE StatusInv'
    BY <2>3, SMTT(30) DEF TokenExpires, registry, counts, tables, operator
  <2> QED BY <1>1, <2>1, <2>2, <2>3 DEF Operator
<1>2. CASE Restart
  BY <1>2, SMTT(30) DEF Restart, Fault, Free, Task, registry, counts, tables, operator
<1>3. ASSUME NEW m \in Machines, MachineStep(m) PROVE StatusInv'
  BY <1>3 DEF MachineStep, Client, Start, Dial, Accepted, Refused, Retry, LinkEnds, NotStored,
     LinkLost, NodeCrash, registry, operator
<1>4. ASSUME NEW c \in Conns, TaskStep(c) PROVE StatusInv'
  <2>1. CASE PairRefused(c)
    BY <2>1, EndDoes, ReplyDoes, SMTT(30) DEF PairRefused, At, Usable, Refuse, Saved, Spent, NoFault, registry, counts, tables, operator
  <2>2. CASE Pair(c)
    BY <2>2, PairDoes, ReplyDoes, EndDoes, SMTT(30) DEF tables, operator
  <2>3. CASE TokenUnsaved(c)
    BY <2>3, EndDoes, ReplyDoes, SMTT(30) DEF TokenUnsaved, At, Usable, Refuse, SaveFails, Spent, Unsaved, registry, counts, tables, operator
  <2>4. CASE Online(c)
    BY <2>4, EndDoes, GotoDoes, SMTT(30) DEF Online, At, With, Saved, SaveFails, NoFault, Unsaved, registry, counts, tables, operator
  <2>5. CASE Offline(c)
    BY <2>5, EndDoes, GotoDoes, SMTT(30) DEF Offline, At, With, Saved, SaveFails, NoFault, Unsaved, registry, counts, tables, operator
  <2>9. CASE TokenRefused(c) \/ Authenticate(c) \/ Answer(c) \/ Insert(c) \/ Attach(c) \/ Look(c)
             \/ Listen(c) \/ Remove(c) \/ Detach(c) \/ Closed(c)
    BY <2>9 DEF TokenRefused, Authenticate, Answer, Insert, Attach, Look, Listen, Remove, Detach, Closed,
       registry, operator
  <2> QED BY <1>4, <2>1, <2>2, <2>3, <2>4, <2>5, <2>9 DEF TaskStep, Handshake, Serve
<1>5. CASE UNCHANGED vars
  BY <1>5 DEF vars, registry, tables, operator, counts
<1> QED BY <1>1, <1>2, <1>3, <1>4, <1>5 DEF Next, MachineStep, TaskStep

\* What a task has read is what the machine that waits on it sent.
LEMMA HelloStep ==
  ASSUME TypeOK, HelloInv, [Next]_vars
  PROVE  HelloInv'
<1> USE LinkAssumption DEF HelloInv, TypeOK, MachinesOK, TasksOK, Places, Served
<1>1. CASE Operator
  <2>1. CASE Revoke
    BY <2>1, SMTT(30) DEF Revoke, Saved, SaveFails, With, NoFault, Unsaved, registry, counts, tables, operator
  <2>2. ASSUME NEW k \in Tokens, IssueToken(k) PROVE HelloInv'
    BY <2>2, SMTT(30) DEF IssueToken, registry, counts, tables, operator
  <2>3. ASSUME NEW k \in Tokens, TokenExpires(k) PROVE HelloInv'
    BY <2>3, SMTT(30) DEF TokenExpires, registry, counts, tables, operator
  <2> QED BY <1>1, <2>1, <2>2, <2>3 DEF Operator
<1>2. CASE Restart
  BY <1>2, SMTT(30) DEF Restart, Fault, Free, Task, registry, counts, tables, operator
<1>3. ASSUME NEW m \in Machines, MachineStep(m) PROVE HelloInv'
  <2>1. CASE Start(m)
    BY <2>1, SMTT(30) DEF Start, Machine, registry, counts, tables, operator
  <2>2. CASE Dial(m)
    BY <2>2, SMTT(30) DEF Dial, At, Left, Task, Places, registry, counts, tables, operator
  <2>3. CASE Accepted(m)
    BY <2>3, UpDoes, SMTT(30) DEF Accepted, Told, registry, counts, tables, operator
  <2>4. CASE Refused(m)
    BY <2>4, LeavesDoes, SMTT(30) DEF Refused, Told, registry, counts, tables, operator
  <2>5. CASE Retry(m)
    BY <2>5, LeavesDoes, SMTT(30) DEF Retry, Told, At, registry, counts, tables, operator
  <2>6. CASE LinkEnds(m)
    BY <2>6, LeavesDoes, SMTT(30) DEF LinkEnds, At, registry, counts, tables, operator
  <2>7. CASE NotStored(m)
    BY <2>7, LeavesDoes, SMTT(30) DEF NotStored, Told, Unsaved, registry, counts, tables, operator
  <2>8. CASE LinkLost(m)
    BY <2>8, LeavesDoes, SMTT(30) DEF LinkLost, Fault, registry, counts, tables, operator
  <2>9. CASE NodeCrash(m)
    BY <2>9, LeavesDoes, SMTT(30) DEF NodeCrash, Fault, registry, counts, tables, operator
  <2> QED BY <1>3, <2>1, <2>2, <2>3, <2>4, <2>5, <2>6, <2>7, <2>8, <2>9 DEF MachineStep, Client
<1>4. ASSUME NEW c \in Conns, TaskStep(c) PROVE HelloInv'
  <2>1. CASE TokenRefused(c)
    BY <2>1, EndDoes, ReplyDoes, SMTT(120) DEF TokenRefused, At, Usable, Refuse, registry, counts, tables, operator
  <2>2. CASE PairRefused(c)
    BY <2>2, EndDoes, ReplyDoes, SMTT(30) DEF PairRefused, At, Usable, Refuse, Saved, Spent, NoFault, registry, counts, tables, operator
  <2>3. CASE Pair(c)
    BY <2>3, PairDoes, ReplyDoes, EndDoes, SMTT(30) DEF tables, operator
  <2>4. CASE Authenticate(c)
    BY <2>4, EndDoes, GotoDoes, ReplyDoes, SMTT(30) DEF Authenticate, At, Valid, Refuse, registry, counts, tables, operator
  <2>5. CASE Answer(c)
    BY <2>5, EndDoes, GotoDoes, ReplyDoes, SMTT(30) DEF Answer, At, Left, registry, counts, tables, operator
  <2>6. CASE TokenUnsaved(c)
    BY <2>6, EndDoes, ReplyDoes, SMTT(30) DEF TokenUnsaved, At, Usable, Refuse, SaveFails, Spent, Unsaved, registry, counts, tables, operator
  <2>7. CASE Online(c)
    BY <2>7, EndDoes, GotoDoes, SMTT(30) DEF Online, At, With, Saved, SaveFails, NoFault, Unsaved, registry, counts, tables, operator
  <2>8. CASE Insert(c)
    BY <2>8, GotoDoes, SMTT(30) DEF Insert, At, registry, counts, tables, operator
  <2>9. CASE Attach(c)
    BY <2>9, GotoDoes, SMTT(30) DEF Attach, At, registry, counts, tables, operator
  <2>10. CASE Look(c)
    BY <2>10, GotoDoes, SMTT(30) DEF Look, At, registry, counts, tables, operator
  <2>11. CASE Listen(c)
    BY <2>11, GotoDoes, SMTT(30) DEF Listen, At, registry, counts, tables, operator
  <2>12. CASE Offline(c)
    <3>1. UNCHANGED machine /\ conn[c].at = "offline" /\ (Goto(c, "remove") \/ End(c))
      BY <2>12 DEF Offline, At
    <3> QED BY <3>1, EndDoes, GotoDoes, SMTT(40)
  <2>13. CASE Remove(c)
    BY <2>13, GotoDoes, SMTT(30) DEF Remove, At, registry, counts, tables, operator
  <2>14. CASE Detach(c)
    BY <2>14, EndDoes, SMTT(30) DEF Detach, At, registry, counts, tables, operator
  <2>15. CASE Closed(c)
    BY <2>15, ClosedDoes, SMTT(30) DEF registry, tables, operator
  <2> QED BY <1>4, <2>1, <2>2, <2>3, <2>4, <2>5, <2>6, <2>7, <2>8, <2>9, <2>10, <2>11, <2>12, <2>13, <2>14, <2>15 DEF TaskStep, Handshake, Serve
<1>5. CASE UNCHANGED vars
  BY <1>5 DEF vars, registry, tables, operator, counts
<1> QED BY <1>1, <1>2, <1>3, <1>4, <1>5 DEF Next, MachineStep, TaskStep

\* A token that paired is known as used, and so pairs no more.
LEMMA TokenStep ==
  ASSUME TypeOK, UsedInv, TokenOnce, [Next]_vars
  PROVE  TokenOnce'
<1> USE LinkAssumption DEF UsedInv, TokenOnce, TypeOK, TasksOK, RegistryOK, Registry
<1>1. CASE Operator
  <2>1. CASE Revoke
    BY <2>1, SMTT(30) DEF Revoke, Saved, SaveFails, With, NoFault, Unsaved, registry, counts, tables, operator
  <2>2. ASSUME NEW k \in Tokens, IssueToken(k) PROVE TokenOnce'
    BY <2>2, SMTT(30) DEF IssueToken, registry, counts, tables, operator
  <2>3. ASSUME NEW k \in Tokens, TokenExpires(k) PROVE TokenOnce'
    BY <2>3, SMTT(30) DEF TokenExpires, registry, counts, tables, operator
  <2> QED BY <1>1, <2>1, <2>2, <2>3 DEF Operator
<1>2. CASE Restart
  BY <1>2, SMTT(30) DEF Restart, Fault, Free, Task, registry, counts, tables, operator
<1>3. ASSUME NEW m \in Machines, MachineStep(m) PROVE TokenOnce'
  BY <1>3 DEF MachineStep, Client, Start, Dial, Accepted, Refused, Retry, LinkEnds, NotStored,
     LinkLost, NodeCrash, registry, operator
<1>4. ASSUME NEW c \in Conns, TaskStep(c) PROVE TokenOnce'
  <2>1. CASE PairRefused(c)
    BY <2>1, EndDoes, ReplyDoes, SMTT(30) DEF PairRefused, At, Usable, Refuse, Saved, Spent, NoFault, registry, counts, tables, operator
  <2>2. CASE Pair(c)
    <3>1. \A p \in paired : p.token # conn[c].token
      BY <2>2, PairDoes
    <3>2. CASE paired' = paired
      BY <3>2
    <3>3. CASE paired' = paired \cup {[token |-> conn[c].token, secret |-> issued + 1]}
      BY <3>1, <3>3
    <3> QED BY <2>2, <3>2, <3>3, PairDoes
  <2>3. CASE TokenUnsaved(c)
    BY <2>3, EndDoes, ReplyDoes, SMTT(30) DEF TokenUnsaved, At, Usable, Refuse, SaveFails, Spent, Unsaved, registry, counts, tables, operator
  <2>4. CASE Online(c)
    BY <2>4, EndDoes, GotoDoes, SMTT(30) DEF Online, At, With, Saved, SaveFails, NoFault, Unsaved, registry, counts, tables, operator
  <2>5. CASE Offline(c)
    BY <2>5, EndDoes, GotoDoes, SMTT(30) DEF Offline, At, With, Saved, SaveFails, NoFault, Unsaved, registry, counts, tables, operator
  <2>9. CASE TokenRefused(c) \/ Authenticate(c) \/ Answer(c) \/ Insert(c) \/ Attach(c) \/ Look(c)
             \/ Listen(c) \/ Remove(c) \/ Detach(c) \/ Closed(c)
    BY <2>9 DEF TokenRefused, Authenticate, Answer, Insert, Attach, Look, Listen, Remove, Detach, Closed,
       registry, operator
  <2> QED BY <1>4, <2>1, <2>2, <2>3, <2>4, <2>5, <2>9 DEF TaskStep, Handshake, Serve
<1>5. CASE UNCHANGED vars
  BY <1>5 DEF vars, registry, tables, operator, counts
<1> QED BY <1>1, <1>2, <1>3, <1>4, <1>5 DEF Next, MachineStep, TaskStep

\* A task leaves the tables before it ends.
LEMMA TablesStep ==
  ASSUME TypeOK, TablesAreServed, [Next]_vars
  PROVE  TablesAreServed'
<1> USE LinkAssumption DEF TablesAreServed, TypeOK, MachinesOK, TasksOK, TablesOK, CountsOK, Places, Served
<1>1. CASE Operator
  <2>1. CASE Revoke
    BY <2>1, SMTT(30) DEF Revoke, Saved, SaveFails, With, NoFault, Unsaved, registry, counts, tables, operator
  <2>2. ASSUME NEW k \in Tokens, IssueToken(k) PROVE TablesAreServed'
    BY <2>2, SMTT(30) DEF IssueToken, registry, counts, tables, operator
  <2>3. ASSUME NEW k \in Tokens, TokenExpires(k) PROVE TablesAreServed'
    BY <2>3, SMTT(30) DEF TokenExpires, registry, counts, tables, operator
  <2> QED BY <1>1, <2>1, <2>2, <2>3 DEF Operator
<1>2. CASE Restart
  BY <1>2, SMTT(30) DEF Restart, Fault, Free, Task, registry, counts, tables, operator
<1>3. ASSUME NEW m \in Machines, MachineStep(m) PROVE TablesAreServed'
  <2>1. CASE Start(m)
    BY <2>1, SMTT(30) DEF Start, Machine, registry, counts, tables, operator
  <2>2. CASE Dial(m)
    BY <2>2, SMTT(30) DEF Dial, At, Left, Task, Places, registry, counts, tables, operator
  <2>3. CASE Accepted(m)
    BY <2>3, UpDoes, SMTT(30) DEF Accepted, Told, registry, counts, tables, operator
  <2>4. CASE Refused(m)
    BY <2>4, LeavesDoes, SMTT(30) DEF Refused, Told, registry, counts, tables, operator
  <2>5. CASE Retry(m)
    BY <2>5, LeavesDoes, SMTT(30) DEF Retry, Told, At, registry, counts, tables, operator
  <2>6. CASE LinkEnds(m)
    BY <2>6, LeavesDoes, SMTT(30) DEF LinkEnds, At, registry, counts, tables, operator
  <2>7. CASE NotStored(m)
    BY <2>7, LeavesDoes, SMTT(30) DEF NotStored, Told, Unsaved, registry, counts, tables, operator
  <2>8. CASE LinkLost(m)
    BY <2>8, LeavesDoes, SMTT(30) DEF LinkLost, Fault, registry, counts, tables, operator
  <2>9. CASE NodeCrash(m)
    BY <2>9, LeavesDoes, SMTT(30) DEF NodeCrash, Fault, registry, counts, tables, operator
  <2> QED BY <1>3, <2>1, <2>2, <2>3, <2>4, <2>5, <2>6, <2>7, <2>8, <2>9 DEF MachineStep, Client
<1>4. ASSUME NEW c \in Conns, TaskStep(c) PROVE TablesAreServed'
  <2>1. CASE TokenRefused(c)
    BY <2>1, EndDoes, ReplyDoes, SMTT(30) DEF TokenRefused, At, Usable, Refuse, registry, counts, tables, operator
  <2>2. CASE PairRefused(c)
    BY <2>2, EndDoes, ReplyDoes, SMTT(30) DEF PairRefused, At, Usable, Refuse, Saved, Spent, NoFault, registry, counts, tables, operator
  <2>3. CASE Pair(c)
    BY <2>3, PairDoes, ReplyDoes, EndDoes, SMTT(60) DEF tables, operator
  <2>4. CASE Authenticate(c)
    BY <2>4, EndDoes, GotoDoes, ReplyDoes, SMTT(30) DEF Authenticate, At, Valid, Refuse, registry, counts, tables, operator
  <2>5. CASE Answer(c)
    BY <2>5, EndDoes, GotoDoes, ReplyDoes, SMTT(120) DEF Answer, At, Left, registry, counts, tables, operator
  <2>6. CASE TokenUnsaved(c)
    BY <2>6, EndDoes, ReplyDoes, SMTT(30) DEF TokenUnsaved, At, Usable, Refuse, SaveFails, Spent, Unsaved, registry, counts, tables, operator
  <2>7. CASE Online(c)
    BY <2>7, EndDoes, GotoDoes, SMTT(30) DEF Online, At, With, Saved, SaveFails, NoFault, Unsaved, registry, counts, tables, operator
  <2>8. CASE Insert(c)
    BY <2>8, GotoDoes, SMTT(30) DEF Insert, At, registry, counts, tables, operator
  <2>9. CASE Attach(c)
    BY <2>9, GotoDoes, SMTT(30) DEF Attach, At, registry, counts, tables, operator
  <2>10. CASE Look(c)
    BY <2>10, GotoDoes, SMTT(30) DEF Look, At, registry, counts, tables, operator
  <2>11. CASE Listen(c)
    BY <2>11, GotoDoes, SMTT(30) DEF Listen, At, registry, counts, tables, operator
  <2>12. CASE Offline(c)
    BY <2>12, EndDoes, GotoDoes, SMTT(30) DEF Offline, At, With, Saved, SaveFails, NoFault, Unsaved, registry, counts, tables, operator
  <2>13. CASE Remove(c)
    BY <2>13, GotoDoes, SMTT(30) DEF Remove, At, registry, counts, tables, operator
  <2>14. CASE Detach(c)
    BY <2>14, EndDoes, SMTT(30) DEF Detach, At, registry, counts, tables, operator
  <2>15. CASE Closed(c)
    BY <2>15, ClosedDoes, SMTT(30) DEF registry, tables, operator
  <2> QED BY <1>4, <2>1, <2>2, <2>3, <2>4, <2>5, <2>6, <2>7, <2>8, <2>9, <2>10, <2>11, <2>12, <2>13, <2>14, <2>15 DEF TaskStep, Handshake, Serve
<1>5. CASE UNCHANGED vars
  BY <1>5 DEF vars, registry, tables, operator, counts
<1> QED BY <1>1, <1>2, <1>3, <1>4, <1>5 DEF Next, MachineStep, TaskStep

\* An accepted machine comes with its credential only, and that is refused for a cause.
LEMMA CauseStep ==
  ASSUME TypeOK, SecretInv, StatusInv, HelloInv, CauseInv, [Next]_vars
  PROVE  CauseInv'
<1> USE LinkAssumption DEF CauseInv, Cause, HelloInv, TypeOK, MachinesOK, TasksOK, RegistryOK, Registry, OperatorOK, Places, Served
<1>1. CASE Operator
  <2>1. CASE Revoke
    BY <2>1, SMTT(30) DEF Revoke, Saved, SaveFails, With, NoFault, Unsaved, registry, counts, tables, operator
  <2>2. ASSUME NEW k \in Tokens, IssueToken(k) PROVE CauseInv'
    BY <2>2, SMTT(30) DEF IssueToken, registry, counts, tables, operator
  <2>3. ASSUME NEW k \in Tokens, TokenExpires(k) PROVE CauseInv'
    BY <2>3, SMTT(30) DEF TokenExpires, registry, counts, tables, operator
  <2> QED BY <1>1, <2>1, <2>2, <2>3 DEF Operator
<1>2. CASE Restart
  BY <1>2, SMTT(30) DEF Restart, Fault, Free, Task, registry, counts, tables, operator
<1>3. ASSUME NEW m \in Machines, MachineStep(m) PROVE CauseInv'
  <2>1. CASE Start(m)
    BY <2>1, SMTT(30) DEF Start, Machine, registry, counts, tables, operator
  <2>2. CASE Dial(m)
    BY <2>2, SMTT(30) DEF Dial, At, Left, Task, Places, registry, counts, tables, operator
  <2>3. CASE Accepted(m)
    BY <2>3, UpDoes, SMTT(30) DEF Accepted, Told, registry, counts, tables, operator
  <2>4. CASE Refused(m)
    BY <2>4, LeavesDoes, SMTT(30) DEF Refused, Told, registry, counts, tables, operator
  <2>5. CASE Retry(m)
    BY <2>5, LeavesDoes, SMTT(30) DEF Retry, Told, At, registry, counts, tables, operator
  <2>6. CASE LinkEnds(m)
    BY <2>6, LeavesDoes, SMTT(30) DEF LinkEnds, At, registry, counts, tables, operator
  <2>7. CASE NotStored(m)
    BY <2>7, LeavesDoes, SMTT(30) DEF NotStored, Told, Unsaved, registry, counts, tables, operator
  <2>8. CASE LinkLost(m)
    BY <2>8, LeavesDoes, SMTT(30) DEF LinkLost, Fault, registry, counts, tables, operator
  <2>9. CASE NodeCrash(m)
    BY <2>9, LeavesDoes, SMTT(30) DEF NodeCrash, Fault, registry, counts, tables, operator
  <2> QED BY <1>3, <2>1, <2>2, <2>3, <2>4, <2>5, <2>6, <2>7, <2>8, <2>9 DEF MachineStep, Client
<1>4. ASSUME NEW c \in Conns, TaskStep(c) PROVE CauseInv'
  <2>1. CASE TokenRefused(c)
    <3>1. /\ Reply(c, "fatal") /\ conn[c].at = "hello" /\ conn[c].token # NoToken
          /\ UNCHANGED <<issued, revoked>>
      BY <2>1 DEF TokenRefused, At, Refuse, registry, operator
    <3>2. ASSUME NEW m \in Machines PROVE Cause(m)'
      <4>1. CASE machine[m].conn # c
        BY <3>1, <4>1, ReplyDoes
      <4>2. CASE machine[m].conn = c
        BY <3>1, <4>2, ReplyDoes
      <4> QED BY <4>1, <4>2
    <3> QED BY <3>2
  <2>2. CASE PairRefused(c)
    <3>1. /\ Reply(c, "fatal") /\ conn[c].at = "hello" /\ conn[c].token # NoToken
          /\ UNCHANGED <<issued, revoked>>
      BY <2>2 DEF PairRefused, At, Refuse, registry, operator
    <3>2. ASSUME NEW m \in Machines PROVE Cause(m)'
      <4>1. CASE machine[m].conn # c
        BY <3>1, <4>1, ReplyDoes
      <4>2. CASE machine[m].conn = c
        BY <3>1, <4>2, ReplyDoes
      <4> QED BY <4>1, <4>2
    <3> QED BY <3>2
  <2>3. CASE Pair(c)
    <3>1. issued' = issued + 1 /\ issued \in Nat /\ UNCHANGED revoked
      BY <2>3, PairDoes DEF operator
    <3>2. ASSUME NEW m \in Machines PROVE Cause(m)'
      <4>1. CASE machine' = machine
        BY <3>1, <4>1
      <4>2. CASE Reply(c, "later")
        BY <3>1, <4>2, ReplyDoes
      <4> QED BY <2>3, <4>1, <4>2, PairDoes
    <3> QED BY <3>2
  <2>4. CASE Authenticate(c)
    <3>1. UNCHANGED <<issued, revoked>> /\ conn[c].at = "hello" /\ conn[c].token = NoToken
          /\ \/ UNCHANGED machine
             \/ /\ Reply(c, "fatal")
                /\ conn[c].secret # mem.secret \/ mem.status = "revoked"
      BY <2>4 DEF Authenticate, At, Valid, Refuse, registry, operator
    <3>2. ASSUME NEW m \in Machines PROVE Cause(m)'
      <4>1. CASE UNCHANGED machine
        BY <3>1, <4>1
      <4>2. CASE machine[m].conn # c /\ Reply(c, "fatal")
        BY <3>1, <4>2, ReplyDoes
      <4>3. CASE machine[m].conn = c /\ Reply(c, "fatal") /\ ~UNCHANGED machine
        <5>1. machine[m].at = "wait" /\ machine[m].met => conn[c].secret = machine[m].cred
          BY <3>1, <4>3
        <5>2. mem.secret \in Nat /\ disk.secret \in Nat /\ machine[m].cred \in Nat
              /\ machine[m].cred <= disk.secret /\ disk.secret <= mem.secret /\ mem.secret <= issued
          BY DEF SecretInv
        <5>3. machine[m].at = "wait" /\ machine[m].met => revoked \/ machine[m].cred # mem.secret
          BY <3>1, <4>3, <5>1 DEF StatusInv
        <5>4. machine[m].at = "wait" /\ machine[m].met => revoked \/ machine[m].cred < issued
          BY <5>2, <5>3, SMTT(40)
        <5>5. /\ machine'[m].at = machine[m].at /\ machine'[m].token = machine[m].token
              /\ machine'[m].cred = machine[m].cred /\ machine'[m].met = machine[m].met
              /\ machine[m].at # "idle"
          BY <4>3, ReplyDoes
        <5> QED BY <3>1, <5>4, <5>5
      <4> QED BY <3>1, <4>1, <4>2, <4>3
    <3> QED BY <3>2
  <2>5. CASE Answer(c)
    BY <2>5, EndDoes, GotoDoes, ReplyDoes, SMTT(30) DEF Answer, At, Left, registry, counts, tables, operator
  <2>6. CASE TokenUnsaved(c)
    BY <2>6, EndDoes, ReplyDoes, SMTT(30) DEF TokenUnsaved, At, Usable, Refuse, SaveFails, Spent, Unsaved, registry, counts, tables, operator
  <2>7. CASE Online(c)
    BY <2>7, EndDoes, GotoDoes, SMTT(30) DEF Online, At, With, Saved, SaveFails, NoFault, Unsaved, registry, counts, tables, operator
  <2>8. CASE Insert(c)
    BY <2>8, GotoDoes, SMTT(30) DEF Insert, At, registry, counts, tables, operator
  <2>9. CASE Attach(c)
    BY <2>9, GotoDoes, SMTT(30) DEF Attach, At, registry, counts, tables, operator
  <2>10. CASE Look(c)
    BY <2>10, GotoDoes, SMTT(30) DEF Look, At, registry, counts, tables, operator
  <2>11. CASE Listen(c)
    BY <2>11, GotoDoes, SMTT(30) DEF Listen, At, registry, counts, tables, operator
  <2>12. CASE Offline(c)
    BY <2>12, EndDoes, GotoDoes, SMTT(30) DEF Offline, At, With, Saved, SaveFails, NoFault, Unsaved, registry, counts, tables, operator
  <2>13. CASE Remove(c)
    BY <2>13, GotoDoes, SMTT(30) DEF Remove, At, registry, counts, tables, operator
  <2>14. CASE Detach(c)
    BY <2>14, EndDoes, SMTT(30) DEF Detach, At, registry, counts, tables, operator
  <2>15. CASE Closed(c)
    BY <2>15, ClosedDoes, SMTT(30) DEF registry, tables, operator
  <2> QED BY <1>4, <2>1, <2>2, <2>3, <2>4, <2>5, <2>6, <2>7, <2>8, <2>9, <2>10, <2>11, <2>12, <2>13, <2>14, <2>15 DEF TaskStep, Handshake, Serve
<1>5. CASE UNCHANGED vars
  BY <1>5 DEF vars, registry, tables, operator, counts
<1> QED BY <1>1, <1>2, <1>3, <1>4, <1>5 DEF Next, MachineStep, TaskStep

\* Only a refusal stops an accepted machine.
LEMMA ExitsStep ==
  ASSUME TypeOK, CauseInv, ExitsForCause, [Next]_vars
  PROVE  ExitsForCause'
<1> USE LinkAssumption DEF CauseInv, Cause, ExitsForCause, TypeOK, MachinesOK, TasksOK, RegistryOK, Registry, OperatorOK
<1>1. CASE Operator
  <2>1. CASE Revoke
    BY <2>1, SMTT(30) DEF Revoke, Saved, SaveFails, With, NoFault, Unsaved, registry, counts, tables, operator
  <2>2. ASSUME NEW k \in Tokens, IssueToken(k) PROVE ExitsForCause'
    BY <2>2, SMTT(30) DEF IssueToken, registry, counts, tables, operator
  <2>3. ASSUME NEW k \in Tokens, TokenExpires(k) PROVE ExitsForCause'
    BY <2>3, SMTT(30) DEF TokenExpires, registry, counts, tables, operator
  <2> QED BY <1>1, <2>1, <2>2, <2>3 DEF Operator
<1>2. CASE Restart
  BY <1>2, SMTT(30) DEF Restart, Fault, Free, Task, registry, counts, tables, operator
<1>3. ASSUME NEW m \in Machines, MachineStep(m) PROVE ExitsForCause'
  <2>1. CASE Start(m)
    BY <2>1, SMTT(30) DEF Start, Machine, registry, counts, tables, operator
  <2>2. CASE Dial(m)
    BY <2>2, SMTT(30) DEF Dial, At, Left, Task, Places, registry, counts, tables, operator
  <2>3. CASE Accepted(m)
    BY <2>3, UpDoes, SMTT(30) DEF Accepted, Told, registry, counts, tables, operator
  <2>4. CASE Refused(m)
    BY <2>4, LeavesDoes, SMTT(30) DEF Refused, Told, registry, counts, tables, operator
  <2>5. CASE Retry(m)
    BY <2>5, LeavesDoes, SMTT(30) DEF Retry, Told, At, registry, counts, tables, operator
  <2>6. CASE LinkEnds(m)
    BY <2>6, LeavesDoes, SMTT(30) DEF LinkEnds, At, registry, counts, tables, operator
  <2>7. CASE NotStored(m)
    BY <2>7, LeavesDoes, SMTT(30) DEF NotStored, Told, Unsaved, registry, counts, tables, operator
  <2>8. CASE LinkLost(m)
    BY <2>8, LeavesDoes, SMTT(30) DEF LinkLost, Fault, registry, counts, tables, operator
  <2>9. CASE NodeCrash(m)
    BY <2>9, LeavesDoes, SMTT(30) DEF NodeCrash, Fault, registry, counts, tables, operator
  <2> QED BY <1>3, <2>1, <2>2, <2>3, <2>4, <2>5, <2>6, <2>7, <2>8, <2>9 DEF MachineStep, Client
<1>4. ASSUME NEW c \in Conns, TaskStep(c) PROVE ExitsForCause'
  <2>1. CASE TokenRefused(c)
    BY <2>1, EndDoes, ReplyDoes, SMTT(30) DEF TokenRefused, At, Usable, Refuse, registry, counts, tables, operator
  <2>2. CASE PairRefused(c)
    BY <2>2, EndDoes, ReplyDoes, SMTT(30) DEF PairRefused, At, Usable, Refuse, Saved, Spent, NoFault, registry, counts, tables, operator
  <2>3. CASE Pair(c)
    BY <2>3, PairDoes, ReplyDoes, EndDoes, SMTT(30) DEF tables, operator
  <2>4. CASE Authenticate(c)
    BY <2>4, EndDoes, GotoDoes, ReplyDoes, SMTT(30) DEF Authenticate, At, Valid, Refuse, registry, counts, tables, operator
  <2>5. CASE Answer(c)
    BY <2>5, EndDoes, GotoDoes, ReplyDoes, SMTT(30) DEF Answer, At, Left, registry, counts, tables, operator
  <2>6. CASE TokenUnsaved(c)
    BY <2>6, EndDoes, ReplyDoes, SMTT(30) DEF TokenUnsaved, At, Usable, Refuse, SaveFails, Spent, Unsaved, registry, counts, tables, operator
  <2>7. CASE Online(c)
    BY <2>7, EndDoes, GotoDoes, SMTT(30) DEF Online, At, With, Saved, SaveFails, NoFault, Unsaved, registry, counts, tables, operator
  <2>8. CASE Insert(c)
    BY <2>8, GotoDoes, SMTT(30) DEF Insert, At, registry, counts, tables, operator
  <2>9. CASE Attach(c)
    BY <2>9, GotoDoes, SMTT(30) DEF Attach, At, registry, counts, tables, operator
  <2>10. CASE Look(c)
    BY <2>10, GotoDoes, SMTT(30) DEF Look, At, registry, counts, tables, operator
  <2>11. CASE Listen(c)
    BY <2>11, GotoDoes, SMTT(30) DEF Listen, At, registry, counts, tables, operator
  <2>12. CASE Offline(c)
    BY <2>12, EndDoes, GotoDoes, SMTT(30) DEF Offline, At, With, Saved, SaveFails, NoFault, Unsaved, registry, counts, tables, operator
  <2>13. CASE Remove(c)
    BY <2>13, GotoDoes, SMTT(30) DEF Remove, At, registry, counts, tables, operator
  <2>14. CASE Detach(c)
    BY <2>14, EndDoes, SMTT(30) DEF Detach, At, registry, counts, tables, operator
  <2>15. CASE Closed(c)
    BY <2>15, ClosedDoes, SMTT(30) DEF registry, tables, operator
  <2> QED BY <1>4, <2>1, <2>2, <2>3, <2>4, <2>5, <2>6, <2>7, <2>8, <2>9, <2>10, <2>11, <2>12, <2>13, <2>14, <2>15 DEF TaskStep, Handshake, Serve
<1>5. CASE UNCHANGED vars
  BY <1>5 DEF vars, registry, tables, operator, counts
<1> QED BY <1>1, <1>2, <1>3, <1>4, <1>5 DEF Next, MachineStep, TaskStep

-----------------------------------------------------------------------------
(* The theorems *)

\* What the registry and the tables start with.
LEMMA InitInv == Init => Inv
<1> SUFFICES ASSUME Init PROVE Inv
  OBVIOUS
<1>1. TypeOK
  <2>1. MachinesOK /\ TasksOK
    BY LinkAssumption DEF Init, Machine, Free, Task, MachinesOK, TasksOK, Places, Served
  <2>2. RegistryOK
    BY DEF Init, RegistryOK, Registry, Statuses
  <2>3. TablesOK
    BY DEF Init, TablesOK
  <2>4. OperatorOK
    BY DEF Init, OperatorOK
  <2>5. CountsOK
    BY LinkAssumption DEF Init, CountsOK
  <2> QED BY <2>1, <2>2, <2>3, <2>4, <2>5 DEF TypeOK
<1>2. UsedInv /\ SecretInv /\ StatusInv /\ HelloInv /\ CauseInv
  BY LinkAssumption DEF Init, Machine, Free, Task, UsedInv, SecretInv, StatusInv, HelloInv, CauseInv, Cause
<1>3. TokenOnce /\ TablesAreServed /\ ExitsForCause
  BY DEF Init, Machine, TokenOnce, TablesAreServed, ExitsForCause
<1> QED BY <1>1, <1>2, <1>3 DEF Inv

\* The invariant is inductive.
LEMMA NextInv == Inv /\ [Next]_vars => Inv'
BY TypeStep, UsedStep, SecretStep, StatusStep, HelloStep, TokenStep, TablesStep, CauseStep, ExitsStep
   DEF Inv

\* Every reachable state satisfies it.
THEOREM InvHolds == Spec => []Inv
BY InitInv, NextInv, PTL DEF Spec

\* Machines, tasks, registry and tables hold values of their kinds (LinkClient,
\* NodeRegistry, NodeLinkServer).
THEOREM TypeCorrect == Spec => []TypeOK
<1>1. Inv => TypeOK
  BY DEF Inv
<1> QED BY <1>1, InvHolds, PTL

\* A join token is good for one credential, also when a save of the registry fails or the
\* control plane dies in between (consume_join_token, pair).
THEOREM TokensPairOnce == Spec => []TokenOnce
<1>1. Inv => TokenOnce
  BY DEF Inv
<1> QED BY <1>1, InvHolds, PTL

\* A credential that a node has stored is known to the registry's file, or was replaced by
\* a later one (pair, LinkClient::attempt).
THEOREM CredentialsAreSaved == Spec => []CredentialOnDisk
<1>1. Inv => CredentialOnDisk
  BY DEF Inv, SecretInv, CredentialOnDisk
<1> QED BY <1>1, InvHolds, PTL

\* A machine that was accepted stops for good only when the node was revoked or paired
\* anew (authenticate, LinkClient::attempt).
THEOREM AcceptedStay == Spec => []ExitsForCause
<1>1. Inv => ExitsForCause
  BY DEF Inv
<1> QED BY <1>1, InvHolds, PTL

\* As long as every save succeeds, the node is reached by connections whose task has not
\* ended (handle_connection).
THEOREM TablesHoldServed == Spec => []TablesAreServed
<1>1. Inv => TablesAreServed
  BY DEF Inv
<1> QED BY <1>1, InvHolds, PTL

-----------------------------------------------------------------------------
(* The attempt to connect *)

\* The task of the connection that a machine holds.
Waits(m) == machine[m].at = "wait"
Desk(m)  == conn[machine[m].conn]
Asked    == {"hello", "ack"}

\* A waiting machine without an answer has a task that will give one, or its connection
\* has ended; one that was answered, or is in, is past that; and no two machines hold the
\* same connection.
Attended(m) == Waits(m) /\ machine[m].reply = "none" => Desk(m).at \in {"free", "hello", "ack"}
Answered(m) == (Waits(m) /\ machine[m].reply # "none") \/ machine[m].at = "up" => Desk(m).at \notin Asked
Alone(m)    == \A n \in Machines \ {m} : machine[m].conn = machine[n].conn => machine[m].conn = NoConn
WaitInv     == \A m \in Machines : Attended(m) /\ Answered(m) /\ Alone(m)

\* The token and the secret of a handshake are a pairing of the machine that waits for it.
OfMachine(m) == Waits(m) /\ machine[m].reply = "none" /\ Desk(m).at \in Asked => Desk(m).token = machine[m].token
OfTask(c)    == conn[c].at = "ack" /\ conn[c].token # NoToken => [token |-> conn[c].token, secret |-> conn[c].secret] \in paired
OfAnswer(m)  == Waits(m) /\ machine[m].reply = "ok" /\ machine[m].token # NoToken
                  => [token |-> machine[m].token, secret |-> machine[m].offer] \in paired
OwnInv == (\A m \in Machines : OfMachine(m) /\ OfAnswer(m)) /\ (\A c \in Conns : OfTask(c))

\* What a step does to the machines and the tasks: a machine starts or leaves, dials or is
\* let in, a task takes a step of the handshake or another, or the control plane restarts.
Apart(m) ==
  /\ \A n \in Machines \ {m} : machine'[n] = machine[n]
  /\ machine'[m].at \in {"idle", "off", "down"} /\ machine'[m].conn = NoConn
  /\ machine'[m].cred = machine[m].cred
OnlyTask(c) == UNCHANGED machine /\ (\A d \in Conns \ {c} : conn'[d] = conn[d])
Refuses(c)  == conn[c].at = "hello" /\ (Refuse(c, "fatal") \/ Refuse(c, "later"))
Pairs(c) ==
  /\ OnlyTask(c) /\ conn[c].at = "hello" /\ conn'[c].at = "ack" /\ conn'[c].token = conn[c].token
  /\ paired' = paired \cup {[token |-> conn[c].token, secret |-> conn'[c].secret]}
Knows(c) ==
  /\ OnlyTask(c) /\ conn[c].at = "hello" /\ conn'[c].at = "ack"
  /\ conn[c].token = NoToken /\ conn'[c].token = NoToken
Answers(c) == conn[c].at = "ack" /\ Reply(c, "ok") /\ Goto(c, "online")
Drops(c)   == conn[c].at = "ack" /\ Left(c) /\ OnlyTask(c) /\ conn'[c].at = "free"
Goes(c)    == OnlyTask(c) /\ conn[c].at \notin Asked \cup {"free"} /\ conn'[c].at \notin Asked
Falls      == UNCHANGED machine /\ conn' = [c \in Conns |-> Free]

Moves ==
  \/ UNCHANGED <<machine, conn, paired>>
  \/ Falls /\ paired' = paired
  \/ \E m \in Machines : (Apart(m) \/ Accepted(m)) /\ UNCHANGED <<conn, paired>>
  \/ \E m \in Machines : Dial(m) /\ paired' = paired
  \/ \E c \in Conns : Pairs(c)
  \/ \E c \in Conns : (Refuses(c) \/ Knows(c) \/ Answers(c) \/ Drops(c) \/ Goes(c)) /\ paired' = paired

\* The steps of a machine are such.
LEMMA MachineMoves ==
  ASSUME TypeOK, NEW m \in Machines, MachineStep(m)
  PROVE  Moves
<1>0. UNCHANGED <<paired>>
  BY DEF MachineStep, Client, Start, Dial, Accepted, Refused, Retry, LinkEnds, NotStored, LinkLost,
         NodeCrash, registry
<1>1. ASSUME NEW place \in {"off", "idle", "down"}, Leaves(m, place) PROVE Apart(m)
  BY <1>1, LeavesDoes DEF Apart
<1>2. CASE Start(m)
  <2>1. PICK k \in tokens \cup {NoToken} :
          machine' = [machine EXCEPT ![m] = Machine("idle", k, machine[m].cred)]
    BY <1>2 DEF Start
  <2>2. Apart(m)
    BY <2>1 DEF Apart, Machine, TypeOK, MachinesOK
  <2> QED BY <1>0, <1>2, <2>2 DEF Moves, Start
<1>3. CASE Dial(m) \/ Accepted(m)
  BY <1>0, <1>3 DEF Moves, Accepted
<1>4. CASE Refused(m) \/ NotStored(m)
  BY <1>0, <1>1, <1>4 DEF Moves, Refused, NotStored
<1>5. CASE Retry(m) \/ LinkEnds(m) \/ LinkLost(m)
  BY <1>0, <1>1, <1>5 DEF Moves, Retry, LinkEnds, LinkLost
<1>6. CASE NodeCrash(m)
  BY <1>0, <1>1, <1>6 DEF Moves, NodeCrash
<1> QED BY <1>2, <1>3, <1>4, <1>5, <1>6 DEF MachineStep, Client

\* The steps of a task are such.
LEMMA TaskMoves ==
  ASSUME TypeOK, NEW c \in Conns, TaskStep(c)
  PROVE  Moves
<1>1. CASE Pair(c)
  <2>1. CASE paired' = paired /\ Refuse(c, "later")
    BY <1>1, <2>1 DEF Moves, Refuses, Pair, At
  <2>2. CASE UNCHANGED machine /\ conn' = [conn EXCEPT ![c] = Task("ack", conn[c].token, issued + 1)]
             /\ paired' = paired \cup {[token |-> conn[c].token, secret |-> issued + 1]}
    <3>1. /\ conn'[c].at = "ack" /\ conn'[c].token = conn[c].token /\ conn'[c].secret = issued + 1
          /\ \A d \in Conns \ {c} : conn'[d] = conn[d]
      BY <2>2 DEF Task, TypeOK, TasksOK
    <3>2. conn[c].at = "hello"
      BY <1>1 DEF Pair, At
    <3> QED BY <2>2, <3>1, <3>2 DEF Moves, Pairs, OnlyTask
  <2> QED BY <1>1, <2>1, <2>2 DEF Pair
<1> HIDE DEF Moves
<1>2. ASSUME Refuses(c) \/ Knows(c) \/ Answers(c) \/ Drops(c) \/ Goes(c), paired' = paired PROVE Moves
  BY <1>2 DEF Moves
<1>3. CASE TokenRefused(c) \/ PairRefused(c) \/ TokenUnsaved(c)
  BY <1>2, <1>3 DEF TokenRefused, PairRefused, TokenUnsaved, At, Refuses, registry
<1>4. CASE Authenticate(c)
  <2>0. paired' = paired /\ conn[c].at = "hello" /\ conn[c].token = NoToken
    BY <1>4 DEF Authenticate, At, registry
  <2>1. CASE Goto(c, "ack") /\ UNCHANGED machine
    <3>1. "ack" \in Places
      BY DEF Places
    <3> QED BY <1>2, <2>0, <2>1, <3>1, GotoDoes DEF Knows, OnlyTask
  <2>2. CASE Refuse(c, "fatal")
    BY <1>2, <2>0, <2>2 DEF Refuses
  <2> QED BY <1>4, <2>1, <2>2 DEF Authenticate
<1>5. CASE Answer(c)
  <2>0. paired' = paired /\ conn[c].at = "ack"
    BY <1>5 DEF Answer, At, registry
  <2>1. CASE Reply(c, "ok") /\ Goto(c, "online")
    BY <1>2, <2>0, <2>1 DEF Answers
  <2>2. CASE Left(c) /\ End(c) /\ UNCHANGED machine
    BY <1>2, <2>0, <2>2, EndDoes DEF Drops, OnlyTask
  <2> QED BY <1>5, <2>1, <2>2 DEF Answer
<1>6. ASSUME UNCHANGED <<machine, paired>>, conn[c].at \notin Asked \cup {"free"},
             End(c) \/ (\E place \in Places \ Asked : Goto(c, place))
      PROVE  Moves
  BY <1>2, <1>6, EndDoes, GotoDoes DEF Goes, OnlyTask, Asked
<1>p. {"insert", "attach", "serve", "offline", "doze", "asleep", "remove", "detach"} \subseteq Places \ Asked
  BY DEF Places, Served, Asked
<1>7. CASE Online(c) \/ Offline(c)
  BY <1>6, <1>7, <1>p DEF Online, Offline, At, Asked
<1>8. CASE Insert(c) \/ Attach(c) \/ Remove(c) \/ Detach(c)
  BY <1>6, <1>8, <1>p DEF Insert, Attach, Remove, Detach, At, Asked, registry
<1>9. CASE Look(c) \/ Listen(c)
  BY <1>6, <1>9, <1>p DEF Look, Listen, At, Asked, registry
<1>10. CASE Closed(c)
  BY <1>2, <1>10, ClosedDoes DEF Goes, OnlyTask, Asked, registry
<1> QED BY <1>1, <1>3, <1>4, <1>5, <1>7, <1>8, <1>9, <1>10 DEF TaskStep, Handshake, Serve

\* Every step is such, or leaves machines and tasks alone.
LEMMA NextMoves ==
  ASSUME TypeOK, [Next]_vars
  PROVE  Moves
<1>1. CASE Operator
  BY <1>1 DEF Operator, Revoke, IssueToken, TokenExpires, Moves, registry
<1>2. CASE Restart
  BY <1>2 DEF Restart, Moves, Falls
<1>3. CASE UNCHANGED vars
  BY <1>3 DEF vars, registry, Moves
<1> QED BY <1>1, <1>2, <1>3, MachineMoves, TaskMoves DEF Next, MachineStep, TaskStep

\* Every such step leaves each machine its answer or somebody to give it.
LEMMA WaitStep ==
  ASSUME TypeOK, TypeOK', CauseInv, WaitInv, Moves
  PROVE  WaitInv'
<1> USE DEF WaitInv, Attended, Answered, Alone, Waits, Desk, Asked
<1>0. \A m \in Machines :
        /\ machine[m].at \in {"wait", "up"} <=> machine[m].conn # NoConn
        /\ machine[m].conn # NoConn => machine[m].conn \in Conns
  BY DEF TypeOK, MachinesOK
<1>1. CASE UNCHANGED <<machine, conn, paired>>
  BY <1>1
<1>2. CASE Falls
  BY <1>0, <1>2 DEF Falls, Free, Task
<1>3. ASSUME NEW m \in Machines, Apart(m), UNCHANGED conn PROVE WaitInv'
  BY <1>0, <1>3, SMTT(40) DEF Apart
<1>4. ASSUME NEW m \in Machines, Accepted(m), UNCHANGED conn PROVE WaitInv'
  BY <1>0, <1>4, UpDoes, SMTT(40) DEF Accepted, Told
<1>5. ASSUME NEW m \in Machines, Dial(m) PROVE WaitInv'
  <2>1. PICK c \in Conns :
          /\ At(c, "free") /\ Left(c)
          /\ machine' = [machine EXCEPT ![m].at = "wait", ![m].conn = c]
          /\ LET k == machine[m].token IN
             conn' = [conn EXCEPT ![c] = Task("hello", k, IF k = NoToken THEN machine[m].cred ELSE 0)]
    BY <1>5 DEF Dial
  <2>2. /\ machine'[m].at = "wait" /\ machine'[m].conn = c /\ machine'[m].reply = "none"
        /\ \A n \in Machines \ {m} : machine'[n] = machine[n] /\ machine[n].conn # c
    BY <1>5, <2>1 DEF TypeOK, MachinesOK, CauseInv, Cause, Left, Dial
  <2>3. conn'[c].at = "hello" /\ \A d \in Conns \ {c} : conn'[d] = conn[d]
    BY <2>1 DEF Task, TypeOK, TasksOK
  <2>4. c # NoConn
    BY LinkAssumption
  <2> QED BY <1>0, <2>2, <2>3, <2>4, SMTT(40)
<1>6. ASSUME NEW c \in Conns, OnlyTask(c), conn[c].at \notin {"free"} \cup Asked => conn'[c].at \notin Asked,
             conn[c].at \in Asked => conn'[c].at = "ack" \/ Left(c), conn[c].at # "free"
      PROVE  WaitInv'
  BY <1>0, <1>6, SMTT(40) DEF OnlyTask, Left
<1>7. ASSUME NEW c \in Conns, Pairs(c) \/ Knows(c) \/ Drops(c) \/ Goes(c) PROVE WaitInv'
  BY <1>6, <1>7 DEF Pairs, Knows, Drops, Goes
<1>8. ASSUME NEW c \in Conns, NEW r \in {"ok", "fatal", "later"}, Reply(c, r), conn[c].at \in Asked,
             conn'[c].at \notin Asked, \A d \in Conns \ {c} : conn'[d] = conn[d]
      PROVE  WaitInv'
  BY <1>0, <1>8, ReplyDoes, SMTT(40)
<1>9. ASSUME NEW c \in Conns, Refuses(c) \/ Answers(c) PROVE WaitInv'
  <2>1. "online" \in Places
    BY DEF Places
  <2> QED BY <1>8, <1>9, <2>1, EndDoes, GotoDoes DEF Refuses, Refuse, Answers
<1> QED BY <1>1, <1>2, <1>3, <1>4, <1>5, <1>7, <1>9 DEF Moves

\* Every such step keeps tokens and secrets with the machine they are for.
LEMMA OwnStep ==
  ASSUME TypeOK, TypeOK', CauseInv, WaitInv, OwnInv, Moves
  PROVE  OwnInv'
<1> USE DEF OwnInv, OfMachine, OfTask, OfAnswer, Waits, Desk, Asked
<1>0. \A m \in Machines :
        /\ machine[m].at \in {"wait", "up"} <=> machine[m].conn # NoConn
        /\ machine[m].conn # NoConn => machine[m].conn \in Conns
  BY DEF TypeOK, MachinesOK
<1>1. CASE UNCHANGED <<machine, conn, paired>>
  BY <1>1
<1>2. CASE Falls /\ paired' = paired
  BY <1>0, <1>2 DEF Falls, Free, Task
<1>3. ASSUME NEW m \in Machines, Apart(m), UNCHANGED <<conn, paired>> PROVE OwnInv'
  BY <1>0, <1>3, SMTT(40) DEF Apart
<1>4. ASSUME NEW m \in Machines, Accepted(m), UNCHANGED <<conn, paired>> PROVE OwnInv'
  BY <1>0, <1>4, UpDoes, SMTT(40) DEF Accepted, Told
<1>5. ASSUME NEW m \in Machines, Dial(m), paired' = paired PROVE OwnInv'
  <2>1. PICK c \in Conns :
          /\ At(c, "free") /\ Left(c)
          /\ machine' = [machine EXCEPT ![m].at = "wait", ![m].conn = c]
          /\ LET k == machine[m].token IN
             conn' = [conn EXCEPT ![c] = Task("hello", k, IF k = NoToken THEN machine[m].cred ELSE 0)]
    BY <1>5 DEF Dial
  <2>2. /\ machine'[m].at = "wait" /\ machine'[m].conn = c /\ machine'[m].reply = "none"
        /\ machine'[m].token = machine[m].token
        /\ \A n \in Machines \ {m} : machine'[n] = machine[n] /\ machine[n].conn # c
    BY <1>5, <2>1 DEF TypeOK, MachinesOK, CauseInv, Cause, Left, Dial
  <2>3. conn'[c].at = "hello" /\ conn'[c].token = machine[m].token
        /\ \A d \in Conns \ {c} : conn'[d] = conn[d]
    BY <2>1 DEF Task, TypeOK, TasksOK
  <2> QED BY <1>0, <1>5, <2>2, <2>3, SMTT(40)
<1>6. ASSUME NEW c \in Conns, Pairs(c) PROVE OwnInv'
  BY <1>0, <1>6, SMTT(40) DEF Pairs, OnlyTask
<1>7. ASSUME NEW c \in Conns, Knows(c) \/ Drops(c) \/ Goes(c), paired' = paired PROVE OwnInv'
  BY <1>0, <1>7, SMTT(40) DEF Knows, Drops, Goes, OnlyTask
<1>8. ASSUME NEW c \in Conns, Refuses(c), paired' = paired PROVE OwnInv'
  <2>1. PICK r \in {"fatal", "later"} : Reply(c, r) /\ End(c)
    BY <1>8 DEF Refuses, Refuse
  <2>2. conn'[c].at = "free" /\ \A d \in Conns \ {c} : conn'[d] = conn[d]
    BY <2>1, EndDoes
  <2>3. ASSUME NEW d \in Conns PROVE OfTask(d)'
    BY <1>8, <2>2
  <2>4. ASSUME NEW m \in Machines, machine[m].conn # c PROVE OfMachine(m)' /\ OfAnswer(m)'
    <3>1. machine'[m] = machine[m]
      BY <2>1, <2>4 DEF Reply
    <3> QED BY <1>0, <1>8, <2>2, <2>4, <3>1
  <2>5. ASSUME NEW m \in Machines, machine[m].conn = c PROVE OfMachine(m)' /\ OfAnswer(m)'
    <3>1. machine'[m].conn = c /\ machine'[m].reply = r
      BY <2>1, <2>5, ReplyDoes
    <3> QED BY <2>1, <2>2, <3>1
  <2> QED BY <2>3, <2>4, <2>5
<1>9. ASSUME NEW c \in Conns, Answers(c), paired' = paired PROVE OwnInv'
  <2>1. /\ conn[c].at = "ack" /\ Reply(c, "ok") /\ conn'[c].at = "online"
        /\ \A d \in Conns \ {c} : conn'[d] = conn[d]
    BY <1>9, GotoDoes DEF Answers, Places
  <2>2. ASSUME NEW d \in Conns PROVE OfTask(d)'
    BY <1>9, <2>1
  <2>3. ASSUME NEW m \in Machines, machine[m].conn # c PROVE OfMachine(m)' /\ OfAnswer(m)'
    <3>1. machine'[m] = machine[m]
      BY <2>1, <2>3 DEF Reply
    <3> QED BY <1>0, <1>9, <2>1, <2>3, <3>1
  <2>4. ASSUME NEW m \in Machines, machine[m].conn = c PROVE OfMachine(m)' /\ OfAnswer(m)'
    <3>1. /\ machine'[m].at = machine[m].at /\ machine'[m].token = machine[m].token
          /\ machine'[m].reply = "ok" /\ machine'[m].offer = conn[c].secret
      <4>1. machine'[m] = [machine[m] EXCEPT !.reply = "ok", !.offer = conn[c].secret]
        BY <2>1, <2>4 DEF Reply
      <4> QED BY <4>1 DEF TypeOK, MachinesOK
    <3>2. Waits(m) => machine[m].reply = "none"
      BY <2>1, <2>4 DEF WaitInv, Answered
    <3>3. Waits(m) => conn[c].token = machine[m].token
      BY <2>1, <2>4, <3>2
    <3> QED BY <1>9, <2>1, <3>1, <3>3
  <2> QED BY <2>2, <2>3, <2>4
<1> QED BY <1>1, <1>2, <1>3, <1>4, <1>5, <1>6, <1>7, <1>8, <1>9 DEF Moves

\* Both invariants hold.
LEMMA AttemptHolds == Spec => [](Inv /\ WaitInv /\ OwnInv)
<1>1. Init => WaitInv /\ OwnInv
  BY LinkAssumption DEF Init, Machine, Free, Task, WaitInv, Attended, Answered, Alone, OwnInv, OfMachine,
     OfTask, OfAnswer, Waits
<1>2. Inv /\ WaitInv /\ OwnInv /\ [Next]_vars => WaitInv' /\ OwnInv'
  <2> SUFFICES ASSUME Inv, WaitInv, OwnInv, [Next]_vars PROVE WaitInv' /\ OwnInv'
    OBVIOUS
  <2>1. TypeOK /\ CauseInv /\ TypeOK' /\ Moves
    BY TypeStep, NextMoves DEF Inv
  <2> QED BY <2>1, WaitStep, OwnStep
<1> QED BY <1>1, <1>2, InvHolds, PTL DEF Spec

\* A node that tries to connect is never left waiting for nobody: it has its answer, a task
\* that will give it one, or a connection whose end it sees; and the task is its own (the
\* safety part of NodeComesBack; handle_connection, LinkClient::attempt).
THEOREM WaitersAreAttended ==
  Spec => [](\A m \in Machines : machine[m].at = "wait"
               => /\ machine[m].reply # "none" \/ conn[machine[m].conn].at \in {"free", "hello", "ack"}
                  /\ \A n \in Machines \ {m} : machine[n].conn # machine[m].conn)
<1> DEFINE Fine == \A m \in Machines : machine[m].at = "wait"
               => /\ machine[m].reply # "none" \/ conn[machine[m].conn].at \in {"free", "hello", "ack"}
                  /\ \A n \in Machines \ {m} : machine[n].conn # machine[m].conn
<1>1. Inv /\ WaitInv => Fine
  BY DEF Inv, TypeOK, MachinesOK, WaitInv, Attended, Alone, Waits, Desk
<1>2. Spec => [](Inv /\ WaitInv /\ OwnInv)
  BY AttemptHolds
<1> QED BY <1>1, <1>2, PTL

\* A node stores a credential only that was issued for the join token it presented: no late
\* or repeated answer, nor another machine's handshake, gives it one (pair, store_credential).
THEOREM OnlyOwnCredentialsAreStored ==
  Spec => [][\A m \in Machines : machine'[m].cred # machine[m].cred
               => [token |-> machine[m].token, secret |-> machine'[m].cred] \in paired]_vars
<1> DEFINE Own == \A m \in Machines : machine'[m].cred # machine[m].cred
                    => [token |-> machine[m].token, secret |-> machine'[m].cred] \in paired
<1>1. Inv /\ WaitInv /\ OwnInv /\ [Next]_vars => [Own]_vars
  <2> SUFFICES ASSUME Inv, OwnInv, [Next]_vars, NEW m \in Machines, machine'[m].cred # machine[m].cred
               PROVE  [token |-> machine[m].token, secret |-> machine'[m].cred] \in paired
    OBVIOUS
  <2>1. TypeOK /\ Moves
    BY NextMoves DEF Inv
  <2>2. Accepted(m)
    <3>1. ASSUME NEW n \in Machines, Dial(n) PROVE FALSE
      BY <2>1, <3>1 DEF Dial, TypeOK, MachinesOK
    <3>2. ASSUME NEW n \in Machines, Apart(n) PROVE FALSE
      BY <3>2 DEF Apart
    <3>3. ASSUME NEW n \in Machines, Accepted(n) PROVE n = m
      BY <2>1, <3>3, UpDoes DEF Accepted, Told
    <3>4. ASSUME NEW c \in Conns, NEW r \in {"ok", "fatal", "later"}, Reply(c, r) PROVE FALSE
      BY <2>1, <3>4, ReplyDoes
    <3> QED BY <2>1, <3>1, <3>2, <3>3, <3>4
            DEF Moves, Falls, Pairs, Knows, Drops, Goes, OnlyTask, Refuses, Refuse, Answers
  <2>3. machine'[m].cred = Credential(m) /\ machine[m].at = "wait" /\ machine[m].reply = "ok"
    BY <2>1, <2>2 DEF Accepted, Told, Up, Machine, TypeOK, MachinesOK
  <2>4. machine[m].token # NoToken /\ machine'[m].cred = machine[m].offer
    BY <2>3 DEF Credential
  <2> QED BY <2>3, <2>4 DEF OwnInv, OfAnswer, Waits
<1>2. Spec => [](Inv /\ WaitInv /\ OwnInv)
  BY AttemptHolds
<1> QED BY <1>1, <1>2, PTL DEF Spec
=============================================================================
