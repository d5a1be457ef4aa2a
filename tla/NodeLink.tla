------------------------------ MODULE NodeLink ------------------------------
(***************************************************************************)
(* How a node comes online, stays known and goes: the node's link client   *)
(* (sebas-node/src/link.rs, identity.rs), the control plane's task for     *)
(* every connection (src/node_link/server.rs, client.rs), the registry     *)
(* with its file (registry.rs) and the tables that say how to reach the    *)
(* node (server.rs, projection.rs).                                        *)
(*                                                                         *)
(* All machines here use one node id: the one it belongs to, which         *)
(* reconnects while its last connection may not be noticed to be gone, and *)
(* another that is paired under the same id. A secret is the number of the *)
(* pairing that issued it. A save of the registry writes all of it, or     *)
(* fails and leaves the file as it was.                                    *)
(***************************************************************************)
EXTENDS Integers, FiniteSets

CONSTANTS
  Machines,   \* the machines that use the node id
  Tokens,     \* the join tokens an operator may have
  NoToken,    \* a machine that was started without one
  Conns,      \* connections at one time
  NoConn,     \* no connection
  MaxStarts,  \* bound: starts of a machine's process
  MaxFaults,  \* bound: links lost, timeouts, crashes
  MaxUnsaved  \* bound: saves that fail

ASSUME LinkAssumption ==
  /\ NoToken \notin Tokens /\ NoConn \notin Conns
  /\ MaxStarts \in Nat /\ MaxFaults \in Nat /\ MaxUnsaved \in Nat

VARIABLES
  machine,  \* a machine's process, what it was started with, and its stored credential
  conn,     \* the task of every connection
  mem,      \* the registry: used tokens, the secret and the status of the node
  disk,     \* its file
  live,     \* live: the connection the node is reached by
  attached, \* the projection's connection for the node
  tokens,   \* the tokens an operator was given
  expired,  \* those that are too old
  issued,   \* history: how many pairings issued a secret
  paired,   \* history: which token each secret was issued for
  revoked,  \* history: the node was revoked
  starts, faults, unsaved   \* how often each happened

registry == <<mem, disk, issued, paired>>
tables   == <<live, attached>>
operator == <<tokens, expired, revoked>>
counts   == <<starts, faults, unsaved>>
vars     == <<machine, conn, registry, tables, operator, counts>>

Machine(at, token, cred) ==
  [at |-> at, token |-> token, cred |-> cred, conn |-> NoConn, reply |-> "none", offer |-> 0, met |-> FALSE]
Task(at, token, secret) == [at |-> at, token |-> token, secret |-> secret, closed |-> FALSE]
Free == Task("free", NoToken, 0)

At(c, place)   == conn[c].at = place
Goto(c, place) == conn' = [conn EXCEPT ![c].at = place]
End(c)         == conn' = [conn EXCEPT ![c] = Free]
Left(c)        == \A m \in Machines : machine[m].conn # c
Fault          == faults < MaxFaults /\ faults' = faults + 1 /\ UNCHANGED unsaved
Unsaved        == unsaved < MaxUnsaved /\ unsaved' = unsaved + 1 /\ UNCHANGED faults
NoFault        == UNCHANGED <<faults, unsaved>>
With(status)   == [mem EXCEPT !.status = status]

\* NodeRegistry::save, after the tables in memory were changed.
Saved(new)     == mem' = new /\ disk' = new /\ NoFault
SaveFails(new) == mem' = new /\ UNCHANGED disk /\ Unsaved

Init ==
  /\ machine = [m \in Machines |-> Machine("off", NoToken, 0)]
  /\ conn = [c \in Conns |-> Free]
  /\ mem = [used |-> {}, secret |-> 0, status |-> "none"] /\ disk = mem
  /\ live = NoConn /\ attached = NoConn
  /\ tokens = {} /\ expired = {} /\ issued = 0 /\ paired = {} /\ revoked = FALSE
  /\ starts = 0 /\ faults = 0 /\ unsaved = 0

-----------------------------------------------------------------------------
(* The operator *)

IssueToken(k) ==
  /\ k \in Tokens \ tokens /\ tokens' = tokens \cup {k} /\ disk' = mem
  /\ UNCHANGED <<machine, conn, mem, issued, paired, tables, expired, revoked, counts>>
TokenExpires(k) ==
  /\ k \in tokens \ (expired \cup mem.used) /\ expired' = expired \cup {k}
  /\ UNCHANGED <<machine, conn, registry, tables, tokens, revoked, counts>>

\* The status is all that changes: a connection that serves goes on.
Revoke ==
  /\ mem.secret # 0 /\ revoked' = TRUE
  /\ Saved(With("revoked")) \/ SaveFails(With("revoked"))
  /\ UNCHANGED <<machine, conn, issued, paired, tables, tokens, expired, starts>>

-----------------------------------------------------------------------------
(* The node *)

\* With a token, which goes before a stored credential, or with the credential alone.
Start(m) ==
  /\ machine[m].at \in {"off", "down"} /\ starts < MaxStarts /\ starts' = starts + 1
  /\ \E k \in tokens \cup {NoToken} :
       /\ k # NoToken \/ machine[m].cred # 0
       /\ machine' = [machine EXCEPT ![m] = Machine("idle", k, machine[m].cred)]
  /\ UNCHANGED <<conn, registry, tables, operator, faults, unsaved>>

\* attempt: the hello carries the token or the credential.
Dial(m) ==
  /\ machine[m].at = "idle"
  /\ \E c \in Conns \ {live, attached} :
       /\ At(c, "free") /\ Left(c)
       /\ machine' = [machine EXCEPT ![m].at = "wait", ![m].conn = c]
       /\ LET k == machine[m].token IN
          conn' = [conn EXCEPT ![c] = Task("hello", k, IF k = NoToken THEN machine[m].cred ELSE 0)]
  /\ UNCHANGED <<registry, tables, operator, counts>>

\* Mutation: the node still holds the link it has lost.
LeavesHolding(m, place) == machine' = [machine EXCEPT ![m].at = place]
Leaves(m, place) ==
  machine' = [machine EXCEPT ![m] = [Machine(place, @.token, @.cred) EXCEPT !.met = machine[m].met]]
Told(m, reply)   == machine[m].at = "wait" /\ machine[m].reply = reply
Credential(m)    == IF machine[m].token # NoToken THEN machine[m].offer ELSE machine[m].cred
Up(m, token)     ==
  machine' = [machine EXCEPT ![m] = [Machine("up", token, Credential(m)) EXCEPT
                                       !.conn = machine[m].conn, !.met = TRUE]]

\* Mutation: the token is kept for the next connection.
AcceptedKeepsToken(m) ==
  /\ Told(m, "ok")
  /\ Up(m, machine[m].token)
  /\ UNCHANGED <<conn, registry, tables, operator, counts>>

\* The credential of a pairing is stored, and only then the token given up.
Accepted(m) ==
  /\ Told(m, "ok")
  /\ Up(m, NoToken)
  /\ UNCHANGED <<conn, registry, tables, operator, counts>>
NotStored(m) ==
  /\ Told(m, "ok") /\ machine[m].token # NoToken /\ Unsaved /\ Leaves(m, "down")
  /\ UNCHANGED <<conn, registry, tables, operator, starts>>

\* A rejection is final, unless the control plane is unavailable.
Refused(m) ==
  /\ Told(m, "fatal") /\ Leaves(m, "down")
  /\ UNCHANGED <<conn, registry, tables, operator, counts>>

\* Mutation: only an answer ends an attempt.
RetryToldOnly(m) ==
  /\ Told(m, "later") /\ Leaves(m, "idle")
  /\ UNCHANGED <<conn, registry, tables, operator, counts>>
Retry(m) ==
  /\ Told(m, "later") \/ (Told(m, "none") /\ At(machine[m].conn, "free"))
  /\ Leaves(m, "idle")
  /\ UNCHANGED <<conn, registry, tables, operator, counts>>

\* The control plane ended the link; the network did, or the answer took too long.
LinkEnds(m) ==
  /\ machine[m].at = "up" /\ At(machine[m].conn, "free") /\ Leaves(m, "idle")
  /\ UNCHANGED <<conn, registry, tables, operator, counts>>
LinkLost(m) ==
  /\ machine[m].at \in {"wait", "up"} /\ Fault /\ Leaves(m, "idle")
  /\ UNCHANGED <<conn, registry, tables, operator, starts>>
NodeCrash(m) ==
  /\ machine[m].at \in {"idle", "wait", "up"} /\ Fault /\ Leaves(m, "off")
  /\ UNCHANGED <<conn, registry, tables, operator, starts>>

-----------------------------------------------------------------------------
(* The handshake on the control plane: handle_connection up to the answer *)

Reply(c, reply) ==
  machine' = [m \in Machines |-> IF machine[m].conn # c THEN machine[m]
                ELSE [machine[m] EXCEPT !.reply = reply, !.offer = conn[c].secret]]
Refuse(c, reply) == Reply(c, reply) /\ End(c)

\* Mutation: a used token is not told from a fresh one.
UsableTwice(k) == k \notin expired
Usable(k)      == k \notin mem.used \cup expired

\* consume_join_token: known by its use, which is saved before anything else happens...
TokenRefused(c) ==
  /\ At(c, "hello") /\ conn[c].token # NoToken
  /\ ~Usable(conn[c].token) /\ Refuse(c, "fatal")
  /\ UNCHANGED <<registry, tables, operator, counts>>
Spent(c) == [mem EXCEPT !.used = @ \cup {conn[c].token}]
TokenUnsaved(c) ==
  /\ At(c, "hello") /\ conn[c].token # NoToken /\ Usable(conn[c].token)
  /\ SaveFails(Spent(c)) /\ Refuse(c, "later")
  /\ UNCHANGED <<issued, paired, tables, operator, starts>>

\* ...then pair: not for a node that is online or revoked...
PairRefused(c) ==
  /\ At(c, "hello") /\ conn[c].token # NoToken /\ Usable(conn[c].token)
  /\ mem.status \in {"online", "revoked"} /\ Saved(Spent(c)) /\ Refuse(c, "fatal")
  /\ UNCHANGED <<issued, paired, tables, operator, starts>>

\* ...a new secret replaces the old one, and counts when it is saved.
Pair(c) ==
  /\ At(c, "hello") /\ conn[c].token # NoToken /\ Usable(conn[c].token)
  /\ mem.status \in {"none", "offline"} /\ issued' = issued + 1
  /\ LET new == [used |-> Spent(c).used, secret |-> issued + 1, status |-> "offline"] IN
     \/ /\ Saved(new) /\ UNCHANGED machine
        /\ conn' = [conn EXCEPT ![c] = Task("ack", conn[c].token, issued + 1)]
        /\ paired' = paired \cup {[token |-> conn[c].token, secret |-> issued + 1]}
     \/ /\ mem' = new /\ disk' = Spent(c) /\ Unsaved /\ Refuse(c, "later") /\ UNCHANGED paired
  /\ UNCHANGED <<tables, operator, starts>>

Valid(secret) == secret = mem.secret /\ mem.status # "revoked"

\* authenticate
Authenticate(c) ==
  /\ At(c, "hello") /\ conn[c].token = NoToken
  /\ IF Valid(conn[c].secret) THEN Goto(c, "ack") /\ UNCHANGED machine ELSE Refuse(c, "fatal")
  /\ UNCHANGED <<registry, tables, operator, counts>>

\* The answer is sent, or the node is gone already.
Answer(c) ==
  /\ At(c, "ack")
  /\ \/ Reply(c, "ok") /\ Goto(c, "online")
     \/ Left(c) /\ End(c) /\ UNCHANGED machine
  /\ UNCHANGED <<registry, tables, operator, counts>>

-----------------------------------------------------------------------------
(* The link on the control plane: handle_connection to its end *)

\* mark_online, whatever the status has become; a failure ends the task.
Online(c) ==
  /\ At(c, "online")
  /\ \/ Saved(With("online")) /\ Goto(c, "insert")
     \/ SaveFails(With("online")) /\ End(c)
  /\ UNCHANGED <<machine, issued, paired, tables, operator, starts>>

Insert(c) ==
  /\ At(c, "insert") /\ live' = c /\ Goto(c, "attach")
  /\ UNCHANGED <<machine, registry, attached, operator, counts>>

\* Mutation: a connection that broke meanwhile is not served.
AttachOrQuit(c) ==
  /\ At(c, "attach") /\ attached' = c /\ (IF conn[c].closed THEN End(c) ELSE Goto(c, "serve"))
  /\ UNCHANGED <<machine, registry, live, operator, counts>>
Attach(c) ==
  /\ At(c, "attach") /\ attached' = c /\ Goto(c, "serve")
  /\ UNCHANGED <<machine, registry, live, operator, counts>>

\* wait_closed looks, and only then begins to listen for what mark_closed announces:
\* an end in between is announced to nobody.
Look(c) ==
  /\ At(c, "serve") /\ Goto(c, IF conn[c].closed THEN "offline" ELSE "doze")
  /\ UNCHANGED <<machine, registry, tables, operator, counts>>
Listen(c) ==
  /\ At(c, "doze") /\ Goto(c, "asleep")
  /\ UNCHANGED <<machine, registry, tables, operator, counts>>
Woken(c) == [at |-> IF At(c, "asleep") THEN "serve" ELSE conn[c].at,
             token |-> conn[c].token, secret |-> conn[c].secret, closed |-> TRUE]
Closed(c) ==
  /\ conn[c].at \in {"insert", "attach", "serve", "doze", "asleep"} /\ ~conn[c].closed
  /\ (Left(c) /\ NoFault) \/ Fault
  /\ conn' = [conn EXCEPT ![c] = Woken(c)]
  /\ UNCHANGED <<machine, registry, tables, operator, starts>>

\* The status first, then the tables: of the node, whoever serves it now.
Offline(c) ==
  /\ At(c, "offline")
  /\ LET new == IF mem.status = "online" THEN With("offline") ELSE mem IN
     \/ Saved(new) /\ Goto(c, "remove")
     \/ SaveFails(new) /\ End(c)
  /\ UNCHANGED <<machine, issued, paired, tables, operator, starts>>
Remove(c) ==
  /\ At(c, "remove") /\ live' = NoConn /\ Goto(c, "detach")
  /\ UNCHANGED <<machine, registry, attached, operator, counts>>
Detach(c) ==
  /\ At(c, "detach") /\ attached' = NoConn /\ End(c)
  /\ UNCHANGED <<machine, registry, live, operator, counts>>

\* The control plane dies and comes back with what the file says.
Restart ==
  /\ Fault /\ mem' = disk /\ live' = NoConn /\ attached' = NoConn
  /\ conn' = [c \in Conns |-> Free]
  /\ UNCHANGED <<machine, disk, issued, paired, operator, starts>>

-----------------------------------------------------------------------------
Operator  == Revoke \/ \E k \in Tokens : IssueToken(k) \/ TokenExpires(k)
Client(m) == Dial(m) \/ Accepted(m) \/ Refused(m) \/ Retry(m) \/ LinkEnds(m)
Handshake(c) ==
  \/ TokenRefused(c) \/ PairRefused(c) \/ Pair(c) \/ Authenticate(c) \/ Answer(c)
Serve(c) ==
  Online(c) \/ Insert(c) \/ Attach(c) \/ Look(c) \/ Listen(c) \/ Offline(c) \/ Remove(c) \/ Detach(c)

Next ==
  \/ Operator \/ Restart
  \/ \E m \in Machines : Start(m) \/ Client(m) \/ NotStored(m) \/ LinkLost(m) \/ NodeCrash(m)
  \/ \E c \in Conns : Handshake(c) \/ TokenUnsaved(c) \/ Serve(c) \/ Closed(c)

Spec == Init /\ [][Next]_vars

\* A node's process and the tasks of the control plane run on. That a connection whose
\* node is gone is ever noticed to be gone is not assumed, and nothing of operators.
FairSpec ==
  /\ Spec /\ \A m \in Machines : WF_vars(Client(m))
  /\ \A c \in Conns : WF_vars(Handshake(c)) /\ WF_vars(Serve(c))

-----------------------------------------------------------------------------
(* Properties *)

Statuses == {"none", "offline", "online", "revoked"}
Registry == [used : SUBSET Tokens, secret : Nat, status : Statuses]
Served   == {"attach", "serve", "doze", "asleep", "offline", "remove"}
Places   == Served \cup {"free", "hello", "ack", "online", "insert", "detach"}

MachinesOK ==
  /\ machine \in [Machines -> [at : {"off", "idle", "wait", "up", "down"}, token : Tokens \cup {NoToken},
                               cred : Nat, conn : Conns \cup {NoConn}, met : BOOLEAN,
                               reply : {"none", "ok", "fatal", "later"}, offer : Nat]]
  /\ \A m \in Machines : machine[m].at \in {"wait", "up"} <=> machine[m].conn # NoConn
TasksOK    == conn \in [Conns -> [at : Places, token : Tokens \cup {NoToken}, secret : Nat, closed : BOOLEAN]]
RegistryOK == mem \in Registry /\ disk \in Registry
              /\ issued \in Nat /\ paired \subseteq [token : Tokens, secret : Nat]
TablesOK   == live \in Conns \cup {NoConn} /\ attached \in Conns \cup {NoConn}
OperatorOK == tokens \subseteq Tokens /\ expired \subseteq tokens /\ revoked \in BOOLEAN
CountsOK   == starts \in 0..MaxStarts /\ faults \in 0..MaxFaults /\ unsaved \in 0..MaxUnsaved

\* Every table holds values of its kind (LinkClient, NodeRegistry, NodeLinkServer), and a
\* machine holds a connection exactly while it waits on one or uses it.
TypeOK == MachinesOK /\ TasksOK /\ RegistryOK /\ TablesOK /\ OperatorOK /\ CountsOK

\* A join token gets one credential at most, whatever is not saved, dies or is repeated:
\* "a second pairing presenting the same token is rejected" (execution-node).
TokenOnce == \A p, q \in paired : p.token = q.token => p = q

\* The control plane's file knows the credential a node has stored, or a later one: a
\* restart does not turn it away ("or the node would reconnect with a credential the
\* control plane does not know", NodeRegistry::pair).
CredentialOnDisk == \A m \in Machines : machine[m].cred <= disk.secret

\* A node that was accepted once does not exit before its next start, unless it was
\* revoked or another pairing replaced its credential: a lost link, a repeated connection
\* or a restarted control plane is no reason (LinkClient::attempt: "or one lost link would
\* make the node exit for good").
ExitsForCause ==
  \A m \in Machines :
    machine[m].at = "down" /\ machine[m].met => revoked \/ machine[m].cred < issued

\* The tables hold no connection whose task has ended, unless a save failed
\* (handle_connection).
TablesAreServed ==
  unsaved = 0 => (live # NoConn => conn[live].at \in Served)
                /\ (attached # NoConn => conn[attached].at \in Served \cup {"detach"})

\* A node that tries to connect gets an answer: it does not wait for ever, whatever the
\* control plane lost (LinkClient::run_link_forever).
NodeComesBack ==
  \A m \in Machines :
    machine[m].at \in {"idle", "wait"} ~> machine[m].at \notin {"idle", "wait"}
=============================================================================
