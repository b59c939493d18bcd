------------------------------ MODULE AgentHub ------------------------------
(***************************************************************************)
(* The panel's side of one node's connections (agenthub): the registry of  *)
(* live connections, the read loop and teardown of each connection         *)
(* (Handler.ServeWS), and the command calls that wait for an ack           *)
(* (Registry.SendCommandTimeout, Conn.SendCommand).                        *)
(*                                                                         *)
(* A node may dial in again before the panel noticed that its previous     *)
(* connection is gone, so several connections of one node overlap.  Every  *)
(* critical section of the code (registry lock, pending lock, one frame    *)
(* written or read) is one step.  The daemon is not part of this code: it  *)
(* runs a command it received and acknowledges it, sometimes twice.        *)
(***************************************************************************)
EXTENDS Naturals, FiniteSets

CONSTANTS
  Conns,        \* connections, in no order
  Calls,        \* calls of SendCommandTimeout, each with its own command id
  None,         \* no connection, no outcome
  MaxRotations, \* bound on token rotations
  MaxCopies     \* bound on the copies of an ack the daemon sends

ASSUME HubAssumption ==
  /\ None \notin Conns /\ None \notin Calls
  /\ None \notin {"acked", "offline", "send_error", "disconnected", "timeout"}
  /\ MaxRotations \in Nat /\ MaxCopies \in Nat \ {0}

VARIABLES
  token,       \* nodes.token, as the number of times it was rotated
  rotating,    \* a rotation stored the new token and has yet to close the connection
  registered,  \* Registry.conns for the node
  phase,       \* per connection: where ServeWS is
  secret,      \* per connection: the token its hello carried
  socket,      \* per connection: "up", "lost" (the peer is gone) or "closed" (by the panel)
  pending,     \* per connection: the calls waiting for an ack
  reply,       \* per call: its one-slot channel
  call,        \* per call: step and connection
  outcome,     \* per call: what it returned, None before
  wire,        \* commands on their way to the node: <<connection, call>>
  executed,    \* calls whose command the node ran
  acks,        \* per connection and call: copies of the ack under way
  reader,      \* per connection: the call whose ack the read loop is delivering
  latest,      \* history: the connection registered last
  escaped      \* history: connections the last rotation could not reach

connVars == <<registered, phase, secret, socket, latest>>
tokenVars == <<token, rotating, escaped>>
callVars == <<reply, call, outcome, pending>>
nodeVars == <<wire, executed, acks, reader>>
vars == <<connVars, tokenVars, callVars, nodeVars>>

Phases == {"new", "hello", "open", "failed", "drained", "unregistered", "done"}
CallSteps == {"idle", "enlist", "write", "wait", "cleanup", "done"}
Outcomes == {"acked", "offline", "send_error", "disconnected", "timeout"}

-----------------------------------------------------------------------------
(* Connections.                                                            *)

At(k, from, to) ==
  /\ phase[k] = from
  /\ phase' = [phase EXCEPT ![k] = to]

\* awaitHello: the hello token is looked up in the database.
Hello(k) ==
  /\ At(k, "new", "hello")
  /\ secret' = [secret EXCEPT ![k] = token]
  /\ socket' = [socket EXCEPT ![k] = "up"]
  /\ UNCHANGED <<registered, latest, tokenVars, callVars, nodeVars>>

\* A reconnect replaces the registered connection without closing it.
Register(k) ==
  /\ At(k, "hello", "open")
  /\ registered' = k
  /\ latest' = k
  /\ UNCHANGED <<secret, socket, tokenVars, callVars, nodeVars>>

\* The node restarts or the network fails.
PeerLost(k) ==
  /\ socket[k] = "up"
  /\ socket' = [socket EXCEPT ![k] = "lost"]
  /\ UNCHANGED <<registered, phase, secret, latest, tokenVars, callVars, nodeVars>>

\* readLoop ends: a read fails or its deadline passes ...
ReadFails(k) ==
  /\ At(k, "open", "failed")
  /\ reader[k] = None
  /\ socket[k] # "up"
  /\ UNCHANGED <<registered, secret, socket, latest, tokenVars, callVars, nodeVars>>

\* ... or it refuses a frame: rate limit, signature, timestamp or nonce.
ReadRefuses(k) ==
  /\ At(k, "open", "failed")
  /\ reader[k] = None
  /\ socket[k] = "up"
  /\ UNCHANGED <<registered, secret, socket, latest, tokenVars, callVars, nodeVars>>

\* A dropped connection is reported to its callers as a success.
FailPendingAsOK(k) ==
  /\ At(k, "failed", "drained")
  /\ reply' = [c \in Calls |->
       IF c \in pending[k] /\ reply[c] = "empty" THEN "ack" ELSE reply[c]]
  /\ pending' = [pending EXCEPT ![k] = {}]
  /\ UNCHANGED <<registered, secret, socket, latest, tokenVars, call, outcome, nodeVars>>

FailPending(k) ==
  /\ At(k, "failed", "drained")
  /\ reply' = [c \in Calls |->
       IF c \in pending[k] /\ reply[c] = "empty" THEN "lost" ELSE reply[c]]
  /\ pending' = [pending EXCEPT ![k] = {}]
  /\ UNCHANGED <<registered, secret, socket, latest, tokenVars, call, outcome, nodeVars>>

\* The entry goes whatever connection it holds.
UnregisterAny(k) ==
  /\ At(k, "drained", "unregistered")
  /\ registered' = None
  /\ UNCHANGED <<secret, socket, latest, tokenVars, callVars, nodeVars>>

Unregister(k) ==
  /\ At(k, "drained", "unregistered")
  /\ registered' = IF registered = k THEN None ELSE registered
  /\ UNCHANGED <<secret, socket, latest, tokenVars, callVars, nodeVars>>

\* The deferred close of the socket, the last thing ServeWS does.
CloseSocket(k) ==
  /\ At(k, "unregistered", "done")
  /\ socket' = [socket EXCEPT ![k] = "closed"]
  /\ UNCHANGED <<registered, secret, latest, tokenVars, callVars, nodeVars>>

\* RotateNodeToken (and DeleteNode): the database first ...
RotateToken ==
  /\ ~rotating /\ token < MaxRotations
  /\ token' = token + 1
  /\ rotating' = TRUE
  /\ UNCHANGED <<connVars, escaped, callVars, nodeVars>>

CloseRegistered ==
  socket' = IF registered = None THEN socket
            ELSE [socket EXCEPT ![registered] = "closed"]

\* The token changes and the connection stays (no Registry.Close).
RegistryCloseNothing ==
  /\ rotating
  /\ rotating' = FALSE
  /\ escaped' = {k \in Conns : phase[k] = "hello" \/ (phase[k] = "open" /\ k # registered)}
  /\ UNCHANGED <<connVars, token, callVars, nodeVars>>

\* ... then Registry.Close of the connection registered now, if any.  One
\* that said hello and is not registered yet, or that a reconnect replaced,
\* is out of its reach.
RegistryClose ==
  /\ rotating
  /\ rotating' = FALSE
  /\ CloseRegistered
  /\ escaped' = {k \in Conns : phase[k] = "hello" \/ (phase[k] = "open" /\ k # registered)}
  /\ UNCHANGED <<registered, phase, secret, latest, token, callVars, nodeVars>>

-----------------------------------------------------------------------------
(* Command calls.                                                          *)

Step(c, from, to) ==
  /\ call[c].pc = from
  /\ call' = [call EXCEPT ![c].pc = to]

\* Registry.Get: no connection, no call.
NodeOffline(c) ==
  /\ registered = None
  /\ Step(c, "idle", "done")
  /\ outcome' = [outcome EXCEPT ![c] = "offline"]
  /\ UNCHANGED <<connVars, tokenVars, reply, pending, nodeVars>>

\* The lookup's second result is ignored.
GetConnUnchecked(c) ==
  /\ call[c].pc = "idle"
  /\ call' = [call EXCEPT ![c] = [pc |-> "enlist", conn |-> registered]]
  /\ UNCHANGED <<connVars, tokenVars, reply, outcome, pending, nodeVars>>

GetConn(c) ==
  /\ registered # None
  /\ call[c].pc = "idle"
  /\ call' = [call EXCEPT ![c] = [pc |-> "enlist", conn |-> registered]]
  /\ UNCHANGED <<connVars, tokenVars, reply, outcome, pending, nodeVars>>

Enlist(c) ==
  /\ Step(c, "enlist", "write")
  /\ pending' = [pending EXCEPT ![call[c].conn] = @ \cup {c}]
  /\ UNCHANGED <<connVars, tokenVars, reply, outcome, nodeVars>>

\* A frame written to a connection whose peer is gone may vanish.
Write(c) ==
  /\ Step(c, "write", "wait")
  /\ \/ /\ socket[call[c].conn] = "up"
        /\ wire' = wire \cup {<<call[c].conn, c>>}
     \/ /\ socket[call[c].conn] = "lost"
        /\ UNCHANGED wire
  /\ UNCHANGED <<connVars, tokenVars, reply, outcome, pending, executed, acks, reader>>

\* The write fails, on any connection once its deadline passes.
WriteFails(c) ==
  /\ Step(c, "write", "cleanup")
  /\ outcome' = [outcome EXCEPT ![c] = "send_error"]
  /\ UNCHANGED <<connVars, tokenVars, reply, pending, nodeVars>>

Receive(c) ==
  /\ Step(c, "wait", "cleanup")
  /\ reply[c] # "empty"
  /\ reply' = [reply EXCEPT ![c] = "empty"]
  /\ outcome' = [outcome EXCEPT ![c] = IF reply[c] = "ack" THEN "acked" ELSE "disconnected"]
  /\ UNCHANGED <<connVars, tokenVars, pending, nodeVars>>

\* The caller waits without a deadline.
TimeoutNever(c) == FALSE /\ UNCHANGED vars

Timeout(c) ==
  /\ Step(c, "wait", "cleanup")
  /\ outcome' = [outcome EXCEPT ![c] = "timeout"]
  /\ UNCHANGED <<connVars, tokenVars, reply, pending, nodeVars>>

\* The pending entry of a call that gave up stays.
CleanupForgotten(c) ==
  /\ Step(c, "cleanup", "done")
  /\ UNCHANGED <<connVars, tokenVars, reply, outcome, pending, nodeVars>>

\* The deferred delete of the pending entry.
Cleanup(c) ==
  /\ Step(c, "cleanup", "done")
  /\ pending' = [pending EXCEPT ![call[c].conn] = @ \ {c}]
  /\ UNCHANGED <<connVars, tokenVars, reply, outcome, nodeVars>>

-----------------------------------------------------------------------------
(* The daemon, and the acks it sends.                                      *)

Execute(k, c) ==
  /\ <<k, c>> \in wire
  /\ wire' = wire \ {<<k, c>>}
  /\ executed' = executed \cup {c}
  /\ \E copies \in 0 .. MaxCopies :
       acks' = [acks EXCEPT ![k][c] = copies]
  /\ UNCHANGED <<connVars, tokenVars, callVars, reader>>

\* readLoop reads an ack; resolveAck looks its caller up under the pending
\* lock, and drops an ack nobody waits for ...
ReadAck(k, c) ==
  /\ phase[k] = "open" /\ socket[k] # "closed" /\ reader[k] = None
  /\ acks[k][c] > 0
  /\ acks' = [acks EXCEPT ![k][c] = @ - 1]
  /\ reader' = IF c \in pending[k] THEN [reader EXCEPT ![k] = c] ELSE reader
  /\ UNCHANGED <<connVars, tokenVars, callVars, wire, executed>>

\* ... then sends it outside that lock, unless the caller's slot is full.
Deliver(k) ==
  /\ reader[k] # None
  /\ reply' = [reply EXCEPT ![reader[k]] = IF @ = "empty" THEN "ack" ELSE @]
  /\ reader' = [reader EXCEPT ![k] = None]
  /\ UNCHANGED <<connVars, tokenVars, call, outcome, pending, wire, executed, acks>>

-----------------------------------------------------------------------------
Init ==
  /\ token = 0
  /\ rotating = FALSE
  /\ registered = None
  /\ phase = [k \in Conns |-> "new"]
  /\ secret = [k \in Conns |-> 0]
  /\ socket = [k \in Conns |-> "closed"]
  /\ pending = [k \in Conns |-> {}]
  /\ reply = [c \in Calls |-> "empty"]
  /\ call = [c \in Calls |-> [pc |-> "idle", conn |-> None]]
  /\ outcome = [c \in Calls |-> None]
  /\ wire = {}
  /\ executed = {}
  /\ acks = [k \in Conns |-> [c \in Calls |-> 0]]
  /\ reader = [k \in Conns |-> None]
  /\ latest = None
  /\ escaped = {}

ConnStep(k) ==
  \/ Hello(k) \/ Register(k) \/ PeerLost(k)
  \/ Deliver(k) \/ ReadFails(k) \/ ReadRefuses(k)
  \/ FailPending(k) \/ Unregister(k) \/ CloseSocket(k)

CallStep(c) ==
  \/ NodeOffline(c) \/ GetConn(c) \/ Enlist(c)
  \/ Write(c) \/ WriteFails(c)
  \/ Receive(c) \/ Timeout(c) \/ Cleanup(c)

Next ==
  \/ \E k \in Conns : ConnStep(k)
  \/ \E c \in Calls : CallStep(c)
  \/ \E k \in Conns, c \in Calls : Execute(k, c) \/ ReadAck(k, c)
  \/ RotateToken \/ RegistryClose

Spec == Init /\ [][Next]_vars

(* A call that started goes on: writes have a deadline and so does the     *)
(* wait for the ack.  A read loop delivers what it read, and tears its     *)
(* connection down once reading fails.                                     *)
Fairness ==
  /\ \A c \in Calls :
       /\ WF_vars(Enlist(c))
       /\ WF_vars(Write(c) \/ WriteFails(c))
       /\ WF_vars(Timeout(c))
       /\ WF_vars(Cleanup(c))
  /\ \A k \in Conns :
       /\ WF_vars(Deliver(k))
       /\ WF_vars(ReadFails(k))
       /\ WF_vars(FailPending(k))
       /\ WF_vars(Unregister(k))
       /\ WF_vars(CloseSocket(k))

FairSpec == Spec /\ Fairness

-----------------------------------------------------------------------------
(* Properties.                                                             *)

(* Every variable keeps its type; in particular a call that goes on to     *)
(* send has a connection, whatever became of the registry meanwhile.       *)
TypeOK ==
  /\ token \in Nat
  /\ rotating \in BOOLEAN
  /\ registered \in Conns \cup {None}
  /\ phase \in [Conns -> Phases]
  /\ secret \in [Conns -> Nat]
  /\ socket \in [Conns -> {"up", "lost", "closed"}]
  /\ pending \in [Conns -> SUBSET Calls]
  /\ reply \in [Calls -> {"empty", "ack", "lost"}]
  /\ call \in [Calls -> [pc: CallSteps, conn: Conns \cup {None}]]
  /\ \A c \in Calls : call[c].conn = None => call[c].pc \in {"idle", "done"}
  /\ outcome \in [Calls -> Outcomes \cup {None}]
  /\ wire \subseteq Conns \X Calls
  /\ executed \subseteq Calls
  /\ acks \in [Conns -> [Calls -> 0 .. MaxCopies]]
  /\ reader \in [Conns -> Calls \cup {None}]
  /\ latest \in Conns \cup {None}
  /\ escaped \subseteq Conns

(* Registry.register and unregister: however the teardown of an old        *)
(* connection interleaves with a reconnect, commands go to the connection  *)
(* that registered last, and never to one that left the registry.          *)
RegistryTracksNewest ==
  /\ registered # None =>
       registered = latest /\ phase[registered] \in {"open", "failed", "drained"}
  /\ latest # None /\ phase[latest] = "open" => registered = latest

(* Conn.pending holds entries of calls under way on that connection only:  *)
(* neither a timeout, a failed write nor a teardown leaves one behind.     *)
NoPendingLeak ==
  \A k \in Conns : \A c \in pending[k] :
    call[c].conn = k /\ call[c].pc \in {"write", "wait", "cleanup"}

returned == [c \in Calls |-> IF call[c].pc \in {"cleanup", "done"} THEN outcome[c] ELSE None]

Promise == INSTANCE RemoteCall WITH outcome <- returned

(* What a caller is told agrees with what the node did (RemoteCall): an    *)
(* acknowledged command ran, one that was not sent never runs, and no      *)
(* teardown, late or duplicate ack changes a result once returned.         *)
ImplementsRemoteCall == Promise!Spec

(* Every call returns, although the connection it picked may be torn down  *)
(* between any two of its steps.                                           *)
CallsReturn == \A c \in Calls : call[c].pc = "enlist" ~> call[c].pc = "done"

(* RotateNodeToken: when a rotation has finished, the only connections     *)
(* that go on working with an old secret are those Registry.Close could    *)
(* not find: still between hello and registration, or replaced before.     *)
OldSecretStops ==
  ~rotating => \A k \in Conns :
    phase[k] = "open" /\ socket[k] = "up" /\ secret[k] # token => k \in escaped
=============================================================================
