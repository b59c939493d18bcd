--------------------------- MODULE AgentHubProofs ---------------------------
(* The hub for any number of connections and calls: the registry, the      *)
(* entries of calls, and what callers are told; and replay protection for  *)
(* any skew, resolution, drift and delay the TTL covers.                   *)
EXTENDS AgentHub, NonceCache, TLAPS

NotSent == {"offline", "send_error"}

Unsent(c) == c \notin executed /\ \A k \in Conns : <<k, c>> \notin wire

(* A call has no result before it stops waiting, and the node knows        *)
(* nothing of one that was not written or whose write failed.              *)
Results ==
  \A c \in Calls :
    /\ call[c].pc \in {"idle", "enlist", "write", "wait"} => outcome[c] = None
    /\ call[c].pc \in {"idle", "enlist", "write"} \/ outcome[c] \in NotSent => Unsent(c)

(* A command is under way on the connection of its call only, and no more  *)
(* once it ran.                                                            *)
WireOnce ==
  \A k \in Conns, c \in Calls :
    <<k, c>> \in wire => call[c].conn = k /\ c \notin executed

(* Acks, on the wire, in the read loop or in a caller's slot, are of       *)
(* commands that ran.                                                      *)
AcksTruthful ==
  \A c \in Calls :
    \/ c \in executed
    \/ /\ reply[c] # "ack"
       /\ \A k \in Conns : acks[k][c] = 0 /\ reader[k] # c

-----------------------------------------------------------------------------
LEMMA InitTypeOK == Init => TypeOK
  <1> SUFFICES ASSUME Init PROVE TypeOK
    OBVIOUS
  <1>1. 0 \in 0 .. MaxCopies
    BY HubAssumption DEF HubAssumption
  <1>2. acks \in [Conns -> [Calls -> 0 .. MaxCopies]]
    BY <1>1 DEF Init
  <1>3. /\ call \in [Calls -> [pc: CallSteps, conn: Conns \cup {None}]]
        /\ \A c \in Calls : call[c].conn = None => call[c].pc \in {"idle", "done"}
    BY DEF Init, CallSteps
  <1>4. QED
    BY <1>2, <1>3 DEF Init, TypeOK, Phases

LEMMA ConnTypeOK ==
  ASSUME TypeOK, NEW k \in Conns, ConnStep(k)
  PROVE  TypeOK'
  <1>1. CASE Hello(k)
    BY <1>1 DEF TypeOK, Hello, At, Phases, tokenVars, callVars, nodeVars
  <1>2. CASE Register(k)
    BY <1>2 DEF TypeOK, Register, At, Phases, tokenVars, callVars, nodeVars
  <1>3. CASE PeerLost(k)
    BY <1>3 DEF TypeOK, PeerLost, tokenVars, callVars, nodeVars
  <1>4. CASE Deliver(k)
    BY <1>4 DEF TypeOK, Deliver, connVars, tokenVars
  <1>5. CASE ReadFails(k) \/ ReadRefuses(k)
    BY <1>5 DEF TypeOK, ReadFails, ReadRefuses, At, Phases, tokenVars, callVars, nodeVars
  <1>6. CASE FailPending(k)
    BY <1>6 DEF TypeOK, FailPending, At, Phases, tokenVars, nodeVars
  <1>7. CASE Unregister(k)
    BY <1>7 DEF TypeOK, Unregister, At, Phases, tokenVars, callVars, nodeVars
  <1>8. CASE CloseSocket(k)
    BY <1>8 DEF TypeOK, CloseSocket, At, Phases, tokenVars, callVars, nodeVars
  <1>9. QED
    BY <1>1, <1>2, <1>3, <1>4, <1>5, <1>6, <1>7, <1>8 DEF ConnStep

(* A step of a call moves that call alone.                                 *)
LEMMA StepOnly ==
  ASSUME TypeOK, NEW c \in Calls, NEW from, NEW to \in CallSteps, Step(c, from, to)
  PROVE  /\ call' \in [Calls -> [pc : CallSteps, conn : Conns \cup {None}]]
         /\ call'[c].pc = to /\ call'[c].conn = call[c].conn
         /\ \A d \in Calls \ {c} : call'[d] = call[d]
  <1>1. call \in [Calls -> [pc : CallSteps, conn : Conns \cup {None}]]
    BY DEF TypeOK
  <1>. DEFINE moved == [call[c] EXCEPT !.pc = to]
  <1>2. /\ moved \in [pc : CallSteps, conn : Conns \cup {None}]
        /\ moved.pc = to /\ moved.conn = call[c].conn
    BY <1>1
  <1>3. call' = [call EXCEPT ![c] = moved]
    BY DEF Step
  <1>. HIDE DEF moved
  <1>4. QED
    BY <1>1, <1>2, <1>3

LEMMA CallTypeOK ==
  ASSUME TypeOK, NEW c \in Calls, CallStep(c)
  PROVE  TypeOK'
  <1>1. CASE NodeOffline(c)
    <2>1. Step(c, "idle", "done") /\ "done" \in CallSteps
      BY <1>1 DEF NodeOffline, CallSteps
    <2>2. /\ call' \in [Calls -> [pc : CallSteps, conn : Conns \cup {None}]]
          /\ \A d \in Calls : call'[d].conn = None => call'[d].pc \in {"idle", "done"}
      <3>1. /\ call' \in [Calls -> [pc : CallSteps, conn : Conns \cup {None}]]
            /\ call'[c].pc = "done" /\ \A d \in Calls \ {c} : call'[d] = call[d]
        BY <2>1, StepOnly
      <3>2. QED
        BY <3>1 DEF TypeOK
    <2>3. outcome' \in [Calls -> Outcomes \cup {None}]
      BY <1>1 DEF TypeOK, NodeOffline, Outcomes
    <2>4. QED
      BY <1>1, <2>2, <2>3 DEF TypeOK, NodeOffline, connVars, tokenVars, nodeVars
  <1>2. CASE GetConn(c)
    BY <1>2 DEF TypeOK, GetConn, CallSteps, connVars, tokenVars, nodeVars
  <1>3. CASE Enlist(c)
    BY <1>3 DEF TypeOK, Enlist, Step, CallSteps, connVars, tokenVars, nodeVars
  <1>4. CASE Write(c)
    <2>1. call[c].conn \in Conns
      BY <1>4 DEF TypeOK, Write, Step
    <2>2. wire' \subseteq Conns \X Calls
      BY <1>4, <2>1 DEF TypeOK, Write
    <2>3. /\ call' \in [Calls -> [pc: CallSteps, conn: Conns \cup {None}]]
          /\ \A d \in Calls : call'[d].conn = None => call'[d].pc \in {"idle", "done"}
      <3>1. Step(c, "write", "wait") /\ "wait" \in CallSteps
        BY <1>4 DEF Write, CallSteps
      <3>2. /\ call' \in [Calls -> [pc : CallSteps, conn : Conns \cup {None}]]
            /\ call'[c].conn = call[c].conn
            /\ \A d \in Calls \ {c} : call'[d] = call[d]
        BY <3>1, StepOnly
      <3>3. QED
        BY <2>1, <3>2, HubAssumption DEF TypeOK
    <2>4. QED
      BY <1>4, <2>2, <2>3 DEF TypeOK, Write, connVars, tokenVars
  <1>5. CASE WriteFails(c)
    BY <1>5 DEF TypeOK, WriteFails, Step, CallSteps, Outcomes, connVars, tokenVars, nodeVars
  <1>6. CASE Receive(c)
    BY <1>6 DEF TypeOK, Receive, Step, CallSteps, Outcomes, connVars, tokenVars, nodeVars
  <1>7. CASE Timeout(c)
    BY <1>7 DEF TypeOK, Timeout, Step, CallSteps, Outcomes, connVars, tokenVars, nodeVars
  <1>8. CASE Cleanup(c)
    BY <1>8 DEF TypeOK, Cleanup, Step, CallSteps, connVars, tokenVars, nodeVars
  <1>9. QED
    BY <1>1, <1>2, <1>3, <1>4, <1>5, <1>6, <1>7, <1>8 DEF CallStep

LEMMA NodeTypeOK ==
  ASSUME TypeOK, NEW k \in Conns, NEW c \in Calls, Execute(k, c) \/ ReadAck(k, c)
  PROVE  TypeOK'
  <1>1. CASE Execute(k, c)
    BY <1>1, HubAssumption DEF TypeOK, Execute, connVars, tokenVars, callVars, HubAssumption
  <1>2. CASE ReadAck(k, c)
    BY <1>2, HubAssumption DEF TypeOK, ReadAck, connVars, tokenVars, callVars, HubAssumption
  <1>3. QED
    BY <1>1, <1>2

LEMMA RotationTypeOK ==
  ASSUME TypeOK, RotateToken \/ RegistryClose
  PROVE  TypeOK'
  <1>1. CASE RotateToken
    BY <1>1 DEF TypeOK, RotateToken, connVars, callVars, nodeVars
  <1>2. CASE RegistryClose
    BY <1>2 DEF TypeOK, RegistryClose, CloseRegistered, callVars, nodeVars
  <1>3. QED
    BY <1>1, <1>2

LEMMA NextTypeOK == TypeOK /\ [Next]_vars => TypeOK'
  <1> SUFFICES ASSUME TypeOK, [Next]_vars PROVE TypeOK'
    OBVIOUS
  <1>1. CASE UNCHANGED vars
    BY <1>1 DEF TypeOK, vars, connVars, tokenVars, callVars, nodeVars
  <1>2. QED
    BY <1>1, ConnTypeOK, CallTypeOK, NodeTypeOK, RotationTypeOK DEF Next

(* Every step of the hub keeps the types, for any connections and calls.   *)
THEOREM TypeCorrect == Spec => []TypeOK
  BY InitTypeOK, NextTypeOK, PTL DEF Spec

-----------------------------------------------------------------------------
(* The registry: only these steps of a connection touch it or a phase.     *)
LEMMA ConnRegistry ==
  ASSUME TypeOK, RegistryTracksNewest, NEW k \in Conns, ConnStep(k)
  PROVE  RegistryTracksNewest'
  <1>1. CASE Hello(k)
    BY <1>1 DEF TypeOK, RegistryTracksNewest, Hello, At
  <1>2. CASE Register(k)
    BY <1>2, HubAssumption DEF TypeOK, RegistryTracksNewest, Register, At, HubAssumption
  <1>3. CASE PeerLost(k) \/ Deliver(k)
    BY <1>3 DEF RegistryTracksNewest, PeerLost, Deliver, connVars
  <1>4. CASE ReadFails(k) \/ ReadRefuses(k)
    BY <1>4 DEF TypeOK, RegistryTracksNewest, ReadFails, ReadRefuses, At
  <1>5. CASE FailPending(k)
    BY <1>5 DEF TypeOK, RegistryTracksNewest, FailPending, At
  <1>6. CASE Unregister(k)
    BY <1>6 DEF TypeOK, RegistryTracksNewest, Unregister, At
  <1>7. CASE CloseSocket(k)
    BY <1>7 DEF TypeOK, RegistryTracksNewest, CloseSocket, At
  <1>8. QED
    BY <1>1, <1>2, <1>3, <1>4, <1>5, <1>6, <1>7 DEF ConnStep

LEMMA OthersKeepRegistry ==
  ASSUME \/ \E c \in Calls : CallStep(c)
         \/ \E k \in Conns, c \in Calls : Execute(k, c) \/ ReadAck(k, c)
         \/ RotateToken \/ RegistryClose
         \/ UNCHANGED vars
  PROVE  UNCHANGED <<registered, phase, latest>>
  <1>1. ASSUME NEW c \in Calls, CallStep(c) PROVE UNCHANGED <<registered, phase, latest>>
    BY <1>1 DEF CallStep, NodeOffline, GetConn, Enlist, Write, WriteFails, Receive,
                Timeout, Cleanup, connVars
  <1>2. ASSUME NEW k \in Conns, NEW c \in Calls, Execute(k, c) \/ ReadAck(k, c)
        PROVE  UNCHANGED <<registered, phase, latest>>
    BY <1>2 DEF Execute, ReadAck, connVars
  <1>3. QED
    BY <1>1, <1>2 DEF RotateToken, RegistryClose, vars, connVars

(* Commands go to the newest connection, for any number of reconnects.     *)
THEOREM RegistryCorrect == Spec => []RegistryTracksNewest
  <1>1. Init => RegistryTracksNewest
    BY DEF Init, RegistryTracksNewest
  <1>2. TypeOK /\ RegistryTracksNewest /\ [Next]_vars => RegistryTracksNewest'
    <2> SUFFICES ASSUME TypeOK, RegistryTracksNewest, [Next]_vars
                 PROVE  RegistryTracksNewest'
      OBVIOUS
    <2>1. CASE \E k \in Conns : ConnStep(k)
      BY <2>1, ConnRegistry
    <2>2. CASE UNCHANGED <<registered, phase, latest>>
      BY <2>2 DEF RegistryTracksNewest
    <2>3. QED
      BY <2>1, <2>2, OthersKeepRegistry DEF Next
  <1>3. QED
    BY <1>1, <1>2, TypeCorrect, PTL DEF Spec

-----------------------------------------------------------------------------
(* The entries of calls.                                                   *)
LEMMA CallPending ==
  ASSUME TypeOK, NoPendingLeak, NEW c \in Calls, CallStep(c)
  PROVE  NoPendingLeak'
  <1>1. CASE NodeOffline(c) \/ GetConn(c)
    <2>1. /\ pending' = pending /\ call[c].pc = "idle"
          /\ \A d \in Calls \ {c} : call'[d] = call[d]
      <3>1. CASE NodeOffline(c)
        BY <3>1, StepOnly DEF NodeOffline, Step, CallSteps
      <3>2. CASE GetConn(c)
        BY <3>2 DEF TypeOK, GetConn
      <3>3. QED
        BY <1>1, <3>1, <3>2
    <2>2. ASSUME NEW k \in Conns, NEW d \in pending[k]
          PROVE  call'[d] = call[d]
      BY <2>1, <2>2 DEF TypeOK, NoPendingLeak
    <2>3. QED
      BY <2>1, <2>2 DEF NoPendingLeak
  <1>2. CASE Enlist(c)
    <2>1. call[c].conn \in Conns
      BY <1>2 DEF TypeOK, Enlist, Step
    <2>2. QED
      BY <1>2, <2>1 DEF TypeOK, NoPendingLeak, Enlist, Step
  <1>3. CASE Write(c) \/ WriteFails(c) \/ Receive(c) \/ Timeout(c)
    <2>1. Step(c, "write", "wait") \/ Step(c, "write", "cleanup") \/ Step(c, "wait", "cleanup")
      BY <1>3 DEF Write, WriteFails, Receive, Timeout
    <2>2. /\ call'[c].conn = call[c].conn /\ call'[c].pc \in {"wait", "cleanup"}
          /\ \A d \in Calls \ {c} : call'[d] = call[d]
      BY <2>1 DEF TypeOK, Step
    <2>3. pending' = pending
      BY <1>3 DEF Write, WriteFails, Receive, Timeout
    <2>4. ASSUME NEW k \in Conns, NEW d \in pending[k]
          PROVE  call'[d].conn = k /\ call'[d].pc \in {"write", "wait", "cleanup"}
      <3>1. /\ d \in Calls /\ call[d].conn = k
            /\ call[d].pc \in {"write", "wait", "cleanup"}
        BY <2>4 DEF TypeOK, NoPendingLeak
      <3>2. CASE d = c
        BY <2>2, <3>1, <3>2
      <3>3. CASE d # c
        BY <2>2, <3>1, <3>3
      <3>4. QED
        BY <3>2, <3>3
    <2>5. QED
      BY <2>3, <2>4 DEF NoPendingLeak
  <1>4. CASE Cleanup(c)
    <2>1. /\ pending' = [pending EXCEPT ![call[c].conn] = @ \ {c}]
          /\ call[c].conn \in Conns
          /\ \A d \in Calls \ {c} : call'[d] = call[d]
      BY <1>4 DEF TypeOK, Cleanup, Step
    <2>2. \A k \in Conns : c \notin pending'[k]
      BY <2>1 DEF TypeOK, NoPendingLeak
    <2>3. QED
      BY <2>1, <2>2 DEF TypeOK, NoPendingLeak
  <1>5. QED
    BY <1>1, <1>2, <1>3, <1>4 DEF CallStep

(* No entry of a call outlives it, whatever ends the call or connection.   *)
THEOREM PendingBounded == Spec => []NoPendingLeak
  <1>1. Init => NoPendingLeak
    BY DEF Init, NoPendingLeak
  <1>2. TypeOK /\ NoPendingLeak /\ [Next]_vars => NoPendingLeak'
    <2> SUFFICES ASSUME TypeOK, NoPendingLeak, [Next]_vars PROVE NoPendingLeak'
      OBVIOUS
    <2>1. ASSUME NEW k \in Conns, FailPending(k) PROVE NoPendingLeak'
      BY <2>1 DEF TypeOK, NoPendingLeak, FailPending
    <2>2. CASE UNCHANGED <<pending, call>>
      BY <2>2 DEF NoPendingLeak
    <2>3. ASSUME NEW k \in Conns, ConnStep(k), ~FailPending(k)
          PROVE  UNCHANGED <<pending, call>>
      BY <2>3 DEF ConnStep, Hello, Register, PeerLost, Deliver, ReadFails, ReadRefuses,
                  Unregister, CloseSocket, callVars
    <2>4. ASSUME NEW k \in Conns, NEW c \in Calls, Execute(k, c) \/ ReadAck(k, c)
          PROVE  UNCHANGED <<pending, call>>
      BY <2>4 DEF Execute, ReadAck, callVars
    <2>5. ASSUME RotateToken \/ RegistryClose \/ UNCHANGED vars
          PROVE  UNCHANGED <<pending, call>>
      BY <2>5 DEF RotateToken, RegistryClose, vars, callVars
    <2>6. QED
      BY <2>1, <2>2, <2>3, <2>4, <2>5, CallPending DEF Next
  <1>3. QED
    BY <1>1, <1>2, TypeCorrect, PTL DEF Spec

-----------------------------------------------------------------------------
(* What callers are told.                                                  *)
Told == TypeOK /\ Results /\ WireOnce /\ AcksTruthful

Waiting == {"idle", "enlist", "write", "wait"}

(* The only results that change are those of the call that takes a step.   *)
LEMMA OneReturns ==
  ASSUME NEW c \in Calls,
         \A d \in Calls \ {c} : call'[d].pc = call[d].pc /\ outcome'[d] = outcome[d]
  PROVE  returned' = [returned EXCEPT ![c] =
           IF call'[c].pc \in {"cleanup", "done"} THEN outcome'[c] ELSE None]
  BY DEF returned

LEMMA NoneReturns ==
  ASSUME \A d \in Calls : call'[d].pc = call[d].pc /\ outcome'[d] = outcome[d]
  PROVE  returned' = returned
  BY DEF returned

LEMMA StepOfCall ==
  ASSUME TypeOK, NEW c \in Calls, NEW from, NEW to, Step(c, from, to)
  PROVE  /\ call[c].pc = from
         /\ call'[c].pc = to /\ call'[c].conn = call[c].conn
         /\ \A d \in Calls \ {c} : call'[d] = call[d]
  BY DEF TypeOK, Step

(* A step that returns r to the caller of c and tells the node nothing.    *)
Returns(c, r) ==
  /\ \E from \in Waiting, to \in {"cleanup", "done"} : Step(c, from, to)
  /\ outcome' = [outcome EXCEPT ![c] = r]
  /\ r \in NotSent => Unsent(c)
  /\ r = "acked" => c \in executed
  /\ UNCHANGED <<wire, executed, acks, reader>>
  /\ \A d \in Calls : reply'[d] = reply[d] \/ reply'[d] = "empty"

LEMMA ReturnKeepsTold ==
  ASSUME Told, TypeOK', NEW c \in Calls, NEW r \in Outcomes, Returns(c, r)
  PROVE  Told' /\ Promise!Return(c, r)
  <1>1. /\ call[c].pc \in Waiting
        /\ call'[c].pc \in {"cleanup", "done"} /\ call'[c].conn = call[c].conn
        /\ \A d \in Calls \ {c} : call'[d] = call[d]
    BY StepOfCall DEF Told, Returns
  <1>2. outcome'[c] = r /\ \A d \in Calls \ {c} : outcome'[d] = outcome[d]
    BY DEF Told, TypeOK, Returns
  <1>3. Results'
    BY <1>1, <1>2 DEF Told, Returns, Results, Unsent
  <1>4. WireOnce'
    BY <1>1 DEF Told, Returns, WireOnce
  <1>5. AcksTruthful'
    BY DEF Told, Returns, AcksTruthful
  <1>6. returned[c] = None
    BY <1>1 DEF returned, Waiting
  <1>7. returned' = [returned EXCEPT ![c] = r]
    BY <1>1, <1>2, OneReturns
  <1>8. QED
    BY <1>3, <1>4, <1>5, <1>6, <1>7
    DEF Told, Returns, Promise!Return, Promise!NotSent, NotSent, Unsent

(* Every step of a call keeps the promise.                                 *)
LEMMA CallTold ==
  ASSUME Told, NEW c \in Calls, CallStep(c)
  PROVE  Told' /\ [Promise!Next]_<<executed, returned>>
  <1> DEFINE Kept == Told' /\ [Promise!Next]_<<executed, returned>>
  <1>1. TypeOK'
    BY CallTypeOK DEF Told
  <1>2. ASSUME NEW r \in Outcomes, Told', Promise!Return(c, r) PROVE Kept
    BY <1>2 DEF Promise!Next, Outcomes, Promise!Outcomes
  <1> HIDE DEF Kept
  <1>3. CASE NodeOffline(c)
    <2>1. Unsent(c)
      BY <1>3 DEF NodeOffline, Step, Told, Results
    <2>2. Returns(c, "offline")
      BY <1>3, <2>1 DEF NodeOffline, Returns, Waiting, nodeVars
    <2>3. QED
      BY <1>1, <1>2, <2>2, ReturnKeepsTold DEF Outcomes, Kept
  <1>4. CASE WriteFails(c)
    <2>1. Unsent(c)
      BY <1>4 DEF WriteFails, Step, Told, Results
    <2>2. Returns(c, "send_error")
      BY <1>4, <2>1 DEF WriteFails, Returns, Waiting, nodeVars
    <2>3. QED
      BY <1>1, <1>2, <2>2, ReturnKeepsTold DEF Outcomes, Kept
  <1>5. CASE Timeout(c)
    <2>1. Returns(c, "timeout")
      BY <1>5 DEF Timeout, Returns, Waiting, NotSent, nodeVars
    <2>2. QED
      BY <1>1, <1>2, <2>1, ReturnKeepsTold DEF Outcomes, Kept
  <1>6. CASE Receive(c)
    <2> DEFINE r == IF reply[c] = "ack" THEN "acked" ELSE "disconnected"
    <2>1. /\ r \in Outcomes /\ r \notin NotSent
          /\ r = "acked" => c \in executed
      BY DEF Told, AcksTruthful, Outcomes, NotSent
    <2>2. \A d \in Calls : reply'[d] = reply[d] \/ reply'[d] = "empty"
      BY <1>6 DEF Receive, Told, TypeOK
    <2>3. outcome' = [outcome EXCEPT ![c] = r]
      BY <1>6 DEF Receive
    <2> HIDE DEF r
    <2>4. Returns(c, r)
      BY <1>6, <2>1, <2>2, <2>3 DEF Receive, Returns, Waiting, nodeVars
    <2>5. QED
      BY <1>1, <1>2, <2>1, <2>4, ReturnKeepsTold DEF Kept
  <1>7. CASE GetConn(c)
    <2>1. /\ call[c].pc = "idle" /\ call'[c].pc = "enlist"
          /\ \A d \in Calls \ {c} : call'[d] = call[d]
          /\ UNCHANGED <<outcome, reply, wire, executed, acks, reader>>
      BY <1>7 DEF GetConn, Told, TypeOK, nodeVars
    <2>2. Unsent(c)
      BY <2>1 DEF Told, Results
    <2>3. Results' /\ WireOnce' /\ AcksTruthful'
      BY <2>1, <2>2 DEF Told, Results, WireOnce, AcksTruthful, Unsent
    <2>4. returned' = returned
      BY <2>1 DEF returned
    <2>5. QED
      BY <1>1, <2>1, <2>3, <2>4 DEF Kept, Told
  <1>8. CASE Enlist(c) \/ Cleanup(c)
    <2>1. /\ Step(c, "enlist", "write") \/ Step(c, "cleanup", "done")
          /\ UNCHANGED <<outcome, reply, wire, executed, acks, reader>>
      BY <1>8 DEF Enlist, Cleanup, nodeVars
    <2>2. /\ \/ call[c].pc = "enlist" /\ call'[c].pc = "write"
             \/ call[c].pc = "cleanup" /\ call'[c].pc = "done"
          /\ call'[c].conn = call[c].conn
          /\ \A d \in Calls \ {c} : call'[d] = call[d]
      BY <2>1, StepOfCall DEF Told
    <2>3. Results' /\ WireOnce' /\ AcksTruthful'
      BY <2>1, <2>2 DEF Told, Results, WireOnce, AcksTruthful, Unsent
    <2>4. returned' = returned
      BY <2>1, <2>2 DEF returned
    <2>5. QED
      BY <1>1, <2>1, <2>3, <2>4 DEF Kept, Told
  <1>9. CASE Write(c)
    <2>1. /\ UNCHANGED <<outcome, reply, executed, acks, reader>>
          /\ wire' \in {wire, wire \cup {<<call[c].conn, c>>}}
      BY <1>9 DEF Write
    <2>2. /\ call[c].pc = "write" /\ call'[c].pc = "wait"
          /\ call'[c].conn = call[c].conn
          /\ \A d \in Calls \ {c} : call'[d] = call[d]
      BY <1>9, StepOfCall DEF Write, Told
    <2>3. Unsent(c) /\ outcome[c] = None
      BY <2>2 DEF Told, Results
    <2>4. Results'
      BY <2>1, <2>2, <2>3, HubAssumption DEF Told, Results, Unsent, NotSent, HubAssumption
    <2>5. WireOnce' /\ AcksTruthful'
      BY <2>1, <2>2, <2>3 DEF Told, WireOnce, AcksTruthful, Unsent
    <2>6. returned' = returned
      BY <2>1, <2>2 DEF returned
    <2>7. QED
      BY <1>1, <2>1, <2>4, <2>5, <2>6 DEF Kept, Told
  <1>10. QED
    BY <1>3, <1>4, <1>5, <1>6, <1>7, <1>8, <1>9 DEF CallStep, Kept

(* The node runs a command once, and only one that was sent.               *)
LEMMA NodeTold ==
  ASSUME Told, NEW k \in Conns, NEW c \in Calls, Execute(k, c) \/ ReadAck(k, c)
  PROVE  Told' /\ [Promise!Next]_<<executed, returned>>
  <1>1. TypeOK' /\ UNCHANGED <<call, outcome, reply>>
    BY NodeTypeOK DEF Told, Execute, ReadAck, callVars
  <1>2. returned' = returned
    BY <1>1 DEF returned
  <1>3. CASE Execute(k, c)
    <2>1. /\ <<k, c>> \in wire /\ wire' = wire \ {<<k, c>>}
          /\ executed' = executed \cup {c} /\ reader' = reader
          /\ \A j \in Conns : \A d \in Calls \ {c} : acks'[j][d] = acks[j][d]
      BY <1>3 DEF Execute, Told, TypeOK
    <2>2. call[c].conn = k /\ c \notin executed
      BY <2>1 DEF Told, WireOnce
    <2>3. \A j \in Conns : <<j, c>> \notin wire'
      BY <2>1, <2>2 DEF Told, WireOnce
    <2>4. ~Unsent(c)
      BY <2>1 DEF Unsent
    <2>5. Results' /\ WireOnce' /\ AcksTruthful'
      BY <1>1, <2>1, <2>2, <2>3, <2>4 DEF Told, Results, WireOnce, AcksTruthful, Unsent
    <2>6. returned[c] \notin NotSent
      BY <2>4, HubAssumption DEF Told, Results, returned, NotSent, HubAssumption
    <2>7. Promise!Run(c)
      BY <1>2, <2>1, <2>2, <2>6 DEF Promise!Run, Promise!NotSent, NotSent
    <2>8. QED
      BY <1>1, <2>5, <2>7 DEF Told, Promise!Next
  <1>4. CASE ReadAck(k, c)
    <2>1. UNCHANGED <<wire, executed>> /\ c \in executed
      BY <1>4, HubAssumption DEF ReadAck, Told, TypeOK, AcksTruthful, HubAssumption
    <2>2. \A j \in Conns : \A d \in Calls \ {c} :
            acks'[j][d] = acks[j][d] /\ (reader'[j] = d => reader[j] = d)
      BY <1>4 DEF ReadAck, Told, TypeOK
    <2>3. Results' /\ WireOnce' /\ AcksTruthful'
      BY <1>1, <2>1, <2>2 DEF Told, Results, WireOnce, AcksTruthful, Unsent
    <2>4. QED
      BY <1>1, <1>2, <2>1, <2>3 DEF Told
  <1>5. QED
    BY <1>3, <1>4

(* Whatever becomes of connections, no result changes.                     *)
LEMMA ConnTold ==
  ASSUME Told, NEW k \in Conns, ConnStep(k)
  PROVE  Told' /\ UNCHANGED <<executed, returned>>
  <1>1. TypeOK' /\ UNCHANGED <<call, outcome, wire, executed, acks>>
    BY ConnTypeOK DEF Told, ConnStep, Hello, Register, PeerLost, Deliver, ReadFails,
       ReadRefuses, FailPending, Unregister, CloseSocket, callVars, nodeVars
  <1>2. returned' = returned
    BY <1>1 DEF returned
  <1>3. Results' /\ WireOnce'
    BY <1>1 DEF Told, Results, WireOnce, Unsent
  <1>4. AcksTruthful'
    <2>1. CASE Deliver(k)
      <3>1. reader[k] \in Calls
        BY <2>1 DEF Deliver, Told, TypeOK
      <3>2. \A d \in Calls : reply'[d] = "ack" => reply[d] = "ack" \/ d = reader[k]
        BY <2>1, <3>1 DEF Deliver, Told, TypeOK
      <3>3. \A j \in Conns, d \in Calls : reader'[j] = d => reader[j] = d
        BY <2>1, HubAssumption DEF Deliver, Told, TypeOK, HubAssumption
      <3>4. QED
        BY <1>1, <3>1, <3>2, <3>3 DEF Told, AcksTruthful
    <2>2. CASE FailPending(k)
      BY <1>1, <2>2 DEF FailPending, Told, TypeOK, AcksTruthful, nodeVars
    <2>3. CASE UNCHANGED <<reply, reader>>
      BY <1>1, <2>3 DEF Told, AcksTruthful
    <2>4. QED
      BY <2>1, <2>2, <2>3 DEF ConnStep, Hello, Register, PeerLost, ReadFails,
         ReadRefuses, Unregister, CloseSocket, callVars, nodeVars
  <1>5. QED
    BY <1>1, <1>2, <1>3, <1>4 DEF Told

LEMMA RotationTold ==
  ASSUME Told, RotateToken \/ RegistryClose \/ UNCHANGED vars
  PROVE  Told' /\ UNCHANGED <<executed, returned>>
  <1>1. TypeOK'
    BY NextTypeOK DEF Told, Next
  <1>2. UNCHANGED <<callVars, nodeVars>>
    BY DEF RotateToken, RegistryClose, vars
  <1>3. QED
    BY <1>1, <1>2
    DEF Told, Results, WireOnce, AcksTruthful, Unsent, returned, callVars, nodeVars

LEMMA InitTold == Init => Told /\ Promise!Init
  <1> SUFFICES ASSUME Init PROVE Told /\ Promise!Init
    OBVIOUS
  <1>1. Results /\ WireOnce
    BY HubAssumption DEF Init, Results, WireOnce, Unsent, NotSent, HubAssumption
  <1>2. AcksTruthful
    BY HubAssumption DEF Init, AcksTruthful, HubAssumption
  <1>3. returned = [c \in Calls |-> None]
    BY DEF Init, returned
  <1>4. QED
    BY <1>1, <1>2, <1>3, InitTypeOK DEF Told, Init, Promise!Init

(* Registry and Conn as a whole: however reconnects, duplicated acks,      *)
(* teardowns, deadlines and token rotations interleave, what every caller  *)
(* is told of its command is what RemoteCall promises.                     *)
THEOREM KeepsPromise == Spec => ImplementsRemoteCall
  <1>1. Told /\ [Next]_vars => Told' /\ [Promise!Next]_<<executed, returned>>
    <2> SUFFICES ASSUME Told, [Next]_vars
                 PROVE  Told' /\ [Promise!Next]_<<executed, returned>>
      OBVIOUS
    <2>1. CASE \E k \in Conns : ConnStep(k)
      BY <2>1, ConnTold
    <2>2. CASE \E c \in Calls : CallStep(c)
      BY <2>2, CallTold
    <2>3. CASE \E k \in Conns, c \in Calls : Execute(k, c) \/ ReadAck(k, c)
      BY <2>3, NodeTold
    <2>4. CASE RotateToken \/ RegistryClose \/ UNCHANGED vars
      BY <2>4, RotationTold
    <2>5. QED
      BY <2>1, <2>2, <2>3, <2>4 DEF Next
  <1>2. QED
    BY <1>1, InitTold, PTL DEF Spec, ImplementsRemoteCall, Promise!Spec

-----------------------------------------------------------------------------
(* Rotations.  A connection that said hello may open later, so it counts   *)
(* as one that goes on with its secret.                                    *)
SecretsAccounted ==
  ~rotating => \A k \in Conns :
    phase[k] \in {"hello", "open"} /\ socket[k] = "up" /\ secret[k] # token => k \in escaped

LEMMA ConnSecrets ==
  ASSUME TypeOK, SecretsAccounted, NEW k \in Conns, ConnStep(k)
  PROVE  SecretsAccounted'
  <1>1. UNCHANGED tokenVars
    BY DEF ConnStep, Hello, Register, PeerLost, Deliver, ReadFails, ReadRefuses,
           FailPending, Unregister, CloseSocket
  <1>2. \A j \in Conns \ {k} : phase'[j] = phase[j] /\ socket'[j] = socket[j] /\ secret'[j] = secret[j]
    BY DEF TypeOK, ConnStep, Hello, Register, PeerLost, Deliver, ReadFails, ReadRefuses,
           FailPending, Unregister, CloseSocket, At, connVars
  <1>3. CASE Hello(k)
    BY <1>1, <1>2, <1>3 DEF TypeOK, SecretsAccounted, Hello, tokenVars
  <1>4. CASE Register(k)
    BY <1>1, <1>2, <1>4 DEF TypeOK, SecretsAccounted, Register, At, tokenVars
  <1>5. CASE ~Hello(k) /\ ~Register(k)
    <2>1. /\ secret'[k] = secret[k]
          /\ socket'[k] = socket[k] \/ socket'[k] # "up"
          /\ phase'[k] = phase[k] \/ phase'[k] \notin {"hello", "open"}
      BY <1>5 DEF TypeOK, ConnStep, PeerLost, Deliver, ReadFails, ReadRefuses,
         FailPending, Unregister, CloseSocket, At, connVars
    <2>2. QED
      BY <1>1, <1>2, <2>1 DEF SecretsAccounted, tokenVars
  <1>6. QED
    BY <1>3, <1>4, <1>5

(* When a rotation is over, whatever still works with an older secret is   *)
(* a connection Registry.Close could not find.                             *)
THEOREM RotationStopsOldSecrets == Spec => []OldSecretStops
  <1>1. Init => SecretsAccounted
    BY DEF Init, SecretsAccounted
  <1>2. TypeOK /\ SecretsAccounted /\ [Next]_vars => SecretsAccounted'
    <2> SUFFICES ASSUME TypeOK, SecretsAccounted, [Next]_vars PROVE SecretsAccounted'
      OBVIOUS
    <2>1. CASE RotateToken
      BY <2>1 DEF RotateToken, SecretsAccounted
    <2>2. CASE RegistryClose
      <3>1. \A k \in Conns : socket'[k] = "up" => socket[k] = "up" /\ k # registered
        BY <2>2, HubAssumption DEF RegistryClose, CloseRegistered, TypeOK, HubAssumption
      <3>2. QED
        BY <2>2, <3>1 DEF RegistryClose, SecretsAccounted
    <2>3. CASE UNCHANGED <<phase, socket, secret, token, rotating, escaped>>
      BY <2>3 DEF SecretsAccounted
    <2>4. ASSUME NEW c \in Calls, CallStep(c) PROVE UNCHANGED <<connVars, tokenVars>>
      BY <2>4 DEF CallStep, NodeOffline, GetConn, Enlist, Write, WriteFails, Receive,
                  Timeout, Cleanup
    <2>5. ASSUME NEW k \in Conns, NEW c \in Calls, Execute(k, c) \/ ReadAck(k, c)
          PROVE  UNCHANGED <<connVars, tokenVars>>
      BY <2>5 DEF Execute, ReadAck
    <2>6. QED
      BY <2>1, <2>2, <2>3, <2>4, <2>5, ConnSecrets DEF Next, vars, connVars, tokenVars
  <1>3. SecretsAccounted => OldSecretStops
    BY DEF SecretsAccounted, OldSecretStops
  <1>4. QED
    BY <1>1, <1>2, <1>3, TypeCorrect, PTL DEF Spec

(***************************************************************************)
(* Replay protection                                                       *)
(***************************************************************************)
(* The second an instant falls in.                                         *)
LEMMA SecondOf ==
  ASSUME NEW t \in Nat, NEW r \in Nat \ {0}
  PROVE  /\ t \div r \in Nat
         /\ r * (t \div r) <= t
         /\ t < r * (t \div r) + r
  <1>1. /\ t \div r \in Nat /\ t % r \in 0 .. r - 1
        /\ t = (r * (t \div r)) + (t % r)
    OBVIOUS
  <1>2. QED
    BY <1>1

LEMMA Monotone ==
  ASSUME NEW a \in Int, NEW b \in Int, NEW r \in Nat, a <= b
  PROVE  a * r <= b * r
  OBVIOUS

(* A fresh envelope arrives inside its interval.                           *)
LEMMA FreshInterval ==
  ASSUME NonceIInv, NEW e \in Envelopes, Fresh(e)
  PROVE  Opens(e) <= clock + drift /\ clock + drift < Closes(e)
  <1> DEFINE w == clock + drift
             s == w \div Res
  <1>1. w \in Nat /\ Res \in Nat \ {0} /\ Skew \in Nat /\ Stamp[e] \in Nat
    BY NonceAssumption DEF NonceAssumption, NonceIInv, NonceTypeOK
  <1>2. s \in Nat /\ Res * s <= w /\ w < Res * s + Res
    BY <1>1, SecondOf
  <1>3. Stamp[e] - Skew <= s /\ s + 1 <= Stamp[e] + Skew + 1
    BY <1>1, <1>2 DEF Fresh, Distance
  <1>4. PICK q \in Nat, r \in Nat, lo \in Int, hi \in Int :
          q = s /\ r = Res /\ lo = Stamp[e] - Skew /\ hi = Stamp[e] + Skew + 1
    <2>1. /\ s \in Nat /\ Res \in Nat
          /\ Stamp[e] - Skew \in Int /\ Stamp[e] + Skew + 1 \in Int
      BY <1>1, <1>2
    <2> HIDE DEF s
    <2>2. QED
      BY <2>1
  <1>5. lo * r <= q * r /\ (q + 1) * r <= hi * r
    BY <1>3, <1>4, Monotone
  <1>6. q * r = Res * s /\ (q + 1) * r = Res * s + Res
    BY <1>1, <1>2, <1>4
  <1>7. lo * r = Opens(e) /\ hi * r = Closes(e) /\ lo * r \in Int /\ hi * r \in Int
    BY <1>4 DEF Opens, Closes
  <1>8. Res * s \in Int
    BY <1>1, <1>2
  <1> HIDE DEF s
  <1>9. QED
    BY <1>1, <1>2, <1>5, <1>6, <1>7, <1>8

(* The TTL outlasts an interval, a drift and a delay.                      *)
LEMMA TTLCovers ==
  ASSUME NEW e \in Envelopes
  PROVE  /\ Opens(e) \in Int /\ Closes(e) \in Int
         /\ Closes(e) + MaxDelay <= Opens(e) - MaxDrift + TTL
  <1>1. PICK st \in Nat, sk \in Nat, r \in Nat : st = Stamp[e] /\ sk = Skew /\ r = Res
    BY NonceAssumption DEF NonceAssumption
  <1>2. (st + sk + 1) * r = (st - sk) * r + (2 * sk + 1) * r
    OBVIOUS
  <1>3. /\ (st + sk + 1) * r \in Int /\ (st - sk) * r \in Int /\ (2 * sk + 1) * r \in Int
        /\ MaxDelay \in Nat /\ MaxDrift \in Nat /\ TTL \in Nat
        /\ TTL >= (2 * sk + 1) * r + MaxDrift + MaxDelay
    BY <1>1, NonceAssumption, TTLAssumption DEF NonceAssumption
  <1>4. Opens(e) = (st - sk) * r /\ Closes(e) = (st + sk + 1) * r
    BY <1>1 DEF Opens, Closes
  <1>5. QED
    BY <1>2, <1>3, <1>4

LEMMA InitIInv == NonceInit => NonceIInv
  BY NonceAssumption DEF NonceAssumption, NonceInit, NonceIInv, NonceTypeOK, Verified, Remembered, AcceptedOnce

LEMMA VerifyIInv ==
  ASSUME NonceIInv, NEW e \in Envelopes, Verify(e)
  PROVE  NonceIInv'
  <1>1. NonceTypeOK'
    BY DEF Verify, NonceIInv, NonceTypeOK
  <1>2. Verified'
    <2>1. CASE Fresh(e)
      <3>1. Opens(e) <= clock + drift /\ clock + drift < Closes(e)
        BY <2>1, FreshInterval
      <3>2. /\ Opens(e) \in Int /\ Closes(e) \in Int /\ clock \in Nat
            /\ drift \in 0 .. MaxDrift /\ MaxDrift \in Nat /\ MaxDelay \in Nat
        BY TTLCovers, NonceAssumption DEF NonceAssumption, NonceIInv, NonceTypeOK
      <3>3. reading' = e /\ since' = clock /\ clock' = clock
        BY <2>1 DEF Verify
      <3>4. Opens(e)' = Opens(e) /\ Closes(e)' = Closes(e)
        BY DEF Opens, Closes
      <3>5. QED
        BY <3>1, <3>2, <3>3, <3>4 DEF Verified, Opens, Closes
    <2>2. CASE ~Fresh(e)
      BY <2>2 DEF Verify, Verified, NonceIInv
    <2>3. QED
      BY <2>1, <2>2
  <1>3. Remembered' /\ AcceptedOnce'
    BY DEF Verify, NonceIInv, Remembered, AcceptedOnce, Opens
  <1>4. QED
    BY <1>1, <1>2, <1>3 DEF NonceIInv

(* When an envelope passes both checks it was never accepted before: the   *)
(* cache has not forgotten an envelope that is still fresh.                *)
LEMMA NotAcceptedBefore ==
  ASSUME NonceIInv, NEW e \in Envelopes, reading = e, seen[e] = Nil \/ Expired(e)
  PROVE  accepted[e] = 0
  <1>1. /\ clock \in Nat /\ since \in Nat /\ MaxDelay \in Nat /\ MaxDrift \in Nat
        /\ TTL \in Nat /\ accepted[e] \in Nat /\ seen[e] \in Nat \cup {Nil} /\ e # Nil
    BY NonceAssumption DEF NonceAssumption, NonceIInv, NonceTypeOK
  <1>2. /\ Opens(e) \in Int /\ Closes(e) \in Int
        /\ Closes(e) + MaxDelay <= Opens(e) - MaxDrift + TTL
    BY TTLCovers
  <1>3. clock <= since + MaxDelay /\ since < Closes(e)
    BY <1>1 DEF NonceIInv, Verified
  <1>4. clock < Opens(e) - MaxDrift + TTL
    BY <1>1, <1>2, <1>3
  <1>5. ~Expired(e)
    <2> SUFFICES ASSUME Expired(e) PROVE FALSE
      OBVIOUS
    <2>1. seen[e] # Nil /\ clock - seen[e] >= TTL
      BY DEF Expired
    <2>2. Opens(e) - MaxDrift <= seen[e] /\ seen[e] \in Nat
      BY <1>1, <2>1 DEF NonceIInv, Remembered
    <2>3. QED
      BY <1>1, <1>2, <1>4, <2>1, <2>2
  <1>6. ~(accepted[e] > 0)
    <2>1. accepted[e] > 0 => clock >= Opens(e) - MaxDrift + TTL
      BY <1>5 DEF NonceIInv, Remembered
    <2>2. QED
      BY <1>1, <1>2, <1>4, <2>1
  <1>7. QED
    BY <1>1, <1>6

LEMMA RecordIInv ==
  ASSUME NonceIInv, CheckAndRecord
  PROVE  NonceIInv'
  <1>1. PICK e \in Envelopes : reading = e /\ e # Nil
    BY DEF CheckAndRecord, NonceIInv, NonceTypeOK
  <1> DEFINE swept == [f \in Envelopes |-> IF Expired(f) THEN Nil ELSE seen[f]]
  <1>2. swept \in [Envelopes -> Nat \cup {Nil}] /\ Nil \notin Nat
    BY NonceAssumption DEF NonceAssumption, NonceIInv, NonceTypeOK
  <1>3. \/ /\ swept[e] = Nil
           /\ seen' = [swept EXCEPT ![e] = clock]
           /\ accepted' = [accepted EXCEPT ![e] = @ + 1]
           /\ open' = open
        \/ seen' = swept /\ accepted' = accepted /\ open' = FALSE
    BY <1>1 DEF CheckAndRecord
  <1>4. /\ reading' = Nil /\ clock' = clock /\ since' = since /\ drift' = drift
        /\ clock \in Nat
    BY DEF CheckAndRecord, NonceIInv, NonceTypeOK
  <1>5. NonceTypeOK'
    <2> HIDE DEF swept
    <2>1. seen' \in [Envelopes -> Nat \cup {Nil}]
      BY <1>2, <1>3, <1>4
    <2>2. accepted' \in [Envelopes -> Nat]
      BY <1>3 DEF NonceIInv, NonceTypeOK
    <2>3. open' \in BOOLEAN
      <3>1. open \in BOOLEAN
        BY DEF NonceIInv, NonceTypeOK
      <3>2. open' = open \/ open' = FALSE
        BY <1>3, Zenon
      <3>3. QED
        BY <3>1, <3>2
    <2>4. QED
      BY <1>4, <2>1, <2>2, <2>3 DEF NonceIInv, NonceTypeOK
  <1>6. Verified'
    BY <1>4 DEF Verified
  <1>7. swept[e] = Nil => accepted[e] = 0
    BY <1>1, NotAcceptedBefore
  <1>8. AcceptedOnce'
    BY <1>3, <1>7 DEF NonceIInv, NonceTypeOK, AcceptedOnce
  (* what the sweep drops is a TTL old *)
  <1>9. \A f \in Envelopes :
          IF swept[f] # Nil
          THEN Opens(f) - MaxDrift <= swept[f] /\ swept[f] <= clock
          ELSE accepted[f] > 0 => clock >= Opens(f) - MaxDrift + TTL
    <2> SUFFICES ASSUME NEW f \in Envelopes
                 PROVE  IF swept[f] # Nil
                        THEN Opens(f) - MaxDrift <= swept[f] /\ swept[f] <= clock
                        ELSE accepted[f] > 0 => clock >= Opens(f) - MaxDrift + TTL
      OBVIOUS
    <2>1. CASE Expired(f)
      <3>1. /\ seen[f] \in Nat /\ clock - seen[f] >= TTL
            /\ Opens(f) - MaxDrift <= seen[f]
        BY <2>1 DEF Expired, NonceIInv, NonceTypeOK, Remembered
      <3>2. Opens(f) \in Int /\ MaxDrift \in Nat /\ TTL \in Nat
        BY TTLCovers, NonceAssumption DEF NonceAssumption
      <3>3. clock >= Opens(f) - MaxDrift + TTL
        BY <3>1, <3>2, <1>4
      <3>4. QED
        BY <2>1, <3>3
    <2>2. CASE ~Expired(f)
      BY <2>2 DEF NonceIInv, Remembered
    <2>3. QED
      BY <2>1, <2>2
  <1>10. Opens(e) - MaxDrift <= clock
    <2>1. /\ since \in Nat /\ since <= clock /\ Opens(e) - MaxDrift <= since
          /\ Opens(e) \in Int /\ MaxDrift \in Nat
      BY <1>1, TTLCovers, NonceAssumption DEF NonceAssumption, NonceIInv, NonceTypeOK, Verified
    <2>2. QED
      BY <1>4, <2>1
  <1>11. Remembered'
    <2> SUFFICES ASSUME NEW f \in Envelopes
                 PROVE  IF seen'[f] # Nil
                        THEN Opens(f) - MaxDrift <= seen'[f] /\ seen'[f] <= clock'
                        ELSE accepted'[f] > 0 => clock' >= Opens(f) - MaxDrift + TTL
      BY DEF Remembered, Opens
    <2>1. CASE f = e
      BY <1>2, <1>3, <1>4, <1>9, <1>10, <2>1
    <2>2. CASE f # e
      <3>1. seen'[f] = swept[f] /\ accepted'[f] = accepted[f]
        BY <1>3, <2>2 DEF NonceIInv, NonceTypeOK
      <3> HIDE DEF swept
      <3>2. QED
        BY <3>1, <1>4, <1>9
    <2>3. QED
      BY <2>1, <2>2
  <1>12. QED
    BY <1>5, <1>6, <1>8, <1>11 DEF NonceIInv

LEMMA TickIInv ==
  ASSUME NonceIInv, ClockTicks
  PROVE  NonceIInv'
  <1>1. NonceTypeOK' /\ AcceptedOnce'
    BY DEF ClockTicks, NonceIInv, NonceTypeOK, AcceptedOnce
  <1>2. Verified'
    BY NonceAssumption DEF NonceAssumption, ClockTicks, NonceIInv, NonceTypeOK, Verified, Opens, Closes
  <1>3. Remembered'
    <2> SUFFICES ASSUME NEW e \in Envelopes
                 PROVE  IF seen[e] # Nil
                        THEN Opens(e) - MaxDrift <= seen[e] /\ seen[e] <= clock + 1
                        ELSE accepted[e] > 0 => clock + 1 >= Opens(e) - MaxDrift + TTL
      BY DEF ClockTicks, Remembered, Opens
    <2>1. Opens(e) \in Int /\ MaxDrift \in Nat /\ TTL \in Nat /\ clock \in Nat
          /\ seen[e] \in Nat \cup {Nil}
      BY TTLCovers, NonceAssumption DEF NonceAssumption, NonceIInv, NonceTypeOK
    <2>2. IF seen[e] # Nil
          THEN Opens(e) - MaxDrift <= seen[e] /\ seen[e] <= clock
          ELSE accepted[e] > 0 => clock >= Opens(e) - MaxDrift + TTL
      BY DEF NonceIInv, Remembered
    <2>3. QED
      BY <2>1, <2>2
  <1>4. QED
    BY <1>1, <1>2, <1>3 DEF NonceIInv

LEMMA Invariance == NonceSpec => []NonceIInv
  <1>1. NonceIInv /\ [NonceNext]_nonceVars => NonceIInv'
    <2> SUFFICES ASSUME NonceIInv, [NonceNext]_nonceVars PROVE NonceIInv'
      OBVIOUS
    <2>1. CASE AdjustWallClock
      BY <2>1 DEF AdjustWallClock, NonceIInv, NonceTypeOK, Verified, Remembered, AcceptedOnce, Opens, Closes
    <2>2. CASE UNCHANGED nonceVars
      BY <2>2 DEF nonceVars, NonceIInv, NonceTypeOK, Verified, Remembered, AcceptedOnce, Opens, Closes
    <2>3. QED
      BY <2>1, <2>2, VerifyIInv, RecordIInv, TickIInv DEF NonceNext
  <1>2. QED
    BY InitIInv, <1>1, PTL DEF NonceSpec

(* agenthub readLoop: no envelope is acted on twice on a connection, for   *)
(* any timestamps, skew, resolution, drift and delay the TTL covers.       *)
THEOREM NoReplay == NonceSpec => []AcceptedOnce
  <1>1. NonceIInv => AcceptedOnce
    BY DEF NonceIInv
  <1>2. QED
    BY <1>1, Invariance, PTL
=============================================================================
