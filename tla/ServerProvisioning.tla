------------------------- MODULE ServerProvisioning -------------------------
(***************************************************************************)
(* Creating, resizing and deleting servers: the quota check, the server    *)
(* row and its ports (httpapi handlers, quotasvc, serversvc, the servers   *)
(* and allocations tables).                                                *)
(*                                                                         *)
(* Create and clone requests of one user hold that user's lock             *)
(* (KeyedMutex, through what it promises: PerKeyLock) from the check to    *)
(* the end; nothing else takes it.  Each database call is one step.        *)
(* Memory stands for the three dimensions of a quota, which are read and   *)
(* compared alike.                                                         *)
(***************************************************************************)
EXTENDS Integers, FiniteSets, Functions

CONSTANTS
  Users,     \* accounts that are not administrators
  Servers,   \* server ids, never reused
  Ports,     \* the allocations of one node, by port number
  Procs,     \* request goroutines
  None,
  Sizes,     \* memory a request may ask for
  Limits,    \* effective quotas: defaults, purchases, what administrators set
  Kinds      \* the request kinds an instance generates

ASSUME ProvisioningAssumption ==
  /\ Sizes \subseteq Nat \ {0} /\ Limits \subseteq Nat /\ Limits # {}
  /\ Ports \subseteq Nat \ {0} /\ IsFiniteSet(Ports) /\ IsFiniteSet(Servers)
  /\ Kinds \subseteq {"create", "delete", "resize", "ports", "admin"}
  /\ None \notin Users \cup Servers \cup Procs

VARIABLES
  owners,    \* per user: the goroutine that holds the create lock
  srv,       \* per server: its row, blank when unborn or gone
  port,      \* allocations.server_id, per port
  limit,     \* per user: the effective quota
  req,       \* what each request goroutine is doing
  ceiling,   \* history: per user the largest limit so far
  exempt,    \* history: users an administrator gave resources unmetered
  doomed,    \* history: servers whose deletion began
  stranded,  \* history: servers whose creation was cut short without cleanup
  raced      \* history: users a resize of whom overlapped another request,
             \* servers a detach of whose port began before they had one

history == <<ceiling, exempt, doomed, stranded, raced>>
vars == <<owners, srv, port, limit, req, history>>

Lock == INSTANCE PerKeyLock WITH Keys <- Users

Blank(state) == [state |-> state, owner |-> None, mem |-> 0, port |-> 0]
Idle == [pc |-> "idle", user |-> None, server |-> None, mem |-> 0, limit |-> 0, port |-> 0]

Exists(s) == srv[s].state = "row"

Mem == [s \in Servers |-> srv[s].mem]

OwnedBy(u, except) == {s \in Servers \ {except} : Exists(s) /\ srv[s].owner = u}

Usage(u, except) == SumFunctionOnSet(Mem, OwnedBy(u, except))

Free == {q \in Ports : port[q] = None}

\* Deleting a server row sets the server of its allocations to NULL.
DropRow(s) ==
  /\ srv' = [srv EXCEPT ![s] = Blank("gone")]
  /\ port' = [q \in Ports |-> IF port[q] = s THEN None ELSE port[q]]

Goto(p, step) == req' = [req EXCEPT ![p].pc = step]
Finish(p) == req' = [req EXCEPT ![p] = Idle]
Release(p) == req' = [req EXCEPT ![p] = [Idle EXCEPT !.pc = "unlock", !.user = req[p].user]]

-----------------------------------------------------------------------------
(* CreateServer and CloneServer.                                           *)

\* Request q of u, or a resize of u, has yet to write what it is checked for.
PendingOf(q, u) ==
  req[q].user = u /\ req[q].pc \in {"limit", "usage", "insert", "update"}
Pending(u) == \E q \in Procs : PendingOf(q, u)
ResizePending(u) == \E q \in Procs : PendingOf(q, u) /\ req[q].server # None

CreateLock(p, u, m) ==
  /\ "create" \in Kinds
  /\ req[p] = Idle
  /\ Lock!Take(p, u)
  /\ req' = [req EXCEPT ![p] = [Idle EXCEPT !.pc = "limit", !.user = u, !.mem = m]]
  /\ raced' = IF ResizePending(u) THEN raced \cup {u} ELSE raced
  /\ UNCHANGED <<srv, port, limit, ceiling, exempt, doomed, stranded>>

\* quotasvc.Effective
ReadLimit(p) ==
  /\ req[p].pc = "limit"
  /\ req' = [req EXCEPT ![p].pc = "usage", ![p].limit = limit[req[p].user]]
  /\ UNCHANGED <<owners, srv, port, limit, history>>

\* The handler answers with an error; a create releases its lock.
Refuse(p) ==
  IF req[p].server = None THEN Release(p) ELSE Finish(p)

CheckUsageBefore(p) ==
  /\ req[p].pc = "usage"
  /\ IF Usage(req[p].user, req[p].server) < req[p].limit
     THEN req' = [req EXCEPT ![p].limit = 0,
                             ![p].pc = IF req[p].server = None THEN "insert" ELSE "update"]
     ELSE Refuse(p)
  /\ UNCHANGED <<owners, srv, port, limit, history>>

\* quotasvc.Usage and the comparison, which leaves out the server resized.
CheckUsage(p) ==
  /\ req[p].pc = "usage"
  /\ IF Usage(req[p].user, req[p].server) + req[p].mem <= req[p].limit
     THEN req' = [req EXCEPT ![p].limit = 0,
                             ![p].pc = IF req[p].server = None THEN "insert" ELSE "update"]
     ELSE Refuse(p)
  /\ UNCHANGED <<owners, srv, port, limit, history>>

QueryFails(p) ==
  /\ req[p].pc \in {"limit", "usage", "insert", "update"}
  /\ Refuse(p)
  /\ UNCHANGED <<owners, srv, port, limit, history>>

InsertRow(p) ==
  /\ req[p].pc = "insert"
  /\ \E s \in Servers :
       /\ srv[s].state = "unborn"
       /\ srv' = [srv EXCEPT ![s] =
            [state |-> "row", owner |-> req[p].user, mem |-> req[p].mem, port |-> 0]]
       /\ req' = [req EXCEPT ![p].pc = "claim", ![p].server = s, ![p].mem = 0]
  /\ UNCHANGED <<owners, port, limit, history>>

\* ClaimFree takes the lowest free port; without one, or for a server that
\* is already gone, the create is undone.
ClaimFree(p) ==
  /\ req[p].pc = "claim"
  /\ IF Exists(req[p].server) /\ Free # {}
     THEN \E q \in Free :
            /\ \A other \in Free : q <= other
            /\ port' = [port EXCEPT ![q] = req[p].server]
            /\ req' = [req EXCEPT ![p].pc = "setport", ![p].port = q]
     ELSE Goto(p, "undo") /\ UNCHANGED port
  /\ UNCHANGED <<owners, srv, limit, history>>

SetPrimaryPort(p) ==
  /\ req[p].pc = "setport" /\ Exists(req[p].server)
  /\ srv' = [srv EXCEPT ![req[p].server].port = req[p].port]
  /\ Release(p)
  /\ UNCHANGED <<owners, port, limit, history>>

\* The handler answers with the error and cleans nothing up.
CallFailsNoUndo(p) ==
  /\ \/ req[p].pc = "claim" /\ Release(p)
     \/ req[p].pc = "setport" /\ Release(p)
  /\ UNCHANGED <<owners, srv, port, limit, history>>

\* A call fails; so does an UPDATE of a row that is gone.
CallFails(p) ==
  /\ \/ req[p].pc = "claim" /\ Goto(p, "undo")
     \/ req[p].pc = "setport" /\ Goto(p, "release")
  /\ UNCHANGED <<owners, srv, port, limit, history>>

\* The cleanup of a failed create drops its own errors.
ReleasePorts(p) ==
  /\ req[p].pc = "release"
  /\ \/ port' = [q \in Ports |-> IF port[q] = req[p].server THEN None ELSE port[q]]
     \/ UNCHANGED port
  /\ Goto(p, "undo")
  /\ UNCHANGED <<owners, srv, limit, history>>

UndoCreate(p) ==
  /\ req[p].pc = "undo"
  /\ LET s == req[p].server IN
     \/ IF Exists(s) THEN DropRow(s) /\ UNCHANGED stranded
                     ELSE UNCHANGED <<srv, port, stranded>>
     \/ stranded' = stranded \cup {s} /\ UNCHANGED <<srv, port>>
  /\ Release(p)
  /\ UNCHANGED <<owners, limit, ceiling, exempt, doomed, raced>>

Unlock(p) ==
  /\ req[p].pc = "unlock"
  /\ Lock!Give(p, req[p].user)
  /\ Finish(p)
  /\ UNCHANGED <<srv, port, limit, history>>

-----------------------------------------------------------------------------
(* UpdateServer: checked like a create, without the lock.                  *)

ResizeBegin(p, s, m) ==
  /\ "resize" \in Kinds
  /\ req[p] = Idle /\ Exists(s)
  /\ req' = [req EXCEPT ![p] =
       [Idle EXCEPT !.pc = "limit", !.user = srv[s].owner, !.server = s, !.mem = m]]
  /\ raced' = IF Pending(srv[s].owner) THEN raced \cup {srv[s].owner} ELSE raced
  /\ UNCHANGED <<owners, srv, port, limit, ceiling, exempt, doomed, stranded>>

UpdateSettings(p) ==
  /\ req[p].pc = "update"
  /\ srv' = IF Exists(req[p].server)
            THEN [srv EXCEPT ![req[p].server].mem = req[p].mem] ELSE srv
  /\ Finish(p)
  /\ UNCHANGED <<owners, port, limit, history>>

-----------------------------------------------------------------------------
(* DeleteServer.                                                           *)

DeleteBegin(p, s) ==
  /\ "delete" \in Kinds
  /\ req[p] = Idle /\ Exists(s)
  /\ req' = [req EXCEPT ![p] = [Idle EXCEPT !.pc = "delrelease", !.server = s]]
  /\ doomed' = doomed \cup {s}
  /\ UNCHANGED <<owners, srv, port, limit, ceiling, exempt, stranded, raced>>

DeleteRelease(p) ==
  /\ req[p].pc = "delrelease"
  /\ \/ /\ port' = [q \in Ports |-> IF port[q] = req[p].server THEN None ELSE port[q]]
        /\ Goto(p, "delrow")
     \/ Finish(p) /\ UNCHANGED port
  /\ UNCHANGED <<owners, srv, limit, history>>

DeleteRow(p) ==
  /\ req[p].pc = "delrow"
  /\ \/ Exists(req[p].server) /\ DropRow(req[p].server)
     \/ UNCHANGED <<srv, port>>
  /\ Finish(p)
  /\ UNCHANGED <<owners, limit, history>>

-----------------------------------------------------------------------------
(* Additional ports: AddServerAllocation and RemoveServerAllocation.       *)

Attach(p, s, q) ==
  /\ "ports" \in Kinds
  /\ req[p] = Idle /\ Exists(s)
  /\ q \in Free
  /\ port' = [port EXCEPT ![q] = s]
  /\ req' = [req EXCEPT ![p] = [Idle EXCEPT !.pc = "attached", !.server = s, !.port = q]]
  /\ UNCHANGED <<owners, srv, limit, history>>

ReleaseOne(p) ==
  port' = [port EXCEPT ![req[p].port] = IF @ = req[p].server THEN None ELSE @]

\* The container could not be recreated with the port: give it back.
AttachEnds(p) ==
  /\ req[p].pc = "attached"
  /\ ReleaseOne(p) \/ UNCHANGED port
  /\ Finish(p)
  /\ UNCHANGED <<owners, srv, limit, history>>

\* Reads the server, with its primary port ...
DetachBegin(p, s) ==
  /\ "ports" \in Kinds
  /\ req[p] = Idle /\ Exists(s)
  /\ req' = [req EXCEPT ![p] =
       [Idle EXCEPT !.pc = "detach", !.server = s, !.port = srv[s].port]]
  /\ raced' = IF srv[s].port = 0 THEN raced \cup {s} ELSE raced
  /\ UNCHANGED <<owners, srv, port, limit, ceiling, exempt, doomed, stranded>>

DetachAnyPort(p, q) ==
  /\ req[p].pc = "detach"
  /\ port[q] = req[p].server
  /\ req' = [req EXCEPT ![p].pc = "detached", ![p].port = q]
  /\ UNCHANGED <<owners, srv, port, limit, history>>

\* ... then the allocation, which must be the server's and not its primary ...
DetachCheck(p, q) ==
  /\ req[p].pc = "detach"
  /\ IF port[q] = req[p].server /\ q # req[p].port
     THEN req' = [req EXCEPT ![p].pc = "detached", ![p].port = q]
     ELSE Finish(p)
  /\ UNCHANGED <<owners, srv, port, limit, history>>

\* ... then releases it.
DetachRelease(p) ==
  /\ req[p].pc = "detached"
  /\ ReleaseOne(p)
  /\ Finish(p)
  /\ UNCHANGED <<owners, srv, limit, history>>

-----------------------------------------------------------------------------
(* Administrators: quotas, unmetered resizes, transfers.                   *)

SetLimit(u) ==
  /\ \E n \in Limits :
       /\ limit' = [limit EXCEPT ![u] = n]
       /\ ceiling' = [ceiling EXCEPT ![u] = IF n > @ THEN n ELSE @]
  /\ UNCHANGED <<owners, srv, port, req, exempt, doomed, stranded, raced>>

AdminResize(s, m) ==
  /\ "admin" \in Kinds
  /\ Exists(s)
  /\ srv' = [srv EXCEPT ![s].mem = m]
  /\ exempt' = exempt \cup {srv[s].owner}
  /\ UNCHANGED <<owners, port, limit, req, ceiling, doomed, stranded, raced>>

AdminTransfer(s, u) ==
  /\ "admin" \in Kinds
  /\ Exists(s)
  /\ srv' = [srv EXCEPT ![s].owner = u]
  /\ exempt' = exempt \cup {u}
  /\ UNCHANGED <<owners, port, limit, req, ceiling, doomed, stranded, raced>>

Creating(s) ==
  \E p \in Procs : req[p].server = s /\ req[p].pc \in {"claim", "setport", "release", "undo"}

\* The panel process restarts: its goroutines and locks are gone.
Restart ==
  /\ \E p \in Procs : req[p] # Idle
  /\ req' = [p \in Procs |-> Idle]
  /\ owners' = [u \in Users |-> {}]
  /\ stranded' = stranded \cup {s \in Servers : Creating(s)}
  /\ UNCHANGED <<srv, port, limit, ceiling, exempt, doomed, raced>>

-----------------------------------------------------------------------------
Init ==
  /\ Lock!Init
  /\ srv = [s \in Servers |-> Blank("unborn")]
  /\ port = [q \in Ports |-> None]
  /\ \E n \in Limits : limit = [u \in Users |-> n]
  /\ req = [p \in Procs |-> Idle]
  /\ ceiling = limit
  /\ exempt = {}
  /\ doomed = {}
  /\ stranded = {}
  /\ raced = {}

CreateStep(p) ==
  \/ \E u \in Users, m \in Sizes : CreateLock(p, u, m)
  \/ ReadLimit(p) \/ CheckUsage(p) \/ QueryFails(p)
  \/ InsertRow(p) \/ ClaimFree(p) \/ SetPrimaryPort(p) \/ CallFails(p)
  \/ ReleasePorts(p) \/ UndoCreate(p) \/ Unlock(p)

ServerStep(p, s) ==
  \/ \E m \in Sizes : ResizeBegin(p, s, m)
  \/ DeleteBegin(p, s)
  \/ \E q \in Ports : Attach(p, s, q)
  \/ DetachBegin(p, s)

RequestStep(p) ==
  \/ UpdateSettings(p)
  \/ DeleteRelease(p) \/ DeleteRow(p)
  \/ AttachEnds(p) \/ DetachRelease(p)
  \/ \E q \in Ports : DetachCheck(p, q)

AdminStep ==
  \/ \E u \in Users : SetLimit(u)
  \/ \E s \in Servers, m \in Sizes : AdminResize(s, m)
  \/ \E s \in Servers, u \in Users : AdminTransfer(s, u)

Next ==
  \/ \E p \in Procs : \/ CreateStep(p) \/ RequestStep(p)
                      \/ \E s \in Servers : ServerStep(p, s)
  \/ AdminStep
  \/ Restart

Spec == Init /\ [][Next]_vars

-----------------------------------------------------------------------------
(* Properties.                                                             *)

(* quotasvc and the create lock: however many create, clone and delete     *)
(* requests of a user run at once, and whenever the quota is changed, what *)
(* the user's servers add up to never exceeds the largest quota the user   *)
(* has had, unless a resize overlapped another request of the user.        *)
QuotaHolds ==
  \A u \in Users : u \notin exempt \cup raced => Usage(u, None) <= ceiling[u]

(* What the changelog says of quotas: creating and resizing are checked,   *)
(* so nothing but an administrator takes a user beyond the quota.          *)
QuotaHoldsForResizes ==
  \A u \in Users : u \notin exempt => Usage(u, None) <= ceiling[u]

(* A server whose creation finished holds its primary port until it is     *)
(* deleted, so no two servers ever share one, unless a detach began        *)
(* before the server had its port.                                         *)
PrimaryPortHeld ==
  \A s \in Servers :
    Exists(s) /\ s \notin doomed \cup raced /\ srv[s].port # 0 => port[srv[s].port] = s

(* The cleanup of CreateServer: a row without a port, which would count    *)
(* against the quota for ever, belongs to a create under way, to one whose *)
(* cleanup failed, or to one a restart cut short.                          *)
NoPortlessRow ==
  \A s \in Servers :
    Exists(s) /\ srv[s].port = 0 => Creating(s) \/ s \in stranded
=============================================================================
