--------------------------- MODULE ServerLifecycle ---------------------------
(***************************************************************************)
(* The life of one server: its row (status and suspension) in the panel's  *)
(* database against its container on the node (serversvc.Service and the   *)
(* handlers, automations and background goroutines that call it).          *)
(*                                                                         *)
(* Every operation is a list of steps, each one database call or one       *)
(* command to the node; operations of one server interleave freely, for    *)
(* nothing serialises them.  A command has the outcomes RemoteCall leaves  *)
(* it: it ran and was acknowledged, it never runs, or its caller stopped   *)
(* waiting and the node may run it yet.                                    *)
(***************************************************************************)
EXTENDS Naturals, Sequences, FiniteSets

CONSTANTS
  Jobs,    \* request and background goroutines
  MaxEvents,  \* bound: operations begun and faults met
  MaxLate  \* bound: commands that may be pending with nobody waiting

ASSUME LifecycleAssumption == MaxEvents \in Nat /\ MaxLate \in Nat

Mishaps == {"disturbed",   \* two operations of the server were under way at
                           \* once, or it did not go as the panel was told
            "crossed",     \* one of them deleted it, the other provisioned it
            "unanswered",  \* a caller stopped waiting for a command
            "unstopped",   \* the node refused a stop or a removal
            "outage"}      \* a database call failed or the panel restarted

VARIABLES
  row,        \* the servers row, and whether it is there: unborn, row or gone
  container,  \* on the node: "none", "stopped" or "running"
  late,       \* commands nobody waits for any more and the node may run yet
  events,     \* history: operations begun and faults met so far
  job,        \* per goroutine: its operation and the steps it has left
  mishaps,    \* history: what went wrong so far
  stopped,    \* history: a stop was acknowledged since the server was suspended
  excused     \* history: and then somebody entitled to it started the server

vars == <<row, container, late, events, job, mishaps, stopped, excused>>

Commands == {"create", "start", "stop", "remove"}

Provisioning == {"provision", "update", "ports", "reinstall"}

\* The mutant deletes the row before it removes the container.
DeletePlanRowFirst == <<"load", "release", "drop", "remove">>
DeletePlan == <<"load", "remove", "release", "drop">>

Plan == [
  provision |-> <<"load", "create", "start", "settle">>,
  update    |-> <<"load", "create", "start", "settle">>,
  ports     |-> <<"create", "start", "settle">>,
  reinstall |-> <<"installing", "load", "installing", "create", "start", "settle">>,
  start     |-> <<"load", "start", "running">>,
  stop      |-> <<"load", "stop", "offline">>,
  restart   |-> <<"load", "stop", "offline", "load", "start", "running">>,
  suspend   |-> <<"load", "suspend", "stop", "offline">>,
  unsuspend |-> <<"load", "unsuspend">>,
  delete    |-> DeletePlan]

Ops == DOMAIN Plan

Actors == [
  provision |-> {}, update |-> {"owner", "admin"}, ports |-> {"admin"},
  reinstall |-> {"owner", "admin"}, start |-> {"owner", "admin", "automation"},
  stop |-> {"owner", "admin", "automation"}, restart |-> {"automation"},
  suspend |-> {"admin"}, unsuspend |-> {"admin"}, delete |-> {"owner", "admin"}]

Idle == [op |-> "none", left |-> <<>>, auto |-> FALSE, was |-> FALSE,
         entitled |-> FALSE]

Alive == row.state = "row"
At(j, step) == job[j].left # <<>> /\ Head(job[j].left) = step
Rest(j) == IF Len(job[j].left) = 1 THEN Idle ELSE [job[j] EXCEPT !.left = Tail(@)]

Advance(j) == job' = [job EXCEPT ![j] = Rest(j)]
Abandon(j) == job' = [job EXCEPT ![j] = Idle]
Happens == events < MaxEvents /\ events' = events + 1
Note(m) == mishaps' = mishaps \cup m

-----------------------------------------------------------------------------
(* Operations begin.                                                       *)

Clash(op) ==
  (IF \E j \in Jobs : job[j] # Idle THEN {"disturbed"} ELSE {})
  \cup (IF \/ op = "delete" /\ \E j \in Jobs : job[j].op \in Provisioning
           \/ op \in Provisioning /\ \E j \in Jobs : job[j].op = "delete"
        THEN {"crossed"} ELSE {})

\* CreateServer answers and leaves the rest to a goroutine.
Create(j) ==
  /\ row.state = "unborn" /\ job[j] = Idle
  /\ row' = [row EXCEPT !.state = "row"]
  /\ job' = [job EXCEPT ![j] =
       [Idle EXCEPT !.op = "provision", !.left = Plan.provision]]
  /\ UNCHANGED <<container, late, events, mishaps, stopped, excused>>

\* The mutant freezes settings and reinstalls, and lets the owner start.
FrozenButStart(op, by) ==
  /\ row.suspended
  /\ by = "automation" \/ (by = "owner" /\ op \in {"update", "reinstall"})

\* What the owner and the automations of a suspended server may not do.
Frozen(op, by) ==
  /\ row.suspended
  /\ \/ by = "automation"
     \/ by = "owner" /\ op \in {"start", "update", "reinstall"}

Begin(j, op, by) ==
  /\ Alive /\ job[j] = Idle
  /\ Happens
  /\ by \in Actors[op]
  /\ \/ ~Frozen(op, by) /\ Note(Clash(op))
     \* RunScheduleAction goes on when its look at the flag fails
     \/ by = "automation" /\ Note(Clash(op) \cup {"outage", "disturbed"})
  /\ job' = [job EXCEPT ![j] =
       [op |-> op, left |-> Plan[op],
        auto |-> op = "ports" /\ row.status = "running",
        was |-> op \in Provisioning /\ row.status = "running",
        entitled |-> by = "admin"]]
  /\ UNCHANGED <<row, container, late, stopped, excused>>

-----------------------------------------------------------------------------
(* Database calls.                                                         *)

Set(j, step, status) ==
  /\ At(j, step) /\ Alive
  /\ row' = [row EXCEPT !.status = status]
  /\ Advance(j)
  /\ UNCHANGED <<container, late, events, mishaps, stopped, excused>>

\* The mutant never starts what it provisioned again.
LoadPowerForgotten(j) ==
  /\ At(j, "load") /\ Alive
  /\ job' = [job EXCEPT ![j] = [Rest(j) EXCEPT !.auto = job[j].op = "provision"]]
  /\ UNCHANGED <<row, container, late, events, mishaps, stopped, excused>>

\* A first provisioning starts the server, a later one if it was running.
Load(j) ==
  /\ At(j, "load") /\ Alive
  /\ job' = [job EXCEPT ![j] = [Rest(j) EXCEPT
       !.auto = job[j].op = "provision" \/ (job[j].op \in Provisioning /\ row.status = "running")]]
  /\ UNCHANGED <<row, container, late, events, mishaps, stopped, excused>>

SetInstalling(j) == Set(j, "installing", "installing")
SetError(j) == Set(j, "error", "errored")
SetRunning(j) == Set(j, "running", "running")
SetOffline(j) == Set(j, "offline", "offline")
\* The mutant shows every provisioned server as running.
SettleRunning(j) == Set(j, "settle", "running")
Settle(j) == Set(j, "settle", IF job[j].auto THEN "running" ELSE "offline")

\* SuspendServer raises the flag; operations under way read it before.
SetSuspended(j) ==
  /\ At(j, "suspend") /\ Alive
  /\ row' = [row EXCEPT !.suspended = TRUE]
  /\ job' = [i \in Jobs |-> IF i = j THEN Rest(j)
                            ELSE IF job[i] = Idle THEN Idle ELSE [job[i] EXCEPT !.entitled = TRUE]]
  /\ stopped' = FALSE /\ excused' = FALSE
  /\ UNCHANGED <<container, late, events, mishaps>>

ClearSuspended(j) ==
  /\ At(j, "unsuspend") /\ Alive
  /\ row' = [row EXCEPT !.suspended = FALSE]
  /\ Advance(j)
  /\ stopped' = FALSE /\ excused' = FALSE
  /\ UNCHANGED <<container, late, events, mishaps>>

ReleasePorts(j) ==
  /\ At(j, "release") /\ Alive
  /\ Advance(j)
  /\ UNCHANGED <<row, container, late, events, mishaps, stopped, excused>>

Drop(j) ==
  /\ At(j, "drop") /\ Alive
  /\ row' = [state |-> "gone", status |-> "installing", suspended |-> FALSE]
  /\ Advance(j)
  /\ stopped' = FALSE /\ excused' = FALSE
  /\ UNCHANGED <<container, late, events, mishaps>>

DatabaseCall(j) == job[j].left # <<>> /\ Head(job[j].left) \notin Commands

\* A call that failed or found no row ends the operation, except that showing
\* a server as installing is best effort.
GiveUp(j) == IF At(j, "installing") THEN Advance(j) ELSE Abandon(j)

RowGone(j) ==
  /\ DatabaseCall(j) /\ ~Alive
  /\ GiveUp(j)
  /\ UNCHANGED <<row, container, late, events, mishaps, stopped, excused>>

CallFails(j) ==
  /\ DatabaseCall(j)
  /\ GiveUp(j)
  /\ Note({"outage", "disturbed"})
  /\ Happens
  /\ UNCHANGED <<row, container, late, stopped, excused>>

-----------------------------------------------------------------------------
(* Commands to the node.                                                   *)

Run(c) ==
  container' = CASE c = "create" -> "stopped"
                 [] c = "start" -> IF container = "none" THEN "none" ELSE "running"
                 [] c = "stop" -> IF container = "running" THEN "stopped" ELSE container
                 [] c = "remove" -> "none"

\* A server that was not running is not started after it was provisioned.
SkipStart(j) ==
  /\ At(j, "start") /\ job[j].op \in Provisioning /\ ~job[j].auto
  /\ Advance(j)
  /\ UNCHANGED <<row, container, late, events, mishaps, stopped, excused>>

Sends(j, c) ==
  /\ c \in Commands /\ At(j, c)
  /\ c = "start" => job[j].op \notin Provisioning \/ job[j].auto

Acknowledged(j, c) ==
  /\ Sends(j, c)
  /\ c = "start" => container # "none"
  /\ Run(c)
  /\ Advance(j)
  /\ stopped' = (stopped \/ (c = "stop" /\ Alive /\ row.suspended))
  /\ excused' = (excused \/ (c = "start" /\ job[j].entitled))
  /\ UNCHANGED <<row, late, events, mishaps>>

\* The mutant lets a failed provisioning end without a word.
FailSilently(j) ==
  IF job[j].op \in {"suspend", "delete"} THEN Advance(j) ELSE Abandon(j)

\* The command failed or got no answer: a provisioning records the error, a
\* power action ends, suspending and deleting go on.
Fail(j) ==
  CASE job[j].op \in Provisioning ->
         job' = [job EXCEPT ![j] = [@ EXCEPT !.left = <<"error">>]]
    [] job[j].op \in {"suspend", "delete"} -> Advance(j)
    [] OTHER -> Abandon(j)

\* The node is offline, the write fails, or the node refuses; a create that
\* fails may have removed the old container already.
Refused(j, c) ==
  /\ Sends(j, c)
  /\ Fail(j)
  /\ Note(IF c \in {"stop", "remove"} THEN {"unstopped"} ELSE {})
  /\ Happens
  /\ container' \in {container} \cup (IF c = "create" THEN {"none"} ELSE {})
  /\ UNCHANGED <<row, late, stopped, excused>>

\* The deadline passes or the connection drops after the command was sent.
Unanswered(j, c) ==
  /\ Sends(j, c)
  /\ late' = late \cup {c} /\ Cardinality(late') <= MaxLate
  /\ Fail(j)
  /\ Note({"unanswered", "disturbed"})
  /\ Happens
  /\ UNCHANGED <<row, container, stopped, excused>>

LateRun(c) ==
  /\ c \in late
  /\ late' = late \ {c}
  /\ Run(c)
  /\ excused' = (excused \/ c = "start")
  /\ UNCHANGED <<events, row, job, mishaps, stopped>>

ContainerExits ==
  /\ container = "running"
  /\ container' = "stopped"
  /\ Note({"disturbed"})
  /\ Happens
  /\ UNCHANGED <<row, late, job, stopped, excused>>

\* The panel restarts; commands just sent may run yet.
Restart ==
  /\ \E j \in Jobs : job[j] # Idle
  /\ \E sent \in SUBSET {c \in Commands : \E j \in Jobs : Sends(j, c)} :
       /\ late' = late \cup sent /\ Cardinality(late') <= MaxLate
       /\ Note({"outage", "disturbed"} \cup (IF sent = {} THEN {} ELSE {"unanswered"}))
  /\ job' = [j \in Jobs |-> Idle]
  /\ Happens
  /\ UNCHANGED <<row, container, stopped, excused>>

-----------------------------------------------------------------------------
Init ==
  /\ row = [state |-> "unborn", status |-> "installing", suspended |-> FALSE]
  /\ container = "none"
  /\ late = {}
  /\ job = [j \in Jobs |-> Idle]
  /\ events = 0
  /\ mishaps = {}
  /\ stopped = FALSE
  /\ excused = FALSE

\* What a goroutine does next, whatever comes of it.
Proceed(j) ==
  \/ Load(j) \/ SetInstalling(j) \/ SetError(j) \/ SetRunning(j) \/ SetOffline(j)
  \/ Settle(j) \/ SetSuspended(j) \/ ClearSuspended(j) \/ ReleasePorts(j) \/ Drop(j)
  \/ RowGone(j) \/ CallFails(j) \/ SkipStart(j)
  \/ \E c \in Commands : Acknowledged(j, c) \/ Refused(j, c) \/ Unanswered(j, c)

Next ==
  \/ \E j \in Jobs :
       \/ Create(j)
       \/ \E op \in Ops : \E by \in Actors[op] : Begin(j, op, by)
       \/ Proceed(j)
  \/ \E c \in Commands : LateRun(c)
  \/ ContainerExits
  \/ Restart

Spec == Init /\ [][Next]_vars

(* A goroutine goes on: SQLite answers, and every command to a node        *)
(* returns by its deadline (CallsReturn of AgentHub).                      *)
Fairness == \A j \in Jobs : WF_vars(Proceed(j))

FairSpec == Spec /\ Fairness

-----------------------------------------------------------------------------
(* Properties.                                                             *)

Quiet == \A j \in Jobs : job[j] = Idle

(* SuspendServer and the checks of every entrance: once a suspended server *)
(* was stopped, only an administrator, an operation that read the flag     *)
(* before it was raised, or a command the node runs late starts it again,  *)
(* however requests and automations interleave with the suspension, as     *)
(* long as the database answers the automation that looks at the flag.     *)
SuspendedStaysStopped ==
  Alive /\ row.suspended /\ stopped /\ ~excused /\ "outage" \notin mishaps =>
    container # "running"

(* The status column is written after the node answered, by each operation *)
(* for itself.  When operations came one after the other, were answered    *)
(* and written, a server shown as running runs, and one shown as offline   *)
(* does not, unless the node refused to stop it.                           *)
StatusHonest ==
  Quiet /\ Alive /\ "disturbed" \notin mishaps =>
    /\ row.status = "running" => container = "running"
    /\ row.status = "offline" /\ "unstopped" \notin mishaps => container # "running"

(* DeleteServer leaves no container behind, unless the node refused to     *)
(* remove it, ran something late, or the server was being provisioned      *)
(* while it was deleted.                                                   *)
NoOrphan ==
  row.state = "gone" /\ mishaps \cap {"crossed", "unanswered", "unstopped"} = {} =>
    container = "none"

\* The last step of an operation of ops, of which nothing went wrong.
EndsRunning(ops) ==
  \A j \in Jobs :
    job[j].op \in ops /\ At(j, "settle") /\ job[j].was /\ mishaps' \subseteq {"unstopped"}
      => row'.status = "running" /\ container' = "running"

(* UpdateServer and the port changes preserve the power state: a server    *)
(* shown as running when the edit began is running when it ends.           *)
EditsKeepRunning == [][EndsRunning({"update", "ports"})]_vars

(* What the changelog says of a reinstall too: the power state is          *)
(* preserved across re-provisioning.                                       *)
ReinstallKeepsRunning == [][EndsRunning({"reinstall"})]_vars

(* A server does not show as installing for ever, whatever the node        *)
(* answers and whatever else is asked of it meanwhile, unless a database   *)
(* call fails or the panel restarts.                                       *)
Installing == Alive /\ row.status = "installing"

InstallingEnds ==
  Installing ~> ~Installing \/ "outage" \in mishaps
==============================================================================
