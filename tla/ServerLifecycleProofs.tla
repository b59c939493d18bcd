------------------------ MODULE ServerLifecycleProofs ------------------------
(* The row and the container of a server, however many goroutines work on  *)
(* it, however much goes wrong.                                            *)
EXTENDS ServerLifecycle, SequenceTheorems, TLAPS

Steps == {"load", "create", "start", "settle", "installing", "running", "stop", "offline",
          "suspend", "unsuspend", "remove", "release", "drop", "error"}

\* Which operations take a step, and what comes after it.
Allowed(op, step) ==
  /\ step \in {"remove", "release", "drop"} => op = "delete"
  /\ step \in {"create", "settle", "error"} => op \in Provisioning
  /\ step = "installing" => op = "reinstall"
  /\ step = "suspend" => op = "suspend"
  /\ step \in {"running", "offline", "stop"} => op \notin Provisioning
  /\ step = "start" => op \in Provisioning \cup {"start", "restart"}

After(op, step) ==
  CASE step = "load" -> IF op \in Provisioning THEN {"create", "installing"}
                        ELSE {"start", "stop", "suspend", "unsuspend", "remove"}
    [] step = "installing" -> {"load", "create"}
    [] step = "create" -> {"start"}
    [] step = "start" -> IF op \in Provisioning THEN {"settle"} ELSE {"running"}
    [] step = "stop" -> {"offline"}
    [] step = "offline" -> {"load"}
    [] step = "suspend" -> {"stop"}
    [] step = "remove" -> {"release"}
    [] step = "release" -> {"drop"}
    [] OTHER -> {}

LastSteps == {"settle", "running", "offline", "unsuspend", "drop", "error"}

Ordered(op, left) ==
  /\ left \in Seq(Steps) /\ left # <<>>
  /\ \A i \in 1 .. Len(left) : Allowed(op, left[i])
  /\ \A i \in 1 .. Len(left) - 1 : left[i + 1] \in After(op, left[i])
  /\ left[Len(left)] \in LastSteps

JobState == [op : Ops \cup {"none"}, left : Seq(Steps), auto : BOOLEAN, was : BOOLEAN,
             entitled : BOOLEAN]
JobFits(r) == r \in JobState /\ (r = Idle \/ (r.op \in Ops /\ Ordered(r.op, r.left)))

LifeTypeOK ==
  /\ row \in [state : {"unborn", "row", "gone"}, suspended : BOOLEAN,
              status : {"installing", "errored", "running", "offline"}]
  /\ container \in {"none", "stopped", "running"}
  /\ late \subseteq Commands
  /\ \A j \in Jobs : JobFits(job[j])
  /\ job = [j \in Jobs |-> job[j]]
  /\ mishaps \subseteq Mishaps
  /\ stopped \in BOOLEAN /\ excused \in BOOLEAN

-----------------------------------------------------------------------------
(* Plans and the steps left of them.                                       *)

LEMMA OpsAre ==
  Ops = {"provision", "update", "ports", "reinstall", "start", "stop", "restart", "suspend",
         "unsuspend", "delete"}
  BY DEF Ops, Plan

LEMMA PlansOrdered == \A op \in Ops : Ordered(op, Plan[op])
  <1> USE DEF Ordered, Allowed, After, Provisioning, Steps, LastSteps
  <1>1. Ordered("provision", Plan.provision) /\ Ordered("update", Plan.update)
    BY DEF Plan
  <1>2. Ordered("ports", Plan.ports)
    BY DEF Plan
  <1>3. Ordered("reinstall", Plan.reinstall)
    BY DEF Plan
  <1>4. Ordered("start", Plan.start)
    BY DEF Plan
  <1>5. Ordered("stop", Plan.stop)
    BY DEF Plan
  <1>6. Ordered("restart", Plan.restart)
    BY DEF Plan
  <1>7. Ordered("suspend", Plan.suspend) /\ Ordered("unsuspend", Plan.unsuspend)
    BY DEF Plan
  <1>8. Ordered("delete", Plan.delete)
    BY DEF Plan, DeletePlan
  <1> HIDE DEF Ordered
  <1>9. QED
    BY <1>1, <1>2, <1>3, <1>4, <1>5, <1>6, <1>7, <1>8, OpsAre

LEMMA TailOrdered ==
  ASSUME NEW op \in Ops, NEW left, Ordered(op, left), Len(left) # 1
  PROVE  Ordered(op, Tail(left)) /\ Head(Tail(left)) \in After(op, Head(left))
  <1>1. /\ Tail(left) \in Seq(Steps) /\ Len(Tail(left)) = Len(left) - 1
        /\ \A i \in 1 .. Len(Tail(left)) : Tail(left)[i] = left[i + 1]
        /\ Len(left) \in Nat \ {0}
    BY HeadTailProperties, EmptySeq DEF Ordered
  <1>2. Len(Tail(left)) \in Nat \ {0}
    BY <1>1
  <1>3. Tail(left) # <<>>
    BY <1>2, EmptySeq
  <1>4. Head(Tail(left)) = left[2] /\ Head(left) = left[1]
    BY <1>1, <1>2
  <1>5. left[2] \in After(op, left[1])
    BY <1>1, <1>2 DEF Ordered
  <1>6. Tail(left)[Len(Tail(left))] = left[Len(left)]
    BY <1>1, <1>2
  <1>7. QED
    BY <1>1, <1>2, <1>3, <1>4, <1>5, <1>6 DEF Ordered

LEMMA HeadAllowed ==
  ASSUME NEW op \in Ops, NEW left, Ordered(op, left)
  PROVE  /\ Head(left) \in Steps /\ Allowed(op, Head(left))
         /\ Head(left) \notin LastSteps => Len(left) # 1
  <1>1. Len(left) \in Nat \ {0} /\ Head(left) = left[1] /\ Head(left) \in Steps
    BY HeadTailProperties, EmptySeq DEF Ordered
  <1>2. QED
    BY <1>1 DEF Ordered

\* A goroutine ends, goes on to its next step, or to record an error.
Ends(j) == job'[j] = Idle
GoesOn(j) ==
  /\ job[j].left # <<>> /\ Len(job[j].left) # 1
  /\ job'[j] \in JobState
  /\ job'[j].left = Tail(job[j].left)
  /\ job'[j].op = job[j].op /\ job'[j].was = job[j].was
  /\ job'[j].entitled = job[j].entitled
  /\ job'[j].auto = job[j].auto \/ At(j, "load")
  /\ job[j].op # "none"
Errs(j) ==
  /\ job[j].op \in Provisioning
  /\ job'[j] = [job[j] EXCEPT !.left = <<"error">>]
Moves(j) == Ends(j) \/ GoesOn(j) \/ Errs(j)

LEMMA IdleFits == JobFits(Idle)
  BY DEF JobFits, JobState, Idle

LEMMA MovesFit ==
  ASSUME LifeTypeOK, NEW j \in Jobs, Moves(j)
  PROVE  JobFits(job'[j])
  <1>1. CASE Ends(j)
    BY <1>1, IdleFits DEF Ends
  <1>2. CASE GoesOn(j)
    <2>1. job[j].op \in Ops /\ Ordered(job[j].op, job[j].left)
      BY <1>2 DEF GoesOn, LifeTypeOK, JobFits, Idle
    <2>2. Ordered(job[j].op, Tail(job[j].left))
      BY <1>2, <2>1, TailOrdered DEF GoesOn
    <2>3. QED
      BY <1>2, <2>1, <2>2 DEF GoesOn, JobFits
  <1>3. CASE Errs(j)
    <2>1. job[j].op \in Ops /\ job[j] \in JobState
      BY <1>3, OpsAre DEF Errs, LifeTypeOK, JobFits, Provisioning
    <2>2. Ordered(job[j].op, <<"error">>)
      BY <1>3 DEF Errs, Ordered, Allowed, Provisioning, Steps, LastSteps
    <2>3. <<"error">> \in Seq(Steps)
      BY DEF Steps
    <2>4. job'[j] = [job[j] EXCEPT !.left = <<"error">>]
      BY <1>3 DEF Errs
    <2>5. job'[j] \in JobState /\ job'[j].op = job[j].op /\ job'[j].left = <<"error">>
      BY <2>1, <2>3, <2>4 DEF JobState
    <2>6. QED
      BY <2>1, <2>2, <2>5 DEF JobFits
  <1>4. QED
    BY <1>1, <1>2, <1>3 DEF Moves

\* What is known of a goroutine at a step.
LEMMA AtFits ==
  ASSUME LifeTypeOK, NEW j \in Jobs, NEW step, At(j, step)
  PROVE  /\ job[j] # Idle /\ job[j].op \in Ops /\ job[j] \in JobState
         /\ Ordered(job[j].op, job[j].left)
         /\ step \in Steps /\ Allowed(job[j].op, step) /\ Head(job[j].left) = step
         /\ step \notin LastSteps => Len(job[j].left) # 1
  BY HeadAllowed DEF At, LifeTypeOK, JobFits, Idle

LEMMA RestMoves ==
  ASSUME LifeTypeOK, NEW j \in Jobs, NEW step, At(j, step), job'[j] = Rest(j)
  PROVE  Moves(j)
  <1>1. job[j] \in JobState /\ job[j].left # <<>> /\ job[j].op \in Ops
    BY AtFits DEF At
  <1>2. CASE Len(job[j].left) = 1
    BY <1>2 DEF Rest, Moves, Ends
  <1>3. CASE Len(job[j].left) # 1
    <2>1. job'[j] = [job[j] EXCEPT !.left = Tail(job[j].left)]
      BY <1>3 DEF Rest
    <2>2. Tail(job[j].left) \in Seq(Steps)
      BY <1>1, HeadTailProperties DEF JobState
    <2>3. job'[j] \in JobState
      BY <1>1, <2>1, <2>2 DEF JobState
    <2>4. GoesOn(j)
      BY <1>1, <1>3, <2>1, <2>3, OpsAre DEF GoesOn, JobState
    <2>5. QED
      BY <2>4 DEF Moves
  <1>4. QED
    BY <1>2, <1>3

\* One goroutine moves and nobody else does.
Works(j) ==
  /\ Moves(j)
  /\ \A i \in Jobs \ {j} : job'[i] = job[i]
  /\ job' = [i \in Jobs |-> job'[i]]

LEMMA AdvanceWorks ==
  ASSUME LifeTypeOK, NEW j \in Jobs, NEW step, At(j, step), Advance(j)
  PROVE  Works(j)
  <1>1. job'[j] = Rest(j) /\ (\A i \in Jobs \ {j} : job'[i] = job[i])
        /\ job' = [i \in Jobs |-> job'[i]]
    BY DEF Advance, LifeTypeOK
  <1>2. QED
    BY <1>1, RestMoves DEF Works

LEMMA AbandonWorks == ASSUME LifeTypeOK, NEW j \in Jobs, Abandon(j) PROVE Works(j)
  BY DEF Abandon, LifeTypeOK, Works, Moves, Ends

LEMMA FailWorks ==
  ASSUME LifeTypeOK, NEW j \in Jobs, NEW step, At(j, step), Fail(j)
  PROVE  Works(j)
  <1>1. CASE job[j].op \in Provisioning
    <2>1. job' = [job EXCEPT ![j] = [@ EXCEPT !.left = <<"error">>]]
      BY <1>1 DEF Fail, Provisioning
    <2>2. /\ job'[j] = [job[j] EXCEPT !.left = <<"error">>]
          /\ \A i \in Jobs \ {j} : job'[i] = job[i]
          /\ job' = [i \in Jobs |-> job'[i]]
      BY <2>1 DEF LifeTypeOK
    <2>3. QED
      BY <1>1, <2>2 DEF Works, Moves, Errs
  <1>2. CASE job[j].op \in {"suspend", "delete"}
    BY <1>2, AdvanceWorks DEF Fail, Provisioning
  <1>3. CASE job[j].op \notin Provisioning \cup {"suspend", "delete"}
    BY <1>3, AbandonWorks DEF Fail
  <1>4. QED
    BY <1>1, <1>2, <1>3

LEMMA LoadWorks == ASSUME LifeTypeOK, NEW j \in Jobs, Load(j) PROVE Works(j)
  <1> DEFINE rest == Rest(j)
             flag == job[j].op = "provision"
                     \/ (job[j].op \in Provisioning /\ row.status = "running")
  <1>1. job[j] \in JobState /\ job[j].left # <<>> /\ job[j].op \in Ops
    BY AtFits DEF At, Load
  <1>2. /\ job'[j] = [rest EXCEPT !.auto = flag]
        /\ \A i \in Jobs \ {j} : job'[i] = job[i]
        /\ job' = [i \in Jobs |-> job'[i]]
    BY DEF Load, LifeTypeOK
  <1>3. Len(job[j].left) # 1
    BY AtFits DEF Load, LastSteps
  <1>4. GoesOn(j)
    <2>1. rest = [job[j] EXCEPT !.left = Tail(job[j].left)]
      BY <1>3 DEF Rest
    <2>2. Tail(job[j].left) \in Seq(Steps)
      BY <1>1, HeadTailProperties DEF JobState
    <2>3. flag \in BOOLEAN
      OBVIOUS
    <2> HIDE DEF flag, rest
    <2>4. /\ job'[j] \in JobState /\ job'[j].left = Tail(job[j].left)
          /\ job'[j].op = job[j].op /\ job'[j].was = job[j].was
          /\ job'[j].entitled = job[j].entitled
      BY <1>1, <1>2, <2>1, <2>2, <2>3 DEF JobState
    <2>5. At(j, "load")
      BY DEF Load
    <2>6. QED
      BY <1>1, <1>3, <2>4, <2>5, OpsAre DEF GoesOn
  <1>5. QED
    BY <1>2, <1>4 DEF Works, Moves

LEMMA ProceedWorks ==
  ASSUME LifeTypeOK, NEW j \in Jobs, Proceed(j)
  PROVE  Works(j) \/ SetSuspended(j)
  <1>1. ASSUME NEW step, NEW status, Set(j, step, status) PROVE Works(j)
    BY <1>1, AdvanceWorks DEF Set
  <1>2. CASE Load(j)
    BY <1>2, LoadWorks
  <1>3. CASE SetInstalling(j) \/ SetError(j) \/ SetRunning(j) \/ SetOffline(j) \/ Settle(j)
    BY <1>1, <1>3 DEF SetInstalling, SetError, SetRunning, SetOffline, Settle
  <1>4. CASE ClearSuspended(j) \/ ReleasePorts(j) \/ Drop(j) \/ SkipStart(j)
    BY <1>4, AdvanceWorks DEF ClearSuspended, ReleasePorts, Drop, SkipStart
  <1>5. CASE RowGone(j) \/ CallFails(j)
    BY <1>5, AdvanceWorks, AbandonWorks DEF RowGone, CallFails, GiveUp
  <1>6. ASSUME NEW c \in Commands, Acknowledged(j, c) \/ Refused(j, c) \/ Unanswered(j, c)
        PROVE  Works(j)
    BY <1>6, AdvanceWorks, FailWorks DEF Acknowledged, Refused, Unanswered, Sends
  <1>7. QED
    BY <1>2, <1>3, <1>4, <1>5, <1>6 DEF Proceed

\* A goroutine keeps its shape whatever it does.
JobsFit == (\A j \in Jobs : JobFits(job[j])) /\ job = [j \in Jobs |-> job[j]]

LEMMA WorksFit == ASSUME LifeTypeOK, NEW j \in Jobs, Works(j) PROVE JobsFit'
  <1>1. JobFits(job'[j])
    BY MovesFit DEF Works
  <1>2. QED
    BY <1>1 DEF Works, JobsFit, LifeTypeOK

\* What a suspension leaves of the others' goroutines.
Raised(i) == job'[i] = IF job[i] = Idle THEN Idle ELSE [job[i] EXCEPT !.entitled = TRUE]

LEMMA SuspendMoves ==
  ASSUME LifeTypeOK, NEW j \in Jobs, SetSuspended(j)
  PROVE  /\ Moves(j) /\ (\A i \in Jobs \ {j} : Raised(i)) /\ JobsFit'
  <1>1. At(j, "suspend") /\ job'[j] = Rest(j) /\ job' = [i \in Jobs |-> job'[i]]
    BY DEF SetSuspended
  <1>2. Moves(j)
    BY <1>1, RestMoves
  <1>3. ASSUME NEW i \in Jobs \ {j} PROVE Raised(i)
    BY DEF SetSuspended, Raised
  <1>4. ASSUME NEW i \in Jobs \ {j} PROVE JobFits(job'[i])
    <2>1. CASE job[i] = Idle
      BY <1>3, <2>1, IdleFits DEF Raised
    <2>2. CASE job[i] # Idle
      <3>1. job'[i] = [job[i] EXCEPT !.entitled = TRUE]
        BY <1>3, <2>2 DEF Raised
      <3>2. job[i] \in JobState /\ job[i].op \in Ops /\ Ordered(job[i].op, job[i].left)
        BY <2>2 DEF LifeTypeOK, JobFits
      <3>3. job'[i] \in JobState /\ job'[i].op = job[i].op /\ job'[i].left = job[i].left
        BY <3>1, <3>2 DEF JobState
      <3>4. QED
        BY <3>2, <3>3 DEF JobFits
    <2>3. QED
      BY <2>1, <2>2
  <1>5. JobFits(job'[j])
    BY <1>2, MovesFit
  <1>6. QED
    BY <1>1, <1>2, <1>3, <1>4, <1>5 DEF JobsFit

\* The goroutine an operation begins with.
Begun(op, r) ==
  /\ op \in Ops /\ r \in JobState /\ r.op = op /\ r.left = Plan[op]

LEMMA BegunFits ==
  ASSUME LifeTypeOK, NEW j \in Jobs, NEW op, NEW r, Begun(op, r), job' = [job EXCEPT ![j] = r]
  PROVE  JobsFit' /\ job'[j] = r /\ \A i \in Jobs \ {j} : job'[i] = job[i]
  <1>1. JobFits(r)
    BY PlansOrdered DEF Begun, JobFits
  <1>2. QED
    BY <1>1 DEF LifeTypeOK, JobsFit

LEMMA PlansTyped == \A op \in Ops : Plan[op] \in Seq(Steps)
  BY PlansOrdered DEF Ordered

LEMMA CreateBegins ==
  ASSUME LifeTypeOK, NEW j \in Jobs, Create(j)
  PROVE  \E r : Begun("provision", r) /\ job' = [job EXCEPT ![j] = r]
  <1>1. Plan["provision"] \in Seq(Steps) /\ "provision" \in Ops
    BY PlansTyped, OpsAre
  <1>2. ASSUME NEW plan \in Seq(Steps)
        PROVE  LET r == [Idle EXCEPT !.op = "provision", !.left = plan]
               IN  r \in JobState /\ r.op = "provision" /\ r.left = plan
    <2>1. Idle \in JobState
      BY IdleFits DEF JobFits
    <2>2. QED
      BY <1>1, <2>1 DEF JobState
  <1>3. Begun("provision", [Idle EXCEPT !.op = "provision", !.left = Plan.provision])
    BY <1>1, <1>2 DEF Begun
  <1>4. job' = [job EXCEPT ![j] = [Idle EXCEPT !.op = "provision", !.left = Plan.provision]]
    BY DEF Create
  <1>5. QED
    BY <1>3, <1>4

LEMMA BeginBegins ==
  ASSUME LifeTypeOK, NEW j \in Jobs, NEW op \in Ops, NEW by \in Actors[op], Begin(j, op, by)
  PROVE  \E r : /\ Begun(op, r) /\ job' = [job EXCEPT ![j] = r]
                /\ by = "admin" => r.entitled
                /\ op = "ports" /\ row.status = "running" => r.auto
                /\ r.was => op \in Provisioning /\ row.status = "running"
  <1> DEFINE auto == op = "ports" /\ row.status = "running"
             was == op \in Provisioning /\ row.status = "running"
             entitled == by = "admin"
             r == [op |-> op, left |-> Plan[op], auto |-> auto, was |-> was,
                   entitled |-> entitled]
  <1>1. auto \in BOOLEAN /\ was \in BOOLEAN /\ entitled \in BOOLEAN
    OBVIOUS
  <1>2. job' = [job EXCEPT ![j] = r]
    BY DEF Begin
  <1> HIDE DEF auto, was, entitled
  <1>3. r \in JobState
    BY <1>1, PlansTyped DEF JobState
  <1>4. Begun(op, r)
    BY <1>3 DEF Begun
  <1>5. r.auto = auto /\ r.was = was /\ r.entitled = entitled
    OBVIOUS
  <1>6. QED
    BY <1>2, <1>4, <1>5 DEF auto, was, entitled

\* The variables but the goroutines.
RestFits ==
  /\ row' \in [state : {"unborn", "row", "gone"}, suspended : BOOLEAN,
               status : {"installing", "errored", "running", "offline"}]
  /\ container' \in {"none", "stopped", "running"}
  /\ late' \subseteq Commands
  /\ mishaps' \subseteq Mishaps
  /\ stopped' \in BOOLEAN /\ excused' \in BOOLEAN

LEMMA RunFits ==
  ASSUME LifeTypeOK, NEW c \in Commands, Run(c)
  PROVE  /\ container' \in {"none", "stopped", "running"}
         /\ c \in {"create", "stop", "remove"} => container' # "running"
         /\ c = "create" => container' = "stopped"
         /\ c = "remove" => container' = "none"
         /\ c = "start" /\ container # "none" => container' = "running"
         /\ c # "create" /\ container = "none" => container' = "none"
  BY DEF LifeTypeOK, Run, Commands

LEMMA ProceedFits ==
  ASSUME LifeTypeOK, NEW j \in Jobs, Proceed(j)
  PROVE  RestFits
  <1> USE DEF LifeTypeOK, RestFits, Note
  <1>1. ASSUME NEW step,
               NEW status \in {"installing", "errored", "running", "offline"},
               Set(j, step, status)
        PROVE  RestFits
    BY <1>1 DEF Set
  <1>2. CASE SetInstalling(j) \/ SetError(j) \/ SetRunning(j) \/ SetOffline(j)
    BY <1>1, <1>2 DEF SetInstalling, SetError, SetRunning, SetOffline
  <1>3. CASE Settle(j)
    BY <1>1, <1>3 DEF Settle
  <1>4. CASE SetSuspended(j) \/ ClearSuspended(j) \/ Drop(j)
    <2>1. CASE SetSuspended(j)
      BY <2>1 DEF SetSuspended
    <2>2. CASE ClearSuspended(j)
      BY <2>2 DEF ClearSuspended
    <2>3. CASE Drop(j)
      BY <2>3 DEF Drop
    <2>4. QED
      BY <1>4, <2>1, <2>2, <2>3
  <1>5. CASE Load(j) \/ ReleasePorts(j) \/ RowGone(j) \/ SkipStart(j)
    BY <1>5 DEF Load, ReleasePorts, RowGone, SkipStart
  <1>6. CASE CallFails(j)
    BY <1>6 DEF CallFails, Mishaps
  <1>7. ASSUME NEW c \in Commands, Acknowledged(j, c) PROVE RestFits
    <2>1. container' \in {"none", "stopped", "running"}
      BY <1>7, RunFits DEF Acknowledged
    <2>2. QED
      BY <1>7, <2>1 DEF Acknowledged
  <1>8. ASSUME NEW c \in Commands, Refused(j, c) PROVE RestFits
    BY <1>8 DEF Refused, Mishaps
  <1>9. ASSUME NEW c \in Commands, Unanswered(j, c) PROVE RestFits
    BY <1>9 DEF Unanswered, Mishaps
  <1>10. QED
    BY <1>2, <1>3, <1>4, <1>5, <1>6, <1>7, <1>8, <1>9 DEF Proceed

LEMMA NextLifeTypes == LifeTypeOK /\ [Next]_vars => LifeTypeOK'
  <1> SUFFICES ASSUME LifeTypeOK, [Next]_vars PROVE JobsFit' /\ RestFits
    BY DEF LifeTypeOK, JobsFit, RestFits
  <1>1. ASSUME NEW j \in Jobs, Create(j) PROVE JobsFit' /\ RestFits
    <2>1. JobsFit'
      BY <1>1, CreateBegins, BegunFits
    <2>2. QED
      BY <1>1, <2>1 DEF Create, LifeTypeOK, RestFits
  <1>2. ASSUME NEW j \in Jobs, NEW op \in Ops, NEW by \in Actors[op], Begin(j, op, by)
        PROVE  JobsFit' /\ RestFits
    <2>1. JobsFit'
      BY <1>2, BeginBegins, BegunFits
    <2>2. QED
      BY <1>2, <2>1 DEF Begin, Note, Clash, Mishaps, LifeTypeOK, RestFits
  <1>3. ASSUME NEW j \in Jobs, Proceed(j) PROVE JobsFit' /\ RestFits
    BY <1>3, ProceedWorks, WorksFit, SuspendMoves, ProceedFits
  <1>4. ASSUME NEW c \in Commands, LateRun(c) PROVE JobsFit' /\ RestFits
    <2>1. container' \in {"none", "stopped", "running"}
      BY <1>4, RunFits DEF LateRun
    <2>2. QED
      BY <1>4, <2>1 DEF LateRun, LifeTypeOK, JobsFit, RestFits
  <1>5. CASE ContainerExits
    BY <1>5 DEF ContainerExits, Note, Mishaps, LifeTypeOK, JobsFit, RestFits
  <1>6. CASE Restart
    <2>1. JobsFit'
      BY <1>6, IdleFits DEF Restart, JobsFit
    <2>2. QED
      BY <1>6, <2>1 DEF Restart, Note, Mishaps, LifeTypeOK, RestFits
  <1>7. CASE UNCHANGED vars
    BY <1>7 DEF vars, LifeTypeOK, JobsFit, RestFits
  <1>8. QED
    BY <1>1, <1>2, <1>3, <1>4, <1>5, <1>6, <1>7 DEF Next

-----------------------------------------------------------------------------
(* Suspension.                                                             *)

\* An operation that cannot start the server, or is entitled to.
Harmless(j) ==
  job[j].entitled \/ job[j].op \in {"none", "stop", "delete", "suspend", "unsuspend"}

SuspensionInv ==
  /\ row.state = "unborn" => ~row.suspended
  /\ Alive /\ row.suspended /\ "outage" \notin mishaps =>
       /\ \A j \in Jobs : Harmless(j)
       /\ stopped /\ ~excused => container # "running"

\* Nobody suspends, no operation begins that could start the server, and the
\* container is started only by somebody excused.
SuspensionCalm ==
  /\ row'.state \in {"row", "unborn"} =>
       row'.state = row.state /\ (row'.suspended => row.suspended)
  /\ mishaps \subseteq mishaps'
  /\ \A i \in Jobs : Harmless(i) => Harmless(i)'
  /\ (\A i \in Jobs : Harmless(i)) /\ row'.suspended /\ stopped' /\ ~excused' =>
       container' # "running" \/ (stopped /\ ~excused /\ container' = container)

LEMMA CalmKeepsSuspension ==
  ASSUME SuspensionInv, SuspensionCalm
  PROVE  SuspensionInv'
  BY DEF SuspensionInv, SuspensionCalm, Alive

LEMMA MovesHarmless ==
  ASSUME LifeTypeOK, NEW j \in Jobs, Moves(j), Harmless(j)
  PROVE  Harmless(j)'
  <1>1. CASE Ends(j)
    BY <1>1 DEF Ends, Idle, Harmless
  <1>2. CASE GoesOn(j)
    BY <1>2 DEF GoesOn, Harmless
  <1>3. CASE Errs(j)
    <2>1. job[j].op \in Provisioning /\ job[j] \in JobState
      BY <1>3 DEF Errs, LifeTypeOK, JobFits
    <2>2. job'[j].entitled = job[j].entitled /\ job'[j].op = job[j].op
      BY <1>3, <2>1 DEF Errs, JobState
    <2>3. QED
      BY <2>2 DEF Harmless
  <1>4. QED
    BY <1>1, <1>2, <1>3 DEF Moves

LEMMA WorksHarmless ==
  ASSUME LifeTypeOK, NEW j \in Jobs, Works(j)
  PROVE  \A i \in Jobs : Harmless(i) => Harmless(i)'
  BY MovesHarmless DEF Works, Harmless

LEMMA ProceedKeepsSuspension ==
  ASSUME LifeTypeOK, SuspensionInv, NEW j \in Jobs, Proceed(j)
  PROVE  SuspensionInv'
  <1>1. CASE SetSuspended(j)
    <2>1. Moves(j) /\ \A i \in Jobs \ {j} : Raised(i)
      BY <1>1, SuspendMoves
    <2>2. job[j].op = "suspend"
      BY <1>1, AtFits DEF SetSuspended, Allowed
    <2>3. Harmless(j)'
      BY <2>1, <2>2, MovesHarmless DEF Harmless
    <2>4. ASSUME NEW i \in Jobs \ {j} PROVE Harmless(i)'
      <3>1. CASE job[i] = Idle
        <4>1. job'[i] = Idle
          BY <2>1, <3>1 DEF Raised
        <4>2. QED
          BY <4>1 DEF Harmless, Idle
      <3>2. CASE job[i] # Idle
        <4>1. job'[i] = [job[i] EXCEPT !.entitled = TRUE]
          BY <2>1, <3>2 DEF Raised
        <4>2. job[i] \in JobState
          BY DEF LifeTypeOK, JobFits
        <4>3. job'[i].entitled
          BY <4>1, <4>2 DEF JobState
        <4>4. QED
          BY <4>3 DEF Harmless
      <3>3. QED
        BY <3>1, <3>2
    <2>5. QED
      BY <1>1, <2>3, <2>4 DEF SetSuspended, SuspensionInv, Alive, LifeTypeOK
  <1>2. CASE ~SetSuspended(j)
    <2> SUFFICES SuspensionCalm
      BY CalmKeepsSuspension
    <2>1. \A i \in Jobs : Harmless(i) => Harmless(i)'
      BY <1>2, ProceedWorks, WorksHarmless
    <2>2. ASSUME NEW step, NEW status, Set(j, step, status) PROVE SuspensionCalm
      BY <2>1, <2>2 DEF Set, SuspensionCalm, LifeTypeOK
    <2>3. CASE SetInstalling(j) \/ SetError(j) \/ SetRunning(j) \/ SetOffline(j) \/ Settle(j)
      BY <2>2, <2>3 DEF SetInstalling, SetError, SetRunning, SetOffline, Settle
    <2>4. CASE Load(j) \/ ReleasePorts(j) \/ RowGone(j) \/ SkipStart(j)
      BY <2>1, <2>4 DEF Load, ReleasePorts, RowGone, SkipStart, SuspensionCalm
    <2>5. CASE CallFails(j)
      BY <2>1, <2>5 DEF CallFails, Note, SuspensionCalm
    <2>6. CASE ClearSuspended(j)
      BY <2>1, <2>6 DEF ClearSuspended, SuspensionCalm, LifeTypeOK
    <2>7. CASE Drop(j)
      BY <2>1, <2>7 DEF Drop, SuspensionCalm
    <2>8. ASSUME NEW c \in Commands, Acknowledged(j, c) PROVE SuspensionCalm
      <3>1. c = "start" => job[j].op \in Provisioning \cup {"start", "restart"}
        BY <2>8, AtFits DEF Acknowledged, Sends, Allowed
      <3>2. c = "start" /\ ~excused' => ~Harmless(j)
        BY <2>8, <3>1 DEF Acknowledged, Harmless, Provisioning
      <3>3. c # "start" => container' # "running"
        BY <2>8, RunFits DEF Acknowledged, Commands
      <3>4. row' = row /\ mishaps' = mishaps
        BY <2>8 DEF Acknowledged
      <3>5. QED
        BY <2>1, <3>2, <3>3, <3>4 DEF SuspensionCalm
    <2>9. ASSUME NEW c \in Commands, Refused(j, c) \/ Unanswered(j, c) PROVE SuspensionCalm
      BY <2>1, <2>9 DEF Refused, Unanswered, Note, SuspensionCalm
    <2>10. QED
      BY <1>2, <2>3, <2>4, <2>5, <2>6, <2>7, <2>8, <2>9 DEF Proceed
  <1>3. QED
    BY <1>1, <1>2

LEMMA SuspensionStep == LifeTypeOK /\ SuspensionInv /\ [Next]_vars => SuspensionInv'
  <1> SUFFICES ASSUME LifeTypeOK, SuspensionInv, [Next]_vars PROVE SuspensionInv'
    OBVIOUS
  <1>1. ASSUME NEW j \in Jobs, Create(j) PROVE SuspensionInv'
    BY <1>1 DEF Create, SuspensionInv, Alive, LifeTypeOK
  <1>2. ASSUME NEW j \in Jobs, NEW op \in Ops, NEW by \in Actors[op], Begin(j, op, by)
        PROVE  SuspensionInv'
    <2>1. PICK r : /\ Begun(op, r) /\ job' = [job EXCEPT ![j] = r]
                   /\ by = "admin" => r.entitled
      BY <1>2, BeginBegins
    <2>2. job'[j] = r /\ (\A i \in Jobs \ {j} : job'[i] = job[i]) /\ r.op = op
      BY <2>1 DEF Begun, LifeTypeOK
    <2>3. /\ Alive /\ row' = row /\ container' = container /\ mishaps \subseteq mishaps'
          /\ stopped' = stopped /\ excused' = excused
          /\ ~Frozen(op, by) \/ "outage" \in mishaps'
      BY <1>2 DEF Begin, Note
    <2>4. ASSUME row.suspended, ~Frozen(op, by) PROVE Harmless(j)'
      BY <2>1, <2>2, <2>4, OpsAre DEF Frozen, Actors, Harmless
    <2>5. QED
      BY <2>2, <2>3, <2>4 DEF SuspensionInv, Alive, Harmless
  <1>3. ASSUME NEW j \in Jobs, Proceed(j) PROVE SuspensionInv'
    BY <1>3, ProceedKeepsSuspension
  <1>4. ASSUME NEW c \in Commands, LateRun(c) PROVE SuspensionInv'
    <2>1. c # "start" => container' # "running"
      BY <1>4, RunFits DEF LateRun, Commands
    <2>2. SuspensionCalm
      BY <1>4, <2>1 DEF LateRun, SuspensionCalm, Harmless
    <2>3. QED
      BY <2>2, CalmKeepsSuspension
  <1>5. CASE ContainerExits
    <2>1. SuspensionCalm
      BY <1>5 DEF ContainerExits, Note, SuspensionCalm, Harmless
    <2>2. QED
      BY <2>1, CalmKeepsSuspension
  <1>6. CASE Restart
    <2>1. SuspensionCalm
      BY <1>6 DEF Restart, Note, SuspensionCalm, Harmless, Idle
    <2>2. QED
      BY <2>1, CalmKeepsSuspension
  <1>7. CASE UNCHANGED vars
    <2>1. SuspensionCalm
      BY <1>7 DEF vars, SuspensionCalm, Harmless
    <2>2. QED
      BY <2>1, CalmKeepsSuspension
  <1>8. QED
    BY <1>1, <1>2, <1>3, <1>4, <1>5, <1>6, <1>7 DEF Next

-----------------------------------------------------------------------------
(* Deletion.                                                               *)

\* A delete that removed the container, or was told it could not.
Bare(j) == job[j].op = "delete" /\ Head(job[j].left) \in {"release", "drop"}

Smooth == mishaps \cap {"crossed", "unanswered", "unstopped"} = {}

DeletionInv ==
  /\ row.state = "unborn" => \A j \in Jobs : job[j] = Idle
  /\ Smooth =>
       /\ late = {}
       /\ \A i, j \in Jobs : job[i].op = "delete" => job[j].op \notin Provisioning
       /\ row.state = "gone" => \A j \in Jobs : job[j].op \notin Provisioning
       /\ row.state = "gone" \/ (\E j \in Jobs : Bare(j)) => container = "none"

\* No operation begins, no container appears, and none is left by a delete.
DeletionCalm ==
  /\ row'.state # "unborn" /\ (row'.state = "gone" => row.state = "gone")
  /\ mishaps \subseteq mishaps'
  /\ \A i \in Jobs : job'[i].op \in {job[i].op, "none"}
  /\ Smooth' =>
       /\ late' \subseteq late
       /\ container' = "none" \/ (container' = container /\ \A i \in Jobs : Bare(i)' => Bare(i))

LEMMA CalmKeepsDeletion ==
  ASSUME DeletionInv, DeletionCalm
  PROVE  DeletionInv'
  BY DEF DeletionInv, DeletionCalm, Smooth, Provisioning

LEMMA MovesBare ==
  ASSUME LifeTypeOK, NEW j \in Jobs, Moves(j), job[j] # Idle
  PROVE  /\ job'[j].op \in {job[j].op, "none"}
         /\ Bare(j)' => Bare(j) \/ At(j, "remove")
  <1>1. /\ job[j] \in JobState /\ job[j].op \in Ops /\ job[j].left # <<>>
        /\ Ordered(job[j].op, job[j].left)
    BY DEF LifeTypeOK, JobFits, Ordered
  <1>2. CASE Ends(j)
    BY <1>2 DEF Ends, Idle, Bare
  <1>3. CASE GoesOn(j)
    <2>1. Head(job'[j].left) \in After(job[j].op, Head(job[j].left))
      BY <1>1, <1>3, TailOrdered DEF GoesOn
    <2>2. Head(job[j].left) \in Steps
      BY <1>1, HeadAllowed
    <2>3. Head(job'[j].left) \in {"release", "drop"} => Head(job[j].left) \in {"remove", "release"}
      BY <2>1, <2>2 DEF After, Steps
    <2>4. QED
      BY <1>1, <1>3, <2>3 DEF GoesOn, Bare, At
  <1>4. CASE Errs(j)
    <2>1. job'[j].op = job[j].op /\ job[j].op \in Provisioning
      BY <1>1, <1>4 DEF Errs, JobState
    <2>2. QED
      BY <2>1 DEF Bare, Provisioning
  <1>5. QED
    BY <1>2, <1>3, <1>4 DEF Moves

LEMMA ProceedKeepsDeletion ==
  ASSUME LifeTypeOK, DeletionInv, NEW j \in Jobs, Proceed(j)
  PROVE  DeletionInv'
  <1>1. \E step : At(j, step)
    BY DEF Proceed, Load, SetInstalling, SetError, SetRunning, SetOffline, Settle, Set,
           SetSuspended, ClearSuspended, ReleasePorts, Drop, RowGone, CallFails, DatabaseCall,
           SkipStart, Acknowledged, Refused, Unanswered, Sends, At
  <1>2. job[j] # Idle /\ job[j].op \in Ops /\ row.state # "unborn"
    BY <1>1, AtFits DEF DeletionInv
  <1>3. /\ \A i \in Jobs : job'[i].op \in {job[i].op, "none"}
        /\ \A i \in Jobs : Bare(i)' => Bare(i) \/ (i = j /\ At(j, "remove"))
    <2>1. CASE Works(j)
      BY <1>2, <2>1, MovesBare DEF Works, Bare
    <2>2. CASE SetSuspended(j)
      <3>1. Moves(j) /\ \A i \in Jobs \ {j} : Raised(i)
        BY <2>2, SuspendMoves
      <3>2. ASSUME NEW i \in Jobs \ {j}
            PROVE  job'[i].op = job[i].op /\ job'[i].left = job[i].left
        <4>1. CASE job[i] = Idle
          BY <3>1, <4>1 DEF Raised
        <4>2. CASE job[i] # Idle
          <5>1. job'[i] = [job[i] EXCEPT !.entitled = TRUE]
            BY <3>1, <4>2 DEF Raised
          <5>2. job[i] \in JobState
            BY DEF LifeTypeOK, JobFits
          <5>3. QED
            BY <5>1, <5>2 DEF JobState
        <4>3. QED
          BY <4>1, <4>2
      <3>3. QED
        BY <1>2, <3>1, <3>2, MovesBare DEF Bare
    <2>3. QED
      BY <2>1, <2>2, ProceedWorks
  <1>4. ASSUME ~At(j, "remove"), container' = container, late' = late,
               row'.state = row.state, mishaps \subseteq mishaps'
        PROVE  DeletionCalm
    BY <1>2, <1>3, <1>4 DEF DeletionCalm
  <1>5. ASSUME DatabaseCall(j) PROVE ~At(j, "remove")
    BY <1>5 DEF DatabaseCall, At, Commands
  <1>6. ASSUME NEW step, NEW status, Set(j, step, status), step # "remove"
        PROVE  DeletionCalm
    BY <1>4, <1>6 DEF Set, LifeTypeOK, At
  <1>7. CASE SetInstalling(j) \/ SetError(j) \/ SetRunning(j) \/ SetOffline(j) \/ Settle(j)
    BY <1>6, <1>7, CalmKeepsDeletion DEF SetInstalling, SetError, SetRunning, SetOffline, Settle
  <1>8. CASE Load(j) \/ ReleasePorts(j) \/ SkipStart(j)
    BY <1>4, <1>8, CalmKeepsDeletion DEF Load, ReleasePorts, SkipStart, At
  <1>9. CASE RowGone(j) \/ CallFails(j)
    <2>1. ~At(j, "remove") /\ container' = container /\ late' = late /\ row' = row
          /\ mishaps \subseteq mishaps'
      BY <1>5, <1>9 DEF RowGone, CallFails, Note
    <2>2. QED
      BY <1>4, <2>1, CalmKeepsDeletion
  <1>10. CASE SetSuspended(j)
    BY <1>4, <1>10, CalmKeepsDeletion DEF SetSuspended, At, LifeTypeOK
  <1>11. CASE ClearSuspended(j)
    BY <1>4, <1>11, CalmKeepsDeletion DEF ClearSuspended, At, LifeTypeOK
  <1>12. CASE Drop(j)
    <2>1. job[j].op = "delete" /\ Head(job[j].left) = "drop" /\ ~At(j, "remove")
      BY <1>12, AtFits DEF Drop, Allowed, At
    <2>2. Bare(j)
      BY <2>1 DEF Bare
    <2>3. /\ row'.state = "gone" /\ container' = container /\ late' = late
          /\ mishaps' = mishaps
      BY <1>12 DEF Drop
    <2>4. QED
      BY <1>3, <2>1, <2>2, <2>3 DEF DeletionInv, Smooth, Provisioning
  <1>13. ASSUME NEW c \in Commands, Acknowledged(j, c) PROVE DeletionInv'
    <2>1. /\ row' = row /\ late' = late /\ mishaps' = mishaps
          /\ At(j, c) /\ Run(c) /\ Head(job[j].left) = c
      BY <1>13 DEF Acknowledged, Sends, At
    <2>2. c = "create" => job[j].op \in Provisioning
      BY <2>1, AtFits DEF Allowed
    <2>3. CASE c = "create"
      <3>1. \A i \in Jobs : Smooth => ~Bare(i)' /\ row.state # "gone"
        BY <1>3, <2>2, <2>3 DEF DeletionInv, Bare, Provisioning
      <3>2. QED
        BY <1>2, <1>3, <2>1, <3>1 DEF DeletionInv, Smooth, Provisioning
    <2>4. CASE c # "create"
      <3>1. container = "none" => container' = "none"
        BY <2>1, <2>4, RunFits
      <3>2. At(j, "remove") => container' = "none"
        BY <2>1, RunFits DEF At
      <3>3. QED
        BY <1>2, <1>3, <2>1, <3>1, <3>2 DEF DeletionInv, Smooth, Provisioning
    <2>5. QED
      BY <2>3, <2>4
  <1>14. ASSUME NEW c \in Commands, Refused(j, c) PROVE DeletionCalm
    <2>1. /\ row' = row /\ late' = late /\ mishaps \subseteq mishaps'
          /\ container' \in {container, "none"}
          /\ At(j, "remove") => "unstopped" \in mishaps'
      BY <1>14 DEF Refused, Note, Sends, At
    <2>2. QED
      BY <1>2, <1>3, <2>1 DEF DeletionCalm, Smooth
  <1>15. ASSUME NEW c \in Commands, Unanswered(j, c) PROVE DeletionCalm
    BY <1>2, <1>3, <1>15 DEF Unanswered, Note, DeletionCalm, Smooth
  <1>16. QED
    BY <1>7, <1>8, <1>9, <1>10, <1>11, <1>12, <1>13, <1>14, <1>15, CalmKeepsDeletion
    DEF Proceed

LEMMA DeletionStep == LifeTypeOK /\ DeletionInv /\ [Next]_vars => DeletionInv'
  <1> SUFFICES ASSUME LifeTypeOK, DeletionInv, [Next]_vars PROVE DeletionInv'
    OBVIOUS
  <1>1. ASSUME NEW op \in Ops
        PROVE  Head(Plan[op]) \notin {"release", "drop"}
    BY <1>1, OpsAre DEF Plan, DeletePlan
  <1>2. ASSUME NEW j \in Jobs, Create(j) PROVE DeletionInv'
    <2>1. PICK r : Begun("provision", r) /\ job' = [job EXCEPT ![j] = r]
      BY <1>2, CreateBegins
    <2>2. job'[j].op = "provision" /\ \A i \in Jobs \ {j} : job'[i] = job[i]
      BY <2>1 DEF Begun, LifeTypeOK
    <2>3. \A i \in Jobs : job[i].op = "none"
      BY <1>2 DEF Create, DeletionInv, Idle
    <2>4. \A i \in Jobs : job'[i].op \in {"none", "provision"}
      BY <2>2, <2>3
    <2>5. row'.state = "row" /\ late' = late /\ mishaps' = mishaps
      BY <1>2 DEF Create, LifeTypeOK
    <2>6. QED
      BY <2>4, <2>5 DEF DeletionInv, Smooth, Bare
  <1>3. ASSUME NEW j \in Jobs, NEW op \in Ops, NEW by \in Actors[op], Begin(j, op, by)
        PROVE  DeletionInv'
    <2>1. PICK r : Begun(op, r) /\ job' = [job EXCEPT ![j] = r]
      BY <1>3, BeginBegins
    <2>2. /\ job'[j].op = op /\ job'[j].left = Plan[op]
          /\ \A i \in Jobs \ {j} : job'[i] = job[i]
      BY <2>1 DEF Begun, LifeTypeOK
    <2>3. /\ row' = row /\ container' = container /\ late' = late /\ row.state = "row"
          /\ Clash(op) \subseteq mishaps' /\ mishaps \subseteq mishaps'
      BY <1>3 DEF Begin, Note, Alive
    <2>4. ASSUME Smooth'
          PROVE  /\ op = "delete" => \A i \in Jobs : job[i].op \notin Provisioning
                 /\ op \in Provisioning => \A i \in Jobs : job[i].op # "delete"
      BY <2>3, <2>4 DEF Clash, Smooth
    <2>5. \A i \in Jobs : Bare(i)' => Bare(i)
      BY <1>1, <2>2 DEF Bare
    <2>6. QED
      BY <2>2, <2>3, <2>4, <2>5 DEF DeletionInv, Smooth, Provisioning
  <1>4. ASSUME NEW j \in Jobs, Proceed(j) PROVE DeletionInv'
    BY <1>4, ProceedKeepsDeletion
  <1>5. ASSUME NEW c \in Commands, LateRun(c) PROVE DeletionInv'
    BY <1>5 DEF LateRun, DeletionInv, Smooth
  <1>6. CASE ContainerExits
    BY <1>6 DEF ContainerExits, Note, DeletionInv, Smooth, Bare
  <1>7. CASE Restart
    <2>1. \A j \in Jobs : job'[j] = Idle /\ job'[j].op = "none"
      BY <1>7 DEF Restart, Idle
    <2>2. row' = row /\ container' = container /\ mishaps \subseteq mishaps'
          /\ (late' = late \/ "unanswered" \in mishaps')
      BY <1>7 DEF Restart, Note
    <2>3. QED
      BY <2>1, <2>2 DEF DeletionInv, Smooth, Bare, Provisioning
  <1>8. CASE UNCHANGED vars
    BY <1>8 DEF vars, DeletionInv, Smooth, Bare
  <1>9. QED
    BY <1>2, <1>3, <1>4, <1>5, <1>6, <1>7, <1>8 DEF Next

-----------------------------------------------------------------------------
(* The status column.                                                      *)

Serial == "disturbed" \notin mishaps

Honest ==
  Alive =>
    /\ row.status = "running" => container = "running"
    /\ row.status = "offline" /\ "unstopped" \notin mishaps => container # "running"

\* What a goroutine may count on at its next step, when it is alone.
Expects(j) ==
  LET step == Head(job[j].left) IN
  /\ step \in {"load", "create", "installing", "suspend", "unsuspend", "stop", "remove"}
       => Honest
  /\ step = "start" =>
       IF job[j].op \in Provisioning THEN container # "running" ELSE Honest
  /\ step = "running" => container = "running"
  /\ step = "offline" => container # "running" \/ "unstopped" \in mishaps
  /\ step = "settle" => (IF job[j].auto THEN container = "running" ELSE container # "running")

Awaits(j) == IF job[j] = Idle THEN Honest ELSE Expects(j)

\* An edit of a running server remembers that it ran.
Remembers(j) ==
  job[j].op \in {"update", "ports"} =>
    /\ Alive
    /\ job[j].was /\ Head(job[j].left) = "load" => row.status = "running"
    /\ job[j].was /\ Head(job[j].left) \notin {"load", "error"} => job[j].auto

StatusInv ==
  /\ row.state = "unborn" => row.status = "installing" /\ \A j \in Jobs : job[j] = Idle
  /\ Serial =>
       /\ late = {}
       /\ \A i, j \in Jobs : job[i] # Idle /\ job[j] # Idle => i = j
       /\ Quiet => Honest
       /\ \A j \in Jobs : job[j] # Idle => Expects(j) /\ Remembers(j)

LEMMA GoesOnTo ==
  ASSUME LifeTypeOK, NEW j \in Jobs, NEW step, At(j, step), GoesOn(j)
  PROVE  /\ job'[j] # Idle /\ Head(job'[j].left) \in After(job[j].op, step)
         /\ job'[j].op = job[j].op /\ job'[j].was = job[j].was
         /\ job'[j].auto = job[j].auto \/ step = "load"
  <1>1. /\ job[j].op \in Ops /\ Ordered(job[j].op, job[j].left) /\ Head(job[j].left) = step
    BY AtFits
  <1>2. Head(Tail(job[j].left)) \in After(job[j].op, step)
    BY <1>1, TailOrdered DEF GoesOn
  <1>3. job'[j].op # "none"
    BY DEF GoesOn
  <1>4. job'[j] # Idle
    BY <1>3 DEF Idle
  <1>5. QED
    BY <1>1, <1>2, <1>4 DEF GoesOn, At

LEMMA AdvanceTo ==
  ASSUME LifeTypeOK, NEW j \in Jobs, NEW step, At(j, step), job'[j] = Rest(j)
  PROVE  \/ step \in LastSteps /\ job'[j] = Idle
         \/ GoesOn(j)
  <1>1. job'[j] = Rest(j)
    OBVIOUS
  <1>2. CASE Len(job[j].left) = 1
    BY <1>1, <1>2, AtFits DEF Rest
  <1>3. CASE Len(job[j].left) # 1
    <2>1. Moves(j)
      BY <1>1, RestMoves
    <2>2. job'[j].op = job[j].op
      BY <1>1, <1>3, AtFits DEF Rest, JobState
    <2>3. job[j].op # "none" /\ Idle.op = "none"
      BY AtFits, OpsAre DEF Idle
    <2>4. job'[j] # Idle
      BY <2>2, <2>3
    <2>5. CASE Errs(j)
      <3>1. job'[j].left = Tail(job[j].left)
        BY <1>1, <1>3, AtFits DEF Rest, JobState
      <3>2. job[j] \in JobState /\ job[j].left # <<>>
        BY AtFits DEF At
      <3>3. Tail(job[j].left) \in Seq(Steps)
        BY <3>2, HeadTailProperties DEF JobState
      <3>4. job'[j] = [job[j] EXCEPT !.left = Tail(job[j].left)]
        BY <1>1, <1>3 DEF Rest
      <3>5. job'[j].auto = job[j].auto /\ job'[j].was = job[j].was
            /\ job'[j].entitled = job[j].entitled /\ job'[j] \in JobState
        BY <3>2, <3>3, <3>4 DEF JobState
      <3>6. QED
        BY <1>3, <2>2, <2>3, <3>1, <3>2, <3>5 DEF GoesOn
    <2>6. QED
      BY <2>1, <2>4, <2>5 DEF Moves, Ends
  <1>4. QED
    BY <1>2, <1>3

LEMMA LoadTo ==
  ASSUME LifeTypeOK, NEW j \in Jobs, Load(j)
  PROVE  /\ GoesOn(j)
         /\ job[j].op \in Provisioning /\ row.status = "running" => job'[j].auto
  <1>1. Works(j) /\ job[j].op \in Ops /\ Len(job[j].left) # 1 /\ At(j, "load")
        /\ job[j] \in JobState /\ job[j].left # <<>>
    BY LoadWorks, AtFits DEF Load, LastSteps, At
  <1> DEFINE flag == job[j].op = "provision"
                     \/ (job[j].op \in Provisioning /\ row.status = "running")
             left == Tail(job[j].left)
  <1>2. job'[j] = [[job[j] EXCEPT !.left = left] EXCEPT !.auto = flag]
    BY <1>1 DEF Load, Rest, LifeTypeOK
  <1>3. left \in Seq(Steps) /\ flag \in BOOLEAN
    BY <1>1, HeadTailProperties DEF JobState
  <1> HIDE DEF flag, left
  <1>4. job'[j].op = job[j].op /\ job'[j].auto = flag
    BY <1>1, <1>2, <1>3 DEF JobState
  <1>5. job[j].op # "none" /\ Idle.op = "none"
    BY <1>1, OpsAre DEF Idle
  <1>6. ~Ends(j)
    BY <1>4, <1>5 DEF Ends
  <1>7. CASE Errs(j)
    <2>1. /\ job'[j].left = left /\ job'[j] \in JobState
          /\ job'[j].was = job[j].was /\ job'[j].entitled = job[j].entitled
      BY <1>1, <1>2, <1>3 DEF JobState
    <2>2. QED
      BY <1>1, <1>4, <1>5, <2>1 DEF GoesOn, left, flag
  <1>8. QED
    BY <1>1, <1>4, <1>6, <1>7 DEF Works, Moves, flag

\* A goroutine that is alone keeps what the status column says.
LEMMA ProceedKeepsStatus ==
  ASSUME LifeTypeOK, LifeTypeOK', StatusInv, NEW j \in Jobs, Proceed(j)
  PROVE  StatusInv'
  <1>1. \E step : At(j, step)
    BY DEF Proceed, Load, SetInstalling, SetError, SetRunning, SetOffline, Settle, Set,
           SetSuspended, ClearSuspended, ReleasePorts, Drop, RowGone, CallFails, DatabaseCall,
           SkipStart, Acknowledged, Refused, Unanswered, Sends, At
  <1>2. job[j] # Idle /\ job[j].op \in Ops /\ row.state # "unborn"
    BY <1>1, AtFits DEF StatusInv
  <1>3. row'.state # "unborn" /\ mishaps \subseteq mishaps'
    <2>1. row'.state \in {row.state, "gone"} /\ mishaps \subseteq mishaps'
      <3>1. ASSUME NEW step, NEW status, Set(j, step, status)
            PROVE  row'.state = row.state /\ mishaps' = mishaps
        BY <3>1 DEF Set, LifeTypeOK
      <3>2. CASE SetInstalling(j) \/ SetError(j) \/ SetRunning(j) \/ SetOffline(j) \/ Settle(j)
        BY <3>1, <3>2 DEF SetInstalling, SetError, SetRunning, SetOffline, Settle
      <3>3. CASE SetSuspended(j)
        BY <3>3 DEF SetSuspended, LifeTypeOK
      <3>4. CASE ClearSuspended(j)
        BY <3>4 DEF ClearSuspended, LifeTypeOK
      <3>5. CASE Drop(j)
        BY <3>5 DEF Drop
      <3>6. CASE Load(j) \/ ReleasePorts(j) \/ RowGone(j) \/ CallFails(j) \/ SkipStart(j)
        BY <3>6 DEF Load, ReleasePorts, RowGone, CallFails, SkipStart, Note
      <3>7. ASSUME NEW c \in Commands,
                   Acknowledged(j, c) \/ Refused(j, c) \/ Unanswered(j, c)
            PROVE  row'.state = row.state /\ mishaps \subseteq mishaps'
        BY <3>7 DEF Acknowledged, Refused, Unanswered, Note
      <3>8. QED
        BY <3>2, <3>3, <3>4, <3>5, <3>6, <3>7 DEF Proceed
    <2>2. QED
      BY <1>2, <2>1
  <1> SUFFICES ASSUME Serial'
               PROVE  /\ late' = {} /\ \A i \in Jobs \ {j} : job'[i] = Idle
                      /\ IF job'[j] = Idle THEN Honest' ELSE Expects(j)' /\ Remembers(j)'
    BY <1>3 DEF StatusInv, Quiet
  <1>4. /\ late = {} /\ (\A i \in Jobs \ {j} : job[i] = Idle)
        /\ Expects(j) /\ Remembers(j)
    BY <1>2, <1>3 DEF StatusInv, Serial
  <1>5. \A i \in Jobs \ {j} : job'[i] = Idle
    BY <1>4, ProceedWorks, SuspendMoves DEF Works, Raised
  <1> DEFINE Follows == IF job'[j] = Idle THEN Honest' ELSE Expects(j)' /\ Remembers(j)'
  <1> SUFFICES late' = late /\ Follows
    BY <1>4, <1>5
  <1> HIDE DEF Follows
  \* An edit stays as good as it was while its row is there.
  <1>6. ASSUME NEW step, At(j, step), step \notin {"load", "error"}, GoesOn(j),
               step # "installing" /\ step # "offline",
               row'.state = row.state
        PROVE  Remembers(j)'
    <2>1. /\ job'[j].op = job[j].op /\ job'[j].was = job[j].was
          /\ job'[j].auto = job[j].auto
          /\ Head(job'[j].left) \in After(job[j].op, step)
      BY <1>6, GoesOnTo
    <2>2. Head(job'[j].left) # "load"
      BY <1>6, <2>1, AtFits DEF After, Steps
    <2>3. QED
      BY <1>4, <1>6, <2>1, <2>2 DEF Remembers, At, Alive
  <1>7. ASSUME job[j].op \notin {"update", "ports"}, GoesOn(j) PROVE Remembers(j)'
    BY <1>7 DEF Remembers, GoesOn
  <1>8. ASSUME NEW step, NEW status, Set(j, step, status)
        PROVE  /\ At(j, step) /\ Alive /\ Alive' /\ row'.status = status /\ late' = late
               /\ container' = container /\ mishaps' = mishaps
               /\ row'.state = row.state
               /\ (step \in LastSteps /\ job'[j] = Idle) \/ GoesOn(j)
    BY <1>8, AdvanceTo DEF Set, Alive, Advance, LifeTypeOK
  <1>9. ASSUME NEW step, At(j, step), GoesOn(j)
        PROVE  /\ job'[j] # Idle /\ Head(job'[j].left) \in After(job[j].op, step)
               /\ job'[j].op = job[j].op
               /\ job'[j].auto = job[j].auto \/ step = "load"
    BY <1>9, GoesOnTo
  <1>10. ASSUME NEW step, At(j, step) PROVE Allowed(job[j].op, step) /\ Head(job[j].left) = step
    BY <1>10, AtFits
  <1>11. CASE SetInstalling(j)
    <2>1. At(j, "installing") /\ GoesOn(j) /\ row'.status = "installing" /\ late' = late
      BY <1>8, <1>11 DEF SetInstalling, LastSteps
    <2>2. job'[j] # Idle /\ Head(job'[j].left) \in {"load", "create"}
      BY <1>9, <2>1 DEF After
    <2>3. Honest' /\ Expects(j)'
      BY <2>1, <2>2 DEF Honest, Expects
    <2>4. Remembers(j)'
      BY <1>7, <1>10, <2>1 DEF Allowed
    <2>5. QED
      BY <2>1, <2>2, <2>3, <2>4 DEF Follows
  <1>12. CASE SetError(j)
    <2>1. At(j, "error") /\ row'.status = "errored" /\ late' = late
          /\ (job'[j] = Idle \/ GoesOn(j))
      BY <1>8, <1>12 DEF SetError
    <2>2. job'[j] = Idle
      BY <1>9, <2>1 DEF After
    <2>3. QED
      BY <2>1, <2>2 DEF Honest, Follows
  <1>13. CASE SetRunning(j)
    <2>1. At(j, "running") /\ row'.status = "running" /\ late' = late
          /\ container' = container /\ (job'[j] = Idle \/ GoesOn(j))
      BY <1>8, <1>13 DEF SetRunning
    <2>2. job'[j] = Idle
      BY <1>9, <2>1 DEF After
    <2>3. container = "running"
      BY <1>4, <1>10, <2>1 DEF Expects
    <2>4. QED
      BY <2>1, <2>2, <2>3 DEF Honest, Follows
  <1>14. CASE SetOffline(j)
    <2>1. At(j, "offline") /\ row'.status = "offline" /\ late' = late
          /\ container' = container /\ mishaps' = mishaps /\ (job'[j] = Idle \/ GoesOn(j))
      BY <1>8, <1>14 DEF SetOffline
    <2>2. container # "running" \/ "unstopped" \in mishaps
      BY <1>4, <1>10, <2>1 DEF Expects
    <2>3. Honest'
      BY <2>1, <2>2 DEF Honest
    <2>4. CASE GoesOn(j)
      <3>1. job'[j] # Idle /\ Head(job'[j].left) = "load"
        BY <1>9, <2>1, <2>4 DEF After
      <3>2. Expects(j)'
        BY <2>3, <3>1 DEF Expects
      <3>3. Remembers(j)'
        BY <1>7, <1>10, <2>1, <2>4 DEF Allowed, Provisioning
      <3>4. QED
        BY <2>1, <3>1, <3>2, <3>3 DEF Follows
    <2>5. QED
      BY <2>1, <2>3, <2>4 DEF Follows
  <1>15. CASE Settle(j)
    <2>1. At(j, "settle") /\ late' = late /\ container' = container /\ mishaps' = mishaps
          /\ row'.status = (IF job[j].auto THEN "running" ELSE "offline")
          /\ (job'[j] = Idle \/ GoesOn(j))
      BY <1>8, <1>15 DEF Settle
    <2>2. job'[j] = Idle
      BY <1>9, <2>1 DEF After
    <2>3. IF job[j].auto THEN container = "running" ELSE container # "running"
      BY <1>4, <1>10, <2>1 DEF Expects
    <2>4. QED
      BY <2>1, <2>2, <2>3 DEF Honest, Follows
  <1>16. CASE SetSuspended(j)
    <2>1. At(j, "suspend") /\ late' = late /\ container' = container /\ mishaps' = mishaps
          /\ row'.status = row.status /\ row'.state = row.state
          /\ job'[j] = Rest(j)
      BY <1>16 DEF SetSuspended, LifeTypeOK
    <2>2. GoesOn(j)
      BY <2>1, AdvanceTo DEF LastSteps
    <2>3. job'[j] # Idle /\ Head(job'[j].left) = "stop"
      BY <1>9, <2>1, <2>2 DEF After
    <2>4. Honest'
      BY <1>4, <1>10, <2>1 DEF Expects, Honest, Alive
    <2>5. Remembers(j)'
      BY <1>7, <1>10, <2>1, <2>2 DEF Allowed
    <2>6. QED
      BY <2>1, <2>3, <2>4, <2>5 DEF Expects, Follows
  <1>17. CASE ClearSuspended(j)
    <2>1. At(j, "unsuspend") /\ late' = late /\ container' = container /\ mishaps' = mishaps
          /\ row'.status = row.status /\ row'.state = row.state
          /\ job'[j] = Rest(j)
      BY <1>17 DEF ClearSuspended, Advance, LifeTypeOK
    <2>2. job'[j] = Idle
      BY <1>9, <2>1, AdvanceTo DEF After
    <2>3. QED
      BY <1>4, <1>10, <2>1, <2>2 DEF Expects, Honest, Alive, Follows
  <1>18. CASE ReleasePorts(j)
    <2>1. At(j, "release") /\ late' = late /\ job'[j] = Rest(j)
      BY <1>18 DEF ReleasePorts, Advance, LifeTypeOK
    <2>2. GoesOn(j)
      BY <2>1, AdvanceTo DEF LastSteps
    <2>3. job'[j] # Idle /\ Head(job'[j].left) = "drop"
      BY <1>9, <2>1, <2>2 DEF After
    <2>4. Expects(j)' /\ Remembers(j)'
      BY <1>7, <1>10, <2>1, <2>2, <2>3 DEF Expects, Allowed
    <2>5. QED
      BY <2>1, <2>3, <2>4 DEF Follows
  <1>19. CASE Drop(j)
    <2>1. At(j, "drop") /\ late' = late /\ job'[j] = Rest(j) /\ row'.state = "gone"
      BY <1>19 DEF Drop, Advance, LifeTypeOK
    <2>2. job'[j] = Idle
      BY <1>9, <2>1, AdvanceTo DEF After
    <2>3. QED
      BY <2>1, <2>2 DEF Honest, Alive, Follows
  <1>20. CASE RowGone(j)
    <2>1. late' = late /\ row' = row /\ ~Alive /\ Honest' /\ GiveUp(j)
      BY <1>20 DEF RowGone, Honest, Alive
    <2>2. CASE At(j, "installing")
      <3>1. GoesOn(j)
        BY <2>1, <2>2, AdvanceTo DEF GiveUp, Advance, LastSteps, LifeTypeOK
      <3>2. job'[j] # Idle /\ Head(job'[j].left) \in {"load", "create"}
        BY <1>9, <2>2, <3>1 DEF After
      <3>3. Expects(j)' /\ Remembers(j)'
        BY <1>7, <1>10, <2>1, <2>2, <3>1, <3>2 DEF Expects, Allowed
      <3>4. QED
        BY <2>1, <3>2, <3>3 DEF Follows
    <2>3. CASE ~At(j, "installing")
      <3>1. job'[j] = Idle
        BY <2>1, <2>3 DEF GiveUp, Abandon, LifeTypeOK
      <3>2. QED
        BY <2>1, <3>1 DEF Follows
    <2>4. QED
      BY <2>2, <2>3
  <1>21. CASE CallFails(j)
    BY <1>21 DEF CallFails, Note, Serial
  <1>22. CASE Load(j)
    <2>1. /\ At(j, "load") /\ late' = late /\ row' = row /\ container' = container
          /\ mishaps' = mishaps /\ Alive
      BY <1>22 DEF Load
    <2>2. GoesOn(j) /\ (job[j].op \in Provisioning /\ row.status = "running" => job'[j].auto)
      BY <1>22, LoadTo
    <2>3. /\ job'[j] # Idle /\ job'[j].op = job[j].op /\ job'[j].was = job[j].was
          /\ Head(job'[j].left) \in After(job[j].op, "load")
      BY <2>1, <2>2, GoesOnTo
    <2>4. Honest'
      BY <1>4, <1>10, <2>1 DEF Expects, Honest, Alive
    <2>5. Expects(j)'
      BY <2>3, <2>4 DEF Expects, After
    <2>6. Remembers(j)'
      BY <1>4, <1>10, <2>1, <2>2, <2>3 DEF Remembers, Provisioning, Alive, After
    <2>7. QED
      BY <2>1, <2>3, <2>5, <2>6 DEF Follows
  <1>23. CASE SkipStart(j)
    <2>1. /\ At(j, "start") /\ late' = late /\ row' = row /\ container' = container
          /\ job[j].op \in Provisioning /\ ~job[j].auto /\ job'[j] = Rest(j)
      BY <1>23 DEF SkipStart, Advance, LifeTypeOK
    <2>2. GoesOn(j)
      BY <2>1, AdvanceTo DEF LastSteps
    <2>3. job'[j] # Idle /\ Head(job'[j].left) = "settle" /\ ~job'[j].auto
      BY <1>9, <2>1, <2>2 DEF After
    <2>4. Expects(j)'
      BY <1>4, <1>10, <2>1, <2>3 DEF Expects
    <2>5. Remembers(j)'
      BY <1>6, <2>1, <2>2
    <2>6. QED
      BY <2>1, <2>3, <2>4, <2>5 DEF Follows
  <1>24. ASSUME NEW c \in Commands, Acknowledged(j, c) PROVE late' = late /\ Follows
    <2>1. /\ At(j, c) /\ late' = late /\ row' = row /\ mishaps' = mishaps
          /\ Run(c) /\ job'[j] = Rest(j)
          /\ c = "start" => container # "none" /\ (job[j].op \notin Provisioning \/ job[j].auto)
      BY <1>24 DEF Acknowledged, Sends, Advance, LifeTypeOK
    <2>2. GoesOn(j)
      BY <2>1, AdvanceTo DEF LastSteps, Commands
    <2>3. /\ job'[j] # Idle /\ Head(job'[j].left) \in After(job[j].op, c)
          /\ job'[j].op = job[j].op /\ job'[j].auto = job[j].auto
      BY <1>9, <2>1, <2>2 DEF Commands
    <2>4. /\ c \in {"create", "stop"} => container' # "running"
          /\ c = "start" => container' = "running"
      BY <2>1, RunFits
    <2>5. Expects(j)'
      <3>1. CASE c = "create"
        BY <1>10, <2>1, <2>3, <2>4, <3>1 DEF Expects, After, Allowed
      <3>2. CASE c = "start"
        BY <2>1, <2>3, <2>4, <3>2 DEF Expects, After
      <3>3. CASE c = "stop"
        BY <2>3, <2>4, <3>3 DEF Expects, After
      <3>4. CASE c = "remove"
        BY <2>3, <3>4 DEF Expects, After
      <3>5. QED
        BY <3>1, <3>2, <3>3, <3>4 DEF Commands
    <2>6. Remembers(j)'
      BY <1>6, <2>1, <2>2 DEF Commands
    <2>7. QED
      BY <2>1, <2>3, <2>5, <2>6 DEF Follows
  <1>25. ASSUME NEW c \in Commands, Refused(j, c) PROVE late' = late /\ Follows
    <2>1. /\ At(j, c) /\ late' = late /\ row' = row /\ Fail(j)
          /\ c \in {"stop", "remove"} => "unstopped" \in mishaps'
          /\ c # "create" => container' = container
          /\ c = "start" /\ job[j].op \notin Provisioning => Honest
          /\ c = "stop" => Honest
      BY <1>4, <1>10, <1>25 DEF Refused, Sends, Note, Expects, Commands
    <2>2. CASE job[j].op \in Provisioning
      <3>1. job'[j] = [job[j] EXCEPT !.left = <<"error">>]
        BY <2>1, <2>2 DEF Fail, LifeTypeOK, Provisioning
      <3>2. job'[j].op = job[j].op /\ job'[j].left = <<"error">>
        BY <2>1, <3>1, AtFits DEF JobState
      <3>3. job'[j] # Idle
        BY <1>2, <3>2, OpsAre DEF Idle
      <3>4. Head(job'[j].left) = "error"
        BY <3>2
      <3>5. Expects(j)' /\ Remembers(j)'
        BY <1>4, <2>1, <3>2, <3>4 DEF Expects, Remembers, Alive
      <3>6. QED
        BY <2>1, <3>3, <3>5 DEF Follows
    <2>3. CASE job[j].op \in {"suspend", "delete"}
      <3>1. job'[j] = Rest(j)
        BY <2>1, <2>3 DEF Fail, Advance, LifeTypeOK, Provisioning
      <3>2. GoesOn(j)
        BY <2>1, <3>1, AdvanceTo DEF LastSteps, Commands
      <3>3. job'[j] # Idle /\ Head(job'[j].left) \in After(job[j].op, c)
        BY <1>9, <2>1, <3>2
      <3>4. c \in {"stop", "remove"}
        BY <1>10, <2>1, <2>3 DEF Allowed, Commands, Provisioning
      <3>5. Head(job'[j].left) \in {"offline", "release"}
        BY <3>3, <3>4 DEF After
      <3>6. Expects(j)' /\ Remembers(j)'
        BY <1>7, <2>1, <2>3, <3>2, <3>4, <3>5 DEF Expects
      <3>7. QED
        BY <2>1, <3>3, <3>6 DEF Follows
    <2>4. CASE job[j].op \notin Provisioning \cup {"suspend", "delete"}
      <3>1. job'[j] = Idle
        BY <2>1, <2>4 DEF Fail, Abandon, LifeTypeOK
      <3>2. c \in {"start", "stop"}
        BY <1>10, <2>1, <2>4 DEF Allowed, Commands
      <3>3. Honest'
        BY <1>3, <2>1, <2>4, <3>2 DEF Honest, Alive
      <3>4. QED
        BY <2>1, <3>1, <3>3 DEF Follows
    <2>5. QED
      BY <2>2, <2>3, <2>4
  <1>26. ASSUME NEW c \in Commands, Unanswered(j, c) PROVE late' = late /\ Follows
    BY <1>26 DEF Unanswered, Note, Serial
  <1>27. QED
    BY <1>11, <1>12, <1>13, <1>14, <1>15, <1>16, <1>17, <1>18, <1>19, <1>20, <1>21, <1>22,
       <1>23, <1>24, <1>25, <1>26 DEF Proceed

LEMMA StatusStep ==
  LifeTypeOK /\ LifeTypeOK' /\ StatusInv /\ [Next]_vars => StatusInv'
  <1> SUFFICES ASSUME LifeTypeOK, LifeTypeOK', StatusInv, [Next]_vars PROVE StatusInv'
    OBVIOUS
  <1>1. ASSUME NEW j \in Jobs, Create(j) PROVE StatusInv'
    <2>1. PICK r : Begun("provision", r) /\ job' = [job EXCEPT ![j] = r]
      BY <1>1, CreateBegins
    <2>2. /\ job'[j].op = "provision" /\ job'[j].left = Plan.provision
          /\ \A i \in Jobs \ {j} : job'[i] = job[i]
      BY <2>1 DEF Begun, LifeTypeOK
    <2>3. /\ \A i \in Jobs \ {j} : job'[i] = Idle
          /\ row'.state = "row" /\ row'.status = "installing" /\ late' = late
          /\ mishaps' = mishaps
      BY <1>1, <2>2 DEF Create, StatusInv, LifeTypeOK
    <2>4. job'[j] # Idle
      BY <2>2 DEF Idle
    <2>5. Honest'
      BY <2>3 DEF Honest
    <2>6. Head(job'[j].left) = "load"
      BY <2>2 DEF Plan
    <2>7. Expects(j)' /\ Remembers(j)'
      BY <2>2, <2>5, <2>6 DEF Expects, Remembers
    <2>8. QED
      BY <2>3, <2>4, <2>7 DEF StatusInv, Serial, Quiet
  <1>2. ASSUME NEW j \in Jobs, NEW op \in Ops, NEW by \in Actors[op], Begin(j, op, by)
        PROVE  StatusInv'
    <2>1. PICK r : /\ Begun(op, r) /\ job' = [job EXCEPT ![j] = r]
                   /\ op = "ports" /\ row.status = "running" => r.auto
                   /\ r.was => op \in Provisioning /\ row.status = "running"
      BY <1>2, BeginBegins
    <2>2. /\ job'[j] = r /\ r.op = op /\ r.left = Plan[op]
          /\ \A i \in Jobs \ {j} : job'[i] = job[i]
      BY <2>1 DEF Begun, LifeTypeOK
    <2>3. /\ row' = row /\ container' = container /\ late' = late /\ row.state = "row"
          /\ Clash(op) \subseteq mishaps' /\ mishaps \subseteq mishaps'
      BY <1>2 DEF Begin, Note, Alive
    <2>4. SUFFICES ASSUME Serial'
                   PROVE  /\ Quiet /\ Honest
                          /\ job'[j] # Idle /\ Expects(j)' /\ Remembers(j)'
      BY <2>2, <2>3, <2>4 DEF StatusInv, Serial, Quiet
    <2>5. Quiet /\ Honest
      <3>1. ~(\E i \in Jobs : job[i] # Idle)
        BY <2>3, <2>4 DEF Clash, Serial
      <3>2. Quiet
        BY <3>1 DEF Quiet
      <3>3. Serial
        BY <2>3, <2>4 DEF Serial
      <3>4. QED
        BY <3>2, <3>3 DEF StatusInv
    <2>6. job'[j] # Idle
      BY <2>2, OpsAre DEF Idle
    <2>7. Honest'
      BY <2>3, <2>5 DEF Honest, Alive
    <2>8. Head(job'[j].left) \in {"load", "create", "installing"}
      BY <2>2, OpsAre DEF Plan, DeletePlan
    <2>9. Expects(j)'
      BY <2>7, <2>8 DEF Expects
    <2>10. op = "update" => Head(job'[j].left) = "load"
      BY <2>2 DEF Plan
    <2>11. Remembers(j)'
      BY <2>1, <2>2, <2>3, <2>10 DEF Remembers, Alive
    <2>12. QED
      BY <2>5, <2>6, <2>9, <2>11
  <1>3. ASSUME NEW j \in Jobs, Proceed(j) PROVE StatusInv'
    BY <1>3, ProceedKeepsStatus
  <1>4. ASSUME NEW c \in Commands, LateRun(c) PROVE StatusInv'
    BY <1>4 DEF LateRun, StatusInv, Serial
  <1>5. CASE ContainerExits
    BY <1>5 DEF ContainerExits, Note, StatusInv, Serial
  <1>6. CASE Restart
    BY <1>6 DEF Restart, Note, StatusInv, Serial
  <1>7. CASE UNCHANGED vars
    BY <1>7 DEF vars, StatusInv, Serial, Quiet, Honest, Expects, Remembers, Alive
  <1>8. QED
    BY <1>1, <1>2, <1>3, <1>4, <1>5, <1>6, <1>7 DEF Next

\* The step that settles an edit nothing disturbed.
LEMMA EditsEndRunning ==
  ASSUME LifeTypeOK, StatusInv, [Next]_vars
  PROVE  EndsRunning({"update", "ports"}) \/ UNCHANGED vars
  <1> SUFFICES ASSUME NEW j \in Jobs, job[j].op \in {"update", "ports"}, At(j, "settle"),
                      job[j].was, mishaps' \subseteq {"unstopped"}, Next
               PROVE  row'.status = "running" /\ container' = "running"
    BY DEF EndsRunning
  <1>1. job[j] # Idle /\ Head(job[j].left) = "settle"
    BY AtFits
  <1>2. ASSUME mishaps \subseteq mishaps'
        PROVE  /\ late = {} /\ job[j].auto /\ container = "running" /\ Alive
               /\ \A i \in Jobs \ {j} : job[i] = Idle
    BY <1>1, <1>2 DEF StatusInv, Serial, Expects, Remembers
  <1>3. ASSUME NEW i \in Jobs, Create(i) PROVE FALSE
    BY <1>1, <1>3 DEF Create, StatusInv
  <1>4. ASSUME NEW i \in Jobs, NEW op \in Ops, NEW by \in Actors[op], Begin(i, op, by)
        PROVE  FALSE
    BY <1>1, <1>4 DEF Begin, Note, Clash
  <1>5. ASSUME NEW c \in Commands, LateRun(c) PROVE FALSE
    BY <1>2, <1>5 DEF LateRun
  <1>6. ~ContainerExits /\ ~Restart
    BY DEF ContainerExits, Restart, Note
  <1>7. PICK i \in Jobs : Proceed(i)
    BY <1>3, <1>4, <1>5, <1>6 DEF Next
  <1>8. ASSUME NEW step, NEW status, Set(i, step, status)
        PROVE  At(i, step) /\ row'.status = status /\ container' = container
               /\ mishaps' = mishaps
    BY <1>8 DEF Set, LifeTypeOK
  <1>9. \E step : At(i, step)
    BY <1>7
    DEF Proceed, Load, SetInstalling, SetError, SetRunning, SetOffline, Settle, Set,
        SetSuspended, ClearSuspended, ReleasePorts, Drop, RowGone, CallFails, DatabaseCall,
        SkipStart, Acknowledged, Refused, Unanswered, Sends, At
  <1>10. job[i] # Idle
    BY <1>9, AtFits
  <1>11. i = j => \A step : At(i, step) => step = "settle"
    BY <1>1 DEF At
  <1>12. CASE Settle(i)
    BY <1>2, <1>8, <1>10, <1>12 DEF Settle
  <1>13. CASE ~Settle(i)
    <2>1. i = j => RowGone(i) \/ CallFails(i)
      BY <1>7, <1>11, <1>13
      DEF Proceed, Load, SetInstalling, SetError, SetRunning, SetOffline, Set, SetSuspended,
          ClearSuspended, ReleasePorts, Drop, SkipStart, Acknowledged, Refused, Unanswered,
          Sends, Commands
    <2>2. mishaps \subseteq mishaps'
      <3>1. CASE SetInstalling(i) \/ SetError(i) \/ SetRunning(i) \/ SetOffline(i)
        BY <1>8, <3>1 DEF SetInstalling, SetError, SetRunning, SetOffline
      <3>2. CASE \/ SetSuspended(i) \/ ClearSuspended(i) \/ Drop(i) \/ Load(i)
                 \/ ReleasePorts(i) \/ RowGone(i) \/ CallFails(i) \/ SkipStart(i)
        BY <3>2 DEF SetSuspended, ClearSuspended, Drop, Load, ReleasePorts, RowGone, CallFails,
                    SkipStart, Note
      <3>3. ASSUME NEW c \in Commands, Acknowledged(i, c) \/ Refused(i, c) \/ Unanswered(i, c)
            PROVE  mishaps \subseteq mishaps'
        BY <3>3 DEF Acknowledged, Refused, Unanswered, Note
      <3>4. QED
        BY <1>7, <1>13, <3>1, <3>2, <3>3 DEF Proceed
    <2>3. i = j /\ Alive
      BY <1>2, <1>10, <2>2
    <2>4. QED
      BY <2>1, <2>3 DEF RowGone, CallFails, Note
  <1>14. QED
    BY <1>12, <1>13

-----------------------------------------------------------------------------
(* The theorems.                                                           *)

LifeIInv == LifeTypeOK /\ SuspensionInv /\ DeletionInv /\ StatusInv

LEMMA InitLifeIInv == Init => LifeIInv
  <1> SUFFICES ASSUME Init PROVE LifeIInv
    OBVIOUS
  <1>1. \A j \in Jobs : job[j] = Idle
    BY DEF Init
  <1>2. LifeTypeOK
    BY <1>1, IdleFits DEF Init, LifeTypeOK
  <1>3. SuspensionInv /\ DeletionInv
    BY <1>1 DEF Init, SuspensionInv, DeletionInv, Alive, Bare, Idle, Provisioning
  <1>4. StatusInv
    BY <1>1 DEF Init, StatusInv, Honest, Alive
  <1>5. QED
    BY <1>2, <1>3, <1>4 DEF LifeIInv

LEMMA LifeInvariant == Spec => []LifeIInv
  <1>1. LifeIInv /\ [Next]_vars => LifeIInv'
    BY NextLifeTypes, SuspensionStep, DeletionStep, StatusStep DEF LifeIInv
  <1>2. QED
    BY <1>1, InitLifeIInv, PTL DEF Spec

(* SuspendServer and the checks of every entrance: once a suspended server *)
(* was stopped, nobody who is not entitled to it starts it again, however  *)
(* many requests and automations run, as long as the database answers.     *)
THEOREM SuspensionHolds == Spec => []SuspendedStaysStopped
  <1>1. LifeIInv => SuspendedStaysStopped
    BY DEF LifeIInv, SuspensionInv, SuspendedStaysStopped
  <1>2. QED
    BY <1>1, LifeInvariant, PTL

(* The status column: when operations came one after the other and were    *)
(* answered and written, what it shows of the container is true.           *)
THEOREM StatusTellsTheTruth == Spec => []StatusHonest
  <1>1. LifeIInv => StatusHonest
    BY DEF LifeIInv, StatusInv, Serial, Honest, StatusHonest
  <1>2. QED
    BY <1>1, LifeInvariant, PTL

(* DeleteServer leaves no container behind, unless the node refused to     *)
(* remove it, ran something late, or the server was being provisioned.     *)
THEOREM NoContainerLeft == Spec => []NoOrphan
  <1>1. LifeIInv => NoOrphan
    BY DEF LifeIInv, DeletionInv, Smooth, NoOrphan
  <1>2. QED
    BY <1>1, LifeInvariant, PTL

(* UpdateServer and the port changes: a server shown as running when an    *)
(* edit nothing disturbed began is running when it ends.                   *)
THEOREM EditsPreservePower == Spec => EditsKeepRunning
  <1>1. LifeIInv /\ [Next]_vars => [EndsRunning({"update", "ports"})]_vars
    BY EditsEndRunning DEF LifeIInv
  <1>2. QED
    BY <1>1, LifeInvariant, PTL DEF Spec, EditsKeepRunning
=============================================================================
