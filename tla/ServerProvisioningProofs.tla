---------------------- MODULE ServerProvisioningProofs ----------------------
(* Server rows and their ports, for any users, servers, ports and requests.*)
EXTENDS ServerProvisioning, SumTheorems, TLAPS

CreateSteps == {"claim", "setport", "release", "undo"}
\* The steps that know a server and may touch its row or its ports.
PortSteps == CreateSteps \cup {"delrelease", "delrow", "attached", "detach", "detached"}
AllSteps == PortSteps \cup {"idle", "limit", "usage", "insert", "update", "unlock"}

RowState == [state : {"unborn", "row", "gone"}, owner : Users \cup {None}, mem : Nat,
             port : Ports \cup {0}]
RequestState == [pc : AllSteps, user : Users \cup {None}, server : Servers \cup {None},
                 mem : Nat, limit : Nat, port : Ports \cup {0}]

\* What a request knows fits the step it is at.
Fits(r) ==
  /\ r.pc = "idle" => r = Idle
  /\ r.pc \in {"limit", "usage", "insert"} => r.user \in Users
  /\ r.pc = "insert" => r.server = None
  /\ r.pc \in PortSteps \cup {"update"} => r.server \in Servers
  /\ r.pc \in {"setport", "attached", "detached"} => r.port \in Ports

ProvTypeOK ==
  /\ srv \in [Servers -> RowState]
  /\ \A s \in Servers : Exists(s) => srv[s].owner \in Users
  /\ port \in [Ports -> Servers \cup {None}]
  /\ limit \in [Users -> Nat]
  /\ req \in [Procs -> RequestState]
  /\ \A p \in Procs : Fits(req[p])

-----------------------------------------------------------------------------
(* The types.                                                              *)

LEMMA InitTypes == Init => ProvTypeOK
  BY ProvisioningAssumption
  DEF Init, ProvTypeOK, ProvisioningAssumption, Blank, Idle, RowState, RequestState, Fits,
      AllSteps, PortSteps, CreateSteps, Exists

\* A request changes in one place.
LEMMA OneRequestFits ==
  ASSUME ProvTypeOK, NEW p \in Procs, NEW r \in RequestState, Fits(r),
         req' = [req EXCEPT ![p] = r]
  PROVE  req' \in [Procs -> RequestState] /\ \A q \in Procs : Fits(req'[q])
  BY DEF ProvTypeOK

LEMMA IdleFits == Idle \in RequestState /\ Fits(Idle)
  BY DEF Idle, RequestState, Fits, AllSteps, PortSteps, CreateSteps

\* Finish and Release.
LEMMA EndFits ==
  ASSUME ProvTypeOK, NEW p \in Procs, Finish(p) \/ Release(p)
  PROVE  req' \in [Procs -> RequestState] /\ \A q \in Procs : Fits(req'[q])
  <1>1. CASE Finish(p)
    BY <1>1, IdleFits, OneRequestFits DEF Finish
  <1>2. CASE Release(p)
    <2> DEFINE r == [Idle EXCEPT !.pc = "unlock", !.user = req[p].user]
    <2>1. r \in RequestState /\ Fits(r)
      BY DEF ProvTypeOK, Idle, RequestState, Fits, AllSteps, PortSteps, CreateSteps
    <2>2. QED
      BY <1>2, <2>1, OneRequestFits DEF Release
  <1>3. QED
    BY <1>1, <1>2

\* Goto another step that wants to know no more.
LEMMA GotoFits ==
  ASSUME ProvTypeOK, NEW p \in Procs, NEW step \in {"undo", "release", "delrow"}, Goto(p, step),
         req[p].pc \in PortSteps
  PROVE  req' \in [Procs -> RequestState] /\ \A q \in Procs : Fits(req'[q])
  <1> DEFINE r == [req[p] EXCEPT !.pc = step]
  <1>1. r \in RequestState /\ Fits(r)
    BY DEF ProvTypeOK, RequestState, Fits, AllSteps, PortSteps, CreateSteps, Idle
  <1>2. req' = [req EXCEPT ![p] = r]
    BY DEF Goto
  <1>3. QED
    BY <1>1, <1>2, OneRequestFits

\* Rows keep their types.
RowsFit ==
  /\ srv' \in [Servers -> RowState]
  /\ \A s \in Servers : Exists(s)' => srv'[s].owner \in Users
PortsFit == port' \in [Ports -> Servers \cup {None}]
RequestsFit == req' \in [Procs -> RequestState] /\ \A q \in Procs : Fits(req'[q])

LEMMA DropRowFits ==
  ASSUME ProvTypeOK, NEW s \in Servers, DropRow(s)
  PROVE  RowsFit /\ PortsFit
  BY DEF ProvTypeOK, DropRow, RowsFit, PortsFit, Blank, RowState, Exists

LEMMA CreateStepTypes ==
  ASSUME ProvTypeOK, NEW p \in Procs, CreateStep(p)
  PROVE  ProvTypeOK'
  <1> USE DEF Exists
  <1>1. SUFFICES RowsFit /\ PortsFit /\ RequestsFit /\ limit' = limit
    BY DEF ProvTypeOK, RowsFit, PortsFit, RequestsFit
  <1>2. ASSUME srv' = srv PROVE RowsFit
    BY <1>2 DEF ProvTypeOK, RowsFit
  <1>3. ASSUME port' = port PROVE PortsFit
    BY <1>3 DEF ProvTypeOK, PortsFit
  <1>4. req[p] \in RequestState /\ Fits(req[p])
    BY DEF ProvTypeOK
  <1>5. ASSUME NEW r \in RequestState, Fits(r), req' = [req EXCEPT ![p] = r]
        PROVE  RequestsFit
    BY <1>5, OneRequestFits DEF RequestsFit
  <1>6. ASSUME Finish(p) \/ Release(p) PROVE RequestsFit
    BY <1>6, EndFits DEF RequestsFit
  <1>7. ASSUME Refuse(p) PROVE RequestsFit
    BY <1>6, <1>7 DEF Refuse
  <1>8. ASSUME NEW step \in {"undo", "release"}, Goto(p, step), req[p].pc \in PortSteps
        PROVE  RequestsFit
    BY <1>8, GotoFits DEF RequestsFit
  <1>11. ASSUME NEW u \in Users, NEW m \in Sizes, CreateLock(p, u, m)
         PROVE  RowsFit /\ PortsFit /\ RequestsFit /\ limit' = limit
    <2> DEFINE r == [Idle EXCEPT !.pc = "limit", !.user = u, !.mem = m]
    <2>1. r \in RequestState /\ Fits(r)
      BY ProvisioningAssumption DEF ProvisioningAssumption, Idle, RequestState, Fits, AllSteps,
         PortSteps, CreateSteps
    <2>2. QED
      BY <1>2, <1>3, <1>5, <1>11, <2>1 DEF CreateLock
  <1>12. CASE ReadLimit(p)
    <2> DEFINE r == [req[p] EXCEPT !.pc = "usage", !.limit = limit[req[p].user]]
    <2>1. r \in RequestState /\ Fits(r)
      BY <1>4, <1>12 DEF ReadLimit, ProvTypeOK, RequestState, Fits, AllSteps, PortSteps, CreateSteps
    <2>2. req' = [req EXCEPT ![p] = r]
      BY <1>12 DEF ReadLimit
    <2>3. QED
      BY <1>2, <1>3, <1>5, <1>12, <2>1, <2>2 DEF ReadLimit
  <1>13. CASE CheckUsage(p)
    <2> DEFINE r == [req[p] EXCEPT !.limit = 0,
                       !.pc = IF req[p].server = None THEN "insert" ELSE "update"]
    <2>1. req[p].pc = "usage" => r \in RequestState /\ Fits(r)
      BY <1>4 DEF RequestState, Fits, AllSteps, PortSteps, CreateSteps
    <2>2. req' = [req EXCEPT ![p] = r] \/ Refuse(p)
      BY <1>13 DEF CheckUsage
    <2>3. QED
      BY <1>2, <1>3, <1>5, <1>7, <1>13, <2>1, <2>2 DEF CheckUsage
  <1>14. CASE QueryFails(p)
    BY <1>2, <1>3, <1>7, <1>14 DEF QueryFails
  <1>15. CASE InsertRow(p)
    <2>1. PICK s \in Servers :
            /\ srv' = [srv EXCEPT ![s] =
                 [state |-> "row", owner |-> req[p].user, mem |-> req[p].mem, port |-> 0]]
            /\ req' = [req EXCEPT ![p].pc = "claim", ![p].server = s, ![p].mem = 0]
      BY <1>15 DEF InsertRow
    <2> DEFINE r == [req[p] EXCEPT !.pc = "claim", !.server = s, !.mem = 0]
    <2>2. r \in RequestState /\ Fits(r)
      BY <1>4, <1>15 DEF InsertRow, RequestState, Fits, AllSteps, PortSteps, CreateSteps
    <2>3. RequestsFit
      BY <1>5, <2>1, <2>2
    <2>4. RowsFit
      BY <1>4, <1>15, <2>1 DEF InsertRow, ProvTypeOK, RowsFit, RowState, RequestState, Fits
    <2>5. QED
      BY <1>3, <1>15, <2>3, <2>4 DEF InsertRow
  <1>16. CASE ClaimFree(p)
    <2>1. CASE Goto(p, "undo") /\ port' = port
      BY <1>2, <1>3, <1>8, <1>16, <2>1 DEF ClaimFree, PortSteps, CreateSteps
    <2>2. ASSUME NEW q \in Free, port' = [port EXCEPT ![q] = req[p].server],
                 req' = [req EXCEPT ![p].pc = "setport", ![p].port = q]
          PROVE  PortsFit /\ RequestsFit
      <3> DEFINE r == [req[p] EXCEPT !.pc = "setport", !.port = q]
      <3>1. q \in Ports
        BY DEF Free
      <3>2. r \in RequestState /\ Fits(r)
        BY <1>4, <1>16, <3>1 DEF ClaimFree, RequestState, Fits, AllSteps, PortSteps, CreateSteps
      <3>3. RequestsFit
        BY <1>5, <2>2, <3>2
      <3>4. PortsFit
        BY <1>4, <2>2, <3>1 DEF ProvTypeOK, PortsFit, RequestState
      <3>5. QED
        BY <3>3, <3>4
    <2>3. QED
      BY <1>2, <1>16, <2>1, <2>2 DEF ClaimFree
  <1>17. CASE SetPrimaryPort(p)
    <2>1. RowsFit
      BY <1>4, <1>17 DEF SetPrimaryPort, ProvTypeOK, RowsFit, RowState, RequestState, Fits,
         PortSteps, CreateSteps
    <2>2. QED
      BY <1>3, <1>6, <1>17, <2>1 DEF SetPrimaryPort
  <1>18. CASE CallFails(p)
    BY <1>2, <1>3, <1>8, <1>18 DEF CallFails, PortSteps, CreateSteps
  <1>19. CASE ReleasePorts(p)
    <2>1. PortsFit
      BY <1>19 DEF ReleasePorts, ProvTypeOK, PortsFit
    <2>2. QED
      BY <1>2, <1>8, <1>19, <2>1 DEF ReleasePorts, PortSteps, CreateSteps
  <1>20. CASE UndoCreate(p)
    <2>1. req[p].server \in Servers
      BY <1>4, <1>20 DEF UndoCreate, Fits, PortSteps, CreateSteps
    <2>2. RowsFit /\ PortsFit
      BY <1>2, <1>3, <1>20, <2>1, DropRowFits DEF UndoCreate
    <2>3. QED
      BY <1>6, <1>20, <2>2 DEF UndoCreate
  <1>21. CASE Unlock(p)
    BY <1>2, <1>3, <1>6, <1>21 DEF Unlock
  <1>22. QED
    BY <1>11, <1>12, <1>13, <1>14, <1>15, <1>16, <1>17, <1>18, <1>19, <1>20, <1>21
    DEF CreateStep

LEMMA RequestStepTypes ==
  ASSUME ProvTypeOK, NEW p \in Procs, RequestStep(p)
  PROVE  ProvTypeOK'
  <1> USE DEF Exists
  <1>1. SUFFICES RowsFit /\ PortsFit /\ RequestsFit /\ limit' = limit
    BY DEF ProvTypeOK, RowsFit, PortsFit, RequestsFit
  <1>2. ASSUME srv' = srv PROVE RowsFit
    BY <1>2 DEF ProvTypeOK, RowsFit
  <1>3. ASSUME port' = port PROVE PortsFit
    BY <1>3 DEF ProvTypeOK, PortsFit
  <1>4. req[p] \in RequestState /\ Fits(req[p])
    BY DEF ProvTypeOK
  <1>5. ASSUME Finish(p) PROVE RequestsFit
    BY <1>5, EndFits DEF RequestsFit
  <1>6. ASSUME ReleaseOne(p) PROVE PortsFit
    BY <1>6 DEF ReleaseOne, ProvTypeOK, PortsFit
  <1>11. CASE UpdateSettings(p)
    <2>1. RowsFit
      <3>1. CASE Exists(req[p].server)
        <4>1. req[p].server \in Servers /\ req[p].mem \in Nat
          BY <1>4, <1>11 DEF UpdateSettings, RequestState, Fits
        <4>2. srv' = [srv EXCEPT ![req[p].server].mem = req[p].mem]
          BY <1>11, <3>1 DEF UpdateSettings
        <4>3. QED
          BY <4>1, <4>2 DEF ProvTypeOK, RowsFit, RowState
      <3>2. CASE ~Exists(req[p].server)
        BY <1>2, <1>11, <3>2 DEF UpdateSettings
      <3>3. QED
        BY <3>1, <3>2
    <2>2. QED
      BY <1>3, <1>5, <1>11, <2>1 DEF UpdateSettings
  <1>12. CASE DeleteRelease(p)
    <2>1. PortsFit
      BY <1>12 DEF DeleteRelease, ProvTypeOK, PortsFit
    <2>2. RequestsFit
      BY <1>5, <1>12, GotoFits DEF DeleteRelease, RequestsFit, PortSteps
    <2>3. QED
      BY <1>2, <1>12, <2>1, <2>2 DEF DeleteRelease
  <1>13. CASE DeleteRow(p)
    <2>1. req[p].server \in Servers
      BY <1>4, <1>13 DEF DeleteRow, Fits, PortSteps
    <2>2. RowsFit /\ PortsFit
      BY <1>2, <1>3, <1>13, <2>1, DropRowFits DEF DeleteRow
    <2>3. QED
      BY <1>5, <1>13, <2>2 DEF DeleteRow
  <1>14. CASE AttachEnds(p)
    BY <1>2, <1>3, <1>5, <1>6, <1>14 DEF AttachEnds
  <1>15. CASE DetachRelease(p)
    BY <1>2, <1>5, <1>6, <1>15 DEF DetachRelease
  <1>16. ASSUME NEW q \in Ports, DetachCheck(p, q)
         PROVE  RowsFit /\ PortsFit /\ RequestsFit /\ limit' = limit
    <2> DEFINE r == [req[p] EXCEPT !.pc = "detached", !.port = q]
    <2>1. r \in RequestState /\ Fits(r)
      BY <1>4, <1>16 DEF DetachCheck, RequestState, Fits, AllSteps, PortSteps, CreateSteps
    <2>2. req' = [req EXCEPT ![p] = r] \/ Finish(p)
      BY <1>16 DEF DetachCheck
    <2>3. RequestsFit
      BY <1>5, <2>1, <2>2, OneRequestFits DEF RequestsFit
    <2>4. QED
      BY <1>2, <1>3, <1>16, <2>3 DEF DetachCheck
  <1>17. QED
    BY <1>11, <1>12, <1>13, <1>14, <1>15, <1>16 DEF RequestStep

LEMMA ServerStepTypes ==
  ASSUME ProvTypeOK, NEW p \in Procs, NEW s \in Servers, ServerStep(p, s)
  PROVE  ProvTypeOK'
  <1> USE DEF Exists
  <1>1. SUFFICES RowsFit /\ PortsFit /\ RequestsFit /\ limit' = limit
    BY DEF ProvTypeOK, RowsFit, PortsFit, RequestsFit
  <1>2. ASSUME srv' = srv PROVE RowsFit
    BY <1>2 DEF ProvTypeOK, RowsFit
  <1>3. ASSUME port' = port PROVE PortsFit
    BY <1>3 DEF ProvTypeOK, PortsFit
  <1>4. ASSUME NEW r \in RequestState, Fits(r), req' = [req EXCEPT ![p] = r]
        PROVE  RequestsFit
    BY <1>4, OneRequestFits DEF RequestsFit
  <1> USE DEF Idle, RequestState, RowState, Fits, AllSteps, PortSteps, CreateSteps
  <1>11. ASSUME NEW m \in Sizes, ResizeBegin(p, s, m)
         PROVE  RowsFit /\ PortsFit /\ RequestsFit /\ limit' = limit
    <2> DEFINE r == [Idle EXCEPT !.pc = "limit", !.user = srv[s].owner, !.server = s, !.mem = m]
    <2>1. r \in RequestState /\ Fits(r)
      BY <1>11, ProvisioningAssumption DEF ResizeBegin, ProvisioningAssumption, ProvTypeOK
    <2>2. QED
      BY <1>2, <1>3, <1>4, <1>11, <2>1 DEF ResizeBegin
  <1>12. CASE DeleteBegin(p, s)
    <2> DEFINE r == [Idle EXCEPT !.pc = "delrelease", !.server = s]
    <2>1. r \in RequestState /\ Fits(r)
      OBVIOUS
    <2>2. QED
      BY <1>2, <1>3, <1>4, <1>12, <2>1 DEF DeleteBegin
  <1>13. ASSUME NEW q \in Ports, Attach(p, s, q)
         PROVE  RowsFit /\ PortsFit /\ RequestsFit /\ limit' = limit
    <2> DEFINE r == [Idle EXCEPT !.pc = "attached", !.server = s, !.port = q]
    <2>1. r \in RequestState /\ Fits(r)
      OBVIOUS
    <2>2. PortsFit
      BY <1>13 DEF Attach, ProvTypeOK, PortsFit
    <2>3. QED
      BY <1>2, <1>4, <1>13, <2>1, <2>2 DEF Attach
  <1>14. CASE DetachBegin(p, s)
    <2> DEFINE r == [Idle EXCEPT !.pc = "detach", !.server = s, !.port = srv[s].port]
    <2>1. r \in RequestState /\ Fits(r)
      BY DEF ProvTypeOK
    <2>2. QED
      BY <1>2, <1>3, <1>4, <1>14, <2>1 DEF DetachBegin
  <1>15. QED
    BY <1>11, <1>12, <1>13, <1>14 DEF ServerStep

LEMMA AdminStepTypes == ASSUME ProvTypeOK, AdminStep PROVE ProvTypeOK'
  <1> USE ProvisioningAssumption DEF ProvTypeOK, RowState, Exists, ProvisioningAssumption
  <1>1. ASSUME NEW u \in Users, SetLimit(u) PROVE ProvTypeOK'
    BY <1>1 DEF SetLimit
  <1>2. ASSUME NEW s \in Servers, NEW m \in Sizes, AdminResize(s, m) PROVE ProvTypeOK'
    BY <1>2 DEF AdminResize
  <1>3. ASSUME NEW s \in Servers, NEW u \in Users, AdminTransfer(s, u) PROVE ProvTypeOK'
    BY <1>3 DEF AdminTransfer
  <1>4. QED
    BY <1>1, <1>2, <1>3 DEF AdminStep

LEMMA NextTypes == ProvTypeOK /\ [Next]_vars => ProvTypeOK'
  <1> SUFFICES ASSUME ProvTypeOK, [Next]_vars PROVE ProvTypeOK'
    OBVIOUS
  <1>1. CASE UNCHANGED vars
    BY <1>1 DEF vars, ProvTypeOK, Exists
  <1>2. CASE Restart
    BY <1>2, IdleFits DEF Restart, ProvTypeOK, Exists
  <1>3. QED
    BY <1>1, <1>2, CreateStepTypes, RequestStepTypes, ServerStepTypes, AdminStepTypes DEF Next

-----------------------------------------------------------------------------
(* Rows without a port.                                                    *)

Creates(p) == req[p].pc \in CreateSteps

\* No new row, no port taken from a row, and a create whose row has no port
\* goes on or is known to have been cut short.
Tidy ==
  /\ stranded \subseteq stranded'
  /\ \A s \in Servers : Exists(s)' => Exists(s) /\ (srv'[s].port = 0 => srv[s].port = 0)
  /\ \A p \in Procs, s \in Servers : Creates(p) /\ req[p].server = s =>
       \/ Creates(p)' /\ req'[p].server = s
       \/ ~Exists(s)' \/ srv'[s].port # 0 \/ s \in stranded'

LEMMA TidyKeepsPorts ==
  ASSUME NoPortlessRow, Tidy
  PROVE  NoPortlessRow'
  <1> SUFFICES ASSUME NEW s \in Servers, Exists(s)', srv'[s].port = 0
               PROVE  Creating(s)' \/ s \in stranded'
    BY DEF NoPortlessRow
  <1>1. Exists(s) /\ srv[s].port = 0
    BY DEF Tidy
  <1>2. CASE s \in stranded
    BY <1>2 DEF Tidy
  <1>3. CASE Creating(s)
    <2>1. PICK p \in Procs : Creates(p) /\ req[p].server = s
      BY <1>3 DEF Creating, Creates, CreateSteps
    <2>2. (Creates(p)' /\ req'[p].server = s) \/ s \in stranded'
      BY <2>1 DEF Tidy
    <2>3. QED
      BY <2>2 DEF Creating, Creates, CreateSteps
  <1>4. QED
    BY <1>1, <1>2, <1>3 DEF NoPortlessRow

LEMMA InsertKeepsPorts ==
  ASSUME ProvTypeOK, NoPortlessRow, NEW p \in Procs, InsertRow(p)
  PROVE  NoPortlessRow'
  <1>1. PICK s \in Servers :
          /\ srv' = [srv EXCEPT ![s] =
               [state |-> "row", owner |-> req[p].user, mem |-> req[p].mem, port |-> 0]]
          /\ req' = [req EXCEPT ![p].pc = "claim", ![p].server = s, ![p].mem = 0]
    BY DEF InsertRow
  <1>2. /\ \A q \in Procs \ {p} : req'[q] = req[q]
        /\ req'[p].pc = "claim" /\ req'[p].server = s
        /\ \A z \in Servers \ {s} : srv'[z] = srv[z]
        /\ req[p].pc = "insert" /\ stranded' = stranded
    BY <1>1 DEF InsertRow, ProvTypeOK, RequestState, history
  <1>3. QED
    BY <1>2 DEF NoPortlessRow, Creating, Exists

LEMMA PortlessStep ==
  ProvTypeOK /\ NoPortlessRow /\ [Next]_vars => NoPortlessRow'
  <1> SUFFICES ASSUME ProvTypeOK, NoPortlessRow, [Next]_vars PROVE NoPortlessRow'
    OBVIOUS
  <1> USE DEF history, Exists, Creates, CreateSteps
  <1>1. ASSUME NEW p \in Procs,
               srv' = srv, stranded' = stranded,
               ~Creates(p) \/ (Creates(p)' /\ req'[p].server = req[p].server),
               \A q \in Procs \ {p} : req'[q] = req[q]
        PROVE  NoPortlessRow'
    <2>1. Tidy
      BY <1>1 DEF Tidy
    <2>2. QED
      BY <2>1, TidyKeepsPorts
  <1>2. ASSUME NEW p \in Procs, CreateStep(p) PROVE NoPortlessRow'
    <2>1. CASE \E u \in Users, m \in Sizes : CreateLock(p, u, m)
      BY <1>1, <2>1 DEF CreateLock, Idle, ProvTypeOK
    <2>2. CASE ReadLimit(p) \/ CheckUsage(p) \/ QueryFails(p) \/ Unlock(p)
      BY <1>1, <2>2 DEF ReadLimit, CheckUsage, QueryFails, Unlock, Refuse, Finish, Release,
                        ProvTypeOK
    <2>3. CASE InsertRow(p)
      BY <2>3, InsertKeepsPorts
    <2>4. CASE ClaimFree(p) \/ ReleasePorts(p)
      <3>1. /\ srv' = srv /\ stranded' = stranded
            /\ \A q \in Procs \ {p} : req'[q] = req[q]
            /\ req'[p].pc \in {"setport", "undo"} /\ req'[p].server = req[p].server
        BY <2>4 DEF ClaimFree, ReleasePorts, Goto, ProvTypeOK, RequestState
      <3>2. QED
        BY <1>1, <3>1
    <2>5. CASE CallFails(p)
      <3>1. /\ srv' = srv /\ stranded' = stranded
            /\ \A q \in Procs \ {p} : req'[q] = req[q]
            /\ req'[p].pc \in {"release", "undo"} /\ req'[p].server = req[p].server
        BY <2>5 DEF CallFails, Goto, ProvTypeOK, RequestState
      <3>2. QED
        BY <1>1, <3>1
    <2>6. CASE SetPrimaryPort(p)
      <3>1. req[p].server \in Servers /\ req[p].port # 0
        BY <2>6, ProvisioningAssumption
        DEF SetPrimaryPort, ProvTypeOK, Fits, PortSteps, ProvisioningAssumption
      <3>2. /\ \A q \in Procs \ {p} : req'[q] = req[q]
            /\ stranded' = stranded
            /\ \A s \in Servers \ {req[p].server} : srv'[s] = srv[s]
            /\ srv'[req[p].server].port # 0
            /\ srv[req[p].server].state = "row"
        BY <2>6, <3>1 DEF SetPrimaryPort, Release, ProvTypeOK, RowState
      <3>3. Tidy
        BY <3>1, <3>2 DEF Tidy
      <3>4. QED
        BY <3>3, TidyKeepsPorts
    <2>7. CASE UndoCreate(p)
      <3>1. req[p].server \in Servers
        BY <2>7 DEF UndoCreate, ProvTypeOK, Fits, PortSteps
      <3>2. /\ \A q \in Procs \ {p} : req'[q] = req[q]
            /\ stranded \subseteq stranded'
            /\ \A s \in Servers \ {req[p].server} : srv'[s] = srv[s]
            /\ srv'[req[p].server].state # "row" \/ req[p].server \in stranded'
            /\ srv'[req[p].server] = srv[req[p].server] \/ srv'[req[p].server].state # "row"
        BY <2>7, <3>1 DEF UndoCreate, Release, DropRow, Blank, ProvTypeOK
      <3>3. \A s \in Servers : Exists(s)' => Exists(s) /\ srv'[s].port = srv[s].port
        BY <3>1, <3>2
      <3>4. ASSUME NEW q \in Procs, NEW s \in Servers, Creates(q), req[q].server = s
            PROVE  \/ Creates(q)' /\ req'[q].server = s
                   \/ ~Exists(s)' \/ s \in stranded'
        BY <3>2, <3>4
      <3>5. Tidy
        BY <3>2, <3>3, <3>4 DEF Tidy
      <3>6. QED
        BY <3>5, TidyKeepsPorts
    <2>8. QED
      BY <1>2, <2>1, <2>2, <2>3, <2>4, <2>5, <2>6, <2>7 DEF CreateStep
  <1>3. ASSUME NEW p \in Procs, RequestStep(p) PROVE NoPortlessRow'
    <2>1. /\ \A q \in Procs \ {p} : req'[q] = req[q]
          /\ stranded' = stranded
          /\ ~Creates(p)
      <3>1. CASE UpdateSettings(p) \/ DeleteRelease(p) \/ DeleteRow(p)
        BY <3>1 DEF UpdateSettings, DeleteRelease, DeleteRow, Goto, Finish, ProvTypeOK
      <3>2. CASE AttachEnds(p) \/ DetachRelease(p)
        BY <3>2 DEF AttachEnds, DetachRelease, Finish, ProvTypeOK
      <3>3. ASSUME NEW q \in Ports, DetachCheck(p, q)
            PROVE  /\ \A z \in Procs \ {p} : req'[z] = req[z]
                   /\ stranded' = stranded
                   /\ ~Creates(p)
        BY <3>3 DEF DetachCheck, Finish, ProvTypeOK
      <3>4. QED
        BY <1>3, <3>1, <3>2, <3>3 DEF RequestStep
    <2>2. CASE srv' = srv
      BY <1>1, <2>1, <2>2
    <2>3. CASE UpdateSettings(p) \/ DeleteRow(p)
      <3>1. req[p].server \in Servers
        BY <2>3 DEF UpdateSettings, DeleteRow, ProvTypeOK, Fits, PortSteps
      <3>2. \A s \in Servers : Exists(s)' => Exists(s) /\ srv'[s].port = srv[s].port
        BY <2>3, <3>1 DEF UpdateSettings, DeleteRow, DropRow, Blank, ProvTypeOK, RowState
      <3>3. Tidy
        BY <2>1, <3>2 DEF Tidy
      <3>4. QED
        BY <3>3, TidyKeepsPorts
    <2>4. QED
      BY <1>3, <2>2, <2>3 DEF RequestStep, DeleteRelease, AttachEnds, DetachRelease, DetachCheck
  <1>4. ASSUME NEW p \in Procs, NEW s \in Servers, ServerStep(p, s) PROVE NoPortlessRow'
    <2>1. CASE \E m \in Sizes : ResizeBegin(p, s, m)
      BY <1>1, <2>1 DEF ResizeBegin, Idle, ProvTypeOK
    <2>2. CASE DeleteBegin(p, s) \/ DetachBegin(p, s)
      BY <1>1, <2>2 DEF DeleteBegin, DetachBegin, Idle, ProvTypeOK
    <2>3. CASE \E q \in Ports : Attach(p, s, q)
      BY <1>1, <2>3 DEF Attach, Idle, ProvTypeOK
    <2>4. QED
      BY <1>4, <2>1, <2>2, <2>3 DEF ServerStep
  <1>5. ASSUME AdminStep PROVE NoPortlessRow'
    <2>1. /\ req' = req /\ stranded' = stranded
          /\ \A s \in Servers : srv'[s].state = srv[s].state /\ srv'[s].port = srv[s].port
      BY <1>5 DEF AdminStep, SetLimit, AdminResize, AdminTransfer, ProvTypeOK, RowState
    <2>2. Tidy
      BY <2>1 DEF Tidy
    <2>3. QED
      BY <2>2, TidyKeepsPorts
  <1>6. ASSUME Restart PROVE NoPortlessRow'
    BY <1>6 DEF Restart, NoPortlessRow, Creating
  <1>7. ASSUME UNCHANGED vars PROVE NoPortlessRow'
    BY <1>7 DEF vars, NoPortlessRow, Creating
  <1>8. QED
    BY <1>2, <1>3, <1>4, <1>5, <1>6, <1>7 DEF Next

-----------------------------------------------------------------------------
(* Primary ports.                                                          *)

\* The servers the property speaks of.
Guarded(s) == Exists(s) /\ s \notin doomed \cup raced

CreatorFirst ==
  \A p \in Procs, s \in Servers :
    Creates(p) /\ req[p].server = s /\ Exists(s) => srv[s].port = 0

OneCreator ==
  \A p, q \in Procs :
    Creates(p) /\ Creates(q) /\ req[p].server = req[q].server => p = q

Born ==
  \A p \in Procs, s \in Servers :
    req[p].pc \in PortSteps /\ req[p].server = s => srv[s].state # "unborn"

DeletionKnown ==
  \A p \in Procs : req[p].pc \in {"delrelease", "delrow"} => req[p].server \in doomed

\* The port a create claimed stays the server's until it is recorded.
ClaimHeld ==
  \A p \in Procs, s \in Servers :
    req[p].pc = "setport" /\ req[p].server = s /\ Guarded(s) => port[req[p].port] = s

Spares(p, s) ==
  /\ srv[s].port # 0
  /\ req[p].pc = "detach" => req[p].port = srv[s].port
  /\ req[p].pc = "detached" => req[p].port # srv[s].port

\* A detach knows the primary port, and then a port that is not it.
DetachSpares ==
  \A p \in Procs, s \in Servers :
    req[p].pc \in {"detach", "detached"} /\ req[p].server = s /\ Guarded(s) => Spares(p, s)

Claiming(s) == \E c \in Procs : req[c].pc = "claim" /\ req[c].server = s
Attaches(p, s) == req[p].pc = "attached" /\ req[p].server = s

\* The port an attach may give back is not the primary one, nor one a create
\* claimed, nor will it be: until then it is held, by this attach alone.
Apart(p, s) ==
  /\ req[p].port # srv[s].port
  /\ \A c \in Procs : req[c].pc = "setport" /\ req[c].server = s => req[c].port # req[p].port
  /\ Claiming(s) =>
       /\ port[req[p].port] = s
       /\ \A o \in Procs \ {p} : Attaches(o, s) => req[o].port # req[p].port

AttachApart ==
  \A p \in Procs, s \in Servers : Attaches(p, s) /\ Guarded(s) => Apart(p, s)

PortsInv ==
  /\ PrimaryPortHeld
  /\ CreatorFirst /\ OneCreator /\ Born /\ DeletionKnown
  /\ ClaimHeld /\ DetachSpares /\ AttachApart

\* Rows only go, or keep their port.
CalmRows ==
  /\ \A s \in Servers :
       /\ Exists(s)' => Exists(s) /\ srv'[s].port = srv[s].port
       /\ srv[s].state # "unborn" => srv'[s].state # "unborn"
  /\ doomed \subseteq doomed' /\ raced \subseteq raced'

\* Only a server without a primary port, and none on its way, loses a port.
CalmPorts ==
  \A q \in Ports, s \in Servers :
    port[q] = s =>
      \/ port'[q] = s
      \/ ~Guarded(s)'
      \/ /\ srv[s].port = 0
         /\ \A c \in Procs : req[c].server = s => req[c].pc \notin {"claim", "setport"}

\* A request ends, goes on to clean up, or begins to delete or detach.
GoesOn(p) ==
  /\ req'[p].server = req[p].server /\ req'[p].port = req[p].port
  /\ \/ req'[p].pc = req[p].pc
     \/ Creates(p) /\ req'[p].pc \in {"release", "undo"}
     \/ req[p].pc = "delrelease" /\ req'[p].pc = "delrow"

BeginsDelete(p) ==
  /\ req'[p].pc = "delrelease" /\ req'[p].server \in doomed'
  /\ \A s \in Servers : req'[p].server = s => srv'[s].state # "unborn"

BeginsDetach(p) ==
  /\ req'[p].pc \in {"detach", "detached"}
  /\ \A s \in Servers : req'[p].server = s =>
       /\ srv'[s].state # "unborn"
       /\ Guarded(s)' => Spares(p, s)'

CalmRequests ==
  \A p \in Procs :
    req'[p].pc \notin PortSteps \/ GoesOn(p) \/ BeginsDelete(p) \/ BeginsDetach(p)

LEMMA CalmKeepsPorts ==
  ASSUME ProvTypeOK, PortsInv, CalmRows, CalmPorts, CalmRequests
  PROVE  PortsInv'
  <1> USE DEF PortsInv, Creates, CreateSteps, PortSteps
  <1>1. ASSUME NEW s \in Servers, Guarded(s)'
        PROVE  Guarded(s) /\ srv'[s].port = srv[s].port
    BY <1>1 DEF CalmRows, Guarded
  <1>2. ASSUME NEW p \in Procs, Creates(p)'
        PROVE  Creates(p) /\ req'[p].server = req[p].server
    BY <1>2 DEF CalmRequests, GoesOn, BeginsDelete, BeginsDetach
  <1>3. ASSUME NEW p \in Procs, req'[p].pc \in {"claim", "setport", "attached"}
        PROVE  /\ req'[p].pc = req[p].pc /\ req'[p].server = req[p].server
               /\ req'[p].port = req[p].port
    BY <1>3 DEF CalmRequests, GoesOn, BeginsDelete, BeginsDetach
  <1>4. PrimaryPortHeld'
    <2> SUFFICES ASSUME NEW s \in Servers, Guarded(s)', srv'[s].port # 0
                 PROVE  port'[srv'[s].port] = s
      BY DEF PrimaryPortHeld, Guarded
    <2>1. port[srv[s].port] = s /\ srv[s].port # 0
      BY <1>1 DEF PrimaryPortHeld, Guarded
    <2>2. srv[s].port \in Ports
      BY <2>1 DEF ProvTypeOK, RowState
    <2>3. QED
      BY <1>1, <2>1, <2>2 DEF CalmPorts
  <1>5. CreatorFirst'
    BY <1>2 DEF CreatorFirst, CalmRows
  <1>6. OneCreator'
    BY <1>2 DEF OneCreator
  <1>7. Born'
    BY DEF Born, CalmRows, CalmRequests, GoesOn, BeginsDelete, BeginsDetach
  <1>8. DeletionKnown'
    BY DEF DeletionKnown, CalmRows, CalmRequests, GoesOn, BeginsDelete, BeginsDetach
  <1>9. ClaimHeld'
    <2> SUFFICES ASSUME NEW p \in Procs, NEW s \in Servers, Guarded(s)',
                        req'[p].pc = "setport", req'[p].server = s
                 PROVE  port'[req'[p].port] = s
      BY DEF ClaimHeld
    <2>1. /\ req[p].pc = "setport" /\ req[p].server = s /\ req'[p].port = req[p].port
          /\ Guarded(s)
      BY <1>1, <1>3
    <2>2. port[req[p].port] = s
      BY <2>1 DEF ClaimHeld
    <2>3. req[p].port \in Ports
      BY <2>1 DEF ProvTypeOK, Fits
    <2>4. QED
      BY <2>1, <2>2, <2>3 DEF CalmPorts
  <1>10. DetachSpares'
    <2> SUFFICES ASSUME NEW p \in Procs, NEW s \in Servers, Guarded(s)',
                        req'[p].pc \in {"detach", "detached"}, req'[p].server = s
                 PROVE  Spares(p, s)'
      BY DEF DetachSpares
    <2>1. CASE GoesOn(p)
      BY <1>1, <2>1 DEF GoesOn, DetachSpares, Spares
    <2>2. CASE BeginsDetach(p)
      BY <2>2 DEF BeginsDetach
    <2>3. QED
      BY <2>1, <2>2 DEF CalmRequests, BeginsDelete
  <1>11. AttachApart'
    <2> SUFFICES ASSUME NEW p \in Procs, NEW s \in Servers, Guarded(s)', Attaches(p, s)'
                 PROVE  Apart(p, s)'
      BY DEF AttachApart
    <2>1. Attaches(p, s) /\ Guarded(s) /\ req'[p].port = req[p].port
      BY <1>1, <1>3 DEF Attaches
    <2>2. Apart(p, s)
      BY <2>1 DEF AttachApart
    <2>3. req'[p].port # srv'[s].port
      BY <1>1, <2>1, <2>2 DEF Apart
    <2>4. ASSUME NEW c \in Procs, req'[c].pc = "setport", req'[c].server = s
          PROVE  req'[c].port # req'[p].port
      BY <1>3, <2>1, <2>2, <2>4 DEF Apart
    <2>5. ASSUME Claiming(s)'
          PROVE  /\ port'[req'[p].port] = s
                 /\ \A o \in Procs \ {p} : Attaches(o, s)' => req'[o].port # req'[p].port
      <3>1. PICK c \in Procs : req[c].pc = "claim" /\ req[c].server = s
        BY <1>3, <2>5 DEF Claiming
      <3>2. Claiming(s) /\ req[p].port \in Ports
        BY <2>1, <3>1 DEF Claiming, Attaches, ProvTypeOK, Fits
      <3>3. port[req[p].port] = s
        BY <2>2, <3>2 DEF Apart
      <3>4. port'[req'[p].port] = s
        BY <2>1, <3>1, <3>2, <3>3 DEF CalmPorts
      <3>5. ASSUME NEW o \in Procs \ {p}, Attaches(o, s)' PROVE req'[o].port # req'[p].port
        BY <1>3, <2>1, <2>2, <3>2, <3>5 DEF Apart, Attaches
      <3>6. QED
        BY <3>4, <3>5
    <2>6. QED
      BY <2>3, <2>4, <2>5 DEF Apart
  <1>12. QED
    BY <1>4, <1>5, <1>6, <1>7, <1>8, <1>9, <1>10, <1>11

\* The steps that are not calm: a create's own, and those that take or give
\* back a single port.
LEMMA InsertKeepsHeld ==
  ASSUME ProvTypeOK, ProvTypeOK', PortsInv, NEW p \in Procs, InsertRow(p)
  PROVE  PortsInv'
  <1> USE DEF PortsInv, Creates, CreateSteps, PortSteps
  <1>1. PICK s \in Servers :
          /\ srv[s].state = "unborn"
          /\ srv' = [srv EXCEPT ![s] =
               [state |-> "row", owner |-> req[p].user, mem |-> req[p].mem, port |-> 0]]
          /\ req' = [req EXCEPT ![p].pc = "claim", ![p].server = s, ![p].mem = 0]
    BY DEF InsertRow
  <1>2. /\ \A q \in Procs \ {p} : req'[q] = req[q]
        /\ req'[p].pc = "claim" /\ req'[p].server = s /\ req[p].pc = "insert"
        /\ \A z \in Servers \ {s} : srv'[z] = srv[z]
        /\ srv'[s].state = "row" /\ srv'[s].port = 0
        /\ port' = port /\ doomed' = doomed /\ raced' = raced
    BY <1>1 DEF InsertRow, ProvTypeOK, RequestState, history
  <1>3. \A q \in Procs \ {p} : req[q].pc \in PortSteps => req[q].server # s
    BY <1>1 DEF Born
  <1>4. \A z \in Servers \ {s} : Guarded(z)' => Guarded(z) /\ srv'[z] = srv[z]
    BY <1>2 DEF Guarded, Exists
  <1>5. PrimaryPortHeld'
    BY <1>2, <1>4 DEF PrimaryPortHeld, Guarded
  <1>6. CreatorFirst'
    BY <1>2, <1>3 DEF CreatorFirst, Exists
  <1>7. OneCreator'
    BY <1>2, <1>3 DEF OneCreator
  <1>8. Born'
    BY <1>2, <1>3 DEF Born
  <1>9. DeletionKnown'
    BY <1>2 DEF DeletionKnown
  <1>10. ClaimHeld'
    BY <1>2, <1>3, <1>4 DEF ClaimHeld
  <1>11. DetachSpares'
    BY <1>2, <1>3, <1>4 DEF DetachSpares, Spares
  <1>12. AttachApart'
    <2> SUFFICES ASSUME NEW q \in Procs, NEW z \in Servers, Guarded(z)', Attaches(q, z)'
                 PROVE  Apart(q, z)'
      BY DEF AttachApart
    <2>1. q # p /\ z # s /\ Attaches(q, z)
      BY <1>2, <1>3 DEF Attaches
    <2>2. Apart(q, z)
      BY <1>4, <2>1 DEF AttachApart
    <2>3. Claiming(z)' => Claiming(z)
      BY <1>2, <2>1 DEF Claiming
    <2>4. QED
      BY <1>2, <2>1, <2>2, <2>3 DEF Apart, Attaches
  <1>13. QED
    BY <1>5, <1>6, <1>7, <1>8, <1>9, <1>10, <1>11, <1>12

\* A request that stays with its server and does no more than it did.
LEMMA SameRowsKept ==
  ASSUME CreatorFirst, OneCreator, Born, DeletionKnown, UNCHANGED <<srv, doomed>>,
         \A r \in Procs :
           /\ req'[r].server = req[r].server
           /\ Creates(r)' => Creates(r)
           /\ req'[r].pc \in PortSteps => req[r].pc \in PortSteps
           /\ req'[r].pc \in {"delrelease", "delrow"} => req'[r].pc = req[r].pc
  PROVE  CreatorFirst' /\ OneCreator' /\ Born' /\ DeletionKnown'
  <1>1. CreatorFirst'
    BY DEF CreatorFirst, Exists
  <1>2. OneCreator'
    BY DEF OneCreator
  <1>3. Born'
    BY DEF Born
  <1>4. DeletionKnown'
    BY DEF DeletionKnown
  <1>5. QED
    BY <1>1, <1>2, <1>3, <1>4

LEMMA ClaimKeepsHeld ==
  ASSUME ProvTypeOK, PortsInv, NEW p \in Procs, ClaimFree(p), NEW q \in Ports,
         port[q] = None, port' = [port EXCEPT ![q] = req[p].server],
         req' = [req EXCEPT ![p].pc = "setport", ![p].port = q]
  PROVE  PortsInv'
  <1> USE DEF PortsInv, Creates, CreateSteps, PortSteps
  <1>1. /\ \A r \in Procs \ {p} : req'[r] = req[r]
        /\ req[p].pc = "claim" /\ req'[p].pc = "setport"
        /\ req'[p].server = req[p].server /\ req'[p].port = q
        /\ port'[q] = req[p].server /\ \A x \in Ports \ {q} : port'[x] = port[x]
        /\ srv' = srv /\ doomed' = doomed /\ raced' = raced
    BY DEF ClaimFree, ProvTypeOK, RequestState, history
  <1>2. \A z \in Servers : port[q] # z
    BY ProvisioningAssumption DEF ProvisioningAssumption
  <1>3. \A z \in Servers : Guarded(z)' <=> Guarded(z)
    BY <1>1 DEF Guarded, Exists
  <1>4. PrimaryPortHeld'
    BY <1>1, <1>2 DEF PrimaryPortHeld, Exists, ProvTypeOK, RowState
  <1>5. CreatorFirst' /\ OneCreator' /\ Born' /\ DeletionKnown'
    <2>1. \A r \in Procs :
            /\ req'[r].server = req[r].server
            /\ Creates(r)' => Creates(r)
            /\ req'[r].pc \in PortSteps => req[r].pc \in PortSteps
            /\ req'[r].pc \in {"delrelease", "delrow"} => req'[r].pc = req[r].pc
      BY <1>1
    <2>2. QED
      BY <1>1, <2>1, SameRowsKept
  <1>6. ClaimHeld'
    BY <1>1, <1>2, <1>3 DEF ClaimHeld, ProvTypeOK, Fits
  <1>7. DetachSpares'
    <2> SUFFICES ASSUME NEW a \in Procs, NEW z \in Servers, Guarded(z),
                        req'[a].pc \in {"detach", "detached"}, req'[a].server = z
                 PROVE  Spares(a, z)'
      BY <1>3 DEF DetachSpares
    <2>1. a # p /\ req'[a] = req[a]
      BY <1>1
    <2>2. Spares(a, z)
      BY <2>1 DEF DetachSpares
    <2>3. QED
      BY <1>1, <2>1, <2>2 DEF Spares
  <1>8. AttachApart'
    <2> SUFFICES ASSUME NEW a \in Procs, NEW z \in Servers, Guarded(z), Attaches(a, z)'
                 PROVE  Apart(a, z)'
      BY <1>3 DEF AttachApart
    <2>1. a # p /\ Attaches(a, z) /\ req'[a] = req[a] /\ req[a].port \in Ports
      BY <1>1 DEF Attaches, ProvTypeOK, Fits
    <2>2. Apart(a, z)
      BY <2>1 DEF AttachApart
    <2>3. Claiming(z)' => Claiming(z)
      BY <1>1 DEF Claiming
    <2>4. ASSUME NEW c \in Procs, req'[c].pc = "setport", req'[c].server = z
          PROVE  req'[c].port # req'[a].port
      <3>1. CASE c = p
        <4>1. Claiming(z)
          BY <1>1, <2>4, <3>1 DEF Claiming
        <4>2. port[req[a].port] = z
          BY <2>2, <4>1 DEF Apart
        <4>3. QED
          BY <1>1, <1>2, <2>1, <3>1, <4>2
      <3>2. CASE c # p
        BY <1>1, <2>1, <2>2, <2>4, <3>2 DEF Apart
      <3>3. QED
        BY <3>1, <3>2
    <2>5. ASSUME Claiming(z)
          PROVE  /\ port'[req'[a].port] = z
                 /\ \A o \in Procs \ {a} : Attaches(o, z)' => req'[o].port # req'[a].port
      <3>1. port[req[a].port] = z
        BY <2>2, <2>5 DEF Apart
      <3>2. port'[req'[a].port] = z
        BY <1>1, <1>2, <2>1, <3>1
      <3>3. QED
        BY <1>1, <2>1, <2>2, <2>5, <3>2 DEF Apart, Attaches
    <2>6. QED
      BY <1>1, <2>1, <2>2, <2>3, <2>4, <2>5 DEF Apart
  <1>9. QED
    BY <1>4, <1>5, <1>6, <1>7, <1>8

LEMMA SetPrimaryKeepsHeld ==
  ASSUME ProvTypeOK, PortsInv, NEW p \in Procs, SetPrimaryPort(p)
  PROVE  PortsInv'
  <1> USE DEF PortsInv, Creates, CreateSteps, PortSteps
  <1> DEFINE s == req[p].server
             q == req[p].port
  <1>1. s \in Servers /\ q \in Ports
    BY DEF SetPrimaryPort, ProvTypeOK, Fits
  <1>2. /\ \A r \in Procs \ {p} : req'[r] = req[r]
        /\ req[p].pc = "setport" /\ req'[p].pc = "unlock"
        /\ \A z \in Servers \ {s} : srv'[z] = srv[z]
        /\ srv'[s].port = q /\ srv'[s].state = srv[s].state /\ srv[s].state = "row"
        /\ port' = port /\ doomed' = doomed /\ raced' = raced
    BY <1>1 DEF SetPrimaryPort, Release, ProvTypeOK, RowState, Exists, history
  <1> HIDE DEF s, q
  <1>3. \A z \in Servers : Guarded(z)' <=> Guarded(z)
    BY <1>1, <1>2 DEF Guarded, Exists
  <1>4. srv[s].port = 0
    BY <1>1, <1>2 DEF CreatorFirst, Exists, s
  <1>5. Guarded(s) => port[q] = s
    BY <1>1, <1>2 DEF ClaimHeld, s, q
  <1>6. \A c \in Procs \ {p} : req[c].server = s => ~Creates(c)
    BY <1>2 DEF OneCreator, s
  <1>7. PrimaryPortHeld'
    <2> SUFFICES ASSUME NEW z \in Servers, Guarded(z), srv'[z].port # 0
                 PROVE  port[srv'[z].port] = z
      BY <1>2, <1>3 DEF PrimaryPortHeld, Guarded
    <2>1. CASE z = s
      BY <1>2, <1>5, <2>1
    <2>2. CASE z # s
      BY <1>2, <2>2 DEF PrimaryPortHeld, Guarded
    <2>3. QED
      BY <2>1, <2>2
  <1>8. CreatorFirst'
    BY <1>2, <1>6 DEF CreatorFirst, Exists
  <1>9. OneCreator' /\ DeletionKnown'
    BY <1>2 DEF OneCreator, DeletionKnown
  <1>10. Born'
    BY <1>2 DEF Born
  <1>11. ClaimHeld'
    BY <1>2, <1>3 DEF ClaimHeld
  <1>12. DetachSpares'
    BY <1>2, <1>3, <1>4 DEF DetachSpares, Spares
  <1>13. AttachApart'
    <2> SUFFICES ASSUME NEW a \in Procs, NEW z \in Servers, Guarded(z), Attaches(a, z)'
                 PROVE  Apart(a, z)'
      BY <1>3 DEF AttachApart
    <2>1. a # p /\ Attaches(a, z) /\ req'[a] = req[a]
      BY <1>2 DEF Attaches
    <2>2. Apart(a, z)
      BY <2>1 DEF AttachApart
    <2>3. Claiming(z)' => Claiming(z)
      BY <1>2 DEF Claiming
    <2>4. req[a].port # srv'[z].port
      <3>1. CASE z = s
        BY <1>2, <2>2, <3>1 DEF Apart, s, q
      <3>2. CASE z # s
        BY <1>2, <2>2, <3>2 DEF Apart
      <3>3. QED
        BY <3>1, <3>2
    <2>5. QED
      BY <1>2, <2>1, <2>2, <2>3, <2>4 DEF Apart, Attaches
  <1>14. QED
    BY <1>7, <1>8, <1>9, <1>10, <1>11, <1>12, <1>13

LEMMA AttachKeepsHeld ==
  ASSUME ProvTypeOK, PortsInv, NEW p \in Procs, NEW s \in Servers, NEW q \in Ports,
         Attach(p, s, q)
  PROVE  PortsInv'
  <1> USE DEF PortsInv, Creates, CreateSteps, PortSteps
  <1>1. /\ \A r \in Procs \ {p} : req'[r] = req[r]
        /\ req[p].pc = "idle" /\ req'[p].pc = "attached"
        /\ req'[p].server = s /\ req'[p].port = q
        /\ port[q] = None /\ port'[q] = s /\ \A x \in Ports \ {q} : port'[x] = port[x]
        /\ srv' = srv /\ doomed' = doomed /\ raced' = raced /\ srv[s].state = "row"
    BY DEF Attach, ProvTypeOK, Idle, Free, Exists, history
  <1>2. \A z \in Servers : port[q] # z
    BY <1>1, ProvisioningAssumption DEF ProvisioningAssumption
  <1>3. \A z \in Servers : Guarded(z)' <=> Guarded(z)
    BY <1>1 DEF Guarded, Exists
  <1>4. PrimaryPortHeld'
    BY <1>1, <1>2 DEF PrimaryPortHeld, Exists, ProvTypeOK, RowState
  <1>5. CreatorFirst' /\ OneCreator' /\ Born' /\ DeletionKnown'
    <2>1. CreatorFirst'
      BY <1>1 DEF CreatorFirst, Exists
    <2>2. OneCreator'
      BY <1>1 DEF OneCreator
    <2>3. Born'
      BY <1>1 DEF Born
    <2>4. DeletionKnown'
      BY <1>1 DEF DeletionKnown
    <2>5. QED
      BY <2>1, <2>2, <2>3, <2>4
  <1>6. ClaimHeld'
    BY <1>1, <1>2, <1>3 DEF ClaimHeld, ProvTypeOK, Fits
  <1>7. DetachSpares'
    <2> SUFFICES ASSUME NEW a \in Procs, NEW z \in Servers, Guarded(z),
                        req'[a].pc \in {"detach", "detached"}, req'[a].server = z
                 PROVE  Spares(a, z)'
      BY <1>3 DEF DetachSpares
    <2>1. a # p /\ req'[a] = req[a]
      BY <1>1
    <2>2. Spares(a, z)
      BY <2>1 DEF DetachSpares
    <2>3. QED
      BY <1>1, <2>1, <2>2 DEF Spares
  <1>8. AttachApart'
    <2> SUFFICES ASSUME NEW a \in Procs, NEW z \in Servers, Guarded(z), Attaches(a, z)'
                 PROVE  Apart(a, z)'
      BY <1>3 DEF AttachApart
    <2>1. Claiming(z)' => Claiming(z)
      BY <1>1 DEF Claiming
    <2>2. ASSUME NEW o \in Procs \ {p}, Attaches(o, z)'
          PROVE  /\ Attaches(o, z) /\ req'[o] = req[o] /\ req[o].port \in Ports
                 /\ Apart(o, z)
      BY <1>1, <2>2 DEF Attaches, ProvTypeOK, Fits, AttachApart
    <2>3. ASSUME NEW o \in Procs \ {p}, Attaches(o, z)', Claiming(z) PROVE req[o].port # q
      BY <1>2, <2>2, <2>3 DEF Apart
    <2>4. CASE a = p
      <3>1. z = s
        BY <1>1, <2>4 DEF Attaches
      <3>2. q # srv[s].port
        BY <1>1, <1>2, <3>1, ProvisioningAssumption
        DEF PrimaryPortHeld, Guarded, ProvisioningAssumption
      <3>3. ASSUME NEW c \in Procs, req'[c].pc = "setport", req'[c].server = z
            PROVE  req'[c].port # q
        BY <1>1, <1>2, <3>3 DEF ClaimHeld
      <3>4. QED
        BY <1>1, <2>1, <2>3, <2>4, <3>1, <3>2, <3>3 DEF Apart
    <2>5. CASE a # p
      <3>1. ASSUME Claiming(z)
            PROVE  /\ port'[req'[a].port] = z
                   /\ \A o \in Procs \ {a} : Attaches(o, z)' => req'[o].port # req'[a].port
        <4>1. port'[req'[a].port] = z
          BY <1>1, <1>2, <2>2, <2>5, <3>1 DEF Apart
        <4>2. ASSUME NEW o \in Procs \ {a}, Attaches(o, z)' PROVE req'[o].port # req'[a].port
          BY <1>1, <2>2, <2>3, <2>5, <3>1, <4>2 DEF Apart
        <4>3. QED
          BY <4>1, <4>2
      <3>2. QED
        BY <1>1, <2>1, <2>2, <2>5, <3>1 DEF Apart
    <2>6. QED
      BY <2>4, <2>5
  <1>9. QED
    BY <1>4, <1>5, <1>6, <1>7, <1>8

LEMMA ReleaseOneKeepsHeld ==
  ASSUME ProvTypeOK, PortsInv, NEW p \in Procs, req[p].pc \in {"attached", "detached"},
         ReleaseOne(p), Finish(p), UNCHANGED <<srv, doomed, raced>>
  PROVE  PortsInv'
  <1> USE DEF PortsInv, Creates, CreateSteps, PortSteps
  <1> DEFINE s == req[p].server
             q == req[p].port
  <1>1. s \in Servers /\ q \in Ports
    BY DEF ProvTypeOK, Fits
  <1>2. /\ \A r \in Procs \ {p} : req'[r] = req[r]
        /\ req'[p].pc = "idle"
        /\ \A x \in Ports : port'[x] = port[x] \/ (x = q /\ port[x] = s)
    BY DEF ReleaseOne, Finish, ProvTypeOK, Idle
  <1>3. req[p].pc \in {"attached", "detached"} /\ s = req[p].server /\ q = req[p].port
    OBVIOUS
  <1> HIDE DEF s, q
  <1>4. \A z \in Servers : Guarded(z)' <=> Guarded(z)
    BY DEF Guarded, Exists
  \* A guarded server loses no port that anybody counts on.
  <1>5. ASSUME Guarded(s) PROVE q # srv[s].port
    BY <1>1, <1>3, <1>5 DEF DetachSpares, Spares, AttachApart, Apart, Attaches
  <1>6. ASSUME Guarded(s), NEW c \in Procs, req[c].server = s, req[c].pc \in {"claim", "setport"}
        PROVE  req[p].pc = "attached"
    <2>1. srv[s].port = 0
      BY <1>1, <1>6 DEF CreatorFirst, Guarded
    <2>2. QED
      BY <1>1, <1>3, <1>6, <2>1 DEF DetachSpares, Spares
  <1>7. PrimaryPortHeld'
    BY <1>2, <1>4, <1>5 DEF PrimaryPortHeld, Guarded, Exists, ProvTypeOK, RowState
  <1>8. CreatorFirst' /\ OneCreator' /\ Born' /\ DeletionKnown'
    BY <1>2 DEF CreatorFirst, OneCreator, Born, DeletionKnown, Exists
  <1>9. ClaimHeld'
    <2> SUFFICES ASSUME NEW c \in Procs, NEW z \in Servers, Guarded(z),
                        req'[c].pc = "setport", req'[c].server = z
                 PROVE  port'[req'[c].port] = z
      BY <1>4 DEF ClaimHeld
    <2>1. c # p /\ req'[c] = req[c] /\ port[req[c].port] = z /\ req[c].port \in Ports
      BY <1>2 DEF ClaimHeld, ProvTypeOK, Fits
    <2>2. CASE z = s
      <3>1. req[c].port # q
        BY <1>3, <1>6, <2>1, <2>2 DEF AttachApart, Apart, Attaches
      <3>2. QED
        BY <1>2, <2>1, <3>1
    <2>3. CASE z # s
      BY <1>2, <2>1, <2>3
    <2>4. QED
      BY <2>2, <2>3
  <1>10. DetachSpares'
    BY <1>2, <1>4 DEF DetachSpares, Spares
  <1>11. AttachApart'
    <2> SUFFICES ASSUME NEW a \in Procs, NEW z \in Servers, Guarded(z), Attaches(a, z)'
                 PROVE  Apart(a, z)'
      BY <1>4 DEF AttachApart
    <2>1. /\ a # p /\ Attaches(a, z) /\ req'[a] = req[a] /\ req[a].port \in Ports
          /\ Apart(a, z)
      BY <1>2 DEF Attaches, ProvTypeOK, Fits, AttachApart
    <2>2. Claiming(z)' => Claiming(z)
      BY <1>2 DEF Claiming
    <2>3. ASSUME Claiming(z) PROVE port'[req'[a].port] = z
      <3>1. port[req[a].port] = z
        BY <2>1, <2>3 DEF Apart
      <3>2. CASE z = s
        <4>1. Attaches(p, s)
          BY <1>3, <1>6, <2>3, <3>2 DEF Claiming, Attaches
        <4>2. req[a].port # q
          BY <1>3, <2>1, <2>3, <3>2, <4>1 DEF Apart
        <4>3. QED
          BY <1>2, <2>1, <3>1, <4>2
      <3>3. CASE z # s
        BY <1>2, <2>1, <3>1, <3>3
      <3>4. QED
        BY <3>2, <3>3
    <2>4. QED
      BY <1>2, <2>1, <2>2, <2>3 DEF Apart, Attaches
  <1>12. QED
    BY <1>7, <1>8, <1>9, <1>10, <1>11

\* The other steps of a create, and every other request.
LEMMA CreateKeepsHeld ==
  ASSUME ProvTypeOK, ProvTypeOK', PortsInv, NEW p \in Procs, CreateStep(p)
  PROVE  PortsInv'
  <1> USE DEF Creates, CreateSteps, PortSteps, history
  <1>1. ASSUME doomed' = doomed, raced \subseteq raced', srv' = srv, port' = port,
               \A q \in Procs \ {p} : req'[q] = req[q],
               req'[p].pc \notin PortSteps \/ GoesOn(p)
        PROVE  PortsInv'
    <2>1. CalmRows /\ CalmPorts
      BY <1>1 DEF CalmRows, CalmPorts, Exists
    <2>2. CalmRequests
      BY <1>1 DEF CalmRequests, GoesOn
    <2>3. QED
      BY <2>1, <2>2, CalmKeepsPorts
  <1>2. CASE \E u \in Users, m \in Sizes : CreateLock(p, u, m)
    BY <1>1, <1>2 DEF CreateLock, Idle, ProvTypeOK
  <1>3. CASE ReadLimit(p) \/ CheckUsage(p) \/ QueryFails(p) \/ Unlock(p)
    <2>1. /\ \A q \in Procs \ {p} : req'[q] = req[q]
          /\ req'[p].pc \notin PortSteps
      <3>1. CASE ReadLimit(p)
        BY <3>1 DEF ReadLimit, ProvTypeOK, RequestState
      <3>2. ASSUME Refuse(p)
            PROVE  (\A q \in Procs \ {p} : req'[q] = req[q]) /\ req'[p].pc \notin PortSteps
        <4>1. CASE Finish(p)
          BY <4>1 DEF Finish, Idle, ProvTypeOK
        <4>2. CASE Release(p)
          BY <4>2 DEF Release, Idle, ProvTypeOK
        <4>3. QED
          BY <3>2, <4>1, <4>2 DEF Refuse
      <3>3. CASE CheckUsage(p)
        BY <3>2, <3>3 DEF CheckUsage, ProvTypeOK, RequestState
      <3>4. CASE QueryFails(p)
        BY <3>2, <3>4 DEF QueryFails
      <3>5. CASE Unlock(p)
        BY <3>5 DEF Unlock, Finish, Idle, ProvTypeOK
      <3>6. QED
        BY <1>3, <3>1, <3>3, <3>4, <3>5
    <2>2. QED
      BY <1>1, <1>3, <2>1 DEF ReadLimit, CheckUsage, QueryFails, Unlock
  <1>4. CASE InsertRow(p)
    BY <1>4, InsertKeepsHeld
  <1>5. CASE ClaimFree(p)
    <2>1. CASE Goto(p, "undo") /\ port' = port
      <3>1. (\A q \in Procs \ {p} : req'[q] = req[q]) /\ GoesOn(p)
        BY <1>5, <2>1 DEF ClaimFree, Goto, GoesOn, ProvTypeOK, RequestState
      <3>2. QED
        BY <1>1, <1>5, <2>1, <3>1 DEF ClaimFree
    <2>2. CASE \E q \in Free : /\ port' = [port EXCEPT ![q] = req[p].server]
                               /\ req' = [req EXCEPT ![p].pc = "setport", ![p].port = q]
      BY <1>5, <2>2, ClaimKeepsHeld DEF Free
    <2>3. QED
      BY <1>5, <2>1, <2>2 DEF ClaimFree
  <1>6. CASE SetPrimaryPort(p)
    BY <1>6, SetPrimaryKeepsHeld
  <1>7. CASE CallFails(p)
    <2>1. (\A q \in Procs \ {p} : req'[q] = req[q]) /\ GoesOn(p)
      BY <1>7 DEF CallFails, Goto, GoesOn, ProvTypeOK, RequestState
    <2>2. QED
      BY <1>1, <1>7, <2>1 DEF CallFails
  <1>8. CASE ReleasePorts(p)
    <2>1. (\A q \in Procs \ {p} : req'[q] = req[q]) /\ GoesOn(p)
      BY <1>8 DEF ReleasePorts, Goto, GoesOn, ProvTypeOK, RequestState
    <2>2. /\ srv' = srv /\ doomed' = doomed /\ raced' = raced
          /\ req[p].pc = "release" /\ req[p].server \in Servers
          /\ \A q \in Ports : port'[q] = port[q] \/ port[q] = req[p].server
      BY <1>8 DEF ReleasePorts, ProvTypeOK, Fits
    <2>3. CalmPorts
      <3> SUFFICES ASSUME NEW q \in Ports, NEW s \in Servers, port[q] = s, port'[q] # s,
                          Guarded(s)'
                   PROVE  /\ srv[s].port = 0
                          /\ \A c \in Procs : req[c].server = s =>
                               req[c].pc \notin {"claim", "setport"}
        BY DEF CalmPorts
      <3>1. s = req[p].server /\ Exists(s)
        BY <2>2 DEF Guarded, Exists
      <3>2. QED
        BY <2>2, <3>1 DEF PortsInv, CreatorFirst, OneCreator
    <2>4. CalmRows
      BY <2>2 DEF CalmRows, Exists
    <2>5. CalmRequests
      BY <2>1 DEF CalmRequests, GoesOn
    <2>6. QED
      BY <2>3, <2>4, <2>5, CalmKeepsPorts
  <1>9. CASE UndoCreate(p)
    <2>1. req[p].server \in Servers
      BY <1>9 DEF UndoCreate, ProvTypeOK, Fits
    <2>2. /\ \A q \in Procs \ {p} : req'[q] = req[q]
          /\ req'[p].pc \notin PortSteps
      BY <1>9 DEF UndoCreate, Release, Idle, ProvTypeOK
    <2>3. CASE srv' = srv /\ port' = port
      BY <1>1, <1>9, <2>2, <2>3 DEF UndoCreate
    <2>4. CASE DropRow(req[p].server)
      <3>1. CalmRows /\ CalmPorts
        BY <1>9, <2>1, <2>4 DEF UndoCreate, DropRow, Blank, CalmRows, CalmPorts, Guarded, Exists,
                               ProvTypeOK
      <3>2. CalmRequests
        BY <2>2 DEF CalmRequests, GoesOn
      <3>3. QED
        BY <3>1, <3>2, CalmKeepsPorts
    <2>5. QED
      BY <1>9, <2>3, <2>4 DEF UndoCreate
  <1>10. QED
    BY <1>2, <1>3, <1>4, <1>5, <1>6, <1>7, <1>8, <1>9 DEF CreateStep

LEMMA RequestKeepsHeld ==
  ASSUME ProvTypeOK, ProvTypeOK', PortsInv, NEW p \in Procs, RequestStep(p)
  PROVE  PortsInv'
  <1> USE DEF Creates, CreateSteps, PortSteps, history
  <1>1. ASSUME \A q \in Procs \ {p} : req'[q] = req[q],
               req'[p].pc \notin PortSteps \/ GoesOn(p) \/ BeginsDetach(p),
               CalmRows, CalmPorts
        PROVE  PortsInv'
    <2>1. CalmRequests
      BY <1>1 DEF CalmRequests, GoesOn
    <2>2. QED
      BY <1>1, <2>1, CalmKeepsPorts
  <1>2. CASE UpdateSettings(p)
    <2>1. \A s \in Servers : srv'[s].state = srv[s].state /\ srv'[s].port = srv[s].port
      BY <1>2 DEF UpdateSettings, ProvTypeOK, RowState, Fits
    <2>2. CalmRows /\ CalmPorts
      BY <1>2, <2>1 DEF UpdateSettings, CalmRows, CalmPorts, Exists
    <2>3. QED
      BY <1>1, <1>2, <2>2 DEF UpdateSettings, Finish, Idle, ProvTypeOK
  <1>3. CASE DeleteRelease(p)
    <2>1. /\ \A q \in Procs \ {p} : req'[q] = req[q]
          /\ req'[p].pc \notin PortSteps \/ GoesOn(p)
      BY <1>3 DEF DeleteRelease, Goto, Finish, Idle, GoesOn, ProvTypeOK, RequestState
    <2>2. req[p].server \in doomed
      BY <1>3 DEF DeleteRelease, PortsInv, DeletionKnown
    <2>3. CalmRows /\ CalmPorts
      BY <1>3, <2>2 DEF DeleteRelease, CalmRows, CalmPorts, Guarded, Exists
    <2>4. QED
      BY <1>1, <2>1, <2>3
  <1>4. CASE DeleteRow(p)
    <2>1. req[p].server \in Servers
      BY <1>4 DEF DeleteRow, ProvTypeOK, Fits
    <2>2. CalmRows /\ CalmPorts
      <3>1. CASE UNCHANGED <<srv, port>>
        BY <1>4, <3>1 DEF DeleteRow, CalmRows, CalmPorts, Exists
      <3>2. CASE DropRow(req[p].server)
        BY <1>4, <2>1, <3>2 DEF DeleteRow, DropRow, Blank, CalmRows, CalmPorts, Guarded, Exists,
                                ProvTypeOK
      <3>3. QED
        BY <1>4, <3>1, <3>2 DEF DeleteRow
    <2>3. QED
      BY <1>1, <1>4, <2>2 DEF DeleteRow, Finish, Idle, ProvTypeOK
  <1>5. CASE AttachEnds(p)
    <2>1. CASE ReleaseOne(p)
      BY <1>5, <2>1, ReleaseOneKeepsHeld DEF AttachEnds
    <2>2. CASE port' = port
      <3>1. CalmRows /\ CalmPorts
        BY <1>5, <2>2 DEF AttachEnds, CalmRows, CalmPorts, Exists
      <3>2. QED
        BY <1>1, <1>5, <3>1 DEF AttachEnds, Finish, Idle, ProvTypeOK
    <2>3. QED
      BY <1>5, <2>1, <2>2 DEF AttachEnds
  <1>6. CASE DetachRelease(p)
    BY <1>6, ReleaseOneKeepsHeld DEF DetachRelease
  <1>7. ASSUME NEW q \in Ports, DetachCheck(p, q) PROVE PortsInv'
    <2>1. CalmRows /\ CalmPorts
      BY <1>7 DEF DetachCheck, CalmRows, CalmPorts, Exists
    <2>2. CASE Finish(p)
      BY <1>1, <2>1, <2>2 DEF Finish, Idle, ProvTypeOK
    <2>3. CASE q # req[p].port /\ req' = [req EXCEPT ![p].pc = "detached", ![p].port = q]
      <3>1. /\ \A r \in Procs \ {p} : req'[r] = req[r]
            /\ req'[p].pc = "detached" /\ req'[p].port = q /\ q # req[p].port
            /\ req'[p].server = req[p].server /\ req[p].pc = "detach"
            /\ srv' = srv /\ doomed' = doomed /\ raced' = raced
        BY <1>7, <2>3 DEF DetachCheck, ProvTypeOK, RequestState
      <3>2. ASSUME NEW s \in Servers, req'[p].server = s
            PROVE  srv'[s].state # "unborn" /\ (Guarded(s)' => Spares(p, s)')
        BY <3>1, <3>2 DEF PortsInv, Born, DetachSpares, Spares, Guarded, Exists
      <3>3. BeginsDetach(p)
        BY <3>1, <3>2 DEF BeginsDetach
      <3>4. QED
        BY <1>1, <2>1, <3>1, <3>3
    <2>4. QED
      BY <1>7, <2>2, <2>3 DEF DetachCheck
  <1>8. QED
    BY <1>2, <1>3, <1>4, <1>5, <1>6, <1>7 DEF RequestStep

LEMMA ServerKeepsHeld ==
  ASSUME ProvTypeOK, PortsInv, NEW p \in Procs, NEW s \in Servers, ServerStep(p, s)
  PROVE  PortsInv'
  <1> USE DEF Creates, CreateSteps, PortSteps, history
  <1>1. ASSUME srv' = srv, port' = port, doomed \subseteq doomed', raced \subseteq raced',
               \A q \in Procs \ {p} : req'[q] = req[q],
               req'[p].pc \notin PortSteps \/ BeginsDelete(p) \/ BeginsDetach(p)
        PROVE  PortsInv'
    <2>1. CalmRows /\ CalmPorts
      BY <1>1 DEF CalmRows, CalmPorts, Exists
    <2>2. CalmRequests
      BY <1>1 DEF CalmRequests, GoesOn
    <2>3. QED
      BY <2>1, <2>2, CalmKeepsPorts
  <1>2. CASE \E m \in Sizes : ResizeBegin(p, s, m)
    BY <1>1, <1>2 DEF ResizeBegin, Idle, ProvTypeOK
  <1>3. CASE DeleteBegin(p, s)
    <2>1. /\ \A q \in Procs \ {p} : req'[q] = req[q]
          /\ req'[p].pc = "delrelease" /\ req'[p].server = s
          /\ srv' = srv /\ srv[s].state = "row"
      BY <1>3 DEF DeleteBegin, Idle, ProvTypeOK, Exists
    <2>2. BeginsDelete(p)
      BY <1>3, <2>1 DEF DeleteBegin, BeginsDelete
    <2>3. QED
      BY <1>1, <1>3, <2>1, <2>2 DEF DeleteBegin
  <1>4. CASE DetachBegin(p, s)
    <2>1. /\ \A q \in Procs \ {p} : req'[q] = req[q]
          /\ req'[p].pc = "detach" /\ req'[p].server = s /\ req'[p].port = srv[s].port
          /\ srv' = srv /\ srv[s].state = "row"
          /\ s \notin raced' => srv[s].port # 0
      BY <1>4 DEF DetachBegin, Idle, ProvTypeOK, Exists
    <2>2. BeginsDetach(p)
      BY <2>1 DEF BeginsDetach, Guarded, Spares
    <2>3. QED
      BY <1>1, <1>4, <2>1, <2>2 DEF DetachBegin
  <1>5. CASE \E q \in Ports : Attach(p, s, q)
    BY <1>5, AttachKeepsHeld
  <1>6. QED
    BY <1>2, <1>3, <1>4, <1>5 DEF ServerStep

LEMMA HeldStep ==
  ProvTypeOK /\ ProvTypeOK' /\ PortsInv /\ [Next]_vars => PortsInv'
  <1> SUFFICES ASSUME ProvTypeOK, ProvTypeOK', PortsInv, [Next]_vars PROVE PortsInv'
    OBVIOUS
  <1> USE DEF history, Exists
  <1>1. ASSUME port' = port, doomed' = doomed, raced' = raced,
               \A s \in Servers : srv'[s].state = srv[s].state /\ srv'[s].port = srv[s].port,
               \A p \in Procs : req'[p] = req[p] \/ req'[p] = Idle
        PROVE  PortsInv'
    <2>1. CalmRows /\ CalmPorts
      BY <1>1 DEF CalmRows, CalmPorts
    <2>2. CalmRequests
      BY <1>1 DEF CalmRequests, GoesOn, Idle, PortSteps, CreateSteps
    <2>3. QED
      BY <2>1, <2>2, CalmKeepsPorts
  <1>2. CASE AdminStep
    <2>1. \A s \in Servers : srv'[s].state = srv[s].state /\ srv'[s].port = srv[s].port
      BY <1>2 DEF AdminStep, SetLimit, AdminResize, AdminTransfer, ProvTypeOK, RowState
    <2>2. QED
      BY <1>1, <1>2, <2>1 DEF AdminStep, SetLimit, AdminResize, AdminTransfer
  <1>3. CASE Restart
    BY <1>1, <1>3 DEF Restart
  <1>4. CASE UNCHANGED vars
    BY <1>1, <1>4 DEF vars
  <1>5. QED
    BY <1>2, <1>3, <1>4, CreateKeepsHeld, RequestKeepsHeld, ServerKeepsHeld DEF Next

-----------------------------------------------------------------------------
(* The theorems.                                                           *)

ProvIInv == ProvTypeOK /\ NoPortlessRow /\ PortsInv

LEMMA InitProvIInv == Init => ProvIInv
  <1> SUFFICES ASSUME Init PROVE ProvIInv
    OBVIOUS
  <1>1. /\ \A s \in Servers : srv[s].state = "unborn"
        /\ \A p \in Procs : req[p].pc = "idle"
    BY DEF Init, Blank, Idle
  <1>2. NoPortlessRow /\ PrimaryPortHeld /\ CreatorFirst
    BY <1>1 DEF NoPortlessRow, PrimaryPortHeld, CreatorFirst, Exists
  <1>3. OneCreator /\ Born /\ DeletionKnown /\ ClaimHeld /\ DetachSpares /\ AttachApart
    BY <1>1 DEF OneCreator, Born, DeletionKnown, ClaimHeld, DetachSpares, AttachApart, Attaches,
                Creates, CreateSteps, PortSteps
  <1>4. QED
    BY <1>2, <1>3, InitTypes DEF ProvIInv, PortsInv

LEMMA ProvInvariant == Spec => []ProvIInv
  <1>1. ProvIInv /\ [Next]_vars => ProvIInv'
    BY NextTypes, PortlessStep, HeldStep DEF ProvIInv
  <1>2. QED
    BY <1>1, InitProvIInv, PTL DEF Spec

(* CreateServer, DeleteServer and the handlers of additional ports: a      *)
(* server whose creation finished holds its primary port until it is       *)
(* deleted, for any number of servers, ports and requests, unless a detach *)
(* began before it had one.                                                *)
THEOREM PrimaryPortsHeld == Spec => []PrimaryPortHeld
  <1>1. ProvIInv => PrimaryPortHeld
    BY DEF ProvIInv, PortsInv
  <1>2. QED
    BY <1>1, ProvInvariant, PTL

(* The cleanup of CreateServer: a row without a port belongs to a create   *)
(* under way, to one whose cleanup failed, or to one a restart cut short.  *)
THEOREM NoPortlessRows == Spec => []NoPortlessRow
  <1>1. ProvIInv => NoPortlessRow
    BY DEF ProvIInv
  <1>2. QED
    BY <1>1, ProvInvariant, PTL

-----------------------------------------------------------------------------
(* Quotas.  Of a user whom no administrator and no race exempts, at most    *)
(* one request has yet to write what it is checked for; until it does, what *)
(* it was checked against stays true.                                      *)

Metered(u) == u \notin exempt \cup raced

\* What is checked for u, so far, fits the quotas u has had.
Checked(u) ==
  /\ Usage(u, None) <= ceiling[u]
  /\ \A p, q \in Procs : PendingOf(p, u) /\ PendingOf(q, u) => p = q
  /\ \A p \in Procs : PendingOf(p, u) =>
       /\ req[p].pc = "usage" => req[p].limit <= ceiling[u]
       /\ req[p].pc \in {"insert", "update"} =>
            Usage(u, req[p].server) + req[p].mem <= ceiling[u]

CeilingsHold ==
  ceiling \in [Users -> Nat] /\ \A u \in Users : limit[u] <= ceiling[u]

\* A pending create of u holds the lock of u, alone.
LocksHold ==
  /\ owners \in [Users -> SUBSET Procs]
  /\ \A u \in Users : \A p, q \in owners[u] : p = q
  /\ \A p \in Procs, u \in Users : PendingOf(p, u) /\ req[p].server = None => p \in owners[u]

\* A server that is being resized stays its owner's, or goes to one exempt.
ResizedOwned ==
  \A p \in Procs, s \in Servers :
    req[p].pc \in {"limit", "usage", "update"} /\ req[p].server = s =>
      /\ srv[s].state # "unborn"
      /\ Exists(s) => srv[s].owner \in {req[p].user} \cup exempt

QuotaInv ==
  /\ CeilingsHold /\ LocksHold /\ ResizedOwned
  /\ \A u \in Users : Metered(u) => Checked(u)

LEMMA UsageTypes ==
  ASSUME ProvTypeOK, NEW u, NEW e
  PROVE  /\ Usage(u, e) \in Nat /\ IsFiniteSet(OwnedBy(u, e)) /\ OwnedBy(u, e) \in SUBSET Servers
         /\ \A s \in Servers : Mem[s] = srv[s].mem /\ Mem[s] \in Nat
  <1>1. OwnedBy(u, e) \in SUBSET Servers
    BY DEF OwnedBy
  <1>2. IsFiniteSet(OwnedBy(u, e))
    BY <1>1, FS_Subset, ProvisioningAssumption DEF ProvisioningAssumption
  <1>3. \A s \in Servers : Mem[s] = srv[s].mem /\ Mem[s] \in Nat
    BY DEF Mem, ProvTypeOK, RowState
  <1>4. Usage(u, e) \in Nat
    <2>1. \A s \in OwnedBy(u, e) : Mem[s] \in Nat
      BY <1>1, <1>3
    <2>2. QED
      BY <1>2, <2>1, SumIsNat DEF Usage
  <1>5. QED
    BY <1>1, <1>2, <1>3, <1>4

\* u gets no server, and none of u's servers changes its size.
RowsStay(u) ==
  \A s \in Servers : Exists(s)' /\ srv'[s].owner = u =>
    Exists(s) /\ srv[s].owner = u /\ srv'[s].mem = srv[s].mem

LEMMA UsageShrinks ==
  ASSUME ProvTypeOK, ProvTypeOK', NEW u, NEW e, RowsStay(u)
  PROVE  Usage(u, e)' <= Usage(u, e) /\ Usage(u, e)' \in Nat
  <1> DEFINE S == OwnedBy(u, e)
             T == OwnedBy(u, e)'
  <1>1. T \in SUBSET S /\ T \in SUBSET Servers
    BY DEF OwnedBy, RowsStay, Exists
  <1>2. \A s \in T : Mem'[s] = Mem[s]
    BY DEF OwnedBy, RowsStay, Mem, Exists
  <1>3. /\ IsFiniteSet(S) /\ S \in SUBSET Servers
        /\ \A s \in Servers : Mem[s] \in Nat
        /\ Usage(u, e) = SumFunctionOnSet(Mem, S)
    BY UsageTypes DEF Usage
  <1>4. Usage(u, e)' = SumFunctionOnSet(Mem', T)
    BY DEF Usage
  <1> HIDE DEF S, T
  <1>5. SumFunctionOnSet(Mem', T) = SumFunctionOnSet(Mem, T)
    <2>1. IsFiniteSet(T)
      BY <1>1, <1>3, FS_Subset
    <2>2. QED
      BY <1>2, <2>1, SumsAgree
  <1>6. SumFunctionOnSet(Mem, T) <= SumFunctionOnSet(Mem, S)
    <2>1. \A s \in S : Mem[s] \in Nat
      BY <1>3
    <2>2. QED
      BY <1>1, <1>3, <2>1, SumOfFewer
  <1>7. SumFunctionOnSet(Mem, T) \in Nat
    <2>1. IsFiniteSet(T) /\ \A s \in T : Mem[s] \in Nat
      BY <1>1, <1>3, FS_Subset
    <2>2. QED
      BY <2>1, SumIsNat
  <1>8. QED
    BY <1>3, <1>4, <1>5, <1>6, <1>7

\* A row of u appears, or changes its size, and the others stay.
LEMMA UsageGrows ==
  ASSUME ProvTypeOK, ProvTypeOK', NEW u, NEW s \in Servers,
         Exists(s)', srv'[s].owner = u,
         \A z \in Servers \ {s} : srv'[z] = srv[z]
  PROVE  Usage(u, None)' = Usage(u, s) + srv'[s].mem
  <1> DEFINE S == OwnedBy(u, s)
  <1>1. None \notin Servers
    BY ProvisioningAssumption DEF ProvisioningAssumption
  <1>2. OwnedBy(u, None)' = S \cup {s} /\ s \notin S
    BY <1>1 DEF OwnedBy, Exists
  <1>3. /\ \A z \in Servers \ {s} : Mem'[z] = Mem[z]
        /\ Mem'[s] = srv'[s].mem /\ Mem'[s] \in Nat
        /\ \A z \in Servers : Mem'[z] \in Nat
    BY DEF Mem, ProvTypeOK, RowState
  <1>4. IsFiniteSet(S) /\ S \in SUBSET Servers
    BY UsageTypes
  <1>5. Usage(u, None)' = SumFunctionOnSet(Mem', S \cup {s}) /\ Usage(u, s) = SumFunctionOnSet(Mem, S)
    BY <1>2 DEF Usage
  <1> HIDE DEF S
  <1>6. SumFunctionOnSet(Mem', S \cup {s}) = SumFunctionOnSet(Mem', S) + Mem'[s]
    <2>1. Mem'[s] \in Int /\ \A z \in S : Mem'[z] \in Int
      BY <1>3, <1>4
    <2>2. QED
      BY <1>2, <1>4, <2>1, SumWithOneMore
  <1>7. SumFunctionOnSet(Mem', S) = SumFunctionOnSet(Mem, S)
    <2>1. \A z \in S : Mem'[z] = Mem[z]
      BY <1>2, <1>3, <1>4
    <2>2. QED
      BY <1>4, <2>1, SumsAgree
  <1>8. QED
    BY <1>3, <1>5, <1>6, <1>7

\* A server that is not there adds nothing.
LEMMA UsageWithout ==
  ASSUME NEW u, NEW s \in Servers, ~Exists(s) \/ srv[s].owner # u
  PROVE  Usage(u, s) = Usage(u, None)
  <1>1. OwnedBy(u, s) = OwnedBy(u, None)
    BY ProvisioningAssumption DEF OwnedBy, ProvisioningAssumption
  <1>2. QED
    BY <1>1 DEF Usage

\* Nothing new is pending for u.
LEMMA CheckedStays ==
  ASSUME ProvTypeOK, ProvTypeOK', CeilingsHold, CeilingsHold', NEW u \in Users, Checked(u),
         RowsStay(u), ceiling[u] <= ceiling'[u],
         \A p \in Procs : PendingOf(p, u)' => PendingOf(p, u) /\ req'[p] = req[p]
  PROVE  Checked(u)'
  <1>1. ceiling[u] \in Nat /\ ceiling'[u] \in Nat
    BY DEF CeilingsHold
  <1>2. Usage(u, None)' <= ceiling'[u]
    BY <1>1, UsageShrinks, UsageTypes DEF Checked
  <1>3. \A p, q \in Procs : PendingOf(p, u)' /\ PendingOf(q, u)' => p = q
    BY DEF Checked
  <1>4. ASSUME NEW p \in Procs, PendingOf(p, u)'
        PROVE  /\ req'[p].pc = "usage" => req'[p].limit <= ceiling'[u]
               /\ req'[p].pc \in {"insert", "update"} =>
                    Usage(u, req[p].server)' + req'[p].mem <= ceiling'[u]
    <2>1. PendingOf(p, u) /\ req'[p] = req[p] /\ req[p].limit \in Nat /\ req[p].mem \in Nat
      BY <1>4 DEF ProvTypeOK, RequestState
    <2>2. PICK e \in Servers \cup {None} : e = req[p].server /\ e = req'[p].server
      BY <2>1 DEF ProvTypeOK, RequestState
    <2>3. Usage(u, e)' <= Usage(u, e) /\ Usage(u, e)' \in Nat /\ Usage(u, e) \in Nat
      BY UsageShrinks, UsageTypes
    <2>4. /\ req[p].pc = "usage" => req[p].limit <= ceiling[u]
          /\ req[p].pc \in {"insert", "update"} => Usage(u, e) + req[p].mem <= ceiling[u]
      BY <2>1, <2>2 DEF Checked
    <2>5. /\ req'[p].pc = "usage" => req'[p].limit <= ceiling'[u]
          /\ req'[p].pc \in {"insert", "update"} => Usage(u, e)' + req'[p].mem <= ceiling'[u]
      BY <1>1, <2>1, <2>3, <2>4
    <2>6. QED
      BY <2>2, <2>5
  <1>5. QED
    BY <1>2, <1>3, <1>4 DEF Checked

PendingSteps == {"limit", "usage", "insert", "update"}

LEMMA OthersWait ==
  ASSUME ProvTypeOK, NEW p \in Procs,
         CreateStep(p) \/ RequestStep(p) \/ \E s \in Servers : ServerStep(p, s)
  PROVE  \A q \in Procs \ {p} : req'[q] = req[q]
  <1> USE DEF ProvTypeOK, Refuse, Finish, Release, Goto
  <1>1. CASE CreateStep(p)
    <2>1. CASE (\E u \in Users, m \in Sizes : CreateLock(p, u, m)) \/ ReadLimit(p)
               \/ CheckUsage(p) \/ QueryFails(p) \/ Unlock(p)
      BY <2>1 DEF CreateLock, ReadLimit, CheckUsage, QueryFails, Unlock
    <2>2. CASE InsertRow(p) \/ ClaimFree(p)
      BY <2>2 DEF InsertRow, ClaimFree
    <2>3. CASE SetPrimaryPort(p) \/ CallFails(p) \/ ReleasePorts(p) \/ UndoCreate(p)
      BY <2>3 DEF SetPrimaryPort, CallFails, ReleasePorts, UndoCreate
    <2>4. QED
      BY <1>1, <2>1, <2>2, <2>3 DEF CreateStep
  <1>2. CASE RequestStep(p)
    BY <1>2 DEF RequestStep, UpdateSettings, DeleteRelease, DeleteRow, AttachEnds, DetachRelease,
       DetachCheck
  <1>3. CASE \E s \in Servers : ServerStep(p, s)
    BY <1>3 DEF ServerStep, ResizeBegin, DeleteBegin, Attach, DetachBegin
  <1>4. QED
    BY <1>1, <1>2, <1>3

\* Where a pending request comes from.
Waits(q, u) == PendingOf(q, u) /\ req'[q].server = req[q].server

LEMMA PendingMoves ==
  ASSUME ProvTypeOK, [Next]_vars, NEW q \in Procs, NEW u, PendingOf(q, u)'
  PROVE  \/ PendingOf(q, u) /\ req'[q] = req[q]
         \/ Waits(q, u) /\ (ReadLimit(q) \/ CheckUsage(q))
         \/ \E m \in Sizes : CreateLock(q, u, m)
         \/ \E s \in Servers, m \in Sizes :
              ResizeBegin(q, s, m) /\ srv[s].owner = u /\ req'[q].server = s
  <1> USE DEF ProvTypeOK, RequestState
  <1>1. req'[q].user = u /\ req'[q].pc \in PendingSteps
    BY DEF PendingOf, PendingSteps
  <1>2. ASSUME Finish(q) \/ Release(q) \/ Refuse(q) PROVE FALSE
    <2>1. Finish(q) => req'[q].pc = "idle"
      BY DEF Finish, Idle
    <2>2. Release(q) => req'[q].pc = "unlock"
      BY DEF Release, Idle
    <2>3. Finish(q) \/ Release(q)
      BY <1>2 DEF Refuse
    <2>4. QED
      BY <1>1, <2>1, <2>2, <2>3 DEF PendingSteps
  <1>3. ASSUME NEW step, Goto(q, step), step \notin PendingSteps PROVE FALSE
    BY <1>1, <1>3 DEF Goto
  <1>4. CASE CreateStep(q)
    <2>1. ASSUME NEW v \in Users, NEW m \in Sizes, CreateLock(q, v, m) PROVE v = u
      BY <1>1, <2>1 DEF CreateLock, Idle
    <2>2. CASE ReadLimit(q)
      BY <1>1, <2>2 DEF ReadLimit, Waits, PendingOf
    <2>3. CASE CheckUsage(q)
      BY <1>1, <1>2, <2>3 DEF CheckUsage, Waits, PendingOf
    <2>4. CASE QueryFails(q) \/ Unlock(q) \/ SetPrimaryPort(q) \/ UndoCreate(q)
      BY <1>2, <2>4 DEF QueryFails, Unlock, SetPrimaryPort, UndoCreate
    <2>5. CASE CallFails(q) \/ ReleasePorts(q)
      BY <1>3, <2>5 DEF CallFails, ReleasePorts, PendingSteps
    <2>6. CASE InsertRow(q)
      BY <1>1, <2>6 DEF InsertRow, PendingSteps
    <2>7. CASE ClaimFree(q)
      <3>1. req'[q].pc \in {"setport", "undo"}
        BY <2>7 DEF ClaimFree, Goto
      <3>2. QED
        BY <1>1, <3>1 DEF PendingSteps
    <2>8. QED
      BY <1>4, <2>1, <2>2, <2>3, <2>4, <2>5, <2>6, <2>7 DEF CreateStep
  <1>5. CASE RequestStep(q)
    <2>1. CASE UpdateSettings(q) \/ DeleteRow(q) \/ AttachEnds(q) \/ DetachRelease(q)
      BY <1>2, <2>1 DEF UpdateSettings, DeleteRow, AttachEnds, DetachRelease
    <2>2. CASE DeleteRelease(q)
      BY <1>2, <1>3, <2>2 DEF DeleteRelease, PendingSteps
    <2>3. ASSUME NEW r \in Ports, DetachCheck(q, r) PROVE FALSE
      <3>1. req'[q].pc = "detached" \/ Finish(q)
        BY <2>3 DEF DetachCheck
      <3>2. QED
        BY <1>1, <1>2, <3>1 DEF PendingSteps
    <2>4. QED
      BY <1>5, <2>1, <2>2, <2>3 DEF RequestStep
  <1>6. ASSUME NEW s \in Servers, ServerStep(q, s)
        PROVE  \E m \in Sizes : ResizeBegin(q, s, m) /\ srv[s].owner = u /\ req'[q].server = s
    <2>1. ASSUME NEW m \in Sizes, ResizeBegin(q, s, m)
          PROVE  srv[s].owner = u /\ req'[q].server = s
      BY <1>1, <2>1 DEF ResizeBegin, Idle
    <2>2. CASE DeleteBegin(q, s) \/ (\E r \in Ports : Attach(q, s, r)) \/ DetachBegin(q, s)
      <3>1. DeleteBegin(q, s) => req'[q].pc = "delrelease"
        BY DEF DeleteBegin, Idle
      <3>2. \A r \in Ports : Attach(q, s, r) => req'[q].pc = "attached"
        BY DEF Attach, Idle
      <3>3. DetachBegin(q, s) => req'[q].pc = "detach"
        BY DEF DetachBegin, Idle
      <3>4. QED
        BY <1>1, <2>2, <3>1, <3>2, <3>3 DEF PendingSteps
    <2>3. QED
      BY <1>6, <2>1, <2>2 DEF ServerStep
  <1>7. CASE Restart
    BY <1>1, <1>7 DEF Restart, Idle, PendingSteps
  <1>8. CASE AdminStep \/ UNCHANGED vars
    <2>1. req' = req
      BY <1>8 DEF AdminStep, SetLimit, AdminResize, AdminTransfer, vars
    <2>2. QED
      BY <2>1 DEF PendingOf
  <1>9. ASSUME NEW p \in Procs \ {q},
               CreateStep(p) \/ RequestStep(p) \/ \E s \in Servers : ServerStep(p, s)
        PROVE  PendingOf(q, u) /\ req'[q] = req[q]
    BY <1>9, OthersWait DEF PendingOf
  <1>10. QED
    BY <1>4, <1>5, <1>6, <1>7, <1>8, <1>9 DEF Next

LEMMA CeilingStep ==
  ASSUME ProvTypeOK, CeilingsHold, [Next]_vars
  PROVE  CeilingsHold' /\ \A u \in Users : ceiling[u] <= ceiling'[u]
  <1>1. ASSUME NEW u \in Users, SetLimit(u)
        PROVE  CeilingsHold' /\ \A v \in Users : ceiling[v] <= ceiling'[v]
    <2>1. PICK n \in Limits : /\ limit' = [limit EXCEPT ![u] = n]
                              /\ ceiling' = [ceiling EXCEPT ![u] = IF n > @ THEN n ELSE @]
      BY <1>1 DEF SetLimit
    <2>2. n \in Nat
      BY ProvisioningAssumption DEF ProvisioningAssumption
    <2>3. QED
      BY <2>1, <2>2 DEF CeilingsHold, ProvTypeOK
  <1>2. CASE UNCHANGED <<limit, ceiling>>
    BY <1>2 DEF CeilingsHold
  <1>3. ASSUME NEW p \in Procs, CreateStep(p) PROVE UNCHANGED <<limit, ceiling>>
    BY <1>3 DEF CreateStep, CreateLock, ReadLimit, CheckUsage, QueryFails, InsertRow, ClaimFree,
       SetPrimaryPort, CallFails, ReleasePorts, UndoCreate, Unlock, history
  <1>4. ASSUME NEW p \in Procs, RequestStep(p) \/ \E s \in Servers : ServerStep(p, s)
        PROVE  UNCHANGED <<limit, ceiling>>
    BY <1>4 DEF RequestStep, ServerStep, UpdateSettings, DeleteRelease, DeleteRow, AttachEnds,
       DetachRelease, DetachCheck, ResizeBegin, DeleteBegin, Attach, DetachBegin, history
  <1>5. QED
    BY <1>1, <1>2, <1>3, <1>4 DEF Next, AdminStep, AdminResize, AdminTransfer, Restart, vars, history

LEMMA LockStep ==
  ASSUME ProvTypeOK, LocksHold, [Next]_vars
  PROVE  LocksHold'
  <1>1. ASSUME NEW p \in Procs, NEW v \in Users, NEW m \in Sizes, CreateLock(p, v, m)
        PROVE  LocksHold'
    <2>1. owners[v] = {} /\ owners' = [owners EXCEPT ![v] = {p}]
      BY <1>1 DEF CreateLock, Lock!Take
    <2>2. /\ owners' \in [Users -> SUBSET Procs]
          /\ \A u \in Users : \A q, r \in owners'[u] : q = r
      BY <2>1 DEF LocksHold
    <2>3. \A q \in Procs \ {p} : req'[q] = req[q]
      BY <1>1 DEF CreateLock, ProvTypeOK
    <2>4. req'[p].user = v
      BY <1>1 DEF CreateLock, Idle, ProvTypeOK
    <2>5. ASSUME NEW q \in Procs, NEW u \in Users, PendingOf(q, u)', req'[q].server = None
          PROVE  q \in owners'[u]
      <3>1. CASE q = p
        BY <2>1, <2>4, <2>5, <3>1 DEF PendingOf, LocksHold
      <3>2. CASE q # p
        <4>1. q \in owners[u]
          BY <2>3, <2>5, <3>2 DEF PendingOf, LocksHold
        <4>2. QED
          BY <2>1, <4>1 DEF LocksHold
      <3>3. QED
        BY <3>1, <3>2
    <2>6. QED
      BY <2>2, <2>5 DEF LocksHold
  <1>2. ASSUME NEW p \in Procs, Unlock(p) PROVE LocksHold'
    <2> DEFINE v == req[p].user
    <2>1. /\ req[p].pc = "unlock" /\ owners[v] = {p}
          /\ owners' = [owners EXCEPT ![v] = {}] /\ Finish(p)
      BY <1>2 DEF Unlock, Lock!Give
    <2>2. /\ owners' \in [Users -> SUBSET Procs]
          /\ \A u \in Users : \A q, r \in owners'[u] : q = r
      BY <2>1 DEF LocksHold
    <2>3. (\A q \in Procs \ {p} : req'[q] = req[q]) /\ req'[p].pc = "idle"
      BY <2>1 DEF Finish, Idle, ProvTypeOK
    <2>4. ASSUME NEW q \in Procs, NEW u \in Users, PendingOf(q, u)', req'[q].server = None
          PROVE  q \in owners'[u]
      <3>1. q # p
        BY <2>3, <2>4 DEF PendingOf
      <3>2. q \in owners[u]
        BY <2>3, <2>4, <3>1 DEF PendingOf, LocksHold
      <3>3. QED
        BY <2>1, <3>1, <3>2 DEF LocksHold
    <2>5. QED
      BY <2>2, <2>4 DEF LocksHold
  <1>3. ASSUME owners' = owners,
               ~\E p \in Procs, v \in Users, m \in Sizes : CreateLock(p, v, m)
        PROVE  LocksHold'
    <2>1. ASSUME NEW q \in Procs, NEW u \in Users, PendingOf(q, u)', req'[q].server = None
          PROVE  q \in owners[u]
      <3>1. None \notin Servers
        BY ProvisioningAssumption DEF ProvisioningAssumption
      <3>2. PendingOf(q, u) /\ req[q].server = None
        BY <1>3, <2>1, <3>1, PendingMoves DEF Waits
      <3>3. QED
        BY <3>2 DEF LocksHold
    <2>2. QED
      BY <1>3, <2>1 DEF LocksHold
  <1>4. CASE Restart
    BY <1>4 DEF Restart, LocksHold, PendingOf, Idle
  <1>5. ASSUME NEW p \in Procs, CreateStep(p),
               ~Unlock(p), ~\E v \in Users, m \in Sizes : CreateLock(p, v, m)
        PROVE  owners' = owners
    BY <1>5 DEF CreateStep, ReadLimit, CheckUsage, QueryFails, InsertRow, ClaimFree,
       SetPrimaryPort, CallFails, ReleasePorts, UndoCreate
  <1>6. ASSUME NEW p \in Procs, RequestStep(p) \/ \E s \in Servers : ServerStep(p, s)
        PROVE  owners' = owners
    BY <1>6 DEF RequestStep, ServerStep, UpdateSettings, DeleteRelease, DeleteRow, AttachEnds,
       DetachRelease, DetachCheck, ResizeBegin, DeleteBegin, Attach, DetachBegin
  <1>7. AdminStep \/ UNCHANGED vars => owners' = owners
    BY DEF AdminStep, SetLimit, AdminResize, AdminTransfer, vars
  <1>8. QED
    BY <1>1, <1>2, <1>3, <1>4, <1>5, <1>6, <1>7 DEF Next

\* What may happen to the rows.
LEMMA RowMoves ==
  ASSUME ProvTypeOK, [Next]_vars
  PROVE  \/ srv' = srv
         \/ \E s \in Servers : DropRow(s)
         \/ \E p \in Procs : InsertRow(p) \/ SetPrimaryPort(p) \/ UpdateSettings(p)
         \/ \E s \in Servers, m \in Sizes : AdminResize(s, m)
         \/ \E s \in Servers, u \in Users : AdminTransfer(s, u)
  <1>1. ASSUME NEW p \in Procs, CreateStep(p), ~InsertRow(p), ~SetPrimaryPort(p)
        PROVE  srv' = srv \/ \E s \in Servers : DropRow(s)
    <2>1. UndoCreate(p) => req[p].server \in Servers
      BY DEF UndoCreate, ProvTypeOK, Fits, PortSteps, CreateSteps
    <2>2. UndoCreate(p) => srv' = srv \/ DropRow(req[p].server)
      BY DEF UndoCreate
    <2>3. QED
      BY <1>1, <2>1, <2>2 DEF CreateStep, CreateLock, ReadLimit, CheckUsage, QueryFails, ClaimFree,
         CallFails, ReleasePorts, Unlock
  <1>2. ASSUME NEW p \in Procs, RequestStep(p), ~UpdateSettings(p)
        PROVE  srv' = srv \/ \E s \in Servers : DropRow(s)
    <2>1. DeleteRow(p) => req[p].server \in Servers
      BY DEF DeleteRow, ProvTypeOK, Fits, PortSteps
    <2>2. DeleteRow(p) => srv' = srv \/ DropRow(req[p].server)
      BY DEF DeleteRow
    <2>3. QED
      BY <1>2, <2>1, <2>2 DEF RequestStep, DeleteRelease, AttachEnds, DetachRelease, DetachCheck
  <1>3. ASSUME NEW p \in Procs, \E s \in Servers : ServerStep(p, s) PROVE srv' = srv
    BY <1>3 DEF ServerStep, ResizeBegin, DeleteBegin, Attach, DetachBegin
  <1>4. QED
    BY <1>1, <1>2, <1>3 DEF Next, AdminStep, SetLimit, Restart, vars

\* A row that is there or was once does not come back, and changes hands
\* only through an administrator.
LEMMA RowsKeepOwner ==
  ASSUME ProvTypeOK, [Next]_vars, NEW s \in Servers, srv[s].state # "unborn"
  PROVE  /\ srv'[s].state # "unborn"
         /\ Exists(s)' => Exists(s) /\ srv'[s].owner \in {srv[s].owner} \cup exempt'
  <1> USE DEF ProvTypeOK, RowState, Exists
  <1>1. CASE srv' = srv
    BY <1>1
  <1>2. ASSUME NEW z \in Servers, DropRow(z)
        PROVE  srv'[z].state = "gone" /\ (s # z => srv'[s] = srv[s])
    BY <1>2 DEF DropRow, Blank
  <1>3. ASSUME NEW p \in Procs, InsertRow(p) PROVE srv'[s] = srv[s]
    BY <1>3 DEF InsertRow
  <1>4. ASSUME NEW p \in Procs, SetPrimaryPort(p) \/ UpdateSettings(p)
        PROVE  srv'[s].state = srv[s].state /\ srv'[s].owner = srv[s].owner
    BY <1>4 DEF SetPrimaryPort, UpdateSettings
  <1>5. ASSUME NEW z \in Servers, NEW m \in Sizes, AdminResize(z, m)
        PROVE  srv'[s].state = srv[s].state /\ srv'[s].owner = srv[s].owner
    BY <1>5 DEF AdminResize
  <1>6. ASSUME NEW z \in Servers, NEW u \in Users, AdminTransfer(z, u)
        PROVE  srv'[s].state = srv[s].state /\ srv'[s].owner \in {srv[s].owner} \cup exempt'
    BY <1>6 DEF AdminTransfer
  <1>7. QED
    BY <1>1, <1>2, <1>3, <1>4, <1>5, <1>6, RowMoves

LEMMA ResizedStep ==
  ASSUME ProvTypeOK, ResizedOwned, [Next]_vars
  PROVE  ResizedOwned' /\ exempt \subseteq exempt'
  <1>1. exempt \subseteq exempt'
    <2>1. ASSUME NEW p \in Procs, CreateStep(p) PROVE exempt' = exempt
      BY <2>1 DEF CreateStep, CreateLock, ReadLimit, CheckUsage, QueryFails, InsertRow, ClaimFree,
         SetPrimaryPort, CallFails, ReleasePorts, UndoCreate, Unlock, history
    <2>2. ASSUME NEW p \in Procs, RequestStep(p) \/ \E s \in Servers : ServerStep(p, s)
          PROVE  exempt' = exempt
      BY <2>2 DEF RequestStep, ServerStep, UpdateSettings, DeleteRelease, DeleteRow, AttachEnds,
         DetachRelease, DetachCheck, ResizeBegin, DeleteBegin, Attach, DetachBegin, history
    <2>3. AdminStep => exempt \subseteq exempt'
      BY DEF AdminStep, SetLimit, AdminResize, AdminTransfer
    <2>4. QED
      BY <2>1, <2>2, <2>3 DEF Next, Restart, vars, history
  <1>2. ASSUME NEW q \in Procs, NEW s \in Servers, req'[q].pc \in {"limit", "usage", "update"},
               req'[q].server = s
        PROVE  /\ srv'[s].state # "unborn"
               /\ Exists(s)' => srv'[s].owner \in {req'[q].user} \cup exempt'
    <2> PICK u : u = req'[q].user
      OBVIOUS
    <2>1. PendingOf(q, u)'
      BY <1>2 DEF PendingOf
    <2>2. None \notin Servers
      BY ProvisioningAssumption DEF ProvisioningAssumption
    <2>3. ASSUME req[q].pc \in {"limit", "usage", "update"}, req[q].user = u, req[q].server = s
          PROVE  /\ srv'[s].state # "unborn"
                 /\ Exists(s)' => srv'[s].owner \in {u} \cup exempt'
      <3>1. srv[s].state # "unborn" /\ (Exists(s) => srv[s].owner \in {u} \cup exempt)
        BY <2>3 DEF ResizedOwned
      <3>2. QED
        BY <1>1, <3>1, RowsKeepOwner
    <2>4. CASE PendingOf(q, u) /\ req'[q] = req[q]
      BY <1>2, <2>3, <2>4 DEF PendingOf
    <2>5. CASE Waits(q, u) /\ (ReadLimit(q) \/ CheckUsage(q))
      <3>1. req[q].user = u /\ req[q].server = s /\ req[q].pc \in {"limit", "usage"}
        BY <1>2, <2>5 DEF Waits, PendingOf, ReadLimit, CheckUsage
      <3>2. QED
        BY <2>3, <3>1
    <2>6. ASSUME NEW m \in Sizes, CreateLock(q, u, m) PROVE FALSE
      BY <1>2, <2>2, <2>6 DEF CreateLock, Idle, ProvTypeOK
    <2>7. ASSUME NEW z \in Servers, NEW m \in Sizes, ResizeBegin(q, z, m), srv[z].owner = u,
                 req'[q].server = z
          PROVE  srv'[s].state # "unborn" /\ srv'[s].owner = u
      BY <1>2, <2>7 DEF ResizeBegin, Exists
    <2>8. QED
      BY <2>1, <2>4, <2>5, <2>6, <2>7, PendingMoves
  <1>3. QED
    BY <1>1, <1>2 DEF ResizedOwned

LEMMA RacedStays ==
  ASSUME [Next]_vars
  PROVE  raced \subseteq raced'
  <1>1. ASSUME NEW p \in Procs, CreateStep(p) PROVE raced \subseteq raced'
    BY <1>1 DEF CreateStep, CreateLock, ReadLimit, CheckUsage, QueryFails, InsertRow, ClaimFree,
       SetPrimaryPort, CallFails, ReleasePorts, UndoCreate, Unlock, history
  <1>2. ASSUME NEW p \in Procs, RequestStep(p) PROVE raced' = raced
    BY <1>2 DEF RequestStep, UpdateSettings, DeleteRelease, DeleteRow, AttachEnds, DetachRelease,
       DetachCheck, history
  <1>3. ASSUME NEW p \in Procs, NEW s \in Servers, ServerStep(p, s) PROVE raced \subseteq raced'
    BY <1>3 DEF ServerStep, ResizeBegin, DeleteBegin, Attach, DetachBegin, history
  <1>4. QED
    BY <1>1, <1>2, <1>3 DEF Next, AdminStep, SetLimit, AdminResize, AdminTransfer, Restart, vars,
       history

\* Of a user no administrator exempts, only two steps make more of the rows.
LEMMA MeteredRows ==
  ASSUME ProvTypeOK, ResizedOwned, [Next]_vars, NEW u \in Users, Metered(u)',
         ~\E p \in Procs : (InsertRow(p) \/ UpdateSettings(p)) /\ req[p].user = u
  PROVE  RowsStay(u)
  <1> USE DEF ProvTypeOK, RowState, Exists, RowsStay
  <1>1. CASE srv' = srv
    BY <1>1
  <1>2. ASSUME NEW z \in Servers, DropRow(z) PROVE RowsStay(u)
    BY <1>2 DEF DropRow, Blank
  <1>3. ASSUME NEW p \in Procs, InsertRow(p) PROVE RowsStay(u)
    <2>1. PICK z \in Servers :
            srv' = [srv EXCEPT ![z] = [state |-> "row", owner |-> req[p].user, mem |-> req[p].mem,
                                       port |-> 0]]
      BY <1>3 DEF InsertRow
    <2>2. req[p].user # u
      BY <1>3
    <2>3. QED
      BY <2>1, <2>2
  <1>4. ASSUME NEW p \in Procs, SetPrimaryPort(p) PROVE RowsStay(u)
    BY <1>4 DEF SetPrimaryPort
  <1>5. ASSUME NEW p \in Procs, UpdateSettings(p) PROVE RowsStay(u)
    <2>1. req[p].pc = "update" /\ req[p].server \in Servers /\ req[p].user # u
      BY <1>5 DEF UpdateSettings, Fits
    <2>2. Exists(req[p].server) => srv[req[p].server].owner \in {req[p].user} \cup exempt
      BY <2>1 DEF ResizedOwned
    <2>3. u \notin exempt
      BY <1>5 DEF UpdateSettings, history, Metered
    <2>4. QED
      BY <1>5, <2>1, <2>2, <2>3 DEF UpdateSettings
  <1>6. ASSUME NEW z \in Servers, NEW m \in Sizes, AdminResize(z, m) PROVE RowsStay(u)
    BY <1>6 DEF AdminResize, Metered
  <1>7. ASSUME NEW z \in Servers, NEW v \in Users, AdminTransfer(z, v) PROVE RowsStay(u)
    BY <1>7 DEF AdminTransfer, Metered
  <1>8. QED
    BY <1>1, <1>2, <1>3, <1>4, <1>5, <1>6, <1>7, RowMoves

-----------------------------------------------------------------------------
(* The steps that write what was checked, and those that check.             *)

LEMMA MeteredBefore ==
  ASSUME ProvTypeOK, ResizedOwned, QuotaInv, [Next]_vars, NEW u \in Users, Metered(u)'
  PROVE  Checked(u)
  BY ResizedStep, RacedStays DEF QuotaInv, Metered

\* The row of a create fits, since the request held the lock all along.
LEMMA InsertChecked ==
  ASSUME ProvTypeOK, ProvTypeOK', CeilingsHold, CeilingsHold', [Next]_vars, NEW u \in Users,
         Checked(u), ceiling[u] <= ceiling'[u],
         NEW p \in Procs, InsertRow(p), req[p].user = u
  PROVE  Checked(u)'
  <1>1. PICK s \in Servers :
          /\ srv[s].state = "unborn"
          /\ srv' = [srv EXCEPT ![s] =
               [state |-> "row", owner |-> u, mem |-> req[p].mem, port |-> 0]]
          /\ req' = [req EXCEPT ![p].pc = "claim", ![p].server = s, ![p].mem = 0]
    BY DEF InsertRow
  <1>2. req[p].pc = "insert" /\ req[p].server = None /\ PendingOf(p, u)
    BY DEF InsertRow, ProvTypeOK, Fits, PendingOf
  <1>3. /\ srv'[s] = [state |-> "row", owner |-> u, mem |-> req[p].mem, port |-> 0]
        /\ \A z \in Servers \ {s} : srv'[z] = srv[z]
    BY <1>1 DEF ProvTypeOK
  <1>4. Usage(u, None)' = Usage(u, s) + req[p].mem
    BY <1>3, UsageGrows DEF Exists
  <1>5. Usage(u, s) = Usage(u, None)
    BY <1>1, UsageWithout DEF Exists
  <1>6. Usage(u, None) + req[p].mem <= ceiling[u]
    BY <1>2 DEF Checked
  <1>7. Usage(u, None)' <= ceiling'[u]
    <2>1. ceiling[u] \in Nat /\ ceiling'[u] \in Nat /\ req[p].mem \in Nat /\ Usage(u, None) \in Nat
      BY UsageTypes DEF CeilingsHold, ProvTypeOK, RequestState
    <2>2. QED
      BY <1>4, <1>5, <1>6, <2>1
  <1>8. ASSUME NEW q \in Procs, PendingOf(q, u)' PROVE FALSE
    <2>1. CASE q = p
      BY <1>1, <1>8, <2>1 DEF PendingOf, ProvTypeOK
    <2>2. CASE q # p
      <3>1. PendingOf(q, u)
        BY <1>1, <1>8, <2>2 DEF PendingOf, ProvTypeOK
      <3>2. QED
        BY <1>2, <2>2, <3>1 DEF Checked
    <2>3. QED
      BY <2>1, <2>2
  <1>9. QED
    BY <1>7, <1>8 DEF Checked

\* The new size of a server fits, since nothing else of the user was pending.
LEMMA UpdateChecked ==
  ASSUME ProvTypeOK, ProvTypeOK', CeilingsHold, CeilingsHold', ResizedOwned, [Next]_vars,
         NEW u \in Users, u \notin exempt,
         Checked(u), ceiling[u] <= ceiling'[u],
         NEW p \in Procs, UpdateSettings(p), req[p].user = u
  PROVE  Checked(u)'
  <1>1. PICK s \in Servers : s = req[p].server
    BY DEF UpdateSettings, ProvTypeOK, Fits
  <1>2. /\ srv' = IF Exists(s) THEN [srv EXCEPT ![s].mem = req[p].mem] ELSE srv
        /\ Finish(p)
    BY <1>1 DEF UpdateSettings
  <1>3. req[p].pc = "update" /\ PendingOf(p, u)
    BY DEF UpdateSettings, PendingOf
  <1>4. (\A q \in Procs \ {p} : req'[q] = req[q]) /\ req'[p].pc = "idle"
    BY <1>2 DEF Finish, Idle, ProvTypeOK
  <1>5. ASSUME NEW q \in Procs, PendingOf(q, u)' PROVE FALSE
    <2>1. q # p
      BY <1>4, <1>5 DEF PendingOf
    <2>2. PendingOf(q, u)
      BY <1>4, <1>5, <2>1 DEF PendingOf
    <2>3. QED
      BY <1>3, <2>1, <2>2 DEF Checked
  <1>6. Usage(u, s) + req[p].mem <= ceiling[u]
    BY <1>1, <1>3 DEF Checked
  <1>7. /\ ceiling[u] \in Nat /\ ceiling'[u] \in Nat /\ req[p].mem \in Nat
        /\ Usage(u, None) \in Nat /\ Usage(u, None) <= ceiling[u]
    BY UsageTypes DEF CeilingsHold, ProvTypeOK, RequestState, Checked
  <1>8. Usage(u, None)' <= ceiling'[u]
    <2>1. CASE Exists(s) /\ srv[s].owner = u
      <3>1. /\ Exists(s)' /\ srv'[s].owner = u /\ srv'[s].mem = req[p].mem
            /\ \A z \in Servers \ {s} : srv'[z] = srv[z]
        BY <1>2, <2>1 DEF Exists, ProvTypeOK, RowState
      <3>2. Usage(u, None)' = Usage(u, s) + req[p].mem
        BY <3>1, UsageGrows
      <3>3. Usage(u, s) \in Nat
        BY UsageTypes
      <3>4. QED
        BY <1>6, <1>7, <3>2, <3>3
    <2>2. CASE ~(Exists(s) /\ srv[s].owner = u)
      <3>1. RowsStay(u)
        BY <1>2, <2>2 DEF RowsStay, Exists, ProvTypeOK, RowState
      <3>2. Usage(u, None)' <= Usage(u, None) /\ Usage(u, None)' \in Nat
        BY <3>1, UsageShrinks
      <3>3. QED
        BY <1>7, <3>2
    <2>3. QED
      BY <2>1, <2>2
  <1>9. QED
    BY <1>5, <1>8 DEF Checked

\* Reading the quota, and comparing it with what the rows add up to.
LEMMA ReadChecked ==
  ASSUME ProvTypeOK, ProvTypeOK', CeilingsHold, CeilingsHold', [Next]_vars,
         NEW u \in Users, Checked(u), ceiling[u] <= ceiling'[u],
         NEW p \in Procs, ReadLimit(p) \/ CheckUsage(p), req[p].user = u
  PROVE  Checked(u)'
  <1>1. srv' = srv /\ req[p].pc \in {"limit", "usage"} /\ PendingOf(p, u)
    BY DEF ReadLimit, CheckUsage, PendingOf
  <1>2. \A q \in Procs \ {p} : req'[q] = req[q]
    BY OthersWait DEF CreateStep
  <1>3. \A q \in Procs : PendingOf(q, u)' => q = p
    <2>1. ASSUME NEW q \in Procs, PendingOf(q, u)', q # p PROVE FALSE
      <3>1. PendingOf(q, u)
        BY <1>2, <2>1 DEF PendingOf
      <3>2. QED
        BY <1>1, <2>1, <3>1 DEF Checked
    <2>2. QED
      BY <2>1
  <1>4. \A e : Usage(u, e)' = Usage(u, e)
    BY <1>1 DEF Usage, OwnedBy, Exists, Mem
  <1>5. /\ ceiling[u] \in Nat /\ ceiling'[u] \in Nat /\ limit[u] \in Nat /\ limit[u] <= ceiling[u]
        /\ req[p].limit \in Nat /\ req[p].mem \in Nat
        /\ Usage(u, None) \in Nat /\ Usage(u, None) <= ceiling[u]
    BY UsageTypes DEF CeilingsHold, ProvTypeOK, RequestState, Checked
  <1>6. Usage(u, None)' <= ceiling'[u]
    BY <1>4, <1>5
  <1>7. ASSUME PendingOf(p, u)', Refuse(p) PROVE FALSE
    <2>1. Finish(p) => req'[p].pc = "idle"
      BY DEF Finish, Idle, ProvTypeOK
    <2>2. Release(p) => req'[p].pc = "unlock"
      BY DEF Release, Idle, ProvTypeOK
    <2>3. QED
      BY <1>7, <2>1, <2>2 DEF Refuse, PendingOf
  <1>8. PICK e : e = req[p].server
    OBVIOUS
  <1>9. ASSUME PendingOf(p, u)'
        PROVE  /\ req'[p].server = e
               /\ req'[p].pc = "usage" => req'[p].limit <= ceiling'[u]
               /\ req'[p].pc \in {"insert", "update"} => Usage(u, e) + req'[p].mem <= ceiling'[u]
    <2>1. CASE ReadLimit(p)
      <3>1. req'[p].pc = "usage" /\ req'[p].limit = limit[u] /\ req'[p].server = e
        BY <1>8, <2>1 DEF ReadLimit, ProvTypeOK, RequestState
      <3>2. QED
        BY <1>5, <3>1
    <2>2. CASE CheckUsage(p)
      <3>1. /\ Usage(u, e) + req[p].mem <= req[p].limit
            /\ req' = [req EXCEPT ![p].limit = 0,
                                  ![p].pc = IF req[p].server = None THEN "insert" ELSE "update"]
        BY <1>7, <1>8, <1>9, <2>2 DEF CheckUsage
      <3>2. req'[p].pc # "usage" /\ req'[p].mem = req[p].mem /\ req'[p].server = e
        BY <1>8, <3>1 DEF ProvTypeOK, RequestState
      <3>3. req[p].limit <= ceiling[u]
        BY <1>1, <2>2 DEF CheckUsage, Checked
      <3>4. Usage(u, e) \in Nat
        BY UsageTypes
      <3>5. Usage(u, e) + req[p].mem <= ceiling'[u]
        BY <1>5, <3>1, <3>3, <3>4
      <3>6. QED
        BY <3>2, <3>5
    <2>3. QED
      BY <2>1, <2>2
  <1>10. QED
    BY <1>3, <1>4, <1>6, <1>9 DEF Checked

\* A request begins while nothing that would disturb it is under way.
LEMMA BeginChecked ==
  ASSUME ProvTypeOK, ProvTypeOK', CeilingsHold, CeilingsHold', LocksHold, [Next]_vars,
         NEW u \in Users, Checked(u), Metered(u)', ceiling[u] <= ceiling'[u],
         NEW p \in Procs,
         \/ \E m \in Sizes : CreateLock(p, u, m)
         \/ \E s \in Servers, m \in Sizes : ResizeBegin(p, s, m) /\ srv[s].owner = u
  PROVE  Checked(u)'
  <1>1. srv' = srv /\ req'[p].pc = "limit" /\ \A q \in Procs \ {p} : req'[q] = req[q]
    <2>1. ASSUME NEW m \in Sizes, CreateLock(p, u, m)
          PROVE  srv' = srv /\ req'[p].pc = "limit" /\ \A q \in Procs \ {p} : req'[q] = req[q]
      BY <2>1 DEF CreateLock, Idle, ProvTypeOK
    <2>2. ASSUME NEW s \in Servers, NEW m \in Sizes, ResizeBegin(p, s, m)
          PROVE  srv' = srv /\ req'[p].pc = "limit" /\ \A q \in Procs \ {p} : req'[q] = req[q]
      BY <2>2 DEF ResizeBegin, Idle, ProvTypeOK
    <2>3. QED
      BY <2>1, <2>2
  <1>2. ASSUME NEW q \in Procs, PendingOf(q, u), NEW m \in Sizes, CreateLock(p, u, m)
        PROVE  FALSE
    <2>1. ~ResizePending(u)
      BY <1>2 DEF CreateLock, Metered
    <2>2. req[q].server = None
      BY <1>2, <2>1 DEF ResizePending
    <2>3. q \in owners[u]
      BY <1>2, <2>2 DEF LocksHold
    <2>4. QED
      BY <1>2, <2>3 DEF CreateLock, Lock!Take
  <1>3. ASSUME NEW q \in Procs, PendingOf(q, u), NEW s \in Servers, NEW m \in Sizes,
               ResizeBegin(p, s, m), srv[s].owner = u
        PROVE  FALSE
    BY <1>3 DEF ResizeBegin, Metered, Pending
  <1>4. \A q \in Procs : ~PendingOf(q, u)
    BY <1>2, <1>3
  <1>5. \A q \in Procs : PendingOf(q, u)' => q = p
    BY <1>1, <1>4 DEF PendingOf
  <1>6. Usage(u, None)' = Usage(u, None)
    BY <1>1 DEF Usage, OwnedBy, Exists, Mem
  <1>7. Usage(u, None)' <= ceiling'[u]
    <2>1. /\ ceiling[u] \in Nat /\ ceiling'[u] \in Nat
          /\ Usage(u, None) \in Nat /\ Usage(u, None) <= ceiling[u]
      BY UsageTypes DEF CeilingsHold, Checked
    <2>2. QED
      BY <1>6, <2>1
  <1>8. QED
    BY <1>1, <1>5, <1>7 DEF Checked

LEMMA CheckedStep ==
  ASSUME ProvTypeOK, ProvTypeOK', QuotaInv, CeilingsHold', [Next]_vars,
         NEW u \in Users, Metered(u)'
  PROVE  Checked(u)'
  <1> USE DEF QuotaInv
  <1>1. Checked(u) /\ u \notin exempt /\ ceiling[u] <= ceiling'[u]
    BY MeteredBefore, CeilingStep, ResizedStep DEF Metered
  <1>2. CASE \E p \in Procs : (InsertRow(p) \/ UpdateSettings(p)) /\ req[p].user = u
    BY <1>1, <1>2, InsertChecked, UpdateChecked
  <1>3. CASE \E p \in Procs : (ReadLimit(p) \/ CheckUsage(p)) /\ req[p].user = u
    BY <1>1, <1>3, ReadChecked
  <1>4. CASE \E p \in Procs :
               \/ \E m \in Sizes : CreateLock(p, u, m)
               \/ \E s \in Servers, m \in Sizes : ResizeBegin(p, s, m) /\ srv[s].owner = u
    BY <1>1, <1>4, BeginChecked
  <1>5. ASSUME ~\E p \in Procs : (InsertRow(p) \/ UpdateSettings(p)) /\ req[p].user = u,
               ~\E p \in Procs : (ReadLimit(p) \/ CheckUsage(p)) /\ req[p].user = u,
               ~\E p \in Procs :
                  \/ \E m \in Sizes : CreateLock(p, u, m)
                  \/ \E s \in Servers, m \in Sizes : ResizeBegin(p, s, m) /\ srv[s].owner = u
        PROVE  Checked(u)'
    <2>1. RowsStay(u)
      BY <1>5, MeteredRows
    <2>2. ASSUME NEW q \in Procs, PendingOf(q, u)' PROVE PendingOf(q, u) /\ req'[q] = req[q]
      BY <1>5, <2>2, PendingMoves DEF Waits, PendingOf
    <2>3. QED
      BY <1>1, <2>1, <2>2, CheckedStays
  <1>6. QED
    BY <1>2, <1>3, <1>4, <1>5

LEMMA InitQuota == Init => QuotaInv
  <1> SUFFICES ASSUME Init PROVE QuotaInv
    OBVIOUS
  <1>1. PICK n \in Limits : limit = [u \in Users |-> n] /\ ceiling = limit
    BY DEF Init
  <1>2. n \in Nat
    BY ProvisioningAssumption DEF ProvisioningAssumption
  <1>3. CeilingsHold
    BY <1>1, <1>2 DEF CeilingsHold
  <1>4. /\ \A p \in Procs : req[p].pc = "idle"
        /\ \A s \in Servers : ~Exists(s)
    BY DEF Init, Blank, Idle, Exists
  <1>5. LocksHold /\ ResizedOwned
    BY <1>4 DEF LocksHold, ResizedOwned, PendingOf, Init, Lock!Init
  <1>6. ASSUME NEW u \in Users PROVE Checked(u)
    <2>1. OwnedBy(u, None) = {}
      BY <1>4 DEF OwnedBy
    <2>2. Usage(u, None) = 0
      BY <2>1, SumOfNone DEF Usage
    <2>3. ceiling[u] >= 0
      BY <1>3 DEF CeilingsHold
    <2>4. QED
      BY <1>4, <2>2, <2>3 DEF Checked, PendingOf
  <1>7. QED
    BY <1>3, <1>5, <1>6 DEF QuotaInv

(* quotasvc and the create lock: however many create, clone, resize and    *)
(* delete requests of a user run at once, and whenever the quota is        *)
(* changed, what the user's servers add up to never exceeds the largest    *)
(* quota the user has had, for any users, servers, sizes and requests,     *)
(* unless a resize overlapped another request of the user.                 *)
THEOREM QuotasHold == Spec => []QuotaHolds
  <1>1. Init => ProvIInv /\ QuotaInv
    BY InitProvIInv, InitQuota
  <1>2. ProvIInv /\ QuotaInv /\ [Next]_vars => QuotaInv'
    <2> SUFFICES ASSUME ProvIInv, QuotaInv, [Next]_vars PROVE QuotaInv'
      OBVIOUS
    <2>1. ProvTypeOK /\ ProvTypeOK'
      BY NextTypes DEF ProvIInv
    <2>2. CeilingsHold' /\ LocksHold' /\ ResizedOwned'
      BY <2>1, CeilingStep, LockStep, ResizedStep DEF QuotaInv
    <2>3. QED
      BY <2>1, <2>2, CheckedStep DEF QuotaInv
  <1>3. QuotaInv => QuotaHolds
    BY DEF QuotaInv, QuotaHolds, Checked, Metered
  <1>4. QED
    BY <1>1, <1>2, <1>3, ProvInvariant, PTL DEF Spec
=============================================================================
