----------------------------- MODULE ReinstallPage -----------------------------
(***************************************************************************)
(* The reinstall screen of one server (web ReinstallPage.tsx) against the  *)
(* panel's side of a reinstall: the handler that marks the row and the     *)
(* goroutine that does the work.  The screen sees the status only through  *)
(* its query, which it shares with the server's page: what is cached when  *)
(* the screen opens is shown at once, and is fetched again every two       *)
(* seconds for as long as it says "installing".  Left out: other writers   *)
(* of the status (ServerLifecycle has them), and a row or an egg that is   *)
(* deleted, or a database that fails, under a reinstall.                   *)
(***************************************************************************)
EXTENDS Integers

CONSTANTS
  Eggs,         \* software a server may run
  MaxReinstalls \* bound: reinstalls ever asked for

Statuses == {"offline", "running", "errored", "installing"}
Results == {"running", "errored"} \* what the screen takes for an end
Same == ""                        \* no egg in the request: keep the one it has

VARIABLES
  actual,   \* the server's row: status and egg
  work,     \* the panel's part of each reinstall, 0 being under way at the start
  view,     \* the query's data: status and egg
  fetch,    \* the request of the query: none, sent, or the answer on its way
  started,  \* has a reinstall begun, as far as the screen knows?
  request,  \* the mutation: "none", "sent", "accepted" or "failed"
  eggId,    \* the egg selected
  asked     \* reinstalls asked for so far: the number of the latest

screenSide == <<view, fetch, started, eggId, asked>>
reinstallVars == <<actual, work, request, screenSide>>

Numbers == 0..MaxReinstalls
Idle == [pc |-> "idle", egg |-> Same]
NoFetch == [pc |-> "none", got |-> [status |-> "offline", egg |-> ""]]
ShownInstalling == view.status = "installing"

\* A reinstall goes from "asked" (the request is on its way) to "handed" (the
\* goroutine is started) to the status it is to end in.
Ends == {"running", "offline"}
AtWork(n) == work[n].pc \in {"handed"} \cup Ends

\* done: which of the three views the screen is in.
ShowsResult == started /\ view.status \in Results
ShowsConfirm == ~started

\* It polls only while the button is still offered.
PollUnstarted ==
  /\ ShownInstalling /\ ~started /\ fetch = NoFetch
  /\ fetch' = [NoFetch EXCEPT !.pc = "sent"]
  /\ UNCHANGED <<actual, work, view, started, request, eggId, asked>>

\* The poll, every two seconds.
Poll ==
  /\ ShownInstalling /\ fetch = NoFetch
  /\ fetch' = [NoFetch EXCEPT !.pc = "sent"]
  /\ UNCHANGED <<actual, work, view, started, request, eggId, asked>>

FetchServed ==
  /\ fetch.pc = "sent"
  /\ fetch' = [pc |-> "served", got |-> actual]
  /\ UNCHANGED <<actual, work, view, started, request, eggId, asked>>

\* The data arrive; a server that is being installed already moves the screen
\* on to the progress view.
FetchArrives ==
  /\ fetch.pc = "served"
  /\ view' = fetch.got
  /\ started' = (started \/ fetch.got.status = "installing")
  /\ fetch' = NoFetch
  /\ UNCHANGED <<actual, work, request, eggId, asked>>

\* The fetch fails, its retries too; the next poll tries again.
FetchFails ==
  /\ fetch # NoFetch
  /\ fetch' = NoFetch
  /\ UNCHANGED <<actual, work, view, started, request, eggId, asked>>

SelectEgg(e) ==
  /\ ShowsConfirm /\ eggId # e
  /\ eggId' = e
  /\ UNCHANGED <<actual, work, view, fetch, started, request, asked>>

\* reinstall.mutate() from the confirm view, or "Try again" from the result.
\* The request names the egg only if it is another than the one shown.
Reinstall ==
  /\ request = "none" /\ asked < MaxReinstalls
  /\ ShowsConfirm \/ (ShowsResult /\ view.status = "errored")
  /\ started' = TRUE
  /\ request' = "sent"
  /\ asked' = asked + 1
  /\ work' = [work EXCEPT ![asked + 1] =
                [pc |-> "asked", egg |-> IF eggId = view.egg THEN Same ELSE eggId]]
  /\ UNCHANGED <<actual, view, fetch, eggId>>

\* The answer to request n goes to the screen that still waits for it.
AnswerWith(n, answer) ==
  request' = IF n = asked /\ request = "sent" THEN answer ELSE request

\* The handler writes "installing", starts the goroutine and answers.
Accepted(n) ==
  /\ work[n].pc = "asked"
  /\ actual' = [actual EXCEPT !.status = "installing"]
  /\ work' = [work EXCEPT ![n].pc = "handed"]
  /\ AnswerWith(n, "accepted")
  /\ UNCHANGED screenSide

\* Refused, or lost before the panel had it.
ReinstallRefused(n) ==
  /\ work[n].pc = "asked"
  /\ work' = [work EXCEPT ![n] = Idle]
  /\ AnswerWith(n, "failed")
  /\ UNCHANGED <<actual, screenSide>>

\* The goroutine: reads whether the server runs, switches the egg, and writes
\* "installing" once more before it provisions.
Begins(n) ==
  /\ work[n].pc = "handed"
  /\ work' = [work EXCEPT ![n].pc =
                IF actual.status = "running" THEN "running" ELSE "offline"]
  /\ actual' = [status |-> "installing",
                egg |-> IF work[n].egg = Same THEN actual.egg ELSE work[n].egg]
  /\ UNCHANGED <<request, screenSide>>

\* Provisioning ends, in the status chosen when it began or in an error.
Provisioned(n) ==
  /\ work[n].pc \in Ends
  /\ \E status \in {work[n].pc, "errored"} : actual' = [actual EXCEPT !.status = status]
  /\ work' = [work EXCEPT ![n] = Idle]
  /\ UNCHANGED <<request, screenSide>>

\* The panel restarts: its goroutines and the requests on their way are gone;
\* nobody writes the row they leave at "installing" again.
PanelRestarts ==
  /\ \E n \in Numbers : work[n] # Idle
  /\ work' = [n \in Numbers |-> Idle]
  /\ request' = IF request = "sent" THEN "failed" ELSE request
  /\ UNCHANGED <<actual, screenSide>>

\* The answer: nothing to do, or back to the confirm view with the error (and
\* on to the progress view if the server is being installed anyway).  An
\* acceptance that is lost on the way is an error to the screen.
Answered ==
  /\ request \in {"accepted", "failed"}
  /\ \/ request = "accepted" /\ UNCHANGED started
     \/ started' = ShownInstalling
  /\ request' = "none"
  /\ UNCHANGED <<actual, work, view, fetch, eggId, asked>>

\* The user leaves and comes back, whatever was asked for: the cached data are
\* shown, and fetched again when they are older than the stale time.
Reopen ==
  /\ started' = ShownInstalling
  /\ eggId' = view.egg
  /\ request' = "none"
  /\ \/ UNCHANGED fetch
     \/ fetch = NoFetch /\ fetch' = [NoFetch EXCEPT !.pc = "sent"]
  /\ UNCHANGED <<actual, work, view, asked>>

\* A row at "installing" is a first installation, which ends running, or a
\* reinstall asked for elsewhere.
ReinstallPageInit ==
  /\ \E s \in Statuses, e \in Eggs, end \in Ends :
       /\ actual = [status |-> s, egg |-> e]
       /\ view = actual /\ eggId = e
       /\ started = (s = "installing")
       /\ work = [n \in Numbers |->
                    IF n = 0 /\ started THEN [Idle EXCEPT !.pc = end] ELSE Idle]
  /\ fetch = NoFetch
  /\ request = "none"
  /\ asked = 0

ReinstallPageNext ==
  \/ Poll \/ FetchServed \/ FetchArrives \/ FetchFails
  \/ \E e \in Eggs : SelectEgg(e)
  \/ Reinstall \/ Answered \/ Reopen \/ PanelRestarts
  \/ \E n \in Numbers :
       Accepted(n) \/ ReinstallRefused(n) \/ Begins(n) \/ Provisioned(n)

ReinstallPageSpec == ReinstallPageInit /\ [][ReinstallPageNext]_reinstallVars

ReinstallPageFairness ==
  /\ WF_reinstallVars(Poll) /\ SF_reinstallVars(FetchServed)
  /\ SF_reinstallVars(FetchArrives)
  /\ \A n \in Numbers : WF_reinstallVars(Begins(n) \/ Provisioned(n))

ReinstallPageFairSpec == ReinstallPageSpec /\ ReinstallPageFairness

-----------------------------------------------------------------------------
(* A restart of the panel left the server at "installing".                 *)
Abandoned == actual.status = "installing" /\ \A n \in Numbers : ~AtWork(n)

(* ReinstallPage.tsx:18, the poll: a screen that says "installing" does    *)
(* not say so for ever, whatever the user does, however many reinstalls    *)
(* overlap and however many fetches fail, as long as one arrives now and   *)
(* then and no restart left the server at it.                              *)
InstallingShownEnds == ShownInstalling ~> ~ShownInstalling \/ Abandoned

ShowsEnd ==
  ShowsResult /\ view.status = actual.status /\ \A n \in Numbers : ~AtWork(n)

(* CHANGELOG.md:280, ReinstallPage.tsx:80: the screen tracks a reinstall   *)
(* the panel is at through to "complete" or "failed", as the server's row  *)
(* has it, unless the user leaves, the screen is put back to its button, or*)
(* a restart left the server at "installing".                              *)
TrackedToItsEnd ==
  started /\ (\E n \in Numbers : AtWork(n)) ~> ShowsEnd \/ ~started \/ Abandoned
=============================================================================
