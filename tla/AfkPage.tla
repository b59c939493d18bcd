------------------------------- MODULE AfkPage ---------------------------------
(***************************************************************************)
(* The AFK screen of one user in several browser tabs (web AfkPage.tsx):   *)
(* the heartbeat loop of a mounted page, its session id, and the Retry     *)
(* button of a page the panel has refused because another session is       *)
(* earning.  AfkSession models the panel's side with its clock; here the   *)
(* panel keeps the live session until it lapses.                           *)
(*                                                                         *)
(* Assumed: a page beats every 25 s and a session lapses after 90 s, so a  *)
(* session lapses only when no beat of it is under way and its page is     *)
(* gone, has stopped beating, or has seen a beat fail.                     *)
(***************************************************************************)
EXTENDS Integers

CONSTANTS
  AfkTabs,   \* browser tabs
  MaxMounts  \* bound: session ids ever made

VARIABLES
  live,    \* the session that earns on the panel, 0 for none
  screen,  \* per tab: the page's refs and state
  sent,    \* per tab: the heartbeat under way
  mounts,  \* session ids made so far
  pushed   \* history: an earning page was blocked though its beats arrived

afkPageVars == <<live, screen, sent, mounts, pushed>>

Away == [id |-> 0, status |-> "away", loop |-> FALSE, missed |-> FALSE, reloaded |-> FALSE]
Unsent == [pc |-> "none", id |-> 0, retry |-> FALSE]

Beating(id, retry) == [pc |-> "sent", id |-> id, retry |-> retry]
MountedAt(id, reloaded) ==
  [Away EXCEPT !.id = id, !.status = "connecting", !.loop = TRUE, !.reloaded = reloaded]

\* newSessionId, once per mount and once per retry.
NewSessionId == mounts < MaxMounts /\ mounts' = mounts + 1

\* The page mounts: a fresh id, a beat at once, and the interval.
OpenAfk(t) ==
  /\ screen[t] = Away /\ sent[t] = Unsent
  /\ NewSessionId
  /\ screen' = [screen EXCEPT ![t] = MountedAt(mounts', FALSE)]
  /\ sent' = [sent EXCEPT ![t] = Beating(mounts', FALSE)]
  /\ UNCHANGED <<live, pushed>>

\* The beat carries a new id every time.
BeatAnew(t) ==
  /\ screen[t].loop /\ sent[t] = Unsent /\ NewSessionId
  /\ sent' = [sent EXCEPT ![t] = Beating(mounts', FALSE)]
  /\ UNCHANGED <<live, screen, pushed>>

\* The interval; a beat still under way is not modelled twice.
Heartbeat(t) ==
  /\ screen[t].loop /\ sent[t] = Unsent
  /\ sent' = [sent EXCEPT ![t] = Beating(screen[t].id, FALSE)]
  /\ UNCHANGED <<live, screen, mounts, pushed>>

\* The panel takes a beat of the live session, or of any when none is live.
Served(t) ==
  /\ sent[t].pc = "sent"
  /\ \/ /\ live \in {0, sent[t].id}
        /\ live' = sent[t].id
        /\ sent' = [sent EXCEPT ![t].pc = "ok"]
     \/ /\ live \notin {0, sent[t].id}
        /\ sent' = [sent EXCEPT ![t].pc = "elsewhere"]
        /\ UNCHANGED live
  /\ UNCHANGED <<screen, mounts, pushed>>

\* The request or its answer is lost, or the panel cannot serve it.
BeatFails(t) ==
  /\ sent[t].pc \in {"sent", "ok"}
  /\ sent' = [sent EXCEPT ![t].pc = "failed"]
  /\ UNCHANGED <<live, screen, mounts, pushed>>

\* What the mounted page makes of the answer to a beat of its loop.
Heard(s, answer) ==
  CASE answer = "ok" -> [s EXCEPT !.status = "earning", !.missed = FALSE]
    [] answer = "elsewhere" -> [s EXCEPT !.status = "blocked", !.loop = FALSE]
    [] answer = "failed" -> [s EXCEPT !.missed = TRUE]

BeatAnswered(t) ==
  /\ sent[t].pc \in {"ok", "elsewhere", "failed"} /\ ~sent[t].retry
  /\ screen' = IF screen[t] = Away THEN screen
               ELSE [screen EXCEPT ![t] = Heard(screen[t], sent[t].pc)]
  /\ sent' = [sent EXCEPT ![t] = Unsent]
  /\ pushed' = (pushed \/ /\ screen[t].status = "earning" /\ ~screen[t].missed
                          /\ screen'[t].status = "blocked")
  /\ UNCHANGED <<live, mounts>>

\* "Retry" on a blocked page: a new id, one beat, and when it is taken the
\* whole tab is reloaded - also when the user has left the page meanwhile.
Retry(t) ==
  /\ screen[t].status = "blocked" /\ sent[t] = Unsent
  /\ NewSessionId
  /\ screen' = [screen EXCEPT ![t].id = mounts', ![t].status = "connecting",
                              ![t].reloaded = FALSE]
  /\ sent' = [sent EXCEPT ![t] = Beating(mounts', TRUE)]
  /\ UNCHANGED <<live, pushed>>

RetryTaken(t) ==
  /\ sent[t].pc = "ok" /\ sent[t].retry
  /\ \/ /\ screen[t] # Away /\ NewSessionId
        /\ screen' = [screen EXCEPT ![t] = MountedAt(mounts', TRUE)]
        /\ sent' = [sent EXCEPT ![t] = Beating(mounts', FALSE)]
     \/ /\ screen[t] = Away
        /\ sent' = [sent EXCEPT ![t] = Unsent]
        /\ UNCHANGED <<screen, mounts>>
  /\ UNCHANGED <<live, pushed>>

RetryRefused(t) ==
  /\ sent[t].pc \in {"elsewhere", "failed"} /\ sent[t].retry
  /\ screen' = IF screen[t] = Away THEN screen
               ELSE [screen EXCEPT ![t].status = "blocked"]
  /\ sent' = [sent EXCEPT ![t] = Unsent]
  /\ UNCHANGED <<live, mounts, pushed>>

\* The user leaves the page: the interval is cleared.
LeaveAfk(t) ==
  /\ screen[t] # Away
  /\ screen' = [screen EXCEPT ![t] = Away]
  /\ UNCHANGED <<live, sent, mounts, pushed>>

Lapse ==
  /\ live # 0
  /\ \A t \in AfkTabs :
       /\ sent[t].id # live
       /\ screen[t].id = live /\ screen[t].loop => screen[t].missed
  /\ live' = 0
  /\ UNCHANGED <<screen, sent, mounts, pushed>>

AfkPageInit ==
  /\ live = 0 /\ mounts = 0 /\ pushed = FALSE
  /\ screen = [t \in AfkTabs |-> Away]
  /\ sent = [t \in AfkTabs |-> Unsent]

AfkPageNext ==
  \/ \E t \in AfkTabs :
       \/ OpenAfk(t) \/ Heartbeat(t) \/ Served(t) \/ BeatFails(t) \/ BeatAnswered(t)
       \/ Retry(t) \/ RetryTaken(t) \/ RetryRefused(t) \/ LeaveAfk(t)
  \/ Lapse

AfkPageSpec == AfkPageInit /\ [][AfkPageNext]_afkPageVars

-----------------------------------------------------------------------------
(* AfkPage.tsx 14-15, 47-73: a page that earns goes on earning while its   *)
(* beats arrive; no other tab, retry or late answer of a page left before  *)
(* blocks it.                                                              *)
NotPushedAside == ~pushed

(* AfkPage.tsx:107-108: the reload after a retry that the panel took starts*)
(* the loop again, so the page of the only tab is not blocked then.        *)
RetryRearms == \A t \in AfkTabs : screen[t].reloaded => screen[t].status # "blocked"
=============================================================================
