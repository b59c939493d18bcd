---------------------------- MODULE AfkSession -----------------------------
(***************************************************************************)
(* AFK earning of one user: coinsvc.Heartbeat over the afk_state row.      *)
(*                                                                         *)
(* A heartbeat reads the clock, then reads the row and the settings and    *)
(* decides, then writes the row, then credits the ledger: four steps, and  *)
(* nothing keeps two heartbeats of one user apart, of two tabs or of one   *)
(* that sends again before it was answered.  The instance chooses how long *)
(* a heartbeat may take (Latency).                                         *)
(***************************************************************************)
EXTENDS Integers, FiniteSets

CONSTANTS
  Tabs,           \* browser tabs (session ids)
  Beats,          \* request goroutines
  None,           \* no row, no tab
  DefaultWindow,  \* the built-in [min, max] interval between heartbeats
  Windows,        \* what the settings may say, sensible or not
  Latency,        \* bound on the ticks a heartbeat takes to be served
  MaxTime,        \* bound on the clock
  MaxDoubled      \* bound on the beats sent before the last was answered

Window == [min: Nat \ {0}, max: Nat \ {0}]

ASSUME AfkAssumption ==
  /\ DefaultWindow \in Window /\ DefaultWindow.min < DefaultWindow.max
  /\ Windows \subseteq Window
  /\ MaxTime \in Nat /\ MaxDoubled \in Nat /\ Latency \in Nat
  /\ IsFiniteSet(Beats)
  /\ None \notin Tabs \cup [last : Nat, tab : Tabs, started : Nat]

VARIABLES
  row,      \* afk_state: [last, tab, started], or None
  window,   \* the interval settings
  beat,     \* per goroutine: step and locals
  now,      \* the clock
  credits,  \* number of afk_accrual rows in the ledger
  doubled   \* history: beats sent before the tab's previous one was answered

vars == <<row, window, beat, now, credits, doubled>>

Idle == [pc |-> "idle", tab |-> None, at |-> 0, started |-> 0, earned |-> FALSE]

\* A window that can never pay falls back to the built-in one.
EffectiveWindow(w) == IF w.min >= w.max THEN DefaultWindow ELSE w

Begin(b, t) ==
  /\ beat[b] = Idle
  /\ beat' = [beat EXCEPT ![b] = [Idle EXCEPT !.pc = "get", !.tab = t, !.at = now]]
  /\ IF \E other \in Beats : beat[other].tab = t
     THEN doubled < MaxDoubled /\ doubled' = doubled + 1
     ELSE UNCHANGED doubled
  /\ UNCHANGED <<row, window, now, credits>>

Elapsed(b) == beat[b].at - row.last

Live(b) == row # None /\ Elapsed(b) <= EffectiveWindow(window).max

EarnsAnyTab(b) == row # None /\ Elapsed(b) >= 0

\* The beat pays when it continues the live session and is not too early.
Earns(b) ==
  /\ Live(b)
  /\ row.tab = beat[b].tab
  /\ Elapsed(b) >= EffectiveWindow(window).min

\* AFK.Get, the settings, and the decision; another tab's live session
\* refuses the beat.
Read(b) ==
  /\ beat[b].pc = "get"
  /\ IF Live(b) /\ row.tab # beat[b].tab
     THEN beat' = [beat EXCEPT ![b] = Idle]
     ELSE beat' = [beat EXCEPT
            ![b].pc = "set",
            ![b].started = IF Live(b) THEN row.started ELSE beat[b].at,
            ![b].earned = Earns(b)]
  /\ UNCHANGED <<row, window, now, credits, doubled>>

\* AFK.Set: the row takes the time the beat began at.
Write(b) ==
  /\ beat[b].pc = "set"
  /\ row' = [last |-> beat[b].at, tab |-> beat[b].tab, started |-> beat[b].started]
  /\ beat' = IF beat[b].earned
             THEN [beat EXCEPT ![b].pc = "pay"]
             ELSE [beat EXCEPT ![b] = Idle]
  /\ UNCHANGED <<window, now, credits, doubled>>

\* Ledger.AddEntry
Pay(b) ==
  /\ beat[b].pc = "pay"
  /\ credits' = credits + 1
  /\ beat' = [beat EXCEPT ![b] = Idle]
  /\ UNCHANGED <<row, window, now, doubled>>

\* A database call of the heartbeat fails, or the panel restarts.
Fail(b) ==
  /\ beat[b] # Idle
  /\ beat' = [beat EXCEPT ![b] = Idle]
  /\ UNCHANGED <<row, window, now, credits, doubled>>

Configure ==
  /\ window' \in Windows
  /\ UNCHANGED <<row, beat, now, credits, doubled>>

Tick ==
  /\ now < MaxTime
  /\ \A b \in Beats : beat[b] = Idle \/ now < beat[b].at + Latency
  /\ now' = now + 1
  /\ UNCHANGED <<row, window, beat, credits, doubled>>

Init ==
  /\ row = None
  /\ window = DefaultWindow
  /\ beat = [b \in Beats |-> Idle]
  /\ now = 0
  /\ credits = 0
  /\ doubled = 0

Next ==
  \/ \E b \in Beats : \/ \E t \in Tabs : Begin(b, t)
                      \/ Read(b) \/ Write(b) \/ Pay(b) \/ Fail(b)
  \/ Configure
  \/ Tick

Spec == Init /\ [][Next]_vars

-----------------------------------------------------------------------------
(* Properties.                                                             *)

ShortestInterval ==
  CHOOSE m \in {EffectiveWindow(w).min : w \in Windows \cup {DefaultWindow}} :
    \A w \in Windows \cup {DefaultWindow} : m <= EffectiveWindow(w).min

\* A heartbeat is served in less than half the shortest interval.
Prompt == 2 * Latency < ShortestInterval

(* coinsvc.Heartbeat: a user never earns faster than one credit per        *)
(* shortest interval, whatever the number of tabs, the interleaving of the *)
(* steps of their heartbeats, failures and changes of the settings, as     *)
(* long as a heartbeat is served in less than half that interval; each     *)
(* beat a tab sends before its last one was answered can add one credit.   *)
EarnRate == (credits - doubled) * ShortestInterval <= now
=============================================================================
