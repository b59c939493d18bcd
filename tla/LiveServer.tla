------------------------------ MODULE LiveServer -------------------------------
(***************************************************************************)
(* The live console of a server's page: the WebSocket of its console topic *)
(* (web useTopic.ts), the bounded list of lines the page keeps             *)
(* (ServerDetailPage.tsx), and the terminal that shows them while the      *)
(* Console tab is open (Console.tsx).  Lines are numbered as the server    *)
(* prints them; one printed while no socket is open never reaches the page.*)
(***************************************************************************)
EXTENDS Integers, Sequences, SequencesExt

CONSTANTS
  MaxConsoleLines, \* MAX_CONSOLE_LINES
  MaxPrinted       \* bound: lines the server prints

ASSUME LiveServerAssumption == MaxConsoleLines \in Nat \ {0} /\ MaxPrinted \in Nat

NoTerminal == <<0>>   \* no line has number 0

VARIABLES
  stream,   \* the topic's effect: "off", "connecting", "open" or "waiting"
  backoff,  \* seconds until the next attempt
  expired,  \* has the access token in the store expired?
  printed,  \* lines the server has printed
  lines,    \* the page's state, all queued updates applied
  terminal, \* what was written to the terminal, or NoTerminal
  written,  \* writtenCountRef
  dirty     \* has the page queued lines it has not rendered yet?

socketVars == <<stream, backoff>>
consoleVars == <<lines, terminal, written, dirty>>
liveServerVars == <<socketVars, expired, printed, consoleVars>>

TerminalOpen == terminal # NoTerminal

-----------------------------------------------------------------------------
(* useTopic.                                                               *)

\* It gives up once the wait has reached its cap.
ConnectUncapped ==
  /\ stream = "waiting" /\ backoff < 15
  /\ stream' = "connecting"
  /\ UNCHANGED <<backoff, expired, printed, consoleVars>>

Connect ==
  /\ stream = "waiting"
  /\ stream' = "connecting"
  /\ UNCHANGED <<backoff, expired, printed, consoleVars>>

\* The panel accepts the token: the next drop starts from a second again.
Opened ==
  /\ stream = "connecting" /\ ~expired
  /\ stream' = "open"
  /\ backoff' = 1
  /\ UNCHANGED <<expired, printed, consoleVars>>

\* onclose, unless the page itself closed the socket: refused or dropped.
Dropped ==
  /\ stream \in {"connecting", "open"}
  /\ stream' = "waiting"
  /\ backoff' = IF backoff * 2 > 15 THEN 15 ELSE backoff * 2
  /\ UNCHANGED <<expired, printed, consoleVars>>

\* A token lives for minutes, the longest wait takes 15 s: one that is replaced
\* lasts through the next attempts, so only these two states let it expire.
TokenExpires ==
  /\ ~expired /\ expired' = TRUE
  /\ stream \in {"open", "off"}
  /\ UNCHANGED <<socketVars, printed, consoleVars>>

\* Some other request is refused with 401 and refreshes the pair; the socket
\* has no refresh of its own, but reads the store at every attempt.
TokenRefreshed ==
  /\ expired /\ expired' = FALSE
  /\ UNCHANGED <<socketVars, printed, consoleVars>>

-----------------------------------------------------------------------------
(* The page and its terminal.                                              *)

\* The server prints a line; onMessage queues the state update.
Printed ==
  /\ printed < MaxPrinted
  /\ printed' = printed + 1
  /\ lines' = LET next == Append(lines, printed') IN
       IF stream # "open" THEN lines
       ELSE IF Len(next) > MaxConsoleLines
            THEN SubSeq(next, Len(next) - MaxConsoleLines + 1, Len(next)) ELSE next
  /\ dirty' = (dirty \/ stream = "open")
  /\ UNCHANGED <<socketVars, expired, terminal, written>>

\* The effect forgets how far it had come: an update writes all lines again.
RenderAll ==
  /\ TerminalOpen /\ dirty
  /\ dirty' = FALSE
  /\ terminal' = terminal \o lines
  /\ written' = Len(lines)
  /\ UNCHANGED <<socketVars, expired, printed, lines>>

\* The page renders the updates queued since the last time (one or several),
\* and Console's effect writes what it takes to be new.
Render ==
  /\ TerminalOpen /\ dirty
  /\ dirty' = FALSE
  /\ terminal' = terminal \o SubSeq(lines, written + 1, Len(lines))
  /\ written' = Len(lines)
  /\ UNCHANGED <<socketVars, expired, printed, lines>>

\* "Clear": a click is rendered at once; the terminal keeps what it shows.
Clear ==
  /\ TerminalOpen
  /\ lines' = <<>>
  /\ written' = 0 /\ dirty' = FALSE
  /\ UNCHANGED <<socketVars, expired, printed, terminal>>

\* Another tab of the page disposes of the terminal, the lines stay; back on
\* the Console tab a new one is filled with them.
LeaveConsole ==
  /\ TerminalOpen
  /\ terminal' = NoTerminal /\ dirty' = FALSE
  /\ UNCHANGED <<socketVars, expired, printed, lines, written>>

OpenConsole ==
  /\ ~TerminalOpen /\ stream # "off"
  /\ terminal' = lines
  /\ written' = Len(lines) /\ dirty' = FALSE
  /\ UNCHANGED <<socketVars, expired, printed, lines>>

\* The page is opened (the Console tab first), or left: the cleanup closes the
\* socket and clears the timer, and the lines go with the page.
OpenPage ==
  /\ stream = "off"
  /\ stream' = "connecting" /\ backoff' = 1
  /\ lines' = <<>> /\ terminal' = <<>> /\ written' = 0 /\ dirty' = FALSE
  /\ UNCHANGED <<expired, printed>>

LeavePage ==
  /\ stream # "off"
  /\ stream' = "off"
  /\ lines' = <<>> /\ terminal' = NoTerminal /\ written' = 0 /\ dirty' = FALSE
  /\ UNCHANGED <<backoff, expired, printed>>

LiveServerInit ==
  /\ stream = "off" /\ backoff = 1
  /\ expired = FALSE
  /\ printed = 0
  /\ lines = <<>> /\ terminal = NoTerminal /\ written = 0 /\ dirty = FALSE

LiveServerNext ==
  \/ Connect \/ Opened \/ Dropped \/ TokenExpires \/ TokenRefreshed
  \/ Printed \/ Render \/ Clear \/ LeaveConsole \/ OpenConsole
  \/ OpenPage \/ LeavePage

LiveServerFairness ==
  /\ WF_liveServerVars(Connect) /\ SF_liveServerVars(Opened)
  /\ WF_liveServerVars(TokenRefreshed)

LiveServerSpec == LiveServerInit /\ [][LiveServerNext]_liveServerVars /\ LiveServerFairness

-----------------------------------------------------------------------------
(* Console.tsx 80-86: what the terminal shows is in the order printed and  *)
(* shows no line twice, across the bounded list, batches of updates,       *)
(* "Clear", reconnects and changes of tab.                                 *)
ConsoleInOrder ==
  TerminalOpen =>
    \A i, j \in DOMAIN terminal : i < j => terminal[i] < terminal[j]

(* ServerDetailPage.tsx:81-82, CHANGELOG.md:39: the bounded scrollback     *)
(* keeps the console responsive - after a render, the newest line the page *)
(* has received is the newest one on the terminal.                         *)
ConsoleKeepsUp ==
  TerminalOpen /\ ~dirty /\ lines # <<>> =>
    terminal # <<>> /\ Last(terminal) = Last(lines)

(* useTopic.ts 23-25: a dropped connection is set up again for as long as  *)
(* the page stays open, however often attempts fail, if tokens do not      *)
(* expire for good and an attempt succeeds now and then.                   *)
StreamResumes == stream = "waiting" ~> stream \in {"open", "off"}
=============================================================================
