-------------------------- MODULE WebScreensProofs --------------------------
(* Proofs about the screens of the web client, one by one: the live        *)
(* console, the AFK screen, the favourite stars, the administrator's forms,*)
(* the file manager, and every screen over the query cache; each for any   *)
(* number of lines, tabs, clicks, requests and presses.                    *)
EXTENDS LiveServer, AfkPage, FilesTab, WebForms, FavoriteStars, WebPages,
        SequenceTheorems, TLAPS

(***************************************************************************)
(* The live console                                                        *)
(***************************************************************************)
\* Lines in the order printed, none twice, none that is not printed yet.
InOrder(s) ==
  /\ s \in Seq(Nat)
  /\ \A i \in DOMAIN s : 0 < s[i] /\ s[i] <= printed
  /\ \A i, j \in DOMAIN s : i < j => s[i] < s[j]

ConsoleTypeOK ==
  /\ printed \in Nat /\ written \in Nat
  /\ written <= Len(lines) /\ Len(lines) <= MaxConsoleLines

\* What the page takes to be new is newer than all the terminal shows.
NewIsNewer ==
  \A i \in DOMAIN lines, k \in DOMAIN terminal : written < i => terminal[k] < lines[i]

ConsoleIInv ==
  /\ ConsoleTypeOK /\ InOrder(lines)
  /\ TerminalOpen => InOrder(terminal) /\ NewIsNewer

LEMMA SeqIndex ==
  ASSUME NEW s, InOrder(s)
  PROVE  Len(s) \in Nat /\ DOMAIN s = 1 .. Len(s) /\ \A i \in 1 .. Len(s) : s[i] \in Nat
  BY LenProperties, ElementOfSeq DEF InOrder

LEMMA NoLines ==
  ASSUME printed \in Nat
  PROVE  Len(<<>>) = 0 /\ DOMAIN <<>> = {} /\ InOrder(<<>>)
  BY EmptySeq, LenProperties DEF InOrder

\* The lines kept after one more is printed: the new one last, and the oldest
\* gone when they are too many.
LEMMA LinesKept ==
  ASSUME ConsoleIInv, Printed, stream = "open"
  PROVE  \E k \in {0, 1} :
           /\ lines' \in Seq(Nat) /\ Len(lines') = Len(lines) + 1 - k
           /\ Len(lines) <= Len(lines') /\ Len(lines') <= MaxConsoleLines
           /\ \A i \in 1 .. Len(lines') :
                /\ i + k <= Len(lines) => lines'[i] = lines[i + k]
                /\ Len(lines) < i + k => lines'[i] = printed'
  <1> DEFINE next == Append(lines, printed')
  <1>1. printed' \in Nat /\ lines \in Seq(Nat) /\ Len(lines) \in Nat
    BY SeqIndex DEF Printed, ConsoleIInv, ConsoleTypeOK, InOrder
  <1>2. /\ next \in Seq(Nat) /\ Len(next) = Len(lines) + 1
        /\ \A i \in 1 .. Len(lines) : next[i] = lines[i]
        /\ next[Len(lines) + 1] = printed'
    BY <1>1, AppendProperties
  <1>3. lines' = IF Len(next) > MaxConsoleLines
                 THEN SubSeq(next, Len(next) - MaxConsoleLines + 1, Len(next)) ELSE next
    BY DEF Printed
  <1>4. MaxConsoleLines \in Nat \ {0} /\ Len(lines) <= MaxConsoleLines
    BY LiveServerAssumption DEF ConsoleIInv, ConsoleTypeOK, LiveServerAssumption
  <1> HIDE DEF next
  <1>5. CASE Len(next) > MaxConsoleLines
    <2>1. MaxConsoleLines = Len(lines) /\ Len(next) - MaxConsoleLines + 1 = 2
      BY <1>1, <1>2, <1>4, <1>5
    <2>2. lines' = SubSeq(next, 2, Len(lines) + 1)
      BY <1>2, <1>3, <1>5, <2>1
    <2>3. \A i \in 2 .. Len(lines) + 1 : next[i] \in Nat
      BY <1>1, <1>2, ElementOfSeq
    <2>4. /\ lines' \in Seq(Nat) /\ Len(lines') = Len(lines)
          /\ \A i \in 1 .. Len(lines) : lines'[i] = next[i + 1]
      <3>1. /\ 2 \in Int /\ Len(lines) + 1 \in Int
            /\ 2 <= Len(lines) + 1
        BY <1>1, <1>4, <2>1
      <3>2. /\ SubSeq(next, 2, Len(lines) + 1) \in Seq(Nat)
            /\ Len(SubSeq(next, 2, Len(lines) + 1)) =
                 IF 2 <= Len(lines) + 1 THEN Len(lines) + 1 - 2 + 1 ELSE 0
            /\ \A i \in 1 .. Len(lines) + 1 - 2 + 1 :
                 SubSeq(next, 2, Len(lines) + 1)[i] = next[2 + i - 1]
        BY <2>3, <3>1, SubSeqProperties
      <3>3. QED
        BY <1>1, <2>2, <3>1, <3>2
    <2>5. \A i \in 1 .. Len(lines) :
            /\ i + 1 <= Len(lines) => lines'[i] = lines[i + 1]
            /\ Len(lines) < i + 1 => lines'[i] = printed'
      <3> SUFFICES ASSUME NEW i \in 1 .. Len(lines)
                   PROVE  /\ i + 1 <= Len(lines) => lines'[i] = lines[i + 1]
                          /\ Len(lines) < i + 1 => lines'[i] = printed'
        OBVIOUS
      <3>1. i \in Nat /\ lines'[i] = next[i + 1]
        BY <2>4
      <3>2. i + 1 <= Len(lines) => i + 1 \in 1 .. Len(lines)
        BY <1>1, <3>1
      <3>3. Len(lines) < i + 1 => i + 1 = Len(lines) + 1
        BY <1>1, <3>1
      <3>4. QED
        BY <1>2, <3>1, <3>2, <3>3
    <2>6. QED
      BY <1>1, <1>4, <2>4, <2>5
  <1>6. CASE ~(Len(next) > MaxConsoleLines)
    <2>1. lines' = next /\ Len(lines') <= MaxConsoleLines
      BY <1>1, <1>2, <1>3, <1>4, <1>6
    <2>2. \A i \in 1 .. Len(lines') :
            /\ i <= Len(lines) => lines'[i] = lines[i]
            /\ Len(lines) < i => lines'[i] = printed'
      BY <1>1, <1>2, <2>1
    <2>3. QED
      BY <1>1, <1>2, <2>1, <2>2
  <1>7. QED
    BY <1>5, <1>6

LEMMA PrintedKeeps ==
  ASSUME ConsoleIInv, Printed
  PROVE  ConsoleIInv'
  <1>1. /\ printed' = printed + 1 /\ printed \in Nat
        /\ terminal' = terminal /\ written' = written /\ written \in Nat
    BY DEF Printed, ConsoleIInv, ConsoleTypeOK
  <1>2. Len(lines) \in Nat /\ DOMAIN lines = 1 .. Len(lines)
        /\ \A i \in 1 .. Len(lines) : lines[i] \in Nat
    BY SeqIndex DEF ConsoleIInv
  <1>3. /\ \A i \in DOMAIN lines : 0 < lines[i] /\ lines[i] <= printed
        /\ \A i, j \in DOMAIN lines : i < j => lines[i] < lines[j]
        /\ written <= Len(lines)
    BY DEF ConsoleIInv, ConsoleTypeOK, InOrder
  <1>4. TerminalOpen => InOrder(terminal)'
    <2> SUFFICES ASSUME TerminalOpen PROVE InOrder(terminal)'
      OBVIOUS
    <2>1. /\ terminal \in Seq(Nat)
          /\ \A i \in DOMAIN terminal : 0 < terminal[i] /\ terminal[i] <= printed
          /\ \A i, j \in DOMAIN terminal : i < j => terminal[i] < terminal[j]
      BY DEF ConsoleIInv, InOrder
    <2>2. \A i \in DOMAIN terminal : terminal[i] \in Nat
      BY <2>1, SeqIndex DEF ConsoleIInv
    <2>3. QED
      BY <1>1, <2>1, <2>2 DEF InOrder
  <1>5. CASE stream # "open"
    <2>1. lines' = lines
      BY <1>5 DEF Printed
    <2>2. QED
      BY <1>1, <1>2, <1>3, <1>4, <2>1
      DEF ConsoleIInv, ConsoleTypeOK, InOrder, NewIsNewer, TerminalOpen
  <1>6. CASE stream = "open"
    <2>1. PICK k \in {0, 1} :
           /\ lines' \in Seq(Nat) /\ Len(lines') = Len(lines) + 1 - k
           /\ Len(lines) <= Len(lines') /\ Len(lines') <= MaxConsoleLines
           /\ \A i \in 1 .. Len(lines') :
                /\ i + k <= Len(lines) => lines'[i] = lines[i + k]
                /\ Len(lines) < i + k => lines'[i] = printed'
      BY <1>6, LinesKept
    <2>2. DOMAIN lines' = 1 .. Len(lines') /\ Len(lines') \in Nat
      BY <2>1, LenProperties
    <2>3. \A i \in DOMAIN lines' : 0 < lines'[i] /\ lines'[i] <= printed'
      <3> SUFFICES ASSUME NEW i \in 1 .. Len(lines')
                   PROVE  0 < lines'[i] /\ lines'[i] <= printed'
        BY <2>2
      <3>1. i + k \in Nat /\ 0 < i + k
        BY <2>1
      <3>2. CASE i + k <= Len(lines)
        <4>1. lines'[i] = lines[i + k] /\ i + k \in DOMAIN lines
          BY <1>2, <2>1, <3>1, <3>2
        <4>2. lines[i + k] \in Nat /\ 0 < lines[i + k] /\ lines[i + k] <= printed
          BY <1>2, <1>3, <4>1
        <4>3. QED
          BY <1>1, <4>1, <4>2
      <3>3. CASE Len(lines) < i + k
        BY <1>1, <2>1, <3>3
      <3>4. QED
        BY <1>2, <3>1, <3>2, <3>3
    <2>4. ASSUME NEW i \in DOMAIN lines', NEW j \in DOMAIN lines', i < j
          PROVE  lines'[i] < lines'[j]
      <3> DEFINE a == i + k
                 b == j + k
      <3>1. /\ i \in 1 .. Len(lines') /\ j \in 1 .. Len(lines') /\ k \in Nat
            /\ i \in Nat /\ j \in Nat /\ 0 < i
        BY <2>2, <2>4
      <3>2. a \in Nat /\ b \in Nat /\ 0 < a /\ a < b
        BY <2>4, <3>1
      <3>3. b <= Len(lines) + 1
        BY <1>2, <2>1, <2>2, <3>1
      <3>4. /\ a <= Len(lines) => lines'[i] = lines[a]
            /\ b <= Len(lines) => lines'[j] = lines[b]
            /\ Len(lines) < b => lines'[j] = printed'
        BY <2>1, <3>1
      <3> HIDE DEF a, b
      <3>5. a \in DOMAIN lines /\ lines'[i] = lines[a]
        BY <1>2, <3>2, <3>3, <3>4
      <3>6. CASE b <= Len(lines)
        <4>1. lines'[j] = lines[b] /\ b \in DOMAIN lines
          BY <1>2, <3>2, <3>4, <3>6
        <4>2. QED
          BY <1>3, <3>2, <3>5, <4>1
      <3>7. CASE Len(lines) < b
        BY <1>1, <1>2, <1>3, <3>4, <3>5, <3>7
      <3>8. QED
        BY <1>2, <3>2, <3>6, <3>7
    <2>5. InOrder(lines)'
      BY <2>1, <2>3, <2>4 DEF InOrder
    <2>6. TerminalOpen => NewIsNewer'
      <3> SUFFICES ASSUME TerminalOpen, NEW i \in DOMAIN lines', NEW n \in DOMAIN terminal,
                          written < i
                   PROVE  terminal[n] < lines'[i]
        BY <1>1 DEF NewIsNewer
      <3>1. terminal[n] \in Nat /\ terminal[n] <= printed
        BY SeqIndex DEF ConsoleIInv, InOrder
      <3>2. CASE i + k <= Len(lines)
        <4>1. lines'[i] = lines[i + k] /\ i + k \in DOMAIN lines /\ written < i + k
          BY <1>1, <1>2, <2>1, <2>2, <3>2
        <4>2. QED
          BY <4>1 DEF ConsoleIInv, NewIsNewer
      <3>3. CASE ~(i + k <= Len(lines))
        BY <1>1, <2>1, <2>2, <3>1, <3>3
      <3>4. QED
        BY <3>2, <3>3
    <2>7. ConsoleTypeOK'
      BY <1>1, <1>2, <1>3, <2>1, <2>2 DEF ConsoleTypeOK
    <2>8. QED
      BY <1>1, <1>4, <2>5, <2>6, <2>7 DEF ConsoleIInv, TerminalOpen
  <1>7. QED
    BY <1>5, <1>6

\* Lines of the page may be written after those the terminal shows.
LEMMA Appended ==
  ASSUME ConsoleIInv, TerminalOpen
  PROVE  InOrder(terminal \o SubSeq(lines, written + 1, Len(lines)))
  <1> DEFINE new == SubSeq(lines, written + 1, Len(lines))
             all == terminal \o new
             n == Len(terminal)
             m == Len(lines) - written
  <1>1. /\ lines \in Seq(Nat) /\ terminal \in Seq(Nat) /\ written \in Nat /\ printed \in Nat
        /\ written <= Len(lines) /\ Len(lines) \in Nat /\ DOMAIN lines = 1 .. Len(lines)
        /\ n \in Nat /\ DOMAIN terminal = 1 .. n /\ m \in Nat
    BY SeqIndex DEF ConsoleIInv, ConsoleTypeOK, InOrder
  <1>2. /\ \A i \in 1 .. Len(lines) : lines[i] \in Nat /\ 0 < lines[i] /\ lines[i] <= printed
        /\ \A i, j \in 1 .. Len(lines) : i < j => lines[i] < lines[j]
        /\ \A i \in 1 .. n : terminal[i] \in Nat /\ 0 < terminal[i] /\ terminal[i] <= printed
        /\ \A i, j \in 1 .. n : i < j => terminal[i] < terminal[j]
        /\ \A i \in 1 .. Len(lines), k \in 1 .. n : written < i => terminal[k] < lines[i]
    BY <1>1, ElementOfSeq DEF ConsoleIInv, InOrder, NewIsNewer
  <1>3. new \in Seq(Nat) /\ Len(new) = m /\ \A i \in 1 .. m : new[i] = lines[written + i]
    <2>1. written + 1 \in Int /\ \A i \in written + 1 .. Len(lines) : lines[i] \in Nat
      BY <1>1, <1>2
    <2>2. /\ new \in Seq(Nat)
          /\ Len(new) = IF written + 1 <= Len(lines) THEN Len(lines) - (written + 1) + 1 ELSE 0
          /\ \A i \in 1 .. Len(lines) - (written + 1) + 1 : new[i] = lines[(written + 1) + i - 1]
      BY <1>1, <2>1, SubSeqProperties
    <2> HIDE DEF new
    <2>3. Len(new) = m
      <3>1. CASE written + 1 <= Len(lines)
        BY <1>1, <2>2, <3>1
      <3>2. CASE written = Len(lines)
        BY <1>1, <2>2, <3>2
      <3>3. written + 1 <= Len(lines) \/ written = Len(lines)
        <4>1. PICK k \in Nat, l \in Nat : k = written /\ l = Len(lines) /\ k <= l
          BY <1>1
        <4>2. k + 1 <= l \/ k = l
          BY <4>1
        <4>3. QED
          BY <4>1, <4>2
      <3>4. QED
        BY <3>1, <3>2, <3>3
    <2>4. ASSUME NEW i \in 1 .. m PROVE new[i] = lines[written + i]
      <3>1. i \in Int /\ i \in 1 .. Len(lines) - (written + 1) + 1
        BY <1>1
      <3>2. (written + 1) + i - 1 = written + i
        BY <1>1, <3>1
      <3>3. QED
        BY <2>2, <3>1, <3>2
    <2>5. QED
      BY <2>2, <2>3, <2>4
  <1> HIDE DEF new
  <1>4. /\ all \in Seq(Nat) /\ DOMAIN all = 1 .. n + m
        /\ \A i \in 1 .. n + m : all[i] = IF i <= n THEN terminal[i] ELSE new[i - n]
    <2>1. /\ all \in Seq(Nat) /\ Len(all) = n + Len(new)
          /\ \A i \in 1 .. n + Len(new) : all[i] = IF i <= n THEN terminal[i] ELSE new[i - n]
      <3>1. terminal \in Seq(Nat) /\ new \in Seq(Nat)
        BY <1>1, <1>3
      <3>2. QED
        BY <3>1, ConcatProperties
    <2> HIDE DEF all, n, m
    <2>2. QED
      BY <1>3, <2>1, LenProperties
  <1> HIDE DEF all, n, m
  <1>5. ASSUME NEW i \in 1 .. n + m
        PROVE  /\ i <= n => i \in 1 .. n /\ all[i] = terminal[i]
               /\ ~(i <= n) => i - n \in 1 .. m /\ all[i] = lines[written + (i - n)]
    <2>1. i \in Nat /\ n \in Nat /\ m \in Nat
      BY <1>1
    <2>2. CASE i <= n
      BY <1>4, <2>1, <2>2
    <2>3. CASE ~(i <= n)
      <3>1. i - n \in 1 .. m
        BY <2>1, <2>3
      <3>2. all[i] = new[i - n]
        BY <1>4, <2>3
      <3>3. QED
        BY <1>3, <2>3, <3>1, <3>2
    <2>4. QED
      BY <2>2, <2>3
  <1>6. \A i \in 1 .. m : written + i \in 1 .. Len(lines) /\ written < written + i
    BY <1>1 DEF m
  <1>7. ASSUME NEW i \in 1 .. n + m PROVE 0 < all[i] /\ all[i] <= printed
    BY <1>2, <1>5, <1>6
  <1>8. ASSUME NEW i \in 1 .. n + m, NEW j \in 1 .. n + m, i < j PROVE all[i] < all[j]
    <2>1. CASE j <= n
      BY <1>1, <1>2, <1>5, <1>8, <2>1
    <2>2. CASE i <= n /\ ~(j <= n)
      BY <1>2, <1>5, <1>6, <2>2
    <2>3. CASE ~(i <= n)
      <3>1. ~(j <= n) /\ written + (i - n) < written + (j - n)
        BY <1>1, <1>8, <2>3
      <3>2. QED
        BY <1>2, <1>5, <1>6, <2>3, <3>1
    <2>4. QED
      BY <1>1, <2>1, <2>2, <2>3
  <1>9. InOrder(all)
    BY <1>4, <1>7, <1>8 DEF InOrder
  <1>10. QED
    BY <1>9 DEF all, new

LEMMA ConsoleStep == ConsoleIInv /\ [LiveServerNext]_liveServerVars => ConsoleIInv'
  <1> SUFFICES ASSUME ConsoleIInv, [LiveServerNext]_liveServerVars PROVE ConsoleIInv'
    OBVIOUS
  <1> USE DEF ConsoleTypeOK, InOrder
  <1>1. /\ printed \in Nat /\ Len(<<>>) = 0 /\ DOMAIN <<>> = {} /\ <<>> \in Seq(Nat)
        /\ MaxConsoleLines \in Nat /\ Len(lines) \in Nat /\ DOMAIN lines = 1 .. Len(lines)
    BY NoLines, SeqIndex, LiveServerAssumption DEF ConsoleIInv, LiveServerAssumption
  <1>2. CASE Connect \/ Opened \/ Dropped \/ TokenExpires \/ TokenRefreshed \/ UNCHANGED liveServerVars
    <2>1. UNCHANGED <<printed, consoleVars>>
      BY <1>2 DEF Connect, Opened, Dropped, TokenExpires, TokenRefreshed, liveServerVars
    <2>2. QED
      BY <2>1 DEF consoleVars, ConsoleIInv, NewIsNewer, TerminalOpen
  <1>3. CASE Printed
    BY <1>3, PrintedKeeps
  <1>4. CASE Render
    <2>1. /\ TerminalOpen /\ printed' = printed /\ lines' = lines /\ written' = Len(lines)
          /\ terminal' = terminal \o SubSeq(lines, written + 1, Len(lines))
      BY <1>4 DEF Render
    <2>2. InOrder(terminal \o SubSeq(lines, written + 1, Len(lines)))
      BY <2>1, Appended
    <2>3. InOrder(terminal)'
      BY <2>1, <2>2
    <2>4. NewIsNewer'
      BY <1>1, <2>1 DEF NewIsNewer
    <2>5. InOrder(lines)' /\ ConsoleTypeOK'
      BY <1>1, <2>1 DEF ConsoleIInv
    <2>6. QED
      BY <2>3, <2>4, <2>5 DEF ConsoleIInv
  <1>5. CASE Clear
    BY <1>1, <1>5 DEF Clear, ConsoleIInv, NewIsNewer, TerminalOpen
  <1>6. CASE LeaveConsole
    BY <1>1, <1>6 DEF LeaveConsole, ConsoleIInv, NewIsNewer, TerminalOpen
  <1>7. CASE OpenConsole
    BY <1>1, <1>7 DEF OpenConsole, ConsoleIInv, NewIsNewer, TerminalOpen
  <1>8. CASE OpenPage \/ LeavePage
    <2>1. /\ printed' = printed /\ lines' = <<>> /\ written' = 0
          /\ terminal' = <<>> \/ terminal' = NoTerminal
      BY <1>8 DEF OpenPage, LeavePage
    <2>2. ConsoleTypeOK' /\ InOrder(lines)' /\ NewIsNewer'
      BY <1>1, <2>1 DEF ConsoleIInv, NewIsNewer
    <2>3. CASE terminal' = <<>>
      BY <1>1, <2>1, <2>2, <2>3 DEF ConsoleIInv
    <2>4. CASE terminal' = NoTerminal
      BY <2>2, <2>4 DEF ConsoleIInv, TerminalOpen
    <2>5. QED
      BY <2>1, <2>3, <2>4
  <1>9. QED
    BY <1>2, <1>3, <1>4, <1>5, <1>6, <1>7, <1>8 DEF LiveServerNext

(* Console.tsx, ServerDetailPage.tsx: what the terminal shows is in the    *)
(* order printed and no line is shown twice, for any bound on the lines    *)
(* the page keeps and any number of lines printed.                         *)
THEOREM ConsoleOrdered == LiveServerSpec => []ConsoleInOrder
  <1>1. LiveServerInit => ConsoleIInv
    <2> SUFFICES ASSUME LiveServerInit PROVE ConsoleIInv
      OBVIOUS
    <2>1. printed = 0 /\ written = 0 /\ lines = <<>> /\ ~TerminalOpen
      BY DEF LiveServerInit, TerminalOpen
    <2>2. QED
      BY <2>1, NoLines, LiveServerAssumption
      DEF ConsoleIInv, ConsoleTypeOK, LiveServerAssumption
  <1>2. ConsoleIInv => ConsoleInOrder
    BY DEF ConsoleIInv, InOrder, ConsoleInOrder
  <1>3. QED
    BY <1>1, <1>2, ConsoleStep, PTL DEF LiveServerSpec

(***************************************************************************)
(* The AFK screen                                                          *)
(***************************************************************************)
ScreenState == [id : Nat, status : {"away", "connecting", "earning", "blocked"},
                loop : BOOLEAN, missed : BOOLEAN, reloaded : BOOLEAN]
SentState == [pc : {"none", "sent", "ok", "elsewhere", "failed"}, id : Nat, retry : BOOLEAN]

AfkPageTypeOK ==
  /\ live \in Nat /\ mounts \in Nat
  /\ screen \in [AfkTabs -> ScreenState]
  /\ sent \in [AfkTabs -> SentState]

\* An id is made once, and belongs to one tab.
IdsApart ==
  /\ \A t \in AfkTabs : screen[t].id <= mounts /\ sent[t].id <= mounts
  /\ \A t, u \in AfkTabs : t # u =>
       /\ screen[t].id # 0 => screen[t].id # screen[u].id /\ screen[t].id # sent[u].id
       /\ sent[t].id # 0 => sent[t].id # sent[u].id

\* A mounted page and its beat agree on the id, and an earning page holds the
\* live session.
TabInOrder(s, b, l) ==
  /\ s # Away => s.id # 0
  /\ b # Unsent => b.id # 0
  /\ s # Away /\ b # Unsent => b.id = s.id /\ (b.retry \/ s.loop)
  /\ b.pc = "ok" => l = b.id
  /\ s.status = "earning" /\ ~s.missed => s.loop /\ l = s.id /\ b.pc # "elsewhere"

PageIInv ==
  /\ AfkPageTypeOK /\ IdsApart
  /\ \A t \in AfkTabs : TabInOrder(screen[t], sent[t], live)
  /\ ~pushed

LEMMA AwayFits ==
  /\ Away \in ScreenState /\ Away.id = 0 /\ Away.status = "away" /\ ~Away.loop
  /\ Unsent \in SentState /\ Unsent.id = 0 /\ Unsent.pc = "none"
  BY DEF Away, Unsent, ScreenState, SentState

LEMMA BeatFits ==
  ASSUME NEW n \in Nat \ {0}, NEW r \in BOOLEAN
  PROVE  /\ Beating(n, r) \in SentState /\ Beating(n, r) # Unsent
         /\ Beating(n, r).id = n /\ Beating(n, r).pc = "sent" /\ Beating(n, r).retry = r
  BY DEF Unsent, SentState, Beating

LEMMA MountFits ==
  ASSUME NEW n \in Nat \ {0}, NEW r \in BOOLEAN
  PROVE  /\ MountedAt(n, r) \in ScreenState
         /\ MountedAt(n, r).id = n /\ MountedAt(n, r).loop
         /\ MountedAt(n, r).status = "connecting"
  BY DEF Away, ScreenState, MountedAt

\* One tab's page, its beat and the live session move; the ids are kept, given
\* up, or new.
LEMMA TabMoves ==
  ASSUME PageIInv, AfkPageTypeOK', NEW t \in AfkTabs,
         \A u \in AfkTabs \ {t} : screen'[u] = screen[u] /\ sent'[u] = sent[u],
         mounts <= mounts', ~pushed',
         screen'[t].id \in {0, screen[t].id} \/ (screen'[t].id = mounts' /\ mounts < mounts'),
         \/ sent'[t].id \in {0, screen[t].id, sent[t].id}
         \/ sent'[t].id = mounts' /\ mounts < mounts',
         TabInOrder(screen'[t], sent'[t], live'),
         \A u \in AfkTabs \ {t} : TabInOrder(screen[u], sent[u], live')
  PROVE  PageIInv'
  <1>1. \A u \in AfkTabs : screen[u].id \in Nat /\ sent[u].id \in Nat
    BY DEF PageIInv, AfkPageTypeOK, ScreenState, SentState
  <1>2. \A u \in AfkTabs : screen'[u].id <= mounts' /\ sent'[u].id <= mounts'
    BY <1>1 DEF PageIInv, AfkPageTypeOK, IdsApart
  <1>3. ASSUME NEW u \in AfkTabs \ {t}
        PROVE  /\ screen'[t].id # 0 => screen'[t].id # screen[u].id /\ screen'[t].id # sent[u].id
               /\ sent'[t].id # 0 => sent'[t].id # screen[u].id /\ sent'[t].id # sent[u].id
    <2>1. /\ screen[u].id <= mounts /\ sent[u].id <= mounts
          /\ screen[t].id # 0 => screen[t].id # screen[u].id /\ screen[t].id # sent[u].id
          /\ sent[t].id # 0 => sent[t].id # screen[u].id /\ sent[t].id # sent[u].id
      BY DEF PageIInv, IdsApart
    <2>2. QED
      BY <1>1, <2>1 DEF PageIInv, AfkPageTypeOK
  <1>4. IdsApart'
    BY <1>2, <1>3 DEF PageIInv, IdsApart
  <1>5. \A u \in AfkTabs : TabInOrder(screen'[u], sent'[u], live')
    OBVIOUS
  <1>6. QED
    BY <1>4, <1>5 DEF PageIInv

LEMMA TabSet ==
  ASSUME AfkPageTypeOK, NEW t \in AfkTabs, NEW s \in ScreenState, NEW b \in SentState,
         screen' = [screen EXCEPT ![t] = s], sent' = [sent EXCEPT ![t] = b],
         live' \in Nat, mounts' \in Nat
  PROVE  /\ AfkPageTypeOK' /\ screen'[t] = s /\ sent'[t] = b
      /\ \A u \in AfkTabs \ {t} : screen'[u] = screen[u] /\ sent'[u] = sent[u]
  BY DEF AfkPageTypeOK

LEMMA SamePage ==
  ASSUME PageIInv, NEW t \in AfkTabs
  PROVE  /\ screen[t] \in ScreenState /\ sent[t] \in SentState
         /\ [screen EXCEPT ![t] = screen[t]] = screen
         /\ TabInOrder(screen[t], sent[t], live)
  BY DEF PageIInv, AfkPageTypeOK

LEMMA OpenAfkKeeps ==
  ASSUME PageIInv, NEW t \in AfkTabs, OpenAfk(t)
  PROVE  PageIInv'
  <1>1. mounts' = mounts + 1 /\ mounts \in Nat /\ live' = live /\ live \in Nat /\ ~pushed'
    BY DEF OpenAfk, NewSessionId, PageIInv, AfkPageTypeOK
  <1> DEFINE s == MountedAt(mounts', FALSE)
             b == Beating(mounts', FALSE)
  <1>2. /\ s \in ScreenState /\ s.id = mounts' /\ s.loop /\ s.status = "connecting"
        /\ b \in SentState /\ b.id = mounts' /\ b.pc = "sent"
    <2>1. mounts' \in Nat \ {0}
      BY <1>1
    <2>2. PICK n \in Nat \ {0} : n = mounts'
      BY <2>1
    <2>3. QED
      BY <2>2, BeatFits, MountFits
  <1>3. screen' = [screen EXCEPT ![t] = s] /\ sent' = [sent EXCEPT ![t] = b]
    BY DEF OpenAfk
  <1> HIDE DEF s, b
  <1>4. TabInOrder(s, b, live')
    BY <1>1, <1>2, AwayFits DEF TabInOrder
  <1>5. /\ AfkPageTypeOK' /\ screen'[t] = s /\ sent'[t] = b
        /\ \A u \in AfkTabs \ {t} : screen'[u] = screen[u] /\ sent'[u] = sent[u]
      <2>1. live' \in Nat /\ mounts' \in Nat /\ AfkPageTypeOK
      BY <1>1 DEF PageIInv
    <2>2. QED
      BY <2>1, <1>2, <1>3, TabSet
  <1>6. QED
    BY <1>1, <1>2, <1>3, <1>4, <1>5, SamePage, TabMoves

LEMMA HeartbeatKeeps ==
  ASSUME PageIInv, NEW t \in AfkTabs, Heartbeat(t)
  PROVE  PageIInv'
  <1>1. /\ mounts' = mounts /\ mounts \in Nat /\ live' = live /\ live \in Nat
        /\ ~pushed' /\ screen' = screen /\ screen[t].loop /\ sent[t] = Unsent
    BY DEF Heartbeat, PageIInv, AfkPageTypeOK
  <1> DEFINE s == screen[t]
             b == Beating(s.id, FALSE)
  <1>2. s \in ScreenState /\ s # Away /\ s.id \in Nat \ {0} /\ s.loop
    BY <1>1, SamePage, AwayFits DEF TabInOrder, ScreenState
  <1>3. b \in SentState /\ b.id = s.id /\ b.pc = "sent"
    <2>1. PICK n \in Nat \ {0} : n = s.id
      BY <1>2
    <2>2. QED
      BY <2>1, BeatFits
  <1>4. screen' = [screen EXCEPT ![t] = s] /\ sent' = [sent EXCEPT ![t] = b]
    BY <1>1, SamePage DEF Heartbeat
  <1>5. TabInOrder(s, b, live')
    BY <1>1, <1>2, <1>3, SamePage DEF TabInOrder
  <1> HIDE DEF b
  <1>6. /\ AfkPageTypeOK' /\ screen'[t] = s /\ sent'[t] = b
        /\ \A u \in AfkTabs \ {t} : screen'[u] = screen[u] /\ sent'[u] = sent[u]
    BY <1>1, <1>2, <1>3, <1>4, <1>5, SamePage, TabSet DEF PageIInv
  <1>7. QED
    BY <1>1, <1>2, <1>3, <1>4, <1>5, <1>6, SamePage, TabMoves

LEMMA ServedKeeps ==
  ASSUME PageIInv, NEW t \in AfkTabs, Served(t)
  PROVE  PageIInv'
  <1> DEFINE s == screen[t]
             ok == [sent[t] EXCEPT !.pc = "ok"]
             no == [sent[t] EXCEPT !.pc = "elsewhere"]
  <1>1. /\ mounts' = mounts /\ mounts \in Nat /\ live \in Nat
        /\ ~pushed' /\ screen' = [screen EXCEPT ![t] = s]
        /\ sent[t].pc = "sent" /\ sent[t] # Unsent /\ sent[t].id \in Nat \ {0}
    BY SamePage, AwayFits DEF Served, PageIInv, AfkPageTypeOK, TabInOrder, SentState
  <1>2. /\ ok \in SentState /\ ok.pc = "ok" /\ ok.id = sent[t].id /\ ok.retry = sent[t].retry
        /\ no \in SentState /\ no.pc = "elsewhere" /\ no.id = sent[t].id
        /\ no.retry = sent[t].retry
    BY <1>1, SamePage DEF SentState
  <1>3. CASE live \in {0, sent[t].id}
    <2>1. live' = sent[t].id /\ sent' = [sent EXCEPT ![t] = ok]
      BY <1>1, <1>3 DEF Served, PageIInv, AfkPageTypeOK
    <2> HIDE DEF ok
    <2>2. TabInOrder(s, ok, live')
      BY <1>1, <1>2, <1>3, <2>1, SamePage, AwayFits DEF TabInOrder
    <2>3. ASSUME NEW u \in AfkTabs \ {t} PROVE TabInOrder(screen[u], sent[u], live')
      <3>1. /\ TabInOrder(screen[u], sent[u], live)
            /\ screen[u] \in ScreenState /\ sent[u] \in SentState
        BY SamePage
      <3>2. sent[u].id # sent[t].id /\ screen[u].id # sent[t].id
        BY <1>1 DEF PageIInv, IdsApart
      <3>3. sent[u].pc # "ok" /\ ~(screen[u].status = "earning" /\ ~screen[u].missed)
        BY <1>3, <3>1, <3>2, AwayFits DEF TabInOrder
      <3>4. QED
        BY <3>1, <3>3 DEF TabInOrder
    <2>4. /\ AfkPageTypeOK' /\ screen'[t] = s /\ sent'[t] = ok
          /\ \A u \in AfkTabs \ {t} : screen'[u] = screen[u] /\ sent'[u] = sent[u]
      BY <1>1, <1>2, <2>1, <2>2, <2>3, SamePage, TabSet DEF PageIInv
    <2>5. QED
      BY <1>1, <1>2, <2>1, <2>2, <2>3, <2>4, SamePage, TabMoves
  <1>4. CASE live \notin {0, sent[t].id}
    <2>1. live' = live /\ sent' = [sent EXCEPT ![t] = no]
      BY <1>1, <1>4 DEF Served, PageIInv, AfkPageTypeOK
    <2> HIDE DEF no
    <2>2. TabInOrder(s, no, live')
      BY <1>1, <1>2, <1>4, <2>1, SamePage, AwayFits DEF TabInOrder
    <2>3. /\ AfkPageTypeOK' /\ screen'[t] = s /\ sent'[t] = no
          /\ \A u \in AfkTabs \ {t} : screen'[u] = screen[u] /\ sent'[u] = sent[u]
      BY <1>1, <1>2, <2>1, <2>2, SamePage, TabSet DEF PageIInv
    <2>4. QED
      BY <1>1, <1>2, <2>1, <2>2, <2>3, SamePage, TabMoves
  <1>5. QED
    BY <1>3, <1>4

LEMMA BeatFailsKeeps ==
  ASSUME PageIInv, NEW t \in AfkTabs, BeatFails(t)
  PROVE  PageIInv'
  <1> DEFINE b == [sent[t] EXCEPT !.pc = "failed"]
  <1>1. /\ mounts' = mounts /\ mounts \in Nat /\ live' = live /\ live \in Nat
        /\ ~pushed' /\ screen' = [screen EXCEPT ![t] = screen[t]]
        /\ sent[t] # Unsent /\ sent' = [sent EXCEPT ![t] = b]
    BY SamePage, AwayFits DEF BeatFails, PageIInv, AfkPageTypeOK
  <1>2. b \in SentState /\ b.pc = "failed" /\ b.id = sent[t].id /\ b.retry = sent[t].retry
    BY SamePage DEF SentState
  <1> HIDE DEF b
  <1>3. TabInOrder(screen[t], b, live')
    BY <1>1, <1>2, SamePage DEF TabInOrder
  <1>4. /\ AfkPageTypeOK' /\ screen'[t] = screen[t] /\ sent'[t] = b
        /\ \A u \in AfkTabs \ {t} : screen'[u] = screen[u] /\ sent'[u] = sent[u]
    BY <1>1, <1>2, <1>3, SamePage, TabSet DEF PageIInv
  <1>5. QED
    BY <1>1, <1>2, <1>3, <1>4, SamePage, TabMoves

LEMMA BeatAnsweredKeeps ==
  ASSUME PageIInv, NEW t \in AfkTabs, BeatAnswered(t)
  PROVE  PageIInv'
  <1>1. /\ mounts' = mounts /\ mounts \in Nat /\ live' = live /\ live \in Nat
        /\ sent[t].pc \in {"ok", "elsewhere", "failed"} /\ ~sent[t].retry /\ sent[t] # Unsent
        /\ sent' = [sent EXCEPT ![t] = Unsent] /\ screen[t] \in ScreenState
        /\ TabInOrder(screen[t], sent[t], live)
    BY SamePage, AwayFits DEF BeatAnswered, PageIInv, AfkPageTypeOK
  <1>2. CASE screen[t] = Away
    <2>1. screen' = [screen EXCEPT ![t] = Away] /\ ~pushed'
      <3>1. screen[t].status # "earning"
        BY <1>2, AwayFits
      <3>2. ~pushed'
        BY <3>1 DEF BeatAnswered, PageIInv
      <3>3. screen' = screen
        BY <1>2 DEF BeatAnswered
      <3>4. QED
        BY <1>2, <3>2, <3>3, SamePage
    <2>2. TabInOrder(Away, Unsent, live')
      BY AwayFits DEF TabInOrder
    <2>3. /\ AfkPageTypeOK' /\ screen'[t] = Away /\ sent'[t] = Unsent
          /\ \A u \in AfkTabs \ {t} : screen'[u] = screen[u] /\ sent'[u] = sent[u]
      BY <1>1, <2>1, <2>2, AwayFits, SamePage, TabSet DEF PageIInv
    <2>4. QED
      BY <1>1, <2>1, <2>2, AwayFits, <2>3, SamePage, TabMoves
  <1>3. CASE screen[t] # Away
    <2> DEFINE s == Heard(screen[t], sent[t].pc)
    <2>1. /\ s \in ScreenState /\ s # Away /\ s.id = screen[t].id
          /\ TabInOrder(s, Unsent, live')
          /\ s.status = "blocked" /\ screen[t].status = "earning" => screen[t].missed
      <3>1. /\ screen[t].id # 0 /\ screen[t].id = sent[t].id /\ screen[t].loop
            /\ sent[t].pc = "ok" => live = screen[t].id
            /\ screen[t].status = "earning" /\ ~screen[t].missed =>
                 live = screen[t].id /\ sent[t].pc # "elsewhere"
        BY <1>1, <1>3 DEF TabInOrder
      <3>2. CASE sent[t].pc = "ok"
        <4>1. s = [screen[t] EXCEPT !.status = "earning", !.missed = FALSE]
          BY <3>2 DEF Heard
        <4>2. /\ s \in ScreenState /\ s.id = screen[t].id /\ s.loop = screen[t].loop
              /\ s.status = "earning"
          BY <1>1, <4>1 DEF ScreenState
        <4> HIDE DEF s
        <4>3. QED
          BY <1>1, <3>1, <3>2, <4>2, AwayFits DEF TabInOrder
      <3>3. CASE sent[t].pc = "elsewhere"
        <4>1. s = [screen[t] EXCEPT !.status = "blocked", !.loop = FALSE]
          BY <3>3 DEF Heard
        <4>2. s \in ScreenState /\ s.id = screen[t].id /\ s.status = "blocked"
          BY <1>1, <4>1 DEF ScreenState
        <4> HIDE DEF s
        <4>3. QED
          BY <1>1, <3>1, <3>3, <4>2, AwayFits DEF TabInOrder
      <3>4. CASE sent[t].pc = "failed"
        <4>1. s = [screen[t] EXCEPT !.missed = TRUE]
          BY <3>4 DEF Heard
        <4>2. /\ s \in ScreenState /\ s.id = screen[t].id /\ s.missed
              /\ s.status = screen[t].status
          BY <1>1, <4>1 DEF ScreenState
        <4> HIDE DEF s
        <4>3. QED
          BY <1>1, <3>1, <3>4, <4>2, AwayFits DEF TabInOrder
      <3>5. QED
        BY <1>1, <3>2, <3>3, <3>4
    <2>2. screen' = [screen EXCEPT ![t] = s]
      BY <1>3 DEF BeatAnswered
    <2> HIDE DEF s
    <2>3. screen'[t] = s
      BY <2>2 DEF PageIInv, AfkPageTypeOK
    <2>4. ~pushed'
      BY <2>1, <2>3 DEF BeatAnswered, PageIInv
    <2>5. /\ AfkPageTypeOK' /\ screen'[t] = s /\ sent'[t] = Unsent
          /\ \A u \in AfkTabs \ {t} : screen'[u] = screen[u] /\ sent'[u] = sent[u]
      BY <1>1, <2>1, <2>2, <2>4, AwayFits, SamePage, TabSet DEF PageIInv
    <2>6. QED
      BY <1>1, <2>1, <2>2, <2>4, AwayFits, <2>5, SamePage, TabMoves
  <1>4. QED
    BY <1>2, <1>3

LEMMA RetryKeeps ==
  ASSUME PageIInv, NEW t \in AfkTabs, Retry(t)
  PROVE  PageIInv'
  <1>1. /\ mounts' = mounts + 1 /\ mounts \in Nat /\ live' = live /\ live \in Nat /\ ~pushed'
        /\ screen[t] \in ScreenState
    BY SamePage DEF Retry, NewSessionId, PageIInv, AfkPageTypeOK
  <1>2. PICK n \in Nat \ {0} : n = mounts'
    BY <1>1
  <1> DEFINE s == [screen[t] EXCEPT !.id = n, !.status = "connecting", !.reloaded = FALSE]
             b == Beating(n, TRUE)
  <1>3. /\ s \in ScreenState /\ s.id = n /\ s.status = "connecting"
        /\ b \in SentState /\ b.id = n /\ b.pc = "sent" /\ b.retry
    BY <1>1, BeatFits DEF ScreenState
  <1>4. screen' = [screen EXCEPT ![t] = s] /\ sent' = [sent EXCEPT ![t] = b]
    BY <1>2 DEF Retry, PageIInv, AfkPageTypeOK, ScreenState
  <1> HIDE DEF s, b
  <1>5. TabInOrder(s, b, live')
    BY <1>1, <1>3 DEF TabInOrder
  <1>6. /\ AfkPageTypeOK' /\ screen'[t] = s /\ sent'[t] = b
        /\ \A u \in AfkTabs \ {t} : screen'[u] = screen[u] /\ sent'[u] = sent[u]
    <2>1. live' \in Nat /\ mounts' \in Nat /\ AfkPageTypeOK
      BY <1>1 DEF PageIInv
    <2>2. QED
      BY <2>1, <1>3, <1>4, TabSet
  <1>7. QED
    BY <1>1, <1>2, <1>3, <1>5, <1>6, SamePage, TabMoves

LEMMA RetryTakenKeeps ==
  ASSUME PageIInv, NEW t \in AfkTabs, RetryTaken(t)
  PROVE  PageIInv'
  <1>1. /\ mounts \in Nat /\ live' = live /\ live \in Nat /\ ~pushed'
    BY DEF RetryTaken, PageIInv, AfkPageTypeOK
  <1>2. CASE /\ screen[t] # Away /\ NewSessionId
             /\ screen' = [screen EXCEPT ![t] = MountedAt(mounts', TRUE)]
             /\ sent' = [sent EXCEPT ![t] = Beating(mounts', FALSE)]
    <2>1. PICK n \in Nat \ {0} : n = mounts' /\ n = mounts + 1
      BY <1>1, <1>2 DEF NewSessionId
    <2> DEFINE s == MountedAt(n, TRUE)
               b == Beating(n, FALSE)
    <2>2. /\ s \in ScreenState /\ s.id = n /\ s.status = "connecting" /\ s.loop
          /\ b \in SentState /\ b.id = n /\ b.pc = "sent"
      BY BeatFits, MountFits
    <2>3. screen' = [screen EXCEPT ![t] = s] /\ sent' = [sent EXCEPT ![t] = b]
      BY <1>2, <2>1
    <2> HIDE DEF s, b
    <2>4. TabInOrder(s, b, live')
      BY <1>1, <2>2 DEF TabInOrder
    <2>5. /\ AfkPageTypeOK' /\ screen'[t] = s /\ sent'[t] = b
          /\ \A u \in AfkTabs \ {t} : screen'[u] = screen[u] /\ sent'[u] = sent[u]
      <3>1. live' \in Nat /\ mounts' \in Nat /\ AfkPageTypeOK
        BY <1>1, <2>1 DEF PageIInv
      <3>2. QED
        BY <3>1, <2>2, <2>3, TabSet
    <2>6. QED
      BY <1>1, <2>1, <2>2, <2>4, <2>5, SamePage, TabMoves
  <1>3. CASE /\ screen[t] = Away
             /\ sent' = [sent EXCEPT ![t] = Unsent]
             /\ UNCHANGED <<screen, mounts>>
    <2>1. screen' = [screen EXCEPT ![t] = Away]
      BY <1>3, SamePage
    <2>2. TabInOrder(Away, Unsent, live')
      BY AwayFits DEF TabInOrder
    <2>3. /\ AfkPageTypeOK' /\ screen'[t] = Away /\ sent'[t] = Unsent
          /\ \A u \in AfkTabs \ {t} : screen'[u] = screen[u] /\ sent'[u] = sent[u]
      <3>1. live' \in Nat /\ mounts' \in Nat /\ AfkPageTypeOK
        BY <1>1, <1>3 DEF PageIInv
      <3>2. sent' = [sent EXCEPT ![t] = Unsent]
        BY <1>3
      <3>3. QED
        BY <2>1, <3>1, <3>2, AwayFits, TabSet
    <2>4. QED
      BY <1>1, <1>3, <2>2, <2>3, AwayFits, SamePage, TabMoves
  <1>4. QED
    BY <1>2, <1>3 DEF RetryTaken

LEMMA RetryRefusedKeeps ==
  ASSUME PageIInv, NEW t \in AfkTabs, RetryRefused(t)
  PROVE  PageIInv'
  <1>1. /\ mounts' = mounts /\ mounts \in Nat /\ live' = live /\ live \in Nat /\ ~pushed'
        /\ sent' = [sent EXCEPT ![t] = Unsent]
    BY DEF RetryRefused, PageIInv, AfkPageTypeOK
  <1>2. PICK s \in ScreenState :
          /\ screen' = [screen EXCEPT ![t] = s]
          /\ s.id = screen[t].id /\ s.status # "earning" /\ (s # Away => screen[t] # Away)
    <2>1. CASE screen[t] = Away
      <3>1. screen' = [screen EXCEPT ![t] = screen[t]]
        BY <2>1, SamePage DEF RetryRefused
      <3>2. QED
        BY <2>1, <3>1, AwayFits
    <2>2. CASE screen[t] # Away
      <3> DEFINE s == [screen[t] EXCEPT !.status = "blocked"]
      <3>1. s \in ScreenState /\ s.id = screen[t].id /\ s.status = "blocked"
        BY SamePage DEF ScreenState
      <3>2. screen' = [screen EXCEPT ![t] = s]
        BY <2>2 DEF RetryRefused, PageIInv, AfkPageTypeOK
      <3> HIDE DEF s
      <3>3. QED
        BY <2>2, <3>1, <3>2
    <2>3. QED
      BY <2>1, <2>2
  <1>3. TabInOrder(s, Unsent, live')
    BY <1>2, SamePage, AwayFits DEF TabInOrder
  <1>4. /\ AfkPageTypeOK' /\ screen'[t] = s /\ sent'[t] = Unsent
        /\ \A u \in AfkTabs \ {t} : screen'[u] = screen[u] /\ sent'[u] = sent[u]
    BY <1>1, <1>2, AwayFits, TabSet DEF PageIInv
  <1>5. QED
    BY <1>1, <1>2, <1>3, <1>4, AwayFits, SamePage, TabMoves

LEMMA LeaveAfkKeeps ==
  ASSUME PageIInv, NEW t \in AfkTabs, LeaveAfk(t)
  PROVE  PageIInv'
  <1>1. /\ mounts' = mounts /\ mounts \in Nat /\ live' = live /\ live \in Nat /\ ~pushed'
        /\ screen' = [screen EXCEPT ![t] = Away] /\ sent' = [sent EXCEPT ![t] = sent[t]]
    BY DEF LeaveAfk, PageIInv, AfkPageTypeOK
  <1>2. TabInOrder(Away, sent[t], live')
    BY <1>1, SamePage, AwayFits DEF TabInOrder
  <1>3. /\ AfkPageTypeOK' /\ screen'[t] = Away /\ sent'[t] = sent[t]
        /\ \A u \in AfkTabs \ {t} : screen'[u] = screen[u] /\ sent'[u] = sent[u]
    BY <1>1, AwayFits, SamePage, TabSet DEF PageIInv
  <1>4. QED
    BY <1>1, <1>2, <1>3, AwayFits, SamePage, TabMoves

LEMMA LapseKeeps ==
  ASSUME PageIInv, Lapse
  PROVE  PageIInv'
  <1>1. /\ screen' = screen /\ sent' = sent /\ mounts' = mounts /\ live' = 0 /\ ~pushed'
        /\ live # 0
        /\ \A t \in AfkTabs : /\ sent[t].id # live
                              /\ screen[t].id = live /\ screen[t].loop => screen[t].missed
    BY DEF Lapse, PageIInv
  <1>2. \A t \in AfkTabs : TabInOrder(screen[t], sent[t], live')
    BY <1>1 DEF PageIInv, TabInOrder
  <1>3. QED
    BY <1>1, <1>2 DEF PageIInv, AfkPageTypeOK, IdsApart

(* AfkPage: no other tab, retry or late answer blocks a page that earns    *)
(* while its beats arrive, for any number of tabs and pages ever mounted.  *)
THEOREM EarnersStay == AfkPageSpec => []NotPushedAside
  <1>1. AfkPageInit => PageIInv
    <2> SUFFICES ASSUME AfkPageInit PROVE PageIInv
      OBVIOUS
    <2>1. /\ live = 0 /\ mounts = 0 /\ ~pushed
          /\ \A t \in AfkTabs : screen[t] = Away /\ sent[t] = Unsent
      BY DEF AfkPageInit
    <2>2. AfkPageTypeOK
      BY AwayFits DEF AfkPageInit, AfkPageTypeOK
    <2>3. IdsApart
      BY <2>1, AwayFits DEF IdsApart
    <2>4. \A t \in AfkTabs : TabInOrder(screen[t], sent[t], live)
      BY <2>1, AwayFits DEF TabInOrder
    <2>5. QED
      BY <2>1, <2>2, <2>3, <2>4 DEF PageIInv
  <1>2. PageIInv /\ [AfkPageNext]_afkPageVars => PageIInv'
    <2> SUFFICES ASSUME PageIInv, [AfkPageNext]_afkPageVars PROVE PageIInv'
      OBVIOUS
    <2>1. CASE UNCHANGED afkPageVars
      BY <2>1 DEF afkPageVars, PageIInv, AfkPageTypeOK, IdsApart
    <2>2. QED
      BY <2>1, OpenAfkKeeps, HeartbeatKeeps, ServedKeeps, BeatFailsKeeps, BeatAnsweredKeeps,
         RetryKeeps, RetryTakenKeeps, RetryRefusedKeeps, LeaveAfkKeeps, LapseKeeps
      DEF AfkPageNext
  <1>3. PageIInv => NotPushedAside
    BY DEF PageIInv, NotPushedAside
  <1>4. QED
    BY <1>1, <1>2, <1>3, PTL DEF AfkPageSpec

(***************************************************************************)
(* The favourite stars                                                     *)
(***************************************************************************)

UnderWay == {"sent", "served"}
ClickState ==
  {NoClick} \cup [pc : UnderWay, server : Starred, on : BOOLEAN, prev : SUBSET Starred]
RefetchState == {NoRefetch} \cup [pc : UnderWay, got : SUBSET Starred]

StarsTypeOK ==
  /\ favorites \in SUBSET Starred /\ stars \in SUBSET Starred
  /\ refetch \in RefetchState
  /\ click \in [Clicks -> ClickState]

\* The answer of a fetch is the panel's rows, or is outrun by a click that
\* the panel has served and that will make it start over.
AnswerOutrun ==
  refetch.pc = "served" /\ refetch.got # favorites =>
    \E c \in Clicks : click[c].pc = "served"

\* Without a fetch under way, only a click under way keeps the stars apart
\* from the rows.
StarsOutrun ==
  refetch = NoRefetch /\ stars # favorites => \E c \in Clicks : click[c] # NoClick

StarsIInv == StarsTypeOK /\ AnswerOutrun /\ StarsOutrun

LEMMA StarsSteps ==
  /\ NoRefetch.pc = "none" /\ NoClick.pc = "none"
  /\ [NoRefetch EXCEPT !.pc = "sent"] = [pc |-> "sent", got |-> {}]
  /\ [NoRefetch EXCEPT !.pc = "sent"] \in RefetchState \ {NoRefetch}
  BY DEF NoRefetch, NoClick, RefetchState, UnderWay

LEMMA ToggleKeeps ==
  ASSUME StarsIInv, NEW c \in Clicks, NEW s \in Starred, Toggle(c, s)
  PROVE  StarsIInv'
  <1>1. /\ favorites' = favorites
        /\ stars' \in SUBSET Starred
        /\ refetch' = NoRefetch
    BY DEF Toggle, StarsIInv, StarsTypeOK
  <1>2. click' \in [Clicks -> ClickState] /\ click'[c].pc = "sent"
    BY DEF Toggle, StarsIInv, StarsTypeOK, ClickState, UnderWay
  <1>3. QED
    BY <1>1, <1>2, StarsSteps
    DEF StarsIInv, StarsTypeOK, AnswerOutrun, StarsOutrun, RefetchState

LEMMA ToggleServedKeeps ==
  ASSUME StarsIInv, NEW c \in Clicks, ToggleServed(c)
  PROVE  StarsIInv'
  <1>1. stars' = stars /\ refetch' = refetch
    BY DEF ToggleServed
  <1>2. /\ click[c] \in [pc : UnderWay, server : Starred, on : BOOLEAN, prev : SUBSET Starred]
        /\ click' = [click EXCEPT ![c] = [click[c] EXCEPT !.pc = "served"]]
    BY StarsSteps DEF ToggleServed, StarsIInv, StarsTypeOK, ClickState
  <1>3. click' \in [Clicks -> ClickState] /\ click'[c].pc = "served"
    BY <1>2 DEF StarsIInv, StarsTypeOK, ClickState, UnderWay
  <1>4. favorites' \in SUBSET Starred
    BY <1>2 DEF ToggleServed, StarsIInv, StarsTypeOK
  <1>5. QED
    BY <1>1, <1>3, <1>4, StarsSteps DEF StarsIInv, StarsTypeOK, AnswerOutrun, StarsOutrun

\* Whatever a click leaves behind, the fetch it starts will mend.
LEMMA SettledKeeps ==
  ASSUME StarsIInv, NEW c \in Clicks, Succeeded(c) \/ Failed(c)
  PROVE  StarsIInv'
  <1>1. /\ favorites' = favorites
        /\ refetch' \in RefetchState \ {NoRefetch} /\ refetch'.pc = "sent"
    BY StarsSteps DEF Succeeded, Failed, Invalidate
  <1>2. click' \in [Clicks -> ClickState]
    BY DEF Succeeded, Failed, StarsIInv, StarsTypeOK, ClickState
  <1>3. stars' \in SUBSET Starred
    BY StarsSteps DEF Succeeded, Failed, StarsIInv, StarsTypeOK, ClickState, UnderWay
  <1>4. QED
    BY <1>1, <1>2, <1>3 DEF StarsIInv, StarsTypeOK, AnswerOutrun, StarsOutrun

LEMMA RefetchKeeps ==
  ASSUME StarsIInv, RefetchServed \/ RefetchArrives
  PROVE  StarsIInv'
  <1>1. favorites' = favorites /\ click' = click
    BY DEF RefetchServed, RefetchArrives
  <1>2. CASE RefetchServed
    <2>1. /\ stars' = stars
          /\ refetch' \in RefetchState \ {NoRefetch} /\ refetch'.got = favorites
      BY <1>2, StarsSteps DEF RefetchServed, StarsIInv, StarsTypeOK, RefetchState, UnderWay
    <2>2. QED
      BY <1>1, <2>1 DEF StarsIInv, StarsTypeOK, AnswerOutrun, StarsOutrun
  <1>3. CASE RefetchArrives
    <2>1. refetch \in [pc : UnderWay, got : SUBSET Starred] /\ stars' = refetch.got
      BY <1>3, StarsSteps DEF RefetchArrives, StarsIInv, StarsTypeOK, RefetchState
    <2>2. stars' # favorites => \E c \in Clicks : click[c] # NoClick
      BY <1>3, <2>1, StarsSteps DEF RefetchArrives, StarsIInv, AnswerOutrun
    <2>3. refetch' = NoRefetch
      BY <1>3 DEF RefetchArrives
    <2>4. QED
      BY <1>1, <2>1, <2>2, <2>3, StarsSteps
      DEF StarsIInv, StarsTypeOK, AnswerOutrun, StarsOutrun, RefetchState
  <1>4. QED
    BY <1>2, <1>3

(* ServersListPage: nothing under way, the stars are the panel's rows, for *)
(* any servers, any number of clicks at once and any order of answers.     *)
THEOREM StarsSettle == FavoriteStarsSpec => []FavoritesSettle
  <1>1. FavoriteStarsInit => StarsIInv
    BY StarsSteps
    DEF FavoriteStarsInit, StarsIInv, StarsTypeOK, AnswerOutrun, StarsOutrun, ClickState, RefetchState
  <1>2. StarsIInv /\ [FavoriteStarsNext]_starsVars => StarsIInv'
    <2> SUFFICES ASSUME StarsIInv, [FavoriteStarsNext]_starsVars PROVE StarsIInv'
      OBVIOUS
    <2>1. CASE UNCHANGED starsVars
      BY <2>1 DEF starsVars, StarsIInv, StarsTypeOK, AnswerOutrun, StarsOutrun
    <2>2. QED
      BY <2>1, ToggleKeeps, ToggleServedKeeps, SettledKeeps, RefetchKeeps DEF FavoriteStarsNext
  <1>3. StarsIInv => FavoritesSettle
    BY DEF StarsIInv, StarsOutrun, FavoritesSettle
  <1>4. QED
    BY <1>1, <1>2, <1>3, PTL DEF FavoriteStarsSpec

(***************************************************************************)
(* The administrator's forms                                               *)
(***************************************************************************)

Default == CHOOSE d \in Values : \A e \in Values : d <= e
Shown == [Fields -> Values \cup {Empty, Default}]

FormTypeOK ==
  /\ rows \in [Subjects -> Shown] /\ data \in [Subjects -> Shown]
  /\ form \in [subject : Subjects \cup {"none"}, values : Shown, typed : SUBSET Fields]
  /\ fetch \in [pc : {"none", "sent", "served"}, got : Shown]
  /\ save \in [pc : {"none", "sent"}, subject : Subjects \cup {"none"}, values : Shown,
               left : SUBSET Fields]

\* What is fetched or saved is a subject's.
FormOfSubject ==
  /\ fetch.pc # "none" => form.subject \in Subjects
  /\ save.pc # "none" => save.subject \in Subjects

FormIInv == FormTypeOK /\ FormOfSubject /\ FormShowsSubject

LEMMA Blanks ==
  /\ Unloaded \in Shown
  /\ NoFetch \in [pc : {"none", "sent", "served"}, got : Shown] /\ NoFetch.pc = "none"
  /\ [NoFetch EXCEPT !.pc = "sent"] \in [pc : {"none", "sent", "served"}, got : Shown]
  /\ NoSave \in [pc : {"none", "sent"}, subject : Subjects \cup {"none"}, values : Shown,
                 left : SUBSET Fields]
  /\ NoSave.pc = "none"
  <1>1. Unloaded \in Shown
    BY DEF Unloaded, Shown
  <1>2. QED
    BY <1>1 DEF NoFetch, NoSave

LEMMA OpenShows ==
  ASSUME FormIInv, NEW s \in Subjects, Open(s)
  PROVE  FormIInv'
  <1>1. /\ rows' = rows /\ data' = data /\ save' = save
        /\ form' = [subject |-> s, values |-> data[s], typed |-> {}]
        /\ fetch' \in [pc : {"none", "sent", "served"}, got : Shown]
    BY Blanks DEF Open
  <1>2. form' \in [subject : Subjects \cup {"none"}, values : Shown, typed : SUBSET Fields]
    BY <1>1 DEF FormIInv, FormTypeOK
  <1>3. QED
    BY <1>1, <1>2 DEF FormIInv, FormTypeOK, FormOfSubject, FormShowsSubject

LEMMA TypeShows ==
  ASSUME FormIInv, NEW f \in Fields, NEW v \in Values, Type(f, v)
  PROVE  FormIInv'
  <1>1. /\ rows' = rows /\ data' = data /\ save' = save /\ fetch' = fetch
        /\ form' = [form EXCEPT !.values[f] = v, !.typed = @ \cup {f}]
    BY DEF Type
  <1>2. /\ form' \in [subject : Subjects \cup {"none"}, values : Shown, typed : SUBSET Fields]
        /\ form'.subject = form.subject /\ form'.typed = form.typed \cup {f}
        /\ \A g \in Fields \ {f} : form'.values[g] = form.values[g]
    BY <1>1 DEF FormIInv, FormTypeOK, Shown
  <1>3. QED
    BY <1>1, <1>2 DEF FormIInv, FormTypeOK, FormOfSubject, FormShowsSubject

LEMMA FetchShows ==
  ASSUME FormIInv, FormFetchServed \/ FormFetchArrives \/ FormFetchFails
  PROVE  FormIInv'
  <1>1. rows' = rows /\ save' = save
    BY DEF FormFetchServed, FormFetchArrives, FormFetchFails
  <1>2. CASE FormFetchServed
    <2>1. form' = form /\ data' = data /\ form.subject \in Subjects
      BY <1>2 DEF FormFetchServed, FormIInv, FormOfSubject
    <2>2. fetch' \in [pc : {"none", "sent", "served"}, got : Shown]
      BY <1>2, <2>1 DEF FormFetchServed, FormIInv, FormTypeOK
    <2>3. QED
      BY <1>1, <2>1, <2>2 DEF FormIInv, FormTypeOK, FormOfSubject, FormShowsSubject
  <1>3. CASE FormFetchFails
    BY <1>1, <1>3, Blanks DEF FormFetchFails, FormIInv, FormTypeOK, FormOfSubject, FormShowsSubject
  <1>4. CASE FormFetchArrives
    <2>1. fetch' = NoFetch /\ form.subject \in Subjects /\ fetch.got \in Shown
      BY <1>4 DEF FormFetchArrives, FormIInv, FormTypeOK, FormOfSubject
    <2>2. CASE data' = data /\ form' = form
      BY <1>1, <2>1, <2>2, Blanks DEF FormIInv, FormTypeOK, FormOfSubject, FormShowsSubject
    <2>3. CASE /\ data' = [data EXCEPT ![form.subject] = fetch.got]
               /\ form' = [form EXCEPT !.values = fetch.got, !.typed = {}]
      <3>1. data' \in [Subjects -> Shown] /\ data'[form.subject] = fetch.got
        BY <2>1, <2>3 DEF FormIInv, FormTypeOK
      <3>2. /\ form' \in [subject : Subjects \cup {"none"}, values : Shown, typed : SUBSET Fields]
            /\ form'.subject = form.subject /\ form'.values = fetch.got
        BY <2>1, <2>3 DEF FormIInv, FormTypeOK
      <3>3. QED
        BY <1>1, <2>1, <3>1, <3>2, Blanks DEF FormIInv, FormTypeOK, FormOfSubject, FormShowsSubject
    <2>4. QED
      BY <1>4, <2>2, <2>3 DEF FormFetchArrives, Filled
  <1>5. QED
    BY <1>2, <1>3, <1>4

LEMMA SaveShows ==
  ASSUME FormIInv,
         \/ \E fields \in SUBSET Fields \ {{}} : Save(fields)
         \/ SaveServed \/ SaveAnswered \/ SaveFails
  PROVE  FormIInv'
  <1>1. data' = data /\ form' = form
    BY DEF Save, SaveServed, SaveAnswered, SaveFails
  <1>2. CASE \E fields \in SUBSET Fields \ {{}} : Save(fields)
    <2>1. PICK fields \in SUBSET Fields : Save(fields)
      BY <1>2
    <2>2. [f \in Fields |-> Sent(form.values[f])] \in Shown
      BY DEF FormIInv, FormTypeOK, Sent, Default, Shown
    <2>3. /\ save' \in [pc : {"none", "sent"}, subject : Subjects \cup {"none"}, values : Shown,
                        left : SUBSET Fields]
          /\ save'.subject \in Subjects
      BY <2>1, <2>2 DEF Save
    <2>4. QED
      BY <1>1, <2>1, <2>3 DEF Save, FormIInv, FormTypeOK, FormOfSubject, FormShowsSubject
  <1>3. CASE SaveServed
    <2>1. PICK now \in SUBSET save.left :
            /\ rows' = [rows EXCEPT ![save.subject] =
                 [f \in Fields |-> IF f \in now THEN save.values[f] ELSE @[f]]]
            /\ save' = [save EXCEPT !.left = @ \ now]
      BY <1>3 DEF SaveServed
    <2>2. rows' \in [Subjects -> Shown]
      BY <2>1 DEF FormIInv, FormTypeOK, Shown
    <2>3. /\ save' \in [pc : {"none", "sent"}, subject : Subjects \cup {"none"}, values : Shown,
                        left : SUBSET Fields]
          /\ save'.pc = save.pc /\ save'.subject = save.subject
      BY <2>1 DEF FormIInv, FormTypeOK
    <2>4. fetch' = fetch
      BY <1>3 DEF SaveServed
    <2>5. QED
      BY <1>1, <2>2, <2>3, <2>4 DEF FormIInv, FormTypeOK, FormOfSubject, FormShowsSubject
  <1>4. CASE SaveAnswered
    <2>1. rows' = rows /\ save' = NoSave
      BY <1>4 DEF SaveAnswered
    <2>2. /\ fetch' \in [pc : {"none", "sent", "served"}, got : Shown]
          /\ fetch'.pc # "none" => form.subject \in Subjects
      BY <1>4, Blanks DEF SaveAnswered, FormIInv, FormTypeOK, FormOfSubject
    <2>3. QED
      BY <1>1, <2>1, <2>2, Blanks DEF FormIInv, FormTypeOK, FormOfSubject, FormShowsSubject
  <1>5. CASE SaveFails
    BY <1>1, <1>5, Blanks DEF SaveFails, FormIInv, FormTypeOK, FormOfSubject, FormShowsSubject
  <1>6. QED
    BY <1>2, <1>3, <1>4, <1>5

LEMMA OtherAdminShows ==
  ASSUME FormIInv, NEW s \in Subjects, NEW f \in Fields, NEW v \in Values, OtherAdmin(s, f, v)
  PROVE  FormIInv'
  <1>1. rows' \in [Subjects -> Shown]
    BY DEF OtherAdmin, FormIInv, FormTypeOK, Shown
  <1>2. QED
    BY <1>1 DEF OtherAdmin, FormIInv, FormTypeOK, FormOfSubject, FormShowsSubject

(* The administrator's forms: an untouched field is the open subject's own,*)
(* for any subjects, fields and values.                                    *)
THEOREM FormsHonest == WebFormsSpec => []FormShowsSubject
  <1>1. WebFormsInit => FormIInv
    <2> SUFFICES ASSUME WebFormsInit PROVE FormIInv
      OBVIOUS
    <2>1. rows \in [Subjects -> Shown]
      BY DEF WebFormsInit, Shown
    <2>2. /\ data \in [Subjects -> Shown]
          /\ form \in [subject : Subjects \cup {"none"}, values : Shown, typed : SUBSET Fields]
          /\ form.subject \in Subjects => form.values = data[form.subject]
      BY Blanks DEF WebFormsInit
    <2>3. QED
      BY <2>1, <2>2, Blanks DEF WebFormsInit, FormIInv, FormTypeOK, FormOfSubject, FormShowsSubject
  <1>2. FormIInv /\ [WebFormsNext]_formVars => FormIInv'
    <2> SUFFICES ASSUME FormIInv, [WebFormsNext]_formVars PROVE FormIInv'
      OBVIOUS
    <2>1. CASE UNCHANGED formVars
      BY <2>1 DEF formVars, FormIInv, FormTypeOK, FormOfSubject, FormShowsSubject
    <2>2. QED
      BY <2>1, OpenShows, TypeShows, FetchShows, SaveShows, OtherAdminShows DEF WebFormsNext
  <1>3. FormIInv => FormShowsSubject
    BY DEF FormIInv
  <1>4. QED
    BY <1>1, <1>2, <1>3, PTL DEF WebFormsSpec

(***************************************************************************)
(* The file manager                                                        *)
(***************************************************************************)

AnyPath == (Dirs \cup {""}) \X (Names \cup {""})
OpState == [kind : {"none", "read", "save", "upload"}, file : AnyPath, dir : Dirs \cup {""},
            text : AnyPath, sent : BOOLEAN]

FilesTypeOK ==
  /\ cwd \in Dirs
  /\ op \in [FileOps -> OpState]
  /\ editing \in AnyPath /\ text \in AnyPath

\* Unless the directory changed, a file is filed under the path it is read from.
ReadInPlace ==
  strayed \/ \A o \in FileOps : op[o].kind = "read" => op[o].file = <<op[o].dir, op[o].file[2]>>

FilesIInv == FilesTypeOK /\ ReadInPlace /\ EditsGoBack

LEMMA SlotSet ==
  ASSUME FilesTypeOK, NEW o \in FileOps, NEW r \in OpState, op' = [op EXCEPT ![o] = r]
  PROVE  /\ op' \in [FileOps -> OpState]
         /\ op'[o] = r /\ \A p \in FileOps \ {o} : op'[p] = op[p]
  BY DEF FilesTypeOK

LEMMA NoOpFits == NoOp \in OpState /\ NoOp.kind = "none" /\ NoPath \in AnyPath
  BY DEF NoOp, OpState, NoPath, AnyPath

\* A slot is emptied, or filled with an upload.
LEMMA QuietSlot ==
  ASSUME FilesIInv, NEW o \in FileOps, NEW r \in OpState, op' = [op EXCEPT ![o] = r],
         r.kind \in {"none", "upload"}, cwd' = cwd, strayed' = strayed
  PROVE  /\ op' \in [FileOps -> OpState] /\ ReadInPlace'
         /\ strayed \/ \A p \in FileOps : op'[p].kind = "save" => op'[p].text = op'[p].file
  BY SlotSet DEF FilesIInv, ReadInPlace, EditsGoBack

LEMMA NavigateKeeps ==
  ASSUME FilesIInv, NEW d \in Dirs, Navigate(d)
  PROVE  FilesIInv'
  <1>1. /\ cwd' = d /\ editing' = editing /\ text' = text
        /\ op' \in [FileOps -> OpState]
        /\ \A o \in FileOps : op'[o].kind = op[o].kind /\ op'[o].text = op[o].text
                              /\ op'[o].file = op[o].file
    <2>1. \A o \in FileOps : op[o] \in OpState /\ (op'[o] = op[o] \/ op'[o] = [op[o] EXCEPT !.dir = d])
      BY DEF Navigate, FilesIInv, FilesTypeOK
    <2>2. \A o \in FileOps : /\ op'[o] \in OpState /\ op'[o].kind = op[o].kind
                             /\ op'[o].text = op[o].text /\ op'[o].file = op[o].file
      <3> SUFFICES ASSUME NEW o \in FileOps
                   PROVE  /\ op'[o] \in OpState /\ op'[o].kind = op[o].kind
                          /\ op'[o].text = op[o].text /\ op'[o].file = op[o].file
        OBVIOUS
      <3>1. CASE op'[o] = op[o]
        BY <2>1, <3>1
      <3>2. CASE op'[o] = [op[o] EXCEPT !.dir = d]
        BY <2>1, <3>2 DEF OpState
      <3>3. QED
        BY <2>1, <3>1, <3>2
    <2>3. op' = [o \in FileOps |-> op'[o]]
      BY DEF Navigate
    <2>4. QED
      BY <2>2, <2>3 DEF Navigate
  <1>2. Reading = {} => op' = op
    BY DEF Navigate, Reading, FilesIInv, FilesTypeOK
  <1>4. strayed' <=> strayed \/ Reading # {}
    BY DEF Navigate
  <1>5. QED
    BY <1>1, <1>2, <1>4 DEF FilesIInv, FilesTypeOK, ReadInPlace, EditsGoBack

LEMMA OpenFileKeeps ==
  ASSUME FilesIInv, NEW o \in FileOps, NEW name \in Names, OpenFile(o, name)
  PROVE  FilesIInv'
  <1> DEFINE r == [NoOp EXCEPT !.kind = "read", !.file = <<cwd, name>>, !.dir = cwd]
  <1>1. cwd' = cwd /\ editing' = editing /\ text' = text /\ strayed' = strayed
        /\ op' = [op EXCEPT ![o] = r]
    BY DEF OpenFile, Send
  <1>2. r \in OpState /\ r.kind = "read" /\ r.file = <<cwd, name>> /\ r.dir = cwd
    BY NoOpFits DEF NoOp, NoPath, OpState, AnyPath, FilesIInv, FilesTypeOK
  <1> HIDE DEF r
  <1>3. op' \in [FileOps -> OpState] /\ op'[o] = r /\ \A p \in FileOps \ {o} : op'[p] = op[p]
    BY <1>1, <1>2, SlotSet DEF FilesIInv
  <1>4. r.file = <<r.dir, r.file[2]>>
    BY <1>2
  <1>5. QED
    BY <1>1, <1>2, <1>3, <1>4 DEF FilesIInv, FilesTypeOK, ReadInPlace, EditsGoBack

LEMMA FileOpenedKeeps ==
  ASSUME FilesIInv, NEW o \in FileOps, FileOpened(o)
  PROVE  FilesIInv'
  <1>1. /\ op[o].kind = "read" /\ cwd' = cwd /\ strayed' = strayed
        /\ editing' = <<op[o].dir, op[o].file[2]>> /\ text' = op[o].file
        /\ op' = [op EXCEPT ![o] = NoOp]
    BY DEF FileOpened, Done
  <1>2. /\ op' \in [FileOps -> OpState] /\ ReadInPlace'
        /\ strayed \/ \A p \in FileOps : op'[p].kind = "save" => op'[p].text = op'[p].file
    BY <1>1, NoOpFits, QuietSlot
  <1>3. editing' \in AnyPath /\ text' \in AnyPath
    BY <1>1 DEF FilesIInv, FilesTypeOK, OpState, AnyPath
  <1>4. strayed \/ text' = editing'
    BY <1>1 DEF FilesIInv, ReadInPlace
  <1>5. QED
    BY <1>1, <1>2, <1>3, <1>4 DEF FilesIInv, FilesTypeOK, EditsGoBack

LEMMA SaveFileKeeps ==
  ASSUME FilesIInv, NEW o \in FileOps, SaveFile(o)
  PROVE  FilesIInv'
  <1> DEFINE r == [NoOp EXCEPT !.kind = "save", !.file = editing, !.text = text]
  <1>1. /\ cwd' = cwd /\ editing' = editing /\ text' = text /\ strayed' = strayed
        /\ op' = [op EXCEPT ![o] = r] /\ editing # NoPath
    BY DEF SaveFile, Send
  <1>2. r \in OpState /\ r.kind = "save" /\ r.file = editing /\ r.text = text
    BY NoOpFits DEF NoOp, NoPath, OpState, AnyPath, FilesIInv, FilesTypeOK
  <1> HIDE DEF r
  <1>3. op' \in [FileOps -> OpState] /\ op'[o] = r /\ \A p \in FileOps \ {o} : op'[p] = op[p]
    BY <1>1, <1>2, SlotSet DEF FilesIInv
  <1>4. strayed \/ text = editing
    BY <1>1 DEF FilesIInv, EditsGoBack
  <1>5. QED
    BY <1>1, <1>2, <1>3, <1>4 DEF FilesIInv, FilesTypeOK, ReadInPlace, EditsGoBack

LEMMA FileWrittenKeeps ==
  ASSUME FilesIInv, NEW o \in FileOps, FileWritten(o)
  PROVE  FilesIInv'
  <1>1. /\ cwd' = cwd /\ editing' = editing /\ text' = text /\ strayed' = strayed
        /\ op' = [op EXCEPT ![o] = [op[o] EXCEPT !.sent = TRUE]]
    BY DEF FileWritten, FilesIInv, FilesTypeOK
  <1>2. /\ op' \in [FileOps -> OpState]
        /\ \A p \in FileOps : /\ op'[p].kind = op[p].kind /\ op'[p].text = op[p].text
                              /\ op'[p].file = op[p].file /\ op'[p].dir = op[p].dir
    BY <1>1 DEF FilesIInv, FilesTypeOK, OpState
  <1>3. QED
    BY <1>1, <1>2 DEF FilesIInv, FilesTypeOK, ReadInPlace, EditsGoBack

\* The editor closes, a slot is emptied, or both.
LEMMA ClosedKeeps ==
  ASSUME FilesIInv, CloseEditor \/ \E o \in FileOps : FileSaved(o) \/ FileOpFailed(o)
  PROVE  FilesIInv'
  <1>1. /\ cwd' = cwd /\ text' = text /\ strayed' = strayed
        /\ editing' \in {editing, NoPath}
        /\ op' = op \/ \E o \in FileOps : op' = [op EXCEPT ![o] = NoOp]
    BY DEF FileSaved, FileOpFailed, CloseEditor, Done
  <1>2. editing' \in AnyPath
    BY <1>1, NoOpFits DEF FilesIInv, FilesTypeOK
  <1>3. CASE op' = op
    BY <1>1, <1>2, <1>3 DEF FilesIInv, FilesTypeOK, ReadInPlace, EditsGoBack
  <1>4. CASE \E o \in FileOps : op' = [op EXCEPT ![o] = NoOp]
    <2>1. /\ op' \in [FileOps -> OpState] /\ ReadInPlace'
          /\ strayed \/ \A p \in FileOps : op'[p].kind = "save" => op'[p].text = op'[p].file
      BY <1>1, <1>4, NoOpFits, QuietSlot
    <2>2. QED
      BY <1>1, <1>2, <2>1 DEF FilesIInv, FilesTypeOK, EditsGoBack
  <1>5. QED
    BY <1>1, <1>3, <1>4

LEMMA UploadKeeps ==
  ASSUME FilesIInv, NEW o \in FileOps, NEW name \in Names, Upload(o, name) \/ Uploaded(o, name)
  PROVE  FilesIInv'
  <1>1. cwd' = cwd /\ editing' = editing /\ text' = text /\ strayed' = strayed
    BY DEF Upload, Uploaded
  <1>2. PICK r \in OpState : op' = [op EXCEPT ![o] = r] /\ r.kind \in {"none", "upload"}
    <2>1. CASE Upload(o, name)
      <3> DEFINE u == [NoOp EXCEPT !.kind = "upload", !.file = <<cwd, name>>, !.text = <<cwd, name>>]
      <3>1. u \in OpState /\ u.kind = "upload"
        BY DEF NoOp, NoPath, OpState, AnyPath, FilesIInv, FilesTypeOK
      <3>2. op' = [op EXCEPT ![o] = u]
        BY <2>1 DEF Upload, Send
      <3>3. QED
        BY <3>1, <3>2
    <2>2. CASE Uploaded(o, name)
      <3>1. CASE op' = [op EXCEPT ![o] = NoOp]
        BY <3>1, NoOpFits
      <3>2. CASE op' = [op EXCEPT ![o].file = <<op[o].file[1], name>>,
                                  ![o].text = <<op[o].file[1], name>>]
        <4> DEFINE u == [op[o] EXCEPT !.file = <<op[o].file[1], name>>,
                                      !.text = <<op[o].file[1], name>>]
        <4>1. op[o] \in OpState /\ op[o].kind = "upload"
          BY <2>2 DEF Uploaded, FilesIInv, FilesTypeOK
        <4>2. op' = [op EXCEPT ![o] = u]
          BY <3>2, <4>1 DEF FilesIInv, FilesTypeOK, OpState
        <4>3. <<op[o].file[1], name>> \in AnyPath
          BY <4>1 DEF OpState, AnyPath
        <4>4. u \in OpState /\ u.kind = "upload"
          BY <4>1, <4>3 DEF OpState
        <4>5. QED
          BY <4>2, <4>4
      <3>3. QED
        BY <2>2, <3>1, <3>2 DEF Uploaded, Done
    <2>3. QED
      BY <2>1, <2>2
  <1>3. /\ op' \in [FileOps -> OpState] /\ ReadInPlace'
        /\ strayed \/ \A p \in FileOps : op'[p].kind = "save" => op'[p].text = op'[p].file
    BY <1>1, <1>2, QuietSlot
  <1>4. QED
    BY <1>1, <1>3 DEF FilesIInv, FilesTypeOK, EditsGoBack

(* FilesTab: what the editor writes into a file was read from that file,   *)
(* for any directories, names and number of requests at once, unless the   *)
(* directory changed while a file was being read.                          *)
THEOREM EditsReturn == FilesSpec => []EditsGoBack
  <1>1. FilesInit => FilesIInv
    <2> SUFFICES ASSUME FilesInit PROVE FilesIInv
      OBVIOUS
    <2>1. cwd \in Dirs
      BY FilesAssumption DEF FilesInit, FilesAssumption
    <2>2. FilesTypeOK
      BY <2>1, NoOpFits DEF FilesInit, FilesTypeOK, AnyPath, NoPath
    <2>3. \A o \in FileOps : op[o].kind = "none"
      BY NoOpFits DEF FilesInit
    <2>4. QED
      BY <2>2, <2>3 DEF FilesInit, FilesIInv, ReadInPlace, EditsGoBack
  <1>2. FilesIInv /\ [FilesNext]_filesVars => FilesIInv'
    <2> SUFFICES ASSUME FilesIInv, [FilesNext]_filesVars PROVE FilesIInv'
      OBVIOUS
    <2>1. CASE UNCHANGED filesVars
      BY <2>1 DEF filesVars, FilesIInv, FilesTypeOK, ReadInPlace, EditsGoBack
    <2>2. CASE \E name \in Names : RemoveEntry(name) \/ \E new \in Names : Rename(name, new)
      <3>1. UNCHANGED <<cwd, editing, text, op, strayed>>
        BY <2>2 DEF RemoveEntry, Rename
      <3>2. QED
        BY <3>1 DEF FilesIInv, FilesTypeOK, ReadInPlace, EditsGoBack
    <2>3. QED
      BY <2>1, <2>2, NavigateKeeps, ClosedKeeps, FileOpenedKeeps, SaveFileKeeps,
         FileWrittenKeeps, OpenFileKeeps, UploadKeeps
      DEF FilesNext
  <1>3. FilesIInv => EditsGoBack
    BY DEF FilesIInv
  <1>4. QED
    BY <1>1, <1>2, <1>3, PTL DEF FilesSpec

(***************************************************************************)
(* The screens over the query cache                                        *)
(***************************************************************************)
(* What an endpoint reads or writes is looked up once in the lemmas named *)
(* ...Tables; a lemma per screen then compares its queries and buttons.   *)

(* A button heeds a query its screen shows: the query is polled, or reads  *)
(* nothing the button writes, or an invalidated key begins its key.        *)
Heeds(a, q) ==
  \/ q.polled
  \/ q.reads \cap a.writes = {}
  \/ \E prefix \in a.invalidates : IsPrefix(prefix, q.key)

Covered(pg) ==
  \A a \in pg.acts, q \in pg.shows : LeftBy(a, q.key) \/ Heeds(a, q)

LEMMA ActHeeds ==
  ASSUME NEW writes, NEW invalidates, NEW key, NEW reads,
         reads \cap writes = {} \/ (key \in invalidates /\ IsPrefix(key, key))
  PROVE  Heeds(Act(writes, invalidates), Shows(key, reads))
  BY DEF Heeds, Act, Shows

LEMMA ActHeedsPolled ==
  ASSUME NEW writes, NEW invalidates, NEW key, NEW reads
  PROVE  Heeds(Act(writes, invalidates), Polls(key, reads))
  BY DEF Heeds, Act, Polls

LEMMA ShownKey == \A key, reads : Shows(key, reads).key = key
  BY DEF Shows

LEMMA KeyBeginsItself ==
  /\ \A a : IsPrefix(<<a>>, <<a>>)
  /\ \A a, b : IsPrefix(<<a, b>>, <<a, b>>)
  /\ \A a, b, c : IsPrefix(<<a, b, c>>, <<a, b, c>>)
  /\ IsPrefix(Servers, Servers) /\ IsPrefix(Server, Server)
  /\ \A part : IsPrefix(Of(part), Of(part))
  /\ \A list : IsPrefix(Admin(list), Admin(list))
  BY DEF IsPrefix, Servers, Server, Of, Admin

LEMMA AccountTables ==
  /\ AccountApi.changePassword = {"sessions"}
  /\ AccountApi.listSessions = {"sessions"}
  /\ AccountApi.revokeSession = {"sessions"}
  /\ AccountApi.revokeOtherSessions = {"sessions"}
  /\ AccountApi.listApiKeys = {"keys"}
  /\ AccountApi.createApiKey = {"keys"}
  /\ AccountApi.deleteApiKey = {"keys"}
  BY DEF AccountApi

LEMMA SchedulesTables ==
  /\ SchedulesApi.list = {"schedules"}
  /\ SchedulesApi.create = {"schedules"}
  /\ SchedulesApi.toggle = {"schedules"}
  /\ SchedulesApi.remove = {"schedules"}
  BY DEF SchedulesApi

LEMMA ServersTables ==
  /\ ServersApi.list = {"servers"}
  /\ ServersApi.get = {"servers"}
  /\ ServersApi.stats = {"stats"}
  /\ ServersApi.create = {"servers", "use", "ports"}
  /\ ServersApi.update = {"servers", "use"}
  /\ ServersApi.remove = ServerRows
  /\ ServersApi.power = {"servers"}
  /\ ServersApi.clone = {"servers", "use", "ports"}
  /\ ServersApi.setPublicStatus = {"servers"}
  /\ ServersApi.setDescription = {"servers"}
  BY DEF ServersApi

LEMMA BackupsTables ==
  /\ BackupsApi.list = {"backups"}
  /\ BackupsApi.create = {"backups"}
  /\ BackupsApi.restore = {"files"}
  /\ BackupsApi.remove = {"backups"}
  BY DEF BackupsApi

LEMMA DatabasesTables ==
  /\ DatabasesApi.list = {"databases"}
  /\ DatabasesApi.create = {"databases", "use"}
  /\ DatabasesApi.remove = {"databases", "use"}
  BY DEF DatabasesApi

LEMMA SubusersTables ==
  /\ SubusersApi.list = {"subusers"}
  /\ SubusersApi.add = {"subusers"}
  /\ SubusersApi.remove = {"subusers"}
  BY DEF SubusersApi

LEMMA FilesTables ==
  /\ FilesApi.list = {"files"}
  /\ FilesApi.write = {"files"}
  /\ FilesApi.rename = {"files"}
  /\ FilesApi.remove = {"files"}
  /\ FilesApi.mkdir = {"files"}
  BY DEF FilesApi

LEMMA CatalogTables ==
  /\ CatalogApi.eggs = {"eggs"}
  /\ CatalogApi.nodes = {"nodes"}
  /\ CatalogApi.store = {"store"}
  BY DEF CatalogApi

LEMMA CoinsTables ==
  /\ CoinsApi.wallet = {"ledger", "coins"}
  /\ CoinsApi.claimDaily = {"ledger", "coins"}
  /\ CoinsApi.gift = {"ledger", "coins"}
  /\ CoinsApi.redeem = {"ledger", "coins", "codes"}
  /\ CoinsApi.quota = {"use", "bonus", "settings"}
  /\ CoinsApi.purchase = {"ledger", "coins", "bonus"}
  BY DEF CoinsApi

LEMMA AdminTables ==
  /\ AdminApi.listUsers = {"users", "coins"}
  /\ AdminApi.setUserRole = {"users", "sessions"}
  /\ AdminApi.deleteUser =
       ServerRows \cup {"users", "coins", "ledger", "bonus", "sessions", "keys"}
  /\ AdminApi.adjustCoins = {"ledger", "coins"}
  /\ AdminApi.getUserQuota = {"use", "bonus", "settings"}
  /\ AdminApi.setUserQuota = {"bonus"}
  /\ AdminApi.listAllServers = {"servers", "users"}
  /\ AdminApi.transferServer = {"servers", "use"}
  /\ AdminApi.suspendServer = {"servers"}
  /\ AdminApi.deleteServer = ServerRows
  /\ AdminApi.purgeServers = ServerRows
  /\ AdminApi.listRedeemCodes = {"codes"}
  /\ AdminApi.createRedeemCode = {"codes"}
  /\ AdminApi.deleteRedeemCode = {"codes"}
  /\ AdminApi.listNodes = {"nodes"}
  /\ AdminApi.createNode = {"nodes", "ports"}
  /\ AdminApi.deleteNode = {"nodes", "ports"}
  /\ AdminApi.rotateNodeToken = {"nodes"}
  /\ AdminApi.listAllocations = {"ports", "servers"}
  /\ AdminApi.createAllocations = {"ports"}
  /\ AdminApi.deleteAllocation = {"ports"}
  /\ AdminApi.listServerAllocations = {"ports"}
  /\ AdminApi.addServerAllocation = {"ports", "servers"}
  /\ AdminApi.removeServerAllocation = {"ports", "servers"}
  /\ AdminApi.createEgg = {"eggs"}
  /\ AdminApi.updateEgg = {"eggs"}
  /\ AdminApi.deleteEgg = {"eggs"}
  /\ AdminApi.getSettings = {"settings"}
  /\ AdminApi.setSetting = {"settings"}
  BY DEF AdminApi

LEMMA ModrinthTables ==
  /\ ModrinthApi.install = {"files"}
  BY DEF ModrinthApi

(* What every tab of a server shows.                                     *)
LEMMA ServerDetailShows ==
  ServerDetailPage.shows =
    {Shows(Server, {"servers"}), Shows(<<"nodes">>, {"nodes"}),
     Polls(<<"server-stats", "id">>, {"stats"})}
  BY ServersTables, CatalogTables DEF ServerDetailPage

LEMMA ServersListPageCovered == Covered(ServersListPage)
  <1>1. ServersListPage.shows =
          {Shows(Servers, {"servers"}),
           Shows(<<"eggs">>, {"eggs"}),
           Shows(<<"nodes">>, {"nodes"}),
           Shows(<<"quota">>, {"use", "bonus", "settings"})}
    BY CatalogTables, CoinsTables, ServersTables DEF ServersListPage, QuotaMeters
  <1>2. ServersListPage.acts =
          {Act({"servers", "use", "ports"}, {Servers, <<"quota">>})}
    BY ServersTables DEF ServersListPage
  <1>3. QED
    BY <1>1, <1>2, ActHeeds, KeyBeginsItself DEF Covered

LEMMA ServerDetailPageCovered == Covered(ServerDetailPage)
  <1>1. ServerDetailPage.acts = {Act({"servers"}, {Server}), Act(ServersApi.remove, {})}
    BY ServersTables, AdminTables DEF ServerDetailPage
  <1>2. QED
    BY <1>1, ServerDetailShows, ActHeeds, ActHeedsPolled, KeyBeginsItself DEF Covered, LeftBy

LEMMA FilesTabCovered == Covered(FilesTab)
  <1>1. FilesTab.shows =
          ServerDetailPage.shows \cup {Shows(Of("files"), {"files"})}
    BY FilesTables DEF FilesTab, Tab
  <1>2. FilesTab.acts = {Act({"files"}, {Of("files")})}
    BY FilesTables DEF FilesTab, Tab
  <1>3. QED
    BY <1>1, <1>2, ServerDetailShows, ActHeeds, KeyBeginsItself, ActHeedsPolled DEF Covered

LEMMA ModrinthTabCovered == Covered(ModrinthTab)
  <1>1. ModrinthTab.shows = ServerDetailPage.shows
    BY DEF ModrinthTab, Tab
  <1>2. ModrinthTab.acts = {Act({"files"}, {})}
    BY ModrinthTables DEF ModrinthTab, Tab
  <1>3. QED
    BY <1>1, <1>2, ServerDetailShows, ActHeeds, KeyBeginsItself, ActHeedsPolled DEF Covered

LEMMA BackupsTabCovered == Covered(BackupsTab)
  <1>1. BackupsTab.shows =
          ServerDetailPage.shows \cup {Shows(Of("backups"), {"backups"})}
    BY BackupsTables DEF BackupsTab, Tab
  <1>2. BackupsTab.acts =
          {Act({"backups"}, {Of("backups")}),
           Act({"files"}, {})}
    BY BackupsTables DEF BackupsTab, Tab
  <1>3. QED
    BY <1>1, <1>2, ServerDetailShows, ActHeeds, KeyBeginsItself, ActHeedsPolled DEF Covered

LEMMA DatabasesTabCovered == Covered(DatabasesTab)
  <1>1. DatabasesTab.shows =
          ServerDetailPage.shows \cup {Shows(<<"databases", "id">>, {"databases"})}
    BY DatabasesTables DEF DatabasesTab, Tab
  <1>2. DatabasesTab.acts =
          {Act({"databases", "use"}, {<<"databases", "id">>, <<"quota">>})}
    BY DatabasesTables DEF DatabasesTab, Tab
  <1>3. QED
    BY <1>1, <1>2, ServerDetailShows, ActHeeds, KeyBeginsItself, ActHeedsPolled DEF Covered

LEMMA SchedulesTabCovered == Covered(SchedulesTab)
  <1>1. SchedulesTab.shows =
          ServerDetailPage.shows \cup {Shows(Of("schedules"), {"schedules"})}
    BY SchedulesTables DEF SchedulesTab, Tab
  <1>2. SchedulesTab.acts = {Act({"schedules"}, {Of("schedules")})}
    BY SchedulesTables DEF SchedulesTab, Tab
  <1>3. QED
    BY <1>1, <1>2, ServerDetailShows, ActHeeds, KeyBeginsItself, ActHeedsPolled DEF Covered

LEMMA StartupTabCovered == Covered(StartupTab)
  <1>1. StartupTab.shows =
          ServerDetailPage.shows \cup {Shows(<<"eggs">>, {"eggs"})}
    BY CatalogTables DEF StartupTab, Tab
  <1>2. StartupTab.acts = {Act({"servers", "use"}, {Server})}
    BY ServersTables DEF StartupTab, Tab
  <1>3. QED
    BY <1>1, <1>2, ServerDetailShows, ActHeeds, KeyBeginsItself, ActHeedsPolled DEF Covered

LEMMA SettingsTabCovered == Covered(SettingsTab)
  <1>1. SettingsTab.shows = ServerDetailPage.shows
    BY DEF SettingsTab, Tab
  <1>2. SettingsTab.acts =
          {Act({"servers"}, {Server}),
           Act({"servers", "use"}, {Server, <<"quota">>})}
    BY ServersTables DEF SettingsTab, Tab
  <1>3. QED
    BY <1>1, <1>2, ServerDetailShows, ActHeeds, KeyBeginsItself, ActHeedsPolled DEF Covered

LEMMA SharingTabCovered == Covered(SharingTab)
  <1>1. SharingTab.shows =
          ServerDetailPage.shows \cup {Shows(Of("subusers"), {"subusers"})}
    BY SubusersTables DEF SharingTab, Tab
  <1>2. SharingTab.acts = {Act({"subusers"}, {Of("subusers")})}
    BY SubusersTables DEF SharingTab, Tab
  <1>3. QED
    BY <1>1, <1>2, ServerDetailShows, ActHeeds, KeyBeginsItself, ActHeedsPolled DEF Covered

LEMMA WalletPageCovered == Covered(WalletPage)
  <1>1. WalletPage.shows = {Shows(<<"wallet">>, {"ledger", "coins"})}
    BY CoinsTables DEF WalletPage
  <1>2. WalletPage.acts =
          {Act({"ledger", "coins"}, {<<"wallet">>}),
           Act({"ledger", "coins", "codes"}, {<<"wallet">>})}
    BY CoinsTables DEF WalletPage
  <1>3. QED
    BY <1>1, <1>2, ActHeeds, KeyBeginsItself DEF Covered

LEMMA StorePageCovered == Covered(StorePage)
  <1>1. StorePage.shows =
          {Shows(<<"store">>, {"store"}),
           Shows(<<"quota">>, {"use", "bonus", "settings"})}
    BY CatalogTables, CoinsTables DEF StorePage, QuotaMeters
  <1>2. StorePage.acts = {Act({"ledger", "coins", "bonus"}, {<<"quota">>})}
    BY CoinsTables DEF StorePage
  <1>3. QED
    BY <1>1, <1>2, ActHeeds, KeyBeginsItself DEF Covered

LEMMA AdminServersTabShows ==
  AdminServersTab.shows =
    {Shows(Admin("servers"), {"servers", "users"}), Shows(Admin("users"), {"users", "coins"})}
  BY AdminTables DEF AdminServersTab

LEMMA AdminServersTabActs ==
  AdminServersTab.acts =
    {Act({"servers", "use"}, {Admin("servers")}),
     Act(ServerRows, {Admin("servers")}),
     Act({"servers"}, {Admin("servers")})}
  BY AdminTables DEF AdminServersTab

LEMMA AdminServersTabCovered == Covered(AdminServersTab)
  BY AdminServersTabShows, AdminServersTabActs, ActHeeds, KeyBeginsItself
  DEF Covered, ServerRows

(* The open panel of one server's ports: its buttons leave the servers,    *)
(* and the deletion of another server leaves the ports.                    *)
LEMMA ServerPortsPanelCovered == Covered(ServerPortsPanel)
  <1>1. ServerPortsPanel.shows =
          AdminServersTab.shows \cup {Shows(Admin("server-allocations"), {"ports"})}
    BY AdminTables DEF ServerPortsPanel
  <1>2. ServerPortsPanel.acts = AdminServersTab.acts \cup PortButtons
    BY DEF ServerPortsPanel
  <1>3. PortButtons =
          {Act({"ports", "servers"}, {Admin("server-allocations"), Admin("allocations")})}
    BY AdminTables DEF PortButtons
  <1>4. ASSUME NEW a \in AdminServersTab.acts, NEW q \in AdminServersTab.shows
        PROVE  LeftBy(a, q.key) \/ Heeds(a, q)
    BY AdminServersTabCovered DEF Covered
  <1>5. ASSUME NEW a \in AdminServersTab.acts
        PROVE  LET q == Shows(Admin("server-allocations"), {"ports"})
               IN  LeftBy(a, q.key) \/ Heeds(a, q)
    <2>1. CASE a = Act(ServerRows, {Admin("servers")})
      BY <2>1, ShownKey, AdminTables DEF LeftBy
    <2>2. CASE a # Act(ServerRows, {Admin("servers")})
      BY <2>2, AdminServersTabActs, ActHeeds
    <2>3. QED
      BY <2>1, <2>2
  <1>6. ASSUME NEW a \in PortButtons, NEW q \in ServerPortsPanel.shows
        PROVE  LeftBy(a, q.key) \/ Heeds(a, q)
    <2>1. CASE q = Shows(Admin("servers"), {"servers", "users"})
      BY <2>1, ShownKey DEF LeftBy
    <2>2. CASE q = Shows(Admin("users"), {"users", "coins"})
      BY <1>3, <2>2, ActHeeds
    <2>3. CASE q = Shows(Admin("server-allocations"), {"ports"})
      BY <1>3, <2>3, ActHeeds, KeyBeginsItself
    <2>4. QED
      BY <1>1, <2>1, <2>2, <2>3, AdminServersTabShows
  <1>7. QED
    BY <1>1, <1>2, <1>4, <1>5, <1>6 DEF Covered

(* The quota of the account that is deleted goes with its editor.          *)
LEMMA AdminUsersTabCovered == Covered(AdminUsersTab)
  <1>. DEFINE deletion == Act(AdminApi.deleteUser, {Admin("users")})
              users == Shows(Admin("users"), {"users", "coins"})
              quota == Shows(Admin("quota"), {"use", "bonus", "settings"})
  <1>1. AdminUsersTab.shows = {users, quota}
    BY AdminTables DEF AdminUsersTab
  <1>2. AdminUsersTab.acts =
          {deletion,
           Act({"users", "sessions"}, {Admin("users")}),
           Act({"ledger", "coins"}, {Admin("users")}),
           Act({"bonus"}, {Admin("quota")})}
    BY AdminTables DEF AdminUsersTab
  <1>3. LeftBy(deletion, quota.key)
    BY ShownKey DEF LeftBy
  <1>4. Heeds(deletion, users)
    BY ActHeeds, KeyBeginsItself
  <1>5. ASSUME NEW a \in AdminUsersTab.acts, a # deletion, NEW q \in {users, quota}
        PROVE  Heeds(a, q)
    BY <1>2, <1>5, ActHeeds, KeyBeginsItself
  <1>. HIDE DEF deletion, users, quota
  <1>6. QED
    BY <1>1, <1>3, <1>4, <1>5 DEF Covered

LEMMA AdminNodesTabCovered == Covered(AdminNodesTab)
  <1>1. AdminNodesTab.shows = {Shows(Admin("nodes"), {"nodes"})}
    BY AdminTables DEF AdminNodesTab
  <1>2. AdminNodesTab.acts =
          {Act({"nodes", "ports"}, {Admin("nodes")}), Act({"nodes"}, {Admin("nodes")})}
    BY AdminTables DEF AdminNodesTab
  <1>3. QED
    BY <1>1, <1>2, ActHeeds, KeyBeginsItself DEF Covered

LEMMA AdminAllocationsTabCovered == Covered(AdminAllocationsTab)
  <1>1. AdminAllocationsTab.shows =
          {Shows(Admin("nodes"), {"nodes"}),
           Shows(<<"admin", "allocations", "node">>, {"ports", "servers"})}
    BY AdminTables DEF AdminAllocationsTab
  <1>2. AdminAllocationsTab.acts =
          {Act({"ports"}, {<<"admin", "allocations", "node">>})}
    BY AdminTables DEF AdminAllocationsTab
  <1>3. QED
    BY <1>1, <1>2, ActHeeds, KeyBeginsItself DEF Covered

LEMMA AdminCodesTabCovered == Covered(AdminCodesTab)
  <1>1. AdminCodesTab.shows = {Shows(Admin("codes"), {"codes"})}
    BY AdminTables DEF AdminCodesTab
  <1>2. AdminCodesTab.acts = {Act({"codes"}, {Admin("codes")})}
    BY AdminTables DEF AdminCodesTab
  <1>3. QED
    BY <1>1, <1>2, ActHeeds, KeyBeginsItself DEF Covered

LEMMA AdminEggsTabCovered == Covered(AdminEggsTab)
  <1>1. AdminEggsTab.shows = {Shows(<<"eggs">>, {"eggs"})}
    BY CatalogTables DEF AdminEggsTab
  <1>2. AdminEggsTab.acts = {Act({"eggs"}, {<<"eggs">>})}
    BY AdminTables DEF AdminEggsTab
  <1>3. QED
    BY <1>1, <1>2, ActHeeds, KeyBeginsItself DEF Covered

LEMMA AdminSettingsTabCovered == Covered(AdminSettingsTab)
  <1>1. AdminSettingsTab.shows = {Shows(Admin("settings"), {"settings"})}
    BY AdminTables DEF AdminSettingsTab
  <1>2. AdminSettingsTab.acts = {Act({"settings"}, {Admin("settings")})}
    BY AdminTables DEF AdminSettingsTab
  <1>3. QED
    BY <1>1, <1>2, ActHeeds, KeyBeginsItself DEF Covered

LEMMA AdminAppearanceTabCovered == Covered(AdminAppearanceTab)
  <1>1. AdminAppearanceTab.shows = {Shows(<<"admin-settings">>, {"settings"})}
    BY AdminTables DEF AdminAppearanceTab
  <1>2. AdminAppearanceTab.acts = {Act({"settings"}, {<<"admin-settings">>})}
    BY AdminTables DEF AdminAppearanceTab
  <1>3. QED
    BY <1>1, <1>2, ActHeeds, KeyBeginsItself DEF Covered

LEMMA DailyCardCovered == Covered(DailyCard)
  BY DEF Covered, DailyCard

LEMMA AccountPageCovered == Covered(AccountPage)
  <1>1. /\ SessionsCard = Shows(<<"account", "sessions">>, {"sessions"})
        /\ ApiKeysCard = Shows(<<"account", "apikeys">>, {"keys"})
    BY AccountTables DEF SessionsCard, ApiKeysCard
  <1>2. /\ SessionsCard.key = <<"account", "sessions">>
        /\ ApiKeysCard.key = <<"account", "apikeys">>
    BY <1>1 DEF Shows
  <1>3. AccountPage.shows = {SessionsCard, ApiKeysCard}
    BY DEF AccountPage
  <1>4. AccountPage.acts = {Act(AccountApi.changePassword, {}),
                            Act({"sessions"}, {<<"account", "sessions">>}),
                            Act({"keys"}, {<<"account", "apikeys">>})}
    BY <1>2, AccountTables DEF AccountPage
  <1>5. QED
    BY <1>1, <1>3, <1>4, ActHeeds, KeyBeginsItself DEF Covered, LeftBy

(* The screens without a button.                                         *)
LEMMA ReadOnlyScreens ==
  /\ DashboardPage.acts = {} /\ PlayersTab.acts = {} /\ NodesPage.acts = {}
  /\ LeaderboardPage.acts = {} /\ AchievementsPage.acts = {} /\ StatusPage.acts = {}
  /\ AdminAnalyticsTab.acts = {}
  BY DEF DashboardPage, PlayersTab, Tab, NodesPage, LeaderboardPage, AchievementsPage,
         StatusPage, AdminAnalyticsTab

LEMMA EveryScreenCovered == \A pg \in Pages : Covered(pg)
  <1>1. /\ Covered(DashboardPage) /\ Covered(PlayersTab) /\ Covered(NodesPage)
        /\ Covered(LeaderboardPage) /\ Covered(AchievementsPage) /\ Covered(StatusPage)
        /\ Covered(AdminAnalyticsTab)
    BY ReadOnlyScreens DEF Covered
  <1>2. QED
    BY <1>1, ServersListPageCovered, ServerDetailPageCovered, FilesTabCovered,
       ModrinthTabCovered, BackupsTabCovered, DatabasesTabCovered, SchedulesTabCovered,
       StartupTabCovered, SettingsTabCovered, SharingTabCovered, WalletPageCovered,
       StorePageCovered, DailyCardCovered, AccountPageCovered, AdminServersTabCovered,
       ServerPortsPanelCovered, AdminUsersTabCovered, AdminNodesTabCovered,
       AdminAllocationsTabCovered, AdminCodesTabCovered, AdminEggsTabCovered,
       AdminSettingsTabCovered, AdminAppearanceTabCovered
       DEF Pages

-----------------------------------------------------------------------------
CacheEntry == [data : {"none", "current", "behind"}, stale : BOOLEAN,
               fetch : {"none", "sent", "current", "behind"}]

Unpolled == Keys \ PolledKeys

PagesTypeOK ==
  /\ here \in BOOLEAN /\ unheard \in BOOLEAN
  /\ press \in {"none", "sent", "written"}
  /\ cache \in [Keys -> CacheEntry]

(* The button of the tour invalidates every query followed that it does    *)
(* not leave behind.                                                       *)
ButtonHeeds == \A k \in Unpolled : LeftBehind(k) \/ Invalidated(k)

(* Away from the screen nothing is fetched: no answer from before a write  *)
(* arrives after the invalidation.                                         *)
AwayIdle == ~here => \A k \in Keys : cache[k].fetch = "none"

(* With the last answer heard, what is behind is marked stale, and no fetch*)
(* under way holds an answer from before the write.                        *)
BehindMarked ==
  press # "written" /\ ~unheard =>
    \A k \in Unpolled : ~LeftBehind(k) =>
      /\ cache[k].data = "behind" => cache[k].stale
      /\ cache[k].fetch # "behind"

PagesIInv == PagesTypeOK /\ ButtonHeeds /\ AwayIdle /\ BehindMarked

(* The tour never changes, nor anything made from it.                      *)
LEMMA TourStays ==
  ASSUME tour' = tour
  PROVE  /\ Keys' = Keys /\ Unpolled' = Unpolled
         /\ \A k : LeftBehind(k)' <=> LeftBehind(k)
         /\ ButtonHeeds => ButtonHeeds'
  <1>1. Keys' = Keys /\ Unpolled' = Unpolled
    BY DEF Keys, Unpolled, PolledKeys, Followed
  <1>2. \A k : LeftBehind(k)' <=> LeftBehind(k)
    BY DEF LeftBehind
  <1>3. \A k : Invalidated(k) => Invalidated(k)'
    BY DEF Invalidated
  <1>4. QED
    BY <1>1, <1>2, <1>3 DEF ButtonHeeds

LEMMA PagesInitIInv == WebPagesInit => PagesIInv
  <1>. SUFFICES ASSUME WebPagesInit PROVE PagesIInv
    OBVIOUS
  <1>1. \A k \in Keys : cache[k] = [data |-> "none", stale |-> FALSE, fetch |-> "sent"]
    BY DEF WebPagesInit, Entry
  <1>2. PagesTypeOK
    BY DEF WebPagesInit, Entry, PagesTypeOK, CacheEntry
  <1>3. ButtonHeeds
    <2>1. PICK pg \in Pages : \E button \in pg.acts :
                                    tour = [screen |-> pg, button |-> button]
      BY DEF WebPagesInit
    <2>2. tour.screen \in Pages /\ tour.button \in tour.screen.acts
      BY <2>1
    <2>3. \A q \in tour.screen.shows : LeftBehind(q.key) \/ Heeds(tour.button, q)
      BY <2>2, EveryScreenCovered DEF Covered, LeftBehind
    <2>4. ASSUME NEW k \in Unpolled, ~LeftBehind(k) PROVE Invalidated(k)
      <3>1. PICK q \in Followed : k = q.key
        BY DEF Unpolled, Keys
      <3>2. ~q.polled
        BY <3>1 DEF Unpolled, PolledKeys
      <3>3. q \in tour.screen.shows /\ q.reads \cap tour.button.writes # {}
        BY DEF Followed
      <3>4. QED
        BY <2>3, <2>4, <3>1, <3>2, <3>3 DEF Heeds, Invalidated
    <2>5. QED
      BY <2>4 DEF ButtonHeeds
  <1>4. AwayIdle
    BY DEF WebPagesInit, AwayIdle
  <1>5. BehindMarked
    BY <1>1 DEF BehindMarked, Unpolled
  <1>6. QED
    BY <1>2, <1>3, <1>4, <1>5 DEF PagesIInv

(* A step on one entry of the cache that neither brings an answer from     *)
(* before a write nor takes a mark away without bringing a current answer. *)
LEMMA EntryStep ==
  ASSUME PagesIInv, NEW k \in Keys,
         cache' \in [Keys -> CacheEntry], \A l \in Keys \ {k} : cache'[l] = cache[l],
         tour' = tour, UNCHANGED <<here, press, unheard>>,
         ~here => cache'[k].fetch = "none",
         cache'[k].data = "behind" => cache[k].data = "behind" \/ cache[k].fetch = "behind",
         cache'[k].data = "behind" /\ cache[k].stale => cache'[k].stale \/ cache[k].fetch = "behind",
         cache'[k].fetch = "behind" => cache[k].fetch = "behind"
  PROVE  PagesIInv'
  <1>. USE DEF PagesIInv
  <1>1. /\ Keys' = Keys /\ Unpolled' = Unpolled /\ ButtonHeeds'
        /\ \A l : LeftBehind(l)' <=> LeftBehind(l)
    BY TourStays
  <1>2. PagesTypeOK'
    BY <1>1 DEF PagesTypeOK
  <1>3. AwayIdle'
    BY <1>1 DEF AwayIdle
  <1>4. BehindMarked'
    <2>1. SUFFICES ASSUME press # "written", ~unheard, NEW l \in Unpolled, ~LeftBehind(l)
                   PROVE  /\ cache'[l].data = "behind" => cache'[l].stale
                          /\ cache'[l].fetch # "behind"
      BY <1>1 DEF BehindMarked
    <2>2. l \in Keys
      BY DEF Unpolled
    <2>3. /\ cache[l].data = "behind" => cache[l].stale
          /\ cache[l].fetch # "behind"
      BY <2>1 DEF BehindMarked
    <2>4. CASE l = k
      BY <2>3, <2>4
    <2>5. CASE l # k
      BY <2>2, <2>3, <2>5
    <2>6. QED
      BY <2>4, <2>5
  <1>5. QED
    BY <1>1, <1>2, <1>3, <1>4

LEMMA PagesEntryActions ==
  ASSUME PagesIInv, NEW k \in Keys,
         \/ GrowsStale(k) \/ Poll(k) \/ PageFetchServed(k)
         \/ PageFetchArrives(k) \/ PageFetchFails(k)
  PROVE  PagesIInv'
  <1>1. cache \in [Keys -> CacheEntry] /\ cache[k] \in CacheEntry
    BY DEF PagesIInv, PagesTypeOK
  <1>2. ~here => cache[k].fetch = "none"
    BY DEF PagesIInv, AwayIdle
  <1>3. ASSUME NEW d \in {"none", "current", "behind"}, NEW s \in BOOLEAN,
               NEW f \in {"none", "sent", "current", "behind"},
               cache' = [cache EXCEPT ![k] = [data |-> d, stale |-> s, fetch |-> f]]
        PROVE  /\ cache' \in [Keys -> CacheEntry]
               /\ \A l \in Keys \ {k} : cache'[l] = cache[l]
               /\ cache'[k].data = d /\ cache'[k].stale = s /\ cache'[k].fetch = f
    <2>. DEFINE e == [data |-> d, stale |-> s, fetch |-> f]
    <2>1. e \in CacheEntry /\ e.data = d /\ e.stale = s /\ e.fetch = f
      BY DEF CacheEntry
    <2>2. cache' = [cache EXCEPT ![k] = e]
      BY <1>3
    <2>. HIDE DEF e
    <2>3. QED
      BY <1>1, <2>1, <2>2
  <1>4. CASE GrowsStale(k)
    <2>. DEFINE e == [cache[k] EXCEPT !.stale = TRUE]
    <2>1. cache' = [cache EXCEPT ![k] = e]
      BY <1>4 DEF GrowsStale
    <2>2. /\ e \in CacheEntry /\ e.stale
          /\ e.data = cache[k].data /\ e.fetch = cache[k].fetch
      BY <1>1 DEF CacheEntry
    <2>. HIDE DEF e
    <2>3. /\ cache' \in [Keys -> CacheEntry] /\ \A l \in Keys \ {k} : cache'[l] = cache[l]
          /\ cache'[k].data = cache[k].data /\ cache'[k].stale
          /\ cache'[k].fetch = cache[k].fetch
      BY <1>1, <2>1, <2>2
    <2>4. QED
      BY <1>2, <1>4, <2>3, EntryStep DEF GrowsStale
  <1>5. ASSUME NEW f \in {"none", "sent", "current"},
               cache' = [cache EXCEPT ![k].fetch = f], ~here => f = "none",
               UNCHANGED <<tour, here, press, unheard>>
        PROVE  PagesIInv'
    <2>1. cache' = [cache EXCEPT ![k] = [cache[k] EXCEPT !.fetch = f]]
      BY <1>5
    <2>2. [cache[k] EXCEPT !.fetch = f] =
            [data |-> cache[k].data, stale |-> cache[k].stale, fetch |-> f]
      BY <1>1 DEF CacheEntry
    <2>3. /\ cache' \in [Keys -> CacheEntry] /\ \A l \in Keys \ {k} : cache'[l] = cache[l]
          /\ cache'[k].data = cache[k].data /\ cache'[k].stale = cache[k].stale
          /\ cache'[k].fetch = f
      BY <1>1, <1>3, <2>1, <2>2 DEF CacheEntry
    <2>4. QED
      BY <1>5, <2>3, EntryStep
  <1>6. CASE Poll(k)
    BY <1>5, <1>6 DEF Poll
  <1>7. CASE PageFetchServed(k)
    BY <1>2, <1>5, <1>7 DEF PageFetchServed
  <1>8. CASE PageFetchFails(k)
    BY <1>5, <1>8 DEF PageFetchFails
  <1>9. CASE PageFetchArrives(k)
    <2>1. cache' = [cache EXCEPT ![k] = [data |-> cache[k].fetch, stale |-> FALSE,
                                         fetch |-> "none"]]
      BY <1>9 DEF PageFetchArrives, Entry
    <2>2. cache[k].fetch \in {"current", "behind"}
      BY <1>9 DEF PageFetchArrives
    <2>3. /\ cache' \in [Keys -> CacheEntry] /\ \A l \in Keys \ {k} : cache'[l] = cache[l]
          /\ cache'[k].data = cache[k].fetch /\ cache'[k].fetch = "none"
      BY <1>3, <2>1, <2>2
    <2>4. QED
      BY <1>9, <2>3, EntryStep DEF PageFetchArrives
  <1>10. QED
    BY <1>4, <1>6, <1>7, <1>8, <1>9

(* A step on the whole cache, entry by entry.                              *)
LEMMA PagesIntro ==
  ASSUME PagesIInv, tour' = tour,
         here' \in BOOLEAN, unheard' \in BOOLEAN, press' \in {"none", "sent", "written"},
         cache' \in [Keys -> CacheEntry],
         ~here' => \A k \in Keys : cache'[k].fetch = "none",
         press' # "written" /\ ~unheard' =>
           \A k \in Unpolled : ~LeftBehind(k) =>
             /\ cache'[k].data = "behind" => cache'[k].stale
             /\ cache'[k].fetch # "behind"
  PROVE  PagesIInv'
  <1>1. /\ Keys' = Keys /\ Unpolled' = Unpolled /\ ButtonHeeds'
        /\ \A l : LeftBehind(l)' <=> LeftBehind(l)
    BY TourStays DEF PagesIInv
  <1>2. PagesTypeOK'
    BY <1>1 DEF PagesTypeOK
  <1>3. AwayIdle'
    BY <1>1 DEF AwayIdle
  <1>4. BehindMarked'
    BY <1>1 DEF BehindMarked
  <1>5. QED
    BY <1>1, <1>2, <1>3, <1>4 DEF PagesIInv

LEMMA LeavePages == PagesIInv /\ Leave => PagesIInv'
  <1>. SUFFICES ASSUME PagesIInv, Leave PROVE PagesIInv'
    OBVIOUS
  <1>1. /\ tour' = tour /\ cache' = cache /\ press' = press /\ ~here' /\ here' \in BOOLEAN
        /\ (unheard' <=> unheard) /\ unheard' \in BOOLEAN
        /\ \A k \in Keys : cache[k].fetch = "none"
    BY DEF Leave, PagesIInv, PagesTypeOK
  <1>2. QED
    BY <1>1, PagesIntro DEF PagesIInv, PagesTypeOK, BehindMarked

LEMMA ReturnPages == PagesIInv /\ Return => PagesIInv'
  <1>. SUFFICES ASSUME PagesIInv, Return PROVE PagesIInv'
    OBVIOUS
  <1>. DEFINE refetched(k) == [data |-> cache[k].data, stale |-> cache[k].stale, fetch |-> "sent"]
  <1>1. cache \in [Keys -> CacheEntry]
    BY DEF PagesIInv, PagesTypeOK
  <1>2. \A k \in Keys : [cache[k] EXCEPT !.fetch = "sent"] = refetched(k) /\ refetched(k) \in CacheEntry
    BY <1>1 DEF CacheEntry
  <1>3. \A k \in Keys : cache'[k] = cache[k] \/ cache'[k] = refetched(k)
    BY <1>2 DEF Return
  <1>4. DOMAIN cache' = Keys /\ cache' \in [Keys -> CacheEntry]
    <2>1. \A k \in Keys : (IF cache[k].fetch = "none" /\ (cache[k].stale \/ cache[k].data = "none")
                           THEN [cache[k] EXCEPT !.fetch = "sent"] ELSE cache[k]) \in CacheEntry
      BY <1>1, <1>2
    <2>2. QED
      BY <2>1 DEF Return
  <1>5. ASSUME NEW k \in Keys
        PROVE  /\ cache'[k].data = cache[k].data
               /\ cache'[k].stale = cache[k].stale
               /\ cache'[k].fetch \in {cache[k].fetch, "sent"}
    <2>1. CASE cache'[k] = cache[k]
      BY <2>1
    <2>2. CASE cache'[k] = refetched(k)
      BY <2>2
    <2>3. QED
      BY <1>3, <2>1, <2>2
  <1>6. /\ tour' = tour /\ press' = press /\ here' /\ here' \in BOOLEAN
        /\ (unheard' <=> unheard) /\ unheard' \in BOOLEAN
    BY DEF Return, PagesIInv, PagesTypeOK
  <1>7. press # "written" /\ ~unheard =>
          \A k \in Unpolled : ~LeftBehind(k) =>
            /\ cache'[k].data = "behind" => cache'[k].stale
            /\ cache'[k].fetch # "behind"
    BY <1>5 DEF PagesIInv, BehindMarked, Unpolled
  <1>8. press \in {"none", "sent", "written"}
    BY DEF PagesIInv, PagesTypeOK
  <1>. HIDE DEF refetched
  <1>9. QED
    BY <1>4, <1>6, <1>7, <1>8, PagesIntro

LEMMA PressPages == PagesIInv /\ Press => PagesIInv'
  <1>. SUFFICES ASSUME PagesIInv, Press PROVE PagesIInv'
    OBVIOUS
  <1>1. /\ tour' = tour /\ cache' = cache /\ press = "none" /\ press' = "sent"
        /\ (here' <=> here) /\ here' \in BOOLEAN
        /\ (unheard' <=> unheard) /\ unheard' \in BOOLEAN
    BY DEF Press, PagesIInv, PagesTypeOK
  <1>2. QED
    BY <1>1, PagesIntro DEF PagesIInv, PagesTypeOK, BehindMarked, AwayIdle

LEMMA WrittenPages == PagesIInv /\ Written => PagesIInv'
  <1>. SUFFICES ASSUME PagesIInv, Written PROVE PagesIInv'
    OBVIOUS
  <1>. DEFINE overtaken(k) ==
         [cache[k] EXCEPT !.data = IF @ = "none" THEN "none" ELSE "behind",
                          !.fetch = IF @ = "current" THEN "behind" ELSE @]
  <1>1. cache \in [Keys -> CacheEntry]
    BY DEF PagesIInv, PagesTypeOK
  <1>2. \A k \in Keys : overtaken(k) \in CacheEntry
    BY <1>1 DEF CacheEntry
  <1>3. \A k \in Keys : overtaken(k).fetch = "none" <=> cache[k].fetch = "none"
    BY <1>1 DEF CacheEntry
  <1>4. cache' = [k \in Keys |-> overtaken(k)]
    BY DEF Written
  <1>. HIDE DEF overtaken
  <1>5. cache' \in [Keys -> CacheEntry]
    BY <1>2, <1>4
  <1>6. \A k \in Keys : cache'[k].fetch = "none" <=> cache[k].fetch = "none"
    BY <1>3, <1>4
  <1>7. /\ tour' = tour /\ press' = "written" /\ (here' <=> here) /\ here' \in BOOLEAN
        /\ unheard' \in BOOLEAN
    BY DEF Written, PagesIInv, PagesTypeOK
  <1>8. ~here' => \A k \in Keys : cache'[k].fetch = "none"
    BY <1>6, <1>7 DEF PagesIInv, AwayIdle
  <1>9. QED
    BY <1>5, <1>7, <1>8, PagesIntro

LEMMA PressFailsPages == PagesIInv /\ PressFails => PagesIInv'
  <1>. SUFFICES ASSUME PagesIInv, PressFails PROVE PagesIInv'
    OBVIOUS
  <1>1. /\ tour' = tour /\ cache' = cache /\ press \in {"sent", "written"} /\ press' = "none"
        /\ (here' <=> here) /\ here' \in BOOLEAN
        /\ (unheard' <=> unheard \/ press = "written") /\ unheard' \in BOOLEAN
    BY DEF PressFails, PagesIInv, PagesTypeOK
  <1>2. QED
    BY <1>1, PagesIntro DEF PagesIInv, PagesTypeOK, BehindMarked, AwayIdle

LEMMA PressAnsweredPages == PagesIInv /\ PressAnswered => PagesIInv'
  <1>. SUFFICES ASSUME PagesIInv, PressAnswered PROVE PagesIInv'
    OBVIOUS
  <1>. DEFINE marked(k) ==
         [cache[k] EXCEPT !.stale = TRUE, !.fetch = IF here THEN "sent" ELSE @]
  <1>1. cache \in [Keys -> CacheEntry]
    BY DEF PagesIInv, PagesTypeOK
  <1>2. \A k \in Keys : marked(k) \in CacheEntry /\ marked(k).stale
    BY <1>1 DEF CacheEntry
  <1>3. \A k \in Keys : /\ here => marked(k).fetch = "sent"
                        /\ ~here => marked(k).fetch = cache[k].fetch
    BY <1>1 DEF CacheEntry
  <1>4. cache' = [k \in Keys |-> IF ~Invalidated(k) THEN cache[k] ELSE marked(k)]
    BY DEF PressAnswered
  <1>. HIDE DEF marked
  <1>5. cache' \in [Keys -> CacheEntry]
    BY <1>1, <1>2, <1>4
  <1>6. /\ tour' = tour /\ press' = "none" /\ (here' <=> here) /\ here' \in BOOLEAN
        /\ unheard' \in BOOLEAN
    BY DEF PressAnswered, PagesIInv, PagesTypeOK
  <1>7. ~here => \A k \in Keys : cache[k].fetch = "none"
    BY DEF PagesIInv, AwayIdle
  <1>8. ~here' => \A k \in Keys : cache'[k].fetch = "none"
    BY <1>3, <1>4, <1>6, <1>7
  <1>9. ASSUME NEW k \in Unpolled, ~LeftBehind(k)
        PROVE  cache'[k].stale /\ cache'[k].fetch # "behind"
    <2>1. k \in Keys /\ Invalidated(k)
      BY <1>9 DEF PagesIInv, ButtonHeeds, Unpolled
    <2>2. cache'[k] = marked(k)
      BY <1>4, <2>1
    <2>3. QED
      BY <1>2, <1>3, <1>7, <2>1, <2>2
  <1>10. QED
    BY <1>5, <1>6, <1>8, <1>9, PagesIntro

LEMMA TourStep == PagesIInv /\ [WebPagesNext]_pagesVars => PagesIInv'
  <1>. SUFFICES ASSUME PagesIInv, [WebPagesNext]_pagesVars PROVE PagesIInv'
    OBVIOUS
  <1>1. CASE UNCHANGED pagesVars
    <2>1. /\ tour' = tour /\ cache' = cache /\ press' = press
          /\ (here' <=> here) /\ here' \in BOOLEAN
          /\ (unheard' <=> unheard) /\ unheard' \in BOOLEAN
      BY <1>1 DEF pagesVars, PagesIInv, PagesTypeOK
    <2>2. QED
      BY <2>1, PagesIntro DEF PagesIInv, PagesTypeOK, BehindMarked, AwayIdle
  <1>2. CASE WebPagesNext
    BY <1>2, PagesEntryActions, LeavePages, ReturnPages, PressPages, WrittenPages,
       PressFailsPages, PressAnsweredPages DEF WebPagesNext
  <1>3. QED
    BY <1>1, <1>2

(* Whatever the button and the screen, once the answer of a press was heard*)
(* no query the screen shows passes an answer from before the write off as *)
(* fresh, but for those LeftBy names: however many presses, visits         *)
(* elsewhere, failed and late fetches.                                     *)
THEOREM AnswersHeard == WebPagesSpec => []ReadYourWrites
  <1>1. PagesIInv => ReadYourWrites
    BY DEF PagesIInv, BehindMarked, ReadYourWrites, PassedOffAsFresh, Unpolled
  <1>2. QED
    BY <1>1, PagesInitIInv, TourStep, PTL DEF WebPagesSpec
=============================================================================
