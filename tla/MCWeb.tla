-------------------------------- MODULE MCWeb --------------------------------
(* What a browser does and the sessions it does it with: parts that share  *)
(* nothing, checked in one run.  "sessions" and "heartbeats" are the       *)
(* panel's side (Sessions, AfkSession), the others the web client's.       *)
EXTENDS Sessions, AfkSession, AfkPage, WebSession, FilesTab, WebForms, WebPages,
        FavoriteStars

MCDefaultWindow == [min |-> 3, max |-> 4]
MCWindows == {MCDefaultWindow, [min |-> 4, max |-> 3], [min |-> 3, max |-> 6]}

VARIABLE part

afkVars == vars
panelVars == <<sessionsVars, afkVars>>
tabVars == <<afkPageVars, webSessionVars>>
screenVars == <<filesVars, formVars, pagesVars, starsVars>>
allVars == <<part, panelVars, tabVars, screenVars>>

Parts == {"sessions", "heartbeats", "afk page", "sign-in", "files", "forms",
          "pages", "stars"}

\* A part whose turn it is not stays in one initial state.
PartsInit ==
  /\ part \in Parts
  /\ SessionsInit
  /\ Init /\ (part # "heartbeats" => window = MCDefaultWindow)
  /\ AfkPageInit
  /\ WebSessionInit
  /\ FilesInit /\ (part # "files" => latest = CHOOSE o \in FileOps : TRUE)
  /\ WebFormsInit /\ (part # "forms" => \A s \in Subjects, f \in Fields : rows[s][f] = 0)
  /\ WebPagesInit /\ (part # "pages" => LeavesForGood)
  /\ FavoriteStarsInit /\ (part # "stars" => favorites = {})

PanelStep ==
  \/ /\ part = "sessions" /\ SessionsNext
     /\ UNCHANGED <<afkVars, tabVars, screenVars>>
  \/ /\ part = "heartbeats" /\ Next
     /\ UNCHANGED <<sessionsVars, tabVars, screenVars>>

TabsStep ==
  \/ /\ part = "afk page" /\ AfkPageNext
     /\ UNCHANGED <<panelVars, webSessionVars, screenVars>>
  \/ /\ part = "sign-in" /\ WebSessionNext
     /\ UNCHANGED <<panelVars, afkPageVars, screenVars>>

ScreenStep ==
  \/ /\ part = "files" /\ FilesNext
     /\ UNCHANGED <<panelVars, tabVars, formVars, pagesVars, starsVars>>
  \/ /\ part = "forms" /\ WebFormsNext
     /\ UNCHANGED <<panelVars, tabVars, filesVars, pagesVars, starsVars>>
  \/ /\ part = "pages" /\ WebPagesNext
     /\ UNCHANGED <<panelVars, tabVars, filesVars, formVars, starsVars>>
  \/ /\ part = "stars" /\ FavoriteStarsNext
     /\ UNCHANGED <<panelVars, tabVars, filesVars, formVars, pagesVars>>

PartsNext == (PanelStep \/ TabsStep \/ ScreenStep) /\ UNCHANGED part

PartsSpec == PartsInit /\ [][PartsNext]_allVars
=============================================================================
