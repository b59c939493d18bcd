--------------------------- MODULE MCSmallParts ----------------------------
(* Four small parts that share nothing, checked in one run under the       *)
(* fairness of all of them: the panel's keyed mutex and nonce cache, the   *)
(* web client's live console and reinstall screen.                         *)
EXTENDS KeyedMutex, NonceCache, LiveServer, ReinstallPage, TLC

CONSTANTS e1, e2

MCStamp == e1 :> 2 @@ e2 :> 3

VARIABLE part

panelVars == <<mutexVars, nonceVars>>
screenVars == <<liveServerVars, reinstallVars>>
allVars == <<part, panelVars, screenVars>>

Parts == {"mutex", "nonces", "console", "reinstall"}

\* A part whose turn it is not stays in one initial state, in which none of
\* its fair actions is enabled.
PartsInit ==
  /\ part \in Parts
  /\ MutexInit
  /\ NonceInit
  /\ LiveServerInit
  /\ ReinstallPageInit
  /\ part # "reinstall" => actual = [status |-> "offline", egg |-> "paper"]

PanelStep ==
  \/ /\ part = "mutex" /\ MutexNext
     /\ UNCHANGED <<nonceVars, screenVars>>
  \/ /\ part = "nonces" /\ NonceNext
     /\ UNCHANGED <<mutexVars, screenVars>>

ScreenStep ==
  \/ /\ part = "console" /\ LiveServerNext
     /\ UNCHANGED <<panelVars, reinstallVars>>
  \/ /\ part = "reinstall" /\ ReinstallPageNext
     /\ UNCHANGED <<panelVars, liveServerVars>>

PartsNext == (PanelStep \/ ScreenStep) /\ UNCHANGED part

PartsSpec ==
  /\ PartsInit /\ [][PartsNext]_allVars
  /\ MutexFairness /\ LiveServerFairness /\ ReinstallPageFairness
=============================================================================
