--------------------------- MODULE MCCoinEconomy ---------------------------
(* Two small instances of CoinEconomy in one run: "coins" (two users'      *)
(* postings, gifts and codes, no clock) and "handlers" (one user's         *)
(* purchases and daily claims, with a clock).                              *)
EXTENDS CoinEconomy, TLC

CONSTANTS ann, bob, limited, unlimited, cpu, db

MCCodeCoins == (limited :> 2 @@ unlimited :> 1)
MCCodeMax == (limited :> 1 @@ unlimited :> 0)
MCPrice == (cpu :> 2 @@ db :> 1)
MCGiftAmounts == {1, 2}
MCAdjustments == {-1, 2}

VARIABLE part

Busy == {h \in Handlers : handler[h] # Idle}

\* Columns of two coins at the most.
CoinsPart ==
  /\ part = "coins" /\ Next
  /\ now' = 0 /\ overwritten' = {}
  /\ \A h \in Busy' : handler'[h].pc = "transfer"
  /\ \A u \in Users : coins'[u] <= 3 /\ \A r \in Reasons : ledger'[u][r] \in -2 .. 2

HandlersPart ==
  /\ part = "handlers" /\ Next
  /\ account'[bob] = "absent"
  /\ \A h \in Busy' : handler'[h].pc # "transfer"
  /\ \A c \in Codes : codeState'[c] = "unminted"
  /\ ledger'[ann]["afk_accrual"] = 0

PartsInit == part \in {"coins", "handlers"} /\ Init

PartsNext == (CoinsPart \/ HandlersPart) /\ UNCHANGED part

PartsSpec == PartsInit /\ [][PartsNext]_<<part, vars>>
=============================================================================
