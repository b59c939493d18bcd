-------------------------- MODULE CoinEconomyProofs --------------------------
(* The balances of the coin economy, for any users, codes, items, handlers *)
(* and amounts.                                                            *)
EXTENDS CoinEconomy, SumTheorems, TLAPS

(* A posting that CanPost allows keeps balances and ledger typed and equal.*)
LEMMA PostKeepsBalance ==
  ASSUME IInv, NEW u \in Users, NEW r \in Reasons, NEW n \in Int,
         CanPost(u, n), Post(u, r, n)
  PROVE  /\ coins' \in [Users -> 0 .. MaxBalance]
         /\ ledger' \in [Users -> [Reasons -> Int]]
         /\ BalanceMatchesLedger'
  <1> USE DEF IInv, TypeOK
  <1>1. coins[u] \in 0 .. MaxBalance /\ ledger[u] \in [Reasons -> Int] /\ MaxBalance \in Nat
    BY EconomyAssumption DEF EconomyAssumption
  <1>2. coins[u] + n \in 0 .. MaxBalance
    BY <1>1 DEF CanPost
  <1>3. coins' \in [Users -> 0 .. MaxBalance]
    BY <1>2 DEF Post
  <1>4. ledger' \in [Users -> [Reasons -> Int]]
    BY <1>1 DEF Post
  <1>5. ASSUME NEW v \in Users PROVE coins'[v] = LedgerTotal(v)'
    <2>1. coins[v] = LedgerTotal(v)
      BY DEF BalanceMatchesLedger
    <2>2. CASE v # u
      BY <2>1, <2>2 DEF Post, LedgerTotal
    <2>3. CASE v = u
      <3>1. coins'[u] = coins[u] + n
        BY DEF Post
      <3>2. ledger'[u] = [ledger[u] EXCEPT ![r] = @ + n]
        BY DEF Post
      <3>3. LedgerTotal(u)' = LedgerTotal(u) + n
        BY <1>1, <3>2 DEF LedgerTotal, Reasons
      <3>4. QED
        BY <2>1, <2>3, <3>1, <3>3
    <2>4. QED
      BY <2>2, <2>3
  <1>6. QED
    BY <1>3, <1>4, <1>5 DEF BalanceMatchesLedger

LEMMA AddEntryKeepsBalance ==
  ASSUME IInv, NEW u \in Users, NEW r \in Reasons, NEW n \in Int, AddEntry(u, r, n)
  PROVE  /\ coins' \in [Users -> 0 .. MaxBalance]
         /\ ledger' \in [Users -> [Reasons -> Int]]
         /\ BalanceMatchesLedger'
  BY PostKeepsBalance DEF AddEntry

(* A transfer between two accounts moves both balances with their ledgers. *)
LEMMA TransferKeepsBalance ==
  ASSUME IInv, NEW from \in Users, NEW to \in Users, from # to,
         NEW n \in Nat \ {0}, Transfer(from, to, n)
  PROVE  /\ coins' \in [Users -> 0 .. MaxBalance]
         /\ ledger' \in [Users -> [Reasons -> Int]]
         /\ BalanceMatchesLedger'
  <1> USE DEF IInv, TypeOK
  <1>1. /\ coins[from] \in 0 .. MaxBalance /\ ledger[from] \in [Reasons -> Int]
        /\ coins[to] \in 0 .. MaxBalance /\ ledger[to] \in [Reasons -> Int]
        /\ MaxBalance \in Nat
    BY EconomyAssumption DEF EconomyAssumption
  <1>2. /\ coins' = [coins EXCEPT ![from] = @ - n, ![to] = @ + n]
        /\ ledger' = [ledger EXCEPT ![from]["gift_sent"] = @ - n,
                                    ![to]["gift_received"] = @ + n]
        /\ coins[from] - n >= 0 /\ coins[to] <= MaxBalance - n
    BY DEF Transfer
  <1>3. coins' \in [Users -> 0 .. MaxBalance]
    BY <1>1, <1>2
  <1>4. ledger' \in [Users -> [Reasons -> Int]]
    <2> DEFINE sent == [ledger[from] EXCEPT !["gift_sent"] = @ - n]
               received == [ledger[to] EXCEPT !["gift_received"] = @ + n]
    <2>1. sent \in [Reasons -> Int] /\ received \in [Reasons -> Int]
      BY <1>1 DEF Reasons
    <2>2. ledger' = [ledger EXCEPT ![from] = sent, ![to] = received]
      BY <1>1, <1>2
    <2> HIDE DEF sent, received
    <2>3. QED
      BY <2>1, <2>2
  <1>5. ledger'[from] = [ledger[from] EXCEPT !["gift_sent"] = @ - n]
    BY <1>1, <1>2
  <1>6. ledger'[to] = [ledger[to] EXCEPT !["gift_received"] = @ + n]
    BY <1>1, <1>2
  <1>7. LedgerTotal(from)' = LedgerTotal(from) - n
    BY <1>1, <1>5 DEF LedgerTotal, Reasons
  <1>8. LedgerTotal(to)' = LedgerTotal(to) + n
    BY <1>1, <1>6 DEF LedgerTotal, Reasons
  <1>9. \A v \in Users \ {from, to} : LedgerTotal(v)' = LedgerTotal(v)
    BY <1>2 DEF LedgerTotal
  <1>10. BalanceMatchesLedger'
    BY <1>1, <1>2, <1>7, <1>8, <1>9 DEF BalanceMatchesLedger
  <1>11. QED
    BY <1>3, <1>4, <1>10

(* Counting one more pack of an item for a user.                           *)
LEMMA OneMorePack ==
  ASSUME NEW f \in [Users -> [Items -> Nat]], NEW u \in Users, NEW i \in Items
  PROVE  [f EXCEPT ![u][i] = @ + 1] \in [Users -> [Items -> Nat]]
  <1> DEFINE row == [f[u] EXCEPT ![i] = @ + 1]
  <1>1. row \in [Items -> Nat]
    OBVIOUS
  <1>2. [f EXCEPT ![u][i] = @ + 1] = [f EXCEPT ![u] = row]
    OBVIOUS
  <1> HIDE DEF row
  <1>3. QED
    BY <1>1, <1>2

(* The actions on wallets that are not part of a handler.                  *)
LEMMA UserStepIInv ==
  ASSUME IInv, NEW u \in Users, UserStep(u)
  PROVE  IInv'
  <1> USE EconomyAssumption DEF EconomyAssumption
  <1>1. CASE Register(u)
    BY <1>1 DEF Register, wallet, codeVars, history, IInv, TypeOK, HandlerTyped,
                BalanceMatchesLedger, LedgerTotal
  <1>2. CASE DeleteUser(u)
    <2> USE <1>2 DEF DeleteUser, codeVars, history
    <2>1. TypeOK'
      BY DEF IInv, TypeOK, NoLedger, NoPacks
    <2>2. HandlerTyped'
      BY DEF IInv, HandlerTyped
    <2>3. BalanceMatchesLedger'
      BY DEF IInv, TypeOK, BalanceMatchesLedger, LedgerTotal, NoLedger, Reasons
    <2>4. QED
      BY <2>1, <2>2, <2>3 DEF IInv
  <1>3. CASE AdminAdjust(u)
    <2>1. PICK n \in Adjustments : AddEntry(u, "admin_adjustment", n)
      BY <1>3 DEF AdminAdjust
    <2>2. n \in Int /\ "admin_adjustment" \in Reasons
      BY DEF Reasons
    <2>3. QED
      BY <1>3, <2>1, <2>2, AddEntryKeepsBalance
      DEF AdminAdjust, codeVars, history, IInv, TypeOK, HandlerTyped
  <1>4. CASE AfkAccrual(u)
    <2>1. AddEntry(u, "afk_accrual", AfkCoins) /\ AfkCoins \in Int /\ "afk_accrual" \in Reasons
      BY <1>4 DEF AfkAccrual, Reasons
    <2>2. QED
      BY <1>4, <2>1, AddEntryKeepsBalance
      DEF AfkAccrual, codeVars, history, IInv, TypeOK, HandlerTyped
  <1>5. CASE AdminSetQuota(u)
    BY <1>5 DEF AdminSetQuota, wallet, codeVars, IInv, TypeOK, HandlerTyped,
                BalanceMatchesLedger, LedgerTotal
  <1>6. ASSUME NEW c \in Codes, Redeem(u, c) PROVE IInv'
    <2>1. AddEntry(u, "redeem_code", CodeCoins[c]) /\ CodeCoins[c] \in Int
          /\ "redeem_code" \in Reasons
      BY <1>6 DEF Redeem, Reasons
    <2>2. QED
      BY <1>6, <2>1, AddEntryKeepsBalance DEF Redeem, history, IInv, TypeOK, HandlerTyped
  <1>7. QED
    BY <1>1, <1>2, <1>3, <1>4, <1>5, <1>6 DEF UserStep

LEMMA CodeStepIInv ==
  ASSUME IInv, NEW c \in Codes, MintCode(c) \/ DeleteCode(c)
  PROVE  IInv'
  BY DEF MintCode, DeleteCode, wallet, codeVars, history, IInv, TypeOK,
         HandlerTyped, BalanceMatchesLedger, LedgerTotal

(* A handler that finishes, or goes to a step its locals fit, stays typed. *)
LEMMA FinishTyped ==
  ASSUME IInv, NEW h \in Handlers, Finish(h)
  PROVE  handler' \in [Handlers -> HandlerState] /\ HandlerTyped'
  BY DEF IInv, TypeOK, HandlerTyped, Finish, Idle, HandlerState, Steps

LEMMA BeginTyped ==
  ASSUME IInv, NEW h \in Handlers, NEW u \in Users, NEW step \in Steps, NEW a,
         Begin(h, step, u, a),
         step \in {"claim", "credit"} => a \in Nat,
         step = "transfer" => a \in Users /\ a # u,
         step \in {"grant", "refund"} => a \in Items,
         step # "idle"
  PROVE  handler' \in [Handlers -> HandlerState] /\ HandlerTyped'
  BY DEF IInv, TypeOK, HandlerTyped, Begin, HandlerState, Steps

LEMMA GotoTyped ==
  ASSUME IInv, NEW h \in Handlers, NEW step,
         Goto(h, step),
         \/ handler[h].pc = "claim" /\ step = "credit"
         \/ handler[h].pc = "grant" /\ step = "refund"
  PROVE  handler' \in [Handlers -> HandlerState] /\ HandlerTyped'
  <1>1. handler' = [handler EXCEPT ![h].pc = step] /\ handler \in [Handlers -> HandlerState]
    BY DEF Goto, IInv, TypeOK
  <1>2. /\ handler'[h].pc = step /\ handler'[h].user = handler[h].user
        /\ handler'[h].arg = handler[h].arg
        /\ \A g \in Handlers \ {h} : handler'[g] = handler[g]
    BY <1>1 DEF HandlerState
  <1>3. handler' \in [Handlers -> HandlerState]
    <2>1. step \in Steps
      BY DEF Steps
    <2>2. QED
      BY <1>1, <2>1 DEF HandlerState
  <1>4. HandlerTyped'
    BY <1>2 DEF IInv, HandlerTyped
  <1>5. QED
    BY <1>3, <1>4

LEMMA DailyIInv ==
  ASSUME IInv, NEW h \in Handlers, NEW u \in Users,
         DailyBegin(h, u) \/ DailyClaim(h) \/ DailyCredit(h)
  PROVE  IInv'
  <1> USE EconomyAssumption DEF EconomyAssumption
  <1>1. CASE DailyBegin(h, u)
    <2>1. handler' \in [Handlers -> HandlerState] /\ HandlerTyped'
      BY <1>1, BeginTyped DEF DailyBegin, Steps, IInv, TypeOK
    <2>2. QED
      BY <1>1, <2>1 DEF DailyBegin, wallet, codeVars, history, IInv, TypeOK,
                        BalanceMatchesLedger, LedgerTotal
  <1>2. CASE DailyClaim(h)
    <2>1. handler' \in [Handlers -> HandlerState] /\ HandlerTyped'
      BY <1>2, FinishTyped, GotoTyped DEF DailyClaim
    <2>2. PICK v \in Users, t \in Nat : v = handler[h].user /\ t = handler[h].arg
      BY <1>2 DEF DailyClaim, IInv, HandlerTyped
    <2>3. /\ lastClaim' \in [Users -> Nat \cup {-1}]
          /\ claims' \in [Users -> Nat]
      <3>1. \/ lastClaim' = [lastClaim EXCEPT ![v] = t] /\ claims' = [claims EXCEPT ![v] = @ + 1]
            \/ UNCHANGED <<lastClaim, claims>>
        BY <1>2, <2>2 DEF DailyClaim
      <3>2. lastClaim \in [Users -> Nat \cup {-1}] /\ claims \in [Users -> Nat]
        BY DEF IInv, TypeOK
      <3>3. QED
        BY <3>1, <3>2
    <2>4. QED
      BY <1>2, <2>1, <2>3 DEF DailyClaim, wallet, codeVars, IInv, TypeOK,
                              BalanceMatchesLedger, LedgerTotal
  <1>3. CASE DailyCredit(h)
    <2>1. handler' \in [Handlers -> HandlerState] /\ HandlerTyped'
      BY <1>3, FinishTyped DEF DailyCredit
    <2>2. PICK v \in Users : v = handler[h].user
      BY <1>3 DEF DailyCredit, IInv, HandlerTyped
    <2>3. \/ AddEntry(v, "daily_reward", DailyAmount) /\ UNCHANGED lostClaims
          \/ lostClaims' = [lostClaims EXCEPT ![v] = @ + 1] /\ UNCHANGED wallet
      BY <1>3, <2>2 DEF DailyCredit
    <2>4. lostClaims' \in [Users -> Nat]
      <3>1. lostClaims \in [Users -> Nat]
        BY DEF IInv, TypeOK
      <3>2. lostClaims' = lostClaims \/ lostClaims' = [lostClaims EXCEPT ![v] = @ + 1]
        BY <2>3
      <3>3. QED
        BY <3>1, <3>2
    <2>5. /\ coins' \in [Users -> 0 .. MaxBalance]
          /\ ledger' \in [Users -> [Reasons -> Int]]
          /\ BalanceMatchesLedger'
      BY <2>3, AddEntryKeepsBalance
      DEF Reasons, wallet, IInv, TypeOK, BalanceMatchesLedger, LedgerTotal
    <2>6. QED
      BY <1>3, <2>1, <2>4, <2>5 DEF DailyCredit, codeVars, IInv, TypeOK
  <1>4. QED
    BY <1>1, <1>2, <1>3

LEMMA GiftIInv ==
  ASSUME IInv, NEW h \in Handlers, NEW u \in Users, NEW to \in Users,
         GiftLookup(h, u, to) \/ GiftTransfer(h)
  PROVE  IInv'
  <1> USE EconomyAssumption DEF EconomyAssumption
  <1>1. CASE GiftLookup(h, u, to)
    <2>1. handler' \in [Handlers -> HandlerState] /\ HandlerTyped'
      BY <1>1, BeginTyped DEF GiftLookup, Steps
    <2>2. QED
      BY <1>1, <2>1 DEF GiftLookup, wallet, codeVars, history, IInv, TypeOK,
                        BalanceMatchesLedger, LedgerTotal
  <1>2. CASE GiftTransfer(h)
    <2>1. handler' \in [Handlers -> HandlerState] /\ HandlerTyped'
      BY <1>2, FinishTyped DEF GiftTransfer
    <2>2. PICK v \in Users, w \in Users :
            v = handler[h].user /\ w = handler[h].arg /\ v # w
      BY <1>2 DEF GiftTransfer, IInv, HandlerTyped
    <2>3. (\E n \in GiftAmounts : Transfer(v, w, n)) \/ UNCHANGED wallet
      BY <1>2, <2>2 DEF GiftTransfer
    <2>4. /\ coins' \in [Users -> 0 .. MaxBalance]
          /\ ledger' \in [Users -> [Reasons -> Int]]
          /\ BalanceMatchesLedger'
      BY <2>2, <2>3, TransferKeepsBalance
      DEF wallet, IInv, TypeOK, BalanceMatchesLedger, LedgerTotal
    <2>5. QED
      BY <1>2, <2>1, <2>4 DEF GiftTransfer, codeVars, history, IInv, TypeOK
  <1>3. QED
    BY <1>1, <1>2

LEMMA StoreIInv ==
  ASSUME IInv, NEW h \in Handlers, NEW u \in Users, NEW i \in Items,
         PurchaseDebit(h, u, i) \/ PurchaseGrant(h) \/ PurchaseRefund(h)
  PROVE  IInv'
  <1> USE EconomyAssumption DEF EconomyAssumption
  <1>1. CASE PurchaseDebit(h, u, i)
    <2>1. handler' \in [Handlers -> HandlerState] /\ HandlerTyped'
      BY <1>1, BeginTyped DEF PurchaseDebit, Steps
    <2>2. AddEntry(u, "store_purchase", -Price[i]) /\ -Price[i] \in Int
          /\ "store_purchase" \in Reasons
      BY <1>1 DEF PurchaseDebit, Reasons
    <2>3. QED
      BY <1>1, <2>1, <2>2, AddEntryKeepsBalance
      DEF PurchaseDebit, codeVars, history, IInv, TypeOK
  <1>2. CASE PurchaseGrant(h)
    <2>1. handler' \in [Handlers -> HandlerState] /\ HandlerTyped'
      BY <1>2, FinishTyped, GotoTyped DEF PurchaseGrant
    <2>2. PICK v \in Users, j \in Items : v = handler[h].user /\ j = handler[h].arg
      BY <1>2 DEF PurchaseGrant, IInv, HandlerTyped
    <2>3. bonus' \in [Users -> [Items -> Nat]]
      <3>1. bonus' = bonus \/ bonus' = [bonus EXCEPT ![v][j] = @ + 1]
        BY <1>2, <2>2 DEF PurchaseGrant
      <3>2. PICK f \in [Users -> [Items -> Nat]] : f = bonus
        BY DEF IInv, TypeOK
      <3>3. [f EXCEPT ![v][j] = @ + 1] \in [Users -> [Items -> Nat]]
        BY OneMorePack
      <3>4. QED
        BY <3>1, <3>2, <3>3
    <2>4. QED
      BY <1>2, <2>1, <2>3 DEF PurchaseGrant, wallet, codeVars, history, IInv, TypeOK,
                              BalanceMatchesLedger, LedgerTotal
  <1>3. CASE PurchaseRefund(h)
    <2>1. handler' \in [Handlers -> HandlerState] /\ HandlerTyped'
      BY <1>3, FinishTyped DEF PurchaseRefund
    <2>2. PICK v \in Users, j \in Items : v = handler[h].user /\ j = handler[h].arg
      BY <1>3 DEF PurchaseRefund, IInv, HandlerTyped
    <2>3. \/ AddEntry(v, "store_refund", Price[j]) /\ UNCHANGED lostPacks
          \/ lostPacks' = [lostPacks EXCEPT ![v][j] = @ + 1] /\ UNCHANGED wallet
      BY <1>3, <2>2 DEF PurchaseRefund
    <2>4. lostPacks' \in [Users -> [Items -> Nat]]
      <3>1. lostPacks' = lostPacks \/ lostPacks' = [lostPacks EXCEPT ![v][j] = @ + 1]
        BY <2>3
      <3>2. PICK f \in [Users -> [Items -> Nat]] : f = lostPacks
        BY DEF IInv, TypeOK
      <3>3. [f EXCEPT ![v][j] = @ + 1] \in [Users -> [Items -> Nat]]
        BY OneMorePack
      <3>4. QED
        BY <3>1, <3>2, <3>3
    <2>5. /\ coins' \in [Users -> 0 .. MaxBalance]
          /\ ledger' \in [Users -> [Reasons -> Int]]
          /\ BalanceMatchesLedger'
      BY <2>3, AddEntryKeepsBalance
      DEF Reasons, wallet, IInv, TypeOK, BalanceMatchesLedger, LedgerTotal
    <2>6. QED
      BY <1>3, <2>1, <2>4, <2>5 DEF PurchaseRefund, codeVars, IInv, TypeOK
  <1>4. QED
    BY <1>1, <1>2, <1>3

LEMMA RestartIInv ==
  ASSUME IInv, Restart
  PROVE  IInv'
  <1>1. \A S \in SUBSET Handlers : Cardinality(S) \in Nat
    BY EconomyAssumption, FS_Subset, FS_CardinalityType DEF EconomyAssumption
  <1>2. /\ \A u \in Users : Cardinality(InFlightClaims(u)) \in Nat
        /\ \A u \in Users, s \in Steps, a \in Items : Cardinality(InFlight(u, s, a)) \in Nat
    BY <1>1 DEF InFlight, InFlightClaims
  <1>3. lostClaims' \in [Users -> Nat]
    BY <1>2 DEF Restart, IInv, TypeOK
  <1>4. lostPacks' \in [Users -> [Items -> Nat]]
    BY <1>2 DEF Restart, Steps, IInv, TypeOK
  <1>5. handler' \in [Handlers -> HandlerState] /\ HandlerTyped'
    BY DEF Restart, HandlerState, Steps, Idle, HandlerTyped
  <1>6. QED
    BY <1>3, <1>4, <1>5 DEF Restart, wallet, codeVars, IInv, TypeOK,
                            BalanceMatchesLedger, LedgerTotal

LEMMA InitIInv == Init => IInv
  <1> SUFFICES ASSUME Init PROVE IInv
    OBVIOUS
  <1>1. TypeOK
    BY EconomyAssumption DEF EconomyAssumption, Init, TypeOK, NoLedger, NoPacks,
                             HandlerState, Steps, Idle
  <1>2. HandlerTyped
    BY DEF Init, HandlerTyped, Idle
  <1>3. BalanceMatchesLedger
    BY DEF Init, BalanceMatchesLedger, LedgerTotal, NoLedger, Reasons
  <1>4. QED
    BY <1>1, <1>2, <1>3 DEF IInv

LEMMA NextIInv == IInv /\ [Next]_vars => IInv'
  <1> SUFFICES ASSUME IInv, [Next]_vars PROVE IInv'
    OBVIOUS
  <1>1. ASSUME NEW h \in Handlers, HandlerStep(h) PROVE IInv'
    BY <1>1, DailyIInv, GiftIInv, StoreIInv DEF HandlerStep, DailyClaim,
       DailyCredit, GiftTransfer, PurchaseGrant, PurchaseRefund, IInv, HandlerTyped
  <1>2. CASE Tick
    BY <1>2 DEF Tick, wallet, codeVars, history, IInv, TypeOK, HandlerTyped,
                BalanceMatchesLedger, LedgerTotal
  <1>3. CASE UNCHANGED vars
    BY <1>3 DEF vars, wallet, codeVars, history, IInv, TypeOK, HandlerTyped,
                BalanceMatchesLedger, LedgerTotal
  <1>4. QED
    BY <1>1, <1>2, <1>3, UserStepIInv, CodeStepIInv, RestartIInv DEF Next

(* Every variable of the coin economy keeps its type; balances stay between *)
(* zero and the largest one for any users, codes, prices and handlers.      *)
THEOREM TypeCorrect == Spec => []TypeOK
  <1>1. IInv => TypeOK
    BY DEF IInv
  <1>2. QED
    BY <1>1, InitIInv, NextIInv, PTL DEF Spec

(* repo.Ledger and its callers: users.coins is always the sum of the user's *)
(* ledger rows, for any users, codes, prices and interleaving of handlers.  *)
THEOREM BalanceIsLedger == Spec => []BalanceMatchesLedger
  <1>1. IInv => BalanceMatchesLedger
    BY DEF IInv
  <1>2. QED
    BY <1>1, InitIInv, NextIInv, PTL DEF Spec

-----------------------------------------------------------------------------
(* Which steps move which column of a ledger.                              *)

LEMMA Posted ==
  ASSUME IInv, NEW u \in Users, NEW r \in Reasons, NEW n \in Int, AddEntry(u, r, n)
  PROVE  /\ Active(u)
         /\ \A v \in Users, s \in Reasons :
              ledger'[v][s] = IF v = u /\ s = r THEN ledger[v][s] + n ELSE ledger[v][s]
  BY DEF IInv, TypeOK, AddEntry, CanPost, Post

LEMMA Transferred ==
  ASSUME IInv, NEW from \in Users, NEW to \in Users, from # to, NEW n \in Nat \ {0},
         Transfer(from, to, n)
  PROVE  \A v \in Users, s \in Reasons :
           ledger'[v][s] = CASE v = from /\ s = "gift_sent" -> ledger[v][s] - n
                             [] v = to /\ s = "gift_received" -> ledger[v][s] + n
                             [] OTHER -> ledger[v][s]
  <1>1. ledger'[from] = [ledger[from] EXCEPT !["gift_sent"] = @ - n]
    BY DEF Transfer, IInv, TypeOK
  <1>2. ledger'[to] = [ledger[to] EXCEPT !["gift_received"] = @ + n]
    BY DEF Transfer, IInv, TypeOK
  <1>3. \A v \in Users \ {from, to} : ledger'[v] = ledger[v]
    BY DEF Transfer, IInv, TypeOK
  <1>4. ledger[from] \in [Reasons -> Int] /\ ledger[to] \in [Reasons -> Int]
    BY DEF IInv, TypeOK
  <1>5. QED
    BY <1>1, <1>2, <1>3, <1>4 DEF Reasons

\* The user of a handler, and what it is doing it with.
LEMMA LocalsAre ==
  ASSUME IInv, NEW h \in Handlers, handler[h].pc # "idle"
  PROVE  /\ handler[h].user \in Users
         /\ handler[h].pc \in {"claim", "credit"} => handler[h].arg \in Nat
         /\ handler[h].pc = "transfer" =>
              handler[h].arg \in Users /\ handler[h].arg # handler[h].user
         /\ handler[h].pc \in {"grant", "refund"} => handler[h].arg \in Items
  BY DEF IInv, HandlerTyped

MovesColumn(u, r) ==
  \/ DeleteUser(u)
  \/ r = "admin_adjustment" /\ AdminAdjust(u)
  \/ r = "afk_accrual" /\ AfkAccrual(u)
  \/ r = "redeem_code" /\ \E c \in Codes : Redeem(u, c)
  \/ \E h \in Handlers :
       \/ r = "daily_reward" /\ DailyCredit(h) /\ handler[h].user = u
       \/ r \in {"gift_sent", "gift_received"} /\ GiftTransfer(h)
       \/ r = "store_purchase" /\ \E i \in Items : PurchaseDebit(h, u, i)
       \/ r = "store_refund" /\ PurchaseRefund(h) /\ handler[h].user = u

LEMMA ColumnsMoved ==
  ASSUME IInv, [Next]_vars, NEW u \in Users, NEW r \in Reasons
  PROVE  ledger'[u][r] = ledger[u][r] \/ MovesColumn(u, r)
  <1> USE EconomyAssumption DEF EconomyAssumption
  <1>1. ASSUME NEW v \in Users, UserStep(v) PROVE ledger'[u][r] = ledger[u][r] \/ MovesColumn(u, r)
    <2>1. CASE Register(v)
      BY <2>1 DEF Register, wallet
    <2>2. CASE DeleteUser(v)
      BY <2>2 DEF DeleteUser, MovesColumn, IInv, TypeOK
    <2>3. CASE AdminAdjust(v)
      <3>1. PICK n \in Adjustments : AddEntry(v, "admin_adjustment", n)
        BY <2>3 DEF AdminAdjust
      <3>2. n \in Int /\ "admin_adjustment" \in Reasons
        BY DEF Reasons
      <3>3. ledger'[u][r] = ledger[u][r] \/ (v = u /\ r = "admin_adjustment")
        BY <3>1, <3>2, Posted
      <3>4. QED
        BY <2>3, <3>3 DEF MovesColumn
    <2>4. CASE AfkAccrual(v)
      BY <2>4, Posted DEF AfkAccrual, MovesColumn, Reasons
    <2>5. CASE AdminSetQuota(v)
      BY <2>5 DEF AdminSetQuota, wallet
    <2>6. ASSUME NEW c \in Codes, Redeem(v, c)
          PROVE ledger'[u][r] = ledger[u][r] \/ MovesColumn(u, r)
      <3>1. AddEntry(v, "redeem_code", CodeCoins[c]) /\ CodeCoins[c] \in Int
        BY <2>6 DEF Redeem
      <3>2. QED
        BY <2>6, <3>1, Posted DEF MovesColumn, Reasons
    <2>7. QED
      BY <1>1, <2>1, <2>2, <2>3, <2>4, <2>5, <2>6 DEF UserStep
  <1>2. ASSUME NEW h \in Handlers, HandlerStep(h)
        PROVE  ledger'[u][r] = ledger[u][r] \/ MovesColumn(u, r)
    <2>1. CASE DailyCredit(h)
      <3>1. handler[h].user \in Users
        BY <2>1, LocalsAre DEF DailyCredit
      <3>2. AddEntry(handler[h].user, "daily_reward", DailyAmount) \/ UNCHANGED wallet
        BY <2>1 DEF DailyCredit
      <3>3. QED
        BY <2>1, <3>1, <3>2, Posted DEF MovesColumn, Reasons, wallet
    <2>2. CASE GiftTransfer(h)
      <3>1. handler[h].user \in Users /\ handler[h].arg \in Users
            /\ handler[h].arg # handler[h].user
        BY <2>2, LocalsAre DEF GiftTransfer
      <3>2. (\E n \in GiftAmounts : Transfer(handler[h].user, handler[h].arg, n))
            \/ UNCHANGED wallet
        BY <2>2 DEF GiftTransfer
      <3>3. QED
        BY <2>2, <3>1, <3>2, Transferred DEF MovesColumn, wallet
    <2>3. ASSUME NEW v \in Users, NEW i \in Items, PurchaseDebit(h, v, i)
          PROVE  ledger'[u][r] = ledger[u][r] \/ MovesColumn(u, r)
      <3>1. AddEntry(v, "store_purchase", -Price[i]) /\ -Price[i] \in Int
        BY <2>3 DEF PurchaseDebit
      <3>2. ledger'[u][r] = ledger[u][r] \/ (v = u /\ r = "store_purchase")
        BY <3>1, Posted DEF Reasons
      <3>3. QED
        BY <2>3, <3>2 DEF MovesColumn
    <2>4. CASE PurchaseRefund(h)
      <3>1. handler[h].user \in Users /\ handler[h].arg \in Items
        BY <2>4, LocalsAre DEF PurchaseRefund
      <3>2. AddEntry(handler[h].user, "store_refund", Price[handler[h].arg]) \/ UNCHANGED wallet
        BY <2>4 DEF PurchaseRefund
      <3>3. QED
        BY <2>4, <3>1, <3>2, Posted DEF MovesColumn, Reasons, wallet
    <2>5. CASE (\E v \in Users : DailyBegin(h, v)) \/ DailyClaim(h) \/ PurchaseGrant(h)
               \/ \E v, to \in Users : GiftLookup(h, v, to)
      BY <2>5 DEF DailyBegin, DailyClaim, PurchaseGrant, GiftLookup, wallet
    <2>6. QED
      BY <1>2, <2>1, <2>2, <2>3, <2>4, <2>5 DEF HandlerStep
  <1>3. CASE (\E c \in Codes : MintCode(c) \/ DeleteCode(c)) \/ Restart \/ Tick \/ UNCHANGED vars
    BY <1>3 DEF MintCode, DeleteCode, Restart, Tick, vars, wallet
  <1>4. QED
    BY <1>1, <1>2, <1>3 DEF Next

\* A deleted account stays deleted, and only an absent one is registered.
LEMMA AccountsMove ==
  ASSUME IInv, [Next]_vars, NEW u \in Users
  PROVE  \/ account'[u] = account[u]
         \/ Register(u) \/ DeleteUser(u)
  <1>1. ASSUME NEW v \in Users, UserStep(v), ~Register(u), ~DeleteUser(u)
        PROVE  account'[u] = account[u]
    <2>1. CASE Register(v) \/ DeleteUser(v)
      BY <1>1, <2>1 DEF Register, DeleteUser, IInv, TypeOK
    <2>2. CASE AdminAdjust(v) \/ AfkAccrual(v) \/ AdminSetQuota(v) \/ \E c \in Codes : Redeem(v, c)
      BY <2>2 DEF AdminAdjust, AfkAccrual, AdminSetQuota, Redeem
    <2>3. QED
      BY <1>1, <2>1, <2>2 DEF UserStep
  <1>2. ASSUME NEW h \in Handlers, HandlerStep(h) PROVE account' = account
    BY <1>2 DEF HandlerStep, DailyBegin, DailyClaim, DailyCredit, GiftLookup, GiftTransfer,
       PurchaseDebit, PurchaseGrant, PurchaseRefund
  <1>3. QED
    BY <1>1, <1>2 DEF Next, MintCode, DeleteCode, Restart, Tick, vars

\* A step of a handler leaves the others alone, and what it does to its own.
LEMMA HandlerMoves ==
  ASSUME IInv, NEW h \in Handlers, HandlerStep(h)
  PROVE  /\ \A g \in Handlers \ {h} : handler'[g] = handler[g]
         /\ handler'[h].pc = "claim" => handler'[h].arg = now
         /\ handler'[h].pc = "credit" => DailyClaim(h)
         /\ handler'[h].pc = "grant" => \E u \in Users, i \in Items : PurchaseDebit(h, u, i)
         /\ handler'[h].pc = "refund" => PurchaseGrant(h)
         /\ handler[h].pc = "credit" => DailyCredit(h)
         /\ handler[h].pc = "grant" => PurchaseGrant(h)
         /\ handler[h].pc = "refund" => PurchaseRefund(h)
  <1> USE DEF IInv, TypeOK, HandlerState
  <1>1. ASSUME NEW u \in Users, NEW step, NEW a, Begin(h, step, u, a)
        PROVE  /\ \A g \in Handlers \ {h} : handler'[g] = handler[g]
               /\ handler[h] = Idle /\ handler'[h].pc = step /\ handler'[h].arg = a
    BY <1>1 DEF Begin
  <1>2. ASSUME Finish(h)
        PROVE  (\A g \in Handlers \ {h} : handler'[g] = handler[g]) /\ handler'[h].pc = "idle"
    BY <1>2 DEF Finish, Idle
  <1>3. ASSUME NEW step, Goto(h, step)
        PROVE  /\ \A g \in Handlers \ {h} : handler'[g] = handler[g]
               /\ handler'[h].pc = step
    BY <1>3 DEF Goto
  <1>4. ASSUME NEW u \in Users, DailyBegin(h, u)
        PROVE  Begin(h, "claim", u, now)
    BY <1>4 DEF DailyBegin
  <1>5. ASSUME NEW u \in Users, NEW to \in Users, GiftLookup(h, u, to)
        PROVE  Begin(h, "transfer", u, to)
    BY <1>5 DEF GiftLookup
  <1>6. ASSUME NEW u \in Users, NEW i \in Items, PurchaseDebit(h, u, i)
        PROVE  Begin(h, "grant", u, i)
    BY <1>6 DEF PurchaseDebit
  <1>7. DailyClaim(h) => handler[h].pc = "claim" /\ (Goto(h, "credit") \/ Finish(h))
    BY DEF DailyClaim
  <1>8. PurchaseGrant(h) => handler[h].pc = "grant" /\ (Goto(h, "refund") \/ Finish(h))
    BY DEF PurchaseGrant
  <1>9. /\ DailyCredit(h) => handler[h].pc = "credit" /\ Finish(h)
        /\ GiftTransfer(h) => handler[h].pc = "transfer" /\ Finish(h)
        /\ PurchaseRefund(h) => handler[h].pc = "refund" /\ Finish(h)
    BY DEF DailyCredit, GiftTransfer, PurchaseRefund
  <1>10. Idle.pc = "idle"
    BY DEF Idle
  <1> HIDE DEF IInv, TypeOK, HandlerState
  <1>11. CASE DailyClaim(h) \/ PurchaseGrant(h)
    BY <1>2, <1>3, <1>7, <1>8, <1>11
  <1>12. CASE DailyCredit(h) \/ GiftTransfer(h) \/ PurchaseRefund(h)
    BY <1>2, <1>9, <1>12
  <1>13. CASE \E u \in Users : DailyBegin(h, u)
    BY <1>1, <1>4, <1>10, <1>13
  <1>14. CASE \E u, to \in Users : GiftLookup(h, u, to)
    BY <1>1, <1>5, <1>10, <1>14
  <1>15. CASE \E u \in Users, i \in Items : PurchaseDebit(h, u, i)
    BY <1>1, <1>6, <1>10, <1>15
  <1>16. QED
    BY <1>11, <1>12, <1>13, <1>14, <1>15 DEF HandlerStep

\* Nothing but a handler's own step and the crash moves a handler.
LEMMA HandlersStay ==
  ASSUME [Next]_vars, ~\E h \in Handlers : HandlerStep(h), ~Restart
  PROVE  handler' = handler
  <1>1. ASSUME NEW u \in Users, UserStep(u) PROVE handler' = handler
    BY <1>1 DEF UserStep, Register, DeleteUser, AdminAdjust, AfkAccrual, AdminSetQuota, Redeem
  <1>2. QED
    BY <1>1 DEF Next, MintCode, DeleteCode, Tick, vars

-----------------------------------------------------------------------------
(* Gifts.                                                                  *)

GiftNet == [u \in Users |-> ledger[u]["gift_sent"] + ledger[u]["gift_received"]]

LEMMA GiftsStep ==
  ASSUME IInv, GiftsConserve, [Next]_vars
  PROVE  GiftsConserve'
  <1> USE EconomyAssumption DEF EconomyAssumption
  <1>1. SUFFICES ASSUME \A u \in Users : account'[u] # "deleted"
                 PROVE  SumFunctionOnSet(GiftNet', Users) = 0
    BY DEF GiftsConserve, GiftNet
  <1>2. \A u \in Users : ~DeleteUser(u) /\ account[u] # "deleted"
    <2> TAKE u \in Users
    <2>1. ~DeleteUser(u)
      BY <1>1 DEF DeleteUser, IInv, TypeOK
    <2>2. account'[u] = account[u] \/ account[u] = "absent"
      BY <2>1, AccountsMove DEF Register
    <2>3. QED
      BY <1>1, <2>1, <2>2
  <1>3. SumFunctionOnSet(GiftNet, Users) = 0
    BY <1>2 DEF GiftsConserve, GiftNet
  <1>4. /\ \A u \in Users : GiftNet[u] = ledger[u]["gift_sent"] + ledger[u]["gift_received"]
        /\ \A u \in Users : GiftNet'[u] = ledger'[u]["gift_sent"] + ledger'[u]["gift_received"]
        /\ \A u \in Users : GiftNet[u] \in Int
    BY DEF GiftNet, IInv, TypeOK, Reasons
  <1>5. CASE \E h \in Handlers : GiftTransfer(h)
    <2>1. PICK h \in Handlers : GiftTransfer(h)
      BY <1>5
    <2> DEFINE from == handler[h].user
               to == handler[h].arg
    <2>2. from \in Users /\ to \in Users /\ from # to
      BY <2>1, LocalsAre DEF GiftTransfer
    <2>3. CASE UNCHANGED wallet
      BY <1>3, <2>3 DEF wallet, GiftNet
    <2>4. ASSUME NEW n \in GiftAmounts, Transfer(from, to, n)
          PROVE  SumFunctionOnSet(GiftNet', Users) = 0
      <3> HIDE DEF from, to
      <3> DEFINE mid == [GiftNet EXCEPT ![from] = @ - n]
      <3>1. n \in Nat \ {0}
        OBVIOUS
      <3>2. \A v \in Users, s \in Reasons :
              ledger'[v][s] = CASE v = from /\ s = "gift_sent" -> ledger[v][s] - n
                                [] v = to /\ s = "gift_received" -> ledger[v][s] + n
                                [] OTHER -> ledger[v][s]
        BY <2>2, <2>4, <3>1, Transferred
      <3>3. \A v \in Users : ledger[v]["gift_sent"] \in Int /\ ledger[v]["gift_received"] \in Int
        BY DEF IInv, TypeOK, Reasons
      <3>4. \A v \in Users : GiftNet'[v] = CASE v = from -> GiftNet[v] - n
                                             [] v = to -> GiftNet[v] + n
                                             [] OTHER -> GiftNet[v]
        BY <1>4, <2>2, <3>1, <3>2, <3>3 DEF Reasons
      <3>5. DOMAIN GiftNet = Users
        BY DEF GiftNet
      <3>6. \A v \in Users : mid[v] = IF v = from THEN GiftNet[v] - n ELSE GiftNet[v]
        BY <3>5 DEF GiftNet
      <3>7. SumFunctionOnSet(mid, Users) = SumFunctionOnSet(GiftNet, Users) + (mid[from] - GiftNet[from])
        <4> HIDE DEF mid
        <4>1. mid[from] \in Int /\ \A v \in Users \ {from} : mid[v] = GiftNet[v]
          BY <1>4, <2>2, <3>1, <3>6
        <4>2. QED
          BY <1>4, <2>2, <4>1, SumChanges
      <3>8. SumFunctionOnSet(GiftNet', Users) = SumFunctionOnSet(mid, Users) + (GiftNet'[to] - mid[to])
        <4> HIDE DEF mid
        <4>1. GiftNet'[to] \in Int /\ \A v \in Users \ {to} : GiftNet'[v] = mid[v]
          BY <1>4, <2>2, <3>1, <3>4, <3>6
        <4>2. \A v \in Users : mid[v] \in Int
          BY <1>4, <2>2, <3>1, <3>6
        <4>3. QED
          BY <2>2, <4>1, <4>2, SumChanges
      <3> HIDE DEF mid
      <3>9. mid[from] - GiftNet[from] = -n /\ GiftNet'[to] - mid[to] = n
        BY <1>4, <2>2, <3>1, <3>4, <3>6
      <3>10. QED
        BY <1>3, <3>1, <3>7, <3>8, <3>9
    <2>5. QED
      BY <2>1, <2>3, <2>4 DEF GiftTransfer
  <1>6. CASE ~\E h \in Handlers : GiftTransfer(h)
    <2>1. \A u \in Users : GiftNet'[u] = GiftNet[u]
      BY <1>2, <1>4, <1>6, ColumnsMoved DEF MovesColumn, Reasons
    <2>2. QED
      BY <1>3, <2>1, SumsAgree
  <1>7. QED
    BY <1>5, <1>6

LEMMA InitGifts == Init => GiftsConserve
  <1> SUFFICES ASSUME Init PROVE GiftsConserve
    OBVIOUS
  <1>1. \A u \in Users : GiftNet[u] = 0
    BY DEF Init, GiftNet, NoLedger, Reasons
  <1>2. SumFunctionOnSet(GiftNet, Users) = 0
    BY <1>1, SumOfZeros, EconomyAssumption DEF EconomyAssumption
  <1>3. QED
    BY <1>2 DEF GiftsConserve, GiftNet

(* coinsvc.Gift and Ledger.Transfer: for any users, amounts and interleaving *)
(* of lookups and transfers, gifts neither make nor destroy coins.           *)
THEOREM GiftsNeitherMakeNorDestroy == Spec => []GiftsConserve
  <1>1. IInv /\ GiftsConserve /\ [Next]_vars => IInv' /\ GiftsConserve'
    BY NextIInv, GiftsStep
  <1>2. Init => IInv /\ GiftsConserve
    BY InitIInv, InitGifts
  <1>3. QED
    BY <1>1, <1>2, PTL DEF Spec

-----------------------------------------------------------------------------
(* Redeem codes.  A code that paid a user is known by its redemption, until *)
(* the code is deleted: then every user may have been paid by it.           *)

Paid(u) == {c \in Codes : <<c, u>> \in redemptions \/ codeState[c] = "deleted"}

Redeemed == [u \in Users |-> ledger[u]["redeem_code"]]
PaidOut == [c \in Codes |-> uses[c] * CodeCoins[c]]

RedeemInv ==
  /\ SumFunctionOnSet(Redeemed, Users) <= SumFunctionOnSet(PaidOut, Codes)
  /\ \A c \in Codes : CodeMax[c] > 0 => uses[c] <= CodeMax[c]
  /\ \A u \in Users : Redeemed[u] \in Nat /\ Redeemed[u] <= SumFunctionOnSet(CodeCoins, Paid(u))
  /\ \A c \in Codes, u \in Users : <<c, u>> \in redemptions => codeState[c] # "unminted"

LEMMA RedeemTypes ==
  ASSUME IInv, RedeemInv
  PROVE  /\ IsFiniteSet(Users) /\ IsFiniteSet(Codes)
         /\ \A u \in Users : Redeemed[u] = ledger[u]["redeem_code"] /\ Redeemed[u] \in Nat
         /\ \A c \in Codes : /\ PaidOut[c] = uses[c] * CodeCoins[c] /\ PaidOut[c] \in Nat
                             /\ uses[c] \in Nat /\ CodeCoins[c] \in Nat \ {0}
         /\ \A T \in SUBSET Codes :
              IsFiniteSet(T) /\ SumFunctionOnSet(CodeCoins, T) \in Nat
         /\ \A u \in Users : Paid(u) \in SUBSET Codes
         /\ SumFunctionOnSet(Redeemed, Users) \in Int /\ SumFunctionOnSet(PaidOut, Codes) \in Int
  <1>1. IsFiniteSet(Users) /\ IsFiniteSet(Codes)
    BY EconomyAssumption DEF EconomyAssumption
  <1>2. \A u \in Users : Redeemed[u] = ledger[u]["redeem_code"] /\ Redeemed[u] \in Nat
    BY DEF Redeemed, RedeemInv
  <1>3. \A c \in Codes : /\ PaidOut[c] = uses[c] * CodeCoins[c] /\ PaidOut[c] \in Nat
                         /\ uses[c] \in Nat /\ CodeCoins[c] \in Nat \ {0}
    <2>1. \A c \in Codes : uses[c] \in Nat /\ CodeCoins[c] \in Nat \ {0}
      BY EconomyAssumption DEF IInv, TypeOK, EconomyAssumption
    <2>2. \A a \in Nat, b \in Nat : a * b \in Nat
      OBVIOUS
    <2>3. QED
      BY <2>1, <2>2 DEF PaidOut
  <1>4. ASSUME NEW T \in SUBSET Codes
        PROVE  IsFiniteSet(T) /\ SumFunctionOnSet(CodeCoins, T) \in Nat
    BY <1>1, <1>3, FS_Subset, SumIsNat
  <1>5. \A u \in Users : Paid(u) \in SUBSET Codes
    BY DEF Paid
  <1>6. QED
    BY <1>1, <1>2, <1>3, <1>4, <1>5, SumIsInt

LEMMA RedeemKeeps ==
  ASSUME IInv, RedeemInv, NEW u \in Users, NEW c \in Codes, Redeem(u, c)
  PROVE  RedeemInv'
  <1>1. /\ codeState[c] = "live" /\ <<c, u>> \notin redemptions /\ HasUsesLeft(c)
        /\ AddEntry(u, "redeem_code", CodeCoins[c])
        /\ redemptions' = redemptions \cup {<<c, u>>}
        /\ uses' = [uses EXCEPT ![c] = @ + 1]
        /\ codeState' = codeState
    BY DEF Redeem
  <1> DEFINE n == CodeCoins[c]
  <1>2. n \in Nat \ {0} /\ "redeem_code" \in Reasons /\ uses[c] \in Nat
    BY RedeemTypes DEF Reasons
  <1> HIDE DEF n
  <1>3. \A v \in Users : Redeemed'[v] = IF v = u THEN Redeemed[v] + n ELSE Redeemed[v]
    <2>1. \A v \in Users : ledger'[v]["redeem_code"] =
            IF v = u THEN ledger[v]["redeem_code"] + n ELSE ledger[v]["redeem_code"]
      BY <1>1, <1>2, Posted DEF n
    <2>2. QED
      BY <2>1 DEF Redeemed
  <1>4. \A d \in Codes : PaidOut'[d] = IF d = c THEN PaidOut[d] + n ELSE PaidOut[d]
    <2>1. \A d \in Codes : uses'[d] = IF d = c THEN uses[d] + 1 ELSE uses[d]
      BY <1>1 DEF IInv, TypeOK
    <2>2. (uses[c] + 1) * n = uses[c] * n + n
      BY <1>2
    <2>3. QED
      BY <2>1, <2>2 DEF PaidOut, n
  <1>5. SumFunctionOnSet(Redeemed', Users) = SumFunctionOnSet(Redeemed, Users) + n
    <2>1. \A v \in Users : Redeemed[v] \in Nat
      BY RedeemTypes
    <2>2. Redeemed'[u] \in Int /\ Redeemed'[u] - Redeemed[u] = n
      BY <1>2, <1>3, <2>1
    <2>3. QED
      BY <1>3, <2>1, <2>2, RedeemTypes, SumChanges
  <1>6. SumFunctionOnSet(PaidOut', Codes) = SumFunctionOnSet(PaidOut, Codes) + n
    <2>1. \A d \in Codes : PaidOut[d] \in Nat
      BY RedeemTypes
    <2>2. PaidOut'[c] \in Int /\ PaidOut'[c] - PaidOut[c] = n
      BY <1>2, <1>4, <2>1
    <2>3. QED
      BY <1>4, <2>1, <2>2, RedeemTypes, SumChanges
  <1>7. \A d \in Codes : CodeMax[d] > 0 => uses'[d] <= CodeMax[d]
    <2>1. \A d \in Codes : uses'[d] = IF d = c THEN uses[d] + 1 ELSE uses[d]
      BY <1>1 DEF IInv, TypeOK
    <2>2. CodeMax[c] \in Nat /\ (CodeMax[c] > 0 => uses[c] < CodeMax[c])
      BY <1>1, EconomyAssumption DEF HasUsesLeft, EconomyAssumption
    <2>3. QED
      BY <1>2, <2>1, <2>2 DEF RedeemInv
  <1>8. Paid(u)' = Paid(u) \cup {c} /\ c \notin Paid(u) /\ \A v \in Users \ {u} : Paid(v)' = Paid(v)
    BY <1>1 DEF Paid
  <1>9. SumFunctionOnSet(CodeCoins, Paid(u)') = SumFunctionOnSet(CodeCoins, Paid(u)) + n
    <2>1. IsFiniteSet(Paid(u)) /\ n \in Int /\ \A d \in Paid(u) : CodeCoins[d] \in Int
      BY <1>2, RedeemTypes
    <2>2. QED
      BY <1>8, <2>1, SumWithOneMore DEF n
  <1>10. ASSUME NEW v \in Users
         PROVE  Redeemed'[v] \in Nat /\ Redeemed'[v] <= SumFunctionOnSet(CodeCoins, Paid(v)')
    <2>1. Redeemed[v] \in Nat /\ Redeemed[v] <= SumFunctionOnSet(CodeCoins, Paid(v))
          /\ SumFunctionOnSet(CodeCoins, Paid(v)) \in Nat
      BY RedeemTypes DEF RedeemInv
    <2>2. CASE v = u
      BY <1>2, <1>3, <1>9, <2>1, <2>2
    <2>3. CASE v # u
      BY <1>3, <1>8, <2>1, <2>3
    <2>4. QED
      BY <2>2, <2>3
  <1>11. \A d \in Codes, v \in Users : <<d, v>> \in redemptions' => codeState'[d] # "unminted"
    BY <1>1 DEF RedeemInv
  <1>12. SumFunctionOnSet(Redeemed', Users) <= SumFunctionOnSet(PaidOut', Codes)
    BY <1>2, <1>5, <1>6, RedeemTypes DEF RedeemInv
  <1>13. QED
    BY <1>7, <1>10, <1>11, <1>12 DEF RedeemInv

LEMMA DeleteUserKeepsRedeem ==
  ASSUME IInv, RedeemInv, NEW u \in Users, DeleteUser(u)
  PROVE  RedeemInv'
  <1>1. /\ codeState' = codeState /\ uses' = uses
        /\ redemptions' = {r \in redemptions : r[2] # u}
        /\ ledger' = [ledger EXCEPT ![u] = NoLedger]
    BY DEF DeleteUser
  <1>2. \A v \in Users : Redeemed'[v] = IF v = u THEN 0 ELSE Redeemed[v]
    BY <1>1 DEF Redeemed, NoLedger, Reasons, IInv, TypeOK
  <1>3. SumFunctionOnSet(Redeemed', Users) = SumFunctionOnSet(Redeemed, Users) + (0 - Redeemed[u])
    <2>1. (\A v \in Users : Redeemed[v] \in Int) /\ Redeemed'[u] = 0
      BY <1>2, RedeemTypes
    <2>2. QED
      BY <1>2, <2>1, RedeemTypes, SumChanges
  <1>4. PaidOut' = PaidOut
    BY <1>1 DEF PaidOut
  <1>5. SumFunctionOnSet(Redeemed', Users) <= SumFunctionOnSet(PaidOut', Codes)
    BY <1>3, <1>4, RedeemTypes DEF RedeemInv
  <1>6. \A v \in Users \ {u} : Paid(v)' = Paid(v)
    BY <1>1 DEF Paid
  <1>7. SumFunctionOnSet(CodeCoins, Paid(u)') \in Nat
    <2>1. Paid(u)' \in SUBSET Codes
      BY DEF Paid
    <2>2. QED
      BY <2>1, RedeemTypes
  <1>8. \A v \in Users : Redeemed'[v] \in Nat
          /\ Redeemed'[v] <= SumFunctionOnSet(CodeCoins, Paid(v)')
    BY <1>2, <1>6, <1>7 DEF RedeemInv
  <1>9. QED
    BY <1>1, <1>5, <1>8 DEF RedeemInv

LEMMA DeleteCodeKeepsRedeem ==
  ASSUME IInv, RedeemInv, NEW c \in Codes, DeleteCode(c) \/ MintCode(c)
  PROVE  RedeemInv'
  <1>1. ledger' = ledger /\ uses' = uses /\ Redeemed' = Redeemed /\ PaidOut' = PaidOut
    BY DEF DeleteCode, MintCode, wallet, Redeemed, PaidOut
  <1>2. \A d \in Codes, v \in Users : <<d, v>> \in redemptions' => codeState'[d] # "unminted"
    BY DEF DeleteCode, MintCode, RedeemInv, IInv, TypeOK
  <1>3. ASSUME NEW v \in Users
        PROVE  SumFunctionOnSet(CodeCoins, Paid(v)) <= SumFunctionOnSet(CodeCoins, Paid(v)')
    <2>1. Paid(v)' \in SUBSET Codes /\ Paid(v) \in SUBSET (Paid(v)')
      BY DEF Paid, DeleteCode, MintCode, IInv, TypeOK
    <2>2. IsFiniteSet(Paid(v)') /\ \A d \in Paid(v)' : CodeCoins[d] \in Nat
      BY <2>1, RedeemTypes
    <2>3. QED
      BY <2>1, <2>2, SumOfFewer
  <1>4. ASSUME NEW v \in Users
        PROVE  Redeemed'[v] \in Nat /\ Redeemed'[v] <= SumFunctionOnSet(CodeCoins, Paid(v)')
    <2>1. Paid(v)' \in SUBSET Codes
      BY DEF Paid
    <2>2. /\ SumFunctionOnSet(CodeCoins, Paid(v)) \in Nat
          /\ SumFunctionOnSet(CodeCoins, Paid(v)') \in Nat
          /\ Redeemed[v] \in Nat /\ Redeemed[v] <= SumFunctionOnSet(CodeCoins, Paid(v))
      BY <2>1, RedeemTypes DEF RedeemInv
    <2>3. QED
      BY <1>1, <1>3, <2>2
  <1>5. QED
    BY <1>1, <1>2, <1>4 DEF RedeemInv

LEMMA RedeemStep ==
  ASSUME IInv, RedeemInv, [Next]_vars
  PROVE  RedeemInv'
  <1>1. CASE \E u \in Users : DeleteUser(u) \/ \E c \in Codes : Redeem(u, c)
    BY <1>1, RedeemKeeps, DeleteUserKeepsRedeem
  <1>2. CASE \E c \in Codes : MintCode(c) \/ DeleteCode(c)
    BY <1>2, DeleteCodeKeepsRedeem
  <1>3. ASSUME ~\E u \in Users : DeleteUser(u) \/ \E c \in Codes : Redeem(u, c),
               ~\E c \in Codes : MintCode(c) \/ DeleteCode(c)
        PROVE  RedeemInv'
    <2>1. UNCHANGED codeVars
      BY <1>3 DEF Next, UserStep, HandlerStep, Register, AdminAdjust,
         AfkAccrual, AdminSetQuota, DailyBegin, DailyClaim, DailyCredit, GiftLookup,
         GiftTransfer, PurchaseDebit, PurchaseGrant, PurchaseRefund, Restart, Tick, vars
    <2>2. \A u \in Users : ledger'[u]["redeem_code"] = ledger[u]["redeem_code"]
      BY <1>3, ColumnsMoved DEF MovesColumn, Reasons
    <2>3. /\ Redeemed' = Redeemed /\ PaidOut' = PaidOut
          /\ \A u \in Users : Paid(u)' = Paid(u)
      BY <2>1, <2>2 DEF Redeemed, PaidOut, Paid, codeVars
    <2>4. QED
      BY <2>1, <2>3 DEF RedeemInv, codeVars
  <1>4. QED
    BY <1>1, <1>2, <1>3

LEMMA InitRedeem == Init => RedeemInv
  <1> SUFFICES ASSUME Init PROVE RedeemInv
    OBVIOUS
  <1> USE EconomyAssumption DEF EconomyAssumption
  <1>1. \A u \in Users : Redeemed[u] = 0
    BY DEF Init, Redeemed, NoLedger, Reasons
  <1>2. \A c \in Codes : PaidOut[c] = 0
    BY DEF Init, PaidOut
  <1>3. SumFunctionOnSet(Redeemed, Users) = 0 /\ SumFunctionOnSet(PaidOut, Codes) = 0
    BY <1>1, <1>2, SumOfZeros
  <1>4. \A u \in Users : Paid(u) = {}
    BY DEF Init, Paid
  <1>5. \A u \in Users : SumFunctionOnSet(CodeCoins, Paid(u)) = 0
    BY <1>4, SumOfNone
  <1>6. \A c \in Codes : uses[c] = 0 /\ CodeMax[c] \in Nat
    BY DEF Init
  <1>7. redemptions = {}
    BY DEF Init
  <1>8. QED
    BY <1>1, <1>3, <1>5, <1>6, <1>7 DEF RedeemInv

LEMMA RedeemImplies == IInv /\ RedeemInv => RedeemBounded
  <1> SUFFICES ASSUME IInv, RedeemInv PROVE RedeemBounded
    OBVIOUS
  <1> DEFINE Minted == {c \in Codes : codeState[c] # "unminted"}
  <1>1. ASSUME NEW u \in Users
        PROVE  ledger[u]["redeem_code"] <= SumFunctionOnSet(CodeCoins, Minted)
    <2>1. Paid(u) \in SUBSET Minted /\ Minted \in SUBSET Codes
      BY DEF Paid, RedeemInv
    <2> HIDE DEF Minted
    <2>2. SumFunctionOnSet(CodeCoins, Paid(u)) <= SumFunctionOnSet(CodeCoins, Minted)
      <3>1. IsFiniteSet(Minted) /\ \A c \in Minted : CodeCoins[c] \in Nat
        BY <2>1, RedeemTypes
      <3>2. QED
        BY <2>1, <3>1, SumOfFewer
    <2>3. /\ SumFunctionOnSet(CodeCoins, Paid(u)) \in Nat
          /\ SumFunctionOnSet(CodeCoins, Minted) \in Nat
          /\ Redeemed[u] = ledger[u]["redeem_code"] /\ Redeemed[u] \in Nat
          /\ Redeemed[u] <= SumFunctionOnSet(CodeCoins, Paid(u))
      BY <2>1, RedeemTypes DEF RedeemInv
    <2>4. QED
      BY <2>2, <2>3
  <1>2. QED
    BY <1>1 DEF RedeemInv, RedeemBounded, Redeemed, PaidOut

(* RedeemCodes.Redeem: for any users, codes, limits and pay-outs, the use   *)
(* counters bound what was paid, max_uses bounds them, and nobody is paid   *)
(* twice for one code, deleted or not.                                      *)
THEOREM RedeemsBounded == Spec => []RedeemBounded
  <1>1. IInv /\ RedeemInv /\ [Next]_vars => IInv' /\ RedeemInv'
    BY NextIInv, RedeemStep
  <1>2. Init => IInv /\ RedeemInv
    BY InitIInv, InitRedeem
  <1>3. QED
    BY <1>1, <1>2, RedeemImplies, PTL DEF Spec

-----------------------------------------------------------------------------
(* The daily reward.                                                       *)

\* The claims recorded for u are an interval apart, and each of them was
\* credited, is being credited, or was lost.
DailyAccount(u) ==
  /\ lastClaim[u] = -1 => claims[u] = 0
  /\ lastClaim[u] # -1 =>
       (claims[u] - 1) * DailyInterval <= lastClaim[u] /\ lastClaim[u] <= now
  /\ ledger[u]["daily_reward"]
       + DailyAmount * (Cardinality(InFlightClaims(u)) + lostClaims[u])
       = DailyAmount * claims[u]

NothingDaily(u) ==
  /\ claims[u] = 0 /\ lostClaims[u] = 0 /\ lastClaim[u] = -1
  /\ ledger[u]["daily_reward"] = 0 /\ InFlightClaims(u) = {}

DailyInv ==
  /\ \A h \in Handlers : handler[h].pc = "claim" => handler[h].arg <= now
  /\ \A u \in Users : /\ account[u] = "absent" => NothingDaily(u)
                      /\ Active(u) => DailyAccount(u)

LEMMA DailyTypes ==
  ASSUME IInv, NEW u \in Users
  PROVE  /\ IsFiniteSet(InFlightClaims(u)) /\ Cardinality(InFlightClaims(u)) \in Nat
         /\ claims[u] \in Nat /\ lostClaims[u] \in Nat /\ lastClaim[u] \in Nat \cup {-1}
         /\ ledger[u]["daily_reward"] \in Int /\ now \in Nat
         /\ DailyAmount \in Nat \ {0} /\ DailyInterval \in Nat \ {0}
  <1>1. InFlightClaims(u) \in SUBSET Handlers /\ IsFiniteSet(Handlers)
    BY EconomyAssumption DEF InFlightClaims, EconomyAssumption
  <1>2. IsFiniteSet(InFlightClaims(u)) /\ Cardinality(InFlightClaims(u)) \in Nat
    BY <1>1, FS_Subset, FS_CardinalityType
  <1>3. QED
    BY <1>2, EconomyAssumption DEF IInv, TypeOK, Reasons, EconomyAssumption

\* What the accounts of the daily reward are made of stays, or time passes.
DailyStays(u) ==
  /\ claims'[u] = claims[u] /\ lostClaims'[u] = lostClaims[u] /\ lastClaim'[u] = lastClaim[u]
  /\ ledger'[u]["daily_reward"] = ledger[u]["daily_reward"]
  /\ InFlightClaims(u)' = InFlightClaims(u)

LEMMA DailyStaysKept ==
  ASSUME IInv, NEW u \in Users, DailyStays(u), now' \in Nat, now <= now'
  PROVE  /\ NothingDaily(u) => NothingDaily(u)'
         /\ DailyAccount(u) => DailyAccount(u)'
  BY DailyTypes DEF DailyStays, NothingDaily, DailyAccount

LEMMA ClaimKeepsDaily ==
  ASSUME IInv, DailyInv, NEW h \in Handlers, DailyClaim(h), NEW u \in Users
  PROVE  /\ account'[u] = "absent" => NothingDaily(u)'
         /\ Active(u)' => DailyAccount(u)'
  <1> DEFINE v == handler[h].user
             t == handler[h].arg
  <1>1. v \in Users /\ t \in Nat /\ t <= now /\ handler[h].pc = "claim"
    BY LocalsAre DEF DailyClaim, DailyInv
  <1>2. UNCHANGED <<account, lostClaims, now, ledger>>
    BY DEF DailyClaim, wallet
  <1>3. CASE Finish(h) /\ UNCHANGED <<lastClaim, claims>>
    <2>1. InFlightClaims(u)' = InFlightClaims(u)
      BY <1>1, <1>3 DEF InFlightClaims, Finish, Idle, IInv, TypeOK
    <2>2. DailyStays(u) /\ now' \in Nat /\ now <= now'
      BY <1>2, <1>3, <2>1, DailyTypes DEF DailyStays
    <2>3. QED
      BY <1>2, <2>2, DailyStaysKept DEF DailyInv, Active
  <1>4. ASSUME Due(h), lastClaim' = [lastClaim EXCEPT ![v] = t],
               claims' = [claims EXCEPT ![v] = @ + 1], Goto(h, "credit")
        PROVE  /\ account'[u] = "absent" => NothingDaily(u)'
               /\ Active(u)' => DailyAccount(u)'
    <2>1. CASE u # v
      <3>1. InFlightClaims(u)' = InFlightClaims(u)
        BY <1>1, <1>4, <2>1 DEF InFlightClaims, Goto, IInv, TypeOK, HandlerState
      <3>2. DailyStays(u) /\ now' \in Nat /\ now <= now'
        BY <1>2, <1>4, <2>1, <3>1, DailyTypes DEF DailyStays, IInv, TypeOK
      <3>3. QED
        BY <1>2, <3>2, DailyStaysKept DEF DailyInv, Active
    <2>2. CASE u = v
      <3>1. Active(u) /\ DailyAccount(u)
        BY <1>4, <2>2 DEF Due, DailyInv
      <3>2. InFlightClaims(u)' = InFlightClaims(u) \cup {h} /\ h \notin InFlightClaims(u)
        BY <1>1, <1>4, <2>2 DEF InFlightClaims, Goto, IInv, TypeOK, HandlerState
      <3>3. Cardinality(InFlightClaims(u)') = Cardinality(InFlightClaims(u)) + 1
        BY <3>2, DailyTypes, FS_AddElement
      <3>4. /\ lastClaim'[u] = t /\ claims'[u] = claims[u] + 1 /\ now' = now
            /\ ledger'[u]["daily_reward"] = ledger[u]["daily_reward"]
            /\ lostClaims'[u] = lostClaims[u]
        BY <1>2, <1>4, <2>2 DEF IInv, TypeOK
      <3> DEFINE k == Cardinality(InFlightClaims(u))
                 c == claims[u]
      <3> USE DailyTypes
      <3>5. c * DailyInterval <= t
        <4>1. CASE lastClaim[u] = -1
          BY <1>1, <3>1, <4>1 DEF DailyAccount
        <4>2. CASE lastClaim[u] # -1
          <5>1. lastClaim[u] <= t - DailyInterval /\ (c - 1) * DailyInterval <= lastClaim[u]
            BY <1>4, <2>2, <3>1, <4>2 DEF Due, DailyAccount
          <5>2. (c - 1) * DailyInterval = c * DailyInterval - DailyInterval
            OBVIOUS
          <5> HIDE DEF c
          <5>3. c * DailyInterval \in Int /\ (c - 1) * DailyInterval \in Int
            BY DEF c
          <5>4. QED
            BY <1>1, <5>1, <5>2, <5>3
        <4>3. QED
          BY <4>1, <4>2
      <3>6. ledger[u]["daily_reward"] + DailyAmount * (k + 1 + lostClaims[u]) = DailyAmount * (c + 1)
        <4>1. ledger[u]["daily_reward"] + DailyAmount * (k + lostClaims[u]) = DailyAmount * c
          BY <3>1 DEF DailyAccount
        <4>2. DailyAmount * (k + 1 + lostClaims[u]) = DailyAmount * (k + lostClaims[u]) + DailyAmount
          OBVIOUS
        <4>3. DailyAmount * (c + 1) = DailyAmount * c + DailyAmount
          OBVIOUS
        <4>4. DailyAmount * (k + lostClaims[u]) \in Int /\ DailyAmount * c \in Int
          OBVIOUS
        <4> HIDE DEF k, c
        <4>5. QED
          BY <4>1, <4>2, <4>3, <4>4
      <3>7. DailyAccount(u)'
        BY <1>1, <3>3, <3>4, <3>5, <3>6 DEF DailyAccount
      <3>8. QED
        BY <1>2, <3>1, <3>7 DEF Active
    <2>3. QED
      BY <2>1, <2>2
  <1>5. QED
    BY <1>3, <1>4 DEF DailyClaim

LEMMA CreditKeepsDaily ==
  ASSUME IInv, DailyInv, NEW h \in Handlers, DailyCredit(h), NEW u \in Users
  PROVE  /\ account'[u] = "absent" => NothingDaily(u)'
         /\ Active(u)' => DailyAccount(u)'
  <1> DEFINE v == handler[h].user
  <1>1. v \in Users /\ handler[h].pc = "credit"
    BY LocalsAre DEF DailyCredit
  <1>2. UNCHANGED <<account, lastClaim, claims, now>> /\ Finish(h)
    BY DEF DailyCredit
  <1>3. /\ DailyAmount \in Int /\ "daily_reward" \in Reasons
    BY EconomyAssumption DEF EconomyAssumption, Reasons
  <1>4. \/ AddEntry(v, "daily_reward", DailyAmount) /\ UNCHANGED lostClaims
        \/ lostClaims' = [lostClaims EXCEPT ![v] = @ + 1] /\ UNCHANGED wallet
    BY DEF DailyCredit
  <1>5. CASE u # v
    <2>1. InFlightClaims(u)' = InFlightClaims(u)
      BY <1>1, <1>2, <1>5 DEF InFlightClaims, Finish, Idle, IInv, TypeOK
    <2>2. ledger'[u]["daily_reward"] = ledger[u]["daily_reward"]
      BY <1>1, <1>3, <1>4, <1>5, Posted DEF wallet
    <2>3. lostClaims'[u] = lostClaims[u]
      BY <1>1, <1>4, <1>5 DEF IInv, TypeOK
    <2>4. DailyStays(u) /\ now' \in Nat /\ now <= now'
      BY <1>2, <2>1, <2>2, <2>3, DailyTypes DEF DailyStays
    <2>5. QED
      BY <1>2, <2>4, DailyStaysKept DEF DailyInv, Active
  <1>6. CASE u = v
    <2> DEFINE k == Cardinality(InFlightClaims(u))
               paid == ledger[u]["daily_reward"]
    <2>1. InFlightClaims(u)' = InFlightClaims(u) \ {h} /\ h \in InFlightClaims(u)
      BY <1>1, <1>2, <1>6 DEF InFlightClaims, Finish, Idle, IInv, TypeOK
    <2>2. Cardinality(InFlightClaims(u)') = k - 1 /\ k \in Nat
      BY <2>1, DailyTypes, FS_RemoveElement
    <2>3. account[u] # "absent"
      BY <2>1 DEF DailyInv, NothingDaily
    <2>4. \/ ledger'[u]["daily_reward"] = paid + DailyAmount /\ lostClaims'[u] = lostClaims[u]
          \/ ledger'[u]["daily_reward"] = paid /\ lostClaims'[u] = lostClaims[u] + 1
      BY <1>1, <1>3, <1>4, <1>6, Posted DEF wallet, IInv, TypeOK
    <2>5. SUFFICES ASSUME Active(u) PROVE DailyAccount(u)'
      BY <1>2, <2>3 DEF Active
    <2>6. paid + DailyAmount * (k + lostClaims[u]) = DailyAmount * claims[u]
      BY <2>5 DEF DailyInv, DailyAccount
    <2>7. /\ paid \in Int /\ lostClaims[u] \in Nat /\ DailyAmount \in Nat
          /\ DailyAmount * claims[u] \in Int
      BY DailyTypes
    <2> HIDE DEF k, paid
    <2>8. ledger'[u]["daily_reward"] + DailyAmount * (k - 1 + lostClaims'[u])
          = DailyAmount * claims[u]
      <3>1. CASE ledger'[u]["daily_reward"] = paid + DailyAmount /\ lostClaims'[u] = lostClaims[u]
        <4>1. DailyAmount * (k - 1 + lostClaims[u]) = DailyAmount * (k + lostClaims[u]) - DailyAmount
          BY <2>2, <2>7
        <4>2. DailyAmount * (k + lostClaims[u]) \in Int
          BY <2>2, <2>7
        <4>3. QED
          BY <2>6, <2>7, <3>1, <4>1, <4>2
      <3>2. CASE ledger'[u]["daily_reward"] = paid /\ lostClaims'[u] = lostClaims[u] + 1
        <4>1. k - 1 + (lostClaims[u] + 1) = k + lostClaims[u]
          BY <2>2, <2>7
        <4>2. QED
          BY <2>6, <3>2, <4>1
      <3>3. QED
        BY <2>4, <3>1, <3>2
    <2>9. QED
      BY <1>2, <2>2, <2>5, <2>8 DEF DailyInv, DailyAccount
  <1>7. QED
    BY <1>5, <1>6

LEMMA RestartKeepsDaily ==
  ASSUME IInv, DailyInv, Restart, NEW u \in Users
  PROVE  /\ account'[u] = "absent" => NothingDaily(u)'
         /\ Active(u)' => DailyAccount(u)'
  <1> DEFINE k == Cardinality(InFlightClaims(u))
  <1>1. /\ UNCHANGED <<account, ledger, lastClaim, claims, now>>
        /\ handler' = [h \in Handlers |-> Idle]
        /\ lostClaims'[u] = lostClaims[u] + k
    BY DEF Restart, wallet
  <1>2. InFlightClaims(u)' = {} /\ Cardinality(InFlightClaims(u)') = 0
    BY <1>1, FS_EmptySet DEF InFlightClaims, Idle
  <1>3. ASSUME account[u] = "absent" PROVE NothingDaily(u)'
    <2>1. NothingDaily(u)
      BY <1>3 DEF DailyInv
    <2>2. k = 0 /\ lostClaims[u] = 0
      BY <2>1, FS_EmptySet DEF NothingDaily
    <2>3. lostClaims'[u] = 0
      BY <1>1, <2>2
    <2>4. QED
      BY <1>1, <1>2, <2>1, <2>3 DEF NothingDaily
  <1>4. k \in Nat /\ lostClaims[u] \in Nat
    BY DailyTypes
  <1> HIDE DEF k
  <1>5. 0 + (lostClaims[u] + k) = k + lostClaims[u]
    BY <1>4
  <1>6. DailyAccount(u) => DailyAccount(u)'
    BY <1>1, <1>2, <1>5 DEF DailyAccount, k
  <1>7. QED
    BY <1>1, <1>3, <1>6 DEF DailyInv, Active

LEMMA DailyStep ==
  ASSUME IInv, DailyInv, [Next]_vars
  PROVE  DailyInv'
  <1>1. now' \in Nat /\ now <= now' /\ now \in Nat
    <2>1. \A u \in Users : UserStep(u) => now' = now
      BY DEF UserStep, Register, DeleteUser, AdminAdjust, AfkAccrual, AdminSetQuota, Redeem
    <2>2. \A h \in Handlers : HandlerStep(h) => now' = now
      BY DEF HandlerStep, DailyBegin, DailyClaim, DailyCredit, GiftLookup, GiftTransfer,
             PurchaseDebit, PurchaseGrant, PurchaseRefund
    <2>3. now' = now \/ now' = now + 1
      BY <2>1, <2>2 DEF Next, MintCode, DeleteCode, Restart, Tick, vars
    <2>4. now \in Nat
      BY DEF IInv, TypeOK
    <2>5. QED
      BY <2>3, <2>4
  <1>2. ASSUME NEW g \in Handlers, handler'[g].pc = "claim" PROVE handler'[g].arg <= now'
    <2>1. handler'[g] = handler[g] \/ handler'[g].arg = now
      <3>1. CASE \E h \in Handlers : HandlerStep(h)
        <4>1. PICK h \in Handlers : HandlerStep(h)
          BY <3>1
        <4>2. CASE g = h
          BY <1>2, <4>1, <4>2, HandlerMoves
        <4>3. CASE g # h
          BY <4>1, <4>3, HandlerMoves
        <4>4. QED
          BY <4>2, <4>3
      <3>2. CASE Restart
        BY <1>2, <3>2 DEF Restart, Idle
      <3>3. QED
        BY <3>1, <3>2, HandlersStay
    <2>2. CASE handler'[g] = handler[g]
      <3>1. handler[g].arg <= now /\ handler[g].arg \in Nat
        BY <1>2, <2>2, LocalsAre DEF DailyInv
      <3>2. QED
        BY <1>1, <2>2, <3>1
    <2>3. QED
      BY <1>1, <2>1, <2>2
  <1>3. ASSUME NEW u \in Users
        PROVE  /\ account'[u] = "absent" => NothingDaily(u)'
               /\ Active(u)' => DailyAccount(u)'
    <2>1. CASE \E h \in Handlers : DailyClaim(h) \/ DailyCredit(h)
      BY <2>1, ClaimKeepsDaily, CreditKeepsDaily
    <2>2. CASE Restart
      BY <2>2, RestartKeepsDaily
    <2>3. CASE DeleteUser(u)
      BY <2>3 DEF DeleteUser, IInv, TypeOK, Active
    <2>4. ASSUME ~\E h \in Handlers : DailyClaim(h) \/ DailyCredit(h), ~Restart, ~DeleteUser(u)
          PROVE  /\ account'[u] = "absent" => NothingDaily(u)'
                 /\ Active(u)' => DailyAccount(u)'
      <3>1. claims'[u] = claims[u] /\ lostClaims'[u] = lostClaims[u] /\ lastClaim'[u] = lastClaim[u]
        <4>1. ASSUME NEW v \in Users, UserStep(v)
              PROVE  UNCHANGED <<claims, lostClaims>> /\ lastClaim'[u] = lastClaim[u]
          BY <2>4, <4>1 DEF UserStep, Register, DeleteUser, AdminAdjust, AfkAccrual, AdminSetQuota,
             Redeem, history, IInv, TypeOK
        <4>2. ASSUME NEW h \in Handlers, HandlerStep(h)
              PROVE  UNCHANGED <<claims, lostClaims, lastClaim>>
          BY <2>4, <4>2 DEF HandlerStep, DailyBegin, GiftLookup, GiftTransfer, PurchaseDebit,
             PurchaseGrant, PurchaseRefund, history
        <4>3. QED
          BY <2>4, <4>1, <4>2 DEF Next, MintCode, DeleteCode, Tick, vars, history
      <3>2. ledger'[u]["daily_reward"] = ledger[u]["daily_reward"]
        BY <2>4, ColumnsMoved DEF MovesColumn, Reasons
      <3>3. \A g \in Handlers : /\ handler'[g].pc = "credit" <=> handler[g].pc = "credit"
                                /\ handler[g].pc = "credit" => handler'[g] = handler[g]
        <4>1. ASSUME NEW h \in Handlers, HandlerStep(h), NEW g \in Handlers
              PROVE  /\ handler'[g].pc = "credit" <=> handler[g].pc = "credit"
                     /\ handler[g].pc = "credit" => handler'[g] = handler[g]
          <5>1. CASE g = h
            BY <2>4, <4>1, <5>1, HandlerMoves
          <5>2. CASE g # h
            BY <4>1, <5>2, HandlerMoves
          <5>3. QED
            BY <5>1, <5>2
        <4>2. QED
          BY <2>4, <4>1, HandlersStay
      <3>4. InFlightClaims(u)' = InFlightClaims(u)
        BY <3>3 DEF InFlightClaims
      <3>5. DailyStays(u)
        BY <3>1, <3>2, <3>4 DEF DailyStays
      <3>6. NothingDaily(u) => DailyAccount(u)
        BY FS_EmptySet, DailyTypes DEF NothingDaily, DailyAccount
      <3>7. \/ account'[u] = account[u]
            \/ account[u] = "absent" /\ account'[u] = "active"
        BY <2>4, AccountsMove DEF Register, IInv, TypeOK
      <3>8. QED
        BY <1>1, <3>5, <3>6, <3>7, DailyStaysKept DEF DailyInv, Active
    <2>5. QED
      BY <2>1, <2>2, <2>3, <2>4
  <1>4. QED
    BY <1>2, <1>3 DEF DailyInv

LEMMA InitDaily == Init => DailyInv
  BY DEF Init, DailyInv, NothingDaily, InFlightClaims, Idle, NoLedger, Reasons, Active

\* So many intervals fit into so much time.
LEMMA IntervalsFit ==
  ASSUME NEW k \in Int, NEW d \in Nat \ {0}, NEW t \in Nat, k * d <= t
  PROVE  k <= t \div d
  <1> DEFINE q == t \div d
  <1>1. q \in Int /\ t < (q + 1) * d
    OBVIOUS
  <1> HIDE DEF q
  <1>2. SUFFICES ASSUME k >= q + 1 PROVE FALSE
    BY <1>1 DEF q
  <1>3. (q + 1) * d <= k * d
    BY <1>1, <1>2
  <1>4. (q + 1) * d \in Int /\ k * d \in Int
    BY <1>1
  <1>5. QED
    BY <1>1, <1>3, <1>4

(* coinsvc.ClaimDailyReward and DailyRewards.Claim: for any interval,       *)
(* amount and number of requests at once, a user's daily rewards never      *)
(* exceed one per interval, and each recorded claim is accounted for.       *)
THEOREM DailyRewardsRated == Spec => []DailyRate
  <1>1. IInv /\ DailyInv /\ [Next]_vars => IInv' /\ DailyInv'
    BY NextIInv, DailyStep
  <1>2. Init => IInv /\ DailyInv
    BY InitIInv, InitDaily
  <1>3. IInv /\ DailyInv => DailyRate
    <2> SUFFICES ASSUME IInv, DailyInv, NEW u \in Users, Active(u)
                 PROVE  /\ claims[u] <= 1 + now \div DailyInterval
                        /\ ledger[u]["daily_reward"]
                             + DailyAmount * (Cardinality(InFlightClaims(u)) + lostClaims[u])
                             = DailyAmount * claims[u]
      BY DEF DailyRate
    <2>1. DailyAccount(u)
      BY DEF DailyInv
    <2>2. claims[u] - 1 <= now \div DailyInterval
      <3>1. claims[u] - 1 \in Int /\ (claims[u] - 1) * DailyInterval <= now
        <4>1. CASE lastClaim[u] = -1
          BY <2>1, <4>1, DailyTypes DEF DailyAccount
        <4>2. CASE lastClaim[u] # -1
          <5>1. (claims[u] - 1) * DailyInterval \in Int
            BY DailyTypes
          <5>2. QED
            BY <2>1, <4>2, <5>1, DailyTypes DEF DailyAccount
        <4>3. QED
          BY <4>1, <4>2
      <3>2. QED
        BY <3>1, DailyTypes, IntervalsFit
    <2>3. now \div DailyInterval \in Int /\ claims[u] \in Nat
      BY DailyTypes
    <2>4. claims[u] <= 1 + now \div DailyInterval
      BY <2>2, <2>3
    <2>5. QED
      BY <2>1, <2>4 DEF DailyAccount
  <1>4. QED
    BY <1>1, <1>2, <1>3, PTL DEF Spec

-----------------------------------------------------------------------------
(* The store.  Packs that were paid for are owned, lost, or in flight; what *)
(* they cost is what was spent.                                             *)

At(h, u, step, i) ==
  handler[h].pc = step /\ handler[h].user = u /\ handler[h].arg = i

Packs(u, i) ==
  bonus[u][i] + lostPacks[u][i]
  + Cardinality(InFlight(u, "grant", i)) + Cardinality(InFlight(u, "refund", i))

SpentOnPacks(u) == NetSpend(u) = SumFunctionOnSet(PacksPaid(u), Items)

NothingBought(u) ==
  /\ NetSpend(u) = 0 /\ bonus[u] = NoPacks /\ lostPacks[u] = NoPacks
  /\ \A h \in Handlers : handler[h].pc \in {"grant", "refund"} => handler[h].user # u

StoreInv ==
  \A u \in Users : /\ account[u] = "absent" => NothingBought(u)
                   /\ Active(u) /\ u \notin overwritten => SpentOnPacks(u)

LEMMA InFlightIs ==
  ASSUME IInv, NEW u, NEW step, NEW i
  PROVE  /\ InFlight(u, step, i) = {h \in Handlers : At(h, u, step, i)}
         /\ IsFiniteSet(InFlight(u, step, i)) /\ Cardinality(InFlight(u, step, i)) \in Nat
  <1>1. ASSUME NEW h \in Handlers
        PROVE  At(h, u, step, i) <=> handler[h] = [pc |-> step, user |-> u, arg |-> i]
    BY DEF At, IInv, TypeOK, HandlerState
  <1>2. InFlight(u, step, i) = {h \in Handlers : At(h, u, step, i)}
    BY <1>1 DEF InFlight
  <1>3. InFlight(u, step, i) \in SUBSET Handlers /\ IsFiniteSet(Handlers)
    BY EconomyAssumption DEF InFlight, EconomyAssumption
  <1>4. QED
    BY <1>2, <1>3, FS_Subset, FS_CardinalityType

\* One handler enters or leaves the purchases in flight.
LEMMA InFlightMoves ==
  ASSUME IInv, IInv', NEW h \in Handlers, NEW u, NEW step, NEW i,
         \A g \in Handlers \ {h} : handler'[g] = handler[g]
  PROVE  /\ At(h, u, step, i)' <=> At(h, u, step, i) =>
              Cardinality(InFlight(u, step, i)') = Cardinality(InFlight(u, step, i))
         /\ At(h, u, step, i)' /\ ~At(h, u, step, i) =>
              Cardinality(InFlight(u, step, i)') = Cardinality(InFlight(u, step, i)) + 1
         /\ ~At(h, u, step, i)' /\ At(h, u, step, i) =>
              Cardinality(InFlight(u, step, i)') = Cardinality(InFlight(u, step, i)) - 1
  <1> DEFINE before == InFlight(u, step, i)
             after == InFlight(u, step, i)'
  <1>1. /\ before = {g \in Handlers : At(g, u, step, i)}
        /\ after = {g \in Handlers : At(g, u, step, i)'}
        /\ IsFiniteSet(before)
    <2>1. /\ before = {g \in Handlers : At(g, u, step, i)} /\ IsFiniteSet(before)
      BY InFlightIs
    <2>2. after = {g \in Handlers : At(g, u, step, i)'}
      <3>1. ASSUME NEW g \in Handlers
            PROVE  At(g, u, step, i)' <=> handler'[g] = [pc |-> step, user |-> u, arg |-> i]
        BY DEF At, IInv, TypeOK, HandlerState
      <3>2. QED
        BY <3>1 DEF InFlight
    <2>3. QED
      BY <2>1, <2>2
  <1>2. \A g \in Handlers \ {h} : At(g, u, step, i)' <=> At(g, u, step, i)
    BY DEF At
  <1> HIDE DEF before, after
  <1>3. (At(h, u, step, i)' <=> At(h, u, step, i)) => after = before
    BY <1>1, <1>2
  <1>4. At(h, u, step, i)' /\ ~At(h, u, step, i) => after = before \cup {h} /\ h \notin before
    BY <1>1, <1>2
  <1>5. ~At(h, u, step, i)' /\ At(h, u, step, i) => after = before \ {h} /\ h \in before
    BY <1>1, <1>2
  <1>6. /\ (At(h, u, step, i)' <=> At(h, u, step, i)) => Cardinality(after) = Cardinality(before)
        /\ At(h, u, step, i)' /\ ~At(h, u, step, i) => Cardinality(after) = Cardinality(before) + 1
        /\ ~At(h, u, step, i)' /\ At(h, u, step, i) => Cardinality(after) = Cardinality(before) - 1
    <2>1. h \notin before => Cardinality(before \cup {h}) = Cardinality(before) + 1
      BY <1>1, FS_AddElement
    <2>2. h \in before => Cardinality(before \ {h}) = Cardinality(before) - 1
      BY <1>1, FS_RemoveElement
    <2>3. QED
      BY <1>3, <1>4, <1>5, <2>1, <2>2
  <1>7. QED
    BY <1>6 DEF before, after

LEMMA StoreTypes ==
  ASSUME IInv, NEW u \in Users
  PROVE  /\ IsFiniteSet(Items) /\ NetSpend(u) \in Int
         /\ \A i \in Items :
              /\ PacksPaid(u)[i] = Price[i] * Packs(u, i)
              /\ bonus[u][i] \in Nat /\ lostPacks[u][i] \in Nat /\ Packs(u, i) \in Nat
              /\ Cardinality(InFlight(u, "grant", i)) \in Nat
              /\ Cardinality(InFlight(u, "refund", i)) \in Nat
              /\ Price[i] \in Nat /\ PacksPaid(u)[i] \in Nat
  <1>1. IsFiniteSet(Items) /\ \A i \in Items : Price[i] \in Nat
    BY EconomyAssumption DEF EconomyAssumption
  <1>2. NetSpend(u) \in Int
    BY DEF NetSpend, IInv, TypeOK, Reasons
  <1>3. ASSUME NEW i \in Items
        PROVE  /\ bonus[u][i] \in Nat /\ lostPacks[u][i] \in Nat
               /\ Cardinality(InFlight(u, "grant", i)) \in Nat
               /\ Cardinality(InFlight(u, "refund", i)) \in Nat
    BY InFlightIs DEF IInv, TypeOK
  <1>4. ASSUME NEW i \in Items
        PROVE  Packs(u, i) \in Nat /\ PacksPaid(u)[i] = Price[i] * Packs(u, i)
    BY <1>3 DEF Packs, PacksPaid
  <1>5. QED
    BY <1>1, <1>2, <1>3, <1>4

\* The packs of one item change by d, and so does what was spent on it.
LEMMA PacksChange ==
  ASSUME IInv, IInv', NEW u \in Users, SpentOnPacks(u), NEW j \in Items, NEW d \in Int,
         Packs(u, j)' = Packs(u, j) + d,
         \A i \in Items \ {j} : Packs(u, i)' = Packs(u, i),
         NetSpend(u)' = NetSpend(u) + Price[j] * d
  PROVE  SpentOnPacks(u)'
  <1> DEFINE old == PacksPaid(u)
             new == PacksPaid(u)'
  <1>1. /\ IsFiniteSet(Items) /\ NetSpend(u) \in Int /\ Price[j] \in Nat /\ Packs(u, j) \in Nat
        /\ \A i \in Items : old[i] = Price[i] * Packs(u, i) /\ old[i] \in Int
    BY StoreTypes
  <1>2. \A i \in Items : new[i] = Price[i] * Packs(u, i)'
    BY DEF PacksPaid, Packs
  <1> HIDE DEF old, new
  <1>3. \A i \in Items \ {j} : new[i] = old[i]
    BY <1>1, <1>2
  <1>4. new[j] = old[j] + Price[j] * d /\ Price[j] * d \in Int
    <2>1. Price[j] * (Packs(u, j) + d) = Price[j] * Packs(u, j) + Price[j] * d
      BY <1>1
    <2>2. QED
      BY <1>1, <1>2, <2>1
  <1>5. SumFunctionOnSet(new, Items) = SumFunctionOnSet(old, Items) + (new[j] - old[j])
    <2>1. new[j] \in Int
      BY <1>1, <1>4
    <2>2. QED
      BY <1>1, <1>3, <2>1, SumChanges
  <1>6. NetSpend(u) = SumFunctionOnSet(old, Items)
    BY DEF SpentOnPacks, old
  <1>7. NetSpend(u)' = SumFunctionOnSet(new, Items)
    BY <1>1, <1>4, <1>5, <1>6
  <1>8. QED
    BY <1>7 DEF SpentOnPacks, new

LEMMA PacksStay ==
  ASSUME IInv, NEW u \in Users, SpentOnPacks(u),
         \A i \in Items : Packs(u, i)' = Packs(u, i), NetSpend(u)' = NetSpend(u)
  PROVE  SpentOnPacks(u)'
  <1> DEFINE old == PacksPaid(u)
             new == PacksPaid(u)'
  <1>1. IsFiniteSet(Items) /\ \A i \in Items : old[i] = Price[i] * Packs(u, i)
    BY StoreTypes
  <1>2. \A i \in Items : new[i] = Price[i] * Packs(u, i)'
    BY DEF PacksPaid, Packs
  <1> HIDE DEF old, new
  <1>3. \A i \in Items : new[i] = old[i]
    BY <1>1, <1>2
  <1>4. SumFunctionOnSet(new, Items) = SumFunctionOnSet(old, Items)
    BY <1>1, <1>3, SumsAgree
  <1>5. QED
    BY <1>4 DEF SpentOnPacks, old, new

LEMMA DebitKeepsSpent ==
  ASSUME IInv, IInv', NEW h \in Handlers, NEW v \in Users, NEW j \in Items,
         PurchaseDebit(h, v, j), NEW u \in Users, SpentOnPacks(u)
  PROVE  SpentOnPacks(u)'
  <1>1. /\ handler[h] = Idle
        /\ handler' = [handler EXCEPT ![h] = [pc |-> "grant", user |-> v, arg |-> j]]
        /\ bonus' = bonus /\ lostPacks' = lostPacks
        /\ AddEntry(v, "store_purchase", -Price[j])
    BY DEF PurchaseDebit, Begin, history
  <1>2. \A g \in Handlers \ {h} : handler'[g] = handler[g]
    BY <1>1 DEF IInv, TypeOK
  <1>3. ASSUME NEW i, NEW step
        PROVE  /\ ~At(h, u, "grant", i) /\ ~At(h, u, "refund", i) /\ ~At(h, u, "refund", i)'
               /\ At(h, u, "grant", i)' <=> u = v /\ i = j
    BY <1>1 DEF At, Idle, IInv, TypeOK
  <1>4. \A i \in Items : Packs(u, i)' = IF u = v /\ i = j THEN Packs(u, i) + 1 ELSE Packs(u, i)
    <2> TAKE i \in Items
    <2>1. Cardinality(InFlight(u, "refund", i)') = Cardinality(InFlight(u, "refund", i))
      BY <1>2, <1>3, InFlightMoves
    <2>2. Cardinality(InFlight(u, "grant", i)')
            = IF u = v /\ i = j THEN Cardinality(InFlight(u, "grant", i)) + 1
              ELSE Cardinality(InFlight(u, "grant", i))
      BY <1>2, <1>3, InFlightMoves
    <2>3. QED
      BY <1>1, <2>1, <2>2, StoreTypes DEF Packs
  <1>5. NetSpend(u)' = IF u = v THEN NetSpend(u) + Price[j] * 1 ELSE NetSpend(u)
    <2>1. -Price[j] \in Int /\ Price[j] \in Int /\ {"store_purchase", "store_refund"} \subseteq Reasons
      BY EconomyAssumption DEF EconomyAssumption, Reasons
    <2>2. \A s \in Reasons : ledger[u][s] \in Int
      BY DEF IInv, TypeOK
    <2>3. /\ ledger'[u]["store_purchase"] = IF u = v THEN ledger[u]["store_purchase"] + (-Price[j])
                                            ELSE ledger[u]["store_purchase"]
          /\ ledger'[u]["store_refund"] = ledger[u]["store_refund"]
      BY <1>1, <2>1, Posted
    <2>4. ledger[u]["store_purchase"] \in Int /\ ledger[u]["store_refund"] \in Int
      BY <2>1, <2>2
    <2>5. NetSpend(u)' = -(ledger'[u]["store_purchase"] + ledger'[u]["store_refund"])
      BY DEF NetSpend
    <2>6. QED
      BY <2>1, <2>3, <2>4, <2>5 DEF NetSpend
  <1>6. CASE u = v
    BY <1>4, <1>5, <1>6, PacksChange
  <1>7. CASE u # v
    BY <1>4, <1>5, <1>7, PacksStay
  <1>8. QED
    BY <1>6, <1>7

LEMMA GrantKeepsSpent ==
  ASSUME IInv, IInv', NEW h \in Handlers, PurchaseGrant(h), NEW u \in Users, SpentOnPacks(u)
  PROVE  SpentOnPacks(u)'
  <1> DEFINE v == handler[h].user
             j == handler[h].arg
  <1>1. handler[h].pc = "grant" /\ v \in Users /\ j \in Items
    BY LocalsAre DEF PurchaseGrant
  <1>2. /\ ledger' = ledger /\ lostPacks' = lostPacks
        /\ \/ bonus' = [bonus EXCEPT ![v][j] = @ + 1] /\ Finish(h)
           \/ bonus' = bonus /\ Goto(h, "refund")
    BY DEF PurchaseGrant, wallet, history
  <1>3. \A g \in Handlers \ {h} : handler'[g] = handler[g]
    BY <1>2 DEF Finish, Goto, IInv, TypeOK
  <1>4. \A i \in Items : /\ At(h, u, "grant", i) <=> u = v /\ i = j
                        /\ ~At(h, u, "refund", i) /\ ~At(h, u, "grant", i)'
    BY <1>1, <1>2 DEF At, Finish, Goto, Idle, IInv, TypeOK, HandlerState
  <1>5. ASSUME NEW i \in Items
        PROVE  Packs(u, i)' = Packs(u, i)
    <2> DEFINE g == Cardinality(InFlight(u, "grant", i))
               r == Cardinality(InFlight(u, "refund", i))
    <2>1. /\ g' = IF u = v /\ i = j THEN g - 1 ELSE g
          /\ g \in Nat /\ r \in Nat /\ bonus[u][i] \in Nat /\ lostPacks[u][i] \in Nat
      BY <1>3, <1>4, InFlightMoves, StoreTypes
    <2>2. CASE bonus' = [bonus EXCEPT ![v][j] = @ + 1] /\ Finish(h)
      <3>1. bonus'[u][i] = IF u = v /\ i = j THEN bonus[u][i] + 1 ELSE bonus[u][i]
        BY <1>1, <2>2 DEF IInv, TypeOK
      <3>2. ~At(h, u, "refund", i)'
        BY <2>2 DEF At, Finish, Idle, IInv, TypeOK
      <3>3. r' = r
        BY <1>3, <1>4, <3>2, InFlightMoves
      <3> HIDE DEF g, r
      <3>4. bonus'[u][i] + lostPacks[u][i] + g' + r = bonus[u][i] + lostPacks[u][i] + g + r
        BY <2>1, <3>1
      <3>5. QED
        BY <1>2, <3>3, <3>4 DEF Packs, g, r
    <2>3. CASE bonus' = bonus /\ Goto(h, "refund")
      <3>1. At(h, u, "refund", i)' <=> u = v /\ i = j
        BY <1>1, <2>3 DEF At, Goto, IInv, TypeOK, HandlerState
      <3>2. r' = IF u = v /\ i = j THEN r + 1 ELSE r
        BY <1>3, <1>4, <3>1, InFlightMoves
      <3> HIDE DEF g, r
      <3>3. bonus[u][i] + lostPacks[u][i] + g' + r' = bonus[u][i] + lostPacks[u][i] + g + r
        BY <2>1, <3>2
      <3>4. QED
        BY <1>2, <2>3, <3>3 DEF Packs, g, r
    <2>4. QED
      BY <1>2, <2>2, <2>3
  <1>6. NetSpend(u)' = NetSpend(u)
    BY <1>2 DEF NetSpend
  <1>7. QED
    BY <1>5, <1>6, PacksStay

LEMMA RefundKeepsSpent ==
  ASSUME IInv, IInv', NEW h \in Handlers, PurchaseRefund(h), NEW u \in Users, SpentOnPacks(u)
  PROVE  SpentOnPacks(u)'
  <1> DEFINE v == handler[h].user
             j == handler[h].arg
  <1>1. handler[h].pc = "refund" /\ v \in Users /\ j \in Items /\ Price[j] \in Nat
    BY LocalsAre, EconomyAssumption DEF PurchaseRefund, EconomyAssumption
  <1>2. /\ bonus' = bonus /\ Finish(h)
        /\ \/ AddEntry(v, "store_refund", Price[j]) /\ lostPacks' = lostPacks
           \/ lostPacks' = [lostPacks EXCEPT ![v][j] = @ + 1] /\ ledger' = ledger
    BY DEF PurchaseRefund, wallet
  <1>3. \A g \in Handlers \ {h} : handler'[g] = handler[g]
    BY <1>2 DEF Finish, IInv, TypeOK
  <1>4. \A i \in Items : /\ At(h, u, "refund", i) <=> u = v /\ i = j
                        /\ ~At(h, u, "grant", i)
                        /\ ~At(h, u, "grant", i)' /\ ~At(h, u, "refund", i)'
    BY <1>1, <1>2 DEF At, Finish, Idle, IInv, TypeOK
  <1>5. ASSUME NEW i \in Items
        PROVE  /\ Cardinality(InFlight(u, "grant", i)') = Cardinality(InFlight(u, "grant", i))
               /\ Cardinality(InFlight(u, "refund", i)')
                    = IF u = v /\ i = j THEN Cardinality(InFlight(u, "refund", i)) - 1
                      ELSE Cardinality(InFlight(u, "refund", i))
    BY <1>3, <1>4, InFlightMoves
  <1>6. CASE AddEntry(v, "store_refund", Price[j]) /\ lostPacks' = lostPacks
    <2>1. \A i \in Items : Packs(u, i)' = IF u = v /\ i = j THEN Packs(u, i) + (-1)
                                         ELSE Packs(u, i)
      BY <1>2, <1>5, <1>6, StoreTypes DEF Packs
    <2>2. NetSpend(u)' = IF u = v THEN NetSpend(u) + Price[j] * (-1) ELSE NetSpend(u)
      <3>1. ledger[u]["store_purchase"] \in Int /\ ledger[u]["store_refund"] \in Int
        BY DEF IInv, TypeOK, Reasons
      <3>2. /\ ledger'[u]["store_purchase"] = ledger[u]["store_purchase"]
            /\ ledger'[u]["store_refund"] = IF u = v THEN ledger[u]["store_refund"] + Price[j]
                                            ELSE ledger[u]["store_refund"]
        BY <1>1, <1>6, Posted DEF Reasons
      <3>3. NetSpend(u)' = -(ledger'[u]["store_purchase"] + ledger'[u]["store_refund"])
        BY DEF NetSpend
      <3>4. QED
        BY <1>1, <3>1, <3>2, <3>3 DEF NetSpend
    <2>3. CASE u = v
      BY <1>1, <2>1, <2>2, <2>3, PacksChange
    <2>4. CASE u # v
      BY <2>1, <2>2, <2>4, PacksStay
    <2>5. QED
      BY <2>3, <2>4
  <1>7. CASE lostPacks' = [lostPacks EXCEPT ![v][j] = @ + 1] /\ ledger' = ledger
    <2>1. \A i \in Items : lostPacks'[u][i] = IF u = v /\ i = j THEN lostPacks[u][i] + 1
                                             ELSE lostPacks[u][i]
      BY <1>1, <1>7 DEF IInv, TypeOK
    <2>2. ASSUME NEW i \in Items PROVE Packs(u, i)' = Packs(u, i)
      <3> DEFINE g == Cardinality(InFlight(u, "grant", i))
                 r == Cardinality(InFlight(u, "refund", i))
      <3>1. /\ g' = g /\ r' = IF u = v /\ i = j THEN r - 1 ELSE r
            /\ g \in Nat /\ r \in Nat /\ bonus[u][i] \in Nat /\ lostPacks[u][i] \in Nat
        BY <1>5, StoreTypes
      <3> HIDE DEF g, r
      <3>2. bonus[u][i] + lostPacks'[u][i] + g' + r' = bonus[u][i] + lostPacks[u][i] + g + r
        BY <2>1, <3>1
      <3>3. QED
        BY <1>2, <3>2 DEF Packs, g, r
    <2>3. NetSpend(u)' = NetSpend(u)
      BY <1>7 DEF NetSpend
    <2>4. QED
      BY <2>2, <2>3, PacksStay
  <1>8. QED
    BY <1>2, <1>6, <1>7

LEMMA RestartKeepsSpent ==
  ASSUME IInv, Restart, NEW u \in Users, SpentOnPacks(u)
  PROVE  SpentOnPacks(u)'
  <1>1. /\ ledger' = ledger /\ bonus' = bonus /\ handler' = [h \in Handlers |-> Idle]
        /\ \A i \in Items : lostPacks'[u][i] = lostPacks[u][i]
                              + Cardinality(InFlight(u, "grant", i))
                              + Cardinality(InFlight(u, "refund", i))
    BY DEF Restart, wallet
  <1>2. ASSUME NEW i \in Items
        PROVE  /\ Cardinality(InFlight(u, "grant", i)') = 0
               /\ Cardinality(InFlight(u, "refund", i)') = 0
    <2>1. InFlight(u, "grant", i)' = {} /\ InFlight(u, "refund", i)' = {}
      BY <1>1 DEF InFlight, Idle
    <2>2. QED
      BY <2>1, FS_EmptySet
  <1>3. \A i \in Items : Packs(u, i)' = Packs(u, i)
    BY <1>1, <1>2, StoreTypes DEF Packs
  <1>4. NetSpend(u)' = NetSpend(u)
    BY <1>1 DEF NetSpend
  <1>5. QED
    BY <1>3, <1>4, PacksStay

\* The steps that are none of the store's leave what it counts alone.
LEMMA OthersKeepSpent ==
  ASSUME IInv, IInv', [Next]_vars, NEW u \in Users,
         ~\E h \in Handlers : PurchaseGrant(h) \/ PurchaseRefund(h),
         ~\E h \in Handlers, v \in Users, j \in Items : PurchaseDebit(h, v, j),
         ~Restart, ~DeleteUser(u), ~AdminSetQuota(u)
  PROVE  /\ bonus'[u] = bonus[u] /\ lostPacks' = lostPacks /\ NetSpend(u)' = NetSpend(u)
         /\ \A h \in Handlers :
              handler[h].pc \in {"grant", "refund"} \/ handler'[h].pc \in {"grant", "refund"}
              => handler'[h] = handler[h]
         /\ \A i \in Items : Packs(u, i)' = Packs(u, i)
  <1>1. bonus'[u] = bonus[u] /\ lostPacks' = lostPacks
    <2>1. ASSUME NEW v \in Users, UserStep(v)
          PROVE  bonus'[u] = bonus[u] /\ lostPacks' = lostPacks
      BY <2>1 DEF UserStep, Register, DeleteUser, AdminAdjust, AfkAccrual, AdminSetQuota,
         Redeem, history, IInv, TypeOK
    <2>2. ASSUME NEW h \in Handlers, HandlerStep(h)
          PROVE  bonus' = bonus /\ lostPacks' = lostPacks
      BY <2>2 DEF HandlerStep, DailyBegin, DailyClaim, DailyCredit, GiftLookup, GiftTransfer,
         history
    <2>3. QED
      BY <2>1, <2>2 DEF Next, MintCode, DeleteCode, Tick, vars, history
  <1>2. ASSUME NEW g \in Handlers,
               handler[g].pc \in {"grant", "refund"} \/ handler'[g].pc \in {"grant", "refund"}
        PROVE  handler'[g] = handler[g]
    <2>1. ASSUME NEW h \in Handlers, HandlerStep(h) PROVE handler'[g] = handler[g]
      <3>1. CASE g = h
        BY <1>2, <2>1, <3>1, HandlerMoves
      <3>2. CASE g # h
        BY <2>1, <3>2, HandlerMoves
      <3>3. QED
        BY <3>1, <3>2
    <2>2. QED
      BY <2>1, HandlersStay
  <1>3. NetSpend(u)' = NetSpend(u)
    <2>1. /\ ledger'[u]["store_purchase"] = ledger[u]["store_purchase"]
          /\ ledger'[u]["store_refund"] = ledger[u]["store_refund"]
      BY ColumnsMoved DEF MovesColumn, Reasons
    <2>2. QED
      BY <2>1 DEF NetSpend
  <1>4. ASSUME NEW i \in Items, NEW step \in {"grant", "refund"}
        PROVE  InFlight(u, step, i)' = InFlight(u, step, i)
    BY <1>2 DEF InFlight
  <1>5. \A i \in Items : Packs(u, i)' = Packs(u, i)
    BY <1>1, <1>4 DEF Packs
  <1>6. QED
    BY <1>1, <1>2, <1>3, <1>5

LEMMA NothingBoughtIsAccounted ==
  ASSUME IInv, NEW u \in Users, NothingBought(u)
  PROVE  SpentOnPacks(u)
  <1>1. ASSUME NEW i \in Items PROVE PacksPaid(u)[i] = 0
    <2>1. InFlight(u, "grant", i) = {} /\ InFlight(u, "refund", i) = {}
      BY InFlightIs DEF At, NothingBought
    <2>2. bonus[u][i] = 0 /\ lostPacks[u][i] = 0
      BY DEF NothingBought, NoPacks
    <2>3. Packs(u, i) = 0
      BY <2>1, <2>2, FS_EmptySet DEF Packs
    <2>4. QED
      BY <2>3, StoreTypes
  <1>2. SumFunctionOnSet(PacksPaid(u), Items) = 0
    BY <1>1, StoreTypes, SumOfZeros
  <1>3. QED
    BY <1>2 DEF SpentOnPacks, NothingBought

LEMMA StoreStep ==
  ASSUME IInv, IInv', StoreInv, [Next]_vars
  PROVE  StoreInv'
  <1> SUFFICES ASSUME NEW u \in Users
               PROVE  /\ account'[u] = "absent" => NothingBought(u)'
                      /\ Active(u)' /\ u \notin overwritten' => SpentOnPacks(u)'
    BY DEF StoreInv
  <1>1. CASE \E h \in Handlers, v \in Users, j \in Items : PurchaseDebit(h, v, j)
    <2>1. PICK h \in Handlers, v \in Users, j \in Items : PurchaseDebit(h, v, j)
      BY <1>1
    <2>2. /\ account' = account /\ overwritten' = overwritten
          /\ bonus' = bonus /\ lostPacks' = lostPacks
          /\ AddEntry(v, "store_purchase", -Price[j])
          /\ handler' = [handler EXCEPT ![h] = [pc |-> "grant", user |-> v, arg |-> j]]
      BY <2>1 DEF PurchaseDebit, Begin, history
    <2>3. ASSUME account[u] = "absent" PROVE NothingBought(u)'
      <3>1. NothingBought(u)
        BY <2>3 DEF StoreInv
      <3>2. -Price[j] \in Int /\ {"store_purchase", "store_refund"} \subseteq Reasons
        BY EconomyAssumption DEF EconomyAssumption, Reasons
      <3>3. /\ v # u
            /\ ledger'[u]["store_purchase"] = ledger[u]["store_purchase"]
            /\ ledger'[u]["store_refund"] = ledger[u]["store_refund"]
        BY <2>2, <2>3, <3>2, Posted DEF Active
      <3>4. \A g \in Handlers : handler'[g].pc \in {"grant", "refund"} => handler'[g].user # u
        BY <2>2, <3>1, <3>3 DEF NothingBought, IInv, TypeOK
      <3>5. QED
        BY <2>2, <3>1, <3>3, <3>4 DEF NothingBought, NetSpend
    <2>4. QED
      BY <2>1, <2>2, <2>3, DebitKeepsSpent DEF StoreInv, Active
  <1>2. CASE \E h \in Handlers : PurchaseGrant(h) \/ PurchaseRefund(h)
    <2>1. PICK h \in Handlers : PurchaseGrant(h) \/ PurchaseRefund(h)
      BY <1>2
    <2>2. UNCHANGED <<account, overwritten>>
      BY <2>1 DEF PurchaseGrant, PurchaseRefund, history
    <2>3. ASSUME account[u] = "absent" PROVE NothingBought(u)'
      <3>1. NothingBought(u)
        BY <2>3 DEF StoreInv
      <3> DEFINE v == handler[h].user
                 j == handler[h].arg
      <3>2. v # u /\ v \in Users /\ j \in Items /\ handler[h].pc \in {"grant", "refund"}
        BY <2>1, <3>1, LocalsAre DEF PurchaseGrant, PurchaseRefund, NothingBought
      <3>3. bonus'[u] = bonus[u] /\ lostPacks'[u] = lostPacks[u]
        BY <2>1, <3>2 DEF PurchaseGrant, PurchaseRefund, history, IInv, TypeOK
      <3>4. NetSpend(u)' = NetSpend(u)
        <4>1. Price[j] \in Int /\ {"store_purchase", "store_refund"} \subseteq Reasons
          BY <3>2, EconomyAssumption DEF EconomyAssumption, Reasons
        <4>2. ledger' = ledger \/ AddEntry(v, "store_refund", Price[j])
          BY <2>1 DEF PurchaseGrant, PurchaseRefund, wallet
        <4>3. /\ ledger'[u]["store_purchase"] = ledger[u]["store_purchase"]
              /\ ledger'[u]["store_refund"] = ledger[u]["store_refund"]
          BY <3>2, <4>1, <4>2, Posted
        <4>4. QED
          BY <4>3 DEF NetSpend
      <3>5. \A g \in Handlers : handler'[g].pc \in {"grant", "refund"} => handler'[g].user # u
        <4>1. Finish(h) \/ Goto(h, "refund")
          BY <2>1 DEF PurchaseGrant, PurchaseRefund
        <4>2. \A g \in Handlers \ {h} : handler'[g] = handler[g]
          BY <4>1 DEF Finish, Goto, IInv, TypeOK
        <4>3. handler'[h].pc = "idle" \/ handler'[h].user = v
          BY <4>1 DEF Finish, Goto, Idle, IInv, TypeOK, HandlerState
        <4>4. QED
          BY <3>1, <3>2, <4>2, <4>3 DEF NothingBought
      <3>6. QED
        BY <3>1, <3>3, <3>4, <3>5 DEF NothingBought
    <2>4. QED
      BY <2>1, <2>2, <2>3, GrantKeepsSpent, RefundKeepsSpent DEF StoreInv, Active
  <1>3. CASE Restart
    <2>1. UNCHANGED <<account, overwritten, ledger, bonus>>
          /\ handler' = [h \in Handlers |-> Idle]
      BY <1>3 DEF Restart, wallet
    <2>2. ASSUME account[u] = "absent" PROVE NothingBought(u)'
      <3>1. NothingBought(u)
        BY <2>2 DEF StoreInv
      <3>2. ASSUME NEW i \in Items PROVE lostPacks'[u][i] = lostPacks[u][i]
        <4>1. InFlight(u, "grant", i) = {} /\ InFlight(u, "refund", i) = {}
          BY <3>1, InFlightIs DEF At, NothingBought
        <4>2. lostPacks'[u][i] = lostPacks[u][i] + 0 + 0
          BY <1>3, <4>1, FS_EmptySet DEF Restart
        <4>3. QED
          BY <4>2, StoreTypes
      <3>3. lostPacks'[u] = NoPacks
        <4>1. lostPacks'[u] \in [Items -> Nat]
          BY DEF IInv, TypeOK
        <4>2. QED
          BY <3>1, <3>2, <4>1 DEF NothingBought, NoPacks
      <3>4. QED
        BY <2>1, <3>1, <3>3 DEF NothingBought, NetSpend, Idle
    <2>3. QED
      BY <1>3, <2>1, <2>2, RestartKeepsSpent DEF StoreInv, Active
  <1>4. CASE DeleteUser(u) \/ AdminSetQuota(u)
    BY <1>4 DEF DeleteUser, AdminSetQuota, Active, IInv, TypeOK
  <1>5. ASSUME ~\E h \in Handlers : PurchaseGrant(h) \/ PurchaseRefund(h),
               ~\E h \in Handlers, v \in Users, j \in Items : PurchaseDebit(h, v, j),
               ~Restart, ~DeleteUser(u), ~AdminSetQuota(u)
        PROVE  /\ account'[u] = "absent" => NothingBought(u)'
               /\ Active(u)' /\ u \notin overwritten' => SpentOnPacks(u)'
    <2>1. /\ bonus'[u] = bonus[u] /\ lostPacks' = lostPacks /\ NetSpend(u)' = NetSpend(u)
          /\ \A h \in Handlers :
               handler[h].pc \in {"grant", "refund"} \/ handler'[h].pc \in {"grant", "refund"}
               => handler'[h] = handler[h]
          /\ \A i \in Items : Packs(u, i)' = Packs(u, i)
      BY <1>5, OthersKeepSpent
    <2>2. NothingBought(u) => NothingBought(u)'
      BY <2>1 DEF NothingBought
    <2>3. SpentOnPacks(u) => SpentOnPacks(u)'
      BY <2>1, PacksStay
    <2>4. \/ account'[u] = account[u]
          \/ account[u] = "absent" /\ account'[u] = "active"
      BY <1>5, AccountsMove DEF Register, IInv, TypeOK
    <2>5. u \in overwritten => u \in overwritten'
      <3>1. \A v \in Users : UserStep(v) => overwritten \subseteq overwritten'
        BY DEF UserStep, Register, DeleteUser, AdminAdjust, AfkAccrual, AdminSetQuota,
           Redeem, history
      <3>2. \A h \in Handlers : HandlerStep(h) => overwritten' = overwritten
        BY DEF HandlerStep, DailyBegin, DailyClaim, DailyCredit, GiftLookup, GiftTransfer,
           PurchaseDebit, PurchaseGrant, PurchaseRefund, history
      <3>3. QED
        BY <3>1, <3>2 DEF Next, MintCode, DeleteCode, Restart, Tick, vars, history
    <2>6. QED
      BY <2>2, <2>3, <2>4, <2>5, NothingBoughtIsAccounted DEF StoreInv, Active
  <1>6. QED
    BY <1>1, <1>2, <1>3, <1>4, <1>5

LEMMA InitStore == Init => StoreInv
  <1> SUFFICES ASSUME Init, NEW u \in Users
               PROVE  NothingBought(u) /\ ~Active(u)
    BY DEF StoreInv
  <1>1. ~Active(u) /\ bonus[u] = NoPacks /\ lostPacks[u] = NoPacks
    BY DEF Init, Active
  <1>2. \A h \in Handlers : handler[h].pc = "idle"
    BY DEF Init, Idle
  <1>3. ledger[u]["store_purchase"] = 0 /\ ledger[u]["store_refund"] = 0
    BY DEF Init, NoLedger, Reasons
  <1>4. NetSpend(u) = 0
    <2>1. ASSUME NEW n \in Int PROVE -n = 0 - n
      OBVIOUS
    <2>2. ledger[u]["store_purchase"] + ledger[u]["store_refund"] = 0
      BY <1>3
    <2>3. NetSpend(u) = 0 - 0
      BY <2>1, <2>2 DEF NetSpend
    <2>4. QED
      BY <2>3
  <1>5. QED
    BY <1>1, <1>2, <1>4 DEF NothingBought

(* storesvc.Purchase: for any users, prices, items and interleaving, with   *)
(* grants and refunds that fail and crashes between the steps, what a user  *)
(* spent is the price of the packs owned, in flight and known to be lost.   *)
THEOREM PurchasesPaidFor == Spec => []PurchasesAccounted
  <1>1. IInv /\ StoreInv /\ [Next]_vars => IInv' /\ StoreInv'
    BY NextIInv, StoreStep
  <1>2. Init => IInv /\ StoreInv
    BY InitIInv, InitStore
  <1>3. StoreInv => PurchasesAccounted
    BY DEF StoreInv, SpentOnPacks, PurchasesAccounted
  <1>4. QED
    BY <1>1, <1>2, <1>3, PTL DEF Spec
=============================================================================
