---------------------------- MODULE CoinEconomy ----------------------------
(***************************************************************************)
(* The coin economy of the panel: balances and their ledger (repo.Ledger), *)
(* redeem codes (repo.RedeemCodes), the daily reward and gifts (coinsvc),  *)
(* the store (storesvc) and the bonus quota it fills (repo.Quotas).        *)
(*                                                                         *)
(* Every database transaction is one step: SQLite either commits it as a   *)
(* whole or fails it without effect.  A request that makes several         *)
(* database calls is a handler with one step per call, so that handlers    *)
(* interleave, calls fail, and the process may crash between two calls.    *)
(* The rows of a user's ledger are kept as one running total per reason:   *)
(* the sum of those totals is the sum of the rows.                         *)
(* Amount and interval of the daily reward, which the code reads from the  *)
(* settings at each claim, stay as they are.                               *)
(***************************************************************************)
EXTENDS Integers, FiniteSets, Functions

CONSTANTS
  Users,          \* identifiers of accounts (a deleted one is never reused)
  Codes,          \* identifiers of redeem-code rows (never reused)
  Items,          \* the store's catalog
  Handlers,       \* request goroutines
  None,           \* "no user, no argument"
  MaxBalance,     \* the largest balance an account can hold (math.MaxInt64)
  CodeCoins,      \* what each code pays
  CodeMax,        \* max_uses of each code, 0 for unlimited
  Price,          \* what each catalog item costs
  DailyAmount,    \* coins of one daily reward
  DailyInterval,  \* clock ticks between two rewards
  AfkCoins,       \* coins of one AFK heartbeat
  GiftAmounts,    \* amounts users try to gift
  Adjustments,    \* amounts an administrator adds or removes
  Kinds,          \* the request kinds an instance generates
  MaxTime,        \* bound on the clock
  MaxColumn       \* bound on the running total of one ledger reason

Reasons == {"afk_accrual", "daily_reward", "admin_adjustment", "gift_sent",
            "gift_received", "store_purchase", "store_refund", "redeem_code"}

AllKinds == {"afk", "daily", "adjust", "gift", "store", "code", "delete"}

ASSUME EconomyAssumption ==
  /\ MaxBalance \in Nat /\ MaxTime \in Nat /\ MaxColumn \in Nat
  /\ DailyAmount \in Nat \ {0} /\ DailyInterval \in Nat \ {0}
  /\ AfkCoins \in Nat \ {0}
  /\ CodeCoins \in [Codes -> Nat \ {0}] /\ CodeMax \in [Codes -> Nat]
  /\ Price \in [Items -> Nat \ {0}]
  /\ GiftAmounts \subseteq Nat \ {0} /\ Adjustments \subseteq Int \ {0}
  /\ Kinds \subseteq AllKinds
  /\ None \notin Users /\ None \notin Items /\ IsFiniteSet(Handlers)
  /\ IsFiniteSet(Users) /\ IsFiniteSet(Codes) /\ IsFiniteSet(Items)

VARIABLES
  account,      \* per user: "absent", "active" or "deleted"
  coins,        \* users.coins, the cached balance
  ledger,       \* per user and reason: the sum of the ledger rows
  codeState,    \* per code: "unminted", "live" or "deleted"
  uses,         \* redeem_codes.uses
  redemptions,  \* redeem_code_redemptions: pairs <<code, user>>
  lastClaim,    \* daily_reward_claims: a time, or -1 for no row
  bonus,        \* user_quotas: packs of each item the user owns
  handler,      \* what each request goroutine is doing
  now,          \* the clock
  claims,       \* history: daily claims recorded for the user
  lostClaims,   \* history: recorded claims whose credit never came
  lostPacks,    \* history: debits with neither grant nor refund
  overwritten   \* history: users whose bonus an administrator replaced

wallet == <<coins, ledger>>
codeVars == <<codeState, uses, redemptions>>
history == <<claims, lostClaims, lostPacks, overwritten>>
vars == <<account, wallet, codeVars, lastClaim, bonus, handler, now, history>>

Idle == [pc |-> "idle", user |-> None, arg |-> None]
Steps == {"idle", "claim", "credit", "transfer", "grant", "refund"}

NoLedger == [r \in Reasons |-> 0]
NoPacks == [i \in Items |-> 0]

Active(u) == account[u] = "active"

-----------------------------------------------------------------------------
(* repo.Ledger: the only code that changes a balance, with Redeem.         *)

CanPostNoOverflowCheck(u, n) == Active(u) /\ coins[u] + n >= 0

CanPost(u, n) ==
  /\ Active(u)
  /\ n > 0 => coins[u] <= MaxBalance - n
  /\ coins[u] + n >= 0

PostUncounted(u, r, n) ==
  /\ coins' = [coins EXCEPT ![u] = @ + n]
  /\ ledger' = [ledger EXCEPT ![u][r] = IF n < 0 THEN @ ELSE @ + n]

Post(u, r, n) ==
  /\ coins' = [coins EXCEPT ![u] = @ + n]
  /\ ledger' = [ledger EXCEPT ![u][r] = @ + n]

WithinColumn(u, r, n) == ledger[u][r] + n \in -MaxColumn .. MaxColumn

AddEntry(u, r, n) ==
  /\ CanPost(u, n)
  /\ WithinColumn(u, r, n)
  /\ Post(u, r, n)

TransferUnchecked(from, to, n) ==
  /\ Active(from) /\ coins[from] - n >= 0
  /\ WithinColumn(from, "gift_sent", -n)
  /\ IF Active(to) /\ coins[to] <= MaxBalance - n
     THEN /\ coins' = [coins EXCEPT ![from] = @ - n, ![to] = @ + n]
          /\ ledger' = [ledger EXCEPT ![from]["gift_sent"] = @ - n,
                                      ![to]["gift_received"] = @ + n]
     ELSE Post(from, "gift_sent", -n)

Transfer(from, to, n) ==
  /\ Active(from) /\ coins[from] - n >= 0
  /\ Active(to) /\ coins[to] <= MaxBalance - n
  /\ WithinColumn(from, "gift_sent", -n)
  /\ WithinColumn(to, "gift_received", n)
  /\ coins' = [coins EXCEPT ![from] = @ - n, ![to] = @ + n]
  /\ ledger' = [ledger EXCEPT ![from]["gift_sent"] = @ - n,
                              ![to]["gift_received"] = @ + n]

-----------------------------------------------------------------------------
(* Accounts.                                                               *)

Register(u) ==
  /\ account[u] = "absent"
  /\ account' = [account EXCEPT ![u] = "active"]
  /\ UNCHANGED <<wallet, codeVars, lastClaim, bonus, handler, now, history>>

\* Deleting the user row cascades to every row that refers to it; the use
\* counter of a code is a column of the code and stays.
DeleteUser(u) ==
  /\ "delete" \in Kinds
  /\ Active(u)
  /\ account' = [account EXCEPT ![u] = "deleted"]
  /\ coins' = [coins EXCEPT ![u] = 0]
  /\ ledger' = [ledger EXCEPT ![u] = NoLedger]
  /\ redemptions' = {r \in redemptions : r[2] # u}
  /\ lastClaim' = [lastClaim EXCEPT ![u] = -1]
  /\ bonus' = [bonus EXCEPT ![u] = NoPacks]
  /\ UNCHANGED <<codeState, uses, handler, now, history>>

AdminAdjust(u) ==
  /\ "adjust" \in Kinds
  /\ \E n \in Adjustments : AddEntry(u, "admin_adjustment", n)
  /\ UNCHANGED <<account, codeVars, lastClaim, bonus, handler, now, history>>

\* The last step of an AFK heartbeat that earned something.
AfkAccrual(u) ==
  /\ "afk" \in Kinds
  /\ AddEntry(u, "afk_accrual", AfkCoins)
  /\ UNCHANGED <<account, codeVars, lastClaim, bonus, handler, now, history>>

-----------------------------------------------------------------------------
(* Redeem codes.                                                           *)

MintCode(c) ==
  /\ "code" \in Kinds
  /\ codeState[c] = "unminted"
  /\ codeState' = [codeState EXCEPT ![c] = "live"]
  /\ UNCHANGED <<account, wallet, uses, redemptions, lastClaim, bonus,
                 handler, now, history>>

DeleteCode(c) ==
  /\ "delete" \in Kinds
  /\ codeState[c] = "live"
  /\ codeState' = [codeState EXCEPT ![c] = "deleted"]
  /\ redemptions' = {r \in redemptions : r[1] # c}
  /\ UNCHANGED <<account, wallet, uses, lastClaim, bonus, handler, now, history>>

HasUsesLeft(c) == CodeMax[c] = 0 \/ uses[c] < CodeMax[c]

\* Two requests of one user both pass the key of the redemptions table.
RedeemTwice(u, c) ==
  /\ codeState[c] = "live"
  /\ HasUsesLeft(c)
  /\ AddEntry(u, "redeem_code", CodeCoins[c])
  /\ redemptions' = redemptions \cup {<<c, u>>}
  /\ uses' = [uses EXCEPT ![c] = @ + 1]
  /\ UNCHANGED <<account, codeState, lastClaim, bonus, handler, now, history>>

Redeem(u, c) ==
  /\ codeState[c] = "live"
  /\ HasUsesLeft(c)
  /\ <<c, u>> \notin redemptions
  /\ AddEntry(u, "redeem_code", CodeCoins[c])
  /\ redemptions' = redemptions \cup {<<c, u>>}
  /\ uses' = [uses EXCEPT ![c] = @ + 1]
  /\ UNCHANGED <<account, codeState, lastClaim, bonus, handler, now, history>>

-----------------------------------------------------------------------------
(* Multi-step handlers.                                                    *)

Goto(h, step) == handler' = [handler EXCEPT ![h].pc = step]
Finish(h) == handler' = [handler EXCEPT ![h] = Idle]
Begin(h, step, u, a) ==
  /\ handler[h] = Idle
  /\ handler' = [handler EXCEPT ![h] = [pc |-> step, user |-> u, arg |-> a]]

\* ClaimDailyReward reads the clock ...
DailyBegin(h, u) ==
  /\ "daily" \in Kinds
  /\ Active(u)
  /\ Begin(h, "claim", u, now)
  /\ UNCHANGED <<account, wallet, codeVars, lastClaim, bonus, now, history>>

DueEarly(h) ==
  LET h_user == handler[h].user IN
  Active(h_user) /\ (lastClaim[h_user] = -1 \/ lastClaim[h_user] < handler[h].arg)

\* the condition of the UPSERT; the foreign key refuses a deleted user
Due(h) ==
  LET h_user == handler[h].user IN
  /\ Active(h_user)
  /\ \/ lastClaim[h_user] = -1
     \/ lastClaim[h_user] <= handler[h].arg - DailyInterval

\* ... then records the claim if it is due, or gives up ...
DailyClaim(h) ==
  /\ handler[h].pc = "claim"
  /\ LET u == handler[h].user IN
     \/ /\ Due(h)
        /\ lastClaim' = [lastClaim EXCEPT ![u] = handler[h].arg]
        /\ claims' = [claims EXCEPT ![u] = @ + 1]
        /\ Goto(h, "credit")
     \/ Finish(h) /\ UNCHANGED <<lastClaim, claims>>
  /\ UNCHANGED <<account, wallet, codeVars, bonus, now,
                 lostClaims, lostPacks, overwritten>>

\* ... then credits the reward in a second transaction, which may fail.
DailyCredit(h) ==
  /\ handler[h].pc = "credit"
  /\ LET u == handler[h].user IN
     \/ AddEntry(u, "daily_reward", DailyAmount) /\ UNCHANGED lostClaims
     \/ /\ lostClaims' = [lostClaims EXCEPT ![u] = @ + 1]
        /\ UNCHANGED wallet
  /\ Finish(h)
  /\ UNCHANGED <<account, codeVars, lastClaim, bonus, now,
                 claims, lostPacks, overwritten>>

\* Gift looks the recipient up by name and refuses the sender itself ...
GiftLookup(h, from, to) ==
  /\ "gift" \in Kinds
  /\ Active(from) /\ Active(to)
  /\ from # to
  /\ Begin(h, "transfer", from, to)
  /\ UNCHANGED <<account, wallet, codeVars, lastClaim, bonus, now, history>>

\* ... then moves the coins in one transaction, or reports an error.
GiftTransfer(h) ==
  /\ handler[h].pc = "transfer"
  /\ \/ \E n \in GiftAmounts : Transfer(handler[h].user, handler[h].arg, n)
     \/ UNCHANGED wallet
  /\ Finish(h)
  /\ UNCHANGED <<account, codeVars, lastClaim, bonus, now, history>>

\* Purchase debits the price ...
PurchaseDebit(h, u, i) ==
  /\ "store" \in Kinds
  /\ AddEntry(u, "store_purchase", -Price[i])
  /\ Begin(h, "grant", u, i)
  /\ UNCHANGED <<account, codeVars, lastClaim, bonus, now, history>>

\* The grant is committed although its caller sees an error.
PurchaseGrantAnyway(h) ==
  /\ handler[h].pc = "grant"
  /\ Active(handler[h].user)
  /\ bonus' = [bonus EXCEPT ![handler[h].user][handler[h].arg] = @ + 1]
  /\ Finish(h) \/ Goto(h, "refund")
  /\ UNCHANGED <<account, wallet, codeVars, lastClaim, now, history>>

\* ... then raises the quota, or goes on to refund ...
PurchaseGrant(h) ==
  /\ handler[h].pc = "grant"
  /\ LET u == handler[h].user
         i == handler[h].arg IN
     \/ /\ Active(u)
        /\ bonus' = [bonus EXCEPT ![u][i] = @ + 1]
        /\ Finish(h)
     \/ Goto(h, "refund") /\ UNCHANGED bonus
  /\ UNCHANGED <<account, wallet, codeVars, lastClaim, now, history>>

\* ... and the refund's own failure is dropped.
PurchaseRefund(h) ==
  /\ handler[h].pc = "refund"
  /\ LET u == handler[h].user
         i == handler[h].arg IN
     \/ AddEntry(u, "store_refund", Price[i]) /\ UNCHANGED lostPacks
     \/ /\ lostPacks' = [lostPacks EXCEPT ![u][i] = @ + 1]
        /\ UNCHANGED wallet
  /\ Finish(h)
  /\ UNCHANGED <<account, codeVars, lastClaim, bonus, now,
                 claims, lostClaims, overwritten>>

\* The admin console replaces the bonus with absolute values.
AdminSetQuota(u) ==
  /\ "store" \in Kinds
  /\ Active(u)
  /\ \E n \in 0 .. 1 : bonus' = [bonus EXCEPT ![u] = [i \in Items |-> n]]
  /\ overwritten' = overwritten \cup {u}
  /\ UNCHANGED <<account, wallet, codeVars, lastClaim, handler, now,
                 claims, lostClaims, lostPacks>>

InFlight(u, step, a) ==
  {h \in Handlers : handler[h] = [pc |-> step, user |-> u, arg |-> a]}

InFlightClaims(u) ==
  {h \in Handlers : handler[h].pc = "credit" /\ handler[h].user = u}

\* The panel process dies and restarts: the handlers it ran are gone.
Restart ==
  /\ \E h \in Handlers : handler[h] # Idle
  /\ handler' = [h \in Handlers |-> Idle]
  /\ lostClaims' =
       [u \in Users |-> lostClaims[u] + Cardinality(InFlightClaims(u))]
  /\ lostPacks' =
       [u \in Users |-> [i \in Items |->
          lostPacks[u][i] + Cardinality(InFlight(u, "grant", i))
                          + Cardinality(InFlight(u, "refund", i))]]
  /\ UNCHANGED <<account, wallet, codeVars, lastClaim, bonus, now,
                 claims, overwritten>>

Tick ==
  /\ "daily" \in Kinds
  /\ now < MaxTime
  /\ now' = now + 1
  /\ UNCHANGED <<account, wallet, codeVars, lastClaim, bonus, handler, history>>

-----------------------------------------------------------------------------
Init ==
  /\ account = [u \in Users |-> "absent"]
  /\ coins = [u \in Users |-> 0]
  /\ ledger = [u \in Users |-> NoLedger]
  /\ codeState = [c \in Codes |-> "unminted"]
  /\ uses = [c \in Codes |-> 0]
  /\ redemptions = {}
  /\ lastClaim = [u \in Users |-> -1]
  /\ bonus = [u \in Users |-> NoPacks]
  /\ handler = [h \in Handlers |-> Idle]
  /\ now = 0
  /\ claims = [u \in Users |-> 0]
  /\ lostClaims = [u \in Users |-> 0]
  /\ lostPacks = [u \in Users |-> NoPacks]
  /\ overwritten = {}

UserStep(u) ==
  \/ Register(u)
  \/ DeleteUser(u)
  \/ AdminAdjust(u)
  \/ AfkAccrual(u)
  \/ AdminSetQuota(u)
  \/ \E c \in Codes : Redeem(u, c)

HandlerStep(h) ==
  \/ \E u \in Users : DailyBegin(h, u)
  \/ DailyClaim(h)
  \/ DailyCredit(h)
  \/ \E u, to \in Users : GiftLookup(h, u, to)
  \/ GiftTransfer(h)
  \/ \E u \in Users, i \in Items : PurchaseDebit(h, u, i)
  \/ PurchaseGrant(h)
  \/ PurchaseRefund(h)

Next ==
  \/ \E u \in Users : UserStep(u)
  \/ \E c \in Codes : MintCode(c) \/ DeleteCode(c)
  \/ \E h \in Handlers : HandlerStep(h)
  \/ Restart
  \/ Tick

Spec == Init /\ [][Next]_vars

-----------------------------------------------------------------------------
(* Properties.                                                             *)

HandlerState ==
  [pc: Steps, user: Users \cup {None}, arg: Users \cup Items \cup Nat \cup {None}]

(* Every variable keeps its type; in particular no sequence of postings,   *)
(* gifts, refunds and deletions drives a balance below zero or above the   *)
(* largest int64 (Ledger.AddEntry, Ledger.Transfer, RedeemCodes.Redeem).   *)
TypeOK ==
  /\ account \in [Users -> {"absent", "active", "deleted"}]
  /\ coins \in [Users -> 0 .. MaxBalance]
  /\ ledger \in [Users -> [Reasons -> Int]]
  /\ codeState \in [Codes -> {"unminted", "live", "deleted"}]
  /\ uses \in [Codes -> Nat]
  /\ redemptions \subseteq Codes \X Users
  /\ lastClaim \in [Users -> Nat \cup {-1}]
  /\ bonus \in [Users -> [Items -> Nat]]
  /\ handler \in [Handlers -> HandlerState]
  /\ now \in Nat
  /\ claims \in [Users -> Nat]
  /\ lostClaims \in [Users -> Nat]
  /\ lostPacks \in [Users -> [Items -> Nat]]
  /\ overwritten \subseteq Users

(* The locals of a handler fit the step it is at.                          *)
HandlerTyped ==
  \A h \in Handlers :
    /\ handler[h].pc # "idle" => handler[h].user \in Users
    /\ handler[h].pc \in {"claim", "credit"} => handler[h].arg \in Nat
    /\ handler[h].pc = "transfer" =>
         handler[h].arg \in Users /\ handler[h].arg # handler[h].user
    /\ handler[h].pc \in {"grant", "refund"} => handler[h].arg \in Items

LedgerTotal(u) ==
  ledger[u]["afk_accrual"] + ledger[u]["daily_reward"]
  + ledger[u]["admin_adjustment"] + ledger[u]["gift_sent"]
  + ledger[u]["gift_received"] + ledger[u]["store_purchase"]
  + ledger[u]["store_refund"] + ledger[u]["redeem_code"]

(* The cached balance of a user is the sum of that user's ledger rows, in  *)
(* every state: between the steps of a purchase or a gift, after a refund, *)
(* after a crash, after the account is deleted.                            *)
BalanceMatchesLedger == \A u \in Users : coins[u] = LedgerTotal(u)

IInv == TypeOK /\ HandlerTyped /\ BalanceMatchesLedger

(* Gifts neither make nor destroy coins: while no account was deleted,     *)
(* what everybody sent is what everybody received, although the recipient  *)
(* was looked up before the transfer ran.                                  *)
GiftsConserve ==
  (\A u \in Users : account[u] # "deleted") =>
    SumFunctionOnSet([u \in Users |-> ledger[u]["gift_sent"] + ledger[u]["gift_received"]],
                     Users) = 0

(* The pay-out of redeem codes is bounded by their use counters, those by  *)
(* max_uses, and no user is ever paid twice for one code, even after the   *)
(* rows that recorded the redemption are gone with a deleted code.         *)
RedeemBounded ==
  /\ SumFunctionOnSet([u \in Users |-> ledger[u]["redeem_code"]], Users)
       <= SumFunctionOnSet([c \in Codes |-> uses[c] * CodeCoins[c]], Codes)
  /\ \A c \in Codes : CodeMax[c] > 0 => uses[c] <= CodeMax[c]
  /\ \A u \in Users : ledger[u]["redeem_code"]
       <= SumFunctionOnSet(CodeCoins, {c \in Codes : codeState[c] # "unminted"})

(* However many requests claim at once and whatever each of them read from *)
(* the clock, a user's daily rewards never exceed one per interval; and a  *)
(* recorded claim is credited, still being credited, or known to be lost.  *)
DailyRate ==
  \A u \in Users : Active(u) =>
    /\ claims[u] <= 1 + now \div DailyInterval
    /\ ledger[u]["daily_reward"]
         + DailyAmount * (Cardinality(InFlightClaims(u)) + lostClaims[u])
         = DailyAmount * claims[u]

(* Coins spent in the store and packs owned never drift apart: for every   *)
(* item the net spend pays for the packs granted, the purchases in flight  *)
(* and those a crash or a failed refund lost (an administrator who         *)
(* replaces the bonus ends the account).                                   *)
NetSpend(u) == -(ledger[u]["store_purchase"] + ledger[u]["store_refund"])

PacksPaid(u) ==
  [i \in Items |-> Price[i] * (bonus[u][i] + lostPacks[u][i]
                                + Cardinality(InFlight(u, "grant", i))
                                + Cardinality(InFlight(u, "refund", i)))]

PurchasesAccounted ==
  \A u \in Users : Active(u) /\ u \notin overwritten =>
    NetSpend(u) = SumFunctionOnSet(PacksPaid(u), Items)
=============================================================================
