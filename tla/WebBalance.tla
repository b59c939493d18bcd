------------------------------ MODULE WebBalance -------------------------------
(***************************************************************************)
(* The balance the web client shows: user.coins in the store, which the    *)
(* Topbar renders.  It is set by the answers of the pages that earn or     *)
(* spend, by AppShell's effect when the polled /me has changed, and by the *)
(* two-factor card, which puts back the user it captured when clicked.     *)
(* React Query keeps the previous object when a poll's answer equals it,   *)
(* and an effect runs only when its object is another.                     *)
(***************************************************************************)
EXTENDS Integers

CONSTANTS
  Acts,       \* requests of pages that may be under way at once
  Amounts,    \* by how much a balance may rise or fall at once
  MaxBalance, \* bound: the balance
  MaxChanges  \* bound: changes of the balance

VARIABLES
  account, \* the panel's user: coins and two-factor state
  shown,   \* the store's user
  me,      \* the data of the query ["me"]
  poll,    \* its request
  act,     \* per request of a page: step, kind, the balance answered, the user captured
  changes  \* changes of the balance so far

balanceVars == <<account, shown, me, poll, act, changes>>

Coins == 0 .. MaxBalance
NoPoll == [pc |-> "none", got |-> [coins |-> 0, totp |-> FALSE]]
NoAct == [pc |-> "none", kind |-> "coins", balance |-> 0, captured |-> NoPoll.got]

Changed(amount) ==
  /\ changes < MaxChanges
  /\ \E coins \in Coins \cap {account.coins + amount, account.coins - amount} :
       account' = [account EXCEPT !.coins = coins]
  /\ changes' = changes + 1

\* Another tab earns, somebody sends a gift, an administrator adjusts.
ElsewhereChanges ==
  /\ \E amount \in Amounts : Changed(amount)
  /\ UNCHANGED <<shown, me, poll, act>>

-----------------------------------------------------------------------------
(* The pages: a heartbeat, the daily reward, a code, a gift, a purchase.   *)

Act(a, kind) ==
  /\ act[a] = NoAct
  /\ act' = [act EXCEPT ![a] = [NoAct EXCEPT !.pc = "sent", !.kind = kind, !.captured = shown]]
  /\ UNCHANGED <<account, shown, me, poll, changes>>

ActServed(a) ==
  /\ act[a].pc = "sent" /\ act[a].kind = "coins"
  /\ \E amount \in Amounts : Changed(amount)
  /\ act' = [act EXCEPT ![a].pc = "served", ![a].balance = account'.coins]
  /\ UNCHANGED <<shown, me, poll>>

\* totpConfirm and totpDisable.
TotpServed(a) ==
  /\ act[a].pc = "sent" /\ act[a].kind = "totp"
  /\ account' = [account EXCEPT !.totp = ~@]
  /\ act' = [act EXCEPT ![a].pc = "served"]
  /\ UNCHANGED <<shown, me, poll, changes>>

\* Refused, or lost: the page shows a message.
ActFails(a) ==
  /\ act[a].pc \in {"sent", "served"}
  /\ act' = [act EXCEPT ![a] = NoAct]
  /\ UNCHANGED <<account, shown, me, poll, changes>>

\* updateUser({...current, coins}), or updateUser({...user, totp_enabled}).
ActAnswered(a) ==
  /\ act[a].pc = "served"
  /\ shown' = IF act[a].kind = "coins" THEN [shown EXCEPT !.coins = act[a].balance]
              ELSE [act[a].captured EXCEPT !.totp = ~@]
  /\ act' = [act EXCEPT ![a] = NoAct]
  /\ UNCHANGED <<account, me, poll, changes>>

-----------------------------------------------------------------------------
(* AppShell: /me every 15 seconds and on focus.                            *)

Poll ==
  /\ poll = NoPoll
  /\ poll' = [NoPoll EXCEPT !.pc = "sent"]
  /\ UNCHANGED <<account, shown, me, act, changes>>

PollServed ==
  /\ poll.pc = "sent"
  /\ poll' = [pc |-> "served", got |-> account]
  /\ UNCHANGED <<account, shown, me, act, changes>>

\* The effect runs when the data are another object, and updates the store
\* when it differs in what the effect compares.
PollAnswered ==
  /\ poll.pc = "served"
  /\ me' = poll.got
  /\ shown' = IF me' # me THEN me' ELSE shown
  /\ poll' = NoPoll
  /\ UNCHANGED <<account, act, changes>>

PollFails ==
  /\ poll # NoPoll
  /\ poll' = NoPoll
  /\ UNCHANGED <<account, shown, me, act, changes>>

WebBalanceInit ==
  /\ \E coins \in Coins : account = [coins |-> coins, totp |-> FALSE]
  /\ shown = account /\ me = account
  /\ poll = NoPoll
  /\ act = [a \in Acts |-> NoAct]
  /\ changes = 0

WebBalanceNext ==
  \/ ElsewhereChanges \/ Poll \/ PollServed \/ PollAnswered \/ PollFails
  \/ \E a \in Acts :
       \/ \E kind \in {"coins", "totp"} : Act(a, kind)
       \/ ActServed(a) \/ TotpServed(a) \/ ActFails(a) \/ ActAnswered(a)

WebBalanceSpec == WebBalanceInit /\ [][WebBalanceNext]_balanceVars

-----------------------------------------------------------------------------
(* AppShell.tsx 13-15, CHANGELOG.md:328: the counter does not go stale -   *)
(* when no request is under way and the polled data are the account as it  *)
(* is, the store has its balance.                                          *)
NothingUnderWay == poll = NoPoll /\ \A a \in Acts : act[a] = NoAct

BalanceSettles == NothingUnderWay /\ me = account => shown.coins = account.coins
=============================================================================
