----------------------------- MODULE FavoriteStars -----------------------------
(***************************************************************************)
(* The favourite stars of the servers list: optimistic mutations over one  *)
(* query (web ServersListPage.tsx).  A click shows the star at once and    *)
(* cancels the query's fetch; an error puts back what this click found; and*)
(* either way the query is fetched again.  Clicks on several stars may be  *)
(* under way together.                                                     *)
(***************************************************************************)
EXTENDS Integers

CONSTANTS
  Starred,   \* servers with a star to click
  Clicks,    \* clicks that may be under way at once
  MaxClicks  \* bound: clicks ever made

VARIABLES
  favorites, \* the panel's rows
  stars,     \* the data of the query ["favorites"]
  refetch,   \* its fetch: step and answer
  click,     \* per click: step, server, on or off, and what it found
  clicks     \* clicks made so far

starsVars == <<favorites, stars, refetch, click, clicks>>

NoRefetch == [pc |-> "none", got |-> {}]
NoClick == [pc |-> "none", server |-> "none", on |-> FALSE, prev |-> {}]

\* onMutate, after cancelQueries.
Toggle(c, s) ==
  /\ click[c] = NoClick /\ clicks < MaxClicks
  /\ clicks' = clicks + 1
  /\ stars' = IF s \in stars THEN stars \ {s} ELSE stars \cup {s}
  /\ click' = [click EXCEPT ![c] =
       [pc |-> "sent", server |-> s, on |-> s \notin stars, prev |-> stars]]
  /\ refetch' = NoRefetch
  /\ UNCHANGED favorites

ToggleServed(c) ==
  /\ click[c].pc = "sent"
  /\ favorites' = IF click[c].on THEN favorites \cup {click[c].server}
                  ELSE favorites \ {click[c].server}
  /\ click' = [click EXCEPT ![c].pc = "served"]
  /\ UNCHANGED <<stars, refetch, clicks>>

\* onSettled: a fetch under way starts over.
Invalidate == refetch' = [NoRefetch EXCEPT !.pc = "sent"]

Succeeded(c) ==
  /\ click[c].pc = "served"
  /\ click' = [click EXCEPT ![c] = NoClick]
  /\ Invalidate
  /\ UNCHANGED <<favorites, stars, clicks>>

\* The query is fetched again only when the click succeeded.
FailedQuietly(c) ==
  /\ click[c].pc \in {"sent", "served"}
  /\ stars' = click[c].prev
  /\ click' = [click EXCEPT ![c] = NoClick]
  /\ UNCHANGED <<favorites, refetch, clicks>>

\* onError, before or after the panel wrote, then onSettled.
Failed(c) ==
  /\ click[c].pc \in {"sent", "served"}
  /\ stars' = click[c].prev
  /\ click' = [click EXCEPT ![c] = NoClick]
  /\ Invalidate
  /\ UNCHANGED <<favorites, clicks>>

RefetchServed ==
  /\ refetch.pc = "sent"
  /\ refetch' = [pc |-> "served", got |-> favorites]
  /\ UNCHANGED <<favorites, stars, click, clicks>>

RefetchArrives ==
  /\ refetch.pc = "served"
  /\ stars' = refetch.got
  /\ refetch' = NoRefetch
  /\ UNCHANGED <<favorites, click, clicks>>

FavoriteStarsInit ==
  /\ favorites \in SUBSET Starred /\ stars = favorites
  /\ refetch = NoRefetch
  /\ click = [c \in Clicks |-> NoClick]
  /\ clicks = 0

FavoriteStarsNext ==
  \/ \E c \in Clicks :
       \/ \E s \in Starred : Toggle(c, s)
       \/ ToggleServed(c) \/ Succeeded(c) \/ Failed(c)
  \/ RefetchServed \/ RefetchArrives

FavoriteStarsSpec == FavoriteStarsInit /\ [][FavoriteStarsNext]_starsVars

-----------------------------------------------------------------------------
(* ServersListPage 29-43: whatever the order of clicks, answers, errors    *)
(* and rollbacks, when nothing is under way the stars are the panel's rows.*)
(* (A fetch that fails for good is not modelled: the next one mends it.)   *)
FavoritesSettle ==
  refetch = NoRefetch /\ (\A c \in Clicks : click[c] = NoClick) => stars = favorites
=============================================================================
