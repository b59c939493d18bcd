------------------------------ MODULE WebSession -------------------------------
(***************************************************************************)
(* Sign-in state of the web client: the token pairs each browser tab keeps *)
(* in memory, the copies in localStorage that all tabs share (the session  *)
(* and, while an administrator views the panel as somebody else, the       *)
(* administrator's own), the retry of a refused request after a refresh,   *)
(* and the screens that sign in, out and back (web/src/lib/api.ts,         *)
(* authStore.ts and the components that call them).                        *)
(*                                                                         *)
(* A pair stands for an access token, a refresh token and the user stored  *)
(* with them.  The panel rotates a refresh token when it is used and       *)
(* checks an access token by its signature only.                           *)
(***************************************************************************)
EXTENDS Integers

CONSTANTS
  WebTabs,    \* browser tabs of one profile
  WebCalls,   \* requests a tab may have under way
  Admins,     \* accounts with the role admin
  Members,    \* accounts without
  MaxPairs,   \* bound: token pairs ever issued
  MaxCalls    \* bound: requests ever sent

People == Admins \cup Members
Pairs == 1 .. MaxPairs

VARIABLES
  pair,     \* the panel's: per pair its state, account and origin
  stored,   \* localStorage "sky-panel:auth", 0 for nothing
  backup,   \* localStorage "sky-panel:admin-session", 0 for nothing
  page,     \* per tab: useAuthStore, the refresh under way, the page's end,
            \* and (history) how often its refresh token was presented
  call,     \* per tab and request: its step, kind and the pair it carries
  made,     \* requests sent so far
  unmarked  \* history: a tab acted in a viewed account without the banner

books == <<made, unmarked>>
webSessionVars == <<pair, stored, backup, page, call, books>>

Unissued == [state |-> "unissued", user |-> "nobody", view |-> FALSE]
NoRefresh == [pc |-> "none", token |-> 0, got |-> 0]
NoCall == [pc |-> "none", kind |-> "me", pair |-> 0]
Blank == [session |-> 0, viewing |-> FALSE, leaving |-> FALSE, refresh |-> NoRefresh,
          asked |-> 0]

Session(t) == page[t].session
UserOf(n) == pair[n].user
Mounted(t) == Session(t) # 0 /\ ~page[t].leaving

(* ImpersonationBanner: a tab that acts in a viewed account shows it.      *)
ViewingShows == \A t \in WebTabs : Session(t) # 0 /\ pair[Session(t)].view => page[t].viewing

Remember == made' = made /\ unmarked' = (unmarked \/ ~ViewingShows')

\* issueTokenPair on the panel: the lowest unissued pair.
Issued(n, u, view) ==
  /\ pair[n].state = "unissued"
  /\ \A m \in Pairs : m < n => pair[m].state # "unissued"
  /\ pair' = [pair EXCEPT ![n] =
       [state |-> "live", user |-> u, view |-> view]]

\* setSession: the store and localStorage both take the pair.
SetSession(t, n) ==
  /\ page' = [page EXCEPT ![t].session = n, ![t].asked = 0]
  /\ stored' = n

\* clear: everything goes, the administrator's copy too.
Cleared(p) == [p EXCEPT !.session = 0, !.viewing = FALSE,
                          !.refresh = NoRefresh, !.asked = 0]

-----------------------------------------------------------------------------
(* apiRequest and refreshAccessToken.                                      *)

\* A screen or a poll sends a request with the pair the store holds now; the
\* Users tab, for administrators, asks to view the panel as somebody.
Request(t, c, kind) ==
  /\ Mounted(t) /\ call[t][c] = NoCall /\ made < MaxCalls
  /\ made' = made + 1 /\ UNCHANGED unmarked
  /\ kind = "view" => UserOf(Session(t)) \in Admins
  /\ call' = [call EXCEPT ![t][c] = [pc |-> "sent", kind |-> kind, pair |-> Session(t)]]
  /\ UNCHANGED <<pair, stored, backup, page>>

\* 401: the access token ran out, which may be at any time.
Refused(t, c) == call[t][c].pc = "sent"

Presented(p) ==
  [p EXCEPT !.refresh = [pc |-> "sent", token |-> p.session, got |-> 0],
            !.asked = @ + 1]

\* Every refused request starts a refresh of its own.
EachRefreshes(t, c) ==
  /\ Refused(t, c) /\ Session(t) # 0
  /\ page[t].asked < 2
  /\ page' = [page EXCEPT ![t] = Presented(@)]
  /\ call' = [call EXCEPT ![t][c].pc = "waits"]
  /\ UNCHANGED <<books, pair, stored, backup>>

\* 401: the request waits for the refresh under way or starts one with the
\* refresh token the store holds now.
AwaitRefresh(t, c) ==
  /\ Refused(t, c) /\ Session(t) # 0
  /\ page' = IF page[t].refresh = NoRefresh
             THEN [page EXCEPT ![t] = Presented(@)] ELSE page
  /\ call' = [call EXCEPT ![t][c].pc = "waits"]
  /\ UNCHANGED <<books, pair, stored, backup>>

\* 401 with nothing to refresh, 401 again after the retry, or any other error.
CallFailed(t, c) ==
  /\ call[t][c].pc \in {"sent", "retried", "relogin"}
  /\ call' = [call EXCEPT ![t][c] = NoCall]
  /\ UNCHANGED <<books, pair, stored, backup, page>>

\* The panel rotates the token, or refuses one that is spent.
RefreshServed(t, n) ==
  /\ page[t].refresh.pc = "sent"
  /\ LET old == page[t].refresh.token IN
       /\ pair[old].state = "live"
       /\ pair[n].state = "unissued"
       /\ \A m \in Pairs : m < n => pair[m].state # "unissued"
       /\ pair' = [pair EXCEPT
            ![old].state = "spent",
            ![n] = [state |-> "live", user |-> UserOf(old), view |-> pair[old].view]]
  /\ page' = [page EXCEPT ![t].refresh.pc = "granted", ![t].refresh.got = n]
  /\ UNCHANGED <<books, stored, backup, call>>

\* setSession, whatever the store holds by now; the waiting requests retry.
RefreshGranted(t) ==
  /\ page[t].refresh.pc = "granted"
  /\ LET n == page[t].refresh.got IN
       /\ stored' = n
       /\ page' = [page EXCEPT ![t].session = n, ![t].refresh = NoRefresh,
                               ![t].asked = 0]
       /\ call' = [call EXCEPT ![t] = [c \in WebCalls |->
            IF @[c].pc = "waits" THEN [@[c] EXCEPT !.pc = "retried", !.pair = n]
            ELSE @[c]]]
  /\ UNCHANGED <<pair, backup>> /\ Remember

\* Refused, failed or lost on the way: clear(), and the requests fail.
RefreshFailed(t) ==
  /\ page[t].refresh.pc \in {"sent", "granted"}
  /\ page' = [page EXCEPT ![t] = Cleared(@)]
  /\ stored' = 0 /\ backup' = 0
  /\ call' = [call EXCEPT ![t] = [c \in WebCalls |->
       IF @[c].pc = "waits" THEN NoCall ELSE @[c]]]
  /\ UNCHANGED <<books, pair>>

Accepted(t, c, kind) ==
  call[t][c].pc \in {"sent", "retried"} /\ call[t][c].kind = kind

\* GET /me brought something new: updateUser stores it with the tokens the
\* tab holds, whatever the other tabs stored since.
UserUpdated(t, c) ==
  /\ Accepted(t, c, "me")
  /\ stored' = IF Mounted(t) THEN Session(t) ELSE stored
  /\ call' = [call EXCEPT ![t][c] = NoCall]
  /\ UNCHANGED <<books, pair, backup, page>>

\* Any other answer leaves the session alone.
Answered(t, c) ==
  /\ Accepted(t, c, "me")
  /\ call' = [call EXCEPT ![t][c] = NoCall]
  /\ UNCHANGED <<books, pair, stored, backup, page>>

-----------------------------------------------------------------------------
(* Viewing the panel as somebody else.                                     *)

Viewing(t, n) ==
  page' = [page EXCEPT ![t].session = n, ![t].viewing = TRUE, ![t].leaving = TRUE,
                          ![t].asked = 0]

\* The session at hand is stashed even when it is not the administrator's own.
AlwaysStash(t, c, n, u) ==
  /\ Accepted(t, c, "view")
  /\ UserOf(call[t][c].pair) \in Admins \ {u}
  /\ Issued(n, u, TRUE)
  /\ backup' = IF Session(t) # 0 THEN Session(t) ELSE backup
  /\ Viewing(t, n)
  /\ stored' = n
  /\ call' = [call EXCEPT ![t][c] = NoCall]
  /\ UNCHANGED books

\* AdminImpersonate and beginImpersonation: stash the own session unless one
\* was viewed already, switch, and load the page anew.
BeginImpersonation(t, c, n, u) ==
  /\ Accepted(t, c, "view")
  /\ UserOf(call[t][c].pair) \in Admins \ {u}
  /\ Issued(n, u, TRUE)
  /\ backup' = IF ~page[t].viewing /\ Session(t) # 0 THEN Session(t) ELSE backup
  /\ Viewing(t, n)
  /\ stored' = n
  /\ call' = [call EXCEPT ![t][c] = NoCall]
  /\ UNCHANGED books

\* The stash cannot be written: the session stays, the page loads anew.
StashFails(t, c, n, u) ==
  /\ Accepted(t, c, "view")
  /\ UserOf(call[t][c].pair) \in Admins \ {u}
  /\ ~page[t].viewing /\ Session(t) # 0
  /\ Issued(n, u, TRUE)
  /\ page' = [page EXCEPT ![t].leaving = TRUE]
  /\ call' = [call EXCEPT ![t][c] = NoCall]
  /\ UNCHANGED <<books, stored, backup>>

\* The banner's exit: endImpersonation, and the page loads anew.
EndImpersonation(t) ==
  /\ Mounted(t) /\ page[t].viewing
  /\ page' = [page EXCEPT ![t].session = IF backup # 0 THEN backup ELSE @,
                          ![t].viewing = FALSE, ![t].leaving = TRUE, ![t].asked = 0]
  /\ stored' = IF backup # 0 THEN backup ELSE stored
  /\ backup' = 0
  /\ UNCHANGED <<pair, call>> /\ Remember

-----------------------------------------------------------------------------
(* Signing in and out, and loading the page.                               *)

\* LoginPage, RegisterPage.
SignIn(t, n, u) ==
  /\ Session(t) = 0 \/ \A c \in WebCalls : call[t][c] = NoCall
  /\ ~page[t].leaving
  /\ Issued(n, u, FALSE)
  /\ SetSession(t, n)
  /\ UNCHANGED <<books, backup, call>>

\* Sign out: the panel may never hear of it; the client forgets at once.
Logout(t) ==
  /\ Mounted(t)
  /\ \/ pair' = [pair EXCEPT ![Session(t)].state = "spent"]
     \/ UNCHANGED pair
  /\ page' = [page EXCEPT ![t].session = 0, ![t].viewing = FALSE, ![t].asked = 0]
  /\ stored' = 0 /\ backup' = 0
  /\ UNCHANGED <<books, call>>

\* ChangePasswordCard: the panel revokes every session of the account, ...
PasswordChanged(t, c) ==
  /\ Accepted(t, c, "password")
  /\ LET u == UserOf(call[t][c].pair) IN
       pair' = [n \in Pairs |-> IF pair[n].user = u /\ pair[n].state = "live"
                                THEN [pair[n] EXCEPT !.state = "spent"] ELSE pair[n]]
  /\ call' = [call EXCEPT ![t][c].pc = "relogin"]
  /\ UNCHANGED <<books, stored, backup, page>>

\* ... and the card signs in again.
Relogin(t, c, n) ==
  /\ call[t][c].pc = "relogin"
  /\ Issued(n, UserOf(call[t][c].pair), FALSE)
  /\ SetSession(t, n)
  /\ call' = [call EXCEPT ![t][c] = NoCall]
  /\ UNCHANGED <<books, backup>>

\* A tab is opened or loads the page: the store is filled from localStorage
\* and whatever was under way is forgotten.
Load(t) ==
  /\ page' = [page EXCEPT ![t] =
       [Blank EXCEPT !.session = stored, !.viewing = backup # 0]]
  /\ call' = [call EXCEPT ![t] = [c \in WebCalls |-> NoCall]]
  /\ UNCHANGED <<pair, stored, backup>> /\ Remember

WebSessionInit ==
  /\ pair = [n \in Pairs |-> Unissued]
  /\ stored = 0
  /\ backup = 0
  /\ page = [t \in WebTabs |-> Blank]
  /\ call = [t \in WebTabs |-> [c \in WebCalls |-> NoCall]]
  /\ made = 0
  /\ unmarked = FALSE

TabStep(t) ==
  \/ \E c \in WebCalls :
       \/ \E kind \in {"me", "view", "password"} : Request(t, c, kind)
       \/ AwaitRefresh(t, c) \/ CallFailed(t, c)
       \/ UserUpdated(t, c) \/ Answered(t, c) \/ PasswordChanged(t, c)
       \/ \E n \in Pairs : Relogin(t, c, n)
       \/ \E n \in Pairs, u \in People :
            BeginImpersonation(t, c, n, u) \/ StashFails(t, c, n, u)
  \/ \E n \in Pairs : RefreshServed(t, n)
  \/ RefreshGranted(t) \/ RefreshFailed(t)
  \/ \E n \in Pairs, u \in People : SignIn(t, n, u)
  \/ EndImpersonation(t) \/ Logout(t) \/ Load(t)

WebSessionNext == \E t \in WebTabs : TabStep(t)

WebSessionSpec == WebSessionInit /\ [][WebSessionNext]_webSessionVars

-----------------------------------------------------------------------------
(* refreshAccessToken: however many requests are refused together, a tab    *)
(* presents the refresh token of the session it holds once until it holds  *)
(* another (the panel would refuse it the second time, and the tab would   *)
(* be signed out).                                                         *)
RefreshOnce == \A t \in WebTabs : page[t].asked <= 1

(* beginImpersonation: what is stashed is a session somebody signed in to, *)
(* never one obtained by viewing, as long as every viewed session showed.  *)
StashIsOwn == unmarked \/ backup = 0 \/ ~pair[backup].view
=============================================================================
