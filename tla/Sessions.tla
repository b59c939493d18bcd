------------------------------ MODULE Sessions -------------------------------
(***************************************************************************)
(* Accounts and their sessions: registration, login, refresh tokens,       *)
(* changes of password and role, deletion, and API keys (the handlers of   *)
(* auth_handlers.go, account_handlers.go and admin_users_handlers.go over  *)
(* repo.Users, repo.RefreshTokens and repo.APIKeys).                       *)
(*                                                                         *)
(* A request is a goroutine with one step per database call.  Checks that  *)
(* read no state (password hashing, one-time codes, lengths) either let a  *)
(* request through or end it and are left out.  An access token is not     *)
(* looked up when it is used: whoever held one as an administrator may     *)
(* still act as one (it expires, which is not assumed here).               *)
(***************************************************************************)
EXTENDS Integers, FiniteSets

CONSTANTS
  Accounts,    \* identifiers of accounts (a deleted one is never reused)
  Requests,       \* request goroutines
  MaxKeys,     \* API keys an account may hold (maxAPIKeysPerUser)
  MaxTokens,   \* bound: refresh tokens ever issued
  MaxRequests  \* bound: requests of several steps ever begun

ASSUME SessionsAssumption ==
  /\ IsFiniteSet(Accounts) /\ IsFiniteSet(Requests)
  /\ MaxKeys \in Nat \ {0} /\ MaxTokens \in Nat /\ MaxRequests \in Nat

Tokens == 1 .. MaxTokens

VARIABLES
  role,       \* of each account: "none", "user", "admin" or "deleted"
  password,   \* how often it was changed
  token,      \* refresh tokens: state, account, and the password behind them
  keys,       \* API keys of each account
  request,        \* requests under way
  begun,      \* requests begun so far
  issued,     \* history: sessions issued for each refresh token
  contested,  \* history: tokens two requests held at once, or kept by a failure
  escaped,    \* history: tokens a change of password could not revoke
  elevated,   \* history: accounts that have been administrators
  unguarded,  \* history: administrators' requests overlapped or went unchecked
  uncounted   \* history: accounts whose keys could not be counted once

accountVars == <<role, password, keys>>
adminHistory == <<elevated, unguarded>>
tokenHistory == <<issued, contested, escaped>>
sessionsVars == <<accountVars, token, request, begun, tokenHistory, adminHistory, uncounted>>

NotIssued == [state |-> "unissued", user |-> "nobody", epoch |-> 0]
NoRequest == [pc |-> "idle", user |-> "nobody", token |-> 0, epoch |-> 0,
         admin |-> FALSE, stale |-> FALSE]

Registered(u) == role[u] \in {"user", "admin"}
Valid(t) == token[t].state = "live"
Count == Cardinality({u \in Accounts : Registered(u)})
CountAdmins == Cardinality({u \in Accounts : role[u] = "admin"})
At(p, step) == request[p].pc = step

GoOn(p, step) == request' = [request EXCEPT ![p].pc = step]
EndRequest(p) == request' = [request EXCEPT ![p] = NoRequest]
BeginRequest(p, r) ==
  /\ At(p, "idle") /\ begun < MaxRequests
  /\ begun' = begun + 1
  /\ request' = [request EXCEPT ![p] = r]

-----------------------------------------------------------------------------
(* Sessions.                                                               *)

\* Login, or an administrator viewing the panel as u.
Login(p, u) ==
  /\ Registered(u)
  /\ BeginRequest(p, [NoRequest EXCEPT !.pc = "issue", !.user = u, !.epoch = password[u]])
  /\ UNCHANGED <<accountVars, token, tokenHistory, adminHistory, uncounted>>

\* Refresh: the token is looked up ...
Refresh(p, t) ==
  /\ Valid(t)
  /\ BeginRequest(p, [NoRequest EXCEPT !.pc = "rotate", !.user = token[t].user,
                           !.token = t, !.epoch = token[t].epoch])
  /\ contested' = contested \cup {s \in {t} : \E q \in Requests : request[q].token = t}
  /\ UNCHANGED <<accountVars, token, issued, escaped, adminHistory, uncounted>>

\* The token is not deleted.
RotateForgotten(p) ==
  /\ At(p, "rotate")
  /\ GoOn(p, "load")
  /\ UNCHANGED <<accountVars, token, begun, tokenHistory, adminHistory, uncounted>>

\* ... deleted, whatever comes of it ...
Rotate(p) ==
  /\ At(p, "rotate")
  /\ token' = [token EXCEPT ![request[p].token].state = "gone"]
  /\ GoOn(p, "load")
  /\ UNCHANGED <<accountVars, begun, tokenHistory, adminHistory, uncounted>>

RotateFails(p) ==
  /\ At(p, "rotate")
  /\ GoOn(p, "load")
  /\ contested' = contested \cup {request[p].token}
  /\ UNCHANGED <<accountVars, token, begun, issued, escaped, adminHistory, uncounted>>

\* ... its account loaded ...
LoadAccount(p) ==
  /\ At(p, "load")
  /\ IF Registered(request[p].user) THEN GoOn(p, "issue") ELSE EndRequest(p)
  /\ UNCHANGED <<accountVars, token, begun, tokenHistory, adminHistory, uncounted>>

\* ... and a new pair issued; the row needs its account.
IssueTokenPair(p, t) ==
  /\ At(p, "issue") /\ Registered(request[p].user)
  /\ token[t] = NotIssued /\ \A s \in Tokens : s < t => token[s] # NotIssued
  /\ token' = [token EXCEPT ![t] =
       [state |-> "live", user |-> request[p].user, epoch |-> request[p].epoch]]
  /\ issued' = [s \in Tokens |-> IF s = request[p].token THEN issued[s] + 1 ELSE issued[s]]
  /\ escaped' = escaped \cup
       {s \in {t} : request[p].stale \/ request[p].token \in escaped}
  /\ EndRequest(p)
  /\ UNCHANGED <<accountVars, begun, contested, adminHistory, uncounted>>

IssueRefused(p) ==
  /\ At(p, "issue") /\ ~Registered(request[p].user)
  /\ EndRequest(p)
  /\ UNCHANGED <<accountVars, token, begun, tokenHistory, adminHistory, uncounted>>

\* Logout, RevokeSession, and the pruning of expired tokens.
Revoke(t) ==
  /\ Valid(t)
  /\ token' = [token EXCEPT ![t].state = "gone"]
  /\ UNCHANGED <<accountVars, request, begun, tokenHistory, adminHistory, uncounted>>

Revoked(u, kept) ==
  [t \in Tokens |-> IF Valid(t) /\ token[t].user = u /\ t \notin kept
                    THEN [token[t] EXCEPT !.state = "gone"] ELSE token[t]]

RevokeOtherSessions(u, t) ==
  /\ Valid(t) /\ token[t].user = u
  /\ token' = Revoked(u, {t})
  /\ UNCHANGED <<accountVars, request, begun, tokenHistory, adminHistory, uncounted>>

-----------------------------------------------------------------------------
(* ChangePassword, and AdminResetUserPassword without the current one:     *)
(* load the account, store the new hash, and revoke every session, as      *)
(* AdminSetUserRole does in the end.                                       *)

ChangePassword(p, u) ==
  /\ Registered(u)
  /\ BeginRequest(p, [NoRequest EXCEPT !.pc = "password", !.user = u])
  /\ UNCHANGED <<accountVars, token, tokenHistory, adminHistory, uncounted>>

AdminResetUserPassword(p, by, u) == by \in elevated /\ ChangePassword(p, u)

SetPasswordHash(p) ==
  /\ At(p, "password")
  /\ IF Registered(request[p].user)
     THEN password' = [password EXCEPT ![request[p].user] = @ + 1] /\ GoOn(p, "revoke")
     ELSE EndRequest(p) /\ UNCHANGED password
  /\ UNCHANGED <<role, keys, token, begun, tokenHistory, adminHistory, uncounted>>

\* Requests that looked a token or a password up before go on with it.
Outdated(u, p) ==
  [q \in Requests |->
     IF q = p THEN NoRequest
     ELSE IF request[q].user = u /\ request[q].pc \in {"rotate", "load", "issue"}
             /\ request[q].epoch < password[u]
          THEN [request[q] EXCEPT !.stale = TRUE] ELSE request[q]]

\* The sessions are left as they are.
RevokeForgotten(p) ==
  /\ At(p, "revoke")
  /\ request' = Outdated(request[p].user, p)
  /\ UNCHANGED <<accountVars, token, begun, tokenHistory, adminHistory, uncounted>>

DeleteAllForUser(p) ==
  /\ At(p, "revoke")
  /\ token' = Revoked(request[p].user, {})
  /\ request' = Outdated(request[p].user, p)
  /\ UNCHANGED <<accountVars, begun, tokenHistory, adminHistory, uncounted>>

OldSessions(u) == {t \in Tokens : Valid(t) /\ token[t].user = u /\ token[t].epoch < password[u]}

DeleteAllFails(p) ==
  /\ At(p, "revoke")
  /\ escaped' = escaped \cup OldSessions(request[p].user)
  /\ request' = Outdated(request[p].user, p)
  /\ UNCHANGED <<accountVars, token, begun, issued, contested, adminHistory, uncounted>>

-----------------------------------------------------------------------------
(* Accounts.                                                               *)

\* Register: the first account becomes an administrator ...
BeginRegister(p, u) ==
  /\ role[u] = "none"
  /\ BeginRequest(p, [NoRequest EXCEPT !.pc = "register", !.user = u, !.admin = Count = 0])
  /\ UNCHANGED <<accountVars, token, tokenHistory, adminHistory, uncounted>>

\* ... unless the name was taken meanwhile.
CreateUser(p) ==
  LET u == request[p].user IN
  /\ At(p, "register")
  /\ IF role[u] = "none"
     THEN /\ role' = [role EXCEPT ![u] = IF request[p].admin THEN "admin" ELSE "user"]
          /\ elevated' = elevated \cup (IF request[p].admin THEN {u} ELSE {})
          /\ GoOn(p, "issue")
     ELSE EndRequest(p) /\ UNCHANGED <<role, elevated>>
  /\ UNCHANGED <<password, keys, token, begun, tokenHistory, unguarded, uncounted>>

Administering(p) == request[p].pc \in {"role", "remove"}

BeginAdmin(p, r) ==
  /\ BeginRequest(p, r)
  /\ unguarded' = (unguarded \/ \E q \in Requests : Administering(q))
  /\ UNCHANGED <<accountVars, token, tokenHistory, elevated, uncounted>>

NotLastAdmin(u) == role[u] = "admin" => CountAdmins > 1

\* AdminSetUserRole and AdminDeleteUser look before they act.
Promote(p, by, u) ==
  /\ by \in elevated
  /\ BeginAdmin(p, [NoRequest EXCEPT !.pc = "role", !.user = u, !.admin = TRUE])

Demote(p, by, u) ==
  /\ by \in elevated /\ Registered(u)
  /\ role[u] = "admin" => by # u
  /\ NotLastAdmin(u)
  /\ BeginAdmin(p, [NoRequest EXCEPT !.pc = "role", !.user = u])

\* The last administrator is not looked for.
DeleteBySelfOnly(p, by, u) ==
  /\ by \in elevated /\ by # u
  /\ BeginAdmin(p, [NoRequest EXCEPT !.pc = "remove", !.user = u])

AdminDelete(p, by, u) ==
  /\ by \in elevated /\ by # u
  /\ NotLastAdmin(u)
  /\ BeginAdmin(p, [NoRequest EXCEPT !.pc = "remove", !.user = u])

\* The account could not be loaded, and so was not checked.
AdminDeleteUnchecked(p, by, u) ==
  /\ by \in elevated /\ by # u
  /\ BeginRequest(p, [NoRequest EXCEPT !.pc = "remove", !.user = u])
  /\ unguarded' = TRUE
  /\ UNCHANGED <<accountVars, token, tokenHistory, elevated, uncounted>>

SetRole(p) ==
  LET u == request[p].user IN
  /\ At(p, "role")
  /\ IF Registered(u)
     THEN /\ role' = [role EXCEPT ![u] = IF request[p].admin THEN "admin" ELSE "user"]
          /\ elevated' = elevated \cup (IF request[p].admin THEN {u} ELSE {})
          /\ GoOn(p, "revoke")
     ELSE EndRequest(p) /\ UNCHANGED <<role, elevated>>
  /\ UNCHANGED <<password, keys, token, begun, tokenHistory, unguarded, uncounted>>

\* Sessions and keys go with the account.
RemoveAccount(p) ==
  LET u == request[p].user IN
  /\ At(p, "remove")
  /\ IF Registered(u)
     THEN /\ role' = [role EXCEPT ![u] = "deleted"]
          /\ keys' = [keys EXCEPT ![u] = 0]
          /\ token' = Revoked(u, {})
     ELSE UNCHANGED <<role, keys, token>>
  /\ EndRequest(p)
  /\ UNCHANGED <<password, begun, tokenHistory, adminHistory, uncounted>>

-----------------------------------------------------------------------------
(* API keys.                                                               *)

\* A key too many passes the check.
CreateKeyAtCap(p, u) ==
  /\ role[u] # "none"
  /\ keys[u] <= MaxKeys
  /\ BeginRequest(p, [NoRequest EXCEPT !.pc = "key", !.user = u])
  /\ UNCHANGED <<accountVars, token, tokenHistory, adminHistory, uncounted>>

CreateAPIKey(p, u) ==
  /\ role[u] # "none"
  /\ keys[u] < MaxKeys
  /\ BeginRequest(p, [NoRequest EXCEPT !.pc = "key", !.user = u])
  /\ UNCHANGED <<accountVars, token, tokenHistory, adminHistory, uncounted>>

\* The keys could not be counted: the cap is not applied.
CountFails(p, u) ==
  /\ role[u] # "none"
  /\ BeginRequest(p, [NoRequest EXCEPT !.pc = "key", !.user = u])
  /\ uncounted' = uncounted \cup {u}
  /\ UNCHANGED <<accountVars, token, tokenHistory, adminHistory>>

InsertKey(p) ==
  /\ At(p, "key")
  /\ keys' = IF Registered(request[p].user) THEN [keys EXCEPT ![request[p].user] = @ + 1] ELSE keys
  /\ EndRequest(p)
  /\ UNCHANGED <<role, password, token, begun, tokenHistory, adminHistory, uncounted>>

DeleteAPIKey(u) ==
  /\ keys[u] > 0
  /\ keys' = [keys EXCEPT ![u] = @ - 1]
  /\ UNCHANGED <<role, password, token, request, begun, tokenHistory, adminHistory, uncounted>>

-----------------------------------------------------------------------------
\* A failed call ends a request, except for the two deletions above whose
\* errors are ignored.
RequestFails(p) ==
  /\ request[p].pc \in {"load", "issue", "password", "register", "role", "remove", "key"}
  /\ EndRequest(p)
  /\ UNCHANGED <<accountVars, token, begun, tokenHistory, adminHistory, uncounted>>

\* The panel restarts between any two steps.
PanelRestarts ==
  /\ \E p \in Requests : ~At(p, "idle")
  /\ request' = [p \in Requests |-> NoRequest]
  /\ escaped' = escaped \cup
       UNION {OldSessions(request[p].user) : p \in {q \in Requests : At(q, "revoke")}}
  /\ UNCHANGED <<accountVars, token, begun, issued, contested, adminHistory, uncounted>>

SessionsInit ==
  /\ role = [u \in Accounts |-> "none"]
  /\ password = [u \in Accounts |-> 0]
  /\ token = [t \in Tokens |-> NotIssued]
  /\ keys = [u \in Accounts |-> 0]
  /\ request = [p \in Requests |-> NoRequest]
  /\ begun = 0
  /\ issued = [t \in Tokens |-> 0]
  /\ contested = {} /\ escaped = {} /\ elevated = {}
  /\ unguarded = FALSE
  /\ uncounted = {}

StepOf(p) ==
  \/ Rotate(p) \/ RotateFails(p) \/ LoadAccount(p)
  \/ \E t \in Tokens : IssueTokenPair(p, t)
  \/ IssueRefused(p)
  \/ SetPasswordHash(p) \/ DeleteAllForUser(p) \/ DeleteAllFails(p)
  \/ CreateUser(p) \/ SetRole(p) \/ RemoveAccount(p)
  \/ InsertKey(p)
  \/ RequestFails(p)

AccountStep(p, u) ==
  \/ BeginRegister(p, u) \/ Login(p, u) \/ ChangePassword(p, u)
  \/ CreateAPIKey(p, u) \/ CountFails(p, u)
  \/ \E by \in Accounts :
       AdminResetUserPassword(p, by, u)
       \/ Promote(p, by, u) \/ Demote(p, by, u)
       \/ AdminDelete(p, by, u) \/ AdminDeleteUnchecked(p, by, u)

SessionsNext ==
  \/ \E p \in Requests :
       \/ \E u \in Accounts : AccountStep(p, u)
       \/ \E t \in Tokens : Refresh(p, t)
       \/ StepOf(p)
  \/ \E t \in Tokens : Revoke(t)
  \/ \E u \in Accounts : DeleteAPIKey(u) \/ \E t \in Tokens : RevokeOtherSessions(u, t)
  \/ PanelRestarts

SessionsSpec == SessionsInit /\ [][SessionsNext]_sessionsVars

-----------------------------------------------------------------------------
(* Properties.                                                             *)

(* Refresh: a refresh token buys at most one session, whatever fails after *)
(* it was presented, unless two requests presented it at the same time or  *)
(* the database failed to delete it.                                       *)
SpentOnce == \A t \in Tokens \ contested : issued[t] <= 1

(* ChangePassword: once it is done, the sessions left stem from the new    *)
(* password, but for those of requests that had looked an old token or the *)
(* old password up before, and for those the database failed to delete.    *)
PasswordEndsSessions ==
  \A t \in Tokens :
    Valid(t) /\ token[t].epoch < password[token[t].user] =>
      \/ t \in escaped
      \/ \E p \in Requests : At(p, "revoke") /\ request[p].user = token[t].user

(* AdminSetUserRole and AdminDeleteUser: there is always an administrator  *)
(* once there was one, unless two such requests overlapped or an account   *)
(* to be deleted could not be looked up.                                   *)
AdminRemains ==
  elevated # {} /\ ~unguarded => \E u \in Accounts : role[u] = "admin"

(* CreateAPIKey: requests that count before any of them inserts exceed the *)
(* cap, but never by more than the other requests under way.               *)
KeysCapped ==
  \A u \in Accounts \ uncounted : keys[u] < MaxKeys + Cardinality(Requests)
=============================================================================
