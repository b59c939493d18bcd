------------------------------- MODULE WebPages --------------------------------
(***************************************************************************)
(* The screens of the web client over React Query's cache: which queries a *)
(* screen shows and polls, what its buttons write on the panel, and which  *)
(* queries it invalidates when the answer arrives.  An endpoint is the set *)
(* of the panel's tables and files it reads, or writes; a query key is the *)
(* client's own, and invalidating a key takes every key it begins.         *)
(*                                                                         *)
(* One tour is one button of one screen, pressed up to MaxPresses times,   *)
(* with visits to one other screen in between; only the queries that read  *)
(* what the button writes are followed.  What others do is left out, and   *)
(* so is the audit log, which every button writes.                         *)
(***************************************************************************)
EXTENDS Integers, Sequences, SequencesExt

CONSTANT MaxPresses  \* bound: how often the button is pressed

-----------------------------------------------------------------------------
(* endpoints.ts: what each request reads, or writes, by the handlers of the*)
(* panel and the ON DELETE rules of its tables.  Left out are the columns  *)
(* no screen shows, such as the time of a server's last backup.            *)

\* A server's row, its owner's use, the ports it frees, what goes with the row.
ServerRows == {"servers", "use", "ports", "databases", "schedules", "subusers", "favorites"}

AccountApi == [changePassword |-> {"sessions"}, listSessions |-> {"sessions"},
  revokeSession |-> {"sessions"}, revokeOtherSessions |-> {"sessions"},
  listApiKeys |-> {"keys"}, createApiKey |-> {"keys"}, deleteApiKey |-> {"keys"}]

SchedulesApi == [list |-> {"schedules"}, create |-> {"schedules"},
  toggle |-> {"schedules"}, remove |-> {"schedules"}]

PublicApi == [serverStatus |-> {"servers"}]

ModrinthApi == [install |-> {"files"}]

ServersApi == [list |-> {"servers"}, get |-> {"servers"}, stats |-> {"stats"},
  players |-> {"players"}, create |-> {"servers", "use", "ports"},
  update |-> {"servers", "use"}, remove |-> ServerRows,
  power |-> {"servers"}, clone |-> {"servers", "use", "ports"},
  setPublicStatus |-> {"servers"}, setDescription |-> {"servers"},
  favorite |-> {"favorites"}, unfavorite |-> {"favorites"}]

FavoritesApi == [list |-> {"favorites"}]

BackupsApi == [list |-> {"backups"}, create |-> {"backups"},
  restore |-> {"files"}, remove |-> {"backups"}]

DatabasesApi == [list |-> {"databases"}, create |-> {"databases", "use"},
  remove |-> {"databases", "use"}]

SubusersApi == [list |-> {"subusers"}, add |-> {"subusers"}, remove |-> {"subusers"}]

FilesApi == [list |-> {"files"}, write |-> {"files"}, rename |-> {"files"},
  remove |-> {"files"}, mkdir |-> {"files"}]

CatalogApi == [eggs |-> {"eggs"}, nodes |-> {"nodes"}, store |-> {"store"}]

\* The limits of an account: its use, what it bought, and the defaults.
CoinsApi == [wallet |-> {"ledger", "coins"}, claimDaily |-> {"ledger", "coins"},
  gift |-> {"ledger", "coins"}, redeem |-> {"ledger", "coins", "codes"},
  quota |-> {"use", "bonus", "settings"}, purchase |-> {"ledger", "coins", "bonus"}]

\* A change of ports rebuilds the container and writes the status it ends in;
\* a server's first port, which its list of ports shows, never changes.
AdminApi == [listUsers |-> {"users", "coins"}, setUserRole |-> {"users", "sessions"},
  deleteUser |-> ServerRows \cup {"users", "coins", "ledger", "bonus", "sessions", "keys"},
  adjustCoins |-> {"ledger", "coins"},
  getUserQuota |-> {"use", "bonus", "settings"}, setUserQuota |-> {"bonus"},
  listAllServers |-> {"servers", "users"}, transferServer |-> {"servers", "use"},
  suspendServer |-> {"servers"}, deleteServer |-> ServerRows, purgeServers |-> ServerRows,
  listRedeemCodes |-> {"codes"}, createRedeemCode |-> {"codes"}, deleteRedeemCode |-> {"codes"},
  listNodes |-> {"nodes"}, createNode |-> {"nodes", "ports"}, deleteNode |-> {"nodes", "ports"},
  rotateNodeToken |-> {"nodes"},
  listAllocations |-> {"ports", "servers"}, createAllocations |-> {"ports"},
  deleteAllocation |-> {"ports"}, listServerAllocations |-> {"ports"},
  addServerAllocation |-> {"ports", "servers"}, removeServerAllocation |-> {"ports", "servers"},
  createEgg |-> {"eggs"}, updateEgg |-> {"eggs"}, deleteEgg |-> {"eggs"},
  getSettings |-> {"settings"}, setSetting |-> {"settings"}]

-----------------------------------------------------------------------------
(* The screens.  The server's tabs are shown together with its page, whose *)
(* buttons write nothing that a tab adds.                                  *)

Servers == <<"servers">>
Server == <<"servers", "id">>
Of(part) == <<"servers", "id", part>>
Admin(list) == <<"admin", list>>

Shows(key, reads) == [key |-> key, reads |-> reads, polled |-> FALSE]
Polls(key, reads) == [key |-> key, reads |-> reads, polled |-> TRUE]
Act(writes, invalidates) == [writes |-> writes, invalidates |-> invalidates]

QuotaMeters == Shows(<<"quota">>, CoinsApi.quota)

DashboardPage == [shows |-> {Shows(Servers, ServersApi.list)}, acts |-> {}]

\* The star is a module of its own (FavoriteStars).
ServersListPage ==
  [shows |-> {Shows(Servers, ServersApi.list), Shows(<<"eggs">>, CatalogApi.eggs),
              Shows(<<"nodes">>, CatalogApi.nodes), QuotaMeters},
   acts |-> {Act(ServersApi.clone, {Servers, <<"quota">>}),
             Act(ServersApi.create, {Servers, <<"quota">>})}]

\* What every tab of a server shows; start, stop, kill, restart, suspend, delete.
ServerDetailPage ==
  [shows |-> {Shows(Server, ServersApi.get), Shows(<<"nodes">>, CatalogApi.nodes),
              Polls(<<"server-stats", "id">>, ServersApi.stats)},
   acts |-> {Act(ServersApi.power, {Server}), Act(AdminApi.suspendServer, {Server}),
             Act(ServersApi.remove, {})}]

Tab(shows, acts) == [shows |-> ServerDetailPage.shows \cup shows, acts |-> acts]

PlayersTab == Tab({Polls(<<"players", "id">>, ServersApi.players)}, {})

\* Read, write, delete, rename, create, upload and move.
FilesTab == Tab({Shows(Of("files"), FilesApi.list)},
  {Act(FilesApi.write, {Of("files")}), Act(FilesApi.remove, {Of("files")}),
   Act(FilesApi.rename, {Of("files")}), Act(FilesApi.mkdir, {Of("files")})})

ModrinthTab == Tab({}, {Act(ModrinthApi.install, {})})

BackupsTab == Tab({Shows(Of("backups"), BackupsApi.list)},
  {Act(BackupsApi.create, {Of("backups")}), Act(BackupsApi.restore, {}),
   Act(BackupsApi.remove, {Of("backups")})})

DatabasesTab == Tab({Shows(<<"databases", "id">>, DatabasesApi.list)},
  {Act(DatabasesApi.create, {<<"databases", "id">>, <<"quota">>}),
   Act(DatabasesApi.remove, {<<"databases", "id">>, <<"quota">>})})

SchedulesTab == Tab({Shows(Of("schedules"), SchedulesApi.list)},
  {Act(SchedulesApi.create, {Of("schedules")}), Act(SchedulesApi.toggle, {Of("schedules")}),
   Act(SchedulesApi.remove, {Of("schedules")})})

StartupTab == Tab({Shows(<<"eggs">>, CatalogApi.eggs)}, {Act(ServersApi.update, {Server})})

SettingsTab == Tab({},
  {Act(ServersApi.setDescription, {Server}), Act(ServersApi.setPublicStatus, {Server}),
   Act(ServersApi.update, {Server, <<"quota">>})})

SharingTab == Tab({Shows(Of("subusers"), SubusersApi.list)},
  {Act(SubusersApi.add, {Of("subusers")}), Act(SubusersApi.remove, {Of("subusers")})})

NodesPage == [shows |-> {Shows(<<"nodes">>, CatalogApi.nodes)}, acts |-> {}]

WalletPage == [shows |-> {Shows(<<"wallet">>, CoinsApi.wallet)},
  acts |-> {Act(CoinsApi.gift, {<<"wallet">>}), Act(CoinsApi.redeem, {<<"wallet">>})}]

StorePage == [shows |-> {Shows(<<"store">>, CatalogApi.store), QuotaMeters},
  acts |-> {Act(CoinsApi.purchase, {<<"quota">>})}]

\* The AFK screen's daily reward.
DailyCard == [shows |-> {}, acts |-> {Act(CoinsApi.claimDaily, {})}]

LeaderboardPage == [shows |-> {Polls(<<"leaderboard">>, {"coins"})}, acts |-> {}]

AchievementsPage == [shows |-> {Polls(<<"achievements">>, {"servers", "coins", "ledger"})}, acts |-> {}]

StatusPage == [shows |-> {Polls(<<"public-status", "id">>, PublicApi.serverStatus)}, acts |-> {}]

SessionsCard == Shows(<<"account", "sessions">>, AccountApi.listSessions)
ApiKeysCard == Shows(<<"account", "apikeys">>, AccountApi.listApiKeys)

AccountPage == [shows |-> {SessionsCard, ApiKeysCard},
  acts |-> {Act(AccountApi.changePassword, {}),
            Act(AccountApi.revokeSession, {SessionsCard.key}),
            Act(AccountApi.revokeOtherSessions, {SessionsCard.key}),
            Act(AccountApi.createApiKey, {ApiKeysCard.key}),
            Act(AccountApi.deleteApiKey, {ApiKeysCard.key})}]

\* Transfer, delete, suspend and purge.
AdminServersTab ==
  [shows |-> {Shows(Admin("servers"), AdminApi.listAllServers),
              Shows(Admin("users"), AdminApi.listUsers)},
   acts |-> {Act(AdminApi.transferServer, {Admin("servers")}),
             Act(AdminApi.deleteServer, {Admin("servers")}),
             Act(AdminApi.suspendServer, {Admin("servers")}),
             Act(AdminApi.purgeServers, {Admin("servers")})}]

\* The same with the ports of one server opened.
PortButtons ==
  {Act(AdminApi.addServerAllocation, {Admin("server-allocations"), Admin("allocations")}),
   Act(AdminApi.removeServerAllocation, {Admin("server-allocations"), Admin("allocations")})}

ServerPortsPanel ==
  [shows |-> AdminServersTab.shows \cup
             {Shows(Admin("server-allocations"), AdminApi.listServerAllocations)},
   acts |-> AdminServersTab.acts \cup PortButtons]

\* Roles, deletion, coins; the quota of the account whose editor is open.
AdminUsersTab ==
  [shows |-> {Shows(Admin("users"), AdminApi.listUsers),
              Shows(Admin("quota"), AdminApi.getUserQuota)},
   acts |-> {Act(AdminApi.setUserRole, {Admin("users")}),
             Act(AdminApi.deleteUser, {Admin("users")}),
             Act(AdminApi.adjustCoins, {Admin("users")}),
             Act(AdminApi.setUserQuota, {Admin("quota")})}]

AdminNodesTab == [shows |-> {Shows(Admin("nodes"), AdminApi.listNodes)},
  acts |-> {Act(AdminApi.createNode, {Admin("nodes")}), Act(AdminApi.deleteNode, {Admin("nodes")}),
            Act(AdminApi.rotateNodeToken, {Admin("nodes")})}]

AdminAllocationsTab ==
  [shows |-> {Shows(Admin("nodes"), AdminApi.listNodes),
              Shows(<<"admin", "allocations", "node">>, AdminApi.listAllocations)},
   acts |-> {Act(AdminApi.createAllocations, {<<"admin", "allocations", "node">>}),
             Act(AdminApi.deleteAllocation, {<<"admin", "allocations", "node">>})}]

AdminCodesTab == [shows |-> {Shows(Admin("codes"), AdminApi.listRedeemCodes)},
  acts |-> {Act(AdminApi.createRedeemCode, {Admin("codes")}),
            Act(AdminApi.deleteRedeemCode, {Admin("codes")})}]

AdminEggsTab == [shows |-> {Shows(<<"eggs">>, CatalogApi.eggs)},
  acts |-> {Act(AdminApi.createEgg, {<<"eggs">>}), Act(AdminApi.updateEgg, {<<"eggs">>}),
            Act(AdminApi.deleteEgg, {<<"eggs">>})}]

\* The Economy, Quotas and Settings tabs; Appearance has a key of its own.
AdminSettingsTab == [shows |-> {Shows(Admin("settings"), AdminApi.getSettings)},
  acts |-> {Act(AdminApi.setSetting, {Admin("settings")})}]

AdminAppearanceTab == [shows |-> {Shows(<<"admin-settings">>, AdminApi.getSettings)},
  acts |-> {Act(AdminApi.setSetting, {<<"admin-settings">>})}]

AdminAnalyticsTab ==
  [shows |-> {Polls(Admin("analytics"), {"users", "servers", "nodes", "coins"})}, acts |-> {}]

Pages ==
  {DashboardPage, ServersListPage, ServerDetailPage, PlayersTab, FilesTab, ModrinthTab,
   BackupsTab, DatabasesTab, SchedulesTab, StartupTab, SettingsTab, SharingTab, NodesPage,
   WalletPage, StorePage, DailyCard, LeaderboardPage, AchievementsPage, StatusPage,
   AccountPage, AdminServersTab, ServerPortsPanel, AdminUsersTab, AdminNodesTab,
   AdminAllocationsTab, AdminCodesTab, AdminEggsTab, AdminSettingsTab, AdminAppearanceTab,
   AdminAnalyticsTab}

-----------------------------------------------------------------------------
(* The cache on a tour.                                                    *)

VARIABLES
  tour,    \* the screen and its button
  here,    \* is the user on that screen?
  cache,   \* per query followed: its data, whether they are stale, its fetch
  press,   \* the mutation: "none", "sent", "written" or "lost"
  presses, \* how often the button has been pressed
  unheard  \* history: an answer was lost, or one write of several failed

pagesVars == <<tour, here, cache, press, presses, unheard>>

Followed == {q \in tour.screen.shows : q.reads \cap tour.button.writes # {}}
Keys == {q.key : q \in Followed}
PolledKeys == {q.key : q \in {p \in Followed : p.polled}}
Entry(data, stale, fetch) == [data |-> data, stale |-> stale, fetch |-> fetch]
Invalidated(k) == \E prefix \in tour.button.invalidates : IsPrefix(prefix, k)

\* staleTime, 30 seconds after the data arrived.
GrowsStale(k) ==
  /\ cache[k].data # "none" /\ ~cache[k].stale
  /\ cache' = [cache EXCEPT ![k].stale = TRUE]
  /\ UNCHANGED <<tour, here, press, presses, unheard>>

Poll(k) ==
  /\ here /\ k \in PolledKeys /\ cache[k].fetch = "none"
  /\ cache' = [cache EXCEPT ![k].fetch = "sent"]
  /\ UNCHANGED <<tour, here, press, presses, unheard>>

PageFetchServed(k) ==
  /\ cache[k].fetch = "sent"
  /\ cache' = [cache EXCEPT ![k].fetch = "current"]
  /\ UNCHANGED <<tour, here, press, presses, unheard>>

PageFetchArrives(k) ==
  /\ cache[k].fetch \in {"current", "behind"}
  /\ cache' = [cache EXCEPT ![k] = Entry(cache[k].fetch, FALSE, "none")]
  /\ UNCHANGED <<tour, here, press, presses, unheard>>

\* The retries failed too; what was invalidated stays so.
PageFetchFails(k) ==
  /\ cache[k].fetch # "none"
  /\ cache' = [cache EXCEPT ![k].fetch = "none"]
  /\ UNCHANGED <<tour, here, press, presses, unheard>>

\* The screen is left once it has loaded; back on it, what is missing or stale
\* is fetched.
Leave ==
  /\ here /\ here' = FALSE
  /\ \A k \in Keys : cache[k].fetch = "none"
  /\ UNCHANGED <<tour, cache, press, presses, unheard>>

Return ==
  /\ ~here /\ here' = TRUE
  /\ cache' = [k \in Keys |->
       IF cache[k].fetch = "none" /\ (cache[k].stale \/ cache[k].data = "none")
       THEN [cache[k] EXCEPT !.fetch = "sent"] ELSE cache[k]]
  /\ UNCHANGED <<tour, press, presses, unheard>>

Press ==
  /\ here /\ press = "none" /\ presses < MaxPresses
  /\ press' = "sent" /\ presses' = presses + 1
  /\ UNCHANGED <<tour, here, cache, unheard>>

\* The panel writes: data and answers read before are behind now.
Written ==
  /\ press = "sent" /\ press' = "written"
  /\ cache' = [k \in Keys |->
       [cache[k] EXCEPT !.data = IF @ = "none" THEN "none" ELSE "behind",
                        !.fetch = IF @ = "current" THEN "behind" ELSE @]]
  /\ UNCHANGED <<tour, here, presses, unheard>>

\* Refused, or lost before or after the panel wrote; the screen says so.
PressFails ==
  /\ press \in {"sent", "written"} /\ press' = "none"
  /\ unheard' = (unheard \/ press = "written")
  /\ UNCHANGED <<tour, here, cache, presses>>

\* Invalidation joins a fetch that is under way instead of starting over.
AnsweredJoining ==
  /\ press = "written" /\ press' = "none"
  /\ cache' = [k \in Keys |->
       IF ~Invalidated(k) THEN cache[k]
       ELSE [cache[k] EXCEPT !.stale = TRUE, !.fetch = IF here /\ @ = "none" THEN "sent" ELSE @]]
  /\ UNCHANGED <<tour, here, presses, unheard>>

\* onSuccess, also after the screen was left: what is invalidated is stale, and
\* what is shown is fetched anew, its fetch under way cancelled.
PressAnswered ==
  /\ press = "written" /\ press' = "none"
  /\ cache' = [k \in Keys |->
       IF ~Invalidated(k) THEN cache[k]
       ELSE [cache[k] EXCEPT !.stale = TRUE, !.fetch = IF here THEN "sent" ELSE @]]
  /\ UNCHANGED <<tour, here, presses, unheard>>

\* remove navigates to the list: the page of the server is gone for good.
LeavesForGood == tour.button = Act(ServersApi.remove, {})

WebPagesInit ==
  /\ \E screen \in Pages : \E button \in screen.acts : tour = [screen |-> screen, button |-> button]
  /\ here = TRUE
  /\ cache = [k \in Keys |-> Entry("none", FALSE, "sent")]
  /\ press = "none" /\ presses = 0 /\ unheard = FALSE

WebPagesNext ==
  \/ \E k \in Keys : GrowsStale(k) \/ Poll(k) \/ PageFetchServed(k) \/ PageFetchArrives(k) \/ PageFetchFails(k)
  \/ Leave \/ Return \/ Press \/ Written \/ PressFails \/ PressAnswered

WebPagesSpec == WebPagesInit /\ [][WebPagesNext]_pagesVars

-----------------------------------------------------------------------------
(* The queries a button leaves as they were although it writes what they   *)
(* read.  Three go away with what they show, or are left: the page of a    *)
(* deleted server, the quota of a deleted account, the ports of a deleted  *)
(* server - though not those of another one that is open.  Two stay: the   *)
(* sessions after a change of password, and the list of servers after a    *)
(* change of ports, against ServerPortsPanel.tsx:22.                       *)
LeftBy(button, k) ==
  \/ button = Act(ServersApi.remove, {})
  \/ button = Act(AdminApi.deleteUser, {Admin("users")}) /\ k = Admin("quota")
  \/ /\ button \in {Act(AdminApi.deleteServer, {Admin("servers")}),
                     Act(AdminApi.purgeServers, {Admin("servers")})}
     /\ k = Admin("server-allocations")
  \/ button = Act(AccountApi.changePassword, {})
  \/ button \in PortButtons /\ k = Admin("servers")

LeftBehind(k) == LeftBy(tour.button, k)

PassedOffAsFresh(k) ==
  cache[k].data = "behind" /\ ~cache[k].stale /\ cache[k].fetch = "none"

(* Every screen's invalidations: once a button's answer was heard, no query*)
(* its screen shows passes an answer from before the write off as fresh,   *)
(* fetches under way, failed fetches, visits elsewhere and repeated presses*)
(* included, but for the queries LeftBehind names.                         *)
ReadYourWrites ==
  press = "none" /\ ~unheard =>
    \A k \in Keys \ PolledKeys : ~LeftBehind(k) => ~PassedOffAsFresh(k)
=============================================================================
