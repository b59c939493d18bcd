# Verification of sky-panel

TLA+ models of the panel API (`panel-api/`, Go) and of the web client (`web/`,
TypeScript), TLC configurations that check them on small instances, and TLAPS proofs
of what matters most for instances of any size. Paths of Go files are relative to
`panel-api/internal/`, paths of TypeScript files to `web/src/`.

sky-panel is a control panel for game servers. One Go process keeps its state in
SQLite, serves browsers over HTTP and WebSockets, and sends commands over a WebSocket
to a daemon on every node, which runs the containers. The web client is a React
application; several tabs of one browser share its `localStorage`. The daemon is not
part of the repository; what it does is modelled from how the panel uses it.

## What the system consists of

### The panel

| component | state | operations | what is hard | what makes it correct | module |
|---|---|---|---|---|---|
| coin ledger (`repo/ledger.go`) | `users.coins`, `ledger_entries` | AddEntry, Transfer | limits of int64, two rows per posting | a balance is the sum of its rows and stays in range; gifts conserve coins | CoinEconomy |
| redeem codes (`repo/redeemcodes.go`) | codes, use counters, redemptions | mint, redeem, delete | two redemptions at the limit, cascades | pay-outs within uses, uses within `max_uses`, once per user | CoinEconomy |
| daily reward, gifts (`coinsvc/service.go`) | last claim | claim then credit, look up then transfer | stale clocks, failure between two calls | one reward per interval, every claim accounted for | CoinEconomy |
| store (`storesvc/service.go`) | bonus quota | debit, grant, refund | failure or restart after the debit | coins spent are packs, in flight, or lost | CoinEconomy |
| AFK earning (`coinsvc/service.go`, `repo/afk.go`) | one row per user: last beat, session, tab | heartbeat | read, decide, write, credit are four calls | one credit per interval and user | AfkSession |
| per-user lock (`httpapi/keyed_mutex.go`) | map of counted mutexes | lock, unlock | entry dropped while somebody finds it | one lock per key, no leak, no starvation | PerKeyLock, KeyedMutex |
| quota (`quotasvc`), server rows and ports (`serversvc`, `repo/servers.go`, `repo/allocations.go`) | rows, primary ports, allocations, quotas | create, clone, resize, delete, attach, detach, transfer | check then act, cleanup of a half-made server | quota held, no row without a port, primary port kept | ServerProvisioning |
| power, provisioning, suspension (`serversvc/service.go`, handlers, automations) | status and suspended columns | provision, edit, reinstall, start, stop, suspend, delete | nothing serialises operations of one server; commands fail, time out and run late | suspension holds, status right, no orphan, installing ends | ServerLifecycle |
| node connections (`agenthub/registry.go`, `handler.go`) | registry, pending calls | hello, register, command, ack, teardown, token rotation | reconnects race teardowns, acks race deadlines | callers told the truth, every call returns, nothing leaks | RemoteCall, AgentHub |
| replay protection (`agenthub/nonce_cache.go`, `messages.go`) | nonces seen | verify, record, sweep | two clocks, rounding, expiry | no envelope acted on twice | NonceCache |
| sessions and accounts (`httpapi/auth_handlers.go`, `account_handlers.go`, `admin_users_handlers.go`) | refresh tokens, API keys, roles | register, login, refresh, change password, promote, demote, delete | refresh validated and deleted by two queries; counts before inserts | a refresh token is spent once; a new password ends the old sessions; an administrator remains | Sessions |
| node databases (`serversvc/databases.go`) | rows, databases on the node | create, delete, rotate password | row and database made by different parties | none without the other | not modelled |
| schedulers (`schedulesvc`, `backupsvc`, `retentionsvc`) | last run, last backup | tick | mark before run, mark after success | nothing runs twice, nothing for suspended servers | automations begin operations in ServerLifecycle; the tick is not modelled |
| event forwarding and browser hub (`agenthub/owner_cache.go`, `player_tracker.go`, `wshub`) | caches, subscriptions, buffers | subscribe, publish, drop when full | stale owner, full buffers | events reach the owner only | not modelled |

Handlers check permission, suspension and quota, then call a service; services run
one SQLite statement or transaction at a time and send commands to a node through
`agenthub.Registry.SendCommandTimeout`. Two requests interleave between any two of
those calls. Only creating and cloning a server (and, with a lock map of its own,
creating a database) hold a per-user lock.

### The web client

| component | state | operations | what is hard | what makes it correct | module |
|---|---|---|---|---|---|
| sign-in and view-as (`lib/api.ts`, `lib/authStore.ts`, the screens that sign in, out and back) | the store of each tab, two entries of `localStorage` | refused request, refresh, retry, view-as, exit, sign-in, sign-out, page load | refusals arrive together, answers arrive after the session changed, tabs share storage | a refresh token is presented once; what is stashed is the administrator's own session | WebSession |
| live console (`lib/useTopic.ts`, `components/Console.tsx`, `pages/ServerDetailPage.tsx`) | socket, backoff, bounded list of lines, count of lines written | connect, drop, print, render, clear, change tab | the list slides under the count; sockets refused while a token is expired | lines in order and once, newest shown, connection set up again | LiveServer |
| reinstall screen (`pages/ReinstallPage.tsx`) | view, cached status, mutation | poll, reinstall, leave and come back | the cached status is older than the click; reinstalls overlap | the result shown is the result; progress ends in it | ReinstallPage |
| AFK screen (`pages/AfkPage.tsx`) | session id, loop, status | mount, beat, retry, reload | beats of several tabs and of pages left cross | an earning page is not pushed aside; a retry arms the loop again | AfkPage |
| balance (`components/AppShell.tsx` and the pages that earn or spend) | `user.coins` in the store, polled `/me` | poll, write an answer, restore | answers out of order, an effect that runs on change only | the counter does not go stale | WebBalance |
| file manager (`components/server/FilesTab.tsx`) | directory, editing path, content | open, save, rename, remove, upload | answers of several clicks cross | what is saved into a file was read from it | FilesTab |
| administrator's forms (`components/admin/*Tab.tsx`) | form values, query data | open, type, save, refetch | values of the subject edited before | a form shows its own subject | WebForms |
| screens and query cache (`pages/*`, `components/*`, `lib/endpoints.ts`, React Query) | cached data per key | visit, poll, press, invalidate | data count as fresh for 30 s | a screen shows what its button wrote | WebPages |
| favourite stars (`pages/ServersListPage.tsx`) | optimistic list | toggle, roll back, refetch | toggles under way together | the stars end as the panel's rows | FavoriteStars |
| theme, appearance, banners, read-only screens | | | one query or one document property each | | not modelled |

A tab talks to the panel by requests, which WebSession, AfkPage, WebBalance, FilesTab,
WebForms, WebPages, ReinstallPage and FavoriteStars split into the click, the panel's
step and the answer; and by one socket per topic (LiveServer). Each web module keeps as
much of the panel as its screen can tell apart; the panel's own modules have the rest.

## Modules and how they correspond to the code

A step of the panel is one database statement or transaction, one critical section of
a mutex, one channel operation or one message. A handler that makes several is a record
with a program counter, so handlers interleave exactly between their calls; a failed
call and a restart of the process between two calls are actions. A step of the client
is one event of the browser: a click, an answer, a timer, a render with its effects.
JavaScript runs one at a time, so what an event does up to the next `await` is one step.

**CoinEconomy** One `account`, balance, ledger total per reason, bonus and last claim
per user (amount and interval of the daily reward are constants, which the code reads
from the settings at each claim); `codeState`, `uses` and `redemptions` for codes;
`handler` for the claims, gifts and purchases in flight. The rows of a user's ledger are
kept as one total per reason. History variables: `claims`, `lostClaims`, `lostPacks`
count what failures and restarts lost; `overwritten` marks users whose bonus an
administrator replaced.

**AfkSession** One user's AFK row; `beat` holds the heartbeats in flight, each reading
the clock when it begins. A tab need not wait for the answer to a beat before it sends
the next, and `doubled` (history) counts the beats sent so: each can earn once more.

**PerKeyLock, KeyedMutex** What a lock per key promises, and `keyed_mutex.go` with its
map, reference counts, lock objects and the gap between unlocking the object and
dropping the entry. KeyedMutex implements PerKeyLock (`ImplementsPerKeyLock`).
ServerProvisioning uses PerKeyLock.

**ServerProvisioning** Rows, ports and quotas of a few users and servers. One dimension
stands for memory, CPU and disk, which are checked alike; the effective limit is read
in one step. History: `ceiling` is the largest quota a user has had, `exempt` marks
users an administrator gave more, `doomed` servers a deletion of which began, `stranded`
rows whose cleanup failed or a restart cut short, `raced` users a resize of whom
overlapped another request (a create takes the lock and a resize does not; two creates
wait for each other and race nothing) and servers a detach of whose port began before
they had one.

**ServerLifecycle** One server: its row, its container, and the goroutines working on
it. An operation is the list of steps in `Plan`, one database call or command each;
`auto` is the local `autoStart`. A command is acknowledged, refused, or left `late`: its
caller gave up and the node may run it yet, as RemoteCall allows. Pulling the image is
part of `create`, which it fails as. History: `mishaps` names what went wrong, `stopped`
and `excused` what happened since a suspension, `was` whether the server was shown as
running when the operation began.

**RemoteCall, AgentHub** What a caller may be told of a command, and the registry that
implements it: hello, registration, lookup, enlisting in `pending`, the write under its
deadline, the read loop that takes an ack off the map and puts it in the caller's
one-slot channel, the teardown of a connection in its order (`failPending`,
`unregister`, close), token rotation. `escaped` (history) marks connections that
`Registry.Close` could not find.

**NonceCache** One connection's cache with its sweep, `TimestampIsFresh` with truncation
to seconds, a monotonic clock for the cache and a wall clock that drifts by up to
`MaxDrift`, and at most `MaxDelay` between the freshness check and the cache.

**Sessions** Accounts with their role, password, refresh tokens and API keys, and the
requests in flight. A password is the number of times it was changed; a token remembers
which one its chain of refreshes began with. Checks that read no state (hashing,
one-time codes, lengths) are left out, and so is the expiry of access tokens, which the
panel does not look up: an account that has been an administrator may act as one.
`AdminResetUserPassword` differs from `ChangePassword` only in who asks. The look at the
role and the count of administrators are one step; a request that changes either in
between overlaps, which `unguarded` records anyway. History: `contested` (tokens
presented to two requests at once, or which the database failed to delete), `escaped`
(sessions a change of password could not revoke), `unguarded` (overlapping or unchecked
changes of administrators), `uncounted` (keys that could not be counted).

**WebSession** `page` is one tab's `useAuthStore` with the refresh under way (the
module-level promise of `api.ts`); `stored` and `backup` are the two entries of
`localStorage`; `pair` is the panel's side: which refresh tokens are live, whose they
are, and whether they were obtained by viewing. A request carries the pair it was sent
with, so an answer may arrive in another session than it was asked in. `leaving` marks a
page on its way to another document: its screen is gone, its requests may still be
answered. History: `asked` counts how often the refresh token at hand was presented,
`unmarked` says that a tab acted in a viewed account without its banner.

**AfkPage** Tabs with a session id, a heartbeat loop and at most one beat under way each;
the panel keeps the session that earns until it lapses, which AfkSession has in detail.

**LiveServer** The effect of `useTopic` (connect, back off up to 15 s), the page's list
of lines with its cap, and `Console`'s effect, which writes what is past `writtenCount`.
A render may apply several updates at once.

**ReinstallPage** `view` is the query's cached data, `actual` the server's row, `work` the
panel's part of each reinstall: asked for, handed to its goroutine by the handler (which
writes `installing`), and, once the goroutine has read whether the server runs, the status
it will end in. A mutation and one fetch may be under way. Other writers of the status are
in ServerLifecycle.

**FilesTab** Contents are known by the path they were read from; `EditsGoBack` is about
where they go back to. History: `strayed`, the directory changed while a file was read.

**WebForms** One form component over one query per subject. `OneByOne` are the subjects
whose fields a request each writes (the settings); an account's quota is written whole.

**WebPages** What each request of `endpoints.ts` reads or writes, as the set of tables
and files: what its handler and the services below it write, status columns included, and
what `ON DELETE` takes along (`ServerRows`), but no column that no screen shows. Then what
each of thirty screens queries, polls and invalidates; and the cache. Tables are not told
apart by row or column, so `LeftBy` lists the queries that a button leaves as they were.
A `tour` is one button of one screen. Dialogs, validation and layout are left out.

**FavoriteStars** The optimistic mutation of one list: cancel, show, roll back to what
the click found, fetch again.

**WebBalance** The two objects AppShell compares, the balance a page writes and the user
the two-factor card puts back.

**Proof modules** extend their components and hold nothing but theorems and the invariants
they need: CoinEconomyProofs, ServerProvisioningProofs, ServerLifecycleProofs,
WebSessionProofs; AgentHubProofs, which is about the NonceCache of its connections too;
PanelPartsProofs, about KeyedMutex, AfkSession and Sessions; WebScreensProofs, about
LiveServer, AfkPage, FavoriteStars, WebForms, FilesTab and WebPages. SumTheorems is about
sums over finite sets and about no component.

**MC modules** give constants their values. MCSmallParts and MCWeb hold several modules
that share no variable: `part` is chosen at the start and never changes, only the part
whose turn it is takes steps, and all others stay in one initial state. So a run of
them is the union of the runs of the parts, with the properties of all. MCCoinEconomy and
MCServerProvisioning do the same with two instances of one module, told apart by what
may happen in each.

## What each run checks

Every passing run is complete for its instance.

| run | instance | shows |
|---|---|---|
| `economy` | part `coins`: 2 accounts, a code of one use and an unlimited one, balances up to 3, columns up to 2; part `handlers`: 1 account, 2 handlers, balances up to 4, 3 ticks, 2 per daily interval | `TypeOK` (range of balances), `BalanceMatchesLedger`, `GiftsConserve`, `RedeemBounded`, `DailyRate`, `PurchasesAccounted` |
| `provisioning` | part `quota`: 1 user, 2 servers, 2 requests, quotas 2 and 3, one port; part `ports`: 2 users, 2 servers, 2 requests, 2 ports | `QuotaHolds`, `NoPortlessRow`, `PrimaryPortHeld` |
| `agent_hub` | 2 overlapping connections, 1 call, acks sent up to twice, 1 rotation | `TypeOK`, `RegistryTracksNewest`, `NoPendingLeak`, `OldSecretStops`, refinement of RemoteCall, `CallsReturn` |
| `lifecycle` | 2 operations at a time, 3 operations begun or faults met, 1 late command | `SuspendedStaysStopped`, `StatusHonest`, `NoOrphan`, `EditsKeepRunning`, `InstallingEnds` |
| `small_parts` | KeyedMutex: 3 goroutines, 2 keys, 3 lock objects. NonceCache: 2 envelopes, 2 ticks per second, skew 1, drift 1, delay 1, TTL 8 ticks, clock to 20. LiveServer: a list of 2 lines, 4 printed. ReinstallPage: 2 eggs, 2 reinstalls | `MutualExclusion`, `NoLeak`, refinement of PerKeyLock, `EveryoneGetsTheLock`; `AcceptedOnce`; `ConsoleInOrder`, `StreamResumes`; `InstallingShownEnds` |
| `web` | Sessions: 2 accounts, 2 requests at a time, 4 begun, 3 refresh tokens, 1 API key each. AfkSession: 2 tabs, 2 beats in flight, 3 windows, 8 ticks. AfkPage: 2 tabs, 4 session ids. WebSession: 1 tab, 2 requests at a time, 3 ever, 2 administrators, 3 pairs. FilesTab: 2 directories, 2 names, 2 requests at a time, 3 ever. WebForms: the settings and one account, 2 fields. WebPages: every button, pressed twice. FavoriteStars: 2 stars, 2 clicks at a time, 3 ever | `SpentOnce`, `PasswordEndsSessions`, `AdminRemains`, `KeysCapped`; `EarnRate`; `NotPushedAside`; `RefreshOnce`, `StashIsOwn`; `EditsGoBack`; `FormShowsSubject`; `ReadYourWrites`; `FavoritesSettle` |
| `provision_resize` | 1 user, creates and resizes | violated: `QuotaHoldsForResizes` |
| `lifecycle_reinstall` | as `lifecycle` | violated: `ReinstallKeepsRunning` |
| `reinstall_progress` | as in `small_parts`, with the fairness of that part | violated: `TrackedToItsEnd` |
| `console_keeps_up` | as in `small_parts` | violated: `ConsoleKeepsUp` |
| `afk_retry` | 1 tab | violated: `RetryRearms` |
| `balance_settles` | 1 request at a time, 2 changes of the balance | violated: `BalanceSettles` |

### Where the code and what it says of itself differ

- `provision_resize`. Resizing is checked against the quota but takes no lock, so two
  resizes, or a resize and a create, may both pass.
- `lifecycle_reinstall`. `ReinstallServer` reads whether the server is running after the
  handler has already written `installing`, so a running server is left stopped by a
  reinstall. Settings edits and port changes do preserve the power state
  (`EditsKeepRunning`).
- `reinstall_progress`. `ReinstallPage` judges a reinstall by the cached status, which it
  fetches again only while that says `installing`, and takes `running` and `errored` for
  the ends. So it loses track in three ways, each enough to violate the property. Of a
  stopped server nothing is fetched once the button is pressed: "Reinstalling…" stays
  (this is what the run shows). Of a running or failed one the status before the click
  is announced as the result at once. And if a fetch does see `installing`, the
  reinstall that succeeds ends `offline` (see `lifecycle_reinstall`; for a stopped server
  it is meant to), which the screen takes for no end: polling stops and "Reinstalling…"
  stays. What holds is that a screen which has seen `installing` keeps polling until it
  has seen it end (`InstallingShownEnds`).
- `console_keeps_up`. Once the list of lines is at its cap its length stays the same,
  and `Console` takes the length for the number of lines written: the terminal stands
  still until Clear or another tab of the page. What it shows is in order all the same
  (`ConsoleInOrder`).
- `afk_retry`. A retry the panel accepts makes its session the one that earns, and then
  reloads the page, which draws another session id and is blocked until the first lapses.
- `balance_settles`. An answer older than the last poll is written over it, and the
  effect that writes the polled balance runs only when a poll brings something else.

Where a comment promises more than the code does and the difference is known, the passing
property says exactly how far it holds, by a history variable rather than by leaving
the case out: a purchase whose refund fails or which a restart cuts short (`lostPacks`,
against "never drift apart" in `storesvc/service.go`); beats sent before the last was
answered (`doubled`); a rotation missing a connection between hello and registration
(`escaped` of AgentHub); a detach that read the row before the primary port was stored
(`raced`); deleting a code deletes its redemptions, so a user paid by it is known only by
the ledger (`RedeemBounded` counts the ledger); a refresh token presented twice at once,
against "single-use" in `auth_handlers.go` (`contested`); a refresh that looked its token
up before a password change deleted it (`escaped` of Sessions); two administrators
demoting each other (`unguarded`); a folder clicked while a file is read (`strayed`); a
tab of a viewed account loaded before the stash was there (`unmarked`). `ReadYourWrites`
does not hold for the queries `LeftBy` names, each for its button: the list of sessions
after a change of password and the list of servers after a change of ports (which
rebuilds the container and writes the status it ends in, `errored` to `offline`, say,
though a comment in `ServerPortsPanel.tsx` has that list reflect port usage), which
stay; the free ports in the panel of one server after another was deleted, which stay
too; and the page of a deleted server and the quota of a deleted account, which go with
what they show.

Known and covered by no property, because nothing in the repository promises otherwise or
because the state is not modelled: a cached owner of a server is used for up to a minute
(`agenthub/owner_cache.go`); two first registrations at once both become administrators
(`httpapi/auth_handlers.go`, in Sessions a history of two requests); a refresh answered
after the user signed out signs the tab in again (`lib/api.ts`, in WebSession);
`updateUser` writes the tokens of its tab over newer ones of another (`lib/authStore.ts`,
in WebSession); a save that is answered closes the editor with what was typed since
(`FilesTab.tsx`, in FilesTab); a refetch of the settings takes what was typed and not
saved (`AdminEconomyTab.tsx`, `typed` in WebForms); a call that looked its connection up
before it dropped and enlists after `failPending` ran waits for its deadline, where the
comment on `failPending` has it return at once (`CallsReturn` shows that it returns); a
restart during a provisioning leaves the row at `installing`, which nothing writes when
the panel starts and from which the reinstall screen offers no way out (`outage` in
`InstallingEnds`, `Abandoned` in `InstallingShownEnds`).

### Bounds and why they are enough

`MaxTime`, `MaxColumn`, `MaxClock`, `MaxPrinted` stop counters the code leaves
unbounded; they are above the values at which the rules change (an interval and a half,
a balance at its limit from both sides, an envelope past its TTL, a list of lines that
has slid twice). `MaxRotations`, `MaxCopies`: one rotation and one duplicate are the
first of their kind that can go wrong, and the second meets the same state. `MaxTokens`,
`MaxRequests` of Sessions: two registrations, a promotion and one more request, or the
chain of two refreshes around a password change. `Latency` is how long a beat may be in
flight, below half an interval (`Prompt`, which the theorem about `EarnRate` assumes);
`MaxDoubled` stops a tab that never waits. `MaxEvents` bounds operations begun and
faults met in ServerLifecycle together (creation comes free): a suspension, a start and
a fault fit. `MaxLate` is one late command at a time. `MaxMounts`: two tabs, a retry and
the reload after it. `MaxPairs`, `MaxCalls` of WebSession: a sign-in, a view and a
refresh, with two requests refused together and one more; the run has one tab, and the
theorems below hold for any number of tabs, requests and pairs. `MaxFileOps`,
`MaxClicks`: two requests that cross and one after them. `MaxEdits`: one value typed, or
changed by somebody else, which is what tells two fetches apart. `MaxPresses`: a press
after a press. Two handlers, connections or requests are the smallest number that
interleave; three goroutines for KeyedMutex, where one may leave while one waits and one
arrives.

In the instance of NonceCache the TTL is the smallest the window, the rounding, the drift
and the delay require; the real TTL is 120 s where 61 s would do without drift.
`provisioning` uses symmetry over servers and requests, which no definition tells apart.

Deadlock is not checked: the counters above stop a model whose program would go on, and a
part that is not on its turn takes no step. That no goroutine waits for ever is
`EveryoneGetsTheLock`, `CallsReturn` and `InstallingEnds`.

### Fairness

- KeyedMutex: a goroutine goes on, and `sync.Mutex` hands the lock on: its starvation mode
  gives a waiter of more than 1 ms the lock next, so acquisition is strongly fair. A
  holder runs a handler, which returns.
- AgentHub: a write has a deadline (`writeMu` section of `SendCommand`) and so does the
  wait for the ack, so steps of a call are weakly fair; the read loop runs on in its own
  goroutine; a lost or closed socket makes the next read fail. Nothing is assumed of the
  node.
- ServerLifecycle: a goroutine goes on, because SQLite answers and every command returns
  by its deadline, which is what `CallsReturn` shows of AgentHub. Nothing is assumed of
  late commands.
- LiveServer: the timer of a waiting topic fires (`Connect`, weak); an attempt made with a
  valid token succeeds now and then (`Opened`, strong, for attempts may fail in between);
  some request of the page finds the token expired and refreshes it (`TokenRefreshed`,
  weak: the shell polls). Nothing keeps sockets from dropping.
- ReinstallPage: the interval fires (`Poll`, weak), a fetch is served and arrives now and
  then (strong, for fetches may fail in between), and a goroutine the handler started begins
  and ends (`Begins`, `Provisioned`, weak), which is `InstallingEnds` of ServerLifecycle.

No other property needs fairness.

## What is proved

TLAPS checks these for every value of the constants that satisfies the named assumptions
of each module.

- **SumTheorems** (no assumption but finite sets): sums the library defines by recursion on
  a chosen element. The library's induction theorems take an operator as a parameter, which
  the provers cannot instantiate, so these argue by a smallest counterexample: of the
  subsets for which a fact fails, the well-founded order on cardinalities has a least one
  (`SmallestSubset`). From that: the recursive function exists and is unique, any element
  may be taken out (`SumByAny`), sums of equal, larger and no terms, and what changing one
  term does (`SumChanges`).
- **CoinEconomyProofs** (`EconomyAssumption`): all of its invariants. `TypeCorrect` and
  `BalanceIsLedger`: `BalanceMatchesLedger` alone is not inductive, for a refund or a credit
  posts an amount found in the handler's locals, so `IInv` adds the types and
  `HandlerTyped`, which ties locals to the step they belong to. One lemma says how
  `AddEntry` moves balance and ledger total together, one does so for `Transfer`; each
  action then cites one of them or leaves both alone. The four others add an invariant
  each to `IInv`. `GiftsNeitherMakeNorDestroy`: a transfer changes two terms of the sum of
  all users' gifts, by opposite amounts. `RedeemsBounded`: `RedeemInv` also bounds what a
  user got from the codes that may have paid that user, a deleted code counting as one that
  did, since its redemptions are gone. `DailyRewardsRated`: `DailyInv` has the claims of an
  account an interval apart up to the last, which is not in the future, and nothing recorded
  for an absent account. `PurchasesPaidFor`: `StoreInv` says so too, and a restart moves all
  of an account's packs in flight to `lostPacks` at once, so the number of handlers at a
  step is followed as the cardinality of a set.
- **PanelPartsProofs, KeyedMutex** (`MutexAssumption`): `Safety`, `MapBounded` and
  `Refinement`. The invariant says that an entry's count is the number of goroutines
  between enlisting and delisting, that they all hold the object the entry names, and
  that an object has at most one owner; the step where an entry is dropped needs the
  count to be of a finite set.
- **PanelPartsProofs, AfkSession** (`AfkAssumption`, and `Prompt`): `EarnsAtRate`. Time
  is compared with `Paid`: the credits earned, without those `doubled` counts, with
  those that beats under way beyond one of each tab may still earn. `Owed` is the time
  those took. Beats decided to earn are of one tab (`OneEarner`) and carry a time an
  interval past what is owed (`EarnersOwe`); one about to write the row carries what is
  owed, and an interval more if a rival tab's is to earn (`WritersOwe`); the row is as
  recent (`RowOwes`), and a row of another tab is either recent or an interval old
  (`RowRecent`). `Prompt` is what keeps those two apart.
- **PanelPartsProofs, Sessions** (`SessionsAssumption`): `TokensSpentOnce`,
  `NewPasswordEndsSessions`, `AdministratorRemains` and `ApiKeysCapped`, from one
  invariant with a part for each. `UseInv`: a token nobody contests has at most one
  request holding it, and a spent one none. `PasswordInv`: a request that goes on with a
  token of an old password is marked stale, or its token has escaped, or the account's
  revocation is still to come. `AdminInv`: while nothing is unguarded at most one
  administrator's request is under way, and one about to take a role away leaves another
  administrator. `KeysInv`: keys and inserts under way together stay below the cap plus
  the number of requests; that is what a count made before the insert still guarantees.
- **AgentHubProofs** (`HubAssumption`): `TypeCorrect`, `RegistryCorrect`,
  `PendingBounded`, `RotationStopsOldSecrets`, and `KeepsPromise`, the refinement of
  RemoteCall. `RegistryTracksNewest` and `NoPendingLeak` are inductive given the types. The
  refinement needs three facts more: the node knows nothing of a call that was not written
  or whose write failed (`Results`), a command is under way on its call's connection only
  and no longer once it ran (`WireOnce`), and an ack, wherever it is, is of a command that
  ran (`AcksTruthful`). The rotation needs to count a connection that said hello as one
  that will open with its secret (`SecretsAccounted`).
- **AgentHubProofs, NonceCache** (`NonceAssumption` and `TTLAssumption`, which says the
  TTL covers twice the skew, the rounding second, the drift and the delay): `NoReplay`.
  The invariant bounds when each envelope can have been accepted; once the cache has
  forgotten it, its window has closed.
- **ServerProvisioningProofs** (`ProvisioningAssumption`): `PrimaryPortsHeld`,
  `NoPortlessRows` and `QuotasHold`. `NoPortlessRow` is inductive given the types.
  `PrimaryPortHeld` needs `PortsInv`, which follows a port through the requests that
  touch it: a server has one create, whose row has no port until it records one; the
  port a create has claimed stays claimed until then; a detach that did not race knows
  the primary port and spares it; and the port an attach may give back is neither the
  primary one nor one a create claimed. `QuotaHolds` needs `QuotaInv`: of an account
  nothing exempts, at most one request has yet to write what it is checked for (creates
  hold the account's lock, a resize met nobody), and what it was checked against stays
  true until it does: nothing else of that account grows.
- **ServerLifecycleProofs** (no assumption is cited): `SuspensionHolds`,
  `StatusTellsTheTruth`, `NoContainerLeft` and `EditsPreservePower`. Of the plan of an
  operation the proofs use its order only (`Ordered`: which step may follow which).
  `SuspensionInv`: while the server is suspended and the database answers, no goroutine
  starts it that is not entitled to. `DeletionInv`: unless they crossed, no deletion is
  under way beside a provisioning, and past the removal there is no container.
  `StatusInv`: while nothing is disturbed at most one goroutine is at work; what it may
  count on depends on its next step (`Expects`), and an edit remembers that the server
  ran (`Remembers`).
- **WebSessionProofs** (no assumption: any sets of tabs, requests and accounts, any bounds):
  `PresentsOnce` and `StashHonest`. Neither property is inductive. `RefreshOnce` counts
  presentations of the token at hand; an answer that arrives late must not find a count
  left by the session before, so `PresentedOnce` ties the count to the refresh under way and
  `OnlyIssuedHeld` says that everything held anywhere was issued. `StashIsOwn` needs to
  know what a tab holds when it stashes: `StashInv` adds that every tab acting in a viewed
  session shows so, unless a tab that does not is on record already.
- **WebScreensProofs**: one safety property of each screen. `ConsoleOrdered`
  (`LiveServerAssumption`): what the page takes to be new is newer than all the terminal
  shows (`NewIsNewer`). `EarnersStay` (no assumption): an id belongs to one tab
  (`IdsApart`), and an earning page holds the live session (`TabInOrder`).
  `StarsSettle`: a fetch's answer is the panel's rows or is outrun by a click that will
  make it start over (`AnswerOutrun`); with no fetch under way only a click under way
  keeps the stars apart from the rows (`StarsOutrun`). `FormsHonest`: inductive once
  what is fetched and saved is a subject's. `EditsReturn` (`FilesAssumption`): unless
  the directory changed, a file is filed under the path it is read from (`ReadInPlace`).
  `AnswersHeard` (no assumption, any number of presses): a lemma for each screen says
  that every button invalidates each query shown that reads what it writes, but for the
  pairs of button and query `LeftBy` names (`EveryScreenCovered`); then a shown answer
  that is behind is marked so (`BehindMarked`), which needs that nothing is fetched for a
  screen that is away (`AwayIdle`).

Every invariant and every safety action property that a passing run checks is proved.
Checked by TLC only: liveness (`EveryoneGetsTheLock` of KeyedMutex, `CallsReturn` of
AgentHub, `InstallingEnds` of ServerLifecycle, `StreamResumes` of
LiveServer, `InstallingShownEnds` of ReinstallPage), which with ENABLED is out of the prover's
reach; and the properties that a run refutes, which are no theorems. The library's
induction theorems take an operator as a parameter, which the installed provers cannot
instantiate: where a sum over a set needed one, SumTheorems has it by a smallest
counterexample, and no module that is proved about has a recursive operator.

## Not modelled, and why

- Node databases: one command and one query each; the race of a create with the deletion
  of the server is listed among the hazards.
- Schedulers: what an automation does to a server is in ServerLifecycle; the ticks and the
  rows of schedules and backups are not.
- Event forwarding, owner cache, roster, browser hub: maps with a time to live, sets and
  buffers that drop when full; what they lose the next heartbeat brings. The client's side
  of a topic is LiveServer.
- Administration of nodes: rotation is in AgentHub; creation, deletion (and its race with a
  create) and the ports of a node are not.
- Of quotas the database dimension and the unlimited-CPU switch; of accounts one-time codes
  and the expiry of access tokens.
- Files, backups, mods, eggs, favourites, subusers, audit, settings handlers: one query or
  one command each, nothing relates two states. Their screens are in the web modules.
- Of the file manager making and deleting directories and downloads; of screens their
  validation, dialogs and layout.
- Theme, appearance, banners, read-only screens; the site's static pages; the installer's
  shell script; rate limiter, validation, configuration, start-up, migrations; SQLite
  itself, whose transactions are the atomic steps of every module.

What would come next: NodeDatabases over PerKeyLock; the schedulers' ticks against
restarts; event forwarding; deleting a node against a create on it.
