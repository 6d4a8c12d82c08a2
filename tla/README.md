# TLA+ models of MaskChain

MaskChain is a gateway between the clients of a company and LLM providers: it
authenticates a request by a virtual key, limits its rate, masks personal data
in it, checks and charges budgets, routes it to a provider with retries,
circuit breakers and fallbacks, and streams the answer back.  Its
administrators work in a console, a React application under `src/ui` that talks
to the admin API.  These modules model the parts of the Go code under `src/src`
whose correctness depends on the order in which goroutines, processes and two
stores (Postgres and Valkey) act, and the pages of the console, whose
correctness depends on the order in which the operator clicks and answers
arrive.

To run everything: `tlc -config X.cfg M` for every pair of the table of runs,
`tlapm M_proofs.tla` for the proofs.  Paths below are relative to
`src/src/internal` unless they begin with `cmd` or `ui` (for `src/ui/src`).

## 1. The system

A chat request passes this chain (`cmd/gateway/run.go`, `cmd/all/gateway.go`):

    auth -> rate limit -> [SSE wrapper] -> model access -> session
         -> conversation log -> shield -> semantic cache -> usage -> budget
         -> RoutingProxyHandler -> FallbackHandler -> egress client -> provider

| Component | State | Operations | What makes it correct |
|---|---|---|---|
| Egress client, breaker, retry (`adapters/egress`) | failure count and deadline of the breaker, under a mutex; one goroutine for each call | `Call`, `Stream`, `Allow`, `Fail`, `Reset`, `doWithRetry` | count and deadline agree; nothing new starts while it is shut; it opens again; retries are bounded |
| Streamed answers (`adapters/egress/stream.go`, `api/provider_handler.go`) | a channel of ten chunks, the upstream body, two goroutines beside the handler | scan, send, watch the context, receive, write | chunks arrive in full and in order before the end is told; errors are told; nobody stays behind |
| Routing tables (`domain/routing/service`) | three atomic pointers: providers, rules, clients; a health mark in each provider object | `UpdateConfig`, `UpdateClients`, `checkAll`, `Select` | requests see tables that fit each other; health marks reach the objects in use |
| Proxy handler and fallback chain (`api/provider_handler.go`, `fallback.go`) | local to a request | `HandleChatCompletion`, `Call`, `Stream` | every request is answered, from its route, with clients no older than the route, and given up only at the end of the route or at an error that is final |
| Budgets (`api/middleware/budget.go`, `adapters/repository/budget`) | Valkey counters for each period, spend history and key rows in Postgres | check, charge, record, notify, add to the key | hard limits bound the spend; every threshold alerts; both stores agree |
| Virtual keys (`api/middleware/virtualkey_*.go`, `handler/admin/virtual_key_handler.go`) | rows in Postgres, one cache in each gateway | create, update, delete, invalidate, refresh, look up | a revoked key stops working |
| Rate limiter (`valkey_ratelimit.go`, `api/middleware/ratelimit.go`) | a sorted set of time stamps in Valkey for each tenant | one Lua script for each request | no window admits more than the limit; no request is refused needlessly |
| Sessions (`domain/session`, `adapters/repository/session`) | rows in Postgres, copies in Valkey | create, extend, increment, close, expire | a closed session stays closed |
| Mask store (`adapters/repository/mask`) | entries in Postgres, copies in Valkey | save, get, delete | a deleted mask is gone |
| Shield (`api/middleware/shield.go`, `domain/shield`) | the mapping of placeholders of one request | detect, mask, unmask | unmasking undoes masking |
| Semantic cache (`app/cache`) | entries in Valkey | look up, guard, store | an answer is served only to its question |
| Conversation and usage workers (`app/conversation`, `app/analytics`) | a bounded channel and a batch | send, flush, stop | what is accepted is stored |
| Aggregation workers (`app/analytics`, `app/budget`) | hourly and daily tables | one run at each tick | aggregates add up to the history |
| Configuration watcher (`infra/config/watcher.go`, `diff.go`) | the current configuration, a debounce timer | reload, diff, callback | every change is applied, in order |
| Tenants (`cmd/all/gateway.go`) | a pointer to the tenants, cached dictionaries | reload | a change of a dictionary arrives |
| Console: editing pages (`ui/pages/Keys`, `Budgets`, `Routing`, `Tenants`) | lists of the last load, forms, dialogs, flags; requests under way | load, create, save, toggle, revoke, delete, apply a pack | lists agree with the server; what is changed is what was on the screen; nothing typed or shown once is lost |
| Console: data hook (`ui/hooks/useAsyncData`) | data, error, loading; a closure for each call | render, refetch, unmount, settle | what is shown answers what is asked now |
| Console: reading pages (`Conversations`, `Sessions`, `Dashboard`, `Analytics`, `Settings`, command palette) | as above, filters, ranges, selections | load, filter, page, select, close in bulk | sections and tables agree; what is acted on is on the screen |
| Console: error boundary, login (`ui/App`, `ErrorBoundary`, `api/admin`) | error of a page; token of each tab, local storage, cookie | render, navigate, retry; check, log in, log out | the error is of the page shown; nothing is shown unchecked |
| Admin sessions, compliance, analytics API (`domain/admin_session`, `app/compliance`, `handler/analytics`) | rows | log in, expire; apply a pack; report | seen through the console's modules |
| Routing administration, provider adapters, cryptography, server, telemetry | rows, or none | | see section 7 |

How they interact: the breaker and the retry loop are called by the fallback
handler, which reads the client map that a configuration reload replaces; the
selector reads providers and rules that the same reload replaces one after the
other, and the marks the health checker writes.  The budget middleware and the
admin handlers write the same key rows, which every gateway caches.  Gateways
share nothing but Postgres and Valkey.  The pages of the console share nothing
with each other but the workspace and the login, which are in the browser's
storage; each sends requests with `apiFetch`, and takes their answers in any
order.

What is hard: the breaker hears of calls that began long before; the reload is
three stores and the health checker writes to objects that may be retired;
check and charge of a budget are a whole upstream call apart; a failed call to
Valkey may have been executed; the cache is filled from reads that an
invalidation has overtaken; three goroutines may end a stream; scripts of the
limiter run in another order than their stamps were taken in.  In the console
hardly a handler cancels or marks its requests: the answers to two of them are
not told apart, and a component that stays mounted while its URL changes
receives the answers of the one before.  The forty places that matter most are
listed with their lines under `hazards` in `PROJECT.json`; section 7 names
those of components that are not modelled.

## 2. The modules

| Module | Models | Uses |
|---|---|---|
| `BreakerPromise` | what a breaker promises, without counters or clocks | |
| `EgressClient` | breaker, `Call`, `Stream`, `doWithRetry` of one provider | refines `BreakerPromise` |
| `EgressClient_proofs` | theorems | `EgressClient` |
| `RoutingTables` | the three tables, reload, health checker | |
| `ProxyRouting` | requests that read these tables and try providers | extends `RoutingTables` |
| `ProxyRouting_proofs` | theorems about both | `ProxyRouting` |
| `SpendBudget` | the budget middleware of concurrent requests | |
| `SpendBudget_proofs` | theorems | `SpendBudget` |
| `VirtualKeys` | rows, admin handlers, caches, authentication | |
| `VirtualKeys_proofs` | theorems | `VirtualKeys` |
| `StreamPromise` | what the client of a streamed answer is promised | |
| `SSEStream` | one streamed answer | refines `StreamPromise` |
| `SSEStream_proofs` | theorems | `SSEStream` |
| `RateLimitWindow` | the sliding window of one tenant | |
| `RateLimitWindow_proofs` | theorems | `RateLimitWindow` |
| `AdminPage` | requests of a page: sent, carried out, lost, answered in any order | |
| `KeysPage`, `BudgetsPage`, `RoutingPage` | one editing page each, with its rows on the server | extend `AdminPage` |
| `TenantTable` | the tenants on the server, and applying a compliance pack | extends `AdminPage` |
| `TenantPage`, `TenantEditor` | the page of a tenant; the form | extend `TenantTable` |
| `TenantConsole` | both, with the routes between them | extends both |
| `LatestAnswer` | what a page is promised by the hook | |
| `AsyncData` | `useAsyncData` | refines `LatestAnswer` |
| `ConversationsPage`, `SessionsPage` | the two pages built on the hook | extend `AsyncData`, `AdminPage` |
| `OverviewPages`, `StatusPage`, `CommandPalette` | dashboard and analytics; settings; search | extend `AdminPage` |
| `UsageTables` | the analytics API and the tables made of it | |
| `PageBoundary` | the error boundary around a page | |
| `AdminSession` | tabs, storage, cookie and sessions of the login | |
| `MC*` | instances for TLC; `MCConsoleEdit` and `MCConsoleRead` put the pages together | |
| `ConsoleEdit_proofs` | theorems about the four editing pages | `MCConsoleEdit` |
| `ConsoleRead_proofs` | theorems about the hook, the pages that load and show, the error boundary and the login | `MCConsoleRead` |

Operators whose comment begins with "Mutant of" are not part of the model: each
is a plausible bug that the property named in `PROJECT.json` must notice.
A property that joins several is listed with one of them.

### EgressClient

`failures` and `deadline` are the fields of `CircuitBreaker`.  The code only
compares the count with its limit, so the model lets it saturate there; it only
compares the deadline with the clock, so the model keeps the ticks that are
left, with `NoDeadline` for the zero time and 0 for a deadline that has passed.
(That state is not the same as no deadline: the count is still at the limit,
and one more failure shuts the breaker again.)  `Allow`, `Fail` and `Reset` run
under the mutex and are one step each.

A goroutine of `Calls` goes through `sent` (inside `RoundTrip`), `backoff`,
`failed` or `answered`, and `reading`.  `Admit` is the start of `Call` or
`Stream`, `TransportError`, `ServerError` and `Answer` are the outcomes of an
attempt, `Backoff` is the head of the next turn of the loop, `RecordFail` and
`RecordReset` are what the breaker is told: `Stream` asks it and tells it
nothing.  `ContextDone` is a client that hangs up or the provider's timeout.

`BreakerPromise` has three modes.  The refinement mapping is `Mode` (from the
deadline) and the set of busy calls.  It forbids, among others, a breaker that
moves without a verdict or the cooldown, and one that after the cooldown counts
from zero.

### RoutingTables and ProxyRouting

A table is represented by the number of the configuration it was made from, and
a provider object by that number and its name, since `UpdateConfig` makes all
objects anew: a health round that began before a reload writes to the old ones.
`StoreProviders`, `StoreRules` and `StoreClients` are the three stores of a
reload; the watcher runs one callback at a time.

A request goes through `Select` (one load of the rules, then one load of the
providers for each name), the first call with the selected provider alone and,
unless it streams, a second call with the whole route.  Each call loads the
client map once, at its start.  `GoesOn` is `isRetriable` of the fallback
handler: it knows 5xx and network errors, and nothing else.  What a client may
return is an input here; `EgressClient` is the model of how it comes about.
A status of 4xx is an answer (`"ok"`), as in the code.  A route may name a
provider twice, as the admin API accepts it.  `taken` is a history variable: of
which configuration a request's route is, and whether the clients of that
configuration had been stored when it was read.

### SpendBudget

One action for each call to Valkey or Postgres: `Arrive` lists the budgets (when
that fails the request is served without any of them), `Check` for each budget,
`Serve`, then `ReadPrev`, `Increment`, `RecordSpend`, `Notify`, `LoadKey` and
`StoreKey` for each budget in turn.  Costs are integers.  Budgets may share a
counter, since nothing in the schema or the admin API gives each its own
(`domain/budget/entity.go:122`); such a counter is charged once for each of them.
The clock moves through instants, of which every second one is the last second
of a period: there the time to live of a counter rounds down to 0 and `EXPIRE`
deletes it.  `Expire` is the counter's end after its period or up to a second
before it.  With `Faults`, each call may fail: a counter that cannot be read is
not checked, an increment that fails may have been executed, a key that fails
to load is skipped.  `Revoke` is the admin handler that clears `enabled` while
`accumulateKeySpend` is between its read and its write.

The rest is history: `forgotten`, what expired of a counter; `charged`, what a
period was charged by requests that began before its last second and could
check the budget (`blind` names the budgets they could not); `missed`, the
thresholds crossed by a charge that reports nothing for that budget;
`unrecorded`, what was counted and never written down because a reply was lost
or an entry failed; `revoked`, that the key was revoked.

### VirtualKeys

A row is what the properties tell apart: whether the key is enabled, and a
version.  Each database call is a step.  Handlers of the admin API run in the
process of a gateway (`cmd/all`) or elsewhere (`cmd/admin`), which is chosen for
each of them; the first invalidate that gateway's cache when they have written,
the others none.  `Load` followed by `UpdateStore` or `SpendStore` is a
read-modify-write of the whole row, by `Update` or by the budget middleware.
A statement may fail (`StoreFails`), or be executed and reported to have failed:
then the handler returns without invalidating (the second branch of
`AdminWrite`).  `List` and `Swap` are the two halves of `Refresh`, `Query` and
`Fill` those of a lookup that misses.  `written`, `late`, `unnoticed`, `gone` and
`after` are history.

### SSEStream

The producer scans and sends, the watcher closes the body when the context is
done, the handler receives and writes.  The context is done when the client
hangs up, when the provider's timeout has passed (which the handler's own
context does not notice) or when the server cancels it after the handler has
returned.  `select` may take any branch that is possible.  A body may end with
`[DONE]` (`ScanDone`, the upstream is then `"finished"`) or before it without an
error of the scanner (`ScanEnd`, `"closedEarly"`); both are reported as done, as in
the code, and section 4 says which documents want otherwise.

`StreamPromise` has neither goroutines nor a channel: chunks are made and
delivered one by one, and the end is told once.  The mapping takes `read` and
`written` as they are, `Source` (whether the body is open, finished, closed early
or failed) from how the scan ended, and `Told` from what the handler wrote last, or that it
returned without a last chunk.

### RateLimitWindow

The sorted set is a bag of stamps; members are random and do not collide.  A
goroutine takes its stamp (`TakeStamp`) before its script runs (`Evaluate`), so
scripts run in any order.  The script is one step: removal, count, addition,
expiry.  With `Faults`, it may fail before or after it was executed; the
middleware lets the request pass.

### The pages of the console

A page is a single thread: a handler runs to its next `await` without
interruption, which is one step.  What interleaves are the operator's clicks,
the server, which carries out a request at some time after it was sent
(`Serve...`), and the answers, each of which continues the handler that awaits
it.  `AdminPage` has the requests under way (`flight`); a request may get lost
before or after it was carried out, which to the page is the same failure.
Since `apiFetch` throws for every status but 2xx and for every body that is no
JSON, so does the answer 204 to the deletion of a tenant.  Requests of a page
that was left go on (`mine` is false), and their handlers with them, which
matters where they navigate.  `Quiet` is a page without requests under way of
which none overlapped and none failed.

`KeysPage`, `BudgetsPage`, `RoutingPage`: each has the rows on the server, the
list of the last load, and form, dialogs and flags, named after their state
hooks.  The keys page patches its list after a toggle and loads it again after
the rest; the others load it again after everything.  A budget's form loads
the keys of a tenant when one is picked.  The server's half of each (`Serve...`)
is its handler in `handler/admin` and the repository behind it.

On the routing page a provider's API keys are a sequence of keys in use, typed
or masked.  The server masks all of them in what it lists (`AsShown`), and when
a provider is saved a masked key stands for the one stored at its place, if
there is one (`Preserved`, which is `preserveMaskedSecrets`).  The form wants one
key that is not masked.  Deleting a provider first strips it from every route,
by one statement that fails as a whole, unnoticed, when it would leave a route
without any (`Stripped`).  `rtGuess` is history: masked keys were opened while a
request was under way, or put under another name.

`TenantPage`, `TenantEditor`, `TenantConsole`: the slug of the URL and the
tenant on the screen are two variables, since the components stay mounted when
the URL changes.  `PackStep` is the sequence apply, load, report of
`handleApplyPack`; the server's half, `ServeApply` in `TenantTable`, builds the
row anew as `app/compliance/apply.go` does.

`AsyncData`: a run of the effect is a number; a call that is under way knows the
run it belongs to, and counts only if that is `live`, which is `cancelled` of the
code turned around.  The world changes by numbered steps, so that it can be said
how old an answer is.  `LatestAnswer` knows a question, when it was asked, and
an answer; the mapping takes `asked` and, once nothing is loading, `data`.
`ConversationsPage` and `SessionsPage` add what they keep beside the hook.

`OverviewPages`: a request knows the section that awaits it, the workspace and
the range it was sent for; only the pass rate's effect ignores late answers.
What needs attention, be it a budget over its limit, a provider that is down or
degraded, a key about to expire or a blocked request, is an alarm, of a
workspace or of the gateway as a whole (`ovAlarms`).  `FirstRun` is the page
shown instead of the dashboard when all sections are empty.  `UsageTables`: two
reports are read at two times, each with a page of records and the totals of
all; an answer is the length the log had when it was read, records and the rows
of the tables are sets of places in the log, and what a column adds up to is the
number of its units.  `CommandPalette`: `Results` are computed from the pages,
the lists and the query, and cut to `ResultLimit`.

`PageBoundary`: React's phases, render and commit, are steps, since the error is
set in the first and cleared in the second, which leads to another render.

`AdminSession`: a token is the number of its login; each tab has its copy in a
variable of its module, the storage and the cookie are common, and the server
knows which sessions are not over.  Checks, logins and logouts are requests.

History variables (`keyTwice`, `budCrossed`, `rtEarly`, `rtGuess`, `tpHasty`, `teHasty`,
`cvOverlap`, `ssMoved`, `ovLate`, `plOverlap`, `plGrown`, `raced`) record that
two requests of one kind overlapped, or that something changed under the
operator.  The properties say what holds unless that happened: so each of them
states exactly which race the code leaves open, and that there is no other.

## 3. The runs

| Run | Instance | What it shows |
|---|---|---|
| `breaker` | 2 goroutines, limit 3, cooldown 2, 2 retries, fair | `Inv` (types, `DeadlineIffLimitReached`, `BackoffHasAttemptLeft`), `KeepsPromise` (refinement), `ReadmitsEventually`, `CallsReturn` |
| `proxy_routing` | 1 request, 2 providers, 2 reloads, fair | `TypeOK`; `TablesSound` (`TablesInStep`, `NoUnknownInTable`) and `HealthConverges` of the tables; `AnswerIsJustified` (`GivesUpOnlyAtTheEnd`, `ResponseIsLastAttempt`, `FollowsRoute`) and `EveryRequestAnswered` of the request; `MixesOnlyMidReload` of both |
| `proxy_open` | the same | violation of `OpenBreakersAreSkipped` |
| `budget` | 2 requests, 2 budgets that share a counter, one of scope "key", 2 periods, faults | `OverrunBounded`, `NoAlertMissed`, `CounterMatchesHistory`, `HistoryNeverAhead` |
| `budget_revoked` | 1 request, 1 budget | violation of `RevokedStaysRevoked` |
| `virtual_keys` | 1 key, 1 gateway, 1 request, 2 writers, 3 versions, fair | `TypeOK`, `StaleOnlyByRace`, `CacheConverges` |
| `virtual_keys_revoke` | 1 key, 1 gateway, 2 requests, 1 writer | violation of `RevokedStopsInProcess` |
| `sse_stream` | channel of 2, up to 4 chunks, fair | `TypeOK`, `StreamWindsDown` (`CancelReachesUpstream`, `StuckOnlyAtDone`), `KeepsPromise` (refinement) |
| `rate_limit` | 3 goroutines, limit 3, window 2, clock up to 4, faults | `TypeOK`, `WindowBounded`, `NothingForgottenEarly` |
| `console_edit` | each editing page by itself; 4 clicks, 1 fault, 2 of everything | `EditTypeOK`; `ListsMatchServer` (`KeysListTrue`, `BudgetsListTrue`, `RoutingListTrue`, `ModeShownIsStored`); `MasksAreNeverStored`; `EditFlagsTrue` (`KeysBusyTrue`, `OneSaveAtATime`); `ActsOnWhatIsSeen` (`ActsOnWhatItNames`, `SavesWhatItLoaded`, `KeyOfItsTenant`); `ShownUnderItsTitle` (`HistoryIsOfTitle`, `ReportIsOfPack`); `OnlyTheOperatorCloses` (`SecretStays`, `EditorStays`) |
| `console_read` | each reading page by itself, the hook driven freely, boundary and login; fair answers | `ReadTypeOK`; hook: `KeepsPromise` (refinement), `StopsLoading`; `ReadFlagsTrue` (`LoadingIsTrue`, `OneBatchAtATime`, `AnalyticsSettle`); `ShownIsAskedFor` (`ShownIsOfCurrent` of the hook, `FiltersShownAreAskedFor`, `DetailIsOfRow`, `SectionsAgree`, `StatusIsKnown`, `FindsWhatIsThere`); `ActsOnTheScreen` (`BulkIsOnScreen`, `RowsReadAfterActing`, `SomethingHighlighted`); `GreetsOnlyQuietGateways`; `TablesTrue` (`TablesAgree`, `TablesWithinTiles`); `BoundarySettles` (`ErrorIsOfThePage`, `GivesUpOnPage`); `CheckedAndForgotten` (`NothingShownUnchecked`, `LogoutForgets`) |
| `console_retention` | 1 tenant, 1 pack, 5 clicks, no faults | violation of `RetentionPersists` |

A property in front of parentheses is the conjunction of those in them, each
of which is stated and explained in the module of its component.

### The bounds and why they are enough

- *Goroutines.*  What goes wrong between calls of a breaker goes wrong between
  two: one that reports late and one that starts.  The theorems hold for any
  number.  A request does not see other requests in `ProxyRouting` (they only
  read the tables), so that one is enough.  Two requests make every race of the
  budget middleware; three are needed in the limiter for one to be overtaken by
  another while a third fills the window.
- *Clocks.*  A cooldown of two ticks has a time before, at and after the
  deadline; `Instants = 3` is a period, its last second and the next period;
  `MaxTime = 4` is twice the window.
- *Two reloads* make a reload that meets a health round begun two tables ago.
  The second configuration reverses the route and has a provider without a
  client, the third has forgotten a provider and the route.
- *A channel of two chunks instead of ten* is full after two; four chunks fill
  it twice.
- *Money.*  A hard limit of one, costs of one (`MaxCost`), and a counter of the
  first period that may reach five (`FirstPeriod`): the limit is passed by both
  requests, each of which charges the shared counter twice, which is what
  `OverrunBounded` admits of one round, and the rounds repeat after an expiry.
  Of the second period its first instant is there, up to the first charge.
  `MaxLost` allows one unit to be lost of the history of a counter, and one
  request at a time fails to check some budget: what is lost twice is lost by
  the same two steps.  The theorems hold for any limits, costs and faults.
  `MoneyView` leaves out local variables that are dead, of the two accounts all
  but their difference, and the key's row, which no property of the run
  mentions.
- *`MaxWrites`* numbers the versions of a row: three are enough for a copy that
  is older than one that is old.
- *Console.*  A behaviour of `MCConsoleEdit` and `MCConsoleRead` stays with one
  page, since pages share nothing that their properties mention; the routes
  between the tenant pages are in `TenantConsole`.  Every property that excuses
  a race excuses two overlapping requests, so that runs in which it must hold
  have at most one race; four clicks (`MaxClicks`) are enough to open, fill,
  send and disturb each dialog, and one fault (`MaxFaults`) to fail any step
  of a handler.  Two rows, slugs, packs, tenants or ranges make "this" and "the
  other".  Five clicks set a mode, save it and apply a pack.  A provider of
  two API keys (`MaxKeys`) has one that is masked beside one that was typed, and
  one more or fewer than are stored.
- *Hook.*  Three calls (`MaxAsks`) are one cancelled, one that is live and one
  more; one change of the world (`MaxWorld`) makes an answer old.  The theorems
  hold for any number.
- *Reading pages.*  Two pages of the log; one more click on the dashboard than
  its first loads (`DashboardClicks`), as each starts up to five requests; a
  page of two records (`PerPage`) and up to three requests (`MaxTraffic`), so
  that one falls off; three results (`ResultLimit`) of four that match; two
  openings of the palette.  Two tabs, two logins, three loads of a tab and one
  lost message let a logout of one tab meet a login of the other.
- *Symmetry* is used where safety only is checked, over model values that no
  definition tells apart: the requests in `budget` (`Interchangeable`), and in
  `console_edit` the budgets and the names of the routing page (`Alike`).  The
  tenants of budgets are strings, as the form takes the first of them.

### Fairness

`EgressClient`: the clock goes on (`Tick`), and an attempt that was sent ends, as
every provider call has a timeout (`withTimeout`).  `RoutingTables`: the health
checker's ticker goes on and its probes time out after ten seconds; a reload,
once begun, ends.  A reload need not begin, and endpoints may do what they like.
`ProxyRouting`: a handler's goroutine goes on, since its calls have timeouts.
`VirtualKeys`: the refresh ticker goes on and a lookup that was begun ends;
nobody is obliged to write.  `SSEStream`: goroutines run when they can; a scan is
fair only once the body has been closed, for an upstream may be silent for ever.
`AsyncData`: a call is answered or given up by the browser, and the callbacks of
a promise that has settled are run (`HookProgress`); nobody is obliged to click,
and the world need not change.  Nothing else is assumed, and strong fairness
nowhere.

`SSEStream` is checked without deadlock detection, since a stream ends, and the
console's runs are, since an operator may stop and the bounds on clicks end a
behaviour.

## 4. Where the code and its documents disagree

Four are runs with `expect: violation` and entries of `findings`:

1. The budget middleware writes back the key's row it has read, `enabled`
   included, so that a request under way undoes a revocation
   (`budget_revoked`).  `Update` of the admin API can do the same to `Delete`.
2. A refresh, or a lookup that missed, stores what it read before a revocation
   after the invalidation: the key is accepted again, in the same process,
   until the next refresh (`virtual_keys_revoke`).
3. Applying a compliance pack resets the tenant's retention mode, which the
   console has saved (`console_retention`).
4. A provider whose breaker is open ends the fallback chain (`fallback.go:62`):
   `ErrCircuitBreakerOpen` is not an error that `isRetriable` knows, so healthy
   providers further down are not tried (`proxy_open`), although
   116-connection-pool-fixes has such a provider skipped and a fallback down to
   the last one alive.

Read in the code, and present in the models, without a run of their own.  In the
gateway:

- A request that reads its route while a reload is between its rules and its
  clients uses the clients of the configuration before: a provider that is new
  has none there, and the request may end with 503, against
  config-hot-reload, AC-005 (no request gets a 5xx that a reload causes).
  `MixesOnlyMidReload` says that this is the one window in which a request has
  clients older than its route.  (A reload that comes between the two reads
  makes them newer, with the same effect for a provider that was removed.)
- A streamed answer whose body the upstream closes before it has sent `[DONE]`
  ends with `[DONE]` for the client all the same (`stream.go:76`, `101`).
  71-egress-streaming (spec.md:150) calls that an error, and
  112-proxy-streaming-wiring (spec.md:131) takes done for the one regular end.
  `StreamPromise` has it as the code does, under a name of its own
  (`closedEarly`).
- In the last second of a period the time to live of a counter is truncated to
  `EXPIRE 0` (`valkey_spendcounter.go:34`), which deletes it: requests that begin
  in that second are charged without a bound, although
  `docs/ACCESS_AND_BUDGETS.md:34` blocks them once the limit is reached.  Nor is
  there one where the counter cannot be read.  `OverrunBounded` bounds what all
  other requests cost a period, on the money charged and not on what the
  counter still shows.
- The last chunk of a stream is sent without looking at the context; when the
  channel is full and the handler gone the producer never ends.
  `StuckOnlyAtDone` shows that this is the only way.
- `Allowed: remaining > 0` refuses the request that takes the last place of a
  window, after it has been counted: a limit of N admits N - 1, a limit of one
  admits nothing.

In the console:

- A session that is over should lead to the login page (admin-ui-design,
  AC-004); `ui/api/client.ts:51` only throws, so that a tab goes on showing the
  console.  Logging out should delete the session (data-model.md:28 and 69 of the
  same plan); the server only clears the cookie, and another tab that has the
  token already is not told.  `CheckedAndForgotten` promises neither.  A check
  that fails because the network does clears the token that all tabs share; a
  late answer to a second click on "log out" logs out who has logged in since.
- Closing and extending sessions needs the tenant of an API key, which an
  administrator's request never has: both answer 401, and the page, which does
  not look at the status, says "Session closed".  The selection survives the
  rows; the fixed end of a preset range hides later sessions.
- The toggle of a key sends `enabled` alone to a handler that replaces all
  fields: label, models, cap and expiry of the key are wiped.
- Deleting a tenant answers 204 without a body, for which `apiFetch` throws:
  "Failed to delete tenant" is shown of a tenant that is gone.
- A masked key stands for the one stored at its place
  (`routing_registry.go:193`), so it is the masked form itself that is stored
  where there is none: when a provider is renamed in the editor, which makes a
  new one, or when the list was loaded before another change took keys away.
  `MasksAreNeverStored` names these cases and shows that there are no others.
  Not in the model: the empty AWS credentials of a provider that has none are
  masked, too (`dto/routing.go:13`), and sent back with every edit, and as there
  is nothing stored to keep, `***` is saved for them.
- The analytics reports are cut to the first fifty records, one for each
  request (`analytics_handler.go:39`), and the console asks for no other page:
  its tables and its CSV file tell of fifty requests, its tiles of all
  (`TablesWithinTiles` is stated for a page that holds all).
- While `TenantDetail` loads another tenant, or fails to, the one before stays
  on the screen under the new URL; "not found" is never taken back.  A save or
  a load of the form that ends late navigates away from wherever the operator
  is.  A failed load of the list reads "No tenants yet".
- The filter of the conversations shows "All" when its value is in none of the
  rows, and a filter set on a later page may leave that page empty.
- The dashboard greets a gateway as new until its first answers are there, and
  after that when nobody has had traffic and nothing needs attention
  (`GreetsOnlyQuietGateways`).  Keys and tenants it does not ask for: a gateway
  with keys but no traffic yet is greeted, where ui-v2-console (RQ-011,
  spec.md:73 and 190) keeps the onboarding to one without keys and traffic, and a
  new one whose provider is down is not.  The button "Create key" in the header
  does nothing on the keys page itself.
- In the palette an arrow pressed without a result leaves nothing highlighted,
  and the lists of an earlier opening may overwrite later ones.  A page that
  throws as soon as it is gone to is rendered twice (`GivesUpOnPage`); a lazy
  chunk that failed to load fails until the browser reloads.

The models of the gateway also have: an answer that comes late resets a shut
breaker, and clients that hang up shut it (`EgressClient`); a charge to a
counter that two budgets share crosses thresholds of the other in silence, and
what a lost reply has counted is missing from the history (`SpendBudget`); a
write of a key that is executed and reported to have failed leaves the old copy
in the cache until the next refresh (`VirtualKeys`); a timeout in mid-stream may
end it without an error chunk (`SSEStream`).

## 5. What is proved

All theorems are for every value of the constants that the named assumptions of
the modules admit: any number of goroutines, keys, gateways, tabs, any limits,
windows, buffers, configurations and bounds on the clock.  The invariants that
make them inductive were model-checked on the instances of the runs before they
were proved.

`EgressClient_proofs`
: *BreakerInvariant*: `Inv`, that is `TypeOK`, `DeadlineIffLimitReached` and
  `BackoffHasAttemptLeft`, always holds.  Together they are inductive: the
  deadline can only be kept in step with the count because the count is typed,
  and the number of attempts is bounded because a call only waits when one is
  left.
  *ClientKeepsPromise* is the refinement: with the invariant each step maps to
  one of `BreakerPromise` or to a stutter.  The case that needs the invariant
  is a failure when the cooldown is over: the breaker shuts at once since its
  count is still at the limit.

`ProxyRouting_proofs`
: *TablesAlwaysSound*: `TablesSound`.  It is inductive with the types of the
  tables, since a reload makes its three stores in one order and a health round
  writes only to the objects it began with.
  *RoutingTypeOK* (`TypeOK`), *NoEarlyGivingUp* (`GivesUpOnlyAtTheEnd`) and
  *ResponsesAreEarned* (`ResponseIsLastAttempt`) come from one invariant of a
  request (`RequestInv`): its attempts are at most one on the primary alone
  and then those on its route from the first name on (`Along`), as many as the
  loop variable says (`Running`), and none but the last was a success.  The
  route is the request's own copy, so the proof does not depend on what is
  reloaded meanwhile.
  *AttemptsFollowRoute* (`FollowsRoute`) reads off `Along` that no place of the
  route is skipped, repeated or taken out of turn, and *AnswersJustified*
  (`AnswerIsJustified`) is the three together; neither asks that a route names a
  provider once.
  *MixingIsBounded* (`MixesOnlyMidReload`) adds what is known of a request before
  it has loaded its clients (`MixInv`): the clients in the table are then not
  older than it says, since a reload stores providers, rules and clients in this
  order and no reload begins before the one before it has ended
  (`TablesInStep`).
  *AttemptsAreBounded* (`AttemptsBounded`): a request costs at most one attempt
  more than its route has names, a streamed one at most as many.  It follows
  from `Along`.
  *RequestsComeCloser* is the safety half of `EveryRequestAnswered`: any step, of
  a request, a reload or the health checker, leaves a request as it is or
  lowers a measure of it, the pair of the stages before it (`Stage`) and of
  the names its loop has still to go through (`Left`), both natural numbers
  (`MeasureOfNaturals`).  No interleaving sends a request round for ever; that
  it does take its steps is the fairness TLC checks with.

`SpendBudget_proofs`
: All of them hold with and without faults, and whichever budgets share a
  counter.  *SpendTypeCorrect*: `TypeOK` (proved only, not run).
  *HardLimitHolds* (`OverrunBounded`): what the requests that began before the
  last second of a period and could check a budget cost it is at most
  `HardLimit - 1` and two rounds of all requests.  The bound itself is not
  inductive; `Room` is, which says more while the period runs (`RoomBefore`) than
  when its counter may have expired (`RoomAfter`).  Before, what was charged is
  in the counter, so that it is below the limit, or within one round of it even
  with `MaxCost` added for each charge still due by a request that has passed the
  check (`DuePassed`).  After, what is due (`Due`) of any request fits into the
  second round, and no request that begins then counts.
  *ThresholdsAlert*: `NoAlertMissed`.  Here the invariant (`AllAccounted`) says
  not only of the counter but also of every value a request has read from it
  that the thresholds it has reached are alerted, about to be, or missed: the
  alert of a threshold is left to the request whose own step from `prev` to
  `new` crosses it, and `prev` may be old.
  *HistoryMatches* (`CounterMatchesHistory`) and *HistoryStaysBehind*
  (`HistoryNeverAhead`) rest on what requests have counted and not yet recorded
  (`Owing`): with it, and with what failures kept out of it, the history is level
  with the counters and what expired of them (`AllRecorded`).  `Settled` says of
  every step that it moves both sides alike.  A sum over periods or requests is
  the number of its units (`Sum`), a cardinality instead of a recursion, so that
  one amount which changes changes it by as much (`OneAmountChanges`).

`VirtualKeys_proofs`
: *KeysTypeOK* (`TypeOK`), *InvalidationForgetsNothing* (`StaleOnlyByRace`),
  and *OwnWritesAreSeen*, which no run checks: where nothing was written behind
  the back of a process, nothing stored late and no write taken for failed, its
  cache is right.  The
  invariant adds that every copy a cache holds or may still be given was once
  the row (`CopiesOld`), and that what a process has written was written
  (`WritesKnown`).

`SSEStream_proofs`
: *StreamTypeOK* (`TypeOK`), and *ChunksInOrder*, which no run checks: the next
  chunk in the channel is the one after the last that was written.  The
  invariant says that what was written, the channel and the chunk in the
  producer's hand are one sequence without a gap (`InOrder`, `Complete`), that
  done is sent only for a body that finished or was closed early (`EndKnown`),
  and that a producer which stops without a last chunk was cancelled
  (`StopsForAReason`), so that silence is kept to a client whose time ran out
  (`SilentOnlyByTimeout`). *StreamKeepsPromise* is the refinement of
  `StreamPromise`.  `Inv` is too weak for it where a stream fails: `Counted`
  adds that an error, too, is behind everything that was read, and that what a
  cancelled producer leaves in the channel was read; `Sourced`, that an error
  means a body which failed.  Filling the channel is a stutter, and a handler
  that returns without a last chunk maps to `FallSilent`, which needs that the
  client has hung up or its time has run out (`StopsForAReason`).

`RateLimitWindow_proofs`
: *WindowTyped* (`TypeOK`), *StampsOutliveWindow* (`NothingForgottenEarly`) and
  *AdmissionBounded* (`WindowBounded`).  Up to its last instant a window has
  admitted at most `Limit - 1`, since what it admitted is still in Valkey and
  the script counts it; after that nobody takes a stamp in it, and each
  goroutine that has one (`PendingIn`) may be admitted once more, which is
  where the goroutines in the bound come from.

`ConsoleRead_proofs`
: Of the hook, *TypeAlways* (`HookTypeOK`), *LoadingAlwaysTrue* (`LoadingIsTrue`),
  *ShownAlwaysCurrent* (`ShownIsOfCurrent`) and *PromiseKept*, the refinement
  of `LatestAnswer`.  None of the properties is inductive: that what is shown
  is of the current question depends on calls that have not been answered.
  `HookInv` adds of these that their numbers are apart and counted, that an
  answer was given in the past, that the call which is live was made for the
  current question and not before it was asked, that a call is live only while
  the hook is enabled, and that there is no error while loading.
: Of the boundary, *BoundaryAlwaysSettles* (`BoundarySettles`), for any pages that throw at any
  time.  The invariant says of each phase whose error there may be and how often
  the page can have thrown by then: what an idle boundary shows is known because
  a commit with an error of the page before leads to another render.
: Of the login, *SessionsTyped* (`SessionTypeOK`) and *TokensForgotten*
  (`CheckedAndForgotten`), for any number of tabs, logins and lost messages.  The
  invariant says what an answer under way may carry: a yes to a check is one
  the server gave to this tab's token (`Checking`), and the token of a login
  that the tab has yet to learn of is nowhere else but in the cookie
  (`LoggingIn`), so that a logout cannot have ended it.
: Of the pages that load and show, *ReadingTyped* (`ReadTypeOK`),
  *ReadingFlagsTrue* (`ReadFlagsTrue`), *ReadingShowsWhatIsAskedFor*
  (`ShownIsAskedFor`), *ReadingActsOnTheScreen* (`ActsOnTheScreen`) and
  *OnlyQuietGatewaysGreeted* (`GreetsOnlyQuietGateways`), for any workspaces,
  ranges, lists and pages, and any number of clicks and lost answers.  All
  follow from `ReadInv`: the page of the behaviour keeps to its own invariant
  and what belongs to the others rests.  With `useAsyncData` underneath nothing
  of a page needs more than `HookInv`; the handlers beside it, and the pages
  that load by themselves, cancel nothing, and their invariants say what each
  request under way would show:
: Conversations and status: until a click overtook another there is one request
  at most, of the row clicked last (`DetailAlone`), and one carried out is not
  older than the last refresh (`StatusInv`).
: Sessions: the selection is of rows on the screen until these move under it,
  closing is in step with the one batch under way, and no answer is later than
  the list's last loading (`SessionsInv`), because every answer loads it again.
: Overview: of a section nobody asked for anew while it was loading, and of the
  two that always ask for the same (`Steady`), every request under way asks for
  what the section should show (`SectionsAsked`), and until an answer is lost
  it shows that or has such a request (`SectionsKnown`).  The greeting needs
  the activity, which is that of all tenants and so never overtaken, and that
  what needs attention has come or is coming (`AttentionComes`).
: Search: each list is there or awaited (`ListsKnown`), and until a list arrives
  the highlight is on one of the results (`PaletteHighlight`): the arrow down
  stops at the last of them, which needs that there is one.
: Usage tables: *TablesAddUp* (`TablesTrue`).  What needs a proof is not the
  states but the sums: the requests of a page, split by model or by tenant, are
  as many as before.  `PartsAddUp` says so of any finite set and any way to
  split it, by a bijection between its members and the units of the rows; and
  `PageOfFound`, that a page is everything found when it holds as many.  The
  invariant `UsageInv` only says that an answer was read of what was recorded
  by then.
: In place: *PromiseKeptOnPages*, *BoundarySettlesInPlace* and *ForgottenInPlace*
  carry what was proved of the hook, the boundary and the login by themselves
  over to the composition: with `ReadInv` a step of a page is one of the hook
  for deps it may be asked for, or leaves it alone (`HookInPlace`).

`ConsoleEdit_proofs`
: *PagesTyped* (`EditTypeOK`), *ListsAgree* (`ListsMatchServer`),
  *KeysStayUnmasked* (`MasksAreNeverStored`), *FlagsTrue*
  (`EditFlagsTrue`), *SeenIsActedOn* (`ActsOnWhatIsSeen`), *TitlesTrue*
  (`ShownUnderItsTitle`) and the action property *OperatorCloses*
  (`OnlyTheOperatorCloses`), for any sets of rows, tenants and packs and any
  number of clicks and lost messages.  All follow from `MCInv`, which says of
  the page on screen that its own invariant holds and of the others that they
  are untouched.  The invariants say what each request under way implies, since
  a page keeps nothing but what it has sent:
: Lists.  While nothing overlapped and nothing was lost there is at most one
  request, and for each kind and state it is known whether the list is still
  the server's: until a change is carried out, it is; an answered load carries
  the rows of the server; between the two nothing else can move
  (`KeysAgree`, `BudgetsAgree`, `RoutingAgree`, `ModeAgree`).  The keys page
  patches its list after a toggle instead of loading it; there the invariant
  says that the patched list will be the server's.
: Masks.  Until requests overlap or fail, or masked keys are opened or renamed
  when they cannot be vouched for, no stored key is masked, and the masked keys
  of the open editor and of a save under way have each a key stored at their
  place under the same name (`RoutingMasks`).
: Flags.  `busy` and `submitting` are kept in step with the page's own requests
  of their kinds even when others overlap or fail (`KeysFlags`, `SaveFlags`);
  the handler that sends a request of these kinds is guarded by the flag.
: What is acted on.  `Named` says that a request of the tenant's page is for the
  tenant of the URL unless that changed while one was under way; `Loaded` that
  a form holds the data of its tenant and that every row on the server is its
  own.  `Report` follows a pack through applying, loading and reporting
  (`PackRequest`): pack and tenant of the request are those on the screen, the
  tenant exists, and there is one such request at most.  Its first formulation
  allowed a report to be of another pack only where the tenant does not exist;
  the attempt to prove it showed that a tenant which is deleted while a pack is
  applied, and created again after that, keeps the old report, which takes more
  clicks than the run has.  The exception now names the deletion (`gone` in
  `tpHasty`).

Assumptions on constants that the code does not check but its start-up
guarantees: `ConfigsAssumption` (there is a configuration, and clients and
probes are of providers it has), `AbsentAssumption`, `TableAssumption`,
`EditorAssumption` and `PackAssumption` (no row, open editor or pack is the mark
for there being none), `ScopeAssumption`, `StatusAssumption` and
`PaletteAssumption` (the same of a scope, a status and a result; there is a
tenant and a range; lists are lists of names), `LogAssumption` (the log has a
first page), `DepsAssumption` (the hook may be asked for what its pages ask for),
bounds that are at least one.

Only model-checked: all liveness (`ReadmitsEventually`, `CallsReturn`,
`EveryRequestAnswered`, `HealthConverges`, `CacheConverges`, `StreamWindsDown`,
`StopsLoading`): its proof needs fairness and `ENABLED`, which the prover does
not treat; of `EveryRequestAnswered` the part that needs neither is proved
(*RequestsComeCloser*).  Every invariant that a passing run checks, every action property and
every refinement is a theorem.

## 6. Plan

The core came first because a wrong answer of it costs money or lets a revoked
key in; then the console, half of the code, because what an administrator sees
and does goes through it.  What is left, in this order:

1. `SessionStore`: write-through from Postgres to Valkey under concurrent close,
   extend and increment, against an abstract store; `MaskStore` shares its shape.
2. `ConfigReload`: watcher, debounce, section by section application; to be
   composed with `RoutingTables`.
3. `ShieldMasking`: unmasking as substitution over token sequences, write by
   write; the request body that the session estimate drains.
4. `AsyncWorker`: bounded channel, batches and stop, of both workers;
   `Aggregation`: ticks against the ends of hours and days; `SemanticCache`,
   `TenantReload`; clock skew between gateways in `RateLimitWindow`.

## 7. What is not modelled

- *Routing administration*: single rows, one statement for each operation; what
  its handlers do to a row is in `RoutingPage`.
- *Admin sessions*: the limit on failed attempts.  *Compliance*: the loading of
  packs and the content of reports.  *Analytics API*: series and pass rates.
- *Provider adapters, cryptography, detectors*: functions of data.
- *Server, middleware glue, telemetry, logging*: no state of their own.
- *Console*: the audit log (a single load over the hook), the documentation
  viewer, toasts, theme, sorting, charts, search and filters of lists (functions
  of what is loaded), and components no page imports (`DictionaryEditor`,
  `PreprocessorEditor`, `ProtectedRoute`, `api/profiles.ts`).
- *Hazards of what is not modelled*: a client that hangs up is counted against
  the provider (`adapters/egress/client.go:94`); a retry sends a drained body
  (`retry.go:67`); the
  history's time stamp is later than the counter's period
  (`api/middleware/budget.go:134`), and a disconnected client is not charged
  (`:122`); an extension after a check of the status
  (`domain/session/usecase.go:75`); a fill of the mask cache after a delete
  (`adapters/repository/mask/cached.go:43`); a session's token estimate drains
  the body and placeholders that two chunks share stay (`api/middleware/shield.go`
  `:443`, `:96`); a cache key without the model (`app/cache/service.go:49`);
  records dropped at a full buffer or a stop
  (`app/conversation/async_worker.go:169`); the last minutes of an hour are not
  aggregated (`app/analytics/agg_worker.go:56`); cached dictionaries overwrite
  those just read (`cmd/all/gateway.go:216`); clocks of gateways differ
  (`adapters/repository/budget/valkey_ratelimit.go:76`).
- *The token budget of the rate-limit middleware*: it looks up a model that no
  middleware before it sets, so the branch is never taken.
- *`budget_cap` of a key*: stored, returned and compared with nothing.
- *Crashes of a gateway*: nothing is recovered after one; what is lost is what
  was under way.
- *Administration of budgets, `Reset` of a counter*: the budgets of `SpendBudget`
  are fixed; a change of them while requests are under way is not modelled.
- *`InvalidateTenant` and `BackfillFromLegacy`*: the first has no caller, the
  second runs once, at start.
