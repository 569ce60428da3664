# A TLA+ model of coreapi

coreapi is the backend of a social application: a Go HTTP service in front of
PostgreSQL. Requests run on their own goroutines; several handlers start more
goroutines that outlive their request. The process keeps state of its own only in
three places (the hub of open event streams, the rate limiters, the map of recently
recorded sessions) and everything else in the database, where almost every
operation is a sequence of single statements outside any transaction. The
repository has no tests. What can go wrong is therefore the order of things: two
requests between each other's statements, a goroutine that outlives what it was
told, a restart between two writes. That is what these modules are about.

## The system's parts

| Part | State it keeps | Operations | What makes it correct |
|---|---|---|---|
| Notification service (`internal/notification/service.go`) | `notifications` table | `Notify` (check for a duplicate, insert, count, publish), `MarkRead`, `MarkAllRead`, `List` | a repeated event within 24 hours gives no second unread notification; an event that is due is not lost; the count sent includes the notification it is sent with |
| Follow graph (`internal/users`) | `users`, `follows` tables | `FollowUser` starts `Notify` on a goroutine; `UnfollowUser`, `GetOrCreateMe`, lists and counts | only a follow that is in the table notifies; following twice is no error |
| SSE hub (`internal/notification/hub.go`) | map of maps of channels, a mutex | `Subscribe`, `Unsubscribe`, `Publish`; the handler `Stream` | the registry is exact, `Publish` never blocks, nothing is sent to others, an open stream misses nothing, streams end |
| Rate limiter (`common/httpx/ratelimit.go`) | a bucket per client address, a mutex | `Allow`, the clean-up goroutine, `Stop` | admission bound, fair clients served, memory bounded |
| Session tracking (`internal/session`) | the map of seen sessions, `user_sessions` table | `RecordSession` with its background upsert, `DeleteSession`, `DeleteOtherSessions`, the two clean-ups | a row per session that is used, recent enough; deleted sessions stay deleted |
| Insights (`internal/insights`) | `profile_views`, `daily_insights` tables | `RecordProfileView`, the backfill at start-up, `GetOverview` with its metrics, chart and breakdowns, the paged list of events | repeated views counted once; counters agree with events; the parts of a report agree with each other |
| Settings and profile privacy (`internal/settings`, `internal/users/service.go`) | `user_settings` table | `UpdateSettings` (read, change, write back), `IsProfilePublic` | no field is lost but to a concurrent update; a private profile's lists are not shown |
| User profiles (`internal/users`) | `users` table | update with a check of the username, lookups by name, discovery, paged lists | usernames unique, a walk through a list complete |
| Search (`internal/search`) | none | a paged list with its total | a walk complete |
| HTTP server (`common/httpx/server.go`, `cmd/coreapi/main.go`) | listener, connections with their deadlines, background goroutines, the database pool | read, write and heartbeat timers, shutdown on a signal, closing the pool | it ends in bounded time and says truly whether it cut anything off |
| Contact form, media upload, authentication, GeoIP, configuration | none in the process | single inserts, calls of other services | not a matter of order |

How they interact: `FollowUser` calls the service's `Notify` on a goroutine with
`context.Background()`; `Notify` calls the hub's `Publish`; `Stream` subscribes to the
hub and asks the service for the unread count; the session middleware runs before
every authenticated handler, `GET /api/me`, which creates the user's row, included;
`main` starts the backfill, the stale-session clean-up and the ticker of the map's
clean-up beside the server. The limiters stand in front of public routes.

The hazards of the code, each with the line where it bites and the properties that
are about it, are listed in `PROJECT.json`.

## Modules

| Module | Models | Run with |
|---|---|---|
| `NotificationService` | follow requests and `Notify` against the tables | `NotificationService.cfg` |
| `NotificationHub` | hub, stream handlers, publishers | `NotificationHub.cfg`, `NotificationHubRace.cfg` |
| `NotificationSystem` | the two composed, with what each client has been sent and is shown | through `MCNotificationSystem`: `NotificationSystem.cfg` |
| `TokenBucket` | what a rate limiter promises: the abstract specification | as a property of `RateLimiter` |
| `RateLimiter` | the limiter as coded | `RateLimiter.cfg` |
| `SessionTracking` | session map, upserts, deletions, clean-ups | `SessionTracking.cfg`, `SessionTrackingClaim.cfg` |
| `DailyInsights` | profile views, daily counters, backfill | `BackfillClaim.cfg`, and as part of `InsightsReport` |
| `InsightsReport` | the overview, beside the recording of views | through `MCInsights`: `Insights.cfg` |
| `ProfilePrivacy` | settings, and profile requests as privacy decides them | as part of `UserDirectory` |
| `UserDirectory` | users, names, follows, and walks through the seven paged lists | through `MCUsers`: `Users.cfg` |
| `HttpServer` | the server's timers, streams, background goroutines, shutdown | `HttpServer.cfg`, `StreamKeptAlive.cfg` |
| `NotificationServiceProofs`, `NotificationHubProofs`, `NotificationSystemProofs`, `RateLimiterProofs`, `SessionTrackingProofs`, `InsightsProofs` (of `DailyInsights` and `InsightsReport`), `UserDirectoryProofs` (of `ProfilePrivacy` and `UserDirectory`), `HttpServerProofs` | theorems about those modules | `tlapm` |

`InsightsReport` extends `DailyInsights` and `UserDirectory` extends `ProfilePrivacy`:
their steps are those of the smaller module and new ones beside them. That each implements the
smaller one is a theorem (`ReportKeepsViews`, `DirectoryKeepsSettings`), so what is proved of
the smaller one holds in both. `NotificationSystem` takes the service and the hub as instances; it
implements both (`SystemIsService`, `SystemIsHub`), and what is proved of them is proved of it
(`ServicePromisesHold`, `HubPromiseHolds`).

Variables marked *history* in a module do not exist in the program; they record what
a property must remember (which rows a check saw, when something was last deleted) and
guard no action. Operators introduced by "Faulty variant" are plausible mistakes; no
specification uses them. They are kept to show that each property can fail.

### NotificationService

A call is one `POST /api/users/{id}/follow` with the goroutine it starts. `pc` steps
through the database round trips in the order of the code: `FollowUser` (not oneself,
and the other user exists), `InsertFollow` (`ON CONFLICT DO NOTHING`, so a repeated
follow goes on to notify again; a follower without a row in `users` violates the foreign key), `SpawnNotify`,
`CheckDuplicate`, `CreateNotification`, `CountUnread`,
`Publish`. A failed check lets the notification through, a failed insert ends the call,
a failed count publishes the count 0, all as in `Notify`. `MarkRead`, `MarkAllRead`,
`UnfollowUser` and `GetOrCreateMe` run in between. `Crash` loses the goroutines and
keeps the tables. Rows are named after the call that inserts them, since a call inserts
at most one.

### NotificationHub

The object behind the hub is a Go map per user, which lives on in the hands of a
publisher after the hub has dropped it, so maps have names. `Subscribe` and
`Unsubscribe` take two steps under the mutex, which is where the lookup of `Publish`
cannot come but its range, which holds no lock, can. Each step of the range may
produce any channel not yet produced, and must have produced those present throughout
before it ends, as the Go specification says of ranging over a map that changes. A concurrent map
write may be detected by the runtime, and a send on a closed channel panics; both end
the process, like `Stop`, and streams and publishers end with it.

### NotificationSystem

`NotificationService` and `NotificationHub` are instantiated side by side; a call's
`Publish` step is replaced by the hub's `Lookup`, `RangeNext`, `Send` and `RangeDone`
with the call as publisher, and the stream's initial count reads the service's table.
Five variables record what each client was sent, what was dropped for it and whose count it was
shown last; the history `during` records the rows inserted while an event that had
been counted was on its way. A panic of a publisher or a detected concurrent map access ends both parts together.

### RateLimiter and TokenBucket

Tokens are counted in units of time (one token is worth `Cost = interval / rate`), so the
code's `elapsed * rate` is exact here; the rounding of its floating-point numbers is
the one thing abstracted. `TokenBucket` is the textbook bucket that gains with every
tick and never forgets. The refinement maps an address without an entry to a full
bucket and an entry to what it would hold if it were brought up to date now.

### SessionTracking

`RecordSkipped` and `RecordLaunched` are the two outcomes of `RecordSession`;
`UpsertSession` and `UpsertFails` those of its goroutine, whose context ends after
`Timeout` (the `Tick` of the clock waits for an upsert whose time has come). The
upsert needs the user's row (a foreign key), which `GetOrCreateMe` inserts. An upsert
that commits although the client saw an error is a case of `UpsertSession`, for
the outcome is only logged. No statement is taken to commit after its context has ended: the
driver cancels it and closes the connection.

### DailyInsights

Profiles share no row, so the module has the views of one. A view's goroutine checks,
inserts and increments in three statements, and goes on to increment when the insert has
failed. The backfill takes the events of its range at its start and overwrites the
counters when its transaction commits. The clocks of process and database are taken to be one.

### InsightsReport

`GetOverview` notes the time once and then runs its statements one after the other: two
counts of views, two of followers, the chart, the breakdowns; each is an action, and each
may fail by itself, which makes its metric zero, sends the chart to its fallback (the events
instead of the counters, then a flat line) or leaves a breakdown empty. A count is kept as
the set of what was counted, so that two counts can be compared. Which views are known to each
breakdown (a view may carry no referrer) is chosen at the start. Sorting, the cut to ten items
and percentages are left out. Clock and time zone of process and database are taken to be one, as in `DailyInsights`, so a view near midnight that
the two would put on different days is not in the model.

### ProfilePrivacy

Users share no row of `user_settings`, so the module has one user's. Settings are
booleans, and so the set of those that are on. `ReadForUpdate` and `Upsert` are the two
statements of `UpdateSettings`, `ReadOrCreate` and `CreateDefault` those of
`GetOrCreateSettings`. A view looks the user up, checks the privacy and reads what it
shows, in that order, for the profile and for both lists alike. That
the user has a row in `users` is taken for granted; without one, writes fail, which
they may anyway.

### UserDirectory

The tables are functions from what identifies a row to when it was created: `joined` of users, `follows` of
edges; notifications and events are numbered. Out of them the seven lists are
made: followers, following, discovery by age and by popularity, search, notifications,
insight events. `Items` is which rows a list has, `Before` its `ORDER BY`, and `Lists` the set of all orders the statement may
return, more than one where `ORDER BY` leaves the order of equals open. The clock of the database is the number of changes, so
no two rows are created at the same time; lists have fewer than 2^31 rows.

`PUT /api/me` is `CheckUsername` and `UpdateUser`, the second against the UNIQUE constraint.
A walk is a client that asks for a page, then for what comes after it, until it is told that
there is no more. Each request is `Lookup` (the name may by now be another's), `CheckWalk`, `CountRows` and
`GetPage` in the order each handler has them, and `Answer`, with `HasMore` as each handler reckons it.
Limit and offset are parsed as each handler does it, the conversion to a 32-bit
integer included, which `Int32` does with `MaxInt32` as the largest. `MaxChanges` bounds the changes of the tables.

### HttpServer

Timers count down in units of five seconds. The write deadline is set when a request's header has
been read and is never renewed, for streams neither, so a stream has two timers: that and its
heartbeat's. A write that waits for its client is a state of its own (`writing`, `pushing`), which ends with the client
or with the deadline. A failed write cancels the request's context and with it
the stream; until the loop has noticed, the handler may take one more event and lose it
(`PushCancelled`). `Signal` begins the shutdown: `ShutdownDone` when no request is being
served, `ShutdownTimesOut` when its time is over, which `main` turns into exit status 1 with no deferred
function run. Only after the former is the pool closed, which waits for queries but
not for the goroutines that are between two. The history `owed` has the connections whose request
has been read and is not over (answered, past its write deadline or, for a stream, its handler back); it is kept
by what requests do and not by what the shutdown takes for idle, so `PoolOutlivesRequests` compares the two. `MaxEvents` bounds the events of a stream.

## Runs

Passing runs (TLC explores every state within the constraints named):

| Run | Instance | What it shows |
|---|---|---|
| `notification_service` | 2 users, 2 calls, window 2, clock to 3, failing queries | duplicates by overlap only, the count includes the row it announces, a follow leads to a notification unless a named cause prevents it |
| `notification_hub` | 1 user, 2 streams, 2 publishers, channels of 1 | `RegistryExact`, `PublishReturns`, `StreamEnds` |
| `notification_system` | 2 users, 1 call and 2 streams or 2 calls and 1 stream, channels of 1, failing counts | an open stream misses nothing, is sent nothing of others, is shown a stale count by overlap only, and what is published reaches it or is dropped |
| `rate_limiter` | 2 addresses, burst 2, sweep every 2, stale after 4, clock to 7 | `AdmissionBound`, `EntriesExpire`, `PacedNeverDenied`, `ImplementsTokenBucket` |
| `session_tracking` | 2 sessions, TTL 2, timeout 1, stale after 3, clock to 5 | `SingleFlight`, `LastActiveLags`, `ReappearsOnlyIfUsed`, `CleanupSparesActive` |
| `insights` | 2 views, 1 address or none, days of 2, lookback 3, clock to 5; a report over a period of 2 with 2 breakdowns and 1 follower | `RepeatViewsOverlapped`, `CountersExact`, `MetricRepeatable`, `ReportConsistent` |
| `users` | 3 users, 3 names, 2 updates of names, 2 of settings, 2 changes of the tables, pages of 1 or 2, integers from -8 to 7 | `LostOnlyByOverlap`, `PrivacyKept`, `ConflictOnlyByRace`, `WalkExact`, `PaginationSane`, `WalkPrivacyKept` |
| `http_server` | 2 connections, 1 goroutine, write timeout 3, heartbeat 6, shutdown 2 (units of 5 s: the code's 15, 30 and 10), 2 events a stream | `StreamsEndByHeartbeat`, `NoGaps`, `PoolOutlivesRequests`, `CutOffOnlyIfLong`, `ShutdownEnds` |

Each also checks its module's type invariant, but for the composed one.

Why these bounds reach the interesting cases. Two calls are what it takes to overlap;
a window of 2 and a clock to 3 let a row be inside the window, at its edge and outside.
A channel of capacity 1 is full after one event, so the code's 16 would add only longer queues; two
streams of one user share a map, and one of them leaving must not strand the other; a
stream that comes after the map was dropped makes a new one while a publisher
still holds the old. The limiter's sweep is due three times, and entries are both
spared and deleted by it. The sessions' clock passes the TTL twice and the stale
time once. The backfill's range begins inside a day, on its boundary and
before the first, as the clock of six moments goes through three days. Two settings, one
on by default and one off, and two updates that may each turn either on or off or leave it
alone, are all it takes to lose an update. A walk of two or three pages has a
statement before and after each of two changes, and an item can be pushed over
a page's edge in either direction. With 7 as the largest integer, 0 and 3 are limits that fit (nothing and more than the maximum), 9 becomes
negative and 16 becomes 0; of the offsets 0 and 1 fit and 15 becomes -1. Two
connections let a stream use up the shutdown's time while the other serves a request; the
server's three periods are the code's own, in units of their greatest common divisor.

Three runs do not begin in their specification's initial states, or not in all of them, to
keep apart what does not meet.

- `MCNotificationSystem` begins where the follows are in the table and the goroutines are about
  to start, with either one call and two streams or two calls and one stream; its action constraint
  `TablesFixed` keeps sign-ups, unfollows and reading out: no step of a stream or of `Notify`
  reads the first two tables, and the properties are about unread notifications.
- `MCInsights` has two sorts of initial states: recording of views with a backfill and no report
  (`RecordingAtWork`), and a report beside views about to be stored, in a process whose backfill is over (`ReportAtWork`).
  Its constraint `Apart` ends a behaviour with its report and asks for it by moment `ReportBy`.
- `MCUsers` has four: the settings alone from the module's own initial states (`SettingsAtWork`), updates of names
  (`NamesAtWork`), a walk beside changes of its list (`ListsAtWork`), and a walk beside one update that
  hides the profile and one that shows it (`PrivacyAtWork`). Its constraint `UsefulWalks` drops walks that differ
  in what does not matter to their sort. Histories of a walk that began
  in mid-table are empty, as the module makes them at its start.

`CHECK_DEADLOCK FALSE` stands in `Users.cfg`, where a behaviour may end with every request answered and the walk over, and in
`HttpServer.cfg` and `StreamKeptAlive.cfg`, where the process ends.

Runs that TLC finds violated; each states what a comment of the repository says:

| Run | Statement | What happens |
|---|---|---|
| `notification_hub_race` | "It is safe for concurrent use" | a publisher ranges over the map while another stream of the user subscribes, a concurrent iteration and write for which the Go runtime may end the process |
| `session_tracking_claim` | "records the active session on every authenticated request" | the map is set before the upsert has run and keeps its entry when the upsert fails, which it does on the first request of a new user |
| `backfill_claim` | "(last 90 days, idempotent)" | the range begins at the present time of day 90 days ago, and that day's counter, right before, is overwritten by a count of the rest of the day |
| `stream_kept_alive` | "Heartbeat ticker to keep the connection alive" | the stream's write deadline passes 15 s after its request was read, so the first heartbeat, after 30 s, cannot be written and ends the stream |

## Fairness

Fairness is assumed of goroutines, never of clients, crashes, failures or time. A
goroutine that can run on does (weak fairness of its steps): the Go scheduler is
preemptive, and the database answers with a result or an error. What waits for the hub's mutex gets it
in the end though it is taken again and again (strong fairness of
`BeginUnsubscribe`, `BeginPublish`): Go's mutex passes to a waiter of more than a millisecond. The loop of
`Stream` selects at random among what is ready, so a cancelled request is noticed even while
events keep coming. Nothing is assumed of a client: in `NotificationHub` a stream may never get through what
it has queued, and `PublishReturns` holds all the same; in `NotificationSystem` a write ends,
if not with success then with the failure the server's `WriteTimeout` brings about.
In `HttpServer` time passes (strong fairness of `Tick`, which has to wait for what is due, again and again), a
timer that is due fires and a handler whose context is cancelled returns; no handler is assumed to be
fast, no client to read and no query to return. `ShutdownEnds` so needs nobody's help, and names the one thing that
may keep the process from ending: `Notify` gives its queries no deadline and the closing pool waits for them.
`RateLimiter`, `SessionTracking`, `InsightsReport` and `UserDirectory`, with the modules in them, have
safety properties only and assume no fairness.

## Proofs

Theorems hold for every value of the constants. What is assumed of them is named in each
module: window, clock bound and the like are natural numbers, a channel holds at least
one event, `burst` is at least 1, an idle visitor has a full bucket when it is stale (main's
limiters fill in 8 and 20 seconds, entries are stale after 10 minutes), an upsert's deadline (5 s) is shorter
than the map's TTL (5 min), views, users, connections and goroutines are finitely many, the largest page is an int32, a report's period is a whole
number of days, profiles are public by default, and the write timeout is at most the heartbeat's period.

| Theorem | Of | Argument |
|---|---|---|
| `TypeCorrect` | every module but `NotificationSystem`, `InsightsReport` and `UserDirectory` | directly inductive (the server's with `EventsInv`) |
| `DuplicatesOnlyByOverlap` | `NotificationService` | `DedupInv`: what a check saw is in the table; between check and insert, the rows of its key that it saw are read or have left the window (`CheckedClear`), and this stays true of the inserted row (`InsertedClear`). Time only moves on, and rows become read, never unread |
| `CountIncludesRow` | `NotificationService` | the row is in the table when it is counted |
| `RegistryIsExact` | `NotificationHub` | `RegistryInv`: one writer at a time; a user's map holds those between the first half of `Subscribe` and the first half of `Unsubscribe`; maps are named after streams of their user, so two users share none. Exactness alone is not inductive: it says nothing while the mutex is held |
| `OnlyOwnAreSent` | `NotificationSystem` | `OwnInv`: a map, whether registered, dropped or in a publisher's hands, is of one user and holds that user's channels only; a publisher's map, its next channel and what waits in a channel are of the event's recipient. `StoredInv`: a call that counts or publishes has its row in the table, what is queued, written or sent came from such a call, and rows are never deleted |
| `NothingIsMissed` | `NotificationSystem` | `Deliveries`, with `OwnInv`, the registry (`InRegistry`) and how far each call is (`Phases`): if the initial count of an open stream left a row out, the row's call had not fetched its map when the stream subscribed, so while it ranges the stream was in its map from the start and still is, and once it has been visited the event is queued, written or dropped. A dropped map is no exception, because a map is dropped only when its streams have left |
| `CountsAreInOrder` | `NotificationSystem` | `Counting`: an event about to be published stands for each unread row of its recipient, by its count or because the row came after it; `BadgeInv`: an event in a channel stands for all that was queued or written before it. Rows are new when they are inserted, so none has been sent by then (`SentCounted`) |
| `SystemIsService`, `SystemIsHub` | `NotificationSystem` | each step is a step of the part or leaves the part's variables alone; a `Publish` looks up the map of a user because an edge is a pair of users (`Types`) |
| `ServicePromisesHold`, `HubPromiseHolds` | `NotificationSystem` | the two theorems before, and the parts' own: those are proved of `SafetySpec`, the parts' specifications without fairness, which is what the composition implements |
| `LimiterImplementsBucket` | `RateLimiter` | each action maps to `Admit`, `Deny`, `Refill` or a stutter; the sweep stutters because what it deletes has been idle long enough to be full |
| `NeverOverAdmits` | `RateLimiter` | what a bucket holds and what it has paid since the mark never exceed a full bucket and the time since |
| `PacedClientsServed` | `RateLimiter` | an entry brought up to date after `Cost` holds a token |
| `EntriesAreSwept` | `RateLimiter` | `SweepInv`: the next sweep is at most a period away, and an entry the last one spared was not stale |
| `OneUpsertAtATime`, `LastActiveIsRecent`, `DeletedSessionsStay`, `CleanupIsSafe` | `SessionTracking` | `TrackingInv`: an upsert under way is younger than its deadline and its key's entry in the map was made when it was launched; rows written by the last launched upsert are at least as recent as the entry that lets requests skip |
| `RepeatsOnlyByOverlap` | `DailyInsights` | `ViewInv`, as for `DuplicatesOnlyByOverlap` |
| `CountersStayExact` | `DailyInsights` | `BackfillInv`: while a backfill runs, views whose increment is to come are of touched days, and on the other whole days of its range it has counted just the settled events |
| `ReportKeepsViews` | `InsightsReport` | each step is one of `DailyInsights` or leaves its variables alone |
| `ReportTypeCorrect` | `InsightsReport` | `Parts`: the types, and which parts of the report are still empty at each statement |
| `MetricsAreRepeatable` | `InsightsReport` | `MetricInv`: an event is stored with the present time, which has reached the end of both periods once the report has begun, so what lies in a period is settled; followers may only leave it |
| `ReportsAreConsistent` | `InsightsReport` | `ChartHolds` and `BreakdownsHold`, with `MetricInv`: the days of the chart cover the period, an exact counter with nothing awaited is the number of the day's events, and the breakdowns' open-ended period includes the metric's |
| `SettingsLostOnlyByOverlap` | `ProfilePrivacy` | `DraftsAgree`: what an update is about to write back agrees with what was last asked for, but for settings others asked for since it read |
| `PrivacyIsKept` | `ProfilePrivacy` | `ViewsExcused`, with the theorem before it: a check that finds the profile public finds what was last asked for, or an overlap |
| `DirectoryKeepsSettings` | `UserDirectory` | each step is one of `ProfilePrivacy` or leaves its variables alone |
| `DirectoryTypeCorrect` | `UserDirectory` | inductive with `WalkIsRecord`: follows need both rows and rows are never deleted; a page is a piece of a list, a list is an enumeration of finitely many rows |
| `PaginationIsSane` | `UserDirectory` | `LimitInv`: a conversion yields an int32, so clamping bounds it from above whatever was sent; what fits is its own conversion (`LimitsType`); from an offset that is not negative a walk only moves up; a page is a piece of a list no longer than the limit |
| `WalksAreExact` | `UserDirectory` | An item has a place: how many items come before it. Where `ORDER BY` leaves nothing open, every list the statement may return has each item at its place (`ListsByPlace`: an injection into a finite set of its own size is onto), so a page holds just the items of its places (`PageByPlace`). Places go up only when items come and down only when items leave, unless items change their order (`ChangeOfPlaces`). `MissedInv`: while nothing leaves or moves, the walk has every item that stays and lies before the place reached, and the answer promises what lies behind it. `AgainInv`: while nothing comes or moves, what the walk has lies before that place. `StuckInv`: while nothing comes or leaves between the two statements of a request, an empty page is one behind the end. All three need `PhaseInv`, on where a request is and what it has, and the last `LimitInv`: a limit that fits is not zero |
| `ConflictsOnlyByRace` | `UserDirectory` | `NamesInv`: a name that an update is about to write and another user has was written since the update's check |
| `WalksKeepPrivacy` | `UserDirectory` | `WalkInv`, with `LostOnlyByOverlap`: the excuse is taken anew at every page's lookup, and the check of the same page finds the profile public only with one |
| `StreamsHaveNoGaps` | `HttpServer` | `EventsInv`: while a stream is not cancelled all its events were in time |
| `NoHeartbeatArrives` | `HttpServer` | `DeadlineFirst`: a stream's deadline is never further away than its heartbeat, since it was set earlier and its period is no longer |
| `PoolIsClosedLast` | `HttpServer` | `OwedInv`: while the server takes requests or waits for them, the connections that owe an answer are those being served (`Served`), and none does once the pool is being closed, which only a finished `Shutdown` leads to |
| `OnlyLongRequestsAreCutOff` | `HttpServer` | `ShutdownInv`: a request read before the signal has no more time left than its write timeout less what the shutdown has used (`RequestsAge`) |

Only model-checked: the liveness properties `FollowLeadsToNotification`, `PublishReturns`, `StreamEnds`,
`PushedOrDropped` and `ShutdownEnds` (temporal reasoning under fairness is out of the prover's reach).
Every invariant and every action property of the passing runs is a theorem.

## What is not modelled

- Reads that change nothing and feed nothing back: `ListSessions`, `GetGeoData`, the other fields of a profile.
- Search: how the query is built and how PostgreSQL ranks; the model has a query that all match alike.
- The sorting, cutting and rounding of a breakdown.
- The database pool's size and the waiting for a connection, which are the pool library's.
- Parts that hold no state of their own: user-agent parsing and GeoIP, the verification of tokens, the contact form (one insert and a
  webhook whose failure is logged), uploads to an object store, configuration, reserved names.
- Generated code, except as the queries the models' actions stand for.
- Of the modelled parts: `repo.Delete` and `repo.DeleteAll` have no caller, and
  the `new_followers` column no writer but the backfill.

## Plan

What remains, in this order:

1. The database pool at its limit: background goroutines without a deadline, requests and streams competing for
   its connections.
2. Insights' breakdown: sorting and percentages against a reference definition.
