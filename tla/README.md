# WatchTower: a TLA+ model of the monitoring service and its client

WatchTower watches HTTP targets for its users. A Node.js backend (Express,
MongoDB, Socket.IO) runs a scheduler that checks every monitor at its interval,
keeps incidents, and notifies owners; a React frontend shows it live. This
directory holds TLA+ modules translated from the source (paths below are
relative to `src/`), TLC configurations that check them, and TLAPS proofs.
`PROJECT.json` lists components, runs, hazards and, for each definition, the
source lines it models.

Reading order: `SchedulerLock` and `LeaderLease`, `Scheduler`, `MonitorCheck`
with `CircuitBreaker` and `IncidentLedger`, `Notifier`, then `DueSelection`,
`Probe`, `Pool` and `Process`; `Account` and `Tenant` for the API; `ClientStore`,
`ClientSocket` and `Client` for the browser.

## 1. Inventory

Component | State | Operations | What makes it correct
--- | --- | --- | ---
Leader lock (`Backend/src/services/lock.service.js`) | one document `{owner, expiresAt}`; `isLeader` in each process | `acquire()` (one upsert), `release()` (one delete), TTL sweep | no two instances lead on a lease in force; a lease is not shortened; a crashed leader is replaced
Scheduler loop (`Backend/src/jobs/scheduler.js`) | `running`, `ticking`, `inFlight`, timer; `nextCheckAt` in each monitor | `start`, `tick`, `findDueMonitors`, `stop` | work only under the lease; no monitor twice in flight; no id leaks from `inFlight`; nobody starves; drain, then release
A check (`scheduler.js` `runCheck`) | counters, status, breaker and schedule in the monitor; log rows | probe, compute update, write, log, transition | transitions at the thresholds only; owners' edits survive
Circuit breaker (`services/circuitBreaker.js`) | four monitor fields | `evaluateBreaker`, `onCheckSuccess`, `onCheckFailure`, `cooldownFor` | never open on a healthy target; retried within the cap
Incidents (`services/incident.service.js`, `models/incidents.model.js`) | incident documents, partial unique index | `openIncident`, `closeIncident` | one ongoing per monitor; each transition announced once at most
Probe engine (`services/monitor.service.js`) | one attempt's request chain, listeners, deadline; the retry ladder | `probeOnce`, `finish`, `fail`, `checkMonitor` | one verdict per attempt; every check ends
Worker pool (`utils/pool.js`) | cursor, results, workers | `runPool` | every task once, failures isolated, bounded width
Process lifecycle (`Backend/server.js`, `config/database.js`) | server, connections, scheduler, failsafe timer | boot with retries, SIGTERM/SIGINT, `server.close`, `stop`, exit | a signal ends the process; a clean end leaves the lease
Readiness (`controllers/health.controller.js`) | the scheduler's heartbeat | `/health/ready` | says stale when and only when a tick hangs
Notifications (`Backend/src/notifications/`, `services/sendEmail.js`) | registry, channels, opt-out, audit rows | `dispatch` to e-mail and webhook | one channel's failure does not silence another; each attempt is recorded
Management API (`controllers/monitor`, `channel`, `statusPage`) | documents per owner | create, list, update, delete, test | limits and unique slugs under concurrent requests
Accounts (`controllers/user`, `googleAuth`, `middlewares/auth`) | user documents, cookies, mailed links | register, verify, login, logout, forgot, reset, change, profile, Google | one account each; no lost update; a spent link is taken up by nobody
Tenant scoping (`dao/`) | none | scopes and merged filters | no document of another owner is reached
Uptime, metrics, logs | log rows | aggregation over windows | percentages in range, and equal to what the rows say
Credentials (`utils/crypto.js`) | envelopes | seal, open | opened by the key that sealed them and by nothing else
Realtime (`sockets/`, `Frontend/src/lib/socket/`) | rooms; connection state | handshake, push, disconnect, resync | the client's picture converges after a gap; the room is the user's
Assistant (`services/ai.services.js`, `sockets/chat.socket.js`, `useChat.js`) | streams, bubbles | ask, stream, fall back | each bubble is made of its own answer
Frontend store and hooks (`app.store.js`, `useMonitor.js`, `useAuth.js`, slices) | caches, session, requests under way | fetch, change, sign in, logout | what is shown settles on what is stored; nothing of one user is shown to the next
Frontend pages | the state of the page shown | load, toggle, add, edit, delete, select, poll | late answers and roll-backs falsify nothing
Middleware, configuration, rendering | little | | (see section 8)

How they interact: on every instance the loop calls `lock.acquire()`; the one
that holds the lease queries MongoDB for due monitors, asks the breaker, and hands
the checks to `runPool`. A check calls the probe engine, awaits it, and then
makes up to three separate writes: the monitor (`updateOne`), the log row
(`create`), the incident (`openIncident`/`closeIncident`), which in turn calls
the notifier registry. Owners change the same monitor document through the API
at any time. Instances share nothing but MongoDB, and not even a clock. The
handlers of the API read, decide and write in separate calls, several of one
user at once. The browser keeps a store, page-local lists and one socket;
answers come back in any order, and what is pushed while the socket is down is lost.

The hard parts: calls are cut at every `await`; the document read before the
probe decides after it; the lease is renewed only between pools; processes die
between two writes; two leaders overlap in a failover; the deadline races the
listeners of several hops; clocks differ between instances and jump; requests of
one user overlap; a socket and a store outlive the session they belong to.
`PROJECT.json` has each of these as a hazard, at its line, with the properties
that answer it or the reason none does yet.

## 2. Modules

Module | Models | Composition
--- | --- | ---
`LeaderLease` | abstract: a lease free or in force for one instance, that never passes on without lapsing | refined by `SchedulerLock`
`SchedulerLock` | the lock: calls split where they await the database | extended by `Scheduler`
`Scheduler` | the tick loop, pool, overlap guard and `stop()` of every instance | each step is a step of `SchedulerLock` or leaves its variables alone
`CircuitBreaker` | the four functions, as operators on records | used by `MonitorCheck`
`IncidentLedger` | abstract: one ongoing incident, each notice once at most | refined by `MonitorCheck`
`MonitorCheck` | `runCheck()` with the incident service, the owner's edits and deletion, crashes and failed calls | 1 or 2 runners
`DueSelection` | who is checked when: filter, sort, batch limit, breakers, pauses, clock jumps | one leader
`Probe` | `checkMonitor()` over `probeOnce()`: hops, listeners, deadline, ladder | one check
`Pool` | `runPool()` | extended by `Process`
`Process` | one process from boot to exit: database, listening, connections, ticks with their pool, lease, readiness, signals, failsafe | extends `Pool`; the lease as one instance sees it
`Notifier` | `dispatch()`: loading, sending, settling, audit | extends `MonitorCheck` and refines it: a dispatch is its single announcing step
`Account` | the user, session and Google handlers, cut at their database calls | browsers against one table of users
`Tenant` | scoped DAO, monitors, channels, status pages, records | tabs of several owners against one table of documents
`Uptime`, `Credentials`, `Overview` | pure operators: windows and percentages; envelopes; figures, paging and verdicts of pages | checked by assumptions of `MC_Tenant` and `MC_Client` over bounded inputs
`ClientStore` | requests under way, the server's documents, the store, the session | extended by `ClientSocket`
`ClientSocket` | the socket, its rooms, the navbar's hook and bell, the assistant | extended by `Client`
`Client` | App, router, sign-in, layout, pages | the whole tab
`MC_*` | constants for TLC | one per specification
`Scheduler_proofs` | theorems of the lock, the lease and the scheduler |
`MonitorCheck_proofs` | theorems of the check, the ledger and the notifier |
`Process_proofs` | theorems of the pool and the process |
`DueSelection_proofs`, `Probe_proofs`, `Account_proofs`, `Tenant_proofs`, `Client_proofs` | theorems of the module they are named after |

Correspondence worth knowing when reading them:

* **SchedulerLock.** `SendAcquire` reads the local clock and sends the upsert,
  `ApplyAcquire` is its atomic effect in the database, `FinishAcquire` is the
  assignment of `isLeader` when the answer arrives. So a request may be applied
  late, after its process died, or beside the `release()` of the same process.
  `FailAcquire` covers both a call that never reached the database and an answer
  that was lost. It assumes of MongoDB that a call which failed before it was applied
  is not applied later, after further calls of the same process; without that, an old
  upsert could shorten a lease its process has renewed since. A restarted process has a fresh `INSTANCE_ID` and is another
  element of `Node`. `leaseUntil` is a history variable: the expiry of the last
  lease the process saw granted.
* **Scheduler.** `phase` is the await a tick is at. `stop` is set by `stop()`
  and read where the code reads `running` - that is, only between ticks. The
  breaker's verdict in `LaunchPool` and the pausing of monitors in `FindDue`
  are any subset (`MonitorCheck` and `DueSelection` have the detail).
* **MonitorCheck.** A runner's `stage` is the await its check is at; `snap` is
  the document as read, `patch` the `$set` being built. Times are relative to the
  present (`nextIn`, `retryIn`), so the model runs for ever in finitely many
  states. `streak` counts outcomes independently of the stored counters, to
  check these against it. `Abandon` is a crash or a failed database call at any
  stage. `Update` is the object literal with its spreads in the code's order.
* **DueSelection.** A document is `nextIn`, `lastIn`, `retryIn` relative to the
  wall clock; a jump shifts all three. `waited` is real time.
* **Probe.** `hops[h]` is the connection of hop h. Any of its listeners, or the
  deadline, may call `Finish`. What the program does by itself takes no time.
* **Pool.** Between two awaits a worker is atomic, so settling a task, storing its
  result and taking the next index are one step.

* **Notifier.** `BeginDispatch` is the opt-out, `LoadChannels` the query of one
  notifier, `Mail` and `Post` one send each (all of them at once), `Reject` an
  exception before the sends, `Settle` the `Promise.allSettled`, `EndDispatch`
  the insert of the audit rows and the return to the check. `attempts` is a history
  of what was really sent; `lost` of notices a crash or a failed insert cut short.
  Mail goes to a set of addresses; hooks are posted to once for each channel document,
  the same target twice included (`copy` tells two documents of one target apart).
* **Account.** A browser's request is at the database call its handler awaits.
  A mongoose `save()` writes the fields the handler assigned (`Overlay`), by
  `_id`; `written` is a history of those assignments. A JWT is never looked up,
  so `cookie` is the session. Passwords are compared for equality. The verification
  is asked with a code and without one; the code can never be right, for no document
  has one (section 7). `AllocateUsername` finds a free name, which another request may
  take before `Create`; the index then refuses it.
* **Tenant.** All collections are one table. `ComputeScope` is the query that finds
  the owned monitors, `Records` the later use of it, for the lists of incidents and
  logs and for the records of one monitor. `Edit` sets one field of a monitor or channel,
  `UpdatePage` those that were `sent`. `TestChannel` finds the channel and `LogTest`
  writes the row once the attempt to send is over. `slugify` works on sequences
  of letters and separators, because cutting and trimming matter.
* **Process.** Time passes in units; a timer that is due fires first. `lease` is the
  lock document seen from this process (ours, another's, free), `strayed` a history
  of failed calls of the lock and of an `acquire()` that outlived `release()`.
* **Client.** A document is an item, absent or with one switch. A request is
  handled by the server at one time (`Serve`) and answered at a later one
  (`Settle`), or lost. `view` is the state of the page's component and is dropped
  with it. `messy` is a history: items whose requests overlapped or failed.
  `Screen` is what the page shows: something, "nothing yet", an error, a spinner. A page
  that waits for two lists with `Promise.allSettled` is one request here: the second
  answer only delays when the first is taken up. `AuthLoading` is the flag of the auth
  slice that the login's forms share with every request for the session. Of the two
  panels of the dashboard `UptimeWindows` is followed; the other asks in the same way, but
  is rendered without a monitor too (section 7).

Definitions named `X_something` next to a definition `X` are faulty variants of
it, used to confirm that each property would notice that bug.

## 3. Runs

Run | Instance | What it shows
--- | --- | ---
`lock` | 2 instances, clocks one unit apart, lease 2, time 0..5, one failed call | `LockInv`, `OneSecureLeader`, refinement of the lease, `Failover`
`scheduler` | 2 instances, 2 monitors, pool width 1, one failed call, one failed check or query | the overlap guard equals the pool's content at every step (`NothingLeaks`); work overlaps only past a lease
`process` | 3 checks on 2 workers, 2 connection attempts, 1 open connection, 1 outage, another instance | every task once (`PoolInv`); readiness is truthful; a signal ends the process; a clean exit leaves the lease
`check` | 1 runner, 3 configurations, 3 flips of the target, 2 edits, 1 fault | counters, breaker, edits, incidents; outages and recoveries are reported
`check_lost` | 1 runner, 1 fault | violated: `OutageSurvivesFailure`
`notifier` | 2 runners, an e-mail channel with the account's address, two webhooks of one target, one disturbance each of the check and of the dispatch | attempts are audited, the account is tried, the dispatch implements the announcing step, incidents refine the ledger under a double leader
`due` | 3 monitors, batch of 1 | no starvation in a full batch, as a bound and as liveness, over one jump of the clock
`due_jump` | 2 monitors, batch of 2, two jumps of 14 units | no catch-up checks; the bound on the wait over jumps longer than any wait
`probe` | 4 attempts, 2 redirects | who may say UP, what is left open, that it ends
`account` | 2 browsers, 4 requests, 2 reset tokens, 1 fault | unique accounts, no lost updates, spent links are taken up by nobody (`SpentLinksAreNotTakenUp`)
`tenant` | 3 tabs of 2 owners, 3 requests, 3 addresses, limit of 1 page | separation of owners, addresses, the limit; `UptimeChecked`, `CredentialsChecked`
`client` | 1 tab, 2 accounts, 7 arrivals, 2 gestures, 1 failure or lost connection | the seven promises of section 4; `OverviewChecked`

Further properties are stated in the modules and hold of the same instances: the
backend modules' type invariants, `ExpiryNeverShrinks`, `ReleaseAfterDrain`, `PoolIsSound`,
`Complete`, `RetryIsBounded`, `SettledWhenQuiet`, `CheckIsBounded`, `DecidedOnce`,
`AnswerIsFinal`, `NobodyMailedTwice`, `DeadLinksStayDead`. They can be checked by naming them in a cfg; most
are theorems of section 5, and the runs are kept to the questions above.
`StoppedTakesNoWork`, `FailedProbeReopens`, `NeverRejects`, `LinkWorksOnce` and
`PublicPagesAreReachable` state what the documentation says and do *not* hold
(section 6).

### Bounds, and why they are enough

* `lock`: the protocol's cases need a lease to be granted, to expire, to be taken
  over and to be renewed late, and a skew that makes the two instances disagree
  about expiry. Five units of time are two leases and a half.
  `QuietAfter = 2` stops crashes and failures in time for `Failover`
  to have something to show. The clock's end is not a hiding place for the
  safety properties: they are proved for every bound (section 5).
* `scheduler`: one unit of time and a lease of one unit suffice for a pool to
  outlast its lease, for the other instance to take over, and for both to work.
  Two monitors fill the pool's width and leave a queue. The instances have equal
  clocks and are interchangeable, as are the monitors: the run uses symmetry, and
  checks no liveness. Skew, longer leases and more instances are covered by the
  proofs.
* `check`: thresholds 2 and 2 (or 1 and 1 after an edit) and a breaker threshold
  of 3 with cooldowns 1, 2, 4 (capped) separate the opening of the incident from
  the opening of the breaker, and reach the cap. Counters saturate at 3
  (`CounterCap`): they are only compared with smaller thresholds. Three flips
  are an outage, a recovery and a second outage. One fault is enough to reach every
  half-finished check.
* `due`: `MaxLag` only cuts off how far in the past instants are told apart. It lies
  beyond `MaxWait` (`LagAssumption`) and beyond what all jumps together can bring
  back, so an instant cut off never returns to the future. With a batch of one and
  three monitors the batch is always full; the jump of 3 units is shorter than a
  regular wait and delays by as much. `due_jump` has room in its batch, because
  without room the bound does not hold after a backward jump (section 7); its jumps
  are longer than any wait, so that `lastChecked` lies in the future and gives them away.
* `probe`: three retries reach the cap of the backoff; two redirects make a chain
  with a middle.
* `process`: three tasks on two workers make a worker come back for a task and one
  for none. One connection is enough to hold `server.close()` open past the
  failsafe; the failsafe (3) is longer than the grace period (2), as in the code.
* `notifier`: the exploration is cut (`UntilRecovered`) when the recovery has been
  announced; the checks after it are `check`'s subject. The e-mail channel has the
  account's own address, so that the set of recipients matters; two webhooks have one
  target, so that the audit must hold two rows that look alike. Those two are
  interchangeable, as are the runners.
* `account`: three requests are a reader, an overtaking writer and a third that
  looks at the result; the fourth lets two sign-ins race after a registration, or two
  resets of one link overlap, or follow each other, after its mail. Two applications share a user name; two
  identities share a `sub`, and the one variant of their name is the name those
  applications want, so that it is lost to them in a race, or is taken already and the
  time-stamped one is used.
* `tenant`: two tabs of one owner race with each other, the third is the stranger.
  Three requests are two that race and one that looks. The letter `n` alone is a
  reserved slug; slugs are two letters long, so that a cut falls behind a dash. There
  are three addresses, one more than the two pages the owner with two tabs may come to,
  so that it is the limit and not the addresses that stops the third. Two urls let an
  edit make two monitors alike. An update of a page sends one or two of its fields.
* `client`: two gestures after loading, begun with at most one request under way,
  give a selection and a change of it, a switch and its undoing, or a logout and
  the next account, each against loads and answers in any order. The arrivals start
  at the dashboard, the channels, the settings, the status pages, the monitors of an
  account that has none yet, and the login. One failure is enough
  for a revert, a lost answer or a gap in the connection.

### Fairness, and why the code justifies it

* Time passes.
* A process that is up keeps ticking: the loop re-arms its timer after each tick,
  thrown errors included (`jobs/scheduler.js:105-117`). Hence
  weak fairness of `SendAcquire` and of the steps of a check.
* The database applies requests and answers them, or the call fails: weak
  fairness of `ApplyAcquire`, `FinishAcquire`, `ApplyRelease` and the stages of a
  check. Without it nothing could be said of any program over a database. The code
  sets no deadline on those calls; a call that never settles stops the loop for
  good (listed as a hazard).
* Timers fire: the probe's deadline and its sleeps. *No* fairness is assumed of
  the target or the network; a body may trickle for ever.
* In `Process`: the loop is re-armed, timers fire and time passes
  (`WF` of `StartTick`, `FailsafeFires`, `PassTime`). Nothing is assumed of
  connections, calls of the database or checks, which may hang for ever; that the
  process ends all the same is the failsafe's doing (`server.js:38-44`).
* `notifier`, `account`, `tenant` and `client` are checked for safety only. A tab
  can promise nothing of what the network does, and what an answer is followed by
  is stated of the states in which none is awaited.
* Nothing is assumed of owners, crashes, failures, sweeps or jumps.

`OutageIsReported` and `RecoveryIsReported` are conditional on no call failing
and no process dying; `check_lost` shows that the condition is needed.

## 4. Properties that carry the most weight

* `OneSecureLeader`: `isLeader` alone does not exclude two leaders; it outlives
  the lease until the process asks again. What the code does provide is
  exclusion among leaders whose lease has more than the clock skew left and who
  have not begun to shut down.
* `OverlapNeedsLapse`: the same for the work itself, through the composition.
* `LedgerSpec`: with any number of leaders at once, crashes and edits, no second
  incident is opened and nothing is announced twice.
* `EditsSurvive`: a check that read the document long ago does not write the
  configuration back.
* `TransitionOnStreak`: an incident opens and closes only after a real streak of
  recorded outcomes, over crashes and edits of the thresholds.
* `AttemptsAreAudited`: what the audit collection says is exactly what was sent, by
  two leaders with a notifier that throws and channels that change under way; the
  exceptions are notices a crash or a failed insert cut short.
* `CheckSpec`: whatever the fan-out does, the check around it goes on as
  `MonitorCheck` describes, so nothing in a notifier changes a transition.
* `NothingOverwritten`: no handler of an account undoes another's write, although
  each saves a document it read some awaits ago. It rests on mongoose's saving only
  the assigned fields; the faulty variant that saves whole documents breaks it.
* `TenantsAreSeparate`, `NobodyElsesIsTouched`: over every interleaving of
  creations, deletions and scope look-ups of two owners.
* `LimitIsNearlyKept`: the limit is not kept, since it is counted first; it is passed by
  no more than the tabs that were asking.
* `HeartbeatIsTrue`, `CleanExitFreesLease`, `ShutdownEnds`: an instance that hangs
  is taken out of rotation, and a follower that waits is not.
* `ListsSettle`: optimistic switches, their roll-backs, removals and reloads, of
  several items at once, never falsify what is shown of an item whose own requests
  did not overlap. It is about the functional updates of the lists; saving the list
  as it was before the click breaks it. `NoStrangers`, `RoomIsOwn`: the store and the
  socket belong to the signed-in user. `GapsAreRefetched`: after a reconnection
  the list is complete. `ShownIsSelected`, `NothingMeansNothing`: late answers.
  `RepliesAreWhole`: answers streamed at once, cut and begun again.
* `WaitIsBounded`: monitors held back by an open breaker keep their `nextCheckAt`
  and so their place at the head of the batch; the wait of the others is
  bounded all the same.
* `UpIsAnswered`, `OnlyDrainsOutlive`: the listeners of all hops stay attached, and
  still only the last hop may say UP, and nothing but drains is left open.

## 5. Proofs

Every theorem is for all values of the constants that satisfy the named assumptions of
the modules: any number of instances, monitors, runners, browsers, tabs, items and
requests, any lengths of time. Besides the types of the bounds the assumptions say:

* the monitors of `Scheduler` and `DueSelection` are finitely many, and so are the tabs
  of `Tenant`: a query returns a finite list, and a user has finitely many windows;
* a skew has an upper bound (`LockAssumption`), which no part of the code checks: it is
  what `OneSecureLeader` is relative to;
* the bound below which instants of the past are told apart lies beyond all jumps and
  beyond `MaxWait` (`SelectionAssumption`, `LagAssumption`): it is a bound of the model,
  not of the code;
* an answer of the assistant has at least one piece (`PiecesAssumption`); an empty
  answer has no pieces to be told apart;
* the items of the client are not the words the screen shows, and placeholders (`None`,
  `NoOwner`) are not members of the sets they stand beside; in the client `None` is no
  user document either (`UserDocs`, what `getUserProfile` answers). `2^k \in Nat` is
  arithmetic the prover does not know.

By module, with the inductive invariant and why the property alone was not inductive:

* `Scheduler_proofs`, lock. `LockInvariant`: `LockInv` is inductive. For
  `OneSecureLeader` one has to know that a secure leader's lease is in the document
  (`LeaseBacked`), which depends on granted leases whose answer is still under way
  (`AnswerBacked`) and on each instance's calls being made in the order of its clock
  (`CallsInOrder`, so that a renewal never shortens what was granted). The lemma
  `AcquireOutcome` is the heart: nobody but its holder can take a document with more
  than `MaxSkew` left. `SecureLeaderUnique`, `ExpiryMonotone` and `LockImplementsLease`
  (the refinement of `LeaderLease`) follow.
* `Scheduler_proofs`, loop. `SchedulersUseTheLock`: every step of the composed system is
  a lock step or a stutter, so all of the above holds of it. `OverlapOnlyAfterLapse`
  needs `LeadInv`, which ties the phases of a tick to `isLeader`; `GuardNeverLeaks`
  needs `WorkInv`, which ties the overlap guard to the queue and to what runs, in each
  phase, the tasks of a pool being distinct. `ReleaseIsLast` is about single steps.
* `DueSelection_proofs`. `NoCatchUp` needs `OnSchedule`: between two checks `nextIn` and
  the time waited make up an interval, unless something upset the monitor.
  `NobodyWaitsLonger` is the bound on waiting for any number of monitors, any batch limit
  and any jumps, by `WaitInv`. Without jumps: a monitor that has waited an interval, a
  pool and a cooldown is due and allowed (`OnTime`), and so is everything before it in
  the order; then each tick takes it, or a batch full of monitors that were ahead of it
  (`Ahead`), and those come back behind it, but for the ones an upset puts there.
  `InTurn` weighs who is left ahead against the time the monitor has waited. After
  jumps, with room in the batch: `Scheduled` and `Delayed` bound how far jumps move a
  schedule, and `Phased` says that jumps longer than any wait leave `lastChecked` where
  it was but for whole jumps, so that the filter launches the monitor at the same time as
  without them.
* `MonitorCheck_proofs`, check. `AnnounceInvariant`: each announcement still to be made
  belongs to one runner, one incident and one transition; from it
  `IncidentsObeyTheLedger`, the refinement of `IncidentLedger` for any number of
  runners. `EditsAreKept`: no patch under way has a field the owner sets.
  `BreakerOpensOnFailure` and `TransitionsFollowStreaks` are about one runner
  (`OneRunner`): with two leaders counters do go wrong, which is what the lease is for.
  `BreakerInv` follows a patch from the read to the write, `StreakInv` ties the stored
  counters and the decision of the check to what was really observed.
* `MonitorCheck_proofs`, notifier. `DispatchIsPartOfTheCheck`: `dispatch()`, opened up
  into its awaits, implements the announcing step, so `NoticesObeyTheLedger` holds with
  the fan-out inside. `AuditInv`: what was attempted of a notice is the rows it has
  collected so far, and those of others are disjoint, because no two runners
  tell of the same transition (`AnnounceInvariant` again).
* `Process_proofs`. `PoolInvariant` and `PoolComplete`, for any number of tasks and any
  limit, zero and negative ones included; `PoolOfEveryTick` has them for the pools a
  process launches and drops. `BeatInv` counts the heartbeat's age against the loop's
  timer, `LeaseInv` says in which states the lease can be ours.
* `Probe_proofs`. `ChainOK`: hops before the last are draining or closed; `LadderOK` and
  `TimeOK` budget attempts and sleeps. `ChecksAreBounded`, `AttemptsAreDecidedOnce`,
  `DurableAnswersAreFinal` and the run's two invariants follow.
* `Account_proofs`. `AccountInv`: what each handler under way is about to save has only
  its own fields (`Patched`), for a document that exists; a link to be stored is known
  to nobody (`PendingOK`). `LinksAreTakenUpInTime` needs `DeadLinksStayDead`, which is
  inductive with it: what a look-up finds is not spent, so whoever holds a spent link
  held it before.
* `Tenant_proofs`. `TenantInv`: what a handler checked before an await still holds at
  the call, since nothing changes hands and no id returns. `LimitInv` counts a creation
  past its check as a page.
* `Client_proofs`. Nine invariants, each by induction over all steps of the tab.
  `RoomInv`: there is a socket only with the layout, and the layout only with the
  session. `ReplyInv`: what is shown of an answer is a contiguous part of what the server
  said of it. `PanelInv`: requests of the panels are for the selected monitor.
  `StrangerInv`: requests, and the lists they bring, are of the session, or what they
  touch is disturbed; any two that touch the same item are apart or disturbed. `NetInv`:
  tags are distinct, because a finite set of requests always leaves tags free
  (`FreeTagIsFree`, from the least-number principle). `GapInv`: incidents owed since a
  reconnection are listed, or a later list that has them is under way. `DocInv`: a
  session has the document of a user, and answers for the session come straight from the
  server. `FlagInv`: what `fresh`, `loaded` and `loading` say of a list; a list that is
  not loading and not on its way has arrived, or failed, or was overtaken. `ListInv` is
  the heart of `ListsShowTheServer` and `NothingIsSaidOfNothing`: an item that nothing
  disturbed is touched by one request at most (`Alone`, from `StrangerInv`), and what
  that request will say is what the server has; when it touches none, or one that the
  server has not handled, the list shows the server's value. An optimistic switch is
  the exception: its list is ahead of the server, and what it was at the click is in
  the request (`Tells`), which is what a roll-back puts back. Why the properties alone
  are not inductive: they speak of lists at rest, and a list comes to rest by an answer.

Only model-checked: liveness (`Failover`, `OutageIsReported`, `RecoveryIsReported`,
`NobodyForgotten`, `CheckEnds`, `ShutdownEnds`), which the prover does not do under
fairness, and the pure operators of `Uptime`, `Credentials` and `Overview`, over bounded
inputs. Every invariant and every action property of the passing runs is a theorem.

## 6. Where the code and its documentation disagree

One disagreement has a run of its own, which ends in a counterexample:

* **A failed transition is not retried** (`check_lost`). Status DOWN is written
  before `openIncident()`; after a failure in between, `shouldOpen` needs status
  UP and never holds again for this outage. Compare the comment at
  `jobs/scheduler.js:391-392`.

Five more are stated as properties that do not hold; naming one in the cfg of its
module gives the counterexample:

* **A stopped scheduler can still launch a batch** (`StoppedTakesNoWork`, module
  `Scheduler`). `tick()` does not look at `running` after `acquire()` or
  `findDueMonitors()` (`Backend/src/jobs/scheduler.js:159-205`), so a tick that
  `stop()` met there puts its batch in flight afterwards, and after the lease was
  released. Compare `docs/SCHEDULER.md:122`.
* **The first failed probe does not reopen the breaker** (`FailedProbeReopens`,
  `MonitorCheck`): `onCheckFailure()` is given the document as read, whose breaker
  is still OPEN, and returns nothing; HALF_OPEN, with no cooldown, is what is
  written. The next failure reopens it. Compare `services/circuitBreaker.js:90`.
* **A check can reject or throw** (`NeverRejects`, `Probe`):
  `new URL(location, ...)` throws inside the response listener, and a header that
  node refuses throws inside the promise's executor. Compare
  `services/monitor.service.js:73`.
* **A reset link can work twice** (`LinkWorksOnce`, `Account`): two requests find the
  token before either consumes it. Compare `controllers/user.controller.js:332`.
* **A page can be unreachable at its address** (`PublicPagesAreReachable`,
  `Tenant`): a slug cut to its length behind a dash is stored with the dash, which the
  look-up trims. Compare `models/statusPage.model.js:6`.

## 7. Smaller divergences met while modelling, without a run

* `isLeader` outlives its lease (`lock.service.js:74`) although the header
  promises one active leader (`lock.service.js:10`); likewise
  `docs/SCHEDULER.md:27` and `docs/adr/0004-mongodb-ttl-distributed-lock.md:93-94`
  (a stale leader works off its whole batch, which may take more than one TTL).
* A late `acquire()` may be applied after the delete of `release()`
  (`lock.service.js:93-102`): the lease then belongs to an instance that is gone,
  until its TTL.
* Status and incident are separate writes, so they can disagree after a failure,
  unlike `models/monitor.model.js:53-56` says; so are the monitor and its log row
  (`jobs/scheduler.js:330`, `332`; `docs/SCHEDULER.md:104`).
* The first opening of a breaker waits `cooldownFor(0)` and records one open, so the
  second waits four times as long (`circuitBreaker.js:122`), not twice
  (`docs/SCHEDULER.md:159-160`).
* After a backward jump of the clock, a monitor that became due through
  `lastChecked > now` sorts last by `nextCheckAt`, and an open breaker's
  `breakerRetryAt` has moved away: with a full batch, or an open breaker, it
  waits until the clock has caught up (`docs/SCHEDULER.md:219-221`).
* An error of a hop that was already followed settles the attempt while the next hop
  is answering (`monitor.service.js:268-275`); the draining response of an
  earlier hop survives `finish()` (`:129`, `:141`).
* No deadline covers the ladder of attempts (`monitor.service.js:344`,
  `docs/SCHEDULER.md:146`): `CheckIsBounded` gives the sum, which can exceed the
  interval.

On the server, outside the scheduler:

* The failsafe may exit with the lease held, because `server.close()` waits for open
  websockets before `scheduler.stop()` is called (`server.js:47`). A first tick that
  hangs leaves the readiness at "starting", which counts as ready
  (`health.controller.js:78-81`).
* Credentials that do not open are dropped, and the check is sent without them: a
  target that wants them is then reported DOWN.
* The test of a channel answers that webhook delivery "is not configured", although
  incidents are delivered to it.
* A deleted monitor disappears from its pages without a word; a page whose monitors
  are all paused is OPERATIONAL; the records of a deleted monitor are kept and reached
  by nobody. Duplicate monitors and channels are possible by a race.
* A verification without a code passes. No document has a code, for nothing calls
  `generateOTP()`, and no route validates the body (`routes/user.routes.js:52`), so
  `undefined !== undefined` is false (`controllers/user.controller.js:176`) and within
  twenty minutes an account is verified by its id alone. A request with a code is always
  refused. The comment at `:57-59` speaks of an OTP flow where `AUTO_VERIFY_USERS` is
  false.
* An unverified account may be told "You can now sign in" after a reset. With
  `AUTO_VERIFY_USERS`, a first save that fails leaves an account that is neither
  verified nor able to register again.
* When the assistant's stream fails, the fallback's whole text follows the partial
  one already shown (`ai.services.js:129-134`, `chat.socket.js:27-32`).

In the browser:

* A fetch under way at logout fills the wiped store; a late second profile answer signs
  in again; the answer of a preference dispatches `setUser()` after logout. A logout
  whose request fails leaves the cookie. Hence the exceptions in `NoStrangers`.
* A logout in mid-handshake finds `socket.connected` false and disconnects nothing: the
  socket ends in the former user's room (`socket.js:57-59`). Messages kept by the
  library before a logout are sent as the next user.
* Once the list of monitors has become empty, the dashboard still renders
  `ResponseTimeHistory`, without a monitor (`Dashboard.jsx:584`): the series of the
  removed one stays, or its spinner does. `ShownIsSelected` is about the other panel.
* An `offline` event shows "reconnecting" though the socket is connected, and stays;
  the retry button then makes it "connecting", which stays as well
  (`useRealtime.js:140-143`); a
  navbar mounted on a connected socket stays "connecting"; the first connection
  gets no refetch (`useRealtime.js:20`); no page listens to pushed events.
* In Incidents and IncidentDetail the older of two answers may win. Settings rolls all
  preferences back when one fails. A deleted monitor may reappear from an
  overlapping fetch. A failed quiet poll replaces a public page by an error.
* All requests of the monitor store share one `loading` flag (`useMonitor.js:32`, `:45`):
  the first that ends shows "nothing yet" (`EmptyState.jsx:6`) though the list is still
  being fetched. Hence the exception in `NothingMeansNothing`.
* A failed load is shown as "nothing yet" or as "Everything is healthy"; without any
  monitor the dashboard shows 100% uptime; the registry stays on a page beyond the
  end after removals; Monitoring's refresh does nothing while the cache is fresh;
  AddMonitoring closes on failure.
* The typing indicator belongs to no message, and stays after a disconnection.

## 8. Not modelled, and why

* Realtime pushes, statistics and log lines of the scheduler: no state depends on
  them. Timings of a probe, TLS options, the credentials sent to each origin: data.
* Templates, layout, charts, styling: rendering. `config/`: read once at boot.
* AES-GCM (`utils/crypto.js`): arithmetic on bytes; `Credentials` takes the cipher as
  opening what it sealed.
* helmet, cors, rate limiting, validation of formats: configuration of libraries.
* Latency series, paging and sorting of logs and incidents; prompts, tools and summaries
  of the assistant: data.
* Registration, verification and reset forms: each is one request of `Account`.
* `useLogs`, `useStatus`, `useIncident` and `useDashboardInit`: called by no page.

## 9. Plan

Done, in this order: lock and lease; composed scheduler; check with breaker and
incidents; due selection; probe; pool; their proofs; notifications; accounts;
tenants and status pages; the process; the client;
then the proofs of all of them, the bound on waiting last. It was the proof that showed
`RegularWait` to be too small in general, by the time a check itself takes: the interval
runs from the end of a check, the wait from its beginning.

What is left is what no module has: section 8.

## 10. Running it

    tlc -workers 2 -config MC_SchedulerLock.cfg MC_SchedulerLock
    tlapm Scheduler_proofs.tla

Each run of `PROJECT.json` names its module and configuration; the longest take
one to three minutes, and the proofs of `Client_proofs` ten. The cfgs of the lock, the
scheduler, the probe, the process, the accounts, the tenants and the client set
`CHECK_DEADLOCK FALSE` because these do stop: the clock or the number of requests is
bounded, every instance may be down, a probe and a process end. The others check
deadlock.
