# Task Per Minute: TLA+ models, checks and proofs

Task Per Minute runs CTF tournaments: Swiss rounds and play-offs of short games
between two players, drafted, started, paused, played and settled under
deadlines.  The backend (`src/backend`, Go) keeps everything durable in
PostgreSQL and runs as one or more processes; each process holds timers,
WebSocket connections and a cached *execution lease* in memory.  This directory
holds TLA+ modules of the parts of the backend where time, several processes
and failures meet, the TLC configurations that check them on small instances,
and TLAPS proofs of what matters most.

Paths below are relative to `src/backend/internal/` unless they start with `src/`.

## 1. Inventory

### How a change happens

Every durable change is one PostgreSQL transaction (read committed) that locks
the row of the tournament first and compares the revisions it was planned from
with the current ones; a mismatch is `ErrConflict`, and nothing is written.  A
nested `TxManager.Do` joins the outer transaction.  What is *not* inside that
transaction is what makes the system hard: identities and times read before it,
goroutines waited for inside it, replies lost after it, and memory of processes
that outlives the row it was read from.

### Components

The last column names the module that has the component; "-" means that it is
not modelled, for the reason in section 7.

| Component | State | Operations | What makes it correct | Module |
|---|---|---|---|---|
| Execution authority (`usecase/authority`, `domain/authority`, `adapter/outbound/postgres/execution/authority`) | append-only lineage `execution_authority_leases`; cached lease per process | `AuthorityFor`, `Claim`, `CommitAuthority`, consumer fences | one owner at a time; an identity that lost its epoch never writes again; a call always returns | `Authority` |
| Game execution (`usecase/game/{start,pause,reconnect,submission,settlement,replay}`) | wave, game attempts, pause clocks, reconnect receipts, epoch bindings | start, operator pause and resume, disconnect, reconnect, interval end, flag, timeout | no player loses playing time; a settled game stays settled; nobody waits for nobody | `GameExecution` |
| Execution recovery (`usecase/game/recovery`) | none of its own; a scan reads in one transaction and writes in later ones | startup gate, periodic scan, `RearmDeadline`, epoch replay | orphaned games are ended; a game of the current owner is never given up; a restart succeeds | `GameExecution`, `Deadlines` |
| Deadline scheduler (`usecase/recovery`) | timers and a bounded command channel per process; sweep cursor | arm, fire, handle, sweep, rearm | a row is timed out at its due time and once; every due row is settled; readiness is honest | `Deadlines` |
| Outbox and delivery (`usecase/eventdelivery`, `adapter/outbound/postgres/realtime`, `adapter/inbound/websocket`) | outbox events, claims with leases, receipts, subscriber generations | claim, deliver, acknowledge, retry, release, retention | at least once, no frame older than what was acknowledged, no event lost with its worker | `EventDelivery` |
| Draft (`usecase/draft`) | draft revision, turn, deadline, service epoch | action, timeout, pause, resume, supersede | one decision per turn; player and timeout cannot both win | `Draft` |
| Readiness and no-show (`usecase/readiness`, `usecase/game/noshow`) | ready window, marks, events | open, mark, clear, close, no-show | a wave starts with all its members ready; a no-show is decided by who was ready at the deadline | `Presence` |
| Series graph and score (`domain/series`, `usecase/seriesgraph`) | series, slots, attempts, score revisions | score, resolve, transition, reconcile | score and winner follow the official games; repeated commands agree | - |
| Connections (`usecase/tournament/connection`, `domain/pause`) | generations, leases of connections, intervals, budget | attach, detach, reaper | an old socket never speaks for a new one; the budget only shrinks | `Presence`, `EventDelivery` |
| Golden rounds (`usecase/golden`) | rounds, slots, attempts | plan, start, fail, continue | a tie is broken once | - |
| Swiss (`usecase/swiss`), play-off (`usecase/playoff`) | rounds, pairings, standings | match, lock, advance | no rematch while one is avoidable; locked rounds stay | - |
| Corrections and projections (`usecase/{correction,result,resultprojection}`) | plans, cutoffs, projection revisions | plan, stage, publish | readers see whole revisions in order | - |
| Command receipts (`usecase/idempotency`), sessions (`usecase/auth`, `usecase/player`) | Redis receipts, revoked tokens | begin, mark, refresh | one durable outcome per command | - |
| Leaderboard cache (`usecase/leaderboard`) | one snapshot with a time to live | read, refresh, invalidate | staleness is bounded, no reader sees the ranking go back | `Leaderboard` |
| Assignment and capacity (`usecase/assignment`, `domain/capacity`) | reservations, digests | plan, reserve | a deterministic plan within capacity | - |
| Administration, HTTP, WebSocket frames, bootstrap, audit, mail, media, storage, telemetry, frontend | rows of one aggregate, or none | compare-and-set updates, input and output | outside these models, see section 7 | - |

### Hard behaviours

* Two replicas claim one execution with stale times; the reply of a commit is
  lost; a consumer carries an identity for longer than its lease.
* A scan lists games and acts on them later, while they are paused, resumed,
  solved, timed out, or taken over.
* Clocks have microseconds, frozen rests whole milliseconds, resumed deadlines
  are stored rounded: chains of pauses must not add up to lost time.
* A goroutine waits for another one while it holds a row lock.
* Timers live in memory, deadlines in rows: crashes, pages that move, commands
  that arrive late, handlers that fail after they committed.
* Six goroutines of two processes deliver one event to two sockets of a viewer,
  each with queries that may fail after they took effect.
* A client repeats a command whose answer was lost, while its turn times out in
  a worker that reads first and locks later.
* A connection leaves three traces (socket, subscriber row, lease) that crashes,
  resumes and takeovers separate.

### How the components interact

Everything that starts, resumes or replays games asks *authority* for an epoch
and fences its transaction with it.  Rows with a due time (games, drafts, ready
windows, reconnect intervals) are listed and timed out by the *scheduler*, whose
handlers are the terminal handlers of the other components.  *Connections* call
readiness or the reconnect commands of *game execution* when the last counted
socket of a player closes, and *recovery* calls game execution for games whose
epoch is over.  A *draft* makes its series ready, a *ready window* starts its
wave, a settled game moves its *series*.  Every one of these transactions
appends to the *outbox*, which workers of any process deliver to the sockets of
theirs.

`PROJECT.json` lists each hazard with its line and the properties that cover it.

## 2. Plan

In the order of importance; a module is written when the ones it rests on are
checked, and proved when TLC agrees with its invariant.

| | Module | Subject | State |
|---|---|---|---|
| A | `LeaseRegister`, `Ownership`, `Authority`, `AuthorityProofs` | one owner per execution | checked and proved |
| B | `GameExecution`, `GameExecutionProofs` | clocks of running games through pauses, epochs and recovery scans | checked and proved |
| C | `Deadlines`, `DeadlinesProofs` | durable deadlines and process-local timers | checked and proved |
| D | `EventDelivery`, `EventDeliveryProofs` | outbox claims, receipts, fences, replay, terminal events | checked and proved |
| E | `DraftRules`, `Draft`, `DraftProofs` | turns, clients and deadline workers; the rules as abstract specification | checked and proved |
| F | `Presence`, `PresenceProofs` | connections, readiness, no-show, reaper | checked and proved |
| G | `Leaderboard`, `LeaderboardProofs` | the cached ranking: one refresh at a time, edits, results | checked and proved |
| H | series score, golden rounds, Swiss pairing, corrections, receipts | | not written, section 7 |

Composition: `Authority` implements `LeaseRegister`, and `Draft` implements
`DraftRules` (both refinements are checked and proved).  `GameExecution` and
`Presence` do not repeat the lease protocol; what they take of it is stated once,
in `Ownership`: an epoch that has ended is over for good, and the next begins
no sooner.  `Authority` is shown to implement `Ownership`
(`ImplementsOwnership`, checked and proved), and the two modules to have an
authority that does nothing else (`FollowsOwnership`, proved), so the protocol
below and the games and connections above meet in one specification.
`Deadlines` uses of games only that a row has a revision and a due time that
every writer compares.  Invariants are conjunctions of named parts, constants
carry named assumptions, and no module declares a recursive operator.

## 3. Modules

### LeaseRegister

What authority promises, without mechanism: `owner`, `epoch`, `until` and the
epoch of the last accepted write.  `Grant` begins an epoch at or after the end
of the previous one, `Extend` never gives time back, `Write` carries the
current epoch.

### Ownership

The same for those whose transactions run under a fence: `epoch`, `holder` and
`live`, no clock.  `Take` begins the next epoch when none is in force, `End` ends
the latest, `Orphan` takes away the process but not the epoch.

### Authority

| Variable | Code |
|---|---|
| `leases` | rows of `execution_authority_leases`, by revision |
| `inflight` | `CommitAuthority` calls that reached the database |
| `lock` | the transaction that has locked the row of the tournament |
| `pc`, `call` | a process inside `AuthorityFor` / `Claim` and its locals |
| `cached` | `controllerLeaseState.lease` |
| `written` | epoch of the last fenced write (history) |
| `now` | `clock_timestamp()` of PostgreSQL, used for every decision |

`StartClaim`, `ClaimTime`, `RefusePlan`, `RefuseActive`, `SendCommit`,
`ProveLease` are the steps of `AuthorityFor` between two database calls; the
time is read once in `ClaimTime` and used by every attempt, as in
`UseCase.Claim`.  `LockCommit`, `ConflictCommit`, `CommitLease` are the commit
transaction: lock, compare the plan with the latest row and the *current* time,
insert.  `CallFails` and `DropCommit` separate the fate of a call from the fate
of its commit, so a lease may appear with nobody knowing.  `LockFence`,
`CommitFenced` and `AbortFenced` stand for every consumer that writes under a
fence.  A crash is final, because a restarted process has a new holder id.

### GameExecution

The games of one wave.  `game[g]` is a row of `game_attempts` with its pause
clock, its epoch binding and its last reconnect receipt: `due` is the exact
deadline of a running game, `shown` what `pause_clocks.resumed_deadline`
stores, `left` the frozen rest of a paused one, `bound` the epoch it belongs
to, `gone` the players away, `seen` the last presence change.  `scan[p]` is the program of the recovery scan: `list`, then each
candidate in order, with the authority revision and game revision that were
loaded.  `MayPredate` is `Lease.Proves` at `replayedAt`, a time read once for
both attempts of a replay: a lease row written later may begin after it.
`Rearming` is the transaction of `RearmDeadline`, which calls the scheduler.
`proc[p]` says whether the startup gate has passed.  Each operator or
player command is one action with its guards, because it is one locked
compare-and-set transaction.  `hist` is read by properties only.

Time is counted in ticks and `Milli` ticks are a millisecond, so that rounding
is what the code does: `Frozen` rounds the rest up, `Floor` is what
`resumed_deadline` keeps, `Cut` is `Duration.Milliseconds`.

### Deadlines

One tournament.  `row[d]` is a running game, an open ready window or an open
reconnect interval (`Games` are the first kind, which the recovery runner arms
too); `armed`, `batch`, `commands` belong to the scheduler goroutine of a
process, `sweep` to its worker, `runner` to the recovery runner of the process
that owns the tournament, and `lock` is that runner's transaction.  `Receive`
and `Fire` are the two branches of `Run`; while `batch` is not empty the
goroutine handles it and receives nothing.  `HandleKnown`, `HandleStale` and
`HandleDeadline` are the handler: a receipt of the same revision, a row that
moved on, or a settlement.  `HandleUnanswered` commits and loses the reply,
`HandleFails` fails, perhaps while waiting for the lock.  `SweepList`,
`SweepSkip`, `SweepReload`, `SweepSend`, `SweepDone` and `SweepFails` are a page
of the recovery sweep.

### EventDelivery

The outbox of one tournament and one viewer with several connections.

| Variable | Code |
|---|---|
| `outbox` | `realtime_outbox_events`: events appended and published, the claim of the next one |
| `row` | `realtime_subscribers`: the connection that has the fence, acknowledged and snapshot sequences, closed |
| `receipt` | `realtime_delivery_receipts`: none, pending (in whose lease), written, disconnected |
| `conn` | a socket with its session: place of its handler, registration, initial state, cursor, last frame |
| `agent` | what each goroutine does: the outbox worker and the replay loop of a process, the handler of a connection |

A delivery is several steps of an agent that holds the session's mutex
(`ClaimDelivery`, `Write`, `Acknowledge`, `CompleteTerminal`), each with its
failure before or after the query took effect; between them other processes do
what they like.  `Open`, `WriteSnapshot`, `CloseWritten`, `Hangup` are the
handler of a connection, `WorkerClaim` and `WorkerAnswer` the outbox worker,
`CatchUpNext` and `CatchUpInitial` the replay.  Leases have no clock: one may
end at any time, under a holder that is still at work at the price of a fault.

### DraftRules and Draft

`DraftRules` is the draft as the domain states it: two participants decide the
turns alternately, each in its time and with a category nobody has named.
`Draft` is who runs these rules: `Begin`, `Act` and `Reconcile` are a client
command (it locks, looks for itself among the recorded commands, checks turn and
revision, reads the clock, and commits; a lost answer makes the client repeat
it), `Scan`, `Resolve` and `Expire` a deadline worker (it reads without the lock,
builds the automatic action, and only then locks and compares), `Cancel` the
operator.  `call` and `task` are their locals.  The automatic category is any
legal one.

### Presence

The members of one wave.  `rows` are the sockets whose fence is on their
subscriber row, `stamp` the epoch on the active lease of a socket (0: none),
`socket` and `host` what the process knows.  A subscriber row is closed only for
terminal reasons, so it outlives its socket and only a resume takes it over; a
lease outlives the crash of its process until a reaper closes it.
`Counted` is `CountParticipantConnectionLeases`.  `Welcome`, `Leave`,
`ConnectFails`, `Disconnect` and `DisconnectUnmatched` are the life of a
connection, `Reaper` the candidate the reaper takes next, with the same
consequences as a disconnect: in an open window the member's mark is cleared, in
a running game the game is paused.  `OpenWindow`, `SetReady`, `Start` and
`ResolveNoShow` are the ready window.  `away` are the players with an open
reconnect interval, `overdue` those of them whose interval has passed its
deadline, which it may do at any time (`Overdue`).  A connection that comes
earlier ends the interval; one that comes later is counted and ends nothing
(`Welcome`), or is refused, if the deadline passed during its transaction
(`Overtaken`), and the interval waits for its timeout (`EndGame`).  `punctual` remembers who was ready when
the deadline passed, for one property.

### Leaderboard

One process.  `snapshot` is `Cache.snapshot`, `leader` the call whose function
singleflight runs, `call` the place of each goroutine in `Top50` and its locals,
`due` the edits that have committed and not called `Invalidate` yet.  The ranking
is a number, the commits that changed it so far; `commits` has their times.
`Lead`, `Recheck`, `Load`, `Store`, `Return` and `LoadFails` are the function,
`Follow` a call that waits for it.  `shown` and `settled` are history: the newest
ranking returned, and the newest edit that was invalidated while no refresh held
a ranking it had read.

The MC modules only add symmetry sets and function values.  Definitions under a
comment `Mutant:` are the plausible bugs that each property is shown to catch;
no behaviour uses them.

## 4. Checks

| Run | Instance | Shows |
|---|---|---|
| `authority` | 2 processes, 2 revisions, 2 commits in flight, one lease length of time | `EpochsDisjoint`, `LeaseIdsOnce`, `FencedIsCurrent`, `OneServer`, `WritesFollowEpochs`; `LeaseRegister` and `Ownership` are implemented; `CallReturns` |
| `exec_clock` | 1 game, half-millisecond ticks, 2 operator pauses, room for a millisecond after the task duration, scans of 1 process over two epochs | `TimeKept`, `ScanFailsByRaceOnly` |
| `exec_recovery` | 2 games, 1 process, lapses of two epochs and a renewal, 1 operator pause | `NobodyWaits`, `SettledOnce`, `BindingProtects` |
| `exec_live` | 2 processes with one crash or failed call, half-millisecond ticks, up to three epochs | `OrphansEnd` |
| `deadlines` | 1 process, a game and a window on pages of one row, 1 fault, 4 writes | `TypeOK`, `TimersFollowRows`, `ReadyMeansArmed`, `TimedOutWhenDue`, `DueSettles` |
| `delivery_resume` | 2 processes, 2 connections, a terminal event, no fault | `TypeOK`, `AcknowledgedMeansShown`, `SnapshotFirst`, `FencedLeaves` |
| `delivery_faults` | 2 processes, 1 connection, 2 events, 1 fault | `FramesAfterAcknowledged`, `EventsPublished`, `NobodyStranded` |
| `draft` | BO1 (2 turns), 2 client commands, 2 workers, 1 fault, cancellation | `TurnsInTime`, `AnswersTrue`, `ReadyWithDraft`, `CancelledIsFinal`; `DraftRules` is implemented; `DraftEnds` |
| `presence` | 2 players, 2 connections of one of them, 2 processes, 2 faults | `StartedTogether`, `NoShowJust`, `AwayMeansGone`, `LastTabCounts`, `OrphansReaped` |
| `leaderboard` | 2 calls at a time, a time to live of 2, 2 commits, 1 failing query | `NeverBackwards`, `StaleByTTLAtMost`, `EditsShow` |
| `exec_restart`, `deadlines_embrace` | smallest instance with the behaviour | what a comment or test promises and the code does not do, section 6 |

A safety property that is proved for all values of the constants is checked
where an instance of it says most, not in every run of its module; type
invariants and inductive invariants were checked by TLC before they were proved
and are runs only where they carry more than types (the channel of `Deadlines`,
the mutexes of `EventDelivery`).

What the properties mean is in the comment before each of them.  The ones most
worth a look: `EpochsDisjoint` (two rows are one epoch exactly if they are one
identity, and epochs never overlap in time), `TimeKept` (played time and rest
add up to the task duration, each operator pause giving at most one millisecond
away), `BindingProtects` (no game is given up in the epoch in which the
operator started or resumed it), `TimersFollowRows` (a timer of the current
revision has the current due time, however late its command came),
`FramesAfterAcknowledged` (no retry, replay or resumed connection shows what the
subscriber has already acknowledged), `AnswersTrue` (a refused command decided
nothing, even if an earlier call with it was cut off), `LastTabCounts` (only the
closing of the last counted connection touches its player), `AwayMeansGone` (a
player for whom a game still waits has no counted connection), `EditsShow` (what an
invalidation achieves in spite of the refreshes that cross it) and the liveness
properties `DueSettles`, `NobodyStranded` and `OrphansReaped`.

Some promises hold of the code with an exception, and the property states it:
`CallReturns` (unless a consumer's transaction never ends), `OrphansEnd` and
`ScanFailsByRaceOnly` (a game whose stored deadline was cut; for `OrphansEnd`
also a scan that stays in `RearmDeadline`), `DueSettles` (the embrace of that
scan and the scheduler), `BindingProtects` (a game resumed by a reconnect),
`OrphansReaped` (`Stuck`) and `AwayMeansGone` (an interval past its deadline).
TLC refutes each of these properties without its exceptions, `OrphansEnd`
without that of `RearmDeadline` on an instance with two games, one process and
an operator pause, where it holds with both; section 6 says what the code does
there.

### Bounds, and why they are enough

* *Authority.* Two revisions give a first lease and then a renewal or a
  takeover; two processes give every race, since a third would play the role of
  either; two commits in flight include one left behind by a failed call of the
  same process.  Two time units are a lease length.  The safety properties are
  proved for any values.
* *GameExecution.* Games interact only through the wave (an operator pause
  adopts all, a resume waits for at most one) and through the order of a scan:
  two games show both.  Rounding only depends on the time modulo a millisecond,
  so half-millisecond ticks separate exact, rounded up and rounded down.
  From epoch `MaxEpoch` on a lease only ends if its holder is gone, and not
  while a game blocks the scans (a process that cannot start is restarted again
  and again, and its epochs would grow without end).  `MaxFaults` bounds
  crashes and failed calls, `MaxPauses` operator pauses, `MaxRenewals` renewals,
  `MaxTime` the clock.  `exec_recovery` has whole milliseconds: its properties
  do not depend on rounding, and are proved for any resolution.  `exec_live`
  has no operator pause: a paused game is no orphan, a resume binds it to the
  current epoch, and pauses together with a third epoch are beyond five minutes;
  scans that cross pauses are in the other two runs.
* *Deadlines.* Two rows on pages of one row make the cursor pass, wrap and miss
  rows; a buffer of one is filled by one sweep and the runner.
  `Horizon` bounds due times, `MaxTime` lies at it so that every due time
  passes; `MaxWrites` and `MaxFaults` bound writes and failures.  Two processes
  share only the rows and the lock: the proofs are for any number of them.
* *EventDelivery.* Two connections are a connection and the one that takes its
  subscriber over; each has up to three agents in its process.  One event that
  is also the terminal one meets every branch of the delivery; two events and
  one connection show order and catch-up; that a connection which
  resumed the subscriber shows nothing acknowledged by an earlier one takes two
  connections and two events, and is proved only (`FramesFollow`).  Faults and a resume are in different
  runs, because both with fairness are beyond five minutes; the safety properties
  are proved with any number of each.  One fault (`MaxFaults`) is a crash, a
  query that fails before or after it took effect, a failed write, or a lease
  that ends under its holder.
* *Draft.* A turn that is not the last and one that is; a client command that
  wins, loses or repeats itself against two workers with the same stale read.
  `Horizon` is the last deadline the turns can have.
* *Presence.* One player has two connections, on the same or on two processes,
  so that every order of resume, close, crash and reaping occurs; the other
  player marks by HTTP.  `Window` and `Horizon` put the deadline between the
  ends of the clock.
* *Leaderboard.* Two calls are one that refreshes and one that reads, waits or
  refreshes next; a time to live of 2 leaves room for a commit inside it.
* Every run says `CHECK_DEADLOCK FALSE`: the clock stops at its bound and the
  counters run out.

### Fairness

* `Authority`: a process in a call keeps running it (weak), PostgreSQL grants a
  row lock to its waiters in turn (strong, per commit), and a claim that holds
  it inserts its row (weak).  Nothing is assumed of claims that are not started,
  nor of a consumer that has locked the row: `RearmDeadline` waits for the
  scheduler in such a transaction (section 6, 2).
* `GameExecution`: `RecoveryRunner` is a loop with an interval, processes are
  restarted by their supervisor, a holder that is gone does not renew, and a
  scan that needs authority claims it (all weak).  A scan goes on with every
  step but the call of the scheduler in `RearmDeadline`, which may stay
  unanswered.  Nothing is assumed of players, operators, deadlines or of the
  clock.
* `Deadlines`: goroutines run, the clock advances and processes are restarted
  (weak); the handler gets the row lock when it is free again and again
  (strong).  `RunnerLock` and every write of a row are free choices.
* `EventDelivery`: workers, the replay loop and handlers keep running, leases
  end, processes are restarted (weak); an agent that waits for a session's mutex
  gets it in turn (strong, `sync.Mutex` does not starve its waiters).  Nothing
  is assumed of viewers and of writers of events.
* `Draft`: the clock advances, a worker polls, and a command that has begun goes
  on (weak).  No client need ever send one.
* `Presence`: an authority without a living holder runs out, a process is
  restarted (`restart: unless-stopped`), and its reaper scans at an interval
  (weak).  Nothing is assumed of players and of the operator.

## 5. Proofs

Seven modules of proofs, each for every value of the constants that satisfies
the named assumptions of its module: any sets of processes, games, players,
deadlines, commands, sockets and callers, any durations and bounds.

### AuthorityProofs

| Theorem | States |
|---|---|
| `Invariance` | `Spec => []Inv` |
| `DisjointEpochs`, `SingleServer`, `FencedWrites` | the invariants `EpochsDisjoint`, `OneServer`, `FencedIsCurrent` |
| `CachedLeases` | a cached lease that has not ended is the current epoch |
| `LeaseIdsNeverReturn` | the invariant `LeaseIdsOnce` |
| `WritesMonotone` | the action property `WritesFollowEpochs` |
| `Refinement` | `Spec => ImplementsRegister` |
| `OwnershipRefinement` | `Spec => ImplementsOwnership` |

Assumptions: `ConfigAssumption` (`0 < RenewBefore < LeaseDuration`, what
`NewController` checks), `BoundsAssumption` and `HoldersAssumption` (types of
the bounds, and that `nobody` is no process).

`EpochsDisjoint` is not inductive: that a row may be appended was checked at the
moment the lock was taken, and the clock moves before it is inserted.  `Inv`
therefore adds what a lock holder knows (`LockOK`: its plan matched the lineage
at `lock.at`, and the lineage cannot change under the lock), what a plan knows
of itself (`RequestsOK`), the shape of rows (`RowsOK`: no row begins in the
future, so a takeover planned after the end of the latest row begins after all
of them), and that memory holds only rows (`MemoryOK`).  `CommitFits` derives
from the check under the lock that the new row renews the latest epoch or begins
the next one after its end; `CommitLeaseInv` puts it together.  `CachedFollows`
gets the cache property from `EpochsDisjoint`.  `LeaseIdsNeverReturn` needs a
second invariant beside `Inv`, `IdsInv`, about the ids that calls draw: a drawn
id is in no row before the plan that carries it is committed, at most one plan
and one call carry it (`RequestIds`, `CallIds`), and a plan without an id of its
own continues the epoch whose id it has (`IdFits`).  `Refinement` maps `CommitLease`
to `Grant` or `Extend`, `CommitFenced` to `Write`, `Tick` to `Advance`,
everything else to a stutter.  `OwnershipRefinement` maps the commit of a takeover
to `Take`, the tick that passes the end of the latest epoch to `End`, and a crash
of its holder to `Orphan`.  A renewal is compared with the time at which the lock
was taken and may commit after the lease has ended on the clock; nobody can try a
fence in between, so the mapping counts the epoch as in force while such a
renewal holds the row (`Renewing`).  Without that, TLC shows an epoch that comes
back.

### GameExecutionProofs

`ExecutionInvariant` proves `IInv`, the conjunction of shapes and bounds, of
`GamesInv` for each game and of `ScansInv` for each process:

* `WaveSound`: the state of a game moves with its wave; in a running wave only
  a game with an absent player is paused.  This is `NobodyIsLeftWaiting`.
* `ClockSound` and `TimeSound`: the rest of the clock, running or frozen, fits
  the time played, up to the millisecond an operator pause may give.  This is
  `TimeIsKept`, which no single action keeps by itself, because the bound of a
  running game is about a deadline computed from a rest that was rounded.
* `BindSound`: a running game that was not last started by a reconnect is bound
  to the epoch of its last start or resume; with it `BindingsProtect`.
* `ListSound` and `LoadSound`: what a scan has listed is of a revision the game
  had, and the same revision means the same state, epoch and deadline; what it
  loaded lies between what it listed and what is stored.  From this
  `SettlementIsFinal` and `ScansFailByRaces` follow.

`ScansFailByRaces` is for any resolution of the clock, and so makes the
exception that disagreement 1 of section 6 is about: a replay is refused, with
nothing moved, for a game whose stored deadline is not the exact one.

`ExecutionFollowsOwnership` needs the shapes only: `Lapse` is `End`, `Renew` a
stutter, `Claim` is `Take`, a crash of the holder `Orphan`, and no command, scan
or call that fails touches the lease otherwise.

### DeadlinesProofs

`DeadlinesInvariant` proves `Typed /\ RevisionsInv /\ SchedulerInv /\
CallersInv`: every listing that a timer, a command in the channel, a sweep or
the runner holds *follows* its row (its revision is not ahead, and the same
revision has the same due time), writes only advance revisions, a process holds
at most one timer for a deadline, and callers and channel agree.
`TimersFollowTheirRows` and `NoTimeoutIsEarly` (a deadline is timed out when due
and in its current revision) are consequences, `DeadlinesTyped` bounds the
channel.

`ReadyIsArmed` is about rows that *stand* (pending since the process started, in
the same revision) and rests on a second invariant.  `CoverInv`: a standing row
at or before the cursor has its timer; one on the page that is being swept has
it, or is still to be armed.  `PageCovers` says why pages leave no gap whatever
is written meanwhile: a page holds every pending row between its cursor and its
last one, and one that is not full every row behind its cursor.  `SweepsInv`
adds that the answer a sweep receives is to its own command.  A timer of a
standing row is dropped by no handler (its revision has no receipt, and its
row matches) and replaced by no command.

### EventDeliveryProofs

`DeliveryInvariant` (`IInv`), `DeliveryTyped`, `AcknowledgedWasShown`,
`FramesFollow` and `SnapshotComesFirst`.  None of the properties is inductive:
an acknowledgement is written to the subscriber, a frame to a connection, and
the connection may be gone when the subscriber is read.  `IInv` adds

* `Exclusive` and `TaskFits`: the session's mutex, seen from the goroutines: one
  of them delivers to a session, each works for connections that were made and
  events that were appended;
* `DeliverySound`: what a goroutine in the middle of a delivery may rely on.
  Before the write, if its connection *still* has the fence, the event is past
  everything the subscriber has acknowledged; after it, the frame was shown;
  before the terminal completion, the receipt is written;
* `RowSound`: for a subscriber that has acknowledged something there is a
  `Witness`: a connection that was shown all of it and that nobody is about to
  show anything older.  The second half is what makes the first survive a write
  of an older event by a goroutine whose lease or fence is gone;
* `SessionSound`: a session takes deliveries only once its snapshot was written.

The lemmas before the steps say what a step may make of a task (`Quiet`) and of
a session (`Version`), so that the three conjuncts are shown once for every way
in which a delivery ends.

### DraftProofs

`DraftInvariant`, `DraftTyped`, `TurnsDecidedInTime`, `ClientsHearTheTruth`,
`SeriesReadyWithDraft` and `CancellationIsFinal`, and the refinement
`DraftImplementsRules`: a commit of `Act` or `Expire` is `Apply`, everything else
a stutter.  The strengthening says where a recorded command is to be found
(`RecordsInv`), what a worker's stale read is still good for (`TasksInv`: as long
as its turn is the current one, its deadline is right and its category legal),
and what the lock gives a client (`CallsInv`: nothing was appended after it read
the clock).

### PresenceProofs

`PresenceInvariant`, `PresenceTyped`, `ReadyTogether`, `NoShowDecidedJustly`,
`NobodyAwayIsCounted` and `OnlyTheLastTabCounts`.  The invariant ties the marks
to `punctual` once the deadline has passed (no transaction can change them any
more: every one of them is refused), the state of the wave to the set of marks,
and open intervals whose deadline has not passed to the absence of counted
connections.
`PresenceFollowsOwnership` shows that `Resolved`, the claim that a connection or a
start makes when none is in force, is the only way to a new epoch.

### LeaderboardProofs

`CacheInvariant` (`IInv`), `CacheTyped`, `RankingNeverGoesBack`,
`StalenessIsBounded` and `EditsAreShown`.  `OneLeader` is what singleflight gives:
one refresh at a time.  From it `Ordered` puts in one line what was returned, what
the snapshot holds, what a refresh holds and what the database holds, so an
invalidation between a query and its store cannot make the snapshot go back.
`Missed` carries the time: the snapshot's end is the time *before* the query plus
a time to live.  `Floors` relates a finished call to what it found when it began.

### Only model-checked

Liveness (`CallReturns`, `OrphansEnd`, `DueSettles`, `EventsPublished`,
`NobodyStranded`, `FencedLeaves`, `DraftEnds`, `OrphansReaped`), which needs
fairness and enabledness and is outside the prover.  Every invariant and every
action property of the runs that pass is proved.

## 6. Disagreements between the code and what the repository says of it

Two are runs that TLC ends with a counterexample.

1. `exec_restart`: an epoch replay compares the rounded `resumed_deadline` with
   the exact deadline.  After a disconnect that froze a fraction of a
   millisecond, the startup scan of every later process fails while the game
   runs.  `ScanFailsByRaceOnly` and `OrphansEnd` excuse such a game.
2. `deadlines_embrace`: `RearmDeadline` of the execution recovery waits for the
   scheduler goroutine while its transaction holds the lock of the tournament;
   the scheduler's handler waits for that lock.  Neither has a timeout.
   `DueSettles` excuses exactly this state, `OrphansEnd` a scan that stays in
   `RearmDeadline`, `CallReturns` a call that waits behind such a transaction.

The others were met while modelling and have no run of their own.

*Game execution.*

3. Submissions close at `started_at` plus the task duration
   (`adapter/outbound/postgres/tournament/participant/submission/participant_submission.go:113`), so a game
   that was paused refuses flags while its clock still runs; the read model
   shows the participant the later `effective_deadline`
   (`src/backend/db/queries/participant_read.sql:232`).
4. A reconnect resumes a game without rebinding it to the current epoch
   (`adapter/outbound/postgres/tournament/reconnect/tournament_reconnect.go:1796`),
   so after a takeover the next scan gives the game up.  It is the one exception
   `BindingProtects` makes.
5. After disconnect, reconnect, operator pause and resume, the next disconnect
   of that game is refused (`tournament_reconnect.go:753`).
6. An operator pause less than a millisecond after a deadline gives the game a
   whole millisecond back (`LoadNormalPauseAuthority` rounds a negative rest
   up).
7. A process whose call failed after its commit landed is told that *another*
   replica owns the execution until its own lease ends (`buildLease` compares
   lease ids only).

*Presence.*

8. After the epoch of the authority changed, even if the same process took it
   over, a disconnect of an older connection closes no lease: the player's mark
   is not cleared and the game is not paused then.  The reaper closes such
   leases later, also those of sockets that are still connected, while its
   comment says that it "keeps a quiet but live process from orphaning its own
   long-lived sockets"; that holds for a renewal and not for a takeover.  For a
   game that runs, recovery of such a lease does nothing.
9. A player who was ready at the deadline and leaves before the operator has
   decided cannot be disconnected: the clearing of the mark is refused.  In the
   reaper this refusal ends every scan at that candidate, and the leases behind
   it wait.  `OrphansReaped` excuses this state (`Stuck`); without the excuse
   TLC refutes it.  `usecase/tournament/connection/lifecycle.go:105` says
   "either a complete recovery or an idempotent no-op".
10. A wave whose members are all ready when the deadline passes can be neither
    started, expired nor cleared.
11. One no-show expires the window of the whole wave; its other series can then
    neither be resolved nor started (`SupersedeWithReplacement` has no caller).
12. A disconnect that fails is not retried, except after a timeout; under an
    unchanged authority its lease stays counted.
13. If both players of a game leave, only the first disconnect opens an
    interval: the game resumes when that player returns, with the other gone.
14. A connection that comes after the deadline of its player's interval and
    before the timeout is settled does not find the interval
    (`src/backend/db/queries/participant_connection.sql:604`), is counted, and
    ends nothing: the timeout may forfeit a player who is connected.
    `usecase/tournament/connection/lifecycle.go:206` says that while an interval
    is open "this new lease is the participant's return".  If the deadline
    passes during its transaction it is refused (`lifecycle.go:380`).
    `AwayMeansGone` therefore speaks of intervals whose deadline is still ahead.

*Delivery.*  Frames of one connection may go backwards after an acknowledgement
failed, which is why `FramesAfterAcknowledged` compares with what was
acknowledged and not with what was shown.

*Leaderboard.*

15. `TestCacheInvalidateForcesRefresh` (`usecase/leaderboard/cache_test.go:38`)
    says that `Invalidate` forces a refresh.  A refresh whose query ran before an
    edit stores its snapshot after the edit's `Invalidate`, and that is served for
    up to a time to live, which is why `EditsShow` speaks of edits that no refresh
    crosses.
16. No handler calls `Top50` at this commit: the program wires and invalidates a
    cache that nobody reads.

## 7. Not modelled

* *By abstraction.* UUIDs are small numbers, drawn fresh.  Commands that repeat
  a recorded command are answered from the record and change nothing; `Draft`
  has this in full.  A write that locks, compares and commits is one step,
  except where something is waited for, read or lost in between.  In
  `GameExecution` the length of a reconnect interval and the budget of a player
  are left open: an interval may end whenever a player is away, and any
  disconnect may be the last.  Each module has its own clock.
* *Not reachable, or not wired.* A draft cannot be unfinished while the
  tournament is technically paused (`000009_pause_reconnect_schema.sql`
  requires `incomplete_count = 0`), and a ready window does not open while
  drafts are pending, so the branch of the operator pause that shifts a draft's
  deadline is not taken; `draft/recovery*.go` has no caller; the service epoch
  of a draft always equals that of its deadline, so the route of
  `timeout.go:73` never differs.
* *Of modelled components.* The retention worker of delivery receipts and the
  other sinks of the outbox worker; presence while the operator has paused the
  wave, and the pause of an open ready window; the cancellation of a wave.
* *Golden rounds* are a second execution path built from the transactions of the
  normal one.  *Series graph and score, Swiss, play-off, assignment*: what they
  compute is a function of rows under one lock, without a second actor; what
  other modules need of a series is whether it is planned, ready or settled.
  *Corrections* change closed results in staged plans of one administrator.
  *Command receipts, sessions* keep disposable state in Redis that nothing
  modelled reads.  Two hazards of these are listed in `PROJECT.json` without a
  property.
* *Left out.* Administration other than pause, resume and cancellation, the
  catalogue and rosters are compare-and-set updates of one aggregate.  HTTP and
  WebSocket framing, audit, mail, media, object storage, telemetry and the
  frontend carry no state that interacts with execution.
* *Share of the repository.* Most of its 322 000 lines are code generated from
  the SQL queries and the OpenAPI document, request and response types, row
  conversions and the components above; the queries themselves are part of the
  actions that run them.  What is modelled is where processes, time and failures
  meet, a few thousand lines.

## 8. Running

    tlc -workers 2 -config Authority.cfg MCAuthority
    tlapm AuthorityProofs.tla

Every run of `PROJECT.json` ends within five minutes with two workers.
