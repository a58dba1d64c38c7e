# Chronicle data API: a TLA+ development

The repository (`src/`) is a Rust service (axum, sqlx, PostgreSQL, S3) that
stores recorded game sessions: audio chunks per participant, transcribed
segments, beats and scenes, consent, and a stream of events for workers and web
clients. This directory specifies its stateful parts in TLA+, checks them with
TLC and proves properties of the core with TLAPS. Paths below are relative to
`src/` (`src/routes/chunks.rs` is `src/src/routes/chunks.rs` from the root).

## 1. Inventory

### Components

| Component | State | Operations | Code |
|---|---|---|---|
| Session lifecycle | `sessions` row: status, `abandoned_at`, `deleted_at` | create, patch, resume, delete cascade, summary | `routes/sessions.rs`, `db/sessions.rs`, `state.rs` |
| Audio chunks | `session_chunks` rows; one S3 object per chunk | upload, list, download | `routes/chunks.rs`, `db/chunks.rs` |
| Audio wipe | the same; mutes, segments, `data_wiped_at` | wipe a participant, consent's delete-audio | `routes/mute.rs`, `routes/consent.rs` |
| Object store | objects by key | put, get, delete_many | `storage/` |
| Session metadata | `session_metadata` row: JSON blob, ETag | get, replace, shallow merge under If-Match | `routes/metadata.rs`, `db/metadata.rs` |
| Event bus | broadcast channel of 4096 events | send, subscribe | `events.rs` |
| WebSocket subscribers | per connection: receiver, subscriptions, drop-oldest queue, timers | subscribe, unsubscribe, deliver, ping | `routes/ws/` |
| Service sessions | `service_sessions` rows: token hash, `last_seen_at` | authenticate, heartbeat, lookup, reap | `auth/`, `routes/auth.rs`, `db/service_sessions.rs` |
| Audit log | append-only rows | append (in or after the transaction), query | `db/audit_log.rs` |
| Segments, beats, scenes | rows with ETag and client id | bulk insert, list, patch, delete | `routes/uniform_crud.rs`, `db/uniform.rs` |
| Participants | consent, license, `data_wiped_at` | add, batch, patch | `routes/participants.rs`, `db/participants.rs` |
| Consent tokens | rows with expiry | create, validate, patch consent | `routes/consent.rs`, `db/consent_tokens.rs` |
| Mute ranges | rows | create, list, delete | `routes/mute.rs`, `db/mute_ranges.rs` |
| Users, display names, admin | rows, `is_admin` | upsert, grant, list | `routes/users.rs`, `routes/admin.rs` |
| Connection pool | ten connections, the queue of those who wait for one | acquire, give back, time out | `db/pool.rs`, and every handler |
| Metrics | counters, gauges, histograms | observe, scrape | `metrics.rs`, `routes/metrics.rs` |
| Ids, errors, health, config | none | | `ids.rs`, `error.rs`, `routes/health.rs`, `config.rs` |

### Interactions

A request passes the auth middleware (which looks its token up in
`service_sessions`), runs one or more PostgreSQL statements, often one
READ COMMITTED transaction with `SELECT .. FOR UPDATE` on the session's row, may
talk to S3 inside or after that transaction, appends an audit row, and after the
commit sends events to the broadcast channel. Every WebSocket connection has a
receiver on that channel. A background task deletes stale service sessions. The
session's row lock is what the components share: uploads, patches, resumes and
cascades take it; wipes and metadata writes do not (the foreign key of an
inserted metadata row does).

### What is hard

* *Interleaving*: any number of handlers per session. Which statements hold the
  row lock, and what is read before it is taken (the idempotency lookup of an
  upload, an absent metadata row).
* *Two stores*: PostgreSQL and S3 are not updated together; a PUT can fail, or
  be given up and arrive later; a sweep deletes by key after the commit.
* *Failure in the middle*: axum drops a handler whose client has gone, at any
  `.await`; a process can stop. Transactions roll back, later statements and
  events do not happen.
* *Time*: `NOW()` is the start of the transaction; resume window; heartbeat
  lease against a reaper; ping timer against pong deadline.
* *Order*: events are sent without the lock; a lagging receiver loses events.
* *Waiting*: an upload holds the row lock and a connection of the pool while it
  reads the client's body, with no timeout; batches take many row locks in the
  order of their body; foreign keys take locks nobody wrote down.

### What makes each component correct

* Sessions: the status moves only along the state machine, the resume edge and
  the cascade, whatever races; the timestamps agree with the status; every
  change is announced, as what it was.
* Chunks: an append-only log per participant, without holes, idempotent in the
  client chunk id, each chunk announced once; a row has its object.
* Wipe: what was deleted is gone from S3 as well.
* Metadata: a merge loses nothing; If-Match is a compare-and-set.
* Subscribers: events in order, at most once, matching what is subscribed, with
  every loss counted; a dead peer is dropped and a live one is not.
* Tokens: a live lease is honoured, a stale one ends within bounded time.
* Participants: a consent is never taken back by a write to another column, an
  answer tells what was done, and requests that wait for each other end.
* The pool: nobody waits for a connection while holding what others wait for;
  only uploads that stall can exhaust it.

The hazards, each with its line and the properties aimed at it, are in
`PROJECT.json`.

## 2. Modules

| Module | Models | Checked through |
|---|---|---|
| `SessionStates` | the statuses and `can_transition` (`state.rs`) | |
| `SessionContract` | abstract: what one session's status may do | refinement target |
| `SessionLifecycle` | the handlers of the `sessions` row as transactions | `MCSessionLifecycle` |
| `ChunkLog` | abstract: what the upload endpoint promises | refinement target |
| `ChunkIngest` | upload, wipe and cascade over rows and objects | `MCChunkIngest` |
| `SessionMetadata` | replace, merge and cascade of the metadata blob | `MCSessionMetadata` |
| `UniformRows` | bulk insert, patch, delete of segments, beats or scenes; mute ranges | `MCUniformRows` |
| `EventFeed` | abstract: what a subscriber is promised | refinement target |
| `WsSubscriber` | one connection's loop on the broadcast channel | `MCWsSubscriber` |
| `ServiceTokens` | auth, heartbeat, lookup, reaper | `MCServiceTokens` |
| `ParticipantConsent` | users, participants of a session, consent and its tokens | `MCParticipantConsent` |
| `ConnectionPool` | the transactions of all handlers as the pool and the row locks see them | `MCConnectionPool` |
| `Metrics` | one histogram and its scrape | `MCMetrics` |
| `SessionLifecycleProofs`, `ChunkIngestProofs`, `SessionMetadataProofs`, `UniformRowsProofs`, `WsSubscriberProofs`, `ServiceTokensProofs`, `ParticipantConsentProofs`, `ConnectionPoolProofs` | theorems about the module they are named after | TLAPS |

The MC modules instantiate for TLC; only `MCSessionMetadata` adds a symmetry set, for
its run without liveness. Throughout, a handler is a record with a
`pc` in a slot of `Handlers` (or `Uploaders`, `Deleters`); one action is the
code between two points at which another task or transaction can be seen; a
lock is a variable that holds its owner. `Mutant of X` marks an operator that is
`X` with a plausible bug; no specification uses it. `PROJECT.json` "map" gives
the source lines of every definition and "mutants" says which of them each
property refutes.

### SessionLifecycle

`row` is the committed row, `holder` the owner of the `FOR UPDATE` lock. PATCH, resume, the cascade and the
handlers that hang content off the session ("ingest": the upload's transaction) run
`Begin -> Lock | NotFound -> Write | Refuse -> Commit -> Send`; `Write` fixes
what `Written` computes from the row that was *read*, `Commit` installs it, so
that a model without the lock would show lost checks. Create is `Insert`, then
`AppendAudit`: two autocommitted statements, as in the code. `Die` can follow
any step. `began` is the time of BEGIN, because `NOW()` in PostgreSQL is that.
`log`, `lost` and `bus` record commits, commits whose event was never sent, and
events. `SessionLifecycle` implements `SessionContract` with `status <- row.status`.

### ChunkIngest

A chunk is a record `[pid, cid, seq]`, as row and as object: the S3 key is
determined by participant and seq, the bytes by the client chunk id. Uploads go
through `LookupHit | LookupMiss`, `LockSession`, `ReadBody | RejectBody`,
`Reserve` (the INSERT's `MAX(seq) + 1`, from the snapshot of that moment) and
`InsertRow` (which meets the unique indexes), `PutOk | PutFails | PutGivenUp`,
`Commit`, `Emit`. A given-up PUT stays in `late` and may land at any time. Wipe
and cascade are `Scan -> Mark -> DeleteCommit -> MarkWiped -> SweepOne*`, the
cascade after `CascadeLock`; the scan works on its own snapshot, so an upload
that commits behind it survives.

`ChunkLog` says what all this amounts to for clients and subscribers, in six
actions and without locks, objects or failures: `Store` appends a chunk with a
new client id and, while nothing was deleted, the next number; `Tell` announces
and answers it; `Forget` is a handler that died in between; `Repeat` answers a
retry; `Erase` cuts. `ChunkIngest` implements it with `pending` mapped to what
the handlers past their commit hold.

### SessionMetadata

`row` is the committed blob and its tag, `writer` who locks the row or has an
uncommitted insert of it, `session` who locks the session's row. PATCH:
`SelectNone` (nothing to lock, no waiting, even while another transaction is
inserting) or `SelectSome` and then `LockRow`/`RowGone`; `Merge | Refuse`;
`Upsert`, which waits for `writer` and then overwrites whatever it finds;
`CheckForeignKey` where it inserted; `Commit`; `AppendAudit`. POST starts at
`Upsert`. The cascade's part is `LockSession -> Erase -> CommitErase`. ETags are
numbered: the code draws 64 random bits, so two equal ones are left out.

### UniformRows

One of the three tables, in one session; a row is its client id, its id and its
ETag (numbered, as above; the other fields are what the ETag names). `locks` are
the ids each handler has locked. A batch is
`Scan` (the dedup SELECT, which leaves in `todo` the places of the body that are
to be inserted), `InsertRow` for each of these in the order of
the body, `CommitBatch`, then `Audit` and `Emit` per row. An insert waits while
another transaction has an uncommitted row with its client id or has changed or
deleted the committed one (`Blockers`), and fails where one is there
(`InsertConflict`). Handlers that wait in a circle end by `DeadlockVictim`.
PATCH and DELETE are `LockRow | NotFound`, `Check | Refuse`,
`CommitPatch`/`CommitDelete`, `Audit`, `Emit`; the DELETE of a cascade is
`LockAll`, `CommitClear`; that of a wipe is the same over the rows of one
participant (any part of the table). It takes its rows at once, when all are
free, and commits without an event: `cleared` remembers what it deleted, `log`
the changes the other handlers commit and have to announce. Mute ranges are rows without a client id (`NoCid`): `BeginMute`,
`CommitMute`, then audited, announced, deleted and wiped like the others. The
session's row lock, which a cascade holds and a foreign key check waits for,
would only delay inserts and is left out here.

### WsSubscriber

Events are positions in the history `bus`; `next` is the receiver's position and
`Len(bus) - next + 1 > Capacity` is lagging. A turn of the loop is `SendNext`
(one queued event) or `NothingQueued`, then the first ready branch of the biased
`select!`: `ReadEvent`/`ReadLagged`, `ReadMessage`, `PingTick`, `PongTimeout`.
Sends are places of their own (`Sending`), since a peer that does not read
blocks them. `Tick` moves the ping timer and the pong deadline and happens only
while the loop waits.

`EventFeed` is the subscriber's view: each published event has a fate (wanted,
skipped, lost, delivered, gone), taken in publication order; `Overrun` loses
exactly what exceeds the channel's capacity, and `Break` loses at most the event
in flight. `WsSubscriber` implements it: `Fate` computes the fates from its
queue and its histories.

### ServiceTokens

A row is its age. The reaper's DELETE is `ReapBegins` (fixes `NOW()`), `ReapRow`
per row (tests the row again if a heartbeat changed it), `ReapCommits`, or
`ReapFails`; heartbeats, the crash and the restart interleave with it.

### ParticipantConsent

The rows of `users`, `session_participants` and `user_display_names` for one
session. Every request writes values of its own, so a column's value is the
number of the request that named it. A request is a plan of transactions
(`post_display` has two, a public PATCH up to two), a transaction the list of
locks it wants: `Lock` takes the first if no other holds a conflicting one, and
appends the locks that follow from it (`Later`: the foreign keys of a new row,
the participants of a locked session). `Grant` is what `ON CONFLICT DO UPDATE`,
`DO NOTHING` and `UPDATE .. WHERE` take, depending on whether the row is there:
an upsert that assigns the key (`users::upsert`, the CTE of `add`) takes the
strong lock that also stops foreign keys. `Commit` writes only the columns named
(`NewRow`). The public routes read token and participant first (`TokenFound`,
`ReadContext`), without a lock. Circles end by `DeadlockVictim`.

### ConnectionPool

The composition of all handlers, reduced to what they acquire. A handler is a
series of parts with nothing held between one and the next: its transaction
(`Transactions`), the statements before and after it (the token's lookup, the
audit rows of a batch, `mark_wiped`, the guild's lookup), its calls of S3. A slot
runs one part after another, in any order, so that it runs every handler. Which
transaction a waiting request is for is settled when it gets its connection,
before which it makes no difference.

A part is a sequence of steps (`conn`, `lock`, `share`, `rows`, `body`, `put`,
`store`); after the last one the commit gives everything back. The locks are
those of all rows and of keys being inserted, in their modes (`Conflict`), and
are kept to the end of the transaction. A session's row is locked by `lock` (the
`FOR UPDATE`) or by `share` (the foreign key of a new row, which is checked when
the row is in and its locks are held). Which other rows a statement locks, in
which mode and in which order, is left open (`Choose`, `GoOn`): an added
participant's `users` row, a batch's keys and a metadata blob's key are cases of
it. So chains occur: a request waits for a row of another one, which waits for a
session, which an upload has locked that waits for its client. Circles occur too
and end by `DeadlockVictim`.

The pool is a number of connections and a FIFO queue. `TimesOut` is the pool's 30
seconds, which pass only when nothing can be done by the server itself
(`TimePasses`).

### Metrics

`Register` is the first observation, made under the registry's write lock;
later ones count first (`Observe`) and then go through the buckets
(`AddToBucket`), while a scrape reads them one by one (`RenderBucket`,
`RenderTotal`) under the same read lock, which excludes nothing.

## 3. Runs

Every property of a passing run has a mutant of the code's definitions that
refutes it under the same configuration.

| Run | Question | Bounds and why they suffice |
|---|---|---|
| `session_lifecycle` | contract, stamps, events and termination under races | 2 handlers, 3 requests, clock 0..2, resume window 1. Two handlers give every overlap of two transactions and the third request finds their result; the clock reaches both sides of the window |
| `chunk_ingest` | does the endpoint implement the log; objects; termination | 1 participant, 2 chunk ids, 2 uploads and 2 deletions that may all overlap: an attempt with its retry or a competitor, with two wipes or cascades anywhere. Participants share nothing but the session's lock and the cascade; the safety properties hold as well with 2 participants, 3 uploads and 1 deletion (1.3 million states). No symmetry, because fairness is per slot |
| `chunk_committed_has_object` | does a committed row have its object? (no) | one chunk id, so late PUTs cannot be the cause |
| `chunk_retry_is_answered` | is a retry always answered with the row? (no) | 2 uploads |
| `session_metadata` | merges, compare-and-set, termination | 2 handlers, 3 requests after a blob that may exist already; one key, since tags tell versions apart: create, two competitors, or a delete and a re-creation under a waiting PATCH |
| `metadata_merges_into_existing` | does a PATCH always merge into what exists? (no) | the same |
| `uniform_rows` | client ids, acknowledgements, patches, do the events account for the rows, termination | 2 handlers, 3 requests, batches of up to 2 of 2 client ids in any order and with repetition: a create, and two competitors for the row or for each other's keys; mute ranges among them |
| `ws_subscriber` | does the connection implement the feed; subscriptions, health check, progress | 2 events of 2 guilds through a channel of 1 with a queue of depth 0 (so that lag and the smallest queue occur), 2 subscription frames, ping period 2, grace 1 |
| `service_tokens` | lease, bound on stale rows, reaping for good | 2 tokens, window 3, period 2, 1 failure in a row, 1 tick per DELETE |
| `participant_consent` | are consents kept, do answers tell the effect, who deadlocks, termination | 2 handlers, 2 requests; 3 people, one a participant with a token, one a user, one unknown; batches of up to 2, also with one person twice. Two requests meet at every pair of statements, which is where a column could be lost or a circle close; with 3 handlers and no batches no circle was found either |
| `connection_pool` | who can exhaust the pool, who waits in it for ever | 4 requests, pool of 3, 1 session, 1 other row, modes `share` and `excl`. A chain of waits needs three connections: an upload, a holder of the other row that waits for the session, and one that waits for that row; the fourth request finds the pool empty. With three connections two key shares can overlap in turn, which starves a `FOR UPDATE`. `nokey` conflicts as `excl` does, except with `share`; more rows and sessions only make the chains and circles longer, for which the proofs stand |
| `metrics_buckets_are_cumulative` | is a scrape a histogram? (no) | 2 observers, 3 buckets |

What passes shows, in short: only the row lock keeps checks and writes together,
and where it is held the code is right; what the violations show is where a
decision is made outside of it, or after the commit:

* the sweep of a wipe deletes by key after its commit, and an upload that
  started over at the same seq loses its object (`routes/mute.rs:134` against
  `routes/chunks.rs:143`);
* the idempotency lookup precedes the lock, so an overlapping retry gets a 500
  instead of its row (`routes/chunks.rs:98` against `:3`);
* a PATCH that found no metadata blob overwrites one that was committed
  meanwhile (`db/metadata.rs:88` against `:65`);
* a scrape adds up buckets that are cumulative already, so one fast observation
  shows as 1, 2, 3, .. with `+Inf` at 1 (`metrics.rs:139` against `:6`). With
  that mended a scrape that runs between two increments of one observation would
  still show a lower bucket above a higher one's count.

The pool's run shows the reverse: handlers take their connections
and locks in an order in which they cannot exhaust the pool among themselves
(`HoldersNeverQueue`), which rests on `mark_wiped` and the guild lookup coming
after the commit (`routes/mute.rs:130`). What can exhaust it is uploads, since
nothing bounds the time a body or a PUT takes: directly, or by what waits behind
them. `RefusedOnlyByUploads` says that whenever the pool refuses a request each
of its connections is with an upload that waits for its body or its PUT, or with
a request at the other end of a chain of waits for one (adding the same person
to two sessions, one of which such an upload has locked, is enough:
`db/participants.rs:38`). If uploads do not stall for ever, everyone who waits
for a connection gets one or leaves (`EveryoneIsServed`).

It does not follow that every request ends, and that is not so: PostgreSQL
grants a key share past a waiting `FOR UPDATE`, so inserts into a session whose
transactions overlap in turn, as long as new ones arrive, keep a patch, a cascade
or an upload of it waiting; and each of these keeps its connection meanwhile. No
document promises otherwise.

In `uniform_rows` the events account for the rows as far as they are sent: of the
rows that a wipe or a cascade deletes nobody is told one by one
(`routes/mute.rs:108`, `routes/sessions.rs:225`), subscribers hear of the wipe
(`AudioDeleted`) or the tombstone instead. `EventsAccountForRows` names these
rows, and those whose handler died before its events, as the only ones that
who has heard all events is wrong about.

Further disagreements were seen while modelling and have no run of their own.
The models contain the behaviour, no property forbids it:

* a PATCH to `deleted` makes a tombstone whose content stays
  (`routes/sessions.rs:103` against `state.rs:15`: "via the delete cascade");
* an interrupted wipe forgets its keys: a retry finds no rows and answers ok,
  the objects stay (`routes/mute.rs:131` against `:98`);
* a display name with a bad source is refused after its user has been made
  (`routes/users.rs:62`);
* batches that name the same people in opposite orders deadlock, and a batch
  that names one person twice fails: a 500 each (`db/participants.rs:82`);
* a public consent PATCH that meets the cascade ends in a 500 or a 404, possibly
  after it has written the scope (`db/consent_tokens.rs:79`);
* create writes its row and its audit row in two statements
  (`routes/sessions.rs:31`), while `db/audit_log.rs:1` says every mutating
  handler writes one; the same holds for metadata writes;
* the cascade does not ask `can_transition` and announces `deleted -> deleted`
  when repeated (`routes/sessions.rs:241`, `state.rs:15`);
* after a failed PUT the retry gets the *same* seq, not a fresh one
  (`routes/chunks.rs:124`): which is what keeps `OrphanIsReplacedNext`;
* a receiver that lags is only counted, never disconnected; the queue whose
  drops would disconnect it cannot overflow, as `QueueNeverOverflows` shows
  (`routes/ws/session.rs:142` against `:89`);
* a batch that races another one, or names a client id twice, fails as a whole
  instead of reporting the duplicate (`db/uniform.rs:166` against `:147`), and
  a row's update can be announced before its creation;
* a ping due at the same time replaces an expired pong deadline
  (`routes/ws/session.rs:209`);
* a heartbeat revives a token the lookup already turns away
  (`db/service_sessions.rs:62`); an ordinary request does not extend the lease;
* the reaper's period is a third of the window, not the window
  (`auth/reaper.rs:3`);
* a 412 on an absent metadata blob reports a tag that matches nothing, so a
  client that retries with it is refused again (`db/metadata.rs:88`).

## 4. Fairness

* *Tasks are polled.* `WF` on the steps of each handler, of the connection's
  loop and of the reaper: tokio polls every woken task.
* *Row locks are queued.* `SF` on taking the session's lock (`SessionLifecycle`,
  `ChunkIngest`), where the handlers modelled all take it exclusively:
  PostgreSQL serves such waiters in order, and the number of requests is
  bounded. Where shared and exclusive locks meet and requests are without end
  (`ConnectionPool`) this is not so, and there is only `WF`: a lock is taken if
  it *stays* free. The pool's queue of waiters for a connection is explicit.
  `SessionMetadata`, `UniformRows` and `ParticipantConsent` need only `WF` as
  well, as their number of requests is bounded.
* *Nothing is assumed of clients.* No fairness makes a client send its body, a
  peer read its socket, or a service send heartbeats; the liveness properties
  name that as a premise (`Receiving`, `Stuck`, `SendsArePrompt`,
  `Uploads`).
* Failures, crashes and restarts are never fair. `ServiceTokens` bounds
  consecutive failures of the reaper by `MaxFails`.

## 5. Proofs

The theorems hold for every value of the constants that the modules' named
assumptions allow: any set of handlers or uploaders, of people, tokens or keys,
any window, period, queue depth, capacity, pool size, and any value of the
bounds. Nothing else is assumed. An `IInv` is checked by TLC before it is proved
(as an invariant of the module's run); each proof has one lemma per action.

**`SessionLifecycleProofs`**. `TypeCorrect`, `StampsCorrect`, `EventsFaithful`,
`ChangesAnnounced`, `ImplementsContract`.
The stamps alone are not inductive: a commit writes what a handler computed from
a row it read some steps ago. `IInv` adds the facts that close the gap:
`LockHeld` (whoever is between its SELECT and its commit holds the lock, hence at
most one is), `FreshRead` (the row it has read is still the row) and `LegalWrite`
(a handler about to commit has passed its check). `WrittenStamps` shows that a
legal write of a good row is a good row. From `IInv` every step is an allowed
edge of `SessionContract` or leaves the status alone (`WrittenEdge`,
`StepRefines`). The events need the log: what a handler is about to send is a
commit it made and has not sent yet.

**`ChunkIngestProofs`**. `TypeCorrect`, `ObjectsKept`, `OrphansReplaced`,
`ImplementsLog` (the endpoint implements `ChunkLog`, step by step).
What makes them inductive: the session's lock has one owner (`LockHeld`), so the
number an upload has reserved is still free and next when it inserts
(`Reserved`, `Clear`); what has been stored is told once (`Stored`, `Told`,
`ToldOnce`); a deletion knows the keys it will sweep (`DeletesOK`, `KeysOK`); and
the committed rows of a participant have distinct numbers and client ids,
without a hole while nothing was deleted (`Numbered`). `ObjectKept` exempts the
keys a sweep was ever issued for, as the violated run
`chunk_committed_has_object` shows that it must; and it lets a PUT that was given
up replace the bytes under its key, but not leave a hole.

**`SessionMetadataProofs`**. `TypeCorrect`, `MergesOnLatest`, `ComparesAndSets`.
`Transactions` says who may be between its lock and its commit (`Locking`), and
that what it has read is still the row (`Reading`); `Tags` that a tag names one
version. A handler that found no row has locked nothing and read nothing; the
premise of `MergeOnLatest` leaves it out (the violated run
`metadata_merges_into_existing` shows why), and If-Match refuses it.

**`UniformRowsProofs`**. `TypeCorrect`, `ClientIdsUnique` (for
`OneRowPerClientId`), `BatchesStored`, `PatchesOnLatest`, `ChangesAnnounced` (for
`EventsAccountForRows`).
The unique index is not assumed: what is committed is unique because no two
handlers hold uncommitted rows of one client id, and none holds one that is
committed, unless the committed row is theirs or deleted by them. `Distinct` says so of a table, the
uncommitted rows and their owners by an operator without variables (`Unlike`),
so that each action is an instance of a lemma about inserting, removing or
changing rows. `Exclusive` (a row is locked by one handler), `Held` (who patches
or deletes has locked what it read), `Stored` (what a batch will acknowledge it
has seen or inserted) and `Told` (`Delivered`: of each committed change, the
handler that will announce it, the event, or the handler that is lost) complete
`IInv`. What the events say of the rows is an invariant on top of it
(`Accounted`): a row that was ever committed is there, deleted or cleared; none
is there and gone; and none that is gone is still to be committed by an open
batch (`Open`). Since `Told` says which of the changes are
on the bus, what a subscriber believes differs by the others and by `cleared`.

**`WsSubscriberProofs`**. `TypeCorrect`, `QueueSuffices` (the drop-oldest queue
never overflows), `SentIsSubscribed`, `ImplementsFeed` (the connection implements
`EventFeed`). The loop empties its queue before it reads, so that a queue of any
depth holds at most one event when one arrives; the refinement needs how
positions, queue and histories partition the bus.

**`ServiceTokensProofs`**. `TypeCorrect`, `LeasesHonoured`, `StaleRowsGo` (the
bound on the age of a row), `NeverRevived`. The bound is the interesting one: the
timer counts (`TimerRuns`), a row that a DELETE has not visited is younger than
window and delay (`Visited`), and between two DELETEs age and remaining wait
add up to what the failures so far allow (`OnSchedule`).

**`ConnectionPoolProofs`**. `TypeCorrect`, `NoHoldAndWait` (for
`HoldersNeverQueue`), `OnlyUploadsStarve` (for `RefusedOnlyByUploads`), for any
slots, sessions, rows, modes and size. `Tidy` says which step may follow which and
that no part ends with a lock; it holds of every part and of what is left of it
(`PlansTidy`), and the proofs know no more of the parts than this. `IInv` is
`Sound` (what a request can hold is told by the step it is at: a connection from
the first lock on, none while it asks for one or calls the store), `Exclusive`
(locks granted exclude each other), `Waiters` (who queues is there once, and is
at `conn`) and the number of connections lent. For the second property, take a
moment at which nobody is ready and somebody queues. All connections are lent,
and whoever has one and is not an upload wants a lock that somebody holds. A
group of such requests in which everyone waits only for members of the group
would be a circle, and contain a smallest one, of which the database would have
found a victim; so one of them waits for somebody outside.

**`ParticipantConsentProofs`**. `TypeCorrect` (the references of the schema),
`LocksExclude`, `ColumnsHoldTheLastNamed` (for `LastNamedWins`),
`AnswersTellEffects`, `OnlyBatchesDeadlock` (for `DeadlocksNeedABatch`).
`IInv` says of each request what its plan looks like (`PlanFine`; `Refs`: who is
to make a participant or a display name has made sure of the user, or will in
the same plan), that what a transaction wants is still to be locked or dealt
with (`Carried`), where its locks come from (`Sourced`), what they say of the
rows while they are held (`Standing`: no other request can make or remove them),
and that locks exclude each other (`Exclusive`). `Fresh` and `Quiet` describe
what arrives and what a step without a write does, so that the three further
invariants need only look at arrivals, locks and commits:

* `NumbersFresh`: a request's number is its own, and no row that it still has to
  write, or that it wrote in an earlier transaction, was made under it. With it a row that is made anew
  after a cascade is told apart from the one before it, and `ColumnsHold` is
  inductive.
* `Telling`: what a request is asked for is written or still planned (`Covered`),
  and once a column is written the rest of the plan updates the very same row
  and its input has been checked (`SameRow`), so that a 404 of the second
  statement means that the row of the first is gone. Answers stay true: only the
  cascade removes a row, and none comes back under its old number.
* `StagesHold`: the few sets of locks that a transaction of each kind can hold
  while it waits. Of those in a circle without a batch, a cascade that has the session
  waits for none (`NoCascadeWaits`: it has kept new tokens out, and the
  participants it deletes are not being made), hence no add does
  (`NoAddWaits`), hence no token and no display name; nobody is left.

Numbers that are "the first one with .." are found by the least number principle
(`TurnExists`, `NextExists`), which the library has for any well-founded relation
(`WFMin`, `NatLessThanWellFounded`).

Only model-checked, and why:

* all liveness (`RequestsFinish`, `EveryoneIsServed`, `LoopCatchesUp`,
  `SilentPeerDropped`): fairness and ENABLED are out of the prover's reach;
* the violated properties, which are false.

Every invariant, action property and refinement that the passing runs check is
the subject of a theorem; none of the proofs needs what a recursive definition
computes.

Models were changed in four places so that they can be reasoned about, without a change of
behaviour: the metadata merge has its own `Over` instead of TLC's `@@`, a waiter
leaves the pool's queue by `RemoveAt`, the to-do list of a batch is a function
on places instead of a filtered sequence, and `ParticipantConsent` assumes that
there are finitely many pseudo ids (24 hex digits), without which the rows of a
cascade would be no sequence.

## 6. Bounds and abstractions

`MaxNow`, `MaxRequests`, `MaxUploads`, `MaxDeletes`, `MaxBus`, `MaxFrames`,
`MaxDelay` and `MaxFails` bound counters and are named as bounds where they are
declared. Payloads are reduced to identity: audio bytes to the chunk id, JSON
to its kind and top-level keys, times to ticks. Reads that change no state
(get, list, summary, download, audit query) and requests refused before their
first statement (a malformed id, a mute range that ends before it begins) have
no action. An empty batch runs no transaction and is answered with an empty
list (`db/participants.rs:63`, `db/uniform.rs:135`); `add_batch` then appends
its audit row, as after any other. It has no action either. Row ids and tokens
are random in the code and never collide in the models. `MaxBatch` bounds the
length of a batch, `Size` stands for the pool's ten connections, and a request
of `ConnectionPool` may lock any rows its statements reach, in any order.
`seen_count` of a display name and the details of audit rows are left out.
PostgreSQL is assumed to do READ COMMITTED as documented, S3 to be consistent
per key.

## 7. Not modelled

* `consent_tokens::revoke` has no caller; `users.data_wiped_at` is never written.
* `ids.rs` (pure functions of strings), `error.rs` (a table of status codes),
  `config.rs`, migrations, `health`: no state.
* Counters and gauges: single atomics. The gauge `chronicle_ws_subscribers` is set
  to 1 and 0 by every connection (`routes/ws/session.rs:71`), so that with two
  connections it tells nothing; no document says what it should.
* A token outlives its check: a WebSocket is authenticated at the upgrade only.

## 8. Plan

1. *Done*: sessions with contract and proofs; chunks with wipe and cascade, as an
   implementation of a log; metadata; segments, beats and scenes; subscribers, as
   an implementation of a feed; tokens; participants and consent; the pool; the
   histogram.
2. *Proved*: all safety of the passing runs, for any values of the constants
   (section 5). *Left to TLC*: liveness.
3. *Left of the models*: a compare-and-set register as the abstract
   specification of the metadata.
