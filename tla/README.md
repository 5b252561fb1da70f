# A TLA+ model of vitale-backend

vitale-backend follows the objects in Earth orbit: an hourly process polls
Space-Track.org, stores what it learns in PostgreSQL and logs the changes it
detects; an HTTP API serves the result. This directory models the parts of it
that decide something over time — which ids a request asks for, when a poller
runs, what is stored and reported when runs overlap, fail or die, and what a
cached response is worth — checks them with TLC on small instances, and proves
the most important properties with TLAPS for every value of the constants.

Paths below are relative to the repository's root. `P/` is `services/poller/`.

## 1. The system

| component | code | state | operations |
|---|---|---|---|
| Scheduler | `P/main.cpp`, `DbWriter::is_poller_due`, `mark_poller_run` | `poller_state.last_run_at`; per process the two decisions and the Space-Track session | cron starts a process; check, stamp, run SATCAT, run GP |
| GP poller, selection | `next_gp_rotation_batch`, `top_gp_hot_targets`, `advance_gp_rotation_cursor` | `poller_state.rotation_cursor`, `objects.hit_count`, `objects.featured` | hot slice, rotation batch, cursor |
| GP poller, ingestion | `P/gp_poller.cpp`, `P/gp_record.cpp`, `P/db_writer.cpp` | `snapshots`, `audt_events`; per process the targets, the answer, the record in hand | one request, then per record: look up, insert snapshot, run rules, insert events |
| SATCAT poller | `P/satcat_poller.cpp`, `P/satcat_record.cpp`, `upsert_objects_from_satcat` | `objects`, `audt_events`; an open transaction | one request, then diff and upsert of every row in one transaction |
| Rule engine | `libs/rule_engine` | none | eight rules, two registries |
| Space-Track client | `P/space_track_client.cpp`, `P/poller_base.cpp` | the session | login, get |
| API, catalogue | `services/api/routes.cpp` | none of its own; copies held by clients | `GET /objects/catalog` with ETag, Last-Modified, conditional requests |
| API, object detail | `services/api/routes.cpp` | `objects.hit_count` | `GET /objects/<id>` counts a hit |
| API, read-only queries | `services/api/routes.cpp` | none | snapshot and events of an object, popular objects; object lists, search, top events, counts |
| CORS middleware | `services/api/cors_middleware.cpp` | the allow-list; answers kept by caches and browsers | headers of every answer, by the request's Origin |
| Start-up, log timestamps, database connection | `services/api/main.cpp`, `P/main.cpp`, `shared` | none | server start, log formatting, connecting |

**How they interact.** Every process opens its own connection, so components
meet only in the database. One poller process runs the SATCAT poller and then
the GP poller; nothing (no lock, no timeout on curl) keeps a process from
outliving its hour and overlapping the next one. Every `DbWriter` method of the
GP poller is a transaction of its own, so any other process may act between two
of them; the SATCAT poller's import is a single transaction. The API writes
`hit_count`, which the GP poller's hot slice reads, and reads `objects` and
`poller_state` while an import may be under way. The transactions are READ
COMMITTED: two statements of one transaction may see different states, and
the model gives each of them a step of its own where that can matter (the three
SELECTs of the rotation, the two of the catalogue handler and of the 404).

**What is hard** — the `hazards` of `PROJECT.json`, each at its line:

* a run that overlaps another finds the same element set new;
* a snapshot is committed before its events, so a failure in between loses them;
* the cursor is read in one transaction and written in another, many calls later;
* the batch wraps over the end of the catalogue, shares its size with a hot
  slice that changes at any time, and is picked by statements between which the
  catalogue may grow;
* due decisions and stamps are separate, cron jitters, and a SATCAT run delays
  the GP request that follows;
* one bad row or record fails a whole batch, again and again;
* the label of the catalogue (the stamp) is set before its rows are;
* a straggling run stores an older element set after a newer one, while readers
  look between any two of its transactions;
* an answer of the catalogue may be kept for a day and served to pages of other
  origins than the one it was made for.

## 2. The modules

| module | what it is |
|---|---|
| `RuleEngine` | the eight rules and both registries as operators |
| `GpTargets` | the two selections and the cursor arithmetic as operators |
| `GpPoller` | the GP poller's processes beside the catalogue, hits and Space-Track |
| `GpPollerProperties` | its type invariant, safety, action and liveness properties, and the inductive invariant |
| `EventHistory`, `GpPollerRefinement` | the history and log that readers are promised; the mapping that shows `GpPoller` to implement it |
| `Scheduler` | cron, due checks, stamps and the sequence of the two runs on a discrete clock |
| `SatcatPoller`, `SatcatPollerProperties` | the import as one transaction, row by row |
| `CatalogHistory` | what an import promises to readers, whoever writes it; `SatcatPoller` implements it |
| `CatalogApi` | `SatcatPoller` composed with the catalogue handler and its clients |
| `ReadRoutes` | what the snapshot and events routes answer, as operators on `GpPoller`'s tables |
| `ReadApi` | `GpPoller` composed with readers the snapshot route finds no row for |
| `SharedCache` | `CatalogApi` with clients that are HTTP caches, and the CORS middleware |
| `GpPollerProofs`, `GpSingleRunProofs`, `GpTargetsProofs`, `GpRotationProofs`, `ReadApiProofs`, `SchedulerProofs`, `CatalogApiProofs`, `SharedCacheProofs` | the theorems |
| `MC*` and `*.cfg` | small instances for TLC |

### GpPoller

A process of `Process` goes through `pc`:
`idle → hot → cursor → primary (→ wrap) → login → request → record → insert →
event → … → idle`.

| action | code |
|---|---|
| `Start`, `SelectHot`, `SelectFails` | `main.cpp` lines 191–208, and its catch |
| `ReadCursor`, `SelectPrimary`, `SelectWrap` (`SelectRotation`) | the three statements of `next_gp_rotation_batch` |
| `Login`, `LoginFails`, `NoTargetsConfigured`, `Fetch`, `FetchFails`, `FetchUnparseable` | `Poller::run`, `build_query_url`, `parse_gp_response` |
| `LookupUnchanged`, `LookupNew` | `get_last_snapshot` and the `gp_id` dedup |
| `InsertSnapshot`, `InsertConflict` | `insert_snapshot`, `gp_id UNIQUE` |
| `InsertEvent` | one turn of the loop over the firings |
| `RecordFails` | the catch of one record: the loop goes on |
| `AdvanceCursor`, `AdvanceFails` | `advance_gp_rotation_cursor` |
| `Crash` | the process dies between any two statements |
| `CatalogObject`, `Hit`, `Publish` | a SATCAT commit, the API, Space-Track |

`work[p]` holds the locals of the record in hand (`prev` is used after the
insert although another run may have stored a row since). The vector of
rotation ids is a pair of sets, `primary` and `wrap`, each ascending;
`.back()` is the highest id of the last non-empty one. The two may share ids:
the wrap SELECT has no bound at the cursor. Each SELECT reads the `live` of its
own step; `candidates` and `catalogue` record, for the properties only, what the
primary one and the last one of a batch saw. `ORDER BY epoch DESC
LIMIT 1` is a choice among the rows of the highest epoch. An element set is its
`gp_id`, epoch and the orbit the rules read; TLE lines and other fields are
left out. A commit whose acknowledgement is lost is an insert followed by a
failure or crash at the next call. A row's id is drawn and committed in one
step, so the order of ids is the order of commits; in PostgreSQL two overlapping
inserts may commit in the other order. Gaps in a serial column are left out.
The query has no epoch filter (`gp_poller.cpp:47`); the README's filter text and the comment above the log
line are of an earlier version. `Featured` is a constant: migration 007 sets
the column once. `live`, the objects without a decay date, only grows: no row
ever gets one, which `NoDecayOnRecord` shows of the SATCAT poller.

`EventHistory` is what ingestion promises: per object a set of element sets that
only takes in later ones, and a log of `<<gp_id, event type>>`. In the mapping a
snapshot belongs to the history once its record is done with; the row of a
record whose events are being written is hidden with its events. An
`Unreported` snapshot is a loss of the abstract specification, of which there
are at most `MaxFaults`.

### ReadRoutes and ReadApi

The readers change no table. A request that is one SELECT is over at once, so what
it would be answered is an operator of the state (`SnapshotsServed`,
`EventsServed`). `ReadApi` adds to `GpPoller` only what a request holds between
two statements: `FindNoSnapshot` is the first statement of
`GET /objects/<id>/snapshot` when it finds no row, `AnswerNotFound` the second
one, which decides between the two 404s. `moments` is an observation: how things
were with the object at each moment of the request.

### Scheduler

One step per statement of `main()`; `Tick` moves the clock. `Deciding` are the
steps from the first check to the last stamp. `Cron` is a process that has
its credentials; one that finds none quits before it opens a connection and
leaves no trace. The client's session survives
from SATCAT to GP (`logged_in`); after a failed SATCAT login the GP poller
tries again. `MaxRun` lets a process live for longer than an hour.

### SatcatPoller and CatalogApi

The open transaction is the three variables `records`, `upserted` and
`inserted`; `Commit` makes it visible at once and `Leave` drops it. SELECT,
rules and upsert of one record make one step, because only a hit can come in
between and it touches none of the columns read. `Hit` waits for the row lock.
`site` stands for the three facts fixed at first sighting. There is one
process, because two SATCAT runs do not overlap: they are a day apart, and
`Scheduler` shows not only their stamps to be, but that the first is over when the
second begins, unless a process lives for a day (`SatcatRunsAlone`).

`CatalogApi` adds the stamp, the clock and the clients. The handler's two
SELECTs are `ReadMeta` (or `AnswerNotModified`) and `ReadRows`. A client sends either
header or none. A copy is marked `settled` if its rows were read when no run was
going on, before the first stamp as well as later. `hit_count` is in the
payload but left out of the comparison of contents: it changes with every
request and no validator is meant to cover it.

In `SharedCache` each client is a cache (a proxy or a browser's own) that obeys
HTTP: it serves what it stored while it is fresh (`Reusable`) to requests that
the stored `Vary` admits (`Matches`), forwards others with the validators of
what it has (`Forward`), takes over the headers of a 304 (`Revalidate`), stores
a 200 (`Fill`) and no 500 (`Drop`). `AllowedOrigins` and `CorsHeaders` are
`allowed_origins_from_env` and `after_handle`; the two headers that are the same
in every answer are left out. The rules of the cache are external: they model
HTTP caching as the handler's `Cache-Control` and `Vary` address it.

## 3. The runs

Every constant named `Max…` is a bound. None of the properties counts up to it;
the bounds are chosen so that each interesting event can happen at least once
more than needed for a first effect.

| run | instance | question and result |
|---|---|---|
| `gp_sequential` | `MCReadApi`: 1 process, 2 objects, 2 element sets each, 2 orbits that differ by two rules, a garbled record, 2 failures or crashes, 1 reader | **Holds.** `ReportLossBounded`: each failure costs the events of at most one snapshot. `DedupSufficient`: without overlap the UNIQUE constraint never fires. `NotFoundWasTrue`: a 404's reason was the case during the request. `ImplementsEventHistory`: readers see a history per object in ascending epoch and a log that reports each change. Two element sets per object give a first sighting, a change, and a repeat after a failure; two failures show that the losses add up and do not multiply. Readers do not meet, so one stands for all. |
| `gp_overlap` | 2 processes, 1 object, 3 element sets whose epochs may tie, a garbled record, 1 failure | **Holds.** `EventsJustified`: each event points at two stored snapshots of its object, in order, on which the rule fires, and the first of them had not been overtaken by a later epoch. `NoDuplicateEvents` and `AnsweredIsStored`: the constraint alone keeps the log free of duplicates and no answered element set is lost. `ReadsNeverGoBack`: by snapshot or event, no reader is shown an older state after a newer one. `RunComesToItsEnd`: each step leaves a run fewer to do, so neither a lost race nor a bad record is tried again within the run. Records of different objects share no row, so one object carries the race; three sets let one process be two behind the other. The processes are alike (symmetry). |
| `gp_rotation` | 2 processes, 3 objects of which the catalogue may hold any subset and grows, batch of 2, hot slice of 1, featured object, 1 hit, 1 failure | **Holds.** `RequestBounded` (an id is named twice only in a request that leaves out nothing the primary SELECT found), `NoSlotWasted`, `HotSliceAsPromised` (marked objects first, then what `/objects/popular` lists), `CursorSkipsNobody`, `SweepComesCloser` (a run that ends without a failure has heard of an object or leaves fewer ids before it), and under fairness `EveryObjectPolled`. Three objects with a batch of two give batches that wrap, that reach their own start and that lose an id to the hot slice; objects are added between any two of the three SELECTs; the second process writes a cursor it read long ago over a newer one. |
| `scheduler` | 2 process slots, an hour of 4 ticks, SATCAT interval of 2 hours, tolerance 1, stamp delay 2, runs of up to 6 ticks, 14 ticks, 1 death | **Holds.** `SkipsOnlyAfterLateStamp`, `PollersOnTime`, `StampsApart`, `SatcatRunsAlone` (two SATCAT runs never overlap), `StampedGpKeepsItsTurn` (nothing that becomes of the SATCAT half takes a stamped gp run out of its turn) and, under fairness, `StampedGpRuns`. Runs outlive the hour; decisions may be slower than the tolerance, so hours are skipped too; 14 ticks hold four hours: a late SATCAT stamp, the skip a day later and the run that makes up for it. |
| `satcat` | 2 objects, 5 entries (active, broken up, unnamed, decayed, too long), 4 amendments, 1 hit, 1 failure | **Holds.** `ImplementsCatalogHistory`, `NoDecayOnRecord` (no row ever gets a decay date), `CurrentImportsSettle` (an import from a current answer leaves every active object in agreement, and only an amendment undoes that) and, under fairness, `CatalogConverges`. Both objects can be amended before and in the middle of an import. |
| `catalog_api` | `MCSharedCache`: 2 objects, 3 entries, 1 cache, 2 origins and requests without one, max-age 1, 3 stamps, 1 failure | **Holds.** `SettledCopyIsCurrent`: a copy read outside a run is confirmed by its ETag only while it is current; by If-Modified-Since too, unless it is a copy of the empty catalogue (§4). `GrantsReachTheirOrigin`: an answer that names an origin is served to no other, through refreshes and expiry. Caches do not affect each other, so one stands for all. |
| `gp_rate_limit` | as `scheduler`, no death, stamp delay 1, 18 ticks | **Violated.** `GpRequestsAnHourApart`: see below. |
| `gp_bad_record` | 1 process, 4 objects, batch of 2, garbled records | **Violated.** `BatchNotStuck`. |
| `gp_straggler` | 2 processes, 1 object, 2 element sets of ascending epoch, no failure | **Violated.** `EventsOfSuccessiveRows`. |
| `satcat_decay` | 2 objects, entries that may decay | **Violated.** `DecayReported`. |
| `catalog_etag` | `MCCatalogApi`: clients without a cache's rules, no failure | **Violated.** `StrongValidator`. |
| `catalog_cors` | as `catalog_api`, no failure | **Violated.** `AllowedOriginsCanRead`. |

`CHECK_DEADLOCK` is on in every run.

**Fairness.** `FairSpec` asks for weak fairness of what a process does when
nothing goes wrong, and of nothing else: cron keeps starting processes, and
every call returns or throws. (curl has no timeout, so the second half is an
assumption about the network and the kernel's TCP timers.) Failures, crashes,
hits and publications are never forced; failures are bounded, so liveness says
"once failures stop". In `GpPoller` the start of a run is part of the fair step
— a process starts again — which is what cron provides and the scheduler's
`PollersOnTime` supports.

Each property of a passing run has a mutant in `PROJECT.json`: a plausible slip
in the code's own terms (an operator that stands beside the original and is
commented "Mutant of …") under which TLC finds the property violated.

## 4. What the violated runs show

* **Rate limit.** `README.md:98` and `P/main.cpp:19` allow one gp request an
  hour. The scheduler spaces the *stamps*; a run that first does the SATCAT
  import sends its gp request minutes after its stamp, and the next hour's
  request follows less than an hour later. It cannot get worse than that: while
  no process outlives the hour, two requests are an hour less the length of a
  run apart (`RequestsNearlyAnHourApart`).
* **Stuck batch.** `parse_gp_response` parses the whole answer before the loop;
  one malformed record fails the whole batch, the cursor stays, and the same
  batch is asked for again. `gp_poller.cpp:116–118` promises otherwise.
* **Decay.** The SATCAT query asks for `DECAY/null-val` only, so a decayed
  object disappears from the answer and `decay_detected` never fires
  (`README.md:150`, `decay_detected_rule.cpp:12`). Its row keeps a null
  `decay_date`, and the object stays in the GP rotation. `DecayNeverRecorded`
  proves this of every catalogue.
* **Stragglers.** `rule.hpp:8–9` says that a rule compares two consecutive
  snapshots with `prev.epoch < curr.epoch`, `README.md:126–128` that it runs
  against the immediately preceding one. `prev` is read in a transaction before
  that of the insert (`gp_poller.cpp:95`), and nothing keeps two runs apart: if
  one of them is still holding the answer of an earlier hour, an event is logged
  on two rows that another lies between, or whose epochs run backwards. What
  remains of the promise is `EventsJustified`: both rows are the object's, the
  rule fires on them, and the earlier one is never an element set that was
  already old when it was stored.
* **ETag.** `routes.cpp:430–432` calls the ETag a strong validator. The stamp
  precedes the commit, so a client that reads in between holds old rows under
  the label of the new ones and has them confirmed for a day.
* **CORS and caches.** `Vary: Origin` is added only for allowed origins
  (`cors_middleware.cpp:70`), while `routes.cpp:109` makes the catalogue
  cacheable by anyone for a day. An answer to a request without an `Origin` has
  neither `Vary` nor `Access-Control-Allow-Origin`; a cache serves it to a page
  of an allowed origin, whose script may not read it.

Other places where words and code differ, without a run:

* `README.md:17` and `db_writer.hpp:33` call the API read-only, but it counts
  hits.
* `db_writer.hpp:104` says to stamp after `run()` returns, but `main()` stamps
  before it, so a process that dies in between has used up the interval.
* `db_writer.hpp:31` reserves `audt_events` for the GP poller, but SATCAT events
  are written too.
* `db_writer.hpp:131–133` says that "every requested id stays unique", but the
  wrap SELECT has no upper bound (`db_writer.cpp:240`) and names ids of the
  primary one again when the catalogue is smaller than the batch. The repeat is
  harmless: `RequestBounded` says that it costs nobody a slot.
* `routes.cpp:421` labels the catalogue with `now()` before the first stamp. A
  client that read the empty catalogue in the second of that stamp asks with this
  date, and the `<=` of `If-Modified-Since` (`routes.cpp:447`) confirms its empty
  copy after the commit too. Its ETag does not: it counts no rows.
* `raan_shift_rule.cpp:20` subtracts two angles, so a node that drifts from
  359.997° to 0.003° counts as 359.994° and is logged, though `README.md:138`
  speaks of a change of more than 0.01°. These are the only false alarms
  (`FalseAlarmsOnlyAcrossZero`), and the rule misses no real move (`NodeShiftSeen`).
* `snapshots.gp_id` is a 32-bit column for a 64-bit field.
* The upsert has no `object_id` column, so no row ever gets one, though
  `db_writer.hpp:56–58` lists it among the facts set on first sighting.

## 5. What is proved

The theorems hold for any finite set of object numbers, any processes, orbits,
batch sizes and bounds. They assume only the named `ASSUME`s, which TLC
evaluates in the runs:

* `GpPoller`: `ObjectAssumption` (ids are natural numbers, finitely many),
  `BatchAssumption` (the hot slice fits the batch), `ContentAssumption`,
  `FaultAssumption`, and `MarkerAssumption` (the marker for "nothing published"
  is no element set);
* `ReadApi`: `ClientAssumption`, of the same kind;
* `Scheduler`: `ClockAssumption` (the delay of a stamp and the tolerance are
  shorter than an hour, the tolerance than the SATCAT interval, and the bound on
  the life of a process is a number);
* `SatcatPoller`, `CatalogApi`: `EntryAssumption` (entries are records of
  strings), `RowAssumption` and `StampAssumption` (markers are neither rows nor
  stamps);
* `SharedCache`: `OriginAssumption`, `MaxAgeAssumption`.

Some theorems have hypotheses of their own:

* `GpSingleRunProofs` is about runs that do not overlap
  (`\A p, q \in Process : p = q`) and a Space-Track that dates a new element set
  after the one it replaces (`EpochStep \subseteq Nat \ {0}`). With overlap or
  equal epochs the constraint does fire and the abstract history does not hold;
  the theorems of `GpPollerProofs` say what is left.
* `HourlyRunsDoNotOverlap` says where the first of these comes from: `MaxRun <
  Hour`, no process outlives the hour. The code sets no limit, so this is an
  assumption about the environment; `RequestsNearlyAnHourApart` makes it too.
  `SatcatNeverMeetsItself` needs the same of a day, and says so in the property.
* `EveryHourPolled` is the case the tolerance was made for, `StampDelay <=
  Tolerance`.
* `SweepAdvances` asks for `kGpMaxHotSlots < kGpBatchSize`. `main.cpp` has 200 and
  500; its `static_assert` allows equality too, and then a full hot slice would
  leave the rotation nothing and the cursor would stand still.
* `FalseAlarmsOnlyAcrossZero` takes nodes to be between 0 and 360 degrees, as
  Space-Track gives them.
* `ApiTypeCorrect`, `SettledCopyTrue` and `CachedCopyTrue` ask for a finite set
  of objects, because they speak of a row count.

**Ingestion, whatever overlaps** (`GpPollerProofs`). `TypeCorrect`,
`LogJustified`, `LogWithoutDuplicates`, `NoNewsDropped`. None of the safety
properties is inductive: that an event written later will be justified and new
depends on what a process holds in its locals. `IngestInv` adds: snapshot ids
are handed out once and lie below the sequence, and no element set has two rows
(`RowIds`); a record in hand compares with a committed row of its object
(`InHand`); what is still to be reported for a new row is what the rules fire on
the pair and is not in the log yet (`BeingReported`); and it is in one process's
hands only (`OneReporter`). `IngestInvariant` proves it action by action; steps
that touch neither table share the lemma `QuietStep`. `FalseAlarmsOnlyAcrossZero`
reads off the same invariant what a `raan_shift` in the log is worth.

**Ingestion, run by run** (`GpSingleRunProofs`). The arguments are about time.
`DedupInv`: Space-Track numbers and dates an object's element sets in the same
order, and a run never holds an answer older than what is stored; so a record
that is not the latest is in no row (`DedupEnough`). `LossInv`: rows of an
object are stored in the order of their epochs, and the row in hand is the
successor of the one it was compared with; so a failure takes the events of one
snapshot (`LossBounded`). `Telling` adds which events of the row in hand are in the log:
those of the rules registered before the ones to come. From these,
`ImplementsHistory` maps each action to a step of `EventHistory` or a stutter:
the step that ends a record accepts its element set, with all its events or, on
a failure, the first of them.

**Selection** (`GpTargetsProofs`, `GpRotationProofs`). `IsBatch` says what a
batch is when each SELECT has its own rows: `primary` chosen from one set of
ids, `wrap`, if the first left a slot, from a larger one. `ArcCovered` is an
arithmetic and cardinality argument about `LowestIds`: primary and wrap, with
the excluded ids, contain each id the primary SELECT saw between the old cursor
and the new one, over the end of the catalogue too. `SelectionInv` says where a
process is between its statements (`Choosing`, `PrimarySelected`) and that past
them it holds exactly such a batch (`Selected`), past its answer has heard all
targets (`Working`). It gives `RotationSkipsNobody`; `RequestsBounded` and
`RequestsFilled` count the same batch — the primary SELECT left a slot only
after all rows above the cursor, and a wrap that comes to one of them again has
taken all rows below it — and
`HotSliceKeepsPromises` compares the hot slice with the order of
`/objects/popular`. `SweepAdvances` is the progress behind the sweep: `Ahead` is
the set of ids between a cursor and an object, round the end of the catalogue;
an object that the primary SELECT saw and that is not in the batch has the
batch's last target in its `Ahead` (`LastTargetIsCloser`), so the new cursor has
strictly less ahead of it. `Ahead` counts the rows of the last SELECT: a row
committed between the two, which the wrap may take instead of one the primary
SELECT saw, was ahead of the cursor that was read and is not ahead of the one
that is written. What a run can still undo is the progress of a run that moved
the cursor in the meantime; that the sweep gets everywhere all the same is what
`EveryObjectPolled` checks.
`RunsComeToTheirEnd` is the progress of one run: `StepsLeft` counts what the
record loop can still cost. It needs that an answer fits the batch
(`AnswerFitsBatch`), that it is finite, and that a record in the event loop has
an event left to write (`SomethingToWrite`).

**Readers** (`ReadApiProofs`). `ReadersAreHarmless`: `ReadSpec => Spec`, so
all of the above holds with readers. `CatalogueInvariant`: snapshots, and records on
their way to one, are of catalogued objects. `ReadersMoveForward` (of `Spec`, so
with or without readers) rests on it and on the log's events pointing at rows; `NotFoundAlwaysTrue` on
`moments` holding every situation since the first statement.

**Scheduler** (`SchedulerProofs`). `SchedulerTypeCorrect`,
`SkipNeedsLateStamp`, `EveryHourPolled`, `StampSpacing`, `PollersKeepTime`.
`SchedulerInv`: at most one process decides, it was started by the latest firing
of cron and not longer than `StampDelay` ago; the gp stamp it sees is of an
earlier hour; what it found due is still due when it is stamped. `OnTimeInv` adds
how old a stamp may be: counted from the hour before while the process of this
hour has not decided on the poller or has not stamped it, from this hour after
that. `LifeInv` relates a process's age to its start: it gives
`SatcatNeverMeetsItself` (a second SATCAT stamp is later than the first run can
last) and `HourlyRunsDoNotOverlap`, and with `RequestInv`, how old the last gp
request is when a process starts, `RequestsNearlyAnHourApart`.
`SatcatCostsNoGpRun` lists where a process with a stamped gp run can go next.

**Catalogue** (`CatalogApiProofs`). `SatcatTypeCorrect` needs that nothing is
written before the answer is there (`NothingWritten`). `ImportIsAtomic`: while the
transaction is open, the events inserted are those of the rows upserted, compared
with the rows readers still see (`HistoryInv`); so the commit is an import of
`CatalogHistory` and every other step of the run a stutter. `ImportsSettle`: from a
current answer, an active object is either in agreement, or its record is still
to come, or its row is in the open transaction (`WrittenOrToCome`); the commit
leaves only the first. `DecayNeverRecorded`: neither the table nor the open
transaction holds a decay date (`NoDecayInside`). `ApiLeavesImportAlone` shows
`ApiSpec => Spec` for the poller beside its clients, so all of this holds with the
API running. `ApiTypeCorrect`
types the handler and its clients. `ApiInv` bounds every label by the stamp
(`LabelOfPast`) and distinguishes two kinds of settled copies (`CopyOfPast`).
One under the latest stamp: then the poller is idle and the table still holds
what the copy says, and a new stamp, later than every label, must come before the
next commit (`Stamped`). And one whose ETag counts no rows: it says that there
are none (`Unstamped`), which its ETag confirms only of an empty table. Before
the first stamp there are no rows (`EmptyBeforeStamp`). It gives
`SettledCopyTrue`, for a finite set of objects, as it counts rows.

**Caches** (`SharedCacheProofs`). `CacheIsClient` shows `CacheSpec => ApiSpec`,
from which `CachedCopyTrue`; `GrantsStayHome` needs that a stored answer names
an origin only together with `Vary`, of a request of that origin (`GrantInv`).

**Model-checked only.** The three liveness properties under fairness
(`EveryObjectPolled`, `CatalogConverges`, `StampedGpRuns`) are out of the
prover's reach. What is proved is the half of each that the code is responsible
for, namely that every step goes the right way: `SweepAdvances` with
`RunsComeToTheirEnd`, `ImportsSettle`, `SatcatCostsNoGpRun`. What stays with TLC
is that fairness then takes the steps, and that failures stop. Every invariant
and action property of the passing runs and both refinements are proved.

## 6. Not modelled

* `GET /objects`, `/objects/search` and `/objects/top-events`: a single SELECT
  formatted as JSON, with no state and no relation to another request; the two
  counts of `/stats`, which nothing relates to each other.
* Start-up of the API process, log timestamps, connection set-up.
* HTTP, cookies and URL encoding of the Space-Track client; a request of it
  succeeds or fails as a whole.
* Header syntax (quotes, lists, dates of the conditional headers): reduced to
  equality and order. The `max-age` of preflight answers and the constant CORS headers.
* `detail_json` of events, TLE lines and the fields no rule reads.
* Numbers: thresholds and deltas are integers in units of 10⁻⁴ degrees and the like;
  the rounding of doubles is left out.

`PROJECT.json` gives the reason beside each component.

## 7. Plan

Done: ingestion, rotation, scheduler and SATCAT with the API's view of it; then
readers, caches and CORS, overlapping sweeps, stragglers; the rotation statement
by statement; the proofs
of all safety properties and refinements, and of the progress behind the
liveness properties.

Left, in the order of what it would add:

1. `Scheduler` composed with `GpPoller`, so that the overlap of runs is the
   scheduler's and not free (the theorems about free overlap cover it, and
   `HourlyRunsDoNotOverlap` says when there is none; the composition would say
   which of the overlaps really happen);
2. the theorems of `GpSingleRunProofs` for two runs that overlap: how much the
   constraint and a stale `prev`, which `gp_straggler` shows, can cost beyond
   `faults`;
3. a run of the rule engine of its own: rules at their thresholds against a
   reference definition, and drift that stays below them;
4. the featured seed of migration 007 as a step, if the repository comes to say
   what it should do on an empty table.
