# klend-indexer: a TLA+ development

This directory specifies klend-indexer in TLA+, model-checks the specification
with TLC and proves its central theorems with TLAPS. The source is the
reference: every definition is translated from the code, and `PROJECT.json`
names the lines.

The promise the project is organised around is the one the code repeats:
*prefer duplicates over holes*. The indexer reads a billed stream that cannot be
asked for old slots, writes batches into ClickHouse, advances a checkpoint
behind them and resumes from it. Whatever crashes, hangs or is not replayed,
the checkpoint must never stand past data that is silently missing, and what is
missing must leave a row in `slot_gaps`.

## 1. The system

| Part | Source | State it keeps | Operations | Talks to |
|---|---|---|---|---|
| Stream indexer | `src/main.rs` | four row buffers, resume point, `force_tip`, first/last slot, per-session seam state | reconnect loop, select loop, batch flush, seam judgement, gap rows, budget and signal stops | provider (gRPC stream), hot store (inserts, one read), supervisor (exit, signals) |
| Resume classifier | `src/resume.rs` | none | `classify_resume` | called by the indexer; its threshold is shared with the archive audit |
| Hot store | `schema/*.sql`, `src/schema.rs` | `account_updates`, three decoded tables, `ingest_checkpoint`, `slot_gaps`, `snapshot_runs` | `ReplacingMergeTree` inserts, `FINAL` reads | everything |
| Snapshot writer | `src/bin/snapshot.rs` | progress of one run | pages accounts over RPC, writes rows, then a run row | hot store |
| Parquet export | `src/bin/parquet_export.rs`, `src/coldpath.rs` | one file per slot partition, `.tmp` files | bounds query, skip rule, stream, rename, row check | hot store (reads), file system |
| Archive audit | `src/bin/coldquery.rs` | none | gap query over the archive | file system |
| Decoders | `src/decode.rs` | none | layout casts, integer health factor | indexer, snapshot writer |
| Payload guard | `src/payload.rs` | counters and a slot span, for the life of the process | `observe` | indexer (which logs what it says) |
| Watchdog | `deploy/watchdog.sh` | time of its last restart | freshness query, `docker restart` | hot store, Docker |
| Lifecycle scripts | `deploy/*.sh` | container, restart policy, systemd units | boot, freeze, resume, health check | Docker, GCE, ClickHouse Cloud |
| Query proxy | `web/proxy.js`, `web/chclient.js` | response cache | `runQuery`, one HTTPS request per miss | hot store, browsers |
| Static dashboard | `deploy/install-dashboard-export.sh`, `web/export.js`, `web/queries.js`, `web/index.html` | timer, a run in progress, a file under `/run`, the published `stats.json`, the page's copy | generate, publish, refresh | hot store, bucket, browsers, freeze and resume |
| ClickHouse connect | `src/ch.rs` | none | connect with or without TLS | hot store |

The indexer is one tokio task. It interleaves with the outside only at its
awaits: the provider's messages, the ClickHouse server's replies, timers and
signals. Its interesting neighbours are a provider that may replay further back
than asked, exactly, or (without an error) not at all; a native ClickHouse
connection that may become half-open, so that a write neither fails nor is
acknowledged; and a supervisor that restarts the process with its memory gone.

### What is hard, and what makes each part correct

- **Indexer.** Crash between the data inserts and the checkpoint insert; a slot
  split across two batches; a checkpoint insert given up on that lands later; a
  session that silently opens past the resume point; two code paths writing gap
  rows under one key; waits without a timeout. Correct when: no checkpoint is
  ahead of its data, every hole leaves a row, no gap row is fiction, stops flush,
  a bounded sample never re-opens the stream, and every produced update is
  eventually stored or accounted for.
- **Export and audit.** Export racing with ingest; the skip rule for "closed"
  partitions; crash between write and rename; the audit's threshold. Correct
  when: a published file is whole, a run archives what the store held, and a
  difference between audit and gap table means a defect.
- **Supervision.** Watchdog, restart policy, boot script and freeze/resume acting
  on one container. Correct when: a stalled indexer is restarted, a healthy one
  is not, and a frozen machine stays frozen.
- **Snapshot writer.** A page that fails after others were written; a re-run.
- **Intake.** Payloads that arrive in the wrong shape while rows go on flowing; a
  health factor narrowed from 128 bits; a risk list drawn from histories. Correct
  when: no destroyed payload goes unannounced and no alarm is false; a whole
  obligation has its decoded row; a position at risk reaches the list and only
  such a position does.
- **Proxy.** Concurrent misses; an older answer cached after a newer one; an
  upstream that falls silent. Correct when: an answer is no older than it may be,
  the database is asked only when the cache has nothing, and nobody waits for ever.
- **Static dashboard.** Runs longer than the timer's interval; a generator that ends
  well and writes nothing; ages that stand still in a file; a last refresh racing the
  timer. Correct when: a run publishes what it has read, on time, the page's
  numbers together do not flatter the pipeline, and a frozen page is the last one.

`PROJECT.json` lists each hazard at its line.

## 2. Modules

| Module | Models | Kind |
|---|---|---|
| `Resume` | `resume.rs` | operators, no state |
| `Indexer` | `main.rs` with its tables, provider, connection and supervisor | state machine |
| `ResumableLog` | the contract of `schema/002_checkpoint.sql` | abstract specification |
| `GapAudit` | the `gaps` query of `bin/coldquery.rs`, over the rows `Indexer` and the snapshot job store | operators on `Indexer` |
| `MCIndexer` | small instances of both for TLC | model |
| `IndexerProofs` | theorems about `Indexer` | proofs |
| `GapAuditProofs` | theorems about `GapAudit`, on top of those | proofs |
| `ColdExport` | `bin/parquet_export.rs`, the layout of `coldpath.rs`, and the writers of the hot store beside it | state machine |
| `Archive` | what `coldpath.rs` promises of the cold copy | abstract specification |
| `MCColdExport` | a small instance for TLC | model |
| `ColdExportProofs` | theorems about `ColdExport` | proofs |
| `Snapshot` | `bin/snapshot.rs`, with the chain and the stream beside it | state machine |
| `MCSnapshot` | a small instance for TLC | model |
| `SnapshotProofs` | theorems about `Snapshot` | proofs |
| `Machine` | `deploy/`: watchdog, boot script, freeze and resume on one machine | state machine |
| `MCMachine` | a small instance for TLC | model |
| `MachineProofs` | theorems about `Machine` | proofs |
| `Intake` | one account message: `payload.rs`, kinds of `schema.rs`, lengths and health factor of `decode.rs`, the risk query of `queries.js` | state machine |
| `MCIntake` | a small instance for TLC | model |
| `IntakeProofs` | theorems about `Intake` | proofs |
| `Proxy` | `web/proxy.js` over `web/chclient.js` | state machine |
| `MCProxy` | a small instance for TLC | model |
| `ProxyProofs` | theorems about `Proxy` | proofs |
| `Dashboard` | timer and worker of `install-dashboard-export.sh`, `web/export.js`, the page, steps 5 and 6 of `freeze.sh` and 3 of `resume.sh` | state machine |
| `MCDashboard` | a small instance for TLC | model |
| `DashboardProofs` | theorems about `Dashboard` | proofs |

### How `Indexer` corresponds to the code

`pc` names the await points of `main`. The code between two awaits is one action.

| `pc` | Where `main.rs` stands | Actions leaving it |
|---|---|---|
| `down` / `stopped` | no process / process ended by intent | `Boot` |
| `resume` | top of `'reconnect` | `ReadCheckpoint`, `StartFromTip` |
| `subscribe` | connect and subscribe | `Subscribed`, `SubscribeRejected` |
| `stream` | the `select!` | `Delivers`, `TimerFlush`, `LeaveStream`, `ReplayErrors` |
| `insert` | inside `Writer::flush` | `InsertRows`, `InsertCheckpoint`, `InsertFails` |
| `handled` | an account message processed, its flush (if any) done | `StopOnBudget`, `Judge` |
| `gap` | inside `record_gap` | `RecordGapReturns`, `RecordGapErrs` |
| `ended` | after `'stream` and the final flush | `Stop`, `ResumeUnreachable`, `Reconnect` |

`ret` is where a flush or a gap row returns to. `buf` and `batch` are the four
row buffers before and after `std::mem::take`: raw and decoded rows of an update
are buffered together, so one sequence of updates stands for all four, and
`TablesOf` says which tables an update's rows go to. `unsent` is the set of
tables a flush has still to go through, in the order of the code. `limbo` holds
checkpoint inserts the client gave up on that the server may yet apply.

Four variables are observations no guard of the code reads: `base` (the last
resume point read), `seams` (stretches some session did not serve), `unrecorded`
(starts of gaps whose insert returned an error) and `opened`.

`slot_budget` is chosen once, from the constant set `Budgets`: `NoSlot` for the
unattended process, a number for a bounded sample (`KLEND_SAMPLE_SLOTS`).

`Crash` may happen at any point; it stands for every `?` that leaves `main`, a
panic, SIGKILL and a lost host. The provider is external: `Openings` is the set
of slots it may serve a request from, including past the request with no error,
and including `Nowhere`, a session whose first message is the replay error.

### How `ColdExport` corresponds to the code

| `pc` | Where `parquet_export.rs` stands | Actions leaving it |
|---|---|---|
| `done` / `failed` | no run / the run returned an error or was killed | `StartRun` |
| `bounds` | the bounds query of a table | `ReadBounds`, `EmptyTable` |
| `part` | head of the partition loop | `SkipPartition`, `OpenPartition`, `EndTable` |
| `stream` | reading the rows of a partition | `ReadRow`, `EndPartition` |

The two near-twin functions that export a partition are one set of actions,
parameterised by `table`. `groups` are the rows in row groups already written to the
temporary file, `pending` those in the batch builder. The store holds each row in some
number of copies; `count()` counts `Copies`, the query of a partition reads rows.
`RunFails` stands for each `?` and for a kill. `Ingest`, `Replay` and `Merge` are the
store's other users: a stream in slot order, replays that leave a second copy until a
merge, and snapshot rows at any slot. `before` and `disturbed` are observations.

### How `Snapshot` corresponds to the code

| `pc` | Where `snapshot.rs` stands | Actions leaving it |
|---|---|---|
| `idle` | no run | `Start` |
| `fetch` | the RPC request of a page | `Fetch` |
| `insert` | the inserts of `fetch_and_write` | `Insert`, `EndPage` |
| `record` | after the last page | `RecordRun`, `EndsUnrecorded` |

`call` counts the requests: for the known kinds one per owner byte, then the reserves,
then the markets; for `all` a single one. `unsent` holds, per table, the accounts
whose row is not inserted yet; tables are filled in the order of the code, in chunks
that `insert_chunked` splits off. `InsertFails` is a chunk that ends in an error or a
kill, applied or not, `RecordFails` the same of the run row, and `RunFails` an RPC
error or a kill in between. The chain (`ledger`, `tip`) and the stream (`streamed`,
`lost`) are external: `Fetch` answers with the state at the end of any completed slot,
since nodes behind the endpoint need not be level. `at` and `spans` are observations.

### How `Machine` corresponds to the code

Four scripts act on one container, each with a variable that says where it stands:
`script` (`gce-startup.sh`), `watchdog` (`watchdog.sh`: asleep, `judged`, between the
freshness query and the restart it decides on, or `waits` for `docker restart`),
`freeze` and `resume`, named after the step that comes next. `container`, `policy` and
`proc` are Docker's; `enabled` and `settled` what systemd and `/run` keep; `age` is the
number the watchdog asks the store for. Time is a `Tick`: it waits for a check that is
due, so `next_check` counts the sleep of `watchdog.sh`, and for a healthy process to
write (`MaxQuiet`, `MaxStart`), but for no stalled one.

`restart` is a `docker restart` inside dockerd. It is two steps, `RestartStops` and
`RestartStarts`, between which any script may act, and it belongs to nobody: a watchdog
that is stopped or crashes takes the client with it, not the restart. Each command of
the freeze's second stage ends in `|| true`, so each may fail and the script goes on
(`Shrugs`). `CheckFails` is each early return of the watchdog that means "cannot tell";
`FreezeAborts` is `set -e`. `Reboot` empties `/run`, ends a restart, lets Docker start
what its policy says and begins the boot script; a session of `freeze.sh` that is open
on the host dies with it; whether the enabled unit survives is left open, because
`/etc` need not outlive a boot on this host. `late` and `unexported` stand for what the
archive lacks of the two tables `freeze.sh:181` exports (the market and reserve tables
and `slot_gaps` are not archived at all): a full export archives what the store held
when it began, which is what `ColdExport` proves of it (`FullRunIsComplete`).
`stalled_for`, `hiccups`, `masked` and `troubles` are observations; `troubles` are the
things that came in the way of the freeze under way: a `command` that failed, a
`restart` that dockerd still had before it when `docker stop` returned, a `boot` script
that created the container anew, a `snapshot`. `started` and the bounds `MaxQuiet` and
`MaxStart` say when a working process writes.

### How `GapAudit` corresponds to the code

The audit is a query without state, so the module adds operators to `Indexer`:
`Observed` and `Stepped` are the two common table expressions of `GAPS_SQL`,
`AuditedGaps` its result. The query reads every row of `account_updates`, those of the
snapshot job too. Their slots are the RPC's, so they may lie anywhere up to the tip: the
operators take them as a parameter `S`, and a gap counts as found when some set of them
(`SnapshotSlots`) lets the query list it. They can split a gap, move its ends, or make
one past the indexer's newest row. That a full export holds what the hot table held is
`FullRunArchivesAll` of `ColdExport`, and is taken for granted here.

### How `Intake` corresponds to the code

`Receive` is the Account arm of `main.rs` for one message: `Observe` is
`PayloadGuard::observe`, `Decodes` the kind and then the decoder's length check (the
cast after it wants an address divisible by 8, which offset 8 of an allocated buffer
has; its failure is left out), and the raw row is pushed whatever they said. An update
is its index in `log`, which stands for the write version; `raw` maps it to the length
of the stored data and `snaps` has those with a decoded row. `slice` is what the running
build asks for: no slice, as today, or one, as before the incident `main.rs:323-354`
tells of. `Sliced` is the provider's part in it. `Reconnect` keeps the guard and
replays, `Restart` makes a new guard and may be of another build. `FilteredOut` is the
subscription's filter, which a closed account no longer passes. The `risk` query is an
operator: `Picks` are the choices `argMax` has, `RiskLists` every answer the query may
give. `silent` and `told` are observations.

### How `Proxy` corresponds to the code

| Phase of a request | Where it stands | Actions leaving it |
|---|---|---|
| `idle`, `served`, `failed` | the client has no request out | `Hit`, `Miss` |
| `asked` | `https.request` sent, no header yet | `Header`, `Fail`, `Timeout` |
| `reading` | header in, body not complete | `End`, `Fail`, `Timeout`, `Cut` |
| `lost` | the promise will not settle | none |

An entry of `cache` is the `{at, payload}` of the code; a payload is the time the
database read its data. `Tick` does not pass a timer that is due.

### How `Dashboard` corresponds to the code

| Phase of `run` | Where the worker stands | Actions leaving it |
|---|---|---|
| `off` | no run | `Elapse`, `FreezeRefreshes` |
| `query` | the queries before `system`, one by one | `PanelAnswers`, `GeneratorFails`, `GeneratorVanishes` |
| `system` | the `system` query sent, not evaluated | `SystemReads`, `GeneratorFails` |
| `read` | evaluated, no header yet | `SystemHeader`, `GeneratorFails` |
| `body` | the header in, the body under way | `SystemAnswers`, `GeneratorFails`, `GeneratorVanishes` |
| `put` | the generator ended with status 0 | `Publish`, `PutFails` |

`out`, `bucket` and `page` are the three places a `stats.json` is in. A file is three
times: when the last row had landed, when the query read that, when it was written;
`ingest_age_s` is the second less the first. The client's timeout is one of inactivity,
so a query may be silent for `QueryMax` before its header and again after it, as in
`Proxy`. `Elapse` waits for the run in progress: a timer that elapses while its unit is
activating starts it again when the run is over. `freeze` follows `freeze.sh` from the
stop of the indexer; its steps 2 to 4, which `Machine` has one by one, are one here, and
`leak` says whether they left a writer running: the troubles of `Machine`, a snapshot
container, or the boot script of a later reboot. `final`, `troubled` and `troubles` are
observations.

## 3. Runs

All instances of the indexer have four updates in slots 1, 2, 2, 4, tables chosen so
that each decoded table occurs, batches of two (so that a batch can end in the middle of
slot 2, in a session that opened at slot 1 or at slot 2), a tolerance of one slot, a
replay window of two and a tip of at most four: slot 2 is a drift of one past slot 1,
within the tolerance, slot 4 is beyond it from both, and a checkpoint of 1 falls out of
the window while the process is down. Faults are bounded by `MaxFaults`; two are needed
for the smallest interesting histories (lose a batch, then lose its recovery), three for
those in which a gap row is followed by another. `CHECK_DEADLOCK FALSE`: a quiet chain
with everything delivered is a legitimate state of rest.

| Run | Question | Result |
|---|---|---|
| `safety` | the indexer, unattended or a bounded sample of two slots, over-replay of one slot, three faults, with the audit beside it | holds |
| `liveness` | is every produced update eventually stored or accounted for? | holds |
| `gap_row_bounds` | does a gap row span the hole it stands for? | violated |
| `cold_export` | two export runs beside the writers, failing anywhere | holds |
| `cold_incremental` | is a skipped partition identical to what it would be? | violated |
| `snapshot` | two snapshot runs beside the chain and the stream | holds |
| `machine` | all scripts, a `docker restart` in two steps, one failed check and two of: reboot, snapshot batch, failed command of the freeze | holds |
| `freeze_race` | is the stream frozen once `freeze.sh` has stopped it? | violated |
| `intake` | three account messages, replayed, destroyed, decoded, listed | holds |
| `risk_list` | does the risk list show the newest state of a position? | violated |
| `proxy` | concurrent requests, late answers, failures, silence | holds |
| `dashboard` | timer, worker, bucket, page, freeze and resume, with two troubles | holds |

The export's instance has partitions of two slots, row groups of two rows and five
rows: three that the stream writes, in the first partition and two partitions on (so
that the one between stays empty), one that a snapshot writes to the first partition
at any time (so that it holds a row group and a half), and one decoded row (so that
both tables are walked). Two runs are what it takes for a run to find, skip or
replace a file. `CHECK_DEADLOCK FALSE`: once every row is stored and the runs are
spent there is nothing left to do.

The snapshot's instance has two pages of obligations with one each, and a market that
the decoder refuses; the first obligation and the market are idle from the start.
Batches of two and the scope `all` give a chunk and a remainder. Two writes, two slots,
one lost update and two runs are enough for a change between pages, before and after
them, and for a failed run before one that is recorded. `CHECK_DEADLOCK FALSE`: in the
end all writes and runs are spent.

The machine's instance has a threshold of three ticks, checks every two, a cooldown
and a longest silence of one: the order of the code's 900, 300 and 180 seconds and
the measured 90. Two incidents in any combination reach a failed command after an
aborted freeze, or a reboot of a machine with a failed `docker update`; more are of
little use, because the properties below excuse what a single one breaks. `freeze_race`
has the same instance without incidents. The machine never rests, so deadlock is
checked.

The intake's instance has two obligations and a reserve, words of 6 bits and a scale
of 4: an obligation may be healthy (with a product that does not fit a narrow word),
at risk, repaid, without collateral, left with a debt so small that the quotient does
not fit, or closed. Three updates in two slots give two rows of one obligation in one
slot or in two, and another position that competes for the one place of the list; a
destroyed payload replayed twice reaches the repetition of the alarm, due every third.

The proxy's instance has two clients, as many as it takes for answers to overtake one
another, and two names, so that entries do not interfere. A time to live is as long as
an upstream request can take, and the clock leaves room for two entries in turn.

The dashboard's instance has one query before `system`, limits of one tick and an
interval of two, so that a run can outlast the interval by far; with it a `Lag` is 7
ticks, and the clock has 9. Rows may land at 3. Both bounds are tight: with one tick less
in `Lag`, or one `QueryMax` less in `ShownTogetherTheyBound`, TLC finds them violated.
Two troubles allow a failed
last refresh, a freeze after a failure, and a reboot after a freeze. In all three
`CHECK_DEADLOCK FALSE`: the clocks, or the chain and the faults, are bounded.

What the passing properties of the indexer say:

- `CheckpointCovered`: everything below the checkpoint is in every table it
  belongs to, or lies in a stretch some session was not served.
- `ImplementsLog`: the same as a refinement. `ResumableLog` is a log that only
  grows, a list of acknowledged skips that only grows, and a horizon that may move
  either way but never to where something below is neither stored nor skipped.
- `EveryHoleLeavesARow`: what the checkpoint passed by without storing was lost
  before the first checkpoint, or within tolerance, or has a row in `slot_gaps`
  under its resume point, or that very insert returned an error.
- `StartupRowsAreReal`: when the detector writes a row, the session did open past
  its request. (At that moment: a later replay that is honoured can fill the hole,
  and nothing withdraws the row.)
- `NoHoleOutsideSeams`: whatever is missing before a stored row, some session was not
  served. Crashes, late inserts and batches cut through a slot make no hole, not even
  one beyond the checkpoint, or in the time before the first.
- `AuditAgreesWithGapTable`: what a gap listed by the audit lacks was lost before the
  first checkpoint, or in a drift within tolerance (of several that add up), or under a
  resume point with a gap row, unless that insert returned an error. It speaks of what
  the indexer has passed by, wherever snapshot rows lie; of a gap that ends at a snapshot
  row past the indexer's newest it says nothing, for the stream may just be late.
- `StopLosesNothing`, `OneStreamPerSample`, `SeamIsJudged`: stops and samples. A stop,
  by budget or signal, has stored what the session delivered; a sample opens one stream;
  and from the end of the step that handles a session's first account on, through every
  later flush, drop and stop, its seam is judged.
- `EveryUpdateSettles`: liveness, below.

And of the export:

- `ImplementsArchive`: the archive only grows and holds only stored rows, through
  failed runs, re-exports and merges.
- `PublishedIsWhole`: a file that appears or changes has all its partition held when
  the run began; no reader sees less.
- `FullRunArchivesAll`: after a successful full run, as `freeze.sh` makes before it
  stops the database, everything the store held at its start is archived.
- `QuietRunHasNoDefect`: with nothing written since the bounds were read, as in a
  freeze, the row check does not cry defect.

And of the snapshot:

- `ReadsAsOf`: after a recorded run, the newest row of an account up to a slot the
  stream has passed is its state at that slot, whether it was idle since before the
  stream, or its updates were lost before its page was answered. It fails if a row is
  dated by the run and not by its answer. What was lost in the very slot of the answer
  counts as lost since: a snapshot row sorts before the stream's rows of its slot, so
  it does not replace the first of two updates of which the second was lost.
- `RecordedRunIsBacked`: a run row appears only when its data is there.
- `RunsAddUp`: the counts in a run row agree with each other.

And of the machine:

- `UnmaskedStallIsCaught`: a stalled process is restarted within the threshold and
  one interval, and one more interval for each check that could not tell or act,
  unless a snapshot wrote meanwhile, the watchdog was off or the database stopped.
- `FrozenUnlessTroubled`: once `freeze.sh` has stopped the writers, the indexer runs
  only if one of its commands failed, a `docker restart` was in dockerd when `docker
  stop` returned, or the boot script of a reboot created it anew. The restart policy
  does not bring it back, nor does a reboot whose boot script fails, nor a watchdog that
  had judged and not yet asked. `StreamIsFrozen`, without the exceptions, is violated.
- `QuietFreezeIsComplete`: unless one of those troubles or a snapshot came between, the
  database is stopped with every row of the two exported tables in the archive, also
  when a freeze is run again after one that was aborted.
- `ResumeRestores`: when `resume.sh` ends and its boot script succeeded, there is a
  container with its restart policy and a watchdog, whatever state the earlier
  freeze, boot or failure had left.

And of the intake:

- `LossIsAnnounced`: the first destroyed payload raises an alarm, and there are never
  `REPEAT_EVERY` between two alarms, whatever closures and replays come between.
- `AlarmsAreReal`: only a message that destroys a payload raises an alarm.
- `WholeObligationsDecode`: an obligation stored whole has its decoded row, also when
  copies of it were destroyed before or after, by a replay to another build.
- `NewestRiskIsListed`: when the only row of an obligation's newest stored slot is at
  risk, it is listed, or the list is full of rows as low. With several rows in that
  slot `argMax` may take any, which is why the property says "the only".
- `ListedWasAtRisk`: a listed row had collateral below twice its debt, unless the
  quotient was too large for 64 bits (`Wraps`).

And of the proxy:

- `ServedIsRecent`: an answer is no older than the time to live and the longest an
  upstream request may take, even when the older of two answers is cached last.
- `AskedOnlyWhenStale`: a query that is out was asked before the last answer of its
  name was complete, or a time to live after it. How many such there are at once
  nothing bounds.
- `SilenceEnds`: liveness, below.

And of the static dashboard:

- `PublishesOnTime`: while the timer is on and nothing has gone wrong lately, the
  published file is younger than a longest run and an interval (or a PUT, if that takes
  longer): a run that outlasts the interval delays the next and does not starve it.
- `RunPublishesItsOwn`: what reaches the bucket was read by the run that sends it,
  also after a generator that wrote nothing.
- `ShownTogetherTheyBound`: the age of the last row is at most the age shown, the time
  since the file was generated, and two silences of the client (`2 * QueryMax`, 40
  seconds): the answer may take one before its header and one after it, and the age
  shown was taken before both. Neither number alone bounds anything.
- `FinalPageIsFinal`: after a freeze that stopped the writers and whose own last refresh
  succeeded, the bucket shows the last row there is. A refresh that merely waited for a
  run begun earlier, or failed, promises nothing.

The violated ones each quote a comment of the code that says otherwise; see "findings"
in `PROJECT.json`. The first to act on is `cold_incremental`: an incremental export
leaves a hole in the archive for every partition that an earlier run had exported while
it was still growing. Then `freeze_race`: a freeze that meets a `docker restart` of the
watchdog halfway is followed by a running indexer, whose rows miss the export. Then
`risk_list`: a position that was repaid stays on the Risk Radar with the last health it
had, which is what the run shows (`ListedStillBorrow`: a listed obligation has a borrow
in a row of its newest slot); one that lost all its collateral stays there with an old
health in the same way. `gap_row_bounds` does not contradict `CheckpointCovered`: it
concerns how a hole is described.

Smaller divergences met while modelling have no run of their own:

- `main.rs:122` checkpoints the last row of a batch without looking at the stored
  checkpoint, so over-replay can move it back; `schema/002_checkpoint.sql:17` calls it
  the maximum seen. `CheckpointCovered` and the refinement allow for it.
- `resume.rs:113` calls both bounds of a startup gap "slots we hold"; the tail of the
  start slot may be unwritten when its batch was split.
- `main.rs:825`: `KLEND_SAMPLE_SLOTS=0` is accepted (`main.rs:456-460`) and spent by the
  first account message, which leaves the loop before its seam is judged; `main.rs:856`
  says "Judged once per session, on the first account slot seen" and `:854` that "this is
  the only place it is observable". If that session opened past its resume point, the
  flush after the loop moves the checkpoint beyond a hole without a row. This came out of
  the proof of `HolesLeaveRows`, which needs `0 \notin Budgets`; with 0 among the budgets
  of `MCIndexer` TLC finds both `SeamIsJudged` and `EveryHoleLeavesARow` violated.
- `parquet_export.rs:680`: rows that arrive between the bounds query and the partition
  query make the row check print DEFECT where there is none; `QuietRunHasNoDefect`
  says when it does not.
- `watchdog.sh:97`: the cooldown knows only the watchdog's own restarts. After a boot
  or a resume with a stale store the first check restarts a container that has only
  just started.
- `main.rs:1000`: a resumed session that drops in a quiet span, before its first
  account, counts as an unreachable slot, and the next session skips to the tip. The
  skip leaves a row (`EveryHoleLeavesARow`); it may have been unnecessary.
- `main.rs:91-101`: "gap recording must never block the reconnect path", but its insert
  has no timeout, so a half-open connection parks the loop until the watchdog acts.
- `main.rs:992-999` calls the two conditions for a gap row "mutually exclusive by
  construction". They are within one process; after a crash between the row and the
  first flush the next process may replace it with a staler `end_slot`.
- `watchdog.sh:83` reads the newest `ingested_at` whoever wrote it: a snapshot batch puts
  off the restart of a stalled indexer (`UnmaskedStallIsCaught` excuses it).
- `freeze.sh:62-63` drops the restart policy "so a stray reboot cannot silently unfreeze
  the box"; `gce-startup.sh:117-123` runs on every boot and creates the container anew with
  `--restart always` (`FrozenUnlessTroubled` excuses the boot script of a reboot).
- `freeze.sh:4-6` speaks of exporting "the full dataset"; `freeze.sh:181` names the two
  tables that are (`account_updates`, `obligation_snapshots`). What the decoded reserve
  and market tables hold can be had from the raw rows; `slot_gaps` cannot.
- `FREEZE.md:52` says that after a resume "the indexer resumes from its checkpoint, so no
  history is lost". The provider's replay window is bounded (`BeyondWindow`,
  `main.rs:985-1020`): a checkpoint older than it is given up for the tip, with a row in
  `slot_gaps`. `FREEZE.md:8-9` itself says that old slots cannot be served again.
- `coldquery.rs:38-40` and `:84-87` take a difference between audit and gap table for a
  defect, and so the slots of `account_updates` for the stream's. A row of the snapshot
  job inside a hole splits it, so that the audit may list two smaller
  holes or none; one at the tip past a stream that is behind makes it list a gap that is
  none yet and has no row. `AuditAgreesWithGapTable` holds for all of them as far as the
  indexer has come.
- `coldquery.rs:36-40` wants one definition of a hole; the audit holds the tolerance
  against missed slots, the indexer against the drift, one more. `AuditAgainstDetector`
  proves the difference harmless: the audit lists the fewer.
- `decode.rs:100`: `as u64` keeps the low half, so a large position with a debt of dust can
  come out as one at risk (`Wraps`).
- `payload.rs:78-80` calls the tally session-scoped and cumulative across reconnects;
  it is the latter. `impossible_span` (`:131`) may be reversed after a replay.
- `main.rs:248-254` describes a data slice that `main.rs:323` says is gone.
- `001_init.sql:54-57` calls replayed copies byte-identical; a replay to a build with
  another slice can replace a whole payload by an empty one, or the other way round.
- `queries.js:17-22`: `active` and `at_risk` count history, not positions; health 0, the
  worst there is, is never listed (`queries.js:33`).
- `proxy.js:50-51` says upstream load is bounded "regardless of how many clients"; misses
  that come in before the first answer all go upstream (`AskedOnlyWhenStale`).
- A response whose connection closes in mid-body emits neither `end` nor an `error`
  anybody listens to (`chclient.js:68-88`): the proxy's client waits for ever (`Cut`), and
  the generator ends with status 0 and no file although `export.js:66` says a failure
  exits nonzero. The worker's `rm -rf` and `curl`'s missing file make up for it.
- `queries.js:91-92` and `index.html:600-602` say page and watchdog cannot disagree, and
  `freeze.sh:183-184` that the dot goes stale in a freeze. `ingest_age_s` is a number in
  the file: it stands still when the file does.
- `freeze.sh:137-139` prints that the final `stats.json` was published also when the
  refresh failed, or had joined an older run.
- `install-dashboard-export.sh:97` and `run-parquet-export.sh:23` use one file,
  `/run/klend-export.env`: a worker may remove or overwrite the credentials of an export.
- The boot script reinstalls the watchdog, not the dashboard's timer: after a reboot
  that does not keep `/etc` there is no dashboard until somebody installs it.
- `freeze.sh:61` stops the watchdog and the indexer; a snapshot container that runs at
  the time goes on writing through the export, which `FREEZE.md:57-59` excludes.
  `QuietFreezeIsComplete` names the exception.
- `007_snapshot_runs.sql:24-26` says the slot of a run is the slot of every row it
  produced; the rows of its earlier pages have their own (`snapshot.rs:405-408`).
- `007_snapshot_runs.sql:33-34` says `accounts` and `rows_written` differ when an
  account fails to decode; they differ when one does not, because raw and decoded rows
  are both counted (`RunsAddUp` states the sum).

### Fairness

`SupervisedSpec` assumes weak fairness of the process's own steps and of the
watchdog, and nothing about faults. The grounds: the container runs with
`--restart always` (`Boot`); there is one task, so an enabled step is taken;
`tokio::select!` polls its branches in random order, so no ready branch starves
(`Delivers`, `TimerFlush`); each insert of `flush` has a timeout that turns a
half-open connection into an exit (`InsertFails` when half-open); the provider
delivers what it agreed to serve. The watchdog is needed: the process alone
(`ProcessSpec`) has no way out of a gap insert on a half-open connection. `Settled`
allows one exception, which the code has: a session opened past its request that
waits for its first account has not judged its seam yet, and nothing will until an
account of the program changes.

`Proxy` assumes weak fairness of the clock and of a timeout that is due, both Node's
own, and nothing of ClickHouse or the network: `SilenceEnds` rests on the handler of
`chclient.js:84` alone. `Cut` is not in its way, for a client whose response was cut
waits for nobody any more; that it gets no answer is listed above.

`Dashboard` has no fairness: `PublishesOnTime` is a bound and not a promise, and holds
because `Tick` does not pass what is due (`Overdue`): systemd's timer, the timeout of
a query, and `curl --max-time`.

## 4. Proofs

Every invariant and every action property of the passing runs is stated by a theorem
for every value of the constants that meets the named assumption of the module, and
so are the two refinements. Six theorems need a hypothesis beyond it:

| Hypothesis | Theorems | Grounds |
|---|---|---|
| `0 \notin Budgets` | `SeamsAreJudged`, `HolesLeaveRows`, `AuditIsAnswered` | without it they are false (section 3, `main.rs:825`). An unset budget, as in production, meets it |
| `MinSettle <= Threshold` | `StallsAreCaught` | `watchdog.sh:17,37`: 180 and 900 seconds. With a longer cooldown a watchdog that crashes and comes back can find the process within its cooldown again and again |
| `2 * Scale * debt < Wide` | `ListedPositionsWereAtRisk` | a debt below 2^128 / (2 * 10^6), of the order of 10^14 dollars in the scaled fractions of `decode.rs`; a larger one could be listed although its position, whose product saturated, is sound |
| `2 * Scale <= Sentinel` | `NewestRowsAreListed` | the sentinel is `u64::MAX`, the bound 2 * 10^6 |

### The indexer

`IndexerProofs` proves of `Spec`, for every set of updates, slot and table assignment,
batch size above one, budget, window and bound: `TypeCorrect`, `CheckpointNeverAhead`
(`CheckpointCovered`), `IndexerImplementsLog` (`ImplementsLog`), `HolesLeaveRows`
(`EveryHoleLeavesARow`), `SeamsAreJudged` (`SeamIsJudged`), `StartupRowsHaveACause`
(`StartupRowsAreReal`), `StopsAreFlushed` (`StopLosesNothing`) and `SamplesOpenOnce`
(`OneStreamPerSample`).

`CheckpointCovered` is not inductive: it says nothing of how the next checkpoint
comes about. `IInv` adds four things:

1. `ControlOK`: rows are in memory only where the code can have them, so a crash
   or a new session forgets nothing that was counted as stored.
2. `BatchOK`: the high-water mark of what is in memory is `last_slot`, and each
   table the flush is through holds its part of the batch.
3. `SessionOK`: the session has delivered everything it serves below `last_slot`,
   and what it delivered is stored or in memory.
4. `CoverageOK`: `Covered` holds of *every* slot that was or may become a
   checkpoint or a resume point: the stored one, the one this process read, those
   in `limbo`, and the first slot of the session.

When the checkpoint insert is reached, the whole batch is stored (2), so all the
session delivered is stored (3), so everything served below the mark is stored,
and everything below the session's first slot is covered (4): the new checkpoint
is covered. A first message covers its slot because everything below the resume
point was covered (4) and what lies between is the seam. Resume must be inclusive
for this: with an exclusive one, the tail of a split slot falls in no seam.
`StopsAreFlushed` is (3) once the buffers are empty.

The refinement uses the same invariant: `InsertCheckpoint`, a checkpoint applied
by a failed insert and `LateCheckpoint` are `Commit`, `InsertRows` and partially
applied inserts are `Store`, the first message of a session past its request is
`Skip`, and every other step stutters.

`HolesLeaveRows` asks more than coverage: the seam a missing update lies in must have
its row. A seam comes about in `Deliver` and its row some steps later, so between the
two the property holds of the checkpoint and not of what will become one. `SeamInv`
follows the seam through those steps:

1. `SampleOK` and `JudgeOK`: a session that has seen an account is judged as soon as
   the step that handles it is over, whatever ends it; a first message does not flush
   its way past the judgement, because its slot is `last_slot`; and a sample, which has
   had no earlier session, spends no budget above zero on it.
2. `RowOK`: a gap row in flight starts at the resume point of the session it is
   about, and a process that has no resume point any more, or has decided to forget
   it, has had the row of the last one answered, with success or an error.
3. `SafeOK`: what `CoverageOK` says of every slot that may become a checkpoint, with
   "in a seam" sharpened to "in a seam that has its row or is within tolerance". For
   the first slot of a session this may wait until its seam is judged (`SessionSafe`).

`Judge` then gives a seam beyond the tolerance its row, and one within it needs none;
a later row under the same start slot replaces the row but not its start (`RowFor`
never goes false). `StartupRowsHaveACause` rests on `OrderOK`: the checkpoint is
always the slot of an update, and so is the resume point; a session that opened at or
before it would have been served that very update first, and its first slot would not
lie beyond.

`GapAuditProofs` extends `IndexerProofs`. `OnlySeamsAreHoles` (`NoHoleOutsideSeams`) adds
to `IInv` that what is in memory is no newer than `last_slot`; then a batch that is
inserted has before it only what is stored, what is in the same insert, and what lies
below the session's first slot, which is a seam or was covered already. Unlike
`CheckpointCovered` it speaks of stored rows beyond the checkpoint, so a batch of which
only some tables were filled counts. `AuditIsAnswered` (`AuditAgreesWithGapTable`) does
for those rows what `SeamInv` does for the checkpoint. `AuditAgainstDetector` relates the
two definitions of a gap.

### The export and the snapshot

`ColdExportProofs` proves, from `ExportAssumption` alone, for every finite set of
rows, partition width, row-group size and number of runs: `TypeCorrect`,
`FullRunIsComplete` (`FullRunArchivesAll`), `FilesAreWhole` (`PublishedIsWhole`),
`QuietRunsAreSilent` (`QuietRunHasNoDefect`) and `ExportImplementsArchive`. The
invariant adds three things to the types. `FilesOK`:
a file holds stored rows of its own table and partition, so rows of different files
never mix. `StreamOK`: the query in progress returned all its partition held when the
run began *and* all of the file it will replace, which is why a rename never
removes a row: rows leave the store in no action. `WalkOK`: a full run has archived
what its walk has passed; the bounds cover what was stored when they were read, and
that includes what was stored when the run began. The row check needs `CountOK` too:
while nothing is written, the total is at most the number of rows in the partitions
that the walk has passed, which are disjoint, and the table has no more rows than the
count that was read counted copies, also after a merge.

`SnapshotProofs` proves `TypeCorrect`, `RunsAreBacked` (`RecordedRunIsBacked`),
`RunCountsAddUp` (`RunsAddUp`) and `TableReadsAsOf` (`ReadsAsOf`) from
`SnapshotAssumption`. `BackInv`
says of each page that is done that the rows of its accounts are stored,
and of the page at hand that they are stored or still to be sent. It needs that the
calls of a scope cover it (`CallsCover`), that rows are only added, and that answers
are of completed slots, which do not change any more (`StateStays`). `SumOK` is the
counts of a run under way: two rows for an account that decodes, one for another, and
what is not inserted yet is still to come.

`TableReadsAsOf` relates two histories, the chain's (`ledger`) and the table's, whose
rows come from two writers in any order. `LedgerOK` says that versions name writes and
grow with slots, so the last write up to a slot is its state (`LastWrite`), and a
state stays what it was until the next (`StateBetween`). `AsOfInv` says that each row
is true (`RowIsTrue`: what a write of that slot made of the account, or the state at
the end of a completed slot), that what the stream dealt with and did not lose is
stored, and that recorded runs stay backed. Then the newest row up to a slot, in the
order of the table's key, is a true row, and either it is of the last write, or that
write was before the run's answer, whose row is there to speak for it (`ReadAsOf`).

### The machine

`MachineProofs` proves `TypeCorrect`, `FrozenStays` (`FrozenUnlessTroubled`),
`FreezeArchivesAll` (`QuietFreezeIsComplete`), `ResumeLeavesItSupervised`
(`ResumeRestores`) and `StallsAreCaught` (`UnmaskedStallIsCaught`) from
`MachineAssumption`. `FrozenInv` says what can no longer start the
indexer at each step of `freeze.sh`, as long as no trouble is on record: no resume is
under way and no boot script is running; once the watchdog is stopped it does not ask
for another restart, and only a boot turns it on; a restart that is still in dockerd
at the stop is on record from then on; after the stop there is no process for the
restart policy to answer for. It carries
the next two: nothing writes while the export runs, so what it leaves is nothing
(`ArchiveInv`); a resume does not overlap a freeze, so what its boot script has done
stays done (`RestoreInv`).

A stall is caught because three clocks run together (`StallInv`): the store ages with
the stall, the cooldown has run since before it, and the next check falls within what
is allowed. A check made when the stall is `Threshold` old finds the store stale and
the cooldown over, and so restarts; one made before leaves less than an interval to
the next; one that fails buys an interval with its hiccup.

### Intake, proxy, dashboard

`IntakeProofs` proves `LossIsNeverSilent` (`LossIsAnnounced`) and `TypeCorrect` from
`IntakeAssumption`. The invariant: the total is some number of whole alarm periods and
a rest, and no more than the rest has gone unannounced. `AlarmsHaveACause`
(`AlarmsAreReal`) and `WholeObligationsAreDecoded` (`WholeObligationsDecode`) need the
types and that a message, once sent, does not change. Two facts about operators
stand beside it: `NoSliceServesAll` is the argument of `main.rs:345-347` against any
request-level slice, and `HealthSeparatesPositions` says that integer division never
moves a position across the bound of 2.0 while nothing saturates or wraps.
`ListedPositionsWereAtRisk` (`ListedWasAtRisk`) rests on it and on `BelowIsAtRisk`, which
adds the product that saturates. `NewestRowsAreListed` (`NewestRiskIsListed`): the only
newest row is the only pick of its obligation, so it is listed, or a full list has none
that is worse.

`ProxyProofs` proves `TypeCorrect`, `AnswersAreRecent` (`ServedIsRecent`) and
`AnswersAreReused` (`AskedOnlyWhenStale`) from `ProxyAssumption`. The invariant times a
request by its two silences, one before the header and one after, so that an entry is
at most two silences younger than its payload, whoever wrote it last.

`DashboardProofs` proves `TypeCorrect`, `PagesAreHonest` (`ShownTogetherTheyBound`),
`RunsPublishTheirOwn` (`RunPublishesItsOwn`), `LastPageShowsTheLastRow`
(`FinalPageIsFinal`) and `FilesAreRecent` (`PublishesOnTime`) from
`DashboardAssumption`. The first invariant calls a file honest when its last row is no
newer than the store's and it was written within two silences of being read: the header
comes within the one that began when the query was sent, the body within the next; every
copy of it stays honest. A run that has not written its file has an empty directory, so
what it puts is its own. `FinalInv`: from the drain on no row lands, if the writers
stopped, so whatever is read, written or put has the last one, also by a run the timer
starts meanwhile. `TimerInv` follows the next file to be published (`NextFile`): each
phase of a run leaves it what its remaining queries and its PUT may take (`Needs`), and
between runs the next starts when the timer elapses or at once (`Soon`), which is within
an interval of the start of the last run, or by its end.

### Only model-checked

`EveryUpdateSettles` and `SilenceEnds`: liveness under fairness is out of the prover's
reach. (The properties of the four other runs are violated.)

## 5. Bounds and simplifications

- `MaxOverReplay`, `MaxTip`, `MaxFaults` bound the model only; they appear in the
  guards of external or fault actions and the theorems hold for all their values.
- A ClickHouse sink is configured. Without one nothing is stored and only the
  budget matters.
- `updated_at` and `ingested_at` come from one server clock; two inserts in the
  same millisecond are not distinguished.
- Updates within one slot arrive in any order; slots arrive in order, as the
  code's comments require of the provider.
- Telemetry and the length of a back-off are left out: nothing reads them back. Nor
  does anything read the payload guard, so it is in `Intake` and not in `Indexer`.
- `MaxCopies` and `MaxRuns` bound the export's model. One export runs at a time, as the
  scripts of `deploy/` start it; a SELECT reads what was stored when it began; a
  temporary file left by a failed run is truncated by the next and read by nobody.
- `MaxHiccups` bounds the machine's failed checks and `MaxIncidents` its reboots,
  snapshot batches and failed commands of the freeze together; its counters of ticks
  stop where a larger value would make no difference. The installers of `deploy/` have
  run: the boot script is attached and the unit installed.
- `MaxSlot`, `MaxWrites`, `MaxLost` and `MaxRuns` bound the snapshot's model. An RPC
  answer lists every account that matches; an account keeps its owner byte.
- `Narrow`, `Scale` and `RepeatEvery` are the constants 2^64, 10^6 and 500 of the code,
  small in the instance and arbitrary in the proofs; the account lengths are the real
  ones. `MaxSlot`, `MaxUpdates` and `MaxFaults` bound the intake. Rows are stored as they
  are received; that batches lose none is `Indexer`'s subject.
- `MaxNow` bounds the clock of the proxy and of the dashboard; `Landings` and
  `MaxTrouble` bound the latter's rows and faults. A header and a body are one event
  each, so a request has two silences; a body that trickles for ever is left out. A
  query that answers in part with status 200 (`timeout_overflow_mode=break`) counts
  as an answer.
- Slots are natural numbers. `u64` does not overflow: a slot is about 4e8.

## 6. Plan

Done, in this order: `Resume`, `Indexer` and `ResumableLog`, because everything else
reads what they write; `ColdExport` and `Archive`; `Machine`; `Snapshot`; then
`GapAudit`, `Intake`, `Proxy` and `Dashboard`, each with its proofs. Next:

1. Proofs: the safety half of `EveryUpdateSettles` and of `SilenceEnds`, as far as it
   can be said without fairness: which states have no way out but the watchdog or the
   timer, and that from every other the process has a step of its own.
2. Proofs: `UnmaskedStallIsCaught` with a cooldown longer than the threshold, for which
   the bound has to count the watchdog's restarts too.
3. Proofs: what a repaired skip rule would guarantee an incremental run, against
   `SkippedIsIdentical`.

## 7. Not modelled

- `src/ch.rs`, the RPC and gRPC clients: I/O without state.
- Column layouts, partitions and codecs of the tables; the conversion of columns to
  Parquet; the fields a decoder copies out of an account.
- `activity`, `hot-accounts` and `sql` of `coldquery.rs`, the queries of the dashboard
  other than `risk` and the age in `system`, `health-check.sh`: read-only, with nothing
  in the repository that says what they must equal.
- The rendering of the page, the static files the proxy serves.
- The provisioning and deployment scripts but for what they leave behind.
- `vendor/klend-interface` (third-party), `demo/` and `docs/`.
