# Verification of the Quarry document pipeline

Quarry (this repository) turns uploaded documents into tables. A person opens a
*request*, uploads *files*, reviews the *schema* detected in each file, presses
**Convert**, and gets the extracted tables. The work between those presses is done by
workers that may crash, be redelivered the same message, lose a lease, or run twice at
once. This directory holds TLA+ models of that machinery, the TLC configurations that
check them on small instances, and TLAPS proofs of the main results for every size.

Contents: [the system](#the-system), [modules](#modules), [from the code to the
model](#from-the-code-to-the-model), [runs](#runs), [bounds](#bounds),
[fairness](#fairness), [findings](#findings), [proofs](#proofs), [what is only
model-checked](#what-is-only-model-checked), [what is not modelled](#what-is-not-modelled),
[plan](#plan), [running it](#running-it).

## The system

Paths are relative to the repository's root.

| Part | Where | State it keeps | Operations |
| --- | --- | --- | --- |
| File leases | `packages/worker/src/leases.py` | `files.stage`, `claimed_by`, `claimed_until`, `attempts` | claim, renew, complete, fail, release |
| Delivery pipeline | `packages/worker/src/pipeline.py`, `main.py`, `pubsub_handler.py` | one delivery in progress, its heartbeat thread | handle, `_process`, `_record_failure`, chain to conversion, pause, refresh |
| Processors | `packages/worker/src/processors/*.py` | `file_schemas`, `file_schema_results`, records | inspect, convert, `mark_tables_failed` |
| Outbox and relay | `packages/worker/src/outbox.py`, `publisher.py`, `subscriber.py` | `request_outbox` rows: PENDING, PUBLISHED, DEAD; attempts, next attempt | enqueue, claim_pending, relay, mark_* |
| Sweep | `packages/worker/src/sweep.py` | none (works on the tables, every minute) | relay, `_reclaim_expired`, `_fail_exhausted`, `_resume_paused` |
| Broker | `infra/terraform/pubsub.tf` | messages without an answer | push, redeliver, dead-letter |
| Upload and confirm | `packages/web/src/server/services/uploads.ts` | `files` rows at UPLOADING, then UPLOADED | createUploadUrls, confirmUploads |
| Convert and polls | `packages/web/src/server/services/convert.ts`, `publish.ts` | `requests.converted_at`, inline publishes | convert, pollResult, publishAll |
| Request status | `packages/web/src/server/db/repos.ts`, `pipeline.py` | `requests.status`, `file_count` | two refreshes, pause, resume |
| Schemas | `packages/web/src/server/services/schemas.ts`, `validate.ts` | `file_schemas.fields`, `updated_at` | pollSchemas, updateSchemas, validateEdit |
| Merges | `packages/web/src/server/services/merges.ts`, `lib/merge.ts` | `table_merges` and members | createMerges, deleteMerge, overview |
| Discard, tables | `packages/web/src/server/services/{discard,tables}.ts` | `files.deleted_at` | discardFiles, pages of a table |
| API plumbing | `packages/web/src/server/{gcp-auth,storage,session}.ts`, `db/client.ts` | credential files, the pool, the cookie | sign, register, connect |
| Browser state | `packages/web/src/state/*.tsx` | the batch as the browser believes it is, its identity and list of batches | staged, signed, uploading, confirmed, polled, adopted |
| Browser libraries | `packages/web/src/lib/*` | the cache; otherwise none | cache, polls, filters, workbook, folders |
| Zamp workers | `Zamp/python/**` | the same tables through repositories of their own | claim, reap, chain, convert per table |
| Infrastructure | `infra/**`, `packages/db/**` | the deployment, the schema and its CHECKs | deploy, migrate |

There are two sets of workers over one database. `infra/terraform` describes the
services of `packages/worker`; `infra/deploy` puts the services of `Zamp/python` behind
the same topics. Both are modelled, the first in `Pipeline`, the second in `Zamp`, and
they are not alike: `packages/worker` does its work and its file's UPDATE in one
transaction that asks for `claimed_by = me`, Zamp makes a transaction of every repository
call and its `update_stage` asks for nobody.

How the parts meet: the API and the workers never call each other. A change of a file and
the outbox row that announces it commit in one transaction; the API then tries to publish
the row itself ("inline") and the sweep's relay publishes what is left. The broker pushes
the message until it gets an answer. A delivery *claims* the file with one conditional
UPDATE, committed on its own; the work and its result follow, while a thread renews the
lease through a connection of its own. The sweep takes back leases that have run out. The
browser only polls.

What is hard here, and what should hold all the same:

- **At-least-once everywhere.** A row may be published twice (crash between publish and
  mark), a message delivered twice, an acknowledgement lost. Work must not multiply
  (`WorkIsBounded`), and repeated work must not undo finished work (`NoWayBack`,
  `FencedCompletion`, `EditIsKept`, `ConvertedStaysSo`).
- **Crashes between any two commits.** A file that waits must stay reachable:
  `NothingStranded`, and under fairness `EveryFileSettles`.
- **Stale workers.** A worker that lost its lease does not know it. Its completion,
  release, failure and table writes all still run (`FencedCompletion`, `TablesMatchFile`,
  `ImplementsFileLife`, `CompletedIsSettled`).
- **READ COMMITTED, and reads on several connections.** Two transactions that read what
  the other has not committed: Convert against the inspection's chain, two confirms, two
  status refreshes, two presses of Merge. And polls that answer from several queries. A
  status written from old counts must never run ahead of its files (`StatusNeverAhead`),
  no table may end in two merges (`MembersAreApart`), no answer may settle a file without
  its tables (`DeltaIsWhole`).
- **A browser that is never told.** Uploads, polls, retries and reloads overlap, and any
  answer may be lost: what the screens say and offer must agree with the server
  (`SettledIsOpen`, `UploadedIsConfirmed`, `OfferedIsAccepted`, `RowsAreApart`).
- **State shared by chance.** Tabs share storage, API calls share files and a pool, two
  drop surfaces share a router (`NoCardIsLost`, `SignsWithCredentials`, `OneHandOver`).

`PROJECT.json` lists each of these hazards at the line where it bites, with the
properties that cover it.

## Modules

| Module | What it is |
| --- | --- |
| `Leases` | The row of `files` and the five lease statements as operators on a row, with the statements that move the file's table rows. |
| `Pipeline` | The system of `packages/worker` and the API calls it works for: rows, outbox, broker, deliveries, relay, sweep, confirm and convert. EXTENDS `Leases`, so there is one definition of claim, complete and so on. |
| `FileLife` | The abstract specification of a file: the stages it may go through, and that a request to convert is honoured by every shape that lands later. `Pipeline` implements it; the mapping takes a row to its stage. |
| `RequestStatus` | `requests.status`: the refresh that the API and the workers share, in transactions that overlap, and every change that comes without a refresh. |
| `Zamp` | The workers of `Zamp/python` on one file of several tables, repository call by repository call. |
| `Merges` | Merging tables of one shape: the screen, the calls in their separate transactions, and the reads that fold members into one table. |
| `Review` | The schema panel, the spread of an edit to other tables, and the write with its gate. |
| `Batch`, `Prepare` | The files of a request in one browser tab against the upload calls, the schema poll and the discard; over it what the two screens before Convert say and offer. |
| `Cells`, `TableView`, `Downloads` | What the text of a cell means; the table on screen with its filters and column order; the batch as workbook or CSV. |
| `Intake` | Files and folders dropped or picked, preflight, and the hand-over to the batch. |
| `Converting` | The screen of a batch that converts, against the result poll. |
| `Workspace` | Identity: its storage, cookie and registration, the list of batches and the page of one. |
| `Cache` | The answers the browser keeps, with its index and budgets. |
| `Credentials` | What overlapping API calls share: credential files and the pool. |
| `MCPipeline`, `MCRequestStatus`, `MCPrepare` | Instances for TLC: who shares an identity, who serves which topic, names, symmetry. |
| `MCRequests`, `MCMerges`, `MCParts` | Instances that explore several components which share no state, one at a time, by a variable that says which. |
| `Orders` | The places of a set in rising order and what a sequence holds there: how `filter()` is written where a proof counts places. |
| `PipelineProof`, `PipelineSafety` | Proofs about `Pipeline`; the invariants of the second rest on those of the first. |
| `RequestsProof`, `ZampProof`, `MergesProof` | Proofs about `RequestStatus` with `Review`, `Zamp` and `Merges`. |
| `BatchProof` | Proofs about `Batch` under every step of `Prepare`. |
| `PartsProof` | Proofs about `Credentials`, `Intake`, `Converting`, `Workspace`, `Cache`, `Downloads` and `TableView`. |
| `Counting` | Lemmas that `MergesProof` and `PartsProof` share: least elements, induction over numbers, sums, places counted in order. |

`RequestStatus` does not repeat `Pipeline`: it lets a file take any step of its life, which
is what `Pipeline` is proved to keep to, and looks at who counts what, and when. Likewise
`Merges` starts where the batch has finished, and `Batch` knows of the worker only what a
poll can see.

## From the code to the model

A step is a transaction, or a statement outside one; a handler that reads, waits and then
writes has one step for each.

**State.** `file[f]` is the row: `stage`, `claimedBy` (`NoOne` for NULL), `lease`
(`"none"`, `"live"`, `"expired"` for `claimed_until`), `attempts`, and `tables`, the stage
the table rows of the file share (the worker always moves them together; EXTRACTING is
written and overwritten in one transaction). `outbox[f][t]` are the rows enqueued for file
`f` on topic `t` in order; a row's `attempts` is kept only while it is PENDING, because
nothing reads it later. `inflight[f][t]` are the rows the broker still holds a message of.
`handler[h]` is a delivery: idle, received (before the claim), or working (after it), with
the role it resolved and the attempts its claim returned, which is what `_record_failure`
decides with. `call[c]` is an API call between two of its steps.

| Action | Code |
| --- | --- |
| `ConfirmRead`, `ConfirmArrived`, `ConfirmMissing` | `confirmUploads`: the unlocked read of the stage, then, after `statObject`, `markUploaded` and `enqueue`, or `failFile` |
| `ConvertGate`, `ConvertMove`, `ConvertCommit` | `convert`: the gate, `startConverting` (which takes row locks), the commit with `converted_at` and one outbox row per file |
| `PublishInline`, `MarkInline` | `publishAll` (any subset succeeds) and `markOutboxPublished` |
| `CallDies` | the server process stops: an open transaction rolls back |
| `RelayPublishes`, `RelayPublishesUnrecorded`, `RelayRetriesLater`, `RelayGivesUp` | `outbox.relay` for one row: published and committed; published and rolled back; refused, attempts left; refused for good, with `_fail_file_for_dead_outbox` |
| `Receive`, `ReceiveNothingToDo` | `main.push` and `_resolve_role` |
| `ClaimFile`, `ClaimRefused`, `ClaimExhausted`, `ClaimNacked` | `leases.claim` and what `handle` does with each outcome |
| `InspectSucceeds` | `_process` of the inspect role: `_write_schemas`, `complete`, `_convert_if_already_requested` in one transaction |
| `ConvertSucceeds` | `_process` of the convert role |
| `AttemptIsRetried`, `AttemptIsFinal`, `AttemptPauses` | the three ways of `_record_failure` |
| `Heartbeat` | one turn of `_Heartbeat._loop` |
| `HandlerDies` | the process stops, or `push` raises: no answer to the broker |
| `LeaseExpires` | the clock |
| `SweepReclaims`, `SweepFails` | `_reclaim_expired`, `_fail_exhausted` for one file |
| `BrokerDropsMessage` | `max_delivery_attempts` reached without an answer |

The actions of `RequestStatus`:

| Action | Code |
| --- | --- |
| `BeginLanding`, `BeginLateChain`, `BeginCompletion`, `BeginFailure` | `_process` and `_record_failure` of a worker up to the snapshot of `_refresh_request_status`: the file's row is written and locked, the files are counted |
| `BeginCreate`, `BeginNothing` | `createOne`; the refresh at the end of `confirmUploads`, or of a worker that found its lease gone |
| `Commit`, `Rollback` | the UPDATE of `requests` on its latest row with the counts as they were, and the commit; or neither |
| `Confirmed` | one file's transaction of `confirmUploads`, which leaves the call owing a refresh |
| `ConvertGate`, `ConvertMove`, `ConvertCommit` | `convert`, here with its effect on the status |
| `Claimed`, `GivenBack`, `SweepFails`, `OutboxRowDies`, `Discard` | changes of a file without a refresh |
| `Pause`, `Resume` | `_pause_request`, `_resume_paused` |

The refresh is one statement, but not one moment. PostgreSQL takes its snapshot, computes
`counts`, and then waits for the row of the request; when it gets it after another
transaction's commit, it evaluates the `CASE` and the `WHERE` again on the new row
(`converted_at`, `PAUSED`), with the counts it already has. That is the split between
`BeginRefresh` and `Commit`. A view holds what the `CASE` asks of the counts (`total > 0`,
`settled = total`, `terminal = total`, `failed = total`) and not the numbers.

Decisions a reader may want to question:

- *An answer to the broker* (`Acked`) may be lost, so the message may stay.
  `ClaimNacked` uses it too: a nacked message comes again or is dead-lettered, and the
  lease that made it a nack is still there to bring the file back.
- *Transactions of the worker are atomic* against each other: each starts with, or
  contains, an UPDATE of the file row, and what it decides on is that row. The exception
  that matters, READ COMMITTED between convert and the inspection's chain, is modelled by
  giving `convert` its own steps: in phase `"moving"` it holds row locks and its changes
  are visible to nobody (`RowLocked`).
- *The classification SELECT of `claim`* runs in the transaction of the UPDATE and is one
  step with it.
- *The sweep* is one transaction over all files; the model lets it commit file by file,
  which allows more interleavings, not fewer. The relay's rows of one batch likewise.
- *`MayRelease`*: the CHECK `files_failure_matches_stage_chk` refuses a row that leaves
  FAILED with its `failure_class` set. `release` does not clear the class, so releasing a
  failed row raises, and the delivery ends without an answer.
- *Failure kinds.* What matters of a failure class is its column in `failures._SPECS`:
  final, retryable or pausing. Only the inspect processor raises classes that are final
  at once. No processor raises a pausing class today; the action is there because
  `_record_failure` has the branch.
- *A confirm call confirms one file.* The code confirms several in sequence, each in its
  own transaction, and publishes at the end: in the model these are calls whose publish
  comes later. `setFileLocation` (an optional argument) would lock the row before the
  `stat`; the race with a call that does not send it remains.

**Zamp.** `doc` is the row of the file, `sheet[t]` what the database has of table `t` (its
fields and the stage of its result), `newest[t]` its last version and run, `pending[r]` and
`message[r]` what the outbox and the broker have for a role, `job[d]` the delivery `d`: where
it is between two repository calls and what of its list is left. `mishap` is chosen once:
processes stop, leases are overrun, or neither.

| Action | Code |
| --- | --- |
| `Take`, `CanTake` | `claim` and its `_CLAIM_SQL` |
| `Detect`, `Defer`, `PersistTable`, `SeedResult`, `FailBlank`, `Land` | `SchemaPipeline.execute`: `_detect` table by table, `persist_table` with its ON CONFLICT, then `update_stage` |
| `CarryOn`, `CarryNothing`, `Announce` | `_convert_if_already_requested`: the move and the row in the outbox, in two transactions |
| `List`, `Resolve`, `Begin`, `Fill`, `CloseRun`, `RenewLease`, `FailTable`, `Complete` | `ProcessingPipeline.execute` and `_one_table`, one step per repository call |
| `Spoil`, `Break`, `FailFile`, `FailTables` | a table that fails, an exception, and `_fail` |
| `Reap`, `GiveUp`, `Requeue`, `RequeueFails`, `Publish`, `MarkDead` | `run_sweep`: `reap_expired` commits before the rows are enqueued |
| `EditGate`, `EditWrites`, `PressConvert`, `CommitConvert` | the API's `updateSchemas` and `convert` on the same rows |
| `Die`, `LeaseRunsOut` | the platform, the clock |

**Merges.** `merges` are the rows of `table_merges` with their members, `screen[b]` the
merge screen of a tab, `call[i]` a `createMerges` between its statements (sent, checked,
written, refused), `reader` a poll or an opened table between its queries. `Discard` takes
a file from under all of them. `ShapeKey`, `MergeConflicts` and `Groups` are the functions
of `lib/merge.ts`, on both sides of the wire as in the code.

**Review.** `tab[b]` is what a tab holds of a request (fields and version of each table, the
panel and its draft), `save[i]` an `updateSchemas` between its gate, its write and its
answer. `Targets` is `updateTargetsFor`; `Accepted` and `Validated` are `validateEdit`. A
reload, a closed panel and a lost answer leave the call to the server alone. `Tick` is what a
person ticks in the picker, of what it shows then; `UpdateChosen` sends the ticks as they are,
as `UpdateTargetsPicker` does, those included whose tables have ceased to be targets.

**Batch and Prepare.** `row[f]` is a row of the screen, `server[i]` a row of `files`,
`run[k]` an upload run (`runUpload`) from the signing to the last confirm, `poll` the schema
poll between its queries, `got` and `empty` the tables the tab has received. `Prepare` adds
what the cards, the rail and the Convert button work out from that.

A signing is taken apart, because calls overlap and one that failed here may go on there:

| Action | Code |
| --- | --- |
| `SignReads` | `getRequest` and `listFiles` of `createUploadUrls`: which names have rows, paired by name and rank |
| `SignCreates` | a transaction that makes rows: all of a new request, or one row of `createOne` |
| `SignAnswered` | the answer arrives and the rows start to send |
| `SignFailed` | the browser hears a failure, wherever the server is with the call; every row being checked is marked, of other runs too |
| `SignOver` | a call nobody waits for (`Lost`) ends, done or not |

`confirmUploads` and `discardFiles` act at once, with an answer that may be lost. `twice` is
a history variable: the files that a run took up while another was at work on them.

**The small parts.** Each step is an event or an answer:

| Module | State | Steps |
| --- | --- | --- |
| `Cells`, `TableView` | `columnFilters` in force, `columnOrder` as dragged, the open `form` | search, drag, form and chips of `DataTable.tsx`; a cell is a sequence of characters, because the parsers decide character by character |
| `Downloads` | the dialog, what came, the workbook | the dialog, `allSettled`, `toWorkbook` |
| `Intake` | `walk`: one through each surface's drop, `batch`: what was handed over | `filesFromDrop`, `readAll`, `hand`, `takeStagedFiles` |
| `Cache` | `held`: entries and their lengths, `order`: the index | `remember`, `forget` and each write that may be refused |
| `Converting` | stages and results on the server, one poll between its four queries, what the screen keeps | `pollResult`, `useResultPolling`, the page |
| `Workspace` | key, cookie, list and parked lists, what each tab shows and asks | `ensureSession`, `postJson` with its one retry, polls, links, Convert |
| `Credentials` | the two files, the process variables, the pool | `writeAdcCredentials` between its awaits, `getPool` |

## Runs

`Recovery`, `Deployed`, `Settling` and three of the five violations use `MCPipeline`. Deadlock
checking is off in all because the system really stops: when every file has failed or
completed and the queue is empty, or a person has done all the bounds allow, nothing is
left to do.

| Run | Instance | Checks | Shows |
| --- | --- | --- | --- |
| `Recovery` | 1 file, 1 API call at a time, 2 deliveries of a service that serves both topics, own identities, 3 attempts | `NothingStranded`, `NoWayBack`, `FencedCompletion` | crashes, lost and repeated messages and stale workers neither strand a file nor undo its progress |
| `Deployed` | inspect service with 2 instances under one identity, convert service with 1; 2 attempts, 2 publish attempts, dead letters, pauses | `TypeOK`, `TablesMatchFile`, `WorkIsBounded`, `ImplementsFileLife` | what still holds in the deployment Terraform describes |
| `Settling` | one inspect, one convert delivery, fairness | `EveryFileSettles` | everything that started ends |
| `Requests` | status: 2 files and 1 added later, 2 transactions, every silent change. Review: 3 tables of 2 files, 1 tab, 2 overlapping writes | `TypeOK`, `StatusNeverAhead`, `OfferedIsAccepted`, `VersionNamesTheFields`, `SpreadTakesNothingAway` | old counts never make a request claim too much; the panel offers what the server takes |
| `Uploads` | 1 file dropped, 1 added, 2 upload runs, a table with and one without a shape, 1 fault | `SettledIsOpen`, `UploadedIsConfirmed`, `DeltaIsWhole`, `StoppedIsSettled`, `RowsAreApart`, `RetryKeepsItsFile` | what the screens before Convert say and offer agrees with the server |
| `Combined` | Merges: 5 tables of 2 files and 2 shapes, 2 overlapping calls. Zamp: 1 file of 2 tables, 2 deliveries with 2 attempts, or one at a time with 3 where processes stop | `MembersAreApart`, `AllOrNothing`, `RefusedOnlyWhenTaken`, `ListedOnce`, `StandsInPlace`, `OpenedIsWhole`, `EditIsKept`, `ConvertedStaysSo`, `CompletedIsSettled` | no table in two merges, reads that stay whole; what the deployed workers keep although each call commits by itself |
| `Parts` | the seven small parts, one at a time | `ShownPassesTheChips`, `TabsAreApart`, `EveryDroppedFileIsStaged`, `OneHandOver`, `HeldIsListed`, `FinishedIsFinished`, `RowsMoveForward`, `NoCardIsLost`, `DeniedOnlyWhenDisturbed`, `NeverThrownOut`, `SignsWithCredentials`, `OnePool` | see the properties |
| `DuplicateDelivery`, `LostLease`, `ConvertWhileInspecting`, `EndedRequest`, `SameName` | the smallest instance that shows it | one documented claim each | the claim does not hold: see [findings](#findings) |

Parts that share no state are explored in one run each by a variable that says which part
moves; the others stand still, so the state space is the sum and not the product.

The properties of the pipeline and the status:

- `NothingStranded`: UPLOADED has a file-uploaded message that will come, CONVERTING has
  a lease or a convert-requested message, INSPECTING has a lease.
- `TablesMatchFile`: COMPLETED has DONE tables; SCHEMA_READY and CONVERTING have tables
  that can be finished; FAILED tables only under a FAILED file.
- `WorkIsBounded`: the outbox of a file never has more rows than confirms in progress,
  the one conversion, and two for each attempt but the last.
- `NoWayBack`: from CONVERTING only on, from COMPLETED only to FAILED (the first finding).
- `FencedCompletion`: only the latest claim brings a file forward.
- `ImplementsFileLife`: every step of the pipeline is a step of `FileLife` or leaves the
  stages alone. Among other things FAILED is for good, nothing skips a stage, and a shape
  that lands after `converted_at` is committed goes to CONVERTING. It needs one API call
  at a time: with two confirms of one file, `ConfirmMissing` fails a file that is being
  inspected and leaves it its lease, and its worker then completes it (see the hazard at
  `uploads.ts:207`).
- `EveryFileSettles`: UPLOADED and INSPECTING lead to a shape or a failure, CONVERTING
  leads to COMPLETED or FAILED.
- `StatusNeverAhead`: COMPLETED and FAILED only when every live file the request was
  created with has ended, FAILED only when all of them failed, READY only when every
  shape is in and Convert has not been pressed, COLLECTING never after it has. It is
  about the files the request was created with: a file that `createOne` adds to a request
  may be missed by a refresh that has counted already.

Of Zamp and of merges:

- `EditIsKept`: a detection never overwrites fields a person has saved.
- `ConvertedStaysSo`, `CompletedIsSettled`: while work ends within its lease, a file in
  conversion does not go back, and each table of a completed one has ended. Leases of
  600 s are shorter than the push timeout of 900 s, and with an overrun neither holds.
- `MembersAreApart`, `AllOrNothing`, `RefusedOnlyWhenTaken`: two or more finished tables
  of one shape, each in one merge at most; all merges of a press or none; and what the
  screen offers is refused only for a table that is taken or gone.
- `ListedOnce`, `StandsInPlace`, `OpenedIsWhole`: the list of tables and the merged table,
  each put together from several queries, name every table once, in its place, and whole. A
  merge keeps the order in which its members were ticked (`table_merge_members.ord`); the
  model has them in the order of the listing, because no property tells the two apart.

Of the review and the screens before Convert:

- `OfferedIsAccepted`, `SpreadTakesNothingAway`, `VersionNamesTheFields`: a write the panel
  offers passes `validateEdit`; spreading it removes no column its tab showed from a table
  that was offered when it was sent (a tick may outlive the offer, see the disagreements
  below); and a tab that has the server's version has its fields, in whichever order answers
  come.
- `UploadedIsConfirmed`, `RowsAreApart`, `RetryKeepsItsFile`: a row that says Uploaded is
  queued on the server; two rows are two files; a retry keeps the file it was given, for as
  long as the request has it. The first and the last leave out the rows that two runs were at
  work on at once (`twice`): each of the two may have made such a row a file, and then neither
  holds. How that happens is in the list of disagreements below.
- `DeltaIsWhole`, `StoppedIsSettled`, `SettledIsOpen`: a file the poll will not be sent
  again has all its tables here; a poll that stopped has answered for every landed file the
  request still has;
  and when it has stopped, nobody waits for a Convert button that stays shut.

Of the small parts:

- `EveryDroppedFileIsStaged`, `OneHandOver`: no file of a drop is lost but those the walk
  gives up by design; a surface makes one batch of one visit.
- `FinishedIsFinished`, `RowsMoveForward`: what the converting screen says only of a batch
  that is over is true, and no row goes back while it is open.
- `NoCardIsLost`, `DeniedOnlyWhenDisturbed`, `NeverThrownOut`: cards survive identities and
  tabs, a lost cookie is recovered from, and no answer throws a page out of a batch it
  knows has converted.
- `SignsWithCredentials`, `OnePool`: a call signs only where a token and the configuration
  have been written and the environment points there. It may meet a file that is empty, but
  only one that another call is writing at that moment or whose last write broke off; and
  first calls that meet build one pool.
- `ShownPassesTheChips`, `TabsAreApart`, `HeldIsListed`: rows on screen pass the filters by
  what is on screen; `sheetName` gives no name twice and none too long, so what a workbook
  refuses is names that differ only in case; until a write of its index is refused, what the
  browser's cache holds is what the index lists.

Each property has a mutant in `PROJECT.json`: a plausible bug in the code, written as an
operator beside the definition it replaces ("Mutation" in the modules), under which TLC
finds the property violated in the same instance.

## Bounds

- *One file in the pipeline.* Files meet only in `converted` and in the row set of one
  convert call. The theorems cover any number of files.
- *Two or three deliveries.* Two at work on one file are what every race here needs: one
  that has lost the lease and one that has it.
- *Attempts* (`MaxAttempts`, `files.max_attempts`): three in `Recovery`, because a stale
  inspector that finishes after the conversion has begun needs a third claim; two
  elsewhere, so that "attempts left" and "last attempt" both occur. `Zamp` takes three
  where a process may stop twice.
- *`OutboxMaxAttempts`*: one or two, so that a publish can be retried and can fail for
  good. Nothing else depends on the number.
- *One API call at a time* in the pipeline.
- Outbox and broker need no bound of their own: attempts bound them, which is what
  `WorkIsBounded` says.
- *Status*: two files, because a refresh must be able to miss the other's file; a third
  for `createOne`; two transactions, one that counts and one that commits in between.
- *Merges*: two tables that fit together and two of another shape that are too long to be
  opened (`MAX_ROWS`), one that failed; two calls, two merges ever made, one discard: a
  press, one beside it, and what is left of both.
- *Review*: two tables of one shape and one of another; two writes under way (`MaxSaves`),
  versions to 3, five moves of a person (three where a call fails). One tab: writes that
  overlap come from a panel that was closed or reloaded in between. That a second tab may
  remove a field it has not read is in the list of disagreements below.
- *Uploads*: two runs (`MaxRuns`) are a drop with an addition or a retry beside it; one
  poll budget and one fault at a time. One fault is enough for two calls to make two files for
  one row: `RetryKeepsItsFile` is violated in this run as soon as it does not leave out
  `twice`. `UploadedIsConfirmed` takes two faults for that (a signing of another run and a
  PUT), which meet in the theorem.
- *Small parts*: three tables in a workbook and three numbers for their tabs (`Numerals`;
  a number counts as one character of a tab's name, past nine too), three entries of the
  cache in a budget for one, two users and two batches, two API calls with one change of
  token, a folder of three and one too deep. Two of each thing that can meet; the theorems
  have no such bound.
- *Workspace* is run with one tab, two batches and calls that overlap; a second tab is left
  to the theorems, which hold for any number.
- Symmetry: the two deliveries of one service are interchangeable in `Recovery` and
  `Deployed`, files and transactions in `Requests`, deliveries in `Combined`, surfaces in
  `Parts` (safety only); the liveness run uses none.

## Fairness

`FairSpec` assumes: the relay tries due rows (WF), a message that waits is received by an
idle service again and again (SF), leases run out and the sweep runs (WF: Cloud Scheduler
calls it every minute), a delivery that received a message gets to its claim if it is
received over and over (SF: nothing in the code bounds deaths before a claim, since
`attempts` counts claims), and a delivery that owns a file ends, by success, failure or
death (WF). Nothing is assumed about API calls, about publishing ever succeeding, about
acknowledgements arriving, or about an attempt ending well. `LeaseExpires` with WF beside
a heartbeat is sound: an attempt that ends or dies stops renewing, and an attempt that
works for ever is excluded by `Ends`. The other specifications state no fairness: nothing
is claimed of a person or a browser but safety.

## Findings

Each is a run whose counterexample is a trace of the code against a sentence of it.

1. **A completed file can fail** (`DuplicateDelivery`). `claim` reports EXHAUSTED before
   ALREADY_DONE (`leases.py:143`). `outbox.py:9`: "The lease in §31 is what makes
   duplicate delivery harmless."
2. **A worker without a lease fails the file** (`LostLease`). `leases.fail` has no
   `claimed_by` predicate (`leases.py:222`). `pipeline.py:398`: "Stop renewing and let the
   other worker own it."
3. **Convert can miss a file** (`ConvertWhileInspecting`). Neither transaction sees what
   the other has not committed. `convert.ts:20`: "each of the rest is carried straight
   into conversion by the inspect worker the moment its shape lands".
4. **An ended request keeps converting** (`EndedRequest`). `convert` sets the status to
   CONVERTING without looking at the files (`convert.ts:64`): when all uploads have failed
   the request is READY, Convert is accepted, moves nothing, and no refresh ever follows.
   `docs/backend-infrastructure-execution-plan.md:2658`: "if every file in the request is
   terminal -> request.status = COMPLETED". The same property is violated, in longer
   traces, by two files that complete at once and miss each other's stage, and, with the
   silent changes, by the sweep, a dead outbox row, a discard or a pause.
5. **Two rows, one file** (`SameName`). A call for an existing request pairs a new file
   with the row of an earlier one that has its name (`uploads.ts:71`), and its bytes
   replace the other's. `uploads.ts:27`: "filtering or reordering here silently pairs a
   file with someone else's URL."

Disagreements that the models have and no run keeps, each with the words it disagrees with:

- a confirm repeated while the first waits for storage queues the file again or fails it
  (`uploads.ts:188`: "a repeat is a no-op");
- instances of one revision share `claimed_by` (`config.py:127`: "the lease still
  identifies one process");
- Zamp: work that outlives its lease takes a completed file back to SCHEMA_READY, because
  `update_stage` names neither holder nor stage (`Zamp/docs/worker_review_findings.md:64`:
  "COMPLETED preserved");
- Zamp: a file whose attempts are used up is refused, answered 200, and waits for ever
  (`docs/backend-infrastructure-execution-plan.md:2725` would have it failed);
- Zamp: a stop between the move (or the reap) and the enqueue strands a file at CONVERTING
  (`zamp_shared/sweep.py:16`: "the file goes back to the stage it came from and is
  re-enqueued");
- two calls that sign one row, the first given up here but not there, or its row marked
  failed by the signing of another run (`batch.tsx:139-147`) and sent again with Retry, find no
  file both and make one each: the row changes its file, and the other is left at UPLOADING,
  which keeps Convert shut (`uploads.ts:36-38`: "the same id twice returns the same request and
  the same fileIds rather than creating a second request, so a retried call on a flaky
  connection is harmless"; `:58-59`: "a retry pairs each name with the file it already
  created");
- a table that is ticked in the picker and then, by an answer nobody is shown, ceases to be a
  target is written all the same and loses the column (`UpdateTargetsPicker.tsx:54,196`;
  `lib/schema.ts:225-228`: "A table that holds a field this schema does not is never a target
  at all: writing this shape over it would take that field away, and removing a field is not
  one of the two edits this product has");
- a tab that has not read a column another tab added removes it by saving, and the save is
  accepted;
- two files called `Invoice` and `invoice` make no workbook: `sheetName` takes their names for
  two, a workbook for one, and refuses (`lib/xlsx.ts:27-33`: "A legal, unique sheet name");
- a workbook reads the figures "1.234,50" and "AB-99" otherwise than the filters and cells do
  (`lib/xlsx.ts:7`);
- a call that finds its token to be the last one signs with files that another call, whose
  token is newer, is just writing (`gcp-auth.ts:176` and `:181`; `:145-146`: "a config file
  whose subject token is a second file we keep current");
- with drop zone and strip both on screen, a second batch starts behind the first
  (`useFileIntake.tsx:67`; the lock is one per surface);
- a pausing failure releases its file without queueing it; a message that is dead-lettered
  before its first claim strands its file; `packages/web/src/server/README.md:61-64`
  describes a convert gate that waits for inspections, which `convert.ts:49-59` no longer
  does.

## Proofs

TLAPS proves, for every set of files, tables, deliveries, identities, callers, tabs and
every number of attempts:

| Theorem | Says | Assumes |
| --- | --- | --- |
| `TypeCorrect` (`PipelineProof`) | `Spec => []TypeOK` | the modules' assumptions on the constants |
| `NoReturn` (`PipelineProof`) | `Spec => NoWayBack` | `RoleSeparated` |
| `PipelineImplementsFileLife` (`PipelineProof`) | `Spec => ImplementsFileLife` | `RoleSeparated`, `OneCaller` |
| `NothingIsStranded` (`PipelineSafety`) | `Spec => []NothingStranded` | `RoleSeparated`, no dead letters, no pausing failures |
| `TablesMatch` (`PipelineSafety`) | `Spec => []TablesMatchFile` | nothing: shared identities included |
| `CompletionIsFenced` (`PipelineSafety`) | `Spec => FencedCompletion` | `OwnIdentity`, which the deployment does not give: see below |
| `WorkBounded` (`PipelineSafety`) | `Spec => []WorkIsBounded` | `RoleSeparated`, finitely many callers |
| `StatusTypes`, `StatusIsNeverAhead` (`RequestsProof`) | `RequestStatus`: `Spec => []TypeOK`, `Spec => []StatusNeverAhead` | the module's assumption on the constants |
| `WholeFilesArrive`, `StopsWhenSettled` (`BatchProof`) | `PrepareSpec => []DeltaIsWhole`, `[]StoppedIsSettled` | the module's assumption |
| `RowsStayApart`, `RetriesKeepTheirFile` (`BatchProof`) | `PrepareSpec => []RowsAreApart`, `RetryKeepsItsFile` | `DistinctNames`: without it the first is false, as the run `SameName` shows |
| `SettledOpens` (`BatchProof`) | `PrepareSpec => []SettledIsOpen` | `DistinctNames` |
| `UploadsAreConfirmed` (`BatchProof`) | `PrepareSpec => []UploadedIsConfirmed` | the module's assumption |
| `OfferedIsTaken`, `VersionTells`, `SpreadKeeps` (`RequestsProof`) | `ReviewSpec => []OfferedIsAccepted`, `[]VersionNamesTheFields`, `SpreadTakesNothingAway` | finitely many tables; detected fields are fields, with a currency code on none but a currency (`types.ts:73`) |
| `EditSurvives` (`ZampProof`) | `ZampSpec => EditIsKept` | the module's assumption; overruns and stops included |
| `ZampInvariant`, `ConvertedStays`, `CompletedSettled` (`ZampProof`) | `ZampSpec => []ZampInv`, `ConvertedStaysSo`, `[]CompletedIsSettled` | the same (the properties are about work within its lease) |
| `MembersApart`, `MadeTogether`, `OnlyTakenIsRefused` (`MergesProof`) | `Merges`: `Spec => []MembersAreApart`, `AllOrNothing`, `RefusedOnlyWhenTaken` | the module's assumption |
| `OpenedWhole`, `TablesListedOnce`, `MergesStandInPlace` (`MergesProof`) | `Merges`: `Spec => []OpenedIsWhole`, `[]ListedOnce`, `[]StandsInPlace` | the module's assumption: the listing names no table twice |
| `SignedWithCredentials`, `OnePoolOnly` (`PartsProof`) | `CredentialSpec => []SignsWithCredentials`, `[]OnePool` | the module's assumption |
| `DroppedIsStaged`, `HandsOverOnce` (`PartsProof`) | `IntakeSpec => []EveryDroppedFileIsStaged`, `[]OneHandOver` | the module's assumption |
| `SaidWhenOver`, `NoRowGoesBack` (`PartsProof`) | `ConvertingSpec => []FinishedIsFinished`, `RowsMoveForward` | the module's assumption |
| `CardsAreKept`, `RecoversItsSession`, `StaysInsideItsBatch` (`PartsProof`) | `WorkspaceSpec => []NoCardIsLost`, `[]DeniedOnlyWhenDisturbed`, `NeverThrownOut` | the module's assumption |
| `CacheIsListed` (`PartsProof`) | `CacheSpec => []HeldIsListed` | finitely many keys, answers that are not empty |
| `SheetsHaveTabsOfTheirOwn` (`PartsProof`) | `DownloadSpec => []TabsAreApart` | `DownloadsAssumption`: a tab may be longer than four characters, and there are as many numerals, no two alike, as a batch has tables |
| `RowsPassTheChips` (`PartsProof`) | `TableView`: `Spec => []ShownPassesTheChips` | `TableViewAssumption` (each field has one type and one place), and `TextsAreRead`: the parsers read the texts there are as the amounts, days and lists they were written for |

`RoleSeparated` says that deliveries which share an identity belong to one service that
serves one topic; `config._build` puts the role in front of the instance id, so the
deployment satisfies it even though all instances of a revision share an identity.
`OwnIdentity`, which the comment at `config.py:127` asks for, is stronger, and the code does
not satisfy it: `config.py:129` gives the instances of one revision one identity.
`CompletionIsFenced` is therefore not a result about the deployment, and is not listed as one
in `PROJECT.json`: it says that the fence in `leases.complete` would suffice if the comment
were true.

`OneCaller` says that API calls do not overlap; the text on `ImplementsFileLife` above says
what two confirms of one file can do.

The bounds of the models (attempts aside, how many calls, moves, faults, versions) are
constants of any size, so a theorem is about every bound at once.

### The pipeline

The inductive invariant has layers, each proved on top of those before.

1. `Frame` = `TypeOK` and: a row has a holder exactly when it has a deadline
   (`LeaseShape`); the rows `startConverting` holds are still SCHEMA_READY and held once
   (`LocksHold`); every outbox row that a delivery or a call names exists (`RowsExist`).
   Type correctness needs all of it: marking a row that does not exist would break the
   type of the outbox, and moving a row that has changed since would break its shape.
2. `OneDirection`: once a convert-requested row exists for a file, the file is in
   conversion or past it, every converting delivery is about such a file, and an
   inspection *that still holds its lease* is about a file for which no conversion was
   asked. That last part is the reason the `claimed_by` predicate is enough, and where
   `RoleSeparated` is needed: an inspector must not share the identity of a converter.
3. `Early`, for the refinement: a file at UPLOADING has no outbox rows, so no delivery can
   be about to claim it, and the confirm that has asked storage about it still finds it
   there; no file is arriving once Convert has passed its gate; nobody holds a failed
   file. With it, each action of a delivery does to its row what `FileLife` allows
   (`WorkAllowed`): the holder what its stage says, and a delivery that is not the holder
   nothing, except to fail the file or to carry on a shape that Convert has missed.
4. `Waiting`: a file that waits has a *fresh* row, one whose message is with the broker or
   which is PENDING with no caller about to mark it, and on which no delivery is at work.
   `NothingStranded` alone is not inductive: an acknowledgement or a late inline mark could
   take the only row the file has. Freshness says who could take it, and that nobody can.
5. `TablesHold`: `TablesMatchFile`, and that a file with a holder has no failed tables and
   a converting delivery is about a file that has tables. Only the holder fails tables and
   leaves the file to be tried again, and it lets go in the same transaction.
6. `LatestHolds`: a delivery at work whose identity is on the row made the claim the row
   counts as its latest. Only a claim counts an attempt or names a holder (`RowHolder`), so
   with identities of their own an older claim never passes `claimed_by = me`.
7. `BudgetHolds`: the rows ever sent for a file, those it may still send (an unfinished
   attempt, a conversion not asked for) and the attempts spent never exceed the bound.
   Every action that adds a row uses up one of the others (`Budget`).

Each layer is proved by one lemma per group of actions (API, relay and broker,
deliveries, sweep and clock) with one step per action; facts about appending to and
settling outbox rows, about acknowledgements and about the five lease statements are
lemmas of their own.

### The status

`StatusInv` adds to `TypeOK` and `StatusNeverAhead` what each open
transaction relies on (`TxnHolds`): the rows it has written are as it found them, and what
it has counted is still true of the first files. The second part is the argument for old
counts: a file that has ended stays ended, a failed one stays failed, and one that has its
shape keeps it until `converted_at` is set (`Onward`), which the refresh reads afresh. Had
the refresh read `converted_at` with its counts, the last would not do.

### The review

`ReviewInv` ties what is held in three places to the server. `Knows`, of a tab's copy of a
table and of every answer on its way: its version is not ahead of the server's, and if it
is the server's, its fields are too; so an answer that comes late carries an older version
and claims nothing. `GoodEdit`: a draft keeps the detected keys, and every key of the
fields it was begun from, because no control takes a field away. `SaveHolds`: a write on
its way reaches only tables of one detected shape, and those of them that were offered when
it was sent its tab had shown without a key the panel's table lacks. `TicksHold`: what is
ticked is of the panel's shape, offered still or not, for a detected shape never changes. The
draft follows the panel to another table only where its baseline is that table's current
fields (`carriesOver`), which is what makes `GoodEdit` and `SaveHolds` survive it
(`PanelHolds`).

### The files of a request

`BatchInv` holds for any number of files, upload runs, polls and faults.

- `ServerHolds`: only a file that has been read has tables. With `ServerGoes`, which every
  step of the server satisfies (what a file is named and what was read of it stays), an
  answer of the second query of a poll holds nothing of a file or all of it, whenever it
  arrives and whatever the first query said; `Whole` follows for what is received.
- `StandsFor`: a row, a run, the memory on the disk and what the loop last covered name
  only files of the row's own name. So under `DistinctNames` two rows are two files, and
  of the live files of a name there is one, which is what `createUploadUrls` finds again.
- `Stopped`: a loop that has ended covers exactly what has landed, and unless its budget
  was spent each file it covered has an answer, or is discarded and has no row.
  `StoppedIsSettled` alone is not inductive: a file may land after `doneRef` was read, and
  only `restartedFor` tells that it was not among those covered. A discard takes away
  answers and rows together, which is why it cannot undo it.
- `GateInv`: what has an answer has arrived and been read, and every query from then on
  sees it so (`FilesTell`). So an answer that leaves the gate shut, or says that files are
  still being read, is about a file without an answer, and the loop that stopped on it has
  left that file behind (`EndTells`). With `Stopped` and the rows being all the files of
  the request there is no such file: `SettledIsOpen`. That Schemas is ticked by a count of
  files answered for is right because rows that are apart are no more than those.
- `WorkInv`: a call that the server is still at work on is about files that are still to be
  sent, and all that is left of a run that is lost; and but for the files in `twice`, at most
  one run or lost call is at work on a file.
- `SignInv` is about the time between what a call has read and what it makes. For a file
  outside `twice` nobody else makes a row of its name in between, so under `DistinctNames` a
  name has one live row at most, and it is the one the call has for it: `RetryKeepsItsFile`.
- `UploadInv`: a row that says Uploaded has arrived on the server, or a run has still to
  confirm it (`UploadedHolds`); a run that sends and a row on the screen are about one file
  (`OneFile`), again outside `twice`; and what the disk remembers has arrived, which is what
  a reload shows.

The proof needs `twice` exactly where the code has no answer: `createUploadUrls` asks for the
request's files before the transactions that add to them, and nothing (no lock, no key on the
name) keeps two calls for one row from adding one each. A person gets there by a Retry of a
row whose first call was given up but goes on at the server, or was marked failed because the
signing of another run failed.

### Zamp

`ZampInv` has three parts. `ReadHolds`: a file that is SCHEMA_READY or further, and a
delivery that has passed the detection of a table, has that table read; it needs nobody's
lease. `ClaimHolds`, while no lease is overrun: at most one delivery has the file still to
move, and it is the latest claim's, or the file has failed under it. There is no fence in
`update_stage`, so this is where time does the fencing. `LoopHolds`: a conversion has ended
each table behind it, through every place where a process may stop. `EditSurvives` needs no
invariant beyond types: every write of a table's fields but the API's is an insert that
does nothing where there is a row.

### Merges

`MergesInv` is `MembersAreApart` with types and one fact about a press between its check and
its writes: what it submitted is done. That its merges are still free when they are written
is not part of it, and is false: another press may have committed in between. What holds is
the primary key, and `MadeTogether` is the proof that a violated key takes back the whole
press. `OnlyTakenIsRefused` rests on a lemma that `groupByShape` only makes groups for which
`mergeConflicts` finds nothing.

### Credentials, intake, converting, workspace

- `CredentialInv` says for each place on a call's way what is on disk by then (`Reached`):
  an early return on an equal token finds files because `lastToken` is set after both were
  written, and a rewrite never takes one away. That it may find one empty is not excluded;
  `FilesInHand` says why it then is: another call is between opening and filling it, or the
  last write of it broke off (`cut`). `PoolInv`
  counts the creations under way and the pools: together at most one.
- `IntakeInv`: what a walk has left and lost are parts of what was dropped (`Accounted`),
  a batch is what was chosen and not lost, and a surface stays shut as long as a walk or a
  batch of this visit is its own (`StaysShut`).
- `ConvertingInv`: a table's mark and its file's stage agree (`ServerHolds`); every answer
  kept anywhere (in the cache, on the screen, by the visit) is borne out by the server as
  it is now (`BorneOut`), because what an answer calls final stays so; an answer under way
  that has read the end of the request reads a server that stands still (`ReadsTruly`); and
  it will show what the screen shows already (`WillShow`), which is why no row goes back.
- `WorkspaceInv`: the current identity has no parked list, so writing the list and parking
  it never meet (`CardsInv`); a call that nothing disturbed claims what the storage names,
  and when it is sent again the cookie is that identity's; and the page of a batch asks
  whether it converts only while it does not know (`TabsInv`).

### Lists that are put together

`OpenedIsWhole`, `ListedOnce` and `StandsInPlace` are about answers computed from several
queries. `ReaderInv` says what those have brought: each table once, merges that share no
table, and of an opened merge either nothing or, in what is loaded and what is still to
load, all its members, each once. It holds although merges come and go
between the queries because the merges of one query are apart in the state it reads
(`MergesInv`), and because no step takes a table out of a merge, undone or not, or adds one
(`MembersStay`).

What `pollResult` makes of it is a fold: the merges are spliced into the single tables from
the back to the front. `SpliceStep` is one turn of that loop, `AllSpliced` all of them: a
splice leaves what is before its place alone, so the places computed beforehand stay right
only from the back. Counting from there, an entry is a single table or a merge, each once,
and a single table stands before a merge exactly if it was listed before the first member.

### Cache, workbook and table

- `CacheInv`: until a write of the index is refused, the index is of what is held
  (`ListOf`) and within the budget (`WithinBudget`). The eviction adds up the index; the
  store is added up key by key. The two sums are one because each line is one entry
  (`ListedTotal`), and dropping the oldest until the rest fits ends within the budget or at
  the one entry just written (`EvictedIsEnough`).
- `TabsAreApart` is a pigeonhole: `sheetName` tries as many numerals as there are tables,
  and fewer names are taken than that, so one is free (`NameIsNew`). Names are compared as
  `taken` does, case and all; a workbook that folds the case is the next step, `Refused`, and
  what it throws is a failure the dialog shows. That two candidates
  differ needs the number to survive the cut to 31 characters, which is why the base is cut
  and not the whole name (`CandidatesAreApart`).
- `TableInv`: a filter in force is one the form offers for its column, complete, and on
  texts a person can type. So each operator meets only cells of its type, and what is left
  is that the cell a filter reads is the text on screen (`CellIsShown`) and that a
  comparison of what was parsed agrees with one of what was meant (`FiguresAgree`).

Several of these definitions are recursive functions or folds. The library's induction
theorems cannot be instantiated here, so `Counting` proves what is needed from the least
element of a set of numbers (`Least`, `FromZero`), and each proof names the set of lengths
for which its statement holds. Sums are counted as pebbles on piles (`SumOf`), which makes
the order of adding irrelevant.

## What is only model-checked

- `EveryFileSettles`: liveness under fairness and ENABLED are outside TLAPS's reach.
- `TextsAreRead`: what the parsers of `Cells` make of a text, character by character, is
  evaluated by TLC on the texts of the run `Parts` and assumed by `RowsPassTheChips`. It is
  not true of every text there could be: one figure may be meant in two ways, and a parser
  has to choose.
- The findings: a counterexample needs no proof.

## What is not modelled

See "components" in `PROJECT.json` for every part with its reason. In short: the contents
of documents, object storage, HTTP, the model client, formatting and layout carry no
protocol state. In the modelled parts, `file_count` (written, never read), the events log,
backoff times and batch sizes of the relay, per-file progress in the browser, labels of
fields, names of merges, and the deadlock Postgres may break between `_fail_exhausted` and a
conversion are left out. `Pipeline` and `Zamp` are not composed: they are two deployments of
one schema, of which one serves at a time. Zamp's own `refresh_request_status` is left out;
`RequestStatus` models the refreshes of `packages/worker` and the API.

## Plan

What is left, in order of importance:

1. Under which conditions the status is exact, so that the list of ways it goes stale is
   known to be complete.
2. An abstract `Delivery` for the outbox: every committed row is delivered at least once or
   declared dead.

## Running it

```
tlc -workers 2 -config Recovery.cfg MCPipeline
tlapm PipelineSafety.tla
```

`Uploads` visits 2.3 million states, `Recovery`, `Deployed`, `Requests` and `Parts` about a
million each; the passing runs take one to three minutes; the runs that look for a violation end in
seconds. The proof modules take one to five minutes each, `PartsProof` and `BatchProof` longer.
