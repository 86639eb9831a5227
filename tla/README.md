# Torrus in TLA+

Torrus is a small download manager: an HTTP API in front of a service that
keeps downloads in a repository, an adapter that makes an aria2 daemon carry
them out, and a reconciler that writes what the daemon reports back into the
repository. Nothing in it is hard on its own; what is hard is that at least five
kinds of goroutines (requests, background starts, the notification loop, the
poll loop, the reconciler) and the daemon change the same rows and the same gid
map, each with a copy of what it read some steps earlier. These modules model
that: the repository by itself, in memory and on a database; the removal of a
download's files; and the whole program with every step between two critical
sections, RPCs or channel operations left open to interleaving, with a daemon
that may fail and a process that may end and be started again.

Paths in this file are relative to `internal/` unless they begin with `cmd/`,
`api/` or `docs/`.

## 1. Inventory

| Component | State | Operations | Interacts through | What is hard |
|---|---|---|---|---|
| Download types (`data/download.go`, `fp/fingerprint.go`) | none | `Clone`, `Fingerprint` | values | spellings of one request must share a fingerprint |
| In-memory repository (`repo/inmem.go`) | `byID`, `fpIndex` under one RWMutex | `List`, `Get`, `GetByFingerprint`, `Add`, `AddWithFingerprint`, `Update(mutate)`, `Delete` | called by service and reconciler | two maps that must agree |
| Postgres repository (`repo/postgres.go`) | table `downloads`, unique fingerprint | the same interface, by statements and one transaction | the database | an operation is several statements |
| Service (`service/download.go`) | `startCancels` under `startMu` | `Add` (spawns a background start), `UpdateDesiredStatus`, `Delete`, `Get`, `List` | repository, downloader | the background start outlives its request; `cur` and `dl` are snapshots |
| aria2 adapter (`downloader/aria2/`) | `gidToID`, `activeGIDs`, `lastProg` under `mu` | `Start`, `Pause`, `Resume`, `Cancel`, `Delete`; notification loop `Run`; poll loop | JSON-RPC and a websocket to aria2, events to the reporter | the gid map is read before and written after RPCs; a magnet changes its gid half way |
| File removal (`downloader/aria2/delete.go`) | the file system | `Delete` | called by the service | what may be removed; failing half way |
| aria2 client, notifications (`aria2/`) | websocket | `Subscribe` | channel to the loop | the stream ends and is not reopened |
| Event channel (`downloader/reporter.go`, made in `cmd/main.go`) | a channel of 16 events | `Report` | adapter to reconciler | a full channel blocks requests too |
| Reconciler (`reconciler/reconciler.go`) | the event in hand | `handle`, `Run`, `Stop` | repository | a check by `Get`, then an `Update` |
| Noop downloader, HTTP API, router, auth, request ids, metrics | none that decides anything | | | |

Correctness, per component:

- *Repository*: a fingerprint has at most one row; the index finds exactly the
  rows there are; a deleted id stays deleted; concurrent updates are not lost.
- *Service*: a download is started in the background once; a running start is
  cancelled by a Delete that finds the row; a deleted download leaves no task;
  every request returns.
- *Adapter*: a gid is tracked for the download it works for and no other; a
  live task is tracked; a metadata task and its real task are never both.
- *File removal*: nothing outside the target path, nothing of another download
  and nothing left behind, however often an attempt fails and is repeated.
- *Reconciler*: only events about the row's present task change it; a Start
  event never undoes a Complete; the completion of a tracked task reaches the
  row, but for what `CompletionReported` names.

## 2. Modules

```
DownloadTypes -- InMemRepo ---- InMemRepoSpec -- MCRepo
      |             |   |             |  \------ InMemRepoProofs (TLAPS)
      |             |   |      INSTANCE FingerprintStore
      |             |   +---------------------- Reconciler --+
      +- PostgresRepo -- MCPostgres, PostgresProofs (TLAPS)  |
      |     INSTANCE InMemRepoSpec                           |
      +- EventBus --|---------------------------^            |
      |     \       |                                        Torrus -- TorrusDocs -- MCTorrus
      +- Aria2Daemon - Aria2Adapter -- DownloadService ------+  \---- TorrusProofs (TLAPS)
                                                                        TrackingProofs
                                                                          LiveTaskProofs
                                                                            OutcomeProofs

FileRemoval -- MCFileRemoval
      \------- FileRemovalProofs -- FileClaimsProofs (TLAPS)
```

`DownloadTypes` -- ids, gids, statuses. Go's empty string, where it means "no
id" or "no gid", is `NoId`, `NoGid`. Strings are otherwise abstract: a
`(Source, TargetPath)` pair is a locator, and `fp.Fingerprint` any function
`FpOf` from locators to fingerprints.

`InMemRepo` -- one operator per method, atomic because each method holds the
lock throughout. `byID` and `fpIndex` are the two maps; `issued` records the ids
`uuid.NewString` has returned, for a uuid is never returned twice. `Update`
takes the mutated clone, has both error results and moves the index entry.
Name, Files and CreatedAt are left out: no decision of the repository, the
service or the reconciler depends on them. `delete.go` reads Name and Files;
`FileRemoval` has rows of its own for that.

`InMemRepoSpec` -- the repository called in every order, a step being a call
with its reply. `Spec` has the calls the program makes, `SpecWithAdd` also the
plain `Add` of the interface, which the service does not use: with it the index
may miss rows, and theorem `IndexIsSound` says what is left of its correctness.

`FingerprintStore` -- the abstract specification, from the comments on
`DownloadWriter` (`repo/downloads.go:22-39`): a map from ids to fingerprints,
searched rather than indexed. `InMemRepoSpec` refines it with
`key <- keyOf` (the fingerprint of each stored row) and `used <- issued`; the
reply of every call is part of the state, so the refinement compares replies too.

`PostgresRepo` -- the same interface on a database: a session is a goroutine in
one call, a step one statement. `AddWithFingerprint` is an `INSERT .. ON CONFLICT
DO NOTHING` and a `SELECT` after it; `Update` a transaction of `SELECT .. FOR
UPDATE`, `UPDATE` and `COMMIT` that may be rolled back at any point; `Delete` and
`Get` one statement. The row lock and the waiting on the unique index are
PostgreSQL's, at READ COMMITTED, the level `BeginTx` gets. The module refines
`InMemRepoSpec` with `byID <- rows` and `fpIndex <- index` (the row that has a
fingerprint), each operation taking effect, and replying, in one of its
statements. So `Torrus`, which is composed with the in-memory repository, speaks
for both storages but for two things: with Postgres an Add that crosses a Delete
may answer `ErrNotFound` (`FetchInserted`, `FetchExisting`), and any operation may
fail without an effect (`Rollback`).

`EventBus` -- the channel: a sequence of at most `Cap` events; a send on a full
channel is a disabled step of its goroutine.

`Aria2Daemon` -- external, from the way the adapter uses it: tasks that run, may
pause and end; a metadata task that ends by starting the real one and naming it
in `followedBy`; one ordered stream of notifications, which may end for good
(`EndStream`: `aria2/notify.go` closes its channel, `Run` returns, and nothing
subscribes again) with what had not arrived lost. `owner` records which download a
task was started for. No code reads it; properties do.

`Aria2Adapter` -- `Start`, `Pause`, `Resume`, `Cancel`, `Delete`, the
notification loop and the poll loop. A call is a frame with a program counter;
one step is one RPC, one critical section of `a.mu` or one send. Steps that
several methods share in the code's shape are one action with a worker
parameter: `Look`, `Swap` and `ReportGid` are those of `Resume` (ops.go 102-127)
and of a completion in the notification loop (events.go 71-100); `ReportEnd` and
`Untrack` those of `Cancel`, of a completion, an error and a stop;
`ReportProgress` that of both loops. `activeGIDs` has the domain of `gidToID`
(both are written in the same critical sections) and is no variable. `lastProg`
only decides whether the poll loop has progress to report, which is a choice. A
poll goes through the tracked gids one by one, and its list may be stale: a gid
untracked before its turn is skipped (events.go 192-198), one untracked during its
`tellStatus` is still reported, both as in `PollTask` and `ReportProgress`.

`FileRemoval` -- the third part of `delete.go`, which `Aria2Adapter` has as one step
(`PurgeResult`): what a Delete with `deleteFiles` takes from disk. `Plan` is
everything decided before the first removal: the targets (aria2's answer,
else the row's files, else its name), their normal form, the exact and the
trimmed name, the sidecars, the folders to prune. `Refused` is the check that
nothing leads out of the target path. `Begin` plans, `Unlink`, `RemoveSidecar`
and `Prune` take one path each off the plan, may fail and end the attempt;
`DeleteRow` is the service's part when all went well. A path is a sequence of
names, so `filepath.Clean` and `filepath.Join` are modelled by what they do. A path
that leads through a file (`Blocked`) is an error to `os.RemoveAll` and `os.Remove`
(ENOTDIR), not one that does not exist, and ends the attempt.
Several requests run side by side, also for one download.

`DownloadService` -- `Add` with its background start, `UpdateDesiredStatus`,
`Delete`: one action per repository call, per critical section of `startMu`,
per return from the downloader. The frame keeps what the code read at the
beginning (`cur.GID`, `dl.GID`), so decisions are taken on stale values where
the code does so. The background start of a download goes by the download's id:
`Add` spawns one per created row. A call of the downloader runs in the
frame `call[p]` of the adapter while `svc[p]` waits for it.

`Reconciler` -- `handle` for every event type. Paused, GIDUpdate, Meta and
Progress are one `Update`; a Start and the terminal events are judged by a `Get`
(`Judge`) and applied by a later `Update` (`Apply`), with any other goroutine's
step possible in between. Meta and Progress change no modelled field.

`Torrus` -- what `cmd/main.go` wires together, the fairness and the properties.
`Restart` ends the program at any point and starts it again: the daemon's tasks
and the rows are what is left (as with Postgres, which implements this
repository); frames, gid map, cancel functions, the channel and unread
notifications are gone. It stands for a crash as well as for a shutdown, whatever
`Stop`, the contexts and the HTTP server had time for.
`TorrusDocs` -- statements of docs, comments and tests the program does not keep.

Definitions marked "Mutant" are plausible bugs, each in place of the definition
it stands next to; they show that the property named for it in PROJECT.json
can fail, and no specification uses them.

### Inputs

A client posts a download with status Queued, Active or Paused and no gid (the
handlers hand on what was posted; a client-chosen gid is not modelled), updates
an existing download to a wish `UpdateDesiredStatus` accepts, or deletes an
existing one. Requests rejected by validation and requests for a missing id
change nothing and are left out; that a row vanishes between two steps of a
request is not.

## 3. Runs

The repository:

| Run | Checks | Shows |
|---|---|---|
| `repo_service` | `TypeOK`, `IndexExact`, `DeletedStaysDeleted`, `ImplementsStore` | with the program's calls the index is exact, ids never revive and the store is implemented |
| `postgres` | `TypeOK`, `NoLostUpdate`, `ImplementsInMem` | three sessions whose statements interleave, with rollbacks anywhere, overwrite no row they did not read, and do what the in-memory repository does |

Three ids, and three locators of which two share a fingerprint: a row can move
onto a free fingerprint, its own and another row's, and be deleted while two
others live. Three sessions make two transactions and a third call that meets
both. More ids or fingerprints repeat these cases, and the theorems below
do not depend on the numbers.

The files:

| Run | Checks | Shows |
|---|---|---|
| `file_removal` | `StaysUnderBase`, `OnlyProven`, `DeletedMeansGone`, `NoEmptiedFolder` | two deleters, two attempts per download: what is removed is below the target path and the download's; a deleted row leaves nothing its row leads to; folders that deletions emptied are gone |

The disks of `MCFileRemoval` are the cases of `delete.go`: a single file; a
torrent's folder named like the download; a folder named like the download
without its leading tags, proven by a sidecar, by two file names, or by nothing
while another download owns it; a folder two downloads share; a report that leads
through a file of the neighbour; a download whose row has files but no name; and
all combinations of names, row files and answers that lead to the target path
itself or out of it. aria2 may answer or not in every attempt, and any removal may fail.

The program (`MCTorrus`), each run with the requests and faults its question needs:

| Run | Requests and faults | Checks | Shows |
|---|---|---|---|
| `torrus_pair` | two Adds of different downloads and a third request or a restart; magnets | `GidsBelong` | no row, map entry, event or frame ever pairs a gid with a download it does not work for |
| `torrus_delete` | 4 requests or restarts, 2 clients: Add, repeated Add, Cancel, Delete; refused RPCs, lost answers, failed queries, files that cannot be removed; `Cap` 1 | `TypeOK`, `CancellableStarts`, `StartedOnce`, `DeleteEndsTask` | the map of cancel functions is exactly the running starts no Delete has cancelled, and a download has one such start; when Delete removes the row, the task whose gid it read is over |
| `torrus_control` | 4 requests, 2 clients: Add Queued, start, pause, cancel; refused RPCs; tasks that fail | `LiveTasksTracked`, `StartMeetsNoComplete` | the adapter never loses track of a running task; a late Start event never undoes a Complete (a request's own status write, `service/download.go:218` and `264`, may) |
| `torrus_magnet` | 3 requests or restarts, 2 clients: Add, resume, pause, cancel; magnets | `CompleteIsTrue`, `TrackedOnce` | the end of a metadata task is not taken for that of the download, whoever makes the swap |
| `torrus_live` | an Add with its background start and one more request: pause, cancel, Delete or the Add again; files that cannot be removed; poll loop; a websocket that may end; `Cap` 1 | `RequestsReturn`, `CompletionReported` | nobody waits for ever for room on the channel, the poll loop notwithstanding; the completion of a tracked gid reaches its row unless one of the exceptions named under Fairness occurs |

Deadlock is checked in every run. `Rest` is the one stuttering step, allowed only
when every goroutine is idle and nothing is queued (`Quiet`), so a goroutine that
waits for ever is a deadlock.

Runs that find the program against its own documentation (each is a finding of
PROJECT.json, where the sequence is described):

| Run | Checks | Finds |
|---|---|---|
| `delete_orphan` | `DeleteStopsTasks` | a Delete that crosses the background start leaves the task running without a row (`service/download.go:329`) |
| `stale_end` | `EndMatchesGid` | the Cancelled event of an old task clears the gid of the new one (`reconciler/reconciler.go:158`) |
| `swap_undone` | `SwapIsKept` | the start saves the metadata gid over the real one (`service/download.go:147`) |
| `completion_lost` | `CompletionKnown` | a completion announced before `Start` has tracked the gid is dropped and the row stays Active (`downloader/aria2/events.go:67`) |

More behaviours of the same kind were met while modelling and have no run of
their own.

In the program: a cancelled row gets a gid from a start that was under way (against
`docs/persistence-and-repo.md:22`); the Paused event of a former task pauses the
row (`docs/downloader-and-reconciler.md:36`); a Start judged before a pause is
applied after it (`reconciler/reconciler_test.go:85`); when `tellStatus` fails,
the completion of a metadata task is emitted as Complete
(`downloader/aria2/events.go:103`); `AddWithFingerprint` after a plain `Add` of
the same fingerprint creates a second row (`repo/downloads.go:33-36`). After a
restart `gidToID` is empty and nothing fills it again: the notifications of the
tasks that go on are dropped and their rows keep the last status. A crash
between the insert and the start leaves an Active row that no repeated Add starts
(`service/download.go:116`). The poll loop writes `lastProg` for a gid that was
untracked meanwhile, and the entry stays (`downloader/aria2/events.go:224`).

In the file removal: Delete purges aria2's result (`delete.go:27`) before it asks
for the files (`delete.go:39`), so aria2 may not answer and the row's files decide,
which hold only basenames (`files.go:66-70`). The payload in a folder that is not
named like the download then stays although the row goes (against `README.md:218`
of the repository), and a file of the same basename directly in the target path
is removed instead. `DeletedMeansGone` therefore speaks of what the row leads to.
A name that is `.`, `..` or `/` makes every Delete with files fail. A `RemoveAll` of
the trimmed folder that fails half way may destroy the two files that proved it,
and the retry leaves the rest. And a folder named like the download is removed as
a whole, whatever else is in it.

### Bounds

- `MaxRequests`: how many requests clients make; a restart counts as one. Two
  suffice for every race between one request and the goroutines it meets, three
  or four for a request between two others. The bound is in the guards of
  `Client` and `Restart` only.
- `Reqs`: requests in flight at once, one or two.
- `Ids`: one download, but two in `torrus_pair`. Downloads share nothing in
  the adapter but the gid map and the channel, which is what that run is about.
- `Gids`: tasks the daemon may create; without a free one `addUri` is refused,
  an outcome the code handles anyway. Two give a restart or a swap; three, in
  `torrus_pair`, a swap next to another download.
- `Cap`: 1 or 2 instead of 16, so that senders do block.
- `Posted`, `Ops`, `Announced`, `Faults`, `Magnets`, `Polling`: the requests,
  notifications and failures of a run, and whether the poll loop runs: it sends
  Progress events, which no row depends on, so only the run about room on the
  channel has it. Sets of model values that are interchangeable (`Reqs`,
  `Gids`, `Ids`) are symmetric in the safety runs; the liveness runs have none.
- Locators are one per run with one fingerprint (repeated Adds), or one per
  download: rows of different fingerprints do not meet in the repository.
- `file_removal`: `MaxTries` is 2, one attempt that fails half way and the one that
  repeats it; two deleters, so that two requests remove the files of one download
  or of two; two downloads, the second the neighbour nothing may be taken from.

`LiveTasksTracked` is checked without lost answers: a task whose `addUri` answer
is lost is known to nobody, and no document says what should become of it.
`CompleteIsTrue` is checked with `tellStatus` answering (see above). In
`torrus_live` there is one request at a time beside the background start; aria2
announces completions and stops. The poll loop makes its state graph four times as
large, so it has one gid: what a second one adds is said below.

### Fairness

`FairSpec` assumes strong fairness for each goroutine that runs a request or a
background start, for the notification loop and for the poll loop, and weak
fairness for the reconciler: the Go scheduler runs whatever can run. A sender
blocked on the channel is disabled while the channel is full and enabled again
when there is room, so weak fairness would let the poll loop take every free
place for ever; the runtime hands free places to blocked senders in the order
they came, which strong fairness of each follows from. The reconciler waits for
nothing but an event, and stays enabled once there is one. RPCs return
because the HTTP client that `aria2/client.go` (24-49) makes for them has a timeout,
3 s unless configured. Nothing is assumed of clients, of the daemon, of `EndStream` or of `Restart`: tasks need not end.

`CompletionReported` says that from a state in which a gid is tracked and its
completion notified, the row becomes Complete, or the behaviour reaches a state
that explains why it need not:

- the row is deleted;
- the row has another gid: of a second start (`service/download.go:194-209`), so
  that the completion of the first task is a mismatch (`reconciler/reconciler.go:182`),
  or of the real task, if the one that completed was a metadata task;
- a Cancel has found the task gone: it untracks the gid and sends no event
  (`downloader/aria2/ops.go:151-159`), so the notification, read after that, is
  dropped (`downloader/aria2/events.go:65-69`). The row of a Cancel request ends
  as Cancelled. A Delete begins with such a Cancel; if it then cannot remove a file
  (`downloader/aria2/delete.go:250`) the row stays, with the gid nobody tracks and
  the status it had;
- the websocket ends, after which nothing is reported.

`torrus_live` reaches all of them but the second, which takes a second gid; without the
third, for a Cancel or for a Delete, or without the fourth TLC finds it violated. With
two gids, without the poll loop, TLC has checked the formula for a request that starts
a download again beside its background start, for two clients that start one download
at once, and for magnets; the second exception occurs there and is needed. No run
repeats these. The Complete need not last: the write of a request that is still under
way may come after it. Restarts are not part of the liveness run: what they cost is
said above under "More behaviours".

## 4. Proofs

For every value of the constants: any sets of ids, gids, locators, drafts,
fingerprints, sessions, downloads and disks, any fingerprint function, any room
on the channel, any number of requests and every combination of faults:

| Module | Theorem | States |
|---|---|---|
| `InMemRepoProofs` | `TypeCorrect` | `Spec => []TypeOK` |
| | `IndexIsExact` | `Spec => []IndexExact` |
| | `DeletedForGood` | `Spec => DeletedStaysDeleted` |
| | `ImplementsFingerprintStore` | `Spec => ImplementsStore` |
| | `IndexIsSound` | `SpecWithAdd => []IndexSound` |
| `PostgresProofs` | `TypeCorrect` | `Spec => []TypeOK` |
| | `UpdatesAreNotLost` | `Spec => NoLostUpdate` |
| | `ImplementsInMemRepo` | `Spec => ImplementsInMem` |
| `FileRemovalProofs` | `NothingOutside` | `Spec => []StaysUnderBase` |
| `FileClaimsProofs` | `OnlyTheDownloads` | `PlainNames` implies `Spec => []OnlyProven` |
| | `DeletedIsGone` | `ReportsAgree` implies `Spec => []DeletedMeansGone` |
| | `NoFolderLeftEmpty` | `PlainNames` implies `Spec => []NoEmptiedFolder` |
| | `PlansGoStraight` | no `.` or `..` in what a plan that is not refused unlinks or prunes |
| | `CleanOnce` | `Clean(q) = q` for a clean path `q` |
| `TorrusProofs` | `TypeCorrect` | `Spec => []TypeOK` |
| | `NothingMixedUp` | `Spec => []GidsBelong` |
| | `StartsStayCancellable` | `Spec => []CancellableStarts` |
| | `StartReopensNothing` | `Spec => []StartMeetsNoComplete` |
| | `DeletedTaskIsOver` | `Spec => DeleteEndsTask` |
| | `StartsOnce` | `Spec => StartedOnce` |
| | `ProgramKeepsIndex` | `Spec => []RowsIndexed` |
| | `DeletedRowsStayGone` | `Spec => NoneRevived` |
| `TrackingProofs` | `SwapsAreWhole` | `Spec => []TrackedOnce` |
| `LiveTaskProofs` | `NoTaskForgotten` | `NothingLost` implies `Spec => []LiveTasksTracked` |
| `OutcomeProofs` | `CompletionsAreTrue` | `AnswersKnown` implies `Spec => []CompleteIsTrue` |

They assume what the modules name as assumptions and no more: `NoId`, `NoGid`,
`NoKey` and `NoRow` lie outside the sets they extend, `FpOf` is a function, drafts
are downloads. Those about the files have a condition on rows and reports, said
below; `PlansGoStraight` has one on the target path, not to begin with `..`. The
last two theorems have a condition on the faults and requests, and without any
part of it the property fails, as TLC shows on small instances:

- `NothingLost`: no magnets, no lost answers, no restarts, no Delete. A lost answer,
  a Delete that cancels a start and a restart leave a task behind, and a real task
  runs for a while before the adapter hears of it. Refused calls, failed queries,
  the end of the websocket and everything else may happen.
- `AnswersKnown`: no query fails and nobody deletes. A query that fails, or that a
  Delete has left nothing to answer with, makes the end of a metadata task look
  like that of the download. Magnets, refused calls, lost answers, the end of the
  websocket and restarts may happen.

*In memory.* The inductive invariant is `RepoInv`, `TypeOK` and `IndexExact`
together; neither is inductive alone. `AddWithFingerprint` keeps the index exact
only because a new id has no row yet, which is `Rows \subseteq issued`, and
`Update` moves an entry without disturbing another only because the index was
exact. One lemma per operation says what it does to the invariant.
`DeletedStaysDeleted` follows from the type part (a row appears only under an id
outside `issued`). The refinement has one lemma per operation: `IndexExact` turns
"the index has no live entry for f" into the store's "no id has key f", and a
conflict into "another id has it".

*Postgres.* `TableInv` is `LockInv` (locks exclude each other, and the row an open
Update read is still in the table), `IssuedRows` (a stored id has been issued) and
`FpInv` (no fingerprint is shared among rows, nor between a row or an open Update
and another open Update's new row). The last is what the waiting on the unique
index is for: without `ClaimsApart` two commits could bring the same fingerprint.
`NoLostUpdate` follows from `LockInv`. For the refinement `IndexLeads` shows that
the computed index behaves like the map; then a successful insert is
`StoreNew`, a fetch that finds the row `StoreAgain`, a commit, a write without
change and a unique violation are `Change` with its three replies, and every other
statement is a stutter.

With the plain `Add` of the interface a second row of one fingerprint takes over
the index entry, and `IndexExact` is lost. `SoundInv` is the type invariant with
`IndexSound`: an entry that leads to a stored row leads to one with that
fingerprint. It is what `GetByFingerprint` and the repeated Add rely on.

*Files.* `RemovalInv` says that what has been removed, and what every plan in
work still means to remove, lies strictly below the target path. Only the check
in `Refused` and the normal form of paths make it true of a new plan; names,
row files, answers and disks are arbitrary. Attempts that fail, repeat or cross
take from a plan and add nothing to it.

*What deletions take and leave.* Each of the three other properties of the files
has an invariant of its own beside `RemovalInv`, about what each plan in work will
still remove:

- `ProvenInv`: every path and sidecar of a plan is claimed by its download, by its
  row, aria2's report or the trimmed name with its proof. The proof looked up on a
  disk that others are changing was there to begin with, for disks only shrink
  (`ProofBefore`). A folder to prune may be a file on a disk one can write down, but
  then a path to unlink leads through it, which is an error and ends the attempt.
- `GoneInv`: as long as an attempt is at work, every file of its download is gone or
  in its plan (`Pending`). An attempt that fails and one that crosses it do not
  matter: a new plan covers everything again (`PlanComplete`), and a row goes only
  when its plan is empty.
- `FolderInv`: a plan prunes every folder above what it removes (`Closed`), and an
  empty folder is still in somebody's plan. So whoever takes the last thing out of
  a shared folder has that folder to prune, and the others pass it over; the order
  of `Deepest` lets those above it come later.

Their conditions:

- `PlainNames`: a name is a single name. Names come from `info.name`, `filepath.Base`
  and `path.Base` (files.go 131-157); a magnet's `dn` with a slash in it is left
  out. With such a name the payload and the exact name could be two places.
- `ReportsAgree`: what a download wrote and its row leads to is under its name, or
  listed in the row's files and in the report, if there is one. aria2's answer
  replaces the row's files, so a report that names other files than the row would
  leave those of the row. It asks nothing of a download whose row leads elsewhere.

Both hold of the scenes of `MCFileRemoval`, which TLC evaluates (`SceneConditions`).
`Blocked` is needed for `OnlyTheDownloads`: were a path through a file taken for one
that does not exist, a Delete could prune a neighbour's file as a folder of its
own, and `file_removal` would find it, in the scene whose report leads through one.

*Clean paths.* `Clean` is a recursive function. The library's induction theorems
cannot be used here, but that every nonempty set of numbers has a least element
follows from a theorem about finite sets (`LeastNumber`), and gives an induction
whose formula is a set (`UpwardsTo`). With it `Clean` yields a path (`CleanPath`) with
no `.`, a `/` only in front and `..` only after `..` (`CleanProper`). `isSafe` compares
strings; for such a path that is enough: one that begins like the target path
has no `..` at all (`SafeIsBelow`), if the target path does not begin with one.

*The program.* `Inv` is inductive, and each part is there for another:

- `TypeOK` and `FrameInv`: at which program counters a frame of the adapter has a
  gid, so that an event it sends or an entry it writes has one.
- `ServiceInv`: a request or a background start that waits has exactly one call
  in the adapter, about the same download; a request that deletes has
  called `Delete` with the gid it read, and once that call is past `forceRemove`
  the task is not live any more. This is `DeleteEndsTask` before its last step.
- `DaemonInv`: a task has an owner, and a real task the owner of its metadata
  task. Without it a swap could carry the gid of one download to another.
- `GidsBelong`: in the rows, the gid map, the events and all frames at once, for a
  gid travels from each of these places to the next.
- `StartInv`: `CancellableStarts`, and that an id in `launch` is new, idle and
  launched by one request only. This is why a repeated Add starts nothing.
- `JudgeInv`: `StartMeetsNoComplete`, with the kind of event that has been judged.
  It holds because only the reconciler writes Complete: no request moves a row to
  Complete between the `Get` and the `Update`.

A step of the program changes one frame of the adapter, one of the service, the
reconciler's hand or the daemon, and one lemma for each of these four kinds
(`CallMoves`, `ServiceMoves`, `ReconcileMoves`, `FramesKept`) says what is left of
`Inv` by that; every action then has a lemma of its own. `Inv` was first
checked with TLC as an invariant of the runs `torrus_delete`, `torrus_magnet`,
`torrus_pair` and `torrus_control`.

*The program and its rows.* What `InMemRepoProofs` shows is about a repository that
anybody calls. The program calls it with frames that may be old: a gid saved after
a Delete, an event of a row that is gone. `NextCalls` says that each step of the
program is one call of the repository or none (`RepoCall`), that an Update keeps
the locator and what it writes is a download. So the program as a whole keeps the
index exact (`RowsIndexed`) and never brings a deleted row back (`NoneRevived`),
whoever still holds its id and through restarts. TLC checked the three formulas
on an instance with two downloads first; no run repeats them, for
`repo_service` asks the same of every sequence of calls.

*Metadata and real task.* `TrackedOnce` says that no two gids of one family, a
metadata task and what came of it, are tracked together. Each swap keeps that by
itself, but a start could add the second gid to the first at any moment. `TrackInv`
says why it does not: as long as a start has not tracked the gid it got
(`Secret`), that gid and its family occur nowhere else, in no row, event, map
entry or other frame (`Public`); families do not overlap (`RealsInv`); and a swap
leads from a metadata task to its own real task (`SwapKnown`). So the theorem needs
no condition: restarts and lost answers only make gids less known.

*Running tasks.* `LiveInv` adds to `LiveTasksTracked` that an end is announced only
after it has happened (`NotesOver`) and that whoever is on its way to untrack a gid
leaves a task that is over (`FramesOver`): a Cancel that was refused is not on that
way, and a task that is over stays over.

*Completions.* `OutcomeInv` follows a completion on its way: a notification speaks of
a task that is done (`NotesDone`), so does the loop's frame while it asks for
`followedBy`, and after that of one that was no metadata task (`LoopKnows`), and so
do the Complete events on the channel and in the reconciler's hand (`EventsDone`).
`GidsBelong` then gives the row a task of its own.

Each of the three was first checked with TLC, `LiveInv` and `OutcomeInv` on every
state of `torrus_control` and `torrus_magnet`, and in part with more faults.

### Only model-checked

`RequestsReturn` and `CompletionReported`, for liveness under fairness is out of the
prover's reach. So is deadlock, which needs ENABLED. All other properties of the
passing runs are theorems, the safety of the files on the conditions above.

## 5. What is left

- Postgres in the composition: `ImplementsInMem` carries over what the program's
  safety properties use of the repository, but not the waiting on locks.
- An abstract life cycle of a download, queued to ended with at most one task at a
  time, which the program implements for clients that wait for each answer before
  the next request.

## 6. Not modelled

- The HTTP layer, router, authentication, request ids: stateless. A request
  enters the model when the handler calls the service. Metrics and logging:
  the active-downloads gauge is the size of the gid map.
- The Noop downloader, which changes no state.
- Names, file lists and progress values in the program's rows, and `lastProg`: no
  row's status or gid depends on them. Whether the poll loop has progress to
  report is a choice. In `FileRemoval` the names and files are what it is about.
- Postgres' connection set-up and columns, and its plain `Add`, which the service
  does not use.
- Symbolic links in `FileRemoval`, though the repository's documentation has a rule for
  them (`docs/operations.md:29`, `README.md:84` of the repository: the link is removed
  and never its target; `downloader/aria2/adapter_test.go:471` tests it). A disk of the
  model has files and folders only. `os.Remove` and `os.RemoveAll` remove a link itself,
  as they do a file; but `isSafe` compares names, so a link to a folder in the middle
  of a path is followed, and `StaysUnderBase` says nothing about where it leads.
- Folders directly below the target path whose names begin with `..`, which the
  search for the download's root passes over (`delete.go:178`).
- The order of a graceful shutdown (`cmd/main.go`): `Restart` stands for every way
  the process may end, with whatever each goroutine had got to.
- A target path that is `/` or `.` in `FileRemoval`: the target path is a folder
  with a parent.
- The response of an Add is encoded while the background goroutine may write its
  `GID` field (`service/download.go:158`), a data race on the response only.
