# HDR Finisher: TLA+ models and proofs

HDR Finisher is a local photo editor: a Python backend (FastAPI, one process,
a helper process for the Library and short-lived export workers), a plain
JavaScript page with a WebGPU renderer, and an Electron shell. Its own core
logic is what happens to a user's *settings*, *files* and *documents* while
threads, processes, browser requests, windows, other programs, unplugged
drives and crashes come between any two steps. The models are about that; the
pixels are numeric code and are left alone.

The models follow the code under `src/codebase`; `PROJECT.json` maps every
definition to the lines it stands for and lists every hazard at its line.
Python paths below are relative to `src/codebase/backend/hdr_finisher`,
JavaScript ones to `src/codebase/frontend`, unless they say otherwise.

## Inventory

| Component | State | Operations and interaction | What makes it correct | Model |
|---|---|---|---|---|
| Grade saving and settings writer: `library_grades.py`, `library_grade_api.py`, `library_marks.py`, `library_settings_writer.py`, `library_history.py`, `grade-saving.js`, `photo-transition.js` | `photo_grades` (baseline, desired, pending, conflict, external, recovery, previous), the row in `photos`, the queue `settings_writes`, the settings file, the open session | open, edit, save, check, load, resolve, revert, close (HTTP); rating and undo; the writer thread | a queued grade is written or retained, the queue is cleared only for what is current, unseen outside grades survive, the interface's status is true | `GradeSaving` |
| File rename and move: `library_file_commands.py`, `library_file_io.py`, `library_file_state.py` | the record of a command on disk and in memory, files at six places, rows under both paths | preview, execute, run (again every 15 s and at start), Pause, Resume, Cancel | photo and settings move together, nothing is lost or overwritten, it finishes | `FileMove`, `PhotoMove` |
| Edit sessions and commands: `sessions.py`, `edit-commands.js`, `sdr-match-ui.js` | the session's document, revision, undo and redo; the page's optimistic copy and command queue | commands with an expected revision, refusal and refresh, history groups, SDR Match beside the queue | page and session agree at rest, no value is taken off by a late answer, one drag is one undo step | `EditCommands` |
| Desktop shell: `src/codebase/desktop/main.js`, `desktop-commands.js` | windows, the last report about the document, dialogs, phases of start and shutdown | close, save and close, quit, open from outside; commands and reports between main process and page | no close loses changes main knows of, every opened path and question arrives, a quit ends | `DesktopShell` |
| Documents and photo opening: `project-documents.js`, `session-import.js`, `project-io.js`, `projects.py`, `import_jobs.py` | the page's generations and flags, the backend's session, import jobs, project files | open a photo or a project, save, relink, eject, cancel | the newest request wins, page and backend have the same session, edits are asked about | `Documents` |
| Preview scheduling: `preview-scheduler.js`, `render-coordinator.js`, `preview-pipeline.js`, `viewer-status.js`, `zoom-navigation.js` | the current task, a render in flight and one waiting, timers, what was drawn and what was accepted | drag, settle, refine, open, zoom, retry, CPU picture, watchdog | the screen never goes back, Ready is true, the viewer comes to rest | `Preview` |
| Batch export: `batch_export.py`, `batch_export_api.py`, `batch_export_worker.py`, `batch-export.js` | jobs, threads, worker processes, cancel, progress and result files, the export record | start, Pause, Resume, Cancel, close | a finished job is complete, what is reported exists and is recorded, every job ends | `BatchExport` |
| Library helper process: `library_worker.py` | pending futures, the pipe, pause and source gates, the helper's lanes | submit, cancel, pause, source reads, close; the supervisor | each request is answered once, replay after a crash, bounded restarts | `LibraryWorker` |
| Rendering cache of a session: `render_cache.py`, `mask_work.py`, `instrument_work.py` | tables of frames, peaks, scopes and masks, one table of flights, the waiters of a mask, the preview token | preview, bounded preview, scope, mask request; replaced source, colour context, edits | an answer is made from its source, nothing old is kept, a flight belongs to its owner, every request ends | `RenderFlights` |
| Source level cache: `SourceMipStore` in `render_cache.py` | levels in memory and on disk, flights, temporary files | level, save after the answer, prune, sweep, discard | one build at a time, no damaged level is served, budgets hold | `SourceMips` |
| Tile and mask requests: `latest-work-queue.js`, `presentation-gate.js`, `tile-scheduler.js`, `mask-request-coordinator.js` | running and pending work | coalescing, cancelling | the newest work is done at last | not modelled, planned |
| Delete and folder commands: `library_file_delete.py`, `library_file_folders.py`, `library_recycle.py` | the record of a move | other item steps of the same runner | as a move | not modelled, planned |
| Virtual copies: `library_copies.py` | copies in the settings file | create, save, delete, Keep both | as grades | not modelled, planned |
| Retouch, SDR match and delivery jobs; Library pictures and live tiles | tokens, caches keyed by file identity | completions, invalidation | a late completion changes nothing | not modelled |
| Library index, membership, folders; Library page | SQL tables; the page's lists | scans, albums | mostly one transaction each | not modelled |
| Image processing, encoders, shaders, film, denoise | pixels | | | out of reach: numeric code |

How they interact. The page edits a session through `EditCommands`; for a
Library photo it saves through `GradeSaving`, for a project through
`Documents`; `Preview` draws what was edited; `DesktopShell` asks the page
before a window closes. `GradeSaving` and `FileMove` meet in the photo's row
and settings file (a file command blocks the writer and the other way round),
`BatchExport` reads the saved grade, `LibraryWorker` carries the Library's
reading. `RenderFlights` answers what `Preview` asks of the backend and takes
its pixels from the levels of `SourceMips`. Each module keeps what it
needs of its neighbours as small actions of its environment.

## Modules

| Module | What it is |
|---|---|
| `GradeSaving` | one photo, its settings file, the database, the session open in Grade, the requests of its page and the settings writer |
| `PhotoMove` | the abstract specification: a photo and its settings change place at once |
| `FileMove` | the file command that implements it, one file operation or one save of the record at a time |
| `EditCommands` | one page and the edit session, the command queue and the requests |
| `DesktopShell` | the main process, its windows, the page and the two channels between them |
| `Documents` | the page's openings, saves and ejects as interleaved operations, the backend's store and jobs |
| `Preview` | scheduler, coordinator, waiting functions and watchdog of one lane |
| `BatchExport` | the queue of jobs, its runner, the threads and worker processes of the photos |
| `LibraryWorker` | the backend's side of the helper, the pipe, the helper's lanes |
| `RenderFlights` | the requests of one session, each on a thread of its own, and the cache they share |
| `SourceMips` | the threads that ask for or save source levels, the store's memory, files and flights |
| `MC...` | named instances for TLC: model values, scenarios, symmetry |
| `GradeSavingProofs`, `FileMoveProofs`, `EditCommandsProofs`, `ProcessProofs`, `DocumentsProofs`, `BatchExportProofs`, `RenderProofs`, `SourceMipsProofs` | TLAPS proofs |

Scenarios. Where one bound for everything would be either too small to be
interesting or too large to check, a module takes a set `Scenarios` of budgets:
`Init` chooses one of them, and each action of the user or of a fault spends
from it. One run then covers several mixes of what may happen.

### GradeSaving

State. `state` is the JSON document of the photo in `photo_grades`; `row` is
its row in `photos` together with its entry in `settings_writes` (`pending`
and `rev`, the entry's uuid); `file` is the settings file, `mounted` whether
its folder is there; `session` is the photo open in Grade with its edit
revision and its dirty flag; `cmd[c]` is request `c` of the page between its
steps; `writer` is the pass of `LibrarySettingsWriter` between its steps;
`undo` is the Library's undo stack of marks; `history` is only for properties:
who wrote the file's grade last, whether another program ever did, and whether
the folder was ever away.

Steps. A request is cut where the code leaves its locks: `SaveBegin`,
`SaveRead`, `SaveCommit` are the look at the session, the unlocked read of the
settings file and the locked rest of `LibraryGrades.save`; check, load,
resolve and revert are cut in the same way. The writer is cut where it reads
(`WriterSnapshot`, `WriterRead`), merges the grade (`WriterMerge`), takes the
marks lock and looks again (`WriterRecheck`), replaces the file
(`WriterReplace`), acknowledges the grade (`WriterAckGrade`) and clears the
entry (`WriterAckQueue`); `Unlocked` says that nobody else gets at the
database while it holds the lock. `Crash` loses session, requests and writer
and keeps database and file. Grades and marks are values of small sets; a
revision is the smallest one nobody uses, as a fresh uuid4 is one nobody uses.

### FileMove and PhotoMove

State. `fs` says which file (its device and inode, as `signature` compares
them) with which data is at each of the six places a command uses: the old
and the new path, the temporary path, and the three of the settings file.
`disk` and `mem` are the record in `library-file-commands` and in memory;
`job` what the preview put into it; `runner` where `FileCommands.run` is;
`control` a Pause, Resume or Cancel between its change and its save; `rows`
the rows under both paths; `grade` the photo being opened or open in Grade.

Steps. Every rename, creation, copy and removal is a step, and every save of
the record is another, so a crash can fall between any two. `Fail` is the
handler at the end of `run`: the error goes into the record, and `RunStart`
begins again from the files. `cross` chooses between the rename of a
same-drive command and the copy, verification and removal across drives.
`PhotoMove` knows the place, the settings and whether a command is under way;
`FileMove` refines it with `PlaceNow` and `SettingsNow`.

### EditCommands

State. `server` is the `EditSession`: document, revision, undo and redo with
their history groups. `page` is what the page shows, with its revision,
unsaved sliders (`globalEditDirty`), edit generation, the gesture that is held and the commands that
wait for a save. `queue` is the promise chain `editCommandQueue`; `call` and
`match` are the one request of the queue and the one of SDR Match, each in
three steps: sent, answered by the session, continued in the page. A revision
that is refused leads to the refresh and its own request. An adjustment is the
set of the edits it shows, so "a value was lost" can be said. An entry of the
session's history holds the document before it and, only for properties, the
edits that its command brought in for the first time (`new`); `ever` is every
value the session was ever given and `page.drags` the gesture of each value.
`trouble` remembers what a property may have to except: a command that was
refused or lost (`failed`), Match beside the queue, and `inherited`, a local
command that was still queued when another photo was opened: its end counts
down the commits of the new photo (`local-adjustments-ui.js:1042`).

Steps. A press or a drag puts commands on the chain (`Pushed`) or lets them wait
for a save; `Receive` is the whole answer in the page, with every command that
waited for it and follows at once (`Resume`, in the order of the code).
Opening another photo forgets unsaved sliders and the save that is waited for:
`retireActiveSession` calls `clearPreviewCache` at its end
(`session-import.js:705`), and that resets `globalEditDirty` and
`globalEditSyncPending` (`preview-pipeline.js:953-954`). So `Pending` looks at
the saves of the photo shown only.

### DesktopShell

State. `shell` is the main process: phase, backend, both windows, the dialogs
that are open, paths waiting and being granted. `doc` is `documentState`, the
page's last report; `page` is the renderer with what it reported (`known`),
`toPage` and `toMain` are the IPC messages in order. A dialog is a pair of
actions, so that everything may happen while it is open. A command to a page
that does not listen yet is lost, as in the code.

### Documents

State. `page` holds the generations (`importGeneration`,
`projectOpenGeneration`), the flags that disable controls, the session shown
and its unsaved edits; `ops` the asynchronous functions of the page, each a
record with a step for every `await` and the generations it claimed; `store`
the one session of the backend; `jobs` the import jobs; `files` the projects
on disk. After an `await` an operation compares its generation exactly where
the code does, and goes on with what the code uses then. A document that was
installed still has its first picture to draw (`"showing"`, the awaits of
`activateDesktopSession` as one): `Presented` is what comes after it. The
backend's half of a project open is `op.server`: it reads the file
(`open_project`), takes the store's lock (`open_document`) and replaces the
session (`activate_session`), whether or not the page still waits. `Holds(i)` says
that what the backend has comes from operation `i`; with the next session it is
false again, so that one overtaken opening excuses nothing after it.

### Preview

State. `sched` is `previewScheduler` (its animation frame, the current task,
settle and refine timers), `lane` the render in flight and the one waiting of
`renderCoordinator`, `runs` the functions that wait for a save or a render,
`answers` the settled promises; `canvas` is what the GPU drew last, `surface`
which element is on screen, `accepted` what the page believes is shown. Time
is abstracted to an order: promise callbacks run first; a due animation frame
runs before the settle and refine timers and before a tiled draw or the end of
a gesture; a tick of the watchdog is longer than the other timers. Otherwise a
timer may fire at any moment once it is set. Of the renderer
(`webgpu-preview.js`) the model has what it says to the scheduler: a direct
frame draws at once, a tiled one in two steps, and a whole tiled frame is
refused to a drag (`WholeTiledFrame`).

### BatchExport

State. `jobs` are the jobs with one task per photo; a task is the thread `one`
and its worker process, which meet in files (`cancel`, `progress`, `rows`);
`runner` is `_run`, `starting` a start whose photos are being looked up,
`records` the file of export records, `files` what was published. Steps are
cut at every change of a lock, a file or the process. `ReadRecords` to
`WriteRecords` is the critical section of `_record`; `WorkerCrashes` may
fall anywhere in the worker; `Terminate` is the end of the wait in `close`.

### LibraryWorker

State. `worker` has the flags of the class and the place of its supervisor
thread, `futures` and `pending` what was asked, `callers` where each caller
is, `toHelper` and `fromHelper` the two directions of the pipe, `helper` the
child with its queue and running jobs. Kinds of work differ in their lane and
in what they yield to (`mayRun`). A crash of the helper may come at any time;
the supervisor reads its end, starts the next one and replays.

### RenderFlights

State. `requests[r]` is the thread of request `r` with its local variables:
the epoch, context and source it has read, the flights it owns (`owns`) and
those that were taken from it (`cut`), whether it waits for a mask, how it
will end (`fails`). `frames`, `peaks`, `scopes` and `masks` are the tables,
`inflight` the flights, `waiters` the count of `_flight_waiters`. A picture is
what it was made from, so "a frame of the old source" can be said of a table.

Steps. A request is cut wherever the code has no lock: the epoch, the
signature, the flight, the source, the mask, the pixels, the last look at
`is_current`, the table and the flight's end are steps of their own. A flight
that is waited for is looked at again every 50 ms, so waiting is only a
disabled step. `Stranded` is a request that waits for a flight whose owner failed
before its `try` block. `Raise` passes through the `finally` clauses of the flights a
request owns, one after another. `replace_source`,
`update_source_interpretation`, `set_color_context` and `clear_adjusted` are
what edits and new sources do, whole, as the lock makes them.

### SourceMips

State. `memory` and `memoryBytes` are the levels in memory and their counted size,
`disk` the files in the order of their times, `temps` the temporary files by
their writer, `inflight` who builds which level, `threads` where each request
is. A file is a level, whether it was written to the end and whether it was
damaged since. Sizes are counted with `Bytes`, the number of units of all
levels of a table; `Without` is what a removal leaves of a table. The folder a
scenario starts with is one that earlier runs of the store can have left: whole
files, one per level, within the budget (`Kept`).

Steps. `level` is cut at its flight, the read of the file, the check of what
was read, the build, the write, the replacement, each removal of the prune and
the insertion; `persist_cached` at each chunk, between which it holds no lock.
`Damage` is the disk's, `Supersede` a newer request's, `Crash` the backend's.

## Runs

All of them take their constants from the `.cfg`. `CHECK_DEADLOCK FALSE`
because the program rests when nobody does anything and the bounds are spent.

| Run | Question | Bounds |
|---|---|---|
| `grades_saves` | Does the queue hold every grade that waits (`QueueHoldsGrade`), is it cleared only for what is current (`AckIsCurrent`), is no unseen grade overwritten (`KnownOverwrite`), is the recovery never an older edit (`RecoveryIsCurrent`), is "All changes saved" true (`AllChangesSaved`), and is a queued grade at last written or paused (`Settles`)? | 3 grades, 1 request; scenarios: 2 edits with 1 outside write; 1 edit, 1 outside write, 1 crash; 2 edits, 1 failing write, 1 crash; 1 revert, 2 marks, 1 crash; 1 edit, 1 unplugging |
| `grades_undo` | Disagreement: undo of a rating takes a saved grade out of the queue (violates `QueueHoldsGrade`). | 1 edit, 1 rating |
| `moves_recover` | Do settings follow the photo (`SettingsFollow`), does the command refine `PhotoMove` (`MovesAtOnce`), and does it end (`Finishes`)? | 3 settings, 2 changes, 2 failing paths, 2 crashes |
| `moves_outside` | With every actor at once, are the newest pixels kept (`PhotoKept`) and files of others left alone (`ForeignKept`)? | one of each: edit, file of others, change, opening, control, failing path, crash |
| `edits_keeps` | Do page and session agree at rest (`ShowsSession`), do no two undo steps in a row bring in new values of one drag (`DragIsOneStep`), does no answer of either kind take off a newer value (`AnswersKeepEdits`), and does undo come after what it was pressed after (`UndoComesAfter`)? | 2 slider edits, 2 local commits, 1 undo or redo, 1 other (SDR Match, opened photo or lost request), 1 drag |
| `shell_closes` | Are known changes closed only with an answer (`KnownEditsKept`), does an opened project reach a page (`PathReachesPage`), is a question to the page answered (`LeaveAnswered`), does a quit end (`QuitEnds`)? | 2 edits, 4 requests (close, quit, save, open a document, library window), 1 path from outside, 1 crash of page or backend |
| `documents_opens` | Is the newest request shown (`NewestShown`), has the page the backend's session, or the backend one of a particular request that was overtaken or is not answered yet (`PageIsLive`), are early edits kept or asked about (`EarlyEditsKept`), does every operation end (`Ends`)? | 2 photos, 2 projects; 11 scenarios of up to three openings, saves, ejects, cancels, edits and one failing request |
| `preview_settles` | Is Ready true (`ReadyIsShown`), does the screen never go back (`NeverOlder`), does the viewer come to rest (`Settles`)? | 6 scenarios, 3 functions in flight, 2 retries of the watchdog |
| `batch_ends` | Is a finished job complete (`FinishedIsComplete`), is what is reported on disk and recorded (`ReportsKept`), does the record tell unedited photos rightly (`UneditedIsExported`), does every job end (`JobsEnd`)? | 2 photos in 2 versions, 2 workers, 7 scenarios of up to 2 jobs, 3 controls, 2 faults, an edit, a shutdown |
| `worker_answers` | Do backend and helper agree, whatever died, on what waits, what was sent and what is paused (`HelperAgrees`), is every request answered (`Answered`)? | 7 scenarios of up to 4 requests of all kinds, 3 deaths of the helper, 2 pauses; 1 thread per lane, 1 restart |
| `render_shares` | Is nothing old answered or kept: pictures, masks, peaks (`NothingStale`), is a flight its owner's (`FlightsMatchOwners`), is a mask compiled once and as long as somebody waits (`MasksShared`), does every request end that is not stranded at a flight nobody lands (`Ends`)? | 3 requests, 1 mask, 1 kept frame (6 in the code), 10 scenarios |
| `mips_keeps` | Is a level built once at a time (`OneBuild`), is what memory serves whole and counted (`MemorySound`), are the folder's files whole, within budget at rest and no temporary file nobody's (`FolderSound`), does every request end (`Ends`)? | 4 threads, 4 levels of 2 sources, budgets 2, 2 chunks, 6 scenarios |

Several of these properties are conjunctions of named ones, each with its own
comment in the module: `AnswersKeepEdits` of `SaveKeepsUnsaved` and
`CommitKeepsStrokes`; `ReportsKept` of `ResultsAreFiles` and `ExportsRecorded`;
`HelperAgrees` of `HelperKnows`, `SentOnce` and `GatesReach`; `NothingStale` of
`FreshAnswers`, `MasksOfThisSource` and `PeaksOfFrames`; `MasksShared` of
`OneMaskCompile` and `WaitersCounted`; `MemorySound` of `AnswersWhole` and
`MemoryAccounted`; `FolderSound` of `FilesWhole`, `TempsOwned` and
`DiskWithinBudget`.

Why the bounds are enough. Each hazard needs at most two changes of the same
thing (an older and a newer grade, two drags, two openings, two jobs) and one
event of each kind between them; a third grade tells a value that was saved
from one that was only shown. Three revisions are one for the entry, one for
the writer's attempt and a fresh one, so that a fresh uuid always exists. Three
requests in `render_shares` are an owner, one that waits for it and one that
comes when the flight was taken away; a budget of two levels is the smallest in
which one large level or two small ones fit. Two
crashes let a recovery be interrupted in its turn. Two photos with two workers
are the smallest job in which threads meet in the record, a second job the
smallest queue. In `worker_answers` the restart limit of 1 (3 in the code) is
met and passed in one scenario. `MaxRearms` 2 stands for 20: the watchdog's
count matters only in that it is finite and that a rearm follows a rearm.
`grades_saves` has one request in flight, because with two and a write of
another program `KnownOverwrite` is violated (below; without such a write it
holds with two requests too); that the recovery stays current with any number of
requests is proved.

No run checks a `TypeOK`: those of all ten modules are proved. The inductive
invariants of the section on proofs were checked by TLC as invariants too, on
instances of up to 9 million states.

Each property has a mutant in `PROJECT.json`: an operator beside the
definition it replaces (marked "Mutant:") that changes it as a plausible bug
would, and under which TLC finds the property violated.

## Fairness

| Module | Assumed | Why |
|---|---|---|
| `GradeSaving` | `WF_vars(WriterStep)` | the writer's thread wakes at least every second (`library_settings_writer.py:400-408`) and drains the queue; its retry (326-348) makes failed entries due again. Unplugging and damaged files are excluded by `Calm`. |
| `FileMove` | `WF_vars(RunnerStep)` | `FileCommands.start` runs every record and a thread runs it again every 15 seconds (`library_file_commands.py:355-362`) |
| `DesktopShell` | weak fairness of the main process's own steps and of the page's | event loops; dialogs of the user are not fair |
| `Documents` | weak fairness of the page's continuations and the backend | event loop and request threads; the user is not fair |
| `Preview` | weak fairness of the page's steps, the watchdog's interval and the end of a gesture | event loop, `setInterval`; a pointer that is pressed is released at last |
| `BatchExport` | weak fairness of a start under way, the runner, each task | threads and processes; faults and Resume are not fair |
| `RenderFlights`, `SourceMips` | weak fairness of each request's own thread | server threads; edits, failures and pages that leave are not fair |
| `LibraryWorker` | weak fairness of the supervisor, the helper's boot and receiver, and of each request's own steps | threads; callers, cancels and crashes are not fair |

No fairness is assumed of the user, of other programs or of faults.

## Proofs

`GradeSavingProofs` proves for any sets of grades, marks and requests, any
scenarios, and any set of positive numbers as revisions (`RevisionAssumption`;
0 is "no entry"):

- `TypeCorrect`: `Spec => []TypeOK`. One lemma per group of actions.
- `WriterHoldsCurrent`: `Spec => []WriterInv`. `AckIsCurrent` is not
  inductive: that the entry is cleared for current marks depends on what the
  writer has held since it took its snapshot. `WriterInv` says it step by
  step: while the writer's revision is still the queued one (`Holds`), its
  marks are the row's; the document it prepared has these marks; once it is
  prepared, it has the desired grade if one is pending; and when only the
  entry is left to clear, no grade is pending. Each action of the user is
  shown `Harmless`: it keeps row, desired grade and writer, or it changes the
  revision, or it clears what is pending; the writer's own steps are proved
  one by one.
- `AcknowledgesCurrent`: `Spec => AckIsCurrent`, from `WriterInv`.
- `OnlyUndoUnqueues`: `QueueHoldsGrade` through every step, as long as no undo of
  a mark takes a photo that waits out of the queue. This is the only operation
  that does (run `grades_undo`), so the disagreement is the whole of what is
  wrong: `Harmless` also says that a step of the user in which an entry leaves
  the queue is such an undo, and that a grade which begins to wait is queued in
  the same step; when the writer clears the entry, `WriterInv` says that no
  grade waits.
- `AllChangesAreSaved`: `Spec => []AllChangesSaved` if there is one request at a
  time (`OneRequest`) and nothing is reverted (`Unreverted`), for any numbers of
  edits, marks, crashes, failing writes, outside writes and unpluggings. Without
  either condition it is violated (next section). What the property says of a
  quiet moment has to be carried through every request, and `SavedInv` does it
  while no other program was at the file: `Right` is what a photo may show (the
  grade that waits, or the file's), `Attempts` that the writer's attempt is about
  the file as it is and changes it only to the grade that waits, `Known` that the
  baseline is the file's grade when nothing waits. A request may have read the
  file before the writer replaced it; `Outdated` says that then the baseline, or
  the grade about to become it, is the file's, so that a save commits nothing on
  an outdated read and `checkFinish` finds itself stale. `Settled`: a dialog or a
  reload only goes on while nothing waits. `SavesShown`: a save under way has the
  grade on screen or the photo was edited since. `OpensRight`: the same for a
  photo that is being opened. One lemma per action, about the one request.
- `NoGradeOverwrittenUnseen`: `Spec => KnownOverwrite` if there is one request at
  a time (`OneRequest`) and other programs write the file at most once
  (`OneOutside`), for any numbers of edits, reverts, marks, crashes, failing
  writes and unpluggings. Without either condition it is violated (next section).
  The writer looks at the baseline when it merges; until it replaces the file,
  requests may change the baseline under it. `Overwrites` is an attempt that will
  put another grade in the place of the file's, and `KnownInv` says that the
  baseline stays the grade it overwrites: the grade that a reload stores is the
  file's (`Fetches`; opening a photo stores none), so is the grade that the user chooses about in the dialog
  (`Chosen`), and a check during such an attempt has found no other one
  (`Looked`). The three rest on this: where such a request is under way, a
  wait that ended does not begin again (`Held`: its photo is open, so that no
  revert queues a grade), and a grade waits in a conflict only when a save could
  not read the file, which another program had then damaged (`Spent`). One write
  of another program leaves every attempt about another file than its fingerprint
  says (`FileKnown`); a second one could bring the old content back.
- `RecoveryHolds`, `RecoveriesAreCurrent`: `Spec => []RecoveryInv` and
  `Spec => []RecoveryIsCurrent`, with any number of requests in flight.
  `RecoveryIsCurrent` is not inductive: a load stores a copy of the state that
  it read some steps ago, and with it an older recovery. `RecoveryInv` says why
  this never lands under unsaved work: a request that opens the photo is alone
  (`OpensAlone`), what it offers is the recovery, in the copy as well
  (`OfferIsRecovery`), unsaved work in a photo that is being opened is the offer
  that was taken (`OpensClean`), and a closed photo leaves only requests that
  are over (`LeftAlone`). Saves, checks and answers are `QuietStep`s, everything
  but a request is a `StillStep`, the steps of a load have a lemma each.

`FileMoveProofs` proves for any set of settings and any bounds:

- `MoveInvariant`: `Spec => []MoveInv`. `PhotoKept` alone is not inductive: that
  `RemoveSource` may take the original away depends on what the record says of
  the copy, and that depends on when it was saved. `Placement` says which files
  can stand at which place (the staging and temporary names are never anyone
  else's, the photo's own file never leaves its drive); `Running` says what a
  step of the runner may rely on, whatever the others do between two steps;
  `Recorded` says of the record in memory, on disk and in a control request
  under way that a copy in it has the data of the preview, and that no crash or
  late save takes one command's copy into the next; `NewestKept` strengthens
  `PhotoKept`: across drives the staging file is never the only whole copy,
  because it is emptied when copying starts over. One lemma per part, one step
  per action or group of actions that leaves the part alone.
- `MoveTypeCorrect`, `PixelsKept`: `TypeOK` and `PhotoKept`, from `MoveInv`.
- `OthersUntouched`: `Spec => ForeignKept`, every step that touches a file at a
  place where another program's may be finds it free or its own (`Placement`,
  the types of the preview's stamps).

These hold with every disagreement of the next section in force: a record
brought back by a late Pause, or a save under the old path, misplaces settings
and announces twice, but loses no pixels.

- `FollowInvariant`, `SettingsFollowHolds`, `MovesAtOnceHolds`: under
  `Undisturbed` (the photo is not opened in Grade and the command neither paused
  nor cancelled: `MaxOpens = 0`, `MaxControls = 0`), for any numbers of edits,
  arrivals, changes of settings, failing paths and crashes, settings follow the
  photo and every step of `FileMove` is a step of `PhotoMove` or a stutter.
  The condition is needed: with one opening `SettingsFollow`, with one control
  request `MovesAtOnce` is violated (next section). `Execute` is `Begin`,
  `Finish` is `End`, `Mark` is `Change`, and everything else, crashes and
  recoveries included, leaves place and settings alone. `FollowInv` says why:
  `Quiet` (record in memory and on disk differ in the error only), `Stages` (what
  the record says fits how far the command is), `Standing` (the photo's
  file is at one name, the new one from the step on that removes the original),
  `Carried` (what the preview recorded of settings file and row agrees, and
  nothing else is at the new name), `Progress` (what a step of the runner has
  already moved) and `Unread` (a row without file and queue is that of a photo
  without settings).

`EditCommandsProofs` proves for any numbers of slider edits, local commits, undo
and redo, other events and drags (`EditBounds` only says that they are numbers):

- `EditInvariant`: `Spec => []EditInv`. What an answer may take off the page
  depends on every command that is queued, sent or waiting. Its parts speak of
  a page, a queue and a *hand*, the commands that have left the wait for a save
  and are not yet in the queue; so they hold between the steps of one `Resume`
  as well, which puts a whole hand into the queue. `Generations`: a save that is
  not the newest is followed by another or the page is dirty, and the newest has
  every value the page shows. `Showing`, `Undos`, `Unsaved`: what is shown, or was
  seen when undo was pressed, is known to the session, or comes to it before.
  `Gestures`, `Dragged`: a value that is saved nowhere is of the gesture that is
  held, or in the save of that gesture. `Depths`, `Alone`, `Strokes`: the page
  counts its local commands (fewer when some are inherited), and the newest
  commit has the strokes of the page. Of the session: `Requests`, `Fresh`,
  `Revisions`, `History` (an undo entry brings in values of one gesture, and
  neighbours those of different ones), `Counted`, and `Racing`: of two requests
  of one photo, one of the queue and one of Match, not both are accepted,
  because the first makes the other's revision old. `Resume` is a recursive
  function; `ResumeInduct` is the induction over it.
- `EditsTypeCorrect`, `ShowsSessionHolds`, `DragIsOneStepHolds`,
  `AnswersKeepEditsHolds`, `UndoComesAfterHolds`: the four properties of the
  run, from `EditInv`. They hold with `AnswerKeepsUnsaved` and `StrokesSaved`
  of the next section violated: an answer to a *local* commit may take off a
  slider value, an answer to a save does not.

`ProcessProofs` proves of `DesktopShell`, for any finite set of paths and any
numbers of edits, requests and faults:

- `ShellInvariant`: `Spec => []ShellInv`, with the parts `Types`, `Windowing`
  (which window, dialog and phase go together), `Listeners` (a page that is
  told something is there and listens, a closed window leaves no message) and
  `Reports`. `KnownEditsKept` is not inductive: when the page of a Library
  photo has left it, `completePhotoClose` closes without asking, and that this
  discards nothing depends on the order of the page's reports on their way.
  `Says(calls, kind, n, said)` is what main will hold after it has taken the
  first `n` calls of the page; `Reports` says that after all of them it is
  what the page knows, and that an answer to the question to leave is preceded
  by the report of a photo, for every number of calls on the way.
- `ShellTypeCorrect`; `KnownEditsAreKept`: `Spec => KnownEditsKept`;
  `PathsReachAPage`: `Spec => PathReachesPage`: no path opened from outside is
  dropped while the application runs, in whichever of its three places it is.

and of `LibraryWorker`, for any scenarios and limits (`WorkerAssumption`; the
module's names meet those of the shell, so it is the instance `W`):

- `HelperInvariant`: `W!Spec => []HelperInv`. `HelperAgrees` is not inductive:
  that a helper has what waits depends on what was sent before it was ready, and
  that nothing is sent twice on what was cancelled. `Singly`: a request is once in
  one place, in the pipe to the helper, with it, or in the pipe back. `Unknown`: a
  request that is not submitted is nowhere. `Withdrawn`: one that is cancelled
  waits no longer, and no job of it follows in the pipe. These hold always; while
  the app is not closed, `Stages` says what the supervisor's place tells of the
  helper (from its launch to the failure after the last restart), `Unsent` that a
  helper which has not reported ready has no request, so that the replay sends each
  of them once (`Replayed`: the chosen order is a bijection), and `Gates` that the
  last message about a pause or a source read, or else the gate, has the value of
  the backend. One lemma per action for `Open`, one per change of the two pipes for
  `Letters`.
- `HelperTypeCorrect`, `HelperAgreesHolds`: `TypeOK` and `HelperAgrees`, from it.

`DocumentsProofs` proves for any photos, projects and scenarios (nothing is
assumed but the shape of a scenario):

- `DocumentInvariant`: `Spec => []DocumentInv`. Each of the three properties
  compares a generation, or a session, that was read before an `await` with the
  page after it. `Shapes`, `Serving`, `Parents` say what an operation knows at
  each `await` and who waits for whom; `Gens`, that no two operations claimed one
  generation, so an operation whose generation is the page's is the newest;
  `Newest`, that a project open which is not aborted is newer than every other
  request; `ActiveJob` and `Running`, that the job the page knows is the newest
  request's and that a job that runs has a request that waits for it or was
  overtaken; `Shown` and `Answers`, that the page's session and the one a project
  open brings are the backend's, unless some other request has replaced it;
  `Early`, with `MayWait` and `Past`, that no operation is past its question
  while there are unsaved early edits.
- `DocumentsTypeCorrect`, `EarlyEditsAreKept`, `ShownSessionIsLive`: from it.
- `NewestIsShown`: `Spec => NewestShown`, step by step: a step that shows another
  document is one of an operation that holds the newest generation.

`BatchExportProofs` proves for any photos, requests, numbers of versions and
workers (at least one) and any scenarios with at most `MaxJobs` jobs:

- `BatchInvariant`: `Spec => []BatchInv`. What a job tells at its end depends on
  every step of its photos before. `TasksTell` says it step by step: what the
  worker has published is what it has reported and at most one version more,
  what the page shows is part of it, a worker that saw a Cancel belongs to a job
  that was told to stop, and the rows of a task that has answered are what is
  shown. `Started` and `RunnerOn` say that only the runner's job has tasks under
  way and that a job that has ended has none. `OneWriter` says that the thread
  that is about to write the records has read them as they are; from it
  `OverRecorded` (nothing reported is lost from the records) and `RecordsTrue`
  (a recorded file was made from the recorded grade). One lemma per action.
- `FinishedJobsAreComplete`, `ReportsMatchFiles`, `ReportsAreRecorded`,
  `ReportsAreKept`, `UneditedPhotosAreExported`: the invariants of the run, from
  `BatchInv`.
- `EndedJobsAreFinal`: `Spec => EndedIsFinal`, a property no run checks.
- `WorkersAreBounded`: `Spec => []TypeOK`. That `running` counts exactly the
  photos whose worker is not answered for is an invariant of its own
  (`WorkersInv`), shown on top of `BatchInv`: most steps start and answer no
  worker (`NoneAnswered`), `Launch` adds one when there is room, `WorkerGone`
  takes one away.

`RenderProofs` proves of `RenderFlights`, for any finite set of requests and any
scenarios:

- `RenderInv` (in `FlightsMatchHolds` and those after it): `Local` says of each
  request which steps its kind of job has and which flights it owns there
  (`Where`), whether it has taken its source (`Sourced`) and in which order it
  has read the epochs (`When`). `Holds` and `TablesNow` say that what a request
  of this epoch carries, and what a table keeps under it, was made from the
  source and the context there are now; `FlightsRight`, that the table of flights
  has an owner
  for each, except for a frame whose source failed (the leak of
  `FlightsAreOwned` below), and that an owner's flight is in the table unless it
  was cut.
- `FlightsMatchHolds`, `NothingStaleHolds`: `FlightsMatchOwners`, `NothingStale`.
- `MasksSharedHolds`: a mask is compiled once, and its count is the number of
  the requests that wait for it (`WaitersRight`, by cardinalities of finite
  sets: a request that starts to wait adds one, one that goes takes one away).
- `TypeOKHolds`.

and of `Preview`, for any bounds, any settings and any number of functions that
wait (`ScenariosAssumption`; the module's names meet those of the cache, so it is
the instance `P`):

- `PreviewInvariant`: `P!Spec => []OrderInv`. `NeverOlder` is not inductive:
  what may come on screen depends on the renders under way and on the CPU pictures
  in hand. `LaneOK`: a render gives way to the one that waits, and what the one in
  flight drew is on the canvas. `NotNewer`: nothing is of a later edit than the
  document's. `NotOlder`: a render that may still draw is of no older edit than the
  canvas, the accepted picture (while there is a GPU) and every CPU picture for
  which the GPU is asked once more. `RawWithoutGpu`: a raw picture is asked for only
  when there is no GPU any more, so that it meets no render that draws. Every action
  is first shown to be of one of thirteen kinds (`StepKinds`: a step of the page and
  the scheduler, of a waiting function, the end of a render that shows nothing, and
  so on), and each kind to keep the invariant.
- `PreviewTypeCorrect`, `NeverOlderHolds`: `TypeOK` and `NeverOlder`, from it. Only
  three kinds of step (`ViewStep`) can change what the user sees.
- `ReadyIsShownHolds`: `ReadyIsShown` where zoom steps do not meet tiles
  (`NoTiledZoom`); the next section has two ways in which it fails without the
  condition. Drawn directly, the canvas shows what was accepted (`DirectShown`). In
  tiles it is ahead of it while a render is drawn but not yet accepted, and
  `TiledShown` says that it is of the current edit all the same once the viewer is
  Ready. That needs more than the picture: a soft frame of the drag must not come
  then, and `OneFrame` says that the scheduler's frame is either one render in the
  queue or one answer, `Unzoomed` that no other render in tiles is soft or of another
  scale.

`SourceMipsProofs` proves for any threads, levels, sizes, budgets, chunks and any
scenario whose folder is as the store leaves it:

- `MipsInvariant`: `Spec => []MipsInv`. `Local` says where a thread is and what
  it holds there (`Placed`); `Owning`, that a level that is being built has one
  builder, the thread in the table of flights. `InMemoryOK` and `InFolderOK` say
  what tables, files and temporary files can be. `Swept`: a temporary file
  whose writer is gone is on the list of somebody who still sweeps. `Pruned`:
  while the folder is over budget, some thread still has a prune to do whose
  list has every file that is there and whose total is at least their bytes.
- `MipsTypeCorrect`, `OneBuildHolds`, `MemorySoundHolds`, `FolderSoundHolds`:
  the invariants of the run, from `MipsInv`. The disagreements
  `CancelledLeavesNothing`, `SweepSparesWriters` and `EvictsOverBudget` are in
  force: a file too many is removed, or stays until a sweep, but no damaged
  level is served and the budgets hold at rest.

Induction over data. A theorem that takes an operator as a parameter is of no
use to the installed provers, so there is no induction theorem to cite. For the
two recursive functions whose value a proof needs, `Without` and `Resumed`, the
induction is done for that one statement: `Least` gives the smallest number at
which it would fail, and the step before it does not fail. What they compute is
thus proved for every sequence.

Only model-checked. Of `GradeSaving`: `QueueHoldsGrade`, `AllChangesSaved` and
`KnownOverwrite` outside the conditions of their theorems, where they are
violated. Of `Preview`: `ReadyIsShown` where a zoom step meets tiles: it holds
in the one such scenario of `preview_settles` and is violated in others.
Liveness under fairness (`Settles`, `Finishes`, `LeaveAnswered`, `QuitEnds`,
`Ends`, `JobsEnd`, `Answered`) is out of the prover's reach.

## Disagreements with the documentation

The violation run `grades_undo` shows a place where the code does something else
than its documentation says; `PROJECT.json` quotes it. The modules hold more
properties that state what the documentation or a comment promises and that TLC
finds violated. To see one, take the `.cfg` of the module's passing run, set the
constants as given here and put the property in the place of the others.

| Property | Module | Constants | What happens | Code, and what is said of it |
|---|---|---|---|---|
| `AllChangesSaved` | `GradeSaving` | `Scenarios <- Reverted` | a revert leaves the grade saved before it in the queue: it is written after all, the screen shows the starting grade and nothing waits; with `Client = {c1, c2}` and 1 edit also without a revert: "Don't save" during a save, and the photo opened again before the save commits | `library_grades.py`, `revert`; "All changes saved" in `grade-saving.js` |
| `OwnWriteIsKnown` | `GradeSaving` | `Scenarios <- Interrupted` | after a crash between replacement and acknowledgement the app takes its own write for an outside change | `library_settings_writer.py:310` |
| `ConflictIsForeign` | `GradeSaving` | a scenario of 2 edits | a save whose read began before the writer's replacement takes the app's own write for an outside change | `library_grades.py:213`; `check` has the guard "Writer acknowledged while this read was in flight." (305), `save` has not |
| `NoSilentDiscard` | `GradeSaving` | 1 edit, 1 outside write | an edit made between the check's answer and the reload is dropped | `grade-saving.js:177`; "With no unsaved work, Grade loads an outside grade" (`photo-library.md:196`) |
| `ConflictRetainsBoth` | `GradeSaving` | 2 edits, 1 outside write | a conflict cancels a saved grade that no field retains | `library_grades.py:175`; its log line says "both grades retained" (179) |
| `MarksStick` | `GradeSaving` | 1 rating, 1 unplugging | undo while the drive is unplugged deletes the row; the file keeps the undone rating | `library_marks.py:352`; "Offline edits use this same queue" (`photo-library.md:283`) |
| `DirtyIsDurable` | `GradeSaving` | 3 edits | after a resolved conflict, unsaved work is in no durable field | `library_grades.py:268`; "Recovery is retained after acknowledged edits" (`photo-library.md:198`) |
| `KnownOverwrite` | `GradeSaving` | `Client = {c1, c2}`, `Scenarios <- Two` (1 edit, 1 outside write) | as below: the older grade that a reload stores as baseline stands for what the app last knew; with one request, 1 edit and 2 outside writes: the user takes the file's grade in a conflict while the writer prepares the file, another program writes the first content back, and the writer, whose fingerprint is of the content, writes the given-up grade over it | `library_grade_api.py:136`, 142 |
| `SaveSticks` | `GradeSaving` | `Client = {c1, c2}`, `Scenarios <- Two` | the reload of an outside grade stores a copy of the state older than a save | `library_grade_api.py:136`, 142; "A pending grade belongs to the durable queue" (`library_grades.py:91`) |
| `AlwaysFinishes` | `FileMove` | `FairSpec`, `Setting = {0, 1}`, `MaxCrashes = 1`, all others 0 | a crash between the creation of a temporary file and its record: every later run refuses the file it does not know | `library_file_commands.py:225` |
| `CancelLeaves` | `FileMove` | `MaxControls = 1`, `MaxFaults = 1`, `MaxCrashes = 1` | a cancelled command clears its record with the photo already moved | `library_file_commands.py`, `run` |
| `CompletesOnce` | `FileMove` | `MaxControls = 1` | a Pause saved after the record was cleared brings it back, and it completes again | `library_file_commands.py:371`; "Completion produces one notice" (`photo-library.md:1749`) |
| `RetargetKeeps` | `FileMove` | `MaxControls = 1`, `MaxChanges = 1`, `MaxCrashes = 1` | the record brought back runs after a crash and its rows replace newer marks | `library_file_commands.py:371`; "cleared only after the current marks have replaced the settings file" (`photo-library.md:278`) |
| `SettingsFollow` | `FileMove` | `MaxOpens = 1`, `MaxChanges = 1` | a photo opened from the Import tab during its move saves under the old path | `library_grades.py:73`; "The photo open in Grade ... left alone" (`photo-library.md:1756`) |
| `AnswerKeepsUnsaved` | `EditCommands` | `Slides = 2`, `Locals = 1`, `Histories = 1`, others 0 | the answer to a local commit takes off slider values that were moved meanwhile and are saved nowhere | `edit-commands.js:90`, against its comment (83) |
| `StrokesSaved` | `EditCommands` | `Slides = 1`, `Locals = 2`, others 0 | a local commit that waited for the sliders goes out after a later one and replaces it with its older strokes: the last stroke is on the page only | `edit-commands.js:65` |
| `CommitKeepsStrokes` without "inherited" | `EditCommands` | `Locals = 4`, `Others = 1`, others 0 | two local commits still queued when another photo opens count down the commits of the new photo at their end; the answer to its first commit then takes off the strokes of the second | `local-adjustments-ui.js:1042` after `session-import.js:702`, against the comment `edit-commands.js:83` |
| `SaveFailureStays` | `DesktopShell` | `Paths = {}`, `Edits = 1`, `Requests = 2`, `Faults = 0` | the save chosen in the close question is cancelled or fails, the window keeps waiting for a clean document, and closes when another one is opened | `desktop/main.js:1204`, against its comment (1202) |
| `CpuOnlyWhenRefused` | `Preview` | `Scenarios <- TwoDrags` | a drag frame refused for good between the end of a settled render, which only lost a race, and its retry sends the settled pass to the CPU | `preview-pipeline.js:133`, against its comment (56-63) |
| `ReadyIsShown` | `Preview` | `Scenarios <- ZoomedBack` | a zoom step is taken back while the tiles of the other scale are on the canvas: the picture accepted before is Ready again, the canvas shows the other one until the waiting render ends | `preview-pipeline.js:687`; "a derived one is always a statement about the presentation the viewer can actually see" (`viewer-status.js:24-25`) |
| `ReadyIsShown` | `Preview` | `Scenarios <- LateOpen` | a photo whose first render was refused waits for its CPU picture; that answer comes while the user drags a magnified view and schedules the same edit once more, the soft frame of that is drawn in tiles, the release drops it, and it stays on screen under Ready | `preview-pipeline.js:687`; the same comment |
| `ControlsUnlock` | `Documents` | `Scenarios <- OpenOverPhoto` | an overtaken open leaves the page's controls locked | `project-documents.js:386` |
| `OpenEnabled` | `Documents` | `Scenarios <- All` | the Open button stays disabled after a photo overtook a project open | `project-documents.js:444` |
| `ShownSessionLives` | `Documents` | `Scenarios <- All` | the request of a project open that was overtaken reaches the backend last and replaces the session under the page | `projects.py:172` |
| `PhotosSaveThemselves` | `Documents` | `Scenarios <- OpenOverPhoto` | a photo is opened while the first picture of a project is drawn; the rest of the project's open compares no generation and switches the saving of the photo off | `project-documents.js:324`; the other tails return when `openGeneration` is old (323 and before) |
| `FilesKeepTheirDocument` | `Documents` | `Scenarios <- All` | a save writes another document's session into the project file of the first, because it reads the session after the dialog | `project-documents.js:541` |
| `EditsKept` | `Documents` | `Scenarios <- EditThenOpen` | an edit made after the question about unsaved edits is lost when the project opens | `project-documents.js:385`; `known-limitations.md:115` |
| `CancelSticks` | `BatchExport` | `Scenarios <- CancelThenPause` | Pause and then Resume take back a Cancel; workers that saw it stop, and the job ends as finished with versions missing | `batch_export.py:61`; "a background queue with Pause and Cancel" (`export-and-proof.md:300`) |
| `FilesAreReported` | `BatchExport` | `Scenarios <- WorkerDies` | a version published before its worker died is reported as failed and not recorded | `batch_export.py:191` |
| `CancelsEnd` | `BatchExport` | `Scenarios <- BehindPaused` | a job cancelled while it waits behind a paused one stays "cancelling" | `batch_export.py:119` |
| `AlwaysAnswered` | `LibraryWorker` | `Scenarios <- Leaving` | a page that goes away at the wrong moment ends the supervisor's thread; later requests wait for ever | `library_worker.py:294`; "Waiting read requests are retained" (`photo-library.md:657`) |
| `SharedAdmission` | `LibraryWorker` | `Scenarios <- Quiet` | the main and the picture lane do not share one count | `library_worker.py:430`, against the comment (545-546) |
| `FlightsAreOwned` | `RenderFlights` | `Scenarios <- OnlyLeaking` | a source level that cannot be built leaves a flight in the table that nobody lands: whoever asks for this frame waits until an edit clears the table | `render_cache.py:1224`; "The caller that receives the flight owns detaching and setting it." (1173) |
| `AllEnd` | `RenderFlights` | `Scenarios <- OnlyLeaking` | the same: the newest preview waits for that flight for ever. `Ends` leaves out such a request (`Stranded`), which one of the scenarios of `render_shares` has, and no other: one that is overtaken, or whose frame an edit takes out of the table, ends | `render_cache.py:1224`; the same comment |
| `OvertakenAreDropped` | `RenderFlights` | `Scenarios <- OnlyDecoded` | a decode sets the preview tokens back to zero, and a preview from before has the number of a newer one: it is answered | `sessions.py:969`; `architecture.md:92` |
| `CancelledLeavesNothing` | `SourceMips` | `Scenarios <- OnlySuperseded` | a build that is cancelled while it writes leaves its file | `render_cache.py:457`, against its comment (245) |
| `SweepSparesWriters` | `SourceMips` | `Scenarios <- OnlySwept` | the sweep of the first request removes the temporary file that another is writing | `render_cache.py:582`, against its comment (191) |
| `EvictsOverBudget` | `SourceMips` | `Scenarios <- OnlyPruned` | two prunes list the same files; what the first removed counts nothing for the second, which goes on to newer levels until the folder is empty | `render_cache.py:640`; "byte-bounded LRUs" (184) |

Smaller things the models show or follow, each without a property of its own:

- `EditCommands`: a redo can bring an older gesture's value back into the page
  after a newer gesture began, and the next save carries it as if it were new
  (`Slides = 3`, `Histories = 2`, `Drags = 2`). So `DragIsOneStep` speaks of
  values that come to the session for the first time.
- `DesktopShell`: a save from the menu that ends while the close question is
  open leaves the window open for good after its own save; a command to leave
  a photo is lost to a page that does not listen yet; a save marks the document
  clean although it was edited meanwhile; `quitRequested` stays after Cancel;
  with only the Library window left, paths of a second instance wait.
- `Preview`: the answer to a local save ends the interaction of a newer drag
  (`local-adjustments-ui.js:1054`); after a failed edit command the settled
  pass stands down, and refinement or the watchdog recovers; a zoom step that
  keeps the processing edge drops a pending settle; `Settles` fails only by
  running out of the watchdog's rearms.
- `Documents`: after an aborted open the page gets 404 from a session that is
  gone; two requests that reach the backend in the other order cancel the newer
  job (`import_jobs.py:84`); Eject's DELETE compares no generation
  (`session-import.js:151`); a cancelled redevelopment may have replaced the
  pixels though the page says "Current image kept".
- `BatchExport`: a terminated worker leaves its hidden staging folder; a start
  whose lookup overlaps the shutdown queues a job the runner never takes.
- `LibraryWorker`: failing all requests has the same race as answering one
  (`library_worker.py:118-121`); restarts are never counted back.

## Not modelled

In `GradeSaving`: virtual copies and Keep both, paste, a photo that is deleted
while its settings are written, the writer's rest while Grade, an import or an
export is busy (`_busy`, `library_settings_writer.py:361`; `Settles` supposes that
it ends), the previous session's starting grade, retry
delays and their reasons, the wording of the status. A write by another
program between the writer's last look at the file and the replacement cannot
be seen by the writer; `KnownOverwrite` leaves it out (`history.raced`).
In `FileMove`: several photos in one command, Undo of a command, deleting,
folders, case-only renames, file systems without stable identities, virtual
copies, failing saves of the record, two records at a time, other programs
that delete the photo or use the command's temporary names, which carry its
random id. An edit is a write in place to a photo at its old or
new name, by a program that knows that name. Settings under a merge of two
settings files cannot occur, as the preview refuses an existing destination.
In `EditCommands`: retouch, framing and the geometry draft, paste, presets,
lane copies, the limit of the history.
In `DesktopShell`: file dialogs and grants, menus, displays, preferences,
updates, the hidden delivery window.
In `Documents`: byte uploads and the test pattern, developing a RAW again,
projects opened and saved by path in a browser (that branch compares no
generation), Save As of a Library photo, a first picture of a project that cannot
be drawn, the single awaits while a first picture is drawn.
In `Preview`: scopes, the inactive lane, pan and catch-up passes, geometry
drafts, the cached CPU picture, frame pacing.
In `BatchExport`: the page that polls, presets, target names, versions that are
skipped for SDR-only photos.
In `LibraryWorker`: priorities and `prioritize`, browse pictures that pages
share, status, the helper's end when the app is killed, the refusal at 256
waiting requests (modelled, not reached by the runs), `library_source_jobs.py`.
In `RenderFlights`: several lanes and sizes, geometry maps and the pool of
proxies, which the lock guards whole, the memory of a page's instrument slots,
drafts and regions of masks, an edit that clears masks too (no caller asks for
it), the pixels.
In `SourceMips`: `clear_memory`, which only tests call, the diagnostics, a
removal that fails, a second backend on the same folder.

Why most lines stay outside. Most of the code is drawing: shaders, the WebGPU
renderer, colour and film mathematics, encoders, panels and dialogs. A model
over small sets has nothing to say about a pixel or a layout, and a definition
that named those lines would not stand for them. What has order, failure and
concurrency in it is a small part of the lines, and the larger half of that is
the components above.

## Plan for what remains

1. The page's tile and mask requests (`latest-work-queue.js`,
   `presentation-gate.js`, `mask-request-coordinator.js`).
2. Delete and folder commands as item kinds of `FileMove`; virtual copies as a
   list in the documents of `GradeSaving`.
3. `LibrarySourceJobs` on top of `LibraryWorker`; an abstract request service
   (answered at most once, at last answered) that it refines.
