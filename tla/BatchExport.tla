----------------------------- MODULE BatchExport -----------------------------
(***************************************************************************)
(* The queue of batch exports (batch_export.py): jobs that wait their      *)
(* turn, the runner's thread that starts a bounded number of workers for   *)
(* the photos of one job, the workers (processes of their own, which may   *)
(* die), Pause, Resume and Cancel from the page, the export record, and    *)
(* the shutdown when the last window closes.                               *)
(*                                                                         *)
(* A photo of a job is a task: the thread `one` and its worker process.    *)
(* They meet in files: the cancel file the thread touches, the progress    *)
(* and result files the worker writes.                                     *)
(***************************************************************************)
EXTENDS Integers, Sequences, FiniteSets

CONSTANTS
  Photos,       \* photos and virtual copies
  Requests,     \* what a page may ask for: sequences of different photos
  Versions,     \* how many files the preset makes of one photo
  Parallel,     \* workers at once
  Scenarios     \* what may happen: a set of Budget records

None == "none"
MaxJobs == 2   \* no scenario has more
Budget == [jobs: 0..MaxJobs, controls: Nat, edits: Nat, faults: Nat, closes: 0..1]
ASSUME BatchAssumption ==
  /\ Requests \subseteq Seq(Photos) /\ Scenarios \subseteq Budget
  /\ Versions \in Nat \ {0} /\ Parallel \in Nat \ {0}

VARIABLES
  jobs,      \* the jobs, in the order they were queued
  starting,  \* a start whose photos are looked up and whose job is not queued
  runner,    \* the runner's thread: its step, its job, the next photo
  records,   \* photo |-> its entry in export-records.json
  files,     \* <<job, photo's number, version>> of every file published
  grade,     \* photo |-> its saved grade: how often it was saved
  closing,   \* "no", "marked" (jobs are cancelled) or "killed" (workers too)
  left       \* what may still happen in this scenario

vars == <<jobs, starting, runner, records, files, grade, closing, left>>

-----------------------------------------------------------------------------
(* Jobs and tasks. *)

Terminal == {"finished", "cancelled", "failed"}
Due == {"queued", "cancelling"}
Outcomes == {"exported", "failed"}

NotExported == -1
NoRecords == [p \in Photos |-> [grade |-> NotExported, files |-> {}, history |-> {}]]

\* A task before its thread starts, and once it is over.
Idle == [pc |-> "none", step |-> None, rows |-> <<>>, progress |-> <<>>,
         cancel |-> FALSE, read |-> NoRecords]
Over == [Idle EXCEPT !.pc = "over"]

Job(photos, grades) ==
  [state |-> "queued", photos |-> photos, grades |-> grades, running |-> {},
   tasks |-> [i \in DOMAIN photos |-> Idle], results |-> [i \in DOMAIN photos |-> <<>>],
   warning |-> FALSE, recalled |-> FALSE, crashed |-> FALSE]

Ended(j) == jobs[j].state \in Terminal
Task(j, i) == jobs[j].tasks[i]
Tasks == UNION {{j} \X DOMAIN jobs[j].tasks : j \in DOMAIN jobs}
Exported(rows) == {v \in DOMAIN rows : rows[v] = "exported"}
AllFailed == [v \in 1..Versions |-> "failed"]
Spend(what) == left[what] > 0 /\ left' = [left EXCEPT ![what] = @ - 1]
SetTask(j, i, task) == jobs' = [jobs EXCEPT ![j].tasks[i] = task]

Init ==
  /\ jobs = <<>> /\ starting = <<>>
  /\ runner = [pc |-> "waiting", job |-> 0, next |-> 1]
  /\ records = NoRecords
  /\ files = {} /\ grade = [p \in Photos |-> 0] /\ closing = "no" /\ left \in Scenarios

-----------------------------------------------------------------------------
(* The page and the shell. *)

\* The photos' saved grades are read one by one, without the queue's lock.
StartLookup ==
  /\ starting = <<>>
  /\ \E photos \in Requests :
       starting' = <<[photos |-> photos, grades |-> [i \in DOMAIN photos |-> grade[photos[i]]]]>>
  /\ Spend("jobs")
  /\ UNCHANGED <<jobs, runner, records, files, grade, closing>>

start ==
  /\ starting # <<>>
  /\ jobs' = Append(jobs, Job(Head(starting).photos, Head(starting).grades))
  /\ starting' = <<>>
  /\ UNCHANGED <<runner, records, files, grade, closing, left>>

NewState == [pause |-> "paused", resume |-> "queued", cancel |-> "cancelling"]

\* `recalled` is for properties: a Cancel was taken back.
control ==
  /\ \E j \in DOMAIN jobs, action \in DOMAIN NewState :
       /\ ~Ended(j)
       /\ jobs' = [jobs EXCEPT ![j].state = NewState[action],
                               ![j].recalled = @ \/ (jobs[j].state = "cancelling" /\ action # "cancel")]
  /\ Spend("controls")
  /\ UNCHANGED <<starting, runner, records, files, grade, closing>>

\* Closing the last window: the jobs are cancelled, and after some seconds
\* the workers that still run are terminated.
close ==
  /\ closing = "no" /\ closing' = "marked" /\ Spend("closes")
  /\ jobs' = [j \in DOMAIN jobs |-> IF Ended(j) THEN jobs[j] ELSE [jobs[j] EXCEPT !.state = "cancelling"]]
  /\ UNCHANGED <<starting, runner, records, files, grade>>

Killed(job) ==
  LET hit == {i \in DOMAIN job.tasks : job.tasks[i].pc = "worker"}
  IN [job EXCEPT !.tasks = [i \in DOMAIN @ |-> IF i \in hit THEN [@[i] EXCEPT !.pc = "crashed"] ELSE @[i]],
                 !.crashed = @ \/ hit # {}]

Terminate ==
  /\ closing = "marked" /\ runner.pc # "gone"
  /\ closing' = "killed" /\ jobs' = [j \in DOMAIN jobs |-> Killed(jobs[j])]
  /\ UNCHANGED <<starting, runner, records, files, grade, left>>

\* The user saves another grade for a photo (GradeSaving).
Edit ==
  /\ \E p \in Photos : grade' = [grade EXCEPT ![p] = @ + 1]
  /\ Spend("edits")
  /\ UNCHANGED <<jobs, starting, runner, records, files, closing>>

-----------------------------------------------------------------------------
(* The runner's thread (_run). *)

Cancelling(j) == jobs[j].state = "cancelling"
DueJobs == {j \in DOMAIN jobs : jobs[j].state \in Due}

\* Mutant: a job that was cancelled while it waited is not taken.
TakeJob_QueuedOnly ==
  LET queued == {j \in DOMAIN jobs : jobs[j].state = "queued"} IN
  /\ runner.pc = "waiting" /\ queued # {}
  /\ LET first == CHOOSE j \in queued : \A k \in queued : j <= k
     IN runner' = [pc |-> "launching", job |-> first, next |-> 1]
  /\ UNCHANGED <<jobs, starting, records, files, grade, closing, left>>

\* Takes the oldest job that is queued or cancelling.
TakeJob ==
  /\ runner.pc = "waiting" /\ DueJobs # {}
  /\ LET first == CHOOSE j \in DueJobs : \A k \in DueJobs : j <= k
     IN runner' = [pc |-> "launching", job |-> first, next |-> 1]
  /\ UNCHANGED <<jobs, starting, records, files, grade, closing, left>>

RunnerEnds ==
  /\ runner.pc = "waiting" /\ closing # "no" /\ DueJobs = {}
  /\ runner' = [runner EXCEPT !.pc = "gone"]
  /\ UNCHANGED <<jobs, starting, records, files, grade, closing, left>>

\* The next photo, when there is room for another worker.
Launch ==
  LET j == runner.job IN
  /\ runner.pc = "launching" /\ runner.next \in DOMAIN jobs[j].photos
  /\ jobs[j].state \notin {"cancelling", "paused"}
  /\ Cardinality(jobs[j].running) < Parallel
  /\ jobs' = [jobs EXCEPT ![j].state = "running", ![j].running = @ \cup {runner.next},
                          ![j].tasks[runner.next].pc = "spawning"]
  /\ runner' = [runner EXCEPT !.next = @ + 1]
  /\ UNCHANGED <<starting, records, files, grade, closing, left>>

LaunchEnds ==
  /\ runner.pc = "launching"
  /\ runner.next \notin DOMAIN jobs[runner.job].photos \/ Cancelling(runner.job)
  /\ runner' = [runner EXCEPT !.pc = "joining"]
  /\ UNCHANGED <<jobs, starting, records, files, grade, closing, left>>

EndJob(j) ==
  /\ jobs' = [jobs EXCEPT ![j].state = IF Cancelling(j) THEN "cancelled" ELSE "finished"]
  /\ runner' = [runner EXCEPT !.pc = "waiting"]
  /\ UNCHANGED <<starting, records, files, grade, closing, left>>

\* All threads that were started have come to their end.
Join ==
  /\ runner.pc = "joining"
  /\ \A i \in DOMAIN jobs[runner.job].tasks : Task(runner.job, i).pc \in {"none", "over"}
  /\ EndJob(runner.job)

-----------------------------------------------------------------------------
(* A task: the thread `one` and _subprocess. *)

\* The worker process starts; it may fail to.
Spawn(j, i) ==
  /\ Task(j, i).pc = "spawning"
  /\ SetTask(j, i, [Task(j, i) EXCEPT !.pc = "worker", !.step = "checking"])
  /\ UNCHANGED <<starting, runner, records, files, grade, closing, left>>

\* Several times a second the thread tells the worker of a Cancel ...
TouchCancel(j, i) ==
  /\ Task(j, i).pc = "worker" /\ Cancelling(j) /\ ~Task(j, i).cancel
  /\ SetTask(j, i, [Task(j, i) EXCEPT !.cancel = TRUE])
  /\ UNCHANGED <<starting, runner, records, files, grade, closing, left>>

\* ... and shows what the worker has finished.
ReadProgress(j, i) ==
  /\ Task(j, i).pc = "worker" /\ jobs[j].results[i] # Task(j, i).progress
  /\ jobs' = [jobs EXCEPT ![j].results[i] = Task(j, i).progress]
  /\ UNCHANGED <<starting, runner, records, files, grade, closing, left>>

\* Mutant: the progress is reported whenever the job was cancelled or the
\* worker died.
ResultRows_Progress(j, i) ==
  IF Task(j, i).pc = "ended" /\ ~Cancelling(j) THEN Task(j, i).rows ELSE Task(j, i).progress

\* What the thread reports when the worker is gone: its result file, or after
\* a crash its progress if the job is being cancelled, else only failures.
ResultRows(j, i) ==
  CASE Task(j, i).pc = "ended" -> Task(j, i).rows
    [] Task(j, i).pc = "crashed" /\ Cancelling(j) -> Task(j, i).progress
    [] OTHER -> AllFailed

\* The results are shown and the next photo may start; then the record.
WorkerGone(j, i) ==
  /\ Task(j, i).pc \in {"ended", "crashed", "refused"}
  /\ LET rows == ResultRows(j, i)
     IN jobs' = [jobs EXCEPT
          ![j].results[i] = rows, ![j].running = @ \ {i},
          ![j].tasks[i] = IF Exported(rows) = {} THEN Over
                          ELSE [Idle EXCEPT !.pc = "recording", !.rows = rows]]
  /\ UNCHANGED <<starting, runner, records, files, grade, closing, left>>

RecordFree == \A t \in Tasks : Task(t[1], t[2]).pc # "writing"

\* Mutant: the records are read before the lock is taken.
ReadRecords_Unlocked(j, i) ==
  /\ Task(j, i).pc = "recording"
  /\ SetTask(j, i, [Task(j, i) EXCEPT !.pc = "writing", !.read = records])
  /\ UNCHANGED <<starting, runner, records, files, grade, closing, left>>

\* _record holds its lock from the reading of all records to their writing.
ReadRecords(j, i) ==
  /\ Task(j, i).pc = "recording" /\ RecordFree
  /\ SetTask(j, i, [Task(j, i) EXCEPT !.pc = "writing", !.read = records])
  /\ UNCHANGED <<starting, runner, records, files, grade, closing, left>>

\* Mutant: the identity is that of the grade the photo has now.
Entry_OfNow(j, i) ==
  LET old == Task(j, i).read[jobs[j].photos[i]]
  IN [grade |-> grade[jobs[j].photos[i]], files |-> {<<j, v>> : v \in Exported(Task(j, i).rows)},
      history |-> old.history \cup old.files]

\* The new entry of the photo; the one before it becomes history.
Entry(j, i) ==
  LET old == Task(j, i).read[jobs[j].photos[i]]
  IN [grade |-> jobs[j].grades[i], files |-> {<<j, v>> : v \in Exported(Task(j, i).rows)},
      history |-> old.history \cup old.files]

WriteRecords(j, i) ==
  /\ Task(j, i).pc = "writing"
  /\ records' = [Task(j, i).read EXCEPT ![jobs[j].photos[i]] = Entry(j, i)]
  /\ SetTask(j, i, Over)
  /\ UNCHANGED <<starting, runner, files, grade, closing, left>>

\* The record cannot be written: the job carries a warning.
RecordFails(j, i) ==
  /\ Task(j, i).pc = "writing"
  /\ jobs' = [jobs EXCEPT ![j].tasks[i] = Over, ![j].warning = TRUE]
  /\ Spend("faults")
  /\ UNCHANGED <<starting, runner, records, files, grade, closing>>

-----------------------------------------------------------------------------
(* A worker process (export_photo), one version after the other. *)

Working(j, i, step) == Task(j, i).pc = "worker" /\ Task(j, i).step = step

\* The result file is written and the process exits.
WorkerEnds(task) == [task EXCEPT !.pc = "ended"]

\* A version is rendered and encoded under a temporary name.
Render(j, i) ==
  /\ Working(j, i, "checking") /\ ~Task(j, i).cancel /\ Len(Task(j, i).rows) < Versions
  /\ SetTask(j, i, [Task(j, i) EXCEPT !.step = "rendered"])
  /\ UNCHANGED <<starting, runner, records, files, grade, closing, left>>

\* It cannot be: the next version is tried.
RenderFails(j, i) ==
  /\ Working(j, i, "checking") /\ ~Task(j, i).cancel /\ Len(Task(j, i).rows) < Versions
  /\ LET rows == Append(Task(j, i).rows, "failed")
     IN SetTask(j, i, [Task(j, i) EXCEPT !.rows = rows, !.progress = rows])
  /\ Spend("faults")
  /\ UNCHANGED <<starting, runner, records, files, grade, closing>>

\* All versions are done, or the cancel file is there.
ExportEnds(j, i) ==
  /\ \/ Working(j, i, "checking") /\ (Task(j, i).cancel \/ Len(Task(j, i).rows) = Versions)
     \/ Working(j, i, "rendered") /\ Task(j, i).cancel
  /\ SetTask(j, i, WorkerEnds(Task(j, i)))
  /\ UNCHANGED <<starting, runner, records, files, grade, closing, left>>

\* The finished file gets its name, a free one.
Publish(j, i) ==
  /\ Working(j, i, "rendered") /\ ~Task(j, i).cancel
  /\ files' = files \cup {<<j, i, Len(Task(j, i).rows) + 1>>}
  /\ SetTask(j, i, [Task(j, i) EXCEPT !.step = "published"])
  /\ UNCHANGED <<starting, runner, records, grade, closing, left>>

Report(j, i) ==
  LET rows == Append(Task(j, i).rows, "exported") IN
  /\ Working(j, i, "published")
  /\ SetTask(j, i, [Task(j, i) EXCEPT !.step = "checking", !.rows = rows, !.progress = rows])
  /\ UNCHANGED <<starting, runner, records, files, grade, closing, left>>

\* The process cannot be started, or it dies.
SpawnFails(j, i) ==
  /\ Task(j, i).pc = "spawning"
  /\ SetTask(j, i, [Task(j, i) EXCEPT !.pc = "refused"])
  /\ Spend("faults")
  /\ UNCHANGED <<starting, runner, records, files, grade, closing>>

WorkerCrashes(j, i) ==
  /\ Task(j, i).pc = "worker"
  /\ jobs' = [jobs EXCEPT ![j].tasks[i].pc = "crashed", ![j].crashed = TRUE]
  /\ Spend("faults")
  /\ UNCHANGED <<starting, runner, records, files, grade, closing>>

-----------------------------------------------------------------------------
RunnerStep == TakeJob \/ RunnerEnds \/ Launch \/ LaunchEnds \/ Join

\* What the threads and processes of a task do unless they fail; showing
\* progress may be skipped.
TaskStep(j, i) ==
  \/ Spawn(j, i) \/ TouchCancel(j, i) \/ WorkerGone(j, i)
  \/ ReadRecords(j, i) \/ WriteRecords(j, i)
  \/ Render(j, i) \/ ExportEnds(j, i) \/ Publish(j, i) \/ Report(j, i)

TaskFault(j, i) ==
  RecordFails(j, i) \/ RenderFails(j, i) \/ SpawnFails(j, i) \/ WorkerCrashes(j, i)

Next ==
  \/ StartLookup \/ start \/ control \/ close \/ Terminate \/ Edit
  \/ RunnerStep
  \/ \E t \in Tasks : TaskStep(t[1], t[2]) \/ ReadProgress(t[1], t[2]) \/ TaskFault(t[1], t[2])

\* The threads and processes run on, a request under way too. Nothing is
\* assumed of the user.
Fairness ==
  /\ WF_vars(start) /\ WF_vars(RunnerStep)
  /\ \A j \in 1..MaxJobs, i \in 1..Cardinality(Photos) :
       WF_vars(<<j, i>> \in Tasks /\ TaskStep(j, i))

Spec == Init /\ [][Next]_vars /\ Fairness

-----------------------------------------------------------------------------
(* Properties. *)

Unanswered == {"spawning", "worker", "ended", "crashed", "refused"}

RecordType ==
  [Photos -> [grade : Nat \cup {NotExported}, files : SUBSET (Nat \X Nat), history : SUBSET (Nat \X Nat)]]

TaskType ==
  [pc : {"none", "spawning", "worker", "ended", "crashed", "refused", "recording",
         "writing", "over"},
   step : {None, "checking", "rendered", "published"},
   rows : Seq(Outcomes), progress : Seq(Outcomes), cancel : BOOLEAN,
   read : RecordType]

\* Every variable has its type; the runner is at a photo of its job; and over
\* all jobs a photo counts as running exactly while its worker is not answered
\* for, so that there are never more workers than the memory was planned for.
TypeOK ==
  /\ jobs \in Seq([state : Due \cup Terminal \cup {"running", "paused"},
                   photos : Requests, grades : Seq(Nat), running : SUBSET Nat,
                   tasks : Seq(TaskType), results : Seq(Seq(Outcomes)),
                   warning : BOOLEAN, recalled : BOOLEAN, crashed : BOOLEAN])
  /\ runner.pc \in {"waiting", "launching", "joining", "gone"}
  /\ runner.pc \in {"launching", "joining"} =>
       runner.next \in 1..(Len(jobs[runner.job].photos) + 1)
  /\ records \in RecordType
  /\ files \subseteq (DOMAIN jobs) \X Nat \X (1..Versions)
  /\ grade \in [Photos -> Nat] /\ closing \in {"no", "marked", "killed"}
  /\ left \in Budget
  /\ LET unanswered == {t \in Tasks : Task(t[1], t[2]).pc \in Unanswered}
     IN /\ Cardinality(unanswered) <= Parallel
        /\ \A j \in DOMAIN jobs : jobs[j].running = {t[2] : t \in {u \in unanswered : u[1] = j}}

Reported(j, i) == Exported(jobs[j].results[i])
Published(j, i) == {v \in 1..Versions : <<j, i, v>> \in files}

\* A job that ends as "finished" tells of every photo in every version what
\* became of it, whatever was paused, failed or died on the way, unless a
\* Cancel of it was taken back (CancelSticks).
FinishedIsComplete ==
  \A j \in DOMAIN jobs : jobs[j].state = "finished" /\ ~jobs[j].recalled =>
    \A i \in DOMAIN jobs[j].results : Len(jobs[j].results[i]) = Versions

\* What a job reports as exported is there, already while it runs; and when it
\* has ended, cancelled or not, all it wrote is reported, unless a worker died.
ResultsAreFiles ==
  \A j \in DOMAIN jobs : \A i \in DOMAIN jobs[j].results :
    /\ Reported(j, i) \subseteq Published(j, i)
    /\ Ended(j) /\ ~jobs[j].crashed => Reported(j, i) = Published(j, i)

\* When a job has ended, each file it reports is in the record of its photo,
\* unless the job warns that the record could not be saved: the threads of
\* several photos rewrite one file of records.
ExportsRecorded ==
  \A j \in DOMAIN jobs : Ended(j) /\ ~jobs[j].warning =>
    \A i \in DOMAIN jobs[j].results : \A v \in Reported(j, i) :
      LET entry == records[jobs[j].photos[i]] IN <<j, v>> \in entry.files \cup entry.history

\* What a job tells the user is true of the disk and known to the records.
ReportsKept == ResultsAreFiles /\ ExportsRecorded

\* A photo that counts as not edited since its last export has files, made
\* from the grade it has now, however long the job waited or was paused.
UneditedIsExported ==
  \A p \in Photos : records[p].grade = grade[p] =>
    /\ records[p].files # {}
    /\ \A entry \in records[p].files :
         \E i \in DOMAIN jobs[entry[1]].photos :
           /\ jobs[entry[1]].photos[i] = p /\ jobs[entry[1]].grades[i] = grade[p]
           /\ <<entry[1], i, entry[2]>> \in files

\* A job that has ended stays as it ended: no worker of it writes another file
\* and no late answer changes what it reports.
EndedIsFinal ==
  [][\A j \in DOMAIN jobs : Ended(j) =>
       /\ jobs'[j].state = jobs[j].state /\ jobs'[j].results = jobs[j].results
       /\ {f \in files' : f[1] = j} = {f \in files : f[1] = j}]_vars

AllEnded == starting = <<>> /\ \A j \in DOMAIN jobs : Ended(j)

\* Every job ends, those cancelled while they waited too, unless a job stays
\* paused or the app has shut down.
JobsEnd == []<>(AllEnded \/ runner.pc = "gone" \/ \E j \in DOMAIN jobs : jobs[j].state = "paused")

-----------------------------------------------------------------------------
(* What the documentation promises and the code does not keep. *)

\* A Cancel is final.
CancelSticks ==
  [][\A j \in DOMAIN jobs : Cancelling(j) => jobs'[j].state \in {"cancelling", "cancelled"}]_vars

\* The results of an ended job list every file it made.
FilesAreReported ==
  \A j \in DOMAIN jobs : Ended(j) =>
    \A i \in DOMAIN jobs[j].results : Published(j, i) \subseteq Reported(j, i)

\* A cancelled job ends.
CancelsEnd == \A j \in 1..MaxJobs :
  LET waits == j \in DOMAIN jobs /\ Cancelling(j)
  IN waits ~> (~waits \/ runner.pc = "gone")
=============================================================================
