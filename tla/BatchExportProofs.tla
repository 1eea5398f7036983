-------------------------- MODULE BatchExportProofs --------------------------
(* Proofs about the batch exports, for any photos, requests, number of versions *)
(* and workers, and any number of jobs, controls, edits and faults the scenarios*)
(* allow: what a job that ended tells of its photos is what was written, the    *)
(* export record holds it, and the workers are never more than planned for.     *)
EXTENDS BatchExport, FiniteSetTheorems, TLAPS

-----------------------------------------------------------------------------
\* The types: a job's tasks, results and grades are indexed like its photos.
Rows == Seq(Outcomes)

JobFields ==
  [state : Due \cup Terminal \cup {"running", "paused"}, photos : Seq(Photos), grades : Seq(Nat),
   running : SUBSET Nat, tasks : Seq(TaskType), results : Seq(Rows),
   warning : BOOLEAN, recalled : BOOLEAN, crashed : BOOLEAN]

IsJob(job) ==
  /\ job \in JobFields
  /\ Len(job.tasks) = Len(job.photos) /\ Len(job.results) = Len(job.photos)
  /\ Len(job.grades) = Len(job.photos)

Types ==
  /\ jobs \in Seq(JobFields) /\ \A j \in DOMAIN jobs : IsJob(jobs[j])
  /\ starting = <<>> \/ /\ Len(Head(starting).photos) = Len(Head(starting).grades)
                        /\ Head(starting).photos \in Seq(Photos) /\ Head(starting).grades \in Seq(Nat)
  /\ runner \in [pc : {"waiting", "launching", "joining", "gone"}, job : Nat, next : Nat]
  /\ records \in RecordType
  /\ grade \in [Photos -> Nat]
  /\ \A j, i, v : <<j, i, v>> \in files => j \in DOMAIN jobs

-----------------------------------------------------------------------------
\* The runner works on one job that has not ended; only this job has threads,
\* and of its photos those before the next one were started.
Busy == runner.pc \in {"launching", "joining"}
StopAsked(job) == job.state \in {"cancelling", "cancelled"} \/ job.recalled = TRUE

RunnerOn ==
  Busy => /\ runner.job \in DOMAIN jobs /\ ~Ended(runner.job) /\ runner.next >= 1
          /\ runner.pc = "joining" =>
               runner.next > Len(jobs[runner.job].photos) \/ StopAsked(jobs[runner.job])

Started ==
  \A j \in DOMAIN jobs : \A i \in DOMAIN jobs[j].tasks :
    /\ ~(Busy /\ runner.job = j) =>
         \/ Task(j, i).pc = "over" /\ Ended(j)
         \/ Task(j, i).pc = "none" /\ jobs[j].state # "finished"
         \/ Task(j, i).pc = "none" /\ StopAsked(jobs[j])
    /\ Busy /\ runner.job = j => (Task(j, i).pc = "none" <=> i >= runner.next)

\* What one task has written, shown and may still tell, by its step.
Silent(task) == task.rows = <<>> /\ task.progress = <<>>

TaskSteps(job, task, shown, written) ==
  /\ task.pc \in {"none", "spawning", "refused"} => shown = <<>> /\ written = {} /\ Silent(task)
  /\ task.pc = "none" => task.cancel = FALSE
  /\ task.pc = "worker" =>
       /\ task.progress = task.rows /\ Len(task.rows) <= Versions
       /\ task.step # "checking" => Len(task.rows) < Versions
       /\ written = Exported(task.rows) \cup IF task.step = "published" THEN {Len(task.rows) + 1} ELSE {}
       /\ Exported(shown) \subseteq Exported(task.rows)
  /\ task.pc = "ended" => /\ written = Exported(task.rows)
                          /\ Len(task.rows) = Versions \/ task.cancel = TRUE
  /\ task.pc = "crashed" => /\ job.crashed = TRUE /\ Exported(task.progress) \subseteq written
                            /\ Exported(shown) \subseteq written
  /\ task.cancel = TRUE => StopAsked(job)

\* What a task that has answered leaves: its rows stand.
TaskTold(job, task, shown, written) ==
  /\ task.pc \in {"ended", "crashed"} => Exported(shown) \subseteq written
  /\ task.pc \in {"recording", "writing"} => task.rows = shown /\ Exported(shown) # {}
  /\ task.pc \in {"recording", "writing", "over"} =>
       /\ Exported(shown) \subseteq written
       /\ job.crashed = TRUE \/ Exported(shown) = written
       /\ Len(shown) = Versions \/ StopAsked(job)

TasksTell ==
  \A j \in DOMAIN jobs : \A i \in DOMAIN jobs[j].tasks :
    /\ TaskSteps(jobs[j], Task(j, i), jobs[j].results[i], Published(j, i))
    /\ TaskTold(jobs[j], Task(j, i), jobs[j].results[i], Published(j, i))

\* One thread at a time rewrites the records, and it has read them as they are.
OneWriter ==
  \A j, k \in DOMAIN jobs : \A i \in DOMAIN jobs[j].tasks, m \in DOMAIN jobs[k].tasks :
    Task(j, i).pc = "writing" =>
      /\ Task(j, i).read = records
      /\ Task(k, m).pc = "writing" => k = j /\ m = i

\* What was reported is recorded, and what is recorded was made from that grade.
Known(j, photo) == {v \in Nat : <<j, v>> \in records[photo].files \cup records[photo].history}

OverRecorded ==
  \A j \in DOMAIN jobs : \A i \in DOMAIN jobs[j].tasks :
    Task(j, i).pc = "over" /\ jobs[j].warning = FALSE =>
      Exported(jobs[j].results[i]) \subseteq Known(j, jobs[j].photos[i])

MadeFrom(j, v, photo, g) ==
  j \in DOMAIN jobs /\ \E i \in DOMAIN jobs[j].photos :
    jobs[j].photos[i] = photo /\ jobs[j].grades[i] = g /\ <<j, i, v>> \in files

RecordsTrue ==
  \A photo \in Photos : records[photo].grade # NotExported =>
    /\ records[photo].files # {}
    /\ \A j, v : <<j, v>> \in records[photo].files => MadeFrom(j, v, photo, records[photo].grade)

BatchInv == Types /\ RunnerOn /\ Started /\ TasksTell /\ OneWriter /\ OverRecorded /\ RecordsTrue

-----------------------------------------------------------------------------
\* The step of one task changes the task, what is shown of it and the marks of
\* its job, and nothing of the others.
TaskFrame(j, i) ==
  /\ jobs' \in Seq(JobFields) /\ DOMAIN jobs' = DOMAIN jobs /\ IsJob(jobs'[j])
  /\ \A k \in DOMAIN jobs : k # j => jobs'[k] = jobs[k]
  /\ jobs'[j].state = jobs[j].state /\ jobs'[j].photos = jobs[j].photos
  /\ jobs'[j].grades = jobs[j].grades /\ jobs'[j].recalled = jobs[j].recalled
  /\ DOMAIN jobs'[j].tasks = DOMAIN jobs[j].tasks
  /\ \A m \in DOMAIN jobs[j].tasks : m # i =>
       jobs'[j].tasks[m] = jobs[j].tasks[m] /\ jobs'[j].results[m] = jobs[j].results[m]
  /\ jobs[j].crashed = TRUE => jobs'[j].crashed = TRUE
  /\ jobs[j].warning = TRUE => jobs'[j].warning = TRUE

\* The parts of a job, and how they are indexed.
LEMMA JobFacts ==
  ASSUME Types, NEW j \in DOMAIN jobs
  PROVE  /\ jobs[j] \in JobFields /\ IsJob(jobs[j]) /\ j \in 1..Len(jobs)
         /\ jobs[j].photos \in Seq(Photos) /\ jobs[j].tasks \in Seq(TaskType)
         /\ jobs[j].results \in Seq(Rows) /\ jobs[j].grades \in Seq(Nat)
         /\ DOMAIN jobs[j].tasks = 1..Len(jobs[j].photos) /\ DOMAIN jobs[j].results = 1..Len(jobs[j].photos)
         /\ DOMAIN jobs[j].grades = 1..Len(jobs[j].photos) /\ DOMAIN jobs[j].photos = 1..Len(jobs[j].photos)
         /\ Len(jobs[j].photos) \in Nat
<1>1. IsJob(jobs[j]) /\ j \in 1..Len(jobs)
  BY DEF Types
<1>2. jobs[j] \in JobFields
  BY <1>1 DEF IsJob
<1>3. /\ jobs[j].photos \in Seq(Photos) /\ jobs[j].tasks \in Seq(TaskType)
      /\ jobs[j].results \in Seq(Rows) /\ jobs[j].grades \in Seq(Nat)
  BY <1>2 DEF JobFields
<1> QED
  BY <1>1, <1>2, <1>3 DEF IsJob

\* The parts of a task.
LEMMA TaskFacts ==
  ASSUME Types, NEW j \in DOMAIN jobs, NEW i \in DOMAIN jobs[j].tasks
  PROVE  /\ Task(j, i) \in TaskType /\ jobs[j].results[i] \in Rows /\ jobs[j].photos[i] \in Photos
         /\ jobs[j].grades[i] \in Nat
         /\ Task(j, i).rows \in Rows /\ Task(j, i).progress \in Rows /\ Task(j, i).cancel \in BOOLEAN
         /\ Task(j, i).read \in RecordType
<1>1. Task(j, i) \in TaskType /\ jobs[j].results[i] \in Rows /\ jobs[j].photos[i] \in Photos
      /\ jobs[j].grades[i] \in Nat
  BY JobFacts DEF Task
<1> QED
  BY <1>1 DEF TaskType, Rows

\* Replacing a job by one of the same shape.
LEMMA JobReplaced ==
  ASSUME Types, NEW j \in DOMAIN jobs, NEW job, IsJob(job), jobs' = [jobs EXCEPT ![j] = job]
  PROVE  /\ jobs' \in Seq(JobFields) /\ DOMAIN jobs' = DOMAIN jobs /\ jobs'[j] = job
         /\ \A k \in DOMAIN jobs : k # j => jobs'[k] = jobs[k]
<1>1. job \in JobFields /\ jobs \in Seq(JobFields)
  BY DEF IsJob, Types
<1> QED
  BY <1>1

\* A step that sets one task and nothing else.
LEMMA SetTaskFrame ==
  ASSUME Types, NEW j \in DOMAIN jobs, NEW i \in DOMAIN jobs[j].tasks, NEW task \in TaskType,
         SetTask(j, i, task)
  PROVE  /\ TaskFrame(j, i) /\ Task(j, i)' = task
         /\ jobs'[j].results = jobs[j].results /\ jobs'[j].warning = jobs[j].warning
         /\ jobs'[j].crashed = jobs[j].crashed
<1> DEFINE tasks == [jobs[j].tasks EXCEPT ![i] = task]
           job == [jobs[j] EXCEPT !.tasks = tasks]
<1>1. jobs' = [jobs EXCEPT ![j] = job]
  BY DEF SetTask
<1>2. tasks \in Seq(TaskType) /\ Len(tasks) = Len(jobs[j].tasks) /\ DOMAIN tasks = DOMAIN jobs[j].tasks
      /\ tasks[i] = task /\ \A m \in DOMAIN jobs[j].tasks : m # i => tasks[m] = jobs[j].tasks[m]
  BY JobFacts
<1>3. /\ job \in JobFields /\ job.tasks = tasks /\ job.state = jobs[j].state /\ job.photos = jobs[j].photos
      /\ job.grades = jobs[j].grades /\ job.recalled = jobs[j].recalled /\ job.results = jobs[j].results
      /\ job.warning = jobs[j].warning /\ job.crashed = jobs[j].crashed
  <2> HIDE DEF tasks
  <2> QED
    BY <1>2, JobFacts DEF JobFields
<1>4. IsJob(job)
  <2> HIDE DEF tasks, job
  <2> QED
    BY <1>2, <1>3, JobFacts DEF IsJob
<1>5. /\ jobs' \in Seq(JobFields) /\ DOMAIN jobs' = DOMAIN jobs /\ jobs'[j] = job
      /\ \A k \in DOMAIN jobs : k # j => jobs'[k] = jobs[k]
  <2> HIDE DEF job
  <2> QED
    BY <1>1, <1>4, JobReplaced
<1> HIDE DEF tasks, job
<1> QED
  BY <1>2, <1>3, <1>4, <1>5 DEF TaskFrame, Task

\* The same for a step that also shows results or marks the job.
MarkTask(j, i, task, rows, running, warning, crashed) ==
  /\ jobs' = [jobs EXCEPT ![j] =
       [jobs[j] EXCEPT !.tasks = [jobs[j].tasks EXCEPT ![i] = task],
                       !.results = [jobs[j].results EXCEPT ![i] = rows],
                       !.running = running, !.warning = warning, !.crashed = crashed]]
  /\ j \in DOMAIN jobs /\ i \in DOMAIN jobs[j].tasks /\ task \in TaskType /\ rows \in Rows
  /\ running \in SUBSET Nat /\ warning \in BOOLEAN /\ crashed \in BOOLEAN
  /\ jobs[j].warning = TRUE => warning = TRUE
  /\ jobs[j].crashed = TRUE => crashed = TRUE

\* A step of one task that also marks its job is within the frame.
LEMMA MarkedFrame ==
  ASSUME Types, NEW j, NEW i, NEW task, NEW rows, NEW running, NEW warning, NEW crashed,
         MarkTask(j, i, task, rows, running, warning, crashed)
  PROVE  /\ TaskFrame(j, i) /\ Task(j, i)' = task /\ jobs'[j].results[i] = rows
         /\ jobs'[j].warning = warning /\ jobs'[j].crashed = crashed
<1> USE DEF MarkTask
<1> DEFINE tasks == [jobs[j].tasks EXCEPT ![i] = task]
           results == [jobs[j].results EXCEPT ![i] = rows]
           job == [jobs[j] EXCEPT !.tasks = tasks, !.results = results, !.running = running,
                                  !.warning = warning, !.crashed = crashed]
<1>1. jobs' = [jobs EXCEPT ![j] = job]
  BY DEF MarkTask
<1>2. tasks \in Seq(TaskType) /\ Len(tasks) = Len(jobs[j].tasks) /\ DOMAIN tasks = DOMAIN jobs[j].tasks
      /\ tasks[i] = task /\ \A m \in DOMAIN jobs[j].tasks : m # i => tasks[m] = jobs[j].tasks[m]
  BY JobFacts
<1>3. results \in Seq(Rows) /\ Len(results) = Len(jobs[j].results)
      /\ results[i] = rows /\ \A m \in DOMAIN jobs[j].tasks : m # i => results[m] = jobs[j].results[m]
  BY JobFacts
<1>4. /\ job \in JobFields /\ job.tasks = tasks /\ job.state = jobs[j].state /\ job.photos = jobs[j].photos
      /\ job.grades = jobs[j].grades /\ job.recalled = jobs[j].recalled /\ job.results = results
      /\ job.warning = warning /\ job.crashed = crashed
  <2> HIDE DEF tasks, results
  <2> QED
    BY <1>2, <1>3, JobFacts DEF JobFields
<1>5. IsJob(job)
  <2> HIDE DEF tasks, results, job
  <2> QED
    BY <1>2, <1>3, <1>4, JobFacts DEF IsJob
<1>6. /\ jobs' \in Seq(JobFields) /\ DOMAIN jobs' = DOMAIN jobs /\ jobs'[j] = job
      /\ \A k \in DOMAIN jobs : k # j => jobs'[k] = jobs[k]
  <2> HIDE DEF job
  <2> QED
    BY <1>1, <1>5, JobReplaced
<1> HIDE DEF tasks, results, job
<1> QED
  BY <1>2, <1>3, <1>4, <1>5, <1>6 DEF TaskFrame, Task

-----------------------------------------------------------------------------
\* Only the runner's job has tasks under way.
LEMMA UnderWay ==
  ASSUME BatchInv, NEW j \in DOMAIN jobs, NEW i \in DOMAIN jobs[j].tasks,
         Task(j, i).pc \notin {"none", "over"}
  PROVE  Busy /\ runner.job = j /\ ~Ended(j) /\ i < runner.next
<1>1. Busy /\ runner.job = j
  BY DEF BatchInv, Started
<1>2. ~Ended(j)
  BY <1>1 DEF BatchInv, RunnerOn
<1>3. ~(i >= runner.next)
  BY <1>1 DEF BatchInv, Started
<1> QED
  BY <1>1, <1>2, <1>3, JobFacts DEF BatchInv, Types

\* The frame of a task's step for every task: itself, or one that stays as it is.
LEMMA FrameFacts ==
  ASSUME Types, NEW j \in DOMAIN jobs, NEW i \in DOMAIN jobs[j].tasks, TaskFrame(j, i),
         NEW k \in DOMAIN jobs', NEW m \in DOMAIN jobs'[k].tasks
  PROVE  /\ k \in DOMAIN jobs /\ m \in DOMAIN jobs[k].tasks
         /\ jobs'[k].state = jobs[k].state /\ jobs'[k].photos = jobs[k].photos
         /\ jobs'[k].grades = jobs[k].grades /\ jobs'[k].recalled = jobs[k].recalled
         /\ Ended(k)' = Ended(k) /\ StopAsked(jobs[k])' = StopAsked(jobs[k])
         /\ jobs[k].crashed = TRUE => jobs'[k].crashed = TRUE
         /\ jobs[k].warning = TRUE => jobs'[k].warning = TRUE
         /\ k # j \/ m # i => Task(k, m)' = Task(k, m) /\ jobs'[k].results[m] = jobs[k].results[m]
<1>1. k \in DOMAIN jobs /\ m \in DOMAIN jobs[k].tasks
  BY DEF TaskFrame
<1>2. /\ jobs'[k].state = jobs[k].state /\ jobs'[k].photos = jobs[k].photos
      /\ jobs'[k].grades = jobs[k].grades /\ jobs'[k].recalled = jobs[k].recalled
      /\ jobs[k].crashed = TRUE => jobs'[k].crashed = TRUE
      /\ jobs[k].warning = TRUE => jobs'[k].warning = TRUE
  BY <1>1 DEF TaskFrame
<1>3. k # j \/ m # i => Task(k, m)' = Task(k, m) /\ jobs'[k].results[m] = jobs[k].results[m]
  BY <1>1 DEF TaskFrame, Task
<1> QED
  BY <1>1, <1>2, <1>3 DEF Ended, StopAsked

\* The step of one task keeps the types.
LEMMA TypesFrame ==
  ASSUME Types, NEW j \in DOMAIN jobs, NEW i \in DOMAIN jobs[j].tasks, TaskFrame(j, i),
         starting' = starting, runner' = runner, records' \in RecordType, grade' = grade,
         \A k, m, v : <<k, m, v>> \in files' => <<k, m, v>> \in files \/ k = j
  PROVE  Types'
<1>1. jobs' \in Seq(JobFields) /\ \A k \in DOMAIN jobs' : IsJob(jobs[k])'
  BY DEF Types, TaskFrame, IsJob
<1>2. \A k, m, v : <<k, m, v>> \in files' => k \in DOMAIN jobs'
  BY DEF Types, TaskFrame
<1> QED
  BY <1>1, <1>2 DEF Types

\* A step of a task that leaves the records alone keeps the invariant if it
\* keeps what is said of that task.
LEMMA TaskKeeps ==
  ASSUME BatchInv, NEW j \in DOMAIN jobs, NEW i \in DOMAIN jobs[j].tasks, TaskFrame(j, i),
         Task(j, i).pc \notin {"none", "over"}, Task(j, i)'.pc # "none",
         starting' = starting, runner' = runner, records' \in RecordType, grade' = grade,
         files \subseteq files', \A k, m, v : <<k, m, v>> \in files' => <<k, m, v>> \in files \/ (k = j /\ m = i),
         TaskSteps(jobs[j], Task(j, i), jobs[j].results[i], Published(j, i))',
         TaskTold(jobs[j], Task(j, i), jobs[j].results[i], Published(j, i))'
  PROVE  Types' /\ RunnerOn' /\ Started' /\ TasksTell'
<1> USE DEF BatchInv
<1>1. Types'
  BY TypesFrame
<1>2. RunnerOn'
  BY UnderWay DEF RunnerOn, TaskFrame, StopAsked, Ended, Busy
<1>3. Started'
  <2> SUFFICES ASSUME NEW k \in DOMAIN jobs', NEW m \in DOMAIN jobs'[k].tasks
               PROVE  /\ ~(Busy' /\ runner'.job = k) =>
                           \/ Task(k, m)'.pc = "over" /\ Ended(k)'
                           \/ Task(k, m)'.pc = "none" /\ jobs'[k].state # "finished"
                           \/ Task(k, m)'.pc = "none" /\ StopAsked(jobs[k])'
                      /\ Busy' /\ runner'.job = k => (Task(k, m)'.pc = "none" <=> m >= runner'.next)
    BY DEF Started
  <2>1. /\ k \in DOMAIN jobs /\ m \in DOMAIN jobs[k].tasks
        /\ jobs'[k].state = jobs[k].state /\ Ended(k)' = Ended(k) /\ StopAsked(jobs[k])' = StopAsked(jobs[k])
        /\ k # j \/ m # i => Task(k, m)' = Task(k, m)
    BY FrameFacts
  <2>2. Busy' = Busy
    BY DEF Busy
  <2>3. Busy /\ runner.job = j /\ i < runner.next
    BY UnderWay
  <2>4. CASE k # j \/ m # i
    BY <2>1, <2>2, <2>4 DEF Started
  <2>5. CASE k = j /\ m = i
    BY <2>1, <2>2, <2>3, <2>5, JobFacts DEF Started, Types
  <2> QED
    BY <2>4, <2>5
<1>4. TasksTell'
  <2> SUFFICES ASSUME NEW k \in DOMAIN jobs', NEW m \in DOMAIN jobs'[k].tasks
               PROVE  /\ TaskSteps(jobs[k], Task(k, m), jobs[k].results[m], Published(k, m))'
                      /\ TaskTold(jobs[k], Task(k, m), jobs[k].results[m], Published(k, m))'
    BY DEF TasksTell
  <2>1. CASE k # j \/ m # i
    <3>1. /\ k \in DOMAIN jobs /\ m \in DOMAIN jobs[k].tasks /\ StopAsked(jobs[k])' = StopAsked(jobs[k])
          /\ jobs[k].crashed = TRUE => jobs'[k].crashed = TRUE
          /\ Task(k, m)' = Task(k, m) /\ jobs'[k].results[m] = jobs[k].results[m]
      BY <2>1, FrameFacts
    <3>2. Published(k, m)' = Published(k, m)
      BY <2>1 DEF Published
    <3>3. /\ TaskSteps(jobs[k], Task(k, m), jobs[k].results[m], Published(k, m))
          /\ TaskTold(jobs[k], Task(k, m), jobs[k].results[m], Published(k, m))
      BY <3>1 DEF TasksTell
    <3> QED
      BY <3>1, <3>2, <3>3 DEF TaskSteps, TaskTold, Silent
  <2>2. CASE k = j /\ m = i
    BY <2>2
  <2> QED
    BY <2>1, <2>2
<1> QED
  BY <1>1, <1>2, <1>3, <1>4

\* The records stay true when no record is written and files are only added.
LEMMA RecordsKept ==
  ASSUME BatchInv, NEW j \in DOMAIN jobs, NEW i \in DOMAIN jobs[j].tasks, TaskFrame(j, i),
         records' = records, files \subseteq files',
         Task(j, i)'.pc # "writing",
         Task(j, i)'.pc = "over" /\ jobs'[j].warning = FALSE =>
           Exported(jobs'[j].results[i]) \subseteq Known(j, jobs[j].photos[i])
  PROVE  OneWriter' /\ OverRecorded' /\ RecordsTrue'
<1> USE DEF BatchInv
<1>1. OneWriter'
  <2> SUFFICES ASSUME NEW k \in DOMAIN jobs', NEW n \in DOMAIN jobs', NEW m \in DOMAIN jobs'[k].tasks,
                      NEW l \in DOMAIN jobs'[n].tasks, Task(k, m)'.pc = "writing"
               PROVE  /\ Task(k, m)'.read = records'
                      /\ Task(n, l)'.pc = "writing" => n = k /\ l = m
    BY DEF OneWriter
  <2>1. k # j \/ m # i
    OBVIOUS
  <2>2. Task(k, m)' = Task(k, m) /\ k \in DOMAIN jobs /\ m \in DOMAIN jobs[k].tasks
    BY <2>1, FrameFacts
  <2>3. CASE n # j \/ l # i
    <3>1. Task(n, l)' = Task(n, l) /\ n \in DOMAIN jobs /\ l \in DOMAIN jobs[n].tasks
      BY <2>3, FrameFacts
    <3> QED
      BY <2>2, <3>1 DEF OneWriter
  <2>4. CASE n = j /\ l = i
    BY <2>2, <2>4 DEF OneWriter
  <2> QED
    BY <2>3, <2>4
<1>2. OverRecorded'
  <2> SUFFICES ASSUME NEW k \in DOMAIN jobs', NEW m \in DOMAIN jobs'[k].tasks,
                      Task(k, m)'.pc = "over", jobs'[k].warning = FALSE
               PROVE  Exported(jobs'[k].results[m]) \subseteq Known(k, jobs[k].photos[m])'
    BY DEF OverRecorded
  <2>1. k \in DOMAIN jobs /\ m \in DOMAIN jobs[k].tasks /\ jobs'[k].photos = jobs[k].photos
    BY FrameFacts
  <2>2. Known(k, jobs[k].photos[m])' = Known(k, jobs[k].photos[m])
    BY <2>1 DEF Known
  <2>3. CASE k # j \/ m # i
    <3>1. Task(k, m)' = Task(k, m) /\ jobs'[k].results[m] = jobs[k].results[m]
          /\ (jobs[k].warning = TRUE => jobs'[k].warning = TRUE)
      BY <2>3, FrameFacts
    <3>2. jobs[k].warning \in BOOLEAN
      BY <2>1, JobFacts DEF JobFields
    <3> QED
      BY <2>1, <2>2, <3>1, <3>2 DEF OverRecorded
  <2>4. CASE k = j /\ m = i
    BY <2>1, <2>2, <2>4
  <2> QED
    BY <2>3, <2>4
<1>3. RecordsTrue'
  <2> SUFFICES ASSUME NEW p \in Photos, records'[p].grade # NotExported
               PROVE  /\ records'[p].files # {}
                      /\ \A k, v : <<k, v>> \in records'[p].files => MadeFrom(k, v, p, records[p].grade)'
    BY DEF RecordsTrue
  <2>1. /\ records[p].files # {}
        /\ \A k, v : <<k, v>> \in records[p].files => MadeFrom(k, v, p, records[p].grade)
    BY DEF RecordsTrue
  <2>2. ASSUME NEW k, NEW v, MadeFrom(k, v, p, records[p].grade)
        PROVE  MadeFrom(k, v, p, records[p].grade)'
    BY <2>2 DEF MadeFrom, TaskFrame
  <2> QED
    BY <2>1, <2>2
<1> QED
  BY <1>1, <1>2, <1>3

\* A job that has ended stays as it ended.
EndedStep ==
  \A j \in DOMAIN jobs : Ended(j) =>
    /\ jobs'[j].state = jobs[j].state /\ jobs'[j].results = jobs[j].results
    /\ {f \in files' : f[1] = j} = {f \in files : f[1] = j}

\* A step of a task that neither reads nor writes the records keeps the invariant,
\* and a job that has ended.
LEMMA TaskOnly ==
  ASSUME BatchInv, NEW j \in DOMAIN jobs, NEW i \in DOMAIN jobs[j].tasks, TaskFrame(j, i),
         Task(j, i).pc \notin {"none", "over"}, Task(j, i)'.pc \notin {"none", "writing"},
         starting' = starting, runner' = runner, records' = records, grade' = grade,
         files' = files \/ \E v : files' = files \cup {<<j, i, v>>},
         TaskSteps(jobs[j], Task(j, i), jobs[j].results[i], Published(j, i))',
         TaskTold(jobs[j], Task(j, i), jobs[j].results[i], Published(j, i))',
         Task(j, i)'.pc = "over" /\ jobs'[j].warning = FALSE =>
           Exported(jobs'[j].results[i]) \subseteq Known(j, jobs[j].photos[i])
  PROVE  BatchInv' /\ EndedStep
<1>1. /\ files \subseteq files'
      /\ \A k, m, v : <<k, m, v>> \in files' => <<k, m, v>> \in files \/ (k = j /\ m = i)
      /\ \A f \in files' : f \in files \/ f[1] = j
  OBVIOUS
<1>2. records' \in RecordType
  BY DEF BatchInv, Types
<1>3. BatchInv'
  BY <1>1, <1>2, TaskKeeps, RecordsKept DEF BatchInv
<1>4. ~Ended(j)
  BY UnderWay
<1>5. EndedStep
  BY <1>1, <1>4 DEF EndedStep, TaskFrame
<1> QED
  BY <1>3, <1>5

\* What is exported of some rows, and of one more.
LEMMA ExportedRows ==
  ASSUME NEW rows \in Rows
  PROVE  /\ Exported(rows) \subseteq 1..Len(rows) /\ Exported(rows) \subseteq Nat
         /\ Exported(Append(rows, "exported")) = Exported(rows) \cup {Len(rows) + 1}
         /\ Exported(Append(rows, "failed")) = Exported(rows)
         /\ Append(rows, "exported") \in Rows /\ Append(rows, "failed") \in Rows
         /\ Len(Append(rows, "exported")) = Len(rows) + 1 /\ Len(Append(rows, "failed")) = Len(rows) + 1
         /\ Len(rows) \in Nat
  BY DEF Exported, Rows, Outcomes

\* No rows, or only failures, are no files.
LEMMA NothingExported ==
  /\ Exported(<<>>) = {} /\ AllFailed \in Rows /\ Len(AllFailed) = Versions /\ Exported(AllFailed) = {}
  BY BatchAssumption DEF Exported, AllFailed, Rows, Outcomes

\* What the invariant says of one task.
LEMMA TaskSays ==
  ASSUME BatchInv, NEW j \in DOMAIN jobs, NEW i \in DOMAIN jobs[j].tasks
  PROVE  /\ TaskSteps(jobs[j], Task(j, i), jobs[j].results[i], Published(j, i))
         /\ TaskTold(jobs[j], Task(j, i), jobs[j].results[i], Published(j, i))
         /\ Task(j, i) \in TaskType /\ Task(j, i).rows \in Rows /\ Task(j, i).progress \in Rows
         /\ Task(j, i).cancel \in BOOLEAN /\ jobs[j].results[i] \in Rows
  BY TaskFacts DEF BatchInv, TasksTell

\* What the invariant says of a task whose worker runs.
LEMMA WorkerSays ==
  ASSUME BatchInv, NEW j \in DOMAIN jobs, NEW i \in DOMAIN jobs[j].tasks, Task(j, i).pc = "worker"
  PROVE  /\ Task(j, i).progress = Task(j, i).rows /\ Len(Task(j, i).rows) \in 0..Versions
         /\ Task(j, i).step # "checking" => Len(Task(j, i).rows) < Versions
         /\ Task(j, i).step = "published" =>
              Published(j, i) = Exported(Task(j, i).rows) \cup {Len(Task(j, i).rows) + 1}
         /\ Task(j, i).step # "published" => Published(j, i) = Exported(Task(j, i).rows)
         /\ Exported(Task(j, i).rows) \subseteq Published(j, i)
         /\ Exported(jobs[j].results[i]) \subseteq Exported(Task(j, i).rows)
         /\ Task(j, i).cancel = TRUE => StopAsked(jobs[j])
<1>1. TaskSteps(jobs[j], Task(j, i), jobs[j].results[i], Published(j, i)) /\ Task(j, i).rows \in Rows
  BY TaskSays
<1>2. Len(Task(j, i).rows) \in Nat
  BY <1>1, ExportedRows
<1>3. Task(j, i).progress = Task(j, i).rows /\ Len(Task(j, i).rows) <= Versions
  BY <1>1 DEF TaskSteps
<1>4. Len(Task(j, i).rows) \in 0..Versions
  BY <1>2, <1>3, BatchAssumption
<1>5. /\ Task(j, i).step # "checking" => Len(Task(j, i).rows) < Versions
      /\ Published(j, i) =
           Exported(Task(j, i).rows) \cup IF Task(j, i).step = "published" THEN {Len(Task(j, i).rows) + 1} ELSE {}
      /\ Exported(jobs[j].results[i]) \subseteq Exported(Task(j, i).rows)
      /\ Task(j, i).cancel = TRUE => StopAsked(jobs[j])
  BY <1>1 DEF TaskSteps
<1> QED
  BY <1>3, <1>4, <1>5

-----------------------------------------------------------------------------
\* The worker and its thread, one step at a time.
LEMMA SpawnKeeps ==
  ASSUME BatchInv, NEW j \in DOMAIN jobs, NEW i \in DOMAIN jobs[j].tasks, Spawn(j, i)
  PROVE  BatchInv' /\ EndedStep
<1> DEFINE x == [Task(j, i) EXCEPT !.pc = "worker", !.step = "checking"]
<1>1. x \in TaskType /\ x.pc = "worker" /\ x.step = "checking" /\ x.rows = Task(j, i).rows
      /\ x.progress = Task(j, i).progress /\ x.cancel = Task(j, i).cancel
  BY TaskSays DEF TaskType
<1> HIDE DEF x
<1>2. SetTask(j, i, x)
  BY DEF Spawn, x
<1>3. TaskFrame(j, i) /\ Task(j, i)' = x /\ jobs'[j].results = jobs[j].results
      /\ jobs'[j].crashed = jobs[j].crashed
  BY <1>1, <1>2, SetTaskFrame DEF BatchInv
<1>4. Published(j, i)' = Published(j, i) /\ StopAsked(jobs[j])' = StopAsked(jobs[j])
  BY <1>3 DEF Spawn, Published, StopAsked, TaskFrame
<1>5. /\ Task(j, i).pc = "spawning" /\ starting' = starting /\ runner' = runner /\ records' = records
      /\ grade' = grade /\ files' = files
  BY DEF Spawn
<1>6. jobs[j].results[i] = <<>> /\ Published(j, i) = {} /\ x.rows = <<>> /\ x.progress = <<>>
      /\ (x.cancel = TRUE => StopAsked(jobs[j]))
  BY <1>1, <1>5, TaskSays DEF TaskSteps, Silent
<1>7. TaskSteps(jobs[j], Task(j, i), jobs[j].results[i], Published(j, i))'
  BY <1>1, <1>3, <1>4, <1>6, NothingExported, BatchAssumption DEF TaskSteps
<1>8. TaskTold(jobs[j], Task(j, i), jobs[j].results[i], Published(j, i))'
  BY <1>1, <1>3 DEF TaskTold
<1> QED
  BY <1>1, <1>3, <1>5, <1>7, <1>8, TaskOnly

\* A worker that cannot be started has written nothing.
LEMMA SpawnFailsKeeps ==
  ASSUME BatchInv, NEW j \in DOMAIN jobs, NEW i \in DOMAIN jobs[j].tasks, SpawnFails(j, i)
  PROVE  BatchInv' /\ EndedStep
<1> DEFINE x == [Task(j, i) EXCEPT !.pc = "refused"]
<1>1. x \in TaskType /\ x.pc = "refused" /\ x.rows = Task(j, i).rows
      /\ x.progress = Task(j, i).progress /\ x.cancel = Task(j, i).cancel
  BY TaskSays DEF TaskType
<1> HIDE DEF x
<1>2. SetTask(j, i, x)
  BY DEF SpawnFails, x
<1>3. TaskFrame(j, i) /\ Task(j, i)' = x /\ jobs'[j].results = jobs[j].results
      /\ jobs'[j].crashed = jobs[j].crashed
  BY <1>1, <1>2, SetTaskFrame DEF BatchInv
<1>4. Published(j, i)' = Published(j, i) /\ StopAsked(jobs[j])' = StopAsked(jobs[j])
  BY <1>3 DEF SpawnFails, Published, StopAsked, TaskFrame
<1>5. /\ Task(j, i).pc = "spawning" /\ starting' = starting /\ runner' = runner /\ records' = records
      /\ grade' = grade /\ files' = files
  BY DEF SpawnFails
<1>6. jobs[j].results[i] = <<>> /\ Published(j, i) = {} /\ x.rows = <<>> /\ x.progress = <<>>
      /\ (x.cancel = TRUE => StopAsked(jobs[j]))
  BY <1>1, <1>5, TaskSays DEF TaskSteps, Silent
<1>7. TaskSteps(jobs[j], Task(j, i), jobs[j].results[i], Published(j, i))'
  BY <1>1, <1>3, <1>4, <1>6 DEF TaskSteps, Silent
<1>8. TaskTold(jobs[j], Task(j, i), jobs[j].results[i], Published(j, i))'
  BY <1>1, <1>3 DEF TaskTold
<1> QED
  BY <1>1, <1>3, <1>5, <1>7, <1>8, TaskOnly

\* The worker learns of a Cancel only while the job is being cancelled.
LEMMA TouchCancelKeeps ==
  ASSUME BatchInv, NEW j \in DOMAIN jobs, NEW i \in DOMAIN jobs[j].tasks, TouchCancel(j, i)
  PROVE  BatchInv' /\ EndedStep
<1> DEFINE x == [Task(j, i) EXCEPT !.cancel = TRUE]
<1>1. x \in TaskType /\ x.pc = Task(j, i).pc /\ x.rows = Task(j, i).rows /\ x.step = Task(j, i).step
      /\ x.progress = Task(j, i).progress /\ x.cancel = TRUE
  BY TaskSays DEF TaskType
<1> HIDE DEF x
<1>2. SetTask(j, i, x)
  BY DEF TouchCancel, x
<1>3. TaskFrame(j, i) /\ Task(j, i)' = x /\ jobs'[j].results = jobs[j].results
      /\ jobs'[j].crashed = jobs[j].crashed
  BY <1>1, <1>2, SetTaskFrame DEF BatchInv
<1>4. Published(j, i)' = Published(j, i) /\ StopAsked(jobs[j])'
  BY <1>3 DEF TouchCancel, Published, StopAsked, TaskFrame, Cancelling
<1>5. /\ Task(j, i).pc = "worker" /\ starting' = starting /\ runner' = runner /\ records' = records
      /\ grade' = grade /\ files' = files
  BY DEF TouchCancel
<1>6. TaskSteps(jobs[j], Task(j, i), jobs[j].results[i], Published(j, i))'
  BY <1>1, <1>3, <1>4, <1>5, TaskSays DEF TaskSteps
<1>7. TaskTold(jobs[j], Task(j, i), jobs[j].results[i], Published(j, i))'
  BY <1>1, <1>3, <1>5 DEF TaskTold
<1> QED
  BY <1>1, <1>3, <1>5, <1>6, <1>7, TaskOnly

\* What is shown is what the worker has reported.
LEMMA ReadProgressKeeps ==
  ASSUME BatchInv, NEW j \in DOMAIN jobs, NEW i \in DOMAIN jobs[j].tasks, ReadProgress(j, i)
  PROVE  BatchInv' /\ EndedStep
<1> DEFINE x == Task(j, i)
<1>1. jobs[j].warning \in BOOLEAN /\ jobs[j].crashed \in BOOLEAN /\ jobs[j].running \in SUBSET Nat
  BY JobFacts DEF BatchInv, JobFields
<1>2. x = Task(j, i) /\ x \in TaskType /\ x.progress \in Rows
  BY TaskSays
<1> HIDE DEF x
<1>3. MarkTask(j, i, x, x.progress, jobs[j].running, jobs[j].warning, jobs[j].crashed)
  <2>1. jobs[j].tasks = [jobs[j].tasks EXCEPT ![i] = x]
    BY <1>2, JobFacts DEF BatchInv, Task
  <2>2. jobs[j] \in JobFields
    BY JobFacts DEF BatchInv
  <2>3. [jobs[j] EXCEPT !.results = [jobs[j].results EXCEPT ![i] = x.progress]] =
          [jobs[j] EXCEPT !.tasks = jobs[j].tasks,
                          !.results = [jobs[j].results EXCEPT ![i] = x.progress],
                          !.running = jobs[j].running, !.warning = jobs[j].warning, !.crashed = jobs[j].crashed]
    BY <2>2 DEF JobFields
  <2>4. jobs' = [jobs EXCEPT ![j] = [jobs[j] EXCEPT !.results = [jobs[j].results EXCEPT ![i] = x.progress]]]
    BY <1>2 DEF ReadProgress
  <2> QED
    BY <1>1, <1>2, <2>1, <2>3, <2>4 DEF MarkTask
<1>4. TaskFrame(j, i) /\ Task(j, i)' = x /\ jobs'[j].results[i] = x.progress
      /\ jobs'[j].crashed = jobs[j].crashed
  BY <1>3, MarkedFrame DEF BatchInv
<1>5. Published(j, i)' = Published(j, i) /\ StopAsked(jobs[j])' = StopAsked(jobs[j])
  BY <1>4 DEF ReadProgress, Published, StopAsked, TaskFrame
<1>6. /\ Task(j, i).pc = "worker" /\ starting' = starting /\ runner' = runner /\ records' = records
      /\ grade' = grade /\ files' = files
  BY DEF ReadProgress
<1>7. TaskSteps(jobs[j], Task(j, i), jobs[j].results[i], Published(j, i))'
  <2>1. x.progress = x.rows
    BY <1>6, <1>2, TaskSays DEF TaskSteps
  <2>2. TaskSteps(jobs[j], x, x.progress, Published(j, i))
    BY <1>6, <1>2, <2>1, TaskSays DEF TaskSteps
  <2> QED
    BY <1>4, <1>5, <1>6, <1>2, <2>2 DEF TaskSteps
<1>8. TaskTold(jobs[j], Task(j, i), jobs[j].results[i], Published(j, i))'
  BY <1>4, <1>6, <1>2 DEF TaskTold
<1> QED
  BY <1>4, <1>6, <1>7, <1>8, <1>2, TaskOnly

\* A version under a temporary name is not published.
LEMMA RenderKeeps ==
  ASSUME BatchInv, NEW j \in DOMAIN jobs, NEW i \in DOMAIN jobs[j].tasks, Render(j, i)
  PROVE  BatchInv' /\ EndedStep
<1> DEFINE x == [Task(j, i) EXCEPT !.step = "rendered"]
<1>1. x \in TaskType /\ x.pc = Task(j, i).pc /\ x.rows = Task(j, i).rows /\ x.step = "rendered"
      /\ x.progress = Task(j, i).progress /\ x.cancel = Task(j, i).cancel
  BY TaskSays DEF TaskType
<1> HIDE DEF x
<1>2. SetTask(j, i, x)
  BY DEF Render, x
<1>3. TaskFrame(j, i) /\ Task(j, i)' = x /\ jobs'[j].results = jobs[j].results
      /\ jobs'[j].crashed = jobs[j].crashed
  BY <1>1, <1>2, SetTaskFrame DEF BatchInv
<1>4. Published(j, i)' = Published(j, i) /\ StopAsked(jobs[j])' = StopAsked(jobs[j])
  BY <1>3 DEF Render, Published, StopAsked, TaskFrame
<1>5. /\ Task(j, i).pc = "worker" /\ Task(j, i).step = "checking" /\ Len(Task(j, i).rows) < Versions
      /\ starting' = starting /\ runner' = runner /\ records' = records /\ grade' = grade /\ files' = files
  BY DEF Render, Working
<1>6. TaskSteps(jobs[j], Task(j, i), jobs[j].results[i], Published(j, i))'
  BY <1>1, <1>3, <1>4, <1>5, TaskSays DEF TaskSteps
<1>7. TaskTold(jobs[j], Task(j, i), jobs[j].results[i], Published(j, i))'
  BY <1>1, <1>3, <1>5 DEF TaskTold
<1> QED
  BY <1>1, <1>3, <1>5, <1>6, <1>7, TaskOnly

\* A version that cannot be made is told as failed.
LEMMA RenderFailsKeeps ==
  ASSUME BatchInv, NEW j \in DOMAIN jobs, NEW i \in DOMAIN jobs[j].tasks, RenderFails(j, i)
  PROVE  BatchInv' /\ EndedStep
<1> DEFINE rows == Append(Task(j, i).rows, "failed")
           x == [Task(j, i) EXCEPT !.rows = rows, !.progress = rows]
<1>1. /\ rows \in Rows /\ Exported(rows) = Exported(Task(j, i).rows) /\ Len(rows) = Len(Task(j, i).rows) + 1
      /\ Len(Task(j, i).rows) \in Nat
  BY TaskSays, ExportedRows
<1> HIDE DEF rows
<1>2. x \in TaskType /\ x.pc = Task(j, i).pc /\ x.rows = rows /\ x.step = Task(j, i).step
      /\ x.progress = rows /\ x.cancel = Task(j, i).cancel
  BY <1>1, TaskSays DEF TaskType, Rows
<1> HIDE DEF x
<1>3. SetTask(j, i, x)
  BY DEF RenderFails, x, rows
<1>4. TaskFrame(j, i) /\ Task(j, i)' = x /\ jobs'[j].results = jobs[j].results
      /\ jobs'[j].crashed = jobs[j].crashed
  BY <1>2, <1>3, SetTaskFrame DEF BatchInv
<1>5. Published(j, i)' = Published(j, i) /\ StopAsked(jobs[j])' = StopAsked(jobs[j])
  BY <1>4 DEF RenderFails, Published, StopAsked, TaskFrame
<1>6. /\ Task(j, i).pc = "worker" /\ Task(j, i).step = "checking" /\ Len(Task(j, i).rows) < Versions
      /\ starting' = starting /\ runner' = runner /\ records' = records /\ grade' = grade /\ files' = files
  BY DEF RenderFails, Working
<1>7. TaskSteps(jobs[j], Task(j, i), jobs[j].results[i], Published(j, i))'
  <2>1. /\ Published(j, i) = Exported(Task(j, i).rows) /\ Task(j, i).progress = Task(j, i).rows
        /\ Exported(jobs[j].results[i]) \subseteq Exported(Task(j, i).rows)
        /\ (Task(j, i).cancel = TRUE => StopAsked(jobs[j]))
    BY <1>6, WorkerSays
  <2>2. Len(Task(j, i).rows) + 1 <= Versions
    BY <1>1, <1>6, BatchAssumption
  <2>3. /\ x.pc = "worker" /\ x.progress = x.rows /\ Len(x.rows) <= Versions /\ x.step = "checking"
        /\ Published(j, i)' = Exported(x.rows) /\ Exported(jobs'[j].results[i]) \subseteq Exported(x.rows)
        /\ (x.cancel = TRUE => StopAsked(jobs[j])')
    BY <1>1, <1>2, <1>4, <1>5, <1>6, <2>1, <2>2
  <2> QED
    BY <1>4, <2>3 DEF TaskSteps
<1>8. TaskTold(jobs[j], Task(j, i), jobs[j].results[i], Published(j, i))'
  BY <1>2, <1>4, <1>6 DEF TaskTold
<1> QED
  BY <1>2, <1>4, <1>6, <1>7, <1>8, TaskOnly

\* A worker ends with all versions told, or because of a Cancel.
LEMMA ExportEndsKeeps ==
  ASSUME BatchInv, NEW j \in DOMAIN jobs, NEW i \in DOMAIN jobs[j].tasks, ExportEnds(j, i)
  PROVE  BatchInv' /\ EndedStep
<1> DEFINE x == [Task(j, i) EXCEPT !.pc = "ended"]
<1>1. x \in TaskType /\ x.pc = "ended" /\ x.rows = Task(j, i).rows /\ x.step = Task(j, i).step
      /\ x.progress = Task(j, i).progress /\ x.cancel = Task(j, i).cancel
  BY TaskSays DEF TaskType
<1> HIDE DEF x
<1>2. SetTask(j, i, x)
  BY DEF ExportEnds, WorkerEnds, x
<1>3. TaskFrame(j, i) /\ Task(j, i)' = x /\ jobs'[j].results = jobs[j].results
      /\ jobs'[j].crashed = jobs[j].crashed
  BY <1>1, <1>2, SetTaskFrame DEF BatchInv
<1>4. Published(j, i)' = Published(j, i) /\ StopAsked(jobs[j])' = StopAsked(jobs[j])
  BY <1>3 DEF ExportEnds, Published, StopAsked, TaskFrame
<1>5. /\ Task(j, i).pc = "worker" /\ Task(j, i).step \in {"checking", "rendered"}
      /\ Task(j, i).cancel = TRUE \/ Len(Task(j, i).rows) = Versions
  BY TaskSays DEF ExportEnds, Working
<1>6. /\ starting' = starting /\ runner' = runner /\ records' = records /\ grade' = grade /\ files' = files
  BY DEF ExportEnds
<1>7. /\ Published(j, i)' = Exported(x.rows) /\ Exported(jobs'[j].results[i]) \subseteq Exported(x.rows)
      /\ (x.cancel = TRUE => StopAsked(jobs[j])') /\ (Len(x.rows) = Versions \/ x.cancel = TRUE)
  BY <1>1, <1>3, <1>4, <1>5, WorkerSays
<1>8. TaskSteps(jobs[j], Task(j, i), jobs[j].results[i], Published(j, i))'
  BY <1>1, <1>3, <1>7 DEF TaskSteps
<1>9. TaskTold(jobs[j], Task(j, i), jobs[j].results[i], Published(j, i))'
  BY <1>1, <1>3, <1>7 DEF TaskTold
<1> QED
  BY <1>1, <1>3, <1>5, <1>6, <1>8, <1>9, TaskOnly

\* The file that is published next is one of the preset's.
LEMMA PublishKeeps ==
  ASSUME BatchInv, NEW j \in DOMAIN jobs, NEW i \in DOMAIN jobs[j].tasks, Publish(j, i)
  PROVE  BatchInv' /\ EndedStep
<1> DEFINE x == [Task(j, i) EXCEPT !.step = "published"]
<1>1. x \in TaskType /\ x.pc = Task(j, i).pc /\ x.rows = Task(j, i).rows /\ x.step = "published"
      /\ x.progress = Task(j, i).progress /\ x.cancel = Task(j, i).cancel
  BY TaskSays DEF TaskType
<1> HIDE DEF x
<1>2. SetTask(j, i, x)
  BY DEF Publish, x
<1>3. TaskFrame(j, i) /\ Task(j, i)' = x /\ jobs'[j].results = jobs[j].results
      /\ jobs'[j].crashed = jobs[j].crashed
  BY <1>1, <1>2, SetTaskFrame DEF BatchInv
<1>4. /\ Task(j, i).pc = "worker" /\ Task(j, i).step = "rendered"
      /\ starting' = starting /\ runner' = runner /\ records' = records /\ grade' = grade
      /\ files' = files \cup {<<j, i, Len(Task(j, i).rows) + 1>>}
  BY DEF Publish, Working
<1>5. Len(Task(j, i).rows) < Versions /\ Published(j, i) = Exported(Task(j, i).rows)
      /\ Len(Task(j, i).rows) \in Nat
  <2>1. Len(Task(j, i).rows) \in Nat
    BY TaskSays, ExportedRows
  <2>2. Len(Task(j, i).rows) < Versions /\ Published(j, i) = Exported(Task(j, i).rows)
    BY <1>4, WorkerSays
  <2> QED
    BY <2>1, <2>2
<1>6. Published(j, i)' = Exported(Task(j, i).rows) \cup {Len(Task(j, i).rows) + 1}
  BY <1>4, <1>5, BatchAssumption DEF Published
<1>7. StopAsked(jobs[j])' = StopAsked(jobs[j])
  BY <1>3 DEF StopAsked, TaskFrame
<1>8. TaskSteps(jobs[j], Task(j, i), jobs[j].results[i], Published(j, i))'
  <2>1. /\ Task(j, i).progress = Task(j, i).rows
        /\ Exported(jobs[j].results[i]) \subseteq Exported(Task(j, i).rows)
        /\ (Task(j, i).cancel = TRUE => StopAsked(jobs[j]))
    BY <1>4, WorkerSays
  <2>2. /\ x.pc = "worker" /\ x.progress = x.rows /\ Len(x.rows) < Versions
        /\ Len(x.rows) <= Versions /\ x.step = "published"
        /\ Exported(jobs'[j].results[i]) \subseteq Exported(x.rows)
        /\ Published(j, i)' = Exported(x.rows) \cup {Len(x.rows) + 1}
        /\ (x.cancel = TRUE => StopAsked(jobs[j])')
    BY <1>1, <1>3, <1>4, <1>5, <1>6, <1>7, <2>1, BatchAssumption
  <2> QED
    BY <1>3, <2>2 DEF TaskSteps
<1>9. TaskTold(jobs[j], Task(j, i), jobs[j].results[i], Published(j, i))'
  BY <1>1, <1>3, <1>4 DEF TaskTold
<1> QED
  BY <1>1, <1>3, <1>4, <1>8, <1>9, TaskOnly

\* A version that was published is told as exported.
LEMMA ReportKeeps ==
  ASSUME BatchInv, NEW j \in DOMAIN jobs, NEW i \in DOMAIN jobs[j].tasks, Report(j, i)
  PROVE  BatchInv' /\ EndedStep
<1> DEFINE rows == Append(Task(j, i).rows, "exported")
           x == [Task(j, i) EXCEPT !.step = "checking", !.rows = rows, !.progress = rows]
<1>1. /\ rows \in Rows /\ Exported(rows) = Exported(Task(j, i).rows) \cup {Len(Task(j, i).rows) + 1}
      /\ Len(rows) = Len(Task(j, i).rows) + 1 /\ Len(Task(j, i).rows) \in Nat
  BY TaskSays, ExportedRows
<1> HIDE DEF rows
<1>2. x \in TaskType /\ x.pc = Task(j, i).pc /\ x.rows = rows /\ x.step = "checking"
      /\ x.progress = rows /\ x.cancel = Task(j, i).cancel
  BY <1>1, TaskSays DEF TaskType, Rows
<1> HIDE DEF x
<1>3. SetTask(j, i, x)
  BY DEF Report, x, rows
<1>4. TaskFrame(j, i) /\ Task(j, i)' = x /\ jobs'[j].results = jobs[j].results
      /\ jobs'[j].crashed = jobs[j].crashed
  BY <1>2, <1>3, SetTaskFrame DEF BatchInv
<1>5. Published(j, i)' = Published(j, i) /\ StopAsked(jobs[j])' = StopAsked(jobs[j])
  BY <1>4 DEF Report, Published, StopAsked, TaskFrame
<1>6. /\ Task(j, i).pc = "worker" /\ Task(j, i).step = "published"
      /\ starting' = starting /\ runner' = runner /\ records' = records /\ grade' = grade /\ files' = files
  BY DEF Report, Working
<1>7. TaskSteps(jobs[j], Task(j, i), jobs[j].results[i], Published(j, i))'
  <2>1. /\ Published(j, i) = Exported(Task(j, i).rows) \cup {Len(Task(j, i).rows) + 1}
        /\ Exported(jobs[j].results[i]) \subseteq Exported(Task(j, i).rows)
        /\ (Task(j, i).cancel = TRUE => StopAsked(jobs[j]))
        /\ Len(Task(j, i).rows) < Versions
    BY <1>6, WorkerSays
  <2>2. Len(Task(j, i).rows) + 1 <= Versions
    BY <1>1, <2>1, BatchAssumption
  <2>3. /\ x.pc = "worker" /\ x.progress = x.rows /\ Len(x.rows) <= Versions /\ x.step = "checking"
        /\ Published(j, i)' = Exported(x.rows) /\ Exported(jobs'[j].results[i]) \subseteq Exported(x.rows)
        /\ (x.cancel = TRUE => StopAsked(jobs[j])')
    BY <1>1, <1>2, <1>4, <1>5, <1>6, <2>1, <2>2
  <2> QED
    BY <1>4, <2>3 DEF TaskSteps
<1>8. TaskTold(jobs[j], Task(j, i), jobs[j].results[i], Published(j, i))'
  BY <1>2, <1>4, <1>6 DEF TaskTold
<1> QED
  BY <1>2, <1>4, <1>6, <1>7, <1>8, TaskOnly

\* A worker that dies leaves what it has published; its job is marked.
LEMMA WorkerCrashesKeeps ==
  ASSUME BatchInv, NEW j \in DOMAIN jobs, NEW i \in DOMAIN jobs[j].tasks, WorkerCrashes(j, i)
  PROVE  BatchInv' /\ EndedStep
<1> DEFINE x == [Task(j, i) EXCEPT !.pc = "crashed"]
<1>1. x \in TaskType /\ x.pc = "crashed" /\ x.rows = Task(j, i).rows
      /\ x.progress = Task(j, i).progress /\ x.cancel = Task(j, i).cancel
  BY TaskSays DEF TaskType
<1>2. jobs' = [jobs EXCEPT ![j] = [jobs[j] EXCEPT !.tasks = [jobs[j].tasks EXCEPT ![i] = x], !.crashed = TRUE]]
  BY DEF WorkerCrashes, Task
<1> HIDE DEF x
<1>3. PICK rows, running, warning, yes :
        rows = jobs[j].results[i] /\ running = jobs[j].running /\ warning = jobs[j].warning /\ yes = TRUE
  OBVIOUS
<1>4. MarkTask(j, i, x, rows, running, warning, yes)
  <2>1. jobs[j].results = [jobs[j].results EXCEPT ![i] = jobs[j].results[i]]
    BY JobFacts DEF BatchInv
  <2>2. jobs[j] \in JobFields
    BY JobFacts DEF BatchInv
  <2>3. [jobs[j] EXCEPT !.tasks = [jobs[j].tasks EXCEPT ![i] = x], !.crashed = TRUE] =
          [jobs[j] EXCEPT !.tasks = [jobs[j].tasks EXCEPT ![i] = x], !.results = jobs[j].results,
                          !.running = jobs[j].running, !.warning = jobs[j].warning, !.crashed = TRUE]
    BY <2>2 DEF JobFields
  <2>4. jobs[j].warning \in BOOLEAN /\ jobs[j].running \in SUBSET Nat
    BY <2>2 DEF JobFields
  <2> QED
    BY <1>3, <1>1, <1>2, <2>1, <2>3, <2>4, TaskSays DEF MarkTask
<1>5. TaskFrame(j, i) /\ Task(j, i)' = x /\ jobs'[j].results[i] = jobs[j].results[i]
      /\ jobs'[j].crashed = TRUE
  <2>1. Types
    BY DEF BatchInv
  <2>2. TaskFrame(j, i) /\ Task(j, i)' = x /\ jobs'[j].results[i] = rows /\ jobs'[j].crashed = yes
    BY <1>4, <2>1, MarkedFrame
  <2> QED
    BY <1>3, <2>2
<1>6. Published(j, i)' = Published(j, i) /\ StopAsked(jobs[j])' = StopAsked(jobs[j])
  BY <1>5 DEF WorkerCrashes, Published, StopAsked, TaskFrame
<1>7. /\ Task(j, i).pc = "worker"
      /\ starting' = starting /\ runner' = runner /\ records' = records /\ grade' = grade /\ files' = files
  BY DEF WorkerCrashes
<1>8. Exported(Task(j, i).progress) \subseteq Published(j, i) /\ Exported(jobs[j].results[i]) \subseteq Published(j, i)
  BY <1>7, WorkerSays
<1>9. TaskSteps(jobs[j], Task(j, i), jobs[j].results[i], Published(j, i))'
  <2>1. x.cancel = TRUE => StopAsked(jobs[j])'
    BY <1>1, <1>6, <1>7, WorkerSays
  <2> QED
    BY <1>1, <1>5, <1>6, <1>8, <2>1 DEF TaskSteps
<1>10. TaskTold(jobs[j], Task(j, i), jobs[j].results[i], Published(j, i))'
  BY <1>1, <1>5, <1>6, <1>8 DEF TaskTold
<1> QED
  BY <1>1, <1>5, <1>7, <1>9, <1>10, TaskOnly

\* A task's blank form is a task.
LEMMA BlankTask ==
  /\ Idle \in TaskType /\ Over \in TaskType /\ Over.pc = "over" /\ Over.cancel = FALSE
  /\ \A rows \in Rows :
       LET x == [Idle EXCEPT !.pc = "recording", !.rows = rows]
       IN x \in TaskType /\ x.pc = "recording" /\ x.rows = rows /\ x.cancel = FALSE
<1>1. NoRecords \in RecordType
  BY DEF NoRecords, RecordType
<1> HIDE DEF NoRecords
<1>2. <<>> \in Seq(Outcomes)
  OBVIOUS
<1> QED
  BY <1>1, <1>2 DEF Idle, Over, TaskType, Rows

\* What the thread reports is what was written, unless the worker died, and is
\* complete, unless the job was told to stop.
LEMMA ResultRowsFacts ==
  ASSUME BatchInv, NEW j \in DOMAIN jobs, NEW i \in DOMAIN jobs[j].tasks,
         Task(j, i).pc \in {"ended", "crashed", "refused"}
  PROVE  /\ ResultRows(j, i) \in Rows /\ Exported(ResultRows(j, i)) \subseteq Published(j, i)
         /\ jobs[j].crashed = TRUE \/ Exported(ResultRows(j, i)) = Published(j, i)
         /\ Len(ResultRows(j, i)) = Versions \/ StopAsked(jobs[j])
<1>1. /\ TaskSteps(jobs[j], Task(j, i), jobs[j].results[i], Published(j, i))
      /\ Task(j, i).rows \in Rows /\ Task(j, i).progress \in Rows
  BY TaskSays
<1>2. CASE Task(j, i).pc = "ended"
  <2>1. ResultRows(j, i) = Task(j, i).rows
    BY <1>2 DEF ResultRows
  <2> QED
    BY <1>1, <1>2, <2>1 DEF TaskSteps
<1>3. CASE Task(j, i).pc = "crashed" /\ Cancelling(j)
  <2>1. ResultRows(j, i) = Task(j, i).progress
    BY <1>3 DEF ResultRows
  <2> QED
    BY <1>1, <1>3, <2>1 DEF TaskSteps, StopAsked, Cancelling
<1>4. CASE Task(j, i).pc # "ended" /\ ~(Task(j, i).pc = "crashed" /\ Cancelling(j))
  <2>1. ResultRows(j, i) = AllFailed
    BY <1>4 DEF ResultRows
  <2>2. jobs[j].crashed = TRUE \/ Published(j, i) = {}
    BY <1>1, <1>4 DEF TaskSteps
  <2> QED
    BY <2>1, <2>2, NothingExported
<1> QED
  BY <1>2, <1>3, <1>4

\* The answer of a worker stands: what is shown from now on is what it says.
LEMMA WorkerGoneKeeps ==
  ASSUME BatchInv, NEW j \in DOMAIN jobs, NEW i \in DOMAIN jobs[j].tasks, WorkerGone(j, i)
  PROVE  BatchInv' /\ EndedStep
<1>1. PICK rows, x, running, warning, crashed :
        /\ rows = ResultRows(j, i) /\ running = jobs[j].running \ {i}
        /\ x = IF Exported(rows) = {} THEN Over ELSE [Idle EXCEPT !.pc = "recording", !.rows = rows]
        /\ warning = jobs[j].warning /\ crashed = jobs[j].crashed
  OBVIOUS
<1>2. Task(j, i).pc \in {"ended", "crashed", "refused"}
      /\ starting' = starting /\ runner' = runner /\ records' = records /\ grade' = grade /\ files' = files
  BY DEF WorkerGone
<1>3. /\ rows \in Rows /\ Exported(rows) \subseteq Published(j, i)
      /\ crashed = TRUE \/ Exported(rows) = Published(j, i)
      /\ Len(rows) = Versions \/ StopAsked(jobs[j])
  BY <1>1, <1>2, ResultRowsFacts
<1>4. /\ x \in TaskType /\ x.cancel = FALSE /\ x.pc \in {"recording", "over"}
      /\ x.pc = "recording" => x.rows = rows /\ Exported(rows) # {}
      /\ x.pc = "over" => Exported(rows) = {}
  BY <1>1, <1>3, BlankTask
<1>5. MarkTask(j, i, x, rows, running, warning, crashed)
  <2>1. jobs[j] \in JobFields
    BY JobFacts DEF BatchInv
  <2>2. running \in SUBSET Nat /\ warning \in BOOLEAN /\ crashed \in BOOLEAN
    BY <1>1, <2>1 DEF JobFields
  <2>3. jobs' = [jobs EXCEPT ![j] =
          [jobs[j] EXCEPT !.tasks = [jobs[j].tasks EXCEPT ![i] = x],
                          !.results = [jobs[j].results EXCEPT ![i] = rows], !.running = running]]
    BY <1>1, <2>1 DEF WorkerGone, JobFields
  <2>4. [jobs[j] EXCEPT !.tasks = [jobs[j].tasks EXCEPT ![i] = x],
                        !.results = [jobs[j].results EXCEPT ![i] = rows], !.running = running] =
        [jobs[j] EXCEPT !.tasks = [jobs[j].tasks EXCEPT ![i] = x],
                        !.results = [jobs[j].results EXCEPT ![i] = rows],
                        !.running = running, !.warning = warning, !.crashed = crashed]
    BY <1>1, <2>1 DEF JobFields
  <2> QED
    BY <1>1, <1>3, <1>4, <2>2, <2>3, <2>4 DEF MarkTask
<1>6. TaskFrame(j, i) /\ Task(j, i)' = x /\ jobs'[j].results[i] = rows /\ jobs'[j].crashed = crashed
  <2>1. Types
    BY DEF BatchInv
  <2> QED
    BY <1>5, <2>1, MarkedFrame
<1>7. Published(j, i)' = Published(j, i) /\ StopAsked(jobs[j])' = StopAsked(jobs[j])
  BY <1>2, <1>6 DEF Published, StopAsked, TaskFrame
<1>8. TaskSteps(jobs[j], Task(j, i), jobs[j].results[i], Published(j, i))'
  BY <1>4, <1>6 DEF TaskSteps
<1>9. TaskTold(jobs[j], Task(j, i), jobs[j].results[i], Published(j, i))'
  BY <1>3, <1>4, <1>6, <1>7 DEF TaskTold
<1>10. Task(j, i)'.pc = "over" => Exported(jobs'[j].results[i]) \subseteq Known(j, jobs[j].photos[i])
  BY <1>4, <1>6
<1> QED
  BY <1>2, <1>4, <1>6, <1>8, <1>9, <1>10, TaskOnly

\* Without its record a photo is over, and its job warns.
LEMMA RecordFailsKeeps ==
  ASSUME BatchInv, NEW j \in DOMAIN jobs, NEW i \in DOMAIN jobs[j].tasks, RecordFails(j, i)
  PROVE  BatchInv' /\ EndedStep
<1>1. PICK rows, running, yes, crashed :
        rows = jobs[j].results[i] /\ running = jobs[j].running /\ yes = TRUE /\ crashed = jobs[j].crashed
  OBVIOUS
<1>2. /\ Task(j, i).pc = "writing"
      /\ starting' = starting /\ runner' = runner /\ records' = records /\ grade' = grade /\ files' = files
  BY DEF RecordFails
<1>3. MarkTask(j, i, Over, rows, running, yes, crashed)
  <2>1. jobs[j] \in JobFields /\ jobs[j].results = [jobs[j].results EXCEPT ![i] = rows]
    BY <1>1, JobFacts DEF BatchInv
  <2>2. running \in SUBSET Nat /\ yes \in BOOLEAN /\ crashed \in BOOLEAN
    BY <1>1, <2>1 DEF JobFields
  <2>3. jobs' = [jobs EXCEPT ![j] =
          [jobs[j] EXCEPT !.tasks = [jobs[j].tasks EXCEPT ![i] = Over], !.warning = TRUE]]
    BY DEF RecordFails
  <2>4. [jobs[j] EXCEPT !.tasks = [jobs[j].tasks EXCEPT ![i] = Over], !.warning = TRUE] =
        [jobs[j] EXCEPT !.tasks = [jobs[j].tasks EXCEPT ![i] = Over], !.results = jobs[j].results,
                        !.running = jobs[j].running, !.warning = TRUE, !.crashed = jobs[j].crashed]
    BY <2>1 DEF JobFields
  <2> QED
    BY <1>1, <2>1, <2>2, <2>3, <2>4, TaskSays, BlankTask DEF MarkTask
<1>4. TaskFrame(j, i) /\ Task(j, i)' = Over /\ jobs'[j].results[i] = rows
      /\ jobs'[j].warning = yes /\ jobs'[j].crashed = crashed
  <2>1. Types
    BY DEF BatchInv
  <2> QED
    BY <1>3, <2>1, MarkedFrame
<1>5. Published(j, i)' = Published(j, i) /\ StopAsked(jobs[j])' = StopAsked(jobs[j])
  BY <1>2, <1>4 DEF Published, StopAsked, TaskFrame
<1>6. TaskSteps(jobs[j], Task(j, i), jobs[j].results[i], Published(j, i))'
  BY <1>4, BlankTask DEF TaskSteps
<1>7. TaskTold(jobs[j], Task(j, i), jobs[j].results[i], Published(j, i))'
  <2>1. /\ Exported(rows) \subseteq Published(j, i) /\ (crashed = TRUE \/ Exported(rows) = Published(j, i))
        /\ Len(rows) = Versions \/ StopAsked(jobs[j])
    BY <1>1, <1>2, TaskSays DEF TaskTold
  <2>2. Over.pc = "over"
    BY BlankTask
  <2> QED
    BY <1>4, <1>5, <2>1, <2>2 DEF TaskTold
<1>8. jobs'[j].warning # FALSE
  BY <1>1, <1>4
<1> QED
  BY <1>2, <1>4, <1>6, <1>7, <1>8, BlankTask, TaskOnly

\* The thread that reads the records is the only one that is about to write.
LEMMA ReadRecordsKeeps ==
  ASSUME BatchInv, NEW j \in DOMAIN jobs, NEW i \in DOMAIN jobs[j].tasks, ReadRecords(j, i)
  PROVE  BatchInv' /\ EndedStep
<1> DEFINE x == [Task(j, i) EXCEPT !.pc = "writing", !.read = records]
<1>1. x \in TaskType /\ x.pc = "writing" /\ x.rows = Task(j, i).rows /\ x.read = records
      /\ x.cancel = Task(j, i).cancel
  <2>1. records \in RecordType
    BY DEF BatchInv, Types
  <2> QED
    BY <2>1, TaskSays DEF TaskType
<1> HIDE DEF x
<1>2. SetTask(j, i, x)
  BY DEF ReadRecords, x
<1>3. TaskFrame(j, i) /\ Task(j, i)' = x /\ jobs'[j].results = jobs[j].results
      /\ jobs'[j].crashed = jobs[j].crashed /\ jobs'[j].warning = jobs[j].warning
  BY <1>1, <1>2, SetTaskFrame DEF BatchInv
<1>4. Published(j, i)' = Published(j, i) /\ StopAsked(jobs[j])' = StopAsked(jobs[j])
  BY <1>3 DEF ReadRecords, Published, StopAsked, TaskFrame
<1>5. /\ Task(j, i).pc = "recording" /\ RecordFree
      /\ starting' = starting /\ runner' = runner /\ records' = records /\ grade' = grade /\ files' = files
  BY DEF ReadRecords
<1>6. TaskSteps(jobs[j], Task(j, i), jobs[j].results[i], Published(j, i))'
  BY <1>1, <1>3, <1>4, TaskSays DEF TaskSteps
<1>7. TaskTold(jobs[j], Task(j, i), jobs[j].results[i], Published(j, i))'
  BY <1>1, <1>3, <1>4, <1>5, TaskSays DEF TaskTold
<1>8. Types' /\ RunnerOn' /\ Started' /\ TasksTell'
  <2>1. records' \in RecordType
    BY <1>5 DEF BatchInv, Types
  <2> QED
    BY <1>1, <1>3, <1>5, <1>6, <1>7, <2>1, TaskKeeps
<1>9. \A k \in DOMAIN jobs : \A m \in DOMAIN jobs[k].tasks : Task(k, m).pc # "writing"
  <2> SUFFICES ASSUME NEW k \in DOMAIN jobs, NEW m \in DOMAIN jobs[k].tasks
               PROVE  Task(k, m).pc # "writing"
    OBVIOUS
  <2>1. <<k, m>> \in {k} \X DOMAIN jobs[k].tasks
    OBVIOUS
  <2>2. <<k, m>> \in Tasks
    BY <2>1 DEF Tasks
  <2>3. Task(<<k, m>>[1], <<k, m>>[2]).pc # "writing"
    BY <1>5, <2>2 DEF RecordFree
  <2> QED
    BY <2>3
<1>10. OneWriter'
  <2> SUFFICES ASSUME NEW k \in DOMAIN jobs', NEW n \in DOMAIN jobs', NEW m \in DOMAIN jobs'[k].tasks,
                      NEW l \in DOMAIN jobs'[n].tasks, Task(k, m)'.pc = "writing"
               PROVE  /\ Task(k, m)'.read = records'
                      /\ Task(n, l)'.pc = "writing" => n = k /\ l = m
    BY DEF OneWriter
  <2>1. Types
    BY DEF BatchInv
  <2>2. k = j /\ m = i
    BY <1>3, <1>9, <2>1, FrameFacts
  <2>3. ASSUME Task(n, l)'.pc = "writing", ~(n = j /\ l = i)
        PROVE  FALSE
    <3>1. n \in DOMAIN jobs /\ l \in DOMAIN jobs[n].tasks /\ Task(n, l)' = Task(n, l)
      BY <1>3, <2>1, <2>3, FrameFacts
    <3> QED
      BY <1>9, <2>3, <3>1
  <2> QED
    BY <1>1, <1>3, <1>5, <2>2, <2>3
<1>11. OverRecorded'
  <2> SUFFICES ASSUME NEW k \in DOMAIN jobs', NEW m \in DOMAIN jobs'[k].tasks,
                      Task(k, m)'.pc = "over", jobs'[k].warning = FALSE
               PROVE  Exported(jobs'[k].results[m]) \subseteq Known(k, jobs[k].photos[m])'
    BY DEF OverRecorded
  <2>1. Types
    BY DEF BatchInv
  <2>2. ~(k = j /\ m = i)
    BY <1>1, <1>3
  <2>3. k \in DOMAIN jobs /\ m \in DOMAIN jobs[k].tasks /\ jobs'[k].photos = jobs[k].photos
        /\ Task(k, m)' = Task(k, m) /\ jobs'[k].results[m] = jobs[k].results[m]
    BY <1>3, <2>1, <2>2, FrameFacts
  <2>4. jobs[k].warning = FALSE
    BY <1>3, <2>3 DEF TaskFrame
  <2>5. Known(k, jobs[k].photos[m])' = Known(k, jobs[k].photos[m])
    BY <1>5, <2>3 DEF Known
  <2> QED
    BY <2>3, <2>4, <2>5 DEF BatchInv, OverRecorded
<1>12. RecordsTrue'
  BY <1>5, <1>3 DEF BatchInv, RecordsTrue, MadeFrom, TaskFrame
<1>13. EndedStep
  <2>1. ~Ended(j)
    BY <1>5, UnderWay
  <2> QED
    BY <1>3, <1>5, <2>1 DEF EndedStep, TaskFrame
<1> QED
  BY <1>8, <1>10, <1>11, <1>12, <1>13 DEF BatchInv

\* The entry that is written: made from the grade the job looked up, with the
\* files of this export; nothing that was known of the photo is lost.
LEMMA EntryFacts ==
  ASSUME BatchInv, NEW j \in DOMAIN jobs, NEW i \in DOMAIN jobs[j].tasks, WriteRecords(j, i),
         NEW p, p = jobs[j].photos[i]
  PROVE  /\ p \in Photos /\ records' \in RecordType
         /\ records'[p].grade = jobs[j].grades[i]
         /\ records'[p].files = {<<j, v>> : v \in Exported(jobs[j].results[i])}
         /\ records'[p].history = records[p].history \cup records[p].files
         /\ \A q \in Photos : q # p => records'[q] = records[q]
<1>1. Task(j, i).pc = "writing" /\ Task(j, i).read = records /\ records \in RecordType
  BY DEF WriteRecords, BatchInv, OneWriter, Types
<1>2. Task(j, i).rows = jobs[j].results[i] /\ jobs[j].results[i] \in Rows
  BY <1>1, TaskSays DEF TaskTold
<1>3. p \in Photos /\ jobs[j].grades[i] \in Nat
  BY TaskFacts DEF BatchInv
<1> DEFINE made == {<<j, v>> : v \in Exported(jobs[j].results[i])}
           entry == [grade |-> jobs[j].grades[i], files |-> made,
                     history |-> records[p].history \cup records[p].files]
<1>4. records' = [records EXCEPT ![p] = entry]
  BY <1>1, <1>2 DEF WriteRecords, Entry
<1>5. made \in SUBSET (Nat \X Nat)
  <2>1. j \in Nat
    BY JobFacts DEF BatchInv
  <2>2. Exported(jobs[j].results[i]) \subseteq Nat
    BY <1>2, ExportedRows
  <2> QED
    BY <2>1, <2>2
<1> HIDE DEF made
<1>6. entry \in [grade : Nat \cup {NotExported}, files : SUBSET (Nat \X Nat), history : SUBSET (Nat \X Nat)]
  <2>1. records[p].history \cup records[p].files \in SUBSET (Nat \X Nat)
    BY <1>1, <1>3 DEF RecordType
  <2> QED
    BY <1>3, <1>5, <2>1
<1>7. entry.grade = jobs[j].grades[i] /\ entry.files = made
      /\ entry.history = records[p].history \cup records[p].files
  OBVIOUS
<1> HIDE DEF entry
<1>8. records'[p] = entry /\ (\A q \in Photos : q # p => records'[q] = records[q]) /\ records' \in RecordType
  BY <1>1, <1>3, <1>4, <1>6 DEF RecordType
<1> QED
  BY <1>3, <1>7, <1>8 DEF made

\* The new entry is true, and nothing reported earlier is forgotten.
LEMMA WriteRecordsKeeps ==
  ASSUME BatchInv, NEW j \in DOMAIN jobs, NEW i \in DOMAIN jobs[j].tasks, WriteRecords(j, i)
  PROVE  BatchInv' /\ EndedStep
<1>1. SetTask(j, i, Over) /\ Task(j, i).pc = "writing"
      /\ starting' = starting /\ runner' = runner /\ grade' = grade /\ files' = files
  BY DEF WriteRecords
<1>2. Types
  BY DEF BatchInv
<1>3. TaskFrame(j, i) /\ Task(j, i)' = Over /\ jobs'[j].results = jobs[j].results
      /\ jobs'[j].crashed = jobs[j].crashed /\ jobs'[j].warning = jobs[j].warning
  BY <1>1, <1>2, SetTaskFrame, BlankTask
<1>4. Over.pc = "over" /\ Over.cancel = FALSE
  BY BlankTask
<1>5. Published(j, i)' = Published(j, i) /\ StopAsked(jobs[j])' = StopAsked(jobs[j])
  BY <1>1, <1>3 DEF Published, StopAsked, TaskFrame
<1>6. /\ Exported(jobs[j].results[i]) # {} /\ Exported(jobs[j].results[i]) \subseteq Published(j, i)
      /\ jobs[j].crashed = TRUE \/ Exported(jobs[j].results[i]) = Published(j, i)
      /\ Len(jobs[j].results[i]) = Versions \/ StopAsked(jobs[j])
  BY <1>1, TaskSays DEF TaskTold
<1> DEFINE p == jobs[j].photos[i]
<1>7. /\ p \in Photos /\ records' \in RecordType
      /\ records'[p].grade = jobs[j].grades[i]
      /\ records'[p].files = {<<j, v>> : v \in Exported(jobs[j].results[i])}
      /\ records'[p].history = records[p].history \cup records[p].files
      /\ \A q \in Photos : q # p => records'[q] = records[q]
  BY EntryFacts
<1>8. TaskSteps(jobs[j], Task(j, i), jobs[j].results[i], Published(j, i))'
  BY <1>3, <1>4 DEF TaskSteps
<1>9. TaskTold(jobs[j], Task(j, i), jobs[j].results[i], Published(j, i))'
  BY <1>3, <1>4, <1>5, <1>6 DEF TaskTold
<1>10. Types' /\ RunnerOn' /\ Started' /\ TasksTell'
  BY <1>1, <1>3, <1>4, <1>7, <1>8, <1>9, TaskKeeps
<1>11. OneWriter'
  <2> SUFFICES ASSUME NEW k \in DOMAIN jobs', NEW m \in DOMAIN jobs'[k].tasks, Task(k, m)'.pc = "writing"
               PROVE  FALSE
    BY DEF OneWriter
  <2>1. ~(k = j /\ m = i)
    BY <1>3, <1>4
  <2>2. k \in DOMAIN jobs /\ m \in DOMAIN jobs[k].tasks /\ Task(k, m)' = Task(k, m)
    BY <1>2, <1>3, <2>1, FrameFacts
  <2> QED
    BY <1>1, <2>1, <2>2 DEF BatchInv, OneWriter
<1>12. OverRecorded'
  <2> SUFFICES ASSUME NEW k \in DOMAIN jobs', NEW m \in DOMAIN jobs'[k].tasks,
                      Task(k, m)'.pc = "over", jobs'[k].warning = FALSE
               PROVE  Exported(jobs'[k].results[m]) \subseteq Known(k, jobs[k].photos[m])'
    BY DEF OverRecorded
  <2>1. k \in DOMAIN jobs /\ m \in DOMAIN jobs[k].tasks /\ jobs'[k].photos = jobs[k].photos
    BY <1>2, <1>3, FrameFacts
  <2>2. jobs[k].photos[m] \in Photos
    BY <1>2, <2>1, TaskFacts
  <2>3. Known(k, jobs[k].photos[m]) \subseteq Known(k, jobs[k].photos[m])'
    BY <1>7, <2>1, <2>2 DEF Known
  <2>4. CASE ~(k = j /\ m = i)
    <3>1. Task(k, m)' = Task(k, m) /\ jobs'[k].results[m] = jobs[k].results[m]
      BY <1>2, <1>3, <2>4, FrameFacts
    <3>2. jobs[k].warning = FALSE
      BY <1>3, <2>1 DEF TaskFrame
    <3> QED
      BY <2>1, <2>3, <3>1, <3>2 DEF BatchInv, OverRecorded
  <2>5. CASE k = j /\ m = i
    <3>1. jobs[j].results[i] \in Rows
      BY TaskSays
    <3>2. Exported(jobs[j].results[i]) \subseteq Nat
      BY <3>1, ExportedRows
    <3>3. jobs'[k].results[m] = jobs[j].results[i] /\ jobs'[k].photos[m] = p
      BY <1>3, <2>1, <2>5
    <3>4. Exported(jobs[j].results[i]) \subseteq {v \in Nat : <<j, v>> \in records'[p].files}
      BY <1>7, <3>2
    <3> HIDE DEF p
    <3> QED
      BY <2>5, <3>3, <3>4 DEF Known
  <2> QED
    BY <2>4, <2>5
<1>13. RecordsTrue'
  <2> SUFFICES ASSUME NEW q \in Photos, records'[q].grade # NotExported
               PROVE  /\ records'[q].files # {}
                      /\ \A k, v : <<k, v>> \in records'[q].files => MadeFrom(k, v, q, records[q].grade)'
    BY DEF RecordsTrue
  <2>1. CASE q # p
    <3>1. records'[q] = records[q]
      BY <1>7, <2>1
    <3>2. /\ records[q].files # {}
          /\ \A k, v : <<k, v>> \in records[q].files => MadeFrom(k, v, q, records[q].grade)
      BY <3>1 DEF BatchInv, RecordsTrue
    <3>3. ASSUME NEW k, NEW v, MadeFrom(k, v, q, records[q].grade)
          PROVE  MadeFrom(k, v, q, records[q].grade)'
      <4>1. k \in DOMAIN jobs' /\ jobs'[k].photos = jobs[k].photos /\ jobs'[k].grades = jobs[k].grades
        BY <1>3, <3>3 DEF MadeFrom, TaskFrame
      <4> QED
        BY <1>1, <3>1, <3>3, <4>1 DEF MadeFrom
    <3> QED
      BY <3>1, <3>2, <3>3
  <2>2. CASE q = p
    <3>1. records'[q].files # {}
      BY <1>6, <1>7, <2>2
    <3>2. ASSUME NEW k, NEW v, <<k, v>> \in records'[q].files
          PROVE  MadeFrom(k, v, q, records[q].grade)'
      <4>1. k = j /\ v \in Exported(jobs[j].results[i])
        BY <1>7, <2>2, <3>2
      <4>2. <<j, i, v>> \in files'
        BY <1>1, <1>6, <4>1 DEF Published
      <4>3. /\ j \in DOMAIN jobs' /\ i \in DOMAIN jobs'[j].photos
            /\ jobs'[j].photos[i] = q /\ jobs'[j].grades[i] = records'[q].grade
        BY <1>2, <1>3, <1>7, <2>2, JobFacts DEF TaskFrame
      <4> QED
        BY <4>1, <4>2, <4>3 DEF MadeFrom
    <3> QED
      BY <3>1, <3>2
  <2> QED
    BY <2>1, <2>2
<1>14. EndedStep
  <2>1. ~Ended(j)
    BY <1>1, UnderWay
  <2> QED
    BY <1>1, <1>3, <2>1 DEF EndedStep, TaskFrame
<1> QED
  BY <1>10, <1>11, <1>12, <1>13, <1>14 DEF BatchInv

\* Any step of a photo's thread or worker.
LEMMA TasksKeep ==
  ASSUME BatchInv,
         \E t \in Tasks : TaskStep(t[1], t[2]) \/ ReadProgress(t[1], t[2]) \/ TaskFault(t[1], t[2])
  PROVE  BatchInv' /\ EndedStep
<1>1. PICK t \in Tasks : TaskStep(t[1], t[2]) \/ ReadProgress(t[1], t[2]) \/ TaskFault(t[1], t[2])
  OBVIOUS
<1>2. t[1] \in DOMAIN jobs /\ t[2] \in DOMAIN jobs[t[1]].tasks
  BY DEF Tasks
<1>3. CASE TaskStep(t[1], t[2])
  BY <1>2, <1>3, SpawnKeeps, TouchCancelKeeps, WorkerGoneKeeps, ReadRecordsKeeps, WriteRecordsKeeps,
     RenderKeeps, ExportEndsKeeps, PublishKeeps, ReportKeeps DEF TaskStep
<1>4. CASE ReadProgress(t[1], t[2])
  BY <1>2, <1>4, ReadProgressKeeps
<1>5. CASE TaskFault(t[1], t[2])
  BY <1>2, <1>5, RecordFailsKeeps, RenderFailsKeeps, SpawnFailsKeeps, WorkerCrashesKeeps DEF TaskFault
<1> QED
  BY <1>1, <1>3, <1>4, <1>5

-----------------------------------------------------------------------------
\* The page, the shell and the runner change the states of jobs, and nothing of
\* what their tasks have made.
StatesMove ==
  /\ jobs' \in Seq(JobFields) /\ DOMAIN jobs' = DOMAIN jobs
  /\ \A k \in DOMAIN jobs :
       /\ IsJob(jobs'[k]) /\ jobs'[k].photos = jobs[k].photos /\ jobs'[k].grades = jobs[k].grades
       /\ jobs'[k].tasks = jobs[k].tasks /\ jobs'[k].results = jobs[k].results
       /\ jobs'[k].warning = jobs[k].warning /\ jobs'[k].crashed = jobs[k].crashed
       /\ StopAsked(jobs[k]) => StopAsked(jobs'[k])
       /\ Ended(k) => jobs'[k].state = jobs[k].state

\* What the tasks have told and recorded stays as it is.
LEMMA StatesKeep ==
  ASSUME BatchInv, StatesMove, records' = records, files' = files
  PROVE  TasksTell' /\ OneWriter' /\ OverRecorded' /\ RecordsTrue' /\ EndedStep
<1>1. ASSUME NEW k \in DOMAIN jobs', NEW m \in DOMAIN jobs'[k].tasks
      PROVE  /\ k \in DOMAIN jobs /\ m \in DOMAIN jobs[k].tasks /\ Task(k, m)' = Task(k, m)
             /\ jobs'[k].results = jobs[k].results /\ jobs'[k].crashed = jobs[k].crashed
             /\ jobs'[k].warning = jobs[k].warning /\ jobs'[k].photos = jobs[k].photos
             /\ StopAsked(jobs[k]) => StopAsked(jobs'[k])
  BY DEF StatesMove, Task
<1>2. TasksTell'
  <2> SUFFICES ASSUME NEW k \in DOMAIN jobs', NEW m \in DOMAIN jobs'[k].tasks
               PROVE  /\ TaskSteps(jobs[k], Task(k, m), jobs[k].results[m], Published(k, m))'
                      /\ TaskTold(jobs[k], Task(k, m), jobs[k].results[m], Published(k, m))'
    BY DEF TasksTell
  <2>1. /\ k \in DOMAIN jobs /\ m \in DOMAIN jobs[k].tasks /\ Task(k, m)' = Task(k, m)
        /\ jobs'[k].results = jobs[k].results /\ jobs'[k].crashed = jobs[k].crashed
        /\ StopAsked(jobs[k]) => StopAsked(jobs'[k])
    BY <1>1
  <2>2. Published(k, m)' = Published(k, m)
    BY DEF Published
  <2>3. /\ TaskSteps(jobs[k], Task(k, m), jobs[k].results[m], Published(k, m))
        /\ TaskTold(jobs[k], Task(k, m), jobs[k].results[m], Published(k, m))
    BY <2>1, TaskSays
  <2> QED
    BY <2>1, <2>2, <2>3 DEF TaskSteps, TaskTold, Silent
<1>3. OneWriter'
  BY <1>1 DEF BatchInv, OneWriter
<1>4. OverRecorded'
  BY <1>1 DEF BatchInv, OverRecorded, Known
<1>5. RecordsTrue'
  BY DEF BatchInv, RecordsTrue, MadeFrom, StatesMove
<1>6. EndedStep
  BY DEF EndedStep, StatesMove
<1> QED
  BY <1>2, <1>3, <1>4, <1>5, <1>6

\* No job changes.
LEMMA JobsStay ==
  ASSUME Types, jobs' = jobs
  PROVE  StatesMove
BY DEF Types, StatesMove

\* A job whose state is set, and whether a Cancel of it was taken back.
WithState(job, j, s, r) == job = [jobs[j] EXCEPT !.state = s, !.recalled = r]

\* It keeps its shape and its tasks.
LEMMA StateSet ==
  ASSUME Types, NEW j \in DOMAIN jobs, NEW s \in Due \cup Terminal \cup {"running", "paused"},
         NEW r \in BOOLEAN, NEW job, WithState(job, j, s, r)
  PROVE  /\ IsJob(job) /\ job.state = s /\ job.recalled = r
         /\ job.photos = jobs[j].photos /\ job.grades = jobs[j].grades /\ job.tasks = jobs[j].tasks
         /\ job.results = jobs[j].results /\ job.warning = jobs[j].warning /\ job.crashed = jobs[j].crashed
<1>1. jobs[j] \in JobFields /\ IsJob(jobs[j])
  BY JobFacts
<1>2. /\ job \in JobFields /\ job.state = s /\ job.recalled = r
      /\ job.photos = jobs[j].photos /\ job.grades = jobs[j].grades /\ job.tasks = jobs[j].tasks
      /\ job.results = jobs[j].results /\ job.warning = jobs[j].warning /\ job.crashed = jobs[j].crashed
  BY <1>1 DEF JobFields, WithState
<1> QED
  BY <1>1, <1>2 DEF IsJob

\* The oldest job that waits for the runner.
LEMMA OldestDue ==
  ASSUME Types, DueJobs # {}
  PROVE  \E j \in DueJobs : \A k \in DueJobs : j <= k
<1>1. DueJobs \subseteq Nat
  BY DEF DueJobs, Types
<1> DEFINE less == {ss \in Nat \X Nat : ss[1] < ss[2]}
<1>2. IsWellFoundedOn(less, Nat)
  BY NatLessThanWellFounded DEF OpToRel
<1>3. PICK j \in DueJobs : \A k \in DueJobs : ~(<<k, j>> \in less)
  <2> HIDE DEF less
  <2> QED
    BY <1>1, <1>2, WFMin
<1>4. ASSUME NEW k \in DueJobs
      PROVE  j <= k
  <2>1. j \in Nat /\ k \in Nat
    BY <1>1
  <2>2. <<k, j>> \in Nat \X Nat /\ <<k, j>>[1] = k /\ <<k, j>>[2] = j
    BY <2>1
  <2>3. ~(k < j)
    BY <1>3, <2>2
  <2> QED
    BY <2>1, <2>3
<1> QED
  BY <1>4

\* The job that is taken has no task started yet.
LEMMA TakeJobKeeps ==
  ASSUME BatchInv, TakeJob
  PROVE  BatchInv' /\ EndedStep
<1> DEFINE first == CHOOSE j \in DueJobs : \A k \in DueJobs : j <= k
<1>1. Types
  BY DEF BatchInv
<1>2. first \in DueJobs
  BY <1>1, OldestDue DEF TakeJob
<1>3. /\ runner.pc = "waiting" /\ runner' = [pc |-> "launching", job |-> first, next |-> 1]
      /\ jobs' = jobs /\ starting' = starting /\ records' = records /\ files' = files /\ grade' = grade
  BY DEF TakeJob
<1> HIDE DEF first
<1>4. first \in DOMAIN jobs /\ ~Ended(first) /\ jobs[first].state \in Due
  BY <1>2 DEF DueJobs, Ended, Due, Terminal
<1>5. ~Busy /\ Busy' /\ runner'.job = first /\ runner'.next = 1 /\ runner'.pc = "launching"
  BY <1>3 DEF Busy
<1>6. Types'
  <2>1. first \in Nat
    BY <1>1, <1>4, JobFacts
  <2>2. runner' \in [pc : {"waiting", "launching", "joining", "gone"}, job : Nat, next : Nat]
    BY <1>3, <2>1
  <2> QED
    BY <1>1, <1>3, <2>2 DEF Types, IsJob
<1>7. RunnerOn'
  BY <1>3, <1>4, <1>5 DEF RunnerOn, Ended
<1>8. Started'
  <2> SUFFICES ASSUME NEW k \in DOMAIN jobs, NEW m \in DOMAIN jobs[k].tasks
               PROVE  /\ k # first =>
                           \/ Task(k, m).pc = "over" /\ Ended(k)
                           \/ Task(k, m).pc = "none" /\ jobs[k].state # "finished"
                           \/ Task(k, m).pc = "none" /\ StopAsked(jobs[k])
                      /\ k = first => Task(k, m).pc = "none" /\ m >= 1
    BY <1>3, <1>5 DEF Started, Task, Ended
  <2>1. \/ Task(k, m).pc = "over" /\ Ended(k)
        \/ Task(k, m).pc = "none" /\ jobs[k].state # "finished"
        \/ Task(k, m).pc = "none" /\ StopAsked(jobs[k])
    BY <1>5 DEF BatchInv, Started
  <2>2. m >= 1
    BY <1>1, JobFacts
  <2> QED
    BY <1>4, <2>1, <2>2
<1>9. StatesMove
  BY <1>1, <1>3, JobsStay
<1> QED
  BY <1>3, <1>6, <1>7, <1>8, <1>9, StatesKeep DEF BatchInv

\* A runner that ends had no job.
LEMMA RunnerEndsKeeps ==
  ASSUME BatchInv, RunnerEnds
  PROVE  BatchInv' /\ EndedStep
<1>1. /\ runner.pc = "waiting" /\ runner' = [runner EXCEPT !.pc = "gone"]
      /\ jobs' = jobs /\ starting' = starting /\ records' = records /\ files' = files /\ grade' = grade
  BY DEF RunnerEnds
<1>2. Types /\ RunnerOn /\ Started
  BY DEF BatchInv
<1>3. /\ runner' \in [pc : {"waiting", "launching", "joining", "gone"}, job : Nat, next : Nat]
      /\ runner'.pc = "gone"
  BY <1>1, <1>2 DEF Types
<1>4. ~Busy /\ ~Busy'
  BY <1>1, <1>3 DEF Busy
<1>5. Types' /\ RunnerOn' /\ Started'
  BY <1>1, <1>2, <1>3, <1>4 DEF Types, IsJob, RunnerOn, Started, Task, Ended
<1> QED
  BY <1>1, <1>2, <1>5, JobsStay, StatesKeep DEF BatchInv

\* The runner stops at the last photo, or when it is told to.
LEMMA LaunchEndsKeeps ==
  ASSUME BatchInv, LaunchEnds
  PROVE  BatchInv' /\ EndedStep
<1>1. /\ runner.pc = "launching" /\ runner' = [runner EXCEPT !.pc = "joining"]
      /\ runner.next \notin DOMAIN jobs[runner.job].photos \/ Cancelling(runner.job)
      /\ jobs' = jobs /\ starting' = starting /\ records' = records /\ files' = files /\ grade' = grade
  BY DEF LaunchEnds
<1>2. Types /\ RunnerOn /\ Started
  BY DEF BatchInv
<1>3. /\ runner' \in [pc : {"waiting", "launching", "joining", "gone"}, job : Nat, next : Nat]
      /\ runner'.pc = "joining" /\ runner'.job = runner.job /\ runner'.next = runner.next
  BY <1>1, <1>2 DEF Types
<1>4. Busy /\ Busy'
  BY <1>1, <1>3 DEF Busy
<1>5. runner.job \in DOMAIN jobs /\ ~Ended(runner.job) /\ runner.next >= 1 /\ runner.next \in Nat
  BY <1>2, <1>4 DEF RunnerOn, Types
<1>6. runner.next > Len(jobs[runner.job].photos) \/ StopAsked(jobs[runner.job])
  <2>1. /\ DOMAIN jobs[runner.job].photos = 1..Len(jobs[runner.job].photos)
        /\ Len(jobs[runner.job].photos) \in Nat
    BY <1>2, <1>5, JobFacts
  <2> QED
    BY <1>1, <1>5, <2>1 DEF Cancelling, StopAsked
<1>7. Types' /\ Started'
  BY <1>1, <1>2, <1>3, <1>4 DEF Types, IsJob, Started, Task, Ended
<1>8. RunnerOn'
  BY <1>1, <1>3, <1>5, <1>6 DEF RunnerOn, Ended
<1> QED
  BY <1>1, <1>2, <1>7, <1>8, JobsStay, StatesKeep DEF BatchInv

\* A job ends when no task of it is under way: all have answered, or it was
\* told to stop.
LEMMA JoinKeeps ==
  ASSUME BatchInv, Join
  PROVE  BatchInv' /\ EndedStep
<1> DEFINE j == runner.job
<1>1. PICK s, r : s = (IF Cancelling(j) THEN "cancelled" ELSE "finished") /\ r = jobs[j].recalled
  OBVIOUS
<1>2. /\ runner.pc = "joining" /\ runner' = [runner EXCEPT !.pc = "waiting"]
      /\ \A i \in DOMAIN jobs[j].tasks : Task(j, i).pc \in {"none", "over"}
      /\ jobs' = [jobs EXCEPT ![j] = [jobs[j] EXCEPT !.state = s]]
      /\ starting' = starting /\ records' = records /\ files' = files /\ grade' = grade
  BY <1>1 DEF Join, EndJob
<1>3. Types /\ RunnerOn /\ Started
  BY DEF BatchInv
<1>4. Busy /\ j \in DOMAIN jobs /\ ~Ended(j)
      /\ (runner.next > Len(jobs[j].photos) \/ StopAsked(jobs[j]))
  BY <1>2, <1>3 DEF Busy, RunnerOn
<1>5. /\ runner' \in [pc : {"waiting", "launching", "joining", "gone"}, job : Nat, next : Nat]
      /\ runner'.pc = "waiting" /\ ~Busy'
  BY <1>2, <1>3 DEF Types, Busy
<1> HIDE DEF j
<1>6. PICK job : WithState(job, j, s, r)
  BY DEF WithState
<1>7. s \in Terminal /\ r \in BOOLEAN /\ jobs[j] \in JobFields
  BY <1>1, <1>3, <1>4, JobFacts DEF Terminal, JobFields
<1>8. /\ IsJob(job) /\ job.state = s /\ job.recalled = r
      /\ job.photos = jobs[j].photos /\ job.grades = jobs[j].grades /\ job.tasks = jobs[j].tasks
      /\ job.results = jobs[j].results /\ job.warning = jobs[j].warning /\ job.crashed = jobs[j].crashed
  <2>1. s \in Due \cup Terminal \cup {"running", "paused"}
    BY <1>7
  <2>2. Types /\ j \in DOMAIN jobs /\ r \in BOOLEAN
    BY <1>3, <1>4, <1>7
  <2> QED
    BY <1>6, <2>1, <2>2, StateSet
<1>9. [jobs[j] EXCEPT !.state = s] = job
  BY <1>1, <1>6, <1>7 DEF JobFields, WithState
<1>10. /\ jobs' \in Seq(JobFields) /\ DOMAIN jobs' = DOMAIN jobs /\ jobs'[j] = job
       /\ \A k \in DOMAIN jobs : k # j => jobs'[k] = jobs[k]
  BY <1>2, <1>3, <1>4, <1>8, <1>9, JobReplaced
<1>11. StopAsked(jobs[j]) => StopAsked(job)
  BY <1>1, <1>4, <1>8 DEF StopAsked, Cancelling, Ended, Terminal
<1>12. StatesMove
  <2> SUFFICES ASSUME NEW k \in DOMAIN jobs
               PROVE  /\ IsJob(jobs'[k]) /\ jobs'[k].photos = jobs[k].photos /\ jobs'[k].grades = jobs[k].grades
                      /\ jobs'[k].tasks = jobs[k].tasks /\ jobs'[k].results = jobs[k].results
                      /\ jobs'[k].warning = jobs[k].warning /\ jobs'[k].crashed = jobs[k].crashed
                      /\ StopAsked(jobs[k]) => StopAsked(jobs'[k])
                      /\ Ended(k) => jobs'[k].state = jobs[k].state
    BY <1>10 DEF StatesMove
  <2>1. CASE k = j
    BY <1>4, <1>8, <1>10, <1>11, <2>1
  <2>2. CASE k # j
    BY <1>3, <1>10, <2>2 DEF Types
  <2> QED
    BY <2>1, <2>2
<1>13. Types'
  BY <1>2, <1>3, <1>5, <1>12 DEF Types, StatesMove, IsJob
<1>14. RunnerOn'
  BY <1>5 DEF RunnerOn
<1>15. Started'
  <2> SUFFICES ASSUME NEW k \in DOMAIN jobs', NEW m \in DOMAIN jobs'[k].tasks
               PROVE  \/ Task(k, m)'.pc = "over" /\ Ended(k)'
                      \/ Task(k, m)'.pc = "none" /\ jobs'[k].state # "finished"
                      \/ Task(k, m)'.pc = "none" /\ StopAsked(jobs'[k])
    BY <1>5 DEF Started
  <2>1. CASE k = j
    <3>1. Task(k, m)' = Task(j, m) /\ m \in DOMAIN jobs[j].tasks
      BY <1>8, <1>10, <2>1 DEF Task
    <3>2. Ended(k)'
      BY <1>7, <1>8, <1>10, <2>1 DEF Ended
    <3>3. CASE Task(j, m).pc = "over"
      BY <3>1, <3>2, <3>3
    <3>4. CASE Task(j, m).pc = "none"
      <4>1. m >= runner.next
        BY <1>3, <1>4, <3>1, <3>4 DEF Started, j
      <4>2. m \in 1..Len(jobs[j].photos) /\ runner.next \in Nat /\ Len(jobs[j].photos) \in Nat
        BY <1>3, <1>4, <3>1, JobFacts DEF Types
      <4>3. StopAsked(jobs[j])
        BY <1>4, <4>1, <4>2
      <4> QED
        BY <1>10, <1>11, <2>1, <3>1, <3>4, <4>3
    <3> QED
      BY <1>2, <3>1, <3>3, <3>4
  <2>2. CASE k # j
    <3>1. k \in DOMAIN jobs /\ jobs'[k] = jobs[k]
      BY <1>10, <2>2
    <3>2. ~(Busy /\ runner.job = k)
      BY <2>2 DEF j
    <3> QED
      BY <1>3, <3>1, <3>2 DEF Started, Task, Ended
  <2> QED
    BY <2>1, <2>2
<1> QED
  BY <1>2, <1>12, <1>13, <1>14, <1>15, StatesKeep DEF BatchInv

\* A started photo has shown and written nothing yet.
LEMMA LaunchKeeps ==
  ASSUME BatchInv, Launch
  PROVE  BatchInv' /\ EndedStep
<1> DEFINE j == runner.job
           i == runner.next
           x == [Task(j, i) EXCEPT !.pc = "spawning"]
<1>1. /\ runner.pc = "launching" /\ i \in DOMAIN jobs[j].photos
      /\ jobs[j].state \notin {"cancelling", "paused"}
      /\ runner' = [runner EXCEPT !.next = @ + 1]
      /\ starting' = starting /\ records' = records /\ files' = files /\ grade' = grade
  BY DEF Launch
<1>2. Types /\ RunnerOn /\ Started
  BY DEF BatchInv
<1>3. Busy /\ j \in DOMAIN jobs /\ ~Ended(j)
  BY <1>1, <1>2 DEF Busy, RunnerOn
<1>4. /\ runner' \in [pc : {"waiting", "launching", "joining", "gone"}, job : Nat, next : Nat]
      /\ runner'.pc = "launching" /\ runner'.job = j /\ runner'.next = i + 1 /\ i \in Nat /\ Busy'
  BY <1>1, <1>2 DEF Types, Busy
<1> HIDE DEF j, i
<1>5. jobs[j] \in JobFields /\ i \in DOMAIN jobs[j].tasks /\ i >= 1
      /\ jobs[j].tasks \in Seq(TaskType) /\ IsJob(jobs[j])
  BY <1>1, <1>2, <1>3, JobFacts
<1>6. Task(j, i).pc = "none"
  BY <1>2, <1>3, <1>4, <1>5 DEF Started, j, i
<1>7. x \in TaskType /\ x.pc = "spawning" /\ x.rows = Task(j, i).rows
      /\ x.progress = Task(j, i).progress /\ x.cancel = Task(j, i).cancel
  BY <1>3, <1>5, TaskSays DEF TaskType
<1> HIDE DEF x
<1> DEFINE tasks == [jobs[j].tasks EXCEPT ![i] = x]
<1>8. PICK running : running = jobs[j].running \cup {i}
  OBVIOUS
<1>9. PICK job : job = [jobs[j] EXCEPT !.state = "running", !.running = running, !.tasks = tasks]
  OBVIOUS
<1>10. jobs' = [jobs EXCEPT ![j] = job]
  BY <1>8, <1>9 DEF Launch, j, i, x, Task
<1>11. tasks \in Seq(TaskType) /\ Len(tasks) = Len(jobs[j].tasks) /\ DOMAIN tasks = DOMAIN jobs[j].tasks
       /\ tasks[i] = x /\ \A m \in DOMAIN jobs[j].tasks : m # i => tasks[m] = jobs[j].tasks[m]
  BY <1>5, <1>7
<1> HIDE DEF tasks
<1>12. running \in SUBSET Nat
  BY <1>4, <1>5, <1>8 DEF JobFields
<1>13. /\ job \in JobFields /\ job.state = "running" /\ job.recalled = jobs[j].recalled
       /\ job.photos = jobs[j].photos /\ job.grades = jobs[j].grades /\ job.tasks = tasks
       /\ job.results = jobs[j].results /\ job.warning = jobs[j].warning /\ job.crashed = jobs[j].crashed
  BY <1>5, <1>9, <1>11, <1>12 DEF JobFields
<1>14. IsJob(job)
  BY <1>5, <1>11, <1>13 DEF IsJob
<1>15. /\ jobs' \in Seq(JobFields) /\ DOMAIN jobs' = DOMAIN jobs /\ jobs'[j] = job
       /\ \A k \in DOMAIN jobs : k # j => jobs'[k] = jobs[k]
  BY <1>2, <1>3, <1>10, <1>14, JobReplaced
<1>16. StopAsked(job) <=> StopAsked(jobs[j])
  BY <1>1, <1>3, <1>13 DEF StopAsked, Ended, Terminal, j
<1>17. ASSUME NEW k \in DOMAIN jobs', NEW m \in DOMAIN jobs'[k].tasks
       PROVE  /\ k \in DOMAIN jobs /\ m \in DOMAIN jobs[k].tasks
              /\ jobs'[k].photos = jobs[k].photos /\ jobs'[k].results = jobs[k].results
              /\ jobs'[k].grades = jobs[k].grades
              /\ jobs'[k].warning = jobs[k].warning /\ jobs'[k].crashed = jobs[k].crashed
              /\ StopAsked(jobs'[k]) <=> StopAsked(jobs[k])
              /\ k # j \/ m # i => Task(k, m)' = Task(k, m)
              /\ k = j /\ m = i => Task(k, m)' = x
  <2>1. CASE k = j
    BY <1>3, <1>11, <1>13, <1>15, <1>16, <2>1 DEF Task
  <2>2. CASE k # j
    BY <1>15, <2>2 DEF Task
  <2> QED
    BY <2>1, <2>2
<1>18. Types'
  BY <1>1, <1>2, <1>4, <1>14, <1>15 DEF Types, IsJob
<1>19. RunnerOn'
  <2>1. jobs'[j].state \notin Terminal
    BY <1>13, <1>15 DEF Terminal
  <2> QED
    BY <1>3, <1>4, <1>5, <1>15, <2>1 DEF RunnerOn, Ended
<1>20. Started'
  <2> SUFFICES ASSUME NEW k \in DOMAIN jobs', NEW m \in DOMAIN jobs'[k].tasks
               PROVE  /\ k # j =>
                           \/ Task(k, m)'.pc = "over" /\ Ended(k)'
                           \/ Task(k, m)'.pc = "none" /\ jobs'[k].state # "finished"
                           \/ Task(k, m)'.pc = "none" /\ StopAsked(jobs'[k])
                      /\ k = j => (Task(k, m)'.pc = "none" <=> m >= i + 1)
    BY <1>4 DEF Started
  <2>1. CASE k # j
    <3>1. k \in DOMAIN jobs /\ jobs'[k] = jobs[k]
      BY <1>15, <2>1
    <3>2. ~(Busy /\ runner.job = k)
      BY <2>1 DEF j
    <3> QED
      BY <1>2, <2>1, <3>1, <3>2 DEF Started, Task, Ended
  <2>2. CASE k = j /\ m = i
    BY <1>4, <1>7, <1>17, <2>2
  <2>3. CASE k = j /\ m # i
    <3>1. Task(k, m)' = Task(j, m) /\ m \in DOMAIN jobs[j].tasks
      BY <1>17, <2>3
    <3>2. m \in Nat
      BY <1>2, <1>3, <3>1, JobFacts
    <3>3. Task(j, m).pc = "none" <=> m >= i
      BY <1>2, <1>3, <3>1 DEF Started, j, i
    <3> QED
      BY <1>4, <2>3, <3>1, <3>2, <3>3
  <2> QED
    BY <2>1, <2>2, <2>3
<1>21. TasksTell'
  <2> SUFFICES ASSUME NEW k \in DOMAIN jobs', NEW m \in DOMAIN jobs'[k].tasks
               PROVE  /\ TaskSteps(jobs[k], Task(k, m), jobs[k].results[m], Published(k, m))'
                      /\ TaskTold(jobs[k], Task(k, m), jobs[k].results[m], Published(k, m))'
    BY DEF TasksTell
  <2>1. Published(k, m)' = Published(k, m)
    BY <1>1 DEF Published
  <2>2. /\ TaskSteps(jobs[k], Task(k, m), jobs[k].results[m], Published(k, m))
        /\ TaskTold(jobs[k], Task(k, m), jobs[k].results[m], Published(k, m))
    BY <1>17, TaskSays
  <2>3. CASE k # j \/ m # i
    BY <1>17, <2>1, <2>2, <2>3 DEF TaskSteps, TaskTold, Silent
  <2>4. CASE k = j /\ m = i
    <3>1. /\ jobs[j].results[i] = <<>> /\ Published(j, i) = {} /\ x.rows = <<>> /\ x.progress = <<>>
          /\ x.cancel = FALSE
      BY <1>6, <1>7, <2>2, <2>4 DEF TaskSteps, Silent
    <3>2. Task(k, m)' = x /\ jobs'[k].results = jobs[k].results
      BY <1>17, <2>4
    <3> QED
      BY <1>7, <2>1, <2>4, <3>1, <3>2 DEF TaskSteps, TaskTold, Silent
  <2> QED
    BY <2>3, <2>4
<1>22. OneWriter'
  <2> SUFFICES ASSUME NEW k \in DOMAIN jobs', NEW n \in DOMAIN jobs', NEW m \in DOMAIN jobs'[k].tasks,
                      NEW l \in DOMAIN jobs'[n].tasks, Task(k, m)'.pc = "writing"
               PROVE  /\ Task(k, m)'.read = records'
                      /\ Task(n, l)'.pc = "writing" => n = k /\ l = m
    BY DEF OneWriter
  <2>1. k \in DOMAIN jobs /\ m \in DOMAIN jobs[k].tasks /\ Task(k, m)' = Task(k, m)
    BY <1>7, <1>17
  <2>2. n \in DOMAIN jobs /\ l \in DOMAIN jobs[n].tasks
        /\ (Task(n, l)'.pc = "writing" => Task(n, l)' = Task(n, l))
    BY <1>7, <1>17
  <2> QED
    BY <1>1, <2>1, <2>2 DEF BatchInv, OneWriter
<1>23. OverRecorded'
  <2> SUFFICES ASSUME NEW k \in DOMAIN jobs', NEW m \in DOMAIN jobs'[k].tasks,
                      Task(k, m)'.pc = "over", jobs'[k].warning = FALSE
               PROVE  Exported(jobs'[k].results[m]) \subseteq Known(k, jobs[k].photos[m])'
    BY DEF OverRecorded
  <2>1. /\ k \in DOMAIN jobs /\ m \in DOMAIN jobs[k].tasks /\ Task(k, m)' = Task(k, m)
        /\ jobs'[k].photos = jobs[k].photos /\ jobs'[k].results = jobs[k].results
        /\ jobs'[k].warning = jobs[k].warning
    BY <1>7, <1>17
  <2> QED
    BY <1>1, <2>1 DEF BatchInv, OverRecorded, Known
<1>24. RecordsTrue'
  <2>1. ASSUME NEW k, NEW v, NEW q, NEW g, MadeFrom(k, v, q, g)
        PROVE  MadeFrom(k, v, q, g)'
    <3>1. k \in DOMAIN jobs' /\ jobs'[k].photos = jobs[k].photos /\ jobs'[k].grades = jobs[k].grades
      BY <1>13, <1>15, <2>1 DEF MadeFrom
    <3> QED
      BY <1>1, <2>1, <3>1 DEF MadeFrom
  <2> HIDE DEF MadeFrom
  <2> QED
    BY <1>1, <2>1 DEF BatchInv, RecordsTrue
<1>25. EndedStep
  BY <1>1, <1>3, <1>15 DEF EndedStep
<1> QED
  BY <1>18, <1>19, <1>20, <1>21, <1>22, <1>23, <1>24, <1>25 DEF BatchInv

\* Steps that leave the runner alone and only move the states of jobs.
LEMMA StatesOnly ==
  ASSUME BatchInv, StatesMove, runner' = runner, records' = records, files' = files,
         grade' \in [Photos -> Nat],
         \A k \in DOMAIN jobs : ~Ended(k) => jobs'[k].state \notin Terminal,
         \/ starting' = <<>>
         \/ /\ Len(Head(starting').photos) = Len(Head(starting').grades)
            /\ Head(starting').photos \in Seq(Photos) /\ Head(starting').grades \in Seq(Nat)
  PROVE  BatchInv' /\ EndedStep
<1>1. Types'
  BY DEF BatchInv, Types, StatesMove, IsJob
<1>2. RunnerOn'
  BY DEF BatchInv, RunnerOn, StatesMove, Busy, Ended
<1>3. Started'
  <2> SUFFICES ASSUME NEW k \in DOMAIN jobs', NEW m \in DOMAIN jobs'[k].tasks
               PROVE  /\ ~(Busy /\ runner.job = k) =>
                           \/ Task(k, m)'.pc = "over" /\ Ended(k)'
                           \/ Task(k, m)'.pc = "none" /\ jobs'[k].state # "finished"
                           \/ Task(k, m)'.pc = "none" /\ StopAsked(jobs'[k])
                      /\ Busy /\ runner.job = k => (Task(k, m)'.pc = "none" <=> m >= runner.next)
    BY DEF Started, Busy
  <2>1. /\ k \in DOMAIN jobs /\ m \in DOMAIN jobs[k].tasks /\ Task(k, m)' = Task(k, m)
        /\ StopAsked(jobs[k]) => StopAsked(jobs'[k])
        /\ Ended(k) => jobs'[k].state = jobs[k].state
    BY DEF StatesMove, Task
  <2>2. jobs'[k].state = "finished" => jobs[k].state = "finished"
    BY <2>1 DEF Terminal, Ended
  <2>3. Ended(k) => Ended(k)'
    BY <2>1 DEF Ended
  <2> QED
    BY <2>1, <2>2, <2>3 DEF BatchInv, Started
<1> QED
  BY <1>1, <1>2, <1>3, StatesKeep DEF BatchInv

\* Taking a Cancel back leaves its trace.
LEMMA controlKeeps ==
  ASSUME BatchInv, control
  PROVE  BatchInv' /\ EndedStep
<1>1. PICK j \in DOMAIN jobs, action \in DOMAIN NewState :
        /\ ~Ended(j)
        /\ jobs' = [jobs EXCEPT ![j].state = NewState[action],
                                ![j].recalled = @ \/ (jobs[j].state = "cancelling" /\ action # "cancel")]
  BY DEF control
<1>2. /\ starting' = starting /\ runner' = runner /\ records' = records /\ files' = files /\ grade' = grade
  BY DEF control
<1>3. PICK s, r : s = NewState[action] /\ r = (jobs[j].recalled \/ (jobs[j].state = "cancelling" /\ action # "cancel"))
  OBVIOUS
<1>4. Types /\ grade \in [Photos -> Nat]
  BY DEF BatchInv, Types
<1>5. jobs[j] \in JobFields /\ jobs[j].recalled \in BOOLEAN
  BY <1>4, JobFacts DEF JobFields
<1>6. s \in {"paused", "queued", "cancelling"} /\ (action = "cancel" => s = "cancelling")
  BY <1>3 DEF NewState
<1>7. /\ r \in BOOLEAN /\ (jobs[j].recalled = TRUE => r = TRUE)
      /\ (jobs[j].state = "cancelling" /\ action # "cancel" => r = TRUE)
  BY <1>3, <1>5
<1>8. PICK job : WithState(job, j, s, r)
  BY DEF WithState
<1>9. /\ IsJob(job) /\ job.state = s /\ job.recalled = r
      /\ job.photos = jobs[j].photos /\ job.grades = jobs[j].grades /\ job.tasks = jobs[j].tasks
      /\ job.results = jobs[j].results /\ job.warning = jobs[j].warning /\ job.crashed = jobs[j].crashed
  <2>1. s \in Due \cup Terminal \cup {"running", "paused"}
    BY <1>6 DEF Due
  <2> QED
    BY <1>4, <1>7, <1>8, <2>1, StateSet
<1>10. jobs' = [jobs EXCEPT ![j] = job]
  BY <1>1, <1>3, <1>5, <1>8 DEF WithState, JobFields
<1>11. /\ jobs' \in Seq(JobFields) /\ DOMAIN jobs' = DOMAIN jobs /\ jobs'[j] = job
       /\ \A k \in DOMAIN jobs : k # j => jobs'[k] = jobs[k]
  BY <1>4, <1>9, <1>10, JobReplaced
<1>12. StopAsked(jobs[j]) => StopAsked(job)
  BY <1>1, <1>6, <1>7, <1>9 DEF StopAsked, Ended, Terminal
<1>13. StatesMove
  <2> SUFFICES ASSUME NEW k \in DOMAIN jobs
               PROVE  /\ IsJob(jobs'[k]) /\ jobs'[k].photos = jobs[k].photos /\ jobs'[k].grades = jobs[k].grades
                      /\ jobs'[k].tasks = jobs[k].tasks /\ jobs'[k].results = jobs[k].results
                      /\ jobs'[k].warning = jobs[k].warning /\ jobs'[k].crashed = jobs[k].crashed
                      /\ StopAsked(jobs[k]) => StopAsked(jobs'[k])
                      /\ Ended(k) => jobs'[k].state = jobs[k].state
    BY <1>11 DEF StatesMove
  <2>1. CASE k = j
    BY <1>1, <1>9, <1>11, <1>12, <2>1
  <2>2. CASE k # j
    BY <1>4, <1>11, <2>2 DEF Types
  <2> QED
    BY <2>1, <2>2
<1>14. \A k \in DOMAIN jobs : ~Ended(k) => jobs'[k].state \notin Terminal
  BY <1>6, <1>9, <1>11 DEF Ended, Terminal
<1>15. \/ starting' = <<>>
       \/ /\ Len(Head(starting').photos) = Len(Head(starting').grades)
          /\ Head(starting').photos \in Seq(Photos) /\ Head(starting').grades \in Seq(Nat)
  BY <1>2, <1>4 DEF Types
<1> QED
  BY <1>2, <1>4, <1>13, <1>14, <1>15, StatesOnly

\* Closing cancels what has not ended.
LEMMA closeKeeps ==
  ASSUME BatchInv, close
  PROVE  BatchInv' /\ EndedStep
<1>1. /\ jobs' = [j \in DOMAIN jobs |-> IF Ended(j) THEN jobs[j] ELSE [jobs[j] EXCEPT !.state = "cancelling"]]
      /\ starting' = starting /\ runner' = runner /\ records' = records /\ files' = files /\ grade' = grade
  BY DEF close
<1>2. Types /\ grade \in [Photos -> Nat]
  BY DEF BatchInv, Types
<1>3. ASSUME NEW k \in DOMAIN jobs, ~Ended(k)
      PROVE  /\ IsJob(jobs'[k]) /\ jobs'[k].state = "cancelling"
             /\ jobs'[k].photos = jobs[k].photos /\ jobs'[k].grades = jobs[k].grades
             /\ jobs'[k].tasks = jobs[k].tasks /\ jobs'[k].results = jobs[k].results
             /\ jobs'[k].warning = jobs[k].warning /\ jobs'[k].crashed = jobs[k].crashed
             /\ StopAsked(jobs'[k])
  <2>1. jobs[k] \in JobFields /\ jobs[k].recalled \in BOOLEAN
    BY <1>2, JobFacts DEF JobFields
  <2>2. PICK s, r : s = "cancelling" /\ r = jobs[k].recalled
    OBVIOUS
  <2>3. s \in Due \cup Terminal \cup {"running", "paused"} /\ r \in BOOLEAN
    BY <2>1, <2>2 DEF Due
  <2>4. PICK job : WithState(job, k, s, r)
    BY DEF WithState
  <2>5. /\ IsJob(job) /\ job.state = s /\ job.recalled = r
        /\ job.photos = jobs[k].photos /\ job.grades = jobs[k].grades /\ job.tasks = jobs[k].tasks
        /\ job.results = jobs[k].results /\ job.warning = jobs[k].warning /\ job.crashed = jobs[k].crashed
    BY <1>2, <2>3, <2>4, StateSet
  <2>6. jobs'[k] = [jobs[k] EXCEPT !.state = "cancelling"]
    BY <1>1, <1>3
  <2>7. jobs'[k] = job
    BY <2>1, <2>2, <2>4, <2>6 DEF WithState, JobFields
  <2> QED
    BY <2>2, <2>5, <2>7 DEF StopAsked
<1>4. \A k \in DOMAIN jobs : Ended(k) => jobs'[k] = jobs[k] /\ IsJob(jobs'[k])
  BY <1>1, <1>2 DEF Types
<1>5. jobs' \in Seq(JobFields) /\ DOMAIN jobs' = DOMAIN jobs
  <2>1. DOMAIN jobs' = DOMAIN jobs
    BY <1>1
  <2>2. \A k \in DOMAIN jobs : jobs'[k] \in JobFields
    BY <1>3, <1>4 DEF IsJob
  <2>3. DOMAIN jobs = 1..Len(jobs) /\ Len(jobs) \in Nat
    BY <1>2 DEF Types
  <2>4. jobs' \in [1..Len(jobs) -> JobFields]
    <3>1. jobs' = [j \in 1..Len(jobs) |-> jobs'[j]]
      BY <1>1, <2>3
    <3> QED
      BY <2>2, <2>3, <3>1
  <2> QED
    BY <2>1, <2>3, <2>4
<1>6. StatesMove
  BY <1>3, <1>4, <1>5 DEF StatesMove
<1>7. \A k \in DOMAIN jobs : ~Ended(k) => jobs'[k].state \notin Terminal
  BY <1>3 DEF Terminal
<1>8. \/ starting' = <<>>
      \/ /\ Len(Head(starting').photos) = Len(Head(starting').grades)
         /\ Head(starting').photos \in Seq(Photos) /\ Head(starting').grades \in Seq(Nat)
  BY <1>1, <1>2 DEF Types
<1> QED
  BY <1>1, <1>2, <1>6, <1>7, <1>8, StatesOnly

\* Saving another grade, looking up the photos of a start, and a step that
\* changes nothing do not touch the jobs.
LEMMA OutsideKeeps ==
  ASSUME BatchInv, Edit \/ StartLookup \/ UNCHANGED vars
  PROVE  BatchInv' /\ EndedStep
<1>1. Types /\ grade \in [Photos -> Nat]
  BY DEF BatchInv, Types
<1>2. jobs' = jobs /\ runner' = runner /\ records' = records /\ files' = files
  BY DEF Edit, StartLookup, vars
<1>3. StatesMove /\ \A k \in DOMAIN jobs : ~Ended(k) => jobs'[k].state \notin Terminal
  BY <1>1, <1>2, JobsStay DEF Ended
<1>4. grade' \in [Photos -> Nat]
  BY <1>1 DEF Edit, StartLookup, vars
<1>5. \/ starting' = <<>>
      \/ /\ Len(Head(starting').photos) = Len(Head(starting').grades)
         /\ Head(starting').photos \in Seq(Photos) /\ Head(starting').grades \in Seq(Nat)
  <2>1. CASE StartLookup
    <3>1. PICK photos \in Requests :
            starting' = <<[photos |-> photos, grades |-> [i \in DOMAIN photos |-> grade[photos[i]]]]>>
      BY <2>1 DEF StartLookup
    <3>2. photos \in Seq(Photos)
      BY BatchAssumption
    <3> DEFINE grades == [i \in DOMAIN photos |-> grade[photos[i]]]
    <3>3. grades \in Seq(Nat) /\ Len(grades) = Len(photos)
      BY <1>1, <3>2
    <3>4. Head(starting').photos = photos /\ Head(starting').grades = grades
      BY <3>1
    <3> QED
      BY <3>2, <3>3, <3>4
  <2>2. CASE Edit \/ UNCHANGED vars
    BY <1>1, <2>2 DEF Edit, vars, Types
  <2> QED
    BY <2>1, <2>2
<1> QED
  BY <1>2, <1>3, <1>4, <1>5, StatesOnly

\* A new job has photos, and nothing shown or written yet.
LEMMA startKeeps ==
  ASSUME BatchInv, start
  PROVE  BatchInv' /\ EndedStep
<1> DEFINE n == Len(jobs) + 1
           photos == Head(starting).photos
           grades == Head(starting).grades
           job == Job(photos, grades)
<1>1. /\ starting # <<>> /\ jobs' = Append(jobs, job) /\ starting' = <<>>
      /\ runner' = runner /\ records' = records /\ files' = files /\ grade' = grade
  BY DEF start
<1>2. Types /\ RunnerOn /\ Started
  BY DEF BatchInv
<1>3. photos \in Seq(Photos) /\ grades \in Seq(Nat) /\ Len(photos) = Len(grades)
  BY <1>1, <1>2 DEF Types
<1> HIDE DEF photos, grades
<1>4. /\ job.state = "queued" /\ job.photos = photos /\ job.grades = grades
      /\ job.tasks = [i \in DOMAIN photos |-> Idle] /\ job.results = [i \in DOMAIN photos |-> <<>>]
      /\ job.recalled = FALSE
  BY DEF Job
<1>5. IsJob(job)
  <2>1. job.tasks \in Seq(TaskType) /\ Len(job.tasks) = Len(photos)
    <3>1. Idle \in TaskType
      BY BlankTask
    <3>2. job.tasks \in [1..Len(photos) -> TaskType] /\ Len(photos) \in Nat
      BY <1>3, <1>4, <3>1
    <3> QED
      BY <3>2
  <2>2. <<>> \in Rows
    BY DEF Rows
  <2>3. job.results \in Seq(Rows) /\ Len(job.results) = Len(photos)
    BY <1>3, <1>4, <2>2
  <2>4. job \in JobFields
    BY <1>3, <1>4, <2>1, <2>3 DEF Job, JobFields, Due
  <2> QED
    BY <1>3, <1>4, <2>1, <2>3, <2>4 DEF IsJob
<1> HIDE DEF job
<1>6. /\ jobs' \in Seq(JobFields) /\ DOMAIN jobs' = DOMAIN jobs \cup {n} /\ n \notin DOMAIN jobs
      /\ jobs'[n] = job /\ \A k \in DOMAIN jobs : jobs'[k] = jobs[k]
  <2>1. job \in JobFields /\ jobs \in Seq(JobFields)
    BY <1>2, <1>5 DEF IsJob, Types
  <2> QED
    BY <1>1, <2>1
<1> HIDE DEF n
<1>7. ASSUME NEW k \in DOMAIN jobs', NEW m \in DOMAIN jobs'[k].tasks
      PROVE  \/ k \in DOMAIN jobs /\ m \in DOMAIN jobs[k].tasks /\ jobs'[k] = jobs[k] /\ Task(k, m)' = Task(k, m)
             \/ k = n /\ jobs'[k] = job /\ Task(k, m)' = Idle /\ job.results[m] = <<>>
  BY <1>3, <1>4, <1>6 DEF Task
<1>8. Types'
  BY <1>1, <1>2, <1>5, <1>6 DEF Types, IsJob
<1>9. RunnerOn'
  BY <1>1, <1>2, <1>6 DEF RunnerOn, Busy, Ended
<1>10. Started'
  <2> SUFFICES ASSUME NEW k \in DOMAIN jobs', NEW m \in DOMAIN jobs'[k].tasks
               PROVE  /\ ~(Busy /\ runner.job = k) =>
                           \/ Task(k, m)'.pc = "over" /\ Ended(k)'
                           \/ Task(k, m)'.pc = "none" /\ jobs'[k].state # "finished"
                           \/ Task(k, m)'.pc = "none" /\ StopAsked(jobs'[k])
                      /\ Busy /\ runner.job = k => (Task(k, m)'.pc = "none" <=> m >= runner.next)
    BY <1>1 DEF Started, Busy
  <2>1. CASE k \in DOMAIN jobs /\ m \in DOMAIN jobs[k].tasks /\ jobs'[k] = jobs[k] /\ Task(k, m)' = Task(k, m)
    BY <1>2, <2>1 DEF Started, Ended
  <2>2. CASE k = n /\ jobs'[k] = job /\ Task(k, m)' = Idle
    BY <1>2, <1>4, <1>6, <2>2 DEF RunnerOn, Idle
  <2> QED
    BY <1>7, <2>1, <2>2
<1>11. TasksTell'
  <2> SUFFICES ASSUME NEW k \in DOMAIN jobs', NEW m \in DOMAIN jobs'[k].tasks
               PROVE  /\ TaskSteps(jobs[k], Task(k, m), jobs[k].results[m], Published(k, m))'
                      /\ TaskTold(jobs[k], Task(k, m), jobs[k].results[m], Published(k, m))'
    BY DEF TasksTell
  <2>1. Published(k, m)' = Published(k, m)
    BY <1>1 DEF Published
  <2>2. CASE k \in DOMAIN jobs /\ m \in DOMAIN jobs[k].tasks /\ jobs'[k] = jobs[k] /\ Task(k, m)' = Task(k, m)
    <3>1. /\ TaskSteps(jobs[k], Task(k, m), jobs[k].results[m], Published(k, m))
          /\ TaskTold(jobs[k], Task(k, m), jobs[k].results[m], Published(k, m))
      BY <2>2, TaskSays
    <3> QED
      BY <2>1, <2>2, <3>1
  <2>3. CASE k = n /\ jobs'[k] = job /\ Task(k, m)' = Idle /\ job.results[m] = <<>>
    <3>1. Published(k, m) = {}
      BY <1>2, <1>6, <2>3 DEF Types, Published
    <3> QED
      BY <2>1, <2>3, <3>1 DEF TaskSteps, TaskTold, Silent, Idle
  <2> QED
    BY <1>7, <2>2, <2>3
<1>12. OneWriter'
  <2> SUFFICES ASSUME NEW k \in DOMAIN jobs', NEW l \in DOMAIN jobs', NEW m \in DOMAIN jobs'[k].tasks,
                      NEW o \in DOMAIN jobs'[l].tasks, Task(k, m)'.pc = "writing"
               PROVE  /\ Task(k, m)'.read = records'
                      /\ Task(l, o)'.pc = "writing" => l = k /\ o = m
    BY DEF OneWriter
  <2>1. k \in DOMAIN jobs /\ m \in DOMAIN jobs[k].tasks /\ Task(k, m)' = Task(k, m)
    BY <1>7 DEF Idle
  <2>2. Task(l, o)'.pc = "writing" => l \in DOMAIN jobs /\ o \in DOMAIN jobs[l].tasks /\ Task(l, o)' = Task(l, o)
    BY <1>7 DEF Idle
  <2> QED
    BY <1>1, <2>1, <2>2 DEF BatchInv, OneWriter
<1>13. OverRecorded'
  <2> SUFFICES ASSUME NEW k \in DOMAIN jobs', NEW m \in DOMAIN jobs'[k].tasks,
                      Task(k, m)'.pc = "over", jobs'[k].warning = FALSE
               PROVE  Exported(jobs'[k].results[m]) \subseteq Known(k, jobs[k].photos[m])'
    BY DEF OverRecorded
  <2>1. k \in DOMAIN jobs /\ m \in DOMAIN jobs[k].tasks /\ jobs'[k] = jobs[k] /\ Task(k, m)' = Task(k, m)
    BY <1>7 DEF Idle
  <2> QED
    BY <1>1, <2>1 DEF BatchInv, OverRecorded, Known
<1>14. RecordsTrue'
  <2>1. ASSUME NEW k, NEW v, NEW q, NEW g, MadeFrom(k, v, q, g)
        PROVE  MadeFrom(k, v, q, g)'
    BY <1>1, <1>6, <2>1 DEF MadeFrom
  <2> QED
    BY <1>1, <2>1 DEF BatchInv, RecordsTrue
<1>15. EndedStep
  BY <1>1, <1>6 DEF EndedStep
<1> QED
  BY <1>8, <1>9, <1>10, <1>11, <1>12, <1>13, <1>14, <1>15 DEF BatchInv

\* A job whose workers are terminated has theirs crashed, and is marked.
CrashedTask(task) == [task EXCEPT !.pc = "crashed"]

\* It keeps its shape; only the tasks with a worker change.
LEMMA KilledFacts ==
  ASSUME Types, NEW j \in DOMAIN jobs, NEW job, job = Killed(jobs[j])
  PROVE  /\ IsJob(job) /\ job.state = jobs[j].state /\ job.photos = jobs[j].photos
         /\ job.grades = jobs[j].grades /\ job.results = jobs[j].results
         /\ job.warning = jobs[j].warning /\ job.recalled = jobs[j].recalled
         /\ DOMAIN job.tasks = DOMAIN jobs[j].tasks
         /\ jobs[j].crashed = TRUE => job.crashed = TRUE
         /\ \A i \in DOMAIN jobs[j].tasks :
              IF Task(j, i).pc = "worker"
              THEN job.tasks[i] = CrashedTask(Task(j, i)) /\ job.crashed = TRUE
              ELSE job.tasks[i] = Task(j, i)
<1> DEFINE hit == {i \in DOMAIN jobs[j].tasks : jobs[j].tasks[i].pc = "worker"}
           tasks == [i \in DOMAIN jobs[j].tasks |->
                       IF i \in hit THEN [jobs[j].tasks[i] EXCEPT !.pc = "crashed"] ELSE jobs[j].tasks[i]]
<1>1. PICK crashed : crashed = (jobs[j].crashed \/ hit # {})
  OBVIOUS
<1>2. jobs[j] \in JobFields /\ IsJob(jobs[j]) /\ jobs[j].tasks \in Seq(TaskType) /\ jobs[j].crashed \in BOOLEAN
  BY JobFacts DEF JobFields
<1>3. crashed \in BOOLEAN /\ (jobs[j].crashed = TRUE => crashed = TRUE) /\ (hit # {} => crashed = TRUE)
  BY <1>1, <1>2
<1>4. job = [jobs[j] EXCEPT !.tasks = tasks, !.crashed = crashed]
  BY <1>1, <1>2 DEF Killed, JobFields
<1>5. \A i \in DOMAIN jobs[j].tasks :
        [jobs[j].tasks[i] EXCEPT !.pc = "crashed"] \in TaskType /\ jobs[j].tasks[i] \in TaskType
  <2> SUFFICES ASSUME NEW i \in DOMAIN jobs[j].tasks
               PROVE  [jobs[j].tasks[i] EXCEPT !.pc = "crashed"] \in TaskType /\ jobs[j].tasks[i] \in TaskType
    OBVIOUS
  <2>1. jobs[j].tasks[i] \in TaskType
    BY <1>2
  <2> QED
    BY <2>1 DEF TaskType
<1>6. tasks \in Seq(TaskType) /\ Len(tasks) = Len(jobs[j].tasks) /\ DOMAIN tasks = DOMAIN jobs[j].tasks
  <2>1. DOMAIN jobs[j].tasks = 1..Len(jobs[j].tasks) /\ Len(jobs[j].tasks) \in Nat
    BY <1>2
  <2>2. \A i \in DOMAIN jobs[j].tasks : tasks[i] \in TaskType
    BY <1>5
  <2>3. tasks \in [1..Len(jobs[j].tasks) -> TaskType] /\ DOMAIN tasks = DOMAIN jobs[j].tasks
    BY <2>1, <2>2
  <2> HIDE DEF tasks
  <2> QED
    BY <2>1, <2>3
<1>7. \A i \in DOMAIN jobs[j].tasks :
        IF Task(j, i).pc = "worker"
        THEN tasks[i] = CrashedTask(Task(j, i)) /\ hit # {}
        ELSE tasks[i] = Task(j, i)
  BY DEF Task, CrashedTask
<1> HIDE DEF tasks, hit
<1>8. /\ job \in JobFields /\ job.tasks = tasks /\ job.state = jobs[j].state /\ job.photos = jobs[j].photos
      /\ job.grades = jobs[j].grades /\ job.recalled = jobs[j].recalled /\ job.results = jobs[j].results
      /\ job.warning = jobs[j].warning /\ job.crashed = crashed
  BY <1>2, <1>3, <1>4, <1>6 DEF JobFields
<1>9. IsJob(job)
  BY <1>2, <1>6, <1>8 DEF IsJob
<1> QED
  BY <1>3, <1>6, <1>7, <1>8, <1>9

\* Workers that are terminated leave what they have published.
LEMMA TerminateKeeps ==
  ASSUME BatchInv, Terminate
  PROVE  BatchInv' /\ EndedStep
<1>1. /\ jobs' = [j \in DOMAIN jobs |-> Killed(jobs[j])] /\ starting' = starting
      /\ runner' = runner /\ records' = records /\ files' = files /\ grade' = grade
  BY DEF Terminate
<1>2. Types /\ RunnerOn /\ Started
  BY DEF BatchInv
<1>3. DOMAIN jobs' = DOMAIN jobs /\ \A k \in DOMAIN jobs : jobs'[k] = Killed(jobs[k])
  BY <1>1
<1>4. ASSUME NEW k \in DOMAIN jobs
      PROVE  /\ IsJob(jobs'[k]) /\ jobs'[k].state = jobs[k].state /\ jobs'[k].photos = jobs[k].photos
             /\ jobs'[k].grades = jobs[k].grades /\ jobs'[k].results = jobs[k].results
             /\ jobs'[k].warning = jobs[k].warning /\ jobs'[k].recalled = jobs[k].recalled
             /\ DOMAIN jobs'[k].tasks = DOMAIN jobs[k].tasks
             /\ jobs[k].crashed = TRUE => jobs'[k].crashed = TRUE
             /\ StopAsked(jobs'[k]) <=> StopAsked(jobs[k])
  BY <1>2, <1>3, KilledFacts DEF StopAsked
<1>5. ASSUME NEW k \in DOMAIN jobs', NEW m \in DOMAIN jobs'[k].tasks
      PROVE  /\ k \in DOMAIN jobs /\ m \in DOMAIN jobs[k].tasks
             /\ Task(k, m).pc = "worker" =>
                  /\ Task(k, m)'.pc = "crashed" /\ jobs'[k].crashed = TRUE
                  /\ Task(k, m)'.progress = Task(k, m).progress /\ Task(k, m)'.cancel = Task(k, m).cancel
             /\ Task(k, m).pc # "worker" => Task(k, m)' = Task(k, m)
  <2>1. k \in DOMAIN jobs
    BY <1>3
  <2>2. m \in DOMAIN jobs[k].tasks
    BY <1>4, <2>1
  <2>3. IF Task(k, m).pc = "worker"
        THEN jobs'[k].tasks[m] = CrashedTask(Task(k, m)) /\ jobs'[k].crashed = TRUE
        ELSE jobs'[k].tasks[m] = Task(k, m)
    BY <1>2, <1>3, <2>1, <2>2, KilledFacts
  <2>4. PICK x : x = CrashedTask(Task(k, m))
    OBVIOUS
  <2>5. x.pc = "crashed" /\ x.progress = Task(k, m).progress /\ x.cancel = Task(k, m).cancel
    BY <1>2, <2>1, <2>2, <2>4, TaskFacts DEF TaskType, CrashedTask
  <2>6. Task(k, m)' = jobs'[k].tasks[m]
    BY DEF Task
  <2> QED
    BY <2>1, <2>2, <2>3, <2>4, <2>5, <2>6
<1>6. jobs' \in Seq(JobFields)
  <2>1. DOMAIN jobs = 1..Len(jobs) /\ Len(jobs) \in Nat
    BY <1>2 DEF Types
  <2>2. \A k \in DOMAIN jobs : jobs'[k] \in JobFields
    BY <1>4 DEF IsJob
  <2>3. jobs' = [k \in 1..Len(jobs) |-> jobs'[k]]
    BY <1>1, <2>1
  <2>4. jobs' \in [1..Len(jobs) -> JobFields]
    BY <2>1, <2>2, <2>3
  <2> QED
    BY <2>1, <2>4
<1>7. Types'
  BY <1>1, <1>2, <1>3, <1>4, <1>6 DEF Types, IsJob
<1>8. RunnerOn'
  BY <1>1, <1>2, <1>3, <1>4 DEF RunnerOn, Busy, Ended
<1>9. Started'
  <2> SUFFICES ASSUME NEW k \in DOMAIN jobs', NEW m \in DOMAIN jobs'[k].tasks
               PROVE  /\ ~(Busy /\ runner.job = k) =>
                           \/ Task(k, m)'.pc = "over" /\ Ended(k)'
                           \/ Task(k, m)'.pc = "none" /\ jobs'[k].state # "finished"
                           \/ Task(k, m)'.pc = "none" /\ StopAsked(jobs'[k])
                      /\ Busy /\ runner.job = k => (Task(k, m)'.pc = "none" <=> m >= runner.next)
    BY <1>1 DEF Started, Busy
  <2>1. /\ k \in DOMAIN jobs /\ m \in DOMAIN jobs[k].tasks
        /\ Task(k, m).pc # "worker" => Task(k, m)' = Task(k, m)
        /\ Task(k, m).pc = "worker" => Task(k, m)'.pc = "crashed"
    BY <1>5
  <2>2. /\ jobs'[k].state = jobs[k].state /\ Ended(k)' = Ended(k)
        /\ StopAsked(jobs'[k]) <=> StopAsked(jobs[k])
    BY <1>4, <2>1 DEF Ended
  <2> QED
    BY <1>2, <2>1, <2>2 DEF Started
<1>10. TasksTell'
  <2> SUFFICES ASSUME NEW k \in DOMAIN jobs', NEW m \in DOMAIN jobs'[k].tasks
               PROVE  /\ TaskSteps(jobs[k], Task(k, m), jobs[k].results[m], Published(k, m))'
                      /\ TaskTold(jobs[k], Task(k, m), jobs[k].results[m], Published(k, m))'
    BY DEF TasksTell
  <2>1. /\ k \in DOMAIN jobs /\ m \in DOMAIN jobs[k].tasks
        /\ Task(k, m).pc = "worker" =>
             /\ Task(k, m)'.pc = "crashed" /\ jobs'[k].crashed = TRUE
             /\ Task(k, m)'.progress = Task(k, m).progress /\ Task(k, m)'.cancel = Task(k, m).cancel
        /\ Task(k, m).pc # "worker" => Task(k, m)' = Task(k, m)
    BY <1>5
  <2>2. /\ jobs'[k].results = jobs[k].results
        /\ StopAsked(jobs'[k]) <=> StopAsked(jobs[k])
        /\ jobs[k].crashed = TRUE => jobs'[k].crashed = TRUE
    BY <1>4, <2>1
  <2>3. Published(k, m)' = Published(k, m)
    BY <1>1 DEF Published
  <2>4. /\ TaskSteps(jobs[k], Task(k, m), jobs[k].results[m], Published(k, m))
        /\ TaskTold(jobs[k], Task(k, m), jobs[k].results[m], Published(k, m))
        /\ Task(k, m) \in TaskType
    BY <2>1, TaskSays
  <2>5. CASE Task(k, m).pc # "worker"
    BY <2>1, <2>2, <2>3, <2>4, <2>5 DEF TaskSteps, TaskTold, Silent
  <2>6. CASE Task(k, m).pc = "worker"
    <3>1. /\ Exported(Task(k, m).progress) \subseteq Published(k, m)
          /\ Exported(jobs[k].results[m]) \subseteq Published(k, m)
          /\ Task(k, m).cancel = TRUE => StopAsked(jobs[k])
      BY <2>1, <2>6, WorkerSays
    <3>2. /\ Task(k, m)'.pc = "crashed" /\ jobs'[k].crashed = TRUE
          /\ Task(k, m)'.progress = Task(k, m).progress /\ Task(k, m)'.cancel = Task(k, m).cancel
      BY <2>1, <2>6
    <3> QED
      BY <2>2, <2>3, <3>1, <3>2 DEF TaskSteps, TaskTold
  <2> QED
    BY <2>5, <2>6
<1>11. OneWriter'
  <2> SUFFICES ASSUME NEW k \in DOMAIN jobs', NEW n \in DOMAIN jobs', NEW m \in DOMAIN jobs'[k].tasks,
                      NEW l \in DOMAIN jobs'[n].tasks, Task(k, m)'.pc = "writing"
               PROVE  /\ Task(k, m)'.read = records'
                      /\ Task(n, l)'.pc = "writing" => n = k /\ l = m
    BY DEF OneWriter
  <2>1. k \in DOMAIN jobs /\ m \in DOMAIN jobs[k].tasks /\ Task(k, m)' = Task(k, m)
    BY <1>5
  <2>2. n \in DOMAIN jobs /\ l \in DOMAIN jobs[n].tasks
        /\ (Task(n, l)'.pc = "writing" => Task(n, l)' = Task(n, l))
    BY <1>5
  <2> QED
    BY <1>1, <2>1, <2>2 DEF BatchInv, OneWriter
<1>12. OverRecorded'
  <2> SUFFICES ASSUME NEW k \in DOMAIN jobs', NEW m \in DOMAIN jobs'[k].tasks,
                      Task(k, m)'.pc = "over", jobs'[k].warning = FALSE
               PROVE  Exported(jobs'[k].results[m]) \subseteq Known(k, jobs[k].photos[m])'
    BY DEF OverRecorded
  <2>1. k \in DOMAIN jobs /\ m \in DOMAIN jobs[k].tasks /\ Task(k, m)' = Task(k, m)
    BY <1>5
  <2>2. jobs'[k].results = jobs[k].results /\ jobs'[k].warning = jobs[k].warning
        /\ jobs'[k].photos = jobs[k].photos
    BY <1>4, <2>1
  <2> QED
    BY <1>1, <2>1, <2>2 DEF BatchInv, OverRecorded, Known
<1>13. RecordsTrue'
  <2>1. ASSUME NEW k, NEW v, NEW q, NEW g, MadeFrom(k, v, q, g)
        PROVE  MadeFrom(k, v, q, g)'
    <3>1. k \in DOMAIN jobs' /\ jobs'[k].photos = jobs[k].photos /\ jobs'[k].grades = jobs[k].grades
      BY <1>3, <1>4, <2>1 DEF MadeFrom
    <3> QED
      BY <1>1, <2>1, <3>1 DEF MadeFrom
  <2> QED
    BY <1>1, <2>1 DEF BatchInv, RecordsTrue
<1>14. EndedStep
  BY <1>1, <1>4 DEF EndedStep
<1> QED
  BY <1>7, <1>8, <1>9, <1>10, <1>11, <1>12, <1>13, <1>14 DEF BatchInv

-----------------------------------------------------------------------------
\* Nothing is queued, exported or recorded at first.
LEMMA InitHolds == Init => BatchInv
<1> SUFFICES ASSUME Init PROVE BatchInv
  OBVIOUS
<1>1. /\ jobs = <<>> /\ starting = <<>> /\ runner = [pc |-> "waiting", job |-> 0, next |-> 1]
      /\ records = NoRecords /\ files = {} /\ grade = [p \in Photos |-> 0]
  BY DEF Init
<1>2. DOMAIN jobs = {} /\ jobs \in Seq(JobFields)
  BY <1>1
<1>3. records \in RecordType /\ \A p \in Photos : records[p].grade = NotExported
  BY <1>1 DEF NoRecords, RecordType
<1>4. Types
  BY <1>1, <1>2, <1>3 DEF Types
<1>5. RunnerOn /\ Started /\ TasksTell /\ OneWriter /\ OverRecorded /\ RecordsTrue
  BY <1>1, <1>2, <1>3 DEF RunnerOn, Busy, Started, TasksTell, OneWriter, OverRecorded, RecordsTrue
<1> QED
  BY <1>4, <1>5 DEF BatchInv

\* Every step keeps the invariant, and the jobs that have ended.
LEMMA StepKeeps == BatchInv /\ [Next]_vars => BatchInv' /\ EndedStep
<1> SUFFICES ASSUME BatchInv, [Next]_vars PROVE BatchInv' /\ EndedStep
  OBVIOUS
<1>1. CASE start \/ control \/ close \/ Terminate
  BY <1>1, startKeeps, controlKeeps, closeKeeps, TerminateKeeps
<1>2. CASE StartLookup \/ Edit \/ UNCHANGED vars
  BY <1>2, OutsideKeeps
<1>3. CASE RunnerStep
  BY <1>3, TakeJobKeeps, RunnerEndsKeeps, LaunchKeeps, LaunchEndsKeeps, JoinKeeps DEF RunnerStep
<1>4. CASE \E t \in Tasks : TaskStep(t[1], t[2]) \/ ReadProgress(t[1], t[2]) \/ TaskFault(t[1], t[2])
  BY <1>4, TasksKeep
<1> QED
  BY <1>1, <1>2, <1>3, <1>4 DEF Next

\* The invariant of the queue, its runner, its workers and the export record.
THEOREM BatchInvariant == Spec => []BatchInv
<1>1. Init => BatchInv
  BY InitHolds
<1>2. BatchInv /\ [Next]_vars => BatchInv'
  BY StepKeeps
<1> QED
  BY <1>1, <1>2, PTL DEF Spec

\* A task of a job that has ended is over, or was never started.
LEMMA EndedTasks ==
  ASSUME BatchInv, NEW j \in DOMAIN jobs, Ended(j), NEW i \in DOMAIN jobs[j].tasks
  PROVE  \/ Task(j, i).pc = "over"
         \/ Task(j, i).pc = "none" /\ (jobs[j].state # "finished" \/ StopAsked(jobs[j]))
BY DEF BatchInv, RunnerOn, Started

\* A finished job tells of every photo in every version what became of it, unless
\* a Cancel of it was taken back (batch_export.py _run_job, one, _subprocess).
THEOREM FinishedJobsAreComplete == Spec => []FinishedIsComplete
<1>1. BatchInv => FinishedIsComplete
  <2> SUFFICES ASSUME BatchInv, NEW j \in DOMAIN jobs, jobs[j].state = "finished", ~jobs[j].recalled,
                      NEW i \in DOMAIN jobs[j].results
               PROVE  Len(jobs[j].results[i]) = Versions
    BY DEF FinishedIsComplete
  <2>1. Ended(j)
    BY DEF Ended, Terminal
  <2>2. i \in DOMAIN jobs[j].tasks
    BY JobFacts DEF BatchInv
  <2>3. ~StopAsked(jobs[j])
    <3>1. ~(jobs[j].recalled = TRUE)
      OBVIOUS
    <3> QED
      BY <3>1 DEF StopAsked
  <2>4. Task(j, i).pc = "over"
    BY <2>1, <2>2, <2>3, EndedTasks
  <2> QED
    BY <2>2, <2>3, <2>4, TaskSays DEF TaskTold
<1> QED
  BY <1>1, BatchInvariant, PTL

\* What a job reports as exported is there; and what an ended job wrote is
\* reported, unless a worker of it died (_progress, _subprocess, export_photo).
THEOREM ReportsMatchFiles == Spec => []ResultsAreFiles
<1>1. BatchInv => ResultsAreFiles
  <2> SUFFICES ASSUME BatchInv, NEW j \in DOMAIN jobs, NEW i \in DOMAIN jobs[j].results
               PROVE  /\ Reported(j, i) \subseteq Published(j, i)
                      /\ Ended(j) /\ ~jobs[j].crashed => Reported(j, i) = Published(j, i)
    BY DEF ResultsAreFiles
  <2>1. i \in DOMAIN jobs[j].tasks
    BY JobFacts DEF BatchInv
  <2>2. /\ TaskSteps(jobs[j], Task(j, i), jobs[j].results[i], Published(j, i))
        /\ TaskTold(jobs[j], Task(j, i), jobs[j].results[i], Published(j, i))
        /\ Task(j, i) \in TaskType
    BY <2>1, TaskSays
  <2>3. Task(j, i).pc \in {"none", "spawning", "worker", "ended", "crashed", "refused", "recording",
                           "writing", "over"}
    BY <2>2 DEF TaskType
  <2>4. CASE Task(j, i).pc \in {"none", "spawning", "refused"}
    BY <2>2, <2>4, NothingExported DEF TaskSteps, Reported
  <2>5. CASE Task(j, i).pc = "worker"
    BY <2>1, <2>5, UnderWay, WorkerSays DEF Reported
  <2>6. CASE Task(j, i).pc \in {"ended", "crashed", "recording", "writing"}
    BY <2>1, <2>2, <2>6, UnderWay DEF TaskTold, Reported
  <2>7. CASE Task(j, i).pc = "over"
    <3>1. ~jobs[j].crashed => ~(jobs[j].crashed = TRUE)
      OBVIOUS
    <3> QED
      BY <2>2, <2>7, <3>1 DEF TaskTold, Reported
  <2> QED
    BY <2>3, <2>4, <2>5, <2>6, <2>7
<1> QED
  BY <1>1, BatchInvariant, PTL

\* When a job has ended, each file it reports is in the record of its photo,
\* unless the job warns (_record, one).
THEOREM ReportsAreRecorded == Spec => []ExportsRecorded
<1>1. BatchInv => ExportsRecorded
  <2> SUFFICES ASSUME BatchInv, NEW j \in DOMAIN jobs, Ended(j), ~jobs[j].warning,
                      NEW i \in DOMAIN jobs[j].results, NEW v \in Reported(j, i)
               PROVE  <<j, v>> \in records[jobs[j].photos[i]].files \cup records[jobs[j].photos[i]].history
    BY DEF ExportsRecorded
  <2>1. i \in DOMAIN jobs[j].tasks
    BY JobFacts DEF BatchInv
  <2>2. Task(j, i).pc # "none"
    <3>1. Task(j, i).pc = "none" => jobs[j].results[i] = <<>>
      BY <2>1, TaskSays DEF TaskSteps
    <3> QED
      BY <3>1, NothingExported DEF Reported
  <2>3. Task(j, i).pc = "over"
    BY <2>1, <2>2, EndedTasks
  <2>4. jobs[j].warning = FALSE
    <3>1. jobs[j].warning \in BOOLEAN
      BY JobFacts DEF BatchInv, JobFields
    <3> QED
      BY <3>1
  <2>5. v \in Known(j, jobs[j].photos[i])
    BY <2>1, <2>3, <2>4 DEF BatchInv, OverRecorded, Reported
  <2> QED
    BY <2>5 DEF Known
<1> QED
  BY <1>1, BatchInvariant, PTL

\* What a job tells the user is on disk and in the records (_record, one).
THEOREM ReportsAreKept == Spec => []ReportsKept
<1>1. ResultsAreFiles /\ ExportsRecorded => ReportsKept
  BY DEF ReportsKept
<1> QED
  BY <1>1, ReportsMatchFiles, ReportsAreRecorded, PTL

\* A photo that counts as not edited since its last export has files, made from
\* the grade it has now (_record, edited_after_export).
THEOREM UneditedPhotosAreExported == Spec => []UneditedIsExported
<1>1. BatchInv => UneditedIsExported
  <2> SUFFICES ASSUME BatchInv, NEW p \in Photos, records[p].grade = grade[p]
               PROVE  /\ records[p].files # {}
                      /\ \A entry \in records[p].files :
                           \E i \in DOMAIN jobs[entry[1]].photos :
                             /\ jobs[entry[1]].photos[i] = p /\ jobs[entry[1]].grades[i] = grade[p]
                             /\ <<entry[1], i, entry[2]>> \in files
    BY DEF UneditedIsExported
  <2>1. grade[p] \in Nat /\ records \in RecordType
    BY DEF BatchInv, Types
  <2>2. records[p].grade # NotExported
    BY <2>1 DEF NotExported
  <2>3. /\ records[p].files # {}
        /\ \A j, v : <<j, v>> \in records[p].files => MadeFrom(j, v, p, records[p].grade)
    BY <2>2 DEF BatchInv, RecordsTrue
  <2>4. ASSUME NEW entry \in records[p].files
        PROVE  MadeFrom(entry[1], entry[2], p, grade[p])
    <3>1. records[p].files \subseteq Nat \X Nat
      BY <2>1 DEF RecordType
    <3>2. entry = <<entry[1], entry[2]>>
      BY <3>1
    <3> QED
      BY <2>3, <3>2
  <2> QED
    BY <2>3, <2>4 DEF MadeFrom
<1> QED
  BY <1>1, BatchInvariant, PTL

\* No worker writes and no late answer changes anything of a job that has ended
\* (_run_job joins its threads before it ends).
THEOREM EndedJobsAreFinal == Spec => EndedIsFinal
<1>1. BatchInv /\ [Next]_vars =>
        [\A j \in DOMAIN jobs : Ended(j) =>
           /\ jobs'[j].state = jobs[j].state /\ jobs'[j].results = jobs[j].results
           /\ {f \in files' : f[1] = j} = {f \in files : f[1] = j}]_vars
  BY StepKeeps DEF EndedStep
<1> QED
  BY <1>1, BatchInvariant, PTL DEF Spec, EndedIsFinal

-----------------------------------------------------------------------------
\* The workers are bounded: a photo counts as running exactly while its worker
\* is not answered for, and no more count than may run at once. With it the
\* types that BatchInv did not need.
RunningInv ==
  \A j \in DOMAIN jobs :
    /\ jobs[j].running = {i \in DOMAIN jobs[j].tasks : Task(j, i).pc \in Unanswered}
    /\ IsFiniteSet(jobs[j].running) /\ Cardinality(jobs[j].running) <= Parallel

AskedFor ==
  /\ \A j \in DOMAIN jobs : jobs[j].photos \in Requests
  /\ starting = <<>> \/ Head(starting).photos \in Requests
  /\ Busy => runner.next <= Len(jobs[runner.job].photos) + 1
  /\ files \subseteq (DOMAIN jobs) \X Nat \X (1..Versions)
  /\ closing \in {"no", "marked", "killed"} /\ left \in Budget

WorkersInv == RunningInv /\ AskedFor

\* A step that starts no worker and takes the answer of none.
NoneAnswered ==
  /\ DOMAIN jobs' = DOMAIN jobs
  /\ \A k \in DOMAIN jobs :
       /\ jobs'[k].running = jobs[k].running /\ jobs'[k].photos = jobs[k].photos
       /\ DOMAIN jobs'[k].tasks = DOMAIN jobs[k].tasks
       /\ \A m \in DOMAIN jobs[k].tasks : jobs'[k].tasks[m].pc \in Unanswered <=> Task(k, m).pc \in Unanswered

\* Such a step keeps the count.
LEMMA NoneAnsweredKeeps ==
  ASSUME RunningInv, NoneAnswered
  PROVE  RunningInv'
<1> SUFFICES ASSUME NEW k \in DOMAIN jobs'
             PROVE  /\ jobs'[k].running = {m \in DOMAIN jobs'[k].tasks : Task(k, m)'.pc \in Unanswered}
                    /\ IsFiniteSet(jobs'[k].running) /\ Cardinality(jobs'[k].running) <= Parallel
  BY DEF RunningInv
<1>1. /\ k \in DOMAIN jobs /\ jobs'[k].running = jobs[k].running
      /\ DOMAIN jobs'[k].tasks = DOMAIN jobs[k].tasks
      /\ \A m \in DOMAIN jobs[k].tasks : jobs'[k].tasks[m].pc \in Unanswered <=> Task(k, m).pc \in Unanswered
  BY DEF NoneAnswered
<1>2. /\ jobs[k].running = {m \in DOMAIN jobs[k].tasks : Task(k, m).pc \in Unanswered}
      /\ IsFiniteSet(jobs[k].running) /\ Cardinality(jobs[k].running) <= Parallel
  BY <1>1 DEF RunningInv
<1>3. \A m : Task(k, m)' = jobs'[k].tasks[m]
  BY DEF Task
<1> QED
  BY <1>1, <1>2, <1>3

\* A budget stays one.
LEMMA SpendKeeps ==
  ASSUME left \in Budget, NEW what \in {"jobs", "controls", "edits", "faults", "closes"}, Spend(what)
  PROVE  left' \in Budget
BY DEF Spend, Budget, MaxJobs

\* A step that sets one task: the others and what runs stay.
LEMMA SetTaskAnswers ==
  ASSUME Types, NEW j \in DOMAIN jobs, NEW i \in DOMAIN jobs[j].tasks, NEW x, SetTask(j, i, x),
         x.pc \in Unanswered <=> Task(j, i).pc \in Unanswered
  PROVE  NoneAnswered
<1> DEFINE tasks == [jobs[j].tasks EXCEPT ![i] = x]
           job == [jobs[j] EXCEPT !.tasks = tasks]
<1>1. jobs[j] \in JobFields /\ jobs \in Seq(JobFields) /\ jobs[j].tasks \in Seq(TaskType)
  BY JobFacts DEF Types
<1>2. DOMAIN tasks = DOMAIN jobs[j].tasks /\ tasks[i] = x
      /\ \A m \in DOMAIN jobs[j].tasks : m # i => tasks[m] = jobs[j].tasks[m]
  BY <1>1
<1>3. job.tasks = tasks /\ job.running = jobs[j].running /\ job.photos = jobs[j].photos
  BY <1>1 DEF JobFields
<1>4. jobs' = [jobs EXCEPT ![j] = job]
  BY DEF SetTask
<1> HIDE DEF tasks, job
<1>5. DOMAIN jobs' = DOMAIN jobs /\ jobs'[j] = job /\ \A k \in DOMAIN jobs : k # j => jobs'[k] = jobs[k]
  BY <1>1, <1>4
<1> QED
  BY <1>2, <1>3, <1>5 DEF NoneAnswered, Task

\* All steps of a task but the taking of its answer.
LEMMA QuietTask ==
  ASSUME BatchInv, NEW j \in DOMAIN jobs, NEW i \in DOMAIN jobs[j].tasks,
         \/ Spawn(j, i) \/ TouchCancel(j, i) \/ ReadRecords(j, i) \/ WriteRecords(j, i)
         \/ Render(j, i) \/ ExportEnds(j, i) \/ Publish(j, i) \/ Report(j, i)
         \/ ReadProgress(j, i) \/ TaskFault(j, i)
  PROVE  NoneAnswered
<1>1. Types /\ Task(j, i) \in TaskType
  BY TaskSays DEF BatchInv
<1>2. jobs[j] \in JobFields /\ jobs \in Seq(JobFields) /\ jobs[j].tasks \in Seq(TaskType)
      /\ \A m : Task(j, m) = jobs[j].tasks[m]
  BY <1>1, JobFacts DEF Types, Task
<1>3. CASE Spawn(j, i)
  <2> DEFINE x == [Task(j, i) EXCEPT !.pc = "worker", !.step = "checking"]
  <2>1. x.pc = "worker" /\ Task(j, i).pc = "spawning"
    BY <1>1, <1>3 DEF TaskType, Spawn
  <2>2. SetTask(j, i, x)
    BY <1>3 DEF Spawn
  <2> HIDE DEF x
  <2> QED
    BY <1>1, <2>1, <2>2, SetTaskAnswers DEF Unanswered
<1>4. CASE TouchCancel(j, i)
  <2> DEFINE x == [Task(j, i) EXCEPT !.cancel = TRUE]
  <2>1. x.pc = Task(j, i).pc /\ Task(j, i).pc = "worker"
    BY <1>1, <1>4 DEF TaskType, TouchCancel
  <2>2. SetTask(j, i, x)
    BY <1>4 DEF TouchCancel
  <2> HIDE DEF x
  <2> QED
    BY <1>1, <2>1, <2>2, SetTaskAnswers DEF Unanswered
<1>5. CASE ReadRecords(j, i)
  <2> DEFINE x == [Task(j, i) EXCEPT !.pc = "writing", !.read = records]
  <2>1. x.pc = "writing" /\ Task(j, i).pc = "recording"
    BY <1>1, <1>5 DEF TaskType, ReadRecords
  <2>2. SetTask(j, i, x)
    BY <1>5 DEF ReadRecords
  <2> HIDE DEF x
  <2> QED
    BY <1>1, <2>1, <2>2, SetTaskAnswers DEF Unanswered
<1>6. CASE Render(j, i)
  <2> DEFINE x == [Task(j, i) EXCEPT !.step = "rendered"]
  <2>1. x.pc = Task(j, i).pc /\ Task(j, i).pc = "worker"
    BY <1>1, <1>6 DEF TaskType, Render, Working
  <2>2. SetTask(j, i, x)
    BY <1>6 DEF Render
  <2> HIDE DEF x
  <2> QED
    BY <1>1, <2>1, <2>2, SetTaskAnswers DEF Unanswered
<1>7. CASE RenderFails(j, i)
  <2> DEFINE x == [Task(j, i) EXCEPT !.rows = Append(Task(j, i).rows, "failed"),
                                !.progress = Append(Task(j, i).rows, "failed")]
  <2>1. x.pc = Task(j, i).pc /\ Task(j, i).pc = "worker"
    BY <1>1, <1>7 DEF TaskType, RenderFails, Working
  <2>2. SetTask(j, i, x)
    BY <1>7 DEF RenderFails
  <2> HIDE DEF x
  <2> QED
    BY <1>1, <2>1, <2>2, SetTaskAnswers DEF Unanswered
<1>8. CASE ExportEnds(j, i)
  <2> DEFINE x == [Task(j, i) EXCEPT !.pc = "ended"]
  <2>1. x.pc = "ended" /\ Task(j, i).pc = "worker"
    BY <1>1, <1>8 DEF TaskType, ExportEnds, WorkerEnds, Working
  <2>2. SetTask(j, i, x)
    BY <1>8 DEF ExportEnds, WorkerEnds
  <2> HIDE DEF x
  <2> QED
    BY <1>1, <2>1, <2>2, SetTaskAnswers DEF Unanswered
<1>9. CASE Publish(j, i)
  <2> DEFINE x == [Task(j, i) EXCEPT !.step = "published"]
  <2>1. x.pc = Task(j, i).pc /\ Task(j, i).pc = "worker"
    BY <1>1, <1>9 DEF TaskType, Publish, Working
  <2>2. SetTask(j, i, x)
    BY <1>9 DEF Publish
  <2> HIDE DEF x
  <2> QED
    BY <1>1, <2>1, <2>2, SetTaskAnswers DEF Unanswered
<1>10. CASE Report(j, i)
  <2> DEFINE x == [Task(j, i) EXCEPT !.step = "checking", !.rows = Append(Task(j, i).rows, "exported"),
                                !.progress = Append(Task(j, i).rows, "exported")]
  <2>1. x.pc = Task(j, i).pc /\ Task(j, i).pc = "worker"
    BY <1>1, <1>10 DEF TaskType, Report, Working
  <2>2. SetTask(j, i, x)
    BY <1>10 DEF Report
  <2> HIDE DEF x
  <2> QED
    BY <1>1, <2>1, <2>2, SetTaskAnswers DEF Unanswered
<1>11. CASE SpawnFails(j, i)
  <2> DEFINE x == [Task(j, i) EXCEPT !.pc = "refused"]
  <2>1. x.pc = "refused" /\ Task(j, i).pc = "spawning"
    BY <1>1, <1>11 DEF TaskType, SpawnFails
  <2>2. SetTask(j, i, x)
    BY <1>11 DEF SpawnFails
  <2> HIDE DEF x
  <2> QED
    BY <1>1, <2>1, <2>2, SetTaskAnswers DEF Unanswered
<1>12. CASE WriteRecords(j, i)
  <2>1. SetTask(j, i, Over) /\ Task(j, i).pc = "writing"
    BY <1>12 DEF WriteRecords
  <2> QED
    BY <1>1, <2>1, BlankTask, SetTaskAnswers DEF Unanswered
<1>13. CASE ReadProgress(j, i)
  <2> DEFINE job == [jobs[j] EXCEPT !.results = [jobs[j].results EXCEPT ![i] = Task(j, i).progress]]
  <2>1. jobs' = [jobs EXCEPT ![j] = job]
    BY <1>13 DEF ReadProgress
  <2>2. job.tasks = jobs[j].tasks /\ job.running = jobs[j].running /\ job.photos = jobs[j].photos
    BY <1>2 DEF JobFields
  <2> HIDE DEF job
  <2> QED
    BY <1>2, <2>1, <2>2 DEF NoneAnswered, Task
<1>14. CASE RecordFails(j, i)
  <2> DEFINE tasks == [jobs[j].tasks EXCEPT ![i] = Over]
             job == [jobs[j] EXCEPT !.tasks = tasks, !.warning = TRUE]
  <2>1. jobs' = [jobs EXCEPT ![j] = job] /\ Task(j, i).pc = "writing"
    BY <1>14 DEF RecordFails
  <2>2. DOMAIN tasks = DOMAIN jobs[j].tasks /\ tasks[i] = Over
        /\ \A m \in DOMAIN jobs[j].tasks : m # i => tasks[m] = jobs[j].tasks[m]
    BY <1>2
  <2> HIDE DEF tasks
  <2>3. job.tasks = tasks /\ job.running = jobs[j].running /\ job.photos = jobs[j].photos
    BY <1>2 DEF JobFields
  <2> HIDE DEF job
  <2>4. DOMAIN jobs' = DOMAIN jobs /\ jobs'[j] = job /\ \A k \in DOMAIN jobs : k # j => jobs'[k] = jobs[k]
    BY <1>2, <2>1
  <2>5. Over.pc \notin Unanswered /\ Task(j, i).pc \notin Unanswered
    BY <2>1, BlankTask DEF Unanswered
  <2> QED
    BY <2>2, <2>3, <2>4, <2>5 DEF NoneAnswered, Task
<1>15. CASE WorkerCrashes(j, i)
  <2> DEFINE x == [Task(j, i) EXCEPT !.pc = "crashed"]
             tasks == [jobs[j].tasks EXCEPT ![i] = x]
             job == [jobs[j] EXCEPT !.tasks = tasks, !.crashed = TRUE]
  <2>1. jobs' = [jobs EXCEPT ![j] = job] /\ Task(j, i).pc = "worker"
    BY <1>2, <1>15 DEF WorkerCrashes
  <2>2. x.pc = "crashed"
    BY <1>1 DEF TaskType
  <2> HIDE DEF x
  <2>3. DOMAIN tasks = DOMAIN jobs[j].tasks /\ tasks[i] = x
        /\ \A m \in DOMAIN jobs[j].tasks : m # i => tasks[m] = jobs[j].tasks[m]
    BY <1>2
  <2> HIDE DEF tasks
  <2>4. job.tasks = tasks /\ job.running = jobs[j].running /\ job.photos = jobs[j].photos
    BY <1>2 DEF JobFields
  <2> HIDE DEF job
  <2>5. DOMAIN jobs' = DOMAIN jobs /\ jobs'[j] = job /\ \A k \in DOMAIN jobs : k # j => jobs'[k] = jobs[k]
    BY <1>2, <2>1
  <2>6. x.pc \in Unanswered /\ Task(j, i).pc \in Unanswered
    BY <2>1, <2>2 DEF Unanswered
  <2> QED
    BY <2>3, <2>4, <2>5, <2>6 DEF NoneAnswered, Task
<1> QED
  BY <1>3, <1>4, <1>5, <1>6, <1>7, <1>8, <1>9, <1>10, <1>11, <1>12, <1>13, <1>14, <1>15 DEF TaskFault

\* One answer taken, one worker less.
LEMMA WorkerGoneAnswers ==
  ASSUME BatchInv, RunningInv, NEW j \in DOMAIN jobs, NEW i \in DOMAIN jobs[j].tasks, WorkerGone(j, i)
  PROVE  RunningInv' /\ DOMAIN jobs' = DOMAIN jobs /\ \A k \in DOMAIN jobs : jobs'[k].photos = jobs[k].photos
<1>1. PICK rows, x, running :
        /\ rows = ResultRows(j, i) /\ running = jobs[j].running \ {i}
        /\ x = IF Exported(rows) = {} THEN Over ELSE [Idle EXCEPT !.pc = "recording", !.rows = rows]
  OBVIOUS
<1> DEFINE tasks == [jobs[j].tasks EXCEPT ![i] = x]
           job == [jobs[j] EXCEPT !.tasks = tasks, !.results = [jobs[j].results EXCEPT ![i] = rows],
                                  !.running = running]
<1>2. jobs[j] \in JobFields /\ jobs \in Seq(JobFields) /\ jobs[j].tasks \in Seq(TaskType)
  BY JobFacts DEF BatchInv, Types
<1>3. Task(j, i).pc \in Unanswered
  BY DEF WorkerGone, Unanswered
<1>4. jobs' = [jobs EXCEPT ![j] = job]
  BY <1>1, <1>2 DEF WorkerGone, JobFields
<1>5. x.pc \notin Unanswered
  <2>1. rows \in Rows
    BY <1>1, ResultRowsFacts DEF WorkerGone
  <2> QED
    BY <1>1, <2>1, BlankTask DEF Unanswered
<1>6. DOMAIN tasks = DOMAIN jobs[j].tasks /\ tasks[i] = x
      /\ \A m \in DOMAIN jobs[j].tasks : m # i => tasks[m] = jobs[j].tasks[m]
  BY <1>2
<1> HIDE DEF tasks
<1>7. job.tasks = tasks /\ job.running = running /\ job.photos = jobs[j].photos
  BY <1>2 DEF JobFields
<1> HIDE DEF job
<1>8. DOMAIN jobs' = DOMAIN jobs /\ jobs'[j] = job /\ \A k \in DOMAIN jobs : k # j => jobs'[k] = jobs[k]
  BY <1>2, <1>4
<1>9. /\ jobs[j].running = {m \in DOMAIN jobs[j].tasks : Task(j, m).pc \in Unanswered}
      /\ IsFiniteSet(jobs[j].running) /\ Cardinality(jobs[j].running) <= Parallel
  BY DEF RunningInv
<1>10. running = {m \in DOMAIN tasks : tasks[m].pc \in Unanswered}
  BY <1>1, <1>5, <1>6, <1>9 DEF Task
<1>11. IsFiniteSet(running) /\ Cardinality(running) <= Parallel
  <2>1. running \subseteq jobs[j].running
    BY <1>1
  <2>2. IsFiniteSet(running) /\ Cardinality(running) <= Cardinality(jobs[j].running)
    BY <1>9, <2>1, FS_Subset
  <2>3. Cardinality(running) \in Nat /\ Cardinality(jobs[j].running) \in Nat
    BY <1>9, <2>2, FS_CardinalityType
  <2> QED
    BY <1>9, <2>2, <2>3, BatchAssumption
<1>12. RunningInv'
  <2> SUFFICES ASSUME NEW k \in DOMAIN jobs'
               PROVE  /\ jobs'[k].running = {m \in DOMAIN jobs'[k].tasks : jobs'[k].tasks[m].pc \in Unanswered}
                      /\ IsFiniteSet(jobs'[k].running) /\ Cardinality(jobs'[k].running) <= Parallel
    BY DEF RunningInv, Task
  <2>1. CASE k = j
    BY <1>7, <1>8, <1>10, <1>11, <2>1
  <2>2. CASE k # j
    BY <1>8, <2>2 DEF RunningInv, Task
  <2> QED
    BY <2>1, <2>2
<1> QED
  BY <1>7, <1>8, <1>12

\* The page, the shell and the end of a job change no task's worker but to crash it.
LEMMA QuietStates ==
  ASSUME BatchInv, control \/ close \/ Terminate \/ Join \/ jobs' = jobs
  PROVE  NoneAnswered
<1>1. Types /\ jobs \in Seq(JobFields)
  BY DEF BatchInv, Types
<1>2. \A k \in DOMAIN jobs : jobs[k] \in JobFields
  BY <1>1, JobFacts
<1>3. \A k, m : Task(k, m) = jobs[k].tasks[m]
  BY DEF Task
<1>4. CASE control
  <2>1. PICK j \in DOMAIN jobs, action \in DOMAIN NewState :
          jobs' = [jobs EXCEPT ![j].state = NewState[action],
                               ![j].recalled = @ \/ (jobs[j].state = "cancelling" /\ action # "cancel")]
    BY <1>4 DEF control
  <2>2. PICK s, r : s = NewState[action]
                    /\ r = (jobs[j].recalled \/ (jobs[j].state = "cancelling" /\ action # "cancel"))
    OBVIOUS
  <2> DEFINE job == [jobs[j] EXCEPT !.state = s, !.recalled = r]
  <2>3. jobs' = [jobs EXCEPT ![j] = job]
    BY <1>2, <2>1, <2>2 DEF JobFields
  <2>4. job.tasks = jobs[j].tasks /\ job.running = jobs[j].running /\ job.photos = jobs[j].photos
    BY <1>2 DEF JobFields
  <2> HIDE DEF job
  <2> QED
    BY <1>1, <1>3, <2>3, <2>4 DEF NoneAnswered
<1>5. CASE close
  <2>1. jobs' = [j \in DOMAIN jobs |-> IF Ended(j) THEN jobs[j] ELSE [jobs[j] EXCEPT !.state = "cancelling"]]
    BY <1>5 DEF close
  <2> SUFFICES ASSUME NEW k \in DOMAIN jobs
               PROVE  /\ jobs'[k].running = jobs[k].running /\ jobs'[k].photos = jobs[k].photos
                      /\ jobs'[k].tasks = jobs[k].tasks
    BY <1>3, <2>1 DEF NoneAnswered
  <2> QED
    BY <1>2, <2>1 DEF JobFields
<1>6. CASE Terminate
  <2>1. jobs' = [j \in DOMAIN jobs |-> Killed(jobs[j])]
    BY <1>6 DEF Terminate
  <2> SUFFICES ASSUME NEW k \in DOMAIN jobs
               PROVE  /\ jobs'[k].running = jobs[k].running /\ jobs'[k].photos = jobs[k].photos
                      /\ DOMAIN jobs'[k].tasks = DOMAIN jobs[k].tasks
                      /\ \A m \in DOMAIN jobs[k].tasks :
                           jobs'[k].tasks[m].pc \in Unanswered <=> Task(k, m).pc \in Unanswered
    BY <2>1 DEF NoneAnswered
  <2>2. jobs'[k] = Killed(jobs[k])
    BY <2>1
  <2>3. jobs'[k].running = jobs[k].running
    BY <1>2, <2>2 DEF Killed, JobFields
  <2>4. /\ jobs'[k].photos = jobs[k].photos /\ DOMAIN jobs'[k].tasks = DOMAIN jobs[k].tasks
        /\ \A m \in DOMAIN jobs[k].tasks :
             IF Task(k, m).pc = "worker" THEN jobs'[k].tasks[m] = CrashedTask(Task(k, m))
             ELSE jobs'[k].tasks[m] = Task(k, m)
    BY <1>1, <2>2, KilledFacts
  <2>5. ASSUME NEW m \in DOMAIN jobs[k].tasks
        PROVE  jobs'[k].tasks[m].pc \in Unanswered <=> Task(k, m).pc \in Unanswered
    <3>1. CrashedTask(Task(k, m)).pc = "crashed"
      BY TaskSays DEF TaskType, CrashedTask
    <3> QED
      BY <2>4, <3>1 DEF Unanswered
  <2> QED
    BY <2>3, <2>4, <2>5
<1>7. CASE Join
  <2> DEFINE j == runner.job
             s == IF Cancelling(j) THEN "cancelled" ELSE "finished"
             job == [jobs[j] EXCEPT !.state = s]
  <2>1. jobs' = [jobs EXCEPT ![j] = job]
    BY <1>7 DEF Join, EndJob
  <2>2. j \in DOMAIN jobs
    BY <1>7 DEF Join, BatchInv, RunnerOn, Busy
  <2> HIDE DEF s, j
  <2>3. job.tasks = jobs[j].tasks /\ job.running = jobs[j].running /\ job.photos = jobs[j].photos
    BY <1>2, <2>2 DEF JobFields
  <2> HIDE DEF job
  <2> QED
    BY <1>1, <1>3, <2>1, <2>3 DEF NoneAnswered
<1>8. CASE jobs' = jobs
  BY <1>3, <1>8 DEF NoneAnswered
<1> QED
  BY <1>4, <1>5, <1>6, <1>7, <1>8

\* The runner starts a worker only when there is room for it.
LEMMA LaunchAnswers ==
  ASSUME BatchInv, RunningInv, Launch
  PROVE  /\ RunningInv' /\ DOMAIN jobs' = DOMAIN jobs
         /\ \A k \in DOMAIN jobs : jobs'[k].photos = jobs[k].photos
<1> DEFINE j == runner.job
           i == runner.next
           x == [Task(j, i) EXCEPT !.pc = "spawning"]
           tasks == [jobs[j].tasks EXCEPT ![i] = x]
<1>1. /\ runner.pc = "launching" /\ i \in DOMAIN jobs[j].photos /\ Cardinality(jobs[j].running) < Parallel
      /\ ~(jobs[j].state \in {"cancelling", "paused"})
  BY DEF Launch
<1>2. j \in DOMAIN jobs /\ Types /\ jobs \in Seq(JobFields)
  BY <1>1 DEF BatchInv, RunnerOn, Busy, Types
<1>3. PICK running : running = jobs[j].running \cup {i}
  OBVIOUS
<1> DEFINE job == [jobs[j] EXCEPT !.state = "running", !.running = running, !.tasks = tasks]
<1>4. jobs' = [jobs EXCEPT ![j] = job]
  BY <1>3 DEF Launch, Task
<1> HIDE DEF j, i
<1>5. jobs[j] \in JobFields /\ i \in DOMAIN jobs[j].tasks /\ jobs[j].tasks \in Seq(TaskType)
  BY <1>1, <1>2, JobFacts
<1>6. x.pc = "spawning"
  BY <1>2, <1>5, TaskFacts DEF TaskType
<1> HIDE DEF x
<1>7. DOMAIN tasks = DOMAIN jobs[j].tasks /\ tasks[i] = x
      /\ \A m \in DOMAIN jobs[j].tasks : m # i => tasks[m] = jobs[j].tasks[m]
  BY <1>5
<1> HIDE DEF tasks
<1>8. job.tasks = tasks /\ job.running = running /\ job.photos = jobs[j].photos
  BY <1>5 DEF JobFields
<1> HIDE DEF job
<1>9. DOMAIN jobs' = DOMAIN jobs /\ jobs'[j] = job /\ \A k \in DOMAIN jobs : k # j => jobs'[k] = jobs[k]
  BY <1>2, <1>4
<1>10. /\ jobs[j].running = {m \in DOMAIN jobs[j].tasks : Task(j, m).pc \in Unanswered}
       /\ IsFiniteSet(jobs[j].running)
  BY <1>2 DEF RunningInv
<1>11. running = {m \in DOMAIN tasks : tasks[m].pc \in Unanswered}
  BY <1>3, <1>5, <1>6, <1>7, <1>10 DEF Task, Unanswered
<1>12. IsFiniteSet(running) /\ Cardinality(running) <= Parallel
  <2>1. /\ IsFiniteSet(running)
        /\ Cardinality(running) = Cardinality(jobs[j].running) \/ Cardinality(running) = Cardinality(jobs[j].running) + 1
    BY <1>3, <1>10, FS_AddElement
  <2>2. Cardinality(jobs[j].running) \in Nat
    BY <1>10, FS_CardinalityType
  <2>3. Cardinality(jobs[j].running) < Parallel
    BY <1>1 DEF j
  <2> QED
    BY <2>1, <2>2, <2>3, BatchAssumption
<1>13. RunningInv'
  <2> SUFFICES ASSUME NEW k \in DOMAIN jobs'
               PROVE  /\ jobs'[k].running = {m \in DOMAIN jobs'[k].tasks : jobs'[k].tasks[m].pc \in Unanswered}
                      /\ IsFiniteSet(jobs'[k].running) /\ Cardinality(jobs'[k].running) <= Parallel
    BY DEF RunningInv, Task
  <2>1. CASE k = j
    BY <1>8, <1>9, <1>11, <1>12, <2>1
  <2>2. CASE k # j
    BY <1>9, <2>2 DEF RunningInv, Task
  <2> QED
    BY <2>1, <2>2
<1> QED
  BY <1>8, <1>9, <1>13

\* A new job runs nothing.
LEMMA startAnswers ==
  ASSUME BatchInv, RunningInv, start
  PROVE  /\ RunningInv' /\ DOMAIN jobs' = DOMAIN jobs \cup {Len(jobs) + 1}
         /\ jobs'[Len(jobs) + 1].photos = Head(starting).photos
         /\ \A k \in DOMAIN jobs : k # Len(jobs) + 1 /\ jobs'[k].photos = jobs[k].photos
<1> DEFINE n == Len(jobs) + 1
           photos == Head(starting).photos
           job == Job(photos, Head(starting).grades)
<1>1. jobs' = Append(jobs, job)
  BY DEF start
<1>2. jobs \in Seq(JobFields)
  BY DEF BatchInv, Types
<1> HIDE DEF photos
<1>3. job.running = {} /\ job.tasks = [i \in DOMAIN photos |-> Idle] /\ job.photos = photos
  BY DEF Job
<1> HIDE DEF job
<1>4. /\ DOMAIN jobs' = DOMAIN jobs \cup {n} /\ n \notin DOMAIN jobs
      /\ jobs'[n] = job /\ \A k \in DOMAIN jobs : jobs'[k] = jobs[k]
  BY <1>1, <1>2
<1> HIDE DEF n
<1>5. Idle.pc \notin Unanswered
  BY DEF Idle, Unanswered
<1>6. IsFiniteSet({}) /\ Cardinality({}) <= Parallel
  BY FS_EmptySet, BatchAssumption
<1>7. RunningInv'
  <2> SUFFICES ASSUME NEW k \in DOMAIN jobs'
               PROVE  /\ jobs'[k].running = {m \in DOMAIN jobs'[k].tasks : jobs'[k].tasks[m].pc \in Unanswered}
                      /\ IsFiniteSet(jobs'[k].running) /\ Cardinality(jobs'[k].running) <= Parallel
    BY DEF RunningInv, Task
  <2>1. CASE k = n
    BY <1>3, <1>4, <1>5, <1>6, <2>1
  <2>2. CASE k # n
    BY <1>4, <2>2 DEF RunningInv, Task
  <2> QED
    BY <2>1, <2>2
<1> QED
  BY <1>3, <1>4, <1>7 DEF n, photos

\* What the page asked for, and the place of the runner, when no job is added.
LEMMA AskedKept ==
  ASSUME AskedFor, NoneAnswered \/ (DOMAIN jobs' = DOMAIN jobs /\ \A k \in DOMAIN jobs : jobs'[k].photos = jobs[k].photos),
         starting' = <<>> \/ Head(starting').photos \in Requests,
         Busy' => runner'.job \in DOMAIN jobs /\ runner'.next <= Len(jobs[runner'.job].photos) + 1,
         files' \subseteq (DOMAIN jobs) \X Nat \X (1..Versions),
         closing' \in {"no", "marked", "killed"}, left' \in Budget
  PROVE  AskedFor'
<1>1. DOMAIN jobs' = DOMAIN jobs /\ \A k \in DOMAIN jobs : jobs'[k].photos = jobs[k].photos
  BY DEF NoneAnswered
<1> QED
  BY <1>1 DEF AskedFor

\* A published version is one of the preset's.
LEMMA PublishedVersions ==
  ASSUME BatchInv, AskedFor, NEW j \in DOMAIN jobs, NEW i \in DOMAIN jobs[j].tasks,
         Publish(j, i) \/ files' = files
  PROVE  files' \subseteq (DOMAIN jobs) \X Nat \X (1..Versions)
<1>1. CASE Publish(j, i)
  <2>1. /\ Task(j, i).pc = "worker" /\ Task(j, i).step = "rendered"
        /\ files' = files \cup {<<j, i, Len(Task(j, i).rows) + 1>>}
    BY <1>1 DEF Publish, Working
  <2>2. Len(Task(j, i).rows) \in 0..Versions /\ Len(Task(j, i).rows) < Versions
    BY <2>1, WorkerSays
  <2>3. Len(Task(j, i).rows) + 1 \in 1..Versions
    BY <2>2, BatchAssumption
  <2>4. i \in Nat
    BY JobFacts DEF BatchInv
  <2> QED
    BY <2>1, <2>3, <2>4 DEF AskedFor
<1>2. CASE files' = files
  BY <1>2 DEF AskedFor
<1> QED
  BY <1>1, <1>2

\* The steps of a task.
LEMMA TaskWorkers ==
  ASSUME BatchInv, WorkersInv, NEW j \in DOMAIN jobs, NEW i \in DOMAIN jobs[j].tasks,
         TaskStep(j, i) \/ ReadProgress(j, i) \/ TaskFault(j, i)
  PROVE  WorkersInv'
<1>1. RunningInv /\ AskedFor
  BY DEF WorkersInv
<1>2. RunningInv' /\ (NoneAnswered \/ (DOMAIN jobs' = DOMAIN jobs
                                       /\ \A k \in DOMAIN jobs : jobs'[k].photos = jobs[k].photos))
  BY <1>1, QuietTask, NoneAnsweredKeeps, WorkerGoneAnswers DEF TaskStep
<1>3. starting' = starting /\ runner' = runner /\ closing' = closing
  BY DEF TaskStep, TaskFault, Spawn, TouchCancel, WorkerGone, ReadRecords, WriteRecords, Render, ExportEnds,
         Publish, Report, ReadProgress, RecordFails, RenderFails, SpawnFails, WorkerCrashes
<1>4. files' \subseteq (DOMAIN jobs) \X Nat \X (1..Versions)
  <2>1. Publish(j, i) \/ files' = files
    BY DEF TaskStep, TaskFault, Spawn, TouchCancel, WorkerGone, ReadRecords, WriteRecords, Render, ExportEnds,
           Report, ReadProgress, RecordFails, RenderFails, SpawnFails, WorkerCrashes
  <2> QED
    BY <1>1, <2>1, PublishedVersions
<1>5. left' \in Budget
  <2>1. left' = left \/ Spend("faults")
    BY DEF TaskStep, TaskFault, Spawn, TouchCancel, WorkerGone, ReadRecords, WriteRecords, Render, ExportEnds,
           Publish, Report, ReadProgress, RecordFails, RenderFails, SpawnFails, WorkerCrashes
  <2> QED
    BY <1>1, <2>1, SpendKeeps DEF AskedFor
<1>6. Busy' => runner'.job \in DOMAIN jobs /\ runner'.next <= Len(jobs[runner'.job].photos) + 1
  BY <1>1, <1>3 DEF Busy, BatchInv, RunnerOn, AskedFor
<1>7. /\ starting' = <<>> \/ Head(starting').photos \in Requests
      /\ closing' \in {"no", "marked", "killed"}
  BY <1>1, <1>3 DEF AskedFor
<1>8. AskedFor'
  BY <1>1, <1>2, <1>4, <1>5, <1>6, <1>7, AskedKept
<1> QED
  BY <1>2, <1>8 DEF WorkersInv

\* The steps of the runner.
LEMMA RunnerWorkers ==
  ASSUME BatchInv, WorkersInv, RunnerStep
  PROVE  WorkersInv'
<1>1. RunningInv /\ AskedFor /\ Types /\ RunnerOn
  BY DEF WorkersInv, BatchInv
<1>2. RunningInv' /\ (NoneAnswered \/ (DOMAIN jobs' = DOMAIN jobs
                                       /\ \A k \in DOMAIN jobs : jobs'[k].photos = jobs[k].photos))
  <2>1. CASE Launch
    BY <1>1, <2>1, LaunchAnswers
  <2>2. CASE Join \/ jobs' = jobs
    BY <1>1, <2>2, QuietStates, NoneAnsweredKeeps
  <2> QED
    BY <2>1, <2>2 DEF RunnerStep, TakeJob, RunnerEnds, LaunchEnds
<1>3. starting' = starting /\ files' = files /\ closing' = closing /\ left' = left
  BY DEF RunnerStep, TakeJob, RunnerEnds, Launch, LaunchEnds, Join, EndJob
<1>4. Busy' => runner'.job \in DOMAIN jobs /\ runner'.next <= Len(jobs[runner'.job].photos) + 1
  <2>1. CASE TakeJob
    <3> DEFINE first == CHOOSE j \in DueJobs : \A k \in DueJobs : j <= k
    <3>1. first \in DueJobs /\ runner' = [pc |-> "launching", job |-> first, next |-> 1]
      BY <1>1, <2>1, OldestDue DEF TakeJob
    <3> HIDE DEF first
    <3>2. first \in DOMAIN jobs
      BY <3>1 DEF DueJobs
    <3>3. Len(jobs[first].photos) \in Nat
      BY <1>1, <3>2, JobFacts
    <3> QED
      BY <3>1, <3>2, <3>3
  <2>2. CASE Launch
    <3>1. /\ runner.pc = "launching" /\ runner.next \in DOMAIN jobs[runner.job].photos
          /\ runner' = [runner EXCEPT !.next = @ + 1]
      BY <2>2 DEF Launch
    <3>2. runner.job \in DOMAIN jobs
      BY <1>1, <3>1 DEF RunnerOn, Busy
    <3>3. runner.next \in 1..Len(jobs[runner.job].photos) /\ Len(jobs[runner.job].photos) \in Nat
      BY <1>1, <3>1, <3>2, JobFacts
    <3>4. runner'.job = runner.job /\ runner'.next = runner.next + 1
      BY <1>1, <3>1 DEF Types
    <3> QED
      BY <3>2, <3>3, <3>4
  <2>3. CASE LaunchEnds
    <3>1. runner.pc = "launching" /\ runner' = [runner EXCEPT !.pc = "joining"]
      BY <2>3 DEF LaunchEnds
    <3>2. runner'.job = runner.job /\ runner'.next = runner.next
      BY <1>1, <3>1 DEF Types
    <3> QED
      BY <1>1, <3>1, <3>2 DEF RunnerOn, Busy, AskedFor
  <2>4. CASE RunnerEnds \/ Join
    <3>1. runner' = [runner EXCEPT !.pc = "gone"] \/ runner' = [runner EXCEPT !.pc = "waiting"]
      BY <2>4 DEF RunnerEnds, Join, EndJob
    <3>2. runner'.pc \in {"gone", "waiting"}
      BY <1>1, <3>1 DEF Types
    <3> QED
      BY <3>2 DEF Busy
  <2> QED
    BY <2>1, <2>2, <2>3, <2>4 DEF RunnerStep
<1>5. /\ starting' = <<>> \/ Head(starting').photos \in Requests
      /\ closing' \in {"no", "marked", "killed"} /\ left' \in Budget
      /\ files' \subseteq (DOMAIN jobs) \X Nat \X (1..Versions)
  BY <1>1, <1>3 DEF AskedFor
<1>6. AskedFor'
  BY <1>1, <1>2, <1>4, <1>5, AskedKept
<1> QED
  BY <1>2, <1>6 DEF WorkersInv

\* The page, the shell, and a step that changes nothing.
LEMMA OutsideWorkers ==
  ASSUME BatchInv, WorkersInv,
         StartLookup \/ start \/ control \/ close \/ Terminate \/ Edit \/ UNCHANGED vars
  PROVE  WorkersInv'
<1>1. RunningInv /\ AskedFor /\ RunnerOn
  BY DEF WorkersInv, BatchInv
<1>2. runner' = runner /\ files' = files /\ closing' \in {"no", "marked", "killed"}
  BY <1>1 DEF StartLookup, start, control, close, Terminate, Edit, vars, AskedFor
<1>3. left' \in Budget
  <2>1. left' = left \/ Spend("jobs") \/ Spend("controls") \/ Spend("closes") \/ Spend("edits")
    BY DEF StartLookup, start, control, close, Terminate, Edit, vars
  <2> QED
    BY <1>1, <2>1, SpendKeeps DEF AskedFor
<1>4. CASE start
  <2>1. /\ RunningInv' /\ DOMAIN jobs' = DOMAIN jobs \cup {Len(jobs) + 1}
        /\ jobs'[Len(jobs) + 1].photos = Head(starting).photos
        /\ \A k \in DOMAIN jobs : k # Len(jobs) + 1 /\ jobs'[k].photos = jobs[k].photos
    BY <1>1, <1>4, startAnswers
  <2>2. starting # <<>> /\ starting' = <<>>
    BY <1>4 DEF start
  <2>3. \A k \in DOMAIN jobs' : jobs'[k].photos \in Requests
    BY <1>1, <2>1, <2>2 DEF AskedFor
  <2>4. files' \subseteq (DOMAIN jobs') \X Nat \X (1..Versions)
    BY <1>1, <1>2, <2>1 DEF AskedFor
  <2>5. Busy' => runner'.next <= Len(jobs'[runner'.job].photos) + 1
    BY <1>1, <1>2, <2>1 DEF AskedFor, RunnerOn, Busy
  <2> QED
    BY <1>2, <1>3, <2>1, <2>2, <2>3, <2>4, <2>5 DEF WorkersInv, AskedFor
<1>5. CASE StartLookup \/ control \/ close \/ Terminate \/ Edit \/ UNCHANGED vars
  <2>1. NoneAnswered
    BY <1>5, QuietStates DEF StartLookup, Edit, vars
  <2>2. starting' = <<>> \/ Head(starting').photos \in Requests
    <3>1. CASE StartLookup
      <4>1. PICK photos \in Requests :
              starting' = <<[photos |-> photos, grades |-> [i \in DOMAIN photos |-> grade[photos[i]]]]>>
        BY <3>1 DEF StartLookup
      <4>2. Head(starting').photos = photos
        BY <4>1
      <4> QED
        BY <4>2
    <3>2. CASE control \/ close \/ Terminate \/ Edit \/ UNCHANGED vars
      BY <1>1, <3>2 DEF control, close, Terminate, Edit, vars, AskedFor
    <3> QED
      BY <1>5, <3>1, <3>2
  <2>3. /\ Busy' => runner'.job \in DOMAIN jobs /\ runner'.next <= Len(jobs[runner'.job].photos) + 1
        /\ files' \subseteq (DOMAIN jobs) \X Nat \X (1..Versions)
    BY <1>1, <1>2 DEF Busy, RunnerOn, AskedFor
  <2> QED
    BY <1>1, <1>2, <1>3, <2>1, <2>2, <2>3, NoneAnsweredKeeps, AskedKept DEF WorkersInv
<1> QED
  BY <1>4, <1>5

\* Whatever is paused, cancelled or dies, there are never more workers than may
\* run at once, and a photo counts as running exactly while its worker is not
\* answered for (_run_job, one; runner.next is at a photo of its job or behind).
THEOREM WorkersAreBounded == Spec => []TypeOK
<1>1. Init => WorkersInv
  <2> SUFFICES ASSUME Init PROVE WorkersInv
    OBVIOUS
  <2>1. /\ jobs = <<>> /\ starting = <<>> /\ runner = [pc |-> "waiting", job |-> 0, next |-> 1]
        /\ files = {} /\ closing = "no" /\ left \in Budget
    BY BatchAssumption DEF Init
  <2> QED
    BY <2>1 DEF WorkersInv, RunningInv, AskedFor, Busy
<1>2. BatchInv /\ WorkersInv /\ [Next]_vars => WorkersInv'
  <2> SUFFICES ASSUME BatchInv, WorkersInv, [Next]_vars PROVE WorkersInv'
    OBVIOUS
  <2>1. CASE StartLookup \/ start \/ control \/ close \/ Terminate \/ Edit \/ UNCHANGED vars
    BY <2>1, OutsideWorkers
  <2>2. CASE RunnerStep
    BY <2>2, RunnerWorkers
  <2>3. CASE \E t \in Tasks : TaskStep(t[1], t[2]) \/ ReadProgress(t[1], t[2]) \/ TaskFault(t[1], t[2])
    <3>1. PICK t \in Tasks : TaskStep(t[1], t[2]) \/ ReadProgress(t[1], t[2]) \/ TaskFault(t[1], t[2])
      BY <2>3
    <3>2. t[1] \in DOMAIN jobs /\ t[2] \in DOMAIN jobs[t[1]].tasks
      BY DEF Tasks
    <3> QED
      BY <3>1, <3>2, TaskWorkers
  <2> QED
    BY <2>1, <2>2, <2>3 DEF Next
<1>3. BatchInv /\ WorkersInv => TypeOK
  <2> SUFFICES ASSUME BatchInv, WorkersInv PROVE TypeOK
    OBVIOUS
  <2> DEFINE unanswered == {t \in Tasks : Task(t[1], t[2]).pc \in Unanswered}
  <2>1. Types /\ RunningInv /\ AskedFor /\ RunnerOn
    BY DEF BatchInv, WorkersInv
  <2>2. jobs \in Seq([state : Due \cup Terminal \cup {"running", "paused"},
                      photos : Requests, grades : Seq(Nat), running : SUBSET Nat,
                      tasks : Seq(TaskType), results : Seq(Seq(Outcomes)),
                      warning : BOOLEAN, recalled : BOOLEAN, crashed : BOOLEAN])
    <3> DEFINE Jobs == [state : Due \cup Terminal \cup {"running", "paused"},
                        photos : Requests, grades : Seq(Nat), running : SUBSET Nat,
                        tasks : Seq(TaskType), results : Seq(Seq(Outcomes)),
                        warning : BOOLEAN, recalled : BOOLEAN, crashed : BOOLEAN]
    <3>1. \A j \in DOMAIN jobs : jobs[j] \in Jobs
      <4> SUFFICES ASSUME NEW j \in DOMAIN jobs PROVE jobs[j] \in Jobs
        OBVIOUS
      <4>1. jobs[j] \in JobFields /\ jobs[j].photos \in Requests
        BY <2>1, JobFacts DEF AskedFor
      <4> QED
        BY <4>1 DEF JobFields, Rows
    <3> HIDE DEF Jobs
    <3>2. jobs \in Seq(JobFields)
      BY <2>1 DEF Types
    <3>3. jobs \in Seq(Jobs)
      BY <3>1, <3>2
    <3> QED
      BY <3>3 DEF Jobs
  <2>3. /\ runner.pc \in {"waiting", "launching", "joining", "gone"}
        /\ runner.pc \in {"launching", "joining"} =>
             runner.next \in 1..(Len(jobs[runner.job].photos) + 1)
    <3>1. ASSUME Busy
          PROVE  runner.next \in 1..(Len(jobs[runner.job].photos) + 1)
      <4>1. /\ runner.job \in DOMAIN jobs /\ runner.next >= 1 /\ runner.next \in Nat
            /\ runner.next <= Len(jobs[runner.job].photos) + 1
        BY <2>1, <3>1 DEF RunnerOn, AskedFor, Types
      <4>2. Len(jobs[runner.job].photos) \in Nat
        BY <2>1, <4>1, JobFacts
      <4> QED
        BY <4>1, <4>2
    <3> QED
      BY <2>1, <3>1 DEF Busy, Types
  <2>4. records \in RecordType /\ grade \in [Photos -> Nat]
    BY <2>1 DEF Types
  <2>5. files \subseteq (DOMAIN jobs) \X Nat \X (1..Versions) /\ closing \in {"no", "marked", "killed"}
        /\ left \in Budget
    BY <2>1 DEF AskedFor
  <2>6. \A j \in DOMAIN jobs : \A i : <<j, i>> \in unanswered <=> i \in jobs[j].running
    <3> SUFFICES ASSUME NEW j \in DOMAIN jobs, NEW i
                 PROVE  <<j, i>> \in unanswered <=> i \in jobs[j].running
      OBVIOUS
    <3>1. jobs[j].running = {m \in DOMAIN jobs[j].tasks : Task(j, m).pc \in Unanswered}
      BY <2>1 DEF RunningInv
    <3>2. <<j, i>> \in Tasks <=> i \in DOMAIN jobs[j].tasks
      BY DEF Tasks
    <3> QED
      BY <3>1, <3>2
  <2>7. \A t \in unanswered : t[1] \in DOMAIN jobs /\ t = <<t[1], t[2]>>
    BY DEF Tasks
  <2>8. \A j \in DOMAIN jobs : jobs[j].running = {t[2] : t \in {u \in unanswered : u[1] = j}}
    <3> HIDE DEF unanswered
    <3> SUFFICES ASSUME NEW j \in DOMAIN jobs
                 PROVE  jobs[j].running = {t[2] : t \in {u \in unanswered : u[1] = j}}
      OBVIOUS
    <3>1. ASSUME NEW i \in jobs[j].running
          PROVE  i \in {t[2] : t \in {u \in unanswered : u[1] = j}}
      <4>1. <<j, i>> \in unanswered /\ <<j, i>>[1] = j /\ <<j, i>>[2] = i
        BY <2>6
      <4>2. <<j, i>> \in {u \in unanswered : u[1] = j}
        BY <4>1
      <4> QED
        BY <4>1, <4>2
    <3>2. ASSUME NEW t \in unanswered, t[1] = j
          PROVE  t[2] \in jobs[j].running
      <4>1. <<j, t[2]>> \in unanswered
        BY <2>7, <3>2
      <4> QED
        BY <2>6, <4>1
    <3> QED
      BY <3>1, <3>2
  <2>9. Cardinality(unanswered) <= Parallel
    <3>1. CASE unanswered = {}
      BY <3>1, FS_EmptySet, BatchAssumption
    <3>2. CASE unanswered # {}
      <4>1. \A t \in unanswered : Busy /\ t[1] = runner.job
        <5> SUFFICES ASSUME NEW t \in unanswered PROVE Busy /\ t[1] = runner.job
          OBVIOUS
        <5>1. t[1] \in DOMAIN jobs /\ t[2] \in DOMAIN jobs[t[1]].tasks
          BY DEF Tasks
        <5>2. Task(t[1], t[2]).pc \notin {"none", "over"}
          BY DEF Unanswered
        <5> QED
          BY <5>1, <5>2, UnderWay
      <4>2. runner.job \in DOMAIN jobs
        BY <2>7, <3>2, <4>1
      <4>3. unanswered = {runner.job} \X jobs[runner.job].running
        <5> HIDE DEF unanswered
        <5> QED
          BY <2>6, <2>7, <4>1, <4>2
      <4>4. IsFiniteSet(jobs[runner.job].running) /\ Cardinality(jobs[runner.job].running) <= Parallel
        BY <2>1, <4>2 DEF RunningInv
      <4>5. Cardinality(unanswered) = Cardinality({runner.job}) * Cardinality(jobs[runner.job].running)
        BY <4>3, <4>4, FS_Singleton, FS_Product
      <4>6. Cardinality({runner.job}) = 1 /\ Cardinality(jobs[runner.job].running) \in Nat
        BY <4>4, FS_Singleton, FS_CardinalityType
      <4> QED
        BY <4>4, <4>5, <4>6
    <3> QED
      BY <3>1, <3>2
  <2> HIDE DEF unanswered
  <2>10. LET these == {t \in Tasks : Task(t[1], t[2]).pc \in Unanswered}
         IN /\ Cardinality(these) <= Parallel
            /\ \A j \in DOMAIN jobs : jobs[j].running = {t[2] : t \in {u \in these : u[1] = j}}
    BY <2>8, <2>9 DEF unanswered
  <2> QED
    BY <2>2, <2>3, <2>4, <2>5, <2>10 DEF TypeOK
<1> QED
  BY <1>1, <1>2, <1>3, BatchInvariant, PTL DEF Spec
=============================================================================
