--------------------------- MODULE MCBatchExport ---------------------------
\* The instances of BatchExport that TLC checks: each scenario bounds what the
\* user does and how often something fails.
EXTENDS BatchExport

CONSTANTS p, q

\* A job of two photos, or of one.
BothOrOne == {<<p, q>>, <<p>>}

Quiet == [jobs |-> 1, controls |-> 0, edits |-> 0, faults |-> 0, closes |-> 0]

\* Pause, Resume and Cancel of one job, and of jobs that wait for one another.
Controlled == [Quiet EXCEPT !.controls = 3]
Queued == [Quiet EXCEPT !.jobs = 2, !.controls = 2]
\* Workers that die, versions that fail, records that cannot be written.
Failing == [Quiet EXCEPT !.faults = 2, !.controls = 1]
\* Grades saved while jobs wait or run.
Edited == [Quiet EXCEPT !.jobs = 2, !.edits = 1]
EditedAndFailing == [Quiet EXCEPT !.edits = 1, !.faults = 1]
\* The last window is closed.
Closed == [Quiet EXCEPT !.closes = 1, !.controls = 1]
ClosedWhileQueued == [Quiet EXCEPT !.jobs = 2, !.closes = 1]

All == {Controlled, Queued, Failing, Edited, EditedAndFailing, Closed, ClosedWhileQueued}

\* A job that is cancelled and then paused; a worker that dies; a job that
\* waits behind a paused one.
CancelThenPause == {[Quiet EXCEPT !.controls = 2]}
WorkerDies == {[Quiet EXCEPT !.faults = 1]}
BehindPaused == {[Quiet EXCEPT !.jobs = 2, !.controls = 2]}
=============================================================================
