------------------------------ MODULE Documents ------------------------------
(***************************************************************************)
(* Which document is open: the page's openings of photos (import jobs) and *)
(* of project files, saving a project, ejecting and cancelling, against    *)
(* the one session the backend keeps (frontend/project-documents.js,       *)
(* session-import.js; backend import_jobs.py, projects.py, sessions.py).   *)
(*                                                                         *)
(* Every await of the page's functions is a point where other steps run:   *)
(* an operation in progress is a record of `ops` with its own pc, and      *)
(* compares the generation it claimed with the page's when it goes on.     *)
(* Edits of a photo are GradeSaving's business: only edits of a project    *)
(* count here.                                                             *)
(***************************************************************************)
EXTENDS Integers, Sequences, FiniteSets

CONSTANTS
  Photos,     \* photos that can be opened
  Projects,   \* paths of project files
  Scenarios   \* what the user does: a set of Budget records

None == "none"
Kinds == {"photo", "project", "save", "eject", "cancel"}
Budget == [photos: Nat, projects: Nat, saves: Nat, saveAs: Nat, ejects: Nat,
           cancels: Nat, edits: Nat, faults: Nat]
ASSUME ScenariosAssumption == Scenarios \subseteq Budget

VARIABLES
  page,      \* state of the browser page (app-state.js)
  ops,       \* the page's asynchronous operations, in the order they began
  store,     \* the backend's session, and the project open holding its lock
  jobs,      \* the import jobs, the newest last
  files,     \* project path |-> the document it holds
  left,      \* what the user may still do in this scenario
  sessions,  \* sessions prepared so far: the source of new session ids
  made,      \* edits of projects made so far
  early,     \* edits made while no transition was past its last question
  settled    \* edits written to a project file or given up by the user

vars == <<page, ops, store, jobs, files, left, sessions, made, early, settled>>
Ops == DOMAIN ops
Made == 1..made

-----------------------------------------------------------------------------
(* The page. *)

Waiting == {"confirm", "choosing", "path", "relinking"}
Working == {"leaving", "saving", "cancelling", "preparing", "creating", "created",
            "refused", "dropping", "polling", "fetching", "attaching", "starting",
            "opening", "showing", "clearing", "flushing", "granting", "writing", "written",
            "unsaved"}

Operation(kind, target, pc) ==
  [kind |-> kind, target |-> target, pc |-> pc, gen |-> 0, pgen |-> 0, job |-> 0,
   session |-> 0, token |-> <<>>, again |-> FALSE, server |-> None, read |-> None,
   parent |-> 0, shown |-> None, saveAs |-> FALSE, relinked |-> FALSE]

\* HDRGradeSaving.active(): the session shown is a photo of the Library.
Active(pg) == pg.session # 0 /\ pg.grade

\* What the project open compares after the file dialog.
documentTransitionToken(pg) == <<pg.session, pg.edits, pg.dirty>>

\* Forgets the session shown, before another one is installed.
Retire(pg) == [pg EXCEPT !.session = 0, !.doc = None, !.edits = {}, !.dirty = FALSE]

\* Mutant: opening a photo does not abort the open of a project.
claimSessionReplacement_PhotosOnly(pg) == [pg EXCEPT !.importGeneration = @ + 1]

claimSessionReplacement(pg) ==
  [pg EXCEPT !.importGeneration = @ + 1, !.projectOpenGeneration = @ + 1]

\* Both lines of openings see whether a newer request overtook them.
Stale(pg, op) == op.gen # pg.importGeneration
Aborted(pg, op) == op.pgen # pg.projectOpenGeneration

\* Mutant: the photo shown stays until the next one is there.
openStagedDesktopSource_KeepsShown(pg, os, i) ==
  LET claimed == claimSessionReplacement(pg)
  IN [page |-> [claimed EXCEPT !.gradeOpen = claimed.importGeneration, !.importInProgress = TRUE],
      ops |-> [os EXCEPT ![i].gen = claimed.importGeneration,
                         ![i].job = pg.activeImportJobId,
                         ![i].pc = IF pg.activeImportJobId # 0 THEN "cancelling" ELSE "preparing"]]

\* Claims the page for a photo and shows it empty until the photo is there.
openStagedDesktopSource(pg, os, i) ==
  LET claimed == claimSessionReplacement(pg)
  IN [page |-> [Retire(claimed) EXCEPT !.gradeOpen = claimed.importGeneration,
                                       !.importInProgress = TRUE],
      ops |-> [os EXCEPT ![i].gen = claimed.importGeneration,
                         ![i].job = pg.activeImportJobId,
                         ![i].pc = IF pg.activeImportJobId # 0 THEN "cancelling" ELSE "preparing"]]

\* Aborts the project open in flight and disables the Open button.
BeginProject(pg, os, i) ==
  [page |-> [pg EXCEPT !.projectOpenGeneration = @ + 1, !.openDisabled = TRUE],
   ops |-> [os EXCEPT ![i].pgen = pg.projectOpenGeneration + 1, ![i].pc = "starting"]]

ClaimProject(pg, os, i) ==
  LET claimed == [pg EXCEPT !.importGeneration = @ + 1, !.activeImportJobId = 0]
      taken == [os EXCEPT ![i].gen = claimed.importGeneration,
                          ![i].job = pg.activeImportJobId, ![i].pc = "cancelling"]
  IN IF pg.activeImportJobId # 0 THEN [page |-> claimed, ops |-> taken]
     ELSE BeginProject(claimed, taken, i)

ClaimEject(pg, os, i) ==
  LET claimed == claimSessionReplacement(pg)
  IN [page |-> [claimed EXCEPT !.activeImportJobId = 0],
      ops |-> [os EXCEPT ![i].gen = claimed.importGeneration,
                         ![i].job = pg.activeImportJobId,
                         ![i].pc = IF pg.activeImportJobId # 0 THEN "cancelling" ELSE "clearing"]]

\* The unsaved-changes question is answered, or there was none to ask.
Continue(pg, os, i) ==
  CASE os[i].kind = "photo" -> openStagedDesktopSource(pg, os, i)
    [] os[i].kind = "eject" -> ClaimEject(pg, os, i)
    [] os[i].kind = "project" /\ os[i].again -> ClaimProject(pg, os, i)
    [] os[i].kind = "project" /\ ~os[i].again ->
         [page |-> pg, ops |-> [os EXCEPT ![i].pc = "choosing",
                                          ![i].token = documentTransitionToken(pg)]]

\* A photo of the Library is left through its own saving; a project with
\* unsaved edits asks Save, Discard or Cancel.
confirmUnsavedTransition(pg, os, i) ==
  IF Active(pg)
  THEN [page |-> pg, ops |-> [os EXCEPT ![i].pc = "leaving", ![i].session = pg.session]]
  ELSE IF pg.session # 0 /\ pg.dirty
       THEN [page |-> pg, ops |-> [os EXCEPT ![i].pc = "confirm", ![i].session = pg.session]]
       ELSE Continue(pg, os, i)

\* Installs a session the backend opened; its first picture is drawn after that.
activateDesktopSession(pg, session, content, path) ==
  [pg EXCEPT !.session = session, !.doc = content.doc, !.edits = content.edits,
             !.dirty = FALSE, !.path = path, !.grade = (path = None),
             !.importInProgress = FALSE]

\* What a photo's open does when it ends as the current one.
finishGradeOpen(pg) ==
  [pg EXCEPT !.gradeOpen = 0, !.importInProgress = FALSE, !.activeImportJobId = 0]

\* The end of a project open: only the newest one enables the Open button.
EndProject(pg, os, i) ==
  [page |-> IF Aborted(pg, os[i]) THEN pg ELSE [pg EXCEPT !.openDisabled = FALSE],
   ops |-> [os EXCEPT ![i].pc = "done"]]

\* The end of a save: the transition that waits for it goes on, or is given up.
Finish(pg, os, i, saved) ==
  LET ended == [os EXCEPT ![i].pc = "done"]
      parent == os[i].parent
  IN IF parent = 0 THEN [page |-> pg, ops |-> ended]
     ELSE IF saved THEN Continue(pg, ended, parent)
     ELSE [page |-> pg, ops |-> [ended EXCEPT ![parent].pc = "done"]]

Spend(what) == left[what] > 0 /\ left' = [left EXCEPT ![what] = @ - 1]
Goto(i, pc) == ops' = [ops EXCEPT ![i].pc = pc]
Done(i) == Goto(i, "done")
Becomes(state) == page' = state.page /\ ops' = state.ops

-----------------------------------------------------------------------------
(* What the user does. *)

Init ==
  /\ page = [session |-> 0, doc |-> None, edits |-> {}, dirty |-> FALSE, path |-> None,
             grade |-> FALSE, importGeneration |-> 0, projectOpenGeneration |-> 0,
             activeImportJobId |-> 0, importInProgress |-> FALSE, gradeOpen |-> 0,
             openDisabled |-> FALSE]
  /\ ops = <<>>
  /\ store = [session |-> 0, doc |-> None, edits |-> {}, holder |-> 0]
  /\ jobs = <<>>
  /\ files = [p \in Projects |-> [doc |-> p, edits |-> {}]]
  /\ left \in Scenarios
  /\ sessions = 0
  /\ made = 0 /\ early = {} /\ settled = {}

\* Opening a photo: from the Library, a drop, the command line.
openDesktopSelection(f) ==
  /\ Spend("photos")
  /\ ~(Active(page) /\ page.doc = f)
  /\ Becomes(confirmUnsavedTransition(page, Append(ops, Operation("photo", f, "new")), Len(ops) + 1))
  /\ UNCHANGED <<store, jobs, files, sessions, made, early, settled>>

\* Opening a project: the header's button is disabled during another open,
\* the menu, Recent projects and the command line are not.
openProjectFromPath(p) ==
  /\ Spend("projects")
  /\ Becomes(confirmUnsavedTransition(page, Append(ops, Operation("project", p, "new")), Len(ops) + 1))
  /\ UNCHANGED <<store, jobs, files, sessions, made, early, settled>>

ejectCurrentSession ==
  /\ Spend("ejects")
  /\ page.session # 0
  /\ Becomes(confirmUnsavedTransition(page, Append(ops, Operation("eject", None, "new")), Len(ops) + 1))
  /\ UNCHANGED <<store, jobs, files, sessions, made, early, settled>>

\* Cancel in the status bar, or going back to the Library while a photo loads.
cancelActiveImport ==
  /\ Spend("cancels")
  /\ page.importInProgress \/ page.gradeOpen # 0
  /\ LET loading == page.gradeOpen # 0
         stopped == [(IF loading THEN Retire(page) ELSE page)
                       EXCEPT !.importGeneration = @ + 1, !.activeImportJobId = 0,
                              !.importInProgress = FALSE]
         op == [Operation("cancel", None, "cancelling")
                  EXCEPT !.gen = stopped.importGeneration, !.job = page.activeImportJobId]
     IN IF page.activeImportJobId # 0
        THEN page' = stopped /\ ops' = Append(ops, op)
        ELSE page' = finishGradeOpen(stopped) /\ ops' = Append(ops, [op EXCEPT !.pc = "done"])
  /\ UNCHANGED <<store, jobs, files, sessions, made, early, settled>>

\* Save and Save As of a project; a photo of the Library saves elsewhere.
saveProjectToPath(as) ==
  /\ Spend(IF as THEN "saveAs" ELSE "saves")
  /\ page.session # 0 /\ ~Active(page)
  /\ ops' = Append(ops, [Operation("save", page.path, "flushing")
                           EXCEPT !.saveAs = as, !.shown = page.doc])
  /\ UNCHANGED <<page, store, jobs, files, sessions, made, early, settled>>

\* An operation whose last question is answered, and that may still replace what
\* is shown: one that has only its own first picture to draw does not.
PastQuestion(op) ==
  /\ op.pc \notin {"choosing", "done"}
  /\ op.pc = "showing" => op.kind = "photo" /\ ~Stale(page, op)

\* An edit of the project shown; the controls are locked while a photo loads
\* and behind the question, which is a modal window.
Edit ==
  /\ Spend("edits")
  /\ page.session # 0 /\ ~Active(page) /\ page.gradeOpen = 0
  /\ \A i \in Ops : ops[i].pc # "confirm"
  /\ made' = made + 1
  /\ page' = [page EXCEPT !.edits = @ \union {made'}, !.dirty = TRUE]
  /\ early' = IF \E i \in Ops : PastQuestion(ops[i]) THEN early ELSE early \union {made'}
  /\ UNCHANGED <<ops, store, jobs, files, sessions, settled>>

-----------------------------------------------------------------------------
(* The questions. *)

\* Save, Discard or Cancel.
Answer(i) ==
  /\ ops[i].pc = "confirm"
  /\ \/ /\ Becomes(Continue(page, ops, i))
        /\ settled' = IF page.session = ops[i].session THEN settled \union page.edits ELSE settled
     \/ /\ page.session # 0
        /\ ops' = Append([ops EXCEPT ![i].pc = "saving"],
                         [Operation("save", page.path, "flushing")
                            EXCEPT !.parent = i, !.shown = page.doc])
        /\ UNCHANGED <<page, settled>>
     \/ Done(i) /\ UNCHANGED <<page, settled>>
  /\ UNCHANGED <<store, jobs, files, left, sessions, made, early>>

\* The photo's own saving lets it go, if the backend still has its session and
\* no conflict or Cancel keeps it open.
leave(i) ==
  /\ ops[i].pc = "leaving" /\ store.holder = 0
  /\ \/ /\ store.session = ops[i].session
        /\ Becomes(Continue(page, [ops EXCEPT ![i].session = 0], i))
     \/ Done(i) /\ UNCHANGED page
  /\ UNCHANGED <<store, jobs, files, left, sessions, made, early, settled>>

\* Mutant: the document is not compared again after the file dialog.
Chosen_NotAskedAgain(i) ==
  /\ ops[i].pc = "choosing"
  /\ Becomes(ClaimProject(page, ops, i)) \/ (Done(i) /\ UNCHANGED page)
  /\ UNCHANGED <<store, jobs, files, left, sessions, made, early, settled>>

\* The project file is chosen; edits made meanwhile are asked about again.
Chosen(i) ==
  /\ ops[i].pc = "choosing"
  /\ \/ LET again == [ops EXCEPT ![i].again = TRUE] IN
        Becomes(IF documentTransitionToken(page) = ops[i].token
                THEN ClaimProject(page, ops, i)
                ELSE confirmUnsavedTransition(page, again, i))
     \/ Done(i) /\ UNCHANGED page
  /\ UNCHANGED <<store, jobs, files, left, sessions, made, early, settled>>

\* Save As: any path, or none.
PathChosen(i) ==
  /\ ops[i].pc = "path"
  /\ \/ \E p \in Projects :
          /\ page.session # 0
          /\ ops' = [ops EXCEPT ![i].target = p, ![i].session = page.session, ![i].pc = "writing"]
          /\ UNCHANGED page
     \/ Becomes(Finish(page, ops, i, FALSE))
  /\ UNCHANGED <<store, jobs, files, left, sessions, made, early, settled>>

\* The project's source is missing: the user shows where it is, or gives up.
Relinked(i) ==
  /\ ops[i].pc = "relinking"
  /\ \/ /\ ~Aborted(page, ops[i])
        /\ ops' = [ops EXCEPT ![i].pc = "opening", ![i].server = "sent", ![i].relinked = TRUE]
        /\ UNCHANGED page
     \/ Becomes(EndProject(page, ops, i))
  /\ UNCHANGED <<store, jobs, files, left, sessions, made, early, settled>>

-----------------------------------------------------------------------------
(* Operations go on: an await of the page is over. *)

\* The backend cancels the job the page had; then the claim is looked at.
CancelJob(j) == IF jobs[j].state = "running" THEN [jobs EXCEPT ![j].state = "cancelled"] ELSE jobs

JobCancelled(i) ==
  /\ ops[i].pc = "cancelling"
  /\ jobs' = CancelJob(ops[i].job)
  /\ IF Stale(page, ops[i]) THEN Done(i) /\ UNCHANGED page
     ELSE Becomes(
       CASE ops[i].kind = "photo" -> [page |-> page, ops |-> [ops EXCEPT ![i].pc = "preparing", ![i].job = 0]]
         [] ops[i].kind = "project" -> BeginProject(page, ops, i)
         [] ops[i].kind = "eject" -> [page |-> page, ops |-> [ops EXCEPT ![i].pc = "clearing"]]
         [] ops[i].kind = "cancel" -> [page |-> finishGradeOpen(page), ops |-> [ops EXCEPT ![i].pc = "done"]])
  /\ UNCHANGED <<store, files, left, sessions, made, early, settled>>

\* The open of a photo failed: nothing is shown, unless a newer one took over.
PhotoFails(i) ==
  /\ page' = IF Stale(page, ops[i]) THEN page ELSE finishGradeOpen(Retire(page))
  /\ Done(i)

\* The photo's settings were looked up (grade-saving.js prepare).
Prepared(i) ==
  /\ ops[i].pc = "preparing"
  /\ \/ /\ IF Stale(page, ops[i]) THEN Done(i) ELSE Goto(i, "creating")
        /\ UNCHANGED <<page, left>>
     \/ Spend("faults") /\ PhotoFails(i)
  /\ UNCHANGED <<store, jobs, files, sessions, made, early, settled>>

Created(i) ==
  /\ ops[i].pc = "created"
  /\ IF Stale(page, ops[i]) THEN Goto(i, "dropping") /\ UNCHANGED page
     ELSE /\ Goto(i, "polling")
          /\ page' = [page EXCEPT !.activeImportJobId = ops[i].job]
  /\ UNCHANGED <<store, jobs, files, left, sessions, made, early, settled>>

Refused(i) ==
  /\ ops[i].pc = "refused"
  /\ PhotoFails(i)
  /\ UNCHANGED <<store, jobs, files, left, sessions, made, early, settled>>

\* A job created for an overtaken request is cancelled.
Dropped(i) ==
  /\ ops[i].pc = "dropping"
  /\ jobs' = CancelJob(ops[i].job)
  /\ Done(i)
  /\ UNCHANGED <<page, store, files, left, sessions, made, early, settled>>

Overtaken(i) == Stale(page, ops[i]) \/ page.activeImportJobId # ops[i].job

\* Mutant: a job cancelled by another request is polled for ever.
Polled_OnlyOwnEnd(i) ==
  /\ ops[i].pc = "polling"
  /\ LET state == jobs[ops[i].job].state IN
     \/ Overtaken(i) /\ Done(i) /\ UNCHANGED page
     \/ ~Overtaken(i) /\ state = "ready" /\ Goto(i, "fetching") /\ UNCHANGED page
     \/ ~Overtaken(i) /\ state = "error" /\ PhotoFails(i)
  /\ UNCHANGED <<store, jobs, files, left, sessions, made, early, settled>>

\* A poll of the import job that says something new. The job of the newest
\* request is cancelled when an older request reaches the backend after it.
Polled(i) ==
  /\ ops[i].pc = "polling"
  /\ LET state == jobs[ops[i].job].state IN
     \/ Overtaken(i) /\ Done(i) /\ UNCHANGED page
     \/ ~Overtaken(i) /\ state = "ready" /\ Goto(i, "fetching") /\ UNCHANGED page
     \/ ~Overtaken(i) /\ state = "error" /\ PhotoFails(i)
     \/ ~Overtaken(i) /\ state = "cancelled" /\ page' = finishGradeOpen(page) /\ Done(i)
  /\ UNCHANGED <<store, jobs, files, left, sessions, made, early, settled>>

\* The session of the finished job is fetched; it may be gone already.
Fetched(i) ==
  /\ ops[i].pc = "fetching" /\ store.holder = 0
  /\ IF Overtaken(i) THEN Done(i) /\ UNCHANGED page
     ELSE IF store.session = jobs[ops[i].job].session
          THEN /\ Goto(i, "attaching")
               /\ page' = [page EXCEPT !.activeImportJobId = 0, !.importInProgress = FALSE]
          ELSE PhotoFails(i)
  /\ UNCHANGED <<store, jobs, files, left, sessions, made, early, settled>>

\* The photo's saving is attached (grade-saving.js open) and the photo installed.
Attached(i) ==
  /\ ops[i].pc = "attaching" /\ store.holder = 0
  /\ LET session == jobs[ops[i].job].session IN
     IF Stale(page, ops[i]) THEN Done(i) /\ UNCHANGED page
     ELSE IF store.session # session THEN PhotoFails(i)
     ELSE /\ page' = activateDesktopSession(page, session,
                       [doc |-> ops[i].target, edits |-> {}], None)
          /\ ops' = [ops EXCEPT ![i].pc = "showing", ![i].session = session]
  /\ UNCHANGED <<store, jobs, files, left, sessions, made, early, settled>>

\* The first picture is drawn (the awaits of activateDesktopSession). A photo
\* that was overtaken meanwhile stops there; a project open goes on to the end
\* and switches the saving of Library photos off, whatever is shown by now.
Presented(i) ==
  /\ ops[i].pc = "showing"
  /\ \/ /\ ops[i].kind = "project"
        /\ Becomes(EndProject([page EXCEPT !.grade = FALSE], ops, i))
        /\ UNCHANGED left
     \/ /\ ops[i].kind = "photo"
        /\ page' = IF Stale(page, ops[i]) THEN page ELSE finishGradeOpen(page)
        /\ Done(i)
        /\ UNCHANGED left
     \/ ops[i].kind = "photo" /\ Spend("faults") /\ PhotoFails(i)
  /\ UNCHANGED <<store, jobs, files, sessions, made, early, settled>>

\* Grade polling is paused; the request goes out.
Started(i) ==
  /\ ops[i].pc = "starting"
  /\ IF Aborted(page, ops[i]) THEN Becomes(EndProject(page, ops, i))
     ELSE /\ ops' = [ops EXCEPT ![i].pc = "opening", ![i].server = "sent"]
          /\ UNCHANGED page
  /\ UNCHANGED <<store, jobs, files, left, sessions, made, early, settled>>

\* The answer to a project open, or its abort: the backend goes on regardless.
OpenAnswered(i) ==
  /\ ops[i].pc = "opening"
  /\ \/ Aborted(page, ops[i]) /\ Becomes(EndProject(page, ops, i))
     \/ /\ ~Aborted(page, ops[i]) /\ ops[i].server = "activated"
        /\ page' = activateDesktopSession(page, ops[i].session, ops[i].read, ops[i].target)
        /\ ops' = [ops EXCEPT ![i].server = "shown", ![i].pc = "showing"]
     \/ ~Aborted(page, ops[i]) /\ ops[i].server = "relink" /\ Goto(i, "relinking") /\ UNCHANGED page
     \/ ~Aborted(page, ops[i]) /\ ops[i].server = "bad" /\ Becomes(EndProject(page, ops, i))
  /\ UNCHANGED <<store, jobs, files, left, sessions, made, early, settled>>

\* The session is cleared in the backend and forgotten by the page, whatever
\* the page shows by now.
Cleared(i) ==
  /\ ops[i].pc = "clearing" /\ store.holder = 0
  /\ store' = [store EXCEPT !.session = 0, !.doc = None, !.edits = {}]
  /\ page' = [Retire(page) EXCEPT !.path = None]
  /\ ops' = [ops EXCEPT ![i].pc = "done",
                        ![i].server = IF Stale(page, ops[i]) THEN "cleared late" ELSE @]
  /\ UNCHANGED <<jobs, files, left, sessions, made, early, settled>>

\* Save waits for the edits sent, and reads the path it will save to.
Flushed(i) ==
  /\ ops[i].pc = "flushing" /\ store.holder = 0
  /\ IF page.session # 0 /\ page.session = store.session
     THEN /\ store' = [store EXCEPT !.edits = page.edits]
          /\ ops' = [ops EXCEPT ![i].target = page.path,
                                ![i].pc = IF ops[i].saveAs \/ page.path = None THEN "path" ELSE "granting"]
          /\ UNCHANGED page
     ELSE Becomes(Finish(page, ops, i, FALSE)) /\ UNCHANGED store
  /\ UNCHANGED <<jobs, files, left, sessions, made, early, settled>>

\* The grant for the known path is there: the session shown now is saved.
Granted(i) ==
  /\ ops[i].pc = "granting"
  /\ IF page.session = 0 THEN Becomes(Finish(page, ops, i, FALSE))
     ELSE /\ ops' = [ops EXCEPT ![i].session = page.session, ![i].pc = "writing"]
          /\ UNCHANGED page
  /\ UNCHANGED <<store, jobs, files, left, sessions, made, early, settled>>

SaveAnswered(i) ==
  /\ ops[i].pc \in {"written", "unsaved"}
  /\ IF ops[i].pc = "written"
     THEN Becomes(Finish([page EXCEPT !.path = ops[i].target, !.dirty = FALSE], ops, i, TRUE))
     ELSE Becomes(Finish(page, ops, i, FALSE))
  /\ UNCHANGED <<store, jobs, files, left, sessions, made, early, settled>>

-----------------------------------------------------------------------------
(* The backend. *)

\* ImportJobManager.start: a newer job supersedes the one before it.
start(i) ==
  /\ ops[i].pc = "creating"
  /\ \/ /\ jobs' = Append([j \in DOMAIN jobs |->
                              IF jobs[j].state = "running" THEN [jobs[j] EXCEPT !.state = "cancelled"]
                              ELSE jobs[j]],
                          [doc |-> ops[i].target, state |-> "running", session |-> 0])
        /\ ops' = [ops EXCEPT ![i].job = Len(jobs) + 1, ![i].pc = "created"]
        /\ UNCHANGED left
     \/ Spend("faults") /\ Goto(i, "refused") /\ UNCHANGED jobs
  /\ UNCHANGED <<page, store, files, sessions, made, early, settled>>

\* ImportJobManager._run: only the newest job that is not cancelled activates
\* its session, in one step with reporting ready.
JobEnds(j) ==
  /\ jobs[j].state = "running"
  /\ \/ /\ store.holder = 0
        /\ sessions' = sessions + 1
        /\ store' = [store EXCEPT !.session = sessions', !.doc = jobs[j].doc, !.edits = {}]
        /\ jobs' = [jobs EXCEPT ![j].state = "ready", ![j].session = sessions']
        /\ UNCHANGED left
     \/ /\ Spend("faults")
        /\ jobs' = [jobs EXCEPT ![j].state = "error"]
        /\ UNCHANGED <<store, sessions>>
  /\ UNCHANGED <<page, ops, files, made, early, settled>>

\* open_project reads the file before it asks for the store's lock.
open_project(i) ==
  /\ ops[i].server = "sent"
  /\ \/ /\ ops' = [ops EXCEPT ![i].server = "read", ![i].read = files[ops[i].target]]
        /\ UNCHANGED left
     \/ /\ Spend("faults")
        /\ ops' = [ops EXCEPT ![i].server = "bad"]
  /\ UNCHANGED <<page, store, jobs, files, sessions, made, early, settled>>

\* open_document holds the lock until it is done.
open_document(i) ==
  /\ ops[i].server = "read" /\ store.holder = 0
  /\ store' = [store EXCEPT !.holder = i]
  /\ ops' = [ops EXCEPT ![i].server = "holding"]
  /\ UNCHANGED <<page, jobs, files, left, sessions, made, early, settled>>

\* At the end of _open_document the session is replaced, asked for or not.
activate_session(i) ==
  /\ ops[i].server = "holding"
  /\ \/ /\ sessions' = sessions + 1
        /\ store' = [session |-> sessions', doc |-> ops[i].read.doc,
                     edits |-> ops[i].read.edits, holder |-> 0]
        /\ ops' = [ops EXCEPT ![i].server = "activated", ![i].session = sessions']
        /\ UNCHANGED left
     \/ /\ Spend("faults")
        /\ \E outcome \in {"bad"} \union (IF ops[i].relinked THEN {} ELSE {"relink"}) :
             ops' = [ops EXCEPT ![i].server = outcome]
        /\ store' = [store EXCEPT !.holder = 0]
        /\ UNCHANGED sessions
  /\ UNCHANGED <<page, jobs, files, made, early, settled>>

\* An edit reaches the session it was made in, if the backend still has it.
EditArrives ==
  /\ store.holder = 0
  /\ page.session # 0 /\ page.session = store.session /\ page.edits # store.edits
  /\ store' = [store EXCEPT !.edits = page.edits]
  /\ UNCHANGED <<page, ops, jobs, files, left, sessions, made, early, settled>>

\* save_project: the document is written under the path; 404 for a session
\* that is no longer the current one.
save_project(i) ==
  /\ ops[i].pc = "writing" /\ store.holder = 0
  /\ \/ /\ store.session = ops[i].session
        /\ files' = [files EXCEPT ![ops[i].target] = [doc |-> store.doc, edits |-> store.edits]]
        /\ settled' = settled \union store.edits
        /\ Goto(i, "written")
        /\ UNCHANGED left
     \/ /\ IF store.session = ops[i].session THEN Spend("faults") ELSE UNCHANGED left
        /\ Goto(i, "unsaved")
        /\ UNCHANGED <<files, settled>>
  /\ UNCHANGED <<page, store, jobs, sessions, made, early>>

-----------------------------------------------------------------------------
(* The specification. *)

User ==
  \/ \E f \in Photos : openDesktopSelection(f)
  \/ \E p \in Projects : openProjectFromPath(p)
  \/ \E as \in BOOLEAN : saveProjectToPath(as)
  \/ ejectCurrentSession
  \/ cancelActiveImport
  \/ Edit

Question(i) == Answer(i) \/ Chosen(i) \/ PathChosen(i) \/ Relinked(i)

Resumes(i) ==
  \/ leave(i) \/ JobCancelled(i) \/ Prepared(i) \/ Created(i) \/ Refused(i)
  \/ Dropped(i) \/ Polled(i) \/ Fetched(i) \/ Attached(i) \/ Started(i)
  \/ OpenAnswered(i) \/ Presented(i) \/ Cleared(i) \/ Flushed(i) \/ Granted(i)
  \/ SaveAnswered(i)

Serves(i) ==
  \/ start(i) \/ open_project(i) \/ open_document(i) \/ activate_session(i) \/ save_project(i)

Next ==
  \/ User
  \/ \E i \in Ops : Question(i) \/ Resumes(i) \/ Serves(i)
  \/ \E j \in DOMAIN jobs : JobEnds(j)
  \/ EditArrives

Spec == Init /\ [][Next]_vars

\* The page and the backend go on by themselves; the user need not. Each
\* request takes finitely many steps, so that one condition covers them all.
System ==
  \/ \E i \in Ops : Resumes(i) \/ Serves(i)
  \/ \E j \in DOMAIN jobs : JobEnds(j)

FairSpec == Spec /\ WF_vars(System)

-----------------------------------------------------------------------------
(* Properties. *)

\* The variables have their types.
Content == [doc: Photos \union Projects, edits: SUBSET Made]
TypeOK ==
  /\ page.session \in Nat /\ page.edits \subseteq Made
  /\ page.path \in Projects \union {None} /\ page.doc \in Photos \union Projects \union {None}
  /\ page.activeImportJobId \in 0..Len(jobs) /\ page.gradeOpen \in 0..page.importGeneration
  /\ \A i \in Ops : /\ ops[i].kind \in Kinds /\ ops[i].pc \in Waiting \union Working \union {"done"}
                    /\ ops[i].gen \in 0..page.importGeneration
                    /\ ops[i].pgen \in 0..page.projectOpenGeneration
  /\ store.holder \in 0..Len(ops) /\ store.session \in 0..sessions
  /\ \A j \in DOMAIN jobs : jobs[j].state \in {"running", "ready", "error", "cancelled"}
  /\ files \in [Projects -> Content]
  /\ early \subseteq Made /\ settled \subseteq Made

\* What is shown is what was asked for last: the page installs a session only
\* for the newest request that claimed it, however late the answers to the
\* others come. Cancel stops the import of a photo, not the open of a project.
NewestShown ==
  [][page'.session # page.session /\ page'.session # 0 =>
       \E i \in Ops : /\ ops'[i].session = page'.session
                      /\ \A k \in Ops : ops[k].gen > ops[i].gen =>
                           ops[k].kind = "cancel" /\ ops[i].kind = "project"]_vars

\* An edit of a project made while no transition was past its last question
\* stays on the page until it is in a project file or the user gave it up.
EarlyEditsKept == \A e \in early : e \in page.edits \union settled

\* While the page shows a session the backend has it. The exceptions are the
\* work that the backend finishes although it was overtaken, and an open that
\* is about to be answered: then what the backend has is the session of exactly
\* that request, until it opens the next one. No job that was cancelled, no save
\* and no answer of an older request takes the session from under the page.
Holds(i) ==
  \/ ops[i].server = "activated" /\ store.session = ops[i].session
  \/ ops[i].server = "cleared late" /\ store.session = 0
  \/ /\ ops[i].kind = "photo" /\ Stale(page, ops[i])
     /\ ops[i].job \in DOMAIN jobs /\ jobs[ops[i].job].state = "ready"
     /\ store.session = jobs[ops[i].job].session
PageIsLive ==
  page.session \in {0, store.session} \/ \E i \in Ops : Holds(i)

\* Every operation that waits for the page or the backend gets its answer: no
\* poll, lock or abort leaves one waiting for ever.
Ends == []<>(\A i \in Ops : ops[i].pc \notin Working \ {"saving"})

\* At rest: nothing is in progress, on the page or in the backend.
AtRest ==
  /\ \A i \in Ops : ops[i].pc = "done" /\ ops[i].server \notin {"sent", "read", "holding"}
  /\ \A j \in DOMAIN jobs : jobs[j].state # "running"

\* The loading state of a photo ends with the loading, whatever overtook it.
ControlsUnlock == AtRest => page.gradeOpen = 0 /\ ~page.importInProgress

\* A photo of the Library that is shown is saved by the Library.
PhotosSaveThemselves ==
  AtRest /\ page.session # 0 /\ page.doc \in Photos => page.grade

\* The Open button of the header works again when no project is being opened.
OpenEnabled == AtRest => ~page.openDisabled

\* Superseded work does not replace the session the page shows.
ShownSessionLives == AtRest => page.session \in {0, store.session}

\* No edit of a project is dropped without the question about unsaved changes.
EditsKept == \A e \in Made : e \in page.edits \union settled

\* A project file changes hands only by a Save As of the document shown when
\* the user asked for it.
FilesKeepTheirDocument ==
  [][\A p \in Projects : files'[p].doc # files[p].doc =>
       \E i \in Ops : ops[i].pc = "writing" /\ ops[i].target = p
                      /\ ops[i].saveAs /\ ops[i].shown = files'[p].doc]_vars
=============================================================================
