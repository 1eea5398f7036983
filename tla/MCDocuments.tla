---------------------------- MODULE MCDocuments ----------------------------
\* The instances of Documents that TLC checks: each scenario bounds what the
\* user does and says whether requests may fail.
EXTENDS Documents

Idle == [photos |-> 0, projects |-> 0, saves |-> 0, saveAs |-> 0, ejects |-> 0,
         cancels |-> 0, edits |-> 0, faults |-> 0]

\* Projects opened over one another, with edits and saves between.
EditAndSave == [Idle EXCEPT !.projects = 2, !.saves = 1, !.edits = 2]
SaveElsewhere == [Idle EXCEPT !.projects = 2, !.saveAs = 1, !.edits = 1]
\* Photos and projects opened over one another, cancelled or ejected.
PhotosThenProject == [Idle EXCEPT !.photos = 2, !.projects = 1]
ProjectsAndPhoto == [Idle EXCEPT !.photos = 1, !.projects = 2, !.edits = 1]
Cancelling == [Idle EXCEPT !.photos = 2, !.cancels = 1]
CancelledAndOpened == [Idle EXCEPT !.photos = 1, !.projects = 1, !.cancels = 1]
Ejecting == [Idle EXCEPT !.photos = 1, !.projects = 1, !.ejects = 1, !.edits = 1]
EjectedTwice == [Idle EXCEPT !.projects = 2, !.ejects = 1]
\* A file that cannot be read, a source that is missing, a save that fails.
Failing == [Idle EXCEPT !.photos = 1, !.projects = 1, !.faults = 1]
FailingPhotos == [Idle EXCEPT !.photos = 2, !.faults = 1]
FailingProjects == [Idle EXCEPT !.projects = 2, !.saves = 1, !.edits = 1, !.faults = 1]

All == {EditAndSave, SaveElsewhere, PhotosThenProject, ProjectsAndPhoto, Cancelling,
        CancelledAndOpened, Ejecting, EjectedTwice, Failing, FailingPhotos, FailingProjects}

\* One project opened over another with an edit; a project over a photo.
EditThenOpen == {[Idle EXCEPT !.projects = 2, !.edits = 1]}
OpenOverPhoto == {[Idle EXCEPT !.photos = 1, !.projects = 1]}
=============================================================================
