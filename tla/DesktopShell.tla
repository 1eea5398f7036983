---------------------------- MODULE DesktopShell ----------------------------
(* The desktop application around the page: it starts the backend and the     *)
(* main window, asks before a window or the application closes, and stops     *)
(* everything. The main process knows of the open document only what the page *)
(* told it; commands to the page and calls from it are queues. Left out: the  *)
(* file dialogs, menus, display changes and preferences.                      *)
EXTENDS Naturals, Sequences, FiniteSets, SequencesExt

CONSTANTS
  Paths,      \* project files opened from outside
  Edits,      \* edits the user makes
  Requests,   \* times the user closes, quits or saves
  Faults      \* renderers and backends that stop

ASSUME ShellBounds == Edits \in Nat /\ Requests \in Nat /\ Faults \in Nat /\ IsFiniteSet(Paths)

VARIABLES
  shell,      \* the main process: phase, windows, dialogs, backend
  doc,        \* documentState, as the page last reported it
  page,       \* the editing page
  toPage,     \* commands sent to the page
  toMain,     \* calls of the page on their way
  left,       \* edits, requests, faults and paths still to come
  wanted      \* history: a close was asked for and not given up since

vars == <<shell, doc, page, toPage, toMain, left, wanted>>

Kinds == {"project", "sidecar"}
NoWindow == [open |-> FALSE, ready |-> FALSE, failed |-> FALSE, saving |-> FALSE, leaving |-> FALSE]
NewWindow == [NoWindow EXCEPT !.open = TRUE]
NewPage == [alive |-> FALSE, kind |-> "project", dirty |-> FALSE, known |-> <<>>,
            saves |-> 0, leave |-> FALSE]

Listening == page.alive /\ page.known # <<>>

Spend(k) == left[k] > 0 /\ left' = [left EXCEPT ![k] = @ - 1]

Init ==
  /\ shell = [phase |-> "starting", backend |-> "starting", quit |-> FALSE, force |-> FALSE,
              main |-> NewWindow, library |-> FALSE, asking |-> {}, paths |-> {}, opening |-> {}]
  /\ doc = [kind |-> "project", dirty |-> FALSE]
  /\ page = NewPage
  /\ toPage = <<>> /\ toMain = <<>>
  /\ left = [edit |-> Edits, request |-> Requests, fault |-> Faults, path |-> Cardinality(Paths)]
  /\ wanted = FALSE

-----------------------------------------------------------------------------
\* Closing and stopping.

\* Destroys the windows; what is left is to stop the backend.
beginShutdown(s) ==
  [s EXCEPT !.phase = "stopping", !.quit = TRUE, !.force = TRUE, !.main = NoWindow,
            !.library = FALSE, !.asking = {}, !.opening = {}]

\* The main window is gone; without a window the application ends.
MainClosed(s) ==
  LET closed == [s EXCEPT !.main = NoWindow, !.asking = {}, !.opening = {}]
  IN IF s.library THEN closed ELSE beginShutdown(closed)

\* Mutant: the window closes, the quitting application stays.
CloseOrQuit_Window(s) == MainClosed([s EXCEPT !.force = TRUE])
CloseOrQuit(s) == IF s.quit THEN beginShutdown(s) ELSE MainClosed([s EXCEPT !.force = TRUE])

\* Mutant: changes of a project are not asked about.
requestClose_Unasked(s) ==
  IF s.main.failed THEN [s EXCEPT !.asking = @ \cup {"failed"}]
  ELSE IF doc.kind = "sidecar" THEN [s EXCEPT !.main.leaving = TRUE]
  ELSE CloseOrQuit(s)

\* A renderer that failed cannot save; a photo of the library is left by the
\* page; a project with changes is asked about; everything else closes.
requestClose(s) ==
  IF s.main.failed THEN [s EXCEPT !.asking = @ \cup {"failed"}]
  ELSE IF doc.kind = "sidecar" THEN [s EXCEPT !.main.leaving = TRUE]
  ELSE IF doc.dirty THEN [s EXCEPT !.asking = @ \cup {"close"}]
  ELSE CloseOrQuit(s)

\* The page of a window that is gone is gone with it; a command sent to a page
\* that does not listen yet is lost.
After(s) ==
  /\ shell' = s
  /\ page' = IF s.main.open THEN page ELSE NewPage
  /\ toPage' = IF ~s.main.open THEN <<>>
               ELSE IF s.main.leaving /\ ~shell.main.leaving /\ Listening
                 THEN Append(toPage, "close-photo") ELSE toPage
  /\ toMain' = IF s.main.open THEN toMain ELSE <<>>

\* The user closes the main window.
CloseWindow ==
  /\ shell.main.open /\ shell.asking = {}
  /\ Spend("request")
  /\ After(IF shell.force THEN MainClosed(shell) ELSE requestClose(shell))
  /\ wanted' = shell'.main.open
  /\ UNCHANGED doc

\* The user quits the application; a dialog that is open does not prevent it.
Quit ==
  /\ shell.phase \in {"starting", "running"}
  /\ Spend("request")
  /\ LET s == [shell EXCEPT !.quit = TRUE]
     IN After(IF shell.main.open THEN requestClose(s) ELSE beginShutdown(s))
  /\ wanted' = shell'.main.open
  /\ UNCHANGED doc

\* The answer to "Save changes?": a save closes later, when the page reports
\* that nothing is unsaved.
AnswerSave ==
  /\ "close" \in shell.asking
  /\ shell' = [shell EXCEPT !.asking = @ \ {"close"}, !.main.saving = TRUE]
  /\ toPage' = IF Listening THEN Append(toPage, "save") ELSE toPage
  /\ UNCHANGED <<doc, page, toMain, left, wanted>>

AnswerDiscard ==
  /\ "close" \in shell.asking
  /\ After(CloseOrQuit([shell EXCEPT !.asking = @ \ {"close"}]))
  /\ wanted' = FALSE
  /\ UNCHANGED <<doc, left>>

AnswerCancel ==
  /\ "close" \in shell.asking
  /\ shell' = [shell EXCEPT !.asking = @ \ {"close"}]
  /\ wanted' = FALSE
  /\ UNCHANGED <<doc, page, toPage, toMain, left>>

\* The dialogs of a renderer or a backend that stopped: keep the window, or quit
\* without saving.
AnswerFailure ==
  /\ \E why \in shell.asking \cap {"failed", "backend"} :
       After([shell EXCEPT !.asking = @ \ {why}]) \/ After(beginShutdown(shell))
  /\ UNCHANGED <<doc, left, wanted>>

\* The backend ends within three seconds or is killed; then the process ends.
stopBackend ==
  /\ shell.phase = "stopping"
  /\ shell' = [shell EXCEPT !.phase = "gone", !.backend = "none"]
  /\ UNCHANGED <<doc, page, toPage, toMain, left, wanted>>

\* The system ends the user's session: changes of a project prevent it, those
\* of a photo are kept as recovery.
SessionEnd ==
  /\ shell.main.open
  /\ Spend("request")
  /\ IF doc.kind = "sidecar" \/ ~doc.dirty
     THEN After([beginShutdown(shell) EXCEPT !.phase = "gone", !.backend = "none"])
     ELSE UNCHANGED <<shell, page, toPage, toMain>>
  /\ UNCHANGED <<doc, wanted>>

-----------------------------------------------------------------------------
\* Starting.

\* The backend is ready and the starting page shows: the page is loaded, unless
\* the user closed everything meanwhile.
startBackend ==
  /\ shell.backend = "starting" /\ shell.phase \in {"starting", "stopping"}
  /\ shell' = [shell EXCEPT !.backend = "up",
                            !.phase = IF @ = "starting" THEN "running" ELSE @]
  /\ page' = [page EXCEPT !.alive = shell.main.open /\ shell.phase = "starting"]
  /\ UNCHANGED <<doc, toPage, toMain, left, wanted>>

StartFails ==
  /\ shell.backend = "starting" /\ shell.phase = "starting"
  /\ Spend("fault")
  /\ After(beginShutdown([shell EXCEPT !.backend = "none"]))
  /\ UNCHANGED <<doc, wanted>>

\* macOS opens the main window again; the dock is clicked.
createWindow ==
  /\ shell.phase = "running" /\ shell.backend = "up" /\ ~shell.main.open
  /\ Spend("request")
  /\ shell' = [shell EXCEPT !.main = NewWindow, !.force = FALSE]
  /\ page' = [NewPage EXCEPT !.alive = TRUE]
  /\ UNCHANGED <<doc, toPage, toMain, wanted>>

PopOutLibrary ==
  /\ shell.phase = "running" /\ shell.main.ready /\ ~shell.library
  /\ Spend("request")
  /\ shell' = [shell EXCEPT !.library = TRUE]
  /\ UNCHANGED <<doc, page, toPage, toMain, wanted>>

\* The library window docks, or is closed after the main window.
LibraryClosed ==
  /\ shell.library
  /\ Spend("request")
  /\ shell' = IF shell.main.open THEN [shell EXCEPT !.library = FALSE]
              ELSE beginShutdown([shell EXCEPT !.library = FALSE])
  /\ UNCHANGED <<doc, page, toPage, toMain, wanted>>

RendererGone ==
  /\ page.alive
  /\ Spend("fault")
  /\ shell' = [shell EXCEPT !.main.failed = TRUE, !.main.ready = FALSE, !.asking = @ \cup {"failed"}]
  /\ page' = NewPage /\ toPage' = <<>> /\ toMain' = <<>>
  /\ UNCHANGED <<doc, wanted>>

BackendGone ==
  /\ shell.phase = "running" /\ shell.backend = "up"
  /\ Spend("fault")
  /\ shell' = [shell EXCEPT !.backend = "dead",
                            !.asking = IF shell.main.open THEN @ \cup {"backend"} ELSE @]
  /\ UNCHANGED <<doc, page, toPage, toMain, wanted>>

\* Mutant: a path is taken from the list although no page is ready.
dispatchPendingOpenPaths_Anyway(s) == [s EXCEPT !.paths = {}, !.opening = @ \cup s.paths]

\* A project is opened from outside; while the page is not ready it waits.
dispatchPendingOpenPaths(s) ==
  IF s.main.open /\ s.main.ready THEN [s EXCEPT !.paths = {}, !.opening = @ \cup s.paths] ELSE s

OpenFile ==
  /\ shell.phase \in {"starting", "running"} /\ Spend("path")
  /\ \E p \in Paths \ (shell.paths \cup shell.opening) :
       shell' = dispatchPendingOpenPaths([shell EXCEPT !.paths = @ \cup {p}])
  /\ UNCHANGED <<doc, page, toPage, toMain, wanted>>

\* A path is granted and sent to the page; a page that stopped does not get it.
SendOpen ==
  /\ \E p \in shell.opening :
       /\ shell' = [shell EXCEPT !.opening = @ \ {p}]
       /\ toPage' = IF Listening THEN Append(toPage, p) ELSE toPage
  /\ UNCHANGED <<doc, page, toMain, left, wanted>>

-----------------------------------------------------------------------------
\* The calls of the page, in the order they were made.

rendererReady ==
  /\ toMain # <<>> /\ Head(toMain).call = "ready"
  /\ toMain' = Tail(toMain)
  /\ shell' = dispatchPendingOpenPaths([shell EXCEPT !.main.ready = TRUE])
  /\ UNCHANGED <<doc, page, toPage, left, wanted>>

setDocumentState ==
  /\ toMain # <<>> /\ Head(toMain).call = "state"
  /\ doc' = [kind |-> Head(toMain).kind, dirty |-> Head(toMain).dirty]
  /\ LET s == [shell EXCEPT !.main.saving = @ /\ Head(toMain).dirty]
     IN IF shell.main.saving /\ ~Head(toMain).dirty
        THEN After(CloseOrQuit(s)) /\ UNCHANGED <<left, wanted>>
        ELSE shell' = s /\ toMain' = Tail(toMain) /\ UNCHANGED <<page, toPage, left, wanted>>

completePhotoClose ==
  /\ toMain # <<>> /\ Head(toMain).call = "leave"
  /\ LET s == [shell EXCEPT !.main.leaving = FALSE]
     IN IF shell.main.leaving /\ Head(toMain).allowed
        THEN After(CloseOrQuit(s)) /\ UNCHANGED <<doc, left, wanted>>
        ELSE /\ shell' = s /\ toMain' = Tail(toMain)
             /\ wanted' = (wanted /\ Head(toMain).allowed)
             /\ UNCHANGED <<doc, page, toPage, left>>

-----------------------------------------------------------------------------
\* The page.

Known(p) == <<p.kind, p.dirty>>

\* The page reports its document when the report differs from the last one.
syncDesktopDocumentState(p) ==
  /\ page' = [p EXCEPT !.known = Known(p)]
  /\ toMain' = IF p.known = Known(p) THEN toMain
               ELSE Append(toMain, [call |-> "state", kind |-> p.kind, dirty |-> p.dirty])

PageReady ==
  /\ page.alive /\ page.known = <<>>
  /\ page' = [page EXCEPT !.known = Known(page)]
  /\ toMain' = toMain \o <<[call |-> "ready"], [call |-> "state", kind |-> page.kind, dirty |-> page.dirty]>>
  /\ UNCHANGED <<shell, doc, toPage, left, wanted>>

Edit ==
  /\ Listening /\ Spend("edit")
  /\ page' = [page EXCEPT !.dirty = TRUE]
  /\ UNCHANGED <<shell, doc, toPage, toMain, wanted>>

\* An edit is reported when the controls are drawn next.
RenderControls ==
  /\ Listening /\ page.known # Known(page)
  /\ syncDesktopDocumentState(page)
  /\ UNCHANGED <<shell, doc, toPage, left, wanted>>

\* The user opens another document over this one, having answered for it.
OpenDocument ==
  /\ Listening /\ Spend("request")
  /\ \E kind \in Kinds : syncDesktopDocumentState([page EXCEPT !.kind = kind, !.dirty = FALSE])
  /\ UNCHANGED <<shell, doc, toPage, wanted>>

\* The user saves from the menu.
SaveFromMenu ==
  /\ Listening /\ Spend("request")
  /\ toPage' = Append(toPage, "save")
  /\ UNCHANGED <<shell, doc, page, toMain, wanted>>

\* The save a close waits for was cancelled or failed, and no report of a clean
\* document is on its way.
GivenUp ==
  wanted' = (wanted /\ (shell.main.saving => \E i \in DOMAIN toMain : toMain[i].call = "state" /\ ~toMain[i].dirty))

\* The page handles a command. A save may be cancelled at the file dialog.
HandleSave ==
  /\ Listening /\ toPage # <<>> /\ Head(toPage) = "save"
  /\ toPage' = Tail(toPage)
  /\ \/ page' = [page EXCEPT !.saves = @ + 1] /\ UNCHANGED wanted
     \/ UNCHANGED page /\ GivenUp
  /\ UNCHANGED <<shell, doc, toMain, left>>

\* The save is done, or it failed.
Saved ==
  /\ Listening /\ page.saves > 0
  /\ \/ /\ shell.backend = "up"
        /\ syncDesktopDocumentState([page EXCEPT !.saves = @ - 1, !.dirty = FALSE]) /\ UNCHANGED wanted
     \/ /\ page' = [page EXCEPT !.saves = @ - 1] /\ UNCHANGED toMain
        /\ GivenUp
  /\ UNCHANGED <<shell, doc, toPage, left>>

HandleLeave ==
  /\ Listening /\ toPage # <<>> /\ Head(toPage) = "close-photo"
  /\ toPage' = Tail(toPage)
  /\ page' = [page EXCEPT !.leave = TRUE]
  /\ UNCHANGED <<shell, doc, toMain, left, wanted>>

\* Mutant: a photo that is kept is not reported.
Left_Silent ==
  /\ Listening /\ page.leave
  /\ page' = [page EXCEPT !.leave = FALSE]
  /\ \/ /\ page.kind = "sidecar"
        /\ toMain' = Append(toMain, [call |-> "leave", allowed |-> TRUE])
     \/ UNCHANGED toMain
  /\ UNCHANGED <<shell, doc, toPage, left, wanted>>

\* The photo is left: saved or its changes discarded, or the user or a failure
\* keeps it. A page that shows no photo of the library any more keeps its window.
Left ==
  /\ Listening /\ page.leave
  /\ page' = [page EXCEPT !.leave = FALSE]
  /\ \E allowed \in BOOLEAN :
       /\ allowed => page.kind = "sidecar"
       /\ toMain' = Append(toMain, [call |-> "leave", allowed |-> allowed])
  /\ UNCHANGED <<shell, doc, toPage, left, wanted>>

HandleOpen ==
  /\ Listening /\ toPage # <<>> /\ Head(toPage) \in Paths
  /\ toPage' = Tail(toPage)
  /\ \/ syncDesktopDocumentState([page EXCEPT !.kind = "project", !.dirty = FALSE])
     \/ UNCHANGED <<page, toMain>>
  /\ UNCHANGED <<shell, doc, left, wanted>>

-----------------------------------------------------------------------------
MainSteps == stopBackend \/ startBackend \/ SendOpen \/ rendererReady \/ setDocumentState \/ completePhotoClose
PageSteps == PageReady \/ RenderControls \/ HandleSave \/ Saved \/ HandleLeave \/ Left \/ HandleOpen

Next ==
  \/ CloseWindow \/ Quit \/ AnswerSave \/ AnswerDiscard \/ AnswerCancel \/ AnswerFailure
  \/ stopBackend \/ SessionEnd \/ startBackend \/ StartFails \/ createWindow
  \/ PopOutLibrary \/ LibraryClosed \/ RendererGone \/ BackendGone \/ OpenFile \/ SendOpen
  \/ rendererReady \/ setDocumentState \/ completePhotoClose
  \/ PageReady \/ Edit \/ RenderControls \/ OpenDocument \/ SaveFromMenu \/ HandleSave \/ Saved
  \/ HandleLeave \/ Left \/ HandleOpen

Spec == Init /\ [][Next]_vars

\* The two processes handle what waits for them; users and faults owe nothing.
FairSpec == Spec /\ WF_vars(MainSteps) /\ WF_vars(PageSteps)

-----------------------------------------------------------------------------
TypeOK ==
  /\ shell.phase \in {"starting", "running", "stopping", "gone"}
  /\ shell.backend \in {"none", "starting", "up", "dead"}
  /\ shell.asking \subseteq {"close", "failed", "backend"}
  /\ shell.paths \subseteq Paths /\ shell.opening \subseteq Paths
  /\ doc \in [kind : Kinds, dirty : BOOLEAN]
  /\ page.alive => shell.main.open
  /\ shell.main # NoWindow \/ shell.asking # {} \/ shell.opening # {} => shell.main.open
  /\ toMain # <<>> \/ toPage # <<>> => shell.main.open
  /\ \A i \in DOMAIN toPage : toPage[i] \in Paths \cup {"save", "close-photo"}
  /\ wanted \in BOOLEAN

-----------------------------------------------------------------------------
\* Changes of a project that the main process knows of are not closed without an
\* answer: the window closes only with "Discard" or after the dialog of a renderer
\* or a backend that stopped, whatever opened, saved, crashed or quit meanwhile.
KnownEditsKept ==
  [][shell.main.open /\ ~shell'.main.open /\ doc'.dirty /\ doc'.kind = "project"
     => AnswerDiscard \/ AnswerFailure]_vars

\* A project opened from outside is handed to a page, or its window closed or
\* failed: none is taken from the list for a page that is not there.
PathReachesPage ==
  [][\A p \in shell.paths \cup shell.opening :
       p \notin shell'.paths \cup shell'.opening /\ shell'.main.open /\ ~shell'.main.failed
       => Len(toPage') > Len(toPage) /\ Last(toPage') = p]_vars

\* "Close the photo" that reached the page is answered, so that the user can
\* close the window again when leaving the photo failed or was cancelled.
LeaveAnswered ==
  Contains(toPage, "close-photo") ~> ~shell.main.leaving \/ shell.main.failed

\* The application that was told to quit ends once its main window is closed,
\* also while the library has a window of its own.
QuitEnds == shell.quit /\ ~shell.main.open ~> shell.phase = "gone"

\* "A failed/cancelled save must not close the window" (main.js:1202): a window
\* that a save closes is one whose closing was not given up since. The code does
\* not keep this.
SaveFailureStays ==
  [][setDocumentState /\ shell.main.open /\ ~shell'.main.open => wanted]_vars
=============================================================================
