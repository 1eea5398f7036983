---------------------------- MODULE ProcessProofs ----------------------------
(* Proofs about the application's processes. The desktop shell, for every set *)
(* of paths and any number of edits, requests and faults: known changes of a  *)
(* project are not closed without an answer, and a project opened from        *)
(* outside reaches a page or its window is gone. The Library's helper process *)
(* (LibraryWorker, here W), for any requests, lanes and limits and any number *)
(* of faults: backend and helper agree on what waits, through restarts.       *)
EXTENDS DesktopShell, FiniteSetTheorems, TLAPS

-----------------------------------------------------------------------------
\* The types. A page knows nothing, or the report it made last; its calls have
\* one of three shapes.
Windows == [open : BOOLEAN, ready : BOOLEAN, failed : BOOLEAN, saving : BOOLEAN, leaving : BOOLEAN]

Shells ==
  [phase : {"starting", "running", "stopping", "gone"},
   backend : {"none", "starting", "up", "dead"}, quit : BOOLEAN, force : BOOLEAN,
   main : Windows, library : BOOLEAN, asking : SUBSET {"close", "failed", "backend"},
   paths : SUBSET Paths, opening : SUBSET Paths]

Pages ==
  [alive : BOOLEAN, kind : Kinds, dirty : BOOLEAN, known : {<<>>} \cup (Kinds \X BOOLEAN),
   saves : Nat, leave : BOOLEAN]

StateCalls == [call : {"state"}, kind : Kinds, dirty : BOOLEAN]
LeaveCalls == [call : {"leave"}, allowed : BOOLEAN]
Calls == [call : {"ready"}] \cup StateCalls \cup LeaveCalls

Commands == Paths \cup {"save", "close-photo"}

ShellTypes == shell \in Shells /\ doc \in [kind : Kinds, dirty : BOOLEAN] /\ wanted \in BOOLEAN
PageTypes == page \in Pages /\ toPage \in Seq(Commands) /\ toMain \in Seq(Calls)

-----------------------------------------------------------------------------
\* The strengthening. What belongs to a window or a page is gone with it.
WindowGone ==
  ~shell.main.open => /\ shell.main = NoWindow /\ shell.asking = {} /\ shell.opening = {}
                      /\ page = NewPage /\ toPage = <<>>
OpenMeansUp == shell.main.open => ~shell.force /\ shell.phase \in {"starting", "running"}
PageGone == ~page.alive => page = NewPage
NothingBeforeStart == shell.phase = "starting" => ~page.alive /\ ~doc.dirty

\* Only a page that listens is ready, has calls on their way and is sent paths.
ReadyListens == shell.main.ready => Listening
CallsListen == toMain # <<>> => Listening
OpeningListens == shell.opening # {} => Listening \/ shell.main.failed

\* What the main process will hold the document to be after the first n calls.
Says(calls, kind, n, said) ==
  \/ \E j \in 1..n : /\ calls[j].call = "state" /\ calls[j].kind = said
                     /\ \A k \in (j + 1)..n : calls[k].call # "state"
  \/ kind = said /\ \A k \in 1..n : calls[k].call # "state"

\* The page's document is the one its last report names, and a photo that may
\* be closed was reported before.
KnownIsShown == Listening => page.known[1] = page.kind /\ Says(toMain, doc.kind, Len(toMain), page.kind)
LeaveSaid ==
  \A i \in 1..Len(toMain) :
    toMain[i].call = "leave" /\ toMain[i].allowed = TRUE => Says(toMain, doc.kind, i - 1, "sidecar")

Types == ShellTypes /\ PageTypes
Windowing == WindowGone /\ OpenMeansUp /\ PageGone /\ NothingBeforeStart
Listeners == ReadyListens /\ CallsListen /\ OpeningListens
Reports == KnownIsShown /\ LeaveSaid
ShellInv == Types /\ Windowing /\ Listeners /\ Reports

-----------------------------------------------------------------------------
\* Reports: a call appended behind the others changes nothing before it.
LEMMA SaysBefore ==
  ASSUME NEW calls \in Seq(Calls), NEW c \in Calls, NEW kind, NEW said, NEW n \in 0..Len(calls),
         Says(calls, kind, n, said)
  PROVE  Says(Append(calls, c), kind, n, said)
  BY DEF Says

LEMMA SaysOther ==
  ASSUME NEW calls \in Seq(Calls), NEW c \in Calls, NEW kind, NEW said, c.call # "state",
         Says(calls, kind, Len(calls), said)
  PROVE  Says(Append(calls, c), kind, Len(Append(calls, c)), said)
  BY DEF Says

LEMMA SaysState ==
  ASSUME NEW calls \in Seq(Calls), NEW c \in Calls, NEW kind, c.call = "state"
  PROVE  Says(Append(calls, c), kind, Len(Append(calls, c)), c.kind)
<1> DEFINE n == Len(Append(calls, c))
<1>1. n \in 1..n /\ Append(calls, c)[n] = c
  OBVIOUS
<1>2. \A k \in (n + 1)..n : Append(calls, c)[k].call # "state"
  BY <1>1
<1> QED
  BY <1>1, <1>2 DEF Says

\* A report that is handled is what the main process holds from then on.
LEMMA SaysTailState ==
  ASSUME NEW calls \in Seq(Calls), calls # <<>>, Head(calls).call = "state", NEW kind, NEW said,
         NEW n \in 1..Len(calls), Says(calls, kind, n, said)
  PROVE  Says(Tail(calls), Head(calls).kind, n - 1, said)
  BY DEF Says

LEMMA SaysTailOther ==
  ASSUME NEW calls \in Seq(Calls), calls # <<>>, Head(calls).call # "state", NEW kind, NEW said,
         NEW n \in 1..Len(calls), Says(calls, kind, n, said)
  PROVE  Says(Tail(calls), kind, n - 1, said)
  BY DEF Says

-----------------------------------------------------------------------------
\* What a step may not do: the two action properties.
KnownStep ==
  shell.main.open /\ ~shell'.main.open /\ doc'.dirty /\ doc'.kind = "project"
  => AnswerDiscard \/ AnswerFailure
PathStep ==
  \A p \in shell.paths \cup shell.opening :
    p \notin shell'.paths \cup shell'.opening /\ shell'.main.open /\ ~shell'.main.failed
    => Len(toPage') > Len(toPage) /\ Last(toPage') = p

\* A state of the main process that After may follow with: either the window is
\* gone with its dialogs, or it is the window that was open.
Follows(s) ==
  /\ s \in Shells
  /\ s.phase = "starting" => shell.phase = "starting"
  /\ ~s.main.open => s.main = NoWindow /\ s.asking = {} /\ s.opening = {}
  /\ s.main.open => /\ shell.main.open /\ s.phase = shell.phase /\ s.force = shell.force
                    /\ s.main.ready = shell.main.ready /\ s.main.failed = shell.main.failed
                    /\ s.opening = shell.opening /\ s.paths = shell.paths

\* Whatever closes the window, or keeps it and asks, keeps the invariant.
LEMMA AfterKeeps ==
  ASSUME ShellInv, NEW s, Follows(s), After(s), wanted' \in BOOLEAN,
         doc' \in [kind : Kinds, dirty : BOOLEAN],
         doc' = doc \/ (~s.main.open /\ shell.phase # "starting")
  PROVE  ShellInv' /\ PathStep
<1> USE DEF ShellInv
<1>1. CASE s.main.open
  <2>1. shell' = s /\ page' = page /\ toMain' = toMain /\ doc' = doc
    BY <1>1 DEF After
  <2>2. toPage' \in Seq(Commands)
    BY <1>1 DEF After, Types, PageTypes, Commands
  <2>3. Types'
    BY <2>1, <2>2 DEF Types, ShellTypes, PageTypes, Follows
  <2>4. Windowing'
    BY <1>1, <2>1 DEF Windowing, WindowGone, OpenMeansUp, PageGone, NothingBeforeStart, Follows
  <2>5. Listeners'
    BY <1>1, <2>1 DEF Listeners, ReadyListens, CallsListen, OpeningListens, Listening, Follows
  <2>6. Reports'
    BY <2>1 DEF Reports, KnownIsShown, LeaveSaid, Listening, Says
  <2>7. PathStep
    BY <1>1, <2>1 DEF PathStep, Follows
  <2> QED
    BY <2>3, <2>4, <2>5, <2>6, <2>7
<1>2. CASE ~s.main.open
  <2>1. shell' = s /\ page' = NewPage /\ toPage' = <<>> /\ toMain' = <<>>
    BY <1>2 DEF After
  <2>2. shell'.main = NoWindow /\ shell'.opening = {} /\ shell'.asking = {}
    BY <1>2, <2>1 DEF Follows
  <2>3. NewPage \in Pages
    BY DEF NewPage, Pages, Kinds
  <2>4. Types'
    BY <2>1, <2>3 DEF Types, ShellTypes, PageTypes, Follows
  <2>5. Windowing'
    BY <1>2, <2>1, <2>2 DEF Windowing, WindowGone, OpenMeansUp, PageGone, NothingBeforeStart, Follows, NewPage, NoWindow
  <2>6. Listeners'
    BY <2>1, <2>2 DEF Listeners, ReadyListens, CallsListen, OpeningListens, NoWindow
  <2>7. Reports'
    BY <2>1 DEF Reports, KnownIsShown, LeaveSaid, Listening, NewPage
  <2>8. PathStep
    BY <2>1, <1>2 DEF PathStep
  <2> QED
    BY <2>4, <2>5, <2>6, <2>7, <2>8
<1> QED
  BY <1>1, <1>2

\* The shutdown of a state leaves no window.
LEMMA ShutdownFollows ==
  ASSUME NEW s \in Shells
  PROVE  /\ beginShutdown(s) \in Shells /\ beginShutdown(s).main = NoWindow
         /\ beginShutdown(s).asking = {} /\ beginShutdown(s).opening = {}
         /\ beginShutdown(s).phase = "stopping" /\ Follows(beginShutdown(s))
  BY DEF beginShutdown, Follows, Shells, Windows, NoWindow

\* So does closing the main window, whether the application goes on or not.
LEMMA CloseFollows ==
  ASSUME NEW s \in Shells, s.phase = "starting" => shell.phase = "starting"
  PROVE  ~MainClosed(s).main.open /\ Follows(MainClosed(s))
<1> DEFINE c == [s EXCEPT !.main = NoWindow, !.asking = {}, !.opening = {}]
<1>1. c \in Shells /\ c.main = NoWindow /\ c.asking = {} /\ c.opening = {} /\ c.phase = s.phase
  BY DEF Shells, Windows, NoWindow
<1>2. MainClosed(s) = IF s.library THEN c ELSE beginShutdown(c)
  BY DEF MainClosed
<1>3. Follows(c) /\ ~c.main.open
  BY <1>1 DEF Follows, NoWindow
<1>4. Follows(beginShutdown(c)) /\ ~beginShutdown(c).main.open
  BY <1>1, ShutdownFollows DEF NoWindow
<1> QED
  BY <1>2, <1>3, <1>4

LEMMA CloseOrQuitFollows ==
  ASSUME NEW s \in Shells, s.phase = "starting" => shell.phase = "starting"
  PROVE  ~CloseOrQuit(s).main.open /\ Follows(CloseOrQuit(s))
<1> DEFINE f == [s EXCEPT !.force = TRUE]
<1>1. f \in Shells /\ f.phase = s.phase
  BY DEF Shells
<1>2. ~MainClosed(f).main.open /\ Follows(MainClosed(f))
  BY <1>1, CloseFollows
<1>3. ~beginShutdown(s).main.open /\ Follows(beginShutdown(s))
  BY ShutdownFollows DEF NoWindow
<1> QED
  BY <1>2, <1>3 DEF CloseOrQuit

\* A close of the window asks, waits for the page or closes; without an answer
\* it closes only what has no changes known.
LEMMA RequestFollows ==
  ASSUME Types, shell.main.open, NEW s \in Shells, s.main = shell.main, s.phase = shell.phase,
         s.force = shell.force, s.opening = shell.opening, s.paths = shell.paths
  PROVE  /\ Follows(requestClose(s))
         /\ doc.kind = "project" /\ doc.dirty => requestClose(s).main.open
<1> USE DEF Types
<1>1. CASE s.main.failed
  <2>1. requestClose(s) = [s EXCEPT !.asking = @ \cup {"failed"}]
    BY <1>1 DEF requestClose
  <2> QED
    BY <2>1 DEF Follows, Shells, Windows
<1>2. CASE ~s.main.failed /\ doc.kind = "sidecar"
  <2>1. requestClose(s) = [s EXCEPT !.main.leaving = TRUE]
    BY <1>2 DEF requestClose
  <2>2. [s.main EXCEPT !.leaving = TRUE] \in Windows
    BY DEF Shells, Windows
  <2>3. /\ requestClose(s) \in Shells
        /\ requestClose(s).main = [s.main EXCEPT !.leaving = TRUE]
        /\ requestClose(s).phase = s.phase /\ requestClose(s).force = s.force
        /\ requestClose(s).opening = s.opening /\ requestClose(s).paths = s.paths
    BY <2>1, <2>2 DEF Shells
  <2>4. requestClose(s).main.open /\ requestClose(s).main.ready = s.main.ready
        /\ requestClose(s).main.failed = s.main.failed
    BY <2>3 DEF Shells, Windows
  <2> QED
    BY <1>2, <2>3, <2>4 DEF Follows
<1>3. CASE ~s.main.failed /\ doc.kind # "sidecar" /\ doc.dirty
  <2>1. requestClose(s) = [s EXCEPT !.asking = @ \cup {"close"}]
    BY <1>3 DEF requestClose
  <2> QED
    BY <2>1 DEF Follows, Shells, Windows
<1>4. CASE ~s.main.failed /\ doc.kind # "sidecar" /\ ~doc.dirty
  <2>1. requestClose(s) = CloseOrQuit(s)
    BY <1>4 DEF requestClose
  <2> QED
    BY <1>4, <2>1, CloseOrQuitFollows
<1> QED
  BY <1>1, <1>2, <1>3, <1>4

-----------------------------------------------------------------------------
\* Closing: the actions that go through After.
LEMMA CloseWindowKeeps ==
  ASSUME ShellInv, CloseWindow
  PROVE  ShellInv' /\ KnownStep /\ PathStep
<1>1. Types /\ shell \in Shells /\ shell.main.open /\ ~shell.force
  BY DEF ShellInv, Types, ShellTypes, Windowing, OpenMeansUp, CloseWindow
<1>2. After(requestClose(shell)) /\ doc' = doc
  BY <1>1 DEF CloseWindow
<1>3. Follows(requestClose(shell)) /\ (doc.kind = "project" /\ doc.dirty => requestClose(shell).main.open)
  BY <1>1, RequestFollows
<1>4. wanted' \in BOOLEAN /\ shell' = requestClose(shell)
  BY <1>2, <1>3 DEF CloseWindow, After, Follows, Shells, Windows
<1>5. ShellInv' /\ PathStep
  BY <1>1, <1>2, <1>3, <1>4, AfterKeeps DEF Types, ShellTypes
<1> QED
  BY <1>2, <1>3, <1>4, <1>5 DEF KnownStep

LEMMA QuitKeeps ==
  ASSUME ShellInv, Quit
  PROVE  ShellInv' /\ KnownStep /\ PathStep
<1> DEFINE s == [shell EXCEPT !.quit = TRUE]
           t == IF shell.main.open THEN requestClose(s) ELSE beginShutdown(s)
<1>1. Types /\ s \in Shells /\ s.main = shell.main /\ s.phase = shell.phase /\ s.force = shell.force
      /\ s.opening = shell.opening /\ s.paths = shell.paths
  BY DEF ShellInv, Types, ShellTypes, Shells
<1>2. After(t) /\ doc' = doc
  BY DEF Quit
<1>3. Follows(t) /\ (shell.main.open /\ doc.kind = "project" /\ doc.dirty => t.main.open)
  BY <1>1, RequestFollows, ShutdownFollows
<1>4. wanted' \in BOOLEAN /\ shell' = t
  BY <1>2, <1>3 DEF Quit, After, Follows, Shells, Windows
<1>5. ShellInv' /\ PathStep
  BY <1>1, <1>2, <1>3, <1>4, AfterKeeps DEF Types, ShellTypes
<1> QED
  BY <1>2, <1>3, <1>4, <1>5 DEF KnownStep

LEMMA AnswerDiscardKeeps ==
  ASSUME ShellInv, AnswerDiscard
  PROVE  ShellInv' /\ KnownStep /\ PathStep
<1> DEFINE s == [shell EXCEPT !.asking = @ \ {"close"}]
<1>1. s \in Shells /\ s.phase = shell.phase /\ doc \in [kind : Kinds, dirty : BOOLEAN]
  BY DEF ShellInv, Types, ShellTypes, Shells
<1>2. After(CloseOrQuit(s)) /\ doc' = doc /\ wanted' \in BOOLEAN
  BY DEF AnswerDiscard
<1>3. Follows(CloseOrQuit(s))
  BY <1>1, CloseOrQuitFollows
<1>4. ShellInv' /\ PathStep
  BY <1>1, <1>2, <1>3, AfterKeeps
<1> QED
  BY <1>4 DEF KnownStep

LEMMA AnswerFailureKeeps ==
  ASSUME ShellInv, AnswerFailure
  PROVE  ShellInv' /\ KnownStep /\ PathStep
<1>1. shell \in Shells /\ doc \in [kind : Kinds, dirty : BOOLEAN] /\ doc' = doc /\ wanted' \in BOOLEAN
  BY DEF ShellInv, Types, ShellTypes, AnswerFailure
<1>2. PICK why \in shell.asking : After([shell EXCEPT !.asking = @ \ {why}]) \/ After(beginShutdown(shell))
  BY DEF AnswerFailure
<1>3. shell.main.open
  BY <1>1, <1>2 DEF ShellInv, Windowing, WindowGone
<1>4. Follows([shell EXCEPT !.asking = @ \ {why}])
  BY <1>1, <1>3 DEF Follows, Shells
<1>5. Follows(beginShutdown(shell))
  BY <1>1, ShutdownFollows
<1>6. ShellInv' /\ PathStep
  BY <1>1, <1>2, <1>4, <1>5, AfterKeeps
<1> QED
  BY <1>6 DEF KnownStep

LEMMA SessionEndKeeps ==
  ASSUME ShellInv, SessionEnd
  PROVE  ShellInv' /\ KnownStep /\ PathStep
<1> DEFINE t == [beginShutdown(shell) EXCEPT !.phase = "gone", !.backend = "none"]
<1>1. shell \in Shells /\ doc \in [kind : Kinds, dirty : BOOLEAN] /\ wanted \in BOOLEAN
      /\ doc' = doc /\ wanted' = wanted
  BY DEF ShellInv, Types, ShellTypes, SessionEnd
<1>2. CASE doc.kind = "sidecar" \/ ~doc.dirty
  <2>1. After(t)
    BY <1>2 DEF SessionEnd
  <2>2. PICK b \in Shells : b = beginShutdown(shell)
    BY <1>1, ShutdownFollows
  <2>3. b.main = NoWindow /\ b.asking = {} /\ b.opening = {}
    BY <1>1, <2>2, ShutdownFollows
  <2>4. t = [b EXCEPT !.phase = "gone", !.backend = "none"]
    BY <2>2
  <2>5. t \in Shells /\ t.main = NoWindow /\ t.asking = {} /\ t.opening = {} /\ t.phase = "gone"
    BY <2>3, <2>4 DEF Shells
  <2>6. Follows(t)
    BY <2>5 DEF Follows, NoWindow
  <2>7. ShellInv' /\ PathStep
    BY <1>1, <2>1, <2>6, AfterKeeps
  <2> QED
    BY <1>1, <1>2, <2>7 DEF KnownStep
<1>3. CASE ~(doc.kind = "sidecar" \/ ~doc.dirty)
  <2>1. shell.main.open /\ shell' = shell /\ page' = page /\ toPage' = toPage /\ toMain' = toMain
    BY <1>3 DEF SessionEnd
  <2>2. After(shell)
    BY <2>1 DEF After
  <2>3. Follows(shell)
    BY <1>1, <2>1 DEF Follows
  <2>4. ShellInv' /\ PathStep
    BY <1>1, <2>2, <2>3, AfterKeeps
  <2> QED
    BY <2>1, <2>4 DEF KnownStep
<1> QED
  BY <1>2, <1>3

LEMMA StartFailsKeeps ==
  ASSUME ShellInv, StartFails
  PROVE  ShellInv' /\ KnownStep /\ PathStep
<1> DEFINE s == [shell EXCEPT !.backend = "none"]
<1>1. s \in Shells /\ doc \in [kind : Kinds, dirty : BOOLEAN] /\ doc' = doc /\ wanted' \in BOOLEAN
  BY DEF ShellInv, Types, ShellTypes, Shells, StartFails
<1>2. After(beginShutdown(s)) /\ Follows(beginShutdown(s))
  BY <1>1, ShutdownFollows DEF StartFails
<1>3. ShellInv' /\ PathStep
  BY <1>1, <1>2, AfterKeeps
<1> QED
  BY <1>1, <1>3 DEF KnownStep, ShellInv, Windowing, NothingBeforeStart, StartFails

-----------------------------------------------------------------------------
\* The steps of the main process that leave the page and its calls alone.
LEMMA ShellOnly ==
  ASSUME ShellInv, page' = page, doc' = doc, toMain' = toMain, wanted' \in BOOLEAN,
         toPage' \in Seq(Commands), shell' \in Shells, shell'.main.open = shell.main.open,
         ~shell'.main.open => /\ shell'.main = NoWindow /\ shell'.asking = {} /\ shell'.opening = {}
                              /\ toPage' = <<>>,
         shell'.main.open => ~shell'.force /\ shell'.phase \in {"starting", "running"},
         shell'.phase = "starting" => shell.phase = "starting",
         shell'.main.ready => Listening,
         shell'.opening # {} => Listening \/ shell'.main.failed
  PROVE  ShellInv' /\ KnownStep
<1> USE DEF ShellInv
<1>1. Types'
  BY DEF Types, ShellTypes, PageTypes
<1>2. Windowing'
  BY DEF Windowing, WindowGone, OpenMeansUp, PageGone, NothingBeforeStart
<1>3. Listeners'
  BY DEF Listeners, ReadyListens, CallsListen, OpeningListens, Listening
<1>4. Reports'
  BY DEF Reports, KnownIsShown, LeaveSaid, Listening, Says
<1>5. KnownStep
  BY DEF KnownStep
<1> QED
  BY <1>1, <1>2, <1>3, <1>4, <1>5

\* What the invariant says of the window and of the queues, for the lemmas below.
LEMMA ShellFacts ==
  ASSUME ShellInv
  PROVE  /\ shell \in Shells /\ shell.main \in Windows /\ doc \in [kind : Kinds, dirty : BOOLEAN]
         /\ wanted \in BOOLEAN /\ page \in Pages /\ toPage \in Seq(Commands) /\ toMain \in Seq(Calls)
         /\ ~shell.main.open => /\ shell.main = NoWindow /\ shell.asking = {} /\ shell.opening = {}
                                /\ page = NewPage /\ toPage = <<>> /\ toMain = <<>>
         /\ shell.main.open => ~shell.force /\ shell.phase \in {"starting", "running"}
         /\ shell.main.ready => Listening
         /\ shell.opening # {} => Listening \/ shell.main.failed
         /\ toMain # <<>> => Listening
         /\ Listening => shell.main.open
  BY DEF ShellInv, Types, ShellTypes, PageTypes, Windowing, WindowGone, OpenMeansUp, Shells,
         Listeners, ReadyListens, CallsListen, OpeningListens, Listening, NewPage

LEMMA AnswerSaveKeeps ==
  ASSUME ShellInv, AnswerSave
  PROVE  ShellInv' /\ KnownStep /\ PathStep
<1>1. shell' = [shell EXCEPT !.asking = @ \ {"close"}, !.main.saving = TRUE]
  BY DEF AnswerSave
<1>2. shell' \in Shells /\ shell'.main = [shell.main EXCEPT !.saving = TRUE]
      /\ shell'.phase = shell.phase /\ shell'.force = shell.force
      /\ shell'.opening = shell.opening /\ shell'.paths = shell.paths
  BY <1>1, ShellFacts DEF Shells, Windows
<1>3. shell'.main.open = shell.main.open /\ shell'.main.ready = shell.main.ready
      /\ shell'.main.failed = shell.main.failed
  BY <1>2, ShellFacts DEF Windows
<1>4. shell.main.open
  BY ShellFacts DEF AnswerSave
<1>5. toPage' \in Seq(Commands)
  BY ShellFacts DEF AnswerSave, Commands
<1>6. page' = page /\ doc' = doc /\ toMain' = toMain /\ wanted' \in BOOLEAN
  BY ShellFacts DEF AnswerSave
<1>7. ShellInv' /\ KnownStep
  BY <1>2, <1>3, <1>4, <1>5, <1>6, ShellFacts, ShellOnly
<1> QED
  BY <1>2, <1>7 DEF PathStep

LEMMA AnswerCancelKeeps ==
  ASSUME ShellInv, AnswerCancel
  PROVE  ShellInv' /\ KnownStep /\ PathStep
<1>1. shell' = [shell EXCEPT !.asking = @ \ {"close"}] /\ shell.main.open
  BY ShellFacts DEF AnswerCancel
<1>2. shell' \in Shells /\ shell'.main = shell.main /\ shell'.phase = shell.phase
      /\ shell'.force = shell.force /\ shell'.opening = shell.opening /\ shell'.paths = shell.paths
  BY <1>1, ShellFacts DEF Shells
<1>3. page' = page /\ doc' = doc /\ toMain' = toMain /\ toPage' = toPage /\ wanted' \in BOOLEAN
  BY DEF AnswerCancel
<1>4. ShellInv' /\ KnownStep
  BY <1>1, <1>2, <1>3, ShellFacts, ShellOnly
<1> QED
  BY <1>2, <1>4 DEF PathStep

LEMMA stopBackendKeeps ==
  ASSUME ShellInv, stopBackend
  PROVE  ShellInv' /\ KnownStep /\ PathStep
<1>1. shell' = [shell EXCEPT !.phase = "gone", !.backend = "none"] /\ ~shell.main.open
  BY ShellFacts DEF stopBackend
<1>2. shell' \in Shells /\ shell'.main = shell.main /\ shell'.phase = "gone"
      /\ shell'.asking = shell.asking /\ shell'.opening = shell.opening /\ shell'.paths = shell.paths
  BY <1>1, ShellFacts DEF Shells
<1>3. page' = page /\ doc' = doc /\ toMain' = toMain /\ toPage' = toPage /\ wanted' \in BOOLEAN
  BY ShellFacts DEF stopBackend
<1>4. ShellInv' /\ KnownStep
  BY <1>1, <1>2, <1>3, ShellFacts, ShellOnly
<1> QED
  BY <1>2, <1>4 DEF PathStep

LEMMA PopOutLibraryKeeps ==
  ASSUME ShellInv, PopOutLibrary
  PROVE  ShellInv' /\ KnownStep /\ PathStep
<1>1. shell' = [shell EXCEPT !.library = TRUE]
  BY DEF PopOutLibrary
<1>2. shell' \in Shells /\ shell'.main = shell.main /\ shell'.phase = shell.phase
      /\ shell'.force = shell.force /\ shell'.asking = shell.asking
      /\ shell'.opening = shell.opening /\ shell'.paths = shell.paths
  BY <1>1, ShellFacts DEF Shells
<1>3. page' = page /\ doc' = doc /\ toMain' = toMain /\ toPage' = toPage /\ wanted' \in BOOLEAN
  BY ShellFacts DEF PopOutLibrary
<1>4. ShellInv' /\ KnownStep
  BY <1>2, <1>3, ShellFacts, ShellOnly
<1> QED
  BY <1>2, <1>4 DEF PathStep

\* The library window is closed last: nothing of the main window is left.
LEMMA LibraryClosedKeeps ==
  ASSUME ShellInv, LibraryClosed
  PROVE  ShellInv' /\ KnownStep /\ PathStep
<1> DEFINE s == [shell EXCEPT !.library = FALSE]
<1>1. s \in Shells /\ s.main = shell.main /\ s.phase = shell.phase /\ s.force = shell.force
      /\ s.asking = shell.asking /\ s.opening = shell.opening /\ s.paths = shell.paths
  BY ShellFacts DEF Shells
<1>2. page' = page /\ doc' = doc /\ toMain' = toMain /\ toPage' = toPage /\ wanted' \in BOOLEAN
  BY ShellFacts DEF LibraryClosed
<1>3. CASE shell.main.open
  <2>1. shell' = s
    BY <1>3 DEF LibraryClosed
  <2>2. ShellInv' /\ KnownStep
    BY <1>1, <1>2, <2>1, ShellFacts, ShellOnly
  <2> QED
    BY <1>1, <2>1, <2>2 DEF PathStep
<1>4. CASE ~shell.main.open
  <2>1. shell' = beginShutdown(s)
    BY <1>4 DEF LibraryClosed
  <2>2. shell' \in Shells /\ shell'.main = NoWindow /\ shell'.asking = {} /\ shell'.opening = {}
        /\ shell'.phase = "stopping"
    BY <1>1, <2>1, ShutdownFollows
  <2>3. shell'.main.open = FALSE /\ shell'.main.ready = FALSE /\ shell.main.open = FALSE
    BY <1>4, <2>2, ShellFacts DEF NoWindow
  <2>4. ShellInv' /\ KnownStep
    BY <1>2, <2>2, <2>3, ShellFacts, ShellOnly
  <2> QED
    BY <2>3, <2>4 DEF PathStep
<1> QED
  BY <1>3, <1>4

LEMMA BackendGoneKeeps ==
  ASSUME ShellInv, BackendGone
  PROVE  ShellInv' /\ KnownStep /\ PathStep
<1>1. shell' = [shell EXCEPT !.backend = "dead",
                             !.asking = IF shell.main.open THEN @ \cup {"backend"} ELSE @]
  BY DEF BackendGone
<1>2. shell' \in Shells /\ shell'.main = shell.main /\ shell'.phase = shell.phase
      /\ shell'.force = shell.force /\ shell'.opening = shell.opening /\ shell'.paths = shell.paths
      /\ (~shell.main.open => shell'.asking = shell.asking)
  BY <1>1, ShellFacts DEF Shells
<1>3. page' = page /\ doc' = doc /\ toMain' = toMain /\ toPage' = toPage /\ wanted' \in BOOLEAN
  BY ShellFacts DEF BackendGone
<1>4. ShellInv' /\ KnownStep
  BY <1>2, <1>3, ShellFacts, ShellOnly
<1> QED
  BY <1>2, <1>4 DEF PathStep

\* Paths are taken only for a window whose page listens, and none is lost.
LEMMA DispatchFacts ==
  ASSUME NEW s \in Shells
  PROVE  /\ dispatchPendingOpenPaths(s) \in Shells
         /\ dispatchPendingOpenPaths(s).main = s.main /\ dispatchPendingOpenPaths(s).phase = s.phase
         /\ dispatchPendingOpenPaths(s).force = s.force /\ dispatchPendingOpenPaths(s).asking = s.asking
         /\ dispatchPendingOpenPaths(s).paths \cup dispatchPendingOpenPaths(s).opening = s.paths \cup s.opening
         /\ dispatchPendingOpenPaths(s).opening = s.opening \/ (s.main.open /\ s.main.ready)
  BY DEF dispatchPendingOpenPaths, Shells

LEMMA OpenFileKeeps ==
  ASSUME ShellInv, OpenFile
  PROVE  ShellInv' /\ KnownStep /\ PathStep
<1>1. PICK p \in Paths : shell' = dispatchPendingOpenPaths([shell EXCEPT !.paths = @ \cup {p}])
  BY DEF OpenFile
<1> DEFINE s == [shell EXCEPT !.paths = @ \cup {p}]
<1>2. s \in Shells /\ s.main = shell.main /\ s.phase = shell.phase /\ s.force = shell.force
      /\ s.asking = shell.asking /\ s.opening = shell.opening /\ s.paths = shell.paths \cup {p}
  BY ShellFacts DEF Shells
<1>3. /\ shell' \in Shells /\ shell'.main = shell.main /\ shell'.phase = shell.phase
      /\ shell'.force = shell.force /\ shell'.asking = shell.asking
      /\ shell'.paths \cup shell'.opening = shell.paths \cup {p} \cup shell.opening
      /\ shell'.opening = shell.opening \/ (shell.main.open /\ shell.main.ready)
  BY <1>1, <1>2, DispatchFacts
<1>4. page' = page /\ doc' = doc /\ toMain' = toMain /\ toPage' = toPage /\ wanted' \in BOOLEAN
  BY ShellFacts DEF OpenFile
<1>5. ShellInv' /\ KnownStep
  BY <1>3, <1>4, ShellFacts, ShellOnly
<1> QED
  BY <1>3, <1>5 DEF PathStep

LEMMA SendOpenKeeps ==
  ASSUME ShellInv, SendOpen
  PROVE  ShellInv' /\ KnownStep /\ PathStep
<1>1. PICK p \in shell.opening :
        /\ shell' = [shell EXCEPT !.opening = @ \ {p}]
        /\ toPage' = IF Listening THEN Append(toPage, p) ELSE toPage
  BY DEF SendOpen
<1>2. p \in Paths /\ shell.main.open
  BY <1>1, ShellFacts DEF Shells
<1>3. shell' \in Shells /\ shell'.main = shell.main /\ shell'.phase = shell.phase
      /\ shell'.force = shell.force /\ shell'.asking = shell.asking /\ shell'.paths = shell.paths
      /\ shell'.opening = shell.opening \ {p}
  BY <1>1, ShellFacts DEF Shells
<1>4. page' = page /\ doc' = doc /\ toMain' = toMain /\ wanted' \in BOOLEAN
  BY ShellFacts DEF SendOpen
<1>5. toPage' \in Seq(Commands)
  BY <1>1, <1>2, ShellFacts DEF Commands
<1>6. ShellInv' /\ KnownStep
  BY <1>2, <1>3, <1>4, <1>5, ShellFacts, ShellOnly
<1>7. Listening \/ shell.main.failed
  BY <1>1, ShellFacts
<1>8. Listening => Len(toPage') > Len(toPage) /\ Last(toPage') = p
  BY <1>1, <1>2, ShellFacts DEF Last, Commands
<1> QED
  BY <1>3, <1>6, <1>7, <1>8 DEF PathStep

-----------------------------------------------------------------------------
\* Starting, stopping and the calls of the page.
LEMMA startBackendKeeps ==
  ASSUME ShellInv, startBackend
  PROVE  ShellInv' /\ KnownStep /\ PathStep
<1>1. /\ shell' \in Shells /\ shell'.main = shell.main /\ shell'.force = shell.force
      /\ shell'.asking = shell.asking /\ shell'.opening = shell.opening /\ shell'.paths = shell.paths
      /\ shell'.phase = IF shell.phase = "starting" THEN "running" ELSE shell.phase
  BY ShellFacts DEF startBackend, Shells
<1>2. doc' = doc /\ toMain' = toMain /\ toPage' = toPage /\ wanted' = wanted
  BY DEF startBackend
<1>3. ~page.alive
  BY ShellFacts DEF startBackend, ShellInv, Windowing, NothingBeforeStart, NewPage
<1>4. page = NewPage /\ toMain = <<>> /\ ~shell.main.ready
  BY <1>3, ShellFacts DEF ShellInv, Windowing, PageGone, Listening
<1>5. page' = [NewPage EXCEPT !.alive = shell.main.open /\ shell.phase = "starting"]
  BY <1>4 DEF startBackend
<1>6. page' \in Pages /\ page'.known = <<>> /\ (page'.alive => shell.main.open)
      /\ (~page'.alive => page' = NewPage)
  BY <1>5, ShellFacts DEF NewPage, Pages, Kinds, Windows
<1>7. Types'
  BY <1>1, <1>2, <1>6, ShellFacts DEF Types, ShellTypes, PageTypes
<1>8. Windowing'
  BY <1>1, <1>2, <1>5, <1>6, ShellFacts
     DEF Windowing, WindowGone, OpenMeansUp, PageGone, NothingBeforeStart, NewPage, startBackend
<1>9. Listeners'
  BY <1>1, <1>2, <1>4, ShellFacts DEF Listeners, ReadyListens, CallsListen, OpeningListens, Listening, NewPage
<1>10. Reports'
  BY <1>2, <1>4, <1>6 DEF Reports, KnownIsShown, LeaveSaid, Listening
<1> QED
  BY <1>1, <1>7, <1>8, <1>9, <1>10 DEF ShellInv, KnownStep, PathStep

LEMMA createWindowKeeps ==
  ASSUME ShellInv, createWindow
  PROVE  ShellInv' /\ KnownStep /\ PathStep
<1>1. NewWindow \in Windows /\ NewWindow.open = TRUE /\ NewWindow.ready = FALSE
  BY DEF NewWindow, NoWindow, Windows
<1>2. /\ shell' = [shell EXCEPT !.main = NewWindow, !.force = FALSE]
      /\ shell.opening = {} /\ shell.main.open = FALSE /\ shell.phase = "running"
  BY ShellFacts DEF createWindow, Windows
<1>3. /\ shell' \in Shells /\ shell'.main = NewWindow /\ shell'.force = FALSE
      /\ shell'.phase = "running" /\ shell'.opening = {} /\ shell'.paths = shell.paths
  BY <1>1, <1>2, ShellFacts DEF Shells
<1>4. doc' = doc /\ wanted' = wanted /\ toMain' = <<>> /\ toPage' = <<>>
  BY ShellFacts DEF createWindow
<1>5. page' \in Pages /\ page'.known = <<>> /\ page'.alive = TRUE
  BY DEF createWindow, NewPage, Pages, Kinds
<1>6. Types'
  BY <1>3, <1>4, <1>5, ShellFacts DEF Types, ShellTypes, PageTypes
<1>7. Windowing'
  BY <1>1, <1>3, <1>4, <1>5 DEF Windowing, WindowGone, OpenMeansUp, PageGone, NothingBeforeStart
<1>8. Listeners'
  BY <1>1, <1>3, <1>4 DEF Listeners, ReadyListens, CallsListen, OpeningListens
<1>9. Reports'
  BY <1>4, <1>5 DEF Reports, KnownIsShown, LeaveSaid, Listening
<1> QED
  BY <1>2, <1>3, <1>6, <1>7, <1>8, <1>9 DEF ShellInv, KnownStep, PathStep

LEMMA RendererGoneKeeps ==
  ASSUME ShellInv, RendererGone
  PROVE  ShellInv' /\ KnownStep /\ PathStep
<1>1. shell.main.open
  BY ShellFacts DEF RendererGone, NewPage
<1>2. shell' = [shell EXCEPT !.main.failed = TRUE, !.main.ready = FALSE, !.asking = @ \cup {"failed"}]
  BY DEF RendererGone
<1>3. [shell.main EXCEPT !.failed = TRUE, !.ready = FALSE] \in Windows
  BY ShellFacts DEF Windows
<1>4. /\ shell' \in Shells /\ shell'.main = [shell.main EXCEPT !.failed = TRUE, !.ready = FALSE]
      /\ shell'.phase = shell.phase /\ shell'.force = shell.force
  BY <1>2, <1>3, ShellFacts DEF Shells, Windows
<1>5. shell'.main.open /\ shell'.main.failed /\ ~shell'.main.ready
  BY <1>1, <1>4, ShellFacts DEF Windows
<1>6. doc' = doc /\ wanted' = wanted /\ toMain' = <<>> /\ toPage' = <<>> /\ page' = NewPage
  BY DEF RendererGone
<1>7. NewPage \in Pages /\ NewPage.alive = FALSE
  BY DEF NewPage, Pages, Kinds
<1>8. Types'
  BY <1>4, <1>6, <1>7, ShellFacts DEF Types, ShellTypes, PageTypes
<1>9. Windowing'
  BY <1>4, <1>5, <1>6, <1>7, ShellFacts
     DEF ShellInv, Windowing, WindowGone, OpenMeansUp, PageGone, NothingBeforeStart
<1>10. Listeners'
  BY <1>5, <1>6 DEF Listeners, ReadyListens, CallsListen, OpeningListens
<1>11. Reports'
  BY <1>6, <1>7 DEF Reports, KnownIsShown, LeaveSaid, Listening
<1> QED
  BY <1>5, <1>8, <1>9, <1>10, <1>11 DEF ShellInv, KnownStep, PathStep

\* The invariant on what was reported survives the handling of the first call.
LEMMA ReportsTail ==
  ASSUME ShellInv, toMain # <<>>, page' = page, toMain' = Tail(toMain),
         IF Head(toMain).call = "state" THEN doc'.kind = Head(toMain).kind ELSE doc'.kind = doc.kind
  PROVE  Reports'
<1> USE DEF ShellInv, Types, PageTypes, Reports
<1>1. ASSUME NEW n \in 1..Len(toMain), NEW said, Says(toMain, doc.kind, n, said)
      PROVE  Says(toMain', doc'.kind, n - 1, said)
  BY <1>1, SaysTailState, SaysTailOther
<1>2. Len(toMain') = Len(toMain) - 1 /\ Len(toMain) \in 1..Len(toMain)
  BY ShellFacts
<1>3. KnownIsShown'
  BY <1>1, <1>2 DEF KnownIsShown, Listening
<1>4. ASSUME NEW i \in 1..Len(toMain'), toMain'[i].call = "leave" /\ toMain'[i].allowed = TRUE
      PROVE  Says(toMain', doc'.kind, i - 1, "sidecar")
  <2>1. i + 1 \in 1..Len(toMain) /\ toMain'[i] = toMain[i + 1] /\ i \in 1..Len(toMain) /\ (i + 1) - 1 = i
    BY <1>2
  <2>2. Says(toMain, doc.kind, i, "sidecar")
    BY <1>4, <2>1 DEF LeaveSaid
  <2> QED
    BY <1>1, <2>1, <2>2
<1> QED
  BY <1>3, <1>4 DEF LeaveSaid

\* A call that leaves the window as it is, but for its own flags.
LEMMA CallKeeps ==
  ASSUME ShellInv, toMain # <<>>, page' = page, toPage' = toPage, toMain' = Tail(toMain),
         wanted' \in BOOLEAN, doc' \in [kind : Kinds, dirty : BOOLEAN],
         IF Head(toMain).call = "state" THEN doc'.kind = Head(toMain).kind ELSE doc'.kind = doc.kind,
         shell' \in Shells, shell'.main.open = shell.main.open, shell'.phase = shell.phase,
         shell'.force = shell.force, shell'.main.failed = shell.main.failed
  PROVE  ShellInv' /\ KnownStep
<1>1. Listening /\ shell.main.open /\ page.alive
  BY ShellFacts DEF Listening
<1>2. Types'
  BY ShellFacts DEF Types, ShellTypes, PageTypes
<1>3. Windowing'
  BY <1>1, ShellFacts DEF ShellInv, Windowing, WindowGone, OpenMeansUp, PageGone, NothingBeforeStart
<1>4. Listeners'
  BY <1>1 DEF Listeners, ReadyListens, CallsListen, OpeningListens, Listening
<1>5. Reports'
  BY ReportsTail
<1>6. KnownStep
  BY <1>1 DEF KnownStep
<1> QED
  BY <1>2, <1>3, <1>4, <1>5, <1>6 DEF ShellInv

LEMMA rendererReadyKeeps ==
  ASSUME ShellInv, rendererReady
  PROVE  ShellInv' /\ KnownStep /\ PathStep
<1> DEFINE s == [shell EXCEPT !.main.ready = TRUE]
<1>1. [shell.main EXCEPT !.ready = TRUE] \in Windows
  BY ShellFacts DEF Windows
<1>2. /\ s \in Shells /\ s.main = [shell.main EXCEPT !.ready = TRUE] /\ s.phase = shell.phase
      /\ s.force = shell.force /\ s.paths = shell.paths /\ s.opening = shell.opening
  BY <1>1, ShellFacts DEF Shells
<1>3. shell' = dispatchPendingOpenPaths(s)
  BY DEF rendererReady
<1>4. /\ shell' \in Shells /\ shell'.main = s.main /\ shell'.phase = s.phase /\ shell'.force = s.force
      /\ shell'.paths \cup shell'.opening = s.paths \cup s.opening
  BY <1>2, <1>3, DispatchFacts
<1>5. shell'.main.open = shell.main.open /\ shell'.main.failed = shell.main.failed
  BY <1>2, <1>4, ShellFacts DEF Windows
<1>6. ShellInv' /\ KnownStep
  BY <1>2, <1>4, <1>5, ShellFacts, CallKeeps DEF rendererReady
<1> QED
  BY <1>2, <1>4, <1>6 DEF PathStep

LEMMA setDocumentStateKeeps ==
  ASSUME ShellInv, setDocumentState
  PROVE  ShellInv' /\ KnownStep /\ PathStep
<1> DEFINE s == [shell EXCEPT !.main.saving = @ /\ Head(toMain).dirty]
<1>1. toMain # <<>> /\ Head(toMain) \in Calls /\ Head(toMain).call = "state"
      /\ doc' = [kind |-> Head(toMain).kind, dirty |-> Head(toMain).dirty]
  BY ShellFacts DEF setDocumentState
<1>2. Head(toMain) \in StateCalls
  BY <1>1 DEF Calls, LeaveCalls
<1>3. doc' \in [kind : Kinds, dirty : BOOLEAN] /\ Head(toMain).dirty \in BOOLEAN
  BY <1>1, <1>2 DEF StateCalls
<1>4. [shell.main EXCEPT !.saving = @ /\ Head(toMain).dirty] \in Windows
  BY <1>3, ShellFacts DEF Windows
<1>5. /\ s \in Shells /\ s.main = [shell.main EXCEPT !.saving = @ /\ Head(toMain).dirty]
      /\ s.phase = shell.phase /\ s.force = shell.force /\ s.paths = shell.paths /\ s.opening = shell.opening
  BY <1>4, ShellFacts DEF Shells
<1>6. shell.phase # "starting" /\ Listening
  BY <1>1, ShellFacts DEF ShellInv, Windowing, NothingBeforeStart, Listening
<1>7. CASE shell.main.saving /\ ~Head(toMain).dirty
  <2>1. After(CloseOrQuit(s)) /\ wanted' = wanted
    BY <1>7 DEF setDocumentState
  <2>2. Follows(CloseOrQuit(s)) /\ ~CloseOrQuit(s).main.open
    BY <1>5, CloseOrQuitFollows
  <2>3. ShellInv' /\ PathStep
    BY <1>3, <1>6, <2>1, <2>2, ShellFacts, AfterKeeps
  <2> QED
    BY <1>1, <1>7, <2>3 DEF KnownStep
<1>8. CASE ~(shell.main.saving /\ ~Head(toMain).dirty)
  <2>1. shell' = s /\ toMain' = Tail(toMain) /\ page' = page /\ toPage' = toPage /\ wanted' = wanted
    BY <1>8 DEF setDocumentState
  <2>2. shell'.main.open = shell.main.open /\ shell'.main.failed = shell.main.failed
    BY <1>5, <2>1, ShellFacts DEF Windows
  <2>3. ShellInv' /\ KnownStep
    BY <1>1, <1>3, <1>5, <2>1, <2>2, ShellFacts, CallKeeps
  <2> QED
    BY <1>5, <2>1, <2>3 DEF PathStep
<1> QED
  BY <1>7, <1>8

\* What closes here is a photo: it was reported before it was left.
LEMMA completePhotoCloseKeeps ==
  ASSUME ShellInv, completePhotoClose
  PROVE  ShellInv' /\ KnownStep /\ PathStep
<1> DEFINE s == [shell EXCEPT !.main.leaving = FALSE]
<1>1. toMain # <<>> /\ Head(toMain) \in Calls /\ Head(toMain).call = "leave" /\ doc' = doc
  BY ShellFacts DEF completePhotoClose
<1>2. Head(toMain) \in LeaveCalls
  BY <1>1 DEF Calls, StateCalls
<1>3. Head(toMain).allowed \in BOOLEAN
  BY <1>2 DEF LeaveCalls
<1>4. [shell.main EXCEPT !.leaving = FALSE] \in Windows
  BY ShellFacts DEF Windows
<1>5. /\ s \in Shells /\ s.main = [shell.main EXCEPT !.leaving = FALSE]
      /\ s.phase = shell.phase /\ s.force = shell.force /\ s.paths = shell.paths /\ s.opening = shell.opening
  BY <1>4, ShellFacts DEF Shells
<1>6. CASE shell.main.leaving /\ Head(toMain).allowed
  <2>1. After(CloseOrQuit(s)) /\ wanted' = wanted
    BY <1>6 DEF completePhotoClose
  <2>2. Follows(CloseOrQuit(s))
    BY <1>5, CloseOrQuitFollows
  <2>3. ShellInv' /\ PathStep
    BY <1>1, <2>1, <2>2, ShellFacts, AfterKeeps
  <2>4. 1 \in 1..Len(toMain) /\ toMain[1] = Head(toMain) /\ 1 - 1 = 0
    BY <1>1, ShellFacts
  <2>5. Says(toMain, doc.kind, 0, "sidecar")
    BY <1>1, <1>3, <1>6, <2>4 DEF ShellInv, Reports, LeaveSaid
  <2>6. doc.kind = "sidecar"
    BY <2>5 DEF Says
  <2> QED
    BY <1>1, <2>3, <2>6 DEF KnownStep
<1>7. CASE ~(shell.main.leaving /\ Head(toMain).allowed)
  <2>1. shell' = s /\ toMain' = Tail(toMain) /\ page' = page /\ toPage' = toPage /\ wanted' \in BOOLEAN
    BY <1>7 DEF completePhotoClose
  <2>2. shell'.main.open = shell.main.open /\ shell'.main.failed = shell.main.failed
    BY <1>5, <2>1, ShellFacts DEF Windows
  <2>3. ShellInv' /\ KnownStep
    BY <1>1, <1>5, <2>1, <2>2, ShellFacts, CallKeeps
  <2> QED
    BY <1>5, <2>1, <2>3 DEF PathStep
<1> QED
  BY <1>6, <1>7

-----------------------------------------------------------------------------
\* The page's own steps.
LEMMA PageKeeps ==
  ASSUME ShellInv, page.alive, shell' = shell, doc' = doc, wanted' \in BOOLEAN,
         page' \in Pages, page'.alive, page'.known # <<>>,
         toPage' \in Seq(Commands), toMain' \in Seq(Calls), Reports'
  PROVE  ShellInv' /\ KnownStep /\ PathStep
<1>1. shell.main.open
  BY ShellFacts DEF NewPage
<1>2. Types'
  BY ShellFacts DEF Types, ShellTypes, PageTypes
<1>3. Windowing'
  BY <1>1 DEF ShellInv, Windowing, WindowGone, OpenMeansUp, PageGone, NothingBeforeStart
<1>4. Listeners'
  BY DEF Listeners, ReadyListens, CallsListen, OpeningListens, Listening
<1> QED
  BY <1>1, <1>2, <1>3, <1>4 DEF ShellInv, KnownStep, PathStep

\* Nothing is called: what was reported is still what is shown.
LEMMA ReportsSame ==
  ASSUME ShellInv, Listening, page'.kind = page.kind, page'.known = page.known,
         toMain' = toMain, doc' = doc
  PROVE  Reports'
  BY DEF ShellInv, Reports, KnownIsShown, LeaveSaid, Listening, Says

\* A change of the document is reported behind the calls on their way.
LEMMA SyncKeeps ==
  ASSUME ShellInv, Listening, NEW p \in Pages, p.alive, p.known = page.known,
         syncDesktopDocumentState(p), doc' = doc
  PROVE  /\ Reports' /\ page' \in Pages /\ page'.alive /\ page'.known # <<>>
         /\ toMain' \in Seq(Calls)
<1> USE DEF ShellInv
<1>1. page' = [p EXCEPT !.known = Known(p)] /\ Known(p) \in Kinds \X BOOLEAN /\ Known(p)[1] = p.kind
  BY DEF syncDesktopDocumentState, Known, Pages
<1>2. page' \in Pages /\ page'.alive /\ page'.known = Known(p) /\ page'.kind = p.kind
  BY <1>1 DEF Pages
<1>3. page'.known # <<>>
  BY <1>2 DEF Known
<1>4. CASE p.known = Known(p)
  <2>1. toMain' = toMain
    BY <1>4 DEF syncDesktopDocumentState
  <2>2. page'.known = page.known /\ page'.kind = page.kind
    BY <1>1, <1>2, <1>4 DEF Reports, KnownIsShown
  <2> QED
    BY <1>2, <1>3, <2>1, <2>2, ReportsSame, ShellFacts
<1>5. CASE p.known # Known(p)
  <2> DEFINE c == [call |-> "state", kind |-> p.kind, dirty |-> p.dirty]
  <2>1. toMain' = Append(toMain, c) /\ c \in Calls /\ c.call = "state" /\ c.kind = p.kind
    BY <1>5 DEF syncDesktopDocumentState, Calls, StateCalls, Pages
  <2>2. toMain \in Seq(Calls) /\ toMain' \in Seq(Calls) /\ Len(toMain') = Len(toMain) + 1
    BY <2>1, ShellFacts
  <2>3. KnownIsShown'
    BY <1>1, <1>2, <2>1, <2>2, SaysState DEF KnownIsShown
  <2>4. ASSUME NEW i \in 1..Len(toMain'), toMain'[i].call = "leave" /\ toMain'[i].allowed = TRUE
        PROVE  Says(toMain', doc'.kind, i - 1, "sidecar")
    <3>1. i \in 1..Len(toMain) /\ toMain'[i] = toMain[i] /\ i - 1 \in 0..Len(toMain)
      BY <2>1, <2>2, <2>4
    <3>2. Says(toMain, doc.kind, i - 1, "sidecar")
      BY <2>4, <3>1 DEF Reports, LeaveSaid
    <3> QED
      BY <2>1, <2>2, <3>1, <3>2, SaysBefore
  <2> QED
    BY <1>2, <1>3, <2>2, <2>3, <2>4 DEF Reports, LeaveSaid
<1> QED
  BY <1>4, <1>5

\* The page's first report names the document it shows.
LEMMA PageReadyKeeps ==
  ASSUME ShellInv, PageReady
  PROVE  ShellInv' /\ KnownStep /\ PathStep
<1> DEFINE r == [call |-> "ready"]
           c == [call |-> "state", kind |-> page.kind, dirty |-> page.dirty]
<1>1. page.alive /\ toMain = <<>>
  BY ShellFacts DEF PageReady, Listening
<1>2. r \in Calls /\ c \in Calls
  BY ShellFacts DEF Calls, StateCalls, Pages
<1>3. toMain' = <<r, c>>
  BY <1>1 DEF PageReady
<1>4. toMain' \in Seq(Calls) /\ Len(toMain') = 2 /\ toMain'[1] = r /\ toMain'[2] = c
  BY <1>2, <1>3
<1>5. page' = [page EXCEPT !.known = Known(page)] /\ Known(page) \in Kinds \X BOOLEAN
      /\ Known(page)[1] = page.kind
  BY ShellFacts DEF PageReady, Known, Pages
<1>6. page' \in Pages /\ page'.alive /\ page'.known = Known(page) /\ page'.kind = page.kind
  BY <1>1, <1>5, ShellFacts DEF Pages
<1>7. Says(toMain', doc'.kind, 2, page'.kind)
  <2>1. 2 \in 1..2 /\ toMain'[2].call = "state" /\ toMain'[2].kind = page'.kind
    BY <1>4, <1>6
  <2>2. \A k \in (2 + 1)..2 : toMain'[k].call # "state"
    OBVIOUS
  <2> QED
    BY <2>1, <2>2 DEF Says
<1>8. Reports'
  <2>1. KnownIsShown'
    BY <1>4, <1>5, <1>6, <1>7 DEF KnownIsShown
  <2>2. \A i \in 1..Len(toMain') : toMain'[i].call # "leave"
    BY <1>4
  <2> QED
    BY <2>1, <2>2 DEF Reports, LeaveSaid
<1>9. page'.known # <<>>
  BY <1>5, <1>6
<1> QED
  BY <1>1, <1>4, <1>6, <1>8, <1>9, ShellFacts, PageKeeps DEF PageReady

LEMMA EditKeeps ==
  ASSUME ShellInv, Edit
  PROVE  ShellInv' /\ KnownStep /\ PathStep
<1>1. page' \in Pages /\ page'.alive /\ page'.known = page.known /\ page'.kind = page.kind
  BY ShellFacts DEF Edit, Listening, Pages
<1> QED
  BY <1>1, ShellFacts, ReportsSame, PageKeeps DEF Edit, Listening

LEMMA RenderControlsKeeps ==
  ASSUME ShellInv, RenderControls
  PROVE  ShellInv' /\ KnownStep /\ PathStep
  BY ShellFacts, SyncKeeps, PageKeeps DEF RenderControls, Listening

LEMMA OpenDocumentKeeps ==
  ASSUME ShellInv, OpenDocument
  PROVE  ShellInv' /\ KnownStep /\ PathStep
<1>1. PICK kind \in Kinds : syncDesktopDocumentState([page EXCEPT !.kind = kind, !.dirty = FALSE])
  BY DEF OpenDocument
<1> DEFINE p == [page EXCEPT !.kind = kind, !.dirty = FALSE]
<1>2. Listening /\ p \in Pages /\ p.alive /\ p.known = page.known
  BY ShellFacts DEF OpenDocument, Listening, Pages
<1>3. /\ Reports' /\ page' \in Pages /\ page'.alive /\ page'.known # <<>> /\ toMain' \in Seq(Calls)
  BY <1>1, <1>2, SyncKeeps DEF OpenDocument
<1> QED
  BY <1>2, <1>3, ShellFacts, PageKeeps DEF OpenDocument, Listening

LEMMA SaveFromMenuKeeps ==
  ASSUME ShellInv, SaveFromMenu
  PROVE  ShellInv' /\ KnownStep /\ PathStep
<1>1. toPage' \in Seq(Commands)
  BY ShellFacts DEF SaveFromMenu, Commands
<1> QED
  BY <1>1, ShellFacts, ReportsSame, PageKeeps DEF SaveFromMenu, Listening

LEMMA GivenUpBoolean ==
  ASSUME wanted \in BOOLEAN, GivenUp
  PROVE  wanted' \in BOOLEAN
  BY Zenon DEF GivenUp

LEMMA HandleSaveKeeps ==
  ASSUME ShellInv, HandleSave
  PROVE  ShellInv' /\ KnownStep /\ PathStep
<1>1. toPage' \in Seq(Commands) /\ wanted' \in BOOLEAN
  BY ShellFacts, GivenUpBoolean DEF HandleSave
<1>2. page' = page \/ page' = [page EXCEPT !.saves = @ + 1]
  BY DEF HandleSave
<1>3. page' \in Pages /\ page'.alive /\ page'.known = page.known /\ page'.kind = page.kind
  BY <1>2, ShellFacts DEF HandleSave, Listening, Pages
<1> QED
  BY <1>1, <1>3, ShellFacts, ReportsSame, PageKeeps DEF HandleSave, Listening

LEMMA SavedKeeps ==
  ASSUME ShellInv, Saved
  PROVE  ShellInv' /\ KnownStep /\ PathStep
<1> DEFINE p == [page EXCEPT !.saves = @ - 1, !.dirty = FALSE]
           q == [page EXCEPT !.saves = @ - 1]
<1>1. page.saves \in Nat /\ page.saves > 0 /\ Listening /\ shell' = shell /\ doc' = doc /\ toPage' = toPage
  BY ShellFacts DEF Saved, Pages
<1>2. page.saves - 1 \in Nat /\ page.alive
  BY <1>1 DEF Listening
<1>3. p \in Pages /\ p.alive /\ p.known = page.known
  BY <1>2, ShellFacts DEF Pages
<1>4. q \in Pages /\ q.alive /\ q.known = page.known /\ q.kind = page.kind
  BY <1>2, ShellFacts DEF Pages
<1>5. CASE syncDesktopDocumentState(p) /\ wanted' = wanted
  BY <1>1, <1>3, <1>5, ShellFacts, SyncKeeps, PageKeeps DEF Listening
<1>6. CASE page' = q /\ toMain' = toMain /\ GivenUp
  BY <1>1, <1>4, <1>6, ShellFacts, GivenUpBoolean, ReportsSame, PageKeeps DEF Listening
<1> QED
  BY <1>5, <1>6 DEF Saved

LEMMA HandleLeaveKeeps ==
  ASSUME ShellInv, HandleLeave
  PROVE  ShellInv' /\ KnownStep /\ PathStep
<1>1. page' \in Pages /\ page'.alive /\ page'.known = page.known /\ page'.kind = page.kind
  BY ShellFacts DEF HandleLeave, Listening, Pages
<1>2. toPage' \in Seq(Commands)
  BY ShellFacts DEF HandleLeave
<1> QED
  BY <1>1, <1>2, ShellFacts, ReportsSame, PageKeeps DEF HandleLeave, Listening

\* A photo may be closed only when the document that was reported last is one.
LEMMA LeftKeeps ==
  ASSUME ShellInv, Left
  PROVE  ShellInv' /\ KnownStep /\ PathStep
<1>1. PICK allowed \in BOOLEAN :
        /\ allowed => page.kind = "sidecar"
        /\ toMain' = Append(toMain, [call |-> "leave", allowed |-> allowed])
  BY DEF Left
<1> DEFINE c == [call |-> "leave", allowed |-> allowed]
<1>2. Listening /\ c \in Calls /\ c.call = "leave" /\ c.allowed = allowed
  BY DEF Left, Calls, LeaveCalls
<1>3. toMain \in Seq(Calls) /\ toMain' \in Seq(Calls) /\ Len(toMain') = Len(toMain) + 1
      /\ Len(Append(toMain, c)) = Len(toMain) + 1
  BY <1>1, <1>2, ShellFacts
<1>4. page' \in Pages /\ page'.alive /\ page'.known = page.known /\ page'.kind = page.kind /\ doc' = doc
  BY ShellFacts DEF Left, Listening, Pages
<1>5. page.known[1] = page.kind /\ Says(toMain, doc.kind, Len(toMain), page.kind)
  BY <1>2 DEF ShellInv, Reports, KnownIsShown
<1>6. Says(toMain', doc'.kind, Len(toMain'), page'.kind)
  BY <1>1, <1>2, <1>3, <1>4, <1>5, SaysOther
<1>7. ASSUME NEW i \in 1..Len(toMain'), toMain'[i].call = "leave" /\ toMain'[i].allowed = TRUE
      PROVE  Says(toMain', doc'.kind, i - 1, "sidecar")
  <2>1. CASE i \in 1..Len(toMain)
    <3>1. toMain'[i] = toMain[i] /\ i - 1 \in 0..Len(toMain)
      BY <1>1, <1>3, <2>1
    <3>2. Says(toMain, doc.kind, i - 1, "sidecar")
      BY <1>7, <2>1, <3>1 DEF ShellInv, Reports, LeaveSaid
    <3> QED
      BY <1>1, <1>2, <1>3, <1>4, <3>1, <3>2, SaysBefore
  <2>2. CASE i = Len(toMain) + 1
    <3>1. toMain'[i] = c /\ i - 1 = Len(toMain) /\ Len(toMain) \in 0..Len(toMain)
      BY <1>1, <1>3, <2>2
    <3>2. page.kind = "sidecar"
      BY <1>1, <1>2, <1>7, <3>1
    <3>3. Says(toMain, doc.kind, Len(toMain), "sidecar")
      BY <1>5, <3>2
    <3>4. Says(Append(toMain, c), doc.kind, Len(toMain), "sidecar")
      BY <1>2, <1>3, <3>1, <3>3, SaysBefore
    <3> QED
      BY <1>1, <1>4, <3>1, <3>4
  <2> QED
    BY <1>3, <2>1, <2>2
<1>8. Reports'
  BY <1>4, <1>5, <1>6, <1>7 DEF Reports, KnownIsShown, LeaveSaid
<1> QED
  BY <1>2, <1>3, <1>4, <1>8, ShellFacts, PageKeeps DEF Left, Listening

LEMMA HandleOpenKeeps ==
  ASSUME ShellInv, HandleOpen
  PROVE  ShellInv' /\ KnownStep /\ PathStep
<1> DEFINE p == [page EXCEPT !.kind = "project", !.dirty = FALSE]
<1>1. Listening /\ p \in Pages /\ p.alive /\ p.known = page.known
  BY ShellFacts DEF HandleOpen, Listening, Pages, Kinds
<1>2. toPage' \in Seq(Commands) /\ shell' = shell /\ doc' = doc /\ wanted' = wanted
  BY ShellFacts DEF HandleOpen
<1>3. CASE syncDesktopDocumentState(p)
  BY <1>1, <1>2, <1>3, ShellFacts, SyncKeeps, PageKeeps DEF Listening
<1>4. CASE page' = page /\ toMain' = toMain
  BY <1>1, <1>2, <1>4, ShellFacts, ReportsSame, PageKeeps DEF Listening
<1> QED
  BY <1>3, <1>4 DEF HandleOpen

-----------------------------------------------------------------------------
LEMMA InitHolds == Init => ShellInv
<1> SUFFICES ASSUME Init PROVE ShellInv
  OBVIOUS
<1>1. NewWindow \in Windows /\ NewWindow.open = TRUE /\ NewWindow.ready = FALSE
  BY DEF NewWindow, NoWindow, Windows
<1>2. NewPage \in Pages /\ NewPage.alive = FALSE /\ NewPage.known = <<>>
  BY DEF NewPage, Pages, Kinds
<1>3. /\ shell \in Shells /\ shell.main = NewWindow /\ shell.phase = "starting"
      /\ shell.force = FALSE /\ shell.opening = {}
  BY <1>1 DEF Init, Shells
<1>4. Types
  <2>1. doc \in [kind : Kinds, dirty : BOOLEAN] /\ wanted \in BOOLEAN
    BY DEF Init, Kinds
  <2>2. page \in Pages /\ toPage \in Seq(Commands) /\ toMain \in Seq(Calls)
    BY <1>2 DEF Init
  <2> QED
    BY <1>3, <2>1, <2>2 DEF Types, ShellTypes, PageTypes
<1>5. Windowing
  BY <1>1, <1>2, <1>3 DEF Init, Windowing, WindowGone, OpenMeansUp, PageGone, NothingBeforeStart
<1>6. Listeners
  BY <1>1, <1>3 DEF Init, Listeners, ReadyListens, CallsListen, OpeningListens
<1>7. Reports
  BY <1>2 DEF Init, Reports, KnownIsShown, LeaveSaid, Listening
<1> QED
  BY <1>4, <1>5, <1>6, <1>7 DEF ShellInv

LEMMA StutterKeeps ==
  ASSUME ShellInv, UNCHANGED vars
  PROVE  ShellInv' /\ KnownStep /\ PathStep
<1>1. shell' = shell /\ doc' = doc /\ page' = page /\ toPage' = toPage /\ toMain' = toMain /\ wanted' = wanted
  BY DEF vars
<1>2. ShellInv' /\ KnownStep
  BY <1>1, ShellFacts, ShellOnly
<1> QED
  BY <1>1, <1>2 DEF PathStep

LEMMA StepKeeps == ShellInv /\ [Next]_vars => ShellInv' /\ KnownStep /\ PathStep
<1> SUFFICES ASSUME ShellInv, [Next]_vars PROVE ShellInv' /\ KnownStep /\ PathStep
  OBVIOUS
<1>1. CASE CloseWindow \/ Quit \/ AnswerSave \/ AnswerDiscard \/ AnswerCancel \/ AnswerFailure
  BY <1>1, CloseWindowKeeps, QuitKeeps, AnswerSaveKeeps, AnswerDiscardKeeps, AnswerCancelKeeps,
     AnswerFailureKeeps
<1>2. CASE stopBackend \/ SessionEnd \/ startBackend \/ StartFails \/ createWindow
  BY <1>2, stopBackendKeeps, SessionEndKeeps, startBackendKeeps, StartFailsKeeps, createWindowKeeps
<1>3. CASE PopOutLibrary \/ LibraryClosed \/ RendererGone \/ BackendGone \/ OpenFile \/ SendOpen
  BY <1>3, PopOutLibraryKeeps, LibraryClosedKeeps, RendererGoneKeeps, BackendGoneKeeps, OpenFileKeeps,
     SendOpenKeeps
<1>4. CASE rendererReady \/ setDocumentState \/ completePhotoClose
  BY <1>4, rendererReadyKeeps, setDocumentStateKeeps, completePhotoCloseKeeps
<1>5. CASE PageReady \/ Edit \/ RenderControls \/ OpenDocument \/ SaveFromMenu \/ HandleSave \/ Saved
  BY <1>5, PageReadyKeeps, EditKeeps, RenderControlsKeeps, OpenDocumentKeeps, SaveFromMenuKeeps,
     HandleSaveKeeps, SavedKeeps
<1>6. CASE HandleLeave \/ Left \/ HandleOpen
  BY <1>6, HandleLeaveKeeps, LeftKeeps, HandleOpenKeeps
<1>7. CASE UNCHANGED vars
  BY <1>7, StutterKeeps
<1> QED
  BY <1>1, <1>2, <1>3, <1>4, <1>5, <1>6, <1>7 DEF Next

\* The invariant of the main process and its page.
THEOREM ShellInvariant == Spec => []ShellInv
<1>1. Init => ShellInv
  BY InitHolds
<1>2. ShellInv /\ [Next]_vars => ShellInv'
  BY StepKeeps
<1> QED
  BY <1>1, <1>2, PTL DEF Spec

\* Whatever opens, saves, crashes or quits meanwhile, a window with changes of a
\* project that the main process knows of closes only with an answer
\* (main.js requestClose, completePhotoClose, setDocumentState, before-quit).
THEOREM KnownEditsAreKept == Spec => KnownEditsKept
<1>1. ShellInv /\ [Next]_vars =>
        [shell.main.open /\ ~shell'.main.open /\ doc'.dirty /\ doc'.kind = "project"
         => AnswerDiscard \/ AnswerFailure]_vars
  BY StepKeeps DEF KnownStep
<1> QED
  BY <1>1, ShellInvariant, PTL DEF Spec, KnownEditsKept

\* A path of a second instance or of the system is taken from the list only for
\* a page that listens, which is sent it, or its window is closed or failed.
THEOREM PathsReachAPage == Spec => PathReachesPage
<1>1. ShellInv /\ [Next]_vars =>
        [\A p \in shell.paths \cup shell.opening :
           p \notin shell'.paths \cup shell'.opening /\ shell'.main.open /\ ~shell'.main.failed
           => Len(toPage') > Len(toPage) /\ Last(toPage') = p]_vars
  BY StepKeeps DEF PathStep
<1> QED
  BY <1>1, ShellInvariant, PTL DEF Spec, PathReachesPage

\* The module's type invariant, for every set of paths and any number of edits,
\* requests and faults.
THEOREM ShellTypeCorrect == Spec => []TypeOK
<1>1. ShellInv => TypeOK
  <2> SUFFICES ASSUME ShellInv PROVE TypeOK
    OBVIOUS
  <2>1. /\ shell.phase \in {"starting", "running", "stopping", "gone"}
        /\ shell.backend \in {"none", "starting", "up", "dead"}
        /\ shell.asking \subseteq {"close", "failed", "backend"}
        /\ shell.paths \subseteq Paths /\ shell.opening \subseteq Paths
    BY ShellFacts DEF Shells
  <2>2. \A i \in DOMAIN toPage : toPage[i] \in Paths \cup {"save", "close-photo"}
    BY ShellFacts DEF Commands
  <2>3. page.alive => shell.main.open
    BY ShellFacts DEF NewPage
  <2> QED
    BY <2>1, <2>2, <2>3, ShellFacts DEF TypeOK
<1> QED
  BY <1>1, ShellInvariant, PTL

-----------------------------------------------------------------------------
(* The Library's helper process. Its module has names in common with that of  *)
(* the shell, so it is an instance, and what is left of its scenario is the   *)
(* budget.                                                                    *)

CONSTANTS Scenarios, Lanes, MaxPending, RestartLimit
VARIABLES worker, futures, pending, callers, toHelper, fromHelper, helper, budget
W == INSTANCE LibraryWorker WITH left <- budget

-----------------------------------------------------------------------------
(* Messages and their places in the pipe.                                     *)

ToMessages ==
  [command : {"job", "cancel"}, id : W!Ids] \cup {W!Message("stop", 0)}
  \cup [command : {"pause", "source-busy"}, on : BOOLEAN]
FromMessages == [command : {"answer"}, id : W!Ids] \cup {W!Message("ready", 0)}

Pipes ==
  /\ budget \in W!Budget
  /\ toHelper \in Seq(ToMessages) /\ fromHelper \in Seq(FromMessages)

Alive == helper.pc \in {"booting", "running"}

\* A request is in one place of the pipe and the helper, once.
Singly ==
  \A id \in W!Ids :
    /\ \A n, m \in DOMAIN toHelper :
         toHelper[n] = W!Message("job", id) /\ toHelper[m] = W!Message("job", id) => n = m
    /\ \A n, m \in DOMAIN fromHelper :
         fromHelper[n] = W!Message("answer", id) /\ fromHelper[m] = W!Message("answer", id) => n = m
    /\ id \in W!JobsSent => id \notin helper.jobs \cup helper.running
    /\ id \in helper.queue => id \notin helper.running
    /\ id \in W!Answers => id \notin W!JobsSent \cup helper.jobs

\* Nobody but its caller knows a request that is not submitted.
Unsubmitted(id) == callers[id] \in {"new", "starting", "admitted", "refused"}
Unknown ==
  \A id \in W!Ids : Unsubmitted(id) =>
    id \notin pending \cup W!JobsSent \cup W!CancelsSent \cup helper.jobs \cup helper.running \cup W!Answers

\* What is cancelled waits no longer, and its job is not sent after that.
Withdrawn ==
  \A id \in W!Ids, n \in DOMAIN toHelper : toHelper[n] = W!Message("cancel", id) =>
    id \notin pending /\ \A m \in DOMAIN toHelper : m > n => toHelper[m] # W!Message("job", id)

\* What the supervisor's place says of the helper.
Stages ==
  /\ worker.reader \in {"none", "launching", "delayed", "failing", "refusing"} =>
       helper.pc = "off" /\ fromHelper = <<>> /\ ~worker.ready
  /\ worker.reader \in {"launching", "delayed", "failing", "refusing", "none", "disposed"} =>
       ~worker.connected
  /\ worker.reader = "disposed" => ~worker.ready
  /\ worker.reader = "stopped" /\ worker.ready => ~Alive /\ fromHelper = <<>>
  /\ worker.reader \in {"reading", "setting"} => worker.connected /\ helper.pc # "off"
  /\ worker.reader = "setting" => worker.ready
  /\ worker.reader \in {"failing", "refusing", "gone"} => worker.failure
  /\ worker.failure => helper.pc = "off" /\ ~worker.recovering
       /\ worker.reader \in {"failing", "refusing", "gone", "lost"}
  /\ ~Alive => toHelper = <<>>
  /\ helper.pc \in {"off", "booting", "dead"} => helper.jobs = {} /\ helper.running = {}
  /\ worker.ready => ~worker.recovering /\ helper.pc # "booting"
                     /\ (helper.pc = "running" => worker.connected)
  /\ \A n \in DOMAIN toHelper : toHelper[n].command # "stop"

\* Before the helper is ready it is sent no request: nobody was admitted, or a
\* helper is being replaced, or it has just gone.
Unsent ==
  IF worker.ready THEN \A n \in DOMAIN fromHelper : fromHelper[n].command = "answer"
  ELSE /\ W!JobsSent = {} /\ helper.jobs = {} /\ helper.running = {}
       /\ \/ fromHelper = <<>>
          \/ fromHelper = <<W!Message("ready", 0)>> /\ helper.pc # "booting"
       /\ \/ worker.recovering \/ worker.failure
          \/ worker.reader = "stopped" /\ ~Alive
          \/ \A id \in W!Ids : callers[id] # "admitted"

\* The last message about a gate in the pipe, or the gate itself, has the value v.
Tells(pipe, command, now, v) ==
  \/ v = now /\ \A n \in DOMAIN pipe : pipe[n].command # command
  \/ \E n \in DOMAIN pipe :
       /\ pipe[n].command = command /\ pipe[n].on = v
       /\ \A k \in DOMAIN pipe : k > n => pipe[k].command # command
Gates ==
  /\ worker.connected /\ Alive => Tells(toHelper, "pause", helper.paused, worker.paused)
  /\ helper.pc = "running" /\ worker.ready => Tells(toHelper, "source-busy", helper.busy, worker.source)

-----------------------------------------------------------------------------
(* Types.                                                                     *)

Typed == W!TypeOK /\ Pipes

\* What happens spends a count of its scenario; what is asked stays.
LEMMA SpendKeepsAsks ==
  ASSUME budget \in W!Budget,
         NEW what \in {"cancels", "leaves", "faults", "pauses", "sources", "closes"}, W!Spend(what)
  PROVE  budget' \in W!Budget /\ budget'.asks = budget.asks
BY DEF W!Spend, W!Budget

\* What is sent are messages, ...
LEMMA MessageTypes ==
  /\ \A id \in W!Ids : W!Message("job", id) \in ToMessages /\ W!Message("cancel", id) \in ToMessages
                     /\ W!Message("answer", id) \in FromMessages
  /\ W!Message("stop", 0) \in ToMessages /\ W!Message("ready", 0) \in FromMessages
  /\ \A on \in BOOLEAN : W!Control("pause", on) \in ToMessages /\ W!Control("source-busy", on) \in ToMessages
BY DEF W!Message, W!Control, ToMessages, FromMessages

\* ... which a step that leaves the requests alone does not change.
LEMMA MessagesSame ==
  ASSUME budget'.asks = budget.asks
  PROVE  W!Ids' = W!Ids /\ ToMessages' = ToMessages /\ FromMessages' = FromMessages
BY DEF W!Ids, ToMessages, FromMessages, W!Message

\* A pipe with one message more is a pipe.
LEMMA SendTyped ==
  ASSUME toHelper \in Seq(ToMessages), NEW m \in ToMessages
  PROVE  W!Send(m) \in Seq(ToMessages) /\ W!Told(m) \in Seq(ToMessages)
BY DEF W!Send, W!Told

\* The types of the parts of the state.
Workers == [reader : W!ReaderPcs, id : {0} \cup W!Ids, connected : BOOLEAN, ready : BOOLEAN,
            recovering : BOOLEAN, restarts : 0..RestartLimit, failure : BOOLEAN,
            closed : BOOLEAN, paused : BOOLEAN, source : BOOLEAN,
            ending : SUBSET W!Ids, doomed : SUBSET W!Ids]
Futures == [W!Ids -> W!Done \cup {"none", "waiting"}]
Callers == [W!Ids -> {"new", "starting", "admitted", "waiting", "leaving", "gone", "refused"}]
Helpers == [pc : {"off", "booting", "running", "dead"}, paused : BOOLEAN, busy : BOOLEAN,
            queue : SUBSET W!Ids, jobs : SUBSET W!Ids, running : SUBSET W!Ids]
Registered == pending \subseteq {id \in W!Ids : callers[id] \in {"waiting", "leaving"}}
Queued == helper.queue \subseteq helper.jobs /\ helper.jobs \subseteq helper.queue \cup helper.running

\* The types part by part, now ...
LEMMA TypedParts ==
  Typed <=> /\ worker \in Workers /\ futures \in Futures /\ callers \in Callers /\ Registered
            /\ helper \in Helpers /\ Queued
            /\ budget \in W!Budget /\ toHelper \in Seq(ToMessages) /\ fromHelper \in Seq(FromMessages)
BY DEF Typed, W!TypeOK, Pipes, Workers, Futures, Callers, Helpers, Registered, Queued

\* ... and after a step.
LEMMA TypedPartsNext ==
  ASSUME budget'.asks = budget.asks
  PROVE  Typed' <=> /\ worker' \in Workers /\ futures' \in Futures /\ callers' \in Callers
            /\ pending' \subseteq {id \in W!Ids : callers'[id] \in {"waiting", "leaving"}}
            /\ helper' \in Helpers
            /\ helper'.queue \subseteq helper'.jobs /\ helper'.jobs \subseteq helper'.queue \cup helper'.running
            /\ budget' \in W!Budget /\ toHelper' \in Seq(ToMessages) /\ fromHelper' \in Seq(FromMessages)
<1>1. W!Ids' = W!Ids /\ ToMessages' = ToMessages /\ FromMessages' = FromMessages
  BY MessagesSame
<1> QED BY <1>1 DEF Typed, W!TypeOK, Pipes, Workers, Futures, Callers, Helpers

\* The types hold at the start, and every action keeps them.
LEMMA NoHelperTyped == W!NoHelper \in Helpers
BY DEF W!NoHelper, Helpers

LEMMA TypedInit == ASSUME W!WorkerAssumption, W!Init PROVE Typed
<1>1. budget \in W!Budget /\ 0 \in 0..RestartLimit
  BY DEF W!Init, W!WorkerAssumption
<1>2. worker \in Workers
  BY <1>1 DEF W!Init, Workers, W!ReaderPcs
<1>3. futures \in Futures /\ callers \in Callers /\ Registered
  BY DEF W!Init, Futures, Callers, Registered
<1>4. helper \in Helpers /\ Queued
  BY NoHelperTyped DEF W!Init, W!NoHelper, Queued
<1>5. toHelper \in Seq(ToMessages) /\ fromHelper \in Seq(FromMessages)
  BY DEF W!Init
<1> QED BY <1>1, <1>2, <1>3, <1>4, <1>5, TypedParts

\* A caller goes on.
LEMMA CallerTyped ==
  ASSUME callers \in Callers, NEW id \in W!Ids, Registered,
         NEW pc \in {"new", "starting", "admitted", "waiting", "leaving", "gone", "refused"}, W!Caller(id, pc)
  PROVE  /\ callers' \in Callers /\ callers'[id] = pc
         /\ \A other \in W!Ids \ {id} : callers'[other] = callers[other]
BY DEF Callers, W!Caller

LEMMA AskTyped ==
  ASSUME Typed, NEW id \in W!Ids, W!Asking(id)
  PROVE  Typed' /\ budget' = budget
<1>0. /\ worker \in Workers /\ futures \in Futures /\ callers \in Callers /\ Registered
      /\ helper \in Helpers /\ Queued
      /\ budget \in W!Budget /\ toHelper \in Seq(ToMessages) /\ fromHelper \in Seq(FromMessages)
  BY TypedParts
<1>1. CASE W!start(id)
  <2>1. callers' \in Callers /\ pending' \subseteq {i \in W!Ids : callers'[i] \in {"waiting", "leaving"}}
    BY <1>0, <1>1 DEF W!start, W!Caller, Callers, Registered
  <2>2. worker' \in Workers
    BY <1>0, <1>1 DEF W!start, Workers, W!ReaderPcs
  <2> QED BY <1>0, <1>1, <2>1, <2>2, TypedPartsNext DEF W!start, Queued
<1>2. CASE W!StartReturns(id)
  <2>1. callers' \in Callers /\ pending' \subseteq {i \in W!Ids : callers'[i] \in {"waiting", "leaving"}}
    BY <1>0, <1>2 DEF W!StartReturns, W!Caller, Callers, Registered
  <2> QED BY <1>0, <1>2, <2>1, TypedPartsNext DEF W!StartReturns, Queued
<1>3. CASE W!submit_library(id)
  <2>1. callers' \in Callers /\ pending' \subseteq {i \in W!Ids : callers'[i] \in {"waiting", "leaving"}}
    BY <1>0, <1>3 DEF W!submit_library, W!Caller, Callers, Registered
  <2>2. futures' \in Futures
    BY <1>0, <1>3 DEF W!submit_library, Futures
  <2>3. toHelper' \in Seq(ToMessages)
    BY <1>0, <1>3, SendTyped, MessageTypes DEF W!submit_library
  <2> QED BY <1>0, <1>3, <2>1, <2>2, <2>3, TypedPartsNext DEF W!submit_library, Queued
<1> QED BY <1>1, <1>2, <1>3 DEF W!Asking, W!start, W!StartReturns, W!submit_library

LEMMA CancelledTyped ==
  ASSUME Typed, NEW id \in W!Ids, W!Cancelled(id)
  PROVE  futures' \in Futures /\ pending' \subseteq pending /\ toHelper' \in Seq(ToMessages) /\ id \notin pending'
<1>1. futures \in Futures /\ toHelper \in Seq(ToMessages)
  BY TypedParts
<1>2. W!Send(W!Message("cancel", id)) \in Seq(ToMessages)
  BY <1>1, SendTyped, MessageTypes
<1> QED BY <1>1, <1>2 DEF W!Cancelled, Futures, W!Done

LEMMA LeaveTyped ==
  ASSUME Typed, NEW id \in W!Ids, W!cancel(id) \/ W!WaiterLeaves(id) \/ W!WaiterCancels(id)
  PROVE  Typed' /\ budget'.asks = budget.asks
<1>0. /\ worker \in Workers /\ futures \in Futures /\ callers \in Callers /\ Registered
      /\ helper \in Helpers /\ Queued
      /\ budget \in W!Budget /\ toHelper \in Seq(ToMessages) /\ fromHelper \in Seq(FromMessages)
  BY TypedParts
<1>1. CASE W!cancel(id) \/ W!WaiterCancels(id)
  <2>1. W!Cancelled(id) /\ W!Caller(id, "gone") /\ UNCHANGED <<worker, fromHelper, helper>>
    BY <1>1 DEF W!cancel, W!WaiterCancels
  <2>2. budget' \in W!Budget /\ budget'.asks = budget.asks
    BY <1>0, <1>1, SpendKeepsAsks DEF W!cancel, W!WaiterCancels
  <2>3. futures' \in Futures /\ pending' \subseteq pending /\ toHelper' \in Seq(ToMessages) /\ id \notin pending'
    BY <2>1, CancelledTyped
  <2>4. callers' \in Callers /\ pending' \subseteq {i \in W!Ids : callers'[i] \in {"waiting", "leaving"}}
    BY <1>0, <2>1, <2>3 DEF W!Caller, Callers, Registered
  <2> QED BY <1>0, <2>1, <2>2, <2>3, <2>4, TypedPartsNext DEF Queued
<1>2. CASE W!WaiterLeaves(id)
  <2>1. budget' \in W!Budget /\ budget'.asks = budget.asks
    BY <1>0, <1>2, SpendKeepsAsks DEF W!WaiterLeaves
  <2>2. callers' \in Callers /\ pending' \subseteq {i \in W!Ids : callers'[i] \in {"waiting", "leaving"}}
    BY <1>0, <1>2 DEF W!WaiterLeaves, W!Caller, Callers, Registered
  <2>3. futures' \in Futures
    BY <1>0, <1>2 DEF W!WaiterLeaves, Futures, W!Done
  <2> QED BY <1>0, <1>2, <2>1, <2>2, <2>3, TypedPartsNext DEF W!WaiterLeaves, Queued
<1> QED BY <1>1, <1>2

LEMMA AppTyped ==
  ASSUME Typed, W!pause \/ W!foreground_source \/ W!close \/ W!CloseEnds \/ \E id \in W!Ids : W!CloseCancels(id)
  PROVE  Typed' /\ budget'.asks = budget.asks
<1>0. /\ worker \in Workers /\ futures \in Futures /\ callers \in Callers /\ Registered
      /\ helper \in Helpers /\ Queued
      /\ budget \in W!Budget /\ toHelper \in Seq(ToMessages) /\ fromHelper \in Seq(FromMessages)
  BY TypedParts
<1>1. CASE W!pause \/ W!foreground_source \/ W!close
  <2>1. budget' \in W!Budget /\ budget'.asks = budget.asks
    BY <1>0, <1>1, SpendKeepsAsks DEF W!pause, W!foreground_source, W!close
  <2>2. toHelper' \in Seq(ToMessages)
    BY <1>0, <1>1, SendTyped, MessageTypes DEF W!pause, W!foreground_source, W!close
  <2>3. worker' \in Workers
    <3>1. CASE W!pause
      BY <1>0, <3>1 DEF W!pause, Workers
    <3>2. CASE W!foreground_source
      BY <1>0, <3>2 DEF W!foreground_source, Workers
    <3>3. CASE W!close
      BY <1>0, <3>3 DEF W!close, Workers, Registered
    <3> QED BY <1>1, <3>1, <3>2, <3>3
  <2>4. pending' \subseteq pending /\ UNCHANGED <<futures, callers, fromHelper, helper>>
    BY <1>1 DEF W!pause, W!foreground_source, W!close
  <2> QED BY <1>0, <2>1, <2>2, <2>3, <2>4, TypedPartsNext DEF Queued, Registered
<1>2. CASE W!CloseEnds
  BY <1>0, <1>2, TypedPartsNext, NoHelperTyped DEF W!CloseEnds, Registered, W!NoHelper
<1>3. CASE \E id \in W!Ids : W!CloseCancels(id)
  <2>1. PICK id \in W!Ids : W!CloseCancels(id)
    BY <1>3
  <2>2. worker' \in Workers /\ futures' \in Futures
    BY <1>0, <2>1 DEF W!CloseCancels, Workers, Futures, W!Done
  <2> QED BY <1>0, <2>1, <2>2, TypedPartsNext DEF W!CloseCancels, Registered, Queued
<1> QED BY <1>1, <1>2, <1>3

Faulting == W!LaunchFails \/ W!ReadFails \/ W!HelperDies
SupervisorStep == W!_launch \/ W!ReadReady \/ W!ReadAnswer \/ W!SetResult \/ W!ReadEnds \/ W!Stopped \/ W!Disposed
                  \/ W!Delayed \/ W!FailLooks \/ W!FailSets

LEMMA FaultTyped ==
  ASSUME Typed, Faulting
  PROVE  Typed' /\ budget'.asks = budget.asks
<1>0. /\ worker \in Workers /\ futures \in Futures /\ callers \in Callers /\ Registered
      /\ helper \in Helpers /\ Queued
      /\ budget \in W!Budget /\ toHelper \in Seq(ToMessages) /\ fromHelper \in Seq(FromMessages)
  BY TypedParts
<1>1. budget' \in W!Budget /\ budget'.asks = budget.asks
  BY <1>0, SpendKeepsAsks DEF Faulting, W!LaunchFails, W!ReadFails, W!HelperDies
<1>2. CASE W!LaunchFails \/ W!ReadFails
  <2>1. worker' \in Workers
    BY <1>0, <1>2 DEF W!LaunchFails, W!ReadFails, W!Reader, Workers, W!ReaderPcs
  <2> QED BY <1>0, <1>1, <1>2, <2>1, TypedPartsNext DEF W!LaunchFails, W!ReadFails, Registered, Queued
<1>3. CASE W!HelperDies
  <2>1. /\ helper' \in Helpers /\ helper'.queue = {} /\ helper'.jobs = {} /\ toHelper' = <<>>
        /\ UNCHANGED <<worker, futures, pending, callers, fromHelper>>
    BY <1>3, NoHelperTyped DEF W!HelperDies, W!NoHelper, Helpers
  <2> QED BY <1>0, <1>1, <2>1, TypedPartsNext DEF Registered
<1> QED BY <1>2, <1>3 DEF Faulting

\* A message more, one less, and pipes one after the other.
LEMMA OneMore ==
  ASSUME NEW S, NEW s \in Seq(S), NEW x \in S
  PROVE  /\ Append(s, x) \in Seq(S) /\ DOMAIN Append(s, x) = DOMAIN s \cup {Len(s) + 1}
         /\ Len(s) + 1 \notin DOMAIN s /\ Append(s, x)[Len(s) + 1] = x
         /\ \A n \in DOMAIN s : Append(s, x)[n] = s[n] /\ n \in Nat /\ n < Len(s) + 1
         /\ Len(s) \in Nat
OBVIOUS

\* A pipe without its first message.
LEMMA OneLess ==
  ASSUME NEW S, NEW s \in Seq(S), s # <<>>
  PROVE  /\ Head(s) = s[1] /\ Head(s) \in S /\ 1 \in DOMAIN s /\ Tail(s) \in Seq(S)
         /\ \A n \in DOMAIN Tail(s) : n \in Nat \ {0} /\ n + 1 \in DOMAIN s /\ Tail(s)[n] = s[n + 1]
         /\ \A n \in DOMAIN s : n \in Nat \ {0} /\ (n = 1 \/ (n - 1 \in DOMAIN Tail(s) /\ Tail(s)[n - 1] = s[n]))
OBVIOUS

\* One pipe after the other.
LEMMA Joined ==
  ASSUME NEW S, NEW s \in Seq(S), NEW t \in Seq(S)
  PROVE  /\ s \o t \in Seq(S) /\ Len(s) \in Nat
         /\ \A n \in DOMAIN s : n \in DOMAIN (s \o t) /\ (s \o t)[n] = s[n] /\ n \in 1..Len(s)
         /\ \A n \in DOMAIN t : n \in Nat \ {0} /\ Len(s) + n \in DOMAIN (s \o t) /\ (s \o t)[Len(s) + n] = t[n]
         /\ \A n \in DOMAIN (s \o t) : n \in Nat /\ n \notin DOMAIN s => n - Len(s) \in DOMAIN t /\ n > Len(s)
OBVIOUS

\* A set has one number of members, in this module and in the helper's.
LEMMA SameCardinality ==
  ASSUME NEW S
  PROVE  W!Cardinality(S) = Cardinality(S)
BY DEF W!Cardinality, Cardinality

\* What the new helper is sent: whether a source is being read, and each
\* request that waits, once.
LEMMA Replayed ==
  ASSUME Typed
  PROVE  /\ W!Replay \in Seq(ToMessages) /\ W!Replay[1] = W!Control("source-busy", worker.source)
         /\ 1 \in DOMAIN W!Replay
         /\ \A n \in DOMAIN W!Replay : n # 1 => \E id \in pending : W!Replay[n] = W!Message("job", id)
         /\ \A id \in pending : \E n \in DOMAIN W!Replay : n # 1 /\ W!Replay[n] = W!Message("job", id)
         /\ \A n, m \in DOMAIN W!Replay : n # 1 /\ m # 1 /\ W!Replay[n] = W!Replay[m] => n = m
<1> DEFINE size == Cardinality(pending)
           order == W!SetToSeq(pending)
           tail == [n \in 1..size |-> W!Message("job", order[n])]
<1>1. pending \subseteq W!Ids /\ worker.source \in BOOLEAN
  BY TypedParts DEF Registered, Workers
<1>2. IsFiniteSet(W!Ids)
  <2>1. budget.asks \in Seq(W!Kinds)
    BY TypedParts DEF W!Budget
  <2>2. W!Ids = 1..Len(budget.asks) /\ Len(budget.asks) \in Nat
    BY <2>1 DEF W!Ids
  <2> QED BY <2>2, FS_Interval
<1>3. IsFiniteSet(pending) /\ size \in Nat
  BY <1>1, <1>2, FS_Subset, FS_CardinalityType
<1>4. PICK o : o \in Bijection(1..size, pending)
  BY <1>3, FS_CardinalityType DEF ExistsBijection
<1>5. o \in [1..size -> pending] /\ \A id \in pending : \E n \in DOMAIN o : o[n] = id
  BY <1>4 DEF Bijection, Surjection, Injection
<1>6. order \in [1..size -> pending] /\ \A id \in pending : \E n \in DOMAIN order : order[n] = id
  <2>1. W!Cardinality(pending) = size
    BY SameCardinality
  <2>2. order = CHOOSE s \in [1..size -> pending] : \A id \in pending : \E n \in DOMAIN s : s[n] = id
    BY <2>1 DEF W!SetToSeq
  <2> QED BY <1>5, <2>2
<1>7. order \in Surjection(1..size, pending)
  BY <1>6 DEF Surjection
<1>8. order \in Injection(1..size, pending)
  <2>1. IsFiniteSet(1..size) /\ Cardinality(1..size) = size
    BY <1>3, FS_Interval
  <2> QED BY <1>3, <1>7, <2>1, FS_SurjSameCardinalityImpliesInj
<1>9. \A n, m \in 1..size : order[n] = order[m] => n = m
  BY <1>8 DEF Injection, IsInjective
<1>10. W!Replay = <<W!Control("source-busy", worker.source)>> \o tail
  <2>1. W!Cardinality(pending) = size
    BY SameCardinality
  <2> QED BY <2>1 DEF W!Replay
<1>11. tail \in Seq(ToMessages) /\ Len(tail) = size
  BY <1>1, <1>3, <1>6, MessageTypes
<1>12. W!Control("source-busy", worker.source) \in ToMessages
  BY <1>1, MessageTypes
<1> HIDE DEF size, order, tail
<1>13. /\ W!Replay \in Seq(ToMessages) /\ Len(W!Replay) = size + 1
       /\ W!Replay[1] = W!Control("source-busy", worker.source)
       /\ \A n \in 2..(size + 1) : W!Replay[n] = tail[n - 1]
  BY <1>3, <1>10, <1>11, <1>12
<1>14. DOMAIN W!Replay = 1..(size + 1)
  BY <1>13
<1>15. \A n \in 1..size : tail[n] = W!Message("job", order[n])
  BY DEF tail
<1>16. \A n \in DOMAIN W!Replay : n # 1 => \E id \in pending : W!Replay[n] = W!Message("job", id)
  <2>1. ASSUME NEW n \in DOMAIN W!Replay, n # 1 PROVE \E id \in pending : W!Replay[n] = W!Message("job", id)
    <3>1. n - 1 \in 1..size /\ W!Replay[n] = tail[n - 1]
      BY <1>3, <1>13, <1>14, <2>1
    <3>2. order[n - 1] \in pending /\ W!Replay[n] = W!Message("job", order[n - 1])
      BY <1>6, <1>15, <3>1
    <3> QED BY <3>2
  <2> QED BY <2>1
<1>17. ASSUME NEW id \in pending PROVE \E n \in DOMAIN W!Replay : n # 1 /\ W!Replay[n] = W!Message("job", id)
  <2>1. PICK n \in 1..size : order[n] = id
    BY <1>6
  <2>2. n + 1 \in DOMAIN W!Replay /\ n + 1 # 1 /\ W!Replay[n + 1] = W!Message("job", id)
    BY <2>1, <1>3, <1>13, <1>14, <1>15
  <2> QED BY <2>2
<1>18. ASSUME NEW n \in DOMAIN W!Replay, NEW m \in DOMAIN W!Replay, n # 1, m # 1, W!Replay[n] = W!Replay[m]
      PROVE n = m
  <2>1. n - 1 \in 1..size /\ m - 1 \in 1..size /\ W!Replay[n] = tail[n - 1] /\ W!Replay[m] = tail[m - 1]
    BY <1>18, <1>3, <1>13, <1>14
  <2>2. W!Message("job", order[n - 1]) = W!Message("job", order[m - 1])
    BY <2>1, <1>15, <1>18
  <2>3. order[n - 1] = order[m - 1]
    BY <2>2 DEF W!Message
  <2>4. n - 1 = m - 1
    BY <2>1, <2>3, <1>9
  <2> QED BY <2>1, <2>4, <1>3, <1>14
<1> QED BY <1>3, <1>13, <1>14, <1>16, <1>17, <1>18

LEMMA SupervisorTyped ==
  ASSUME W!WorkerAssumption, Typed, SupervisorStep
  PROVE  Typed' /\ budget' = budget
<1>0. /\ worker \in Workers /\ futures \in Futures /\ callers \in Callers /\ Registered
      /\ helper \in Helpers /\ Queued
      /\ budget \in W!Budget /\ toHelper \in Seq(ToMessages) /\ fromHelper \in Seq(FromMessages)
  BY TypedParts
<1>1. CASE W!_launch
  <2>1. worker' \in Workers
    BY <1>0, <1>1 DEF W!_launch, W!Reader, Workers, W!ReaderPcs
  <2>2. W!Booting \in Helpers /\ W!Booting.queue = {} /\ W!Booting.jobs = {}
    BY <1>0, NoHelperTyped DEF W!Booting, W!NoHelper, Helpers, Workers
  <2> QED BY <1>0, <1>1, <2>1, <2>2, TypedPartsNext DEF W!_launch, Registered, Queued
<1>2. CASE W!ReadReady
  <2>1. worker' \in Workers
    BY <1>0, <1>2 DEF W!ReadReady, Workers, W!ReaderPcs
  <2>2. toHelper' \in Seq(ToMessages)
    <3>1. W!Replay \in Seq(ToMessages)
      BY Replayed
    <3>2. toHelper \o W!Replay \in Seq(ToMessages)
      BY <1>0, <3>1, Joined
    <3> QED BY <1>0, <1>2, <3>2 DEF W!ReadReady
  <2>3. fromHelper' \in Seq(FromMessages)
    BY <1>0, <1>2 DEF W!ReadReady
  <2> QED BY <1>0, <1>2, <2>1, <2>2, <2>3, TypedPartsNext DEF W!ReadReady, Registered, Queued
<1>3. CASE W!ReadAnswer
  <2>1. W!First \in FromMessages /\ fromHelper' \in Seq(FromMessages)
    BY <1>0, <1>3 DEF W!ReadAnswer, W!First
  <2>2. W!First.id \in W!Ids
    BY <2>1, <1>3 DEF W!ReadAnswer, FromMessages, W!Message
  <2>3. worker' \in Workers
    BY <1>0, <1>3, <2>2 DEF W!ReadAnswer, Workers, W!ReaderPcs
  <2> QED BY <1>0, <1>3, <2>1, <2>3, TypedPartsNext DEF W!ReadAnswer, Registered, Queued
<1>4. CASE W!SetResult \/ W!FailSets
  <2>1. worker' \in Workers
    BY <1>0, <1>4 DEF W!SetResult, W!FailSets, W!Reader, Workers, W!ReaderPcs
  <2>2. futures' \in Futures
    BY <1>0, <1>4 DEF W!SetResult, W!FailSets, Futures, W!Done
  <2> QED BY <1>0, <1>4, <2>1, <2>2, TypedPartsNext DEF W!SetResult, W!FailSets, Registered, Queued
<1>5. CASE W!ReadEnds \/ W!Stopped \/ W!Delayed
  <2>1. worker' \in Workers
    BY <1>0, <1>5 DEF W!ReadEnds, W!Stopped, W!Delayed, W!Reader, Workers, W!ReaderPcs
  <2> QED BY <1>0, <1>5, <2>1, TypedPartsNext DEF W!ReadEnds, W!Stopped, W!Delayed, Registered, Queued
<1>6. CASE W!Disposed
  <2>1. RestartLimit \in Nat
    BY DEF W!WorkerAssumption
  <2>2. worker' \in Workers
    <3>1. CASE worker.restarts >= RestartLimit
      <4>1. pending \in SUBSET W!Ids
        BY <1>0 DEF Registered
      <4>2. worker' = [worker EXCEPT !.reader = "failing", !.failure = TRUE, !.recovering = FALSE,
                                     !.doomed = pending]
        BY <1>6, <3>1 DEF W!Disposed
      <4> QED BY <1>0, <4>1, <4>2 DEF Workers, W!ReaderPcs
    <3>2. CASE ~(worker.restarts >= RestartLimit)
      <4>1. worker.restarts + 1 \in 0..RestartLimit
        BY <1>0, <2>1, <3>2 DEF Workers
      <4> QED BY <1>0, <1>6, <3>2, <4>1 DEF W!Disposed, Workers, W!ReaderPcs
    <3> QED BY <3>1, <3>2
  <2> QED BY <1>0, <1>6, <2>2, TypedPartsNext, NoHelperTyped DEF W!Disposed, W!NoHelper, Registered
<1>7. CASE W!FailLooks
  <2>1. worker' \in Workers
    <3>1. CASE worker.doomed = {}
      BY <1>0, <1>7, <3>1 DEF W!FailLooks, Workers, W!ReaderPcs
    <3>2. CASE worker.doomed # {}
      <4>1. PICK id \in worker.doomed :
              worker' = [worker EXCEPT !.doomed = @ \ {id}, !.id = id,
                           !.reader = IF futures[id] = "waiting" THEN "refusing" ELSE "failing"]
        BY <1>7, <3>2 DEF W!FailLooks
      <4>2. id \in W!Ids
        BY <1>0 DEF Workers
      <4> QED BY <1>0, <4>1, <4>2 DEF Workers, W!ReaderPcs
    <3> QED BY <3>1, <3>2
  <2> QED BY <1>0, <1>7, <2>1, TypedPartsNext DEF W!FailLooks, Registered, Queued
<1>8. budget' = budget
  BY DEF SupervisorStep, W!_launch, W!ReadReady, W!ReadAnswer, W!SetResult, W!ReadEnds, W!Stopped, W!Disposed,
         W!Delayed, W!FailLooks, W!FailSets
<1> QED BY <1>1, <1>2, <1>3, <1>4, <1>5, <1>6, <1>7, <1>8 DEF SupervisorStep

LEMMA HelperTyped ==
  ASSUME Typed, Singly, W!HelperBoots \/ W!Receive \/ \E id \in W!Ids : W!Working(id)
  PROVE  Typed' /\ budget' = budget
<1>0. /\ worker \in Workers /\ futures \in Futures /\ callers \in Callers /\ Registered
      /\ helper \in Helpers /\ Queued
      /\ budget \in W!Budget /\ toHelper \in Seq(ToMessages) /\ fromHelper \in Seq(FromMessages)
  BY TypedParts
<1>1. CASE W!HelperBoots
  <2>1. helper' \in Helpers /\ helper'.queue = helper.queue /\ helper'.jobs = helper.jobs
        /\ helper'.running = helper.running
    BY <1>0, <1>1 DEF W!HelperBoots, Helpers
  <2>2. fromHelper' \in Seq(FromMessages)
    BY <1>0, <1>1, MessageTypes DEF W!HelperBoots
  <2> QED BY <1>0, <1>1, <2>1, <2>2, TypedPartsNext DEF W!HelperBoots, Registered, Queued
<1>2. CASE W!Receive
  <2> DEFINE m == Head(toHelper)
  <2>1. m \in ToMessages /\ toHelper' \in Seq(ToMessages)
    BY <1>0, <1>2 DEF W!Receive
  <2>2. helper' = W!Received(m)
    BY <1>2 DEF W!Receive
  <2> HIDE DEF m
  <2>3. helper' \in Helpers /\ helper'.queue \subseteq helper'.jobs
          /\ helper'.jobs \subseteq helper'.queue \cup helper'.running
    <3>1. CASE m.command \in {"job", "cancel"} /\ m.id \in W!Ids
      BY <1>0, <2>2, <3>1 DEF W!Received, Helpers, Queued
    <3>2. CASE m.command = "stop"
      BY <2>2, <3>2, NoHelperTyped DEF W!Received, W!NoHelper
    <3>3. CASE m.command \in {"pause", "source-busy"} /\ m.on \in BOOLEAN
      BY <1>0, <2>2, <3>3 DEF W!Received, Helpers, Queued
    <3> QED BY <2>1, <3>1, <3>2, <3>3 DEF ToMessages, W!Message
  <2> QED BY <1>0, <1>2, <2>1, <2>3, TypedPartsNext DEF W!Receive, Registered
<1>3. CASE \E id \in W!Ids : W!Working(id)
  <2>1. PICK id \in W!Ids : W!Working(id)
    BY <1>3
  <2>2. helper' \in Helpers /\ helper'.queue \subseteq helper'.jobs
          /\ helper'.jobs \subseteq helper'.queue \cup helper'.running
    <3>1. CASE W!Take(id)
      BY <1>0, <3>1 DEF W!Take, Helpers, Queued
    <3>2. CASE W!Finish(id)
      BY <1>0, <3>2 DEF W!Finish, Helpers, Queued, Singly
    <3> QED BY <2>1, <3>1, <3>2 DEF W!Working
  <2>3. fromHelper' \in Seq(FromMessages)
    <3>1. W!Message("answer", id) \in FromMessages
      BY MessageTypes
    <3>2. Append(fromHelper, W!Message("answer", id)) \in Seq(FromMessages)
      BY <1>0, <3>1, OneMore
    <3> QED BY <1>0, <2>1, <3>2 DEF W!Working, W!Take, W!Finish
  <2>4. UNCHANGED <<worker, futures, pending, callers, toHelper, budget>>
    BY <2>1 DEF W!Working, W!Take, W!Finish
  <2> QED BY <1>0, <2>2, <2>3, <2>4, TypedPartsNext DEF Registered
<1> QED BY <1>1, <1>2, <1>3

-----------------------------------------------------------------------------
(* Each request is in one place, and what is cancelled stays out.             *)

Letters == Singly /\ Unknown /\ Withdrawn

\* The types that these steps use.
LEMMA PipesTyped ==
  ASSUME Typed
  PROVE  /\ toHelper \in Seq(ToMessages) /\ fromHelper \in Seq(FromMessages)
         /\ pending \subseteq W!Ids /\ helper.jobs \subseteq W!Ids /\ helper.running \subseteq W!Ids
         /\ helper.queue \subseteq helper.jobs /\ \A id \in pending : ~Unsubmitted(id)
BY TypedParts DEF Registered, Queued, Helpers, Unsubmitted

\* What is in the pipe after one more message ...
LEMMA SentOneMore ==
  ASSUME Typed, budget'.asks = budget.asks, NEW m \in ToMessages, toHelper' = Append(toHelper, m)
  PROVE  /\ W!JobsSent' = {id \in W!Ids : id \in W!JobsSent \/ m = W!Message("job", id)}
         /\ W!CancelsSent' = {id \in W!Ids : id \in W!CancelsSent \/ m = W!Message("cancel", id)}
<1>1. W!Ids' = W!Ids
  BY MessagesSame
<1>2. /\ DOMAIN toHelper' = DOMAIN toHelper \cup {Len(toHelper) + 1}
      /\ toHelper'[Len(toHelper) + 1] = m
      /\ \A n \in DOMAIN toHelper : toHelper'[n] = toHelper[n]
  BY PipesTyped, OneMore
<1>3. \A x : (\E n \in DOMAIN toHelper' : toHelper'[n] = x) <=> (\E n \in DOMAIN toHelper : toHelper[n] = x) \/ x = m
  BY <1>2
<1> QED BY <1>1, <1>3 DEF W!JobsSent, W!CancelsSent

\* ... and after the first one is taken.
LEMMA SentOneLess ==
  ASSUME Typed, budget'.asks = budget.asks, toHelper # <<>>, toHelper' = Tail(toHelper)
  PROVE  /\ W!JobsSent = {id \in W!Ids : id \in W!JobsSent' \/ Head(toHelper) = W!Message("job", id)}
         /\ W!CancelsSent = {id \in W!Ids : id \in W!CancelsSent' \/ Head(toHelper) = W!Message("cancel", id)}
<1>1. W!Ids' = W!Ids
  BY MessagesSame
<1>2. /\ Head(toHelper) = toHelper[1] /\ 1 \in DOMAIN toHelper
      /\ \A n \in DOMAIN toHelper' : n + 1 \in DOMAIN toHelper /\ toHelper'[n] = toHelper[n + 1]
      /\ \A n \in DOMAIN toHelper : n = 1 \/ (n - 1 \in DOMAIN toHelper' /\ toHelper'[n - 1] = toHelper[n])
  BY PipesTyped, OneLess
<1>3. \A x : (\E n \in DOMAIN toHelper : toHelper[n] = x)
        <=> (\E n \in DOMAIN toHelper' : toHelper'[n] = x) \/ x = Head(toHelper)
  BY <1>2
<1> QED BY <1>1, <1>3 DEF W!JobsSent, W!CancelsSent

\* A pipe that stays, or is cut, has what it had, or nothing.
LEMMA SentSame ==
  ASSUME budget'.asks = budget.asks
  PROVE  /\ toHelper' = toHelper => W!JobsSent' = W!JobsSent /\ W!CancelsSent' = W!CancelsSent
         /\ toHelper' = <<>> => W!JobsSent' = {} /\ W!CancelsSent' = {}
         /\ fromHelper' = fromHelper => W!Answers' = W!Answers
         /\ fromHelper' = <<>> => W!Answers' = {}
<1>1. W!Ids' = W!Ids
  BY MessagesSame
<1> QED BY <1>1 DEF W!JobsSent, W!CancelsSent, W!Answers

\* The same of the answers.
LEMMA AnswersOneMore ==
  ASSUME Typed, budget'.asks = budget.asks, NEW m \in FromMessages, fromHelper' = Append(fromHelper, m)
  PROVE  W!Answers' = {id \in W!Ids : id \in W!Answers \/ m = W!Message("answer", id)}
<1>1. W!Ids' = W!Ids
  BY MessagesSame
<1>2. /\ DOMAIN fromHelper' = DOMAIN fromHelper \cup {Len(fromHelper) + 1}
      /\ fromHelper'[Len(fromHelper) + 1] = m
      /\ \A n \in DOMAIN fromHelper : fromHelper'[n] = fromHelper[n]
  BY PipesTyped, OneMore
<1> QED BY <1>1, <1>2 DEF W!Answers

LEMMA AnswersOneLess ==
  ASSUME Typed, budget'.asks = budget.asks, fromHelper # <<>>, fromHelper' = Tail(fromHelper)
  PROVE  W!Answers = {id \in W!Ids : id \in W!Answers' \/ Head(fromHelper) = W!Message("answer", id)}
<1>1. W!Ids' = W!Ids
  BY MessagesSame
<1>2. /\ Head(fromHelper) = fromHelper[1] /\ 1 \in DOMAIN fromHelper
      /\ \A n \in DOMAIN fromHelper' : n + 1 \in DOMAIN fromHelper /\ fromHelper'[n] = fromHelper[n + 1]
      /\ \A n \in DOMAIN fromHelper : n = 1 \/ (n - 1 \in DOMAIN fromHelper' /\ fromHelper'[n - 1] = fromHelper[n])
  BY PipesTyped, OneLess
<1>3. \A x : (\E n \in DOMAIN fromHelper : fromHelper[n] = x)
        <=> (\E n \in DOMAIN fromHelper' : fromHelper'[n] = x) \/ x = Head(fromHelper)
  BY <1>2
<1> QED BY <1>1, <1>3 DEF W!Answers

\* Nobody takes back what is submitted.
Onwards == \A id \in W!Ids : callers'[id] \in {"new", "starting", "admitted", "refused"} => Unsubmitted(id)
Fewer ==
  /\ pending' \subseteq pending /\ Onwards /\ budget'.asks = budget.asks
  /\ helper'.jobs \subseteq helper.jobs /\ helper'.running \subseteq helper.running
  /\ helper'.queue \subseteq helper.queue

\* A step that only takes requests out of where they are, ...
LEMMA LettersFewer ==
  ASSUME Typed, Letters, Fewer, toHelper' = toHelper \/ toHelper' = <<>>,
         fromHelper' = fromHelper \/ fromHelper' = <<>>
  PROVE  Letters'
<1>1. W!Ids' = W!Ids
  BY MessagesSame DEF Fewer
<1>2. W!JobsSent' \subseteq W!JobsSent /\ W!CancelsSent' \subseteq W!CancelsSent /\ W!Answers' \subseteq W!Answers
  BY SentSame DEF Fewer
<1>3. Singly'
  BY <1>1, <1>2 DEF Letters, Singly, Fewer
<1>4. Unknown'
  BY <1>1, <1>2 DEF Letters, Unknown, Unsubmitted, Fewer, Onwards
<1>5. Withdrawn'
  BY <1>1 DEF Letters, Withdrawn, Fewer
<1> QED BY <1>3, <1>4, <1>5 DEF Letters

\* ... that sends what is no request, ...
LEMMA LettersSent ==
  ASSUME Typed, Letters, Fewer, UNCHANGED fromHelper, NEW m \in ToMessages, m.command # "job",
         \A id \in W!Ids : m = W!Message("cancel", id) => id \notin pending' /\ ~Unsubmitted(id),
         toHelper' = Append(toHelper, m)
  PROVE  Letters'
<1>1. W!Ids' = W!Ids /\ \A id \in W!Ids : m # W!Message("job", id)
  BY MessagesSame DEF Fewer, W!Message
<1>2. W!JobsSent' = W!JobsSent /\ W!Answers' = W!Answers
  <2>1. W!JobsSent \subseteq W!Ids
    BY DEF W!JobsSent
  <2> QED BY <1>1, <2>1, SentOneMore, SentSame DEF Fewer
<1>3. W!CancelsSent' = {id \in W!Ids : id \in W!CancelsSent \/ m = W!Message("cancel", id)}
  BY SentOneMore DEF Fewer
<1>4. /\ DOMAIN toHelper' = DOMAIN toHelper \cup {Len(toHelper) + 1}
      /\ toHelper'[Len(toHelper) + 1] = m
      /\ \A n \in DOMAIN toHelper : toHelper'[n] = toHelper[n] /\ n \in Nat /\ n < Len(toHelper) + 1
      /\ Len(toHelper) \in Nat
  BY PipesTyped, OneMore
<1>5. Singly'
  BY <1>1, <1>2, <1>4 DEF Letters, Singly, Fewer
<1>6. Unknown'
  BY <1>1, <1>2, <1>3 DEF Letters, Unknown, Unsubmitted, Fewer, Onwards
<1>7. Withdrawn'
  BY <1>1, <1>4 DEF Letters, Withdrawn, Fewer
<1> QED BY <1>5, <1>6, <1>7 DEF Letters

\* ... or that submits a request, which nobody knew.
LEMMA LettersSubmitted ==
  ASSUME Typed, Letters, NEW id \in W!Ids, Unsubmitted(id), callers'[id] = "waiting", Onwards,
         pending' = pending \cup {id}, UNCHANGED <<fromHelper, helper, budget>>,
         toHelper' = toHelper \/ toHelper' = Append(toHelper, W!Message("job", id))
  PROVE  Letters'
<1>1. W!Ids' = W!Ids
        /\ id \notin pending \cup W!JobsSent \cup W!CancelsSent \cup helper.jobs \cup helper.running \cup W!Answers
  BY MessagesSame DEF Letters, Unknown
<1>2. W!Answers' = W!Answers
  BY SentSame
<1>3. \A other \in W!Ids : Unsubmitted(other)' => other # id /\ Unsubmitted(other)
  BY <1>1 DEF Unsubmitted, Onwards
<1>4. CASE toHelper' = toHelper
  <2>1. W!JobsSent' = W!JobsSent /\ W!CancelsSent' = W!CancelsSent
    BY <1>4, SentSame
  <2>2. Singly'
    BY <1>1, <1>2, <1>4, <2>1 DEF Letters, Singly
  <2>3. Unknown'
    BY <1>1, <1>2, <1>3, <2>1 DEF Letters, Unknown
  <2>4. Withdrawn'
    BY <1>1, <1>4 DEF Letters, Withdrawn, W!CancelsSent
  <2> QED BY <2>2, <2>3, <2>4 DEF Letters
<1>5. CASE toHelper' = Append(toHelper, W!Message("job", id))
  <2>1. W!JobsSent' = W!JobsSent \cup {id} /\ W!CancelsSent' = W!CancelsSent
    <3>1. W!Message("job", id) \in ToMessages
      BY MessageTypes
    <3>2. \A other \in W!Ids : W!Message("job", id) # W!Message("cancel", other)
            /\ (W!Message("job", id) = W!Message("job", other) => other = id)
      BY DEF W!Message
    <3> QED BY <1>1, <1>5, <3>1, <3>2, SentOneMore DEF W!JobsSent, W!CancelsSent
  <2>2. /\ DOMAIN toHelper' = DOMAIN toHelper \cup {Len(toHelper) + 1}
        /\ toHelper'[Len(toHelper) + 1] = W!Message("job", id)
        /\ \A n \in DOMAIN toHelper : toHelper'[n] = toHelper[n] /\ n \in Nat /\ n < Len(toHelper) + 1
        /\ Len(toHelper) \in Nat
    BY <1>5, PipesTyped, OneMore, MessageTypes
  <2>3. \A other \in W!Ids : W!Message("job", id) # W!Message("cancel", other)
          /\ (W!Message("job", id) = W!Message("job", other) => other = id)
    BY DEF W!Message
  <2>4. Singly'
    <3>1. ASSUME NEW other \in W!Ids, NEW n \in DOMAIN toHelper', NEW m \in DOMAIN toHelper',
                 toHelper'[n] = W!Message("job", other), toHelper'[m] = W!Message("job", other)
          PROVE  n = m
      BY <1>1, <2>2, <2>3, <3>1 DEF Letters, Singly, W!JobsSent
    <3> QED BY <1>1, <1>2, <2>1, <3>1, PipesTyped DEF Letters, Singly
  <2>5. Unknown'
    BY <1>1, <1>2, <1>3, <2>1 DEF Letters, Unknown
  <2>6. Withdrawn'
    <3>1. ASSUME NEW other \in W!Ids, NEW n \in DOMAIN toHelper', toHelper'[n] = W!Message("cancel", other)
          PROVE  other \notin pending' /\ \A m \in DOMAIN toHelper' : m > n => toHelper'[m] # W!Message("job", other)
      <4>1. n \in DOMAIN toHelper /\ toHelper[n] = W!Message("cancel", other)
        BY <2>2, <2>3, <3>1
      <4>2. other # id
        BY <1>1, <4>1 DEF W!CancelsSent
      <4> QED BY <2>2, <2>3, <4>1, <4>2 DEF Letters, Withdrawn
    <3> QED BY <1>1, <3>1 DEF Withdrawn
  <2> QED BY <2>4, <2>5, <2>6 DEF Letters
<1> QED BY <1>4, <1>5

\* The helper reads a message.
LEMMA LettersReceive ==
  ASSUME Typed, Letters, W!Receive
  PROVE  Letters'
<1> DEFINE m == Head(toHelper)
<1>1. budget'.asks = budget.asks /\ toHelper # <<>> /\ toHelper' = Tail(toHelper) /\ helper' = W!Received(m)
      /\ UNCHANGED <<pending, callers, fromHelper>>
  BY DEF W!Receive
<1>2. W!Ids' = W!Ids /\ W!Answers' = W!Answers
  BY <1>1, MessagesSame, SentSame
<1>3. /\ Head(toHelper) = toHelper[1] /\ 1 \in DOMAIN toHelper
      /\ \A n \in DOMAIN toHelper' : n \in Nat \ {0} /\ n + 1 \in DOMAIN toHelper /\ toHelper'[n] = toHelper[n + 1]
  BY <1>1, PipesTyped, OneLess
<1>4. /\ W!JobsSent = {id \in W!Ids : id \in W!JobsSent' \/ m = W!Message("job", id)}
      /\ W!CancelsSent = {id \in W!Ids : id \in W!CancelsSent' \/ m = W!Message("cancel", id)}
  BY <1>1, SentOneLess
<1>5. m \in ToMessages /\ helper \in Helpers
  BY <1>1, PipesTyped, OneLess, TypedParts
<1>6. \A id \in W!Ids : m = W!Message("job", id) => id \notin W!JobsSent' /\ id \notin W!Answers /\ ~Unsubmitted(id)
                                              /\ id \in W!JobsSent
  <2>1. ASSUME NEW id \in W!Ids, m = W!Message("job", id) PROVE id \notin W!JobsSent' /\ id \in W!JobsSent
    <3>1. ASSUME NEW n \in DOMAIN toHelper', toHelper'[n] = W!Message("job", id) PROVE FALSE
      <4>1. n + 1 \in DOMAIN toHelper /\ toHelper[n + 1] = W!Message("job", id) /\ toHelper[1] = W!Message("job", id)
            /\ n \in Nat \ {0}
        BY <1>3, <2>1, <3>1
      <4>2. n + 1 = 1
        BY <1>3, <4>1 DEF Letters, Singly
      <4> QED BY <4>1, <4>2
    <3> QED BY <1>2, <1>4, <2>1, <3>1 DEF W!JobsSent
  <2> QED BY <2>1 DEF Letters, Singly, Unknown
<1> HIDE DEF m
<1>7. /\ helper'.running \subseteq helper.running
      /\ \A id \in W!Ids : id \in helper'.jobs => id \in helper.jobs \/ m = W!Message("job", id)
      /\ \A id \in W!Ids : id \in helper'.queue => id \in helper.queue \/ m = W!Message("job", id)
  <2>1. CASE m.command = "job" /\ m.id \in W!Ids /\ m = W!Message("job", m.id)
    BY <1>1, <1>5, <2>1 DEF W!Received, Helpers
  <2>2. CASE m.command = "cancel"
    BY <1>1, <1>5, <2>2 DEF W!Received, Helpers
  <2>3. CASE m.command = "stop"
    BY <1>1, <2>3 DEF W!Received, W!NoHelper
  <2>4. CASE m.command \in {"pause", "source-busy"}
    BY <1>1, <1>5, <2>4 DEF W!Received, Helpers
  <2> QED BY <1>5, <2>1, <2>2, <2>3, <2>4 DEF ToMessages, W!Message
<1>8. Singly'
  <2>1. ASSUME NEW id \in W!Ids, NEW n \in DOMAIN toHelper', NEW k \in DOMAIN toHelper',
               toHelper'[n] = W!Message("job", id), toHelper'[k] = W!Message("job", id)
        PROVE  n = k
    <3>1. n + 1 = k + 1
      BY <1>3, <2>1 DEF Letters, Singly
    <3> QED BY <1>3, <3>1
  <2>2. \A id \in W!Ids : id \in W!JobsSent' => id \notin helper'.jobs \cup helper'.running
    BY <1>4, <1>6, <1>7 DEF Letters, Singly
  <2>3. \A id \in W!Ids : id \in helper'.queue => id \notin helper'.running
    BY <1>6, <1>7 DEF Letters, Singly
  <2>4. \A id \in W!Ids : id \in W!Answers' => id \notin W!JobsSent' \cup helper'.jobs
    BY <1>2, <1>4, <1>6, <1>7 DEF Letters, Singly
  <2>5. \A id \in W!Ids : \A n, k \in DOMAIN fromHelper' :
          fromHelper'[n] = W!Message("answer", id) /\ fromHelper'[k] = W!Message("answer", id) => n = k
    BY <1>1 DEF Letters, Singly
  <2> QED BY <1>2, <2>1, <2>2, <2>3, <2>4, <2>5 DEF Singly
<1>9. Unknown'
  BY <1>1, <1>2, <1>4, <1>6, <1>7 DEF Letters, Unknown, Unsubmitted
<1>10. Withdrawn'
  <2>1. ASSUME NEW id \in W!Ids, NEW n \in DOMAIN toHelper', toHelper'[n] = W!Message("cancel", id)
        PROVE  id \notin pending' /\ \A k \in DOMAIN toHelper' : k > n => toHelper'[k] # W!Message("job", id)
    <3>1. n + 1 \in DOMAIN toHelper /\ toHelper[n + 1] = W!Message("cancel", id)
      BY <1>3, <2>1
    <3>2. \A k \in DOMAIN toHelper' : k > n => k + 1 \in DOMAIN toHelper /\ k + 1 > n + 1
            /\ toHelper'[k] = toHelper[k + 1]
      BY <1>3
    <3> QED BY <1>1, <3>1, <3>2 DEF Letters, Withdrawn
  <2> QED BY <1>2, <2>1 DEF Withdrawn
<1> QED BY <1>8, <1>9, <1>10 DEF Letters

\* A thread takes a job, and ends one.
LEMMA LettersWorking ==
  ASSUME Typed, Letters, NEW id \in W!Ids, W!Working(id)
  PROVE  Letters'
<1>0. helper \in Helpers /\ UNCHANGED <<worker, futures, pending, callers, toHelper, budget>>
  BY TypedParts DEF W!Working, W!Take, W!Finish
<1>1. W!Ids' = W!Ids /\ W!JobsSent' = W!JobsSent /\ W!CancelsSent' = W!CancelsSent
  BY <1>0, MessagesSame, SentSame
<1>2. CASE W!Take(id)
  <2>1. id \in helper.jobs /\ helper'.jobs = helper.jobs /\ helper'.queue = helper.queue \ {id}
        /\ helper'.running = helper.running \cup {id} /\ fromHelper' = fromHelper
    BY <1>0, <1>2, PipesTyped DEF W!Take, Helpers
  <2>2. W!Answers' = W!Answers
    BY <1>0, <2>1, SentSame
  <2>3. Singly'
    BY <1>0, <1>1, <2>1, <2>2 DEF Letters, Singly
  <2>4. Unknown'
    BY <1>0, <1>1, <2>1, <2>2 DEF Letters, Unknown, Unsubmitted
  <2>5. Withdrawn'
    BY <1>0, <1>1 DEF Letters, Withdrawn
  <2> QED BY <2>3, <2>4, <2>5 DEF Letters
<1>3. CASE W!Finish(id)
  <2>1. helper'.jobs = helper.jobs \ {id} /\ helper'.queue = helper.queue /\ id \in helper.running
        /\ helper'.running = helper.running \ {id}
    BY <1>0, <1>3 DEF W!Finish, Helpers
  <2>2. CASE id \notin helper.jobs
    <3>1. Fewer /\ fromHelper' = fromHelper
      BY <1>0, <1>3, <2>1, <2>2 DEF Fewer, Onwards, Unsubmitted, W!Finish
    <3> QED BY <1>0, <3>1, LettersFewer
  <2>3. CASE id \in helper.jobs
    <3>1. fromHelper' = Append(fromHelper, W!Message("answer", id))
      BY <1>3, <2>3 DEF W!Finish
    <3>2. \A other : W!Message("answer", id) = W!Message("answer", other) => other = id
      BY DEF W!Message
    <3>0. W!Message("answer", id) \in FromMessages /\ fromHelper \in Seq(FromMessages)
      BY MessageTypes, PipesTyped
    <3>3. /\ DOMAIN fromHelper' = DOMAIN fromHelper \cup {Len(fromHelper) + 1}
          /\ fromHelper'[Len(fromHelper) + 1] = W!Message("answer", id)
          /\ \A n \in DOMAIN fromHelper : fromHelper'[n] = fromHelper[n]
      BY <3>0, <3>1, OneMore
    <3>4. W!Answers' = W!Answers \cup {id}
      <4>1. W!Message("answer", id) \in FromMessages
        BY MessageTypes
      <4>2. W!Answers' = {i \in W!Ids : i \in W!Answers \/ W!Message("answer", id) = W!Message("answer", i)}
        BY <1>0, <3>1, <4>1, AnswersOneMore
      <4> QED BY <3>2, <4>2 DEF W!Answers
    <3>5. id \notin W!Answers /\ id \notin W!JobsSent
      BY <2>3 DEF Letters, Singly
    <3>6. Singly'
      <4>1. ASSUME NEW other \in W!Ids, NEW n \in DOMAIN fromHelper', NEW m \in DOMAIN fromHelper',
                   fromHelper'[n] = W!Message("answer", other), fromHelper'[m] = W!Message("answer", other)
            PROVE  n = m
        BY <3>2, <3>3, <3>5, <4>1 DEF Letters, Singly, W!Answers
      <4> QED BY <1>0, <1>1, <2>1, <3>4, <3>5, <4>1 DEF Letters, Singly
    <3>7. ~Unsubmitted(id)
      BY <2>3 DEF Letters, Unknown
    <3>8. Unknown'
      BY <1>0, <1>1, <2>1, <3>4, <3>7 DEF Letters, Unknown, Unsubmitted
    <3>9. Withdrawn'
      BY <1>0, <1>1 DEF Letters, Withdrawn
    <3> QED BY <3>6, <3>8, <3>9 DEF Letters
  <2> QED BY <2>2, <2>3
<1> QED BY <1>2, <1>3 DEF W!Working

\* The supervisor reads an answer, or the helper reports ready.
LEMMA LettersAnswer ==
  ASSUME Typed, Letters, UNCHANGED <<callers, toHelper, budget>>, pending' \subseteq pending,
         helper'.jobs = helper.jobs, helper'.running = helper.running, helper'.queue = helper.queue,
         \/ fromHelper # <<>> /\ fromHelper' = Tail(fromHelper)
         \/ fromHelper' = Append(fromHelper, W!Message("ready", 0))
  PROVE  Letters'
<1>1. W!Ids' = W!Ids /\ W!JobsSent' = W!JobsSent /\ W!CancelsSent' = W!CancelsSent
  BY MessagesSame, SentSame
<1>2. W!Answers' \subseteq W!Answers /\ \A id \in W!Ids : \A n, m \in DOMAIN fromHelper' :
         fromHelper'[n] = W!Message("answer", id) /\ fromHelper'[m] = W!Message("answer", id) => n = m
  <2>1. CASE fromHelper # <<>> /\ fromHelper' = Tail(fromHelper)
    <3>1. \A n \in DOMAIN fromHelper' : n \in Nat \ {0} /\ n + 1 \in DOMAIN fromHelper
            /\ fromHelper'[n] = fromHelper[n + 1]
      BY <2>1, PipesTyped, OneLess
    <3>2. W!Answers' \subseteq W!Answers
      <4>1. W!Answers = {id \in W!Ids : id \in W!Answers' \/ Head(fromHelper) = W!Message("answer", id)}
        BY <2>1, AnswersOneLess
      <4>2. W!Answers' \subseteq W!Ids
        BY <1>1 DEF W!Answers
      <4> QED BY <4>1, <4>2
    <3>3. ASSUME NEW id \in W!Ids, NEW n \in DOMAIN fromHelper', NEW m \in DOMAIN fromHelper',
                 fromHelper'[n] = W!Message("answer", id), fromHelper'[m] = W!Message("answer", id)
          PROVE  n = m
      <4>1. n + 1 = m + 1
        BY <3>1, <3>3 DEF Letters, Singly
      <4> QED BY <3>1, <4>1
    <3> QED BY <3>2, <3>3
  <2>2. CASE fromHelper' = Append(fromHelper, W!Message("ready", 0))
    <3>0. W!Message("ready", 0) \in FromMessages /\ fromHelper \in Seq(FromMessages)
      BY MessageTypes, PipesTyped
    <3>1. /\ DOMAIN fromHelper' = DOMAIN fromHelper \cup {Len(fromHelper) + 1}
          /\ fromHelper'[Len(fromHelper) + 1] = W!Message("ready", 0)
          /\ \A n \in DOMAIN fromHelper : fromHelper'[n] = fromHelper[n]
      BY <2>2, <3>0, OneMore
    <3>2. \A id \in W!Ids : W!Message("ready", 0) # W!Message("answer", id)
      BY DEF W!Message
    <3>3. W!Answers' \subseteq W!Answers
      BY <1>1, <3>1, <3>2 DEF W!Answers
    <3>4. \A id \in W!Ids : \A n, m \in DOMAIN fromHelper' :
            fromHelper'[n] = W!Message("answer", id) /\ fromHelper'[m] = W!Message("answer", id) => n = m
      BY <3>1, <3>2 DEF Letters, Singly
    <3> QED BY <3>3, <3>4
  <2> QED BY <2>1, <2>2
<1>3. Singly'
  BY <1>1, <1>2 DEF Letters, Singly
<1>4. Unknown'
  BY <1>1, <1>2 DEF Letters, Unknown, Unsubmitted
<1>5. Withdrawn'
  BY <1>1 DEF Letters, Withdrawn
<1> QED BY <1>3, <1>4, <1>5 DEF Letters

\* A helper that has nothing is sent what waits.
LEMMA JobsReplayed ==
  ASSUME Typed, W!JobsSent = {}, budget' = budget, toHelper' = toHelper \o W!Replay
  PROVE  /\ W!JobsSent' = pending /\ W!CancelsSent' = W!CancelsSent
         /\ \A n \in DOMAIN toHelper : n \in DOMAIN toHelper' /\ toHelper'[n] = toHelper[n]
         /\ \A n \in DOMAIN toHelper' : n \in Nat
         /\ \A n \in DOMAIN toHelper' : n \notin DOMAIN toHelper =>
              /\ n - Len(toHelper) \in DOMAIN W!Replay /\ n > Len(toHelper)
              /\ toHelper'[n] = W!Replay[n - Len(toHelper)]
<1>1. /\ W!Replay \in Seq(ToMessages) /\ W!Replay[1] = W!Control("source-busy", worker.source)
      /\ \A n \in DOMAIN W!Replay : n # 1 => \E id \in pending : W!Replay[n] = W!Message("job", id)
      /\ \A id \in pending : \E n \in DOMAIN W!Replay : n # 1 /\ W!Replay[n] = W!Message("job", id)
  BY Replayed
<1>2. toHelper \in Seq(ToMessages) /\ pending \subseteq W!Ids /\ W!Ids' = W!Ids
  BY PipesTyped, MessagesSame
<1>3. /\ Len(toHelper) \in Nat
      /\ \A n \in DOMAIN toHelper : n \in DOMAIN toHelper' /\ toHelper'[n] = toHelper[n] /\ n \in 1..Len(toHelper)
      /\ \A n \in DOMAIN W!Replay : n \in Nat \ {0} /\ Len(toHelper) + n \in DOMAIN toHelper'
           /\ toHelper'[Len(toHelper) + n] = W!Replay[n]
      /\ \A n \in DOMAIN toHelper' : n \in Nat /\ n \notin DOMAIN toHelper
           => n - Len(toHelper) \in DOMAIN W!Replay /\ n > Len(toHelper)
      /\ \A n \in DOMAIN toHelper' : n \in Nat
  <2>1. toHelper' = toHelper \o W!Replay
    OBVIOUS
  <2>2. \A n \in DOMAIN (toHelper \o W!Replay) : n \in Nat
    BY <1>1, <1>2
  <2> QED BY <1>1, <1>2, <2>1, <2>2, Joined
<1>4. ASSUME NEW n \in DOMAIN toHelper', n \notin DOMAIN toHelper
      PROVE  /\ n - Len(toHelper) \in DOMAIN W!Replay /\ n > Len(toHelper)
             /\ toHelper'[n] = W!Replay[n - Len(toHelper)]
  <2>1. n - Len(toHelper) \in DOMAIN W!Replay /\ n > Len(toHelper) /\ n \in Nat
    BY <1>3, <1>4
  <2>2. Len(toHelper) + (n - Len(toHelper)) = n
    BY <1>3, <2>1
  <2> QED BY <1>3, <2>1, <2>2
<1>5. \A x : (\E n \in DOMAIN toHelper' : toHelper'[n] = x) <=>
             (\E n \in DOMAIN toHelper : toHelper[n] = x) \/ (\E n \in DOMAIN W!Replay : W!Replay[n] = x)
  BY <1>3, <1>4
<1>6. \A id \in W!Ids : (\E n \in DOMAIN W!Replay : W!Replay[n] = W!Message("job", id)) <=> id \in pending
  <2>1. \A id, other : (W!Message("job", id) = W!Message("job", other) => id = other)
                       /\ W!Message("job", id) # W!Control("source-busy", worker.source)
    BY DEF W!Message, W!Control
  <2> QED BY <1>1, <2>1
<1>7. ASSUME NEW id \in W!Ids, NEW n \in DOMAIN W!Replay PROVE W!Replay[n] # W!Message("cancel", id)
  <2>1. CASE n = 1
    BY <1>1, <2>1 DEF W!Message, W!Control
  <2>2. CASE n # 1
    <3>1. PICK other \in pending : W!Replay[n] = W!Message("job", other)
      BY <1>1, <2>2
    <3> QED BY <3>1 DEF W!Message
  <2> QED BY <2>1, <2>2
<1>8. W!JobsSent' = pending
  BY <1>2, <1>5, <1>6 DEF W!JobsSent
<1>9. W!CancelsSent' = W!CancelsSent
  BY <1>2, <1>5, <1>7 DEF W!CancelsSent
<1> QED BY <1>3, <1>4, <1>8, <1>9

LEMMA LettersReplayed ==
  ASSUME Typed, Letters, W!JobsSent = {}, helper.jobs = {}, helper.running = {}, fromHelper' = <<>>,
         UNCHANGED <<pending, callers, helper, budget>>, toHelper' = toHelper \o W!Replay
  PROVE  Letters'
<1>1. W!Ids' = W!Ids /\ W!JobsSent' = pending /\ W!CancelsSent' = W!CancelsSent /\ W!Answers' = {}
  BY MessagesSame, SentSame, JobsReplayed
<1>2. /\ \A n \in DOMAIN toHelper : n \in DOMAIN toHelper' /\ toHelper'[n] = toHelper[n]
      /\ \A n \in DOMAIN toHelper' : n \in Nat
      /\ \A n \in DOMAIN toHelper' : n \notin DOMAIN toHelper =>
           /\ n - Len(toHelper) \in DOMAIN W!Replay /\ n > Len(toHelper)
           /\ toHelper'[n] = W!Replay[n - Len(toHelper)]
  BY JobsReplayed
<1>3. /\ W!Replay[1] = W!Control("source-busy", worker.source)
      /\ \A n \in DOMAIN W!Replay : n # 1 => \E id \in pending : W!Replay[n] = W!Message("job", id)
      /\ \A n, m \in DOMAIN W!Replay : n # 1 /\ m # 1 /\ W!Replay[n] = W!Replay[m] => n = m
      /\ Len(toHelper) \in Nat
  BY Replayed, PipesTyped
<1>4. helper.queue = {} /\ \A id \in pending : ~Unsubmitted(id)
  BY PipesTyped
<1>5. \A id \in W!Ids : \A n \in DOMAIN toHelper : toHelper[n] # W!Message("job", id)
  BY DEF W!JobsSent
<1>6. Singly'
  <2>1. ASSUME NEW id \in W!Ids, NEW n \in DOMAIN toHelper', NEW m \in DOMAIN toHelper',
               toHelper'[n] = W!Message("job", id), toHelper'[m] = W!Message("job", id)
        PROVE  n = m
    <3>1. n \notin DOMAIN toHelper /\ m \notin DOMAIN toHelper
      BY <1>2, <1>5, <2>1
    <3>2. /\ n - Len(toHelper) \in DOMAIN W!Replay /\ W!Replay[n - Len(toHelper)] = W!Message("job", id)
          /\ m - Len(toHelper) \in DOMAIN W!Replay /\ W!Replay[m - Len(toHelper)] = W!Message("job", id)
      BY <1>2, <2>1, <3>1
    <3>3. W!Message("job", id) # W!Control("source-busy", worker.source)
      BY DEF W!Message, W!Control
    <3>4. n - Len(toHelper) # 1 /\ m - Len(toHelper) # 1
      BY <1>3, <3>2, <3>3
    <3>5. n - Len(toHelper) = m - Len(toHelper)
      BY <1>3, <3>2, <3>4
    <3> QED BY <1>2, <1>3, <3>5
  <2>2. \A n \in DOMAIN fromHelper' : FALSE
    OBVIOUS
  <2> QED BY <1>1, <1>4, <2>1, <2>2 DEF Singly
<1>7. Unknown'
  BY <1>1, <1>4 DEF Letters, Unknown, Unsubmitted
<1>8. Withdrawn'
  <2>1. ASSUME NEW id \in W!Ids, NEW n \in DOMAIN toHelper', toHelper'[n] = W!Message("cancel", id)
        PROVE  id \notin pending' /\ \A m \in DOMAIN toHelper' : m > n => toHelper'[m] # W!Message("job", id)
    <3>1. id \in W!CancelsSent
      BY <1>1, <2>1 DEF W!CancelsSent
    <3>2. id \notin pending
      BY <3>1 DEF Letters, Withdrawn, W!CancelsSent
    <3>3. id \notin W!JobsSent'
      BY <1>1, <3>2
    <3> QED BY <1>1, <3>2, <3>3 DEF W!JobsSent
  <2> QED BY <1>1, <2>1 DEF Withdrawn
<1> QED BY <1>6, <1>7, <1>8 DEF Letters

-----------------------------------------------------------------------------
(* What a gate of the helper will be when all messages are read.              *)

\* One more message tells a gate, or leaves it as it was told; ...
LEMMA TellsOneMore ==
  ASSUME NEW S, NEW s \in Seq(S), NEW x \in S, NEW command, NEW now, NEW v
  PROVE  /\ Tells(s, command, now, v) /\ x.command # command => Tells(Append(s, x), command, now, v)
         /\ x.command = command => Tells(Append(s, x), command, now, x.on)
<1> DEFINE t == Append(s, x)
<1>1. /\ DOMAIN t = DOMAIN s \cup {Len(s) + 1} /\ t[Len(s) + 1] = x
      /\ \A n \in DOMAIN s : t[n] = s[n] /\ n \in Nat /\ n < Len(s) + 1
      /\ Len(s) \in Nat
  BY OneMore
<1> HIDE DEF t
<1>2. ASSUME Tells(s, command, now, v), x.command # command PROVE Tells(t, command, now, v)
  <2>1. CASE v = now /\ \A n \in DOMAIN s : s[n].command # command
    BY <1>1, <1>2, <2>1 DEF Tells
  <2>2. CASE \E n \in DOMAIN s : /\ s[n].command = command /\ s[n].on = v
                                 /\ \A k \in DOMAIN s : k > n => s[k].command # command
    <3>1. PICK n \in DOMAIN s : /\ s[n].command = command /\ s[n].on = v
                                /\ \A k \in DOMAIN s : k > n => s[k].command # command
      BY <2>2
    <3>2. n \in DOMAIN t /\ t[n].command = command /\ t[n].on = v
            /\ \A k \in DOMAIN t : k > n => t[k].command # command
      BY <1>1, <1>2, <3>1
    <3> QED BY <3>2 DEF Tells
  <2> QED BY <1>2, <2>1, <2>2 DEF Tells
<1>3. ASSUME x.command = command PROVE Tells(t, command, now, x.on)
  <2>1. Len(s) + 1 \in DOMAIN t /\ t[Len(s) + 1] = x /\ \A k \in DOMAIN t : ~(k > Len(s) + 1)
    BY <1>1
  <2> QED BY <1>3, <2>1 DEF Tells
<1> QED BY <1>2, <1>3 DEF t

\* ... a message that is read tells it what it was told; ...
LEMMA TellsOneLess ==
  ASSUME NEW S, NEW s \in Seq(S), s # <<>>, NEW command, NEW now, NEW v, Tells(s, command, now, v)
  PROVE  /\ Head(s).command # command => Tells(Tail(s), command, now, v)
         /\ Head(s).command = command => Tells(Tail(s), command, Head(s).on, v)
<1> DEFINE t == Tail(s)
<1>1. /\ Head(s) = s[1] /\ 1 \in DOMAIN s
      /\ \A n \in DOMAIN t : n \in Nat \ {0} /\ n + 1 \in DOMAIN s /\ t[n] = s[n + 1]
      /\ \A n \in DOMAIN s : n \in Nat \ {0} /\ (n = 1 \/ (n - 1 \in DOMAIN t /\ t[n - 1] = s[n]))
  BY OneLess
<1> HIDE DEF t
<1>2. CASE v = now /\ \A n \in DOMAIN s : s[n].command # command
  BY <1>1, <1>2 DEF Tells, t
<1>3. CASE \E n \in DOMAIN s : /\ s[n].command = command /\ s[n].on = v
                               /\ \A k \in DOMAIN s : k > n => s[k].command # command
  <2>1. PICK n \in DOMAIN s : /\ s[n].command = command /\ s[n].on = v
                              /\ \A k \in DOMAIN s : k > n => s[k].command # command
    BY <1>3
  <2>2. CASE n = 1
    <3>1. \A k \in DOMAIN t : t[k].command # command
      BY <1>1, <2>1, <2>2
    <3> QED BY <1>1, <2>1, <2>2, <3>1 DEF Tells, t
  <2>3. CASE n # 1
    <3>1. n - 1 \in DOMAIN t /\ t[n - 1].command = command /\ t[n - 1].on = v
      BY <1>1, <2>1, <2>3
    <3>2. \A k \in DOMAIN t : k > n - 1 => t[k].command # command
      <4>1. n \in Nat
        BY <1>1
      <4> QED BY <1>1, <2>1, <4>1
    <3>3. \A now2 : Tells(t, command, now2, v)
      BY <3>1, <3>2 DEF Tells
    <3> QED BY <3>3 DEF t
  <2> QED BY <2>2, <2>3
<1> QED BY <1>2, <1>3 DEF Tells

\* ... and so do messages that are sent together.
LEMMA TellsJoined ==
  ASSUME NEW S, NEW s \in Seq(S), NEW t \in Seq(S), NEW command, NEW now, NEW v
  PROVE  /\ Tells(s, command, now, v) /\ (\A n \in DOMAIN t : t[n].command # command)
              => Tells(s \o t, command, now, v)
         /\ \A n \in DOMAIN t : /\ t[n].command = command /\ t[n].on = v
                                /\ \A k \in DOMAIN t : k > n => t[k].command # command
              => Tells(s \o t, command, now, v)
<1> DEFINE u == s \o t
<1>1. /\ Len(s) \in Nat
      /\ \A n \in DOMAIN s : n \in DOMAIN u /\ u[n] = s[n] /\ n \in 1..Len(s)
      /\ \A n \in DOMAIN t : n \in Nat \ {0} /\ Len(s) + n \in DOMAIN u /\ u[Len(s) + n] = t[n]
      /\ \A n \in DOMAIN u : n \in Nat /\ n \notin DOMAIN s => n - Len(s) \in DOMAIN t /\ n > Len(s)
  BY Joined
<1>2. \A n \in DOMAIN u : n \in Nat
  OBVIOUS
<1> HIDE DEF u
<1>3. ASSUME NEW n \in DOMAIN u, n \notin DOMAIN s PROVE n - Len(s) \in DOMAIN t /\ u[n] = t[n - Len(s)] /\ n > Len(s)
  <2>1. n - Len(s) \in DOMAIN t /\ n > Len(s) /\ Len(s) + (n - Len(s)) = n
    BY <1>1, <1>2, <1>3
  <2> QED BY <1>1, <2>1
<1>4. ASSUME Tells(s, command, now, v), \A n \in DOMAIN t : t[n].command # command
      PROVE  Tells(u, command, now, v)
  <2>1. CASE v = now /\ \A n \in DOMAIN s : s[n].command # command
    BY <1>1, <1>3, <1>4, <2>1 DEF Tells
  <2>2. CASE \E n \in DOMAIN s : /\ s[n].command = command /\ s[n].on = v
                                 /\ \A k \in DOMAIN s : k > n => s[k].command # command
    <3>1. PICK n \in DOMAIN s : /\ s[n].command = command /\ s[n].on = v
                                /\ \A k \in DOMAIN s : k > n => s[k].command # command
      BY <2>2
    <3>2. n \in DOMAIN u /\ u[n].command = command /\ u[n].on = v
            /\ \A k \in DOMAIN u : k > n => u[k].command # command
      BY <1>1, <1>3, <1>4, <3>1
    <3> QED BY <3>2 DEF Tells
  <2> QED BY <1>4, <2>1, <2>2 DEF Tells
<1>5. ASSUME NEW n \in DOMAIN t, t[n].command = command, t[n].on = v,
             \A k \in DOMAIN t : k > n => t[k].command # command
      PROVE  Tells(u, command, now, v)
  <2>1. Len(s) + n \in DOMAIN u /\ u[Len(s) + n].command = command /\ u[Len(s) + n].on = v /\ n \in Nat \ {0}
    BY <1>1, <1>5
  <2>2. ASSUME NEW k \in DOMAIN u, k > Len(s) + n PROVE u[k].command # command
    <3>1. k \notin DOMAIN s
      BY <1>1, <1>2, <2>1, <2>2
    <3>2. k - Len(s) \in DOMAIN t /\ u[k] = t[k - Len(s)] /\ k - Len(s) > n
      BY <1>1, <1>2, <1>3, <2>1, <2>2, <3>1
    <3> QED BY <1>5, <3>2
  <2> QED BY <2>1, <2>2 DEF Tells
<1> QED BY <1>4, <1>5 DEF u

-----------------------------------------------------------------------------
(* While the app is open.                                                     *)

Open == Stages /\ Unsent /\ W!HelperKnows /\ Gates
Sound == Typed /\ Letters /\ ~worker.closed /\ Open

\* The types that these steps use.
LEMMA SoundTypes ==
  ASSUME Sound
  PROVE  /\ worker \in Workers /\ helper \in Helpers /\ callers \in Callers
         /\ toHelper \in Seq(ToMessages) /\ fromHelper \in Seq(FromMessages)
         /\ pending \subseteq W!Ids /\ helper.queue \subseteq helper.jobs
         /\ budget \in W!Budget /\ ~worker.closed
BY TypedParts DEF Sound, Registered, Queued

\* An action that leaves the pipe and the helper alone, and of the supervisor's
\* flags those that speak of them, keeps what is said of them.
Apart == UNCHANGED <<toHelper, fromHelper, helper>> /\ budget'.asks = budget.asks
LEMMA ApartKeeps ==
  ASSUME Sound, Apart, pending' = pending,
         worker'.ready = worker.ready, worker'.recovering = worker.recovering,
         worker'.connected = worker.connected, worker'.paused = worker.paused,
         worker'.source = worker.source
  PROVE  W!HelperKnows' /\ Gates'
<1>1. W!Ids' = W!Ids /\ W!JobsSent' = W!JobsSent /\ W!CancelsSent' = W!CancelsSent /\ W!Answers' = W!Answers
  BY MessagesSame, SentSame DEF Apart
<1>2. W!HelperKnows'
  BY <1>1 DEF Sound, Open, W!HelperKnows, Apart
<1>3. Gates'
  BY DEF Sound, Open, Gates, Alive, Apart
<1> QED BY <1>2, <1>3

\* Who asks, and who leaves without a word to the helper.
LEMMA OpenAsks ==
  ASSUME Sound, NEW id \in W!Ids, W!start(id) \/ W!StartReturns(id) \/ W!WaiterLeaves(id)
  PROVE  Open'
<1>0. budget'.asks = budget.asks /\ Apart /\ pending' = pending
  BY SoundTypes, SpendKeepsAsks DEF W!start, W!StartReturns, W!WaiterLeaves, Apart
<1>1. /\ UNCHANGED <<toHelper, fromHelper, helper, pending>>
      /\ worker' = worker \/ (worker.reader = "none" /\ worker' = [worker EXCEPT !.reader = "launching"])
  BY DEF W!start, W!StartReturns, W!WaiterLeaves
<1>2. worker \in Workers
  BY SoundTypes
<1>3. W!HelperKnows' /\ Gates'
  BY <1>0, <1>1, <1>2, ApartKeeps DEF Workers
<1>4. Stages'
  BY <1>1, <1>2 DEF Sound, Open, Stages, Alive, Workers
<1>5. W!Ids' = W!Ids /\ W!JobsSent' = W!JobsSent
  BY <1>0, <1>1, MessagesSame, SentSame
<1>6. worker.ready \/ worker.recovering \/ \A other \in W!Ids : callers[other] # "admitted"
        => callers'[other] # "admitted"
  BY <1>2, SoundTypes DEF W!start, W!StartReturns, W!WaiterLeaves, W!Caller, Callers, Workers
<1>7. Unsent'
  BY <1>1, <1>2, <1>5, <1>6 DEF Sound, Open, Unsent, Alive, Workers
<1> QED BY <1>3, <1>4, <1>7 DEF Open

\* Messages the backend sends while a connection is there.
LEMMA SendReaches ==
  ASSUME Sound, NEW m
  PROVE  /\ W!Send(m) = IF worker.connected /\ Alive THEN Append(toHelper, m) ELSE toHelper
         /\ helper.pc = "running" /\ worker.ready => worker.connected /\ Alive /\ ~worker.failure
BY SoundTypes DEF W!Send, W!Connected, Alive, Sound, Open, Stages, Workers, Helpers

\* A message that is sent disturbs no place of the supervisor's.
LEMMA StagesSent ==
  ASSUME Sound, NEW m \in ToMessages, m.command # "stop",
         toHelper' = toHelper \/ (Alive /\ toHelper' = Append(toHelper, m)),
         UNCHANGED <<fromHelper, helper>>, worker'.reader = worker.reader,
         worker'.ready = worker.ready, worker'.recovering = worker.recovering,
         worker'.connected = worker.connected, worker'.failure = worker.failure
  PROVE  Stages'
<1>1. toHelper \in Seq(ToMessages)
  BY SoundTypes
<1>2. \A n \in DOMAIN toHelper' : toHelper'[n].command # "stop"
  <2>1. CASE toHelper' = toHelper
    BY <2>1 DEF Sound, Open, Stages
  <2>2. CASE toHelper' = Append(toHelper, m)
    <3>1. /\ DOMAIN toHelper' = DOMAIN toHelper \cup {Len(toHelper) + 1}
          /\ toHelper'[Len(toHelper) + 1] = m
          /\ \A n \in DOMAIN toHelper : toHelper'[n] = toHelper[n]
      BY <1>1, <2>2, OneMore
    <3> QED BY <3>1 DEF Sound, Open, Stages
  <2> QED BY <2>1, <2>2
<1>3. ~Alive' => toHelper' = <<>>
  BY DEF Sound, Open, Stages, Alive
<1> QED BY <1>2, <1>3 DEF Sound, Open, Stages, Alive

\* A request is sent to a helper that is ready, or waits for the next one.
LEMMA OpenSubmits ==
  ASSUME Sound, NEW id \in W!Ids, W!submit_library(id)
  PROVE  Open'
<1>0. worker \in Workers /\ helper \in Helpers /\ toHelper \in Seq(ToMessages) /\ callers \in Callers
  BY SoundTypes
<1>1. budget' = budget /\ UNCHANGED <<worker, fromHelper, helper>> /\ callers[id] = "admitted"
  BY DEF W!submit_library
<1>2. W!Ids' = W!Ids /\ W!Answers' = W!Answers
  BY <1>1, MessagesSame, SentSame
<1>3. \A other \in W!Ids : callers[other] # "admitted" => callers'[other] # "admitted"
  BY <1>0 DEF W!submit_library, W!Caller, Callers
<1>4. CASE UNCHANGED <<pending, toHelper>>
  <2>1. W!HelperKnows' /\ Gates'
    BY <1>1, <1>4, ApartKeeps DEF Apart
  <2>2. Stages'
    BY <1>1, <1>4 DEF Sound, Open, Stages, Alive
  <2>3. W!JobsSent' = W!JobsSent
    BY <1>1, <1>4, SentSame
  <2>4. Unsent'
    BY <1>1, <1>2, <1>3, <1>4, <2>3 DEF Sound, Open, Unsent, Alive
  <2> QED BY <2>1, <2>2, <2>4 DEF Open
<1>5. CASE /\ ~worker.failure /\ pending' = pending \cup {id}
           /\ toHelper' = IF worker.recovering THEN toHelper ELSE W!Send(W!Message("job", id))
  <2> DEFINE m == W!Message("job", id)
  <2>1. m \in ToMessages /\ m.command = "job"
    BY MessageTypes DEF W!Message
  <2>2. toHelper' = IF ~worker.recovering /\ worker.connected /\ Alive THEN Append(toHelper, m) ELSE toHelper
    BY <1>5, SendReaches
  <2> HIDE DEF m
  <2>3. Stages'
    BY <1>1, <2>1, <2>2, StagesSent
  <2>4. ASSUME toHelper' = Append(toHelper, m)
        PROVE  W!JobsSent' = W!JobsSent \cup {id} /\ W!CancelsSent' = W!CancelsSent
    <3>1. \A other \in W!Ids : m # W!Message("cancel", other) /\ (m = W!Message("job", other) <=> other = id)
      BY DEF W!Message, m
    <3> QED BY <1>1, <2>1, <2>4, <3>1, SentOneMore DEF W!JobsSent, W!CancelsSent, Sound
  <2>5. W!HelperKnows'
    <3>1. SUFFICES ASSUME helper.pc = "running", worker.ready, ~worker.recovering
                   PROVE  /\ pending' \subseteq W!JobsSent' \cup helper.jobs \cup W!Answers
                          /\ (W!JobsSent' \cup helper.jobs) \ pending' \subseteq W!CancelsSent'
      BY <1>1, <1>2 DEF W!HelperKnows
    <3>2. toHelper' = Append(toHelper, m)
      BY <2>2, <3>1, SendReaches
    <3>3. W!JobsSent' = W!JobsSent \cup {id} /\ W!CancelsSent' = W!CancelsSent
      BY <2>4, <3>2
    <3> QED BY <1>5, <3>1, <3>3 DEF Sound, Open, W!HelperKnows
  <2>6. Gates'
    <3>1. \A command \in {"pause", "source-busy"} : \A now, v :
            Tells(toHelper, command, now, v) => Tells(toHelper', command, now, v)
      BY <1>0, <2>1, <2>2, TellsOneMore
    <3> QED BY <1>1, <3>1 DEF Sound, Open, Gates, Alive
  <2>7. Unsent'
    <3>1. CASE worker.ready
      BY <1>1, <3>1 DEF Sound, Open, Unsent
    <3>2. CASE ~worker.ready
      <4>1. toHelper' = toHelper
        BY <1>1, <1>5, <2>2, <3>2 DEF Sound, Open, Unsent
      <4>2. W!JobsSent' = W!JobsSent
        BY <1>1, <4>1, SentSame
      <4> QED BY <1>1, <1>2, <1>3, <3>2, <4>2 DEF Sound, Open, Unsent, Alive
    <3> QED BY <3>1, <3>2
  <2> QED BY <2>3, <2>5, <2>6, <2>7 DEF Open
<1> QED BY <1>4, <1>5 DEF W!submit_library

\* What is cancelled is told to a helper that is ready.
LEMMA OpenCancels ==
  ASSUME Sound, NEW id \in W!Ids, W!cancel(id) \/ W!WaiterCancels(id)
  PROVE  Open'
<1>0. worker \in Workers /\ helper \in Helpers /\ toHelper \in Seq(ToMessages) /\ callers \in Callers
      /\ budget'.asks = budget.asks
  BY SoundTypes, SpendKeepsAsks DEF W!cancel, W!WaiterCancels
<1>1. UNCHANGED <<worker, fromHelper, helper>> /\ W!Cancelled(id) /\ W!Caller(id, "gone")
  BY DEF W!cancel, W!WaiterCancels
<1>2. W!Ids' = W!Ids /\ W!Answers' = W!Answers
  BY <1>0, <1>1, MessagesSame, SentSame
<1>3. \A other \in W!Ids : callers[other] # "admitted" => callers'[other] # "admitted"
  BY <1>0, <1>1 DEF W!Caller, Callers
<1>4. CASE id \notin pending
  <2>0. UNCHANGED <<pending, toHelper>>
    BY <1>1, <1>4 DEF W!Cancelled
  <2>1. W!HelperKnows' /\ Gates'
    BY <1>0, <1>1, <2>0, ApartKeeps DEF Apart
  <2>2. Stages'
    BY <1>1, <2>0 DEF Sound, Open, Stages, Alive
  <2>3. W!JobsSent' = W!JobsSent
    BY <1>0, <2>0, SentSame
  <2>4. Unsent'
    BY <1>1, <1>2, <1>3, <2>3 DEF Sound, Open, Unsent, Alive
  <2> QED BY <2>1, <2>2, <2>4 DEF Open
<1>5. CASE id \in pending
  <2> DEFINE m == W!Message("cancel", id)
  <2>1. m \in ToMessages /\ m.command = "cancel"
    BY MessageTypes DEF W!Message
  <2>2. /\ pending' = pending \ {id}
        /\ toHelper' = IF ~worker.failure /\ worker.connected /\ Alive THEN Append(toHelper, m) ELSE toHelper
    BY <1>1, <1>5, SendReaches, SoundTypes DEF W!Cancelled
  <2> HIDE DEF m
  <2>3. Stages'
    BY <1>1, <2>1, <2>2, StagesSent
  <2>4. W!JobsSent' = W!JobsSent
    <3>1. \A other \in W!Ids : m # W!Message("job", other)
      BY DEF W!Message, m
    <3>2. CASE toHelper' = toHelper
      BY <1>0, <3>2, SentSame
    <3>3. CASE toHelper' = Append(toHelper, m)
      BY <1>0, <2>1, <3>1, <3>3, SentOneMore DEF W!JobsSent, Sound
    <3> QED BY <2>2, <3>2, <3>3
  <2>5. W!HelperKnows'
    <3>1. SUFFICES ASSUME helper.pc = "running", worker.ready, ~worker.recovering
                   PROVE  /\ pending' \subseteq W!JobsSent \cup helper.jobs \cup W!Answers
                          /\ (W!JobsSent \cup helper.jobs) \ pending' \subseteq W!CancelsSent'
      BY <1>1, <1>2, <2>4 DEF W!HelperKnows
    <3>2. toHelper' = Append(toHelper, m)
      BY <2>2, <3>1, SendReaches
    <3>3. W!CancelsSent' = {other \in W!Ids : other \in W!CancelsSent \/ m = W!Message("cancel", other)}
      BY <1>0, <2>1, <3>2, SentOneMore DEF Sound
    <3>4. id \in W!CancelsSent' /\ W!CancelsSent \subseteq W!CancelsSent'
      BY <3>3 DEF m, W!CancelsSent
    <3> QED BY <2>2, <3>1, <3>4 DEF Sound, Open, W!HelperKnows
  <2>6. Gates'
    <3>1. \A command \in {"pause", "source-busy"} : \A now, v :
            Tells(toHelper, command, now, v) => Tells(toHelper', command, now, v)
      BY <1>0, <2>1, <2>2, TellsOneMore
    <3> QED BY <1>1, <3>1 DEF Sound, Open, Gates, Alive
  <2>7. Unsent'
    BY <1>1, <1>2, <1>3, <2>4 DEF Sound, Open, Unsent, Alive
  <2> QED BY <2>3, <2>5, <2>6, <2>7 DEF Open
<1> QED BY <1>4, <1>5

\* A gate is told to whoever is connected.
LEMMA OpenControls ==
  ASSUME Sound, W!pause \/ W!foreground_source
  PROVE  Open'
<1> DEFINE command == IF worker'.paused # worker.paused THEN "pause" ELSE "source-busy"
           value == IF worker'.paused # worker.paused THEN worker'.paused ELSE worker'.source
           m == W!Control(command, value)
<1>0. worker \in Workers /\ helper \in Helpers /\ toHelper \in Seq(ToMessages) /\ budget'.asks = budget.asks
      /\ ~worker.closed
  BY SoundTypes, SpendKeepsAsks DEF W!pause, W!foreground_source
<1>1. /\ UNCHANGED <<fromHelper, helper, pending, callers>> /\ toHelper' = W!Told(m) /\ m \in ToMessages
      /\ m.command = command /\ m.on = value
      /\ worker'.reader = worker.reader /\ worker'.ready = worker.ready
      /\ worker'.recovering = worker.recovering /\ worker'.connected = worker.connected
      /\ worker'.failure = worker.failure
      /\ \/ command = "pause" /\ value = worker'.paused /\ worker'.source = worker.source
         \/ command = "source-busy" /\ value = worker'.source /\ worker'.paused = worker.paused
  <2>1. CASE W!pause
    <3>1. worker'.paused = ~worker.paused /\ worker'.paused \in BOOLEAN /\ worker'.paused # worker.paused
      BY <1>0, <2>1 DEF W!pause, Workers
    <3>2. m = W!Control("pause", ~worker.paused) /\ m \in ToMessages
      BY <3>1, MessageTypes
    <3> QED BY <1>0, <2>1, <3>1, <3>2 DEF W!pause, W!Control, Workers
  <2>2. CASE W!foreground_source
    <3>1. worker'.source = ~worker.source /\ worker'.source \in BOOLEAN /\ worker'.paused = worker.paused
      BY <1>0, <2>2 DEF W!foreground_source, Workers
    <3>2. m = W!Control("source-busy", ~worker.source) /\ m \in ToMessages
      BY <3>1, MessageTypes
    <3> QED BY <1>0, <2>2, <3>1, <3>2 DEF W!foreground_source, W!Control, Workers
  <2> QED BY <2>1, <2>2
<1> HIDE DEF m, command, value
<1>2. toHelper' = IF ~worker.failure /\ worker.connected /\ Alive THEN Append(toHelper, m) ELSE toHelper
  BY <1>0, <1>1, SendReaches DEF W!Told
<1>3. m.command \notin {"job", "cancel", "stop"}
  BY <1>1
<1>4. Stages'
  BY <1>1, <1>2, <1>3, StagesSent
<1>5. W!Ids' = W!Ids /\ W!Answers' = W!Answers /\ W!JobsSent' = W!JobsSent /\ W!CancelsSent' = W!CancelsSent
  <2>1. \A other \in W!Ids : m # W!Message("job", other) /\ m # W!Message("cancel", other)
    BY <1>3 DEF W!Message
  <2>2. CASE toHelper' = toHelper
    BY <1>0, <1>1, <2>2, MessagesSame, SentSame
  <2>3. CASE toHelper' = Append(toHelper, m)
    <3>1. W!JobsSent' = W!JobsSent /\ W!CancelsSent' = W!CancelsSent
      BY <1>0, <1>1, <2>1, <2>3, SentOneMore DEF W!JobsSent, W!CancelsSent, Sound
    <3> QED BY <1>0, <1>1, <3>1, MessagesSame, SentSame
  <2> QED BY <1>2, <2>2, <2>3
<1>6. W!HelperKnows'
  BY <1>1, <1>5 DEF Sound, Open, W!HelperKnows, Workers
<1>7. Unsent'
  BY <1>1, <1>5 DEF Sound, Open, Unsent, Alive
<1>8. ASSUME worker.connected, Alive
      PROVE  /\ Tells(toHelper', "pause", helper.paused, worker'.paused)
             /\ \A v : v = worker.source /\ Tells(toHelper, "source-busy", helper.busy, v)
                        => Tells(toHelper', "source-busy", helper.busy, worker'.source)
  <2>1. toHelper' = Append(toHelper, m)
    BY <1>2, <1>8 DEF Sound, Open, Stages, Alive
  <2>2. Tells(toHelper, "pause", helper.paused, worker.paused)
    BY <1>8 DEF Sound, Open, Gates
  <2>3. \A c, now, v :
          /\ Tells(toHelper, c, now, v) /\ m.command # c => Tells(toHelper', c, now, v)
          /\ m.command = c => Tells(toHelper', c, now, m.on)
    BY <1>0, <1>1, <2>1, TellsOneMore
  <2>4. CASE command = "pause" /\ value = worker'.paused /\ worker'.source = worker.source
    BY <1>1, <2>2, <2>3, <2>4
  <2>5. CASE command = "source-busy" /\ value = worker'.source /\ worker'.paused = worker.paused
    BY <1>1, <2>2, <2>3, <2>5
  <2> QED BY <1>1, <2>4, <2>5
<1>9. Gates'
  BY <1>1, <1>8, SendReaches DEF Sound, Open, Gates, Alive
<1> QED BY <1>4, <1>6, <1>7, <1>9 DEF Open

\* A helper that is not ready has no request, and has said at most that it is.
LEMMA NotReady ==
  ASSUME Sound, ~worker.ready
  PROVE  /\ W!JobsSent = {} /\ helper.jobs = {} /\ helper.running = {} /\ helper.queue = {}
         /\ fromHelper = <<>> \/ (fromHelper = <<W!Message("ready", 0)>> /\ helper.pc # "booting")
BY SoundTypes DEF Sound, Open, Unsent

\* The helper reports ready when nothing is on its way from it.
LEMMA OpenBoots ==
  ASSUME Sound, W!HelperBoots
  PROVE  Open'
<1>0. worker \in Workers /\ helper \in Helpers
  BY SoundTypes
<1>1. /\ helper.pc = "booting" /\ helper'.pc = "running" /\ helper'.paused = helper.paused
      /\ helper'.jobs = helper.jobs /\ helper'.running = helper.running
      /\ UNCHANGED <<worker, pending, callers, toHelper, budget>>
  BY <1>0 DEF W!HelperBoots, Helpers
<1>2. ~worker.ready
  BY <1>1 DEF Sound, Open, Stages
<1>3. fromHelper' = <<W!Message("ready", 0)>>
  <2>1. fromHelper = <<>> /\ fromHelper' = Append(fromHelper, W!Message("ready", 0))
    BY <1>1, <1>2, NotReady DEF W!HelperBoots
  <2> QED BY <2>1
<1>4. W!Ids' = W!Ids /\ W!JobsSent' = W!JobsSent
  BY <1>1, MessagesSame, SentSame
<1>5. Stages'
  BY <1>0, <1>1, <1>2 DEF Sound, Open, Stages, Alive, Workers
<1>6. Unsent'
  BY <1>1, <1>2, <1>3, <1>4 DEF Sound, Open, Unsent, Alive
<1>7. W!HelperKnows' /\ Gates'
  BY <1>1, <1>2 DEF Sound, Open, W!HelperKnows, Gates, Alive
<1> QED BY <1>5, <1>6, <1>7 DEF Open

\* Nothing is sent to a helper that is gone.
LEMMA OpenDies ==
  ASSUME Sound, W!HelperDies
  PROVE  Open'
<1>0. worker \in Workers /\ helper \in Helpers /\ budget'.asks = budget.asks
  BY SoundTypes, SpendKeepsAsks DEF W!HelperDies
<1>1. /\ helper.pc \in {"booting", "running"} /\ helper'.pc = "dead"
      /\ helper'.jobs = {} /\ helper'.running = {} /\ toHelper' = <<>>
      /\ UNCHANGED <<worker, pending, callers, fromHelper>>
  BY DEF W!HelperDies, W!NoHelper
<1>2. W!Ids' = W!Ids /\ W!JobsSent' = {}
  BY <1>0, <1>1, MessagesSame, SentSame
<1>3. Stages'
  BY <1>0, <1>1 DEF Sound, Open, Stages, Alive, Workers
<1>4. Unsent'
  BY <1>1, <1>2 DEF Sound, Open, Unsent, Alive
<1>5. W!HelperKnows' /\ Gates'
  BY <1>1 DEF W!HelperKnows, Gates, Alive
<1> QED BY <1>3, <1>4, <1>5 DEF Open

\* What the helper reads is, from then on, what it knows.
LEMMA OpenReceives ==
  ASSUME Sound, W!Receive
  PROVE  Open'
<1> DEFINE m == Head(toHelper)
<1>0. worker \in Workers /\ helper \in Helpers /\ toHelper \in Seq(ToMessages)
  BY SoundTypes
<1>1. /\ helper.pc = "running" /\ toHelper # <<>> /\ toHelper' = Tail(toHelper) /\ helper' = W!Received(m)
      /\ UNCHANGED <<worker, futures, pending, callers, fromHelper, budget>>
  BY DEF W!Receive
<1>2. /\ m = toHelper[1] /\ m \in ToMessages /\ 1 \in DOMAIN toHelper
      /\ \A n \in DOMAIN toHelper' : n \in Nat \ {0} /\ n + 1 \in DOMAIN toHelper /\ toHelper'[n] = toHelper[n + 1]
  BY <1>0, <1>1, OneLess
<1>3. W!Ids' = W!Ids /\ W!Answers' = W!Answers
  BY <1>1, MessagesSame, SentSame
<1>4. /\ W!JobsSent = {id \in W!Ids : id \in W!JobsSent' \/ m = W!Message("job", id)}
      /\ W!CancelsSent = {id \in W!Ids : id \in W!CancelsSent' \/ m = W!Message("cancel", id)}
      /\ W!JobsSent' \subseteq W!Ids /\ W!CancelsSent' \subseteq W!Ids
  BY <1>1, <1>3, SentOneLess DEF Sound, W!JobsSent, W!CancelsSent
<1>5. \A id \in W!Ids : m = W!Message("cancel", id) => id \notin W!JobsSent' /\ id \notin pending
  <2>1. ASSUME NEW id \in W!Ids, m = W!Message("cancel", id) PROVE id \notin W!JobsSent' /\ id \notin pending
    <3>1. id \notin pending /\ \A k \in DOMAIN toHelper : k > 1 => toHelper[k] # W!Message("job", id)
      BY <1>2, <2>1 DEF Sound, Letters, Withdrawn
    <3>2. \A n \in DOMAIN toHelper' : toHelper'[n] # W!Message("job", id)
      BY <1>2, <3>1
    <3> QED BY <1>3, <3>1, <3>2 DEF W!JobsSent
  <2> QED BY <2>1
<1>6. m.command # "stop"
  BY <1>2 DEF Sound, Open, Stages
<1> HIDE DEF m
<1>7. /\ helper'.pc = "running" /\ helper'.running = helper.running
      /\ \/ \E id \in W!Ids : m = W!Message("job", id) /\ helper'.jobs = helper.jobs \cup {id}
         \/ \E id \in W!Ids : m = W!Message("cancel", id) /\ helper'.jobs = helper.jobs \ {id}
         \/ m.command \in {"pause", "source-busy"} /\ helper'.jobs = helper.jobs
      /\ helper'.paused = (IF m.command = "pause" THEN m.on ELSE helper.paused)
      /\ helper'.busy = (IF m.command = "source-busy" THEN m.on ELSE helper.busy)
  <2>1. CASE m.command = "job" /\ m.id \in W!Ids /\ m = W!Message("job", m.id)
    BY <1>0, <1>1, <2>1 DEF W!Received, Helpers
  <2>2. CASE m.command = "cancel" /\ m.id \in W!Ids /\ m = W!Message("cancel", m.id)
    BY <1>0, <1>1, <2>2 DEF W!Received, Helpers
  <2>3. CASE m.command \in {"pause", "source-busy"}
    BY <1>0, <1>1, <2>3 DEF W!Received, Helpers
  <2> QED BY <1>2, <1>6, <2>1, <2>2, <2>3 DEF ToMessages, W!Message
<1>8. Stages'
  <2>1. \A n \in DOMAIN toHelper' : toHelper'[n].command # "stop"
    BY <1>2 DEF Sound, Open, Stages
  <2> QED BY <1>0, <1>1, <1>7, <2>1 DEF Sound, Open, Stages, Alive
<1>9. Unsent'
  <2>1. CASE worker.ready
    BY <1>1, <2>1 DEF Sound, Open, Unsent
  <2>2. CASE ~worker.ready
    <3>1. W!JobsSent = {} /\ helper.jobs = {}
      BY <2>2, NotReady
    <3>2. W!JobsSent' = {} /\ helper'.jobs = {}
      BY <1>4, <1>7, <3>1
    <3> QED BY <1>1, <1>3, <1>7, <2>2, <3>2 DEF Sound, Open, Unsent, Alive
  <2> QED BY <2>1, <2>2
<1>10. W!HelperKnows'
  <2>1. SUFFICES ASSUME worker.ready, ~worker.recovering
                 PROVE  /\ pending \subseteq W!JobsSent' \cup helper'.jobs \cup W!Answers
                        /\ (W!JobsSent' \cup helper'.jobs) \ pending \subseteq W!CancelsSent'
    BY <1>1, <1>3 DEF W!HelperKnows
  <2>2. /\ pending \subseteq W!JobsSent \cup helper.jobs \cup W!Answers
        /\ (W!JobsSent \cup helper.jobs) \ pending \subseteq W!CancelsSent /\ pending \subseteq W!Ids
    BY <1>1, <2>1, SoundTypes DEF Sound, Open, W!HelperKnows
  <2>3. CASE \E id \in W!Ids : m = W!Message("job", id) /\ helper'.jobs = helper.jobs \cup {id}
    <3>1. PICK id \in W!Ids : m = W!Message("job", id) /\ helper'.jobs = helper.jobs \cup {id}
      BY <2>3
    <3>2. \A other \in W!Ids : m # W!Message("cancel", other) /\ (m = W!Message("job", other) => other = id)
      BY <3>1 DEF W!Message
    <3>3. W!JobsSent = W!JobsSent' \cup {id} /\ W!CancelsSent = W!CancelsSent'
      BY <1>4, <3>1, <3>2
    <3> QED BY <2>2, <3>1, <3>3
  <2>4. CASE \E id \in W!Ids : m = W!Message("cancel", id) /\ helper'.jobs = helper.jobs \ {id}
    <3>1. PICK id \in W!Ids : m = W!Message("cancel", id) /\ helper'.jobs = helper.jobs \ {id}
      BY <2>4
    <3>2. \A other \in W!Ids : m # W!Message("job", other) /\ (m = W!Message("cancel", other) => other = id)
      BY <3>1 DEF W!Message
    <3>3. W!JobsSent = W!JobsSent' /\ W!CancelsSent \subseteq W!CancelsSent' \cup {id}
      BY <1>4, <3>2
    <3> QED BY <1>5, <2>2, <3>1, <3>3
  <2>5. CASE m.command \in {"pause", "source-busy"} /\ helper'.jobs = helper.jobs
    <3>1. \A other \in W!Ids : m # W!Message("job", other) /\ m # W!Message("cancel", other)
      BY <2>5 DEF W!Message
    <3>2. W!JobsSent = W!JobsSent' /\ W!CancelsSent = W!CancelsSent'
      BY <1>4, <3>1
    <3> QED BY <2>2, <2>5, <3>2
  <2> QED BY <1>7, <2>3, <2>4, <2>5
<1>11. Gates'
  <2>1. \A c, now, v : Tells(toHelper, c, now, v) =>
          /\ m.command # c => Tells(toHelper', c, now, v)
          /\ m.command = c => Tells(toHelper', c, m.on, v)
    BY <1>0, <1>1, TellsOneLess DEF m
  <2>2. \A v : Tells(toHelper, "pause", helper.paused, v) => Tells(toHelper', "pause", helper'.paused, v)
    BY <1>7, <2>1
  <2>3. \A v : Tells(toHelper, "source-busy", helper.busy, v) => Tells(toHelper', "source-busy", helper'.busy, v)
    BY <1>7, <2>1
  <2> QED BY <1>1, <2>2, <2>3 DEF Sound, Open, Gates, Alive
<1> QED BY <1>8, <1>9, <1>10, <1>11 DEF Open

\* Only a helper that is ready has work; what it ends, it answers.
LEMMA OpenWorks ==
  ASSUME Sound, NEW id \in W!Ids, W!Working(id)
  PROVE  Open'
<1>0. worker \in Workers /\ helper \in Helpers /\ fromHelper \in Seq(FromMessages)
      /\ UNCHANGED <<worker, futures, pending, callers, toHelper, budget>> /\ helper.pc = "running"
  BY SoundTypes DEF W!Working, W!Take, W!Finish
<1>1. W!Ids' = W!Ids /\ W!JobsSent' = W!JobsSent /\ W!CancelsSent' = W!CancelsSent
  BY <1>0, MessagesSame, SentSame
<1>2. worker.ready
  BY <1>0, NotReady DEF W!Working, W!Take, W!Finish
<1>3. helper'.pc = helper.pc /\ helper'.paused = helper.paused /\ helper'.busy = helper.busy
  BY <1>0 DEF W!Working, W!Take, W!Finish, Helpers
<1>4. \/ helper'.jobs = helper.jobs /\ fromHelper' = fromHelper
      \/ id \in helper.jobs /\ helper'.jobs = helper.jobs \ {id}
           /\ fromHelper' = Append(fromHelper, W!Message("answer", id))
  <2>1. CASE W!Take(id)
    BY <1>0, <2>1 DEF W!Take, Helpers
  <2>2. CASE W!Finish(id) /\ id \in helper.jobs
    BY <1>0, <2>2 DEF W!Finish, Helpers
  <2>3. CASE W!Finish(id) /\ id \notin helper.jobs
    <3>1. helper'.jobs = helper.jobs \ {id} /\ fromHelper' = fromHelper
      BY <1>0, <2>3 DEF W!Finish, Helpers
    <3>2. helper.jobs \ {id} = helper.jobs
      BY <2>3
    <3> QED BY <3>1, <3>2
  <2> QED BY <2>1, <2>2, <2>3 DEF W!Working
<1>5. Stages'
  BY <1>0, <1>3 DEF Sound, Open, Stages, Alive
<1>6. Gates'
  BY <1>0, <1>3 DEF Sound, Open, Gates, Alive
<1>7. CASE helper'.jobs = helper.jobs /\ fromHelper' = fromHelper
  <2>1. W!Answers' = W!Answers
    BY <1>0, <1>7, SentSame
  <2>2. W!HelperKnows'
    BY <1>0, <1>1, <1>3, <1>7, <2>1 DEF Sound, Open, W!HelperKnows
  <2>3. Unsent'
    BY <1>0, <1>2, <1>7 DEF Sound, Open, Unsent
  <2> QED BY <1>5, <1>6, <2>2, <2>3 DEF Open
<1>8. CASE id \in helper.jobs /\ helper'.jobs = helper.jobs \ {id}
             /\ fromHelper' = Append(fromHelper, W!Message("answer", id))
  <2>1. W!Message("answer", id) \in FromMessages /\ W!Message("answer", id).command = "answer"
    BY MessageTypes DEF W!Message
  <2>2. W!Answers' = {i \in W!Ids : i \in W!Answers \/ W!Message("answer", id) = W!Message("answer", i)}
    BY <1>0, <1>8, <2>1, AnswersOneMore DEF Sound
  <2>3. W!Answers \subseteq W!Answers' /\ id \in W!Answers'
    BY <2>2 DEF W!Answers
  <2>4. W!HelperKnows'
    BY <1>0, <1>1, <1>3, <1>8, <2>3 DEF Sound, Open, W!HelperKnows
  <2>5. /\ DOMAIN fromHelper' = DOMAIN fromHelper \cup {Len(fromHelper) + 1}
        /\ fromHelper'[Len(fromHelper) + 1] = W!Message("answer", id)
        /\ \A n \in DOMAIN fromHelper : fromHelper'[n] = fromHelper[n]
    BY <1>0, <1>8, <2>1, OneMore
  <2>6. Unsent'
    BY <1>0, <1>2, <2>1, <2>5 DEF Sound, Open, Unsent
  <2> QED BY <1>5, <1>6, <2>4, <2>6 DEF Open
<1> QED BY <1>4, <1>7, <1>8

-----------------------------------------------------------------------------
(* The supervisor, while the app is open.                                     *)

\* A new helper is told of the pause as it starts.
LEMMA OpenLaunches ==
  ASSUME Sound, W!_launch \/ W!LaunchFails \/ W!Delayed
  PROVE  Open'
<1>0. worker \in Workers /\ helper \in Helpers /\ ~worker.closed /\ budget'.asks = budget.asks
  BY SoundTypes, SpendKeepsAsks DEF W!_launch, W!LaunchFails, W!Delayed
<1>1. /\ worker.reader \in {"launching", "delayed"} /\ UNCHANGED <<pending, callers, toHelper, fromHelper>>
      /\ \/ worker.reader = "launching"
              /\ worker' = [worker EXCEPT !.reader = "reading", !.connected = TRUE] /\ helper' = W!Booting
         \/ worker.reader = "launching" /\ worker' = [worker EXCEPT !.reader = "stopped"] /\ helper' = helper
         \/ worker' = [worker EXCEPT !.reader = "launching"] /\ helper' = helper
  BY <1>0 DEF W!_launch, W!LaunchFails, W!Delayed, W!Reader
<1>2. /\ helper.pc = "off" /\ fromHelper = <<>> /\ ~worker.ready /\ ~worker.connected /\ ~worker.failure
      /\ toHelper = <<>> /\ helper.jobs = {} /\ helper.running = {}
  BY <1>1 DEF Sound, Open, Stages, Alive
<1>3. helper'.jobs = {} /\ helper'.running = {} /\ helper'.pc \in {"off", "booting"} /\ worker'.ready = worker.ready
      /\ worker'.recovering = worker.recovering /\ worker'.failure = worker.failure /\ worker'.paused = worker.paused
  BY <1>0, <1>1, <1>2 DEF W!Booting, W!NoHelper, Workers
<1>4. W!Ids' = W!Ids /\ W!JobsSent' = W!JobsSent
  BY <1>0, <1>1, MessagesSame, SentSame
<1>5. Stages'
  <2>1. \/ worker'.reader = "reading" /\ worker'.connected /\ helper'.pc = "booting"
        \/ worker'.reader \in {"stopped", "launching"} /\ ~worker'.connected /\ helper'.pc = "off"
    BY <1>0, <1>1, <1>2 DEF Workers, W!Booting, W!NoHelper
  <2> QED BY <1>1, <1>2, <1>3, <2>1 DEF Stages, Alive
<1>6. Unsent'
  BY <1>1, <1>2, <1>3, <1>4 DEF Sound, Open, Unsent, Alive
<1>7. W!HelperKnows'
  BY <1>2, <1>3 DEF W!HelperKnows
<1>8. Gates'
  <2>1. Tells(toHelper', "pause", worker.paused, worker.paused)
    BY <1>1, <1>2 DEF Tells
  <2> QED BY <1>0, <1>1, <1>2, <1>3, <2>1 DEF Gates, Alive, W!Booting, W!NoHelper, Workers
<1> QED BY <1>5, <1>6, <1>7, <1>8 DEF Open

\* The new helper is ready: it is sent what waits.
LEMMA ReadyHasNothing ==
  ASSUME Sound, W!ReadReady
  PROVE  ~worker.ready /\ fromHelper' = <<>> /\ helper.pc # "booting"
<1>1. fromHelper # <<>> /\ W!First.command = "ready" /\ fromHelper' = Tail(fromHelper)
  BY DEF W!ReadReady
<1>2. 1 \in DOMAIN fromHelper /\ W!First = fromHelper[1]
  BY <1>1, SoundTypes, OneLess DEF W!First
<1>3. ~worker.ready
  BY <1>1, <1>2 DEF Sound, Open, Unsent
<1>4. fromHelper = <<W!Message("ready", 0)>> /\ helper.pc # "booting"
  BY <1>1, <1>3, NotReady
<1> QED BY <1>1, <1>3, <1>4

\* Then it knows what waits, and both gates.
LEMMA OpenReady ==
  ASSUME Sound, W!ReadReady
  PROVE  Open'
<1>0. worker \in Workers /\ helper \in Helpers /\ toHelper \in Seq(ToMessages)
      /\ UNCHANGED <<pending, callers, helper, budget>> /\ worker.reader = "reading"
  BY SoundTypes DEF W!ReadReady
<1>1. ~worker.ready /\ fromHelper' = <<>> /\ helper.pc # "booting"
  BY ReadyHasNothing
<1>2. W!JobsSent = {} /\ helper.jobs = {} /\ helper.running = {}
  BY <1>1, NotReady
<1>3. worker.connected /\ helper.pc # "off" /\ ~worker.failure
  BY <1>0 DEF Sound, Open, Stages
<1>4. W!Ids' = W!Ids /\ W!Answers' = {}
  BY <1>0, <1>1, MessagesSame, SentSame
<1>5. CASE helper.pc = "running"
  <2>1. worker' = [worker EXCEPT !.recovering = FALSE, !.ready = TRUE] /\ toHelper' = toHelper \o W!Replay
    BY <1>5 DEF W!ReadReady
  <2>2. W!JobsSent' = pending /\ W!CancelsSent' = W!CancelsSent
    BY <1>0, <1>2, <2>1, JobsReplayed DEF Sound
  <2>3. /\ W!Replay \in Seq(ToMessages) /\ W!Replay[1] = W!Control("source-busy", worker.source)
        /\ 1 \in DOMAIN W!Replay
        /\ \A n \in DOMAIN W!Replay : n # 1 => \E id \in pending : W!Replay[n] = W!Message("job", id)
    BY Replayed DEF Sound
  <2>4. \A n \in DOMAIN W!Replay : IF n = 1 THEN W!Replay[n].command = "source-busy" /\ W!Replay[n].on = worker.source
                                          ELSE W!Replay[n].command = "job"
    BY <2>3 DEF W!Message, W!Control
  <2>5. \A n \in DOMAIN toHelper' : toHelper'[n].command # "stop"
    <3>1. ASSUME NEW n \in DOMAIN toHelper' PROVE toHelper'[n].command # "stop"
      <4>1. CASE n \in DOMAIN toHelper
        <5>1. toHelper'[n] = toHelper[n]
          BY <1>0, <1>2, <2>1, <4>1, JobsReplayed DEF Sound
        <5> QED BY <4>1, <5>1 DEF Sound, Open, Stages
      <4>2. CASE n \notin DOMAIN toHelper
        <5>1. n - Len(toHelper) \in DOMAIN W!Replay /\ toHelper'[n] = W!Replay[n - Len(toHelper)]
          BY <1>0, <1>2, <2>1, <4>2, JobsReplayed DEF Sound
        <5> QED BY <2>4, <5>1
      <4> QED BY <4>1, <4>2
    <3> QED BY <3>1
  <2>6. Stages'
    BY <1>0, <1>2, <1>3, <1>5, <2>1, <2>5 DEF Stages, Alive, Workers
  <2>7. Unsent'
    BY <1>0, <1>1, <2>1 DEF Unsent, Workers
  <2>8. W!HelperKnows'
    BY <1>0, <1>2, <2>2 DEF W!HelperKnows
  <2>9. Tells(toHelper', "pause", helper.paused, worker.paused)
    <3>1. Tells(toHelper, "pause", helper.paused, worker.paused)
      BY <1>3, <1>5 DEF Sound, Open, Gates, Alive
    <3>2. \A n \in DOMAIN W!Replay : W!Replay[n].command # "pause"
      BY <2>4
    <3> QED BY <1>0, <2>1, <2>3, <3>1, <3>2, TellsJoined
  <2>10. Tells(toHelper', "source-busy", helper.busy, worker.source)
    <3>1. W!Replay[1].command = "source-busy" /\ W!Replay[1].on = worker.source
      BY <2>3, <2>4
    <3>2. \A k \in DOMAIN W!Replay : k > 1 => W!Replay[k].command # "source-busy"
      BY <2>3, <2>4
    <3> QED BY <1>0, <2>1, <2>3, <3>1, <3>2, TellsJoined
  <2>11. Gates'
    BY <1>0, <2>1, <2>9, <2>10 DEF Gates, Alive, Workers
  <2> QED BY <2>6, <2>7, <2>8, <2>11 DEF Open
<1>6. CASE helper.pc # "running"
  <2>1. worker' = [worker EXCEPT !.recovering = FALSE, !.reader = "stopped"] /\ toHelper' = toHelper
    BY <1>6 DEF W!ReadReady
  <2>2. helper.pc = "dead"
    BY <1>0, <1>1, <1>3, <1>6 DEF Helpers
  <2>3. W!JobsSent' = W!JobsSent
    BY <1>0, <2>1, SentSame
  <2>4. Stages'
    BY <1>0, <1>1, <1>3, <2>1, <2>2 DEF Sound, Open, Stages, Alive, Workers
  <2>5. Unsent'
    BY <1>0, <1>1, <1>2, <2>1, <2>2, <2>3 DEF Unsent, Alive, Workers
  <2>6. W!HelperKnows' /\ Gates'
    BY <1>0, <2>2 DEF W!HelperKnows, Gates, Alive
  <2> QED BY <2>4, <2>5, <2>6 DEF Open
<1> QED BY <1>5, <1>6

\* What is answered was in no other place.
LEMMA OpenAnswers ==
  ASSUME Sound, W!ReadAnswer
  PROVE  Open'
<1>0. /\ worker \in Workers /\ helper \in Helpers /\ fromHelper \in Seq(FromMessages) /\ worker.reader = "reading"
      /\ fromHelper # <<>> /\ W!First.command = "answer" /\ fromHelper' = Tail(fromHelper)
      /\ pending' = pending \ {W!First.id} /\ UNCHANGED <<callers, toHelper, helper, budget>>
      /\ worker' = worker \/ worker' = [worker EXCEPT !.reader = "setting", !.id = W!First.id]
  BY SoundTypes DEF W!ReadAnswer
<1>1. /\ W!First = fromHelper[1] /\ W!First \in FromMessages /\ 1 \in DOMAIN fromHelper
      /\ \A n \in DOMAIN fromHelper' : n + 1 \in DOMAIN fromHelper /\ fromHelper'[n] = fromHelper[n + 1]
  BY <1>0, OneLess DEF W!First
<1>2. W!First.id \in W!Ids /\ W!First = W!Message("answer", W!First.id)
  BY <1>0, <1>1 DEF FromMessages, W!Message
<1>3. worker.ready
  <2>1. W!First # W!Message("ready", 0)
    BY <1>0 DEF W!Message
  <2>2. fromHelper # <<W!Message("ready", 0)>>
    BY <1>1, <2>1
  <2> QED BY <1>0, <2>2, NotReady
<1>4. W!Ids' = W!Ids /\ W!JobsSent' = W!JobsSent /\ W!CancelsSent' = W!CancelsSent
      /\ W!Answers = {id \in W!Ids : id \in W!Answers' \/ W!First = W!Message("answer", id)}
  BY <1>0, MessagesSame, SentSame, AnswersOneLess DEF Sound, W!First
<1>5. W!First.id \notin W!JobsSent \cup helper.jobs
  <2>1. W!First.id \in W!Answers
    BY <1>1, <1>2 DEF W!Answers
  <2> QED BY <1>2, <2>1 DEF Sound, Letters, Singly
<1>6. \A id \in W!Ids : W!First = W!Message("answer", id) => id = W!First.id
  BY DEF W!Message
<1>7. W!HelperKnows'
  <2>1. W!Answers \subseteq W!Answers' \cup {W!First.id}
    BY <1>4, <1>6
  <2> QED BY <1>0, <1>4, <1>5, <2>1 DEF Sound, Open, W!HelperKnows, Workers
<1>8. Gates'
  BY <1>0 DEF Sound, Open, Gates, Alive, Workers
<1>9. Stages'
  BY <1>0, <1>3 DEF Sound, Open, Stages, Alive, Workers
<1>10. Unsent'
  <2>1. \A n \in DOMAIN fromHelper' : fromHelper'[n].command = "answer"
    BY <1>1, <1>3 DEF Sound, Open, Unsent
  <2> QED BY <1>0, <1>3, <2>1 DEF Unsent, Workers
<1> QED BY <1>7, <1>8, <1>9, <1>10 DEF Open

\* An answer is set, or the supervisor is lost; the helper is found to be gone.
LEMMA OpenSets ==
  ASSUME Sound, W!SetResult \/ W!ReadFails
  PROVE  Open'
<1>0. worker \in Workers /\ helper \in Helpers /\ budget'.asks = budget.asks
  BY SoundTypes, SpendKeepsAsks DEF W!SetResult, W!ReadFails
<1>1. Apart /\ UNCHANGED <<pending, callers, toHelper, fromHelper, helper>>
  BY <1>0 DEF W!SetResult, W!ReadFails, Apart
<1>2. \/ worker.reader = "setting" /\ (worker' = [worker EXCEPT !.reader = "reading"]
           \/ worker' = [worker EXCEPT !.reader = "lost"])
      \/ worker.reader = "reading" /\ fromHelper = <<>> /\ helper.pc \in {"dead", "booting"}
           /\ worker' = [worker EXCEPT !.reader = "stopped"]
  BY DEF W!SetResult, W!ReadFails, W!Reader
<1>3. worker'.ready = worker.ready /\ worker'.recovering = worker.recovering /\ worker'.connected = worker.connected
      /\ worker'.paused = worker.paused /\ worker'.source = worker.source /\ worker'.failure = worker.failure
  BY <1>0, <1>2 DEF Workers
<1>4. W!HelperKnows' /\ Gates'
  BY <1>1, <1>3, ApartKeeps
<1>5. Stages'
  <2>1. worker.reader \in {"setting", "reading"} /\ worker'.reader \in {"reading", "lost", "stopped"}
        /\ (worker'.reader = "stopped" => fromHelper = <<>> /\ helper.pc \in {"dead", "booting"})
    BY <1>0, <1>2 DEF Workers
  <2> QED BY <1>1, <1>3, <2>1 DEF Sound, Open, Stages, Alive
<1>6. W!Ids' = W!Ids /\ W!JobsSent' = W!JobsSent
  BY <1>0, <1>1, MessagesSame, SentSame
<1>7. Unsent'
  BY <1>1, <1>2, <1>3, <1>6 DEF Sound, Open, Unsent, Alive
<1> QED BY <1>4, <1>5, <1>7 DEF Open

\* A helper that stopped when it was ready has nothing left, ...
LEMMA OpenStops ==
  ASSUME Sound, W!Stopped
  PROVE  Open'
<1>0. worker \in Workers /\ helper \in Helpers /\ worker.reader = "stopped"
      /\ UNCHANGED <<pending, callers, toHelper, fromHelper, helper, budget>>
      /\ worker' = [worker EXCEPT !.reader = "disposed", !.ready = FALSE, !.recovering = TRUE,
                                  !.connected = FALSE]
  BY SoundTypes DEF W!Stopped
<1>1. /\ worker'.reader = "disposed" /\ ~worker'.ready /\ worker'.recovering /\ ~worker'.connected
      /\ worker'.failure = worker.failure
  BY <1>0 DEF Workers
<1>2. ~worker.failure
  BY <1>0 DEF Sound, Open, Stages
<1>3. Stages'
  BY <1>0, <1>1, <1>2 DEF Sound, Open, Stages, Alive
<1>4. W!Ids' = W!Ids /\ W!JobsSent' = W!JobsSent
  BY <1>0, MessagesSame, SentSame
<1>5. /\ W!JobsSent = {} /\ helper.jobs = {} /\ helper.running = {}
      /\ fromHelper = <<>> \/ (fromHelper = <<W!Message("ready", 0)>> /\ helper.pc # "booting")
  <2>1. CASE ~worker.ready
    BY <2>1, NotReady
  <2>2. CASE worker.ready
    <3>1. fromHelper = <<>> /\ toHelper = <<>> /\ helper.pc \in {"off", "dead"}
      BY <1>0, <2>2 DEF Sound, Open, Stages, Alive, Helpers
    <3> QED BY <3>1 DEF Sound, Open, Stages, W!JobsSent
  <2> QED BY <2>1, <2>2
<1>6. Unsent'
  BY <1>0, <1>1, <1>4, <1>5 DEF Unsent
<1>7. W!HelperKnows' /\ Gates'
  BY <1>1 DEF W!HelperKnows, Gates
<1> QED BY <1>3, <1>6, <1>7 DEF Open

\* ... and what is left of any is thrown away.
LEMMA OpenDisposes ==
  ASSUME Sound, W!Disposed
  PROVE  Open'
<1>0. worker \in Workers /\ worker.reader = "disposed" /\ helper' = W!NoHelper /\ toHelper' = <<>>
      /\ fromHelper' = <<>> /\ UNCHANGED <<callers, budget>>
  BY SoundTypes DEF W!Disposed
<1>1. ~worker.ready /\ ~worker.connected /\ ~worker.failure
  BY <1>0 DEF Sound, Open, Stages
<1>2. W!Ids' = W!Ids /\ W!JobsSent' = {}
  BY <1>0, MessagesSame, SentSame
<1>3. /\ ~worker'.ready /\ ~worker'.connected
      /\ \/ worker'.reader = "failing" /\ worker'.failure /\ ~worker'.recovering
         \/ worker'.reader = "delayed" /\ ~worker'.failure /\ worker'.recovering = worker.recovering
  BY <1>0, <1>1 DEF W!Disposed, Workers
<1>4. helper'.pc = "off" /\ helper'.jobs = {} /\ helper'.running = {}
  BY <1>0 DEF W!NoHelper
<1>5. Stages'
  BY <1>0, <1>3, <1>4 DEF Stages, Alive
<1>6. Unsent'
  BY <1>0, <1>1, <1>2, <1>3, <1>4 DEF Sound, Open, Unsent, Alive
<1>7. W!HelperKnows' /\ Gates'
  BY <1>4 DEF W!HelperKnows, Gates, Alive
<1> QED BY <1>5, <1>6, <1>7 DEF Open

\* After the last restart there is no helper to agree with.
LEMMA OpenFails ==
  ASSUME Sound, W!FailLooks \/ W!FailSets
  PROVE  Open'
<1>0. worker \in Workers /\ UNCHANGED <<pending, callers, toHelper, fromHelper, helper, budget>>
      /\ worker.reader \in {"failing", "refusing"}
  BY SoundTypes DEF W!FailLooks, W!FailSets
<1>1. /\ helper.pc = "off" /\ fromHelper = <<>> /\ ~worker.ready /\ ~worker.connected
      /\ worker.failure /\ ~worker.recovering
  BY <1>0 DEF Sound, Open, Stages
<1>2. /\ worker'.failure /\ ~worker'.connected /\ ~worker'.recovering
      /\ \/ worker'.reader = "gone" /\ worker'.ready
         \/ worker'.reader \in {"failing", "refusing", "lost"} /\ ~worker'.ready
  <2>1. CASE W!FailSets
    BY <1>0, <1>1, <2>1 DEF W!FailSets, W!Reader, Workers
  <2>2. CASE W!FailLooks /\ worker.doomed = {}
    BY <1>0, <1>1, <2>2 DEF W!FailLooks, Workers
  <2>3. CASE W!FailLooks /\ worker.doomed # {}
    <3>1. PICK id \in worker.doomed :
              worker' = [worker EXCEPT !.doomed = @ \ {id}, !.id = id,
                           !.reader = IF futures[id] = "waiting" THEN "refusing" ELSE "failing"]
      BY <2>3 DEF W!FailLooks
    <3> QED BY <1>0, <1>1, <3>1 DEF Workers
  <2> QED BY <2>1, <2>2, <2>3
<1>3. W!Ids' = W!Ids /\ W!JobsSent' = W!JobsSent
  BY <1>0, MessagesSame, SentSame
<1>4. Stages'
  BY <1>0, <1>1, <1>2 DEF Sound, Open, Stages, Alive
<1>5. Unsent'
  BY <1>0, <1>1, <1>2, <1>3, NotReady DEF Unsent
<1>6. W!HelperKnows' /\ Gates'
  BY <1>0, <1>1 DEF W!HelperKnows, Gates, Alive
<1> QED BY <1>4, <1>5, <1>6 DEF Open

-----------------------------------------------------------------------------
(* The invariant.                                                             *)

HelperInv == Typed /\ Letters /\ (~worker.closed => Open)

\* While the app is open the invariant says all of it.
LEMMA InvSound == HelperInv /\ ~worker.closed <=> Sound
BY DEF HelperInv, Sound

\* It holds at the start ...
LEMMA InvInit ==
  ASSUME W!WorkerAssumption, W!Init
  PROVE  HelperInv
<1>1. Typed
  BY TypedInit
<1>2. /\ toHelper = <<>> /\ fromHelper = <<>> /\ pending = {} /\ helper.pc = "off" /\ helper.jobs = {}
      /\ helper.queue = {} /\ helper.running = {} /\ \A id \in W!Ids : callers[id] = "new"
      /\ worker.reader = "none" /\ ~worker.connected /\ ~worker.ready /\ ~worker.recovering /\ ~worker.failure
  BY DEF W!Init, W!NoHelper
<1>3. W!JobsSent = {} /\ W!CancelsSent = {} /\ W!Answers = {}
  BY <1>2 DEF W!JobsSent, W!CancelsSent, W!Answers
<1>4. Letters
  BY <1>2, <1>3 DEF Letters, Singly, Unknown, Withdrawn
<1>5. Open
  BY <1>2, <1>3 DEF Open, Stages, Unsent, W!HelperKnows, Gates, Alive
<1> QED BY <1>1, <1>4, <1>5 DEF HelperInv

\* Where the requests are after each action.
LEMMA LettersAsks ==
  ASSUME Typed, Letters, NEW id \in W!Ids, W!Asking(id) \/ W!WaiterLeaves(id)
  PROVE  Letters'
<1>0. callers \in Callers /\ helper \in Helpers /\ budget'.asks = budget.asks
      /\ UNCHANGED <<fromHelper, helper>>
  BY TypedParts, SpendKeepsAsks DEF W!Asking, W!start, W!StartReturns, W!submit_library, W!WaiterLeaves
<1>1. Onwards
  BY <1>0 DEF W!Asking, W!start, W!StartReturns, W!submit_library, W!WaiterLeaves, W!Caller, Callers,
       Onwards, Unsubmitted
<1>2. CASE UNCHANGED <<pending, toHelper>>
  BY <1>0, <1>1, <1>2, LettersFewer DEF Fewer
<1>3. CASE W!submit_library(id) /\ pending' # pending
  <2>1. /\ Unsubmitted(id) /\ pending' = pending \cup {id} /\ UNCHANGED <<fromHelper, helper, budget>>
        /\ callers'[id] = "waiting" /\ (toHelper' = toHelper \/ toHelper' = Append(toHelper, W!Message("job", id)))
    BY <1>0, <1>3 DEF W!submit_library, Unsubmitted, W!Caller, Callers, W!Send
  <2> QED BY <1>1, <2>1, LettersSubmitted
<1>4. CASE W!submit_library(id) /\ pending' = pending /\ toHelper' # toHelper
  <2>1. id \in pending /\ Unsubmitted(id)
    BY <1>4 DEF W!submit_library, Unsubmitted
  <2> QED BY <2>1, PipesTyped
<1> QED BY <1>2, <1>3, <1>4 DEF W!Asking, W!start, W!StartReturns, W!WaiterLeaves

LEMMA LettersCancels ==
  ASSUME Typed, Letters, NEW id \in W!Ids, W!cancel(id) \/ W!WaiterCancels(id)
  PROVE  Letters'
<1>0. callers \in Callers /\ budget'.asks = budget.asks /\ ~Unsubmitted(id)
      /\ UNCHANGED <<fromHelper, helper>> /\ W!Caller(id, "gone") /\ W!Cancelled(id)
  BY TypedParts, SpendKeepsAsks DEF W!cancel, W!WaiterCancels, Unsubmitted
<1>1. Onwards
  BY <1>0 DEF W!Caller, Callers, Onwards, Unsubmitted
<1>2. pending' \subseteq pending /\ id \notin pending'
  BY <1>0 DEF W!Cancelled
<1>3. Fewer
  BY <1>0, <1>1, <1>2 DEF Fewer
<1>4. CASE toHelper' = toHelper
  BY <1>0, <1>3, <1>4, LettersFewer
<1>5. CASE toHelper' = Append(toHelper, W!Message("cancel", id))
  <2>1. W!Message("cancel", id) \in ToMessages /\ W!Message("cancel", id).command # "job"
        /\ \A other \in W!Ids : W!Message("cancel", id) = W!Message("cancel", other) => other = id
    BY MessageTypes DEF W!Message
  <2> QED BY <1>0, <1>2, <1>3, <1>5, <2>1, LettersSent
<1> QED BY <1>0, <1>4, <1>5 DEF W!Cancelled, W!Send

LEMMA LettersApp ==
  ASSUME Typed, Letters, W!pause \/ W!foreground_source \/ W!close \/ W!CloseEnds
           \/ \E id \in W!Ids : W!CloseCancels(id)
  PROVE  Letters'
<1>0. worker \in Workers /\ budget'.asks = budget.asks
  BY TypedParts, AppTyped
<1>1. CASE W!pause \/ W!foreground_source \/ W!close
  <2>1. Fewer /\ UNCHANGED fromHelper
    BY <1>0, <1>1 DEF W!pause, W!foreground_source, W!close, Fewer, Onwards, Unsubmitted
  <2>2. PICK m \in ToMessages : /\ m.command \notin {"job", "cancel"}
                                /\ toHelper' = W!Told(m)
    <3>1. /\ W!Message("stop", 0) \in ToMessages /\ W!Message("stop", 0).command = "stop"
          /\ W!Control("pause", ~worker.paused) \in ToMessages /\ W!Control("pause", ~worker.paused).command = "pause"
          /\ W!Control("source-busy", ~worker.source) \in ToMessages
          /\ W!Control("source-busy", ~worker.source).command = "source-busy"
      BY MessageTypes DEF W!Message, W!Control
    <3> QED BY <1>1, <3>1 DEF W!pause, W!foreground_source, W!close
  <2>3. \A id \in W!Ids : m # W!Message("cancel", id)
    BY <2>2 DEF W!Message
  <2>4. toHelper' = toHelper \/ toHelper' = Append(toHelper, m)
    BY <2>2 DEF W!Told, W!Send
  <2> QED BY <2>1, <2>2, <2>3, <2>4, LettersFewer, LettersSent
<1>2. CASE W!CloseEnds \/ \E id \in W!Ids : W!CloseCancels(id)
  <2>1. Fewer /\ fromHelper' = fromHelper /\ (toHelper' = toHelper \/ toHelper' = <<>>)
    BY <1>0, <1>2 DEF W!CloseEnds, W!CloseCancels, Fewer, Onwards, Unsubmitted, W!NoHelper
  <2> QED BY <2>1, LettersFewer
<1> QED BY <1>1, <1>2

LEMMA LettersSupervised ==
  ASSUME HelperInv, SupervisorStep \/ Faulting
  PROVE  Letters'
<1>0. /\ Typed /\ Letters /\ helper \in Helpers /\ budget'.asks = budget.asks
      /\ UNCHANGED callers
  <2>1. Typed /\ Letters
    BY DEF HelperInv
  <2>2. helper \in Helpers /\ budget \in W!Budget
    BY <2>1, TypedParts
  <2> QED BY <2>1, <2>2, SpendKeepsAsks DEF SupervisorStep, Faulting, W!_launch, W!ReadReady, W!ReadAnswer,
       W!SetResult,
       W!ReadEnds, W!Stopped, W!Disposed, W!Delayed, W!FailLooks, W!FailSets, W!LaunchFails, W!ReadFails, W!HelperDies
<1>1. CASE W!ReadReady
  <2>1. Sound
    BY <1>1, InvSound DEF W!ReadReady
  <2>2. ~worker.ready /\ fromHelper' = <<>> /\ UNCHANGED <<pending, callers, helper, budget>>
    BY <1>1, <2>1, ReadyHasNothing DEF W!ReadReady
  <2>3. W!JobsSent = {} /\ helper.jobs = {} /\ helper.running = {}
    BY <2>1, <2>2, NotReady
  <2>4. CASE toHelper' = toHelper \o W!Replay
    BY <1>0, <2>2, <2>3, <2>4, LettersReplayed
  <2>5. CASE toHelper' = toHelper
    <3>1. Fewer
      BY <1>0, <2>2 DEF Fewer, Onwards, Unsubmitted
    <3> QED BY <1>0, <2>2, <2>5, <3>1, LettersFewer
  <2> QED BY <1>1, <2>4, <2>5 DEF W!ReadReady
<1>2. CASE W!ReadAnswer
  <2>1. /\ UNCHANGED <<callers, toHelper, helper, budget>> /\ pending' \subseteq pending
        /\ fromHelper # <<>> /\ fromHelper' = Tail(fromHelper)
    BY <1>2 DEF W!ReadAnswer
  <2> QED BY <1>0, <2>1, LettersAnswer
<1>3. CASE ~W!ReadReady /\ ~W!ReadAnswer
  <2>1. pending' \subseteq pending /\ (fromHelper' = fromHelper \/ fromHelper' = <<>>)
        /\ (toHelper' = toHelper \/ toHelper' = <<>>)
        /\ (helper' = helper \/ helper' = W!NoHelper \/ helper' = W!Booting
             \/ helper' = [W!NoHelper EXCEPT !.pc = "dead"])
    <3>1. CASE W!_launch \/ W!Disposed
      BY <3>1 DEF W!_launch, W!Disposed
    <3>2. CASE Faulting
      BY <3>2 DEF Faulting, W!LaunchFails, W!ReadFails, W!HelperDies
    <3>3. CASE W!SetResult \/ W!ReadEnds \/ W!Stopped \/ W!Delayed \/ W!FailLooks \/ W!FailSets
      BY <3>3 DEF W!SetResult, W!ReadEnds, W!Stopped, W!Delayed, W!FailLooks, W!FailSets
    <3> QED BY <1>3, <3>1, <3>2, <3>3 DEF SupervisorStep
  <2>2. /\ helper'.jobs \subseteq helper.jobs /\ helper'.running \subseteq helper.running
        /\ helper'.queue \subseteq helper.queue
    <3>1. CASE helper' = helper
      BY <3>1
    <3>2. CASE helper' # helper
      <4>1. helper'.jobs = {} /\ helper'.running = {} /\ helper'.queue = {}
        <5>1. CASE helper' = W!NoHelper
          BY <5>1 DEF W!NoHelper
        <5>2. CASE helper' = W!Booting
          BY <5>2 DEF W!Booting, W!NoHelper
        <5>3. CASE helper' = [W!NoHelper EXCEPT !.pc = "dead"]
          BY <5>3 DEF W!NoHelper
        <5> QED BY <2>1, <3>2, <5>1, <5>2, <5>3
      <4> QED BY <4>1
    <3> QED BY <3>1, <3>2
  <2>3. Fewer
    BY <1>0, <2>1, <2>2 DEF Fewer, Onwards, Unsubmitted
  <2> QED BY <1>0, <2>1, <2>3, LettersFewer
<1> QED BY <1>1, <1>2, <1>3

LEMMA LettersHelper ==
  ASSUME Typed, Letters, W!HelperBoots \/ W!Receive \/ \E id \in W!Ids : W!Working(id)
  PROVE  Letters'
<1>1. CASE W!HelperBoots
  <2>1. helper \in Helpers
    BY TypedParts
  <2>2. W!Ids' = W!Ids /\ W!JobsSent' = W!JobsSent /\ W!CancelsSent' = W!CancelsSent /\ helper'.jobs = helper.jobs
        /\ helper'.running = helper.running /\ helper'.queue = helper.queue
             /\ UNCHANGED <<pending, callers, toHelper>>
    BY <1>1, <2>1, MessagesSame, SentSame DEF W!HelperBoots, Helpers
  <2>3. fromHelper' = Append(fromHelper, W!Message("ready", 0)) /\ budget' = budget
    BY <1>1 DEF W!HelperBoots
  <2> QED BY <2>2, <2>3, LettersAnswer
<1> QED BY <1>1, LettersReceive, LettersWorking

\* A closed app stays closed, and an open one is kept sound.
LEMMA ClosedStays ==
  ASSUME Typed, worker.closed, W!Next
  PROVE  worker'.closed
<1>1. worker \in Workers
  BY TypedParts
<1>2. CASE W!FailLooks /\ worker.doomed # {}
  <2>1. PICK id \in worker.doomed :
            worker' = [worker EXCEPT !.doomed = @ \ {id}, !.id = id,
                         !.reader = IF futures[id] = "waiting" THEN "refusing" ELSE "failing"]
    BY <1>2 DEF W!FailLooks
  <2> QED BY <1>1, <2>1 DEF Workers
<1>3. CASE W!FailLooks /\ worker.doomed = {}
  BY <1>1, <1>3 DEF W!FailLooks, Workers
<1>4. CASE W!Supervisor /\ ~W!FailLooks
  BY <1>1, <1>4 DEF W!Supervisor, W!_launch, W!ReadReady, W!ReadAnswer, W!SetResult, W!ReadFails, W!ReadEnds,
       W!Stopped, W!Disposed,
     W!Delayed, W!FailSets, W!Reader, Workers
<1>5. CASE W!Fault \/ W!HelperBoots \/ W!Receive
  BY <1>1, <1>5 DEF W!Fault, W!LaunchFails, W!ReadFails, W!HelperDies, W!HelperBoots, W!Receive, W!Reader, Workers
<1>6. CASE W!pause \/ W!foreground_source \/ W!close \/ W!CloseEnds
  BY <1>1, <1>6 DEF W!pause, W!foreground_source, W!close, W!CloseEnds, Workers
<1>7. CASE \E id \in W!Ids : W!Asking(id) \/ W!cancel(id) \/ W!WaiterLeaves(id) \/ W!WaiterCancels(id)
                           \/ W!CloseCancels(id) \/ W!Working(id)
  <2>1. PICK id \in W!Ids : W!Asking(id) \/ W!cancel(id) \/ W!WaiterLeaves(id) \/ W!WaiterCancels(id)
                           \/ W!CloseCancels(id) \/ W!Working(id)
    BY <1>7
  <2>2. \/ worker' = worker \/ worker' = [worker EXCEPT !.reader = "launching"]
        \/ worker' = [worker EXCEPT !.ending = @ \ {id}]
    BY <2>1 DEF W!Asking, W!start, W!StartReturns, W!submit_library, W!cancel, W!WaiterLeaves, W!WaiterCancels,
       W!CloseCancels, W!Working, W!Take, W!Finish
  <2> QED BY <1>1, <2>2 DEF Workers
<1> QED BY <1>2, <1>3, <1>4, <1>5, <1>6, <1>7 DEF W!Next

\* Every step of an open app keeps backend and helper in agreement.
LEMMA OpenStep ==
  ASSUME Sound, W!Next, ~worker'.closed
  PROVE  Open'
<1>1. CASE W!Supervisor \/ W!Fault
  <2>1. ~W!ReadEnds
    BY SoundTypes DEF W!ReadEnds
  <2> QED BY <1>1, <2>1, OpenLaunches, OpenReady, OpenAnswers, OpenSets, OpenStops, OpenDisposes, OpenFails, OpenDies
      DEF W!Supervisor, W!Fault
<1>2. CASE W!HelperBoots \/ W!Receive
  BY <1>2, OpenBoots, OpenReceives
<1>3. CASE W!pause \/ W!foreground_source \/ W!close \/ W!CloseEnds
  <2>1. ~W!close /\ ~W!CloseEnds
    BY SoundTypes DEF W!close, W!CloseEnds, Workers
  <2> QED BY <1>3, <2>1, OpenControls
<1>4. ASSUME NEW id \in W!Ids, W!Asking(id) \/ W!cancel(id) \/ W!WaiterLeaves(id) \/ W!WaiterCancels(id)
                           \/ W!CloseCancels(id) \/ W!Working(id)
      PROVE  Open'
  <2>1. ~W!CloseCancels(id)
    BY SoundTypes DEF W!CloseCancels
  <2> QED BY <1>4, <2>1, OpenAsks, OpenSubmits, OpenCancels, OpenWorks DEF W!Asking
<1> QED BY <1>1, <1>2, <1>3, <1>4 DEF W!Next

\* ... and after every step.
LEMMA InvStep ==
  ASSUME W!WorkerAssumption, HelperInv, [W!Next]_W!vars
  PROVE  HelperInv'
<1>1. CASE UNCHANGED W!vars
  <2>1. W!Ids' = W!Ids /\ ToMessages' = ToMessages /\ FromMessages' = FromMessages
    BY <1>1, MessagesSame DEF W!vars
  <2>2. W!JobsSent' = W!JobsSent /\ W!CancelsSent' = W!CancelsSent /\ W!Answers' = W!Answers
    BY <1>1, SentSame DEF W!vars
  <2>3. Typed'
    BY <1>1, <2>1 DEF W!vars, HelperInv, Typed, W!TypeOK, Pipes
  <2>4. Letters'
    BY <1>1, <2>1, <2>2 DEF W!vars, HelperInv, Letters, Singly, Unknown, Unsubmitted, Withdrawn
  <2>5. Stages' = Stages /\ Gates' = Gates
    BY <1>1 DEF W!vars, Stages, Gates, Alive
  <2>6. Unsent' = Unsent /\ W!HelperKnows' = W!HelperKnows
    BY <1>1, <2>1, <2>2 DEF W!vars, Unsent, W!HelperKnows, Alive
  <2> QED BY <1>1, <2>3, <2>4, <2>5, <2>6 DEF HelperInv, Open, W!vars
<1>2. CASE W!Next
  <2>1. Typed /\ Letters
    BY DEF HelperInv
  <2>2. ~worker'.closed => Open'
    BY <1>2, <2>1, ClosedStays, OpenStep, InvSound
  <2>3. CASE W!Supervisor \/ W!Fault
    <3>1. SupervisorStep \/ Faulting
      BY <2>3 DEF W!Supervisor, W!Fault, SupervisorStep, Faulting
    <3>2. Typed' /\ Letters'
      BY <2>1, <3>1, SupervisorTyped, FaultTyped, LettersSupervised
    <3> QED BY <2>2, <3>2 DEF HelperInv
  <2>4. CASE W!HelperBoots \/ W!Receive \/ \E id \in W!Ids : W!Working(id)
    <3>1. Typed' /\ Letters'
      BY <2>1, <2>4, HelperTyped, LettersHelper DEF Letters
    <3> QED BY <2>2, <3>1 DEF HelperInv
  <2>5. CASE W!pause \/ W!foreground_source \/ W!close \/ W!CloseEnds \/ \E id \in W!Ids : W!CloseCancels(id)
    <3>1. Typed' /\ Letters'
      BY <2>1, <2>5, AppTyped, LettersApp
    <3> QED BY <2>2, <3>1 DEF HelperInv
  <2>6. ASSUME NEW id \in W!Ids, W!Asking(id) \/ W!cancel(id) \/ W!WaiterLeaves(id) \/ W!WaiterCancels(id)
        PROVE  HelperInv'
    <3>1. Typed'
      BY <2>1, <2>6, AskTyped, LeaveTyped
    <3>2. Letters'
      BY <2>1, <2>6, LettersAsks, LettersCancels
    <3> QED BY <2>2, <3>1, <3>2 DEF HelperInv
  <2> QED BY <1>2, <2>3, <2>4, <2>5, <2>6 DEF W!Next
<1> QED BY <1>1, <1>2

-----------------------------------------------------------------------------
(* What follows from it.                                                      *)

\* A set whose members are all the same has at most one.
LEMMA AtMostOne ==
  ASSUME NEW S, \A n, m \in S : n = m
  PROVE  Cardinality(S) = IF S = {} THEN 0 ELSE 1
<1>1. CASE S = {}
  BY <1>1, FS_EmptySet
<1>2. CASE S # {}
  <2>1. PICK n : n \in S
    BY <1>2
  <2>2. S = {n}
    BY <2>1
  <2>3. Cardinality({n}) = 1
    BY FS_Singleton
  <2> QED BY <1>2, <2>2, <2>3
<1> QED BY <1>1, <1>2

\* A request in one place, once, was sent once.
LEMMA OncePerHelper ==
  ASSUME Singly
  PROVE  W!SentOnce
<1>1. ASSUME NEW id \in W!Ids
      PROVE  Cardinality({n \in DOMAIN toHelper : toHelper[n] = W!Message("job", id)})
             + (IF id \in helper.jobs THEN 1 ELSE 0)
             + Cardinality({n \in DOMAIN fromHelper : fromHelper[n] = W!Message("answer", id)}) <= 1
  <2> DEFINE J == {n \in DOMAIN toHelper : toHelper[n] = W!Message("job", id)}
             A == {n \in DOMAIN fromHelper : fromHelper[n] = W!Message("answer", id)}
  <2>1. (\A n, m \in J : n = m) /\ (\A n, m \in A : n = m)
    BY DEF Singly
  <2>2. (J # {} <=> id \in W!JobsSent) /\ (A # {} <=> id \in W!Answers)
    BY DEF W!JobsSent, W!Answers
  <2> HIDE DEF J, A
  <2>3. Cardinality(J) = (IF J = {} THEN 0 ELSE 1) /\ Cardinality(A) = (IF A = {} THEN 0 ELSE 1)
    BY <2>1, AtMostOne
  <2>4. (id \in W!JobsSent => id \notin helper.jobs) /\ (id \in W!Answers => id \notin W!JobsSent \cup helper.jobs)
    BY DEF Singly
  <2>5. Cardinality(J) + (IF id \in helper.jobs THEN 1 ELSE 0) + Cardinality(A) <= 1
    BY <2>2, <2>3, <2>4
  <2> QED BY <2>5 DEF J, A
<1> QED BY <1>1, SameCardinality DEF W!SentOnce

\* The last message about a gate says what it will be.
LEMMA GateTold ==
  ASSUME toHelper \in Seq(ToMessages), NEW command, NEW now, NEW v, Tells(toHelper, command, now, v)
  PROVE  W!Gate(command, now) = v
<1> DEFINE told == {n \in DOMAIN toHelper : toHelper[n].command = command}
           last == CHOOSE n \in told : \A k \in told : k <= n
<1>0. DOMAIN toHelper = 1..Len(toHelper) /\ Len(toHelper) \in Nat
  OBVIOUS
<1>1. CASE v = now /\ told = {}
  BY <1>1 DEF W!Gate
<1>2. CASE \E n \in told : toHelper[n].on = v /\ \A k \in DOMAIN toHelper : k > n => k \notin told
  <2>1. PICK n \in told : toHelper[n].on = v /\ \A k \in DOMAIN toHelper : k > n => k \notin told
    BY <1>2
  <2>2. told \subseteq Nat
    BY <1>0
  <2>3. \A k \in told : k <= n
    BY <2>1, <2>2
  <2>4. last \in told /\ \A k \in told : k <= last
    BY <2>3
  <2>5. last = n
    BY <2>2, <2>3, <2>4
  <2>6. W!Gate(command, now) = toHelper[last].on
    BY <2>1 DEF W!Gate
  <2> QED BY <2>1, <2>5, <2>6
<1> QED BY <1>1, <1>2 DEF Tells

\* The three parts of what the run checks.
LEMMA InvAgrees ==
  ASSUME HelperInv
  PROVE  W!HelperAgrees
<1>1. W!SentOnce
  BY OncePerHelper DEF HelperInv, Letters
<1>2. W!HelperKnows
  BY DEF HelperInv, Open, W!HelperKnows
<1>3. W!GatesReach
  <2>1. toHelper \in Seq(ToMessages)
    BY TypedParts DEF HelperInv
  <2> QED BY <2>1, GateTold DEF HelperInv, Open, Gates, W!GatesReach, Alive
<1> QED BY <1>1, <1>2, <1>3 DEF W!HelperAgrees

\* Where each request is, how far the supervisor is with its helper, and what
\* each has been told of the other: for any requests and any faults.
THEOREM HelperInvariant == ASSUME W!WorkerAssumption PROVE W!Spec => []HelperInv
<1>1. W!Init => HelperInv
  BY InvInit
<1>2. HelperInv /\ [W!Next]_W!vars => HelperInv'
  BY InvStep
<1> QED BY <1>1, <1>2, PTL DEF W!Spec

\* The module's type invariant.
THEOREM HelperTypeCorrect == ASSUME W!WorkerAssumption PROVE W!Spec => []W!TypeOK
<1>1. HelperInv => W!TypeOK
  BY DEF HelperInv, Typed
<1> QED BY <1>1, HelperInvariant, PTL

\* Backend and helper agree, through crashes and restarts, on what waits, on each
\* request once and on the pauses (_supervise, _read_results and
\* _worker_main_impl, library_worker.py), whatever the scenario and the limits.
THEOREM HelperAgreesHolds == ASSUME W!WorkerAssumption PROVE W!Spec => []W!HelperAgrees
BY InvAgrees, HelperInvariant, PTL
=============================================================================
