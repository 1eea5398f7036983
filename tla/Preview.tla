------------------------------ MODULE Preview ------------------------------
(***************************************************************************)
(* How the editor's page keeps the picture on the canvas up to date with   *)
(* the edits: the preview scheduler (one drag frame at a time, a settled   *)
(* pass after the input, a refinement after that), the render coordinator  *)
(* (one render of the lane on the GPU and one waiting, latest wins), the   *)
(* settle, refine, open and zoom functions that wait for their render and  *)
(* decide about a retry or a CPU picture, and the watchdog that wakes a    *)
(* preview nothing else would finish.                                      *)
(*                                                                         *)
(* One lane is modelled, the one the viewer shows, and edits of a mask's   *)
(* sliders, whose saves the settled pass waits for. A picture is the edit  *)
(* generation, photo and processing scale it was drawn for. Scopes, the    *)
(* inactive lane, pan and catch-up passes, geometry drafts and the pacing  *)
(* of frames are left out; a timer may fire at any moment once it is set.  *)
(* Callbacks of settled promises run before anything else does.            *)
(***************************************************************************)
EXTENDS Naturals, Sequences, FiniteSets

CONSTANTS
    Scenarios,  \* what a run may do (Bounds) on which setting (Settings)
    Slots,      \* functions that wait for a render at the same time
    MaxRearms   \* PREVIEW_WATCHDOG_MAX_REARMS (20 in the code)

\* Drags of a slider, their input events, photos opened, zoom steps, renders
\* refused for good, saves that fail or renders that throw, CPU pictures the
\* backend refuses.
Bounds == [gestures : Nat, edits : Nat, photos : Nat, zooms : Nat, refusals : Nat,
           failures : Nat, pictures : Nat]

\* Whole frames need the tiled renderer, which refuses drags; "Faster dragging"
\* is on; Denoise is on, so that a drag frame survives the next edit; the
\* canvas shows HDR.
Settings == [tiled : BOOLEAN, softer : BOOLEAN, snapshots : BOOLEAN, hdr : BOOLEAN]

ASSUME ScenariosAssumption ==
    /\ Scenarios \subseteq [left : Bounds, setting : Settings]
    /\ {Slots, MaxRearms} \subseteq Nat \ {0}

VARIABLES
    doc,          \* the edit generation, the photo, the required scale, zoomed
    pressed,      \* the pointer on the slider: "no", "held", "moved"
    saves,        \* edit commands: sent, answered, failed, of a photo left behind
    sched,        \* the preview scheduler
    lane,         \* the coordinator's render in flight and the one waiting
    answers,      \* settled promises whose awaiting function has not resumed
    runs,         \* the functions waiting for a save or a render
    canvas,       \* the picture the GPU drew last
    surface,      \* the element on screen: the GPU's "canvas" or the CPU's "image"
    accepted,     \* state.acceptedPresentation: the picture the page believes
    refusal,      \* state.lastGpuDraftRefusal, of any render
    unavailable,  \* state.previewUnavailableReason is set
    gpu,          \* state.gpuPreview.available
    timers,       \* the zoom's and the render retry's timers
    rearms,       \* state.previewWatchdogRearms
    left,         \* what the bounds leave
    setting       \* never changes
page == <<doc, pressed, saves>>
viewer == <<canvas, surface, accepted, unavailable>>
vars == <<page, sched, lane, answers, runs, viewer, refusal, gpu, timers, rearms, left, setting>>

NoTask == [image |-> 0, gen |-> 0]
Slot == 1..Slots
FrameOwner == 0            \* onFrame, which waits for its own drag frame
Idle == [kind |-> "none", pc |-> "idle", task |-> NoTask, photo |-> 0,
         scale |-> 0, gen |-> 0, on |-> 0]
Kind == {"none", "settle", "refine", "open", "zoom"}
Pc == {"idle", "sync", "wait", "coarse", "gpu", "drain", "again", "cpu", "keep",
       "stale", "join", "end"}

(***************************************************************************)
(* The picture.                                                            *)
(***************************************************************************)
\* A render at the required processing edge gives an exact picture; a softer
\* frame never has that edge.
AtScale(f) == f.scale = doc.scale /\ ~f.coarse
Same(f) == f.gen = doc.gen /\ AtScale(f)
\* viewerState: what the viewer reports. previewNeedsRefinement is ~Ready
\* without the unavailable reason.
Ready == accepted.exact /\ Same(accepted)
Shown(e) == [gen |-> e.gen, photo |-> e.photo, scale |-> e.scale,
             coarse |-> e.coarse # "no"]

\* What the user sees: an image is put on screen when it is accepted.
Visible == IF surface = "image" THEN accepted ELSE canvas
\* Mutant: the surface shown before stays on screen.
acceptPresentation_NotMounted(f, on) ==
    /\ surface' = surface
    /\ accepted' = [gen |-> f.gen, scale |-> f.scale, coarse |-> f.coarse,
                    exact |-> AtScale(f), photo |-> f.photo]
    /\ unavailable' = (unavailable /\ ~AtScale(f))
acceptPresentation(f, on) ==
    /\ surface' = on
    /\ accepted' = [gen |-> f.gen, scale |-> f.scale, coarse |-> f.coarse,
                    exact |-> AtScale(f), photo |-> f.photo]
    /\ unavailable' = (unavailable /\ ~AtScale(f))

(***************************************************************************)
(* The scheduler. A task is the number schedule gave it and the edit       *)
(* generation it was made for.                                             *)
(***************************************************************************)
requestFrame(s) == IF s.frame \in {"draft", "device"} THEN [s EXCEPT !.again = TRUE]
                   ELSE [s EXCEPT !.frame = "raf"]

\* Mutant: an edit schedules its frame and no settled pass.
schedule_NoSettle(s, gen) ==
    LET task == [image |-> s.image + 1, gen |-> gen]
    IN  requestFrame([s EXCEPT !.image = task.image, !.current = task, !.refine = NoTask])
schedule(s, gen) ==
    LET task == [image |-> s.image + 1, gen |-> gen]
    IN  requestFrame([s EXCEPT !.image = task.image, !.current = task,
                               !.settle = task, !.refine = NoTask])

cancel(s) == [s EXCEPT !.current = NoTask, !.image = @ + 1,
                !.frame = IF @ = "raf" THEN "none" ELSE @, !.again = FALSE,
                !.release = NoTask, !.settle = NoTask, !.refine = NoTask]
beginInteraction(s) == [s EXCEPT !.dragging = TRUE, !.release = NoTask,
                                 !.refine = NoTask]
endInteraction(s) ==
    IF s.current = NoTask THEN [s EXCEPT !.dragging = FALSE]
    ELSE [s EXCEPT !.dragging = FALSE, !.settle = s.current,
            !.release = IF s.frame # "none" \/ s.again THEN s.current ELSE @]

\* The finally block of requestFrame's callback.
FrameOver(s) ==
    LET free == [s EXCEPT !.frame = IF s.again /\ s.current # NoTask THEN "raf" ELSE "none",
                          !.again = FALSE]
        settles == free.release # NoTask /\ free.frame = "none"
    IN  [free EXCEPT
          !.release = IF settles THEN NoTask ELSE @,
          !.settle = IF settles /\ s.release = s.current /\ ~s.dragging
                     THEN s.release ELSE @]

(***************************************************************************)
(* The coordinator: lane[1] is in flight, lane[2] the latest waiting.      *)
(***************************************************************************)
TokenCurrent(e) ==
    /\ ~e.cancelled
    /\ e.photo = doc.photo
    /\ e.gen = doc.gen \/ (e.snap /\ e.gen < doc.gen)

\* renderGpuDraftInner's isCurrent, asked before the canvas is drawn to and
\* again before the picture is accepted.
IsCurrent(e) ==
    /\ TokenCurrent(e)
    /\ e.gen = doc.gen \/ (e.snap /\ sched.dragging)
    /\ e.coarse = "drag" => sched.dragging

\* A promise resumes the function that made the render, and a refinement that
\* waited for it.
Answer(owner, ok) ==
    {[owner |-> owner, ok |-> ok]} \cup
    {[owner |-> r, ok |-> ok] : r \in {x \in Slot : /\ runs[x].pc = "wait" /\ runs[x].on = owner
                                                    /\ ~\E a \in answers : a.owner = x}}
Entry(owner, scale, coarse, snap) ==
    [owner |-> owner, gen |-> doc.gen, photo |-> doc.photo, scale |-> scale,
     coarse |-> coarse, snap |-> snap, cancelled |-> FALSE, drawn |-> FALSE]

\* Foreground intent cancels the render in flight and takes the place of the
\* one that waits; its promise answers false.
Queued(q, e) == IF q = <<>> THEN <<e>> ELSE <<[q[1] EXCEPT !.cancelled = TRUE], e>>
submit(e, others) ==
    /\ lane' = Queued(lane, e)
    /\ answers' = others \cup (IF Len(lane) = 2 THEN Answer(lane[2].owner, FALSE) ELSE {})
    /\ refusal' = IF Len(lane) = 2 THEN "queued" ELSE refusal

\* runEntry after its render: the waiting render starts, unless it is stale.
runEntry(ok, why) ==
    LET stale == Len(lane) = 2 /\ ~TokenCurrent(lane[2])
    IN  /\ lane' = IF stale THEN <<>> ELSE Tail(lane)
        /\ answers' = answers \cup Answer(lane[1].owner, ok)
                      \cup (IF stale THEN Answer(lane[2].owner, FALSE) ELSE {})
        /\ refusal' = IF stale THEN "queued" ELSE why

\* transientGpuRefusal and supersededByScheduledWork read the last refusal of
\* any render.
transientGpuRefusal == refusal \in {"during", "queued"}
supersededByScheduledWork(task) ==
    refusal = "during" /\ task # NoTask /\ task.image # sched.image

Init ==
    /\ doc = [gen |-> 1, photo |-> 1, scale |-> 1, zoomed |-> FALSE]
    /\ pressed = "no" /\ saves = [sent |-> 0, done |-> 0, failed |-> {}, gone |-> 0]
    /\ sched = [current |-> NoTask, image |-> 0, dragging |-> FALSE, frame |-> "none",
                again |-> FALSE, release |-> NoTask, settle |-> NoTask, refine |-> NoTask]
    /\ lane = <<>> /\ answers = {} /\ runs = [r \in Slot |-> Idle]
    /\ canvas = [gen |-> 1, photo |-> 1, scale |-> 1, coarse |-> FALSE] /\ surface = "canvas"
    /\ accepted = [gen |-> 1, photo |-> 1, scale |-> 1, coarse |-> FALSE, exact |-> TRUE]
    /\ refusal = "none" /\ unavailable = FALSE /\ gpu = TRUE
    /\ timers = [zoom |-> FALSE, retry |-> 0] /\ rearms = 0
    /\ \E s \in Scenarios : left = s.left /\ setting = s.setting

\* Nothing else runs while a settled promise is about to resume a function.
Resumes(r) == \/ runs[r].pc = "end"
              \/ runs[r].pc \in {"sync", "drain"} /\ saves.done >= runs[r].on
Quiet == answers = {} /\ \A r \in Slot : ~Resumes(r)
Spend(what) == left[what] > 0 /\ left' = [left EXCEPT ![what] = @ - 1]
Free == {r \in Slot : runs[r] = Idle}
NextSlot == CHOOSE r \in Free : \A s \in Free : r <= s
Run(kind, pc, task, on) ==
    [kind |-> kind, pc |-> pc, task |-> task, photo |-> doc.photo, scale |-> doc.scale,
     gen |-> doc.gen, on |-> on]

(***************************************************************************)
(* The user.                                                               *)
(***************************************************************************)
Press ==
    /\ Quiet /\ pressed = "no" /\ Spend("gestures")
    /\ pressed' = "held" /\ sched' = beginInteraction(sched)
    /\ UNCHANGED <<doc, saves, lane, answers, runs, viewer, refusal, gpu, timers, rearms, setting>>

\* invalidatePreview and debouncePreview. The render in flight is cancelled,
\* unless it is the drag's snapshot.
noteEdit(q, gen) ==
    IF q = <<>> \/ (setting.snapshots /\ sched.dragging /\ q[1].snap) THEN q
    ELSE [q EXCEPT ![1].cancelled = TRUE]
Input ==
    /\ Quiet /\ pressed # "no" /\ Spend("edits")
    /\ pressed' = "moved" /\ rearms' = 0
    /\ doc' = [doc EXCEPT !.gen = @ + 1]
    /\ lane' = noteEdit(lane, doc.gen)
    /\ sched' = schedule(sched, doc.gen + 1)
    /\ UNCHANGED <<saves, answers, runs, viewer, refusal, gpu, timers, setting>>

\* pointerup, and the change event that queues the edit command.
Release ==
    /\ Quiet /\ pressed # "no"
    /\ pressed' = "no" /\ sched' = endInteraction(sched)
    /\ saves' = [saves EXCEPT !.sent = IF pressed = "moved" THEN @ + 1 ELSE @]
    /\ UNCHANGED <<doc, lane, answers, runs, viewer, refusal, gpu, timers, rearms, left, setting>>

\* The answer of an edit command; false when the photo was closed meanwhile.
\* The last one ends the interaction again, even when the pointer is on a
\* slider by then.
SaveAnswered ==
    /\ Quiet /\ saves.done < saves.sent
    /\ LET done == saves.done + 1
       IN  \E ok \in IF done <= saves.gone THEN {FALSE} ELSE BOOLEAN :
            /\ IF ok \/ done <= saves.gone THEN UNCHANGED left ELSE Spend("failures")
            /\ saves' = [saves EXCEPT !.done = done,
                                      !.failed = IF ok THEN @ ELSE @ \cup {done}]
            /\ sched' = IF ok /\ done = saves.sent THEN endInteraction(sched) ELSE sched
    /\ UNCHANGED <<doc, pressed, lane, answers, runs, viewer, refusal, gpu, timers, rearms, setting>>

(***************************************************************************)
(* The functions that wait. A step of one of them ends it, submits a       *)
(* render, or asks the backend for a CPU picture; others are the answers   *)
(* still to be delivered.                                                  *)
(***************************************************************************)
With(r, pc) == [runs EXCEPT ![r].pc = pc]
Over(r, others) ==
    /\ runs' = [x \in Slot |-> IF x = r \/ (runs[x].pc = "join" /\ runs[x].on = r)
                               THEN [runs[x] EXCEPT !.pc = "end"] ELSE runs[x]]
    /\ answers' = others /\ UNCHANGED <<lane, refusal>>
Render(r, pc, others) ==
    /\ runs' = With(r, pc)
    /\ submit(Entry(r, doc.scale, "no", FALSE), others)

\* renderPreviewForLane: the same picture is asked for once; another one
\* aborts the request before it.
Cpu(r, scale, others) ==
    LET mine == [runs[r] EXCEPT !.gen = doc.gen, !.photo = doc.photo, !.scale = scale,
                                !.on = IF gpu THEN 0 ELSE 1]
        Asked(x) == /\ runs[x].pc \in {"cpu", "keep"} /\ runs[x].gen = mine.gen
                    /\ runs[x].photo = mine.photo /\ runs[x].scale = scale
        Aborted(x) == [x EXCEPT !.pc = CASE x.pc = "cpu" -> "end" [] x.pc = "keep" -> "stale"
                                        [] OTHER -> x.pc]
    IN  /\ runs' = IF \E x \in Slot : Asked(x)
                   THEN [runs EXCEPT ![r] = [mine EXCEPT !.pc = "join",
                                              !.on = CHOOSE x \in Slot : Asked(x)]]
                   ELSE [x \in Slot |-> IF x = r THEN [mine EXCEPT !.pc = "cpu"]
                                        ELSE Aborted(runs[x])]
        /\ answers' = others /\ UNCHANGED <<lane, refusal>>

\* settlePreview, once the edit commands it found are answered.
settlePreview(r) ==
    LET run == runs[r]
    IN  /\ answers = {} /\ run.kind = "settle" /\ run.pc = "sync" /\ Resumes(r)
        /\ IF \/ run.on \in saves.failed
              \/ run.task # NoTask /\ run.task.gen # doc.gen
              \/ Ready
           THEN Over(r, {})
           ELSE IF gpu THEN Render(r, "gpu", {}) ELSE Cpu(r, doc.scale, {})
        /\ UNCHANGED <<page, sched, viewer, gpu, timers, rearms, left, setting>>

\* The refused settled render: once more when it was only overtaken and is
\* still wanted; else a CPU picture, unless something newer is coming.
Fallback(r, others) ==
    IF supersededByScheduledWork(runs[r].task) \/ transientGpuRefusal
    THEN Over(r, others) ELSE Cpu(r, doc.scale, others)
SettleRefused(r, others) ==
    IF runs[r].pc = "gpu" /\ transientGpuRefusal
       /\ ~supersededByScheduledWork(runs[r].task)
    THEN /\ runs' = [runs EXCEPT ![r].pc = "drain", ![r].on = saves.sent]
         /\ answers' = others /\ UNCHANGED <<lane, refusal>>
    ELSE Fallback(r, others)
SettleRetries(r) ==
    LET task == runs[r].task
        wanted == task = NoTask \/ (sched.current.image = task.image /\ task.gen = doc.gen)
    IN  /\ answers = {} /\ runs[r].pc = "drain" /\ Resumes(r)
        /\ IF wanted /\ runs[r].on \notin saves.failed
           THEN Render(r, "again", {}) ELSE Fallback(r, {})
        /\ UNCHANGED <<page, sched, viewer, gpu, timers, rearms, left, setting>>

\* refinePreview lets the render in flight finish, and does nothing when that
\* one made the picture exact.
refinePreview(r, ok, others) ==
    LET run == runs[r]
        Go == IF gpu THEN Render(r, "gpu", others)
              ELSE IF transientGpuRefusal THEN Over(r, others) ELSE Cpu(r, doc.scale, others)
        Refused == IF ok \/ Ready \/ run.scale # doc.scale \/ transientGpuRefusal
                   THEN Over(r, others) ELSE Cpu(r, doc.scale, others)
    IN  IF run.pc = "gpu" THEN Refused
        ELSE IF Ready \/ run.task.gen # doc.gen THEN Over(r, others)
        ELSE IF run.pc = "sync" /\ lane # <<>>
        THEN /\ runs' = [runs EXCEPT ![r].pc = "wait", ![r].on = lane[Len(lane)].owner]
             /\ answers' = others /\ UNCHANGED <<lane, refusal>>
        ELSE Go
RefineBegins(r) ==
    /\ answers = {} /\ runs[r].kind = "refine" /\ runs[r].pc = "sync"
    /\ refinePreview(r, FALSE, {})
    /\ UNCHANGED <<page, sched, viewer, gpu, timers, rearms, left, setting>>

\* activateDesktopSession after its first render: a CPU picture of placeholder
\* size when the GPU refused, which no scale asks for.
activateDesktopSession(r, ok, others) ==
    CASE runs[r].photo # doc.photo -> Over(r, others)
      [] ok -> Over(r, others)
      [] transientGpuRefusal /\ runs[r].pc = "gpu" -> Render(r, "again", others)
      [] transientGpuRefusal /\ runs[r].pc = "again" -> Over(r, others)
      [] OTHER -> Cpu(r, 0, others)

\* scheduleZoomRefinement after its coarse render, whatever became of it.
scheduleZoomRefinement(r, others) ==
    IF \/ runs[r].pc = "gpu"
       \/ runs[r].photo # doc.photo \/ runs[r].scale # doc.scale
       \/ AtScale(accepted) /\ accepted.exact
    THEN Over(r, others) ELSE Render(r, "gpu", others)

(***************************************************************************)
(* The CPU picture.                                                        *)
(***************************************************************************)
\* requestIsCurrent; a newer request of another picture has aborted this one
\* or made it "stale".
\* Mutant: an answer is looked at for its photo only, not for its edit.
RequestCurrent_SamePhoto(run) == run.photo = doc.photo
RequestCurrent(run) == run.gen = doc.gen /\ run.photo = doc.photo
CpuPicture(run) == [gen |-> run.gen, photo |-> run.photo, scale |-> run.scale, coarse |-> FALSE]
ShowCpuPicture(run) == acceptPresentation(CpuPicture(run), "image") /\ UNCHANGED canvas
\* The backend's answer. The raw picture of a browser without GPU does not
\* ask whether a refusal is of a current request.
CpuAnswered(r) ==
    LET run == runs[r]
        raw == run.on = 1
    IN  /\ Quiet /\ run.pc = "cpu"
        /\ \/ /\ Spend("pictures") /\ Over(r, {})
              /\ unavailable' = (unavailable \/ raw \/ RequestCurrent(run))
              /\ UNCHANGED <<canvas, surface, accepted>>
           \/ /\ ~RequestCurrent(run) /\ Over(r, {}) /\ UNCHANGED <<viewer, left>>
           \/ /\ RequestCurrent(run) /\ gpu /\ ~raw
              /\ Render(r, "keep", {}) /\ UNCHANGED <<viewer, left>>
           \/ /\ RequestCurrent(run) /\ ~(gpu /\ ~raw)
              /\ ShowCpuPicture(run) /\ Over(r, {}) /\ UNCHANGED left
        /\ UNCHANGED <<page, sched, gpu, timers, rearms, setting>>

\* With the picture in hand the GPU is asked once more; only an HDR canvas it
\* drew is kept in place of the CPU's.
KeepGpuSurface(r, ok, others) ==
    /\ Over(r, others)
    /\ IF runs[r].pc = "stale" \/ ~RequestCurrent(runs[r]) \/ (ok /\ setting.hdr)
       THEN UNCHANGED viewer ELSE ShowCpuPicture(runs[r])

\* A promise the coordinator settled resumes its function. onFrame waits for
\* the device before the next drag frame may start.
Resume ==
    /\ \E a \in answers :
        LET r == a.owner
            others == answers \ {a}
        IN  IF r = FrameOwner
            THEN /\ sched' = IF a.ok THEN [sched EXCEPT !.frame = "device"] ELSE FrameOver(sched)
                 /\ answers' = others /\ UNCHANGED <<runs, lane, refusal, viewer>>
            ELSE /\ UNCHANGED sched
                 /\ IF runs[r].pc \in {"keep", "stale"} THEN KeepGpuSurface(r, a.ok, others)
                    ELSE /\ UNCHANGED viewer
                         /\ CASE runs[r].kind = "settle" ->
                                  IF a.ok THEN Over(r, others) ELSE SettleRefused(r, others)
                              [] runs[r].kind = "refine" -> refinePreview(r, a.ok, others)
                              [] runs[r].kind = "open" -> activateDesktopSession(r, a.ok, others)
                              [] OTHER -> scheduleZoomRefinement(r, others)
    /\ UNCHANGED <<page, gpu, timers, rearms, left, setting>>

\* The end of a function: a settle arms the refinement while its task is
\* current, an opened photo is scheduled, if the picture is still not exact.
End(r) ==
    /\ answers = {} /\ runs[r].pc = "end"
    /\ runs' = [runs EXCEPT ![r] = Idle]
    /\ LET run == runs[r]
           again == run.kind = "open" /\ run.photo = doc.photo /\ ~Ready
       IN  /\ sched' = IF again THEN schedule(sched, doc.gen)
                       ELSE IF /\ run.kind = "settle" /\ run.task # NoTask
                               /\ sched.current = run.task /\ ~Ready
                            THEN [sched EXCEPT !.refine = run.task] ELSE sched
           /\ rearms' = IF again THEN 0 ELSE rearms
    /\ UNCHANGED <<page, lane, answers, viewer, refusal, gpu, timers, left, setting>>

(***************************************************************************)
(* Drag frames and timers.                                                 *)
(***************************************************************************)
\* The animation frame: onFrame refuses a whole tiled frame itself, stands
\* down for a render in flight when nothing is dragged, and else submits.
guaranteedTiled == setting.tiled /\ gpu /\ AtScale(accepted)
FrameStart ==
    /\ Quiet /\ sched.frame = "raf"
    /\ IF sched.current = NoTask
       THEN sched' = [sched EXCEPT !.frame = "none"] /\ UNCHANGED <<lane, answers, refusal>>
       ELSE \E coarse \in IF sched.dragging /\ setting.softer
                          THEN (IF guaranteedTiled THEN {TRUE} ELSE BOOLEAN) ELSE {FALSE} :
            CASE guaranteedTiled /\ ~coarse /\ ~doc.zoomed ->
                    /\ refusal' = "hard" /\ sched' = FrameOver(sched)
                    /\ UNCHANGED <<lane, answers>>
              [] ~(guaranteedTiled /\ ~coarse /\ ~doc.zoomed) /\ ~sched.dragging /\ lane # <<>> ->
                    sched' = FrameOver(sched) /\ UNCHANGED <<lane, answers, refusal>>
              [] OTHER ->
                    /\ sched' = [sched EXCEPT !.frame = "draft"]
                    /\ LET snap == setting.snapshots /\ sched.dragging
                                   /\ ~(guaranteedTiled /\ coarse)
                       IN  submit(Entry(FrameOwner, doc.scale, IF coarse THEN "drag" ELSE "no",
                                        snap), {})
    /\ UNCHANGED <<page, runs, viewer, gpu, timers, rearms, left, setting>>

\* waitForSubmittedWork returns.
DeviceDone ==
    /\ Quiet /\ sched.frame = "device" /\ sched' = FrameOver(sched)
    /\ UNCHANGED <<page, lane, answers, runs, viewer, refusal, gpu, timers, rearms, left, setting>>

\* The settle timer (110 ms) fires after the animation frame that is due.
SettleFires ==
    /\ Quiet /\ sched.settle # NoTask /\ sched.frame # "raf" /\ Free # {}
    /\ sched' = [sched EXCEPT !.settle = NoTask]
    /\ runs' = IF sched.current = sched.settle
               THEN [runs EXCEPT ![NextSlot] = Run("settle", "sync", sched.settle, saves.sent)]
               ELSE runs
    /\ UNCHANGED <<page, lane, answers, viewer, refusal, gpu, timers, rearms, left, setting>>
RefineFires ==
    /\ Quiet /\ sched.refine # NoTask /\ sched.frame # "raf" /\ Free # {}
    /\ sched' = [sched EXCEPT !.refine = NoTask]
    /\ runs' = IF sched.current = sched.refine /\ ~sched.dragging
               THEN [runs EXCEPT ![NextSlot] = Run("refine", "sync", sched.refine, 0)]
               ELSE runs
    /\ UNCHANGED <<page, lane, answers, viewer, refusal, gpu, timers, rearms, left, setting>>

\* The render that failed is settled again after 250 ms, for no task.
RetryFires ==
    /\ Quiet /\ timers.retry > 0 /\ Free # {}
    /\ timers' = [timers EXCEPT !.retry = @ - 1]
    /\ runs' = [runs EXCEPT ![NextSlot] = Run("settle", "sync", NoTask, saves.sent)]
    /\ UNCHANGED <<page, sched, lane, answers, viewer, refusal, gpu, rearms, left, setting>>

(***************************************************************************)
(* The renderer, at work on the render in flight.                          *)
(***************************************************************************)
\* A direct render draws and returns at once; it draws only while it is current.
Draws == Quiet /\ lane # <<>> /\ ~lane[1].drawn /\ gpu /\ IsCurrent(lane[1])
DrawDirect ==
    /\ Draws /\ ~setting.tiled
    /\ canvas' = Shown(lane[1])
    /\ runEntry(TRUE, refusal) /\ acceptPresentation(Shown(lane[1]), "canvas")
    /\ UNCHANGED <<page, sched, runs, gpu, timers, rearms, left, setting>>

\* A whole frame in tiles is too slow for a drag: the renderer refuses it to
\* the scheduler. A magnified view draws its region only.
WholeTiledFrame == /\ setting.tiled /\ ~doc.zoomed
                   /\ lane[1].owner = FrameOwner /\ lane[1].coarse = "no"

\* A tiled render copies its tiles to the canvas and then reads back from the
\* GPU, which has finished the drag frame before it; an animation frame that is
\* due comes first. The picture is accepted unless it was overtaken meanwhile.
DrawTiled ==
    /\ Draws /\ setting.tiled /\ ~WholeTiledFrame /\ sched.frame # "raf"
    /\ lane' = [lane EXCEPT ![1].drawn = TRUE] /\ canvas' = Shown(lane[1])
    /\ UNCHANGED <<page, sched, answers, runs, surface, accepted, unavailable, refusal, gpu,
                   timers, rearms, left, setting>>
Present ==
    /\ Quiet /\ lane # <<>> /\ lane[1].drawn /\ sched.frame \notin {"raf", "device"}
    /\ IF IsCurrent(lane[1])
       THEN runEntry(TRUE, refusal) /\ acceptPresentation(Shown(lane[1]), "canvas")
       ELSE runEntry(FALSE, "during") /\ UNCHANGED <<surface, accepted, unavailable>>
    /\ UNCHANGED <<page, sched, runs, canvas, gpu, timers, rearms, left, setting>>
Superseded ==
    /\ Quiet /\ lane # <<>> /\ ~lane[1].drawn /\ ~IsCurrent(lane[1])
    /\ runEntry(FALSE, "during")
    /\ UNCHANGED <<page, sched, runs, viewer, gpu, timers, rearms, left, setting>>
Refuse ==
    /\ Quiet /\ lane # <<>> /\ ~lane[1].drawn
    /\ IF gpu /\ ~WholeTiledFrame THEN Spend("refusals") ELSE UNCHANGED left
    /\ runEntry(FALSE, "hard")
    /\ UNCHANGED <<page, sched, runs, viewer, gpu, timers, rearms, setting>>

\* It throws: the frame on screen is kept and the last refusal stands. A
\* retryable failure sets a timer (twice at most: Failures bounds it), a
\* permanent one gives the GPU up.
Fail ==
    /\ Quiet /\ lane # <<>> /\ ~lane[1].drawn /\ gpu /\ Spend("failures")
    /\ \/ timers' = [timers EXCEPT !.retry = @ + 1] /\ UNCHANGED gpu
       \/ gpu' = FALSE /\ UNCHANGED timers
    /\ runEntry(FALSE, refusal)
    /\ UNCHANGED <<page, sched, runs, viewer, rearms, setting>>

(***************************************************************************)
(* Another photo, a zoom step, the watchdog.                               *)
(***************************************************************************)
\* Opening a photo retires the scheduler, the renders and the CPU requests,
\* and draws the new one.
OpenPhoto ==
    /\ Quiet /\ pressed = "no" /\ Free # {} /\ Spend("photos")
    /\ doc' = [gen |-> doc.gen + 1, photo |-> doc.photo + 1, scale |-> 1, zoomed |-> FALSE]
    /\ saves' = [saves EXCEPT !.gone = saves.sent]
    /\ sched' = cancel(sched)
    /\ LET r == NextSlot
           new == [Entry(r, 1, "no", FALSE) EXCEPT !.gen = doc.gen + 1, !.photo = doc.photo + 1]
       IN  /\ submit(new, {})
           /\ runs' = [x \in Slot |->
                IF x = r THEN [Run("open", "gpu", NoTask, 0) EXCEPT
                                !.photo = doc.photo + 1, !.scale = 1, !.gen = doc.gen + 1]
                ELSE IF runs[x].pc \in {"cpu", "join"} THEN [runs[x] EXCEPT !.pc = "end"]
                ELSE IF runs[x].pc = "keep" THEN [runs[x] EXCEPT !.pc = "stale"] ELSE runs[x]]
    /\ UNCHANGED <<pressed, viewer, gpu, timers, rearms, setting>>

\* A step of the zoom retires the scheduler; its own timer renders only when
\* the picture has another processing scale than it now needs.
ZoomStep ==
    /\ Quiet /\ pressed = "no" /\ gpu /\ Spend("zooms")
    /\ \E scale \in 1..2 : doc' = [doc EXCEPT !.scale = scale, !.zoomed = TRUE]
    /\ sched' = cancel(sched) /\ timers' = [timers EXCEPT !.zoom = TRUE]
    /\ UNCHANGED <<pressed, saves, lane, answers, runs, viewer, refusal, gpu, rearms, setting>>
ZoomFires ==
    /\ Quiet /\ timers.zoom /\ Free # {}
    /\ timers' = [timers EXCEPT !.zoom = FALSE]
    /\ IF ~gpu \/ AtScale(accepted) THEN UNCHANGED <<runs, lane, answers, refusal>>
       ELSE \E coarse \in IF setting.softer THEN BOOLEAN ELSE {FALSE} :
            /\ runs' = [runs EXCEPT ![NextSlot] =
                         Run("zoom", IF coarse THEN "coarse" ELSE "gpu", NoTask, 0)]
            /\ submit(Entry(NextSlot, doc.scale, IF coarse THEN "zoom" ELSE "no", FALSE), {})
    /\ UNCHANGED <<page, sched, viewer, gpu, rearms, left, setting>>

\* Once a second, which is longer than any timer above: a preview that is not
\* ready, with nothing in flight, is scheduled again.
Armed == sched.frame # "none" \/ sched.settle # NoTask \/ sched.refine # NoTask
         \/ timers.zoom \/ timers.retry > 0
Watchdog ==
    /\ Quiet /\ ~Armed
    /\ IF Ready \/ unavailable
       THEN rearms # 0 /\ rearms' = 0 /\ UNCHANGED sched
       ELSE /\ ~sched.dragging /\ lane = <<>> /\ rearms < MaxRearms
            /\ ~\E r \in Slot : runs[r].pc \in {"cpu", "keep", "stale"} /\ RequestCurrent(runs[r])
            /\ rearms' = rearms + 1 /\ sched' = schedule(sched, doc.gen)
    /\ UNCHANGED <<page, lane, answers, runs, viewer, refusal, gpu, timers, left, setting>>

User == Press \/ Input \/ Release \/ OpenPhoto \/ ZoomStep
Page ==
    \/ SaveAnswered \/ Resume \/ FrameStart \/ DeviceDone
    \/ SettleFires \/ RefineFires \/ RetryFires \/ ZoomFires
    \/ DrawDirect \/ DrawTiled \/ Present \/ Superseded \/ Refuse \/ Fail
    \/ \E r \in Slot : settlePreview(r) \/ SettleRetries(r) \/ RefineBegins(r) \/ End(r)
                       \/ CpuAnswered(r)
Next == User \/ Page \/ Watchdog
Spec == Init /\ [][Next]_vars
\* The event loop goes on, the watchdog's interval fires, and a pressed
\* pointer is lifted.
FairSpec == Spec /\ WF_vars(Page) /\ WF_vars(Watchdog) /\ WF_vars(Release)

(***************************************************************************)
(* Properties.                                                             *)
(***************************************************************************)
\* The state has the shape the code gives it: a render in flight or waiting
\* has a function that waits for it, a waiting one was not cancelled, and a
\* drag frame is awaited by the scheduler only.
TypeOK ==
    /\ doc \in [gen : Nat, photo : Nat, scale : 0..2, zoomed : BOOLEAN]
    /\ pressed \in {"no", "held", "moved"}
    /\ sched.frame \in {"none", "raf", "draft", "device"}
    /\ sched.settle \in {NoTask, sched.current} /\ sched.refine \in {NoTask, sched.current}
    /\ Len(lane) <= 2 /\ refusal \in {"none", "during", "queued", "hard"}
    /\ \A r \in Slot : runs[r].kind \in Kind /\ runs[r].pc \in Pc
    /\ Len(lane) = 2 => lane[1].cancelled /\ ~lane[2].cancelled
    /\ {unavailable, gpu} \subseteq BOOLEAN /\ rearms \in 0..MaxRearms

\* What the user sees never goes back: no picture of an older edit or of the
\* photo before replaces a newer one, whatever finishes late.
NeverOlder ==
    [][Visible' # Visible => /\ Visible'.gen >= Visible.gen
                             /\ Visible'.photo = doc.photo]_vars

\* When the viewer says Ready and nothing is being drawn, the screen shows
\* the picture of the current edit, at the scale the view needs. Zoom steps on
\* a photo that is drawn in tiles break it (ZoomedBack, LateOpen in MCPreview).
ReadyIsShown ==
    Ready /\ ~unavailable /\ (lane # <<>> => ~lane[1].drawn)
    => Same(Visible) /\ Visible.photo = doc.photo

\* The viewer comes to rest: in the end the current edit is shown exactly, or
\* the viewer says why it cannot be.
Settles == <>[](Ready \/ unavailable)

\* A settled or refining function starts a CPU picture only when its own
\* render was refused for good, not for a race it lost.
CpuOnlyWhenRefused ==
    [][\A r \in Slot :
        runs[r].kind = "settle" /\ runs[r].pc # "cpu" /\ runs'[r].pc = "cpu"
        => ~gpu \/ (runs[r].pc \in {"gpu", "again"} /\ refusal = "hard")]_vars
=============================================================================
