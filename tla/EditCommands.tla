---------------------------- MODULE EditCommands ----------------------------
(* The editing page and the edit session it edits: sliders change the page's  *)
(* global adjustments at once and are saved behind it; local adjustments,     *)
(* undo and redo are commands of one queue; SDR Match commits beside the      *)
(* queue. An adjustment is the set of the edits it shows, so undo gives back  *)
(* an earlier set. A fetch is its request, the session's answer and the       *)
(* page's continuation, three steps anything may come between.                *)
(* Left out: retouch repairs, framing and the geometry draft, the rendering   *)
(* that follows an answer, and the drafts of a local stroke before its commit.*)
EXTENDS Naturals, Sequences, FiniteSets, SequencesExt

CONSTANTS
  Slides,     \* slider edits made
  Locals,     \* local adjustments committed
  Histories,  \* undo and redo presses
  Others,     \* SDR Match presses, photos opened and requests lost, together
  Drags       \* slider gestures begun

ASSUME EditBounds == \A n \in {Slides, Locals, Histories, Others, Drags} : n \in Nat

VARIABLES
  server,     \* the edit session of the backend
  page,       \* what the page shows, and its flags
  queue,      \* editCommandQueue: the commands not yet finished, head first
  call,       \* the request of the head command
  match,      \* the request of SDR Match
  left,       \* edits, presses and faults still to come
  trouble     \* what went wrong since the photo was opened: see Troubles

vars == <<server, page, queue, call, match, left, trouble>>

\* A command or a Match was refused or lost; a command went ahead of one that
\* waits for the sliders to be saved; the photo was opened with local commands
\* of the one before still queued.
Troubles == {"failed", "overtaken", "inherited"}

NoGroup == 0
GlobalIds == 1..(Slides + Others)
LocalIds == 1..Locals

Document == [rev : Nat, global : SUBSET GlobalIds, local : SUBSET LocalIds]

\* One step of the undo history: what it was like before and after. The
\* session's "ever" is history only: every global edit it was ever given; and
\* so is "new": those among them that it was given for the first time here.
Entry == [type : {"global", "local"}, group : Nat, new : SUBSET GlobalIds,
          before : SUBSET (GlobalIds \cup LocalIds), after : SUBSET (GlobalIds \cup LocalIds)]

NewServer(sid) == [sid |-> sid, rev |-> 0, global |-> {}, local |-> {}, undo |-> <<>>, redo |-> <<>>,
                   ever |-> {}]

\* A page without unsaved sliders, local commits or a save that is waited for (what
\* retireActiveSession and clearPreviewCache reset). "drags" is history only: the
\* gesture each slider edit was made in.
NewPage(sid) ==
  [sid |-> sid, rev |-> 0, adj |-> {}, locals |-> {}, dirty |-> FALSE, gen |-> 0,
   held |-> FALSE, group |-> NoGroup, seq |-> 0, depth |-> 0, drags |-> <<>>]

Idle == [phase |-> "idle", sid |-> 0, rev |-> 0, answer |-> "none", doc |-> [rev |-> 0, global |-> {}, local |-> {}]]

-----------------------------------------------------------------------------
\* The session.

Snapshot(s) == [rev |-> s.rev, global |-> s.global, local |-> s.local]

Put(s, type, value) == IF type = "global" THEN [s EXCEPT !.global = value, !.ever = @ \cup value]
                       ELSE [s EXCEPT !.local = value]
Part(s, type) == IF type = "global" THEN s.global ELSE s.local

\* A command that changes the document: settled saves of one gesture share one
\* undo step.
Edited(s, type, value, group) ==
  LET last == Last(s.undo)
      joins == group # NoGroup /\ s.undo # <<>> /\ last.group = group /\ last.type = type
      first == IF type = "global" THEN value \ s.ever ELSE {}
      entry == [type |-> type, group |-> group, new |-> IF joins THEN last.new \cup first ELSE first,
                before |-> IF joins THEN last.before ELSE Part(s, type), after |-> value]
  IN [Put(s, type, value) EXCEPT
        !.undo = Append(IF joins THEN Front(@) ELSE @, entry), !.redo = <<>>, !.rev = @ + 1]

Undone(s) ==
  [Put(s, Last(s.undo).type, Last(s.undo).before) EXCEPT
     !.redo = Append(@, Last(s.undo)), !.undo = Front(@), !.rev = @ + 1]

Redone(s) ==
  [Put(s, Last(s.redo).type, Last(s.redo).after) EXCEPT
     !.undo = Append(@, Last(s.redo)), !.redo = Front(@), !.rev = @ + 1]

Refused(s, c) ==
  \/ c.type = "undo" /\ s.undo = <<>>
  \/ c.type = "redo" /\ s.redo = <<>>

Applied(s, c) ==
  CASE c.type = "undo" -> Undone(s)
    [] c.type = "redo" -> Redone(s)
    [] OTHER -> Edited(s, c.type, c.value, c.group)

-----------------------------------------------------------------------------
\* The page's queue. What waits for a save is the tail of its promise chain: a
\* command pressed while sliders were unsaved, or the end of a gesture.

Command(p, type, value) ==
  [type |-> type, sid |-> p.sid, value |-> value, gen |-> p.gen, group |-> NoGroup,
   seen |-> p.adj, after |-> <<>>]

Save(p, waiting) ==
  [Command(p, "global", p.adj) EXCEPT !.group = p.group, !.after = waiting]

\* globalEditSyncPending: the last save of this photo that has not ended. A save of
\* another photo does not count: opening a photo clears the flag (see below).
Pending(p, q) == {i \in DOMAIN q : q[i].type = "global" /\ q[i].sid = p.sid}

Forget(p, c) == IF c.type = "local" THEN [p EXCEPT !.depth = IF @ = 0 THEN 0 ELSE @ - 1] ELSE p

\* What waited goes on: a gesture's group ends, a deferred command is queued if
\* the save held and nothing is unsaved again.
Resumed(at, w, applied) ==
  IF w.type = "end" THEN [at EXCEPT !.page.group = IF @ = w.group THEN NoGroup ELSE @]
  ELSE IF applied /\ w.sid = at.page.sid /\ ~at.page.dirty THEN [at EXCEPT !.queue = Append(@, w)]
  ELSE [at EXCEPT !.page = Forget(@, w)]

Resume(p, q, waiting, applied) ==
  LET after[n \in 0..Len(waiting)] ==
        IF n = 0 THEN [page |-> p, queue |-> q] ELSE Resumed(after[n - 1], waiting[n], applied)
  IN after[Len(waiting)]

Sync(p, q, waiting) ==
  IF p.dirty THEN [page |-> [p EXCEPT !.dirty = FALSE], queue |-> Append(q, Save(p, waiting))]
  ELSE IF Pending(p, q) # {} THEN
    LET i == CHOOSE i \in Pending(p, q) : \A j \in Pending(p, q) : j <= i
    IN [page |-> p, queue |-> [q EXCEPT ![i].after = @ \o waiting]]
  ELSE Resume(p, q, waiting, TRUE)

\* Mutant: a command is queued ahead of the sliders that are unsaved.
QueueEdit_Always(p, q, c) == [page |-> p, queue |-> Append(q, c)]

QueueEdit(p, q, c) ==
  IF p.dirty THEN Sync(p, q, <<c>>) ELSE [page |-> p, queue |-> Append(q, c)]

\* The head is finished: a save that failed is dirty again, a save that held is
\* followed by another while the page is ahead.
Finished(p, q, applied) ==
  LET c == Head(q)
      rest == Tail(q)
  IN IF c.type # "global" THEN [page |-> Forget(p, c), queue |-> rest]
     ELSE IF c.sid # p.sid THEN Resume(p, rest, c.after, FALSE)
     ELSE IF applied THEN Sync(p, rest, c.after)
     ELSE Resume([p EXCEPT !.dirty = TRUE], rest, c.after, FALSE)

Become(state) == page' = state.page /\ queue' = state.queue

Complete(p, applied) ==
  /\ Become(Finished(p, queue, applied))
  /\ call' = Idle
  /\ trouble' = trouble \cup IF applied THEN {} ELSE {"failed"}

\* A head not yet sent is sent by the promise chain before anything else runs.
Turn == queue = <<>> \/ call # Idle

Spend(k) == left[k] > 0 /\ left' = [left EXCEPT ![k] = @ - 1]

-----------------------------------------------------------------------------
Init ==
  /\ server = NewServer(1) /\ page = NewPage(1)
  /\ queue = <<>> /\ call = Idle /\ match = Idle
  /\ left = [slide |-> Slides, local |-> Locals, history |-> Histories, other |-> Others,
             drag |-> Drags]
  /\ trouble = {}

\* A control is pressed: a new gesture, unless this one is active.
Press ==
  /\ Turn /\ ~page.held /\ Spend("drag")
  /\ page' = [page EXCEPT !.held = TRUE, !.seq = @ + 1, !.group = page.seq + 1]
  /\ UNCHANGED <<server, queue, call, match, trouble>>

\* A control changes a value, in a gesture or (curves, presets) without one.
Slide ==
  /\ Turn /\ Spend("slide")
  /\ page' = [page EXCEPT !.adj = @ \cup {Slides + 1 - left.slide}, !.dirty = TRUE, !.gen = @ + 1,
                       !.drags = Append(@, IF page.held THEN page.seq ELSE NoGroup)]
  /\ UNCHANGED <<server, queue, call, match, trouble>>

\* Mutant: the group ends before the last value is saved.
Release_Early ==
  /\ Turn /\ page.held
  /\ Become(Sync([page EXCEPT !.held = FALSE, !.group = NoGroup], queue, <<>>))
  /\ UNCHANGED <<server, call, match, left, trouble>>

\* The gesture ends: its last value is saved with its group still attached.
Release ==
  /\ Turn /\ page.held
  /\ Become(Sync([page EXCEPT !.held = FALSE], queue, <<[type |-> "end", group |-> page.group]>>))
  /\ UNCHANGED <<server, call, match, left, trouble>>

\* A settled preview, a scope or the saver asks for the sliders to be saved.
SettleSave ==
  /\ Turn /\ page.dirty
  /\ Become(Sync(page, queue, <<>>))
  /\ UNCHANGED <<server, call, match, left, trouble>>

\* A command of these types is at this place of the queue, or waits for it.
Pushes(c, types) == c.type \in types \/ \E k \in DOMAIN c.after : c.after[k].type \in types

\* A command is pressed: with or without a save of its own, it is queued before
\* the commands that wait for an earlier save.
Pushed(p, c) ==
  /\ Become(QueueEdit(p, queue, c))
  /\ trouble' = trouble \cup
       IF \E i \in DOMAIN queue : \E k \in DOMAIN queue[i].after : queue[i].after[k].type # "end"
       THEN {"overtaken"} ELSE {}

CommitLocal ==
  /\ Turn /\ Spend("local")
  /\ LET locals == page.locals \cup {Locals + 1 - left.local}
         p == [page EXCEPT !.locals = locals, !.depth = @ + 1]
     IN Pushed(p, Command(p, "local", locals))
  /\ UNCHANGED <<server, call, match>>

PressHistory ==
  /\ Turn /\ Spend("history")
  /\ \E type \in {"undo", "redo"} : Pushed(page, Command(page, type, {}))
  /\ UNCHANGED <<server, call, match>>

\* The head of the queue starts: it names the revision the page has now.
Send ==
  /\ ~Turn
  /\ IF Head(queue).sid # page.sid THEN Complete(page, FALSE)
     ELSE /\ call' = [Idle EXCEPT !.phase = "sent", !.sid = page.sid, !.rev = page.rev]
          /\ UNCHANGED <<page, queue, trouble>>
  /\ UNCHANGED <<server, match, left>>

\* The session takes the command only on the revision it names.
Serve ==
  /\ Turn /\ call.phase = "sent"
  /\ LET c == Head(queue) IN
     IF call.sid # server.sid THEN
       call' = [call EXCEPT !.phase = "answered", !.answer = "error"] /\ UNCHANGED server
     ELSE IF call.rev # server.rev THEN
       call' = [call EXCEPT !.phase = "answered", !.answer = "conflict"] /\ UNCHANGED server
     ELSE IF Refused(server, c) THEN
       call' = [call EXCEPT !.phase = "answered", !.answer = "error"] /\ UNCHANGED server
     ELSE
       /\ server' = Applied(server, c)
       /\ call' = [call EXCEPT !.phase = "answered", !.answer = "ok", !.doc = Snapshot(server')]
  /\ UNCHANGED <<page, queue, match, left, trouble>>

\* The request never arrives, or its answer is lost.
Lose ==
  /\ Turn /\ Spend("other")
  /\ \/ call.phase \in {"sent", "answered"} /\ call' = [call EXCEPT !.phase = "answered", !.answer = "error"]
     \/ call.phase \in {"asked", "read"} /\ call' = [call EXCEPT !.phase = "read", !.answer = "error"]
  /\ UNCHANGED <<server, page, queue, match, trouble>>

\* Mutant: a slider moved since is overwritten.
Taken_All(p, c, doc) ==
  [p EXCEPT !.rev = doc.rev, !.locals = IF p.depth > 0 THEN @ ELSE doc.local, !.adj = doc.global]
\* Mutant: the sliders of an answer are never taken.
Taken_Kept(p, c, doc) ==
  [p EXCEPT !.rev = doc.rev, !.locals = IF p.depth > 0 THEN @ ELSE doc.local]

\* The session's document becomes the page's, but for what is newer on it.
Taken(p, c, doc) ==
  [p EXCEPT !.rev = doc.rev,
            !.locals = IF p.depth > 0 THEN @ ELSE doc.local,
            !.adj = IF c.type = "global" /\ c.gen # p.gen THEN @ ELSE doc.global]

Receive ==
  /\ Turn /\ call.phase = "answered"
  /\ LET c == Head(queue) IN
     CASE c.sid # page.sid -> Complete(page, FALSE)
       [] c.sid = page.sid /\ call.answer = "conflict" ->
            call' = [call EXCEPT !.phase = "asked"] /\ UNCHANGED <<page, queue, trouble>>
       [] c.sid = page.sid /\ call.answer = "error" -> Complete(page, FALSE)
       [] OTHER -> Complete(Taken(page, c, call.doc), TRUE)
  /\ UNCHANGED <<server, match, left>>

\* After a conflict the page reads the session's document and takes it whole.
Read(r) ==
  IF r.sid = server.sid THEN [r EXCEPT !.phase = "read", !.answer = "ok", !.doc = Snapshot(server)]
  ELSE [r EXCEPT !.phase = "read", !.answer = "error"]

refreshEditState(p, r) ==
  IF r.answer = "ok" /\ p.sid = r.sid
  THEN [p EXCEPT !.rev = r.doc.rev, !.adj = r.doc.global, !.locals = r.doc.local]
  ELSE p

AnswerState ==
  /\ Turn
  /\ \/ call.phase = "asked" /\ call' = Read(call) /\ UNCHANGED match
     \/ match.phase = "asked" /\ match' = Read(match) /\ UNCHANGED call
  /\ UNCHANGED <<server, page, queue, left, trouble>>

Refresh ==
  /\ Turn /\ call.phase = "read"
  /\ Complete(refreshEditState(page, call), FALSE)
  /\ UNCHANGED <<server, match, left>>

-----------------------------------------------------------------------------
\* SDR Match, beside the queue: it starts with the sliders saved.

setSdrMatch ==
  /\ Turn /\ match = Idle /\ ~page.dirty /\ Pending(page, queue) = {}
  /\ Spend("other")
  /\ match' = [Idle EXCEPT !.phase = "sent", !.sid = page.sid, !.rev = page.rev]
  /\ UNCHANGED <<server, page, queue, call, trouble>>

ServeMatch ==
  /\ Turn /\ match.phase = "sent"
  /\ IF match.sid # server.sid THEN
       match' = [match EXCEPT !.phase = "answered", !.answer = "error"] /\ UNCHANGED server
     ELSE IF match.rev # server.rev THEN
       match' = [match EXCEPT !.phase = "answered", !.answer = "conflict"] /\ UNCHANGED server
     ELSE
       /\ server' = Edited(server, "global", server.global \cup {Slides + Others - left.other}, NoGroup)
       /\ match' = [match EXCEPT !.phase = "answered", !.answer = "ok", !.doc = Snapshot(server')]
  /\ UNCHANGED <<page, queue, call, left, trouble>>

ReceiveMatch ==
  /\ Turn /\ match.phase = "answered"
  /\ trouble' = trouble \cup IF match.answer = "ok" THEN {} ELSE {"failed"}
  /\ CASE match.sid # page.sid -> match' = Idle /\ UNCHANGED page
       [] match.sid = page.sid /\ match.answer = "conflict" ->
            match' = [match EXCEPT !.phase = "asked"] /\ UNCHANGED page
       [] match.sid = page.sid /\ match.answer = "error" -> match' = Idle /\ UNCHANGED page
       [] OTHER -> match' = Idle /\ page' = refreshEditState(page, match)
  /\ UNCHANGED <<server, queue, call, left>>

RefreshMatch ==
  /\ Turn /\ match.phase = "read"
  /\ match' = Idle /\ page' = refreshEditState(page, match)
  /\ UNCHANGED <<server, queue, call, left, trouble>>

-----------------------------------------------------------------------------
\* Another photo: the backend replaces the session first, the page follows.

activate_session ==
  /\ Turn /\ Spend("other")
  /\ server' = NewServer(server.sid + 1)
  /\ UNCHANGED <<page, queue, call, match, trouble>>

\* The page installs it: retireActiveSession ends in clearPreviewCache, which resets
\* globalEditDirty and globalEditSyncPending (preview-pipeline.js:953-954).
activateDesktopSession ==
  /\ Turn /\ server.sid # page.sid
  /\ page' = [NewPage(server.sid) EXCEPT !.gen = page.gen, !.held = page.held,
                                         !.group = page.group, !.seq = page.seq,
                                         !.drags = page.drags]
  /\ trouble' = IF \E i \in DOMAIN queue : Pushes(queue[i], {"local"}) THEN {"inherited"} ELSE {}
  /\ UNCHANGED <<server, queue, call, match, left>>

Next ==
  \/ Press \/ Slide \/ Release \/ SettleSave \/ CommitLocal \/ PressHistory
  \/ Send \/ Serve \/ Lose \/ Receive \/ AnswerState \/ Refresh
  \/ setSdrMatch \/ ServeMatch \/ ReceiveMatch \/ RefreshMatch
  \/ activate_session \/ activateDesktopSession

Spec == Init /\ [][Next]_vars

-----------------------------------------------------------------------------
Phases == {"idle", "sent", "answered", "asked", "read"}
Call == [phase : Phases, sid : Nat, rev : Nat, answer : {"none", "ok", "error", "conflict"}, doc : Document]

\* The shape of the state; a head in flight is a head of the queue.
TypeOK ==
  /\ server \in [sid : Nat, rev : Nat, global : SUBSET GlobalIds, local : SUBSET LocalIds,
                 ever : SUBSET GlobalIds, undo : Seq(Entry), redo : Seq(Entry)]
  /\ page \in [sid : Nat, rev : Nat, adj : SUBSET GlobalIds, locals : SUBSET LocalIds, dirty : BOOLEAN,
               gen : Nat, held : BOOLEAN, group : Nat, seq : Nat, depth : Nat, drags : Seq(Nat)]
  /\ call \in Call /\ match \in Call
  /\ (call # Idle => queue # <<>>)
  /\ \A i \in DOMAIN queue : queue[i].type \in {"global", "local", "undo", "redo"}
  /\ trouble \subseteq Troubles

\* At rest the page shows the session's document (edit-commands.js:111-131): with
\* nothing queued, asked or unsaved and the same revision, the global adjustments
\* agree, and so do the locals if nothing failed and no command was overtaken.
AtRest == queue = <<>> /\ match = Idle /\ ~page.dirty /\ page.sid = server.sid /\ page.rev = server.rev

ShowsSession ==
  AtRest => /\ page.adj = server.global
            /\ trouble \subseteq {"inherited"} => page.locals = server.local

\* The local strokes on the page are saved by the last commit queued (the reason
\* the preview waits for it, local-adjustments-ui.js:1021-1023), unless a command
\* failed: at rest no stroke is on the page alone.
StrokesSaved == AtRest /\ "failed" \notin trouble => page.locals \subseteq server.local

\* The answer to a save never takes a value off the page that is saved nowhere
\* (edit-commands.js:90-94): whatever the order of saves, gestures and answers.
SaveKeepsUnsaved ==
  [][Receive /\ Head(queue).type = "global" /\ page.sid = server.sid
       => page.adj \ server.ever \subseteq page'.adj]_vars

\* The saves of one drag share one undo step (edit-commands.js:17-26): no two
\* steps in a row both bring in edits of the same gesture, unless a command
\* was refused or lost.
Brought(i) == {page.drags[e] : e \in server.undo[i].new \cap DOMAIN page.drags}

DragIsOneStep ==
  "failed" \notin trouble =>
    \A i \in 2..Len(server.undo) : Brought(i) \cap Brought(i - 1) \subseteq {NoGroup}

\* A local stroke on the page is not taken off by the answer to an earlier
\* commit (edit-commands.js:83-89).
CommitKeepsStrokes ==
  [][Receive /\ Head(queue).type = "local" /\ "inherited" \notin trouble
       => page.locals \subseteq page'.locals]_vars

\* No answer takes off the page what is saved nowhere, or newer strokes.
AnswersKeepEdits == SaveKeepsUnsaved /\ CommitKeepsStrokes

\* Undo comes after the edits it was pressed after (edit-commands.js:65-69): the
\* session knows every slider value the page showed at the press, unless a
\* command was refused or lost, or Match went on beside the queue.
UndoComesAfter ==
  [][Serve /\ Head(queue).type = "undo" /\ call'.answer = "ok" /\ "failed" \notin trouble
       => Head(queue).seen \subseteq server.ever]_vars

\* A comment on the queue says that an answer to an earlier command must not
\* detach what a newer gesture still changes (edit-commands.js:83-85): no answer
\* of the queue takes a slider value off the page that is saved nowhere.
AnswerKeepsUnsaved ==
  [][Receive /\ page.sid = server.sid
       => page.adj \ server.ever \subseteq page'.adj]_vars
=============================================================================
