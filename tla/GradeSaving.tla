---------------------------- MODULE GradeSaving ----------------------------
(* Saving the grade of one Library photo.                                   *)
(*                                                                          *)
(* Four parties share the photo's settings file (the .hdrf sidecar) and the *)
(* Library database:                                                        *)
(*   - grade commands, HTTP requests that run in server threads             *)
(*     (library_grade_api.py, library_grades.py, library_history.py);       *)
(*   - mark commands: ratings, Undo, folder listings (library_marks.py);    *)
(*   - the background settings writer (library_settings_writer.py);         *)
(*   - other programs, the drive and the power switch.                      *)
(*                                                                          *)
(* Database sections run under the marks lock and are one action each; file *)
(* reads of a command run between two such sections, so a command is a      *)
(* sequence of actions.  A grade is what grade_key compares: an opaque      *)
(* value.  A settings document is its grade and its marks.                  *)
EXTENDS Integers, Sequences, FiniteSets

CONSTANTS
    Grade,        \* the grades in play
    None,         \* no grade: an absent JSON field
    Default,      \* the starting grade of a photo that has none
    Mark,         \* the values of the marks (rating, pick, label, tags)
    NoMark,       \* Marks(): nothing marked
    Client,       \* grade requests that can be in flight together
    Revision,     \* the uuid4 values a queue entry can carry
    Scenarios     \* how often the user, other programs, the drive and faults
                  \* may act: a set of budgets

ASSUME GradeAssumption == Default \in Grade /\ None \notin Grade
ASSUME MarkAssumption == NoMark \in Mark
ASSUME RevisionAssumption == Revision \subseteq Nat \ {0}

Bounds == {"edits", "reverts", "marks", "external", "unplugs", "faults", "crashes"}
ASSUME BoundAssumption == Scenarios \subseteq [Bounds -> Nat]

VARIABLES
    state,     \* the JSON of the photo's row in photo_grades
    row,       \* its row in photos, with the revision in settings_writes
    file,      \* the settings file beside the photo
    mounted,   \* whether the photo's folder is connected
    session,   \* the photo open in Grade
    cmd,       \* the grade requests in flight
    writer,    \* the settings writer's current attempt
    undo,      \* LibraryMarks._undo: rows as they were before a mark command
    history,   \* history: who last replaced the settings file, whether
               \* another program ever did, whether the folder was away
    budget     \* what is left of the scenario's budget

vars == <<state, row, file, mounted, session, cmd, writer, undo, history, budget>>
db == <<state, row>>

GradeOrNone == Grade \cup {None}
Document(k, g, m) == [kind |-> k, grade |-> g, marks |-> m]
Absent  == Document("absent", None, NoMark)
Garbled == Document("garbled", None, NoMark)
Offline == Document("offline", None, NoMark)
Kind == {"ok", "absent", "garbled", "offline"}
Documents == [kind : Kind, grade : GradeOrNone, marks : Mark]

GradeState ==
    [baseline : GradeOrNone, desired : GradeOrNone, pending : BOOLEAN,
     conflict : BOOLEAN, external : GradeOrNone, recovery : GradeOrNone,
     previous : GradeOrNone]

Rows == [present : BOOLEAN, marks : Mark, pending : BOOLEAN,
         rev : Revision \cup {0}]
Sessions == [open : BOOLEAN, grade : Grade, dirty : BOOLEAN, rev : Nat]

NoRow == [present |-> FALSE, marks |-> NoMark, pending |-> FALSE, rev |-> 0]
NoSession == [open |-> FALSE, grade |-> Default, dirty |-> FALSE, rev |-> 0]
EmptyState ==
    [baseline |-> None, desired |-> None, pending |-> FALSE,
     conflict |-> FALSE, external |-> None, recovery |-> None,
     previous |-> None]
IdleCmd ==
    [pc |-> "idle", live |-> TRUE, rev |-> 0, grade |-> None, alt |-> None,
     doc |-> Absent, arg |-> "none", snap |-> EmptyState]
IdleWriter ==
    [pc |-> "idle", rev |-> 0, marks |-> NoMark, seen |-> Absent,
     doc |-> Absent]

Arg == {"none", "unsaved", "mine", "file", "cancel", "adopt", "restore",
        "reload"}
CmdPc == {"idle", "saveRead", "saveCommit", "checkRead", "checkFinish",
          "asking", "resolveRead", "resolveFinish", "resave",
          "adopt", "offer", "restore", "reload", "loading", "storing",
          "discard"}
WriterPc == {"idle", "read", "merge", "prepared", "replace", "ackGrade",
             "ackQueue"}

Cmds == [pc : CmdPc, live : BOOLEAN, rev : Nat, grade : GradeOrNone,
         alt : GradeOrNone, doc : Documents, arg : Arg, snap : GradeState]
Writers == [pc : WriterPc, rev : Revision \cup {0}, marks : Mark,
            seen : Documents, doc : Documents]

-----------------------------------------------------------------------------
(* Locks.  Between the recheck and the acknowledgement the writer holds the *)
(* marks lock; every database section of a command waits for it.            *)
Unlocked == writer.pc \notin {"replace", "ackGrade", "ackQueue"}

\* A revision that no queue entry and no writer attempt holds: a fresh uuid4.
Fresh(r) ==
    /\ r \in Revision \ {row.rev, writer.rev}
    /\ \A q \in Revision \ {row.rev, writer.rev} : r <= q

\* LibraryMarks._document: a missing file and a missing folder both read as
\* None, a damaged file raises.
ReadSettings == IF mounted THEN file ELSE Offline
GradeIn(doc) == doc.grade

\* A photo without a saved grade shows its starting grade.
Shown(g) == IF g = None THEN Default ELSE g

\* LibraryMarks.read on this photo: the file wins unless the row is pending.
Refreshed ==
    IF row.pending \/ ~mounted \/ file.kind = "garbled" THEN row
    ELSE IF file.kind = "ok"
         THEN [present |-> TRUE, marks |-> file.marks, pending |-> FALSE,
               rev |-> 0]
         ELSE NoRow

\* SettingsWriter.enqueue, from a mark or grade command, with marks m.
Queued(m, r) == [present |-> TRUE, marks |-> m, pending |-> TRUE, rev |-> r]

\* LibraryGrades._check against the grade g read from the settings file.
\* Variant: pending work is taken for the only change there can be.
Conflicting_PendingWins(s, g) == g # s.baseline /\ ~s.pending
Conflicting(s, g) == g # s.baseline /\ ~(s.pending /\ g = s.desired)

Checked(s, g) ==
    IF Conflicting(s, g)
    THEN [s EXCEPT !.conflict = TRUE, !.external = g, !.pending = FALSE]
    ELSE IF g = s.baseline /\ s.conflict
    THEN [s EXCEPT !.conflict = FALSE, !.external = None,
                   !.previous = IF s.external # None THEN s.external
                                                     ELSE s.previous]
    ELSE s

-----------------------------------------------------------------------------
Init ==
    /\ state = EmptyState
    /\ row = NoRow
    /\ file \in {Absent} \cup {Document("ok", g, NoMark) : g \in Grade}
    /\ mounted = TRUE
    /\ session = NoSession
    /\ cmd = [c \in Client |-> IdleCmd]
    /\ writer = IdleWriter
    /\ undo = << >>
    /\ history = [author |-> "other", marks |-> NoMark, raced |-> FALSE, shared |-> FALSE,
                   away |-> FALSE]
    /\ budget \in Scenarios

Spend(kind) ==
    /\ budget[kind] > 0
    /\ budget' = [budget EXCEPT ![kind] = @ - 1]

Become(c, next) == cmd' = [cmd EXCEPT ![c] = next]
Goto(c, pc) == Become(c, [cmd[c] EXCEPT !.pc = pc])
Done(c) == Become(c, IdleCmd)

\* While the browser is still opening a photo it sends no edits and no other
\* grade requests for it.
Opening ==
    \E c \in Client : \/ cmd[c].pc \in {"adopt", "offer", "restore", "storing",
                                        "discard"}
                      \/ cmd[c].pc = "loading" /\ cmd[c].arg # "reload"

-----------------------------------------------------------------------------
(* Opening, editing and leaving the photo.                                  *)

\* LibraryGrades.attach, and the state of HDRGradeSaving.open after it.
Attach(c) ==
    /\ Unlocked /\ mounted /\ ~session.open /\ cmd[c].pc = "idle"
    /\ file.kind # "garbled"
    /\ LET fresh == ~state.pending /\ ~state.conflict /\ state.recovery = None
           saved == IF state.pending THEN state.desired ELSE file.grade
           offer == IF state.pending THEN None ELSE state.recovery
       IN /\ state' = IF fresh THEN [state EXCEPT !.baseline = file.grade]
                               ELSE state
          /\ session' = [NoSession EXCEPT !.open = TRUE]
          /\ Become(c, [IdleCmd EXCEPT
                 !.pc = IF saved # None THEN "adopt"
                        ELSE IF offer # None THEN "offer" ELSE "idle",
                 !.grade = saved, !.alt = offer])
    /\ UNCHANGED <<row, file, mounted, writer, undo, history, budget>>

\* The user's answer to "Recover unsaved work".
ChooseRestore(c) ==
    /\ cmd[c].pc \in {"adopt", "offer"} /\ cmd[c].alt # None
    /\ Goto(c, "restore")
    /\ UNCHANGED <<db, file, mounted, session, writer, undo, history, budget>>

ChooseSaved(c) ==
    /\ Unlocked /\ cmd[c].pc = "offer"
    /\ state' = [state EXCEPT !.recovery = None]
    /\ Done(c)
    /\ UNCHANGED <<row, file, mounted, session, writer, undo, history, budget>>

\* The "load" command reads the state without the lock and opens the document.
LoadBegin(c) ==
    /\ cmd[c].pc \in {"adopt", "restore", "reload"} /\ cmd[c].live
    /\ Become(c, [cmd[c] EXCEPT !.pc = "loading", !.arg = cmd[c].pc,
                                !.snap = state])
    /\ UNCHANGED <<db, file, mounted, session, writer, undo, history, budget>>

\* open_document replaces the session; other requests then have a session that
\* is no longer there.
LoadOpen(c) ==
    /\ cmd[c].pc = "loading"
    /\ LET mode == cmd[c].arg
           document == IF mode = "restore" THEN cmd[c].alt ELSE cmd[c].grade
       IN /\ session' = [open |-> TRUE, rev |-> 0, dirty |-> mode = "restore",
                         grade |-> Shown(document)]
          /\ cmd' = [d \in Client |->
                 IF d = c THEN [cmd[c] EXCEPT !.pc = "storing"]
                 ELSE [cmd[d] EXCEPT !.live = @ /\ mode # "reload"]]
    /\ UNCHANGED <<db, file, mounted, writer, undo, history, budget>>

\* Then the state it read is stored with the new baseline, without the lock.
\* Opening a photo asks for preserve_recovery or recovery and stores nothing.
LoadStore(c) ==
    /\ cmd[c].pc = "storing"
    /\ LET mode == cmd[c].arg
           snap == cmd[c].snap
           stores == mode = "reload" /\ ~snap.pending /\ ~snap.conflict
       IN /\ state' = IF stores THEN [snap EXCEPT !.baseline = cmd[c].grade]
                                ELSE state
          /\ Become(c, IF mode = "reload" THEN [cmd[c] EXCEPT !.pc = "discard"]
                       ELSE IF mode = "adopt" /\ cmd[c].alt # None
                       THEN [IdleCmd EXCEPT !.pc = "offer", !.alt = cmd[c].alt]
                       ELSE IdleCmd)
    /\ UNCHANGED <<row, file, mounted, session, writer, undo, history, budget>>

\* discard_recovery, after a reload.
LoadDiscard(c) ==
    /\ Unlocked /\ cmd[c].pc = "discard"
    /\ state' = [state EXCEPT !.recovery = None]
    /\ Done(c)
    /\ UNCHANGED <<row, file, mounted, session, writer, undo, history, budget>>

\* Variant: the recovery observer is not registered.
Edit_NoCapture(g) ==
    /\ Unlocked /\ session.open /\ ~Opening /\ g # session.grade
    /\ Spend("edits")
    /\ session' = [session EXCEPT !.grade = g, !.dirty = TRUE, !.rev = @ + 1]
    /\ UNCHANGED <<db, file, mounted, cmd, writer, undo, history>>

\* SessionStore._commit_edit_commands with capture_edit, its observer: the
\* edit and the durable recovery of it are one section.
Edit(g) ==
    /\ Unlocked /\ session.open /\ ~Opening /\ g # session.grade
    /\ Spend("edits")
    /\ session' = [session EXCEPT !.grade = g, !.dirty = TRUE, !.rev = @ + 1]
    /\ state' = [state EXCEPT !.recovery = g]
    /\ UNCHANGED <<row, file, mounted, cmd, writer, undo, history>>

CloseSession ==
    /\ session' = NoSession
    /\ cmd' = [c \in Client |-> IF cmd[c].pc = "idle" THEN IdleCmd
                                ELSE [cmd[c] EXCEPT !.live = FALSE]]

Loading == \E c \in Client : cmd[c].pc \in {"loading", "storing", "discard"}

\* HDRGradeSaving.leave: at once when nothing is unsaved, or after the user
\* chose "Don't save", which discards the recovery.
Leave ==
    /\ ~Loading /\ session.open /\ ~session.dirty /\ ~Opening
    /\ CloseSession
    /\ UNCHANGED <<db, file, mounted, writer, undo, history, budget>>

LeaveUnsaved ==
    /\ Unlocked /\ ~Loading /\ session.open /\ session.dirty /\ ~Opening
    /\ state' = [state EXCEPT !.recovery = None]
    /\ CloseSession
    /\ UNCHANGED <<row, file, mounted, writer, undo, history, budget>>

-----------------------------------------------------------------------------
(* LibraryGrades.save: durable recovery, an unlocked read, the commit.      *)

SaveBegin(c) ==
    /\ Unlocked /\ session.open /\ ~Opening
    /\ \/ cmd[c].pc = "idle" /\ session.dirty
       \/ cmd[c].pc = "resave" /\ cmd[c].live
    /\ state' = [state EXCEPT !.recovery = session.grade]
    /\ Become(c, [IdleCmd EXCEPT !.pc = "saveRead", !.grade = session.grade,
                                 !.rev = session.rev])
    /\ UNCHANGED <<row, file, mounted, session, writer, undo, history, budget>>

SaveRead(c) ==
    /\ cmd[c].pc = "saveRead"
    /\ Become(c, [cmd[c] EXCEPT !.pc = "saveCommit", !.doc = ReadSettings])
    /\ UNCHANGED <<db, file, mounted, session, writer, undo, history, budget>>

Comparable(doc) == doc.kind \notin {"garbled", "offline"}

SaveConflict(c) ==
    /\ Unlocked /\ cmd[c].pc = "saveCommit"
    /\ Comparable(cmd[c].doc) /\ Conflicting(state, GradeIn(cmd[c].doc))
    /\ state' = Checked(state, GradeIn(cmd[c].doc))
    /\ Done(c)
    /\ UNCHANGED <<row, file, mounted, session, writer, undo, history, budget>>

\* The marks a grade command queues with the grade.
MarksWith(doc) ==
    IF ~row.present \/ (doc.kind = "ok" /\ ~row.pending) THEN doc.marks
                                                         ELSE row.marks

\* Variant: the session is clean after every save, edited meanwhile or not.
SaveCommit_IgnoresRevision(c) ==
    /\ Unlocked /\ cmd[c].pc = "saveCommit"
    /\ ~Conflicting(state, GradeIn(cmd[c].doc))
    /\ state' = [state EXCEPT !.desired = cmd[c].grade, !.pending = TRUE]
    /\ \E r \in Revision :
          Fresh(r) /\ row' = Queued(MarksWith(cmd[c].doc), r)
    /\ session' = [session EXCEPT !.dirty = FALSE]
    /\ Done(c)
    /\ UNCHANGED <<file, mounted, writer, undo, history, budget>>

SaveCommit(c) ==
    /\ Unlocked /\ cmd[c].pc = "saveCommit"
    /\ LET doc == cmd[c].doc
           known == IF Comparable(doc) THEN Checked(state, GradeIn(doc))
                                       ELSE state
       IN /\ Comparable(doc) => ~Conflicting(state, GradeIn(doc))
          /\ state' = [known EXCEPT !.desired = cmd[c].grade, !.pending = TRUE]
          /\ \E r \in Revision :
                Fresh(r) /\ row' = Queued(MarksWith(doc), r)
    /\ session' = IF cmd[c].live /\ session.rev = cmd[c].rev
                  THEN [session EXCEPT !.dirty = FALSE] ELSE session
    /\ Done(c)
    /\ UNCHANGED <<file, mounted, writer, undo, history, budget>>

-----------------------------------------------------------------------------
(* LibraryGrades.check and resolve, with the dialog between them.           *)

\* The browser's reaction to a status: a conflict opens the dialog.
Replied(s, live) ==
    IF live /\ s.conflict
    THEN [IdleCmd EXCEPT !.pc = "asking", !.grade = s.external] ELSE IdleCmd

\* An unplugged drive answers with the status alone.
CheckBegin(c) ==
    /\ Unlocked /\ session.open /\ ~Opening /\ cmd[c].pc = "idle"
    /\ IF mounted
       THEN \E unsaved \in BOOLEAN :
               Become(c, [IdleCmd EXCEPT !.pc = "checkRead",
                             !.grade = state.baseline,
                             !.arg = IF unsaved THEN "unsaved" ELSE "none"])
       ELSE state.conflict /\ Become(c, Replied(state, TRUE))
    /\ UNCHANGED <<db, file, mounted, session, writer, undo, history, budget>>

CheckRead(c) ==
    /\ cmd[c].pc = "checkRead"
    /\ Become(c, [cmd[c] EXCEPT !.pc = "checkFinish", !.doc = ReadSettings])
    /\ UNCHANGED <<db, file, mounted, session, writer, undo, history, budget>>

CheckFinish(c) ==
    /\ Unlocked /\ cmd[c].pc = "checkFinish"
    /\ LET g == GradeIn(cmd[c].doc)
           guarded == cmd[c].arg = "unsaved" \/ session.dirty
                      \/ state.pending \/ state.conflict
           stale == \/ ~cmd[c].live \/ state.baseline # cmd[c].grade
                    \/ cmd[c].doc.kind = "garbled"
           reload == ~stale /\ g # state.baseline /\ ~guarded
           next == IF stale \/ reload \/ (g = state.baseline /\ ~state.conflict)
                   THEN state ELSE Checked(state, g)
       IN /\ state' = next
          /\ Become(c, IF reload
                       THEN [IdleCmd EXCEPT !.pc = "reload", !.grade = g]
                       ELSE Replied(next, cmd[c].live))
    /\ UNCHANGED <<row, file, mounted, session, writer, undo, history, budget>>

\* "Grade changed elsewhere": Keep my grade (Keep both does the same to this
\* photo), Use the file's grade, or Cancel.
Answer(c) ==
    /\ cmd[c].pc = "asking"
    /\ \E choice \in {"mine", "file", "cancel"} :
          Become(c, [cmd[c] EXCEPT !.pc = "resolveRead", !.arg = choice])
    /\ UNCHANGED <<db, file, mounted, session, writer, undo, history, budget>>

ResolveRead(c) ==
    /\ cmd[c].pc = "resolveRead"
    /\ IF ReadSettings.kind = "garbled"
       THEN Done(c)
       ELSE Become(c, [cmd[c] EXCEPT !.pc = "resolveFinish",
                                     !.doc = ReadSettings])
    /\ UNCHANGED <<db, file, mounted, session, writer, undo, history, budget>>

\* The file changed again while the dialog was open, or the user cancelled.
ResolveVoid(c) ==
    /\ Unlocked /\ cmd[c].pc = "resolveFinish"
    /\ LET g == GradeIn(cmd[c].doc)
       IN \/ /\ g # cmd[c].grade
             /\ state' = Checked(state, g)
          \/ /\ g = cmd[c].grade
             /\ cmd[c].arg = "cancel" \/ ~cmd[c].live
             /\ state' = state
    /\ Done(c)
    /\ UNCHANGED <<row, file, mounted, session, writer, undo, history, budget>>

ResolveChosen(c) ==
    /\ Unlocked /\ cmd[c].pc = "resolveFinish"
    /\ GradeIn(cmd[c].doc) = cmd[c].grade
    /\ cmd[c].arg # "cancel" /\ cmd[c].live
    /\ LET g == GradeIn(cmd[c].doc)
           mine == cmd[c].arg = "mine"
       IN /\ state' = [state EXCEPT
                 !.previous = IF mine THEN g ELSE session.grade,
                 !.baseline = g, !.conflict = FALSE, !.pending = FALSE,
                 !.external = None]
          /\ Become(c, IF mine
                       THEN [IdleCmd EXCEPT !.pc = "resave"]
                       ELSE [IdleCmd EXCEPT !.pc = "reload", !.grade = g])
    /\ UNCHANGED <<row, file, mounted, session, writer, undo, history, budget>>

\* A later step of a command whose photo is no longer open: it ends there.
Gone(c) ==
    /\ cmd[c].pc \in {"resave", "reload"} /\ ~cmd[c].live
    /\ Done(c)
    /\ UNCHANGED <<db, file, mounted, session, writer, undo, history, budget>>

-----------------------------------------------------------------------------
(* LibraryHistory.rewrite for one photo, in one section under both locks.   *)

RevertTarget(kind) ==
    CASE kind = "original" -> IF session.open THEN Default ELSE None
      [] kind = "saved"    -> IF mounted /\ file.grade # None THEN file.grade
                              ELSE IF mounted THEN Default
                              ELSE IF state.pending THEN state.desired
                              ELSE IF state.baseline # None
                                   THEN state.baseline ELSE Default
      [] kind = "previous" -> state.previous

Revert(kind) ==
    /\ Unlocked /\ ~state.conflict /\ ~Opening
    /\ mounted => file.kind # "garbled"
    /\ kind = "saved" => session.open
    /\ kind = "previous" => state.previous # None
    /\ LET fileGrade == IF mounted THEN file.grade ELSE state.baseline
           compare == mounted /\ (state.pending \/ session.open)
           current == IF session.open THEN session.grade
                      ELSE IF state.pending THEN state.desired ELSE fileGrade
           target == IF session.open THEN Shown(RevertTarget(kind))
                                     ELSE RevertTarget(kind)
           kept == [state EXCEPT
                       !.previous = current,
                       !.baseline = IF compare \/ @ = fileGrade \/ state.pending
                                    THEN @ ELSE fileGrade]
       IN IF compare /\ Conflicting(state, fileGrade)
          THEN /\ state' = Checked(state, fileGrade)
               /\ row' = Refreshed
               /\ UNCHANGED <<session, budget>>
          ELSE /\ Shown(current) # Shown(target)
               /\ Spend("reverts")
               /\ IF session.open
                  THEN /\ session' = [session EXCEPT !.grade = target,
                                         !.rev = @ + 1,
                                         !.dirty = kind # "saved"]
                       /\ state' = [kept EXCEPT !.recovery =
                                       IF kind = "saved" THEN None ELSE target]
                       /\ row' = Refreshed
                  ELSE /\ state' = [kept EXCEPT !.desired = target,
                                                !.pending = TRUE]
                       /\ \E r \in Revision :
                             Fresh(r) /\ row' = Queued(Refreshed.marks, r)
                       /\ UNCHANGED session
    /\ UNCHANGED <<file, mounted, cmd, writer, undo, history>>

-----------------------------------------------------------------------------
(* Marks: LibraryMarks.change, undo and the read of a folder listing.       *)

LibraryRead ==
    /\ Unlocked
    /\ row' = Refreshed /\ row' # row
    /\ UNCHANGED <<state, file, mounted, session, cmd, writer, undo, history,
                   budget>>

MarkChange(m) ==
    /\ Unlocked
    /\ mounted => file.kind # "garbled"
    /\ m # Refreshed.marks
    /\ Spend("marks")
    /\ \E r \in Revision : Fresh(r) /\ row' = Queued(m, r)
    /\ undo' = Append(undo, [present |-> Refreshed.present,
                             marks |-> Refreshed.marks])
    /\ history' = [history EXCEPT !.marks = m]
    /\ UNCHANGED <<state, file, mounted, session, cmd, writer>>

\* A row that had no storage before the command is deleted again, queue entry
\* included, when no settings file can be seen.
UndoMarks ==
    /\ Unlocked /\ undo # << >>
    /\ mounted => file.kind # "garbled"
    /\ LET old == undo[Len(undo)]
       IN IF ~old.present /\ (~mounted \/ file.kind = "absent")
          THEN row' = NoRow
          ELSE \E r \in Revision : Fresh(r) /\ row' = Queued(old.marks, r)
    /\ undo' = SubSeq(undo, 1, Len(undo) - 1)
    /\ history' = [history EXCEPT !.marks = undo[Len(undo)].marks]
    /\ UNCHANGED <<state, file, mounted, session, cmd, writer, budget>>

-----------------------------------------------------------------------------
(* The settings writer: LibrarySettingsWriter._attempt and                  *)
(* LibraryMarks._write_sidecar.                                             *)

WriterRest == writer' = IdleWriter

\* _snapshot of the row, then stat of the source.
WriterSnapshot ==
    /\ writer.pc = "idle" /\ row.pending /\ mounted
    /\ writer' = [IdleWriter EXCEPT !.pc = "read", !.rev = row.rev,
                                    !.marks = row.marks]
    /\ UNCHANGED <<db, file, mounted, session, cmd, undo, history, budget>>

WriterRead ==
    /\ writer.pc = "read"
    /\ IF ReadSettings.kind = "garbled"
       THEN WriterRest
       ELSE writer' = [writer EXCEPT !.pc = "merge", !.seen = ReadSettings]
    /\ UNCHANGED <<db, file, mounted, session, cmd, undo, history, budget>>

\* LibraryGrades.merge_item, and the document _attempt will write.
WriterMerge ==
    /\ writer.pc = "merge"
    /\ LET g == GradeIn(writer.seen)
           mine == state.pending /\ ~Conflicting(state, g)
       IN /\ state' = IF state.pending THEN Checked(state, g) ELSE state
          /\ writer' = [writer EXCEPT !.pc = "prepared",
                !.doc = Document("ok", IF mine THEN state.desired ELSE g,
                                 writer.marks)]
    /\ UNCHANGED <<row, file, mounted, session, cmd, undo, history, budget>>

\* Variant: a failed write gives the queue entry up.
WriterFault_Forgets ==
    /\ writer.pc = "prepared"
    /\ WriterRest
    /\ row' = [row EXCEPT !.pending = FALSE, !.rev = 0]
    /\ Spend("faults")
    /\ UNCHANGED <<state, file, mounted, session, cmd, undo, history>>

\* The temporary file cannot be written: locked, disk full, no permission.
WriterFault ==
    /\ writer.pc = "prepared"
    /\ WriterRest
    /\ Spend("faults")
    /\ UNCHANGED <<db, file, mounted, session, cmd, undo, history>>

\* Variant: the fingerprint is checked, the queue entry's revision is not.
WriterRecheck_NoRevision ==
    /\ writer.pc = "prepared"
    /\ IF mounted /\ row.pending /\ file = writer.seen
       THEN writer' = [writer EXCEPT !.pc = "replace"]
       ELSE WriterRest
    /\ UNCHANGED <<db, file, mounted, session, cmd, undo, history, budget>>

\* Under the marks lock: is_current and the fingerprint once more.
WriterRecheck ==
    /\ writer.pc = "prepared"
    /\ IF mounted /\ row.pending /\ row.rev = writer.rev /\ file = writer.seen
       THEN writer' = [writer EXCEPT !.pc = "replace"]
       ELSE WriterRest
    /\ UNCHANGED <<db, file, mounted, session, cmd, undo, history, budget>>

\* os.replace; it fails when the drive has just gone.
WriterReplace ==
    /\ writer.pc = "replace"
    /\ IF mounted
       THEN /\ file' = writer.doc
            /\ history' = [history EXCEPT !.raced = FALSE, !.author =
                              IF writer.doc.grade = file.grade THEN @ ELSE "app"]
            /\ writer' = [writer EXCEPT !.pc = "ackGrade"]
       ELSE /\ WriterRest
            /\ UNCHANGED <<file, history>>
    /\ UNCHANGED <<db, mounted, session, cmd, undo, budget>>

\* Variant: the grade's pending flag is left for the next attempt.
WriterAckGrade_Skipped ==
    /\ writer.pc = "ackGrade"
    /\ writer' = [writer EXCEPT !.pc = "ackQueue"]
    /\ UNCHANGED <<db, file, mounted, session, cmd, undo, history, budget>>

\* LibraryGrades.acknowledge_item, its own transaction.
WriterAckGrade ==
    /\ writer.pc = "ackGrade"
    /\ state' = IF state.pending /\ writer.doc.grade = state.desired
                THEN [state EXCEPT !.baseline = state.desired,
                         !.pending = FALSE,
                         !.recovery = IF @ = state.desired THEN None ELSE @]
                ELSE state
    /\ writer' = [writer EXCEPT !.pc = "ackQueue"]
    /\ UNCHANGED <<row, file, mounted, session, cmd, undo, history, budget>>

\* LibrarySettingsWriter.acknowledge, a second transaction.
WriterAckQueue ==
    /\ writer.pc = "ackQueue"
    /\ row' = [row EXCEPT !.pending = FALSE, !.rev = 0]
    /\ WriterRest
    /\ UNCHANGED <<state, file, mounted, session, cmd, undo, history, budget>>

-----------------------------------------------------------------------------
(* Other programs, the drive, the power switch.                             *)

OtherProgram ==
    /\ mounted
    /\ Spend("external")
    /\ \E next \in {Absent, Garbled}
                   \cup [kind : {"ok"}, grade : Grade, marks : {file.marks}] :
          /\ next # file /\ file' = next
          /\ history' = [author |-> "other", shared |-> TRUE, raced |-> writer.pc = "replace",
                          away |-> history.away, marks |-> IF row.pending \/ next.kind = "garbled"
                                    THEN history.marks ELSE next.marks]
    /\ UNCHANGED <<db, mounted, session, cmd, writer, undo>>

Unplug ==
    /\ mounted
    /\ Spend("unplugs")
    /\ mounted' = FALSE
    /\ history' = [history EXCEPT !.away = TRUE]
    /\ UNCHANGED <<db, file, session, cmd, writer, undo>>

Replug ==
    /\ ~mounted
    /\ mounted' = TRUE
    /\ UNCHANGED <<db, file, session, cmd, writer, undo, history, budget>>

\* The app or the computer stops and the app starts again: the database and
\* the files stay, everything in memory goes.
Crash ==
    /\ Spend("crashes")
    /\ session' = NoSession
    /\ cmd' = [c \in Client |-> IdleCmd]
    /\ writer' = IdleWriter
    /\ undo' = << >>
    /\ UNCHANGED <<db, file, mounted, history>>

-----------------------------------------------------------------------------
Request(c) ==
    \/ Attach(c) \/ ChooseRestore(c) \/ ChooseSaved(c)
    \/ LoadBegin(c) \/ LoadOpen(c) \/ LoadStore(c) \/ LoadDiscard(c)
    \/ SaveBegin(c) \/ SaveRead(c) \/ SaveConflict(c) \/ SaveCommit(c)
    \/ CheckBegin(c) \/ CheckRead(c) \/ CheckFinish(c)
    \/ Answer(c) \/ ResolveRead(c) \/ ResolveVoid(c) \/ ResolveChosen(c)
    \/ Gone(c)

User ==
    \/ \E g \in Grade : Edit(g)
    \/ Leave \/ LeaveUnsaved
    \/ \E kind \in {"original", "saved", "previous"} : Revert(kind)
    \/ LibraryRead
    \/ \E m \in Mark : MarkChange(m)
    \/ UndoMarks

WriterStep ==
    \/ WriterSnapshot \/ WriterRead \/ WriterMerge \/ WriterFault
    \/ WriterRecheck \/ WriterReplace \/ WriterAckGrade \/ WriterAckQueue

Environment == OtherProgram \/ Unplug \/ Replug \/ Crash

Next == (\E c \in Client : Request(c)) \/ User \/ WriterStep \/ Environment

Spec == Init /\ [][Next]_vars
FairSpec == Spec /\ WF_vars(WriterStep)

-----------------------------------------------------------------------------
(* What the saving of a grade promises.                                     *)

\* Every variable keeps its type: in particular the open session always holds
\* a grade, never the absent one a missing settings file is read as.
TypeOK ==
    /\ state \in GradeState
    /\ row \in Rows
    /\ file \in Documents
    /\ mounted \in BOOLEAN
    /\ session \in Sessions
    /\ cmd \in [Client -> Cmds]
    /\ writer \in Writers
    /\ undo \in Seq([present : BOOLEAN, marks : Mark])
    /\ history \in [author : {"app", "other"}, marks : Mark, raced : BOOLEAN,
                   shared : BOOLEAN, away : BOOLEAN]
    /\ budget \in [Bounds -> Nat]

\* What lets the writer clear the queue: while its revision is the queued one,
\* the marks it holds are the row's and the grade it wrote is the desired one.
Holds == row.pending /\ row.rev = writer.rev
WriterInv ==
    /\ ~Unlocked => Holds
    /\ writer.pc # "idle" /\ Holds => row.marks = writer.marks
    /\ writer.pc \notin {"idle", "read", "merge"} =>
          writer.doc.marks = writer.marks
    /\ writer.pc \in {"prepared", "replace", "ackGrade"} /\ Holds
          /\ state.pending => writer.doc.grade = state.desired
    /\ writer.pc = "ackQueue" => ~state.pending

\* The writer clears a queue entry only when what it just wrote is what the
\* database holds now: the current marks, and no grade still waiting.  Library
\* commands, saves and other requests run while it prepares the file.
AckIsCurrent ==
    [][row.pending /\ row'.present /\ ~row'.pending
       => writer.doc.marks = row.marks /\ ~state'.pending]_vars

\* The writer replaces a grade in the settings file by another one only when
\* the replaced grade is the one the app last knew: a grade that came from
\* elsewhere is never overwritten unseen.  A write by another program between
\* the writer's last look and the replacement is outside what it can see; a
\* folder that goes away under a check reads as one without settings.
KnownOverwrite ==
    [][writer.pc = "replace" /\ writer'.pc = "ackGrade"
         /\ file'.grade # file.grade /\ ~history.raced /\ ~history.away
       => file.grade = state.baseline]_vars

\* A grade that waits to be written has its photo in the durable queue, so the
\* writer will find it, also after a restart.
QueueHoldsGrade == state.pending => row.pending

\* The recovery kept for an open photo with unsaved work is never an older
\* unsaved grade: it is the grade on screen, or already cleared.
RecoveryIsCurrent ==
    session.open /\ session.dirty /\ ~Opening =>
        state.recovery \in {session.grade, None}

\* What keeps the recovery current while requests of a page overlap. A request
\* that opens the photo is alone: what others left behind is over, it neither
\* loads nor stores. What the user is offered is the recovery, also in the
\* state that the request has read; and unsaved work in a photo that is being
\* opened is the offer that was taken.
Over(c) ==
    \/ cmd[c].pc = "idle"
    \/ /\ ~cmd[c].live
       /\ cmd[c].pc \notin {"adopt", "offer", "restore", "loading", "storing", "discard"}
Opens(c) ==
    \/ cmd[c].pc \in {"adopt", "offer", "restore"}
    \/ cmd[c].pc \in {"loading", "storing"} /\ cmd[c].arg # "reload"
Restoring(c) ==
    \/ cmd[c].pc \in {"offer", "restore"}
    \/ cmd[c].pc \in {"loading", "storing"} /\ cmd[c].arg = "restore"

LeftAlone == ~session.open => ~session.dirty /\ \A c \in Client : Over(c)
OpensAlone ==
    \A c, d \in Client : Opens(c) /\ c # d => Over(d)
OfferIsRecovery ==
    \A c \in Client : Opens(c) =>
        /\ Restoring(c) => cmd[c].alt # None
        /\ cmd[c].alt # None =>
              /\ state.recovery \in {cmd[c].alt, None}
              /\ cmd[c].pc \in {"loading", "storing"} => cmd[c].snap.recovery \in {cmd[c].alt, None}
OpensClean ==
    Opening /\ session.dirty =>
        \E c \in Client : /\ cmd[c].pc = "storing" /\ cmd[c].arg = "restore"
                           /\ session.grade = cmd[c].alt
RecoveryInv ==
    RecoveryIsCurrent /\ LeftAlone /\ OpensAlone /\ OfferIsRecovery /\ OpensClean

\* Unsaved work on an open photo survives a crash: some durable field of the
\* database holds it.
DirtyIsDurable ==
    session.open /\ session.dirty /\ ~Opening =>
        \/ session.grade \in {state.recovery, state.baseline, state.previous}
        \/ state.pending /\ session.grade = state.desired

Quiet == writer.pc = "idle" /\ \A c \in Client : cmd[c].pc = "idle"

\* "All changes saved" is true: while no other program writes the settings
\* file and its folder stays connected, nothing unsaved, waiting or in conflict means that the file holds the
\* grade on screen.
AllChangesSaved ==
    session.open /\ Quiet /\ ~session.dirty /\ ~state.pending
      /\ ~state.conflict /\ ~history.shared /\ ~history.away /\ file.kind = "ok"
    => Shown(file.grade) = session.grade

\* "Grade changed elsewhere" is said only of a grade that changed elsewhere:
\* never while the last change of the file's grade was the app's own.
ConflictIsForeign == state.conflict => history.author = "other"

\* The same, for the grade the notice holds against the user's: it is not the
\* one the app itself wrote into the file.
OwnWriteIsKnown ==
    state.conflict /\ state.external = file.grade => history.author = "other"

\* Loading a grade into the open photo discards its recovery, so it replaces
\* unsaved work only when that work is kept: as the previous or the saved grade.
NoSilentDiscard ==
    [][\A c \in Client :
          cmd[c].pc = "loading" /\ cmd'[c].pc = "storing" /\ session.dirty
          => \/ session.grade \in {state.previous, state.baseline}
             \/ state.pending /\ session.grade = state.desired]_vars

\* When a conflict cancels a saved grade that was still waiting, that grade is
\* retained, or newer unsaved work stands in for it.
ConflictRetainsBoth ==
    [][state.pending /\ ~state.conflict /\ state'.conflict
       => \/ state.desired \in {state'.recovery, state'.baseline,
                                state'.previous}
          \/ session.open /\ session.dirty]_vars

\* A saved grade stops waiting only when it is written, when a conflict pauses
\* it, or when the user chose in the dialog: opening a photo never cancels it.
SaveSticks ==
    [][state.pending /\ ~state'.pending
       => \/ writer.pc = "ackGrade" \/ state'.conflict
          \/ \E c \in Client : /\ cmd[c].pc = "resolveFinish"
                               /\ cmd'[c].pc \in {"resave", "reload"}]_vars

\* Once nothing waits to be written, the settings file holds the marks the
\* user last asked for, unless another program set others.
MarksStick ==
    Quiet /\ mounted /\ ~row.pending /\ file.kind \in {"ok", "absent"} =>
        file.marks = history.marks

\* While the folder stays connected and the settings readable, a queued grade
\* is at last written, or paused by a conflict.
Calm == mounted /\ file.kind # "garbled"
Settles == <>[]Calm => ((state.pending /\ row.pending) ~> ~state.pending)
=============================================================================
