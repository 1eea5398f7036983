------------------------- MODULE GradeSavingProofs -------------------------
(* Proofs about GradeSaving for any grades, marks, requests and bounds:     *)
(* type correctness; that the writer clears a queue entry only for what is  *)
(* current (AckIsCurrent, from the inductive invariant WriterInv); that     *)
(* only an undo of a mark takes a waiting grade out of the queue; that the  *)
(* recovery is never an older edit (RecoveryIsCurrent, from RecoveryInv);   *)
(* that "All changes saved" is true of a page that waits for each of its    *)
(* requests (AllChangesSaved, from SavedInv); and that, for such a page and *)
(* one write of another program, no grade is overwritten unseen             *)
(* (KnownOverwrite, from KnownInv).                                         *)
EXTENDS GradeSaving, TLAPS

USE GradeAssumption, MarkAssumption, RevisionAssumption

-----------------------------------------------------------------------------
(* The values the helpers build.                                            *)

LEMMA ConstantTypes ==
    /\ Absent \in Documents /\ Garbled \in Documents /\ Offline \in Documents
    /\ NoRow \in Rows /\ NoSession \in Sessions /\ EmptyState \in GradeState
    /\ IdleCmd \in Cmds /\ IdleWriter \in Writers
  BY DEF Absent, Garbled, Offline, Document, Documents, Kind, GradeOrNone,
         NoRow, Rows, NoSession, Sessions, EmptyState, GradeState, IdleCmd,
         Cmds, CmdPc, Arg, IdleWriter, Writers, WriterPc

LEMMA CheckedType ==
    ASSUME NEW s \in GradeState, NEW g \in GradeOrNone
    PROVE  Checked(s, g) \in GradeState
  BY DEF Checked, Conflicting, GradeState, GradeOrNone

\* _check never sets the pending flag, and it leaves the desired grade alone.
LEMMA CheckedPending ==
    ASSUME NEW s \in GradeState, NEW g
    PROVE  /\ Checked(s, g).pending => s.pending
           /\ Checked(s, g).desired = s.desired
  BY DEF Checked, Conflicting, GradeState

LEMMA ReadType ==
    ASSUME TypeOK
    PROVE  ReadSettings \in Documents
  BY ConstantTypes DEF TypeOK, ReadSettings

LEMMA RefreshedType ==
    ASSUME TypeOK
    PROVE  Refreshed \in Rows
  BY ConstantTypes DEF TypeOK, Refreshed, Rows, Documents

LEMMA QueuedType ==
    ASSUME NEW m \in Mark, NEW r \in Revision
    PROVE  Queued(m, r) \in Rows
  BY DEF Queued, Rows

LEMMA BecomeType ==
    ASSUME TypeOK, NEW c \in Client, NEW next \in Cmds, Become(c, next)
    PROVE  cmd' \in [Client -> Cmds]
  BY DEF TypeOK, Become

LEMMA RepliedType ==
    ASSUME NEW s \in GradeState, NEW live \in BOOLEAN
    PROVE  Replied(s, live) \in Cmds
  BY ConstantTypes DEF Replied, IdleCmd, Cmds, CmdPc, GradeState

LEMMA SpendType ==
    ASSUME TypeOK, NEW kind \in Bounds, Spend(kind)
    PROVE  budget' \in [Bounds -> Nat]
  BY DEF TypeOK, Spend

-----------------------------------------------------------------------------
(* Type correctness, one lemma per group of actions.                        *)

LEMMA InitType == Init => TypeOK
  BY ConstantTypes, BoundAssumption
  DEF Init, TypeOK, Documents, Document, Kind, GradeOrNone

LEMMA OpenType ==
    ASSUME TypeOK, NEW c \in Client,
           \/ Attach(c) \/ ChooseRestore(c) \/ ChooseSaved(c)
           \/ LoadBegin(c) \/ LoadOpen(c) \/ LoadStore(c)
           \/ LoadDiscard(c) \/ Gone(c)
    PROVE  TypeOK'
<1> USE ConstantTypes DEF TypeOK
<1>1. CASE Attach(c)
  BY <1>1 DEF Attach, Become, Cmds, CmdPc, IdleCmd, GradeState, Sessions,
              NoSession, Documents
<1>2. CASE ChooseRestore(c)
  BY <1>2 DEF ChooseRestore, Goto, Become, Cmds, CmdPc, db
<1>3. CASE ChooseSaved(c)
  BY <1>3 DEF ChooseSaved, Done, Become, GradeState, GradeOrNone
<1>4. CASE LoadBegin(c)
  <2>1. [cmd[c] EXCEPT !.pc = "loading", !.arg = cmd[c].pc, !.snap = state]
           \in Cmds
    BY <1>4 DEF LoadBegin, Cmds, CmdPc, Arg
  <2> QED BY <1>4, <2>1, BecomeType DEF LoadBegin, db
<1>5. CASE LoadOpen(c)
  <2> DEFINE document == IF cmd[c].arg = "restore" THEN cmd[c].alt
                                                   ELSE cmd[c].grade
  <2>1. document \in GradeOrNone
    BY DEF Cmds
  <2>2. session' \in Sessions
    BY <1>5, <2>1 DEF LoadOpen, Shown, Sessions, GradeOrNone
  <2>3. cmd' \in [Client -> Cmds]
    BY <1>5 DEF LoadOpen, Cmds, CmdPc
  <2> QED BY <1>5, <2>2, <2>3 DEF LoadOpen, db
<1>7. CASE LoadStore(c)
  <2>1. state' \in GradeState
    BY <1>7 DEF LoadStore, Cmds, GradeState
  <2>2. /\ [cmd[c] EXCEPT !.pc = "discard"] \in Cmds
        /\ [IdleCmd EXCEPT !.pc = "offer", !.alt = cmd[c].alt] \in Cmds
    BY DEF Cmds, CmdPc, IdleCmd
  <2>3. cmd' \in [Client -> Cmds]
    BY <1>7, <2>2, BecomeType DEF LoadStore
  <2> QED BY <1>7, <2>1, <2>3 DEF LoadStore
<1>8. CASE LoadDiscard(c)
  BY <1>8 DEF LoadDiscard, Done, Become, GradeState, GradeOrNone
<1>6. CASE Gone(c)
  BY <1>6 DEF Gone, Done, Become, db
<1> QED BY <1>1, <1>2, <1>3, <1>4, <1>5, <1>6, <1>7, <1>8

LEMMA SaveType ==
    ASSUME TypeOK, NEW c \in Client,
           SaveBegin(c) \/ SaveRead(c) \/ SaveConflict(c) \/ SaveCommit(c)
    PROVE  TypeOK'
<1> USE ConstantTypes, ReadType DEF TypeOK
<1>1. CASE SaveBegin(c)
  BY <1>1 DEF SaveBegin, Become, Cmds, CmdPc, IdleCmd, GradeState, Sessions,
              GradeOrNone
<1>2. CASE SaveRead(c)
  BY <1>2 DEF SaveRead, Become, Cmds, CmdPc, db
<1>3. CASE SaveConflict(c)
  BY <1>3, CheckedType DEF SaveConflict, Done, Become, GradeIn, Cmds, Documents
<1>4. CASE SaveCommit(c)
  <2> DEFINE doc == cmd[c].doc
             known == IF Comparable(doc) THEN Checked(state, GradeIn(doc))
                                         ELSE state
  <2>1. doc \in Documents /\ cmd[c].grade \in GradeOrNone
    BY DEF Cmds
  <2>2. known \in GradeState
    BY <2>1, CheckedType DEF GradeIn, Documents
  <2>3. state' \in GradeState
    <3>1. state' = [known EXCEPT !.desired = cmd[c].grade, !.pending = TRUE]
      BY <1>4 DEF SaveCommit
    <3> HIDE DEF known
    <3> QED BY <2>1, <2>2, <3>1 DEF GradeState
  <2>4. row' \in Rows
    <3>1. MarksWith(doc) \in Mark
      BY <2>1 DEF MarksWith, Documents, Rows
    <3> QED BY <1>4, <3>1, QueuedType DEF SaveCommit
  <2>5. session' \in Sessions
    BY <1>4 DEF SaveCommit, Sessions
  <2> QED BY <1>4, <2>3, <2>4, <2>5 DEF SaveCommit, Done, Become
<1> QED BY <1>1, <1>2, <1>3, <1>4

LEMMA CheckType ==
    ASSUME TypeOK, NEW c \in Client,
           CheckBegin(c) \/ CheckRead(c) \/ CheckFinish(c)
    PROVE  TypeOK'
<1> USE ConstantTypes, ReadType DEF TypeOK
<1>1. CASE CheckBegin(c)
  <2>1. \A a \in {"unsaved", "none"} :
           [IdleCmd EXCEPT !.pc = "checkRead", !.grade = state.baseline,
                           !.arg = a] \in Cmds
    BY DEF IdleCmd, Cmds, CmdPc, Arg, GradeState
  <2>2. Replied(state, TRUE) \in Cmds
    BY RepliedType
  <2>3. \E next \in Cmds : Become(c, next)
    BY <1>1, <2>1, <2>2 DEF CheckBegin
  <2> QED BY <1>1, <2>3, BecomeType DEF CheckBegin, db
<1>2. CASE CheckRead(c)
  <2>1. [cmd[c] EXCEPT !.pc = "checkFinish", !.doc = ReadSettings] \in Cmds
    BY DEF Cmds, CmdPc
  <2> QED BY <1>2, <2>1, BecomeType DEF CheckRead, db
<1>3. CASE CheckFinish(c)
  <2>1. GradeIn(cmd[c].doc) \in GradeOrNone /\ cmd[c].live \in BOOLEAN
    BY DEF GradeIn, Cmds, Documents
  <2>2. state' \in GradeState
    BY <1>3, <2>1, CheckedType DEF CheckFinish
  <2>3. /\ [IdleCmd EXCEPT !.pc = "reload",
                           !.grade = GradeIn(cmd[c].doc)] \in Cmds
        /\ Replied(state', cmd[c].live) \in Cmds
    BY <2>1, <2>2, RepliedType DEF IdleCmd, Cmds, CmdPc
  <2>4. \E next \in Cmds : Become(c, next)
    BY <1>3, <2>3 DEF CheckFinish
  <2> QED BY <1>3, <2>2, <2>4, BecomeType DEF CheckFinish
<1> QED BY <1>1, <1>2, <1>3

LEMMA ResolveType ==
    ASSUME TypeOK, NEW c \in Client,
           Answer(c) \/ ResolveRead(c) \/ ResolveVoid(c) \/ ResolveChosen(c)
    PROVE  TypeOK'
<1> USE ConstantTypes, ReadType DEF TypeOK
<1>1. CASE Answer(c)
  <2>1. PICK choice \in {"mine", "file", "cancel"} :
           Become(c, [cmd[c] EXCEPT !.pc = "resolveRead", !.arg = choice])
    BY <1>1 DEF Answer
  <2>2. [cmd[c] EXCEPT !.pc = "resolveRead", !.arg = choice] \in Cmds
    BY DEF Cmds, CmdPc, Arg
  <2> QED BY <1>1, <2>1, <2>2, BecomeType DEF Answer, db
<1>2. CASE ResolveRead(c)
  <2>1. [cmd[c] EXCEPT !.pc = "resolveFinish", !.doc = ReadSettings] \in Cmds
    BY DEF Cmds, CmdPc
  <2> QED BY <1>2, <2>1, BecomeType DEF ResolveRead, Done, db
<1>3. CASE ResolveVoid(c)
  <2>1. GradeIn(cmd[c].doc) \in GradeOrNone
    BY DEF GradeIn, Cmds, Documents
  <2>2. state' \in GradeState
    BY <1>3, <2>1, CheckedType DEF ResolveVoid
  <2> QED BY <1>3, <2>2, BecomeType DEF ResolveVoid, Done
<1>4. CASE ResolveChosen(c)
  <2>1. GradeIn(cmd[c].doc) \in GradeOrNone
    BY DEF GradeIn, Cmds, Documents
  <2>2. PICK g \in GradeOrNone, prev \in GradeOrNone :
           state' = [state EXCEPT !.previous = prev, !.baseline = g, !.conflict = FALSE,
                                  !.pending = FALSE, !.external = None]
    <3>1. session.grade \in GradeOrNone
      BY DEF Sessions, GradeOrNone
    <3> QED BY <1>4, <2>1, <3>1 DEF ResolveChosen
  <2>3. state' \in GradeState
    BY <2>2 DEF GradeState, GradeOrNone
  <2>4. /\ [IdleCmd EXCEPT !.pc = "resave"] \in Cmds
        /\ [IdleCmd EXCEPT !.pc = "reload",
                           !.grade = GradeIn(cmd[c].doc)] \in Cmds
    BY <2>1 DEF IdleCmd, Cmds, CmdPc
  <2> QED BY <1>4, <2>3, <2>4, BecomeType DEF ResolveChosen
<1> QED BY <1>1, <1>2, <1>3, <1>4

LEMMA EditedType ==
    ASSUME NEW s \in Sessions, NEW g \in Grade, NEW d \in BOOLEAN
    PROVE  [s EXCEPT !.grade = g, !.dirty = d, !.rev = @ + 1] \in Sessions
<1>1. s.rev + 1 \in Nat
  BY DEF Sessions
<1> QED BY <1>1 DEF Sessions

LEMMA SessionType ==
    ASSUME TypeOK, \/ \E g \in Grade : Edit(g)
                   \/ Leave \/ LeaveUnsaved
    PROVE  TypeOK'
<1> USE ConstantTypes DEF TypeOK
<1>1. ASSUME NEW g \in Grade, Edit(g)  PROVE TypeOK'
  <2>1. budget' \in [Bounds -> Nat]
    BY <1>1, SpendType DEF Edit, Bounds
  <2>2. session' \in Sessions
    BY <1>1, EditedType DEF Edit
  <2>3. state' \in GradeState
    BY <1>1 DEF Edit, GradeState, GradeOrNone
  <2> QED BY <1>1, <2>1, <2>2, <2>3 DEF Edit
<1>2. ASSUME CloseSession
      PROVE  session' \in Sessions /\ cmd' \in [Client -> Cmds]
  <2>1. \A c \in Client : [cmd[c] EXCEPT !.live = FALSE] \in Cmds
    BY DEF Cmds
  <2> QED BY <1>2, <2>1 DEF CloseSession
<1>3. CASE Leave
  BY <1>2, <1>3 DEF Leave, db
<1>4. CASE LeaveUnsaved
  BY <1>2, <1>4 DEF LeaveUnsaved, GradeState, GradeOrNone
<1> QED BY <1>1, <1>3, <1>4

LEMMA RevertType ==
    ASSUME TypeOK, NEW kind \in {"original", "saved", "previous"},
           Revert(kind)
    PROVE  TypeOK'
<1> USE ConstantTypes DEF TypeOK
<1> DEFINE fileGrade == IF mounted THEN file.grade ELSE state.baseline
           compare == mounted /\ (state.pending \/ session.open)
           current == IF session.open THEN session.grade
                      ELSE IF state.pending THEN state.desired ELSE fileGrade
           target == IF session.open THEN Shown(RevertTarget(kind))
                                     ELSE RevertTarget(kind)
           kept == [state EXCEPT
                       !.previous = current,
                       !.baseline = IF compare \/ @ = fileGrade \/ state.pending
                                    THEN @ ELSE fileGrade]
<1>1. fileGrade \in GradeOrNone /\ current \in GradeOrNone
  BY DEF Documents, GradeState, Sessions, GradeOrNone
<1>2. RevertTarget(kind) \in GradeOrNone
  BY DEF RevertTarget, Documents, GradeState, GradeOrNone
<1>3. /\ target \in GradeOrNone
      /\ session.open => target \in Grade
  BY <1>2 DEF Shown, GradeOrNone
<1>4. kept \in GradeState
  <2>1. (IF compare \/ state.baseline = fileGrade \/ state.pending
         THEN state.baseline ELSE fileGrade) \in GradeOrNone
    BY <1>1 DEF GradeState
  <2> HIDE DEF compare, fileGrade, current
  <2> QED BY <1>1, <2>1 DEF GradeState
<1>5. Refreshed \in Rows
  BY RefreshedType
<1>6. CASE compare /\ Conflicting(state, fileGrade)
  BY <1>1, <1>5, <1>6, CheckedType, Revert(kind) DEF Revert
<1>7. CASE ~(compare /\ Conflicting(state, fileGrade))
  <2>1. budget' \in [Bounds -> Nat]
    BY <1>7, SpendType, Revert(kind) DEF Revert, Bounds
  <2>2. CASE session.open
    <3>1. /\ session' = [session EXCEPT !.grade = target, !.rev = @ + 1,
                                        !.dirty = kind # "saved"]
          /\ state' = [kept EXCEPT !.recovery =
                          IF kind = "saved" THEN None ELSE target]
          /\ row' = Refreshed
          /\ UNCHANGED <<file, mounted, cmd, writer, undo, history>>
      BY <1>7, <2>2, Revert(kind) DEF Revert
    <3> HIDE DEF kept, target
    <3>2. session' \in Sessions
      <4> DEFINE unsaved == kind # "saved"
      <4>1. target \in Grade /\ unsaved \in BOOLEAN
        BY <1>3, <2>2
      <4>2. session' = [session EXCEPT !.grade = target, !.dirty = unsaved,
                                       !.rev = @ + 1]
        BY <3>1
      <4> HIDE DEF unsaved
      <4> QED BY <4>1, <4>2, EditedType
    <3>3. state' \in GradeState
      BY <1>3, <1>4, <3>1 DEF GradeState, GradeOrNone
    <3> QED BY <1>5, <2>1, <3>1, <3>2, <3>3
  <2>3. CASE ~session.open
    <3>1. /\ state' = [kept EXCEPT !.desired = target, !.pending = TRUE]
          /\ \E r \in Revision : row' = Queued(Refreshed.marks, r)
          /\ UNCHANGED <<file, mounted, session, cmd, writer, undo, history>>
      BY <1>7, <2>3, Revert(kind) DEF Revert
    <3> HIDE DEF kept, target
    <3>2. state' \in GradeState
      BY <1>3, <1>4, <3>1 DEF GradeState
    <3>3. row' \in Rows
      <4>1. Refreshed.marks \in Mark
        BY <1>5 DEF Rows
      <4> QED BY <3>1, <4>1, QueuedType
    <3> QED BY <2>1, <3>1, <3>2, <3>3
  <2> QED BY <2>2, <2>3
<1> QED BY <1>6, <1>7

LEMMA FrontType ==
    ASSUME NEW S, NEW s \in Seq(S), Len(s) \in 1..Len(s)
    PROVE  SubSeq(s, 1, Len(s) - 1) \in Seq(S) /\ s[Len(s)] \in S
  OBVIOUS

LEMMA MarksType ==
    ASSUME TypeOK, \/ LibraryRead
                   \/ \E m \in Mark : MarkChange(m)
                   \/ UndoMarks
    PROVE  TypeOK'
<1> USE ConstantTypes, RefreshedType DEF TypeOK
<1> DEFINE Entry == [present : BOOLEAN, marks : Mark]
<1>1. CASE LibraryRead
  BY <1>1 DEF LibraryRead
<1>2. ASSUME NEW m \in Mark, MarkChange(m)  PROVE TypeOK'
  <2>1. row' \in Rows
    BY <1>2, QueuedType DEF MarkChange
  <2>2. [present |-> Refreshed.present, marks |-> Refreshed.marks] \in Entry
    BY DEF Rows
  <2>3. undo' \in Seq(Entry)
    BY <1>2, <2>2 DEF MarkChange
  <2>4. budget' \in [Bounds -> Nat]
    BY <1>2, SpendType DEF MarkChange, Bounds
  <2> QED BY <1>2, <2>1, <2>3, <2>4 DEF MarkChange
<1>3. CASE UndoMarks
  <2>1. undo \in Seq(Entry) /\ Len(undo) \in 1..Len(undo)
    BY <1>3 DEF UndoMarks
  <2>2. undo[Len(undo)] \in Entry
    BY <2>1, FrontType
  <2>3. undo' \in Seq(Entry)
    <3>1. undo' = SubSeq(undo, 1, Len(undo) - 1)
      BY <1>3 DEF UndoMarks
    <3> QED BY <2>1, <3>1, FrontType
  <2>4. row' \in Rows
    <3>1. undo[Len(undo)].marks \in Mark
      BY <2>2
    <3> QED BY <1>3, <3>1, QueuedType DEF UndoMarks
  <2> QED BY <1>3, <2>2, <2>3, <2>4 DEF UndoMarks
<1> QED BY <1>1, <1>2, <1>3

LEMMA WriterType ==
    ASSUME TypeOK, WriterStep
    PROVE  TypeOK'
<1> USE ConstantTypes DEF TypeOK
<1>1. CASE WriterSnapshot
  BY <1>1 DEF WriterSnapshot, IdleWriter, Writers, WriterPc, Rows, db
<1>2. CASE WriterRead
  BY <1>2, ReadType DEF WriterRead, WriterRest, Writers, WriterPc, db
<1>3. CASE WriterMerge
  <2>1. writer.seen.grade \in GradeOrNone /\ state.desired \in GradeOrNone
    BY DEF Writers, Documents, GradeState
  <2>2. state' \in GradeState
    BY <1>3, <2>1, CheckedType DEF WriterMerge, GradeIn
  <2>3. PICK g \in GradeOrNone :
           writer' = [writer EXCEPT !.pc = "prepared",
                                    !.doc = Document("ok", g, writer.marks)]
    BY <1>3, <2>1 DEF WriterMerge, GradeIn
  <2>4. writer' \in Writers
    BY <2>3 DEF Writers, WriterPc, Document, Documents, Kind
  <2> QED BY <1>3, <2>2, <2>4 DEF WriterMerge
<1>4. CASE WriterFault
  BY <1>4, SpendType DEF WriterFault, WriterRest, Bounds, db
<1>5. CASE WriterRecheck
  BY <1>5 DEF WriterRecheck, WriterRest, Writers, WriterPc, db
<1>6. CASE WriterReplace
  BY <1>6 DEF WriterReplace, WriterRest, Writers, WriterPc, db
<1>7. CASE WriterAckGrade
  <2>1. state' \in GradeState
    BY <1>7 DEF WriterAckGrade, GradeState, GradeOrNone
  <2> QED BY <1>7, <2>1 DEF WriterAckGrade, Writers, WriterPc
<1>8. CASE WriterAckQueue
  BY <1>8 DEF WriterAckQueue, WriterRest, Rows
<1> QED BY WriterStep, <1>1, <1>2, <1>3, <1>4, <1>5, <1>6, <1>7, <1>8
        DEF WriterStep

LEMMA EnvironmentType ==
    ASSUME TypeOK, Environment
    PROVE  TypeOK'
<1> USE ConstantTypes DEF TypeOK
<1>1. CASE OtherProgram
  <2>1. PICK next \in {Absent, Garbled}
                \cup [kind : {"ok"}, grade : Grade, marks : {file.marks}] :
           /\ file' = next
           /\ history' = [author |-> "other", shared |-> TRUE, raced |-> writer.pc = "replace",
                          away |-> history.away, marks |-> IF row.pending \/ next.kind = "garbled"
                                    THEN history.marks ELSE next.marks]
    BY <1>1 DEF OtherProgram
  <2>2. next \in Documents
    BY DEF Documents, Kind, GradeOrNone
  <2>3. budget' \in [Bounds -> Nat]
    BY <1>1, SpendType DEF OtherProgram, Bounds
  <2> QED BY <1>1, <2>1, <2>2, <2>3 DEF OtherProgram, Documents, db
<1>2. CASE Unplug
  BY <1>2, SpendType DEF Unplug, Bounds, db
<1>3. CASE Replug
  BY <1>3 DEF Replug, db
<1>4. CASE Crash
  BY <1>4, SpendType DEF Crash, Bounds, db
<1> QED BY Environment, <1>1, <1>2, <1>3, <1>4 DEF Environment

LEMMA NextType ==
    ASSUME TypeOK, [Next]_vars
    PROVE  TypeOK'
<1>1. ASSUME NEW c \in Client, Request(c)  PROVE TypeOK'
  BY <1>1, OpenType, SaveType, CheckType, ResolveType DEF Request
<1>2. CASE User
  BY <1>2, SessionType, RevertType, MarksType DEF User
<1>3. CASE UNCHANGED vars
  BY <1>3 DEF vars, TypeOK
<1> QED BY <1>1, <1>2, <1>3, WriterType, EnvironmentType DEF Next

\* In every behaviour all state keeps its type; in particular the grade an
\* open session shows is a grade, whatever the settings file was read as.
THEOREM TypeCorrect == Spec => []TypeOK
  BY InitType, NextType, PTL DEF Spec

-----------------------------------------------------------------------------
(* The writer's invariant.  A step of anyone but the writer is harmless to  *)
(* it: without the lock it can only end a grade's wait; with the lock it    *)
(* leaves the queued revision, the marks and the waiting grade alone, or it *)
(* queues a revision of its own.  It takes the entry out of the queue only  *)
(* with the row, in an undo, and a grade that begins to wait is queued.     *)

Harmless ==
    /\ writer' = writer
    /\ \/ row' = row /\ (state' = state \/ ~state'.pending)
       \/ /\ Unlocked
          /\ row'.pending /\ row'.rev = writer.rev =>
                /\ row' = row
                /\ state'.pending => state.pending
                                     /\ state'.desired = state.desired
    /\ row.pending /\ ~row'.pending => UndoMarks /\ ~row'.present
    /\ state'.pending => state.pending \/ row'.pending

LEMMA HarmlessKeeps ==
    ASSUME WriterInv, Harmless
    PROVE  WriterInv'
<1>1. CASE row' = row /\ (state' = state \/ ~state'.pending)
  BY <1>1 DEF Harmless, WriterInv, Holds, Unlocked
<1>2. CASE Unlocked /\ ~(row' = row /\ (state' = state \/ ~state'.pending))
  BY <1>2 DEF Harmless, WriterInv, Holds, Unlocked
<1> QED BY <1>1, <1>2 DEF Harmless

\* A new entry of the queue is not the one the writer is working on.
LEMMA QueuedHarmless ==
    ASSUME TypeOK, Unlocked, writer' = writer, NEW m \in Mark,
           \E r \in Revision : Fresh(r) /\ row' = Queued(m, r)
    PROVE  Harmless
  BY DEF Harmless, Fresh, Queued

\* Reading the settings file never touches a queued row.
LEMMA RefreshedHarmless ==
    ASSUME TypeOK
    PROVE  /\ row.pending => Refreshed = row
           /\ Refreshed.pending => Refreshed = row
  BY DEF Refreshed, NoRow

\* A section that changes only the grade's state, and never starts a wait.
LEMMA StateHarmless ==
    ASSUME TypeOK, Unlocked, writer' = writer, row' = Refreshed \/ row' = row,
           state'.pending => state.pending /\ state'.desired = state.desired
    PROVE  Harmless
  BY RefreshedHarmless DEF Harmless

LEMMA RequestHarmless ==
    ASSUME TypeOK, NEW c \in Client, Request(c)
    PROVE  Harmless
<1> USE DEF TypeOK
<1>1. CASE \/ ChooseRestore(c) \/ LoadBegin(c) \/ LoadOpen(c) \/ SaveRead(c)
           \/ CheckBegin(c) \/ CheckRead(c) \/ Answer(c) \/ ResolveRead(c) \/ Gone(c)
  BY <1>1 DEF ChooseRestore, LoadBegin, LoadOpen, SaveRead, CheckBegin, CheckRead,
              Answer, ResolveRead, Gone, Harmless, db
<1>2. CASE Attach(c)
  BY <1>2, StateHarmless DEF Attach, GradeState
<1>3. CASE ChooseSaved(c)
  BY <1>3, StateHarmless DEF ChooseSaved, GradeState
<1>4. CASE LoadStore(c)
  <2>1. state' = state \/ ~state'.pending
    BY <1>4 DEF LoadStore, Cmds, GradeState
  <2> QED BY <1>4, <2>1 DEF LoadStore, Harmless
<1>11. CASE LoadDiscard(c)
  BY <1>11, StateHarmless DEF LoadDiscard, GradeState
<1>5. CASE SaveBegin(c)
  BY <1>5, StateHarmless DEF SaveBegin, GradeState
<1>6. CASE SaveConflict(c)
  BY <1>6, CheckedPending, StateHarmless DEF SaveConflict
<1>7. CASE SaveCommit(c)
  <2>1. MarksWith(cmd[c].doc) \in Mark
    BY DEF MarksWith, Cmds, Documents, Rows
  <2> QED BY <1>7, <2>1, QueuedHarmless DEF SaveCommit
<1>8. CASE CheckFinish(c)
  BY <1>8, CheckedPending, StateHarmless DEF CheckFinish
<1>9. CASE ResolveVoid(c)
  BY <1>9, CheckedPending, StateHarmless DEF ResolveVoid
<1>10. CASE ResolveChosen(c)
  <2>1. state'.pending = FALSE
    BY <1>10 DEF ResolveChosen, GradeState
  <2> QED BY <1>10, <2>1, StateHarmless DEF ResolveChosen
<1> QED BY <1>1, <1>2, <1>3, <1>4, <1>5, <1>6, <1>7, <1>8, <1>9, <1>10,
          <1>11 DEF Request

LEMMA RevertHarmless ==
    ASSUME TypeOK, NEW kind \in {"original", "saved", "previous"},
           Revert(kind)
    PROVE  Harmless
<1> USE DEF TypeOK
<1> DEFINE fileGrade == IF mounted THEN file.grade ELSE state.baseline
           compare == mounted /\ (state.pending \/ session.open)
<1>1. /\ Unlocked /\ writer' = writer
      /\ Refreshed \in Rows
  BY RefreshedType DEF Revert
<1>2. CASE compare /\ Conflicting(state, fileGrade)
  BY <1>1, <1>2, CheckedPending, StateHarmless DEF Revert
<1>3. CASE ~(compare /\ Conflicting(state, fileGrade)) /\ session.open
  <2> DEFINE current == IF session.open THEN session.grade
                        ELSE IF state.pending THEN state.desired ELSE fileGrade
             target == IF session.open THEN Shown(RevertTarget(kind))
                                       ELSE RevertTarget(kind)
             known == IF compare \/ state.baseline = fileGrade \/ state.pending
                      THEN state.baseline ELSE fileGrade
             kept == [state EXCEPT !.previous = current, !.baseline = known]
             recovered == IF kind = "saved" THEN None ELSE target
  <2>1. row' = Refreshed /\ state' = [kept EXCEPT !.recovery = recovered]
    BY <1>3 DEF Revert
  <2>2. state'.pending = state.pending /\ state'.desired = state.desired
    <3> HIDE DEF current, known, recovered
    <3> QED BY <2>1 DEF GradeState
  <2> QED BY <1>1, <2>1, <2>2, StateHarmless
<1>4. CASE ~(compare /\ Conflicting(state, fileGrade)) /\ ~session.open
  <2>1. Refreshed.marks \in Mark
    BY <1>1 DEF Rows
  <2>2. \E r \in Revision : Fresh(r) /\ row' = Queued(Refreshed.marks, r)
    BY <1>4 DEF Revert
  <2> QED BY <1>1, <2>1, <2>2, QueuedHarmless
<1> QED BY <1>2, <1>3, <1>4

LEMMA UserHarmless ==
    ASSUME TypeOK, User
    PROVE  Harmless
<1> USE DEF TypeOK
<1>1. ASSUME NEW g \in Grade, Edit(g)  PROVE Harmless
  BY <1>1, StateHarmless DEF Edit, GradeState
<1>2. CASE Leave
  BY <1>2 DEF Leave, Harmless, db
<1>3. CASE LeaveUnsaved
  BY <1>3, StateHarmless DEF LeaveUnsaved, GradeState
<1>4. CASE LibraryRead
  BY <1>4, StateHarmless DEF LibraryRead
<1>5. ASSUME NEW m \in Mark, MarkChange(m)  PROVE Harmless
  BY <1>5, QueuedHarmless DEF MarkChange
<1>6. CASE UndoMarks
  <2> DEFINE Entry == [present : BOOLEAN, marks : Mark]
  <2>1. undo \in Seq(Entry) /\ Len(undo) \in 1..Len(undo)
    BY <1>6 DEF UndoMarks
  <2>2. undo[Len(undo)].marks \in Mark
    <3>1. undo[Len(undo)] \in Entry
      BY <2>1, FrontType
    <3> QED BY <3>1
  <2>3. CASE row' = NoRow
    BY <1>6, <2>3 DEF UndoMarks, Harmless, NoRow
  <2>4. CASE row' # NoRow
    BY <1>6, <2>2, <2>4, QueuedHarmless DEF UndoMarks
  <2> QED BY <2>3, <2>4
<1> QED BY <1>1, <1>2, <1>3, <1>4, <1>5, <1>6, RevertHarmless DEF User

\* The writer's own steps.
LEMMA WriterKeeps ==
    ASSUME TypeOK, WriterInv, WriterStep
    PROVE  WriterInv'
<1> USE DEF TypeOK, WriterInv, Holds, Unlocked
<1>1. CASE WriterSnapshot
  <2>1. writer'.pc = "read" /\ writer'.marks = row'.marks
    BY <1>1 DEF WriterSnapshot, IdleWriter, db
  <2> QED BY <2>1
<1>2. CASE WriterRead
  <2>1. \/ writer'.pc = "idle"
        \/ /\ writer'.pc = "merge"
           /\ writer'.rev = writer.rev /\ writer'.marks = writer.marks
    <3>1. \/ writer' = IdleWriter
          \/ writer' = [writer EXCEPT !.pc = "merge", !.seen = ReadSettings]
      BY <1>2 DEF WriterRead, WriterRest
    <3>2. writer' = IdleWriter => writer'.pc = "idle"
      BY DEF IdleWriter
    <3> QED BY <3>1, <3>2 DEF Writers
  <2>2. writer.pc = "read" /\ UNCHANGED db
    BY <1>2 DEF WriterRead
  <2> QED BY <2>1, <2>2 DEF db
<1>3. CASE WriterMerge
  <2> DEFINE g == GradeIn(writer.seen)
             mine == state.pending /\ ~Conflicting(state, g)
             doc == Document("ok", IF mine THEN state.desired ELSE g,
                             writer.marks)
  <2>1. /\ writer.pc = "merge" /\ row' = row
        /\ state' = IF state.pending THEN Checked(state, g) ELSE state
        /\ writer' = [writer EXCEPT !.pc = "prepared", !.doc = doc]
    BY <1>3 DEF WriterMerge
  <2>2. state'.pending => mine /\ state'.desired = state.desired
    BY <2>1 DEF Checked, GradeState
  <2>3. /\ writer'.pc = "prepared" /\ writer'.rev = writer.rev
        /\ writer'.marks = writer.marks /\ writer'.doc = doc
    BY <2>1 DEF Writers
  <2>4. doc.marks = writer.marks /\ (mine => doc.grade = state.desired)
    BY DEF Document
  <2> HIDE DEF doc, mine, g
  <2> QED BY <2>1, <2>2, <2>3, <2>4
<1>4. CASE WriterFault
  BY <1>4 DEF WriterFault, WriterRest, IdleWriter, db
<1>5. CASE WriterRecheck
  BY <1>5 DEF WriterRecheck, WriterRest, IdleWriter, Writers, db
<1>6. CASE WriterReplace
  BY <1>6 DEF WriterReplace, WriterRest, IdleWriter, Writers, db
<1>7. CASE WriterAckGrade
  BY <1>7 DEF WriterAckGrade, Writers, GradeState
<1>8. CASE WriterAckQueue
  BY <1>8 DEF WriterAckQueue, WriterRest, IdleWriter
<1> QED BY <1>1, <1>2, <1>3, <1>4, <1>5, <1>6, <1>7, <1>8 DEF WriterStep

LEMMA EnvironmentKeeps ==
    ASSUME TypeOK, WriterInv, Environment
    PROVE  WriterInv'
<1>1. CASE Crash
  BY <1>1 DEF Crash, WriterInv, Holds, Unlocked, IdleWriter
<1>2. CASE OtherProgram \/ Unplug \/ Replug
  <2>1. UNCHANGED <<db, writer>>
    BY <1>2 DEF OtherProgram, Unplug, Replug
  <2> QED BY <2>1 DEF WriterInv, Holds, Unlocked, db
<1> QED BY <1>1, <1>2, Environment DEF Environment

LEMMA NextWriterInv ==
    ASSUME TypeOK, WriterInv, [Next]_vars
    PROVE  WriterInv'
<1>1. ASSUME NEW c \in Client, Request(c)  PROVE WriterInv'
  BY <1>1, RequestHarmless, HarmlessKeeps
<1>2. CASE User
  BY <1>2, UserHarmless, HarmlessKeeps
<1>3. CASE UNCHANGED vars
  BY <1>3 DEF vars, WriterInv, Holds, Unlocked
<1> QED BY <1>1, <1>2, <1>3, WriterKeeps, EnvironmentKeeps DEF Next

\* The writer's invariant holds for any number of requests, grades and marks:
\* while its revision is the queued one, what it writes is what is wanted.
THEOREM WriterHoldsCurrent == Spec => []WriterInv
<1>1. Init => WriterInv
  BY DEF Init, WriterInv, Holds, Unlocked, IdleWriter, NoRow
<1> QED BY <1>1, TypeCorrect, NextWriterInv, PTL DEF Spec

-----------------------------------------------------------------------------
(* The acknowledgement.                                                     *)

LEMMA StepAcknowledges ==
    ASSUME TypeOK, WriterInv, [Next]_vars,
           row.pending, row'.present, ~row'.pending
    PROVE  writer.doc.marks = row.marks /\ ~state'.pending
<1>1. ~Harmless
  BY DEF Harmless
<1>2. row' # row
  OBVIOUS
<1>3. Next
  BY <1>2 DEF vars
<1>4. WriterAckQueue
  BY <1>1, <1>2, <1>3, RequestHarmless, UserHarmless
  DEF Next, Environment, OtherProgram, Unplug, Replug, Crash, WriterStep,
      WriterSnapshot, WriterRead, WriterMerge, WriterFault, WriterRecheck,
      WriterReplace, WriterAckGrade, db
<1> QED BY <1>4 DEF WriterAckQueue, WriterInv, Holds, Unlocked

\* A queue entry is cleared only when the settings file was just given the
\* current marks and no grade waits: mark commands, saves and reverts that run
\* while the writer prepares the file never lose their entry.
THEOREM AcknowledgesCurrent == Spec => AckIsCurrent
<1>1. TypeOK /\ WriterInv /\ [Next]_vars
      => [row.pending /\ row'.present /\ ~row'.pending
          => writer.doc.marks = row.marks /\ ~state'.pending]_vars
  BY StepAcknowledges
<1> QED BY <1>1, TypeCorrect, WriterHoldsCurrent, PTL DEF Spec, AckIsCurrent

-----------------------------------------------------------------------------
(* The queue.                                                               *)

LEMMA StepQueues ==
    ASSUME TypeOK, WriterInv, QueueHoldsGrade, [Next]_vars,
           UndoMarks /\ row.pending => row'.pending
    PROVE  QueueHoldsGrade'
<1> USE DEF QueueHoldsGrade
<1>1. CASE Harmless
  BY <1>1 DEF Harmless
<1>2. CASE WriterStep
  <2>1. CASE WriterAckQueue
    BY <2>1 DEF WriterAckQueue, WriterInv
  <2>2. CASE WriterMerge
    <3>1. state'.pending => state.pending
      BY <2>2 DEF WriterMerge, Checked, GradeState, TypeOK
    <3> QED BY <2>2, <3>1 DEF WriterMerge
  <2>3. CASE WriterAckGrade
    <3>1. state'.pending => state.pending
      BY <2>3 DEF WriterAckGrade, GradeState, TypeOK
    <3> QED BY <2>3, <3>1 DEF WriterAckGrade
  <2>4. CASE \/ WriterSnapshot \/ WriterRead \/ WriterFault \/ WriterRecheck
             \/ WriterReplace
    BY <2>4 DEF WriterSnapshot, WriterRead, WriterFault, WriterRecheck,
                WriterReplace, db
  <2> QED BY <1>2, <2>1, <2>2, <2>3, <2>4 DEF WriterStep
<1>3. CASE Environment
  BY <1>3 DEF Environment, OtherProgram, Unplug, Replug, Crash, db
<1>4. CASE UNCHANGED vars
  BY <1>4 DEF vars
<1> QED BY <1>1, <1>2, <1>3, <1>4, RequestHarmless, UserHarmless DEF Next

\* A grade that waits is in the durable queue, whatever requests, marks, other
\* programs, failures and crashes come between, as long as no undo of a mark
\* deletes the row of a photo that is queued. The undo of a first rating may
\* (the run of QueueHoldsGrade that is violated); it is the only step that does.
THEOREM OnlyUndoUnqueues ==
    Spec /\ [][UndoMarks /\ row.pending => row'.pending]_vars => []QueueHoldsGrade
<1>1. Init => QueueHoldsGrade
  BY DEF Init, QueueHoldsGrade, EmptyState
<1>2. /\ TypeOK /\ WriterInv /\ QueueHoldsGrade /\ [Next]_vars
      /\ [UndoMarks /\ row.pending => row'.pending]_vars
      => QueueHoldsGrade'
  <2>1. CASE UNCHANGED vars
    BY <2>1 DEF vars, QueueHoldsGrade
  <2>2. CASE ~UNCHANGED vars
    BY <2>2, StepQueues
  <2> QED BY <2>1, <2>2
<1> QED BY <1>1, <1>2, TypeCorrect, WriterHoldsCurrent, PTL DEF Spec

-----------------------------------------------------------------------------
(* The recovery, for any number of overlapping requests: RecoveryInv.       *)

LEMMA CheckedRecovery ==
    ASSUME NEW s \in GradeState, NEW g
    PROVE  Checked(s, g).recovery = s.recovery
  BY DEF Checked, GradeState

OpeningPc == {"adopt", "offer", "restore", "loading", "storing", "discard"}

\* A request that moves outside the opening of a photo: it leaves the recovery
\* alone and stays over if it was, or it has an open photo that nobody opens.
LEMMA QuietStep ==
    ASSUME TypeOK, RecoveryInv, NEW c \in Client, NEW next \in Cmds,
           Become(c, next), cmd[c].pc \notin OpeningPc,
           next.pc \notin OpeningPc,
           session' = session \/ session' = [session EXCEPT !.dirty = FALSE],
           \/ /\ state'.recovery = state.recovery
              /\ Over(c) => next.pc = "idle" \/ ~next.live
           \/ /\ session.open /\ ~Opening
              /\ state'.recovery \in {state.recovery, session.grade, None}
    PROVE  RecoveryInv'
<1> USE DEF RecoveryInv, OpeningPc
<1>1. /\ cmd'[c] = next
      /\ \A d \in Client : d # c => cmd'[d] = cmd[d]
  BY DEF TypeOK, Become
<1>2. /\ session'.open = session.open /\ session'.grade = session.grade
      /\ session'.dirty => session.dirty
  BY DEF TypeOK, Sessions
<1>3. /\ ~Opens(c) /\ ~Opens(c)'
      /\ \A d \in Client : Opens(d)' <=> Opens(d)
  BY <1>1 DEF Opens
<1>4. Opening' <=> Opening
  BY <1>1 DEF Opening
<1>5. \A d \in Client : Opens(d) => Opening
  BY DEF Opens, Opening
<1>6. \A d \in Client : d # c => (Over(d)' <=> Over(d))
  BY <1>1 DEF Over
<1>7. \/ state'.recovery = state.recovery /\ (Over(c) => Over(c)')
      \/ session.open /\ ~Opening
  BY <1>1 DEF Over
<1>8. RecoveryIsCurrent'
  BY <1>2, <1>4 DEF RecoveryIsCurrent
<1>9. LeftAlone'
  BY <1>2, <1>6, <1>7 DEF LeftAlone
<1>10. OpensAlone'
  BY <1>3, <1>5, <1>6, <1>7 DEF OpensAlone
<1>11. OfferIsRecovery'
  <2> SUFFICES ASSUME NEW d \in Client, Opens(d)'
               PROVE  /\ Restoring(d)' => cmd'[d].alt # None
                      /\ cmd'[d].alt # None =>
                            /\ state'.recovery \in {cmd'[d].alt, None}
                            /\ cmd'[d].pc \in {"loading", "storing"} =>
                                  cmd'[d].snap.recovery \in {cmd'[d].alt, None}
    BY DEF OfferIsRecovery
  <2>1. Opens(d) /\ cmd'[d] = cmd[d]
    BY <1>1, <1>3
  <2>2. state'.recovery = state.recovery
    BY <1>5, <1>7, <2>1
  <2> QED BY <2>1, <2>2 DEF OfferIsRecovery, Restoring
<1>12. OpensClean'
  BY <1>1, <1>2, <1>4 DEF OpensClean
<1> QED BY <1>8, <1>9, <1>10, <1>11, <1>12

\* A step of somebody else than a request: the recovery is kept or cleared, or
\* it becomes that of the edited photo.
LEMMA StillStep ==
    ASSUME TypeOK, RecoveryInv, cmd' = cmd,
           \/ session' = session /\ state'.recovery \in {state.recovery, None}
           \/ /\ ~Opening /\ session.open /\ session'.open
              /\ session'.dirty => state'.recovery \in {session'.grade, None}
    PROVE  RecoveryInv'
<1> USE DEF RecoveryInv
<1>1. \A d \in Client : /\ Opens(d)' <=> Opens(d)
                        /\ Over(d)' <=> Over(d)
                        /\ Restoring(d)' <=> Restoring(d)
  BY DEF Opens, Over, Restoring
<1>2. Opening' <=> Opening
  BY DEF Opening
<1>3. \A d \in Client : Opens(d) => Opening
  BY DEF Opens, Opening
<1>4. RecoveryIsCurrent' /\ LeftAlone' /\ OpensAlone' /\ OpensClean'
  BY <1>1, <1>2 DEF RecoveryIsCurrent, LeftAlone, OpensAlone, OpensClean
<1>5. OfferIsRecovery'
  BY <1>1, <1>3 DEF OfferIsRecovery
<1> QED BY <1>4, <1>5

\* A photo that is closed leaves only requests that are over.
LEMMA ClosingStep ==
    ASSUME RecoveryInv, session' = NoSession,
           \A d \in Client : Over(d)'
    PROVE  RecoveryInv'
<1>1. ~session'.open /\ ~session'.dirty
  BY DEF NoSession
<1>2. \A d \in Client : ~Opens(d)'
  BY DEF Over, Opens
<1> QED
  BY <1>1, <1>2 DEF RecoveryInv, RecoveryIsCurrent, LeftAlone, OpensAlone,
                    OfferIsRecovery, OpensClean

\* Opening a photo that nothing has open: everything else is over.
LEMMA AttachRecovery ==
    ASSUME TypeOK, RecoveryInv, NEW c \in Client, Attach(c)
    PROVE  RecoveryInv'
<1> USE DEF RecoveryInv
<1>1. /\ session'.open /\ ~session'.dirty
      /\ \A d \in Client : d # c => cmd'[d] = cmd[d] /\ Over(d)
  BY DEF Attach, Become, NoSession, LeftAlone, TypeOK
<1>2. /\ state'.recovery = state.recovery
      /\ cmd'[c].pc \in {"adopt", "offer", "idle"}
      /\ cmd'[c].alt \in {state.recovery, None}
      /\ cmd'[c].pc = "offer" => cmd'[c].alt # None
  BY DEF Attach, Become, TypeOK, GradeState, IdleCmd
<1>3. \A d \in Client : d # c => Over(d)' /\ ~Opens(d)'
  BY <1>1 DEF Over, Opens
<1>4. ~(cmd'[c].pc \in {"loading", "storing", "restore"})
  BY <1>2
<1>5. RecoveryIsCurrent' /\ LeftAlone' /\ OpensClean'
  BY <1>1 DEF RecoveryIsCurrent, LeftAlone, OpensClean
<1>6. OpensAlone'
  BY <1>3 DEF OpensAlone
<1>7. OfferIsRecovery'
  BY <1>2, <1>3, <1>4 DEF OfferIsRecovery, Restoring
<1> QED BY <1>5, <1>6, <1>7

\* While a request is at a step of opening that is not the storing of an offer
\* the session is clean.
LEMMA OpensAloneClean ==
    ASSUME RecoveryInv, NEW c \in Client, cmd[c].pc \in OpeningPc, Opening,
           ~(cmd[c].pc = "storing" /\ cmd[c].arg = "restore")
    PROVE  ~session.dirty
<1>1. ~Over(c)
  BY DEF Over, OpeningPc
<1>2. \A d \in Client : Opens(d) => d = c
  BY <1>1 DEF RecoveryInv, OpensAlone
<1> QED
  BY <1>2 DEF RecoveryInv, OpensClean, Opens

\* The steps that end in a state where c alone may open the photo.
LEMMA ChooseRecovery ==
    ASSUME TypeOK, RecoveryInv, NEW c \in Client,
           ChooseRestore(c) \/ ChooseSaved(c) \/ LoadDiscard(c)
    PROVE  RecoveryInv'
<1> USE DEF RecoveryInv
<1>1. /\ cmd[c].pc \in {"adopt", "offer", "discard"} /\ session' = session
      /\ \A d \in Client : d # c => cmd'[d] = cmd[d]
  BY DEF ChooseRestore, ChooseSaved, LoadDiscard, Goto, Become, Done, TypeOK
<1>2. ~Over(c) /\ Opening
  BY <1>1 DEF Over, Opening
<1>3. ~session.dirty
  BY <1>1, <1>2, OpensAloneClean DEF OpeningPc
<1>4. \A d \in Client : d # c => ~Opens(d) /\ ~Opens(d)' /\ (Over(d) <=> Over(d)')
  BY <1>1, <1>2 DEF OpensAlone, Opens, Over
<1>5. /\ session.open
      /\ RecoveryIsCurrent' /\ LeftAlone' /\ OpensClean'
  BY <1>1, <1>2, <1>3 DEF RecoveryIsCurrent, LeftAlone, OpensClean
<1>6. /\ Opens(c)' => Opens(c) /\ cmd'[c].pc = "restore"
      /\ Opens(c)' => state' = state /\ cmd'[c].alt = cmd[c].alt /\ cmd[c].alt # None
  BY DEF ChooseRestore, ChooseSaved, LoadDiscard, Goto, Become, Done, Opens,
         TypeOK, Cmds, IdleCmd, db
<1>7. OpensAlone'
  BY <1>4, <1>6 DEF OpensAlone
<1>8. OfferIsRecovery'
  BY <1>4, <1>6 DEF OfferIsRecovery
<1> QED BY <1>5, <1>7, <1>8

LEMMA LoadBeginRecovery ==
    ASSUME TypeOK, RecoveryInv, NEW c \in Client, LoadBegin(c)
    PROVE  RecoveryInv'
<1> USE DEF RecoveryInv
<1>1. /\ cmd[c].pc \in {"adopt", "restore", "reload"} /\ cmd[c].live
      /\ session' = session /\ state' = state
      /\ \A d \in Client : d # c => cmd'[d] = cmd[d]
      /\ cmd'[c].pc = "loading" /\ cmd'[c].arg = cmd[c].pc
      /\ cmd'[c].alt = cmd[c].alt /\ cmd'[c].snap = state
  BY DEF LoadBegin, Become, TypeOK, Cmds, db
<1>2. ~Over(c) /\ session.open
  BY <1>1 DEF Over, LeftAlone
<1>3. \A d \in Client : d # c => ~Opens(d) /\ ~Opens(d)' /\ (Over(d) <=> Over(d)')
  BY <1>1, <1>2 DEF OpensAlone, Opens, Over
<1>4. /\ Opens(c)' <=> Opens(c)
      /\ Restoring(c)' <=> Restoring(c)
  BY <1>1 DEF Opens, Restoring
<1>5. Opening' <=> Opening
  BY <1>1 DEF Opening
<1>6. Opening => ~session.dirty
  BY <1>1, <1>3 DEF OpensClean, Opens
<1>7. RecoveryIsCurrent' /\ LeftAlone' /\ OpensClean'
  BY <1>1, <1>2, <1>5, <1>6 DEF RecoveryIsCurrent, LeftAlone, OpensClean
<1>8. OpensAlone'
  BY <1>3, <1>4 DEF OpensAlone
<1>9. OfferIsRecovery'
  BY <1>1, <1>3, <1>4 DEF OfferIsRecovery
<1> QED BY <1>7, <1>8, <1>9

LEMMA LoadOpenRecovery ==
    ASSUME TypeOK, RecoveryInv, NEW c \in Client, LoadOpen(c)
    PROVE  RecoveryInv'
<1> USE DEF RecoveryInv
<1>1. /\ cmd[c].pc = "loading" /\ state' = state
      /\ session'.open
      /\ session'.dirty <=> cmd[c].arg = "restore"
      /\ cmd[c].arg = "restore" => session'.grade = Shown(cmd[c].alt)
  BY DEF LoadOpen, db
<1>2. /\ cmd'[c].pc = "storing" /\ cmd'[c].arg = cmd[c].arg
      /\ cmd'[c].alt = cmd[c].alt /\ cmd'[c].snap = cmd[c].snap
      /\ \A d \in Client : d # c => /\ cmd'[d].pc = cmd[d].pc
                                    /\ cmd'[d].arg = cmd[d].arg
                                    /\ cmd'[d].live => cmd[d].live
  BY DEF LoadOpen, TypeOK, Cmds
<1>3. ~Over(c)
  BY <1>1 DEF Over
<1>4. \A d \in Client : d # c => ~Opens(d)' /\ (Over(d) => Over(d)')
  BY <1>2, <1>3 DEF OpensAlone, Opens, Over
<1>5. /\ Opens(c)' <=> Opens(c)
      /\ Restoring(c)' <=> Restoring(c)
  BY <1>1, <1>2 DEF Opens, Restoring
<1>6. Opening'
  BY <1>2 DEF Opening
<1>7. cmd[c].arg = "restore" => session'.grade = cmd'[c].alt
  BY <1>1, <1>2 DEF OfferIsRecovery, Opens, Restoring, Shown
<1>8. RecoveryIsCurrent' /\ LeftAlone' /\ OpensClean'
  BY <1>1, <1>2, <1>6, <1>7 DEF RecoveryIsCurrent, LeftAlone, OpensClean
<1>9. OpensAlone'
  BY <1>4, <1>5 DEF OpensAlone
<1>10. OfferIsRecovery'
  BY <1>1, <1>2, <1>4, <1>5 DEF OfferIsRecovery
<1> QED BY <1>8, <1>9, <1>10

LEMMA LoadStoreRecovery ==
    ASSUME TypeOK, RecoveryInv, NEW c \in Client, LoadStore(c)
    PROVE  RecoveryInv'
<1> USE DEF RecoveryInv
<1>1. /\ cmd[c].pc = "storing" /\ session' = session
      /\ \A d \in Client : d # c => cmd'[d] = cmd[d]
  BY DEF LoadStore, Become, TypeOK
<1>2. ~Over(c) /\ Opening /\ session.open
  BY <1>1 DEF Over, Opening, LeftAlone
<1>3. \A d \in Client : d # c => ~Opens(d) /\ ~Opens(d)' /\ (Over(d) <=> Over(d)')
  BY <1>1, <1>2 DEF OpensAlone, Opens, Over
<1>4. /\ cmd[c].arg = "restore" => state' = state
      /\ state'.recovery \in {state.recovery, cmd[c].snap.recovery}
  BY DEF LoadStore, TypeOK, Cmds, GradeState
<1>5. /\ cmd'[c].pc \in {"discard", "offer", "idle"}
      /\ cmd'[c].pc = "discard" => cmd[c].arg = "reload"
      /\ cmd'[c].pc = "offer" => cmd'[c].alt = cmd[c].alt /\ cmd[c].alt # None
                                 /\ cmd[c].arg = "adopt"
  BY DEF LoadStore, Become, TypeOK, Cmds, IdleCmd
<1>6. cmd[c].arg # "restore" => ~session.dirty
  BY <1>1, <1>2, OpensAloneClean DEF OpeningPc
<1>7. cmd[c].arg = "restore" /\ session.dirty =>
         session.grade = cmd[c].alt /\ state'.recovery \in {cmd[c].alt, None}
  BY <1>1, <1>2, <1>3, <1>4 DEF OpensClean, OfferIsRecovery, Opens, Restoring
<1>8. RecoveryIsCurrent'
  BY <1>1, <1>6, <1>7 DEF RecoveryIsCurrent
<1>9. LeftAlone'
  BY <1>1, <1>2 DEF LeftAlone
<1>10. OpensClean'
  <2> SUFFICES ASSUME Opening', session'.dirty  PROVE FALSE
    BY DEF OpensClean
  <2>1. cmd[c].arg = "restore"
    BY <1>1, <1>6
  <2>2. cmd'[c].pc = "idle"
    BY <1>5, <2>1
  <2>3. \A d \in Client : d # c => Over(d)
    BY <1>1, <2>1 DEF OpensAlone, Opens
  <2> QED BY <1>1, <2>2, <2>3 DEF Opening, Over
<1>11. OpensAlone'
  BY <1>1, <1>3, <1>5 DEF OpensAlone, Opens
<1>12. OfferIsRecovery'
  <2> SUFFICES ASSUME Opens(c)'
               PROVE  /\ Restoring(c)' => cmd'[c].alt # None
                      /\ cmd'[c].alt # None =>
                            /\ state'.recovery \in {cmd'[c].alt, None}
                            /\ cmd'[c].pc \in {"loading", "storing"} =>
                                  cmd'[c].snap.recovery \in {cmd'[c].alt, None}
    BY <1>3 DEF OfferIsRecovery
  <2>1. cmd'[c].pc = "offer"
    BY <1>5 DEF Opens
  <2> QED BY <1>1, <1>4, <1>5, <2>1 DEF OfferIsRecovery, Opens
<1> QED BY <1>8, <1>9, <1>10, <1>11, <1>12

\* Saves, checks and answers, each a quiet step.
LEMMA SaveRecovery ==
    ASSUME TypeOK, RecoveryInv, NEW c \in Client,
           SaveBegin(c) \/ SaveRead(c) \/ SaveConflict(c) \/ SaveCommit(c)
    PROVE  RecoveryInv'
<1> USE ConstantTypes, ReadType DEF TypeOK, OpeningPc
<1>0. cmd[c] \in Cmds /\ IdleCmd.pc = "idle"
  BY DEF IdleCmd
<1>1. CASE SaveBegin(c)
  <2> DEFINE next == [IdleCmd EXCEPT !.pc = "saveRead", !.grade = session.grade,
                                     !.rev = session.rev]
  <2>1. next \in Cmds /\ next.pc = "saveRead"
    BY DEF Cmds, CmdPc, IdleCmd, Sessions, GradeOrNone
  <2>2. Become(c, next) /\ session' = session /\ session.open /\ ~Opening
    BY <1>1 DEF SaveBegin
  <2>3. cmd[c].pc \in {"idle", "resave"} /\ state'.recovery = session.grade
    BY <1>1 DEF SaveBegin, GradeState
  <2> HIDE DEF next
  <2> QED BY <2>1, <2>2, <2>3, QuietStep
<1>2. CASE SaveRead(c)
  <2> DEFINE next == [cmd[c] EXCEPT !.pc = "saveCommit", !.doc = ReadSettings]
  <2>1. /\ next \in Cmds /\ next.pc = "saveCommit"
        /\ next.live = cmd[c].live
    BY <1>0 DEF Cmds, CmdPc
  <2>2. /\ Become(c, next) /\ session' = session /\ state' = state
        /\ cmd[c].pc = "saveRead"
    BY <1>2 DEF SaveRead, db
  <2>3. Over(c) => ~next.live
    BY <2>1, <2>2 DEF Over
  <2> HIDE DEF next
  <2> QED BY <2>1, <2>2, <2>3, QuietStep
<1>3. CASE SaveConflict(c)
  <2>1. state'.recovery = state.recovery
    BY <1>3, CheckedRecovery DEF SaveConflict
  <2> QED BY <1>0, <1>3, <2>1, QuietStep DEF SaveConflict, Done
<1>4. CASE SaveCommit(c)
  <2> DEFINE doc == cmd[c].doc
             known == IF Comparable(doc) THEN Checked(state, GradeIn(doc))
                                         ELSE state
  <2>1. known \in GradeState /\ known.recovery = state.recovery
    BY <1>0, CheckedType, CheckedRecovery DEF GradeIn, Documents, Cmds
  <2>2. state' = [known EXCEPT !.desired = cmd[c].grade, !.pending = TRUE]
    BY <1>4 DEF SaveCommit
  <2> HIDE DEF known
  <2>3. state'.recovery = state.recovery
    BY <2>1, <2>2 DEF GradeState
  <2>4. session' = session \/ session' = [session EXCEPT !.dirty = FALSE]
    BY <1>4 DEF SaveCommit
  <2>5. cmd[c].pc = "saveCommit" /\ Become(c, IdleCmd)
    BY <1>4 DEF SaveCommit, Done
  <2> QED BY <1>0, <2>3, <2>4, <2>5, QuietStep
<1> QED BY <1>1, <1>2, <1>3, <1>4

LEMMA RepliedRecovery ==
    ASSUME NEW s \in GradeState, NEW live \in BOOLEAN
    PROVE  /\ Replied(s, live) \in Cmds
           /\ Replied(s, live).pc \in {"idle", "asking"}
           /\ ~live => Replied(s, live).pc = "idle"
<1>1. /\ Replied(s, live).pc \in {"idle", "asking"}
      /\ ~live => Replied(s, live).pc = "idle"
  BY DEF Replied, IdleCmd
<1> QED BY <1>1, RepliedType

LEMMA CheckRecovery ==
    ASSUME TypeOK, RecoveryInv, NEW c \in Client,
           CheckBegin(c) \/ CheckRead(c) \/ CheckFinish(c)
    PROVE  RecoveryInv'
<1> USE ConstantTypes, ReadType DEF TypeOK, OpeningPc
<1>0. cmd[c] \in Cmds
  OBVIOUS
<1>1. CASE CheckBegin(c)
  <2>1. PICK next \in Cmds : Become(c, next) /\ next.pc \in {"checkRead", "idle", "asking"}
    <3>1. CASE mounted
      <4>1. PICK unsaved \in BOOLEAN :
               Become(c, [IdleCmd EXCEPT !.pc = "checkRead",
                             !.grade = state.baseline,
                             !.arg = IF unsaved THEN "unsaved" ELSE "none"])
        BY <1>1, <3>1 DEF CheckBegin
      <4>2. /\ [IdleCmd EXCEPT !.pc = "checkRead", !.grade = state.baseline,
                   !.arg = IF unsaved THEN "unsaved" ELSE "none"] \in Cmds
            /\ [IdleCmd EXCEPT !.pc = "checkRead", !.grade = state.baseline,
                   !.arg = IF unsaved THEN "unsaved" ELSE "none"].pc = "checkRead"
        BY DEF Cmds, CmdPc, Arg, IdleCmd, GradeState
      <4> QED BY <4>1, <4>2
    <3>2. CASE ~mounted
      BY <1>1, <3>2, RepliedRecovery DEF CheckBegin
    <3> QED BY <3>1, <3>2
  <2>2. /\ session' = session /\ state' = state /\ session.open /\ ~Opening
        /\ cmd[c].pc = "idle"
    BY <1>1 DEF CheckBegin, db
  <2> QED BY <2>1, <2>2, QuietStep
<1>2. CASE CheckRead(c)
  <2> DEFINE next == [cmd[c] EXCEPT !.pc = "checkFinish", !.doc = ReadSettings]
  <2>1. /\ next \in Cmds /\ next.pc = "checkFinish"
        /\ next.live = cmd[c].live
    BY <1>0 DEF Cmds, CmdPc
  <2>2. /\ Become(c, next) /\ session' = session /\ state' = state
        /\ cmd[c].pc = "checkRead"
    BY <1>2 DEF CheckRead, db
  <2>3. Over(c) => ~next.live
    BY <2>1, <2>2 DEF Over
  <2> HIDE DEF next
  <2> QED BY <2>1, <2>2, <2>3, QuietStep
<1>3. CASE CheckFinish(c)
  <2> DEFINE g == GradeIn(cmd[c].doc)
  <2>1. g \in GradeOrNone /\ cmd[c].live \in BOOLEAN
    BY <1>0 DEF GradeIn, Documents, Cmds
  <2>2. PICK next \in {state, Checked(state, g)} :
           /\ state' = next
           /\ \/ /\ cmd[c].live
                 /\ Become(c, [IdleCmd EXCEPT !.pc = "reload", !.grade = g])
              \/ Become(c, Replied(next, cmd[c].live))
    BY <1>3 DEF CheckFinish
  <2> HIDE DEF g
  <2>3. next \in GradeState /\ state'.recovery = state.recovery
    BY <2>1, <2>2, CheckedType, CheckedRecovery
  <2>4. session' = session /\ cmd[c].pc = "checkFinish"
    BY <1>3 DEF CheckFinish
  <2>5. Over(c) => ~cmd[c].live
    BY <2>4 DEF Over
  <2>6. /\ [IdleCmd EXCEPT !.pc = "reload", !.grade = g] \in Cmds
        /\ [IdleCmd EXCEPT !.pc = "reload", !.grade = g].pc = "reload"
    BY <2>1 DEF Cmds, CmdPc, IdleCmd
  <2>7. CASE cmd[c].live /\ Become(c, [IdleCmd EXCEPT !.pc = "reload", !.grade = g])
    BY <2>3, <2>4, <2>5, <2>6, <2>7, QuietStep
  <2>8. CASE Become(c, Replied(next, cmd[c].live))
    BY <2>1, <2>3, <2>4, <2>5, <2>8, QuietStep, RepliedRecovery
  <2> QED BY <2>2, <2>7, <2>8
<1> QED BY <1>1, <1>2, <1>3

LEMMA ResolveRecovery ==
    ASSUME TypeOK, RecoveryInv, NEW c \in Client,
           \/ Answer(c) \/ ResolveRead(c) \/ ResolveVoid(c)
           \/ ResolveChosen(c) \/ Gone(c)
    PROVE  RecoveryInv'
<1> USE ConstantTypes, ReadType DEF TypeOK, OpeningPc
<1>0. cmd[c] \in Cmds /\ IdleCmd.pc = "idle"
  BY DEF IdleCmd
<1>1. CASE Answer(c)
  <2>1. PICK choice \in {"mine", "file", "cancel"} :
           Become(c, [cmd[c] EXCEPT !.pc = "resolveRead", !.arg = choice])
    BY <1>1 DEF Answer
  <2> DEFINE next == [cmd[c] EXCEPT !.pc = "resolveRead", !.arg = choice]
  <2>2. /\ next \in Cmds /\ next.pc = "resolveRead"
        /\ next.live = cmd[c].live
    BY <1>0 DEF Cmds, CmdPc, Arg
  <2>3. /\ Become(c, next) /\ session' = session /\ state' = state
        /\ cmd[c].pc = "asking"
    BY <1>1, <2>1 DEF Answer, db
  <2>4. Over(c) => ~next.live
    BY <2>2, <2>3 DEF Over
  <2> HIDE DEF next
  <2> QED BY <2>2, <2>3, <2>4, QuietStep
<1>2. CASE ResolveRead(c)
  <2> DEFINE next == [cmd[c] EXCEPT !.pc = "resolveFinish", !.doc = ReadSettings]
  <2>1. /\ next \in Cmds /\ next.pc = "resolveFinish"
        /\ next.live = cmd[c].live
    BY <1>0 DEF Cmds, CmdPc
  <2>2. /\ Become(c, next) \/ Become(c, IdleCmd)
        /\ session' = session /\ state' = state
        /\ cmd[c].pc = "resolveRead"
    BY <1>2 DEF ResolveRead, Done, db
  <2>3. Over(c) => ~next.live
    BY <2>1, <2>2 DEF Over
  <2> HIDE DEF next
  <2>4. CASE Become(c, next)
    BY <2>1, <2>2, <2>3, <2>4, QuietStep
  <2>5. CASE Become(c, IdleCmd)
    BY <1>0, <2>2, <2>5, QuietStep
  <2> QED BY <2>2, <2>4, <2>5
<1>3. CASE ResolveVoid(c)
  <2>1. state'.recovery = state.recovery
    BY <1>3, CheckedRecovery DEF ResolveVoid
  <2> QED BY <1>0, <1>3, <2>1, QuietStep DEF ResolveVoid, Done
<1>4. CASE ResolveChosen(c)
  <2> DEFINE mine == [IdleCmd EXCEPT !.pc = "resave"]
             theirs == [IdleCmd EXCEPT !.pc = "reload",
                                       !.grade = GradeIn(cmd[c].doc)]
  <2>1. /\ mine \in Cmds /\ mine.pc = "resave"
        /\ theirs \in Cmds /\ theirs.pc = "reload"
    BY <1>0 DEF Cmds, CmdPc, IdleCmd, GradeIn, Documents
  <2>2. /\ Become(c, mine) \/ Become(c, theirs)
        /\ session' = session /\ cmd[c].pc = "resolveFinish" /\ cmd[c].live
    BY <1>4 DEF ResolveChosen
  <2>3. state'.recovery = state.recovery
    BY <1>4 DEF ResolveChosen, GradeState
  <2>4. ~Over(c)
    BY <2>2 DEF Over
  <2> HIDE DEF mine, theirs
  <2>5. CASE Become(c, mine)
    BY <2>1, <2>2, <2>3, <2>4, <2>5, QuietStep
  <2>6. CASE Become(c, theirs)
    BY <2>1, <2>2, <2>3, <2>4, <2>6, QuietStep
  <2> QED BY <2>2, <2>5, <2>6
<1>5. CASE Gone(c)
  BY <1>0, <1>5, QuietStep DEF Gone, Done, db
<1> QED BY <1>1, <1>2, <1>3, <1>4, <1>5

LEMMA RequestRecovery ==
    ASSUME TypeOK, RecoveryInv, NEW c \in Client, Request(c)
    PROVE  RecoveryInv'
  BY AttachRecovery, ChooseRecovery, LoadBeginRecovery, LoadOpenRecovery,
     LoadStoreRecovery, SaveRecovery, CheckRecovery, ResolveRecovery
  DEF Request

\* Leaving the photo: what is under way has lost it.
LEMMA LeaveRecovery ==
    ASSUME TypeOK, RecoveryInv, Leave \/ LeaveUnsaved
    PROVE  RecoveryInv'
<1>1. CloseSession /\ ~Loading /\ ~Opening
  BY DEF Leave, LeaveUnsaved
<1>2. ASSUME NEW d \in Client  PROVE Over(d)'
  BY <1>1 DEF CloseSession, Loading, Opening, Over, TypeOK, Cmds, IdleCmd
<1> QED BY <1>1, <1>2, ClosingStep DEF CloseSession

LEMMA RevertRecovery ==
    ASSUME TypeOK, RecoveryInv, NEW kind \in {"original", "saved", "previous"},
           Revert(kind)
    PROVE  RecoveryInv'
<1> USE DEF TypeOK
<1> DEFINE fileGrade == IF mounted THEN file.grade ELSE state.baseline
           compare == mounted /\ (state.pending \/ session.open)
           target == IF session.open THEN Shown(RevertTarget(kind))
                                     ELSE RevertTarget(kind)
<1>1. cmd' = cmd /\ ~Opening
  BY DEF Revert
<1>2. CASE compare /\ Conflicting(state, fileGrade)
  <2>1. state' = Checked(state, fileGrade) /\ session' = session
    BY <1>2 DEF Revert
  <2> QED BY <1>1, <2>1, CheckedRecovery, StillStep
<1>3. CASE ~(compare /\ Conflicting(state, fileGrade))
  <2>1. CASE session.open
    <3>1. /\ session' = [session EXCEPT !.grade = target, !.rev = @ + 1,
                                        !.dirty = kind # "saved"]
          /\ state'.recovery = IF kind = "saved" THEN None ELSE target
      BY <1>3, <2>1 DEF Revert, GradeState
    <3> HIDE DEF target
    <3>2. session'.open /\ session'.grade = target
      BY <2>1, <3>1 DEF Sessions
    <3> QED BY <1>1, <2>1, <3>1, <3>2, StillStep
  <2>2. CASE ~session.open
    <3>1. session' = session /\ state'.recovery = state.recovery
      BY <1>3, <2>2 DEF Revert, GradeState
    <3> QED BY <1>1, <3>1, StillStep
  <2> QED BY <2>1, <2>2
<1> QED BY <1>2, <1>3

LEMMA UserRecovery ==
    ASSUME TypeOK, RecoveryInv, User
    PROVE  RecoveryInv'
<1>1. ASSUME NEW g \in Grade, Edit(g)  PROVE RecoveryInv'
  <2>1. /\ cmd' = cmd /\ ~Opening /\ session.open /\ session'.open
        /\ session'.grade = g /\ state'.recovery = g
    BY <1>1 DEF Edit, TypeOK, Sessions, GradeState
  <2> QED BY <2>1, StillStep
<1>2. CASE LibraryRead \/ (\E m \in Mark : MarkChange(m)) \/ UndoMarks
  <2>1. cmd' = cmd /\ session' = session /\ state' = state
    BY <1>2 DEF LibraryRead, MarkChange, UndoMarks
  <2> QED BY <2>1, StillStep
<1> QED BY <1>1, <1>2, LeaveRecovery, RevertRecovery DEF User

LEMMA WriterRecovery ==
    ASSUME TypeOK, RecoveryInv, WriterStep
    PROVE  RecoveryInv'
<1>1. cmd' = cmd /\ session' = session
  BY DEF WriterStep, WriterSnapshot, WriterRead, WriterMerge, WriterFault,
         WriterRecheck, WriterReplace, WriterAckGrade, WriterAckQueue
<1>2. state'.recovery \in {state.recovery, None}
  <2>1. CASE WriterMerge
    BY <2>1, CheckedRecovery DEF WriterMerge, TypeOK
  <2>2. CASE WriterAckGrade
    BY <2>2 DEF WriterAckGrade, TypeOK, GradeState
  <2> QED
    BY <2>1, <2>2 DEF WriterStep, WriterSnapshot, WriterRead, WriterFault,
                      WriterRecheck, WriterReplace, WriterAckQueue, db
<1> QED BY <1>1, <1>2, StillStep

LEMMA EnvironmentRecovery ==
    ASSUME TypeOK, RecoveryInv, Environment
    PROVE  RecoveryInv'
<1>1. CASE Crash
  <2>1. session' = NoSession /\ \A d \in Client : Over(d)'
    BY <1>1 DEF Crash, Over, IdleCmd
  <2> QED BY <2>1, ClosingStep
<1>2. CASE OtherProgram \/ Unplug \/ Replug
  <2>1. cmd' = cmd /\ session' = session /\ state' = state
    BY <1>2 DEF OtherProgram, Unplug, Replug, db
  <2> QED BY <2>1, StillStep
<1> QED BY <1>1, <1>2 DEF Environment

LEMMA NextRecovery ==
    ASSUME TypeOK, RecoveryInv, [Next]_vars
    PROVE  RecoveryInv'
<1>1. CASE UNCHANGED vars
  BY <1>1, StillStep DEF vars
<1> QED
  BY <1>1, RequestRecovery, UserRecovery, WriterRecovery, EnvironmentRecovery
  DEF Next

THEOREM RecoveryHolds == Spec => []RecoveryInv
<1>1. Init => RecoveryInv
  BY DEF Init, RecoveryInv, RecoveryIsCurrent, LeftAlone, OpensAlone,
         OfferIsRecovery, OpensClean, Over, Opens, NoSession, IdleCmd
<1> QED BY <1>1, TypeCorrect, NextRecovery, PTL DEF Spec

\* However many saves, checks, reloads and dialogs of a page overlap, and
\* wherever a crash falls, the recovery of a photo with unsaved work is the
\* grade on screen or already cleared, never an older edit.
THEOREM RecoveriesAreCurrent == Spec => []RecoveryIsCurrent
  BY RecoveryHolds, PTL DEF RecoveryInv
-----------------------------------------------------------------------------
(* "All changes saved", for a page that waits for each of its requests.     *)

\* One request at a time, and nothing is reverted; edits, marks, failing
\* writes, crashes and other programs are as the scenario allows.
OneRequest == \A c, d \in Client : c = d
Unreverted == \A s \in Scenarios : s["reverts"] = 0

\* While nobody else was at the settings file and its folder never went away.
Private == ~history.shared /\ ~history.away

\* What a photo without unsaved work shows: the grade that waits, or the one in
\* the file, unless a conflict about the file's grade is open.
Right(v) ==
    IF state.pending THEN v = Shown(state.desired)
    ELSE v = Shown(file.grade) \/ (state.conflict /\ state.baseline # file.grade)

\* The writer's attempt is about the file as it is, and what it will change is
\* the grade that waits.
Attempts ==
    /\ writer.pc \in {"merge", "prepared", "replace"} => writer.seen = file
    /\ writer.pc \in {"prepared", "replace", "ackGrade"} => writer.doc.kind = "ok"
    /\ writer.pc \in {"prepared", "replace"} /\ Holds
          /\ writer.doc.grade # file.grade =>
          state.pending /\ file.grade = state.baseline
    /\ writer.pc = "ackGrade" => writer.doc = file

\* A request may have read the file before the writer replaced it; the
\* baseline, or the grade about to become it, tells.
Outdated(c) ==
    /\ \/ writer.pc = "ackGrade" /\ state.pending /\ state.desired = file.grade
       \/ ~state.pending /\ state.baseline = file.grade
    /\ cmd[c].pc = "checkFinish" =>
          cmd[c].grade # (IF state.pending THEN state.desired ELSE state.baseline)
ReadFile(c) ==
    /\ cmd[c].pc \in {"saveCommit", "checkFinish", "resolveFinish"} =>
          /\ Comparable(cmd[c].doc)
          /\ cmd[c].doc.grade = file.grade \/ Outdated(c)
    /\ cmd[c].pc \in {"checkRead", "checkFinish"} =>
          cmd[c].grade = state.baseline \/ ~state.pending

\* A conflict under discussion, and a reload: nothing waits, the file stays.
Reloads(c) ==
    \/ cmd[c].pc = "reload"
    \/ cmd[c].pc \in {"loading", "storing"} /\ cmd[c].arg = "reload"
Settled(c) ==
    /\ cmd[c].pc \in {"asking", "resolveRead", "resolveFinish", "resave", "discard"}
          \/ Reloads(c) => ~state.pending
    /\ cmd[c].pc = "resolveFinish" => cmd[c].doc.grade = file.grade
    /\ Reloads(c) => cmd[c].grade = file.grade

\* A save under way has the grade on screen, or the photo was edited since; only
\* one that follows a conflict is of a photo without unsaved work.
SavesShown(c) ==
    cmd[c].pc \in {"saveRead", "saveCommit"} /\ session.open =>
        /\ cmd[c].rev <= session.rev
        /\ IF session.rev = cmd[c].rev THEN session.grade = cmd[c].grade
                                       ELSE session.dirty
        /\ ~session.dirty =>
              /\ ~state.pending
              /\ cmd[c].pc = "saveCommit" => cmd[c].doc.grade = file.grade

\* A photo that is being opened: the grade it will show, and the state read.
Adopts(c) ==
    \/ cmd[c].pc = "adopt"
    \/ cmd[c].pc = "loading" /\ cmd[c].arg = "adopt"
OpensRight(c) ==
    /\ Adopts(c) =>
          /\ Right(Shown(cmd[c].grade))
          /\ ~state.conflict => cmd[c].grade = (IF state.pending THEN state.desired
                                                               ELSE file.grade)
    /\ cmd[c].pc \in {"loading", "storing"} /\ cmd[c].arg = "reload"
          /\ ~cmd[c].snap.pending /\ ~cmd[c].snap.conflict =>
          ~state.pending /\ ~state.conflict /\ cmd[c].grade = file.grade
    /\ cmd[c].pc = "storing" /\ cmd[c].arg = "restore" => session.dirty
    /\ cmd[c].pc \in {"loading", "storing"} => cmd[c].arg \in {"adopt", "restore", "reload"}

\* Before the answer of a load or a save the page does not yet show it.
Between(c) ==
    cmd[c].pc \in {"adopt", "restore", "reload", "loading", "resave", "saveRead",
                   "saveCommit"}

OfRequest(c) ==
    /\ ReadFile(c) /\ Settled(c) /\ SavesShown(c) /\ OpensRight(c)
    /\ session.open => cmd[c].live
ShowsSaved ==
    session.open /\ ~session.dirty /\ (\A c \in Client : ~Between(c)) => Right(session.grade)

\* Once the photo was opened, the baseline is the file's grade unless a grade
\* waits or a conflict is open.
Known ==
    ~state.pending /\ ~state.conflict /\ (session.open \/ state.recovery # None) =>
        state.baseline = file.grade

\* The parts, for one request.
SavedOf(c) ==
    /\ mounted /\ file.kind \in {"ok", "absent"} /\ ~(state.pending /\ state.conflict)
    /\ Attempts /\ Known
    /\ ReadFile(c) /\ Settled(c) /\ SavesShown(c) /\ OpensRight(c)
    /\ session.open => cmd[c].live
    /\ session.open /\ ~session.dirty /\ ~Between(c) => Right(session.grade)

SavedInv ==
    /\ budget["reverts"] = 0
    /\ Private =>
           /\ mounted /\ file.kind \in {"ok", "absent"}
           /\ ~(state.pending /\ state.conflict)
           /\ Attempts /\ Known /\ ShowsSaved
           /\ \A c \in Client : OfRequest(c)

\* With one request at a time the step of a request is all that happens to any.
LEMMA OneMoves ==
    ASSUME TypeOK, OneRequest, NEW c \in Client, NEW next, Become(c, next)
    PROVE  /\ cmd'[c] = next
           /\ \A d \in Client : d = c /\ cmd'[d] = next
  BY DEF TypeOK, OneRequest, Become

\* What a request leaves alone.
LEMMA FileStays ==
    ASSUME TypeOK, NEW c \in Client, Request(c)
    PROVE  UNCHANGED <<file, mounted, writer, undo, history, budget>>
  BY DEF Request, Attach, ChooseRestore, ChooseSaved, LoadBegin, LoadOpen, LoadStore,
         LoadDiscard, SaveBegin, SaveRead, SaveConflict, SaveCommit, CheckBegin, CheckRead,
         CheckFinish, Answer, ResolveRead, ResolveVoid, ResolveChosen, Gone

\* The grade's state but for the recovery.
SameGrades ==
    /\ state'.pending = state.pending /\ state'.conflict = state.conflict
    /\ state'.desired = state.desired /\ state'.baseline = state.baseline

LEMMA SameRight ==
    ASSUME SameGrades, file' = file
    PROVE  \A v : Right(v)' <=> Right(v)
  BY DEF SameGrades, Right

\* With the file, the row and the writer alone, the attempt stays right when no
\* grade that waits is given up and its baseline stays.
LEMMA SameAttempts ==
    ASSUME Attempts, UNCHANGED <<file, row, writer>>,
           state.pending => state'.pending /\ state'.baseline = state.baseline
    PROVE  Attempts'
  BY DEF Attempts, Holds

LEMMA SameKnown ==
    ASSUME Known, SameGrades, file' = file,
           session'.open \/ state'.recovery # None => session.open \/ state.recovery # None
    PROVE  Known'
  BY DEF Known, SameGrades

\* The invariant, of the one request.
LEMMA OnlyRequest ==
    ASSUME SavedInv, Private, OneRequest, NEW c \in Client
    PROVE  SavedOf(c)
<1>1. \A d \in Client : d = c
  BY DEF OneRequest
<1> QED BY <1>1 DEF SavedInv, SavedOf, OfRequest, ShowsSaved

\* What is left to show of the step of a request.
LEMMA StepSaves ==
    ASSUME TypeOK, OneRequest, SavedInv, NEW c \in Client, Request(c),
           Private => SavedOf(c)'
    PROVE  SavedInv'
<1>1. UNCHANGED <<file, mounted, writer, undo, history, budget>>
  BY FileStays
<1>2. \A d \in Client : d = c
  BY DEF OneRequest
<1> QED BY <1>1, <1>2 DEF SavedInv, Private, SavedOf, OfRequest, ShowsSaved

LEMMA AttachSaves ==
    ASSUME TypeOK, SavedInv, OneRequest, NEW c \in Client, Request(c), Attach(c)
    PROVE  SavedInv'
<1> SUFFICES ASSUME Private  PROVE SavedOf(c)'
  BY StepSaves
<1>0. SavedOf(c)
  BY OnlyRequest
<1> USE <1>0 DEF SavedOf
<1> DEFINE saved == IF state.pending THEN state.desired ELSE file.grade
           offer == IF state.pending THEN None ELSE state.recovery
           next == [IdleCmd EXCEPT
                 !.pc = IF saved # None THEN "adopt"
                        ELSE IF offer # None THEN "offer" ELSE "idle",
                 !.grade = saved, !.alt = offer]
<1>1. /\ cmd'[c] = next
      /\ next.pc \in {"adopt", "offer", "idle"} /\ next.grade = saved /\ next.live
      /\ (next.pc # "adopt" => saved = None)
  BY OneMoves DEF Attach, IdleCmd
<1>2. /\ session' = [NoSession EXCEPT !.open = TRUE]
      /\ session'.grade = Default /\ ~session'.dirty /\ session'.open
  BY DEF Attach, NoSession
<1>3. /\ state'.pending = state.pending /\ state'.conflict = state.conflict
      /\ state'.desired = state.desired
      /\ (state.pending \/ state.conflict => state'.baseline = state.baseline)
  BY DEF Attach, TypeOK, GradeState
<1>4. UNCHANGED <<row, file, mounted, writer, history>>
  BY DEF Attach
<1> HIDE DEF next
<1>5. Right(Shown(saved))'
  BY <1>3, <1>4 DEF Right
<1>6. Attempts'
  BY <1>3, <1>4, SameAttempts
<1>7. Known'
  BY <1>3, <1>4 DEF Known, Attach, TypeOK, GradeState
<1> QED
  BY <1>1, <1>2, <1>3, <1>4, <1>5, <1>6, <1>7
  DEF ReadFile, Settled, Reloads, SavesShown, OpensRight, Adopts, Between, Shown

LEMMA ChooseSaves ==
    ASSUME TypeOK, SavedInv, OneRequest, NEW c \in Client, Request(c),
           ChooseRestore(c) \/ ChooseSaved(c)
    PROVE  SavedInv'
<1> SUFFICES ASSUME Private  PROVE SavedOf(c)'
  BY StepSaves
<1>0. SavedOf(c)
  BY OnlyRequest
<1> USE <1>0 DEF SavedOf
<1>1. /\ cmd[c].pc \in {"adopt", "offer"}
      /\ cmd[c].live => cmd'[c].live
      /\ \/ cmd'[c].pc = "restore"
         \/ cmd[c].pc = "offer" /\ cmd'[c].pc = "idle"
  <2>1. CASE ChooseRestore(c)
    BY <2>1, OneMoves DEF ChooseRestore, Goto, TypeOK, Cmds
  <2>2. CASE ChooseSaved(c)
    BY <2>2, OneMoves DEF ChooseSaved, Done, IdleCmd
  <2> QED BY <2>1, <2>2
<1>2. SameGrades
  BY DEF SameGrades, ChooseRestore, ChooseSaved, TypeOK, GradeState, db
<1>3. UNCHANGED <<row, file, mounted, session, writer, history>>
  BY DEF ChooseRestore, ChooseSaved, db
<1>4. Attempts' /\ \A v : Right(v)' <=> Right(v)
  BY <1>2, <1>3, SameRight, SameAttempts DEF SameGrades
<1>5. Known'
  BY <1>2, <1>3, SameKnown DEF ChooseRestore, ChooseSaved, TypeOK, GradeState, db
<1> QED
  BY <1>1, <1>2, <1>3, <1>4, <1>5
  DEF SameGrades, ReadFile, Settled, Reloads, SavesShown, OpensRight, Adopts, Between

LEMMA LoadBeginSaves ==
    ASSUME TypeOK, SavedInv, OneRequest, NEW c \in Client, Request(c), LoadBegin(c)
    PROVE  SavedInv'
<1> SUFFICES ASSUME Private  PROVE SavedOf(c)'
  BY StepSaves
<1>0. SavedOf(c)
  BY OnlyRequest
<1> USE <1>0 DEF SavedOf
<1>1. /\ cmd[c].pc \in {"adopt", "restore", "reload"} /\ cmd[c].live /\ cmd'[c].live
      /\ cmd'[c].pc = "loading" /\ cmd'[c].arg = cmd[c].pc /\ cmd'[c].snap = state
      /\ cmd'[c].grade = cmd[c].grade
  <2>1. cmd'[c] = [cmd[c] EXCEPT !.pc = "loading", !.arg = cmd[c].pc, !.snap = state]
    BY OneMoves DEF LoadBegin
  <2>2. cmd[c] \in Cmds /\ cmd[c].pc \in {"adopt", "restore", "reload"} /\ cmd[c].live
    BY DEF LoadBegin, TypeOK
  <2> QED BY <2>1, <2>2 DEF Cmds
<1>2. UNCHANGED <<state, row, file, mounted, session, writer, history>>
  BY DEF LoadBegin, db
<1>3. Attempts' /\ \A v : Right(v)' <=> Right(v)
  BY <1>2, SameAttempts DEF Right
<1>4. Known'
  BY <1>2 DEF Known
<1>5. Settled(c)'
  BY <1>1, <1>2 DEF Settled, Reloads
<1>6. OpensRight(c)'
  BY <1>1, <1>2, <1>3 DEF OpensRight, Adopts, Settled, Reloads
<1> QED
  BY <1>1, <1>2, <1>3, <1>4, <1>5, <1>6
  DEF ReadFile, SavesShown, Between

LEMMA LoadOpenSaves ==
    ASSUME TypeOK, RecoveryInv, SavedInv, OneRequest, NEW c \in Client, Request(c), LoadOpen(c)
    PROVE  SavedInv'
<1> SUFFICES ASSUME Private  PROVE SavedOf(c)'
  BY StepSaves
<1>0. SavedOf(c)
  BY OnlyRequest
<1> USE <1>0 DEF SavedOf
<1> DEFINE document == IF cmd[c].arg = "restore" THEN cmd[c].alt ELSE cmd[c].grade
<1>1. cmd[c].pc = "loading" /\ cmd'[c] = [cmd[c] EXCEPT !.pc = "storing"]
  BY DEF LoadOpen, TypeOK
<1>2. /\ cmd'[c].pc = "storing" /\ cmd'[c].arg = cmd[c].arg /\ cmd'[c].live = cmd[c].live
      /\ cmd'[c].snap = cmd[c].snap /\ cmd'[c].grade = cmd[c].grade
  BY <1>1 DEF TypeOK, Cmds
<1>3. /\ session'.open /\ session'.dirty = (cmd[c].arg = "restore")
      /\ session'.grade = Shown(document)
  BY DEF LoadOpen
<1>4. UNCHANGED <<state, row, file, mounted, writer, history>>
  BY DEF LoadOpen, db
<1>5. cmd[c].live /\ session.open
  BY <1>1 DEF RecoveryInv, LeftAlone, Over
<1>6. Attempts' /\ \A v : Right(v)' <=> Right(v)
  BY <1>4, SameAttempts DEF Right
<1>7. cmd[c].arg # "restore" => Right(Shown(cmd[c].grade))
  <2>1. CASE cmd[c].arg = "reload"
    BY <1>1, <2>1 DEF Settled, Reloads, Right
  <2>2. CASE cmd[c].arg = "adopt"
    BY <1>1, <2>2 DEF OpensRight, Adopts
  <2>3. cmd[c].arg \in {"adopt", "restore", "reload"}
    BY <1>1 DEF OpensRight
  <2> QED BY <2>1, <2>2, <2>3
<1>8. Right(session.grade)' \/ session'.dirty
  <2>1. CASE cmd[c].arg = "restore"
    BY <1>3, <2>1
  <2>2. CASE cmd[c].arg # "restore"
    <3>1. session'.grade = Shown(cmd[c].grade)
      BY <1>3, <2>2
    <3>2. Right(Shown(cmd[c].grade))
      BY <1>7, <2>2
    <3> QED BY <3>1, <3>2, <1>4 DEF Right
  <2> QED BY <2>1, <2>2
<1>9. Settled(c)'
  BY <1>1, <1>2, <1>4 DEF Settled, Reloads
<1>10. OpensRight(c)'
  BY <1>1, <1>2, <1>3, <1>4 DEF OpensRight, Adopts
<1>11. Known'
  BY <1>4, <1>5 DEF Known
<1> QED
  BY <1>2, <1>4, <1>5, <1>6, <1>8, <1>9, <1>10, <1>11 DEF ReadFile, SavesShown

LEMMA LoadStoreSaves ==
    ASSUME TypeOK, SavedInv, OneRequest, NEW c \in Client, Request(c),
           LoadStore(c) \/ LoadDiscard(c)
    PROVE  SavedInv'
<1> SUFFICES ASSUME Private  PROVE SavedOf(c)'
  BY StepSaves
<1>0. SavedOf(c)
  BY OnlyRequest
<1> USE <1>0 DEF SavedOf
<1>1. /\ cmd[c].pc \in {"storing", "discard"}
      /\ \/ /\ cmd'[c].pc = "discard" /\ cmd[c].pc = "storing" /\ cmd[c].arg = "reload"
            /\ cmd'[c].live = cmd[c].live
         \/ cmd'[c].pc \in {"offer", "idle"} /\ cmd'[c].live
  <2>1. CASE LoadStore(c)
    <3>1. /\ cmd[c].pc = "storing" /\ cmd[c] \in Cmds
          /\ cmd'[c] = IF cmd[c].arg = "reload" THEN [cmd[c] EXCEPT !.pc = "discard"]
                       ELSE IF cmd[c].arg = "adopt" /\ cmd[c].alt # None
                       THEN [IdleCmd EXCEPT !.pc = "offer", !.alt = cmd[c].alt]
                       ELSE IdleCmd
      BY <2>1, OneMoves DEF LoadStore, TypeOK
    <3>2. IdleCmd.pc = "idle" /\ IdleCmd.live
      BY DEF IdleCmd
    <3>3. [IdleCmd EXCEPT !.pc = "offer", !.alt = cmd[c].alt].pc = "offer"
          /\ [IdleCmd EXCEPT !.pc = "offer", !.alt = cmd[c].alt].live
      BY DEF IdleCmd
    <3>4. [cmd[c] EXCEPT !.pc = "discard"].pc = "discard"
          /\ [cmd[c] EXCEPT !.pc = "discard"].live = cmd[c].live
      BY <3>1 DEF Cmds
    <3> QED BY <3>1, <3>2, <3>3, <3>4
  <2>2. CASE LoadDiscard(c)
    BY <2>2, OneMoves DEF LoadDiscard, Done, IdleCmd
  <2> QED BY <2>1, <2>2
<1>2. \/ SameGrades /\ state'.recovery \in {state.recovery, None}
      \/ ~state.pending /\ ~state.conflict /\ ~state'.pending /\ ~state'.conflict
         /\ state'.baseline = file.grade
  <2>1. CASE LoadStore(c)
    <3> DEFINE snap == cmd[c].snap
               stores == cmd[c].arg = "reload" /\ ~snap.pending /\ ~snap.conflict
    <3>1. /\ cmd[c].pc = "storing"
          /\ state' = IF stores THEN [snap EXCEPT !.baseline = cmd[c].grade] ELSE state
      BY <2>1 DEF LoadStore
    <3>2. CASE stores
      <4>1. /\ state'.pending = snap.pending /\ state'.conflict = snap.conflict
            /\ state'.baseline = cmd[c].grade
        BY <3>1, <3>2 DEF TypeOK, Cmds, GradeState
      <4>2. ~state.pending /\ ~state.conflict /\ cmd[c].grade = file.grade
        BY <3>1, <3>2 DEF OpensRight
      <4> QED BY <3>2, <4>1, <4>2
    <3>3. CASE ~stores
      BY <3>1, <3>3 DEF SameGrades
    <3> QED BY <3>2, <3>3
  <2>2. CASE LoadDiscard(c)
    BY <2>2 DEF LoadDiscard, SameGrades, TypeOK, GradeState
  <2> QED BY <2>1, <2>2
<1>3. UNCHANGED <<row, file, mounted, session, writer, history>>
  BY DEF LoadStore, LoadDiscard, db
<1>4. Attempts' /\ \A v : Right(v)' <=> Right(v)
  <2>1. Attempts'
    BY <1>2, <1>3, SameAttempts DEF SameGrades
  <2> QED BY <2>1, <1>2, <1>3 DEF SameGrades, Right
<1>5. ~(state'.pending /\ state'.conflict)
  BY <1>2 DEF SameGrades
<1>6. Settled(c)'
  BY <1>1, <1>2, <1>3 DEF Settled, Reloads, SameGrades
<1>7. Known'
  BY <1>2, <1>3 DEF Known, SameGrades
<1> QED
  BY <1>1, <1>3, <1>4, <1>5, <1>6, <1>7 DEF ReadFile, SavesShown, OpensRight, Adopts, Between

\* Beginning a save keeps what the photo shows; only unsaved work is saved, or
\* the grade that was kept in a conflict.
LEMMA SaveBeginSaves ==
    ASSUME TypeOK, SavedInv, OneRequest, NEW c \in Client, Request(c), SaveBegin(c)
    PROVE  SavedInv'
<1> SUFFICES ASSUME Private  PROVE SavedOf(c)'
  BY StepSaves
<1>0. SavedOf(c)
  BY OnlyRequest
<1> USE <1>0 DEF SavedOf
<1>1. /\ cmd'[c].pc = "saveRead" /\ cmd'[c].live /\ cmd'[c].grade = session.grade
      /\ cmd'[c].rev = session.rev
  <2>1. cmd'[c] = [IdleCmd EXCEPT !.pc = "saveRead", !.grade = session.grade,
                                  !.rev = session.rev]
    BY OneMoves DEF SaveBegin
  <2> QED BY <2>1 DEF IdleCmd
<1>2. SameGrades
  BY DEF SameGrades, SaveBegin, TypeOK, GradeState
<1>3. UNCHANGED <<row, file, mounted, session, writer, history>>
  BY DEF SaveBegin
<1>4. Attempts' /\ \A v : Right(v)' <=> Right(v)
  BY <1>2, <1>3, SameRight, SameAttempts DEF SameGrades
<1>5. ~session.dirty => ~state.pending
  BY DEF SaveBegin, Settled
<1>6. Known'
  BY <1>2, <1>3, SameKnown DEF SaveBegin
<1> QED
  BY <1>1, <1>2, <1>3, <1>4, <1>5, <1>6
  DEF TypeOK, Sessions, SameGrades, ReadFile, Settled, Reloads, SavesShown, OpensRight,
      Adopts, Between

LEMMA SaveReadSaves ==
    ASSUME TypeOK, SavedInv, OneRequest, NEW c \in Client, Request(c), SaveRead(c)
    PROVE  SavedInv'
<1> SUFFICES ASSUME Private  PROVE SavedOf(c)'
  BY StepSaves
<1>0. SavedOf(c)
  BY OnlyRequest
<1> USE <1>0 DEF SavedOf
<1>1. /\ cmd[c].pc = "saveRead" /\ cmd'[c].pc = "saveCommit"
      /\ cmd'[c].live = cmd[c].live /\ cmd'[c].grade = cmd[c].grade
      /\ cmd'[c].rev = cmd[c].rev /\ cmd'[c].doc = file
  <2>1. cmd'[c] = [cmd[c] EXCEPT !.pc = "saveCommit", !.doc = file]
    BY OneMoves DEF SaveRead, ReadSettings
  <2> QED BY <2>1 DEF SaveRead, TypeOK, Cmds
<1>2. UNCHANGED <<state, row, file, mounted, session, writer, history>>
  BY DEF SaveRead, db
<1>3. Attempts' /\ \A v : Right(v)' <=> Right(v)
  BY <1>2, SameAttempts DEF Right
<1>4. Comparable(file)
  BY DEF Comparable
<1>5. ReadFile(c)'
  BY <1>1, <1>2, <1>4 DEF ReadFile, Comparable
<1>6. SavesShown(c)'
  BY <1>1, <1>2 DEF SavesShown
<1>7. Known'
  BY <1>2 DEF Known
<1> QED
  BY <1>1, <1>2, <1>3, <1>5, <1>6, <1>7
  DEF Settled, Reloads, OpensRight, Adopts, Between

\* What a check of the file's grade does: it may pause what waits, and it ends
\* a conflict about a grade that came back.
LEMMA CheckedGrades ==
    ASSUME TypeOK, NEW g, state' = Checked(state, g)
    PROVE  /\ state'.baseline = state.baseline /\ state'.desired = state.desired
           /\ state'.recovery = state.recovery
           /\ Conflicting(state, g) => ~state'.pending /\ state'.conflict
           /\ ~Conflicting(state, g) =>
                 /\ state'.pending = state.pending
                 /\ IF g = state.baseline /\ state.conflict THEN ~state'.conflict
                    ELSE state'.conflict = state.conflict
  BY DEF Checked, TypeOK, GradeState

\* A check of the grade in the file disturbs no attempt and what a photo may
\* show; one of an older read, while nothing waits, no attempt.
LEMMA CheckedSaves ==
    ASSUME TypeOK, Attempts, ~(state.pending /\ state.conflict), Known,
           NEW g, state' = Checked(state, g), g = file.grade \/ ~state.pending,
           UNCHANGED <<file, row, writer, session>>
    PROVE  /\ Attempts' /\ ~(state'.pending /\ state'.conflict)
           /\ state'.pending => state.pending
           /\ g = file.grade => Known' /\ \A v : Right(v) => Right(v)'
<1>1. /\ state'.baseline = state.baseline /\ state'.desired = state.desired
      /\ state'.recovery = state.recovery
      /\ Conflicting(state, g) => ~state'.pending /\ state'.conflict
      /\ ~Conflicting(state, g) =>
            /\ state'.pending = state.pending
            /\ IF g = state.baseline /\ state.conflict THEN ~state'.conflict
               ELSE state'.conflict = state.conflict
  BY CheckedGrades
<1>2. ~(state'.pending /\ state'.conflict) /\ (state'.pending => state.pending)
  BY <1>1
<1>3. Attempts'
  BY <1>1 DEF Attempts, Holds, Conflicting
<1>4. ASSUME g = file.grade, NEW v, Right(v)  PROVE Right(v)'
  BY <1>1, <1>4 DEF Right, Conflicting
<1>5. ASSUME g = file.grade  PROVE Known'
  BY <1>1, <1>5 DEF Known
<1> QED BY <1>2, <1>3, <1>4, <1>5

LEMMA IdleFields == IdleCmd.pc = "idle" /\ IdleCmd.live
  BY DEF IdleCmd

\* A request that is over leaves nothing to show but of the photo's state.
LEMMA DoneSaves ==
    ASSUME TypeOK, OneRequest, NEW c \in Client, SavedOf(c), Done(c),
           Attempts', Known', ~(state'.pending /\ state'.conflict),
           UNCHANGED <<mounted, file>>,
           session'.open /\ ~session'.dirty => Right(session.grade)'
    PROVE  SavedOf(c)'
<1>1. cmd'[c].pc = "idle" /\ cmd'[c].live
  BY OneMoves, IdleFields DEF Done
<1> QED
  BY <1>1 DEF SavedOf, ReadFile, Settled, Reloads, SavesShown, OpensRight, Adopts

\* A save that meets a grade the app did not know.
LEMMA SaveConflictSaves ==
    ASSUME TypeOK, SavedInv, OneRequest, NEW c \in Client, Request(c), SaveConflict(c)
    PROVE  SavedInv'
<1> SUFFICES ASSUME Private  PROVE SavedOf(c)'
  BY StepSaves
<1>0. SavedOf(c)
  BY OnlyRequest
<1> USE <1>0 DEF SavedOf
<1> DEFINE g == cmd[c].doc.grade
<1>1. /\ Unlocked /\ cmd[c].pc = "saveCommit" /\ Conflicting(state, g)
      /\ state' = Checked(state, g) /\ Done(c)
      /\ UNCHANGED <<row, file, mounted, session, writer>>
  BY DEF SaveConflict, GradeIn
<1>2. g = file.grade \/ (~state.pending /\ state.baseline = file.grade)
  BY <1>1 DEF ReadFile, Outdated, Unlocked
<1> HIDE DEF g
<1>3. Attempts' /\ ~(state'.pending /\ state'.conflict)
  BY <1>1, <1>2, CheckedSaves
<1>4. state'.conflict /\ ~state'.pending /\ state'.baseline = state.baseline
  BY <1>1, CheckedGrades
<1>5. ASSUME session'.open, ~session'.dirty  PROVE Right(session.grade)'
  <2>1. g = file.grade
    BY <1>1, <1>5 DEF SavesShown, g
  <2>2. g # state.baseline
    BY <1>1 DEF Conflicting
  <2> QED BY <1>1, <1>4, <2>1, <2>2 DEF Right
<1>6. Known'
  BY <1>4 DEF Known
<1> QED BY <1>1, <1>3, <1>5, <1>6, DoneSaves

LEMMA QueuedElsewhere ==
    ASSUME NEW m, NEW r \in Revision, Fresh(r), row' = Queued(m, r), writer' = writer
    PROVE  ~Holds'
  BY DEF Fresh, Queued, Holds

\* The commit: the photo's grade waits, and the photo shows it or was edited since.
LEMMA SaveCommitSaves ==
    ASSUME TypeOK, SavedInv, OneRequest, NEW c \in Client, Request(c), SaveCommit(c)
    PROVE  SavedInv'
<1> SUFFICES ASSUME Private  PROVE SavedOf(c)'
  BY StepSaves
<1>0. SavedOf(c)
  BY OnlyRequest
<1> USE <1>0 DEF SavedOf
<1> DEFINE g == cmd[c].doc.grade
           known == Checked(state, g)
<1>1. cmd[c].pc = "saveCommit" /\ Comparable(cmd[c].doc)
  BY DEF SaveCommit, ReadFile
<1>2. /\ ~Conflicting(state, g)
      /\ state' = [known EXCEPT !.desired = cmd[c].grade, !.pending = TRUE]
      /\ Done(c)
      /\ UNCHANGED <<file, mounted, writer>>
      /\ session' = IF cmd[c].live /\ session.rev = cmd[c].rev
                    THEN [session EXCEPT !.dirty = FALSE] ELSE session
  BY <1>1 DEF SaveCommit, GradeIn
<1>3. known \in GradeState /\ ~known.conflict
  <2>1. g \in GradeOrNone
    BY DEF TypeOK, Cmds, Documents
  <2>2. known \in GradeState
    BY <2>1, CheckedType DEF TypeOK
  <2>3. ~known.conflict
    BY <1>2 DEF Checked, Conflicting, TypeOK, GradeState
  <2> QED BY <2>2, <2>3
<1> HIDE DEF g, known
<1>4. state'.pending /\ ~state'.conflict /\ state'.desired = cmd[c].grade
  BY <1>2, <1>3 DEF GradeState
<1>5. ~Holds'
  <2>1. PICK r \in Revision : Fresh(r) /\ row' = Queued(MarksWith(cmd[c].doc), r)
    BY DEF SaveCommit
  <2> QED BY <1>2, <2>1, QueuedElsewhere
<1>6. Attempts'
  BY <1>2, <1>5 DEF Attempts
<1>7. Known'
  BY <1>4 DEF Known
<1>8. ASSUME session'.open, ~session'.dirty  PROVE Right(session.grade)'
  <2>1. session.open /\ session'.grade = session.grade
    BY <1>2, <1>8 DEF TypeOK, Sessions
  <2>2. session.rev = cmd[c].rev
    BY <1>1, <1>2, <1>8, <2>1 DEF SavesShown
  <2>3. session.grade = cmd[c].grade
    BY <1>1, <2>1, <2>2 DEF SavesShown
  <2>4. session.grade # None
    BY GradeAssumption DEF TypeOK, Sessions
  <2> QED BY <1>4, <2>1, <2>3, <2>4 DEF Right, Shown
<1> QED BY <1>2, <1>4, <1>6, <1>7, <1>8, DoneSaves

\* Without a change of the photo's state or the session, what is left to show of
\* a request that goes on is about itself.
LEMMA SameSaves ==
    ASSUME TypeOK, NEW c \in Client, SavedOf(c),
           UNCHANGED <<state, row, file, mounted, session, writer>>,
           ReadFile(c)', Settled(c)', SavesShown(c)', OpensRight(c)',
           cmd[c].live => cmd'[c].live, ~Between(c)
    PROVE  SavedOf(c)'
<1>1. Attempts' /\ Known'
  BY SameAttempts DEF SavedOf, Known
<1> QED BY <1>1 DEF SavedOf, Right

LEMMA RepliedFields ==
    ASSUME NEW s, NEW live
    PROVE  /\ Replied(s, live).live
           /\ \/ Replied(s, live).pc = "idle"
              \/ Replied(s, live).pc = "asking" /\ s.conflict
  BY DEF Replied, IdleCmd

\* Looking at the file, before the check's second section.
LEMMA LookSaves ==
    ASSUME TypeOK, SavedInv, OneRequest, NEW c \in Client, Request(c),
           CheckBegin(c) \/ CheckRead(c)
    PROVE  SavedInv'
<1> SUFFICES ASSUME Private  PROVE SavedOf(c)'
  BY StepSaves
<1>0. SavedOf(c)
  BY OnlyRequest
<1>1. UNCHANGED <<state, row, file, mounted, session, writer>>
  BY DEF CheckBegin, CheckRead, db
<1>2. CASE CheckBegin(c)
  <2>1. mounted
    BY <1>0 DEF SavedOf
  <2>2. PICK u \in {"unsaved", "none"} :
           cmd'[c] = [IdleCmd EXCEPT !.pc = "checkRead", !.grade = state.baseline, !.arg = u]
    <3>1. PICK unsaved \in BOOLEAN :
             Become(c, [IdleCmd EXCEPT !.pc = "checkRead", !.grade = state.baseline,
                                       !.arg = IF unsaved THEN "unsaved" ELSE "none"])
      BY <1>2, <2>1 DEF CheckBegin
    <3> QED BY <3>1, OneMoves
  <2>3. cmd'[c].pc = "checkRead" /\ cmd'[c].grade = state.baseline /\ cmd'[c].live
    BY <2>2 DEF IdleCmd
  <2>4. ~Between(c)
    BY <1>2 DEF CheckBegin, Between
  <2> QED
    BY <1>0, <1>1, <2>3, <2>4, SameSaves
    DEF ReadFile, Settled, Reloads, SavesShown, OpensRight, Adopts
<1>3. CASE CheckRead(c)
  <2>1. /\ cmd[c].pc = "checkRead" /\ cmd'[c].pc = "checkFinish"
        /\ cmd'[c].live = cmd[c].live /\ cmd'[c].grade = cmd[c].grade
        /\ cmd'[c].doc = file
    <3>1. cmd'[c] = [cmd[c] EXCEPT !.pc = "checkFinish", !.doc = file]
      BY <1>0, <1>3, OneMoves DEF CheckRead, ReadSettings, SavedOf
    <3> QED BY <1>3, <3>1 DEF CheckRead, TypeOK, Cmds
  <2>2. ReadFile(c)'
    BY <1>0, <1>1, <2>1 DEF ReadFile, SavedOf, Comparable
  <2> QED
    BY <1>0, <1>1, <2>1, <2>2, SameSaves
    DEF Between, Settled, Reloads, SavesShown, OpensRight, Adopts
<1> QED BY <1>2, <1>3

\* The end of a check: what is not stale is about the file as it is.
LEMMA CheckFinishSaves ==
    ASSUME TypeOK, SavedInv, OneRequest, NEW c \in Client, Request(c), CheckFinish(c)
    PROVE  SavedInv'
<1> SUFFICES ASSUME Private  PROVE SavedOf(c)'
  BY StepSaves
<1>0. SavedOf(c)
  BY OnlyRequest
<1> USE <1>0 DEF SavedOf
<1> DEFINE g == cmd[c].doc.grade
           guarded == cmd[c].arg = "unsaved" \/ session.dirty
                      \/ state.pending \/ state.conflict
           stale == \/ ~cmd[c].live \/ state.baseline # cmd[c].grade
                    \/ cmd[c].doc.kind = "garbled"
           reload == ~stale /\ g # state.baseline /\ ~guarded
           next == IF stale \/ reload \/ (g = state.baseline /\ ~state.conflict)
                   THEN state ELSE Checked(state, g)
<1>1. /\ cmd[c].pc = "checkFinish" /\ Unlocked
      /\ state' = next
      /\ Become(c, IF reload THEN [IdleCmd EXCEPT !.pc = "reload", !.grade = g]
                             ELSE Replied(next, cmd[c].live))
      /\ UNCHANGED <<row, file, mounted, session, writer>>
  BY DEF CheckFinish, GradeIn
<1>2. ~stale => g = file.grade
  BY <1>1 DEF ReadFile, Outdated, Unlocked
<1>3. session.open /\ ~session.dirty => Right(session.grade)
  BY <1>1 DEF Between
<1>4. CASE reload
  <2>1. cmd'[c] = [IdleCmd EXCEPT !.pc = "reload", !.grade = g]
    BY <1>1, <1>4, OneMoves
  <2>2. cmd'[c].pc = "reload" /\ cmd'[c].live /\ cmd'[c].grade = file.grade
    BY <1>2, <1>4, <2>1 DEF IdleCmd
  <2>3. state' = state /\ ~state.pending
    BY <1>1, <1>4
  <2> HIDE DEF g, guarded, stale, reload, next
  <2>4. Attempts' /\ Known'
    BY <1>1, <2>3, SameAttempts DEF Known
  <2> QED
    BY <1>1, <2>2, <2>3, <2>4
    DEF Between, ReadFile, Settled, Reloads, SavesShown, OpensRight, Adopts
<1>5. CASE ~reload
  <2>1. /\ cmd'[c].live
        /\ \/ cmd'[c].pc = "idle"
           \/ cmd'[c].pc = "asking" /\ state'.conflict
    BY <1>1, <1>5, OneMoves, RepliedFields
  <2>2. CASE next = state
    <3>1. Attempts' /\ Known' /\ ~(state'.pending /\ state'.conflict)
      BY <1>1, <2>2, SameAttempts DEF Known
    <3>2. session'.open /\ ~session'.dirty => Right(session.grade)'
      BY <1>1, <1>3, <2>2 DEF Right
    <3> HIDE DEF g, guarded, stale, reload, next
    <3> QED
      BY <1>1, <2>1, <3>1, <3>2
      DEF ReadFile, Settled, Reloads, SavesShown, OpensRight, Adopts
  <2>3. CASE next # state
    <3>1. g = file.grade /\ state' = Checked(state, g)
      BY <1>1, <1>2, <2>3
    <3> HIDE DEF g, guarded, stale, reload, next
    <3>2. /\ Attempts' /\ ~(state'.pending /\ state'.conflict) /\ Known'
          /\ \A v : Right(v) => Right(v)'
      BY <1>1, <3>1, CheckedSaves
    <3>3. session'.open /\ ~session'.dirty => Right(session.grade)'
      BY <1>1, <1>3, <3>2 DEF Right
    <3> QED
      BY <1>1, <2>1, <3>2, <3>3
      DEF ReadFile, Settled, Reloads, SavesShown, OpensRight, Adopts
  <2> QED BY <2>2, <2>3
<1> QED BY <1>4, <1>5

\* The dialog: while it is open nothing waits, so the file keeps its grade.
LEMMA DialogSaves ==
    ASSUME TypeOK, SavedInv, OneRequest, NEW c \in Client, Request(c),
           Answer(c) \/ ResolveRead(c) \/ Gone(c)
    PROVE  SavedInv'
<1> SUFFICES ASSUME Private  PROVE SavedOf(c)'
  BY StepSaves
<1>0. SavedOf(c)
  BY OnlyRequest
<1>1. UNCHANGED <<state, row, file, mounted, session, writer>>
  BY DEF Answer, ResolveRead, Gone, db
<1>2. CASE Answer(c)
  <2>1. PICK choice \in {"mine", "file", "cancel"} :
           cmd'[c] = [cmd[c] EXCEPT !.pc = "resolveRead", !.arg = choice]
    <3>1. PICK choice \in {"mine", "file", "cancel"} :
             Become(c, [cmd[c] EXCEPT !.pc = "resolveRead", !.arg = choice])
      BY <1>2 DEF Answer
    <3> QED BY <3>1, OneMoves
  <2>2. cmd[c].pc = "asking" /\ cmd'[c].pc = "resolveRead" /\ cmd'[c].live = cmd[c].live
    BY <1>2, <2>1 DEF Answer, TypeOK, Cmds
  <2>3. ~state.pending
    BY <1>0, <2>2 DEF SavedOf, Settled
  <2> QED
    BY <1>0, <1>1, <2>2, <2>3, SameSaves
    DEF Between, ReadFile, Settled, Reloads, SavesShown, OpensRight, Adopts
<1>3. CASE ResolveRead(c)
  <2>1. cmd[c].pc = "resolveRead" /\ ~state.pending /\ ReadSettings = file
        /\ file.kind # "garbled"
    BY <1>0, <1>3 DEF ResolveRead, SavedOf, Settled, ReadSettings
  <2>2. /\ cmd'[c].pc = "resolveFinish" /\ cmd'[c].live = cmd[c].live
        /\ cmd'[c].doc = file
    <3>1. cmd'[c] = [cmd[c] EXCEPT !.pc = "resolveFinish", !.doc = file]
      BY <1>3, <2>1, OneMoves DEF ResolveRead
    <3> QED BY <3>1 DEF TypeOK, Cmds
  <2>3. ReadFile(c)' /\ Settled(c)'
    BY <1>0, <1>1, <2>1, <2>2 DEF SavedOf, ReadFile, Settled, Reloads, Comparable
  <2> QED
    BY <1>0, <1>1, <2>1, <2>2, <2>3, SameSaves DEF Between, SavesShown, OpensRight, Adopts
<1>4. CASE Gone(c)
  <2>1. ~session.open
    BY <1>0, <1>4 DEF Gone, SavedOf
  <2>2. Attempts' /\ Known' /\ ~(state'.pending /\ state'.conflict)
    BY <1>0, <1>1, SameAttempts DEF SavedOf, Known
  <2> QED BY <1>0, <1>1, <1>4, <2>1, <2>2, DoneSaves DEF Gone
<1> QED BY <1>2, <1>3, <1>4

\* The end of the dialog: the app's baseline becomes the file's grade, and the
\* photo is saved or loaded again.
LEMMA ResolveSaves ==
    ASSUME TypeOK, SavedInv, OneRequest, NEW c \in Client, Request(c),
           ResolveVoid(c) \/ ResolveChosen(c)
    PROVE  SavedInv'
<1> SUFFICES ASSUME Private  PROVE SavedOf(c)'
  BY StepSaves
<1>0. SavedOf(c)
  BY OnlyRequest
<1> USE <1>0 DEF SavedOf
<1> DEFINE g == cmd[c].doc.grade
<1>1. /\ cmd[c].pc = "resolveFinish"
      /\ UNCHANGED <<row, file, mounted, session, writer>>
  BY DEF ResolveVoid, ResolveChosen
<1>2. g = file.grade /\ ~state.pending
  BY <1>1 DEF Settled
<1>3. session.open /\ ~session.dirty => Right(session.grade)
  BY <1>1 DEF Between
<1>4. CASE ResolveVoid(c)
  <2>1. Done(c) /\ (state' = state \/ state' = Checked(state, g))
    BY <1>4 DEF ResolveVoid, GradeIn
  <2> HIDE DEF g
  <2>2. CASE state' = state
    <3>1. Attempts' /\ Known'
      BY <1>1, <2>2, SameAttempts DEF Known
    <3> QED BY <1>1, <1>3, <2>1, <2>2, <3>1, DoneSaves DEF Right
  <2>3. CASE state' = Checked(state, g)
    <3>1. /\ Attempts' /\ ~(state'.pending /\ state'.conflict) /\ Known'
          /\ \A v : Right(v) => Right(v)'
      BY <1>1, <1>2, <2>3, CheckedSaves
    <3>2. session'.open /\ ~session'.dirty => Right(session.grade)'
      BY <1>1, <1>3, <3>1 DEF Right
    <3> QED BY <1>1, <2>1, <3>1, <3>2, DoneSaves
  <2> QED BY <2>1, <2>2, <2>3
<1>5. CASE ResolveChosen(c)
  <2>1. /\ state'.baseline = file.grade /\ ~state'.pending /\ ~state'.conflict
    BY <1>2, <1>5 DEF ResolveChosen, GradeIn, TypeOK, GradeState
  <2>2. /\ cmd'[c].live
        /\ \/ cmd'[c].pc = "resave"
           \/ cmd'[c].pc = "reload" /\ cmd'[c].grade = file.grade
    <3>1. \/ cmd'[c] = [IdleCmd EXCEPT !.pc = "resave"]
          \/ cmd'[c] = [IdleCmd EXCEPT !.pc = "reload", !.grade = file.grade]
      BY <1>2, <1>5, OneMoves DEF ResolveChosen, GradeIn
    <3> QED BY <3>1 DEF IdleCmd
  <2> HIDE DEF g
  <2>3. Attempts' /\ Known'
    BY <1>1, <1>2, <2>1, SameAttempts DEF Known
  <2> QED
    BY <1>1, <2>1, <2>2, <2>3
    DEF Between, ReadFile, Settled, Reloads, SavesShown, OpensRight, Adopts
<1> QED BY <1>4, <1>5

LEMMA RequestSaves ==
    ASSUME TypeOK, RecoveryInv, SavedInv, OneRequest, NEW c \in Client, Request(c)
    PROVE  SavedInv'
  BY AttachSaves, ChooseSaves, LoadBeginSaves, LoadOpenSaves, LoadStoreSaves,
     SaveBeginSaves, SaveReadSaves, SaveConflictSaves, SaveCommitSaves, LookSaves,
     CheckFinishSaves, DialogSaves, ResolveSaves
  DEF Request

\* Nothing is reverted, so no revert is ever paid for.
LEMMA RevertsStay ==
    ASSUME TypeOK, budget["reverts"] = 0, [Next]_vars
    PROVE  budget'["reverts"] = 0
<1>1. ASSUME NEW kind \in Bounds, Spend(kind)  PROVE budget'["reverts"] = 0
  BY <1>1 DEF Spend, TypeOK, Bounds
<1>2. ASSUME NEW c \in Client, Request(c)  PROVE budget'["reverts"] = 0
  BY <1>2, FileStays
<1>3. CASE User
  BY <1>1, <1>3
  DEF User, Edit, Leave, LeaveUnsaved, Revert, LibraryRead, MarkChange, UndoMarks, Bounds
<1>4. CASE WriterStep
  BY <1>1, <1>4
  DEF WriterStep, WriterSnapshot, WriterRead, WriterMerge, WriterFault, WriterRecheck,
      WriterReplace, WriterAckGrade, WriterAckQueue, Bounds
<1>5. CASE Environment
  BY <1>1, <1>5 DEF Environment, OtherProgram, Unplug, Replug, Crash, Bounds
<1> QED BY <1>2, <1>3, <1>4, <1>5 DEF Next, vars

\* What happens outside requests is seen by each of them.
LEMMA OtherSaves ==
    ASSUME TypeOK, SavedInv, [Next]_vars, Private' => Private,
           Private /\ Private' =>
              /\ mounted' /\ file'.kind \in {"ok", "absent"}
              /\ ~(state'.pending /\ state'.conflict)
              /\ Attempts' /\ Known' /\ ShowsSaved'
              /\ \A c \in Client : OfRequest(c)'
    PROVE  SavedInv'
  BY RevertsStay DEF SavedInv

\* A step that only touches the row, the undo list or an attempt of the writer
\* that is not at its replacement.
LEMMA AsideSaves ==
    ASSUME TypeOK, SavedInv, [Next]_vars,
           UNCHANGED <<state, file, mounted, session, cmd, history.shared, history.away>>,
           writer.pc # "ackGrade" \/ writer' = writer \/ ~state.pending,
           writer'.pc # "ackGrade" \/ writer' = writer,
           Private /\ Attempts => Attempts'
    PROVE  SavedInv'
<1>1. Private' <=> Private
  BY DEF Private
<1>2. ASSUME Private, NEW c \in Client  PROVE OfRequest(c)'
  <2>1. OfRequest(c)
    BY <1>2 DEF SavedInv
  <2>2. Outdated(c) => Outdated(c)'
    BY DEF Outdated
  <2>3. ReadFile(c)'
    BY <2>1, <2>2 DEF OfRequest, ReadFile
  <2>4. \A v : Right(v)' <=> Right(v)
    BY DEF Right
  <2> QED
    BY <2>1, <2>3, <2>4 DEF OfRequest, Settled, Reloads, SavesShown, OpensRight, Adopts
<1>3. Private => Known' /\ ShowsSaved'
  BY DEF SavedInv, Known, ShowsSaved, Between, Right
<1> QED BY <1>1, <1>2, <1>3, OtherSaves DEF SavedInv

LEMMA EditSaves ==
    ASSUME TypeOK, SavedInv, [Next]_vars, NEW g \in Grade, Edit(g)
    PROVE  SavedInv'
<1>1. /\ session.open /\ session'.open /\ session'.dirty /\ session'.rev = session.rev + 1
      /\ SameGrades /\ UNCHANGED <<row, file, mounted, cmd, writer, history>>
  BY DEF Edit, TypeOK, Sessions, GradeState, SameGrades
<1>2. ASSUME Private, NEW c \in Client  PROVE OfRequest(c)'
  <2>1. OfRequest(c)
    BY <1>2 DEF SavedInv
  <2>2. ReadFile(c)' /\ Settled(c)'
    BY <1>1, <2>1 DEF OfRequest, ReadFile, Settled, Reloads, Outdated, SameGrades
  <2>3. SavesShown(c)'
    BY <1>1, <2>1 DEF OfRequest, SavesShown, TypeOK, Cmds, Sessions
  <2>4. OpensRight(c)'
    BY <1>1, <2>1, SameRight DEF OfRequest, OpensRight, Adopts, SameGrades
  <2> QED BY <1>1, <2>1, <2>2, <2>3, <2>4 DEF OfRequest
<1>3. Private => Attempts' /\ Known' /\ ShowsSaved'
  BY <1>1, SameAttempts DEF SavedInv, SameGrades, Known, ShowsSaved
<1>4. Private' <=> Private
  BY <1>1 DEF Private
<1> QED BY <1>1, <1>2, <1>3, <1>4, OtherSaves DEF SavedInv, SameGrades

\* Leaving the photo: its requests go on without it.
LEMMA LeaveSaves ==
    ASSUME TypeOK, SavedInv, [Next]_vars, Leave \/ LeaveUnsaved
    PROVE  SavedInv'
<1>1. /\ ~session'.open /\ ~Loading
      /\ state'.recovery \in {state.recovery, None}
      /\ SameGrades /\ UNCHANGED <<row, file, mounted, writer, history, budget>>
  BY DEF Leave, LeaveUnsaved, CloseSession, NoSession, TypeOK, GradeState, SameGrades, db
<1>2. ASSUME Private, NEW c \in Client  PROVE OfRequest(c)'
  <2>1. OfRequest(c)
    BY <1>2 DEF SavedInv
  <2>2. \/ cmd'[c] = IdleCmd
        \/ cmd'[c] = [cmd[c] EXCEPT !.live = FALSE]
    BY DEF Leave, LeaveUnsaved, CloseSession
  <2>3. CASE cmd'[c] = IdleCmd
    <3>1. cmd'[c].pc = "idle"
      BY <2>3, IdleFields
    <3> QED
      BY <1>1, <3>1
      DEF OfRequest, ReadFile, Settled, Reloads, SavesShown, OpensRight, Adopts
  <2>4. CASE cmd'[c] = [cmd[c] EXCEPT !.live = FALSE]
    <3>1. /\ cmd'[c].pc = cmd[c].pc /\ cmd'[c].grade = cmd[c].grade
          /\ cmd'[c].doc = cmd[c].doc /\ cmd'[c].arg = cmd[c].arg
      BY <2>4 DEF TypeOK, Cmds
    <3>2. cmd[c].pc \notin {"loading", "storing"}
      BY <1>1 DEF Loading
    <3>3. ReadFile(c)' /\ Settled(c)'
      BY <1>1, <2>1, <3>1 DEF OfRequest, ReadFile, Settled, Reloads, Outdated, SameGrades
    <3>4. OpensRight(c)'
      BY <1>1, <2>1, <3>1, <3>2, SameRight DEF OfRequest, OpensRight, Adopts, SameGrades
    <3> QED BY <1>1, <3>3, <3>4 DEF OfRequest, SavesShown
  <2> QED BY <2>2, <2>3, <2>4
<1>3. Private => Attempts' /\ Known' /\ ShowsSaved'
  BY <1>1, SameAttempts DEF SavedInv, SameGrades, Known, ShowsSaved
<1>4. Private' <=> Private
  BY <1>1 DEF Private
<1>5. budget'["reverts"] = 0
  BY <1>1 DEF SavedInv
<1> QED BY <1>1, <1>2, <1>3, <1>4, <1>5 DEF SavedInv, SameGrades

\* A revert that is refused: it found a grade in the file that the app does not
\* know while another one waits, and says so.
LEMMA RefusedSaves ==
    ASSUME TypeOK, SavedInv, [Next]_vars,
           NEW kind \in {"original", "saved", "previous"}, Revert(kind)
    PROVE  SavedInv'
<1> SUFFICES ASSUME Private  PROVE SavedInv'
  <2>1. Private' <=> Private
    BY DEF Revert, Private
  <2> QED BY <2>1, RevertsStay DEF SavedInv
<1>0. /\ mounted /\ file.kind \in {"ok", "absent"} /\ ~(state.pending /\ state.conflict)
      /\ Attempts /\ Known /\ ShowsSaved /\ \A c \in Client : OfRequest(c)
      /\ budget["reverts"] = 0
  BY DEF SavedInv
<1>1. /\ (state.pending \/ session.open) /\ Conflicting(state, file.grade)
      /\ state' = Checked(state, file.grade) /\ row' = Refreshed
      /\ ~state.conflict /\ Unlocked /\ ~Opening
      /\ UNCHANGED <<file, mounted, session, cmd, writer, history>>
  BY <1>0 DEF Revert, Spend
<1>2. state.pending /\ state.baseline # file.grade
  BY <1>0, <1>1 DEF Known, Conflicting
<1>3. /\ state'.conflict /\ ~state'.pending /\ state'.baseline # file'.grade
  BY <1>1, <1>2, CheckedGrades
<1>4. \A v : Right(v)'
  BY <1>3 DEF Right
<1>5. Attempts'
  <2>1. Holds' => Holds
    BY <1>1 DEF Refreshed, Holds, NoRow
  <2> QED BY <1>0, <1>1, <2>1 DEF Attempts, Conflicting, Unlocked
<1>6. ASSUME NEW c \in Client  PROVE OfRequest(c)'
  <2>1. OfRequest(c)
    BY <1>0
  <2>2. ~Outdated(c)
    BY <1>1, <1>2 DEF Outdated, Unlocked
  <2>3. ReadFile(c)'
    BY <1>1, <1>3, <2>1, <2>2 DEF OfRequest, ReadFile
  <2>4. cmd[c].pc \notin {"loading", "storing"}
    BY <1>1, <1>2, <2>1 DEF OfRequest, Settled, Reloads, Opening
  <2> QED
    BY <1>1, <1>2, <1>3, <1>4, <2>1, <2>3, <2>4
    DEF OfRequest, Settled, Reloads, SavesShown, OpensRight, Adopts
<1> QED BY <1>0, <1>1, <1>3, <1>4, <1>5, <1>6, OtherSaves DEF Known, ShowsSaved, Private

\* Marks: the queue entry is kept, renewed or deleted, and an attempt for the
\* one before is not written.
LEMMA MarksSaves ==
    ASSUME TypeOK, SavedInv, [Next]_vars,
           LibraryRead \/ (\E m \in Mark : MarkChange(m)) \/ UndoMarks
    PROVE  SavedInv'
<1>1. /\ UNCHANGED <<state, file, mounted, session, cmd, writer>>
      /\ UNCHANGED <<history.shared, history.away>>
  BY DEF LibraryRead, MarkChange, UndoMarks, TypeOK
<1>2. Holds' => Holds
  <2>1. CASE LibraryRead
    BY <2>1 DEF LibraryRead, Refreshed, Holds, NoRow
  <2>2. CASE \E m \in Mark : MarkChange(m)
    BY <2>2, QueuedElsewhere DEF MarkChange
  <2>3. CASE UndoMarks
    <3>1. \/ row' = NoRow
          \/ \E r \in Revision : Fresh(r) /\ row' = Queued(undo[Len(undo)].marks, r)
      BY <2>3 DEF UndoMarks
    <3> QED BY <1>1, <3>1, QueuedElsewhere DEF Holds, NoRow
  <2> QED BY <2>1, <2>2, <2>3
<1>3. Attempts => Attempts'
  BY <1>1, <1>2 DEF Attempts
<1> QED BY <1>1, <1>3, AsideSaves

\* The steps of an attempt before it replaces the file, but for the merge.
LEMMA AttemptSaves ==
    ASSUME TypeOK, WriterInv, SavedInv, [Next]_vars,
           WriterSnapshot \/ WriterRead \/ WriterFault \/ WriterRecheck \/ WriterAckQueue
    PROVE  SavedInv'
<1>1. UNCHANGED <<state, file, mounted, session, cmd, history>>
  BY DEF WriterSnapshot, WriterRead, WriterFault, WriterRecheck, WriterAckQueue, db
<1>2. /\ writer.pc # "ackGrade" /\ writer'.pc # "ackGrade"
      /\ Private /\ Attempts => Attempts'
  <2>1. CASE WriterSnapshot
    BY <2>1 DEF WriterSnapshot, Attempts, IdleWriter
  <2>2. CASE WriterRead
    <3>1. CASE ReadSettings.kind = "garbled"
      BY <2>2, <3>1 DEF WriterRead, WriterRest, IdleWriter, Attempts
    <3>2. CASE ReadSettings.kind # "garbled"
      <4>1. writer' = [writer EXCEPT !.pc = "merge", !.seen = ReadSettings]
            /\ writer.pc = "read"
        BY <2>2, <3>2 DEF WriterRead
      <4>2. writer'.pc = "merge" /\ writer'.seen = ReadSettings
        BY <4>1 DEF TypeOK, Writers
      <4>3. Private => ReadSettings = file
        BY DEF SavedInv, ReadSettings
      <4> QED BY <1>1, <4>1, <4>2, <4>3 DEF Attempts
    <3> QED BY <3>1, <3>2
  <2>3. CASE WriterFault
    BY <2>3 DEF WriterFault, WriterRest, IdleWriter, Attempts
  <2>4. CASE WriterRecheck
    <3>1. CASE writer' = [writer EXCEPT !.pc = "replace"]
      <4>1. /\ writer'.pc = "replace" /\ writer'.seen = writer.seen
            /\ writer'.doc = writer.doc /\ writer'.rev = writer.rev
        BY <3>1 DEF TypeOK, Writers
      <4>2. row' = row /\ writer.pc = "prepared"
        BY <2>4 DEF WriterRecheck, db
      <4> QED BY <1>1, <4>1, <4>2 DEF Attempts, Holds
    <3>2. CASE WriterRest
      BY <2>4, <3>2 DEF WriterRecheck, WriterRest, IdleWriter, Attempts
    <3> QED BY <2>4, <3>1, <3>2 DEF WriterRecheck
  <2>5. CASE WriterAckQueue
    BY <2>5 DEF WriterAckQueue, WriterRest, IdleWriter, Attempts
  <2> QED BY <2>1, <2>2, <2>3, <2>4, <2>5
<1> QED BY <1>1, <1>2, AsideSaves

\* The merge, of the file as it is: what waits stays and will be written over
\* the known grade, or is paused.
LEMMA MergeSaves ==
    ASSUME TypeOK, SavedInv, [Next]_vars, WriterMerge
    PROVE  SavedInv'
<1>1. /\ writer.pc = "merge" /\ UNCHANGED <<row, file, mounted, session, cmd, history>>
  BY DEF WriterMerge
<1>2. Private' <=> Private
  BY <1>1 DEF Private
<1> SUFFICES ASSUME Private  PROVE SavedInv'
  BY <1>2, RevertsStay DEF SavedInv
<1>0. /\ mounted /\ file.kind \in {"ok", "absent"} /\ ~(state.pending /\ state.conflict)
      /\ Attempts /\ Known /\ ShowsSaved /\ \A c \in Client : OfRequest(c)
  BY DEF SavedInv
<1> DEFINE mine == state.pending /\ ~Conflicting(state, file.grade)
           written == IF mine THEN state.desired ELSE file.grade
<1>3. /\ state' = IF state.pending THEN Checked(state, file.grade) ELSE state
      /\ writer' = [writer EXCEPT !.pc = "prepared",
                                  !.doc = Document("ok", written, writer.marks)]
  BY <1>0, <1>1 DEF WriterMerge, GradeIn, Attempts
<1> HIDE DEF written
<1>4. /\ writer'.pc = "prepared" /\ writer'.seen = file
      /\ writer'.doc.kind = "ok" /\ writer'.doc.grade = written
  BY <1>0, <1>1, <1>3 DEF TypeOK, Writers, Document, Attempts
<1>5. CASE state.pending /\ Conflicting(state, file.grade)
  <2>1. /\ state'.conflict /\ ~state'.pending /\ state'.baseline # file'.grade
    BY <1>1, <1>3, <1>5, CheckedGrades DEF Conflicting
  <2>2. \A v : Right(v)'
    BY <2>1 DEF Right
  <2>3. Attempts'
    BY <1>1, <1>4, <1>5 DEF Attempts, written
  <2>4. ASSUME NEW c \in Client  PROVE OfRequest(c)'
    <3>1. OfRequest(c) /\ ~Outdated(c)
      BY <1>0, <1>1, <1>5 DEF Outdated
    <3> QED
      BY <1>1, <1>5, <2>1, <2>2, <3>1
      DEF OfRequest, ReadFile, Settled, Reloads, SavesShown, OpensRight, Adopts
  <2> QED BY <1>0, <1>1, <1>2, <2>1, <2>2, <2>3, <2>4, OtherSaves DEF Known, ShowsSaved
<1>6. CASE ~(state.pending /\ Conflicting(state, file.grade))
  <2>1. state' = state
    BY <1>0, <1>3, <1>6 DEF Checked
  <2>2. Attempts'
    BY <1>1, <1>4, <1>6, <2>1 DEF Attempts, Conflicting, written
  <2> QED BY <1>1, <1>4, <2>1, <2>2, AsideSaves
<1> QED BY <1>5, <1>6

\* The replacement: a request that read the file before has an outdated grade,
\* and the baseline or the grade that waits will tell.
LEMMA ReplaceSaves ==
    ASSUME TypeOK, WriterInv, SavedInv, [Next]_vars, WriterReplace
    PROVE  SavedInv'
<1>1. /\ writer.pc = "replace" /\ UNCHANGED <<state, row, mounted, session, cmd>>
      /\ history'.shared = history.shared /\ history'.away = history.away
  BY DEF WriterReplace, db, TypeOK
<1>2. Private' <=> Private
  BY <1>1 DEF Private
<1> SUFFICES ASSUME Private  PROVE SavedInv'
  BY <1>2, RevertsStay DEF SavedInv
<1>0. /\ mounted /\ file.kind \in {"ok", "absent"} /\ ~(state.pending /\ state.conflict)
      /\ Attempts /\ Known /\ ShowsSaved /\ \A c \in Client : OfRequest(c)
  BY DEF SavedInv
<1>3. file' = writer.doc /\ writer' = [writer EXCEPT !.pc = "ackGrade"]
  BY <1>0, <1>1 DEF WriterReplace
<1>4. writer'.pc = "ackGrade" /\ writer'.doc = writer.doc
  BY <1>3 DEF TypeOK, Writers
<1>5. Attempts' /\ file'.kind = "ok"
  BY <1>0, <1>1, <1>3, <1>4 DEF Attempts
<1>6. \/ file'.grade = file.grade
      \/ /\ state.pending /\ file.grade = state.baseline
         /\ state.desired = file'.grade /\ file'.grade # file.grade
  BY <1>0, <1>1, <1>3 DEF Attempts, WriterInv, Unlocked
<1>7. ASSUME NEW v  PROVE Right(v)' <=> Right(v)
  BY <1>1, <1>6 DEF Right
<1>8. Known' /\ ShowsSaved'
  BY <1>0, <1>1, <1>6, <1>7 DEF Known, ShowsSaved, Between
<1>9. ASSUME NEW c \in Client  PROVE OfRequest(c)'
  <2>1. OfRequest(c)
    BY <1>0
  <2>2. CASE file'.grade = file.grade
    <3>1. Outdated(c) => Outdated(c)'
      BY <1>1, <2>2 DEF Outdated
    <3> QED
      BY <1>1, <1>7, <2>1, <2>2, <3>1
      DEF OfRequest, ReadFile, Settled, Reloads, SavesShown, OpensRight, Adopts
  <2>3. CASE file'.grade # file.grade
    <3>1. state.pending /\ file.grade = state.baseline /\ state.desired = file'.grade
      BY <1>6, <2>3
    <3>2. ReadFile(c)'
      <4>1. Outdated(c)'
        BY <1>1, <1>4, <2>1, <2>3, <3>1 DEF OfRequest, ReadFile, Outdated
      <4> QED BY <1>1, <2>1, <3>1, <4>1 DEF OfRequest, ReadFile
    <3> QED
      BY <1>1, <1>7, <2>1, <3>1, <3>2
      DEF OfRequest, Settled, Reloads, SavesShown, OpensRight, Adopts
  <2> QED BY <2>2, <2>3
<1> QED BY <1>0, <1>1, <1>2, <1>5, <1>8, <1>9, OtherSaves

\* The acknowledgement: the grade that waited is now the baseline and the file's.
LEMMA AckSaves ==
    ASSUME TypeOK, WriterInv, SavedInv, [Next]_vars, WriterAckGrade
    PROVE  SavedInv'
<1>1. /\ writer.pc = "ackGrade" /\ UNCHANGED <<row, file, mounted, session, cmd, history>>
      /\ writer' = [writer EXCEPT !.pc = "ackQueue"] /\ writer'.pc = "ackQueue"
  BY DEF WriterAckGrade, TypeOK, Writers
<1>2. Private' <=> Private
  BY <1>1 DEF Private
<1> SUFFICES ASSUME Private  PROVE SavedInv'
  BY <1>2, RevertsStay DEF SavedInv
<1>0. /\ mounted /\ file.kind \in {"ok", "absent"} /\ ~(state.pending /\ state.conflict)
      /\ Attempts /\ Known /\ ShowsSaved /\ \A c \in Client : OfRequest(c)
  BY DEF SavedInv
<1>3. Attempts'
  BY <1>1 DEF Attempts
<1>4. CASE state.pending
  <2>1. writer.doc.grade = state.desired /\ file.grade = state.desired
    BY <1>0, <1>1, <1>4 DEF WriterInv, Unlocked, Attempts
  <2>2. /\ state'.baseline = file'.grade /\ ~state'.pending /\ ~state'.conflict
    BY <1>0, <1>1, <1>4, <2>1 DEF WriterAckGrade, TypeOK, GradeState
  <2>3. ASSUME NEW v, Right(v)  PROVE Right(v)'
    BY <1>1, <1>4, <2>1, <2>2, <2>3 DEF Right
  <2>4. Known' /\ ShowsSaved'
    BY <1>0, <1>1, <2>2, <2>3 DEF Known, ShowsSaved, Between
  <2>5. ASSUME NEW c \in Client  PROVE OfRequest(c)'
    <3>1. OfRequest(c)
      BY <1>0
    <3>2. Outdated(c) => Outdated(c)'
      BY <1>1, <1>4, <2>1, <2>2 DEF Outdated
    <3>3. ReadFile(c)'
      BY <1>1, <2>2, <3>1, <3>2 DEF OfRequest, ReadFile
    <3>4. OpensRight(c)'
      BY <1>0, <1>1, <1>4, <2>1, <2>2, <2>3, <3>1 DEF OfRequest, OpensRight, Adopts
    <3> QED
      BY <1>1, <1>4, <2>2, <3>1, <3>3, <3>4
      DEF OfRequest, Settled, Reloads, SavesShown
  <2> QED BY <1>0, <1>1, <1>2, <1>3, <2>2, <2>4, <2>5, OtherSaves
<1>5. CASE ~state.pending
  <2>1. state' = state
    BY <1>5 DEF WriterAckGrade
  <2> QED BY <1>1, <1>3, <1>5, <2>1, AsideSaves
<1> QED BY <1>4, <1>5

LEMMA EnvironmentSaves ==
    ASSUME TypeOK, SavedInv, [Next]_vars, Environment
    PROVE  SavedInv'
<1>1. CASE OtherProgram \/ Unplug
  <2>1. ~Private'
    BY <1>1 DEF OtherProgram, Unplug, Private, TypeOK
  <2> QED BY <2>1, OtherSaves
<1>2. CASE Replug
  <2>1. ~Private /\ (Private' <=> Private)
    BY <1>2 DEF Replug, SavedInv, Private
  <2> QED BY <2>1, OtherSaves
<1>3. CASE Crash
  <2>1. /\ ~session'.open /\ UNCHANGED <<state, row, file, mounted, history>>
        /\ writer' = IdleWriter /\ \A c \in Client : cmd'[c].pc = "idle"
    BY <1>3, IdleFields DEF Crash, NoSession, db
  <2>2. Attempts'
    BY <2>1 DEF Attempts, IdleWriter
  <2>3. \A c \in Client : OfRequest(c)'
    BY <2>1 DEF OfRequest, ReadFile, Settled, Reloads, SavesShown, OpensRight, Adopts
  <2> QED BY <2>1, <2>2, <2>3, OtherSaves DEF SavedInv, Known, ShowsSaved, Private
<1> QED BY <1>1, <1>2, <1>3 DEF Environment

LEMMA NextSaves ==
    ASSUME TypeOK, WriterInv, RecoveryInv, SavedInv, OneRequest, [Next]_vars
    PROVE  SavedInv'
<1>1. CASE UNCHANGED vars
  BY <1>1, AsideSaves DEF vars, Attempts, Holds
<1>2. CASE User
  BY <1>2, EditSaves, LeaveSaves, RefusedSaves, MarksSaves DEF User
<1>3. CASE WriterStep
  BY <1>3, AttemptSaves, MergeSaves, ReplaceSaves, AckSaves DEF WriterStep
<1> QED BY <1>1, <1>2, <1>3, RequestSaves, EnvironmentSaves DEF Next

LEMMA InitSaves == ASSUME Unreverted  PROVE Init => SavedInv
  BY DEF Unreverted, Init, SavedInv, Absent, Document, NoSession, IdleWriter, IdleCmd,
         EmptyState, Attempts, Known, ShowsSaved, OfRequest, ReadFile, Settled, Reloads,
         SavesShown, OpensRight, Adopts

\* "All changes saved" is true for a page that waits for each of its requests,
\* as long as nothing is reverted: whatever is edited and marked meanwhile,
\* wherever a write fails and wherever a crash falls, a photo without unsaved
\* work, waiting grade or conflict shows the grade that is in its file.
THEOREM AllChangesAreSaved ==
    ASSUME OneRequest, Unreverted
    PROVE  Spec => []AllChangesSaved
<1>1. SavedInv => AllChangesSaved
  BY GradeAssumption
  DEF SavedInv, Private, ShowsSaved, Between, Right, AllChangesSaved, Quiet
<1> QED
  BY <1>1, InitSaves, NextSaves, TypeCorrect, WriterHoldsCurrent, RecoveryHolds, PTL DEF Spec
-----------------------------------------------------------------------------
(* No grade is overwritten unseen, for a page that waits for each of its    *)
(* requests and at most one write of another program.                       *)

\* Another program writes the settings file at most once: the fingerprint the
\* writer rechecks is of the content, and two writes can restore an old one.
OneOutside == \A s \in Scenarios : s["external"] <= 1
Spent == budget["external"] = 0

\* An attempt that will put another grade in the place of the file's, and what
\* can still become one.
Overwrites ==
    /\ writer.pc \in {"prepared", "replace"}
    /\ file = writer.seen /\ writer.doc.grade # file.grade
MayOverwrite == Overwrites \/ (state.pending /\ writer.pc # "ackGrade")

\* A request of a photo that is open; a load under way keeps it open.
Held(c) ==
    /\ cmd[c].pc # "idle" /\ cmd[c].live => session.open
    /\ cmd[c].pc \in {"loading", "storing"} => cmd[c].live

\* The grade the user chooses in the dialog is the one an attempt overwrites:
\* nothing waits there, or only the writer can have changed the file since.
Dialog == {"asking", "resolveRead", "resolveFinish"}
Chosen(c) ==
    cmd[c].pc \in Dialog /\ cmd[c].live =>
        /\ state.pending => Spent
        /\ cmd[c].pc = "resolveFinish" /\ MayOverwrite => cmd[c].doc.grade = file.grade

\* What a check found is in the file while a grade that no longer waits is
\* still being written; what a save could not read, another program damaged.
Looked(c) ==
    /\ cmd[c].pc = "saveCommit" =>
          cmd[c].doc.kind # "offline" /\ (cmd[c].doc.kind = "garbled" => Spent)
    /\ cmd[c].pc = "checkFinish" /\ cmd[c].live /\ Overwrites
          /\ ~state.pending /\ ~state.conflict =>
          cmd[c].doc.grade = file.grade

\* A reload of the file's grade, which will be the baseline.
Fetched(c) ==
    \/ cmd[c].pc = "reload" /\ cmd[c].live
    \/ cmd[c].pc \in {"loading", "storing"} /\ cmd[c].arg = "reload" /\ ~cmd[c].snap.pending
Fetches(c) ==
    Fetched(c) => ~state.pending /\ (Overwrites => cmd[c].grade = file.grade)

KnownOf(c) == Held(c) /\ Chosen(c) /\ Looked(c) /\ Fetches(c)

\* The file: an attempt is about the file as it is, or another program wrote it
\* since; and what it overwrites is the baseline.
FileKnown ==
    /\ file.kind # "offline" /\ (file.kind = "garbled" => Spent)
    /\ writer.pc \in {"merge", "prepared", "replace"} /\ file # writer.seen => Spent
    /\ writer.pc \in {"prepared", "replace"} => writer.doc.kind = "ok"
    /\ writer.pc = "replace" /\ ~history.raced => file = writer.seen
    /\ state.conflict /\ state.pending => Spent
    /\ Overwrites => file.grade = state.baseline

KnownInv ==
    /\ budget["external"] <= 1
    /\ ~mounted => history.away
    /\ ~history.away => FileKnown /\ \A c \in Client : KnownOf(c)

\* What is left to show of the step of a request.
LEMMA StepKnows ==
    ASSUME TypeOK, OneRequest, KnownInv, NEW c \in Client, Request(c),
           ~history.away =>
              /\ state'.conflict /\ state'.pending => Spent
              /\ Overwrites => file.grade = state'.baseline
              /\ KnownOf(c)'
    PROVE  KnownInv'
<1>1. UNCHANGED <<file, mounted, writer, undo, history, budget>>
  BY FileStays
<1>2. \A d \in Client : d = c
  BY DEF OneRequest
<1>3. Spent' = Spent /\ Overwrites' = Overwrites
  BY <1>1 DEF Spent, Overwrites
<1>4. ~history.away => FileKnown'
  BY <1>1, <1>3 DEF KnownInv, FileKnown
<1> QED BY <1>1, <1>2, <1>4 DEF KnownInv

\* What a request leaves of the file and the writer.
LEMMA StepsAside ==
    ASSUME TypeOK, NEW c \in Client, Request(c)
    PROVE  /\ UNCHANGED <<file, mounted, writer, history, budget>>
           /\ Spent' = Spent /\ Overwrites' = Overwrites
  BY FileStays DEF Spent, Overwrites

\* A request that neither holds a read of the file nor loads a grade.
Parked == {"idle", "offer", "restore", "saveRead", "checkRead", "resave", "discard"}
LEMMA ParkedKnows ==
    ASSUME NEW c \in Client, cmd'[c].pc \in Parked,
           cmd'[c].pc # "idle" /\ cmd'[c].live => session'.open
    PROVE  KnownOf(c)'
  BY DEF Parked, KnownOf, Held, Chosen, Looked, Fetches, Fetched, Dialog

\* A request as it was, when no wait begins and none ends under an attempt.
LEMMA StillKnows ==
    ASSUME NEW c \in Client, KnownOf(c), cmd'[c] = cmd[c],
           file'.grade = file.grade, session'.open = session.open, Spent => Spent',
           state'.pending => state.pending,
           MayOverwrite' => MayOverwrite,
           Overwrites' /\ ~state'.pending =>
              Overwrites /\ ~state.pending /\ (state.conflict => state'.conflict)
    PROVE  KnownOf(c)'
<1>1. Held(c)' /\ Chosen(c)'
  BY DEF KnownOf, Held, Chosen
<1>2. Looked(c)'
  BY DEF KnownOf, Looked
<1>3. Fetches(c)'
  BY DEF KnownOf, Fetches, Fetched
<1> QED BY <1>1, <1>2, <1>3 DEF KnownOf

LEMMA AttachKnows ==
    ASSUME TypeOK, KnownInv, OneRequest, NEW c \in Client, Request(c), Attach(c)
    PROVE  KnownInv'
<1> DEFINE saved == IF state.pending THEN state.desired ELSE file.grade
           offer == IF state.pending THEN None ELSE state.recovery
           next == [IdleCmd EXCEPT
                 !.pc = IF saved # None THEN "adopt"
                        ELSE IF offer # None THEN "offer" ELSE "idle",
                 !.grade = saved, !.alt = offer]
<1>1. /\ cmd'[c] = next
      /\ next.pc \in {"adopt", "offer", "idle"} /\ next.grade = saved
  BY OneMoves DEF Attach, IdleCmd
<1>2. session'.open
  BY DEF Attach, NoSession
<1>3. /\ state'.pending = state.pending /\ state'.conflict = state.conflict
      /\ state'.baseline \in {state.baseline, file.grade}
  BY DEF Attach, TypeOK, GradeState
<1>4. UNCHANGED file /\ Overwrites' = Overwrites
  BY StepsAside
<1> HIDE DEF next
<1>5. KnownOf(c)'
  BY <1>1, <1>2, <1>3, <1>4
  DEF KnownOf, Held, Chosen, Looked, Fetches, Fetched, Dialog
<1> QED BY <1>3, <1>5, StepKnows DEF KnownInv, FileKnown

LEMMA ParkingKnows ==
    ASSUME TypeOK, KnownInv, OneRequest, NEW c \in Client, Request(c),
           ChooseRestore(c) \/ ChooseSaved(c) \/ LoadDiscard(c) \/ SaveBegin(c) \/ Gone(c)
    PROVE  KnownInv'
<1>1. /\ state'.pending = state.pending /\ state'.conflict = state.conflict
      /\ state'.baseline = state.baseline /\ session' = session
  BY DEF ChooseRestore, ChooseSaved, LoadDiscard, SaveBegin, Gone, TypeOK, GradeState, db
<1>2. cmd'[c].pc \in Parked
  <2>1. CASE ChooseRestore(c)
    BY <2>1, OneMoves DEF ChooseRestore, Goto, TypeOK, Cmds, Parked
  <2>2. CASE SaveBegin(c)
    <3>1. cmd'[c] = [IdleCmd EXCEPT !.pc = "saveRead", !.grade = session.grade,
                                    !.rev = session.rev]
      BY <2>2, OneMoves DEF SaveBegin
    <3> QED BY <3>1 DEF IdleCmd, Parked
  <2>3. CASE ChooseSaved(c) \/ LoadDiscard(c) \/ Gone(c)
    BY <2>3, OneMoves, IdleFields DEF ChooseSaved, LoadDiscard, Gone, Done, Parked
  <2> QED BY <2>1, <2>2, <2>3
<1>3. ~history.away /\ cmd'[c].pc # "idle" /\ cmd'[c].live => session'.open
  <2>1. CASE ChooseRestore(c)
    <3>1. cmd[c].pc # "idle" /\ cmd'[c].live = cmd[c].live
      BY <2>1, OneMoves DEF ChooseRestore, Goto, TypeOK, Cmds
    <3> QED BY <1>1, <3>1 DEF KnownInv, KnownOf, Held
  <2>2. CASE SaveBegin(c)
    BY <1>1, <2>2 DEF SaveBegin
  <2>3. CASE ChooseSaved(c) \/ LoadDiscard(c) \/ Gone(c)
    BY <2>3, OneMoves, IdleFields DEF ChooseSaved, LoadDiscard, Gone, Done
  <2> QED BY <2>1, <2>2, <2>3
<1>4. ~history.away => KnownOf(c)'
  BY <1>2, <1>3, ParkedKnows
<1> QED BY <1>1, <1>4, StepKnows DEF KnownInv, FileKnown

LEMMA LoadBeginKnows ==
    ASSUME TypeOK, KnownInv, OneRequest, NEW c \in Client, Request(c), LoadBegin(c)
    PROVE  KnownInv'
<1>1. /\ cmd[c].pc \in {"adopt", "restore", "reload"} /\ cmd[c].live /\ cmd'[c].live
      /\ cmd'[c].pc = "loading" /\ cmd'[c].arg = cmd[c].pc /\ cmd'[c].snap = state
      /\ cmd'[c].grade = cmd[c].grade
  <2>1. cmd'[c] = [cmd[c] EXCEPT !.pc = "loading", !.arg = cmd[c].pc, !.snap = state]
    BY OneMoves DEF LoadBegin
  <2>2. cmd[c] \in Cmds /\ cmd[c].pc \in {"adopt", "restore", "reload"} /\ cmd[c].live
    BY DEF LoadBegin, TypeOK
  <2> QED BY <2>1, <2>2 DEF Cmds
<1>2. UNCHANGED <<state, file, session>> /\ Overwrites' = Overwrites
  BY StepsAside DEF LoadBegin, db
<1>3. ASSUME ~history.away  PROVE KnownOf(c)'
  BY <1>1, <1>2, <1>3
  DEF KnownInv, KnownOf, Held, Chosen, Looked, Fetches, Fetched, Dialog
<1> QED BY <1>2, <1>3, StepKnows DEF KnownInv, FileKnown

LEMMA LoadOpenKnows ==
    ASSUME TypeOK, KnownInv, OneRequest, NEW c \in Client, Request(c), LoadOpen(c)
    PROVE  KnownInv'
<1>1. cmd[c].pc = "loading" /\ cmd'[c] = [cmd[c] EXCEPT !.pc = "storing"]
  BY DEF LoadOpen, TypeOK
<1>2. /\ cmd'[c].pc = "storing" /\ cmd'[c].arg = cmd[c].arg /\ cmd'[c].live = cmd[c].live
      /\ cmd'[c].snap = cmd[c].snap /\ cmd'[c].grade = cmd[c].grade
  BY <1>1 DEF TypeOK, Cmds
<1>3. session'.open
  BY DEF LoadOpen
<1>4. UNCHANGED <<state, file>> /\ Overwrites' = Overwrites
  BY StepsAside DEF LoadOpen, db
<1>5. ASSUME ~history.away  PROVE KnownOf(c)'
  BY <1>1, <1>2, <1>3, <1>4, <1>5
  DEF KnownInv, KnownOf, Held, Chosen, Looked, Fetches, Fetched, Dialog
<1> QED BY <1>4, <1>5, StepKnows DEF KnownInv, FileKnown

\* The baseline that a reload stores is the grade in the file, while an attempt
\* would overwrite it.
LEMMA LoadStoreKnows ==
    ASSUME TypeOK, KnownInv, OneRequest, NEW c \in Client, Request(c), LoadStore(c)
    PROVE  KnownInv'
<1>1. cmd[c].pc = "storing" /\ session' = session /\ cmd[c].snap \in GradeState
  BY DEF LoadStore, TypeOK, Cmds
<1>2. cmd'[c].pc \in Parked
  <2>1. \/ cmd'[c] = [cmd[c] EXCEPT !.pc = "discard"]
        \/ cmd'[c] = [IdleCmd EXCEPT !.pc = "offer", !.alt = cmd[c].alt]
        \/ cmd'[c] = IdleCmd
    BY OneMoves DEF LoadStore
  <2>2. [cmd[c] EXCEPT !.pc = "discard"].pc = "discard"
    BY DEF TypeOK, Cmds
  <2>3. [IdleCmd EXCEPT !.pc = "offer", !.alt = cmd[c].alt].pc = "offer"
    BY DEF IdleCmd
  <2> QED BY <2>1, <2>2, <2>3, IdleFields DEF Parked
<1>3. CASE cmd[c].arg = "reload" /\ ~cmd[c].snap.pending /\ ~cmd[c].snap.conflict
  <2>1. ~state'.pending /\ state'.baseline = cmd[c].grade
    BY <1>1, <1>3 DEF LoadStore, GradeState
  <2>2. ASSUME ~history.away, Overwrites  PROVE file.grade = cmd[c].grade
    BY <1>1, <1>3, <2>2 DEF KnownInv, KnownOf, Fetches, Fetched
  <2>3. ASSUME ~history.away  PROVE KnownOf(c)'
    BY <1>1, <1>2, <2>3, ParkedKnows DEF KnownInv, KnownOf, Held
  <2> QED BY <2>1, <2>2, <2>3, StepKnows
<1>4. CASE ~(cmd[c].arg = "reload" /\ ~cmd[c].snap.pending /\ ~cmd[c].snap.conflict)
  <2>1. state' = state
    BY <1>4 DEF LoadStore
  <2>2. ASSUME ~history.away  PROVE KnownOf(c)'
    BY <1>1, <1>2, <2>2, ParkedKnows DEF KnownInv, KnownOf, Held
  <2> QED BY <2>1, <2>2, StepKnows DEF KnownInv, FileKnown
<1> QED BY <1>3, <1>4

\* A save begins to wait in a conflict only when it could not read the file.
LEMMA SavingKnows ==
    ASSUME TypeOK, KnownInv, OneRequest, NEW c \in Client, Request(c),
           SaveRead(c) \/ SaveConflict(c) \/ SaveCommit(c)
    PROVE  KnownInv'
<1>1. CASE SaveRead(c)
  <2>1. /\ cmd[c].pc = "saveRead" /\ cmd'[c].pc = "saveCommit"
        /\ cmd'[c].live = cmd[c].live /\ cmd'[c].doc = ReadSettings
    <3>1. cmd'[c] = [cmd[c] EXCEPT !.pc = "saveCommit", !.doc = ReadSettings]
      BY <1>1, OneMoves DEF SaveRead
    <3> QED BY <1>1, <3>1 DEF SaveRead, TypeOK, Cmds
  <2>2. UNCHANGED <<state, session>> /\ Spent' = Spent
    BY <1>1, StepsAside DEF SaveRead, db
  <2>3. ASSUME ~history.away  PROVE KnownOf(c)'
    <3>1. mounted /\ ReadSettings = file
      BY <2>3 DEF KnownInv, ReadSettings
    <3>2. ReadSettings.kind # "offline" /\ (ReadSettings.kind = "garbled" => Spent)
      BY <2>3, <3>1 DEF KnownInv, FileKnown
    <3> QED
      BY <2>1, <2>2, <2>3, <3>2
      DEF KnownInv, KnownOf, Held, Chosen, Looked, Fetches, Fetched, Dialog
  <2> QED BY <2>2, <2>3, StepKnows DEF KnownInv, FileKnown
<1>2. CASE SaveConflict(c)
  <2>1. cmd'[c].pc = "idle"
    BY <1>2, OneMoves, IdleFields DEF SaveConflict, Done
  <2>2. ~state'.pending /\ state'.baseline = state.baseline
    BY <1>2, CheckedGrades DEF SaveConflict
  <2>3. KnownOf(c)'
    BY <2>1, ParkedKnows DEF Parked
  <2> QED BY <2>2, <2>3, StepKnows DEF KnownInv, FileKnown
<1>3. CASE SaveCommit(c)
  <2> DEFINE doc == cmd[c].doc
             known == IF Comparable(doc) THEN Checked(state, GradeIn(doc)) ELSE state
  <2>1. cmd'[c].pc = "idle" /\ cmd[c].pc = "saveCommit"
    BY <1>3, OneMoves, IdleFields DEF SaveCommit, Done
  <2>2. KnownOf(c)'
    BY <2>1, ParkedKnows DEF Parked
  <2>3. /\ state' = [known EXCEPT !.desired = cmd[c].grade, !.pending = TRUE]
        /\ Comparable(doc) => ~Conflicting(state, GradeIn(doc))
    BY <1>3 DEF SaveCommit
  <2>4. CASE Comparable(doc)
    <3>1. /\ known.baseline = state.baseline
          /\ known.conflict => state.conflict /\ state.pending
      BY <2>3, <2>4 DEF Checked, Conflicting, TypeOK, GradeState
    <3>2. known \in GradeState
      BY <2>4, CheckedType DEF TypeOK, Cmds, Documents, GradeIn
    <3> HIDE DEF known
    <3>3. state'.baseline = known.baseline /\ state'.conflict = known.conflict
      BY <2>3, <3>2 DEF GradeState
    <3> QED BY <2>2, <3>1, <3>3, StepKnows DEF KnownInv, FileKnown
  <2>5. CASE ~Comparable(doc)
    <3>1. state'.baseline = state.baseline
      BY <2>3, <2>5 DEF TypeOK, GradeState
    <3>2. ~history.away => Spent
      BY <2>1, <2>5 DEF KnownInv, KnownOf, Looked, Comparable
    <3> QED BY <2>2, <3>1, <3>2, StepKnows DEF KnownInv, FileKnown
  <2> QED BY <2>4, <2>5
<1> QED BY <1>1, <1>2, <1>3

\* A check's dialog opens only about a conflict.
LEMMA LookKnows ==
    ASSUME TypeOK, KnownInv, OneRequest, NEW c \in Client, Request(c),
           CheckBegin(c) \/ CheckRead(c)
    PROVE  KnownInv'
<1>0. UNCHANGED <<state, session, file>> /\ Overwrites' = Overwrites
  BY StepsAside DEF CheckBegin, CheckRead, db
<1>1. CASE CheckBegin(c)
  <2>1. ASSUME ~history.away  PROVE KnownOf(c)'
    <3>1. mounted
      BY <2>1 DEF KnownInv
    <3>2. PICK u \in {"unsaved", "none"} :
             cmd'[c] = [IdleCmd EXCEPT !.pc = "checkRead", !.grade = state.baseline, !.arg = u]
      <4>1. PICK unsaved \in BOOLEAN :
               Become(c, [IdleCmd EXCEPT !.pc = "checkRead", !.grade = state.baseline,
                                         !.arg = IF unsaved THEN "unsaved" ELSE "none"])
        BY <1>1, <3>1 DEF CheckBegin
      <4> QED BY <4>1, OneMoves
    <3>3. cmd'[c].pc \in Parked
      BY <3>2 DEF IdleCmd, Parked
    <3>4. session'.open
      BY <1>0, <1>1 DEF CheckBegin
    <3> QED BY <3>3, <3>4, ParkedKnows
  <2> QED BY <1>0, <2>1, StepKnows DEF KnownInv, FileKnown
<1>2. CASE CheckRead(c)
  <2>1. /\ cmd[c].pc = "checkRead" /\ cmd'[c].pc = "checkFinish"
        /\ cmd'[c].live = cmd[c].live /\ cmd'[c].doc = ReadSettings
    <3>1. cmd'[c] = [cmd[c] EXCEPT !.pc = "checkFinish", !.doc = ReadSettings]
      BY <1>2, OneMoves DEF CheckRead
    <3> QED BY <1>2, <3>1 DEF CheckRead, TypeOK, Cmds
  <2>2. ASSUME ~history.away  PROVE KnownOf(c)'
    <3>1. ReadSettings = file
      BY <2>2 DEF KnownInv, ReadSettings
    <3> QED
      BY <1>0, <2>1, <2>2, <3>1
      DEF KnownInv, KnownOf, Held, Chosen, Looked, Fetches, Fetched, Dialog
  <2> QED BY <1>0, <2>2, StepKnows DEF KnownInv, FileKnown
<1> QED BY <1>1, <1>2

\* The end of a check: what it loads instead is not what an attempt overwrites.
LEMMA CheckFinishKnows ==
    ASSUME TypeOK, KnownInv, OneRequest, NEW c \in Client, Request(c), CheckFinish(c)
    PROVE  KnownInv'
<1> DEFINE g == GradeIn(cmd[c].doc)
           guarded == cmd[c].arg = "unsaved" \/ session.dirty
                      \/ state.pending \/ state.conflict
           stale == \/ ~cmd[c].live \/ state.baseline # cmd[c].grade
                    \/ cmd[c].doc.kind = "garbled"
           reload == ~stale /\ g # state.baseline /\ ~guarded
           next == IF stale \/ reload \/ (g = state.baseline /\ ~state.conflict)
                   THEN state ELSE Checked(state, g)
<1>1. /\ cmd[c].pc = "checkFinish" /\ UNCHANGED <<session, file>>
      /\ state' = next
      /\ cmd'[c] = IF reload THEN [IdleCmd EXCEPT !.pc = "reload", !.grade = g]
                             ELSE Replied(next, cmd[c].live)
      /\ Overwrites' = Overwrites /\ Spent' = Spent
  BY OneMoves, StepsAside DEF CheckFinish
<1>2. CASE reload
  <2>1. state' = state /\ cmd'[c].pc = "reload" /\ cmd'[c].live
    BY <1>1, <1>2 DEF IdleCmd
  <2>2. ASSUME ~history.away  PROVE KnownOf(c)'
    <3>1. ~Overwrites
      BY <1>1, <1>2, <2>2 DEF KnownInv, FileKnown, KnownOf, Looked, GradeIn
    <3>2. session.open
      BY <1>1, <1>2, <2>2 DEF KnownInv, KnownOf, Held
    <3> QED
      BY <1>1, <1>2, <2>1, <3>1, <3>2
      DEF KnownOf, Held, Chosen, Looked, Fetches, Fetched, Dialog
  <2> QED BY <2>1, <2>2, StepKnows DEF KnownInv, FileKnown
<1>3. CASE ~reload
  <2>1. cmd'[c] = Replied(state', cmd[c].live)
    BY <1>1, <1>3
  <2>2. /\ state'.baseline = state.baseline
        /\ state'.conflict /\ state'.pending => state.conflict /\ state.pending
    <3>1. state' = state \/ state' = Checked(state, g)
      BY <1>1
    <3> HIDE DEF g
    <3> QED BY <3>1, CheckedGrades
  <2>3. ~history.away => (state'.conflict /\ state'.pending => Spent)
    BY <2>2 DEF KnownInv, FileKnown
  <2>4. ASSUME ~history.away  PROVE KnownOf(c)'
    <3>1. \/ cmd'[c].pc = "idle"
          \/ cmd'[c].pc = "asking" /\ state'.conflict /\ cmd[c].live
      <4> HIDE DEF next, reload
      <4> QED BY <2>1 DEF Replied, IdleCmd
    <3>2. cmd'[c].pc = "asking" => session'.open
      BY <1>1, <2>4, <3>1 DEF KnownInv, KnownOf, Held
    <3> QED
      BY <1>1, <2>3, <2>4, <3>1, <3>2
      DEF KnownOf, Held, Chosen, Looked, Fetches, Fetched, Dialog
  <2> QED BY <2>2, <2>3, <2>4, StepKnows DEF KnownInv, FileKnown
<1> QED BY <1>2, <1>3

\* The dialog is answered and the file read once more.
LEMMA DialogKnows ==
    ASSUME TypeOK, KnownInv, OneRequest, NEW c \in Client, Request(c),
           Answer(c) \/ ResolveRead(c)
    PROVE  KnownInv'
<1>0. UNCHANGED <<state, session, file, writer>> /\ Overwrites' = Overwrites /\ Spent' = Spent
  BY StepsAside DEF Answer, ResolveRead, db
<1>1. CASE Answer(c)
  <2>1. PICK choice \in {"mine", "file", "cancel"} :
           Become(c, [cmd[c] EXCEPT !.pc = "resolveRead", !.arg = choice])
    BY <1>1 DEF Answer
  <2>2. cmd'[c] = [cmd[c] EXCEPT !.pc = "resolveRead", !.arg = choice]
    BY <2>1, OneMoves
  <2>3. cmd[c].pc = "asking" /\ cmd'[c].pc = "resolveRead" /\ cmd'[c].live = cmd[c].live
    BY <1>1, <2>2 DEF Answer, TypeOK, Cmds
  <2>4. ASSUME ~history.away  PROVE KnownOf(c)'
    BY <1>0, <2>3, <2>4
    DEF KnownInv, KnownOf, Held, Chosen, Looked, Fetches, Fetched, Dialog
  <2> QED BY <1>0, <2>4, StepKnows DEF KnownInv, FileKnown
<1>2. CASE ResolveRead(c)
  <2>1. CASE ReadSettings.kind = "garbled"
    <3>1. cmd'[c].pc = "idle"
      BY <1>2, <2>1, OneMoves, IdleFields DEF ResolveRead, Done
    <3>2. KnownOf(c)'
      BY <3>1, ParkedKnows DEF Parked
    <3> QED BY <1>0, <3>2, StepKnows DEF KnownInv, FileKnown
  <2>2. CASE ReadSettings.kind # "garbled"
    <3>1. cmd'[c] = [cmd[c] EXCEPT !.pc = "resolveFinish", !.doc = ReadSettings]
      BY <1>2, <2>2, OneMoves DEF ResolveRead
    <3>2. /\ cmd[c].pc = "resolveRead" /\ cmd'[c].pc = "resolveFinish"
          /\ cmd'[c].live = cmd[c].live /\ cmd'[c].doc = ReadSettings
      BY <1>2, <3>1 DEF ResolveRead, TypeOK, Cmds
    <3>3. ASSUME ~history.away  PROVE KnownOf(c)'
      <4>1. ReadSettings = file
        BY <3>3 DEF KnownInv, ReadSettings
      <4> QED
        BY <1>0, <3>2, <3>3, <4>1
        DEF KnownInv, KnownOf, Held, Chosen, Looked, Fetches, Fetched, Dialog
    <3> QED BY <1>0, <3>3, StepKnows DEF KnownInv, FileKnown
  <2> QED BY <2>1, <2>2
<1> QED BY <1>1, <1>2

\* The end of the dialog: the baseline becomes the grade that was chosen about,
\* which is the file's while an attempt would overwrite it.
LEMMA ResolveKnows ==
    ASSUME TypeOK, KnownInv, OneRequest, NEW c \in Client, Request(c),
           ResolveVoid(c) \/ ResolveChosen(c)
    PROVE  KnownInv'
<1> DEFINE g == GradeIn(cmd[c].doc)
<1>0. /\ UNCHANGED <<session, file>> /\ cmd[c].pc = "resolveFinish"
      /\ Overwrites' = Overwrites /\ Spent' = Spent
  BY StepsAside DEF ResolveVoid, ResolveChosen
<1>1. CASE ResolveVoid(c)
  <2>1. Done(c) /\ (state' = state \/ state' = Checked(state, g))
    BY <1>1 DEF ResolveVoid
  <2> HIDE DEF g
  <2>2. cmd'[c].pc = "idle"
    BY <2>1, OneMoves, IdleFields DEF Done
  <2>3. /\ state'.baseline = state.baseline
        /\ state'.conflict /\ state'.pending => state.conflict /\ state.pending
    BY <2>1, CheckedGrades
  <2>4. KnownOf(c)'
    BY <2>2, ParkedKnows DEF Parked
  <2> QED BY <2>3, <2>4, StepKnows DEF KnownInv, FileKnown
<1>2. CASE ResolveChosen(c)
  <2>1. /\ state'.baseline = g /\ ~state'.pending /\ cmd[c].live
    BY <1>2 DEF ResolveChosen, TypeOK, GradeState
  <2>2. /\ cmd'[c].live
        /\ \/ cmd'[c].pc = "resave"
           \/ cmd'[c].pc = "reload" /\ cmd'[c].grade = g
    <3>1. \/ cmd'[c] = [IdleCmd EXCEPT !.pc = "resave"]
          \/ cmd'[c] = [IdleCmd EXCEPT !.pc = "reload", !.grade = g]
      BY <1>2, OneMoves DEF ResolveChosen
    <3> QED BY <3>1 DEF IdleCmd
  <2>3. ASSUME ~history.away
        PROVE  session.open /\ (Overwrites => file.grade = g)
    BY <1>0, <2>1, <2>3
    DEF KnownInv, KnownOf, Held, Chosen, Dialog, MayOverwrite, GradeIn
  <2> HIDE DEF g
  <2>4. ASSUME ~history.away  PROVE KnownOf(c)'
    BY <1>0, <2>1, <2>2, <2>3, <2>4
    DEF KnownOf, Held, Chosen, Looked, Fetches, Fetched, Dialog
  <2> QED BY <2>1, <2>3, <2>4, StepKnows
<1> QED BY <1>1, <1>2

LEMMA RequestKnows ==
    ASSUME TypeOK, KnownInv, OneRequest, NEW c \in Client, Request(c)
    PROVE  KnownInv'
  BY AttachKnows, ParkingKnows, LoadBeginKnows, LoadOpenKnows, LoadStoreKnows,
     SavingKnows, LookKnows, CheckFinishKnows, DialogKnows, ResolveKnows
  DEF Request

\* What the user does outside requests: it begins no wait in an open photo, and
\* ends one only in a conflict.
LEMMA AsideKnows ==
    ASSUME TypeOK, KnownInv,
           UNCHANGED <<state, file, mounted, session, cmd, history.raced, history.away>>,
           Spent => Spent', budget'["external"] <= 1,
           ~history.away =>
              /\ MayOverwrite' => MayOverwrite
              /\ Overwrites' => Overwrites
              /\ writer'.pc \in {"merge", "prepared", "replace"} /\ file # writer'.seen => Spent
              /\ writer'.pc \in {"prepared", "replace"} => writer'.doc.kind = "ok"
              /\ writer'.pc = "replace" /\ ~history.raced => file = writer'.seen
    PROVE  KnownInv'
<1>1. ASSUME ~history.away  PROVE FileKnown'
  BY <1>1 DEF KnownInv, FileKnown
<1>2. ASSUME ~history.away, NEW c \in Client  PROVE KnownOf(c)'
  BY <1>2, StillKnows DEF KnownInv
<1> QED BY <1>1, <1>2 DEF KnownInv

\* With the file, the writer and the bounds on other programs alone.
LEMMA UserKnows ==
    ASSUME TypeOK, KnownInv, UNCHANGED <<file, mounted, writer, history.raced, history.away>>,
           budget'["external"] = budget["external"],
           ~history.away =>
              /\ state'.conflict /\ state'.pending => state.conflict /\ state.pending
              /\ Overwrites => file.grade = state'.baseline
              /\ \A c \in Client : KnownOf(c)'
    PROVE  KnownInv'
<1>1. Spent' = Spent /\ Overwrites' = Overwrites
  BY DEF Spent, Overwrites
<1>2. ASSUME ~history.away  PROVE FileKnown'
  BY <1>1, <1>2 DEF KnownInv, FileKnown
<1> QED BY <1>2 DEF KnownInv

LEMMA EditKnows ==
    ASSUME TypeOK, KnownInv, NEW g \in Grade, Edit(g)
    PROVE  KnownInv'
<1>1. /\ session.open /\ session'.open
      /\ SameGrades /\ UNCHANGED <<row, file, mounted, cmd, writer, history>>
  BY DEF Edit, TypeOK, Sessions, GradeState, SameGrades
<1>2. budget'["external"] = budget["external"]
  BY DEF Edit, Spend, TypeOK, Bounds
<1>3. ASSUME ~history.away, NEW c \in Client  PROVE KnownOf(c)'
  <2>1. /\ Spent' = Spent /\ Overwrites' = Overwrites /\ MayOverwrite' = MayOverwrite
    BY <1>1, <1>2 DEF Spent, Overwrites, MayOverwrite, SameGrades
  <2> QED BY <1>1, <1>3, <2>1, StillKnows DEF KnownInv, SameGrades
<1> QED BY <1>1, <1>2, <1>3, UserKnows DEF KnownInv, FileKnown, SameGrades

\* Leaving the photo: its requests go on without it, and load nothing.
LEMMA LeaveKnows ==
    ASSUME TypeOK, KnownInv, Leave \/ LeaveUnsaved
    PROVE  KnownInv'
<1>1. /\ ~Loading /\ ~Opening
      /\ SameGrades /\ UNCHANGED <<row, file, mounted, writer, history, budget>>
  BY DEF Leave, LeaveUnsaved, CloseSession, TypeOK, GradeState, SameGrades, db
<1>2. ASSUME ~history.away, NEW c \in Client  PROVE KnownOf(c)'
  <2>1. \/ cmd'[c] = IdleCmd
        \/ cmd'[c] = [cmd[c] EXCEPT !.live = FALSE]
    BY DEF Leave, LeaveUnsaved, CloseSession
  <2>2. CASE cmd'[c] = IdleCmd
    BY <2>2, IdleFields, ParkedKnows DEF Parked
  <2>3. CASE cmd'[c] = [cmd[c] EXCEPT !.live = FALSE]
    <3>1. cmd'[c].pc = cmd[c].pc /\ cmd'[c].doc = cmd[c].doc /\ ~cmd'[c].live
      BY <2>3 DEF TypeOK, Cmds
    <3>2. cmd[c].pc \notin {"adopt", "loading", "storing"}
      BY <1>1 DEF Loading, Opening
    <3>3. Spent' = Spent
      BY <1>1 DEF Spent
    <3> QED
      BY <1>2, <3>1, <3>2, <3>3
      DEF KnownInv, KnownOf, Held, Chosen, Looked, Fetches, Fetched
  <2> QED BY <2>1, <2>2, <2>3
<1> QED BY <1>1, <1>2, UserKnows DEF KnownInv, FileKnown, SameGrades

\* A revert of a photo that is not open begins a wait, about the grade in the
\* file; one of an open photo is refused when that is not the known one.
LEMMA RevertKnows ==
    ASSUME TypeOK, KnownInv, NEW kind \in {"original", "saved", "previous"}, Revert(kind)
    PROVE  KnownInv'
<1> DEFINE fileGrade == IF mounted THEN file.grade ELSE state.baseline
           compare == mounted /\ (state.pending \/ session.open)
           current == IF session.open THEN session.grade
                      ELSE IF state.pending THEN state.desired ELSE fileGrade
           target == IF session.open THEN Shown(RevertTarget(kind))
                                     ELSE RevertTarget(kind)
           kept == [state EXCEPT
                       !.previous = current,
                       !.baseline = IF compare \/ @ = fileGrade \/ state.pending
                                    THEN @ ELSE fileGrade]
<1>1. /\ Unlocked /\ ~state.conflict /\ ~Opening
      /\ UNCHANGED <<file, mounted, cmd, writer, history>>
  BY DEF Revert
<1>2. budget'["external"] = budget["external"]
  BY DEF Revert, Spend, TypeOK, Bounds
<1>3. Spent' = Spent /\ Overwrites' = Overwrites
  BY <1>1, <1>2 DEF Spent, Overwrites
<1>4. \A c \in Client : cmd[c].pc # "adopt"
  BY <1>1 DEF Opening
<1>5. CASE compare /\ Conflicting(state, fileGrade)
  <2>1. state' = Checked(state, fileGrade) /\ session' = session
    BY <1>5 DEF Revert
  <2> HIDE DEF fileGrade
  <2>2. ~state'.pending /\ state'.conflict /\ state'.baseline = state.baseline
    BY <1>5, <2>1, CheckedGrades
  <2>3. ASSUME ~history.away, NEW c \in Client  PROVE KnownOf(c)'
    <3>1. KnownOf(c)
      BY <2>3 DEF KnownInv
    <3>2. Held(c)' /\ Chosen(c)'
      BY <1>1, <1>3, <2>1, <2>2, <3>1 DEF KnownOf, Held, Chosen, MayOverwrite
    <3>3. Looked(c)'
      BY <1>1, <1>3, <2>2, <3>1 DEF KnownOf, Looked
    <3>4. Fetches(c)'
      BY <1>1, <1>3, <1>4, <2>2, <3>1 DEF KnownOf, Fetches, Fetched
    <3> QED BY <3>2, <3>3, <3>4 DEF KnownOf
  <2> QED BY <1>1, <1>2, <2>2, <2>3, UserKnows DEF KnownInv, FileKnown
<1>6. CASE ~(compare /\ Conflicting(state, fileGrade))
  <2>0. /\ kept.pending = state.pending /\ kept.conflict = state.conflict
        /\ kept.baseline \in {state.baseline, fileGrade}
        /\ compare \/ state.pending => kept.baseline = state.baseline
    BY DEF TypeOK, GradeState
  <2>1. kept \in [{"baseline", "desired", "pending", "conflict", "external", "recovery",
                   "previous"} -> {kept[f] : f \in {"baseline", "desired", "pending",
                   "conflict", "external", "recovery", "previous"}}]
    BY DEF TypeOK, GradeState
  <2>2. IF session.open
        THEN /\ session'.open
             /\ state' = [kept EXCEPT !.recovery = IF kind = "saved" THEN None ELSE target]
        ELSE /\ state' = [kept EXCEPT !.desired = target, !.pending = TRUE]
             /\ session' = session
    BY <1>6 DEF Revert, TypeOK, Sessions
  <2> HIDE DEF kept
  <2>3. /\ state'.baseline = kept.baseline /\ state'.conflict = kept.conflict
        /\ session.open => state'.pending = kept.pending
    BY <2>1, <2>2
  <2>4. ~state'.conflict /\ session'.open = session.open
    BY <1>1, <2>0, <2>2, <2>3 DEF TypeOK, Sessions
  <2>5. ASSUME ~history.away, Overwrites  PROVE file.grade = state'.baseline
    <3>1. mounted /\ fileGrade = file.grade /\ file.grade = state.baseline
      BY <2>5 DEF KnownInv, FileKnown
    <3> QED BY <2>0, <2>3, <3>1
  <2>6. ASSUME ~history.away, NEW c \in Client  PROVE KnownOf(c)'
    <3>1. KnownOf(c)
      BY <2>6 DEF KnownInv
    <3>2. CASE session.open
      <4>1. state'.pending = state.pending
        BY <2>0, <2>3, <3>2
      <4> QED
        BY <1>1, <1>3, <2>4, <3>1, <4>1, StillKnows DEF MayOverwrite
    <3>3. CASE ~session.open
      <4>1. cmd[c].pc = "idle" \/ ~cmd[c].live
        BY <3>1, <3>3 DEF KnownOf, Held
      <4>2. cmd[c].pc \notin {"loading", "storing"}
        BY <3>1, <4>1 DEF KnownOf, Held
      <4> QED
        BY <1>1, <1>3, <1>4, <2>4, <3>1, <3>3, <4>1, <4>2
        DEF KnownOf, Held, Chosen, Looked, Fetches, Fetched, Dialog
    <3> QED BY <3>2, <3>3
  <2> QED BY <1>1, <1>2, <2>4, <2>5, <2>6, UserKnows
<1> QED BY <1>5, <1>6

LEMMA MarksKnow ==
    ASSUME TypeOK, KnownInv, LibraryRead \/ (\E m \in Mark : MarkChange(m)) \/ UndoMarks
    PROVE  KnownInv'
<1>1. /\ UNCHANGED <<state, file, mounted, session, cmd, writer>>
      /\ UNCHANGED <<history.raced, history.away>>
  BY DEF LibraryRead, MarkChange, UndoMarks, TypeOK
<1>2. budget'["external"] = budget["external"]
  BY DEF LibraryRead, MarkChange, UndoMarks, Spend, TypeOK, Bounds
<1>3. MayOverwrite' = MayOverwrite /\ Overwrites' = Overwrites
  BY <1>1 DEF MayOverwrite, Overwrites
<1> QED BY <1>1, <1>2, <1>3, AsideKnows DEF KnownInv, FileKnown, Spent

\* The steps of an attempt that change neither the file nor the grade's state.
LEMMA AttemptKnows ==
    ASSUME TypeOK, KnownInv,
           WriterSnapshot \/ WriterRead \/ WriterFault \/ WriterRecheck
    PROVE  KnownInv'
<1>1. /\ UNCHANGED <<state, file, mounted, session, cmd, history>>
      /\ budget'["external"] = budget["external"]
  BY DEF WriterSnapshot, WriterRead, WriterFault, WriterRecheck, db, Spend, TypeOK, Bounds
<1>2. writer.pc # "ackGrade"
  BY DEF WriterSnapshot, WriterRead, WriterFault, WriterRecheck
<1>3. CASE writer'.pc \in {"idle", "read"}
  BY <1>1, <1>2, <1>3, AsideKnows
  DEF KnownInv, Spent, MayOverwrite, Overwrites
<1>4. CASE WriterRead /\ writer'.pc \notin {"idle", "read"}
  <2>1. writer' = [writer EXCEPT !.pc = "merge", !.seen = ReadSettings]
    BY <1>4 DEF WriterRead, WriterRest, IdleWriter
  <2>2. writer'.pc = "merge" /\ writer'.seen = ReadSettings
    BY <2>1 DEF TypeOK, Writers
  <2>3. ~history.away => ReadSettings = file
    BY DEF KnownInv, ReadSettings
  <2> QED
    BY <1>1, <1>2, <2>2, <2>3, AsideKnows DEF KnownInv, Spent, MayOverwrite, Overwrites
<1>5. CASE WriterRecheck /\ writer'.pc \notin {"idle", "read"}
  <2>1. /\ writer.pc = "prepared" /\ file = writer.seen
        /\ writer' = [writer EXCEPT !.pc = "replace"]
    BY <1>5 DEF WriterRecheck, WriterRest, IdleWriter
  <2>2. /\ writer'.pc = "replace" /\ writer'.seen = writer.seen /\ writer'.doc = writer.doc
    BY <2>1 DEF TypeOK, Writers
  <2>3. ~history.away => writer.doc.kind = "ok"
    BY <2>1 DEF KnownInv, FileKnown
  <2> QED
    BY <1>1, <2>1, <2>2, <2>3, AsideKnows DEF KnownInv, Spent, MayOverwrite, Overwrites
<1>6. WriterSnapshot \/ WriterFault => writer'.pc \in {"idle", "read"}
  <2>1. CASE WriterSnapshot
    BY <2>1 DEF WriterSnapshot, IdleWriter
  <2>2. CASE WriterFault
    BY <2>2 DEF WriterFault, WriterRest, IdleWriter
  <2> QED BY <2>1, <2>2
<1> QED BY <1>3, <1>4, <1>5, <1>6

\* The merge: what it will overwrite is the baseline, and waits.
LEMMA MergeKnows ==
    ASSUME TypeOK, KnownInv, WriterMerge
    PROVE  KnownInv'
<1> DEFINE g == GradeIn(writer.seen)
           mine == state.pending /\ ~Conflicting(state, g)
           written == IF mine THEN state.desired ELSE g
<1>1. /\ writer.pc = "merge"
      /\ UNCHANGED <<row, file, mounted, session, cmd, history, budget>>
      /\ state' = IF state.pending THEN Checked(state, g) ELSE state
      /\ writer' = [writer EXCEPT !.pc = "prepared",
                                  !.doc = Document("ok", written, writer.marks)]
  BY DEF WriterMerge
<1>2. /\ writer'.pc = "prepared" /\ writer'.seen = writer.seen
      /\ writer'.doc.kind = "ok" /\ writer'.doc.grade = written
  <2> HIDE DEF written
  <2> QED BY <1>1 DEF TypeOK, Writers, Document
<1>3. /\ state'.baseline = state.baseline
      /\ state'.pending => state.pending
      /\ state'.conflict /\ state'.pending => state.conflict /\ state.pending
      /\ mine => state'.pending
  <2> HIDE DEF g
  <2>1. CASE state.pending
    BY <1>1, <2>1, CheckedGrades
  <2>2. CASE ~state.pending
    BY <1>1, <2>2
  <2> QED BY <2>1, <2>2
<1>4. Overwrites' => mine /\ state.pending /\ g = state.baseline /\ file.grade = g
  BY <1>1, <1>2 DEF Overwrites, Conflicting, GradeIn
<1>5. Spent' = Spent
  BY <1>1 DEF Spent
<1> HIDE DEF g, mine, written
<1>6. ASSUME ~history.away  PROVE FileKnown'
  BY <1>1, <1>2, <1>3, <1>4, <1>5, <1>6 DEF KnownInv, FileKnown
<1>7. ASSUME ~history.away, NEW c \in Client  PROVE KnownOf(c)'
  <2>1. MayOverwrite' => MayOverwrite
    BY <1>1, <1>3, <1>4 DEF MayOverwrite
  <2> QED BY <1>1, <1>3, <1>4, <1>5, <1>7, <2>1, StillKnows DEF KnownInv
<1> QED BY <1>1, <1>6, <1>7 DEF KnownInv

\* The replacement and the acknowledgements: no grade waits for a second time.
LEMMA ReplaceKnows ==
    ASSUME TypeOK, WriterInv, KnownInv,
           WriterReplace \/ WriterAckGrade \/ WriterAckQueue
    PROVE  KnownInv'
<1>1. UNCHANGED <<mounted, session, cmd, budget>> /\ history'.away = history.away
  BY DEF WriterReplace, WriterAckGrade, WriterAckQueue, TypeOK
<1>2. ASSUME ~history.away
      PROVE  /\ writer'.pc \in {"ackGrade", "ackQueue", "idle"}
             /\ file'.kind # "offline" /\ (file'.kind = "garbled" => Spent)
             /\ state'.pending => state.pending /\ writer'.pc = "ackGrade"
             /\ state'.conflict /\ state'.pending => state.conflict
  <2>1. CASE WriterReplace
    <3>1. /\ state' = state /\ file' = writer.doc /\ writer.pc = "replace"
          /\ writer' = [writer EXCEPT !.pc = "ackGrade"]
      BY <1>2, <2>1 DEF WriterReplace, KnownInv, db
    <3>2. writer'.pc = "ackGrade"
      BY <3>1 DEF TypeOK, Writers
    <3> QED BY <1>2, <3>1, <3>2 DEF KnownInv, FileKnown
  <2>2. CASE WriterAckGrade
    <3>1. writer' = [writer EXCEPT !.pc = "ackQueue"] /\ file' = file
      BY <2>2 DEF WriterAckGrade
    <3>2. writer'.pc = "ackQueue"
      BY <3>1 DEF TypeOK, Writers
    <3>3. state.pending => writer.doc.grade = state.desired
      BY <2>2 DEF WriterAckGrade, WriterInv, Unlocked
    <3>4. ~state'.pending
      BY <2>2, <3>3 DEF WriterAckGrade, TypeOK, GradeState
    <3> QED BY <1>2, <3>1, <3>2, <3>4 DEF KnownInv, FileKnown
  <2>3. CASE WriterAckQueue
    BY <1>2, <2>3 DEF WriterAckQueue, WriterRest, IdleWriter, WriterInv, KnownInv, FileKnown
  <2> QED BY <2>1, <2>2, <2>3
<1>3. Spent' = Spent
  BY <1>1 DEF Spent
<1>4. ASSUME ~history.away  PROVE ~Overwrites' /\ ~MayOverwrite'
  BY <1>2, <1>4 DEF Overwrites, MayOverwrite
<1>5. ASSUME ~history.away  PROVE FileKnown'
  BY <1>2, <1>3, <1>4, <1>5 DEF KnownInv, FileKnown
<1>6. ASSUME ~history.away, NEW c \in Client  PROVE KnownOf(c)'
  <2>1. KnownOf(c)
    BY <1>6 DEF KnownInv
  <2>2. state'.pending => state.pending
    BY <1>2, <1>6
  <2> QED
    BY <1>1, <1>3, <1>4, <1>6, <2>1, <2>2
    DEF KnownOf, Held, Chosen, Looked, Fetches, Fetched
<1> QED BY <1>1, <1>5, <1>6 DEF KnownInv

\* Another program: no attempt is about the file any more, and there is no
\* second write to bring the old content back.
LEMMA EnvironmentKnows ==
    ASSUME TypeOK, KnownInv, Environment
    PROVE  KnownInv'
<1>1. CASE OtherProgram
  <2>1. /\ mounted /\ file' # file /\ file'.kind \in {"ok", "absent", "garbled"}
        /\ UNCHANGED <<state, row, mounted, session, cmd, writer>>
    BY <1>1 DEF OtherProgram, Absent, Garbled, Document, db
  <2>2. history'.away = history.away /\ history'.raced = (writer.pc = "replace")
    BY <1>1 DEF OtherProgram
  <2>3. budget["external"] > 0 /\ budget'["external"] = budget["external"] - 1
    BY <1>1 DEF OtherProgram, Spend, TypeOK, Bounds
  <2>4. ~Spent /\ Spent' /\ budget'["external"] <= 1
    BY <2>3 DEF Spent, KnownInv, TypeOK, Bounds
  <2>5. ASSUME ~history.away  PROVE ~Overwrites'
    BY <2>1, <2>4, <2>5 DEF KnownInv, FileKnown, Overwrites
  <2>6. ASSUME ~history.away  PROVE FileKnown'
    BY <2>1, <2>2, <2>4, <2>5, <2>6 DEF KnownInv, FileKnown
  <2>7. ASSUME ~history.away, NEW c \in Client  PROVE KnownOf(c)'
    <3>1. KnownOf(c)
      BY <2>7 DEF KnownInv
    <3> QED
      BY <2>1, <2>4, <2>5, <2>7, <3>1
      DEF KnownOf, Held, Chosen, Looked, Fetches, Fetched, MayOverwrite
  <2> QED BY <2>1, <2>2, <2>4, <2>6, <2>7 DEF KnownInv
<1>2. CASE Unplug
  <2>1. history'.away /\ budget'["external"] = budget["external"]
    BY <1>2 DEF Unplug, Spend, TypeOK, Bounds
  <2> QED BY <2>1 DEF KnownInv
<1>3. CASE Replug
  <2>1. history'.away /\ mounted' /\ budget' = budget
    BY <1>3 DEF Replug, KnownInv
  <2> QED BY <2>1 DEF KnownInv
<1>4. CASE Crash
  <2>1. /\ UNCHANGED <<state, row, file, mounted, history>> /\ writer'.pc = "idle"
        /\ \A c \in Client : cmd'[c].pc = "idle"
    BY <1>4, IdleFields DEF Crash, IdleWriter, db
  <2>2. budget'["external"] = budget["external"]
    BY <1>4 DEF Crash, Spend, TypeOK, Bounds
  <2>3. \A c \in Client : KnownOf(c)'
    BY <2>1, ParkedKnows DEF Parked
  <2>4. Spent' = Spent /\ ~Overwrites'
    BY <2>1, <2>2 DEF Spent, Overwrites
  <2> QED BY <2>1, <2>2, <2>3, <2>4 DEF KnownInv, FileKnown
<1> QED BY <1>1, <1>2, <1>3, <1>4 DEF Environment

LEMMA NextKnows ==
    ASSUME TypeOK, WriterInv, KnownInv, OneRequest, [Next]_vars
    PROVE  KnownInv'
<1>1. CASE UNCHANGED vars
  BY <1>1, AsideKnows DEF vars, KnownInv, FileKnown, MayOverwrite, Overwrites, Spent
<1>2. CASE User
  BY <1>2, EditKnows, LeaveKnows, RevertKnows, MarksKnow DEF User
<1>3. CASE WriterStep
  BY <1>3, AttemptKnows, MergeKnows, ReplaceKnows DEF WriterStep
<1> QED BY <1>1, <1>2, <1>3, RequestKnows, EnvironmentKnows DEF Next

LEMMA InitKnows == ASSUME OneOutside  PROVE Init => KnownInv
  BY DEF OneOutside, Init, KnownInv, FileKnown, KnownOf, Held, Chosen, Looked, Fetches,
         Fetched, Dialog, Overwrites, Absent, Document, IdleWriter, IdleCmd, EmptyState

LEMMA StepOverwrites ==
    ASSUME TypeOK, KnownInv, [Next]_vars,
           writer.pc = "replace", writer'.pc = "ackGrade",
           file'.grade # file.grade, ~history.raced, ~history.away
    PROVE  file.grade = state.baseline
<1>1. FileKnown /\ mounted
  BY DEF KnownInv
<1>2. file' = writer.doc \/ file' = file
  <2>1. CASE WriterStep
    BY <1>1, <2>1
    DEF WriterStep, WriterSnapshot, WriterRead, WriterMerge, WriterFault, WriterRecheck,
        WriterReplace, WriterAckGrade, WriterAckQueue
  <2>2. ASSUME NEW c \in Client, Request(c)  PROVE file' = file
    BY <2>2, FileStays
  <2>3. CASE User
    BY <2>3 DEF User, Edit, Leave, LeaveUnsaved, Revert, LibraryRead, MarkChange, UndoMarks
  <2>4. ~Environment
    BY DEF Environment, OtherProgram, Unplug, Replug, Crash, IdleWriter
  <2> QED BY <2>1, <2>2, <2>3, <2>4 DEF Next, vars
<1> QED BY <1>1, <1>2 DEF FileKnown, Overwrites

\* The writer overwrites no grade that the app did not know, for a page that
\* waits for each of its requests and at most one write of another program:
\* wherever that write, a failing write of the app, a crash or a revert falls,
\* and whatever the user answers in the dialog about it.
THEOREM NoGradeOverwrittenUnseen ==
    ASSUME OneRequest, OneOutside
    PROVE  Spec => KnownOverwrite
<1>1. TypeOK /\ KnownInv /\ [Next]_vars =>
        [writer.pc = "replace" /\ writer'.pc = "ackGrade"
           /\ file'.grade # file.grade /\ ~history.raced /\ ~history.away
         => file.grade = state.baseline]_vars
  BY StepOverwrites
<1>2. TypeOK /\ WriterInv /\ KnownInv /\ [Next]_vars => KnownInv'
  BY NextKnows
<1> QED
  BY <1>1, <1>2, InitKnows, TypeCorrect, WriterHoldsCurrent, PTL DEF Spec, KnownOverwrite
=============================================================================
