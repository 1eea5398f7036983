------------------------------ MODULE FileMove ------------------------------
(* Renaming or moving one Library photo together with its settings file.    *)
(*                                                                          *)
(* A command is previewed (plan), then recorded on disk (execute), then run *)
(* step by step by FileCommands.run, again every 15 seconds and after every *)
(* restart until it is finished.  A step is one file operation or one save  *)
(* of the record, so that a crash, another program, the Activity panel or   *)
(* Grade can come between any two of them.                                  *)
(*                                                                          *)
(* A file is its identity, what its signature's device and inode tell, and  *)
(* its data.  A photo's data is a version number, 0 while a copy of it is   *)
(* incomplete; the data of a settings file is the settings it holds.        *)
EXTENDS Integers

CONSTANTS
    Setting,             \* what marks and grade a photo can have
    Plain,               \* the settings of a photo that has none
    MaxEdits,            \* bounds: writes of the photo by other programs,
    MaxArrivals,         \*         files of others that appear,
    MaxChanges,          \*         marks set and grades saved by the user,
    MaxOpens,            \*         photos opened in Grade,
    MaxControls,         \*         Pause, Resume and Cancel,
    MaxFaults,           \*         operations on a locked or missing path,
    MaxCrashes           \*         crashes

ASSUME SettingAssumption == Plain \in Setting
ASSUME BoundAssumption ==
    {MaxEdits, MaxArrivals, MaxChanges, MaxOpens, MaxControls, MaxFaults,
     MaxCrashes} \subseteq Nat

VARIABLES
    fs,        \* the files at the places the command uses
    rows,      \* the Library's row of the photo under its old and new path
    cross,     \* whether the two folders are on different drives
    job,       \* what the preview recorded about the photo
    disk,      \* the record in library-file-commands
    mem,       \* the record in memory
    runner,    \* where FileCommands.run is
    control,   \* a Pause, Resume or Cancel request half done
    grade,     \* the photo in Grade: "closed", "opening" or "open"
    serving,   \* whether the start-up run is over and requests are served
    history,   \* history: newest photo data, settings asked for, completions
    budget     \* how much of each bound is used

vars == <<fs, rows, cross, job, disk, mem, runner, control, grade, serving,
          history, budget>>

Place == {"old", "stage", "new", "side", "sideTemp", "sideNew"}
FileId == {"none", "orig", "copy", "side", "moved", "other"}
Files == [id : FileId, data : Nat \cup Setting]
Nothing == [id |-> "none", data |-> 0]
Foreign == [id |-> "other", data |-> 0]
PhotoId == {"orig", "copy"}

Row == [there : BOOLEAN, pending : BOOLEAN, value : Setting]
NoRow == [there |-> FALSE, pending |-> FALSE, value |-> Plain]

Stamp(id) == [id : {"none", id}, data : Nat \cup Setting]
Job == [previewed : BOOLEAN, stamp : Stamp("orig"), side : Stamp("side"),
        payload : Stamp("moved"), row : Row]
Record == [there : BOOLEAN, phase : BOOLEAN, temp : BOOLEAN,
           publish : Stamp("copy"), sideStamp : Stamp("moved"),
           sidePublished : BOOLEAN, done : BOOLEAN, cancelled : BOOLEAN,
           failed : BOOLEAN, cancel : BOOLEAN, paused : BOOLEAN]
NoRecord == [there |-> FALSE, phase |-> FALSE, temp |-> FALSE,
             publish |-> Nothing, sideStamp |-> Nothing,
             sidePublished |-> FALSE, done |-> FALSE, cancelled |-> FALSE,
             failed |-> FALSE, cancel |-> FALSE, paused |-> FALSE]
RunnerPc == {"idle", "arrive", "lift", "lifted", "stage", "staged", "copy",
             "copying", "verify", "publish", "published", "remove",
             "settings", "sideStamp", "sidePublish", "sidePublished", "tidy",
             "index", "acknowledge", "finish", "clear"}
Bounds == {"edits", "arrivals", "changes", "opens", "controls", "faults",
           "crashes"}

-----------------------------------------------------------------------------
Spend(kind, max) ==
    /\ budget[kind] < max
    /\ budget' = [budget EXCEPT ![kind] = @ + 1]

\* FileCommands.blocked: commands refuse both paths of an unfinished record.
Blocked == mem.there /\ ~mem.done

\* FileCommands.protected.
Protected == grade = "open"

\* LibraryMarks.read: the settings file wins unless the row is pending.
Refreshed(p) ==
    LET side == fs[IF p = "old" THEN "side" ELSE "sideNew"]
    IN IF rows[p].pending \/ side = Foreign THEN rows[p]
       ELSE IF side = Nothing THEN NoRow
       ELSE [there |-> TRUE, pending |-> FALSE, value |-> side.data]

\* A settings file that does not parse stops every command on its photo.
Readable(p) == fs[IF p = "old" THEN "side" ELSE "sideNew"] # Foreign

\* The copy of the photo the command holds itself responsible for at new.
Expected == IF mem.publish # Nothing THEN mem.publish ELSE job.stamp

Save(record) == mem' = record /\ disk' = record
Run(pc) == runner' = pc
RunRest == UNCHANGED <<cross, job, control, grade, serving, history, budget>>

\* run's handler: the error is saved with the record; it is tried again later.
Fail ==
    /\ Save([mem EXCEPT !.failed = TRUE])
    /\ Run("idle")
    /\ UNCHANGED <<fs, rows>>

\* A step that only decides where to go on.
Continue(pc) == Run(pc) /\ UNCHANGED <<fs, rows, disk, mem>>

\* A step that saves the record and goes on.
Checkpoint(record, pc) == Save(record) /\ Run(pc) /\ UNCHANGED <<fs, rows>>

\* A step that is one operation on files.
Operate(files, pc) ==
    fs' = files /\ Run(pc) /\ UNCHANGED <<rows, disk, mem>>

-----------------------------------------------------------------------------
Init ==
    /\ \E value \in Setting, sidecar \in BOOLEAN :
          /\ fs = [p \in Place |->
                CASE p = "old" -> [id |-> "orig", data |-> 1]
                  [] p = "side" /\ sidecar -> [id |-> "side", data |-> value]
                  [] OTHER -> Nothing]
          /\ history = [content |-> 1, completions |-> 0,
                        asked |-> IF sidecar THEN value ELSE Plain]
    /\ rows = [p \in {"old", "new"} |-> NoRow]
    /\ cross \in BOOLEAN
    /\ job = [previewed |-> FALSE, stamp |-> Nothing, side |-> Nothing,
              payload |-> Nothing, row |-> NoRow]
    /\ disk = NoRecord
    /\ mem = NoRecord
    /\ runner = "idle"
    /\ control = [pc |-> "idle", copy |-> NoRecord]
    /\ grade = "closed"
    /\ serving = TRUE
    /\ budget = [b \in Bounds |-> 0]

-----------------------------------------------------------------------------
(* The command: preview and execution, both in the command lane.            *)

Plan ==
    /\ serving /\ runner = "idle" /\ control.pc = "idle"
    /\ ~mem.there /\ ~job.previewed /\ ~Protected
    /\ fs["old"].id \in PhotoId /\ Readable("old")
    /\ fs["new"] = Nothing /\ fs["sideNew"] = Nothing
    /\ history.completions = 0
    /\ LET row == Refreshed("old")
       IN /\ rows' = [rows EXCEPT !["old"] = row]
          /\ job' = [previewed |-> TRUE, stamp |-> fs["old"],
                     side |-> fs["side"], row |-> row,
                     payload |-> IF row.there
                                 THEN [id |-> "moved", data |-> row.value]
                                 ELSE Nothing]
    /\ UNCHANGED <<fs, cross, disk, mem, runner, control, grade, serving,
                   history, budget>>

\* Variant: the preview is executed without looking again.
Execute_NoRevalidation ==
    /\ runner = "idle" /\ job.previewed
    /\ job' = [job EXCEPT !.previewed = FALSE]
    /\ Save([NoRecord EXCEPT !.there = TRUE])
    /\ UNCHANGED <<fs, rows, cross, runner, control, grade, serving, history,
                   budget>>

\* Everything the preview saw is looked at again; a difference discards it.
Execute ==
    /\ runner = "idle" /\ job.previewed
    /\ job' = [job EXCEPT !.previewed = FALSE]
    /\ IF ~Protected /\ fs["old"] = job.stamp /\ fs["side"] = job.side
          /\ rows["old"] = job.row
       THEN Save([NoRecord EXCEPT !.there = TRUE])
       ELSE UNCHANGED <<disk, mem>>
    /\ UNCHANGED <<fs, rows, cross, runner, control, grade, serving, history,
                   budget>>

-----------------------------------------------------------------------------
(* FileCommands.run on the record: move_item, copy_checked and settings.    *)

\* By execute, by the Activity panel, after a restart and every 15 seconds.
RunStart ==
    /\ runner = "idle" /\ mem.there
    /\ \/ mem.done /\ Continue("clear")
       \/ /\ ~mem.done /\ ~mem.paused /\ mem.cancel /\ ~mem.phase
          /\ Checkpoint([mem EXCEPT !.done = TRUE, !.cancelled = TRUE],
                        "clear")
       \/ /\ ~mem.done /\ ~mem.paused /\ (mem.phase \/ ~mem.cancel)
          /\ IF Protected THEN Fail ELSE Continue("arrive")
    /\ RunRest

\* Variant: a photo that is already at its new name is not recognised.
Arrive_NotRecognised ==
    /\ runner = "arrive"
    /\ IF fs["new"] # Nothing THEN Fail
       ELSE IF ~cross /\ fs["stage"] = job.stamp THEN Continue("publish")
       ELSE IF fs["old"] # job.stamp THEN Fail
       ELSE Continue(IF cross THEN "stage" ELSE "lift")
    /\ RunRest

\* Is the photo already at its new name?  If not, where does it stand?
Arrive ==
    /\ runner = "arrive"
    /\ IF fs["new"] = Expected THEN Continue("remove")
       ELSE IF fs["new"] # Nothing THEN Fail
       ELSE IF ~cross /\ fs["stage"] = job.stamp THEN Continue("publish")
       ELSE IF fs["old"] # job.stamp THEN Fail
       ELSE Continue(IF cross THEN "stage" ELSE "lift")
    /\ RunRest

\* rename(old, stage); whatever is at the old name by now is moved.
Lift ==
    /\ runner = "lift"
    /\ IF fs["old"] # Nothing /\ fs["stage"] = Nothing
       THEN Operate([fs EXCEPT !["stage"] = fs["old"], !["old"] = Nothing],
                    "lifted")
       ELSE Fail
    /\ RunRest

Lifted ==
    /\ runner = "lifted"
    /\ Checkpoint([mem EXCEPT !.phase = TRUE], "publish")
    /\ RunRest

\* copy_checked: the staging file is created exclusively, then recorded.
Stage ==
    /\ runner = "stage"
    /\ IF mem.publish # Nothing /\ fs["stage"] = mem.publish
       THEN Continue("publish")
       ELSE IF ~mem.temp /\ fs["stage"] = Nothing
       THEN Operate([fs EXCEPT !["stage"] = [id |-> "copy", data |-> 0]],
                    "staged")
       ELSE IF mem.temp /\ fs["stage"].id = "copy" THEN Continue("copy")
       ELSE Fail
    /\ RunRest

Staged ==
    /\ runner = "staged"
    /\ Checkpoint([mem EXCEPT !.temp = TRUE], "copy")
    /\ RunRest

\* Opening the staging file for writing empties it.
Copy ==
    /\ runner = "copy"
    /\ Operate([fs EXCEPT !["stage"] = [id |-> "copy", data |-> 0]], "copying")
    /\ RunRest

Copying ==
    /\ runner = "copying"
    /\ IF fs["old"] # Nothing
       THEN Operate([fs EXCEPT !["stage"].data = fs["old"].data], "verify")
       ELSE Fail
    /\ RunRest

Verify ==
    /\ runner = "verify"
    /\ IF fs["stage"].data = job.stamp.data
       THEN Checkpoint([mem EXCEPT !.publish = fs["stage"], !.phase = TRUE],
                       "publish")
       ELSE Fail
    /\ RunRest

\* Variant: the rename replaces what is at the new name.
Publish_Replaces ==
    /\ runner = "publish"
    /\ Operate([fs EXCEPT !["new"] = fs["stage"], !["stage"] = Nothing],
               "published")
    /\ RunRest

\* rename(stage, new), refused when anything is there.
Publish ==
    /\ runner = "publish"
    /\ IF fs["new"] = Nothing /\ fs["stage"] # Nothing
       THEN Operate([fs EXCEPT !["new"] = fs["stage"], !["stage"] = Nothing],
                    "published")
       ELSE Fail
    /\ RunRest

Published ==
    /\ runner = "published"
    /\ Checkpoint([mem EXCEPT !.phase = TRUE], "remove")
    /\ RunRest

\* Variant: the original is removed by its name, whatever is there now.
RemoveSource_ByName ==
    /\ runner = "remove"
    /\ IF ~cross \/ fs["old"] = Nothing THEN Continue("settings")
       ELSE Operate([fs EXCEPT !["old"] = Nothing], "settings")
    /\ RunRest

\* Across drives the original goes once the copy is verified and held.
RemoveSource ==
    /\ runner = "remove"
    /\ IF ~cross \/ fs["old"] = Nothing THEN Continue("settings")
       ELSE IF fs["old"] = job.stamp /\ fs["new"] = mem.publish
       THEN Operate([fs EXCEPT !["old"] = Nothing], "settings")
       ELSE Fail
    /\ RunRest

\* settings, under the guard of the photo at its new name.  The settings are
\* written to a temporary file unless an earlier attempt got further.
Settings ==
    /\ runner = "settings"
    /\ IF fs["new"] # Expected THEN Fail
       ELSE IF job.payload = Nothing
       THEN IF fs["side"] = Nothing THEN Continue("index") ELSE Fail
       ELSE IF fs["sideNew"] # Nothing
       THEN IF mem.sidePublished THEN Continue("tidy")
            ELSE IF fs["sideNew"] = mem.sideStamp THEN Continue("sidePublished")
            ELSE Fail
       ELSE IF job.side # Nothing /\ fs["side"] # job.side THEN Fail
       ELSE IF fs["sideTemp"] = Nothing
       THEN Operate([fs EXCEPT !["sideTemp"] = job.payload], "sideStamp")
       ELSE IF fs["sideTemp"] = mem.sideStamp THEN Continue("sideStamp")
       ELSE Fail
    /\ RunRest

SideStamp ==
    /\ runner = "sideStamp"
    /\ Checkpoint([mem EXCEPT !.sideStamp = fs["sideTemp"]], "sidePublish")
    /\ RunRest

SidePublish ==
    /\ runner = "sidePublish"
    /\ IF fs["sideNew"] = Nothing
       THEN Operate([fs EXCEPT !["sideNew"] = fs["sideTemp"],
                               !["sideTemp"] = Nothing], "sidePublished")
       ELSE Fail
    /\ RunRest

SidePublished ==
    /\ runner = "sidePublished"
    /\ Checkpoint([mem EXCEPT !.sidePublished = TRUE, !.phase = TRUE], "tidy")
    /\ RunRest

\* The old settings file goes, if it is the recorded one.
Tidy ==
    /\ runner = "tidy"
    /\ IF fs["sideNew"] # mem.sideStamp THEN Fail
       ELSE IF fs["side"] = Nothing THEN Continue("index")
       ELSE IF fs["side"] = job.side
       THEN Operate([fs EXCEPT !["side"] = Nothing], "index")
       ELSE Fail
    /\ RunRest

\* retarget: the recorded rows replace the old path's and become the new one's.
Retarget ==
    /\ runner = "index"
    /\ rows' = IF job.row.there
               THEN [rows EXCEPT !["old"] = NoRow, !["new"] = job.row]
               ELSE rows
    /\ Run("acknowledge")
    /\ UNCHANGED <<fs, disk, mem>>
    /\ RunRest

Acknowledge ==
    /\ runner = "acknowledge"
    /\ rows' = [rows EXCEPT !["new"].pending = FALSE]
    /\ Run("finish")
    /\ UNCHANGED <<fs, disk, mem>>
    /\ RunRest

Finish ==
    /\ runner = "finish"
    /\ Checkpoint([mem EXCEPT !.phase = TRUE, !.done = TRUE, !.failed = FALSE],
                  "clear")
    /\ RunRest

\* Every item is done: the record goes, and the completion is announced.
Clear ==
    /\ runner = "clear"
    /\ disk' = NoRecord
    /\ mem' = IF control.pc = "save" THEN [mem EXCEPT !.there = FALSE]
                                     ELSE NoRecord
    /\ Run("idle")
    /\ history' = IF mem.cancelled THEN history
                  ELSE [history EXCEPT !.completions = @ + 1]
    /\ UNCHANGED <<fs, rows, cross, job, control, grade, serving, budget>>

\* A path is locked, its drive is gone or its disk is full.
Fault ==
    /\ runner \in {"arrive", "lift", "stage", "copy", "copying", "publish",
                   "remove", "settings", "sidePublish", "tidy"}
    /\ Spend("faults", MaxFaults)
    /\ Fail
    /\ UNCHANGED <<cross, job, control, grade, serving, history>>

-----------------------------------------------------------------------------
(* The Activity panel: Pause, Resume and Cancel of a record.  The record is *)
(* found and changed, then saved, while the runner goes on.                 *)

ControlBegin ==
    /\ serving /\ control.pc = "idle" /\ mem.there
    /\ Spend("controls", MaxControls)
    /\ \E action \in {"cancel", "pause", "resume"} :
          LET asked == [mem EXCEPT !.paused = action = "pause",
                                   !.cancel = @ \/ action = "cancel"]
          IN /\ mem' = asked
             /\ control' = [pc |-> "save", copy |-> asked]
    /\ UNCHANGED <<fs, rows, cross, job, disk, runner, grade, serving, history>>

ControlSave ==
    /\ control.pc = "save"
    /\ disk' = control.copy
    /\ mem' = [mem EXCEPT !.there = TRUE]
    /\ control' = [pc |-> "idle", copy |-> NoRecord]
    /\ UNCHANGED <<fs, rows, cross, job, runner, grade, serving, history,
                   budget>>

-----------------------------------------------------------------------------
(* Marks, the settings writer and Grade, on either path of the photo.       *)

\* A mark command; LibraryMarks._path refuses a photo that is blocked.
Mark(p, value) ==
    /\ serving /\ ~Blocked /\ fs[p].id \in PhotoId /\ Readable(p)
    /\ value # Refreshed(p).value
    /\ Spend("changes", MaxChanges)
    /\ rows' = [rows EXCEPT ![p] = [there |-> TRUE, pending |-> TRUE,
                                    value |-> value]]
    /\ history' = [history EXCEPT !.asked = value]
    /\ UNCHANGED <<fs, cross, job, disk, mem, runner, control, grade, serving>>

\* The settings writer's pass: it has the lane, and skips what is blocked.
WriteSettings(p) ==
    /\ serving /\ runner = "idle" /\ ~Blocked
    /\ rows[p].pending /\ Readable(p)
    /\ IF fs[p] = Nothing
       THEN /\ rows' = [rows EXCEPT ![p] = NoRow]
            /\ UNCHANGED fs
       ELSE /\ fs' = [fs EXCEPT ![IF p = "old" THEN "side" ELSE "sideNew"] =
                         [id |-> "side", data |-> rows[p].value]]
            /\ rows' = [rows EXCEPT ![p].pending = FALSE]
    /\ UNCHANGED <<cross, job, disk, mem, runner, control, grade, serving,
                   history, budget>>

\* Opening asks open-settings first, which refuses a blocked photo; the photo
\* is decoded, and only then is it the current session.  Opened from the Import
\* tab, without an item key, attach does not look at blocked again.
OpenBegin ==
    /\ serving /\ grade = "closed" /\ ~Blocked /\ fs["old"].id \in PhotoId
    /\ Spend("opens", MaxOpens)
    /\ grade' = "opening"
    /\ UNCHANGED <<fs, rows, cross, job, disk, mem, runner, control, serving,
                   history>>

OpenFinish ==
    /\ grade = "opening"
    /\ grade' = "open"
    /\ UNCHANGED <<fs, rows, cross, job, disk, mem, runner, control, serving,
                   history, budget>>

\* LibraryGrades.save stores under the path the session was attached with.
SaveGrade(value) ==
    /\ grade = "open" /\ value # Refreshed("old").value
    /\ Spend("changes", MaxChanges)
    /\ rows' = [rows EXCEPT !["old"] = [there |-> TRUE, pending |-> TRUE,
                                        value |-> value]]
    /\ history' = [history EXCEPT !.asked = value]
    /\ UNCHANGED <<fs, cross, job, disk, mem, runner, control, grade, serving>>

CloseGrade ==
    /\ grade # "closed"
    /\ grade' = "closed"
    /\ UNCHANGED <<fs, rows, cross, job, disk, mem, runner, control, serving,
                   history, budget>>

-----------------------------------------------------------------------------
(* Other programs, and the power switch.                                    *)

\* While settings are moved the photo at its new name is held against writes.
Guarded(p) ==
    p = "new" /\ runner \in {"settings", "sideStamp", "sidePublish",
                             "sidePublished", "tidy"}

EditPhoto(p) ==
    /\ fs[p].id \in PhotoId /\ fs[p].data = history.content /\ ~Guarded(p)
    /\ Spend("edits", MaxEdits)
    /\ fs' = [fs EXCEPT ![p].data = @ + 1]
    /\ history' = [history EXCEPT !.content = @ + 1]
    /\ UNCHANGED <<rows, cross, job, disk, mem, runner, control, grade, serving>>

FileArrives(p) ==
    /\ fs[p] = Nothing
    /\ Spend("arrivals", MaxArrivals)
    /\ fs' = [fs EXCEPT ![p] = Foreign]
    /\ UNCHANGED <<rows, cross, job, disk, mem, runner, control, grade, serving,
                   history>>

Crash ==
    /\ Spend("crashes", MaxCrashes)
    /\ mem' = [disk EXCEPT !.failed = FALSE]
    /\ runner' = "idle"
    /\ serving' = FALSE
    /\ control' = [pc |-> "idle", copy |-> NoRecord]
    /\ grade' = "closed"
    /\ job' = [job EXCEPT !.previewed = FALSE]
    /\ UNCHANGED <<fs, rows, cross, disk, history>>

\* start runs every record once, before the writer starts and requests come.
Serve ==
    /\ ~serving /\ runner = "idle"
    /\ mem.there => mem.failed \/ mem.paused
    /\ serving' = TRUE
    /\ UNCHANGED <<fs, rows, cross, job, disk, mem, runner, control, grade,
                   history, budget>>

-----------------------------------------------------------------------------
RunnerStep ==
    \/ RunStart \/ Arrive \/ Lift \/ Lifted
    \/ Stage \/ Staged \/ Copy \/ Copying \/ Verify
    \/ Publish \/ Published \/ RemoveSource
    \/ Settings \/ SideStamp \/ SidePublish \/ SidePublished \/ Tidy
    \/ Retarget \/ Acknowledge \/ Finish \/ Clear \/ Serve

User ==
    \/ Plan \/ Execute
    \/ ControlBegin \/ ControlSave
    \/ \E p \in {"old", "new"}, value \in Setting : Mark(p, value)
    \/ \E p \in {"old", "new"} : WriteSettings(p)
    \/ OpenBegin \/ OpenFinish \/ CloseGrade
    \/ \E value \in Setting : SaveGrade(value)

Environment ==
    \/ Fault \/ Crash
    \/ \E p \in {"old", "new"} : EditPhoto(p)
    \/ \E p \in {"old", "new", "side", "sideNew"} : FileArrives(p)

Next == RunnerStep \/ User \/ Environment

Spec == Init /\ [][Next]_vars
FairSpec == Spec /\ WF_vars(RunnerStep)

-----------------------------------------------------------------------------
(* What a file command promises.                                            *)

TypeOK ==
    /\ fs \in [Place -> Files]
    /\ rows \in [{"old", "new"} -> Row]
    /\ cross \in BOOLEAN
    /\ job \in Job
    /\ disk \in Record
    /\ mem \in Record
    /\ runner \in RunnerPc
    /\ control \in [pc : {"idle", "save"}, copy : Record]
    /\ grade \in {"closed", "opening", "open"}
    /\ serving \in BOOLEAN
    /\ history \in [content : Nat, asked : Setting, completions : Nat]
    /\ budget \in [Bounds -> Nat]

\* The newest pixels of the photo are always complete under one of the three
\* names the command uses, whatever stops it and whoever writes meanwhile.
PhotoKept ==
    \E p \in {"old", "stage", "new"} :
        fs[p].id \in PhotoId /\ fs[p].data = history.content

\* A file of another program is never replaced, moved or removed.
ForeignKept == [][\A p \in Place : fs[p] = Foreign => fs'[p] = Foreign]_vars

\* When no command holds the photo, the Library finds its settings, the marks
\* and the grade asked for last, under the name the photo has.
SettingsFollow ==
    ~Blocked => \E p \in {"old", "new"} :
        fs[p].id \in PhotoId /\ Refreshed(p).value = history.asked

\* A command that was cancelled has left the photo where it was.
CancelLeaves ==
    [][runner = "clear" /\ runner' = "idle" /\ mem.cancelled
       => fs["old"].id \in PhotoId]_vars

\* Taking the rows to the new path never replaces marks that wait there.
RetargetKeeps ==
    [][runner = "index" /\ runner' = "acknowledge" /\ rows["new"].pending
       => rows'["new"].value = rows["new"].value]_vars

\* A command completes once: one notice, one Undo step.
CompletesOnce == history.completions <= 1

\* A temporary file whose creation the record does not know: a crash came
\* between the creation and the checkpoint, and every later run refuses it.
OrphanTemporary ==
    \/ fs["stage"].id = "copy" /\ ~mem.temp
    \/ fs["sideTemp"].id = "moved" /\ fs["sideTemp"] # mem.sideStamp
\* A recorded command is at last finished, whatever crashed or was locked on
\* the way, unless such a temporary file stays.
Finishes == []<>~mem.there \/ <>[]OrphanTemporary
\* What the documentation promises: finished after every crash.
AlwaysFinishes == mem.there ~> ~mem.there

\* The abstract move this command implements.  The settings under way are the
\* recorded ones; otherwise they are what the Library reads for the photo.
PlaceNow == IF ~Blocked /\ fs["new"].id \in PhotoId THEN "new" ELSE "old"
SettingsNow ==
    IF ~Blocked THEN Refreshed(PlaceNow).value
    ELSE IF job.payload = Nothing THEN Plain ELSE job.payload.data
Abstract == INSTANCE PhotoMove WITH
    place <- PlaceNow, settings <- SettingsNow, moving <- Blocked

\* Seen from outside, photo and settings move together or not at all.
MovesAtOnce == Abstract!Spec

\* Inductive invariant: which files can stand where.  The photo's own file
\* never leaves its drive; the staging and temporary names are the command's.
Moving == IF cross THEN "copy" ELSE "orig"
Placement ==
    /\ fs["old"].id \in {"none", "orig", "other"}
    /\ fs["stage"].id \in {"none", Moving}
    /\ fs["new"].id \in {"none", Moving, "other"}
    /\ fs["side"].id \in {"none", "side", "other"}
    /\ fs["sideTemp"].id \in {"none", "moved"}
    /\ fs["sideNew"].id \in {"none", "moved", "side", "other"}
    /\ \A p \in Place :
          /\ fs[p].id = "none" => fs[p] = Nothing
          /\ fs[p].id = "other" => fs[p] = Foreign
          /\ fs[p].id \in {"side", "moved"} => fs[p].data \in Setting
    /\ job.payload = Nothing
       \/ (job.payload.id = "moved" /\ job.payload.data \in Setting)

\* Where the runner is, the files and the record are as that step needs them.
Running ==
    /\ runner # "idle" => mem.there
    /\ runner \in {"lift", "lifted"} => ~cross
    /\ runner = "lift" => fs["old"].id = "orig"
    /\ runner \in {"stage", "staged", "copy", "copying", "verify"} => cross
    /\ runner \in {"staged", "copy", "copying", "verify"} =>
          fs["stage"].id = "copy"
    /\ cross /\ runner \in {"publish", "published", "remove"} =>
          mem.publish # Nothing

\* A copy is recorded only with the data of the preview, and neither a stale
\* save nor a crash takes a record of one command into the next.
Verified(record) ==
    record.publish = Nothing
    \/ record.publish = [id |-> "copy", data |-> job.stamp.data]
Recorded ==
    /\ Verified(mem) /\ Verified(disk) /\ Verified(control.copy)
    /\ disk.there = mem.there
    /\ ~disk.there => disk.publish = Nothing
    /\ control.pc = "idle" /\ ~mem.there => mem.publish = Nothing
    /\ control.pc = "save" <=> control.copy.there
    /\ control.pc = "idle" => control.copy.publish = Nothing
    /\ job.previewed => ~mem.there /\ control.pc = "idle"
    /\ job.previewed \/ mem.there \/ disk.there \/ control.pc = "save" =>
          job.stamp.id = "orig"

\* The newest pixels, and across drives never only in the staging file: that
\* one is emptied whenever a copy starts over.
NewestKept ==
    \E p \in {"old", "new"} \cup (IF cross THEN {} ELSE {"stage"}) :
        fs[p].id \in PhotoId /\ fs[p].data = history.content

MoveInv == TypeOK /\ Placement /\ Running /\ Recorded /\ NewestKept
=============================================================================
