--------------------------- MODULE FileMoveProofs ---------------------------
(* Proofs about FileMove for any settings and any bounds: type correctness, *)
(* that the newest pixels of the photo always stand complete under one of   *)
(* its names (PhotoKept), and that no file of another program is replaced,  *)
(* moved or removed (ForeignKept), from the inductive invariant MoveInv;    *)
(* and, for a photo that is not opened in Grade meanwhile and a command     *)
(* that is neither paused nor cancelled, that its settings follow it        *)
(* (SettingsFollow) and that the command implements PhotoMove               *)
(* (MovesAtOnce), from FollowInv.                                           *)
EXTENDS FileMove, TLAPS

USE SettingAssumption

-----------------------------------------------------------------------------
(* The values the actions build.                                            *)

LEMMA ConstantTypes ==
    /\ Nothing \in Files /\ Foreign \in Files
    /\ NoRow \in Row
    /\ Nothing \in Stamp("orig") /\ Nothing \in Stamp("side")
    /\ Nothing \in Stamp("moved") /\ Nothing \in Stamp("copy")
    /\ NoRecord \in Record
    /\ [NoRecord EXCEPT !.there = TRUE] \in Record
  BY DEF Nothing, Foreign, Files, FileId, NoRow, Row, Stamp, NoRecord, Record

LEMMA RefreshedType ==
    ASSUME TypeOK, Placement, NEW p \in {"old", "new"}
    PROVE  Refreshed(p) \in Row
<1>1. CASE p = "old"
  BY <1>1, ConstantTypes
  DEF TypeOK, Placement, Refreshed, Place, Files, Row, Nothing
<1>2. CASE p = "new"
  BY <1>2, ConstantTypes
  DEF TypeOK, Placement, Refreshed, Place, Files, Row, Nothing
<1> QED BY <1>1, <1>2

LEMMA SpendType ==
    ASSUME TypeOK, NEW kind \in Bounds, NEW max, Spend(kind, max)
    PROVE  budget' \in [Bounds -> Nat]
  BY DEF TypeOK, Spend

\* Saving the record changed in one of its fields keeps records records.
LEMMA CheckpointType ==
    ASSUME TypeOK, NEW record \in Record, NEW pc \in RunnerPc,
           Checkpoint(record, pc), RunRest
    PROVE  TypeOK'
  BY DEF TypeOK, Checkpoint, Save, Run, RunRest

LEMMA FailType ==
    ASSUME TypeOK, Fail
    PROVE  /\ mem' \in Record /\ disk' \in Record /\ runner' \in RunnerPc
           /\ UNCHANGED <<fs, rows>>
  BY DEF TypeOK, Fail, Save, Run, Record, RunnerPc

LEMMA FailRestType ==
    ASSUME TypeOK, Fail, RunRest
    PROVE  TypeOK'
  BY FailType DEF TypeOK, RunRest

LEMMA ContinueType ==
    ASSUME TypeOK, NEW pc \in RunnerPc, Continue(pc), RunRest
    PROVE  TypeOK'
  BY DEF TypeOK, Continue, Run, RunRest

LEMMA OperateType ==
    ASSUME TypeOK, NEW files \in [Place -> Files], NEW pc \in RunnerPc,
           Operate(files, pc), RunRest
    PROVE  TypeOK'
  BY DEF TypeOK, Operate, Run, RunRest

-----------------------------------------------------------------------------
(* Type correctness, one lemma per group of actions.                        *)

LEMMA InitType == Init => TypeOK
<1> SUFFICES ASSUME Init PROVE TypeOK
  OBVIOUS
<1>1. fs \in [Place -> Files]
  BY DEF Init, Files, FileId, Nothing
<1>2. history \in [content : Nat, asked : Setting, completions : Nat]
  BY DEF Init
<1>3. job \in Job
  BY ConstantTypes DEF Init, Job
<1> QED BY <1>1, <1>2, <1>3, ConstantTypes DEF Init, TypeOK, RunnerPc

LEMMA MovePhotoType ==
    ASSUME TypeOK, Placement, Running,
           \/ RunStart \/ Arrive \/ Lift \/ Lifted
           \/ Stage \/ Staged \/ Copy \/ Copying \/ Verify
           \/ Publish \/ Published \/ RemoveSource
    PROVE  TypeOK'
<1> USE ConstantTypes, FailRestType
<1>0. /\ mem \in Record /\ fs \in [Place -> Files] /\ job \in Job
      /\ {"old", "stage", "new", "side", "sideTemp", "sideNew"} \subseteq Place
  BY DEF TypeOK, Place
<1>pc. {"clear", "arrive", "remove", "publish", "stage", "lift", "lifted",
        "staged", "copy", "copying", "verify", "published", "settings"}
          \subseteq RunnerPc
  BY DEF RunnerPc
<1>1. CASE RunStart
  <2>1. [mem EXCEPT !.done = TRUE, !.cancelled = TRUE] \in Record
    BY <1>0 DEF Record
  <2> QED BY <1>1, <1>pc, <2>1, ContinueType, CheckpointType DEF RunStart
<1>2. CASE Arrive
  BY <1>2, <1>pc, ContinueType DEF Arrive
<1>3. CASE Lift
  <2>1. [fs EXCEPT !["stage"] = fs["old"], !["old"] = Nothing]
           \in [Place -> Files]
    BY <1>0
  <2> QED BY <1>3, <1>pc, <2>1, OperateType DEF Lift
<1>4. CASE Lifted
  <2>1. [mem EXCEPT !.phase = TRUE] \in Record
    BY <1>0 DEF Record
  <2> QED BY <1>4, <1>pc, <2>1, CheckpointType DEF Lifted
<1>5. CASE Stage
  <2>1. [fs EXCEPT !["stage"] = [id |-> "copy", data |-> 0]]
           \in [Place -> Files]
    BY <1>0 DEF Files, FileId
  <2> QED BY <1>5, <1>pc, <2>1, OperateType, ContinueType DEF Stage
<1>6. CASE Staged
  <2>1. [mem EXCEPT !.temp = TRUE] \in Record
    BY <1>0 DEF Record
  <2> QED BY <1>6, <1>pc, <2>1, CheckpointType DEF Staged
<1>7. CASE Copy
  <2>1. [fs EXCEPT !["stage"] = [id |-> "copy", data |-> 0]]
           \in [Place -> Files]
    BY <1>0 DEF Files, FileId
  <2> QED BY <1>7, <1>pc, <2>1, OperateType DEF Copy
<1>8. CASE Copying
  <2>1. [fs EXCEPT !["stage"].data = fs["old"].data] \in [Place -> Files]
    BY <1>0 DEF Files
  <2> QED BY <1>8, <1>pc, <2>1, OperateType DEF Copying
<1>9. CASE Verify
  <2>1. fs["stage"] \in Stamp("copy")
    BY <1>9, <1>0 DEF Verify, Running, Stamp, Files
  <2>2. [mem EXCEPT !.publish = fs["stage"], !.phase = TRUE] \in Record
    BY <1>0, <2>1 DEF Record
  <2> QED BY <1>9, <1>pc, <2>2, CheckpointType DEF Verify
<1>10. CASE Publish
  <2>1. [fs EXCEPT !["new"] = fs["stage"], !["stage"] = Nothing]
           \in [Place -> Files]
    BY <1>0
  <2> QED BY <1>10, <1>pc, <2>1, OperateType DEF Publish
<1>11. CASE Published
  <2>1. [mem EXCEPT !.phase = TRUE] \in Record
    BY <1>0 DEF Record
  <2> QED BY <1>11, <1>pc, <2>1, CheckpointType DEF Published
<1>12. CASE RemoveSource
  <2>1. [fs EXCEPT !["old"] = Nothing] \in [Place -> Files]
    BY <1>0
  <2> QED BY <1>12, <1>pc, <2>1, OperateType, ContinueType DEF RemoveSource
<1> QED BY <1>1, <1>2, <1>3, <1>4, <1>5, <1>6, <1>7, <1>8, <1>9, <1>10,
           <1>11, <1>12

LEMMA MoveSettingsType ==
    ASSUME TypeOK, Placement, Running,
           \/ Settings \/ SideStamp \/ SidePublish \/ SidePublished \/ Tidy
           \/ Retarget \/ Acknowledge \/ Finish \/ Clear \/ Serve
    PROVE  TypeOK'
<1> USE ConstantTypes, FailRestType
<1>0. /\ mem \in Record /\ fs \in [Place -> Files] /\ job \in Job
      /\ rows \in [{"old", "new"} -> Row]
      /\ {"old", "stage", "new", "side", "sideTemp", "sideNew"} \subseteq Place
  BY DEF TypeOK, Place
<1>pc. {"idle", "tidy", "index", "sideStamp", "sidePublish", "sidePublished",
        "acknowledge", "finish", "clear"} \subseteq RunnerPc
  BY DEF RunnerPc
<1>1. CASE Settings
  <2>1. job.payload \in Files
    BY <1>0 DEF Job, Stamp, Files, FileId
  <2>2. [fs EXCEPT !["sideTemp"] = job.payload] \in [Place -> Files]
    BY <1>0, <2>1
  <2> QED BY <1>1, <1>pc, <2>2, OperateType, ContinueType DEF Settings
<1>2. CASE SideStamp
  <2>1. fs["sideTemp"] \in Stamp("moved")
    BY <1>0 DEF Placement, Stamp, Files
  <2>2. [mem EXCEPT !.sideStamp = fs["sideTemp"]] \in Record
    BY <1>0, <2>1 DEF Record
  <2> QED BY <1>2, <1>pc, <2>2, CheckpointType DEF SideStamp
<1>3. CASE SidePublish
  <2>1. [fs EXCEPT !["sideNew"] = fs["sideTemp"], !["sideTemp"] = Nothing]
           \in [Place -> Files]
    BY <1>0
  <2> QED BY <1>3, <1>pc, <2>1, OperateType DEF SidePublish
<1>4. CASE SidePublished
  <2>1. [mem EXCEPT !.sidePublished = TRUE, !.phase = TRUE] \in Record
    BY <1>0 DEF Record
  <2> QED BY <1>4, <1>pc, <2>1, CheckpointType DEF SidePublished
<1>5. CASE Tidy
  <2>1. [fs EXCEPT !["side"] = Nothing] \in [Place -> Files]
    BY <1>0
  <2> QED BY <1>5, <1>pc, <2>1, OperateType, ContinueType DEF Tidy
<1>6. CASE Retarget
  <2>1. rows' \in [{"old", "new"} -> Row]
    BY <1>0, <1>6 DEF Retarget, Job
  <2> QED BY <1>6, <1>pc, <2>1 DEF Retarget, Run, RunRest, TypeOK
<1>7. CASE Acknowledge
  <2>1. rows' \in [{"old", "new"} -> Row]
    BY <1>0, <1>7 DEF Acknowledge, Row
  <2> QED BY <1>7, <1>pc, <2>1 DEF Acknowledge, Run, RunRest, TypeOK
<1>8. CASE Finish
  <2>1. [mem EXCEPT !.phase = TRUE, !.done = TRUE, !.failed = FALSE] \in Record
    BY <1>0 DEF Record
  <2> QED BY <1>8, <1>pc, <2>1, CheckpointType DEF Finish
<1>9. CASE Clear
  <2>1. [mem EXCEPT !.there = FALSE] \in Record
    BY <1>0 DEF Record
  <2>2. mem' \in Record /\ disk' \in Record /\ runner' \in RunnerPc
    BY <1>9, <1>pc, <2>1 DEF Clear, Run
  <2>3. history' \in [content : Nat, asked : Setting, completions : Nat]
    BY <1>9 DEF Clear, TypeOK
  <2> QED BY <1>9, <2>2, <2>3 DEF Clear, TypeOK
<1>10. CASE Serve
  BY <1>10 DEF Serve, TypeOK
<1> QED BY <1>1, <1>2, <1>3, <1>4, <1>5, <1>6, <1>7, <1>8, <1>9, <1>10

LEMMA UserType ==
    ASSUME TypeOK, Placement, User
    PROVE  TypeOK'
<1> USE ConstantTypes
<1>0. /\ mem \in Record /\ fs \in [Place -> Files] /\ job \in Job
      /\ rows \in [{"old", "new"} -> Row]
      /\ {"old", "stage", "new", "side", "sideTemp", "sideNew"} \subseteq Place
  BY DEF TypeOK, Place
<1>1. CASE Plan
  <2>1. Refreshed("old") \in Row
    BY RefreshedType
  <2>2. fs["old"] \in Stamp("orig") /\ fs["side"] \in Stamp("side")
    BY <1>0, <1>1 DEF Plan, Placement, Readable, PhotoId, Stamp, Files
  <2>3. job' \in Job
    <3>1. [id |-> "moved", data |-> Refreshed("old").value] \in Stamp("moved")
      BY <2>1 DEF Row, Stamp
    <3> QED BY <1>1, <2>1, <2>2, <3>1 DEF Plan, Job
  <2>4. rows' \in [{"old", "new"} -> Row]
    BY <1>0, <1>1, <2>1 DEF Plan
  <2> QED BY <1>1, <2>3, <2>4 DEF Plan, TypeOK
<1>2. CASE Execute
  <2>1. job' \in Job
    BY <1>0, <1>2 DEF Execute, Job
  <2> QED BY <1>2, <2>1 DEF Execute, Save, TypeOK
<1>3. CASE ControlBegin
  <2>1. ASSUME NEW action \in {"cancel", "pause", "resume"}
        PROVE  [mem EXCEPT !.paused = action = "pause",
                           !.cancel = @ \/ action = "cancel"] \in Record
    <3>1. ASSUME NEW paused \in BOOLEAN, NEW cancel \in BOOLEAN
          PROVE  [mem EXCEPT !.paused = paused, !.cancel = cancel] \in Record
      BY <1>0 DEF Record
    <3>2. (action = "pause") \in BOOLEAN
          /\ (mem.cancel \/ action = "cancel") \in BOOLEAN
      OBVIOUS
    <3> QED BY <3>1, <3>2
  <2>2. mem' \in Record /\ control' \in [pc : {"idle", "save"}, copy : Record]
    <3>1. mem' \in Record /\ control' = [pc |-> "save", copy |-> mem']
      BY <1>3, <2>1, Zenon DEF ControlBegin
    <3> QED BY <3>1
  <2>3. budget' \in [Bounds -> Nat]
    BY <1>3, SpendType DEF ControlBegin, Bounds
  <2> QED BY <1>3, <2>2, <2>3 DEF ControlBegin, TypeOK
<1>4. CASE ControlSave
  <2>1. mem' \in Record
    BY <1>0, <1>4 DEF ControlSave, Record
  <2>2. disk' \in Record /\ control' \in [pc : {"idle", "save"}, copy : Record]
    BY <1>4 DEF ControlSave, TypeOK
  <2> QED BY <1>4, <2>1, <2>2 DEF ControlSave, TypeOK
<1>5. ASSUME NEW p \in {"old", "new"}, NEW value \in Setting, Mark(p, value)
      PROVE  TypeOK'
  <2>1. budget' \in [Bounds -> Nat]
    BY <1>5, SpendType DEF Mark, Bounds
  <2>2. /\ rows' \in [{"old", "new"} -> Row]
        /\ history' \in [content : Nat, asked : Setting, completions : Nat]
    BY <1>5 DEF Mark, TypeOK, Row
  <2> QED BY <1>5, <2>1, <2>2 DEF Mark, TypeOK
<1>6. ASSUME NEW p \in {"old", "new"}, WriteSettings(p)
      PROVE  TypeOK'
  <2>1. fs' \in [Place -> Files]
    <3>1. rows[p].value \in Setting
      BY <1>0 DEF Row
    <3>2. [id |-> "side", data |-> rows[p].value] \in Files
      BY <3>1 DEF Files, FileId
    <3> QED BY <1>0, <1>6, <3>2 DEF WriteSettings
  <2>2. rows' \in [{"old", "new"} -> Row]
    <3>1. /\ [rows EXCEPT ![p] = NoRow] \in [{"old", "new"} -> Row]
          /\ [rows EXCEPT ![p].pending = FALSE] \in [{"old", "new"} -> Row]
      BY <1>0 DEF Row
    <3> QED BY <1>6, <3>1, Zenon DEF WriteSettings
  <2> QED BY <1>6, <2>1, <2>2 DEF WriteSettings, TypeOK
<1>7. CASE OpenBegin
  BY <1>7, SpendType DEF OpenBegin, Bounds, TypeOK
<1>8. CASE OpenFinish \/ CloseGrade
  BY <1>8 DEF OpenFinish, CloseGrade, TypeOK
<1>9. ASSUME NEW value \in Setting, SaveGrade(value)
      PROVE  TypeOK'
  <2>1. budget' \in [Bounds -> Nat]
    BY <1>9, SpendType DEF SaveGrade, Bounds
  <2>2. /\ rows' \in [{"old", "new"} -> Row]
        /\ history' \in [content : Nat, asked : Setting, completions : Nat]
    BY <1>9 DEF SaveGrade, TypeOK, Row
  <2> QED BY <1>9, <2>1, <2>2 DEF SaveGrade, TypeOK
<1> QED BY <1>1, <1>2, <1>3, <1>4, <1>5, <1>6, <1>7, <1>8, <1>9 DEF User

LEMMA EnvironmentType ==
    ASSUME TypeOK, Environment
    PROVE  TypeOK'
<1> USE ConstantTypes DEF Bounds
<1>1. CASE Fault
  BY <1>1, FailType, SpendType DEF Fault, TypeOK
<1>2. CASE Crash
  <2>1. mem' \in Record
    BY <1>2 DEF Crash, TypeOK, Record
  <2>2. job' \in Job
    BY <1>2 DEF Crash, TypeOK, Job
  <2> QED BY <1>2, <2>1, <2>2, SpendType DEF Crash, TypeOK, RunnerPc
<1>3. ASSUME NEW p \in {"old", "new"}, EditPhoto(p)
      PROVE  TypeOK'
  <2>1. fs' \in [Place -> Files]
    BY <1>3 DEF EditPhoto, TypeOK, Place, Files
  <2>2. history' \in [content : Nat, asked : Setting, completions : Nat]
    BY <1>3 DEF EditPhoto, TypeOK
  <2> QED BY <1>3, <2>1, <2>2, SpendType DEF EditPhoto, TypeOK
<1>4. ASSUME NEW p \in {"old", "new", "side", "sideNew"}, FileArrives(p)
      PROVE  TypeOK'
  <2>1. fs' \in [Place -> Files]
    BY <1>4 DEF FileArrives, TypeOK, Place
  <2> QED BY <1>4, <2>1, SpendType DEF FileArrives, TypeOK
<1> QED BY <1>1, <1>2, <1>3, <1>4 DEF Environment

LEMMA NextType ==
    ASSUME TypeOK, Placement, Running, [Next]_vars
    PROVE  TypeOK'
<1>1. CASE UNCHANGED vars
  BY <1>1 DEF vars, TypeOK
<1> QED BY <1>1, MovePhotoType, MoveSettingsType, UserType, EnvironmentType
        DEF Next, RunnerStep

-----------------------------------------------------------------------------
(* Placement: only few steps touch a file.                                  *)

LEMMA PlacementFrame ==
    ASSUME Placement, UNCHANGED <<fs, cross>>, job'.payload = job.payload
    PROVE  Placement'
  BY DEF Placement, Moving

LEMMA MovePhotoPlacement ==
    ASSUME TypeOK, Placement, Running,
           \/ Lift \/ Stage \/ Copy \/ Copying \/ Publish \/ RemoveSource
    PROVE  Placement'
<1> USE DEF RunRest
<1>0. fs \in [Place -> Files] /\ (Fail => UNCHANGED fs)
  BY DEF TypeOK, Fail
<1>1. CASE UNCHANGED fs
  <2>1. UNCHANGED <<cross, job>>
    BY DEF Lift, Stage, Copy, Copying, Publish, RemoveSource
  <2> QED BY <1>1, <2>1, PlacementFrame
<1>2. CASE Lift /\ fs' # fs
  BY <1>0, <1>2
  DEF Lift, Operate, Placement, Running, Moving, Place, Nothing, Foreign
<1>3. CASE Stage /\ fs' # fs
  BY <1>0, <1>3
  DEF Stage, Continue, Operate, Placement, Running, Moving, Place, Nothing,
      Foreign
<1>4. CASE Copy
  BY <1>0, <1>4
  DEF Copy, Operate, Placement, Running, Moving, Place, Nothing, Foreign
<1>5. CASE Copying /\ fs' # fs
  BY <1>0, <1>5
  DEF Copying, Operate, Placement, Running, Moving, Place, Files, Nothing,
      Foreign
<1>6. CASE Publish /\ fs' # fs
  BY <1>0, <1>6
  DEF Publish, Operate, Placement, Moving, Place, Nothing, Foreign
<1>7. CASE RemoveSource /\ fs' # fs
  BY <1>0, <1>7
  DEF RemoveSource, Continue, Operate, Placement, Moving, Place, Nothing,
      Foreign
<1> QED BY <1>1, <1>2, <1>3, <1>4, <1>5, <1>6, <1>7

LEMMA MoveSettingsPlacement ==
    ASSUME TypeOK, Placement, Settings \/ SidePublish \/ Tidy
    PROVE  Placement'
<1> USE DEF RunRest
<1>0. fs \in [Place -> Files] /\ (Fail => UNCHANGED fs)
  BY DEF TypeOK, Fail
<1>1. CASE UNCHANGED fs
  <2>1. UNCHANGED <<cross, job>>
    BY DEF Settings, SidePublish, Tidy
  <2> QED BY <1>1, <2>1, PlacementFrame
<1>2. CASE Settings /\ fs' # fs
  <2>1. /\ fs' = [fs EXCEPT !["sideTemp"] = job.payload]
        /\ job.payload # Nothing /\ UNCHANGED <<cross, job>>
    BY <1>0, <1>2 DEF Settings, Continue, Operate
  <2> QED BY <1>0, <2>1 DEF Placement, Moving, Place
<1>3. CASE SidePublish /\ fs' # fs
  BY <1>0, <1>3
  DEF SidePublish, Operate, Placement, Moving, Place, Nothing, Foreign
<1>4. CASE Tidy /\ fs' # fs
  BY <1>0, <1>4
  DEF Tidy, Continue, Operate, Placement, Moving, Place, Nothing, Foreign
<1> QED BY <1>1, <1>2, <1>3, <1>4

LEMMA OthersPlacement ==
    ASSUME TypeOK, Placement,
           \/ Plan
           \/ \E p \in {"old", "new"} : WriteSettings(p) \/ EditPhoto(p)
           \/ \E p \in {"old", "new", "side", "sideNew"} : FileArrives(p)
    PROVE  Placement'
<1>0. fs \in [Place -> Files] /\ rows \in [{"old", "new"} -> Row]
  BY DEF TypeOK
<1>1. CASE Plan
  <2>1. Refreshed("old").value \in Setting
    BY RefreshedType DEF Row
  <2>2. UNCHANGED <<fs, cross>> /\
        \/ job'.payload = Nothing
        \/ job'.payload = [id |-> "moved", data |-> Refreshed("old").value]
    BY <1>1 DEF Plan
  <2> QED BY <2>1, <2>2 DEF Placement, Moving
<1>2. ASSUME NEW p \in {"old", "new"}, WriteSettings(p)
      PROVE  Placement'
  <2>1. CASE UNCHANGED fs
    BY <1>2, <2>1, PlacementFrame DEF WriteSettings
  <2>2. CASE fs' # fs
    <3>1. rows[p].value \in Setting
      BY <1>0 DEF Row
    <3>2. UNCHANGED <<cross, job>> /\
          fs' = [fs EXCEPT ![IF p = "old" THEN "side" ELSE "sideNew"] =
                    [id |-> "side", data |-> rows[p].value]]
      BY <1>2, <2>2 DEF WriteSettings
    <3> QED BY <1>0, <3>1, <3>2 DEF Placement, Moving, Place, Nothing, Foreign
  <2> QED BY <2>1, <2>2
<1>3. ASSUME NEW p \in {"old", "new"}, EditPhoto(p)
      PROVE  Placement'
  BY <1>0, <1>3
  DEF EditPhoto, Placement, Moving, Place, Files, PhotoId, Nothing, Foreign
<1>4. ASSUME NEW p \in {"old", "new", "side", "sideNew"}, FileArrives(p)
      PROVE  Placement'
  BY <1>0, <1>4 DEF FileArrives, Placement, Moving, Place, Nothing, Foreign
<1> QED BY <1>1, <1>2, <1>3, <1>4

LEMMA NextPlacement ==
    ASSUME TypeOK, Placement, Running, [Next]_vars
    PROVE  Placement'
<1>1. CASE UNCHANGED vars
  BY <1>1, PlacementFrame DEF vars
<1>2. CASE \/ RunStart \/ Arrive \/ Lifted \/ Staged \/ Verify \/ Published
           \/ SideStamp \/ SidePublished \/ Retarget \/ Acknowledge \/ Finish
           \/ Clear \/ Serve
  <2>1. UNCHANGED <<fs, cross, job>>
    BY <1>2
    DEF RunStart, Arrive, Lifted, Staged, Verify, Published, SideStamp,
        SidePublished, Retarget, Acknowledge, Finish, Clear, Serve, Fail,
        Continue, Checkpoint, RunRest
  <2> QED BY <2>1, PlacementFrame
<1>3. CASE Execute \/ Crash
  <2>1. UNCHANGED <<fs, cross>> /\ job'.payload = job.payload
    BY <1>3 DEF Execute, Crash, TypeOK, Job
  <2> QED BY <2>1, PlacementFrame
<1>4. CASE \/ ControlBegin \/ ControlSave \/ OpenBegin \/ OpenFinish
           \/ CloseGrade \/ Fault \/ \E value \in Setting : SaveGrade(value)
           \/ \E p \in {"old", "new"}, value \in Setting : Mark(p, value)
  <2>1. UNCHANGED <<fs, cross, job>>
    BY <1>4 DEF ControlBegin, ControlSave, OpenBegin, OpenFinish, CloseGrade,
                Fault, Fail, SaveGrade, Mark
  <2> QED BY <2>1, PlacementFrame
<1> QED BY <1>1, <1>2, <1>3, <1>4, MovePhotoPlacement, MoveSettingsPlacement,
           OthersPlacement DEF Next, RunnerStep, User, Environment

-----------------------------------------------------------------------------
(* Running: each step leaves the files and the record as the next needs them*)

\* Every failed attempt and every completed or crashed one ends here.
LEMMA IdleRunning == runner' = "idle" => Running'
  BY DEF Running

\* Nothing but the runner moves on; others leave what its step relies on.
LEMMA RunningFrame ==
    ASSUME Running, UNCHANGED <<runner, cross>>,
           mem.there => mem'.there, mem'.publish = mem.publish,
           fs'["stage"].id = fs["stage"].id,
           fs["old"].id = "orig" => fs'["old"].id = "orig"
    PROVE  Running'
  BY DEF Running

LEMMA RunnerRunning ==
    ASSUME TypeOK, Placement, Running, Recorded, RunnerStep
    PROVE  Running'
<1>0. /\ mem \in Record /\ fs \in [Place -> Files]
      /\ Fail => runner' = "idle"
  BY DEF TypeOK, Fail, Run
<1> USE DEF RunRest, Continue, Run
<1>1. CASE RunStart
  <2>1. \/ runner' = "idle"
        \/ runner' \in {"clear", "arrive"} /\ mem.there /\ mem'.there = mem.there
    BY <1>0, <1>1 DEF RunStart, Checkpoint, Save, Record
  <2> QED BY <2>1, IdleRunning DEF Running
<1>2. CASE Arrive
  <2>1. CASE runner' = "remove" /\ cross /\ mem.publish = Nothing
    <3>1. fs["new"] = job.stamp /\ job.stamp.id = "orig"
      BY <1>0, <1>2, <2>1 DEF Arrive, Expected, Running, Recorded
    <3> QED BY <2>1, <3>1 DEF Placement, Moving
  <2>2. CASE ~(runner' = "remove" /\ cross /\ mem.publish = Nothing)
    <3>1. CASE runner' = "lift"
      <4>1. fs["old"] = job.stamp /\ ~cross /\ UNCHANGED <<fs, mem, cross>>
        BY <1>0, <1>2, <3>1 DEF Arrive
      <4> QED BY <1>2, <3>1, <4>1 DEF Arrive, Running, Recorded
    <3>2. CASE runner' # "lift"
      BY <1>0, <1>2, <2>2, <3>2, IdleRunning DEF Arrive, Running
    <3> QED BY <3>1, <3>2
  <2> QED BY <2>1, <2>2
<1>3. CASE Lift
  BY <1>0, <1>3, IdleRunning DEF Lift, Operate, Running
<1>4. CASE Lifted
  BY <1>0, <1>4 DEF Lifted, Checkpoint, Save, Record, Running
<1>5. CASE Stage
  BY <1>0, <1>5, IdleRunning DEF Stage, Operate, Running, Place
<1>6. CASE Staged
  BY <1>0, <1>6 DEF Staged, Checkpoint, Save, Record, Running
<1>7. CASE Copy
  BY <1>0, <1>7 DEF Copy, Operate, Running, Place
<1>8. CASE Copying
  BY <1>0, <1>8, IdleRunning DEF Copying, Operate, Running, Place, Files
<1>9. CASE Verify
  <2>1. CASE runner' # "idle"
    <3>1. /\ mem' = [mem EXCEPT !.publish = fs["stage"], !.phase = TRUE]
          /\ runner' = "publish" /\ runner = "verify"
      BY <1>0, <1>9, <2>1 DEF Verify, Checkpoint, Save
    <3>2. mem'.publish = fs["stage"] /\ mem'.there = mem.there
      BY <1>0, <3>1 DEF Record
    <3> QED BY <3>1, <3>2 DEF Running, Nothing
  <2> QED BY <2>1, IdleRunning
<1>10. CASE Publish
  BY <1>0, <1>10, IdleRunning DEF Publish, Operate, Running
<1>11. CASE Published
  BY <1>0, <1>11 DEF Published, Checkpoint, Save, Record, Running
<1>12. CASE RemoveSource
  BY <1>0, <1>12, IdleRunning DEF RemoveSource, Operate, Running
<1>13. CASE Settings \/ SidePublish \/ Tidy
  <2>1. \/ runner' = "idle"
        \/ /\ runner' \in {"index", "tidy", "sideStamp", "sidePublished"}
           /\ runner # "idle" /\ UNCHANGED mem
    BY <1>0, <1>13 DEF Settings, SidePublish, Tidy, Operate
  <2> QED BY <2>1, IdleRunning DEF Running
<1>14. CASE SideStamp \/ SidePublished \/ Finish
  <2>1. /\ runner # "idle" /\ mem'.there = mem.there
        /\ runner' \in {"sidePublish", "tidy", "clear"}
    BY <1>0, <1>14
    DEF SideStamp, SidePublished, Finish, Checkpoint, Save, Record
  <2> QED BY <2>1 DEF Running
<1>15. CASE Retarget \/ Acknowledge
  BY <1>15 DEF Retarget, Acknowledge, Running
<1>16. CASE Clear
  BY <1>16, IdleRunning DEF Clear
<1>17. CASE Serve
  BY <1>17 DEF Serve, Running
<1> QED BY <1>1, <1>2, <1>3, <1>4, <1>5, <1>6, <1>7, <1>8, <1>9, <1>10,
           <1>11, <1>12, <1>13, <1>14, <1>15, <1>16, <1>17 DEF RunnerStep

LEMMA NextRunning ==
    ASSUME TypeOK, Placement, Running, Recorded, [Next]_vars
    PROVE  Running'
<1>0. mem \in Record /\ fs \in [Place -> Files] /\ control.copy \in Record
  BY DEF TypeOK
<1>1. CASE UNCHANGED vars
  BY <1>1 DEF vars, Running
<1>2. CASE Fault \/ Crash
  BY <1>2, IdleRunning DEF Fault, Fail, Run, Crash
<1>3. CASE Execute
  BY <1>3, IdleRunning DEF Execute
<1>4. CASE ControlBegin \/ ControlSave
  <2>1. UNCHANGED <<runner, cross, fs>>
    BY <1>4 DEF ControlBegin, ControlSave
  <2>2. mem'.publish = mem.publish /\ (mem.there => mem'.there)
    BY <1>0, <1>4 DEF ControlBegin, ControlSave, Record
  <2> QED BY <2>1, <2>2, RunningFrame
<1>5. CASE \/ Plan \/ OpenBegin \/ OpenFinish \/ CloseGrade
           \/ \E value \in Setting : SaveGrade(value)
           \/ \E p \in {"old", "new"}, value \in Setting : Mark(p, value)
  <2>1. UNCHANGED <<runner, cross, fs, mem>>
    BY <1>5 DEF Plan, OpenBegin, OpenFinish, CloseGrade, SaveGrade, Mark
  <2> QED BY <2>1, RunningFrame
<1>6. ASSUME NEW p \in {"old", "new"}, WriteSettings(p)
      PROVE  Running'
  <2>1. /\ UNCHANGED <<runner, cross, mem>>
        /\ \/ UNCHANGED fs
           \/ fs' = [fs EXCEPT ![IF p = "old" THEN "side" ELSE "sideNew"] =
                        [id |-> "side", data |-> rows[p].value]]
    BY <1>6, Zenon DEF WriteSettings
  <2>2. fs'["old"] = fs["old"] /\ fs'["stage"] = fs["stage"]
    BY <1>0, <2>1 DEF Place
  <2> QED BY <2>1, <2>2, RunningFrame
<1>7. ASSUME NEW p \in {"old", "new"}, EditPhoto(p)
      PROVE  Running'
  <2>1. /\ UNCHANGED <<runner, cross, mem, fs["stage"]>>
        /\ fs'["old"].id = fs["old"].id
    BY <1>0, <1>7 DEF EditPhoto, Files, Place
  <2> QED BY <2>1, RunningFrame
<1>8. ASSUME NEW p \in {"old", "new", "side", "sideNew"}, FileArrives(p)
      PROVE  Running'
  <2>1. /\ UNCHANGED <<runner, cross, mem, fs["stage"]>>
        /\ fs["old"].id = "orig" => fs'["old"].id = "orig"
    BY <1>0, <1>8 DEF FileArrives, Nothing
  <2> QED BY <2>1, RunningFrame
<1> QED BY <1>1, <1>2, <1>3, <1>4, <1>5, <1>6, <1>7, <1>8, RunnerRunning
        DEF Next, User, Environment

-----------------------------------------------------------------------------
(* Recorded: what the three copies of the record say of a copied photo.     *)

LEMMA RecordedFrame ==
    ASSUME Recorded, UNCHANGED <<mem, disk, control, job>>
    PROVE  Recorded'
  BY DEF Recorded, Verified

\* A save of the running record.
LEMMA RecordedSave ==
    ASSUME Recorded, NEW record, Save(record), mem.there, record.there,
           Verified(record), UNCHANGED <<control, job>>
    PROVE  Recorded'
  BY DEF Recorded, Verified, Save

LEMMA RecordedFail ==
    ASSUME TypeOK, Recorded, Running, runner # "idle" \/ mem.there,
           Fail, UNCHANGED <<control, job>>
    PROVE  Recorded'
<1> DEFINE record == [mem EXCEPT !.failed = TRUE]
<1>1. record.there = mem.there /\ record.publish = mem.publish
  BY DEF TypeOK, Record
<1>2. Save(record) /\ mem.there
  BY DEF Fail, Running
<1> HIDE DEF record
<1> QED BY <1>1, <1>2, RecordedSave DEF Recorded, Verified

LEMMA RunnerRecorded ==
    ASSUME TypeOK, Running, Recorded, RunnerStep
    PROVE  Recorded'
<1>0. mem \in Record
  BY DEF TypeOK
<1> USE DEF RunRest, Run
<1>1. CASE \/ Arrive \/ Lift \/ Stage \/ Copy \/ Copying \/ Publish
           \/ RemoveSource \/ Settings \/ SidePublish \/ Tidy
  <2>1. Fail \/ UNCHANGED <<mem, disk>>
    BY <1>1
    DEF Arrive, Lift, Stage, Copy, Copying, Publish, RemoveSource, Settings,
        SidePublish, Tidy, Continue, Operate
  <2>2. runner # "idle" /\ UNCHANGED <<control, job>>
    BY <1>1
    DEF Arrive, Lift, Stage, Copy, Copying, Publish, RemoveSource, Settings,
        SidePublish, Tidy
  <2> QED BY <2>1, <2>2, RecordedFail, RecordedFrame
<1>2. CASE Lifted \/ Staged \/ Published \/ SideStamp \/ SidePublished \/ Finish
  <2>1. /\ disk' = mem' /\ mem'.there = mem.there
        /\ mem'.publish = mem.publish
    BY <1>0, <1>2
    DEF Lifted, Staged, Published, SideStamp, SidePublished, Finish, Checkpoint,
        Save, Record
  <2>2. mem.there /\ UNCHANGED <<control, job>>
    BY <1>2
    DEF Lifted, Staged, Published, SideStamp, SidePublished, Finish, Running
  <2> QED BY <2>1, <2>2 DEF Recorded, Verified
<1>3. CASE RunStart
  <2> DEFINE record == [mem EXCEPT !.done = TRUE, !.cancelled = TRUE]
  <2>1. record.there = mem.there /\ record.publish = mem.publish
    BY <1>0 DEF Record
  <2>2. mem.there /\ UNCHANGED <<control, job>>
    BY <1>3 DEF RunStart
  <2>3. Fail \/ UNCHANGED <<mem, disk>> \/ Save(record)
    BY <1>3 DEF RunStart, Continue, Checkpoint
  <2> HIDE DEF record
  <2> QED BY <2>1, <2>2, <2>3, RecordedSave, RecordedFail, RecordedFrame
          DEF Recorded, Verified
<1>4. CASE Verify
  <2> DEFINE record == [mem EXCEPT !.publish = fs["stage"], !.phase = TRUE]
  <2>1. record.there = mem.there /\ record.publish = fs["stage"]
    BY <1>0 DEF Record
  <2>2. /\ runner # "idle" /\ mem.there /\ UNCHANGED <<control, job>>
        /\ fs["stage"].id = "copy"
        /\ \/ Fail
           \/ Save(record) /\ fs["stage"].data = job.stamp.data
    BY <1>4 DEF Verify, Checkpoint, Running
  <2>3. fs["stage"] = [id |-> fs["stage"].id, data |-> fs["stage"].data]
    BY DEF TypeOK, Place, Files
  <2> HIDE DEF record
  <2> QED BY <2>1, <2>2, <2>3, RecordedSave, RecordedFail DEF Verified
<1>5. CASE Retarget \/ Acknowledge \/ Serve
  BY <1>5, RecordedFrame DEF Retarget, Acknowledge, Serve
<1>6. CASE Clear
  <2>1. /\ disk' = NoRecord /\ UNCHANGED <<control, job>>
        /\ control.pc # "save" => mem' = NoRecord
        /\ control.pc = "save" =>
              mem'.there = FALSE /\ mem'.publish = mem.publish
    BY <1>0, <1>6 DEF Clear, Record
  <2>2. NoRecord.there = FALSE /\ NoRecord.publish = Nothing
    BY DEF NoRecord
  <2>3. ~job.previewed /\ job.stamp.id = "orig" /\ runner = "clear"
    BY <1>6 DEF Clear, Running, Recorded
  <2>4. control.pc \in {"idle", "save"}
    BY DEF TypeOK
  <2>5. CASE control.pc = "idle"
    BY <2>1, <2>2, <2>3, <2>5 DEF Recorded, Verified
  <2>6. CASE control.pc = "save"
    BY <2>1, <2>2, <2>3, <2>6 DEF Recorded, Verified
  <2> QED BY <2>4, <2>5, <2>6
<1> QED BY <1>1, <1>2, <1>3, <1>4, <1>5, <1>6 DEF RunnerStep

LEMMA NextRecorded ==
    ASSUME TypeOK, Placement, Running, Recorded, [Next]_vars
    PROVE  Recorded'
<1>0. /\ mem \in Record /\ disk \in Record /\ job \in Job
      /\ control \in [pc : {"idle", "save"}, copy : Record]
  BY DEF TypeOK
<1>none. /\ ~NoRecord.there /\ NoRecord.publish = Nothing
         /\ [NoRecord EXCEPT !.there = TRUE].there
         /\ [NoRecord EXCEPT !.there = TRUE].publish = Nothing
  BY DEF NoRecord
<1>1. CASE UNCHANGED vars
  BY <1>1, RecordedFrame DEF vars
<1>2. CASE Plan
  <2>1. /\ control.pc = "idle" /\ ~mem.there /\ UNCHANGED <<mem, disk, control>>
        /\ job'.previewed /\ job'.stamp = fs["old"] /\ fs["old"].id \in PhotoId
    BY <1>2 DEF Plan
  <2>2. fs["old"].id = "orig"
    BY <2>1 DEF Placement, PhotoId
  <2> QED BY <2>1, <2>2 DEF Recorded, Verified
<1>3. CASE Execute
  <2>1. /\ job.previewed /\ ~job'.previewed /\ job'.stamp = job.stamp
        /\ UNCHANGED control
        /\ \/ UNCHANGED <<mem, disk>>
           \/ Save([NoRecord EXCEPT !.there = TRUE])
    BY <1>0, <1>3 DEF Execute, Job
  <2> QED BY <2>1, <1>none DEF Recorded, Verified, Save
<1>4. CASE ControlBegin
  <2>1. /\ mem.there /\ UNCHANGED <<disk, job>>
        /\ control' = [pc |-> "save", copy |-> mem']
    BY <1>4, Zenon DEF ControlBegin
  <2>2. mem'.there = mem.there /\ mem'.publish = mem.publish
    BY <1>0, <1>4 DEF ControlBegin, Record
  <2> QED BY <2>1, <2>2 DEF Recorded, Verified
<1>5. CASE ControlSave
  <2>1. /\ control.pc = "save" /\ disk' = control.copy /\ UNCHANGED job
        /\ control' = [pc |-> "idle", copy |-> NoRecord]
        /\ mem'.there /\ mem'.publish = mem.publish
    BY <1>0, <1>5 DEF ControlSave, Record
  <2> QED BY <2>1, <1>none DEF Recorded, Verified
<1>6. CASE Crash
  <2>1. /\ mem'.there = disk.there /\ mem'.publish = disk.publish
        /\ UNCHANGED disk /\ control' = [pc |-> "idle", copy |-> NoRecord]
        /\ ~job'.previewed /\ job'.stamp = job.stamp
    BY <1>0, <1>6 DEF Crash, Record, Job
  <2> QED BY <2>1, <1>none DEF Recorded, Verified
<1>7. CASE Fault
  BY <1>7, RecordedFail DEF Fault
<1>8. CASE \/ OpenBegin \/ OpenFinish \/ CloseGrade
           \/ \E value \in Setting : SaveGrade(value)
           \/ \E p \in {"old", "new"}, value \in Setting : Mark(p, value)
           \/ \E p \in {"old", "new"} : WriteSettings(p) \/ EditPhoto(p)
           \/ \E p \in {"old", "new", "side", "sideNew"} : FileArrives(p)
  <2>1. UNCHANGED <<mem, disk, control, job>>
    BY <1>8 DEF OpenBegin, OpenFinish, CloseGrade, SaveGrade, Mark,
                WriteSettings, EditPhoto, FileArrives
  <2> QED BY <2>1, RecordedFrame
<1> QED BY <1>1, <1>2, <1>3, <1>4, <1>5, <1>6, <1>7, <1>8, RunnerRecorded
        DEF Next, User, Environment

-----------------------------------------------------------------------------
(* NewestKept: complete copies of the newest pixels.                        *)

LEMMA NewestFrame ==
    ASSUME NewestKept, UNCHANGED <<fs, cross>>,
           history'.content = history.content
    PROVE  NewestKept'
  BY DEF NewestKept

\* The photo stays whole: on one drive it only changes its name; across drives
\* the staging file is none of its names, and the original goes when a copy
\* with the same data stands at the new name.
LEMMA RunnerNewest ==
    ASSUME TypeOK, Placement, Running, Recorded, NewestKept, RunnerStep
    PROVE  NewestKept'
<1>0. /\ fs \in [Place -> Files] /\ {"old", "new", "stage"} \subseteq Place
      /\ Fail => UNCHANGED fs
  BY DEF TypeOK, Place, Fail
<1>rest. ~Clear => UNCHANGED <<cross, history>>
  BY DEF RunnerStep, RunStart, Arrive, Lift, Lifted, Stage, Staged, Copy,
         Copying, Verify, Publish, Published, RemoveSource, Settings, SideStamp,
         SidePublish, SidePublished, Tidy, Retarget, Acknowledge, Finish,
         Serve, RunRest
<1>1. CASE UNCHANGED fs /\ ~Clear
  BY <1>1, <1>rest, NewestFrame
<1>2. CASE Clear
  <2>1. UNCHANGED <<fs, cross>> /\ history'.content = history.content
    BY <1>2 DEF Clear, TypeOK
  <2> QED BY <2>1, NewestFrame
<1>3. CASE Lift /\ fs' # fs
  <2>1. /\ fs' = [fs EXCEPT !["stage"] = fs["old"], !["old"] = Nothing]
        /\ fs["stage"] = Nothing /\ ~cross /\ UNCHANGED <<cross, history>>
    BY <1>0, <1>3 DEF Lift, Operate, Running, RunRest
  <2> QED BY <1>0, <2>1 DEF NewestKept, PhotoId, Nothing
<1>4. CASE (Stage \/ Copy \/ Copying) /\ fs' # fs
  <2>1. /\ fs'["old"] = fs["old"] /\ fs'["new"] = fs["new"]
        /\ cross /\ UNCHANGED <<cross, history>>
    BY <1>0, <1>4
    DEF Stage, Copy, Copying, Continue, Operate, Running, RunRest
  <2> QED BY <2>1 DEF NewestKept
<1>5. CASE Publish /\ fs' # fs
  <2>1. /\ fs' = [fs EXCEPT !["new"] = fs["stage"], !["stage"] = Nothing]
        /\ fs["new"] = Nothing /\ UNCHANGED <<cross, history>>
    BY <1>0, <1>5 DEF Publish, Operate, RunRest
  <2> QED BY <1>0, <2>1 DEF NewestKept, PhotoId, Nothing
<1>6. CASE RemoveSource /\ fs' # fs
  <2>1. /\ fs' = [fs EXCEPT !["old"] = Nothing]
        /\ runner = "remove" /\ cross /\ fs["old"] = job.stamp
        /\ fs["new"] = mem.publish /\ UNCHANGED <<cross, history>>
    BY <1>0, <1>6 DEF RemoveSource, Continue, Operate, RunRest
  <2>2. mem.publish = [id |-> "copy", data |-> job.stamp.data]
    BY <2>1 DEF Running, Recorded, Verified
  <2>3. fs'["new"] = fs["new"] /\ fs["new"].id = "copy"
        /\ fs["new"].data = fs["old"].data
    BY <1>0, <2>1, <2>2
  <2> QED BY <2>1, <2>3 DEF NewestKept, PhotoId
<1>7. CASE (Settings \/ SidePublish \/ Tidy) /\ fs' # fs
  <2>1. /\ fs'["old"] = fs["old"] /\ fs'["new"] = fs["new"]
        /\ fs'["stage"] = fs["stage"] /\ UNCHANGED <<cross, history>>
    BY <1>0, <1>7
    DEF Settings, SidePublish, Tidy, Continue, Operate, RunRest
  <2> QED BY <2>1 DEF NewestKept
<1>8. CASE \/ RunStart \/ Arrive \/ Lifted \/ Staged \/ Verify \/ Published
           \/ SideStamp \/ SidePublished \/ Retarget \/ Acknowledge \/ Finish
           \/ Serve
  <2>1. UNCHANGED <<fs, cross, history>>
    BY <1>8
    DEF RunStart, Arrive, Lifted, Staged, Verify, Published, SideStamp,
        SidePublished, Retarget, Acknowledge, Finish, Serve, Fail, Continue,
        Checkpoint, RunRest
  <2> QED BY <2>1, NewestFrame
<1> QED BY <1>1, <1>2, <1>3, <1>4, <1>5, <1>6, <1>7, <1>8 DEF RunnerStep

LEMMA NextNewest ==
    ASSUME TypeOK, Placement, Running, Recorded, NewestKept, [Next]_vars
    PROVE  NewestKept'
<1>0. /\ fs \in [Place -> Files] /\ {"old", "new", "stage"} \subseteq Place
      /\ history \in [content : Nat, asked : Setting, completions : Nat]
  BY DEF TypeOK, Place
<1>1. CASE UNCHANGED vars
  BY <1>1, NewestFrame DEF vars
<1>2. CASE \/ Plan \/ Execute \/ ControlBegin \/ ControlSave \/ OpenBegin
           \/ OpenFinish \/ CloseGrade \/ Fault \/ Crash
           \/ \E value \in Setting : SaveGrade(value)
           \/ \E p \in {"old", "new"}, value \in Setting : Mark(p, value)
  <2>1. UNCHANGED <<fs, cross>> /\ history'.content = history.content
    BY <1>0, <1>2
    DEF Plan, Execute, ControlBegin, ControlSave, OpenBegin, OpenFinish,
        CloseGrade, Fault, Fail, Crash, SaveGrade, Mark
  <2> QED BY <2>1, NewestFrame
<1>3. ASSUME NEW p \in {"old", "new"}, WriteSettings(p)
      PROVE  NewestKept'
  <2>1. /\ UNCHANGED <<cross, history>>
        /\ \/ UNCHANGED fs
           \/ fs' = [fs EXCEPT ![IF p = "old" THEN "side" ELSE "sideNew"] =
                        [id |-> "side", data |-> rows[p].value]]
    BY <1>3, Zenon DEF WriteSettings
  <2>2. /\ fs'["old"] = fs["old"] /\ fs'["new"] = fs["new"]
        /\ fs'["stage"] = fs["stage"]
    BY <1>0, <2>1
  <2> QED BY <2>1, <2>2 DEF NewestKept
<1>4. ASSUME NEW p \in {"old", "new"}, EditPhoto(p)
      PROVE  NewestKept'
  <2>1. /\ fs[p].id \in PhotoId /\ fs[p].data = history.content
        /\ fs' = [fs EXCEPT ![p].data = @ + 1]
        /\ history' = [history EXCEPT !.content = @ + 1]
        /\ UNCHANGED cross
    BY <1>4 DEF EditPhoto
  <2>2. fs'[p].id = fs[p].id /\ fs'[p].data = history'.content
    BY <1>0, <2>1 DEF Files
  <2> QED BY <2>1, <2>2 DEF NewestKept
<1>5. ASSUME NEW p \in {"old", "new", "side", "sideNew"}, FileArrives(p)
      PROVE  NewestKept'
  <2>1. /\ fs[p] = Nothing /\ fs' = [fs EXCEPT ![p] = Foreign]
        /\ UNCHANGED <<cross, history>>
    BY <1>5 DEF FileArrives
  <2> QED BY <1>0, <2>1 DEF NewestKept, PhotoId, Nothing
<1> QED BY <1>1, <1>2, <1>3, <1>4, <1>5, RunnerNewest
        DEF Next, User, Environment

-----------------------------------------------------------------------------
(* The theorems.                                                            *)

LEMMA InitMoveInv == Init => MoveInv
<1> SUFFICES ASSUME Init PROVE MoveInv
  OBVIOUS
<1>0. /\ fs["old"] = [id |-> "orig", data |-> 1]
      /\ fs["side"] = Nothing
         \/ (fs["side"].id = "side" /\ fs["side"].data \in Setting)
      /\ \A p \in Place \ {"old", "side"} : fs[p] = Nothing
  <2>1. PICK value \in Setting, sidecar \in BOOLEAN :
               fs = [p \in Place |->
                      CASE p = "old" -> [id |-> "orig", data |-> 1]
                        [] p = "side" /\ sidecar ->
                              [id |-> "side", data |-> value]
                        [] OTHER -> Nothing]
    BY Zenon DEF Init
  <2>2. CASE sidecar = TRUE
    BY <2>1, <2>2 DEF Place
  <2>3. CASE sidecar = FALSE
    BY <2>1, <2>3 DEF Place
  <2> QED BY <2>2, <2>3
<1>1. Placement
  <2>1. job.payload = Nothing
    BY DEF Init
  <2> QED BY <1>0, <2>1 DEF Placement, Moving, Place, Nothing
<1>2. Running
  BY DEF Init, Running
<1>3. Recorded
  BY DEF Init, Recorded, Verified, NoRecord
<1>4. NewestKept
  <2>1. fs["old"] = [id |-> "orig", data |-> 1]
    BY <1>0 DEF Place, Nothing
  <2>2. history.content = 1
    BY DEF Init
  <2> QED BY <2>1, <2>2 DEF NewestKept, PhotoId
<1> QED BY <1>1, <1>2, <1>3, <1>4, InitType DEF MoveInv

\* The state of a file command is always one that its next step is meant for:
\* what stands where, what the record says and where the runner is agree after
\* any crash, stale save of the record and write of another program.
THEOREM MoveInvariant == Spec => []MoveInv
<1>1. MoveInv /\ [Next]_vars => MoveInv'
  BY NextType, NextPlacement, NextRunning, NextRecorded, NextNewest DEF MoveInv
<1> QED BY <1>1, InitMoveInv, PTL DEF Spec

\* Type correctness, for any settings and bounds.
THEOREM MoveTypeCorrect == Spec => []TypeOK
<1>1. MoveInv => TypeOK
  BY DEF MoveInv
<1> QED BY <1>1, MoveInvariant, PTL

\* The newest pixels are always complete under one of the command's names,
\* whatever stops it and whoever writes the photo meanwhile.
THEOREM PixelsKept == Spec => []PhotoKept
<1>1. MoveInv => PhotoKept
  BY DEF MoveInv, NewestKept, PhotoKept
<1> QED BY <1>1, MoveInvariant, PTL

-----------------------------------------------------------------------------
(* Files of other programs.                                                 *)

LEMMA RunnerLeavesForeign ==
    ASSUME MoveInv, RunnerStep, NEW p \in Place, fs[p] = Foreign
    PROVE  fs'[p] = Foreign
<1>0. /\ fs \in [Place -> Files] /\ (Fail => UNCHANGED fs)
      /\ Foreign # Nothing /\ Foreign.id = "other"
  BY DEF MoveInv, TypeOK, Fail, Foreign, Nothing
<1>1. p \notin {"stage", "sideTemp"}
  BY <1>0 DEF MoveInv, Placement, Moving
<1>2. CASE UNCHANGED fs
  BY <1>2
<1>3. CASE (Lift \/ RemoveSource) /\ fs' # fs
  <2>1. fs["old"].id = "orig"
    BY <1>0, <1>3 DEF Lift, RemoveSource, Continue, MoveInv, Running, Recorded
  <2>2. \A q \in Place \ {"old", "stage"} : fs'[q] = fs[q]
    BY <1>0, <1>3 DEF Lift, RemoveSource, Continue, Operate
  <2> QED BY <1>0, <1>1, <2>1, <2>2
<1>4. CASE (Stage \/ Copy \/ Copying) /\ fs' # fs
  <2>1. \A q \in Place \ {"stage"} : fs'[q] = fs[q]
    BY <1>0, <1>4 DEF Stage, Copy, Copying, Continue, Operate
  <2> QED BY <1>1, <2>1
<1>5. CASE Publish /\ fs' # fs
  <2>1. fs["new"] = Nothing
        /\ \A q \in Place \ {"new", "stage"} : fs'[q] = fs[q]
    BY <1>0, <1>5 DEF Publish, Operate
  <2> QED BY <1>0, <1>1, <2>1
<1>6. CASE Settings /\ fs' # fs
  <2>1. \A q \in Place \ {"sideTemp"} : fs'[q] = fs[q]
    BY <1>0, <1>6 DEF Settings, Continue, Operate
  <2> QED BY <1>1, <2>1
<1>7. CASE SidePublish /\ fs' # fs
  <2>1. fs["sideNew"] = Nothing
        /\ \A q \in Place \ {"sideNew", "sideTemp"} : fs'[q] = fs[q]
    BY <1>0, <1>7 DEF SidePublish, Operate
  <2> QED BY <1>0, <1>1, <2>1
<1>8. CASE Tidy /\ fs' # fs
  <2>1. fs["side"] = job.side
        /\ \A q \in Place \ {"side"} : fs'[q] = fs[q]
    BY <1>0, <1>8 DEF Tidy, Continue, Operate
  <2>2. job.side.id # "other"
    BY DEF MoveInv, TypeOK, Job, Stamp
  <2> QED BY <1>0, <2>1, <2>2
<1>9. CASE \/ RunStart \/ Arrive \/ Lifted \/ Staged \/ Verify \/ Published
           \/ SideStamp \/ SidePublished \/ Retarget \/ Acknowledge \/ Finish
           \/ Clear \/ Serve
  <2>1. UNCHANGED fs
    BY <1>9
    DEF RunStart, Arrive, Lifted, Staged, Verify, Published, SideStamp,
        SidePublished, Retarget, Acknowledge, Finish, Clear, Serve, Fail,
        Continue, Checkpoint
  <2> QED BY <2>1
<1> QED BY <1>2, <1>3, <1>4, <1>5, <1>6, <1>7, <1>8, <1>9 DEF RunnerStep

LEMMA NextLeavesForeign ==
    ASSUME MoveInv, [Next]_vars, NEW p \in Place, fs[p] = Foreign
    PROVE  fs'[p] = Foreign
<1>0. /\ fs \in [Place -> Files] /\ {"old", "new", "side", "sideNew"} \subseteq Place
      /\ Foreign # Nothing /\ Foreign.id \notin PhotoId
  BY DEF MoveInv, TypeOK, Place, Foreign, Nothing, PhotoId
<1>1. CASE UNCHANGED vars
  BY <1>1 DEF vars
<1>2. CASE \/ Plan \/ Execute \/ ControlBegin \/ ControlSave \/ OpenBegin
           \/ OpenFinish \/ CloseGrade \/ Fault \/ Crash
           \/ \E value \in Setting : SaveGrade(value)
           \/ \E q \in {"old", "new"}, value \in Setting : Mark(q, value)
  <2>1. UNCHANGED fs
    BY <1>2
    DEF Plan, Execute, ControlBegin, ControlSave, OpenBegin, OpenFinish,
        CloseGrade, Fault, Fail, Crash, SaveGrade, Mark
  <2> QED BY <2>1
<1>3. ASSUME NEW q \in {"old", "new"}, WriteSettings(q)
      PROVE  fs'[p] = Foreign
  <2> DEFINE side == IF q = "old" THEN "side" ELSE "sideNew"
  <2>1. /\ fs[side] # Foreign
        /\ \/ UNCHANGED fs
           \/ fs' = [fs EXCEPT ![side] =
                        [id |-> "side", data |-> rows[q].value]]
    BY <1>3, Zenon DEF WriteSettings, Readable
  <2> HIDE DEF side
  <2> QED BY <1>0, <2>1
<1>4. ASSUME NEW q \in {"old", "new"}, EditPhoto(q)
      PROVE  fs'[p] = Foreign
  BY <1>0, <1>4 DEF EditPhoto
<1>5. ASSUME NEW q \in {"old", "new", "side", "sideNew"}, FileArrives(q)
      PROVE  fs'[p] = Foreign
  BY <1>0, <1>5 DEF FileArrives
<1> QED BY <1>1, <1>2, <1>3, <1>4, <1>5, RunnerLeavesForeign
        DEF Next, User, Environment

\* A file of another program is never replaced, moved or removed, wherever it
\* appears and at whatever step of the command.
THEOREM OthersUntouched == Spec => ForeignKept
<1>1. MoveInv /\ [Next]_vars
      => [\A p \in Place : fs[p] = Foreign => fs'[p] = Foreign]_vars
  BY NextLeavesForeign
<1> QED BY <1>1, MoveInvariant, PTL DEF Spec, ForeignKept

-----------------------------------------------------------------------------
(* A command whose photo is not opened in Grade and that is neither paused  *)
(* nor cancelled: the invariant behind SettingsFollow and MovesAtOnce.      *)

\* The photo is opened in no session and its command neither paused nor
\* cancelled while it is recorded; the other bounds may be any.
Undisturbed == MaxOpens = 0 /\ MaxControls = 0

Quiet ==
    /\ grade = "closed" /\ control.pc = "idle"
    /\ ~mem.paused /\ ~mem.cancel /\ ~mem.cancelled
    /\ mem = [disk EXCEPT !.failed = mem.failed]

\* The command is previewed and executed once; it is done when its last step
\* has saved the record, and its record goes with the next one.
Waiting == ~mem.there /\ history.completions = 0
Moved == mem.done \/ history.completions > 0
Stages ==
    /\ mem.there \/ job.previewed => history.completions = 0
    /\ mem.done => mem.there
    /\ runner # "idle" => (runner = "clear" <=> mem.done)

\* One file is the photo; it is at its old name before the command and at its
\* new name, and only there, from the step that removes the original on.
Late == {"settings", "sideStamp", "sidePublish", "sidePublished", "tidy",
         "index", "acknowledge", "finish", "clear"}
Standing ==
    /\ \A p, q \in {"old", "stage", "new"} :
          fs[p].id = "orig" /\ fs[q].id = "orig" => p = q
    /\ Waiting => fs["old"].id \in PhotoId /\ fs["new"].id \notin PhotoId
    /\ Moved \/ runner \in Late \cup {"published", "remove"} =>
          fs["new"].id \in PhotoId
    /\ Moved \/ runner \in Late => fs["old"].id \notin PhotoId

\* What the preview recorded agrees with itself, and the files and rows at the
\* new name hold nothing but that.
Carried ==
    /\ Waiting => /\ fs["sideTemp"] = Nothing
                  /\ fs["sideNew"] \in {Nothing, Foreign}
                  /\ rows["new"] = NoRow
    /\ job.previewed \/ Blocked =>
          /\ job.row.there <=> job.payload # Nothing
          /\ job.row.there \/ job.row = NoRow
    /\ job.previewed =>
          /\ job.row.there => job.payload.data = job.row.value
          /\ ~job.row.pending /\ job.side # Nothing =>
                job.row.value = job.side.data
    /\ Blocked => /\ fs["sideTemp"] \in {Nothing, job.payload}
                  /\ fs["sideNew"] \in {Nothing, Foreign, job.payload}
                  /\ mem.sideStamp \in {Nothing, job.payload}
                  /\ ~job.row.there => rows["new"] = NoRow

\* How far the settings are at each step of the runner.
Progress ==
    /\ runner \in {"sideStamp", "sidePublish"} =>
          job.payload # Nothing /\ fs["sideTemp"] = job.payload
    /\ runner \in {"sidePublished", "tidy"} =>
          job.payload # Nothing /\ fs["sideNew"] # Nothing
    /\ runner \in {"index", "acknowledge", "finish"} /\ job.payload # Nothing =>
          fs["sideNew"] = job.payload
    /\ runner = "finish" => ~rows["new"].pending

\* A row that is not there, or is unread while there is no settings file, is
\* that of a photo without settings.
Unread ==
    /\ \A p \in {"old", "new"} : rows[p].there \/ rows[p] = NoRow
    /\ Waiting /\ fs["side"] = Nothing /\ ~rows["old"].pending =>
          rows["old"].value = Plain
    /\ Moved /\ fs["sideNew"] = Nothing /\ ~rows["new"].pending =>
          rows["new"].value = Plain

FollowInv ==
    /\ Quiet /\ Stages /\ Standing /\ Carried /\ Progress /\ Unread
    /\ history.asked = SettingsNow

-----------------------------------------------------------------------------
(* Quiet: the two copies of the record, and no one else at the photo.       *)

LEMMA QuietFrame ==
    ASSUME Quiet, UNCHANGED <<grade, control, mem, disk>>
    PROVE  Quiet'
  BY DEF Quiet

LEMMA QuietSave ==
    ASSUME Quiet, NEW record \in Record, Save(record), UNCHANGED <<grade, control>>,
           ~record.paused, ~record.cancel, ~record.cancelled
    PROVE  Quiet'
  BY DEF Quiet, Save, Record

LEMMA QuietFail ==
    ASSUME TypeOK, Quiet, Fail, UNCHANGED <<grade, control>>
    PROVE  Quiet'
<1>1. mem \in Record
  BY DEF TypeOK
<1> DEFINE record == [mem EXCEPT !.failed = TRUE]
<1>2. /\ record \in Record
      /\ ~record.paused /\ ~record.cancel /\ ~record.cancelled
  BY <1>1 DEF Record, Quiet
<1>3. Save(record)
  BY DEF Fail
<1> HIDE DEF record
<1> QED BY <1>2, <1>3, QuietSave

\* Nobody opens the photo, pauses or cancels.
LEMMA Disabled ==
    ASSUME Undisturbed, TypeOK, Quiet
    PROVE  /\ ~OpenBegin /\ ~OpenFinish /\ ~CloseGrade
           /\ ~ControlBegin /\ ~ControlSave
           /\ \A value \in Setting : ~SaveGrade(value)
<1>1. budget["opens"] \in Nat /\ budget["controls"] \in Nat
  BY DEF TypeOK, Bounds
<1>2. ~Spend("opens", MaxOpens) /\ ~Spend("controls", MaxControls)
  BY <1>1 DEF Spend, Undisturbed
<1> QED BY <1>2 DEF OpenBegin, OpenFinish, CloseGrade, ControlBegin, ControlSave,
                    SaveGrade, Quiet

LEMMA RunnerQuiet ==
    ASSUME MoveInv, Quiet, RunnerStep
    PROVE  Quiet'
<1>0. TypeOK /\ mem \in Record /\ ~mem.paused /\ ~mem.cancel /\ ~mem.cancelled
      /\ control.pc = "idle" /\ Running
  BY DEF MoveInv, TypeOK, Quiet
<1>1. CASE \/ RunStart \/ Arrive \/ Lift \/ Stage \/ Copy \/ Copying \/ Publish
           \/ RemoveSource \/ Settings \/ SidePublish \/ Tidy
           \/ Retarget \/ Acknowledge \/ Serve
  <2>1. UNCHANGED <<grade, control>>
    BY <1>1 DEF RunStart, Arrive, Lift, Stage, Copy, Copying, Publish,
                RemoveSource, Settings, SidePublish, Tidy, Retarget,
                Acknowledge, Serve, RunRest
  <2>2. Fail \/ UNCHANGED <<mem, disk>>
    BY <1>0, <1>1 DEF RunStart, Arrive, Lift, Stage, Copy, Copying, Publish,
                RemoveSource, Settings, SidePublish, Tidy, Retarget,
                Acknowledge, Serve, Continue, Operate
  <2> QED BY <1>0, <2>1, <2>2, QuietFail, QuietFrame
<1>2. CASE Lifted \/ Published
  <2> DEFINE record == [mem EXCEPT !.phase = TRUE]
  <2>1. Save(record) /\ UNCHANGED <<grade, control>>
    BY <1>2 DEF Lifted, Published, Checkpoint, RunRest
  <2>2. record \in Record /\ ~record.paused /\ ~record.cancel /\ ~record.cancelled
    BY <1>0 DEF Record
  <2> HIDE DEF record
  <2> QED BY <2>1, <2>2, QuietSave
<1>3. CASE Staged
  <2> DEFINE record == [mem EXCEPT !.temp = TRUE]
  <2>1. Save(record) /\ UNCHANGED <<grade, control>>
    BY <1>3 DEF Staged, Checkpoint, RunRest
  <2>2. record \in Record /\ ~record.paused /\ ~record.cancel /\ ~record.cancelled
    BY <1>0 DEF Record
  <2> HIDE DEF record
  <2> QED BY <2>1, <2>2, QuietSave
<1>4. CASE Verify
  <2> DEFINE record == [mem EXCEPT !.publish = fs["stage"], !.phase = TRUE]
  <2>1. Fail \/ Save(record)
    BY <1>4 DEF Verify, Checkpoint
  <2>2. UNCHANGED <<grade, control>>
    BY <1>4 DEF Verify, RunRest
  <2>3. fs["stage"] \in Stamp("copy")
    BY <1>0, <1>4 DEF Verify, Running, Stamp, Files, TypeOK, Place
  <2>4. record \in Record /\ ~record.paused /\ ~record.cancel /\ ~record.cancelled
    BY <1>0, <2>3 DEF Record
  <2> HIDE DEF record
  <2> QED BY <1>0, <2>1, <2>2, <2>4, QuietSave, QuietFail
<1>5. CASE SideStamp
  <2> DEFINE record == [mem EXCEPT !.sideStamp = fs["sideTemp"]]
  <2>1. Save(record) /\ UNCHANGED <<grade, control>>
    BY <1>5 DEF SideStamp, Checkpoint, RunRest
  <2>2. fs["sideTemp"] \in Stamp("moved")
    BY <1>0 DEF MoveInv, Placement, Stamp, Files, TypeOK, Place
  <2>3. record \in Record /\ ~record.paused /\ ~record.cancel /\ ~record.cancelled
    BY <1>0, <2>2 DEF Record
  <2> HIDE DEF record
  <2> QED BY <2>1, <2>3, QuietSave
<1>6. CASE SidePublished
  <2> DEFINE record == [mem EXCEPT !.sidePublished = TRUE, !.phase = TRUE]
  <2>1. Save(record) /\ UNCHANGED <<grade, control>>
    BY <1>6 DEF SidePublished, Checkpoint, RunRest
  <2>2. record \in Record /\ ~record.paused /\ ~record.cancel /\ ~record.cancelled
    BY <1>0 DEF Record
  <2> HIDE DEF record
  <2> QED BY <2>1, <2>2, QuietSave
<1>7. CASE Finish
  <2> DEFINE record == [mem EXCEPT !.phase = TRUE, !.done = TRUE, !.failed = FALSE]
  <2>1. Save(record) /\ UNCHANGED <<grade, control>>
    BY <1>7 DEF Finish, Checkpoint, RunRest
  <2>2. record \in Record /\ ~record.paused /\ ~record.cancel /\ ~record.cancelled
    BY <1>0 DEF Record
  <2> HIDE DEF record
  <2> QED BY <2>1, <2>2, QuietSave
<1>8. CASE Clear
  <2>1. Save(NoRecord) /\ UNCHANGED <<grade, control>>
    BY <1>0, <1>8 DEF Clear, Save
  <2>2. /\ NoRecord \in Record
        /\ ~NoRecord.paused /\ ~NoRecord.cancel /\ ~NoRecord.cancelled
    BY ConstantTypes DEF NoRecord
  <2> QED BY <2>1, <2>2, QuietSave
<1> QED BY <1>1, <1>2, <1>3, <1>4, <1>5, <1>6, <1>7, <1>8 DEF RunnerStep

LEMMA NextQuiet ==
    ASSUME Undisturbed, MoveInv, Quiet, [Next]_vars
    PROVE  Quiet'
<1>0. TypeOK /\ mem \in Record /\ disk \in Record
  BY DEF MoveInv, TypeOK
<1>1. CASE UNCHANGED vars
  BY <1>1, QuietFrame DEF vars
<1>2. CASE Execute
  <2>1. UNCHANGED <<grade, control>>
        /\ (UNCHANGED <<mem, disk>> \/ Save([NoRecord EXCEPT !.there = TRUE]))
    BY <1>2 DEF Execute
  <2> DEFINE record == [NoRecord EXCEPT !.there = TRUE]
  <2>2. /\ record \in Record
        /\ ~record.paused /\ ~record.cancel /\ ~record.cancelled
    BY ConstantTypes DEF NoRecord
  <2>3. UNCHANGED <<mem, disk>> \/ Save(record)
    BY <2>1
  <2> HIDE DEF record
  <2> QED BY <2>1, <2>2, <2>3, QuietSave, QuietFrame
<1>3. CASE Fault
  BY <1>0, <1>3, QuietFail DEF Fault
<1>4. CASE Crash
  <2>1. /\ mem' = [disk EXCEPT !.failed = FALSE] /\ UNCHANGED disk
        /\ grade' = "closed" /\ control' = [pc |-> "idle", copy |-> NoRecord]
    BY <1>4 DEF Crash
  <2>2. ~disk.paused /\ ~disk.cancel /\ ~disk.cancelled
    BY <1>0 DEF Quiet, Record
  <2> QED BY <1>0, <2>1, <2>2 DEF Quiet, Record
<1>5. CASE \/ Plan
           \/ \E p \in {"old", "new"}, value \in Setting : Mark(p, value)
           \/ \E p \in {"old", "new"} : WriteSettings(p) \/ EditPhoto(p)
           \/ \E p \in {"old", "new", "side", "sideNew"} : FileArrives(p)
  <2>1. UNCHANGED <<grade, control, mem, disk>>
    BY <1>5 DEF Plan, Mark, WriteSettings, EditPhoto, FileArrives
  <2> QED BY <2>1, QuietFrame
<1> QED BY <1>0, <1>1, <1>2, <1>3, <1>4, <1>5, RunnerQuiet, Disabled
        DEF Next, User, Environment

-----------------------------------------------------------------------------
(* Stages and Standing: how far the command is, and where the photo is.     *)

\* What a step of the runner leaves of the record and the rest.
LEMMA RunnerRecord ==
    ASSUME MoveInv, Quiet, RunnerStep
    PROVE  /\ UNCHANGED <<cross, job>>
           /\ runner # "clear" => mem'.there = mem.there /\ UNCHANGED history
           /\ runner \notin {"clear", "finish"} => mem'.done = mem.done
           /\ runner \notin {"clear", "sideStamp"} =>
                 mem'.sideStamp = mem.sideStamp
<1>0. mem \in Record /\ ~mem.cancel
  BY DEF MoveInv, TypeOK, Quiet
<1>rest. UNCHANGED <<cross, job>> /\ (runner # "clear" => UNCHANGED history)
  BY DEF RunnerStep, RunStart, Arrive, Lift, Lifted, Stage, Staged, Copy,
         Copying, Verify, Publish, Published, RemoveSource, Settings, SideStamp,
         SidePublish, SidePublished, Tidy, Retarget, Acknowledge, Finish, Clear,
         Serve, RunRest
<1>fail. Fail => /\ mem'.there = mem.there /\ mem'.done = mem.done
                 /\ mem'.sideStamp = mem.sideStamp
  BY <1>0 DEF Fail, Save, Record
<1>1. CASE \/ RunStart \/ Arrive \/ Lift \/ Stage \/ Copy \/ Copying \/ Publish
           \/ RemoveSource \/ Settings \/ SidePublish \/ Tidy
           \/ Retarget \/ Acknowledge \/ Serve
  <2>1. Fail \/ UNCHANGED mem
    BY <1>0, <1>1 DEF RunStart, Arrive, Lift, Stage, Copy, Copying, Publish,
                RemoveSource, Settings, SidePublish, Tidy, Retarget,
                Acknowledge, Serve, Continue, Operate
  <2> QED BY <1>rest, <1>fail, <2>1
<1>2. CASE Lifted \/ Published \/ Staged \/ SidePublished
  <2>1. /\ mem'.there = mem.there /\ mem'.done = mem.done
        /\ mem'.sideStamp = mem.sideStamp
    BY <1>0, <1>2 DEF Lifted, Published, Staged, SidePublished, Checkpoint, Save,
                      Record
  <2> QED BY <1>rest, <2>1
<1>3. CASE Verify
  <2>1. \/ Fail
        \/ mem' = [mem EXCEPT !.publish = fs["stage"], !.phase = TRUE]
    BY <1>3 DEF Verify, Checkpoint, Save
  <2>2. /\ mem'.there = mem.there /\ mem'.done = mem.done
        /\ mem'.sideStamp = mem.sideStamp
    BY <1>0, <1>fail, <2>1 DEF Record
  <2> QED BY <1>rest, <2>2
<1>4. CASE SideStamp
  <2>1. /\ mem'.there = mem.there /\ mem'.done = mem.done
        /\ runner = "sideStamp"
    BY <1>0, <1>4 DEF SideStamp, Checkpoint, Save, Record
  <2> QED BY <1>rest, <2>1
<1>5. CASE Finish
  <2>1. /\ mem'.there = mem.there /\ mem'.sideStamp = mem.sideStamp
        /\ runner = "finish"
    BY <1>0, <1>5 DEF Finish, Checkpoint, Save, Record
  <2> QED BY <1>rest, <2>1
<1>6. CASE Clear
  <2>1. runner = "clear"
    BY <1>6 DEF Clear
  <2> QED BY <1>rest, <2>1
<1> QED BY <1>1, <1>2, <1>3, <1>4, <1>5, <1>6 DEF RunnerStep

\* The last step of a command; every other one leaves it undone.
LEMMA FinishDone ==
    ASSUME TypeOK, Finish
    PROVE  runner = "finish" /\ runner' = "clear" /\ mem'.done
  BY DEF TypeOK, Finish, Checkpoint, Save, Run, Record

LEMMA ClearEnds ==
    ASSUME MoveInv, Quiet, Clear
    PROVE  /\ mem' = NoRecord /\ UNCHANGED <<fs, rows, job, cross>>
           /\ ~job.previewed
           /\ runner = "clear" /\ runner' = "idle" /\ mem.there
           /\ history'.asked = history.asked
           /\ history'.completions = history.completions + 1
  BY DEF Clear, Run, Quiet, MoveInv, TypeOK, Running, Recorded

LEMMA EmptyRecord ==
    /\ ~NoRecord.there /\ ~NoRecord.done
    /\ LET record == [NoRecord EXCEPT !.there = TRUE]
       IN record.there /\ ~record.done /\ record.sideStamp = Nothing
  BY DEF NoRecord

LEMMA RunnerStages ==
    ASSUME MoveInv, Quiet, Stages, RunnerStep
    PROVE  Stages'
<1>0. TypeOK /\ Running /\ Recorded
  BY DEF MoveInv
<1>1. CASE Clear
  <2>1. /\ mem' = NoRecord /\ runner' = "idle" /\ ~job.previewed /\ job' = job
    BY <1>1, ClearEnds
  <2> QED BY <2>1, EmptyRecord DEF Stages
<1>2. CASE Finish
  <2>1. runner = "finish" /\ runner' = "clear" /\ mem'.done
    BY <1>0, <1>2, FinishDone
  <2>2. mem.there /\ mem'.there
    BY <1>0, <2>1, RunnerRecord DEF Running
  <2>3. UNCHANGED <<job, history>>
    BY <2>1, RunnerRecord
  <2> QED BY <2>1, <2>2, <2>3 DEF Stages
<1>3. CASE ~Clear /\ ~Finish
  <2>1. runner \notin {"clear", "finish"}
    BY <1>3 DEF RunnerStep, RunStart, Arrive, Lift, Lifted, Stage, Staged, Copy,
         Copying, Verify, Publish, Published, RemoveSource, Settings, SideStamp,
         SidePublish, SidePublished, Tidy, Retarget, Acknowledge, Serve
  <2>2. /\ mem'.there = mem.there /\ mem'.done = mem.done
        /\ UNCHANGED <<job, history>>
    BY <2>1, RunnerRecord
  <2>3. runner' # "idle" => (runner' = "clear" <=> mem.done)
    <3>1. CASE RunStart
      BY <1>0, <3>1 DEF RunStart, Quiet, Fail, Continue, Run
    <3>2. CASE Serve
      BY <3>2 DEF Serve
    <3>3. CASE ~RunStart /\ ~Serve
      <4>1. runner # "idle" /\ runner' # "clear"
        BY <1>3, <3>3
        DEF RunnerStep, Arrive, Lift, Lifted, Stage, Staged, Copy, Copying,
            Verify, Publish, Published, RemoveSource, Settings, SideStamp,
            SidePublish, SidePublished, Tidy, Retarget, Acknowledge, Fail,
            Continue, Operate, Checkpoint, Run
      <4> QED BY <2>1, <4>1 DEF Stages
    <3> QED BY <3>1, <3>2, <3>3
  <2> QED BY <2>2, <2>3 DEF Stages
<1> QED BY <1>1, <1>2, <1>3

\* What the steps of the others leave of the record and the rest.
Others ==
    \/ Plan \/ Execute \/ Fault \/ Crash
    \/ \E p \in {"old", "new"}, value \in Setting : Mark(p, value)
    \/ \E p \in {"old", "new"} : WriteSettings(p) \/ EditPhoto(p)
    \/ \E p \in {"old", "new", "side", "sideNew"} : FileArrives(p)

LEMMA OthersRecord ==
    ASSUME MoveInv, Quiet, Others
    PROVE  /\ runner' \in {"idle", runner} /\ UNCHANGED cross
           /\ history'.completions = history.completions
           /\ ~Execute => /\ mem'.there = mem.there /\ mem'.done = mem.done
                          /\ mem'.sideStamp = mem.sideStamp
           /\ ~Plan => /\ job'.row = job.row /\ job'.payload = job.payload
                       /\ job'.side = job.side /\ job'.stamp = job.stamp
                       /\ job'.previewed => job.previewed
<1>0. /\ mem \in Record /\ disk \in Record /\ job \in Job
      /\ history \in [content : Nat, asked : Setting, completions : Nat]
      /\ mem = [disk EXCEPT !.failed = mem.failed]
  BY DEF MoveInv, TypeOK, Quiet
<1>1. CASE Plan
  BY <1>1 DEF Plan
<1>2. CASE Execute
  BY <1>0, <1>2 DEF Execute, Job
<1>3. CASE Fault
  BY <1>0, <1>3 DEF Fault, Fail, Save, Run, Record
<1>4. CASE Crash
  <2>1. mem' = [disk EXCEPT !.failed = FALSE] /\ runner' = "idle"
        /\ job' = [job EXCEPT !.previewed = FALSE] /\ UNCHANGED <<cross, history>>
    BY <1>4 DEF Crash
  <2>2. mem'.there = mem.there /\ mem'.done = mem.done
        /\ mem'.sideStamp = mem.sideStamp
    <3>1. /\ mem'.there = disk.there /\ mem'.done = disk.done
          /\ mem'.sideStamp = disk.sideStamp
      BY <1>0, <2>1 DEF Record
    <3>2. /\ mem.there = disk.there /\ mem.done = disk.done
          /\ mem.sideStamp = disk.sideStamp
      BY <1>0 DEF Record
    <3> QED BY <3>1, <3>2
  <2> QED BY <1>0, <2>1, <2>2 DEF Job
<1>5. CASE \/ \E p \in {"old", "new"}, value \in Setting : Mark(p, value)
           \/ \E p \in {"old", "new"} : WriteSettings(p) \/ EditPhoto(p)
           \/ \E p \in {"old", "new", "side", "sideNew"} : FileArrives(p)
  <2>1. UNCHANGED <<runner, cross, mem, job>>
    BY <1>5 DEF Mark, WriteSettings, EditPhoto, FileArrives
  <2>2. history'.completions = history.completions
    BY <1>0, <1>5 DEF Mark, WriteSettings, EditPhoto, FileArrives
  <2> QED BY <2>1, <2>2
<1> QED BY <1>1, <1>2, <1>3, <1>4, <1>5 DEF Others

\* A command begins, or its preview is discarded.
LEMMA ExecuteBegins ==
    ASSUME MoveInv, Quiet, Execute
    PROVE  /\ runner = "idle" /\ runner' = "idle" /\ job.previewed
           /\ ~job'.previewed /\ ~mem.there /\ UNCHANGED <<fs, rows, history>>
           /\ \/ UNCHANGED mem
              \/ /\ mem'.there /\ ~mem'.done /\ mem'.sideStamp = Nothing
                 /\ fs["old"] = job.stamp /\ fs["side"] = job.side
                 /\ rows["old"] = job.row
<1>1. job \in Job /\ (job.previewed => ~mem.there)
  BY DEF MoveInv, TypeOK, Recorded
<1>2. /\ runner = "idle" /\ runner' = "idle" /\ job.previewed
      /\ ~job'.previewed /\ UNCHANGED <<fs, rows, history>>
  BY <1>1 DEF Execute, Job
<1>3. \/ UNCHANGED mem
      \/ /\ mem' = [NoRecord EXCEPT !.there = TRUE]
         /\ fs["old"] = job.stamp /\ fs["side"] = job.side
         /\ rows["old"] = job.row
  BY DEF Execute, Save
<1> QED BY <1>1, <1>2, <1>3, EmptyRecord

LEMMA OthersStages ==
    ASSUME MoveInv, Quiet, Stages, Others
    PROVE  Stages'
<1>1. CASE Execute
  BY <1>1, ExecuteBegins, OthersRecord DEF Stages
<1>2. CASE Plan
  <2>1. /\ ~mem.there /\ history.completions = 0
        /\ UNCHANGED <<mem, history, runner>> /\ runner = "idle"
    BY <1>2 DEF Plan
  <2> QED BY <2>1 DEF Stages
<1>3. CASE ~Execute /\ ~Plan
  BY <1>3, OthersRecord DEF Stages
<1> QED BY <1>1, <1>2, <1>3

LEMMA NextCases ==
    ASSUME Undisturbed, MoveInv, Quiet, [Next]_vars
    PROVE  RunnerStep \/ Others \/ UNCHANGED vars
<1>1. TypeOK
  BY DEF MoveInv
<1> QED BY <1>1, Disabled DEF Next, User, Environment, Others

-----------------------------------------------------------------------------
(* Standing: where the photo's file is.                                     *)

\* The same places hold the photo as before.
SamePhoto ==
    \A p \in {"old", "stage", "new"} :
        /\ fs'[p].id \in PhotoId <=> fs[p].id \in PhotoId
        /\ fs'[p].id = "orig" <=> fs[p].id = "orig"

LEMMA StandingFrame ==
    ASSUME Standing, SamePhoto,
           Waiting' => Waiting, Moved' => Moved,
           runner' \in Late => runner \in Late \/ Moved,
           runner' \in {"published", "remove"} =>
              runner \in {"published", "remove"} \/ Moved
    PROVE  Standing'
  BY DEF Standing, SamePhoto

LEMMA RunnerStanding ==
    ASSUME MoveInv, Quiet, Stages, Standing, RunnerStep
    PROVE  Standing'
<1>0. /\ Running /\ Recorded /\ Placement /\ mem.cancel = FALSE
      /\ fs \in [Place -> Files] /\ {"old", "new", "stage"} \subseteq Place
      /\ Nothing.id \notin PhotoId
      /\ Fail => UNCHANGED fs /\ runner' = "idle"
  BY DEF MoveInv, TypeOK, Place, Nothing, PhotoId, Quiet, Fail, Run
<1>1. CASE Clear
  <2>1. Moved /\ ~Waiting'
    <3>1. mem.there /\ runner = "clear" /\ mem.done
      BY <1>1, ClearEnds DEF Stages
    <3>2. history'.completions # 0
      BY <1>1, ClearEnds DEF MoveInv, TypeOK
    <3> QED BY <3>1, <3>2 DEF Moved, Waiting
  <2> QED BY <1>1, <2>1, ClearEnds, StandingFrame DEF SamePhoto, Late
<1>2. CASE Finish
  <2>1. runner = "finish" /\ UNCHANGED fs /\ mem'.there = mem.there
        /\ UNCHANGED history
    BY <1>2, RunnerRecord, FinishDone, <1>0 DEF Finish, Checkpoint, MoveInv
  <2>2. mem.there
    BY <2>1, <1>0 DEF Running
  <2> QED BY <2>1, <2>2 DEF Standing, Waiting, Late
<1>3. CASE ~Clear /\ ~Finish
  <2>1. runner \notin {"clear", "finish"}
    BY <1>3 DEF RunnerStep, RunStart, Arrive, Lift, Lifted, Stage, Staged, Copy,
         Copying, Verify, Publish, Published, RemoveSource, Settings, SideStamp,
         SidePublish, SidePublished, Tidy, Retarget, Acknowledge, Serve
  <2>2. (Waiting' <=> Waiting) /\ (Moved' <=> Moved)
    BY <2>1, RunnerRecord DEF Waiting, Moved
  <2>3. CASE Lift /\ fs' # fs
    <3>1. /\ fs' = [fs EXCEPT !["stage"] = fs["old"], !["old"] = Nothing]
          /\ runner' = "lifted" /\ runner = "lift" /\ fs["stage"] = Nothing
      BY <1>0, <2>3 DEF Lift, Continue, Operate, Run
    <3>2. mem.there
      BY <1>0, <3>1 DEF Running
    <3>3. /\ fs'["stage"] = fs["old"] /\ fs'["old"] = Nothing
          /\ fs'["new"] = fs["new"] /\ Nothing.id = "none"
      BY <1>0, <3>1 DEF Nothing
    <3> QED BY <1>0, <2>2, <3>1, <3>2, <3>3 DEF Standing, Waiting, Late
  <2>4. CASE Publish /\ fs' # fs
    <3>1. /\ fs' = [fs EXCEPT !["new"] = fs["stage"], !["stage"] = Nothing]
          /\ runner' = "published" /\ runner = "publish" /\ fs["stage"] # Nothing
      BY <1>0, <2>4 DEF Publish, Operate, Run
    <3>2. mem.there
      BY <1>0, <3>1 DEF Running
    <3>3. /\ fs'["new"] = fs["stage"] /\ fs'["stage"] = Nothing
          /\ fs'["old"] = fs["old"] /\ Nothing.id = "none"
      BY <1>0, <3>1 DEF Nothing
    <3>4. fs["stage"].id \in PhotoId
      BY <1>0, <3>1 DEF Placement, Moving, PhotoId, Place
    <3> QED BY <1>0, <2>2, <3>1, <3>2, <3>3, <3>4 DEF Standing, Waiting, Late
  <2>5. CASE RemoveSource
    <3>1. runner = "remove" /\ runner' \in {"idle", "settings"} /\ mem.there
      BY <1>0, <2>5 DEF RemoveSource, Continue, Operate, Run, Running
    <3>2. fs["new"].id \in PhotoId
      BY <3>1 DEF Standing
    <3>3. /\ fs'["stage"] = fs["stage"] /\ fs'["new"] = fs["new"]
          /\ fs'["old"] \in {fs["old"], Nothing}
      BY <1>0, <2>5 DEF RemoveSource, Continue, Operate
    <3>4. runner' = "settings" => fs'["old"].id \notin PhotoId
      <4>1. CASE cross
        BY <1>0, <2>5, <4>1 DEF RemoveSource, Continue, Operate
      <4>2. CASE ~cross
        <5>1. fs["new"].id = "orig" /\ fs["old"].id \in {"none", "orig", "other"}
          BY <1>0, <3>2, <4>2 DEF Placement, Moving, PhotoId
        <5>2. fs["old"].id # "orig"
          BY <5>1 DEF Standing
        <5> QED BY <1>0, <3>3, <5>1, <5>2 DEF PhotoId
      <4> QED BY <4>1, <4>2
    <3>5. ~Waiting
      BY <3>1 DEF Waiting
    <3>6. Nothing.id # "orig"
      BY DEF Nothing
    <3> QED BY <1>0, <2>2, <3>1, <3>2, <3>3, <3>4, <3>5, <3>6
            DEF Standing, Late
  <2>6. CASE Stage \/ Copy \/ Copying
    <3>1. /\ fs'["old"] = fs["old"] /\ fs'["new"] = fs["new"]
          /\ runner' \in {"idle", "staged", "copy", "publish", "copying", "verify"}
      BY <1>0, <2>6 DEF Stage, Copy, Copying, Continue, Operate, Run
    <3>2. UNCHANGED fs \/ (cross /\ fs'["stage"].id = "copy")
      BY <1>0, <2>6 DEF Stage, Copy, Copying, Continue, Operate, Running, Files
    <3>3. cross => fs["stage"].id # "orig"
      BY <1>0 DEF Placement, Moving
    <3> QED BY <2>2, <3>1, <3>2, <3>3 DEF Standing, Late
  <2>7. CASE Arrive
    <3>1. UNCHANGED fs /\ runner = "arrive" /\ mem.there
      BY <1>0, <2>7 DEF Arrive, Continue, Running
    <3>2. \/ runner' \in {"idle", "publish", "stage", "lift"}
          \/ runner' = "remove" /\ fs["new"] = Expected
      BY <1>0, <2>7 DEF Arrive, Continue, Run
    <3>3. Expected.id \in PhotoId
      BY <1>0, <3>1 DEF Expected, Recorded, Verified, PhotoId
    <3> QED BY <2>2, <3>1, <3>2, <3>3 DEF Standing, Late
  <2>8. CASE \/ RunStart \/ Lifted \/ Staged \/ Verify
             \/ Serve \/ ((Lift \/ Publish) /\ fs' = fs)
    <3>1. UNCHANGED fs
      BY <1>0, <2>8 DEF RunStart, Lifted, Staged, Verify, Serve,
                        Continue, Checkpoint
    <3>2. runner' \in {"idle", "clear", "arrive", "lift", "lifted", "publish",
                       "published", "copy"}
      BY <1>0, <2>8 DEF RunStart, Lifted, Staged, Verify, Serve, Lift,
                        Publish, Continue, Checkpoint, Operate, Run
    <3>3. runner' = "clear" => mem.done
      BY <1>0, <2>8 DEF RunStart, Lifted, Staged, Verify, Serve, Lift,
                        Publish, Continue, Checkpoint, Operate, Run
    <3>4. runner' = "published" => FALSE
      BY <1>0, <2>8 DEF RunStart, Lifted, Staged, Verify, Serve, Lift,
                        Publish, Continue, Checkpoint, Operate, Run, Nothing
    <3> QED BY <2>2, <3>1, <3>2, <3>3, <3>4, StandingFrame
            DEF SamePhoto, Late, Moved
  <2>9. CASE \/ Published \/ Settings \/ SideStamp \/ SidePublish
             \/ SidePublished \/ Tidy \/ Retarget \/ Acknowledge
    <3>1. /\ fs'["old"] = fs["old"] /\ fs'["new"] = fs["new"]
          /\ fs'["stage"] = fs["stage"]
      BY <1>0, <2>9 DEF Published, Settings, SideStamp, SidePublish,
                        SidePublished, Tidy, Retarget, Acknowledge, Continue,
                        Checkpoint, Operate
    <3>2. /\ runner' \in Late => runner \in Late
          /\ runner' = "remove" => runner = "published"
          /\ runner' # "published"
      BY <1>0, <2>9 DEF Published, Settings, SideStamp, SidePublish,
                        SidePublished, Tidy, Retarget, Acknowledge, Continue,
                        Checkpoint, Operate, Run, Late
    <3> QED BY <2>2, <3>1, <3>2, StandingFrame DEF SamePhoto
  <2> QED BY <1>3, <2>3, <2>4, <2>5, <2>6, <2>7, <2>8, <2>9 DEF RunnerStep
<1> QED BY <1>1, <1>2, <1>3

LEMMA OthersStanding ==
    ASSUME MoveInv, Quiet, Stages, Standing, Others
    PROVE  Standing'
<1>0. /\ fs \in [Place -> Files] /\ {"old", "new", "stage"} \subseteq Place
      /\ Foreign.id = "other" /\ Nothing.id = "none"
  BY DEF MoveInv, TypeOK, Place, Nothing, Foreign
<1>1. (Waiting' => Waiting) /\ (Moved' => Moved)
  BY ExecuteBegins, OthersRecord DEF Waiting, Moved
<1>2. SamePhoto
  <2>1. CASE \/ Plan \/ Execute \/ Fault \/ Crash
             \/ \E p \in {"old", "new"}, value \in Setting : Mark(p, value)
    <3>1. UNCHANGED fs
      BY <2>1 DEF Plan, Execute, Fault, Fail, Crash, Mark
    <3> QED BY <3>1 DEF SamePhoto
  <2>2. ASSUME NEW p \in {"old", "new"}, WriteSettings(p)
        PROVE  SamePhoto
    <3>1. \/ UNCHANGED fs
          \/ fs' = [fs EXCEPT ![IF p = "old" THEN "side" ELSE "sideNew"] =
                         [id |-> "side", data |-> rows[p].value]]
      BY <2>2, Zenon DEF WriteSettings
    <3>2. /\ fs'["old"] = fs["old"] /\ fs'["new"] = fs["new"]
          /\ fs'["stage"] = fs["stage"]
      BY <1>0, <3>1
    <3> QED BY <3>2 DEF SamePhoto
  <2>3. ASSUME NEW p \in {"old", "new"}, EditPhoto(p)
        PROVE  SamePhoto
    <3>1. \A q \in {"old", "new", "stage"} : fs'[q].id = fs[q].id
      BY <1>0, <2>3 DEF EditPhoto, Files
    <3> QED BY <3>1 DEF SamePhoto
  <2>4. ASSUME NEW p \in {"old", "new", "side", "sideNew"}, FileArrives(p)
        PROVE  SamePhoto
    <3>1. fs[p] = Nothing /\ fs' = [fs EXCEPT ![p] = Foreign]
      BY <2>4 DEF FileArrives
    <3> QED BY <1>0, <3>1 DEF SamePhoto, PhotoId
  <2> QED BY <2>1, <2>2, <2>3, <2>4 DEF Others
<1>3. runner' \in {"idle", runner}
  BY OthersRecord
<1> QED BY <1>1, <1>2, <1>3, StandingFrame DEF Late

-----------------------------------------------------------------------------
(* Carried, Progress and Unread: the settings on their way.                 *)

\* When no command holds the photo, it waits for one or has been moved.
LEMMA AtRest ==
    ASSUME MoveInv, Stages, Standing, ~Blocked
    PROVE  \/ /\ Waiting /\ ~Moved /\ PlaceNow = "old"
              /\ fs["old"].id \in PhotoId /\ fs["new"].id \notin PhotoId
           \/ /\ Moved /\ ~Waiting /\ PlaceNow = "new"
              /\ fs["new"].id \in PhotoId /\ fs["old"].id \notin PhotoId
<1>1. history.completions \in Nat
  BY DEF MoveInv, TypeOK
<1> QED BY <1>1 DEF Blocked, Stages, Standing, Waiting, Moved, PlaceNow

\* The runner works only on a command that is under way, but for the steps
\* that start it and the one that takes the record of a finished one away.
LEMMA AtWork ==
    ASSUME MoveInv, Stages, runner \notin {"idle", "clear"}
    PROVE  Blocked /\ mem.there /\ ~mem.done /\ ~Moved /\ ~Waiting
  BY DEF MoveInv, Running, Stages, Blocked, Moved, Waiting, TypeOK

\* The steps from idle: a start and the end of the start-up run.
LEMMA IdleSteps ==
    ASSUME MoveInv, Quiet, Stages, RunStart \/ Serve
    PROVE  /\ runner = "idle" /\ UNCHANGED <<fs, rows, job, history>>
           /\ runner' \in {"idle", "clear", "arrive"}
           /\ mem'.there = mem.there /\ mem'.done = mem.done
           /\ mem'.sideStamp = mem.sideStamp
<1>1. runner = "idle" /\ UNCHANGED <<fs, rows>>
      /\ runner' \in {"idle", "clear", "arrive"}
  BY DEF RunStart, Serve, Quiet, Fail, Continue, Run
<1>2. RunnerStep
  BY DEF RunnerStep
<1> QED BY <1>1, <1>2, RunnerRecord

\* Acknowledging a row that is not there changes nothing.
LEMMA AcknowledgedNoRow ==
    [NoRow EXCEPT !.pending = FALSE] = NoRow
<1>1. NoRow \in Row /\ NoRow.pending = FALSE
  BY ConstantTypes DEF NoRow
<1>2. \A row \in Row :
         row.pending = FALSE => [row EXCEPT !.pending = FALSE] = row
  BY DEF Row
<1> QED BY <1>1, <1>2

LEMMA CarriedFrame ==
    ASSUME Carried, UNCHANGED <<rows, fs["sideTemp"], fs["sideNew"]>>,
           Waiting' => Waiting, Blocked' => Blocked,
           mem'.sideStamp = mem.sideStamp,
           job'.previewed => job.previewed,
           job'.row = job.row, job'.payload = job.payload, job'.side = job.side
    PROVE  Carried'
  BY DEF Carried

\* The steps of a command that are about its settings.
LEMMA SettingsCarried ==
    ASSUME MoveInv, Quiet, Stages, Carried, Progress,
           \/ Settings \/ SideStamp \/ SidePublish \/ SidePublished \/ Tidy
           \/ Retarget \/ Acknowledge
    PROVE  Carried' /\ Progress'
<1>0. /\ fs \in [Place -> Files] /\ rows \in [{"old", "new"} -> Row]
      /\ mem \in Record /\ ~job.previewed /\ RunnerStep
      /\ {"sideTemp", "sideNew", "side"} \subseteq Place
      /\ runner \in {"settings", "sideStamp", "sidePublish", "sidePublished",
                     "tidy", "index", "acknowledge"}
      /\ Fail => UNCHANGED <<fs, rows>> /\ runner' = "idle"
  <2>1. mem.there
    BY DEF MoveInv, Running, Settings, SideStamp, SidePublish, SidePublished,
           Tidy, Retarget, Acknowledge
  <2> QED BY <2>1
      DEF MoveInv, TypeOK, Place, Recorded, RunnerStep, Fail, Run, Settings,
          SideStamp, SidePublish, SidePublished, Tidy, Retarget, Acknowledge
<1>1. /\ Blocked /\ ~Waiting' /\ UNCHANGED job
      /\ mem.there /\ mem'.there /\ ~mem.done /\ ~mem'.done
  BY <1>0, AtWork, RunnerRecord DEF Waiting
<1>2. runner # "sideStamp" => mem'.sideStamp = mem.sideStamp
  BY <1>0, RunnerRecord
<1>3. /\ fs["sideTemp"] \in {Nothing, job.payload}
      /\ fs["sideNew"] \in {Nothing, Foreign, job.payload}
      /\ mem.sideStamp \in {Nothing, job.payload}
      /\ ~job.row.there => rows["new"] = NoRow
  BY <1>1 DEF Carried
<1>4. /\ fs'["sideTemp"] \in {Nothing, job.payload}
      /\ fs'["sideNew"] \in {Nothing, Foreign, job.payload}
      /\ mem'.sideStamp \in {Nothing, job.payload}
      /\ ~job.row.there => rows'["new"] = NoRow
  <2>1. CASE Settings \/ SidePublished \/ Tidy
    <3>1. fs'["sideTemp"] \in {fs["sideTemp"], job.payload}
          /\ fs'["sideNew"] = fs["sideNew"] /\ rows' = rows
          /\ runner # "sideStamp"
      BY <1>0, <2>1 DEF Settings, SidePublished, Tidy, Continue, Operate,
                        Checkpoint
    <3> QED BY <1>2, <1>3, <3>1
  <2>2. CASE SideStamp
    <3>1. UNCHANGED <<fs, rows>> /\ mem'.sideStamp = fs["sideTemp"]
      BY <1>0, <2>2 DEF SideStamp, Checkpoint, Save, Record
    <3> QED BY <1>3, <3>1
  <2>3. CASE SidePublish
    <3>1. /\ fs'["sideTemp"] \in {fs["sideTemp"], Nothing}
          /\ fs'["sideNew"] \in {fs["sideNew"], fs["sideTemp"]}
          /\ UNCHANGED rows /\ runner # "sideStamp"
      BY <1>0, <2>3 DEF SidePublish, Operate
    <3> QED BY <1>2, <1>3, <3>1
  <2>4. CASE Retarget \/ Acknowledge
    <3>1. UNCHANGED fs /\ runner # "sideStamp"
      BY <2>4 DEF Retarget, Acknowledge
    <3>2. ~job.row.there => rows'["new"] = NoRow
      <4>1. CASE Retarget
        BY <1>3, <4>1 DEF Retarget
      <4>2. CASE Acknowledge
        <5>1. rows'["new"] = [rows["new"] EXCEPT !.pending = FALSE]
          <6>1. rows \in [{"old", "new"} -> Row]
            BY <1>0
          <6>2. rows' = [rows EXCEPT !["new"].pending = FALSE]
            BY <4>2 DEF Acknowledge
          <6> QED BY <6>1, <6>2
        <5> QED BY <1>3, <5>1, AcknowledgedNoRow
      <4> QED BY <2>4, <4>1, <4>2
    <3> QED BY <1>2, <1>3, <3>1, <3>2
  <2> QED BY <2>1, <2>2, <2>3, <2>4
<1>5. Carried'
  <2>1. /\ job.row.there <=> job.payload # Nothing
        /\ job.row.there \/ job.row = NoRow
    BY <1>1 DEF Carried
  <2> QED BY <1>0, <1>1, <1>4, <2>1 DEF Carried
<1>6. Progress'
  <2>1. CASE Settings
    <3>1. CASE runner' = "sideStamp"
      <4>1. job.payload # Nothing /\ fs'["sideTemp"] = job.payload
        BY <1>0, <1>3, <2>1, <3>1 DEF Settings, Continue, Operate, Run
      <4> QED BY <1>1, <3>1, <4>1 DEF Progress
    <3>2. CASE runner' \in {"sidePublished", "tidy"}
      <4>1. job.payload # Nothing /\ fs'["sideNew"] # Nothing
        BY <1>0, <2>1, <3>2 DEF Settings, Continue, Operate, Run
      <4> QED BY <1>1, <3>2, <4>1 DEF Progress
    <3>3. CASE runner' \in {"index", "idle"}
      <4>1. runner' = "index" => job.payload = Nothing
        BY <1>0, <2>1, <3>3 DEF Settings, Continue, Operate, Run
      <4> QED BY <1>1, <3>3, <4>1 DEF Progress
    <3>4. runner' \in {"sideStamp", "sidePublished", "tidy", "index", "idle"}
      BY <1>0, <2>1 DEF Settings, Continue, Operate, Run
    <3> QED BY <3>1, <3>2, <3>3, <3>4
  <2>2. CASE SideStamp
    BY <1>1, <2>2 DEF SideStamp, Checkpoint, Run, Progress
  <2>3. CASE SidePublish
    <3>1. \/ runner' = "idle"
          \/ runner' = "sidePublished" /\ fs'["sideNew"] = fs["sideTemp"]
      BY <1>0, <2>3 DEF SidePublish, Operate, Run
    <3>2. job.payload # Nothing /\ fs["sideTemp"] = job.payload
      BY <2>3 DEF SidePublish, Progress
    <3> QED BY <1>1, <3>1, <3>2 DEF Progress
  <2>4. CASE SidePublished
    BY <1>1, <2>4 DEF SidePublished, Checkpoint, Run, Progress
  <2>5. CASE Tidy
    <3>1. job.payload # Nothing /\ fs["sideNew"] # Nothing
      BY <2>5 DEF Tidy, Progress
    <3>2. \/ runner' = "idle"
          \/ /\ runner' = "index" /\ fs["sideNew"] = mem.sideStamp
             /\ fs'["sideNew"] = fs["sideNew"]
      BY <1>0, <2>5 DEF Tidy, Continue, Operate, Run
    <3> QED BY <1>1, <1>3, <3>1, <3>2 DEF Progress
  <2>6. CASE Retarget
    BY <1>1, <2>6 DEF Retarget, Run, Progress
  <2>7. CASE Acknowledge
    <3>1. ~rows'["new"].pending /\ UNCHANGED fs /\ runner' = "finish"
          /\ runner = "acknowledge"
      BY <1>0, <2>7 DEF Acknowledge, Run, Row
    <3> QED BY <1>1, <3>1 DEF Progress
  <2> QED BY <2>1, <2>2, <2>3, <2>4, <2>5, <2>6, <2>7
<1> QED BY <1>5, <1>6

LEMMA RunnerCarried ==
    ASSUME MoveInv, Quiet, Stages, Carried, Progress, RunnerStep
    PROVE  Carried' /\ Progress'
<1>0. /\ fs \in [Place -> Files] /\ {"sideTemp", "sideNew"} \subseteq Place
      /\ Fail => UNCHANGED <<fs, rows>> /\ runner' = "idle"
  BY DEF MoveInv, TypeOK, Place, Fail, Run
<1>1. CASE \/ Settings \/ SideStamp \/ SidePublish \/ SidePublished \/ Tidy
           \/ Retarget \/ Acknowledge
  BY <1>1, SettingsCarried
<1>2. CASE RunStart \/ Serve
  <2>1. (Waiting' => Waiting) /\ (Blocked' => Blocked)
    BY <1>2, IdleSteps DEF Waiting, Blocked
  <2> QED BY <1>2, <2>1, IdleSteps, CarriedFrame DEF Progress
<1>3. CASE Clear
  <2>1. /\ ~mem'.there /\ UNCHANGED <<fs, rows, job>> /\ ~job.previewed
        /\ runner' = "idle" /\ history'.completions = history.completions + 1
    BY <1>3, ClearEnds, EmptyRecord
  <2>2. ~Waiting' /\ ~Blocked'
    BY <2>1 DEF Waiting, Blocked, MoveInv, TypeOK
  <2> QED BY <2>1, <2>2 DEF Carried, Progress
<1>4. CASE Finish
  <2>1. runner = "finish" /\ runner' = "clear" /\ mem'.done
    BY <1>4, FinishDone DEF MoveInv
  <2>2. ~Waiting' /\ ~Blocked' /\ UNCHANGED job /\ ~job.previewed
    BY <2>1, AtWork, RunnerRecord DEF Waiting, Blocked, MoveInv, Recorded
  <2> QED BY <2>1, <2>2 DEF Carried, Progress
<1>5. CASE \/ Arrive \/ Lift \/ Lifted \/ Stage \/ Staged \/ Copy \/ Copying
           \/ Verify \/ Publish \/ Published \/ RemoveSource
  <2>1. /\ runner \notin {"idle", "clear", "finish", "sideStamp"}
        /\ UNCHANGED rows
        /\ runner' \notin {"sideStamp", "sidePublish", "sidePublished", "tidy",
                           "index", "acknowledge", "finish"}
    BY <1>0, <1>5
    DEF Arrive, Lift, Lifted, Stage, Staged, Copy, Copying, Verify, Publish,
        Published, RemoveSource, Continue, Checkpoint, Operate, Run
  <2>2. fs'["sideTemp"] = fs["sideTemp"] /\ fs'["sideNew"] = fs["sideNew"]
    BY <1>0, <1>5
    DEF Arrive, Lift, Lifted, Stage, Staged, Copy, Copying, Verify, Publish,
        Published, RemoveSource, Continue, Checkpoint, Operate
  <2>3. /\ mem'.there = mem.there /\ mem'.done = mem.done
        /\ mem'.sideStamp = mem.sideStamp /\ UNCHANGED <<job, history>>
    BY <2>1, RunnerRecord
  <2>4. (Waiting' => Waiting) /\ (Blocked' => Blocked)
    BY <2>3 DEF Waiting, Blocked
  <2> QED BY <2>1, <2>2, <2>3, <2>4, CarriedFrame DEF Progress
<1> QED BY <1>1, <1>2, <1>3, <1>4, <1>5 DEF RunnerStep

\* A preview: what it records of the photo agrees with the row and the file.
LEMMA PlanRecords ==
    ASSUME MoveInv, Quiet, Stages, Standing, Unread, Plan
    PROVE  /\ Waiting /\ PlaceNow = "old" /\ runner = "idle"
           /\ UNCHANGED <<fs, mem, history, runner>>
           /\ rows' = [rows EXCEPT !["old"] = Refreshed("old")]
           /\ Refreshed("old").there \/ Refreshed("old") = NoRow
           /\ job'.row = Refreshed("old") /\ job'.side = fs["side"]
           /\ job'.row.there <=> job'.payload # Nothing
           /\ job'.row.there => job'.payload.data = job'.row.value
           /\ ~job'.row.pending /\ job'.side # Nothing =>
                 job'.row.value = job'.side.data
<1>1. /\ Waiting /\ runner = "idle" /\ UNCHANGED <<fs, mem, history, runner>>
      /\ ~mem.there
  BY DEF Plan, Waiting
<1>2. PlaceNow = "old"
  BY <1>1, AtRest DEF Blocked, Waiting
<1> DEFINE row == Refreshed("old")
<1>3. /\ rows' = [rows EXCEPT !["old"] = row]
      /\ job' = [previewed |-> TRUE, stamp |-> fs["old"], side |-> fs["side"],
                 row |-> row,
                 payload |-> IF row.there THEN [id |-> "moved", data |-> row.value]
                                          ELSE Nothing]
  BY DEF Plan
<1>4. /\ row.there \/ row = NoRow
      /\ ~row.pending /\ fs["side"] # Nothing => row.value = fs["side"].data
  <2>1. fs["side"] # Foreign
    BY DEF Plan, Readable
  <2>2. rows["old"].there \/ rows["old"] = NoRow
    BY DEF Unread
  <2>3. CASE rows["old"].pending
    BY <2>2, <2>3 DEF Refreshed
  <2>4. CASE ~rows["old"].pending
    BY <2>1, <2>4 DEF Refreshed
  <2> QED BY <2>3, <2>4
<1>5. [id |-> "moved", data |-> row.value] # Nothing /\ ~NoRow.there
  BY DEF Nothing, NoRow
<1> HIDE DEF row
<1>6. /\ job'.row = row /\ job'.side = fs["side"]
      /\ job'.payload = IF row.there THEN [id |-> "moved", data |-> row.value]
                                     ELSE Nothing
  BY <1>3
<1>7. /\ row.there => job'.payload = [id |-> "moved", data |-> row.value]
      /\ ~row.there => job'.payload = Nothing
  BY <1>6
<1>8. row.there => job'.payload.data = row.value
  BY <1>7
<1> QED BY <1>1, <1>2, <1>3, <1>4, <1>5, <1>6, <1>7, <1>8 DEF row

LEMMA OthersCarried ==
    ASSUME MoveInv, Quiet, Stages, Standing, Carried, Progress, Unread, Others
    PROVE  Carried' /\ Progress'
<1>0. /\ fs \in [Place -> Files] /\ rows \in [{"old", "new"} -> Row]
      /\ {"side", "sideTemp", "sideNew"} \subseteq Place
      /\ Foreign # Nothing
  BY DEF MoveInv, TypeOK, Place, Foreign, Nothing
<1>1. CASE Plan
  <2>1. /\ Waiting /\ runner = "idle" /\ UNCHANGED <<fs, mem, history, runner>>
        /\ rows' = [rows EXCEPT !["old"] = Refreshed("old")]
    BY <1>1, PlanRecords
  <2>2. /\ job'.row.there <=> job'.payload # Nothing
        /\ job'.row.there \/ job'.row = NoRow
        /\ job'.row.there => job'.payload.data = job'.row.value
        /\ ~job'.row.pending /\ job'.side # Nothing =>
              job'.row.value = job'.side.data
    BY <1>1, PlanRecords
  <2>3. ~Blocked' /\ rows'["new"] = rows["new"]
    BY <1>0, <2>1 DEF Waiting, Blocked
  <2> QED BY <2>1, <2>2, <2>3 DEF Carried, Progress
<1>2. CASE Execute
  <2>1. /\ runner = "idle" /\ runner' = "idle" /\ job.previewed
        /\ ~job'.previewed /\ ~mem.there /\ UNCHANGED <<fs, rows, history>>
        /\ \/ UNCHANGED mem
           \/ mem'.there /\ mem'.sideStamp = Nothing
    BY <1>2, ExecuteBegins
  <2>2. Waiting
    BY <2>1 DEF Stages, Waiting
  <2>3. job'.row = job.row /\ job'.payload = job.payload
    BY <1>2, OthersRecord DEF Execute, Plan
  <2>4. /\ fs["sideTemp"] = Nothing /\ fs["sideNew"] \in {Nothing, Foreign}
        /\ rows["new"] = NoRow
        /\ job.row.there <=> job.payload # Nothing
        /\ job.row.there \/ job.row = NoRow
    BY <2>1, <2>2 DEF Carried
  <2>5. Blocked' => mem'.sideStamp = Nothing
    BY <2>1 DEF Blocked
  <2> QED BY <2>1, <2>3, <2>4, <2>5 DEF Carried, Progress
<1>3. CASE ~Execute /\ ~Plan
  <2>0. /\ runner' \in {"idle", runner}
        /\ mem'.there = mem.there /\ mem'.done = mem.done
        /\ mem'.sideStamp = mem.sideStamp
        /\ job'.row = job.row /\ job'.payload = job.payload
        /\ job'.side = job.side /\ (job'.previewed => job.previewed)
        /\ history'.completions = history.completions
    BY <1>3, OthersRecord
  <2>w. (Waiting' => Waiting) /\ (Blocked' <=> Blocked)
    BY <2>0 DEF Waiting, Blocked
  <2>1. CASE Fault \/ Crash
    <3>1. UNCHANGED <<fs, rows>> /\ runner' = "idle"
      BY <2>1 DEF Fault, Fail, Run, Crash
    <3> QED BY <2>0, <2>w, <3>1, CarriedFrame DEF Progress
  <2>2. ASSUME NEW p \in {"old", "new"}, NEW value \in Setting, Mark(p, value)
        PROVE  Carried' /\ Progress'
    <3>1. /\ ~Blocked /\ fs[p].id \in PhotoId /\ UNCHANGED <<fs, job>>
          /\ \A q \in {"old", "new"} \ {p} : rows'[q] = rows[q]
          /\ UNCHANGED runner
      BY <1>0, <2>2 DEF Mark
    <3>2. Waiting => p = "old"
      BY <3>1, AtRest
    <3>3. runner \in {"idle", "clear"}
      BY <3>1, AtWork
    <3>4. Waiting => rows'["new"] = rows["new"]
      BY <3>1, <3>2
    <3> QED BY <2>0, <2>w, <3>1, <3>3, <3>4 DEF Carried, Progress
  <2>3. ASSUME NEW p \in {"old", "new"}, WriteSettings(p)
        PROVE  Carried' /\ Progress'
    <3>1. /\ ~Blocked /\ runner = "idle" /\ UNCHANGED <<runner, job>>
          /\ rows[p].pending
          /\ \A q \in {"old", "new"} \ {p} : rows'[q] = rows[q]
          /\ \/ UNCHANGED fs
             \/ fs' = [fs EXCEPT ![IF p = "old" THEN "side" ELSE "sideNew"] =
                         [id |-> "side", data |-> rows[p].value]]
      BY <1>0, <2>3, Zenon DEF WriteSettings
    <3>2. ~NoRow.pending
      BY DEF NoRow
    <3>3. Waiting => p = "old"
      BY <3>1, <3>2 DEF Carried
    <3>4. Waiting => /\ fs'["sideTemp"] = fs["sideTemp"]
                     /\ fs'["sideNew"] = fs["sideNew"]
                     /\ rows'["new"] = rows["new"]
      BY <1>0, <3>1, <3>3
    <3> QED BY <2>0, <2>w, <3>1, <3>4 DEF Carried, Progress
  <2>4. ASSUME NEW p \in {"old", "new"}, EditPhoto(p)
        PROVE  Carried' /\ Progress'
    <3>1. /\ fs'["sideTemp"] = fs["sideTemp"] /\ fs'["sideNew"] = fs["sideNew"]
          /\ UNCHANGED <<rows, runner>>
      BY <1>0, <2>4 DEF EditPhoto
    <3> QED BY <2>0, <2>w, <3>1, CarriedFrame DEF Progress
  <2>5. ASSUME NEW p \in {"old", "new", "side", "sideNew"}, FileArrives(p)
        PROVE  Carried' /\ Progress'
    <3>1. /\ fs'["sideTemp"] = fs["sideTemp"]
          /\ \/ fs'["sideNew"] = fs["sideNew"]
             \/ fs["sideNew"] = Nothing /\ fs'["sideNew"] = Foreign
          /\ UNCHANGED <<rows, runner>>
      BY <1>0, <2>5 DEF FileArrives
    <3>2. Carried'
      BY <1>0, <2>0, <2>w, <3>1 DEF Carried
    <3>3. Progress'
      BY <1>0, <2>0, <3>1 DEF Progress
    <3> QED BY <3>2, <3>3
  <2> QED BY <1>3, <2>1, <2>2, <2>3, <2>4, <2>5 DEF Others
<1> QED BY <1>1, <1>2, <1>3

LEMMA UnreadFrame ==
    ASSUME Unread, UNCHANGED <<rows, fs["side"], fs["sideNew"]>>,
           Waiting' => Waiting, Moved' => Moved
    PROVE  Unread'
  BY DEF Unread

LEMMA RunnerUnread ==
    ASSUME MoveInv, Quiet, Stages, Carried, Progress, Unread, RunnerStep
    PROVE  Unread'
<1>0. /\ fs \in [Place -> Files] /\ {"side", "sideNew"} \subseteq Place
      /\ rows \in [{"old", "new"} -> Row]
      /\ Fail => UNCHANGED <<fs, rows>>
  BY DEF MoveInv, TypeOK, Place, Fail
<1>1. CASE RunStart \/ Serve
  <2>1. (Waiting' => Waiting) /\ (Moved' => Moved)
    BY <1>1, IdleSteps DEF Waiting, Moved
  <2> QED BY <1>1, <2>1, IdleSteps, UnreadFrame
<1>2. CASE Clear
  <2>1. Moved /\ ~Waiting' /\ UNCHANGED <<fs, rows>>
    BY <1>2, ClearEnds DEF Moved, Waiting, Stages, MoveInv, TypeOK
  <2> QED BY <2>1, UnreadFrame
<1>3. CASE Finish
  <2>1. runner = "finish" /\ UNCHANGED <<fs, rows>>
    BY <1>3 DEF Finish, Checkpoint
  <2>2. ~Waiting' /\ Blocked
    BY <2>1, AtWork, RunnerRecord DEF Waiting
  <2>3. fs["sideNew"] = Nothing => rows["new"].value = Plain
    <3>1. fs["sideNew"] = Nothing => job.payload = Nothing
      BY <2>1 DEF Progress
    <3>2. job.payload = Nothing => rows["new"] = NoRow
      BY <2>2 DEF Carried
    <3> QED BY <3>1, <3>2 DEF NoRow
  <2> QED BY <2>1, <2>2, <2>3 DEF Unread
<1>4. CASE Retarget \/ Acknowledge
  <2>1. runner \notin {"idle", "clear", "finish"}
    BY <1>4 DEF Retarget, Acknowledge
  <2>2. ~Moved' /\ ~Waiting' /\ Blocked
    BY <2>1, AtWork, RunnerRecord DEF Waiting, Moved
  <2>3. \A p \in {"old", "new"} : rows'[p].there \/ rows'[p] = NoRow
    <3>1. CASE Retarget
      BY <1>0, <3>1 DEF Retarget, Unread
    <3>2. CASE Acknowledge
      <4>1. /\ rows'["old"] = rows["old"]
            /\ rows'["new"] = [rows["new"] EXCEPT !.pending = FALSE]
        BY <1>0, <3>2 DEF Acknowledge
      <4>2. rows'["new"].there = rows["new"].there
        BY <1>0, <4>1 DEF Row
      <4> QED BY <4>1, <4>2, AcknowledgedNoRow DEF Unread
    <3> QED BY <1>4, <3>1, <3>2
  <2> QED BY <2>2, <2>3 DEF Unread
<1>5. CASE \/ Arrive \/ Lift \/ Lifted \/ Stage \/ Staged \/ Copy \/ Copying
           \/ Verify \/ Publish \/ Published \/ RemoveSource \/ Settings
           \/ SideStamp \/ SidePublish \/ SidePublished \/ Tidy
  <2>1. /\ runner \notin {"idle", "clear", "finish"} /\ UNCHANGED rows
    BY <1>0, <1>5
    DEF Arrive, Lift, Lifted, Stage, Staged, Copy, Copying, Verify, Publish,
        Published, RemoveSource, Settings, SideStamp, SidePublish,
        SidePublished, Tidy, Continue, Checkpoint, Operate
  <2>2. ~Moved' /\ ~Waiting'
    BY <2>1, AtWork, RunnerRecord DEF Waiting, Moved
  <2> QED BY <2>1, <2>2 DEF Unread
<1> QED BY <1>1, <1>2, <1>3, <1>4, <1>5 DEF RunnerStep

LEMMA OthersUnread ==
    ASSUME MoveInv, Quiet, Stages, Standing, Carried, Unread, Others
    PROVE  Unread'
<1>0. /\ fs \in [Place -> Files] /\ rows \in [{"old", "new"} -> Row]
      /\ {"side", "sideNew"} \subseteq Place
      /\ Foreign # Nothing /\ ~NoRow.there /\ NoRow.value = Plain
  BY DEF MoveInv, TypeOK, Place, Foreign, Nothing, NoRow
<1>1. (Waiting' => Waiting) /\ (Moved' => Moved)
  BY ExecuteBegins, OthersRecord DEF Waiting, Moved
<1>2. CASE Plan
  <2>1. /\ rows'["old"] = Refreshed("old") /\ rows'["new"] = rows["new"]
        /\ Refreshed("old").there \/ Refreshed("old") = NoRow
        /\ UNCHANGED fs
    BY <1>0, <1>2, PlanRecords
  <2>2. Moved' => FALSE
    BY <1>1, <1>2, PlanRecords, AtRest DEF Waiting, Blocked
  <2>3. fs["side"] = Nothing =>
           Refreshed("old").value = Plain \/ Refreshed("old").pending
    BY <1>0 DEF Refreshed
  <2> QED BY <2>1, <2>2, <2>3 DEF Unread
<1>3. CASE Execute \/ Fault \/ Crash
  <2>1. UNCHANGED <<fs, rows>>
    BY <1>3 DEF Execute, Fault, Fail, Crash
  <2> QED BY <1>1, <2>1, UnreadFrame
<1>4. ASSUME NEW p \in {"old", "new"}, NEW value \in Setting, Mark(p, value)
      PROVE  Unread'
  <2>1. /\ UNCHANGED fs
        /\ rows' = [rows EXCEPT ![p] = [there |-> TRUE, pending |-> TRUE,
                                        value |-> value]]
    BY <1>4 DEF Mark
  <2> QED BY <1>0, <1>1, <2>1 DEF Unread
<1>5. ASSUME NEW p \in {"old", "new"}, WriteSettings(p)
      PROVE  Unread'
  <2>1. ~Blocked /\ rows[p].pending /\ ~NoRow.pending
    BY <1>5 DEF WriteSettings, NoRow
  <2>2. rows[p].there
    BY <2>1 DEF Unread
  <2>3. CASE fs[p] = Nothing
    <3>1. /\ rows' = [rows EXCEPT ![p] = NoRow] /\ UNCHANGED fs
      BY <1>5, <2>3 DEF WriteSettings
    <3> QED BY <1>0, <1>1, <3>1 DEF Unread
  <2>4. CASE fs[p] # Nothing /\ p = "old"
    <3>1. /\ rows' = [rows EXCEPT !["old"].pending = FALSE]
          /\ fs' = [fs EXCEPT !["side"] = [id |-> "side", data |-> rows["old"].value]]
      BY <1>5, <2>4 DEF WriteSettings
    <3>2. /\ fs'["side"] # Nothing /\ fs'["sideNew"] = fs["sideNew"]
          /\ rows'["old"].there /\ rows'["new"] = rows["new"]
      BY <1>0, <2>2, <2>4, <3>1 DEF Nothing, Row
    <3> QED BY <1>1, <3>2 DEF Unread
  <2>5. CASE fs[p] # Nothing /\ p = "new"
    <3>1. /\ rows' = [rows EXCEPT !["new"].pending = FALSE]
          /\ fs' = [fs EXCEPT !["sideNew"] = [id |-> "side", data |-> rows["new"].value]]
      BY <1>5, <2>5 DEF WriteSettings
    <3>2. /\ fs'["sideNew"] # Nothing /\ fs'["side"] = fs["side"]
          /\ rows'["new"].there /\ rows'["old"] = rows["old"]
      BY <1>0, <2>2, <2>5, <3>1 DEF Nothing, Row
    <3> QED BY <1>1, <3>2 DEF Unread
  <2> QED BY <2>3, <2>4, <2>5
<1>6. ASSUME NEW p \in {"old", "new"}, EditPhoto(p)
      PROVE  Unread'
  <2>1. /\ fs'["side"] = fs["side"] /\ fs'["sideNew"] = fs["sideNew"]
        /\ UNCHANGED rows
    BY <1>0, <1>6 DEF EditPhoto
  <2> QED BY <1>1, <2>1, UnreadFrame
<1>7. ASSUME NEW p \in {"old", "new", "side", "sideNew"}, FileArrives(p)
      PROVE  Unread'
  <2>1. /\ UNCHANGED rows
        /\ fs'["side"] = Nothing => fs["side"] = Nothing
        /\ fs'["sideNew"] = Nothing => fs["sideNew"] = Nothing
    BY <1>0, <1>7 DEF FileArrives
  <2> QED BY <1>1, <2>1 DEF Unread
<1> QED BY <1>2, <1>3, <1>4, <1>5, <1>6, <1>7 DEF Others

-----------------------------------------------------------------------------
(* What is asked for is what the photo has.                                 *)

\* Where and with which settings the photo is found depends on this only.
LEMMA FoundFrame ==
    ASSUME UNCHANGED <<fs, rows>>, job'.payload = job.payload,
           Blocked' <=> Blocked
    PROVE  PlaceNow' = PlaceNow /\ SettingsNow' = SettingsNow
<1>1. \A p \in {"old", "new"} : Refreshed(p)' = Refreshed(p)
  BY DEF Refreshed
<1>2. PlaceNow' = PlaceNow /\ PlaceNow \in {"old", "new"}
  BY DEF PlaceNow
<1> QED BY <1>1, <1>2 DEF SettingsNow

LEMMA RunnerFound ==
    ASSUME MoveInv, Quiet, Stages, Standing, Carried, Progress, RunnerStep
    PROVE  /\ SettingsNow' = SettingsNow /\ history'.asked = history.asked
           /\ \/ Blocked /\ ~Blocked' /\ PlaceNow' \in {"old", "new"}
              \/ (Blocked' <=> Blocked) /\ PlaceNow' = PlaceNow
<1>1. CASE Finish
  <2>1. /\ runner = "finish" /\ mem'.done /\ UNCHANGED <<fs, rows>>
    BY <1>1, FinishDone DEF Finish, Checkpoint, MoveInv
  <2>2. /\ Blocked /\ ~Blocked' /\ UNCHANGED <<job, history>>
    BY <2>1, AtWork, RunnerRecord DEF Blocked
  <2>3. PlaceNow' = "new"
    BY <2>1, <2>2 DEF Standing, Late, PlaceNow
  <2>4. Refreshed("new")' = Refreshed("new") /\ ~rows["new"].pending
    BY <2>1 DEF Refreshed, Progress
  <2>5. CASE job.payload = Nothing
    <3>1. rows["new"] = NoRow /\ fs["sideNew"] \in {Nothing, Foreign}
      BY <2>2, <2>5 DEF Carried
    <3>2. Refreshed("new").value = Plain
      BY <3>1 DEF Refreshed, NoRow
    <3> QED BY <2>2, <2>3, <2>4, <2>5, <3>2 DEF SettingsNow
  <2>6. CASE job.payload # Nothing
    <3>1. fs["sideNew"] = job.payload
      BY <2>1, <2>6 DEF Progress
    <3>2. job.payload # Foreign
      BY DEF MoveInv, TypeOK, Job, Stamp, Foreign
    <3>3. Refreshed("new").value = job.payload.data
      BY <2>4, <2>6, <3>1, <3>2 DEF Refreshed
    <3> QED BY <2>2, <2>3, <2>4, <2>6, <3>3 DEF SettingsNow
  <2> QED BY <2>2, <2>3, <2>5, <2>6
<1>2. CASE Clear
  <2>1. /\ UNCHANGED <<fs, rows, job>> /\ ~Blocked /\ ~Blocked'
        /\ history'.asked = history.asked
    BY <1>2, ClearEnds, EmptyRecord DEF Stages, Blocked
  <2> QED BY <2>1, FoundFrame
<1>3. CASE RunStart \/ Serve
  <2>1. UNCHANGED <<fs, rows, job, history>> /\ (Blocked' <=> Blocked)
    BY <1>3, IdleSteps DEF Blocked
  <2> QED BY <2>1, FoundFrame
<1>4. CASE ~Finish /\ ~Clear /\ ~RunStart /\ ~Serve
  <2>1. runner \notin {"idle", "clear", "finish"}
    BY <1>4 DEF RunnerStep, Arrive, Lift, Lifted, Stage, Staged, Copy,
         Copying, Verify, Publish, Published, RemoveSource, Settings, SideStamp,
         SidePublish, SidePublished, Tidy, Retarget, Acknowledge
  <2>2. UNCHANGED <<job, history>> /\ Blocked /\ Blocked'
    BY <2>1, AtWork, RunnerRecord DEF Blocked
  <2> QED BY <2>2 DEF SettingsNow, PlaceNow
<1> QED BY <1>1, <1>2, <1>3, <1>4

\* Only a mark changes the settings, and only a preview carried out begins.
LEMMA OthersFound ==
    ASSUME MoveInv, Quiet, Stages, Standing, Carried, Unread, Others
    PROVE  /\ \/ history'.asked = history.asked /\ SettingsNow' = SettingsNow
              \/ /\ SettingsNow' = history'.asked /\ history'.asked \in Setting
                 /\ ~Blocked /\ ~Blocked'
           /\ \/ (Blocked' <=> Blocked) /\ PlaceNow' = PlaceNow
              \/ /\ ~Blocked /\ Blocked' /\ PlaceNow = "old" /\ PlaceNow' = "old"
                 /\ SettingsNow' = SettingsNow
<1>0. /\ fs \in [Place -> Files] /\ rows \in [{"old", "new"} -> Row]
      /\ {"side", "sideNew", "old", "new"} \subseteq Place
      /\ Foreign # Nothing /\ NoRow.value = Plain
  BY DEF MoveInv, TypeOK, Place, Foreign, Nothing, NoRow
<1>1. CASE Plan
  <2>1. /\ Waiting /\ PlaceNow = "old" /\ UNCHANGED <<fs, mem, history, runner>>
        /\ rows' = [rows EXCEPT !["old"] = Refreshed("old")]
    BY <1>1, PlanRecords
  <2>2. ~Blocked /\ ~Blocked' /\ PlaceNow' = "old"
    BY <2>1 DEF Waiting, Blocked, PlaceNow
  <2>3. rows'["old"] = Refreshed("old")
    BY <1>0, <2>1
  <2>4. Refreshed("old")'.value = Refreshed("old").value
    <3>1. CASE rows["old"].pending \/ fs["side"] = Foreign
      BY <2>1, <2>3, <3>1 DEF Refreshed
    <3>2. CASE ~(rows["old"].pending \/ fs["side"] = Foreign)
      BY <2>1, <2>3, <3>2 DEF Refreshed
    <3> QED BY <3>1, <3>2
  <2> QED BY <2>1, <2>2, <2>4 DEF SettingsNow
<1>2. CASE Execute
  <2>1. /\ job.previewed /\ ~mem.there /\ UNCHANGED <<fs, rows, history>>
        /\ \/ UNCHANGED mem
           \/ /\ mem'.there /\ ~mem'.done
              /\ fs["side"] = job.side /\ rows["old"] = job.row
    BY <1>2, ExecuteBegins
  <2>2. job'.payload = job.payload /\ ~Blocked /\ Waiting
    BY <1>2, <2>1, OthersRecord DEF Execute, Plan, Blocked, Stages, Waiting
  <2>3. PlaceNow = "old" /\ SettingsNow = Refreshed("old").value
    BY <2>2, AtRest DEF SettingsNow
  <2>4. CASE UNCHANGED mem
    <3>1. (Blocked' <=> Blocked)
      BY <2>4 DEF Blocked
    <3> QED BY <2>1, <2>2, <3>1, FoundFrame
  <2>5. CASE ~UNCHANGED mem
    <3>1. /\ mem'.there /\ ~mem'.done
          /\ fs["side"] = job.side /\ rows["old"] = job.row
      BY <2>1, <2>5
    <3>2. /\ job.row.there <=> job.payload # Nothing
          /\ job.row.there \/ job.row = NoRow
          /\ job.row.there => job.payload.data = job.row.value
          /\ ~job.row.pending /\ job.side # Nothing =>
                job.row.value = job.side.data
      BY <2>1 DEF Carried
    <3>3. Refreshed("old").value = job.row.value
      <4>1. CASE rows["old"].pending \/ fs["side"] = Foreign
        BY <3>1, <4>1 DEF Refreshed
      <4>2. CASE ~rows["old"].pending /\ fs["side"] = Nothing
        <5>1. rows["old"].value = Plain
          BY <2>2, <4>2 DEF Unread
        <5>2. Refreshed("old") = NoRow
          BY <1>0, <4>2 DEF Refreshed
        <5> QED BY <1>0, <3>1, <5>1, <5>2
      <4>3. CASE ~rows["old"].pending /\ fs["side"] \notin {Nothing, Foreign}
        BY <3>1, <3>2, <4>3 DEF Refreshed
      <4> QED BY <4>1, <4>2, <4>3
    <3>4. Blocked' /\ PlaceNow' = "old"
      BY <3>1 DEF Blocked, PlaceNow
    <3>5. SettingsNow' = IF job.payload = Nothing THEN Plain ELSE job.payload.data
      BY <2>2, <3>4 DEF SettingsNow
    <3>6. SettingsNow' = SettingsNow
      BY <1>0, <2>3, <3>2, <3>3, <3>5
    <3> QED BY <2>1, <2>2, <2>3, <3>4, <3>6
  <2> QED BY <2>4, <2>5
<1>3. CASE ~Execute /\ ~Plan
  <2>0. /\ mem'.there = mem.there /\ mem'.done = mem.done
        /\ job'.payload = job.payload
    BY <1>3, OthersRecord
  <2>b. (Blocked' <=> Blocked)
    BY <2>0 DEF Blocked
  <2>1. CASE Fault \/ Crash
    <3>1. UNCHANGED <<fs, rows, history>>
      BY <2>1 DEF Fault, Fail, Crash
    <3> QED BY <2>0, <2>b, <3>1, FoundFrame
  <2>2. ASSUME NEW p \in {"old", "new"}, NEW value \in Setting, Mark(p, value)
        PROVE  /\ ~Blocked /\ PlaceNow' = PlaceNow
               /\ SettingsNow' = value /\ history'.asked = value
    <3>1. /\ ~Blocked /\ fs[p].id \in PhotoId /\ UNCHANGED fs
          /\ rows' = [rows EXCEPT ![p] = [there |-> TRUE, pending |-> TRUE,
                                          value |-> value]]
          /\ history' = [history EXCEPT !.asked = value]
          /\ value # Refreshed(p).value
      BY <2>2 DEF Mark
    <3>2. PlaceNow = p
      BY <3>1, AtRest
    <3>3. PlaceNow' = p
      BY <2>b, <3>1, <3>2 DEF PlaceNow
    <3>4. rows'[p] = [there |-> TRUE, pending |-> TRUE, value |-> value]
      BY <1>0, <3>1
    <3>5. Refreshed(p)'.value = value
      BY <3>4 DEF Refreshed
    <3>6. history'.asked = value
      BY <3>1 DEF MoveInv, TypeOK
    <3> QED BY <2>b, <3>1, <3>2, <3>3, <3>5, <3>6 DEF SettingsNow
  <2>3. ASSUME NEW p \in {"old", "new"}, WriteSettings(p)
        PROVE  /\ UNCHANGED history /\ PlaceNow' = PlaceNow
               /\ SettingsNow' = SettingsNow
    <3>1. ~Blocked /\ rows[p].pending /\ UNCHANGED history
      BY <2>3 DEF WriteSettings
    <3>2. \A q \in {"old", "new"} : fs'[q] = fs[q]
      <4>1. \/ UNCHANGED fs
            \/ fs' = [fs EXCEPT ![IF p = "old" THEN "side" ELSE "sideNew"] =
                         [id |-> "side", data |-> rows[p].value]]
        BY <2>3, Zenon DEF WriteSettings
      <4> QED BY <1>0, <4>1
    <3>3. PlaceNow' = PlaceNow /\ PlaceNow \in {"old", "new"}
      BY <2>b, <3>2 DEF PlaceNow
    <3>4. fs[PlaceNow] # Nothing
      <4>1. fs[PlaceNow].id \in PhotoId
        BY <3>1, AtRest
      <4> QED BY <4>1 DEF PhotoId, Nothing
    <3>5. Refreshed(PlaceNow)'.value = Refreshed(PlaceNow).value
      <4>1. CASE p = "old" /\ PlaceNow = "old"
        <5>1. /\ rows' = [rows EXCEPT !["old"].pending = FALSE]
              /\ fs' = [fs EXCEPT !["side"] =
                           [id |-> "side", data |-> rows["old"].value]]
          BY <2>3, <3>4, <4>1 DEF WriteSettings
        <5>2. /\ ~rows'["old"].pending
              /\ fs'["side"] = [id |-> "side", data |-> rows["old"].value]
          BY <1>0, <5>1 DEF Row
        <5>3. fs'["side"] # Nothing /\ fs'["side"] # Foreign
          BY <5>2 DEF Nothing, Foreign
        <5>4. Refreshed("old")'.value = rows["old"].value
          BY <5>2, <5>3 DEF Refreshed
        <5>5. Refreshed("old").value = rows["old"].value
          BY <3>1, <4>1 DEF Refreshed
        <5> QED BY <3>3, <4>1, <5>4, <5>5
      <4>2. CASE p = "new" /\ PlaceNow = "new"
        <5>1. /\ rows' = [rows EXCEPT !["new"].pending = FALSE]
              /\ fs' = [fs EXCEPT !["sideNew"] =
                           [id |-> "side", data |-> rows["new"].value]]
          BY <2>3, <3>4, <4>2 DEF WriteSettings
        <5>2. /\ ~rows'["new"].pending
              /\ fs'["sideNew"] = [id |-> "side", data |-> rows["new"].value]
          BY <1>0, <5>1 DEF Row
        <5>3. fs'["sideNew"] # Nothing /\ fs'["sideNew"] # Foreign
          BY <5>2 DEF Nothing, Foreign
        <5>4. Refreshed("new")'.value = rows["new"].value
          BY <5>2, <5>3 DEF Refreshed
        <5>5. Refreshed("new").value = rows["new"].value
          BY <3>1, <4>2 DEF Refreshed
        <5> QED BY <3>3, <4>2, <5>4, <5>5
      <4>3. CASE p # PlaceNow
        <5>1. rows'[PlaceNow] = rows[PlaceNow]
          BY <1>0, <2>3, <3>3, <4>3 DEF WriteSettings
        <5>2. \/ UNCHANGED fs
              \/ fs' = [fs EXCEPT ![IF p = "old" THEN "side" ELSE "sideNew"] =
                           [id |-> "side", data |-> rows[p].value]]
          BY <2>3, Zenon DEF WriteSettings
        <5>3. CASE p = "old" /\ PlaceNow = "new"
          <6>1. fs'["sideNew"] = fs["sideNew"]
            BY <1>0, <5>2, <5>3
          <6> QED BY <3>3, <5>1, <5>3, <6>1 DEF Refreshed
        <5>4. CASE p = "new" /\ PlaceNow = "old"
          <6>1. fs'["side"] = fs["side"]
            BY <1>0, <5>2, <5>4
          <6> QED BY <3>3, <5>1, <5>4, <6>1 DEF Refreshed
        <5> QED BY <3>3, <4>3, <5>3, <5>4
      <4> QED BY <3>3, <4>1, <4>2, <4>3
    <3> QED BY <2>b, <3>1, <3>3, <3>5 DEF SettingsNow
  <2>4. ASSUME NEW p \in {"old", "new"}, EditPhoto(p)
        PROVE  /\ history'.asked = history.asked /\ PlaceNow' = PlaceNow
               /\ SettingsNow' = SettingsNow
    <3>1. /\ fs'["side"] = fs["side"] /\ fs'["sideNew"] = fs["sideNew"]
          /\ UNCHANGED rows /\ history'.asked = history.asked
          /\ fs'["new"].id = fs["new"].id
      BY <1>0, <2>4 DEF EditPhoto, MoveInv, TypeOK, Files
    <3>2. \A q \in {"old", "new"} : Refreshed(q)' = Refreshed(q)
      BY <3>1 DEF Refreshed
    <3>3. PlaceNow' = PlaceNow /\ PlaceNow \in {"old", "new"}
      BY <2>b, <3>1 DEF PlaceNow
    <3> QED BY <2>0, <2>b, <3>1, <3>2, <3>3 DEF SettingsNow
  <2>5. ASSUME NEW p \in {"old", "new", "side", "sideNew"}, FileArrives(p)
        PROVE  /\ history'.asked = history.asked /\ PlaceNow' = PlaceNow
               /\ SettingsNow' = SettingsNow
    <3>1. /\ fs[p] = Nothing /\ fs' = [fs EXCEPT ![p] = Foreign]
          /\ UNCHANGED <<rows, history>>
      BY <2>5 DEF FileArrives
    <3>2. fs'["new"].id \in PhotoId <=> fs["new"].id \in PhotoId
      BY <1>0, <3>1 DEF PhotoId, Nothing, Foreign
    <3>3. PlaceNow' = PlaceNow
      BY <2>b, <3>2 DEF PlaceNow
    <3>4. CASE Blocked
      BY <2>0, <2>b, <3>1, <3>3, <3>4 DEF SettingsNow
    <3>5. CASE ~Blocked
      <4>1. CASE PlaceNow = "old"
        <5>1. Waiting
          BY <3>5, <4>1, AtRest
        <5>2. \/ fs'["side"] = fs["side"]
              \/ fs["side"] = Nothing /\ fs'["side"] = Foreign
          BY <1>0, <3>1
        <5>3. fs["side"] = Nothing /\ ~rows["old"].pending =>
                rows["old"].value = Plain
          BY <5>1 DEF Unread
        <5>4. Refreshed("old")'.value = Refreshed("old").value
          BY <1>0, <3>1, <5>2, <5>3 DEF Refreshed
        <5> QED BY <2>b, <3>1, <3>3, <3>5, <4>1, <5>4 DEF SettingsNow
      <4>2. CASE PlaceNow = "new"
        <5>1. Moved
          BY <3>5, <4>2, AtRest
        <5>2. \/ fs'["sideNew"] = fs["sideNew"]
              \/ fs["sideNew"] = Nothing /\ fs'["sideNew"] = Foreign
          BY <1>0, <3>1
        <5>3. fs["sideNew"] = Nothing /\ ~rows["new"].pending =>
                rows["new"].value = Plain
          BY <5>1 DEF Unread
        <5>4. Refreshed("new")'.value = Refreshed("new").value
          BY <1>0, <3>1, <5>2, <5>3 DEF Refreshed
        <5> QED BY <2>b, <3>1, <3>3, <3>5, <4>2, <5>4 DEF SettingsNow
      <4> QED BY <3>5, <4>1, <4>2, AtRest
    <3> QED BY <3>1, <3>3, <3>4, <3>5
  <2> QED BY <1>3, <2>b, <2>1, <2>2, <2>3, <2>4, <2>5 DEF Others
<1> QED BY <1>1, <1>2, <1>3

-----------------------------------------------------------------------------
(* The invariant of an undisturbed command, and what follows from it.       *)

LEMMA InitFollow == Init => FollowInv
<1> SUFFICES ASSUME Init PROVE FollowInv
  OBVIOUS
<1>1. PICK value \in Setting, sidecar \in BOOLEAN :
         /\ fs = [p \in Place |->
                CASE p = "old" -> [id |-> "orig", data |-> 1]
                  [] p = "side" /\ sidecar -> [id |-> "side", data |-> value]
                  [] OTHER -> Nothing]
         /\ history = [content |-> 1, completions |-> 0,
                       asked |-> IF sidecar THEN value ELSE Plain]
  BY Zenon DEF Init
<1>2. /\ fs["old"] = [id |-> "orig", data |-> 1]
      /\ \A p \in Place \ {"old", "side"} : fs[p] = Nothing
      /\ fs["side"] = IF sidecar THEN [id |-> "side", data |-> value]
                                 ELSE Nothing
  <2>1. CASE sidecar = TRUE
    BY <1>1, <2>1 DEF Place
  <2>2. CASE sidecar = FALSE
    BY <1>1, <2>2 DEF Place
  <2> QED BY <2>1, <2>2
<1>3. /\ fs["stage"] = Nothing /\ fs["new"] = Nothing
      /\ fs["sideTemp"] = Nothing /\ fs["sideNew"] = Nothing
  BY <1>2 DEF Place
<1>4. /\ rows["old"] = NoRow /\ rows["new"] = NoRow
      /\ mem = NoRecord /\ disk = NoRecord /\ runner = "idle"
      /\ ~job.previewed /\ job.payload = Nothing
      /\ grade = "closed" /\ control.pc = "idle"
  BY DEF Init
<1>5. history.completions = 0 /\ history.asked = IF sidecar THEN value ELSE Plain
  BY <1>1
<1>6. Quiet
  BY <1>4, ConstantTypes DEF Quiet, NoRecord
<1>7. Stages
  BY <1>4, <1>5, EmptyRecord DEF Stages
<1>8. ~Moved /\ ~Blocked
  BY <1>4, <1>5, EmptyRecord DEF Moved, Blocked
<1>9. Standing
  BY <1>2, <1>3, <1>4, <1>8 DEF Standing, PhotoId, Nothing, Late
<1>10. Carried
  BY <1>3, <1>4, <1>8 DEF Carried
<1>11. Progress
  BY <1>4 DEF Progress
<1>12. Unread
  BY <1>4, <1>8 DEF Unread, NoRow
<1>13. history.asked = SettingsNow
  <2>1. PlaceNow = "old"
    BY <1>3, <1>8 DEF PlaceNow, PhotoId, Nothing
  <2>2. Refreshed("old").value = IF sidecar THEN value ELSE Plain
    <3>1. CASE sidecar = TRUE
      <4>1. fs["side"] = [id |-> "side", data |-> value]
        BY <1>2, <3>1
      <4>2. fs["side"] # Nothing /\ fs["side"] # Foreign
        BY <4>1 DEF Nothing, Foreign
      <4> QED BY <1>4, <3>1, <4>1, <4>2 DEF Refreshed, NoRow
    <3>2. CASE sidecar = FALSE
      BY <1>2, <1>4, <3>2 DEF Refreshed, NoRow
    <3> QED BY <3>1, <3>2
  <2> QED BY <1>5, <1>8, <2>1, <2>2 DEF SettingsNow
<1> QED BY <1>6, <1>7, <1>9, <1>10, <1>11, <1>12, <1>13 DEF FollowInv

LEMMA NextFollow ==
    ASSUME Undisturbed, MoveInv, FollowInv, [Next]_vars
    PROVE  FollowInv'
<1>0. Quiet /\ Stages /\ Standing /\ Carried /\ Progress /\ Unread
      /\ history.asked = SettingsNow
  BY DEF FollowInv
<1>q. Quiet'
  BY <1>0, NextQuiet
<1>1. CASE RunnerStep
  BY <1>0, <1>1, <1>q, RunnerStages, RunnerStanding, RunnerCarried, RunnerUnread,
     RunnerFound DEF FollowInv
<1>2. CASE Others
  BY <1>0, <1>2, <1>q, OthersStages, OthersStanding, OthersCarried, OthersUnread,
     OthersFound DEF FollowInv
<1>3. CASE UNCHANGED vars
  <2>1. /\ UNCHANGED <<fs, rows, job, mem, runner, history>>
        /\ (Waiting' <=> Waiting) /\ (Moved' <=> Moved) /\ (Blocked' <=> Blocked)
    BY <1>3 DEF vars, Waiting, Moved, Blocked
  <2>2. SettingsNow' = SettingsNow
    BY <2>1, FoundFrame
  <2>3. Stages' /\ Standing' /\ Carried' /\ Progress' /\ Unread'
    <3>1. Stages'
      BY <1>0, <2>1 DEF Stages
    <3>2. Standing'
      BY <1>0, <2>1 DEF Standing
    <3>3. Carried'
      BY <1>0, <2>1 DEF Carried
    <3>4. Progress'
      BY <1>0, <2>1 DEF Progress
    <3>5. Unread'
      BY <1>0, <2>1 DEF Unread
    <3> QED BY <3>1, <3>2, <3>3, <3>4, <3>5
  <2> QED BY <1>0, <1>q, <2>1, <2>2, <2>3 DEF FollowInv
<1> QED BY <1>0, <1>1, <1>2, <1>3, NextCases

\* What a command holds of the photo and its settings, and where the runner is
\* in carrying it out, agree at every step, after any failure and any crash.
THEOREM FollowInvariant ==
    ASSUME Undisturbed
    PROVE  Spec => []FollowInv
<1>1. MoveInv /\ FollowInv /\ [Next]_vars => FollowInv'
  BY NextFollow
<1> QED BY <1>1, InitFollow, MoveInvariant, PTL DEF Spec

\* Renaming and moving never lose marks or a grade: whenever no command holds
\* the photo, the settings asked for last are found under the name it has,
\* whatever failed, crashed, appeared or was written meanwhile, as long as it
\* is not opened in Grade and its command neither paused nor cancelled.
THEOREM SettingsFollowHolds ==
    ASSUME Undisturbed
    PROVE  Spec => []SettingsFollow
<1>1. MoveInv /\ FollowInv => SettingsFollow
  <2> SUFFICES ASSUME MoveInv, FollowInv, ~Blocked
               PROVE  \E p \in {"old", "new"} :
                         fs[p].id \in PhotoId /\ Refreshed(p).value = history.asked
    BY DEF SettingsFollow
  <2>1. PlaceNow \in {"old", "new"} /\ fs[PlaceNow].id \in PhotoId
    BY AtRest DEF FollowInv
  <2>2. Refreshed(PlaceNow).value = history.asked
    BY DEF FollowInv, SettingsNow
  <2> QED BY <2>1, <2>2
<1> QED BY <1>1, MoveInvariant, FollowInvariant, PTL

LEMMA AbstractStart == Init => Abstract!Init
<1> SUFFICES ASSUME Init PROVE Abstract!Init
  OBVIOUS
<1>1. MoveInv /\ FollowInv
  BY InitMoveInv, InitFollow
<1>2. mem = NoRecord /\ history.asked \in Setting
  BY <1>1 DEF Init, MoveInv, TypeOK
<1>3. Blocked = FALSE
  BY <1>2, EmptyRecord DEF Blocked
<1>4. history.completions = 0
  BY DEF Init
<1>5. PlaceNow = "old"
  BY <1>1, <1>2, <1>3, <1>4, AtRest, EmptyRecord DEF FollowInv, Moved
<1>6. SettingsNow \in Setting
  BY <1>1, <1>2 DEF FollowInv
<1> QED BY <1>3, <1>5, <1>6 DEF Abstract!Init

LEMMA AbstractStep ==
    ASSUME Undisturbed, MoveInv, FollowInv, [Next]_vars
    PROVE  [Abstract!Next]_(Abstract!vars)
<1>0. Quiet /\ Stages /\ Standing /\ Carried /\ Progress /\ Unread
  BY DEF FollowInv
<1>1. Blocked \in BOOLEAN /\ Blocked' \in BOOLEAN
  BY DEF Blocked
<1>2. CASE RunnerStep
  <2>1. SettingsNow' = SettingsNow
    BY <1>0, <1>2, RunnerFound
  <2>2. CASE Blocked /\ ~Blocked' /\ PlaceNow' \in {"old", "new"}
    <3>1. Abstract!End
      BY <1>1, <2>1, <2>2 DEF Abstract!End
    <3> QED BY <3>1 DEF Abstract!Next
  <2>3. CASE (Blocked' <=> Blocked) /\ PlaceNow' = PlaceNow
    BY <1>1, <2>1, <2>3 DEF Abstract!vars
  <2> QED BY <1>0, <1>2, <2>2, <2>3, RunnerFound
<1>3. CASE Others
  <2>1. CASE (Blocked' <=> Blocked) /\ PlaceNow' = PlaceNow
             /\ SettingsNow' = SettingsNow
    BY <1>1, <2>1 DEF Abstract!vars
  <2>2. CASE /\ SettingsNow' \in Setting /\ ~Blocked /\ ~Blocked'
             /\ PlaceNow' = PlaceNow
    <3>1. Abstract!Change
      BY <1>1, <2>2 DEF Abstract!Change
    <3> QED BY <3>1 DEF Abstract!Next
  <2>3. CASE /\ ~Blocked /\ Blocked' /\ PlaceNow = "old" /\ PlaceNow' = "old"
             /\ SettingsNow' = SettingsNow
    <3>1. Abstract!Begin
      BY <1>1, <2>3 DEF Abstract!Begin
    <3> QED BY <3>1 DEF Abstract!Next
  <2> QED BY <1>0, <1>3, <2>1, <2>2, <2>3, OthersFound
<1>4. CASE UNCHANGED vars
  <2>1. UNCHANGED <<fs, rows, job>> /\ (Blocked' <=> Blocked)
    BY <1>4 DEF vars, Blocked
  <2>2. PlaceNow' = PlaceNow /\ SettingsNow' = SettingsNow
    BY <2>1, FoundFrame
  <2> QED BY <1>1, <2>1, <2>2 DEF Abstract!vars
<1> QED BY <1>0, <1>2, <1>3, <1>4, NextCases

\* Seen from outside a rename or move is one step: the photo and its settings
\* change place together, and the settings change only while no command holds
\* the photo (FileMove implements PhotoMove), under the same conditions.
THEOREM MovesAtOnceHolds ==
    ASSUME Undisturbed
    PROVE  Spec => MovesAtOnce
<1>1. MoveInv /\ FollowInv /\ [Next]_vars => [Abstract!Next]_(Abstract!vars)
  BY AbstractStep
<1> QED BY <1>1, AbstractStart, MoveInvariant, FollowInvariant, PTL
        DEF Spec, MovesAtOnce, Abstract!Spec
=============================================================================
