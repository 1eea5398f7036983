----------------------------- MODULE SourceMips -----------------------------
(***************************************************************************)
(* The persistent cache of source levels (SourceMipStore in               *)
(* render_cache.py): a level is built from the decoded source once, kept   *)
(* in memory, written to a file beside its final name, and pruned, while   *)
(* several threads ask for levels or save them after their answer, sources *)
(* are replaced, files are damaged, writes fail and the backend dies.      *)
(*                                                                         *)
(* A level stands for the pair (identity, long edge); its pixels are a     *)
(* function of it, so an array or a file is whole or it is not, and a file *)
(* may be damaged later. Files are in the order of their modification.     *)
(***************************************************************************)
EXTENDS Integers, FiniteSets, Sequences, SequencesExt, FiniteSetsExt

CONSTANTS
  Thread,         \* the requests and the tasks after a response, each on its thread
  Level, Size,    \* the levels, and how many bytes one has
  Identity,       \* level |-> the source it is of
  Old,            \* levels of an older format, which nobody asks for
  MemoryBudget, DiskBudget,
  Chunks,         \* chunks that a saved level is copied in (of 1 MiB in the code)
  NoThread,
  Scenarios       \* what is asked and what may happen: a set of Budget records

Levels(entries) == {entries[i].level : i \in DOMAIN entries}
\* Entries have different levels: each is the byte <<level, n>> Size[level] times.
Bytes(entries) == Cardinality(UNION {{level} \X (1..Size[level]) : level \in Levels(entries)})
Without(entries, levels) ==
  LET kept[n \in 0..Len(entries)] ==
        IF n = 0 THEN <<>>
        ELSE IF entries[n].level \in levels THEN kept[n - 1] ELSE Append(kept[n - 1], entries[n])
  IN kept[Len(entries)]

\* Entries of one folder, or of memory, have different levels; what an earlier
\* run left in the folder is whole and within the budget.
Distinct(entries) == \A i, j \in DOMAIN entries : entries[i].level = entries[j].level => i = j
Kept(files) == Distinct(files) /\ (\A i \in DOMAIN files : files[i].whole) /\ Bytes(files) <= DiskBudget

Job == [kind: {"level", "persist"}, level: Level, persist: BOOLEAN]
File == [level: Level, whole: BOOLEAN, damaged: BOOLEAN]
Budget == [jobs: UNION {[asking -> Job] : asking \in SUBSET Thread}, disk: Seq(File),
           temps: SUBSET Thread, stale: Nat, discards: Nat, damages: Nat, faults: Nat, crashes: Nat]
ASSUME MipsAssumption ==
  /\ NoThread \notin Thread /\ Size \in [Level -> Nat \ {0}]
  /\ MemoryBudget \in Nat /\ DiskBudget \in Nat /\ Chunks \in Nat \ {0}
  /\ Scenarios \subseteq Budget /\ Old \subseteq Level
  /\ \A s \in Scenarios : s.temps \cap DOMAIN s.jobs = {} /\ Kept(s.disk)

VARIABLES
  memory,       \* _memory, oldest first: [level, array], an array named by who made it
  memoryBytes,  \* _memory_bytes
  inflight,     \* _inflight: level |-> the thread that owns the flight
  cleaned,      \* _cleaned
  disk,         \* the levels in files, by modification time
  temps,        \* whose temporary files are in the folder
  threads,      \* thread |-> where it is, with its local variables
  left          \* what may still happen; jobs stay

vars == <<memory, memoryBytes, inflight, cleaned, disk, temps, threads, left>>
store == <<memory, memoryBytes, inflight, cleaned>>
folder == <<disk, temps>>

-----------------------------------------------------------------------------
Of(t) == left.jobs[t].level
Spend(what) == left[what] > 0 /\ left' = [left EXCEPT ![what] = @ - 1]
Put(table, key, value) == [k \in DOMAIN table \cup {key} |-> IF k = key THEN value ELSE table[k]]
Drop(table, key) == [k \in DOMAIN table \ {key} |-> table[k]]

Entry(entries, level) == CHOOSE entry \in Range(entries) : entry.level = level
ToEnd(entries, level) == Append(Without(entries, {level}), Entry(entries, level))

\* The checks of _read_disk_level, the checksum last.
Sound(file) == file.whole /\ ~file.damaged
Saved(t) == [level |-> Of(t), whole |-> threads[t].whole, damaged |-> FALSE]

\* ("published" and "died" are for the properties: its file got its name, the
\* backend died under it.)
NewThread == [pc |-> "new", current |-> TRUE, owns |-> FALSE, awaits |-> NoThread, whole |-> TRUE,
              chunks |-> 0, owner |-> NoThread, listing |-> <<>>, total |-> 0, sweeping |-> {},
              published |-> FALSE, died |-> FALSE, answer |-> "none"]

Init ==
  /\ left \in Scenarios
  /\ memory = <<>> /\ memoryBytes = 0 /\ cleaned = FALSE
  /\ inflight = [level \in {} |-> NoThread]
  /\ disk = left.disk /\ temps = left.temps
  /\ threads = [t \in Thread |-> NewThread]

Update(t, change) == threads' = [threads EXCEPT ![t] = change]
Go(t, pc) == Update(t, [threads[t] EXCEPT !.pc = pc])
At(t, pc) == threads[t].pc = pc
Current(t) == threads[t].current

\* Where a thread goes on: an exception passes the finally clause of level.
Raise(t, why) ==
  Update(t, [threads[t] EXCEPT !.answer = why, !.pc = IF threads[t].owns THEN "release" ELSE "done"])
Saving(t) == left.jobs[t].kind = "persist"
Persists(t) == Saving(t) \/ left.jobs[t].persist

Begin(t) ==
  /\ At(t, "new") /\ t \in DOMAIN left.jobs
  /\ Go(t, IF Saving(t) THEN "p_begin" ELSE "lookup")
  /\ UNCHANGED <<store, folder, left>>

-----------------------------------------------------------------------------
(* level.                                                                  *)

Cached(t) ==
  /\ At(t, "lookup") /\ Of(t) \in Levels(memory)
  /\ IF ~Current(t) THEN Raise(t, "stale") /\ UNCHANGED memory
     ELSE /\ memory' = ToEnd(memory, Of(t))
          /\ Update(t, [threads[t] EXCEPT !.pc = "done", !.answer = "memory"])
  /\ UNCHANGED <<memoryBytes, inflight, cleaned, folder, left>>

Fly(t) ==
  /\ At(t, "lookup") /\ Of(t) \notin Levels(memory) /\ Of(t) \notin DOMAIN inflight
  /\ inflight' = Put(inflight, Of(t), t)
  /\ Update(t, [threads[t] EXCEPT !.owns = TRUE, !.pc = IF Persists(t) THEN "clean" ELSE "read"])
  /\ UNCHANGED <<memory, memoryBytes, cleaned, folder, left>>

Join(t) ==
  /\ At(t, "lookup") /\ Of(t) \notin Levels(memory) /\ Of(t) \in DOMAIN inflight
  /\ Update(t, [threads[t] EXCEPT !.pc = "wait", !.awaits = inflight[Of(t)]])
  /\ UNCHANGED <<store, folder, left>>

\* Mutant: who stops waiting takes the flight with it.
Await_Detaching(t) ==
  /\ At(t, "wait")
  /\ IF ~threads[threads[t].awaits].owns THEN Go(t, "lookup") /\ UNCHANGED inflight
     ELSE ~Current(t) /\ Raise(t, "stale") /\ inflight' = Drop(inflight, Of(t))
  /\ UNCHANGED <<memory, memoryBytes, cleaned, folder, left>>

\* The event of the flight is set when its owner has released it.
Await(t) ==
  /\ At(t, "wait")
  /\ IF ~threads[threads[t].awaits].owns THEN Go(t, "lookup")
     ELSE ~Current(t) /\ Raise(t, "stale")
  /\ UNCHANGED <<store, folder, left>>

\* Mutant: the checksum is not compared.
ReadLevel_Unchecked(t) ==
  /\ At(t, "read")
  /\ IF DiskBudget > 0 /\ Of(t) \in Levels(disk)
     THEN /\ Update(t, [threads[t] EXCEPT !.pc = "loaded", !.whole = Sound(Entry(disk, Of(t)))])
          /\ disk' = ToEnd(disk, Of(t))
     ELSE Go(t, "build") /\ UNCHANGED disk
  /\ UNCHANGED <<store, temps, left>>

\* _load_or_build.
ReadLevel(t) ==
  /\ At(t, "read")
  /\ IF DiskBudget > 0 /\ Of(t) \in Levels(disk)
     THEN IF Sound(Entry(disk, Of(t)))
          THEN Go(t, "loaded") /\ disk' = ToEnd(disk, Of(t))
          ELSE Go(t, "discard") /\ UNCHANGED disk
     ELSE Go(t, "build") /\ UNCHANGED disk
  /\ UNCHANGED <<store, temps, left>>

ReadFails(t) ==
  /\ At(t, "read") /\ DiskBudget > 0 /\ Spend("faults") /\ Go(t, "build")
  /\ UNCHANGED <<store, folder>>

\* Whatever has the name by now is removed.
_discard_corrupt(t) ==
  /\ At(t, "discard")
  /\ disk' = Without(disk, {Of(t)}) /\ Go(t, "build")
  /\ UNCHANGED <<store, temps, left>>

CheckLevel(t) ==
  /\ threads[t].pc \in {"loaded", "build", "built"}
  /\ IF ~Current(t) THEN Raise(t, "stale")
     ELSE Go(t, CASE At(t, "loaded") -> "insert"
                  [] At(t, "build") -> "building"
                  [] OTHER -> IF Persists(t) /\ DiskBudget > 0 THEN "write" ELSE "insert")
  /\ UNCHANGED <<store, folder, left>>

Build(t) ==
  /\ At(t, "building")
  /\ Go(t, "built") \/ (~Current(t) /\ Raise(t, "stale"))
  /\ UNCHANGED <<store, folder, left>>

BuildFails(t) ==
  /\ At(t, "building") /\ Spend("faults") /\ Raise(t, "error")
  /\ UNCHANGED <<store, folder>>

\* _insert_memory_locked: the two newest levels stay, whatever their size.
InsertMemory(t) ==
  LET kept == Append(Without(memory, {Of(t)}), [level |-> Of(t), array |-> t])
      Counted(k) == memoryBytes + Bytes(kept) - Bytes(memory) - Bytes(SubSeq(kept, 1, k))
      drop == Min({k \in 0..Len(kept) : Counted(k) <= MemoryBudget \/ Len(kept) - k <= 2})
  IN /\ memory' = SubSeq(kept, drop + 1, Len(kept))
     /\ memoryBytes' = Counted(drop)

Insert(t) ==
  /\ At(t, "insert")
  /\ IF ~Current(t) THEN Raise(t, "stale") /\ UNCHANGED <<memory, memoryBytes>>
     ELSE /\ Update(t, [threads[t] EXCEPT !.pc = "release", !.answer = "level"])
          /\ IF MemoryBudget = 0 THEN UNCHANGED <<memory, memoryBytes>> ELSE InsertMemory(t)
  /\ UNCHANGED <<inflight, cleaned, folder, left>>

\* Mutant: a build that fails keeps its flight.
Release_IfAnswered(t) ==
  /\ At(t, "release")
  /\ IF threads[t].answer = "level"
     THEN inflight' = Drop(inflight, Of(t)) /\ Update(t, [threads[t] EXCEPT !.owns = FALSE, !.pc = "done"])
     ELSE Go(t, "done") /\ UNCHANGED inflight
  /\ UNCHANGED <<memory, memoryBytes, cleaned, folder, left>>

Release(t) ==
  /\ At(t, "release")
  /\ inflight' = IF Of(t) \in DOMAIN inflight /\ inflight[Of(t)] = t THEN Drop(inflight, Of(t)) ELSE inflight
  /\ Update(t, [threads[t] EXCEPT !.owns = FALSE, !.pc = "done"])
  /\ UNCHANGED <<memory, memoryBytes, cleaned, folder, left>>

-----------------------------------------------------------------------------
(* Files.                                                                  *)

\* _ensure_cleaned: the first one sweeps, the others go on at once.
Cleaning(t) ==
  /\ At(t, "clean")
  /\ cleaned' = TRUE
  /\ Go(t, IF ~cleaned THEN "sweep" ELSE IF Saving(t) THEN "p_check" ELSE "read")
  /\ UNCHANGED <<memory, memoryBytes, inflight, folder, left>>

\* Folders of older formats go; the temporary files are listed and then removed
\* one by one.
Sweep(t) ==
  \/ /\ At(t, "sweep")
     /\ Update(t, [threads[t] EXCEPT !.pc = "sweeping", !.sweeping = temps])
     /\ disk' = Without(disk, Old)
     /\ UNCHANGED <<store, temps, left>>
  \/ /\ At(t, "sweeping") /\ threads[t].sweeping # {}
     /\ \E found \in threads[t].sweeping :
          /\ temps' = temps \ {found}
          /\ Update(t, [threads[t] EXCEPT !.sweeping = @ \ {found}])
     /\ UNCHANGED <<store, disk, left>>
  \/ /\ At(t, "sweeping") /\ threads[t].sweeping = {}
     /\ Go(t, IF Saving(t) THEN "p_check" ELSE "read")
     /\ UNCHANGED <<store, folder, left>>

\* _write_disk_level: the temporary file, then the replacement.
WriteTemp(t) ==
  /\ At(t, "write")
  /\ temps' = temps \cup {t} /\ Go(t, "replace")
  /\ UNCHANGED <<store, disk, left>>

\* os.replace; a temporary file that was swept meanwhile is a failed write.
Replace(t) ==
  /\ At(t, "replace")
  /\ IF t \in temps
     THEN /\ disk' = Append(Without(disk, {Of(t)}), Saved(t))
          /\ Update(t, [threads[t] EXCEPT !.pc = "prune", !.published = TRUE])
     ELSE UNCHANGED disk /\ Go(t, IF Saving(t) THEN "done" ELSE "prune")
  /\ temps' = temps \ {t}
  /\ UNCHANGED <<store, left>>

\* A failing write: the temporary file is removed in the end.
WriteFails(t) ==
  /\ threads[t].pc \in {"write", "replace", "p_copy"} /\ Spend("faults")
  /\ temps' = temps \ {t}
  /\ Go(t, IF Saving(t) THEN "done" ELSE "prune")
  /\ UNCHANGED <<store, disk>>

\* _prune_disk: the files are listed with their sizes, then the oldest are
\* removed. One that is gone already does not count.
AfterPrune(t) == IF Saving(t) THEN "done" ELSE "insert"

PruneList(t) ==
  /\ At(t, "prune")
  /\ Update(t, [threads[t] EXCEPT !.listing = disk, !.total = Bytes(disk),
                  !.pc = IF Bytes(disk) <= DiskBudget THEN AfterPrune(t) ELSE "pruning"])
  /\ UNCHANGED <<store, folder, left>>

PruneOne(t) ==
  /\ At(t, "pruning")
  /\ LET th == threads[t] IN
     IF th.total <= DiskBudget \/ th.listing = <<>>
     THEN Update(t, [th EXCEPT !.pc = AfterPrune(t), !.listing = <<>>, !.total = 0]) /\ UNCHANGED disk
     ELSE LET level == Head(th.listing).level IN
          /\ disk' = Without(disk, {level})
          /\ Update(t, [th EXCEPT !.listing = Tail(@),
                          !.total = IF level \in Levels(disk) THEN @ - Size[level] ELSE @])
  /\ UNCHANGED <<store, temps, left>>

-----------------------------------------------------------------------------
(* persist_cached, after the response.                                     *)

PersistBegin(t) ==
  /\ At(t, "p_begin")
  /\ IF DiskBudget = 0 \/ ~Current(t) \/ Of(t) \notin Levels(memory) THEN Go(t, "done")
     ELSE Update(t, [threads[t] EXCEPT !.pc = "clean", !.owner = Entry(memory, Of(t)).array])
  /\ UNCHANGED <<store, folder, left>>

PersistCheck(t) ==
  /\ At(t, "p_check")
  /\ IF Of(t) \in Levels(disk) \/ ~Current(t)
     THEN Go(t, "done") /\ UNCHANGED temps
     ELSE Update(t, [threads[t] EXCEPT !.pc = "p_copy", !.chunks = 0]) /\ temps' = temps \cup {t}
  /\ UNCHANGED <<store, disk, left>>

Owned(t) == Of(t) \in Levels(memory) /\ Entry(memory, Of(t)).array = threads[t].owner

\* One chunk at a time, as long as the level stays in memory.
CopyChunk(t) ==
  /\ At(t, "p_copy") /\ threads[t].chunks < Chunks /\ Current(t) /\ Owned(t)
  /\ Update(t, [threads[t] EXCEPT !.chunks = @ + 1])
  /\ UNCHANGED <<store, folder, left>>

\* Mutant: a level that leaves memory ends the copy as if it were complete.
CopyStops_Publishing(t) ==
  /\ At(t, "p_copy")
  /\ ~Current(t) \/ (threads[t].chunks < Chunks /\ ~Owned(t))
  /\ IF Current(t) THEN Update(t, [threads[t] EXCEPT !.pc = "replace", !.whole = FALSE]) /\ UNCHANGED temps
     ELSE Go(t, "done") /\ temps' = temps \ {t}
  /\ UNCHANGED <<store, disk, left>>

CopyStops(t) ==
  /\ At(t, "p_copy")
  /\ ~Current(t) \/ (threads[t].chunks < Chunks /\ ~Owned(t))
  /\ Go(t, "done") /\ temps' = temps \ {t}
  /\ UNCHANGED <<store, disk, left>>

\* The request is looked at before and after the header is written.
CopyEnds(t) ==
  /\ At(t, "p_copy") /\ threads[t].chunks = Chunks /\ Current(t)
  /\ Go(t, "replace")
  /\ UNCHANGED <<store, folder, left>>

-----------------------------------------------------------------------------
(* What comes from outside.                                                *)

\* The source of a request is replaced: is_current answers no from now on.
Supersede(t) ==
  /\ threads[t].pc \notin {"new", "done"} /\ Current(t) /\ Spend("stale")
  /\ Update(t, [threads[t] EXCEPT !.current = FALSE])
  /\ UNCHANGED <<store, folder>>

discard_memory ==
  /\ Spend("discards")
  /\ \E level \in Levels(memory) :
       /\ memory' = Without(memory, {l \in Level : Identity[l] = Identity[level]})
       /\ memoryBytes' = memoryBytes - (Bytes(memory) - Bytes(memory'))
  /\ UNCHANGED <<inflight, cleaned, folder, threads>>

\* A file is cut short or changed.
Damage ==
  /\ Spend("damages")
  /\ \E i \in DOMAIN disk : disk' = [disk EXCEPT ![i].damaged = TRUE]
  /\ UNCHANGED <<store, temps, threads>>

Crash ==
  /\ Spend("crashes")
  /\ memory' = <<>> /\ memoryBytes' = 0 /\ cleaned' = FALSE
  /\ inflight' = [level \in {} |-> NoThread]
  /\ threads' = [t \in Thread |-> IF At(t, "new") THEN threads[t]
                   ELSE [NewThread EXCEPT !.pc = "done", !.died = threads[t].died \/ ~At(t, "done")]]
  /\ UNCHANGED folder

Asking(t) == Cached(t) \/ Fly(t) \/ Join(t) \/ Await(t) \/ Insert(t) \/ Release(t)
Making(t) == ReadLevel(t) \/ _discard_corrupt(t) \/ CheckLevel(t) \/ Build(t)
Filing(t) == Cleaning(t) \/ Sweep(t) \/ WriteTemp(t) \/ Replace(t) \/ PruneList(t) \/ PruneOne(t)
Copying(t) == PersistBegin(t) \/ PersistCheck(t) \/ CopyChunk(t) \/ CopyStops(t) \/ CopyEnds(t)
Step(t) == Asking(t) \/ Making(t) \/ Filing(t) \/ Copying(t)
Failing(t) == ReadFails(t) \/ BuildFails(t) \/ WriteFails(t)

Next ==
  \/ \E t \in Thread : Begin(t) \/ Step(t) \/ Failing(t) \/ Supersede(t)
  \/ discard_memory \/ Damage \/ Crash

\* Every thread goes on with what it can do.
Fairness == \A t \in Thread : WF_vars(Step(t))
Spec == Init /\ [][Next]_vars /\ Fairness

-----------------------------------------------------------------------------
(* Properties.                                                             *)

Working == {"clean", "sweep", "sweeping", "read", "loaded", "discard", "build", "building", "built",
            "write", "replace", "prune", "pruning", "insert"}
Pcs == Working \cup {"new", "done", "lookup", "wait", "release", "p_begin", "p_check", "p_copy"}

\* Every variable has its type: memory and the folder hold no level twice.
TypeOK ==
  /\ left \in Budget /\ cleaned \in BOOLEAN /\ temps \subseteq Thread
  /\ memory \in Seq([level: Level, array: Thread]) /\ Distinct(memory) /\ memoryBytes \in Nat
  /\ DOMAIN inflight \subseteq Level /\ inflight \in [DOMAIN inflight -> Thread]
  /\ disk \in Seq(File) /\ Distinct(disk)
  /\ threads \in [Thread -> [pc: Pcs, current: BOOLEAN, owns: BOOLEAN, awaits: Thread \cup {NoThread},
                              whole: BOOLEAN, chunks: Nat, owner: Thread \cup {NoThread},
                              listing: Seq(File), total: Int, sweeping: SUBSET Thread,
                              published: BOOLEAN, died: BOOLEAN,
                              answer: {"none", "memory", "level", "stale", "error"}]]

\* The bytes that are counted are those of the levels in memory, whoever drops
\* them, and they stay within the budget but for the two newest levels.
MemoryAccounted ==
  /\ memoryBytes = Bytes(memory)
  /\ memoryBytes <= MemoryBudget \/ Len(memory) <= 2

\* A level is read or built by one thread at a time ("building is single-flight
\* per identity and level").
OneBuild ==
  \A t, o \in Thread :
    t # o /\ {threads[t].pc, threads[o].pc} \subseteq Working /\ ~Saving(t) /\ ~Saving(o) => Of(t) # Of(o)

\* Nobody is answered with a level of a damaged file, now or from memory later
\* ("discarded and rebuilt rather than served").
AnswersWhole ==
  /\ \A t \in Thread : threads[t].answer = "level" => threads[t].whole
  /\ \A i \in DOMAIN memory : threads[memory[i].array].whole

\* A file under its final name was written to its end, whatever stopped other
\* writers and whatever left memory meanwhile ("never a partial entry").
FilesWhole == \A i \in DOMAIN disk : disk[i].whole

\* When nobody is at work the files are within their budget, however the
\* writers and their prunes overtook each other; only a crash may leave more.
Died == \E t \in Thread : threads[t].died
DiskWithinBudget ==
  (\A t \in Thread : threads[t].pc \in {"new", "done"}) /\ ~Died => Bytes(disk) <= DiskBudget

\* Once swept, the folder holds temporary files only of those who are writing.
TempsOwned ==
  cleaned /\ (\A t \in Thread : threads[t].pc \notin {"sweep", "sweeping"}) =>
    \A t \in temps : threads[t].pc \in {"replace", "p_copy"}

\* Memory holds whole levels, as many bytes of them as it counts and may hold.
MemorySound == AnswersWhole /\ MemoryAccounted

\* The folder, between any writers, prunes, sweeps and crashes: whole levels
\* within their budget, temporary files only of those who are writing.
FolderSound == FilesWhole /\ TempsOwned /\ DiskWithinBudget

\* Every request is answered, refused or told of an error: no one waits for a
\* build that failed or was given up.
Ends == \A t \in Thread : threads[t].pc # "new" ~> threads[t].pc = "done"

-----------------------------------------------------------------------------
(* What the comments say beyond that, violated by the code.                *)

\* "A cancelled build raises StaleRender and never populates either cache."
CancelledLeavesNothing ==
  \A t \in Thread : threads[t].answer = "stale" => ~threads[t].published

\* "Interrupted temp files are swept": the file of a writer at work is none.
SweepSparesWriters ==
  [][\A t \in temps \ temps' : threads[t].pc \in {"replace", "p_copy"} => threads'[t] # threads[t]]_vars

\* "Byte-bounded LRUs": a level is evicted while the files are over their budget.
EvictsOverBudget ==
  [][\A t \in Thread : At(t, "pruning") /\ threads'[t] # threads[t] /\ disk' # disk
       => Bytes(disk) > DiskBudget]_vars
=============================================================================
