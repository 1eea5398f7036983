---------------------------- MODULE LibraryWorker ----------------------------
(***************************************************************************)
(* The Library's helper process (library_worker.py): requests are          *)
(* registered in the backend, sent through a pipe to lanes of threads in   *)
(* the helper and answered through the pipe. A supervisor thread reads the *)
(* answers and, when the helper dies, starts another one and sends it what *)
(* waits. Requests are cancelled, Grade and source reads pause the lanes,  *)
(* and the app closes, at any time.                                        *)
(*                                                                         *)
(* Priorities are left out: a lane takes any of its jobs. Progress and     *)
(* diagnostic messages carry no state of the requests and are left out.    *)
(***************************************************************************)
EXTENDS Integers, Sequences, FiniteSets

CONSTANTS
  Scenarios,     \* what is asked and what may happen: a set of Budget records
  Lanes,         \* threads of the main, the picture and the map lane
  MaxPending,    \* requests that may wait (256 in the code)
  RestartLimit   \* helpers started again before giving up (3 in the code)

Kinds == {"main", "picture", "index", "check", "kept", "stored"}
MaxAsks == 4   \* no scenario asks more
Budget == [asks: Seq(Kinds), cancels: Nat, leaves: Nat, faults: Nat, pauses: Nat,
           sources: Nat, closes: 0..1]
ASSUME WorkerAssumption ==
  /\ Scenarios \subseteq Budget
  /\ Lanes \in Nat \ {0} /\ MaxPending \in Nat \ {0} /\ RestartLimit \in Nat

VARIABLES
  worker,     \* flags of LibraryWorker, and where its supervisor thread is
  futures,    \* request |-> the state of its future
  pending,    \* requests registered in _pending and _requests
  callers,    \* request |-> where the one who asks is
  toHelper, fromHelper,   \* messages in the two directions of the pipe
  helper,     \* the process: its flags, queue, jobs and running jobs
  left        \* what may still happen in this scenario; asks stay

vars == <<worker, futures, pending, callers, toHelper, fromHelper, helper, left>>

-----------------------------------------------------------------------------
Ids == DOMAIN left.asks
Kind(id) == left.asks[id]
Done == {"answered", "failed", "cancelled"}
Spend(what) == left[what] > 0 /\ left' = [left EXCEPT ![what] = @ - 1]

Message(command, id) == [command |-> command, id |-> id]
Control(command, on) == [command |-> command, on |-> on]

NoHelper == [pc |-> "off", paused |-> FALSE, busy |-> FALSE, queue |-> {}, jobs |-> {},
             running |-> {}]

\* _connection is set between a launch and the next failure.
Connected == worker.connected
\* What a send through the connection leaves in the pipe: nothing reaches a
\* process that is gone.
Send(message) == IF Connected /\ helper.pc \in {"booting", "running"}
                 THEN Append(toHelper, message) ELSE toHelper

Init ==
  /\ left \in Scenarios
  /\ worker = [reader |-> "none", id |-> 0, connected |-> FALSE, ready |-> FALSE,
               recovering |-> FALSE, restarts |-> 0, failure |-> FALSE, closed |-> FALSE,
               paused |-> FALSE, source |-> FALSE, ending |-> {}, doomed |-> {}]
  /\ futures = [id \in Ids |-> "none"] /\ callers = [id \in Ids |-> "new"]
  /\ pending = {} /\ toHelper = <<>> /\ fromHelper = <<>> /\ helper = NoHelper

-----------------------------------------------------------------------------
(* Asking: start and submit_library. *)

Caller(id, pc) == callers' = [callers EXCEPT ![id] = pc]

\* start(): the first request starts the supervisor; while a helper is being
\* replaced nobody waits for it.
start(id) ==
  /\ callers[id] = "new"
  /\ IF worker.closed \/ worker.failure
     THEN Caller(id, "refused") /\ UNCHANGED worker
     ELSE IF worker.recovering
     THEN Caller(id, "admitted") /\ UNCHANGED worker
     ELSE /\ Caller(id, "starting")
          /\ worker' = IF worker.reader = "none" THEN [worker EXCEPT !.reader = "launching"] ELSE worker
  /\ UNCHANGED <<futures, pending, toHelper, fromHelper, helper, left>>

\* The wait for the ready event ends, or it lasts too long.
StartReturns(id) ==
  /\ callers[id] = "starting"
  /\ \/ worker.ready /\ Caller(id, IF worker.failure THEN "refused" ELSE "admitted")
     \/ ~worker.ready /\ Caller(id, "refused")
  /\ UNCHANGED <<worker, futures, pending, toHelper, fromHelper, helper, left>>

\* The request is registered, and sent unless a helper is being replaced:
\* then it is sent with the others when the new one is ready.
submit_library(id) ==
  /\ callers[id] = "admitted"
  /\ IF worker.closed \/ worker.failure \/ Cardinality(pending) >= MaxPending
     THEN Caller(id, "refused") /\ UNCHANGED <<futures, pending, toHelper>>
     ELSE /\ Caller(id, "waiting")
          /\ futures' = [futures EXCEPT ![id] = "waiting"]
          /\ pending' = pending \cup {id}
          /\ toHelper' = IF worker.recovering THEN toHelper ELSE Send(Message("job", id))
  /\ UNCHANGED <<worker, fromHelper, helper, left>>

\* Mutant: the helper is not told.
Cancelled_Untold(id) ==
  /\ pending' = pending \ {id}
  /\ futures' = IF id \in pending THEN [futures EXCEPT ![id] = IF @ = "waiting" THEN "cancelled" ELSE @] ELSE futures
  /\ UNCHANGED toHelper

\* cancel(): only what is still registered can be cancelled.
Cancelled(id) ==
  IF id \in pending
  THEN /\ pending' = pending \ {id}
       /\ futures' = [futures EXCEPT ![id] = IF @ = "waiting" THEN "cancelled" ELSE @]
       /\ toHelper' = IF worker.closed \/ worker.failure THEN toHelper ELSE Send(Message("cancel", id))
  ELSE UNCHANGED <<pending, futures, toHelper>>

\* The page scrolled on, a file command invalidates what is being read, ...
cancel(id) ==
  /\ callers[id] = "waiting" /\ Spend("cancels")
  /\ Cancelled(id) /\ Caller(id, "gone")
  /\ UNCHANGED <<worker, fromHelper, helper>>

\* A request whose coroutine awaits the wrapped future is dropped by its page:
\* asyncio cancels the future first, without the worker's lock ...
WaiterLeaves(id) ==
  /\ callers[id] = "waiting" /\ Spend("leaves")
  /\ futures' = [futures EXCEPT ![id] = IF @ = "waiting" THEN "cancelled" ELSE @]
  /\ Caller(id, "leaving")
  /\ UNCHANGED <<worker, pending, toHelper, fromHelper, helper>>

\* ... and then the coroutine cancels the request. Every other caller cancels
\* its request, too, once it has its answer.
WaiterCancels(id) ==
  /\ \/ callers[id] = "leaving"
     \/ callers[id] = "waiting" /\ futures[id] \in Done
  /\ Cancelled(id) /\ Caller(id, "gone")
  /\ UNCHANGED <<worker, fromHelper, helper, left>>

-----------------------------------------------------------------------------
(* Pausing and closing. *)

\* Controls are sent whenever there is a connection.
Told(message) == IF worker.closed \/ worker.failure THEN toHelper ELSE Send(message)

\* Grade, an import, an export or the user pauses or resumes the helper.
pause ==
  /\ Spend("pauses")
  /\ worker' = [worker EXCEPT !.paused = ~@]
  /\ toHelper' = Told(Control("pause", ~worker.paused))
  /\ UNCHANGED <<futures, pending, callers, fromHelper, helper>>

\* The first source read outside the helper begins, or the last one ends.
foreground_source ==
  /\ Spend("sources")
  /\ worker' = [worker EXCEPT !.source = ~@]
  /\ toHelper' = Told(Control("source-busy", ~worker.source))
  /\ UNCHANGED <<futures, pending, callers, fromHelper, helper>>

close ==
  /\ Spend("closes")
  /\ worker' = [worker EXCEPT !.closed = TRUE, !.ready = TRUE, !.ending = pending]
  /\ toHelper' = Told(Message("stop", 0))
  /\ pending' = {}
  /\ UNCHANGED <<futures, callers, fromHelper, helper>>

\* After the lock: the futures are cancelled one by one.
CloseCancels(id) ==
  /\ worker.closed /\ id \in worker.ending
  /\ worker' = [worker EXCEPT !.ending = @ \ {id}]
  /\ futures' = [futures EXCEPT ![id] = IF @ = "waiting" THEN "cancelled" ELSE @]
  /\ UNCHANGED <<pending, callers, toHelper, fromHelper, helper, left>>

\* The helper has stopped by itself, or it is terminated.
CloseEnds ==
  /\ worker.closed /\ worker.ending = {} /\ helper.pc \in {"booting", "running"}
  /\ helper' = NoHelper /\ toHelper' = <<>>
  /\ UNCHANGED <<worker, futures, pending, callers, fromHelper, left>>

-----------------------------------------------------------------------------
(* The supervisor thread: _supervise and _read_results. *)

Reader(pc) == worker' = [worker EXCEPT !.reader = pc]

Booting == [NoHelper EXCEPT !.pc = "booting", !.paused = worker.paused]

\* The new helper is told of the pause; not of the reads of sources.
_launch ==
  /\ worker.reader = "launching"
  /\ IF worker.closed THEN Reader("gone") /\ UNCHANGED helper
     ELSE /\ worker' = [worker EXCEPT !.reader = "reading", !.connected = TRUE]
          /\ helper' = Booting
  /\ UNCHANGED <<futures, pending, callers, toHelper, fromHelper, left>>

\* The process cannot be started.
LaunchFails ==
  /\ worker.reader = "launching" /\ ~worker.closed /\ Spend("faults")
  /\ Reader("stopped")
  /\ UNCHANGED <<futures, pending, callers, toHelper, fromHelper, helper>>

First == Head(fromHelper)
SetToSeq(ids) == CHOOSE order \in [1..Cardinality(ids) -> ids] :
  \A id \in ids : \E n \in DOMAIN order : order[n] = id

\* What the new helper is sent: whether a source is being read, and the
\* requests that wait, of which each is a job.
Replay == <<Control("source-busy", worker.source)>> \o
          [n \in 1..Cardinality(pending) |-> Message("job", SetToSeq(pending)[n])]

\* The helper is ready: if it is gone already, the send fails.
ReadReady ==
  /\ worker.reader = "reading" /\ ~worker.closed
  /\ fromHelper # <<>> /\ First.command = "ready" /\ fromHelper' = Tail(fromHelper)
  /\ IF helper.pc = "running"
     THEN /\ worker' = [worker EXCEPT !.recovering = FALSE, !.ready = TRUE]
          /\ toHelper' = toHelper \o Replay
     ELSE /\ worker' = [worker EXCEPT !.recovering = FALSE, !.reader = "stopped"]
          /\ UNCHANGED toHelper
  /\ UNCHANGED <<futures, pending, callers, helper, left>>

\* An answer takes the request out; the future is looked at without the lock ...
ReadAnswer ==
  /\ worker.reader = "reading" /\ ~worker.closed
  /\ fromHelper # <<>> /\ First.command = "answer" /\ fromHelper' = Tail(fromHelper)
  /\ pending' = pending \ {First.id}
  /\ worker' = IF First.id \in pending /\ futures[First.id] = "waiting"
               THEN [worker EXCEPT !.reader = "setting", !.id = First.id] ELSE worker
  /\ UNCHANGED <<futures, callers, toHelper, helper, left>>

\* ... and then set. If it was cancelled between the two, set_result raises
\* InvalidStateError, which nobody catches: the thread ends.
SetResult ==
  /\ worker.reader = "setting"
  /\ IF futures[worker.id] = "waiting"
     THEN Reader("reading") /\ futures' = [futures EXCEPT ![worker.id] = "answered"]
     ELSE Reader("lost") /\ UNCHANGED futures
  /\ UNCHANGED <<pending, callers, toHelper, fromHelper, helper, left>>

\* All that was in the pipe is read, and the helper is gone or never ready.
ReadFails ==
  /\ worker.reader = "reading" /\ fromHelper = <<>> /\ ~worker.closed
  /\ \/ helper.pc = "dead" /\ UNCHANGED left
     \/ helper.pc = "booting" /\ Spend("faults")
  /\ Reader("stopped")
  /\ UNCHANGED <<futures, pending, callers, toHelper, fromHelper, helper>>

\* The loop sees that the app closes.
ReadEnds ==
  /\ worker.closed /\ worker.reader \in {"reading", "stopped", "disposed", "delayed"}
  /\ Reader("gone")
  /\ UNCHANGED <<futures, pending, callers, toHelper, fromHelper, helper, left>>

Stopped ==
  /\ worker.reader = "stopped" /\ ~worker.closed
  /\ worker' = [worker EXCEPT !.reader = "disposed", !.ready = FALSE, !.recovering = TRUE,
                              !.connected = FALSE]
  /\ UNCHANGED <<futures, pending, callers, toHelper, fromHelper, helper, left>>

\* What is left of the process is terminated, then another one may start.
Disposed ==
  /\ worker.reader = "disposed" /\ ~worker.closed
  /\ helper' = NoHelper /\ toHelper' = <<>> /\ fromHelper' = <<>>
  /\ IF worker.restarts >= RestartLimit
     THEN /\ worker' = [worker EXCEPT !.reader = "failing", !.failure = TRUE,
                                      !.recovering = FALSE, !.doomed = pending]
          /\ pending' = {}
     ELSE /\ worker' = [worker EXCEPT !.reader = "delayed", !.restarts = @ + 1]
          /\ UNCHANGED pending
  /\ UNCHANGED <<futures, callers, left>>

Delayed ==
  /\ worker.reader = "delayed" /\ ~worker.closed /\ Reader("launching")
  /\ UNCHANGED <<futures, pending, callers, toHelper, fromHelper, helper, left>>

\* The waiting futures fail one by one, looked at and set as answers are.
FailLooks ==
  /\ worker.reader = "failing"
  /\ IF worker.doomed = {} THEN worker' = [worker EXCEPT !.reader = "gone", !.ready = TRUE]
     ELSE \E id \in worker.doomed :
       worker' = [worker EXCEPT !.doomed = @ \ {id}, !.id = id,
                    !.reader = IF futures[id] = "waiting" THEN "refusing" ELSE "failing"]
  /\ UNCHANGED <<futures, pending, callers, toHelper, fromHelper, helper, left>>

FailSets ==
  /\ worker.reader = "refusing"
  /\ IF futures[worker.id] = "waiting"
     THEN Reader("failing") /\ futures' = [futures EXCEPT ![worker.id] = "failed"]
     ELSE Reader("lost") /\ UNCHANGED futures
  /\ UNCHANGED <<pending, callers, toHelper, fromHelper, helper, left>>

-----------------------------------------------------------------------------
(* The helper process: _worker_main_impl. *)

HelperBoots ==
  /\ helper.pc = "booting" /\ helper' = [helper EXCEPT !.pc = "running"]
  /\ fromHelper' = Append(fromHelper, Message("ready", 0))
  /\ UNCHANGED <<worker, futures, pending, callers, toHelper, left>>

\* What was sent to it is lost; what it has answered can still be read.
HelperDies ==
  /\ helper.pc \in {"booting", "running"} /\ Spend("faults")
  /\ helper' = [NoHelper EXCEPT !.pc = "dead"] /\ toHelper' = <<>>
  /\ UNCHANGED <<worker, futures, pending, callers, fromHelper>>

Received(message) ==
  CASE message.command = "stop" -> NoHelper
    [] message.command = "pause" -> [helper EXCEPT !.paused = message.on]
    [] message.command = "source-busy" -> [helper EXCEPT !.busy = message.on]
    [] message.command = "cancel" ->
         [helper EXCEPT !.jobs = @ \ {message.id}, !.queue = @ \ {message.id}]
    [] message.command = "job" ->
         [helper EXCEPT !.jobs = @ \cup {message.id}, !.queue = @ \cup {message.id}]

Receive ==
  /\ helper.pc = "running" /\ toHelper # <<>>
  /\ helper' = Received(Head(toHelper)) /\ toHelper' = Tail(toHelper)
  /\ UNCHANGED <<worker, futures, pending, callers, fromHelper, left>>

InLane(ids, kind) == {id \in ids : Kind(id) = kind}
LaneSize(kind) == IF kind \in {"main", "picture", "kept"} THEN Lanes ELSE 1

\* A thread of the lane takes a job.
Take(id) ==
  LET kind == Kind(id) IN
  /\ helper.pc = "running" /\ id \in helper.queue /\ ~helper.paused
  /\ kind \in {"main", "stored"} \/ ~helper.busy
  /\ Cardinality(InLane(helper.running, kind)) < LaneSize(kind)
  /\ helper' = [helper EXCEPT !.queue = @ \ {id}, !.running = @ \cup {id}]
  /\ UNCHANGED <<worker, futures, pending, callers, toHelper, fromHelper, left>>

Yields(kind) == kind \in {"index", "check", "kept", "stored"}

\* Mutant: maps wait for folder checks, too.
Allowed_NoCheck(kind) ==
  IF kind = "check" THEN {"index", "check", "stored"} ELSE {"index", "kept", "stored"}

\* Kinds that may be queued while a job of this kind goes on.
Allowed(kind) ==
  IF kind = "check" THEN {"index", "check", "stored"}
  ELSE {"index", "kept", "stored"} \cup (IF kind = "kept" THEN {"check"} ELSE {})

\* Background work goes on when Grade rests and nothing visible waits or runs.
MayProceed(kind) ==
  /\ ~helper.paused /\ (kind = "stored" \/ ~helper.busy)
  /\ InLane(helper.running, "picture") = {}
  /\ kind \in {"check", "kept"} \/ InLane(helper.running, "check") = {}
  /\ {Kind(id) : id \in helper.queue} \subseteq Allowed(kind)

\* A job comes to its end; a cancelled one does so without an answer.
Finish(id) ==
  LET current == id \in helper.jobs IN
  /\ helper.pc = "running" /\ id \in helper.running
  /\ (current /\ Yields(Kind(id))) => MayProceed(Kind(id))
  /\ helper' = [helper EXCEPT !.running = @ \ {id}, !.jobs = @ \ {id}]
  /\ fromHelper' = IF current THEN Append(fromHelper, Message("answer", id)) ELSE fromHelper
  /\ UNCHANGED <<worker, futures, pending, callers, toHelper, left>>

-----------------------------------------------------------------------------
Supervisor ==
  \/ _launch \/ ReadReady \/ ReadAnswer \/ SetResult \/ ReadEnds
  \/ ReadFails /\ helper.pc = "dead"
  \/ Stopped \/ Disposed \/ Delayed \/ FailLooks \/ FailSets

Fault == LaunchFails \/ (ReadFails /\ helper.pc = "booting") \/ HelperDies

Asking(id) == start(id) \/ StartReturns(id) \/ submit_library(id)
Working(id) == Take(id) \/ Finish(id)

Next ==
  \/ \E id \in Ids : Asking(id) \/ cancel(id) \/ WaiterLeaves(id) \/ WaiterCancels(id)
                      \/ CloseCancels(id) \/ Working(id)
  \/ pause \/ foreground_source \/ close \/ CloseEnds
  \/ Supervisor \/ Fault \/ HelperBoots \/ Receive

\* The supervisor, the helper's reading and each of its jobs run on; closing
\* goes on once begun. Nothing is assumed of requests and of the user.
Fairness ==
  /\ WF_vars(Supervisor) /\ WF_vars(HelperBoots) /\ WF_vars(Receive)
  /\ \A id \in 1..MaxAsks : WF_vars(id \in Ids /\ Working(id))
                          /\ WF_vars(id \in Ids /\ CloseCancels(id))
                          /\ WF_vars(id \in Ids /\ WaiterCancels(id))

Spec == Init /\ [][Next]_vars /\ Fairness

-----------------------------------------------------------------------------
(* Properties. *)

JobsSent == {id \in Ids : \E n \in DOMAIN toHelper : toHelper[n] = Message("job", id)}
CancelsSent == {id \in Ids : \E n \in DOMAIN toHelper : toHelper[n] = Message("cancel", id)}
Answers == {id \in Ids : \E n \in DOMAIN fromHelper : fromHelper[n] = Message("answer", id)}

ReaderPcs == {"none", "launching", "reading", "setting", "stopped", "disposed", "delayed",
              "failing", "refusing", "gone", "lost"}

\* Every variable has its type; the helper queues only jobs it may still be
\* asked to cancel; only what waits is registered.
TypeOK ==
  /\ worker \in [reader : ReaderPcs, id : {0} \cup Ids, connected : BOOLEAN, ready : BOOLEAN,
                 recovering : BOOLEAN, restarts : 0..RestartLimit, failure : BOOLEAN,
                 closed : BOOLEAN, paused : BOOLEAN, source : BOOLEAN,
                 ending : SUBSET Ids, doomed : SUBSET Ids]
  /\ futures \in [Ids -> Done \cup {"none", "waiting"}]
  /\ callers \in [Ids -> {"new", "starting", "admitted", "waiting", "leaving", "gone", "refused"}]
  /\ pending \subseteq {id \in Ids : callers[id] \in {"waiting", "leaving"}}
  /\ helper \in [pc : {"off", "booting", "running", "dead"}, paused : BOOLEAN, busy : BOOLEAN,
                 queue : SUBSET Ids, jobs : SUBSET Ids, running : SUBSET Ids]
  /\ helper.queue \subseteq helper.jobs /\ helper.jobs \subseteq helper.queue \cup helper.running

\* The backend and a helper that has reported ready agree, up to what is in
\* the pipe: what waits in the backend is on its way, queued, running or
\* answered, also after a restart; what the helper still has and nobody waits
\* for, it is being told to cancel.
HelperKnows ==
  LET has == JobsSent \cup helper.jobs
  IN helper.pc = "running" /\ worker.ready /\ ~worker.recovering /\ ~worker.closed =>
       /\ pending \subseteq has \cup Answers
       /\ has \ pending \subseteq CancelsSent

\* No helper has the same request twice: the requests made while a helper is
\* replaced are sent once, when it is ready.
SentOnce ==
  \A id \in Ids :
    Cardinality({n \in DOMAIN toHelper : toHelper[n] = Message("job", id)})
    + (IF id \in helper.jobs THEN 1 ELSE 0)
    + Cardinality({n \in DOMAIN fromHelper : fromHelper[n] = Message("answer", id)}) <= 1

\* What a gate of the helper will be when all messages are read.
Gate(command, now) ==
  LET told == {n \in DOMAIN toHelper : toHelper[n].command = command}
  IN IF told = {} THEN now ELSE toHelper[CHOOSE n \in told : \A k \in told : k <= n].on

\* Whatever is toggled while helpers die and start, each helper learns whether
\* Grade has paused it, and from its readiness on whether a source is read.
GatesReach ==
  /\ worker.connected /\ helper.pc \in {"booting", "running"} /\ ~worker.closed =>
       Gate("pause", helper.paused) = worker.paused
  /\ helper.pc = "running" /\ worker.ready /\ ~worker.recovering /\ ~worker.closed =>
       Gate("source-busy", helper.busy) = worker.source

\* Backend and helper agree, through crashes and restarts: on what waits, on each
\* request once, on the pauses (_supervise and _read_results, library_worker.py).
HelperAgrees == HelperKnows /\ SentOnce /\ GatesReach

Unanswered(id) == id \in Ids /\ callers[id] = "waiting" /\ futures[id] = "waiting"

\* Every request that waits is answered, cancelled or told of the failure,
\* through crashes, restarts and closing and however the lanes yield to one
\* another, unless the helper is paused, a source is being read, or the
\* supervisor was lost (AlwaysAnswered).
Answered == \A id \in 1..MaxAsks :
  Unanswered(id) ~> (~Unanswered(id) \/ worker.paused \/ worker.source \/ worker.reader = "lost")

-----------------------------------------------------------------------------
(* What the documentation promises and the code does not keep. *)

\* Every request is answered unless the helper is paused.
AlwaysAnswered == \A id \in 1..MaxAsks :
  Unanswered(id) ~> (~Unanswered(id) \/ worker.paused \/ worker.source)

\* The main and the picture lane share one count of running jobs.
SharedAdmission ==
  Cardinality(InLane(helper.running, "main") \cup InLane(helper.running, "picture")) <= Lanes
=============================================================================
