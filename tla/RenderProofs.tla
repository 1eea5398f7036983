----------------------------- MODULE RenderProofs -----------------------------
(* Proofs about rendering. The backend's render cache, for any requests,        *)
(* grades, masks, colour contexts and table sizes, and any number of edits,     *)
(* replacements, failures and leaving pages: nothing stale is answered or kept, *)
(* flights belong to who computes, a mask is compiled once and its waiters are  *)
(* counted. The page's preview (Preview, here P), for any bounds, any settings  *)
(* and any number of functions that wait for a render: no older picture comes   *)
(* on screen, and what a Ready viewer believes is what it shows.                *)
EXTENDS RenderFlights, Sequences, FiniteSetTheorems, NaturalsInduction, WellFoundedInduction,
        SequenceTheorems, TLAPS

-----------------------------------------------------------------------------
(* What holds of one request, as a function of its record x, its job and the  *)
(* session's epoch e, source s and context c.                                 *)

\* Which flights may be owned where, and where the request may be.
FrameOwners == {"f_proxies", "f_apply", "f_check", "f_store", "f_release", "t_render",
                "m_acquire", "m_start", "m_compute", "m_store", "m_release"}
MaskOwners == {"m_start", "m_compute", "m_store", "m_release"}
NoScope == {"new", "s_epoch", "s_sign", "s_acquire", "m_begin", "t_peak", "t_measure", "answer", "done"}
InMask == {"m_acquire", "m_start", "m_compute", "m_store", "m_release"}
JobMasked(job) == MaskOf[job.grade] # NoMask

Where(x, job) ==
  /\ "frame" \in x.owns => x.pc \in FrameOwners
  /\ "mask" \in x.owns => x.pc \in MaskOwners
  /\ "scope" \in x.owns => x.pc \notin NoScope /\ job.kind = "scope"
  /\ job.kind = "mask" => x.pc \in InMask \cup {"new", "m_begin", "answer", "done"} /\ x.owns \subseteq {"mask"}
  /\ x.pc = "m_begin" => job.kind = "mask"
  /\ x.pc \in InMask /\ job.kind # "mask" => JobMasked(job) /\ job.kind # "strips"
  /\ x.pc \in {"t_proxies", "t_render", "t_peak", "t_measure"} => job.kind = "strips"
  /\ x.pc \in {"f_proxies", "f_apply", "f_check"} => job.kind # "strips"
  /\ x.pc \in {"s_epoch", "s_sign", "s_acquire", "s_check", "s_build", "s_store", "s_release"} => job.kind = "scope"

\* When the source has been taken, and a picture was made of it.
Pictured == {"f_check", "f_store", "t_peak", "t_measure", "s_check", "s_build", "s_store"}
Sourced(x, job) ==
  /\ x.pc \in {"new", "f_epoch", "f_sign", "f_proxies", "t_proxies", "s_epoch", "s_sign", "s_acquire", "m_begin"} => x.src = 0
  /\ x.pc = "f_acquire" /\ job.kind # "strips" => x.src = 0
  /\ x.pc = "f_acquire" /\ job.kind = "strips" => x.src # 0
  /\ x.pc \in InMask \cup {"f_apply", "t_render"} => x.src # 0
  /\ job.kind = "strips" /\ x.src # 0 => ~JobMasked(job)
  /\ job.kind # "mask" /\ ~JobMasked(job) => x.mask = 0
  /\ x.pc \in Pictured \/ (x.pc = "f_release" /\ x.fails = "none") => x.picture \in Pictures

\* The epochs a request has read are in the order in which it read them.
EpochRead == {"f_sign", "f_acquire", "f_proxies", "f_apply", "f_check", "f_store", "f_release",
              "t_proxies", "t_render", "t_peak", "t_measure", "s_check", "s_build", "s_store",
              "m_acquire", "m_start", "m_compute", "m_store", "m_release"}
When(x, job, e) ==
  /\ x.began <= e /\ x.epoch <= e /\ x.outerEpoch <= e
  /\ x.pc \in EpochRead \/ (x.pc = "s_release" /\ x.fails = "none") => x.began <= x.epoch
  /\ job.kind = "scope" /\ x.pc \notin {"new", "s_epoch", "done"} => x.began <= x.outerEpoch
  /\ job.kind = "scope" /\ x.pc \in EpochRead => x.outerEpoch <= x.epoch

\* What a request holds that was read in this epoch is of this source.
Now(s, c, grade) == [source |-> s, context |-> c, grade |-> grade,
                     mask |-> IF MaskOf[grade] # NoMask THEN s ELSE 0]
Holds(x, job, e, s, c) ==
  /\ x.epoch = e /\ x.src # 0 => x.src = s
  /\ x.epoch = e /\ x.pc = "f_apply" /\ JobMasked(job) => x.mask = s
  /\ x.pc = "m_store" => x.mask = x.src
  /\ x.epoch = e /\ x.pc = "m_release" /\ x.fails = "none" => x.mask = s
  /\ x.epoch = e /\ (x.pc \in Pictured \/ (x.pc \in {"f_release", "s_release"} /\ x.fails = "none"))
       => x.picture = Now(s, c, job.grade)
  /\ x.began = e /\ (x.pc = "answer" \/ (x.pc = "done" /\ x.fails = "none"))
       => IF job.kind = "mask" THEN x.mask = s ELSE x.picture = Now(s, c, job.grade)

\* A scope stores under the epoch it read first, what it made under the second.
Request_OK(x, job, e, s, c) == Where(x, job) /\ Sourced(x, job) /\ When(x, job, e) /\ Holds(x, job, e, s, c)

Local == \A r \in Request : requests[r].pc # "new" => Request_OK(requests[r], left.jobs[r], epoch, source, context)
Fresh == \A r \in Request : requests[r].pc = "new" => requests[r] = NewRequest

TablesNow ==
  /\ \A key \in DOMAIN frames : key.epoch = epoch => frames[key] = Now(source, context, key.grade)
  /\ \A key \in DOMAIN scopes : key.epoch = epoch => scopes[key] = Now(source, context, key.grade)
  /\ \A key \in DOMAIN peaks : key \in DOMAIN frames
       /\ (key.epoch = epoch => peaks[key] = Now(source, context, key.grade))
  /\ \A key \in DOMAIN masks : masks[key] = source

\* A flight is its owner's, or that of a frame whose source could not be taken.
Kept(r, table) == table \in requests[r].owns \ requests[r].cut
Leaked(r) == NoSource(r) /\ requests[r].pc \in {"s_release", "done"}
FlightOf(r, table, key) ==
  KeyIn(r, table) = key /\ (Kept(r, table) \/ (table = "frame" /\ Leaked(r)))
FlightsRight ==
  /\ \A table \in Tables : \A key \in DOMAIN inflight[table] : FlightOf(inflight[table][key], table, key)
  /\ \A table \in Tables : \A r \in Request : Kept(r, table) =>
       KeyIn(r, table) \in DOMAIN inflight[table] /\ inflight[table][KeyIn(r, table)] = r
  /\ \A r \in Request : requests[r].pc \in {"m_start", "m_compute"} /\ requests[r].epoch = epoch
       => Kept(r, "mask")

\* The types that the proofs use (the waiters are counted further down).
SessionTypes == epoch \in Nat /\ source \in Nat \ {0} /\ context \in Context /\ token \in Nat
TableTypes ==
  /\ \A key \in DOMAIN frames : frames[key] \in Pictures
  /\ \A key \in DOMAIN peaks : peaks[key] \in Pictures
  /\ \A key \in DOMAIN scopes : scopes[key] \in Pictures
  /\ \A key \in DOMAIN masks : masks[key] \in Nat
FlightTypes ==
  /\ inflight = [table \in Tables |-> inflight[table]]
  /\ \A table \in Tables : \A key \in DOMAIN inflight[table] : inflight[table][key] \in Request
RequestTypes ==
  /\ requests \in [Request -> RequestType] /\ left \in Budget
  /\ \A r \in Request : requests[r].pc # "new" => r \in DOMAIN left.jobs
Types == SessionTypes /\ TableTypes /\ FlightTypes /\ RequestTypes

RenderInv == Types /\ Local /\ Fresh /\ TablesNow /\ FlightsRight

-----------------------------------------------------------------------------
(* Steps of one request.                                                      *)

\* What happens spends a count of its scenario; what is asked stays.
LEMMA SpendKeepsJobs ==
  ASSUME left \in Budget, NEW what \in {"replaces", "resets", "contexts", "edits", "leaves", "faults", "leaks"},
         Spend(what)
  PROVE  left' \in Budget /\ left'.jobs = left.jobs
BY DEF Spend, Budget

\* What a request asks is a job.
LEMMA JobsTyped ==
  ASSUME left \in Budget, NEW r \in DOMAIN left.jobs
  PROVE  left.jobs[r] \in Job
<1>1. left.jobs \in UNION {[asking -> Job] : asking \in SUBSET Request}
  BY DEF Budget
<1> QED BY <1>1

\* How a request may go on, and an exception among the ways.
Fits(r, y) == y \in RequestType /\ y.pc # "new" /\ Request_OK(y, left.jobs[r], epoch, source, context)
Raised(r, why) == [requests[r] EXCEPT !.fails = why, !.pc = Unwind(requests[r].owns)]

\* It keeps the flights that it has, and their keys.
KeepsFlights(r, y) ==
  /\ y.owns = requests[r].owns /\ y.cut = requests[r].cut
  /\ "frame" \in requests[r].owns \/ Leaked(r) =>
       y.epoch = requests[r].epoch /\ y.context = requests[r].context
  /\ "scope" \in requests[r].owns =>
       y.outerEpoch = requests[r].outerEpoch /\ y.outerContext = requests[r].outerContext
  /\ "mask" \in requests[r].owns => y.epoch = requests[r].epoch
  /\ Leaked(r) => y.pc \in {"s_release", "done"} /\ y.fails = "error" /\ y.src = 0
  /\ y.pc \in {"m_start", "m_compute"} /\ y.epoch = epoch => Kept(r, "mask")

SameJobs == left' = left \/ (left' \in Budget /\ left'.jobs = left.jobs)
Goes(r, y) == requests[r].pc # "new" /\ requests' = [requests EXCEPT ![r] = y] /\ SameJobs

\* A request that goes on to a record that fits leaves the others as they are.
LEMMA RequestStep ==
  ASSUME RenderInv, NEW r \in Request, NEW y, Goes(r, y), Fits(r, y),
         UNCHANGED <<epoch, source, context>>
  PROVE  Local' /\ Fresh' /\ RequestTypes'
<1>1. y \in RequestType /\ left'.jobs = left.jobs /\ left' \in Budget
  BY DEF Fits, Goes, SameJobs, RenderInv, Types, RequestTypes
<1>2. requests' = [requests EXCEPT ![r] = y] /\ requests[r].pc # "new"
  BY DEF Goes
<1>3. requests'[r] = y /\ \A q \in Request : q # r => requests'[q] = requests[q]
  BY <1>2 DEF RenderInv, Types, RequestTypes
<1>4. Local'
  BY <1>1, <1>3 DEF RenderInv, Local, Fits
<1>5. Fresh'
  BY <1>3 DEF RenderInv, Fresh, Fits
<1>6. RequestTypes'
  BY <1>1, <1>2, <1>3 DEF RenderInv, Types, RequestTypes
<1> QED BY <1>4, <1>5, <1>6

\* A step that keeps the flights a request has keeps the table right.
LEMMA FlightsStay ==
  ASSUME RenderInv, NEW r \in Request, NEW y, Goes(r, y), KeepsFlights(r, y),
         UNCHANGED <<epoch, inflight>>
  PROVE  FlightsRight'
<1>1. requests'[r] = y /\ \A q \in Request : q # r => requests'[q] = requests[q]
  BY DEF RenderInv, Types, RequestTypes, Goes
<1>2. \A q \in Request : \A table \in Tables : Kept(q, table)' = Kept(q, table)
  BY <1>1 DEF Kept, KeepsFlights
<1>3. \A q \in Request : Leaked(q) => Leaked(q)'
  BY <1>1 DEF Leaked, NoSource, KeepsFlights
<1>4. \A q \in Request : \A table \in Tables :
        Kept(q, table) \/ (table = "frame" /\ Leaked(q)) => KeyIn(q, table)' = KeyIn(q, table)
  <2>1. left'.jobs = left.jobs
    BY DEF Goes, SameJobs
  <2> QED BY <1>1, <2>1 DEF KeyIn, FrameKey, ScopeKey, MaskKey, GradeOf, Kept, KeepsFlights, Tables
<1>5. \A q \in Request : requests'[q].pc \in {"m_start", "m_compute"} /\ requests'[q].epoch = epoch'
        => Kept(q, "mask")
  BY <1>1 DEF RenderInv, FlightsRight, KeepsFlights
<1>6. \A table \in Tables : \A key \in DOMAIN inflight[table] : inflight[table][key] \in Request
  BY DEF RenderInv, Types, FlightTypes
<1>7. \A table \in Tables : \A key \in DOMAIN inflight[table] : FlightOf(inflight[table][key], table, key)'
  BY <1>2, <1>3, <1>4, <1>6 DEF RenderInv, FlightsRight, FlightOf
<1>8. \A table \in Tables : \A q \in Request : Kept(q, table)' =>
        KeyIn(q, table)' \in DOMAIN inflight[table] /\ inflight[table][KeyIn(q, table)'] = q
  BY <1>2, <1>4 DEF RenderInv, FlightsRight
<1>9. \A q \in Request : requests'[q].pc \in {"m_start", "m_compute"} /\ requests'[q].epoch = epoch'
        => Kept(q, "mask")'
  BY <1>2, <1>5 DEF Tables
<1> QED BY <1>7, <1>8, <1>9 DEF FlightsRight

\* A request that goes on keeps the invariant when the tables it changes are right ...
LEMMA TableStep ==
  ASSUME RenderInv, NEW r \in Request, NEW y, Goes(r, y), Fits(r, y), KeepsFlights(r, y),
         TablesNow', TableTypes', UNCHANGED <<session, inflight>>
  PROVE  RenderInv'
<1>1. UNCHANGED <<epoch, source, context>>
  BY DEF session
<1>2. Local' /\ Fresh' /\ RequestTypes'
  BY <1>1, RequestStep
<1>3. FlightsRight'
  BY <1>1, FlightsStay
<1>4. Types'
  BY <1>2 DEF session, RenderInv, Types, SessionTypes, FlightTypes
<1> QED BY <1>2, <1>3, <1>4 DEF RenderInv

\* ... or when it changes none.
LEMMA QuietStep ==
  ASSUME RenderInv, NEW r \in Request, NEW y, Goes(r, y), Fits(r, y), KeepsFlights(r, y),
         UNCHANGED <<session, results, inflight>>
  PROVE  RenderInv'
<1>1. TablesNow'
  BY DEF session, results, RenderInv, TablesNow
<1>2. TableTypes'
  BY DEF results, RenderInv, Types, TableTypes
<1> QED BY <1>1, <1>2, TableStep

\* What is known of a request that has begun.
LEMMA Here ==
  ASSUME RenderInv, NEW r \in Request, requests[r].pc # "new"
  PROVE  /\ requests[r] \in RequestType /\ r \in DOMAIN left.jobs /\ left.jobs[r] \in Job
         /\ Where(requests[r], left.jobs[r]) /\ Sourced(requests[r], left.jobs[r])
         /\ When(requests[r], left.jobs[r], epoch)
         /\ Holds(requests[r], left.jobs[r], epoch, source, context)
         /\ epoch \in Nat /\ source \in Nat \ {0} /\ context \in Context
BY JobsTyped DEF RenderInv, Types, SessionTypes, RequestTypes, Local, Request_OK

\* An exception leads to the flights that are still to be given back.
LEMMA RaiseFits ==
  ASSUME RenderInv, NEW r \in Request, requests[r].pc \notin {"new", "done", "s_epoch", "s_release"},
         NEW why \in {"stale", "error"}
  PROVE  Fits(r, Raised(r, why)) /\ KeepsFlights(r, Raised(r, why))
<1> DEFINE x == requests[r]
          job == left.jobs[r]
          y == Raised(r, why)
<1>1. /\ x \in RequestType /\ Where(x, job) /\ Sourced(x, job) /\ When(x, job, epoch)
      /\ Holds(x, job, epoch, source, context)
  BY Here
<1>2. x.pc \notin {"new", "done", "s_epoch", "s_release"}
  OBVIOUS
<1>3. y = [x EXCEPT !.fails = why, !.pc = Unwind(x.owns)]
  BY DEF Raised
<1>4. KeepsFlights(r, y)
  BY <1>1, <1>3 DEF KeepsFlights, Unwind, RequestType, Leaked, Kept
<1> HIDE DEF x, job, y
<1>5. y \in RequestType /\ y.pc # "new"
  <2>1. Unwind(x.owns) \in {"m_release", "f_release", "s_release", "done"}
    BY DEF Unwind
  <2>2. Unwind(x.owns) \in Pcs /\ Unwind(x.owns) # "new"
    BY <2>1 DEF Pcs
  <2> QED BY <1>1, <1>3, <2>2 DEF RequestType
<1>6. Where(y, job)
  BY <1>1, <1>2, <1>3 DEF RequestType, Tables, Where, Unwind, FrameOwners, MaskOwners, NoScope, InMask
<1>7. Sourced(y, job)
  BY <1>1, <1>2, <1>3 DEF RequestType, Where, Sourced, Unwind, FrameOwners, MaskOwners, NoScope, InMask, Pictured
<1>8. When(y, job, epoch)
  BY <1>1, <1>2, <1>3 DEF RequestType, Where, When, Unwind, FrameOwners, MaskOwners, NoScope, EpochRead
<1>9. Holds(y, job, epoch, source, context)
  BY <1>1, <1>2, <1>3 DEF RequestType, Holds, Unwind, Pictured
<1> QED BY <1>4, <1>5, <1>6, <1>7, <1>8, <1>9 DEF Fits, Request_OK, x, job, y

-----------------------------------------------------------------------------
(* The steps that touch neither the tables nor the flights.                   *)

\* Reading the epoch of a scope.
LEMMA ReadScopeEpochStep ==
  ASSUME RenderInv, NEW r \in Request, ReadScopeEpoch(r)
  PROVE  RenderInv'
<1> DEFINE x == requests[r]
          job == left.jobs[r]
          y == [x EXCEPT !.outerEpoch = epoch, !.pc = "s_sign"]
<1>1. x.pc = "s_epoch" /\ requests' = [requests EXCEPT ![r] = y] /\ left' = left
      /\ UNCHANGED <<session, results, inflight>>
  BY DEF ReadScopeEpoch, Update, Go, Kind
<1>2. /\ x \in RequestType /\ job \in Job /\ Where(x, job) /\ Sourced(x, job) /\ When(x, job, epoch)
      /\ Holds(x, job, epoch, source, context)
      /\ epoch \in Nat /\ source \in Nat \ {0} /\ context \in Context
  BY <1>1, Here
<1>3. KeepsFlights(r, y)
  BY <1>1, <1>2 DEF RequestType, Tables, KeepsFlights, Leaked, Where, FrameOwners, MaskOwners, InMask, NoScope
<1>4. Fits(r, y)
  <2> HIDE DEF x, job
  <2>1. x.pc = "s_epoch"
    BY <1>1 DEF x, job
  <2>2. y \in RequestType /\ y.pc # "new"
    BY <2>1, <1>2 DEF RequestType, Pcs
  <2>3. Request_OK(y, job, epoch, source, context)
    BY <2>1, <1>2 DEF RequestType, Request_OK, Where, Sourced, When, Holds, FrameOwners, MaskOwners, NoScope, InMask, EpochRead, Pictured
  <2> QED BY <2>2, <2>3 DEF Fits, job
<1> QED BY <1>1, <1>3, <1>4, QuietStep DEF Goes, SameJobs

\* Signing a scope.
LEMMA SignScopeStep ==
  ASSUME RenderInv, NEW r \in Request, SignScope(r)
  PROVE  RenderInv'
<1> DEFINE x == requests[r]
          job == left.jobs[r]
          y == [x EXCEPT !.outerContext = context, !.pc = "s_acquire"]
<1>1. x.pc = "s_sign" /\ requests' = [requests EXCEPT ![r] = y] /\ left' = left
      /\ UNCHANGED <<session, results, inflight>>
  BY DEF SignScope, Update, Go, Kind
<1>2. /\ x \in RequestType /\ job \in Job /\ Where(x, job) /\ Sourced(x, job) /\ When(x, job, epoch)
      /\ Holds(x, job, epoch, source, context)
      /\ epoch \in Nat /\ source \in Nat \ {0} /\ context \in Context
  BY <1>1, Here
<1>3. KeepsFlights(r, y)
  BY <1>1, <1>2 DEF RequestType, Tables, KeepsFlights, Leaked, Where, FrameOwners, MaskOwners, InMask, NoScope
<1>4. Fits(r, y)
  <2> HIDE DEF x, job
  <2>1. x.pc = "s_sign"
    BY <1>1 DEF x, job
  <2>2. y \in RequestType /\ y.pc # "new"
    BY <2>1, <1>2 DEF RequestType, Pcs
  <2>3. Request_OK(y, job, epoch, source, context)
    BY <2>1, <1>2 DEF RequestType, Request_OK, Where, Sourced, When, Holds, FrameOwners, MaskOwners, NoScope, InMask, EpochRead, Pictured
  <2> QED BY <2>2, <2>3 DEF Fits, job
<1> QED BY <1>1, <1>3, <1>4, QuietStep DEF Goes, SameJobs

\* Reading the epoch of a frame.
LEMMA ReadEpochStep ==
  ASSUME RenderInv, NEW r \in Request, ReadEpoch(r)
  PROVE  RenderInv'
<1> DEFINE x == requests[r]
          job == left.jobs[r]
          y == [x EXCEPT !.epoch = epoch, !.pc = "f_sign"]
<1>1. x.pc = "f_epoch" /\ requests' = [requests EXCEPT ![r] = y] /\ left' = left
      /\ UNCHANGED <<session, results, inflight>>
  BY DEF ReadEpoch, Update, Go, Kind
<1>2. /\ x \in RequestType /\ job \in Job /\ Where(x, job) /\ Sourced(x, job) /\ When(x, job, epoch)
      /\ Holds(x, job, epoch, source, context)
      /\ epoch \in Nat /\ source \in Nat \ {0} /\ context \in Context
  BY <1>1, Here
<1>3. KeepsFlights(r, y)
  BY <1>1, <1>2 DEF RequestType, Tables, KeepsFlights, Leaked, Where, FrameOwners, MaskOwners, InMask
<1>4. Fits(r, y)
  <2> HIDE DEF x, job
  <2>1. x.pc = "f_epoch"
    BY <1>1 DEF x, job
  <2>2. y \in RequestType /\ y.pc # "new"
    BY <2>1, <1>2 DEF RequestType, Pcs
  <2>3. Request_OK(y, job, epoch, source, context)
    BY <2>1, <1>2 DEF RequestType, Request_OK, Where, Sourced, When, Holds, FrameOwners, MaskOwners, NoScope, InMask, EpochRead, Pictured
  <2> QED BY <2>2, <2>3 DEF Fits, job
<1> QED BY <1>1, <1>3, <1>4, QuietStep DEF Goes, SameJobs

\* Signing a frame.
LEMMA SignStep ==
  ASSUME RenderInv, NEW r \in Request, Sign(r)
  PROVE  RenderInv'
<1> DEFINE x == requests[r]
          job == left.jobs[r]
          y == [x EXCEPT !.context = context, !.pc = IF job.kind = "strips" THEN "t_proxies" ELSE "f_acquire"]
<1>1. x.pc = "f_sign" /\ requests' = [requests EXCEPT ![r] = y] /\ left' = left
      /\ UNCHANGED <<session, results, inflight>>
  BY DEF Sign, Update, Go, Kind
<1>2. /\ x \in RequestType /\ job \in Job /\ Where(x, job) /\ Sourced(x, job) /\ When(x, job, epoch)
      /\ Holds(x, job, epoch, source, context)
      /\ epoch \in Nat /\ source \in Nat \ {0} /\ context \in Context
  BY <1>1, Here
<1>3. KeepsFlights(r, y)
  BY <1>1, <1>2 DEF RequestType, Tables, KeepsFlights, Leaked, Where, FrameOwners, MaskOwners, InMask
<1>4. Fits(r, y)
  <2> HIDE DEF x, job
  <2>1. x.pc = "f_sign"
    BY <1>1 DEF x, job
  <2>2. y \in RequestType /\ y.pc # "new"
    BY <2>1, <1>2 DEF RequestType, Pcs
  <2>3. Request_OK(y, job, epoch, source, context)
    BY <2>1, <1>2 DEF RequestType, Request_OK, Where, Sourced, When, Holds, FrameOwners, MaskOwners, NoScope, InMask, EpochRead, Pictured
  <2> QED BY <2>2, <2>3 DEF Fits, job
<1> QED BY <1>1, <1>3, <1>4, QuietStep DEF Goes, SameJobs

\* Taking the source.
LEMMA ProxiesStep ==
  ASSUME RenderInv, NEW r \in Request, Proxies(r)
  PROVE  RenderInv'
<1> DEFINE x == requests[r]
          job == left.jobs[r]
          y == [x EXCEPT !.src = source, !.pc = IF job.kind = "strips" THEN "f_acquire"
                                          ELSE IF JobMasked(job) THEN "m_acquire" ELSE "f_apply"]
<1>1. x.pc \in {"f_proxies", "t_proxies"} /\ (job.kind = "strips" => ~JobMasked(job)) /\ requests' = [requests EXCEPT ![r] = y] /\ left' = left
      /\ UNCHANGED <<session, results, inflight>>
  BY DEF Proxies, Update, Go, Kind, Masked, JobMasked, GradeOf
<1>2. /\ x \in RequestType /\ job \in Job /\ Where(x, job) /\ Sourced(x, job) /\ When(x, job, epoch)
      /\ Holds(x, job, epoch, source, context)
      /\ epoch \in Nat /\ source \in Nat \ {0} /\ context \in Context
  BY <1>1, Here
<1>3. KeepsFlights(r, y)
  BY <1>1, <1>2 DEF RequestType, Tables, KeepsFlights, Leaked, Where, FrameOwners, MaskOwners, InMask
<1>4. Fits(r, y)
  <2> HIDE DEF x, job
  <2>1. x.pc \in {"f_proxies", "t_proxies"} /\ (job.kind = "strips" => ~JobMasked(job))
    BY <1>1 DEF x, job
  <2>2. y \in RequestType /\ y.pc # "new"
    BY <2>1, <1>2 DEF RequestType, Pcs, Job
  <2>3. Request_OK(y, job, epoch, source, context)
    BY <2>1, <1>2 DEF RequestType, Request_OK, Where, Sourced, When, Holds, FrameOwners, MaskOwners, NoScope, InMask, EpochRead, Pictured, Job
  <2> QED BY <2>2, <2>3 DEF Fits, job
<1> QED BY <1>1, <1>3, <1>4, QuietStep DEF Goes, SameJobs

\* A cached frame.
LEMMA FrameCachedStep ==
  ASSUME RenderInv, NEW r \in Request, FrameCached(r)
  PROVE  RenderInv'
<1> DEFINE x == requests[r]
          job == left.jobs[r]
          y == [x EXCEPT !.picture = frames[FrameKey(r)],
                         !.pc = CASE job.kind = "strips" -> "t_peak"
                                  [] job.kind = "scope" -> "s_check"
                                  [] OTHER -> "answer"]
<1>1. x.pc = "f_acquire" /\ requests' = [requests EXCEPT ![r] = y] /\ left' = left
      /\ UNCHANGED <<session, results, inflight>>
  BY DEF FrameCached, Update, Go, Kind
<1>2. /\ x \in RequestType /\ job \in Job /\ Where(x, job) /\ Sourced(x, job) /\ When(x, job, epoch)
      /\ Holds(x, job, epoch, source, context)
      /\ epoch \in Nat /\ source \in Nat \ {0} /\ context \in Context
  BY <1>1, Here
<1>3. frames[FrameKey(r)] \in Pictures /\ (x.epoch = epoch => frames[FrameKey(r)] = Now(source, context, job.grade))
  BY DEF FrameCached, FrameKey, GradeOf, RenderInv, Types, TableTypes, TablesNow
<1>4. KeepsFlights(r, y)
  BY <1>1, <1>2, <1>3 DEF RequestType, Tables, KeepsFlights, Leaked, Where, FrameOwners, MaskOwners, InMask
<1>5. Fits(r, y)
  <2> HIDE DEF x, job
  <2>1. x.pc = "f_acquire"
    BY <1>1 DEF x, job
  <2>2. y \in RequestType /\ y.pc # "new"
    BY <2>1, <1>2, <1>3 DEF RequestType, Pcs
  <2>3. Request_OK(y, job, epoch, source, context)
    BY <2>1, <1>2, <1>3 DEF RequestType, Request_OK, Where, Sourced, When, Holds, FrameOwners, MaskOwners, NoScope, InMask, EpochRead, Pictured
  <2> QED BY <2>2, <2>3 DEF Fits, job
<1> QED BY <1>1, <1>4, <1>5, QuietStep DEF Goes, SameJobs

\* A cached mask.
LEMMA MaskCachedStep ==
  ASSUME RenderInv, NEW r \in Request, MaskCached(r)
  PROVE  RenderInv'
<1> DEFINE x == requests[r]
          job == left.jobs[r]
          y == [x EXCEPT !.mask = masks[MaskKey(r)], !.waiting = FALSE,
                         !.pc = IF job.kind = "mask" THEN "answer" ELSE "f_apply"]
<1>1. x.pc = "m_acquire" /\ requests' = [requests EXCEPT ![r] = y] /\ left' = left
      /\ UNCHANGED <<session, results, inflight>>
  BY DEF MaskCached, Update, Go, Kind, AfterMask
<1>2. /\ x \in RequestType /\ job \in Job /\ Where(x, job) /\ Sourced(x, job) /\ When(x, job, epoch)
      /\ Holds(x, job, epoch, source, context)
      /\ epoch \in Nat /\ source \in Nat \ {0} /\ context \in Context
  BY <1>1, Here
<1>3. masks[MaskKey(r)] = source
  BY DEF MaskCached, RenderInv, TablesNow
<1>4. KeepsFlights(r, y)
  BY <1>1, <1>2, <1>3 DEF RequestType, Tables, KeepsFlights, Leaked, Where, FrameOwners, MaskOwners, InMask
<1>5. Fits(r, y)
  <2> HIDE DEF x, job
  <2>1. x.pc = "m_acquire"
    BY <1>1 DEF x, job
  <2>2. y \in RequestType /\ y.pc # "new"
    BY <2>1, <1>2, <1>3 DEF RequestType, Pcs
  <2>3. Request_OK(y, job, epoch, source, context)
    BY <2>1, <1>2, <1>3 DEF RequestType, Request_OK, Where, Sourced, When, Holds, FrameOwners, MaskOwners, NoScope, InMask, EpochRead, Pictured
  <2> QED BY <2>2, <2>3 DEF Fits, job
<1> QED BY <1>1, <1>4, <1>5, QuietStep DEF Goes, SameJobs

\* A compile of its own.
LEMMA MaskAloneStep ==
  ASSUME RenderInv, NEW r \in Request, MaskAlone(r)
  PROVE  RenderInv'
<1> DEFINE x == requests[r]
          job == left.jobs[r]
          y == [x EXCEPT !.waiting = FALSE, !.pc = "m_start"]
<1>1. x.pc = "m_acquire" /\ x.epoch # epoch /\ requests' = [requests EXCEPT ![r] = y] /\ left' = left
      /\ UNCHANGED <<session, results, inflight>>
  BY DEF MaskAlone, Update, Go, Kind
<1>2. /\ x \in RequestType /\ job \in Job /\ Where(x, job) /\ Sourced(x, job) /\ When(x, job, epoch)
      /\ Holds(x, job, epoch, source, context)
      /\ epoch \in Nat /\ source \in Nat \ {0} /\ context \in Context
  BY <1>1, Here
<1>3. KeepsFlights(r, y)
  BY <1>1, <1>2 DEF RequestType, Tables, KeepsFlights, Leaked, Where, FrameOwners, MaskOwners, InMask
<1>4. Fits(r, y)
  <2> HIDE DEF x, job
  <2>1. x.pc = "m_acquire" /\ x.epoch # epoch
    BY <1>1 DEF x, job
  <2>2. y \in RequestType /\ y.pc # "new"
    BY <2>1, <1>2 DEF RequestType, Pcs
  <2>3. Request_OK(y, job, epoch, source, context)
    BY <2>1, <1>2 DEF RequestType, Request_OK, Where, Sourced, When, Holds, FrameOwners, MaskOwners, NoScope, InMask, EpochRead, Pictured
  <2> QED BY <2>2, <2>3 DEF Fits, job
<1> QED BY <1>1, <1>3, <1>4, QuietStep DEF Goes, SameJobs

\* Waiting for a mask.
LEMMA MaskWaitStep ==
  ASSUME RenderInv, NEW r \in Request, MaskWait(r)
  PROVE  RenderInv'
<1> DEFINE x == requests[r]
          job == left.jobs[r]
          y == [x EXCEPT !.waiting = TRUE]
<1>1. x.pc = "m_acquire" /\ requests' = [requests EXCEPT ![r] = y] /\ left' = left
      /\ UNCHANGED <<session, results, inflight>>
  BY DEF MaskWait, Update, Go, Kind
<1>2. /\ x \in RequestType /\ job \in Job /\ Where(x, job) /\ Sourced(x, job) /\ When(x, job, epoch)
      /\ Holds(x, job, epoch, source, context)
      /\ epoch \in Nat /\ source \in Nat \ {0} /\ context \in Context
  BY <1>1, Here
<1>3. KeepsFlights(r, y)
  BY <1>1, <1>2 DEF RequestType, Tables, KeepsFlights, Leaked, Where, FrameOwners, MaskOwners, InMask
<1>4. Fits(r, y)
  <2> HIDE DEF x, job
  <2>1. x.pc = "m_acquire"
    BY <1>1 DEF x, job
  <2>2. y \in RequestType /\ y.pc # "new"
    BY <2>1, <1>2 DEF RequestType, Pcs
  <2>3. Request_OK(y, job, epoch, source, context)
    BY <2>1, <1>2 DEF RequestType, Request_OK, Where, Sourced, When, Holds, FrameOwners, MaskOwners, NoScope, InMask, EpochRead, Pictured
  <2> QED BY <2>2, <2>3 DEF Fits, job
<1> QED BY <1>1, <1>3, <1>4, QuietStep DEF Goes, SameJobs

\* Making the picture.
LEMMA RenderStep ==
  ASSUME RenderInv, NEW r \in Request, Render(r)
  PROVE  RenderInv'
<1> DEFINE x == requests[r]
          job == left.jobs[r]
          y == [x EXCEPT !.picture = Made(r), !.pc = "f_check"]
<1>1. x.pc = "f_apply" /\ requests' = [requests EXCEPT ![r] = y] /\ left' = left
      /\ UNCHANGED <<session, results, inflight>>
  BY DEF Render, Update, Go, Kind
<1>2. /\ x \in RequestType /\ job \in Job /\ Where(x, job) /\ Sourced(x, job) /\ When(x, job, epoch)
      /\ Holds(x, job, epoch, source, context)
      /\ epoch \in Nat /\ source \in Nat \ {0} /\ context \in Context
  BY <1>1, Here
<1>3. Made(r) = [source |-> x.src, context |-> context, grade |-> job.grade, mask |-> x.mask]
  BY DEF Made, GradeOf
<1>4. Made(r) \in Pictures
  BY <1>2, <1>3 DEF RequestType, Job, Pictures
<1>5. KeepsFlights(r, y)
  BY <1>1, <1>2, <1>3, <1>4 DEF RequestType, Tables, KeepsFlights, Leaked, Where, FrameOwners, MaskOwners, InMask
<1>6. Fits(r, y)
  <2> HIDE DEF x, job
  <2>1. x.pc = "f_apply"
    BY <1>1 DEF x, job
  <2>2. y \in RequestType /\ y.pc # "new"
    BY <2>1, <1>2, <1>3, <1>4 DEF RequestType, Pcs, Job, Pictures, Now, JobMasked
  <2>3. Request_OK(y, job, epoch, source, context)
    BY <2>1, <1>2, <1>3, <1>4 DEF RequestType, Request_OK, Where, Sourced, When, Holds, FrameOwners, MaskOwners, NoScope, InMask, EpochRead, Pictured, Job, Pictures, Now, JobMasked
  <2> QED BY <2>2, <2>3 DEF Fits, job
<1> QED BY <1>1, <1>5, <1>6, QuietStep DEF Goes, SameJobs

\* Looking for the peak of a cached frame.
LEMMA CachedPeakStep ==
  ASSUME RenderInv, NEW r \in Request, CachedPeak(r)
  PROVE  RenderInv'
<1> DEFINE x == requests[r]
          job == left.jobs[r]
          y == [x EXCEPT !.pc = IF FrameKey(r) \in DOMAIN peaks THEN "answer" ELSE "t_measure"]
<1>1. x.pc = "t_peak" /\ requests' = [requests EXCEPT ![r] = y] /\ left' = left
      /\ UNCHANGED <<session, results, inflight>>
  BY DEF CachedPeak, Update, Go, Kind
<1>2. /\ x \in RequestType /\ job \in Job /\ Where(x, job) /\ Sourced(x, job) /\ When(x, job, epoch)
      /\ Holds(x, job, epoch, source, context)
      /\ epoch \in Nat /\ source \in Nat \ {0} /\ context \in Context
  BY <1>1, Here
<1>3. KeepsFlights(r, y)
  BY <1>1, <1>2 DEF RequestType, Tables, KeepsFlights, Leaked, Where, FrameOwners, MaskOwners, InMask
<1>4. Fits(r, y)
  <2> HIDE DEF x, job
  <2>1. x.pc = "t_peak"
    BY <1>1 DEF x, job
  <2>2. y \in RequestType /\ y.pc # "new"
    BY <2>1, <1>2 DEF RequestType, Pcs
  <2>3. Request_OK(y, job, epoch, source, context)
    BY <2>1, <1>2 DEF RequestType, Request_OK, Where, Sourced, When, Holds, FrameOwners, MaskOwners, NoScope, InMask, EpochRead, Pictured
  <2> QED BY <2>2, <2>3 DEF Fits, job
<1> QED BY <1>1, <1>3, <1>4, QuietStep DEF Goes, SameJobs

\* The answer of a preview or a scope.
LEMMA AnswerStep ==
  ASSUME RenderInv, NEW r \in Request, Answer(r)
  PROVE  RenderInv'
<1> DEFINE x == requests[r]
          job == left.jobs[r]
          y == [x EXCEPT !.pc = "done", !.fails = IF Current(r) THEN @ ELSE "stale"]
<1>1. x.pc = "answer" /\ job.kind # "mask" /\ requests' = [requests EXCEPT ![r] = y] /\ left' = left
      /\ UNCHANGED <<session, results, inflight>>
  BY DEF Answer, Update, Go, Kind
<1>2. /\ x \in RequestType /\ job \in Job /\ Where(x, job) /\ Sourced(x, job) /\ When(x, job, epoch)
      /\ Holds(x, job, epoch, source, context)
      /\ epoch \in Nat /\ source \in Nat \ {0} /\ context \in Context
  BY <1>1, Here
<1>3. KeepsFlights(r, y)
  BY <1>1, <1>2 DEF RequestType, Tables, KeepsFlights, Leaked, Where, FrameOwners, MaskOwners, InMask
<1>4. Fits(r, y)
  <2> HIDE DEF x, job
  <2>1. x.pc = "answer" /\ job.kind # "mask"
    BY <1>1 DEF x, job
  <2>2. y \in RequestType /\ y.pc # "new"
    BY <2>1, <1>2 DEF RequestType, Pcs
  <2>3. Request_OK(y, job, epoch, source, context)
    BY <2>1, <1>2 DEF RequestType, Request_OK, Where, Sourced, When, Holds, FrameOwners, MaskOwners, NoScope, InMask, EpochRead, Pictured
  <2> QED BY <2>2, <2>3 DEF Fits, job
<1> QED BY <1>1, <1>3, <1>4, QuietStep DEF Goes, SameJobs

\* The answer of a mask request.
LEMMA AnswerMaskStep ==
  ASSUME RenderInv, NEW r \in Request, AnswerMask(r)
  PROVE  RenderInv'
<1> DEFINE x == requests[r]
          job == left.jobs[r]
          y == [x EXCEPT !.pc = "done", !.fails = IF Obsolete(r) \/ Abandoned(r, FALSE) THEN "stale" ELSE @]
<1>1. x.pc = "answer" /\ job.kind = "mask" /\ requests' = [requests EXCEPT ![r] = y] /\ left' = left
      /\ UNCHANGED <<session, results, inflight>>
  BY DEF AnswerMask, Update, Go, Kind
<1>2. /\ x \in RequestType /\ job \in Job /\ Where(x, job) /\ Sourced(x, job) /\ When(x, job, epoch)
      /\ Holds(x, job, epoch, source, context)
      /\ epoch \in Nat /\ source \in Nat \ {0} /\ context \in Context
  BY <1>1, Here
<1>3. KeepsFlights(r, y)
  BY <1>1, <1>2 DEF RequestType, Tables, KeepsFlights, Leaked, Where, FrameOwners, MaskOwners, InMask
<1>4. Fits(r, y)
  <2> HIDE DEF x, job
  <2>1. x.pc = "answer" /\ job.kind = "mask"
    BY <1>1 DEF x, job
  <2>2. y \in RequestType /\ y.pc # "new"
    BY <2>1, <1>2 DEF RequestType, Pcs
  <2>3. Request_OK(y, job, epoch, source, context)
    BY <2>1, <1>2 DEF RequestType, Request_OK, Where, Sourced, When, Holds, FrameOwners, MaskOwners, NoScope, InMask, EpochRead, Pictured
  <2> QED BY <2>2, <2>3 DEF Fits, job
<1> QED BY <1>1, <1>3, <1>4, QuietStep DEF Goes, SameJobs

\* The bounded path refuses.
LEMMA StripsRefusedStep ==
  ASSUME RenderInv, NEW r \in Request, StripsRefused(r)
  PROVE  RenderInv'
<1>1. /\ requests[r].pc \in {"t_proxies"} /\ left' = left
      /\ requests' = [requests EXCEPT ![r] = Raised(r, "error")] /\ UNCHANGED <<session, results, inflight>>
  BY DEF StripsRefused, Raise, Update, Raised
<1> QED BY <1>1, RaiseFits, QuietStep DEF Goes, SameJobs

\* A stale request for a frame.
LEMMA FrameStaleStep ==
  ASSUME RenderInv, NEW r \in Request, FrameStale(r)
  PROVE  RenderInv'
<1>1. /\ requests[r].pc \in {"f_acquire"} /\ left' = left
      /\ requests' = [requests EXCEPT ![r] = Raised(r, "stale")] /\ UNCHANGED <<session, results, inflight>>
  BY DEF FrameStale, Raise, Update, Raised
<1> QED BY <1>1, RaiseFits, QuietStep DEF Goes, SameJobs

\* A picture that cannot be made.
LEMMA RenderFailsStep ==
  ASSUME RenderInv, NEW r \in Request, RenderFails(r)
  PROVE  RenderInv'
<1>1. /\ requests[r].pc \in {"f_apply", "t_render", "m_compute", "s_build"}
      /\ requests' = [requests EXCEPT ![r] = Raised(r, "error")] /\ UNCHANGED <<session, results, inflight>>
  BY DEF RenderFails, Raise, Update, Raised
<1>2. left' \in Budget /\ left'.jobs = left.jobs
  BY SpendKeepsJobs DEF RenderInv, Types, RequestTypes, RenderFails
<1> QED BY <1>1, <1>2, RaiseFits, QuietStep DEF Goes, SameJobs

\* A mask request reads the epoch and the source.
LEMMA BeginMaskStep ==
  ASSUME RenderInv, NEW r \in Request, BeginMask(r)
  PROVE  RenderInv'
<1> DEFINE x == requests[r]
          job == left.jobs[r]
<1>1. PICK y : /\ x.pc = "m_begin" /\ left' = left /\ UNCHANGED <<session, results, inflight>>
         /\ requests' = [requests EXCEPT ![r] = y]
         /\ \/ y = [x EXCEPT !.epoch = epoch, !.src = source, !.pc = "m_acquire"]
            \/ y = Raised(r, "stale")
  BY DEF BeginMask, Update, Go, Kind, Raise, Raised
<1>2. /\ x \in RequestType /\ job \in Job /\ Where(x, job) /\ Sourced(x, job) /\ When(x, job, epoch)
      /\ Holds(x, job, epoch, source, context)
      /\ epoch \in Nat /\ source \in Nat \ {0} /\ context \in Context
  BY <1>1, Here
<1>3. CASE y = [x EXCEPT !.epoch = epoch, !.src = source, !.pc = "m_acquire"]
  <2>1. KeepsFlights(r, y)
    BY <1>1, <1>2, <1>3 DEF RequestType, Tables, KeepsFlights, Leaked, Where, FrameOwners, MaskOwners, InMask
  <2> HIDE DEF x, job
  <2>2. x.pc = "m_begin"
    BY <1>1 DEF x, job
  <2>3. y \in RequestType /\ y.pc # "new"
    BY <2>2, <1>2, <1>3 DEF RequestType, Pcs
  <2>4. Request_OK(y, job, epoch, source, context)
    BY <2>2, <1>2, <1>3 DEF RequestType, Request_OK, Where, Sourced, When, Holds, FrameOwners, MaskOwners, NoScope, InMask, EpochRead, Pictured
  <2>5. Fits(r, y)
    BY <2>3, <2>4 DEF Fits, job
  <2> QED BY <1>1, <2>1, <2>5, QuietStep DEF Goes, SameJobs, x
<1>4. CASE y = Raised(r, "stale")
  BY <1>1, <1>4, RaiseFits, QuietStep DEF Goes, SameJobs
<1> QED BY <1>1, <1>3, <1>4

\* A mask request gives up.
LEMMA MaskStopsStep ==
  ASSUME RenderInv, NEW r \in Request, MaskStops(r)
  PROVE  RenderInv'
<1> DEFINE x == requests[r]
          job == left.jobs[r]
<1>1. PICK y : /\ x.pc = "m_acquire" /\ job.kind = "mask" /\ left' = left /\ UNCHANGED <<session, results, inflight>>
         /\ requests' = [requests EXCEPT ![r] = y]
         /\ \/ y = [x EXCEPT !.fails = "stale", !.waiting = FALSE, !.pc = "done"]
  <2>1. x.pc = "m_acquire"
    BY DEF MaskStops
  <2>2. "mask" \notin x.owns /\ "frame" \notin x.owns /\ "scope" \notin x.owns
    <3>1. job.kind = "mask"
      BY DEF MaskStops, Obsolete, Abandoned, Kind
    <3> QED BY <2>1, <3>1, Here DEF Where, MaskOwners
  <2>3. Unwind(x.owns) = "done"
    BY <2>2 DEF Unwind
  <2> QED BY <2>3 DEF MaskStops, Update, Kind, Obsolete, Abandoned
<1>2. /\ x \in RequestType /\ job \in Job /\ Where(x, job) /\ Sourced(x, job) /\ When(x, job, epoch)
      /\ Holds(x, job, epoch, source, context)
      /\ epoch \in Nat /\ source \in Nat \ {0} /\ context \in Context
  BY <1>1, Here
<1>3. CASE y = [x EXCEPT !.fails = "stale", !.waiting = FALSE, !.pc = "done"]
  <2>1. KeepsFlights(r, y)
    BY <1>1, <1>2, <1>3 DEF RequestType, Tables, KeepsFlights, Leaked, Where, FrameOwners, MaskOwners, InMask
  <2> HIDE DEF x, job
  <2>2. x.pc = "m_acquire" /\ job.kind = "mask"
    BY <1>1 DEF x, job
  <2>3. y \in RequestType /\ y.pc # "new"
    BY <2>2, <1>2, <1>3 DEF RequestType, Pcs
  <2>4. Request_OK(y, job, epoch, source, context)
    BY <2>2, <1>2, <1>3 DEF RequestType, Request_OK, Where, Sourced, When, Holds, FrameOwners, MaskOwners, NoScope, InMask, EpochRead, Pictured
  <2>5. Fits(r, y)
    BY <2>3, <2>4 DEF Fits, job
  <2> QED BY <1>1, <2>1, <2>5, QuietStep DEF Goes, SameJobs, x
<1> QED BY <1>1, <1>3

\* The look at the request after its picture.
LEMMA CheckFrameStep ==
  ASSUME RenderInv, NEW r \in Request, CheckFrame(r)
  PROVE  RenderInv'
<1> DEFINE x == requests[r]
          job == left.jobs[r]
<1>1. PICK y : /\ x.pc = "f_check" /\ left' = left /\ UNCHANGED <<session, results, inflight>>
         /\ requests' = [requests EXCEPT ![r] = y]
         /\ \/ y = [x EXCEPT !.pc = "f_store"]
            \/ y = Raised(r, "stale")
  BY DEF CheckFrame, Update, Go, Kind, Raise, Raised
<1>2. /\ x \in RequestType /\ job \in Job /\ Where(x, job) /\ Sourced(x, job) /\ When(x, job, epoch)
      /\ Holds(x, job, epoch, source, context)
      /\ epoch \in Nat /\ source \in Nat \ {0} /\ context \in Context
  BY <1>1, Here
<1>3. CASE y = [x EXCEPT !.pc = "f_store"]
  <2>1. KeepsFlights(r, y)
    BY <1>1, <1>2, <1>3 DEF RequestType, Tables, KeepsFlights, Leaked, Where, FrameOwners, MaskOwners, InMask
  <2> HIDE DEF x, job
  <2>2. x.pc = "f_check"
    BY <1>1 DEF x, job
  <2>3. y \in RequestType /\ y.pc # "new"
    BY <2>2, <1>2, <1>3 DEF RequestType, Pcs
  <2>4. Request_OK(y, job, epoch, source, context)
    BY <2>2, <1>2, <1>3 DEF RequestType, Request_OK, Where, Sourced, When, Holds, FrameOwners, MaskOwners, NoScope, InMask, EpochRead, Pictured
  <2>5. Fits(r, y)
    BY <2>3, <2>4 DEF Fits, job
  <2> QED BY <1>1, <2>1, <2>5, QuietStep DEF Goes, SameJobs, x
<1>4. CASE y = Raised(r, "stale")
  BY <1>1, <1>4, RaiseFits, QuietStep DEF Goes, SameJobs
<1> QED BY <1>1, <1>3, <1>4

\* The bounded path makes its picture.
LEMMA RenderStripsStep ==
  ASSUME RenderInv, NEW r \in Request, RenderStrips(r)
  PROVE  RenderInv'
<1> DEFINE x == requests[r]
          job == left.jobs[r]
<1>1. PICK y : /\ x.pc = "t_render" /\ left' = left /\ UNCHANGED <<session, results, inflight>>
         /\ requests' = [requests EXCEPT ![r] = y]
         /\ \/ y = [x EXCEPT !.picture = Made(r), !.pc = "f_store"]
            \/ y = Raised(r, "stale")
  BY DEF RenderStrips, Update, Go, Kind, Raise, Raised
<1>2. /\ x \in RequestType /\ job \in Job /\ Where(x, job) /\ Sourced(x, job) /\ When(x, job, epoch)
      /\ Holds(x, job, epoch, source, context)
      /\ epoch \in Nat /\ source \in Nat \ {0} /\ context \in Context
  BY <1>1, Here
<1>3. Made(r) = [source |-> x.src, context |-> context, grade |-> job.grade, mask |-> x.mask]
  BY DEF Made, GradeOf
<1>4. Made(r) \in Pictures
  BY <1>2, <1>3 DEF RequestType, Job, Pictures
<1>5. CASE y = [x EXCEPT !.picture = Made(r), !.pc = "f_store"]
  <2>1. KeepsFlights(r, y)
    BY <1>1, <1>2, <1>5, <1>3, <1>4 DEF RequestType, Tables, KeepsFlights, Leaked, Where, FrameOwners, MaskOwners, InMask
  <2> HIDE DEF x, job
  <2>2. x.pc = "t_render"
    BY <1>1 DEF x, job
  <2>3. y \in RequestType /\ y.pc # "new"
    BY <2>2, <1>2, <1>5, <1>3, <1>4 DEF RequestType, Pcs, Job, Now, JobMasked
  <2>4. Request_OK(y, job, epoch, source, context)
    BY <2>2, <1>2, <1>5, <1>3, <1>4 DEF RequestType, Request_OK, Where, Sourced, When, Holds, FrameOwners, MaskOwners, NoScope, InMask, EpochRead, Pictured, Job, Now, JobMasked
  <2>5. Fits(r, y)
    BY <2>3, <2>4 DEF Fits, job
  <2> QED BY <1>1, <2>1, <2>5, QuietStep DEF Goes, SameJobs, x
<1>6. CASE y = Raised(r, "stale")
  BY <1>1, <1>6, RaiseFits, QuietStep DEF Goes, SameJobs
<1> QED BY <1>1, <1>5, <1>6

\* A compile starts, or it does not.
LEMMA StartMaskStep ==
  ASSUME RenderInv, NEW r \in Request, StartMask(r)
  PROVE  RenderInv'
<1> DEFINE x == requests[r]
          job == left.jobs[r]
<1>1. PICK y : /\ x.pc = "m_start" /\ left' = left /\ UNCHANGED <<session, results, inflight>>
         /\ requests' = [requests EXCEPT ![r] = y]
         /\ \/ y = [x EXCEPT !.fails = "stale", !.pc = "m_release"]
            \/ (x.epoch = epoch => Kept(r, "mask")) /\ y = [x EXCEPT !.pc = "m_compute"]
  <2>1. x.pc = "m_start" /\ (x.epoch = epoch => Kept(r, "mask"))
    BY DEF StartMask, RenderInv, FlightsRight
  <2> QED BY <2>1 DEF StartMask, Update, Go
<1>2. /\ x \in RequestType /\ job \in Job /\ Where(x, job) /\ Sourced(x, job) /\ When(x, job, epoch)
      /\ Holds(x, job, epoch, source, context)
      /\ epoch \in Nat /\ source \in Nat \ {0} /\ context \in Context
  BY <1>1, Here
<1>3. CASE y = [x EXCEPT !.fails = "stale", !.pc = "m_release"]
  <2>1. KeepsFlights(r, y)
    BY <1>1, <1>2, <1>3 DEF RequestType, Tables, KeepsFlights, Leaked, Where, FrameOwners, MaskOwners, InMask
  <2> HIDE DEF x, job
  <2>2. x.pc = "m_start"
    BY <1>1 DEF x, job
  <2>3. y \in RequestType /\ y.pc # "new"
    BY <2>2, <1>2, <1>3 DEF RequestType, Pcs
  <2>4. Request_OK(y, job, epoch, source, context)
    BY <2>2, <1>2, <1>3 DEF RequestType, Request_OK, Where, Sourced, When, Holds, FrameOwners, MaskOwners, NoScope, InMask, EpochRead, Pictured
  <2>5. Fits(r, y)
    BY <2>3, <2>4 DEF Fits, job
  <2> QED BY <1>1, <2>1, <2>5, QuietStep DEF Goes, SameJobs, x
<1>4. CASE (x.epoch = epoch => Kept(r, "mask")) /\ y = [x EXCEPT !.pc = "m_compute"]
  <2>1. KeepsFlights(r, y)
    BY <1>1, <1>2, <1>4 DEF RequestType, Tables, KeepsFlights, Leaked, Where, FrameOwners, MaskOwners, InMask
  <2> HIDE DEF x, job
  <2>2. x.pc = "m_start"
    BY <1>1 DEF x, job
  <2>3. y \in RequestType /\ y.pc # "new"
    BY <2>2, <1>2, <1>4 DEF RequestType, Pcs
  <2>4. Request_OK(y, job, epoch, source, context)
    BY <2>2, <1>2, <1>4 DEF RequestType, Request_OK, Where, Sourced, When, Holds, FrameOwners, MaskOwners, NoScope, InMask, EpochRead, Pictured
  <2>5. Fits(r, y)
    BY <2>3, <2>4 DEF Fits, job
  <2> QED BY <1>1, <2>1, <2>5, QuietStep DEF Goes, SameJobs, x
<1> QED BY <1>1, <1>3, <1>4

\* A compile ends or stops.
LEMMA CompileStep ==
  ASSUME RenderInv, NEW r \in Request, Compile(r)
  PROVE  RenderInv'
<1> DEFINE x == requests[r]
          job == left.jobs[r]
<1>1. PICK y : /\ x.pc = "m_compute" /\ left' = left /\ UNCHANGED <<session, results, inflight>>
         /\ requests' = [requests EXCEPT ![r] = y]
         /\ \/ y = [x EXCEPT !.mask = x.src, !.pc = "m_release", !.fails = "stale"]
            \/ y = [x EXCEPT !.mask = x.src, !.pc = "m_store", !.fails = x.fails]
            \/ y = [x EXCEPT !.fails = "stale", !.pc = "m_release"]
  BY DEF Compile, Update, Go, Kind, Raise, Raised
<1>2. /\ x \in RequestType /\ job \in Job /\ Where(x, job) /\ Sourced(x, job) /\ When(x, job, epoch)
      /\ Holds(x, job, epoch, source, context)
      /\ epoch \in Nat /\ source \in Nat \ {0} /\ context \in Context
  BY <1>1, Here
<1>3. CASE y = [x EXCEPT !.mask = x.src, !.pc = "m_release", !.fails = "stale"]
  <2>1. KeepsFlights(r, y)
    BY <1>1, <1>2, <1>3 DEF RequestType, Tables, KeepsFlights, Leaked, Where, FrameOwners, MaskOwners, InMask
  <2> HIDE DEF x, job
  <2>2. x.pc = "m_compute"
    BY <1>1 DEF x, job
  <2>3. y \in RequestType /\ y.pc # "new"
    BY <2>2, <1>2, <1>3 DEF RequestType, Pcs
  <2>4. Request_OK(y, job, epoch, source, context)
    BY <2>2, <1>2, <1>3 DEF RequestType, Request_OK, Where, Sourced, When, Holds, FrameOwners, MaskOwners, NoScope, InMask, EpochRead, Pictured
  <2>5. Fits(r, y)
    BY <2>3, <2>4 DEF Fits, job
  <2> QED BY <1>1, <2>1, <2>5, QuietStep DEF Goes, SameJobs, x
<1>4. CASE y = [x EXCEPT !.mask = x.src, !.pc = "m_store", !.fails = x.fails]
  <2>1. KeepsFlights(r, y)
    BY <1>1, <1>2, <1>4 DEF RequestType, Tables, KeepsFlights, Leaked, Where, FrameOwners, MaskOwners, InMask
  <2> HIDE DEF x, job
  <2>2. x.pc = "m_compute"
    BY <1>1 DEF x, job
  <2>3. y \in RequestType /\ y.pc # "new"
    BY <2>2, <1>2, <1>4 DEF RequestType, Pcs
  <2>4. Request_OK(y, job, epoch, source, context)
    BY <2>2, <1>2, <1>4 DEF RequestType, Request_OK, Where, Sourced, When, Holds, FrameOwners, MaskOwners, NoScope, InMask, EpochRead, Pictured
  <2>5. Fits(r, y)
    BY <2>3, <2>4 DEF Fits, job
  <2> QED BY <1>1, <2>1, <2>5, QuietStep DEF Goes, SameJobs, x
<1>5. CASE y = [x EXCEPT !.fails = "stale", !.pc = "m_release"]
  <2>1. KeepsFlights(r, y)
    BY <1>1, <1>2, <1>5 DEF RequestType, Tables, KeepsFlights, Leaked, Where, FrameOwners, MaskOwners, InMask
  <2> HIDE DEF x, job
  <2>2. x.pc = "m_compute"
    BY <1>1 DEF x, job
  <2>3. y \in RequestType /\ y.pc # "new"
    BY <2>2, <1>2, <1>5 DEF RequestType, Pcs
  <2>4. Request_OK(y, job, epoch, source, context)
    BY <2>2, <1>2, <1>5 DEF RequestType, Request_OK, Where, Sourced, When, Holds, FrameOwners, MaskOwners, NoScope, InMask, EpochRead, Pictured
  <2>5. Fits(r, y)
    BY <2>3, <2>4 DEF Fits, job
  <2> QED BY <1>1, <2>1, <2>5, QuietStep DEF Goes, SameJobs, x
<1> QED BY <1>1, <1>3, <1>4, <1>5

\* The looks at the request around its scope.
LEMMA CheckScopeStep ==
  ASSUME RenderInv, NEW r \in Request, CheckScope(r)
  PROVE  RenderInv'
<1> DEFINE x == requests[r]
          job == left.jobs[r]
<1>1. PICK y : /\ x.pc \in {"s_check", "s_build"} /\ left' = left /\ UNCHANGED <<session, results, inflight>>
         /\ requests' = [requests EXCEPT ![r] = y]
         /\ \/ y = [x EXCEPT !.pc = IF x.pc = "s_check" THEN "s_build" ELSE "s_store"]
            \/ y = Raised(r, "stale")
  BY DEF CheckScope, Update, Go, Kind, Raise, Raised
<1>2. /\ x \in RequestType /\ job \in Job /\ Where(x, job) /\ Sourced(x, job) /\ When(x, job, epoch)
      /\ Holds(x, job, epoch, source, context)
      /\ epoch \in Nat /\ source \in Nat \ {0} /\ context \in Context
  BY <1>1, Here
<1>3. CASE y = [x EXCEPT !.pc = IF x.pc = "s_check" THEN "s_build" ELSE "s_store"]
  <2>1. KeepsFlights(r, y)
    BY <1>1, <1>2, <1>3 DEF RequestType, Tables, KeepsFlights, Leaked, Where, FrameOwners, MaskOwners, InMask
  <2> HIDE DEF x, job
  <2>2. x.pc \in {"s_check", "s_build"}
    BY <1>1 DEF x, job
  <2>3. y \in RequestType /\ y.pc # "new"
    BY <2>2, <1>2, <1>3 DEF RequestType, Pcs
  <2>4. Request_OK(y, job, epoch, source, context)
    BY <2>2, <1>2, <1>3 DEF RequestType, Request_OK, Where, Sourced, When, Holds, FrameOwners, MaskOwners, NoScope, InMask, EpochRead, Pictured
  <2>5. Fits(r, y)
    BY <2>3, <2>4 DEF Fits, job
  <2> QED BY <1>1, <2>1, <2>5, QuietStep DEF Goes, SameJobs, x
<1>4. CASE y = Raised(r, "stale")
  BY <1>1, <1>4, RaiseFits, QuietStep DEF Goes, SameJobs
<1> QED BY <1>1, <1>3, <1>4

\* A mask is edited away, a page goes, an instrument is cancelled.
LEMMA LeaveStep ==
  ASSUME RenderInv, NEW r \in Request, Leave(r)
  PROVE  RenderInv'
<1> DEFINE x == requests[r]
          job == left.jobs[r]
<1>1. PICK y : /\ x.pc \notin {"new", "done"} /\ SameJobs /\ UNCHANGED <<session, results, inflight>>
         /\ requests' = [requests EXCEPT ![r] = y]
         /\ \/ y = [x EXCEPT !.obsolete = TRUE]
            \/ y = [x EXCEPT !.gone = TRUE]
            \/ y = [x EXCEPT !.wanted = FALSE]
  <2>1. SameJobs
    BY SpendKeepsJobs DEF RenderInv, Types, RequestTypes, SameJobs, Leave
  <2> QED BY <2>1 DEF Leave, Update
<1>2. /\ x \in RequestType /\ job \in Job /\ Where(x, job) /\ Sourced(x, job) /\ When(x, job, epoch)
      /\ Holds(x, job, epoch, source, context)
      /\ epoch \in Nat /\ source \in Nat \ {0} /\ context \in Context
  BY <1>1, Here
<1>3. CASE y = [x EXCEPT !.obsolete = TRUE]
  <2>1. KeepsFlights(r, y)
    BY <1>1, <1>2, <1>3 DEF RenderInv, FlightsRight, NoSource, RequestType, Tables, KeepsFlights, Leaked, Where, FrameOwners, MaskOwners, InMask
  <2> HIDE DEF x, job
  <2>2. x.pc \notin {"new", "done"}
    BY <1>1 DEF x, job
  <2>3. y \in RequestType /\ y.pc # "new"
    BY <2>2, <1>2, <1>3 DEF RequestType, Pcs
  <2>4. Request_OK(y, job, epoch, source, context)
    BY <2>2, <1>2, <1>3 DEF RequestType, Request_OK, Where, Sourced, When, Holds, FrameOwners, MaskOwners, NoScope, InMask, EpochRead, Pictured
  <2>5. Fits(r, y)
    BY <2>3, <2>4 DEF Fits, job
  <2> QED BY <1>1, <2>1, <2>5, QuietStep DEF Goes, x
<1>4. CASE y = [x EXCEPT !.gone = TRUE]
  <2>1. KeepsFlights(r, y)
    BY <1>1, <1>2, <1>4 DEF RenderInv, FlightsRight, NoSource, RequestType, Tables, KeepsFlights, Leaked, Where, FrameOwners, MaskOwners, InMask
  <2> HIDE DEF x, job
  <2>2. x.pc \notin {"new", "done"}
    BY <1>1 DEF x, job
  <2>3. y \in RequestType /\ y.pc # "new"
    BY <2>2, <1>2, <1>4 DEF RequestType, Pcs
  <2>4. Request_OK(y, job, epoch, source, context)
    BY <2>2, <1>2, <1>4 DEF RequestType, Request_OK, Where, Sourced, When, Holds, FrameOwners, MaskOwners, NoScope, InMask, EpochRead, Pictured
  <2>5. Fits(r, y)
    BY <2>3, <2>4 DEF Fits, job
  <2> QED BY <1>1, <2>1, <2>5, QuietStep DEF Goes, x
<1>5. CASE y = [x EXCEPT !.wanted = FALSE]
  <2>1. KeepsFlights(r, y)
    BY <1>1, <1>2, <1>5 DEF RenderInv, FlightsRight, NoSource, RequestType, Tables, KeepsFlights, Leaked, Where, FrameOwners, MaskOwners, InMask
  <2> HIDE DEF x, job
  <2>2. x.pc \notin {"new", "done"}
    BY <1>1 DEF x, job
  <2>3. y \in RequestType /\ y.pc # "new"
    BY <2>2, <1>2, <1>5 DEF RequestType, Pcs
  <2>4. Request_OK(y, job, epoch, source, context)
    BY <2>2, <1>2, <1>5 DEF RequestType, Request_OK, Where, Sourced, When, Holds, FrameOwners, MaskOwners, NoScope, InMask, EpochRead, Pictured
  <2>5. Fits(r, y)
    BY <2>3, <2>4 DEF Fits, job
  <2> QED BY <1>1, <2>1, <2>5, QuietStep DEF Goes, x
<1> QED BY <1>1, <1>3, <1>4, <1>5

-----------------------------------------------------------------------------
(* The steps that take a flight or give it back.                              *)

SameKeys(r, y) ==
  /\ y.epoch = requests[r].epoch /\ y.context = requests[r].context
  /\ y.outerEpoch = requests[r].outerEpoch /\ y.outerContext = requests[r].outerContext

Takes(r, table, y) ==
  /\ KeyIn(r, table) \notin DOMAIN inflight[table]
  /\ inflight' = [inflight EXCEPT ![table] = Put(@, KeyIn(r, table), r)]
  /\ y.owns = requests[r].owns \cup {table} /\ y.cut = requests[r].cut \ {table}
  /\ SameKeys(r, y) /\ ~Leaked(r)
  /\ y.pc \in {"m_start", "m_compute"} => table = "mask"

Gives(r, table, y) ==
  /\ Detached(r, table, KeyIn(r, table))
  /\ y.owns = requests[r].owns \ {table} /\ y.cut = requests[r].cut \ {table}
  /\ SameKeys(r, y)
  /\ Leaked(r) => table # "frame" /\ y.pc \in {"s_release", "done"} /\ y.fails = "error" /\ y.src = 0
  /\ y.pc \notin {"m_start", "m_compute"}

\* The keys of all requests stay when one goes on under the keys that it has.
LEMMA KeysStay ==
  ASSUME RenderInv, NEW r \in Request, NEW y, Goes(r, y), SameKeys(r, y)
  PROVE  /\ requests'[r] = y /\ \A q \in Request : q # r => requests'[q] = requests[q]
         /\ \A q \in Request : \A table \in Tables : KeyIn(q, table)' = KeyIn(q, table)
<1>1. requests'[r] = y /\ \A q \in Request : q # r => requests'[q] = requests[q]
  BY DEF RenderInv, Types, RequestTypes, Goes
<1>2. left'.jobs = left.jobs
  BY DEF Goes, SameJobs
<1> QED BY <1>1, <1>2 DEF KeyIn, FrameKey, ScopeKey, MaskKey, GradeOf, SameKeys

\* A flight is taken under a key that has none.
LEMMA FlightTaken ==
  ASSUME RenderInv, NEW r \in Request, NEW y, NEW table \in Tables, Goes(r, y), Takes(r, table, y),
         UNCHANGED epoch
  PROVE  FlightsRight' /\ FlightTypes'
<1> DEFINE K == KeyIn(r, table)
<1>1. /\ requests'[r] = y /\ \A q \in Request : q # r => requests'[q] = requests[q]
      /\ \A q \in Request : \A t \in Tables : KeyIn(q, t)' = KeyIn(q, t)
  BY KeysStay DEF Takes
<1>2. /\ inflight = [t \in Tables |-> inflight[t]]
      /\ \A t \in Tables : \A key \in DOMAIN inflight[t] : inflight[t][key] \in Request
  BY DEF RenderInv, Types, FlightTypes
<1>3. /\ inflight'[table] = Put(inflight[table], K, r) /\ K \notin DOMAIN inflight[table]
      /\ \A t \in Tables : t # table => inflight'[t] = inflight[t]
      /\ inflight' = [t \in Tables |-> inflight'[t]]
  BY <1>2 DEF Takes
<1> HIDE DEF K
<1>4. /\ DOMAIN inflight'[table] = DOMAIN inflight[table] \cup {K} /\ inflight'[table][K] = r
      /\ \A key \in DOMAIN inflight[table] : inflight'[table][key] = inflight[table][key]
  BY <1>3 DEF Put
<1>5. FlightTypes'
  BY <1>2, <1>3, <1>4 DEF FlightTypes
<1>6. /\ \A q \in Request : q # r => \A t \in Tables : Kept(q, t)' = Kept(q, t) /\ Leaked(q)' = Leaked(q)
      /\ \A t \in Tables : t # table => Kept(r, t)' = Kept(r, t)
      /\ Kept(r, table)' /\ ~Leaked(r)
  BY <1>1 DEF Kept, Leaked, NoSource, Takes
<1>7. \A t \in Tables : \A key, q : q \in Request /\ FlightOf(q, t, key) => FlightOf(q, t, key)'
  BY <1>1, <1>6 DEF FlightOf
<1>8. \A t \in Tables : \A key \in DOMAIN inflight[t] : FlightOf(inflight[t][key], t, key)
  BY DEF RenderInv, FlightsRight
<1>9. \A key : key = K => FlightOf(r, table, key)'
  BY <1>1, <1>6 DEF FlightOf, K
<1>10. ASSUME NEW t \in Tables, NEW key \in DOMAIN inflight'[t]
       PROVE  FlightOf(inflight[t][key], t, key)'
  <2>1. CASE t = table /\ key = K
    <3>1. \A q : q = r => FlightOf(q, table, key)'
      BY <1>9, <2>1
    <3> QED BY <1>4, <2>1, <3>1
  <2>2. CASE t # table \/ key # K
    <3>1. key \in DOMAIN inflight[t] /\ inflight'[t][key] = inflight[t][key]
      BY <1>3, <1>4, <2>2
    <3> DEFINE q == inflight[t][key]
    <3>2. q \in Request /\ FlightOf(q, t, key)
      BY <1>2, <1>8, <3>1
    <3>3. \A o : o = q => FlightOf(o, t, key)'
      BY <1>7, <3>2
    <3> QED BY <3>1, <3>3
  <2> QED BY <2>1, <2>2
<1>11. \A t \in Tables : \A q \in Request : Kept(q, t)' =>
         KeyIn(q, t)' \in DOMAIN inflight'[t] /\ inflight'[t][KeyIn(q, t)'] = q
  BY <1>1, <1>3, <1>4, <1>6 DEF RenderInv, FlightsRight, K
<1>12. \A q \in Request : requests'[q].pc \in {"m_start", "m_compute"} /\ requests'[q].epoch = epoch'
         => Kept(q, "mask")'
  BY <1>1, <1>6 DEF RenderInv, FlightsRight, Takes, Tables
<1> QED BY <1>5, <1>10, <1>11, <1>12 DEF FlightsRight

\* A flight is given back, unless it is somebody else's by now.
LEMMA FlightGiven ==
  ASSUME RenderInv, NEW r \in Request, NEW y, NEW table \in Tables, Goes(r, y), Gives(r, table, y),
         UNCHANGED epoch
  PROVE  FlightsRight' /\ FlightTypes'
<1> DEFINE K == KeyIn(r, table)
<1>1. /\ requests'[r] = y /\ \A q \in Request : q # r => requests'[q] = requests[q]
      /\ \A q \in Request : \A t \in Tables : KeyIn(q, t)' = KeyIn(q, t)
  BY KeysStay DEF Gives
<1>2. /\ inflight = [t \in Tables |-> inflight[t]]
      /\ \A t \in Tables : \A key \in DOMAIN inflight[t] : inflight[t][key] \in Request
  BY DEF RenderInv, Types, FlightTypes
<1> DEFINE Mine == K \in DOMAIN inflight[table] /\ inflight[table][K] = r
<1>3. /\ inflight'[table] = IF Mine THEN Drop(inflight[table], K) ELSE inflight[table]
      /\ \A t \in Tables : t # table => inflight'[t] = inflight[t]
      /\ inflight' = [t \in Tables |-> inflight'[t]]
  BY <1>2 DEF Gives, Detached
<1> HIDE DEF K
<1>4. /\ DOMAIN inflight'[table] = IF Mine THEN DOMAIN inflight[table] \ {K} ELSE DOMAIN inflight[table]
      /\ \A key \in DOMAIN inflight'[table] : inflight'[table][key] = inflight[table][key]
  BY <1>3 DEF Drop
<1>5. FlightTypes'
  BY <1>2, <1>3, <1>4 DEF FlightTypes
<1>6. /\ \A q \in Request : q # r => \A t \in Tables : Kept(q, t)' = Kept(q, t) /\ Leaked(q)' = Leaked(q)
      /\ \A t \in Tables : t # table => Kept(r, t)' = Kept(r, t)
      /\ ~Kept(r, table)' /\ (Leaked(r) => Leaked(r)' /\ table # "frame")
  BY <1>1 DEF Kept, Leaked, NoSource, Gives
<1>7. \A key \in DOMAIN inflight[table] : inflight[table][key] = r => key = K
  BY DEF RenderInv, FlightsRight, FlightOf, K
<1>8. \A key \in DOMAIN inflight'[table] : inflight[table][key] # r
  BY <1>4, <1>7
<1>9. \A t \in Tables : \A key, q : q \in Request /\ FlightOf(q, t, key) /\ (q # r \/ t # table)
        => FlightOf(q, t, key)'
  BY <1>1, <1>6 DEF FlightOf
<1>10. \A t \in Tables : \A key \in DOMAIN inflight[t] : FlightOf(inflight[t][key], t, key)
  BY DEF RenderInv, FlightsRight
<1>11. ASSUME NEW t \in Tables, NEW key \in DOMAIN inflight'[t]
       PROVE  FlightOf(inflight[t][key], t, key)'
  <2> DEFINE q == inflight[t][key]
  <2>1. key \in DOMAIN inflight[t] /\ inflight'[t][key] = q /\ (t = table => q # r)
    BY <1>3, <1>4, <1>8
  <2>2. q \in Request /\ FlightOf(q, t, key)
    BY <1>2, <1>10, <2>1
  <2>3. \A o : o = q => FlightOf(o, t, key)'
    BY <1>9, <2>1, <2>2
  <2> QED BY <2>1, <2>3
<1>12. \A t \in Tables : \A q \in Request : Kept(q, t)' =>
         KeyIn(q, t)' \in DOMAIN inflight'[t] /\ inflight'[t][KeyIn(q, t)'] = q
  <2> SUFFICES ASSUME NEW t \in Tables, NEW q \in Request, Kept(q, t)'
               PROVE  KeyIn(q, t)' \in DOMAIN inflight'[t] /\ inflight'[t][KeyIn(q, t)'] = q
    OBVIOUS
  <2>1. Kept(q, t) /\ (q # r \/ t # table)
    BY <1>6
  <2>2. KeyIn(q, t) \in DOMAIN inflight[t] /\ inflight[t][KeyIn(q, t)] = q
    BY <2>1 DEF RenderInv, FlightsRight
  <2>3. CASE t # table
    BY <1>1, <1>3, <2>2, <2>3
  <2>4. CASE t = table
    BY <1>1, <1>4, <2>1, <2>2, <2>4
  <2> QED BY <2>3, <2>4
<1>13. \A q \in Request : requests'[q].pc \in {"m_start", "m_compute"} /\ requests'[q].epoch = epoch'
         => Kept(q, "mask")'
  BY <1>1, <1>6 DEF RenderInv, FlightsRight, Gives, Tables
<1> QED BY <1>5, <1>11, <1>12, <1>13 DEF FlightsRight

\* Taking or giving back a flight keeps the invariant when the record fits.
LEMMA FlightStep ==
  ASSUME RenderInv, NEW r \in Request, NEW y, NEW table \in Tables, Goes(r, y), Fits(r, y),
         Takes(r, table, y) \/ Gives(r, table, y), UNCHANGED <<session, results>>
  PROVE  RenderInv'
<1>1. UNCHANGED <<epoch, source, context>>
  BY DEF session
<1>2. Local' /\ Fresh' /\ RequestTypes'
  BY <1>1, RequestStep
<1>3. FlightsRight' /\ FlightTypes'
  BY <1>1, FlightTaken, FlightGiven
<1>4. TablesNow'
  BY <1>1 DEF results, RenderInv, TablesNow
<1>5. Types'
  BY <1>2, <1>3 DEF session, results, RenderInv, Types, SessionTypes, TableTypes
<1> QED BY <1>2, <1>3, <1>4, <1>5 DEF RenderInv

-----------------------------------------------------------------------------
(* The steps that keep a result.                                              *)

\* A finished frame is kept.
LEMMA StoreFrameStep ==
  ASSUME RenderInv, NEW r \in Request, StoreFrame(r)
  PROVE  RenderInv'
<1> DEFINE x == requests[r]
          job == left.jobs[r]
          y == [x EXCEPT !.pc = "f_release"]
<1>1. /\ x.pc = "f_store" /\ requests' = [requests EXCEPT ![r] = y] /\ left' = left
      /\ UNCHANGED <<session, inflight, scopes, masks>>
  BY DEF StoreFrame, Update, Go, Kind
<1>2. /\ x \in RequestType /\ job \in Job /\ Where(x, job) /\ Sourced(x, job) /\ When(x, job, epoch)
      /\ Holds(x, job, epoch, source, context)
      /\ epoch \in Nat /\ source \in Nat \ {0} /\ context \in Context
  BY <1>1, Here
<1>3. KeepsFlights(r, y)
  BY <1>1, <1>2 DEF RequestType, Tables, KeepsFlights, Leaked, Where, FrameOwners, MaskOwners, InMask
<1>4. Fits(r, y)
  <2> HIDE DEF x, job
  <2>1. x.pc = "f_store"
    BY <1>1 DEF x, job
  <2>2. y \in RequestType /\ y.pc # "new"
    BY <2>1, <1>2 DEF RequestType, Pcs
  <2>3. Request_OK(y, job, epoch, source, context)
    BY <2>1, <1>2 DEF RequestType, Request_OK, Where, Sourced, When, Holds, FrameOwners, MaskOwners, NoScope, InMask, EpochRead, Pictured
  <2> QED BY <2>2, <2>3 DEF Fits, job
<1>5. TablesNow' /\ TableTypes'
  <2> DEFINE key == FrameKey(r)
             picture == requests[r].picture
  <2>1. PICK kept \in SUBSET (DOMAIN frames \cup {key}) :
          /\ frames' = Keep(Put(frames, key, picture), kept)
          /\ peaks' = IF Kind(r) = "strips" /\ key \in kept
                      THEN Put(Keep(peaks, kept), key, picture) ELSE Keep(peaks, kept)
    BY DEF StoreFrame, Evicted, Put
  <2>2. picture \in Pictures /\ (key.epoch = epoch => picture = Now(source, context, key.grade))
    BY <1>1, <1>2 DEF Holds, Sourced, Pictured, FrameKey, GradeOf
  <2>3. UNCHANGED <<epoch, source, context, scopes, masks>>
    BY <1>1 DEF session
  <2> HIDE DEF key, picture
  <2>4. /\ DOMAIN frames' = kept
        /\ \A k \in DOMAIN frames' : frames'[k] = IF k = key THEN picture ELSE frames[k]
    <3>1. DOMAIN frames' = (DOMAIN frames \cup {key}) \cap kept
      BY <2>1 DEF Put, Keep
    <3>2. \A k \in DOMAIN frames' : frames'[k] = IF k = key THEN picture ELSE frames[k]
      BY <2>1 DEF Put, Keep
    <3> QED BY <2>1, <3>1, <3>2
  <2>5. /\ DOMAIN peaks' \subseteq (DOMAIN peaks \cup {key}) \cap kept
        /\ \A k \in DOMAIN peaks' : (k = key /\ peaks'[k] = picture) \/ (peaks'[k] = peaks[k] /\ k \in DOMAIN peaks)
    <3>1. CASE peaks' = Keep(peaks, kept)
      BY <3>1 DEF Keep
    <3>2. CASE peaks' = Put(Keep(peaks, kept), key, picture) /\ key \in kept
      <4>1. peaks' = Put(Keep(peaks, kept), key, picture)
        BY <3>2
      <4>2. \A k \in DOMAIN peaks' : (k = key /\ peaks'[k] = picture) \/ (peaks'[k] = peaks[k] /\ k \in DOMAIN peaks)
        BY <4>1 DEF Put, Keep
      <4>3. DOMAIN peaks' = (DOMAIN peaks \cap kept) \cup {key}
        BY <4>1 DEF Put, Keep
      <4> QED BY <3>2, <4>2, <4>3
    <3> QED BY <2>1, <3>1, <3>2
  <2>6. TableTypes'
    BY <2>2, <2>3, <2>4, <2>5 DEF TableTypes, RenderInv, Types
  <2>7. TablesNow'
    BY <2>2, <2>3, <2>4, <2>5 DEF TablesNow, RenderInv
  <2> QED BY <2>6, <2>7
<1>6. UNCHANGED session
  BY <1>1
<1> HIDE DEF x, y, job
<1>7. Goes(r, y)
  BY <1>1 DEF Goes, SameJobs, x
<1> QED BY <1>3, <1>4, <1>5, <1>6, <1>7, <1>1, TableStep

\* A peak is measured of the frame that was found.
LEMMA MeasurePeakStep ==
  ASSUME RenderInv, NEW r \in Request, MeasurePeak(r)
  PROVE  RenderInv'
<1> DEFINE x == requests[r]
          job == left.jobs[r]
          y == [x EXCEPT !.pc = "answer"]
<1>1. /\ x.pc = "t_measure" /\ requests' = [requests EXCEPT ![r] = y] /\ left' = left
      /\ UNCHANGED <<session, inflight, frames, scopes, masks>>
  BY DEF MeasurePeak, Update, Go, Kind
<1>2. /\ x \in RequestType /\ job \in Job /\ Where(x, job) /\ Sourced(x, job) /\ When(x, job, epoch)
      /\ Holds(x, job, epoch, source, context)
      /\ epoch \in Nat /\ source \in Nat \ {0} /\ context \in Context
  BY <1>1, Here
<1>3. KeepsFlights(r, y)
  BY <1>1, <1>2 DEF RequestType, Tables, KeepsFlights, Leaked, Where, FrameOwners, MaskOwners, InMask
<1>4. Fits(r, y)
  <2> HIDE DEF x, job
  <2>1. x.pc = "t_measure"
    BY <1>1 DEF x, job
  <2>2. y \in RequestType /\ y.pc # "new"
    BY <2>1, <1>2 DEF RequestType, Pcs
  <2>3. Request_OK(y, job, epoch, source, context)
    BY <2>1, <1>2 DEF RequestType, Request_OK, Where, Sourced, When, Holds, FrameOwners, MaskOwners, NoScope, InMask, EpochRead, Pictured
  <2> QED BY <2>2, <2>3 DEF Fits, job
<1>5. TablesNow' /\ TableTypes'
  <2> DEFINE key == FrameKey(r)
             picture == requests[r].picture
  <2>1. peaks' = IF key \in DOMAIN frames THEN Put(peaks, key, picture) ELSE peaks
    BY DEF MeasurePeak
  <2>2. picture \in Pictures /\ (key.epoch = epoch => picture = Now(source, context, key.grade))
    BY <1>1, <1>2 DEF Holds, Sourced, Pictured, FrameKey, GradeOf
  <2>3. UNCHANGED <<epoch, source, context, frames, scopes, masks>>
    BY <1>1 DEF session
  <2> HIDE DEF key, picture
  <2>4. /\ \A k \in DOMAIN peaks' : (k = key /\ peaks'[k] = picture) \/ (peaks'[k] = peaks[k] /\ k \in DOMAIN peaks)
        /\ key \in DOMAIN frames \/ peaks' = peaks
    <3>1. CASE key \in DOMAIN frames
      <4>1. peaks' = Put(peaks, key, picture)
        BY <2>1, <3>1
      <4>2. \A k \in DOMAIN peaks' : (k = key /\ peaks'[k] = picture) \/ (peaks'[k] = peaks[k] /\ k \in DOMAIN peaks)
        BY <4>1 DEF Put
      <4> QED BY <3>1, <4>2
    <3>2. CASE key \notin DOMAIN frames
      BY <2>1, <3>2
    <3> QED BY <3>1, <3>2
  <2>5. TableTypes'
    BY <2>2, <2>3, <2>4 DEF TableTypes, RenderInv, Types
  <2>6. TablesNow'
    BY <2>2, <2>3, <2>4 DEF TablesNow, RenderInv
  <2> QED BY <2>5, <2>6
<1>6. UNCHANGED session
  BY <1>1
<1> HIDE DEF x, y, job
<1>7. Goes(r, y)
  BY <1>1 DEF Goes, SameJobs, x
<1> QED BY <1>3, <1>4, <1>5, <1>6, <1>7, <1>1, TableStep

\* A scope is kept.
LEMMA StoreScopeStep ==
  ASSUME RenderInv, NEW r \in Request, StoreScope(r)
  PROVE  RenderInv'
<1> DEFINE x == requests[r]
          job == left.jobs[r]
          y == [x EXCEPT !.pc = "s_release"]
<1>1. /\ x.pc = "s_store" /\ requests' = [requests EXCEPT ![r] = y] /\ left' = left
      /\ UNCHANGED <<session, inflight, frames, peaks, masks>>
  BY DEF StoreScope, Update, Go, Kind
<1>2. /\ x \in RequestType /\ job \in Job /\ Where(x, job) /\ Sourced(x, job) /\ When(x, job, epoch)
      /\ Holds(x, job, epoch, source, context)
      /\ epoch \in Nat /\ source \in Nat \ {0} /\ context \in Context
  BY <1>1, Here
<1>3. KeepsFlights(r, y)
  BY <1>1, <1>2 DEF RequestType, Tables, KeepsFlights, Leaked, Where, FrameOwners, MaskOwners, InMask
<1>4. Fits(r, y)
  <2> HIDE DEF x, job
  <2>1. x.pc = "s_store"
    BY <1>1 DEF x, job
  <2>2. y \in RequestType /\ y.pc # "new"
    BY <2>1, <1>2 DEF RequestType, Pcs
  <2>3. Request_OK(y, job, epoch, source, context)
    BY <2>1, <1>2 DEF RequestType, Request_OK, Where, Sourced, When, Holds, FrameOwners, MaskOwners, NoScope, InMask, EpochRead, Pictured
  <2> QED BY <2>2, <2>3 DEF Fits, job
<1>5. TablesNow' /\ TableTypes'
  <2> DEFINE key == ScopeKey(r)
             picture == requests[r].picture
  <2>1. PICK kept : scopes' = Keep(Put(scopes, key, picture), kept)
    BY DEF StoreScope
  <2>2. picture \in Pictures /\ (key.epoch = epoch => picture = Now(source, context, key.grade))
    <3>1. picture \in Pictures /\ key.epoch = x.outerEpoch /\ key.grade = job.grade
      BY <1>1, <1>2 DEF Sourced, Pictured, ScopeKey, GradeOf
    <3>2. x.outerEpoch = epoch => x.epoch = epoch
      <4> HIDE DEF x, job
      <4>1. x.outerEpoch <= x.epoch /\ x.epoch <= epoch /\ x.epoch \in Nat /\ x.outerEpoch \in Nat
        BY <1>1, <1>2 DEF RequestType, Where, When, EpochRead, x
      <4> QED BY <4>1, <1>2
    <3>3. x.epoch = epoch => picture = Now(source, context, job.grade)
      BY <1>1, <1>2 DEF Holds, Pictured
    <3> QED BY <3>1, <3>2, <3>3
  <2>3. UNCHANGED <<epoch, source, context, frames, peaks, masks>>
    BY <1>1 DEF session
  <2> HIDE DEF key, picture
  <2>4. /\ DOMAIN scopes' = (DOMAIN scopes \cup {key}) \cap kept
        /\ \A k \in DOMAIN scopes' : scopes'[k] = IF k = key THEN picture ELSE scopes[k]
    BY <2>1 DEF Put, Keep
  <2>5. TableTypes'
    BY <2>2, <2>3, <2>4 DEF TableTypes, RenderInv, Types
  <2>6. TablesNow'
    BY <2>2, <2>3, <2>4 DEF TablesNow, RenderInv
  <2> QED BY <2>5, <2>6
<1>6. UNCHANGED session
  BY <1>1
<1> HIDE DEF x, y, job
<1>7. Goes(r, y)
  BY <1>1 DEF Goes, SameJobs, x
<1> QED BY <1>3, <1>4, <1>5, <1>6, <1>7, <1>1, TableStep

-----------------------------------------------------------------------------
(* Flights taken and given back, one step after the other.                    *)

\* A frame that nobody computes.
LEMMA FrameOwnStep ==
  ASSUME RenderInv, NEW r \in Request, FrameOwn(r)
  PROVE  RenderInv'
<1> DEFINE x == requests[r]
          job == left.jobs[r]
          y == [x EXCEPT !.owns = @ \cup {"frame"}, !.cut = @ \ {"frame"},
                         !.pc = IF job.kind = "strips" THEN "t_render" ELSE "f_proxies"]
<1>1. /\ x.pc = "f_acquire" /\ requests' = [requests EXCEPT ![r] = y] /\ left' = left
      /\ UNCHANGED <<session, results>>
  BY DEF FrameOwn, Update, Go, Kind
<1>2. /\ x \in RequestType /\ job \in Job /\ Where(x, job) /\ Sourced(x, job) /\ When(x, job, epoch)
      /\ Holds(x, job, epoch, source, context)
      /\ epoch \in Nat /\ source \in Nat \ {0} /\ context \in Context
  BY <1>1, Here
<1>3. Takes(r, "frame", y)
  BY <1>1, <1>2 DEF FrameOwn, Takes, KeyIn, SameKeys, RequestType, Tables, Leaked, Kind, NoSource, Where, FrameOwners, MaskOwners, NoScope, Unwind
<1>4. Fits(r, y)
  <2> HIDE DEF x, job
  <2>1. x.pc = "f_acquire"
    BY <1>1 DEF x, job
  <2>2. y \in RequestType /\ y.pc # "new"
    BY <2>1, <1>2 DEF RequestType, Pcs, Tables, Unwind, AfterMask
  <2>3. Request_OK(y, job, epoch, source, context)
    BY <2>1, <1>2 DEF RequestType, Request_OK, Unwind, Where, Sourced, When, Holds, FrameOwners, MaskOwners, NoScope, InMask, EpochRead, Pictured
  <2> QED BY <2>2, <2>3 DEF Fits, job
<1> QED BY <1>1, <1>3, <1>4, FlightStep DEF Goes, SameJobs, Tables

\* A mask that nobody compiles.
LEMMA MaskOwnStep ==
  ASSUME RenderInv, NEW r \in Request, MaskOwn(r)
  PROVE  RenderInv'
<1> DEFINE x == requests[r]
          job == left.jobs[r]
          y == [x EXCEPT !.waiting = FALSE, !.owns = @ \cup {"mask"}, !.cut = @ \ {"mask"},
                         !.pc = "m_start"]
<1>1. /\ x.pc = "m_acquire" /\ requests' = [requests EXCEPT ![r] = y] /\ left' = left
      /\ UNCHANGED <<session, results>>
  BY DEF MaskOwn, Update, Go, Kind
<1>2. /\ x \in RequestType /\ job \in Job /\ Where(x, job) /\ Sourced(x, job) /\ When(x, job, epoch)
      /\ Holds(x, job, epoch, source, context)
      /\ epoch \in Nat /\ source \in Nat \ {0} /\ context \in Context
  BY <1>1, Here
<1>3. Takes(r, "mask", y)
  BY <1>1, <1>2 DEF MaskOwn, Takes, KeyIn, SameKeys, RequestType, Tables, Leaked, Kind, NoSource, Where, FrameOwners, MaskOwners, NoScope, Unwind
<1>4. Fits(r, y)
  <2> HIDE DEF x, job
  <2>1. x.pc = "m_acquire"
    BY <1>1 DEF x, job
  <2>2. y \in RequestType /\ y.pc # "new"
    BY <2>1, <1>2 DEF RequestType, Pcs, Tables, Unwind, AfterMask
  <2>3. Request_OK(y, job, epoch, source, context)
    BY <2>1, <1>2 DEF RequestType, Request_OK, Unwind, Where, Sourced, When, Holds, FrameOwners, MaskOwners, NoScope, InMask, EpochRead, Pictured
  <2> QED BY <2>2, <2>3 DEF Fits, job
<1> QED BY <1>1, <1>3, <1>4, FlightStep DEF Goes, SameJobs, Tables

\* A frame is done, or its computation failed.
LEMMA ReleaseFrameStep ==
  ASSUME RenderInv, NEW r \in Request, ReleaseFrame(r)
  PROVE  RenderInv'
<1> DEFINE x == requests[r]
          job == left.jobs[r]
          y == [x EXCEPT !.owns = @ \ {"frame"}, !.cut = @ \ {"frame"},
                         !.pc = IF x.fails # "none" THEN Unwind(x.owns \ {"frame"})
                                ELSE IF job.kind = "scope" THEN "s_check" ELSE "answer"]
<1>1. /\ x.pc = "f_release" /\ requests' = [requests EXCEPT ![r] = y] /\ left' = left
      /\ UNCHANGED <<session, results>>
  BY DEF ReleaseFrame, Update, Go, Kind
<1>2. /\ x \in RequestType /\ job \in Job /\ Where(x, job) /\ Sourced(x, job) /\ When(x, job, epoch)
      /\ Holds(x, job, epoch, source, context)
      /\ epoch \in Nat /\ source \in Nat \ {0} /\ context \in Context
  BY <1>1, Here
<1>3. Gives(r, "frame", y)
  BY <1>1, <1>2 DEF ReleaseFrame, Gives, KeyIn, SameKeys, RequestType, Tables, Leaked, Kind, NoSource, Where, FrameOwners, MaskOwners, NoScope, Unwind
<1>4. Fits(r, y)
  <2> HIDE DEF x, job
  <2>1. x.pc = "f_release"
    BY <1>1 DEF x, job
  <2>2. y \in RequestType /\ y.pc # "new"
    BY <2>1, <1>2 DEF RequestType, Pcs, Tables, Unwind, AfterMask
  <2>3. Request_OK(y, job, epoch, source, context)
    BY <2>1, <1>2 DEF RequestType, Request_OK, Unwind, Where, Sourced, When, Holds, FrameOwners, MaskOwners, NoScope, InMask, EpochRead, Pictured
  <2> QED BY <2>2, <2>3 DEF Fits, job
<1> QED BY <1>1, <1>3, <1>4, FlightStep DEF Goes, SameJobs, Tables

\* A scope is done, or it failed.
LEMMA ReleaseScopeStep ==
  ASSUME RenderInv, NEW r \in Request, ReleaseScope(r)
  PROVE  RenderInv'
<1> DEFINE x == requests[r]
          job == left.jobs[r]
          y == [x EXCEPT !.owns = @ \ {"scope"}, !.cut = @ \ {"scope"},
                         !.pc = IF x.fails # "none" THEN Unwind(x.owns \ {"scope"}) ELSE "answer"]
<1>1. /\ x.pc = "s_release" /\ requests' = [requests EXCEPT ![r] = y] /\ left' = left
      /\ UNCHANGED <<session, results>>
  BY DEF ReleaseScope, Update, Go, Kind
<1>2. /\ x \in RequestType /\ job \in Job /\ Where(x, job) /\ Sourced(x, job) /\ When(x, job, epoch)
      /\ Holds(x, job, epoch, source, context)
      /\ epoch \in Nat /\ source \in Nat \ {0} /\ context \in Context
  BY <1>1, Here
<1>3. Gives(r, "scope", y)
  BY <1>1, <1>2 DEF ReleaseScope, Gives, KeyIn, SameKeys, RequestType, Tables, Leaked, Kind, NoSource, Where, FrameOwners, MaskOwners, NoScope, Unwind
<1>4. Fits(r, y)
  <2> HIDE DEF x, job
  <2>1. x.pc = "s_release"
    BY <1>1 DEF x, job
  <2>2. y \in RequestType /\ y.pc # "new"
    BY <2>1, <1>2 DEF RequestType, Pcs, Tables, Unwind, AfterMask
  <2>3. Request_OK(y, job, epoch, source, context)
    BY <2>1, <1>2 DEF RequestType, Request_OK, Unwind, Where, Sourced, When, Holds, FrameOwners, MaskOwners, NoScope, InMask, EpochRead, Pictured
  <2> QED BY <2>2, <2>3 DEF Fits, job
<1> QED BY <1>1, <1>3, <1>4, FlightStep DEF Goes, SameJobs, Tables

\* A mask is done, or its compile stopped.
LEMMA ReleaseMaskStep ==
  ASSUME RenderInv, NEW r \in Request, ReleaseMask(r)
  PROVE  RenderInv'
<1> DEFINE x == requests[r]
          job == left.jobs[r]
          y == [x EXCEPT !.owns = @ \ {"mask"}, !.cut = @ \ {"mask"},
                         !.pc = IF x.fails # "none" THEN Unwind(x.owns \ {"mask"})
                                ELSE IF job.kind = "mask" THEN "answer" ELSE "f_apply"]
<1>1. /\ x.pc = "m_release" /\ requests' = [requests EXCEPT ![r] = y] /\ left' = left
      /\ UNCHANGED <<session, results>>
  BY DEF ReleaseMask, Update, Go, Kind, AfterMask
<1>2. /\ x \in RequestType /\ job \in Job /\ Where(x, job) /\ Sourced(x, job) /\ When(x, job, epoch)
      /\ Holds(x, job, epoch, source, context)
      /\ epoch \in Nat /\ source \in Nat \ {0} /\ context \in Context
  BY <1>1, Here
<1>3. Gives(r, "mask", y)
  <2>1. Detached(r, "mask", MaskKey(r))
    <3>1. CASE "mask" \in x.owns
      BY <3>1 DEF ReleaseMask
    <3>2. CASE "mask" \notin x.owns
      <4>1. inflight' = inflight
        BY <3>2 DEF ReleaseMask
      <4>2. MaskKey(r) \in DOMAIN inflight["mask"] => inflight["mask"][MaskKey(r)] # r
        BY <3>2 DEF RenderInv, FlightsRight, FlightOf, Kept, Tables
      <4> QED BY <4>1, <4>2 DEF Detached
    <3> QED BY <3>1, <3>2
  <2>2. ~Leaked(r)
    BY <1>1 DEF Leaked
  <2>3. y.pc \notin {"m_start", "m_compute"}
    BY <1>1, <1>2 DEF RequestType, Unwind
  <2> QED BY <1>1, <1>2, <2>1, <2>2, <2>3 DEF Gives, KeyIn, SameKeys, RequestType, Tables
<1>4. Fits(r, y)
  <2> HIDE DEF x, job
  <2>1. x.pc = "m_release"
    BY <1>1 DEF x, job
  <2>2. y \in RequestType /\ y.pc # "new"
    BY <2>1, <1>2 DEF RequestType, Pcs, Tables, Unwind, AfterMask
  <2>3. Request_OK(y, job, epoch, source, context)
    BY <2>1, <1>2 DEF RequestType, Request_OK, Unwind, Where, Sourced, When, Holds, FrameOwners, MaskOwners, NoScope, InMask, EpochRead, Pictured
  <2> QED BY <2>2, <2>3 DEF Fits, job
<1> QED BY <1>1, <1>3, <1>4, FlightStep DEF Goes, SameJobs, Tables

\* Waiting for a scope, finding it, or computing it.
LEMMA AcquireScopeStep ==
  ASSUME RenderInv, NEW r \in Request, AcquireScope(r)
  PROVE  RenderInv'
<1> DEFINE x == requests[r]
          job == left.jobs[r]
<1>1. x.pc = "s_acquire" /\ left' = left /\ UNCHANGED <<session, results>>
  BY DEF AcquireScope
<1>2. /\ x \in RequestType /\ job \in Job /\ Where(x, job) /\ Sourced(x, job) /\ When(x, job, epoch)
      /\ Holds(x, job, epoch, source, context)
      /\ epoch \in Nat /\ source \in Nat \ {0} /\ context \in Context
  BY <1>1, Here
<1>3. CASE /\ ScopeKey(r) \in DOMAIN scopes /\ inflight' = inflight
           /\ Update(r, [x EXCEPT !.picture = scopes[ScopeKey(r)], !.pc = "answer"])
  <2> DEFINE y == [x EXCEPT !.picture = scopes[ScopeKey(r)], !.pc = "answer"]
  <2>1. scopes[ScopeKey(r)] \in Pictures
        /\ (x.outerEpoch = epoch => scopes[ScopeKey(r)] = Now(source, context, job.grade))
    BY <1>3 DEF ScopeKey, GradeOf, RenderInv, Types, TableTypes, TablesNow
  <2>2. KeepsFlights(r, y)
    BY <1>1, <1>2 DEF RequestType, Tables, KeepsFlights, Leaked, Where, FrameOwners, MaskOwners
  <2>3. Goes(r, y)
    BY <1>1, <1>3 DEF Goes, SameJobs, Update
  <2>4. Fits(r, y)
    <3> HIDE DEF x, job
    <3>1. x.pc = "s_acquire"
      BY <1>1 DEF x
    <3>2. y \in RequestType /\ y.pc # "new"
      BY <3>1, <2>1, <1>2 DEF RequestType, Pcs
    <3>3. Request_OK(y, job, epoch, source, context)
      BY <3>1, <2>1, <1>2 DEF RequestType, Request_OK, Where, Sourced, When, Holds, FrameOwners, MaskOwners, NoScope, InMask, EpochRead, Pictured
    <3> QED BY <3>2, <3>3 DEF Fits, job
  <2> QED BY <1>1, <1>3, <2>2, <2>3, <2>4, QuietStep
<1>4. CASE Raise(r, "stale") /\ inflight' = inflight
  <2>1. Goes(r, Raised(r, "stale"))
    BY <1>1, <1>4 DEF Goes, SameJobs, Raise, Raised, Update
  <2> QED BY <1>1, <1>4, <2>1, RaiseFits, QuietStep
<1>5. CASE /\ ScopeKey(r) \notin DOMAIN inflight.scope
           /\ inflight' = [inflight EXCEPT !.scope = Put(@, ScopeKey(r), r)]
           /\ Update(r, [x EXCEPT !.owns = @ \cup {"scope"}, !.cut = @ \ {"scope"}, !.pc = "f_epoch"])
  <2> DEFINE y == [x EXCEPT !.owns = @ \cup {"scope"}, !.cut = @ \ {"scope"}, !.pc = "f_epoch"]
  <2>1. Goes(r, y)
    BY <1>1, <1>5 DEF Goes, SameJobs, Update
  <2>2. Takes(r, "scope", y)
    BY <1>1, <1>2, <1>5 DEF Takes, KeyIn, SameKeys, RequestType, Tables, Leaked
  <2>3. Fits(r, y)
    <3> HIDE DEF x, job
    <3>1. x.pc = "s_acquire"
      BY <1>1 DEF x
    <3>2. y \in RequestType /\ y.pc # "new"
      BY <3>1, <1>2 DEF RequestType, Pcs, Tables
    <3>3. Request_OK(y, job, epoch, source, context)
      BY <3>1, <1>2 DEF RequestType, Request_OK, Where, Sourced, When, Holds, FrameOwners, MaskOwners, NoScope, InMask, EpochRead, Pictured
    <3> QED BY <3>2, <3>3 DEF Fits, job
  <2> QED BY <1>1, <2>1, <2>2, <2>3, FlightStep DEF Tables
<1> QED BY <1>3, <1>4, <1>5 DEF AcquireScope

\* A source level that cannot be built: the request goes, its flight stays.
LEMMA ProxiesFailStep ==
  ASSUME RenderInv, NEW r \in Request, ProxiesFail(r)
  PROVE  RenderInv'
<1> DEFINE x == requests[r]
          job == left.jobs[r]
          y == [x EXCEPT !.fails = "error", !.owns = @ \ {"frame"}, !.pc = Unwind(x.owns \ {"frame"})]
<1>1. /\ x.pc = "f_proxies" /\ requests' = [requests EXCEPT ![r] = y]
      /\ UNCHANGED <<session, results, inflight>>
  BY DEF ProxiesFail, Update
<1>2. /\ x \in RequestType /\ job \in Job /\ Where(x, job) /\ Sourced(x, job) /\ When(x, job, epoch)
      /\ Holds(x, job, epoch, source, context)
      /\ epoch \in Nat /\ source \in Nat \ {0} /\ context \in Context
  BY <1>1, Here
<1>3. Goes(r, y)
  BY <1>1, SpendKeepsJobs DEF Goes, SameJobs, ProxiesFail, RenderInv, Types, RequestTypes
<1>4. x.src = 0 /\ "mask" \notin x.owns
  BY <1>1, <1>2 DEF Sourced, Where, MaskOwners
<1>5. Unwind(x.owns \ {"frame"}) \in {"s_release", "done"}
      /\ (Unwind(x.owns \ {"frame"}) = "s_release" <=> "scope" \in x.owns)
  BY <1>4 DEF Unwind
<1>6. y.pc \in {"s_release", "done"} /\ y.fails = "error" /\ y.src = 0 /\ y.cut = x.cut
      /\ y.owns = x.owns \ {"frame"} /\ SameKeys(r, y)
  BY <1>2, <1>4, <1>5 DEF RequestType, SameKeys
<1>7. Fits(r, y)
  <2> HIDE DEF x, job
  <2>1. x.pc = "f_proxies"
    BY <1>1 DEF x, job
  <2>2. y \in RequestType /\ y.pc # "new"
    BY <2>1, <1>2, <1>5 DEF RequestType, Pcs, Tables
  <2>3. Request_OK(y, job, epoch, source, context)
    BY <2>1, <1>2, <1>4, <1>5 DEF RequestType, Request_OK, Where, Sourced, When, Holds, FrameOwners, MaskOwners, NoScope, InMask, EpochRead, Pictured
  <2> QED BY <2>2, <2>3 DEF Fits, job
<1> HIDE DEF y
<1>8. UNCHANGED <<epoch, source, context>>
  BY <1>1 DEF session
<1>9. Local' /\ Fresh' /\ RequestTypes'
  BY <1>3, <1>7, <1>8, RequestStep
<1>10. FlightsRight'
  <2>1. /\ requests'[r] = y /\ \A q \in Request : q # r => requests'[q] = requests[q]
        /\ \A q \in Request : \A t \in Tables : KeyIn(q, t)' = KeyIn(q, t)
    BY <1>3, <1>6, KeysStay
  <2>2. /\ \A q \in Request : q # r => \A t \in Tables : Kept(q, t)' = Kept(q, t) /\ Leaked(q)' = Leaked(q)
        /\ \A t \in Tables : t # "frame" => Kept(r, t)' = Kept(r, t)
        /\ Leaked(r)' /\ ~Kept(r, "frame")'
    BY <1>6, <2>1 DEF Kept, Leaked, NoSource
  <2>3. \A t \in Tables : \A key \in DOMAIN inflight[t] : inflight[t][key] \in Request
    BY DEF RenderInv, Types, FlightTypes
  <2>4. \A t \in Tables : \A key \in DOMAIN inflight[t] : FlightOf(inflight[t][key], t, key)'
    BY <1>1, <2>1, <2>2, <2>3 DEF RenderInv, FlightsRight, FlightOf
  <2>5. \A t \in Tables : \A q \in Request : Kept(q, t)' =>
          KeyIn(q, t)' \in DOMAIN inflight'[t] /\ inflight'[t][KeyIn(q, t)'] = q
    BY <1>1, <2>1, <2>2 DEF RenderInv, FlightsRight
  <2>6. \A q \in Request : requests'[q].pc \in {"m_start", "m_compute"} /\ requests'[q].epoch = epoch'
          => Kept(q, "mask")'
    BY <1>6, <1>8, <2>1, <2>2 DEF RenderInv, FlightsRight, Tables
  <2> QED BY <1>1, <2>4, <2>5, <2>6 DEF FlightsRight
<1>11. TablesNow'
  BY <1>1, <1>8 DEF results, RenderInv, TablesNow
<1>12. Types'
  BY <1>1, <1>9 DEF session, results, RenderInv, Types, SessionTypes, TableTypes, FlightTypes
<1> QED BY <1>9, <1>10, <1>11, <1>12 DEF RenderInv

\* A mask is kept if its epoch is still the current one.
LEMMA StoreMaskStep ==
  ASSUME RenderInv, NEW r \in Request, StoreMask(r)
  PROVE  RenderInv'
<1> DEFINE x == requests[r]
          job == left.jobs[r]
          key == MaskKey(r)
          request == [x EXCEPT !.pc = "m_release",
                        !.fails = IF Obsolete(r) \/ Abandoned(r, FALSE) THEN "stale" ELSE @]
          found == [request EXCEPT !.mask = masks[key]]
<1>1. /\ x.pc = "m_store" /\ left' = left
      /\ UNCHANGED <<session, inflight, frames, peaks, scopes>>
  BY DEF StoreMask
<1>2. /\ x \in RequestType /\ job \in Job /\ Where(x, job) /\ Sourced(x, job) /\ When(x, job, epoch)
      /\ Holds(x, job, epoch, source, context)
      /\ epoch \in Nat /\ source \in Nat \ {0} /\ context \in Context
  BY <1>1, Here
<1>3. PICK y : /\ requests' = [requests EXCEPT ![r] = y]
               /\ \/ y = request /\ masks' = masks
                  \/ y = found /\ key \in DOMAIN masks /\ masks' = masks
                  \/ /\ y = request /\ x.epoch = epoch
                     /\ \E kept : masks' = Keep(Put(masks, key, x.mask), kept)
  BY DEF StoreMask, Update, Storable
<1>4. \A k \in DOMAIN masks : masks[k] = source
  BY DEF RenderInv, TablesNow
<1>5. y.fails \in {x.fails, "stale"} /\ y.pc = "m_release"
      /\ y = [x EXCEPT !.pc = "m_release", !.fails = y.fails, !.mask = y.mask]
      /\ (y.mask = x.mask \/ y.mask = source)
  <2>1. PICK why \in {x.fails, "stale"} : request = [x EXCEPT !.pc = "m_release", !.fails = why]
    <3>1. CASE Obsolete(r) \/ Abandoned(r, FALSE)
      BY <3>1
    <3>2. CASE ~(Obsolete(r) \/ Abandoned(r, FALSE))
      BY <3>2
    <3> QED BY <3>1, <3>2
  <2> HIDE DEF request
  <2>2. y = request \/ (y = [request EXCEPT !.mask = masks[key]] /\ masks[key] = source)
    BY <1>3, <1>4
  <2> HIDE DEF x, key, found
  <2>3. CASE y = request
    BY <1>2, <2>1, <2>3 DEF RequestType
  <2>4. CASE y = [request EXCEPT !.mask = masks[key]] /\ masks[key] = source
    BY <1>2, <2>1, <2>4 DEF RequestType
  <2> QED BY <2>2, <2>3, <2>4
<1> HIDE DEF request, found
<1>6. KeepsFlights(r, y)
  BY <1>1, <1>2, <1>5 DEF RequestType, Tables, KeepsFlights, Leaked
<1>7. Fits(r, y)
  <2> HIDE DEF x, job
  <2>1. x.pc = "m_store" /\ x.mask \in Nat /\ x.fails \in {"none", "stale", "error"}
    BY <1>1, <1>2 DEF x, job, RequestType
  <2>2. y \in RequestType /\ y.pc # "new"
    BY <2>1, <1>2, <1>5 DEF RequestType, Pcs
  <2>3. Request_OK(y, job, epoch, source, context)
    BY <2>1, <1>2, <1>5 DEF RequestType, Request_OK, Where, Sourced, When, Holds, FrameOwners, MaskOwners, NoScope, InMask, EpochRead, Pictured
  <2> QED BY <2>2, <2>3 DEF Fits, job
<1>8. x.epoch = epoch => x.mask = source
  <2> HIDE DEF x, job
  <2>1. x.pc = "m_store"
    BY <1>1 DEF x
  <2> QED BY <1>2, <2>1 DEF Sourced, Holds, InMask
<1>9. UNCHANGED <<epoch, source, context>>
  BY <1>1 DEF session
<1>10. \A k \in DOMAIN masks' : masks'[k] = source
  <2>1. CASE masks' = masks
    BY <1>4, <2>1
  <2>2. ASSUME NEW kept, x.epoch = epoch, masks' = Keep(Put(masks, key, x.mask), kept)
        PROVE  \A k \in DOMAIN masks' : masks'[k] = source
    <3> HIDE DEF x, key
    <3>1. /\ DOMAIN masks' = (DOMAIN masks \cup {key}) \cap kept
          /\ \A k \in DOMAIN masks' : masks'[k] = IF k = key THEN x.mask ELSE masks[k]
      BY <2>2 DEF Put, Keep
    <3> QED BY <1>4, <1>8, <2>2, <3>1
  <2> QED BY <1>3, <2>1, <2>2
<1>11. TablesNow'
  BY <1>1, <1>9, <1>10 DEF TablesNow, RenderInv
<1>12. TableTypes'
  BY <1>1, <1>2, <1>10 DEF TableTypes, RenderInv, Types
<1>13. Goes(r, y)
  BY <1>1, <1>3 DEF Goes, SameJobs
<1> QED BY <1>1, <1>6, <1>7, <1>11, <1>12, <1>13, TableStep

-----------------------------------------------------------------------------
(* Requests that begin, and changes of the session.                           *)

\* What a request holds does not depend on whether it was overtaken.
LEMMA BeginStep ==
  ASSUME RenderInv, NEW r \in Request, Begin(r)
  PROVE  RenderInv'
<1> DEFINE job == left.jobs[r]
          new == requests'[r]
<1>1. /\ requests[r] = NewRequest /\ r \in DOMAIN left.jobs /\ left' = left
      /\ UNCHANGED <<epoch, source, context, results, inflight>> /\ token' \in Nat
  BY DEF Begin, RenderInv, Fresh, Types, SessionTypes
<1>2. /\ job \in Job /\ epoch \in Nat /\ source \in Nat \ {0} /\ context \in Context
      /\ requests \in [Request -> RequestType]
  BY <1>1, JobsTyped DEF RenderInv, Types, SessionTypes, RequestTypes
<1>3. /\ requests' \in [Request -> RequestType]
      /\ new = [NewRequest EXCEPT !.began = epoch, !.token = token', !.wanted = TRUE,
                  !.pc = CASE job.kind = "scope" -> "s_epoch" [] job.kind = "mask" -> "m_begin"
                           [] OTHER -> "f_epoch"]
      /\ \A q \in Request : q # r =>
           \/ requests'[q] = requests[q]
           \/ requests'[q] = [requests[q] EXCEPT !.wanted = FALSE]
           \/ requests'[q] = [requests[q] EXCEPT !.overtaken = TRUE]
  <2> DEFINE all == Overtaken(r)
             first == [requests[r] EXCEPT !.began = epoch, !.token = token', !.wanted = TRUE,
                         !.pc = CASE job.kind = "scope" -> "s_epoch" [] job.kind = "mask" -> "m_begin"
                                  [] OTHER -> "f_epoch"]
  <2>1. \A q \in Request : \/ all[q] = requests[q]
                          \/ all[q] = [requests[q] EXCEPT !.wanted = FALSE]
                          \/ all[q] = [requests[q] EXCEPT !.overtaken = TRUE]
    BY DEF Overtaken
  <2>2. \A q \in Request : all[q] \in RequestType
    <3> HIDE DEF all
    <3> SUFFICES ASSUME NEW q \in Request PROVE all[q] \in RequestType
      OBVIOUS
    <3>1. requests[q] \in RequestType
      BY <1>2
    <3>2. CASE all[q] = requests[q]
      BY <3>1, <3>2
    <3>3. CASE all[q] = [requests[q] EXCEPT !.wanted = FALSE]
      BY <3>1, <3>3 DEF RequestType
    <3>4. CASE all[q] = [requests[q] EXCEPT !.overtaken = TRUE]
      BY <3>1, <3>4 DEF RequestType
    <3> QED BY <2>1, <3>2, <3>3, <3>4
  <2>3. DOMAIN all = Request /\ all[r] = requests[r]
    BY DEF Overtaken
  <2>4. requests' = [all EXCEPT ![r] = first]
    BY <2>3 DEF Begin, Kind
  <2>5. requests[r] \in RequestType
    BY <1>2
  <2> HIDE DEF all
  <2>6. first \in RequestType
    BY <1>1, <1>2, <2>5 DEF RequestType, Pcs
  <2>7. all = [q \in Request |-> all[q]]
    BY DEF all, Overtaken
  <2> HIDE DEF first
  <2>8. /\ requests'[r] = first /\ \A q \in Request : q # r => requests'[q] = all[q]
        /\ requests' = [q \in Request |-> requests'[q]]
    BY <2>4, <2>7
  <2>9. requests' \in [Request -> RequestType]
    BY <2>2, <2>6, <2>8
  <2> QED BY <1>1, <2>1, <2>8, <2>9 DEF first
<1>4. /\ new.pc \in {"s_epoch", "m_begin", "f_epoch"} /\ new.owns = {} /\ new.cut = {}
      /\ Request_OK(new, job, epoch, source, context)
  BY <1>2, <1>3 DEF Job, Kinds, NewRequest, Nothing, Request_OK, Where, Sourced, When, Holds, FrameOwners, MaskOwners, NoScope, InMask, EpochRead, Pictured
<1>5. /\ \A q \in Request : q # r => SameKeys(q, requests'[q]) /\ requests'[q].pc = requests[q].pc
           /\ requests'[q].owns = requests[q].owns /\ requests'[q].cut = requests[q].cut
           /\ requests'[q].fails = requests[q].fails /\ requests'[q].src = requests[q].src
           /\ requests'[q].mask = requests[q].mask /\ requests'[q].picture = requests[q].picture
           /\ requests'[q].began = requests[q].began
  BY <1>2, <1>3 DEF RequestType, SameKeys
<1> HIDE DEF new, job
<1>6. Local'
  <2> SUFFICES ASSUME NEW q \in Request, requests'[q].pc # "new"
               PROVE  Request_OK(requests'[q], left.jobs[q], epoch, source, context)
    BY <1>1 DEF Local
  <2>1. CASE q = r
    BY <1>4, <2>1 DEF new, job
  <2>2. CASE q # r
    <3> DEFINE x == requests[q]
               y == requests'[q]
    <3>1. Request_OK(x, left.jobs[q], epoch, source, context)
      BY <1>5, <2>2 DEF RenderInv, Local
    <3>2. /\ y.pc = x.pc /\ y.owns = x.owns /\ y.fails = x.fails /\ y.src = x.src /\ y.mask = x.mask
          /\ y.picture = x.picture /\ y.began = x.began /\ y.epoch = x.epoch /\ y.outerEpoch = x.outerEpoch
      BY <1>5, <2>2 DEF SameKeys
    <3> HIDE DEF x, y
    <3>3. Where(y, left.jobs[q]) /\ Sourced(y, left.jobs[q])
      BY <3>1, <3>2 DEF Request_OK, Where, Sourced
    <3>4. When(y, left.jobs[q], epoch) /\ Holds(y, left.jobs[q], epoch, source, context)
      BY <3>1, <3>2 DEF Request_OK, When, Holds
    <3> QED BY <3>3, <3>4 DEF Request_OK, y
  <2> QED BY <2>1, <2>2
<1>7. Fresh'
  <2> SUFFICES ASSUME NEW q \in Request, requests'[q].pc = "new"
               PROVE  requests'[q] = NewRequest
    BY DEF Fresh
  <2>1. q # r /\ requests[q].pc = "new"
    BY <1>4, <1>5 DEF new
  <2>2. requests'[q] = requests[q]
    <3>1. requests' = [Overtaken(r) EXCEPT ![r] = requests'[r]]
      BY DEF Begin, Overtaken
    <3> QED BY <2>1, <3>1 DEF Overtaken
  <2> QED BY <2>1, <2>2 DEF RenderInv, Fresh
<1>8. FlightsRight'
  <2>1. requests[r].owns = {} /\ requests[r].pc = "new" /\ requests[r].cut = {}
    BY <1>1 DEF NewRequest
  <2>2. \A q \in Request : \A t \in Tables : Kept(q, t)' = Kept(q, t)
    BY <1>4, <1>5, <2>1 DEF Kept, new
  <2>3. \A q \in Request : Leaked(q)' = Leaked(q)
    BY <1>4, <1>5, <2>1 DEF Leaked, NoSource, new
  <2>4. \A q \in Request : q # r => \A t \in Tables : KeyIn(q, t)' = KeyIn(q, t)
    BY <1>1, <1>5 DEF KeyIn, FrameKey, ScopeKey, MaskKey, GradeOf, SameKeys
  <2>5. \A t \in Tables : ~Kept(r, t) /\ ~Leaked(r)
    BY <2>1 DEF Kept, Leaked
  <2>6. \A t \in Tables : \A key \in DOMAIN inflight[t] : inflight[t][key] \in Request
    BY DEF RenderInv, Types, FlightTypes
  <2>7. \A t \in Tables : \A key \in DOMAIN inflight[t] : FlightOf(inflight[t][key], t, key)'
    BY <1>1, <2>2, <2>3, <2>4, <2>5, <2>6 DEF RenderInv, FlightsRight, FlightOf
  <2>8. \A t \in Tables : \A q \in Request : Kept(q, t)' =>
          KeyIn(q, t)' \in DOMAIN inflight'[t] /\ inflight'[t][KeyIn(q, t)'] = q
    BY <1>1, <2>2, <2>4, <2>5 DEF RenderInv, FlightsRight
  <2>9. \A q \in Request : requests'[q].pc \in {"m_start", "m_compute"} /\ requests'[q].epoch = epoch'
          => Kept(q, "mask")'
    BY <1>1, <1>4, <1>5, <2>2 DEF RenderInv, FlightsRight, Tables, SameKeys, new
  <2> QED BY <1>1, <2>7, <2>8, <2>9 DEF FlightsRight
<1>9. TablesNow'
  BY <1>1 DEF results, RenderInv, TablesNow
<1>10. Types'
  <2>1. RequestTypes'
    BY <1>1, <1>3, <1>5 DEF RenderInv, Types, RequestTypes
  <2> QED BY <1>1, <2>1 DEF results, RenderInv, Types, SessionTypes, TableTypes, FlightTypes
<1> QED BY <1>6, <1>7, <1>8, <1>9, <1>10 DEF RenderInv

-----------------------------------------------------------------------------
(* Changes of the session: tables are emptied, flights are taken out.         *)

\* A request only remembers which of its flights were taken out.
LEMMA ClearedRequests ==
  ASSUME RenderInv, NEW T \in SUBSET Tables, Cleared(T), left' \in Budget, left'.jobs = left.jobs
  PROVE  /\ RequestTypes' /\ Fresh' /\ FlightTypes'
         /\ \A q \in Request : requests'[q] = [requests[q] EXCEPT !.cut = @ \cup (requests[q].owns \cap T)]
         /\ \A table \in Tables : inflight'[table] = IF table \in T THEN Empty ELSE inflight[table]
<1>1. /\ requests \in [Request -> RequestType] /\ DOMAIN inflight = Tables
      /\ \A table \in Tables : \A key \in DOMAIN inflight[table] : inflight[table][key] \in Request
  BY DEF RenderInv, Types, RequestTypes, FlightTypes
<1>2. requests' = [q \in Request |-> [requests[q] EXCEPT !.cut = @ \cup (requests[q].owns \cap T)]]
  BY DEF Cleared
<1>3. \A q \in Request : requests'[q] = [requests[q] EXCEPT !.cut = @ \cup (requests[q].owns \cap T)]
  BY <1>2
<1>4. \A q \in Request : requests'[q] \in RequestType /\ requests'[q].pc = requests[q].pc
  <2> SUFFICES ASSUME NEW q \in Request
               PROVE  requests'[q] \in RequestType /\ requests'[q].pc = requests[q].pc
    OBVIOUS
  <2> DEFINE x == requests[q]
             cut == x.cut \cup (x.owns \cap T)
  <2>1. requests'[q] = [x EXCEPT !.cut = cut] /\ x \in RequestType
    BY <1>1, <1>3
  <2> HIDE DEF x
  <2>2. cut \in SUBSET Tables
    BY <2>1 DEF RequestType
  <2> HIDE DEF cut
  <2>3. requests'[q] \in RequestType /\ requests'[q].pc = x.pc
    BY <2>1, <2>2 DEF RequestType
  <2> QED BY <2>3 DEF x
<1>5. RequestTypes'
  <2>1. requests' \in [Request -> RequestType]
    BY <1>2, <1>4
  <2> QED BY <1>4, <2>1 DEF RenderInv, Types, RequestTypes
<1>6. Fresh'
  <2> SUFFICES ASSUME NEW q \in Request, requests'[q].pc = "new"
               PROVE  requests'[q] = NewRequest
    BY DEF Fresh
  <2>1. requests[q] = NewRequest
    BY <1>4 DEF RenderInv, Fresh
  <2>2. requests[q].cut \cup (requests[q].owns \cap T) = {}
    BY <2>1 DEF NewRequest
  <2>3. requests'[q] = [requests[q] EXCEPT !.cut = {}]
    BY <1>3, <2>2
  <2>4. \A x \in RequestType : x.cut = {} => [x EXCEPT !.cut = {}] = x
    BY DEF RequestType
  <2>5. requests[q].cut = {}
    BY <2>1 DEF NewRequest
  <2>6. requests[q] \in RequestType
    BY <1>1
  <2> QED BY <2>1, <2>3, <2>4, <2>5, <2>6
<1>7. inflight' = [table \in Tables |-> IF table \in T THEN Empty ELSE inflight[table]]
  BY <1>1 DEF Cleared
<1>8. \A table \in Tables : inflight'[table] = IF table \in T THEN Empty ELSE inflight[table]
  BY <1>7
<1>9. FlightTypes'
  BY <1>1, <1>7, <1>8 DEF FlightTypes, Empty
<1> QED BY <1>3, <1>5, <1>6, <1>8, <1>9

\* What is left of the table is still right, if no compile of this epoch is cut.
LEMMA ClearedFlights ==
  ASSUME RenderInv, NEW T \in SUBSET Tables, Cleared(T), left' \in Budget, left'.jobs = left.jobs,
         epoch' = epoch + 1 \/ (epoch' = epoch /\ "mask" \notin T)
  PROVE  FlightsRight'
<1>1. /\ \A q \in Request : requests'[q] = [requests[q] EXCEPT !.cut = @ \cup (requests[q].owns \cap T)]
      /\ \A table \in Tables : inflight'[table] = IF table \in T THEN Empty ELSE inflight[table]
  BY ClearedRequests
<1>2. requests \in [Request -> RequestType] /\ epoch \in Nat
  BY DEF RenderInv, Types, SessionTypes, RequestTypes
<1>3. \A q \in Request : /\ SameKeys(q, requests'[q]) /\ requests'[q].pc = requests[q].pc
                         /\ requests'[q].owns = requests[q].owns
                         /\ requests'[q].cut = requests[q].cut \cup (requests[q].owns \cap T)
                         /\ requests'[q].fails = requests[q].fails /\ requests'[q].src = requests[q].src
  <2> TAKE q \in Request
  <2> DEFINE x == requests[q]
             cut == x.cut \cup (x.owns \cap T)
             y == requests'[q]
  <2>1. y = [x EXCEPT !.cut = cut] /\ x \in RequestType
    BY <1>1, <1>2
  <2> HIDE DEF x, y
  <2>2. /\ y.epoch = x.epoch /\ y.context = x.context /\ y.outerEpoch = x.outerEpoch
        /\ y.outerContext = x.outerContext /\ y.pc = x.pc /\ y.owns = x.owns /\ y.cut = cut
        /\ y.fails = x.fails /\ y.src = x.src
    BY <2>1 DEF RequestType
  <2> QED BY <2>2 DEF SameKeys, x, y
<1>4. \A q \in Request : \A table \in Tables : Kept(q, table)' = (Kept(q, table) /\ table \notin T)
  BY <1>3 DEF Kept
<1>5. \A q \in Request : Leaked(q)' = Leaked(q)
  BY <1>3 DEF Leaked, NoSource
<1>6. \A q \in Request : \A table \in Tables : KeyIn(q, table)' = KeyIn(q, table)
  BY <1>3 DEF KeyIn, FrameKey, ScopeKey, MaskKey, GradeOf, SameKeys
<1>7. \A table \in Tables : \A key \in DOMAIN inflight[table] : inflight[table][key] \in Request
  BY DEF RenderInv, Types, FlightTypes
<1>8. \A table \in Tables : \A key \in DOMAIN inflight'[table] : \A o :
        o = inflight'[table][key] => FlightOf(o, table, key)'
  <2> SUFFICES ASSUME NEW table \in Tables, NEW key \in DOMAIN inflight'[table], NEW o, o = inflight'[table][key]
               PROVE  FlightOf(o, table, key)'
    OBVIOUS
  <2>1. table \notin T /\ inflight'[table] = inflight[table]
    BY <1>1 DEF Empty
  <2>2. FlightOf(o, table, key) /\ o \in Request
    BY <1>7, <2>1 DEF RenderInv, FlightsRight
  <2> QED BY <1>4, <1>5, <1>6, <2>1, <2>2 DEF FlightOf
<1>9. \A table \in Tables : \A q \in Request : Kept(q, table)' =>
        KeyIn(q, table)' \in DOMAIN inflight'[table] /\ inflight'[table][KeyIn(q, table)'] = q
  <2> SUFFICES ASSUME NEW table \in Tables, NEW q \in Request, Kept(q, table)'
               PROVE  KeyIn(q, table)' \in DOMAIN inflight'[table] /\ inflight'[table][KeyIn(q, table)'] = q
    OBVIOUS
  <2>1. Kept(q, table) /\ inflight'[table] = inflight[table] /\ KeyIn(q, table)' = KeyIn(q, table)
    BY <1>1, <1>4, <1>6
  <2>2. KeyIn(q, table) \in DOMAIN inflight[table] /\ inflight[table][KeyIn(q, table)] = q
    BY <2>1 DEF RenderInv, FlightsRight
  <2> QED BY <2>1, <2>2
<1>10. \A q \in Request : requests'[q].pc \in {"m_start", "m_compute"} /\ requests'[q].epoch = epoch'
        => Kept(q, "mask")'
  <2> SUFFICES ASSUME NEW q \in Request, requests'[q].pc \in {"m_start", "m_compute"}, requests'[q].epoch = epoch'
               PROVE  Kept(q, "mask")'
    OBVIOUS
  <2>1. requests[q].pc \in {"m_start", "m_compute"} /\ requests[q].epoch = epoch'
    BY <1>3 DEF SameKeys
  <2>2. requests[q].epoch <= epoch
    BY <2>1, Here DEF When
  <2>3. epoch' = epoch /\ "mask" \notin T
    BY <1>2, <2>1, <2>2
  <2> QED BY <1>4, <2>1, <2>3 DEF RenderInv, FlightsRight, Tables
<1> QED BY <1>8, <1>9, <1>10 DEF FlightsRight

\* What requests hold is of their epoch: it stays right when the epoch stays, or
\* when the epoch goes on, whatever the source and the context become.
LEMMA ClearedLocal ==
  ASSUME RenderInv, NEW T \in SUBSET Tables, Cleared(T), left' \in Budget, left'.jobs = left.jobs,
         epoch' = epoch + 1 \/ UNCHANGED <<epoch, source, context>>
  PROVE  Local'
<1> SUFFICES ASSUME NEW q \in Request, requests'[q].pc # "new"
             PROVE  Request_OK(requests'[q], left.jobs[q], epoch', source', context')
  BY DEF Local
<1> DEFINE x == requests[q]
          y == requests'[q]
          job == left.jobs[q]
<1>1. y = [x EXCEPT !.cut = @ \cup (x.owns \cap T)] /\ x \in RequestType
  BY ClearedRequests DEF RenderInv, Types, RequestTypes
<1>2. y.pc # "new" /\ x.pc # "new"
  BY <1>1 DEF RequestType
<1>3. /\ Where(x, job) /\ Sourced(x, job) /\ When(x, job, epoch) /\ Holds(x, job, epoch, source, context)
      /\ epoch \in Nat
  BY <1>2, Here
<1> HIDE DEF x, y, job
<1>4. /\ y.pc = x.pc /\ y.owns = x.owns /\ y.fails = x.fails /\ y.src = x.src /\ y.mask = x.mask
      /\ y.picture = x.picture /\ y.began = x.began /\ y.epoch = x.epoch /\ y.outerEpoch = x.outerEpoch
  BY <1>1 DEF RequestType
<1>5. x.began \in Nat /\ x.epoch \in Nat /\ x.outerEpoch \in Nat
  BY <1>1 DEF RequestType
<1>6. Where(y, job) /\ Sourced(y, job)
  BY <1>3, <1>4 DEF Where, Sourced
<1>7. When(y, job, epoch')
  BY <1>3, <1>4, <1>5 DEF When
<1>8. Holds(y, job, epoch', source', context')
  <2>1. CASE UNCHANGED <<epoch, source, context>>
    BY <1>3, <1>4, <2>1 DEF Holds
  <2>2. CASE epoch' = epoch + 1
    <3>1. y.epoch # epoch' /\ y.began # epoch'
      BY <1>3, <1>4, <1>5, <2>2 DEF When
    <3>2. y.pc = "m_store" => y.mask = y.src
      BY <1>3, <1>4 DEF Holds
    <3> QED BY <3>1, <3>2 DEF Holds
  <2> QED BY <2>1, <2>2
<1> QED BY <1>6, <1>7, <1>8 DEF Request_OK, y, job

\* The change as a whole, with the tables that it leaves.
LEMMA ChangeStep ==
  ASSUME RenderInv, NEW T \in SUBSET Tables, Cleared(T), left' \in Budget, left'.jobs = left.jobs,
         epoch' = epoch + 1 \/ (UNCHANGED <<epoch, source, context>> /\ "mask" \notin T),
         SessionTypes', frames' = Empty, peaks' = Empty, scopes' = Empty,
         masks' = Empty \/ UNCHANGED <<source, masks>>
  PROVE  RenderInv'
<1>1. RequestTypes' /\ Fresh' /\ FlightTypes'
  BY ClearedRequests
<1>2. FlightsRight'
  BY ClearedFlights
<1>3. Local'
  BY ClearedLocal
<1>4. DOMAIN Empty = {}
  BY DEF Empty
<1>5. TablesNow'
  BY <1>4 DEF RenderInv, TablesNow
<1>6. TableTypes'
  BY <1>4 DEF RenderInv, Types, TableTypes
<1> QED BY <1>1, <1>2, <1>3, <1>5, <1>6 DEF RenderInv, Types

\* A new source, repaired or decoded again.
LEMMA ReplacedStep ==
  ASSUME RenderInv, replace_source \/ update_source_interpretation
  PROVE  RenderInv'
<1>1. left \in Budget /\ epoch \in Nat /\ source \in Nat \ {0} /\ context \in Context /\ token \in Nat
  BY DEF RenderInv, Types, SessionTypes, RequestTypes
<1>2. Replaced /\ token' \in Nat
  BY <1>1 DEF replace_source, update_source_interpretation
<1>3. left' \in Budget /\ left'.jobs = left.jobs
  BY <1>1, SpendKeepsJobs DEF replace_source, update_source_interpretation
<1>4. SessionTypes'
  BY <1>1, <1>2 DEF Replaced, SessionTypes
<1>5. Tables \in SUBSET Tables
  OBVIOUS
<1> QED BY <1>2, <1>3, <1>4, <1>5, ChangeStep DEF Replaced

\* A new colour context: the masks stay.
LEMMA ContextStep ==
  ASSUME RenderInv, set_color_context
  PROVE  RenderInv'
<1>1. left \in Budget /\ epoch \in Nat /\ source \in Nat \ {0} /\ context \in Context /\ token \in Nat
  BY DEF RenderInv, Types, SessionTypes, RequestTypes
<1>2. left' \in Budget /\ left'.jobs = left.jobs
  BY <1>1, SpendKeepsJobs DEF set_color_context
<1>3. SessionTypes'
  BY <1>1 DEF set_color_context, SessionTypes
<1>4. Tables \in SUBSET Tables
  OBVIOUS
<1> QED BY <1>2, <1>3, <1>4, ChangeStep DEF set_color_context

\* An edit: the epoch, the masks and their flights stay.
LEMMA EditStep ==
  ASSUME RenderInv, clear_adjusted
  PROVE  RenderInv'
<1>1. left \in Budget
  BY DEF RenderInv, Types, RequestTypes
<1>2. left' \in Budget /\ left'.jobs = left.jobs
  BY <1>1, SpendKeepsJobs DEF clear_adjusted
<1>3. SessionTypes'
  BY DEF clear_adjusted, RenderInv, Types, SessionTypes
<1>4. {"frame", "scope"} \in SUBSET Tables /\ "mask" \notin {"frame", "scope"}
  BY DEF Tables
<1> QED BY <1>2, <1>3, <1>4, ChangeStep DEF clear_adjusted

-----------------------------------------------------------------------------
(* The invariant, of every behaviour.                                         *)

\* Nothing is kept and nobody is under way at the start.
LEMMA InitInv == Init => RenderInv
<1> SUFFICES ASSUME Init
             PROVE  RenderInv
  OBVIOUS
<1>1. left \in Budget
  BY FlightAssumption DEF Init
<1>2. \A r \in Request : requests[r] = NewRequest
  BY DEF Init
<1>3. /\ frames = Empty /\ peaks = Empty /\ scopes = Empty /\ masks = Empty /\ DOMAIN Empty = {}
      /\ \A table \in Tables : inflight[table] = Empty
  BY DEF Init, Empty
<1>4. NewRequest \in RequestType /\ NewRequest.pc = "new" /\ NewRequest.owns = {} /\ NewRequest.fails = "none"
  BY DEF NewRequest, RequestType, Pcs, Nothing
<1>5. RequestTypes
  BY <1>1, <1>2, <1>4 DEF Init, RequestTypes
<1>6. SessionTypes
  <2>1. left.context \in Context
    BY <1>1 DEF Budget
  <2> QED BY <2>1 DEF Init, SessionTypes
<1>7. TableTypes /\ TablesNow
  BY <1>3 DEF TableTypes, TablesNow
<1>8. FlightTypes
  BY <1>3 DEF Init, FlightTypes
<1>9. Local /\ Fresh
  BY <1>2, <1>4 DEF Local, Fresh
<1>10. FlightsRight
  <2>1. \A r \in Request : \A table \in Tables : ~Kept(r, table)
    BY <1>2, <1>4 DEF Kept
  <2>2. \A r \in Request : requests[r].pc = "new"
    BY <1>2, <1>4
  <2> QED BY <1>3, <2>1, <2>2 DEF FlightsRight
<1> QED BY <1>5, <1>6, <1>7, <1>8, <1>9, <1>10 DEF RenderInv, Types

\* The steps of one request, in the groups of its thread.
LEMMA PreparingInv ==
  ASSUME RenderInv, NEW r \in Request, Preparing(r)
  PROVE  RenderInv'
BY ReadScopeEpochStep, SignScopeStep, ReadEpochStep, SignStep, ProxiesStep, StripsRefusedStep, BeginMaskStep
   DEF Preparing

\* Looking for a result, or for its flight.
LEMMA AcquiringInv ==
  ASSUME RenderInv, NEW r \in Request, Acquiring(r)
  PROVE  RenderInv'
BY AcquireScopeStep, FrameCachedStep, FrameStaleStep, FrameOwnStep, MaskStopsStep, MaskCachedStep,
   MaskAloneStep, MaskOwnStep, MaskWaitStep DEF Acquiring

\* Making what was asked for.
LEMMA MakingInv ==
  ASSUME RenderInv, NEW r \in Request, Making(r)
  PROVE  RenderInv'
BY RenderStep, CheckFrameStep, RenderStripsStep, StartMaskStep, CompileStep, CheckScopeStep DEF Making

\* Keeping it in the tables.
LEMMA KeepingInv ==
  ASSUME RenderInv, NEW r \in Request, Keeping(r)
  PROVE  RenderInv'
BY StoreFrameStep, CachedPeakStep, MeasurePeakStep, StoreMaskStep, StoreScopeStep DEF Keeping

\* Giving flights back, and answering.
LEMMA EndingInv ==
  ASSUME RenderInv, NEW r \in Request, Releasing(r) \/ Answering(r)
  PROVE  RenderInv'
BY ReleaseFrameStep, ReleaseMaskStep, ReleaseScopeStep, AnswerStep, AnswerMaskStep DEF Releasing, Answering

\* Every step keeps the invariant.
LEMMA NextInv == RenderInv /\ [Next]_vars => RenderInv'
<1> SUFFICES ASSUME RenderInv, [Next]_vars
             PROVE  RenderInv'
  OBVIOUS
<1>1. ASSUME NEW r \in Request, Begin(r) PROVE RenderInv'
  BY <1>1, BeginStep
<1>2. ASSUME NEW r \in Request, Step(r) PROVE RenderInv'
  BY <1>2, PreparingInv, AcquiringInv, MakingInv, KeepingInv, EndingInv DEF Step
<1>3. ASSUME NEW r \in Request, Failing(r) PROVE RenderInv'
  BY <1>3, ProxiesFailStep, RenderFailsStep DEF Failing
<1>4. ASSUME NEW r \in Request, Leave(r) PROVE RenderInv'
  BY <1>4, LeaveStep
<1>5. CASE replace_source \/ update_source_interpretation
  BY <1>5, ReplacedStep
<1>6. CASE set_color_context
  BY <1>6, ContextStep
<1>7. CASE clear_adjusted
  BY <1>7, EditStep
<1>8. CASE UNCHANGED vars
  <2>1. /\ UNCHANGED <<epoch, source, context>> /\ UNCHANGED <<frames, peaks, scopes, masks>>
        /\ inflight' = inflight /\ requests' = requests /\ token' = token /\ left' = left
    BY <1>8 DEF vars
  <2>2. Types' /\ Local' /\ Fresh' /\ TablesNow'
    BY <2>1 DEF RenderInv, Types, SessionTypes, TableTypes, FlightTypes, RequestTypes, Local, Fresh, TablesNow
  <2>3. \A r \in Request : \A table \in Tables : Kept(r, table)' = Kept(r, table)
    BY <2>1 DEF Kept
  <2>4. FlightsRight'
    BY <2>1 DEF RenderInv, FlightsRight, FlightOf, KeyIn, FrameKey, ScopeKey, MaskKey, GradeOf, Kept, Leaked, NoSource
  <2> QED BY <2>2, <2>4 DEF RenderInv
<1> QED BY <1>1, <1>2, <1>3, <1>4, <1>5, <1>6, <1>7, <1>8 DEF Next

\* The invariant, of every behaviour.
LEMMA RenderInvHolds == Spec => []RenderInv
<1>1. Init => RenderInv
  BY InitInv
<1>2. RenderInv /\ [Next]_vars => RenderInv'
  BY NextInv
<1> QED BY <1>1, <1>2, PTL DEF Spec

-----------------------------------------------------------------------------
(* What it says.                                                              *)

\* A flight in the table is that of the request that computes it, under that
\* request's key, and a request keeps its flight until it gives it back or a
\* change takes it away: nobody takes away the flight of the next owner, in any
\* number of edits, replacements and failures.
THEOREM FlightsMatchHolds == Spec => []FlightsMatchOwners
<1>1. RenderInv => FlightsMatchOwners
  <2> SUFFICES ASSUME RenderInv
               PROVE  FlightsMatchOwners
    OBVIOUS
  <2>1. \A table \in Tables : \A key \in DOMAIN inflight[table] :
          LET r == inflight[table][key] IN
            KeyIn(r, table) = key /\ (table \in requests[r].owns \ requests[r].cut \/ NoSource(r))
    BY DEF RenderInv, FlightsRight, FlightOf, Kept, Leaked
  <2>2. \A table \in Tables : \A r \in Request : table \in requests[r].owns \ requests[r].cut =>
          KeyIn(r, table) \in DOMAIN inflight[table] /\ inflight[table][KeyIn(r, table)] = r
    BY DEF RenderInv, FlightsRight, Kept
  <2> QED BY <2>1, <2>2 DEF FlightsMatchOwners
<1> QED BY <1>1, RenderInvHolds, PTL

\* Whatever was cached or under way when the source, its colour context or the
\* grade changed: a request that began later is answered with a picture of this
\* source, in this context, under its mask of this source; no mask of an earlier
\* source is kept, and a kept peak was measured of the frame kept with it.
THEOREM NothingStaleHolds == Spec => []NothingStale
<1>1. RenderInv => NothingStale
  <2> SUFFICES ASSUME RenderInv
               PROVE  NothingStale
    OBVIOUS
  <2>1. FreshAnswers
    <3> SUFFICES ASSUME NEW r \in Request, Answered(r), requests[r].began = epoch
                 PROVE  IF Kind(r) = "mask" THEN requests[r].mask = source
                        ELSE requests[r].picture = PictureNow(GradeOf(r))
      BY DEF FreshAnswers
    <3>1. requests[r].pc = "done" /\ requests[r].fails = "none"
      BY DEF Answered
    <3>2. Holds(requests[r], left.jobs[r], epoch, source, context)
      BY <3>1, Here
    <3> QED BY <3>1, <3>2 DEF Holds, Kind, GradeOf, PictureNow, Now
  <2>2. MasksOfThisSource
    BY DEF RenderInv, TablesNow, MasksOfThisSource
  <2>3. PeaksOfFrames
    BY DEF RenderInv, TablesNow, PeaksOfFrames
  <2> QED BY <2>1, <2>2, <2>3 DEF NothingStale
<1> QED BY <1>1, RenderInvHolds, PTL

\* The same mask of the current source is never compiled by two requests at once.
LEMMA OneMaskCompileInv == RenderInv => OneMaskCompile
<1> SUFFICES ASSUME RenderInv, NEW r \in Request, NEW q \in Request, r # q,
                    requests[r].pc = "m_compute", requests[q].pc = "m_compute",
                    requests[r].epoch = epoch, MaskKey(r) = MaskKey(q)
             PROVE  FALSE
  BY DEF OneMaskCompile
<1>1. requests[q].epoch = epoch
  BY DEF MaskKey
<1>2. Kept(r, "mask") /\ Kept(q, "mask")
  BY <1>1 DEF RenderInv, FlightsRight
<1>3. inflight["mask"][KeyIn(r, "mask")] = r /\ inflight["mask"][KeyIn(q, "mask")] = q
  BY <1>2 DEF RenderInv, FlightsRight, Tables
<1>4. KeyIn(r, "mask") = KeyIn(q, "mask")
  BY DEF KeyIn
<1> QED BY <1>3, <1>4

-----------------------------------------------------------------------------
(* Who waits for a mask, and how many (_flight_waiters).                      *)

Waiting(key) == {r \in Request : requests[r].waiting /\ MaskKey(r) = key}
WaitersRight ==
  /\ \A r \in Request : requests[r].waiting => requests[r].pc = "m_acquire" /\ MaskKey(r) \in DOMAIN waiters
  /\ \A key \in DOMAIN waiters : waiters[key] \in Nat \ {0} /\ waiters[key] = Cardinality(Waiting(key))

\* Who waits goes on waiting for the same mask, and nobody else begins to.
StillWaits(q) ==
  /\ requests'[q].waiting = requests[q].waiting
  /\ requests[q].waiting => requests'[q].pc = "m_acquire" /\ requests'[q].epoch = requests[q].epoch
LEMMA WaitersStay ==
  ASSUME WaitersRight, waiters' = waiters, left'.jobs = left.jobs, \A q \in Request : StillWaits(q)
  PROVE  WaitersRight'
<1>1. \A q \in Request : requests[q].waiting => MaskKey(q)' = MaskKey(q)
  BY DEF StillWaits, MaskKey, GradeOf
<1>2. \A key : Waiting(key)' = Waiting(key)
  BY <1>1 DEF StillWaits, Waiting
<1> QED BY <1>1, <1>2 DEF StillWaits, WaitersRight

\* Those who wait are finitely many.
LEMMA WaitingFinite ==
  ASSUME NEW key
  PROVE  IsFiniteSet(Waiting(key)) /\ Cardinality(Waiting(key)) \in Nat
<1>1. Waiting(key) \subseteq Request
  BY DEF Waiting
<1> QED BY <1>1, FlightAssumption, FS_Subset, FS_CardinalityType

\* A request that stops waiting is taken off the count of its mask, and the
\* last one takes the count away.
LEMMA WaiterLeaves ==
  ASSUME RenderInv, WaitersRight, NEW r \in Request, NEW y, NEW served, Unregistered(r, served),
         requests' = [requests EXCEPT ![r] = y], y.waiting = FALSE, left'.jobs = left.jobs
  PROVE  WaitersRight'
<1>0. PICK key : key = MaskKey(r)
  OBVIOUS
<1>1. requests'[r] = y /\ \A q \in Request : q # r => requests'[q] = requests[q]
  BY DEF RenderInv, Types, RequestTypes
<1>2. \A q \in Request : q # r => MaskKey(q)' = MaskKey(q)
  BY <1>1 DEF MaskKey, GradeOf
<1>3. \A k : Waiting(k)' = Waiting(k) \ {r}
  BY <1>1, <1>2 DEF Waiting
<1>4. CASE ~requests[r].waiting
  <2>1. waiters' = waiters /\ \A k : Waiting(k)' = Waiting(k)
    BY <1>3, <1>4 DEF Unregistered, Waiting
  <2> QED BY <1>1, <1>2, <2>1 DEF WaitersRight
<1>5. CASE requests[r].waiting
  <2>1. /\ key \in DOMAIN waiters /\ waiters[key] \in Nat \ {0} /\ waiters[key] = Cardinality(Waiting(key))
        /\ r \in Waiting(key)
    BY <1>0, <1>5 DEF WaitersRight, Waiting
  <2>2. \A k : k # key => Waiting(k)' = Waiting(k)
    BY <1>0, <1>3 DEF Waiting
  <2>3. IsFiniteSet(Waiting(key)')  /\ Cardinality(Waiting(key)') = Cardinality(Waiting(key)) - 1
    BY <1>3, <2>1, WaitingFinite, FS_RemoveElement
  <2>4. \A q \in Request : requests'[q].waiting =>
          requests'[q].pc = "m_acquire" /\ MaskKey(q)' \in DOMAIN waiters /\ (MaskKey(q)' = key => q \in Waiting(key)')
    BY <1>1, <1>2 DEF WaitersRight, Waiting
  <2>5. CASE waiters[key] > 1
    <3>1. waiters' = [waiters EXCEPT ![key] = @ - 1]
      BY <1>0, <1>5, <2>5 DEF Unregistered
    <3>2. DOMAIN waiters' = DOMAIN waiters /\ waiters'[key] = waiters[key] - 1
          /\ \A k \in DOMAIN waiters : k # key => waiters'[k] = waiters[k]
      BY <2>1, <3>1
    <3>3. \A k \in DOMAIN waiters' : waiters'[k] \in Nat \ {0} /\ waiters'[k] = Cardinality(Waiting(k)')
      BY <2>1, <2>2, <2>3, <2>5, <3>2 DEF WaitersRight
    <3> QED BY <2>4, <3>2, <3>3 DEF WaitersRight
  <2>6. CASE ~(waiters[key] > 1)
    <3>1. waiters' = Drop(waiters, key)
      BY <1>0, <1>5, <2>6 DEF Unregistered
    <3>2. DOMAIN waiters' = DOMAIN waiters \ {key} /\ \A k \in DOMAIN waiters \ {key} : waiters'[k] = waiters[k]
      BY <3>1 DEF Drop
    <3>3. Waiting(key)' = {}
      <4>1. Cardinality(Waiting(key)') = 0
        BY <2>1, <2>3, <2>6
      <4> QED BY <2>3, <4>1, FS_EmptySet
    <3>4. \A k \in DOMAIN waiters' : waiters'[k] \in Nat \ {0} /\ waiters'[k] = Cardinality(Waiting(k)')
      BY <2>2, <3>2 DEF WaitersRight
    <3>5. \A q \in Request : requests'[q].waiting => MaskKey(q)' # key
      BY <2>4, <3>3
    <3> QED BY <2>4, <3>2, <3>4, <3>5 DEF WaitersRight
  <2> QED BY <2>5, <2>6
<1> QED BY <1>4, <1>5

\* A request that begins to wait is counted.
LEMMA WaiterJoins ==
  ASSUME RenderInv, WaitersRight, NEW r \in Request, MaskWait(r)
  PROVE  WaitersRight'
<1>0. PICK key : key = MaskKey(r)
  OBVIOUS
<1> DEFINE y == [requests[r] EXCEPT !.waiting = TRUE]
<1>1. requests' = [requests EXCEPT ![r] = y] /\ left' = left /\ requests[r] \in RequestType
      /\ requests[r].pc = "m_acquire" /\ ~requests[r].waiting
  BY DEF MaskWait, Update, RenderInv, Types, RequestTypes
<1>2. requests'[r] = y /\ \A q \in Request : q # r => requests'[q] = requests[q]
  BY <1>1 DEF RenderInv, Types, RequestTypes
<1>3. y.waiting = TRUE /\ y.pc = "m_acquire" /\ y.epoch = requests[r].epoch
  BY <1>1 DEF RequestType
<1>4. \A q \in Request : MaskKey(q)' = MaskKey(q)
  BY <1>1, <1>2, <1>3 DEF MaskKey, GradeOf
<1> HIDE DEF y
<1>5. Waiting(key)' = Waiting(key) \cup {r} /\ r \notin Waiting(key)
      /\ \A k : k # key => Waiting(k)' = Waiting(k)
  BY <1>0, <1>1, <1>2, <1>3, <1>4 DEF Waiting
<1>6. Cardinality(Waiting(key)') = Cardinality(Waiting(key)) + 1 /\ Cardinality(Waiting(key)) \in Nat
  BY <1>5, WaitingFinite, FS_AddElement
<1>7. key \notin DOMAIN waiters => Cardinality(Waiting(key)) = 0
  <2>1. key \notin DOMAIN waiters => Waiting(key) = {}
    BY DEF WaitersRight, Waiting
  <2> QED BY <2>1, FS_EmptySet
<1>8. waiters' = Put(waiters, key, IF key \in DOMAIN waiters THEN waiters[key] + 1 ELSE 1)
  BY <1>0 DEF MaskWait
<1> DEFINE many == IF key \in DOMAIN waiters THEN waiters[key] + 1 ELSE 1
<1>9. many \in Nat \ {0} /\ many = Cardinality(Waiting(key)')
  BY <1>6, <1>7 DEF WaitersRight
<1> HIDE DEF many
<1>10. DOMAIN waiters' = DOMAIN waiters \cup {key} /\ waiters'[key] = many
       /\ \A k \in DOMAIN waiters : k # key => waiters'[k] = waiters[k]
  BY <1>8 DEF Put, many
<1>11. \A k \in DOMAIN waiters' : waiters'[k] \in Nat \ {0} /\ waiters'[k] = Cardinality(Waiting(k)')
  BY <1>5, <1>9, <1>10 DEF WaitersRight
<1>12. \A q \in Request : requests'[q].waiting => requests'[q].pc = "m_acquire" /\ MaskKey(q)' \in DOMAIN waiters'
  BY <1>0, <1>2, <1>3, <1>4, <1>10 DEF WaitersRight
<1> QED BY <1>11, <1>12 DEF WaitersRight

\* The steps of a request that is not after a mask count nobody.
NotWaiting(r) ==
  /\ waiters' = waiters /\ left'.jobs = left.jobs /\ requests[r].pc # "m_acquire"
  /\ \A q \in Request : q # r => requests'[q] = requests[q]
  /\ requests'[r].waiting = requests[r].waiting
LEMMA NotWaitingStep ==
  ASSUME WaitersRight, NEW r \in Request, NotWaiting(r)
  PROVE  WaitersRight'
<1>1. \A q \in Request : StillWaits(q)
  BY DEF WaitersRight, NotWaiting, StillWaits
<1> QED BY <1>1, WaitersStay DEF NotWaiting

\* Reading the session, and taking the source.
LEMMA PreparingWaiters ==
  ASSUME RenderInv, WaitersRight, NEW r \in Request,
         ReadScopeEpoch(r) \/ SignScope(r) \/ ReadEpoch(r) \/ Sign(r) \/ Proxies(r) \/ StripsRefused(r) \/ BeginMask(r)
  PROVE  NotWaiting(r)
<1>1. requests \in [Request -> RequestType] /\ requests[r] \in RequestType /\ left \in Budget
  BY DEF RenderInv, Types, RequestTypes
<1>2. CASE ReadScopeEpoch(r)
  BY <1>1, <1>2 DEF ReadScopeEpoch, Update, Go, Raise, NotWaiting, RequestType
<1>3. CASE SignScope(r)
  BY <1>1, <1>3 DEF SignScope, Update, Go, Raise, NotWaiting, RequestType
<1>4. CASE ReadEpoch(r)
  BY <1>1, <1>4 DEF ReadEpoch, Update, Go, Raise, NotWaiting, RequestType
<1>5. CASE Sign(r)
  BY <1>1, <1>5 DEF Sign, Update, Go, Raise, NotWaiting, RequestType
<1>6. CASE Proxies(r)
  BY <1>1, <1>6 DEF Proxies, Update, Go, Raise, NotWaiting, RequestType
<1>7. CASE StripsRefused(r)
  BY <1>1, <1>7 DEF StripsRefused, Update, Go, Raise, NotWaiting, RequestType
<1>8. CASE BeginMask(r)
  BY <1>1, <1>8 DEF BeginMask, Update, Go, Raise, NotWaiting, RequestType
<1> QED BY <1>2, <1>3, <1>4, <1>5, <1>6, <1>7, <1>8

\* Looking for a frame or a scope.
LEMMA FrameAcquiringWaiters ==
  ASSUME RenderInv, WaitersRight, NEW r \in Request,
         AcquireScope(r) \/ FrameCached(r) \/ FrameStale(r) \/ FrameOwn(r)
  PROVE  NotWaiting(r)
<1>1. requests \in [Request -> RequestType] /\ requests[r] \in RequestType /\ left \in Budget
  BY DEF RenderInv, Types, RequestTypes
<1>2. CASE AcquireScope(r)
  <2>1. waiters' = waiters /\ left' = left /\ requests[r].pc = "s_acquire"
    BY <1>2 DEF AcquireScope
  <2>2. requests'[r].waiting = requests[r].waiting /\ \A q \in Request : q # r => requests'[q] = requests[q]
    <3>1. CASE Update(r, [requests[r] EXCEPT !.picture = scopes[ScopeKey(r)], !.pc = "answer"])
      BY <1>1, <3>1 DEF Update, RequestType
    <3>2. CASE Raise(r, "stale")
      BY <1>1, <3>2 DEF Raise, Update, RequestType
    <3>3. CASE Update(r, [requests[r] EXCEPT !.owns = @ \cup {"scope"}, !.cut = @ \ {"scope"}, !.pc = "f_epoch"])
      BY <1>1, <3>3 DEF Update, RequestType
    <3> QED BY <1>2, <3>1, <3>2, <3>3 DEF AcquireScope
  <2> QED BY <1>1, <2>1, <2>2 DEF NotWaiting
<1>3. CASE FrameCached(r)
  BY <1>1, <1>3 DEF FrameCached, Update, Go, Raise, NotWaiting, RequestType
<1>4. CASE FrameStale(r)
  BY <1>1, <1>4 DEF FrameStale, Update, Go, Raise, NotWaiting, RequestType
<1>5. CASE FrameOwn(r)
  BY <1>1, <1>5 DEF FrameOwn, Update, Go, Raise, NotWaiting, RequestType
<1> QED BY <1>2, <1>3, <1>4, <1>5

\* Making a picture or a mask.
LEMMA MakingWaiters ==
  ASSUME RenderInv, WaitersRight, NEW r \in Request,
         Render(r) \/ CheckFrame(r) \/ RenderStrips(r) \/ StartMask(r) \/ Compile(r) \/ CheckScope(r)
  PROVE  NotWaiting(r)
<1>1. requests \in [Request -> RequestType] /\ requests[r] \in RequestType /\ left \in Budget
  BY DEF RenderInv, Types, RequestTypes
<1>2. CASE Render(r)
  BY <1>1, <1>2 DEF Render, Update, Go, Raise, NotWaiting, RequestType
<1>3. CASE CheckFrame(r)
  BY <1>1, <1>3 DEF CheckFrame, Update, Go, Raise, NotWaiting, RequestType
<1>4. CASE RenderStrips(r)
  BY <1>1, <1>4 DEF RenderStrips, Update, Go, Raise, NotWaiting, RequestType
<1>5. CASE StartMask(r)
  BY <1>1, <1>5 DEF StartMask, Update, Go, Raise, NotWaiting, RequestType
<1>6. CASE Compile(r)
  BY <1>1, <1>6 DEF Compile, Update, Go, Raise, NotWaiting, RequestType
<1>7. CASE CheckScope(r)
  BY <1>1, <1>7 DEF CheckScope, Update, Go, Raise, NotWaiting, RequestType
<1> QED BY <1>2, <1>3, <1>4, <1>5, <1>6, <1>7

\* Keeping what was made.
LEMMA KeepingWaiters ==
  ASSUME RenderInv, WaitersRight, NEW r \in Request,
         StoreFrame(r) \/ CachedPeak(r) \/ MeasurePeak(r) \/ StoreMask(r) \/ StoreScope(r)
  PROVE  NotWaiting(r)
<1>1. requests \in [Request -> RequestType] /\ requests[r] \in RequestType /\ left \in Budget
  BY DEF RenderInv, Types, RequestTypes
<1>2. CASE StoreFrame(r)
  BY <1>1, <1>2 DEF StoreFrame, Update, Go, Raise, NotWaiting, RequestType
<1>3. CASE CachedPeak(r)
  BY <1>1, <1>3 DEF CachedPeak, Update, Go, Raise, NotWaiting, RequestType
<1>4. CASE MeasurePeak(r)
  BY <1>1, <1>4 DEF MeasurePeak, Update, Go, Raise, NotWaiting, RequestType
<1>5. CASE StoreMask(r)
  BY <1>1, <1>5 DEF StoreMask, Update, Go, Raise, NotWaiting, RequestType
<1>6. CASE StoreScope(r)
  BY <1>1, <1>6 DEF StoreScope, Update, Go, Raise, NotWaiting, RequestType
<1> QED BY <1>2, <1>3, <1>4, <1>5, <1>6

\* Giving a flight back.
LEMMA ReleasingWaiters ==
  ASSUME RenderInv, WaitersRight, NEW r \in Request,
         ReleaseFrame(r) \/ ReleaseMask(r) \/ ReleaseScope(r)
  PROVE  NotWaiting(r)
<1>1. requests \in [Request -> RequestType] /\ requests[r] \in RequestType /\ left \in Budget
  BY DEF RenderInv, Types, RequestTypes
<1>2. CASE ReleaseFrame(r)
  BY <1>1, <1>2 DEF ReleaseFrame, Update, Go, Raise, NotWaiting, RequestType
<1>3. CASE ReleaseMask(r)
  BY <1>1, <1>3 DEF ReleaseMask, Update, Go, Raise, NotWaiting, RequestType
<1>4. CASE ReleaseScope(r)
  BY <1>1, <1>4 DEF ReleaseScope, Update, Go, Raise, NotWaiting, RequestType
<1> QED BY <1>2, <1>3, <1>4

\* Answering.
LEMMA AnsweringWaiters ==
  ASSUME RenderInv, WaitersRight, NEW r \in Request,
         Answer(r) \/ AnswerMask(r)
  PROVE  NotWaiting(r)
<1>1. requests \in [Request -> RequestType] /\ requests[r] \in RequestType /\ left \in Budget
  BY DEF RenderInv, Types, RequestTypes
<1>2. CASE Answer(r)
  BY <1>1, <1>2 DEF Answer, Update, Go, Raise, NotWaiting, RequestType
<1>3. CASE AnswerMask(r)
  BY <1>1, <1>3 DEF AnswerMask, Update, Go, Raise, NotWaiting, RequestType
<1> QED BY <1>2, <1>3

\* Failing.
LEMMA FailingWaiters ==
  ASSUME RenderInv, WaitersRight, NEW r \in Request,
         ProxiesFail(r) \/ RenderFails(r)
  PROVE  NotWaiting(r)
<1>1. requests \in [Request -> RequestType] /\ requests[r] \in RequestType /\ left \in Budget
  BY DEF RenderInv, Types, RequestTypes
<1>2. CASE ProxiesFail(r)
  BY <1>1, <1>2, SpendKeepsJobs DEF ProxiesFail, Update, Go, Raise, NotWaiting, RequestType
<1>3. CASE RenderFails(r)
  BY <1>1, <1>3, SpendKeepsJobs DEF RenderFails, Update, Go, Raise, NotWaiting, RequestType
<1> QED BY <1>2, <1>3

\* Edits and replacements leave the waiters as they are: who waits looks again.
LEMMA SessionWaiters ==
  ASSUME RenderInv, WaitersRight,
         replace_source \/ update_source_interpretation \/ set_color_context \/ clear_adjusted
  PROVE  WaitersRight'
<1>1. PICK T \in SUBSET Tables : Cleared(T)
  BY DEF replace_source, update_source_interpretation, set_color_context, clear_adjusted, Replaced, Tables
<1>2. left \in Budget /\ requests \in [Request -> RequestType]
  BY DEF RenderInv, Types, RequestTypes
<1>3. left' \in Budget /\ left'.jobs = left.jobs
  BY <1>2, SpendKeepsJobs DEF replace_source, update_source_interpretation, set_color_context, clear_adjusted
<1>4. waiters' = waiters
  BY DEF replace_source, update_source_interpretation, set_color_context, clear_adjusted, Replaced
<1>5. \A q \in Request : StillWaits(q)
  <2> SUFFICES ASSUME NEW q \in Request
               PROVE  StillWaits(q)
    OBVIOUS
  <2> DEFINE x == requests[q]
             cut == x.cut \cup (x.owns \cap T)
  <2>1. requests'[q] = [x EXCEPT !.cut = cut] /\ x \in RequestType
    BY <1>1, <1>2 DEF Cleared
  <2> HIDE DEF x, cut
  <2>2. requests'[q].waiting = x.waiting /\ requests'[q].pc = x.pc /\ requests'[q].epoch = x.epoch
    BY <2>1 DEF RequestType
  <2> QED BY <2>2 DEF StillWaits, WaitersRight, x
<1> QED BY <1>3, <1>4, <1>5, WaitersStay

\* A request that begins does not wait, and stops nobody from waiting.
LEMMA BeginWaiters ==
  ASSUME RenderInv, WaitersRight, NEW r \in Request, Begin(r)
  PROVE  WaitersRight'
<1> DEFINE pc == CASE left.jobs[r].kind = "scope" -> "s_epoch" [] left.jobs[r].kind = "mask" -> "m_begin"
                   [] OTHER -> "f_epoch"
<1>1. /\ requests[r] \in RequestType /\ requests[r] = NewRequest /\ waiters' = waiters /\ left' = left
      /\ requests \in [Request -> RequestType]
  BY DEF Begin, RenderInv, Types, RequestTypes, Fresh
<1>2. requests' = [Overtaken(r) EXCEPT ![r] = [requests[r] EXCEPT !.began = epoch, !.token = token', !.wanted = TRUE,
                                                 !.pc = pc]]
  BY DEF Begin, Kind, Overtaken
<1> HIDE DEF pc
<1>3. \A q \in Request : \/ Overtaken(r)[q] = requests[q]
                         \/ Overtaken(r)[q] = [requests[q] EXCEPT !.wanted = FALSE]
                         \/ Overtaken(r)[q] = [requests[q] EXCEPT !.overtaken = TRUE]
  BY DEF Overtaken
<1>4. \A q \in Request : q # r => requests'[q] = Overtaken(r)[q]
  BY <1>2 DEF Overtaken
<1>5. requests'[r] = [requests[r] EXCEPT !.began = epoch, !.token = token', !.wanted = TRUE, !.pc = pc]
  BY <1>2 DEF Overtaken
<1>6. \A q \in Request : StillWaits(q)
  <2> SUFFICES ASSUME NEW q \in Request
               PROVE  StillWaits(q)
    OBVIOUS
  <2>1. CASE q = r
    <3>1. requests[r].waiting = FALSE
      BY <1>1 DEF NewRequest
    <3>2. requests'[r].waiting = requests[r].waiting
      BY <1>1, <1>5 DEF RequestType
    <3> QED BY <2>1, <3>1, <3>2 DEF StillWaits
  <2>2. CASE q # r
    <3> DEFINE x == requests[q]
               y == requests'[q]
    <3>1. y = x \/ y = [x EXCEPT !.wanted = FALSE] \/ y = [x EXCEPT !.overtaken = TRUE]
      BY <1>3, <1>4, <2>2
    <3>2. x \in RequestType
      BY <1>1
    <3> HIDE DEF x, y
    <3>3. y.waiting = x.waiting /\ y.pc = x.pc /\ y.epoch = x.epoch
      BY <3>1, <3>2 DEF RequestType
    <3> QED BY <3>3 DEF StillWaits, WaitersRight, x, y
  <2> QED BY <2>1, <2>2
<1> QED BY <1>1, <1>6, WaitersStay

\* What happens to a request outside does not take it off the waiters.
LEMMA LeaveWaiters ==
  ASSUME RenderInv, WaitersRight, NEW r \in Request, Leave(r)
  PROVE  WaitersRight'
<1>1. requests \in [Request -> RequestType] /\ requests[r] \in RequestType /\ left \in Budget
  BY DEF RenderInv, Types, RequestTypes
<1>2. waiters' = waiters /\ left'.jobs = left.jobs
  BY <1>1, SpendKeepsJobs DEF Leave
<1>3. PICK y \in {[requests[r] EXCEPT !.obsolete = TRUE], [requests[r] EXCEPT !.gone = TRUE],
                  [requests[r] EXCEPT !.wanted = FALSE]} : requests' = [requests EXCEPT ![r] = y]
  BY DEF Leave, Update
<1>4. y.waiting = requests[r].waiting /\ y.pc = requests[r].pc /\ y.epoch = requests[r].epoch
  BY <1>1, <1>3 DEF RequestType
<1>5. \A q \in Request : StillWaits(q)
  BY <1>1, <1>3, <1>4 DEF StillWaits, WaitersRight
<1> QED BY <1>2, <1>5, WaitersStay

\* A request that gets its mask, compiles it or gives up waiting.
LEMMA MaskLeavesWaiters ==
  ASSUME RenderInv, WaitersRight, NEW r \in Request, MaskStops(r) \/ MaskCached(r) \/ MaskAlone(r) \/ MaskOwn(r)
  PROVE  WaitersRight'
<1>1. requests[r] \in RequestType
  BY DEF RenderInv, Types, RequestTypes
<1>2. CASE MaskStops(r)
  <2> DEFINE y == [requests[r] EXCEPT !.fails = "stale", !.waiting = FALSE, !.pc = Unwind(requests[r].owns)]
  <2>1. y.waiting = FALSE
    BY <1>1 DEF RequestType
  <2> QED BY <1>2, <2>1, WaiterLeaves DEF MaskStops, Update
<1>3. CASE MaskCached(r)
  <2> DEFINE y == [requests[r] EXCEPT !.mask = masks[MaskKey(r)], !.waiting = FALSE, !.pc = AfterMask(r)]
  <2>1. y.waiting = FALSE
    BY <1>1 DEF RequestType
  <2> QED BY <1>3, <2>1, WaiterLeaves DEF MaskCached, Update
<1>4. CASE MaskAlone(r)
  <2> DEFINE y == [requests[r] EXCEPT !.waiting = FALSE, !.pc = "m_start"]
  <2>1. y.waiting = FALSE
    BY <1>1 DEF RequestType
  <2> QED BY <1>4, <2>1, WaiterLeaves DEF MaskAlone, Update
<1>5. CASE MaskOwn(r)
  <2> DEFINE y == [requests[r] EXCEPT !.waiting = FALSE, !.owns = @ \cup {"mask"},
                     !.cut = @ \ {"mask"}, !.pc = "m_start"]
  <2>1. y.waiting = FALSE
    BY <1>1 DEF RequestType
  <2> QED BY <1>5, <2>1, WaiterLeaves DEF MaskOwn, Update
<1> QED BY <1>2, <1>3, <1>4, <1>5

\* Every step counts the waiters right.
LEMMA WaitersNext == RenderInv /\ WaitersRight /\ [Next]_vars => WaitersRight'
<1> SUFFICES ASSUME RenderInv, WaitersRight, [Next]_vars
             PROVE  WaitersRight'
  OBVIOUS
<1>1. ASSUME NEW r \in Request, Preparing(r) \/ Making(r) \/ Keeping(r) \/ Releasing(r) \/ Answering(r) \/ Failing(r)
      PROVE  WaitersRight'
  <2>1. NotWaiting(r)
    BY <1>1, PreparingWaiters, MakingWaiters, KeepingWaiters, ReleasingWaiters, AnsweringWaiters, FailingWaiters
       DEF Preparing, Making, Keeping, Releasing, Answering, Failing
  <2> QED BY <2>1, NotWaitingStep
<1>2. ASSUME NEW r \in Request, Acquiring(r) PROVE WaitersRight'
  <2>1. CASE AcquireScope(r) \/ FrameCached(r) \/ FrameStale(r) \/ FrameOwn(r)
    BY <2>1, FrameAcquiringWaiters, NotWaitingStep
  <2>2. CASE MaskWait(r)
    BY <2>2, WaiterJoins
  <2>3. CASE MaskStops(r) \/ MaskCached(r) \/ MaskAlone(r) \/ MaskOwn(r)
    BY <2>3, MaskLeavesWaiters
  <2> QED BY <1>2, <2>1, <2>2, <2>3 DEF Acquiring
<1>3. ASSUME NEW r \in Request, Begin(r) \/ Leave(r) PROVE WaitersRight'
  BY <1>3, BeginWaiters, LeaveWaiters
<1>4. CASE replace_source \/ update_source_interpretation \/ set_color_context \/ clear_adjusted
  BY <1>4, SessionWaiters
<1>5. CASE UNCHANGED vars
  BY <1>5 DEF vars, WaitersRight, Waiting, MaskKey, GradeOf
<1> QED BY <1>1, <1>2, <1>3, <1>4, <1>5 DEF Next, Step

\* Nobody waits at the start; the count is right in every behaviour.
LEMMA WaitersHold == Spec => []WaitersRight
<1>1. Init => WaitersRight
  BY DEF Init, WaitersRight, NewRequest, Empty
<1>2. RenderInv /\ WaitersRight /\ [Next]_vars => WaitersRight'
  BY WaitersNext
<1> QED BY <1>1, <1>2, RenderInvHolds, PTL DEF Spec

\* Requests for one mask share its compile: two requests never compile a mask of
\* the current source at the same time, and the compile is told exactly how many
\* wait for it, however they leave, fail or are replaced (_flight_waiters).
THEOREM MasksSharedHolds == Spec => []MasksShared
<1>1. WaitersRight => WaitersCounted
  BY DEF WaitersRight, WaitersCounted, Waiting
<1> QED BY <1>1, OneMaskCompileInv, RenderInvHolds, WaitersHold, PTL DEF MasksShared

\* Every variable has its type.
THEOREM TypeOKHolds == Spec => []TypeOK
<1>1. RenderInv /\ WaitersRight => TypeOK
  <2> SUFFICES ASSUME RenderInv, WaitersRight
               PROVE  TypeOK
    OBVIOUS
  <2>1. DOMAIN inflight = Tables
    BY DEF RenderInv, Types, FlightTypes
  <2> QED BY <2>1 DEF RenderInv, Types, SessionTypes, TableTypes, FlightTypes, RequestTypes, WaitersRight, TypeOK
<1> QED BY <1>1, RenderInvHolds, WaitersHold, PTL

-----------------------------------------------------------------------------
(* The preview of the page. Its module has names in common with that of the   *)
(* render cache, so it is an instance; its scenarios are the viewings, and    *)
(* what is left of one is the budget.                                         *)

CONSTANTS Viewings, Slots, MaxRearms
VARIABLES doc, pressed, saves, sched, lane, answers, runs, canvas, surface, accepted, refusal,
          unavailable, gpu, timers, rearms, setting, budget
P == INSTANCE Preview WITH Scenarios <- Viewings, left <- budget

-----------------------------------------------------------------------------
(* The types.                                                                 *)

PreviewTasks == [image : Nat, gen : Nat]
Frames == {"none", "raf", "draft", "device"}
Schedules ==
  [current : PreviewTasks, image : Nat, dragging : BOOLEAN, frame : Frames, again : BOOLEAN,
   release : PreviewTasks, settle : PreviewTasks, refine : PreviewTasks]
\* A settle or refinement that is due has the current task; a frame follows a
\* frame only.
ScheduleOK(s) ==
  /\ s \in Schedules
  /\ s.settle \in {P!NoTask, s.current} /\ s.refine \in {P!NoTask, s.current}
  /\ s.again => s.frame \in {"draft", "device"}

Entries ==
  [owner : Nat, gen : Nat, photo : Nat, scale : Nat, coarse : {"no", "drag", "zoom"},
   snap : BOOLEAN, cancelled : BOOLEAN, drawn : BOOLEAN]
Waits ==
  [kind : P!Kind, pc : P!Pc, task : PreviewTasks, photo : Nat, scale : Nat, gen : Nat, on : Nat]

PageTypes ==
  /\ doc \in [gen : Nat, photo : Nat, scale : Nat, zoomed : BOOLEAN]
  /\ pressed \in {"no", "held", "moved"}
  /\ saves \in [sent : Nat, done : Nat, failed : SUBSET Nat, gone : Nat]
  /\ ScheduleOK(sched) /\ runs \in [P!Slot -> Waits]
  /\ timers \in [zoom : BOOLEAN, retry : Nat] /\ rearms \in 0..MaxRearms
  /\ budget \in P!Bounds /\ setting \in P!Settings
ViewTypes ==
  /\ canvas \in [gen : Nat, photo : Nat, scale : Nat, coarse : BOOLEAN]
  /\ accepted \in [gen : Nat, photo : Nat, scale : Nat, coarse : BOOLEAN, exact : BOOLEAN]
  /\ surface \in {"canvas", "image"} /\ {unavailable, gpu} \subseteq BOOLEAN
  /\ refusal \in {"none", "during", "queued", "hard"}
LaneTypes ==
  /\ lane \in Seq(Entries) /\ Len(lane) <= 2
  /\ answers \subseteq [owner : {0} \cup P!Slot, ok : BOOLEAN]
PreviewTypes == PageTypes /\ ViewTypes /\ LaneTypes

\* The owner of a render is the scheduler or a function.
Owned == \A i \in 1..Len(lane) : lane[i].owner \in {0} \cup P!Slot

-----------------------------------------------------------------------------
(* The order of the pictures.                                                 *)

\* A render gives way to the one that waits; only the one in flight draws, and
\* what it drew is on the canvas.
LaneOK ==
  /\ Len(lane) = 2 => lane[1].cancelled /\ ~lane[2].cancelled /\ ~lane[2].drawn
  /\ lane # <<>> /\ lane[1].drawn => gpu /\ setting.tiled /\ canvas = P!Shown(lane[1])

\* Nothing is of a later edit than the document's, and no picture of this edit
\* is of another photo.
NotNewer ==
  /\ canvas.gen <= doc.gen /\ accepted.gen <= doc.gen
  /\ accepted.gen = doc.gen => accepted.photo = doc.photo
  /\ \A i \in 1..Len(lane) : lane[i].gen <= doc.gen
  /\ \A r \in P!Slot : runs[r].pc = "keep" => runs[r].gen <= doc.gen

\* A render that may still draw is of no older edit than the canvas, the
\* accepted picture, and the CPU pictures that may still be shown.
NotOlder ==
  \A i \in 1..Len(lane) : ~lane[i].cancelled =>
    /\ lane[i].gen >= canvas.gen /\ (gpu => lane[i].gen >= accepted.gen)
    /\ \A r \in P!Slot : runs[r].pc = "keep" => lane[i].gen >= runs[r].gen

\* A raw picture is asked for when there is no GPU any more.
RawWithoutGpu == \A r \in P!Slot : runs[r].pc = "cpu" /\ runs[r].on = 1 => ~gpu

\* The drag frame on the GPU: one render or one answer of it.
FrameAnswered == \E a \in answers : a.owner = P!FrameOwner
FrameInLane(i) == i \in 1..Len(lane) /\ lane[i].owner = P!FrameOwner
OneFrame ==
  /\ sched.frame = "draft" <=> FrameAnswered \/ \E i \in 1..2 : FrameInLane(i)
  /\ ~(FrameInLane(1) /\ FrameInLane(2))
  /\ FrameAnswered => \A i \in 1..2 : ~FrameInLane(i)
  /\ \A a, b \in answers : a.owner = P!FrameOwner /\ b.owner = P!FrameOwner => a = b

\* Where no zoom step is taken the required scale stays.
Unzoomed ==
  setting.tiled =>
    /\ budget.zooms = 0 /\ ~timers.zoom /\ doc.scale = 1 /\ ~doc.zoomed
    /\ \A i \in 1..Len(lane) :
         /\ lane[i].scale = 1
         /\ lane[i].coarse # "no" => lane[i].coarse = "drag" /\ lane[i].owner = P!FrameOwner
         /\ lane[i].drawn /\ lane[i].owner = P!FrameOwner => lane[i].coarse # "no"

\* The canvas shows the accepted picture; in tiles at least when it is Ready,
\* and then no drag frame is coming.
DirectShown ==
  ~setting.tiled /\ surface = "canvas" =>
    /\ canvas.gen = accepted.gen /\ canvas.photo = accepted.photo
    /\ canvas.scale = accepted.scale /\ canvas.coarse = accepted.coarse
TiledShown ==
  setting.tiled /\ P!Ready /\ surface = "canvas" =>
    sched.frame = "none" /\ P!Same(canvas) /\ canvas.photo = doc.photo

LanePics == LaneOK /\ NotNewer /\ NotOlder /\ RawWithoutGpu
OrderInv == PreviewTypes /\ Owned /\ LanePics
ShownInv == OneFrame /\ Unzoomed /\ DirectShown /\ TiledShown

-----------------------------------------------------------------------------
(* The parts of a step.                                                       *)

LEMMA PreviewSlots ==
  ASSUME P!ScenariosAssumption
  PROVE  /\ Slots \in Nat /\ MaxRearms \in Nat /\ MaxRearms > 0
         /\ P!Slot \subseteq Nat /\ 0 \notin P!Slot
         /\ \A s \in Viewings : s.left \in P!Bounds /\ s.setting \in P!Settings
BY DEF P!ScenariosAssumption, P!Slot

LEMMA LeastNat ==
  ASSUME NEW T, T \subseteq Nat, T # {}
  PROVE  \E x \in T : \A y \in T : x <= y
<1> DEFINE R == OpToRel(<, Nat)
<1>1. IsWellFoundedOn(R, Nat) BY NatLessThanWellFounded
<1>2. R = {ss \in Nat \X Nat : ss[1] < ss[2]} BY DEF OpToRel
<1> HIDE DEF R
<1>3. PICK x \in T : \A y \in T : ~ (<<y, x>> \in R) BY <1>1, WFMin
<1>4. \A y \in T : <<y, x>> \in Nat \X Nat OBVIOUS
<1>5. \A y \in T : ~(y < x) BY <1>2, <1>3, <1>4
<1> QED BY <1>5

LEMMA NextSlotFree ==
  ASSUME P!ScenariosAssumption, P!Free # {}
  PROVE  P!NextSlot \in P!Slot /\ runs[P!NextSlot] = P!Idle
<1>1. P!Free \subseteq P!Slot BY DEF P!Free
<1>2. P!Free \subseteq Nat BY <1>1, PreviewSlots
<1>3. \E r \in P!Free : \A s \in P!Free : r <= s BY <1>2, LeastNat
<1>4. P!NextSlot \in P!Free BY <1>3 DEF P!NextSlot
<1> QED BY <1>1, <1>4 DEF P!Free

\* The scheduler's functions.
\* The drag frame on the GPU stays there.
FrameStays(s, t) == t.frame = "draft" <=> s.frame = "draft"

LEMMA RequestFrameOK ==
  ASSUME NEW s, ScheduleOK(s)
  PROVE  ScheduleOK(P!requestFrame(s)) /\ FrameStays(s, P!requestFrame(s))
BY DEF ScheduleOK, FrameStays, P!requestFrame, Schedules, Frames

LEMMA ScheduleIsOK ==
  ASSUME NEW s, ScheduleOK(s), NEW gen \in Nat
  PROVE  ScheduleOK(P!schedule(s, gen)) /\ FrameStays(s, P!schedule(s, gen))
<1> DEFINE task == [image |-> s.image + 1, gen |-> gen]
           t == [s EXCEPT !.image = task.image, !.current = task, !.settle = task, !.refine = P!NoTask]
<1>1. task \in PreviewTasks /\ P!NoTask \in PreviewTasks /\ task.image \in Nat
  BY DEF PreviewTasks, ScheduleOK, Schedules, P!NoTask
<1> HIDE DEF task
<1>2. t \in Schedules /\ t.frame = s.frame /\ t.again = s.again /\ t.settle = t.current /\ t.refine = P!NoTask
  BY <1>1 DEF ScheduleOK, Schedules
<1>3. ScheduleOK(t) BY <1>2 DEF ScheduleOK
<1>4. P!schedule(s, gen) = P!requestFrame(t) BY DEF P!schedule, task
<1> HIDE DEF t
<1> QED BY <1>2, <1>3, <1>4, RequestFrameOK DEF FrameStays

LEMMA CancelIsOK ==
  ASSUME NEW s, ScheduleOK(s)
  PROVE  /\ ScheduleOK(P!cancel(s)) /\ FrameStays(s, P!cancel(s))
<1>1. P!NoTask \in PreviewTasks BY DEF PreviewTasks, P!NoTask
<1> DEFINE f == IF s.frame = "raf" THEN "none" ELSE s.frame
           n == s.image + 1
           u == [s EXCEPT !.current = P!NoTask, !.image = n, !.frame = f, !.again = FALSE]
           t == [u EXCEPT !.release = P!NoTask, !.settle = P!NoTask, !.refine = P!NoTask]
<1>2. P!cancel(s) = t BY DEF P!cancel, ScheduleOK, Schedules
<1>3. f \in Frames /\ n \in Nat BY DEF ScheduleOK, Schedules, Frames
<1>4. f = "draft" <=> s.frame = "draft" OBVIOUS
<1> HIDE DEF f, n
<1>5. u \in Schedules /\ u.current = P!NoTask /\ u.again = FALSE /\ u.frame = f
  BY <1>1, <1>3 DEF ScheduleOK, Schedules
<1> HIDE DEF u
<1>6. /\ t \in Schedules /\ t.current = P!NoTask /\ t.again = FALSE /\ t.frame = u.frame
      /\ t.settle = P!NoTask /\ t.refine = P!NoTask
  BY <1>1, <1>5 DEF Schedules
<1> HIDE DEF t
<1> QED BY <1>2, <1>4, <1>5, <1>6 DEF ScheduleOK, FrameStays

LEMMA BeginIsOK ==
  ASSUME NEW s, ScheduleOK(s)
  PROVE  ScheduleOK(P!beginInteraction(s)) /\ P!beginInteraction(s).frame = s.frame
BY DEF ScheduleOK, P!beginInteraction, Schedules, PreviewTasks, P!NoTask

LEMMA EndIsOK ==
  ASSUME NEW s, ScheduleOK(s)
  PROVE  ScheduleOK(P!endInteraction(s)) /\ P!endInteraction(s).frame = s.frame
BY DEF ScheduleOK, P!endInteraction, Schedules, PreviewTasks, P!NoTask

LEMMA FrameOverOK ==
  ASSUME NEW s, ScheduleOK(s)
  PROVE  /\ ScheduleOK(P!FrameOver(s)) /\ P!FrameOver(s).frame \in {"none", "raf"}
         /\ ~s.again => P!FrameOver(s).frame = "none"
<1> DEFINE free == [s EXCEPT !.frame = IF s.again /\ s.current # P!NoTask THEN "raf" ELSE "none",
                             !.again = FALSE]
           settles == free.release # P!NoTask /\ free.frame = "none"
           t == [free EXCEPT
                  !.release = IF settles THEN P!NoTask ELSE @,
                  !.settle = IF settles /\ s.release = s.current /\ ~s.dragging
                             THEN s.release ELSE @]
<1>1. free \in Schedules /\ free.frame \in {"none", "raf"} /\ free.again = FALSE
      /\ free.settle = s.settle /\ free.refine = s.refine /\ free.current = s.current
      /\ (~s.again => free.frame = "none")
  BY DEF ScheduleOK, Schedules, Frames
<1>2. P!NoTask \in PreviewTasks BY DEF PreviewTasks, P!NoTask
<1> HIDE DEF free
<1>3. t \in Schedules /\ t.frame = free.frame /\ t.again = FALSE /\ t.refine = s.refine
      /\ t.current = s.current /\ (t.settle = s.settle \/ t.settle = s.current)
  BY <1>1, <1>2 DEF ScheduleOK, Schedules
<1>4. P!FrameOver(s) = t BY DEF P!FrameOver, free
<1> HIDE DEF t
<1> QED BY <1>1, <1>3, <1>4 DEF ScheduleOK

-----------------------------------------------------------------------------
(* What a step does to the lane and to the functions that wait.               *)

\* No CPU picture becomes one that may be shown, and no raw one is asked for
\* while there is a GPU.
NoNewKeep ==
  \A x \in P!Slot : runs'[x].pc = "keep" => runs[x].pc = "keep" /\ runs'[x].gen = runs[x].gen
NoNewRaw ==
  \A x \in P!Slot : runs'[x].pc = "cpu" /\ runs'[x].on = 1 =>
    ~gpu \/ (runs[x].pc = "cpu" /\ runs[x].on = 1)
RunsKept == runs' \in [P!Slot -> Waits] /\ NoNewKeep /\ NoNewRaw

\* A CPU picture that may be shown is of this edit or was there.
KeepsFit ==
  \A x \in P!Slot : runs'[x].pc = "keep" =>
    runs'[x].gen = doc.gen \/ (runs[x].pc = "keep" /\ runs'[x].gen = runs[x].gen)
RunsFit == runs' \in [P!Slot -> Waits] /\ KeepsFit /\ NoNewRaw

LEMMA KeptFits == RunsKept => RunsFit
BY DEF RunsKept, RunsFit, NoNewKeep, KeepsFit

LEMMA RunsSame == ASSUME PageTypes, runs' = runs PROVE RunsKept
BY DEF PageTypes, RunsKept, NoNewKeep, NoNewRaw

\* One function goes on.
LEMMA RunMoves ==
  ASSUME PageTypes, NEW r \in P!Slot, NEW w \in Waits,
         w.pc \notin {"keep", "cpu"} \/ (w.pc = "cpu" /\ w.on = 0),
         runs' = [runs EXCEPT ![r] = w]
  PROVE  RunsKept
BY DEF PageTypes, RunsKept, NoNewKeep, NoNewRaw

LEMMA PcTyped ==
  ASSUME PageTypes, NEW r \in P!Slot, NEW pc \in P!Pc
  PROVE  /\ [runs[r] EXCEPT !.pc = pc] \in Waits
         /\ [runs[r] EXCEPT !.pc = pc].pc = pc
         /\ [runs[r] EXCEPT !.pc = pc].gen = runs[r].gen
         /\ [runs[r] EXCEPT !.pc = pc].on = runs[r].on
BY DEF PageTypes, Waits

LEMMA OverKeeps ==
  ASSUME PageTypes, NEW r \in P!Slot, NEW others, P!Over(r, others)
  PROVE  RunsKept /\ answers' = others /\ lane' = lane /\ refusal' = refusal
<1>1. "end" \in P!Pc BY DEF P!Pc
<1>2. runs' = [x \in P!Slot |-> IF x = r \/ (runs[x].pc = "join" /\ runs[x].on = r)
                                 THEN [runs[x] EXCEPT !.pc = "end"] ELSE runs[x]]
      /\ answers' = others /\ lane' = lane /\ refusal' = refusal
  BY DEF P!Over
<1>3. \A x \in P!Slot : \/ runs'[x] = runs[x]
                        \/ runs'[x] \in Waits /\ runs'[x].pc = "end"
  BY <1>1, <1>2, PcTyped
<1>4. \A x \in P!Slot : runs[x] \in Waits BY DEF PageTypes
<1>5. runs' \in [P!Slot -> Waits] BY <1>1, <1>2, <1>3, <1>4
<1> QED BY <1>2, <1>3, <1>5 DEF RunsKept, NoNewKeep, NoNewRaw

\* A render that is asked for.
NewEntry(e) ==
  /\ e \in Entries /\ ~e.cancelled /\ ~e.drawn
  /\ e.owner \in P!Slot \cup {P!FrameOwner}
Submitted(e, others) ==
  /\ IF lane = <<>> THEN lane' = <<e>>
     ELSE lane' = <<[lane[1] EXCEPT !.cancelled = TRUE], e>>
  /\ answers' = others \cup (IF Len(lane) = 2 THEN P!Answer(lane[2].owner, FALSE) ELSE {})
  /\ refusal' \in {refusal, "queued"}

LEMMA SubmitIs ==
  ASSUME NEW e, NEW others, P!submit(e, others)
  PROVE  Submitted(e, others)
BY DEF P!submit, P!Queued, Submitted

LEMMA FrameIsNew ==
  ASSUME PreviewTypes, NEW coarse \in {"no", "drag", "zoom"}, NEW snap \in BOOLEAN
  PROVE  /\ NewEntry(P!Entry(P!FrameOwner, doc.scale, coarse, snap))
         /\ P!Entry(P!FrameOwner, doc.scale, coarse, snap).gen = doc.gen
         /\ P!Entry(P!FrameOwner, doc.scale, coarse, snap).scale = doc.scale
         /\ P!Entry(P!FrameOwner, doc.scale, coarse, snap).coarse = coarse
         /\ P!Entry(P!FrameOwner, doc.scale, coarse, snap).owner = P!FrameOwner
BY DEF PreviewTypes, PageTypes, P!Entry, NewEntry, Entries, P!FrameOwner

LEMMA ZoomIsNew ==
  ASSUME PreviewTypes, P!ScenariosAssumption, NEW r \in P!Slot, NEW coarse \in {"no", "zoom"}
  PROVE  /\ NewEntry(P!Entry(r, doc.scale, coarse, FALSE))
         /\ P!Entry(r, doc.scale, coarse, FALSE).gen = doc.gen
         /\ P!Entry(r, doc.scale, coarse, FALSE).owner = r
BY PreviewSlots DEF PreviewTypes, PageTypes, P!Entry, NewEntry, Entries, P!FrameOwner

\* The render that a function asks for.
LEMMA RenderIsNew ==
  ASSUME PreviewTypes, P!ScenariosAssumption, NEW r \in P!Slot
  PROVE  /\ NewEntry(P!Entry(r, doc.scale, "no", FALSE))
         /\ P!Entry(r, doc.scale, "no", FALSE).gen = doc.gen
         /\ P!Entry(r, doc.scale, "no", FALSE).photo = doc.photo
         /\ P!Entry(r, doc.scale, "no", FALSE).scale = doc.scale
         /\ P!Entry(r, doc.scale, "no", FALSE).coarse = "no"
         /\ P!Entry(r, doc.scale, "no", FALSE).owner = r
BY PreviewSlots DEF PreviewTypes, PageTypes, P!Entry, NewEntry, Entries, P!FrameOwner

LEMMA RenderKeeps ==
  ASSUME PageTypes, NEW r \in P!Slot, NEW pc \in {"gpu", "again"}, NEW others, P!Render(r, pc, others)
  PROVE  RunsKept /\ Submitted(P!Entry(r, doc.scale, "no", FALSE), others)
<1>1. pc \in P!Pc BY DEF P!Pc
<1>2. runs' = [runs EXCEPT ![r] = [runs[r] EXCEPT !.pc = pc]] BY DEF P!Render, P!With
<1>3. RunsKept BY <1>1, <1>2, PcTyped, RunMoves
<1> QED BY <1>3, SubmitIs DEF P!Render

LEMMA CpuKeeps ==
  ASSUME PageTypes, P!ScenariosAssumption, gpu \in BOOLEAN,
         NEW r \in P!Slot, NEW scale \in Nat, NEW others, P!Cpu(r, scale, others)
  PROVE  RunsKept /\ answers' = others /\ lane' = lane /\ refusal' = refusal
<1> DEFINE mine == [runs[r] EXCEPT !.gen = doc.gen, !.photo = doc.photo, !.scale = scale,
                                   !.on = IF gpu THEN 0 ELSE 1]
           Asked(x) == /\ runs[x].pc \in {"cpu", "keep"} /\ runs[x].gen = mine.gen
                       /\ runs[x].photo = mine.photo /\ runs[x].scale = scale
           y == CHOOSE x \in P!Slot : Asked(x)
           Aborted(x) == [x EXCEPT !.pc = CASE x.pc = "cpu" -> "end" [] x.pc = "keep" -> "stale"
                                           [] OTHER -> x.pc]
<1>1. /\ runs' = IF \E x \in P!Slot : Asked(x)
                 THEN [runs EXCEPT ![r] = [mine EXCEPT !.pc = "join", !.on = y]]
                 ELSE [x \in P!Slot |-> IF x = r THEN [mine EXCEPT !.pc = "cpu"]
                                        ELSE Aborted(runs[x])]
      /\ answers' = others /\ lane' = lane /\ refusal' = refusal
  BY DEF P!Cpu
<1>2. \A x \in P!Slot : runs[x] \in Waits BY DEF PageTypes
<1>3. mine \in Waits /\ mine.on = IF gpu THEN 0 ELSE 1 BY <1>2 DEF PageTypes, Waits
<1>4. {"join", "cpu", "end", "stale"} \subseteq P!Pc BY DEF P!Pc
<1> HIDE DEF mine
<1>5. CASE \E x \in P!Slot : Asked(x)
  <2>1. y \in P!Slot BY <1>5
  <2>2. y \in Nat BY <2>1, PreviewSlots
  <2> DEFINE w == [mine EXCEPT !.pc = "join", !.on = y]
  <2> HIDE DEF y
  <2>3. w \in Waits /\ w.pc = "join" BY <1>3, <1>4, <2>2 DEF Waits
  <2>4. runs' = [runs EXCEPT ![r] = w] BY <1>1, <1>5
  <2> HIDE DEF w
  <2> QED BY <1>1, <2>3, <2>4, RunMoves
<1>6. CASE ~\E x \in P!Slot : Asked(x)
  <2> DEFINE w == [mine EXCEPT !.pc = "cpu"]
  <2>1. w \in Waits /\ w.pc = "cpu" /\ w.on = mine.on BY <1>3, <1>4 DEF Waits
  <2>2. \A x \in P!Slot :
          /\ Aborted(runs[x]) \in Waits /\ Aborted(runs[x]).pc \notin {"cpu", "keep"}
    BY <1>2, <1>4 DEF Waits
  <2>3. runs' = [x \in P!Slot |-> IF x = r THEN w ELSE Aborted(runs[x])] BY <1>1, <1>6
  <2> HIDE DEF w, Aborted
  <2>4. runs' \in [P!Slot -> Waits] BY <2>1, <2>2, <2>3
  <2>5. NoNewKeep BY <2>1, <2>2, <2>3 DEF NoNewKeep
  <2>6. NoNewRaw BY <1>3, <2>1, <2>2, <2>3 DEF NoNewRaw
  <2> QED BY <1>1, <2>4, <2>5, <2>6 DEF RunsKept
<1> QED BY <1>5, <1>6

\* A function ends, asks for a render or for a CPU picture, or waits again.
Pass(others) ==
  /\ RunsKept
  /\ \/ answers' = others /\ lane' = lane /\ refusal' = refusal
     \/ \E r \in P!Slot : Submitted(P!Entry(r, doc.scale, "no", FALSE), others)

LEMMA OverPasses ==
  ASSUME PageTypes, NEW r \in P!Slot, NEW others, P!Over(r, others) PROVE Pass(others)
BY OverKeeps DEF Pass
LEMMA RenderPasses ==
  ASSUME PageTypes, NEW r \in P!Slot, NEW pc \in {"gpu", "again"}, NEW others, P!Render(r, pc, others)
  PROVE  Pass(others)
BY RenderKeeps DEF Pass
LEMMA CpuPasses ==
  ASSUME PageTypes, P!ScenariosAssumption, gpu \in BOOLEAN,
         NEW r \in P!Slot, NEW scale \in Nat, NEW others, P!Cpu(r, scale, others)
  PROVE  Pass(others)
BY CpuKeeps DEF Pass
LEMMA WaitPasses ==
  ASSUME PageTypes, NEW r \in P!Slot, NEW pc \in {"drain", "wait"}, NEW on \in Nat, NEW others,
         runs' = [runs EXCEPT ![r].pc = pc, ![r].on = on],
         answers' = others, lane' = lane, refusal' = refusal
  PROVE  Pass(others)
<1> DEFINE w == [[runs[r] EXCEPT !.pc = pc] EXCEPT !.on = on]
<1>1. w \in Waits /\ w.pc = pc BY DEF PageTypes, Waits, P!Pc
<1>2. runs' = [runs EXCEPT ![r] = w] BY DEF PageTypes
<1> HIDE DEF w
<1> QED BY <1>1, <1>2, RunMoves DEF Pass

LEMMA FallbackPasses ==
  ASSUME PreviewTypes, P!ScenariosAssumption, NEW r \in P!Slot, NEW others, P!Fallback(r, others)
  PROVE  Pass(others)
<1>1. doc.scale \in Nat /\ gpu \in BOOLEAN BY DEF PreviewTypes, PageTypes, ViewTypes
<1> QED BY <1>1, OverPasses, CpuPasses DEF P!Fallback, PreviewTypes

LEMMA SettleRefusedPasses ==
  ASSUME PreviewTypes, P!ScenariosAssumption, NEW r \in P!Slot, NEW others, P!SettleRefused(r, others)
  PROVE  Pass(others)
<1>1. saves.sent \in Nat BY DEF PreviewTypes, PageTypes
<1>2. CASE P!Fallback(r, others) BY <1>2, FallbackPasses
<1>3. CASE ~P!Fallback(r, others)
  BY <1>1, <1>3, WaitPasses DEF P!SettleRefused, PreviewTypes
<1> QED BY <1>2, <1>3

LEMMA RefinePasses ==
  ASSUME PreviewTypes, P!ScenariosAssumption, NEW r \in P!Slot, NEW ok, NEW others,
         P!refinePreview(r, ok, others)
  PROVE  Pass(others)
<1>1. doc.scale \in Nat /\ gpu \in BOOLEAN /\ PageTypes /\ lane \in Seq(Entries)
  BY DEF PreviewTypes, PageTypes, ViewTypes, LaneTypes
<1>2. CASE P!Over(r, others) BY <1>1, <1>2, OverPasses
<1>3. CASE P!Cpu(r, doc.scale, others) BY <1>1, <1>3, CpuPasses
<1>4. CASE P!Render(r, "gpu", others) BY <1>1, <1>4, RenderPasses
<1>5. CASE /\ lane # <<>>
           /\ runs' = [runs EXCEPT ![r].pc = "wait", ![r].on = lane[Len(lane)].owner]
           /\ answers' = others /\ UNCHANGED <<lane, refusal>>
  <2>1. lane[Len(lane)] \in Entries BY <1>1, <1>5
  <2>2. lane[Len(lane)].owner \in Nat BY <2>1 DEF Entries
  <2> QED BY <1>1, <1>5, <2>2, WaitPasses
<1> QED BY <1>2, <1>3, <1>4, <1>5 DEF P!refinePreview

LEMMA OpenPasses ==
  ASSUME PreviewTypes, P!ScenariosAssumption, NEW r \in P!Slot, NEW ok \in BOOLEAN, NEW others,
         runs[r].pc \in P!Pc, P!activateDesktopSession(r, ok, others)
  PROVE  Pass(others)
<1>1. gpu \in BOOLEAN /\ PageTypes BY DEF PreviewTypes, PageTypes, ViewTypes
<1>2. CASE P!Over(r, others) BY <1>1, <1>2, OverPasses
<1>3. CASE P!Cpu(r, 0, others) BY <1>1, <1>3, CpuPasses
<1>4. CASE P!Render(r, "again", others) BY <1>1, <1>4, RenderPasses
<1> QED BY <1>2, <1>3, <1>4 DEF P!activateDesktopSession

LEMMA ZoomPasses ==
  ASSUME PreviewTypes, NEW r \in P!Slot, NEW others, P!scheduleZoomRefinement(r, others)
  PROVE  Pass(others)
BY OverPasses, RenderPasses DEF P!scheduleZoomRefinement, PreviewTypes

LEMMA SettlePasses ==
  ASSUME PreviewTypes, P!ScenariosAssumption, NEW r \in P!Slot, P!settlePreview(r)
  PROVE  Pass({}) /\ answers = {}
<1>1. gpu \in BOOLEAN /\ PageTypes /\ doc.scale \in Nat BY DEF PreviewTypes, PageTypes, ViewTypes
<1> QED BY <1>1, OverPasses, CpuPasses, RenderPasses DEF P!settlePreview

LEMMA RetryPasses ==
  ASSUME PreviewTypes, P!ScenariosAssumption, NEW r \in P!Slot, P!SettleRetries(r)
  PROVE  Pass({}) /\ answers = {}
BY FallbackPasses, RenderPasses DEF P!SettleRetries, PreviewTypes

-----------------------------------------------------------------------------
(* The lane.                                                                  *)

AnswerRecords == [owner : {0} \cup P!Slot, ok : BOOLEAN]

LEMMA AnswerIs ==
  ASSUME P!ScenariosAssumption, NEW owner \in {0} \cup P!Slot, NEW ok \in BOOLEAN
  PROVE  /\ P!Answer(owner, ok) \subseteq AnswerRecords
         /\ [owner |-> owner, ok |-> ok] \in P!Answer(owner, ok)
         /\ \A a \in P!Answer(owner, ok) : a.owner = 0 => a = [owner |-> owner, ok |-> ok] /\ owner = 0
BY PreviewSlots DEF P!Answer, AnswerRecords

LEMMA LanePlaces ==
  ASSUME LaneTypes
  PROVE  /\ Len(lane) \in 0..2 /\ (lane = <<>> <=> Len(lane) = 0)
         /\ Len(lane) > 0 => lane[1] \in Entries
         /\ Len(lane) = 2 => lane[2] \in Entries
<1>1. lane \in Seq(Entries) /\ Len(lane) <= 2 BY DEF LaneTypes
<1>2. lane = <<>> <=> Len(lane) = 0 BY <1>1, EmptySeq
<1>3. Len(lane) \in Nat BY <1>1
<1>4. \A i \in 1..Len(lane) : lane[i] \in Entries BY <1>1, ElementOfSeq
<1> DEFINE n == Len(lane)
<1>a. n \in Nat /\ n <= 2 BY <1>1, <1>3
<1> HIDE DEF n
<1>b. n \in 0..2 BY <1>a
<1>5. Len(lane) \in 0..2 BY <1>b DEF n
<1>6. Len(lane) > 0 => lane[1] \in Entries BY <1>3, <1>4
<1>7. Len(lane) = 2 => lane[2] \in Entries BY <1>4
<1> QED BY <1>2, <1>5, <1>6, <1>7

LEMMA SubmittedLane ==
  ASSUME LaneTypes, NEW e, NewEntry(e), NEW others, Submitted(e, others)
  PROVE  /\ lane' \in Seq(Entries)
         /\ lane = <<>> => Len(lane') = 1 /\ lane'[1] = e
         /\ lane # <<>> => /\ Len(lane') = 2 /\ lane'[2] = e
                           /\ lane'[1] = [lane[1] EXCEPT !.cancelled = TRUE]
<1>1. CASE lane = <<>>
  <2>1. lane' = <<e>> /\ e \in Entries BY <1>1 DEF Submitted, NewEntry
  <2> QED BY <1>1, <2>1
<1>2. CASE lane # <<>>
  <2> DEFINE d == [lane[1] EXCEPT !.cancelled = TRUE]
  <2>0. lane[1] \in Entries BY <1>2, LanePlaces
  <2>1. d \in Entries BY <2>0 DEF Entries
  <2>2. lane' = <<d, e>> BY <1>2 DEF Submitted
  <2> HIDE DEF d
  <2>3. lane' \in Seq(Entries) /\ Len(lane') = 2 /\ lane'[1] = d /\ lane'[2] = e
    BY <2>1, <2>2 DEF NewEntry
  <2> QED BY <1>2, <2>3 DEF d
<1> QED BY <1>1, <1>2

LEMMA SubmittedTypes ==
  ASSUME P!ScenariosAssumption, LaneTypes, Owned, NEW e, NewEntry(e),
         NEW others \in SUBSET AnswerRecords, Submitted(e, others)
  PROVE  LaneTypes' /\ Owned'
<1>1. Len(lane) = 2 => lane[2].owner \in {0} \cup P!Slot BY DEF Owned
<1>2. answers' \subseteq AnswerRecords BY <1>1, AnswerIs DEF Submitted
<1>3. e.owner \in {0} \cup P!Slot BY DEF NewEntry, P!FrameOwner
<1>4. CASE lane = <<>>
  <2>1. lane' \in Seq(Entries) /\ Len(lane') = 1 /\ lane'[1] = e BY <1>4, SubmittedLane
  <2> QED BY <1>2, <1>3, <2>1 DEF LaneTypes, Owned, AnswerRecords, P!Slot
<1>5. CASE lane # <<>>
  <2>1. /\ lane' \in Seq(Entries) /\ Len(lane') = 2 /\ lane'[2] = e
        /\ lane'[1] = [lane[1] EXCEPT !.cancelled = TRUE]
    BY <1>5, SubmittedLane
  <2>0. lane[1] \in Entries /\ 1 \in 1..Len(lane) BY <1>5, LanePlaces
  <2>2. lane'[1].owner \in {0} \cup P!Slot BY <2>0, <2>1 DEF Owned, Entries
  <2>3. \A i \in {1, 2} : lane'[i].owner \in {0} \cup P!Slot BY <1>3, <2>1, <2>2
  <2> QED BY <1>2, <2>1, <2>3 DEF LaneTypes, Owned, AnswerRecords, P!Slot
<1> QED BY <1>4, <1>5, LanePlaces

\* A render is over, and the one that waits starts or is dropped.
Landed(ok) ==
  /\ lane # <<>>
  /\ \/ lane' = <<>>
     \/ Len(lane) = 2 /\ lane' = <<lane[2]>>
  /\ answers' = answers \cup P!Answer(lane[1].owner, ok)
                \cup (IF Len(lane) = 2 /\ lane' = <<>> THEN P!Answer(lane[2].owner, FALSE) ELSE {})

LEMMA RunEntryLands ==
  ASSUME LaneTypes, lane # <<>>, NEW ok, NEW why, P!runEntry(ok, why)
  PROVE  Landed(ok) /\ refusal' \in {"queued", why}
<1> DEFINE stale == Len(lane) = 2 /\ ~P!TokenCurrent(lane[2])
<1>1. /\ lane' = IF stale THEN <<>> ELSE Tail(lane)
      /\ answers' = answers \cup P!Answer(lane[1].owner, ok)
                    \cup (IF stale THEN P!Answer(lane[2].owner, FALSE) ELSE {})
      /\ refusal' \in {"queued", why}
  BY DEF P!runEntry
<1>4. lane \in Seq(Entries) /\ Len(lane) \in {1, 2} BY LanePlaces DEF LaneTypes
<1>5. /\ Tail(lane) \in Seq(Entries) /\ Len(Tail(lane)) = Len(lane) - 1
      /\ \A i \in 1..(Len(lane) - 1) : Tail(lane)[i] = lane[i + 1]
  BY <1>4, HeadTailProperties
<1>2. Len(lane) = 1 => Tail(lane) = <<>>
  <2> SUFFICES ASSUME Len(lane) = 1, Tail(lane) # <<>> PROVE FALSE OBVIOUS
  <2>1. Len(Tail(lane)) \in Nat \ {0} BY <1>5, EmptySeq
  <2> QED BY <1>5, <2>1
<1>3. Len(lane) = 2 => Tail(lane) = <<lane[2]>> /\ Tail(lane) # <<>>
  <2> SUFFICES ASSUME Len(lane) = 2 PROVE Tail(lane) = <<lane[2]>> /\ Tail(lane) # <<>> OBVIOUS
  <2>1. lane[2] \in Entries BY LanePlaces
  <2>2. Len(Tail(lane)) = 1 /\ Tail(lane)[1] = lane[2] BY <1>5
  <2>3. <<lane[2]>> \in Seq(Entries) /\ Len(<<lane[2]>>) = 1 /\ <<lane[2]>>[1] = lane[2] BY <2>1
  <2>4. \A i \in 1..Len(Tail(lane)) : Tail(lane)[i] = <<lane[2]>>[i] BY <2>2, <2>3
  <2>5. Tail(lane) = <<lane[2]>> BY <1>5, <2>2, <2>3, <2>4, SeqEqual
  <2> QED BY <2>3, <2>5
<1> QED BY <1>1, <1>2, <1>3, <1>4 DEF Landed

LEMMA LandedTypes ==
  ASSUME P!ScenariosAssumption, LaneTypes, Owned, NEW ok \in BOOLEAN, Landed(ok)
  PROVE  LaneTypes' /\ Owned'
<1>1. Len(lane) \in {1, 2} /\ lane[1].owner \in {0} \cup P!Slot BY LanePlaces DEF Owned, Landed
<1>2. Len(lane) = 2 => lane[2].owner \in {0} \cup P!Slot BY DEF Owned
<1>3. answers' \subseteq AnswerRecords BY <1>1, <1>2, AnswerIs DEF Landed, LaneTypes, AnswerRecords
<1>4. CASE lane' = <<>> BY <1>3, <1>4 DEF LaneTypes, Owned, AnswerRecords, P!Slot
<1>5. CASE Len(lane) = 2 /\ lane' = <<lane[2]>>
  <2>1. lane' \in Seq(Entries) /\ Len(lane') = 1 /\ lane'[1] = lane[2] BY <1>5, LanePlaces
  <2> QED BY <1>2, <1>3, <1>5, <2>1 DEF LaneTypes, Owned, AnswerRecords, P!Slot
<1> QED BY <1>4, <1>5 DEF Landed

-----------------------------------------------------------------------------
(* The order of the pictures, for each way the lane may move.                 *)

LEMMA EntryGen == ASSUME LaneTypes, NEW i \in 1..Len(lane) PROVE lane[i] \in Entries /\ lane[i].gen \in Nat
<1>1. lane[i] \in Entries BY ElementOfSeq DEF LaneTypes
<1> QED BY <1>1 DEF Entries

LEMMA SubmittedEach ==
  ASSUME LaneTypes, NEW e, NewEntry(e), NEW others, Submitted(e, others)
  PROVE  \A i \in 1..Len(lane') :
           \/ lane'[i] = e /\ (i = 1 => lane = <<>>)
           \/ /\ i = 1 /\ 1 \in 1..Len(lane) /\ lane'[i].cancelled
              /\ lane'[i].gen = lane[1].gen /\ lane'[i].owner = lane[1].owner
              /\ lane'[i].scale = lane[1].scale /\ lane'[i].coarse = lane[1].coarse
              /\ lane'[i].drawn = lane[1].drawn /\ lane'[i].photo = lane[1].photo
<1>1. CASE lane = <<>>
  <2>1. Len(lane') = 1 /\ lane'[1] = e BY <1>1, SubmittedLane
  <2> QED BY <1>1, <2>1
<1>2. CASE lane # <<>>
  <2>1. /\ Len(lane') = 2 /\ lane'[2] = e
        /\ lane'[1] = [lane[1] EXCEPT !.cancelled = TRUE]
    BY <1>2, SubmittedLane
  <2>2. lane[1] \in Entries /\ 1 \in 1..Len(lane) BY <1>2, LanePlaces
  <2>3. /\ lane'[1].cancelled
        /\ lane'[1].gen = lane[1].gen /\ lane'[1].owner = lane[1].owner
        /\ lane'[1].scale = lane[1].scale /\ lane'[1].coarse = lane[1].coarse
        /\ lane'[1].drawn = lane[1].drawn /\ lane'[1].photo = lane[1].photo
    BY <2>1, <2>2 DEF Entries
  <2>4. \A i \in 1..Len(lane') : i = 1 \/ i = 2 BY <2>1
  <2> QED BY <2>1, <2>2, <2>3, <2>4
<1> QED BY <1>1, <1>2

LEMMA LandedEach ==
  ASSUME LaneTypes, NEW ok, Landed(ok)
  PROVE  /\ Len(lane') \in 0..1
         /\ \A i \in 1..Len(lane') : i = 1 /\ Len(lane) = 2 /\ lane'[i] = lane[2]
<1>1. CASE lane' = <<>> BY <1>1
<1>2. CASE Len(lane) = 2 /\ lane' = <<lane[2]>>
  <2>1. Len(lane') = 1 /\ lane'[1] = lane[2] BY <1>2
  <2> QED BY <1>2, <2>1
<1> QED BY <1>1, <1>2 DEF Landed

\* Nothing moves, or a function goes on.
LEMMA OrderSame ==
  ASSUME PreviewTypes, LanePics, RunsKept,
         lane' = lane, canvas' = canvas, accepted' = accepted, setting' = setting,
         doc'.gen = doc.gen, doc'.photo = doc.photo, gpu' = gpu
  PROVE  LanePics'
<1>1. LaneOK' BY DEF LanePics, LaneOK, P!Shown
<1>2. NotNewer' BY DEF LanePics, NotNewer, RunsKept, NoNewKeep
<1>3. NotOlder' BY DEF LanePics, NotOlder, RunsKept, NoNewKeep
<1>4. RawWithoutGpu' BY DEF LanePics, RawWithoutGpu, RunsKept, NoNewRaw
<1> QED BY <1>1, <1>2, <1>3, <1>4 DEF LanePics

\* A render is asked for, of the document as it is now.
LEMMA OrderSubmitted ==
  ASSUME PreviewTypes, LanePics, RunsFit, gpu' = gpu,
         canvas' = canvas, accepted' = accepted, setting' = setting,
         NEW e, NewEntry(e), NEW others, Submitted(e, others), e.gen = doc'.gen,
         doc'.gen \in Nat, doc'.gen >= doc.gen, doc'.gen = doc.gen => doc'.photo = doc.photo
  PROVE  LanePics'
<1>1. LaneOK'
  <2>1. CASE lane = <<>>
    <3>1. Len(lane') = 1 /\ lane'[1] = e BY <2>1, SubmittedLane DEF PreviewTypes
    <3> QED BY <3>1 DEF LaneOK, NewEntry
  <2>2. CASE lane # <<>>
    <3>1. /\ Len(lane') = 2 /\ lane'[2] = e
          /\ lane'[1] = [lane[1] EXCEPT !.cancelled = TRUE]
      BY <2>2, SubmittedLane DEF PreviewTypes
    <3>2. lane[1] \in Entries BY <2>2, LanePlaces DEF PreviewTypes
    <3>3. /\ lane'[1].cancelled /\ lane'[1].drawn = lane[1].drawn
          /\ P!Shown(lane'[1]) = P!Shown(lane[1])
      BY <3>1, <3>2 DEF P!Shown, Entries
    <3>4. lane[1].drawn => gpu /\ setting.tiled /\ canvas = P!Shown(lane[1])
      BY <2>2 DEF LanePics, LaneOK
    <3> QED BY <3>1, <3>3, <3>4 DEF LaneOK, NewEntry, P!Shown
  <2> QED BY <2>1, <2>2
<1>2. NotNewer'
  <2>1. doc.gen \in Nat /\ canvas.gen \in Nat /\ accepted.gen \in Nat
    BY DEF PreviewTypes, PageTypes, ViewTypes
  <2>2. canvas'.gen <= doc'.gen /\ accepted'.gen <= doc'.gen
        /\ (accepted'.gen = doc'.gen => accepted'.photo = doc'.photo)
    BY <2>1 DEF LanePics, NotNewer
  <2>3. \A i \in 1..Len(lane') : lane'[i].gen <= doc'.gen
    <3> TAKE i \in 1..Len(lane')
    <3>1. CASE lane'[i] = e BY <3>1
    <3>2. CASE 1 \in 1..Len(lane) /\ lane'[i].gen = lane[1].gen
      <4>1. lane[1].gen <= doc.gen BY <3>2 DEF LanePics, NotNewer
      <4>2. lane[1].gen \in Nat BY <3>2, EntryGen DEF PreviewTypes
      <4> QED BY <2>1, <3>2, <4>1, <4>2
    <3> QED BY <3>1, <3>2, SubmittedEach DEF PreviewTypes
  <2>4. \A r \in P!Slot : runs[r].gen \in Nat BY DEF PreviewTypes, PageTypes, Waits
  <2>5. \A r \in P!Slot : runs'[r].pc = "keep" => runs'[r].gen <= doc'.gen
    BY <2>1, <2>4 DEF RunsFit, KeepsFit, LanePics, NotNewer
  <2> QED BY <2>2, <2>3, <2>5 DEF NotNewer
<1>3. NotOlder'
  <2>1. doc.gen \in Nat /\ canvas.gen \in Nat /\ accepted.gen \in Nat
        /\ canvas.gen <= doc.gen /\ accepted.gen <= doc.gen
    BY DEF PreviewTypes, PageTypes, ViewTypes, LanePics, NotNewer
  <2> SUFFICES ASSUME NEW i \in 1..Len(lane'), ~lane'[i].cancelled
               PROVE  /\ lane'[i].gen >= canvas'.gen /\ (gpu' => lane'[i].gen >= accepted'.gen)
                      /\ \A r \in P!Slot : runs'[r].pc = "keep" => lane'[i].gen >= runs'[r].gen
    BY DEF NotOlder
  <2>2. lane'[i] = e BY SubmittedEach DEF PreviewTypes
  <2>4. \A r \in P!Slot : runs'[r].pc = "keep" => runs'[r].gen <= doc'.gen
    BY <1>2 DEF NotNewer
  <2>5. \A r \in P!Slot : runs'[r].gen \in Nat BY DEF RunsFit, Waits
  <2> QED BY <2>1, <2>2, <2>4, <2>5
<1>4. RawWithoutGpu' BY DEF LanePics, RawWithoutGpu, RunsFit, NoNewRaw
<1> QED BY <1>1, <1>2, <1>3, <1>4 DEF LanePics

\* A render is over and drew nothing.
LEMMA OrderLanded ==
  ASSUME PreviewTypes, LanePics, runs' = runs, gpu' => gpu,
         canvas' = canvas, accepted' = accepted, setting' = setting, doc' = doc,
         NEW ok, Landed(ok)
  PROVE  LanePics'
<1>1. /\ Len(lane') \in 0..1
      /\ \A i \in 1..Len(lane') : i = 1 /\ Len(lane) = 2 /\ lane'[i] = lane[2] /\ 2 \in 1..Len(lane)
  BY LandedEach DEF PreviewTypes
<1>2. LaneOK'
  <2>1. lane' # <<>> => Len(lane') = 1 BY LandedEach DEF PreviewTypes, Landed
  <2>2. lane' # <<>> => lane'[1] = lane[2] /\ Len(lane) = 2 BY <1>1, <2>1
  <2> QED BY <1>1, <2>1, <2>2 DEF LanePics, LaneOK
<1>3. NotNewer' BY <1>1 DEF LanePics, NotNewer
<1>4. NotOlder' BY <1>1 DEF LanePics, NotOlder
<1>5. RawWithoutGpu' BY DEF LanePics, RawWithoutGpu
<1> QED BY <1>2, <1>3, <1>4, <1>5 DEF LanePics

-----------------------------------------------------------------------------
(* The kinds of steps. One of the page and the scheduler, without a picture;  *)
(* one of a function that waits; the end of a render that shows nothing.      *)

SchedStep ==
  /\ RunsKept /\ PageTypes' /\ FrameStays(sched, sched')
  /\ P!Ready /\ sched.frame = "none" => sched'.frame = "none"
  /\ UNCHANGED <<doc, lane, answers, canvas, surface, accepted, unavailable, refusal, gpu, setting>>
  /\ budget'.zooms = budget.zooms /\ (timers'.zoom => timers.zoom)
PassStep ==
  /\ \E others \in SUBSET answers :
       Pass(others) /\ \A a \in answers : a.owner = P!FrameOwner => a \in others
  /\ UNCHANGED <<doc, pressed, saves, sched, canvas, surface, accepted, gpu, setting, timers, rearms>>
  /\ unavailable' \in BOOLEAN /\ budget' \in P!Bounds /\ budget'.zooms = budget.zooms
LandStep ==
  /\ Landed(FALSE) /\ refusal' \in {"none", "during", "queued", "hard"}
  /\ gpu' \in BOOLEAN /\ (gpu' => gpu)
  /\ UNCHANGED <<doc, pressed, saves, sched, runs, canvas, surface, accepted, unavailable, setting, rearms>>
  /\ timers' \in [zoom : BOOLEAN, retry : Nat] /\ timers'.zoom = timers.zoom
  /\ budget' \in P!Bounds /\ budget'.zooms = budget.zooms

LEMMA PreviewSpend ==
  ASSUME budget \in P!Bounds,
         NEW what \in {"gestures", "edits", "photos", "zooms", "refusals", "failures", "pictures"},
         P!Spend(what)
  PROVE  /\ budget' \in P!Bounds
         /\ what # "zooms" => budget'.zooms = budget.zooms
         /\ what = "zooms" => budget.zooms > 0
BY DEF P!Bounds, P!Spend

LEMMA RunTyped ==
  ASSUME PageTypes, NEW kind \in P!Kind, NEW pc \in P!Pc, NEW task \in PreviewTasks, NEW on \in Nat
  PROVE  P!Run(kind, pc, task, on) \in Waits /\ P!Run(kind, pc, task, on).pc = pc
BY DEF PageTypes, P!Run, Waits

\* A function begins in a free place.
LEMMA RunBegins ==
  ASSUME PageTypes, P!ScenariosAssumption, P!Free # {},
         NEW kind \in P!Kind, NEW pc \in P!Pc \ {"keep", "cpu"}, NEW task \in PreviewTasks, NEW on \in Nat,
         runs' = [runs EXCEPT ![P!NextSlot] = P!Run(kind, pc, task, on)]
  PROVE  RunsKept
<1> DEFINE w == P!Run(kind, pc, task, on)
<1>1. w \in Waits /\ w.pc = pc BY RunTyped
<1>2. P!NextSlot \in P!Slot BY NextSlotFree
<1>3. runs' = [runs EXCEPT ![P!NextSlot] = w] OBVIOUS
<1> HIDE DEF w
<1> QED BY <1>1, <1>2, <1>3, RunMoves

LEMMA PressSteps == PreviewTypes /\ P!Press => SchedStep
<1> SUFFICES ASSUME PreviewTypes, P!Press PROVE SchedStep OBVIOUS
<1>1. ScheduleOK(sched) /\ budget \in P!Bounds BY DEF PreviewTypes, PageTypes
<1>2. ScheduleOK(sched') /\ sched'.frame = sched.frame BY <1>1, BeginIsOK DEF P!Press
<1>3. budget' \in P!Bounds /\ budget'.zooms = budget.zooms BY <1>1, PreviewSpend DEF P!Press
<1>4. RunsKept BY RunsSame DEF P!Press, PreviewTypes
<1>5. PageTypes' BY <1>2, <1>3, <1>4 DEF P!Press, PreviewTypes, PageTypes, RunsKept
<1> QED BY <1>2, <1>3, <1>4, <1>5 DEF P!Press, SchedStep, FrameStays, P!viewer

LEMMA ReleaseSteps == PreviewTypes /\ P!Release => SchedStep
<1> SUFFICES ASSUME PreviewTypes, P!Release PROVE SchedStep OBVIOUS
<1>1. ScheduleOK(sched) BY DEF PreviewTypes, PageTypes
<1>2. ScheduleOK(sched') /\ sched'.frame = sched.frame BY <1>1, EndIsOK DEF P!Release
<1>3. RunsKept BY RunsSame DEF P!Release, PreviewTypes
<1>4. saves' \in [sent : Nat, done : Nat, failed : SUBSET Nat, gone : Nat]
  BY DEF P!Release, PreviewTypes, PageTypes
<1>5. PageTypes' BY <1>2, <1>3, <1>4 DEF P!Release, PreviewTypes, PageTypes, RunsKept
<1> QED BY <1>2, <1>3, <1>5 DEF P!Release, SchedStep, FrameStays, P!viewer

LEMMA SaveSteps == PreviewTypes /\ P!SaveAnswered => SchedStep
<1> SUFFICES ASSUME PreviewTypes, P!SaveAnswered PROVE SchedStep OBVIOUS
<1>1. ScheduleOK(sched) /\ budget \in P!Bounds BY DEF PreviewTypes, PageTypes
<1> DEFINE done == saves.done + 1
<1>2. PICK ok \in BOOLEAN :
        /\ IF ok \/ done <= saves.gone THEN UNCHANGED budget ELSE P!Spend("failures")
        /\ saves' = [saves EXCEPT !.done = done, !.failed = IF ok THEN @ ELSE @ \cup {done}]
        /\ sched' = IF ok /\ done = saves.sent THEN P!endInteraction(sched) ELSE sched
  BY DEF P!SaveAnswered
<1>3. ScheduleOK(sched') /\ sched'.frame = sched.frame BY <1>1, <1>2, EndIsOK
<1>4. budget' \in P!Bounds /\ budget'.zooms = budget.zooms BY <1>1, <1>2, PreviewSpend
<1>5. RunsKept BY RunsSame DEF P!SaveAnswered, PreviewTypes
<1>6. saves' \in [sent : Nat, done : Nat, failed : SUBSET Nat, gone : Nat]
  <2>1. saves \in [sent : Nat, done : Nat, failed : SUBSET Nat, gone : Nat] BY DEF PreviewTypes, PageTypes
  <2> DEFINE f == IF ok THEN saves.failed ELSE saves.failed \cup {done}
  <2>2. f \in SUBSET Nat /\ done \in Nat BY <2>1
  <2>3. saves' = [saves EXCEPT !.done = done, !.failed = f] BY <1>2
  <2> HIDE DEF f, done
  <2> QED BY <2>1, <2>2, <2>3
<1>7. PageTypes' BY <1>3, <1>4, <1>5, <1>6 DEF P!SaveAnswered, PreviewTypes, PageTypes, RunsKept
<1> QED BY <1>3, <1>4, <1>5, <1>7 DEF P!SaveAnswered, SchedStep, FrameStays, P!viewer

LEMMA DeviceSteps == PreviewTypes /\ P!DeviceDone => SchedStep
<1> SUFFICES ASSUME PreviewTypes, P!DeviceDone PROVE SchedStep OBVIOUS
<1>1. ScheduleOK(sched) BY DEF PreviewTypes, PageTypes
<1>2. ScheduleOK(sched') /\ sched'.frame \in {"none", "raf"} /\ sched.frame = "device"
  BY <1>1, FrameOverOK DEF P!DeviceDone
<1>3. RunsKept BY RunsSame DEF P!DeviceDone, PreviewTypes
<1>4. PageTypes' BY <1>2, <1>3 DEF P!DeviceDone, P!page, PreviewTypes, PageTypes, RunsKept
<1> QED BY <1>2, <1>3, <1>4 DEF P!DeviceDone, SchedStep, FrameStays, P!viewer, P!page

\* A timer of the scheduler fires.
LEMMA TimerOK ==
  ASSUME ScheduleOK(sched)
  PROVE  /\ ScheduleOK([sched EXCEPT !.settle = P!NoTask])
         /\ ScheduleOK([sched EXCEPT !.refine = P!NoTask])
         /\ [sched EXCEPT !.settle = P!NoTask].frame = sched.frame
         /\ [sched EXCEPT !.refine = P!NoTask].frame = sched.frame
         /\ sched.settle \in PreviewTasks /\ sched.refine \in PreviewTasks /\ P!NoTask \in PreviewTasks
<1>1. P!NoTask \in PreviewTasks BY DEF PreviewTasks, P!NoTask
<1> QED BY <1>1 DEF ScheduleOK, Schedules

LEMMA KindsAndPcs ==
  {"settle", "refine", "open", "zoom"} \subseteq P!Kind /\ {"sync", "gpu", "coarse"} \subseteq P!Pc
BY DEF P!Kind, P!Pc

LEMMA SettleFiresSteps == P!ScenariosAssumption /\ PreviewTypes /\ P!SettleFires => SchedStep
<1> SUFFICES ASSUME P!ScenariosAssumption, PreviewTypes, P!SettleFires PROVE SchedStep OBVIOUS
<1>1. ScheduleOK(sched) /\ saves.sent \in Nat BY DEF PreviewTypes, PageTypes
<1>2. ScheduleOK(sched') /\ sched'.frame = sched.frame BY <1>1, TimerOK DEF P!SettleFires
<1>3. RunsKept
  BY <1>1, TimerOK, KindsAndPcs, RunBegins, RunsSame DEF P!SettleFires, PreviewTypes
<1>4. PageTypes' BY <1>2, <1>3 DEF P!SettleFires, P!page, PreviewTypes, PageTypes, RunsKept
<1> QED BY <1>2, <1>3, <1>4 DEF P!SettleFires, SchedStep, FrameStays, P!viewer, P!page

LEMMA RefineFiresSteps == P!ScenariosAssumption /\ PreviewTypes /\ P!RefineFires => SchedStep
<1> SUFFICES ASSUME P!ScenariosAssumption, PreviewTypes, P!RefineFires PROVE SchedStep OBVIOUS
<1>1. ScheduleOK(sched) BY DEF PreviewTypes, PageTypes
<1>2. ScheduleOK(sched') /\ sched'.frame = sched.frame BY <1>1, TimerOK DEF P!RefineFires
<1>3. RunsKept
  BY <1>1, TimerOK, KindsAndPcs, RunBegins, RunsSame DEF P!RefineFires, PreviewTypes
<1>4. PageTypes' BY <1>2, <1>3 DEF P!RefineFires, P!page, PreviewTypes, PageTypes, RunsKept
<1> QED BY <1>2, <1>3, <1>4 DEF P!RefineFires, SchedStep, FrameStays, P!viewer, P!page

LEMMA RetryFiresSteps == P!ScenariosAssumption /\ PreviewTypes /\ P!RetryFires => SchedStep
<1> SUFFICES ASSUME P!ScenariosAssumption, PreviewTypes, P!RetryFires PROVE SchedStep OBVIOUS
<1>1. ScheduleOK(sched) /\ saves.sent \in Nat BY DEF PreviewTypes, PageTypes
<1>2. RunsKept
  BY <1>1, TimerOK, KindsAndPcs, RunBegins DEF P!RetryFires, PreviewTypes
<1>3. timers' \in [zoom : BOOLEAN, retry : Nat] /\ timers'.zoom = timers.zoom
  BY DEF P!RetryFires, PreviewTypes, PageTypes
<1>4. PageTypes' BY <1>2, <1>3 DEF P!RetryFires, P!page, PreviewTypes, PageTypes, RunsKept
<1> QED BY <1>2, <1>3, <1>4 DEF P!RetryFires, SchedStep, FrameStays, P!viewer, P!page

LEMMA EndSteps == P!ScenariosAssumption => \A r \in P!Slot : PreviewTypes /\ P!End(r) => SchedStep
<1> SUFFICES ASSUME P!ScenariosAssumption, NEW r \in P!Slot, PreviewTypes, P!End(r) PROVE SchedStep OBVIOUS
<1>1. ScheduleOK(sched) /\ doc.gen \in Nat /\ runs[r] \in Waits BY DEF PreviewTypes, PageTypes
<1> DEFINE again == runs[r].kind = "open" /\ runs[r].photo = doc.photo /\ ~P!Ready
<1>2. /\ runs' = [runs EXCEPT ![r] = P!Idle]
      /\ sched' = IF again THEN P!schedule(sched, doc.gen)
                  ELSE IF /\ runs[r].kind = "settle" /\ runs[r].task # P!NoTask
                          /\ sched.current = runs[r].task /\ ~P!Ready
                       THEN [sched EXCEPT !.refine = runs[r].task] ELSE sched
      /\ rearms' \in {0, rearms}
  BY DEF P!End
<1>3. P!Idle \in Waits /\ P!Idle.pc = "idle" BY DEF P!Idle, Waits, P!Kind, P!Pc, PreviewTasks, P!NoTask
<1>4. RunsKept BY <1>2, <1>3, RunMoves DEF PreviewTypes
<1>5. ScheduleOK(sched') /\ FrameStays(sched, sched') /\ (P!Ready => sched'.frame = sched.frame)
  <2>1. CASE again BY <1>1, <1>2, <2>1, ScheduleIsOK
  <2>2. CASE sched' = [sched EXCEPT !.refine = runs[r].task] /\ sched.current = runs[r].task
    BY <1>1, <2>2 DEF ScheduleOK, Schedules, FrameStays
  <2>3. CASE sched' = sched BY <1>1, <2>3 DEF FrameStays
  <2> QED BY <1>2, <2>1, <2>2, <2>3
<1>6. rearms' \in 0..MaxRearms BY <1>2, PreviewSlots DEF PreviewTypes, PageTypes
<1>7. PageTypes' BY <1>4, <1>5, <1>6 DEF P!End, P!page, PreviewTypes, PageTypes, RunsKept
<1> QED BY <1>4, <1>5, <1>7 DEF P!End, SchedStep, P!viewer, P!page

LEMMA WatchdogSteps == P!ScenariosAssumption /\ PreviewTypes /\ P!Watchdog => SchedStep
<1> SUFFICES ASSUME P!ScenariosAssumption, PreviewTypes, P!Watchdog PROVE SchedStep OBVIOUS
<1>1. ScheduleOK(sched) /\ doc.gen \in Nat BY DEF PreviewTypes, PageTypes
<1>2. RunsKept BY RunsSame DEF P!Watchdog, PreviewTypes
<1>3. ScheduleOK(sched') /\ FrameStays(sched, sched') /\ (P!Ready => sched' = sched)
  BY <1>1, ScheduleIsOK DEF P!Watchdog, FrameStays
<1>4. rearms' \in 0..MaxRearms BY PreviewSlots DEF P!Watchdog, PreviewTypes, PageTypes
<1>5. PageTypes' BY <1>2, <1>3, <1>4 DEF P!Watchdog, P!page, PreviewTypes, PageTypes, RunsKept
<1> QED BY <1>2, <1>3, <1>5 DEF P!Watchdog, SchedStep, P!viewer, P!page

\* The steps of the functions that wait.
LEMMA SettleSteps ==
  ASSUME P!ScenariosAssumption, PreviewTypes, NEW r \in P!Slot, P!settlePreview(r) PROVE PassStep
<1>1. Pass({}) /\ answers = {} BY SettlePasses
<1> QED BY <1>1 DEF P!settlePreview, PassStep, P!page, P!viewer, PreviewTypes, PageTypes, ViewTypes

LEMMA RetrySteps ==
  ASSUME P!ScenariosAssumption, PreviewTypes, NEW r \in P!Slot, P!SettleRetries(r) PROVE PassStep
<1>1. Pass({}) /\ answers = {} BY RetryPasses
<1> QED BY <1>1 DEF P!SettleRetries, PassStep, P!page, P!viewer, PreviewTypes, PageTypes, ViewTypes

LEMMA RefineSteps ==
  ASSUME P!ScenariosAssumption, PreviewTypes, NEW r \in P!Slot, P!RefineBegins(r) PROVE PassStep
<1>1. P!refinePreview(r, FALSE, {}) /\ answers = {} BY DEF P!RefineBegins
<1>2. Pass({}) BY <1>1, RefinePasses
<1> QED BY <1>1, <1>2 DEF P!RefineBegins, PassStep, P!page, P!viewer, PreviewTypes, PageTypes, ViewTypes

\* A function that asks for a picture no more.
LEMMA CpuOverSteps ==
  ASSUME P!ScenariosAssumption, PreviewTypes, NEW r \in P!Slot, P!CpuAnswered(r), P!Over(r, {}),
         canvas' = canvas, surface' = surface, accepted' = accepted
  PROVE  PassStep
<1>1. Pass({}) BY OverPasses DEF PreviewTypes
<1>2. answers = {} BY DEF P!CpuAnswered, P!Quiet
<1>3. budget \in P!Bounds /\ unavailable \in BOOLEAN BY DEF PreviewTypes, PageTypes, ViewTypes
<1>4. budget' \in P!Bounds /\ budget'.zooms = budget.zooms
  <2>1. P!Spend("pictures") \/ budget' = budget BY DEF P!CpuAnswered
  <2> QED BY <1>3, <2>1, PreviewSpend
<1>5. unavailable' \in BOOLEAN
  BY <1>3 DEF P!CpuAnswered, P!viewer, P!ShowCpuPicture, P!acceptPresentation
<1> QED BY <1>1, <1>2, <1>4, <1>5 DEF P!CpuAnswered, PassStep, P!page

\* A promise resumes its function.
LEMMA ResumeSteps ==
  ASSUME P!ScenariosAssumption, PreviewTypes, P!Resume
  PROVE  \/ PassStep
         \/ \E a \in answers :
              /\ a.owner = P!FrameOwner
              /\ sched' = IF a.ok THEN [sched EXCEPT !.frame = "device"] ELSE P!FrameOver(sched)
              /\ answers' = answers \ {a}
              /\ UNCHANGED <<runs, lane, refusal, canvas, surface, accepted, unavailable>>
         \/ \E a \in answers :
              /\ a.owner \in P!Slot /\ runs[a.owner].pc \in {"keep", "stale"}
              /\ sched' = sched /\ P!KeepGpuSurface(a.owner, a.ok, answers \ {a})
<1>1. PICK a \in answers :
        LET r == a.owner
            others == answers \ {a}
        IN  IF r = P!FrameOwner
            THEN /\ sched' = IF a.ok THEN [sched EXCEPT !.frame = "device"] ELSE P!FrameOver(sched)
                 /\ answers' = others /\ UNCHANGED <<runs, lane, refusal, P!viewer>>
            ELSE /\ UNCHANGED sched
                 /\ IF runs[r].pc \in {"keep", "stale"} THEN P!KeepGpuSurface(r, a.ok, others)
                    ELSE /\ UNCHANGED P!viewer
                         /\ CASE runs[r].kind = "settle" ->
                                  IF a.ok THEN P!Over(r, others) ELSE P!SettleRefused(r, others)
                              [] runs[r].kind = "refine" -> P!refinePreview(r, a.ok, others)
                              [] runs[r].kind = "open" -> P!activateDesktopSession(r, a.ok, others)
                              [] OTHER -> P!scheduleZoomRefinement(r, others)
  BY DEF P!Resume
<1> DEFINE r == a.owner
           others == answers \ {a}
<1>2. a.ok \in BOOLEAN /\ (r # P!FrameOwner => r \in P!Slot)
  BY DEF PreviewTypes, LaneTypes, P!FrameOwner
<1>3. UNCHANGED <<P!page, gpu, timers, rearms, budget, setting>> BY DEF P!Resume
<1>4. ASSUME r # P!FrameOwner, runs[r].pc \notin {"keep", "stale"} PROVE PassStep
  <2>1. r \in P!Slot BY <1>2, <1>4
  <2>2. runs[r].pc \in P!Pc /\ PageTypes BY <2>1 DEF PreviewTypes, PageTypes, Waits
  <2>3. Pass(others)
    <3>1. CASE runs[r].kind = "settle"
      BY <1>1, <1>4, <2>1, <2>2, <3>1, OverPasses, SettleRefusedPasses
    <3>2. CASE runs[r].kind = "refine"
      <4>1. P!refinePreview(r, a.ok, others) BY <1>1, <1>4, <3>2
      <4> QED BY <2>1, <4>1, RefinePasses
    <3>3. CASE runs[r].kind = "open"
      <4>1. P!activateDesktopSession(r, a.ok, others) BY <1>1, <1>4, <3>3
      <4> QED BY <1>2, <2>1, <2>2, <4>1, OpenPasses
    <3>4. CASE runs[r].kind \notin {"settle", "refine", "open"}
      <4>1. P!scheduleZoomRefinement(r, others) BY <1>1, <1>4, <3>4
      <4> QED BY <2>1, <4>1, ZoomPasses
    <3> QED BY <3>1, <3>2, <3>3, <3>4
  <2>4. UNCHANGED <<P!viewer, sched>> BY <1>1, <1>4
  <2>5. others \in SUBSET answers /\ \A b \in answers : b.owner = P!FrameOwner => b \in others
    BY <1>4
  <2> HIDE DEF others
  <2> QED BY <1>3, <2>3, <2>4, <2>5
          DEF PassStep, P!page, P!viewer, PreviewTypes, PageTypes, ViewTypes
<1>5. CASE r = P!FrameOwner BY <1>1, <1>5 DEF P!viewer
<1>6. CASE r # P!FrameOwner /\ runs[r].pc \in {"keep", "stale"} BY <1>1, <1>2, <1>6
<1> QED BY <1>4, <1>5, <1>6

\* The end of a render that shows nothing.
LEMMA SupersededSteps == ASSUME PreviewTypes, P!Superseded PROVE LandStep
<1>1. Landed(FALSE) /\ refusal' \in {"queued", "during"}
  BY RunEntryLands DEF P!Superseded, PreviewTypes
<1> QED BY <1>1 DEF P!Superseded, LandStep, P!page, P!viewer, PreviewTypes, PageTypes, ViewTypes

LEMMA RefuseSteps == ASSUME PreviewTypes, P!Refuse PROVE LandStep
<1>1. Landed(FALSE) /\ refusal' \in {"queued", "hard"}
  BY RunEntryLands DEF P!Refuse, PreviewTypes
<1>2. budget \in P!Bounds BY DEF PreviewTypes, PageTypes
<1>3. budget' \in P!Bounds /\ budget'.zooms = budget.zooms BY <1>2, PreviewSpend DEF P!Refuse
<1> QED BY <1>1, <1>3 DEF P!Refuse, LandStep, P!page, P!viewer, PreviewTypes, PageTypes, ViewTypes

LEMMA FailSteps == ASSUME PreviewTypes, P!Fail PROVE LandStep
<1>1. Landed(FALSE) /\ refusal' \in {"queued", refusal}
  BY RunEntryLands DEF P!Fail, PreviewTypes
<1>2. budget \in P!Bounds BY DEF PreviewTypes, PageTypes
<1>3. budget' \in P!Bounds /\ budget'.zooms = budget.zooms BY <1>2, PreviewSpend DEF P!Fail
<1>4. timers' \in [zoom : BOOLEAN, retry : Nat] /\ timers'.zoom = timers.zoom
  <2>1. timers \in [zoom : BOOLEAN, retry : Nat] BY DEF PreviewTypes, PageTypes
  <2>2. timers' = [timers EXCEPT !.retry = @ + 1] \/ timers' = timers BY DEF P!Fail
  <2> QED BY <2>1, <2>2
<1> QED BY <1>1, <1>3, <1>4 DEF P!Fail, LandStep, P!page, P!viewer, PreviewTypes, PageTypes, ViewTypes

-----------------------------------------------------------------------------
(* The kinds of steps keep the order.                                         *)

LEMMA SchedKeepsOrder == ASSUME OrderInv, SchedStep PROVE OrderInv'
<1>1. PreviewTypes' /\ Owned'
  BY DEF OrderInv, SchedStep, PreviewTypes, ViewTypes, LaneTypes, Owned, P!Slot
<1>2. LanePics' BY OrderSame DEF OrderInv, SchedStep
<1> QED BY <1>1, <1>2 DEF OrderInv

LEMMA PassKeepsOrder == ASSUME P!ScenariosAssumption, OrderInv, PassStep PROVE OrderInv'
<1>1. PICK others \in SUBSET answers : Pass(others) BY DEF PassStep
<1>2. /\ PreviewTypes /\ LaneTypes /\ Owned /\ LanePics
      /\ doc.gen \in Nat /\ doc.scale \in Nat /\ refusal \in {"none", "during", "queued", "hard"}
  BY DEF OrderInv, PreviewTypes, PageTypes, LaneTypes, ViewTypes
<1>3. RunsKept BY <1>1 DEF Pass
<1>4. UNCHANGED <<doc, canvas, accepted, gpu, setting>> BY DEF PassStep
<1>5. /\ LaneTypes' /\ Owned' /\ LanePics' /\ refusal' \in {"none", "during", "queued", "hard"}
  <2>1. CASE answers' = others /\ lane' = lane /\ refusal' = refusal
    <3>1. LanePics' BY <1>2, <1>3, <1>4, <2>1, OrderSame
    <3> QED BY <1>2, <2>1, <3>1 DEF LaneTypes, Owned, P!Slot
  <2>2. ASSUME NEW r \in P!Slot, Submitted(P!Entry(r, doc.scale, "no", FALSE), others)
        PROVE  <1>5
    <3> DEFINE e == P!Entry(r, doc.scale, "no", FALSE)
    <3>1. NewEntry(e) /\ e.gen = doc.gen BY <1>2, RenderIsNew
    <3>2. Submitted(e, others) /\ others \in SUBSET AnswerRecords
      BY <1>2, <2>2 DEF LaneTypes, AnswerRecords
    <3> HIDE DEF e
    <3>3. LaneTypes' /\ Owned' BY <1>2, <3>1, <3>2, SubmittedTypes
    <3>4. LanePics' BY <1>2, <1>3, <1>4, <3>1, <3>2, KeptFits, OrderSubmitted
    <3> QED BY <1>2, <3>2, <3>3, <3>4 DEF Submitted
  <2> QED BY <1>1, <2>1, <2>2 DEF Pass
<1>6. PageTypes' /\ ViewTypes'
  BY <1>2, <1>3, <1>5 DEF PreviewTypes, PageTypes, ViewTypes, PassStep, RunsKept
<1> QED BY <1>5, <1>6 DEF OrderInv, PreviewTypes

LEMMA LandKeepsOrder == ASSUME P!ScenariosAssumption, OrderInv, LandStep PROVE OrderInv'
<1>1. LanePics'
  <2>1. Landed(FALSE) BY DEF LandStep
  <2> QED BY <2>1, OrderLanded DEF OrderInv, LandStep
<1>2. LaneTypes' /\ Owned'
  <2>1. Landed(FALSE) BY DEF LandStep
  <2> QED BY <2>1, LandedTypes DEF OrderInv, PreviewTypes
<1>3. PageTypes' /\ ViewTypes' BY DEF OrderInv, PreviewTypes, PageTypes, ViewTypes, LandStep, P!Slot
<1> QED BY <1>1, <1>2, <1>3 DEF OrderInv, PreviewTypes

-----------------------------------------------------------------------------
(* The other steps.                                                           *)

LEMMA NotedEntry ==
  ASSUME LaneTypes, NEW gen, NEW q, q = P!noteEdit(lane, gen)
  PROVE  /\ q \in Seq(Entries) /\ Len(q) = Len(lane) /\ (q = <<>> <=> lane = <<>>)
         /\ \A i \in 1..Len(lane) :
              /\ q[i].owner = lane[i].owner /\ q[i].gen = lane[i].gen
              /\ q[i].drawn = lane[i].drawn /\ P!Shown(q[i]) = P!Shown(lane[i])
              /\ q[i].scale = lane[i].scale /\ q[i].coarse = lane[i].coarse
              /\ (q[i].cancelled = lane[i].cancelled \/ (i = 1 /\ q[i].cancelled))
<1>1. CASE q = lane BY <1>1 DEF LaneTypes
<1>2. CASE q # lane
  <2>1. lane # <<>> /\ q = [lane EXCEPT ![1].cancelled = TRUE] BY <1>2 DEF P!noteEdit
  <2>2. lane[1] \in Entries /\ lane \in Seq(Entries) /\ 1 \in 1..Len(lane)
    BY <2>1, LanePlaces DEF LaneTypes
  <2> DEFINE d == [lane[1] EXCEPT !.cancelled = TRUE]
  <2>3. /\ d \in Entries /\ d.cancelled /\ d.owner = lane[1].owner /\ d.gen = lane[1].gen
        /\ d.drawn = lane[1].drawn /\ P!Shown(d) = P!Shown(lane[1])
        /\ d.scale = lane[1].scale /\ d.coarse = lane[1].coarse
    BY <2>2 DEF Entries, P!Shown
  <2>4. q = [lane EXCEPT ![1] = d] BY <2>1
  <2> HIDE DEF d
  <2>5. q \in Seq(Entries) /\ Len(q) = Len(lane) /\ q[1] = d
        /\ \A i \in 1..Len(lane) : i # 1 => q[i] = lane[i]
    BY <2>2, <2>3, <2>4, ExceptSeq
  <2>6. q # <<>> BY <2>2, <2>5, EmptySeq
  <2>7. d = [lane[1] EXCEPT !.cancelled = TRUE] BY DEF d
  <2> QED BY <2>1, <2>3, <2>5, <2>6, <2>7
<1> QED BY <1>1, <1>2

\* An input event makes the next edit.
LEMMA InputKeepsOrder == ASSUME P!ScenariosAssumption, OrderInv, P!Input PROVE OrderInv'
<1>1. PreviewTypes /\ PageTypes /\ LaneTypes /\ Owned /\ LanePics /\ doc.gen \in Nat
  BY DEF OrderInv, PreviewTypes, PageTypes
<1> DEFINE q == P!noteEdit(lane, doc.gen)
<1>2. lane' = q /\ doc' = [doc EXCEPT !.gen = @ + 1] BY DEF P!Input
<1>3. doc'.gen = doc.gen + 1 /\ doc' \in [gen : Nat, photo : Nat, scale : Nat, zoomed : BOOLEAN]
  BY <1>1, <1>2 DEF PageTypes
<1>4. UNCHANGED <<saves, answers, runs, canvas, surface, accepted, unavailable, refusal, gpu, timers, setting>>
  BY DEF P!Input, P!viewer
<1>5. PageTypes'
  <2>1. ScheduleOK(sched') BY <1>1, ScheduleIsOK DEF P!Input, PageTypes
  <2>2. budget' \in P!Bounds BY <1>1, PreviewSpend DEF P!Input, PageTypes
  <2>3. rearms' \in 0..MaxRearms BY PreviewSlots DEF P!Input
  <2>4. pressed' = "moved" BY DEF P!Input
  <2> QED BY <1>1, <1>3, <1>4, <2>1, <2>2, <2>3, <2>4 DEF PageTypes, P!Slot
<1>6. /\ lane' \in Seq(Entries) /\ Len(lane') = Len(lane) /\ (lane' = <<>> <=> lane = <<>>)
      /\ \A i \in 1..Len(lane) :
           /\ lane'[i].owner = lane[i].owner /\ lane'[i].gen = lane[i].gen
           /\ lane'[i].drawn = lane[i].drawn /\ P!Shown(lane'[i]) = P!Shown(lane[i])
           /\ (lane'[i].cancelled = lane[i].cancelled \/ (i = 1 /\ lane'[i].cancelled))
  BY <1>1, <1>2, NotedEntry
<1> HIDE DEF q
<1>7. LaneTypes' /\ Owned' BY <1>1, <1>4, <1>6 DEF LaneTypes, Owned, P!Slot
<1>8. LaneOK'
  <2>1. Len(lane) = 2 => 1 \in 1..Len(lane) /\ 2 \in 1..Len(lane) BY <1>1, LanePlaces
  <2>2. lane # <<>> => 1 \in 1..Len(lane) BY <1>1, LanePlaces
  <2>3. Len(lane') = 2 => lane'[1].cancelled /\ ~lane'[2].cancelled /\ ~lane'[2].drawn
    BY <1>1, <1>6, <2>1 DEF LanePics, LaneOK
  <2>4. lane' # <<>> /\ lane'[1].drawn => gpu' /\ setting'.tiled /\ canvas' = P!Shown(lane'[1])
    BY <1>1, <1>4, <1>6, <2>2 DEF LanePics, LaneOK
  <2> QED BY <2>3, <2>4 DEF LaneOK, P!Shown
<1>9. NotNewer'
  <2>1. /\ canvas.gen \in Nat /\ accepted.gen \in Nat /\ \A r \in P!Slot : runs[r].gen \in Nat
    BY <1>1 DEF PreviewTypes, ViewTypes, PageTypes, Waits
  <2>2. \A i \in 1..Len(lane) : lane[i].gen \in Nat BY <1>1, EntryGen
  <2> DEFINE n == doc.gen
  <2>3. n \in Nat /\ doc'.gen = n + 1 BY <1>1, <1>3
  <2>4. /\ canvas.gen <= n /\ accepted.gen <= n
        /\ \A i \in 1..Len(lane) : lane[i].gen <= n
        /\ \A r \in P!Slot : runs[r].pc = "keep" => runs[r].gen <= n
    BY <1>1 DEF LanePics, NotNewer
  <2> HIDE DEF n
  <2>5. canvas'.gen <= doc'.gen /\ accepted'.gen < doc'.gen BY <1>4, <2>1, <2>3, <2>4
  <2>6. \A i \in 1..Len(lane') : lane'[i].gen <= doc'.gen BY <1>6, <2>2, <2>3, <2>4
  <2>7. \A r \in P!Slot : runs'[r].pc = "keep" => runs'[r].gen <= doc'.gen
    BY <1>4, <2>1, <2>3, <2>4
  <2>8. accepted'.gen # doc'.gen BY <1>4, <2>1, <2>3, <2>4
  <2>9. accepted'.gen <= doc'.gen BY <1>4, <2>1, <2>3, <2>4
  <2> QED BY <2>5, <2>6, <2>7, <2>8, <2>9 DEF NotNewer
<1>10. NotOlder' BY <1>1, <1>4, <1>6 DEF LanePics, NotOlder, P!Slot
<1>11. RawWithoutGpu' BY <1>1, <1>4 DEF LanePics, RawWithoutGpu, P!Slot
<1>12. ViewTypes' BY <1>1, <1>4 DEF PreviewTypes, ViewTypes
<1> QED BY <1>5, <1>7, <1>8, <1>9, <1>10, <1>11, <1>12 DEF OrderInv, PreviewTypes, LanePics

\* What a step may do with a new render of this edit, and with none.
SubmitsNew(others) ==
  \E e \in Entries : NewEntry(e) /\ e.gen = doc.gen /\ Submitted(e, others)
LEMMA QuietSubmits ==
  ASSUME P!ScenariosAssumption, OrderInv, RunsFit, PageTypes', SubmitsNew({}),
         UNCHANGED <<canvas, surface, accepted, unavailable, gpu, setting>>,
         doc'.gen = doc.gen, doc'.photo = doc.photo
  PROVE  OrderInv'
<1>1. PICK e \in Entries : NewEntry(e) /\ e.gen = doc.gen /\ Submitted(e, {}) BY DEF SubmitsNew
<1>2. PreviewTypes /\ LaneTypes /\ Owned /\ LanePics /\ doc.gen \in Nat
  BY DEF OrderInv, PreviewTypes, PageTypes
<1>3. {} \in SUBSET AnswerRecords OBVIOUS
<1>4. LaneTypes' /\ Owned' BY <1>1, <1>2, <1>3, SubmittedTypes
<1>5. LanePics'
  <2>1. doc'.gen \in Nat /\ doc'.gen >= doc.gen /\ e.gen = doc'.gen BY <1>1, <1>2
  <2> QED BY <1>1, <1>2, <2>1, OrderSubmitted
<1>6. refusal' \in {refusal, "queued"} BY <1>1 DEF Submitted
<1>7. ViewTypes' BY <1>2, <1>6 DEF PreviewTypes, ViewTypes
<1> QED BY <1>4, <1>5, <1>7 DEF OrderInv, PreviewTypes

\* Nothing but the page and the scheduler moves.
LEMMA PageKeepsOrder ==
  ASSUME OrderInv, RunsKept, PageTypes', answers' \subseteq answers,
         UNCHANGED <<lane, canvas, surface, accepted, unavailable, gpu, setting>>,
         refusal' \in {"none", "during", "queued", "hard"},
         doc'.gen = doc.gen, doc'.photo = doc.photo
  PROVE  OrderInv'
<1>1. LanePics' BY OrderSame DEF OrderInv
<1>2. ViewTypes' BY DEF OrderInv, PreviewTypes, ViewTypes
<1>3. LaneTypes' /\ Owned' BY DEF OrderInv, PreviewTypes, LaneTypes, Owned, P!Slot
<1> QED BY <1>1, <1>2, <1>3 DEF OrderInv, PreviewTypes

\* The animation frame.
FrameRenders ==
  \E coarse \in {"no", "drag"}, snap \in BOOLEAN :
    /\ sched' = [sched EXCEPT !.frame = "draft"]
    /\ coarse = "no" => ~(P!guaranteedTiled /\ ~doc.zoomed)
    /\ P!submit(P!Entry(P!FrameOwner, doc.scale, coarse, snap), {})
LEMMA FrameSteps ==
  ASSUME PreviewTypes, P!FrameStart
  PROVE  /\ answers = {} /\ sched.frame = "raf"
         /\ UNCHANGED <<P!page, runs, P!viewer, gpu, timers, rearms, budget, setting>>
         /\ \/ /\ sched' \in {[sched EXCEPT !.frame = "none"], P!FrameOver(sched)}
               /\ lane' = lane /\ answers' = answers /\ refusal' \in {refusal, "hard"}
            \/ FrameRenders
<1>1. /\ answers = {} /\ sched.frame = "raf"
      /\ UNCHANGED <<P!page, runs, P!viewer, gpu, timers, rearms, budget, setting>>
  BY DEF P!FrameStart, P!Quiet
<1>2. CASE sched.current = P!NoTask BY <1>1, <1>2 DEF P!FrameStart
<1>3. CASE sched.current # P!NoTask
  <2>1. PICK coarse \in BOOLEAN :
            CASE P!guaranteedTiled /\ ~coarse /\ ~doc.zoomed ->
                    /\ refusal' = "hard" /\ sched' = P!FrameOver(sched)
                    /\ UNCHANGED <<lane, answers>>
              [] ~(P!guaranteedTiled /\ ~coarse /\ ~doc.zoomed) /\ ~sched.dragging /\ lane # <<>> ->
                    sched' = P!FrameOver(sched) /\ UNCHANGED <<lane, answers, refusal>>
              [] OTHER ->
                    /\ sched' = [sched EXCEPT !.frame = "draft"]
                    /\ LET snap == setting.snapshots /\ sched.dragging
                                   /\ ~(P!guaranteedTiled /\ coarse)
                       IN  P!submit(P!Entry(P!FrameOwner, doc.scale, IF coarse THEN "drag" ELSE "no",
                                        snap), {})
    BY <1>3 DEF P!FrameStart
  <2>2. CASE P!guaranteedTiled /\ ~coarse /\ ~doc.zoomed
    BY <1>1, <1>3, <2>1, <2>2
  <2>3. CASE ~(P!guaranteedTiled /\ ~coarse /\ ~doc.zoomed) /\ ~sched.dragging /\ lane # <<>>
    BY <1>1, <1>3, <2>1, <2>3
  <2>4. CASE ~(P!guaranteedTiled /\ ~coarse /\ ~doc.zoomed) /\ ~(~sched.dragging /\ lane # <<>>)
    <3> DEFINE c == IF coarse THEN "drag" ELSE "no"
               snap == setting.snapshots /\ sched.dragging /\ ~(P!guaranteedTiled /\ coarse)
    <3>1. c \in {"no", "drag"} /\ snap \in BOOLEAN /\ (c = "no" => ~(P!guaranteedTiled /\ ~doc.zoomed))
      BY <2>4
    <3>2. sched' = [sched EXCEPT !.frame = "draft"] /\ P!submit(P!Entry(P!FrameOwner, doc.scale, c, snap), {})
      BY <2>1, <2>4
    <3> HIDE DEF c, snap
    <3> QED BY <1>1, <3>1, <3>2 DEF FrameRenders
  <2> QED BY <2>2, <2>3, <2>4
<1> QED BY <1>2, <1>3

LEMMA FrameKeepsOrder == ASSUME P!ScenariosAssumption, OrderInv, P!FrameStart PROVE OrderInv'
<1>1. PreviewTypes /\ PageTypes /\ ScheduleOK(sched) /\ refusal \in {"none", "during", "queued", "hard"}
  BY DEF OrderInv, PreviewTypes, PageTypes, ViewTypes
<1>2. /\ answers = {} /\ sched.frame = "raf"
      /\ UNCHANGED <<doc, pressed, saves, runs, canvas, surface, accepted, unavailable, gpu, timers,
                     rearms, budget, setting>>
  BY <1>1, FrameSteps DEF P!page, P!viewer
<1>3. RunsKept BY <1>1, <1>2, RunsSame
<1>4. CASE /\ sched' \in {[sched EXCEPT !.frame = "none"], P!FrameOver(sched)}
           /\ lane' = lane /\ answers' = answers /\ refusal' \in {refusal, "hard"}
  <2>1. ScheduleOK([sched EXCEPT !.frame = "none"]) /\ ScheduleOK(P!FrameOver(sched))
    <3>1. ScheduleOK(P!FrameOver(sched)) BY <1>1, FrameOverOK
    <3>2. sched.again = FALSE BY <1>1, <1>2 DEF ScheduleOK, Schedules
    <3>3. ScheduleOK([sched EXCEPT !.frame = "none"]) BY <1>1, <3>2 DEF ScheduleOK, Schedules, Frames
    <3> QED BY <3>1, <3>3
  <2>2. ScheduleOK(sched') BY <1>4, <2>1
  <2>3. PageTypes' BY <1>1, <1>2, <2>2 DEF PageTypes, P!Slot
  <2> QED BY <1>1, <1>2, <1>3, <1>4, <2>3, PageKeepsOrder
<1>5. CASE FrameRenders
  <2>1. PICK coarse \in {"no", "drag"}, snap \in BOOLEAN :
          /\ sched' = [sched EXCEPT !.frame = "draft"]
          /\ P!submit(P!Entry(P!FrameOwner, doc.scale, coarse, snap), {})
    BY <1>5 DEF FrameRenders
  <2>2. ScheduleOK(sched') BY <1>1, <2>1 DEF ScheduleOK, Schedules, Frames
  <2>3. PageTypes' BY <1>1, <1>2, <2>2 DEF PageTypes, P!Slot
  <2>4. SubmitsNew({})
    <3> DEFINE e == P!Entry(P!FrameOwner, doc.scale, coarse, snap)
    <3>1. NewEntry(e) /\ e.gen = doc.gen BY <1>1, FrameIsNew
    <3>2. Submitted(e, {}) BY <2>1, SubmitIs
    <3> HIDE DEF e
    <3> QED BY <3>1, <3>2 DEF SubmitsNew, NewEntry
  <2> QED BY <1>2, <1>3, <2>3, <2>4, KeptFits, QuietSubmits
<1> QED BY <1>1, <1>4, <1>5, FrameSteps

\* The drag frame's promise resumes onFrame.
LEMMA FrameResumesOrder ==
  ASSUME OrderInv, P!Resume, NEW a \in answers,
         sched' = IF a.ok THEN [sched EXCEPT !.frame = "device"] ELSE P!FrameOver(sched),
         answers' = answers \ {a},
         UNCHANGED <<runs, lane, refusal, canvas, surface, accepted, unavailable>>
  PROVE  OrderInv'
<1>1. PreviewTypes /\ PageTypes /\ ScheduleOK(sched) /\ refusal \in {"none", "during", "queued", "hard"}
  BY DEF OrderInv, PreviewTypes, PageTypes, ViewTypes
<1>2. UNCHANGED <<doc, pressed, saves, gpu, timers, rearms, budget, setting>> BY DEF P!Resume, P!page
<1>3. ScheduleOK(sched')
  <2>1. ScheduleOK([sched EXCEPT !.frame = "device"]) BY <1>1 DEF ScheduleOK, Schedules, Frames
  <2> QED BY <1>1, <2>1, FrameOverOK
<1>4. RunsKept BY <1>1, RunsSame
<1>5. PageTypes' BY <1>1, <1>2, <1>3 DEF PageTypes, P!Slot
<1>6. answers' \subseteq answers OBVIOUS
<1> QED BY <1>1, <1>2, <1>4, <1>5, <1>6, PageKeepsOrder

\* A step of the zoom, and its timer.
LEMMA ZoomStepKeepsOrder == ASSUME P!ScenariosAssumption, OrderInv, P!ZoomStep PROVE OrderInv'
<1>1. PreviewTypes /\ PageTypes /\ ScheduleOK(sched) /\ refusal \in {"none", "during", "queued", "hard"}
  BY DEF OrderInv, PreviewTypes, PageTypes, ViewTypes
<1>2. /\ UNCHANGED <<pressed, saves, lane, answers, runs, canvas, surface, accepted, unavailable,
                     refusal, gpu, rearms, setting>>
      /\ sched' = P!cancel(sched) /\ timers' = [timers EXCEPT !.zoom = TRUE]
      /\ \E scale \in 1..2 : doc' = [doc EXCEPT !.scale = scale, !.zoomed = TRUE]
      /\ P!Spend("zooms")
  BY DEF P!ZoomStep, P!viewer
<1>3. ScheduleOK(sched') BY <1>1, <1>2, CancelIsOK
<1>4. timers' \in [zoom : BOOLEAN, retry : Nat] BY <1>1, <1>2 DEF PageTypes
<1>5. /\ doc' \in [gen : Nat, photo : Nat, scale : Nat, zoomed : BOOLEAN]
      /\ doc'.gen = doc.gen /\ doc'.photo = doc.photo
  <2>1. PICK scale \in 1..2 : doc' = [doc EXCEPT !.scale = scale, !.zoomed = TRUE] BY <1>2
  <2>2. doc \in [gen : Nat, photo : Nat, scale : Nat, zoomed : BOOLEAN] BY <1>1 DEF PageTypes
  <2> DEFINE d == [doc EXCEPT !.scale = scale]
  <2>3. scale \in Nat /\ TRUE \in BOOLEAN OBVIOUS
  <2>4. /\ d \in [gen : Nat, photo : Nat, scale : Nat, zoomed : BOOLEAN]
        /\ d.gen = doc.gen /\ d.photo = doc.photo
    BY <2>2, <2>3
  <2>5. doc' = [d EXCEPT !.zoomed = TRUE] BY <2>1, <2>2
  <2> HIDE DEF d
  <2> QED BY <2>3, <2>4, <2>5
<1>6. budget' \in P!Bounds BY <1>1, <1>2, PreviewSpend DEF PageTypes
<1>7. RunsKept BY <1>1, <1>2, RunsSame
<1>8. PageTypes' BY <1>1, <1>2, <1>3, <1>4, <1>5, <1>6 DEF PageTypes, P!Slot
<1> QED BY <1>1, <1>2, <1>5, <1>7, <1>8, PageKeepsOrder

LEMMA ZoomFiresKeepsOrder == ASSUME P!ScenariosAssumption, OrderInv, P!ZoomFires PROVE OrderInv'
<1>1. PreviewTypes /\ PageTypes /\ ScheduleOK(sched) /\ refusal \in {"none", "during", "queued", "hard"}
  BY DEF OrderInv, PreviewTypes, PageTypes, ViewTypes
<1>2. /\ UNCHANGED <<doc, pressed, saves, sched, canvas, surface, accepted, unavailable, gpu, rearms,
                     budget, setting>>
      /\ P!Free # {} /\ timers' = [timers EXCEPT !.zoom = FALSE] /\ answers = {}
  BY DEF P!ZoomFires, P!viewer, P!page, P!Quiet
<1>3. timers' \in [zoom : BOOLEAN, retry : Nat] BY <1>1, <1>2 DEF PageTypes
<1>4. CASE UNCHANGED <<runs, lane, answers, refusal>>
  <2>1. RunsKept BY <1>1, <1>4, RunsSame
  <2>2. PageTypes' BY <1>1, <1>2, <1>3, <1>4 DEF PageTypes, P!Slot
  <2> QED BY <1>1, <1>2, <1>4, <2>1, <2>2, PageKeepsOrder
<1>5. CASE ~UNCHANGED <<runs, lane, answers, refusal>>
  <2>1. PICK coarse \in BOOLEAN :
            /\ runs' = [runs EXCEPT ![P!NextSlot] =
                         P!Run("zoom", IF coarse THEN "coarse" ELSE "gpu", P!NoTask, 0)]
            /\ P!submit(P!Entry(P!NextSlot, doc.scale, IF coarse THEN "zoom" ELSE "no", FALSE), {})
    BY <1>5 DEF P!ZoomFires
  <2> DEFINE pc == IF coarse THEN "coarse" ELSE "gpu"
             c == IF coarse THEN "zoom" ELSE "no"
             e == P!Entry(P!NextSlot, doc.scale, c, FALSE)
  <2>2. pc \in P!Pc \ {"keep", "cpu"} /\ c \in {"no", "zoom"} BY KindsAndPcs
  <2>3. runs' = [runs EXCEPT ![P!NextSlot] = P!Run("zoom", pc, P!NoTask, 0)] /\ P!submit(e, {})
    BY <2>1
  <2> HIDE DEF pc, c
  <2>4. P!NoTask \in PreviewTasks /\ "zoom" \in P!Kind BY KindsAndPcs DEF PreviewTasks, P!NoTask
  <2>5. RunsKept BY <1>1, <1>2, <2>2, <2>3, <2>4, RunBegins
  <2>6. PageTypes' BY <1>1, <1>2, <1>3, <2>5 DEF PageTypes, P!Slot, RunsKept
  <2>7. P!NextSlot \in P!Slot BY <1>2, NextSlotFree
  <2>8. NewEntry(e) /\ e.gen = doc.gen BY <1>1, <2>2, <2>7, ZoomIsNew
  <2>9. Submitted(e, {}) BY <2>3, SubmitIs
  <2> HIDE DEF e
  <2>10. SubmitsNew({}) BY <2>8, <2>9 DEF SubmitsNew, NewEntry
  <2> QED BY <1>2, <2>5, <2>6, <2>10, KeptFits, QuietSubmits
<1> QED BY <1>4, <1>5

\* Another photo.
OpenEntry == [P!Entry(P!NextSlot, 1, "no", FALSE) EXCEPT !.gen = doc.gen + 1, !.photo = doc.photo + 1]
LEMMA OpenSteps ==
  ASSUME P!ScenariosAssumption, PreviewTypes, P!OpenPhoto
  PROVE  /\ RunsKept /\ PageTypes' /\ sched' = P!cancel(sched) /\ budget'.zooms = budget.zooms
         /\ doc' = [gen |-> doc.gen + 1, photo |-> doc.photo + 1, scale |-> 1, zoomed |-> FALSE]
         /\ answers = {} /\ timers' = timers
         /\ NewEntry(OpenEntry) /\ OpenEntry.gen = doc.gen + 1 /\ OpenEntry.photo = doc.photo + 1
         /\ OpenEntry.scale = 1 /\ OpenEntry.coarse = "no" /\ OpenEntry.owner \in P!Slot
         /\ Submitted(OpenEntry, {})
         /\ UNCHANGED <<pressed, canvas, surface, accepted, unavailable, gpu, timers, rearms, setting>>
<1>1. PageTypes /\ ScheduleOK(sched) /\ budget \in P!Bounds BY DEF PreviewTypes, PageTypes
<1>2. P!NextSlot \in P!Slot BY NextSlotFree DEF P!OpenPhoto
<1> DEFINE n == P!NextSlot
           fresh == [P!Run("open", "gpu", P!NoTask, 0) EXCEPT
                       !.photo = doc.photo + 1, !.scale = 1, !.gen = doc.gen + 1]
<1>3. /\ runs' = [x \in P!Slot |->
                IF x = n THEN fresh
                ELSE IF runs[x].pc \in {"cpu", "join"} THEN [runs[x] EXCEPT !.pc = "end"]
                ELSE IF runs[x].pc = "keep" THEN [runs[x] EXCEPT !.pc = "stale"] ELSE runs[x]]
      /\ P!submit(OpenEntry, {})
      /\ UNCHANGED <<pressed, canvas, surface, accepted, unavailable, gpu, timers, rearms, setting>>
      /\ doc' = [gen |-> doc.gen + 1, photo |-> doc.photo + 1, scale |-> 1, zoomed |-> FALSE]
      /\ saves' = [saves EXCEPT !.gone = saves.sent] /\ sched' = P!cancel(sched) /\ answers = {}
      /\ P!Spend("photos")
  BY DEF P!OpenPhoto, P!viewer, OpenEntry, P!Quiet
<1>4. fresh \in Waits /\ fresh.pc = "gpu"
  <2>1. P!NoTask \in PreviewTasks BY DEF PreviewTasks, P!NoTask
  <2>2. P!Run("open", "gpu", P!NoTask, 0) \in Waits /\ P!Run("open", "gpu", P!NoTask, 0).pc = "gpu"
    BY <1>1, <2>1, KindsAndPcs, RunTyped
  <2> DEFINE w == P!Run("open", "gpu", P!NoTask, 0)
  <2> HIDE DEF w
  <2>3. doc.photo + 1 \in Nat /\ doc.gen + 1 \in Nat BY <1>1 DEF PageTypes
  <2> QED BY <2>2, <2>3 DEF Waits, w
<1> HIDE DEF fresh, n
<1>5. RunsKept
  <2>1. {"end", "stale"} \subseteq P!Pc BY DEF P!Pc
  <2>2. \A x \in P!Slot : runs[x] \in Waits BY <1>1 DEF PageTypes
  <2>3. \A x \in P!Slot : /\ [runs[x] EXCEPT !.pc = "end"] \in Waits
                          /\ [runs[x] EXCEPT !.pc = "end"].pc = "end"
                          /\ [runs[x] EXCEPT !.pc = "stale"] \in Waits
                          /\ [runs[x] EXCEPT !.pc = "stale"].pc = "stale"
    BY <2>1, <2>2 DEF Waits
  <2>4. \A x \in P!Slot :
          \/ runs'[x] \in Waits /\ runs'[x].pc \in {"gpu", "end", "stale"}
          \/ runs'[x] = runs[x]
    BY <1>3, <1>4, <2>3
  <2>5. runs' \in [P!Slot -> Waits] BY <1>3, <1>4, <2>2, <2>3
  <2> QED BY <2>4, <2>5 DEF RunsKept, NoNewKeep, NoNewRaw
<1>6. budget' \in P!Bounds /\ budget'.zooms = budget.zooms BY <1>1, <1>3, PreviewSpend
<1>7. PageTypes'
  <2>1. ScheduleOK(sched') BY <1>1, <1>3, CancelIsOK
  <2>2. doc' \in [gen : Nat, photo : Nat, scale : Nat, zoomed : BOOLEAN] BY <1>1, <1>3 DEF PageTypes
  <2>3. saves' \in [sent : Nat, done : Nat, failed : SUBSET Nat, gone : Nat] BY <1>1, <1>3 DEF PageTypes
  <2> QED BY <1>1, <1>3, <1>5, <1>6, <2>1, <2>2, <2>3 DEF PageTypes, P!Slot, RunsKept
<1>8. /\ NewEntry(OpenEntry) /\ OpenEntry.gen = doc.gen + 1 /\ OpenEntry.photo = doc.photo + 1
      /\ OpenEntry.scale = 1 /\ OpenEntry.coarse = "no" /\ OpenEntry.owner \in P!Slot
  <2>1. doc.gen + 1 \in Nat /\ doc.photo + 1 \in Nat /\ doc.gen \in Nat /\ doc.photo \in Nat
    BY <1>1 DEF PageTypes
  <2>2. P!NextSlot \in Nat BY <1>2, PreviewSlots
  <2> QED BY <1>2, <2>1, <2>2 DEF OpenEntry, P!Entry, NewEntry, Entries
<1>9. Submitted(OpenEntry, {}) BY <1>3, SubmitIs
<1> QED BY <1>3, <1>5, <1>6, <1>7, <1>8, <1>9

LEMMA OpenKeepsOrder == ASSUME P!ScenariosAssumption, OrderInv, P!OpenPhoto PROVE OrderInv'
<1>1. PreviewTypes /\ LaneTypes /\ Owned /\ LanePics /\ doc.gen \in Nat
  BY DEF OrderInv, PreviewTypes, PageTypes
<1>2. /\ RunsKept /\ PageTypes' /\ doc'.gen = doc.gen + 1
      /\ NewEntry(OpenEntry) /\ OpenEntry.gen = doc.gen + 1 /\ Submitted(OpenEntry, {})
      /\ UNCHANGED <<canvas, surface, accepted, unavailable, gpu, setting>>
  BY <1>1, OpenSteps
<1>3. LaneTypes' /\ Owned'
  <2>1. {} \in SUBSET AnswerRecords OBVIOUS
  <2> QED BY <1>1, <1>2, <2>1, SubmittedTypes
<1>4. LanePics'
  <2>1. doc'.gen \in Nat /\ doc'.gen >= doc.gen /\ doc'.gen # doc.gen BY <1>1, <1>2
  <2> QED BY <1>1, <1>2, <2>1, KeptFits, OrderSubmitted
<1>5. refusal' \in {refusal, "queued"} BY <1>2 DEF Submitted
<1>6. ViewTypes' BY <1>1, <1>2, <1>5 DEF PreviewTypes, ViewTypes
<1> QED BY <1>2, <1>3, <1>4, <1>6 DEF OrderInv, PreviewTypes

-----------------------------------------------------------------------------
(* The steps that show a picture, or are about to.                            *)

\* A picture as the canvas has it.
LEMMA ShownIs ==
  ASSUME NEW e \in Entries
  PROVE  /\ P!Shown(e) \in [gen : Nat, photo : Nat, scale : Nat, coarse : BOOLEAN]
         /\ P!Shown(e).gen = e.gen /\ P!Shown(e).photo = e.photo
         /\ P!Shown(e).scale = e.scale /\ P!Shown(e).coarse = (e.coarse # "no")
BY DEF P!Shown, Entries

LEMMA AcceptedIs ==
  ASSUME NEW f \in [gen : Nat, photo : Nat, scale : Nat, coarse : BOOLEAN],
         unavailable \in BOOLEAN, NEW on, P!acceptPresentation(f, on)
  PROVE  /\ surface' = on /\ unavailable' \in BOOLEAN
         /\ accepted' \in [gen : Nat, photo : Nat, scale : Nat, coarse : BOOLEAN, exact : BOOLEAN]
         /\ accepted'.gen = f.gen /\ accepted'.photo = f.photo
         /\ accepted'.scale = f.scale /\ accepted'.coarse = f.coarse
         /\ accepted'.exact = P!AtScale(f)
<1>1. P!AtScale(f) \in BOOLEAN BY DEF P!AtScale
<1>2. accepted' = [gen |-> f.gen, scale |-> f.scale, coarse |-> f.coarse,
                   exact |-> P!AtScale(f), photo |-> f.photo]
      /\ surface' = on /\ unavailable' = (unavailable /\ ~P!AtScale(f))
  BY DEF P!acceptPresentation
<1> HIDE DEF P!AtScale
<1> QED BY <1>1, <1>2

\* The drag frame's answers are not taken by another function.
FramesLeft(others) == \A a \in answers : a.owner = P!FrameOwner => a \in others

\* The CPU picture is there, and the GPU is asked once more.
KeepAsks ==
  \E r \in P!Slot :
    /\ answers = {} /\ P!RequestCurrent(runs[r]) /\ P!Render(r, "keep", {})
    /\ UNCHANGED <<doc, pressed, saves, sched, canvas, surface, accepted, unavailable, gpu,
                   timers, rearms, budget, setting>>

LEMMA KeepAsksOrder == ASSUME P!ScenariosAssumption, OrderInv, KeepAsks PROVE OrderInv'
<1>1. PICK r \in P!Slot :
        /\ answers = {} /\ P!RequestCurrent(runs[r]) /\ P!Render(r, "keep", {})
        /\ UNCHANGED <<doc, pressed, saves, sched, canvas, surface, accepted, unavailable, gpu,
                   timers, rearms, budget, setting>>
  BY DEF KeepAsks
<1>2. PreviewTypes /\ PageTypes BY DEF OrderInv, PreviewTypes
<1>3. "keep" \in P!Pc BY DEF P!Pc
<1> DEFINE w == [runs[r] EXCEPT !.pc = "keep"]
<1>4. w \in Waits /\ w.pc = "keep" /\ w.gen = doc.gen
  BY <1>1, <1>2, <1>3, PcTyped DEF P!RequestCurrent
<1>5. runs' = [runs EXCEPT ![r] = w] BY <1>1 DEF P!Render, P!With
<1> HIDE DEF w
<1>6. RunsFit BY <1>2, <1>4, <1>5 DEF PageTypes, RunsFit, KeepsFit, NoNewRaw
<1>7. PageTypes' BY <1>1, <1>2, <1>6 DEF PageTypes, RunsFit, P!Slot
<1>8. SubmitsNew({})
  <2> DEFINE e == P!Entry(r, doc.scale, "no", FALSE)
  <2>1. NewEntry(e) /\ e.gen = doc.gen BY <1>2, RenderIsNew
  <2>2. Submitted(e, {}) BY <1>1, SubmitIs DEF P!Render
  <2> HIDE DEF e
  <2> QED BY <2>1, <2>2 DEF SubmitsNew, NewEntry
<1> QED BY <1>1, <1>6, <1>7, <1>8, QuietSubmits

\* A CPU picture is shown.
CpuShows ==
  \E r \in P!Slot, others \in SUBSET answers :
    /\ FramesLeft(others) /\ P!Over(r, others) /\ P!ShowCpuPicture(runs[r])
    /\ P!RequestCurrent(runs[r]) /\ (gpu => runs[r].pc = "keep")
    /\ UNCHANGED <<doc, pressed, saves, sched, gpu, timers, rearms, budget, setting>>

LEMMA CpuShowsView ==
  ASSUME PreviewTypes, CpuShows
  PROVE  /\ canvas' = canvas /\ surface' = "image" /\ unavailable' \in BOOLEAN
         /\ accepted' \in [gen : Nat, photo : Nat, scale : Nat, coarse : BOOLEAN, exact : BOOLEAN]
         /\ accepted'.gen = doc.gen /\ accepted'.photo = doc.photo
<1>1. PICK r \in P!Slot : P!ShowCpuPicture(runs[r]) /\ P!RequestCurrent(runs[r])
  BY DEF CpuShows
<1>2. runs[r] \in Waits /\ unavailable \in BOOLEAN BY DEF PreviewTypes, PageTypes, ViewTypes
<1> DEFINE f == P!CpuPicture(runs[r])
<1>3. /\ f \in [gen : Nat, photo : Nat, scale : Nat, coarse : BOOLEAN]
      /\ f.gen = runs[r].gen /\ f.photo = runs[r].photo
  BY <1>2 DEF P!CpuPicture, Waits
<1>4. P!acceptPresentation(f, "image") /\ canvas' = canvas BY <1>1 DEF P!ShowCpuPicture
<1> HIDE DEF f
<1> QED BY <1>1, <1>2, <1>3, <1>4, AcceptedIs DEF P!RequestCurrent

LEMMA CpuShowsOrder == ASSUME P!ScenariosAssumption, OrderInv, CpuShows PROVE OrderInv'
<1>1. PICK r \in P!Slot, others \in SUBSET answers :
        /\ P!Over(r, others) /\ P!RequestCurrent(runs[r]) /\ (gpu => runs[r].pc = "keep")
        /\ UNCHANGED <<doc, pressed, saves, sched, gpu, timers, rearms, budget, setting>>
  BY DEF CpuShows
<1>2. PreviewTypes /\ PageTypes /\ ViewTypes /\ LaneTypes /\ LanePics /\ Owned
  BY DEF OrderInv, PreviewTypes
<1>3. RunsKept /\ answers' = others /\ lane' = lane /\ refusal' = refusal
  BY <1>1, <1>2, OverKeeps
<1>4. /\ canvas' = canvas /\ surface' = "image" /\ unavailable' \in BOOLEAN
      /\ accepted' \in [gen : Nat, photo : Nat, scale : Nat, coarse : BOOLEAN, exact : BOOLEAN]
      /\ accepted'.gen = doc.gen /\ accepted'.photo = doc.photo
  BY <1>2, CpuShowsView
<1>5. runs[r].gen = doc.gen /\ doc.gen \in Nat BY <1>1, <1>2 DEF P!RequestCurrent, PageTypes
<1>6. ViewTypes' BY <1>1, <1>2, <1>3, <1>4 DEF ViewTypes
<1>7. PageTypes' BY <1>1, <1>2, <1>3 DEF PageTypes, RunsKept, P!Slot
<1>8. LaneTypes' /\ Owned' BY <1>2, <1>3 DEF LaneTypes, Owned, P!Slot
<1>9. LaneOK' BY <1>1, <1>2, <1>3, <1>4 DEF LanePics, LaneOK, P!Shown
<1>10. NotNewer'
  BY <1>1, <1>2, <1>3, <1>4, <1>5 DEF LanePics, NotNewer, RunsKept, NoNewKeep
<1>11. NotOlder'
  BY <1>1, <1>2, <1>3, <1>4, <1>5 DEF LanePics, NotOlder, RunsKept, NoNewKeep
<1>12. RawWithoutGpu' BY <1>1, <1>2, <1>3 DEF LanePics, RawWithoutGpu, RunsKept, NoNewRaw
<1> QED BY <1>6, <1>7, <1>8, <1>9, <1>10, <1>11, <1>12 DEF OrderInv, PreviewTypes, LanePics

\* A current render is alone in the lane.
LEMMA CurrentAlone ==
  ASSUME OrderInv, lane # <<>>, P!IsCurrent(lane[1])
  PROVE  /\ Len(lane) = 1 /\ lane[1] \in Entries /\ ~lane[1].cancelled
         /\ lane[1].photo = doc.photo /\ lane[1].gen <= doc.gen
         /\ lane[1].gen >= canvas.gen /\ (gpu => lane[1].gen >= accepted.gen)
<1>1. LaneTypes /\ LanePics BY DEF OrderInv, PreviewTypes
<1>2. Len(lane) \in {1, 2} /\ lane[1] \in Entries BY <1>1, LanePlaces
<1>3. ~lane[1].cancelled /\ lane[1].photo = doc.photo BY DEF P!IsCurrent, P!TokenCurrent
<1>4. Len(lane) = 1 /\ 1 \in 1..Len(lane) BY <1>1, <1>2, <1>3 DEF LanePics, LaneOK
<1> QED BY <1>1, <1>2, <1>3, <1>4 DEF LanePics, NotNewer, NotOlder

\* The render that is accepted was alone, and the lane is empty after it.
AcceptStep ==
  /\ lane # <<>> /\ gpu /\ P!IsCurrent(lane[1])
  /\ P!acceptPresentation(P!Shown(lane[1]), "canvas")
  /\ Landed(TRUE) /\ refusal' \in {"queued", refusal} /\ canvas' = P!Shown(lane[1])
  /\ answers = {} /\ (setting.tiled => lane[1].drawn /\ sched.frame \notin {"raf", "device"})
  /\ UNCHANGED <<doc, pressed, saves, sched, runs, gpu, timers, rearms, budget, setting>>

LEMMA AcceptKeepsOrder ==
  ASSUME P!ScenariosAssumption, OrderInv, AcceptStep
  PROVE  OrderInv' /\ lane' = <<>>
<1>1. PreviewTypes /\ PageTypes /\ ViewTypes /\ LaneTypes /\ LanePics /\ Owned
  BY DEF OrderInv, PreviewTypes
<1>2. /\ Len(lane) = 1 /\ lane[1] \in Entries
      /\ lane[1].photo = doc.photo /\ lane[1].gen <= doc.gen
  BY CurrentAlone DEF AcceptStep
<1>3. lane' = <<>> BY <1>2 DEF AcceptStep, Landed
<1> DEFINE f == P!Shown(lane[1])
<1>4. /\ f \in [gen : Nat, photo : Nat, scale : Nat, coarse : BOOLEAN]
      /\ f.gen = lane[1].gen /\ f.photo = lane[1].photo
  BY <1>2, ShownIs
<1>5. P!acceptPresentation(f, "canvas") /\ canvas' = f BY DEF AcceptStep
<1> HIDE DEF f
<1>6. /\ surface' = "canvas" /\ unavailable' \in BOOLEAN
      /\ accepted' \in [gen : Nat, photo : Nat, scale : Nat, coarse : BOOLEAN, exact : BOOLEAN]
      /\ accepted'.gen = f.gen /\ accepted'.photo = f.photo
  BY <1>1, <1>4, <1>5, AcceptedIs DEF ViewTypes
<1>7. UNCHANGED <<doc, pressed, saves, sched, runs, gpu, timers, rearms, budget, setting>>
      /\ refusal' \in {"queued", refusal}
  BY DEF AcceptStep
<1>8. ViewTypes' BY <1>1, <1>4, <1>5, <1>6, <1>7 DEF ViewTypes
<1>9. PageTypes' BY <1>1, <1>7 DEF PageTypes, P!Slot
<1>10. LaneTypes' /\ Owned' BY <1>1, LandedTypes DEF AcceptStep
<1>11. LaneOK' BY <1>3 DEF LaneOK
<1>12. NotNewer' BY <1>1, <1>2, <1>3, <1>4, <1>5, <1>6, <1>7 DEF LanePics, NotNewer, P!Slot
<1>13. NotOlder' BY <1>3 DEF NotOlder
<1>14. RawWithoutGpu' BY <1>1, <1>7 DEF LanePics, RawWithoutGpu, P!Slot
<1> QED BY <1>3, <1>8, <1>9, <1>10, <1>11, <1>12, <1>13, <1>14 DEF OrderInv, PreviewTypes, LanePics

LEMMA DirectAccepts == ASSUME OrderInv, P!DrawDirect PROVE AcceptStep /\ ~setting.tiled
<1>1. lane # <<>> /\ gpu /\ P!IsCurrent(lane[1]) /\ ~setting.tiled /\ answers = {}
  BY DEF P!DrawDirect, P!Draws, P!Quiet
<1>2. P!runEntry(TRUE, refusal) BY DEF P!DrawDirect
<1>3. Landed(TRUE) /\ refusal' \in {"queued", refusal}
  BY <1>1, <1>2, RunEntryLands DEF OrderInv, PreviewTypes
<1> QED BY <1>1, <1>3 DEF P!DrawDirect, AcceptStep, P!page

\* A picture that is drawn in tiles is accepted, or was overtaken.
LEMMA PresentSteps ==
  ASSUME OrderInv, P!Present
  PROVE  /\ lane # <<>> /\ lane[1].drawn /\ canvas' = canvas
         /\ AcceptStep \/ LandStep
<1>1. /\ lane # <<>> /\ lane[1].drawn /\ canvas' = canvas
      /\ answers = {} /\ sched.frame \notin {"raf", "device"}
      /\ UNCHANGED <<doc, pressed, saves, sched, runs, canvas, gpu, timers, rearms, budget, setting>>
  BY DEF P!Present, P!page, P!Quiet
<1>2. LaneTypes /\ ViewTypes /\ PageTypes /\ LaneOK BY DEF OrderInv, PreviewTypes, LanePics
<1>3. CASE P!IsCurrent(lane[1])
  <2>1. P!runEntry(TRUE, refusal) /\ P!acceptPresentation(P!Shown(lane[1]), "canvas")
    BY <1>3 DEF P!Present
  <2>2. Landed(TRUE) /\ refusal' \in {"queued", refusal} BY <1>1, <1>2, <2>1, RunEntryLands
  <2>3. gpu /\ canvas = P!Shown(lane[1]) BY <1>1, <1>2 DEF LaneOK
  <2> QED BY <1>1, <1>3, <2>1, <2>2, <2>3 DEF AcceptStep
<1>4. CASE ~P!IsCurrent(lane[1])
  <2>1. P!runEntry(FALSE, "during") /\ UNCHANGED <<surface, accepted, unavailable>>
    BY <1>4 DEF P!Present
  <2>2. Landed(FALSE) /\ refusal' \in {"queued", "during"} BY <1>1, <1>2, <2>1, RunEntryLands
  <2> QED BY <1>1, <1>2, <2>1, <2>2 DEF LandStep, ViewTypes, PageTypes
<1> QED BY <1>1, <1>3, <1>4

\* The tiles are drawn.
LEMMA TiledSteps ==
  ASSUME OrderInv, P!DrawTiled
  PROVE  /\ P!IsCurrent(lane[1]) /\ lane # <<>> /\ gpu /\ setting.tiled /\ ~P!WholeTiledFrame
         /\ sched.frame # "raf" /\ answers = {} /\ ~lane[1].drawn
         /\ Len(lane) = 1 /\ lane[1] \in Entries
         /\ lane' \in Seq(Entries) /\ Len(lane') = 1 /\ lane'[1] = [lane[1] EXCEPT !.drawn = TRUE]
         /\ canvas' = P!Shown(lane[1])
         /\ UNCHANGED <<doc, pressed, saves, sched, answers, runs, surface, accepted, unavailable,
                        refusal, gpu, timers, rearms, budget, setting>>
<1>1. /\ P!IsCurrent(lane[1]) /\ lane # <<>> /\ gpu /\ setting.tiled /\ ~P!WholeTiledFrame
      /\ sched.frame # "raf" /\ answers = {} /\ ~lane[1].drawn
      /\ lane' = [lane EXCEPT ![1].drawn = TRUE] /\ canvas' = P!Shown(lane[1])
      /\ UNCHANGED <<doc, pressed, saves, sched, answers, runs, surface, accepted, unavailable,
                        refusal, gpu, timers, rearms, budget, setting>>
  BY DEF P!DrawTiled, P!Draws, P!Quiet, P!page
<1>2. Len(lane) = 1 /\ lane[1] \in Entries BY <1>1, CurrentAlone
<1> DEFINE d == [lane[1] EXCEPT !.drawn = TRUE]
<1>3. d \in Entries BY <1>2 DEF Entries
<1>4. lane \in Seq(Entries) /\ 1 \in 1..Len(lane) BY <1>2 DEF OrderInv, PreviewTypes, LaneTypes
<1>5. lane' = [lane EXCEPT ![1] = d] BY <1>1
<1> HIDE DEF d
<1>6. lane' \in Seq(Entries) /\ Len(lane') = Len(lane) /\ lane'[1] = d BY <1>3, <1>4, <1>5, ExceptSeq
<1> QED BY <1>1, <1>2, <1>6 DEF d

LEMMA TiledKeepsOrder == ASSUME OrderInv, P!DrawTiled PROVE OrderInv'
<1>1. PreviewTypes /\ PageTypes /\ ViewTypes /\ LaneTypes /\ LanePics /\ Owned
  BY DEF OrderInv, PreviewTypes
<1>2. /\ P!IsCurrent(lane[1]) /\ lane # <<>> /\ gpu /\ setting.tiled
      /\ lane' \in Seq(Entries) /\ Len(lane') = 1 /\ lane'[1] = [lane[1] EXCEPT !.drawn = TRUE]
      /\ canvas' = P!Shown(lane[1])
      /\ UNCHANGED <<doc, pressed, saves, sched, answers, runs, surface, accepted, unavailable,
                     refusal, gpu, timers, rearms, budget, setting>>
  BY TiledSteps
<1>3. /\ Len(lane) = 1 /\ lane[1] \in Entries /\ ~lane[1].cancelled
      /\ lane[1].gen <= doc.gen /\ (gpu => lane[1].gen >= accepted.gen)
  BY <1>2, CurrentAlone
<1>4. /\ lane'[1].gen = lane[1].gen /\ lane'[1].cancelled = lane[1].cancelled
      /\ lane'[1].owner = lane[1].owner /\ P!Shown(lane'[1]) = P!Shown(lane[1])
  BY <1>2, <1>3 DEF Entries, P!Shown
<1>5. canvas' \in [gen : Nat, photo : Nat, scale : Nat, coarse : BOOLEAN] /\ canvas'.gen = lane[1].gen
  BY <1>2, <1>3, ShownIs
<1>6. 1 \in 1..Len(lane) /\ lane[1].gen \in Nat BY <1>3 DEF Entries
<1>7. \A i \in 1..Len(lane') : i = 1 BY <1>2
<1>8. ViewTypes' BY <1>1, <1>2, <1>5 DEF ViewTypes
<1>9. PageTypes' BY <1>1, <1>2 DEF PageTypes, P!Slot
<1>10. LaneTypes' /\ Owned'
  <2>1. lane[1].owner \in {0} \cup P!Slot BY <1>1, <1>6 DEF Owned
  <2>2. Owned' BY <1>4, <1>7, <2>1 DEF Owned, P!Slot
  <2>3. Len(lane') <= 2 BY <1>2
  <2>4. answers' = answers BY <1>2
  <2>5. LaneTypes' BY <1>1, <1>2, <2>3, <2>4 DEF LaneTypes, P!Slot
  <2> QED BY <2>2, <2>5
<1>11. LaneOK' BY <1>2, <1>4 DEF LaneOK, P!Shown
<1>12. NotNewer' BY <1>1, <1>2, <1>3, <1>4, <1>5, <1>7 DEF LanePics, NotNewer, P!Slot
<1>13. NotOlder'
  <2>1. \A r \in P!Slot : runs[r].pc = "keep" => lane[1].gen >= runs[r].gen
    BY <1>1, <1>3, <1>6 DEF LanePics, NotOlder
  <2>2. lane'[1].gen >= canvas'.gen BY <1>4, <1>5, <1>6
  <2>3. gpu' => lane'[1].gen >= accepted'.gen BY <1>2, <1>3, <1>4
  <2>4. \A r \in P!Slot : runs'[r].pc = "keep" => lane'[1].gen >= runs'[r].gen
    BY <1>2, <1>4, <2>1
  <2> QED BY <1>7, <2>2, <2>3, <2>4 DEF NotOlder, P!Slot
<1>14. RawWithoutGpu' BY <1>1, <1>2 DEF LanePics, RawWithoutGpu, P!Slot
<1> QED BY <1>8, <1>9, <1>10, <1>11, <1>12, <1>13, <1>14 DEF OrderInv, PreviewTypes, LanePics

-----------------------------------------------------------------------------
(* Every step is of one of these kinds.                                       *)

FrameResumes ==
  /\ P!Resume
  /\ \E a \in answers :
       /\ a.owner = P!FrameOwner
       /\ sched' = IF a.ok THEN [sched EXCEPT !.frame = "device"] ELSE P!FrameOver(sched)
       /\ answers' = answers \ {a}
       /\ UNCHANGED <<runs, lane, refusal, canvas, surface, accepted, unavailable>>

ViewStep == AcceptStep \/ CpuShows \/ P!DrawTiled
HiddenStep ==
  \/ SchedStep \/ PassStep \/ LandStep \/ KeepAsks \/ FrameResumes
  \/ P!Input \/ P!OpenPhoto \/ P!ZoomStep \/ P!ZoomFires \/ P!FrameStart

LEMMA CpuAnsweredKinds ==
  ASSUME P!ScenariosAssumption, OrderInv, NEW r \in P!Slot, P!CpuAnswered(r)
  PROVE  PassStep \/ KeepAsks \/ CpuShows
<1>1. PreviewTypes /\ RawWithoutGpu /\ answers = {} BY DEF OrderInv, LanePics, P!CpuAnswered, P!Quiet
<1>2. UNCHANGED <<doc, pressed, saves, sched, gpu, timers, rearms, setting>>
  BY DEF P!CpuAnswered, P!page
<1>3. CASE P!Over(r, {}) /\ UNCHANGED <<canvas, surface, accepted>> BY <1>1, <1>3, CpuOverSteps
<1>4. CASE /\ P!RequestCurrent(runs[r]) /\ P!Render(r, "keep", {})
           /\ UNCHANGED <<P!viewer, budget>>
  BY <1>1, <1>2, <1>4 DEF KeepAsks, P!viewer
<1>5. CASE /\ P!RequestCurrent(runs[r]) /\ ~(gpu /\ ~(runs[r].on = 1))
           /\ P!ShowCpuPicture(runs[r]) /\ P!Over(r, {}) /\ UNCHANGED budget
  <2>1. ~gpu BY <1>1, <1>5 DEF RawWithoutGpu, P!CpuAnswered
  <2>2. {} \in SUBSET answers /\ FramesLeft({}) BY <1>1 DEF FramesLeft
  <2> QED BY <1>2, <1>5, <2>1, <2>2 DEF CpuShows
<1> QED BY <1>3, <1>4, <1>5 DEF P!CpuAnswered, P!viewer

LEMMA KeepResumesKinds ==
  ASSUME P!ScenariosAssumption, OrderInv, P!Resume, NEW a \in answers,
         a.owner \in P!Slot, runs[a.owner].pc \in {"keep", "stale"},
         sched' = sched, P!KeepGpuSurface(a.owner, a.ok, answers \ {a})
  PROVE  PassStep \/ CpuShows
<1> DEFINE r == a.owner
           others == answers \ {a}
<1>1. UNCHANGED <<doc, pressed, saves, gpu, timers, rearms, budget, setting>> BY DEF P!Resume, P!page
<1>2. PreviewTypes /\ PageTypes BY DEF OrderInv, PreviewTypes
<1>3. others \in SUBSET answers /\ FramesLeft(others)
  BY PreviewSlots DEF FramesLeft, P!FrameOwner
<1>4. P!Over(r, others) BY DEF P!KeepGpuSurface
<1>5. CASE UNCHANGED P!viewer
  <2>1. Pass(others) BY <1>2, <1>4, OverPasses
  <2> HIDE DEF others
  <2> QED BY <1>1, <1>2, <1>3, <1>5, <2>1
          DEF PassStep, FramesLeft, P!viewer, PreviewTypes, PageTypes, ViewTypes
<1>6. CASE ~UNCHANGED P!viewer
  <2>1. /\ P!ShowCpuPicture(runs[r]) /\ P!RequestCurrent(runs[r]) /\ runs[r].pc = "keep"
    BY <1>6 DEF P!KeepGpuSurface
  <2> HIDE DEF others, r
  <2>2. r \in P!Slot BY DEF r
  <2> QED BY <1>1, <1>3, <1>4, <2>1, <2>2 DEF CpuShows
<1> QED BY <1>5, <1>6

LEMMA StepKinds ==
  ASSUME P!ScenariosAssumption, OrderInv, P!Next
  PROVE  ViewStep \/ HiddenStep
<1> USE DEF ViewStep, HiddenStep
<1>0. PreviewTypes BY DEF OrderInv
<1>1. CASE P!User
  <2>1. CASE P!Press BY <1>0, <2>1, PressSteps
  <2>2. CASE P!Release BY <1>0, <2>2, ReleaseSteps
  <2> QED BY <1>1, <2>1, <2>2 DEF P!User
<1>2. CASE P!Page
  <2>1. CASE P!SaveAnswered BY <1>0, <2>1, SaveSteps
  <2>2. CASE P!Resume
    <3>1. CASE PassStep BY <3>1
    <3>2. CASE \E a \in answers :
              /\ a.owner = P!FrameOwner
              /\ sched' = IF a.ok THEN [sched EXCEPT !.frame = "device"] ELSE P!FrameOver(sched)
              /\ answers' = answers \ {a}
              /\ UNCHANGED <<runs, lane, refusal, canvas, surface, accepted, unavailable>>
      BY <2>2, <3>2 DEF FrameResumes
    <3>3. CASE \E a \in answers :
              /\ a.owner \in P!Slot /\ runs[a.owner].pc \in {"keep", "stale"}
              /\ sched' = sched /\ P!KeepGpuSurface(a.owner, a.ok, answers \ {a})
      BY <2>2, <3>3, KeepResumesKinds
    <3> QED BY <1>0, <2>2, <3>1, <3>2, <3>3, ResumeSteps
  <2>3. CASE P!FrameStart BY <2>3
  <2>4. CASE P!DeviceDone BY <1>0, <2>4, DeviceSteps
  <2>5. CASE P!SettleFires BY <1>0, <2>5, SettleFiresSteps
  <2>6. CASE P!RefineFires BY <1>0, <2>6, RefineFiresSteps
  <2>7. CASE P!RetryFires BY <1>0, <2>7, RetryFiresSteps
  <2>8. CASE P!ZoomFires BY <2>8
  <2>9. CASE P!DrawDirect BY <2>9, DirectAccepts
  <2>10. CASE P!DrawTiled BY <2>10
  <2>11. CASE P!Present BY <2>11, PresentSteps
  <2>12. CASE P!Superseded BY <1>0, <2>12, SupersededSteps
  <2>13. CASE P!Refuse BY <1>0, <2>13, RefuseSteps
  <2>14. CASE P!Fail BY <1>0, <2>14, FailSteps
  <2>15. ASSUME NEW r \in P!Slot,
                P!settlePreview(r) \/ P!SettleRetries(r) \/ P!RefineBegins(r) \/ P!End(r) \/ P!CpuAnswered(r)
         PROVE  ViewStep \/ HiddenStep
    BY <1>0, <2>15, SettleSteps, RetrySteps, RefineSteps, EndSteps, CpuAnsweredKinds
  <2> QED BY <1>2, <2>1, <2>2, <2>3, <2>4, <2>5, <2>6, <2>7, <2>8, <2>9, <2>10, <2>11, <2>12, <2>13,
             <2>14, <2>15 DEF P!Page
<1>3. CASE P!Watchdog BY <1>0, <1>3, WatchdogSteps
<1> QED BY <1>1, <1>2, <1>3 DEF P!Next

LEMMA StepKeepsOrder ==
  ASSUME P!ScenariosAssumption, OrderInv, ViewStep \/ HiddenStep
  PROVE  OrderInv'
<1>1. CASE FrameResumes BY <1>1, FrameResumesOrder DEF FrameResumes
<1> QED BY <1>1, SchedKeepsOrder, PassKeepsOrder, LandKeepsOrder, KeepAsksOrder, CpuShowsOrder,
           AcceptKeepsOrder, TiledKeepsOrder, InputKeepsOrder, OpenKeepsOrder, ZoomStepKeepsOrder,
           ZoomFiresKeepsOrder, FrameKeepsOrder DEF ViewStep, HiddenStep

LEMMA OrderInit == P!ScenariosAssumption /\ P!Init => OrderInv
<1> SUFFICES ASSUME P!ScenariosAssumption, P!Init PROVE OrderInv OBVIOUS
<1>1. PICK s \in Viewings : budget = s.left /\ setting = s.setting BY DEF P!Init
<1>2. budget \in P!Bounds /\ setting \in P!Settings BY <1>1, PreviewSlots
<1>3. P!Idle \in Waits /\ P!Idle.pc = "idle"
  BY DEF P!Idle, Waits, P!Kind, P!Pc, PreviewTasks, P!NoTask
<1>4. ScheduleOK(sched) BY DEF P!Init, ScheduleOK, Schedules, Frames, PreviewTasks, P!NoTask
<1>5. runs \in [P!Slot -> Waits] BY <1>3 DEF P!Init
<1>6. PageTypes BY <1>2, <1>4, <1>5, PreviewSlots DEF P!Init, PageTypes
<1>7. ViewTypes BY DEF P!Init, ViewTypes
<1>8. lane = <<>> /\ Len(lane) = 0 /\ lane \in Seq(Entries) /\ answers = {} BY DEF P!Init
<1>9. LaneTypes /\ Owned BY <1>8 DEF LaneTypes, Owned
<1>10. \A r \in P!Slot : runs[r].pc = "idle" BY <1>3 DEF P!Init
<1>11. LaneOK /\ NotOlder BY <1>8 DEF LaneOK, NotOlder
<1>12. NotNewer /\ RawWithoutGpu BY <1>8, <1>10 DEF NotNewer, RawWithoutGpu, P!Init
<1> QED BY <1>6, <1>7, <1>9, <1>11, <1>12 DEF OrderInv, PreviewTypes, LanePics

LEMMA IdleSteps == ASSUME OrderInv, UNCHANGED P!vars PROVE SchedStep
<1>1. RunsKept BY RunsSame DEF OrderInv, PreviewTypes, P!vars
<1> QED BY <1>1 DEF SchedStep, OrderInv, PreviewTypes, PageTypes, P!vars, P!page, P!viewer,
           FrameStays, P!Slot

\* The inductive invariant of the preview: what each render, answer and
\* waiting function is, and that no render which may still draw is of an older
\* edit than what is on screen or about to be. For any number of functions,
\* any bounds and settings.
THEOREM PreviewInvariant == ASSUME P!ScenariosAssumption PROVE P!Spec => []OrderInv
<1>1. OrderInv /\ [P!Next]_(P!vars) => OrderInv'
  <2> SUFFICES ASSUME OrderInv, [P!Next]_(P!vars) PROVE OrderInv' OBVIOUS
  <2>1. CASE P!Next BY <2>1, StepKinds, StepKeepsOrder
  <2>2. CASE UNCHANGED P!vars BY <2>2, IdleSteps, StepKeepsOrder DEF HiddenStep
  <2> QED BY <2>1, <2>2
<1>2. P!Init => OrderInv BY OrderInit
<1> QED BY <1>1, <1>2, PTL DEF P!Spec

\* The module's type invariant. The required scale is 1 or 2.
ScaleOK == doc.scale \in 1..2
LEMMA ScaleKept == ASSUME P!ScenariosAssumption, OrderInv, ScaleOK, P!Next PROVE ScaleOK'
<1>1. doc' = doc => ScaleOK' BY DEF ScaleOK
<1>2. CASE P!Input
  <2>1. doc' = [doc EXCEPT !.gen = @ + 1] BY <1>2 DEF P!Input
  <2>2. doc'.scale = doc.scale BY <2>1 DEF OrderInv, PreviewTypes, PageTypes
  <2> QED BY <2>2 DEF ScaleOK
<1>3. CASE P!OpenPhoto BY <1>3 DEF P!OpenPhoto, ScaleOK
<1>4. CASE P!ZoomStep
  <2>1. PICK scale \in 1..2 : doc' = [doc EXCEPT !.scale = scale, !.zoomed = TRUE]
    BY <1>4 DEF P!ZoomStep
  <2>2. doc'.scale = scale BY <2>1 DEF OrderInv, PreviewTypes, PageTypes
  <2> QED BY <2>2 DEF ScaleOK
<1>5. CASE ViewStep
  BY <1>1, <1>5, TiledSteps DEF ViewStep, AcceptStep, CpuShows
<1>6. CASE SchedStep \/ PassStep \/ LandStep \/ KeepAsks \/ FrameResumes
  BY <1>1, <1>6 DEF SchedStep, PassStep, LandStep, KeepAsks, FrameResumes, P!Resume, P!page
<1>7. CASE P!ZoomFires \/ P!FrameStart BY <1>1, <1>7 DEF P!ZoomFires, P!FrameStart, P!page
<1> QED BY <1>2, <1>3, <1>4, <1>5, <1>6, <1>7, StepKinds DEF HiddenStep

THEOREM PreviewTypeCorrect == ASSUME P!ScenariosAssumption PROVE P!Spec => []P!TypeOK
<1>1. OrderInv /\ ScaleOK => P!TypeOK
  <2> SUFFICES ASSUME OrderInv, ScaleOK PROVE P!TypeOK OBVIOUS
  <2>1. PageTypes /\ ViewTypes /\ LaneTypes /\ LaneOK BY DEF OrderInv, PreviewTypes, LanePics
  <2>2. doc \in [gen : Nat, photo : Nat, scale : 0..2, zoomed : BOOLEAN]
    BY <2>1 DEF PageTypes, ScaleOK
  <2>3. /\ sched.frame \in {"none", "raf", "draft", "device"}
        /\ sched.settle \in {P!NoTask, sched.current} /\ sched.refine \in {P!NoTask, sched.current}
    BY <2>1 DEF PageTypes, ScheduleOK, Schedules, Frames
  <2>4. \A r \in P!Slot : runs[r].kind \in P!Kind /\ runs[r].pc \in P!Pc
    BY <2>1 DEF PageTypes, Waits
  <2> QED BY <2>1, <2>2, <2>3, <2>4 DEF P!TypeOK, PageTypes, ViewTypes, LaneTypes, LaneOK
<1>2. P!Init => ScaleOK BY DEF P!Init, ScaleOK
<1>3. OrderInv /\ ScaleOK /\ [P!Next]_(P!vars) => ScaleOK'
  BY ScaleKept DEF P!vars, P!page, ScaleOK
<1> QED BY <1>1, <1>2, <1>3, PreviewInvariant, PTL DEF P!Spec

\* A picture that comes on screen.
NewerStep ==
  P!Visible' # P!Visible => P!Visible'.gen >= P!Visible.gen /\ P!Visible'.photo = doc.photo

LEMMA HiddenShowsNothing ==
  ASSUME PreviewTypes, HiddenStep PROVE UNCHANGED <<canvas, surface, accepted>>
<1>1. CASE P!OpenPhoto BY <1>1 DEF P!OpenPhoto, P!viewer
<1>2. CASE P!Input \/ P!ZoomStep \/ P!ZoomFires BY <1>2 DEF P!Input, P!ZoomStep, P!ZoomFires, P!viewer
<1>3. CASE P!FrameStart BY <1>3, FrameSteps DEF P!viewer
<1> QED BY <1>1, <1>2, <1>3 DEF HiddenStep, SchedStep, PassStep, LandStep, KeepAsks, FrameResumes

LEMMA StepsNeverOlder ==
  ASSUME P!ScenariosAssumption, OrderInv, ViewStep \/ HiddenStep
  PROVE  NewerStep
<1>1. PreviewTypes /\ ViewTypes /\ NotNewer /\ LaneTypes BY DEF OrderInv, PreviewTypes, LanePics
<1>2. P!Visible.gen \in Nat /\ P!Visible.gen \in {canvas.gen, accepted.gen}
  BY <1>1 DEF P!Visible, ViewTypes
<1>3. CASE HiddenStep
  <2>1. P!Visible' = P!Visible BY <1>1, <1>3, HiddenShowsNothing DEF P!Visible
  <2> QED BY <2>1 DEF NewerStep
<1>4. CASE CpuShows
  <2>1. P!Visible' = accepted' /\ accepted'.gen = doc.gen /\ accepted'.photo = doc.photo
    BY <1>1, <1>4, CpuShowsView DEF P!Visible
  <2>2. P!Visible.gen <= doc.gen BY <1>1, <1>2 DEF NotNewer
  <2>3. doc.gen \in Nat BY <1>1 DEF PreviewTypes, PageTypes
  <2> QED BY <1>2, <2>1, <2>2, <2>3 DEF NewerStep
<1>5. CASE AcceptStep
  <2>1. /\ Len(lane) = 1 /\ lane[1] \in Entries /\ ~lane[1].cancelled
        /\ lane[1].photo = doc.photo
        /\ lane[1].gen >= canvas.gen /\ (gpu => lane[1].gen >= accepted.gen)
    BY <1>5, CurrentAlone DEF AcceptStep
  <2>2. canvas' = P!Shown(lane[1]) /\ surface' = "canvas"
    BY <1>5 DEF AcceptStep, P!acceptPresentation
  <2>3. P!Visible'.gen = lane[1].gen /\ P!Visible'.photo = lane[1].photo
    BY <2>1, <2>2, ShownIs DEF P!Visible
  <2>4. P!Visible.gen <= lane[1].gen
    <3>1. gpu BY <1>5 DEF AcceptStep
    <3> QED BY <1>1, <1>2, <2>1, <3>1 DEF ViewTypes, Entries
  <2> QED BY <1>2, <2>1, <2>3, <2>4 DEF NewerStep, Entries
<1>6. CASE P!DrawTiled
  <2>1. /\ P!IsCurrent(lane[1]) /\ lane # <<>> /\ lane[1] \in Entries
        /\ canvas' = P!Shown(lane[1]) /\ UNCHANGED <<surface, accepted>>
    BY <1>6, TiledSteps
  <2>2. lane[1].photo = doc.photo /\ lane[1].gen >= canvas.gen BY <2>1, CurrentAlone
  <2>3. canvas'.gen = lane[1].gen /\ canvas'.photo = lane[1].photo BY <2>1, ShownIs
  <2>4. CASE surface = "image" BY <2>1, <2>4 DEF NewerStep, P!Visible
  <2>5. CASE surface = "canvas"
    <3>1. P!Visible' = canvas' /\ P!Visible = canvas BY <2>1, <2>5 DEF P!Visible
    <3> QED BY <2>2, <2>3, <3>1 DEF NewerStep
  <2> QED BY <1>1, <2>4, <2>5 DEF ViewTypes
<1> QED BY <1>3, <1>4, <1>5, <1>6 DEF ViewStep

\* NeverOlder: whatever finishes late, no picture of an older edit or of the photo
\* before comes on screen (acceptPresentation and what asks it, preview-pipeline.js).
\* For any bounds, any settings and any number of functions that wait.
THEOREM NeverOlderHolds == ASSUME P!ScenariosAssumption PROVE P!Spec => P!NeverOlder
<1>1. OrderInv /\ [P!Next]_(P!vars)
      => [P!Visible' # P!Visible => /\ P!Visible'.gen >= P!Visible.gen
                                     /\ P!Visible'.photo = doc.photo]_(P!vars)
  BY StepKinds, StepsNeverOlder DEF NewerStep
<1> QED BY <1>1, PreviewInvariant, PTL DEF P!Spec, P!NeverOlder

-----------------------------------------------------------------------------
(* One drag frame at a time: it is in the lane or it is answered.             *)

LEMMA FramePlaces ==
  ASSUME LaneTypes, Owned
  PROVE  /\ FrameInLane(1) <=> lane # <<>> /\ lane[1].owner = P!FrameOwner
         /\ FrameInLane(2) <=> Len(lane) = 2 /\ lane[2].owner = P!FrameOwner
<1>1. Len(lane) \in 0..2 /\ (lane = <<>> <=> Len(lane) = 0) BY LanePlaces
<1>2. 1 \in 1..Len(lane) <=> lane # <<>> BY <1>1
<1>3. 2 \in 1..Len(lane) <=> Len(lane) = 2 BY <1>1
<1> QED BY <1>2, <1>3 DEF FrameInLane

\* OneFrame, said of the two places of the lane.
LEMMA FrameParts ==
  ASSUME sched'.frame = "draft" <=> FrameAnswered' \/ FrameInLane(1)' \/ FrameInLane(2)',
         FrameAnswered' => ~FrameInLane(1)' /\ ~FrameInLane(2)',
         ~(FrameInLane(1)' /\ FrameInLane(2)'),
         \A a, b \in answers' : a.owner = P!FrameOwner /\ b.owner = P!FrameOwner => a = b
  PROVE  OneFrame'
<1>1. \A i \in 1..2 : i = 1 \/ i = 2 OBVIOUS
<1>2. (\E i \in 1..2 : FrameInLane(i)') <=> FrameInLane(1)' \/ FrameInLane(2)' BY <1>1
<1>3. (\A i \in 1..2 : ~FrameInLane(i)') <=> ~FrameInLane(1)' /\ ~FrameInLane(2)' BY <1>1
<1> QED BY <1>2, <1>3 DEF OneFrame, P!FrameOwner

LEMMA FrameSubmitted ==
  ASSUME P!ScenariosAssumption, LaneTypes, Owned, OneFrame, NEW e, NewEntry(e), e.owner \in P!Slot,
         NEW others \in SUBSET answers, FramesLeft(others), Submitted(e, others),
         FrameStays(sched, sched'), LaneTypes', Owned'
  PROVE  OneFrame'
<1>1. e.owner # P!FrameOwner BY PreviewSlots DEF P!FrameOwner
<1>2. /\ FrameInLane(1) <=> lane # <<>> /\ lane[1].owner = P!FrameOwner
      /\ FrameInLane(2) <=> Len(lane) = 2 /\ lane[2].owner = P!FrameOwner
  BY FramePlaces
<1>3. /\ FrameInLane(1)' <=> lane' # <<>> /\ lane'[1].owner = P!FrameOwner
      /\ FrameInLane(2)' <=> Len(lane') = 2 /\ lane'[2].owner = P!FrameOwner
  <2>1. \A i : FrameInLane(i)' <=> i \in 1..Len(lane') /\ lane'[i].owner = P!FrameOwner
    BY DEF FrameInLane, P!FrameOwner
  <2>2. lane' \in Seq(Entries) /\ Len(lane') <= 2 BY DEF LaneTypes
  <2>3. lane' = <<>> <=> Len(lane') = 0 BY <2>2, EmptySeq
  <2>4. Len(lane') \in Nat BY <2>2
  <2>5. 1 \in 1..Len(lane') <=> lane' # <<>> BY <2>3, <2>4
  <2>6. 2 \in 1..Len(lane') <=> Len(lane') = 2
    <3> DEFINE n == Len(lane')
    <3>1. n \in Nat /\ n <= 2 BY <2>2, <2>4
    <3> HIDE DEF n
    <3>2. 2 \in 1..n <=> n = 2 BY <3>1
    <3> QED BY <3>2 DEF n
  <2> QED BY <2>1, <2>5, <2>6
<1>4. (FrameInLane(1)' <=> FrameInLane(1)) /\ ~FrameInLane(2)'
  <2>1. CASE lane = <<>>
    <3>1. Len(lane') = 1 /\ lane'[1] = e BY <2>1, SubmittedLane
    <3> QED BY <1>1, <1>2, <1>3, <2>1, <3>1
  <2>2. CASE lane # <<>>
    <3>1. lane'[2] = e /\ lane'[1] = [lane[1] EXCEPT !.cancelled = TRUE] /\ Len(lane') = 2
      BY <2>2, SubmittedLane
    <3>2. lane[1] \in Entries BY <2>2, LanePlaces
    <3>3. lane'[1].owner = lane[1].owner BY <3>1, <3>2 DEF Entries
    <3>4. lane' # <<>> BY <3>1
    <3> QED BY <1>1, <1>2, <1>3, <2>2, <3>1, <3>3, <3>4
  <2> QED BY <2>1, <2>2
<1>5. answers' = others \cup (IF Len(lane) = 2 THEN P!Answer(lane[2].owner, FALSE) ELSE {})
  BY DEF Submitted
<1>6. \A a \in answers' : a.owner = P!FrameOwner =>
         \/ a \in answers
         \/ FrameInLane(2) /\ a = [owner |-> P!FrameOwner, ok |-> FALSE]
  <2>1. CASE Len(lane) = 2
    <3>1. lane[2].owner \in {0} \cup P!Slot BY <2>1 DEF Owned
    <3>2. \A a \in P!Answer(lane[2].owner, FALSE) : a.owner = 0 =>
             a = [owner |-> lane[2].owner, ok |-> FALSE] /\ lane[2].owner = 0
      BY <3>1, AnswerIs
    <3> QED BY <1>2, <1>5, <2>1, <3>2 DEF P!FrameOwner
  <2>2. CASE Len(lane) # 2 BY <1>5, <2>2
  <2> QED BY <2>1, <2>2
<1>7. FrameAnswered \/ FrameInLane(2) => FrameAnswered'
  <2>1. CASE FrameAnswered BY <1>5, <2>1 DEF FramesLeft, FrameAnswered, P!FrameOwner
  <2>2. CASE FrameInLane(2)
    <3>1. [owner |-> lane[2].owner, ok |-> FALSE] \in P!Answer(lane[2].owner, FALSE)
          /\ lane[2].owner = 0 /\ Len(lane) = 2
      BY <1>2, <2>2 DEF P!FrameOwner, P!Answer
    <3>2. [owner |-> 0, ok |-> FALSE] \in answers' BY <1>5, <3>1
    <3> QED BY <3>2 DEF FrameAnswered, P!FrameOwner
  <2> QED BY <2>1, <2>2
<1>8. FrameAnswered' <=> FrameAnswered \/ FrameInLane(2)
  BY <1>6, <1>7 DEF FrameAnswered, P!FrameOwner
<1>9. \A a, b \in answers' : a.owner = P!FrameOwner /\ b.owner = P!FrameOwner => a = b
  <2>1. FrameInLane(2) => ~FrameAnswered BY DEF OneFrame
  <2>2. \A a, b \in answers : a.owner = P!FrameOwner /\ b.owner = P!FrameOwner => a = b
    BY DEF OneFrame
  <2> QED BY <1>6, <2>1, <2>2 DEF FrameAnswered
<1>10. sched'.frame = "draft" <=> FrameAnswered \/ FrameInLane(1) \/ FrameInLane(2)
  BY DEF OneFrame, FrameStays
<1>11. ~(FrameInLane(1) /\ FrameInLane(2)) /\ (FrameAnswered => ~FrameInLane(1) /\ ~FrameInLane(2))
  BY DEF OneFrame
<1>12. \A i \in 1..2 : i = 1 \/ i = 2 OBVIOUS
<1>13. sched'.frame = "draft" <=> FrameAnswered' \/ FrameInLane(1)' \/ FrameInLane(2)'
  BY <1>4, <1>8, <1>10
<1>14. FrameAnswered' => ~FrameInLane(1)' /\ ~FrameInLane(2)' BY <1>4, <1>8, <1>11
<1> QED BY <1>4, <1>9, <1>12, <1>13, <1>14, FrameParts

\* A render is over.
LEMMA FrameLanded ==
  ASSUME P!ScenariosAssumption, LaneTypes, Owned, OneFrame, NEW ok \in BOOLEAN, Landed(ok),
         FrameStays(sched, sched')
  PROVE  OneFrame'
<1>1. /\ FrameInLane(1) <=> lane # <<>> /\ lane[1].owner = P!FrameOwner
      /\ FrameInLane(2) <=> Len(lane) = 2 /\ lane[2].owner = P!FrameOwner
      /\ Len(lane) \in {1, 2}
  BY FramePlaces, LanePlaces DEF Landed
<1> DEFINE dropped == Len(lane) = 2 /\ lane' = <<>>
<1>2. (FrameInLane(1)' <=> FrameInLane(2) /\ ~dropped) /\ ~FrameInLane(2)'
  <2>1. CASE lane' = <<>>
    <3>1. \A i : ~FrameInLane(i)' BY <2>1 DEF FrameInLane
    <3> QED BY <1>1, <2>1, <3>1
  <2>2. CASE Len(lane) = 2 /\ lane' = <<lane[2]>>
    <3>1. Len(lane') = 1 /\ lane'[1] = lane[2] /\ lane' # <<>> BY <2>2
    <3>2. \A i : FrameInLane(i)' <=> i = 1 /\ lane[2].owner = P!FrameOwner
      BY <3>1 DEF FrameInLane, P!FrameOwner
    <3> QED BY <1>1, <2>2, <3>1, <3>2
  <2> QED BY <2>1, <2>2 DEF Landed
<1>3. answers' = answers \cup P!Answer(lane[1].owner, ok)
                 \cup (IF dropped THEN P!Answer(lane[2].owner, FALSE) ELSE {})
  BY DEF Landed
<1>4. lane[1].owner \in {0} \cup P!Slot /\ (Len(lane) = 2 => lane[2].owner \in {0} \cup P!Slot)
  BY <1>1 DEF Owned
<1>5. lane # <<>> BY DEF Landed
<1>6. \A a \in answers' : a.owner = P!FrameOwner =>
         \/ a \in answers
         \/ FrameInLane(1) /\ a = [owner |-> P!FrameOwner, ok |-> ok]
         \/ FrameInLane(2) /\ dropped /\ a = [owner |-> P!FrameOwner, ok |-> FALSE]
  <2>1. \A a \in P!Answer(lane[1].owner, ok) : a.owner = 0 =>
           a = [owner |-> lane[1].owner, ok |-> ok] /\ lane[1].owner = 0
    BY <1>4, AnswerIs
  <2>2. Len(lane) = 2 => \A a \in P!Answer(lane[2].owner, FALSE) : a.owner = 0 =>
           a = [owner |-> lane[2].owner, ok |-> FALSE] /\ lane[2].owner = 0
    BY <1>4, AnswerIs
  <2> QED BY <1>1, <1>3, <1>5, <2>1, <2>2 DEF P!FrameOwner
<1>7. FrameInLane(1) => FrameAnswered'
  <2> SUFFICES ASSUME FrameInLane(1) PROVE FrameAnswered' OBVIOUS
  <2>1. [owner |-> lane[1].owner, ok |-> ok] \in P!Answer(lane[1].owner, ok) /\ lane[1].owner = 0
    BY <1>1 DEF P!FrameOwner, P!Answer
  <2>2. [owner |-> 0, ok |-> ok] \in answers' BY <1>3, <2>1
  <2> QED BY <2>2 DEF FrameAnswered, P!FrameOwner
<1>8. FrameInLane(2) /\ dropped => FrameAnswered'
  <2> SUFFICES ASSUME FrameInLane(2), dropped PROVE FrameAnswered' OBVIOUS
  <2>1. [owner |-> lane[2].owner, ok |-> FALSE] \in P!Answer(lane[2].owner, FALSE) /\ lane[2].owner = 0
    BY <1>1 DEF P!FrameOwner, P!Answer
  <2>2. [owner |-> 0, ok |-> FALSE] \in answers' BY <1>3, <2>1
  <2> QED BY <2>2 DEF FrameAnswered, P!FrameOwner
<1>9. FrameAnswered => FrameAnswered' BY <1>3 DEF FrameAnswered, P!FrameOwner
<1>10. FrameAnswered' => FrameAnswered \/ FrameInLane(1) \/ (FrameInLane(2) /\ dropped)
  BY <1>6 DEF FrameAnswered, P!FrameOwner
<1> HIDE DEF dropped
<1>11. /\ ~(FrameInLane(1) /\ FrameInLane(2)) /\ (FrameAnswered => ~FrameInLane(1) /\ ~FrameInLane(2))
       /\ (sched'.frame = "draft" <=> FrameAnswered \/ FrameInLane(1) \/ FrameInLane(2))
  BY DEF OneFrame, FrameStays
<1>12. \A a, b \in answers' : a.owner = P!FrameOwner /\ b.owner = P!FrameOwner => a = b
  <2>1. \A a, b \in answers : a.owner = P!FrameOwner /\ b.owner = P!FrameOwner => a = b
    BY DEF OneFrame
  <2>2. \A a \in answers : a.owner = P!FrameOwner => FrameAnswered BY DEF FrameAnswered
  <2> QED BY <1>6, <1>11, <2>1, <2>2
<1>13. sched'.frame = "draft" <=> FrameAnswered' \/ FrameInLane(1)' \/ FrameInLane(2)'
  BY <1>2, <1>7, <1>8, <1>9, <1>10, <1>11
<1>14. FrameAnswered' => ~FrameInLane(1)' /\ ~FrameInLane(2)' BY <1>2, <1>10, <1>11
<1> QED BY <1>2, <1>12, <1>13, <1>14, FrameParts

\* The lane keeps its owners, and no answer of a frame is taken.
LEMMA FrameSame ==
  ASSUME OneFrame, FrameStays(sched, sched'), NEW others \in SUBSET answers, FramesLeft(others),
         answers' = others, Len(lane') = Len(lane),
         \A i \in 1..Len(lane) : lane'[i].owner = lane[i].owner
  PROVE  OneFrame'
<1>1. \A i : FrameInLane(i)' <=> FrameInLane(i) BY DEF FrameInLane, P!FrameOwner
<1>2. FrameAnswered' <=> FrameAnswered BY DEF FrameAnswered, FramesLeft, P!FrameOwner
<1>3. \A a, b \in answers' : a.owner = P!FrameOwner /\ b.owner = P!FrameOwner => a = b
  BY DEF OneFrame
<1>4. /\ ~(FrameInLane(1) /\ FrameInLane(2)) /\ (FrameAnswered => ~FrameInLane(1) /\ ~FrameInLane(2))
      /\ (sched'.frame = "draft" <=> FrameAnswered \/ FrameInLane(1) \/ FrameInLane(2))
  BY DEF OneFrame, FrameStays
<1>5. /\ (sched'.frame = "draft" <=> FrameAnswered' \/ FrameInLane(1)' \/ FrameInLane(2)')
      /\ (FrameAnswered' => ~FrameInLane(1)' /\ ~FrameInLane(2)')
      /\ ~(FrameInLane(1)' /\ FrameInLane(2)')
  BY <1>1, <1>2, <1>4
<1> QED BY <1>3, <1>5, FrameParts

\* onFrame asks for the frame, or ends without one.
LEMMA FrameStarts ==
  ASSUME P!ScenariosAssumption, OrderInv, OneFrame, P!FrameStart, LaneTypes', Owned'
  PROVE  OneFrame'
<1>1. PreviewTypes /\ LaneTypes /\ Owned /\ ScheduleOK(sched)
  BY DEF OrderInv, PreviewTypes, PageTypes
<1>2. answers = {} /\ sched.frame = "raf" BY <1>1, FrameSteps
<1>3. ~FrameAnswered /\ ~FrameInLane(1) /\ ~FrameInLane(2) BY <1>2 DEF OneFrame
<1>4. CASE /\ sched' \in {[sched EXCEPT !.frame = "none"], P!FrameOver(sched)}
           /\ lane' = lane /\ answers' = answers
  <2>1. sched'.frame # "draft"
    <3>1. P!FrameOver(sched).frame # "draft" BY <1>1, FrameOverOK
    <3>2. [sched EXCEPT !.frame = "none"].frame = "none" BY <1>1 DEF ScheduleOK, Schedules
    <3> QED BY <1>4, <3>1, <3>2
  <2>2. FrameStays(sched, sched') BY <1>2, <2>1 DEF FrameStays
  <2>3. answers \in SUBSET answers /\ FramesLeft(answers) BY DEF FramesLeft
  <2> QED BY <1>4, <2>2, <2>3, FrameSame
<1>5. CASE FrameRenders
  <2>1. PICK coarse \in {"no", "drag"}, snap \in BOOLEAN :
          /\ sched' = [sched EXCEPT !.frame = "draft"]
          /\ P!submit(P!Entry(P!FrameOwner, doc.scale, coarse, snap), {})
    BY <1>5 DEF FrameRenders
  <2> DEFINE e == P!Entry(P!FrameOwner, doc.scale, coarse, snap)
  <2>2. NewEntry(e) /\ e.owner = P!FrameOwner BY <1>1, FrameIsNew
  <2>3. Submitted(e, {}) BY <2>1, SubmitIs
  <2> HIDE DEF e
  <2>4. sched'.frame = "draft" BY <1>1, <2>1 DEF ScheduleOK, Schedules
  <2>5. \A a \in answers' : a.owner # P!FrameOwner
    <3>1. CASE Len(lane) = 2
      <4>1. answers' = P!Answer(lane[2].owner, FALSE) BY <2>3, <3>1 DEF Submitted
      <4>2. lane[2].owner # 0 /\ lane[2].owner \in {0} \cup P!Slot
        BY <1>1, <1>3, <3>1, FramePlaces DEF Owned, P!FrameOwner
      <4> QED BY <4>1, <4>2, AnswerIs DEF P!FrameOwner
    <3>2. CASE Len(lane) # 2 BY <2>3, <3>2 DEF Submitted
    <3> QED BY <3>1, <3>2
  <2>6. ~FrameAnswered' BY <2>5 DEF FrameAnswered, P!FrameOwner
  <2>7. /\ FrameInLane(1)' \/ FrameInLane(2)'
        /\ ~(FrameInLane(1)' /\ FrameInLane(2)')
    <3>1. \A i : FrameInLane(i)' <=> i \in 1..Len(lane') /\ lane'[i].owner = P!FrameOwner
      BY DEF FrameInLane, P!FrameOwner
    <3>2. CASE lane = <<>>
      <4>1. Len(lane') = 1 /\ lane'[1] = e BY <1>1, <2>2, <2>3, <3>2, SubmittedLane
      <4>2. 1 \in 1..Len(lane') /\ 2 \notin 1..Len(lane') BY <4>1
      <4> QED BY <2>2, <3>1, <4>1, <4>2
    <3>3. CASE lane # <<>>
      <4>1. lane'[2] = e /\ lane'[1] = [lane[1] EXCEPT !.cancelled = TRUE] /\ Len(lane') = 2
        BY <1>1, <2>2, <2>3, <3>3, SubmittedLane
      <4>2. lane[1] \in Entries BY <1>1, <3>3, LanePlaces
      <4>3. lane'[1].owner = lane[1].owner BY <4>1, <4>2 DEF Entries
      <4>4. lane[1].owner # P!FrameOwner BY <1>1, <1>3, <3>3, FramePlaces
      <4>5. 2 \in 1..Len(lane') BY <4>1
      <4> QED BY <2>2, <3>1, <4>1, <4>3, <4>4, <4>5
    <3> QED BY <3>2, <3>3
  <2> QED BY <2>4, <2>5, <2>6, <2>7, FrameParts
<1> QED BY <1>1, <1>4, <1>5, FrameSteps

LEMMA FrameIsResumed ==
  ASSUME PreviewTypes, OneFrame, FrameResumes
  PROVE  OneFrame' /\ sched.frame = "draft"
<1>1. PICK a \in answers :
        /\ a.owner = P!FrameOwner
        /\ sched' = IF a.ok THEN [sched EXCEPT !.frame = "device"] ELSE P!FrameOver(sched)
        /\ answers' = answers \ {a} /\ lane' = lane
  BY DEF FrameResumes
<1>2. FrameAnswered BY <1>1 DEF FrameAnswered
<1>3. sched.frame = "draft" /\ ~FrameInLane(1) /\ ~FrameInLane(2) BY <1>2 DEF OneFrame
<1>4. sched'.frame # "draft"
  <2>1. ScheduleOK(sched) BY DEF PreviewTypes, PageTypes
  <2>2. [sched EXCEPT !.frame = "device"].frame = "device" BY <2>1 DEF ScheduleOK, Schedules
  <2> QED BY <1>1, <2>1, <2>2, FrameOverOK
<1>5. \A b \in answers' : b.owner # P!FrameOwner BY <1>1 DEF OneFrame
<1>6. ~FrameAnswered' BY <1>5 DEF FrameAnswered, P!FrameOwner
<1>7. ~FrameInLane(1)' /\ ~FrameInLane(2)'
  <2>1. \A i : FrameInLane(i)' <=> FrameInLane(i) BY <1>1 DEF FrameInLane, P!FrameOwner
  <2> QED BY <1>3, <2>1
<1> QED BY <1>3, <1>4, <1>5, <1>6, <1>7, FrameParts

LEMMA ZoomFiresFrame == ASSUME P!ScenariosAssumption, OrderInv, OneFrame, P!ZoomFires PROVE OneFrame'
<1>1. PreviewTypes /\ LaneTypes /\ Owned BY DEF OrderInv, PreviewTypes
<1>2. answers = {} /\ sched' = sched /\ FrameStays(sched, sched') /\ P!Free # {}
  BY DEF P!ZoomFires, P!Quiet, FrameStays
<1>3. answers \in SUBSET answers /\ FramesLeft(answers) /\ {} \in SUBSET answers /\ FramesLeft({})
  BY <1>2 DEF FramesLeft
<1>4. CASE UNCHANGED <<runs, lane, answers, refusal>>
  <2>1. lane' = lane /\ answers' = answers BY <1>4
  <2> QED BY <1>2, <1>3, <2>1, FrameSame
<1>5. CASE ~UNCHANGED <<runs, lane, answers, refusal>>
  <2>1. PICK coarse \in BOOLEAN :
            P!submit(P!Entry(P!NextSlot, doc.scale, IF coarse THEN "zoom" ELSE "no", FALSE), {})
    BY <1>5 DEF P!ZoomFires
  <2> DEFINE c == IF coarse THEN "zoom" ELSE "no"
             e == P!Entry(P!NextSlot, doc.scale, c, FALSE)
  <2>2. c \in {"no", "zoom"} /\ P!submit(e, {}) BY <2>1
  <2> HIDE DEF c
  <2>3. P!NextSlot \in P!Slot BY <1>2, NextSlotFree
  <2>4. NewEntry(e) /\ e.owner \in P!Slot BY <1>1, <2>2, <2>3, ZoomIsNew
  <2>5. Submitted(e, {}) BY <2>2, SubmitIs
  <2> HIDE DEF e
  <2>6. OrderInv' BY ZoomFiresKeepsOrder
  <2>7. LaneTypes' /\ Owned' BY <2>6 DEF OrderInv, PreviewTypes
  <2> QED BY <1>1, <1>2, <1>3, <2>4, <2>5, <2>7, FrameSubmitted
<1> QED BY <1>4, <1>5

LEMMA PassFrame == ASSUME P!ScenariosAssumption, OrderInv, OneFrame, PassStep PROVE OneFrame'
<1>1. PreviewTypes /\ LaneTypes /\ Owned BY DEF OrderInv, PreviewTypes
<1>2. PICK others \in SUBSET answers : Pass(others) /\ FramesLeft(others)
  BY DEF PassStep, FramesLeft
<1>3. FrameStays(sched, sched') BY DEF PassStep, FrameStays
<1>4. CASE answers' = others /\ lane' = lane /\ refusal' = refusal
  <2>1. answers' = others /\ lane' = lane BY <1>4
  <2> QED BY <1>2, <1>3, <2>1, FrameSame
<1>5. ASSUME NEW r \in P!Slot, Submitted(P!Entry(r, doc.scale, "no", FALSE), others) PROVE OneFrame'
  <2>1. NewEntry(P!Entry(r, doc.scale, "no", FALSE)) /\ P!Entry(r, doc.scale, "no", FALSE).owner \in P!Slot
    BY <1>1, RenderIsNew
  <2>2. OrderInv' BY PassKeepsOrder
  <2>3. LaneTypes' /\ Owned' BY <2>2 DEF OrderInv, PreviewTypes
  <2> QED BY <1>1, <1>2, <1>3, <1>5, <2>1, <2>3, FrameSubmitted
<1> QED BY <1>2, <1>4, <1>5 DEF Pass

LEMMA KeepFrame == ASSUME P!ScenariosAssumption, OrderInv, OneFrame, KeepAsks PROVE OneFrame'
<1>1. PreviewTypes /\ LaneTypes /\ Owned BY DEF OrderInv, PreviewTypes
<1>2. PICK r \in P!Slot : answers = {} /\ P!Render(r, "keep", {}) /\ sched' = sched BY DEF KeepAsks
<1>3. FrameStays(sched, sched') /\ {} \in SUBSET answers /\ FramesLeft({})
  BY <1>2 DEF FrameStays, FramesLeft
<1>4. NewEntry(P!Entry(r, doc.scale, "no", FALSE)) /\ P!Entry(r, doc.scale, "no", FALSE).owner \in P!Slot
  BY <1>1, RenderIsNew
<1>5. Submitted(P!Entry(r, doc.scale, "no", FALSE), {}) BY <1>2, SubmitIs DEF P!Render
<1>6. OrderInv' BY KeepAsksOrder
<1>7. LaneTypes' /\ Owned' BY <1>6 DEF OrderInv, PreviewTypes
<1> QED BY <1>1, <1>3, <1>4, <1>5, <1>7, FrameSubmitted

LEMMA OpenFrame == ASSUME P!ScenariosAssumption, OrderInv, OneFrame, P!OpenPhoto PROVE OneFrame'
<1>1. PreviewTypes /\ LaneTypes /\ Owned /\ ScheduleOK(sched) BY DEF OrderInv, PreviewTypes, PageTypes
<1>2. /\ sched' = P!cancel(sched) /\ answers = {}
      /\ NewEntry(OpenEntry) /\ OpenEntry.owner \in P!Slot /\ Submitted(OpenEntry, {})
  BY <1>1, OpenSteps
<1>3. FrameStays(sched, sched') /\ {} \in SUBSET answers /\ FramesLeft({})
  BY <1>1, <1>2, CancelIsOK DEF FramesLeft
<1>4. OrderInv' BY OpenKeepsOrder
<1>5. LaneTypes' /\ Owned' BY <1>4 DEF OrderInv, PreviewTypes
<1> QED BY <1>1, <1>2, <1>3, <1>5, FrameSubmitted

LEMMA StepKeepsFrame ==
  ASSUME P!ScenariosAssumption, OrderInv, OneFrame, ViewStep \/ HiddenStep
  PROVE  OneFrame'
<1>1. PreviewTypes /\ LaneTypes /\ Owned /\ ScheduleOK(sched) /\ doc.gen \in Nat
  BY DEF OrderInv, PreviewTypes, PageTypes
<1>2. answers \in SUBSET answers /\ FramesLeft(answers) BY DEF FramesLeft
<1>3. CASE SchedStep
  <2>1. FrameStays(sched, sched') /\ lane' = lane /\ answers' = answers BY <1>3 DEF SchedStep
  <2> QED BY <1>2, <2>1, FrameSame
<1>4. CASE LandStep
  <2>1. FrameStays(sched, sched') BY <1>4 DEF LandStep, FrameStays
  <2>2. Landed(FALSE) BY <1>4 DEF LandStep
  <2> QED BY <1>1, <2>1, <2>2, FrameLanded
<1>5. CASE AcceptStep
  <2>1. FrameStays(sched, sched') BY <1>5 DEF AcceptStep, FrameStays
  <2>2. Landed(TRUE) BY <1>5 DEF AcceptStep
  <2> QED BY <1>1, <2>1, <2>2, FrameLanded
<1>6. CASE P!Input
  <2>1. lane' = P!noteEdit(lane, doc.gen) /\ answers' = answers /\ sched' = P!schedule(sched, doc.gen + 1)
    BY <1>6 DEF P!Input
  <2>2. Len(lane') = Len(lane) /\ \A i \in 1..Len(lane) : lane'[i].owner = lane[i].owner
    BY <1>1, <2>1, NotedEntry
  <2>3. doc.gen + 1 \in Nat BY <1>1
  <2>4. FrameStays(sched, sched') BY <1>1, <2>1, <2>3, ScheduleIsOK
  <2> QED BY <1>2, <2>1, <2>2, <2>4, FrameSame
<1>7. CASE P!ZoomStep
  <2>1. lane' = lane /\ answers' = answers /\ sched' = P!cancel(sched) BY <1>7 DEF P!ZoomStep
  <2>2. FrameStays(sched, sched') BY <1>1, <2>1, CancelIsOK
  <2> QED BY <1>2, <2>1, <2>2, FrameSame
<1>8. CASE CpuShows
  <2>1. PICK r \in P!Slot, others \in SUBSET answers :
          FramesLeft(others) /\ P!Over(r, others) /\ sched' = sched
    BY <1>8 DEF CpuShows
  <2>2. answers' = others /\ lane' = lane BY <2>1 DEF P!Over
  <2>3. FrameStays(sched, sched') BY <2>1 DEF FrameStays
  <2> QED BY <2>1, <2>2, <2>3, FrameSame
<1>9. CASE P!DrawTiled
  <2>1. /\ Len(lane) = 1 /\ lane[1] \in Entries /\ sched' = sched /\ answers' = answers
        /\ Len(lane') = 1 /\ lane'[1] = [lane[1] EXCEPT !.drawn = TRUE]
    BY <1>9, TiledSteps
  <2>2. lane'[1].owner = lane[1].owner BY <2>1 DEF Entries
  <2>3. FrameStays(sched, sched') BY <2>1 DEF FrameStays
  <2>4. \A i \in 1..1 : lane'[i].owner = lane[i].owner BY <2>2
  <2>5. \A i \in 1..Len(lane) : lane'[i].owner = lane[i].owner BY <2>1, <2>4
  <2> QED BY <1>2, <2>1, <2>3, <2>5, FrameSame
<1>10. CASE P!FrameStart
  <2>1. OrderInv' BY <1>10, FrameKeepsOrder
  <2>2. LaneTypes' /\ Owned' BY <2>1 DEF OrderInv, PreviewTypes
  <2> QED BY <1>10, <2>2, FrameStarts
<1>11. CASE FrameResumes BY <1>1, <1>11, FrameIsResumed
<1> QED BY <1>3, <1>4, <1>5, <1>6, <1>7, <1>8, <1>9, <1>10, <1>11, PassFrame, KeepFrame, OpenFrame,
           ZoomFiresFrame DEF ViewStep, HiddenStep

-----------------------------------------------------------------------------
(* Without zoom steps the renders of a photo in tiles are of one scale.       *)

PlainEntry(e) ==
  /\ e.scale = 1
  /\ e.coarse # "no" => e.coarse = "drag" /\ e.owner = P!FrameOwner
  /\ e.drawn /\ e.owner = P!FrameOwner => e.coarse # "no"
PlainPage == budget.zooms = 0 /\ ~timers.zoom /\ doc.scale = 1 /\ ~doc.zoomed

LEMMA UnzoomedIs ==
  Unzoomed <=> (setting.tiled => PlainPage /\ \A i \in 1..Len(lane) : PlainEntry(lane[i]))
BY DEF Unzoomed, PlainPage, PlainEntry, P!FrameOwner

LEMMA PlainSubmitted ==
  ASSUME LaneTypes, NEW e, NewEntry(e), PlainEntry(e), NEW others, Submitted(e, others),
         \A i \in 1..Len(lane) : PlainEntry(lane[i])
  PROVE  \A i \in 1..Len(lane') : PlainEntry(lane'[i])
BY SubmittedEach DEF PlainEntry, P!FrameOwner

LEMMA PlainLanded ==
  ASSUME LaneTypes, NEW ok, Landed(ok), \A i \in 1..Len(lane) : PlainEntry(lane[i])
  PROVE  \A i \in 1..Len(lane') : PlainEntry(lane'[i])
<1>1. \A i \in 1..Len(lane') : Len(lane) = 2 /\ lane'[i] = lane[2] BY LandedEach
<1>2. Len(lane) = 2 => 2 \in 1..Len(lane) OBVIOUS
<1> QED BY <1>1, <1>2

LEMMA StepKeepsUnzoomed ==
  ASSUME P!ScenariosAssumption, OrderInv, Unzoomed, setting.tiled, ViewStep \/ HiddenStep
  PROVE  Unzoomed'
<1>1. PreviewTypes /\ PageTypes /\ LaneTypes /\ Owned BY DEF OrderInv, PreviewTypes
<1>2. PlainPage /\ \A i \in 1..Len(lane) : PlainEntry(lane[i]) BY UnzoomedIs
<1>3. SUFFICES PlainPage' /\ \A i \in 1..Len(lane') : PlainEntry(lane'[i])
  BY DEF Unzoomed, PlainPage, PlainEntry, P!FrameOwner
<1>4. ASSUME NEW r \in P!Slot, NEW others, Submitted(P!Entry(r, doc.scale, "no", FALSE), others)
      PROVE  \A i \in 1..Len(lane') : PlainEntry(lane'[i])
  <2> DEFINE e == P!Entry(r, doc.scale, "no", FALSE)
  <2>1. NewEntry(e) /\ e.scale = doc.scale /\ e.coarse = "no" BY <1>1, RenderIsNew
  <2>2. Submitted(e, others) BY <1>4
  <2> HIDE DEF e
  <2>3. PlainEntry(e) BY <1>2, <2>1 DEF PlainEntry, NewEntry, PlainPage
  <2> QED BY <1>1, <1>2, <2>1, <2>2, <2>3, PlainSubmitted
<1>5. CASE SchedStep
  <2>1. PlainPage' BY <1>2, <1>5 DEF SchedStep, PlainPage
  <2> QED BY <1>2, <1>5, <2>1 DEF SchedStep
<1>6. CASE PassStep
  <2>1. PlainPage' BY <1>2, <1>6 DEF PassStep, PlainPage
  <2>2. PICK others \in SUBSET answers : Pass(others) BY <1>6 DEF PassStep
  <2> QED BY <1>2, <1>4, <2>1, <2>2 DEF Pass
<1>7. CASE LandStep
  <2>1. PlainPage' BY <1>2, <1>7 DEF LandStep, PlainPage
  <2>2. Landed(FALSE) BY <1>7 DEF LandStep
  <2> QED BY <1>1, <1>2, <2>1, <2>2, PlainLanded
<1>8. CASE AcceptStep
  <2>1. PlainPage' BY <1>2, <1>8 DEF AcceptStep, PlainPage
  <2>2. Landed(TRUE) BY <1>8 DEF AcceptStep
  <2> QED BY <1>1, <1>2, <2>1, <2>2, PlainLanded
<1>9. CASE KeepAsks
  <2>1. PICK r \in P!Slot : P!Render(r, "keep", {}) BY <1>9 DEF KeepAsks
  <2>2. Submitted(P!Entry(r, doc.scale, "no", FALSE), {}) BY <2>1, SubmitIs DEF P!Render
  <2>3. PlainPage' BY <1>2, <1>9 DEF KeepAsks, PlainPage
  <2> QED BY <1>4, <2>2, <2>3
<1>10. CASE CpuShows
  <2>1. lane' = lane BY <1>10 DEF CpuShows, P!Over
  <2>2. PlainPage' BY <1>2, <1>10 DEF CpuShows, PlainPage
  <2> QED BY <1>2, <2>1, <2>2
<1>11. CASE FrameResumes
  <2>1. lane' = lane BY <1>11 DEF FrameResumes
  <2>2. UNCHANGED <<doc, timers, budget>> BY <1>11 DEF FrameResumes, P!Resume, P!page
  <2> QED BY <1>2, <2>1, <2>2 DEF PlainPage
<1>12. CASE P!Input
  <2>1. lane' = P!noteEdit(lane, doc.gen) /\ doc' = [doc EXCEPT !.gen = @ + 1] /\ timers' = timers
    BY <1>12 DEF P!Input
  <2>2. doc'.scale = doc.scale /\ doc'.zoomed = doc.zoomed BY <1>1, <2>1 DEF PageTypes
  <2>3. budget'.zooms = budget.zooms BY <1>1, <1>12, PreviewSpend DEF P!Input, PageTypes
  <2>4. PlainPage' BY <1>2, <2>1, <2>2, <2>3 DEF PlainPage
  <2>5. Len(lane') = Len(lane)
        /\ \A i \in 1..Len(lane) :
             /\ lane'[i].owner = lane[i].owner /\ lane'[i].drawn = lane[i].drawn
             /\ lane'[i].scale = lane[i].scale /\ lane'[i].coarse = lane[i].coarse
    BY <1>1, <2>1, NotedEntry
  <2> QED BY <1>2, <2>4, <2>5 DEF PlainEntry
<1>13. CASE P!OpenPhoto
  <2>1. /\ doc' = [gen |-> doc.gen + 1, photo |-> doc.photo + 1, scale |-> 1, zoomed |-> FALSE]
        /\ budget'.zooms = budget.zooms /\ timers' = timers
        /\ NewEntry(OpenEntry) /\ OpenEntry.scale = 1 /\ OpenEntry.coarse = "no"
        /\ Submitted(OpenEntry, {})
    BY <1>1, <1>13, OpenSteps
  <2>2. PlainPage' BY <1>2, <2>1 DEF PlainPage
  <2>3. PlainEntry(OpenEntry) BY <2>1 DEF PlainEntry, NewEntry
  <2> QED BY <1>1, <1>2, <2>1, <2>2, <2>3, PlainSubmitted
<1>14. CASE P!ZoomStep
  <2>1. budget.zooms > 0 BY <1>1, <1>14, PreviewSpend DEF P!ZoomStep, PageTypes
  <2> QED BY <1>2, <2>1 DEF PlainPage
<1>15. CASE P!ZoomFires BY <1>2, <1>15 DEF PlainPage, P!ZoomFires
<1>16. CASE P!FrameStart
  <2>1. /\ UNCHANGED <<doc, timers, budget>>
        /\ lane' = lane \/ FrameRenders
    BY <1>1, <1>16, FrameSteps DEF P!page
  <2>2. PlainPage' BY <1>2, <2>1 DEF PlainPage
  <2>3. CASE FrameRenders
    <3>1. PICK coarse \in {"no", "drag"}, snap \in BOOLEAN :
             P!submit(P!Entry(P!FrameOwner, doc.scale, coarse, snap), {})
      BY <2>3 DEF FrameRenders
    <3> DEFINE e == P!Entry(P!FrameOwner, doc.scale, coarse, snap)
    <3>2. /\ NewEntry(e) /\ e.scale = doc.scale /\ e.coarse = coarse /\ e.owner = P!FrameOwner
      BY <1>1, FrameIsNew
    <3>3. Submitted(e, {}) BY <3>1, SubmitIs
    <3> HIDE DEF e
    <3>4. PlainEntry(e) BY <1>2, <3>2 DEF PlainEntry, NewEntry, PlainPage
    <3> QED BY <1>1, <1>2, <2>2, <3>2, <3>3, <3>4, PlainSubmitted
  <2> QED BY <1>2, <2>1, <2>2, <2>3
<1>17. CASE P!DrawTiled
  <2>1. /\ lane[1] \in Entries /\ Len(lane) = 1 /\ UNCHANGED <<doc, timers, budget>>
        /\ Len(lane') = 1 /\ lane'[1] = [lane[1] EXCEPT !.drawn = TRUE] /\ ~P!WholeTiledFrame
    BY <1>17, TiledSteps
  <2>2. PlainPage' BY <1>2, <2>1 DEF PlainPage
  <2>3. /\ lane'[1].owner = lane[1].owner /\ lane'[1].scale = lane[1].scale
        /\ lane'[1].coarse = lane[1].coarse
    BY <2>1 DEF Entries
  <2>4. 1 \in 1..Len(lane) BY <2>1
  <2>5. PlainEntry(lane[1]) BY <1>2, <2>4
  <2>6. lane[1].owner = P!FrameOwner => lane[1].coarse # "no"
    BY <1>2, <2>1 DEF P!WholeTiledFrame, PlainPage, P!FrameOwner
  <2>7. PlainEntry(lane'[1]) BY <2>3, <2>5, <2>6 DEF PlainEntry
  <2>8. \A i \in 1..1 : PlainEntry(lane'[i]) BY <2>7
  <2> QED BY <2>1, <2>2, <2>8
<1> QED BY <1>5, <1>6, <1>7, <1>8, <1>9, <1>10, <1>11, <1>12, <1>13, <1>14, <1>15, <1>16, <1>17
        DEF ViewStep, HiddenStep

-----------------------------------------------------------------------------
(* The canvas shows what the page believes.                                   *)

LEMMA StepKeepsDirect ==
  ASSUME OrderInv, DirectShown, ViewStep \/ HiddenStep PROVE DirectShown'
<1>1. PreviewTypes /\ ViewTypes BY DEF OrderInv, PreviewTypes
<1>2. setting' = setting
  BY <1>1, TiledSteps, OpenSteps, FrameSteps
     DEF ViewStep, HiddenStep, SchedStep, PassStep, LandStep, KeepAsks, FrameResumes, AcceptStep,
         CpuShows, P!Resume, P!Input, P!ZoomStep, P!ZoomFires, P!OpenPhoto, P!DrawTiled, P!FrameStart
<1>3. CASE HiddenStep
  <2>1. UNCHANGED <<canvas, surface, accepted>> BY <1>1, <1>3, HiddenShowsNothing
  <2> QED BY <1>2, <2>1 DEF DirectShown
<1>4. CASE AcceptStep
  <2> DEFINE f == P!Shown(lane[1])
  <2>1. canvas' = f /\ P!acceptPresentation(f, "canvas") BY <1>4 DEF AcceptStep
  <2>2. lane[1] \in Entries BY <1>4, CurrentAlone DEF AcceptStep
  <2>3. f \in [gen : Nat, photo : Nat, scale : Nat, coarse : BOOLEAN] BY <2>2, ShownIs
  <2> HIDE DEF f
  <2>4. /\ accepted'.gen = f.gen /\ accepted'.photo = f.photo
        /\ accepted'.scale = f.scale /\ accepted'.coarse = f.coarse
    BY <1>1, <2>1, <2>3, AcceptedIs DEF ViewTypes
  <2> QED BY <2>1, <2>4 DEF DirectShown
<1>5. CASE CpuShows BY <1>1, <1>5, CpuShowsView DEF DirectShown
<1>6. CASE P!DrawTiled
  <2>1. setting.tiled BY <1>6, TiledSteps
  <2> QED BY <1>2, <2>1 DEF DirectShown
<1> QED BY <1>3, <1>4, <1>5, <1>6 DEF ViewStep

LEMMA SettingKept ==
  ASSUME P!ScenariosAssumption, OrderInv, ViewStep \/ HiddenStep PROVE setting' = setting
<1>1. PreviewTypes BY DEF OrderInv
<1> QED BY <1>1, TiledSteps, OpenSteps, FrameSteps
     DEF ViewStep, HiddenStep, SchedStep, PassStep, LandStep, KeepAsks, FrameResumes, AcceptStep,
         CpuShows, P!Resume, P!Input, P!ZoomStep, P!ZoomFires

\* A frame that could still come is in the lane, or answered.
LEMMA NoFrame ==
  ASSUME LaneTypes, Owned, OneFrame, answers = {}, sched.frame = "draft"
  PROVE  lane # <<>> /\ (lane[1].owner = P!FrameOwner \/ (Len(lane) = 2 /\ lane[2].owner = P!FrameOwner))
<1>1. ~FrameAnswered BY DEF FrameAnswered
<1>2. \E i \in 1..2 : FrameInLane(i) BY <1>1 DEF OneFrame
<1>3. FrameInLane(1) \/ FrameInLane(2)
  <2>1. \A i \in 1..2 : i = 1 \/ i = 2 OBVIOUS
  <2> QED BY <1>2, <2>1
<1> QED BY <1>3, FramePlaces, LanePlaces

\* The picture a page that is Ready shows in tiles.
LEMMA StepKeepsTiled ==
  ASSUME P!ScenariosAssumption, OrderInv, ShownInv, setting.tiled, ViewStep \/ HiddenStep
  PROVE  TiledShown'
<1>1. /\ PreviewTypes /\ PageTypes /\ ViewTypes /\ LaneTypes /\ Owned /\ LanePics
      /\ OneFrame /\ Unzoomed /\ TiledShown
  BY DEF OrderInv, PreviewTypes, ShownInv
<1>2. doc.gen \in Nat /\ doc.photo \in Nat /\ accepted.gen \in Nat /\ canvas.gen \in Nat
  BY <1>1 DEF PageTypes, ViewTypes
<1>3. PlainPage /\ \A i \in 1..Len(lane) : PlainEntry(lane[i]) BY <1>1, UnzoomedIs
<1>4. setting' = setting BY SettingKept
<1>5. TiledShown' <=> (P!Ready' /\ surface' = "canvas" =>
                         sched'.frame = "none" /\ P!Same(canvas)' /\ canvas'.photo = doc'.photo)
  BY <1>4 DEF TiledShown
<1>6. ASSUME UNCHANGED <<doc, canvas, surface, accepted, sched>> PROVE TiledShown'
  <2>1. (P!Ready' <=> P!Ready) /\ (P!Same(canvas)' <=> P!Same(canvas))
    BY <1>6 DEF P!Ready, P!Same, P!AtScale
  <2> QED BY <1>1, <1>5, <1>6, <2>1 DEF TiledShown
<1>7. ASSUME UNCHANGED <<doc, canvas, surface, accepted>>, sched.frame # "none" PROVE TiledShown'
  <2>1. P!Ready' <=> P!Ready BY <1>7 DEF P!Ready, P!Same, P!AtScale
  <2> QED BY <1>1, <1>5, <1>7, <2>1 DEF TiledShown
<1>8. ASSUME accepted' = accepted, doc'.gen = doc.gen + 1 PROVE TiledShown'
  <2>1. accepted.gen <= doc.gen BY <1>1 DEF LanePics, NotNewer
  <2>2. accepted.gen # doc'.gen BY <1>2, <1>8, <2>1
  <2>3. ~P!Ready' BY <1>8, <2>2 DEF P!Ready, P!Same
  <2> QED BY <1>5, <2>3
<1>9. CASE SchedStep
  <2>1. UNCHANGED <<doc, canvas, surface, accepted>> /\ (P!Ready /\ sched.frame = "none" => sched'.frame = "none")
    BY <1>9 DEF SchedStep
  <2>2. (P!Ready' <=> P!Ready) /\ (P!Same(canvas)' <=> P!Same(canvas))
    BY <2>1 DEF P!Ready, P!Same, P!AtScale
  <2> QED BY <1>1, <1>5, <2>1, <2>2 DEF TiledShown
<1>10. CASE PassStep BY <1>6, <1>10 DEF PassStep
<1>11. CASE LandStep BY <1>6, <1>11 DEF LandStep
<1>12. CASE KeepAsks BY <1>6, <1>12 DEF KeepAsks
<1>13. CASE FrameResumes
  <2>1. sched.frame = "draft" BY <1>1, <1>13, FrameIsResumed
  <2>2. UNCHANGED <<doc, canvas, surface, accepted>> BY <1>13 DEF FrameResumes, P!Resume, P!page
  <2> QED BY <1>7, <2>1, <2>2
<1>14. CASE P!FrameStart
  <2>1. sched.frame = "raf" /\ UNCHANGED <<doc, canvas, surface, accepted>>
    BY <1>1, <1>14, FrameSteps DEF P!page, P!viewer
  <2> QED BY <1>7, <2>1
<1>15. CASE P!Input
  <2>1. accepted' = accepted /\ doc' = [doc EXCEPT !.gen = @ + 1] BY <1>15 DEF P!Input, P!viewer
  <2>2. doc'.gen = doc.gen + 1 BY <1>1, <2>1 DEF PageTypes
  <2> QED BY <1>8, <2>1, <2>2
<1>16. CASE P!OpenPhoto
  <2>1. accepted' = accepted /\ doc'.gen = doc.gen + 1 BY <1>1, <1>16, OpenSteps
  <2> QED BY <1>8, <2>1
<1>17. CASE P!ZoomStep
  <2>1. budget.zooms > 0 BY <1>1, <1>17, PreviewSpend DEF P!ZoomStep, PageTypes
  <2> QED BY <1>3, <2>1 DEF PlainPage
<1>18. CASE P!ZoomFires BY <1>3, <1>18 DEF PlainPage, P!ZoomFires
<1>19. CASE CpuShows
  <2>1. surface' = "image" BY <1>1, <1>19, CpuShowsView
  <2> QED BY <1>5, <2>1
<1>20. CASE AcceptStep
  <2> DEFINE f == P!Shown(lane[1])
  <2>1. /\ canvas' = f /\ P!acceptPresentation(f, "canvas") /\ answers = {} /\ doc' = doc
        /\ lane # <<>> /\ P!IsCurrent(lane[1]) /\ sched' = sched
        /\ lane[1].drawn /\ sched.frame \notin {"raf", "device"}
    BY <1>20 DEF AcceptStep
  <2>2. Len(lane) = 1 /\ lane[1] \in Entries /\ lane[1].photo = doc.photo BY <2>1, CurrentAlone
  <2>3. /\ f \in [gen : Nat, photo : Nat, scale : Nat, coarse : BOOLEAN]
        /\ f.photo = lane[1].photo /\ f.coarse = (lane[1].coarse # "no")
    BY <2>2, ShownIs
  <2> HIDE DEF f
  <2>4. accepted'.gen = f.gen /\ accepted'.scale = f.scale /\ accepted'.coarse = f.coarse
    BY <1>1, <2>1, <2>3, AcceptedIs DEF ViewTypes
  <2>5. P!Ready' => P!Same(canvas)' /\ lane[1].coarse = "no"
    <3>1. P!Ready' => f.gen = doc.gen /\ f.scale = doc.scale /\ ~f.coarse
      BY <2>1, <2>4 DEF P!Ready, P!Same, P!AtScale
    <3>2. P!Same(canvas)' <=> f.gen = doc.gen /\ f.scale = doc.scale /\ ~f.coarse
      BY <2>1 DEF P!Same, P!AtScale
    <3> QED BY <2>3, <3>1, <3>2
  <2>6. P!Ready' => sched.frame = "none"
    <3>1. SUFFICES ASSUME lane[1].coarse = "no" PROVE sched.frame = "none" BY <2>5
    <3>2. 1 \in 1..Len(lane) BY <2>2
    <3>3. lane[1].owner # P!FrameOwner BY <1>3, <2>1, <3>1, <3>2 DEF PlainEntry
    <3>4. sched.frame # "draft" BY <1>1, <2>1, <2>2, <3>3, NoFrame
    <3>5. sched.frame \in Frames BY <1>1 DEF PageTypes, ScheduleOK, Schedules
    <3> QED BY <2>1, <3>4, <3>5 DEF Frames
  <2> QED BY <1>5, <2>1, <2>2, <2>3, <2>5, <2>6
<1>21. CASE P!DrawTiled
  <2>1. /\ P!IsCurrent(lane[1]) /\ lane # <<>> /\ Len(lane) = 1 /\ lane[1] \in Entries
        /\ gpu /\ canvas' = P!Shown(lane[1])
        /\ UNCHANGED <<doc, sched, answers, surface, accepted>>
    BY <1>21, TiledSteps
  <2>2. SUFFICES ASSUME P!Ready', surface' = "canvas"
        PROVE  sched'.frame = "none" /\ P!Same(canvas)' /\ canvas'.photo = doc'.photo
    BY <1>5
  <2>3. P!Ready BY <2>1, <2>2 DEF P!Ready, P!Same, P!AtScale
  <2>4. sched.frame = "none" /\ surface = "canvas" BY <1>1, <2>1, <2>2, <2>3 DEF TiledShown
  <2>5. ~FrameInLane(1)
    <3>1. \A i \in 1..2 : ~FrameInLane(i) BY <1>1, <2>4 DEF OneFrame
    <3> QED BY <3>1
  <2>6. lane[1].owner # P!FrameOwner BY <1>1, <2>1, <2>5, FramePlaces
  <2>7. PlainEntry(lane[1])
    <3>1. 1 \in 1..Len(lane) BY <2>1
    <3> QED BY <1>3, <3>1
  <2>8. lane[1].coarse = "no" /\ lane[1].scale = doc.scale BY <1>3, <2>6, <2>7 DEF PlainEntry, PlainPage
  <2>9. lane[1].photo = doc.photo /\ lane[1].gen = doc.gen
    <3>1. lane[1].photo = doc.photo /\ lane[1].gen <= doc.gen /\ lane[1].gen >= accepted.gen
      BY <2>1, CurrentAlone
    <3>2. accepted.gen = doc.gen BY <2>3 DEF P!Ready, P!Same
    <3>3. lane[1].gen \in Nat BY <2>1 DEF Entries
    <3> QED BY <1>2, <3>1, <3>2, <3>3
  <2>10. /\ canvas'.gen = doc.gen /\ canvas'.photo = doc.photo
         /\ canvas'.scale = doc.scale /\ ~canvas'.coarse
    BY <2>1, <2>8, <2>9, ShownIs
  <2> QED BY <2>1, <2>4, <2>10 DEF P!Same, P!AtScale
<1> QED BY <1>9, <1>10, <1>11, <1>12, <1>13, <1>14, <1>15, <1>16, <1>17, <1>18, <1>19, <1>20, <1>21
        DEF ViewStep, HiddenStep

-----------------------------------------------------------------------------
(* Ready is shown.                                                            *)

\* No viewing has both tiles and zoom steps.
NoTiledZoom == \A s \in Viewings : s.setting.tiled => s.left.zooms = 0

LEMMA ShownInit ==
  ASSUME P!ScenariosAssumption, NoTiledZoom, P!Init PROVE ShownInv
<1>1. lane = <<>> /\ answers = {} /\ sched.frame = "none" BY DEF P!Init
<1>2. OneFrame BY <1>1 DEF OneFrame, FrameAnswered, FrameInLane
<1>3. Unzoomed BY <1>1 DEF P!Init, NoTiledZoom, Unzoomed
<1>4. DirectShown /\ TiledShown BY <1>1 DEF P!Init, DirectShown, TiledShown, P!Same, P!AtScale
<1> QED BY <1>2, <1>3, <1>4 DEF ShownInv

LEMMA StepKeepsShown ==
  ASSUME P!ScenariosAssumption, OrderInv, ShownInv, ViewStep \/ HiddenStep PROVE ShownInv'
<1>1. setting' = setting BY SettingKept
<1>2. Unzoomed' /\ TiledShown'
  <2>1. CASE setting.tiled BY <2>1, StepKeepsUnzoomed, StepKeepsTiled DEF ShownInv
  <2>2. CASE ~setting.tiled BY <1>1, <2>2 DEF Unzoomed, TiledShown
  <2> QED BY <2>1, <2>2
<1> QED BY <1>2, StepKeepsFrame, StepKeepsDirect DEF ShownInv

LEMMA ShownIsReady == ASSUME OrderInv, ShownInv PROVE P!ReadyIsShown
<1>1. ViewTypes /\ NotNewer BY DEF OrderInv, PreviewTypes, LanePics
<1>2. SUFFICES ASSUME P!Ready PROVE P!Same(P!Visible) /\ P!Visible.photo = doc.photo
  BY DEF P!ReadyIsShown
<1>3. accepted.gen = doc.gen /\ P!Same(accepted) /\ accepted.photo = doc.photo
  BY <1>1, <1>2 DEF P!Ready, P!Same, NotNewer
<1>4. CASE surface = "image" BY <1>3, <1>4 DEF P!Visible
<1>5. CASE surface = "canvas" /\ setting.tiled
  BY <1>2, <1>5 DEF P!Visible, ShownInv, TiledShown
<1>6. CASE surface = "canvas" /\ ~setting.tiled
  BY <1>3, <1>6 DEF P!Visible, ShownInv, DirectShown, P!Same, P!AtScale
<1> QED BY <1>1, <1>4, <1>5, <1>6 DEF ViewTypes

\* ReadyIsShown: when the viewer says Ready, the screen shows the picture of the
\* current edit and photo at the scale the view needs (viewerState and
\* acceptPresentation, preview-pipeline.js). For any bounds, any settings and any
\* number of functions that wait, as long as no zoom step meets tiles, where it
\* fails. It is even so while a tiled render draws.
THEOREM ReadyIsShownHolds ==
  ASSUME P!ScenariosAssumption, NoTiledZoom PROVE P!Spec => []P!ReadyIsShown
<1>1. P!Init => OrderInv /\ ShownInv BY OrderInit, ShownInit
<1>2. OrderInv /\ ShownInv /\ [P!Next]_(P!vars) => (OrderInv /\ ShownInv)'
  <2> SUFFICES ASSUME OrderInv, ShownInv, [P!Next]_(P!vars) PROVE (OrderInv /\ ShownInv)' OBVIOUS
  <2>1. ViewStep \/ HiddenStep BY StepKinds, IdleSteps DEF HiddenStep
  <2> QED BY <2>1, StepKeepsOrder, StepKeepsShown
<1>3. OrderInv /\ ShownInv => P!ReadyIsShown BY ShownIsReady
<1> QED BY <1>1, <1>2, <1>3, PTL DEF P!Spec
=============================================================================
