---------------------------- MODULE RenderFlights ----------------------------
(***************************************************************************)
(* The render cache of one session (SessionRenderCache in render_cache.py):*)
(* previews, bounded previews, scopes and masks are computed on the        *)
(* server's threads, shared through tables of results and one table of     *)
(* flights, while edits clear the tables, the source or its colour context *)
(* is replaced, newer requests overtake older ones and pages go away.      *)
(*                                                                         *)
(* One lane and one size. A picture is what it was made from: the version  *)
(* of the source, the colour context, the grade and the source that its    *)
(* mask was compiled from. Which results a full table drops is left open.  *)
(***************************************************************************)
EXTENDS Integers, FiniteSets

CONSTANTS
  Request,      \* the requests, each served by a thread of its own
  Grade, Mask,  \* the grades and the masks that they may use
  MaskOf,       \* grade |-> its mask, or NoMask
  NoMask,
  Context,      \* colour contexts (reference whites)
  MaxFrames,    \* frames that are kept (6 in the code)
  Scenarios     \* what is asked and what may happen: a set of Budget records

Kinds == {"frame", "strips", "scope", "mask"}
Job == [kind: Kinds, grade: Grade]
Budget == [jobs: UNION {[asking -> Job] : asking \in SUBSET Request}, context: Context, replaces: Nat, resets: Nat, contexts: Nat, edits: Nat,
           leaves: Nat, faults: Nat, leaks: Nat]
ASSUME FlightAssumption ==
  /\ IsFiniteSet(Request) /\ NoMask \notin Mask /\ MaskOf \in [Grade -> Mask \cup {NoMask}]
  /\ MaxFrames \in Nat /\ Scenarios \subseteq Budget
  /\ \A s \in Scenarios : \A r \in DOMAIN s.jobs :
        s.jobs[r].kind = "mask" => MaskOf[s.jobs[r].grade] # NoMask

VARIABLES
  epoch, source, context,   \* _source_epoch, the image's version, color_context
  frames, peaks, scopes, masks,   \* tables: key |-> what was computed
  inflight,     \* per table, key |-> the request that owns the flight
  waiters,      \* _flight_waiters: mask key |-> how many wait
  requests,     \* request |-> where its thread is, with its local variables
  token,        \* preview_tokens of the lane
  left          \* what may still happen in this scenario; jobs stay

vars == <<epoch, source, context, frames, peaks, scopes, masks, inflight, waiters,
          requests, token, left>>
results == <<frames, peaks, scopes, masks>>
session == <<epoch, source, context, token>>

-----------------------------------------------------------------------------
Kind(r) == left.jobs[r].kind
GradeOf(r) == left.jobs[r].grade
Spend(what) == left[what] > 0 /\ left' = [left EXCEPT ![what] = @ - 1]

Keys == [epoch: Nat, context: Context, grade: Grade]
MaskKeys == [epoch: Nat, mask: Mask]
Pictures == [source: Nat, context: Context, grade: Grade, mask: Nat]

FrameKey(r) == [epoch |-> requests[r].epoch, context |-> requests[r].context,
                grade |-> GradeOf(r)]
ScopeKey(r) == [epoch |-> requests[r].outerEpoch, context |-> requests[r].outerContext,
                grade |-> GradeOf(r)]
MaskKey(r) == [epoch |-> requests[r].epoch, mask |-> MaskOf[GradeOf(r)]]
Tables == {"frame", "scope", "mask"}
Masked(r) == MaskOf[GradeOf(r)] # NoMask

\* Dictionaries: an entry set, an entry dropped, the rest kept.
Put(table, key, value) == [k \in DOMAIN table \cup {key} |-> IF k = key THEN value ELSE table[k]]
Keep(table, keys) == [k \in DOMAIN table \cap keys |-> table[k]]
Drop(table, key) == [k \in DOMAIN table \ {key} |-> table[k]]
Empty == [k \in {} |-> k]

Nothing == [source |-> 0, grade |-> "none"]
NewRequest == [pc |-> "new", began |-> 0, epoch |-> 0, context |-> "none", outerEpoch |-> 0,
               outerContext |-> "none", src |-> 0, mask |-> 0, picture |-> Nothing,
               owns |-> {}, cut |-> {}, waiting |-> FALSE, fails |-> "none", token |-> 0,
               wanted |-> TRUE, overtaken |-> FALSE, obsolete |-> FALSE, gone |-> FALSE]

Init ==
  /\ left \in Scenarios
  /\ epoch = 0 /\ source = 1 /\ context = left.context
  /\ frames = Empty /\ peaks = Empty /\ scopes = Empty /\ masks = Empty
  /\ inflight = [table \in Tables |-> Empty]
  /\ waiters = Empty /\ token = 0
  /\ requests = [r \in Request |-> NewRequest]

Update(r, change) == requests' = [requests EXCEPT ![r] = change]
Go(r, pc) == requests' = [requests EXCEPT ![r].pc = pc]

\* An exception passes through the finally clauses of the flights it owns.
Unwind(owns) == IF "mask" \in owns THEN "m_release"
                ELSE IF "frame" \in owns THEN "f_release"
                ELSE IF "scope" \in owns THEN "s_release" ELSE "done"
Raise(r, why) == Update(r, [requests[r] EXCEPT !.fails = why, !.pc = Unwind(requests[r].owns)])

\* is_current: the newest preview token, or an instrument nobody cancelled.
Current(r) == CASE Kind(r) \in {"frame", "strips"} -> requests[r].token = token
                [] Kind(r) = "scope" -> requests[r].wanted
                [] OTHER -> TRUE

-----------------------------------------------------------------------------
(* The endpoints: a preview takes the next token, a scope cancels the one  *)
(* before it in its lane.                                                  *)

\* ("overtaken" remembers for the properties that a newer preview began.)
Preview(r) == Kind(r) \in {"frame", "strips"}
Overtaken(r) == [q \in Request |->
  IF q = r \/ requests[q].pc \in {"new", "done"} THEN requests[q]
  ELSE IF Kind(r) = "scope" /\ Kind(q) = "scope" THEN [requests[q] EXCEPT !.wanted = FALSE]
  ELSE IF Preview(r) /\ Preview(q) THEN [requests[q] EXCEPT !.overtaken = TRUE]
  ELSE requests[q]]

Begin(r) ==
  /\ requests[r].pc = "new" /\ r \in DOMAIN left.jobs
  /\ token' = IF Preview(r) THEN token + 1 ELSE token
  /\ requests' = [Overtaken(r) EXCEPT ![r] =
       [@ EXCEPT !.began = epoch, !.token = token', !.wanted = TRUE,
                 !.pc = CASE Kind(r) = "scope" -> "s_epoch"
                          [] Kind(r) = "mask" -> "m_begin"
                          [] OTHER -> "f_epoch"]]
  /\ UNCHANGED <<epoch, source, context, results, inflight, waiters, left>>

\* The answer is dropped when the request was overtaken meanwhile.
Answer(r) ==
  /\ requests[r].pc = "answer" /\ Kind(r) # "mask"
  /\ Update(r, [requests[r] EXCEPT !.pc = "done", !.fails = IF Current(r) THEN @ ELSE "stale"])
  /\ UNCHANGED <<session, results, inflight, waiters, left>>

-----------------------------------------------------------------------------
(* adjusted_frame and adjusted_frame_in_strips.                            *)

ReadEpoch(r) ==
  /\ requests[r].pc = "f_epoch"
  /\ Update(r, [requests[r] EXCEPT !.epoch = epoch, !.pc = "f_sign"])
  /\ UNCHANGED <<session, results, inflight, waiters, left>>

\* The signature reads the colour context without the lock.
Sign(r) ==
  /\ requests[r].pc = "f_sign"
  /\ Update(r, [requests[r] EXCEPT !.context = context,
                  !.pc = IF Kind(r) = "strips" THEN "t_proxies" ELSE "f_acquire"])
  /\ UNCHANGED <<session, results, inflight, waiters, left>>

\* _acquire_frame_flight: a cached frame, a stale request, or the flight of
\* this key. Otherwise the thread looks again, every 50 ms.
FrameCached(r) ==
  /\ requests[r].pc = "f_acquire" /\ FrameKey(r) \in DOMAIN frames
  /\ Update(r, [requests[r] EXCEPT !.picture = frames[FrameKey(r)],
                  !.pc = CASE Kind(r) = "strips" -> "t_peak"
                           [] Kind(r) = "scope" -> "s_check"
                           [] OTHER -> "answer"])
  /\ UNCHANGED <<session, results, inflight, waiters, left>>

FrameStale(r) ==
  /\ requests[r].pc = "f_acquire" /\ FrameKey(r) \notin DOMAIN frames
  /\ ~Current(r) /\ Raise(r, "stale")
  /\ UNCHANGED <<session, results, inflight, waiters, left>>

FrameOwn(r) ==
  /\ requests[r].pc = "f_acquire" /\ FrameKey(r) \notin DOMAIN frames
  /\ Current(r) /\ FrameKey(r) \notin DOMAIN inflight.frame
  /\ inflight' = [inflight EXCEPT !.frame = Put(@, FrameKey(r), r)]
  /\ Update(r, [requests[r] EXCEPT !.owns = @ \cup {"frame"}, !.cut = @ \ {"frame"},
                  !.pc = IF Kind(r) = "strips" THEN "t_render" ELSE "f_proxies"])
  /\ UNCHANGED <<session, results, waiters, left>>

\* The source is taken under the lock, after the epoch. The bounded path takes
\* it before it takes the flight.
Proxies(r) ==
  /\ requests[r].pc \in {"f_proxies", "t_proxies"} /\ (Kind(r) = "strips" => ~Masked(r))
  /\ Update(r, [requests[r] EXCEPT !.src = source,
                  !.pc = IF Kind(r) = "strips" THEN "f_acquire"
                         ELSE IF Masked(r) THEN "m_acquire" ELSE "f_apply"])
  /\ UNCHANGED <<session, results, inflight, waiters, left>>

\* The bounded path refuses what it cannot reproduce, masks among them.
StripsRefused(r) ==
  /\ requests[r].pc = "t_proxies" /\ Raise(r, "error")
  /\ UNCHANGED <<session, results, inflight, waiters, left>>

\* The source level cannot be built (no memory, ...): this happens before the
\* try block, and nobody takes the flight back.
ProxiesFail(r) ==
  /\ requests[r].pc = "f_proxies" /\ Spend("leaks")
  /\ Update(r, [requests[r] EXCEPT !.fails = "error", !.owns = @ \ {"frame"},
                  !.pc = Unwind(requests[r].owns \ {"frame"})])
  /\ UNCHANGED <<session, results, inflight, waiters>>

\* What the pixels are made from; the context is read once more.
Made(r) == [source |-> requests[r].src, context |-> context, grade |-> GradeOf(r),
            mask |-> requests[r].mask]

Render(r) ==
  /\ requests[r].pc = "f_apply"
  /\ Update(r, [requests[r] EXCEPT !.picture = Made(r), !.pc = "f_check"])
  /\ UNCHANGED <<session, results, inflight, waiters, left>>

CheckFrame(r) ==
  /\ requests[r].pc = "f_check"
  /\ IF Current(r) THEN Go(r, "f_store") ELSE Raise(r, "stale")
  /\ UNCHANGED <<session, results, inflight, waiters, left>>

\* The bounded path looks between strips, and not after the last one.
RenderStrips(r) ==
  /\ requests[r].pc = "t_render"
  /\ \/ Update(r, [requests[r] EXCEPT !.picture = Made(r), !.pc = "f_store"])
     \/ ~Current(r) /\ Raise(r, "stale")
  /\ UNCHANGED <<session, results, inflight, waiters, left>>

RenderFails(r) ==
  /\ requests[r].pc \in {"f_apply", "t_render", "m_compute", "s_build"}
  /\ Spend("faults") /\ Raise(r, "error")
  /\ UNCHANGED <<session, results, inflight, waiters>>

\* _evict_locked: with a frame goes the peak that was measured of it.
Evicted(kept) == peaks' = Keep(peaks, kept)

\* The finished frame is kept, whoever owns the flight by now; the bounded
\* path keeps the peak with it.
StoreFrame(r) ==
  /\ requests[r].pc = "f_store"
  /\ LET key == FrameKey(r)
         stored == Put(frames, key, requests[r].picture)
     IN \E kept \in SUBSET DOMAIN stored :
          /\ Cardinality(kept) <= MaxFrames
          /\ frames' = Keep(stored, kept)
          /\ IF Kind(r) = "strips" /\ key \in kept
             THEN peaks' = Put(Keep(peaks, kept), key, requests[r].picture)
             ELSE Evicted(kept)
  /\ Go(r, "f_release")
  /\ UNCHANGED <<session, scopes, masks, inflight, waiters, left>>

\* A cached frame may come from the path that measures no peak: it is measured
\* now, and kept if the frame is still there.
CachedPeak(r) ==
  /\ requests[r].pc = "t_peak"
  /\ Go(r, IF FrameKey(r) \in DOMAIN peaks THEN "answer" ELSE "t_measure")
  /\ UNCHANGED <<session, results, inflight, waiters, left>>

MeasurePeak(r) ==
  /\ requests[r].pc = "t_measure"
  /\ peaks' = IF FrameKey(r) \in DOMAIN frames
              THEN Put(peaks, FrameKey(r), requests[r].picture) ELSE peaks
  /\ Go(r, "answer")
  /\ UNCHANGED <<session, frames, scopes, masks, inflight, waiters, left>>

\* Mutant: whatever flight is there for the key is taken away.
Detached_Any(r, table, key) == inflight' = [inflight EXCEPT ![table] = Drop(@, key)]

\* "Only detach our own event": an invalidation may have taken it away already
\* and another request may own the key.
Detached(r, table, key) ==
  inflight' = IF key \in DOMAIN inflight[table] /\ inflight[table][key] = r
              THEN [inflight EXCEPT ![table] = Drop(@, key)] ELSE inflight

ReleaseFrame(r) ==
  /\ requests[r].pc = "f_release"
  /\ Detached(r, "frame", FrameKey(r))
  /\ LET owns == requests[r].owns \ {"frame"} IN
     Update(r, [requests[r] EXCEPT !.owns = owns, !.cut = @ \ {"frame"},
                  !.pc = IF requests[r].fails # "none" THEN Unwind(owns)
                         ELSE IF Kind(r) = "scope" THEN "s_check" ELSE "answer"])
  /\ UNCHANGED <<session, results, waiters, left>>

-----------------------------------------------------------------------------
(* compiled_local_mask and _compiled_masks.                                *)

\* Checks of a mask request: its mask was edited away, or its page left and
\* nobody else waits for the compile. Other requests have none.
Obsolete(r) == Kind(r) = "mask" /\ requests[r].obsolete
Abandoned(r, shared) ==
  /\ Kind(r) = "mask" /\ requests[r].gone
  /\ ~(shared /\ MaskKey(r) \in DOMAIN waiters)

\* A mask request reads the epoch and the source under one lock.
BeginMask(r) ==
  /\ requests[r].pc = "m_begin"
  /\ IF Obsolete(r) \/ Abandoned(r, FALSE) THEN Raise(r, "stale")
     ELSE Update(r, [requests[r] EXCEPT !.epoch = epoch, !.src = source, !.pc = "m_acquire"])
  /\ UNCHANGED <<session, results, inflight, waiters, left>>

\* Mutant: a request that gives up waiting is still counted.
Unregistered_IfServed(r, served) ==
  waiters' = IF requests[r].waiting /\ served
             THEN IF waiters[MaskKey(r)] > 1 THEN [waiters EXCEPT ![MaskKey(r)] = @ - 1]
                  ELSE Drop(waiters, MaskKey(r))
             ELSE waiters

\* Leaving the loop, in any way, takes the request off the waiters.
Unregistered(r, served) ==
  waiters' = IF requests[r].waiting
             THEN IF waiters[MaskKey(r)] > 1 THEN [waiters EXCEPT ![MaskKey(r)] = @ - 1]
                  ELSE Drop(waiters, MaskKey(r))
             ELSE waiters

AfterMask(r) == IF Kind(r) = "mask" THEN "answer" ELSE "f_apply"

MaskStops(r) ==
  /\ requests[r].pc = "m_acquire" /\ (Obsolete(r) \/ Abandoned(r, FALSE))
  /\ Unregistered(r, FALSE)
  /\ Update(r, [requests[r] EXCEPT !.fails = "stale", !.waiting = FALSE, !.pc = Unwind(requests[r].owns)])
  /\ UNCHANGED <<session, results, inflight, left>>

MaskCached(r) ==
  /\ requests[r].pc = "m_acquire" /\ MaskKey(r) \in DOMAIN masks
  /\ Unregistered(r, TRUE)
  /\ Update(r, [requests[r] EXCEPT !.mask = masks[MaskKey(r)], !.waiting = FALSE, !.pc = AfterMask(r)])
  /\ UNCHANGED <<session, results, inflight, left>>

\* A request that outlived its source compiles for itself.
MaskAlone(r) ==
  /\ requests[r].pc = "m_acquire" /\ MaskKey(r) \notin DOMAIN masks
  /\ requests[r].epoch # epoch
  /\ Unregistered(r, TRUE)
  /\ Update(r, [requests[r] EXCEPT !.waiting = FALSE, !.pc = "m_start"])
  /\ UNCHANGED <<session, results, inflight, left>>

MaskOwn(r) ==
  /\ requests[r].pc = "m_acquire" /\ MaskKey(r) \notin DOMAIN masks
  /\ requests[r].epoch = epoch /\ MaskKey(r) \notin DOMAIN inflight.mask
  /\ inflight' = [inflight EXCEPT !.mask = Put(@, MaskKey(r), r)]
  /\ Unregistered(r, TRUE)
  /\ Update(r, [requests[r] EXCEPT !.waiting = FALSE, !.owns = @ \cup {"mask"},
                  !.cut = @ \ {"mask"}, !.pc = "m_start"])
  /\ UNCHANGED <<session, results, left>>

MaskWait(r) ==
  /\ requests[r].pc = "m_acquire" /\ MaskKey(r) \notin DOMAIN masks
  /\ requests[r].epoch = epoch /\ MaskKey(r) \in DOMAIN inflight.mask
  /\ ~requests[r].waiting
  /\ waiters' = Put(waiters, MaskKey(r), IF MaskKey(r) \in DOMAIN waiters THEN waiters[MaskKey(r)] + 1 ELSE 1)
  /\ Update(r, [requests[r] EXCEPT !.waiting = TRUE])
  /\ UNCHANGED <<session, results, inflight, left>>

\* Before the compile starts, nobody who waits is asked for.
StartMask(r) ==
  /\ requests[r].pc = "m_start"
  /\ IF Obsolete(r) \/ Abandoned(r, FALSE)
     THEN Update(r, [requests[r] EXCEPT !.fails = "stale", !.pc = "m_release"])
     ELSE Go(r, "m_compute")
  /\ UNCHANGED <<session, results, inflight, waiters, left>>

\* The compile ends, or it stops at one of its checkpoints. A request that is
\* only abandoned goes on while somebody waits; the result is then kept.
Compile(r) ==
  /\ requests[r].pc = "m_compute"
  /\ \/ Update(r, [requests[r] EXCEPT !.mask = requests[r].src, !.pc = IF Obsolete(r) THEN "m_release" ELSE "m_store",
                                      !.fails = IF Obsolete(r) THEN "stale" ELSE @])
     \/ (Obsolete(r) \/ Abandoned(r, TRUE)) /\ Update(r, [requests[r] EXCEPT !.fails = "stale", !.pc = "m_release"])
  /\ UNCHANGED <<session, results, inflight, waiters, left>>

\* An obsolete mask is never cached: its epoch must still be the current one.
Storable(r) == requests[r].epoch = epoch

StoreMask(r) ==
  /\ requests[r].pc = "m_store"
  /\ LET key == MaskKey(r)
         request == [requests[r] EXCEPT !.pc = "m_release",
                       !.fails = IF Obsolete(r) \/ Abandoned(r, FALSE) THEN "stale" ELSE @]
     IN IF ~Storable(r) THEN Update(r, request) /\ UNCHANGED masks
        ELSE IF key \in DOMAIN masks THEN Update(r, [request EXCEPT !.mask = masks[key]]) /\ UNCHANGED masks
        ELSE /\ Update(r, request)
             /\ \E kept \in SUBSET (DOMAIN masks \cup {key}) : masks' = Keep(Put(masks, key, requests[r].mask), kept)
  /\ UNCHANGED <<session, frames, peaks, scopes, inflight, waiters, left>>

ReleaseMask(r) ==
  /\ requests[r].pc = "m_release"
  /\ IF "mask" \in requests[r].owns THEN Detached(r, "mask", MaskKey(r)) ELSE UNCHANGED inflight
  /\ LET owns == requests[r].owns \ {"mask"} IN
     Update(r, [requests[r] EXCEPT !.owns = owns, !.cut = @ \ {"mask"},
                  !.pc = IF requests[r].fails # "none" THEN Unwind(owns) ELSE AfterMask(r)])
  /\ UNCHANGED <<session, results, waiters, left>>

\* The last checkpoint of request_work, after the picture is made.
AnswerMask(r) ==
  /\ requests[r].pc = "answer" /\ Kind(r) = "mask"
  /\ Update(r, [requests[r] EXCEPT !.pc = "done",
                  !.fails = IF Obsolete(r) \/ Abandoned(r, FALSE) THEN "stale" ELSE @])
  /\ UNCHANGED <<session, results, inflight, waiters, left>>

-----------------------------------------------------------------------------
(* scope_result: a table and a flight of its own around the frame.         *)

ReadScopeEpoch(r) ==
  /\ requests[r].pc = "s_epoch"
  /\ Update(r, [requests[r] EXCEPT !.outerEpoch = epoch, !.pc = "s_sign"])
  /\ UNCHANGED <<session, results, inflight, waiters, left>>

SignScope(r) ==
  /\ requests[r].pc = "s_sign"
  /\ Update(r, [requests[r] EXCEPT !.outerContext = context, !.pc = "s_acquire"])
  /\ UNCHANGED <<session, results, inflight, waiters, left>>

AcquireScope(r) ==
  /\ requests[r].pc = "s_acquire"
  /\ \/ /\ ScopeKey(r) \in DOMAIN scopes
        /\ Update(r, [requests[r] EXCEPT !.picture = scopes[ScopeKey(r)], !.pc = "answer"])
        /\ UNCHANGED inflight
     \/ /\ ScopeKey(r) \notin DOMAIN scopes /\ ~Current(r)
        /\ Raise(r, "stale") /\ UNCHANGED inflight
     \/ /\ ScopeKey(r) \notin DOMAIN scopes /\ Current(r)
        /\ ScopeKey(r) \notin DOMAIN inflight.scope
        /\ inflight' = [inflight EXCEPT !.scope = Put(@, ScopeKey(r), r)]
        /\ Update(r, [requests[r] EXCEPT !.owns = @ \cup {"scope"}, !.cut = @ \ {"scope"},
                        !.pc = "f_epoch"])
  /\ UNCHANGED <<session, results, waiters, left>>

\* The request is looked at before the scope is built and after it.
CheckScope(r) ==
  /\ requests[r].pc \in {"s_check", "s_build"}
  /\ IF Current(r) THEN Go(r, IF requests[r].pc = "s_check" THEN "s_build" ELSE "s_store")
     ELSE Raise(r, "stale")
  /\ UNCHANGED <<session, results, inflight, waiters, left>>

StoreScope(r) ==
  /\ requests[r].pc = "s_store"
  /\ \E kept \in SUBSET (DOMAIN scopes \cup {ScopeKey(r)}) :
        scopes' = Keep(Put(scopes, ScopeKey(r), requests[r].picture), kept)
  /\ Go(r, "s_release")
  /\ UNCHANGED <<session, frames, peaks, masks, inflight, waiters, left>>

\* Mutant: a scope that fails leaves its flight in the table.
ReleaseScope_IfStored(r) ==
  /\ requests[r].pc = "s_release"
  /\ IF requests[r].fails = "none" THEN Detached(r, "scope", ScopeKey(r)) ELSE UNCHANGED inflight
  /\ LET owns == requests[r].owns \ {"scope"} IN
     Update(r, [requests[r] EXCEPT !.owns = owns, !.cut = @ \ {"scope"},
                  !.pc = IF requests[r].fails # "none" THEN Unwind(owns) ELSE "answer"])
  /\ UNCHANGED <<session, results, waiters, left>>

ReleaseScope(r) ==
  /\ requests[r].pc = "s_release"
  /\ Detached(r, "scope", ScopeKey(r))
  /\ LET owns == requests[r].owns \ {"scope"} IN
     Update(r, [requests[r] EXCEPT !.owns = owns, !.cut = @ \ {"scope"},
                  !.pc = IF requests[r].fails # "none" THEN Unwind(owns) ELSE "answer"])
  /\ UNCHANGED <<session, results, waiters, left>>

-----------------------------------------------------------------------------
(* The session: edits and replacements, under the cache's lock.            *)

\* _cancel_inflight_locked: the flights of these tables are taken out; their
\* owners go on, and who waits for them looks again. ("cut" remembers it for
\* the properties.)
Cleared(tables) ==
  /\ inflight' = [table \in DOMAIN inflight |-> IF table \in tables THEN Empty ELSE inflight[table]]
  /\ requests' = [r \in Request |-> [requests[r] EXCEPT !.cut = @ \cup (requests[r].owns \cap tables)]]

\* Mutant: the new source keeps the epoch of the old one.
Replaced_SameEpoch ==
  /\ source' = source + 1 /\ epoch' = epoch
  /\ frames' = Empty /\ peaks' = Empty /\ scopes' = Empty /\ masks' = Empty
  /\ Cleared(Tables)
  /\ UNCHANGED <<context, waiters>>

Replaced ==
  /\ source' = source + 1 /\ epoch' = epoch + 1
  /\ frames' = Empty /\ peaks' = Empty /\ scopes' = Empty /\ masks' = Empty
  /\ Cleared(Tables)
  /\ UNCHANGED <<context, waiters>>

\* Repaired pixels are installed.
replace_source == Spend("replaces") /\ Replaced /\ UNCHANGED token

\* The source is decoded again; the tokens count from zero again.
update_source_interpretation == Spend("resets") /\ Replaced /\ token' = 0

\* The masks stay in their table, under an epoch that nobody asks for again.
set_color_context ==
  /\ Spend("contexts")
  /\ \E c \in Context \ {context} : context' = c
  /\ epoch' = epoch + 1
  /\ frames' = Empty /\ peaks' = Empty /\ scopes' = Empty
  /\ Cleared(Tables)
  /\ UNCHANGED <<source, masks, token, waiters>>

\* An edit of the grade keeps the masks and their flights.
clear_adjusted ==
  /\ Spend("edits")
  /\ frames' = Empty /\ peaks' = Empty /\ scopes' = Empty
  /\ Cleared({"frame", "scope"})
  /\ UNCHANGED <<epoch, source, context, masks, token, waiters>>

\* The mask of a request is edited away, its page goes, its instrument is
\* cancelled.
Leave(r) ==
  /\ requests[r].pc \notin {"new", "done"} /\ Spend("leaves")
  /\ \/ /\ Kind(r) = "mask"
        /\ \/ Update(r, [requests[r] EXCEPT !.obsolete = TRUE])
           \/ Update(r, [requests[r] EXCEPT !.gone = TRUE])
     \/ Kind(r) = "scope" /\ Update(r, [requests[r] EXCEPT !.wanted = FALSE])
  /\ UNCHANGED <<session, results, inflight, waiters>>

Preparing(r) == ReadScopeEpoch(r) \/ SignScope(r) \/ ReadEpoch(r) \/ Sign(r) \/ Proxies(r)
                \/ StripsRefused(r) \/ BeginMask(r)
Acquiring(r) == AcquireScope(r) \/ FrameCached(r) \/ FrameStale(r) \/ FrameOwn(r)
                \/ MaskStops(r) \/ MaskCached(r) \/ MaskAlone(r) \/ MaskOwn(r) \/ MaskWait(r)
Making(r) == Render(r) \/ CheckFrame(r) \/ RenderStrips(r) \/ StartMask(r) \/ Compile(r) \/ CheckScope(r)
Keeping(r) == StoreFrame(r) \/ CachedPeak(r) \/ MeasurePeak(r) \/ StoreMask(r) \/ StoreScope(r)
Releasing(r) == ReleaseFrame(r) \/ ReleaseMask(r) \/ ReleaseScope(r)
Answering(r) == Answer(r) \/ AnswerMask(r)
Step(r) == Preparing(r) \/ Acquiring(r) \/ Making(r) \/ Keeping(r) \/ Releasing(r) \/ Answering(r)
Failing(r) == ProxiesFail(r) \/ RenderFails(r)

Next ==
  \/ \E r \in Request : Begin(r) \/ Step(r) \/ Failing(r) \/ Leave(r)
  \/ replace_source \/ update_source_interpretation \/ set_color_context \/ clear_adjusted

\* Every request has a thread of its own that goes on with what it can do.
Fairness == \A r \in Request : WF_vars(Step(r))
Spec == Init /\ [][Next]_vars /\ Fairness

-----------------------------------------------------------------------------
(* Properties.                                                             *)

Pcs == {"new", "done", "answer", "f_epoch", "f_sign", "f_acquire", "f_proxies", "f_apply",
        "f_check", "f_store", "f_release", "t_proxies", "t_render", "t_peak", "t_measure",
        "m_begin", "m_acquire", "m_start", "m_compute", "m_store", "m_release",
        "s_epoch", "s_sign", "s_acquire", "s_check", "s_build", "s_store", "s_release"}
RequestType ==
  [pc : Pcs, began : Nat, epoch : Nat, context : Context \cup {"none"}, outerEpoch : Nat,
   outerContext : Context \cup {"none"}, src : Nat, mask : Nat, picture : Pictures \cup {Nothing},
   owns : SUBSET Tables, cut : SUBSET Tables, waiting : BOOLEAN, fails : {"none", "stale", "error"},
   token : Nat, wanted : BOOLEAN, overtaken : BOOLEAN, obsolete : BOOLEAN, gone : BOOLEAN]

\* Every variable has its type: pictures are kept under the key of a frame,
\* flights are taken by requests.
TypeOK ==
  /\ epoch \in Nat /\ source \in Nat \ {0} /\ context \in Context /\ token \in Nat
  /\ \A key \in DOMAIN frames : frames[key] \in Pictures
  /\ \A key \in DOMAIN peaks : peaks[key] \in Pictures
  /\ \A key \in DOMAIN scopes : scopes[key] \in Pictures
  /\ \A key \in DOMAIN masks : masks[key] \in Nat
  /\ DOMAIN inflight = Tables
  /\ \A table \in Tables : \A key \in DOMAIN inflight[table] : inflight[table][key] \in Request
  /\ \A key \in DOMAIN waiters : waiters[key] \in Nat \ {0}
  /\ requests \in [Request -> RequestType]
  /\ \A r \in Request : requests[r].pc # "new" => r \in DOMAIN left.jobs

KeyIn(r, table) == CASE table = "frame" -> FrameKey(r) [] table = "scope" -> ScopeKey(r)
                     [] OTHER -> MaskKey(r)
Answered(r) == requests[r].pc = "done" /\ requests[r].fails = "none"

\* What a picture of this grade is made from now.
PictureNow(grade) == [source |-> source, context |-> context, grade |-> grade,
                              mask |-> IF MaskOf[grade] # NoMask THEN source ELSE 0]

\* A request that began after the last change of the source and of its colour
\* context is answered with a picture of this source, in this context, with a
\* mask of this source: whatever was computed, cached or under way before.
FreshAnswers ==
  \A r \in Request : Answered(r) /\ requests[r].began = epoch =>
    IF Kind(r) = "mask" THEN requests[r].mask = source
    ELSE requests[r].picture = PictureNow(GradeOf(r))

\* No mask of an earlier source gets into the table of this one, however late
\* its compile ends ("must not join or populate the current source's cache").
MasksOfThisSource == \A key \in DOMAIN masks : masks[key] = source

\* A flight in the table belongs to the request that is computing it, and a
\* request keeps the flight it took until it gives it back, unless a change
\* took it away: a late owner never takes away the flight of the next one. (A
\* request that failed before it had a source is left out: FlightsAreOwned.)
NoSource(r) == requests[r].fails = "error" /\ requests[r].src = 0
FlightsMatchOwners ==
  \A table \in Tables :
    /\ \A key \in DOMAIN inflight[table] :
         LET r == inflight[table][key] IN
           KeyIn(r, table) = key /\ (table \in requests[r].owns \ requests[r].cut \/ NoSource(r))
    /\ \A r \in Request : table \in requests[r].owns \ requests[r].cut =>
         KeyIn(r, table) \in DOMAIN inflight[table] /\ inflight[table][KeyIn(r, table)] = r

\* The same mask of the current source is never compiled twice at once; an
\* edit of the grade does not make its waiters start the compile again.
OneMaskCompile ==
  \A r, q \in Request :
    r # q /\ requests[r].pc = "m_compute" /\ requests[q].pc = "m_compute"
      /\ requests[r].epoch = epoch /\ MaskKey(r) = MaskKey(q) => FALSE

\* The owner of a compile that its own page left is told exactly whether
\* somebody waits for the mask.
WaitersCounted ==
  /\ \A r \in Request : requests[r].waiting => MaskKey(r) \in DOMAIN waiters
  /\ \A key \in DOMAIN waiters :
       waiters[key] = Cardinality({r \in Request : requests[r].waiting /\ MaskKey(r) = key})

\* A kept peak was measured of the frame that is kept with it.
PeaksOfFrames ==
  \A key \in DOMAIN peaks :
    key \in DOMAIN frames /\ (key.epoch = epoch => peaks[key] = frames[key])

\* Nothing old is served or kept, whatever was under way when the source, the
\* context or the grade changed: answers, masks and peaks are of what they say.
NothingStale == FreshAnswers /\ MasksOfThisSource /\ PeaksOfFrames

\* Requests for one mask share its compile, and it goes on while one of them
\* waits, whichever of them leaves, fails or is overtaken (_flight_waiters).
MasksShared == OneMaskCompile /\ WaitersCounted

\* Waits for the flight of a frame whose source level could not be built: it is
\* in the table and nobody lands it (adjusted_frame, before its try block).
Stranded(r) ==
  /\ requests[r].pc = "f_acquire" /\ FrameKey(r) \in DOMAIN inflight.frame
  /\ NoSource(inflight.frame[FrameKey(r)])

\* Every request that begins is answered or refused, whoever it waits for, fails,
\* is overtaken or loses a flight. Left out is one that is stranded for ever; one
\* that is overtaken, or whose flight an edit clears, is not and ends as well.
Ends == \A r \in Request : <>[](requests[r].pc \in {"new", "done"} \/ Stranded(r))

\* Every request that begins is answered or refused: each flight that is waited
\* for is landed ("owns detaching and setting it", _acquire_frame_flight).
AllEnd == \A r \in Request : requests[r].pc # "new" ~> requests[r].pc = "done"

\* A flight in the table has an owner at work: "the caller that receives the
\* flight owns detaching and setting it" (_acquire_frame_flight).
FlightsAreOwned ==
  \A table \in Tables : \A key \in DOMAIN inflight[table] :
    table \in requests[inflight[table][key]].owns

\* A preview that a newer one overtook is not answered ("Stale preview request
\* dropped.").
OvertakenAreDropped ==
  \A r \in Request : Answered(r) /\ Preview(r) => ~requests[r].overtaken
=============================================================================
